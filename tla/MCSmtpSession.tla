---------------------------- MODULE MCSmtpSession ----------------------------
(***************************************************************************)
(* The last line of an answer is cut in text, before its "\n", before a    *)
(* number of more digits than a code, before a number that looks like a    *)
(* code, or before two of them, as in "354 go ahead |250 lines, |221 ...". *)
(***************************************************************************)
EXTENDS SmtpSession

Look(part, code) == [part |-> part, code |-> code]

MCRests ==
    {<<Look("text", 0)>>, <<Look("lf", 0)>>, <<Look("more", 250)>>, <<Look("head", 221)>>,
     <<Look("head", 250), Look("head", 221)>>}
=============================================================================
