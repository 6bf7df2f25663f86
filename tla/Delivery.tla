------------------------------ MODULE Delivery ------------------------------
(***************************************************************************)
(* What MailService.send promises its caller, with no socket, buffer, timer*)
(* or command in sight: it ends, and if it ends well the server has taken  *)
(* the message.  SmtpSession is shown to implement it.                     *)
(*                                                                         *)
(* The promise is one-sided: a message may have been taken, before or after*)
(* send() gave up, and be reported as failed.  And it is off once an answer*)
(* was misread: then send() may succeed with a message the server refused. *)
(***************************************************************************)

VARIABLES
    outcome,     \* "sending", "sent" or "failed"
    accepted,    \* the server has taken the message
    misread      \* what was left of one answer has been read as another

vars == <<outcome, accepted, misread>>

Init == outcome = "sending" /\ accepted = FALSE /\ misread = FALSE

Take ==
    /\ ~accepted
    /\ accepted' = TRUE
    /\ UNCHANGED <<outcome, misread>>

Misread ==
    /\ outcome = "sending" /\ ~misread
    /\ misread' = TRUE
    /\ UNCHANGED <<outcome, accepted>>

Succeed ==
    /\ outcome = "sending" /\ (accepted \/ misread)
    /\ outcome' = "sent"
    /\ UNCHANGED <<accepted, misread>>

GiveUp ==
    /\ outcome = "sending"
    /\ outcome' = "failed"
    /\ UNCHANGED <<accepted, misread>>

Next == Take \/ Misread \/ Succeed \/ GiveUp

Spec == Init /\ [][Next]_vars /\ WF_vars(Succeed \/ GiveUp)
=============================================================================
