-------------------------- MODULE Accounts_proofs --------------------------
(***************************************************************************)
(* Theorems about Accounts, for any number of users, e-mails, Google       *)
(* accounts and requests.                                                  *)
(***************************************************************************)
EXTENDS Accounts, TLAPS

\* One token: where it goes in this step.
TokenSeen(r, u) == req'[r].token = u /\ req[r].token = None => u \in active[r] \cup Active

TokensSeen == \A r \in Request : \A u \in User : TokenSeen(r, u)

\* A request comes to be q, which is a state it may be in.
Becomes(r, q) ==
    /\ req' = [req EXCEPT ![r] = q]
    /\ q \in RequestState
    /\ Prepared(q, row')
    /\ q.pc \in Admitted => q.user \in active[r] \cup Active \cup Active'
    /\ q.token \in {None, req[r].token} \cup active[r] \cup Active

\* What a step may do to the tables.
TablesSafe ==
    /\ row' \in [User -> Row \cup {None}]
    /\ cred' \subseteq Credential
    /\ mfaTokens' \subseteq User
    /\ \A u \in User : row[u] # None => row'[u] # None
    /\ \A c \in cred' : row'[c.user] # None
    /\ EmailIsUnique'

-----------------------------------------------------------------------------
(* Init *)

LEMMA InitInd == Init => IndInv
<1> SUFFICES ASSUME Init PROVE IndInv
  OBVIOUS
<1> USE AccountsAssumption
<1>1. Seeded(AdminEmail) \in Row /\ AdminCredential(Admin, None) \in Credential
  BY DEF Seeded, AdminCredential, Row, Status, Credential
<1>2. TypeOK
  <2>1. row \in [User -> Row \cup {None}] /\ cred \subseteq Credential
    BY <1>1 DEF Init
  <2>2. req \in [Request -> RequestState]
    BY DEF Init, RequestState, Idle, PC, Op
  <2>3. QED
    BY <2>1, <2>2 DEF Init, TypeOK
<1>3. AllPrepared
  <2>1. \A r \in Request : Prepared(req[r], row)
    BY DEF Init, Prepared, Idle
  <2>2. \A c \in cred : row[c.user] # None
    <3>1. Seeded(AdminEmail) # None
      BY <1>1
    <3>2. QED
      BY <3>1 DEF Init, AdminCredential
  <2>3. QED
    BY <2>1, <2>2 DEF AllPrepared
<1>4. SeenActive
  BY DEF Init, SeenActive, Admitted, Idle
<1>5. EmailIsUnique
  BY DEF Init, EmailIsUnique
<1>6. QED
  BY <1>2, <1>3, <1>4, <1>5 DEF IndInv

-----------------------------------------------------------------------------
(* The shape of a step *)

LEMMA Ready ==
    ASSUME IndInv, NEW r \in Request
    PROVE  /\ req[r] \in RequestState
           /\ Prepared(req[r], row)
           /\ req[r].pc \in Admitted => req[r].user \in active[r]
BY DEF IndInv, TypeOK, AllPrepared, SeenActive

\* A step that leaves the tables safe and one request in a state it may be in keeps the
\* invariant, and an access token that it signs goes to a user seen active.
LEMMA RequestStep ==
    ASSUME IndInv, History, TablesSafe, NEW r \in Request, NEW q, Becomes(r, q)
    PROVE  IndInv' /\ TokensSeen
<1>1. /\ req' \in [Request -> RequestState]
      /\ req'[r] = q
      /\ \A s \in Request \ {r} : req'[s] = req[s]
  BY DEF IndInv, TypeOK, Becomes
<1>2. Active \subseteq User /\ Active' \subseteq User
  BY DEF Active
<1>3. TypeOK'
  <2>1. active' \in [Request -> SUBSET User]
    <3>1. \A s \in Request : active[s] \cup Active \cup Active' \in SUBSET User
      BY <1>2 DEF IndInv, TypeOK
    <3>2. active' = [s \in Request |-> IF InFlight(s)' THEN active[s] \cup Active \cup Active' ELSE {}]
      BY DEF History
    <3>3. QED
      BY <3>1, <3>2
  <2>2. stale' \subseteq Request /\ moved' \subseteq Request /\ loose' \subseteq User
    BY DEF History, LeftLoose, IndInv, TypeOK
  <2>3. QED
    BY <1>1, <2>1, <2>2 DEF TypeOK, TablesSafe
<1>4. AllPrepared'
  <2>1. ASSUME NEW s \in Request PROVE Prepared(req'[s], row')
    <3>1. CASE s = r
      BY <3>1, <1>1 DEF Becomes
    <3>2. CASE s # r
      <4>1. req'[s] = req[s] /\ Prepared(req[s], row) /\ req[s].user \in User \cup {None}
        BY <3>2, <1>1, Ready DEF RequestState
      <4>2. QED
        BY <4>1 DEF Prepared, TablesSafe
    <3>3. QED
      BY <3>1, <3>2
  <2>2. QED
    BY <2>1 DEF AllPrepared, TablesSafe
<1>5. SeenActive'
  <2>1. SUFFICES ASSUME NEW s \in Request, req'[s].pc \in Admitted PROVE req'[s].user \in active'[s]
    BY DEF SeenActive, Admitted
  <2>2. InFlight(s)'
    BY <2>1 DEF InFlight, Admitted, Ended
  <2>3. active'[s] = active[s] \cup Active \cup Active'
    BY <2>2 DEF History
  <2>4. req'[s].user \in active[s] \cup Active \cup Active'
    <3>1. CASE s = r
      BY <3>1, <1>1, <2>1 DEF Becomes
    <3>2. CASE s # r
      BY <3>2, <1>1, <2>1, Ready
    <3>3. QED
      BY <3>1, <3>2
  <2>5. QED
    BY <2>3, <2>4
<1>6. TokensSeen
  <2>1. SUFFICES ASSUME NEW s \in Request, NEW u \in User, req'[s].token = u, req[s].token = None
                 PROVE  u \in active[s] \cup Active
    BY DEF TokensSeen, TokenSeen
  <2>2. s = r
    BY <1>1, <2>1, AccountsAssumption
  <2>3. QED
    BY <1>1, <2>1, <2>2, AccountsAssumption DEF Becomes
<1>7. QED
  BY <1>3, <1>4, <1>5, <1>6 DEF IndInv, TablesSafe

LEMMA Reading ==
    ASSUME IndInv, UNCHANGED tables, UNCHANGED mfaTokens
    PROVE  TablesSafe
BY DEF IndInv, TypeOK, AllPrepared, EmailIsUnique, TablesSafe, tables

LEMMA Ends ==
    ASSUME IndInv, NEW r \in Request, NEW outcome \in Ended, End(r, outcome)
    PROVE  \E q : Becomes(r, q)
<1> DEFINE q == [Idle EXCEPT !.pc = outcome]
<1>1. q \in RequestState /\ Prepared(q, row') /\ q.pc \notin Admitted /\ q.token = None
  BY DEF RequestState, Idle, PC, Op, Ended, Prepared, Admitted
<1>2. Becomes(r, q)
  BY <1>1 DEF Becomes, End
<1>3. QED
  BY <1>2

LEMMA Goes ==
    ASSUME IndInv, NEW r \in Request, NEW pc \in PC, Goto(r, pc),
           Prepared([req[r] EXCEPT !.pc = pc], row'),
           pc \in Admitted => req[r].user \in active[r] \cup Active \cup Active'
    PROVE  \E q : Becomes(r, q)
<1> DEFINE q == [req[r] EXCEPT !.pc = pc]
<1>1. req[r] \in RequestState
  BY Ready
<1>2. q \in RequestState /\ q.pc = pc /\ q.user = req[r].user /\ q.token = req[r].token
  BY <1>1 DEF RequestState
<1>3. req' = [req EXCEPT ![r] = q]
  BY DEF Goto
<1>4. Becomes(r, q)
  BY <1>2, <1>3 DEF Becomes
<1>5. QED
  BY <1>4

LEMMA Issues ==
    ASSUME IndInv, NEW r \in Request, req[r].pc \in {"stamping", "stamped"}, Issue(r, req[r].user)
    PROVE  \E q : Becomes(r, q)
<1> DEFINE q == [Idle EXCEPT !.pc = "done", !.token = req[r].user]
<1>1. req[r] \in RequestState /\ req[r].user \in active[r]
  BY Ready DEF Admitted
<1>2. /\ q \in RequestState /\ Prepared(q, row') /\ q.pc \notin Admitted
      /\ q.token = req[r].user
  BY <1>1 DEF RequestState, Idle, PC, Op, Prepared, Admitted
<1>3. Becomes(r, q)
  BY <1>1, <1>2 DEF Becomes, Issue
<1>4. QED
  BY <1>3

-----------------------------------------------------------------------------
(* Actions that read *)

\* What a reading step has to show.
LEMMA ReadingStep ==
    ASSUME IndInv, History, UNCHANGED tables, UNCHANGED mfaTokens, NEW r \in Request,
           \E q : Becomes(r, q)
    PROVE  IndInv' /\ TokensSeen
BY Reading, RequestStep

LEMMA StartStep ==
    ASSUME IndInv, NEW r \in Request, Start(r)
    PROVE  UNCHANGED tables /\ UNCHANGED mfaTokens /\ \E q : Becomes(r, q)
<1> USE AccountsAssumption
<1>0. UNCHANGED tables /\ UNCHANGED mfaTokens
  BY DEF Start, CheckNewEmail, FindByEmail, VerifyMfa, FindToRemove, FindProviderAuth, ReadUser,
         LookForAdmin
<1>1. row' = row /\ Active' = Active /\ row \in [User -> Row \cup {None}] /\ cred \subseteq Credential
  BY <1>0 DEF tables, Active, Live, IndInv, TypeOK
<1>2. ASSUME NEW outcome \in Ended, End(r, outcome) PROVE \E q : Becomes(r, q)
  BY <1>2, Ends
<1>3. ASSUME NEW q \in RequestState, Begin(r, q), Prepared(q, row), q.token = None,
             q.pc \in Admitted => q.user \in Active
      PROVE  \E p : Becomes(r, p)
  <2>1. Becomes(r, q)
    BY <1>1, <1>3 DEF Becomes, Begin
  <2>2. QED
    BY <2>1
<1>4. ASSUME NEW op \in {"register", "create"}, NEW e \in Email, CheckNewEmail(r, op, e)
      PROVE  \E q : Becomes(r, q)
  <2> DEFINE q == [Idle EXCEPT !.op = op, !.pc = "toInsert", !.email = e]
  <2>1. q \in RequestState /\ Prepared(q, row) /\ q.token = None /\ q.pc \notin Admitted
    BY DEF RequestState, Idle, PC, Op, Prepared, Admitted
  <2>2. QED
    BY <1>2, <1>3, <1>4, <2>1 DEF CheckNewEmail, Ended
<1>5. ASSUME NEW e \in Email, FindByEmail(r, e) PROVE \E q : Becomes(r, q)
  <2>1. ASSUME NEW u \in WithEmail(e), CanLogin(u), Begin(r, [Idle EXCEPT !.op = "login", !.pc = "found", !.user = u])
        PROVE  \E q : Becomes(r, q)
    <3> DEFINE q == [Idle EXCEPT !.op = "login", !.pc = "found", !.user = u]
    <3>1. u \in Active /\ u \in User /\ row[u] # None
      BY <2>1 DEF WithEmail, CanLogin, Active, Live
    <3>2. q \in RequestState /\ Prepared(q, row) /\ q.token = None /\ q.user = u
      BY <3>1 DEF RequestState, Idle, PC, Op, Prepared
    <3>3. QED
      BY <1>3, <2>1, <3>1, <3>2
  <2>2. QED
    BY <1>2, <1>5, <2>1 DEF FindByEmail, Ended
<1>6. ASSUME NEW u \in User, VerifyMfa(r, u) PROVE \E q : Becomes(r, q)
  <2> DEFINE q == [Idle EXCEPT !.op = "mfa", !.pc = "coded", !.user = u]
  <2>1. ASSUME \E c \in Local(u) : c.mfa
        PROVE  q \in RequestState /\ Prepared(q, row) /\ q.token = None /\ q.pc \notin Admitted
    <3>1. row[u] # None
      BY <2>1 DEF Local, IndInv, AllPrepared
    <3>2. QED
      BY <3>1 DEF RequestState, Idle, PC, Op, Prepared, Admitted
  <2>2. QED
    BY <1>2, <1>3, <1>6, <2>1 DEF VerifyMfa, Ended
<1>7. ASSUME NEW u \in User, FindToRemove(r, u) PROVE \E q : Becomes(r, q)
  <2> DEFINE q == [Idle EXCEPT !.op = "remove", !.pc = "toDelete", !.user = u]
  <2>1. Live(u) => q \in RequestState /\ Prepared(q, row) /\ q.token = None /\ q.pc \notin Admitted
    BY DEF RequestState, Idle, PC, Op, Prepared, Admitted, Live
  <2>2. QED
    BY <1>2, <1>3, <1>7, <2>1 DEF FindToRemove, Ended
<1>8. ASSUME NEW g \in Account, FindProviderAuth(r, g) PROVE \E q : Becomes(r, q)
  <2>1. ASSUME NEW c \in Of(g), Begin(r, [Idle EXCEPT !.op = "google", !.pc = "linked", !.user = c.user])
        PROVE  \E q : Becomes(r, q)
    <3> DEFINE q == [Idle EXCEPT !.op = "google", !.pc = "linked", !.user = c.user]
    <3>1. c \in Credential /\ row[c.user] # None
      BY <1>1, <2>1 DEF Of, IndInv, AllPrepared
    <3>2. q \in RequestState /\ Prepared(q, row) /\ q.token = None /\ q.pc \notin Admitted
      BY <3>1 DEF RequestState, Idle, PC, Op, Prepared, Admitted, Credential
    <3>3. QED
      BY <1>3, <2>1, <3>2
  <2> DEFINE p == [Idle EXCEPT !.op = "google", !.pc = "unlinked", !.account = g, !.email = EmailOf[g]]
  <2>2. p \in RequestState /\ Prepared(p, row) /\ p.token = None /\ p.pc \notin Admitted
    BY DEF RequestState, Idle, PC, Op, Prepared, Admitted
  <2>3. QED
    BY <1>3, <1>8, <2>1, <2>2 DEF FindProviderAuth
<1>9. ASSUME NEW u \in User, NEW e \in Email \cup {None}, NEW s \in Status \cup {None}, ReadUser(r, u, e, s)
      PROVE  \E q : Becomes(r, q)
  <2> DEFINE pc == IF e \in {None, row[u].email} THEN "toSave" ELSE "toCheck"
             q == [Idle EXCEPT !.op = "update", !.user = u, !.email = e, !.status = s,
                               !.entity = Edited(row[u], e, s), !.pc = pc]
  <2>1. ASSUME Live(u)
        PROVE  q \in RequestState /\ Prepared(q, row) /\ q.token = None /\ q.pc \notin Admitted
    <3>1. row[u] \in Row
      BY <1>1, <2>1 DEF Live
    <3>2. Edited(row[u], e, s) \in Row
      BY <3>1 DEF Edited, Row
    <3>3. q \in RequestState /\ q.user = u /\ q.entity = Edited(row[u], e, s) /\ q.token = None
          /\ q.pc = pc /\ q.email = e
      BY <3>2 DEF RequestState, Idle, PC, Op
    <3>4. QED
      BY <2>1, <3>2, <3>3 DEF Prepared, Admitted, Live
  <2>2. QED
    BY <1>2, <1>3, <1>9, <2>1 DEF ReadUser, Ended
<1>10. CASE LookForAdmin(r)
  <2> DEFINE q == [Idle EXCEPT !.op = "seed", !.pc = "seeding", !.email = AdminEmail]
  <2>1. q \in RequestState /\ Prepared(q, row) /\ q.token = None /\ q.pc \notin Admitted
    BY DEF RequestState, Idle, PC, Op, Prepared, Admitted
  <2>2. QED
    BY <1>2, <1>3, <1>10, <2>1 DEF LookForAdmin, Ended
<1>11. QED
  BY <1>0, <1>4, <1>5, <1>6, <1>7, <1>8, <1>9, <1>10 DEF Start

LEMMA FailStep ==
    ASSUME IndInv, NEW r \in Request, Fail(r)
    PROVE  UNCHANGED tables /\ UNCHANGED mfaTokens /\ \E q : Becomes(r, q)
BY Ends DEF Fail, Ended

LEMMA ContinueReading ==
    ASSUME IndInv, NEW r \in Request,
           \/ UpdateLastLogin(r) \/ FindRegistered(r) \/ FindVerified(r) \/ FindLinked(r) \/ FindByProfile(r)
           \/ FindExistingProvider(r) \/ FindCreated(r) \/ CheckEmail(r) \/ Load(r)
    PROVE  UNCHANGED tables /\ UNCHANGED mfaTokens /\ \E q : Becomes(r, q)
<1> USE AccountsAssumption
<1>0. UNCHANGED tables /\ UNCHANGED mfaTokens
  BY DEF UpdateLastLogin, FindRegistered, FindVerified, FindLinked, FindByProfile, FindExistingProvider,
         FindCreated, CheckEmail, Load
<1>1. /\ row' = row /\ Active' = Active /\ row \in [User -> Row \cup {None}]
      /\ req[r] \in RequestState /\ Prepared(req[r], row)
      /\ req[r].pc \in Admitted => req[r].user \in active[r]
  BY <1>0, Ready DEF tables, Active, Live, IndInv, TypeOK
<1>2. ASSUME NEW outcome \in Ended, End(r, outcome) PROVE \E q : Becomes(r, q)
  BY <1>2, Ends
\* To where the user is all that is needed.
<1>3. ASSUME NEW pc \in {"stamping", "stamped", "toLink"}, Goto(r, pc), req[r].user \in active[r] \cup Active
      PROVE  \E q : Becomes(r, q)
  <2>1. req[r].user # None
    <3>1. active[r] \subseteq User /\ Active \subseteq User
      BY DEF IndInv, TypeOK, Active
    <3>2. QED
      BY <1>3, <3>1
  <2>2. pc \in PC /\ Prepared([req[r] EXCEPT !.pc = pc], row')
    BY <1>1, <1>3, <2>1 DEF Prepared, PC, RequestState
  <2>3. QED
    BY <1>3, <2>2, Goes
<1>4. CASE UpdateLastLogin(r)
  BY <1>1, <1>3, <1>4, Issues DEF UpdateLastLogin, At, Admitted
<1>5. CASE FindRegistered(r)
  BY <1>1, <1>2, <1>5, Issues DEF FindRegistered, At, Ended
<1>6. CASE FindVerified(r)
  <2>1. Live(req[r].user) /\ CanLogin(req[r].user) => req[r].user \in Active
    BY <1>1, <1>6 DEF FindVerified, At, Prepared, RequestState, Active, CanLogin
  <2>2. QED
    BY <1>2, <1>3, <1>6, <2>1 DEF FindVerified, Ended
<1>7. CASE FindLinked(r)
  <2>1. Live(req[r].user) /\ CanLogin(req[r].user) => req[r].user \in Active
    BY <1>1, <1>7 DEF FindLinked, At, Prepared, RequestState, Active, CanLogin
  <2>2. QED
    BY <1>2, <1>3, <1>7, <2>1 DEF FindLinked, Ended
<1>8. CASE FindByProfile(r)
  <2>1. ASSUME NEW u \in WithEmail(req[r].email), CanLogin(u), About(r, u, "found")
        PROVE  \E q : Becomes(r, q)
    <3> DEFINE q == [req[r] EXCEPT !.pc = "found", !.user = u]
    <3>1. u \in Active /\ u \in User /\ row[u] # None
      BY <2>1 DEF WithEmail, CanLogin, Active, Live
    <3>2. q \in RequestState /\ q.pc = "found" /\ q.user = u /\ q.token = req[r].token
      BY <1>1, <3>1 DEF RequestState, PC
    <3>3. req' = [req EXCEPT ![r] = q]
      BY <2>1 DEF About
    <3>4. Becomes(r, q)
      BY <1>1, <3>1, <3>2, <3>3 DEF Becomes, Prepared
    <3>5. QED
      BY <3>4
  <2>2. ASSUME Goto(r, "toCheck") PROVE \E q : Becomes(r, q)
    <3>1. req[r].email # None /\ req[r].pc = "unlinked"
      BY <1>1, <1>8 DEF FindByProfile, At, Prepared
    <3>2. QED
      BY <1>1, <2>2, <3>1, Goes DEF Prepared, Admitted, PC, RequestState
  <2>3. QED
    BY <1>2, <1>8, <2>1, <2>2 DEF FindByProfile, Ended
<1>9. CASE FindExistingProvider(r)
  BY <1>1, <1>2, <1>3, <1>9 DEF FindExistingProvider, At, Admitted, Ended
<1>10. CASE FindCreated(r)
  BY <1>1, <1>2, <1>3, <1>10 DEF FindCreated, At, Admitted, Ended
<1>11. CASE CheckEmail(r)
  <2>1. ASSUME NEW pc \in {"toSave", "toInsert"}, Goto(r, pc), (pc = "toSave") = (req[r].op = "update")
        PROVE  \E q : Becomes(r, q)
    <3>1. req[r].pc = "toCheck"
      BY <1>11 DEF CheckEmail, At
    <3>2. pc \in PC /\ pc \notin Admitted /\ Prepared([req[r] EXCEPT !.pc = pc], row')
      BY <1>1, <2>1, <3>1 DEF Prepared, PC, Admitted, RequestState
    <3>3. QED
      BY <2>1, <3>2, Goes
  <2>2. QED
    BY <1>2, <1>11, <2>1 DEF CheckEmail, Ended
<1>12. CASE Load(r)
  <2> DEFINE q == [req[r] EXCEPT !.pc = "loaded", !.loaded = row[req[r].user]]
  <2>1. req[r].user \in User /\ row[req[r].user] \in Row
    BY <1>1, <1>12 DEF Load, At, Prepared, RequestState
  <2>2. /\ q \in RequestState /\ q.pc = "loaded" /\ q.loaded \in Row /\ q.token = req[r].token
        /\ q.user = req[r].user /\ q.entity = req[r].entity
    BY <1>1, <2>1 DEF RequestState, PC
  <2>3. Prepared(q, row')
    BY <1>1, <1>12, <2>2 DEF Load, At, Prepared
  <2>4. req' = [req EXCEPT ![r] = q]
    BY <1>12 DEF Load
  <2>5. Becomes(r, q)
    BY <2>2, <2>3, <2>4 DEF Becomes, Admitted
  <2>6. QED
    BY <1>0, <2>5
<1>13. QED
  BY <1>0, <1>4, <1>5, <1>6, <1>7, <1>8, <1>9, <1>10, <1>11, <1>12

-----------------------------------------------------------------------------
(* Actions that write *)

\* A row is inserted or replaced, and its e-mail is nobody else's.
LEMMA RowWritten ==
    ASSUME IndInv, NEW u \in User, NEW new \in Row, ~Clashes(u, new),
           row' = [row EXCEPT ![u] = new], UNCHANGED <<cred, mfaTokens>>
    PROVE  TablesSafe
<1>1. \A v \in User : row'[v] = IF v = u THEN new ELSE row[v]
  BY DEF IndInv, TypeOK
<1>2. row' \in [User -> Row \cup {None}] /\ \A v \in User : row[v] # None => row'[v] # None
  BY <1>1, AccountsAssumption DEF IndInv, TypeOK
<1>3. EmailIsUnique'
  BY <1>1 DEF EmailIsUnique, IndInv, Clashes
<1>4. \A c \in cred : row'[c.user] # None
  BY <1>2 DEF IndInv, TypeOK, AllPrepared, Credential
<1>5. QED
  BY <1>2, <1>3, <1>4 DEF TablesSafe, IndInv, TypeOK

LEMMA CredentialAdded ==
    ASSUME IndInv, NEW r \in Request, req[r].user # None,
           cred' = cred \cup {NewCredential(r)}, UNCHANGED <<row, mfaTokens>>
    PROVE  TablesSafe
<1>1. NewCredential(r) \in Credential /\ row[NewCredential(r).user] # None
  BY Ready DEF NewCredential, Credential, RequestState, Prepared
<1>2. QED
  BY <1>1 DEF TablesSafe, IndInv, TypeOK, AllPrepared, EmailIsUnique

LEMMA ContinueWriting ==
    ASSUME IndInv, NEW r \in Request,
           \/ \E u \in User, s \in Status : InsertUser(r, u, s)
           \/ CreateLocalCredential(r) \/ CreateGoogleCredential(r) \/ ComparePassword(r)
           \/ UpdateUser(r) \/ SoftDelete(r) \/ \E u \in User : SeedAdmin(r, u)
    PROVE  TablesSafe /\ \E q : Becomes(r, q)
<1> USE AccountsAssumption
<1>1. /\ row \in [User -> Row \cup {None}] /\ cred \subseteq Credential /\ mfaTokens \subseteq User
      /\ req[r] \in RequestState /\ Prepared(req[r], row)
      /\ req[r].pc \in Admitted => req[r].user \in active[r]
  BY Ready DEF IndInv, TypeOK
<1>2. ASSUME NEW outcome \in Ended, End(r, outcome) PROVE \E q : Becomes(r, q)
  BY <1>2, Ends
<1>3. ASSUME UNCHANGED row, Goto(r, "stamping"), req[r].pc \in Admitted
      PROVE  \E q : Becomes(r, q)
  <2>1. req[r].user # None
    BY <1>1, <1>3 DEF IndInv, TypeOK
  <2>2. "stamping" \in PC /\ Prepared([req[r] EXCEPT !.pc = "stamping"], row')
    BY <1>1, <1>3, <2>1 DEF Prepared, PC, RequestState
  <2>3. QED
    BY <1>1, <1>3, <2>2, Goes
<1>4. ASSUME NEW u \in User, NEW s \in Status, InsertUser(r, u, s)
      PROVE  TablesSafe /\ \E q : Becomes(r, q)
  <2> DEFINE new == [email |-> req[r].email, status |-> s, deleted |-> FALSE]
  <2>1. new \in Row /\ req[r].pc = "toInsert"
    BY <1>1, <1>4 DEF InsertUser, At, Prepared, RequestState, Row
  <2>2. CASE Clashes(u, new)
    <3>1. End(r, "failed") /\ UNCHANGED tables /\ UNCHANGED mfaTokens
      BY <1>4, <2>2 DEF InsertUser, tables
    <3>2. QED
      BY <1>2, <3>1, Reading DEF Ended
  <2>3. CASE ~Clashes(u, new)
    <3>1. row' = [row EXCEPT ![u] = new] /\ UNCHANGED <<cred, mfaTokens>>
      BY <1>4, <2>3 DEF InsertUser
    <3>2. TablesSafe
      BY <2>1, <2>3, <3>1, RowWritten
    <3>3. CASE req[r].op = "create"
      <4>1. End(r, "done")
        BY <1>4, <2>3, <3>3 DEF InsertUser
      <4>2. QED
        BY <1>2, <3>2, <4>1 DEF Ended
    <3>4. CASE req[r].op # "create"
      <4> DEFINE q == [req[r] EXCEPT !.pc = "inserted", !.user = u]
      <4>1. req' = [req EXCEPT ![r] = q] /\ s = "ACTIVE"
        BY <1>4, <2>3, <3>4 DEF InsertUser, About
      <4>2. row'[u] = new /\ new # None
        BY <1>1, <2>1, <3>1
      <4>3. u \in Active'
        BY <4>1, <4>2 DEF Active, Live
      <4>4. q \in RequestState /\ q.pc = "inserted" /\ q.user = u /\ q.token = req[r].token
        BY <1>1 DEF RequestState, PC
      <4>5. Becomes(r, q)
        BY <4>1, <4>2, <4>3, <4>4 DEF Becomes, Prepared
      <4>6. QED
        BY <3>2, <4>5
    <3>5. QED
      BY <3>3, <3>4
  <2>4. QED
    BY <2>2, <2>3
<1>5. CASE CreateLocalCredential(r) \/ CreateGoogleCredential(r)
  <2>1. req[r].pc \in Admitted /\ req[r].user # None
    BY <1>1, <1>5 DEF CreateLocalCredential, CreateGoogleCredential, At, Admitted, Prepared
  <2>2. Goto(r, "stamping") /\ cred' = cred \cup {NewCredential(r)} /\ UNCHANGED <<row, mfaTokens>>
    BY <1>5 DEF CreateLocalCredential, CreateGoogleCredential
  <2>3. QED
    BY <1>3, <2>1, <2>2, CredentialAdded
<1>6. CASE ComparePassword(r)
  <2>1. req[r].pc \in Admitted /\ req[r].user \in User
    BY <1>1, <1>6 DEF ComparePassword, At, Admitted, Prepared, RequestState
  <2>2. UNCHANGED tables /\ mfaTokens' \subseteq User
    BY <1>1, <1>6, <2>1 DEF ComparePassword
  <2>3. TablesSafe
    BY <2>2 DEF TablesSafe, tables, IndInv, TypeOK, AllPrepared, EmailIsUnique
  <2>4. UNCHANGED row
    BY <2>2 DEF tables
  <2>5. End(r, "rejected") \/ End(r, "done") \/ Goto(r, "stamping")
    BY <1>6 DEF ComparePassword
  <2>6. QED
    BY <1>2, <1>3, <2>1, <2>3, <2>4, <2>5 DEF Ended
<1>7. CASE UpdateUser(r)
  <2> DEFINE u == req[r].user
             new == Saved(row[u], req[r].loaded, req[r].entity)
  <2>1. u \in User /\ row[u] \in Row /\ req[r].loaded \in Row /\ req[r].entity \in Row
    BY <1>1, <1>7 DEF UpdateUser, At, Prepared, RequestState
  <2>2. new \in Row
    BY <2>1 DEF Saved, Row
  <2>3. CASE Clashes(u, new)
    <3>1. End(r, "failed") /\ UNCHANGED tables /\ UNCHANGED mfaTokens
      BY <1>7, <2>3 DEF UpdateUser, tables
    <3>2. QED
      BY <1>2, <3>1, Reading DEF Ended
  <2>4. CASE ~Clashes(u, new)
    <3>1. End(r, "done") /\ row' = [row EXCEPT ![u] = new] /\ UNCHANGED <<cred, mfaTokens>>
      BY <1>7, <2>4 DEF UpdateUser
    <3>2. TablesSafe
      BY <2>1, <2>2, <2>4, <3>1, RowWritten
    <3>3. QED
      BY <1>2, <3>1, <3>2 DEF Ended
  <2>5. QED
    BY <2>3, <2>4
<1>8. CASE SoftDelete(r)
  <2> DEFINE u == req[r].user
             new == [row[u] EXCEPT !.deleted = TRUE]
  <2>1. u \in User /\ row[u] \in Row /\ row[u] # None
    BY <1>1, <1>8 DEF SoftDelete, At, Prepared, RequestState
  <2>2. new \in Row /\ new.email = row[u].email
    BY <2>1 DEF Row
  <2>3. ~Clashes(u, new)
    BY <2>1, <2>2 DEF Clashes, IndInv, EmailIsUnique
  <2>4. row' = [row EXCEPT ![u] = new] /\ UNCHANGED <<cred, mfaTokens>> /\ End(r, "done")
    BY <1>8 DEF SoftDelete
  <2>5. TablesSafe
    BY <2>1, <2>2, <2>3, <2>4, RowWritten
  <2>6. QED
    BY <1>2, <2>4, <2>5 DEF Ended
<1>9. ASSUME NEW u \in User, SeedAdmin(r, u)
      PROVE  TablesSafe /\ \E q : Becomes(r, q)
  <2> DEFINE new == Seeded(AdminEmail)
             c == AdminCredential(u, r)
  <2>1. new \in Row /\ new # None /\ c \in Credential /\ c.user = u
    <3>1. new \in Row
      BY DEF Seeded, Row, Status
    <3>2. c \in Credential /\ c.user = u
      BY DEF AdminCredential, Credential
    <3>3. QED
      BY <3>1, <3>2
  <2>2. CASE Clashes(u, new)
    <3>1. End(r, "failed") /\ UNCHANGED tables /\ UNCHANGED mfaTokens
      BY <1>9, <2>2 DEF SeedAdmin
    <3>2. QED
      BY <1>2, <3>1, Reading DEF Ended
  <2>3. CASE ~Clashes(u, new)
    <3>1. /\ row' = [row EXCEPT ![u] = new] /\ cred' = cred \cup {c}
          /\ End(r, "done") /\ mfaTokens' = mfaTokens
      BY <1>9, <2>3 DEF SeedAdmin
    <3> HIDE DEF new, c
    <3>2. \A v \in User : row'[v] = IF v = u THEN new ELSE row[v]
      BY <1>1, <3>1
    <3>3. row' \in [User -> Row \cup {None}] /\ \A v \in User : row[v] # None => row'[v] # None
      BY <1>1, <2>1, <3>1, <3>2
    <3>4. EmailIsUnique'
      BY <2>3, <3>2 DEF EmailIsUnique, IndInv, Clashes
    <3>5. \A d \in cred' : row'[d.user] # None
      BY <1>1, <2>1, <3>1, <3>2, <3>3 DEF IndInv, AllPrepared, Credential
    <3>6. TablesSafe
      BY <1>1, <2>1, <3>1, <3>3, <3>4, <3>5 DEF TablesSafe
    <3>7. QED
      BY <1>2, <3>1, <3>6 DEF Ended
  <2>4. QED
    BY <2>2, <2>3
<1>10. QED
  BY <1>4, <1>5, <1>6, <1>7, <1>8, <1>9

-----------------------------------------------------------------------------
(* Every step *)

LEMMA NobodyMoves ==
    ASSUME IndInv, History, TablesSafe, UNCHANGED <<row, req>>
    PROVE  IndInv' /\ TokensSeen
<1>1. CASE \E r \in Request : TRUE
  <2>1. PICK r \in Request : TRUE
    BY <1>1
  <2>2. Becomes(r, req[r])
    BY Ready DEF Becomes, IndInv, TypeOK, Prepared
  <2>3. QED
    BY <2>2, RequestStep
<1>2. CASE Request = {}
  BY <1>2 DEF IndInv, TypeOK, AllPrepared, SeenActive, TokensSeen, TablesSafe, History, LeftLoose
<1>3. QED
  BY <1>1, <1>2

LEMMA NextStep == IndInv /\ Next => IndInv' /\ TokensSeen
<1> SUFFICES ASSUME IndInv, Next PROVE IndInv' /\ TokensSeen
  OBVIOUS
<1>0. History
  BY DEF Next
<1>1. ASSUME NEW r \in Request, Start(r) PROVE IndInv' /\ TokensSeen
  BY <1>0, <1>1, StartStep, ReadingStep
<1>2. ASSUME NEW r \in Request, Continue(r) PROVE IndInv' /\ TokensSeen
  <2>1. CASE \/ UpdateLastLogin(r) \/ FindRegistered(r) \/ FindVerified(r) \/ FindLinked(r) \/ FindByProfile(r)
             \/ FindExistingProvider(r) \/ FindCreated(r) \/ CheckEmail(r) \/ Load(r)
    BY <1>0, <2>1, ContinueReading, ReadingStep
  <2>2. CASE \/ \E u \in User, s \in Status : InsertUser(r, u, s)
             \/ CreateLocalCredential(r) \/ CreateGoogleCredential(r) \/ ComparePassword(r)
             \/ UpdateUser(r) \/ SoftDelete(r) \/ \E u \in User : SeedAdmin(r, u)
    BY <1>0, <2>2, ContinueWriting, RequestStep
  <2>3. QED
    BY <1>2, <2>1, <2>2 DEF Continue
<1>3. ASSUME NEW r \in Request, Fail(r) PROVE IndInv' /\ TokensSeen
  BY <1>0, <1>3, FailStep, ReadingStep
<1>4. ASSUME NEW u \in User, MfaTokenExpires(u) PROVE IndInv' /\ TokensSeen
  <2>1. TablesSafe
    BY <1>4 DEF MfaTokenExpires, tables, TablesSafe, IndInv, TypeOK, AllPrepared, EmailIsUnique
  <2>2. QED
    BY <1>0, <1>4, <2>1, NobodyMoves DEF MfaTokenExpires, tables
<1>5. CASE AllDone
  <2>1. TablesSafe
    BY <1>5, Reading DEF AllDone
  <2>2. QED
    BY <1>0, <1>5, <2>1, NobodyMoves DEF AllDone, tables
<1>6. QED
  BY <1>1, <1>2, <1>3, <1>4, <1>5 DEF Next

LEMMA BoxStep == IndInv /\ [Next]_vars => IndInv' /\ [TokensSeen]_vars
<1> SUFFICES ASSUME IndInv, [Next]_vars PROVE IndInv' /\ [TokensSeen]_vars
  OBVIOUS
<1>1. CASE Next
  BY <1>1, NextStep
<1>2. CASE UNCHANGED vars
  BY <1>2 DEF vars, IndInv, TypeOK, AllPrepared, SeenActive, EmailIsUnique, Prepared
<1>3. QED
  BY <1>1, <1>2

\* Whoever a request admits was ACTIVE while it ran, and the users that requests and
\* credentials refer to have rows: the invariant the properties follow from.
THEOREM Inductive == Spec => []IndInv
<1>1. IndInv /\ [Next]_vars => IndInv'
  BY BoxStep
<1>2. QED
  BY InitInd, <1>1, PTL DEF Spec

-----------------------------------------------------------------------------
\* Two users never have the same e-mail, removed ones included, whatever the
\* registrations, Google logins and updates that looked for it had seen.
THEOREM EmailsStayUnique == Spec => []EmailIsUnique
<1>1. IndInv => EmailIsUnique
  BY DEF IndInv
<1>2. QED
  BY Inductive, <1>1, PTL

\* An access token goes to a user who was there and ACTIVE at some moment of the very
\* request, after a password, an MFA code, a linked Google account or a registration.
THEOREM TokensGoToActiveUsers == Spec => TokenForActive
<1>1. IndInv /\ [Next]_vars => [TokensSeen]_vars
  BY BoxStep
<1>2. Spec => [][TokensSeen]_vars
  BY Inductive, <1>1, PTL DEF Spec
<1>3. QED
  BY <1>2 DEF TokenForActive, TokensSeen, TokenSeen
-----------------------------------------------------------------------------
(* Users without a credential *)

Between(r, u) == req[r].user = u /\ req[r].pc \in {"inserted", "toLink"}

\* A request between its inserts either goes on to the second, or leaves the user loose.
LEMMA BetweenStep ==
    ASSUME IndInv, NEW r \in Request, NEW u \in User, Between(r, u), Continue(r) \/ Fail(r)
    PROVE  Between(r, u)' \/ Credentialed(u)' \/ req'[r].pc \in Ended
<1>1. req[r] \in RequestState /\ req \in [Request -> RequestState]
  BY DEF IndInv, TypeOK
<1>2. CASE CreateLocalCredential(r) \/ CreateGoogleCredential(r)
  <2>1. NewCredential(r) \in cred' /\ NewCredential(r).user = u
    BY <1>2 DEF CreateLocalCredential, CreateGoogleCredential, NewCredential, Between
  <2>2. QED
    BY <2>1 DEF Credentialed
<1>3. CASE FindCreated(r)
  <2>1. Goto(r, "toLink") \/ End(r, "rejected")
    BY <1>3 DEF FindCreated
  <2>2. QED
    BY <1>1, <2>1 DEF Goto, End, Idle, Ended, Between, RequestState
<1>4. CASE Fail(r)
  BY <1>1, <1>4 DEF Fail, End, Idle, Ended
<1>5. QED
  BY <1>2, <1>3, <1>4
     DEF Between, Continue, At, InsertUser, UpdateLastLogin, FindRegistered, ComparePassword, FindVerified,
         FindLinked, FindByProfile, FindExistingProvider, CheckEmail, Load, UpdateUser, SoftDelete, SeedAdmin

\* What a step does to the requests it is not of, and to the credentials.
LEMMA OneMoves ==
    ASSUME IndInv, NEW r \in Request, Start(r) \/ Continue(r) \/ Fail(r)
    PROVE  cred \subseteq cred' /\ \A s \in Request \ {r} : req'[s] = req[s]
<1>1. req \in [Request -> RequestState]
  BY DEF IndInv, TypeOK
<1>2. CASE Start(r) \/ Fail(r)
  BY <1>1, <1>2 DEF Start, Fail, CheckNewEmail, FindByEmail, VerifyMfa, FindToRemove, FindProviderAuth, ReadUser,
                    LookForAdmin, Begin, End, tables
<1>3. CASE Continue(r)
  BY <1>1, <1>3 DEF Continue, InsertUser, CreateLocalCredential, UpdateLastLogin, FindRegistered, ComparePassword,
                    FindVerified, FindLinked, FindByProfile, FindExistingProvider, FindCreated,
                    CreateGoogleCredential, CheckEmail, Load, UpdateUser, SoftDelete, SeedAdmin,
                    Goto, About, End, Issue, tables
<1>4. QED
  BY <1>2, <1>3

\* A user who appears comes from POST /users, from the first insert of two, or from
\* admin.seed with a credential.
LEMMA NewUser ==
    ASSUME IndInv, NEW r \in Request, Start(r) \/ Continue(r) \/ Fail(r),
           NEW u \in User, row[u] = None, row'[u] # None
    PROVE  \/ req[r].op = "create" /\ req'[r] # req[r]
           \/ Between(r, u)'
           \/ Credentialed(u)'
<1>1. req[r] \in RequestState /\ req \in [Request -> RequestState] /\ row \in [User -> Row \cup {None}]
  BY DEF IndInv, TypeOK
<1>2. PICK v \in User : (\E s \in Status : InsertUser(r, v, s)) \/ SeedAdmin(r, v) \/ UpdateUser(r) \/ SoftDelete(r)
  BY DEF Start, Continue, Fail, CheckNewEmail, FindByEmail, VerifyMfa, FindToRemove, FindProviderAuth, ReadUser,
         LookForAdmin, CreateLocalCredential, UpdateLastLogin, FindRegistered, ComparePassword, FindVerified,
         FindLinked, FindByProfile, FindExistingProvider, FindCreated, CreateGoogleCredential, CheckEmail, Load,
         tables
<1>3. CASE UpdateUser(r) \/ SoftDelete(r)
  <2>1. row[req[r].user] # None /\ req[r].user # u
    BY <1>3, Ready DEF UpdateUser, SoftDelete, At, Prepared
  <2>2. row'[u] = row[u]
    BY <1>1, <1>3, <2>1 DEF UpdateUser, SoftDelete
  <2>3. QED
    BY <2>2
<1>4. ASSUME NEW s \in Status, InsertUser(r, v, s)
      PROVE  (req[r].op = "create" /\ req'[r] # req[r]) \/ Between(r, u)'
  <2>1. v = u /\ req[r].pc = "toInsert"
    BY <1>1, <1>4 DEF InsertUser, At
  <2>2. (End(r, "done") /\ req[r].op = "create") \/ About(r, u, "inserted")
    BY <1>1, <1>4, <2>1 DEF InsertUser
  <2>3. QED
    BY <1>1, <2>1, <2>2 DEF End, Idle, About, Between, RequestState
<1>5. CASE SeedAdmin(r, v)
  <2>1. v = u /\ AdminCredential(v, r) \in cred'
    BY <1>1, <1>5 DEF SeedAdmin, tables
  <2>2. QED
    BY <2>1 DEF AdminCredential, Credentialed
<1>6. QED
  BY <1>2, <1>3, <1>4, <1>5

LEMMA OrphanStep == IndInv /\ OrphanHasACause /\ [Next]_vars => OrphanHasACause'
<1> SUFFICES ASSUME IndInv, OrphanHasACause, [Next]_vars,
                    NEW u \in User, row'[u] # None, ~Credentialed(u)', u \notin loose'
             PROVE  \E r \in Request : Between(r, u)'
  BY DEF OrphanHasACause, Between
<1>1. CASE UNCHANGED vars
  BY <1>1 DEF vars, OrphanHasACause, Credentialed, Between
<1>2. ASSUME History, cred \subseteq cred' PROVE ~Credentialed(u) /\ u \notin loose /\ u \notin LeftLoose
  BY <1>2 DEF History, Credentialed
<1>3. ASSUME NEW r \in Request, Start(r) \/ Continue(r) \/ Fail(r), History
      PROVE  \E s \in Request : Between(s, u)'
  <2>1. cred \subseteq cred' /\ \A s \in Request \ {r} : req'[s] = req[s]
    BY <1>3, OneMoves
  <2>2. ~Credentialed(u) /\ u \notin loose /\ u \notin LeftLoose
    BY <1>2, <1>3, <2>1
  <2>3. CASE row[u] = None
    BY <1>3, <2>2, <2>3, NewUser DEF LeftLoose
  <2>4. CASE row[u] # None
    <3>1. PICK s \in Request : Between(s, u)
      BY <2>2, <2>4 DEF OrphanHasACause, Between
    <3>2. CASE s # r
      BY <2>1, <3>1, <3>2 DEF Between
    <3>3. CASE s = r
      <4>1. Continue(r) \/ Fail(r)
        BY <1>3, <3>1, <3>3 DEF Between, Start, CheckNewEmail, FindByEmail, VerifyMfa, FindToRemove, FindProviderAuth,
              ReadUser, LookForAdmin, Begin, At
      <4>2. Between(r, u)' \/ req'[r].pc \in Ended
        BY <3>1, <3>3, <4>1, BetweenStep
      <4>3. req'[r].pc \notin Ended
        BY <2>2, <3>1, <3>3 DEF LeftLoose, Between
      <4>4. QED
        BY <4>2, <4>3
    <3>4. QED
      BY <3>2, <3>3
  <2>5. QED
    BY <2>3, <2>4
<1>4. ASSUME UNCHANGED tables, UNCHANGED req, History
      PROVE  \E s \in Request : Between(s, u)'
  BY <1>2, <1>4 DEF tables, OrphanHasACause, Between, Credentialed
<1>5. QED
  BY <1>1, <1>3, <1>4 DEF Next, MfaTokenExpires, AllDone

\* Whatever fails, and whichever requests overlap, a user without a credential was made
\* so by POST /users or by a registration or login that ended between its two inserts.
THEOREM OrphansHaveCauses == Spec => []OrphanHasACause
<1>1. Init => OrphanHasACause
  <2> SUFFICES ASSUME Init, NEW u \in User, row[u] # None
               PROVE  Credentialed(u)
    BY DEF OrphanHasACause
  <2>1. row[u] = (IF u = Admin THEN Seeded(AdminEmail) ELSE None) /\ cred = {AdminCredential(Admin, None)}
    BY Zenon DEF Init
  <2>2. u = Admin
    BY <2>1
  <2>3. AdminCredential(u, None) \in cred /\ AdminCredential(u, None).user = u
    BY <2>1, <2>2 DEF AdminCredential
  <2>4. QED
    BY <2>3 DEF Credentialed
<1>2. QED
  BY <1>1, Inductive, OrphanStep, PTL DEF Spec

-----------------------------------------------------------------------------
(* What requests remember *)

Steps(r) == Start(r) \/ Continue(r) \/ Fail(r)

Holds(r) ==
    /\ OnCourse(r)
    /\ r \notin stale => Fresh(r)
    /\ r \notin moved => SameUser(r)

\* History forgets nothing about a request that still matters.
LEMMA Kept ==
    ASSUME History, NEW s \in Request, Matters(s)'
    PROVE  /\ s \notin stale' => s \notin stale /\ ~Overtaken(s)
           /\ s \notin moved' => s \notin moved /\ ~EmailMoved(s)
BY DEF History

LEMMA KeptBy ==
    ASSUME IndInv, History, cred \subseteq cred', NEW c \in cred
    PROVE  /\ c.by \notin stale' => c.by \notin stale
           /\ c.by \notin moved' => c.by \notin moved
<1>1. stale \subseteq Request /\ moved \subseteq Request
  BY DEF IndInv, TypeOK
<1>2. c.by \in Request => Matters(c.by)'
  BY DEF Matters
<1>3. QED
  BY <1>1, <1>2, Kept

LEMMA StillFresh ==
    ASSUME IndInv, History, TablesSafe, cred \subseteq cred', NEW s \in Request, Holds(s),
           req'[s] = req[s], s \notin stale'
    PROVE  Fresh(s)'
<1> DEFINE q == req[s]
<1>1. /\ q \in RequestState /\ Prepared(q, row) /\ row \in [User -> Row \cup {None}]
      /\ row' \in [User -> Row \cup {None}]
  BY Ready DEF IndInv, TypeOK, TablesSafe
<1>2. CASE ~InFlight(s)
  BY <1>2 DEF Fresh, InFlight, Ended
<1>3. CASE InFlight(s)
  <2>1. InFlight(s)'
    BY <1>3 DEF InFlight
  <2>2. s \notin stale /\ ~Overtaken(s) /\ Fresh(s) /\ OnCourse(s)
    BY <2>1, Kept DEF Matters, Holds
  <2>3. Writing(s) => \A u \in User : row'[u] # row[u] => row'[u].email # q.email
    BY <2>2 DEF Overtaken
  <2>4. q.op = "update" => row'[q.user] = row[q.user]
    BY <2>2 DEF Overtaken
  <2>5. Linking(s) => \A c \in cred' \ cred :
            /\ c.account # q.account
            /\ q.pc \in {"inserted", "toLink"} => c.user # q.user
    BY <2>2 DEF Overtaken
  <2>6. q.pc = "toInsert" => ~EmailTaken(q.email)'
    BY <2>2, <2>3 DEF Writing, Fresh, EmailTaken
  <2>7. q.pc = "seeding" => (WithEmail(q.email) = {})'
    BY <2>2, <2>3 DEF Writing, Fresh, WithEmail, Live
  <2>8. q.op = "update" /\ q.pc \in {"toCheck", "toSave", "loaded"} =>
            q.entity = Edited(row'[q.user], q.email, q.status)
    BY <2>2, <2>4 DEF Fresh
  <2>9. q.pc = "loaded" => q.loaded = row'[q.user]
    BY <2>2, <2>4 DEF Fresh, OnCourse
  <2>10. Linking(s) => Of(q.account)' = {}
    BY <1>3, <2>2, <2>5 DEF Fresh, Of
  <2>11. q.op = "google" /\ q.pc \in {"inserted", "toLink"} => Google(q.user)' = {}
    <3>1. q.op = "google" /\ q.pc \in {"inserted", "toLink"} => Linking(s)
      BY <2>2 DEF OnCourse, Linking
    <3>2. QED
      BY <2>2, <2>5, <3>1 DEF Fresh, Google
  <2>12. q.pc \in {"toSave", "loaded"} => ~Clashes(q.user, q.entity)'
    <3> SUFFICES ASSUME q.pc \in {"toSave", "loaded"}, NEW v \in User, v # q.user, row'[v] # None,
                        row'[v].email = q.entity.email
                 PROVE  FALSE
      BY DEF Clashes
    <3>1. q.op = "update" /\ Writing(s) /\ q.user \in User /\ row[q.user] \in Row /\ q.entity \in Row
      BY <1>1, <2>2 DEF OnCourse, Writing, Prepared, RequestState
    <3>2. row'[q.user] = row[q.user] /\ q.entity = Edited(row[q.user], q.email, q.status)
      BY <2>2, <2>4, <3>1 DEF Fresh
    <3>3. q.entity.email = IF q.email = None THEN row[q.user].email ELSE q.email
      BY <3>1, <3>2 DEF Edited, Row
    <3>4. CASE q.email = None
      <4>1. row'[v].email = row'[q.user].email /\ row'[q.user] # None
        BY <3>1, <3>2, <3>3, <3>4, AccountsAssumption
      <4>2. EmailIsUnique'
        BY DEF TablesSafe
      <4>3. QED
        BY <3>1, <4>1, <4>2 DEF EmailIsUnique
    <3>5. CASE q.email # None
      <4>1. row'[v] = row[v]
        BY <2>3, <3>1, <3>3, <3>5
      <4>2. QED
        BY <2>2, <4>1 DEF Fresh, Clashes
    <3>6. QED
      BY <3>4, <3>5
  <2>13. QED
    BY <2>6, <2>7, <2>8, <2>9, <2>10, <2>11, <2>12 DEF Fresh, Linking
<1>4. QED
  BY <1>2, <1>3

\* The credentials that a step adds.
LEMMA NewCredentials ==
    ASSUME IndInv, NEW r \in Request, Steps(r), NEW c \in cred' \ cred
    PROVE  \/ /\ c = NewCredential(r) /\ UNCHANGED row
              /\ req[r].pc = "toLink" \/ (req[r].pc = "inserted" /\ req[r].op = "register")
           \/ \E u \in User : c = AdminCredential(u, r) /\ row[u] = None
<1>1. CASE Start(r) \/ Fail(r)
  BY <1>1, StartStep, FailStep DEF tables
<1>2. CASE Continue(r)
  <2>1. CASE CreateLocalCredential(r) \/ CreateGoogleCredential(r)
    BY <2>1 DEF CreateLocalCredential, CreateGoogleCredential, At
  <2>2. CASE \E u \in User : SeedAdmin(r, u)
    BY <2>2 DEF SeedAdmin, tables
  <2>3. CASE ~(CreateLocalCredential(r) \/ CreateGoogleCredential(r) \/ \E u \in User : SeedAdmin(r, u))
    BY <1>2, <2>3 DEF Continue, InsertUser, UpdateLastLogin, FindRegistered, ComparePassword, FindVerified, FindLinked,
           FindByProfile, FindExistingProvider, FindCreated, CheckEmail, Load, UpdateUser, SoftDelete, tables
  <2>4. QED
    BY <2>1, <2>2, <2>3
<1>3. QED
  BY <1>1, <1>2 DEF Steps

\* A request that goes on keeps what it has in memory; one that ends forgets it.
Keeps(r) ==
    /\ req'[r].op = req[r].op /\ req'[r].email = req[r].email /\ req'[r].status = req[r].status
    /\ req'[r].account = req[r].account /\ req'[r].entity = req[r].entity

Forgets(r) == req'[r].pc \in Ended /\ req'[r].op = "login" /\ req'[r].account = None

LEMMA Lands ==
    ASSUME IndInv, NEW r \in Request
    PROVE  /\ \A pc : Goto(r, pc) =>
                  Keeps(r) /\ req'[r].pc = pc /\ req'[r].user = req[r].user /\ req'[r].loaded = req[r].loaded
           /\ \A u, pc : About(r, u, pc) => Keeps(r) /\ req'[r].pc = pc /\ req'[r].user = u
           /\ \A o \in Ended : End(r, o) => Forgets(r) /\ req'[r].pc = o
           /\ \A u : Issue(r, u) => Forgets(r)
<1>1. req \in [Request -> RequestState] /\ req[r] \in RequestState
  BY DEF IndInv, TypeOK
<1>3. ASSUME NEW pc, Goto(r, pc)
      PROVE  Keeps(r) /\ req'[r].pc = pc /\ req'[r].user = req[r].user /\ req'[r].loaded = req[r].loaded
  <2>1. req'[r] = [req[r] EXCEPT !.pc = pc]
    BY <1>1, <1>3 DEF Goto
  <2>2. QED
    BY <1>1, <2>1 DEF Keeps, RequestState
<1>4. ASSUME NEW u, NEW pc, About(r, u, pc) PROVE Keeps(r) /\ req'[r].pc = pc /\ req'[r].user = u
  <2>1. req'[r] = [req[r] EXCEPT !.pc = pc, !.user = u]
    BY <1>1, <1>4 DEF About
  <2>2. QED
    BY <1>1, <2>1 DEF Keeps, RequestState
<1>5. ASSUME NEW o \in Ended, End(r, o) PROVE Forgets(r) /\ req'[r].pc = o
  BY <1>1, <1>5 DEF End, Idle, Forgets
<1>6. ASSUME NEW u, Issue(r, u) PROVE Forgets(r)
  BY <1>1, <1>6 DEF Issue, Idle, Forgets, Ended
<1>7. QED
  BY <1>3, <1>4, <1>5, <1>6

\* Whose user was just inserted has one that nobody else knows.
LEMMA Inserted ==
    ASSUME IndInv, NEW r \in Request, Steps(r), req'[r].pc = "inserted"
    PROVE  req'[r].user \in User /\ row[req'[r].user] = None
<1>1. \A o \in Ended : ~End(r, o)
  BY Lands DEF Ended
<1>3. \A pc : Goto(r, pc) => pc = "inserted"
  BY Lands
<1>4. \A u, pc : About(r, u, pc) => pc = "inserted" /\ req'[r].user = u
  BY Lands
<1>5. \A u : ~Issue(r, u)
  BY Lands DEF Forgets, Ended
<1>6. "done" \in Ended /\ "failed" \in Ended /\ "rejected" \in Ended
  BY DEF Ended
<1> USE DEF Idle
<1>7. CASE Start(r) \/ Fail(r)
  <2> USE DEF Begin, End, Ended
  <2>0. req \in [Request -> RequestState]
    BY DEF IndInv, TypeOK
  <2>1. CASE Fail(r)
    BY <2>0, <2>1 DEF Fail
  <2>2. CASE \E op \in {"register", "create"}, e \in Email : CheckNewEmail(r, op, e)
    BY <2>0, <2>2 DEF CheckNewEmail
  <2>3. CASE \E e \in Email : FindByEmail(r, e)
    BY <2>0, <2>3 DEF FindByEmail
  <2>4. CASE \E u \in User : VerifyMfa(r, u)
    <3>1. \/ \E u \in User : req'[r] = [Idle EXCEPT !.op = "mfa", !.pc = "coded", !.user = u]
          \/ req'[r] = [Idle EXCEPT !.pc = "rejected"]
      BY <2>0, <2>4 DEF VerifyMfa
    <3>2. req'[r].pc \in {"coded", "rejected"}
      BY <3>1
    <3>3. QED
      BY <3>2
  <2>5. CASE \E u \in User : FindToRemove(r, u)
    BY <2>0, <2>5 DEF FindToRemove
  <2>6. CASE \E g \in Account : FindProviderAuth(r, g)
    BY <2>0, <2>6 DEF FindProviderAuth
  <2>7. CASE LookForAdmin(r)
    BY <2>0, <2>7 DEF LookForAdmin
  <2>8. CASE \E u \in User, e \in Email \cup {None}, s \in Status \cup {None} : ReadUser(r, u, e, s)
    <3>1. PICK u \in User, e \in Email \cup {None}, s \in Status \cup {None} : ReadUser(r, u, e, s)
      BY <2>8
    <3>2. req'[r].pc \in {"toSave", "toCheck", "rejected"}
      BY <2>0, <3>1 DEF ReadUser
    <3>3. QED
      BY <3>2
  <2>9. QED
    BY <1>7, <2>1, <2>2, <2>3, <2>4, <2>5, <2>6, <2>7, <2>8 DEF Start
<1>8. CASE Continue(r)
  <2>1. CASE \E u \in User, s \in Status : InsertUser(r, u, s)
    BY <1>1, <1>4, <1>6, <2>1 DEF InsertUser
  <2>2. CASE \/ CreateLocalCredential(r) \/ CreateGoogleCredential(r) \/ UpdateLastLogin(r) \/ FindRegistered(r)
             \/ ComparePassword(r) \/ FindVerified(r) \/ FindLinked(r)
    BY <1>1, <1>3, <1>5, <1>6, <2>2
       DEF CreateLocalCredential, CreateGoogleCredential, UpdateLastLogin, FindRegistered, ComparePassword,
           FindVerified, FindLinked
  <2>3. CASE \/ FindByProfile(r) \/ FindExistingProvider(r) \/ FindCreated(r) \/ CheckEmail(r)
             \/ UpdateUser(r) \/ SoftDelete(r) \/ \E u \in User : SeedAdmin(r, u)
    BY <1>1, <1>3, <1>4, <1>6, <2>3
       DEF FindByProfile, FindExistingProvider, FindCreated, CheckEmail, UpdateUser, SoftDelete, SeedAdmin
  <2>4. CASE Load(r)
    <3>1. req'[r].pc = "loaded"
      BY <2>4 DEF Load, IndInv, TypeOK, RequestState
    <3>2. QED
      BY <3>1
  <2>5. QED
    BY <1>8, <2>1, <2>2, <2>3, <2>4 DEF Continue
<1>9. QED
  BY <1>7, <1>8 DEF Steps

LEMMA StillOnCourse ==
    ASSUME IndInv, NEW r \in Request, Steps(r), Holds(r), NEW s \in Request, s # r, OnCourse(s)
    PROVE  OnCourse(s)'
<1>1. /\ cred \subseteq cred' /\ \A t \in Request \ {r} : req'[t] = req[t]
      /\ req[s] \in RequestState /\ req[r] \in RequestState
      /\ Prepared(req[s], row) /\ OnCourse(r)
  BY OneMoves, Ready DEF Steps, Holds
<1>2. req'[s] = req[s]
  BY <1>1
<1>3. ASSUME req[s].pc = "inserted", req[s].op = "register"
      PROVE  /\ Local(req[s].user)' = {}
             /\ \A t \in Request \ {s} :
                    ~(req'[t].pc = "inserted" /\ req'[t].op = "register" /\ req'[t].user = req[s].user)
  <2>1. /\ req[s].user \in User /\ row[req[s].user] # None /\ Local(req[s].user) = {}
        /\ \A t \in Request \ {s} :
               ~(req[t].pc = "inserted" /\ req[t].op = "register" /\ req[t].user = req[s].user)
    BY <1>1, <1>3 DEF OnCourse, Prepared, RequestState
  <2>2. ASSUME NEW c \in cred', c.user = req[s].user, c.account = None PROVE FALSE
    <3>1. c \in cred' \ cred
      BY <2>1, <2>2 DEF Local
    <3>2. CASE c = NewCredential(r) /\ req[r].pc = "toLink"
      BY <1>1, <2>2, <3>2 DEF NewCredential, OnCourse
    <3>3. CASE c = NewCredential(r) /\ req[r].pc = "inserted" /\ req[r].op = "register"
      BY <2>1, <2>2, <3>3 DEF NewCredential
    <3>4. CASE \E u \in User : c = AdminCredential(u, r) /\ row[u] = None
      BY <2>1, <2>2, <3>4 DEF AdminCredential
    <3>5. QED
      BY <3>1, <3>2, <3>3, <3>4, NewCredentials
  <2>3. ASSUME NEW t \in Request \ {s}, req'[t].pc = "inserted", req'[t].op = "register",
               req'[t].user = req[s].user
        PROVE  FALSE
    <3>1. t = r
      BY <1>1, <2>1, <2>3
    <3>2. row[req'[r].user] = None
      BY <2>3, <3>1, Inserted
    <3>3. QED
      BY <2>1, <2>3, <3>1, <3>2
  <2>4. QED
    BY <1>2, <2>2, <2>3 DEF Local
<1>4. OnCourse(s) => OnCourse(s)'
  BY <1>2, <1>3 DEF OnCourse, InFlight, Linking
<1>5. QED
  BY <1>4

LEMMA StillSameUser ==
    ASSUME IndInv, History, NEW r \in Request, Steps(r), Holds(r), NEW s \in Request, s # r, Holds(s),
           s \notin moved', TablesSafe
    PROVE  SameUser(s)'
<1> DEFINE q == req[s]
<1>1. /\ cred \subseteq cred' /\ req'[s] = req[s]
      /\ q \in RequestState /\ req[r] \in RequestState
      /\ Prepared(q, row) /\ Prepared(req[r], row) /\ OnCourse(r) /\ OnCourse(s)
  BY OneMoves, Ready DEF Steps, Holds
<1>2. SUFFICES ASSUME InFlight(s), Linking(s)
               PROVE  /\ q.pc \in {"found", "inserted", "toLink"} => row'[q.user].email = q.email
                      /\ \A c \in cred' : c.account = q.account /\ c.by \notin moved' =>
                             row'[c.user].email = q.email
  BY <1>1 DEF SameUser, InFlight, Linking, Of
<1>3. InFlight(s)'
  BY <1>1, <1>2 DEF InFlight
<1>4. s \notin moved /\ ~EmailMoved(s) /\ SameUser(s)
  BY <1>3, Kept DEF Matters, Holds
<1>5. \A u \in User : row[u] # None => row'[u].email = row[u].email
  BY <1>2, <1>4 DEF EmailMoved
<1>6. q.pc \in {"found", "inserted", "toLink"} => row'[q.user].email = q.email
  <2>1. q.pc \in {"found", "inserted", "toLink"} => q.user \in User /\ row[q.user] # None
    BY <1>1 DEF Prepared, RequestState
  <2>2. QED
    BY <1>2, <1>4, <1>5, <2>1 DEF SameUser
<1>7. ASSUME NEW c \in cred', c.account = q.account, c.by \notin moved'
      PROVE  row'[c.user].email = q.email
  <2>1. CASE c \in cred
    <3>1. c.by \notin moved
      BY <1>1, <1>7, <2>1, KeptBy
    <3>2. c.user \in User /\ row[c.user] # None
      BY <2>1 DEF IndInv, TypeOK, AllPrepared, Credential
    <3>3. QED
      BY <1>2, <1>4, <1>5, <1>7, <2>1, <3>1, <3>2 DEF SameUser, Of
  <2>2. CASE c \notin cred
    <3>1. q.account # None
      BY <1>2 DEF Linking
    <3>2. /\ c = NewCredential(r) /\ UNCHANGED row
          /\ req[r].pc = "toLink" \/ (req[r].pc = "inserted" /\ req[r].op = "register")
      BY <1>7, <2>2, <3>1, NewCredentials DEF AdminCredential
    <3>3. c.user = req[r].user /\ c.account = req[r].account /\ c.by = r
      BY <3>2 DEF NewCredential
    <3>4. req[r].pc = "toLink" /\ req[r].op = "google" /\ req[r].account # None
      BY <1>1, <1>7, <3>1, <3>2, <3>3 DEF OnCourse
    <3>5. Linking(r) /\ InFlight(r) /\ Matters(r)'
      BY <1>7, <3>3, <3>4 DEF Linking, InFlight, Ended, Matters
    <3>6. req[r].email = EmailOf[req[r].account] /\ q.email = EmailOf[q.account]
      BY <1>1, <1>2, <3>5 DEF OnCourse
    <3>7. row[req[r].user].email = req[r].email
      BY <1>7, <3>3, <3>4, <3>5, Kept DEF Holds, SameUser
    <3>8. QED
      BY <1>7, <3>2, <3>3, <3>6, <3>7
  <2>3. QED
    BY <2>1, <2>2
<1>8. QED
  BY <1>6, <1>7

\* A request that has ended, or is at a step at which nothing it has read is of use.
LEMMA NothingRemembered ==
    ASSUME NEW r \in Request,
           Forgets(r) \/
               (req'[r].pc \in {"stamping", "stamped", "coded", "toDelete", "linked"}
                    /\ (req'[r].account = None \/ req'[r].pc = "stamping")
                    /\ (req'[r].op = "register" => req'[r].account = None))
    PROVE  Holds(r)'
<1>1. OnCourse(r)'
  BY DEF Forgets, Ended, OnCourse, InFlight, Linking
<1>2. Fresh(r)'
  BY DEF Forgets, Ended, Fresh, InFlight, Linking
<1>3. SameUser(r)'
  BY DEF Forgets, Ended, SameUser, InFlight, Linking
<1>4. QED
  BY <1>1, <1>2, <1>3 DEF Holds

LEMMA StartHolds ==
    ASSUME IndInv, NEW r \in Request, Start(r)
    PROVE  Holds(r)'
<1>0. row' = row /\ cred' = cred /\ req \in [Request -> RequestState] /\ row \in [User -> Row \cup {None}]
  BY StartStep DEF tables, IndInv, TypeOK
<1>1. ASSUME NEW o \in Ended, End(r, o) PROVE Holds(r)'
  BY <1>1, Lands, NothingRemembered
<1>2. "done" \in Ended /\ "failed" \in Ended /\ "rejected" \in Ended
  BY DEF Ended
<1> USE DEF Idle
<1>3. CASE \E op \in {"register", "create"}, e \in Email : CheckNewEmail(r, op, e)
  <2>1. PICK op \in {"register", "create"}, e \in Email : CheckNewEmail(r, op, e)
    BY <1>3
  <2>2. CASE EmailTaken(e)
    BY <1>1, <1>2, <2>1, <2>2 DEF CheckNewEmail
  <2>3. CASE ~EmailTaken(e)
    <3>1. req'[r].pc = "toInsert" /\ req'[r].op = op /\ req'[r].email = e /\ req'[r].account = None
      BY <1>0, <2>1, <2>3 DEF CheckNewEmail, Begin
    <3>2. ~EmailTaken(req[r].email)'
      BY <1>0, <2>3, <3>1 DEF EmailTaken
    <3>3. OnCourse(r)' /\ Fresh(r)' /\ SameUser(r)'
      BY <3>1, <3>2 DEF OnCourse, Fresh, SameUser, InFlight, Linking
    <3>4. QED
      BY <3>3 DEF Holds
  <2>4. QED
    BY <2>2, <2>3
<1>4. CASE \E e \in Email : FindByEmail(r, e)
  <2>1. CASE End(r, "rejected")
    BY <1>1, <1>2, <2>1
  <2>2. CASE ~End(r, "rejected")
    <3>1. \E u \in User : req'[r] = [Idle EXCEPT !.op = "login", !.pc = "found", !.user = u]
      BY <1>0, <1>4, <2>2 DEF FindByEmail, Begin, WithEmail
    <3>2. req'[r].pc = "found" /\ req'[r].op = "login" /\ req'[r].account = None
      BY <3>1
    <3>3. OnCourse(r)' /\ Fresh(r)' /\ SameUser(r)'
      BY <3>2 DEF OnCourse, Fresh, SameUser, InFlight, Linking
    <3>4. QED
      BY <3>3 DEF Holds
  <2>3. QED
    BY <2>1, <2>2
<1>5. CASE \E u \in User : VerifyMfa(r, u) \/ FindToRemove(r, u)
  <2>1. CASE End(r, "rejected")
    BY <1>1, <1>2, <2>1
  <2>2. CASE ~End(r, "rejected")
    <3>1. \E u \in User : \/ req'[r] = [Idle EXCEPT !.op = "mfa", !.pc = "coded", !.user = u]
                          \/ req'[r] = [Idle EXCEPT !.op = "remove", !.pc = "toDelete", !.user = u]
      BY <1>0, <1>5, <2>2 DEF VerifyMfa, FindToRemove, Begin
    <3>2. req'[r].pc \in {"coded", "toDelete"} /\ req'[r].op \in {"mfa", "remove"} /\ req'[r].account = None
      BY <3>1
    <3>3. QED
      BY <3>2, NothingRemembered
  <2>3. QED
    BY <2>1, <2>2
<1>6. CASE \E g \in Account : FindProviderAuth(r, g)
  <2>1. PICK g \in Account : FindProviderAuth(r, g)
    BY <1>6
  <2>2. CASE Of(g) = {} /\ Begin(r, [Idle EXCEPT !.op = "google", !.pc = "unlinked", !.account = g, !.email = EmailOf[g]])
    <3>1. /\ req'[r].pc = "unlinked" /\ req'[r].op = "google" /\ req'[r].account = g
          /\ req'[r].email = EmailOf[g] /\ g # None
      BY <1>0, <2>2, AccountsAssumption DEF Begin
    <3>2. Of(req[r].account)' = {}
      BY <1>0, <2>2, <3>1 DEF Of
    <3>3. OnCourse(r)' /\ Fresh(r)' /\ SameUser(r)'
      BY <3>1, <3>2 DEF OnCourse, Fresh, SameUser, InFlight, Linking
    <3>4. QED
      BY <3>3 DEF Holds
  <2>3. CASE \E c \in Of(g) : Begin(r, [Idle EXCEPT !.op = "google", !.pc = "linked", !.user = c.user])
    <3>1. \E u : req'[r] = [Idle EXCEPT !.op = "google", !.pc = "linked", !.user = u]
      BY <1>0, <2>3 DEF Begin
    <3>2. req'[r].pc = "linked" /\ req'[r].op = "google" /\ req'[r].account = None
      BY <3>1
    <3>3. QED
      BY <3>2, NothingRemembered
  <2>4. QED
    BY <2>1, <2>2, <2>3 DEF FindProviderAuth
<1>7. CASE LookForAdmin(r)
  <2>1. CASE End(r, "rejected") \/ End(r, "done")
    BY <1>1, <1>2, <2>1
  <2>2. CASE ~(End(r, "rejected") \/ End(r, "done"))
    <3>1. /\ WithEmail(AdminEmail) = {}
          /\ req'[r] = [Idle EXCEPT !.op = "seed", !.pc = "seeding", !.email = AdminEmail]
      BY <1>0, <1>7, <2>2 DEF LookForAdmin, Begin
    <3>2. req'[r].pc = "seeding" /\ req'[r].op = "seed" /\ req'[r].email = AdminEmail
      BY <3>1
    <3>3. WithEmail(req[r].email)' = {}
      BY <1>0, <3>1, <3>2 DEF WithEmail, Live
    <3>4. OnCourse(r)' /\ Fresh(r)' /\ SameUser(r)'
      BY <3>2, <3>3 DEF OnCourse, Fresh, SameUser, InFlight, Linking
    <3>5. QED
      BY <3>4 DEF Holds
  <2>3. QED
    BY <2>1, <2>2
<1>8. CASE \E u \in User, e \in Email \cup {None}, s \in Status \cup {None} : ReadUser(r, u, e, s)
  <2>1. PICK u \in User, e \in Email \cup {None}, s \in Status \cup {None} : ReadUser(r, u, e, s)
    BY <1>8
  <2>2. CASE ~Live(u)
    BY <1>1, <1>2, <2>1, <2>2 DEF ReadUser
  <2>3. CASE Live(u)
    <3>1. /\ req'[r].op = "update" /\ req'[r].user = u /\ req'[r].email = e /\ req'[r].status = s
          /\ req'[r].entity = Edited(row[u], e, s) /\ req'[r].account = None
          /\ req'[r].pc = IF e \in {None, row[u].email} THEN "toSave" ELSE "toCheck"
      BY <1>0, <2>1, <2>3 DEF ReadUser, Begin
    <3>2. row[u] \in Row /\ row[u] # None
      BY <1>0, <2>3 DEF Live
    <3>3. e \in {None, row[u].email} => Edited(row[u], e, s).email = row[u].email
      BY <3>2 DEF Edited, Row
    <3>4. req'[r].pc = "toSave" => ~Clashes(u, Edited(row[u], e, s))
      BY <3>1, <3>2, <3>3 DEF Clashes, IndInv, EmailIsUnique
    <3>5. req'[r].pc \in {"toSave", "loaded"} => ~Clashes(req[r].user, req[r].entity)'
      BY <1>0, <3>1, <3>4 DEF Clashes
    <3>6. OnCourse(r)' /\ SameUser(r)'
      BY <3>1 DEF OnCourse, SameUser, InFlight, Linking
    <3>7. Fresh(r)'
      BY <1>0, <3>1, <3>5 DEF Fresh, InFlight, Linking
    <3>8. QED
      BY <3>6, <3>7 DEF Holds
  <2>4. QED
    BY <2>2, <2>3
<1>9. QED
  BY <1>3, <1>4, <1>5, <1>6, <1>7, <1>8 DEF Start

\* A step that only reads leaves what the request has read before as it was.
LEMMA GoesOn ==
    ASSUME IndInv, History, NEW r \in Request, Holds(r), row' = row, cred' = cred, Keeps(r), InFlight(r)',
           OnCourse(r)',
           Fresh(r) => Fresh(r)',
           ~EmailMoved(r) /\ (\A c \in cred : c.by \notin moved' => c.by \notin moved) /\ SameUser(r) =>
               SameUser(r)'
    PROVE  Holds(r)'
<1>1. /\ r \notin stale' => r \notin stale
      /\ r \notin moved' => r \notin moved /\ ~EmailMoved(r)
  BY Kept DEF Matters
<1>2. \A c \in cred : c.by \notin moved' => c.by \notin moved
  BY KeptBy
<1>3. QED
  BY <1>1, <1>2 DEF Holds

LEMMA ContinueHolds ==
    ASSUME IndInv, History, NEW r \in Request, Continue(r), Holds(r), TablesSafe
    PROVE  Holds(r)'
<1>1. /\ req[r] \in RequestState /\ Prepared(req[r], row) /\ OnCourse(r)
      /\ row \in [User -> Row \cup {None}] /\ req \in [Request -> RequestState]
  BY Ready DEF Holds, IndInv, TypeOK
<1>2. ASSUME NEW o \in Ended, End(r, o) PROVE Holds(r)'
  BY <1>2, Lands, NothingRemembered
<1>3. ASSUME NEW u, Issue(r, u) PROVE Holds(r)'
  BY <1>3, Lands, NothingRemembered
<1>4. "done" \in Ended /\ "failed" \in Ended /\ "rejected" \in Ended
  BY DEF Ended
<1>5. ASSUME NEW pc \in {"stamping", "stamped"}, Goto(r, pc), pc = "stamped" => req[r].op = "register"
      PROVE  Holds(r)'
  <2>1. Keeps(r) /\ req'[r].pc = pc
    BY <1>5, Lands
  <2>2. QED
    BY <1>1, <1>5, <2>1, NothingRemembered DEF Keeps, OnCourse
<1>6. CASE \/ UpdateUser(r) \/ SoftDelete(r) \/ \E u \in User : SeedAdmin(r, u)
  BY <1>2, <1>4, <1>6 DEF UpdateUser, SoftDelete, SeedAdmin
<1>7. CASE CreateLocalCredential(r) \/ CreateGoogleCredential(r)
  BY <1>1, <1>5, <1>7 DEF CreateLocalCredential, CreateGoogleCredential, At, OnCourse
<1>8. CASE UpdateLastLogin(r) \/ FindRegistered(r)
  BY <1>1, <1>2, <1>3, <1>4, <1>5, <1>8 DEF UpdateLastLogin, FindRegistered
<1>9. CASE ComparePassword(r) \/ FindVerified(r) \/ FindLinked(r)
  BY <1>2, <1>4, <1>5, <1>9 DEF ComparePassword, FindVerified, FindLinked
<1>10. CASE \/ FindByProfile(r) \/ FindExistingProvider(r) \/ FindCreated(r)
           \/ (CheckEmail(r) /\ req[r].op = "google")
  <2>1. CASE End(r, "rejected")
    BY <1>2, <1>4, <2>1
  <2>2. CASE ~End(r, "rejected")
    <3>1. row' = row /\ cred' = cred
      BY <1>10 DEF FindByProfile, FindExistingProvider, FindCreated, CheckEmail, tables
    <3>2. PICK pc, u :
             /\ Keeps(r) /\ req'[r].pc = pc /\ req'[r].user = u
             /\ \/ pc = "found" /\ req[r].pc = "unlinked" /\ row[u].email = req[r].email
                \/ pc = "toCheck" /\ req[r].pc = "unlinked"
                \/ pc = "toLink" /\ req[r].pc \in {"found", "inserted"} /\ u = req[r].user
                       /\ (req[r].pc = "found" => Google(u) = {})
                \/ pc = "toInsert" /\ req[r].pc = "toCheck" /\ ~EmailTaken(req[r].email)
      <4>1. CASE FindByProfile(r)
        <5>1. CASE Goto(r, "toCheck")
          BY <4>1, <5>1, Lands DEF FindByProfile, At
        <5>2. CASE \E u \in WithEmail(req[r].email) : About(r, u, "found")
          BY <4>1, <5>2, Lands DEF FindByProfile, At, WithEmail
        <5>3. QED
          BY <2>2, <4>1, <5>1, <5>2 DEF FindByProfile
      <4>2. CASE FindExistingProvider(r)
        <5>1. Goto(r, "toLink") /\ Google(req[r].user) = {} /\ req[r].pc = "found"
          BY <2>2, <4>2 DEF FindExistingProvider, At
        <5>2. QED
          BY <5>1, Lands
      <4>3. CASE FindCreated(r)
        <5>1. Goto(r, "toLink") /\ req[r].pc = "inserted"
          BY <2>2, <4>3 DEF FindCreated, At
        <5>2. QED
          BY <5>1, Lands
      <4>4. CASE CheckEmail(r) /\ req[r].op = "google"
        <5>1. Goto(r, "toInsert") /\ ~EmailTaken(req[r].email) /\ req[r].pc = "toCheck"
          BY <2>2, <4>4 DEF CheckEmail, At
        <5>2. QED
          BY <5>1, Lands
      <4>5. QED
        BY <1>10, <4>1, <4>2, <4>3, <4>4
    <3>3. req[r].op = "google" /\ req[r].account # None
      BY <1>1, <1>10 DEF FindByProfile, FindExistingProvider, FindCreated, CheckEmail, At, Prepared, OnCourse
    <3>4. /\ InFlight(r)' /\ InFlight(r) /\ Linking(r) /\ Linking(r)'
          /\ req'[r].op = "google" /\ req'[r].account = req[r].account /\ req'[r].email = req[r].email
      BY <3>2, <3>3 DEF InFlight, Ended, Linking, Keeps
    <3>5. OnCourse(r)'
      BY <1>1, <3>2, <3>3, <3>4 DEF OnCourse
    <3>6. ASSUME Fresh(r) PROVE Fresh(r)'
      <4>1. Of(req[r].account)' = {}
        BY <3>1, <3>4, <3>6 DEF Fresh, Of
      <4>2. req'[r].pc = "toLink" => Google(req[r].user)' = {}
        BY <3>1, <3>2, <3>3, <3>6 DEF Fresh, Google
      <4>3. req'[r].pc = "toInsert" => ~EmailTaken(req[r].email)'
        BY <3>1, <3>2, <3>4 DEF EmailTaken
      <4>4. QED
        BY <3>2, <3>4, <4>1, <4>2, <4>3 DEF Fresh
    <3>7. ASSUME SameUser(r), \A c \in cred : c.by \notin moved' => c.by \notin moved
          PROVE  SameUser(r)'
      <4>1. req'[r].pc \in {"found", "inserted", "toLink"} => row[req'[r].user].email = req[r].email
        BY <3>2, <3>4, <3>7 DEF SameUser
      <4>2. \A c \in cred : c.account = req[r].account /\ c.by \notin moved' => row[c.user].email = req[r].email
        BY <3>4, <3>7 DEF SameUser, Of
      <4>3. QED
        BY <3>1, <3>4, <4>1, <4>2 DEF SameUser, Of
    <3>8. QED
      BY <3>1, <3>2, <3>4, <3>5, <3>6, <3>7, GoesOn
  <2>3. QED
    BY <2>1, <2>2
<1>11. CASE CheckEmail(r) /\ req[r].op # "google"
  <2>1. CASE End(r, "rejected")
    BY <1>2, <1>4, <2>1
  <2>2. CASE ~End(r, "rejected")
    <3>1. /\ req[r].pc = "toCheck" /\ req[r].op = "update" /\ ~EmailTaken(req[r].email)
          /\ Goto(r, "toSave") /\ row' = row /\ cred' = cred
      BY <1>1, <1>11, <2>2 DEF CheckEmail, At, OnCourse, tables
    <3>2. Keeps(r) /\ req'[r].pc = "toSave" /\ req'[r].user = req[r].user
      BY <3>1, Lands
    <3>3. InFlight(r)'
      BY <3>2 DEF InFlight, Ended
    <3>4. OnCourse(r)' /\ SameUser(r)'
      BY <3>1, <3>2 DEF OnCourse, SameUser, InFlight, Linking, Keeps
    <3>5. ASSUME Fresh(r) PROVE Fresh(r)'
      <4>1. /\ req[r].user \in User /\ row[req[r].user] \in Row /\ req[r].email # None
            /\ req[r].entity = Edited(row[req[r].user], req[r].email, req[r].status)
        BY <1>1, <3>1, <3>5 DEF Fresh, Prepared, RequestState
      <4>2. req[r].entity.email = req[r].email
        BY <4>1 DEF Edited, Row
      <4>3. ~Clashes(req[r].user, req[r].entity)
        BY <3>1, <4>2 DEF Clashes, EmailTaken
      <4>4. ~Clashes(req[r].user, req[r].entity)'
        BY <3>1, <3>2, <4>3 DEF Clashes, Keeps
      <4>5. QED
        BY <3>1, <3>2, <4>1, <4>4 DEF Fresh, Keeps, InFlight, Linking
    <3>6. QED
      BY <3>1, <3>2, <3>3, <3>4, <3>5, GoesOn
  <2>3. QED
    BY <2>1, <2>2
<1>12. CASE Load(r)
  <2>1. /\ req[r].pc = "toSave" /\ req[r].op = "update" /\ row' = row /\ cred' = cred
        /\ req'[r] = [req[r] EXCEPT !.pc = "loaded", !.loaded = row[req[r].user]]
    BY <1>1, <1>12 DEF Load, At, OnCourse, tables
  <2>2. /\ Keeps(r) /\ req'[r].pc = "loaded" /\ req'[r].user = req[r].user
        /\ req'[r].loaded = row[req[r].user]
    BY <1>1, <2>1 DEF Keeps, RequestState
  <2>3. InFlight(r)'
    BY <2>2 DEF InFlight, Ended
  <2>4. OnCourse(r)' /\ SameUser(r)'
    BY <2>1, <2>2 DEF OnCourse, SameUser, InFlight, Linking, Keeps
  <2>5. ASSUME Fresh(r) PROVE Fresh(r)'
    <3>1. ~Clashes(req[r].user, req[r].entity)'
      BY <2>1, <2>2, <2>5 DEF Fresh, Clashes, Keeps
    <3>2. QED
      BY <2>1, <2>2, <2>5, <3>1 DEF Fresh, Keeps, InFlight, Linking
  <2>6. QED
    BY <2>1, <2>2, <2>3, <2>4, <2>5, GoesOn
<1>13. CASE \E u \in User, s \in Status : InsertUser(r, u, s)
  <2>1. PICK u \in User, s \in Status : InsertUser(r, u, s)
    BY <1>13
  <2>2. CASE End(r, "failed") \/ End(r, "done")
    BY <1>2, <1>4, <2>2
  <2>3. CASE ~(End(r, "failed") \/ End(r, "done"))
    <3> DEFINE new == [email |-> req[r].email, status |-> s, deleted |-> FALSE]
    <3>1. /\ req[r].pc = "toInsert" /\ row[u] = None /\ req[r].op # "create"
          /\ row' = [row EXCEPT ![u] = new] /\ About(r, u, "inserted") /\ cred' = cred
      BY <2>1, <2>3 DEF InsertUser, At
    <3>2. /\ Keeps(r) /\ req'[r].pc = "inserted" /\ req'[r].user = u
          /\ req'[r].op = req[r].op /\ req'[r].account = req[r].account /\ req'[r].email = req[r].email
      BY <3>1, Lands DEF Keeps
    <3>3. /\ row'[u].email = req[r].email
          /\ \A v \in User \ {u} : row'[v] = row[v]
      BY <1>1, <3>1
    <3>4. \A c \in cred : c.user # u /\ c.user \in User
      BY <3>1 DEF IndInv, TypeOK, AllPrepared, Credential
    <3>5. ASSUME NEW t \in Request \ {r} PROVE req'[t].user # u
      <4>1. req'[t] = req[t] /\ Prepared(req[t], row)
        BY <1>1, <3>1, Ready DEF About
      <4>2. QED
        BY <3>1, <4>1, AccountsAssumption DEF Prepared
    <3>6. OnCourse(r)'
      <4>1. req[r].op \in {"register", "google"}
        BY <1>1, <3>1 DEF OnCourse
      <4>2. Local(req[r].user)' = {}
        BY <3>1, <3>2, <3>4 DEF Local
      <4>3. req'[r].op = "google" => req'[r].account # None /\ req'[r].email = EmailOf[req'[r].account]
        <5>1. req[r].op = "google" => InFlight(r) /\ req[r].account # None
          BY <1>1, <3>1 DEF OnCourse, InFlight, Ended
        <5>2. req[r].op = "google" => Linking(r)
          BY <3>1, <5>1 DEF Linking
        <5>3. QED
          BY <1>1, <3>2, <5>1, <5>2 DEF OnCourse
      <4>4. QED
        BY <1>1, <3>2, <3>5, <4>1, <4>2, <4>3 DEF OnCourse, Linking
    <3>7. InFlight(r) /\ InFlight(r)' /\ (Linking(r)' => Linking(r))
      BY <3>1, <3>2 DEF InFlight, Ended, Linking
    <3>8. ASSUME Fresh(r) PROVE Fresh(r)'
      <4>1. Linking(r)' => Of(req[r].account)' = {}
        BY <3>1, <3>2, <3>7, <3>8 DEF Fresh, Of
      <4>2. Google(req[r].user)' = {}
        BY <3>1, <3>2, <3>4 DEF Google
      <4>3. QED
        BY <3>2, <4>1, <4>2 DEF Fresh
    <3>9. ASSUME SameUser(r), \A c \in cred : c.by \notin moved' => c.by \notin moved
          PROVE  SameUser(r)'
      <4>1. \A c \in cred : row'[c.user] = row[c.user]
        BY <3>3, <3>4
      <4>2. Linking(r)' => \A c \in cred : c.account = req[r].account /\ c.by \notin moved' =>
                row'[c.user].email = req[r].email
        BY <3>7, <3>9, <4>1 DEF SameUser, Of
      <4>3. QED
        BY <3>1, <3>2, <3>3, <4>2 DEF SameUser, Of
    <3>10. /\ r \notin stale' => r \notin stale
           /\ r \notin moved' => r \notin moved
      BY <3>7, Kept DEF Matters
    <3>11. \A c \in cred : c.by \notin moved' => c.by \notin moved
      BY <3>1, KeptBy
    <3>12. QED
      BY <3>6, <3>8, <3>9, <3>10, <3>11 DEF Holds
  <2>4. QED
    BY <2>2, <2>3
<1>14. QED
  BY <1>6, <1>7, <1>8, <1>9, <1>10, <1>11, <1>12, <1>13 DEF Continue

LEMMA EveryoneHolds ==
    ASSUME IndInv, History, TablesSafe, \A s \in Request : Holds(s), NEW r \in Request, Steps(r)
    PROVE  \A s \in Request : Holds(s)'
<1>1. Holds(r)'
  <2>1. CASE Fail(r)
    <3>1. End(r, "failed") /\ "failed" \in Ended
      BY <2>1 DEF Fail, Ended
    <3>2. QED
      BY <3>1, Lands, NothingRemembered
  <2>2. QED
    BY <2>1, StartHolds, ContinueHolds DEF Steps
<1>2. ASSUME NEW s \in Request, s # r PROVE Holds(s)'
  <2>1. cred \subseteq cred' /\ req'[s] = req[s] /\ Holds(s) /\ Holds(r)
    BY <1>2, OneMoves DEF Steps
  <2>2. OnCourse(s)'
    BY <1>2, <2>1, StillOnCourse DEF Holds
  <2>3. s \notin stale' => Fresh(s)'
    BY <2>1, StillFresh
  <2>4. s \notin moved' => SameUser(s)'
    BY <1>2, <2>1, StillSameUser
  <2>5. QED
    BY <2>2, <2>3, <2>4 DEF Holds
<1>3. QED
  BY <1>1, <1>2

-----------------------------------------------------------------------------
(* Second credentials *)

LEMMA OnlyOne ==
    ASSUME IndInv, NEW r \in Request, Steps(r), NEW c \in cred' \ cred, NEW d \in cred' \ cred
    PROVE  c = d
<1>1. CASE \E u \in User : SeedAdmin(r, u)
  BY <1>1 DEF SeedAdmin, tables
<1>2. CASE ~\E u \in User : SeedAdmin(r, u)
  <2>1. \A e \in cred' \ cred : e = NewCredential(r)
    BY <1>2, StartStep, FailStep
       DEF Steps, Continue, InsertUser, UpdateLastLogin, FindRegistered, ComparePassword, FindVerified, FindLinked,
           FindByProfile, FindExistingProvider, FindCreated, CheckEmail, Load, UpdateUser, SoftDelete, tables,
           CreateLocalCredential, CreateGoogleCredential
  <2>2. QED
    BY <2>1
<1>3. QED
  BY <1>1, <1>2

\* A request adds one credential, and one that another could have added as well only if
\* it has been overtaken.
LEMMA OneIsNew ==
    ASSUME IndInv, History, NEW r \in Request, Steps(r), Holds(r), NEW c \in cred' \ cred
    PROVE  /\ c.by = r
           /\ \A d \in cred' \ cred : d = c
           /\ \A d \in cred : d.user = c.user /\ (d.account = None) = (c.account = None) => r \in stale'
           /\ \A d \in cred : d.account = c.account /\ c.account # None =>
                  /\ r \in stale'
                  /\ {r, d.by} \cap moved' = {} => d.user = c.user
<1>1. /\ req[r] \in RequestState /\ Prepared(req[r], row) /\ OnCourse(r)
      /\ cred \subseteq cred'
  BY Ready, OneMoves DEF Holds, Steps
<1>2. CASE \E u \in User : c = AdminCredential(u, r) /\ row[u] = None
  <2>1. PICK u \in User : c = AdminCredential(u, r) /\ row[u] = None
    BY <1>2
  <2>2. c.by = r /\ c.user = u /\ c.account = None
    BY <2>1 DEF AdminCredential
  <2>3. \A d \in cred : d.user # u
    BY <2>1 DEF IndInv, AllPrepared
  <2>4. QED
    BY <2>2, <2>3, OnlyOne
<1>3. CASE /\ c = NewCredential(r) /\ UNCHANGED row
           /\ req[r].pc = "toLink" \/ (req[r].pc = "inserted" /\ req[r].op = "register")
  <2>1. c.by = r /\ c.user = req[r].user /\ c.account = req[r].account
    BY <1>3 DEF NewCredential
  <2>2. row[req[r].user] # None
    BY <1>1, <1>3 DEF Prepared
  <2>3. \A d \in cred' \ cred : d = c
    BY OnlyOne
  <2>4. Matters(r)'
    BY <1>1, <2>1 DEF Matters
  <2>5. /\ r \notin stale' => Fresh(r)
        /\ r \notin moved' => SameUser(r)
    BY <2>4, Kept DEF Holds
  <2>6. CASE req[r].pc = "toLink"
    <3>1. req[r].op = "google" /\ req[r].account # None /\ InFlight(r) /\ Linking(r)
      BY <1>1, <2>6 DEF OnCourse, InFlight, Ended, Linking
    <3>2. r \notin stale' => Of(req[r].account) = {} /\ Google(req[r].user) = {}
      BY <2>5, <2>6, <3>1 DEF Fresh
    <3>3. ASSUME NEW d \in cred, d.account = c.account, r \notin moved', d.by \notin moved'
          PROVE  d.user = c.user
      <4>1. row[c.user].email = req[r].email
        BY <2>1, <2>5, <2>6, <3>1, <3>3 DEF SameUser
      <4>2. d.by \notin moved
        BY <1>1, <3>3, KeptBy
      <4>3. row[d.user].email = req[r].email /\ row[d.user] # None
        BY <2>1, <2>5, <3>1, <3>3, <4>2 DEF SameUser, Of, IndInv, AllPrepared
      <4>4. d.user \in User /\ c.user \in User
        BY <1>1, <1>3, <2>1, <2>2 DEF IndInv, TypeOK, Credential, RequestState, Prepared
      <4>5. QED
        BY <2>1, <2>2, <4>1, <4>3, <4>4 DEF IndInv, EmailIsUnique
    <3>4. QED
      BY <2>1, <2>3, <3>1, <3>2, <3>3 DEF Of, Google
  <2>7. CASE req[r].pc = "inserted" /\ req[r].op = "register"
    <3>1. req[r].account = None /\ Local(req[r].user) = {}
      BY <1>1, <2>7 DEF OnCourse
    <3>2. \A d \in cred : d.user = c.user => d.account # None
      BY <2>1, <3>1 DEF Local
    <3>3. QED
      BY <2>1, <2>3, <3>1, <3>2
  <2>8. QED
    BY <1>3, <2>6, <2>7
<1>4. QED
  BY <1>2, <1>3, NewCredentials

LEMMA SecondStep ==
    ASSUME IndInv, History, SecondCredentialHasACause, NEW r \in Request, Steps(r), Holds(r)
    PROVE  SecondCredentialHasACause'
<1> SUFFICES ASSUME NEW c \in cred', NEW d \in cred', c.user = d.user, (c.account = None) = (d.account = None),
                    c.by \notin stale', d.by \notin stale'
             PROVE  c = d
  BY DEF SecondCredentialHasACause
<1>1. cred \subseteq cred'
  BY OneMoves DEF Steps
<1>2. CASE c \in cred /\ d \in cred
  <2>1. c.by \notin stale /\ d.by \notin stale
    BY <1>1, <1>2, KeptBy
  <2>2. QED
    BY <1>2, <2>1 DEF SecondCredentialHasACause
<1>3. CASE c \notin cred
  BY <1>3, OneIsNew
<1>4. CASE d \notin cred
  BY <1>4, OneIsNew
<1>5. QED
  BY <1>2, <1>3, <1>4

LEMMA AccountStep ==
    ASSUME IndInv, History, AccountHasOneUser, NEW r \in Request, Steps(r), Holds(r)
    PROVE  AccountHasOneUser'
<1> SUFFICES ASSUME NEW c \in cred', NEW d \in cred', c.account = d.account, c.account # None, c.user # d.user
             PROVE  {c.by, d.by} \cap stale' # {} /\ {c.by, d.by} \cap moved' # {}
  BY DEF AccountHasOneUser
<1>1. cred \subseteq cred'
  BY OneMoves DEF Steps
<1>2. CASE c \in cred /\ d \in cred
  <2>1. {c.by, d.by} \cap stale # {} /\ {c.by, d.by} \cap moved # {}
    BY <1>2 DEF AccountHasOneUser
  <2>2. /\ c.by \notin stale' => c.by \notin stale
        /\ d.by \notin stale' => d.by \notin stale
        /\ c.by \notin moved' => c.by \notin moved
        /\ d.by \notin moved' => d.by \notin moved
    BY <1>1, <1>2, KeptBy
  <2>3. QED
    BY <2>1, <2>2
<1>3. ASSUME NEW x \in cred' \ cred, NEW y \in cred', x.account = y.account, x.account # None, x.user # y.user
      PROVE  {x.by, y.by} \cap stale' # {} /\ {x.by, y.by} \cap moved' # {}
  <2>1. y \in cred
    BY <1>3, OnlyOne
  <2>2. x.by = r /\ r \in stale' /\ ({r, y.by} \cap moved' = {} => y.user = x.user)
    BY <1>3, <2>1, OneIsNew
  <2>3. QED
    BY <1>3, <2>2
<1>4. CASE c \notin cred
  BY <1>3, <1>4
<1>5. CASE d \notin cred
  BY <1>3, <1>5
<1>6. QED
  BY <1>2, <1>4, <1>5

-----------------------------------------------------------------------------
(* The memory invariant *)

LEMMA MemoryParts ==
    MemoryInv <=> (\A r \in Request : Holds(r)) /\ SecondCredentialHasACause /\ AccountHasOneUser
BY DEF MemoryInv, Holds

LEMMA InitMemory == Init => MemoryInv
<1> SUFFICES ASSUME Init PROVE MemoryInv
  OBVIOUS
<1>1. ASSUME NEW r \in Request PROVE Holds(r)
  <2>1. req[r].pc = "idle" /\ req[r].op = "login"
    BY <1>1 DEF Init, Idle
  <2>2. QED
    BY <2>1 DEF Holds, OnCourse, Fresh, SameUser, InFlight, Linking
<1>2. cred = {} \/ cred = {AdminCredential(Admin, None)}
  BY DEF Init
<1>3. SecondCredentialHasACause /\ AccountHasOneUser
  BY <1>2 DEF SecondCredentialHasACause, AccountHasOneUser
<1>4. QED
  BY <1>1, <1>3 DEF MemoryInv, Holds

\* Nobody moves: nothing is overtaken.
LEMMA QuietStep ==
    ASSUME IndInv, MemoryInv, History, UNCHANGED <<row, cred, req>>
    PROVE  MemoryInv'
<1>1. ASSUME NEW s \in Request PROVE Holds(s)'
  <2>1. OnCourse(s) /\ (s \notin stale => Fresh(s)) /\ (s \notin moved => SameUser(s))
    BY DEF MemoryInv
  <2>2. OnCourse(s)'
    BY <2>1 DEF OnCourse, Local, InFlight, Linking
  <2>3. s \notin stale' /\ InFlight(s) => Fresh(s)'
    <3>1. s \notin stale' /\ InFlight(s) => Fresh(s)
      BY <2>1, Kept DEF Matters, InFlight
    <3>2. Fresh(s) => Fresh(s)'
      BY DEF Fresh, EmailTaken, Clashes, WithEmail, Live, InFlight, Linking, Of, Google
    <3>3. QED
      BY <3>1, <3>2
  <2>4. ~InFlight(s) => Fresh(s)' /\ SameUser(s)'
    BY DEF Fresh, SameUser, InFlight, Ended
  <2>5. s \notin moved' /\ InFlight(s) => SameUser(s)'
    <3>1. s \notin moved' /\ InFlight(s) => SameUser(s)
      BY <2>1, Kept DEF Matters, InFlight
    <3>2. \A c \in cred : c.by \notin moved' => c.by \notin moved
      BY KeptBy
    <3>3. SameUser(s) => SameUser(s)'
      BY <3>2 DEF SameUser, InFlight, Linking, Of
    <3>4. QED
      BY <3>1, <3>3
  <2>6. QED
    BY <2>2, <2>3, <2>4, <2>5 DEF Holds
<1>2. \A c \in cred : /\ c.by \notin stale' => c.by \notin stale
                      /\ c.by \notin moved' => c.by \notin moved
  BY KeptBy
<1>3. SecondCredentialHasACause'
  BY <1>2 DEF MemoryInv, SecondCredentialHasACause
<1>4. AccountHasOneUser'
  <2> SUFFICES ASSUME NEW c \in cred, NEW d \in cred, c.account = d.account, c.account # None, c.user # d.user
               PROVE  {c.by, d.by} \cap stale' # {} /\ {c.by, d.by} \cap moved' # {}
    BY DEF AccountHasOneUser
  <2>1. {c.by, d.by} \cap stale # {} /\ {c.by, d.by} \cap moved # {}
    BY DEF MemoryInv, AccountHasOneUser
  <2>2. QED
    BY <1>2, <2>1
<1>5. QED
  BY <1>1, <1>3, <1>4 DEF MemoryInv, Holds

LEMMA TablesStaySafe ==
    ASSUME IndInv, Next, NEW r \in Request, Steps(r)
    PROVE  TablesSafe
<1>1. CASE Start(r) \/ Fail(r)
  BY <1>1, StartStep, FailStep, Reading
<1>2. CASE Continue(r)
  <2>1. CASE \/ UpdateLastLogin(r) \/ FindRegistered(r) \/ FindVerified(r) \/ FindLinked(r) \/ FindByProfile(r)
             \/ FindExistingProvider(r) \/ FindCreated(r) \/ CheckEmail(r) \/ Load(r)
    BY <2>1, ContinueReading, Reading
  <2>2. CASE \/ \E u \in User, s \in Status : InsertUser(r, u, s)
             \/ CreateLocalCredential(r) \/ CreateGoogleCredential(r) \/ ComparePassword(r)
             \/ UpdateUser(r) \/ SoftDelete(r) \/ \E u \in User : SeedAdmin(r, u)
    BY <2>2, ContinueWriting
  <2>3. QED
    BY <1>2, <2>1, <2>2 DEF Continue
<1>3. QED
  BY <1>1, <1>2 DEF Steps

LEMMA MemoryStep == IndInv /\ MemoryInv /\ [Next]_vars => MemoryInv'
<1> SUFFICES ASSUME IndInv, MemoryInv, [Next]_vars PROVE MemoryInv'
  OBVIOUS
<1>1. CASE UNCHANGED vars
  BY <1>1 DEF vars, MemoryInv, OnCourse, Fresh, SameUser, SecondCredentialHasACause, AccountHasOneUser,
         Local, Google, Of, EmailTaken, Clashes, WithEmail, Live, InFlight, Linking
<1>2. ASSUME Next, NEW r \in Request, Steps(r) PROVE MemoryInv'
  <2>1. TablesSafe /\ History
    BY <1>2, TablesStaySafe DEF Next
  <2>2. \A s \in Request : Holds(s)
    BY MemoryParts
  <2>3. \A s \in Request : Holds(s)'
    BY <1>2, <2>1, <2>2, EveryoneHolds
  <2>4. SecondCredentialHasACause' /\ AccountHasOneUser'
    BY <1>2, <2>1, <2>2, SecondStep, AccountStep DEF MemoryInv
  <2>5. QED
    BY <2>3, <2>4 DEF MemoryInv, Holds
<1>3. CASE History /\ ((\E u \in User : MfaTokenExpires(u)) \/ AllDone)
  BY <1>3, QuietStep DEF MfaTokenExpires, AllDone, tables
<1>4. QED
  BY <1>1, <1>2, <1>3 DEF Next, Steps

LEMMA Remembering == Spec => [](IndInv /\ MemoryInv)
<1>1. Init => MemoryInv
  BY InitMemory
<1>2. QED
  BY <1>1, Inductive, MemoryStep, PTL DEF Spec

\* An insert or an update of a user that nobody has overtaken is never refused for its
\* e-mail; the one of admin.seed has the e-mail to itself among the users not removed.
THEOREM NoRefusalWithoutARace == Spec => []FreeUntilOvertaken
<1>1. MemoryInv => FreeUntilOvertaken
  BY DEF MemoryInv, Fresh, FreeUntilOvertaken, At
<1>2. QED
  BY <1>1, Remembering, PTL

\* A second credential of a kind, or of a Google account, takes a race between the two
\* logins or registrations that added them, for any number of them.
THEOREM SecondCredentialsHaveCauses == Spec => []SecondCredentialHasACause
<1>1. MemoryInv => SecondCredentialHasACause
  BY DEF MemoryInv
<1>2. QED
  BY <1>1, Remembering, PTL

\* A Google account that leads to two users takes that race and a change of an e-mail.
THEOREM AccountsHaveOneUser == Spec => []AccountHasOneUser
<1>1. MemoryInv => AccountHasOneUser
  BY DEF MemoryInv
<1>2. QED
  BY <1>1, Remembering, PTL

\* A PATCH of a user that nobody has overtaken changes the columns it was sent, and no other.
THEOREM UpdatesAreExact == Spec => UndisturbedUpdate
<1> DEFINE Exact == \A r \in Request \ stale : \A u \in User :
          (req[r].user = u /\ At(r, "loaded") /\ req'[r].pc = "done") =>
              /\ row'[u].deleted = row[u].deleted
              /\ row'[u].email = (IF req[r].email = None THEN row[u].email ELSE req[r].email)
              /\ row'[u].status = (IF req[r].status = None THEN row[u].status ELSE req[r].status)
<1>1. IndInv /\ MemoryInv /\ [Next]_vars => [Exact]_vars
  <2> SUFFICES ASSUME IndInv, MemoryInv, Next, NEW r \in Request \ stale, NEW u \in User,
                      req[r].user = u, At(r, "loaded"), req'[r].pc = "done"
               PROVE  /\ row'[u].deleted = row[u].deleted
                      /\ row'[u].email = (IF req[r].email = None THEN row[u].email ELSE req[r].email)
                      /\ row'[u].status = (IF req[r].status = None THEN row[u].status ELSE req[r].status)
    OBVIOUS
  <2>1. /\ req[r] \in RequestState /\ Prepared(req[r], row) /\ OnCourse(r) /\ Fresh(r)
        /\ row \in [User -> Row \cup {None}]
    BY Ready DEF MemoryInv, IndInv, TypeOK
  <2>2. req[r].pc = "loaded"
    BY DEF At
  <2>3. UpdateUser(r)
    <3>1. req' # req
      BY <2>2
    <3>2. PICK s \in Request : Steps(s)
      BY <3>1 DEF Next, Steps, MfaTokenExpires, AllDone
    <3>3. s = r
      BY <2>2, <3>2, OneMoves DEF Steps
    <3>4. ~Fail(r)
      BY <2>2, Lands DEF Fail, Ended
    <3>5. ~Start(r)
      BY <2>2 DEF Start, CheckNewEmail, FindByEmail, VerifyMfa, FindToRemove, FindProviderAuth, ReadUser, LookForAdmin,
             Begin, At
    <3>6. QED
      BY <2>2, <3>2, <3>3, <3>4, <3>5
         DEF Steps, Continue, InsertUser, CreateLocalCredential, UpdateLastLogin, FindRegistered, ComparePassword,
             FindVerified, FindLinked, FindByProfile, FindExistingProvider, FindCreated, CreateGoogleCredential,
             CheckEmail, Load, SoftDelete, SeedAdmin, At
  <2>4. ~End(r, "failed")
    BY Lands DEF Ended
  <2>5. row' = [row EXCEPT ![u] = Saved(row[u], req[r].loaded, req[r].entity)]
    BY <2>3, <2>4 DEF UpdateUser
  <2>6. /\ row[u] \in Row /\ req[r].loaded = row[u] /\ req[r].op = "update" /\ req[r].entity \in Row
        /\ req[r].entity = Edited(row[u], req[r].email, req[r].status)
    BY <2>1, <2>2 DEF OnCourse, Fresh, Prepared, RequestState
  <2>7. /\ req[r].entity.deleted = row[u].deleted
        /\ req[r].entity.email = (IF req[r].email = None THEN row[u].email ELSE req[r].email)
        /\ req[r].entity.status = (IF req[r].status = None THEN row[u].status ELSE req[r].status)
    BY <2>6 DEF Edited, Row
  <2>8. row'[u] = Saved(row[u], row[u], req[r].entity)
    BY <2>1, <2>5, <2>6
  <2>9. /\ row'[u].deleted = req[r].entity.deleted /\ row'[u].email = req[r].entity.email
        /\ row'[u].status = req[r].entity.status
    BY <2>8 DEF Saved
  <2>10. QED
    BY <2>7, <2>9
<1>2. Spec => [][Exact]_vars
  BY <1>1, Remembering, PTL DEF Spec
<1>3. QED
  BY <1>2 DEF UndisturbedUpdate
=============================================================================
