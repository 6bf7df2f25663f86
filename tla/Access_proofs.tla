--------------------------- MODULE Access_proofs ---------------------------
(***************************************************************************)
(* Theorems about Access, for any number of users, roles, permissions and  *)
(* requests.                                                               *)
(***************************************************************************)
EXTENDS Access, TLAPS

-----------------------------------------------------------------------------
(* Links refer to what exists *)

LEMMA RefInit == Init => RefInv
<1> SUFFICES ASSUME Init PROVE RefInv
  OBVIOUS
<1> USE AccessAssumption
<1>1. code \in [Role -> Code \cup {None}] /\ permission \subseteq PermissionId /\ removed = {}
  BY DEF Init, Unseeded, SeededBefore
<1>2. req \in [Request -> RequestState]
  BY DEF Init, Idle, RequestState, PC, Op, Guarding
<1>3. ASSUME NEW l \in link
      PROVE  /\ l \in Link /\ Exists(l.to)
             /\ \/ l.of \in User /\ l.to \in Role
                \/ l.of \in Role /\ Exists(l.of) /\ l.to \in PermissionId
  <2>0. SeededBefore
    BY <1>3 DEF Init, Unseeded
  <2>1. PICK k \in SeededLink : l = [of |-> k[1], to |-> k[2], by |-> None]
    BY <1>3, <2>0 DEF SeededBefore
  <2>2. \/ k[1] \in User /\ k[2] \in Seeded
        \/ k[1] \in Seeded /\ k[2] \in PermissionId
    OBVIOUS
  <2>3. \A i \in Seeded : i \in Role /\ Exists(i)
    BY <2>0 DEF SeededBefore, Exists
  <2>4. \A p \in PermissionId : Exists(p)
    BY <2>0 DEF SeededBefore, Exists
  <2>5. QED
    BY <2>1, <2>2, <2>3, <2>4 DEF Link, Subject, Member
<1>4. \A r \in Request : Checked(req[r])
  BY DEF Init, Idle, Checked, Ended, Guarding
<1>5. QED
  BY <1>1, <1>2, <1>3, <1>4 DEF RefInv, TypeOK, LinksRefer

\* A step that takes one request to a state it may be in, and removes no role or
\* permission, leaves every request in a state it may be in.
LEMMA RequestStep ==
    ASSUME RefInv, NEW r \in Request, NEW q \in RequestState, Checked(q)',
           req' = [req EXCEPT ![r] = q],
           permission \subseteq permission', \A m \in Member : Exists(m) => Exists(m)'
    PROVE  req' \in [Request -> RequestState] /\ \A s \in Request : Checked(req[s])'
<1>1. req' \in [Request -> RequestState]
  BY DEF RefInv, TypeOK
<1>2. ASSUME NEW s \in Request PROVE Checked(req[s])'
  <2>1. CASE s = r
    <3>1. req'[s] = q
      BY <2>1 DEF RefInv, TypeOK
    <3>2. QED
      BY <3>1 DEF Checked, AllExist, Exists
  <2>2. CASE s # r
    <3>1. req'[s] = req[s] /\ Checked(req[s]) /\ req[s] \in RequestState
      BY <2>2 DEF RefInv, TypeOK
    <3>2. AllExist(req[s].requested) => AllExist(req[s].requested)'
      <4>1. req[s].requested \subseteq Member
        BY <3>1 DEF RequestState
      <4>2. QED
        BY <3>1, <4>1 DEF AllExist
    <3>3. Exists(req[s].subject) /\ req[s].subject \in Role => Exists(req[s].subject)'
      BY <3>1 DEF Member
    <3>4. \A i \in Role : Exists(i) => Exists(i)'
      BY DEF Member
    <3>5. req[s].pc = "seeding" => req[s].seen.permission \subseteq permission'
      BY <3>1 DEF Checked
    <3>6. QED
      BY <3>1, <3>2, <3>3, <3>4, <3>5 DEF Checked, Endpoint, Ended
  <2>3. QED
    BY <2>1, <2>2
<1>3. QED
  BY <1>1, <1>2

\* A step that only reads.
LEMMA ReadingStep ==
    ASSUME RefInv, UNCHANGED tables, NEW r \in Request, NEW q \in RequestState, Checked(q),
           req' = [req EXCEPT ![r] = q]
    PROVE  RefInv'
<1>1. \A m : Exists(m)' = Exists(m)
  BY DEF Exists, tables
<1>2. Checked(q)'
  BY <1>1 DEF Checked, AllExist, Exists, tables
<1>3. req' \in [Request -> RequestState] /\ \A s \in Request : Checked(req[s])'
  BY <1>1, <1>2, RequestStep DEF tables
<1>4. LinksRefer'
  BY <1>1 DEF RefInv, TypeOK, LinksRefer, tables
<1>5. QED
  BY <1>3, <1>4 DEF RefInv, TypeOK, tables

LEMMA Ready ==
    ASSUME RefInv, NEW r \in Request
    PROVE  req[r] \in RequestState /\ Checked(req[r])
BY DEF RefInv, TypeOK

\* The request has ended.
LEMMA EndState ==
    ASSUME NEW outcome \in Ended
    PROVE  /\ [Idle EXCEPT !.pc = outcome] \in RequestState
           /\ Checked([Idle EXCEPT !.pc = outcome])
           /\ Checked([Idle EXCEPT !.pc = outcome])'
BY DEF RequestState, Checked, Idle, Ended, Guarding, PC, Op

LEMMA EndStep ==
    ASSUME RefInv, UNCHANGED tables, NEW r \in Request, NEW outcome \in Ended, End(r, outcome)
    PROVE  RefInv'
BY EndState, ReadingStep DEF End

LEMMA GotoStep ==
    ASSUME RefInv, UNCHANGED tables, NEW r \in Request, NEW pc \in PC, Goto(r, pc),
           Checked([req[r] EXCEPT !.pc = pc])
    PROVE  RefInv'
<1>1. [req[r] EXCEPT !.pc = pc] \in RequestState
  BY Ready DEF RequestState
<1>2. req' = [req EXCEPT ![r] = [req[r] EXCEPT !.pc = pc]]
  BY DEF Goto
<1>3. QED
  BY <1>1, <1>2, ReadingStep

\* A check, after which the request goes on or is rejected.
LEMMA CheckStep ==
    ASSUME RefInv, UNCHANGED tables, NEW r \in Request, NEW pc \in PC, NEW ok, Step(ok, r, pc),
           ok => Checked([req[r] EXCEPT !.pc = pc])
    PROVE  RefInv'
<1>1. CASE ok
  BY <1>1, GotoStep DEF Step
<1>2. CASE ~ok
  <2>1. End(r, "rejected")
    BY <1>2 DEF Step
  <2>2. QED
    BY <2>1, EndStep DEF Ended
<1>3. QED
  BY <1>1, <1>2

LEMMA AskStep ==
    ASSUME RefInv, NEW r \in Request, NEW u \in User, NEW op \in Op,
           NEW s \in Subject \cup Code \cup {None}, NEW ids, Ask(r, u, op, s, ids)
    PROVE  RefInv'
<1> DEFINE q == [Idle EXCEPT !.op = op, !.subject = s, !.requested = ids,
                             !.caller = IF RequiredBy[op] = {} THEN None ELSE u,
                             !.pc = IF RequiredBy[op] = {} THEN "allowed" ELSE "guard"]
<1>1. Endpoint(op, s, ids) /\ UNCHANGED tables /\ req' = [req EXCEPT ![r] = q]
  BY DEF Ask
<1>2. ids \subseteq Member
  BY <1>1 DEF Endpoint, Member
<1>3. q.pc \in {"allowed", "guard"} /\ q.op = op /\ q.subject = s /\ q.requested = ids
      /\ (q.pc = "guard" => q.caller = u)
  BY DEF Idle
<1>4. q \in RequestState
  BY <1>2, <1>3 DEF RequestState, Idle, PC, Guarding
<1>5. Checked(q)
  BY <1>1, <1>3 DEF RequestState, Checked, Guarding
<1>6. QED
  BY <1>1, <1>4, <1>5, ReadingStep

LEMMA FindRoleIdsStep ==
    ASSUME RefInv, NEW r \in Request, FindRoleIds(r)
    PROVE  RefInv'
<1> DEFINE roles == LinkedTo(req[r].caller)
           q == [req[r] EXCEPT !.pc = "roles", !.current = roles]
<1>1. CASE roles = {}
  BY <1>1, EndStep DEF FindRoleIds, Ended
<1>2. CASE roles # {}
  <2>1. req' = [req EXCEPT ![r] = q] /\ UNCHANGED tables /\ req[r].pc = "identified"
    BY <1>2, Ready DEF FindRoleIds, At, RefInv, TypeOK
  <2>2. roles \subseteq Member
    BY DEF LinkedTo, RowsOf, RefInv, TypeOK, Link
  <2>3. q \in RequestState
    BY <2>2, Ready DEF RequestState, PC, Guarding
  <2>4. Checked(q)
    BY <2>1, Ready DEF Checked, RequestState, Guarding, Ended
  <2>5. QED
    BY <2>1, <2>3, <2>4, ReadingStep
<1>3. QED
  BY <1>1, <1>2

LEMMA FindCurrentIdsStep ==
    ASSUME RefInv, NEW r \in Request, FindCurrentIds(r)
    PROVE  RefInv'
<1> DEFINE ids == LinkedTo(req[r].subject)
           q == [req[r] EXCEPT !.pc = "compared", !.current = ids]
<1>1. req' = [req EXCEPT ![r] = q] /\ UNCHANGED tables /\ req[r].pc = "valid"
  BY Ready DEF FindCurrentIds, At, RefInv, TypeOK
<1>2. ids \subseteq Member
  BY DEF LinkedTo, RowsOf, RefInv, TypeOK, Link
<1>3. q \in RequestState
  BY <1>2, Ready DEF RequestState, PC
<1>4. Checked(q)
  BY <1>1, Ready DEF Checked, RequestState, Guarding, Ended, AllExist
<1>5. QED
  BY <1>1, <1>3, <1>4, ReadingStep

\* The new links refer to what was asked for, which exists.
LEMMA SetLinksStep ==
    ASSUME RefInv, NEW r \in Request, SetLinks(r)
    PROVE  RefInv'
<1> DEFINE q == req[r]
           added == getAddedIds(q.requested, q.current)
           new == [of: {q.subject}, to: added, by: {r}]
<1>1. q.pc = "compared" /\ UNCHANGED <<removed, code, permission>> /\ End(r, "done")
      /\ link' \subseteq link \cup new
  BY DEF SetLinks, At
<1>2. q \in RequestState /\ AllExist(q.requested) /\ Endpoint(q.op, q.subject, q.requested)
      /\ q.op \in {"assign", "sync"} /\ (q.op = "sync" => Exists(q.subject))
  BY <1>1, Ready DEF Checked, Ended
<1>3. \A m : Exists(m)' = Exists(m)
  BY <1>1 DEF Exists
<1>4. added \subseteq q.requested
  BY DEF getAddedIds
<1>5. ASSUME NEW l \in new
      PROVE  /\ l \in Link /\ Exists(l.to)
             /\ \/ l.of \in User /\ l.to \in Role
                \/ l.of \in Role /\ Exists(l.of) /\ l.to \in PermissionId
  <2>1. l.of = q.subject /\ l.to \in q.requested /\ l = [of |-> l.of, to |-> l.to, by |-> r]
    BY <1>4
  <2>2. Exists(l.to)
    BY <1>2, <2>1 DEF AllExist
  <2>3. \/ q.subject \in User /\ q.requested \subseteq Role
        \/ q.subject \in Role /\ q.requested \subseteq PermissionId /\ Exists(q.subject)
    BY <1>2 DEF Endpoint
  <2>4. QED
    BY <2>1, <2>2, <2>3 DEF Link, Subject, Member
<1>6. LinksRefer' /\ link' \subseteq Link
  <2>1. ASSUME NEW l \in link'
        PROVE  /\ l \in Link /\ Exists(l.to)
               /\ \/ l.of \in User /\ l.to \in Role
                  \/ l.of \in Role /\ Exists(l.of) /\ l.to \in PermissionId
    BY <1>1, <1>5 DEF RequestState, RefInv, TypeOK, LinksRefer
  <2>2. QED
    BY <1>3, <2>1 DEF LinksRefer
<1>7. req' \in [Request -> RequestState] /\ \A s \in Request : Checked(req[s])'
  BY <1>1, <1>3, EndState, RequestStep DEF End, Ended
<1>8. QED
  BY <1>1, <1>6, <1>7 DEF RefInv, TypeOK

LEMMA RemoveUserStep ==
    ASSUME RefInv, NEW r \in Request, RemoveUser(r)
    PROVE  RefInv'
<1>1. UNCHANGED <<code, permission, link>> /\ End(r, "done") /\ req[r].pc = "found" /\ req[r].op = "remove"
  BY DEF RemoveUser, At
<1>2. \A m \in Member : Exists(m)' = Exists(m)
  BY <1>1, AccessAssumption DEF Exists, Member
<1>3. req' \in [Request -> RequestState] /\ \A s \in Request : Checked(req[s])'
  BY <1>1, <1>2, EndState, RequestStep DEF End, Ended
<1>4. LinksRefer'
  BY <1>1, <1>2 DEF RefInv, TypeOK, LinksRefer, Link, Member
<1>5. removed' \subseteq User
  <2>1. req[r].subject \in User
    BY <1>1, Ready DEF Checked, Endpoint, Ended
  <2>2. QED
    BY <2>1 DEF RemoveUser, RefInv, TypeOK
<1>6. QED
  BY <1>1, <1>3, <1>4, <1>5 DEF RefInv, TypeOK

LEMMA InsertRoleStep ==
    ASSUME RefInv, NEW r \in Request, NEW i \in Role, InsertRole(r, i)
    PROVE  RefInv'
<1>1. UNCHANGED <<removed, permission, link>> /\ End(r, "done") /\ req[r].pc = "toInsert"
      /\ code' = [code EXCEPT ![i] = req[r].subject] /\ code[i] = None
  BY DEF InsertRole, At
<1>2. req[r].subject \in Code
  BY <1>1, Ready DEF Checked, Endpoint, Ended
<1>3. code' \in [Role -> Code \cup {None}]
  BY <1>1, <1>2 DEF RefInv, TypeOK
<1>4. \A m \in Member : Exists(m) => Exists(m)'
  BY <1>1, <1>2, AccessAssumption DEF Exists, RefInv, TypeOK
<1>5. req' \in [Request -> RequestState] /\ \A s \in Request : Checked(req[s])'
  BY <1>1, <1>4, EndState, RequestStep DEF End, Ended
<1>6. LinksRefer'
  BY <1>1, <1>4 DEF RequestState, RefInv, TypeOK, LinksRefer, Link, Member
<1>7. QED
  BY <1>1, <1>3, <1>5, <1>6 DEF RefInv, TypeOK

LEMMA RunSeedStep ==
    ASSUME RefInv, NEW r \in Request, RunSeed(r)
    PROVE  RefInv'
<1> DEFINE seen == [permission |-> permission, code |-> code, links |-> {<<l.of, l.to>> : l \in link}]
           q == [Idle EXCEPT !.pc = "seeding", !.op = "seed", !.seen = seen]
<1>1. req' = [req EXCEPT ![r] = q] /\ UNCHANGED tables
  BY DEF RunSeed
<1>2. seen \in Snapshot
  BY DEF RefInv, TypeOK, Link, Snapshot
<1>3. q \in RequestState
  BY <1>2 DEF RequestState, Idle, PC
<1>4. \A i \in Role : seen.code[i] # None => Exists(i)
  BY DEF Exists
<1>5. q.pc = "seeding" /\ q.seen = seen
  BY DEF Idle
<1>6. Checked(q)
  BY <1>2, <1>4, <1>5 DEF Checked, Ended, Guarding
<1>7. QED
  BY <1>1, <1>3, <1>6, ReadingStep

\* Roles that were seen are still there, and what was not seen is inserted first.
LEMMA SeedStep ==
    ASSUME RefInv, NEW r \in Request, Seed(r)
    PROVE  RefInv'
<1> DEFINE seen == req[r].seen
           codes == MissingCodes(seen)
<1>1. req[r].pc = "seeding" /\ End(r, "done") /\ removed' = removed
      /\ permission' = permission \cup (PermissionId \ seen.permission)
  BY DEF Seed, At
<1>2. PICK place \in [codes -> Role], role \in [SeedCode -> Role] :
         /\ \A c \in codes : code[place[c]] = None
         /\ \A c, d \in codes : place[c] = place[d] => c = d
         /\ \A c \in SeedCode :
               IF c \in codes THEN role[c] = place[c] ELSE seen.code[role[c]] = c
         /\ code' = [i \in Role |-> IF \E c \in codes : place[c] = i
                                    THEN CHOOSE c \in codes : place[c] = i ELSE code[i]]
         /\ link' = link \cup
                {[of |-> role[k[1]], to |-> k[2], by |-> r] :
                    k \in {l \in SeedLink : <<role[l[1]], l[2]>> \notin seen.links}}
  BY DEF Seed
<1>3. seen \in Snapshot /\ \A i \in Role : seen.code[i] # None => Exists(i)
  BY <1>1, Ready DEF Checked
<1>4. codes \subseteq SeedCode /\ SeedCode \subseteq Code
  BY AccessAssumption DEF MissingCodes
<1> HIDE DEF codes
<1>5. ASSUME NEW i \in Role
      PROVE  code'[i] \in Code \cup {None} /\ (Exists(i) => Exists(i)')
  <2>1. CASE \E c \in codes : place[c] = i
    <3>1. code'[i] \in codes
      BY <1>2, <2>1
    <3>2. QED
      BY <1>4, <3>1, AccessAssumption DEF Exists
  <2>2. CASE ~ \E c \in codes : place[c] = i
    <3>1. code'[i] = code[i]
      BY <1>2, <2>2
    <3>2. QED
      BY <1>1, <3>1, AccessAssumption DEF RefInv, TypeOK, Exists
  <2>3. QED
    BY <2>1, <2>2
<1>6. code' \in [Role -> Code \cup {None}]
  BY <1>2, <1>5
<1>7. permission' = PermissionId
  <2>1. \A p \in seen.permission : p \in permission
    BY <1>1, Ready DEF Checked
  <2>2. QED
    BY <1>1, <1>3, <2>1 DEF RefInv, TypeOK, Snapshot
<1>8. \A m \in Member : Exists(m) => Exists(m)'
  BY <1>1, <1>5, <1>7, AccessAssumption DEF Member, Exists
<1>9. ASSUME NEW c \in SeedCode PROVE role[c] \in Role /\ Exists(role[c])'
  <2>1. role[c] \in Role
    BY <1>2
  <2>2. CASE c \in codes
    <3>1. code'[role[c]] \in codes
      BY <1>2, <2>1, <2>2
    <3>2. QED
      BY <1>4, <2>1, <3>1, AccessAssumption DEF Exists
  <2>3. CASE c \notin codes
    <3>1. seen.code[role[c]] = c /\ c # None
      BY <1>2, <1>4, <2>3, AccessAssumption
    <3>2. QED
      BY <1>3, <1>8, <2>1, <3>1 DEF Member
  <2>4. QED
    BY <2>2, <2>3
<1>10. ASSUME NEW l \in link'
       PROVE  /\ l \in Link /\ Exists(l.to)'
              /\ \/ l.of \in User /\ l.to \in Role
                 \/ l.of \in Role /\ Exists(l.of)' /\ l.to \in PermissionId
  <2>1. CASE l \in link
    BY <1>8, <2>1 DEF RefInv, TypeOK, LinksRefer, Member, Link
  <2>2. CASE l \notin link
    <3>1. PICK k \in SeedLink : l = [of |-> role[k[1]], to |-> k[2], by |-> r]
      BY <1>2, <2>2
    <3>2. k[1] \in SeedCode /\ k[2] \in PermissionId
      BY AccessAssumption
    <3>3. Exists(k[2])'
      BY <1>7, <3>2 DEF Exists
    <3>4. QED
      BY <1>9, <3>1, <3>2, <3>3 DEF Link, Subject, Member
  <2>3. QED
    BY <2>1, <2>2
<1>11. LinksRefer' /\ link' \subseteq Link
  BY <1>10 DEF LinksRefer
<1>12. req' \in [Request -> RequestState] /\ \A s \in Request : Checked(req[s])'
  BY <1>1, <1>8, EndState, RequestStep DEF End, Ended
<1> HIDE DEF seen
<1>13. removed' \subseteq User /\ permission' \subseteq PermissionId
  BY <1>1, <1>7 DEF RefInv, TypeOK
<1>14. TypeOK'
  BY <1>6, <1>11, <1>12, <1>13 DEF TypeOK
<1>15. QED
  BY <1>11, <1>12, <1>14 DEF RefInv

LEMMA RefNext == RefInv /\ [Next]_vars => RefInv'
<1> SUFFICES ASSUME RefInv, [Next]_vars PROVE RefInv'
  OBVIOUS
<1>1. CASE UNCHANGED vars
  BY <1>1 DEF vars, RefInv, TypeOK, Checked, AllExist, Exists, LinksRefer
<1>2. CASE AllDone
  BY <1>2 DEF AllDone, tables, RefInv, TypeOK, Checked, AllExist, Exists, LinksRefer
<1>3. ASSUME NEW r \in Request, Start(r) PROVE RefInv'
  BY <1>3, AskStep DEF Start
<1>4. ASSUME NEW r \in Request, Fail(r) PROVE RefInv'
  BY <1>4, EndStep DEF Fail, Ended
<1>5. ASSUME NEW r \in Request, Continue(r) PROVE RefInv'
  <2> USE DEF RequestState, Checked, Ended, Guarding, PC, At
  <2>0. req[r] \in RequestState /\ Checked(req[r])
    BY Ready
  <2>1. CASE GetUser(r)
    BY <2>0, <2>1, CheckStep DEF GetUser
  <2>2. CASE FindRoleIds(r)
    BY <2>2, FindRoleIdsStep
  <2>3. CASE FindPermissions(r)
    BY <2>0, <2>3, CheckStep DEF FindPermissions
  <2>4. CASE Use(r)
    BY <2>4, EndStep DEF Use
  <2>5. CASE FindSubject(r)
    BY <2>0, <2>5, CheckStep DEF FindSubject
  <2>6. CASE Validate(r)
    BY <2>0, <2>6, CheckStep DEF Validate, AllExist
  <2>7. CASE FindCurrentIds(r)
    BY <2>7, FindCurrentIdsStep
  <2>8. CASE SetLinks(r)
    BY <2>8, SetLinksStep
  <2>9. CASE RemoveUser(r)
    BY <2>9, RemoveUserStep
  <2>10. CASE FindRoleByCode(r)
    BY <2>0, <2>10, CheckStep DEF FindRoleByCode
  <2>11. CASE \E i \in Role : InsertRole(r, i)
    BY <2>11, InsertRoleStep
  <2>12. QED
    BY <1>5, <2>1, <2>2, <2>3, <2>4, <2>5, <2>6, <2>7, <2>8, <2>9, <2>10, <2>11 DEF Continue
<1>6. ASSUME NEW r \in Request, Operate(r) PROVE RefInv'
  BY <1>6, RunSeedStep, SeedStep DEF Operate
<1>7. QED
  BY <1>1, <1>2, <1>3, <1>4, <1>5, <1>6 DEF Next

\* Whatever replacements, creations and removals overlap, every row of user_roles
\* refers to a role that exists and every row of role_permissions to an existing
\* role and permission: validation before the transaction is enough.
THEOREM LinksAlwaysRefer == Spec => []LinksRefer
<1>1. RefInv => LinksRefer
  BY DEF RefInv, TypeOK
<1>2. QED
  BY <1>1, RefInit, RefNext, PTL DEF Spec

-----------------------------------------------------------------------------
(* The guard's answer was right at a moment *)

LEMMA MomentInit == Init => MomentInv
BY DEF Init, Idle, MomentInv, Guarding

\* Users' links go to roles.
LEMMA RolesOfUsers ==
    ASSUME RefInv, NEW u \in User
    PROVE  LinkedTo(u) \subseteq Role
BY AccessAssumption DEF RefInv, TypeOK, LinksRefer, LinkedTo, RowsOf

\* A step of another request: either what q has read is still so, and the answer it
\* is heading for is the answer of the present moment, or q knows what changed.
LEMMA GuardKept ==
    ASSUME RefInv, NEW q \in RequestState, q.pc \in Guarding, q.caller \in User,
           NEW before, NEW after, before \subseteq after, Verdict(Permitted(q))' \in after,
           NEW known, NEW causes, causes = known \cup Changes(q), Guarded(q, before, known)
    PROVE  Guarded(q, after, causes)'
<1> DEFINE u == q.caller
<1>1. removed' # removed => "user" \in causes
  BY DEF Changes
<1>2. "roles" \notin causes => LinkedTo(u)' = LinkedTo(u)
  <2>1. LinkedTo(u)' # LinkedTo(u) => "roles" \in Changes(q)
    BY DEF Changes
  <2>2. QED
    BY <2>1
<1>3. "permissions" \notin causes => \A i \in Role : LinkedTo(i)' = LinkedTo(i)
  BY DEF Changes
<1>4. "user" \notin causes /\ q.pc # "guard" => Exists(u) /\ Exists(u)'
  BY <1>1, AccessAssumption DEF Guarded, Exists, RefInv, TypeOK
<1>5. ~Twice(causes) => ~Twice(known)
  BY DEF Twice
<1>6. ASSUME NEW roles \in SUBSET Role, "permissions" \notin causes
      PROVE  hasPermissions(roles, RequiredBy[q.op])' = hasPermissions(roles, RequiredBy[q.op])
  <2>1. getAccessByRoleIds(roles)' = getAccessByRoleIds(roles)
    BY <1>3, <1>6 DEF getAccessByRoleIds
  <2>2. QED
    BY <2>1 DEF hasPermissions
<1>7. ASSUME q.pc = "identified", ~Twice(causes)
      PROVE  Verdict(hasPermissions(LinkedTo(u), RequiredBy[q.op]))' \in after
  <2>1. CASE "user" \notin causes
    BY <1>4, <1>7, <2>1 DEF Permitted, hasPermissions, getAccessByRoleIds, Verdict
  <2>2. CASE "user" \in causes
    <3>1. "roles" \notin causes /\ "permissions" \notin causes
      BY <1>7, <2>2 DEF Twice
    <3>2. LinkedTo(u)' = LinkedTo(u) /\ LinkedTo(u) \subseteq Role
      BY <1>2, <3>1, RolesOfUsers
    <3>3. QED
      BY <1>5, <1>6, <1>7, <3>1, <3>2 DEF Guarded, Verdict, hasPermissions, getAccessByRoleIds
  <2>3. QED
    BY <2>1, <2>2
<1>8. ASSUME q.pc = "roles", ~Twice(causes)
      PROVE  Verdict(hasPermissions(q.current, RequiredBy[q.op]))' \in after
  <2>1. CASE "user" \notin causes /\ "roles" \notin causes
    <3>1. q.current = LinkedTo(u)'
      BY <1>2, <1>8, <2>1 DEF Guarded
    <3>2. QED
      BY <1>4, <1>8, <2>1, <3>1 DEF Permitted, hasPermissions, getAccessByRoleIds, Verdict
  <2>2. CASE "user" \in causes \/ "roles" \in causes
    <3>1. "permissions" \notin causes
      BY <1>8, <2>2 DEF Twice
    <3>2. q.current \in SUBSET Role
      BY <1>8 DEF Guarded
    <3>3. QED
      BY <1>5, <1>6, <1>8, <3>1, <3>2 DEF Guarded, Verdict
  <2>3. QED
    BY <2>1, <2>2
<1>9. q.pc = "roles" => /\ q.current \subseteq Role
                        /\ "roles" \notin causes => q.current = LinkedTo(u)'
  BY <1>2 DEF Guarded
<1>10. QED
  BY <1>4, <1>7, <1>8, <1>9 DEF Guarded

\* A request's own step: it has read one thing more, and nothing has changed.
LEMMA GuardStep ==
    ASSUME RefInv, MomentInv, NEW r \in Request, Start(r) \/ Continue(r) \/ Operate(r) \/ Fail(r), History,
           req'[r].pc \in Guarding, req'[r] # req[r]
    PROVE  Guarded(req[r], moments[r], changed[r])'
<1> USE DEF Guarding
<1>0. req[r] \in RequestState /\ Checked(req[r]) /\ req \in [Request -> RequestState]
  BY Ready DEF RefInv, TypeOK
<1>1. Verdict(Permitted(req[r]))' \in moments'[r]
  BY DEF History
<1>2. CASE \E u \in User, op \in Op, s \in Subject \cup Code \cup {None}, ids \in Sent \cup {{}} :
              Ask(r, u, op, s, ids)
  <2>1. req'[r].pc = "guard"
    BY <1>0, <1>2 DEF Ask, Idle
  <2>2. QED
    BY <1>1, <2>1 DEF Guarded
<1>3. CASE GetUser(r)
  <2>1. /\ Exists(req[r].caller) /\ UNCHANGED tables
        /\ req'[r].pc = "identified" /\ req'[r].caller = req[r].caller /\ req'[r].op = req[r].op
    BY <1>0, <1>3 DEF GetUser, Step, Goto, End, Idle, RequestState, At
  <2>2. Exists(req[r].caller)'
    BY <2>1 DEF Exists, tables
  <2>3. Verdict(hasPermissions(LinkedTo(req[r].caller), RequiredBy[req[r].op]))' \in moments'[r]
    BY <1>1, <2>2 DEF Permitted, Verdict, hasPermissions
  <2>4. QED
    BY <1>1, <2>1, <2>2, <2>3 DEF Guarded
<1>4. CASE FindRoleIds(r)
  <2>1. /\ req[r].pc = "identified" /\ UNCHANGED tables
        /\ req'[r].pc = "roles" /\ req'[r].caller = req[r].caller /\ req'[r].op = req[r].op
        /\ req'[r].current = LinkedTo(req[r].caller)
    BY <1>0, <1>4 DEF FindRoleIds, At, End, Idle, RequestState
  <2>2. Guarded(req[r], moments[r], changed[r])
    BY <2>1 DEF MomentInv
  <2>3. req'[r].current \subseteq Role
    BY <1>0, <2>1, RolesOfUsers DEF Checked
  <2>4. req'[r].current = LinkedTo(req[r].caller)'
    BY <2>1 DEF LinkedTo, RowsOf, tables
  <2>5. moments[r] \subseteq moments'[r] /\ changed'[r] = changed[r]
    BY <2>1 DEF History, At
  <2>6. "user" \notin changed[r] => Exists(req[r].caller)'
    BY <2>1, <2>2 DEF Guarded, Exists, tables
  <2>7. ~Twice(changed[r]) =>
           Verdict(hasPermissions(req[r].current, RequiredBy[req[r].op]))' \in moments'[r]
    <3>1. ~Twice(changed[r]) =>
             Verdict(hasPermissions(req'[r].current, RequiredBy[req[r].op])) \in moments[r]
      BY <2>1, <2>2 DEF Guarded
    <3>2. link' = link
      BY <2>1 DEF tables
    <3>3. QED
      BY <2>1, <2>5, <3>1, <3>2 DEF Verdict, hasPermissions, getAccessByRoleIds, LinkedTo, RowsOf
  <2>8. QED
    BY <1>1, <2>1, <2>3, <2>4, <2>5, <2>6, <2>7 DEF Guarded
<1>5. CASE ~GetUser(r) /\ ~FindRoleIds(r) /\ (Continue(r) \/ Operate(r) \/ Fail(r))
  <2>0. CASE Operate(r)
    <3>1. CASE RunSeed(r)
      BY <1>0, <3>1 DEF RunSeed, Idle
    <3>2. CASE Seed(r)
      <4>1. End(r, "done")
        BY <3>2 DEF Seed
      <4>2. QED
        BY <1>0, <4>1 DEF End, Idle
    <3>3. QED
      BY <2>0, <3>1, <3>2 DEF Operate
  <2>1. CASE ~Operate(r)
    <3>1. req'[r].pc \notin Guarding
      BY <1>0, <1>5, <2>1 DEF RequestState, At, Continue, Fail, FindPermissions, Use, FindSubject, Validate, FindCurrentIds,
          SetLinks, RemoveUser, FindRoleByCode, InsertRole, Step, Goto, End, Idle, Ended
    <3>2. QED
      BY <3>1
  <2>2. QED
    BY <2>0, <2>1
<1>6. QED
  BY <1>2, <1>3, <1>4, <1>5 DEF Start

\* Each step is a request's, and moves no other.
LEMMA OneMoves ==
    ASSUME RefInv, NEW r \in Request, Start(r) \/ Continue(r) \/ Operate(r) \/ Fail(r),
           NEW s \in Request, s # r
    PROVE  req'[s] = req[s]
BY DEF RefInv, TypeOK, Start, Ask, Continue, Fail, GetUser, FindRoleIds, FindPermissions, Use, FindSubject, Validate,
       FindCurrentIds, SetLinks, RemoveUser, FindRoleByCode, InsertRole, Operate, RunSeed, Seed,
       Step, Goto, End

LEMMA MomentNext == IndInv /\ [Next]_vars => MomentInv'
<1> SUFFICES ASSUME RefInv, MomentInv, [Next]_vars PROVE MomentInv'
  BY DEF IndInv
<1>1. CASE UNCHANGED vars
  <2>1. /\ \A u : LinkedTo(u)' = LinkedTo(u)
        /\ \A m : Exists(m)' = Exists(m)
    BY <1>1 DEF vars, LinkedTo, RowsOf, Exists
  <2>2. \A roles, required : hasPermissions(roles, required)' = hasPermissions(roles, required)
    BY <1>1 DEF vars, hasPermissions, getAccessByRoleIds, LinkedTo, RowsOf
  <2>3. SUFFICES ASSUME NEW r \in Request, req[r].pc \in Guarding, Guarded(req[r], moments[r], changed[r])
                 PROVE  Guarded(req[r], moments[r], changed[r])'
    BY <1>1 DEF vars, MomentInv
  <2>4. req' = req /\ moments' = moments /\ changed' = changed
    BY <1>1 DEF vars
  <2>5. Permitted(req[r])' = Permitted(req[r])
    BY <2>1, <2>2, <2>4 DEF Permitted, hasPermissions, getAccessByRoleIds
  <2>6. QED
    BY <2>1, <2>2, <2>3, <2>4, <2>5 DEF Guarded, Verdict, Twice, hasPermissions, getAccessByRoleIds
<1>2. CASE Next
  <2>1. History
    BY <1>2 DEF Next
  <2>2. SUFFICES ASSUME NEW s \in Request, req'[s].pc \in Guarding
                 PROVE  Guarded(req[s], moments[s], changed[s])'
    BY DEF MomentInv
  <2>3. CASE req'[s] = req[s]
    <3>1. PICK q \in RequestState : q = req[s] /\ Checked(q)
      BY Ready
    <3>2. q.pc \in Guarding /\ q.caller \in User
      BY <2>2, <2>3, <3>1 DEF Checked
    <3>3. Guarded(q, moments[s], changed[s])
      BY <2>2, <2>3, <3>1 DEF MomentInv
    <3>4. /\ moments'[s] = moments[s] \cup {Verdict(Permitted(q))'}
          /\ changed'[s] = changed[s] \cup Changes(q)
      BY <2>1, <2>3, <3>1, <3>2 DEF History, At, Guarding, Verdict, Permitted, Exists, hasPermissions
    <3>5. PICK m, c : m = moments'[s] /\ c = changed'[s]
      OBVIOUS
    <3>6. Guarded(q, m, c)'
      BY <3>2, <3>3, <3>4, <3>5, GuardKept
    <3>7. QED
      BY <2>3, <3>1, <3>5, <3>6 DEF Guarded
  <2>4. CASE req'[s] # req[s]
    <3>1. Start(s) \/ Continue(s) \/ Operate(s) \/ Fail(s)
      BY <1>2, <2>4, OneMoves DEF Next, AllDone
    <3>2. QED
      BY <2>1, <2>2, <2>4, <3>1, GuardStep
  <2>5. QED
    BY <2>3, <2>4
<1>3. QED
  BY <1>1, <1>2

\* The answer a guard comes to is in the history of its moments, unless two causes are.
LEMMA VerdictStep ==
    ASSUME IndInv, [Next]_vars, NEW r \in Request
    PROVE  RightAtAMoment(r)
<1> SUFFICES ASSUME req[r].pc \in Guarding, req'[r].pc \in {"allowed", "rejected"}
               PROVE  req'[r].pc \in moments[r] \/ Twice(changed[r])
  BY DEF RightAtAMoment
<1> USE DEF Guarding
<1>1. Guarded(req[r], moments[r], changed[r]) /\ req[r] \in RequestState /\ RefInv
  BY Ready DEF IndInv, MomentInv
<1>2. Start(r) \/ Continue(r) \/ Operate(r) \/ Fail(r)
  BY <1>1, OneMoves DEF Next, AllDone, vars
<1>3. CASE GetUser(r)
  <2>1. req'[r].pc = "rejected" /\ ~Exists(req[r].caller)
    BY <1>1, <1>3 DEF RequestState, GetUser, Step, Goto, End, Idle, RefInv, TypeOK
  <2>2. QED
    BY <1>1, <2>1 DEF Guarded, Permitted, Verdict
<1>4. CASE FindRoleIds(r)
  <2>1. req[r].pc = "identified" /\ req'[r].pc = "rejected" /\ LinkedTo(req[r].caller) = {}
    BY <1>1, <1>4 DEF RequestState, FindRoleIds, At, End, Idle, RefInv, TypeOK
  <2>2. QED
    BY <1>1, <2>1 DEF Guarded, hasPermissions, Verdict
<1>5. CASE FindPermissions(r)
  <2>1. /\ req[r].pc = "roles"
        /\ req'[r].pc = Verdict(hasPermissions(req[r].current, RequiredBy[req[r].op]))
    BY <1>1, <1>5 DEF RequestState, FindPermissions, At, Step, Goto, End, Idle, RefInv, TypeOK, Verdict
  <2>2. QED
    BY <1>1, <2>1 DEF Guarded
<1>6. CASE Fail(r)
  BY <1>1, <1>6 DEF Fail, End, Idle, RefInv, TypeOK
<1>7. QED
  BY <1>1, <1>2, <1>3, <1>4, <1>5, <1>6 DEF Start, Ask, Continue, Use, FindSubject, Validate,
     FindCurrentIds, SetLinks, RemoveUser, FindRoleByCode, InsertRole, Operate, RunSeed, Seed, At

\* PermissionsGuard reads the user, the roles and the permissions in three queries.
\* Whatever changes meanwhile, its answer was right at some moment of its reading,
\* unless two of the three changed.
THEOREM VerdictsHaveMoments == Spec => VerdictHasAMoment
<1>1. Init => IndInv
  BY RefInit, MomentInit DEF IndInv
<1>2. IndInv /\ [Next]_vars => IndInv'
  BY RefNext, MomentNext DEF IndInv
<1>3. IndInv /\ [Next]_vars =>
        \A r \in Request : RightAtAMoment(r)
  BY VerdictStep
<1>4. QED
  BY <1>1, <1>2, <1>3, PTL DEF Spec, VerdictHasAMoment

-----------------------------------------------------------------------------
(* Duplicates, and replacements of links *)

LEMMA ComparedInit == Init => ComparedInv
<1> SUFFICES ASSUME Init PROVE ComparedInv
  OBVIOUS
<1>1. \A r \in Request : Compared(req[r], changed[r])
  BY DEF Init, Idle, Compared
<1>2. DuplicateLinkHasACause
  BY DEF Init, Unseeded, SeededBefore, DuplicateLinkHasACause
<1>3. SameCodeHasACause
  BY DEF Init, Unseeded, SeededBefore, SameCodeHasACause
<1>4. QED
  BY <1>1, <1>2, <1>3 DEF ComparedInv

\* Whoever has moved has made the step.
LEMMA Mover ==
    ASSUME RefInv, [Next]_vars, NEW r \in Request, req'[r] # req[r]
    PROVE  /\ Start(r) \/ Continue(r) \/ Operate(r) \/ Fail(r)
           /\ History
BY OneMoves DEF Next, AllDone, vars

\* A step of another request: q's copy is still what the tables hold, or it knows.
LEMMA CopyKept ==
    ASSUME RefInv, RefInv', NEW q \in RequestState, Checked(q), NEW known, Compared(q, known),
           NEW causes, causes = known \cup Changes(q)
    PROVE  Compared(q, causes)'
<1>1. CASE q.pc = "compared"
  <2>1. q.subject \in Subject
    BY <1>1 DEF Checked, Endpoint, Ended, Subject
  <2>2. "subject" \notin causes => LinkedTo(q.subject)' = LinkedTo(q.subject)
    BY <1>1, <2>1 DEF Changes
  <2>3. QED
    BY <1>1, <2>2 DEF Compared
<1>2. CASE q.pc = "toInsert"
  <2>1. "code" \notin causes => code' = code
    BY <1>2 DEF Changes
  <2>2. QED
    BY <1>2, <2>1 DEF Compared, CodeTaken
<1>3. CASE q.pc = "seeding"
  <2>1. "code" \notin causes => code' = code
    BY <1>3 DEF Changes
  <2>2. ASSUME "subject" \notin causes
        PROVE  {<<l.of, l.to>> : l \in link'} = {<<l.of, l.to>> : l \in link}
    <3>1. \A s \in Subject : LinkedTo(s)' = LinkedTo(s)
      BY <1>3, <2>2 DEF Changes
    <3>2. \A l \in link \cup link' : l.of \in Subject
      BY DEF RefInv, TypeOK, Link
    <3>3. \A l \in link' : \E k \in link : k.of = l.of /\ k.to = l.to
      BY <3>1, <3>2 DEF LinkedTo, RowsOf
    <3>4. \A l \in link : \E k \in link' : k.of = l.of /\ k.to = l.to
      BY <3>1, <3>2 DEF LinkedTo, RowsOf
    <3>5. QED
      BY <3>3, <3>4
  <2>3. QED
    BY <1>3, <2>1, <2>2 DEF Compared
<1>4. QED
  BY <1>1, <1>2, <1>3 DEF Compared

\* A request's own step: its copy is what it has just read.
LEMMA CopyMade ==
    ASSUME RefInv, NEW r \in Request, Start(r) \/ Continue(r) \/ Operate(r) \/ Fail(r)
    PROVE  req'[r] = req[r] \/ Compared(req[r], changed[r])'
<1>0. req[r] \in RequestState /\ req \in [Request -> RequestState]
  BY Ready DEF RefInv, TypeOK
<1>1. CASE FindCurrentIds(r)
  <2>1. /\ req'[r].pc = "compared" /\ link' = link
        /\ req'[r].current = LinkedTo(req[r].subject) /\ req'[r].subject = req[r].subject
    BY <1>0, <1>1 DEF FindCurrentIds, RequestState, tables
  <2>2. QED
    BY <2>1 DEF Compared, LinkedTo, RowsOf
<1>2. CASE FindRoleByCode(r)
  <2>1. /\ req'[r].pc = "toInsert" => ~CodeTaken(req[r].subject) /\ req'[r].subject = req[r].subject
        /\ req'[r].pc \in {"toInsert", "rejected"} /\ code' = code
    BY <1>0, <1>2 DEF FindRoleByCode, At, Step, Goto, End, Idle, RequestState, tables
  <2>2. QED
    BY <2>1 DEF Compared, CodeTaken
<1>3. CASE RunSeed(r)
  <2>1. /\ req'[r].pc = "seeding" /\ UNCHANGED tables
        /\ req'[r].seen.links = {<<l.of, l.to>> : l \in link}
        /\ req'[r].seen.code = code
    BY <1>0, <1>3 DEF RunSeed, Idle
  <2>2. QED
    BY <2>1 DEF Compared, tables
<1>4. CASE /\ ~FindCurrentIds(r) /\ ~FindRoleByCode(r) /\ ~RunSeed(r)
  <2>1. req'[r].pc \notin {"compared", "toInsert", "seeding"}
    <3>1. CASE Start(r)
      <4>1. PICK u \in User, op \in Op, s \in Subject \cup Code \cup {None}, ids \in Sent \cup {{}} :
               Ask(r, u, op, s, ids)
        BY <3>1 DEF Start
      <4>2. req'[r].pc \in {"allowed", "guard"}
        BY <1>0, <4>1 DEF Ask, Idle
      <4>3. QED
        BY <4>2
    <3>2. CASE Seed(r)
      <4>1. End(r, "done")
        BY <3>2 DEF Seed
      <4>2. QED
        BY <1>0, <4>1 DEF End, Idle
    <3>3. CASE (Continue(r) \/ Fail(r)) /\ ~Seed(r)
      BY <1>0, <1>4, <3>3 DEF RequestState, At, Continue, Fail, GetUser, FindRoleIds, FindPermissions, Use, FindSubject,
         Validate, SetLinks, RemoveUser, InsertRole, Step, Goto, End, Idle, Ended
    <3>4. QED
      BY <1>4, <3>1, <3>2, <3>3 DEF Operate
  <2>2. QED
    BY <2>1 DEF Compared
<1>5. QED
  BY <1>1, <1>2, <1>3, <1>4

LEMMA CopyNext ==
    ASSUME RefInv, RefInv', ComparedInv, [Next]_vars, NEW s \in Request
    PROVE  Compared(req[s], changed[s])'
<1>1. CASE UNCHANGED vars
  BY <1>1 DEF vars, ComparedInv, Compared, LinkedTo, RowsOf, CodeTaken
<1>2. CASE req'[s] = req[s] /\ History
  <2>1. PICK q \in RequestState : q = req[s] /\ Checked(q)
    BY Ready
  <2>2. PICK causes : causes = changed[s] \cup Changes(q)
    OBVIOUS
  <2>3. changed'[s] = causes
    BY <1>2, <2>1, <2>2 DEF History
  <2>4. Compared(q, changed[s])
    BY <2>1 DEF ComparedInv
  <2>5. Compared(q, causes)'
    BY <2>1, <2>2, <2>4, CopyKept
  <2>6. QED
    BY <1>2, <2>1, <2>3, <2>5 DEF Compared
<1>3. CASE req'[s] # req[s]
  BY <1>3, Mover, CopyMade
<1>4. QED
  BY <1>1, <1>2, <1>3 DEF Next

\* What a request with a changed copy writes is disturbed.
LEMMA Disturbs ==
    ASSUME NEW r \in Request, req'[r] # req[r], History
    PROVE  /\ disturbed \subseteq disturbed'
           /\ changed[r] \cap {"subject", "code"} # {} => Written \subseteq disturbed'
BY DEF History

\* Rows inserted by one request, none of which its subject had if its copy was good.
LEMMA NoSecondRow ==
    ASSUME RefInv, RefInv', DuplicateLinkHasACause, NEW r \in Request, req'[r] # req[r], History,
           NEW new \in SUBSET [of: Subject, to: Member, by: {r}], link' \subseteq link \cup new,
           "subject" \notin changed[r] => \A n \in new : n.to \notin LinkedTo(n.of)
    PROVE  DuplicateLinkHasACause'
<1> SUFFICES ASSUME NEW k \in link', NEW l \in link', k.of = l.of, k.to = l.to, k.of \notin disturbed'
             PROVE  k = l
  BY DEF DuplicateLinkHasACause
<1>1. k.of \in Subject /\ k.of \notin disturbed
  BY Disturbs DEF RefInv, TypeOK, Link
<1>2. CASE "subject" \in changed[r]
  <2>1. RowsOf(k.of)' = RowsOf(k.of)
    BY <1>1, <1>2, Disturbs DEF Written
  <2>2. k \in link /\ l \in link
    BY <2>1 DEF RowsOf
  <2>3. QED
    BY <1>1, <2>2 DEF DuplicateLinkHasACause
<1>3. CASE "subject" \notin changed[r]
  <2>1. CASE k \in link /\ l \in link
    BY <1>1, <2>1 DEF DuplicateLinkHasACause
  <2>2. CASE k \in new /\ l \in new
    BY <2>2
  <2>3. CASE (k \in link /\ l \in new) \/ (k \in new /\ l \in link)
    BY <1>3, <2>3 DEF LinkedTo, RowsOf
  <2>4. QED
    BY <2>1, <2>2, <2>3
<1>4. QED
  BY <1>2, <1>3

\* Codes inserted by one request, each once, and none taken if its copy was good.
LEMMA NoSecondCode ==
    ASSUME RefInv, RefInv', SameCodeHasACause, NEW r \in Request, req'[r] # req[r], History,
           NEW codes, "code" \notin changed[r] => \A c \in codes : ~CodeTaken(c),
           NEW at, \A i \in Role : code'[i] # code[i] => code'[i] \in codes /\ at[code'[i]] = i
    PROVE  SameCodeHasACause'
<1> SUFFICES ASSUME NEW i \in Role, NEW j \in Role, code'[i] = code'[j],
                    code'[i] \notin disturbed' \cup {None}
             PROVE  i = j
  BY DEF SameCodeHasACause
<1>1. code'[i] \in Code /\ code'[i] \notin disturbed
  BY Disturbs DEF RefInv, TypeOK
<1>2. CASE code'[i] = code[i] /\ code'[j] = code[j]
  BY <1>1, <1>2 DEF SameCodeHasACause
<1>3. CASE code'[i] # code[i] /\ code'[j] # code[j]
  BY <1>3
<1>4. CASE \E m, n \in Role : code'[m] = code'[n] /\ code'[m] = code'[i] /\ code'[m] # code[m] /\ code'[n] = code[n]
  <2>1. PICK m \in Role, n \in Role :
           code'[m] = code'[n] /\ code'[m] = code'[i] /\ code'[m] # code[m] /\ code'[n] = code[n]
    BY <1>4
  <2>2. CodeTaken(code'[m]) /\ code'[m] \in codes
    BY <2>1 DEF CodeTaken
  <2>3. "code" \in changed[r]
    BY <2>2
  <2>4. code'[m] \in Written
    BY <1>1, <2>1 DEF Written
  <2>5. QED
    BY <1>1, <2>1, <2>3, <2>4, Disturbs
<1>5. QED
  BY <1>2, <1>3, <1>4

LEMMA SetLinksDuplicates ==
    ASSUME RefInv, RefInv', ComparedInv, NEW r \in Request, req'[r] # req[r], History, SetLinks(r)
    PROVE  DuplicateLinkHasACause'
<1> DEFINE q == req[r]
           new == [of: {q.subject}, to: getAddedIds(q.requested, q.current), by: {r}]
<1>1. q.pc = "compared" /\ link' \subseteq link \cup new
  BY DEF SetLinks, At
<1>2. q \in RequestState /\ q.subject \in Subject
  BY <1>1, Ready DEF Checked, Endpoint, Ended, Subject
<1>3. new \subseteq [of: Subject, to: Member, by: {r}]
  BY <1>2 DEF RequestState, getAddedIds
<1>4. "subject" \notin changed[r] => q.current = LinkedTo(q.subject)
  BY <1>1 DEF ComparedInv, Compared
<1>5. "subject" \notin changed[r] => \A n \in new : n.to \notin LinkedTo(n.of)
  BY <1>4 DEF getAddedIds
<1>6. QED
  BY <1>1, <1>3, <1>5, NoSecondRow DEF ComparedInv

LEMMA SeedDuplicates ==
    ASSUME RefInv, RefInv', ComparedInv, NEW r \in Request, req'[r] # req[r], History, Seed(r)
    PROVE  DuplicateLinkHasACause' /\ SameCodeHasACause'
<1> DEFINE seen == req[r].seen
           codes == MissingCodes(seen)
<1>1. req[r].pc = "seeding"
  BY DEF Seed, At
<1>2. PICK place \in [codes -> Role], role \in [SeedCode -> Role] :
         /\ \A c, d \in codes : place[c] = place[d] => c = d
         /\ code' = [i \in Role |-> IF \E c \in codes : place[c] = i
                                    THEN CHOOSE c \in codes : place[c] = i ELSE code[i]]
         /\ link' = link \cup
                {[of |-> role[k[1]], to |-> k[2], by |-> r] :
                    k \in {l \in SeedLink : <<role[l[1]], l[2]>> \notin seen.links}}
  BY DEF Seed
<1>3. PICK new : new = {[of |-> role[k[1]], to |-> k[2], by |-> r] :
                           k \in {l \in SeedLink : <<role[l[1]], l[2]>> \notin seen.links}}
  OBVIOUS
<1>4. "subject" \notin changed[r] => seen.links = {<<l.of, l.to>> : l \in link}
  BY <1>1 DEF ComparedInv, Compared
<1>5. "code" \notin changed[r] => seen.code = code
  BY <1>1 DEF ComparedInv, Compared
<1>6. \A c \in codes : \A i \in Role : seen.code[i] # c
  BY DEF MissingCodes
<1> HIDE DEF seen, codes
<1>7. DuplicateLinkHasACause'
  <2>0. ASSUME NEW n \in new
        PROVE  n \in [of: Subject, to: Member, by: {r}] /\ <<n.of, n.to>> \notin seen.links
    <3>1. PICK k \in SeedLink : /\ n = [of |-> role[k[1]], to |-> k[2], by |-> r]
                                /\ <<role[k[1]], k[2]>> \notin seen.links
      BY <1>3
    <3>2. k[1] \in SeedCode /\ k[2] \in PermissionId
      BY AccessAssumption
    <3>3. QED
      BY <1>2, <3>1, <3>2 DEF Subject, Member
  <2>1. new \in SUBSET [of: Subject, to: Member, by: {r}]
    BY <2>0
  <2>2. link' \subseteq link \cup new
    BY <1>2, <1>3
  <2>3. \A n \in new : <<n.of, n.to>> \notin seen.links
    BY <2>0
  <2>4. "subject" \notin changed[r] => \A n \in new : n.to \notin LinkedTo(n.of)
    BY <1>4, <2>3 DEF LinkedTo, RowsOf
  <2>5. QED
    BY <2>1, <2>2, <2>4, NoSecondRow DEF ComparedInv
<1>8. SameCodeHasACause'
  <2>1. "code" \notin changed[r] => \A c \in codes : ~CodeTaken(c)
    BY <1>5, <1>6 DEF CodeTaken
  <2>2. \A i \in Role : code'[i] # code[i] => code'[i] \in codes /\ place[code'[i]] = i
    BY <1>2
  <2>3. QED
    BY <2>1, <2>2, NoSecondCode DEF ComparedInv
<1>9. QED
  BY <1>7, <1>8

LEMMA InsertDuplicates ==
    ASSUME RefInv, RefInv', ComparedInv, NEW r \in Request, req'[r] # req[r], History,
           NEW i \in Role, InsertRole(r, i)
    PROVE  SameCodeHasACause'
<1>1. req[r].pc = "toInsert" /\ code' = [code EXCEPT ![i] = req[r].subject]
  BY DEF InsertRole, At
<1>2. PICK codes : codes = {req[r].subject}
  OBVIOUS
<1>3. PICK at : at = [c \in codes |-> i]
  OBVIOUS
<1>4. "code" \notin changed[r] => \A c \in codes : ~CodeTaken(c)
  BY <1>1, <1>2 DEF ComparedInv, Compared
<1>5. \A j \in Role : code'[j] # code[j] => code'[j] \in codes /\ at[code'[j]] = j
  BY <1>1, <1>2, <1>3 DEF RefInv, TypeOK
<1>6. QED
  BY <1>4, <1>5, NoSecondCode DEF ComparedInv

\* A step that inserts nothing.
LEMMA NothingNew ==
    ASSUME ComparedInv, History \/ UNCHANGED vars
    PROVE  /\ link' \subseteq link => DuplicateLinkHasACause'
           /\ code' = code => SameCodeHasACause'
<1>1. disturbed \subseteq disturbed'
  BY DEF History, vars
<1>2. QED
  BY <1>1 DEF ComparedInv, DuplicateLinkHasACause, SameCodeHasACause

LEMMA ComparedNext ==
    ASSUME IndInv, IndInv', ComparedInv, [Next]_vars
    PROVE  ComparedInv'
<1>1. RefInv /\ RefInv'
  BY DEF IndInv
<1>2. \A s \in Request : Compared(req[s], changed[s])'
  BY <1>1, CopyNext
<1>3. DuplicateLinkHasACause' /\ SameCodeHasACause'
  <2>1. CASE UNCHANGED vars \/ AllDone
    <3>1. link' = link /\ code' = code /\ (History \/ UNCHANGED vars)
      BY <2>1 DEF vars, AllDone, tables, Next
    <3>2. QED
      BY <3>1, NothingNew
  <2>2. ASSUME NEW r \in Request, Start(r) \/ Continue(r) \/ Operate(r) \/ Fail(r), History
        PROVE  DuplicateLinkHasACause' /\ SameCodeHasACause'
    <3>0. req[r] \in RequestState /\ req \in [Request -> RequestState]
      BY <1>1, Ready DEF RefInv, TypeOK
    <3>1. CASE SetLinks(r)
      <4>1. req'[r] # req[r] /\ code' = code
        BY <3>0, <3>1 DEF SetLinks, At, End, Idle
      <4>2. QED
        BY <1>1, <2>2, <3>1, <4>1, SetLinksDuplicates, NothingNew
    <3>2. CASE Seed(r)
      <4>1. End(r, "done") /\ req[r].pc = "seeding"
        BY <3>2 DEF Seed, At
      <4>2. req'[r] # req[r]
        BY <3>0, <4>1 DEF End, Idle
      <4>3. QED
        BY <1>1, <2>2, <3>2, <4>2, SeedDuplicates
    <3>3. CASE \E i \in Role : InsertRole(r, i)
      <4>1. PICK i \in Role : InsertRole(r, i)
        BY <3>3
      <4>2. req'[r] # req[r] /\ link' = link
        BY <3>0, <4>1 DEF InsertRole, At, End, Idle
      <4>3. QED
        BY <1>1, <2>2, <4>1, <4>2, InsertDuplicates, NothingNew
    <3>4. CASE /\ ~SetLinks(r) /\ ~Seed(r)
               /\ ~ \E i \in Role : InsertRole(r, i)
      <4>1. link' = link /\ code' = code
        BY <2>2, <3>4 DEF Start, Ask, Continue, Fail, GetUser, FindRoleIds, FindPermissions, Use, FindSubject,
           Validate, FindCurrentIds, RemoveUser, FindRoleByCode, Operate, RunSeed, tables
      <4>2. QED
        BY <2>2, <4>1, NothingNew
    <3>5. QED
      BY <3>1, <3>2, <3>3, <3>4
  <2>3. QED
    BY <2>1, <2>2 DEF Next
<1>4. QED
  BY <1>2, <1>3 DEF ComparedInv

LEMMA Comparing == Spec => [](IndInv /\ ComparedInv)
<1>1. Init => IndInv /\ ComparedInv
  BY RefInit, MomentInit, ComparedInit DEF IndInv
<1>2. IndInv /\ [Next]_vars => IndInv'
  BY RefNext, MomentNext DEF IndInv
<1>3. IndInv /\ IndInv' /\ ComparedInv /\ [Next]_vars => ComparedInv'
  BY ComparedNext
<1>4. QED
  BY <1>1, <1>2, <1>3, PTL DEF Spec

\* No unique index protects user_roles and role_permissions: a row is there twice
\* only if its subject was written by a request whose comparison, or whose seed's
\* snapshot, was out of date.
THEOREM DuplicateLinksAreCaused == Spec => []DuplicateLinkHasACause
<1>1. ComparedInv => DuplicateLinkHasACause
  BY DEF ComparedInv
<1>2. QED
  BY <1>1, Comparing, PTL

\* roles.code has no unique index either: two roles have the same code only if
\* another creation came between the lookup of the code and the insertion.
THEOREM SameCodesAreCaused == Spec => []SameCodeHasACause
<1>1. ComparedInv => SameCodeHasACause
  BY DEF ComparedInv
<1>2. QED
  BY <1>1, Comparing, PTL

\* The transaction of a replacement whose copy is good leaves the ids asked for.
LEMMA ReplacementStep ==
    ASSUME RefInv, ComparedInv, [Next]_vars, NEW r \in Request, NEW s \in Subject,
           At(r, "compared"), req[r].subject = s, req'[r].pc = "done", changed[r] = {}
    PROVE  LinkedTo(s)' = req[r].requested
<1>0. req[r] \in RequestState /\ Checked(req[r]) /\ req \in [Request -> RequestState]
  BY Ready DEF RefInv, TypeOK
<1>1. SetLinks(r)
  <2>1. Start(r) \/ Continue(r) \/ Operate(r) \/ Fail(r)
    BY Mover DEF At
  <2>2. ~Fail(r)
    BY <1>0 DEF Fail, End, Idle
  <2>3. QED
    BY <2>1, <2>2 DEF At, Start, Ask, Continue, Operate, GetUser, FindRoleIds, FindPermissions, Use, FindSubject,
       Validate, FindCurrentIds, RemoveUser, FindRoleByCode, InsertRole, RunSeed, Seed
<1> DEFINE q == req[r]
           gone == getRemovedIds(q.requested, q.current)
           added == getAddedIds(q.requested, q.current)
<1>2. q.current = LinkedTo(s)
  BY DEF ComparedInv, Compared, At
<1>3. link' = {l \in link : ~(l.of = s /\ l.to \in gone)} \cup [of: {s}, to: added, by: {r}]
  BY <1>1 DEF SetLinks
<1>4. gone = q.current \ q.requested /\ added = q.requested \ q.current
  BY DEF getRemovedIds, getAddedIds
<1> HIDE DEF gone, added
<1>5. ASSUME NEW m \in LinkedTo(s)' PROVE m \in q.requested
  <2>1. PICK l \in link' : l.of = s /\ l.to = m
    BY <1>5 DEF LinkedTo, RowsOf
  <2>2. CASE l \in link
    BY <1>2, <1>3, <1>4, <2>1, <2>2 DEF LinkedTo, RowsOf
  <2>3. CASE l \notin link
    BY <1>3, <1>4, <2>1, <2>3
  <2>4. QED
    BY <2>2, <2>3
<1>6. ASSUME NEW m \in q.requested PROVE m \in LinkedTo(s)'
  <2>1. CASE m \in q.current
    <3>1. PICK l \in link : l.of = s /\ l.to = m
      BY <1>2, <2>1 DEF LinkedTo, RowsOf
    <3>2. l \in link'
      BY <1>3, <1>4, <1>6, <3>1
    <3>3. QED
      BY <3>1, <3>2 DEF LinkedTo, RowsOf
  <2>2. CASE m \notin q.current
    <3>1. PICK l : l = [of |-> s, to |-> m, by |-> r]
      OBVIOUS
    <3>2. l \in link' /\ l.of = s /\ l.to = m
      BY <1>3, <1>4, <1>6, <2>2, <3>1
    <3>3. QED
      BY <3>2 DEF LinkedTo, RowsOf
  <2>3. QED
    BY <2>1, <2>2
<1>7. QED
  BY <1>5, <1>6

\* setUserRoles and syncRolePermissions insert and delete differences; unless the
\* subject's links changed after they were read, what is left is what was asked for.
THEOREM ReplacementsAreExact == Spec => UndisturbedReplacement
<1>1. IndInv /\ ComparedInv /\ [Next]_vars =>
        \A r \in Request : \A s \in Subject :
           (At(r, "compared") /\ req[r].subject = s /\ req'[r].pc = "done" /\ changed[r] = {}) =>
               LinkedTo(s)' = req[r].requested
  BY ReplacementStep DEF IndInv
<1>2. QED
  BY <1>1, Comparing, PTL DEF Spec, UndisturbedReplacement

\* What a request in flight has checked (its subject, the ids it was sent) or read
\* for the guard's answer is still so when it goes on, or its history names the change.
THEOREM AccessIsInductive == Spec => []IndInv
BY Comparing, PTL
=============================================================================
