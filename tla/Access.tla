------------------------------- MODULE Access -------------------------------
(***************************************************************************)
(* Who may do what (src/src/modules/user, role, permission and the guard   *)
(* in auth/guards): users have roles, roles have permissions, and          *)
(* PermissionsGuard reads both for every request to an endpoint that       *)
(* requires some.                                                          *)
(*                                                                         *)
(* setUserRoles and syncRolePermissions are the same code twice: the       *)
(* subject (a user, a role) is looked up, the ids asked for are validated, *)
(* the present ones read, and the difference is written in a transaction.  *)
(* The reads are outside of it, and neither link table has a unique index. *)
(*                                                                         *)
(* rbac.seed, run from a shell while the server is up, brings the tables   *)
(* up to a fixed list of permissions, roles and links in one transaction,  *)
(* whose reads are all of one moment (REPEATABLE READ).                    *)
(***************************************************************************)

CONSTANTS
    User, Role, PermissionId, Code,   \* ids, and the codes of roles
    Request,
    SeedCode,     \* ROLES: the codes rbac.seed provides for; PERMISSIONS are all
    SeedLink,     \* ROLE_PERMISSIONS: <<code, permission>>
    Seeded,       \* the roles an earlier run of rbac.seed has created
    SeededLink,   \* <<of, to>>: the links it, and admin.seed, have created
    Sent,         \* the lists of ids in request bodies
    RequiredBy,   \* the permissions an endpoint's @Permissions names
    None

\* use: any endpoint of another module.
Op == {"use", "assign", "remove", "sync", "create"}

Subject == User \cup Role

Member == Role \cup PermissionId

ASSUME AccessAssumption ==
    /\ User \cap Role = {} /\ User \cap PermissionId = {} /\ Role \cap PermissionId = {}
    /\ SeedCode \subseteq Code /\ SeedLink \subseteq SeedCode \X PermissionId
    /\ Seeded \subseteq Role
    /\ SeededLink \subseteq (User \X Seeded) \cup (Seeded \X PermissionId)
    /\ Sent \subseteq (SUBSET Role) \cup (SUBSET PermissionId)
    /\ RequiredBy \in [Op -> SUBSET PermissionId]
    /\ None \notin Code

VARIABLES
    removed,     \* users: those with deletedAt
    code,        \* roles: the code of each, or None
    permission,  \* permissions: their ids, which stand for their codes
    link,        \* user_roles and role_permissions
    req,         \* where each request stands and what it has in memory
    moments,     \* history: what the guard of a request might have answered so far
    changed,     \* history: what has changed since a request began to rely on it
    disturbed    \* history: subjects and codes written by a request with such a change

vars == <<removed, code, permission, link, req, moments, changed, disturbed>>

\* by: the request that inserted the row, so that equal links are different rows.
Link == [of: Subject, to: Member, by: Request \cup {None}]

RowsOf(s) == {k \in link : k.of = s}

LinkedTo(s) == {l.to : l \in RowsOf(s)}

\* What findOne and In(ids) find.
Exists(m) ==
    \/ m \in User \ removed
    \/ m \in Role /\ code[m] # None
    \/ m \in permission

-----------------------------------------------------------------------------
(* Decisions *)

\* The permissions of any of the roles, whatever the roles' status.
getAccessByRoleIds(roles) == UNION {LinkedTo(i) : i \in roles}

hasPermissions(roles, required) ==
    roles # {} /\ required \subseteq getAccessByRoleIds(roles)

\* Slip: what is to be removed is compared the wrong way round.
RemovedSwapped(requested, current) == requested \ current

\* Slip: all ids asked for are inserted.
AddedBlindly(requested, current) == requested

getAddedIds(requested, current) == requested \ current

getRemovedIds(requested, current) == current \ requested

\* Slip: one valid id is enough.
SomeExist(ids) == ids = {} \/ \E m \in ids : Exists(m)

AllExist(ids) == \A m \in ids : Exists(m)

\* Slip: codes are not looked up.
NeverTaken(c) == FALSE

CodeTaken(c) == \E i \in Role : code[i] = c

-----------------------------------------------------------------------------
(* Requests *)

\* The stages of the guard.
Guarding == {"guard", "identified", "roles"}

PC == {"idle", "allowed", "found", "valid", "compared", "toInsert", "seeding",
       "done", "rejected", "failed"}
      \cup Guarding

Ended == {"done", "rejected", "failed"}

\* caller: whose token it is; subject: the user, role or code in the path or body;
\* current: the ids it has read last; seen: the tables as a seed's transaction sees
\* them.
Idle == [pc |-> "idle", op |-> "use", caller |-> None, subject |-> None,
         requested |-> {}, current |-> {}, seen |-> None]

Snapshot == [permission: SUBSET PermissionId, code: [Role -> Code \cup {None}],
             links: SUBSET (Subject \X Member)]

RequestState ==
    [pc: PC, op: Op \cup {"seed"}, caller: User \cup {None}, subject: Subject \cup Code \cup {None},
     requested: SUBSET Member, current: SUBSET Member,
     seen: Snapshot \cup {None}]

At(r, pc) == req[r].pc = pc

Goto(r, pc) == req' = [req EXCEPT ![r].pc = pc]

End(r, outcome) == req' = [req EXCEPT ![r] = [Idle EXCEPT !.pc = outcome]]

Step(ok, r, pc) == IF ok THEN Goto(r, pc) ELSE End(r, "rejected")

Verdict(ok) == IF ok THEN "allowed" ELSE "rejected"

tables == <<removed, code, permission, link>>

\* A database that was never seeded, or one seeded before, when the list of roles and
\* their permissions was shorter or longer.
Unseeded == permission = {} /\ code = [i \in Role |-> None] /\ link = {}

SeededBefore ==
    /\ permission = PermissionId
    /\ code \in [Role -> SeedCode \cup {None}]
    /\ \A i \in Role : code[i] # None <=> i \in Seeded
    /\ \A i, j \in Seeded : code[i] = code[j] => i = j
    /\ link = {[of |-> k[1], to |-> k[2], by |-> None] : k \in SeededLink}

Init ==
    /\ removed = {}
    /\ Unseeded \/ SeededBefore
    /\ req = [r \in Request |-> Idle]
    /\ moments = [r \in Request |-> {}]
    /\ changed = [r \in Request |-> {}]
    /\ disturbed = {}

\* The five kinds of endpoint and what they are sent.
Endpoint(op, s, ids) ==
    \/ op = "use" /\ s = None /\ ids = {}
    \/ op = "assign" /\ s \in User /\ ids \subseteq Role
    \/ op = "remove" /\ s \in User /\ ids = {}
    \/ op = "sync" /\ s \in Role /\ ids \subseteq PermissionId
    \/ op = "create" /\ s \in Code /\ ids = {}

\* JwtAuthGuard takes the caller from the token; without @Permissions that is all.
Ask(r, u, op, s, ids) ==
    /\ At(r, "idle")
    /\ Endpoint(op, s, ids)
    /\ req' = [req EXCEPT ![r] =
           [Idle EXCEPT !.op = op, !.subject = s, !.requested = ids,
                        !.caller = IF RequiredBy[op] = {} THEN None ELSE u,
                        !.pc = IF RequiredBy[op] = {} THEN "allowed" ELSE "guard"]]
    /\ UNCHANGED tables

(* PermissionsGuard: UserService.hasPermissions, read by read *)

\* Slip: whoever has a token is a user.
TrustToken(r) ==
    /\ At(r, "guard")
    /\ Goto(r, "identified")
    /\ UNCHANGED tables

GetUser(r) ==
    /\ At(r, "guard")
    /\ Step(Exists(req[r].caller), r, "identified")
    /\ UNCHANGED tables

FindRoleIds(r) ==
    LET roles == LinkedTo(req[r].caller) IN
    /\ At(r, "identified")
    /\ IF roles = {} THEN End(r, "rejected")
       ELSE req' = [req EXCEPT ![r].pc = "roles", ![r].current = roles]
    /\ UNCHANGED tables

FindPermissions(r) ==
    /\ At(r, "roles")
    /\ Step(hasPermissions(req[r].current, RequiredBy[req[r].op]), r, "allowed")
    /\ UNCHANGED tables

(* The handlers *)

Use(r) ==
    /\ At(r, "allowed") /\ req[r].op = "use"
    /\ End(r, "done")
    /\ UNCHANGED tables

FindSubject(r) ==
    /\ At(r, "allowed") /\ req[r].op \in {"assign", "sync", "remove"}
    /\ Step(Exists(req[r].subject), r, "found")
    /\ UNCHANGED tables

Validate(r) ==
    /\ At(r, "found") /\ req[r].op # "remove"
    /\ Step(AllExist(req[r].requested), r, "valid")
    /\ UNCHANGED tables

FindCurrentIds(r) ==
    /\ At(r, "valid")
    /\ req' = [req EXCEPT ![r].pc = "compared", ![r].current = LinkedTo(req[r].subject)]
    /\ UNCHANGED tables

\* The transaction: DELETE ... IN (removed), then INSERT of the added ones.
SetLinks(r) ==
    LET q == req[r]
        gone == getRemovedIds(q.requested, q.current) IN
    /\ At(r, "compared")
    /\ link' = {l \in link : ~(l.of = q.subject /\ l.to \in gone)}
               \cup [of: {q.subject}, to: getAddedIds(q.requested, q.current), by: {r}]
    /\ End(r, "done")
    /\ UNCHANGED <<removed, code, permission>>

\* The links of a removed user stay.
RemoveUser(r) ==
    /\ At(r, "found") /\ req[r].op = "remove"
    /\ removed' = removed \cup {req[r].subject}
    /\ End(r, "done")
    /\ UNCHANGED <<code, permission, link>>

FindRoleByCode(r) ==
    /\ At(r, "allowed") /\ req[r].op = "create"
    /\ Step(~CodeTaken(req[r].subject), r, "toInsert")
    /\ UNCHANGED tables

InsertRole(r, i) ==
    /\ At(r, "toInsert")
    /\ code[i] = None
    /\ code' = [code EXCEPT ![i] = req[r].subject]
    /\ End(r, "done")
    /\ UNCHANGED <<removed, permission, link>>

(* rbac.seed *)

\* The first query of the transaction sets what all of them see.
RunSeed(r) ==
    /\ At(r, "idle")
    /\ req' = [req EXCEPT ![r] =
           [Idle EXCEPT !.pc = "seeding", !.op = "seed",
                        !.seen = [permission |-> permission, code |-> code,
                                  links |-> {<<l.of, l.to>> : l \in link}]]]
    /\ UNCHANGED tables

\* permissions.code is unique, so a permission that another run has inserted since
\* makes the transaction fail.
UniquePermissions(missing) == missing \cap permission = {}

MissingCodes(seen) == {c \in SeedCode : \A i \in Role : seen.code[i] # c}

\* What was not seen is inserted: permissions, then roles, then links of whichever
\* role of each code findOne returns.
Seed(r) ==
    LET seen    == req[r].seen
        codes   == MissingCodes(seen)
        missing == PermissionId \ seen.permission
    IN  /\ At(r, "seeding")
        /\ UniquePermissions(missing)
        /\ permission' = permission \cup missing
        /\ \E place \in [codes -> Role], role \in [SeedCode -> Role] :
              /\ \A c \in codes : code[place[c]] = None
              /\ \A c, d \in codes : place[c] = place[d] => c = d
              /\ \A c \in SeedCode :
                    IF c \in codes THEN role[c] = place[c] ELSE seen.code[role[c]] = c
              /\ code' = [i \in Role |-> IF \E c \in codes : place[c] = i
                                         THEN CHOOSE c \in codes : place[c] = i ELSE code[i]]
              /\ link' = link \cup
                     {[of |-> role[k[1]], to |-> k[2], by |-> r] :
                         k \in {l \in SeedLink : <<role[l[1]], l[2]>> \notin seen.links}}
        /\ End(r, "done")
        /\ UNCHANGED removed

\* An awaited call throws; a transaction that began is rolled back.
Fail(r) ==
    /\ req[r].pc \notin Ended \cup {"idle"}
    /\ End(r, "failed")
    /\ UNCHANGED tables

AllDone ==
    /\ \A r \in Request : req[r].pc \in Ended
    /\ UNCHANGED tables /\ UNCHANGED req

-----------------------------------------------------------------------------
(* History *)

\* What the guard would answer if it read everything at once.
Permitted(q) ==
    Exists(q.caller) /\ hasPermissions(LinkedTo(q.caller), RequiredBy[q.op])

\* What of a request in flight the step has changed.
Changes(q) ==
    {c \in {"user", "roles", "permissions"} :
        /\ q.pc \in Guarding
        /\ \/ c = "user" /\ removed' # removed
           \/ c = "roles" /\ \E u \in User : LinkedTo(u)' # LinkedTo(u)
           \/ c = "permissions" /\ \E i \in Role : LinkedTo(i)' # LinkedTo(i)}
    \cup {c \in {"subject"} :
        \E s \in Subject : /\ LinkedTo(s)' # LinkedTo(s)
                          /\ q.pc = "compared" => s = q.subject
                          /\ q.pc \in {"compared", "seeding"}}
    \cup {c \in {"code"} : q.pc \in {"toInsert", "seeding"} /\ code' # code}

\* The subjects whose links the step has written, and the codes it has inserted.
Written ==
    {s \in Subject : RowsOf(s)' # RowsOf(s)}
    \cup {c \in Code : \E i \in Role : code'[i] = c /\ code[i] # c}

History ==
    /\ moments' = [r \in Request |->
           IF req'[r].pc \in Guarding
           THEN (IF At(r, "idle") THEN {} ELSE moments[r]) \cup {Verdict(Permitted(req[r]))'}
           ELSE {}]
    /\ changed' = [r \in Request |->
           IF req'[r] = req[r] THEN changed[r] \cup Changes(req[r])
           ELSE IF req'[r].pc \in Guarding THEN changed[r] ELSE {}]
    /\ disturbed' = disturbed \cup
           (IF \E r \in Request : changed[r] \cap {"subject", "code"} # {} /\ req'[r] # req[r]
            THEN Written ELSE {})

-----------------------------------------------------------------------------
Start(r) ==
    \E u \in User, op \in Op, s \in Subject \cup Code \cup {None}, ids \in Sent \cup {{}} :
        Ask(r, u, op, s, ids)

Operate(r) == RunSeed(r) \/ Seed(r)

Continue(r) ==
    \/ GetUser(r) \/ FindRoleIds(r) \/ FindPermissions(r)
    \/ Use(r) \/ FindSubject(r) \/ Validate(r) \/ FindCurrentIds(r) \/ SetLinks(r)
    \/ RemoveUser(r) \/ FindRoleByCode(r)
    \/ \E i \in Role : InsertRole(r, i)

Next ==
    /\ \/ \E r \in Request : Start(r) \/ Continue(r) \/ Operate(r) \/ Fail(r)
       \/ AllDone
    /\ History

Spec == Init /\ [][Next]_vars

-----------------------------------------------------------------------------
(* Properties *)

Twice(causes) == \E b, c \in causes : b # c

RightAtAMoment(r) ==
    (req[r].pc \in Guarding /\ req'[r].pc \in {"allowed", "rejected"}) =>
        (req'[r].pc \in moments[r] \/ Twice(changed[r]))

\* The guard (user.service.ts, hasPermissions) reads user, roles and permissions
\* one after the other.  Its answer is one it might have given at a single moment
\* while it was reading, unless two of the three changed meanwhile: then it may
\* combine a role that was taken away with a permission the role got afterwards.
VerdictHasAMoment == [][\A r \in Request : RightAtAMoment(r)]_vars

\* setUserRoles and syncRolePermissions leave the subject with the ids they were
\* sent, unless its links changed between the reading and the transaction.
UndisturbedReplacement ==
    [][\A r \in Request : \A s \in Subject :
          (At(r, "compared") /\ req[r].subject = s /\ req'[r].pc = "done" /\ changed[r] = {}) =>
              LinkedTo(s)' = req[r].requested]_vars

\* A user has the same role twice, or a role the same permission, only if two
\* replacements of its links overlapped: nothing but the comparison prevents it.
DuplicateLinkHasACause ==
    \A k, l \in link : k.of = l.of /\ k.to = l.to /\ k.of \notin disturbed => k = l

\* Two roles have the same code only if their creations overlapped.
SameCodeHasACause ==
    \A i, j \in Role : code[i] = code[j] /\ code[i] \notin disturbed \cup {None} => i = j

\* No link refers to a role or a permission that does not exist, though user_roles
\* has no foreign keys and the ids are validated some awaits before they are written.
LinksRefer ==
    \A l \in link :
        /\ Exists(l.to)
        /\ \/ l.of \in User /\ l.to \in Role
           \/ l.of \in Role /\ Exists(l.of) /\ l.to \in PermissionId

\* What a request past a check still knows: roles and permissions are never removed.
Checked(q) ==
    /\ q.pc \notin Ended \cup {"idle", "seeding"} => Endpoint(q.op, q.subject, q.requested)
    /\ q.pc \in Guarding => q.caller \in User
    /\ q.pc \in {"found", "valid", "compared"} => q.op \in {"assign", "sync", "remove"}
    /\ q.pc \in {"valid", "compared"} => q.op # "remove" /\ AllExist(q.requested)
    /\ q.pc \in {"found", "valid", "compared"} /\ q.op = "sync" => Exists(q.subject)
    /\ q.pc = "toInsert" => q.op = "create"
    /\ q.pc = "seeding" =>
           /\ q.seen \in Snapshot /\ q.seen.permission \subseteq permission
           /\ \A i \in Role : q.seen.code[i] # None => Exists(i)

\* A role that exists has a code, a link its two ends and the request that made it.
TypeOK ==
    /\ removed \subseteq User
    /\ code \in [Role -> Code \cup {None}]
    /\ req \in [Request -> RequestState]
    /\ link \subseteq Link
    /\ permission \subseteq PermissionId

RefInv ==
    /\ TypeOK
    /\ \A r \in Request : Checked(req[r])
    /\ LinksRefer

\* What a guard has read so far is what it would read now, or it knows what changed;
\* and unless two things did, the answer it is heading for was right at a moment.
Guarded(q, answers, causes) ==
    /\ Verdict(Permitted(q)) \in answers
    /\ q.pc # "guard" /\ "user" \notin causes => Exists(q.caller)
    /\ q.pc = "identified" /\ ~Twice(causes) =>
           Verdict(hasPermissions(LinkedTo(q.caller), RequiredBy[q.op])) \in answers
    /\ q.pc = "roles" =>
           /\ q.current \subseteq Role
           /\ "roles" \notin causes => q.current = LinkedTo(q.caller)
           /\ ~Twice(causes) => Verdict(hasPermissions(q.current, RequiredBy[q.op])) \in answers

MomentInv ==
    \A r \in Request : req[r].pc \in Guarding => Guarded(req[r], moments[r], changed[r])

\* Both together are inductive.
IndInv == RefInv /\ MomentInv

\* What is compared with the tables is what they hold, unless the request knows better.
Compared(q, causes) ==
    /\ q.pc = "compared" /\ "subject" \notin causes => q.current = LinkedTo(q.subject)
    /\ q.pc = "toInsert" /\ "code" \notin causes => ~CodeTaken(q.subject)
    /\ q.pc = "seeding" /\ "subject" \notin causes => q.seen.links = {<<l.of, l.to>> : l \in link}
    /\ q.pc = "seeding" /\ "code" \notin causes => q.seen.code = code

ComparedInv ==
    /\ \A r \in Request : Compared(req[r], changed[r])
    /\ DuplicateLinkHasACause
    /\ SameCodeHasACause
=============================================================================
