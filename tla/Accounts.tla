------------------------------ MODULE Accounts ------------------------------
(***************************************************************************)
(* Users and how they log in (src/src/modules/user, src/src/modules/auth): *)
(* users has a unique e-mail column, auth_credentials has no unique column *)
(* but its id.  Registering is an insert into the one and then the other;  *)
(* a login with Google finds its credential, or the user with that e-mail  *)
(* to whom it adds one, or creates both.  Administrators change and remove *)
(* users at the same time, and admin.seed, run whenever a process starts   *)
(* while others may be serving, adds the administrator if it finds none.   *)
(***************************************************************************)
EXTENDS Naturals, FiniteSets

CONSTANTS
    User,       \* ids
    Email,
    Account,    \* Google accounts (sub)
    EmailOf,    \* the e-mail in an account's profile
    Request,
    AdminEmail, \* ADMIN_EMAIL; ADMIN_PASSWORD and ADMIN_MFA_SECRET are set
    Admin,      \* the user an earlier run of admin.seed has created
    None

Status == {"ACTIVE", "BLOCKED"}   \* INACTIVE is treated as BLOCKED is

Row == [email: Email, status: Status, deleted: BOOLEAN]

ASSUME AccountsAssumption ==
    /\ EmailOf \in [Account -> Email]
    /\ Admin \in User /\ AdminEmail \in Email
    /\ None \notin User \cup Email \cup Account \cup Row

\* account: provider_id, None for LOCAL; mfa: mfaEnabled, with its secret.
Credential == [user: User, account: Account \cup {None}, mfa: BOOLEAN, by: Request \cup {None}]

VARIABLES
    row,        \* users: the row of each id, or None
    cred,       \* auth_credentials
    mfaTokens,  \* the users who hold an MFA token that has not expired
    req,        \* where each request stands and what it has in memory
    active,     \* history: the users that have been ACTIVE during a request
    stale,      \* history: requests overtaken by a write to what they had read
    moved,      \* history: logins with Google during which a user's e-mail changed
    loose       \* history: users without a credential who were left so

vars == <<row, cred, mfaTokens, req, active, stale, moved, loose>>

tables == <<row, cred>>

Live(u) == row[u] # None /\ ~row[u].deleted

WithEmail(e) == {u \in User : Live(u) /\ row[u].email = e}

\* findAuthByUserIdAndProvider, findProviderAuth
Local(u) == {c \in cred : c.user = u /\ c.account = None}
Google(u) == {c \in cred : c.user = u /\ c.account # None}
Of(g) == {c \in cred : c.account = g}

-----------------------------------------------------------------------------
(* Decisions *)

\* Slip: removed users are not looked for.
EmailTakenByLive(e) == WithEmail(e) # {}

\* validateEmailNotExists: withDeleted.
EmailTaken(e) == \E u \in User : row[u] # None /\ row[u].email = e

\* Slip: unique among the users that are not removed.
ClashesWithLive(u, new) == \E v \in User \ {u} : Live(v) /\ row[v].email = new.email

\* users.email is unique.
Clashes(u, new) == \E v \in User \ {u} : row[v] # None /\ row[v].email = new.email

\* Slip: whoever has got as far as this.
AlreadyValidated(u) == TRUE

\* validateUserCanLogin
CanLogin(u) == row[u].status = "ACTIVE"

\* Slip: what was not sent gets the default of a creation.
EditedAsNew(old, e, s) ==
    [old EXCEPT !.email = IF e = None THEN @ ELSE e, !.status = IF s = None THEN "ACTIVE" ELSE s]

\* The entity update() makes; None: not sent.
Edited(old, e, s) ==
    [old EXCEPT !.email = IF e = None THEN @ ELSE e, !.status = IF s = None THEN @ ELSE s]

\* Repository.save, as in Catalog: the columns that differ from the row it loads.
Saved(current, loaded, entity) ==
    LET Column(now, before, new) == IF new = before THEN now ELSE new IN
    [email   |-> Column(current.email, loaded.email, entity.email),
     status  |-> Column(current.status, loaded.status, entity.status),
     deleted |-> Column(current.deleted, loaded.deleted, entity.deleted)]

-----------------------------------------------------------------------------
(* Requests *)

Op == {"register", "login", "mfa", "google", "create", "update", "remove", "seed"}

PC == {"idle", "toInsert", "inserted", "unlinked", "found", "linked", "toLink", "stamping", "stamped",
       "coded", "toCheck", "toSave", "loaded", "toDelete", "seeding", "done", "rejected", "failed"}

Ended == {"done", "rejected", "failed"}

\* user: whom it is about; token: whose access token it was answered with.
Idle == [pc |-> "idle", op |-> "login", user |-> None, email |-> None, status |-> None, account |-> None,
         entity |-> None, loaded |-> None, token |-> None]

RequestState ==
    [pc: PC, op: Op, user: User \cup {None}, email: Email \cup {None}, status: Status \cup {None},
     account: Account \cup {None}, entity: Row \cup {None}, loaded: Row \cup {None}, token: User \cup {None}]

At(r, pc) == req[r].pc = pc

Begin(r, fields) == At(r, "idle") /\ req' = [req EXCEPT ![r] = fields]

Goto(r, pc) == req' = [req EXCEPT ![r].pc = pc]

About(r, u, pc) == req' = [req EXCEPT ![r].pc = pc, ![r].user = u]

End(r, outcome) == req' = [req EXCEPT ![r] = [Idle EXCEPT !.pc = outcome]]

Issue(r, u) == req' = [req EXCEPT ![r] = [Idle EXCEPT !.pc = "done", !.token = u]]

Credentialed(u) == \E c \in cred : c.user = u

Seeded(e) == [email |-> e, status |-> "ACTIVE", deleted |-> FALSE]

AdminCredential(u, by) == [user |-> u, account |-> None, mfa |-> TRUE, by |-> by]

\* A database without users, or with the administrator.
Init ==
    /\ \/ row = [u \in User |-> None] /\ cred = {}
       \/ /\ row = [u \in User |-> IF u = Admin THEN Seeded(AdminEmail) ELSE None]
          /\ cred = {AdminCredential(Admin, None)}
    /\ mfaTokens = {}
    /\ req = [r \in Request |-> Idle]
    /\ active = [r \in Request |-> {}]
    /\ stale = {} /\ moved = {} /\ loose = {}

(* POST /auth/register and POST /users *)

\* The e-mail is looked up; the password is hashed.
CheckNewEmail(r, op, e) ==
    /\ op \in {"register", "create"}
    /\ IF EmailTaken(e) THEN At(r, "idle") /\ End(r, "rejected")
       ELSE Begin(r, [Idle EXCEPT !.op = op, !.pc = "toInsert", !.email = e])
    /\ UNCHANGED <<tables, mfaTokens>>

\* Administrators may create users of any status; the others are ACTIVE.
InsertUser(r, u, s) ==
    LET new == [email |-> req[r].email, status |-> s, deleted |-> FALSE] IN
    /\ At(r, "toInsert") /\ row[u] = None
    /\ s = "ACTIVE" \/ req[r].op = "create"
    /\ IF Clashes(u, new)
       THEN End(r, "failed") /\ UNCHANGED row
       ELSE /\ row' = [row EXCEPT ![u] = new]
            /\ IF req[r].op = "create" THEN End(r, "done") ELSE About(r, u, "inserted")
    /\ UNCHANGED <<cred, mfaTokens>>

NewCredential(r) == [user |-> req[r].user, account |-> req[r].account, mfa |-> FALSE, by |-> r]

CreateLocalCredential(r) ==
    /\ At(r, "inserted") /\ req[r].op = "register"
    /\ cred' = cred \cup {NewCredential(r)}
    /\ Goto(r, "stamping")
    /\ UNCHANGED <<row, mfaTokens>>

\* updateLastLoginAt; a registration then reads the user once more.
UpdateLastLogin(r) ==
    /\ At(r, "stamping")
    /\ IF req[r].op = "register" THEN Goto(r, "stamped") ELSE Issue(r, req[r].user)
    /\ UNCHANGED <<tables, mfaTokens>>

FindRegistered(r) ==
    /\ At(r, "stamped")
    /\ IF Live(req[r].user) THEN Issue(r, req[r].user) ELSE End(r, "rejected")
    /\ UNCHANGED <<tables, mfaTokens>>

(* POST /auth/login and POST /auth/admin/mfa/verify *)

FindByEmail(r, e) ==
    /\ \/ \E u \in WithEmail(e) :
             IF CanLogin(u) THEN Begin(r, [Idle EXCEPT !.op = "login", !.pc = "found", !.user = u])
             ELSE At(r, "idle") /\ End(r, "rejected")
       \/ WithEmail(e) = {} /\ At(r, "idle") /\ End(r, "rejected")
    /\ UNCHANGED <<tables, mfaTokens>>

\* The password is right or it is not.
ComparePassword(r) ==
    LET u == req[r].user IN
    /\ At(r, "found") /\ req[r].op = "login"
    /\ \/ End(r, "rejected") /\ UNCHANGED mfaTokens
       \/ \E c \in Local(u) :
             IF c.mfa THEN End(r, "done") /\ mfaTokens' = mfaTokens \cup {u}
             ELSE Goto(r, "stamping") /\ UNCHANGED mfaTokens
    /\ UNCHANGED tables

\* The MFA token names user and credential; its code is right or it is not.
VerifyMfa(r, u) ==
    /\ u \in mfaTokens
    /\ \/ Begin(r, [Idle EXCEPT !.op = "mfa", !.pc = "coded", !.user = u])
          /\ \E c \in Local(u) : c.mfa
       \/ At(r, "idle") /\ End(r, "rejected")
    /\ UNCHANGED <<tables, mfaTokens>>

FindVerified(r) ==
    LET u == req[r].user IN
    /\ At(r, "coded")
    /\ IF Live(u) /\ CanLogin(u) THEN Goto(r, "stamping") ELSE End(r, "rejected")
    /\ UNCHANGED <<tables, mfaTokens>>

\* expiresIn: 5m
MfaTokenExpires(u) ==
    /\ u \in mfaTokens
    /\ mfaTokens' = mfaTokens \ {u}
    /\ UNCHANGED <<tables, req>>

(* POST /auth/google-login *)

\* Slip: the profile's e-mail is all that is looked up.
SkipProviderAuth(r, g) ==
    /\ Begin(r, [Idle EXCEPT !.op = "google", !.pc = "unlinked", !.account = g, !.email = EmailOf[g]])
    /\ UNCHANGED <<tables, mfaTokens>>

FindProviderAuth(r, g) ==
    /\ \/ \E c \in Of(g) : Begin(r, [Idle EXCEPT !.op = "google", !.pc = "linked", !.user = c.user])
       \/ Of(g) = {} /\ Begin(r, [Idle EXCEPT !.op = "google", !.pc = "unlinked",
                                              !.account = g, !.email = EmailOf[g]])
    /\ UNCHANGED <<tables, mfaTokens>>

FindLinked(r) ==
    LET u == req[r].user IN
    /\ At(r, "linked")
    /\ IF Live(u) /\ CanLogin(u) THEN Goto(r, "stamping") ELSE End(r, "rejected")
    /\ UNCHANGED <<tables, mfaTokens>>

\* Nobody with that e-mail: the creation of a user looks for it again.
FindByProfile(r) ==
    LET e == req[r].email IN
    /\ At(r, "unlinked")
    /\ \/ \E u \in WithEmail(e) :
             IF CanLogin(u) THEN About(r, u, "found") ELSE End(r, "rejected")
       \/ WithEmail(e) = {} /\ Goto(r, "toCheck")
    /\ UNCHANGED <<tables, mfaTokens>>

\* Slip: the user may be linked to another account.
LinkAnyway(r) ==
    /\ At(r, "found") /\ req[r].op = "google"
    /\ Goto(r, "toLink")
    /\ UNCHANGED <<tables, mfaTokens>>

FindExistingProvider(r) ==
    /\ At(r, "found") /\ req[r].op = "google"
    /\ IF Google(req[r].user) = {} THEN Goto(r, "toLink") ELSE End(r, "rejected")
    /\ UNCHANGED <<tables, mfaTokens>>

FindCreated(r) ==
    /\ At(r, "inserted") /\ req[r].op = "google"
    /\ IF Live(req[r].user) THEN Goto(r, "toLink") ELSE End(r, "rejected")
    /\ UNCHANGED <<tables, mfaTokens>>

CreateGoogleCredential(r) ==
    /\ At(r, "toLink")
    /\ cred' = cred \cup {NewCredential(r)}
    /\ Goto(r, "stamping")
    /\ UNCHANGED <<row, mfaTokens>>

(* PATCH and DELETE /users/:id *)

ReadUser(r, u, e, s) ==
    /\ IF Live(u)
       THEN Begin(r, [Idle EXCEPT !.op = "update", !.user = u, !.email = e, !.status = s,
                                  !.entity = Edited(row[u], e, s),
                                  !.pc = IF e \in {None, row[u].email} THEN "toSave" ELSE "toCheck"])
       ELSE At(r, "idle") /\ End(r, "rejected")
    /\ UNCHANGED <<tables, mfaTokens>>

CheckEmail(r) ==
    /\ At(r, "toCheck")
    /\ IF EmailTaken(req[r].email) THEN End(r, "rejected")
       ELSE Goto(r, IF req[r].op = "update" THEN "toSave" ELSE "toInsert")
    /\ UNCHANGED <<tables, mfaTokens>>

Load(r) ==
    /\ At(r, "toSave")
    /\ req' = [req EXCEPT ![r].pc = "loaded", ![r].loaded = row[req[r].user]]
    /\ UNCHANGED <<tables, mfaTokens>>

UpdateUser(r) ==
    LET u == req[r].user
        new == Saved(row[u], req[r].loaded, req[r].entity) IN
    /\ At(r, "loaded")
    /\ IF Clashes(u, new)
       THEN End(r, "failed") /\ UNCHANGED row
       ELSE End(r, "done") /\ row' = [row EXCEPT ![u] = new]
    /\ UNCHANGED <<cred, mfaTokens>>

FindToRemove(r, u) ==
    /\ IF Live(u) THEN Begin(r, [Idle EXCEPT !.op = "remove", !.pc = "toDelete", !.user = u])
       ELSE At(r, "idle") /\ End(r, "rejected")
    /\ UNCHANGED <<tables, mfaTokens>>

\* Credentials and links to roles stay.
SoftDelete(r) ==
    /\ At(r, "toDelete")
    /\ row' = [row EXCEPT ![req[r].user].deleted = TRUE]
    /\ End(r, "done")
    /\ UNCHANGED <<cred, mfaTokens>>

(* admin.seed *)

\* Without the role ADMIN there is nothing to do.
LookForAdmin(r) ==
    /\ \/ At(r, "idle") /\ End(r, "rejected")
       \/ WithEmail(AdminEmail) # {} /\ At(r, "idle") /\ End(r, "done")
       \/ /\ WithEmail(AdminEmail) = {}
          /\ Begin(r, [Idle EXCEPT !.op = "seed", !.pc = "seeding", !.email = AdminEmail])
    /\ UNCHANGED <<tables, mfaTokens>>

\* Slip: the user is committed before the credential is made.
SeedUserOnly(r, u) ==
    /\ At(r, "seeding") /\ row[u] = None
    /\ ~Clashes(u, Seeded(AdminEmail))
    /\ row' = [row EXCEPT ![u] = Seeded(AdminEmail)]
    /\ End(r, "failed")
    /\ UNCHANGED <<cred, mfaTokens>>

\* One transaction: the user, the credential (and the link to the role).
SeedAdmin(r, u) ==
    /\ At(r, "seeding") /\ row[u] = None
    /\ IF Clashes(u, Seeded(AdminEmail))
       THEN End(r, "failed") /\ UNCHANGED tables
       ELSE /\ row' = [row EXCEPT ![u] = Seeded(AdminEmail)]
            /\ cred' = cred \cup {AdminCredential(u, r)}
            /\ End(r, "done")
    /\ UNCHANGED mfaTokens

\* An awaited call throws; what was inserted stays.
Fail(r) ==
    /\ req[r].pc \notin Ended \cup {"idle"}
    /\ End(r, "failed")
    /\ UNCHANGED <<tables, mfaTokens>>

AllDone ==
    /\ \A r \in Request : req[r].pc \in Ended
    /\ mfaTokens = {}
    /\ UNCHANGED <<tables, mfaTokens, req>>

-----------------------------------------------------------------------------
(* History *)

Active == {u \in User : Live(u) /\ row[u].status = "ACTIVE"}

InFlight(s) == req[s].pc \notin Ended \cup {"idle"}

\* About to add a Google credential.
Linking(s) == req[s].op = "google" /\ req[s].account # None /\ req[s].pc # "stamping"

\* About to write an e-mail it has looked for.
Writing(s) == req[s].pc \in {"toInsert", "toSave", "loaded", "seeding"}

\* Another wrote what it had read: the row that is to be updated, the credentials of the
\* account and, once they were looked for, of the user (of one it has made it takes for
\* granted that there are none); or a row with the e-mail.
Overtaken(s) ==
    /\ req'[s] = req[s]
    /\ \/ /\ req[s].op = "update"
          /\ \E u \in {req[s].user} : row'[u] # row[u]
       \/ /\ Linking(s)
          /\ \E c \in cred' \ cred : \/ c.account = req[s].account
                                   \/ (c.user = req[s].user /\ req[s].pc \in {"inserted", "toLink"})
       \/ /\ Writing(s)
          /\ \E u \in User : row'[u] # row[u] /\ row'[u].email = req[s].email

EmailMoved(s) ==
    /\ InFlight(s) /\ Linking(s)
    /\ \E u \in User : row[u] # None /\ row'[u].email # row[u].email

\* Whether a request was overtaken matters while it runs and in what it has inserted.
Matters(s) == InFlight(s) \/ \E c \in cred : c.by = s

\* POST /users makes no credential; a registration or a login with Google that ends
\* after the one insert and before the other has made none.
LeftLoose ==
    {u \in User : \E s \in Request :
        \/ row[u] = None /\ row'[u] # None /\ req[s].op = "create" /\ req'[s] # req[s]
        \/ req[s].user = u /\ req[s].pc \in {"inserted", "toLink"} /\ req'[s].pc \in Ended}

History ==
    /\ active' = [r \in Request |-> IF InFlight(r)' THEN active[r] \cup Active \cup Active' ELSE {}]
    /\ stale' = {s \in Request : (s \in stale \/ Overtaken(s)) /\ Matters(s)'}
    /\ loose' = {u \in loose \cup LeftLoose : ~Credentialed(u)'}
    /\ moved' = {s \in Request : (s \in moved \/ EmailMoved(s)) /\ Matters(s)'}

-----------------------------------------------------------------------------
Start(r) ==
    \/ \E op \in {"register", "create"}, e \in Email : CheckNewEmail(r, op, e)
    \/ \E e \in Email : FindByEmail(r, e)
    \/ \E u \in User : VerifyMfa(r, u) \/ FindToRemove(r, u)
    \/ \E g \in Account : FindProviderAuth(r, g)
    \/ LookForAdmin(r)
    \/ \E u \in User, e \in Email \cup {None}, s \in Status \cup {None} : ReadUser(r, u, e, s)

Continue(r) ==
    \/ \E u \in User, s \in Status : InsertUser(r, u, s)
    \/ CreateLocalCredential(r) \/ UpdateLastLogin(r) \/ FindRegistered(r)
    \/ ComparePassword(r) \/ FindVerified(r)
    \/ FindLinked(r) \/ FindByProfile(r) \/ FindExistingProvider(r) \/ FindCreated(r)
    \/ CreateGoogleCredential(r)
    \/ CheckEmail(r) \/ Load(r) \/ UpdateUser(r) \/ SoftDelete(r)
    \/ \E u \in User : SeedAdmin(r, u)

Next ==
    /\ \/ \E r \in Request : Start(r) \/ Continue(r) \/ Fail(r)
       \/ \E u \in User : MfaTokenExpires(u)
       \/ AllDone
    /\ History

Spec == Init /\ [][Next]_vars

-----------------------------------------------------------------------------
(* Properties *)

TypeOK ==
    /\ row \in [User -> Row \cup {None}]
    /\ cred \subseteq Credential
    /\ mfaTokens \subseteq User
    /\ req \in [Request -> RequestState]
    /\ active \in [Request -> SUBSET User]
    /\ stale \subseteq Request
    /\ moved \subseteq Request
    /\ loose \subseteq User

\* Two users never have the same e-mail, removed ones included, whatever the
\* registrations, Google logins and updates that looked for it had seen.
EmailIsUnique ==
    \A u, v \in User : row[u] # None /\ row[v] # None /\ row[u].email = row[v].email => u = v

\* The unique index refuses a registration or an update (a driver's error, 500) only if
\* someone took the e-mail after it had been looked for: the look-up sees removed users,
\* as the index does (user.service.ts:159-168).  The one of admin.seed does not: there
\* a removed user may hold the e-mail as well.
FreeUntilOvertaken ==
    \A r \in Request \ stale :
        /\ At(r, "toInsert") => ~EmailTaken(req[r].email)
        /\ req[r].pc \in {"toSave", "loaded"} => ~Clashes(req[r].user, req[r].entity)
        /\ At(r, "seeding") => WithEmail(req[r].email) = {}

\* An access token goes to a user who was there and ACTIVE at some moment of the very
\* request (auth.service.ts, validateUserCanLogin), however long ago the MFA token or
\* the credential it rests on was made.
TokenForActive ==
    [][\A r \in Request : \A u \in User :
          req'[r].token = u /\ req[r].token = None => u \in active[r] \cup Active]_vars

\* A user nobody can log in as was made by POST /users, or by a registration or a login
\* with Google that has ended, or still is, between its two inserts (auth.service.ts,
\* register): seeds, and everything that gets to its end, leave both or neither.
OrphanHasACause ==
    \A u \in User : row[u] # None /\ ~Credentialed(u) =>
        \/ u \in loose
        \/ \E r \in Request : req[r].user = u /\ req[r].pc \in {"inserted", "toLink"}

\* No user has two credentials of a kind, for one Google account or for two, unless the
\* login that added one was overtaken by the one that added the other: there is no
\* unique index to refuse it (auth.entity.ts).
SecondCredentialHasACause ==
    \A c, d \in cred :
        \/ c.user # d.user \/ (c.account = None) # (d.account = None)
        \/ {c.by, d.by} \cap stale # {} \/ c = d

\* A Google account leads to two users only if one of the logins that linked it was
\* overtaken by the other, and an e-mail changed during one of them: they then did not
\* find the same user.
AccountHasOneUser ==
    \A c, d \in cred :
        c.account = d.account /\ c.account # None /\ c.user # d.user =>
            {c.by, d.by} \cap stale # {} /\ {c.by, d.by} \cap moved # {}

\* A PATCH that was not overtaken changes what it was sent and nothing else.
UndisturbedUpdate ==
    [][\A r \in Request \ stale : \A u \in User :
          (req[r].user = u /\ At(r, "loaded") /\ req'[r].pc = "done") =>
              /\ row'[u].deleted = row[u].deleted
              /\ row'[u].email = (IF req[r].email = None THEN row[u].email ELSE req[r].email)
              /\ row'[u].status = (IF req[r].status = None THEN row[u].status ELSE req[r].status)]_vars

(* The inductive invariant *)

\* What a request has in memory when it gets to its next step; rows are never taken away.
Prepared(q, rows) ==
    /\ q.user # None => rows[q.user] # None
    /\ q.pc \in {"unlinked", "toCheck", "toInsert", "seeding"} => q.email # None
    /\ q.pc = "unlinked" => q.op = "google"
    /\ q.pc \in {"linked", "coded", "found", "inserted", "toLink", "stamping", "stamped", "toDelete"} => q.user # None
    /\ q.pc \in {"toSave", "loaded"} \/ (q.op = "update" /\ q.pc = "toCheck") =>
           q.user # None /\ q.entity # None
    /\ q.pc = "loaded" => q.loaded # None

AllPrepared ==
    /\ \A r \in Request : Prepared(req[r], row)
    /\ \A c \in cred : row[c.user] # None

\* A request that is to answer with a token has seen its user ACTIVE.
Admitted == {"found", "inserted", "toLink", "stamping", "stamped"}

SeenActive == \A r \in Request : req[r].pc \in Admitted => req[r].user \in active[r]

IndInv == TypeOK /\ AllPrepared /\ SeenActive /\ EmailIsUnique

(* The inductive invariant of what requests remember *)

\* The fields that go with a step, and a registration alone at its user.
OnCourse(r) ==
    LET q == req[r] IN
    /\ q.pc \in {"toSave", "loaded"} => q.op = "update"
    /\ q.pc = "toCheck" => q.op \in {"update", "google"}
    /\ q.pc = "toInsert" => q.op \in {"register", "create", "google"}
    /\ q.pc = "toLink" => q.op = "google"
    /\ q.pc = "inserted" => q.op \in {"register", "google"}
    /\ q.op = "register" => q.account = None
    /\ q.op = "google" /\ q.pc \in {"unlinked", "toCheck", "toInsert", "found", "inserted", "toLink"} =>
           q.account # None
    /\ InFlight(r) /\ Linking(r) => q.email = EmailOf[q.account]
    /\ q.pc = "inserted" /\ q.op = "register" =>
           /\ Local(q.user) = {}
           /\ \A s \in Request \ {r} :
                  ~(req[s].pc = "inserted" /\ req[s].op = "register" /\ req[s].user = q.user)

\* What a request has read that nobody has overtaken is still so.
Fresh(r) ==
    LET q == req[r] IN
    /\ q.pc = "toInsert" => ~EmailTaken(q.email)
    /\ q.pc \in {"toSave", "loaded"} => ~Clashes(q.user, q.entity)
    /\ q.pc = "seeding" => WithEmail(q.email) = {}
    /\ q.op = "update" /\ q.pc \in {"toCheck", "toSave", "loaded"} =>
           q.entity = Edited(row[q.user], q.email, q.status)
    /\ q.pc = "loaded" => q.loaded = row[q.user]
    /\ InFlight(r) /\ Linking(r) => Of(q.account) = {}
    /\ q.op = "google" /\ q.pc \in {"inserted", "toLink"} => Google(q.user) = {}

\* As long as no e-mail changes, all who link an account find the user with its e-mail.
SameUser(r) ==
    LET q == req[r] IN
    InFlight(r) /\ Linking(r) =>
        /\ q.pc \in {"found", "inserted", "toLink"} => row[q.user].email = q.email
        /\ \A c \in Of(q.account) : c.by \notin moved => row[c.user].email = q.email

MemoryInv ==
    /\ \A r \in Request :
           /\ OnCourse(r)
           /\ r \notin stale => Fresh(r)
           /\ r \notin moved => SameUser(r)
    /\ SecondCredentialHasACause
    /\ AccountHasOneUser
=============================================================================
