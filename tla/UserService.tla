----------------------------- MODULE UserService -----------------------------
(***************************************************************************)
(* user-service: Register, Login and Update of platform users, over the    *)
(* `users` table of migration 100003.  Register and Login issue one        *)
(* statement and are one step.  Update reads the row, decides on it and on *)
(* the caller's token, and only then writes: two steps with anything in    *)
(* between.                                                                *)
(***************************************************************************)
EXTENDS FiniteSets

CONSTANTS
  Emails,           \* addresses EmailStr returns and the CHECK accepts
  Lower,            \* lower(email)
  PlatformIds, Platforms,   \* well-formed platform ids; those with a row
  Passwords, Names,
  UserIds,          \* bound: the user rows that can be inserted
  Handlers,         \* bound: updates in progress at one time
  SecretConfigured, \* JWT_SECRET is in the environment of the service
  AdminTokens,      \* the claims of the admin-service tokens about
  RegisterRequests, LoginRequests, UpdateRequests,  \* bound: what clients send
  Faults,           \* subset of {"statement", "cancel"}
  Malformed, NULL

\* UserUpdate: NULL where the request omits the field.
Change ==
  [email : Emails \cup {NULL}, password : Passwords \cup {NULL},
   first_name : Names \cup {NULL}, is_active : BOOLEAN \cup {NULL}]
UserFields == {"email", "password", "first_name", "is_active"}

UserRow ==
  [email : Emails, password : Passwords, first_name : Names, is_active : BOOLEAN,
   platform_id : PlatformIds]

\* A user's token has no role; an admin's subject is not a user's id.
UserClaims == [sub : UserIds, role : {NULL}, platform_id : PlatformIds]
AdminClaims ==
  [sub : {NULL}, role : {"admin"}, platform_id : PlatformIds]
    \cup [sub : {NULL}, role : {"superadmin"}, platform_id : {NULL}]

ASSUME UserServiceAssumption ==
  /\ Lower \in [Emails -> Emails]
  /\ Platforms \subseteq PlatformIds
  /\ AdminTokens \subseteq AdminClaims
  /\ SecretConfigured \in BOOLEAN
  /\ ~SecretConfigured => AdminTokens = {}    \* nothing decodes without it
  /\ RegisterRequests \subseteq
       [email : Emails, password : Passwords, first_name : Names,
        platform_id : PlatformIds \cup {NULL, Malformed}, valid : BOOLEAN]
  /\ LoginRequests \subseteq
       [email : Emails, password : Passwords \cup {NULL},
        platform_id : PlatformIds \cup {NULL, Malformed}]
  /\ UpdateRequests \subseteq [change : Change, valid : BOOLEAN]
  /\ Faults \subseteq {"statement", "cancel"}

ASSUME NullIsNoValue ==
  /\ NULL \notin Emails \cup Passwords \cup Names \cup PlatformIds \cup UserIds \cup UserRow
  /\ NULL \notin BOOLEAN /\ NULL \notin {"admin", "superadmin"}
  /\ Malformed \notin PlatformIds \cup {NULL}

VARIABLES
  users,        \* id -> row, NULL before it is inserted
  userTokens,   \* the claims Login has signed
  userCalls     \* handler -> the call it serves

vars == <<users, userTokens, userCalls>>

NoCall ==
  [op |-> "none", pc |-> "idle", caller |-> NULL, target |-> NULL, change |-> NULL,
   reply |-> "none"]

Call ==
  [op     : {"none", "Register", "Login", "Update"},
   pc     : {"idle", "write", "done"},
   caller : UserClaims \cup AdminClaims \cup {NULL},
   target : UserIds \cup {NULL},
   change : Change \cup {NULL},
   reply  : {"none", "OK", "INVALID_ARGUMENT", "PERMISSION_DENIED", "UNAUTHENTICATED",
             "NOT_FOUND", "ALREADY_EXISTS", "INTERNAL", "UNKNOWN"}]

\* Every variable holds what the code can store there.
TypeOK ==
  /\ users \in [UserIds -> UserRow \cup {NULL}]
  /\ userTokens \subseteq UserClaims
  /\ userCalls \in [Handlers -> Call]

Init ==
  /\ users = [u \in UserIds |-> NULL]
  /\ userTokens = {}
  /\ userCalls = [h \in Handlers |-> NoCall]

IsUser(u) == users[u] # NULL
At(h, pc) == userCalls[h].pc = pc

\* Mutant: the index does not fold case.
ExactConflict(u, email) ==
  \E v \in UserIds \ {u} : IsUser(v) /\ users[v].email = email

\* The unique index on lower(email) spans all platforms; u is the row written.
EmailConflict(u, email) ==
  \E v \in UserIds \ {u} : IsUser(v) /\ Lower[users[v].email] = Lower[email]

\* A call answered in the step it arrives in.
AnswerAtOnce(h, op, status) ==
  userCalls' = [userCalls EXCEPT ![h] = [NoCall EXCEPT !.op = op, !.pc = "done", !.reply = status]]

Answer(h, status) ==
  userCalls' = [userCalls EXCEPT ![h].pc = "done", ![h].reply = status]

-----------------------------------------------------------------------------
(* Register and Login *)

\* What UserCreate accepts: a platform is required.
Accepted(r) == r.valid /\ r.platform_id \in PlatformIds

InsertUser(r) ==
  \E u \in UserIds :
    /\ ~IsUser(u)
    /\ users' = [users EXCEPT ![u] =
         [email |-> r.email, password |-> r.password, first_name |-> r.first_name,
          is_active |-> TRUE, platform_id |-> r.platform_id]]

\* Parsing, validation, UserTable.create.  The foreign key violation has no
\* handler.  A lost connection is answered UNKNOWN, committed or not.
Register(h, r) ==
  LET conflict == EmailConflict(NULL, r.email)
      inserts == Accepted(r) /\ ~conflict /\ r.platform_id \in Platforms
  IN /\ At(h, "idle")
     /\ \/ ~Accepted(r) /\ AnswerAtOnce(h, "Register", "INVALID_ARGUMENT") /\ UNCHANGED users
        \/ /\ Accepted(r) /\ conflict
           /\ AnswerAtOnce(h, "Register", "ALREADY_EXISTS")
           /\ UNCHANGED users
        \/ /\ Accepted(r) /\ ~conflict /\ r.platform_id \notin Platforms
           /\ AnswerAtOnce(h, "Register", "UNKNOWN")
           /\ UNCHANGED users
        \/ inserts /\ AnswerAtOnce(h, "Register", "OK") /\ InsertUser(r)
        \/ /\ "statement" \in Faults /\ Accepted(r)
           /\ AnswerAtOnce(h, "Register", "UNKNOWN")
           /\ (inserts /\ InsertUser(r)) \/ UNCHANGED users
     /\ UNCHANGED userTokens

\* What Login signs.
ClaimsOf(u) == [sub |-> u, role |-> NULL, platform_id |-> users[u].platform_id]

\* Email and password are given, and the platform parses.
Scoped(r) == r.password # NULL /\ r.platform_id \in PlatformIds

\* One SELECT by email and platform; then the checks, bcrypt and the signature
\* without another await.  Signing fails without a secret.
Login(h, r) ==
  LET rows == {u \in UserIds : /\ IsUser(u)
                               /\ Lower[users[u].email] = Lower[r.email]
                               /\ users[u].platform_id = r.platform_id}
      answer(status) == AnswerAtOnce(h, "Login", status)
  IN /\ At(h, "idle")
     /\ \/ ~Scoped(r) /\ answer("INVALID_ARGUMENT") /\ UNCHANGED userTokens
        \/ Scoped(r) /\ rows = {} /\ answer("UNAUTHENTICATED") /\ UNCHANGED userTokens
        \/ /\ Scoped(r)
           /\ \E u \in rows :
             \/ ~users[u].is_active /\ answer("PERMISSION_DENIED") /\ UNCHANGED userTokens
             \/ /\ users[u].is_active /\ users[u].password # r.password
                /\ answer("UNAUTHENTICATED")
                /\ UNCHANGED userTokens
             \/ /\ users[u].is_active /\ users[u].password = r.password
                /\ answer(IF SecretConfigured THEN "OK" ELSE "INTERNAL")
                /\ userTokens' = userTokens \cup (IF SecretConfigured THEN {ClaimsOf(u)} ELSE {})
        \/ "statement" \in Faults /\ Scoped(r) /\ answer("INTERNAL") /\ UNCHANGED userTokens
     /\ UNCHANGED users

\* `exp` passes: decoding the token fails from now on.
ExpireToken(t) ==
  /\ t \in userTokens
  /\ userTokens' = userTokens \ {t}
  /\ UNCHANGED <<users, userCalls>>

-----------------------------------------------------------------------------
(* Update *)

Sets(change) == {f \in UserFields : change[f] # NULL}

\* Mutant: the target's platform is not compared.
AnyPlatform(t, u, row) == TRUE

\* _require_admin_or_superadmin with target and platform: a superadmin, the
\* owner, or whoever's token is scoped to the platform of the row.
Authorized(t, u, row) ==
  t.role = "superadmin" \/ t.sub = u \/ t.platform_id = row.platform_id

\* The rules of Update on top: owners do not touch is_active, admins touch
\* nothing else, and other users nothing.
MayGive(t, u, change) ==
  \/ t.sub = u /\ change.is_active = NULL
  \/ t.sub # u /\ t.role = "superadmin"
  \/ t.sub # u /\ t.role = "admin" /\ Sets(change) \subseteq {"is_active"}

MayChange(t, u, row, change) == Authorized(t, u, row) /\ MayGive(t, u, change)

\* user_table.get, and what is decided on the row it returned.  Without an id
\* the token's subject is meant, which names no user when it is an admin's.
ReadTarget(h, t, id, r) ==
  LET u == IF id = NULL THEN t.sub ELSE id
      found == u # NULL /\ IsUser(u)
      allowed == found /\ MayChange(t, u, users[u], r.change)
  IN /\ At(h, "idle")
     /\ t \in userTokens \cup AdminTokens
     /\ \/ ~found /\ AnswerAtOnce(h, "Update", "NOT_FOUND")
        \/ found /\ ~allowed /\ AnswerAtOnce(h, "Update", "PERMISSION_DENIED")
        \/ allowed /\ ~r.valid /\ AnswerAtOnce(h, "Update", "INVALID_ARGUMENT")
        \/ "statement" \in Faults /\ AnswerAtOnce(h, "Update", "UNKNOWN")
        \/ /\ allowed /\ r.valid
           /\ userCalls' = [userCalls EXCEPT ![h] =
                [op |-> "Update", pc |-> "write", caller |-> t, target |-> u,
                 change |-> r.change, reply |-> "none"]]
     /\ UNCHANGED <<users, userTokens>>

\* Mutant: an omitted field is written as NULL.
Verbatim(value, old) == value

\* SET of the fields that are given.
Given(value, old) == IF value = NULL THEN old ELSE value

\* Mutants: is_active falls back to its default; the row moves with its writer.
ChangedToDefault(row, change) ==
  [row EXCEPT !.email = Given(change.email, @), !.password = Given(change.password, @),
              !.first_name = Given(change.first_name, @),
              !.is_active = Given(change.is_active, TRUE)]
ChangedWithMove(row, change) ==
  [row EXCEPT !.email = Given(change.email, @), !.password = Given(change.password, @),
              !.platform_id = CHOOSE p \in Platforms : p # row.platform_id]

Changed(row, change) ==
  [row EXCEPT !.email = Given(change.email, @), !.password = Given(change.password, @),
              !.first_name = Given(change.first_name, @),
              !.is_active = Given(change.is_active, @)]

\* UserTable.update.  The row is there, for no statement deletes users.  The
\* unique violation has no handler here.  Nothing to set: the row is read back.
WriteUser(h) ==
  LET c == userCalls[h]
      conflict == c.change.email # NULL /\ EmailConflict(c.target, c.change.email)
      write == users' = [users EXCEPT ![c.target] = Changed(@, c.change)]
  IN /\ At(h, "write")
     /\ \/ ~conflict /\ Answer(h, "OK") /\ write
        \/ conflict /\ Answer(h, "UNKNOWN") /\ UNCHANGED users
        \/ /\ "statement" \in Faults /\ ~conflict
           /\ Answer(h, "UNKNOWN")
           /\ write \/ UNCHANGED users
     /\ UNCHANGED userTokens

\* The client goes away before the UPDATE is committed.
Abandon(h) ==
  /\ "cancel" \in Faults
  /\ At(h, "write")
  /\ userCalls' = [userCalls EXCEPT ![h] = NoCall]
  /\ UNCHANGED <<users, userTokens>>

\* The client has read the answer.
Collect(h) ==
  /\ At(h, "done")
  /\ userCalls' = [userCalls EXCEPT ![h] = NoCall]
  /\ UNCHANGED <<users, userTokens>>

Next ==
  \/ \E h \in Handlers :
       \/ \E r \in RegisterRequests : Register(h, r)
       \/ \E r \in LoginRequests : Login(h, r)
       \/ \E t \in userTokens \cup AdminTokens, id \in UserIds \cup {NULL}, r \in UpdateRequests :
            ReadTarget(h, t, id, r)
       \/ WriteUser(h)
       \/ Abandon(h)
       \/ Collect(h)
  \/ \E t \in userTokens : ExpireToken(t)

Spec == Init /\ [][Next]_vars

-----------------------------------------------------------------------------
(* Properties *)

\* A mailbox has one user account on all platforms together, though Register
\* and the email change of Update race for it.
OneAccountPerMailbox ==
  \A u, v \in UserIds :
    IsUser(u) /\ IsUser(v) /\ Lower[users[u].email] = Lower[users[v].email] => u = v

\* What Update decided on the row it read is still right when it writes,
\* whatever was committed in between.
WritesStayAuthorized ==
  \A h \in Handlers :
    At(h, "write") =>
      LET c == userCalls[h] IN
      IsUser(c.target) /\ MayChange(c.caller, c.target, users[c.target], c.change)

\* A token names a user of the platform it is scoped to, for as long as it
\* decodes; email and is_active may have changed since.
TokensKeepTheirScope ==
  \A t \in userTokens : IsUser(t.sub) /\ t.platform_id = users[t.sub].platform_id

\* The step in which the update that h serves is answered, with u its target.
Answers(h, u) == At(h, "write") /\ userCalls[h].target = u /\ userCalls'[h].pc = "done"

\* The update that changes is_active is one that asked for it, by a superadmin
\* or an admin of the user's platform: neither the owner's own updates nor a
\* registration that is retried reactivate a user.
OnlyAdminsSwitchAccounts ==
  [][\A u \in UserIds :
       IsUser(u) /\ users'[u].is_active # users[u].is_active =>
         \E h \in Handlers :
           /\ Answers(h, u)
           /\ users'[u].is_active = userCalls[h].change.is_active
           /\ LET t == userCalls[h].caller IN
              \/ t.role = "superadmin"
              \/ t.role = "admin" /\ t.platform_id = users[u].platform_id]_vars

\* Updates of different fields that overlap both survive: a write changes the
\* fields its request gave, to the values it gave, and no row disappears.
NoLostUpdate ==
  [][\A u \in UserIds : IsUser(u) /\ users'[u] # users[u] =>
       \E h \in Handlers :
         LET c == userCalls[h] IN
         /\ Answers(h, u)
         /\ users'[u].platform_id = users[u].platform_id
         /\ \A f \in UserFields : users'[u][f] \in {users[u][f], c.change[f]} \ {NULL}]_vars
=============================================================================
