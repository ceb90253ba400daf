-------------------------- MODULE UserServiceProofs --------------------------
(***************************************************************************)
(* The safety of user-service for every number of users, updates, tokens   *)
(* and platforms, with and without faults.  What makes the read-then-write *)
(* of Update safe is that a row, once inserted, stays and keeps its        *)
(* platform_id (UsersEffect), the one field the decision rests on.         *)
(***************************************************************************)
EXTENDS UserService, TLAPS

\* An update that goes on to write names a row and carries its change.
WritesInShape ==
  \A h \in Handlers :
    At(h, "write") => userCalls[h].target \in UserIds /\ userCalls[h].change \in Change

IInv ==
  /\ TypeOK
  /\ WritesInShape
  /\ OneAccountPerMailbox
  /\ WritesStayAuthorized
  /\ TokensKeepTheirScope

-----------------------------------------------------------------------------
(* What a step does to `users` *)

Inserts(r) ==
  /\ r \in RegisterRequests /\ r.platform_id \in PlatformIds
  /\ ~EmailConflict(NULL, r.email)
  /\ InsertUser(r)

Writes(h) ==
  LET c == userCalls[h] IN
  /\ c.pc = "write" /\ userCalls'[h].pc = "done"
  /\ c.change.email # NULL => ~EmailConflict(c.target, c.change.email)
  /\ users' = [users EXCEPT ![c.target] = Changed(@, c.change)]

UsersEffect ==
  \/ UNCHANGED users
  \/ \E r \in RegisterRequests : Inserts(r)
  \/ \E h \in Handlers : Writes(h)

LEMMA UserEffects == ASSUME TypeOK, [Next]_vars PROVE UsersEffect
<1> USE DEF UsersEffect
<1>1. ASSUME NEW h \in Handlers, NEW r \in RegisterRequests, Register(h, r)
      PROVE  UsersEffect
  BY <1>1 DEF Register, Inserts, Accepted
<1>2. ASSUME NEW h \in Handlers, WriteUser(h)
      PROVE  UsersEffect
  BY <1>2 DEF WriteUser, Writes, At, Answer, TypeOK, Call
<1>3. ASSUME NEW h \in Handlers,
             \/ \E r \in LoginRequests : Login(h, r)
             \/ \E t \in userTokens \cup AdminTokens, id \in UserIds \cup {NULL}, r \in UpdateRequests :
                  ReadTarget(h, t, id, r)
             \/ Abandon(h) \/ Collect(h)
      PROVE  UsersEffect
  BY <1>3 DEF Login, ReadTarget, Abandon, Collect
<1>4. ASSUME NEW t \in userTokens, ExpireToken(t)
      PROVE  UsersEffect
  BY <1>4 DEF ExpireToken
<1>5. CASE UNCHANGED vars
  BY <1>5 DEF vars
<1>6. QED
  BY <1>1, <1>2, <1>3, <1>4, <1>5 DEF Next

\* The row an update leaves: well formed, on the platform it was on, under
\* the address it had or the one the update gives.
LEMMA ChangedRow ==
  ASSUME NEW row \in UserRow, NEW change \in Change
  PROVE  /\ Changed(row, change) \in UserRow
         /\ Changed(row, change) # NULL
         /\ Changed(row, change).platform_id = row.platform_id
         /\ Changed(row, change).email = IF change.email = NULL THEN row.email ELSE change.email
BY NullIsNoValue DEF Changed, Given, UserRow, Change

\* Rows stay, well formed and on their platforms.
RowsStay ==
  \A u \in UserIds : IsUser(u) => IsUser(u)' /\ users'[u].platform_id = users[u].platform_id

LEMMA UsersStay ==
  ASSUME IInv, UsersEffect
  PROVE  /\ users' \in [UserIds -> UserRow \cup {NULL}]
         /\ RowsStay
         /\ OneAccountPerMailbox'
<1> USE DEF IInv, TypeOK
<1>1. CASE UNCHANGED users
  BY <1>1 DEF RowsStay, IsUser, OneAccountPerMailbox
<1>2. ASSUME NEW r \in RegisterRequests, Inserts(r)
      PROVE  /\ users' \in [UserIds -> UserRow \cup {NULL}]
             /\ RowsStay
             /\ OneAccountPerMailbox'
  <2> DEFINE row == [email |-> r.email, password |-> r.password, first_name |-> r.first_name,
                     is_active |-> TRUE, platform_id |-> r.platform_id]
  <2>1. row \in UserRow
    BY <1>2, UserServiceAssumption DEF Inserts, UserRow
  <2>2. PICK n \in UserIds : ~IsUser(n) /\ users' = [users EXCEPT ![n] = row]
    BY <1>2 DEF Inserts, InsertUser
  <2>3. /\ users'[n] = row /\ \A u \in UserIds : u # n => users'[u] = users[u]
        /\ users' \in [UserIds -> UserRow \cup {NULL}]
    BY <2>1, <2>2
  <2>4. RowsStay
    BY <2>2, <2>3 DEF RowsStay, IsUser
  <2>5. \A u \in UserIds : IsUser(u) => Lower[users[u].email] # Lower[row.email]
    BY <1>2, NullIsNoValue DEF Inserts, EmailConflict
  <2>6. OneAccountPerMailbox'
    BY <2>3, <2>5 DEF OneAccountPerMailbox, IsUser
  <2>7. QED
    BY <2>3, <2>4, <2>6
<1>3. ASSUME NEW h \in Handlers, Writes(h)
      PROVE  /\ users' \in [UserIds -> UserRow \cup {NULL}]
             /\ RowsStay
             /\ OneAccountPerMailbox'
  <2> DEFINE n == userCalls[h].target
             change == userCalls[h].change
             row == Changed(users[n], change)
  <2>1. n \in UserIds /\ change \in Change /\ IsUser(n)
    BY <1>3 DEF Writes, WritesInShape, WritesStayAuthorized, At
  <2>2. users[n] \in UserRow
    BY <2>1 DEF IsUser
  <2>3. /\ row \in UserRow /\ row # NULL /\ row.platform_id = users[n].platform_id
        /\ row.email = IF change.email = NULL THEN users[n].email ELSE change.email
    BY <2>1, <2>2, ChangedRow
  <2>4. /\ users'[n] = row /\ \A u \in UserIds : u # n => users'[u] = users[u]
        /\ users' \in [UserIds -> UserRow \cup {NULL}]
    BY <1>3, <2>1, <2>3 DEF Writes
  <2>5. RowsStay
    BY <2>3, <2>4 DEF RowsStay, IsUser
  <2>6. \A u \in UserIds \ {n} : IsUser(u) => Lower[users[u].email] # Lower[row.email]
    <3>1. CASE change.email = NULL
      BY <2>1, <2>3, <3>1 DEF OneAccountPerMailbox
    <3>2. CASE change.email # NULL
      BY <1>3, <2>3, <3>2 DEF Writes, EmailConflict
    <3>3. QED
      BY <3>1, <3>2
  <2>7. OneAccountPerMailbox'
    BY <2>4, <2>6 DEF OneAccountPerMailbox, IsUser
  <2>8. QED
    BY <2>4, <2>5, <2>7
<1>4. QED
  BY <1>1, <1>2, <1>3 DEF UsersEffect

-----------------------------------------------------------------------------
(* What a step does to the calls and the tokens *)

\* A call the handler may go on with: an update was decided on a row that is
\* there, on the platform it is on.
MayGoOn(c) ==
  c.pc = "write" =>
    /\ c.target \in UserIds /\ c.change \in Change
    /\ IsUser(c.target)
    /\ MayChange(c.caller, c.target, users[c.target], c.change)

CallsEffect ==
  \/ UNCHANGED userCalls
  \/ \E h \in Handlers, c \in Call :
       MayGoOn(c) /\ userCalls' = [userCalls EXCEPT ![h] = c]

LEMMA Answered ==
  ASSUME TypeOK, NEW h \in Handlers,
         NEW op \in {"Register", "Login", "Update"},
         NEW status \in {"OK", "INVALID_ARGUMENT", "PERMISSION_DENIED", "UNAUTHENTICATED",
                         "NOT_FOUND", "ALREADY_EXISTS", "INTERNAL", "UNKNOWN"},
         AnswerAtOnce(h, op, status) \/ Answer(h, status)
  PROVE  CallsEffect
<1>1. CASE AnswerAtOnce(h, op, status)
  <2>1. PICK c : c = [NoCall EXCEPT !.op = op, !.pc = "done", !.reply = status]
    OBVIOUS
  <2>2. c \in Call /\ c.pc = "done"
    BY <2>1 DEF NoCall, Call
  <2>3. QED
    BY <1>1, <2>1, <2>2 DEF AnswerAtOnce, CallsEffect, MayGoOn
<1>2. CASE Answer(h, status)
  <2>1. PICK c : c = [userCalls[h] EXCEPT !.pc = "done", !.reply = status]
    OBVIOUS
  <2>2. c \in Call /\ c.pc = "done"
    BY <2>1 DEF TypeOK, Call
  <2>3. userCalls' = [userCalls EXCEPT ![h] = c]
    BY <1>2, <2>1 DEF Answer, TypeOK, Call
  <2>4. QED
    BY <2>2, <2>3 DEF CallsEffect, MayGoOn
<1>3. QED
  BY <1>1, <1>2

LEMMA CallEffects == ASSUME TypeOK, [Next]_vars PROVE CallsEffect
<1>1. ASSUME NEW h \in Handlers, NEW r \in RegisterRequests, Register(h, r)
      PROVE  CallsEffect
  BY <1>1, Answered DEF Register
<1>2. ASSUME NEW h \in Handlers, NEW r \in LoginRequests, Login(h, r)
      PROVE  CallsEffect
  BY <1>2, Answered DEF Login
<1>3. ASSUME NEW h \in Handlers, NEW t \in userTokens \cup AdminTokens,
             NEW id \in UserIds \cup {NULL}, NEW r \in UpdateRequests, ReadTarget(h, t, id, r)
      PROVE  CallsEffect
  <2> DEFINE u == IF id = NULL THEN t.sub ELSE id
  <2>1. CASE \E status \in {"NOT_FOUND", "PERMISSION_DENIED", "INVALID_ARGUMENT", "UNKNOWN"} :
               AnswerAtOnce(h, "Update", status)
    BY <2>1, Answered
  <2>2. CASE /\ u # NULL /\ IsUser(u) /\ MayChange(t, u, users[u], r.change)
             /\ userCalls' = [userCalls EXCEPT ![h] =
                  [op |-> "Update", pc |-> "write", caller |-> t, target |-> u,
                   change |-> r.change, reply |-> "none"]]
    <3>1. t \in UserClaims \cup AdminClaims /\ r.change \in Change
      BY UserServiceAssumption DEF TypeOK
    <3>2. u \in UserIds
      BY <2>2, <3>1 DEF UserClaims, AdminClaims
    <3>3. PICK c : c = [op |-> "Update", pc |-> "write", caller |-> t, target |-> u,
                        change |-> r.change, reply |-> "none"]
      OBVIOUS
    <3>4. c \in Call
      BY <3>1, <3>2, <3>3 DEF Call
    <3>5. MayGoOn(c)
      BY <2>2, <3>1, <3>2, <3>3 DEF MayGoOn
    <3>6. QED
      BY <2>2, <3>3, <3>4, <3>5 DEF CallsEffect
  <2>3. QED
    BY <1>3, <2>1, <2>2 DEF ReadTarget
<1>4. ASSUME NEW h \in Handlers, WriteUser(h)
      PROVE  CallsEffect
  BY <1>4, Answered DEF WriteUser
<1>5. ASSUME NEW h \in Handlers, Abandon(h) \/ Collect(h)
      PROVE  CallsEffect
  <2>1. NoCall \in Call /\ NoCall.pc = "idle"
    BY DEF NoCall, Call
  <2>2. QED
    BY <1>5, <2>1 DEF Abandon, Collect, CallsEffect, MayGoOn
<1>6. CASE UNCHANGED userCalls
  BY <1>6 DEF CallsEffect
<1>7. QED
  BY <1>1, <1>2, <1>3, <1>4, <1>5, <1>6 DEF Next, ExpireToken, vars

LEMMA TokenEffects ==
  ASSUME TypeOK, [Next]_vars
  PROVE  \A t \in userTokens' : t \in userTokens \/ \E u \in UserIds : IsUser(u) /\ t = ClaimsOf(u)
BY DEF Next, Register, Login, ReadTarget, WriteUser, Abandon, Collect, ExpireToken, vars

-----------------------------------------------------------------------------
(* The invariant is inductive *)

LEMMA InitInvariant == Init => IInv
<1> SUFFICES ASSUME Init PROVE IInv
  OBVIOUS
<1> USE DEF Init
<1>1. NoCall \in Call
  BY DEF NoCall, Call
<1>2. \A u \in UserIds : ~IsUser(u)
  BY DEF IsUser
<1>3. \A h \in Handlers : ~At(h, "write")
  BY DEF At, NoCall
<1>4. QED
  BY <1>1, <1>2, <1>3
     DEF IInv, TypeOK, WritesInShape, OneAccountPerMailbox, WritesStayAuthorized, TokensKeepTheirScope

\* MayChange looks at no field of the row but its platform.
LEMMA SamePlatform ==
  ASSUME NEW t, NEW u, NEW row, NEW next, NEW change, MayChange(t, u, row, change),
         next.platform_id = row.platform_id
  PROVE  MayChange(t, u, next, change)
BY DEF MayChange, Authorized

LEMMA StepInvariant == IInv /\ [Next]_vars => IInv'
<1> SUFFICES ASSUME IInv, [Next]_vars PROVE IInv'
  OBVIOUS
<1>1. /\ users' \in [UserIds -> UserRow \cup {NULL}]
      /\ RowsStay
      /\ OneAccountPerMailbox'
  BY UserEffects, UsersStay DEF IInv
<1>2. CallsEffect
  BY CallEffects DEF IInv
<1>3. \A h \in Handlers : MayGoOn(userCalls[h])
  BY DEF IInv, WritesInShape, WritesStayAuthorized, MayGoOn, At
<1>4. userCalls' \in [Handlers -> Call]
  BY <1>2 DEF CallsEffect, IInv, TypeOK
<1>5. ASSUME NEW h \in Handlers
      PROVE  MayGoOn(userCalls'[h])
  <2>1. CASE UNCHANGED userCalls
    BY <1>3, <2>1
  <2>2. ASSUME NEW k \in Handlers, NEW c \in Call, MayGoOn(c),
               userCalls' = [userCalls EXCEPT ![k] = c]
        PROVE  MayGoOn(userCalls'[h])
    BY <1>3, <2>2 DEF IInv, TypeOK
  <2>3. QED
    BY <1>2, <2>1, <2>2 DEF CallsEffect
<1>6. WritesInShape' /\ WritesStayAuthorized'
  <2>1. ASSUME NEW c, MayGoOn(c), c.pc = "write"
        PROVE  /\ c.target \in UserIds /\ c.change \in Change
               /\ users'[c.target] # NULL
               /\ MayChange(c.caller, c.target, users'[c.target], c.change)
    BY <1>1, <2>1, SamePlatform DEF MayGoOn, RowsStay, IsUser
  <2>2. ASSUME NEW h \in Handlers, userCalls'[h].pc = "write"
        PROVE  /\ userCalls'[h].target \in UserIds /\ userCalls'[h].change \in Change
               /\ users'[userCalls'[h].target] # NULL
               /\ MayChange(userCalls'[h].caller, userCalls'[h].target,
                            users'[userCalls'[h].target], userCalls'[h].change)
    BY <1>5, <2>1, <2>2
  <2>3. WritesInShape'
    BY <2>2 DEF WritesInShape, At
  <2>4. WritesStayAuthorized'
    BY <2>2 DEF WritesStayAuthorized, IsUser, At
  <2>5. QED
    BY <2>3, <2>4
<1>7. TokensKeepTheirScope' /\ (userTokens \subseteq UserClaims)'
  <2>1. ASSUME NEW t \in userTokens'
        PROVE  t \in UserClaims /\ IsUser(t.sub) /\ t.platform_id = users[t.sub].platform_id
    <3>1. CASE t \in userTokens
      BY <3>1 DEF IInv, TypeOK, TokensKeepTheirScope
    <3>2. ASSUME NEW u \in UserIds, IsUser(u), t = ClaimsOf(u)
          PROVE  <2>1!2
      BY <3>2 DEF ClaimsOf, UserClaims, IsUser, IInv, TypeOK, UserRow
    <3>3. QED
      BY <3>1, <3>2, TokenEffects DEF IInv
  <2>2. \A t \in userTokens' : t.sub \in UserIds
    BY <2>1 DEF UserClaims
  <2>3. QED
    BY <1>1, <2>1, <2>2 DEF TokensKeepTheirScope, RowsStay, IsUser
<1>8. QED
  BY <1>1, <1>4, <1>6, <1>7 DEF IInv, TypeOK

LEMMA Invariant == Spec => []IInv
BY InitInvariant, StepInvariant, PTL DEF Spec

-----------------------------------------------------------------------------
(* Theorems *)

\* The table, the calls and the tokens hold what the code can store there.
THEOREM TypeCorrect == Spec => []TypeOK
<1>1. IInv => TypeOK
  BY DEF IInv
<1>2. QED
  BY <1>1, Invariant, PTL

\* However Register and the email change of Update race, a mailbox has one
\* user account.
THEOREM MailboxesAreUnique == Spec => []OneAccountPerMailbox
<1>1. IInv => OneAccountPerMailbox
  BY DEF IInv
<1>2. QED
  BY <1>1, Invariant, PTL

\* Update reads, decides, and writes later: the decision still holds then.
THEOREM ChecksStayValid == Spec => []WritesStayAuthorized
<1>1. IInv => WritesStayAuthorized
  BY DEF IInv
<1>2. QED
  BY <1>1, Invariant, PTL

\* A token's platform is its user's platform for as long as it decodes.
THEOREM ScopesAreCurrent == Spec => []TokensKeepTheirScope
<1>1. IInv => TokensKeepTheirScope
  BY DEF IInv
<1>2. QED
  BY <1>1, Invariant, PTL

\* Overlapping updates of one row do not undo each other.
THEOREM UpdatesSurvive == Spec => NoLostUpdate
<1> DEFINE Kept ==
      \A u \in UserIds : IsUser(u) /\ users'[u] # users[u] =>
        \E h \in Handlers :
          LET c == userCalls[h] IN
          /\ Answers(h, u)
          /\ users'[u].platform_id = users[u].platform_id
          /\ \A f \in UserFields : users'[u][f] \in {users[u][f], c.change[f]} \ {NULL}
<1>1. ASSUME IInv, [Next]_vars, NEW u \in UserIds, IsUser(u), users'[u] # users[u]
      PROVE  \E h \in Handlers :
               LET c == userCalls[h] IN
               /\ Answers(h, u)
               /\ users'[u].platform_id = users[u].platform_id
               /\ \A f \in UserFields : users'[u][f] \in {users[u][f], c.change[f]} \ {NULL}
  <2>1. PICK h \in Handlers : Writes(h)
    BY <1>1, UserEffects DEF UsersEffect, Inserts, InsertUser, IInv, TypeOK
  <2> DEFINE n == userCalls[h].target
             change == userCalls[h].change
  <2>2. n \in UserIds /\ change \in Change /\ IsUser(n) /\ users[n] \in UserRow
    BY <1>1, <2>1 DEF Writes, IInv, TypeOK, WritesInShape, WritesStayAuthorized, At, IsUser
  <2>3. n = u /\ users'[u] = Changed(users[u], change)
    BY <1>1, <2>1, <2>2 DEF Writes, IInv, TypeOK
  <2>4. \A f \in UserFields : users'[u][f] \in {users[u][f], change[f]} \ {NULL}
    <3>1. PICK old, next : /\ old \in UserRow /\ old = users[u]
                           /\ next = Changed(old, change) /\ next = users'[u]
      BY <2>2, <2>3
    <3>2. next.email \in {old.email, change.email} \ {NULL}
      BY <2>2, <3>1, NullIsNoValue DEF Changed, Given, UserRow, Change
    <3>3. next.password \in {old.password, change.password} \ {NULL}
      BY <2>2, <3>1, NullIsNoValue DEF Changed, Given, UserRow, Change
    <3>4. next.first_name \in {old.first_name, change.first_name} \ {NULL}
      BY <2>2, <3>1, NullIsNoValue DEF Changed, Given, UserRow, Change
    <3>5. next.is_active \in {old.is_active, change.is_active} \ {NULL}
      BY <2>2, <3>1, NullIsNoValue DEF Changed, Given, UserRow, Change
    <3>6. QED
      BY <3>1, <3>2, <3>3, <3>4, <3>5 DEF UserFields
  <2>5. users'[u].platform_id = users[u].platform_id
    BY <2>2, <2>3, ChangedRow
  <2>6. QED
    BY <2>1, <2>3, <2>4, <2>5 DEF Writes, Answers, At
<1>2. IInv /\ [Next]_vars => [Kept]_vars
  BY <1>1
<1>3. QED
  BY <1>2, Invariant, PTL DEF Spec, NoLostUpdate

\* is_active changes only in an update that asked for it, by an admin of the
\* user's platform or a superadmin.
THEOREM OthersSwitchAccounts == Spec => OnlyAdminsSwitchAccounts
<1> DEFINE Switched ==
      \A u \in UserIds :
        IsUser(u) /\ users'[u].is_active # users[u].is_active =>
          \E h \in Handlers :
            /\ Answers(h, u)
            /\ users'[u].is_active = userCalls[h].change.is_active
            /\ LET t == userCalls[h].caller IN
               \/ t.role = "superadmin"
               \/ t.role = "admin" /\ t.platform_id = users[u].platform_id
<1>1. ASSUME IInv, [Next]_vars, NEW u \in UserIds, IsUser(u),
             users'[u].is_active # users[u].is_active
      PROVE  \E h \in Handlers :
               /\ Answers(h, u)
               /\ users'[u].is_active = userCalls[h].change.is_active
               /\ LET t == userCalls[h].caller IN
                  \/ t.role = "superadmin"
                  \/ t.role = "admin" /\ t.platform_id = users[u].platform_id
  <2>1. PICK h \in Handlers : Writes(h)
    BY <1>1, UserEffects DEF UsersEffect, Inserts, InsertUser, IInv, TypeOK
  <2> DEFINE c == userCalls[h]
  <2>2. /\ At(h, "write") /\ c.target \in UserIds
        /\ MayChange(c.caller, c.target, users[c.target], c.change)
    BY <1>1, <2>1 DEF Writes, IInv, WritesInShape, WritesStayAuthorized, At
  <2>3. c.target = u /\ users'[u] = Changed(users[u], c.change)
    BY <1>1, <2>1, <2>2 DEF Writes, IInv, TypeOK
  <2>4. c.change.is_active # NULL /\ users'[u].is_active = c.change.is_active
    <3>1. users[u] \in UserRow
      BY <1>1 DEF IInv, TypeOK, IsUser
    <3>2. QED
      BY <1>1, <2>3, <3>1 DEF Changed, Given, UserRow
  <2>5. Answers(h, u)
    BY <2>1, <2>2, <2>3 DEF Answers, Writes
  <2>6. QED
    BY <2>2, <2>3, <2>4, <2>5 DEF MayChange, Authorized, MayGive
<1>2. IInv /\ [Next]_vars => [Switched]_vars
  BY <1>1
<1>3. QED
  BY <1>2, Invariant, PTL DEF Spec, OnlyAdminsSwitchAccounts

\* No user row disappears or moves to another platform, so that reads may take
\* the platform of a user as constant.
THEOREM RowsStand == Spec => [][RowsStay]_vars
<1>1. IInv /\ [Next]_vars => RowsStay
  BY UserEffects, UsersStay DEF IInv
<1>2. QED
  BY <1>1, Invariant, PTL DEF Spec
=============================================================================
