-------------------------- MODULE OnboardingProofs --------------------------
(***************************************************************************)
(* The safety of onboarding for every number of handlers, rows, mailboxes  *)
(* and platforms, with and without faults.                                 *)
(*                                                                         *)
(* The argument: what a step does to the tables is one of a few statements *)
(* (TableEffects), each of which keeps the rows that are there (RowsStay). *)
(* What a handler carries from one statement to the next is CallSound.     *)
(***************************************************************************)
EXTENDS Onboarding, TLAPS

\* The account a Register asks for is there.
HasAccount(c) ==
  \E a \in AdminIds :
    /\ IsAdmin(a)
    /\ Mailbox(admins[a].email) = Mailbox(c.email)
    /\ admins[a].platform_id = NewAdmin(c).platform_id

InviteMatches(c) ==
  Issued(c.invite) /\ Mailbox(invites[c.invite].email) = Mailbox(c.email)

\* What a handler may rely on when it resumes: the invite it found was issued
\* to the mailbox it registers, and once it goes on to mark that invite, or
\* has answered OK, the account is there.
CallSound(c) ==
  /\ c.pc \in {"lookup", "create", "mark"} => c.op = "Register" /\ c.email \in Emails
  /\ c.pc = "write" => c.op = "Update"
  /\ c.pc \in {"lookup", "mark"} => ~IsSuper(c.email)
  /\ c.pc = "create" => PlatformConsistent(NewAdmin(c))
  /\ c.pc = "create" => (IsSuper(c.email) <=> c.invite = NULL)
  /\ c.pc = "mark" => c.invite # NULL /\ HasAccount(c)
  /\ c.pc \in {"create", "mark"} /\ c.invite # NULL => InviteMatches(c)
  /\ c.pc = "done" /\ c.op = "Register" /\ c.reply \in {"OK", "ALREADY_EXISTS"}
       => HasAccount(c)

CallsSound == \A h \in Handlers : CallSound(calls[h])

\* The CHECK of the table: exactly the superadmins have no platform.
RowsConsistent == \A a \in AdminIds : IsAdmin(a) => PlatformConsistent(admins[a])

\* The inductive invariant: the properties themselves, and what ties the
\* handlers between two statements to the rows.
IInv ==
  /\ TypeOK
  /\ CallsSound
  /\ RowsConsistent
  /\ InvitedBeforeAdmitted
  /\ UsedInviteHasAccount
  /\ OneSuperadmin
  /\ OneAccountPerPlatform
  /\ TokensMatchRows
  /\ InvitersAreSuperadmins

-----------------------------------------------------------------------------
(* What a step does to the tables *)

\* The INSERT of a Register that no index and no foreign key rejects.
Admits(h) ==
  /\ calls[h].pc = "create"
  /\ ~AdminConflict(NewAdmin(calls[h]))
  /\ PlatformExists(NewAdmin(calls[h]).platform_id)
  /\ InsertAdmin(NewAdmin(calls[h]))

AdminsEffect == UNCHANGED admins \/ \E h \in Handlers : Admits(h)

Marks(h) == calls[h].pc = "mark" /\ SetInviteUsed(calls[h].invite)

Issues(t, r) ==
  /\ t.is_superadmin
  /\ r.platform_id \in Platforms
  /\ InsertInvite(r.email, t.sub, r.platform_id)

InvitesEffect ==
  \/ UNCHANGED invites
  \/ \E h \in Handlers : Marks(h)
  \/ \E t \in tokens, r \in CreateRequests : Issues(t, r)
  \/ \E i \in InviteIds : IsInvite(i) /\ RemoveInvite(i)

\* A step is one of these statements, on one of the tables.
StatementEffect ==
  /\ AdminsEffect
  /\ InvitesEffect
  /\ UNCHANGED admins \/ UNCHANGED invites

\* Next does nothing else to the tables.
LEMMA TableEffects == [Next]_vars => StatementEffect
<1> SUFFICES ASSUME [Next]_vars PROVE StatementEffect
  OBVIOUS
<1> USE DEF StatementEffect, AdminsEffect, InvitesEffect, tables
<1>1. CASE UNCHANGED vars
  BY <1>1 DEF vars
<1>2. ASSUME NEW h \in Handlers, Requests(h)
      PROVE  UNCHANGED tables
  BY <1>2 DEF Requests, ReceiveRegister, Login, ReceiveUpdate
<1>3. ASSUME NEW h \in Handlers, HandlerStep(h)
      PROVE  StatementEffect
  <2>1. CASE CheckInvite(h)
    BY <2>1 DEF CheckInvite
  <2>2. CASE CreateAdmin(h)
    BY <2>2 DEF CreateAdmin, Admits, At
  <2>3. CASE MarkInvite(h)
    BY <2>3 DEF MarkInvite, Marks, At
  <2>4. CASE UpdateAdmin(h)
    BY <2>4 DEF UpdateAdmin
  <2>5. QED
    BY <1>3, <2>1, <2>2, <2>3, <2>4 DEF HandlerStep
<1>4. ASSUME NEW h \in Handlers, StatementFails(h)
      PROVE  StatementEffect
  BY <1>4 DEF StatementFails, Admits, At
<1>5. ASSUME NEW h \in Handlers, Abandon(h) \/ Collect(h)
      PROVE  UNCHANGED tables
  BY <1>5 DEF Abandon, Collect
<1>6. ASSUME NEW t \in tokens, ExpireToken(t)
      PROVE  UNCHANGED tables
  BY <1>6 DEF ExpireToken
<1>7. CASE InviteServiceNext
  <2>1. ASSUME NEW t \in tokens, NEW r \in CreateRequests, CreateInvite(t, r)
        PROVE  StatementEffect
    BY <2>1 DEF CreateInvite, Issues, SuperadminToken
  <2>2. ASSUME NEW t \in tokens, NEW i \in InviteIds \cup {NULL}, NEW p \in DeleteScopes,
               DeleteInvite(t, i, p)
        PROVE  StatementEffect
    BY <2>2 DEF DeleteInvite
  <2>3. ASSUME NEW t \in tokens, InviteStatementFails(t)
        PROVE  StatementEffect
    <3>1. t.is_superadmin /\ UNCHANGED admins
      BY <2>3 DEF InviteStatementFails, SuperadminToken
    <3>2. CASE \E r \in CreateRequests :
                 r.platform_id \in Platforms /\ InsertInvite(r.email, t.sub, r.platform_id)
      BY <3>1, <3>2 DEF Issues
    <3>3. CASE \E i \in InviteIds : IsInvite(i) /\ RemoveInvite(i)
      BY <3>1, <3>3
    <3>4. UNCHANGED invites \/ <3>2!1 \/ <3>3!1
      BY <2>3 DEF InviteStatementFails
    <3>5. QED
      BY <3>1, <3>2, <3>3, <3>4
  <2>4. CASE CollectInvite
    BY <2>4 DEF CollectInvite
  <2>5. QED
    BY <1>7, <2>1, <2>2, <2>3, <2>4 DEF InviteServiceNext
<1>8. QED
  BY <1>1, <1>2, <1>3, <1>4, <1>5, <1>6, <1>7 DEF Next, AdminServiceNext

\* The row a Register inserts is well formed.
LEMMA NewAdminRow ==
  ASSUME TypeOK, CallsSound, NEW h \in Handlers, calls[h].pc = "create"
  PROVE  /\ NewAdmin(calls[h]) \in AdminRow
         /\ NewAdmin(calls[h]).email = calls[h].email
         /\ NewAdmin(calls[h]).is_superadmin <=> IsSuper(calls[h].email)
         /\ NewAdmin(calls[h]).is_superadmin <=> NewAdmin(calls[h]).platform_id = NULL
<1>1. calls[h] \in Call /\ calls[h].email \in Emails
  BY DEF TypeOK, AdminServiceTypeOK, CallsSound, CallSound
<1>2. PlatformConsistent(NewAdmin(calls[h]))
  BY DEF CallsSound, CallSound
<1>3. IsSuper(calls[h].email) \in BOOLEAN
  BY DEF IsSuper
<1>4. NewAdmin(calls[h]) \in AdminRow
  BY <1>1, <1>3 DEF NewAdmin, AdminRow, Call
<1>5. QED
  BY <1>2, <1>4 DEF NewAdmin, PlatformConsistent

\* Rows are only added; of an invite only the two marks change.
RowsStay ==
  /\ \A a \in AdminIds : IsAdmin(a) => admins'[a] = admins[a]
  /\ \A i \in InviteIds : Issued(i) =>
       /\ invites'[i] # NULL
       /\ invites'[i].email = invites[i].email
       /\ invites'[i].inviter_id = invites[i].inviter_id

LEMMA TablesStay ==
  ASSUME TypeOK, CallsSound, TokensMatchRows, AdminsEffect, InvitesEffect
  PROVE  TablesTypeOK' /\ RowsStay
<1> USE NullIsNoRow, TablesAssumption
<1>1. /\ admins' \in [AdminIds -> AdminRow \cup {NULL}]
      /\ \A a \in AdminIds : IsAdmin(a) => admins'[a] = admins[a]
  <2>1. CASE UNCHANGED admins
    BY <2>1 DEF TypeOK, TablesTypeOK
  <2>2. ASSUME NEW h \in Handlers, Admits(h)
        PROVE  <1>1!:
    BY <2>2, NewAdminRow DEF Admits, InsertAdmin, TypeOK, TablesTypeOK, IsAdmin
  <2>3. QED
    BY <2>1, <2>2 DEF AdminsEffect
<1>2. /\ invites' \in [InviteIds -> InviteRow \cup {NULL}]
      /\ \A i \in InviteIds : Issued(i) =>
           /\ invites'[i] # NULL
           /\ invites'[i].email = invites[i].email
           /\ invites'[i].inviter_id = invites[i].inviter_id
  <2>1. CASE UNCHANGED invites
    BY <2>1 DEF TypeOK, TablesTypeOK, Issued
  <2>2. ASSUME NEW h \in Handlers, Marks(h)
        PROVE  <1>2!:
    <3>1. calls[h].invite \in InviteIds
      BY <2>2 DEF Marks, CallsSound, CallSound, TypeOK, AdminServiceTypeOK, Call
    <3>2. QED
      BY <2>2, <3>1 DEF Marks, SetInviteUsed, TypeOK, TablesTypeOK, IsInvite, Issued, InviteRow
  <2>3. ASSUME NEW t \in tokens, NEW r \in CreateRequests, Issues(t, r)
        PROVE  <1>2!:
    <3>1. t.sub \in AdminIds
      BY DEF TypeOK, AdminServiceTypeOK, Claims
    <3>2. r.email \in Emails /\ r.platform_id \in PlatformIds
      BY <2>3, InviteServiceAssumption DEF Issues
    <3>3. [email |-> r.email, inviter_id |-> t.sub, platform_id |-> r.platform_id,
           is_used |-> FALSE, deleted |-> FALSE] \in InviteRow
      BY <3>1, <3>2 DEF InviteRow
    <3>4. QED
      BY <2>3, <3>3 DEF Issues, InsertInvite, TypeOK, TablesTypeOK, Issued
  <2>4. ASSUME NEW i \in InviteIds, IsInvite(i), RemoveInvite(i)
        PROVE  <1>2!:
    BY <2>4 DEF RemoveInvite, TypeOK, TablesTypeOK, IsInvite, Issued, InviteRow
  <2>5. QED
    BY <2>1, <2>2, <2>3, <2>4 DEF InvitesEffect
<1>3. QED
  BY <1>1, <1>2 DEF TablesTypeOK, RowsStay

-----------------------------------------------------------------------------
(* What a step does to the calls and the tokens *)

\* One handler moves on to a call it may rely on.
CallsEffect ==
  \/ UNCHANGED calls
  \/ \E h \in Handlers, c \in Call :
       CallSound(c)' /\ calls' = [calls EXCEPT ![h] = c]

TokensEffect ==
  \A t \in tokens' :
    t \in tokens \/ \E a \in AdminIds : IsAdmin(a) /\ t = ClaimsOf(a)

\* What HasAccount and InviteMatches say stays true, because rows stay.
LEMMA AccountsStay ==
  ASSUME RowsStay
  PROVE  /\ \A c \in Call : HasAccount(c) => HasAccount(c)'
         /\ \A c \in Call : c.invite \in InviteIds /\ InviteMatches(c) => InviteMatches(c)'
BY DEF RowsStay, HasAccount, InviteMatches, IsAdmin, Issued, Mailbox, NewAdmin, IsSuper

\* An answer is sound if it does not claim an account, or the account is there.
LEMMA Answered ==
  ASSUME TypeOK, NEW h \in Handlers, NEW d \in Call, d = calls[h],
         NEW status \in Replies, Answer(h, status),
         d.op # "Register" \/ status \notin {"OK", "ALREADY_EXISTS"} \/ HasAccount(d)'
  PROVE  CallsEffect
<1>1. PICK c \in Call : c = [d EXCEPT !.pc = "done", !.reply = status]
  BY DEF Call
<1>2. c.pc = "done" /\ c.reply = status /\ c.op = d.op
  BY <1>1 DEF Call
<1>3. c.email = d.email /\ c.platform_id = d.platform_id
  BY <1>1 DEF Call
<1>4. calls' = [calls EXCEPT ![h] = c]
  BY <1>1 DEF Answer, Call, TypeOK, AdminServiceTypeOK
<1>5. HasAccount(d)' => HasAccount(c)'
  BY <1>3 DEF HasAccount, NewAdmin
<1>6. CallSound(c)'
  BY <1>2, <1>5 DEF CallSound
<1>7. QED
  BY <1>4, <1>6 DEF CallsEffect

LEMMA NoCallSound == NoCall \in Call /\ CallSound(NoCall)'
BY DEF NoCall, Call, Replies, CallSound

\* The requests start a call, or answer it at once.
LEMMA RequestsSound ==
  ASSUME TypeOK, NEW h \in Handlers, Requests(h)
  PROVE  CallsEffect
<1> USE DEF CallsEffect
<1>1. ASSUME NEW r \in RegisterRequests, ReceiveRegister(h, r)
      PROVE  CallsEffect
  <2>1. r.email \in Emails /\ r.platform_id \in PlatformArguments /\ r.valid \in BOOLEAN
    BY AdminServiceAssumption
  <2>2. PICK d : d = [NoCall EXCEPT !.op = "Register", !.email = r.email, !.valid = r.valid,
                        !.platform_id = IF r.platform_id = Malformed THEN NULL
                                        ELSE r.platform_id]
    OBVIOUS
  <2>3. d \in Call /\ d.op = "Register" /\ d.email = r.email /\ d.invite = NULL
    BY <2>1, <2>2 DEF NoCall, Call, Replies, PlatformArguments
  <2>4. \E pc \in {"lookup", "create", "done"}, status \in {"none", "INVALID_ARGUMENT"} :
          /\ calls' = [calls EXCEPT ![h] = [d EXCEPT !.pc = pc, !.reply = status]]
          /\ pc = "lookup" => ~IsSuper(r.email)
          /\ pc = "create" => IsSuper(r.email) /\ Accepted(d)
    BY <1>1, <2>2 DEF ReceiveRegister
  <2>5. PICK pc \in {"lookup", "create", "done"}, status \in {"none", "INVALID_ARGUMENT"} :
          <2>4!(pc, status)
    BY <2>4
  <2>6. PICK c \in Call : c = [d EXCEPT !.pc = pc, !.reply = status]
    BY <2>3 DEF Call, Replies
  <2>7. c.pc = pc /\ c.op = "Register" /\ c.email = r.email /\ c.invite = NULL /\ c.reply = status
    BY <2>3, <2>6 DEF Call
  <2>8. NewAdmin(c) = NewAdmin(d)
    BY <2>3, <2>6 DEF NewAdmin, Call
  <2>9. CallSound(c)'
    BY <2>1, <2>5, <2>7, <2>8 DEF CallSound, Accepted
  <2>10. QED
    BY <2>5, <2>6, <2>9
<1>2. ASSUME NEW r \in LoginRequests, Login(h, r)
      PROVE  CallsEffect
  <2>1. r.email \in Emails
    BY AdminServiceAssumption
  <2>2. PICK status \in Replies :
          calls' = [calls EXCEPT ![h] = [NoCall EXCEPT !.op = "Login", !.pc = "done",
                                           !.email = r.email, !.reply = status]]
    BY <1>2 DEF Login, LoginStatus, Replies
  <2>3. PICK c \in Call : c = [NoCall EXCEPT !.op = "Login", !.pc = "done",
                                 !.email = r.email, !.reply = status]
    BY <2>1 DEF NoCall, Call, Replies
  <2>4. c.pc = "done" /\ c.op = "Login"
    BY <2>3 DEF NoCall
  <2>5. CallSound(c)'
    BY <2>4 DEF CallSound
  <2>6. QED
    BY <2>2, <2>3, <2>5
<1>3. ASSUME NEW t \in tokens, NEW a \in AdminIds, NEW r \in UpdateRequests,
             ReceiveUpdate(h, t, a, r)
      PROVE  CallsEffect
  <2>1. r.fields \in SUBSET AdminFields
    BY AdminServiceAssumption
  <2>2. PICK d : d = [NoCall EXCEPT !.op = "Update", !.target = a, !.fields = r.fields]
    OBVIOUS
  <2>3. d \in Call /\ d.op = "Update"
    BY <2>1, <2>2 DEF NoCall, Call, Replies
  <2>4. PICK pc \in {"write", "done"}, status \in Replies :
          calls' = [calls EXCEPT ![h] = [d EXCEPT !.pc = pc, !.reply = status]]
    BY <1>3, <2>2 DEF ReceiveUpdate, Replies
  <2>5. PICK c \in Call : c = [d EXCEPT !.pc = pc, !.reply = status]
    BY <2>3 DEF Call
  <2>6. c.pc = pc /\ c.op = "Update"
    BY <2>3, <2>5 DEF Call
  <2>7. CallSound(c)'
    BY <2>6 DEF CallSound
  <2>8. QED
    BY <2>4, <2>5, <2>7
<1>4. QED
  BY <1>1, <1>2, <1>3 DEF Requests

\* The statements of a call, failed or not, move it on.
LEMMA StatementsSound ==
  ASSUME IInv, RowsStay, NEW h \in Handlers, HandlerStep(h) \/ StatementFails(h)
  PROVE  CallsEffect
<1>1. PICK d \in Call : d = calls[h]
  BY DEF IInv, TypeOK, AdminServiceTypeOK
<1>2. CallSound(d) /\ TypeOK
  BY <1>1 DEF IInv, CallsSound
<1>3. HasAccount(d) => HasAccount(d)'
  BY AccountsStay
<1>4. d.invite \in InviteIds /\ InviteMatches(d) => InviteMatches(d)'
  BY AccountsStay
<1>5. ASSUME InsertAdmin(NewAdmin(d)), d.pc = "create"
      PROVE  HasAccount(d)'
  <2>1. PICK a \in AdminIds : ~IsAdmin(a) /\ admins' = [admins EXCEPT ![a] = NewAdmin(d)]
    BY <1>5 DEF InsertAdmin
  <2>2. admins'[a] = NewAdmin(d)
    BY <2>1 DEF IInv, TypeOK, TablesTypeOK
  <2>3. NewAdmin(d) # NULL
    BY <1>1, <1>5, <2>1, NewAdminRow, NullIsNoRow DEF IInv
  <2>4. QED
    BY <2>2, <2>3 DEF HasAccount, IsAdmin, NewAdmin
<1>6. CASE CheckInvite(h)
  <2>1. d.pc = "lookup"
    BY <1>1, <1>6 DEF CheckInvite, At
  <2>2. CASE Answer(h, "PERMISSION_DENIED") \/ Answer(h, "INVALID_ARGUMENT")
    BY <1>1, <1>2, <2>2, Answered DEF Replies
  <2>3. ASSUME NEW i \in ValidInvites(d.email), Accepted(d),
               calls' = [calls EXCEPT ![h].pc = "create", ![h].invite = i],
               UNCHANGED tables
        PROVE  CallsEffect
    <3>1. /\ i \in InviteIds /\ Issued(i) /\ i # NULL
          /\ Mailbox(invites[i].email) = Mailbox(d.email)
      BY <2>3, TablesAssumption DEF ValidInvites, IsInvite
    <3>2. PICK c \in Call : c = [d EXCEPT !.pc = "create", !.invite = i]
      BY <3>1 DEF Call
    <3>3. /\ c.pc = "create" /\ c.invite = i /\ c.op = d.op /\ c.email = d.email
          /\ NewAdmin(c) = NewAdmin(d)
      BY <3>2 DEF Call, NewAdmin
    <3>4. calls' = [calls EXCEPT ![h] = c]
      BY <1>1, <2>3, <3>2 DEF Call, IInv, TypeOK, AdminServiceTypeOK
    <3>5. InviteMatches(c)'
      BY <2>3, <3>1, <3>3 DEF InviteMatches, tables, Issued
    <3>6. CallSound(c)'
      BY <1>2, <2>1, <2>3, <3>1, <3>3, <3>5 DEF CallSound, Accepted
    <3>7. QED
      BY <3>4, <3>6 DEF CallsEffect
  <2>4. QED
    BY <1>1, <1>6, <2>2, <2>3 DEF CheckInvite
<1>7. ASSUME d.pc = "create", calls' = [calls EXCEPT ![h].pc = "mark"], d.invite # NULL,
             HasAccount(d)'
      PROVE  CallsEffect
  <2>1. d.invite \in InviteIds /\ InviteMatches(d)'
    BY <1>2, <1>4, <1>7 DEF CallSound, Call
  <2>2. PICK c \in Call : c = [d EXCEPT !.pc = "mark"]
    BY DEF Call
  <2>3. /\ c.pc = "mark" /\ c.invite = d.invite /\ c.op = d.op /\ c.email = d.email
        /\ c.platform_id = d.platform_id
    BY <2>2 DEF Call
  <2>4. calls' = [calls EXCEPT ![h] = c]
    BY <1>1, <1>7, <2>2 DEF Call, IInv, TypeOK, AdminServiceTypeOK
  <2>5. HasAccount(c)' /\ InviteMatches(c)'
    BY <1>7, <2>1, <2>3 DEF HasAccount, InviteMatches, NewAdmin
  <2>6. CallSound(c)'
    BY <1>2, <1>7, <2>3, <2>5 DEF CallSound
  <2>7. QED
    BY <2>4, <2>6 DEF CallsEffect
<1>8. CASE CreateAdmin(h)
  <2>1. d.pc = "create"
    BY <1>1, <1>8 DEF CreateAdmin, At
  <2>2. CASE AdminConflict(NewAdmin(d)) /\ Answer(h, "ALREADY_EXISTS")
    <3>1. HasAccount(d)
      BY <1>1, <2>1, <2>2, NewAdminRow, TablesAssumption
         DEF HasAccount, AdminConflict, SameSilo, IInv, RowsConsistent, PlatformConsistent
    <3>2. QED
      BY <1>1, <1>2, <1>3, <2>2, <3>1, Answered DEF Replies
  <2>3. CASE Answer(h, "UNKNOWN")
    BY <1>1, <1>2, <2>3, Answered DEF Replies
  <2>4. CASE InsertAdmin(NewAdmin(d)) /\ Answer(h, "OK")
    BY <1>1, <1>2, <1>5, <2>1, <2>4, Answered DEF Replies
  <2>5. CASE /\ InsertAdmin(NewAdmin(d)) /\ d.invite # NULL
             /\ calls' = [calls EXCEPT ![h].pc = "mark"]
    BY <1>5, <1>7, <2>1, <2>5
  <2>6. QED
    BY <1>1, <1>8, <2>2, <2>3, <2>4, <2>5 DEF CreateAdmin
<1>9. CASE MarkInvite(h)
  <2>1. d.pc = "mark" /\ Answer(h, "OK")
    BY <1>1, <1>9 DEF MarkInvite, At
  <2>2. QED
    BY <1>1, <1>2, <1>3, <2>1, Answered DEF CallSound, Replies
<1>10. CASE UpdateAdmin(h)
  <2>1. d.op = "Update" /\ \E status \in Replies : Answer(h, status)
    BY <1>1, <1>2, <1>10 DEF UpdateAdmin, At, CallSound, Replies
  <2>2. QED
    BY <1>1, <1>2, <2>1, Answered
<1>11. CASE StatementFails(h)
  <2>1. CASE Answer(h, "UNKNOWN")
    BY <1>1, <1>2, <2>1, Answered DEF Replies
  <2>2. CASE d.pc = "mark" /\ Answer(h, "OK")
    BY <1>1, <1>2, <1>3, <2>2, Answered DEF CallSound, Replies
  <2>3. QED
    BY <1>1, <1>11, <2>1, <2>2 DEF StatementFails, At
<1>12. QED
  BY <1>6, <1>8, <1>9, <1>10, <1>11 DEF HandlerStep

LEMMA CallEffects ==
  ASSUME IInv, RowsStay, [Next]_vars
  PROVE  CallsEffect
<1>1. ASSUME NEW h \in Handlers, Abandon(h) \/ Collect(h)
      PROVE  CallsEffect
  BY <1>1, NoCallSound DEF Abandon, Collect, CallsEffect
<1>2. ASSUME UNCHANGED calls
      PROVE  CallsEffect
  BY <1>2 DEF CallsEffect
<1>3. CASE InviteServiceNext
  BY <1>2, <1>3 DEF InviteServiceNext, CreateInvite, DeleteInvite, InviteStatementFails,
                    CollectInvite, adminServiceVars
<1>4. CASE AdminServiceNext
  <2>1. ASSUME NEW t \in tokens, ExpireToken(t)
        PROVE  CallsEffect
    BY <1>2, <2>1 DEF ExpireToken
  <2>2. TypeOK
    BY DEF IInv
  <2>3. QED
    BY <1>1, <1>4, <2>1, <2>2, RequestsSound, StatementsSound DEF AdminServiceNext
<1>5. CASE UNCHANGED vars
  BY <1>2, <1>5 DEF vars, adminServiceVars
<1>6. QED
  BY <1>3, <1>4, <1>5 DEF Next

LEMMA TokenEffects == ASSUME [Next]_vars PROVE TokensEffect
<1> USE DEF TokensEffect
<1>1. ASSUME NEW h \in Handlers, NEW r \in LoginRequests, Login(h, r)
      PROVE  TokensEffect
  <2>1. \A a \in LoginRows(r.email, r.platform_id) : a \in AdminIds /\ IsAdmin(a)
    BY DEF LoginRows
  <2>2. QED
    BY <1>1, <2>1 DEF Login
<1>2. ASSUME NEW t \in tokens, ExpireToken(t)
      PROVE  TokensEffect
  BY <1>2 DEF ExpireToken
<1>3. ASSUME NEW h \in Handlers,
             \/ \E r \in RegisterRequests : ReceiveRegister(h, r)
             \/ \E t \in tokens, a \in AdminIds, r \in UpdateRequests : ReceiveUpdate(h, t, a, r)
             \/ HandlerStep(h) \/ StatementFails(h) \/ Abandon(h) \/ Collect(h)
      PROVE  UNCHANGED tokens
  BY <1>3 DEF ReceiveRegister, ReceiveUpdate, HandlerStep, CheckInvite, CreateAdmin, MarkInvite,
              UpdateAdmin, StatementFails, Abandon, Collect
<1>4. CASE AdminServiceNext
  BY <1>1, <1>2, <1>3, <1>4 DEF AdminServiceNext, Requests
<1>5. CASE InviteServiceNext
  BY <1>5 DEF InviteServiceNext, CreateInvite, DeleteInvite, InviteStatementFails,
              CollectInvite, adminServiceVars
<1>6. CASE UNCHANGED vars
  BY <1>6 DEF vars, adminServiceVars
<1>7. QED
  BY <1>4, <1>5, <1>6 DEF Next

-----------------------------------------------------------------------------
(* The invariant is inductive *)

LEMMA InitInvariant == Init => IInv
<1> SUFFICES ASSUME Init PROVE IInv
  OBVIOUS
<1> USE DEF Init, TablesInit, AdminServiceInit, InviteServiceInit
<1>1. \A a \in AdminIds : ~IsAdmin(a)
  BY DEF IsAdmin
<1>2. \A i \in InviteIds : ~Issued(i)
  BY DEF Issued
<1>3. TypeOK
  <2>1. NoCall \in Call
    BY DEF NoCall, Call, Replies
  <2>2. NoInviteCall \in InviteCall
    BY DEF NoInviteCall, InviteCall
  <2>3. QED
    BY <2>1, <2>2 DEF TypeOK, TablesTypeOK, AdminServiceTypeOK, InviteServiceTypeOK
<1>4. CallsSound
  BY DEF CallsSound, CallSound, NoCall
<1>5. QED
  BY <1>1, <1>2, <1>3, <1>4
     DEF IInv, RowsConsistent, InvitedBeforeAdmitted, UsedInviteHasAccount, OneSuperadmin,
         OneAccountPerPlatform, TokensMatchRows, InvitersAreSuperadmins, Members, Superadmins

LEMMA InviteCallStays == ASSUME InviteServiceTypeOK, [Next]_vars PROVE InviteServiceTypeOK'
<1>1. CASE UNCHANGED inviteCall
  BY <1>1 DEF InviteServiceTypeOK
<1>2. ASSUME NEW op \in {"Create", "Delete"}, NEW i \in InviteIds \cup {NULL},
             NEW p \in PlatformIds \cup {NULL}, NEW status \in InviteOutcomes,
             InviteReply(op, i, p, status)
      PROVE  InviteServiceTypeOK'
  BY <1>2 DEF InviteServiceTypeOK, InviteReply, InviteCall
<1>3. ASSUME NEW t \in tokens, NEW r \in CreateRequests, CreateInvite(t, r)
      PROVE  InviteServiceTypeOK'
  BY <1>2, <1>3 DEF CreateInvite, InviteOutcomes
<1>4. ASSUME NEW t \in tokens, NEW i \in InviteIds \cup {NULL}, NEW p \in DeleteScopes,
             DeleteInvite(t, i, p)
      PROVE  InviteServiceTypeOK'
  BY <1>2, <1>4, InviteServiceAssumption DEF DeleteInvite, InviteOutcomes
<1>5. ASSUME NEW t \in tokens, InviteStatementFails(t)
      PROVE  InviteServiceTypeOK'
  BY <1>2, <1>5 DEF InviteStatementFails, InviteOutcomes
<1>6. CASE CollectInvite
  BY <1>6 DEF CollectInvite, InviteServiceTypeOK, NoInviteCall, InviteCall
<1>7. QED
  BY <1>1, <1>3, <1>4, <1>5, <1>6 DEF Next, InviteServiceNext, vars

\* A row that is inserted is the only thing that changes in `admins`.
LEMMA AdmittedRow ==
  ASSUME IInv, NEW h \in Handlers, Admits(h)
  PROVE  \E n \in AdminIds :
           /\ ~IsAdmin(n)
           /\ admins' = [admins EXCEPT ![n] = NewAdmin(calls[h])]
           /\ \A a \in AdminIds : IsAdmin(a)' <=> (IsAdmin(a) \/ a = n)
           /\ \A a \in AdminIds : a # n => admins'[a] = admins[a]
           /\ admins'[n] = NewAdmin(calls[h])
<1>1. PICK n \in AdminIds : ~IsAdmin(n) /\ admins' = [admins EXCEPT ![n] = NewAdmin(calls[h])]
  BY DEF Admits, InsertAdmin
<1>2. NewAdmin(calls[h]) # NULL
  BY NewAdminRow, NullIsNoRow DEF IInv, Admits
<1>3. QED
  BY <1>1, <1>2 DEF IInv, TypeOK, TablesTypeOK, IsAdmin

LEMMA AdminsInvariants ==
  ASSUME IInv, AdminsEffect, RowsStay
  PROVE  (RowsConsistent /\ InvitedBeforeAdmitted /\ OneSuperadmin /\ OneAccountPerPlatform)'
<1>1. CASE UNCHANGED admins
  <2>1. InvitedBeforeAdmitted'
    BY <1>1 DEF IInv, InvitedBeforeAdmitted, Members, InvitesOf, IsAdmin, Issued, RowsStay, Mailbox
  <2>2. QED
    BY <1>1, <2>1 DEF IInv, RowsConsistent, OneSuperadmin, OneAccountPerPlatform, Superadmins,
                      Members, IsAdmin, Mailbox, IsSuper, PlatformConsistent
<1>2. ASSUME NEW h \in Handlers, Admits(h)
      PROVE  (RowsConsistent /\ InvitedBeforeAdmitted /\ OneSuperadmin /\ OneAccountPerPlatform)'
  <2> DEFINE row == NewAdmin(calls[h])
  <2>1. PICK n \in AdminIds :
          /\ ~IsAdmin(n)
          /\ admins' = [admins EXCEPT ![n] = row]
          /\ \A a \in AdminIds : IsAdmin(a)' <=> (IsAdmin(a) \/ a = n)
          /\ \A a \in AdminIds : a # n => admins'[a] = admins[a]
          /\ admins'[n] = row
    BY <1>2, AdmittedRow
  <2>2. /\ row \in AdminRow /\ row.email = calls[h].email
        /\ row.is_superadmin <=> IsSuper(row.email)
        /\ row.is_superadmin <=> row.platform_id = NULL
    BY <1>2, NewAdminRow DEF IInv, Admits
  <2>3. RowsConsistent'
    BY <2>1, <2>2 DEF IInv, RowsConsistent, PlatformConsistent
  <2>4. InvitedBeforeAdmitted'
    <3>1. ~row.is_superadmin => calls[h].invite \in InviteIds /\ InviteMatches(calls[h])
      BY <1>2, <2>2 DEF Admits, IInv, CallsSound, CallSound, TypeOK, AdminServiceTypeOK, Call
    <3>2. \A a \in Members : InvitesOf(Mailbox(admins[a].email)) # {}
      BY DEF IInv, InvitedBeforeAdmitted
    <3>3. ASSUME NEW a \in Members', a # n
          PROVE  InvitesOf(Mailbox(admins[a].email))' # {}
      <4>1. a \in Members /\ admins'[a] = admins[a]
        BY <2>1, <3>3 DEF Members
      <4>2. PICK i \in InviteIds : Issued(i) /\ Mailbox(invites[i].email) = Mailbox(admins[a].email)
        BY <3>2, <4>1 DEF InvitesOf
      <4>3. QED
        BY <4>1, <4>2 DEF InvitesOf, Issued, RowsStay, Mailbox
    <3>4. ~row.is_superadmin => InvitesOf(Mailbox(admins[n].email))' # {}
      BY <2>1, <2>2, <3>1 DEF InviteMatches, InvitesOf, Issued, RowsStay, Mailbox
    <3>5. QED
      BY <2>1, <3>3, <3>4 DEF InvitedBeforeAdmitted, Members, Mailbox
  <2>5. ~AdminConflict(row) /\ PlatformExists(row.platform_id)
    BY <1>2 DEF Admits
  <2>6. OneSuperadmin'
    <3>1. \A a \in AdminIds : IsAdmin(a) => ~SameSilo(row, admins[a])
      BY <2>5 DEF AdminConflict
    <3>2. \A a \in AdminIds : IsAdmin(a) => (admins[a].is_superadmin <=> IsSuper(admins[a].email))
      BY DEF IInv, OneSuperadmin
    <3>3. row.is_superadmin => Superadmins = {}
      BY <2>2, <3>1, <3>2 DEF Superadmins, SameSilo, IsSuper
    <3>4. \A a, b \in Superadmins : a = b
      BY DEF IInv, OneSuperadmin
    <3>5. \A a \in Superadmins' : a \in Superadmins \/ (a = n /\ row.is_superadmin)
      BY <2>1 DEF Superadmins
    <3>6. \A a, b \in Superadmins' : a = b
      BY <3>3, <3>4, <3>5
    <3>7. \A a \in AdminIds : IsAdmin(a)' => (admins'[a].is_superadmin <=> IsSuper(admins'[a].email))
      BY <2>1, <2>2, <3>2
    <3>8. QED
      BY <3>6, <3>7 DEF OneSuperadmin, IsSuper, Mailbox
  <2>7. OneAccountPerPlatform'
    <3>1. \A a \in Members' : (a \in Members /\ admins'[a] = admins[a])
                                \/ (a = n /\ ~row.is_superadmin)
      BY <2>1 DEF Members
    <3>2. \A a \in Members :
            ~row.is_superadmin =>
              ~(/\ Mailbox(admins[a].email) = Mailbox(row.email)
                /\ admins[a].platform_id = row.platform_id)
      BY <2>5, <2>2 DEF AdminConflict, SameSilo, Members, IInv, TypeOK, TablesTypeOK, AdminRow, IsAdmin
    <3>3. ~row.is_superadmin => row.platform_id \in Platforms
      BY <2>2, <2>5 DEF PlatformExists
    <3>4. /\ \A a, b \in Members :
               /\ Mailbox(admins[a].email) = Mailbox(admins[b].email)
               /\ admins[a].platform_id = admins[b].platform_id
               => a = b
          /\ \A a \in Members : admins[a].platform_id \in Platforms
      BY DEF IInv, OneAccountPerPlatform
    <3>5. \A a \in Members' : admins'[a].platform_id \in Platforms
      BY <2>1, <3>1, <3>3, <3>4
    <3>6. ASSUME NEW a \in Members', NEW b \in Members',
                 Mailbox(admins'[a].email) = Mailbox(admins'[b].email),
                 admins'[a].platform_id = admins'[b].platform_id
          PROVE  a = b
      BY <2>1, <3>1, <3>2, <3>4, <3>6
    <3>7. QED
      BY <3>5, <3>6 DEF OneAccountPerPlatform, Mailbox
  <2>8. QED
    BY <2>3, <2>4, <2>6, <2>7
<1>3. QED
  BY <1>1, <1>2 DEF AdminsEffect

\* Accounts and superadmins are never taken away.
LEMMA MembersStay ==
  ASSUME IInv, RowsStay
  PROVE  /\ Members \subseteq Members' /\ Superadmins \subseteq Superadmins'
         /\ \A m : AccountsOf(m) \subseteq AccountsOf(m)'
BY DEF RowsStay, Members, Superadmins, AccountsOf, IsAdmin, Mailbox

\* The account of a Register that goes on to mark its invite counts for the
\* mailbox of that invite: the mailbox is not the superadmin's.
LEMMA MarkedInviteHasAccount ==
  ASSUME IInv, NEW h \in Handlers, calls[h].pc = "mark"
  PROVE  /\ calls[h].invite \in InviteIds /\ Issued(calls[h].invite)
         /\ AccountsOf(Mailbox(invites[calls[h].invite].email)) # {}
<1>1. /\ calls[h].invite \in InviteIds
      /\ InviteMatches(calls[h]) /\ HasAccount(calls[h]) /\ ~IsSuper(calls[h].email)
  BY DEF IInv, TypeOK, AdminServiceTypeOK, Call, CallsSound, CallSound
<1>2. PICK a \in AdminIds : IsAdmin(a) /\ Mailbox(admins[a].email) = Mailbox(calls[h].email)
  BY <1>1 DEF HasAccount
<1>3. a \in Members
  BY <1>1, <1>2 DEF IInv, OneSuperadmin, IsSuper, Members
<1>4. QED
  BY <1>1, <1>2, <1>3 DEF AccountsOf, InviteMatches

LEMMA InvitesInvariants ==
  ASSUME IInv, InvitesEffect, RowsStay
  PROVE  (UsedInviteHasAccount /\ InvitersAreSuperadmins)'
<1> DEFINE Fine(i) ==
      /\ invites'[i].is_used => AccountsOf(Mailbox(invites'[i].email)) # {}
      /\ invites'[i].inviter_id \in Superadmins
<1> USE DEF IInv, TypeOK, TablesTypeOK
<1>1. ASSUME NEW i \in InviteIds, Issued(i)
      PROVE  /\ invites[i].is_used => AccountsOf(Mailbox(invites[i].email)) # {}
             /\ invites[i].inviter_id \in Superadmins
  BY <1>1 DEF UsedInviteHasAccount, InvitersAreSuperadmins
<1>2. ASSUME NEW i \in InviteIds, Issued(i)'
      PROVE  Fine(i)
  <2>1. CASE UNCHANGED invites
    BY <1>1, <1>2, <2>1 DEF Issued
  <2>2. ASSUME NEW h \in Handlers, Marks(h)
        PROVE  Fine(i)
    <3>1. /\ calls[h].invite \in InviteIds /\ Issued(calls[h].invite)
          /\ AccountsOf(Mailbox(invites[calls[h].invite].email)) # {}
      BY <2>2, MarkedInviteHasAccount DEF Marks
    <3>2. CASE i = calls[h].invite
      BY <1>1, <2>2, <3>1, <3>2 DEF Marks, SetInviteUsed, RowsStay
    <3>3. CASE i # calls[h].invite
      BY <1>1, <1>2, <2>2, <3>3 DEF Marks, SetInviteUsed, Issued
    <3>4. QED
      BY <3>2, <3>3
  <2>3. ASSUME NEW t \in tokens, NEW r \in CreateRequests, Issues(t, r)
        PROVE  Fine(i)
    <3>1. t.sub \in Superadmins
      BY <2>3 DEF Issues, TokensMatchRows, ClaimsOf, Superadmins, AdminServiceTypeOK, Claims
    <3>2. QED
      BY <1>1, <1>2, <2>3, <3>1 DEF Issues, InsertInvite, Issued
  <2>4. ASSUME NEW j \in InviteIds, IsInvite(j), RemoveInvite(j)
        PROVE  Fine(i)
    <3>1. Issued(i) /\ invites'[i].is_used = invites[i].is_used
      BY <1>2, <2>4, NullIsNoRow DEF RemoveInvite, IsInvite, Issued, InviteRow
    <3>2. QED
      BY <1>1, <3>1 DEF RowsStay
  <2>5. QED
    BY <2>1, <2>2, <2>3, <2>4 DEF InvitesEffect
<1>3. UsedInviteHasAccount'
  <2>1. \A m : AccountsOf(m) # {} => AccountsOf(m)' # {}
    BY MembersStay
  <2>2. QED
    BY <1>2, <2>1 DEF UsedInviteHasAccount, Mailbox
<1>4. InvitersAreSuperadmins'
  BY <1>2, MembersStay DEF InvitersAreSuperadmins
<1>5. QED
  BY <1>3, <1>4

LEMMA TokensInvariant ==
  ASSUME IInv, TokensEffect, RowsStay
  PROVE  TokensMatchRows' /\ (tokens \subseteq Claims)'
<1>1. ASSUME NEW t \in tokens'
      PROVE  t \in Claims /\ IsAdmin(t.sub) /\ t = ClaimsOf(t.sub)
  <2>1. CASE t \in tokens
    BY <2>1 DEF IInv, TypeOK, AdminServiceTypeOK, TokensMatchRows
  <2>2. ASSUME NEW a \in AdminIds, IsAdmin(a), t = ClaimsOf(a)
        PROVE  <1>1!2
    BY <2>2 DEF ClaimsOf, Claims, IsAdmin, IInv, TypeOK, TablesTypeOK, AdminRow
  <2>3. QED
    BY <2>1, <2>2 DEF TokensEffect
<1>2. \A a \in AdminIds : IsAdmin(a) => IsAdmin(a)' /\ ClaimsOf(a)' = ClaimsOf(a)
  BY DEF RowsStay, IsAdmin, ClaimsOf
<1>3. \A t \in tokens' : t.sub \in AdminIds
  BY <1>1 DEF Claims
<1>4. QED
  BY <1>1, <1>2, <1>3 DEF TokensMatchRows, IsAdmin, ClaimsOf

\* Every step keeps the invariant.
LEMMA StepInvariant == IInv /\ [Next]_vars => IInv'
<1> SUFFICES ASSUME IInv, [Next]_vars PROVE IInv'
  OBVIOUS
<1>1. AdminsEffect /\ InvitesEffect
  BY TableEffects DEF StatementEffect
<1>2. TablesTypeOK' /\ RowsStay
  BY <1>1, TablesStay DEF IInv
<1>3. CallsEffect
  BY <1>2, CallEffects
<1>4. calls' \in [Handlers -> Call] /\ CallsSound'
  <2>1. ASSUME UNCHANGED calls
        PROVE  <1>4!:
    <3>1. calls' \in [Handlers -> Call]
      BY <2>1 DEF IInv, TypeOK, AdminServiceTypeOK
    <3>2. ASSUME NEW h \in Handlers
          PROVE  CallSound(calls[h])'
      <4>1. PICK c \in Call : c = calls[h]
        BY <2>1, <3>1
      <4>2. CallSound(c)
        BY <4>1 DEF IInv, CallsSound
      <4>3. CallSound(c)'
        BY <1>2, <4>2, AccountsStay DEF CallSound, Call
      <4>4. QED
        BY <2>1, <4>1, <4>3
    <3>3. QED
      BY <3>1, <3>2 DEF CallsSound
  <2>2. ASSUME NEW h \in Handlers, NEW c \in Call, CallSound(c)',
               calls' = [calls EXCEPT ![h] = c]
        PROVE  <1>4!:
    <3>1. calls' \in [Handlers -> Call]
      BY <2>2 DEF IInv, TypeOK, AdminServiceTypeOK
    <3>2. ASSUME NEW k \in Handlers
          PROVE  CallSound(calls[k])'
      <4>1. CASE k = h
        <5>1. c = calls'[k]
          BY <2>2, <4>1 DEF IInv, TypeOK, AdminServiceTypeOK
        <5>2. QED
          BY <2>2, <5>1
      <4>2. CASE k # h
        <5>1. PICK d \in Call : d = calls[k] /\ d = calls'[k]
          BY <2>2, <4>2 DEF IInv, TypeOK, AdminServiceTypeOK
        <5>2. CallSound(d)
          BY <5>1 DEF IInv, CallsSound
        <5>3. CallSound(d)'
          BY <1>2, <5>2, AccountsStay DEF CallSound, Call
        <5>4. QED
          BY <5>1, <5>3
      <4>3. QED
        BY <4>1, <4>2
    <3>3. QED
      BY <3>1, <3>2 DEF CallsSound
  <2>3. QED
    BY <1>3, <2>1, <2>2 DEF CallsEffect
<1>5. TokensMatchRows' /\ (tokens \subseteq Claims)'
  BY <1>2, TokenEffects, TokensInvariant
<1>6. InviteServiceTypeOK'
  BY InviteCallStays DEF IInv, TypeOK
<1>7. (RowsConsistent /\ InvitedBeforeAdmitted /\ OneSuperadmin /\ OneAccountPerPlatform)'
  BY <1>1, <1>2, AdminsInvariants
<1>8. (UsedInviteHasAccount /\ InvitersAreSuperadmins)'
  BY <1>1, <1>2, InvitesInvariants
<1>9. TypeOK'
  BY <1>2, <1>4, <1>5, <1>6 DEF TypeOK, AdminServiceTypeOK
<1>10. QED
  BY <1>4, <1>5, <1>7, <1>8, <1>9 DEF IInv

LEMMA Invariant == Spec => []IInv
BY InitInvariant, StepInvariant, PTL DEF Spec

-----------------------------------------------------------------------------
(* Theorems *)

\* Whatever the requests and the faults, the tables, the calls, the tokens
\* and the answers are what the code can store there.
THEOREM TypeCorrect == Spec => []TypeOK
<1>1. IInv => TypeOK
  BY DEF IInv
<1>2. QED
  BY <1>1, Invariant, PTL

\* No interleaving of Register, Create and Delete, and no fault, gives an
\* account to a mailbox that was never invited.
THEOREM OnlyInvitedAreAdmitted == Spec => []InvitedBeforeAdmitted
<1>1. IInv => InvitedBeforeAdmitted
  BY DEF IInv
<1>2. QED
  BY <1>1, Invariant, PTL

\* A Register that fails, or dies between its statements, never uses up the
\* invite of a mailbox that got no account.
THEOREM InvitesAreNotWasted == Spec => []UsedInviteHasAccount
<1>1. IInv => UsedInviteHasAccount
  BY DEF IInv
<1>2. QED
  BY <1>1, Invariant, PTL

\* The two partial indices and the CHECK leave the configured mailbox the one
\* superadmin account, and only that.
THEOREM SuperadminIsUnique == Spec => []OneSuperadmin
<1>1. IInv => OneSuperadmin
  BY DEF IInv
<1>2. QED
  BY <1>1, Invariant, PTL

\* Concurrent Registers of one mailbox, in any spelling, leave one account
\* per platform.
THEOREM SilosHoldOneAccount == Spec => []OneAccountPerPlatform
<1>1. IInv => OneAccountPerPlatform
  BY DEF IInv
<1>2. QED
  BY <1>1, Invariant, PTL

\* An answer of Register is backed by a row when the client reads it, also
\* when the call lost its connection after the INSERT.
THEOREM AnswersAreTrue == Spec => []RepliesTellTheTruth
<1>1. IInv => RepliesTellTheTruth
  BY DEF IInv, CallsSound, CallSound, HasAccount, RepliesTellTheTruth, At
<1>2. QED
  BY <1>1, Invariant, PTL

\* Claims do not go stale, as long as Update commits nothing.
THEOREM ClaimsAreCurrent == Spec => []TokensMatchRows
<1>1. IInv => TokensMatchRows
  BY DEF IInv
<1>2. QED
  BY <1>1, Invariant, PTL

\* Create believes the token, and is right to.
THEOREM OnlySuperadminsInvite == Spec => []InvitersAreSuperadmins
<1>1. IInv => InvitersAreSuperadmins
  BY DEF IInv
<1>2. QED
  BY <1>1, Invariant, PTL

\* A row of `admins` never changes once it is there, and an invite keeps its
\* email and its inviter, so that other services may take them as constant.
THEOREM RowsStand == Spec => [][RowsStay]_vars
<1>1. IInv /\ [Next]_vars => RowsStay
  BY TableEffects, TablesStay DEF StatementEffect, IInv
<1>2. QED
  BY <1>1, Invariant, PTL DEF Spec
=============================================================================
