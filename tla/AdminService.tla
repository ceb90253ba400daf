---------------------------- MODULE AdminService ----------------------------
(***************************************************************************)
(* admin-service: Register, Login and Update of platform admins.           *)
(*                                                                         *)
(* A handler is an asyncio task: it runs alone until it awaits the         *)
(* database, so one action is one statement together with everything the   *)
(* handler computes up to its next await.  Register is the only handler    *)
(* that uses what an earlier statement of its own returned: it reads an    *)
(* invite, then inserts the admin, then marks the invite.                  *)
(***************************************************************************)
EXTENDS Tables

CONSTANTS
  Handlers,       \* bound: calls of this service in progress at one time
  Malformed,      \* a platform_id that uuid.UUID rejects
  SecretConfigured,   \* JWT_SECRET is in the environment of the service
  RegisterRequests, LoginRequests, UpdateRequests,  \* bound: what clients send
  Faults          \* the faults that may strike: subset of FaultKinds

FaultKinds == {"statement", "cancel"}

AdminFields ==
  {"email", "password", "first_name", "last_name", "is_active", "is_superadmin",
   "platform_id", "properties"}
FlagFields == {"is_active", "is_superadmin"}

\* What a request may carry as platform_id, and, as far as Login tells it
\* apart, as email and password: "missing" when one of them is empty.
PlatformArguments == PlatformIds \cup {NULL, Malformed}
Credentials == {"right", "wrong", "missing"}

ASSUME AdminServiceAssumption ==
  /\ Faults \subseteq FaultKinds
  /\ SecretConfigured \in BOOLEAN
  /\ Malformed \notin PlatformIds \cup {NULL}
  /\ RegisterRequests \subseteq
       [email : Emails, platform_id : PlatformArguments, valid : BOOLEAN]
  /\ LoginRequests \subseteq
       [email : Emails, platform_id : PlatformArguments, credentials : Credentials]
  /\ UpdateRequests \subseteq [fields : SUBSET AdminFields, valid : BOOLEAN]

\* Every call in progress is a task of one process.
ASSUME HandlersAreFinite == IsFiniteSet(Handlers)

\* What Login signs: the row as it was read.  `role` repeats is_superadmin.
Claims ==
  [sub : AdminIds, email : Emails, is_superadmin : BOOLEAN,
   platform_id : PlatformIds \cup {NULL}]

Replies ==
  {"none", "OK", "INVALID_ARGUMENT", "PERMISSION_DENIED", "UNAUTHENTICATED",
   "NOT_FOUND", "ALREADY_EXISTS", "INTERNAL", "UNKNOWN"}

Call ==
  [op     : {"none", "Register", "Login", "Update"},
   pc     : {"idle", "lookup", "create", "mark", "write", "done"},
   email  : Emails \cup {NULL},
   platform_id : PlatformIds \cup {NULL},
   valid  : BOOLEAN,                    \* names and passwords pass pydantic
   invite : InviteIds \cup {NULL},      \* invite_record["id"]
   target : AdminIds \cup {NULL},       \* the id an Update names
   fields : SUBSET AdminFields,         \* the fields an Update sets
   reply  : Replies]

VARIABLES
  calls,    \* handler -> the call it serves
  tokens    \* the claims of the tokens that were issued and still decode

adminServiceVars == <<calls, tokens>>

NoCall ==
  [op |-> "none", pc |-> "idle", email |-> NULL, platform_id |-> NULL,
   valid |-> TRUE, invite |-> NULL, target |-> NULL, fields |-> {},
   reply |-> "none"]

AdminServiceTypeOK ==
  /\ calls \in [Handlers -> Call]
  /\ tokens \subseteq Claims

AdminServiceInit ==
  /\ calls = [h \in Handlers |-> NoCall]
  /\ tokens = {}

At(h, pc) == calls[h].pc = pc
IsSuper(email) == Mailbox(email) = SuperMailbox

\* The call of h answers its client and awaits nothing more.
Answer(h, status) ==
  calls' = [calls EXCEPT ![h].pc = "done", ![h].reply = status]

-----------------------------------------------------------------------------
(* Register *)

\* The row AdminCreate describes: the superadmin has no platform whatever the
\* request says.
NewAdmin(c) ==
  [email |-> c.email, is_active |-> TRUE, is_superadmin |-> IsSuper(c.email),
   platform_id |-> IF IsSuper(c.email) THEN NULL ELSE c.platform_id]

\* AdminCreate accepts the request.
Accepted(c) == c.valid /\ PlatformConsistent(NewAdmin(c))

\* Up to the first await: the platform id is parsed, and the configured
\* superadmin goes on to the INSERT without an invite.
ReceiveRegister(h, r) ==
  LET c == [NoCall EXCEPT !.op = "Register", !.email = r.email, !.valid = r.valid,
                          !.platform_id = IF r.platform_id = Malformed THEN NULL
                                          ELSE r.platform_id]
      parsed == r.platform_id # Malformed
      arrive(pc, status) ==
        calls' = [calls EXCEPT ![h] = [c EXCEPT !.pc = pc, !.reply = status]]
  IN /\ At(h, "idle")
     /\ \/ ~parsed /\ arrive("done", "INVALID_ARGUMENT")
        \/ parsed /\ ~IsSuper(r.email) /\ arrive("lookup", "none")
        \/ /\ parsed /\ IsSuper(r.email)
           /\ IF Accepted(c) THEN arrive("create", "none")
                             ELSE arrive("done", "INVALID_ARGUMENT")
     /\ UNCHANGED <<tables, tokens>>

\* Mutant: the abort for a missing invite is dropped.
CheckInviteOptional(h) ==
  LET c == calls[h] IN
  /\ At(h, "lookup")
  /\ IF Accepted(c) THEN calls' = [calls EXCEPT ![h].pc = "create"]
                    ELSE Answer(h, "INVALID_ARGUMENT")
  /\ UNCHANGED <<tables, tokens>>

\* Mutant: the invite is marked as soon as it is found, before the INSERT.
CheckInviteReserves(h) ==
  LET c == calls[h] IN
  /\ At(h, "lookup")
  /\ \/ ValidInvites(c.email) = {} /\ Answer(h, "PERMISSION_DENIED") /\ UNCHANGED invites
     \/ \E i \in ValidInvites(c.email) :
          /\ calls' = [calls EXCEPT ![h].pc = "create", ![h].invite = i]
          /\ SetInviteUsed(i)
  /\ UNCHANGED <<admins, tokens>>

\* get_valid_by_email, then the validation that follows it without an await.
CheckInvite(h) ==
  LET c == calls[h] IN
  /\ At(h, "lookup")
  /\ \/ ValidInvites(c.email) = {} /\ Answer(h, "PERMISSION_DENIED")
     \/ ValidInvites(c.email) # {} /\ ~Accepted(c) /\ Answer(h, "INVALID_ARGUMENT")
     \/ /\ Accepted(c)
        /\ \E i \in ValidInvites(c.email) :
             calls' = [calls EXCEPT ![h].pc = "create", ![h].invite = i]
  /\ UNCHANGED <<tables, tokens>>

\* AdminTable.create.  Only the unique violation has a handler of its own;
\* the foreign key violation leaves Register as an exception.
CreateAdmin(h) ==
  LET c == calls[h]
      row == NewAdmin(c)
  IN /\ At(h, "create")
     /\ \/ /\ AdminConflict(row)
           /\ Answer(h, "ALREADY_EXISTS")
           /\ UNCHANGED admins
        \/ /\ ~AdminConflict(row) /\ ~PlatformExists(row.platform_id)
           /\ Answer(h, "UNKNOWN")
           /\ UNCHANGED admins
        \/ /\ ~AdminConflict(row) /\ PlatformExists(row.platform_id)
           /\ InsertAdmin(row)
           /\ IF c.invite = NULL THEN Answer(h, "OK")
                                 ELSE calls' = [calls EXCEPT ![h].pc = "mark"]
     /\ UNCHANGED <<invites, tokens>>

\* mark_used by id; whether a row was updated is not looked at.
MarkInvite(h) ==
  /\ At(h, "mark")
  /\ SetInviteUsed(calls[h].invite)
  /\ Answer(h, "OK")
  /\ UNCHANGED <<admins, tokens>>

-----------------------------------------------------------------------------
(* Login *)

\* The row Login authenticates: the superadmin by email alone (superadmins
\* first), the others by email and platform.
LoginRows(email, platform) ==
  LET named == {a \in AdminIds : IsAdmin(a) /\ Mailbox(admins[a].email) = Mailbox(email)}
      supers == {a \in named : admins[a].is_superadmin}
  IN IF IsSuper(email)
       THEN IF supers # {} THEN supers ELSE named
       ELSE {a \in named : admins[a].platform_id = platform}

\* Mutant: the subject is the email.
ClaimsByEmail(a) ==
  [sub |-> admins[a].email, email |-> admins[a].email,
   is_superadmin |-> admins[a].is_superadmin, platform_id |-> admins[a].platform_id]

ClaimsOf(a) ==
  [sub |-> a, email |-> admins[a].email, is_superadmin |-> admins[a].is_superadmin,
   platform_id |-> admins[a].platform_id]

\* The checks on the row that was found, and the signature, in their order.
LoginStatus(a, r) ==
  CASE ~admins[a].is_active -> "PERMISSION_DENIED"
    [] admins[a].is_active /\ r.credentials # "right" -> "UNAUTHENTICATED"
    [] OTHER -> IF SecretConfigured THEN "OK" ELSE "INTERNAL"

\* What is refused without a look at the table.
BadLogin(r) ==
  \/ r.credentials = "missing"
  \/ r.platform_id = Malformed
  \/ IsSuper(r.email) <=> r.platform_id # NULL

\* One SELECT, then the checks and the signature without another await.
Login(h, r) ==
  LET rows == LoginRows(r.email, r.platform_id)
      answer(status) == calls' = [calls EXCEPT ![h] =
        [NoCall EXCEPT !.op = "Login", !.pc = "done", !.email = r.email, !.reply = status]]
  IN /\ At(h, "idle")
     /\ \/ BadLogin(r) /\ answer("INVALID_ARGUMENT") /\ UNCHANGED tokens
        \/ ~BadLogin(r) /\ rows = {} /\ answer("UNAUTHENTICATED") /\ UNCHANGED tokens
        \/ "statement" \in Faults /\ ~BadLogin(r) /\ answer("INTERNAL") /\ UNCHANGED tokens
        \/ /\ ~BadLogin(r)
           /\ \E a \in rows :
                /\ answer(LoginStatus(a, r))
                /\ tokens' = IF LoginStatus(a, r) = "OK" THEN tokens \cup {ClaimsOf(a)}
                             ELSE tokens
     /\ UNCHANGED tables

\* `exp` passes: decoding the token fails from now on.
ExpireToken(t) ==
  /\ t \in tokens
  /\ tokens' = tokens \ {t}
  /\ UNCHANGED <<tables, calls>>

-----------------------------------------------------------------------------
(* Update *)

\* _require_admin_or_superadmin with a target and no platform, and the flags
\* that only a superadmin may set.
MayUpdate(t, target, fields) ==
  /\ t.is_superadmin \/ t.sub = target
  /\ fields \cap FlagFields # {} => t.is_superadmin

ReceiveUpdate(h, t, target, r) ==
  LET c == [NoCall EXCEPT !.op = "Update", !.target = target, !.fields = r.fields]
      allowed == MayUpdate(t, target, r.fields)
      arrive(pc, status) ==
        calls' = [calls EXCEPT ![h] = [c EXCEPT !.pc = pc, !.reply = status]]
  IN /\ At(h, "idle")
     /\ t \in tokens
     /\ \/ ~allowed /\ arrive("done", "PERMISSION_DENIED")
        \/ allowed /\ ~r.valid /\ arrive("done", "INVALID_ARGUMENT")
        \/ allowed /\ r.valid /\ arrive("write", "none")
     /\ UNCHANGED <<tables, tokens>>

\* Mutant: the returned row is converted properly, so the UPDATE is committed.
UpdateCommits(h) ==
  LET c == calls[h] IN
  /\ At(h, "write")
  /\ \/ ~IsAdmin(c.target) /\ Answer(h, "NOT_FOUND") /\ UNCHANGED admins
     \/ /\ IsAdmin(c.target) /\ Answer(h, "OK")
        /\ \E e \in IF "email" \in c.fields THEN Emails ELSE {admins[c.target].email} :
             admins' = [admins EXCEPT ![c.target].email = e]
  /\ UNCHANGED <<invites, tokens>>

\* AdminTable.update.  Nothing to set: the row is read back.  Otherwise the
\* UPDATE may violate an index or a CHECK; if it does not, the returned row is
\* turned into AdminRead inside the transaction with `properties` still the
\* JSON text, which AdminRead rejects, so the transaction rolls back.
UpdateAdmin(h) ==
  LET c == calls[h] IN
  /\ At(h, "write")
  /\ \/ ~IsAdmin(c.target) /\ Answer(h, "NOT_FOUND")
     \/ IsAdmin(c.target) /\ c.fields = {} /\ Answer(h, "OK")
     \/ IsAdmin(c.target) /\ c.fields # {} /\ Answer(h, "UNKNOWN")
  /\ UNCHANGED <<tables, tokens>>

-----------------------------------------------------------------------------
(* Faults, and the client *)

\* A statement raises: the connection is lost, or the server refuses.  The
\* INSERT may have been committed all the same.  mark_used is the one whose
\* exception Register swallows.
StatementFails(h) ==
  LET c == calls[h] IN
  /\ "statement" \in Faults
  /\ \/ /\ c.pc \in {"lookup", "create", "write"}
        /\ Answer(h, "UNKNOWN")
        /\ UNCHANGED admins
     \/ /\ At(h, "create")
        /\ ~AdminConflict(NewAdmin(c)) /\ PlatformExists(NewAdmin(c).platform_id)
        /\ InsertAdmin(NewAdmin(c))
        /\ Answer(h, "UNKNOWN")
     \/ /\ At(h, "mark")
        /\ Answer(h, "OK")
        /\ UNCHANGED admins
  /\ UNCHANGED <<invites, tokens>>

\* The client goes away, its deadline passes, or the process dies: the task
\* ends where it awaits, and nobody reads its answer.
Abandon(h) ==
  /\ "cancel" \in Faults
  /\ calls[h].pc \notin {"idle", "done"}
  /\ calls' = [calls EXCEPT ![h] = NoCall]
  /\ UNCHANGED <<tables, tokens>>

\* The client has read the answer; the handler slot serves another call.
Collect(h) ==
  /\ At(h, "done")
  /\ calls' = [calls EXCEPT ![h] = NoCall]
  /\ UNCHANGED <<tables, tokens>>

-----------------------------------------------------------------------------
Requests(h) ==
  \/ \E r \in RegisterRequests : ReceiveRegister(h, r)
  \/ \E r \in LoginRequests : Login(h, r)
  \/ \E t \in tokens, a \in AdminIds, r \in UpdateRequests : ReceiveUpdate(h, t, a, r)

\* The steps the event loop takes once the database has answered.
HandlerStep(h) == CheckInvite(h) \/ CreateAdmin(h) \/ MarkInvite(h) \/ UpdateAdmin(h)

AdminServiceNext ==
  \/ \E h \in Handlers :
       Requests(h) \/ HandlerStep(h) \/ StatementFails(h) \/ Abandon(h) \/ Collect(h)
  \/ \E t \in tokens : ExpireToken(t)
=============================================================================
