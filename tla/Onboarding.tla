----------------------------- MODULE Onboarding -----------------------------
(***************************************************************************)
(* admin-service and admin-invite-service over the tables they share.  The *)
(* two never call each other: an invite row that one writes and the other  *)
(* reads, marks and deletes is all they have in common, with the tokens    *)
(* that one signs and both verify.                                         *)
(***************************************************************************)
EXTENDS AdminInviteService, Naturals

vars == <<tables, adminServiceVars, inviteCall>>

Init == TablesInit /\ AdminServiceInit /\ InviteServiceInit

Next ==
  \/ AdminServiceNext /\ UNCHANGED inviteCall
  \/ InviteServiceNext

Spec == Init /\ [][Next]_vars

\* The event loop resumes a task whose statement has been answered; a running
\* database answers.  Nothing is assumed of clients.
Fairness == \A h \in Handlers : WF_vars(HandlerStep(h) /\ UNCHANGED inviteCall)

FairSpec == Spec /\ Fairness

-----------------------------------------------------------------------------
(* Derived state *)

Members == {a \in AdminIds : IsAdmin(a) /\ ~admins[a].is_superadmin}
Superadmins == {a \in AdminIds : IsAdmin(a) /\ admins[a].is_superadmin}

InvitesOf(m) == {i \in InviteIds : Issued(i) /\ Mailbox(invites[i].email) = m}
AccountsOf(m) == {a \in Members : Mailbox(admins[a].email) = m}

\* The Register call of h was admitted by an invite and has been answered OK.
Admitted(h) ==
  calls[h].op = "Register" /\ calls[h].reply = "OK" /\ calls[h].invite # NULL

-----------------------------------------------------------------------------
(* Safety *)

\* Every variable holds what the code can store there.
TypeOK == TablesTypeOK /\ AdminServiceTypeOK /\ InviteServiceTypeOK

\* Nobody but the superadmin holds an account whose mailbox a superadmin did
\* not invite, however Register, Delete and faults interleave: the check of
\* _register and the INSERT are two statements with anything in between.
InvitedBeforeAdmitted ==
  \A a \in Members : InvitesOf(Mailbox(admins[a].email)) # {}

\* An invite is marked used only when its mailbox did get an account: a
\* Register that fails after the check leaves the invite for another try.
UsedInviteHasAccount ==
  \A i \in InviteIds :
    Issued(i) /\ invites[i].is_used => AccountsOf(Mailbox(invites[i].email)) # {}

\* There is one superadmin, it is the configured mailbox, and that mailbox
\* never also gets a platform account, though it may be invited to one.
OneSuperadmin ==
  /\ \A a, b \in Superadmins : a = b
  /\ \A a \in AdminIds :
       IsAdmin(a) => (admins[a].is_superadmin <=> IsSuper(admins[a].email))

\* A mailbox has one account per platform, and only on platforms that exist.
OneAccountPerPlatform ==
  /\ \A a, b \in Members :
       /\ Mailbox(admins[a].email) = Mailbox(admins[b].email)
       /\ admins[a].platform_id = admins[b].platform_id
       => a = b
  /\ \A a \in Members : admins[a].platform_id \in Platforms

\* What Register answers is still true when the client reads it: after OK the
\* account is there; ALREADY_EXISTS is said only of an account that exists on
\* the platform that was asked for.
RepliesTellTheTruth ==
  \A h \in Handlers :
    At(h, "done") /\ calls[h].op = "Register" /\ calls[h].reply \in {"OK", "ALREADY_EXISTS"}
      => \E a \in AdminIds :
           /\ IsAdmin(a)
           /\ Mailbox(admins[a].email) = Mailbox(calls[h].email)
           /\ admins[a].platform_id = NewAdmin(calls[h]).platform_id

\* A token says what its admin's row says now, so the services that trust the
\* claims without reading the row decide as if they had read it.
TokensMatchRows ==
  \A t \in tokens : IsAdmin(t.sub) /\ t = ClaimsOf(t.sub)

\* Every invite goes back to a superadmin: the claim that let Create through
\* names a row that is one.
InvitersAreSuperadmins ==
  \A i \in InviteIds : Issued(i) => invites[i].inviter_id \in Superadmins

\* As long as no statement fails, an invite whose Register has been answered OK
\* lets no other Register through the check, however long afterwards and whatever
\* is deleted, issued and cancelled meanwhile.  A Register that had passed the
\* check by then does go on to create an account (OneAccountPerInvite).
AnsweredInvitesAdmitNobody ==
  [][\A g, h \in Handlers :
       Admitted(g) /\ At(h, "lookup") /\ calls'[h].pc = "create" =>
         calls'[h].invite # calls[g].invite]_vars

\* Without faults an invite admits at most as many accounts as Register calls
\* can overlap; so one, when they are served one at a time.
OverrunBound ==
  \A m \in Mailboxes :
    Cardinality(AccountsOf(m)) <= Cardinality(Handlers) * Cardinality(InvitesOf(m))

-----------------------------------------------------------------------------
(* Liveness *)

\* An invite whose account was created does not stay open: the handler that
\* created it goes on to mark it, unless it was deleted meanwhile.
AdmissionConsumesInvite ==
  \A h \in Handlers, i \in InviteIds :
    (At(h, "mark") /\ calls[h].invite = i) ~> (IsInvite(i) => invites[i].is_used)

-----------------------------------------------------------------------------
(* Refinement *)

Claimed == Superadmins # {}
Invited == {m \in Mailboxes : InvitesOf(m) # {}}
Accounts == {<<Mailbox(admins[a].email), admins[a].platform_id>> : a \in Members}
Consumed == {m \in Mailboxes : \E i \in InvitesOf(m) : IsInvite(i) /\ invites[i].is_used}

Gate == INSTANCE InviteGate WITH
  Boxes <- Mailboxes, Sites <- Platforms, claimed <- Claimed, invited <- Invited,
  members <- Accounts, consumed <- Consumed

\* The two services together keep the promise of InviteGate.
KeepsTheGate == Gate!Spec

-----------------------------------------------------------------------------
(* What the documentation says and the code does not keep *)

\* services/admin.py:146: "Otherwise require an unused invite row for that
\* email."  So no more accounts than invites.  (The index keeps the accounts of a
\* mailbox on different platforms, so whenever one invite admits two, one of them
\* is on a platform it was not issued for: Register compares only the email.)
OneAccountPerInvite ==
  \A m \in Mailboxes : Cardinality(AccountsOf(m)) <= Cardinality(InvitesOf(m))

\* tables/admin.py:264: "Apply partial updates to an admin and return the
\* updated record."
UpdateReturnsTheRecord ==
  \A h \in Handlers :
    At(h, "done") /\ calls[h].op = "Update" /\ calls[h].fields = {"first_name"}
      => calls[h].reply # "UNKNOWN"
=============================================================================
