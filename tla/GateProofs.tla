----------------------------- MODULE GateProofs -----------------------------
(***************************************************************************)
(* Onboarding implements InviteGate, for every number of handlers, rows,   *)
(* mailboxes and platforms, with and without faults: each statement that   *)
(* changes a table is one action of the gate or none, and every other step *)
(* stutters.                                                               *)
(***************************************************************************)
EXTENDS OnboardingProofs

LEMMA InitRefines == Init => Gate!Init
BY DEF Init, TablesInit, Gate!Init, Claimed, Invited, Accounts, Consumed, Superadmins, Members,
       InvitesOf, IsAdmin, Issued

\* What the gate sees depends on the two tables alone.
LEMMA SameTablesStutter == UNCHANGED tables => UNCHANGED Gate!vars
BY DEF tables, Gate!vars, Claimed, Invited, Accounts, Consumed, Superadmins, Members, InvitesOf,
       IsAdmin, Issued, IsInvite, Mailbox

LEMMA MailboxesCover ==
  ASSUME TypeOK
  PROVE  /\ \A a \in AdminIds : IsAdmin(a) => Mailbox(admins[a].email) \in Mailboxes
         /\ \A i \in InviteIds : Issued(i) => Mailbox(invites[i].email) \in Mailboxes
BY DEF TypeOK, TablesTypeOK, IsAdmin, Issued, AdminRow, InviteRow, Mailbox, Mailboxes

-----------------------------------------------------------------------------
(* `admins` *)

\* The INSERT claims the superadmin account or joins a mailbox to a platform.
LEMMA AdmitRefines ==
  ASSUME IInv, UNCHANGED invites, NEW h \in Handlers, Admits(h)
  PROVE  Gate!Next
<1> DEFINE row == NewAdmin(calls[h])
<1>1. PICK n \in AdminIds :
        /\ ~IsAdmin(n)
        /\ admins' = [admins EXCEPT ![n] = row]
        /\ \A a \in AdminIds : IsAdmin(a)' <=> (IsAdmin(a) \/ a = n)
        /\ \A a \in AdminIds : a # n => admins'[a] = admins[a]
        /\ admins'[n] = row
  BY AdmittedRow
<1>2. /\ row \in AdminRow /\ row.email = calls[h].email
      /\ row.is_superadmin <=> IsSuper(row.email)
      /\ row.is_superadmin <=> row.platform_id = NULL
  BY NewAdminRow DEF IInv, Admits
<1>3. ~AdminConflict(row) /\ PlatformExists(row.platform_id)
  BY DEF Admits
<1>4. UNCHANGED <<Invited, Consumed>>
  BY DEF Invited, Consumed, InvitesOf, Issued, IsInvite, Mailbox
<1>5. CASE row.is_superadmin
  <2>1. Superadmins = {}
    BY <1>2, <1>3, <1>5 DEF AdminConflict, SameSilo, Superadmins, IsSuper, IInv, OneSuperadmin
  <2>2. n \in Superadmins'
    BY <1>1, <1>5 DEF Superadmins
  <2>3. Members' = Members /\ \A a \in Members : admins'[a] = admins[a]
    BY <1>1, <1>5 DEF Members
  <2>4. UNCHANGED Accounts
    BY <2>3 DEF Accounts, Mailbox
  <2>5. Gate!Claim
    BY <1>4, <2>1, <2>2, <2>4 DEF Gate!Claim, Claimed
  <2>6. QED
    BY <2>5 DEF Gate!Next
<1>6. CASE ~row.is_superadmin
  <2> DEFINE m == Mailbox(row.email)
             p == row.platform_id
  <2>1. p \in Platforms
    BY <1>2, <1>3, <1>6 DEF PlatformExists
  <2>2. UNCHANGED Claimed
    <3>1. Superadmins' = Superadmins
      BY <1>1, <1>6 DEF Superadmins
    <3>2. QED
      BY <3>1 DEF Claimed
  <2>3. m \in Invited
    <3>1. calls[h].invite \in InviteIds /\ InviteMatches(calls[h])
      BY <1>2, <1>6 DEF Admits, IInv, CallsSound, CallSound, TypeOK, AdminServiceTypeOK, Call
    <3>2. QED
      BY <1>2, <3>1, MailboxesCover DEF InviteMatches, Invited, InvitesOf, IInv
  <2>4. <<m, p>> \notin Accounts
    <3>1. ASSUME NEW a \in Members, Mailbox(admins[a].email) = m, admins[a].platform_id = p
          PROVE  FALSE
      BY <1>2, <1>3, <1>6, <3>1
         DEF AdminConflict, SameSilo, Members, IInv, TypeOK, TablesTypeOK, AdminRow, IsAdmin
    <3>2. QED
      BY <3>1 DEF Accounts
  <2>5. Accounts' = Accounts \cup {<<m, p>>}
    <3>1. Members' = Members \cup {n} /\ n \notin Members
      BY <1>1, <1>6 DEF Members
    <3>2. \A a \in Members : admins'[a] = admins[a]
      BY <1>1, <3>1 DEF Members
    <3>3. QED
      BY <1>1, <3>1, <3>2 DEF Accounts, Mailbox
  <2>6. Gate!Join(m, p)
    BY <1>4, <2>2, <2>3, <2>4, <2>5 DEF Gate!Join
  <2>7. m \in Mailboxes
    BY <2>3 DEF Invited
  <2>8. QED
    BY <2>1, <2>6, <2>7 DEF Gate!Next
<1>7. QED
  BY <1>5, <1>6

-----------------------------------------------------------------------------
(* `admin_invites` *)

LEMMA SameAdmins == UNCHANGED admins => UNCHANGED <<Claimed, Accounts>>
BY DEF Claimed, Accounts, Superadmins, Members, IsAdmin, Mailbox

\* Marking an invite consumes it for a mailbox that joined.
LEMMA MarkRefines ==
  ASSUME IInv, UNCHANGED admins, NEW h \in Handlers, Marks(h)
  PROVE  Gate!Next \/ UNCHANGED tables
<1> DEFINE i == calls[h].invite
           m == Mailbox(invites[i].email)
<1> USE DEF IInv, TypeOK, TablesTypeOK
<1>1. i \in InviteIds /\ Issued(i) /\ AccountsOf(m) # {}
  BY MarkedInviteHasAccount DEF Marks
<1>2. CASE ~IsInvite(i)
  BY <1>2 DEF Marks, SetInviteUsed, tables
<1>3. CASE IsInvite(i)
  <2>1. invites' = [invites EXCEPT ![i].is_used = TRUE]
    BY <1>3 DEF Marks, SetInviteUsed
  <2>2. \A j \in InviteIds : j # i => invites'[j] = invites[j]
    BY <2>1
  <2>3. /\ invites'[i] # NULL /\ invites'[i].email = invites[i].email
        /\ invites'[i].is_used /\ ~invites'[i].deleted
    <3>1. invites[i] \in InviteRow
      BY <1>1 DEF Issued
    <3>2. invites'[i] = [invites[i] EXCEPT !.is_used = TRUE]
      BY <1>1, <2>1
    <3>3. invites'[i] \in InviteRow
      BY <3>1, <3>2 DEF InviteRow
    <3>4. QED
      BY <1>3, <3>1, <3>2, <3>3, NullIsNoRow DEF IsInvite, InviteRow
  <2>4. UNCHANGED Invited
    BY <1>1, <2>2, <2>3 DEF Invited, InvitesOf, Issued, Mailbox
  <2>5. m \in Mailboxes
    BY <1>1, MailboxesCover
  <2>6. Consumed' = Consumed \cup {m}
    BY <1>1, <1>3, <2>2, <2>3, <2>5 DEF Consumed, InvitesOf, Issued, IsInvite, Mailbox
  <2>7. \E p \in Platforms : <<m, p>> \in Accounts
    BY <1>1 DEF AccountsOf, Accounts, OneAccountPerPlatform
  <2>8. Gate!Consume(m)
    BY <2>4, <2>6, <2>7, SameAdmins DEF Gate!Consume
  <2>9. QED
    BY <2>5, <2>8 DEF Gate!Next
<1>4. QED
  BY <1>2, <1>3

\* A token that says superadmin is one that was claimed.
LEMMA IssueRefines ==
  ASSUME IInv, UNCHANGED admins, NEW t \in tokens, NEW r \in CreateRequests, Issues(t, r)
  PROVE  Gate!Next
<1> USE DEF IInv, TypeOK, TablesTypeOK
<1>1. PICK i \in InviteIds :
        /\ ~Issued(i)
        /\ invites' = [invites EXCEPT ![i] =
             [email |-> r.email, inviter_id |-> t.sub, platform_id |-> r.platform_id,
              is_used |-> FALSE, deleted |-> FALSE]]
  BY DEF Issues, InsertInvite
<1> DEFINE m == Mailbox(r.email)
<1>2. m \in Mailboxes
  BY InviteServiceAssumption DEF Mailbox, Mailboxes
<1>3. \A j \in InviteIds : j # i => invites'[j] = invites[j]
  BY <1>1
<1>4. invites'[i] # NULL /\ invites'[i].email = r.email /\ ~invites'[i].is_used
  <2>1. r.email \in Emails /\ r.platform_id \in PlatformIds /\ t.sub \in AdminIds
    BY InviteServiceAssumption, TablesAssumption DEF Issues, AdminServiceTypeOK, Claims
  <2>2. invites'[i] \in InviteRow
    BY <1>1, <2>1 DEF InviteRow
  <2>3. QED
    BY <1>1, <2>2, NullIsNoRow
<1>5. Claimed
  BY DEF Issues, TokensMatchRows, ClaimsOf, Claimed, Superadmins, AdminServiceTypeOK, Claims
<1>6. Invited' = Invited \cup {m}
  BY <1>1, <1>2, <1>3, <1>4 DEF Invited, InvitesOf, Issued, Mailbox
<1>7. Consumed' = Consumed
  BY <1>1, <1>3, <1>4 DEF Consumed, InvitesOf, Issued, IsInvite, Mailbox
<1>8. Gate!Invite(m)
  BY <1>5, <1>6, <1>7, SameAdmins DEF Gate!Invite
<1>9. QED
  BY <1>2, <1>8 DEF Gate!Next

\* A deleted invite is no longer consumed; what it once allowed stays.
LEMMA RemoveRefines ==
  ASSUME IInv, UNCHANGED admins, NEW i \in InviteIds, IsInvite(i), RemoveInvite(i)
  PROVE  Gate!Next \/ UNCHANGED Gate!vars
<1> USE DEF IInv, TypeOK, TablesTypeOK
<1> DEFINE m == Mailbox(invites[i].email)
<1>1. \A j \in InviteIds : j # i => invites'[j] = invites[j]
  BY DEF RemoveInvite
<1>2. invites'[i] # NULL /\ invites'[i].email = invites[i].email /\ invites'[i].deleted
  BY NullIsNoRow DEF RemoveInvite, IsInvite, Issued, InviteRow
<1>3. UNCHANGED Invited
  BY <1>1, <1>2 DEF Invited, InvitesOf, Issued, IsInvite, Mailbox
<1>4. m \in Mailboxes
  BY MailboxesCover DEF IsInvite
<1>5. Consumed' \subseteq Consumed /\ Consumed \ {m} \subseteq Consumed'
  BY <1>1, <1>2 DEF Consumed, InvitesOf, Issued, IsInvite, Mailbox
<1>6. CASE m \in Consumed' \/ m \notin Consumed
  <2>1. Consumed' = Consumed
    BY <1>5, <1>6
  <2>2. QED
    BY <1>3, <2>1, SameAdmins DEF Gate!vars
<1>7. CASE m \notin Consumed'
  <2>1. Consumed' = Consumed \ {m}
    BY <1>5, <1>7
  <2>2. Gate!Forget(m)
    BY <1>3, <2>1, SameAdmins DEF Gate!Forget
  <2>3. QED
    BY <1>4, <2>2 DEF Gate!Next
<1>8. QED
  BY <1>6, <1>7

-----------------------------------------------------------------------------
LEMMA StepRefines == IInv /\ [Next]_vars => [Gate!Next]_(Gate!vars)
<1> SUFFICES ASSUME IInv, [Next]_vars PROVE Gate!Next \/ UNCHANGED Gate!vars
  OBVIOUS
<1>1. StatementEffect
  BY TableEffects
<1>2. CASE UNCHANGED tables
  BY <1>2, SameTablesStutter
<1>3. CASE UNCHANGED invites /\ \E h \in Handlers : Admits(h)
  BY <1>3, AdmitRefines
<1>4. CASE UNCHANGED admins /\ \E h \in Handlers : Marks(h)
  BY <1>2, <1>4, MarkRefines
<1>5. CASE UNCHANGED admins /\ \E t \in tokens, r \in CreateRequests : Issues(t, r)
  BY <1>5, IssueRefines
<1>6. CASE UNCHANGED admins /\ \E i \in InviteIds : IsInvite(i) /\ RemoveInvite(i)
  BY <1>6, RemoveRefines
<1>7. QED
  BY <1>1, <1>2, <1>3, <1>4, <1>5, <1>6 DEF StatementEffect, AdminsEffect, InvitesEffect, tables

\* The two services, whatever the interleaving and the faults, keep the
\* promise of the abstract gate.
THEOREM OnboardingKeepsTheGate == Spec => KeepsTheGate
BY InitRefines, Invariant, StepRefines, PTL DEF Spec, KeepsTheGate, Gate!Spec

\* The gate's promise is enough: whatever keeps it is safe.
THEOREM GateIsSafe == KeepsTheGate => []Gate!Safe
<1> USE DEF Gate!Safe
<1>1. Gate!Init => Gate!Safe
  BY DEF Gate!Init
<1>2. Gate!Safe /\ [Gate!Next]_(Gate!vars) => Gate!Safe'
  <2> SUFFICES ASSUME Gate!Safe, [Gate!Next]_(Gate!vars) PROVE Gate!Safe'
    OBVIOUS
  <2>1. CASE Gate!Claim
    BY <2>1 DEF Gate!Claim
  <2>2. ASSUME NEW m \in Mailboxes, Gate!Invite(m)
        PROVE  Gate!Safe'
    BY <2>2 DEF Gate!Invite
  <2>3. ASSUME NEW m \in Mailboxes, Gate!Consume(m)
        PROVE  Gate!Safe'
    BY <2>3 DEF Gate!Consume
  <2>4. ASSUME NEW m \in Mailboxes, Gate!Forget(m)
        PROVE  Gate!Safe'
    BY <2>4 DEF Gate!Forget
  <2>5. ASSUME NEW m \in Mailboxes, NEW p \in Platforms, Gate!Join(m, p)
        PROVE  Gate!Safe'
    BY <2>5 DEF Gate!Join
  <2>6. CASE UNCHANGED Gate!vars
    BY <2>6 DEF Gate!vars
  <2>7. QED
    BY <2>1, <2>2, <2>3, <2>4, <2>5, <2>6 DEF Gate!Next
<1>3. QED
  BY <1>1, <1>2, PTL DEF KeepsTheGate, Gate!Spec

\* Hence onboarding is: in particular there is no invite without a superadmin.
THEOREM OnboardingIsSafe == Spec => []Gate!Safe
BY OnboardingKeepsTheGate, GateIsSafe, PTL
=============================================================================
