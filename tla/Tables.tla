------------------------------- MODULE Tables -------------------------------
(***************************************************************************)
(* The two tables the admin services share, as the migrations of           *)
(* db-service define them: `admins` and `admin_invites`, with the CHECK,   *)
(* the foreign keys and the case-insensitive unique indices that decide    *)
(* which statement succeeds.  Every SQL statement runs in a transaction of *)
(* its own, so a statement is one step of the service that issues it.      *)
(*                                                                         *)
(* Row ids stand for gen_random_uuid(): a fresh id is never given twice,   *)
(* so a deleted invite keeps its id, and its row, as a tombstone that no   *)
(* statement sees.                                                         *)
(***************************************************************************)
EXTENDS FiniteSets

CONSTANTS
  Emails,           \* addresses EmailStr returns and the CHECK accepts, in any case
  Lower,            \* lower(email), as both Python and Postgres compute it
  SuperAdminEmail,  \* the configured SUPER_ADMIN_EMAIL
  PlatformIds,      \* well-formed platform ids a request can name
  Platforms,        \* the ids that have a row in `platforms`
  AdminIds,         \* bound: the admin rows that can be inserted
  InviteIds,        \* bound: the invite rows that can be inserted
  NULL              \* SQL NULL, an omitted field, a row not inserted yet

ASSUME TablesAssumption ==
  /\ Lower \in [Emails -> Emails]
  /\ SuperAdminEmail \in Emails
  /\ Platforms \subseteq PlatformIds
  /\ NULL \notin Emails \cup PlatformIds \cup AdminIds \cup InviteIds

\* A UUID has 128 bits.
ASSUME IdsAreFinite == IsFiniteSet(AdminIds) /\ IsFiniteSet(InviteIds)

\* One mailbox may be spelled in several ways; indices and lookups fold case.
Mailbox(e) == Lower[e]
SuperMailbox == Lower[SuperAdminEmail]
Mailboxes == {Lower[e] : e \in Emails}

AdminRow ==
  [email : Emails, is_active : BOOLEAN, is_superadmin : BOOLEAN,
   platform_id : PlatformIds \cup {NULL}]

InviteRow ==
  [email : Emails, inviter_id : AdminIds, platform_id : PlatformIds,
   is_used : BOOLEAN, deleted : BOOLEAN]

ASSUME NullIsNoRow == NULL \notin AdminRow \cup InviteRow

VARIABLES admins, invites

tables == <<admins, invites>>

TablesTypeOK ==
  /\ admins \in [AdminIds -> AdminRow \cup {NULL}]
  /\ invites \in [InviteIds -> InviteRow \cup {NULL}]

TablesInit ==
  /\ admins = [a \in AdminIds |-> NULL]
  /\ invites = [i \in InviteIds |-> NULL]

IsAdmin(a) == admins[a] # NULL
Issued(i) == invites[i] # NULL
IsInvite(i) == Issued(i) /\ ~invites[i].deleted

-----------------------------------------------------------------------------
(* Constraints *)

\* Mutants: one index, where NULLs are distinct; one index over all accounts; the
\* second of the two is missing.
OneIndex(r, s) ==
  /\ Mailbox(r.email) = Mailbox(s.email)
  /\ r.platform_id = s.platform_id /\ r.platform_id # NULL
GlobalIndex(r, s) == Mailbox(r.email) = Mailbox(s.email)
SuperadminIndex(r, s) ==
  r.is_superadmin /\ s.is_superadmin /\ Mailbox(r.email) = Mailbox(s.email)

\* The two partial unique indices: superadmins on lower(email), the others
\* on (platform_id, lower(email)).
SameSilo(r, s) ==
  /\ Mailbox(r.email) = Mailbox(s.email)
  /\ r.is_superadmin = s.is_superadmin
  /\ r.is_superadmin \/ r.platform_id = s.platform_id

AdminConflict(row) == \E a \in AdminIds : IsAdmin(a) /\ SameSilo(row, admins[a])

\* admin_platform_consistency, which the pydantic model repeats.
PlatformConsistent(row) == row.is_superadmin <=> row.platform_id = NULL

\* Mutant: the foreign key is missing.
NoForeignKey(p) == TRUE

\* platform_id REFERENCES platforms(id); NULL refers to nothing.
PlatformExists(p) == p = NULL \/ p \in Platforms

\* The unique index on lower(email) spans every invite, used or not.
InviteConflict(email) ==
  \E i \in InviteIds : IsInvite(i) /\ Mailbox(invites[i].email) = Mailbox(email)

-----------------------------------------------------------------------------
(* Statements *)

InsertAdmin(row) ==
  \E a \in AdminIds :
    /\ ~IsAdmin(a)
    /\ admins' = [admins EXCEPT ![a] = row]

\* SELECT ... WHERE lower(email) = lower($1) AND is_used = false LIMIT 1.
ValidInvites(email) ==
  {i \in InviteIds : /\ IsInvite(i)
                     /\ ~invites[i].is_used
                     /\ Mailbox(invites[i].email) = Mailbox(email)}

\* Mutant: the WHERE clause asks for a used row.
SetUsedIfUsed(i) ==
  invites' = IF IsInvite(i) /\ invites[i].is_used
               THEN [invites EXCEPT ![i].is_used = TRUE] ELSE invites

\* UPDATE admin_invites SET is_used = true WHERE id = $1; no row, no effect.
SetInviteUsed(i) ==
  invites' = IF IsInvite(i) THEN [invites EXCEPT ![i].is_used = TRUE] ELSE invites

InsertInvite(email, inviter, platform) ==
  \E i \in InviteIds :
    /\ ~Issued(i)
    /\ invites' = [invites EXCEPT ![i] =
         [email |-> email, inviter_id |-> inviter, platform_id |-> platform,
          is_used |-> FALSE, deleted |-> FALSE]]

RemoveInvite(i) == invites' = [invites EXCEPT ![i].deleted = TRUE]
=============================================================================
