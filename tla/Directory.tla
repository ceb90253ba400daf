----------------------------- MODULE Directory -----------------------------
(***************************************************************************)
(* The reads: Get and List of admin-service, user-service and              *)
(* admin-invite-service, and what they show to whom.  A read changes       *)
(* nothing, but it decides on a token signed earlier, by either service    *)
(* that signs them, and on rows selected before or after that decision.    *)
(* Get and List of platform-service ask for no token and are left out.     *)
(*                                                                         *)
(* An id is a random UUID: it names one row of one table.  Of a row, only  *)
(* whether it is there and is_active change: Update of admins rolls back,  *)
(* and nothing moves a user to another platform.                           *)
(***************************************************************************)
EXTENDS FiniteSets

CONSTANTS
  Ids,           \* bound: the rows of all three tables together
  PlatformIds,
  Records,       \* id -> the row it will be created with
  Readers,       \* bound: reads in progress at one time
  NULL

Record ==
  [table : {"admins", "users", "admin_invites"}, is_superadmin : BOOLEAN,
   platform_id : PlatformIds \cup {NULL}]

\* The CHECKs and NOT NULLs of the tables: only superadmins are on no platform.
ASSUME DirectoryAssumption ==
  /\ Records \in [Ids -> Record]
  /\ \A i \in Ids :
       /\ Records[i].is_superadmin <=> Records[i].platform_id = NULL
       /\ Records[i].is_superadmin => Records[i].table = "admins"
  /\ NULL \notin Ids \cup PlatformIds \cup {"admin", "superadmin"}

Accounts == {i \in Ids : Records[i].table # "admin_invites"}
Users == {i \in Ids : Records[i].table = "users"}
Invites == {i \in Ids : Records[i].table = "admin_invites"}

VARIABLES
  status,   \* id -> what has become of its row
  tokens,   \* the claims of the tokens that decode
  reads     \* reader -> the read it has asked for

vars == <<status, tokens, reads>>

\* What Login of the account's service signs.  Both share JWT_SECRET.
ClaimsOf(i) ==
  [sub |-> i,
   role |-> CASE Records[i].is_superadmin -> "superadmin"
              [] i \in Users -> NULL
              [] OTHER -> "admin",
   platform_id |-> Records[i].platform_id]
Claims == {ClaimsOf(i) : i \in Accounts}
IsSuperadmin(t) == t.role = "superadmin"

NoRead ==
  [pc |-> "idle", table |-> NULL, caller |-> NULL, target |-> NULL, scope |-> NULL,
   shown |-> {}, reply |-> "none"]

Read ==
  [pc     : {"idle", "fetch", "authorize", "list", "done"},
   table  : {"admins", "users", "admin_invites", NULL},
   caller : Claims \cup {NULL},
   target : Ids \cup {NULL},
   scope  : PlatformIds \cup {NULL},
   shown  : SUBSET Ids,
   reply  : {"none", "OK", "INVALID_ARGUMENT", "PERMISSION_DENIED", "UNAUTHENTICATED",
             "NOT_FOUND", "INTERNAL", "UNKNOWN"}]

\* Only users are ever inactive, and only invites are deleted.
StatusOK ==
  /\ status \in [Ids -> {"absent", "active", "inactive", "deleted"}]
  /\ \A i \in Ids : status[i] = "inactive" => i \in Users
  /\ \A i \in Ids : status[i] = "deleted" => i \in Invites

\* Every variable holds what the code can store there.
TypeOK ==
  /\ StatusOK
  /\ tokens \subseteq Claims
  /\ reads \in [Readers -> Read]

Init ==
  /\ status = [i \in Ids |-> "absent"]
  /\ tokens = {}
  /\ reads = [h \in Readers |-> NoRead]

Exists(i) == status[i] \in {"active", "inactive"}

-----------------------------------------------------------------------------
(* The rows and the tokens *)

Turn(i, from, to) ==
  /\ status[i] = from
  /\ status' = [status EXCEPT ![i] = to]
  /\ UNCHANGED <<tokens, reads>>

Create(i) == Turn(i, "absent", "active")

\* Mutant: Update of admins commits.
SetActiveOfAny(i) ==
  /\ i \in Accounts
  /\ Turn(i, "active", "inactive") \/ Turn(i, "inactive", "active")

\* Update of a user with is_active.
SetActive(i) ==
  /\ i \in Users
  /\ Turn(i, "active", "inactive") \/ Turn(i, "inactive", "active")

\* Accounts are never deleted.
DeleteInvite(i) == i \in Invites /\ Turn(i, "active", "deleted")

\* Mutant: is_active is not looked at.
LoginAnyway(i) ==
  /\ i \in Accounts /\ Exists(i)
  /\ tokens' = tokens \cup {ClaimsOf(i)}
  /\ UNCHANGED <<status, reads>>

Login(i) ==
  /\ i \in Accounts /\ status[i] = "active"
  /\ tokens' = tokens \cup {ClaimsOf(i)}
  /\ UNCHANGED <<status, reads>>

ExpireToken(t) ==
  /\ t \in tokens
  /\ tokens' = tokens \ {t}
  /\ UNCHANGED <<status, reads>>

-----------------------------------------------------------------------------
(* The reads.  A reader's token is t, or NULL where none decodes. *)

At(h, pc) == reads[h].pc = pc

Answer(h, status_, rows) ==
  reads' = [reads EXCEPT ![h].pc = "done", ![h].reply = status_, ![h].shown = rows]

Refuse(h, table, t, status_) ==
  reads' = [reads EXCEPT ![h] =
    [NoRead EXCEPT !.pc = "done", !.table = table, !.caller = t, !.reply = status_]]

Select(h, table, t, i) ==
  reads' = [reads EXCEPT ![h] =
    [NoRead EXCEPT !.pc = "fetch", !.table = table, !.caller = t, !.target = i]]

\* With an id the row is selected before any token is asked for.  Without one,
\* the token of an admin says whose row is meant.
GetAdmin(h, t, i) ==
  /\ At(h, "idle")
  /\ \/ i # NULL /\ Select(h, "admins", t, i)
     \/ i = NULL /\ t = NULL /\ Refuse(h, "admins", t, "UNAUTHENTICATED")
     \/ i = NULL /\ t # NULL /\ t.role = NULL /\ Refuse(h, "admins", t, "PERMISSION_DENIED")
     \/ i = NULL /\ t # NULL /\ t.role # NULL /\ Select(h, "admins", t, t.sub)
  /\ UNCHANGED <<status, tokens>>

\* The token is decoded first, whoever signed it.
GetUser(h, t, i) ==
  /\ At(h, "idle")
  /\ \/ t = NULL /\ Refuse(h, "users", t, "UNAUTHENTICATED")
     \/ t # NULL /\ Select(h, "users", t, IF i = NULL THEN t.sub ELSE i)
  /\ UNCHANGED <<status, tokens>>

GetInvite(h, t, i) ==
  /\ At(h, "idle")
  /\ \/ t = NULL /\ Refuse(h, "admin_invites", t, "UNAUTHENTICATED")
     \/ t # NULL /\ ~IsSuperadmin(t) /\ Refuse(h, "admin_invites", t, "PERMISSION_DENIED")
     \/ /\ t # NULL /\ IsSuperadmin(t) /\ i = NULL
        /\ Refuse(h, "admin_invites", t, "INVALID_ARGUMENT")
     \/ t # NULL /\ IsSuperadmin(t) /\ i # NULL /\ Select(h, "admin_invites", t, i)
  /\ UNCHANGED <<status, tokens>>

\* The SELECT by id: what is decided from here on is decided on its row.
Fetch(h) ==
  LET c == reads[h]
      found == Exists(c.target) /\ Records[c.target].table = c.table
  IN /\ At(h, "fetch")
     /\ \/ ~found /\ Answer(h, "NOT_FOUND", {})
        \/ found /\ reads' = [reads EXCEPT ![h].pc = "authorize"]
     /\ UNCHANGED <<status, tokens>>

\* _require_admin_or_superadmin with target and platform: a superadmin, the
\* account itself, or whoever is on the platform of the row.
MayGet(t, i) ==
  \/ IsSuperadmin(t)
  \/ t.sub = i
  \/ Records[i].platform_id # NULL /\ t.platform_id = Records[i].platform_id

\* Mutant: Get of admins keeps the claims it began with.
AuthorizeOnce(h) ==
  LET c == reads[h]
      allowed == c.caller # NULL /\ (c.table = "admin_invites" \/ MayGet(c.caller, c.target))
  IN /\ At(h, "authorize")
     /\ \/ ~allowed /\ Answer(h, "PERMISSION_DENIED", {})
        \/ allowed /\ Answer(h, "OK", {c.target})
     /\ UNCHANGED <<status, tokens>>

\* Get of admins decodes the token now, perhaps for the second time; Get of
\* users uses the claims it decoded before the SELECT; invites are shown.
Authorize(h) ==
  LET c == reads[h]
      decodes == c.caller # NULL /\ (c.table = "admins" => c.caller \in tokens)
      allowed == c.table = "admin_invites" \/ MayGet(c.caller, c.target)
  IN /\ At(h, "authorize")
     /\ \/ ~decodes /\ Answer(h, "UNAUTHENTICATED", {})
        \/ decodes /\ ~allowed /\ Answer(h, "PERMISSION_DENIED", {})
        \/ decodes /\ allowed /\ Answer(h, "OK", {c.target})
     /\ UNCHANGED <<status, tokens>>

\* What a list is filtered by: a superadmin's own wish, or the admin's platform.
Scope(t, filter) == IF IsSuperadmin(t) THEN filter ELSE t.platform_id

\* Superadmins list everything, admins the accounts of their own platform;
\* other filters only narrow the rows down further.
List(h, table, t, filter) ==
  LET allowed == \/ IsSuperadmin(t)
                 \/ /\ table # "admin_invites" /\ t.role = "admin"
                    /\ filter \in {NULL, t.platform_id}
  IN /\ At(h, "idle")
     /\ \/ t = NULL /\ Refuse(h, table, t, "UNAUTHENTICATED")
        \/ t # NULL /\ ~allowed /\ Refuse(h, table, t, "PERMISSION_DENIED")
        \/ /\ t # NULL /\ allowed
           /\ reads' = [reads EXCEPT ![h] =
                [NoRead EXCEPT !.pc = "list", !.table = table, !.caller = t,
                               !.scope = Scope(t, filter)]]
     /\ UNCHANGED <<status, tokens>>

\* The WHERE of the list that c is.
Matching(c) ==
  {i \in Ids : /\ Exists(i) /\ Records[i].table = c.table
               /\ c.scope \in {NULL, Records[i].platform_id}}

\* The statement of a list: limit, offset and the other filters leave a part.
SelectRows(h) ==
  /\ At(h, "list")
  /\ \E rows \in SUBSET Matching(reads[h]) : Answer(h, "OK", rows)
  /\ UNCHANGED <<status, tokens>>

\* The database answers with an error, also to an id that is no UUID; a list
\* has perhaps streamed some of its rows by then.
StatementFails(h) ==
  LET status_ == IF reads[h].table = "admin_invites" THEN "INTERNAL" ELSE "UNKNOWN"
  IN /\ \/ At(h, "fetch") /\ Answer(h, status_, {})
        \/ At(h, "list") /\ \E rows \in SUBSET Matching(reads[h]) : Answer(h, status_, rows)
     /\ UNCHANGED <<status, tokens>>

\* The client has read the answer, or has not waited for it.
Leave(h) ==
  /\ ~At(h, "idle")
  /\ reads' = [reads EXCEPT ![h] = NoRead]
  /\ UNCHANGED <<status, tokens>>

ReadStep(h) ==
  \/ \E t \in tokens \cup {NULL}, i \in Ids \cup {NULL} :
       GetAdmin(h, t, i) \/ GetUser(h, t, i) \/ GetInvite(h, t, i)
  \/ \E t \in tokens \cup {NULL}, p \in PlatformIds \cup {NULL},
       table \in {"admins", "users", "admin_invites"} : List(h, table, t, p)
  \/ Fetch(h)
  \/ Authorize(h)
  \/ SelectRows(h)
  \/ StatementFails(h)
  \/ Leave(h)

Next ==
  \/ \E i \in Ids : Create(i) \/ SetActive(i) \/ DeleteInvite(i) \/ Login(i)
  \/ \E t \in tokens : ExpireToken(t)
  \/ \E h \in Readers : ReadStep(h)

Spec == Init /\ [][Next]_vars

\* Every token has an `exp`, and time passes.
FairSpec == Spec /\ \A t \in Claims : WF_vars(ExpireToken(t))

-----------------------------------------------------------------------------
(* Properties *)

\* The code says twice whom it lets read: "Authorize via helper: allow superadmin,
\* owner, or same-platform admin" (admin-service/app/services/admin.py:882,
\* user-service/app/services/user.py:700).  So a plain user is shown itself only.
OnlyAdminsSeeOthers ==
  \A h \in Readers : \A i \in reads[h].shown :
    LET me == reads[h].caller.sub IN me \in Users => i = me

\* A read for whose answer no token is asked any more: Get of admins decodes one
\* after its SELECT, the others decode it first and believe what it said.
PassedCheck(c) == c.pc = "list" \/ (c.pc \in {"fetch", "authorize"} /\ c.table # "admins")

\* Deactivated, with no token left and no read on its way that passed its check.
LockedOut(u) ==
  /\ status[u] = "inactive"
  /\ \A t \in tokens : t.sub # u
  /\ \A h \in Readers : PassedCheck(reads[h]) => reads[h].caller.sub # u

\* A user that is locked out stays so until it is activated again, and until then
\* is shown nothing more: not by a Login that overlaps, not by the token of the
\* other service, and not by a Get of admins that selected the row in time but
\* finds the token expired when it comes to decode it.
LockoutHolds ==
  [][\A u \in Users : LockedOut(u) =>
       /\ LockedOut(u)' \/ status'[u] = "active"
       /\ \A h \in Readers :
            reads'[h].shown # {} /\ reads'[h].caller.sub = u => reads'[h] = reads[h]]_vars

\* A user that stays deactivated ends up without a token: no login, and no
\* token signed before, outlives the deactivation for ever.
DeactivationTakesEffect ==
  \A u \in Users :
    <>[](status[u] = "inactive") => <>[](\A t \in tokens : t.sub # u)
=============================================================================
