------------------------- MODULE AdminInviteService -------------------------
(***************************************************************************)
(* admin-invite-service: a superadmin issues and withdraws admin invites.  *)
(* Create and Delete check the bearer token without the database and then  *)
(* issue one statement, so each is one step; the answer of the last call   *)
(* is kept in inviteCall.  Get and List only read.                         *)
(***************************************************************************)
EXTENDS AdminService

CONSTANTS
  CreateRequests, DeleteScopes    \* bound: what clients send

ASSUME InviteServiceAssumption ==
  /\ CreateRequests \subseteq [email : Emails, platform_id : PlatformArguments]
  /\ DeleteScopes \subseteq PlatformIds \cup {NULL}

VARIABLE inviteCall    \* the call answered last, until its client has read it

InviteOutcomes ==
  {"OK", "PERMISSION_DENIED", "INVALID_ARGUMENT", "ALREADY_EXISTS", "INTERNAL",
   "NOT_FOUND"}

NoInviteCall ==
  [op |-> "none", invite |-> NULL, platform_id |-> NULL, reply |-> "none"]

InviteCall ==
  [op : {"none", "Create", "Delete"}, invite : InviteIds \cup {NULL},
   platform_id : PlatformIds \cup {NULL}, reply : InviteOutcomes \cup {"none"}]

InviteServiceTypeOK == inviteCall \in InviteCall

InviteServiceInit == inviteCall = NoInviteCall

InviteReply(op, invite, platform, status) ==
  inviteCall' = [op |-> op, invite |-> invite, platform_id |-> platform,
                 reply |-> status]

\* Mutant: any token that decodes will do.
AnyToken(t) == TRUE

\* _require_superadmin: the claim is believed, the row is not read.
SuperadminToken(t) == t.is_superadmin

\* Create: superadmin token, AdminInviteCreate (platform_id is required), then
\* the INSERT.  The inviter is the subject of the token.
CreateInvite(t, r) ==
  LET reply(status) == InviteReply("Create", NULL, NULL, status)
      valid == SuperadminToken(t) /\ r.platform_id \in PlatformIds
      referenced == r.platform_id \in Platforms /\ IsAdmin(t.sub)
  IN /\ inviteCall = NoInviteCall
     /\ t \in tokens
     /\ \/ ~SuperadminToken(t) /\ reply("PERMISSION_DENIED") /\ UNCHANGED invites
        \/ SuperadminToken(t) /\ ~valid /\ reply("INVALID_ARGUMENT") /\ UNCHANGED invites
        \/ valid /\ InviteConflict(r.email) /\ reply("ALREADY_EXISTS") /\ UNCHANGED invites
        \/ /\ valid /\ ~InviteConflict(r.email) /\ ~referenced
           /\ reply("INTERNAL")
           /\ UNCHANGED invites
        \/ /\ valid /\ ~InviteConflict(r.email) /\ referenced
           /\ reply("OK")
           /\ InsertInvite(r.email, t.sub, r.platform_id)
     /\ UNCHANGED <<admins, adminServiceVars>>

\* Delete: superadmin token, an id, then DELETE ... WHERE id = $1.  The
\* request's platform_id takes no part.
DeleteInvite(t, i, platform) ==
  LET reply(status) == InviteReply("Delete", i, platform, status) IN
  /\ inviteCall = NoInviteCall
  /\ t \in tokens
  /\ \/ ~SuperadminToken(t) /\ reply("PERMISSION_DENIED") /\ UNCHANGED invites
     \/ SuperadminToken(t) /\ i = NULL /\ reply("INVALID_ARGUMENT") /\ UNCHANGED invites
     \/ /\ SuperadminToken(t) /\ i # NULL /\ ~IsInvite(i)
        /\ reply("NOT_FOUND")
        /\ UNCHANGED invites
     \/ /\ SuperadminToken(t) /\ i # NULL /\ IsInvite(i)
        /\ reply("OK")
        /\ RemoveInvite(i)
  /\ UNCHANGED <<admins, adminServiceVars>>

\* Either statement raises, after the server did its work or before.
InviteStatementFails(t) ==
  /\ "statement" \in Faults
  /\ inviteCall = NoInviteCall
  /\ t \in tokens
  /\ SuperadminToken(t)
  /\ \/ InviteReply("Create", NULL, NULL, "INTERNAL") /\ UNCHANGED invites
     \/ \E r \in CreateRequests :
          /\ r.platform_id \in Platforms /\ IsAdmin(t.sub) /\ ~InviteConflict(r.email)
          /\ InsertInvite(r.email, t.sub, r.platform_id)
          /\ InviteReply("Create", NULL, NULL, "INTERNAL")
     \/ \E i \in InviteIds :
          /\ InviteReply("Delete", i, NULL, "INTERNAL")
          /\ IF IsInvite(i) THEN RemoveInvite(i) \/ UNCHANGED invites
                            ELSE UNCHANGED invites
  /\ UNCHANGED <<admins, adminServiceVars>>

\* The client has read the answer.
CollectInvite ==
  /\ inviteCall # NoInviteCall
  /\ inviteCall' = NoInviteCall
  /\ UNCHANGED <<tables, adminServiceVars>>

InviteServiceNext ==
  \/ \E t \in tokens :
       \/ \E r \in CreateRequests : CreateInvite(t, r)
       \/ \E i \in InviteIds \cup {NULL}, p \in DeleteScopes : DeleteInvite(t, i, p)
       \/ InviteStatementFails(t)
  \/ CollectInvite
=============================================================================
