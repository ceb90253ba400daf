----------------------------- MODULE MCDirectory -----------------------------
(***************************************************************************)
(* Directory for model checking: every kind of row on a platform, and a    *)
(* user on another one.  Reads change nothing, so one at a time is enough. *)
(***************************************************************************)
EXTENDS Directory, TLC

CONSTANTS root, admin, user, other, invite, p1, p2

On(table, p) == [table |-> table, is_superadmin |-> p = NULL, platform_id |-> p]

MCRecords ==
  root :> On("admins", NULL) @@ admin :> On("admins", p1) @@ user :> On("users", p1)
    @@ other :> On("users", p2) @@ invite :> On("admin_invites", p1)
=============================================================================
