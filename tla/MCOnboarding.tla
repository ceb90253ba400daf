---------------------------- MODULE MCOnboarding ----------------------------
(***************************************************************************)
(* Values of the constants of Onboarding for model checking.  The requests *)
(* a run's clients may send are its bound: each run sends those its        *)
(* question is about.                                                      *)
(***************************************************************************)
EXTENDS Onboarding, TLC

\* "Bob" and "bob" are one mailbox spelled twice.
MCLower == [e \in Emails |-> IF e = "Bob" THEN "bob" ELSE e]

Register(e, p) == [email |-> e, platform_id |-> p, valid |-> TRUE]
SignIn(e, p) == [email |-> e, platform_id |-> p, credentials |-> "right"]
InviteTo(e, p) == [email |-> e, platform_id |-> p]

\* The superadmin, and one mailbox that registers on every platform.
Registers == {Register("root", NULL)} \cup {Register("bob", p) : p \in PlatformIds}
RootSignsIn == {SignIn("root", NULL)}
NoUpdates == {}
InviteBob == {InviteTo("Bob", p) : p \in Platforms}
InviteBobAndRoot == InviteBob \cup {InviteTo("root", p) : p \in Platforms}
Unscoped == {NULL}

\* Register never reads for which platform an invite is; where no property does
\* either, one stands for all.
InviteBobToOne == {InviteTo("Bob", CHOOSE p \in Platforms : TRUE)}

\* Everything a client can get wrong as well.
AnyScope == PlatformIds \cup {NULL, Malformed}
AllRegisters == [email : {"root", "bob"}, platform_id : AnyScope, valid : BOOLEAN]
AllSignIns == [email : Emails, platform_id : AnyScope, credentials : Credentials]
AllUpdates == [fields : {{}, {"email"}, {"platform_id"}, {"is_active"}}, valid : BOOLEAN]
AllInvites == [email : {"root", "Bob"}, platform_id : AnyScope]
AllScopes == PlatformIds \cup {NULL}
Renames == {[fields |-> {"first_name"}, valid |-> TRUE]}

\* Ids and handlers are interchangeable: no definition tells them apart.
RowSymmetry == Permutations(AdminIds) \cup Permutations(InviteIds)
Symmetry == RowSymmetry \cup Permutations(Handlers)
SymmetryWithPlatforms == Symmetry \cup Permutations(Platforms)
=============================================================================
