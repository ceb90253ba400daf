-------------------------- MODULE MCPlatformService --------------------------
(***************************************************************************)
(* PlatformService for model checking.                                     *)
(***************************************************************************)
EXTENDS PlatformService, TLC

\* "Site" and "site" are one domain spelled twice.
MCLower == [d \in Domains |-> IF d = "Site" THEN "site" ELSE d]

Symmetry == Permutations(PlatformIds)
=============================================================================
