------------------------------ MODULE MCPaging ------------------------------
(***************************************************************************)
(* Paging for model checking: only the keys tell rows apart.               *)
(***************************************************************************)
EXTENDS Paging, TLC

Symmetry == Permutations(Rows)
=============================================================================
