---------------------------- MODULE MCUserService ----------------------------
(***************************************************************************)
(* Values of the constants of UserService for model checking.              *)
(***************************************************************************)
EXTENDS UserService, TLC

\* "Ann" and "ann" are one mailbox spelled twice.
MCLower == [e \in Emails |-> IF e = "Ann" THEN "ann" ELSE e]

\* The superadmin, and an admin of every platform.
MCAdminTokens ==
  {[sub |-> NULL, role |-> "admin", platform_id |-> p] : p \in Platforms}
    \cup {[sub |-> NULL, role |-> "superadmin", platform_id |-> NULL]}

NoChange == [email |-> NULL, password |-> NULL, first_name |-> NULL, is_active |-> NULL]
Valid(change) == [change |-> change, valid |-> TRUE]

Registration(e, p) ==
  [email |-> e, password |-> "old", first_name |-> "A", platform_id |-> p, valid |-> TRUE]

\* Two mailboxes, one in two spellings, on every platform.
Registers == {Registration(e, p) : e \in {"ann", "bob"}, p \in Platforms}

\* Each field alone; the new address is a mailbox that is taken, respelled.
Updates ==
  {Valid([NoChange EXCEPT !.first_name = "B"]), Valid([NoChange EXCEPT !.email = "Ann"]),
   Valid([NoChange EXCEPT !.is_active = FALSE]), Valid([NoChange EXCEPT !.is_active = TRUE])}

\* Everything a client can get wrong as well.
AllRegisters ==
  Registers \cup {Registration("ann", p) : p \in {Malformed, NULL} \cup PlatformIds}
    \cup {[Registration("ann", p) EXCEPT !.valid = FALSE] : p \in Platforms}
AllLogins ==
  [email : {"Ann", "bob"}, password : Passwords \cup {NULL},
   platform_id : Platforms \cup {NULL, Malformed}]
AllUpdates ==
  Updates \cup {Valid(NoChange),
                [change |-> [NoChange EXCEPT !.password = "new"], valid |-> FALSE]}

Symmetry == Permutations(UserIds) \cup Permutations(Handlers)
=============================================================================
