----------------------------- MODULE InviteGate -----------------------------
(***************************************************************************)
(* What onboarding promises, whatever the interleaving and the faults:     *)
(* one superadmin account is claimed once; only then are mailboxes         *)
(* invited; a mailbox joins a platform at most once and only if it was     *)
(* invited; an invitation counts as consumed only for a mailbox that       *)
(* joined.  It does not promise that an invitation admits only once, nor   *)
(* that it is still open when it admits: the services do not keep that.    *)
(***************************************************************************)
CONSTANTS Boxes, Sites

VARIABLES
  claimed,    \* the superadmin account exists
  invited,    \* the mailboxes that were ever invited
  members,    \* the accounts: <<mailbox, platform>>
  consumed    \* the mailboxes whose standing invitation is marked used

vars == <<claimed, invited, members, consumed>>

Init ==
  /\ claimed = FALSE
  /\ invited = {}
  /\ members = {}
  /\ consumed = {}

Claim ==
  /\ ~claimed
  /\ claimed' = TRUE
  /\ UNCHANGED <<invited, members, consumed>>

Invite(m) ==
  /\ claimed
  /\ invited' = invited \cup {m}
  /\ UNCHANGED <<claimed, members, consumed>>

Join(m, p) ==
  /\ m \in invited
  /\ <<m, p>> \notin members
  /\ members' = members \cup {<<m, p>>}
  /\ UNCHANGED <<claimed, invited, consumed>>

Consume(m) ==
  /\ \E p \in Sites : <<m, p>> \in members
  /\ consumed' = consumed \cup {m}
  /\ UNCHANGED <<claimed, invited, members>>

\* A used invitation is deleted: the mailbox may be invited anew.
Forget(m) ==
  /\ consumed' = consumed \ {m}
  /\ UNCHANGED <<claimed, invited, members>>

Next ==
  \/ Claim
  \/ \E m \in Boxes : Invite(m) \/ Consume(m) \/ Forget(m)
  \/ \E m \in Boxes, p \in Sites : Join(m, p)

Spec == Init /\ [][Next]_vars

\* What this comes to: nobody is invited before there is a superadmin, nobody
\* joins who was not invited, and no invitation is consumed in vain.
Safe ==
  /\ invited # {} => claimed
  /\ \A account \in members : account[1] \in invited
  /\ \A m \in consumed : \E p \in Sites : <<m, p>> \in members
=============================================================================
