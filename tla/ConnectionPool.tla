--------------------------- MODULE ConnectionPool ---------------------------
(***************************************************************************)
(* The asyncpg pool of one service and the handlers that share it.         *)
(* Database.setup creates the pool with its default size and no timeout on *)
(* acquire, and the server bounds neither the calls it serves at once nor  *)
(* their duration.  Most table methods hold one connection for one         *)
(* statement; `list` holds it while the client reads the stream; `update`  *)
(* with nothing to set calls `get`, which acquires a second connection     *)
(* while the first is held.                                                *)
(***************************************************************************)
EXTENDS Integers, FiniteSets

CONSTANTS
  Handlers,   \* bound: calls in progress at one time
  PoolSize    \* the pool's max_size

ASSUME PoolAssumption == IsFiniteSet(Handlers) /\ PoolSize \in Nat \ {0}

Kinds == {"statement", "stream", "empty_update"}

VARIABLES
  kind,   \* what the handler's call does with the pool
  pc,     \* where the handler is
  free,   \* connections in the pool's queue
  orphans \* connections held by suspended generators of calls that ended

vars == <<kind, pc, free, orphans>>

\* Where a handler holds one connection, and where it holds two.  A cancelled
\* handler still holds them until Postgres has answered the ROLLBACK and the
\* reset of each.
SinglePcs == {"outer", "acquire_inner", "commit", "release"}
DoublePcs == {"inner", "release_both"}
OuterPcs == SinglePcs \cup DoublePcs
Pcs == {"idle", "acquire"} \cup OuterPcs
Releasing == {"release", "release_both"}

\* The queue is never overdrawn and never holds more than the pool has.
TypeOK ==
  /\ kind \in [Handlers -> Kinds]
  /\ pc \in [Handlers -> Pcs]
  /\ free \in 0 .. PoolSize
  /\ orphans \in 0 .. PoolSize

Init ==
  /\ kind = [h \in Handlers |-> "statement"]
  /\ pc = [h \in Handlers |-> "idle"]
  /\ free = PoolSize
  /\ orphans = 0

Goto(h, from, to) ==
  /\ pc[h] = from
  /\ pc' = [pc EXCEPT ![h] = to]

\* The connections a handler holds: one inside each `async with` it is in.
Held(p) == CASE p \in DoublePcs -> 2 [] p \in SinglePcs -> 1 [] OTHER -> 0

\* Handlers that hold the connection they acquired first, and those of them
\* that hold a second one.
Outer == {h \in Handlers : pc[h] \in OuterPcs}
Inner == {h \in Handlers : pc[h] \in DoublePcs}

Arrive(h, k) ==
  /\ Goto(h, "idle", "acquire")
  /\ kind' = [kind EXCEPT ![h] = k]
  /\ UNCHANGED <<free, orphans>>

\* pool.acquire(): waits without a timeout until a connection is free.
Acquire(h) ==
  /\ free > 0
  /\ Goto(h, "acquire", "outer")
  /\ free' = free - 1
  /\ UNCHANGED <<kind, orphans>>

\* The statement is answered, and `async with` gives the connection back.
FinishStatement(h) ==
  /\ kind[h] = "statement"
  /\ Goto(h, "outer", "idle")
  /\ free' = free + 1
  /\ UNCHANGED <<kind, orphans>>

\* The client has read the last row of the stream.
FinishStream(h) ==
  /\ kind[h] = "stream"
  /\ Goto(h, "outer", "idle")
  /\ free' = free + 1
  /\ UNCHANGED <<kind, orphans>>

\* Mutant: the outer connection is given back before `get` is called, and
\* again when the update ends.
CallGetReleases(h) ==
  /\ kind[h] = "empty_update"
  /\ Goto(h, "outer", "acquire_inner")
  /\ free' = free + 1
  /\ UNCHANGED <<kind, orphans>>

\* `if not set_clauses: return await self.get(id)`, inside the transaction.
CallGet(h) ==
  /\ kind[h] = "empty_update"
  /\ Goto(h, "outer", "acquire_inner")
  /\ UNCHANGED <<kind, free, orphans>>

\* Mutant: `get` is given a connection that another task still uses.
AcquireInnerOverdraws(h) ==
  /\ Goto(h, "acquire_inner", "inner")
  /\ free' = free - 1
  /\ UNCHANGED <<kind, orphans>>

AcquireInner(h) ==
  /\ free > 0
  /\ Goto(h, "acquire_inner", "inner")
  /\ free' = free - 1
  /\ UNCHANGED <<kind, orphans>>

\* `get` returns and releases, then the empty transaction ends.
FinishGet(h) ==
  /\ Goto(h, "inner", "commit")
  /\ free' = free + 1
  /\ UNCHANGED <<kind, orphans>>

FinishUpdate(h) ==
  /\ Goto(h, "commit", "idle")
  /\ free' = free + 1
  /\ UNCHANGED <<kind, orphans>>

-----------------------------------------------------------------------------
(* Calls that end early *)

\* Mutant: the connection of a `get` that was waited for is forgotten.
CancelForgetsInner(h) ==
  /\ pc[h] \notin {"idle"} \cup Releasing
  /\ pc' = [pc EXCEPT ![h] = IF h \in Outer THEN "release" ELSE "idle"]
  /\ UNCHANGED <<kind, free, orphans>>

\* The client goes away, or the server is stopped: CancelledError is raised
\* where the handler awaits, and it begins to leave every `async with` it is in.
Cancel(h) ==
  /\ pc[h] \notin {"idle"} \cup Releasing
  /\ pc' = [pc EXCEPT ![h] = CASE h \in Inner -> "release_both"
                              [] h \in Outer \ Inner -> "release"
                              [] OTHER -> "idle"]
  /\ UNCHANGED <<kind, free, orphans>>

\* Leaving `async with` gives the connection back once Postgres has answered.
Release(h) ==
  /\ Goto(h, "release_both", "release") \/ Goto(h, "release", "idle")
  /\ free' = free + 1
  /\ UNCHANGED <<kind, orphans>>

\* Mutant: nothing finalizes the generators.
LeaveStreamForgets(h) ==
  /\ kind[h] = "stream"
  /\ Goto(h, "outer", "idle")
  /\ UNCHANGED <<kind, free, orphans>>

\* The call is cancelled while the server sends a row: the task ends, but the
\* generators of the handler and the table stay suspended at their `yield`,
\* inside `async with`.
LeaveStream(h) ==
  /\ kind[h] = "stream"
  /\ Goto(h, "outer", "idle")
  /\ orphans' = orphans + 1
  /\ UNCHANGED <<kind, free>>

\* The event loop closes generators nobody refers to, in a task of their own.
Finalize ==
  /\ orphans > 0
  /\ orphans' = orphans - 1
  /\ free' = free + 1
  /\ UNCHANGED <<kind, pc>>

\* The process ends and Postgres drops its connections; the next one creates a
\* pool of its own.
Restart ==
  /\ pc' = [h \in Handlers |-> "idle"]
  /\ free' = PoolSize
  /\ orphans' = 0
  /\ UNCHANGED kind

HandlerStep(h) ==
  \/ Acquire(h)
  \/ FinishStatement(h)
  \/ CallGet(h)
  \/ AcquireInner(h)
  \/ FinishGet(h)
  \/ FinishUpdate(h)

Next ==
  \/ \E h \in Handlers :
       \/ \E k \in Kinds : Arrive(h, k)
       \/ HandlerStep(h)
       \/ FinishStream(h)
       \/ Cancel(h)
       \/ Release(h)
       \/ LeaveStream(h)
  \/ Finalize
  \/ Restart

Spec == Init /\ [][Next]_vars

\* The loop resumes a task again and again whenever it can go on, and clients
\* read their streams to the end; they need not cancel.  Postgres answers, and
\* abandoned generators are finalized.
FairSpec ==
  /\ Spec
  /\ WF_vars(Finalize)
  /\ \A h \in Handlers :
       SF_vars(HandlerStep(h) \/ FinishStream(h)) /\ WF_vars(Release(h))

-----------------------------------------------------------------------------
\* Every connection is in the queue, held by the handler that acquired it, or by
\* a generator that outlived its call: none is lost and none is given back
\* twice, even when clients go away between the two acquisitions of an update
\* or in the middle of a stream.
ConnectionsConserved ==
  free + orphans + Cardinality(Outer) + Cardinality(Inner) = PoolSize

\* All connections are held by updates that wait for one more: no handler can
\* give one back, and only cancellation helps.
Blocked ==
  /\ free = 0 /\ orphans = 0
  /\ \A h \in Outer : pc[h] = "acquire_inner"

InProgress == {h \in Handlers : pc[h] # "idle"}

\* As long as fewer calls use the pool than it has connections it does not
\* block, even if it was full before.
NotBlocked == Cardinality(InProgress) < PoolSize => ~Blocked

\* A pool that is blocked stays so: nothing the handlers or new calls do gets
\* it going, only the end of one of the waiting updates, or of the process.
OnlyCancelUnblocks ==
  [][Blocked =>
       Blocked' \/ Restart \/ \E h \in Handlers : pc[h] = "acquire_inner" /\ Cancel(h)]_vars

\* tables/admin.py:264: update "return[s] the updated record".
UpdateReturns ==
  \A h \in Handlers : pc[h] = "acquire_inner" ~> pc[h] = "idle"
=============================================================================
