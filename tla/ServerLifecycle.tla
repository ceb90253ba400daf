-------------------------- MODULE ServerLifecycle --------------------------
(***************************************************************************)
(* The process of one service, from `serve` to its end, around the pool of *)
(* ConnectionPool.  All four services share this code (app/server.py and   *)
(* app/db/pool.py).  A call is a task of the gRPC server; it uses the pool *)
(* as often as it likes until it ends.                                     *)
(*                                                                         *)
(* SIGINT cancels the main task, which then stops the server with a grace  *)
(* period of five seconds and closes the pool.  Everything else that ends  *)
(* the process (SIGTERM, which python does not turn into a cancellation,   *)
(* SIGKILL, a second SIGINT, an exception) skips both.                     *)
(***************************************************************************)
EXTENDS ConnectionPool

VARIABLES
  phase,    \* where `serve` is
  active,   \* the calls whose task has not ended
  aborted   \* the calls whose task the client or `server.stop` has cancelled

lifeVars == <<kind, pc, free, orphans, phase, active, aborted>>

Phases == {"exited", "starting", "serving", "grace", "aborting", "closing"}

\* Only calls use the pool, only cancelled ones leave it early, and a process
\* that serves nobody has nothing left of a call.
LifeTypeOK ==
  /\ phase \in Phases
  /\ active \subseteq Handlers
  /\ aborted \subseteq active
  /\ \A h \in Handlers : pc[h] # "idle" => h \in active
  /\ \A h \in Handlers : pc[h] \in Releasing => h \in aborted
  /\ phase \in {"exited", "starting"} => active = {} /\ orphans = 0

LifeInit ==
  /\ Init
  /\ phase = "exited"
  /\ active = {}
  /\ aborted = {}

Enter(from, to) ==
  /\ phase = from
  /\ phase' = to

\* An operator starts the container: nothing restarts it.
Start ==
  /\ Enter("exited", "starting")
  /\ UNCHANGED <<vars, active, aborted>>

\* `await database.setup()` connects, and `server.start` accepts calls.
SetupCompletes ==
  /\ Enter("starting", "serving")
  /\ UNCHANGED <<vars, active, aborted>>

\* Postgres does not answer: `setup` logs the exception and raises it again.
SetupFails ==
  /\ Enter("starting", "exited")
  /\ UNCHANGED <<vars, active, aborted>>

BeginCall(h) ==
  /\ phase = "serving"
  /\ h \notin active
  /\ active' = active \cup {h}
  /\ UNCHANGED <<vars, phase, aborted>>

\* Mutant: the handler answers without awaiting its statement.
EndCallEarly(h) ==
  /\ h \in active \ aborted
  /\ active' = active \ {h}
  /\ UNCHANGED <<vars, phase, aborted>>

\* The handler returns its response.
EndCall(h) ==
  /\ h \in active \ aborted
  /\ pc[h] = "idle"
  /\ active' = active \ {h}
  /\ UNCHANGED <<vars, phase, aborted>>

\* The client cancels, or its deadline passes: the task is cancelled.
ClientCancels(h) ==
  /\ h \in active \ aborted
  /\ aborted' = aborted \cup {h}
  /\ UNCHANGED <<vars, phase, active>>

\* A cancelled task is resumed: with CancelledError where it awaits, or, when
\* the server was sending a row of its stream, not at all.
Unwind(h) ==
  /\ h \in aborted
  /\ Cancel(h) \/ LeaveStream(h)
  /\ UNCHANGED <<phase, active, aborted>>

LeaveContext(h) ==
  /\ h \in aborted
  /\ Release(h)
  /\ UNCHANGED <<phase, active, aborted>>

\* The task of a cancelled call has left every `async with`, and is done.
EndTask(h) ==
  /\ h \in aborted
  /\ pc[h] = "idle"
  /\ active' = active \ {h}
  /\ aborted' = aborted \ {h}
  /\ UNCHANGED <<vars, phase>>

FinalizeStream ==
  /\ Finalize
  /\ UNCHANGED <<phase, active, aborted>>

\* Mutant: a handler catches the cancellation and goes on.
UsePoolAnyway(h) ==
  /\ h \in active
  /\ \/ \E k \in Kinds : Arrive(h, k)
     \/ HandlerStep(h)
     \/ FinishStream(h)
  /\ UNCHANGED <<phase, active, aborted>>

UsePool(h) ==
  /\ h \in active \ aborted
  /\ \/ \E k \in Kinds : Arrive(h, k)
     \/ HandlerStep(h)
     \/ FinishStream(h)
  /\ UNCHANGED <<phase, active, aborted>>

\* Mutant: the pool is closed before the server is stopped.
InterruptCloses ==
  /\ Enter("serving", "closing")
  /\ UNCHANGED <<vars, active, aborted>>

\* SIGINT: `wait_for_termination` raises CancelledError and `server.stop`
\* accepts no new calls.
Interrupt ==
  /\ Enter("serving", "grace")
  /\ UNCHANGED <<vars, active, aborted>>

\* Every call ended in time.
Drained ==
  /\ active = {}
  /\ Enter("grace", "closing")
  /\ UNCHANGED <<vars, active, aborted>>

\* Mutant: `stop` returns at the end of the grace period and leaves the calls.
GraceAbortsNone ==
  /\ Enter("grace", "aborting")
  /\ UNCHANGED <<vars, active, aborted>>

\* The grace period is over: the server cancels the calls that are left.
GraceExpires ==
  /\ Enter("grace", "aborting")
  /\ aborted' = active
  /\ UNCHANGED <<vars, active>>

\* `server.stop` returns, perhaps before the cancelled tasks have run, and
\* `database.close` begins.
StopReturns ==
  /\ Enter("aborting", "closing")
  /\ UNCHANGED <<vars, active, aborted>>

EndProcess ==
  /\ phase' = "exited"
  /\ active' = {}
  /\ aborted' = {}
  /\ Restart

\* `pool.close` waits until every connection was given back.
CloseCompletes ==
  /\ phase = "closing"
  /\ Outer = {} /\ orphans = 0
  /\ EndProcess

Kill ==
  /\ phase # "exited"
  /\ EndProcess

LifeNext ==
  \/ Start
  \/ SetupCompletes
  \/ SetupFails
  \/ \E h \in Handlers :
       \/ BeginCall(h)
       \/ UsePool(h)
       \/ EndCall(h)
       \/ ClientCancels(h)
       \/ Unwind(h)
       \/ LeaveContext(h)
       \/ EndTask(h)
  \/ FinalizeStream
  \/ Interrupt
  \/ Drained
  \/ GraceExpires
  \/ StopReturns
  \/ CloseCompletes
  \/ Kill

LifeSpec == LifeInit /\ [][LifeNext]_lifeVars

\* The timer of the grace period fires, `serve` goes on, and the loop runs the
\* tasks it cancelled and finalizes the generators they left.  Postgres answers
\* the ROLLBACK and the reset with which a cancelled call and a generator leave
\* `async with`.  Nothing is assumed of clients, nor of Postgres and the
\* handlers as to calls that were not cancelled.
LifeFairness ==
  /\ WF_lifeVars(GraceExpires)
  /\ WF_lifeVars(StopReturns)
  /\ WF_lifeVars(CloseCompletes)
  /\ WF_lifeVars(FinalizeStream)
  /\ \A h \in Handlers :
       /\ WF_lifeVars(Unwind(h))
       /\ WF_lifeVars(LeaveContext(h))

LifeFairSpec == LifeSpec /\ LifeFairness

-----------------------------------------------------------------------------
\* server.py:98-101: the pool is closed under a call only after the server has
\* cancelled that call: a call that may still answer can still use the pool,
\* however the interrupt, the end of the grace period and the calls interleave.
GraceIsKept == phase = "closing" => active \subseteq aborted

\* While the pool is being closed, calls only leave it: none asks it for a
\* connection, which asyncpg would refuse with an exception of its own, and none
\* goes on with the one it has.
ClosingOnlyDrains ==
  [][phase = "closing" =>
       \A h \in Handlers : pc'[h] \in {pc[h], "idle"} \cup Releasing]_lifeVars

\* An interrupted server ends, though clients never read their streams and
\* handlers wait for each other's connections for ever.
ShutdownEnds == phase = "grace" ~> phase = "exited"
=============================================================================
