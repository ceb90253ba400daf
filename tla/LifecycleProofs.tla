-------------------------- MODULE LifecycleProofs --------------------------
(***************************************************************************)
(* Proofs about ConnectionPool and about ServerLifecycle around it, for    *)
(* every number of handlers and every pool size.  The pool loses and       *)
(* duplicates no connection, and with fewer calls in progress than         *)
(* connections it never blocks.  A stop aborts the calls before it closes  *)
(* the pool under them, and the pool's theorems hold across restarts.      *)
(***************************************************************************)
EXTENDS ServerLifecycle, FiniteSetTheorems, TLAPS

-----------------------------------------------------------------------------
(* The pool *)

\* How many connections go with each place a handler can be in.
LEMMA HeldValues ==
  /\ Held("idle") = 0 /\ Held("acquire") = 0
  /\ Held("outer") = 1 /\ Held("acquire_inner") = 1 /\ Held("commit") = 1
  /\ Held("release") = 1 /\ Held("inner") = 2 /\ Held("release_both") = 2
BY DEF Held, SinglePcs, DoublePcs

\* How one handler's move changes the number of connections held.
LEMMA MoveCounts ==
  ASSUME TypeOK, NEW h \in Handlers, NEW to \in Pcs, pc' = [pc EXCEPT ![h] = to]
  PROVE  /\ Cardinality(Outer) \in Nat /\ Cardinality(Inner) \in Nat
         /\ Cardinality(Outer)' = Cardinality(Outer)
              + (IF to \in OuterPcs THEN 1 ELSE 0) - (IF pc[h] \in OuterPcs THEN 1 ELSE 0)
         /\ Cardinality(Inner)' = Cardinality(Inner)
              + (IF to \in DoublePcs THEN 1 ELSE 0) - (IF pc[h] \in DoublePcs THEN 1 ELSE 0)
         /\ pc' \in [Handlers -> Pcs]
<1>1. IsFiniteSet(Outer) /\ IsFiniteSet(Inner)
  <2>1. Outer \in SUBSET Handlers /\ Inner \in SUBSET Handlers
    BY DEF Outer, Inner
  <2>2. QED
    BY <2>1, FS_Subset, PoolAssumption
<1>2. Cardinality(Outer) \in Nat /\ Cardinality(Inner) \in Nat
  BY <1>1, FS_CardinalityType
<1>3. Outer' = IF to \in OuterPcs THEN Outer \cup {h} ELSE Outer \ {h}
  BY DEF Outer, TypeOK
<1>4. Inner' = IF to \in DoublePcs THEN Inner \cup {h} ELSE Inner \ {h}
  BY DEF Inner, TypeOK
<1>5. h \in Outer <=> pc[h] \in OuterPcs
  BY DEF Outer
<1>6. h \in Inner <=> pc[h] \in DoublePcs
  BY DEF Inner
<1>7. /\ Cardinality(Outer \cup {h}) = IF h \in Outer THEN Cardinality(Outer) ELSE Cardinality(Outer) + 1
      /\ Cardinality(Outer \ {h}) = IF h \in Outer THEN Cardinality(Outer) - 1 ELSE Cardinality(Outer)
      /\ Cardinality(Inner \cup {h}) = IF h \in Inner THEN Cardinality(Inner) ELSE Cardinality(Inner) + 1
      /\ Cardinality(Inner \ {h}) = IF h \in Inner THEN Cardinality(Inner) - 1 ELSE Cardinality(Inner)
  BY <1>1, FS_AddElement, FS_RemoveElement
<1>8. Cardinality(Outer)' = Cardinality(Outer)
        + (IF to \in OuterPcs THEN 1 ELSE 0) - (IF pc[h] \in OuterPcs THEN 1 ELSE 0)
  BY <1>2, <1>3, <1>5, <1>7
<1>9. Cardinality(Inner)' = Cardinality(Inner)
        + (IF to \in DoublePcs THEN 1 ELSE 0) - (IF pc[h] \in DoublePcs THEN 1 ELSE 0)
  BY <1>2, <1>4, <1>6, <1>7
<1>10. pc' \in [Handlers -> Pcs]
  BY DEF TypeOK
<1>11. QED
  BY <1>2, <1>8, <1>9, <1>10

IInv == TypeOK /\ ConnectionsConserved

LEMMA InitInvariant == Init => IInv
<1> SUFFICES ASSUME Init PROVE IInv
  OBVIOUS
<1>1. TypeOK
  BY PoolAssumption DEF Init, TypeOK, Kinds, Pcs
<1>2. Outer = {} /\ Inner = {}
  BY DEF Init, Outer, Inner, OuterPcs, SinglePcs, DoublePcs
<1>3. ConnectionsConserved
  BY <1>2, FS_EmptySet, PoolAssumption DEF ConnectionsConserved, Init
<1>4. QED
  BY <1>1, <1>3 DEF IInv

\* A handler that moves between pcs, and settles the difference with the pool,
\* keeps the invariant.
LEMMA MoveKeepsInvariant ==
  ASSUME IInv, NEW h \in Handlers, NEW to \in Pcs,
         pc' = [pc EXCEPT ![h] = to], kind' \in [Handlers -> Kinds],
         orphans' \in Nat, free' >= 0,
         free' + orphans' = free + orphans + Held(pc[h]) - Held(to), free' \in Int
  PROVE  IInv'
<1>1. /\ TypeOK /\ free \in Int /\ orphans \in Int
      /\ free + orphans + Cardinality(Outer) + Cardinality(Inner) = PoolSize
  BY DEF IInv, TypeOK, ConnectionsConserved
<1>2. /\ Cardinality(Outer) \in Nat /\ Cardinality(Inner) \in Nat
      /\ Cardinality(Outer)' = Cardinality(Outer)
           + (IF to \in OuterPcs THEN 1 ELSE 0) - (IF pc[h] \in OuterPcs THEN 1 ELSE 0)
      /\ Cardinality(Inner)' = Cardinality(Inner)
           + (IF to \in DoublePcs THEN 1 ELSE 0) - (IF pc[h] \in DoublePcs THEN 1 ELSE 0)
      /\ pc' \in [Handlers -> Pcs]
  BY <1>1, MoveCounts
<1>3. /\ pc[h] \in Pcs
      /\ Held(pc[h]) = (IF pc[h] \in OuterPcs THEN 1 ELSE 0) + (IF pc[h] \in DoublePcs THEN 1 ELSE 0)
      /\ Held(to) = (IF to \in OuterPcs THEN 1 ELSE 0) + (IF to \in DoublePcs THEN 1 ELSE 0)
  BY <1>1 DEF TypeOK, Held, Pcs, OuterPcs, SinglePcs, DoublePcs
<1>4. free' + orphans' + Cardinality(Outer)' + Cardinality(Inner)' = PoolSize
  <2>1. Cardinality(Outer)' + Cardinality(Inner)'
          = Cardinality(Outer) + Cardinality(Inner) + Held(to) - Held(pc[h])
    BY <1>2, <1>3
  <2>2. /\ Held(to) \in Nat /\ Held(pc[h]) \in Nat
        /\ Cardinality(Outer)' \in Int /\ Cardinality(Inner)' \in Int
    BY <1>2, <1>3 DEF Held
  <2>3. QED
    BY <1>1, <1>2, <2>1, <2>2
<1>5. Outer' \in SUBSET Handlers /\ Inner' \in SUBSET Handlers
  BY DEF Outer, Inner
<1>6. Cardinality(Outer)' \in Nat /\ Cardinality(Inner)' \in Nat
  BY <1>5, FS_Subset, FS_CardinalityType, PoolAssumption
<1>7. free' \in 0 .. PoolSize /\ orphans' \in 0 .. PoolSize
  BY <1>4, <1>6, PoolAssumption
<1>8. QED
  BY <1>2, <1>4, <1>7 DEF IInv, TypeOK, ConnectionsConserved

LEMMA StepInvariant == IInv /\ [Next]_vars => IInv'
<1> SUFFICES ASSUME IInv, [Next]_vars PROVE IInv'
  OBVIOUS
<1>0. /\ pc \in [Handlers -> Pcs] /\ kind \in [Handlers -> Kinds]
      /\ free \in Nat /\ orphans \in Nat
  BY PoolAssumption DEF IInv, TypeOK
<1> DEFINE Settled(h, to) ==
      /\ pc' = [pc EXCEPT ![h] = to] /\ kind' \in [Handlers -> Kinds]
      /\ free' \in Int /\ free' >= 0 /\ orphans' \in Nat
      /\ free' + orphans' = free + orphans + Held(pc[h]) - Held(to)
<1>1. ASSUME NEW h \in Handlers, NEW to \in Pcs, Settled(h, to)
      PROVE  IInv'
  BY <1>1, MoveKeepsInvariant
<1>2. CASE UNCHANGED vars
  BY <1>2 DEF vars, IInv, TypeOK, ConnectionsConserved, Outer, Inner
<1>3. ASSUME NEW h \in Handlers, NEW k \in Kinds, Arrive(h, k)
      PROVE  IInv'
  <2>1. Settled(h, "acquire") /\ "acquire" \in Pcs
    BY <1>0, <1>3, HeldValues DEF Arrive, Goto, Pcs
  <2>2. QED
    BY <2>1, <1>1
<1>4. ASSUME NEW h \in Handlers, HandlerStep(h)
      PROVE  IInv'
  <2>1. CASE Acquire(h)
    <3>1. Settled(h, "outer") /\ "outer" \in Pcs
      BY <1>0, <2>1, HeldValues DEF Acquire, Goto, Pcs, OuterPcs, SinglePcs, DoublePcs
    <3>2. QED
      BY <3>1, <1>1
  <2>2. CASE FinishStatement(h)
    <3>1. Settled(h, "idle") /\ "idle" \in Pcs
      BY <1>0, <2>2, HeldValues DEF FinishStatement, Goto, Pcs, OuterPcs, SinglePcs, DoublePcs
    <3>2. QED
      BY <3>1, <1>1
  <2>3. CASE CallGet(h)
    <3>1. Settled(h, "acquire_inner") /\ "acquire_inner" \in Pcs
      BY <1>0, <2>3, HeldValues DEF CallGet, Goto, Pcs, OuterPcs, SinglePcs, DoublePcs
    <3>2. QED
      BY <3>1, <1>1
  <2>4. CASE AcquireInner(h)
    <3>1. Settled(h, "inner") /\ "inner" \in Pcs
      BY <1>0, <2>4, HeldValues DEF AcquireInner, Goto, Pcs, OuterPcs, SinglePcs, DoublePcs
    <3>2. QED
      BY <3>1, <1>1
  <2>5. CASE FinishGet(h)
    <3>1. Settled(h, "commit") /\ "commit" \in Pcs
      BY <1>0, <2>5, HeldValues DEF FinishGet, Goto, Pcs, OuterPcs, SinglePcs, DoublePcs
    <3>2. QED
      BY <3>1, <1>1
  <2>6. CASE FinishUpdate(h)
    <3>1. Settled(h, "idle") /\ "idle" \in Pcs
      BY <1>0, <2>6, HeldValues DEF FinishUpdate, Goto, Pcs, OuterPcs, SinglePcs, DoublePcs
    <3>2. QED
      BY <3>1, <1>1
  <2>7. QED
    BY <1>4, <2>1, <2>2, <2>3, <2>4, <2>5, <2>6 DEF HandlerStep
<1>5. ASSUME NEW h \in Handlers, FinishStream(h)
      PROVE  IInv'
  <2>1. Settled(h, "idle") /\ "idle" \in Pcs
    BY <1>0, <1>5, HeldValues DEF FinishStream, Goto, Pcs
  <2>2. QED
    BY <2>1, <1>1
<1>6. ASSUME NEW h \in Handlers, Cancel(h)
      PROVE  IInv'
  <2>1. PICK to \in Pcs : pc' = [pc EXCEPT ![h] = to] /\ Held(to) = Held(pc[h])
    BY <1>0, <1>6, HeldValues
       DEF Cancel, Outer, Inner, Held, Pcs, OuterPcs, SinglePcs, DoublePcs
  <2>2. Held(to) \in Nat
    BY DEF Held
  <2>3. UNCHANGED <<kind, free, orphans>>
    BY <1>6 DEF Cancel
  <2>4. Settled(h, to)
    BY <1>0, <2>1, <2>2, <2>3
  <2>5. QED
    BY <2>4, <1>1
<1>7. ASSUME NEW h \in Handlers, Release(h)
      PROVE  IInv'
  <2>1. CASE Goto(h, "release_both", "release")
    <3>1. Settled(h, "release") /\ "release" \in Pcs
      BY <1>0, <1>7, <2>1, HeldValues DEF Release, Goto, Pcs, OuterPcs, SinglePcs
    <3>2. QED
      BY <3>1, <1>1
  <2>2. CASE Goto(h, "release", "idle")
    <3>1. Settled(h, "idle") /\ "idle" \in Pcs
      BY <1>0, <1>7, <2>2, HeldValues DEF Release, Goto, Pcs
    <3>2. QED
      BY <3>1, <1>1
  <2>3. QED
    BY <1>7, <2>1, <2>2 DEF Release
<1>8. ASSUME NEW h \in Handlers, LeaveStream(h)
      PROVE  IInv'
  <2>1. Settled(h, "idle") /\ "idle" \in Pcs
    BY <1>0, <1>8, HeldValues DEF LeaveStream, Goto, Pcs
  <2>2. QED
    BY <2>1, <1>1
<1>9. CASE Finalize
  <2>1. free' + orphans' = free + orphans /\ Outer' = Outer /\ Inner' = Inner
    BY <1>0, <1>9 DEF Finalize, Outer, Inner
  <2>2. ConnectionsConserved'
    BY <1>0, <1>9, <2>1, PoolAssumption DEF IInv, ConnectionsConserved, Finalize
  <2>3. Cardinality(Outer) \in Nat /\ Cardinality(Inner) \in Nat
    <3>1. Outer \in SUBSET Handlers /\ Inner \in SUBSET Handlers
      BY DEF Outer, Inner
    <3>2. QED
      BY <3>1, FS_Subset, FS_CardinalityType, PoolAssumption
  <2>4. free' \in 0 .. PoolSize /\ orphans' \in 0 .. PoolSize
    BY <1>0, <1>9, <2>3, PoolAssumption DEF IInv, ConnectionsConserved, Finalize
  <2>5. QED
    BY <1>0, <1>9, <2>2, <2>4 DEF IInv, TypeOK, Finalize
<1>10. CASE Restart
  <2>1. TypeOK'
    BY <1>0, <1>10, PoolAssumption DEF Restart, TypeOK, Pcs
  <2>2. Outer' = {} /\ Inner' = {}
    BY <1>10 DEF Restart, Outer, Inner, OuterPcs, SinglePcs, DoublePcs
  <2>3. Cardinality(Outer') = 0 /\ Cardinality(Inner') = 0
    BY <2>2, FS_EmptySet
  <2>4. ConnectionsConserved'
    BY <1>10, <2>3, PoolAssumption DEF Restart, ConnectionsConserved
  <2>5. QED
    BY <2>1, <2>4 DEF IInv
<1>11. QED
  BY <1>2, <1>3, <1>4, <1>5, <1>6, <1>7, <1>8, <1>9, <1>10 DEF Next

\* Handlers are where the code can be, and the queue of the pool is neither
\* overdrawn nor holds more than the pool has: the latter because of what the
\* handlers hold, so that it cannot be shown without the conservation.
THEOREM PoolTypeCorrect == Spec => []TypeOK
<1>1. IInv => TypeOK
  BY DEF IInv
<1>2. QED
  BY <1>1, InitInvariant, StepInvariant, PTL DEF Spec

\* Every connection is free, held by exactly the handler that acquired it, or
\* left with a generator that is still to be finalized, whatever mixture of
\* statements, streams, updates and cancellations runs.
THEOREM Conservation == Spec => []ConnectionsConserved
<1>1. IInv => ConnectionsConserved
  BY DEF IInv
<1>2. QED
  BY <1>1, InitInvariant, StepInvariant, PTL DEF Spec

\* The nested acquire of `update` cannot block the pool as long as fewer calls
\* than connections are in progress: the blocked handlers hold one each.
THEOREM NoBlockade == Spec => []NotBlocked
<1>1. IInv => NotBlocked
  <2> SUFFICES ASSUME IInv, Cardinality(InProgress) < PoolSize, Blocked
               PROVE  FALSE
    BY DEF NotBlocked
  <2>1. Inner = {}
    BY DEF Blocked, Inner, Outer, OuterPcs, DoublePcs
  <2>2. Cardinality(Inner) = 0
    BY <2>1, FS_EmptySet
  <2>3. Outer \subseteq InProgress /\ InProgress \subseteq Handlers
    BY DEF Outer, OuterPcs, SinglePcs, DoublePcs, InProgress
  <2>4. /\ Cardinality(Outer) <= Cardinality(InProgress)
        /\ Cardinality(Outer) \in Nat /\ Cardinality(InProgress) \in Nat
    BY <2>3, FS_Subset, FS_CardinalityType, PoolAssumption
  <2>5. QED
    BY <2>2, <2>4, PoolAssumption DEF IInv, ConnectionsConserved, Blocked
<1>2. QED
  BY <1>1, InitInvariant, StepInvariant, PTL DEF Spec

\* In a blocked pool every handler is idle or waits for a connection.
LEMMA BlockedStays ==
  ASSUME TypeOK, [Next]_vars, Blocked
  PROVE  Blocked' \/ Restart \/ \E h \in Handlers : pc[h] = "acquire_inner" /\ Cancel(h)
<1>1. /\ free = 0 /\ orphans = 0 /\ pc \in [Handlers -> Pcs]
      /\ \A h \in Handlers : pc[h] \in {"idle", "acquire", "acquire_inner"}
  BY DEF Blocked, TypeOK, Outer, Pcs
<1>2. CASE UNCHANGED vars
  BY <1>2 DEF vars, Blocked, Outer
<1>3. ASSUME NEW h \in Handlers, NEW k \in Kinds, Arrive(h, k)
      PROVE  Blocked'
  BY <1>1, <1>3 DEF Arrive, Goto, Blocked, Outer, OuterPcs, SinglePcs, DoublePcs
<1>4. ASSUME NEW h \in Handlers,
             HandlerStep(h) \/ FinishStream(h) \/ Release(h) \/ LeaveStream(h)
      PROVE  FALSE
  BY <1>1, <1>4 DEF HandlerStep, Acquire, FinishStatement, CallGet, AcquireInner, FinishGet,
     FinishUpdate, FinishStream, Release, LeaveStream, Goto
<1>5. ASSUME NEW h \in Handlers, Cancel(h), pc[h] # "acquire_inner"
      PROVE  Blocked'
  <2>1. h \notin Outer /\ h \notin Inner
    BY <1>1, <1>5 DEF Cancel, Outer, Inner, OuterPcs, SinglePcs, DoublePcs
  <2>2. pc' = [pc EXCEPT ![h] = "idle"] /\ UNCHANGED <<free, orphans>>
    BY <1>5, <2>1 DEF Cancel
  <2>3. QED
    BY <1>1, <2>2 DEF Blocked, Outer, OuterPcs, SinglePcs, DoublePcs
<1>6. CASE Finalize
  BY <1>1, <1>6 DEF Finalize
<1>7. QED
  BY <1>2, <1>3, <1>4, <1>5, <1>6 DEF Next

\* The deadlock of `update`, for every pool size: once all connections are with
\* updates that wait for one more, no handler moves and no new call helps.
THEOREM BlockedPoolStaysBlocked == Spec => OnlyCancelUnblocks
<1>1. TypeOK /\ [Next]_vars =>
        [Blocked => Blocked' \/ Restart
                      \/ \E h \in Handlers : pc[h] = "acquire_inner" /\ Cancel(h)]_vars
  BY BlockedStays
<1>2. QED
  BY <1>1, PoolTypeCorrect, PTL DEF Spec, OnlyCancelUnblocks

-----------------------------------------------------------------------------
(* The process around it *)

\* When `server.stop` has cancelled the calls that were left, it has cancelled
\* every call there is: none is accepted any more.
AllAborted == phase \in {"aborting", "closing"} => active \subseteq aborted

LifeInv == LifeTypeOK /\ AllAborted

\* A handler that the pool has not seen idle stays in its call, and one that
\* gives its connections back has been cancelled.
LEMMA PoolPartKeeps ==
  ASSUME LifeInv, NEW h \in active, NEW to,
         phase' = phase, active' = active, aborted' = aborted,
         pc \in [Handlers -> Pcs], pc' = [pc EXCEPT ![h] = to],
         to \in Releasing => h \in aborted
  PROVE  LifeInv' <=> (phase \in {"exited", "starting"} => orphans' = 0)
BY DEF LifeInv, LifeTypeOK, AllAborted

LEMMA LifeStep == LifeInv /\ TypeOK /\ [LifeNext]_lifeVars => LifeInv'
<1> SUFFICES ASSUME LifeInv, TypeOK, [LifeNext]_lifeVars PROVE LifeInv'
  OBVIOUS
<1>0. /\ pc \in [Handlers -> Pcs]
      /\ \A h \in active : h \in Handlers /\ phase \notin {"exited", "starting"}
  BY DEF TypeOK, LifeInv, LifeTypeOK
<1>1. CASE Start \/ SetupCompletes \/ SetupFails \/ Interrupt \/ Drained
  BY <1>1 DEF Start, SetupCompletes, SetupFails, Interrupt, Drained, Enter, vars,
     LifeInv, LifeTypeOK, AllAborted, Phases
<1>2. CASE GraceExpires \/ StopReturns
  BY <1>2 DEF GraceExpires, StopReturns, Enter, vars,
     LifeInv, LifeTypeOK, AllAborted, Phases
<1>3. CASE \E h \in Handlers : BeginCall(h) \/ EndCall(h) \/ ClientCancels(h) \/ EndTask(h)
  BY <1>3 DEF BeginCall, EndCall, ClientCancels, EndTask, vars,
     LifeInv, LifeTypeOK, AllAborted, Phases, Releasing
<1>4. CASE \E h \in Handlers : Unwind(h) \/ LeaveContext(h)
  <2>1. PICK h \in Handlers : Unwind(h) \/ LeaveContext(h)
    BY <1>4
  <2>2. PICK to : pc' = [pc EXCEPT ![h] = to]
    BY <2>1 DEF Unwind, LeaveContext, Cancel, LeaveStream, Release, Goto
  <2>3. /\ h \in aborted /\ h \in active
        /\ phase' = phase /\ active' = active /\ aborted' = aborted
    BY <2>1 DEF Unwind, LeaveContext, LifeInv, LifeTypeOK
  <2>4. QED
    BY <1>0, <2>2, <2>3, PoolPartKeeps
<1>5. CASE \E h \in Handlers : UsePool(h)
  <2>1. PICK h \in Handlers : UsePool(h)
    BY <1>5
  <2>2. PICK to : pc' = [pc EXCEPT ![h] = to] /\ to \notin Releasing
    BY <2>1 DEF UsePool, Arrive, HandlerStep, Acquire, FinishStatement,
       CallGet, AcquireInner, FinishGet, FinishUpdate, FinishStream, Goto, Releasing
  <2>3. h \in active /\ phase' = phase /\ active' = active /\ aborted' = aborted
    BY <2>1 DEF UsePool
  <2>4. QED
    BY <1>0, <2>2, <2>3, PoolPartKeeps
<1>6. CASE FinalizeStream
  BY <1>6 DEF FinalizeStream, Finalize, LifeInv, LifeTypeOK, AllAborted
<1>7. CASE CloseCompletes \/ Kill
  BY <1>7 DEF CloseCompletes, Kill, EndProcess, Restart,
     LifeInv, LifeTypeOK, AllAborted, Phases, Releasing
<1>8. CASE UNCHANGED lifeVars
  BY <1>8 DEF lifeVars, LifeInv, LifeTypeOK, AllAborted
<1>9. QED
  BY <1>1, <1>2, <1>3, <1>4, <1>5, <1>6, <1>7, <1>8 DEF LifeNext

\* Every step of the process is a step of the pool or leaves it alone.
LEMMA StepMaps == ASSUME [LifeNext]_lifeVars PROVE [Next]_vars
<1>1. CASE \E h \in Handlers : UsePool(h)
  BY <1>1 DEF UsePool, Next
<1>2. CASE \E h \in Handlers : Unwind(h) \/ LeaveContext(h)
  BY <1>2 DEF Unwind, LeaveContext, Next
<1>3. CASE CloseCompletes \/ Kill \/ FinalizeStream
  BY <1>3 DEF CloseCompletes, Kill, EndProcess, FinalizeStream, Next
<1>4. CASE UNCHANGED vars
  BY <1>4
<1>5. QED
  BY <1>1, <1>2, <1>3, <1>4 DEF LifeNext, lifeVars, vars, Start, SetupCompletes,
     SetupFails, BeginCall, EndCall, ClientCancels, EndTask, Interrupt, Drained,
     GraceExpires, StopReturns

\* What is proved of the pool holds of the pool in its process.
LEMMA LifeStepsArePoolSteps == LifeSpec => Spec
<1>1. LifeInit => Init
  BY DEF LifeInit
<1>2. [LifeNext]_lifeVars => [Next]_vars
  BY StepMaps
<1>3. QED
  BY <1>1, <1>2, PTL DEF LifeSpec, Spec

\* However often the service is started, stopped and killed, its connections
\* are in the queue, held by calls or left with generators that are still to be
\* finalized, and with fewer calls than connections it
\* does not block.
THEOREM PoolSurvivesRestarts == LifeSpec => [](TypeOK /\ ConnectionsConserved /\ NotBlocked)
  BY LifeStepsArePoolSteps, PoolTypeCorrect, Conservation, NoBlockade, PTL

\* What unblocks the pool of a running service is that a waiting update is
\* cancelled, by its client or by the stop of the server, or a restart.
THEOREM OnlyAbortsUnblock == LifeSpec => OnlyCancelUnblocks
  BY LifeStepsArePoolSteps, BlockedPoolStaysBlocked, PTL

\* What has to be added to the types is that the calls the server has cancelled
\* are all there are from the end of the grace period on.
LEMMA LifeInvariant == LifeSpec => [](LifeInv /\ TypeOK)
<1>1. LifeInit => LifeInv
  BY DEF LifeInit, Init, LifeInv, LifeTypeOK, AllAborted, Phases, Releasing
<1>2. QED
  BY <1>1, LifeStep, PoolSurvivesRestarts, PTL DEF LifeSpec

\* Only calls in progress use the pool, and none is in progress before the
\* server accepts calls or after the process has ended.
THEOREM LifeTypeCorrect == LifeSpec => []LifeTypeOK
<1>1. LifeInv => LifeTypeOK
  BY DEF LifeInv
<1>2. QED
  BY <1>1, LifeInvariant, PTL

\* server.py:98-101: a call whose pool is being closed has been cancelled.
THEOREM StopKeepsGrace == LifeSpec => []GraceIsKept
<1>1. LifeInv => GraceIsKept
  BY DEF LifeInv, AllAborted, GraceIsKept
<1>2. QED
  BY <1>1, LifeInvariant, PTL

\* No call meets a pool that refuses it: from `database.close` on every task
\* only leaves what it is in.
THEOREM StopOnlyDrains == LifeSpec => ClosingOnlyDrains
<1> DEFINE Drains ==
      phase = "closing" => \A h \in Handlers : pc'[h] \in {pc[h], "idle"} \cup Releasing
<1>1. LifeInv /\ TypeOK /\ [LifeNext]_lifeVars => Drains
  <2> SUFFICES ASSUME LifeInv, TypeOK, [LifeNext]_lifeVars, phase = "closing",
                      NEW h \in Handlers
               PROVE  pc'[h] \in {pc[h], "idle"} \cup Releasing
    OBVIOUS
  <2>1. active \subseteq aborted /\ pc \in [Handlers -> Pcs]
    BY DEF LifeInv, AllAborted, TypeOK
  <2>2. ASSUME NEW g \in Handlers, Unwind(g) \/ LeaveContext(g)
        PROVE  pc'[h] \in {pc[h], "idle"} \cup Releasing
    BY <2>1, <2>2 DEF Unwind, LeaveContext, Cancel, Release, LeaveStream, Goto, Releasing
  <2>3. ASSUME NEW g \in Handlers, BeginCall(g) \/ UsePool(g) \/ EndCall(g) \/ ClientCancels(g)
        PROVE  FALSE
    BY <2>1, <2>3 DEF BeginCall, UsePool, EndCall, ClientCancels
  <2>4. CASE CloseCompletes \/ Kill
    BY <2>4 DEF CloseCompletes, Kill, EndProcess, Restart
  <2>5. CASE FinalizeStream
    BY <2>5 DEF FinalizeStream, Finalize
  <2>6. CASE UNCHANGED vars
    BY <2>6 DEF vars
  <2>7. QED
    BY <2>2, <2>3, <2>4, <2>5, <2>6 DEF LifeNext, lifeVars, Start, SetupCompletes, SetupFails,
       EndTask, Interrupt, Drained, GraceExpires, StopReturns, Enter, vars
<1>2. QED
  BY <1>1, LifeInvariant, PTL DEF LifeSpec, ClosingOnlyDrains
=============================================================================
