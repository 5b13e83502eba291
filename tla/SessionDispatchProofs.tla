------------------------ MODULE SessionDispatchProofs -----------------------
(* Who holds what in SessionDispatch, for any number of tasks, lanes, cards,  *)
(* environments and process ids, with GPU specialists run locally or as Ray   *)
(* actors: the inductive invariant, exclusive use, lane capacity, whose rows  *)
(* they are and when they are given back.                                     *)
EXTENDS SessionDispatchTypes, SessionDispatchInvariant

\* A batch acquire_many admits leaves every exclusive lane with one holder.
LEMMA AcquireKeepsUnique ==
    ASSUME NEW rows, rows \subseteq Row, Unique(rows),
           NEW t \in Task, NEW e, NEW p, CanAcquire(rows, t, Needs[t])
    PROVE  Unique(Acquired(rows, t, Needs[t], e, p))
<1> DEFINE X == ExpandLanes(Needs[t])
<1>1. ASSUME NEW q \in rows, q.lane \in X, Capacity[q.lane] = 1
      PROVE  q.holder = t
  <2>1. q.lane \in Lane /\ q.holder \in HoldersOf(rows, q.lane)
    BY <1>1, Zenon DEF Row, HoldersOf
  <2>2. CASE t \in HoldersOf(rows, q.lane)
    BY <1>1, <2>2, Zenon DEF HoldersOf, Unique
  <2>3. CASE Cardinality(HoldersOf(rows, q.lane)) < Capacity[q.lane]
    <3>1. Cardinality(HoldersOf(rows, q.lane)) = 0
      BY <1>1, <2>1, <2>3, HoldersFinite
    <3> QED BY <2>1, <3>1, HoldersFinite, FS_EmptySet, Zenon
  <2> QED BY <1>1, <2>2, <2>3, Zenon DEF CanAcquire
<1> SUFFICES ASSUME NEW r \in Acquired(rows, t, Needs[t], e, p),
                    NEW q \in Acquired(rows, t, Needs[t], e, p),
                    r.lane = q.lane, Capacity[r.lane] = 1
             PROVE  r.holder = q.holder
  BY Zenon DEF Unique
<1>2. r \in rows \/ (r.holder = t /\ r.lane \in X)
  BY DEF Acquired
<1>3. q \in rows \/ (q.holder = t /\ q.lane \in X)
  BY DEF Acquired
<1> QED BY <1>1, <1>2, <1>3, Zenon DEF Unique

\* AdmitLanes keeps the inductive invariant.
LEMMA AdmitLanesKeeps ==
    ASSUME Base, TypeOK', NEW t \in Task, AdmitLanes(t)
    PROVE  Base' /\ (WorkerHolds => WorkerHolds')
<1> USE DEF Base
<1>0. /\ coord # NoCoord
      /\ pump.at = "scan"
      /\ t \in snapshot /\ t \notin inflight
      /\ pump'.at = "admit" /\ pump'.task = t
      /\ snapshot' \subseteq snapshot
      /\ \A l \in LanesFor(t) : OwnRow(t, l, coord) \in leases'
      /\ \A r \in leases' : r \in leases \/ (r.holder = t /\ r.env = coord.env)
      /\ \A r \in leases : r.holder # t => r \in leases'
      /\ UNCHANGED <<state, cleanup, gpus, coord, inflight, exec, work, cards, gone>>
  <2>1. leases' = Acquired(leases, t, Needs[t], coord.env, coord.pid)
    BY Zenon DEF AdmitLanes
  <2>2. /\ \A l \in LanesFor(t) : OwnRow(t, l, coord) \in leases'
        /\ \A r \in leases' : r \in leases \/ (r.holder = t /\ r.env = coord.env)
        /\ \A r \in leases : r.holder # t => r \in leases'
    BY <2>1 DEF Acquired, OwnRow, LanesFor
  <2> QED BY <2>2, Zenon DEF AdmitLanes, Up, world, counts
<1>1. InflightIsExec' /\ StageFacts' /\ RowFacts'
  BY <1>0, Frames, Zenon
<1>2. LaneUnique'
  BY Typed, AcquireKeepsUnique, Zenon DEF AdmitLanes, LaneUnique
<1>3. DownIsQuiet'
  BY <1>0, Zenon DEF DownIsQuiet, Up
<1>4. OneEnv'
  BY <1>0, Zenon DEF OneEnv, Up
<1>5. AdmittedHolds'
  BY <1>0, Zenon DEF AdmittedHolds, InflightIsExec, SnapshotIsIdle
<1>6. SnapshotIsIdle'
  BY <1>0, SnapshotOfTasks, Zenon DEF SnapshotIsIdle
<1>7. ExecHolds'
  BY <1>0, Zenon DEF ExecHolds, InflightIsExec, OwnRow
<1>8. WorkerHolds => WorkerHolds'
  BY <1>0, Zenon DEF WorkerHolds, SnapshotIsIdle, OwnRow
<1> QED BY <1>1, <1>2, <1>3, <1>4, <1>5, <1>6, <1>7, <1>8, Zenon DEF Base

\* RunCloseTask keeps the inductive invariant.
LEMMA RunCloseTaskKeeps ==
    ASSUME Base, TypeOK', NEW t \in Task, RunCloseTask(t)
    PROVE  Base' /\ (WorkerHolds => WorkerHolds')
<1> USE DEF Base
<1>0. /\ coord # NoCoord
      /\ pump.at \in {"idle", "shut"}
      /\ state[t] = "queued" /\ t \notin inflight /\ GpuNeed[t] = 0
      /\ exec'[t].at = "spawned" /\ exec'[t].conf = FALSE
      /\ \A u \in Task : u # t => exec'[u] = exec[u]
      /\ inflight' = inflight \union {t}
      /\ \A l \in LanesFor(t) : OwnRow(t, l, coord) \in leases'
      /\ \A r \in leases' : r \in leases \/ (r.holder = t /\ r.env = coord.env)
      /\ \A r \in leases : r.holder # t => r \in leases'
      /\ UNCHANGED <<state, cleanup, gpus, coord, pump, snapshot, work, cards, gone>>
  <2>1. /\ exec'[t].at = "spawned" /\ exec'[t].conf = FALSE
        /\ \A u \in Task : u # t => exec'[u] = exec[u]
        /\ inflight' = inflight \union {t}
    BY Typed, SpawnEffect, Zenon DEF RunCloseTask
  <2>2. leases' = Acquired(leases, t, Needs[t], coord.env, coord.pid)
    BY Zenon DEF RunCloseTask
  <2>3. /\ \A l \in LanesFor(t) : OwnRow(t, l, coord) \in leases'
        /\ \A r \in leases' : r \in leases \/ (r.holder = t /\ r.env = coord.env)
        /\ \A r \in leases : r.holder # t => r \in leases'
    BY <2>2 DEF Acquired, OwnRow, LanesFor
  <2> QED BY <2>1, <2>3, Zenon DEF RunCloseTask, Up, Idle, world, counts
<1>1. RowFacts'
  BY <1>0, Frames, Zenon
<1>2. LaneUnique'
  BY Typed, AcquireKeepsUnique, Zenon DEF RunCloseTask, LaneUnique
<1>3. DownIsQuiet'
  BY <1>0, Zenon DEF DownIsQuiet, Up
<1>4. InflightIsExec'
  BY <1>0, Zenon DEF InflightIsExec
<1>5. OneEnv'
  BY <1>0, Zenon DEF OneEnv, Up
<1>6. AdmittedHolds'
  BY <1>0, Zenon DEF AdmittedHolds
<1>7. SnapshotIsIdle'
  BY <1>0, SnapshotOfTasks, Zenon DEF SnapshotIsIdle
<1>8. ExecHolds'
  BY <1>0, Zenon DEF ExecHolds, RowFacts, OwnRow
<1>9. StageFacts'
  BY <1>0, ZenonT(30) DEF StageFacts, RowFacts
<1>10. WorkerHolds => WorkerHolds'
  BY <1>0, Zenon DEF WorkerHolds, RowFacts, OwnRow
<1> QED BY <1>1, <1>2, <1>3, <1>4, <1>5, <1>6, <1>7, <1>8, <1>9, <1>10, Zenon DEF Base

\* Every step of the dispatch core keeps the inductive invariant.
LEMMA InvStep ==
    ASSUME Base, Next, TypeOK'
    PROVE  Base' /\ (WorkerHolds => WorkerHolds')
BY BeginScanKeeps, AdmitAndSpawnKeeps, GpuRefusedKeeps, ReturnLanesKeeps,
   EndScanKeeps, SkipQueuedKeeps, DropOverBudgetKeeps, AdmitLanesKeeps,
   EnqueueKeeps, AccountDeadKeeps, RunCloseTaskKeeps, AbandonCloseTaskKeeps,
   CancelQueuedKeeps, ReclaimDeadRunningKeeps, ReapDeadHoldersKeeps, BookKeeps,
   PolicyDeniedKeeps, ClaimKeeps, ClaimRejectedKeeps, FinishKeeps,
   FinishUnconfirmedKeeps, ReleaseSlotKeeps, WriteTerminalKeeps,
   ReleaseLanesKeeps, CompleteKeeps, RefuseDispatchKeeps, ForgetDispatchKeeps,
   CrashKeeps, LoseEnvKeeps, ConfirmScopeGoneKeeps, BootKeeps, WorkerExitsKeeps,
   ConfirmTaskStoppedKeeps, SetAdmissionKeeps, SettleAbandonedKeeps, Zenon
   DEF Next, PumpNext, TickNext, ExecNext, WorldNext, Begin, Settle

\* An empty session satisfies the inductive invariant.
LEMMA InvInit == Init => IInv
<1> SUFFICES ASSUME Init PROVE IInv
  BY Zenon
<1>1. TypeOK
  BY TypeInit, Zenon
<1>2. \A t \in Task : /\ exec[t].at = "none" /\ work[t] = NoEnv /\ state[t] = "absent"
                      /\ cleanup[t] = "none" /\ cards[t] = {}
  BY Zenon DEF Init, NoExec
<1>3. leases = {} /\ coord = NoCoord /\ pump.at = "idle" /\ snapshot = {} /\ inflight = {}
      /\ gone = {}
  BY Zenon DEF Init, IdlePump
<1>4. LaneUnique /\ DownIsQuiet /\ InflightIsExec
  BY <1>2, <1>3, Zenon DEF LaneUnique, Unique, DownIsQuiet, InflightIsExec, Up
<1>5. OneEnv /\ AdmittedHolds /\ SnapshotIsIdle
  BY <1>2, <1>3, Zenon DEF OneEnv, AdmittedHolds, SnapshotIsIdle, Up
<1>6. ExecHolds /\ StageFacts /\ RowFacts /\ WorkerHolds
  BY <1>2, <1>3, Zenon DEF ExecHolds, StageFacts, RowFacts, WorkerHolds
<1> QED BY <1>1, <1>4, <1>5, <1>6, Zenon DEF IInv, Base

\* A stuttering step keeps both.
LEMMA InvStutter ==
    ASSUME Base, TypeOK', UNCHANGED vars
    PROVE  Base' /\ (WorkerHolds => WorkerHolds')
<1>1. UNCHANGED <<state, cleanup, leases, gpus, coord, pump, snapshot, inflight, exec,
                  work, cards, gone>>
  BY Zenon DEF vars, durable, volatile, world
<1> QED BY <1>1, Frames, Zenon DEF Base

\* The invariant is inductive: crashes that leave workers behind, restarts, reaping,
\* confirmations and every interleaving of the pass over the queue with the
\* executions preserve it.
THEOREM Inductive == Spec => []IInv
<1>1. Init => IInv
  BY InvInit, Zenon
<1>2. IInv /\ [Next]_vars => IInv'
  <2> SUFFICES ASSUME IInv, [Next]_vars PROVE IInv'
    BY Zenon
  <2>1. TypeOK'
    BY TypeStep, Zenon DEF IInv, Base
  <2> QED BY <2>1, InvStep, InvStutter, Zenon DEF IInv
<1> QED BY <1>1, <1>2, PTL DEF Spec

\* Its part about the tables and the executions.
THEOREM BaseHolds == Spec => []Base
<1>1. IInv => Base
  BY Zenon DEF IInv
<1> QED BY <1>1, Inductive, PTL

\* A worker in use has a row on each of its lanes.
LEMMA InUseHolds ==
    ASSUME IInv, NEW t \in Task, InUse(t), NEW l \in ExpandLanes(Needs[t])
    PROVE  \E r \in leases : r.lane = l /\ r.holder = t
<1>1. CASE exec[t].at # "none"
  <2>1. OwnRow(t, l, coord) \in leases
    BY <1>1, Zenon DEF IInv, WorkerHolds, InUse, LanesFor
  <2> QED BY <2>1, Zenon DEF OwnRow
<1>2. CASE HoldsLanes(t)
  BY <1>2, Zenon DEF HoldsLanes, LanesOf
<1> QED BY <1>1, <1>2, Zenon DEF InUse

\* The inductive invariant keeps workers in use on conflicting lanes apart.
LEMMA InvExclusive == IInv => ExclusiveUse
<1> SUFFICES ASSUME IInv, NEW t \in Task, NEW u \in Task, t # u, InUse(t), InUse(u),
                    NEW l \in ExpandLanes(Needs[t]) \intersect ExpandLanes(Needs[u]),
                    Capacity[l] = 1
             PROVE  FALSE
  BY Zenon DEF ExclusiveUse, Clash
<1>1. PICK r \in leases : r.lane = l /\ r.holder = t
  BY InUseHolds, Zenon
<1>2. PICK q \in leases : q.lane = l /\ q.holder = u
  BY InUseHolds, Zenon
<1> QED BY <1>1, <1>2, Zenon DEF IInv, Base, LaneUnique, Unique

\* No two workers in use ever share an exclusive lane, whatever crashes, restarts
\* and recovers in between: acquire_many, the reaper, the resume guard and the
\* recover commands together serialise the work and not only its rows.  Under Ray
\* too, where release_execution gives the slot back although the exit of the actor
\* is not confirmed: the lanes go later, after the row says so.
THEOREM LanesSerialiseWork == Spec => []ExclusiveUse
BY Inductive, InvExclusive, PTL

\* No card is used by two live workers, those with unconfirmed cleanup and those
\* that outlived their coordinator included.
THEOREM CardsAreExclusive == ASSUME ~RayExec PROVE Spec => []CardExclusive
<1>1. IInv => CardExclusive
  BY DEF IInv, WorkerHolds, CardExclusive, Remote
<1> QED BY <1>1, Inductive, PTL

\* A running row whose worker lives under an execution keeps all its lanes.
THEOREM LanesStay == Spec => []RunningKeepsLanes
<1>1. IInv => RunningKeepsLanes
  <2> SUFFICES ASSUME IInv, NEW t \in Task, state[t] = "running", work[t] # NoEnv,
                      exec[t].at # "none", NEW l \in ExpandLanes(Needs[t])
               PROVE  l \in LanesOf(leases, t)
    BY Zenon DEF RunningKeepsLanes, HoldsLanes
  <2>1. InUse(t)
    BY Zenon DEF IInv, Base, RowFacts, Terminal, InUse
  <2>2. PICK r \in leases : r.lane = l /\ r.holder = t
    BY <2>1, InUseHolds, Zenon
  <2> QED BY <2>2, Zenon DEF LanesOf
<1> QED BY <1>1, Inductive, PTL

-----------------------------------------------------------------------------
(* Lane capacity.                                                             *)

Gains ==
    /\ Up
    /\ \E t \in Task : /\ CanAcquire(leases, t, Needs[t])
                       /\ leases' = Acquired(leases, t, Needs[t], coord.env, coord.pid)

\* Lane rows appear only by acquire_many; everything else removes rows or none.
LEMMA LeaseSteps == ASSUME Next PROVE leases' \subseteq leases \/ Gains
<1>1. ASSUME BeginScan PROVE leases' \subseteq leases \/ Gains
  BY <1>1, Zenon DEF BeginScan, durable
<1>2. ASSUME AdmitAndSpawn PROVE leases' \subseteq leases \/ Gains
  BY <1>2, Zenon DEF AdmitAndSpawn
<1>3. ASSUME GpuRefused PROVE leases' \subseteq leases \/ Gains
  BY <1>3, Zenon DEF GpuRefused
<1>4. ASSUME ReturnLanes PROVE leases' \subseteq leases \/ Gains
  BY <1>4, Zenon DEF ReturnLanes, Released
<1>5. ASSUME EndScan PROVE leases' \subseteq leases \/ Gains
  BY <1>5, Zenon DEF EndScan, durable
<1>6. ASSUME NEW t \in Task, SkipQueued(t) PROVE leases' \subseteq leases \/ Gains
  BY <1>6, Zenon DEF SkipQueued, durable
<1>7. ASSUME NEW t \in Task, DropOverBudget(t) PROVE leases' \subseteq leases \/ Gains
  BY <1>7, Zenon DEF DropOverBudget
<1>8. ASSUME NEW t \in Task, AdmitLanes(t) PROVE leases' \subseteq leases \/ Gains
  BY <1>8, Zenon DEF AdmitLanes, Gains
<1>9. ASSUME NEW t \in Task, Enqueue(t) PROVE leases' \subseteq leases \/ Gains
  BY <1>9, Zenon DEF Enqueue
<1>10. ASSUME NEW t \in Task, AccountDead(t) PROVE leases' \subseteq leases \/ Gains
  BY <1>10, Zenon DEF AccountDead, durable
<1>11. ASSUME NEW t \in Task, RunCloseTask(t) PROVE leases' \subseteq leases \/ Gains
  BY <1>11, Zenon DEF RunCloseTask, Gains, Idle
<1>12. ASSUME NEW t \in Task, AbandonCloseTask(t) PROVE leases' \subseteq leases \/ Gains
  BY <1>12, Zenon DEF AbandonCloseTask, durable
<1>13. ASSUME NEW ts \in SUBSET Task, CancelQueued(ts) PROVE leases' \subseteq leases \/ Gains
  BY <1>13, Zenon DEF CancelQueued
<1>14. ASSUME ReclaimDeadRunning PROVE leases' \subseteq leases \/ Gains
  BY <1>14, Zenon DEF ReclaimDeadRunning
<1>15. ASSUME ReapDeadHolders PROVE leases' \subseteq leases \/ Gains
  BY <1>15, Zenon DEF ReapDeadHolders
<1>16. ASSUME Book PROVE leases' \subseteq leases \/ Gains
  BY <1>16, Zenon DEF Book, durable
<1>17. ASSUME NEW t \in Task, PolicyDenied(t) PROVE leases' \subseteq leases \/ Gains
  BY <1>17, Zenon DEF PolicyDenied, durable
<1>18. ASSUME NEW t \in Task, Claim(t) PROVE leases' \subseteq leases \/ Gains
  BY <1>18, Zenon DEF Claim
<1>19. ASSUME NEW t \in Task, ClaimRejected(t) PROVE leases' \subseteq leases \/ Gains
  BY <1>19, Zenon DEF ClaimRejected, durable
<1>20. ASSUME NEW t \in Task, NEW out \in Terminal, Finish(t, out) PROVE leases' \subseteq leases \/ Gains
  BY <1>20, Zenon DEF Finish, durable
<1>21. ASSUME NEW t \in Task, NEW out \in Outcomes, FinishUnconfirmed(t, out) PROVE leases' \subseteq leases \/ Gains
  BY <1>21, Zenon DEF FinishUnconfirmed, durable
<1>22. ASSUME NEW t \in Task, NEW conf \in BOOLEAN, ReleaseSlot(t, conf) PROVE leases' \subseteq leases \/ Gains
  BY <1>22, Zenon DEF ReleaseSlot
<1>23. ASSUME NEW t \in Task, WriteTerminal(t) PROVE leases' \subseteq leases \/ Gains
  BY <1>23, Zenon DEF WriteTerminal
<1>24. ASSUME NEW t \in Task, ReleaseLanes(t) PROVE leases' \subseteq leases \/ Gains
  BY <1>24, Zenon DEF ReleaseLanes, Released
<1>25. ASSUME NEW t \in Task, Complete(t) PROVE leases' \subseteq leases \/ Gains
  BY <1>25, Zenon DEF Complete, durable
<1>26. ASSUME NEW t \in Task, RefuseDispatch(t) PROVE leases' \subseteq leases \/ Gains
  BY <1>26, Zenon DEF RefuseDispatch
<1>27. ASSUME NEW t \in Task, ForgetDispatch(t) PROVE leases' \subseteq leases \/ Gains
  BY <1>27, Zenon DEF ForgetDispatch, Released
<1>28. ASSUME Crash PROVE leases' \subseteq leases \/ Gains
  BY <1>28, Zenon DEF Crash, durable
<1>29. ASSUME NEW e \in Env, LoseEnv(e) PROVE leases' \subseteq leases \/ Gains
  BY <1>29, Zenon DEF LoseEnv, durable
<1>30. ASSUME NEW e \in Env, ConfirmScopeGone(e) PROVE leases' \subseteq leases \/ Gains
  BY <1>30, Zenon DEF ConfirmScopeGone, Confirm
<1>31. ASSUME NEW e \in Env, NEW p \in Pid, Boot(e, p) PROVE leases' \subseteq leases \/ Gains
  BY <1>31, Zenon DEF Boot, durable
<1>32. ASSUME NEW t \in Task, WorkerExits(t) PROVE leases' \subseteq leases \/ Gains
  BY <1>32, Zenon DEF WorkerExits, durable
<1>33. ASSUME NEW t \in Task, ConfirmTaskStopped(t) PROVE leases' \subseteq leases \/ Gains
  BY <1>33, Zenon DEF ConfirmTaskStopped, Confirm
<1>34. ASSUME SetAdmission PROVE leases' \subseteq leases \/ Gains
  BY <1>34, Zenon DEF SetAdmission, durable
<1>35. ASSUME SettleAbandoned PROVE leases' \subseteq leases \/ Gains
  BY <1>35, Zenon DEF SettleAbandoned
<1> QED
  BY <1>1, <1>2, <1>3, <1>4, <1>5, <1>6, <1>7, <1>8, <1>9, <1>10, <1>11,
     <1>12, <1>13, <1>14, <1>15, <1>16, <1>17, <1>18, <1>19, <1>20, <1>21,
     <1>22, <1>23, <1>24, <1>25, <1>26, <1>27, <1>28, <1>29, <1>30, <1>31,
     <1>32, <1>33, <1>34, <1>35, Zenon
     DEF Next, PumpNext, TickNext, ExecNext, WorldNext, Begin, Settle

\* A batch acquire_many admits leaves every lane within its capacity.
LEMMA AcquireWithinCapacity ==
    ASSUME NEW rows, rows \subseteq Row, NEW t \in Task, NEW e \in Env, NEW p \in Pid,
           CanAcquire(rows, t, Needs[t]), NEW l \in Lane,
           Cardinality(HoldersOf(rows, l)) <= Capacity[l]
    PROVE  Cardinality(HoldersOf(Acquired(rows, t, Needs[t], e, p), l)) <= Capacity[l]
<1> DEFINE old == HoldersOf(rows, l)
           new == HoldersOf(Acquired(rows, t, Needs[t], e, p), l)
<1>1. IsFiniteSet(old) /\ Cardinality(old) \in Nat /\ Capacity[l] \in Nat
  BY HoldersFinite, LaneAssumption, Zenon
<1>2. CASE l \notin ExpandLanes(Needs[t])
  <2>1. new = old
    BY <1>2 DEF HoldersOf, Acquired
  <2> QED BY <2>1, Zenon
<1>3. CASE l \in ExpandLanes(Needs[t])
  <2>1. new \subseteq old \union {t}
    BY DEF HoldersOf, Acquired
  <2>2. CASE t \in old
    <3>1. new \subseteq old
      BY <2>1, <2>2, Zenon
    <3> HIDE DEF old, new
    <3>2. Cardinality(new) <= Cardinality(old) /\ Cardinality(new) \in Nat
      BY <1>1, <3>1, FS_Subset, FS_CardinalityType, Zenon
    <3> QED BY <1>1, <3>2 DEF old, new
  <2>3. CASE t \notin old
    <3>1. Cardinality(old) < Capacity[l]
      BY <1>3, <2>3, Zenon DEF CanAcquire
    <3> HIDE DEF old, new
    <3>2. IsFiniteSet(old \union {t}) /\ Cardinality(old \union {t}) = Cardinality(old) + 1
      BY <1>1, <2>3, FS_AddElement, Zenon
    <3>3. Cardinality(new) <= Cardinality(old \union {t}) /\ Cardinality(new) \in Nat
      BY <2>1, <3>2, FS_Subset, FS_CardinalityType, Zenon
    <3>4. Cardinality(new) <= Capacity[l]
      BY <1>1, <3>1, <3>2, <3>3
    <3> QED BY <3>4, Zenon DEF new
  <2> QED BY <2>2, <2>3, Zenon
<1> QED BY <1>2, <1>3, Zenon

\* No step of the dispatch core puts a lane over its capacity.
LEMMA CapacityStep == TypeOK /\ WithinCapacity /\ [Next]_vars => WithinCapacity'
<1> SUFFICES ASSUME TypeOK, WithinCapacity, [Next]_vars, NEW l \in Lane
             PROVE  Cardinality(HoldersOf(leases', l)) <= Capacity[l]
  BY Zenon DEF WithinCapacity
<1>1. leases \subseteq Row /\ Cardinality(HoldersOf(leases, l)) <= Capacity[l]
  BY Zenon DEF TypeOK, WithinCapacity
<1>2. Capacity[l] \in Nat
  BY LaneAssumption, Zenon
<1>3. CASE leases' \subseteq leases
  <2>1. HoldersOf(leases', l) \subseteq HoldersOf(leases, l)
    BY <1>3, Zenon DEF HoldersOf
  <2>2. IsFiniteSet(HoldersOf(leases, l)) /\ Cardinality(HoldersOf(leases, l)) \in Nat
    BY <1>1, HoldersFinite, Zenon
  <2>3. /\ Cardinality(HoldersOf(leases', l)) <= Cardinality(HoldersOf(leases, l))
        /\ Cardinality(HoldersOf(leases', l)) \in Nat
    BY <2>1, <2>2, FS_Subset, FS_CardinalityType, Zenon
  <2> QED BY <1>1, <1>2, <2>2, <2>3
<1>4. CASE Gains
  <2>1. coord.env \in Env /\ coord.pid \in Pid
    BY <1>4, Zenon DEF TypeOK, Up, Gains
  <2> QED BY <1>1, <1>4, <2>1, AcquireWithinCapacity, Zenon DEF Gains
<1>5. CASE UNCHANGED vars
  BY <1>1, <1>5, Zenon DEF vars, durable
<1> QED BY <1>3, <1>4, <1>5, LeaseSteps, Zenon

\* The holders of a lane never exceed its capacity, for any capacities, although
\* acquire_many lets a holder refresh a lane that is full.
THEOREM CapacityRespected == Spec => []WithinCapacity
<1>1. Init => WithinCapacity
  <2> SUFFICES ASSUME Init, NEW l \in Lane PROVE Cardinality(HoldersOf(leases, l)) <= Capacity[l]
    BY Zenon DEF WithinCapacity
  <2>1. HoldersOf(leases, l) = {}
    BY Zenon DEF Init, HoldersOf
  <2>2. Cardinality({}) = 0 /\ Capacity[l] \in Nat
    BY FS_EmptySet, LaneAssumption, Zenon
  <2> QED BY <2>1, <2>2
<1>2. TypeOK /\ WithinCapacity /\ [Next]_vars => WithinCapacity'
  BY CapacityStep, Zenon
<1> QED BY <1>1, <1>2, TypeCorrect, PTL DEF Spec

-----------------------------------------------------------------------------
(* Whose lane rows they are.                                                  *)

Busy(t) == exec[t].at # "none" \/ Admitting(t)

\* The lane rows of a task that the coordinator admits or executes name that
\* coordinator, so it never takes them for those of a dead one.
OwnLanes ==
    \A t \in Task : Busy(t) =>
        \A r \in leases : r.holder = t => r.env = coord.env /\ r.pid = coord.pid

\* A task has rows only on lanes it asks for.
NeededLanes == \A r \in leases : r.lane \in LanesFor(r.holder)

BusyStep ==
    \/ \A u \in Task : ~Busy(u)'
    \/ /\ coord' = coord
       /\ \A u \in Task : Busy(u)' =>
             Busy(u) \/ leases' = Acquired(leases, u, Needs[u], coord.env, coord.pid)

\* A coordinator starts and ends idle; in between, a task is taken up with its lanes.
LEMMA BusySteps == ASSUME Base, Next PROVE BusyStep
<1>0. exec \in [Task -> Execution] /\ pump \in PumpStates /\ NoTask \notin Task
  BY DispatchAssumption, Zenon DEF Base, TypeOK
<1> USE DEF BusyStep, Busy, Admitting
<1>1. ASSUME BeginScan PROVE BusyStep
  BY <1>0, <1>1, Zenon DEF BeginScan, Scanning
<1>2. ASSUME AdmitAndSpawn PROVE BusyStep
  <2>1. pump.task \in Task
    BY <1>0, <1>2, PumpTypes, Zenon DEF AdmitAndSpawn
  <2>2. \A u \in Task : u # pump.task => exec'[u] = exec[u]
    BY <1>0, <1>2, <2>1, SpawnEffect, Zenon DEF AdmitAndSpawn
  <2> QED BY <1>0, <1>2, <2>2, Zenon DEF AdmitAndSpawn, Scanning
<1>3. ASSUME GpuRefused PROVE BusyStep
  BY <1>0, <1>3, Zenon DEF GpuRefused, PumpStates
<1>4. ASSUME ReturnLanes PROVE BusyStep
  BY <1>0, <1>4, Zenon DEF ReturnLanes, Scanning
<1>5. ASSUME EndScan PROVE BusyStep
  BY <1>0, <1>5, Zenon DEF EndScan, IdlePump
<1>6. ASSUME NEW t \in Task, SkipQueued(t) PROVE BusyStep
  BY <1>6, Zenon DEF SkipQueued
<1>7. ASSUME NEW t \in Task, DropOverBudget(t) PROVE BusyStep
  BY <1>7, Zenon DEF DropOverBudget
<1>8. ASSUME NEW t \in Task, AdmitLanes(t) PROVE BusyStep
  BY <1>0, <1>8, Zenon DEF AdmitLanes
<1>9. ASSUME NEW t \in Task, Enqueue(t) PROVE BusyStep
  BY <1>9, Zenon DEF Enqueue, volatile
<1>10. ASSUME NEW t \in Task, AccountDead(t) PROVE BusyStep
  BY <1>10, Zenon DEF AccountDead
<1>11. ASSUME NEW t \in Task, RunCloseTask(t) PROVE BusyStep
  <2>1. \A u \in Task : u # t => exec'[u] = exec[u]
    BY <1>0, <1>11, SpawnEffect, Zenon DEF RunCloseTask
  <2> QED BY <1>0, <1>11, <2>1, Zenon DEF RunCloseTask
<1>12. ASSUME NEW t \in Task, AbandonCloseTask(t) PROVE BusyStep
  BY <1>12, Zenon DEF AbandonCloseTask
<1>13. ASSUME NEW ts \in SUBSET Task, CancelQueued(ts) PROVE BusyStep
  BY <1>13, Zenon DEF CancelQueued, volatile
<1>14. ASSUME ReclaimDeadRunning PROVE BusyStep
  BY <1>14, Zenon DEF ReclaimDeadRunning
<1>15. ASSUME ReapDeadHolders PROVE BusyStep
  BY <1>15, Zenon DEF ReapDeadHolders, volatile
<1>16. ASSUME Book PROVE BusyStep
  BY <1>16, Zenon DEF Book
<1>17. ASSUME NEW t \in Task, PolicyDenied(t) PROVE BusyStep
  <2>1. exec[t].at # "none" /\ \A u \in Task : u # t => exec'[u] = exec[u]
    BY <1>0, <1>17, Zenon DEF PolicyDenied, At, Move
  <2> QED BY <1>17, <2>1, Zenon DEF PolicyDenied
<1>18. ASSUME NEW t \in Task, Claim(t) PROVE BusyStep
  <2>1. exec[t].at # "none" /\ \A u \in Task : u # t => exec'[u] = exec[u]
    BY <1>0, <1>18, Zenon DEF Claim, At, Move
  <2> QED BY <1>18, <2>1, Zenon DEF Claim
<1>19. ASSUME NEW t \in Task, ClaimRejected(t) PROVE BusyStep
  <2>1. exec[t].at # "none" /\ \A u \in Task : u # t => exec'[u] = exec[u]
    BY <1>0, <1>19, Zenon DEF ClaimRejected, At, Move
  <2> QED BY <1>19, <2>1, Zenon DEF ClaimRejected
<1>20. ASSUME NEW t \in Task, NEW out \in Terminal, Finish(t, out) PROVE BusyStep
  <2>1. exec[t].at # "none" /\ \A u \in Task : u # t => exec'[u] = exec[u]
    BY <1>0, <1>20, Zenon DEF Finish, At, Move
  <2> QED BY <1>20, <2>1, Zenon DEF Finish
<1>21. ASSUME NEW t \in Task, NEW out \in Outcomes, FinishUnconfirmed(t, out)
      PROVE  BusyStep
  <2>1. exec[t].at # "none" /\ \A u \in Task : u # t => exec'[u] = exec[u]
    BY <1>0, <1>21, Zenon DEF FinishUnconfirmed, At, Move
  <2> QED BY <1>21, <2>1, Zenon DEF FinishUnconfirmed
<1>22. ASSUME NEW t \in Task, NEW conf \in BOOLEAN, ReleaseSlot(t, conf)
      PROVE  BusyStep
  <2>1. exec[t].at # "none" /\ \A u \in Task : u # t => exec'[u] = exec[u]
    BY <1>0, <1>22, Zenon DEF ReleaseSlot, At, Move
  <2> QED BY <1>22, <2>1, Zenon DEF ReleaseSlot
<1>23. ASSUME NEW t \in Task, WriteTerminal(t) PROVE BusyStep
  <2>1. exec[t].at # "none" /\ \A u \in Task : u # t => exec'[u] = exec[u]
    BY <1>0, <1>23, Zenon DEF WriteTerminal, At, Move
  <2> QED BY <1>23, <2>1, Zenon DEF WriteTerminal
<1>24. ASSUME NEW t \in Task, ReleaseLanes(t) PROVE BusyStep
  <2>1. exec[t].at # "none" /\ \A u \in Task : u # t => exec'[u] = exec[u]
    BY <1>0, <1>24, Zenon DEF ReleaseLanes, At, Move
  <2> QED BY <1>24, <2>1, Zenon DEF ReleaseLanes
<1>25. ASSUME NEW t \in Task, Complete(t) PROVE BusyStep
  BY <1>0, <1>25, Zenon DEF Complete, At, NoExec
<1>26. ASSUME NEW t \in Task, RefuseDispatch(t) PROVE BusyStep
  <2>1. exec[t].at # "none" /\ \A u \in Task : u # t => exec'[u] = exec[u]
    BY <1>0, <1>26, Zenon DEF RefuseDispatch, At, Move
  <2> QED BY <1>26, <2>1, Zenon DEF RefuseDispatch
<1>27. ASSUME NEW t \in Task, ForgetDispatch(t) PROVE BusyStep
  BY <1>0, <1>27, Zenon DEF ForgetDispatch, At, NoExec
<1>28. ASSUME Crash PROVE BusyStep
  BY <1>0, <1>28, Zenon DEF Crash, ForgetMemory, IdlePump, NoExec
<1>29. ASSUME NEW e \in Env, LoseEnv(e) PROVE BusyStep
  <2>1. CASE ForgetMemory
    BY <1>0, <2>1, Zenon DEF ForgetMemory, IdlePump, NoExec
  <2>2. CASE UNCHANGED <<coord, volatile>>
    BY <2>2, Zenon DEF volatile
  <2> QED BY <1>29, <2>1, <2>2, Zenon DEF LoseEnv
<1>30. ASSUME NEW e \in Env, ConfirmScopeGone(e) PROVE BusyStep
  BY <1>30, Zenon DEF ConfirmScopeGone, Confirm, volatile
<1>31. ASSUME NEW e \in Env, NEW p \in Pid, Boot(e, p) PROVE BusyStep
  <2>1. pump.at = "idle" /\ \A u \in Task : exec[u].at = "none"
    BY <1>31, Zenon DEF Boot, Base, DownIsQuiet
  <2> QED BY <1>31, <2>1, Zenon DEF Boot, volatile
<1>32. ASSUME NEW t \in Task, WorkerExits(t) PROVE BusyStep
  BY <1>32, Zenon DEF WorkerExits, volatile
<1>33. ASSUME NEW t \in Task, ConfirmTaskStopped(t) PROVE BusyStep
  BY <1>33, Zenon DEF ConfirmTaskStopped, Confirm, volatile
<1>34. ASSUME SetAdmission PROVE BusyStep
  <2>1. pump'.at \in {"idle", "shut"}
    BY <1>0, <1>34, Zenon DEF SetAdmission, PumpStates
  <2> QED BY <1>34, <2>1, Zenon DEF SetAdmission
<1>35. ASSUME SettleAbandoned PROVE BusyStep
  BY <1>35, Zenon DEF SettleAbandoned, IdlePump
<1> QED
  BY <1>1, <1>2, <1>3, <1>4, <1>5, <1>6, <1>7, <1>8, <1>9, <1>10, <1>11,
     <1>12, <1>13, <1>14, <1>15, <1>16, <1>17, <1>18, <1>19, <1>20, <1>21,
     <1>22, <1>23, <1>24, <1>25, <1>26, <1>27, <1>28, <1>29, <1>30, <1>31,
     <1>32, <1>33, <1>34, <1>35, Zenon
     DEF Next, PumpNext, TickNext, ExecNext, WorldNext, Begin, Settle

\* No step gives a busy task a row of somebody else, or a row it does not need.
LEMMA OwnStep ==
    ASSUME Base, OwnLanes, NeededLanes, [Next]_vars
    PROVE  OwnLanes' /\ NeededLanes'
<1>1. CASE UNCHANGED vars
  BY <1>1, Zenon DEF vars, durable, volatile, OwnLanes, NeededLanes, Busy, Admitting
<1>2. CASE Next
  <2>1. leases' \subseteq leases \/ Gains
    BY <1>2, LeaseSteps, Zenon
  <2>2. ASSUME NEW r \in leases' PROVE r.lane \in LanesFor(r.holder)
    <3>1. CASE r \in leases
      BY <3>1, Zenon DEF NeededLanes
    <3>2. CASE r \notin leases
      BY <2>1, <3>2 DEF Gains, Acquired, LanesFor
    <3> QED BY <3>1, <3>2, Zenon
  <2>3. ASSUME NEW u \in Task, Busy(u)', NEW r \in leases', r.holder = u
        PROVE  r.env = coord'.env /\ r.pid = coord'.pid
    <3>1. /\ coord' = coord
          /\ Busy(u) \/ leases' = Acquired(leases, u, Needs[u], coord.env, coord.pid)
      BY <1>2, <2>3, BusySteps, Zenon DEF BusyStep
    <3>2. r \in leases \/ (r.env = coord.env /\ r.pid = coord.pid)
      BY <2>1 DEF Gains, Acquired
    <3>3. CASE r \in leases /\ Busy(u)
      BY <2>3, <3>1, <3>3, Zenon DEF OwnLanes
    <3>4. CASE r \in leases /\ leases' = Acquired(leases, u, Needs[u], coord.env, coord.pid)
      <4>1. r.lane \in LanesFor(u)
        BY <2>3, <3>4, Zenon DEF NeededLanes
      <4> QED BY <2>3, <3>1, <3>4, <4>1 DEF Acquired, LanesFor
    <3> QED BY <3>1, <3>2, <3>3, <3>4, Zenon
  <2> QED BY <2>2, <2>3, Zenon DEF OwnLanes, NeededLanes
<1> QED BY <1>1, <1>2, Zenon

\* In every mode the rows of a task in the coordinator's hands are its own.
THEOREM LanesAreOwn == Spec => [](OwnLanes /\ NeededLanes)
<1>1. Init => OwnLanes /\ NeededLanes
  BY Zenon DEF Init, OwnLanes, NeededLanes
<1>2. Base /\ OwnLanes /\ NeededLanes /\ [Next]_vars => OwnLanes' /\ NeededLanes'
  BY OwnStep, Zenon
<1> QED BY <1>1, <1>2, BaseHolds, PTL DEF Spec

-----------------------------------------------------------------------------
(* The record before the lanes.                                               *)

LanesKept(d) ==
    \/ LanesOf(leases, d) \subseteq LanesOf(leases', d)
    \/ state[d] \in Terminal
    \/ work[d] = NoEnv

\* acquire_many takes no lane from anybody.
LEMMA AcquireKeepsLanes ==
    ASSUME NEW rows, NEW t, NEW lanes, NEW e, NEW p, NEW d
    PROVE  LanesOf(rows, d) \subseteq LanesOf(Acquired(rows, t, lanes, e, p), d)
<1> SUFFICES ASSUME NEW r \in rows, r.holder = d
             PROVE  \E q \in Acquired(rows, t, lanes, e, p) : q.holder = d /\ q.lane = r.lane
  BY Zenon DEF LanesOf
<1>1. CASE d = t /\ r.lane \in ExpandLanes(lanes)
  <2>1. [lane |-> r.lane, holder |-> t, env |-> e, pid |-> p] \in Acquired(rows, t, lanes, e, p)
    BY <1>1, Zenon DEF Acquired
  <2> QED BY <1>1, <2>1
<1>2. CASE ~(d = t /\ r.lane \in ExpandLanes(lanes))
  BY <1>2, Zenon DEF Acquired
<1> QED BY <1>1, <1>2, Zenon

\* A step that takes a lane from an executing task finds its row settled or its
\* worker gone.
LEMMA LaneLosses ==
    ASSUME Base, OwnLanes, Next, NEW d \in Task, exec[d].at # "none"
    PROVE  LanesKept(d)
<1> USE DEF LanesKept
<1>1. ASSUME BeginScan PROVE LanesKept(d)
  BY <1>1, Zenon DEF BeginScan, durable
<1>2. ASSUME AdmitAndSpawn PROVE LanesKept(d)
  BY <1>2, Zenon DEF AdmitAndSpawn
<1>3. ASSUME GpuRefused PROVE LanesKept(d)
  BY <1>3, Zenon DEF GpuRefused
<1>4. ASSUME ReturnLanes PROVE LanesKept(d)
  <2>1. pump.task # d
    BY <1>4, Zenon DEF ReturnLanes, Base, AdmittedHolds
  <2>2. \A r \in leases : r.holder = d => r \in leases'
    BY <1>4, <2>1, ReleasedRows, Zenon DEF ReturnLanes
  <2> QED BY <2>2, Zenon DEF LanesOf
<1>5. ASSUME EndScan PROVE LanesKept(d)
  BY <1>5, Zenon DEF EndScan, durable
<1>6. ASSUME NEW t \in Task, SkipQueued(t) PROVE LanesKept(d)
  BY <1>6, Zenon DEF SkipQueued, durable
<1>7. ASSUME NEW t \in Task, DropOverBudget(t) PROVE LanesKept(d)
  BY <1>7, Zenon DEF DropOverBudget
<1>8. ASSUME NEW t \in Task, AdmitLanes(t) PROVE LanesKept(d)
  <2>1. leases' = leases \/ leases' = Acquired(leases, t, Needs[t], coord.env, coord.pid)
    BY <1>8, Zenon DEF AdmitLanes
  <2> QED BY <2>1, AcquireKeepsLanes, Zenon
<1>9. ASSUME NEW t \in Task, Enqueue(t) PROVE LanesKept(d)
  BY <1>9, Zenon DEF Enqueue
<1>10. ASSUME NEW t \in Task, AccountDead(t) PROVE LanesKept(d)
  BY <1>10, Zenon DEF AccountDead, durable
<1>11. ASSUME NEW t \in Task, RunCloseTask(t) PROVE LanesKept(d)
  <2>1. leases' = leases \/ leases' = Acquired(leases, t, Needs[t], coord.env, coord.pid)
    BY <1>11, Zenon DEF RunCloseTask
  <2> QED BY <2>1, AcquireKeepsLanes, Zenon
<1>12. ASSUME NEW t \in Task, AbandonCloseTask(t) PROVE LanesKept(d)
  BY <1>12, Zenon DEF AbandonCloseTask, durable
<1>13. ASSUME NEW ts \in SUBSET Task, CancelQueued(ts) PROVE LanesKept(d)
  BY <1>13, Zenon DEF CancelQueued
<1>14. ASSUME ReclaimDeadRunning PROVE LanesKept(d)
  BY <1>14, Zenon DEF ReclaimDeadRunning
<1>15. ASSUME ReapDeadHolders PROVE LanesKept(d)
  <2>1. \A r \in leases : r.holder = d => r \in leases'
    BY <1>15, Zenon DEF ReapDeadHolders, Reapable, HolderIsDead, OwnLanes, Busy
  <2> QED BY <2>1, Zenon DEF LanesOf
<1>16. ASSUME Book PROVE LanesKept(d)
  BY <1>16, Zenon DEF Book, durable
<1>17. ASSUME NEW t \in Task, PolicyDenied(t) PROVE LanesKept(d)
  BY <1>17, Zenon DEF PolicyDenied, durable
<1>18. ASSUME NEW t \in Task, Claim(t) PROVE LanesKept(d)
  BY <1>18, Zenon DEF Claim
<1>19. ASSUME NEW t \in Task, ClaimRejected(t) PROVE LanesKept(d)
  BY <1>19, Zenon DEF ClaimRejected, durable
<1>20. ASSUME NEW t \in Task, NEW out \in Terminal, Finish(t, out) PROVE LanesKept(d)
  BY <1>20, Zenon DEF Finish, durable
<1>21. ASSUME NEW t \in Task, NEW out \in Outcomes, FinishUnconfirmed(t, out)
      PROVE  LanesKept(d)
  BY <1>21, Zenon DEF FinishUnconfirmed, durable
<1>22. ASSUME NEW t \in Task, NEW conf \in BOOLEAN, ReleaseSlot(t, conf)
      PROVE  LanesKept(d)
  BY <1>22, Zenon DEF ReleaseSlot
<1>23. ASSUME NEW t \in Task, WriteTerminal(t) PROVE LanesKept(d)
  BY <1>23, Zenon DEF WriteTerminal
<1>24. ASSUME NEW t \in Task, ReleaseLanes(t) PROVE LanesKept(d)
  <2>1. t # d => \A r \in leases : r.holder = d => r \in leases'
    BY <1>24, ReleasedRows, Zenon DEF ReleaseLanes
  <2>2. t = d => work[d] = NoEnv \/ state[d] \in Terminal
    BY <1>24, Zenon DEF ReleaseLanes, At, Base, StageFacts, RowFacts
  <2> QED BY <2>1, <2>2, Zenon DEF LanesOf
<1>25. ASSUME NEW t \in Task, Complete(t) PROVE LanesKept(d)
  BY <1>25, Zenon DEF Complete, durable
<1>26. ASSUME NEW t \in Task, RefuseDispatch(t) PROVE LanesKept(d)
  BY <1>26, Zenon DEF RefuseDispatch
<1>27. ASSUME NEW t \in Task, ForgetDispatch(t) PROVE LanesKept(d)
  <2>1. t # d => \A r \in leases : r.holder = d => r \in leases'
    BY <1>27, ReleasedRows, Zenon DEF ForgetDispatch
  <2>2. t = d => work[d] = NoEnv
    BY <1>27, Zenon DEF ForgetDispatch, At, Base, StageFacts
  <2> QED BY <2>1, <2>2, Zenon DEF LanesOf
<1>28. ASSUME Crash PROVE LanesKept(d)
  BY <1>28, Zenon DEF Crash, durable
<1>29. ASSUME NEW e \in Env, LoseEnv(e) PROVE LanesKept(d)
  BY <1>29, Zenon DEF LoseEnv, durable
<1>30. ASSUME NEW e \in Env, ConfirmScopeGone(e) PROVE LanesKept(d)
  BY <1>30, Zenon DEF ConfirmScopeGone, Base, DownIsQuiet
<1>31. ASSUME NEW e \in Env, NEW p \in Pid, Boot(e, p) PROVE LanesKept(d)
  BY <1>31, Zenon DEF Boot, durable
<1>32. ASSUME NEW t \in Task, WorkerExits(t) PROVE LanesKept(d)
  BY <1>32, Zenon DEF WorkerExits, durable
<1>33. ASSUME NEW t \in Task, ConfirmTaskStopped(t) PROVE LanesKept(d)
  BY <1>33, Zenon DEF ConfirmTaskStopped, Base, DownIsQuiet
<1>34. ASSUME SetAdmission PROVE LanesKept(d)
  BY <1>34, Zenon DEF SetAdmission, durable
<1>35. ASSUME SettleAbandoned PROVE LanesKept(d)
  BY <1>35, Zenon DEF SettleAbandoned
<1> QED
  BY <1>1, <1>2, <1>3, <1>4, <1>5, <1>6, <1>7, <1>8, <1>9, <1>10, <1>11,
     <1>12, <1>13, <1>14, <1>15, <1>16, <1>17, <1>18, <1>19, <1>20, <1>21,
     <1>22, <1>23, <1>24, <1>25, <1>26, <1>27, <1>28, <1>29, <1>30, <1>31,
     <1>32, <1>33, <1>34, <1>35, Zenon
     DEF Next, PumpNext, TickNext, ExecNext, WorldNext, Begin, Settle

\* The lanes of an execution go back only once its end is on record or nothing of
\* it runs, whichever of the runner, the pump, the reaper and the operator frees
\* them.
THEOREM RecordedBeforeLanes == Spec => RecordBeforeLanes
<1> DEFINE A == \A t \in Task :
                   /\ exec[t].at # "none"
                   /\ LanesOf(leases, t) # {} /\ LanesOf(leases', t) = {}
                   => state[t] \in Terminal \/ work[t] = NoEnv
<1>1. Base /\ OwnLanes /\ [Next]_vars => [A]_vars
  BY LaneLosses, Zenon DEF LanesKept
<1> QED BY <1>1, BaseHolds, LanesAreOwn, PTL DEF Spec, RecordBeforeLanes

=============================================================================
