------------------------ MODULE SessionDispatchTypes ------------------------
(* Type correctness of SessionDispatch, for any number of tasks, lanes, cards, *)
(* environments and process ids.                                               *)
EXTENDS SessionDispatch, FiniteSetTheorems, SequenceTheorems, TLAPS

-----------------------------------------------------------------------------
(* Types.                                                                     *)

\* A lane has finitely many holders, so they can be counted.
LEMMA HoldersFinite ==
    ASSUME NEW rows, rows \subseteq Row, NEW l \in Lane
    PROVE  IsFiniteSet(HoldersOf(rows, l)) /\ Cardinality(HoldersOf(rows, l)) \in Nat
<1>1. HoldersOf(rows, l) \subseteq Holder
  BY Zenon DEF HoldersOf, Row
<1>2. IsFiniteSet(HoldersOf(rows, l))
  BY <1>1, LaneAssumption, FS_Subset, Zenon
<1> QED BY <1>2, FS_CardinalityType, Zenon

\* _expand_lanes returns lanes.
LEMMA ExpandType ==
    ASSUME NEW t \in Task
    PROVE  ExpandLanes(Needs[t]) \subseteq Lane
BY LaneAssumption, DispatchAssumption DEF ExpandLanes

\* An empty session is well typed.
LEMMA TypeInit == Init => TypeOK
BY DispatchAssumption DEF Init, TypeOK, TaskStates, Row, IdlePump, PumpStates, NoExec,
   Execution, Stages, Outcomes, OnComplete, Terminal

\* acquire_many writes lane rows.
LEMMA AcquiredType ==
    ASSUME NEW rows, rows \subseteq Row, NEW t \in Task, NEW e \in Env, NEW p \in Pid
    PROVE  Acquired(rows, t, Needs[t], e, p) \subseteq Row
BY ExpandType DEF Acquired, Row, Task

\* try_acquire writes pool rows.
LEMMA TakenType ==
    ASSUME NEW f \in [Gpu -> Task \union {NoTask}], NEW t \in Task, NEW n,
           NEW s \in Selections(f, t, n)
    PROVE  /\ Taken(f, t, n, s) \in [Gpu -> Task \union {NoTask}]
           /\ s \in SUBSET Gpu
<1>1. WithoutStale(f, t, n) \in [Gpu -> Task \union {NoTask}]
  BY Zenon DEF WithoutStale
<1>2. s \in SUBSET Gpu
  BY Zenon DEF Selections, CardsOf, FreeCards
<1> QED BY <1>1, <1>2, Zenon DEF Taken

\* What the pool gives a task, with or without Ray, is written as pool rows.
LEMMA LeasedType ==
    ASSUME gpus \in [Gpu -> Task \union {NoTask}], NEW t \in Task, NEW s \in Offers(t)
    PROVE  Leased(t, s) \in [Gpu -> Task \union {NoTask}] /\ s \in SUBSET Gpu
<1>1. CASE RayExec
  BY <1>1, Zenon DEF Offers, RaySlots, FreeCards, Leased, RayTaken
<1>2. CASE ~RayExec
  <2>1. s \in Selections(gpus, t, GpuNeed[t]) /\ Leased(t, s) = Taken(gpus, t, GpuNeed[t], s)
    BY <1>2, Zenon DEF Offers, Leased
  <2> QED BY <2>1, TakenType
<1> QED BY <1>1, <1>2, Zenon

\* Moving an execution to another step keeps the executions well typed.
LEMMA MoveType ==
    ASSUME exec \in [Task -> Execution], NEW t \in Task,
           NEW stage \in Stages, NEW out \in Outcomes, NEW conf \in BOOLEAN,
           stage = "writing" => out # "none", Move(t, stage, out, conf)
    PROVE  exec' \in [Task -> Execution]
BY Zenon DEF Move, Execution

\* Spawning an execution keeps the executions well typed.
LEMMA SpawnType ==
    ASSUME exec \in [Task -> Execution], inflight \subseteq Task, NEW t \in Task,
           NEW next \in OnComplete, Spawn(t, next)
    PROVE  exec' \in [Task -> Execution] /\ inflight' \subseteq Task
BY Zenon DEF Spawn, Spawned, Execution, Stages, Outcomes

\* The record of a task without execution is an execution record.
LEMMA NoExecType == NoExec \in Execution
BY Zenon DEF NoExec, Execution, Stages, Outcomes, OnComplete

\* Booking a result keeps the counters natural numbers.
LEMMA ReapType ==
    ASSUME delivered \in [Task -> Nat], counted \in [Task -> Nat],
           NEW t \in Task, NEW out, Reap(t, out)
    PROVE  delivered' \in [Task -> Nat] /\ counted' \in [Task -> Nat]
BY DEF Reap, counts

\* The fields of an execution have their types.
LEMMA ExecFieldTypes ==
    ASSUME exec \in [Task -> Execution], NEW t \in Task
    PROVE  exec[t].out \in Outcomes /\ exec[t].conf \in BOOLEAN /\ exec[t].at \in Stages
           /\ (exec[t].at = "writing" => exec[t].out # "none")
BY Zenon DEF Execution

\* The positions the pump moves through have the type of pump.
LEMMA PumpTypes ==
    /\ IdlePump \in PumpStates /\ Scanning \in PumpStates
    /\ \A t \in Task : \A at \in {"admit", "cancel", "fail"} : [at |-> at, task |-> t] \in PumpStates
    /\ \A x \in PumpStates : x.at \in {"admit", "refuse", "cancel", "fail"} => x.task \in Task
    /\ \A x \in PumpStates : x.at \in {"idle", "shut"} =>
          \A at \in {"idle", "shut"} : [x EXCEPT !.at = at] \in PumpStates
    /\ \A x \in PumpStates : x.at = "admit" => [x EXCEPT !.at = "refuse"] \in PumpStates
BY Zenon DEF PumpStates, IdlePump, Scanning

\* Every step of the dispatch core keeps the types, one case per action.
LEMMA TypeStep == TypeOK /\ [Next]_vars => TypeOK'
<1> SUFFICES ASSUME TypeOK, [Next]_vars PROVE TypeOK'
  BY Zenon
<1> USE DEF TypeOK, Up, Idle, At, durable, volatile, world, counts
<1>1. ASSUME BeginScan PROVE TypeOK'
  <2>1. view' \in [Lane -> Nat]
    BY <1>1, HoldersFinite, Zenon DEF BeginScan, LaneView
  <2> QED BY <1>1, <2>1, PumpTypes, Zenon DEF BeginScan
<1>2. ASSUME AdmitAndSpawn PROVE TypeOK'
  <2>1. pump.task \in Task
    BY <1>2, PumpTypes, Zenon DEF AdmitAndSpawn
  <2>2. exec' \in [Task -> Execution] /\ inflight' \subseteq Task
    BY <1>2, <2>1, SpawnType, Zenon DEF AdmitAndSpawn, OnComplete
  <2>3. gpus' \in [Gpu -> Task \union {NoTask}] /\ cards' \in [Task -> SUBSET Gpu]
    <3>1. CASE GpuNeed[pump.task] = 0
      BY <1>2, <2>1, <3>1, Zenon DEF AdmitAndSpawn
    <3>2. CASE GpuNeed[pump.task] # 0
      <4>1. PICK s \in Offers(pump.task) :
               gpus' = Leased(pump.task, s) /\ cards' = [cards EXCEPT ![pump.task] = s]
        BY <1>2, <3>2, Zenon DEF AdmitAndSpawn
      <4>2. Leased(pump.task, s) \in [Gpu -> Task \union {NoTask}] /\ s \in SUBSET Gpu
        BY <2>1, <4>1, LeasedType, Zenon
      <4> QED BY <2>1, <4>1, <4>2, Zenon
    <3> QED BY <3>1, <3>2, Zenon
  <2> QED BY <1>2, <2>2, <2>3, PumpTypes, Zenon DEF AdmitAndSpawn
<1>3. ASSUME GpuRefused PROVE TypeOK'
  BY <1>3, PumpTypes, Zenon DEF GpuRefused, WithoutStale
<1>4. ASSUME ReturnLanes PROVE TypeOK'
  <2>1. view' \in [Lane -> Nat]
    BY <1>4 DEF ReturnLanes
  <2> QED BY <1>4, <2>1, PumpTypes, Zenon DEF ReturnLanes, Released
<1>5. ASSUME EndScan PROVE TypeOK'
  BY <1>5, PumpTypes, Zenon DEF EndScan
<1>6. ASSUME NEW t \in Task, SkipQueued(t) PROVE TypeOK'
  BY <1>6, Zenon DEF SkipQueued
<1>7. ASSUME NEW t \in Task, DropOverBudget(t) PROVE TypeOK'
  BY <1>7, Zenon DEF DropOverBudget, TaskStates
<1>8. ASSUME NEW t \in Task, AdmitLanes(t) PROVE TypeOK'
  <2>1. leases' \subseteq Row
    BY <1>8, AcquiredType, Zenon DEF AdmitLanes
  <2>2. view' \in [Lane -> Nat]
    BY <1>8 DEF AdmitLanes
  <2> QED BY <1>8, <2>1, <2>2, PumpTypes, Zenon DEF AdmitLanes
<1>9. ASSUME NEW t \in Task, Enqueue(t) PROVE TypeOK'
  BY <1>9, Zenon DEF Enqueue, TaskStates
<1>10. ASSUME NEW t \in Task, AccountDead(t) PROVE TypeOK'
  <2>1. counted' \in [Task -> Nat]
    <3>1. CASE UNCHANGED counted
      BY <3>1, Zenon
    <3>2. CASE counted' = [counted EXCEPT ![t] = @ + 1]
      BY <3>2
    <3> QED BY <1>10, <3>1, <3>2, Zenon DEF AccountDead
  <2> QED BY <1>10, <2>1, Zenon DEF AccountDead
<1>11. ASSUME NEW t \in Task, RunCloseTask(t) PROVE TypeOK'
  <2>1. leases' \subseteq Row
    BY <1>11, AcquiredType, Zenon DEF RunCloseTask
  <2>2. exec' \in [Task -> Execution] /\ inflight' \subseteq Task
    BY <1>11, SpawnType, Zenon DEF RunCloseTask, OnComplete
  <2> QED BY <1>11, <2>1, <2>2, Zenon DEF RunCloseTask
<1>12. ASSUME NEW t \in Task, AbandonCloseTask(t) PROVE TypeOK'
  BY <1>12, PumpTypes, Zenon DEF AbandonCloseTask
<1>13. ASSUME NEW ts \in SUBSET Task, CancelQueued(ts) PROVE TypeOK'
  BY <1>13, Zenon DEF CancelQueued, TaskStates
<1>14. ASSUME ReclaimDeadRunning PROVE TypeOK'
  BY <1>14, Zenon DEF ReclaimDeadRunning, DeadRunning, TaskStates
<1>15. ASSUME ReapDeadHolders PROVE TypeOK'
  BY <1>15, Zenon DEF ReapDeadHolders, Reapable
<1>16. ASSUME Book PROVE TypeOK'
  <2>1. /\ Head(completions).task \in Task
        /\ completions' \in Seq([task : Task, out : Outcomes])
    <3>1. completions # << >>
      BY <1>16, Zenon DEF Book
    <3> DEFINE R == [task : Task, out : Outcomes]
    <3>2. completions \in Seq(R)
      BY Zenon
    <3> HIDE DEF R
    <3>3. Head(completions) \in R /\ Tail(completions) \in Seq(R)
      BY <3>1, <3>2, HeadTailProperties, Zenon
    <3> QED BY <1>16, <3>3, Zenon DEF Book, R
  <2>2. delivered' \in [Task -> Nat] /\ counted' \in [Task -> Nat]
    BY <1>16, <2>1, ReapType, Zenon DEF Book
  <2> QED BY <1>16, <2>1, <2>2, Zenon DEF Book
<1>17. ASSUME NEW t \in Task, PolicyDenied(t) PROVE TypeOK'
  BY <1>17, MoveType, Zenon DEF PolicyDenied, Stages, Outcomes, Terminal
<1>18. ASSUME NEW t \in Task, Claim(t) PROVE TypeOK'
  BY <1>18, MoveType, Zenon DEF Claim, Stages, Outcomes, TaskStates
<1>19. ASSUME NEW t \in Task, ClaimRejected(t) PROVE TypeOK'
  BY <1>19, MoveType, Zenon DEF ClaimRejected, Stages, Outcomes
<1>20. ASSUME NEW t \in Task, NEW out \in Terminal, Finish(t, out) PROVE TypeOK'
  BY <1>20, MoveType, Zenon DEF Finish, Stages, Outcomes, Terminal
<1>21. ASSUME NEW t \in Task, NEW out \in Outcomes, FinishUnconfirmed(t, out) PROVE TypeOK'
  BY <1>21, MoveType, Zenon DEF FinishUnconfirmed, Stages
<1>22. ASSUME NEW t \in Task, NEW conf \in BOOLEAN, ReleaseSlot(t, conf) PROVE TypeOK'
  <2>1. exec' \in [Task -> Execution]
    BY <1>22, MoveType, ExecFieldTypes DEF ReleaseSlot, Stages
  <2>2. gpus' \in [Gpu -> Task \union {NoTask}] /\ work' \in [Task -> Env \union {NoEnv}]
    BY <1>22, Zenon DEF ReleaseSlot, GivenBack
  <2> QED BY <1>22, <2>1, <2>2, Zenon DEF ReleaseSlot
<1>23. ASSUME NEW t \in Task, WriteTerminal(t) PROVE TypeOK'
  <2>1. exec' \in [Task -> Execution]
    BY <1>23, MoveType, ExecFieldTypes DEF WriteTerminal, Stages
  <2>2. state' \in [Task -> TaskStates]
    BY <1>23, ExecFieldTypes, Zenon DEF WriteTerminal, Outcomes, Terminal, TaskStates
  <2>3. cleanup' \in [Task -> {"none", "confirmed", "unconfirmed"}]
    BY <1>23, Zenon DEF WriteTerminal
  <2> QED BY <1>23, <2>1, <2>2, <2>3, Zenon DEF WriteTerminal
<1>24. ASSUME NEW t \in Task, ReleaseLanes(t) PROVE TypeOK'
  <2>1. exec' \in [Task -> Execution]
    BY <1>24, MoveType, ExecFieldTypes DEF ReleaseLanes, Stages
  <2>2. leases' \subseteq Row
    BY <1>24, Zenon DEF ReleaseLanes, Released
  <2> QED BY <1>24, <2>1, <2>2, Zenon DEF ReleaseLanes
<1>25. ASSUME NEW t \in Task, Complete(t) PROVE TypeOK'
  <2>1. completions' \in Seq([task : Task, out : Outcomes])
    <3>1. [task |-> t, out |-> exec[t].out] \in [task : Task, out : Outcomes]
      BY ExecFieldTypes, Zenon
    <3> DEFINE R == [task : Task, out : Outcomes]
    <3>2. completions \in Seq(R) /\ [task |-> t, out |-> exec[t].out] \in R
      BY <3>1, Zenon
    <3> HIDE DEF R
    <3>3. completions' \in Seq(R)
      BY <1>25, <3>2, AppendProperties, Zenon DEF Complete
    <3> QED BY <3>3, Zenon DEF R
  <2>2. delivered' \in [Task -> Nat] /\ counted' \in [Task -> Nat]
    BY <1>25, ReapType, Zenon DEF Complete
  <2> QED BY <1>25, <2>1, <2>2, NoExecType, Zenon DEF Complete
<1>26. ASSUME NEW t \in Task, RefuseDispatch(t) PROVE TypeOK'
  BY <1>26, MoveType, Zenon DEF RefuseDispatch, GivenBack, Stages, Outcomes
<1>27. ASSUME NEW t \in Task, ForgetDispatch(t) PROVE TypeOK'
  BY <1>27, NoExecType, Zenon DEF ForgetDispatch, Released
<1>28. ASSUME Crash PROVE TypeOK'
  BY <1>28, NoExecType, PumpTypes DEF Crash, ForgetMemory
<1>29. ASSUME NEW e \in Env, LoseEnv(e) PROVE TypeOK'
  <2>1. CASE Up /\ coord.env = e
    BY <1>29, <2>1, NoExecType, PumpTypes DEF LoseEnv, ForgetMemory
  <2>2. CASE ~(Up /\ coord.env = e)
    BY <1>29, <2>2, Zenon DEF LoseEnv
  <2> QED BY <2>1, <2>2, Zenon
<1>30. ASSUME NEW e \in Env, ConfirmScopeGone(e) PROVE TypeOK'
  BY <1>30, Zenon DEF ConfirmScopeGone, Confirm, TaskStates
<1>31. ASSUME NEW e \in Env, NEW p \in Pid, Boot(e, p) PROVE TypeOK'
  BY <1>31 DEF Boot
<1>32. ASSUME NEW t \in Task, WorkerExits(t) PROVE TypeOK'
  BY <1>32, Zenon DEF WorkerExits
<1>33. ASSUME NEW t \in Task, ConfirmTaskStopped(t) PROVE TypeOK'
  BY <1>33, Zenon DEF ConfirmTaskStopped, Confirm, TaskStates
<1>34. ASSUME UNCHANGED vars PROVE TypeOK'
  BY <1>34, Zenon DEF vars
<1>35. ASSUME SetAdmission PROVE TypeOK'
  <2>1. pump' \in PumpStates
    BY <1>35, PumpTypes, Zenon DEF SetAdmission
  <2> QED BY <1>35, <2>1, Zenon DEF SetAdmission
<1>36. ASSUME SettleAbandoned PROVE TypeOK'
  <2>1. state' \in [Task -> TaskStates]
    BY <1>36, Zenon DEF SettleAbandoned, TaskStates
  <2> QED BY <1>36, <2>1, PumpTypes, Zenon DEF SettleAbandoned
<1> HIDE DEF TypeOK, Up, Idle, At, durable, volatile, world, counts
<1> QED
  BY <1>1, <1>2, <1>3, <1>4, <1>5, <1>6, <1>7, <1>8, <1>9, <1>10, <1>11,
     <1>12, <1>13, <1>14, <1>15, <1>16, <1>17, <1>18, <1>19, <1>20, <1>21,
     <1>22, <1>23, <1>24, <1>25, <1>26, <1>27, <1>28, <1>29, <1>30, <1>31,
     <1>32, <1>33, <1>34, <1>35, <1>36, Zenon
     DEF Next, PumpNext, TickNext, ExecNext, WorldNext, Begin, Settle

\* Type correctness: no interleaving of the dispatcher, its executions, crashes and
\* confirmations takes a row, a lease or an execution out of its declared values.
THEOREM TypeCorrect == Spec => []TypeOK
<1>1. Init => TypeOK
  BY TypeInit, Zenon
<1>2. TypeOK /\ [Next]_vars => TypeOK'
  BY TypeStep, Zenon
<1> QED BY <1>1, <1>2, PTL DEF Spec

=============================================================================
