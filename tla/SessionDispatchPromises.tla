----------------------- MODULE SessionDispatchPromises ----------------------
(* What SessionDispatch promises its users, proved for every instance and in   *)
(* every mode: the finality of terminal rows, a single count of each result,   *)
(* and the refinement of WorkAdmission.                                        *)
EXTENDS SessionDispatchProofs

-----------------------------------------------------------------------------
(* Terminal rows.                                                             *)

\* No step of the dispatch core changes a terminal row.
LEMMA FinalStep ==
    ASSUME TypeOK, [Next]_vars, NEW d \in Task, state[d] \in Terminal
    PROVE  state'[d] = state[d]
<1>0. state \in [Task -> TaskStates]
  BY Zenon DEF TypeOK
<1> USE DEF Terminal
<1>1. ASSUME BeginScan PROVE state'[d] = state[d]
  BY <1>1, Zenon DEF BeginScan, durable
<1>2. ASSUME AdmitAndSpawn PROVE state'[d] = state[d]
  BY <1>2, Zenon DEF AdmitAndSpawn
<1>3. ASSUME GpuRefused PROVE state'[d] = state[d]
  BY <1>3, Zenon DEF GpuRefused
<1>4. ASSUME ReturnLanes PROVE state'[d] = state[d]
  BY <1>4, Zenon DEF ReturnLanes
<1>5. ASSUME EndScan PROVE state'[d] = state[d]
  BY <1>5, Zenon DEF EndScan, durable
<1>6. ASSUME NEW t \in Task, SkipQueued(t) PROVE state'[d] = state[d]
  BY <1>6, Zenon DEF SkipQueued, durable
<1>7. ASSUME NEW t \in Task, DropOverBudget(t) PROVE state'[d] = state[d]
  BY <1>0, <1>7, Zenon DEF DropOverBudget
<1>8. ASSUME NEW t \in Task, AdmitLanes(t) PROVE state'[d] = state[d]
  BY <1>8, Zenon DEF AdmitLanes
<1>9. ASSUME NEW t \in Task, Enqueue(t) PROVE state'[d] = state[d]
  BY <1>0, <1>9, Zenon DEF Enqueue
<1>10. ASSUME NEW t \in Task, AccountDead(t) PROVE state'[d] = state[d]
  BY <1>10, Zenon DEF AccountDead, durable
<1>11. ASSUME NEW t \in Task, RunCloseTask(t) PROVE state'[d] = state[d]
  BY <1>0, <1>11, Zenon DEF RunCloseTask
<1>12. ASSUME NEW t \in Task, AbandonCloseTask(t) PROVE state'[d] = state[d]
  BY <1>12, Zenon DEF AbandonCloseTask, durable
<1>13. ASSUME NEW ts \in SUBSET Task, CancelQueued(ts) PROVE state'[d] = state[d]
  BY <1>0, <1>13, Zenon DEF CancelQueued
<1>14. ASSUME ReclaimDeadRunning PROVE state'[d] = state[d]
  BY <1>0, <1>14, Zenon DEF ReclaimDeadRunning, DeadRunning
<1>15. ASSUME ReapDeadHolders PROVE state'[d] = state[d]
  BY <1>15, Zenon DEF ReapDeadHolders
<1>16. ASSUME Book PROVE state'[d] = state[d]
  BY <1>16, Zenon DEF Book, durable
<1>17. ASSUME NEW t \in Task, PolicyDenied(t) PROVE state'[d] = state[d]
  BY <1>17, Zenon DEF PolicyDenied, durable
<1>18. ASSUME NEW t \in Task, Claim(t) PROVE state'[d] = state[d]
  BY <1>0, <1>18, Zenon DEF Claim
<1>19. ASSUME NEW t \in Task, ClaimRejected(t) PROVE state'[d] = state[d]
  BY <1>19, Zenon DEF ClaimRejected, durable
<1>20. ASSUME NEW t \in Task, NEW out \in Terminal, Finish(t, out) PROVE state'[d] = state[d]
  BY <1>20, Zenon DEF Finish, durable
<1>21. ASSUME NEW t \in Task, NEW out \in Outcomes, FinishUnconfirmed(t, out) PROVE state'[d] = state[d]
  BY <1>21, Zenon DEF FinishUnconfirmed, durable
<1>22. ASSUME NEW t \in Task, NEW conf \in BOOLEAN, ReleaseSlot(t, conf) PROVE state'[d] = state[d]
  BY <1>22, Zenon DEF ReleaseSlot
<1>23. ASSUME NEW t \in Task, WriteTerminal(t) PROVE state'[d] = state[d]
  BY <1>0, <1>23, Zenon DEF WriteTerminal
<1>24. ASSUME NEW t \in Task, ReleaseLanes(t) PROVE state'[d] = state[d]
  BY <1>24, Zenon DEF ReleaseLanes
<1>25. ASSUME NEW t \in Task, Complete(t) PROVE state'[d] = state[d]
  BY <1>25, Zenon DEF Complete, durable
<1>26. ASSUME NEW t \in Task, RefuseDispatch(t) PROVE state'[d] = state[d]
  BY <1>26, Zenon DEF RefuseDispatch
<1>27. ASSUME NEW t \in Task, ForgetDispatch(t) PROVE state'[d] = state[d]
  BY <1>27, Zenon DEF ForgetDispatch
<1>28. ASSUME Crash PROVE state'[d] = state[d]
  BY <1>28, Zenon DEF Crash, durable
<1>29. ASSUME NEW e \in Env, LoseEnv(e) PROVE state'[d] = state[d]
  BY <1>29, Zenon DEF LoseEnv, durable
<1>30. ASSUME NEW e \in Env, ConfirmScopeGone(e) PROVE state'[d] = state[d]
  BY <1>0, <1>30, Zenon DEF ConfirmScopeGone, Confirm
<1>31. ASSUME NEW e \in Env, NEW p \in Pid, Boot(e, p) PROVE state'[d] = state[d]
  BY <1>31, Zenon DEF Boot, durable
<1>32. ASSUME NEW t \in Task, WorkerExits(t) PROVE state'[d] = state[d]
  BY <1>32, Zenon DEF WorkerExits, durable
<1>33. ASSUME NEW t \in Task, ConfirmTaskStopped(t) PROVE state'[d] = state[d]
  BY <1>0, <1>33, Zenon DEF ConfirmTaskStopped, Confirm
<1>34. ASSUME UNCHANGED vars PROVE state'[d] = state[d]
  BY <1>34, Zenon DEF vars, durable
<1>35. ASSUME SetAdmission PROVE state'[d] = state[d]
  BY <1>35, Zenon DEF SetAdmission, durable
<1>36. ASSUME SettleAbandoned PROVE state'[d] = state[d]
  BY <1>0, <1>36, Zenon DEF SettleAbandoned
<1> QED
  BY <1>1, <1>2, <1>3, <1>4, <1>5, <1>6, <1>7, <1>8, <1>9, <1>10, <1>11,
     <1>12, <1>13, <1>14, <1>15, <1>16, <1>17, <1>18, <1>19, <1>20, <1>21,
     <1>22, <1>23, <1>24, <1>25, <1>26, <1>27, <1>28, <1>29, <1>30, <1>31,
     <1>32, <1>33, <1>34, <1>35, <1>36, Zenon
     DEF Next, PumpNext, TickNext, ExecNext, WorldNext, Begin, Settle

\* A terminal row is final in every mode: the runner, the reclaim, the close
\* sequencer, the cancels and the operator race for it, and only the first wins.
THEOREM TerminalRowsAreFinal == Spec => TerminalIsFinal
<1>1. TypeOK /\ [Next]_vars =>
        [\A t \in Task : state[t] \in Terminal => state'[t] = state[t]]_vars
  BY FinalStep, Zenon
<1> QED BY <1>1, TypeCorrect, PTL DEF Spec, TerminalIsFinal

-----------------------------------------------------------------------------
(* One count per result.                                                      *)

Settled(t) == state[t] \in Terminal

\* The execution of t may still bring a result that counts.
MayCount(t) ==
    \/ exec[t].at = "working"
    \/ /\ exec[t].at \in {"releasing", "writing", "unlocking", "finishing"}
       /\ exec[t].out \notin {"none", "cancelled"}

\* The queued results of t that count.
Awaiting(t) ==
    {i \in DOMAIN completions : completions[i].task = t /\ completions[i].out # "cancelled"}

\* A result of t is in one place at most: with the execution, in the queue, on the
\* list of dead holders, or counted; and once it left the execution the row is
\* terminal, so that no second claim brings another.
Ledger(t) ==
    /\ MayCount(t) =>
          /\ state[t] \notin {"absent", "queued"}
          /\ exec[t].at \in {"unlocking", "finishing"} => Settled(t)
          /\ counted[t] = 0 /\ Awaiting(t) = {} /\ t \notin dead /\ t \notin accounted
    /\ Awaiting(t) # {} =>
          /\ Settled(t) /\ counted[t] = 0 /\ t \notin dead /\ t \notin accounted
          /\ \A i, j \in Awaiting(t) : i = j
    /\ t \in dead => Settled(t) /\ counted[t] = 0 /\ t \notin accounted
    /\ t \in accounted => Settled(t)
    /\ counted[t] # 0 => Settled(t)
    /\ counted[t] \in {0, 1}
    /\ exec[t].at = "finishing" => exec[t].out # "none"
Ledgers == \A t \in Task : Ledger(t)

\* What a step does to t that moves no result: its row may settle or appear.
NothingBooked(t) ==
    /\ completions' = completions
    /\ counted'[t] = counted[t]
    /\ (t \in dead' => t \in dead) /\ (t \in accounted' => t \in accounted)
    /\ state'[t] = state[t] \/ state'[t] \in Terminal \/ state[t] = "absent"

\* Such a step keeps the ledger if the execution gains no result by it.
LEMMA LedgerKept ==
    ASSUME NEW t \in Task, Ledger(t), NothingBooked(t),
           MayCount(t)' => MayCount(t),
           MayCount(t)' /\ exec'[t].at \in {"unlocking", "finishing"} => Settled(t)',
           exec'[t].at = "finishing" => exec'[t].out # "none"
    PROVE  Ledger(t)'
<1>1. Awaiting(t)' = Awaiting(t)
  BY Zenon DEF NothingBooked, Awaiting
<1>2. Settled(t) => Settled(t)'
  BY Zenon DEF NothingBooked, Settled, Terminal
<1>3. state[t] \notin {"absent", "queued"} => state'[t] \notin {"absent", "queued"}
  BY Zenon DEF NothingBooked, Terminal
<1> QED BY <1>1, <1>2, <1>3, Zenon DEF NothingBooked, Ledger

\* In particular if the execution stays where it is.
LEMMA LedgerUntouched ==
    ASSUME NEW t \in Task, Ledger(t), NothingBooked(t), exec'[t] = exec[t]
    PROVE  Ledger(t)'
<1>1. MayCount(t)' <=> MayCount(t)
  BY Zenon DEF MayCount
<1>2. Settled(t) => Settled(t)'
  BY Zenon DEF NothingBooked, Settled, Terminal
<1> QED BY <1>1, <1>2, LedgerKept, Zenon DEF Ledger

\* Or if it gets to a stage without a result.
LEMMA LedgerDropped ==
    ASSUME NEW t \in Task, Ledger(t), NothingBooked(t),
           \/ exec'[t].at \in {"none", "spawned", "refusing", "raised"}
           \/ exec'[t].at # "working" /\ exec'[t].at # "finishing" /\ exec'[t].out \in {"none", "cancelled"}
    PROVE  Ledger(t)'
<1>1. ~MayCount(t)' /\ exec'[t].at # "finishing"
  BY Zenon DEF MayCount
<1> QED BY <1>1, LedgerKept, Zenon

\* What is left of a queue of results once its head is booked.
LEMMA TailShift ==
    ASSUME NEW R, NEW q \in Seq(R), q # << >>
    PROVE  /\ 1 \in DOMAIN q /\ q[1] \in R
           /\ \A i \in DOMAIN Tail(q) :
                 i \in Nat /\ i # 0 /\ i + 1 \in DOMAIN q /\ Tail(q)[i] = q[i + 1]
<1>1. /\ Len(q) \in Nat \ {0} /\ DOMAIN q = 1..Len(q)
      /\ Tail(q) \in Seq(R) /\ Len(Tail(q)) = Len(q) - 1
      /\ \A i \in 1..Len(Tail(q)) : Tail(q)[i] = q[i + 1]
  BY EmptySeq, HeadTailProperties, ElementOfSeq
<1>2. DOMAIN Tail(q) = 1..Len(Tail(q))
  BY <1>1, LenProperties
<1>3. 1 \in DOMAIN q /\ q[1] \in R
  BY <1>1, ElementOfSeq
<1>4. \A i \in DOMAIN Tail(q) : i \in Nat /\ i # 0 /\ i + 1 \in DOMAIN q
  BY <1>1, <1>2
<1> QED BY <1>1, <1>2, <1>3, <1>4

\* A coordinator that ends takes its results along; the count stays.
LEMMA ForgetKeepsLedger ==
    ASSUME NEW t \in Task, Ledger(t), ForgetMemory, state' = state, counted' = counted
    PROVE  Ledger(t)'
<1>1. exec'[t].at = "none" /\ completions' = << >> /\ dead' = {} /\ accounted' = {}
  BY Zenon DEF ForgetMemory, NoExec
<1>2. Awaiting(t)' = {}
  BY <1>1 DEF Awaiting
<1>3. ~MayCount(t)' /\ (Settled(t)' <=> Settled(t))
  BY <1>1, Zenon DEF MayCount, Settled
<1> QED BY <1>1, <1>2, <1>3, Zenon DEF Ledger

\* Every step keeps the ledger of every task.
LEMMA LedgerSteps ==
    ASSUME Base, OwnLanes, Next, NEW d \in Task, Ledger(d)
    PROVE  Ledger(d)'
<1>0. /\ state \in [Task -> TaskStates] /\ exec \in [Task -> Execution]
      /\ completions \in Seq([task : Task, out : Outcomes])
      /\ counted \in [Task -> Nat]
  BY Zenon DEF Base, TypeOK
<1>1. ASSUME BeginScan PROVE Ledger(d)'
  BY <1>1, LedgerUntouched, Zenon DEF BeginScan, NothingBooked, durable, counts
<1>2. ASSUME AdmitAndSpawn PROVE Ledger(d)'
  <2>1. NothingBooked(d)
    BY <1>2, Zenon DEF AdmitAndSpawn, NothingBooked, counts
  <2>2. pump.task \in Task
    BY <1>2, PumpTypes, Zenon DEF AdmitAndSpawn, Base, TypeOK
  <2>3. exec'[d] = exec[d] \/ exec'[d].at = "spawned"
    BY <1>0, <1>2, <2>2, SpawnEffect, Zenon DEF AdmitAndSpawn
  <2> QED BY <2>1, <2>3, LedgerUntouched, LedgerDropped, Zenon
<1>3. ASSUME GpuRefused PROVE Ledger(d)'
  BY <1>3, LedgerUntouched, Zenon DEF GpuRefused, NothingBooked, counts
<1>4. ASSUME ReturnLanes PROVE Ledger(d)'
  BY <1>4, LedgerUntouched, Zenon DEF ReturnLanes, NothingBooked, counts
<1>5. ASSUME EndScan PROVE Ledger(d)'
  BY <1>5, LedgerUntouched, Zenon DEF EndScan, NothingBooked, durable, counts
<1>6. ASSUME NEW t \in Task, SkipQueued(t) PROVE Ledger(d)'
  BY <1>6, LedgerUntouched, Zenon DEF SkipQueued, NothingBooked, durable, counts
<1>7. ASSUME NEW t \in Task, DropOverBudget(t) PROVE Ledger(d)'
  BY <1>0, <1>7, LedgerUntouched, Zenon
  DEF DropOverBudget, NothingBooked, counts, Terminal
<1>8. ASSUME NEW t \in Task, AdmitLanes(t) PROVE Ledger(d)'
  BY <1>8, LedgerUntouched, Zenon DEF AdmitLanes, NothingBooked, counts
<1>9. ASSUME NEW t \in Task, Enqueue(t) PROVE Ledger(d)'
  BY <1>0, <1>9, LedgerUntouched, Zenon
  DEF Enqueue, NothingBooked, volatile, counts, Terminal
<1>10. ASSUME NEW t \in Task, AccountDead(t) PROVE Ledger(d)'
  <2>1. CASE d # t
    BY <1>0, <1>10, <2>1, LedgerUntouched, Zenon DEF AccountDead, NothingBooked, durable
  <2>2. CASE d = t
    <3>1. /\ d \in dead /\ d \notin dead' /\ counted'[d] \in {counted[d], counted[d] + 1}
          /\ UNCHANGED <<state, exec, completions>>
      BY <1>0, <1>10, <2>2, Zenon DEF AccountDead, durable
    <3>2. Settled(d) /\ counted[d] = 0 /\ ~MayCount(d) /\ Awaiting(d) = {}
      BY <3>1, Zenon DEF Ledger
    <3>3. counted'[d] \in {0, 1}
      BY <3>1, <3>2
    <3>4. Settled(d)' /\ ~MayCount(d)' /\ Awaiting(d)' = {}
      BY <3>1, <3>2, Zenon DEF Settled, MayCount, Awaiting
    <3> QED BY <3>1, <3>3, <3>4, Zenon DEF Ledger
  <2> QED BY <2>1, <2>2, Zenon
<1>11. ASSUME NEW t \in Task, RunCloseTask(t) PROVE Ledger(d)'
  <2>1. NothingBooked(d)
    BY <1>0, <1>11, Zenon DEF RunCloseTask, NothingBooked, counts
  <2>2. exec'[d] = exec[d] \/ exec'[d].at = "spawned"
    BY <1>0, <1>11, SpawnEffect, Zenon DEF RunCloseTask
  <2> QED BY <2>1, <2>2, LedgerUntouched, LedgerDropped, Zenon
<1>12. ASSUME NEW t \in Task, AbandonCloseTask(t) PROVE Ledger(d)'
  BY <1>12, LedgerUntouched, Zenon DEF AbandonCloseTask, NothingBooked, durable, counts
<1>13. ASSUME NEW ts \in SUBSET Task, CancelQueued(ts) PROVE Ledger(d)'
  BY <1>0, <1>13, LedgerUntouched, Zenon
  DEF CancelQueued, NothingBooked, volatile, counts, Terminal
<1>14. ASSUME ReclaimDeadRunning PROVE Ledger(d)'
  <2>1. CASE d \notin DeadRunning
    BY <1>0, <1>14, <2>1, LedgerUntouched, Zenon DEF ReclaimDeadRunning, NothingBooked, counts
  <2>2. CASE d \in DeadRunning
    <3>1. exec[d].at = "none"
      BY <2>2, Zenon DEF DeadRunning, HolderIsDead, LanesOf, OwnLanes, Busy
    <3>2. ~Settled(d)
      BY <2>2, Zenon DEF DeadRunning, Settled, Terminal
    <3>3. /\ counted[d] = 0 /\ Awaiting(d) = {} /\ d \notin accounted
      BY <3>2, Zenon DEF Ledger
    <3>4. /\ state'[d] = "failed"
          /\ UNCHANGED <<exec, completions, accounted, counted>>
      BY <1>0, <1>14, <2>2, Zenon DEF ReclaimDeadRunning, DeadRunning, counts
    <3>5. /\ Settled(d)' /\ ~MayCount(d)' /\ Awaiting(d)' = {}
          /\ counted'[d] = 0 /\ d \notin accounted' /\ exec'[d].at = "none"
      BY <3>1, <3>3, <3>4, Zenon DEF Settled, MayCount, Awaiting, Terminal
    <3> QED BY <3>5, Zenon DEF Ledger
  <2> QED BY <2>1, <2>2, Zenon
<1>15. ASSUME ReapDeadHolders PROVE Ledger(d)'
  BY <1>15, LedgerUntouched, Zenon DEF ReapDeadHolders, NothingBooked, volatile, counts
<1>16. ASSUME Book PROVE Ledger(d)'
  <2>1. /\ completions # << >> /\ completions' = Tail(completions)
        /\ UNCHANGED <<state, exec, dead, accounted>>
        /\ Reap(completions[1].task, completions[1].out)
    BY <1>0, <1>16 DEF Book, durable
  <2>2. /\ 1 \in DOMAIN completions /\ completions[1] \in [task : Task, out : Outcomes]
        /\ \A i \in DOMAIN completions' : /\ i \in Nat /\ i # 0
                                          /\ i + 1 \in DOMAIN completions
                                          /\ completions'[i] = completions[i + 1]
    BY <1>0, <2>1, TailShift, Zenon
  <2>3. \A i \in Awaiting(d)' : i \in Nat /\ i # 0 /\ i + 1 \in Awaiting(d)
    BY <2>2, Zenon DEF Awaiting
  <2>4. (MayCount(d)' <=> MayCount(d)) /\ (Settled(d)' <=> Settled(d))
    BY <2>1, Zenon DEF MayCount, Settled
  <2>5. CASE 1 \in Awaiting(d)
    <3>1. Awaiting(d)' = {}
      <4>1. \A i \in Awaiting(d)' : i \in Nat /\ i # 0 /\ i + 1 = 1
        BY <2>3, <2>5, Zenon DEF Ledger
      <4> QED BY <4>1
    <3>2. Settled(d) /\ counted[d] = 0 /\ ~MayCount(d) /\ d \notin dead /\ d \notin accounted
      BY <2>5, Zenon DEF Ledger
    <3>3. counted'[d] \in {counted[d], counted[d] + 1}
      BY <1>0, <2>1, <2>2, Zenon DEF Reap, counts
    <3>4. counted'[d] \in {0, 1}
      BY <3>2, <3>3
    <3> QED BY <2>1, <2>4, <3>1, <3>2, <3>4, Zenon DEF Ledger
  <2>6. CASE 1 \notin Awaiting(d)
    <3>1. completions[1].task # d \/ completions[1].out = "cancelled"
      BY <2>2, <2>6, Zenon DEF Awaiting
    <3>2. counted'[d] = counted[d]
      BY <1>0, <2>1, <2>2, <3>1, Zenon DEF Reap, counts
    <3>3. Awaiting(d)' # {} => Awaiting(d) # {}
      BY <2>3, Zenon
    <3>4. (\A i, j \in Awaiting(d) : i = j) => \A i, j \in Awaiting(d)' : i = j
      <4> SUFFICES ASSUME \A i, j \in Awaiting(d) : i = j,
                          NEW i \in Awaiting(d)', NEW j \in Awaiting(d)'
                   PROVE  i = j
        BY Zenon
      <4>1. i \in Nat /\ j \in Nat /\ i + 1 = j + 1
        BY <2>3, Zenon
      <4> QED BY <4>1
    <3> QED BY <2>1, <2>4, <3>2, <3>3, <3>4, Zenon DEF Ledger
  <2> QED BY <2>5, <2>6, Zenon
<1>17. ASSUME NEW t \in Task, PolicyDenied(t) PROVE Ledger(d)'
  <2>1. NothingBooked(d)
    BY <1>0, <1>17, Zenon DEF PolicyDenied, NothingBooked, durable, counts
  <2>2. \A u \in Task : u # t => exec'[u] = exec[u]
    BY <1>0, <1>17, Zenon DEF PolicyDenied, Move
  <2>3. d = t => exec'[t].at = "releasing" /\ exec'[t].out = "cancelled"
    BY <1>0, <1>17, Zenon DEF PolicyDenied, Move
  <2> QED BY <2>1, <2>2, <2>3, LedgerUntouched, LedgerDropped, Zenon
<1>18. ASSUME NEW t \in Task, Claim(t) PROVE Ledger(d)'
  <2>1. CASE d # t
    <3>1. NothingBooked(d) /\ exec'[d] = exec[d]
      BY <1>0, <1>18, <2>1, Zenon DEF Claim, Move, NothingBooked, counts
    <3> QED BY <3>1, LedgerUntouched, Zenon
  <2>2. CASE d = t
    <3>1. ~Settled(d)
      BY <1>18, <2>2, Zenon DEF Claim, Settled, Terminal
    <3>2. counted[d] = 0 /\ Awaiting(d) = {} /\ d \notin dead /\ d \notin accounted
      BY <3>1, Zenon DEF Ledger
    <3>3. counted'[d] = 0 /\ Awaiting(d)' = {} /\ d \notin dead' /\ d \notin accounted'
      BY <1>18, <3>2, Zenon DEF Claim, Awaiting, counts
    <3>4. state'[d] = "running" /\ exec'[d].at = "working"
      BY <1>0, <1>18, <2>2, Zenon DEF Claim, Move
    <3> QED BY <3>3, <3>4, Zenon DEF Ledger
  <2> QED BY <2>1, <2>2, Zenon
<1>19. ASSUME NEW t \in Task, ClaimRejected(t) PROVE Ledger(d)'
  <2>1. NothingBooked(d)
    BY <1>0, <1>19, Zenon DEF ClaimRejected, NothingBooked, durable, counts
  <2>2. \A u \in Task : u # t => exec'[u] = exec[u]
    BY <1>0, <1>19, Zenon DEF ClaimRejected, Move
  <2>3. d = t => exec'[t].at = "releasing" /\ exec'[t].out = "none"
    BY <1>0, <1>19, Zenon DEF ClaimRejected, Move
  <2> QED BY <2>1, <2>2, <2>3, LedgerUntouched, LedgerDropped, Zenon
<1>20. ASSUME NEW t \in Task, NEW out \in Terminal, Finish(t, out) PROVE Ledger(d)'
  <2>1. NothingBooked(d)
    BY <1>0, <1>20, Zenon DEF Finish, NothingBooked, durable, counts
  <2>2. CASE d # t
    <3>1. exec'[d] = exec[d]
      BY <1>0, <1>20, <2>2, Zenon DEF Finish, Move
    <3> QED BY <2>1, <3>1, LedgerUntouched, Zenon
  <2>3. CASE d = t
    <3>1. exec[d].at = "working" /\ exec'[d].at = "releasing"
      BY <1>0, <1>20, <2>3, Zenon DEF Finish, At, Move
    <3>2. MayCount(d)
      BY <3>1, Zenon DEF MayCount
    <3> QED BY <2>1, <3>1, <3>2, LedgerKept, Zenon
  <2> QED BY <2>2, <2>3, Zenon
<1>21. ASSUME NEW t \in Task, NEW out \in Outcomes, FinishUnconfirmed(t, out)
      PROVE  Ledger(d)'
  <2>1. NothingBooked(d)
    BY <1>0, <1>21, Zenon DEF FinishUnconfirmed, NothingBooked, durable, counts
  <2>2. CASE d # t
    <3>1. exec'[d] = exec[d]
      BY <1>0, <1>21, <2>2, Zenon DEF FinishUnconfirmed, Move
    <3> QED BY <2>1, <3>1, LedgerUntouched, Zenon
  <2>3. CASE d = t
    <3>1. exec[d].at = "working" /\ exec'[d].at \in {"raised", "writing"}
      BY <1>0, <1>21, <2>3, Zenon DEF FinishUnconfirmed, At, Move
    <3>2. MayCount(d)
      BY <3>1, Zenon DEF MayCount
    <3> QED BY <2>1, <3>1, <3>2, LedgerKept, Zenon
  <2> QED BY <2>2, <2>3, Zenon
<1>22. ASSUME NEW t \in Task, NEW conf \in BOOLEAN, ReleaseSlot(t, conf)
      PROVE  Ledger(d)'
  <2>1. NothingBooked(d)
    BY <1>0, <1>22, Zenon DEF ReleaseSlot, NothingBooked, counts
  <2>2. CASE d # t
    <3>1. exec'[d] = exec[d]
      BY <1>0, <1>22, <2>2, Zenon DEF ReleaseSlot, Move
    <3> QED BY <2>1, <3>1, LedgerUntouched, Zenon
  <2>3. CASE d = t
    <3>1. /\ exec[d].at = "releasing" /\ exec'[d].out = exec[d].out
          /\ exec'[d].at = "writing" \/ (exec'[d].at = "unlocking" /\ exec[d].out = "none")
      BY <1>0, <1>22, <2>3, Zenon DEF ReleaseSlot, At, Move
    <3>2. /\ MayCount(d)' => MayCount(d)
          /\ MayCount(d)' => exec'[d].at = "writing"
          /\ exec'[d].at # "finishing"
      BY <3>1, Zenon DEF MayCount
    <3> QED BY <2>1, <3>2, LedgerKept, Zenon
  <2> QED BY <2>2, <2>3, Zenon
<1>23. ASSUME NEW t \in Task, WriteTerminal(t) PROVE Ledger(d)'
  <2>0. exec[t].out \in Terminal
    BY <1>0, <1>23, ExecFieldTypes, Zenon DEF WriteTerminal, At, Outcomes
  <2>1. NothingBooked(d)
    BY <1>0, <1>23, <2>0, Zenon DEF WriteTerminal, NothingBooked, counts
  <2>2. CASE d # t
    <3>1. exec'[d] = exec[d]
      BY <1>0, <1>23, <2>2, Zenon DEF WriteTerminal, Move
    <3> QED BY <2>1, <3>1, LedgerUntouched, Zenon
  <2>3. CASE d = t
    <3>1. exec[d].at = "writing" /\ exec'[d].at = "unlocking" /\ exec'[d].out = exec[d].out
      BY <1>0, <1>23, <2>3, Zenon DEF WriteTerminal, At, Move
    <3>2. (MayCount(d)' => MayCount(d)) /\ exec'[d].at # "finishing"
      BY <3>1, Zenon DEF MayCount
    <3>3. MayCount(d) => Settled(d)'
      <4>1. MayCount(d) => state[d] \in {"running"} \union Terminal
        BY <1>0, Zenon DEF Ledger, TaskStates, Terminal
      <4> QED BY <1>0, <1>23, <2>0, <2>3, <4>1, Zenon DEF WriteTerminal, Settled, Terminal
    <3> QED BY <2>1, <3>2, <3>3, LedgerKept, Zenon
  <2> QED BY <2>2, <2>3, Zenon
<1>24. ASSUME NEW t \in Task, ReleaseLanes(t) PROVE Ledger(d)'
  <2>1. NothingBooked(d)
    BY <1>0, <1>24, Zenon DEF ReleaseLanes, NothingBooked, counts
  <2>2. CASE d # t
    <3>1. exec'[d] = exec[d]
      BY <1>0, <1>24, <2>2, Zenon DEF ReleaseLanes, Move
    <3> QED BY <2>1, <3>1, LedgerUntouched, Zenon
  <2>3. CASE d = t
    <3>1. /\ exec[d].at = "unlocking" /\ exec'[d].out = exec[d].out
          /\ exec'[d].at = "raised" \/ (exec'[d].at = "finishing" /\ exec[d].out # "none")
          /\ state'[d] = state[d]
      BY <1>0, <1>24, <2>3, Zenon DEF ReleaseLanes, At, Move
    <3>2. /\ MayCount(d)' => MayCount(d)
          /\ exec'[d].at = "finishing" => exec'[d].out # "none"
      BY <3>1, Zenon DEF MayCount
    <3>3. MayCount(d)' => Settled(d)'
      BY <3>1, <3>2, Zenon DEF Ledger, Settled
    <3> QED BY <2>1, <3>2, <3>3, LedgerKept, Zenon
  <2> QED BY <2>2, <2>3, Zenon
<1>25. ASSUME NEW t \in Task, Complete(t) PROVE Ledger(d)'
  <2>1. /\ exec[t].at = "finishing"
        /\ UNCHANGED <<state, dead, accounted>>
        /\ exec'[t].at = "none" /\ \A u \in Task : u # t => exec'[u] = exec[u]
    BY <1>0, <1>25, Zenon DEF Complete, At, NoExec, durable
  <2>2. /\ counted'[d] \in {counted[d], counted[d] + 1}
        /\ counted'[d] # counted[d] =>
              d = t /\ exec[t].out # "cancelled" /\ completions' = completions
    BY <1>0, <1>25, Zenon DEF Complete, Reap, counts
  <2>3. \/ completions' = completions
        \/ /\ counted' = counted
           /\ completions' = Append(completions, [task |-> t, out |-> exec[t].out])
    BY <1>25, Zenon DEF Complete, counts
  <2>4. exec[t].out \in Outcomes
    BY <1>0, ExecFieldTypes, Zenon
  <2>5. CASE d # t
    <3>1. NothingBooked(d) \/ completions' # completions
      BY <2>1, <2>2, <2>5, Zenon DEF NothingBooked
    <3>2. Awaiting(d)' = Awaiting(d)
      <4>1. CASE completions' = completions
        BY <4>1, Zenon DEF Awaiting
      <4>2. CASE completions' = Append(completions, [task |-> t, out |-> exec[t].out])
        <5>1. /\ DOMAIN completions' = DOMAIN completions \union {Len(completions) + 1}
              /\ \A i \in DOMAIN completions : completions'[i] = completions[i]
              /\ completions'[Len(completions) + 1].task = t
          BY <1>0, <2>4, <4>2
        <5> QED BY <2>5, <5>1, Zenon DEF Awaiting
      <4> QED BY <2>3, <4>1, <4>2, Zenon
    <3>3. (MayCount(d)' <=> MayCount(d)) /\ (Settled(d)' <=> Settled(d)) /\ exec'[d] = exec[d]
      BY <2>1, <2>5, Zenon DEF MayCount, Settled
    <3>4. counted'[d] = counted[d]
      BY <2>2, <2>5, Zenon
    <3> QED BY <2>1, <3>2, <3>3, <3>4, Zenon DEF Ledger
  <2>6. CASE d = t /\ exec[t].out = "cancelled"
    <3>1. Awaiting(d)' = Awaiting(d)
      <4>1. CASE completions' = completions
        BY <4>1, Zenon DEF Awaiting
      <4>2. CASE completions' = Append(completions, [task |-> t, out |-> exec[t].out])
        <5>1. /\ DOMAIN completions' = DOMAIN completions \union {Len(completions) + 1}
              /\ \A i \in DOMAIN completions : completions'[i] = completions[i]
              /\ completions'[Len(completions) + 1].out = exec[t].out
          BY <1>0, <2>4, <4>2
        <5> QED BY <2>6, <5>1, Zenon DEF Awaiting
      <4> QED BY <2>3, <4>1, <4>2, Zenon
    <3>2. ~MayCount(d)' /\ (Settled(d)' <=> Settled(d)) /\ exec'[d].at # "finishing"
      BY <2>1, <2>6, Zenon DEF MayCount, Settled
    <3>3. counted'[d] = counted[d]
      BY <2>2, <2>6, Zenon
    <3> QED BY <2>1, <3>1, <3>2, <3>3, Zenon DEF Ledger
  <2>7. CASE d = t /\ exec[t].out # "cancelled"
    <3>1. MayCount(d)
      BY <2>1, <2>7, Zenon DEF Ledger, MayCount
    <3>2. Settled(d) /\ counted[d] = 0 /\ Awaiting(d) = {} /\ d \notin dead /\ d \notin accounted
      BY <2>1, <2>7, <3>1, Zenon DEF Ledger
    <3>3. ~MayCount(d)' /\ Settled(d)' /\ exec'[d].at # "finishing" /\ d \notin dead' /\ d \notin accounted'
      BY <2>1, <2>7, <3>2, Zenon DEF MayCount, Settled
    <3>4. CASE completions' = completions
      <4>1. Awaiting(d)' = {}
        BY <3>2, <3>4, Zenon DEF Awaiting
      <4>2. counted'[d] \in {0, 1}
        BY <2>2, <3>2
      <4> QED BY <3>3, <4>1, <4>2, Zenon DEF Ledger
    <3>5. CASE counted' = counted /\ completions' = Append(completions, [task |-> t, out |-> exec[t].out])
      <4>1. /\ DOMAIN completions' = DOMAIN completions \union {Len(completions) + 1}
            /\ \A i \in DOMAIN completions : completions'[i] = completions[i]
        BY <1>0, <2>4, <3>5
      <4>2. \A i \in Awaiting(d)' : i = Len(completions) + 1
        BY <3>2, <4>1, Zenon DEF Awaiting
      <4> QED BY <3>2, <3>3, <3>5, <4>2, Zenon DEF Ledger
    <3> QED BY <2>3, <3>4, <3>5, Zenon
  <2> QED BY <2>5, <2>6, <2>7, Zenon
<1>26. ASSUME NEW t \in Task, RefuseDispatch(t) PROVE Ledger(d)'
  <2>1. NothingBooked(d)
    BY <1>0, <1>26, Zenon DEF RefuseDispatch, NothingBooked, counts
  <2>2. \A u \in Task : u # t => exec'[u] = exec[u]
    BY <1>0, <1>26, Zenon DEF RefuseDispatch, Move
  <2>3. d = t => exec'[t].at = "refusing"
    BY <1>0, <1>26, Zenon DEF RefuseDispatch, Move
  <2> QED BY <2>1, <2>2, <2>3, LedgerUntouched, LedgerDropped, Zenon
<1>27. ASSUME NEW t \in Task, ForgetDispatch(t) PROVE Ledger(d)'
  <2>1. NothingBooked(d)
    BY <1>0, <1>27, Zenon DEF ForgetDispatch, NothingBooked, counts
  <2>2. \A u \in Task : u # t => exec'[u] = exec[u]
    BY <1>0, <1>27, Zenon DEF ForgetDispatch, NoExec
  <2>3. d = t => exec'[t].at = "none"
    BY <1>0, <1>27, Zenon DEF ForgetDispatch, NoExec
  <2> QED BY <2>1, <2>2, <2>3, LedgerUntouched, LedgerDropped, Zenon
<1>28. ASSUME Crash PROVE Ledger(d)'
  BY <1>28, ForgetKeepsLedger, Zenon DEF Crash, durable, counts
<1>29. ASSUME NEW e \in Env, LoseEnv(e) PROVE Ledger(d)'
  <2>1. state' = state /\ counted' = counted
    BY <1>29, Zenon DEF LoseEnv, durable, counts
  <2>2. CASE ForgetMemory
    BY <2>1, <2>2, ForgetKeepsLedger, Zenon
  <2>3. CASE UNCHANGED <<coord, volatile>>
    BY <2>1, <2>3, LedgerUntouched, Zenon DEF NothingBooked, volatile
  <2> QED BY <1>29, <2>2, <2>3, Zenon DEF LoseEnv
<1>30. ASSUME NEW e \in Env, ConfirmScopeGone(e) PROVE Ledger(d)'
  BY <1>0, <1>30, LedgerUntouched, Zenon DEF ConfirmScopeGone, Confirm, NothingBooked, volatile, counts, Terminal
<1>31. ASSUME NEW e \in Env, NEW p \in Pid, Boot(e, p) PROVE Ledger(d)'
  BY <1>31, LedgerUntouched, Zenon DEF Boot, NothingBooked, durable, volatile, counts
<1>32. ASSUME NEW t \in Task, WorkerExits(t) PROVE Ledger(d)'
  BY <1>32, LedgerUntouched, Zenon DEF WorkerExits, NothingBooked, durable, volatile, counts
<1>33. ASSUME NEW t \in Task, ConfirmTaskStopped(t) PROVE Ledger(d)'
  BY <1>0, <1>33, LedgerUntouched, Zenon DEF ConfirmTaskStopped, Confirm, NothingBooked, volatile, counts, Terminal
<1>34. ASSUME SetAdmission PROVE Ledger(d)'
  BY <1>34, LedgerUntouched, Zenon DEF SetAdmission, NothingBooked, durable, counts
<1>35. ASSUME SettleAbandoned PROVE Ledger(d)'
  BY <1>0, <1>35, LedgerUntouched, Zenon DEF SettleAbandoned, NothingBooked, counts, Terminal
<1> QED
  BY <1>1, <1>2, <1>3, <1>4, <1>5, <1>6, <1>7, <1>8, <1>9, <1>10, <1>11,
     <1>12, <1>13, <1>14, <1>15, <1>16, <1>17, <1>18, <1>19, <1>20, <1>21,
     <1>22, <1>23, <1>24, <1>25, <1>26, <1>27, <1>28, <1>29, <1>30, <1>31,
     <1>32, <1>33, <1>34, <1>35, Zenon
     DEF Next, PumpNext, TickNext, ExecNext, WorldNext, Begin, Settle

\* A task's result counts at most once in every mode: what a reclaimed row, a late
\* result, an abandoned close task and a second dispatch bring never adds up.
THEOREM ResultsCountOnce == Spec => []CountedOnce
<1>1. Init => Ledgers
  <2> SUFFICES ASSUME Init, NEW t \in Task PROVE Ledger(t)
    BY Zenon DEF Ledgers
  <2>1. exec[t].at = "none" /\ counted[t] = 0 /\ dead = {} /\ accounted = {}
    BY Zenon DEF Init, NoExec
  <2>2. Awaiting(t) = {}
    BY DEF Init, Awaiting
  <2> QED BY <2>1, <2>2, Zenon DEF Ledger, MayCount
<1>2. Base /\ OwnLanes /\ Ledgers /\ [Next]_vars => Ledgers'
  <2> SUFFICES ASSUME Base, OwnLanes, Ledgers, [Next]_vars, NEW d \in Task PROVE Ledger(d)'
    BY Zenon DEF Ledgers
  <2>1. Ledger(d)
    BY Zenon DEF Ledgers
  <2>2. CASE UNCHANGED vars
    BY <2>1, <2>2, LedgerUntouched, Zenon DEF vars, durable, volatile, counts, NothingBooked
  <2> QED BY <2>1, <2>2, LedgerSteps, Zenon
<1>3. Ledgers => CountedOnce
  <2> SUFFICES ASSUME Ledgers, NEW t \in Task PROVE counted[t] <= 1
    BY Zenon DEF CountedOnce
  <2>1. counted[t] \in {0, 1}
    BY Zenon DEF Ledgers, Ledger
  <2> QED BY <2>1
<1> QED BY <1>1, <1>2, <1>3, BaseHolds, LanesAreOwn, PTL DEF Spec

-----------------------------------------------------------------------------
(* The admission promise.                                                     *)

Using == {t \in Task : InUse(t)}

\* What a step does to u that brings no worker of u into use: it ends the
\* worker, or adds neither an execution nor a lane and keeps what is recorded.
UseStays(u) ==
    \/ work'[u] = NoEnv
    \/ /\ work'[u] = work[u]
       /\ cleanup[u] = "unconfirmed" => cleanup'[u] = "unconfirmed"
       /\ exec'[u].at # "none" => exec[u].at # "none"
       /\ \A r \in leases' : r.holder = u => r \in leases

\* After such a step a worker in use was in use before.
LEMMA UseKept ==
    ASSUME NEW u \in Task, UseStays(u), InUse(u)'
    PROVE  InUse(u)
<1>1. LanesOf(leases', u) \subseteq LanesOf(leases, u) \/ work'[u] = NoEnv
  BY Zenon DEF UseStays, LanesOf
<1> QED BY <1>1, Zenon DEF UseStays, InUse, HoldsLanes

\* Only a claim puts a worker to use.
LEMMA UsingSteps ==
    ASSUME IInv, Next, NEW u \in Task
    PROVE  UseStays(u) \/ Claim(u)
<1>0. /\ work \in [Task -> Env \union {NoEnv}]
      /\ cleanup \in [Task -> {"none", "confirmed", "unconfirmed"}]
      /\ exec \in [Task -> Execution]
  BY Zenon DEF IInv, Base, TypeOK
<1>1. ASSUME BeginScan PROVE UseStays(u) \/ Claim(u)
  BY <1>1, Zenon DEF BeginScan, durable, world, UseStays
<1>2. ASSUME AdmitAndSpawn PROVE UseStays(u) \/ Claim(u)
  <2>1. pump.task \in Task /\ work[pump.task] = NoEnv
    BY <1>2, PumpTypes, Zenon DEF AdmitAndSpawn, IInv, Base, TypeOK, AdmittedHolds
  <2>2. u # pump.task => exec'[u] = exec[u]
    BY <1>0, <1>2, <2>1, SpawnEffect, Zenon DEF AdmitAndSpawn
  <2> QED BY <1>2, <2>1, <2>2, Zenon DEF AdmitAndSpawn, InUse, UseStays
<1>3. ASSUME GpuRefused PROVE UseStays(u) \/ Claim(u)
  BY <1>3, Zenon DEF GpuRefused, world, UseStays
<1>4. ASSUME ReturnLanes PROVE UseStays(u) \/ Claim(u)
  BY <1>4, Zenon DEF ReturnLanes, Released, world, UseStays
<1>5. ASSUME EndScan PROVE UseStays(u) \/ Claim(u)
  BY <1>5, Zenon DEF EndScan, durable, world, UseStays
<1>6. ASSUME NEW t \in Task, SkipQueued(t) PROVE UseStays(u) \/ Claim(u)
  BY <1>6, Zenon DEF SkipQueued, durable, world, UseStays
<1>7. ASSUME NEW t \in Task, DropOverBudget(t) PROVE UseStays(u) \/ Claim(u)
  BY <1>7, Zenon DEF DropOverBudget, world, UseStays
<1>8. ASSUME NEW t \in Task, AdmitLanes(t) PROVE UseStays(u) \/ Claim(u)
  <2>1. work[t] = NoEnv
    BY <1>8, Zenon DEF AdmitLanes, IInv, Base, SnapshotIsIdle
  <2>2. \A r \in leases' : r.holder # t => r \in leases
    BY <1>8 DEF AdmitLanes, Acquired
  <2> QED BY <1>8, <2>1, <2>2, Zenon DEF AdmitLanes, world, UseStays
<1>9. ASSUME NEW t \in Task, Enqueue(t) PROVE UseStays(u) \/ Claim(u)
  BY <1>9, Zenon DEF Enqueue, volatile, world, UseStays
<1>10. ASSUME NEW t \in Task, AccountDead(t) PROVE UseStays(u) \/ Claim(u)
  BY <1>10, Zenon DEF AccountDead, durable, world, UseStays
<1>11. ASSUME NEW t \in Task, RunCloseTask(t) PROVE UseStays(u) \/ Claim(u)
  <2>1. work[t] = NoEnv
    BY <1>11, Zenon DEF RunCloseTask, IInv, Base, RowFacts
  <2>2. \A r \in leases' : r.holder # t => r \in leases
    BY <1>11 DEF RunCloseTask, Acquired
  <2>3. u # t => exec'[u] = exec[u]
    BY <1>0, <1>11, SpawnEffect, Zenon DEF RunCloseTask
  <2> QED BY <1>11, <2>1, <2>2, <2>3, Zenon DEF RunCloseTask, world, UseStays
<1>12. ASSUME NEW t \in Task, AbandonCloseTask(t) PROVE UseStays(u) \/ Claim(u)
  BY <1>12, Zenon DEF AbandonCloseTask, durable, world, UseStays
<1>13. ASSUME NEW ts \in SUBSET Task, CancelQueued(ts) PROVE UseStays(u) \/ Claim(u)
  BY <1>13, Zenon DEF CancelQueued, volatile, world, UseStays
<1>14. ASSUME ReclaimDeadRunning PROVE UseStays(u) \/ Claim(u)
  BY <1>14, Zenon DEF ReclaimDeadRunning, world, UseStays
<1>15. ASSUME ReapDeadHolders PROVE UseStays(u) \/ Claim(u)
  BY <1>15, Zenon DEF ReapDeadHolders, volatile, world, UseStays
<1>16. ASSUME Book PROVE UseStays(u) \/ Claim(u)
  BY <1>16, Zenon DEF Book, durable, world, UseStays
<1>17. ASSUME NEW t \in Task, PolicyDenied(t) PROVE UseStays(u) \/ Claim(u)
  BY <1>0, <1>17, Zenon DEF PolicyDenied, At, Move, durable, world, UseStays
<1>18. ASSUME NEW t \in Task, Claim(t) PROVE UseStays(u) \/ Claim(u)
  <2>1. CASE u = t
    BY <1>18, <2>1, Zenon
  <2>2. CASE u # t
    BY <1>0, <1>18, <2>2, Zenon DEF Claim, Move, UseStays
  <2> QED BY <2>1, <2>2, Zenon
<1>19. ASSUME NEW t \in Task, ClaimRejected(t) PROVE UseStays(u) \/ Claim(u)
  BY <1>0, <1>19, Zenon DEF ClaimRejected, At, Move, durable, world, UseStays
<1>20. ASSUME NEW t \in Task, NEW out \in Terminal, Finish(t, out) PROVE UseStays(u) \/ Claim(u)
  BY <1>0, <1>20, Zenon DEF Finish, At, Move, durable, UseStays
<1>21. ASSUME NEW t \in Task, NEW out \in Outcomes, FinishUnconfirmed(t, out)
      PROVE  UseStays(u) \/ Claim(u)
  BY <1>0, <1>21, Zenon DEF FinishUnconfirmed, At, Move, durable, world, UseStays
<1>22. ASSUME NEW t \in Task, NEW conf \in BOOLEAN, ReleaseSlot(t, conf)
      PROVE  UseStays(u) \/ Claim(u)
  BY <1>0, <1>22, Zenon DEF ReleaseSlot, At, Move, UseStays
<1>23. ASSUME NEW t \in Task, WriteTerminal(t) PROVE UseStays(u) \/ Claim(u)
  BY <1>0, <1>23, Zenon DEF WriteTerminal, At, Move, world, IInv, Base, StageFacts, UseStays
<1>24. ASSUME NEW t \in Task, ReleaseLanes(t) PROVE UseStays(u) \/ Claim(u)
  BY <1>0, <1>24, Zenon DEF ReleaseLanes, At, Move, Released, world, UseStays
<1>25. ASSUME NEW t \in Task, Complete(t) PROVE UseStays(u) \/ Claim(u)
  BY <1>0, <1>25, Zenon DEF Complete, At, NoExec, durable, world, UseStays
<1>26. ASSUME NEW t \in Task, RefuseDispatch(t) PROVE UseStays(u) \/ Claim(u)
  BY <1>0, <1>26, Zenon DEF RefuseDispatch, At, Move, world, UseStays
<1>27. ASSUME NEW t \in Task, ForgetDispatch(t) PROVE UseStays(u) \/ Claim(u)
  BY <1>0, <1>27, Zenon DEF ForgetDispatch, At, NoExec, Released, world, UseStays
<1>28. ASSUME Crash PROVE UseStays(u) \/ Claim(u)
  BY <1>28, Zenon DEF Crash, ForgetMemory, NoExec, durable, world, UseStays
<1>29. ASSUME NEW e \in Env, LoseEnv(e) PROVE UseStays(u) \/ Claim(u)
  <2>1. work'[u] \in {NoEnv, work[u]} /\ UNCHANGED <<cleanup, leases>>
    BY <1>29, Zenon DEF LoseEnv, durable
  <2>2. exec'[u].at = "none" \/ exec' = exec
    <3>1. CASE ForgetMemory
      BY <3>1, Zenon DEF ForgetMemory, NoExec
    <3>2. CASE UNCHANGED <<coord, volatile>>
      BY <3>2, Zenon DEF volatile
    <3> QED BY <1>29, <3>1, <3>2, Zenon DEF LoseEnv
  <2> QED BY <2>1, <2>2, Zenon DEF UseStays
<1>30. ASSUME NEW e \in Env, ConfirmScopeGone(e) PROVE UseStays(u) \/ Claim(u)
  <2>1. work' = work /\ exec' = exec /\ leases' \subseteq leases
    BY <1>30, Zenon DEF ConfirmScopeGone, Confirm, volatile, world
  <2>2. ASSUME cleanup'[u] # cleanup[u] PROVE work[u] = NoEnv
    <3>1. PICK r \in leases : r.holder = u /\ r.env = e
      BY <1>0, <1>30, <2>2, Zenon DEF ConfirmScopeGone, Confirm
    <3> QED BY <1>30, <3>1, Zenon DEF ConfirmScopeGone, IInv, Base, WorkerHolds, OneEnv
  <2> QED BY <2>1, <2>2, Zenon DEF UseStays
<1>31. ASSUME NEW e \in Env, NEW p \in Pid, Boot(e, p) PROVE UseStays(u) \/ Claim(u)
  BY <1>0, <1>31, Zenon DEF Boot, durable, volatile, UseStays
<1>32. ASSUME NEW t \in Task, WorkerExits(t) PROVE UseStays(u) \/ Claim(u)
  BY <1>0, <1>32, Zenon DEF WorkerExits, durable, volatile, UseStays
<1>33. ASSUME NEW t \in Task, ConfirmTaskStopped(t) PROVE UseStays(u) \/ Claim(u)
  BY <1>0, <1>33, Zenon DEF ConfirmTaskStopped, Confirm, volatile, world, UseStays
<1>34. ASSUME SetAdmission PROVE UseStays(u) \/ Claim(u)
  BY <1>34, Zenon DEF SetAdmission, durable, world, UseStays
<1>35. ASSUME SettleAbandoned PROVE UseStays(u) \/ Claim(u)
  BY <1>35, Zenon DEF SettleAbandoned, world, UseStays
<1> QED
  BY <1>1, <1>2, <1>3, <1>4, <1>5, <1>6, <1>7, <1>8, <1>9, <1>10, <1>11,
     <1>12, <1>13, <1>14, <1>15, <1>16, <1>17, <1>18, <1>19, <1>20,
     <1>21, <1>22, <1>23, <1>24, <1>25, <1>26, <1>27, <1>28, <1>29,
     <1>30, <1>31, <1>32, <1>33, <1>34, <1>35, Zenon
     DEF Next, PumpNext, TickNext, ExecNext, WorldNext, Begin, Settle

\* Every step of the dispatch core is a step of WorkAdmission or leaves its state alone.
LEMMA PromiseStep ==
    ASSUME IInv, [Next]_vars, ExclusiveUse'
    PROVE  Admission!Next \/ Using' = Using
<1>1. CASE UNCHANGED vars
  BY <1>1, Zenon DEF vars, durable, volatile, world, Using, InUse, HoldsLanes
<1>2. CASE \E t \in Task : Claim(t) /\ ~InUse(t) /\ InUse(t)'
  <2>1. PICK t \in Task : Claim(t) /\ ~InUse(t) /\ InUse(t)'
    BY <1>2, Zenon
  <2>2. \A u \in Task : u # t => (InUse(u)' <=> InUse(u))
    <3>1. \A u \in Task : u # t => work'[u] = work[u] /\ exec'[u] = exec[u]
      BY <2>1, Zenon DEF Claim, Move, IInv, Base, TypeOK
    <3> QED BY <2>1, <3>1, Zenon DEF Claim, InUse, HoldsLanes
  <2>3. Using' = Using \union {t} /\ t \notin Using
    BY <2>1, <2>2, Zenon DEF Using
  <2>4. \A u \in Using : ~Clash(t, u)
    <3>1. \A u \in Using : u # t /\ InUse(u)'
      BY <2>1, <2>2, Zenon DEF Using
    <3> QED BY <2>1, <3>1, Zenon DEF ExclusiveUse, Using, Clash
  <2> QED BY <2>1, <2>3, <2>4, Zenon DEF Admission!Next, Admission!Begin, Using
<1>3. CASE Next /\ ~(\E t \in Task : Claim(t) /\ ~InUse(t) /\ InUse(t)')
  <2>1. Using' \subseteq Using
    BY <1>3, UsingSteps, UseKept, Zenon DEF Using
  <2>2. CASE Using' = Using
    BY <2>2, Zenon
  <2>3. CASE Using' # Using
    <3>1. Using \ Using' \in SUBSET Using /\ Using \ Using' # {} /\ Using' = Using \ (Using \ Using')
      BY <2>1, <2>3, Zenon
    <3>2. Admission!End(Using \ Using')
      BY <3>1, Zenon DEF Admission!End, Using
    <3> QED BY <3>1, <3>2, Zenon DEF Admission!Next, Using
  <2> QED BY <2>2, <2>3, Zenon
<1> QED BY <1>1, <1>2, <1>3, Zenon

\* The dispatch core implements WorkAdmission in every mode: whatever the
\* coordinator, its executions, a crash or an operator does, a worker is put to
\* use only while no clashing worker is in use.
THEOREM ImplementsAdmission == Spec => AdmissionPromise
<1>1. Init => Admission!Init
  BY Zenon DEF Init, Admission!Init, InUse
<1>2. IInv /\ ExclusiveUse' /\ [Next]_vars => [Admission!Next]_Using
  BY PromiseStep, Zenon
<1> QED BY <1>1, <1>2, Inductive, InvExclusive, PTL
    DEF Spec, AdmissionPromise, Admission!Spec, Using

=============================================================================
