--------------------------- MODULE SessionDispatch --------------------------
(* The dispatch core of one session: the task rows, lane leases and GPU       *)
(* leases of coordinator.db, the coordinator process that dispatches tasks    *)
(* from them, the executions it runs concurrently, and what survives it.      *)
(*                                                                            *)
(* At most one coordinator exists at a time (the session lock).  Its own work *)
(* (the tick: cancel, reclaim, pump, close) is one asyncio coroutine; every   *)
(* execution is another.  They interleave at each await, that is, between     *)
(* database transactions, so an action below is one transaction together with *)
(* the code up to the next await.  The coordinator can die between any two.   *)
EXTENDS LaneLeases, GpuPool, Sequences

CONSTANTS
    Needs,        \* requires_lanes of each task
    GpuNeed,      \* gpu_count of a GPU specialist, 0 for every other task
    SelfSettling, \* _SELF_SETTLING_KINDS: their completion is not queued
    CloseTask,    \* tasks the CLOSE sequencer runs itself
    RayExec,      \* whether GPU specialists run as Ray actors
    NoEnv,        \* no worker
    NoCoord,      \* nobody holds the session lock
    MaxBoots      \* bound on coordinator starts

Task == Holder

ASSUME DispatchAssumption ==
    /\ Needs \in [Task -> SUBSET Lane]
    /\ GpuNeed \in [Task -> Nat]
    /\ SelfSettling \subseteq Task
    /\ CloseTask \subseteq Task
    /\ RayExec \in BOOLEAN
    /\ NoTask \notin Task
    /\ NoEnv \notin Env
    /\ NoCoord \notin [env : Env, pid : Pid]
    /\ MaxBoots \in Nat

VARIABLES
    \* durable: coordinator.db
    state,        \* tasks.state, "absent" before the row is created
    cleanup,      \* cleanup_confirmed of the last outcome in tasks.history
    leases,       \* the lane table
    gpus,         \* the gpu_leases table
    \* the coordinator process
    coord,        \* the process holding the session lock
    pump,         \* where _spawn_fitting_queued is, and with which task
    snapshot,     \* queued rows it read and has not considered yet
    view,         \* its local count of holders per lane
    inflight,     \* _inflight_actions
    exec,         \* the execution of each task
    completions,  \* _completion_queue
    dead,         \* tasks reclaimed from a dead holder, not yet accounted
    accounted,    \* _dead_holder_accounted
    \* the outside world and history
    work,         \* the environment where a task's worker is alive
    cards,        \* the cards a task's worker was told to use
    gone,         \* environments that no longer exist
    boots,        \* coordinator starts so far
    delivered,    \* delegated_result events published per task
    counted       \* times a task's result was promoted or charged

durable == <<state, cleanup, leases, gpus>>
volatile == <<pump, snapshot, view, inflight, exec, completions, dead, accounted>>
world == <<work, cards, gone, boots>>
counts == <<delivered, counted>>
vars == <<durable, coord, volatile, world, counts>>

TaskStates == {"absent", "queued", "running", "succeeded", "failed", "cancelled"}
Terminal == {"succeeded", "failed", "cancelled"}

\* An execution is spawned, works, and settles in the order of
\* _settle_execution: GPU slot, terminal row, lanes, completion.  "raised" is
\* an execution that ended by an exception: nothing is queued and its
\* _inflight_actions entry stays.  onComplete is what happens to the result: the
\* pump queues it, CLOSE books its stack revalidation at once, and nobody books
\* that of a self-settling or other close task.
Stages == {"none", "spawned", "refusing", "working", "releasing", "writing",
           "unlocking", "finishing", "raised"}
Outcomes == Terminal \union {"none"}
OnComplete == {"queue", "book", "none"}
Execution ==
    {x \in [at : Stages, out : Outcomes, conf : BOOLEAN, onComplete : OnComplete] :
        x.at = "writing" => x.out # "none"}
NoExec == [at |-> "none", out |-> "none", conf |-> FALSE, onComplete |-> "none"]
Spawned(next) == [at |-> "spawned", out |-> "none", conf |-> FALSE, onComplete |-> next]

\* "shut" is idle with admission closed; "cancel" and "fail" are CLOSE between
\* the read and the write of a row it abandons.
PumpStates ==
    [at : {"idle", "shut", "scan"}, task : {NoTask}]
        \union [at : {"admit", "refuse", "cancel", "fail"}, task : Task]
IdlePump == [at |-> "idle", task |-> NoTask]
Scanning == [at |-> "scan", task |-> NoTask]

LaneView == [l \in Lane |-> Cardinality(HoldersOf(leases, l))]

Init ==
    /\ state = [t \in Task |-> "absent"]
    /\ cleanup = [t \in Task |-> "none"]
    /\ leases = {}
    /\ gpus = [g \in Gpu |-> NoTask]
    /\ coord = NoCoord
    /\ pump = IdlePump
    /\ snapshot = {}
    /\ view = [l \in Lane |-> 0]
    /\ inflight = {}
    /\ exec = [t \in Task |-> NoExec]
    /\ completions = << >>
    /\ dead = {}
    /\ accounted = {}
    /\ work = [t \in Task |-> NoEnv]
    /\ cards = [t \in Task |-> {}]
    /\ gone = {}
    /\ boots = 0
    /\ delivered = [t \in Task |-> 0]
    /\ counted = [t \in Task |-> 0]

Up == coord # NoCoord
Idle == Up /\ pump.at \in {"idle", "shut"}

-----------------------------------------------------------------------------
(* Task rows, written by the coordinator's own coroutine.                     *)

\* A row is created queued (create_or_return_existing, create_in_cursor).
Enqueue(t) ==
    /\ Idle
    /\ state[t] = "absent"
    /\ state' = [state EXCEPT ![t] = "queued"]
    /\ UNCHANGED <<cleanup, leases, gpus, coord, volatile, world, counts>>

\* cancel_family, cancel_queued, cancel_if_queued: the matching queued rows go
\* to cancelled in one transaction, whether or not one was already spawned.
CancelQueued(ts) ==
    /\ Idle
    /\ ts # {}
    /\ \A t \in ts : state[t] = "queued"
    /\ state' = [t \in Task |-> IF t \in ts THEN "cancelled" ELSE state[t]]
    /\ UNCHANGED <<cleanup, leases, gpus, coord, volatile, world, counts>>

\* Mutant: only the tasks this process dispatched are looked at.
DeadRunningInflight ==
    {t \in inflight : /\ state[t] = "running"
                      /\ LanesOf(leases, t) # {}
                      /\ \A r \in leases : r.holder = t => HolderIsDead(r, coord)}

\* A running row is dead when it has lane rows and every holder is dead.
DeadRunning ==
    {t \in Task : /\ state[t] = "running"
                  /\ LanesOf(leases, t) # {}
                  /\ \A r \in leases : r.holder = t => HolderIsDead(r, coord)}

\* reclaim_dead_running: fail those rows; their lanes are not touched here.
ReclaimDeadRunning ==
    /\ Idle
    /\ DeadRunning # {}
    /\ state' = [t \in Task |-> IF t \in DeadRunning THEN "failed" ELSE state[t]]
    /\ dead' = dead \union DeadRunning
    /\ UNCHANGED <<cleanup, leases, gpus, coord, pump, snapshot, view, inflight,
                   exec, completions, accounted, world, counts>>

\* Mutant: the charged task stays on the list, unmarked.
AccountDeadUnmarked(t) ==
    /\ Idle
    /\ t \in dead
    /\ counted' = [counted EXCEPT ![t] = @ + 1]
    /\ UNCHANGED <<durable, coord, volatile, world, delivered>>

\* _account_dead_holder_failures: charge the failure once.  A GPU specialist
\* may be retried instead: a fresh row, created by an Enqueue of its own.
AccountDead(t) ==
    /\ Idle
    /\ t \in dead
    /\ dead' = dead \ {t}
    /\ accounted' = accounted \union {t}
    /\ \/ /\ t \notin accounted
          /\ counted' = [counted EXCEPT ![t] = @ + 1]
       \/ /\ t \in accounted \/ GpuNeed[t] > 0
          /\ UNCHANGED counted
    /\ UNCHANGED <<durable, coord, pump, snapshot, view, inflight, exec,
                   completions, world, delivered>>

\* reap_dead_holders.
ReapDeadHolders ==
    /\ Idle
    /\ Reapable(leases, coord, GpuHolders(gpus)) # {}
    /\ leases' = leases \ Reapable(leases, coord, GpuHolders(gpus))
    /\ UNCHANGED <<state, cleanup, gpus, coord, volatile, world, counts>>

\* Mutant: a cancelled result counts too.
ReapCancelled(t, out) ==
    /\ delivered' = [delivered EXCEPT ![t] = @ + 1]
    /\ counted' = [counted EXCEPT ![t] = @ + 1]

\* reap_dispatched_task: publish the result, then count it.  A cancelled result
\* counts for nothing.  A specialist that failed may be retried, which skips
\* both: maybe_auto_retry_specialist creates a fresh row in a transaction of its
\* own, which is an Enqueue.
Reap(t, out) ==
    \/ /\ delivered' = [delivered EXCEPT ![t] = @ + 1]
       /\ counted' = IF out = "cancelled" \/ (out = "failed" /\ t \in accounted)
                         THEN counted
                         ELSE [counted EXCEPT ![t] = @ + 1]
    \/ /\ GpuNeed[t] > 0 /\ out = "failed"
       /\ UNCHANGED counts

\* Mutant: the last entry of the queue is left in it.
BookAllButLast ==
    /\ Idle
    /\ Len(completions) > 1
    /\ delivered' = [delivered EXCEPT ![Head(completions).task] = @ + 1]
    /\ completions' = Tail(completions)
    /\ UNCHANGED <<durable, coord, pump, snapshot, view, inflight, exec, dead,
                   accounted, world, counted>>

\* _drain_completions, one completion.
Book ==
    /\ Idle
    /\ completions # << >>
    /\ Reap(Head(completions).task, Head(completions).out)
    /\ completions' = Tail(completions)
    /\ UNCHANGED <<durable, coord, pump, snapshot, view, inflight, exec, dead,
                   accounted, world>>

-----------------------------------------------------------------------------
(* _spawn_fitting_queued: one pass over the queued rows.  The rows and the    *)
(* lane counts are read once, before the first admission.                     *)

\* The gate before a pass opens or closes: shutting down, admission frozen by a
\* phase change that drains, or the phase's time budget spent.
SetAdmission ==
    /\ Idle
    /\ pump' = [pump EXCEPT !.at = IF @ = "idle" THEN "shut" ELSE "idle"]
    /\ UNCHANGED <<durable, coord, snapshot, view, inflight, exec, completions,
                   dead, accounted, world, counts>>

BeginScan ==
    /\ Up /\ pump.at = "idle"
    /\ \E t \in Task : state[t] = "queued"
    /\ pump' = Scanning
    /\ snapshot' = {t \in Task : state[t] = "queued"}
    /\ view' = LaneView
    /\ UNCHANGED <<durable, coord, inflight, exec, completions, dead, accounted,
                   world, counts>>

\* _lanes_fit: the hint computed on the local counts.
LanesFit(t) == \A l \in ExpandLanes(Needs[t]) : view[l] < Capacity[l]

\* Already in flight, or refused by the hint or by acquire_many.
SkipQueued(t) ==
    /\ Up /\ pump.at = "scan"
    /\ t \in snapshot
    /\ \/ t \in inflight
       \/ ~(LanesFit(t) /\ CanAcquire(leases, t, Needs[t]))
    /\ snapshot' = snapshot \ {t}
    /\ UNCHANGED <<durable, coord, pump, view, inflight, exec, completions, dead,
                   accounted, world, counts>>

\* Mutant: the row is cancelled without reading its state.
DropWhateverState(t) ==
    /\ Up /\ pump.at = "scan"
    /\ t \in snapshot \ inflight
    /\ state' = [state EXCEPT ![t] = "cancelled"]
    /\ snapshot' = snapshot \ {t}
    /\ UNCHANGED <<cleanup, leases, gpus, coord, pump, view, inflight, exec,
                   completions, dead, accounted, world, counts>>

\* _cancel_queued_task_over_budget: cancel the row; a row that is no longer
\* queued raises IllegalTransition, which is swallowed.
DropOverBudget(t) ==
    /\ Up /\ pump.at = "scan"
    /\ t \in snapshot \ inflight
    /\ state' = [state EXCEPT ![t] = IF @ \in {"queued", "running"} THEN "cancelled" ELSE @]
    /\ snapshot' = snapshot \ {t}
    /\ UNCHANGED <<cleanup, leases, gpus, coord, pump, view, inflight, exec,
                   completions, dead, accounted, world, counts>>

\* _admit_lanes; a task that asks for no lane passes.
AdmitLanes(t) ==
    /\ Up /\ pump.at = "scan"
    /\ t \in snapshot \ inflight
    /\ LanesFit(t) /\ CanAcquire(leases, t, Needs[t])
    /\ leases' = Acquired(leases, t, Needs[t], coord.env, coord.pid)
    /\ view' = [l \in Lane |-> IF l \in ExpandLanes(Needs[t]) THEN view[l] + 1 ELSE view[l]]
    /\ pump' = [at |-> "admit", task |-> t]
    /\ snapshot' = snapshot \ {t}
    /\ UNCHANGED <<state, cleanup, gpus, coord, inflight, exec, completions, dead,
                   accounted, world, counts>>

\* Register the handle in _inflight_actions and start the execution.
Spawn(t, next) ==
    /\ inflight' = inflight \union {t}
    /\ exec' = [exec EXCEPT ![t] = Spawned(next)]

\* What the pool may give a specialist: its cards, or under Ray, where the
\* actor gets its cards elsewhere, one observation slot.
Offers(t) ==
    IF RayExec THEN RaySlots(gpus) ELSE Selections(gpus, t, GpuNeed[t])

Leased(t, s) ==
    IF RayExec THEN RayTaken(gpus, t, s) ELSE Taken(gpus, t, GpuNeed[t], s)

\* _admit_gpu_specialist succeeds, or the task needs no card; then spawn.
AdmitAndSpawn ==
    /\ Up /\ pump.at = "admit"
    /\ LET t == pump.task
       IN  /\ IF GpuNeed[t] = 0
                 THEN /\ cards' = [cards EXCEPT ![t] = {}]
                      /\ UNCHANGED gpus
                 ELSE \E s \in Offers(t) :
                          /\ gpus' = Leased(t, s)
                          /\ cards' = [cards EXCEPT ![t] = s]
           /\ Spawn(t, IF t \in SelfSettling THEN "none" ELSE "queue")
    /\ pump' = Scanning
    /\ UNCHANGED <<state, cleanup, leases, coord, snapshot, view, completions, dead,
                   accounted, work, gone, boots, counts>>

\* Too few free cards, or (under Ray) serving has priority.  Without Ray a lease
\* of another size the task still had is gone.  The lanes go back next.
GpuRefused ==
    /\ Up /\ pump.at = "admit"
    /\ GpuNeed[pump.task] > 0
    /\ RayExec \/ Selections(gpus, pump.task, GpuNeed[pump.task]) = {}
    /\ gpus' = IF RayExec \/ GpuNeed[pump.task] > Cardinality(Gpu)
                  THEN gpus
                  ELSE WithoutStale(gpus, pump.task, GpuNeed[pump.task])
    /\ pump' = [pump EXCEPT !.at = "refuse"]
    /\ UNCHANGED <<state, cleanup, leases, coord, snapshot, view, inflight, exec,
                   completions, dead, accounted, world, counts>>

ReturnLanes ==
    /\ Up /\ pump.at = "refuse"
    /\ leases' = Released(leases, pump.task, Needs[pump.task])
    /\ view' = [l \in Lane |-> IF l \in ExpandLanes(Needs[pump.task]) /\ view[l] > 0
                                  THEN view[l] - 1 ELSE view[l]]
    /\ pump' = Scanning
    /\ UNCHANGED <<state, cleanup, gpus, coord, snapshot, inflight, exec,
                   completions, dead, accounted, world, counts>>

EndScan ==
    /\ Up /\ pump.at = "scan"
    /\ snapshot = {}
    /\ pump' = IdlePump
    /\ UNCHANGED <<durable, coord, snapshot, view, inflight, exec, completions,
                   dead, accounted, world, counts>>

-----------------------------------------------------------------------------
(* CLOSE runs some tasks itself, waiting at most a bounded time for each.     *)

\* A queued row, created by an Enqueue of the sequencer, is run by
\* run_task_registered, which takes the lanes without waiting and registers the
\* handle before it waits again; if the lanes are busy the row stays queued.  A
\* row the pump has in flight is not run a second time.
RunCloseTask(t) ==
    /\ Idle
    /\ t \in CloseTask
    /\ state[t] = "queued" /\ t \notin inflight
    /\ GpuNeed[t] = 0
    /\ CanAcquire(leases, t, Needs[t])
    /\ leases' = Acquired(leases, t, Needs[t], coord.env, coord.pid)
    /\ \E next \in {"book", "none"} : Spawn(t, next)
    /\ UNCHANGED <<state, cleanup, gpus, coord, pump, snapshot, view, completions,
                   dead, accounted, world, counts>>

\* _abandon_close_task, after the wait timed out or the lanes were busy: the row
\* is read.  The shielded execution, if there is one, runs on.
AbandonCloseTask(t) ==
    /\ Idle
    /\ t \in CloseTask
    /\ state[t] \in {"queued", "running"}
    /\ IF exec[t].at = "none" THEN state[t] = "queued" ELSE exec[t].onComplete # "queue"
    /\ pump' = [at |-> IF state[t] = "queued" THEN "cancel" ELSE "fail", task |-> t]
    /\ UNCHANGED <<durable, coord, snapshot, view, inflight, exec, completions,
                   dead, accounted, world, counts>>

\* Then it is written; the row may have moved, and a transition that is no
\* longer legal raises IllegalTransition, which is swallowed.
SettleAbandoned ==
    /\ Up /\ pump.at \in {"cancel", "fail"}
    /\ state' = [state EXCEPT ![pump.task] =
                    CASE pump.at = "cancel" /\ @ \in {"queued", "running"} -> "cancelled"
                      [] pump.at = "fail" /\ @ = "running" -> "failed"
                      [] OTHER -> @]
    /\ pump' = IdlePump
    /\ UNCHANGED <<cleanup, leases, gpus, coord, snapshot, view, inflight, exec,
                   completions, dead, accounted, world, counts>>

-----------------------------------------------------------------------------
(* One execution: run_task_registered around SubAgentRunner.run_task.         *)

At(t, stage) == Up /\ exec[t].at = stage

Move(t, stage, out, conf) ==
    exec' = [exec EXCEPT ![t] =
                [at |-> stage, out |-> out, conf |-> conf, onComplete |-> @.onComplete]]

\* _record_dispatch_evidence fails: nothing ran; the slot goes back, then the
\* lanes, and the row stays queued.
RefuseDispatch(t) ==
    /\ At(t, "spawned")
    /\ gpus' = GivenBack(gpus, t, cards[t])
    /\ Move(t, "refusing", "none", FALSE)
    /\ UNCHANGED <<state, cleanup, leases, coord, pump, snapshot, view, inflight,
                   completions, dead, accounted, world, counts>>

\* Mutants: the handle, or the lanes, of a refused dispatch are forgotten.
ForgetKeepsHandle(t) ==
    /\ At(t, "refusing")
    /\ leases' = Released(leases, t, Needs[t])
    /\ exec' = [exec EXCEPT ![t] = NoExec]
    /\ UNCHANGED <<state, cleanup, gpus, coord, pump, snapshot, view, inflight,
                   completions, dead, accounted, world, counts>>

ForgetKeepsLanes(t) ==
    /\ At(t, "refusing")
    /\ inflight' = inflight \ {t}
    /\ exec' = [exec EXCEPT ![t] = NoExec]
    /\ UNCHANGED <<durable, coord, pump, snapshot, view, completions, dead,
                   accounted, world, counts>>

ForgetDispatch(t) ==
    /\ At(t, "refusing")
    /\ leases' = Released(leases, t, Needs[t])
    /\ inflight' = inflight \ {t}
    /\ exec' = [exec EXCEPT ![t] = NoExec]
    /\ UNCHANGED <<state, cleanup, gpus, coord, pump, snapshot, view, completions,
                   dead, accounted, world, counts>>

\* The policy gate replayed at dispatch refuses: a cancelled outcome, nothing run.
PolicyDenied(t) ==
    /\ At(t, "spawned")
    /\ Move(t, "releasing", "cancelled", FALSE)
    /\ UNCHANGED <<durable, coord, pump, snapshot, view, inflight, completions,
                   dead, accounted, world, counts>>

\* queued -> running, and the worker starts.
Claim(t) ==
    /\ At(t, "spawned")
    /\ state[t] = "queued"
    /\ state' = [state EXCEPT ![t] = "running"]
    /\ work' = [work EXCEPT ![t] = coord.env]
    /\ Move(t, "working", "none", FALSE)
    /\ UNCHANGED <<cleanup, leases, gpus, coord, pump, snapshot, view, inflight,
                   completions, dead, accounted, cards, gone, boots, counts>>

\* The double-spawn guard: the row is not queued any more, no outcome.
ClaimRejected(t) ==
    /\ At(t, "spawned")
    /\ state[t] # "queued"
    /\ Move(t, "releasing", "none", FALSE)
    /\ UNCHANGED <<durable, coord, pump, snapshot, view, inflight, completions,
                   dead, accounted, world, counts>>

\* A Ray actor is stopped when its lease is closed, any other worker before its
\* executor returns.
Remote(t) == RayExec /\ GpuNeed[t] > 0

\* The executor returns or raises an ordinary exception.
Finish(t, out) ==
    /\ At(t, "working")
    /\ Move(t, "releasing", out, FALSE)
    /\ work' = IF Remote(t) THEN work ELSE [work EXCEPT ![t] = NoEnv]
    /\ UNCHANGED <<durable, coord, pump, snapshot, view, inflight, completions,
                   dead, accounted, cards, gone, boots, counts>>

\* Mutants: the GPU slot is released all the same; the terminal row is skipped.
FinishReleasesSlot(t, out) ==
    /\ At(t, "working")
    /\ gpus' = GivenBack(gpus, t, cards[t])
    /\ Move(t, IF out = "none" THEN "raised" ELSE "writing", out, FALSE)
    /\ UNCHANGED <<state, cleanup, leases, coord, pump, snapshot, view, inflight,
                   completions, dead, accounted, world, counts>>

FinishUnrecorded(t, out) ==
    /\ At(t, "working")
    /\ Move(t, IF out = "none" THEN "raised" ELSE "unlocking", out, FALSE)
    /\ UNCHANGED <<durable, coord, pump, snapshot, view, inflight, completions,
                   dead, accounted, world, counts>>

\* The executor raises ExecutionCleanupUnconfirmed, with a result or without.
\* The GPU slot is not released; without a result neither are the lanes, and
\* the row stays running.
FinishUnconfirmed(t, out) ==
    /\ At(t, "working")
    /\ Move(t, IF out = "none" THEN "raised" ELSE "writing", out, FALSE)
    /\ UNCHANGED <<durable, coord, pump, snapshot, view, inflight, completions,
                   dead, accounted, world, counts>>

\* Mutant: an execution without an outcome goes on to the terminal row.
ReleaseSlotThenWrite(t, conf) ==
    /\ At(t, "releasing")
    /\ conf \/ (Remote(t) /\ work[t] # NoEnv)
    /\ gpus' = GivenBack(gpus, t, cards[t])
    /\ work' = IF conf THEN [work EXCEPT ![t] = NoEnv] ELSE work
    /\ Move(t, "writing", exec[t].out, conf)
    /\ UNCHANGED <<state, cleanup, leases, coord, pump, snapshot, view, inflight,
                   completions, dead, accounted, cards, gone, boots, counts>>

\* release_execution: close the actor, whose answer may be that its exit is not
\* confirmed, and give the slot back either way.
ReleaseSlot(t, conf) ==
    /\ At(t, "releasing")
    /\ conf \/ (Remote(t) /\ work[t] # NoEnv)
    /\ gpus' = GivenBack(gpus, t, cards[t])
    /\ work' = IF conf THEN [work EXCEPT ![t] = NoEnv] ELSE work
    /\ Move(t, IF exec[t].out = "none" THEN "unlocking" ELSE "writing", exec[t].out, conf)
    /\ UNCHANGED <<state, cleanup, leases, coord, pump, snapshot, view, inflight,
                   completions, dead, accounted, cards, gone, boots, counts>>

WriteConfirmed(t) ==
    /\ At(t, "writing")
    /\ state' = [state EXCEPT ![t] = IF @ = "running" THEN exec[t].out ELSE @]
    /\ cleanup' = [cleanup EXCEPT ![t] = "confirmed"]
    /\ Move(t, "unlocking", exec[t].out, exec[t].conf)
    /\ UNCHANGED <<leases, gpus, coord, pump, snapshot, view, inflight, completions,
                   dead, accounted, world, counts>>

\* _write_terminal: the row takes the outcome unless it is terminal already; the
\* cleanup evidence is recorded in both cases.
WriteTerminal(t) ==
    /\ At(t, "writing")
    /\ state' = [state EXCEPT ![t] =
                    IF \/ @ = "running"
                       \/ @ = "queued" /\ exec[t].out = "cancelled"
                    THEN exec[t].out ELSE @]
    /\ cleanup' = [cleanup EXCEPT ![t] =
                      IF exec[t].conf THEN "confirmed" ELSE "unconfirmed"]
    /\ Move(t, "unlocking", exec[t].out, exec[t].conf)
    /\ UNCHANGED <<leases, gpus, coord, pump, snapshot, view, inflight, completions,
                   dead, accounted, world, counts>>

\* Lanes go back when a terminal row was written or cleanup was confirmed.
ReleaseLanes(t) ==
    /\ At(t, "unlocking")
    /\ leases' = IF exec[t].out # "none" \/ exec[t].conf
                    THEN Released(leases, t, Needs[t]) ELSE leases
    /\ Move(t, IF exec[t].out # "none" /\ exec[t].conf THEN "finishing" ELSE "raised",
            exec[t].out, exec[t].conf)
    /\ UNCHANGED <<state, cleanup, gpus, coord, pump, snapshot, view, inflight,
                   completions, dead, accounted, world, counts>>

\* on_complete, then the handle is dropped.
Complete(t) ==
    /\ At(t, "finishing")
    /\ completions' = IF exec[t].onComplete = "queue"
                         THEN Append(completions, [task |-> t, out |-> exec[t].out])
                         ELSE completions
    /\ IF exec[t].onComplete = "book" THEN Reap(t, exec[t].out) ELSE UNCHANGED counts
    /\ inflight' = inflight \ {t}
    /\ exec' = [exec EXCEPT ![t] = NoExec]
    /\ UNCHANGED <<durable, coord, pump, snapshot, view, dead, accounted, world>>

-----------------------------------------------------------------------------
(* The process, its environment and the operator.                             *)

\* Everything the coordinator kept in memory.
ForgetMemory ==
    /\ coord' = NoCoord
    /\ pump' = IdlePump
    /\ snapshot' = {}
    /\ view' = [l \in Lane |-> 0]
    /\ inflight' = {}
    /\ exec' = [t \in Task |-> NoExec]
    /\ completions' = << >>
    /\ dead' = {}
    /\ accounted' = {}

\* The coordinator dies, or exits with executions unsettled.  Workers may
\* outlive it.
Crash ==
    /\ Up
    /\ ForgetMemory
    /\ UNCHANGED <<durable, world, counts>>

\* A container or machine disappears with every process in it.
LoseEnv(e) ==
    /\ e \notin gone
    /\ gone' = gone \union {e}
    /\ work' = [t \in Task |-> IF work[t] = e THEN NoEnv ELSE work[t]]
    /\ IF Up /\ coord.env = e THEN ForgetMemory ELSE UNCHANGED <<coord, volatile>>
    /\ UNCHANGED <<durable, cards, boots, counts>>

\* A worker whose execution is over, or whose coordinator died, ends by itself.
WorkerExits(t) ==
    /\ work[t] # NoEnv
    /\ exec[t].at \notin {"working", "releasing"}
    /\ work' = [work EXCEPT ![t] = NoEnv]
    /\ UNCHANGED <<durable, coord, volatile, cards, gone, boots, counts>>

\* ensure_resume_safe, judged in environment e: every lane row is local, no GPU
\* row is left, and every running row has a lane row.
ResumeSafe(e) ==
    /\ \A r \in leases : r.env = e /\ e \notin Blind
    /\ GpuHolders(gpus) = {}
    /\ \A t \in Task : state[t] = "running" => LanesOf(leases, t) # {}

\* A coordinator starts or resumes: it takes the session lock, passes the guard
\* and stops the leftover workers it finds (reap_orphaned_servers_best_effort).
\* Which ones is left open: a pidfile appears only once its server answers, its
\* process must still look like one, a multi-node session stops none and an
\* error stops the search.
Boot(e, p) ==
    /\ ~Up
    /\ e \notin gone
    /\ boots < MaxBoots
    /\ ResumeSafe(e)
    /\ coord' = [env |-> e, pid |-> p]
    /\ boots' = boots + 1
    /\ \E stopped \in SUBSET {t \in Task : work[t] = e /\ ~Remote(t)} :
           work' = [t \in Task |-> IF t \in stopped THEN NoEnv ELSE work[t]]
    /\ UNCHANGED <<durable, volatile, cards, gone, counts>>

\* What a confirmation writes for the tasks ts: unfinished rows are cancelled,
\* their lane and GPU rows deleted.
Confirm(ts) ==
    /\ state' = [t \in Task |-> IF t \in ts /\ state[t] \notin Terminal
                                   THEN "cancelled" ELSE state[t]]
    /\ cleanup' = [t \in Task |-> IF t \in ts THEN "confirmed" ELSE cleanup[t]]
    /\ leases' = {r \in leases : r.holder \notin ts}
    /\ gpus' = [g \in Gpu |-> IF gpus[g] \in ts THEN NoTask ELSE gpus[g]]
    /\ UNCHANGED <<coord, volatile, world, counts>>

\* recover --confirm-scope-gone, with the session lock held: the environment is
\* gone and this is true, and the command runs in another one it can name, which
\* need not be one that ever hosts the session.  Every lane of a target task must
\* carry the scope.  Leases of other scopes must have expired, which time alone
\* brings about.
ConfirmScopeGone(e) ==
    /\ ~Up
    /\ e \in gone \ Blind
    /\ LET ts == {r.holder : r \in {q \in leases : q.env = e}}
       IN  /\ ts # {}
           /\ \A r \in leases : r.holder \in ts => r.env = e
           /\ Confirm(ts)

\* recover --confirm-stopped: the task's worker has stopped and this is true.
\* Only a task whose lanes carry no scope is eligible.
ConfirmTaskStopped(t) ==
    /\ ~Up
    /\ work[t] = NoEnv
    /\ state[t] # "absent"
    /\ \A r \in leases : r.holder = t => r.env \in Blind
    /\ state[t] = "running" \/ LanesOf(leases, t) # {} \/ CardsOf(gpus, t) # {}
    /\ Confirm({t})

-----------------------------------------------------------------------------
PumpNext ==
    \/ BeginScan \/ AdmitAndSpawn \/ GpuRefused \/ ReturnLanes \/ EndScan \/ SettleAbandoned
    \/ \E t \in Task : SkipQueued(t) \/ DropOverBudget(t) \/ AdmitLanes(t)

TickNext ==
    \/ \E t \in Task : Enqueue(t) \/ AccountDead(t) \/ RunCloseTask(t) \/ AbandonCloseTask(t)
    \/ \E ts \in SUBSET Task : CancelQueued(ts)
    \/ ReclaimDeadRunning \/ ReapDeadHolders \/ Book \/ SetAdmission

\* The executor's part of an execution, then the runner's.
Begin(t) == PolicyDenied(t) \/ Claim(t) \/ ClaimRejected(t)

Settle(t) ==
    \/ \E out \in Terminal : Finish(t, out)
    \/ \E out \in Outcomes : FinishUnconfirmed(t, out)
    \/ \E conf \in BOOLEAN : ReleaseSlot(t, conf)
    \/ WriteTerminal(t) \/ ReleaseLanes(t) \/ Complete(t)

ExecNext ==
    \E t \in Task : Begin(t) \/ Settle(t) \/ RefuseDispatch(t) \/ ForgetDispatch(t)

WorldNext ==
    \/ Crash
    \/ \E e \in Env : LoseEnv(e) \/ ConfirmScopeGone(e)
    \/ \E e \in Env, p \in Pid : Boot(e, p)
    \/ \E t \in Task : WorkerExits(t) \/ ConfirmTaskStopped(t)

Next == PumpNext \/ TickNext \/ ExecNext \/ WorldNext

Spec == Init /\ [][Next]_vars

\* Fairness while a coordinator lives.  A pass over the queue never waits on
\* running work, so it goes on; every tick repairs, books and scans again; an
\* executor is bounded by its wall budget and its settlement by transactions;
\* the dispatch evidence does not fail for ever.  Nothing makes a coordinator
\* start, admission open, an operator act or an environment last.
Fairness ==
    /\ WF_vars(PumpNext)
    /\ SF_vars(Book) /\ SF_vars(ReclaimDeadRunning) /\ SF_vars(ReapDeadHolders)
    /\ \A t \in Task : /\ SF_vars(Begin(t))
                       /\ WF_vars(Settle(t) \/ ForgetDispatch(t))
                       /\ SF_vars(AccountDead(t))

\* Liveness needs two more things, which the safety runs do without.  A
\* coordinator does not get the PID that a row of a dead one in its environment
\* still carries, or holder_is_dead would take the dead one for alive.
FreshPid ==
    coord' # coord /\ coord' # NoCoord =>
        \A r \in leases : r.env = coord'.env => r.pid # coord'.pid

\* And the reclaim that precedes every reap does not fail: its errors are
\* swallowed, the lanes go all the same, and a running row without lanes is
\* never reclaimed.
ReclaimFirst == ReapDeadHolders => DeadRunning = {}

FairSpec == Init /\ [][Next /\ FreshPid /\ ReclaimFirst]_vars /\ Fairness

-----------------------------------------------------------------------------
(* Properties.                                                                *)

\* Every variable keeps its shape; an execution about to write a terminal row
\* has an outcome to write, and a pass names a task exactly while it admits or
\* refuses one.
TypeOK ==
    /\ state \in [Task -> TaskStates]
    /\ cleanup \in [Task -> {"none", "confirmed", "unconfirmed"}]
    /\ leases \subseteq Row
    /\ gpus \in [Gpu -> Task \union {NoTask}]
    /\ coord \in [env : Env, pid : Pid] \union {NoCoord}
    /\ pump \in PumpStates
    /\ snapshot \subseteq Task
    /\ view \in [Lane -> Nat]
    /\ inflight \subseteq Task
    /\ exec \in [Task -> Execution]
    /\ completions \in Seq([task : Task, out : Outcomes])
    /\ dead \subseteq Task
    /\ accounted \subseteq Task
    /\ work \in [Task -> Env \union {NoEnv}]
    /\ cards \in [Task -> SUBSET Gpu]
    /\ gone \subseteq Env
    /\ boots \in Nat
    /\ delivered \in [Task -> Nat]
    /\ counted \in [Task -> Nat]

\* A worker that lives, whose row does not say that its exit is unproven, and
\* that the session still answers for: an execution watches it, or it outlived
\* its coordinator and its lanes are still held.
HoldsLanes(t) == ExpandLanes(Needs[t]) \subseteq LanesOf(leases, t)
InUse(t) ==
    /\ work[t] # NoEnv /\ cleanup[t] # "unconfirmed"
    /\ exec[t].at # "none" \/ HoldsLanes(t)

\* Two tasks that may not run side by side: their leases share a lane of
\* capacity one.
Clash(t, u) ==
    \E l \in ExpandLanes(Needs[t]) \intersect ExpandLanes(Needs[u]) : Capacity[l] = 1

\* Lanes serialise the work itself, not only its bookkeeping: no two workers in
\* use ever share an exclusive lane, through coordinator crashes, restarts, lost
\* environments, dead-holder reaping and operator confirmations.  A worker that
\* a crash left behind keeps clashing work out until the reaper judges its lanes
\* by the dead coordinator's PID; from then on nothing does.
ExclusiveUse ==
    \A t, u \in Task : t # u /\ InUse(t) /\ InUse(u) => ~Clash(t, u)

\* The dispatch core implements the admission promise, with the workers in use
\* as the tasks at work: every step of the code begins one admissible task, ends
\* some, or changes nothing a user of the machine could see.
Admission == INSTANCE WorkAdmission WITH using <- {t \in Task : InUse(t)}
AdmissionPromise == Admission!Spec

\* No card is ever used by two live workers, unconfirmed cleanup included: the
\* GPU row outlives any worker whose exit was not proven, and a session that
\* still has such a row does not resume.
CardExclusive ==
    \A t, u \in Task : t # u /\ work[t] # NoEnv /\ work[u] # NoEnv
        => cards[t] \intersect cards[u] = {}

\* A running row whose worker lives under an execution keeps all its lanes,
\* whichever other execution, reaper or sequencer touches the table.
RunningKeepsLanes ==
    \A t \in Task : state[t] = "running" /\ work[t] # NoEnv /\ exec[t].at # "none"
        => HoldsLanes(t)

\* The holders of a lane never exceed its capacity, although acquire_many lets
\* a holder refresh a lane that is full.
WithinCapacity ==
    \A l \in Lane : Cardinality(HoldersOf(leases, l)) <= Capacity[l]

\* A task's result counts at most once, promoted or charged as a failure: the
\* dead-holder path, a late result and a second dispatch never add up.
CountedOnce == \A t \in Task : counted[t] <= 1

\* A terminal row is final: reclaim, abandon, over-budget cancel, the runner's
\* own outcome and the operator race for it and only the first one wins.
TerminalIsFinal ==
    [][\A t \in Task : state[t] \in Terminal => state'[t] = state[t]]_vars

\* The lanes of an execution are given back only after the durable record of
\* how it ended, or when nothing of it runs.
RecordBeforeLanes ==
    [][\A t \in Task :
          /\ exec[t].at # "none"
          /\ LanesOf(leases, t) # {} /\ LanesOf(leases', t) = {}
          => state[t] \in Terminal \/ work[t] = NoEnv]_vars

\* "A task is never dispatched twice across pump calls": the coordinator
\* publishes at most one result for it.
DeliveredOnce == \A t \in Task : delivered[t] <= 1

\* _abandon_close_task settles a row "so nothing dispatches or promotes it
\* later": a succeeded result is promoted only for a row that succeeded.
AbandonedNeverPromoted ==
    [][\A t \in Task :
          exec[t].at = "finishing" /\ exec[t].out = "succeeded" /\ counted'[t] > counted[t]
          => state[t] = "succeeded"]_vars

\* The queue drains: a queued row is dispatched or cancelled, unless the
\* coordinator dies, admission closes or an execution whose cleanup is unproven
\* keeps capacity.
QueueDrains ==
    \A t \in Task : state[t] = "queued" ~>
        \/ state[t] # "queued" \/ ~Up \/ pump.at = "shut"
        \/ \E u \in Task : exec[u].at = "raised"

\* A crash does not leave a row running for ever: the next coordinator fails it
\* and accounts the failure.
DeadRowsFailed ==
    \A t \in Task : Up /\ state[t] = "running" /\ exec[t].at = "none" ~>
        ~Up \/ (state[t] # "running" /\ t \notin dead)

\* No lane stays with a task that nobody executes or admits, whether its
\* coordinator died or its dispatch was refused.
Admitting(t) == pump.at \in {"admit", "refuse"} /\ pump.task = t
OrphanLanesFreed ==
    \A t \in Task : LanesOf(leases, t) # {} /\ exec[t].at = "none" /\ ~Admitting(t) ~>
        ~Up \/ LanesOf(leases, t) = {} \/ exec[t].at # "none" \/ Admitting(t)

\* Every queued completion is booked while the coordinator lives.
CompletionsBooked == completions # << >> ~> completions = << >>

=============================================================================
