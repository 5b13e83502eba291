---------------------- MODULE SessionDispatchInvariant ----------------------
(* The inductive invariant of SessionDispatch, and a lemma per action that    *)
(* the action keeps it, its part about live workers apart.  The two actions   *)
(* that take lanes are in SessionDispatchProofs, with the facts about finite  *)
(* sets they need.                                                            *)
EXTENDS SessionDispatch, TLAPS

LanesFor(t) == ExpandLanes(Needs[t])

\* The row process `me` writes when task t takes lane l.
OwnRow(t, l, me) == [lane |-> l, holder |-> t, env |-> me.env, pid |-> me.pid]

\* An exclusive lane has one holder.
Unique(rows) ==
    \A r, q \in rows : r.lane = q.lane /\ Capacity[r.lane] = 1 => r.holder = q.holder
LaneUnique == Unique(leases)

\* Without a coordinator there is no execution and no pass over the queue.
DownIsQuiet ==
    ~Up => /\ pump.at = "idle"
           /\ snapshot = {}
           /\ \A t \in Task : exec[t].at = "none"

\* The in-flight table names the tasks that have an execution.
InflightIsExec == \A t \in Task : t \in inflight <=> exec[t].at # "none"

\* Everything leased while a coordinator runs is leased in its environment,
\* which exists; so do the environments of the workers.
OneEnv ==
    /\ Up => coord.env \notin gone /\ \A r \in leases : r.env = coord.env
    /\ \A t \in Task : work[t] \notin gone

\* The task being admitted has no execution, no worker, and all its lanes.
AdmittedHolds ==
    pump.at \in {"admit", "refuse"} =>
        /\ exec[pump.task].at = "none"
        /\ work[pump.task] = NoEnv
        /\ state[pump.task] # "absent"
        /\ pump.at = "admit" => \A l \in LanesFor(pump.task) : OwnRow(pump.task, l, coord) \in leases

\* A queued row the pass still has to consider has no worker outside _inflight.
SnapshotIsIdle ==
    \A t \in snapshot : state[t] # "absent" /\ (work[t] # NoEnv => t \in inflight)

\* An execution holds its lanes and cards until it has finished working.
ExecHolds ==
    \A t \in Task : exec[t].at \in {"spawned", "working"} =>
        /\ \A l \in LanesFor(t) : OwnRow(t, l, coord) \in leases
        /\ \A g \in cards[t] : gpus[g] = t

\* What each stage knows about the worker, the outcome and the row.
StageFacts ==
    \A t \in Task :
        /\ exec[t].at \in {"spawned", "refusing", "finishing"} => work[t] = NoEnv
        /\ exec[t].at = "releasing" /\ work[t] # NoEnv => Remote(t) /\ exec[t].out # "none"
        /\ exec[t].at \in {"writing", "unlocking"} /\ exec[t].conf => work[t] = NoEnv
        /\ exec[t].at \in {"spawned", "working"} => ~exec[t].conf
        /\ exec[t].at = "unlocking" /\ ~exec[t].conf => cleanup[t] = "unconfirmed"
        /\ exec[t].at # "none" => state[t] # "absent"
        /\ exec[t].at = "working" => state[t] # "queued"
        /\ exec[t].at = "writing" /\ state[t] = "queued" => exec[t].out = "cancelled"
        /\ exec[t].at = "releasing" /\ state[t] = "queued" => exec[t].out = "cancelled"

\* Only a terminal row records an unconfirmed cleanup; only a claimed one ever
\* had a worker; a task that asks for no card has none.
RowFacts ==
    \A t \in Task :
        /\ state[t] \notin Terminal => cleanup[t] # "unconfirmed"
        /\ work[t] # NoEnv => state[t] \notin {"absent", "queued"}
        /\ GpuNeed[t] = 0 => cards[t] = {}

\* The lanes of a task with a live worker are recorded for the worker's
\* environment, so that no confirmation of another scope can free them.  Under an
\* execution they are all there, in the name of the coordinator, so that no
\* reaper takes them either.  A worker that is no Ray actor keeps its cards.
WorkerHolds ==
    \A t \in Task : work[t] # NoEnv =>
        /\ \A r \in leases : r.holder = t => r.env = work[t]
        /\ ~Remote(t) => \A g \in cards[t] : gpus[g] = t
        /\ exec[t].at # "none" /\ cleanup[t] # "unconfirmed" =>
              \A l \in LanesFor(t) : OwnRow(t, l, coord) \in leases

\* What is known of the tables and the executions; and, with what the live
\* workers hold, the inductive invariant.
Base ==
    /\ TypeOK /\ LaneUnique /\ DownIsQuiet /\ InflightIsExec /\ OneEnv
    /\ AdmittedHolds /\ SnapshotIsIdle /\ ExecHolds /\ StageFacts /\ RowFacts
IInv == Base /\ WorkerHolds

-----------------------------------------------------------------------------
(* What the operators of the lane table and of an execution do.               *)

\* Exclusive lanes keep one holder when rows are removed (release, reap).
LEMMA FewerRowsUnique ==
    ASSUME NEW rows, Unique(rows), NEW left, left \subseteq rows
    PROVE  Unique(left)
BY Zenon DEF Unique

\* Releasing the lanes of t touches no other holder's rows.
LEMMA ReleasedRows ==
    ASSUME NEW rows, NEW t, NEW lanes
    PROVE  /\ Released(rows, t, lanes) \subseteq rows
           /\ \A r \in rows : r.holder # t => r \in Released(rows, t, lanes)
BY Zenon DEF Released

\* Move changes the step of one execution and of no other.
LEMMA MoveEffect ==
    ASSUME exec \in [Task -> Execution], NEW t \in Task, NEW stage, NEW out, NEW conf,
           Move(t, stage, out, conf)
    PROVE  /\ exec'[t].at = stage /\ exec'[t].out = out /\ exec'[t].conf = conf
           /\ \A u \in Task : u # t => exec'[u] = exec[u]
BY Zenon DEF Move

\* Spawn enters one execution and puts its task in flight, nothing else.
LEMMA SpawnEffect ==
    ASSUME exec \in [Task -> Execution], NEW t \in Task, NEW next, Spawn(t, next)
    PROVE  /\ exec'[t].at = "spawned" /\ exec'[t].conf = FALSE
           /\ \A u \in Task : u # t => exec'[u] = exec[u]
           /\ inflight' = inflight \union {t}
BY Zenon DEF Spawn, Spawned

\* Cards another task holds are never given away.
LEMMA StaleKeeps ==
    ASSUME NEW f \in [Gpu -> Task \union {NoTask}], NEW t, NEW n, NEW g \in Gpu, f[g] # t
    PROVE  WithoutStale(f, t, n)[g] = f[g]
BY Zenon DEF WithoutStale

\* Giving a slot back leaves the rows of every other task in the pool.
LEMMA GivenBackKeeps ==
    ASSUME NEW f, NEW t, NEW s, NEW g \in Gpu, f[g] # t
    PROVE  GivenBack(f, t, s)[g] = f[g]
BY Zenon DEF GivenBack

\* Taking cards leaves the rows of every other task in the pool.
LEMMA TakenKeeps ==
    ASSUME NEW f \in [Gpu -> Task \union {NoTask}], NEW t, NEW n, NEW s \in Selections(f, t, n),
           NEW g \in Gpu, f[g] \in Task, f[g] # t
    PROVE  Taken(f, t, n, s)[g] = f[g]
<1>1. WithoutStale(f, t, n)[g] = f[g]
  BY StaleKeeps, Zenon
<1>2. g \notin s
  BY <1>1, DispatchAssumption, Zenon DEF Selections, CardsOf, FreeCards
<1> QED BY <1>1, <1>2, Zenon DEF Taken

\* The cards try_acquire hands out are recorded for the task.
LEMMA CardsTaken ==
    ASSUME NEW f, NEW t, NEW n, NEW s \in SUBSET Gpu, NEW g \in s
    PROVE  Taken(f, t, n, s)[g] = t
BY Zenon DEF Taken

\* What the pool gives a task, cards or an observation slot, is recorded for it
\* and takes nothing from another.
LEMMA LeasedKeeps ==
    ASSUME gpus \in [Gpu -> Task \union {NoTask}], NEW t \in Task, NEW s \in Offers(t)
    PROVE  /\ s \in SUBSET Gpu
           /\ \A g \in s : Leased(t, s)[g] = t
           /\ \A g \in Gpu : gpus[g] \in Task /\ gpus[g] # t => Leased(t, s)[g] = gpus[g]
<1>1. CASE RayExec
  <2>1. PICK h \in Gpu : gpus[h] = NoTask /\ s = {h}
    BY <1>1, Zenon DEF Offers, RaySlots, FreeCards
  <2> QED BY <1>1, <2>1, DispatchAssumption, Zenon DEF Leased, RayTaken
<1>2. CASE ~RayExec
  <2>1. s \in Selections(gpus, t, GpuNeed[t]) /\ Leased(t, s) = Taken(gpus, t, GpuNeed[t], s)
    BY <1>2, Zenon DEF Offers, Leased
  <2>2. s \in SUBSET Gpu
    BY <2>1, Zenon DEF Selections, CardsOf, FreeCards
  <2>3. \A g \in s : Leased(t, s)[g] = t
    BY <2>1, <2>2, CardsTaken
  <2>4. \A g \in Gpu : gpus[g] \in Task /\ gpus[g] # t => Leased(t, s)[g] = gpus[g]
    BY <2>1, TakenKeeps
  <2> QED BY <2>2, <2>3, <2>4, Zenon
<1> QED BY <1>1, <1>2, Zenon

-----------------------------------------------------------------------------
(* The inductive invariant.                                                   *)

\* Each part of the invariant depends on these variables only.
LEMMA Frames ==
    /\ LaneUnique /\ UNCHANGED <<leases>> => LaneUnique'
    /\ DownIsQuiet /\ UNCHANGED <<coord, pump, snapshot, exec>> => DownIsQuiet'
    /\ InflightIsExec /\ UNCHANGED <<inflight, exec>> => InflightIsExec'
    /\ OneEnv /\ UNCHANGED <<leases, coord, work, gone>> => OneEnv'
    /\ AdmittedHolds /\ UNCHANGED <<state, leases, coord, pump, exec, work>> => AdmittedHolds'
    /\ SnapshotIsIdle /\ UNCHANGED <<state, snapshot, inflight, work>> => SnapshotIsIdle'
    /\ ExecHolds /\ UNCHANGED <<leases, gpus, coord, exec, cards>> => ExecHolds'
    /\ StageFacts /\ UNCHANGED <<state, cleanup, exec, work>> => StageFacts'
    /\ RowFacts /\ UNCHANGED <<state, cleanup, work, cards>> => RowFacts'
    /\ WorkerHolds /\ UNCHANGED <<cleanup, leases, gpus, coord, exec, work, cards>> => WorkerHolds'
<1>1. LaneUnique /\ UNCHANGED <<leases>> => LaneUnique'
  BY Zenon DEF LaneUnique, Unique
<1>2. DownIsQuiet /\ UNCHANGED <<coord, pump, snapshot, exec>> => DownIsQuiet'
  BY Zenon DEF DownIsQuiet, Up
<1>3. InflightIsExec /\ UNCHANGED <<inflight, exec>> => InflightIsExec'
  BY Zenon DEF InflightIsExec
<1>4. OneEnv /\ UNCHANGED <<leases, coord, work, gone>> => OneEnv'
  BY Zenon DEF OneEnv, Up
<1>5. AdmittedHolds /\ UNCHANGED <<state, leases, coord, pump, exec, work>> => AdmittedHolds'
  BY Zenon DEF AdmittedHolds
<1>6. SnapshotIsIdle /\ UNCHANGED <<state, snapshot, inflight, work>> => SnapshotIsIdle'
  BY Zenon DEF SnapshotIsIdle
<1>7. ExecHolds /\ UNCHANGED <<leases, gpus, coord, exec, cards>> => ExecHolds'
  BY Zenon DEF ExecHolds
<1>8. StageFacts /\ UNCHANGED <<state, cleanup, exec, work>> => StageFacts'
  BY Zenon DEF StageFacts
<1>9. RowFacts /\ UNCHANGED <<state, cleanup, work, cards>> => RowFacts'
  BY Zenon DEF RowFacts
<1>10. WorkerHolds /\ UNCHANGED <<cleanup, leases, gpus, coord, exec, work, cards>> => WorkerHolds'
  BY DEF WorkerHolds, Up
<1> QED BY <1>1, <1>2, <1>3, <1>4, <1>5, <1>6, <1>7, <1>8, <1>9, <1>10, Zenon

\* What the types say of the variables the invariant is about.
LEMMA Typed ==
    ASSUME Base
    PROVE  /\ state \in [Task -> TaskStates]
           /\ cleanup \in [Task -> {"none", "confirmed", "unconfirmed"}]
           /\ leases \subseteq Row
           /\ gpus \in [Gpu -> Task \union {NoTask}]
           /\ coord \in [env : Env, pid : Pid] \union {NoCoord}
           /\ exec \in [Task -> Execution]
           /\ work \in [Task -> Env \union {NoEnv}]
           /\ cards \in [Task -> SUBSET Gpu]
BY Zenon DEF Base, TypeOK

\* A pass that admits or refuses names the task it does so to.
LEMMA PumpNamesTask ==
    ASSUME Base PROVE pump.at \in {"admit", "refuse"} => pump.task \in Task
BY Zenon DEF Base, TypeOK, PumpStates

\* The rows a pass read are tasks.
LEMMA SnapshotOfTasks == ASSUME Base PROVE snapshot \subseteq Task
BY Zenon DEF Base, TypeOK

\* The cards a worker was given are cards of the pool.
LEMMA CardsOfPool == ASSUME Base PROVE \A t \in Task : \A g \in cards[t] : g \in Gpu
BY Typed, Zenon

\* No worker's absence is taken for a lost environment.
LEMMA NoEnvStays == ASSUME Base PROVE NoEnv \notin gone
BY DispatchAssumption, Zenon DEF Base, TypeOK

\* The operator's confirmation that a scope is gone keeps the inductive invariant.
LEMMA ConfirmKeepsInv ==
    ASSUME Base, TypeOK', NEW ts \in SUBSET Task, ~Up, Confirm(ts)
    PROVE  /\ Base'
           /\ WorkerHolds /\ (\A t \in ts : work[t] = NoEnv) => WorkerHolds'
<1> USE DEF Base
<1>1. /\ coord = NoCoord
      /\ leases' \subseteq leases
      /\ \A r \in leases : r.holder \notin ts => r \in leases'
      /\ \A u \in ts : state'[u] \in Terminal /\ cleanup'[u] = "confirmed"
      /\ \A u \in Task : u \notin ts => state'[u] = state[u] /\ cleanup'[u] = cleanup[u]
      /\ \A g \in Gpu : gpus[g] \notin ts => gpus'[g] = gpus[g]
      /\ UNCHANGED <<coord, pump, snapshot, inflight, exec, work, cards, gone>>
  BY Typed, Zenon DEF Confirm, Up, volatile, world, Terminal
<1>2. DownIsQuiet' /\ InflightIsExec'
  BY <1>1, Frames, Zenon
<1>3. LaneUnique'
  BY <1>1, FewerRowsUnique, Zenon DEF LaneUnique
<1>4. OneEnv'
  BY <1>1, Zenon DEF OneEnv, Up
<1>5. AdmittedHolds'
  BY <1>1, Zenon DEF AdmittedHolds, DownIsQuiet, Up
<1>6. SnapshotIsIdle'
  BY <1>1, Zenon DEF SnapshotIsIdle, DownIsQuiet, Up
<1>7. ExecHolds'
  BY <1>1, CardsOfPool, Zenon DEF ExecHolds, DownIsQuiet, Up
<1>8. StageFacts'
  BY <1>1, Zenon DEF StageFacts, DownIsQuiet, Up
<1>9. RowFacts'
  BY <1>1, Zenon DEF RowFacts, Terminal
<1>10. WorkerHolds /\ (\A t \in ts : work[t] = NoEnv) => WorkerHolds'
  BY <1>1, CardsOfPool, Zenon DEF WorkerHolds, DownIsQuiet, Up
<1> QED BY <1>2, <1>3, <1>4, <1>5, <1>6, <1>7, <1>8, <1>9, <1>10, Zenon DEF Base

\* BeginScan keeps the inductive invariant.
LEMMA BeginScanKeeps ==
    ASSUME Base, TypeOK', BeginScan
    PROVE  Base' /\ (WorkerHolds => WorkerHolds')
<1> USE DEF Base
<1>0. /\ coord # NoCoord
      /\ pump'.at = "scan"
      /\ snapshot' = {t \in Task : state[t] = "queued"}
      /\ UNCHANGED <<state, cleanup, leases, gpus, coord, inflight, exec, work, cards, gone>>
  BY Zenon DEF BeginScan, Scanning, Up, Idle, durable, volatile, world, counts
<1>1. LaneUnique' /\ InflightIsExec' /\ OneEnv' /\ ExecHolds' /\ StageFacts' /\ RowFacts' /\ (WorkerHolds => WorkerHolds')
  BY <1>0, Frames, Zenon
<1>2. DownIsQuiet'
  BY <1>0, Zenon DEF DownIsQuiet, Up
<1>3. AdmittedHolds'
  BY <1>0, Zenon DEF AdmittedHolds
<1>4. SnapshotIsIdle'
  BY <1>0, SnapshotOfTasks, Zenon DEF SnapshotIsIdle, RowFacts
<1> QED BY <1>1, <1>2, <1>3, <1>4, Zenon DEF Base

\* AdmitAndSpawn keeps the inductive invariant.
LEMMA AdmitAndSpawnKeeps ==
    ASSUME Base, TypeOK', AdmitAndSpawn
    PROVE  Base' /\ (WorkerHolds => WorkerHolds')
<1> USE DEF Base
<1>p. PICK t \in Task : t = pump.task
  BY PumpNamesTask, Zenon DEF AdmitAndSpawn
<1>0. /\ coord # NoCoord
      /\ pump.at = "admit"
      /\ pump'.at = "scan"
      /\ exec'[t].at = "spawned" /\ exec'[t].conf = FALSE
      /\ \A u \in Task : u # t => exec'[u] = exec[u]
      /\ inflight' = inflight \union {t}
      /\ \A u \in Task : u # t => cards'[u] = cards[u]
      /\ \A g \in cards'[t] : gpus'[g] = t
      /\ GpuNeed[t] = 0 => cards'[t] = {}
      /\ \A g \in Gpu : gpus[g] \in Task /\ gpus[g] # t => gpus'[g] = gpus[g]
      /\ UNCHANGED <<state, cleanup, leases, coord, snapshot, work, gone>>
  <2>1. PICK s \in SUBSET Gpu :
           /\ cards' = [cards EXCEPT ![t] = s]
           /\ \A g \in s : gpus'[g] = t
           /\ GpuNeed[t] = 0 => s = {}
           /\ \A g \in Gpu : gpus[g] \in Task /\ gpus[g] # t => gpus'[g] = gpus[g]
    <3>1. CASE GpuNeed[t] = 0
      BY <1>p, <3>1, Zenon DEF AdmitAndSpawn
    <3>2. CASE GpuNeed[t] # 0
      <4>1. PICK s \in Offers(t) : gpus' = Leased(t, s) /\ cards' = [cards EXCEPT ![t] = s]
        BY <1>p, <3>2, Zenon DEF AdmitAndSpawn
      <4>2. /\ s \in SUBSET Gpu
            /\ \A g \in s : Leased(t, s)[g] = t
            /\ \A g \in Gpu : gpus[g] \in Task /\ gpus[g] # t => Leased(t, s)[g] = gpus[g]
        BY Typed, <4>1, LeasedKeeps
      <4> QED BY <3>2, <4>1, <4>2, Zenon
    <3> QED BY <3>1, <3>2, Zenon
  <2>2. /\ exec'[t].at = "spawned" /\ exec'[t].conf = FALSE
        /\ \A u \in Task : u # t => exec'[u] = exec[u]
        /\ inflight' = inflight \union {t}
    BY Typed, <1>p, SpawnEffect, Zenon DEF AdmitAndSpawn
  <2> QED BY Typed, <1>p, <2>1, <2>2, Zenon
          DEF AdmitAndSpawn, Up, Scanning, counts
<1>1. LaneUnique' /\ OneEnv'
  BY <1>0, Frames, Zenon
<1>2. DownIsQuiet'
  BY <1>0, Zenon DEF DownIsQuiet, Up
<1>3. InflightIsExec'
  BY <1>0, Zenon DEF InflightIsExec
<1>4. AdmittedHolds'
  BY <1>0, <1>p, Zenon DEF AdmittedHolds
<1>5. SnapshotIsIdle'
  BY <1>0, SnapshotOfTasks, Zenon DEF SnapshotIsIdle
<1>6. ExecHolds'
  BY <1>0, CardsOfPool, <1>p DEF ExecHolds, AdmittedHolds
<1>7. StageFacts'
  BY <1>0, <1>p DEF StageFacts, AdmittedHolds
<1>8. RowFacts'
  BY <1>0, <1>p, Zenon DEF RowFacts, AdmittedHolds
<1>9. WorkerHolds => WorkerHolds'
  BY <1>0, CardsOfPool, <1>p DEF WorkerHolds, AdmittedHolds, Up
<1> QED BY <1>1, <1>2, <1>3, <1>4, <1>5, <1>6, <1>7, <1>8, <1>9, Zenon DEF Base

\* GpuRefused keeps the inductive invariant.
LEMMA GpuRefusedKeeps ==
    ASSUME Base, TypeOK', GpuRefused
    PROVE  Base' /\ (WorkerHolds => WorkerHolds')
<1> USE DEF Base
<1>p. PICK t \in Task : t = pump.task
  BY PumpNamesTask, Zenon DEF GpuRefused
<1>0. /\ coord # NoCoord
      /\ pump.at = "admit"
      /\ pump'.at = "refuse" /\ pump'.task = t
      /\ \A g \in Gpu : gpus[g] \in Task /\ gpus[g] # t => gpus'[g] = gpus[g]
      /\ UNCHANGED <<state, cleanup, leases, coord, snapshot, inflight, exec, work, cards, gone>>
  <2>1. \A g \in Gpu : gpus[g] \in Task /\ gpus[g] # t => gpus'[g] = gpus[g]
    BY Typed, <1>p, StaleKeeps DEF GpuRefused
  <2>2. pump.at = "admit" /\ pump'.at = "refuse" /\ pump'.task = t
    BY <1>p, Zenon DEF GpuRefused, TypeOK, PumpStates
  <2> QED BY <2>1, <2>2, Zenon DEF GpuRefused, Up, world, counts
<1>1. LaneUnique' /\ InflightIsExec' /\ OneEnv' /\ SnapshotIsIdle' /\ StageFacts' /\ RowFacts'
  BY <1>0, Frames, Zenon
<1>2. DownIsQuiet'
  BY <1>0, Zenon DEF DownIsQuiet, Up
<1>3. AdmittedHolds'
  BY <1>0, <1>p, Zenon DEF AdmittedHolds
<1>4. ExecHolds'
  BY <1>0, CardsOfPool, <1>p, Zenon DEF ExecHolds, AdmittedHolds
<1>5. WorkerHolds => WorkerHolds'
  BY <1>0, CardsOfPool, <1>p DEF WorkerHolds, AdmittedHolds, Up
<1> QED BY <1>1, <1>2, <1>3, <1>4, <1>5, Zenon DEF Base

\* ReturnLanes keeps the inductive invariant.
LEMMA ReturnLanesKeeps ==
    ASSUME Base, TypeOK', ReturnLanes
    PROVE  Base' /\ (WorkerHolds => WorkerHolds')
<1> USE DEF Base
<1>p. PICK t \in Task : t = pump.task
  BY PumpNamesTask, Zenon DEF ReturnLanes
<1>0. /\ coord # NoCoord
      /\ pump.at = "refuse"
      /\ pump'.at = "scan"
      /\ leases' \subseteq leases
      /\ \A r \in leases : r.holder # t => r \in leases'
      /\ UNCHANGED <<state, cleanup, gpus, coord, snapshot, inflight, exec, work, cards, gone>>
  BY <1>p, ReleasedRows, Zenon
     DEF ReturnLanes, Up, Scanning, durable, volatile, world, counts
<1>1. InflightIsExec' /\ SnapshotIsIdle' /\ StageFacts' /\ RowFacts'
  BY <1>0, Frames, Zenon
<1>2. LaneUnique'
  BY <1>0, FewerRowsUnique, Zenon DEF LaneUnique
<1>3. DownIsQuiet'
  BY <1>0, Zenon DEF DownIsQuiet, Up
<1>4. OneEnv'
  BY <1>0, Zenon DEF OneEnv, Up
<1>5. AdmittedHolds'
  BY <1>0, <1>p, Zenon DEF AdmittedHolds
<1>6. ExecHolds'
  BY <1>0, <1>p, Zenon DEF ExecHolds, AdmittedHolds, OwnRow
<1>7. WorkerHolds => WorkerHolds'
  BY <1>0, <1>p, Zenon DEF WorkerHolds, AdmittedHolds, OwnRow
<1> QED BY <1>1, <1>2, <1>3, <1>4, <1>5, <1>6, <1>7, Zenon DEF Base

\* EndScan keeps the inductive invariant.
LEMMA EndScanKeeps ==
    ASSUME Base, TypeOK', EndScan
    PROVE  Base' /\ (WorkerHolds => WorkerHolds')
<1> USE DEF Base
<1>0. /\ coord # NoCoord
      /\ pump'.at = "idle"
      /\ UNCHANGED <<state, cleanup, leases, gpus, coord, snapshot, inflight, exec, work, cards, gone>>
  BY Zenon DEF EndScan, Up, IdlePump, durable, volatile, world, counts
<1>1. LaneUnique' /\ InflightIsExec' /\ OneEnv' /\ SnapshotIsIdle' /\ ExecHolds' /\ StageFacts' /\ RowFacts' /\ (WorkerHolds => WorkerHolds')
  BY <1>0, Frames, Zenon
<1>2. DownIsQuiet'
  BY <1>0, Zenon DEF DownIsQuiet, Up
<1>3. AdmittedHolds'
  BY <1>0, Zenon DEF AdmittedHolds
<1> QED BY <1>1, <1>2, <1>3, Zenon DEF Base

\* SkipQueued keeps the inductive invariant.
LEMMA SkipQueuedKeeps ==
    ASSUME Base, TypeOK', NEW t \in Task, SkipQueued(t)
    PROVE  Base' /\ (WorkerHolds => WorkerHolds')
<1> USE DEF Base
<1>0. /\ coord # NoCoord
      /\ snapshot' \subseteq snapshot
      /\ UNCHANGED <<state, cleanup, leases, gpus, coord, pump, inflight, exec, work, cards, gone>>
  BY Zenon DEF SkipQueued, Up, durable, volatile, world, counts
<1>1. LaneUnique' /\ InflightIsExec' /\ OneEnv' /\ AdmittedHolds' /\ ExecHolds' /\ StageFacts' /\ RowFacts' /\ (WorkerHolds => WorkerHolds')
  BY <1>0, Frames, Zenon
<1>2. DownIsQuiet'
  BY <1>0, Zenon DEF DownIsQuiet, Up
<1>3. SnapshotIsIdle'
  BY <1>0, SnapshotOfTasks, Zenon DEF SnapshotIsIdle
<1> QED BY <1>1, <1>2, <1>3, Zenon DEF Base

\* DropOverBudget keeps the inductive invariant.
LEMMA DropOverBudgetKeeps ==
    ASSUME Base, TypeOK', NEW t \in Task, DropOverBudget(t)
    PROVE  Base' /\ (WorkerHolds => WorkerHolds')
<1> USE DEF Base
<1>0. /\ coord # NoCoord
      /\ pump.at = "scan"
      /\ snapshot' \subseteq snapshot
      /\ \A u \in Task : state'[u] = state[u] \/ state'[u] \in {"cancelled", "failed"}
      /\ UNCHANGED <<cleanup, leases, gpus, coord, pump, inflight, exec, work, cards, gone>>
  BY Typed, Zenon DEF DropOverBudget, Up, durable, volatile, world, counts
<1>1. LaneUnique' /\ InflightIsExec' /\ OneEnv' /\ ExecHolds' /\ (WorkerHolds => WorkerHolds')
  BY <1>0, Frames, Zenon
<1>2. DownIsQuiet'
  BY <1>0, Zenon DEF DownIsQuiet, Up
<1>3. AdmittedHolds'
  BY <1>0, PumpNamesTask, Zenon DEF AdmittedHolds
<1>4. SnapshotIsIdle'
  BY <1>0, SnapshotOfTasks, Zenon DEF SnapshotIsIdle
<1>5. StageFacts'
  BY <1>0, Zenon DEF StageFacts
<1>6. RowFacts'
  BY <1>0, Zenon DEF RowFacts, Terminal
<1> QED BY <1>1, <1>2, <1>3, <1>4, <1>5, <1>6, Zenon DEF Base

\* Enqueue keeps the inductive invariant.
LEMMA EnqueueKeeps ==
    ASSUME Base, TypeOK', NEW t \in Task, Enqueue(t)
    PROVE  Base' /\ (WorkerHolds => WorkerHolds')
<1> USE DEF Base
<1>0. /\ coord # NoCoord
      /\ pump.at \in {"idle", "shut"}
      /\ state[t] = "absent" /\ state'[t] = "queued"
      /\ \A u \in Task : u # t => state'[u] = state[u]
      /\ UNCHANGED <<cleanup, leases, gpus, coord, pump, snapshot, inflight, exec, work, cards, gone>>
  BY Typed, Zenon DEF Enqueue, Up, Idle, durable, volatile, world, counts
<1>1. LaneUnique' /\ DownIsQuiet' /\ InflightIsExec' /\ OneEnv' /\ ExecHolds' /\ (WorkerHolds => WorkerHolds')
  BY <1>0, Frames, Zenon
<1>2. AdmittedHolds'
  BY <1>0, PumpNamesTask, Zenon DEF AdmittedHolds
<1>3. SnapshotIsIdle'
  BY <1>0, SnapshotOfTasks, Zenon DEF SnapshotIsIdle
<1>4. StageFacts'
  BY <1>0, Zenon DEF StageFacts
<1>5. RowFacts'
  BY <1>0, Zenon DEF RowFacts, Terminal
<1> QED BY <1>1, <1>2, <1>3, <1>4, <1>5, Zenon DEF Base

\* AccountDead keeps the inductive invariant.
LEMMA AccountDeadKeeps ==
    ASSUME Base, TypeOK', NEW t \in Task, AccountDead(t)
    PROVE  Base' /\ (WorkerHolds => WorkerHolds')
<1> USE DEF Base
<1>0. /\ coord # NoCoord
      /\ UNCHANGED <<state, cleanup, leases, gpus, coord, pump, snapshot, inflight, exec, work, cards, gone>>
  BY Zenon DEF AccountDead, Up, Idle, counts, durable, volatile, world, counts
<1>1. LaneUnique' /\ DownIsQuiet' /\ InflightIsExec' /\ OneEnv' /\ AdmittedHolds' /\ SnapshotIsIdle' /\ ExecHolds' /\ StageFacts' /\ RowFacts' /\ (WorkerHolds => WorkerHolds')
  BY <1>0, Frames, Zenon
<1> QED BY <1>1, Zenon DEF Base

\* AbandonCloseTask keeps the inductive invariant.
LEMMA AbandonCloseTaskKeeps ==
    ASSUME Base, TypeOK', NEW t \in Task, AbandonCloseTask(t)
    PROVE  Base' /\ (WorkerHolds => WorkerHolds')
<1> USE DEF Base
<1>0. /\ coord # NoCoord
      /\ pump'.at \notin {"admit", "refuse"}
      /\ UNCHANGED <<state, cleanup, leases, gpus, coord, snapshot, inflight, exec, work, cards, gone>>
  BY Zenon DEF AbandonCloseTask, Up, Idle, durable, volatile, world, counts
<1>1. LaneUnique' /\ InflightIsExec' /\ OneEnv' /\ SnapshotIsIdle' /\ ExecHolds' /\ StageFacts' /\ RowFacts' /\ (WorkerHolds => WorkerHolds')
  BY <1>0, Frames, Zenon
<1>2. DownIsQuiet'
  BY <1>0, Zenon DEF DownIsQuiet, Up
<1>3. AdmittedHolds'
  BY <1>0, Zenon DEF AdmittedHolds
<1> QED BY <1>1, <1>2, <1>3, Zenon DEF Base

\* SetAdmission keeps the inductive invariant.
LEMMA SetAdmissionKeeps ==
    ASSUME Base, TypeOK', SetAdmission
    PROVE  Base' /\ (WorkerHolds => WorkerHolds')
<1> USE DEF Base
<1>0. /\ coord # NoCoord
      /\ pump'.at \notin {"admit", "refuse"}
      /\ UNCHANGED <<state, cleanup, leases, gpus, coord, snapshot, inflight, exec, work, cards, gone>>
  <2>1. pump'.at \in {"idle", "shut"}
    BY Zenon DEF SetAdmission, TypeOK, PumpStates
  <2> QED BY <2>1, Zenon DEF SetAdmission, Up, Idle, durable, volatile, world, counts
<1>1. LaneUnique' /\ InflightIsExec' /\ OneEnv' /\ SnapshotIsIdle' /\ ExecHolds' /\ StageFacts' /\ RowFacts' /\ (WorkerHolds => WorkerHolds')
  BY <1>0, Frames, Zenon
<1>2. DownIsQuiet'
  BY <1>0, Zenon DEF DownIsQuiet, Up
<1>3. AdmittedHolds'
  BY <1>0, Zenon DEF AdmittedHolds
<1> QED BY <1>1, <1>2, <1>3, Zenon DEF Base

\* SettleAbandoned keeps the inductive invariant.
LEMMA SettleAbandonedKeeps ==
    ASSUME Base, TypeOK', SettleAbandoned
    PROVE  Base' /\ (WorkerHolds => WorkerHolds')
<1> USE DEF Base
<1>0. /\ coord # NoCoord
      /\ pump'.at = "idle"
      /\ \A u \in Task : state'[u] = state[u] \/ state'[u] \in {"cancelled", "failed"}
      /\ UNCHANGED <<cleanup, leases, gpus, coord, snapshot, inflight, exec, work, cards, gone>>
  BY Typed, Zenon DEF SettleAbandoned, Up, IdlePump, durable, volatile, world, counts
<1>1. LaneUnique' /\ InflightIsExec' /\ OneEnv' /\ ExecHolds' /\ (WorkerHolds => WorkerHolds')
  BY <1>0, Frames, Zenon
<1>2. DownIsQuiet'
  BY <1>0, Zenon DEF DownIsQuiet, Up
<1>3. AdmittedHolds'
  BY <1>0, Zenon DEF AdmittedHolds
<1>4. SnapshotIsIdle'
  BY <1>0, SnapshotOfTasks, Zenon DEF SnapshotIsIdle
<1>5. StageFacts'
  BY <1>0, Zenon DEF StageFacts
<1>6. RowFacts'
  BY <1>0, Zenon DEF RowFacts, Terminal
<1> QED BY <1>1, <1>2, <1>3, <1>4, <1>5, <1>6, Zenon DEF Base

\* CancelQueued keeps the inductive invariant.
LEMMA CancelQueuedKeeps ==
    ASSUME Base, TypeOK', NEW ts \in SUBSET Task, CancelQueued(ts)
    PROVE  Base' /\ (WorkerHolds => WorkerHolds')
<1> USE DEF Base
<1>0. /\ coord # NoCoord
      /\ pump.at \in {"idle", "shut"}
      /\ \A u \in Task : state'[u] = state[u] \/ state'[u] \in {"cancelled", "failed"}
      /\ UNCHANGED <<cleanup, leases, gpus, coord, pump, snapshot, inflight, exec, work, cards, gone>>
  BY Typed, Zenon
     DEF CancelQueued, Up, Idle, durable, volatile, world, counts
<1>1. LaneUnique' /\ DownIsQuiet' /\ InflightIsExec' /\ OneEnv' /\ ExecHolds' /\ (WorkerHolds => WorkerHolds')
  BY <1>0, Frames, Zenon
<1>2. AdmittedHolds'
  BY <1>0, PumpNamesTask, Zenon DEF AdmittedHolds
<1>3. SnapshotIsIdle'
  BY <1>0, SnapshotOfTasks, Zenon DEF SnapshotIsIdle
<1>4. StageFacts'
  BY <1>0, Zenon DEF StageFacts
<1>5. RowFacts'
  BY <1>0, Zenon DEF RowFacts, Terminal
<1> QED BY <1>1, <1>2, <1>3, <1>4, <1>5, Zenon DEF Base

\* ReclaimDeadRunning keeps the inductive invariant.
LEMMA ReclaimDeadRunningKeeps ==
    ASSUME Base, TypeOK', ReclaimDeadRunning
    PROVE  Base' /\ (WorkerHolds => WorkerHolds')
<1> USE DEF Base
<1>0. /\ coord # NoCoord
      /\ pump.at \in {"idle", "shut"}
      /\ \A u \in Task : state'[u] = state[u] \/ state'[u] \in {"cancelled", "failed"}
      /\ UNCHANGED <<cleanup, leases, gpus, coord, pump, snapshot, inflight, exec, work, cards, gone>>
  BY Typed, Zenon
     DEF ReclaimDeadRunning, Up, Idle, durable, volatile, world, counts
<1>1. LaneUnique' /\ DownIsQuiet' /\ InflightIsExec' /\ OneEnv' /\ ExecHolds' /\ (WorkerHolds => WorkerHolds')
  BY <1>0, Frames, Zenon
<1>2. AdmittedHolds'
  BY <1>0, PumpNamesTask, Zenon DEF AdmittedHolds
<1>3. SnapshotIsIdle'
  BY <1>0, SnapshotOfTasks, Zenon DEF SnapshotIsIdle
<1>4. StageFacts'
  BY <1>0, Zenon DEF StageFacts
<1>5. RowFacts'
  BY <1>0, Zenon DEF RowFacts, Terminal
<1> QED BY <1>1, <1>2, <1>3, <1>4, <1>5, Zenon DEF Base

\* ReapDeadHolders keeps the inductive invariant.
LEMMA ReapDeadHoldersKeeps ==
    ASSUME Base, TypeOK', ReapDeadHolders
    PROVE  Base' /\ (WorkerHolds => WorkerHolds')
<1> USE DEF Base
<1>0. /\ coord # NoCoord
      /\ pump.at \in {"idle", "shut"}
      /\ leases' \subseteq leases
      /\ \A r \in leases : r.env = coord.env /\ r.pid = coord.pid => r \in leases'
      /\ UNCHANGED <<state, cleanup, gpus, coord, pump, snapshot, inflight, exec, work, cards, gone>>
  BY Zenon DEF ReapDeadHolders, Up, Idle, Reapable, HolderIsDead, durable,
       volatile, world, counts
<1>1. DownIsQuiet' /\ InflightIsExec' /\ SnapshotIsIdle' /\ StageFacts' /\ RowFacts'
  BY <1>0, Frames, Zenon
<1>2. LaneUnique'
  BY <1>0, FewerRowsUnique, Zenon DEF LaneUnique
<1>3. OneEnv'
  BY <1>0, Zenon DEF OneEnv, Up
<1>4. AdmittedHolds'
  BY <1>0, Zenon DEF AdmittedHolds
<1>5. ExecHolds'
  BY <1>0, Zenon DEF ExecHolds, OwnRow
<1>6. WorkerHolds => WorkerHolds'
  BY <1>0, Zenon DEF WorkerHolds, OwnRow
<1> QED BY <1>1, <1>2, <1>3, <1>4, <1>5, <1>6, Zenon DEF Base

\* Book keeps the inductive invariant.
LEMMA BookKeeps ==
    ASSUME Base, TypeOK', Book
    PROVE  Base' /\ (WorkerHolds => WorkerHolds')
<1> USE DEF Base
<1>0. /\ coord # NoCoord
      /\ UNCHANGED <<state, cleanup, leases, gpus, coord, pump, snapshot, inflight, exec, work, cards, gone>>
  BY Zenon DEF Book, Up, Idle, counts, durable, volatile, world, counts
<1>1. LaneUnique' /\ DownIsQuiet' /\ InflightIsExec' /\ OneEnv' /\ AdmittedHolds' /\ SnapshotIsIdle' /\ ExecHolds' /\ StageFacts' /\ RowFacts' /\ (WorkerHolds => WorkerHolds')
  BY <1>0, Frames, Zenon
<1> QED BY <1>1, Zenon DEF Base

\* PolicyDenied keeps the inductive invariant.
LEMMA PolicyDeniedKeeps ==
    ASSUME Base, TypeOK', NEW t \in Task, PolicyDenied(t)
    PROVE  Base' /\ (WorkerHolds => WorkerHolds')
<1> USE DEF Base
<1>0. /\ coord # NoCoord
      /\ exec[t].at = "spawned"
      /\ exec'[t].at = "releasing" /\ exec'[t].out = "cancelled" /\ exec'[t].conf = FALSE
      /\ \A u \in Task : u # t => exec'[u] = exec[u]
      /\ UNCHANGED <<state, cleanup, leases, gpus, coord, pump, snapshot, inflight, work, cards, gone>>
  BY Typed, MoveEffect, Zenon
     DEF PolicyDenied, Up, At, durable, volatile, world, counts
<1>1. LaneUnique' /\ OneEnv' /\ SnapshotIsIdle' /\ RowFacts'
  BY <1>0, Frames, Zenon
<1>2. DownIsQuiet'
  BY <1>0, Zenon DEF DownIsQuiet, Up
<1>3. InflightIsExec'
  BY <1>0, Zenon DEF InflightIsExec
<1>4. AdmittedHolds'
  BY <1>0, PumpNamesTask, Zenon DEF AdmittedHolds
<1>5. ExecHolds'
  BY <1>0, Zenon DEF ExecHolds
<1>6. StageFacts'
  BY <1>0, Zenon DEF StageFacts
<1>7. WorkerHolds => WorkerHolds'
  BY <1>0, Zenon DEF WorkerHolds, StageFacts
<1> QED BY <1>1, <1>2, <1>3, <1>4, <1>5, <1>6, <1>7, Zenon DEF Base

\* Claim keeps the inductive invariant.
LEMMA ClaimKeeps ==
    ASSUME Base, TypeOK', NEW t \in Task, Claim(t)
    PROVE  Base' /\ (WorkerHolds => WorkerHolds')
<1> USE DEF Base
<1>0. /\ coord # NoCoord
      /\ exec[t].at = "spawned"
      /\ exec'[t].at = "working" /\ exec'[t].conf = FALSE
      /\ \A u \in Task : u # t => exec'[u] = exec[u]
      /\ state[t] = "queued" /\ state'[t] = "running"
      /\ \A u \in Task : u # t => state'[u] = state[u]
      /\ work'[t] = coord.env /\ coord.env # NoEnv
      /\ \A u \in Task : u # t => work'[u] = work[u]
      /\ UNCHANGED <<cleanup, leases, gpus, coord, pump, snapshot, inflight, cards, gone>>
  <2>1. coord # NoCoord /\ coord.env # NoEnv
    BY Typed, DispatchAssumption DEF Claim, At, Up
  <2>2. /\ exec'[t].at = "working" /\ exec'[t].conf = FALSE
        /\ \A u \in Task : u # t => exec'[u] = exec[u]
    BY Typed, MoveEffect, ZenonT(30) DEF Claim
  <2>3. /\ state'[t] = "running" /\ \A u \in Task : u # t => state'[u] = state[u]
        /\ work'[t] = coord.env /\ \A u \in Task : u # t => work'[u] = work[u]
    BY Typed, Zenon DEF Claim
  <2> QED BY <2>1, <2>2, <2>3, Zenon DEF Claim, At, durable, volatile, world, counts
<1>1. LaneUnique'
  BY <1>0, Frames, Zenon
<1>2. DownIsQuiet'
  BY <1>0, Zenon DEF DownIsQuiet, Up
<1>3. InflightIsExec'
  BY <1>0, Zenon DEF InflightIsExec
<1>4. OneEnv'
  BY <1>0, Zenon DEF OneEnv, Up
<1>5. AdmittedHolds'
  BY <1>0, PumpNamesTask, Zenon DEF AdmittedHolds
<1>6. SnapshotIsIdle'
  BY <1>0, SnapshotOfTasks, Zenon DEF SnapshotIsIdle, InflightIsExec
<1>7. ExecHolds'
  BY <1>0, Zenon DEF ExecHolds
<1>8. StageFacts'
  BY <1>0 DEF StageFacts
<1>9. RowFacts'
  BY <1>0, Zenon DEF RowFacts, Terminal
<1>10. WorkerHolds => WorkerHolds'
  <2>1. ASSUME NEW u \in Task, u # t PROVE work'[u] = work[u]
    BY <1>0, <2>1, Zenon
  <2>2. /\ \A r \in leases : r.env = coord.env
        /\ \A l \in LanesFor(t) : OwnRow(t, l, coord) \in leases
        /\ \A g \in cards[t] : gpus[g] = t
    BY <1>0, Zenon DEF OneEnv, ExecHolds, Up
  <2> QED BY <1>0, <2>1, <2>2, Zenon DEF WorkerHolds
<1> QED BY <1>1, <1>2, <1>3, <1>4, <1>5, <1>6, <1>7, <1>8, <1>9, <1>10, Zenon DEF Base

\* ClaimRejected keeps the inductive invariant.
LEMMA ClaimRejectedKeeps ==
    ASSUME Base, TypeOK', NEW t \in Task, ClaimRejected(t)
    PROVE  Base' /\ (WorkerHolds => WorkerHolds')
<1> USE DEF Base
<1>0. /\ coord # NoCoord
      /\ exec[t].at = "spawned"
      /\ exec'[t].at = "releasing" /\ exec'[t].out = "none" /\ exec'[t].conf = FALSE
      /\ \A u \in Task : u # t => exec'[u] = exec[u]
      /\ state[t] # "queued"
      /\ UNCHANGED <<state, cleanup, leases, gpus, coord, pump, snapshot, inflight, work, cards, gone>>
  BY Typed, MoveEffect, Zenon
     DEF ClaimRejected, Up, At, durable, volatile, world, counts
<1>1. LaneUnique' /\ OneEnv' /\ SnapshotIsIdle' /\ RowFacts'
  BY <1>0, Frames, Zenon
<1>2. DownIsQuiet'
  BY <1>0, Zenon DEF DownIsQuiet, Up
<1>3. InflightIsExec'
  BY <1>0, Zenon DEF InflightIsExec
<1>4. AdmittedHolds'
  BY <1>0, PumpNamesTask, Zenon DEF AdmittedHolds
<1>5. ExecHolds'
  BY <1>0, Zenon DEF ExecHolds
<1>6. StageFacts'
  BY <1>0, ZenonT(30) DEF StageFacts
<1>7. WorkerHolds => WorkerHolds'
  BY <1>0, Zenon DEF WorkerHolds, StageFacts
<1> QED BY <1>1, <1>2, <1>3, <1>4, <1>5, <1>6, <1>7, Zenon DEF Base

\* Finish keeps the inductive invariant.
LEMMA FinishKeeps ==
    ASSUME Base, TypeOK', NEW t \in Task, NEW out \in Terminal, Finish(t, out)
    PROVE  Base' /\ (WorkerHolds => WorkerHolds')
<1> USE DEF Base
<1>0. /\ coord # NoCoord
      /\ exec[t].at = "working"
      /\ exec'[t].at = "releasing" /\ exec'[t].out = out /\ exec'[t].conf = FALSE
      /\ \A u \in Task : u # t => exec'[u] = exec[u]
      /\ work'[t] = NoEnv \/ (Remote(t) /\ work'[t] = work[t])
      /\ \A u \in Task : u # t => work'[u] = work[u]
      /\ out # "none"
      /\ UNCHANGED <<state, cleanup, leases, gpus, coord, pump, snapshot, inflight, cards, gone>>
  BY Typed, MoveEffect, ZenonT(30)
     DEF Finish, Up, At, Terminal, durable, volatile, world, counts
<1>1. LaneUnique'
  BY <1>0, Frames, Zenon
<1>2. DownIsQuiet'
  BY <1>0, Zenon DEF DownIsQuiet, Up
<1>3. InflightIsExec'
  BY <1>0, Zenon DEF InflightIsExec
<1>4. OneEnv'
  BY <1>0, NoEnvStays, Zenon DEF OneEnv, Up
<1>5. AdmittedHolds'
  BY <1>0, PumpNamesTask, Zenon DEF AdmittedHolds
<1>6. SnapshotIsIdle'
  BY <1>0, SnapshotOfTasks, Zenon DEF SnapshotIsIdle
<1>7. ExecHolds'
  BY <1>0, Zenon DEF ExecHolds
<1>8. StageFacts'
  BY <1>0, ZenonT(30) DEF StageFacts
<1>9. RowFacts'
  BY <1>0, Zenon DEF RowFacts
<1>10. WorkerHolds => WorkerHolds'
  BY <1>0 DEF WorkerHolds, Up
<1> QED BY <1>1, <1>2, <1>3, <1>4, <1>5, <1>6, <1>7, <1>8, <1>9, <1>10, Zenon DEF Base

\* FinishUnconfirmed keeps the inductive invariant.
LEMMA FinishUnconfirmedKeeps ==
    ASSUME Base, TypeOK', NEW t \in Task, NEW out \in Outcomes, FinishUnconfirmed(t, out)
    PROVE  Base' /\ (WorkerHolds => WorkerHolds')
<1> USE DEF Base
<1>0. /\ coord # NoCoord
      /\ exec[t].at = "working"
      /\ exec'[t].at \in {"raised", "writing"} /\ exec'[t].conf = FALSE
      /\ \A u \in Task : u # t => exec'[u] = exec[u]
      /\ UNCHANGED <<state, cleanup, leases, gpus, coord, pump, snapshot, inflight, work, cards, gone>>
  BY Typed, MoveEffect, Zenon
     DEF FinishUnconfirmed, Up, At, durable, volatile, world, counts
<1>1. LaneUnique' /\ OneEnv' /\ SnapshotIsIdle' /\ RowFacts'
  BY <1>0, Frames, Zenon
<1>2. DownIsQuiet'
  BY <1>0, Zenon DEF DownIsQuiet, Up
<1>3. InflightIsExec'
  BY <1>0, Zenon DEF InflightIsExec
<1>4. AdmittedHolds'
  BY <1>0, PumpNamesTask, Zenon DEF AdmittedHolds
<1>5. ExecHolds'
  BY <1>0, Zenon DEF ExecHolds
<1>6. StageFacts'
  BY <1>0, Zenon DEF StageFacts
<1>7. WorkerHolds => WorkerHolds'
  BY <1>0, Zenon DEF WorkerHolds
<1> QED BY <1>1, <1>2, <1>3, <1>4, <1>5, <1>6, <1>7, Zenon DEF Base

\* ReleaseSlot keeps the inductive invariant.
LEMMA ReleaseSlotKeeps ==
    ASSUME Base, TypeOK', NEW t \in Task, NEW conf \in BOOLEAN, ReleaseSlot(t, conf)
    PROVE  Base' /\ (WorkerHolds => WorkerHolds')
<1> USE DEF Base
<1>0. /\ coord # NoCoord
      /\ exec[t].at = "releasing"
      /\ exec'[t].at \in {"unlocking", "writing"}
      /\ exec'[t].conf = conf /\ exec'[t].out = exec[t].out
      /\ exec'[t].at = "unlocking" => conf
      /\ \A u \in Task : u # t => exec'[u] = exec[u]
      /\ conf => work'[t] = NoEnv
      /\ work'[t] = NoEnv \/ (Remote(t) /\ work'[t] = work[t])
      /\ \A u \in Task : u # t => work'[u] = work[u]
      /\ \A g \in Gpu : gpus[g] \in Task /\ gpus[g] # t => gpus'[g] = gpus[g]
      /\ UNCHANGED <<state, cleanup, leases, coord, pump, snapshot, inflight, cards, gone>>
  <2>1. \A g \in Gpu : gpus[g] \in Task /\ gpus[g] # t => gpus'[g] = gpus[g]
    BY Typed, GivenBackKeeps DEF ReleaseSlot
  <2>2. exec[t].out = "none" => conf
    BY Zenon DEF ReleaseSlot, At, StageFacts
  <2>3. /\ conf => work'[t] = NoEnv
        /\ work'[t] = NoEnv \/ (Remote(t) /\ work'[t] = work[t])
        /\ \A u \in Task : u # t => work'[u] = work[u]
    BY Typed, Zenon DEF ReleaseSlot
  <2>4. /\ exec'[t].at \in {"unlocking", "writing"}
        /\ exec'[t].conf = conf /\ exec'[t].out = exec[t].out
        /\ exec'[t].at = "unlocking" => conf
        /\ \A u \in Task : u # t => exec'[u] = exec[u]
    <3> DEFINE stage == IF exec[t].out = "none" THEN "unlocking" ELSE "writing"
    <3>1. Move(t, stage, exec[t].out, conf)
      BY Zenon DEF ReleaseSlot
    <3>2. stage \in {"unlocking", "writing"} /\ (stage = "unlocking" => conf)
      BY <2>2, Zenon
    <3> HIDE DEF stage
    <3> QED BY Typed, <3>1, <3>2, MoveEffect
  <2> QED BY <2>1, <2>3, <2>4, Zenon DEF ReleaseSlot, Up, At, counts
<1>1. LaneUnique'
  BY <1>0, Frames, Zenon
<1>2. DownIsQuiet'
  BY <1>0, Zenon DEF DownIsQuiet, Up
<1>3. InflightIsExec'
  BY <1>0, Zenon DEF InflightIsExec
<1>4. OneEnv'
  BY <1>0, NoEnvStays, Zenon DEF OneEnv, Up
<1>5. AdmittedHolds'
  BY <1>0, PumpNamesTask, Zenon DEF AdmittedHolds
<1>6. SnapshotIsIdle'
  BY <1>0, SnapshotOfTasks, Zenon DEF SnapshotIsIdle
<1>7. ExecHolds'
  BY <1>0, CardsOfPool DEF ExecHolds
<1>8. StageFacts'
  BY <1>0 DEF StageFacts
<1>9. RowFacts'
  BY <1>0, Zenon DEF RowFacts
<1>10. WorkerHolds => WorkerHolds'
  BY <1>0, CardsOfPool, SMTT(30) DEF WorkerHolds, StageFacts, Up
<1> QED BY <1>1, <1>2, <1>3, <1>4, <1>5, <1>6, <1>7, <1>8, <1>9, <1>10, Zenon DEF Base

\* WriteTerminal keeps the inductive invariant.
LEMMA WriteTerminalKeeps ==
    ASSUME Base, TypeOK', NEW t \in Task, WriteTerminal(t)
    PROVE  Base' /\ (WorkerHolds => WorkerHolds')
<1> USE DEF Base
<1>0. /\ coord # NoCoord
      /\ exec[t].at = "writing"
      /\ exec'[t].at = "unlocking" /\ exec'[t].out = exec[t].out /\ exec'[t].conf = exec[t].conf
      /\ \A u \in Task : u # t => exec'[u] = exec[u]
      /\ state'[t] \in Terminal
      /\ \A u \in Task : u # t => state'[u] = state[u]
      /\ cleanup'[t] = IF exec[t].conf THEN "confirmed" ELSE "unconfirmed"
      /\ \A u \in Task : u # t => cleanup'[u] = cleanup[u]
      /\ UNCHANGED <<leases, gpus, coord, pump, snapshot, inflight, work, cards, gone>>
  <2>1. exec[t].out \in Terminal
    BY Typed, Zenon DEF WriteTerminal, At, Outcomes, Execution
  <2>2. state'[t] \in Terminal
    BY Typed, <2>1, Zenon DEF WriteTerminal, At, StageFacts, TaskStates, Terminal
  <2> QED BY Typed, <2>2, MoveEffect
          DEF WriteTerminal, Up, At, durable, volatile, world, counts
<1>1. LaneUnique' /\ OneEnv'
  BY <1>0, Frames, Zenon
<1>2. DownIsQuiet'
  BY <1>0, Zenon DEF DownIsQuiet, Up
<1>3. InflightIsExec'
  BY <1>0, Zenon DEF InflightIsExec
<1>4. AdmittedHolds'
  BY <1>0, PumpNamesTask, Zenon DEF AdmittedHolds, Terminal
<1>5. SnapshotIsIdle'
  BY <1>0, SnapshotOfTasks, Zenon DEF SnapshotIsIdle, Terminal
<1>6. ExecHolds'
  BY <1>0, Zenon DEF ExecHolds
<1>7. StageFacts'
  BY <1>0 DEF StageFacts, Terminal
<1>8. RowFacts'
  BY <1>0, Zenon DEF RowFacts, Terminal
<1>9. WorkerHolds => WorkerHolds'
  BY <1>0 DEF WorkerHolds, StageFacts, Up
<1> QED BY <1>1, <1>2, <1>3, <1>4, <1>5, <1>6, <1>7, <1>8, <1>9, Zenon DEF Base

\* ReleaseLanes keeps the inductive invariant.
LEMMA ReleaseLanesKeeps ==
    ASSUME Base, TypeOK', NEW t \in Task, ReleaseLanes(t)
    PROVE  Base' /\ (WorkerHolds => WorkerHolds')
<1> USE DEF Base
<1>0. /\ coord # NoCoord
      /\ exec[t].at = "unlocking"
      /\ exec'[t].at \in {"finishing", "raised"}
      /\ exec'[t].at = "finishing" => exec[t].conf
      /\ exec'[t].conf = exec[t].conf
      /\ \A u \in Task : u # t => exec'[u] = exec[u]
      /\ leases' \subseteq leases
      /\ \A r \in leases : r.holder # t => r \in leases'
      /\ UNCHANGED <<state, cleanup, gpus, coord, pump, snapshot, inflight, work, cards, gone>>
  <2>1. leases' = leases \/ leases' = Released(leases, t, Needs[t])
    BY Zenon DEF ReleaseLanes
  <2>2. /\ exec'[t].at \in {"finishing", "raised"}
        /\ exec'[t].at = "finishing" => exec[t].conf
        /\ exec'[t].conf = exec[t].conf
        /\ \A u \in Task : u # t => exec'[u] = exec[u]
    <3> DEFINE stage == IF exec[t].out # "none" /\ exec[t].conf THEN "finishing" ELSE "raised"
    <3>1. Move(t, stage, exec[t].out, exec[t].conf)
      BY Zenon DEF ReleaseLanes
    <3>2. stage \in {"finishing", "raised"} /\ (stage = "finishing" => exec[t].conf)
      BY Zenon
    <3> HIDE DEF stage
    <3> QED BY Typed, <3>1, <3>2, MoveEffect
  <2> QED BY <2>1, <2>2, ReleasedRows, Zenon DEF ReleaseLanes, Up, At, world, counts
<1>1. SnapshotIsIdle' /\ RowFacts'
  BY <1>0, Frames, Zenon
<1>2. LaneUnique'
  BY <1>0, FewerRowsUnique, Zenon DEF LaneUnique
<1>3. DownIsQuiet'
  BY <1>0, Zenon DEF DownIsQuiet, Up
<1>4. InflightIsExec'
  BY <1>0, Zenon DEF InflightIsExec
<1>5. OneEnv'
  BY <1>0, Zenon DEF OneEnv, Up
<1>6. AdmittedHolds'
  BY <1>0, PumpNamesTask, Zenon DEF AdmittedHolds, OwnRow
<1>7. ExecHolds'
  BY <1>0, Zenon DEF ExecHolds, OwnRow
<1>8. StageFacts'
  BY <1>0, ZenonT(30) DEF StageFacts
<1>9. WorkerHolds => WorkerHolds'
  BY <1>0, ZenonT(30) DEF WorkerHolds, StageFacts, OwnRow
<1> QED BY <1>1, <1>2, <1>3, <1>4, <1>5, <1>6, <1>7, <1>8, <1>9, Zenon DEF Base

\* Complete keeps the inductive invariant.
LEMMA CompleteKeeps ==
    ASSUME Base, TypeOK', NEW t \in Task, Complete(t)
    PROVE  Base' /\ (WorkerHolds => WorkerHolds')
<1> USE DEF Base
<1>0. /\ coord # NoCoord
      /\ exec[t].at = "finishing"
      /\ exec'[t].at = "none"
      /\ \A u \in Task : u # t => exec'[u] = exec[u]
      /\ inflight' = inflight \ {t}
      /\ UNCHANGED <<state, cleanup, leases, gpus, coord, pump, snapshot, work, cards, gone>>
  BY Typed, Zenon
     DEF Complete, Up, At, NoExec, durable, volatile, world, counts
<1>1. LaneUnique' /\ OneEnv' /\ RowFacts'
  BY <1>0, Frames, Zenon
<1>2. DownIsQuiet'
  BY <1>0, Zenon DEF DownIsQuiet, Up
<1>3. InflightIsExec'
  BY <1>0, Zenon DEF InflightIsExec
<1>4. AdmittedHolds'
  BY <1>0, PumpNamesTask, Zenon DEF AdmittedHolds
<1>5. SnapshotIsIdle'
  BY <1>0, SnapshotOfTasks, Zenon DEF SnapshotIsIdle, StageFacts
<1>6. ExecHolds'
  BY <1>0, Zenon DEF ExecHolds
<1>7. StageFacts'
  BY <1>0, Zenon DEF StageFacts
<1>8. WorkerHolds => WorkerHolds'
  BY <1>0, Zenon DEF WorkerHolds, StageFacts
<1> QED BY <1>1, <1>2, <1>3, <1>4, <1>5, <1>6, <1>7, <1>8, Zenon DEF Base

\* RefuseDispatch keeps the inductive invariant.
LEMMA RefuseDispatchKeeps ==
    ASSUME Base, TypeOK', NEW t \in Task, RefuseDispatch(t)
    PROVE  Base' /\ (WorkerHolds => WorkerHolds')
<1> USE DEF Base
<1>0. /\ coord # NoCoord
      /\ exec[t].at = "spawned"
      /\ exec'[t].at = "refusing" /\ exec'[t].conf = FALSE
      /\ \A u \in Task : u # t => exec'[u] = exec[u]
      /\ \A g \in Gpu : gpus[g] \in Task /\ gpus[g] # t => gpus'[g] = gpus[g]
      /\ UNCHANGED <<state, cleanup, leases, coord, pump, snapshot, inflight, work, cards, gone>>
  <2>1. \A g \in Gpu : gpus[g] \in Task /\ gpus[g] # t => gpus'[g] = gpus[g]
    BY Typed, GivenBackKeeps DEF RefuseDispatch
  <2> QED BY Typed, <2>1, MoveEffect, ZenonT(30) DEF RefuseDispatch, Up, At, world, counts
<1>1. LaneUnique' /\ OneEnv' /\ SnapshotIsIdle' /\ RowFacts'
  BY <1>0, Frames, Zenon
<1>2. DownIsQuiet'
  BY <1>0, Zenon DEF DownIsQuiet, Up
<1>3. InflightIsExec'
  BY <1>0, Zenon DEF InflightIsExec
<1>4. AdmittedHolds'
  BY <1>0, PumpNamesTask, Zenon DEF AdmittedHolds
<1>5. ExecHolds'
  BY <1>0, CardsOfPool, Zenon DEF ExecHolds
<1>6. StageFacts'
  BY <1>0, Zenon DEF StageFacts
<1>7. WorkerHolds => WorkerHolds'
  BY <1>0, CardsOfPool DEF WorkerHolds, StageFacts, Up
<1> QED BY <1>1, <1>2, <1>3, <1>4, <1>5, <1>6, <1>7, Zenon DEF Base

\* ForgetDispatch keeps the inductive invariant.
LEMMA ForgetDispatchKeeps ==
    ASSUME Base, TypeOK', NEW t \in Task, ForgetDispatch(t)
    PROVE  Base' /\ (WorkerHolds => WorkerHolds')
<1> USE DEF Base
<1>0. /\ coord # NoCoord
      /\ exec[t].at = "refusing"
      /\ exec'[t].at = "none"
      /\ \A u \in Task : u # t => exec'[u] = exec[u]
      /\ inflight' = inflight \ {t}
      /\ leases' \subseteq leases
      /\ \A r \in leases : r.holder # t => r \in leases'
      /\ UNCHANGED <<state, cleanup, gpus, coord, pump, snapshot, work, cards, gone>>
  BY Typed, ReleasedRows, Zenon
     DEF ForgetDispatch, Up, At, NoExec, durable, volatile, world, counts
<1>1. RowFacts'
  BY <1>0, Frames, Zenon
<1>2. LaneUnique'
  BY <1>0, FewerRowsUnique, Zenon DEF LaneUnique
<1>3. DownIsQuiet'
  BY <1>0, Zenon DEF DownIsQuiet, Up
<1>4. InflightIsExec'
  BY <1>0, Zenon DEF InflightIsExec
<1>5. OneEnv'
  BY <1>0, Zenon DEF OneEnv, Up
<1>6. AdmittedHolds'
  BY <1>0, PumpNamesTask, Zenon DEF AdmittedHolds, OwnRow
<1>7. SnapshotIsIdle'
  BY <1>0, SnapshotOfTasks, Zenon DEF SnapshotIsIdle, StageFacts
<1>8. ExecHolds'
  BY <1>0, Zenon DEF ExecHolds, OwnRow
<1>9. StageFacts'
  BY <1>0, Zenon DEF StageFacts
<1>10. WorkerHolds => WorkerHolds'
  BY <1>0, Zenon DEF WorkerHolds, StageFacts, OwnRow
<1> QED BY <1>1, <1>2, <1>3, <1>4, <1>5, <1>6, <1>7, <1>8, <1>9, <1>10, Zenon DEF Base

\* Crash keeps the inductive invariant.
LEMMA CrashKeeps ==
    ASSUME Base, TypeOK', Crash
    PROVE  Base' /\ (WorkerHolds => WorkerHolds')
<1> USE DEF Base
<1>0. /\ coord' = NoCoord
      /\ pump'.at = "idle"
      /\ snapshot' = {}
      /\ inflight' = {}
      /\ \A u \in Task : exec'[u].at = "none"
      /\ UNCHANGED <<state, cleanup, leases, gpus, work, cards, gone>>
  BY Zenon DEF Crash, ForgetMemory, IdlePump, NoExec, durable, volatile, world,
       counts
<1>1. LaneUnique' /\ RowFacts'
  BY <1>0, Frames, Zenon
<1>2. DownIsQuiet'
  BY <1>0, Zenon DEF DownIsQuiet, Up
<1>3. InflightIsExec'
  BY <1>0, Zenon DEF InflightIsExec
<1>4. OneEnv'
  BY <1>0, Zenon DEF OneEnv, Up
<1>5. AdmittedHolds'
  BY <1>0, Zenon DEF AdmittedHolds
<1>6. SnapshotIsIdle'
  BY <1>0, SnapshotOfTasks, Zenon DEF SnapshotIsIdle
<1>7. ExecHolds'
  BY <1>0, Zenon DEF ExecHolds
<1>8. StageFacts'
  BY <1>0, Zenon DEF StageFacts
<1>9. WorkerHolds => WorkerHolds'
  BY <1>0 DEF WorkerHolds, Up
<1> QED BY <1>1, <1>2, <1>3, <1>4, <1>5, <1>6, <1>7, <1>8, <1>9, Zenon DEF Base

\* LoseEnv keeps the inductive invariant.
LEMMA LoseEnvKeeps ==
    ASSUME Base, TypeOK', NEW e \in Env, LoseEnv(e)
    PROVE  Base' /\ (WorkerHolds => WorkerHolds')
<1> USE DEF Base
<1>e. e # NoEnv
  BY DispatchAssumption, Zenon
<1>1. CASE Up /\ coord.env = e
  <2>0. /\ coord' = NoCoord
        /\ pump'.at = "idle"
        /\ snapshot' = {}
        /\ inflight' = {}
        /\ \A u \in Task : exec'[u].at = "none"
        /\ gone' = gone \union {e}
        /\ \A u \in Task : work'[u] = IF work[u] = e THEN NoEnv ELSE work[u]
        /\ UNCHANGED <<state, cleanup, leases, gpus, cards>>
    BY <1>1 DEF LoseEnv, ForgetMemory, IdlePump, NoExec, durable
  <2>1. LaneUnique'
    BY <2>0, Frames, Zenon
  <2>2. DownIsQuiet'
    BY <2>0, Zenon DEF DownIsQuiet, Up
  <2>3. InflightIsExec'
    BY <2>0, Zenon DEF InflightIsExec
  <2>4. OneEnv'
    BY <2>0, NoEnvStays, <1>e, Zenon DEF OneEnv, Up
  <2>5. AdmittedHolds'
    BY <2>0, Zenon DEF AdmittedHolds
  <2>6. SnapshotIsIdle'
    BY <2>0, SnapshotOfTasks, Zenon DEF SnapshotIsIdle
  <2>7. ExecHolds'
    BY <2>0, Zenon DEF ExecHolds
  <2>8. StageFacts'
    BY <2>0, Zenon DEF StageFacts
  <2>9. RowFacts'
    BY <2>0, Zenon DEF RowFacts
  <2>10. WorkerHolds => WorkerHolds'
    BY <2>0 DEF WorkerHolds, Up
  <2> QED BY <2>1, <2>2, <2>3, <2>4, <2>5, <2>6, <2>7, <2>8, <2>9, <2>10, Zenon DEF Base
<1>2. CASE ~(Up /\ coord.env = e)
  <2>0. /\ gone' = gone \union {e}
        /\ \A u \in Task : work'[u] = IF work[u] = e THEN NoEnv ELSE work[u]
        /\ UNCHANGED <<state, cleanup, leases, gpus, coord, pump, snapshot, inflight, exec, cards>>
    BY <1>2, Zenon DEF LoseEnv, volatile, durable
  <2>1. LaneUnique' /\ DownIsQuiet' /\ InflightIsExec' /\ ExecHolds'
    BY <2>0, Frames, Zenon
  <2>2. OneEnv'
    BY <2>0, NoEnvStays, <1>2, <1>e, Zenon DEF OneEnv, Up
  <2>3. AdmittedHolds'
    BY <2>0, PumpNamesTask, Zenon DEF AdmittedHolds
  <2>4. SnapshotIsIdle'
    BY <2>0, SnapshotOfTasks, Zenon DEF SnapshotIsIdle
  <2>5. StageFacts'
    BY <2>0, Zenon DEF StageFacts
  <2>6. RowFacts'
    BY <2>0, Zenon DEF RowFacts
  <2>7. WorkerHolds => WorkerHolds'
    BY <2>0 DEF WorkerHolds, Up
  <2> QED BY <2>1, <2>2, <2>3, <2>4, <2>5, <2>6, <2>7, Zenon DEF Base
<1> QED BY <1>1, <1>2, Zenon

\* ConfirmScopeGone keeps the inductive invariant.
LEMMA ConfirmScopeGoneKeeps ==
    ASSUME Base, TypeOK', NEW e \in Env, ConfirmScopeGone(e)
    PROVE  Base' /\ (WorkerHolds => WorkerHolds')
<1> USE DEF Base
<1> DEFINE ts == {r.holder : r \in {q \in leases : q.env = e}}
<1>1. ts \in SUBSET Task
  BY Typed DEF Row, Task
<1>2. ASSUME WorkerHolds, NEW t \in ts PROVE work[t] = NoEnv
  <2>1. PICK r \in leases : r.holder = t /\ r.env = e
    BY Zenon
  <2>2. t \in Task /\ e \in gone
    BY <1>1, Zenon DEF ConfirmScopeGone
  <2> QED BY <1>2, <2>1, <2>2, Zenon DEF WorkerHolds, OneEnv
<1> QED BY <1>1, <1>2, ConfirmKeepsInv, Zenon DEF ConfirmScopeGone

\* Boot keeps the inductive invariant.
LEMMA BootKeeps ==
    ASSUME Base, TypeOK', NEW e \in Env, NEW p \in Pid, Boot(e, p)
    PROVE  Base' /\ (WorkerHolds => WorkerHolds')
<1> USE DEF Base
<1>0. /\ coord = NoCoord
      /\ coord' # NoCoord
      /\ coord'.env = e /\ coord'.pid = p
      /\ e \notin gone
      /\ \A r \in leases : r.env = e
      /\ \A u \in Task : work'[u] = NoEnv \/ work'[u] = work[u]
      /\ UNCHANGED <<state, cleanup, leases, gpus, pump, snapshot, inflight, exec, cards, gone>>
  BY Typed, DispatchAssumption
     DEF Boot, Up, ResumeSafe, durable, volatile, world, counts
<1>1. LaneUnique' /\ InflightIsExec'
  BY <1>0, Frames, Zenon
<1>2. DownIsQuiet'
  BY <1>0, Zenon DEF DownIsQuiet, Up
<1>3. OneEnv'
  BY <1>0, NoEnvStays, Zenon DEF OneEnv, Up
<1>4. AdmittedHolds'
  BY <1>0, PumpNamesTask, Zenon DEF AdmittedHolds, DownIsQuiet, Up
<1>5. SnapshotIsIdle'
  BY <1>0, SnapshotOfTasks, Zenon DEF SnapshotIsIdle, DownIsQuiet, Up
<1>6. ExecHolds'
  BY <1>0, Zenon DEF ExecHolds, DownIsQuiet, Up
<1>7. StageFacts'
  BY <1>0, Zenon DEF StageFacts, DownIsQuiet, Up
<1>8. RowFacts'
  BY <1>0, Zenon DEF RowFacts
<1>9. WorkerHolds => WorkerHolds'
  BY <1>0, Zenon DEF WorkerHolds, DownIsQuiet, Up
<1> QED BY <1>1, <1>2, <1>3, <1>4, <1>5, <1>6, <1>7, <1>8, <1>9, Zenon DEF Base

\* WorkerExits keeps the inductive invariant.
LEMMA WorkerExitsKeeps ==
    ASSUME Base, TypeOK', NEW t \in Task, WorkerExits(t)
    PROVE  Base' /\ (WorkerHolds => WorkerHolds')
<1> USE DEF Base
<1>0. /\ exec[t].at \notin {"working", "releasing"}
      /\ work'[t] = NoEnv
      /\ \A u \in Task : u # t => work'[u] = work[u]
      /\ UNCHANGED <<state, cleanup, leases, gpus, coord, pump, snapshot, inflight, exec, cards, gone>>
  BY Typed, Zenon DEF WorkerExits, durable, volatile, world, counts
<1>1. LaneUnique' /\ DownIsQuiet' /\ InflightIsExec' /\ ExecHolds'
  BY <1>0, Frames, Zenon
<1>2. OneEnv'
  BY <1>0, NoEnvStays, Zenon DEF OneEnv, Up
<1>3. AdmittedHolds'
  BY <1>0, PumpNamesTask, Zenon DEF AdmittedHolds
<1>4. SnapshotIsIdle'
  BY <1>0, SnapshotOfTasks, Zenon DEF SnapshotIsIdle
<1>5. StageFacts'
  BY <1>0, Zenon DEF StageFacts
<1>6. RowFacts'
  BY <1>0, Zenon DEF RowFacts
<1>7. WorkerHolds => WorkerHolds'
  BY <1>0 DEF WorkerHolds, Up
<1> QED BY <1>1, <1>2, <1>3, <1>4, <1>5, <1>6, <1>7, Zenon DEF Base

\* ConfirmTaskStopped keeps the inductive invariant.
LEMMA ConfirmTaskStoppedKeeps ==
    ASSUME Base, TypeOK', NEW t \in Task, ConfirmTaskStopped(t)
    PROVE  Base' /\ (WorkerHolds => WorkerHolds')
<1>1. {t} \in SUBSET Task /\ ~Up /\ Confirm({t}) /\ \A u \in {t} : work[u] = NoEnv
  BY Zenon DEF ConfirmTaskStopped
<1> QED BY <1>1, ConfirmKeepsInv, Zenon

=============================================================================
