# Formal model of the Hyperloom session coordinator

Hyperloom optimises an inference deployment by running long sessions. A
coordinator process dispatches benchmarks, profiling runs, kernel work and
specialist agents, keeps what it knows in `coordinator.db` (SQLite) and in
`SharedState` (a JSON file), and is expected to survive crashes, lost
containers and operators who restart it.

These modules model the part of it where a mistake is expensive and a test is
weak: who may use the machine when, what a crash leaves behind, how a combo that
does not boot is brought up by rounds of authored patches, how a proposal gets its
one verdict, and how a session moves through its phases to a clean end. Source paths
below are relative to `src/src/hyperloom/orchestrator/` unless they begin with
`src/`.

## 1. Inventory

| Part | State | Operations that change it | Modelled in |
|---|---|---|---|
| Lane leases, `bus/resource_lock.py` | rows (lane, holder, PID, environment), capacities, conflicts | `acquire_many`, `release`, `reap_dead_holders`, `hold_round_lane`, `drop_round_lane` | `LaneLeases`, `RoundStore` |
| GPU pool, `bus/gpu_pool.py` | rows (card, holder), Ray slots | `try_acquire`, `release`, `release_execution` | `GpuPool` |
| Task registry, `state/task_registry.py` | one row per task: state, outcome history | create, claim, terminal write, cancels, `reclaim_dead_running` | `SessionDispatch` |
| Dispatcher, `loop/dispatcher.py` | in-flight tasks, completion queue, accounted failures | the pump: drain, reclaim, reap, scan, admit, spawn; `reap_dispatched_task` | `SessionDispatch` |
| Sub-agent runner, `loop/sub_agent_runner.py` | the execution of one task | claim, deny, run, settle, release | `SessionDispatch` |
| CLOSE sequencer, `phases/close.py` | its own task and the wait for it | run, time out, abandon | `SessionDispatch`; when it runs: `PhaseMachine` |
| Resume guard, `src/src/hyperloom/inference_optimizer/session/resume_guard.py` | reads all tables | refuse or allow a resume, operator confirmation | `SessionDispatch` |
| Round store, `state/round_store.py` | rounds (state, outcome, holder, fence), their lane row | open, renew, handoff, settle | `RoundStore`, `RoundClients` |
| Enablement lane, `enablement/lane.py` | success, window, origin | pump, handoff, settle, re-arm, stop at the cap | `BringupLane` |
| Revalidation, `enablement/revalidation.py` | window, generation, tracked row | enqueue past spent generations | `BringupLane` |
| Reconciler, `bringup/reconcile.py` | none of its own | fail dead tasks, time out reviews, advance or expire rounds, close stale windows | `BringupLane` |
| Baseline accounting, `loop/_baseline_promotion.py`, `loop/_baseline_failures.py`, `loop/_dead_holder.py` | anchor, failure counts | promote, fail, reopen, charge | `BringupLane` |
| Resume recovery, `loop/_resume_*.py` | | replay the log, recover a pending revalidation, pending proposals, an unfinished KERNEL phase | `BringupLane`, `ReviewDesk`, `PhaseMachine` |
| Proposals and verdicts, `loop/proposals.py`, `loop/intent_router.py`, `loop/verdicts.py` | pending proposals, tasks made of approved ones | propose, review, collapse the verdicts of a grid, time out, materialise, replay after a restart | `ReviewDesk`; what a verdict on an enablement patch does to the lane: `BringupLane` |
| Message bus and agent turns, `bus/message_bus.py`, `bus/cursor_store.py`, `bus/db_maintenance.py`, `loop/conversation.py` | event log, a cursor per agent, what the last prompt showed | append, read, advance, prune; a turn that fails, is cut short or says nothing | `EventBus`, `ReviewDesk` |
| Phase machine, `phases/machine.py`, `machine_state.py`, `exit_predicates.py`, `prelude_exits.py`, `sweep.py`, `close.py` | phase, cycle, hint, stop, closing phase, pending transition | decide, drain, commit, enter, loop back, route to CLOSE, reopen on resume | `PhaseMachine` |
| Delivery ledger, `delivery/ledger.py` | published results | record | not modelled (section 8) |
| Executors, roles, prompts, knowledge, analysis, companion packages | | | not modelled (section 8) |

How the parts interact. A tick of the coordinator (`loop/coordinator.py`,
`_tick_once`) runs, in order: the reconciler, the phase, the reactor turns that
deliver verdicts, the dispatcher's pump (reclaim, drain, spawn), the phase pump,
the enablement pumps, maintenance. All of that is one asyncio coroutine. Every
execution is another one, so executions start, finish and give lanes back
between any two awaits of the tick. A crash can fall between any two
transactions, and the database, not memory, is what the next process sees.

The behaviours that are hard to test are listed as `hazards` in `PROJECT.json`,
each at its line and with the properties that would catch it.

## 2. Modules

`LaneLeases`, `GpuPool`
: The two lease tables as operators on sets of rows and on a function from cards
to holders. No variables, so that the dispatch core and its proofs share them.

`SessionDispatch`
: The dispatch core. Durable: `state`, `cleanup`, `leases`, `gpus`. The process:
`coord` (who holds the session lock), `pump` (where the pass over the queue is),
`snapshot` and `view` (what that pass read), `inflight`, `exec`, `completions`,
`dead`, `accounted`. The world: `work` and `cards` (where workers really run, and on
what), `gone` environments. An action is one transaction with the code up to the
next await. `delivered` and `counted` are history variables.

`WorkAdmission`
: What the dispatch core promises: a set of workers in use, which grows only by a
worker whose lanes conflict with nobody's.

`RoundStore`, `RoundClients`
: The bring-up round with its compare-and-swap, and callers that act on snapshots
they took earlier. `StoreSpec` is the store as its callers may drive it, one
transaction at a time; `RoundClients` and `BringupLane` both implement it.

`BringupLane`
: The lane on top of the round store: specialists, integrates of their patches,
launch probes, revalidations, the reconciler, saves and restarts. A handler that
writes twice is two steps, with `todo` naming the write still owed, so a crash can
fall between them. `lane` is the memory copy of `SharedState.enablement` and `disk`
the saved one. `overdue` holds the results that were waiting when the tick began:
the pumps follow the dispatcher's drain, so they act only when it is empty.
`keepGen` is a history variable.

`EventBus`
: The event log with its sequence numbers, the cursor of each agent, what an agent
has not read, and the retention pass. Operators and actions over three variables,
used by `ReviewDesk`.

`ReviewDesk`
: Proposals under review. `tick` says whose step it is (repair, a turn of each agent,
upkeep), `turn` what the turn has in hand; a turn is one step per write that a crash,
a failing handler or the turn's time limit can fall behind. `pending` and `rendered`
are memory, lost at a crash; the log, the cursors and `tasks` are durable. `raised`,
`ruling` and `decisions` are history variables.

`ReviewPromise`
: What a review promises its users: a proposal is raised, decided once, and work
starts from it at most once, on the variants the decision let through.

`PhaseMachine`
: The tick loop as far as it decides the phase. `pc` names the step of the tick (the
two calls of the machine, the drain of a pending transition, the entry of a phase,
the agents, the pump, the checks at the end of a tick, the close sequence); `mem` is
`SharedState` in memory and `disk` the saved copy; `rows` are the task rows by kind
and cycle, with the gap between a row that is terminal and its completion that is
queued. Writes may fail at each point where the code catches it, and a process may
die between any two steps. What a phase measures is left open: an exit predicate
that reads gains, plateaus or shares of the budget may or may not hold.

`MC*`
: Instances for TLC.

`SessionDispatchTypes`, `SessionDispatchInvariant`, `SessionDispatchProofs`,
`SessionDispatchPromises`, `RoundClientsProofs`, `BringupLaneProofs`,
`ReviewDeskProofs`, `PhaseMachineProofs`
: The theorems and their lemmas.

Operators named as mutants of another definition (their comments say so, or they
stand just before it with the same parameters) are never used by `Next`. Each is a
plausible slip in the code and shows that a property would notice it.

## 3. What the runs check

All runs say `CHECK_DEADLOCK FALSE`: a session may stop (a coordinator that nobody
restarts, a queue that is empty), so a state without successors is not an error.

| Run | Instance | Shows |
|---|---|---|
| `crash` | `SessionDispatch`: a task the CLOSE sequencer runs and a task on a card, whose lanes conflict; two environments (one without a readable owner scope), two PIDs, two starts | `ExclusiveUse`: no two live workers share an exclusive lane, through crashes, lost environments, PID reuse, dead-holder reaping, abandoned waits and operator recovery, unless a row records that a cleanup is unconfirmed. `RunningKeepsLanes`, `WithinCapacity`, `CountedOnce`, `TerminalIsFinal`, `RecordBeforeLanes`. `AdmissionPromise`: the core implements `WorkAdmission`. |
| `ray` | three tasks, GPU specialists as Ray actors, one task without lanes, one start | `ExclusiveUse` although the slot goes back without a confirmed exit; `CountedOnce` although the task without lanes can be dispatched twice from a stale list |
| `liveness` | two tasks that want the same card and conflicting lanes, one environment, two starts, `FairSpec` | `CardExclusive`: the card never has two live workers, although an unconfirmed cleanup gives the lanes back and not the card. `QueueDrains`, `DeadRowsFailed`, `OrphanLanesFreed`, `CompletionsBooked` |
| `rounds` | `RoundClients`: two rounds, two tasks, two callers, fences up to 3 | `OneOwnerOneLane`, `FenceNamesHolder`, `StaleCallerChangesNothing`, `SettledIsFinal` |
| `lane` | `BringupLane`: two authoring rounds, a foreign patch, one revalidation, one cleanup that cannot be confirmed, one restart | `RoundStaysWithItsWork`, `QueuedSpecialistHolds` |
| `window` | one authoring round, a launch probe, baselines of other origin, two generations, one restart, `FairSpec` | `WindowBarsAuthoring`, `PassedRevalidationCredited`, `HeldRoundEnds`, `WindowCloses` |
| `review` | `ReviewDesk`: a proposal of the orchestration agent and one of the coordinator, grids of two variants, two possible reviews, one fault (a failed, idle or cut-short turn, a failing handler, a lost reply, a crash), retention of one row, prompts of one line, `FairSpec` | `DecidedOnce`, `UndecidedKept`, `OfferedStillOpen`: no restart, replay or retention pass decides a proposal twice, loses one that waits or offers one that is decided. `OneGoodVariantCarries`, `NothingSkipped`. `ReviewPromised`: the desk implements `ReviewPromise`. `EveryProposalDecided`, `InboxDrains` |
| `phases` | `PhaseMachine`: the full chain, and sweeping a baseline with the bring-up lane; two macro-cycles, two processes, a crash at any step, one outside event (a failed write, a stop, a spent budget, the deadline, a hint, a reached objective), `FairSpec` | `EndedLegIsClosed`: however a process leaves its loop, the saved session is one that a resume reopens as the next cycle. `HintSpeaksForItsPhase`, `OnlyAdmittedRuns`. `TransitionCommits`, `SweepSettles`, `PreludeLeft`, `ReportStarted`: no drain, phase or closing phase waits for what will not come |

The state spaces: `crash` 270,544, `liveness` 28,642, `window` 382,997, `review`
283,201 and `phases` 311,319 distinct states; `lane` has 1.3 million before symmetry.

Four runs end in a violation, each showing that a sentence of the repository says
more than the code does:

| Run | The sentence | What happens |
|---|---|---|
| `redispatch` | `loop/dispatcher.py:667`: "a task is never dispatched twice across pump calls" | A task denied by the policy gate leaves `_inflight_actions` while a pass still holds its queued row; it is spawned, denied and published again. Its result still counts once (`CountedOnce`). |
| `abandoned` | `phases/close.py:169`: "so nothing dispatches or promotes it later" | The execution CLOSE stopped waiting for is shielded; it finishes and promotes its result although its row was settled as failed. The row itself stays failed (`TerminalIsFinal`). |
| `stalls` | `enablement/lane.py:810`: "A stall settles only the round it was dispatched for" | A Critic reject re-arms the lane without naming a specialist, so the reject of an old proposal settles the newer round as failed and spends an attempt. |
| `keeps` | `enablement/lane.py:688`: "every KEEP is validated against a real measurement" | A second keep (a launch probe's) is booked while the revalidation of the first runs; that revalidation is recognised by its reason, closes the window, and the second keep is never measured. |

## 4. Bounds

* Two tasks that conflict are enough for every pairwise property of the dispatch
  core; a third one is added where the case needs it (`ray`). Two starts give one
  coordinator that died and one that recovers; two environments give a lost one and
  a foreign one; two PIDs give reuse. The proofs of section 6 remove these bounds
  for the properties they cover.
* `MaxFence` 3 lets a round be handed on and come back to its first holder, which is
  the case the fence exists for.
* `MaxGen` 2 lets one generation be spent by a crash and the next be used; with one,
  the generation scan never moves. `lane` uses 1 and spends the space on a second
  authoring round instead.
* `MaxCrash` 1: a second restart starts from a state the first could also have left.
* `MaxLinger` bounds tasks whose cleanup is never confirmed; `Cap` 1 makes the
  attempts cap bite after one failed round.
* `ray` has one start: Ray actors end with the driver that started them, so a second
  coordinator meets no worker of the first. The theorems under `RaySpec` (section 6) state
  just that and allow any number of starts.
* `review`: `KeepRecent` 1 makes retention delete all it may; `Budget` 1 makes a prompt
  too small for the inbox; two proposals are needed for one to keep the other out of a
  prompt; the two reviews let one variant through and none. `MaxFaults` 1 puts one fault
  at any point.
* `phases`: `MaxCycle` 1 and `MaxLeg` 2 give a loop back, a resume and a reopened
  session; `MaxEvent` 1 puts one outside event at any point, crashes not counted.
* Symmetry (`rounds`, `lane`, `stalls`, `keeps`) permutes only identities the
  specification never tells apart, and is not used where liveness is checked.

## 5. Fairness

`SessionDispatch!FairSpec`: a pass over the queue never waits on running work, so it
goes on; each tick repairs, books and scans again, so what a tick does is strongly
fair; an executor is bounded by its wall budget and its settlement is a few
transactions. Nothing makes a coordinator start, an operator act or an environment
last. Two assumptions are made only here: a new coordinator does not get the PID that
a dead one's row in the same environment still carries (`FreshPid`), and the reclaim
that precedes each reap does not fail (`ReclaimFirst`; its errors are swallowed, and
then a running row without lanes is never reclaimed).

`BringupLane!FairSpec`: weak fairness of one disjunction, everything the tick and the
executions do together with the review timeout. Critics, foreign specialists, builds,
other baselines and crashes owe nothing.

`ReviewDesk!FairSpec`: weak fairness of what the tick does when nothing goes wrong, the
restart of a coordinator that went down included, and strong fairness of the review
timeout of each proposal, whose clock runs whatever the agents do. No agent owes an
answer and no proposal has to be raised.

`PhaseMachine!FairSpec`: weak fairness of the coordinator's steps and, separately, of
running executions, which are bounded by their wall budgets. The clock, signals, hints,
failed writes and restarts are not fair.

## 6. What is proved

The proofs hold for any sets of tasks, lanes, cards, environments, PIDs, rounds, callers,
specialists, proposals, answers and phase toggles, and any bounds.

Assumptions on the constants: `LaneAssumption`, `DispatchAssumption` (tables are
functions of the right type, holders are finitely many, the null values are not
members), `NoTaskIsNone`, `MaxFenceIsPositive`, `KindsDiffer` (task ids tell the kinds of
task apart), `AuthorsRaise`, `AnswersRule`, `SomeVariant`, `NoProposalIsNone`, `RoomForOne`,
`KeepRecentIsPositive` and `BoundsAreNat`.

`SessionDispatchTypes`: `TypeCorrect`.

`SessionDispatchProofs`: `LanesSerialiseWork`, `CardsAreExclusive`, `LanesStay`.
`ExclusiveUse` speaks of workers, while the code only ever looks at rows, so it is not
inductive: the invariant has to tie each live worker to the rows that stand for it. `IInv`
is `Base` and `WorkerHolds`:

* `LaneUnique`: an exclusive lane has rows of one holder;
* `WorkerHolds`: all lanes of a live worker are recorded, for its environment, and
  under the coordinator's own PID if the coordinator runs there, which is why neither
  the reaper nor an operator's confirmation of another scope can free them;
* `ExecHolds`, `AdmittedHolds`: the same for an execution and for the task the pump is
  admitting, before the worker exists;
* `SnapshotIsIdle`: a queued row the pass has still to consider has no worker outside
  `_inflight_actions`, which is why the pass may use a list it read earlier;
* `StageFacts`, `RowFacts`, `DownIsQuiet`, `InflightIsExec`, `OneEnv`: what the stage
  of an execution says about its row, its cleanup evidence and its worker.

`Base` holds in any mode (`BaseHolds`). `WorkerHolds` does too unless GPU specialists are
Ray actors and one of them outlives its coordinator: the slot of an actor is given back
without a confirmed exit, so the rows of a dead coordinator can be reaped while it lives.
Ray ends the actors of a driver that died (they are not detached), and `RaySpec` states
that as an assumption on the steps that start a coordinator (`NoActorLeft`). Under it
`Inductive` covers Ray sessions, with `LanesSerialiseActors` and `ActorLanesStay` as the
counterparts of the theorems above; the latter are stated for `Spec` and sessions without
Ray, where nothing has to be assumed.

Three more theorems need no more than `Base` and hold in every mode: `CapacityRespected`;
`LanesAreOwn`, that the lane rows of a task in the coordinator's hands name that
coordinator, and lie on lanes the task asks for; and from it `RecordedBeforeLanes`. The
runner releases after its write, but the pump, the reaper and the operator also free
lanes; that none of them frees those of an execution is what `LanesAreOwn` is for.

`SessionDispatchPromises`: `TerminalRowsAreFinal`, `ResultsCountOnce` and the refinement.
`CountedOnce` is about four places a result passes through (the execution, the completion
queue, the list of dead holders, the count), and all but the count are lost at a crash. The
invariant `Ledger` says that a result is in one place at most, and that once it left the
execution its row is terminal, so that no second claim brings another; a second dispatch
of the same row ends cancelled and is not counted. `ImplementsAdmission` (without Ray)
and `ActorsImplementAdmission` (`RaySpec`): every step of the dispatch core begins one
admissible task, ends some, or leaves the set of workers in use alone.

`RoundClientsProofs`: `OneOwner`, `FencesName`, `StaleCallersRefused`,
`SettledRoundsAreFinal`. Here `IInv` adds to the properties that an open round has a
holder, that a caller keeps one snapshot, that a snapshot's fence is at most the
round's and names its holder when they are equal (`SnapshotsTrail`), and that the
settle order lists exactly the settled rounds, each once (`OrderListsSettled`).
`ClientsImplementStore`: however old the snapshots are, the store only does what it would
do for callers that read and write in one transaction (`StoreSpec`), since a snapshot the
compare-and-swap accepts is the round as it stands.

`BringupLaneProofs`: `RoundsStayWithTheirWork`, `QueuedSpecialistsHold`,
`WindowsBarAuthoring`. None of the three is inductive. `IInv` adds that at most one round
is held (`OneHeld`, so that a settle of "the held round" leaves none), that a result, a
proposal and a handoff still owed come from a task that has ended (`EndedFirst`, `Owed`;
hence a handoff or an expiry never takes a round from a specialist that waits), and
`Barred`: an open window bars authoring whether it is open in memory or only on disk,
since a crash brings the saved one back. The steps fall into four kinds, each with one
lemma: rounds left alone (`SameStep`), the held round settled (`SettleStep`), a handoff
(`HandoffStep`), a round opened (`OpenStep`). On top of `IInv`:

* `PassesAreCredited`, with the invariant `Unbooked`: a row that was failed for a dead
  process has no result waiting, so the charge for it never closes the window over a pass
  of the same row.
* `LaneImplementsStore`: every step of the lane is at most one transaction of the store.
  From it `LaneHasOneOwner` and `SettledRoundsStay` carry the store's promises over to the
  whole lane, crashes and resumes included.
* Two theorems give the scope of two findings of section 3. `StallsByName`: an authoring
  round is ended as failed only by the integrate of its own patch, by a launch probe or by a
  rejected verdict, so the verdict and the probe, which name no specialist, are the only
  ways a stall can charge somebody else's round. `WindowsTrackNewestKeep`: until a crash,
  the revalidation a window *tracks* is that of the newest keep or a later one, so the keep
  that is never measured is always lost to another revalidation that closes the window.

`ReviewDeskProofs`: `TypeCorrect`, `OneDecision`, `OpenProposalsKept`, `OffersAreOpen`,
`GoodVariantCarries` and the refinement `KeepsPromise`. The code finds out whether a
proposal is decided by looking for its verdict in a log that retention shortens, so
`DecidedOnce` rests on `LogOK`: a verdict is younger than its proposal, hence retention
deletes a decided proposal no later than its verdict, and a proposal that is still in the
log is seen to be decided. `BookOK` relates the log to the history, `TurnOK` says what is
in the hand of a turn at each of its stages. `CursorsSkipNothing` adds `ReadOK`: during a
turn, the unread rows up to the one its cursor will be set to are in its prompt. It holds
because every prompt notes anew what it showed, oldest rows first, and because the log only
grows at its end.

`PhaseMachineProofs`: `TypeCorrect`, `LegsEndClosed`, `HintsStayHome`, `PhasesRunTheirOwn`.
`IInv` adds `AtStep` (what is known at each step of a tick, for instance that only
FRAMEWORK has a transition that a hint decided), `Told` (memory and disk agree with
themselves: a close sequence that has run means CLOSE, and a hint outside PRELUDE names
the phase and cycle it is in) and `Kept` (as long as no write has failed, memory and disk
are in the same phase, and what waits or runs is what that phase admits). Disk has to
be part of each, because a crash puts it back into memory.

The inductive invariants of `SessionDispatch`, `BringupLane`, `ReviewDesk` and
`PhaseMachine` were checked with TLC on small instances before they were proved.

## 7. What is only model-checked

Liveness under fairness (`QueueDrains`, `DeadRowsFailed`, `OrphanLanesFreed`,
`CompletionsBooked`, `HeldRoundEnds`, `WindowCloses`, `EveryProposalDecided`, `InboxDrains`,
`TransitionCommits`, `SweepSettles`, `PreludeLeft`, `ReportStarted`) is outside what the
proof system handles. The four violated properties of section 3 are what TLC refutes.
Every other property of a run, invariant, action property or refinement, is also a theorem.
`TypeOK` of `ReviewDesk` and of `PhaseMachine` is proved and not an
invariant of a run; `TypeOK` of `BringupLane` documents the shape of its variables, of which
the proof uses the part it calls `Shape`.

## 8. Assumptions and what is left out

Dispatch core:

* The boot reaper stops the local workers its pidfiles name, except one that already
  resisted its own teardown.
* Lease expiry times are left out: a lease goes by release, reap or confirmation.
  `ConfirmScopeGone` therefore does not wait for the leases of other scopes.
* The order in which a pass considers queued rows is arbitrary. Database errors while
  booking, owner scopes of the older two-part form, and a PID reused by an unrelated
  program are left out.

Bring-up lane:

* Lease times and renewals of rounds are stuttering steps; the outbox of attempts is an
  audit log nothing reads back. TTLs and caps are nondeterministic moments; the cap on
  a terminal holder (300 s) spans ticks, so the holder's result is booked before it.
* A handler of the lane runs on the tick coroutine alone, so its reads are not stale;
  `RoundClients` drops that assumption for the store itself.
* Argv repair, environment terminals, recovery of orphaned keeps and the requeue of a
  policy-denied integrate are not modelled. A build is external; its launch probe is a
  task that may appear once.
* `OtherBaselines` says whether baselines of another origin report meanwhile.

Reviews:

* A row of the log keeps its topic, sender, addressee and the proposal it is about. The
  row limit of a replay is left out: a prompt holds far fewer lines.
* The holds on a verdict, the content key that makes equal tasks one, and intents other
  than proposals and verdicts are not modelled. The Critic may also rule on a proposal
  nobody knows.
* The review timeout is a nondeterministic moment of the reconciler's pass.

Phases:

* Tasks are told apart by kind and cycle. The measurements exit predicates read are left
  open, and so is the moment a budget is spent. The soft restart of a cycle, the retry wait
  of the backends and the closing of undecided proposals at the end are not modelled. The
  close sequence is one step; the ledger it writes is a file that nothing modelled reads.
* `OnlyAdmittedRuns` is stated for phases past PRELUDE and allows an initial analysis: the
  next paragraph says why.

Known limits of the code that no property covers, because none holds:

* `phases/sweep.py:268`: a stop leaves a queued sweep in the store, the resume opens the
  next cycle over that queue, and the old sweep settles the new cycle's SWEEP.
* `phases/machine.py:485`: a row is terminal before its completion is queued; a drain that
  looks in between commits, and the result is booked in the next phase.
* `loop/dispatcher.py:446`: after a failed reclaim the reap removes the lanes by which a
  dead running row is recognised, and the row is never reclaimed (`ReclaimFirst`).

Behaviour that is modelled, or was read with the models, and is a choice of the code rather
than something a property decides: the guard refuses every resume after a crash that left a
GPU lease until an operator acts (`resume_guard.py:117`); a failed write in the entry of
SWEEP leaves it to its budget (`phases/machine.py:297`, excluded from `SweepSettles` by
`failed`); the attempts cap counts failed rounds only (`state/round_store.py:416`); the
failed eval of another baseline closes a revalidation window
(`loop/_baseline_failures.py:107`, allowed by `PassedRevalidationCredited`); leases that
linger keep a round open (`bringup/reconcile.py:405`, allowed by `HeldRoundEnds`); a crash
between booking a passed revalidation and the save loses the pass
(`loop/_resume_recovery.py:416`); a crash between a verdict and its task leaves the granted
proposal without one (`loop/proposals.py:382`); retention does not look at cursors
(`bus/db_maintenance.py:49`, so `InboxDrains` counts a deleted message as gone).

Not modelled at all: action executors (they run servers, benchmarks, profilers and
compilers; the model sees start, end and outcome), the delivery ledger, policy, predictor and scoring (pure
functions of measurements), roles, prompts and conversation (text), knowledge, kernel
work, trace analysis, measurement and rehearsal (data), the launcher, benchmark drivers,
containers and adapters (`src/src/hyperloom/` beside the orchestrator), and the companion
packages, which are programs of their own.

## 9. Plan

1. CLOSE and the delivery ledger: the steps of the close sequence one by one, and the result
   of a session delivered at most once.
2. Composition of the lane with the dispatch core: a round's holder as a task row with
   lanes, so that `lingering` and `dead` are derived instead of chosen.
