----------------------------- MODULE PhaseMachine -----------------------------
(***************************************************************************)
(* The coordinator's tick loop as far as it decides which phase a session  *)
(* is in: the phase machine (phases/machine.py), the predicates it asks    *)
(* (phases/machine_state.py, exit_predicates.py, prelude_exits.py), the    *)
(* SWEEP and CLOSE handlers, the pump's part in a transition, the closing  *)
(* phase, and the resume that reopens a closed session.                    *)
(*                                                                         *)
(* A tick is a sequence of steps named by pc, each as long as the code runs *)
(* between two awaits that matter; executions, clocks and signals move in  *)
(* between.  The shared state is `mem`, the state file is `disk`.          *)
(***************************************************************************)
EXTENDS Integers, FiniteSets

CONSTANTS
    RunFlags,    \* the run's phase toggles that are considered
    MaxCycle,    \* bound: macro-cycles after the first
    MaxLeg,      \* bound: processes the session runs in
    MaxEvent     \* bound: outside events that bear on the loop

ASSUME BoundsAreNat == MaxCycle \in Nat /\ MaxLeg \in Nat /\ MaxEvent \in Nat

VARIABLES
    flags,     \* phase toggles of this run
    mem,       \* SharedState: what the phase machine reads and writes of it
    disk,      \* the saved SharedState
    rows,      \* task rows that are queued, running, or not booked yet
    proposals, \* kinds proposed and awaiting the Critic; rebuilt from the event log
    pc,        \* where the coordinator stands in its tick; "down" without a process
    stage,     \* which of the tick's two advance calls this is
    move,      \* the transition the machine has decided on
    frozen,    \* Dispatcher.admission_frozen
    checked,   \* SweepPhase._resume_checked
    leg,       \* processes started
    clock,     \* 0 open, 1 too little left for work, 2 deadline, 3 closing grace gone
    spent,     \* the phase's own budget is used up
    asked,     \* a stop was requested: signal or request file
    failed,    \* a write of a tick has failed
    events     \* outside events so far: failed writes, hints, clocks, stop requests

vars == <<flags, mem, disk, rows, proposals, pc, stage, move, frozen, checked, leg,
          clock, spent, asked, failed, events>>
world == <<flags, proposals, leg, clock, asked>>
happened == <<failed, events>>

Phase == {"", "PRELUDE", "ENABLEMENT", "FRAMEWORK", "KERNEL", "SWEEP", "CLOSE"}
Kind == {"baseline", "replay_warm_recipe", "roofline", "explore", "kernel_agent",
         "conc_sweep", "report"}

\* PHASE_ALLOWED_ACTIONS on the kinds that are told apart here.
PHASE_ALLOWED_ACTIONS ==
    [p \in Phase |-> CASE p = "PRELUDE" -> {"baseline", "roofline", "replay_warm_recipe"}
                       [] p = "ENABLEMENT" -> {"baseline", "roofline"}
                       [] p = "FRAMEWORK" -> {"explore", "roofline"}
                       [] p = "KERNEL" -> {"kernel_agent", "roofline"}
                       [] p = "SWEEP" -> {"conc_sweep"}
                       [] p = "CLOSE" -> {"report"}
                       [] p = "" -> {}]

\* A row with the phase and the cycle that created it.  queued and running are the
\* row's states; an ended row is terminal and its result not queued yet; an unbooked one
\* waits in the completion queue.
Row == [kind : Kind, born : Phase, cycle : Nat,
        at : {"queued", "running", "ended", "unbooked"}]
Live(rs, k) == {r \in rs : r.kind = k /\ r.at \in {"queued", "running"}}
At(rs, a) == {r \in rs : r.at = a}

\* A pending hint, with the phase and cycle it was emitted in.
Hint == [says : {"", "skip_to_kernel", "skip_to_sweep"}, at : Phase \X Nat]
NoHint == [says |-> "", at |-> <<"", 0>>]

\* A cold anchor is a baseline whose measure round was dropped.  legFailed says that
\* baseline_failures_this_leg is not zero, warm that a warm replay is in flight.  sweep
\* is the status of last_conc_sweep, sweepOf the cycle whose sweep wrote it.
Shared == [phase : Phase, cycle : Nat, hint : Hint,
           stop : BOOLEAN, closing : BOOLEAN, done : BOOLEAN, target : BOOLEAN,
           anchor : {"", "cold", "hot"}, failures : Nat, legFailed : BOOLEAN,
           warm : BOOLEAN, pending : BOOLEAN, sweep : {"", "ok", "failed"}, sweepOf : Nat]

Move == [to : Phase, terminal : BOOLEAN, hint : BOOLEAN, loop : BOOLEAN, unsaved : BOOLEAN]
Stay == [to |-> "", terminal |-> FALSE, hint |-> FALSE, loop |-> FALSE, unsaved |-> FALSE]
To(p) == [Stay EXCEPT !.to = p]
Ending == [Stay EXCEPT !.to = "CLOSE", !.terminal = TRUE]

TypeOK ==
    /\ flags \in RunFlags
    /\ mem \in Shared
    /\ disk \in Shared
    /\ rows \subseteq Row
    /\ proposals \subseteq Kind
    /\ pc \in {"down", "init", "decide", "drain", "enter", "react", "pump", "check",
               "sequence", "exit"}
    /\ stage \in {"pre", "post", "end"}
    /\ move \in Move
    /\ frozen \in BOOLEAN /\ checked \in BOOLEAN /\ spent \in BOOLEAN /\ asked \in BOOLEAN
    /\ leg \in 0..MaxLeg /\ clock \in 0..3 /\ failed \in BOOLEAN /\ events \in 0..MaxEvent

Init ==
    /\ flags \in RunFlags
    /\ mem = [phase |-> "", cycle |-> 0, hint |-> NoHint, stop |-> FALSE, closing |-> FALSE,
              done |-> FALSE, target |-> FALSE, anchor |-> "", failures |-> 0,
              legFailed |-> FALSE, warm |-> FALSE, pending |-> FALSE, sweep |-> "", sweepOf |-> 0]
    /\ disk = mem
    /\ rows = {} /\ proposals = {} /\ pc = "down" /\ stage = "pre" /\ move = Stay
    /\ frozen = FALSE /\ checked = FALSE /\ leg = 0 /\ clock = 0 /\ spent = FALSE
    /\ asked = FALSE /\ failed = FALSE /\ events = 0

Event == events < MaxEvent /\ events' = events + 1
WriteFails == Event /\ failed' = TRUE

Up == pc \notin {"down", "exit"}

BoundWithoutGrace == clock >= 2

\* _seconds_until_session_bound: the deadline, or the grace once closing.
BoundElapsed == IF mem.closing THEN clock = 3 ELSE clock >= 2

\* The tick step after an advance call returns or is cut short.
AfterAdvance ==
    /\ pc' = IF stage = "pre" THEN "react" ELSE "check"
    /\ move' = Stay
    /\ UNCHANGED stage

-------------------------------------------------------------------------------
(* Start and resume *)

\* open_macro_cycle with the reset of the per-cycle state.
open_macro_cycle(m) == [m EXCEPT !.cycle = @ + 1, !.sweep = "", !.sweepOf = 0]

\* A new process: _begin_resume_leg clears the earlier leg's terminal bookkeeping
\* and saves.  The time used carries over, less what a crash left unsaved or an
\* operator added; the closing grace does not.  Rows an earlier process left running have
\* been failed (the first reconciler pass, SessionDispatch) and its unbooked results are
\* lost with it.
Start ==
    /\ pc \in {"down", "exit"}
    /\ leg < MaxLeg
    /\ disk.phase = "CLOSE" => disk.cycle < MaxCycle
    /\ leg' = leg + 1
    /\ mem' = [disk EXCEPT !.stop = FALSE, !.closing = FALSE, !.done = FALSE, !.target = FALSE,
                           !.legFailed = FALSE]
    /\ disk' = mem'
    /\ rows' = At(rows, "queued")
    /\ pc' = "init" /\ stage' = "pre" /\ move' = Stay
    /\ frozen' = FALSE /\ checked' = FALSE /\ asked' = FALSE
    /\ clock' \in {c \in 0..2 : c <= clock}
    /\ UNCHANGED <<flags, proposals, spent, happened>>

\* _live_conc_sweep_row and on_enter_kernel: the cycle's live row, or a new one.
LiveRow(rs, k, m) ==
    IF \E r \in Live(rs, k) : r.cycle = m.cycle
    THEN rs
    ELSE rs \union {[kind |-> k, born |-> m.phase, cycle |-> m.cycle, at |-> "queued"]}

on_enter_kernel(m, rs) ==
    IF flags.kernel THEN LiveRow(rs, "kernel_agent", m) ELSE rs

\* A session left in CLOSE reopens as the next cycle.  The hint and the queued rows
\* stay as they are.
ensure_phase_initialised(m) ==
    CASE m.phase = "CLOSE" -> [open_macro_cycle(m) EXCEPT !.phase = "PRELUDE", !.done = FALSE]
      [] m.phase = "" -> [m EXCEPT !.phase = "PRELUDE"]
      [] OTHER -> m

Replays(rs) == {r \in rs : r.kind = "replay_warm_recipe"}

\* _resume_recover_pending_warm_replay: a replay that an earlier process left in flight
\* is rolled back and its row ended.
WarmRecovered(m, rs) ==
    IF m.warm THEN <<[m EXCEPT !.warm = FALSE], rs \ Replays(rs)>> ELSE <<m, rs>>

\* The phase is initialised and saved.  The resume of a session settles its warm replay,
\* or stops the session when the rollback fails, and re-enters a KERNEL phase whose
\* round did not finish.
Initialise ==
    /\ pc = "init"
    /\ LET m == ensure_phase_initialised(mem)
           w == WarmRecovered(m, rows)
       IN  \/ /\ mem' = w[1]
              /\ \/ rows' = IF leg > 1 /\ m.phase = "KERNEL" THEN on_enter_kernel(m, w[2])
                            ELSE w[2]
                 \/ leg > 1 /\ m.phase = "KERNEL" /\ rows' = w[2]
              /\ UNCHANGED events
           \/ /\ m.warm /\ Event
              /\ mem' = [m EXCEPT !.stop = TRUE]
              /\ UNCHANGED rows
    /\ disk' = mem'
    /\ spent' = (spent /\ mem'.phase = mem.phase)
    /\ pc' = "decide"
    /\ UNCHANGED <<world, stage, move, frozen, checked, failed>>

-------------------------------------------------------------------------------
(* The predicates: what the machine may decide in a phase *)

prelude_work_in_flight(rs) ==
    \E k \in PHASE_ALLOWED_ACTIONS["PRELUDE"] : Live(rs, k) # {}

\* _post_prelude_target
Post == IF flags.optimize THEN "FRAMEWORK" ELSE IF flags.kernel THEN "KERNEL" ELSE "SWEEP"

\* An anchored phase holds for its initial analysis until the preparation budget is gone.
Anchored(m) == IF m.pending /\ ~spent THEN {Stay} ELSE {To(Post)}

\* The budget exits read an idle phase, one that does not wait for a warm replay either:
\* an anchor that stays cold because no retry fits, or a failure in this leg with the
\* preparation budget gone.  The spent session does not.
prelude_transition(m, rs) ==
    LET idle == ~prelude_work_in_flight(rs) /\ ~m.warm IN
    IF m.failures = 3 THEN {Ending}
    ELSE {d \in {Ending} : m.anchor = "cold" /\ idle} \union
         IF flags.enablement /\ m.failures > 0 THEN {To("ENABLEMENT")}
         ELSE IF m.anchor = "hot" /\ ~m.warm THEN Anchored(m)
         ELSE IF clock > 0 \/ (spent /\ m.legFailed /\ idle) THEN {Ending}
         ELSE {Stay}

\* The bring-up lane (BringupLane) may keep the phase busy.
enablement_transition(m) == {Stay} \union IF m.anchor # "" THEN Anchored(m) ELSE {}

\* Operator work holds the exits for lack of leverage, not the budget's.  A hint to
\* skip to the kernels needs work done; without, dry arms may still end the phase.
framework_transition(m) ==
    LET next == To(IF flags.kernel THEN "KERNEL" ELSE "SWEEP")
        hinted == [next EXCEPT !.hint = TRUE]
    IN  CASE spent -> {next}
          [] ~spent /\ m.hint.says = "skip_to_sweep" -> {Stay, hinted}
          [] ~spent /\ m.hint.says = "skip_to_kernel" -> {Stay, hinted, next}
          [] ~spent /\ m.hint.says = "" -> {Stay, next}

\* With the kernel agent in flight only the budget ends the phase.
kernel_transition(m, rs) ==
    IF spent THEN {To("SWEEP")}
    ELSE IF Live(rs, "kernel_agent") # {} THEN {Stay}
    ELSE {Stay, To("SWEEP")}

\* Another macro-cycle, or the close; gain and saturation are left open.
sweep_transition(m) ==
    IF m.sweep = "failed" THEN {To("CLOSE")}
    ELSE IF m.sweep = "" /\ ~spent THEN {Stay}
    ELSE IF flags.optimize /\ ~m.target /\ m.cycle < MaxCycle
    THEN {Ending, [To("FRAMEWORK") EXCEPT !.loop = TRUE]}
    ELSE {Ending, To("CLOSE")}

\* replay_next_phase
Decisions(m, rs) ==
    IF m.phase = "CLOSE" THEN {Stay}
    ELSE IF m.stop \/ m.closing THEN {Ending}
    ELSE IF m.target /\ m.phase \in {"ENABLEMENT", "FRAMEWORK", "KERNEL"} THEN {To("SWEEP")}
    ELSE CASE m.phase = "PRELUDE" -> prelude_transition(m, rs)
           [] m.phase = "ENABLEMENT" -> enablement_transition(m)
           [] m.phase = "FRAMEWORK" -> framework_transition(m)
           [] m.phase = "KERNEL" -> kernel_transition(m, rs)
           [] m.phase = "SWEEP" -> sweep_transition(m)

-------------------------------------------------------------------------------
(* advance_phase_if_needed *)

\* on_enter_sweep: the cycle's sweep is enqueued, or a skip or a failed enqueue is
\* recorded as its outcome.
on_enter_sweep(m, rs) ==
    {<<[m EXCEPT !.sweep = s, !.sweepOf = m.cycle], rs>> : s \in {"ok", "failed"}}
    \union IF flags.sweep THEN {<<m, LiveRow(rs, "conc_sweep", m)>>} ELSE {}

resume_without_check(m, rs) == {<<m, rs>>}

\* resume_unsettled_sweep: on a resumed process's first decision only.
resume_unsettled_sweep(m, rs) ==
    IF ~checked /\ leg > 1 /\ m.phase = "SWEEP" /\ m.sweep = ""
    THEN on_enter_sweep(m, rs) ELSE {<<m, rs>>}

\* prelude_can_afford: the initial analysis fits the preparation and the session.
Affordable == ~spent /\ clock = 0

\* maybe_enqueue_prelude_initial_analysis_after_baseline: put off while a warm replay is
\* in flight; the enqueue may also come to nothing.
InitialAnalysis(m, rs) ==
    {<<m, rs>>} \union
    IF m.warm \/ m.anchor = "" \/ m.pending \/ ~Affordable THEN {}
    ELSE {<<[m EXCEPT !.pending = TRUE], LiveRow(rs, "roofline", m)>>}

hold_roofline(m, rs) == {<<m, rs>>}

\* The marker of an initial analysis whose row is gone is dropped; in PRELUDE one that
\* was cancelled, by `recover` say, is asked for again while it is affordable.
release_roofline_hold(m, rs) ==
    IF ~m.pending \/ m.phase \notin {"PRELUDE", "ENABLEMENT"} \/ Live(rs, "roofline") # {}
    THEN {<<m, rs>>}
    ELSE LET free == [m EXCEPT !.pending = FALSE] IN
         {<<free, rs>>} \union
         IF m.phase = "PRELUDE" /\ \A r \in rs : r.kind # "roofline"
         THEN InitialAnalysis(free, rs) ELSE {}

\* _release_holds_no_task_will_settle
Released == UNION {resume_unsettled_sweep(h[1], h[2]) : h \in release_roofline_hold(mem, rows)}

\* await_within_session_bound skips the call once the bound has elapsed.
SkipAdvance ==
    /\ pc = "decide"
    /\ BoundElapsed
    /\ AfterAdvance
    /\ UNCHANGED <<world, mem, disk, rows, frozen, checked, spent, happened>>

\* The closing phase has recorded CLOSE; the sequencer still has to run.
AdvanceClosing ==
    /\ pc = "decide"
    /\ ~BoundElapsed
    /\ mem.closing /\ mem.phase = "CLOSE" /\ ~mem.done
    /\ frozen' = FALSE
    /\ pc' = "sequence" /\ move' = Stay
    /\ UNCHANGED <<world, mem, disk, rows, stage, checked, spent, happened>>

freeze_for_good(d) == frozen \/ d # Stay

\* Admission is shut for as long as a transition is pending.
admission_frozen(d) == d # Stay

\* The holds are released, the exit predicates read and admission frozen or
\* opened accordingly.
Decide ==
    /\ pc = "decide"
    /\ ~BoundElapsed
    /\ ~(mem.closing /\ mem.phase = "CLOSE" /\ ~mem.done)
    /\ checked' = TRUE
    /\ \E h \in Released :
          /\ mem' = h[1] /\ rows' = h[2]
          /\ disk' = IF h[1].sweep # mem.sweep THEN h[1] ELSE disk
          /\ \E d \in Decisions(h[1], h[2]) :
                /\ move' = d
                /\ frozen' = admission_frozen(d)
                /\ IF d = Stay THEN AfterAdvance ELSE pc' = "drain" /\ UNCHANGED stage
    /\ UNCHANGED <<world, spent, happened>>

keep_escalate_hint(m) == m

\* settle_escalate_hint: consumed or discarded, the hint does not outlive the move.
settle_escalate_hint(m) == [m EXCEPT !.hint = NoHint]

\* What _commit_transition makes of the shared state.
Committed(m, d) ==
    LET at == [settle_escalate_hint(m) EXCEPT !.phase = d.to, !.stop = @ \/ d.to = "CLOSE"]
    IN  IF d.loop THEN open_macro_cycle(at) ELSE at

cancel_nothing(rs, target) == rs

\* TaskRegistry.cancel_queued with the kinds that the target phase admits.
cancel_queued(rs, target) ==
    {r \in rs : r.at = "queued" => r.kind \in PHASE_ALLOWED_ACTIONS[target]}

\* _drain_for_transition.  Queued work the target does not admit is dropped.  A
\* terminal move asks running work to stop, and some of it does; any that is left,
\* or a result that waits to be booked, holds the move until a later tick.
Drain ==
    /\ pc = "drain"
    /\ ~BoundElapsed
    /\ LET kept == cancel_queued(rows, move.to)
       IN \E stopped \in SUBSET At(kept, "running") :
            /\ move.terminal \/ stopped = {}
            /\ rows' = kept \ stopped
    /\ IF At(rows', "running") \union At(rows', "unbooked") # {}
       THEN AfterAdvance /\ UNCHANGED <<mem, disk, frozen, spent, happened>>
       ELSE /\ frozen' = FALSE
            /\ mem' = Committed(mem, move)
            /\ spent' = FALSE
            /\ pc' = "enter"
            /\ UNCHANGED stage
            /\ \/ disk' = mem' /\ UNCHANGED <<move, happened>>
               \/ /\ WriteFails
                  /\ move' = [move EXCEPT !.unsaved = TRUE]
                  /\ UNCHANGED disk
    /\ UNCHANGED <<world, checked>>

\* A failed save is raised once the entry has run: it ends the body of the tick.
AfterEntry ==
    /\ pc' = IF stage = "pre" /\ ~move.unsaved THEN "react" ELSE "check"
    /\ move' = Stay
    /\ UNCHANGED stage

\* _fire_phase_entry for the phases whose hook leaves state behind; a storage failure
\* of a hook is logged and its effect missing.  CLOSE runs the sequencer.
EnterPhase ==
    /\ pc = "enter"
    /\ mem.phase # "CLOSE"
    /\ AfterEntry
    /\ \/ \E e \in CASE mem.phase = "KERNEL" -> {<<mem, on_enter_kernel(mem, rows)>>}
                    [] mem.phase = "SWEEP" -> on_enter_sweep(mem, rows)
                    [] OTHER -> {<<mem, rows>>} :
             /\ mem' = e[1] /\ rows' = e[2]
             /\ disk' = IF e[1] # mem THEN e[1] ELSE disk
             /\ UNCHANGED happened
       \/ /\ WriteFails
          /\ UNCHANGED <<mem, disk, rows>>
    /\ UNCHANGED <<world, frozen, checked, spent>>

EnterClose ==
    /\ pc = "enter"
    /\ mem.phase = "CLOSE"
    /\ pc' = "sequence"
    /\ UNCHANGED <<world, mem, disk, rows, stage, move, frozen, checked, spent, happened>>

\* on_enter_close up to close_sequence_done and its save, whose failure is logged.  At
\* the end of the run _close_run saves once more.
RunSequence ==
    /\ pc = "sequence"
    /\ mem' = [mem EXCEPT !.done = TRUE]
    /\ IF stage = "end"
       THEN disk' = mem' /\ pc' = "exit" /\ UNCHANGED <<stage, move, happened>>
       ELSE /\ AfterEntry
            /\ \/ disk' = mem' /\ UNCHANGED happened
               \/ WriteFails /\ UNCHANGED disk
    /\ UNCHANGED <<world, rows, frozen, checked, spent>>

\* The bound elapses inside the call, which is cancelled where it stands.
CutShort ==
    /\ pc \in {"drain", "enter", "sequence"} /\ stage # "end"
    /\ BoundElapsed
    /\ AfterAdvance
    /\ UNCHANGED <<world, mem, disk, rows, frozen, checked, spent, happened>>

-------------------------------------------------------------------------------
(* Reactors and pump *)

\* The reactor turns: skipped while closing, once a stop is asked for, and past the
\* bound.  A role may propose an action of the phase or, as Orchestration, escalate.
ReactIdle ==
    /\ pc = "react"
    /\ pc' = "pump"
    /\ UNCHANGED <<world, mem, disk, rows, stage, move, frozen, checked, spent, happened>>

Turn == pc = "react" /\ ~mem.closing /\ ~asked /\ ~BoundElapsed

\* dispatch_paused_for_phase_budget
Paused == spent /\ mem.phase \in {"FRAMEWORK", "KERNEL"}

\* The phase, the order and the time gates; the last two abstain once the session stops.
admission_denial_for_action(k) ==
    \/ k \notin PHASE_ALLOWED_ACTIONS[mem.phase]
    \/ ~mem.stop /\ ((k # "baseline" /\ mem.anchor = "") \/ clock > 0 \/ Paused)

\* A role proposes an action, which then waits for the Critic.  Only the kinds that roles
\* propose, one proposal of each at a time; a baseline only while none is hot or under way.
Propose(k) ==
    /\ Turn
    /\ k \in {"baseline", "explore"} \ proposals
    /\ ~admission_denial_for_action(k)
    /\ k = "baseline" => mem.anchor # "hot" /\ \A r \in rows : r.kind # k
    /\ proposals' = proposals \union {k}
    /\ pc' = "pump"
    /\ UNCHANGED <<flags, leg, clock, asked, mem, disk, rows, stage, move, frozen, checked,
                   spent, happened>>

\* The Critic rules on a proposal, in a later turn and perhaps in a later phase: a
\* rejected one is gone, an approved one becomes a row unless a twin answers it.  The
\* phase is not asked again.
Verdict(k) ==
    /\ Turn
    /\ k \in proposals
    /\ proposals' = proposals \ {k}
    /\ \/ UNCHANGED rows
       \/ ~(\E r \in rows : r.kind = k) /\ rows' = LiveRow(rows, k, mem)
    /\ pc' = "pump"
    /\ UNCHANGED <<flags, leg, clock, asked, mem, disk, stage, move, frozen, checked, spent,
                   happened>>

\* A hint is stored and saved; skip_to_kernel is denied outside FRAMEWORK.
Escalate(h) ==
    /\ Turn
    /\ h = "skip_to_kernel" => mem.phase = "FRAMEWORK"
    /\ Event
    /\ mem' = [mem EXCEPT !.hint = [says |-> h, at |-> <<mem.phase, mem.cycle>>]]
    /\ disk' = mem'
    /\ pc' = "pump"
    /\ UNCHANGED <<world, rows, stage, move, frozen, checked, spent, failed>>

\* handle_unpromotable_result: failures count until a baseline has succeeded.
BaselineFailed(m) ==
    IF m.anchor # "" THEN m
    ELSE [m EXCEPT !.failures = IF @ < 3 THEN @ + 1 ELSE @, !.legFailed = TRUE]

\* _bootstrap_prelude_after_baseline: a warm replay, if there is a recipe for one, and
\* the initial analysis.
Bootstrapped(m, rs) ==
    {<<[m EXCEPT !.warm = TRUE], LiveRow(rs, "replay_warm_recipe", m)>>}
    \union InitialAnalysis(m, rs)

\* _promote_baseline: only the first anchor bootstraps, and not once the session stops.  A
\* later one replaces it, hot or cold, or is held.
BaselinePromoted(m, rs) ==
    LET at(a) == [m EXCEPT !.anchor = a, !.failures = 0, !.legFailed = FALSE]
    IN  UNION {IF m.anchor # "" \/ m.pending \/ m.stop THEN {<<at(a), rs>>}
               ELSE Bootstrapped(at(a), rs) : a \in {"cold", "hot"}}

\* What booking a result leaves in the shared state and the queue.  The initial analysis
\* that a warm replay put off is asked for when the replay is booked.
Booked(r, m, rs) ==
    CASE r.kind = "baseline" -> {<<BaselineFailed(m), rs>>} \union BaselinePromoted(m, rs)
      [] r.kind = "replay_warm_recipe" -> InitialAnalysis([m EXCEPT !.warm = FALSE], rs)
      [] r.kind = "roofline" -> {<<[m EXCEPT !.pending = FALSE], rs>>}
      [] r.kind = "conc_sweep" ->
            {<<[m EXCEPT !.sweep = s, !.sweepOf = r.cycle], rs>> : s \in {"ok", "failed"}}
      [] OTHER -> {<<m, rs>>}

\* One completion is booked and saved.  A booking may halt the session with a stop
\* reason, and a failed bus write drops the result.
Book(r) ==
    /\ pc = "pump" /\ ~asked
    /\ r \in At(rows, "unbooked")
    /\ \/ \E e \in Booked(r, mem, rows \ {r}) :
             /\ \/ mem' = e[1] /\ UNCHANGED events
                \/ mem' = [e[1] EXCEPT !.stop = TRUE] /\ Event
             /\ rows' = e[2] /\ disk' = mem'
             /\ UNCHANGED failed
       \/ /\ WriteFails
          /\ rows' = rows \ {r}
          /\ UNCHANGED <<mem, disk>>
    /\ UNCHANGED <<world, pc, stage, move, frozen, checked, spent>>

Admits == ~frozen /\ ~Paused

\* Past the pump the second advance call follows.
AfterPump == pc' = "decide" /\ stage' = "post"
Pumping == pc = "pump" /\ ~asked /\ At(rows, "unbooked") = {}

\* All kinds but the report share the serving lanes.
Fits(r) == r.at = "queued" /\ (r.kind = "report" \/ \A q \in At(rows, "running") : q.kind = "report")

\* _spawn_fitting_queued while there is time.
Spawn(r) ==
    /\ Pumping
    /\ clock = 0
    /\ Admits
    /\ r \in rows /\ Fits(r)
    /\ rows' = (rows \ {r}) \union {[r EXCEPT !.at = "running"]}
    /\ AfterPump
    /\ UNCHANGED <<world, mem, disk, move, frozen, checked, spent, happened>>

\* TIME_BUDGET_EXEMPT_ACTIONS
Exempt == {"report"}

\* Without time left the actions in flight are asked to stop, and unless admission is
\* shut the queue is dropped, where a dropped sweep leaves a skip, and the exempt
\* report started.
OutOfTime ==
    /\ Pumping
    /\ clock > 0
    /\ LET scan == IF Admits THEN At(rows, "queued") ELSE {}
           drop == {r \in scan : r.kind \notin Exempt}
           start == {[r EXCEPT !.at = "running"] : r \in scan \ drop}
       IN  /\ \E stopped \in SUBSET {r \in At(rows, "running") : r.kind \notin Exempt} :
                 rows' = (rows \ (scan \union stopped)) \union start
           /\ mem' = IF mem.sweep = "" /\ \E r \in drop : r.kind = "conc_sweep"
                     THEN [mem EXCEPT !.sweep = "ok", !.sweepOf = mem.cycle] ELSE mem
    /\ disk' = IF mem' # mem THEN mem' ELSE disk
    /\ AfterPump
    /\ UNCHANGED <<world, move, frozen, checked, spent, happened>>

\* The pump is not entered once a stop is asked for, and may find nothing to start.
PumpNothing ==
    /\ pc = "pump"
    /\ asked \/ (At(rows, "unbooked") = {} /\ clock = 0 /\ (~Admits \/ ~\E r \in rows : Fits(r)))
    /\ AfterPump
    /\ UNCHANGED <<world, mem, disk, rows, move, frozen, checked, spent, happened>>

-------------------------------------------------------------------------------
(* The end of a tick, and the end of the run *)

ClosedUnlessStopped(m) ==
    IF m.stop THEN m
    ELSE [settle_escalate_hint(m) EXCEPT !.phase = "CLOSE", !.stop = TRUE]

\* _record_terminal_close_transition: nothing more to record once in CLOSE.
Closed(m) ==
    IF m.phase = "CLOSE" THEN m
    ELSE [settle_escalate_hint(m) EXCEPT !.phase = "CLOSE", !.stop = TRUE]

\* _close_run: the stop is set and saved, and the close sequence runs if none has.
CloseRun ==
    LET m == [mem EXCEPT !.closing = FALSE, !.stop = TRUE]
    IN  /\ mem' = IF m.done THEN m ELSE Closed(m)
        /\ disk' = mem'
        /\ pc' = IF m.done THEN "exit" ELSE "sequence"
        /\ stage' = "end" /\ move' = Stay
        /\ UNCHANGED <<world, rows, frozen, checked, spent, failed>>

\* enter_closing_phase: CLOSE is recorded, the queue dropped, the report enqueued.
enter_closing_phase ==
    /\ mem' = Closed([mem EXCEPT !.closing = TRUE])
    /\ disk' = mem'
    /\ rows' = LiveRow({r \in rows : r.at = "queued" => r.kind = "report"}, "report", mem)
    /\ pc' = "decide" /\ stage' = "pre"
    /\ UNCHANGED <<world, move, frozen, checked, spent, failed>>

Stopping == asked \/ (mem.stop /\ ~mem.closing)

\* A stop request, or a stop reason outside the closing phase, ends the loop.
StopChecked == pc = "check" /\ Stopping /\ CloseRun /\ UNCHANGED events

\* The deadline has passed: with a grace the run closes in order; without one, or when
\* that raises, it ends.
DeadlineChecked ==
    /\ pc = "check" /\ ~Stopping /\ clock >= 2 /\ ~mem.closing
    /\ enter_closing_phase \/ CloseRun
    /\ UNCHANGED events

\* closing_report_terminal
ReportTerminal == \A r \in Live(rows, "report") : r.cycle # mem.cycle

\* The closing report has ended, or the grace is blown.
ClosingChecked ==
    /\ pc = "check" /\ ~Stopping /\ mem.closing
    /\ ReportTerminal \/ clock = 3
    /\ CloseRun /\ UNCHANGED events

\* None of the ends above applies.
GoesOn == ~Stopping /\ IF mem.closing THEN ~ReportTerminal /\ clock < 3 ELSE clock < 2

\* The next tick.  The objective may have been reached, which is kept in memory.
NextTick ==
    /\ pc = "check" /\ GoesOn
    /\ \/ UNCHANGED <<mem, events>>
       \/ /\ mem.anchor # "" /\ ~mem.target /\ Event
          /\ mem' = [mem EXCEPT !.target = TRUE]
    /\ pc' = "decide" /\ stage' = "pre"
    /\ UNCHANGED <<world, disk, rows, move, frozen, checked, spent, failed>>

\* Too many crashes recorded, or the tick limit.
BudgetStop ==
    /\ pc = "check" /\ GoesOn
    /\ Event
    /\ CloseRun

\* The process is gone with all it held in memory.
Gone ==
    /\ pc' = "down" /\ mem' = disk'
    /\ rows' = At(rows, "queued")
    /\ stage' = "pre" /\ move' = Stay /\ frozen' = FALSE /\ checked' = FALSE
    /\ asked' = FALSE
    /\ UNCHANGED <<flags, proposals, leg, clock, spent>>

\* A save of _close_run fails, or a step of the close sequence does, which is raised after
\* the last save: the run ends with an error and with what its saves have left.
\* Once for a process, and to a resume like a crash: it counts as no event.
CloseRaises ==
    /\ \/ /\ pc = "check" /\ ~GoesOn
          /\ \/ UNCHANGED disk
             \/ mem.done /\ disk' = [mem EXCEPT !.closing = FALSE, !.stop = TRUE]
       \/ /\ pc = "sequence" /\ stage = "end"
          /\ disk' = mem \/ disk' = [mem EXCEPT !.done = TRUE]
    /\ UNCHANGED happened
    /\ Gone

-------------------------------------------------------------------------------
(* Executions, clocks, signals and crashes *)

\* What happens outside matters at the next step that reads it, so it is let happen
\* only where one does.
Reading(steps) == pc \in steps /\ stage # "end"

Outside == <<flags, proposals, mem, disk, pc, stage, move, frozen, checked, leg, failed>>

\* An execution writes its terminal row, and after that queues its completion; one at
\* a time is between the two.
EndExecution(r) ==
    /\ Up
    /\ r \in At(rows, "running") /\ At(rows, "ended") = {}
    /\ rows' = (rows \ {r}) \union {[r EXCEPT !.at = "ended"]}
    /\ UNCHANGED <<Outside, events, clock, spent, asked>>

queue_completion(r) ==
    /\ Up
    /\ r \in At(rows, "ended")
    /\ rows' = (rows \ {r}) \union {[r EXCEPT !.at = "unbooked"]}
    /\ UNCHANGED <<Outside, events, clock, spent, asked>>

\* The session's clock; the grace runs only in the closing phase.
ClockRuns ==
    /\ Reading({"decide", "drain", "enter", "sequence", "pump", "check"})
    /\ clock < 2 \/ (clock = 2 /\ mem.closing)
    /\ clock' = clock + 1
    /\ IF clock = 0 THEN Event ELSE UNCHANGED events
    /\ UNCHANGED <<Outside, rows, spent, asked>>

\* The phase's share; in SWEEP together with the grant that its sweep holds.
PhaseBudgetSpent ==
    /\ Reading({"decide", "pump"})
    /\ ~spent /\ mem.phase # "CLOSE"
    /\ Event
    /\ spent' = TRUE
    /\ UNCHANGED <<Outside, rows, clock, asked>>

StopRequested ==
    /\ Reading({"pump", "check"})
    /\ ~asked
    /\ Event
    /\ asked' = TRUE
    /\ UNCHANGED <<Outside, rows, clock, spent>>

\* The last leg of the bound is let end.
Crash == Up /\ leg < MaxLeg /\ UNCHANGED <<disk, happened>> /\ Gone

Advance == SkipAdvance \/ AdvanceClosing \/ Decide \/ Drain \/ EnterPhase \/ EnterClose
               \/ RunSequence \/ CutShort
React == ReactIdle \/ (\E k \in Kind : Propose(k) \/ Verdict(k))
             \/ (\E h \in {"skip_to_kernel", "skip_to_sweep"} : Escalate(h))
Pump == (\E r \in rows : Book(r) \/ Spawn(r)) \/ OutOfTime \/ PumpNothing
EndTick == StopChecked \/ DeadlineChecked \/ ClosingChecked \/ NextTick \/ BudgetStop
               \/ CloseRaises
Coordinator == Initialise \/ Advance \/ React \/ Pump \/ EndTick

Next ==
    \/ Start \/ Coordinator
    \/ \E r \in rows : EndExecution(r) \/ queue_completion(r)
    \/ ClockRuns \/ PhaseBudgetSpent \/ StopRequested \/ Crash

Spec == Init /\ [][Next]_vars

\* The loop goes on and executions end; the clock, signals and restarts are not fair.
Fairness ==
    /\ WF_vars(Coordinator)
    /\ WF_vars(\E r \in rows : EndExecution(r) \/ queue_completion(r))
FairSpec == Spec /\ Fairness

-------------------------------------------------------------------------------
(* Properties *)

\* However a leg ends (a stop, the deadline with or without its grace, a close that a
\* cut-short tick left half done), the saved session is one that a resume reopens as the
\* next cycle: in CLOSE, its close sequence run, its stop kept, its closing phase over.
EndedLegIsClosed ==
    pc = "exit" => disk.done /\ disk.stop /\ disk.phase = "CLOSE" /\ ~disk.closing

\* A hint moves the session only out of the phase, and in the cycle, that Orchestration
\* gave it for: none survives a transition, a held drain, a crash or a resume to act later.
HintSpeaksForItsPhase ==
    pc = "drain" /\ move.hint => mem.hint.at = <<mem.phase, mem.cycle>>

\* No work crosses into a phase that does not admit it, although dispatch does not look at
\* the phase: the drain drops what the target does not admit and waits for what runs, so
\* that what an earlier phase or cycle created runs on only where it is admitted.  What is
\* created in the phase itself is another matter: a late verdict or a late booking does not
\* look at the phase.  Left out are a lost save, after which a resume is back in the old
\* phase with the new one's rows, and PRELUDE, which a resume opens over the queue of the
\* leg before.
CarriedWorkIsAdmitted ==
    ~failed /\ mem.phase \in {"ENABLEMENT", "FRAMEWORK", "KERNEL", "SWEEP"}
        => \A r \in At(rows, "running") :
              <<r.born, r.cycle>> # <<mem.phase, mem.cycle>>
                  => r.kind \in PHASE_ALLOWED_ACTIONS[mem.phase]

\* A pending transition commits or is withdrawn, and either way admission is open again:
\* _drain_for_transition's wait never shuts it for good.
TransitionCommits == frozen ~> (~frozen \/ ~Up)

\* While the session has time SWEEP gets an outcome without waiting for its budget, even
\* when the sweep's row was lost with the process that ran it (resume_unsettled_sweep).
\* Not so after a failed write: the entry or the booking it cut short is not repeated.
SweepSettles ==
    (mem.phase = "SWEEP" /\ Up) ~> (mem.phase # "SWEEP" \/ ~Up \/ clock > 0 \/ failed)

\* A warm replay whose result nobody will book any more; within the process nothing
\* settles it, and PRELUDE waits for it until the session's time is gone.
LostReplay == mem.warm /\ Replays(rows) = {}

\* A PRELUDE with a hot anchor is left without its budget having to run out: the hold for
\* the initial analysis ends with its task, whatever became of that
\* (_release_holds_no_task_will_settle), and the wait for the warm replay with its booking
\* or the next resume.  A further baseline may turn the anchor cold again.
PreludeLeft ==
    (mem.phase = "PRELUDE" /\ mem.anchor = "hot" /\ Up)
        ~> (mem.phase # "PRELUDE" \/ mem.anchor # "hot" \/ ~Up \/ LostReplay)

\* The closing phase's report is started, also when the deadline fell while a pending
\* transition had shut admission, unless the grace is gone or a signal ends the run.
ReportStarted ==
    (\E r \in At(rows, "queued") : r.kind = "report" /\ mem.closing)
       ~> (~Up \/ clock = 3 \/ asked \/ \E r \in rows : r.kind = "report" /\ r.at # "queued")
=============================================================================
