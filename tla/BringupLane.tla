---------------------------- MODULE BringupLane -----------------------------
(***************************************************************************)
(* The enablement lane: the authoring rounds and the revalidations that    *)
(* take a combo from "does not boot" to a measured baseline.               *)
(*                                                                         *)
(* The lane's handlers (pumps, booking, verdicts) and the reconciler run   *)
(* one at a time on the coordinator's tick.  Executions run beside them:   *)
(* they start, end and release their lanes between any two transactions.   *)
(* A handler that writes twice is two steps here, with `todo` naming what  *)
(* it still has to do, so a crash can fall between them; SharedState is    *)
(* saved last, so `lane` and `disk` differ until then.                     *)
(***************************************************************************)
EXTENDS Integers, Sequences, FiniteSets

CONSTANTS
    Authored,   \* specialists the lane may dispatch, one per authoring round
    Foreign,    \* specialists others dispatched, whose patch enables the combo
    Probe,      \* launch probes of targeted builds: integrates naming no specialist
    NoTask,
    Cap,        \* _ENABLEMENT_MAX_ATTEMPTS
    OtherBaselines, \* whether baselines of another origin report meanwhile
    MaxGen,     \* bound: revalidation generations explored
    MaxLinger,  \* bound: tasks that linger
    MaxCrash    \* bound: coordinator restarts explored

ASSUME CapIsPositive == Cap \in Nat \ {0}

Gen == 1..MaxGen    \* a window opens with the generation's advance, so none is 0
Reval(g) == <<"revalidation", g>>
Integrate(s) == <<"integrate", s>>
Revals == {Reval(g) : g \in Gen}
Integrates == {Integrate(s) : s \in Authored \cup Foreign}
Tasks == Authored \cup Foreign \cup Probe \cup Integrates \cup Revals

\* Task ids tell the kinds of task apart.
ASSUME KindsDiffer ==
    /\ (Authored \cup Foreign \cup Probe) \cap (Integrates \cup Revals) = {}
    /\ Authored \cap Probe = {} /\ NoTask \notin Tasks

\* A round is named by the task that opened it.
Rounds == Authored \cup Revals

VARIABLES
    rounds, roundLane, order,   \* the round store
    task,       \* state of each row of the task registry
    result,     \* what an ended execution reported and nobody has booked
    overdue,    \* unbooked results that were there when this tick began
    lingering,  \* ended tasks whose cleanup was never confirmed, or whose lane or
                \* card leases nobody will take back
    dead,       \* running rows whose process a crash ended
    uncounted,  \* rows failed for a dead process, not yet accounted
    proposals,  \* specialists whose integrate awaits the Critic (the event log)
    lane,       \* SharedState.enablement, with whether a baseline is anchored
    disk,       \* the copy of it last saved
    todo,       \* the write a handler still owes
    stop,       \* stop_reason is set, so the phase routes to CLOSE
    late,       \* the session has no time left for a baseline
    keepGen,    \* history: the generation the newest keep opened
    crashes

store == <<rounds, roundLane, order>>
rows == <<task, result, lingering, dead, uncounted>>
memory == <<lane, disk, todo>>
session == <<stop, late, keepGen, crashes>>
rest == <<stop, late, keepGen, crashes, overdue>>
vars == <<rounds, roundLane, order, task, result, overdue, lingering, dead, uncounted,
          proposals, lane, disk, todo, stop, late, keepGen, crashes>>

Store == INSTANCE RoundStore WITH RoundId <- Rounds, TaskId <- Tasks

Terminal == {"succeeded", "failed", "cancelled"}
Live(t) == task[t] \in {"queued", "running"}

\* What an execution of each kind may report.
Reports(t) ==
    CASE t \in Revals -> {"passed", "subfloor", "failed", "eval_failed", "refused", "stopped"}
      [] t \in Integrates \cup Probe -> {"kept", "advanced", "reverted"}
      [] OTHER -> {"delivered", "nothing"}

\* The registry state the runner writes for a report.
RowFor(report) ==
    IF report = "stopped" THEN "cancelled"
    ELSE IF report \in {"failed", "eval_failed", "refused", "nothing"} THEN "failed" ELSE "succeeded"

Nothing == [op |-> "none", task |-> NoTask]

Idle == todo = Nothing /\ lane = disk

\* A step of the reconciler or of a reactor turn, ahead of this tick's drain.
AheadOfDrain == overdue' = {t \in Tasks : result[t] # "none"}
BeforeDrain == Idle /\ AheadOfDrain

Lane == [succeeded : BOOLEAN, pending : BOOLEAN, tracked : Revals \cup {NoTask},
         gen : Nat, origin : {"boot", "eval", ""}, anchored : BOOLEAN]

Init ==
    /\ Store!StoreInit
    /\ task = [t \in Tasks |-> "absent"]
    /\ result = [t \in Tasks |-> "none"]
    /\ overdue = {}
    /\ lingering = {} /\ dead = {} /\ uncounted = {}
    /\ proposals = {}
    /\ lane \in [succeeded : {FALSE}, pending : {FALSE}, tracked : {NoTask}, gen : {0},
                 origin : {"boot", "eval"}, anchored : {FALSE}]
    /\ disk = lane
    /\ todo = Nothing
    /\ stop = FALSE /\ late = FALSE
    /\ keepGen = 0 /\ crashes = 0

-----------------------------------------------------------------------------
(* The lane's moves on its round *)

Held == Store!OpenRounds

SettleLeavingHolder(outcome) ==
    /\ IF Held = {} THEN UNCHANGED store
       ELSE \E r \in Held : Store!Settle(Store!Snap(r), outcome)
    /\ todo' = Nothing

\* settle_enablement_round: ends the held round, whichever it is; then a
\* specialist that still holds it unstarted is to be cancelled.
SettleHeld(outcome) ==
    IF Held = {}
    THEN UNCHANGED store /\ todo' = Nothing
    ELSE \E r \in Held :
            /\ Store!Settle(Store!Snap(r), outcome)
            /\ todo' = IF rounds[r].holder \in Authored
                       THEN [op |-> "cancel", task |-> rounds[r].holder]
                       ELSE Nothing

\* cancel_if_queued on the settled round's specialist.
CancelHolder ==
    /\ todo.op = "cancel"
    /\ task' = IF task[todo.task] = "queued"
               THEN [task EXCEPT ![todo.task] = "cancelled"] ELSE task
    /\ todo' = Nothing
    /\ UNCHANGED <<store, result, lingering, dead, uncounted, proposals,
                   lane, disk, rest>>

\* SharedState.save, which every handler that changed the lane ends with.
Save ==
    /\ todo = Nothing /\ lane # disk
    /\ disk' = lane
    /\ UNCHANGED <<store, rows, proposals, lane, todo, rest>>

CloseBooted(l) == [l EXCEPT !.succeeded = TRUE, !.pending = FALSE,
                            !.tracked = NoTask, !.origin = ""]

MovedBy(status) ==
    CASE status = "kept" -> "booted" [] status = "advanced" -> "advanced" [] OTHER -> "failed"

NeverDispatched(spec) == spec # NoTask /\ ~(spec \in Authored /\ rounds[spec].state # "absent")

\* A result answers the held round when it moved the boot, when it names no
\* specialist, or when it names the specialist that round was opened for.
Answers(status, spec) ==
    Held # {} /\ (status \in {"kept", "advanced"} \/ spec = NoTask \/ spec \in Held)

\* maybe_rearm_enablement: `spec` is the specialist the result names, if any.
Rearm(status, spec) ==
    IF status = "reverted" /\ NeverDispatched(spec)
    THEN UNCHANGED <<store, lane>> /\ todo' = Nothing
    ELSE /\ lane' = IF status = "kept"
                    THEN [lane EXCEPT !.pending = TRUE, !.gen = @ + 1, !.tracked = NoTask]
                    ELSE lane
         /\ IF Answers(status, spec) THEN SettleHeld(MovedBy(status))
            ELSE UNCHANGED store /\ todo' = Nothing

-----------------------------------------------------------------------------
(* Executions *)

\* A task that ended leaves no trace, or processes and leases nobody clears.
MayLinger(t) ==
    \/ UNCHANGED lingering
    \/ Cardinality(lingering) < MaxLinger /\ lingering' = lingering \cup {t}

Start(t) ==
    /\ task[t] = "queued"
    /\ task' = [task EXCEPT ![t] = "running"]
    /\ UNCHANGED <<store, result, lingering, dead, uncounted, proposals, memory, rest>>

\* The runner writes the terminal row, its cleanup confirmed or not, and the
\* result waits to be booked.
End(t) ==
    /\ task[t] = "running" /\ t \notin dead
    /\ \E report \in Reports(t) :
          /\ task' = [task EXCEPT ![t] = RowFor(report)]
          /\ result' = [result EXCEPT ![t] = report]
    /\ MayLinger(t)
    /\ UNCHANGED <<store, dead, uncounted, proposals, memory, rest>>

-----------------------------------------------------------------------------
(* Booking results and verdicts *)

Booked(t) == result' = [result EXCEPT ![t] = "none"] /\ overdue' = overdue \ {t}

\* A finished authoring specialist: a deliverable becomes a proposal.
BookSpecialist(s) ==
    /\ Idle /\ result[s] # "none"
    /\ Booked(s)
    /\ proposals' = IF result[s] = "delivered" THEN proposals \cup {s} ELSE proposals
    /\ UNCHANGED <<store, task, lingering, dead, uncounted, memory, session>>

\* A specialist the lane never dispatched delivers an enablement patch.
ForeignDelivers(s) ==
    /\ Idle /\ task[s] = "absent"
    /\ task' = [task EXCEPT ![s] = "succeeded"]
    /\ proposals' = proposals \cup {s}
    /\ UNCHANGED <<store, result, lingering, dead, uncounted, memory, rest>>

\* materialize_approved_proposal: the integrate row, then the handoff.
Approve(s) ==
    /\ BeforeDrain /\ s \in proposals /\ task[Integrate(s)] = "absent"
    /\ proposals' = proposals \ {s}
    /\ task' = [task EXCEPT ![Integrate(s)] = "queued"]
    /\ todo' = [op |-> "handoff", task |-> s]
    /\ UNCHANGED <<store, result, lingering, dead, uncounted, lane, disk, session>>

HandOverToAnyone ==
    /\ todo.op = "handoff"
    /\ \/ \E r \in Held : Store!Handoff(Store!Snap(r), Integrate(todo.task))
       \/ Held = {} /\ UNCHANGED store
    /\ todo' = Nothing
    /\ AheadOfDrain
    /\ UNCHANGED <<rows, proposals, lane, disk, session>>

\* handoff_enablement_round: only from the specialist that holds the round.
HandOver ==
    /\ todo.op = "handoff"
    /\ \/ \E r \in Held :
             rounds[r].holder = todo.task /\ Store!Handoff(Store!Snap(r), Integrate(todo.task))
       \/ (\A r \in Held : rounds[r].holder # todo.task) /\ UNCHANGED store
    /\ todo' = Nothing
    /\ AheadOfDrain
    /\ UNCHANGED <<rows, proposals, lane, disk, session>>

\* The Critic rejects: the verdict is on the log, then the lane is re-armed.
Reject(s) ==
    /\ BeforeDrain /\ s \in proposals
    /\ proposals' = proposals \ {s}
    /\ todo' = [op |-> "rearm", task |-> s]
    /\ UNCHANGED <<store, rows, lane, disk, session>>

RearmRejected ==
    /\ todo.op = "rearm"
    /\ Rearm("reverted", NoTask)
    /\ AheadOfDrain
    /\ UNCHANGED <<rows, proposals, disk, session>>

\* The reconciler's review timeout, and a verdict that only asks for more review.
Deny(s) ==
    /\ BeforeDrain /\ s \in proposals
    /\ proposals' = proposals \ {s}
    /\ UNCHANGED <<store, rows, memory, session>>

Author(t) == IF t \in Probe THEN NoTask ELSE t[2]

BookIntegrate(t) ==
    /\ Idle /\ result[t] # "none"
    /\ Booked(t)
    /\ Rearm(result[t], Author(t))
    /\ keepGen' = IF result[t] = "kept" THEN lane.gen + 1 ELSE keepGen
    /\ UNCHANGED <<task, lingering, dead, uncounted, proposals, disk, stop, late, crashes>>

\* _promote_baseline, outside a pending window: on_baseline_promoted.
PromotedOutsideWindow ==
    IF ~stop /\ lane.origin # "eval" /\ ~lane.succeeded
    THEN lane' = [CloseBooted(lane) EXCEPT !.anchored = TRUE] /\ SettleHeld("booted")
    ELSE /\ lane' = [lane EXCEPT !.origin = "", !.anchored = TRUE]
         /\ UNCHANGED store /\ todo' = Nothing

\* A revalidation baseline that measured: it ends the lane or reopens it.
RevalPromoted(report) ==
    IF ~lane.pending THEN PromotedOutsideWindow
    ELSE IF report = "passed"
    THEN lane' = [CloseBooted(lane) EXCEPT !.anchored = TRUE] /\ SettleHeld("booted")
    ELSE /\ lane' = [lane EXCEPT !.pending = FALSE, !.tracked = NoTask, !.anchored = TRUE]
         /\ SettleHeld("failed")

\* _reopen_revalidation_window: a round the run stopped keeps its window.
ReopenWindow(l) == [l EXCEPT !.gen = @ + 1, !.tracked = NoTask]

\* _charge_baseline_failure for a revalidation: only while nothing is anchored, except
\* for a prefix cache that is off, which stops the run as other failures may.
RevalFailed(report) ==
    IF lane.anchored /\ report # "refused" THEN UNCHANGED <<store, lane, stop>> /\ todo' = Nothing
    ELSE /\ lane' = [(IF ~lane.pending THEN lane
                      ELSE IF report = "stopped" THEN ReopenWindow(lane)
                      ELSE [lane EXCEPT !.pending = FALSE, !.tracked = NoTask])
                     EXCEPT !.origin = IF report = "eval_failed" THEN "eval" ELSE @]
         /\ IF lane.pending
            THEN SettleHeld(IF report = "stopped" THEN "abandoned" ELSE "failed")
            ELSE UNCHANGED store /\ todo' = Nothing
         /\ stop' \in {b \in {stop, TRUE} : (report = "stopped" => b = stop)
                                              /\ (report = "refused" => b)}

BookReval(t) ==
    /\ Idle /\ result[t] # "none"
    /\ Booked(t)
    /\ \/ result[t] \in {"passed", "subfloor"} /\ RevalPromoted(result[t]) /\ UNCHANGED stop
       \/ result[t] \notin {"passed", "subfloor"} /\ RevalFailed(result[t])
    /\ UNCHANGED <<task, lingering, dead, uncounted, proposals, disk, late, keepGen, crashes>>

\* A baseline of another origin promotes, or measures but fails its eval.
OtherBaselinePromotes ==
    /\ OtherBaselines /\ Idle
    /\ IF lane.pending
       THEN /\ lane' = [lane EXCEPT !.origin = "", !.anchored = TRUE]
            /\ UNCHANGED <<store, todo>>
       ELSE PromotedOutsideWindow
    /\ UNCHANGED <<rows, proposals, disk, rest>>

OtherBaselineFailsEval ==
    /\ OtherBaselines /\ Idle /\ ~lane.anchored
    /\ lane' = [lane EXCEPT !.origin = "eval", !.pending = FALSE]
    /\ lane' # lane
    /\ UNCHANGED <<store, rows, proposals, disk, todo, rest>>

-----------------------------------------------------------------------------
(* The dispatcher and the pumps of the tick *)

\* The spawns and the pumps follow the dispatcher's drain of the same tick, which
\* follows the reconciler and the verdicts: whatever those saw unbooked is booked by
\* now, and only a result that came in since the drain is still waiting.
Drained == overdue = {}

\* The budget drains; what a specialist or an integrate costs is left open.
RunLate ==
    /\ Idle /\ ~late
    /\ late' = TRUE
    /\ UNCHANGED <<store, rows, proposals, memory, stop, keepGen, crashes, overdue>>

\* A queued row the wall-clock budget can no longer fit is cancelled unrun, by
\* the spawn that follows the drain.
CancelOverBudget(t) ==
    /\ Idle /\ Drained /\ ~stop /\ task[t] = "queued"
    /\ t \in Revals => late
    /\ task' = [task EXCEPT ![t] = "cancelled"]
    /\ UNCHANGED <<store, result, lingering, dead, uncounted, proposals, memory, rest>>

\* reclaim_dead_running, by the reconciler or by the dispatcher's pump.
FailDead(t) ==
    /\ BeforeDrain /\ t \in dead
    /\ task' = [task EXCEPT ![t] = "failed"]
    /\ dead' = dead \ {t}
    /\ uncounted' = uncounted \cup {t}
    /\ MayLinger(t)
    /\ UNCHANGED <<store, result, proposals, memory, session>>

\* _account_dead_holder_failures: a dead revalidation is charged like a failed
\* one, if its window is still open by then.
AccountDead(t) ==
    /\ Idle /\ t \in uncounted
    /\ uncounted' = uncounted \ {t}
    /\ IF t \in Revals THEN RevalFailed("failed") ELSE UNCHANGED <<store, lane, todo, stop>>
    /\ UNCHANGED <<task, result, lingering, dead, proposals, disk, late, keepGen, crashes, overdue>>

\* maybe_route_build_outcomes: a verified build's launch probe.
EnqueueProbe(p) ==
    /\ Idle /\ Drained /\ ~stop /\ task[p] = "absent"
    /\ task' = [task EXCEPT ![p] = "queued"]
    /\ UNCHANGED <<store, result, lingering, dead, uncounted, proposals, memory, rest>>

Spent(g) == g \in Gen /\ task[Reval(g)] \in Terminal

ScanReuses(g) == g

\* The generations one pass of the scan tries, and the one it stops at.
ScanStop(g) == IF ~Spent(g) THEN g ELSE IF ~Spent(g + 1) THEN g + 1 ELSE g + 2

\* maybe_enqueue_enablement_baseline_revalidation: the row and the round commit
\* together; a generation whose row ended is passed over, and one whose row
\* still lives is left to it.  Without time for a baseline the window is held open.
PumpRevalidation ==
    /\ Idle /\ Drained /\ ~stop /\ ~late /\ lane.pending
    /\ lane.tracked # NoTask => ~Live(lane.tracked)
    /\ Held = {}
    /\ LET g == ScanStop(lane.gen) IN
          /\ g \in Gen
          /\ IF g < lane.gen + 2 /\ task[Reval(g)] = "absent"
             THEN /\ Store!Open(Reval(g), Reval(g))
                  /\ task' = [task EXCEPT ![Reval(g)] = "queued"]
                  /\ lane' = [lane EXCEPT !.gen = g, !.tracked = Reval(g)]
             ELSE /\ lane' = [lane EXCEPT !.gen = g]
                  /\ UNCHANGED <<store, task>>
    /\ UNCHANGED <<result, lingering, dead, uncounted, proposals, disk, todo, rest>>

AcceptsUntilSuccess == ~lane.succeeded

AcceptsRounds == ~lane.succeeded /\ ~lane.pending

\* _maybe_enqueue_enablement_specialist, with nobody holding the round: the cap
\* stops the run, otherwise the round and its specialist's row commit together.
PumpAuthoring(s) ==
    /\ Idle /\ Drained /\ ~stop /\ AcceptsRounds /\ Held = {}
    /\ Store!Stalled < Cap /\ task[s] = "absent"
    /\ Store!Open(s, s)
    /\ task' = [task EXCEPT ![s] = "queued"]
    /\ UNCHANGED <<result, lingering, dead, uncounted, proposals, memory, rest>>

StopOnExhaustedAttempts ==
    /\ Idle /\ Drained /\ ~stop /\ AcceptsRounds /\ Held = {}
    /\ Store!Stalled >= Cap
    /\ stop' = TRUE
    /\ UNCHANGED <<store, rows, proposals, memory, late, keepGen, crashes, overdue>>

-----------------------------------------------------------------------------
(* The reconciler's rules on rounds and windows *)

\* _terminal_by_observation and _holder_has_resources.
HolderIsGone(t) == task[t] \in Terminal /\ t \notin lingering

Successor(t) == IF t \in Authored /\ Live(Integrate(t)) THEN Integrate(t) ELSE NoTask

AdvanceToSuccessor(r) ==
    /\ BeforeDrain /\ r \in Held
    /\ LET h == rounds[r].holder IN
          /\ HolderIsGone(h) /\ Successor(h) # NoTask
          /\ Store!Handoff(Store!Snap(r), Successor(h))
    /\ UNCHANGED <<rows, proposals, memory, session>>

ExpireUnderReview(r) ==
    /\ BeforeDrain /\ r \in Held
    /\ LET h == rounds[r].holder IN
          HolderIsGone(h) /\ Successor(h) = NoTask /\ h \in proposals
    /\ Store!Settle(Store!Snap(r), "expired_reaped")
    /\ UNCHANGED <<rows, proposals, memory, session>>

\* The cap on a terminal holder has passed, with no successor and no review.  Nothing
\* looks for a result of the holder that still waits.
Expire(r) ==
    /\ BeforeDrain /\ r \in Held
    /\ LET h == rounds[r].holder IN
          HolderIsGone(h) /\ Successor(h) = NoTask /\ h \notin proposals
    /\ Store!Settle(Store!Snap(r), "expired_reaped")
    /\ UNCHANGED <<rows, proposals, memory, session>>

CloseUnheardWindow ==
    /\ BeforeDrain /\ lane.pending /\ lane.tracked # NoTask
    /\ task[lane.tracked] \in Terminal
    /\ lane' = [lane EXCEPT !.pending = FALSE, !.tracked = NoTask]
    /\ UNCHANGED <<store, rows, proposals, disk, todo, session>>

\* _close_stale_validation_window: the tracked row ended and nobody will book it.
CloseStaleWindow ==
    /\ BeforeDrain /\ lane.pending /\ lane.tracked # NoTask
    /\ task[lane.tracked] \in Terminal /\ result[lane.tracked] = "none"
    /\ lane' = [lane EXCEPT !.pending = FALSE, !.tracked = NoTask]
    /\ UNCHANGED <<store, rows, proposals, disk, todo, session>>

-----------------------------------------------------------------------------
(* A crash, and the resume that follows it *)

\* _resume_recover_pending_revalidation, on the state the disk kept: a tracked
\* row that was cancelled reopens its window, any other terminal row closes it.
Recovered(l) ==
    IF ~l.pending \/ l.tracked = NoTask \/ task[l.tracked] \notin Terminal THEN l
    ELSE IF task[l.tracked] = "cancelled" THEN ReopenWindow(l)
    ELSE [l EXCEPT !.pending = FALSE, !.tracked = NoTask]

\* The new leg starts without a stop reason, and perhaps with more time.
Restart ==
    /\ crashes < MaxCrash
    /\ crashes' = crashes + 1
    /\ lane' = Recovered(disk)
    /\ IF lane' = ReopenWindow(disk) THEN SettleHeld("abandoned")
       ELSE UNCHANGED store /\ todo' = Nothing
    /\ result' = [t \in Tasks |-> "none"]
    /\ dead' = {t \in Tasks : task[t] = "running"}
    /\ uncounted' = {} /\ overdue' = {}
    /\ stop' = FALSE /\ late' \in {FALSE, late}
    /\ UNCHANGED <<task, lingering, proposals, disk, keepGen>>

-----------------------------------------------------------------------------
Execution == \E t \in Tasks : Start(t) \/ End(t)

Booking ==
    \/ \E s \in Authored : BookSpecialist(s)
    \/ \E t \in Integrates \cup Probe : BookIntegrate(t)
    \/ \E t \in Revals : BookReval(t)
    \/ \E t \in Tasks : AccountDead(t)
    \/ HandOver \/ RearmRejected \/ CancelHolder \/ Save

Review == \E s \in Authored \cup Foreign : Approve(s) \/ Reject(s) \/ Deny(s)

Outside ==
    \/ \E s \in Foreign : ForeignDelivers(s)
    \/ \E p \in Probe : EnqueueProbe(p)
    \/ \E t \in Tasks : CancelOverBudget(t)
    \/ OtherBaselinePromotes \/ OtherBaselineFailsEval \/ RunLate

Pumps == PumpRevalidation \/ (\E s \in Authored : PumpAuthoring(s)) \/ StopOnExhaustedAttempts

Reconcile ==
    \/ \E t \in Tasks : FailDead(t)
    \/ \E r \in Rounds : AdvanceToSuccessor(r) \/ Expire(r)
    \/ CloseStaleWindow

Next == Execution \/ Booking \/ Review \/ Outside \/ Pumps \/ Reconcile \/ Restart

Spec == Init /\ [][Next]_vars

\* The tick never stops, and started work ends: fairness of everything the
\* coordinator and its executions do, and of the review timeout.  Critics,
\* foreign specialists, builds and crashes owe nothing.
Fairness ==
    WF_vars(Execution \/ Booking \/ Pumps \/ Reconcile
            \/ \E s \in Authored \cup Foreign : Deny(s))

FairSpec == Spec /\ Fairness

-----------------------------------------------------------------------------
\* Every variable keeps its shape.
TypeOK ==
    /\ Store!StoreTypeOK
    /\ task \in [Tasks -> Terminal \cup {"absent", "queued", "running"}]
    /\ \A t \in Tasks : result[t] \in Reports(t) \cup {"none"}
    /\ overdue \subseteq {t \in Tasks : result[t] # "none"}
    /\ lingering \subseteq Tasks
    /\ dead \subseteq {t \in Tasks : task[t] = "running"}
    /\ uncounted \subseteq Tasks
    /\ proposals \subseteq Authored \cup Foreign
    /\ lane \in Lane /\ disk \in Lane
    /\ todo \in [op : {"none", "cancel", "handoff", "rearm"}, task : Tasks \cup {NoTask}]
    /\ stop \in BOOLEAN /\ late \in BOOLEAN /\ keepGen \in Nat /\ crashes \in 0..MaxCrash

\* A round is only ever worked on by the specialist it was opened for, or by
\* the integrate of that specialist's patch: neither the approval of another
\* specialist's patch nor the reconciler's repair hands it to foreign work, and
\* the holder's row is there for the reconciler to read.
RoundStaysWithItsWork ==
    \A r \in Held :
        /\ rounds[r].holder \in {r} \cup (IF r \in Authored THEN {Integrate(r)} ELSE {})
        /\ task[rounds[r].holder] # "absent"

\* A specialist still waiting to start works for the round that is held: a
\* settle that closes the wall it was pointed at cancels it.  Only a crash
\* between the settle and the cancel can leave one behind.
QueuedSpecialistHolds ==
    crashes = 0 =>
        \A s \in Authored : task[s] = "queued" =>
            (\E r \in Held : rounds[r].holder = s) \/ todo = [op |-> "cancel", task |-> s]

\* While a revalidation window is open nobody authors: the only round that can
\* be held is a revalidation's, whatever results of work the lane did not
\* dispatch come in, and however a crash splits the settle from the save.
WindowBarsAuthoring == lane.pending /\ Idle => Held \subseteq Revals

\* The tracked revalidation, once it passed, finds its window open when it is
\* booked: neither the reconciler nor a verdict closes it while the result
\* waits, only the failure of another revalidation or of another baseline's
\* eval does.
PassedRevalidationCredited ==
    [][\A g \in Gen :
           /\ lane.tracked = Reval(g)
           /\ result[Reval(g)] = "passed" /\ result'[Reval(g)] = "passed"
           /\ lane.pending /\ ~lane'.pending
           => \/ OtherBaselineFailsEval
              \/ \E h \in Gen \ {g} :
                  \/ result[Reval(h)] # "none" /\ result'[Reval(h)] = "none"
                  \/ Reval(h) \in uncounted \ uncounted']_vars

\* A stall that is booked charges only the round of the specialist it came
\* from: it never ends, as failed, a round opened for somebody else.
StallChargesOwnRound ==
    [][\A r \in Authored :
           rounds[r].state = "open" /\ rounds'[r].outcome = "failed" =>
               \/ todo = [op |-> "rearm", task |-> r]
               \/ result[Integrate(r)] = "reverted" /\ result'[Integrate(r)] = "none"]_vars

\* Every keep is measured again before the lane is called a success: the
\* revalidation that closes the window was enqueued for the newest keep or
\* later, never for a keep that came before it.
EveryKeepRemeasured ==
    [][\A g \in Gen :
           /\ result[Reval(g)] = "passed" /\ result'[Reval(g)] = "none"
           /\ lane.pending /\ ~lane.succeeded /\ lane'.succeeded
           => g >= keepGen]_vars

Wedged == \E r \in Held : rounds[r].holder \in lingering

\* No round is held forever: unless its holder's cleanup could not be confirmed, the
\* open round is settled, by its result or by the reconciler, before another may open.
HeldRoundEnds == Held # {} ~> Held = {} \/ Wedged

\* A revalidation window does not stay open: it ends in a success, a failure or
\* a cleared window, unless the run stops or has no time for a baseline, a round is
\* wedged on an unconfirmed cleanup, or the explored generations are spent.
WindowCloses ==
    lane.pending ~> ~lane.pending \/ stop \/ late \/ Wedged \/ ScanStop(lane.gen) \notin Gen
=============================================================================
