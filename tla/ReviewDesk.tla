----------------------------- MODULE ReviewDesk -----------------------------
(***************************************************************************)
(* Proposals under review: orchestration and the coordinator raise them,   *)
(* the Critic rules on them, an approved one becomes a task.               *)
(*                                                                         *)
(* The coordinator's tick is sequential: repair, a turn of each agent,     *)
(* upkeep.  A turn is several steps here, one per write that a crash, a    *)
(* failed handler or the turn's time limit can fall behind.  Executions    *)
(* raise their own proposals beside the tick.                              *)
(***************************************************************************)
EXTENDS EventBus, FiniteSets

CONSTANTS
    Author,     \* who raises each proposal: "orchestration" or "coordinator"
    Variant,    \* the variants of a grid
    Answer,     \* the reviews the Critic may write: a verdict for each variant
    NoAnswer,
    Budget,     \* inbox lines a prompt has room for
    MaxFaults   \* bound: failed, cut short or idle turns, lost replies, crashes

Verdict == {"approve", "advise", "reject", "needs_review"}

ASSUME AuthorsRaise == Author \in [Proposal -> Party \ {"critic"}]
ASSUME AnswersRule == Answer \subseteq [Variant -> Verdict] /\ NoAnswer \notin Answer
ASSUME SomeVariant == Variant # {}
ASSUME NoProposalIsNone == NoProposal \notin Proposal
ASSUME RoomForOne == Budget \in Nat \ {0}

VARIABLES
    pending,    \* CoordinatorState.pending_proposals, in memory
    rendered,   \* _rendered_cursor, in memory: 0 until a prompt showed something
    tick,       \* where the tick is: "down", "reconcile", an agent's turn, "upkeep"
    turn,       \* the turn under way
    tasks,      \* the tasks made from approved proposals, with their grids
    faults,
    raised,     \* history: the proposals raised
    ruling,     \* history: the answer each proposal was decided on, if it was one
    decisions   \* history: how often each proposal was decided

memory == <<pending, rendered>>
history == <<raised, ruling, decisions>>
vars == <<events, last, cursor, pending, rendered, tick, turn, tasks,
          faults, history>>

Idle == [stage |-> "idle", about |-> NoProposal, answer |-> NoAnswer, shown |-> {}]
Asked(seqs) == [stage |-> "asked", about |-> NoProposal, answer |-> NoAnswer, shown |-> seqs]

\* The turn goes on at another stage, with another proposal or answer in hand.
Moved(stage, p, answer) ==
    [stage |-> stage, about |-> p, answer |-> answer, shown |-> turn.shown]
Handled == Moved("routing", NoProposal, NoAnswer)

Init ==
    /\ BusInit
    /\ pending = {} /\ rendered = [a \in Agent |-> 0]
    /\ tick = "reconcile" /\ turn = Idle
    /\ tasks = {}
    /\ faults = 0
    /\ raised = {}
    /\ ruling = [p \in Proposal |-> NoAnswer]
    /\ decisions = [p \in Proposal |-> 0]

Fault == faults < MaxFaults /\ faults' = faults + 1

\* Where an intent of the reply may be handled.
Replied(a) == tick = a /\ turn.stage \in {"asked", "routing"}

Then(place) ==
    CASE place = "reconcile" -> "orchestration"
      [] place = "orchestration" -> "critic"
      [] place = "critic" -> "upkeep"
      [] place = "upkeep" -> "reconcile"

-----------------------------------------------------------------------------
\* Verdicts

\* _VERDICT_COLLAPSE_ORDER
CollapseOrder == <<"approve", "reject", "advise", "needs_review">>

collapse_verdicts(present) ==
    CollapseOrder[CHOOSE i \in 1..4 :
        /\ CollapseOrder[i] \in present
        /\ \A j \in 1..(i - 1) : CollapseOrder[j] \notin present]

proceedable(answer) == {v \in Variant : answer[v] \in {"approve", "advise"}}

\* Mutant: the variants that may not run count as well.
collapse_all(answer) == collapse_verdicts({answer[v] : v \in Variant})

collapse_verdict_map(answer) ==
    LET may == proceedable(answer)
    IN  IF may # {} THEN collapse_verdicts({answer[v] : v \in may})
                    ELSE collapse_verdicts({answer[v] : v \in Variant})

-----------------------------------------------------------------------------
\* Raising proposals

\* record_proposal, first half: the row.  A turn can be cut short before the
\* proposal is put among the pending ones.
handle_propose_action(p) ==
    /\ Replied("orchestration")
    /\ Author[p] = "orchestration" /\ p \notin raised
    /\ append_and_seq("proposal", "orchestration", "*", p)
    /\ raised' = raised \cup {p}
    /\ turn' = Moved("register", p, NoAnswer)
    /\ UNCHANGED <<cursor, memory, tick, tasks, faults, ruling, decisions>>

record_proposal ==
    /\ turn.stage = "register"
    /\ pending' = pending \cup {turn.about}
    /\ turn' = Handled
    /\ UNCHANGED <<bus, rendered, tick, tasks, faults, history>>

\* A finished specialist's patch is proposed from beside the tick: the proposal
\* and an observation of it.  It is one step here: a crash on the way leaves the
\* proposal's row, which is all a restart looks at, and the pending entry is made
\* when the append returns, before the reply to any prompt can.
submit_integrate_review(p) ==
    /\ tick # "down"
    /\ Author[p] = "coordinator" /\ p \notin raised
    /\ last' = last + 2
    /\ events' = events \cup {Row(last + 1, "proposal", "coordinator", "*", p), Observation(last + 2)}
    /\ pending' = pending \cup {p}
    /\ raised' = raised \cup {p}
    /\ UNCHANGED <<cursor, rendered, tick, turn, tasks, faults, ruling, decisions>>

-----------------------------------------------------------------------------
\* A reactor turn

\* _augment_critic_inbox_with_pending: every pending proposal is shown again.
Rendered(a) ==
    IF a = "critic"
    THEN Unread(a) \cup {e \in events : e.topic = "proposal" /\ e.about \in pending}
    ELSE Unread(a)

\* _fit_to_budget: the oldest rows that fit; one line stands for one row.
Fitting(rows) == {e \in rows : Cardinality({d \in rows : d.seq < e.seq}) < Budget}

\* The newest of the unread rows shown.  A prompt that shows none of them leaves
\* the note of an earlier one, which may have come to nothing.
note_rendered(a, read) ==
    \/ read = {} /\ UNCHANGED rendered
    \/ \E newest \in read :
           /\ \A e \in read : e.seq <= newest.seq
           /\ rendered' = [rendered EXCEPT ![a] = newest.seq]

\* Mutant: the rows left out of the prompt are noted as shown too.
render_all_noted(a) ==
    LET shown == Fitting(Rendered(a))
        read == Unread(a)
    IN  /\ tick = a /\ turn = Idle
        /\ turn' = Asked({e.seq : e \in shown})
        /\ note_rendered(a, read)
        /\ UNCHANGED <<bus, pending, tick, tasks, faults, history>>

\* compose_turn: the prompt is built and what it showed of the unread is noted.
render_inbox_sections(a) ==
    LET shown == Fitting(Rendered(a))
        read == shown \cap Unread(a)
    IN  /\ tick = a /\ turn = Idle
        /\ turn' = Asked({e.seq : e \in shown})
        /\ note_rendered(a, read)
        /\ UNCHANGED <<bus, pending, tick, tasks, faults, history>>

\* The turn is not taken this tick: the backend is backed off, or nothing is new.
admit_turn(a) ==
    /\ tick = a /\ turn = Idle
    /\ Fault
    /\ tick' = Then(a)
    /\ UNCHANGED <<bus, memory, turn, tasks, history>>

\* A backend error: recorded, and the same rows are shown again next turn.
BackendError(a) ==
    /\ tick = a /\ turn.stage = "asked"
    /\ Fault
    /\ record_observation
    /\ tick' = Then(a) /\ turn' = Idle
    /\ UNCHANGED <<cursor, memory, tasks, history>>

\* The turn came back: what its prompt showed is read.
advance_rendered_cursor(a) == advance(a, rendered[a])

\* No intent in the reply: recorded, and the rows still count as read.
NoIntentEmitted(a) ==
    /\ tick = a /\ turn.stage = "asked"
    /\ Fault
    /\ record_observation
    /\ advance_rendered_cursor(a)
    /\ tick' = Then(a) /\ turn' = Idle
    /\ UNCHANGED <<memory, tasks, history>>

settle_routed_turn(a) ==
    /\ Replied(a)
    /\ advance_rendered_cursor(a)
    /\ tick' = Then(a) /\ turn' = Idle
    /\ UNCHANGED <<events, last, memory, tasks, faults, history>>

\* await_within_session_bound: the turn runs out of time at one of its awaits.
TurnCancelled(a) ==
    /\ tick = a /\ turn # Idle
    /\ Fault
    /\ tick' = Then(a) /\ turn' = Idle
    /\ UNCHANGED <<bus, memory, tasks, history>>

-----------------------------------------------------------------------------
\* The Critic's verdict

\* A verdict on a proposal nobody holds pending is only noted.
VerdictForUnknown(p) ==
    /\ Replied("critic")
    /\ p \in raised \ pending
    /\ Fault
    /\ record_observation
    /\ UNCHANGED <<cursor, memory, tick, turn, tasks, history>>

handle_review_verdict(p, answer) ==
    /\ Replied("critic")
    /\ p \in pending
    /\ pending' = pending \ {p}
    /\ turn' = Moved("decide", p, answer)
    /\ UNCHANGED <<bus, rendered, tick, tasks, faults, history>>

\* The verdict row is what makes the decision durable.
rebroadcast_verdict ==
    LET p == turn.about
    IN  /\ turn.stage = "decide"
        /\ append_and_seq("review_verdict", "critic", Author[p], p)
        /\ ruling' = [ruling EXCEPT ![p] = turn.answer]
        /\ decisions' = [decisions EXCEPT ![p] = @ + 1]
        /\ turn' = Moved("apply", p, turn.answer)
        /\ UNCHANGED <<cursor, memory, tick, tasks, faults, raised>>

\* The handler of one intent raised: recorded, and the turn goes on.
HandlerFailed ==
    /\ turn.stage \in {"decide", "apply", "announce"}
    /\ Fault
    /\ record_observation
    /\ turn' = Handled
    /\ UNCHANGED <<cursor, memory, tick, tasks, history>>

Proceeds == collapse_verdict_map(turn.answer) \in {"approve", "advise"}

\* reject and needs_review end the proposal here; what they re-arm or send back
\* to an author belongs to the lanes.
NotProceeding ==
    /\ turn.stage = "apply" /\ ~Proceeds
    /\ turn' = Handled
    /\ UNCHANGED <<bus, memory, tick, tasks, faults, history>>

-----------------------------------------------------------------------------
\* Materialising an approved proposal

\* Mutant: the whole grid runs.
materialize_unfiltered ==
    /\ turn.stage = "apply" /\ Proceeds
    /\ tasks' = tasks \cup {[from |-> turn.about, grid |-> Variant]}
    /\ turn' = Moved("announce", turn.about, NoAnswer)
    /\ UNCHANGED <<bus, memory, tick, faults, history>>

\* apply_critic_grid_filter and create_on_free_key: the task measures the
\* variants that may proceed, whatever the batch as a whole collapsed to.
materialize_approved_proposal ==
    /\ turn.stage = "apply" /\ Proceeds
    /\ tasks' = tasks \cup {[from |-> turn.about, grid |-> proceedable(turn.answer)]}
    /\ turn' = Moved("announce", turn.about, NoAnswer)
    /\ UNCHANGED <<bus, memory, tick, faults, history>>

\* A twin answers it, its keys are exhausted, or the work may no longer run.
record_materialize_skipped ==
    /\ turn.stage = "apply" /\ Proceeds
    /\ record_observation
    /\ turn' = Handled
    /\ UNCHANGED <<cursor, memory, tick, tasks, faults, history>>

announce_approved_proposal ==
    /\ turn.stage = "announce"
    /\ append_and_seq("decision", "coordinator", "*", turn.about)
    /\ turn' = Handled
    /\ UNCHANGED <<cursor, memory, tick, tasks, faults, history>>

-----------------------------------------------------------------------------
\* The reconciler, retention, crash and restart

\* Mutants: the denied proposal stays pending; only pending ones are denied.
deny_keeps_pending(p) ==
    /\ tick = "reconcile" /\ p \in Undecided
    /\ append_and_seq("review_verdict", "coordinator", Author[p], p)
    /\ decisions' = [decisions EXCEPT ![p] = @ + 1]
    /\ UNCHANGED <<cursor, memory, tick, turn, tasks, faults, raised, ruling>>

deny_pending_only(p) ==
    /\ tick = "reconcile" /\ p \in Undecided \cap pending
    /\ append_and_seq("review_verdict", "coordinator", Author[p], p)
    /\ pending' = pending \ {p}
    /\ decisions' = [decisions EXCEPT ![p] = @ + 1]
    /\ UNCHANGED <<cursor, rendered, tick, turn, tasks, faults, raised, ruling>>

\* The review timeout: a proposal nobody answered in REVIEW_TTL_SEC is denied.
\* Which proposals have waited that long is left open.
author_timeout_deny(p) ==
    /\ tick = "reconcile" /\ p \in Undecided
    /\ append_and_seq("review_verdict", "coordinator", Author[p], p)
    /\ pending' = pending \ {p}
    /\ decisions' = [decisions EXCEPT ![p] = @ + 1]
    /\ UNCHANGED <<cursor, rendered, tick, turn, tasks, faults, raised, ruling>>

ReconcilerEnds ==
    /\ tick = "reconcile"
    /\ tick' = Then(tick)
    /\ UNCHANGED <<bus, memory, turn, tasks, faults, history>>

PruneEvents ==
    /\ tick = "upkeep"
    /\ prune_events
    /\ UNCHANGED <<memory, tick, turn, tasks, faults, history>>

UpkeepEnds ==
    /\ tick = "upkeep"
    /\ tick' = Then(tick)
    /\ UNCHANGED <<bus, memory, turn, tasks, faults, history>>

Crash ==
    /\ tick # "down"
    /\ Fault
    /\ tick' = "down" /\ turn' = Idle
    /\ pending' = {} /\ rendered' = [a \in Agent |-> 0]
    /\ UNCHANGED <<bus, tasks, history>>

\* Mutant: the verdicts in the log are not looked at.
replay_all_proposals ==
    /\ tick = "down"
    /\ pending' = {p \in Proposal : Raised(p)}
    /\ tick' = "reconcile"
    /\ UNCHANGED <<bus, rendered, turn, tasks, faults, history>>

\* replay_for_resume: the log says which proposals still wait.
replay_for_resume ==
    /\ tick = "down"
    /\ pending' = Undecided
    /\ tick' = "reconcile"
    /\ UNCHANGED <<bus, rendered, turn, tasks, faults, history>>

-----------------------------------------------------------------------------
Turn(a) ==
    \/ render_inbox_sections(a) \/ settle_routed_turn(a)
    \/ admit_turn(a) \/ BackendError(a) \/ NoIntentEmitted(a) \/ TurnCancelled(a)

Next ==
    \/ \E a \in Agent : Turn(a)
    \/ \E p \in Proposal :
           \/ handle_propose_action(p) \/ submit_integrate_review(p)
           \/ VerdictForUnknown(p) \/ author_timeout_deny(p)
           \/ \E answer \in Answer : handle_review_verdict(p, answer)
    \/ record_proposal
    \/ rebroadcast_verdict \/ HandlerFailed \/ NotProceeding
    \/ materialize_approved_proposal \/ record_materialize_skipped
    \/ announce_approved_proposal
    \/ ReconcilerEnds \/ PruneEvents \/ UpkeepEnds
    \/ Crash \/ replay_for_resume

Spec == Init /\ [][Next]_vars

\* What the tick does when nothing goes wrong.
Progress ==
    \/ \E a \in Agent : render_inbox_sections(a) \/ settle_routed_turn(a)
    \/ record_proposal \/ rebroadcast_verdict \/ NotProceeding
    \/ materialize_approved_proposal \/ record_materialize_skipped
    \/ announce_approved_proposal
    \/ ReconcilerEnds \/ UpkeepEnds \/ replay_for_resume

\* The tick goes on, a coordinator that went down is started again, and a
\* proposal that no verdict reaches is past its time at some later pass.
Fairness ==
    /\ WF_vars(Progress)
    /\ \A p \in Proposal : SF_vars(author_timeout_deny(p))

FairSpec == Spec /\ Fairness

-----------------------------------------------------------------------------
\* What the session promises about reviews

Stage == {"idle", "asked", "routing", "register", "decide", "apply", "announce"}

TypeOK ==
    /\ events \subseteq Event /\ last \in Nat /\ cursor \in [Agent -> Nat]
    /\ pending \subseteq Proposal /\ rendered \in [Agent -> Nat]
    /\ tick \in {"down", "reconcile", "orchestration", "critic", "upkeep"}
    /\ turn \in [stage : Stage, about : Proposal \cup {NoProposal},
                answer : Answer \cup {NoAnswer}, shown : SUBSET Nat]
    /\ raised \subseteq Proposal /\ ruling \in [Proposal -> Answer \cup {NoAnswer}]
    /\ decisions \in [Proposal -> Nat]
    /\ tasks \subseteq [from : Proposal, grid : SUBSET Variant] /\ faults \in Nat

\* A proposal is decided at most once, whatever is replayed, repeated, timed out
\* or deleted from the log in between.
DecidedOnce == \A p \in Proposal : decisions[p] <= 1

\* A proposal that waits for its verdict is not lost: retention, restarts and
\* turns cut short leave its row in the log until it is decided.
UndecidedKept == \A p \in raised : decisions[p] = 0 => Raised(p)

\* What is offered to the Critic is still open: no pending proposal has been
\* decided, and no restart brings a decided one back, though retention deletes
\* verdicts.
OfferedStillOpen == \A p \in pending : Raised(p) /\ decisions[p] = 0

\* A cursor passes only what was read: an unread message that a turn's end leaves
\* behind the cursor was in the prompt of that turn, whatever prompts that came
\* to nothing had shown before.
NothingSkipped ==
    [][\A a \in Agent : \A e \in Unread(a) : e.seq <= cursor'[a] => e.seq \in turn.shown]_vars

\* One variant that may run carries its proposal: a reject of its siblings does
\* not sink it, and a review that lets no variant run lets none through.
OneGoodVariantCarries ==
    turn.stage = "apply" =>
        (Proceeds <=> \E i \in Variant : ruling[turn.about][i] \in {"approve", "advise"})

\* Every raised proposal is decided in the end: a verdict lost on its way is
\* replaced by the timeout.
EveryProposalDecided == \A p \in Proposal : p \in raised ~> decisions[p] > 0

\* Every message is read in the end, unless retention deletes it first: pending
\* proposals that are shown again cannot keep newer messages out for good.
InboxDrains == \A a \in Agent : Unread(a) # {} ~> Unread(a) = {}

-----------------------------------------------------------------------------
\* The review as its users know it.

StatusOf(p) ==
    IF p \notin raised THEN "none" ELSE IF decisions[p] = 0 THEN "open" ELSE "decided"
AllowedOf(p) ==
    {i \in Variant : ruling[p] # NoAnswer /\ ruling[p][i] \in {"approve", "advise"}}

Promised == INSTANCE ReviewPromise WITH
    status <- [p \in Proposal |-> StatusOf(p)],
    allowed <- [p \in Proposal |-> AllowedOf(p)],
    work <- tasks

\* The desk keeps the promise: a proposal is decided once, only after it was
\* raised; only a granted one becomes work, once, and only with the variants
\* its own review let through.
ReviewPromised == Promised!Spec
=============================================================================
