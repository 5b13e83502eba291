-------------------------- MODULE ReviewDeskProofs --------------------------
(***************************************************************************)
(* Proofs about ReviewDesk for any proposals, variants, answers and bounds: *)
(* type correctness, the invariants of the review, what the read cursors    *)
(* pass, and that the desk implements ReviewPromise.                        *)
(***************************************************************************)
EXTENDS ReviewDesk, FiniteSetTheorems, TLAPS

\* The log agrees with what happened: every verdict is younger than its
\* proposal, so retention that deletes the verdict deletes the proposal too, and
\* a decided proposal whose row is still there can be seen to be decided.
LogOK ==
    /\ \A e \in events : e.seq <= last
    /\ \A e \in events : e.topic = "proposal" => e.about \in raised
    /\ \A e \in events : e.topic = "review_verdict" => e.about \in Proposal /\ decisions[e.about] > 0
    /\ \A e, d \in events : /\ e.topic = "proposal" /\ d.topic = "review_verdict"
                            /\ e.about = d.about
                            => e.seq < d.seq
    /\ \A p \in Proposal : Raised(p) /\ decisions[p] > 0 => Decided(p)

BookOK ==
    /\ DecidedOnce
    /\ UndecidedKept
    /\ \A p \in Proposal : decisions[p] > 0 => p \in raised
    /\ \A p \in Proposal : ruling[p] # NoAnswer => decisions[p] > 0
    /\ \A t \in tasks : decisions[t.from] > 0

\* What is in the hand of a turn at each of its stages.
InHand == {"register", "decide", "apply", "announce"}
TurnOK ==
    /\ turn.stage \in InHand => turn.about \in raised
    /\ turn.stage \in {"decide", "apply"} => turn.answer \in Answer
    /\ turn.stage = "register" => tick = "orchestration"
    /\ turn.stage \in {"decide", "apply", "announce"} => tick = "critic"
    /\ turn.stage \in {"register", "decide"} => Raised(turn.about) /\ decisions[turn.about] = 0
    /\ turn.stage = "decide" => turn.about \notin pending
    /\ turn.stage = "apply" =>
           /\ decisions[turn.about] = 1 /\ ruling[turn.about] = turn.answer
           /\ \A t \in tasks : t.from # turn.about

IInv == TypeOK /\ LogOK /\ BookOK /\ OfferedStillOpen /\ TurnOK

-----------------------------------------------------------------------------
\* Type correctness

TurnType == [stage : Stage, about : Proposal \cup {NoProposal},
             answer : Answer \cup {NoAnswer}, shown : SUBSET Nat]

\* A row that is appended has the type of a row.
LEMMA RowType ==
    ASSUME NEW n \in Nat, NEW topic \in Topic, NEW from \in Party, NEW to \in Party \cup {"*"},
           NEW about \in Proposal \cup {NoProposal}
    PROVE  Row(n, topic, from, to, about) \in Event
  BY DEF Row, Event

\* Every stage a turn moves to has the type of a turn.
LEMMA TurnTypes ==
    ASSUME turn \in TurnType
    PROVE  /\ Idle \in TurnType
           /\ \A s \in SUBSET Nat : Asked(s) \in TurnType
           /\ \A stage \in Stage, p \in Proposal \cup {NoProposal}, ans \in Answer \cup {NoAnswer} :
                  Moved(stage, p, ans) \in TurnType
           /\ Handled \in TurnType
  BY DEF TurnType, Idle, Asked, Moved, Handled, Stage

\* The place after a place of the tick is a place of the tick.
LEMMA ThenType == \A x \in {"reconcile", "orchestration", "critic", "upkeep"} :
    Then(x) \in {"reconcile", "orchestration", "critic", "upkeep"}
  BY DEF Then

Places == {"reconcile", "orchestration", "critic", "upkeep"}

\* What the bus operations do to the types of the log.
LEMMA AppendType ==
    ASSUME events \subseteq Event, last \in Nat,
           NEW topic \in Topic, NEW from \in Party, NEW to \in Party \cup {"*"},
           NEW about \in Proposal \cup {NoProposal}, append_and_seq(topic, from, to, about)
    PROVE  events' \subseteq Event /\ last' \in Nat
<1>1. last + 1 \in Nat
  OBVIOUS
<1>2. Row(last + 1, topic, from, to, about) \in Event
  BY <1>1, RowType
<1> QED BY <1>1, <1>2, Zenon DEF append_and_seq

\* An observation is a row like any other.
LEMMA ObservationType ==
    ASSUME events \subseteq Event, last \in Nat, record_observation
    PROVE  events' \subseteq Event /\ last' \in Nat
<1>1. last + 1 \in Nat
  OBVIOUS
<1>2. Observation(last + 1) \in Event
  BY <1>1, RowType DEF Observation, Topic, Party
<1> QED BY <1>1, <1>2, Zenon DEF record_observation

\* A fault is counted in the naturals.
LEMMA FaultType == ASSUME faults \in Nat, Fault PROVE faults' \in Nat
  BY DEF Fault

\* Every step keeps the types.
LEMMA TypeStep == ASSUME TypeOK, TurnOK, [Next]_vars PROVE TypeOK'
<1>t. /\ events \subseteq Event /\ last \in Nat /\ cursor \in [Agent -> Nat]
      /\ pending \subseteq Proposal /\ rendered \in [Agent -> Nat]
      /\ tick \in {"down"} \cup Places /\ turn \in TurnType
      /\ raised \subseteq Proposal /\ ruling \in [Proposal -> Answer \cup {NoAnswer}]
      /\ decisions \in [Proposal -> Nat] /\ tasks \subseteq [from : Proposal, grid : SUBSET Variant]
      /\ faults \in Nat
  BY Zenon DEF TypeOK, TurnType, Places
<1>g. SUFFICES
      /\ events' \subseteq Event /\ last' \in Nat /\ cursor' \in [Agent -> Nat]
      /\ pending' \subseteq Proposal /\ rendered' \in [Agent -> Nat]
      /\ tick' \in {"down"} \cup Places /\ turn' \in TurnType
      /\ raised' \subseteq Proposal /\ ruling' \in [Proposal -> Answer \cup {NoAnswer}]
      /\ decisions' \in [Proposal -> Nat] /\ tasks' \subseteq [from : Proposal, grid : SUBSET Variant]
      /\ faults' \in Nat
  BY Zenon DEF TypeOK, TurnType, Places
<1>n. \A x \in Places : Then(x) \in Places
  BY ThenType, Zenon DEF Places
<1>a. Agent \subseteq Places
  BY Zenon DEF Agent, Places
<1>s. /\ "proposal" \in Topic /\ "review_verdict" \in Topic /\ "decision" \in Topic
      /\ "orchestration" \in Party /\ "critic" \in Party /\ "coordinator" \in Party
      /\ "*" \in Party \cup {"*"} /\ \A p \in Proposal : Author[p] \in Party \cup {"*"}
      /\ "register" \in Stage /\ "decide" \in Stage /\ "apply" \in Stage /\ "announce" \in Stage
  BY AuthorsRaise, Zenon DEF Topic, Party, Agent, Stage
<1>f. turn.about \in Proposal \cup {NoProposal} /\ turn.answer \in Answer \cup {NoAnswer}
  BY <1>t DEF TurnType
<1>h. turn.stage \in InHand => turn.about \in Proposal
  BY <1>t, Zenon DEF TurnOK
<1> USE <1>t DEF bus, memory, history
<1>1. ASSUME NEW a \in Agent, render_inbox_sections(a) PROVE <1>g!1
  <2>1. PICK rows \in SUBSET events : turn' = Asked({e.seq : e \in rows})
    BY <1>1, Zenon DEF render_inbox_sections, Fitting, Rendered, Unread
  <2>2. {e.seq : e \in rows} \in SUBSET Nat
    BY DEF Event
  <2>3. turn' \in TurnType
    BY <2>1, <2>2, TurnTypes, Zenon
  <2>4. rendered' \in [Agent -> Nat]
    <3>1. \A e \in events : e.seq \in Nat
      BY DEF Event
    <3> QED BY <1>1, <3>1, Zenon DEF render_inbox_sections, note_rendered, Unread
  <2> QED BY <1>1, <2>3, <2>4, Zenon DEF render_inbox_sections
<1>2. ASSUME NEW a \in Agent, admit_turn(a) PROVE <1>g!1
  BY <1>2, <1>n, <1>a, TurnTypes, ObservationType, FaultType, Zenon
     DEF admit_turn, advance_rendered_cursor, advance
<1>3. ASSUME NEW a \in Agent, BackendError(a) PROVE <1>g!1
  BY <1>3, <1>n, <1>a, TurnTypes, ObservationType, FaultType, Zenon
     DEF BackendError, advance_rendered_cursor, advance
<1>4. ASSUME NEW a \in Agent, NoIntentEmitted(a) PROVE <1>g!1
  BY <1>4, <1>n, <1>a, TurnTypes, ObservationType, FaultType, Zenon
     DEF NoIntentEmitted, advance_rendered_cursor, advance
<1>5. ASSUME NEW a \in Agent, settle_routed_turn(a) PROVE <1>g!1
  BY <1>5, <1>n, <1>a, TurnTypes, ObservationType, FaultType, Zenon
     DEF settle_routed_turn, advance_rendered_cursor, advance
<1>6. ASSUME NEW a \in Agent, TurnCancelled(a) PROVE <1>g!1
  BY <1>6, <1>n, <1>a, TurnTypes, ObservationType, FaultType, Zenon
     DEF TurnCancelled, advance_rendered_cursor, advance
<1>7. ASSUME NEW p \in Proposal, handle_propose_action(p) PROVE <1>g!1
  <2>1. events' \subseteq Event /\ last' \in Nat
    BY <1>7, <1>s, AppendType, Zenon DEF handle_propose_action
  <2> QED BY <1>7, <1>s, <2>1, TurnTypes, Zenon DEF handle_propose_action
<1>8. ASSUME NEW p \in Proposal, submit_integrate_review(p) PROVE <1>g!1
  <2>1. last + 1 \in Nat /\ last + 2 \in Nat
    OBVIOUS
  <2>2. Row(last + 1, "proposal", "coordinator", "*", p) \in Event
    BY <1>s, <2>1, RowType, Zenon
  <2>3. Observation(last + 2) \in Event
    BY <2>1, RowType, Zenon DEF Observation, Topic, Party
  <2> QED BY <1>8, <2>1, <2>2, <2>3, Zenon DEF submit_integrate_review
<1>9. ASSUME NEW p \in Proposal, VerdictForUnknown(p) PROVE <1>g!1
  BY <1>9, <1>n, <1>a, TurnTypes, ObservationType, FaultType, Zenon
     DEF VerdictForUnknown, advance_rendered_cursor, advance
<1>10. ASSUME NEW p \in Proposal, author_timeout_deny(p) PROVE <1>g!1
  <2>1. events' \subseteq Event /\ last' \in Nat
    BY <1>10, <1>s, AppendType, Zenon DEF author_timeout_deny
  <2>2. decisions' \in [Proposal -> Nat]
    BY <1>10 DEF author_timeout_deny
  <2> QED BY <1>10, <2>1, <2>2, Zenon DEF author_timeout_deny
<1>11. ASSUME NEW p \in Proposal, NEW answer \in Answer, handle_review_verdict(p, answer) PROVE <1>g!1
  BY <1>11, <1>s, TurnTypes, Zenon DEF handle_review_verdict
<1>12. ASSUME record_proposal PROVE <1>g!1
  BY <1>12, <1>h, TurnTypes, Zenon DEF record_proposal, InHand
<1>13. ASSUME rebroadcast_verdict PROVE <1>g!1
  <2>1. turn.about \in Proposal
    BY <1>13, <1>h, Zenon DEF rebroadcast_verdict, InHand
  <2>2. events' \subseteq Event /\ last' \in Nat
    BY <1>13, <1>s, <2>1, AppendType, Zenon DEF rebroadcast_verdict
  <2>3. decisions' \in [Proposal -> Nat] /\ ruling' \in [Proposal -> Answer \cup {NoAnswer}]
    BY <1>13, <1>f, <2>1 DEF rebroadcast_verdict
  <2> QED BY <1>13, <1>s, <1>f, <2>1, <2>2, <2>3, TurnTypes, Zenon DEF rebroadcast_verdict
<1>14. ASSUME HandlerFailed PROVE <1>g!1
  BY <1>14, <1>n, <1>a, TurnTypes, ObservationType, FaultType, Zenon
     DEF HandlerFailed, advance_rendered_cursor, advance
<1>15. ASSUME NotProceeding PROVE <1>g!1
  BY <1>15, <1>n, <1>a, TurnTypes, ObservationType, FaultType, Zenon
     DEF NotProceeding, advance_rendered_cursor, advance
<1>16. ASSUME materialize_approved_proposal PROVE <1>g!1
  <2>1. turn.about \in Proposal
    BY <1>16, <1>h, Zenon DEF materialize_approved_proposal, InHand
  <2>2. [from |-> turn.about, grid |-> proceedable(turn.answer)] \in [from : Proposal, grid : SUBSET Variant]
    BY <2>1, Zenon DEF proceedable
  <2> QED BY <1>16, <1>s, <2>1, <2>2, TurnTypes, Zenon DEF materialize_approved_proposal
<1>17. ASSUME record_materialize_skipped PROVE <1>g!1
  BY <1>17, <1>n, <1>a, TurnTypes, ObservationType, FaultType, Zenon
     DEF record_materialize_skipped, advance_rendered_cursor, advance
<1>18. ASSUME announce_approved_proposal PROVE <1>g!1
  <2>1. turn.about \in Proposal
    BY <1>18, <1>h, Zenon DEF announce_approved_proposal, InHand
  <2>2. events' \subseteq Event /\ last' \in Nat
    BY <1>18, <1>s, <2>1, AppendType, Zenon DEF announce_approved_proposal
  <2> QED BY <1>18, <2>2, TurnTypes, Zenon DEF announce_approved_proposal
<1>19. ASSUME ReconcilerEnds PROVE <1>g!1
  BY <1>19, <1>n, <1>a, TurnTypes, ObservationType, FaultType, Zenon
     DEF ReconcilerEnds, advance_rendered_cursor, advance
<1>20. ASSUME PruneEvents PROVE <1>g!1
  BY <1>20, Zenon DEF PruneEvents, prune_events
<1>21. ASSUME UpkeepEnds PROVE <1>g!1
  BY <1>21, <1>n, <1>a, TurnTypes, ObservationType, FaultType, Zenon
     DEF UpkeepEnds, advance_rendered_cursor, advance
<1>22. ASSUME Crash PROVE <1>g!1
  BY <1>22, <1>n, <1>a, TurnTypes, ObservationType, FaultType, Zenon
     DEF Crash, advance_rendered_cursor, advance
<1>23. ASSUME replay_for_resume PROVE <1>g!1
  BY <1>23, Zenon DEF replay_for_resume, Undecided, Places
<1>24. CASE UNCHANGED vars
  BY <1>24, Zenon DEF vars
<1> QED BY <1>1, <1>2, <1>3, <1>4, <1>5, <1>6, <1>7, <1>8, <1>9, <1>10, <1>11, <1>12, <1>13, <1>14,
           <1>15, <1>16, <1>17, <1>18, <1>19, <1>20, <1>21, <1>22, <1>23, <1>24, Zenon
           DEF Next, Turn

-----------------------------------------------------------------------------
\* The inductive invariant

Rest == LogOK /\ BookOK /\ OfferedStillOpen /\ TurnOK

\* What a row at the end of the log changes in who is raised and who is decided.
LEMMA AddRow ==
    ASSUME NEW r, events' = events \cup {r}, NEW p
    PROVE  /\ Raised(p)' <=> Raised(p) \/ (r.topic = "proposal" /\ r.about = p)
           /\ Decided(p)' <=> Decided(p) \/ (r.topic = "review_verdict" /\ r.about = p)
  BY Zenon DEF Raised, Decided

\* Steps that write nothing that the review goes by.
LEMMA QuietStep ==
    ASSUME IInv, TypeOK', UNCHANGED <<events, last, raised, ruling, decisions, tasks>>,
           pending' \subseteq pending, turn'.stage \notin InHand
    PROVE  Rest'
<1>1. \A p : (Raised(p)' <=> Raised(p)) /\ (Decided(p)' <=> Decided(p))
  BY Zenon DEF Raised, Decided
<1>2. LogOK'
  BY <1>1, Zenon DEF IInv, LogOK
<1>3. BookOK'
  BY <1>1, Zenon DEF IInv, BookOK, DecidedOnce, UndecidedKept
<1>4. OfferedStillOpen'
  BY <1>1, Zenon DEF IInv, OfferedStillOpen
<1>5. TurnOK'
  BY Zenon DEF TurnOK, InHand
<1> QED BY <1>2, <1>3, <1>4, <1>5, Zenon DEF Rest

\* Steps that append a row that is neither a proposal nor a verdict.
LEMMA InertStep ==
    ASSUME IInv, TypeOK', UNCHANGED <<raised, ruling, decisions, tasks, pending>>,
           NEW topic \in {"observation", "decision"}, NEW from, NEW to, NEW about,
           last' = last + 1, events' = events \cup {Row(last + 1, topic, from, to, about)},
           turn'.stage \notin InHand
    PROVE  Rest'
<1> DEFINE r == Row(last + 1, topic, from, to, about)
<1>0. r.seq = last + 1 /\ r.topic = topic /\ topic # "proposal" /\ topic # "review_verdict"
  BY DEF Row
<1>1. \A p : (Raised(p)' <=> Raised(p)) /\ (Decided(p)' <=> Decided(p))
  BY <1>0, AddRow, Zenon
<1>2. \A e \in events' : e \in events \/ e = r
  BY Zenon
<1>3. \A e \in events' : e.seq <= last'
  <2>1. \A e \in events : e.seq \in Nat /\ e.seq <= last
    BY DEF IInv, TypeOK, LogOK, Event
  <2>2. last \in Nat
    BY DEF IInv, TypeOK
  <2> HIDE DEF r
  <2> QED BY <1>0, <1>2, <2>1, <2>2
<1> HIDE DEF r
<1>4. LogOK'
  <2>1. \A e \in events' : e.topic \in {"proposal", "review_verdict"} => e \in events
    BY <1>0, <1>2, Zenon
  <2> QED BY <1>1, <1>3, <2>1, Zenon DEF IInv, LogOK
<1>5. BookOK'
  BY <1>1, Zenon DEF IInv, BookOK, DecidedOnce, UndecidedKept
<1>6. OfferedStillOpen'
  BY <1>1, Zenon DEF IInv, OfferedStillOpen
<1>7. TurnOK'
  BY Zenon DEF TurnOK, InHand
<1> QED BY <1>4, <1>5, <1>6, <1>7, Zenon DEF Rest

\* A new proposal's row, with what else is written beside it.
LEMMA ProposalRow ==
    ASSUME IInv, TypeOK', NEW p \in Proposal, p \notin raised, raised' = raised \cup {p},
           UNCHANGED <<ruling, decisions, tasks>>,
           NEW r, r.seq = last + 1, r.topic = "proposal", r.about = p,
           NEW S, \A e \in S : e.topic = "observation" /\ e.seq <= last',
           last + 1 <= last', events' = (events \cup {r}) \cup S
    PROVE  /\ LogOK' /\ BookOK'
           /\ decisions[p] = 0 /\ ~Raised(p)
           /\ \A q : Raised(q)' <=> Raised(q) \/ q = p
<1>0. last \in Nat /\ last' \in Nat /\ \A e \in events : e.seq \in Nat /\ e.seq <= last
  BY DEF IInv, TypeOK, LogOK, Event
<1>1. decisions[p] = 0
  BY DEF IInv, TypeOK, BookOK
<1>2. \A e \in events : e.about = p => e.topic \notin {"proposal", "review_verdict"}
  <2>1. ~(decisions[p] > 0)
    BY <1>1
  <2> QED BY <2>1, Zenon DEF IInv, LogOK
<1>3. \A e \in events' : e.topic \in {"proposal", "review_verdict"} => e \in events \/ e = r
  BY Zenon
<1>4. \A q : /\ Raised(q)' <=> Raised(q) \/ q = p
             /\ Decided(q)' <=> Decided(q)
  BY <1>3, Zenon DEF Raised, Decided
<1>5. LogOK'
  <2>1. \A e \in events' : e.seq <= last'
    BY <1>0
  <2>2. \A e \in events' : e.topic = "proposal" => e.about \in raised'
    BY <1>3, Zenon DEF IInv, LogOK
  <2>3. \A e \in events' : e.topic = "review_verdict" => e \in events
    BY <1>3, Zenon
  <2>4. \A e, d \in events' :
           e.topic = "proposal" /\ d.topic = "review_verdict" /\ e.about = d.about => e.seq < d.seq
    BY <1>2, <1>3, <2>3, Zenon DEF IInv, LogOK
  <2>5. \A q \in Proposal : Raised(q)' /\ decisions'[q] > 0 => Decided(q)'
    <3>1. ~(decisions[p] > 0)
      BY <1>1
    <3> QED BY <1>4, <3>1, Zenon DEF IInv, LogOK
  <2> QED BY <2>1, <2>2, <2>3, <2>4, <2>5, Zenon DEF IInv, LogOK
<1>6. BookOK'
  BY <1>4, Zenon DEF IInv, BookOK, DecidedOnce, UndecidedKept
<1> QED BY <1>1, <1>2, <1>4, <1>5, <1>6, Zenon DEF Raised

\* A verdict's row on an open proposal.
LEMMA VerdictRow ==
    ASSUME IInv, TypeOK', NEW p \in raised, decisions[p] = 0,
           decisions' = [decisions EXCEPT ![p] = @ + 1],
           \A q \in Proposal : q # p => ruling'[q] = ruling[q],
           UNCHANGED <<raised, tasks>>,
           NEW from, NEW to, append_and_seq("review_verdict", from, to, p)
    PROVE  /\ LogOK' /\ BookOK'
           /\ \A q : Raised(q)' <=> Raised(q)
           /\ decisions'[p] = 1 /\ \A q \in Proposal : q # p => decisions'[q] = decisions[q]
<1> DEFINE r == Row(last + 1, "review_verdict", from, to, p)
<1>0. last \in Nat /\ last' = last + 1 /\ \A e \in events : e.seq \in Nat /\ e.seq <= last
  BY DEF IInv, TypeOK, LogOK, Event, append_and_seq
<1>1. r.seq = last + 1 /\ r.topic = "review_verdict" /\ r.about = p
  BY DEF Row
<1>2. events' = events \cup {r}
  BY DEF append_and_seq
<1> HIDE DEF r
<1>3. p \in Proposal
  BY Zenon DEF IInv, TypeOK
<1>4. decisions'[p] = 1 /\ \A q \in Proposal : q # p => decisions'[q] = decisions[q]
  BY <1>3 DEF IInv, TypeOK
<1>5. \A q : /\ Raised(q)' <=> Raised(q)
             /\ Decided(q)' <=> Decided(q) \/ q = p
  BY <1>1, <1>2, AddRow, Zenon
<1>p. decisions'[p] > 0
  BY <1>4
<1>6. LogOK'
  <2>1. \A e \in events' : e.seq <= last'
    BY <1>0, <1>1, <1>2
  <2>2. \A e \in events' : e.topic = "proposal" => e \in events
    BY <1>1, <1>2, Zenon
  <2>3. \A e \in events' : e.topic = "review_verdict" => e.about \in Proposal /\ decisions'[e.about] > 0
    BY <1>1, <1>2, <1>3, <1>4, <1>p, Zenon DEF IInv, LogOK
  <2>4. \A e, d \in events' :
           e.topic = "proposal" /\ d.topic = "review_verdict" /\ e.about = d.about => e.seq < d.seq
    <3>1. \A e \in events : e.seq < r.seq
      BY <1>0, <1>1
    <3> QED BY <1>2, <2>2, <3>1, Zenon DEF IInv, LogOK
  <2>5. \A q \in Proposal : Raised(q)' /\ decisions'[q] > 0 => Decided(q)'
    BY <1>4, <1>5, Zenon DEF IInv, LogOK
  <2> QED BY <2>1, <2>2, <2>3, <2>4, <2>5, Zenon DEF IInv, LogOK
<1>7. BookOK'
  <2>1. DecidedOnce'
    BY <1>4 DEF IInv, BookOK, DecidedOnce
  <2>2. UndecidedKept'
    <3>1. decisions'[p] # 0
      BY <1>4
    <3> QED BY <1>4, <1>5, <3>1, Zenon DEF IInv, TypeOK, BookOK, UndecidedKept
  <2>3. \A t \in tasks : t.from \in Proposal
    BY DEF IInv, TypeOK
  <2> QED BY <1>4, <1>p, <2>1, <2>2, <2>3, Zenon DEF IInv, BookOK
<1> QED BY <1>4, <1>5, <1>6, <1>7, Zenon

\* The fields of the records a turn moves through.
LEMMA Fields ==
    /\ Idle.stage = "idle" /\ Handled.stage = "routing"
    /\ \A seqs : Asked(seqs).stage = "asked"
    /\ \A stage, p, ans : /\ Moved(stage, p, ans).stage = stage
                          /\ Moved(stage, p, ans).about = p
                          /\ Moved(stage, p, ans).answer = ans
  BY DEF Idle, Handled, Asked, Moved

\* Orchestration proposes: the row is there, the pending entry follows.
LEMMA ProposeKeeps ==
    ASSUME IInv, TypeOK', NEW p \in Proposal, handle_propose_action(p) PROVE Rest'
<1> DEFINE r == Row(last + 1, "proposal", "orchestration", "*", p)
           S == {}
<1>0. \A e \in S : e.topic = "observation" /\ e.seq <= last'
  BY Zenon
<1>1. r.seq = last + 1 /\ r.topic = "proposal" /\ r.about = p
  BY DEF Row
<1>2. events' = (events \cup {r}) \cup S /\ last' = last + 1 /\ p \notin raised /\ raised' = raised \cup {p}
  BY Zenon DEF handle_propose_action, append_and_seq
<1> HIDE DEF r, S
<1>3. /\ LogOK' /\ BookOK' /\ decisions[p] = 0 /\ ~Raised(p)
      /\ \A q : Raised(q)' <=> Raised(q) \/ q = p
  <2>1. last + 1 <= last'
    BY <1>2 DEF IInv, TypeOK
  <2> QED BY <1>0, <1>1, <1>2, <2>1, ProposalRow, Zenon DEF handle_propose_action
<1>4. OfferedStillOpen'
  BY <1>3, Zenon DEF handle_propose_action, memory, IInv, OfferedStillOpen
<1>5. TurnOK'
  <2>1. turn'.stage = "register" /\ turn'.about = p
    BY DEF handle_propose_action, Moved
  <2>2. tick' = "orchestration"
    BY Zenon DEF handle_propose_action, Replied
  <2> QED BY <1>2, <1>3, <2>1, <2>2, Zenon DEF TurnOK, handle_propose_action
<1> QED BY <1>3, <1>4, <1>5, Zenon DEF Rest

\* The row that was written is put among the pending proposals.
LEMMA RecordKeeps ==
    ASSUME IInv, TypeOK', record_proposal PROVE Rest'
<1>1. \A q : (Raised(q)' <=> Raised(q)) /\ (Decided(q)' <=> Decided(q))
  BY Zenon DEF record_proposal, bus, Raised, Decided
<1>2. LogOK'
  BY <1>1, Zenon DEF record_proposal, bus, history, IInv, LogOK
<1>3. BookOK'
  BY <1>1, Zenon DEF record_proposal, bus, history, IInv, BookOK, DecidedOnce, UndecidedKept
<1>4. OfferedStillOpen'
  BY <1>1, Zenon DEF record_proposal, bus, history, IInv, OfferedStillOpen, TurnOK
<1>5. TurnOK'
  BY Fields, Zenon DEF record_proposal, TurnOK, InHand
<1> QED BY <1>2, <1>3, <1>4, <1>5, Zenon DEF Rest

\* An execution proposes from beside the tick.
LEMMA SubmitKeeps ==
    ASSUME IInv, TypeOK', NEW p \in Proposal, submit_integrate_review(p) PROVE Rest'
<1> DEFINE r == Row(last + 1, "proposal", "coordinator", "*", p)
           S == {Observation(last + 2)}
<1>1. r.seq = last + 1 /\ r.topic = "proposal" /\ r.about = p
  BY DEF Row
<1>2. events' = (events \cup {r}) \cup S /\ last' = last + 2 /\ p \notin raised /\ raised' = raised \cup {p}
  BY Zenon DEF submit_integrate_review
<1>3. \A e \in S : e.topic = "observation" /\ e.seq <= last'
  BY <1>2 DEF Observation, Row, IInv, TypeOK
<1> HIDE DEF r, S
<1>4. /\ LogOK' /\ BookOK' /\ decisions[p] = 0 /\ ~Raised(p)
      /\ \A q : Raised(q)' <=> Raised(q) \/ q = p
  <2>1. last + 1 <= last'
    BY <1>2 DEF IInv, TypeOK
  <2> QED BY <1>1, <1>2, <1>3, <2>1, ProposalRow, Zenon DEF submit_integrate_review
<1>5. OfferedStillOpen'
  BY <1>4, Zenon DEF submit_integrate_review, IInv, OfferedStillOpen
<1>6. TurnOK'
  <2>1. \A q : Raised(q) => Raised(q)'
    BY <1>4, Zenon
  <2>2. turn.stage \in InHand => turn.about \in raised /\ turn.about # p
    BY <1>2, Zenon DEF IInv, TurnOK
  <2> QED BY <1>2, <2>1, <2>2, Zenon DEF submit_integrate_review, IInv, TurnOK, InHand
<1> QED BY <1>4, <1>5, <1>6, Zenon DEF Rest

\* The Critic's verdict is taken up: the proposal leaves the pending ones.
LEMMA TakeVerdictKeeps ==
    ASSUME IInv, TypeOK', NEW p \in Proposal, NEW answer \in Answer, handle_review_verdict(p, answer)
    PROVE  Rest'
<1>1. \A q : (Raised(q)' <=> Raised(q)) /\ (Decided(q)' <=> Decided(q))
  BY Zenon DEF handle_review_verdict, bus, Raised, Decided
<1>2. LogOK'
  BY <1>1, Zenon DEF handle_review_verdict, bus, history, IInv, LogOK
<1>3. BookOK'
  BY <1>1, Zenon DEF handle_review_verdict, bus, history, IInv, BookOK, DecidedOnce, UndecidedKept
<1>4. OfferedStillOpen'
  BY <1>1, Zenon DEF handle_review_verdict, bus, history, IInv, OfferedStillOpen
<1>5. TurnOK'
  <2>1. turn'.stage = "decide" /\ turn'.about = p /\ turn'.answer = answer
    BY DEF handle_review_verdict, Moved
  <2>2. tick' = "critic" /\ p \notin pending'
    BY Zenon DEF handle_review_verdict, Replied
  <2>3. Raised(p)' /\ decisions'[p] = 0
    BY <1>1, Zenon DEF handle_review_verdict, history, IInv, OfferedStillOpen
  <2>4. p \in raised'
    BY <2>3, Zenon DEF Raised, handle_review_verdict, bus, history, IInv, LogOK
  <2> QED BY <2>1, <2>2, <2>3, <2>4, Zenon DEF TurnOK
<1> QED BY <1>2, <1>3, <1>4, <1>5, Zenon DEF Rest

\* The verdict row is written.
LEMMA RebroadcastKeeps ==
    ASSUME IInv, TypeOK', rebroadcast_verdict PROVE Rest'
<1> DEFINE p == turn.about
<1>1. /\ p \in raised /\ p \in Proposal /\ p \notin pending /\ decisions[p] = 0
      /\ turn.answer \in Answer /\ tick = "critic"
  BY Zenon DEF rebroadcast_verdict, IInv, TypeOK, TurnOK, InHand
<1>2. /\ LogOK' /\ BookOK' /\ \A q : Raised(q)' <=> Raised(q)
      /\ decisions'[p] = 1 /\ \A q \in Proposal : q # p => decisions'[q] = decisions[q]
  <2>1. \A q \in Proposal : q # p => ruling'[q] = ruling[q]
    BY Zenon DEF rebroadcast_verdict, IInv, TypeOK
  <2> QED BY <1>1, <2>1, VerdictRow, Zenon DEF rebroadcast_verdict
<1>3. OfferedStillOpen'
  BY <1>1, <1>2, Zenon DEF rebroadcast_verdict, memory, IInv, TypeOK, OfferedStillOpen
<1>4. TurnOK'
  <2>1. turn'.stage = "apply" /\ turn'.about = p /\ turn'.answer = turn.answer
    BY DEF rebroadcast_verdict, Moved
  <2>2. ruling'[p] = turn.answer
    BY <1>1, Zenon DEF rebroadcast_verdict, IInv, TypeOK
  <2>3. \A t \in tasks : t.from # p
    <3>1. ~(decisions[p] > 0)
      BY <1>1
    <3> QED BY <3>1, Zenon DEF IInv, BookOK
  <2> QED BY <1>1, <1>2, <2>1, <2>2, <2>3, Zenon DEF rebroadcast_verdict, TurnOK
<1> QED BY <1>2, <1>3, <1>4, Zenon DEF Rest

\* The review timeout writes a verdict row of its own.
LEMMA DenyKeeps ==
    ASSUME IInv, TypeOK', NEW p \in Proposal, author_timeout_deny(p) PROVE Rest'
<1>1. p \in raised /\ decisions[p] = 0
  <2>1. Raised(p) /\ ~Decided(p)
    BY Zenon DEF author_timeout_deny, Undecided
  <2>2. p \in raised /\ ~(decisions[p] > 0)
    BY <2>1, Zenon DEF Raised, IInv, LogOK
  <2> QED BY <2>2 DEF IInv, TypeOK
<1>2. /\ LogOK' /\ BookOK' /\ \A q : Raised(q)' <=> Raised(q)
      /\ decisions'[p] = 1 /\ \A q \in Proposal : q # p => decisions'[q] = decisions[q]
  BY <1>1, VerdictRow, Zenon DEF author_timeout_deny
<1>3. OfferedStillOpen'
  BY <1>1, <1>2, Zenon DEF author_timeout_deny, IInv, TypeOK, OfferedStillOpen
<1>4. TurnOK'
  <2>1. turn'.stage \notin InHand
    BY Zenon DEF author_timeout_deny, IInv, TurnOK, InHand
  <2> QED BY <2>1, Zenon DEF TurnOK, InHand
<1> QED BY <1>2, <1>3, <1>4, Zenon DEF Rest

\* An approved proposal becomes a task.
LEMMA MaterializeKeeps ==
    ASSUME IInv, TypeOK', materialize_approved_proposal PROVE Rest'
<1>1. \A q : (Raised(q)' <=> Raised(q)) /\ (Decided(q)' <=> Decided(q))
  BY Zenon DEF materialize_approved_proposal, bus, Raised, Decided
<1>2. LogOK'
  BY <1>1, Zenon DEF materialize_approved_proposal, bus, history, IInv, LogOK
<1>3. turn.about \in raised /\ decisions[turn.about] = 1 /\ tick = "critic"
  BY Zenon DEF materialize_approved_proposal, IInv, TurnOK, InHand
<1>4. BookOK'
  <2>1. \A t \in tasks' : t \in tasks \/ t.from = turn.about
    BY DEF materialize_approved_proposal
  <2>2. decisions[turn.about] > 0
    BY <1>3
  <2>3. \A t \in tasks' : decisions'[t.from] > 0
    BY <2>1, <2>2, Zenon DEF materialize_approved_proposal, history, IInv, BookOK
  <2> QED BY <1>1, <2>3, Zenon DEF materialize_approved_proposal, bus, history, IInv, BookOK,
                DecidedOnce, UndecidedKept
<1>5. OfferedStillOpen'
  BY <1>1, Zenon DEF materialize_approved_proposal, memory, history, IInv, OfferedStillOpen
<1>6. TurnOK'
  <2>1. turn'.stage = "announce" /\ turn'.about = turn.about
    BY DEF materialize_approved_proposal, Moved
  <2> QED BY <1>3, <2>1, Zenon DEF materialize_approved_proposal, history, TurnOK
<1> QED BY <1>2, <1>4, <1>5, <1>6, Zenon DEF Rest

\* Retention: an open proposal's row is spared, and a decided one's goes no later
\* than its verdict's.
LEMMA PruneKeeps ==
    ASSUME IInv, TypeOK', PruneEvents PROVE Rest'
<1>0. KeepRecent \in Nat /\ last \in Nat /\ last' = last /\ \A e \in events : e.seq \in Nat
  BY KeepRecentIsPositive DEF IInv, TypeOK, Event, PruneEvents, prune_events
<1>1. events' \subseteq events /\ UNCHANGED <<last, raised, ruling, decisions, tasks, pending, turn, tick>>
  BY Zenon DEF PruneEvents, prune_events, memory, history
<1>2. \A e \in events' : e.seq > last - KeepRecent \/ (e.topic = "proposal" /\ e.about \in Undecided)
  BY Zenon DEF PruneEvents, prune_events
<1>3. \A e \in events : e.seq > last - KeepRecent \/ (e.topic = "proposal" /\ e.about \in Undecided)
                        => e \in events'
  BY Zenon DEF PruneEvents, prune_events
<1>4. \A p \in Proposal : Raised(p) /\ decisions[p] = 0 => Raised(p)'
  <2> SUFFICES ASSUME NEW p \in Proposal, Raised(p), decisions[p] = 0 PROVE Raised(p)'
    BY Zenon
  <2>1. ~(decisions[p] > 0)
    OBVIOUS
  <2>2. p \in Undecided
    BY <2>1, Zenon DEF Undecided, Decided, IInv, LogOK
  <2> QED BY <1>3, <2>2, Zenon DEF Raised
<1>5. \A p \in Proposal : Raised(p)' /\ decisions[p] > 0 => Decided(p)'
  <2> SUFFICES ASSUME NEW p \in Proposal, Raised(p)', decisions[p] > 0 PROVE Decided(p)'
    BY Zenon
  <2>1. PICK e \in events' : e.topic = "proposal" /\ e.about = p
    BY Zenon DEF Raised
  <2>2. Decided(p)
    BY <1>1, <2>1, Zenon DEF IInv, LogOK, Raised
  <2>3. PICK d \in events : d.topic = "review_verdict" /\ d.about = p
    BY <2>2, Zenon DEF Decided
  <2>4. e.seq > last - KeepRecent
    BY <1>2, <2>1, <2>2, Zenon DEF Undecided
  <2>5. e.seq < d.seq
    BY <1>1, <2>1, <2>3, Zenon DEF IInv, LogOK
  <2>6. d.seq > last - KeepRecent
    BY <1>0, <1>1, <2>1, <2>3, <2>4, <2>5
  <2> QED BY <1>3, <2>3, <2>6, Zenon DEF Decided
<1>6. LogOK'
  BY <1>1, <1>5, Zenon DEF IInv, LogOK
<1>7. BookOK'
  BY <1>1, <1>4, Zenon DEF IInv, TypeOK, BookOK, DecidedOnce, UndecidedKept
<1>8. OfferedStillOpen'
  BY <1>1, <1>4, Zenon DEF IInv, TypeOK, OfferedStillOpen
<1>9. TurnOK'
  <2>1. turn'.stage \notin InHand
    BY <1>1, Zenon DEF PruneEvents, IInv, TurnOK, InHand
  <2> QED BY <2>1, Zenon DEF TurnOK, InHand
<1> QED BY <1>6, <1>7, <1>8, <1>9, Zenon DEF Rest

\* A restart finds the open proposals in the log.
LEMMA ReplayKeeps ==
    ASSUME IInv, TypeOK', replay_for_resume PROVE Rest'
<1>1. \A q : (Raised(q)' <=> Raised(q)) /\ (Decided(q)' <=> Decided(q))
  BY Zenon DEF replay_for_resume, bus, Raised, Decided
<1>2. LogOK'
  BY <1>1, Zenon DEF replay_for_resume, bus, history, IInv, LogOK
<1>3. BookOK'
  BY <1>1, Zenon DEF replay_for_resume, bus, history, IInv, BookOK, DecidedOnce, UndecidedKept
<1>4. OfferedStillOpen'
  <2>1. \A p \in Undecided : p \in Proposal /\ Raised(p) /\ ~(decisions[p] > 0)
    BY Zenon DEF Undecided, IInv, LogOK
  <2>2. \A p \in Undecided : decisions[p] = 0
    BY <2>1 DEF IInv, TypeOK
  <2> QED BY <1>1, <2>1, <2>2, Zenon DEF replay_for_resume, history, OfferedStillOpen
<1>5. TurnOK'
  <2>1. turn'.stage \notin InHand
    BY Zenon DEF replay_for_resume, IInv, TurnOK, InHand
  <2> QED BY <2>1, Zenon DEF TurnOK, InHand
<1> QED BY <1>2, <1>3, <1>4, <1>5, Zenon DEF Rest

\* An observation is an inert row.
LEMMA ObservationStep ==
    ASSUME IInv, TypeOK', UNCHANGED <<raised, ruling, decisions, tasks, pending>>,
           record_observation, turn'.stage \notin InHand
    PROVE  Rest'
  BY InertStep, Zenon DEF record_observation, Observation

\* Every step keeps the invariant.
LEMMA InvStep == ASSUME IInv, [Next]_vars PROVE IInv'
<1>0. TypeOK'
  BY TypeStep, Zenon DEF IInv
<1>i. "idle" \notin InHand /\ "routing" \notin InHand /\ "asked" \notin InHand
  BY DEF InHand
<1>s. SUFFICES Rest'
  BY <1>0, Zenon DEF IInv, Rest
<1> USE DEF bus, memory, history
<1>1. ASSUME NEW a \in Agent, render_inbox_sections(a) PROVE Rest'
  <2>1. turn'.stage \notin InHand
    BY <1>1, <1>i, Fields, Zenon DEF render_inbox_sections
  <2> QED BY <1>0, <1>1, <2>1, QuietStep, Zenon DEF render_inbox_sections
<1>2. ASSUME NEW a \in Agent, admit_turn(a) PROVE Rest'
  <2>1. turn'.stage \notin InHand
    BY <1>2, <1>i, Fields, Zenon DEF admit_turn
  <2> QED BY <1>0, <1>2, <2>1, QuietStep, Zenon DEF admit_turn
<1>3. ASSUME NEW a \in Agent, BackendError(a) PROVE Rest'
  <2>1. turn'.stage \notin InHand
    BY <1>3, <1>i, Fields, Zenon DEF BackendError
  <2> QED BY <1>0, <1>3, <2>1, ObservationStep, Zenon DEF BackendError
<1>4. ASSUME NEW a \in Agent, NoIntentEmitted(a) PROVE Rest'
  <2>1. turn'.stage \notin InHand
    BY <1>4, <1>i, Fields, Zenon DEF NoIntentEmitted
  <2> QED BY <1>0, <1>4, <2>1, ObservationStep, Zenon DEF NoIntentEmitted
<1>5. ASSUME NEW a \in Agent, settle_routed_turn(a) PROVE Rest'
  <2>1. turn'.stage \notin InHand
    BY <1>5, <1>i, Fields, Zenon DEF settle_routed_turn
  <2> QED BY <1>0, <1>5, <2>1, QuietStep, Zenon DEF settle_routed_turn
<1>6. ASSUME NEW a \in Agent, TurnCancelled(a) PROVE Rest'
  <2>1. turn'.stage \notin InHand
    BY <1>6, <1>i, Fields, Zenon DEF TurnCancelled
  <2> QED BY <1>0, <1>6, <2>1, QuietStep, Zenon DEF TurnCancelled
<1>7. ASSUME NEW p \in Proposal, handle_propose_action(p) PROVE Rest'
  BY <1>0, <1>7, ProposeKeeps, Zenon
<1>8. ASSUME NEW p \in Proposal, submit_integrate_review(p) PROVE Rest'
  BY <1>0, <1>8, SubmitKeeps, Zenon
<1>9. ASSUME NEW p \in Proposal, VerdictForUnknown(p) PROVE Rest'
  <2>1. turn'.stage \notin InHand
    BY <1>9, Zenon DEF VerdictForUnknown, Replied, IInv, TurnOK, InHand
  <2> QED BY <1>0, <1>9, <2>1, ObservationStep, Zenon DEF VerdictForUnknown
<1>10. ASSUME NEW p \in Proposal, author_timeout_deny(p) PROVE Rest'
  BY <1>0, <1>10, DenyKeeps, Zenon
<1>11. ASSUME NEW p \in Proposal, NEW answer \in Answer, handle_review_verdict(p, answer) PROVE Rest'
  BY <1>0, <1>11, TakeVerdictKeeps, Zenon
<1>12. ASSUME record_proposal PROVE Rest'
  BY <1>0, <1>12, RecordKeeps, Zenon
<1>13. ASSUME rebroadcast_verdict PROVE Rest'
  BY <1>0, <1>13, RebroadcastKeeps, Zenon
<1>14. ASSUME HandlerFailed PROVE Rest'
  <2>1. turn'.stage \notin InHand
    BY <1>14, <1>i, Fields, Zenon DEF HandlerFailed
  <2> QED BY <1>0, <1>14, <2>1, ObservationStep, Zenon DEF HandlerFailed
<1>15. ASSUME NotProceeding PROVE Rest'
  <2>1. turn'.stage \notin InHand
    BY <1>15, <1>i, Fields, Zenon DEF NotProceeding
  <2> QED BY <1>0, <1>15, <2>1, QuietStep, Zenon DEF NotProceeding
<1>16. ASSUME materialize_approved_proposal PROVE Rest'
  BY <1>0, <1>16, MaterializeKeeps, Zenon
<1>17. ASSUME record_materialize_skipped PROVE Rest'
  <2>1. turn'.stage \notin InHand
    BY <1>17, <1>i, Fields, Zenon DEF record_materialize_skipped
  <2> QED BY <1>0, <1>17, <2>1, ObservationStep, Zenon DEF record_materialize_skipped
<1>18. ASSUME announce_approved_proposal PROVE Rest'
  <2>1. turn'.stage \notin InHand
    BY <1>18, <1>i, Fields, Zenon DEF announce_approved_proposal
  <2> QED BY <1>0, <1>18, <2>1, InertStep, Zenon DEF announce_approved_proposal, append_and_seq
<1>19. ASSUME ReconcilerEnds PROVE Rest'
  <2>1. turn'.stage \notin InHand
    BY <1>19, Zenon DEF ReconcilerEnds, Replied, IInv, TurnOK, InHand
  <2> QED BY <1>0, <1>19, <2>1, QuietStep, Zenon DEF ReconcilerEnds
<1>20. ASSUME PruneEvents PROVE Rest'
  BY <1>0, <1>20, PruneKeeps, Zenon
<1>21. ASSUME UpkeepEnds PROVE Rest'
  <2>1. turn'.stage \notin InHand
    BY <1>21, Zenon DEF UpkeepEnds, Replied, IInv, TurnOK, InHand
  <2> QED BY <1>0, <1>21, <2>1, QuietStep, Zenon DEF UpkeepEnds
<1>22. ASSUME Crash PROVE Rest'
  <2>1. turn'.stage \notin InHand
    BY <1>22, <1>i, Fields, Zenon DEF Crash
  <2> QED BY <1>0, <1>22, <2>1, QuietStep, Zenon DEF Crash
<1>23. ASSUME replay_for_resume PROVE Rest'
  BY <1>0, <1>23, ReplayKeeps, Zenon
<1>24. CASE UNCHANGED vars
  <2>1. \A q : (Raised(q)' <=> Raised(q)) /\ (Decided(q)' <=> Decided(q))
    BY <1>24, Zenon DEF vars, Raised, Decided
  <2> QED BY <1>24, <2>1, Zenon DEF vars, IInv, Rest, LogOK, BookOK, DecidedOnce, UndecidedKept,
                OfferedStillOpen, TurnOK
<1> QED
  BY <1>1, <1>2, <1>3, <1>4, <1>5, <1>6, <1>7, <1>8, <1>9, <1>10, <1>11,
     <1>12, <1>13, <1>14, <1>15, <1>16, <1>17, <1>18, <1>19, <1>20, <1>21,
     <1>22, <1>23, <1>24, Zenon
     DEF Next, Turn

\* The invariant holds at the start.
LEMMA InvInit == Init => IInv
<1> SUFFICES ASSUME Init PROVE IInv
  OBVIOUS
<1>1. TypeOK
  BY DEF Init, BusInit, TypeOK, Idle, Stage, Agent, Event
<1>2. Rest
  BY
     DEF Init, BusInit, Rest, LogOK, BookOK, DecidedOnce, UndecidedKept, OfferedStillOpen, TurnOK,
         InHand, Idle,
         Raised, Decided
<1> QED BY <1>1, <1>2, Zenon DEF IInv, Rest

\* The inductive invariant holds in every reachable state.
LEMMA Inductive == Spec => []IInv
  BY InvInit, InvStep, PTL DEF Spec

-----------------------------------------------------------------------------
\* Theorems

\* The variables keep their types, in any session.
THEOREM TypeCorrect == Spec => []TypeOK
<1>1. IInv => TypeOK
  BY Zenon DEF IInv
<1> QED BY <1>1, Inductive, PTL

\* A proposal is decided at most once: by the Critic or by the timeout, whatever
\* is replayed, repeated or deleted in between.
THEOREM OneDecision == Spec => []DecidedOnce
<1>1. IInv => DecidedOnce
  BY Zenon DEF IInv, BookOK
<1> QED BY <1>1, Inductive, PTL

\* The row of an open proposal is in the log, whatever retention deletes.
THEOREM OpenProposalsKept == Spec => []UndecidedKept
<1>1. IInv => UndecidedKept
  BY Zenon DEF IInv, BookOK
<1> QED BY <1>1, Inductive, PTL

\* What the Critic is offered is open, after any number of restarts.
THEOREM OffersAreOpen == Spec => []OfferedStillOpen
<1>1. IInv => OfferedStillOpen
  BY Zenon DEF IInv
<1> QED BY <1>1, Inductive, PTL

-----------------------------------------------------------------------------
\* The collapse of a review and the refinement of ReviewPromise

\* A batch of verdicts collapses to one of them.
LEMMA CollapsePicks ==
    ASSUME NEW S \in SUBSET Verdict, S # {} PROVE collapse_verdicts(S) \in S
<1> DEFINE First(i) == /\ CollapseOrder[i] \in S
                       /\ \A j \in 1..(i - 1) : CollapseOrder[j] \notin S
<1>1. \E i \in 1..4 : First(i)
  <2>1. /\ CollapseOrder[1] = "approve" /\ CollapseOrder[2] = "reject"
        /\ CollapseOrder[3] = "advise" /\ CollapseOrder[4] = "needs_review"
    BY DEF CollapseOrder
  <2>2. CASE "approve" \in S
    <3>1. First(1)
      BY <2>1, <2>2
    <3> QED BY <3>1
  <2>3. CASE "approve" \notin S /\ "reject" \in S
    <3>1. First(2)
      BY <2>1, <2>3
    <3> QED BY <3>1
  <2>4. CASE "approve" \notin S /\ "reject" \notin S /\ "advise" \in S
    <3>1. First(3)
      BY <2>1, <2>4
    <3> QED BY <3>1
  <2>5. CASE "approve" \notin S /\ "reject" \notin S /\ "advise" \notin S
    <3>1. "needs_review" \in S
      BY <2>5, Zenon DEF Verdict
    <3>2. First(4)
      BY <2>1, <2>5, <3>1
    <3> QED BY <3>2
  <2> QED BY <2>2, <2>3, <2>4, <2>5
<1>2. First(CHOOSE i \in 1..4 : First(i))
  BY <1>1, Zenon
<1>3. collapse_verdicts(S) = CollapseOrder[CHOOSE i \in 1..4 : First(i)]
  BY Zenon DEF collapse_verdicts
<1> QED BY <1>2, <1>3, Zenon

\* A proposal proceeds exactly when one of its variants may.
LEMMA CollapseCarries ==
    ASSUME NEW answer \in Answer
    PROVE  collapse_verdict_map(answer) \in {"approve", "advise"} <=> proceedable(answer) # {}
<1> DEFINE may == proceedable(answer)
           Some == {answer[v] : v \in may}
           All == {answer[v] : v \in Variant}
<1>0. answer \in [Variant -> Verdict] /\ Variant # {}
  BY AnswersRule, SomeVariant, Zenon
<1>1. CASE may # {}
  <2>1. Some \in SUBSET Verdict /\ Some # {} /\ Some \subseteq {"approve", "advise"}
    BY <1>0, <1>1 DEF proceedable
  <2>2. collapse_verdicts(Some) \in Some
    BY <2>1, CollapsePicks, Zenon
  <2>3. collapse_verdict_map(answer) = collapse_verdicts(Some)
    BY <1>1, Zenon DEF collapse_verdict_map
  <2> QED BY <1>1, <2>1, <2>2, <2>3, Zenon
<1>2. CASE may = {}
  <2>1. All \in SUBSET Verdict /\ All # {}
    BY <1>0
  <2>2. collapse_verdicts(All) \in All
    BY <2>1, CollapsePicks, Zenon
  <2>3. collapse_verdict_map(answer) = collapse_verdicts(All)
    BY <1>2, Zenon DEF collapse_verdict_map
  <2>4. \A x \in All : x \notin {"approve", "advise"}
    BY <1>2, Zenon DEF proceedable
  <2> QED BY <1>2, <2>2, <2>3, <2>4, Zenon
<1> QED BY <1>1, <1>2, Zenon

\* One variant that may run carries its proposal, whatever its siblings get.
THEOREM GoodVariantCarries == Spec => []OneGoodVariantCarries
<1>1. IInv => OneGoodVariantCarries
  BY CollapseCarries, Zenon DEF IInv, TurnOK, OneGoodVariantCarries, Proceeds, proceedable
<1> QED BY <1>1, Inductive, PTL

Statuses == [p \in Proposal |-> StatusOf(p)]
Alloweds == [p \in Proposal |-> AllowedOf(p)]

\* A proposal that is raised is open, and nothing else changes.
LEMMA RaiseStep ==
    ASSUME IInv, NEW p \in Proposal, p \notin raised, raised' = raised \cup {p},
           UNCHANGED <<ruling, decisions, tasks>>
    PROVE  Promised!Raise(p)
<1>1. decisions[p] = 0
  BY DEF IInv, TypeOK, BookOK
<1>2. StatusOf(p) = "none" /\ StatusOf(p)' = "open"
  BY <1>1, Zenon DEF StatusOf
<1>3. \A q \in Proposal : q # p => StatusOf(q)' = StatusOf(q)
  BY Zenon DEF StatusOf
<1>4. \A q \in Proposal : AllowedOf(q)' = AllowedOf(q)
  BY Zenon DEF AllowedOf
<1>5. Statuses' = [Statuses EXCEPT ![p] = "open"] /\ Statuses[p] = "none"
  BY <1>2, <1>3, Zenon DEF Statuses
<1>6. Alloweds' = Alloweds
  BY <1>4, Zenon DEF Alloweds
<1> QED BY <1>5, <1>6, Zenon DEF Promised!Raise, Statuses, Alloweds

\* A decision turns an open proposal into a decided one with its variants.
LEMMA DecideStep ==
    ASSUME IInv, NEW p \in raised, decisions[p] = 0, decisions' = [decisions EXCEPT ![p] = @ + 1],
           \A q \in Proposal : q # p => ruling'[q] = ruling[q], UNCHANGED <<raised, tasks>>,
           NEW S \in SUBSET Variant, AllowedOf(p)' = S
    PROVE  Promised!Decide(p, S)
<1>0. p \in Proposal /\ decisions'[p] # 0 /\ \A q \in Proposal : q # p => decisions'[q] = decisions[q]
  BY DEF IInv, TypeOK
<1>1. StatusOf(p) = "open" /\ StatusOf(p)' = "decided"
  BY <1>0, Zenon DEF StatusOf
<1>2. \A q \in Proposal : q # p => StatusOf(q)' = StatusOf(q) /\ AllowedOf(q)' = AllowedOf(q)
  BY <1>0, Zenon DEF StatusOf, AllowedOf
<1>3. Statuses' = [Statuses EXCEPT ![p] = "decided"] /\ Statuses[p] = "open"
  BY <1>0, <1>1, <1>2, Zenon DEF Statuses
<1>4. Alloweds' = [Alloweds EXCEPT ![p] = S]
  BY <1>0, <1>2, Zenon DEF Alloweds
<1> QED BY <1>3, <1>4, Zenon DEF Promised!Decide, Statuses, Alloweds

\* The task an approved proposal becomes is the one its decision allows.
LEMMA BeginStep ==
    ASSUME IInv, materialize_approved_proposal
    PROVE  turn.about \in Proposal /\ Promised!Begin(turn.about)
<1> DEFINE p == turn.about
<1>0. /\ p \in raised /\ p \in Proposal /\ decisions[p] = 1 /\ ruling[p] = turn.answer
      /\ turn.answer \in Answer /\ \A t \in tasks : t.from # p
  BY Zenon DEF materialize_approved_proposal, IInv, TypeOK, TurnOK, InHand
<1>1. StatusOf(p) = "decided"
  <2>1. decisions[p] # 0
    BY <1>0
  <2> QED BY <1>0, <2>1, Zenon DEF StatusOf
<1>2. AllowedOf(p) = proceedable(turn.answer) /\ AllowedOf(p) # {}
  <2>1. turn.answer # NoAnswer
    BY <1>0, AnswersRule, Zenon
  <2>2. AllowedOf(p) = proceedable(turn.answer)
    BY <1>0, <2>1, Zenon DEF AllowedOf, proceedable
  <2> QED BY <1>0, <2>2, CollapseCarries, Zenon DEF materialize_approved_proposal, Proceeds
<1>3. tasks' = tasks \cup {[from |-> p, grid |-> AllowedOf(p)]}
  BY <1>2, Zenon DEF materialize_approved_proposal
<1>4. Statuses' = Statuses /\ Alloweds' = Alloweds
  BY Zenon DEF materialize_approved_proposal, history, Statuses, Alloweds, StatusOf, AllowedOf
<1>5. Statuses[p] = "decided" /\ Alloweds[p] = AllowedOf(p)
  BY <1>0, <1>1, Zenon DEF Statuses, Alloweds
<1> QED BY <1>0, <1>2, <1>3, <1>4, <1>5, Zenon DEF Promised!Begin, Statuses, Alloweds

Silent == UNCHANGED <<raised, ruling, decisions, tasks>>

\* Every step of the desk is a step of ReviewPromise or leaves its state alone.
LEMMA PromiseStep ==
    ASSUME IInv, [Next]_vars
    PROVE  Promised!Next \/ UNCHANGED <<Statuses, Alloweds, tasks>>
<1> DEFINE Goal == Promised!Next \/ Silent
<1> USE DEF history
<1>1. ASSUME NEW a \in Agent, render_inbox_sections(a) PROVE Goal
  BY <1>1, Zenon DEF render_inbox_sections, Silent
<1>2. ASSUME NEW a \in Agent, admit_turn(a) PROVE Goal
  BY <1>2, Zenon DEF admit_turn, Silent
<1>3. ASSUME NEW a \in Agent, BackendError(a) PROVE Goal
  BY <1>3, Zenon DEF BackendError, Silent
<1>4. ASSUME NEW a \in Agent, NoIntentEmitted(a) PROVE Goal
  BY <1>4, Zenon DEF NoIntentEmitted, Silent
<1>5. ASSUME NEW a \in Agent, settle_routed_turn(a) PROVE Goal
  BY <1>5, Zenon DEF settle_routed_turn, Silent
<1>6. ASSUME NEW a \in Agent, TurnCancelled(a) PROVE Goal
  BY <1>6, Zenon DEF TurnCancelled, Silent
<1>7. ASSUME NEW p \in Proposal, handle_propose_action(p) PROVE Goal
  <2>1. Promised!Raise(p)
    BY <1>7, RaiseStep, Zenon DEF handle_propose_action
  <2> QED BY <2>1, Zenon DEF Promised!Next
<1>8. ASSUME NEW p \in Proposal, submit_integrate_review(p) PROVE Goal
  <2>1. Promised!Raise(p)
    BY <1>8, RaiseStep, Zenon DEF submit_integrate_review
  <2> QED BY <2>1, Zenon DEF Promised!Next
<1>9. ASSUME NEW p \in Proposal, VerdictForUnknown(p) PROVE Goal
  BY <1>9, Zenon DEF VerdictForUnknown, Silent
<1>10. ASSUME NEW p \in Proposal, author_timeout_deny(p) PROVE Goal
  <2>1. p \in raised /\ decisions[p] = 0 /\ ruling[p] = NoAnswer
    <3>1. Raised(p) /\ ~Decided(p)
      BY <1>10, Zenon DEF author_timeout_deny, Undecided
    <3>2. p \in raised /\ ~(decisions[p] > 0)
      BY <3>1, Zenon DEF Raised, IInv, LogOK
    <3>3. decisions[p] = 0
      BY <3>2 DEF IInv, TypeOK
    <3> QED BY <3>2, <3>3, Zenon DEF IInv, BookOK
  <2>2. AllowedOf(p)' = {}
    BY <1>10, <2>1, Zenon DEF author_timeout_deny, AllowedOf
  <2>3. Promised!Decide(p, {})
    BY <1>10, <2>1, <2>2, DecideStep, Zenon DEF author_timeout_deny
  <2> QED BY <2>3, Zenon DEF Promised!Next
<1>11. ASSUME NEW p \in Proposal, NEW answer \in Answer, handle_review_verdict(p, answer) PROVE Goal
  BY <1>11, Zenon DEF handle_review_verdict, Silent
<1>12. ASSUME record_proposal PROVE Goal
  BY <1>12, Zenon DEF record_proposal, Silent
<1>13. ASSUME rebroadcast_verdict PROVE Goal
  <2>1. PICK p \in Proposal : p = turn.about
    BY <1>13, Zenon DEF rebroadcast_verdict, IInv, TypeOK, TurnOK, InHand
  <2>2. p \in raised /\ decisions[p] = 0
    BY <1>13, <2>1, Zenon DEF rebroadcast_verdict, IInv, TurnOK, InHand
  <2>3. PICK S \in SUBSET Variant : AllowedOf(p)' = S
    BY Zenon DEF AllowedOf
  <2>4. /\ decisions' = [decisions EXCEPT ![p] = @ + 1] /\ UNCHANGED <<raised, tasks>>
        /\ \A q \in Proposal : q # p => ruling'[q] = ruling[q]
    BY <1>13, <2>1, Zenon DEF rebroadcast_verdict, IInv, TypeOK
  <2>5. Promised!Decide(p, S)
    BY <2>2, <2>3, <2>4, DecideStep, Zenon
  <2> QED BY <2>5, Zenon DEF Promised!Next
<1>14. ASSUME HandlerFailed PROVE Goal
  BY <1>14, Zenon DEF HandlerFailed, Silent
<1>15. ASSUME NotProceeding PROVE Goal
  BY <1>15, Zenon DEF NotProceeding, Silent
<1>16. ASSUME materialize_approved_proposal PROVE Goal
  BY <1>16, BeginStep, Zenon DEF Promised!Next
<1>17. ASSUME record_materialize_skipped PROVE Goal
  BY <1>17, Zenon DEF record_materialize_skipped, Silent
<1>18. ASSUME announce_approved_proposal PROVE Goal
  BY <1>18, Zenon DEF announce_approved_proposal, Silent
<1>19. ASSUME ReconcilerEnds PROVE Goal
  BY <1>19, Zenon DEF ReconcilerEnds, Silent
<1>20. ASSUME PruneEvents PROVE Goal
  BY <1>20, Zenon DEF PruneEvents, Silent
<1>21. ASSUME UpkeepEnds PROVE Goal
  BY <1>21, Zenon DEF UpkeepEnds, Silent
<1>22. ASSUME Crash PROVE Goal
  BY <1>22, Zenon DEF Crash, Silent
<1>23. ASSUME replay_for_resume PROVE Goal
  BY <1>23, Zenon DEF replay_for_resume, Silent
<1>24. ASSUME UNCHANGED vars PROVE Goal
  BY <1>24, Zenon DEF vars, Silent
<1>25. Silent => UNCHANGED <<Statuses, Alloweds, tasks>>
  BY Zenon DEF Silent, Statuses, Alloweds, StatusOf, AllowedOf
<1> HIDE DEF history
<1> QED
  BY <1>1, <1>2, <1>3, <1>4, <1>5, <1>6, <1>7, <1>8, <1>9, <1>10, <1>11,
     <1>12, <1>13, <1>14, <1>15, <1>16, <1>17, <1>18, <1>19, <1>20, <1>21,
     <1>22, <1>23, <1>24, <1>25, Zenon
     DEF Next, Turn

\* The desk implements ReviewPromise: each proposal is decided once after it was
\* raised, and only a granted one becomes work, once, on the variants its own
\* review let through.
THEOREM KeepsPromise == Spec => ReviewPromised
<1>1. Init => Promised!Init
  BY Zenon DEF Init, Promised!Init, StatusOf, AllowedOf
<1>2. IInv /\ [Next]_vars => [Promised!Next]_<<Statuses, Alloweds, tasks>>
  BY PromiseStep, Zenon
<1> QED BY <1>1, <1>2, Inductive, PTL DEF Spec, ReviewPromised, Promised!Spec, Statuses, Alloweds

-----------------------------------------------------------------------------
\* What the cursors pass

\* What a prompt noted and nobody read since would be in the next prompt too.
NotesFit(a) == \A e \in Unread(a) : e.seq <= rendered[a] => e \in Fitting(Rendered(a))

\* A proposal whose rows are younger than the Critic's note.
Fresh(p) ==
    \A e \in events : e.topic = "proposal" /\ e.about = p => e.seq > rendered["critic"]

\* During a turn, the unread rows up to the one its cursor will be set to are in
\* its prompt.  The note may be one of an earlier prompt that came to nothing:
\* what that one showed is shown again, since no older row joins the inbox while
\* the note lives, and a restart, which brings older proposals back, forgets it.
ReadOK ==
    /\ IsFiniteSet(events)
    /\ \A a \in Agent : cursor[a] <= last /\ rendered[a] <= last
    /\ tick \notin Agent => turn.stage = "idle"
    /\ turn.stage # "idle" =>
           \A e \in Unread(tick) : e.seq <= rendered[tick] => e.seq \in turn.shown
    /\ \A a \in Agent : NotesFit(a)
    /\ turn.stage = "register" => Fresh(turn.about)
    /\ tick = "down" => \A a \in Agent : rendered[a] = 0

\* The log loses rows, or grows at its end.
Grows ==
    /\ last' \in Nat /\ last <= last' /\ IsFiniteSet(events')
    /\ \A e \in events' : e \in events \/ e.seq > last

\* One row more is growth.
LEMMA RowGrows ==
    ASSUME last \in Nat, IsFiniteSet(events), last' = last + 1,
           NEW row, row.seq = last + 1, events' = events \cup {row}
    PROVE  Grows
<1>1. IsFiniteSet(events')
  BY FS_AddElement, Zenon
<1>2. row.seq > last /\ last' \in Nat /\ last <= last'
  OBVIOUS
<1> QED BY <1>1, <1>2, Zenon DEF Grows

\* A message appended to the log, or an observation, makes it grow.
LEMMA AppendGrows ==
    ASSUME TypeOK, ReadOK,
           \/ record_observation
           \/ \E topic, from, to, about : append_and_seq(topic, from, to, about)
    PROVE  Grows
<1>0. last \in Nat /\ IsFiniteSet(events)
  BY Zenon DEF TypeOK, ReadOK
<1>1. CASE record_observation
  <2>1. Observation(last + 1).seq = last + 1
    BY DEF Observation, Row
  <2> QED BY <1>0, <1>1, <2>1, RowGrows, Zenon DEF record_observation
<1>2. ASSUME NEW topic, NEW from, NEW to, NEW about, append_and_seq(topic, from, to, about)
      PROVE  Grows
  <2>1. Row(last + 1, topic, from, to, about).seq = last + 1
    BY DEF Row
  <2> QED BY <1>0, <1>2, <2>1, RowGrows, Zenon DEF append_and_seq
<1> QED BY <1>1, <1>2, Zenon

\* A log left alone counts too.
LEMMA SameGrows ==
    ASSUME TypeOK, ReadOK, UNCHANGED <<events, last>>
    PROVE  Grows
<1>1. last \in Nat /\ IsFiniteSet(events)
  BY Zenon DEF TypeOK, ReadOK
<1>2. last <= last
  BY <1>1
<1> QED BY <1>1, <1>2, Zenon DEF Grows

\* No proposal is put among the pending ones that is older than the Critic's note.
PendsFresh == \A p \in pending' : p \in pending \/ Fresh(p)'

\* A note outlives every step that neither makes one nor brings an older row back.
LEMMA NotesKept ==
    ASSUME TypeOK, TypeOK', ReadOK, Grows, NEW a \in Agent, cursor'[a] >= cursor[a],
           rendered'[a] = 0 \/ (rendered' = rendered /\ PendsFresh)
    PROVE  NotesFit(a)'
<1> SUFFICES ASSUME NEW e \in Unread(a)', e.seq <= rendered'[a]
             PROVE  e \in Fitting(Rendered(a))'
  BY Zenon DEF NotesFit
<1>1. /\ cursor[a] \in Nat /\ cursor'[a] \in Nat /\ rendered[a] \in Nat
      /\ last \in Nat /\ rendered[a] <= last
  BY Zenon DEF TypeOK, ReadOK
<1>2. e \in events' /\ e.seq > cursor'[a] /\ e \in Rendered(a)'
  BY Zenon DEF Unread, Rendered
<1>3. e.seq \in Nat
  BY <1>2 DEF TypeOK, Event
<1>4. rendered' = rendered /\ PendsFresh
  BY <1>1, <1>2, <1>3
<1>5. e.seq <= rendered[a] /\ ~(e.seq > last) /\ e.seq > cursor[a]
  BY <1>1, <1>2, <1>3, <1>4
<1>6. e \in Unread(a)
  BY <1>2, <1>5, Zenon DEF Grows, Unread
<1>7. e \in Fitting(Rendered(a))
  BY <1>5, <1>6, Zenon DEF ReadOK, NotesFit
<1> DEFINE Older == {d \in Rendered(a) : d.seq < e.seq}
           Newer == {d \in Rendered(a)' : d.seq < e.seq}
<1>8. Newer \subseteq Older
  <2> SUFFICES ASSUME NEW d \in Rendered(a)', d.seq < e.seq PROVE d \in Rendered(a)
    BY Zenon
  <2>1. d \in events'
    BY Zenon DEF Rendered, Unread
  <2>2. d.seq \in Nat
    BY <2>1 DEF TypeOK, Event
  <2>3. d \in events
    <3>1. ~(d.seq > last)
      BY <1>1, <1>3, <1>5, <2>2
    <3> QED BY <2>1, <3>1, Zenon DEF Grows
  <2>4. d \in Unread(a)' => d \in Unread(a)
    <3>1. d.seq > cursor'[a] => d.seq > cursor[a]
      BY <1>1, <2>2
    <3> QED BY <2>3, <3>1, Zenon DEF Unread
  <2>5. ~(d.seq > rendered'[a])
    BY <1>1, <1>3, <1>4, <1>5, <2>2
  <2>6. a = "critic" /\ d.topic = "proposal" /\ d.about \in pending' => d.about \in pending
    BY <1>4, <2>1, <2>5, Zenon DEF PendsFresh, Fresh
  <2> QED BY <2>3, <2>4, <2>6, Zenon DEF Rendered
<1>9. IsFiniteSet(Older)
  <2>1. Older \subseteq events
    BY Zenon DEF Rendered, Unread
  <2> QED BY <2>1, FS_Subset, Zenon DEF ReadOK
<1>10. Cardinality(Older) < Budget
  BY <1>7, Zenon DEF Fitting
<1> HIDE DEF Older, Newer
<1>11. /\ Cardinality(Newer) <= Cardinality(Older)
       /\ Cardinality(Newer) \in Nat /\ Cardinality(Older) \in Nat
  BY <1>8, <1>9, FS_Subset, FS_CardinalityType, Zenon
<1>12. Cardinality(Newer) < Budget
  BY <1>10, <1>11, RoomForOne
<1> QED BY <1>2, <1>12, Zenon DEF Fitting, Newer

\* A proposal that had no row until now is younger than any note.
LEMMA NewIsFresh ==
    ASSUME TypeOK, TypeOK', ReadOK, Grows, rendered' = rendered, NEW p,
           \A e \in events : e.topic = "proposal" => e.about # p
    PROVE  Fresh(p)'
<1> SUFFICES ASSUME NEW e \in events', e.topic = "proposal", e.about = p
             PROVE  e.seq > rendered["critic"]
  BY Zenon DEF Fresh
<1>1. e.seq > last
  BY Zenon DEF Grows
<1>2. rendered["critic"] \in Nat /\ last \in Nat /\ rendered["critic"] <= last
  BY Zenon DEF TypeOK, ReadOK, Agent
<1>3. e.seq \in Nat
  BY DEF TypeOK, Event
<1> QED BY <1>1, <1>2, <1>3

\* A step of a turn, or beside it, that moves no cursor.
LEMMA TurnGoesOn ==
    ASSUME TypeOK, TypeOK', ReadOK, Grows, UNCHANGED <<cursor, rendered, tick>>,
           turn' = turn \/ (turn.stage # "idle" /\ turn'.shown = turn.shown),
           PendsFresh, turn'.stage = "register" => turn' = turn \/ Fresh(turn.about)'
    PROVE  ReadOK'
<1>1. \A a \in Agent : cursor'[a] <= last' /\ rendered'[a] <= last'
  <2> SUFFICES ASSUME NEW a \in Agent PROVE cursor[a] <= last' /\ rendered[a] <= last'
    BY Zenon
  <2>1. cursor[a] \in Nat /\ rendered[a] \in Nat /\ last \in Nat /\ last' \in Nat /\ last <= last'
    BY Zenon DEF TypeOK, Grows
  <2>2. cursor[a] <= last /\ rendered[a] <= last
    BY Zenon DEF ReadOK
  <2> QED BY <2>1, <2>2
<1>2. ASSUME turn'.stage # "idle"
      PROVE  turn.stage # "idle" /\ turn'.shown = turn.shown /\ tick \in Agent
  BY <1>2, Zenon DEF ReadOK
<1>3. ASSUME turn'.stage # "idle", NEW e \in Unread(tick)', e.seq <= rendered[tick]
      PROVE  e.seq \in turn'.shown
  <2>1. tick \in Agent /\ rendered[tick] <= last /\ rendered[tick] \in Nat /\ last \in Nat
    BY <1>2, <1>3, Zenon DEF TypeOK, ReadOK
  <2>2. e \in events' /\ e.seq \in Nat /\ (e \in events => e \in Unread(tick))
    <3>1. e \in events' /\ (e \in events => e \in Unread(tick))
      BY Zenon DEF Unread
    <3> QED BY <3>1 DEF TypeOK, Event
  <2>3. e \in events
    <3>1. e \in events \/ e.seq > last
      BY <2>2, Zenon DEF Grows
    <3> QED BY <1>3, <2>1, <2>2, <3>1
  <2> QED BY <1>2, <1>3, <2>2, <2>3, Zenon DEF ReadOK
<1>4. tick' \notin Agent => turn'.stage = "idle"
  BY <1>2, Zenon DEF ReadOK
<1>5. \A a \in Agent : NotesFit(a)'
  <2> SUFFICES ASSUME NEW a \in Agent PROVE NotesFit(a)'
    BY Zenon
  <2>1. cursor'[a] >= cursor[a]
    <3>1. cursor[a] \in Nat /\ cursor'[a] = cursor[a]
      BY Zenon DEF TypeOK
    <3> QED BY <3>1
  <2> QED BY <2>1, NotesKept, Zenon
<1>6. turn'.stage = "register" => Fresh(turn.about)' \/ turn' # turn
  <2> SUFFICES ASSUME turn'.stage = "register", turn' = turn,
                      NEW e \in events', e.topic = "proposal", e.about = turn'.about
               PROVE  e.seq > rendered["critic"]
    BY Zenon DEF Fresh
  <2>1. Fresh(turn.about)
    BY Zenon DEF ReadOK
  <2>2. /\ rendered["critic"] \in Nat /\ last \in Nat /\ rendered["critic"] <= last
    BY Zenon DEF TypeOK, ReadOK, Agent
  <2>3. e.seq \in Nat
    BY DEF TypeOK, Event
  <2>4. CASE e \in events
    BY <2>1, <2>4, Zenon DEF Fresh
  <2>5. CASE e.seq > last
    BY <2>2, <2>3, <2>5
  <2> QED BY <2>4, <2>5, Zenon DEF Grows
<1>7. turn'.stage = "register" => Fresh(turn.about)'
  BY <1>6, Zenon
<1>8. tick' = "down" => \A a \in Agent : rendered'[a] = 0
  BY Zenon DEF ReadOK
<1> QED BY <1>1, <1>3, <1>4, <1>5, <1>7, <1>8, Zenon DEF ReadOK, Grows

\* A step that ends a turn or is taken outside one.
LEMMA TurnIsOver ==
    ASSUME TypeOK, TypeOK', ReadOK, Grows, turn'.stage = "idle",
           \A a \in Agent : /\ cursor'[a] >= cursor[a]
                            /\ cursor'[a] = cursor[a] \/ cursor'[a] = rendered[a],
           \/ rendered' = rendered /\ PendsFresh /\ tick' # "down"
           \/ \A a \in Agent : rendered'[a] = 0
    PROVE  ReadOK'
<1>1. \A a \in Agent : cursor'[a] <= last' /\ rendered'[a] <= last'
  <2> SUFFICES ASSUME NEW a \in Agent PROVE cursor'[a] <= last' /\ rendered'[a] <= last'
    BY Zenon
  <2>1. cursor[a] \in Nat /\ rendered[a] \in Nat /\ last \in Nat /\ last' \in Nat /\ last <= last'
    BY Zenon DEF TypeOK, Grows
  <2>2. cursor[a] <= last /\ rendered[a] <= last
    BY Zenon DEF ReadOK
  <2>3. rendered'[a] = rendered[a] \/ rendered'[a] = 0
    BY Zenon
  <2> QED BY <2>1, <2>2, <2>3
<1>2. \A a \in Agent : NotesFit(a)'
  BY NotesKept, Zenon
<1>3. tick' = "down" => \A a \in Agent : rendered'[a] = 0
  BY Zenon
<1> QED BY <1>1, <1>2, <1>3, Zenon DEF ReadOK, Grows

\* What the end of a turn does, at most: a cursor goes on to the note.
CursorOnly ==
    /\ \A a \in Agent : /\ cursor'[a] >= cursor[a]
                        /\ cursor'[a] = cursor[a] \/ cursor'[a] = rendered[a]
    /\ rendered' = rendered /\ PendsFresh /\ tick' # "down"

\* A cursor never goes back.
LEMMA AdvanceForward ==
    ASSUME TypeOK, NEW a \in Agent, NEW n \in Nat, advance(a, n)
    PROVE  \A b \in Agent : /\ cursor'[b] >= cursor[b]
                            /\ cursor'[b] = cursor[b] \/ (b = a /\ cursor'[b] = n)
<1> SUFFICES ASSUME NEW b \in Agent
             PROVE  /\ cursor'[b] >= cursor[b]
                    /\ cursor'[b] = cursor[b] \/ (b = a /\ cursor'[b] = n)
  BY Zenon
<1>1. cursor[b] \in Nat /\ (cursor'[b] = cursor[b] \/ (b = a /\ cursor'[b] = n /\ n > cursor[b]))
  BY Zenon DEF TypeOK, advance
<1> QED BY <1>1

\* The prompt holds the oldest rows: with one row all older unread ones are in it.
LEMMA OldestFirst ==
    ASSUME TypeOK, ReadOK, NEW a \in Agent, NEW e \in Unread(a),
           NEW newest \in Fitting(Rendered(a)), newest \in events, e.seq <= newest.seq
    PROVE  e \in Fitting(Rendered(a))
<1> DEFINE Older(x) == {d \in Rendered(a) : d.seq < x.seq}
<1>1. Rendered(a) \subseteq events /\ e \in Rendered(a) /\ e \in events
  BY Zenon DEF Rendered, Unread
<1>2. Older(e) \subseteq Older(newest)
  <2> SUFFICES ASSUME NEW d \in Rendered(a), d.seq < e.seq PROVE d.seq < newest.seq
    BY Zenon
  <2>1. d.seq \in Nat /\ e.seq \in Nat /\ newest.seq \in Nat
    BY <1>1 DEF TypeOK, Event
  <2> QED BY <2>1
<1>3. IsFiniteSet(Older(newest))
  BY <1>1, FS_Subset, Zenon DEF ReadOK
<1>4. Cardinality(Older(newest)) < Budget
  BY Zenon DEF Fitting
<1> HIDE DEF Older
<1>5. /\ Cardinality(Older(e)) <= Cardinality(Older(newest))
      /\ Cardinality(Older(e)) \in Nat /\ Cardinality(Older(newest)) \in Nat
  BY <1>2, <1>3, FS_Subset, FS_CardinalityType, Zenon
<1>6. Cardinality(Older(e)) < Budget
  BY <1>4, <1>5, RoomForOne
<1> QED BY <1>1, <1>6, Zenon DEF Fitting, Older

\* The prompt is built: what it will let the cursor pass is in it.
LEMMA RenderKeepsRead ==
    ASSUME IInv, ReadOK, NEW a \in Agent, render_inbox_sections(a)
    PROVE  ReadOK'
<1>0. TypeOK
  BY Zenon DEF IInv
<1> DEFINE shown == Fitting(Rendered(a))
           read == shown \cap Unread(a)
<1>1. /\ tick = a /\ UNCHANGED <<events, last, cursor, tick>>
      /\ turn' = Asked({e.seq : e \in shown})
      /\ note_rendered(a, read)
  BY Zenon DEF render_inbox_sections, bus
<1>2. turn'.shown = {e.seq : e \in shown}
  BY <1>1, Zenon DEF Asked
<1>3. rendered \in [Agent -> Nat] /\ cursor \in [Agent -> Nat] /\ last \in Nat
  BY <1>0, Zenon DEF TypeOK
<1>4. Unread(a)' = Unread(a)
  BY <1>1, Zenon DEF Unread
<1>5. \A b \in Agent : b # a => rendered'[b] = rendered[b]
  BY <1>1, <1>3, Zenon DEF note_rendered
<1>6. /\ turn'.stage = "asked" /\ tick' # "down"
      /\ \A b \in Agent : Unread(b)' = Unread(b) /\ Rendered(b)' = Rendered(b)
  <2>1. pending' = pending
    BY Zenon DEF render_inbox_sections
  <2> QED BY <1>1, <2>1, Zenon DEF Asked, Agent, Unread, Rendered
<1>7. ASSUME rendered'[a] <= last,
             \A e \in Unread(a) : e.seq <= rendered'[a] => e \in shown
      PROVE  ReadOK'
  <2>1. \A b \in Agent : NotesFit(b)'
    <3>1. NotesFit(a)'
      BY <1>6, <1>7, Zenon DEF NotesFit, Fitting
    <3>2. ASSUME NEW b \in Agent, b # a PROVE NotesFit(b)'
      <4>1. NotesFit(b) /\ rendered'[b] = rendered[b]
        BY <1>5, <3>2, Zenon DEF ReadOK
      <4> QED BY <1>6, <4>1, Zenon DEF NotesFit, Fitting
    <3> QED BY <3>1, <3>2, Zenon
  <2>2. \A e \in Unread(a)' : e.seq <= rendered'[a] => e.seq \in turn'.shown
    BY <1>2, <1>4, <1>7, Zenon
  <2>3. \A b \in Agent : cursor'[b] <= last' /\ rendered'[b] <= last'
    BY <1>1, <1>5, <1>7, Zenon DEF ReadOK
  <2> HIDE DEF shown, read
  <2> QED BY <1>1, <1>6, <2>1, <2>2, <2>3, Zenon DEF ReadOK
<1>8. CASE read = {} /\ UNCHANGED rendered
  <2>1. rendered'[a] <= last /\ \A e \in Unread(a) : e.seq <= rendered'[a] => e \in shown
    BY <1>8, Zenon DEF ReadOK, NotesFit
  <2> QED BY <1>7, <2>1, Zenon
<1>9. ASSUME NEW newest \in read, rendered' = [rendered EXCEPT ![a] = newest.seq]
      PROVE  ReadOK'
  <2>1. rendered'[a] = newest.seq
    BY <1>3, <1>9, Zenon
  <2>2. newest \in events /\ newest.seq <= last
    BY <1>9, Zenon DEF Unread, IInv, LogOK
  <2>3. \A e \in Unread(a) : e.seq <= rendered'[a] => e \in shown
    BY <1>0, <1>9, <2>1, <2>2, OldestFirst, Zenon
  <2> QED BY <1>7, <2>1, <2>2, <2>3, Zenon
<1> QED BY <1>1, <1>8, <1>9, Zenon DEF note_rendered

\* No step lets a cursor get past a row that no prompt of its turn showed.
LEMMA ReadStep == ASSUME IInv, ReadOK, TypeOK', [Next]_vars PROVE ReadOK'
<1>0. TypeOK
  BY Zenon DEF IInv
<1>c. \A b \in Agent : cursor[b] >= cursor[b]
  BY <1>0 DEF TypeOK
<1>1. ASSUME NEW a \in Agent, render_inbox_sections(a) PROVE ReadOK'
  BY <1>1, RenderKeepsRead, Zenon
<1>2. ASSUME NEW a \in Agent, admit_turn(a) PROVE ReadOK'
  <2>1. Grows
    BY <1>0, <1>2, SameGrows, Zenon DEF admit_turn, bus
  <2>2. turn'.stage = "idle"
    BY <1>2, Zenon DEF admit_turn, Idle, ReadOK, Agent
  <2>3. CursorOnly
    BY <1>0, <1>c, <1>2, ThenType, Zenon
    DEF admit_turn, memory, bus, CursorOnly, PendsFresh, Agent
  <2> QED BY <1>0, <2>1, <2>2, <2>3, TurnIsOver, Zenon DEF CursorOnly
<1>3. ASSUME NEW a \in Agent, BackendError(a) PROVE ReadOK'
  <2>1. Grows
    BY <1>0, <1>3, AppendGrows, Zenon DEF BackendError
  <2>2. turn'.stage = "idle"
    BY <1>3, Zenon DEF BackendError, Idle, ReadOK, Agent
  <2>3. CursorOnly
    BY <1>0, <1>c, <1>3, ThenType, Zenon
    DEF BackendError, memory, bus, CursorOnly, PendsFresh, Agent
  <2> QED BY <1>0, <2>1, <2>2, <2>3, TurnIsOver, Zenon DEF CursorOnly
<1>4. ASSUME NEW a \in Agent, NoIntentEmitted(a) PROVE ReadOK'
  <2>1. Grows
    BY <1>0, <1>4, AppendGrows, Zenon DEF NoIntentEmitted
  <2>2. turn'.stage = "idle"
    BY <1>4, Zenon DEF NoIntentEmitted, Idle, ReadOK, Agent
  <2>3. CursorOnly
    <3>1. rendered[a] \in Nat /\ advance(a, rendered[a]) /\ UNCHANGED memory /\ tick' = Then(a)
      BY <1>0, <1>4, Zenon DEF NoIntentEmitted, advance_rendered_cursor, TypeOK
    <3> QED BY <1>0, <3>1, AdvanceForward, ThenType, Zenon DEF memory, CursorOnly, PendsFresh, Agent
  <2> QED BY <1>0, <2>1, <2>2, <2>3, TurnIsOver, Zenon DEF CursorOnly
<1>5. ASSUME NEW a \in Agent, settle_routed_turn(a) PROVE ReadOK'
  <2>1. Grows
    BY <1>0, <1>5, SameGrows, Zenon DEF settle_routed_turn
  <2>2. turn'.stage = "idle"
    BY <1>5, Zenon DEF settle_routed_turn, Idle, ReadOK, Agent
  <2>3. CursorOnly
    <3>1. rendered[a] \in Nat /\ advance(a, rendered[a]) /\ UNCHANGED memory /\ tick' = Then(a)
      BY <1>0, <1>5, Zenon DEF settle_routed_turn, advance_rendered_cursor, TypeOK
    <3> QED BY <1>0, <3>1, AdvanceForward, ThenType, Zenon DEF memory, CursorOnly, PendsFresh, Agent
  <2> QED BY <1>0, <2>1, <2>2, <2>3, TurnIsOver, Zenon DEF CursorOnly
<1>6. ASSUME NEW a \in Agent, TurnCancelled(a) PROVE ReadOK'
  <2>1. Grows
    BY <1>0, <1>6, SameGrows, Zenon DEF TurnCancelled, bus
  <2>2. turn'.stage = "idle"
    BY <1>6, Zenon DEF TurnCancelled, Idle, ReadOK, Agent
  <2>3. CursorOnly
    BY <1>0, <1>c, <1>6, ThenType, Zenon
    DEF TurnCancelled, memory, bus, CursorOnly, PendsFresh, Agent
  <2> QED BY <1>0, <2>1, <2>2, <2>3, TurnIsOver, Zenon DEF CursorOnly
<1>7. ASSUME NEW p \in Proposal, handle_propose_action(p) PROVE ReadOK'
  <2>1. Grows
    BY <1>0, <1>7, AppendGrows, Zenon DEF handle_propose_action
  <2>2. turn' = turn \/ (turn.stage # "idle" /\ turn'.shown = turn.shown)
    BY <1>7, Zenon DEF handle_propose_action, Replied, Moved, Handled
  <2>3. UNCHANGED <<cursor, rendered, tick>>
    BY <1>7, Zenon DEF handle_propose_action, memory, bus
  <2>4. PendsFresh
    BY <1>7, Zenon DEF handle_propose_action, memory, PendsFresh
  <2>5. turn'.about = p /\ \A e \in events : e.topic = "proposal" => e.about # p
    BY <1>7, Zenon DEF handle_propose_action, Moved, IInv, LogOK
  <2>6. Fresh(turn.about)'
    <3>1. Fresh(p)'
      BY <1>0, <2>1, <2>3, <2>5, NewIsFresh, Zenon
    <3> QED BY <2>5, <3>1, Zenon DEF Fresh
  <2> QED BY <1>0, <2>1, <2>2, <2>3, <2>4, <2>6, TurnGoesOn, Zenon
<1>8. ASSUME NEW p \in Proposal, submit_integrate_review(p) PROVE ReadOK'
  <2> DEFINE row == Row(last + 1, "proposal", "coordinator", "*", p)
             seen == Observation(last + 2)
  <2>1. events' = (events \cup {row}) \cup {seen} /\ last' = last + 2
    BY <1>8, Zenon DEF submit_integrate_review
  <2>2. last \in Nat /\ IsFiniteSet(events)
    BY <1>0, Zenon DEF TypeOK, ReadOK
  <2>3. row.seq = last + 1 /\ seen.seq = last + 2
    BY DEF Row, Observation
  <2> HIDE DEF row, seen
  <2>4. IsFiniteSet(events')
    BY <2>1, <2>2, FS_AddElement, Zenon
  <2>5. row.seq > last /\ seen.seq > last /\ last' \in Nat /\ last <= last'
    BY <2>1, <2>2, <2>3
  <2>6. Grows
    BY <2>1, <2>4, <2>5, Zenon DEF Grows
  <2>7. UNCHANGED <<cursor, rendered, tick, turn>>
    BY <1>8, Zenon DEF submit_integrate_review
  <2>8. pending' = pending \cup {p} /\ \A e \in events : e.topic = "proposal" => e.about # p
    BY <1>8, Zenon DEF submit_integrate_review, IInv, LogOK
  <2>9. Fresh(p)'
    BY <1>0, <2>6, <2>7, <2>8, NewIsFresh, Zenon
  <2>10. PendsFresh
    BY <2>8, <2>9, Zenon DEF PendsFresh
  <2> QED BY <1>0, <2>6, <2>7, <2>10, TurnGoesOn, Zenon
<1>9. ASSUME NEW p \in Proposal, VerdictForUnknown(p) PROVE ReadOK'
  <2>1. Grows
    BY <1>0, <1>9, AppendGrows, Zenon DEF VerdictForUnknown
  <2>2. turn' = turn \/ (turn.stage # "idle" /\ turn'.shown = turn.shown)
    BY <1>9, Zenon DEF VerdictForUnknown, Replied, Moved, Handled
  <2>3. UNCHANGED <<cursor, rendered, tick>>
    BY <1>9, Zenon DEF VerdictForUnknown, memory, bus
  <2>4. PendsFresh /\ (turn'.stage = "register" => turn' = turn)
    BY <1>9, Zenon DEF VerdictForUnknown, memory, Moved, Handled, PendsFresh
  <2> QED BY <1>0, <2>1, <2>2, <2>3, <2>4, TurnGoesOn, Zenon
<1>10. ASSUME NEW p \in Proposal, author_timeout_deny(p) PROVE ReadOK'
  <2>1. Grows
    BY <1>0, <1>10, AppendGrows, Zenon DEF author_timeout_deny
  <2>2. turn' = turn \/ (turn.stage # "idle" /\ turn'.shown = turn.shown)
    BY <1>10, Zenon DEF author_timeout_deny, Replied, Moved, Handled
  <2>3. UNCHANGED <<cursor, rendered, tick>>
    BY <1>10, Zenon DEF author_timeout_deny, memory, bus
  <2>4. PendsFresh /\ (turn'.stage = "register" => turn' = turn)
    BY <1>10, Zenon DEF author_timeout_deny, memory, Moved, Handled, PendsFresh
  <2> QED BY <1>0, <2>1, <2>2, <2>3, <2>4, TurnGoesOn, Zenon
<1>11. ASSUME NEW p \in Proposal, NEW answer \in Answer, handle_review_verdict(p, answer) PROVE ReadOK'
  <2>1. Grows
    BY <1>0, <1>11, SameGrows, Zenon DEF handle_review_verdict, bus
  <2>2. turn' = turn \/ (turn.stage # "idle" /\ turn'.shown = turn.shown)
    BY <1>11, Zenon DEF handle_review_verdict, Replied, Moved, Handled
  <2>3. UNCHANGED <<cursor, rendered, tick>>
    BY <1>11, Zenon DEF handle_review_verdict, memory, bus
  <2>4. PendsFresh /\ (turn'.stage = "register" => turn' = turn)
    BY <1>11, Zenon DEF handle_review_verdict, memory, Moved, Handled, PendsFresh
  <2> QED BY <1>0, <2>1, <2>2, <2>3, <2>4, TurnGoesOn, Zenon
<1>12. ASSUME record_proposal PROVE ReadOK'
  <2>1. Grows
    BY <1>0, <1>12, SameGrows, Zenon DEF record_proposal, bus
  <2>2. turn' = turn \/ (turn.stage # "idle" /\ turn'.shown = turn.shown)
    BY <1>12, Zenon DEF record_proposal, Replied, Moved, Handled
  <2>3. UNCHANGED <<cursor, rendered, tick>>
    BY <1>12, Zenon DEF record_proposal, memory, bus
  <2>4. PendsFresh /\ (turn'.stage = "register" => turn' = turn)
    <3>1. turn'.stage = "routing" /\ pending' = pending \cup {turn.about} /\ UNCHANGED <<events, rendered>>
      BY <1>12, Zenon DEF record_proposal, bus, Moved, Handled
    <3>2. Fresh(turn.about)
      BY <1>12, Zenon DEF record_proposal, ReadOK
    <3> QED BY <3>1, <3>2, Zenon DEF PendsFresh, Fresh
  <2> QED BY <1>0, <2>1, <2>2, <2>3, <2>4, TurnGoesOn, Zenon
<1>13. ASSUME rebroadcast_verdict PROVE ReadOK'
  <2>1. Grows
    BY <1>0, <1>13, AppendGrows, Zenon DEF rebroadcast_verdict
  <2>2. turn' = turn \/ (turn.stage # "idle" /\ turn'.shown = turn.shown)
    BY <1>13, Zenon DEF rebroadcast_verdict, Replied, Moved, Handled
  <2>3. UNCHANGED <<cursor, rendered, tick>>
    BY <1>13, Zenon DEF rebroadcast_verdict, memory, bus
  <2>4. PendsFresh /\ (turn'.stage = "register" => turn' = turn)
    BY <1>13, Zenon DEF rebroadcast_verdict, memory, Moved, Handled, PendsFresh
  <2> QED BY <1>0, <2>1, <2>2, <2>3, <2>4, TurnGoesOn, Zenon
<1>14. ASSUME HandlerFailed PROVE ReadOK'
  <2>1. Grows
    BY <1>0, <1>14, AppendGrows, Zenon DEF HandlerFailed
  <2>2. turn' = turn \/ (turn.stage # "idle" /\ turn'.shown = turn.shown)
    BY <1>14, Zenon DEF HandlerFailed, Replied, Moved, Handled
  <2>3. UNCHANGED <<cursor, rendered, tick>>
    BY <1>14, Zenon DEF HandlerFailed, memory, bus
  <2>4. PendsFresh /\ (turn'.stage = "register" => turn' = turn)
    BY <1>14, Zenon DEF HandlerFailed, memory, Moved, Handled, PendsFresh
  <2> QED BY <1>0, <2>1, <2>2, <2>3, <2>4, TurnGoesOn, Zenon
<1>15. ASSUME NotProceeding PROVE ReadOK'
  <2>1. Grows
    BY <1>0, <1>15, SameGrows, Zenon DEF NotProceeding, bus
  <2>2. turn' = turn \/ (turn.stage # "idle" /\ turn'.shown = turn.shown)
    BY <1>15, Zenon DEF NotProceeding, Replied, Moved, Handled
  <2>3. UNCHANGED <<cursor, rendered, tick>>
    BY <1>15, Zenon DEF NotProceeding, memory, bus
  <2>4. PendsFresh /\ (turn'.stage = "register" => turn' = turn)
    BY <1>15, Zenon DEF NotProceeding, memory, Moved, Handled, PendsFresh
  <2> QED BY <1>0, <2>1, <2>2, <2>3, <2>4, TurnGoesOn, Zenon
<1>16. ASSUME materialize_approved_proposal PROVE ReadOK'
  <2>1. Grows
    BY <1>0, <1>16, SameGrows, Zenon DEF materialize_approved_proposal, bus
  <2>2. turn' = turn \/ (turn.stage # "idle" /\ turn'.shown = turn.shown)
    BY <1>16, Zenon DEF materialize_approved_proposal, Replied, Moved, Handled
  <2>3. UNCHANGED <<cursor, rendered, tick>>
    BY <1>16, Zenon DEF materialize_approved_proposal, memory, bus
  <2>4. PendsFresh /\ (turn'.stage = "register" => turn' = turn)
    BY <1>16, Zenon DEF materialize_approved_proposal, memory, Moved, Handled, PendsFresh
  <2> QED BY <1>0, <2>1, <2>2, <2>3, <2>4, TurnGoesOn, Zenon
<1>17. ASSUME record_materialize_skipped PROVE ReadOK'
  <2>1. Grows
    BY <1>0, <1>17, AppendGrows, Zenon DEF record_materialize_skipped
  <2>2. turn' = turn \/ (turn.stage # "idle" /\ turn'.shown = turn.shown)
    BY <1>17, Zenon DEF record_materialize_skipped, Replied, Moved, Handled
  <2>3. UNCHANGED <<cursor, rendered, tick>>
    BY <1>17, Zenon DEF record_materialize_skipped, memory, bus
  <2>4. PendsFresh /\ (turn'.stage = "register" => turn' = turn)
    BY <1>17, Zenon DEF record_materialize_skipped, memory, Moved, Handled, PendsFresh
  <2> QED BY <1>0, <2>1, <2>2, <2>3, <2>4, TurnGoesOn, Zenon
<1>18. ASSUME announce_approved_proposal PROVE ReadOK'
  <2>1. Grows
    BY <1>0, <1>18, AppendGrows, Zenon DEF announce_approved_proposal
  <2>2. turn' = turn \/ (turn.stage # "idle" /\ turn'.shown = turn.shown)
    BY <1>18, Zenon DEF announce_approved_proposal, Replied, Moved, Handled
  <2>3. UNCHANGED <<cursor, rendered, tick>>
    BY <1>18, Zenon DEF announce_approved_proposal, memory, bus
  <2>4. PendsFresh /\ (turn'.stage = "register" => turn' = turn)
    BY <1>18, Zenon DEF announce_approved_proposal, memory, Moved, Handled, PendsFresh
  <2> QED BY <1>0, <2>1, <2>2, <2>3, <2>4, TurnGoesOn, Zenon
<1>19. ASSUME ReconcilerEnds PROVE ReadOK'
  <2>1. Grows
    BY <1>0, <1>19, SameGrows, Zenon DEF ReconcilerEnds, bus
  <2>2. turn'.stage = "idle"
    BY <1>19, Zenon DEF ReconcilerEnds, Idle, ReadOK, Agent
  <2>3. CursorOnly
    BY <1>0, <1>c, <1>19, ThenType, Zenon
    DEF ReconcilerEnds, memory, bus, CursorOnly, PendsFresh, Agent
  <2> QED BY <1>0, <2>1, <2>2, <2>3, TurnIsOver, Zenon DEF CursorOnly
<1>20. ASSUME PruneEvents PROVE ReadOK'
  <2>1. events' \subseteq events /\ UNCHANGED <<last, cursor, rendered, tick, turn>>
    BY <1>20, Zenon DEF PruneEvents, prune_events, memory
  <2>2. IsFiniteSet(events') /\ last \in Nat
    BY <1>0, <2>1, FS_Subset, Zenon DEF ReadOK, TypeOK
  <2>3. last <= last
    BY <2>2
  <2>4. Grows
    BY <2>1, <2>2, <2>3, Zenon DEF Grows
  <2>5. PendsFresh
    BY <1>20, Zenon DEF PruneEvents, memory, PendsFresh
  <2> QED BY <1>0, <2>1, <2>4, <2>5, TurnGoesOn, Zenon
<1>21. ASSUME UpkeepEnds PROVE ReadOK'
  <2>1. Grows
    BY <1>0, <1>21, SameGrows, Zenon DEF UpkeepEnds, bus
  <2>2. turn'.stage = "idle"
    BY <1>21, Zenon DEF UpkeepEnds, Idle, ReadOK, Agent
  <2>3. CursorOnly
    BY <1>0, <1>c, <1>21, ThenType, Zenon
    DEF UpkeepEnds, memory, bus, CursorOnly, PendsFresh, Agent
  <2> QED BY <1>0, <2>1, <2>2, <2>3, TurnIsOver, Zenon DEF CursorOnly
<1>22. ASSUME Crash PROVE ReadOK'
  <2>1. Grows
    BY <1>0, <1>22, SameGrows, Zenon DEF Crash, bus
  <2>2. turn'.stage = "idle" /\ \A b \in Agent : cursor'[b] = cursor[b] /\ rendered'[b] = 0
    BY <1>22, Zenon DEF Crash, Idle, bus
  <2> QED BY <1>0, <1>c, <2>1, <2>2, TurnIsOver, Zenon
<1>23. ASSUME replay_for_resume PROVE ReadOK'
  <2>1. Grows
    BY <1>0, <1>23, SameGrows, Zenon DEF replay_for_resume, bus
  <2>2. turn'.stage = "idle"
    BY <1>23, Zenon DEF replay_for_resume, Idle, ReadOK, Agent
  <2>3. cursor' = cursor /\ \A b \in Agent : rendered'[b] = 0
    BY <1>23, Zenon DEF replay_for_resume, bus, ReadOK
  <2> QED BY <1>0, <1>c, <2>1, <2>2, <2>3, TurnIsOver, Zenon
<1>24. ASSUME UNCHANGED vars PROVE ReadOK'
  <2>1. Grows
    BY <1>0, <1>24, SameGrows, Zenon DEF vars
  <2>2. PendsFresh /\ UNCHANGED <<cursor, rendered, tick, turn>>
    BY <1>24, Zenon DEF vars, PendsFresh
  <2> QED BY <1>0, <2>1, <2>2, TurnGoesOn, Zenon
<1> QED
  BY <1>1, <1>2, <1>3, <1>4, <1>5, <1>6, <1>7, <1>8, <1>9, <1>10, <1>11,
     <1>12, <1>13, <1>14, <1>15, <1>16, <1>17, <1>18, <1>19, <1>20, <1>21,
     <1>22, <1>23, <1>24, Zenon
     DEF Next, Turn

\* Only the end of a turn moves a cursor, to what its prompt allows.
LEMMA CursorMoves ==
    ASSUME IInv, [Next]_vars, NEW b \in Agent
    PROVE  \/ cursor'[b] = cursor[b]
           \/ cursor'[b] = rendered[b] /\ tick = b /\ turn.stage # "idle"
<1> USE DEF bus
<1> DEFINE Goal == \/ cursor'[b] = cursor[b]
                   \/ cursor'[b] = rendered[b] /\ tick = b /\ turn.stage # "idle"
<1>0. cursor \in [Agent -> Nat]
  BY Zenon DEF IInv, TypeOK
<1>1. ASSUME NEW a \in Agent, render_inbox_sections(a) PROVE Goal
  BY <1>1, Zenon DEF render_inbox_sections
<1>2. ASSUME NEW a \in Agent, admit_turn(a) PROVE Goal
  BY <1>2, Zenon DEF admit_turn
<1>3. ASSUME NEW a \in Agent, BackendError(a) PROVE Goal
  BY <1>3, Zenon DEF BackendError
<1>4. ASSUME NEW a \in Agent, NoIntentEmitted(a) PROVE Goal
  BY <1>0, <1>4, Zenon DEF NoIntentEmitted, advance_rendered_cursor, advance, Replied
<1>5. ASSUME NEW a \in Agent, settle_routed_turn(a) PROVE Goal
  BY <1>0, <1>5, Zenon DEF settle_routed_turn, advance_rendered_cursor, advance, Replied
<1>6. ASSUME NEW a \in Agent, TurnCancelled(a) PROVE Goal
  BY <1>6, Zenon DEF TurnCancelled
<1>7. ASSUME NEW p \in Proposal, handle_propose_action(p) PROVE Goal
  BY <1>7, Zenon DEF handle_propose_action
<1>8. ASSUME NEW p \in Proposal, submit_integrate_review(p) PROVE Goal
  BY <1>8, Zenon DEF submit_integrate_review
<1>9. ASSUME NEW p \in Proposal, VerdictForUnknown(p) PROVE Goal
  BY <1>9, Zenon DEF VerdictForUnknown
<1>10. ASSUME NEW p \in Proposal, author_timeout_deny(p) PROVE Goal
  BY <1>10, Zenon DEF author_timeout_deny
<1>11. ASSUME NEW p \in Proposal, NEW answer \in Answer, handle_review_verdict(p, answer) PROVE Goal
  BY <1>11, Zenon DEF handle_review_verdict
<1>12. ASSUME record_proposal PROVE Goal
  BY <1>12, Zenon DEF record_proposal
<1>13. ASSUME rebroadcast_verdict PROVE Goal
  BY <1>13, Zenon DEF rebroadcast_verdict
<1>14. ASSUME HandlerFailed PROVE Goal
  BY <1>14, Zenon DEF HandlerFailed
<1>15. ASSUME NotProceeding PROVE Goal
  BY <1>15, Zenon DEF NotProceeding
<1>16. ASSUME materialize_approved_proposal PROVE Goal
  BY <1>16, Zenon DEF materialize_approved_proposal
<1>17. ASSUME record_materialize_skipped PROVE Goal
  BY <1>17, Zenon DEF record_materialize_skipped
<1>18. ASSUME announce_approved_proposal PROVE Goal
  BY <1>18, Zenon DEF announce_approved_proposal
<1>19. ASSUME ReconcilerEnds PROVE Goal
  BY <1>19, Zenon DEF ReconcilerEnds
<1>20. ASSUME PruneEvents PROVE Goal
  BY <1>20, Zenon DEF PruneEvents, prune_events
<1>21. ASSUME UpkeepEnds PROVE Goal
  BY <1>21, Zenon DEF UpkeepEnds
<1>22. ASSUME Crash PROVE Goal
  BY <1>22, Zenon DEF Crash
<1>23. ASSUME replay_for_resume PROVE Goal
  BY <1>23, Zenon DEF replay_for_resume
<1>24. ASSUME UNCHANGED vars PROVE Goal
  BY <1>24, Zenon DEF vars
<1> QED
  BY <1>1, <1>2, <1>3, <1>4, <1>5, <1>6, <1>7, <1>8, <1>9, <1>10, <1>11,
     <1>12, <1>13, <1>14, <1>15, <1>16, <1>17, <1>18, <1>19, <1>20, <1>21,
     <1>22, <1>23, <1>24, Zenon
     DEF Next, Turn

\* A cursor passes only what was read: whatever failed, was cut short or was left
\* out for want of room before, a turn's end never skips a message its own prompt
\* did not show.
THEOREM CursorsSkipNothing == Spec => NothingSkipped
<1> DEFINE A == \A a \in Agent : \A e \in Unread(a) : e.seq <= cursor'[a] => e.seq \in turn.shown
<1>1. Init => ReadOK
  <2> SUFFICES ASSUME Init PROVE ReadOK
    BY Zenon
  <2>1. events = {} /\ last = 0 /\ turn.stage = "idle"
    BY Zenon DEF Init, BusInit, Idle
  <2>2. \A a \in Agent : cursor[a] = 0 /\ rendered[a] = 0
    BY Zenon DEF Init, BusInit
  <2>3. \A a \in Agent : cursor[a] <= last /\ rendered[a] <= last
    BY <2>1, <2>2
  <2>4. \A a \in Agent : NotesFit(a)
    BY <2>1, Zenon DEF NotesFit, Unread
  <2> QED BY <2>1, <2>2, <2>3, <2>4, FS_EmptySet, Zenon DEF ReadOK
<1>2. IInv /\ ReadOK /\ [Next]_vars => ReadOK'
  <2>1. IInv /\ [Next]_vars => TypeOK'
    BY TypeStep, Zenon DEF IInv
  <2> QED BY <2>1, ReadStep, Zenon
<1>3. IInv /\ ReadOK /\ [Next]_vars => [A]_vars
  <2> SUFFICES ASSUME IInv, ReadOK, [Next]_vars, NEW a \in Agent, NEW e \in Unread(a),
                      e.seq <= cursor'[a]
               PROVE  e.seq \in turn.shown
    BY Zenon
  <2>1. e.seq > cursor[a] /\ e \in events
    BY Zenon DEF Unread
  <2>2. e.seq \in Nat /\ cursor[a] \in Nat
    BY <2>1 DEF IInv, TypeOK, Event
  <2>3. cursor'[a] # cursor[a]
    BY <2>1, <2>2
  <2>4. cursor'[a] = rendered[a] /\ tick = a /\ turn.stage # "idle"
    BY <2>3, CursorMoves, Zenon
  <2> QED BY <2>4, Zenon DEF ReadOK
<1> QED BY <1>1, <1>2, <1>3, Inductive, PTL DEF Spec, NothingSkipped

=============================================================================
