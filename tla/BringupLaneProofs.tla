------------------------- MODULE BringupLaneProofs --------------------------
(***************************************************************************)
(* The enablement lane for any specialists, probes, generations and        *)
(* restarts.  The inductive invariant IInv gives three invariants: a round *)
(* stays with its work, a specialist that waits holds the round, and an    *)
(* open window bars authoring.  On top of it: a revalidation that passed   *)
(* finds the window it was run for still open; the lane implements the     *)
(* round store; which stalls may charge a round; and which keep a window   *)
(* measures.                                                               *)
(***************************************************************************)
EXTENDS BringupLane, TLAPS

Specialist == Authored \cup Foreign

RowState == Terminal \cup {"absent", "queued", "running"}

Shape ==
    /\ rounds = [r \in Rounds |-> rounds[r]]
    /\ task \in [Tasks -> RowState]
    /\ result = [t \in Tasks |-> result[t]]
    /\ lane \in Lane /\ disk \in Lane
    /\ proposals \subseteq Specialist /\ crashes \in Nat
    /\ dead \subseteq {t \in Tasks : task[t] = "running"}

OneHeld == \A r, q \in Held : r = q

\* A result, a proposal and a handoff that is owed come from a task that has ended.
EndedFirst ==
    /\ \A t \in Tasks : result[t] # "none" => task[t] \in Terminal
    /\ \A s \in proposals : task[s] \in Terminal

Owed ==
    /\ todo.op = "handoff" => /\ todo.task \in Specialist /\ task[todo.task] \in Terminal
                              /\ task[Integrate(todo.task)] # "absent"
    /\ todo.op = "cancel" => todo.task \in Authored /\ todo = [op |-> "cancel", task |-> todo.task]

\* The window in memory and the one on disk: a crash may bring the latter back.
Barred == lane.pending \/ disk.pending => Held \subseteq Revals

IInv == Shape /\ OneHeld /\ EndedFirst /\ Owed /\ Barred
        /\ RoundStaysWithItsWork /\ QueuedSpecialistHolds

-----------------------------------------------------------------------------
(* Tasks *)

\* The kinds of task that a round's holder is told apart by.
LEMMA Kinds ==
    /\ Authored \subseteq Tasks /\ Foreign \subseteq Tasks /\ Probe \subseteq Tasks
    /\ Revals \subseteq Tasks /\ Specialist \subseteq Tasks
    /\ \A s \in Specialist : Integrate(s) \in Tasks /\ Integrate(s) \notin Specialist
    /\ \A t \in Revals : t \notin Specialist
    /\ \A g \in Gen : Reval(g) \in Revals
BY KindsDiffer DEF Tasks, Revals, Integrates, Specialist

-----------------------------------------------------------------------------
(* The round store *)

\* Rounds may end; those that go on keep their holder.
RoundsEnd ==
    /\ rounds' = [r \in Rounds |-> rounds'[r]]
    /\ Held' \subseteq Held
    /\ \A r \in Held' : rounds'[r].holder = rounds[r].holder

\* A settle ends its round and touches no other.
LEMMA SettleEnds ==
    ASSUME Shape, NEW r \in Held, NEW outcome, Store!Settle(Store!Snap(r), outcome)
    PROVE  RoundsEnd /\ Held' = Held \ {r}
<1>1. r \in Rounds
  BY DEF Held, Store!OpenRounds
<1>2. Store!Snap(r).id = r
  BY DEF Store!Snap
<1> DEFINE row == [state |-> "settled", outcome |-> outcome,
                   holder |-> Store!Snap(r).holder, fence |-> Store!Snap(r).fence]
<1>3. rounds' = [rounds EXCEPT ![r] = row]
  BY <1>2 DEF Store!Settle, Store!Write
<1>4. row.state = "settled"
  OBVIOUS
<1> HIDE DEF row
<1>5. \A q \in Rounds : rounds'[q] = IF q = r THEN row ELSE rounds[q]
  BY <1>1, <1>3 DEF Shape
<1>6. rounds' = [q \in Rounds |-> rounds'[q]]
  BY <1>1, <1>3 DEF Shape
<1> QED BY <1>1, <1>4, <1>5, <1>6 DEF RoundsEnd, Held, Store!OpenRounds

\* settle_enablement_round leaves no round held, and owes a cancel to a specialist
\* that held it.
LEMMA SettleHeldEnds ==
    ASSUME Shape, OneHeld, NEW outcome, SettleHeld(outcome)
    PROVE  /\ RoundsEnd /\ Held' = {}
           /\ \/ todo' = Nothing /\ \A r \in Held : rounds[r].holder \notin Authored
              \/ \E r \in Held : /\ rounds[r].holder \in Authored
                                 /\ todo' = [op |-> "cancel", task |-> rounds[r].holder]
<1>1. CASE Held = {}
  <2>1. rounds' = rounds /\ todo' = Nothing
    BY <1>1 DEF SettleHeld, store
  <2>2. Held' = Held
    BY <2>1 DEF Held, Store!OpenRounds
  <2> QED BY <1>1, <2>1, <2>2 DEF RoundsEnd, Shape
<1>2. CASE Held # {}
  <2>1. PICK r \in Held :
           /\ Store!Settle(Store!Snap(r), outcome)
           /\ todo' = IF rounds[r].holder \in Authored
                      THEN [op |-> "cancel", task |-> rounds[r].holder] ELSE Nothing
    BY <1>2 DEF SettleHeld
  <2>2. RoundsEnd /\ Held' = Held \ {r}
    BY <2>1, SettleEnds
  <2>3. Held = {r}
    BY DEF OneHeld
  <2> QED BY <2>1, <2>2, <2>3
<1> QED BY <1>1, <1>2

\* A round is opened only when none is held, for the task that names it.
LEMMA OpenHolds ==
    ASSUME Shape, NEW r \in Rounds, Store!Open(r, r)
    PROVE  /\ rounds' = [q \in Rounds |-> rounds'[q]]
           /\ Held = {} /\ Held' = {r} /\ rounds'[r].holder = r
<1> DEFINE row == [state |-> "open", outcome |-> "", holder |-> r, fence |-> 1]
<1>1. rounds' = [rounds EXCEPT ![r] = row] /\ Held = {}
  BY Zenon DEF Store!Open, Store!Write, Store!MayOpen, Held
<1>2. row.state = "open" /\ row.holder = r
  OBVIOUS
<1> HIDE DEF row
<1>3. \A q \in Rounds : rounds'[q] = IF q = r THEN row ELSE rounds[q]
  BY <1>1 DEF Shape
<1>4. rounds' = [q \in Rounds |-> rounds'[q]]
  BY <1>1 DEF Shape
<1> QED BY <1>1, <1>2, <1>3, <1>4 DEF Held, Store!OpenRounds

\* A handoff changes the holder of its round and nothing else.
LEMMA HandoffHolds ==
    ASSUME Shape, NEW r \in Held, NEW h, Store!Handoff(Store!Snap(r), h)
    PROVE  /\ rounds' = [q \in Rounds |-> rounds'[q]]
           /\ Held' = Held /\ rounds'[r].holder = h
           /\ \A q \in Held \ {r} : rounds'[q].holder = rounds[q].holder
<1>1. r \in Rounds
  BY DEF Held, Store!OpenRounds
<1>2. Store!Snap(r).id = r
  BY DEF Store!Snap
<1> DEFINE row == [state |-> "open", outcome |-> "", holder |-> h, fence |-> Store!Snap(r).fence + 1]
<1>3. rounds' = [rounds EXCEPT ![r] = row]
  BY <1>2, Zenon DEF Store!Handoff, Store!Write
<1>4. row.state = "open" /\ row.holder = h
  OBVIOUS
<1> HIDE DEF row
<1>5. \A q \in Rounds : rounds'[q] = IF q = r THEN row ELSE rounds[q]
  BY <1>1, <1>3 DEF Shape
<1>6. rounds' = [q \in Rounds |-> rounds'[q]]
  BY <1>1, <1>3 DEF Shape
<1> QED BY <1>1, <1>4, <1>5, <1>6 DEF Held, Store!OpenRounds

-----------------------------------------------------------------------------
(* What a step has to show *)

\* Rows, results and proposals go on: no row is taken back, no specialist of the lane
\* starts to wait, and what is reported or proposed comes from a task that has ended.
TasksGoOn ==
    /\ task' \in [Tasks -> RowState]
    /\ \A t \in Tasks : /\ task[t] # "absent" => task'[t] # "absent"
                        /\ task[t] \in Terminal => task'[t] \in Terminal
                        /\ result'[t] # "none" => result[t] # "none" \/ task'[t] \in Terminal
    /\ \A s \in Authored : task'[s] = "queued" => task[s] = "queued"
    /\ result' = [t \in Tasks |-> result'[t]]
    /\ proposals' \subseteq Specialist
    /\ \A s \in proposals' : s \in proposals \/ task'[s] \in Terminal
    /\ dead' \subseteq {t \in Tasks : task'[t] = "running"}

\* Nothing of it changes.
LEMMA TasksStay ==
    ASSUME IInv, UNCHANGED <<task, result, proposals, dead>>
    PROVE  TasksGoOn
BY Kinds DEF IInv, Shape, TasksGoOn

\* A result is booked.
LEMMA TasksBooked ==
    ASSUME IInv, NEW t \in Tasks, Booked(t), UNCHANGED <<task, dead>>,
           proposals' \subseteq proposals \/ (t \in Specialist /\ result[t] # "none"
                                              /\ proposals' \subseteq proposals \cup {t})
    PROVE  TasksGoOn
<1>1. result' = [result EXCEPT ![t] = "none"]
  BY DEF Booked
<1>2. result' = [u \in Tasks |-> result'[u]] /\ \A u \in Tasks : result'[u] # "none" => result[u] # "none"
  BY <1>1 DEF IInv, Shape
<1>3. proposals' \subseteq Specialist /\ \A s \in proposals' : s \in proposals \/ task[s] \in Terminal
  BY Kinds DEF IInv, Shape, EndedFirst
<1> QED BY <1>2, <1>3, Kinds DEF IInv, Shape, TasksGoOn

\* What follows for the rows.
LEMMA RowsKept ==
    ASSUME IInv, TasksGoOn, rounds' = [r \in Rounds |-> rounds'[r]],
           lane' \in Lane, disk' \in Lane, crashes' \in Nat
    PROVE  Shape' /\ EndedFirst'
<1>1. Shape'
  BY DEF TasksGoOn, Shape
<1>2. \A t \in Tasks : result'[t] # "none" => task'[t] \in Terminal
  BY DEF TasksGoOn, IInv, EndedFirst
<1>3. \A s \in proposals' : task'[s] \in Terminal
  BY Kinds DEF TasksGoOn, IInv, EndedFirst
<1> QED BY <1>1, <1>2, <1>3 DEF EndedFirst

\* What follows for the rounds when they at most end.
LEMMA RoundsKept ==
    ASSUME IInv, TasksGoOn, RoundsEnd
    PROVE  OneHeld' /\ RoundStaysWithItsWork'
<1>1. OneHeld'
  BY DEF IInv, OneHeld, RoundsEnd
<1>2. \A r \in Held : rounds[r].holder \in Tasks
  BY Kinds DEF IInv, RoundStaysWithItsWork, Held, Store!OpenRounds, Rounds, Specialist
<1>3. RoundStaysWithItsWork'
  BY <1>2 DEF IInv, RoundStaysWithItsWork, RoundsEnd, TasksGoOn
<1> QED BY <1>1, <1>3

\* A step that leaves the rounds alone.
LEMMA SameStep ==
    ASSUME IInv, rounds' = rounds, TasksGoOn, lane' \in Lane, disk' \in Lane,
           lane'.pending \/ disk'.pending => lane.pending \/ disk.pending \/ Held = {},
           todo' = todo \/ (Owed' /\ (todo.op # "cancel" \/ task'[todo.task] # "queued")), crashes' = crashes
    PROVE  IInv'
<1>1. Held' = Held /\ RoundsEnd
  BY DEF Held, Store!OpenRounds, RoundsEnd, IInv, Shape
<1>2. Shape' /\ EndedFirst'
  BY RowsKept DEF IInv, Shape
<1>3. OneHeld' /\ RoundStaysWithItsWork'
  BY <1>1, RoundsKept
<1>4. Owed'
  <2>1. CASE todo' = todo
    BY <2>1, Kinds DEF IInv, Owed, TasksGoOn
  <2> QED BY <2>1
<1>5. Barred'
  BY <1>1 DEF IInv, Barred
<1>6. QueuedSpecialistHolds'
  <2> SUFFICES ASSUME crashes' = 0, NEW s \in Authored, task'[s] = "queued"
               PROVE  (\E r \in Held' : rounds'[r].holder = s) \/ todo' = [op |-> "cancel", task |-> s]
    BY DEF QueuedSpecialistHolds
  <2>1. crashes = 0 /\ task[s] = "queued"
    BY DEF TasksGoOn
  <2>2. CASE \E r \in Held : rounds[r].holder = s
    BY <1>1, <2>2
  <2>3. CASE todo = [op |-> "cancel", task |-> s]
    BY <2>3
  <2> QED BY <2>1, <2>2, <2>3 DEF IInv, QueuedSpecialistHolds
<1> QED BY <1>2, <1>3, <1>4, <1>5, <1>6 DEF IInv

\* A step that settles the round that is held.
LEMMA SettleStep ==
    ASSUME IInv, NEW outcome, SettleHeld(outcome), TasksGoOn, lane' \in Lane, disk' \in Lane,
           crashes' \in Nat, crashes' = 0 => crashes = 0 /\ todo.op # "cancel"
    PROVE  IInv'
<1>1. /\ RoundsEnd /\ Held' = {}
      /\ \/ todo' = Nothing /\ \A r \in Held : rounds[r].holder \notin Authored
         \/ \E r \in Held : /\ rounds[r].holder \in Authored
                            /\ todo' = [op |-> "cancel", task |-> rounds[r].holder]
  BY SettleHeldEnds DEF IInv
<1>2. Shape' /\ EndedFirst'
  BY <1>1, RowsKept DEF RoundsEnd
<1>3. OneHeld' /\ RoundStaysWithItsWork'
  BY <1>1, RoundsKept
<1>4. Owed'
  BY <1>1 DEF Owed, Nothing
<1>5. Barred'
  BY <1>1 DEF Barred
<1>6. QueuedSpecialistHolds'
  <2> SUFFICES ASSUME crashes' = 0, NEW s \in Authored, task'[s] = "queued"
               PROVE  todo' = [op |-> "cancel", task |-> s]
    BY DEF QueuedSpecialistHolds
  <2>1. crashes = 0 /\ task[s] = "queued" /\ todo.op # "cancel"
    BY DEF TasksGoOn
  <2>2. PICK r \in Held : rounds[r].holder = s
    BY <2>1 DEF IInv, QueuedSpecialistHolds
  <2> QED BY <1>1, <2>2 DEF IInv, OneHeld
<1> QED BY <1>2, <1>3, <1>4, <1>5, <1>6 DEF IInv

\* A handoff goes from a specialist that has ended to the integrate of its patch.
LEMMA HandoffStep ==
    ASSUME IInv, NEW r \in Held, rounds[r].holder \in Specialist,
           task[rounds[r].holder] \in Terminal,
           task[Integrate(rounds[r].holder)] # "absent",
           Store!Handoff(Store!Snap(r), Integrate(rounds[r].holder)),
           UNCHANGED <<task, result, proposals, dead, lane, disk, crashes>>,
           todo.op # "cancel", Owed'
    PROVE  IInv'
<1>1. /\ rounds' = [q \in Rounds |-> rounds'[q]] /\ Held' = Held
      /\ rounds'[r].holder = Integrate(rounds[r].holder)
      /\ \A q \in Held \ {r} : rounds'[q].holder = rounds[q].holder
  BY HandoffHolds DEF IInv
<1>2. TasksGoOn
  BY TasksStay
<1>3. Shape' /\ EndedFirst'
  BY <1>1, <1>2, RowsKept DEF IInv, Shape
<1>4. r \in Authored /\ rounds[r].holder = r
  <2>1. r \in Rounds
    BY DEF Held, Store!OpenRounds
  <2>2. r \in Authored => r \in Specialist
    BY DEF Specialist
  <2> QED BY <2>1, <2>2, Kinds DEF IInv, RoundStaysWithItsWork, Rounds
<1>5. OneHeld' /\ Barred'
  BY <1>1 DEF IInv, OneHeld, Barred
<1>6. RoundStaysWithItsWork'
  BY <1>1, <1>4 DEF IInv, RoundStaysWithItsWork
<1>7. QueuedSpecialistHolds'
  <2>1. \A s \in Authored : task[s] = "queued" => s # rounds[r].holder
    BY DEF Terminal
  <2>2. \A s : todo # [op |-> "cancel", task |-> s]
    OBVIOUS
  <2> QED BY <1>1, <2>1, <2>2 DEF IInv, QueuedSpecialistHolds
<1> QED BY <1>3, <1>5, <1>6, <1>7 DEF IInv

\* A handler that owes nothing more.
LEMMA NothingOwed ==
    ASSUME todo' = Nothing
    PROVE  Owed'
BY DEF Owed, Nothing

\* An idle coordinator owes no cancel.
LEMMA IdleOwesNothing ==
    ASSUME Idle
    PROVE  todo.op # "cancel"
BY DEF Idle, Nothing

\* The states of the lane that handlers write.
LEMMA LaneWrites ==
    ASSUME NEW l \in Lane
    PROVE  /\ l.pending \in BOOLEAN
           /\ [l EXCEPT !.pending = TRUE, !.gen = @ + 1, !.tracked = NoTask] \in Lane
           /\ [CloseBooted(l) EXCEPT !.anchored = TRUE] \in Lane
           /\ ReopenWindow(l) \in Lane /\ ReopenWindow(l).pending = l.pending
           /\ [l EXCEPT !.pending = FALSE, !.tracked = NoTask] \in Lane
           /\ ~[l EXCEPT !.pending = FALSE, !.tracked = NoTask].pending
           /\ \A b \in {"boot", "eval", ""} :
                 /\ [l EXCEPT !.origin = b] \in Lane
                 /\ [l EXCEPT !.origin = b].pending = l.pending
                 /\ [l EXCEPT !.origin = b, !.anchored = TRUE] \in Lane
                 /\ [l EXCEPT !.origin = b, !.anchored = TRUE].pending = l.pending
                 /\ [l EXCEPT !.origin = b, !.pending = FALSE] \in Lane
                 /\ ~[l EXCEPT !.origin = b, !.pending = FALSE].pending
           /\ [l EXCEPT !.pending = FALSE, !.tracked = NoTask, !.anchored = TRUE] \in Lane
<1>1. \A n \in Nat : n + 1 \in Nat
  OBVIOUS
<1>2. l.gen \in Nat
  BY Zenon DEF Lane
<1>3. PICK n \in Nat : n = l.gen + 1
  BY <1>1, <1>2
<1>4. /\ [l EXCEPT !.pending = TRUE, !.gen = n, !.tracked = NoTask] \in Lane
      /\ [l EXCEPT !.gen = n, !.tracked = NoTask] \in Lane
      /\ [l EXCEPT !.gen = n, !.tracked = NoTask].pending = l.pending
  BY Zenon DEF Lane
<1>5. /\ [l EXCEPT !.pending = TRUE, !.gen = @ + 1, !.tracked = NoTask] \in Lane
      /\ ReopenWindow(l) \in Lane /\ ReopenWindow(l).pending = l.pending
  BY <1>3, <1>4 DEF ReopenWindow
<1>6. l.pending \in BOOLEAN /\ [CloseBooted(l) EXCEPT !.anchored = TRUE] \in Lane
  BY Zenon DEF Lane, CloseBooted
<1>7. /\ [l EXCEPT !.pending = FALSE, !.tracked = NoTask] \in Lane
      /\ ~[l EXCEPT !.pending = FALSE, !.tracked = NoTask].pending
      /\ [l EXCEPT !.pending = FALSE, !.tracked = NoTask, !.anchored = TRUE] \in Lane
  BY Zenon DEF Lane
<1>8. ASSUME NEW b \in {"boot", "eval", ""}
      PROVE  /\ [l EXCEPT !.origin = b] \in Lane
             /\ [l EXCEPT !.origin = b].pending = l.pending
             /\ [l EXCEPT !.origin = b, !.anchored = TRUE] \in Lane
             /\ [l EXCEPT !.origin = b, !.anchored = TRUE].pending = l.pending
             /\ [l EXCEPT !.origin = b, !.pending = FALSE] \in Lane
             /\ ~[l EXCEPT !.origin = b, !.pending = FALSE].pending
  BY Zenon DEF Lane
<1> QED BY <1>5, <1>6, <1>7, <1>8, Zenon

-----------------------------------------------------------------------------
(* The handlers *)

\* maybe_rearm_enablement: a keep opens the window as it settles the round.
LEMMA RearmStep ==
    ASSUME IInv, NEW status, NEW spec, Rearm(status, spec), TasksGoOn,
           todo.op # "cancel", disk' = disk, crashes' = crashes
    PROVE  IInv'
<1>1. lane \in Lane /\ disk \in Lane /\ crashes \in Nat
  BY DEF IInv, Shape
<1>2. CASE status = "reverted" /\ NeverDispatched(spec)
  <2>1. rounds' = rounds /\ lane' = lane /\ todo' = Nothing
    BY <1>2 DEF Rearm, store
  <2> QED BY <1>1, <2>1, NothingOwed, SameStep
<1>3. CASE ~(status = "reverted" /\ NeverDispatched(spec))
  <2>1. lane' \in Lane /\ (status # "kept" => lane' = lane)
    BY <1>1, <1>3, LaneWrites, Zenon DEF Rearm
  <2>2. CASE Answers(status, spec)
    <3>1. SettleHeld(MovedBy(status))
      BY <1>3, <2>2 DEF Rearm
    <3> QED BY <1>1, <2>1, <3>1, SettleStep
  <2>3. CASE ~Answers(status, spec)
    <3>1. rounds' = rounds /\ todo' = Nothing
      BY <1>3, <2>3 DEF Rearm, store
    <3>2. status # "kept" \/ Held = {}
      BY <2>3 DEF Answers
    <3>3. lane'.pending \/ disk'.pending => lane.pending \/ disk.pending \/ Held = {}
      BY <2>1, <3>2
    <3> QED BY <1>1, <2>1, <3>1, <3>3, NothingOwed, SameStep
  <2> QED BY <2>2, <2>3
<1> QED BY <1>2, <1>3

\* _promote_baseline outside a window.
LEMMA PromotedStep ==
    ASSUME IInv, PromotedOutsideWindow, TasksGoOn,
           todo.op # "cancel", disk' = disk, crashes' = crashes
    PROVE  IInv'
<1>1. lane \in Lane /\ disk \in Lane /\ crashes \in Nat
  BY DEF IInv, Shape
<1>2. CASE ~stop /\ lane.origin # "eval" /\ ~lane.succeeded
  <2>1. lane' \in Lane /\ SettleHeld("booted")
    BY <1>1, <1>2, LaneWrites, Zenon DEF PromotedOutsideWindow
  <2> QED BY <1>1, <2>1, SettleStep
<1>3. CASE ~(~stop /\ lane.origin # "eval" /\ ~lane.succeeded)
  <2>1. lane' \in Lane /\ lane'.pending = lane.pending
    BY <1>1, <1>3, LaneWrites, Zenon DEF PromotedOutsideWindow
  <2>2. rounds' = rounds /\ todo' = Nothing
    BY <1>3 DEF PromotedOutsideWindow, store
  <2> QED BY <1>1, <2>1, <2>2, NothingOwed, SameStep
<1> QED BY <1>2, <1>3

\* A revalidation that measured.
LEMMA RevalPromotedStep ==
    ASSUME IInv, NEW report, RevalPromoted(report), TasksGoOn,
           todo.op # "cancel", disk' = disk, crashes' = crashes
    PROVE  IInv'
<1>1. lane \in Lane /\ disk \in Lane /\ crashes \in Nat
  BY DEF IInv, Shape
<1>2. CASE ~lane.pending
  BY <1>2, PromotedStep DEF RevalPromoted
<1>3. CASE lane.pending
  <2>1. lane' = IF report = "passed" THEN [CloseBooted(lane) EXCEPT !.anchored = TRUE]
                ELSE [lane EXCEPT !.pending = FALSE, !.tracked = NoTask, !.anchored = TRUE]
    BY <1>3 DEF RevalPromoted
  <2>3. lane' \in Lane
    BY <1>1, <2>1, LaneWrites, Zenon
  <2>2. \E outcome : SettleHeld(outcome)
    BY <1>3 DEF RevalPromoted
  <2> QED BY <1>1, <2>2, <2>3, SettleStep
<1> QED BY <1>2, <1>3

\* _charge_baseline_failure for a revalidation.
LEMMA RevalFailedStep ==
    ASSUME IInv, NEW report, RevalFailed(report), TasksGoOn,
           todo.op # "cancel", disk' = disk, crashes' = crashes
    PROVE  IInv'
<1>1. lane \in Lane /\ disk \in Lane /\ crashes \in Nat
  BY DEF IInv, Shape
<1>2. CASE lane.anchored /\ report # "refused"
  <2>1. rounds' = rounds /\ lane' = lane /\ todo' = Nothing
    BY <1>2 DEF RevalFailed, store
  <2> QED BY <1>1, <2>1, NothingOwed, SameStep
<1>3. CASE ~(lane.anchored /\ report # "refused")
  <2> DEFINE l == IF ~lane.pending THEN lane
                  ELSE IF report = "stopped" THEN ReopenWindow(lane)
                  ELSE [lane EXCEPT !.pending = FALSE, !.tracked = NoTask]
             b == IF report = "eval_failed" THEN "eval" ELSE l.origin
  <2>1. l \in Lane /\ (~lane.pending => l = lane)
    BY <1>1, LaneWrites, Zenon
  <2>2. lane' = [l EXCEPT !.origin = b]
    BY <1>3 DEF RevalFailed
  <2>3. l.origin \in {"boot", "eval", ""}
    BY <2>1, Zenon DEF Lane
  <2>4. b \in {"boot", "eval", ""}
    BY <2>3, Zenon
  <2> HIDE DEF l, b
  <2>5. lane' \in Lane /\ lane'.pending = l.pending
    BY <2>1, <2>2, <2>4, LaneWrites, Zenon
  <2>6. CASE lane.pending
    <3>1. \E outcome : SettleHeld(outcome)
      BY <1>3, <2>6 DEF RevalFailed
    <3> QED BY <1>1, <2>5, <3>1, SettleStep
  <2>7. CASE ~lane.pending
    <3>1. rounds' = rounds /\ todo' = Nothing
      BY <1>3, <2>7 DEF RevalFailed, store
    <3> QED BY <1>1, <2>1, <2>5, <2>7, <3>1, NothingOwed, SameStep
  <2> QED BY <2>6, <2>7
<1> QED BY <1>2, <1>3

-----------------------------------------------------------------------------
(* The steps *)

\* A step that only moves rows on.
LEMMA RowStep ==
    ASSUME IInv, TasksGoOn, UNCHANGED <<rounds, lane, disk, crashes>>,
           todo' = todo \/ (Owed' /\ (todo.op # "cancel" \/ task'[todo.task] # "queued"))
    PROVE  IInv'
BY SameStep DEF IInv, Shape

\* One row is written: it was there, or it is no specialist of the lane that now waits.
LEMMA RowWritten ==
    ASSUME IInv, NEW t \in Tasks, NEW st \in RowState \ {"absent"},
           task' = [task EXCEPT ![t] = st],
           task[t] \in Terminal => st \in Terminal,
           t \in Authored => st # "queued",
           UNCHANGED <<result, proposals>> \/ st \in Terminal,
           result' = [u \in Tasks |-> result'[u]],
           \A u \in Tasks \ {t} : result'[u] = result[u],
           proposals' \subseteq Specialist, proposals' \subseteq proposals \cup {t},
           dead' \subseteq dead, t \notin dead' \/ st = "running"
    PROVE  TasksGoOn
<1>1. \A u \in Tasks : task'[u] = IF u = t THEN st ELSE task[u]
  BY DEF IInv, Shape
<1>2. task' \in [Tasks -> RowState]
  BY DEF IInv, Shape
<1>3. \A u \in Tasks : /\ task[u] # "absent" => task'[u] # "absent"
                       /\ task[u] \in Terminal => task'[u] \in Terminal
                       /\ result'[u] # "none" => result[u] # "none" \/ task'[u] \in Terminal
  BY <1>1
<1>4. \A s \in Authored : task'[s] = "queued" => task[s] = "queued"
  BY <1>1, Kinds
<1>5. \A s \in proposals' : s \in proposals \/ task'[s] \in Terminal
  BY <1>1
<1>6. dead' \subseteq {u \in Tasks : task'[u] = "running"}
  BY <1>1 DEF IInv, Shape
<1> QED BY <1>2, <1>3, <1>4, <1>5, <1>6 DEF TasksGoOn

\* Executions start and end.
LEMMA ExecutionStep ==
    ASSUME IInv, NEW t \in Tasks, Start(t) \/ End(t)
    PROVE  IInv'
<1>1. result = [u \in Tasks |-> result[u]] /\ proposals \subseteq Specialist
  BY DEF IInv, Shape
<1>2. CASE Start(t)
  <2>1. TasksGoOn
    BY <1>1, <1>2, RowWritten, Zenon DEF Start, RowState, Terminal
  <2> QED BY <1>2, <2>1, RowStep DEF Start, store, memory, rest
<1>3. CASE End(t)
  <2>1. PICK report \in Reports(t) : /\ task' = [task EXCEPT ![t] = RowFor(report)]
                                     /\ result' = [result EXCEPT ![t] = report]
    BY <1>3, Zenon DEF End
  <2>2. RowFor(report) \in Terminal
    BY DEF RowFor, Terminal
  <2>3. RowFor(report) \in RowState \ {"absent"} /\ RowFor(report) # "queued"
    BY DEF RowFor, RowState, Terminal
  <2>4. result' = [u \in Tasks |-> result'[u]] /\ \A u \in Tasks \ {t} : result'[u] = result[u]
    BY <1>1, <2>1
  <2>5. proposals' = proposals /\ dead' = dead /\ t \notin dead
    BY <1>3 DEF End
  <2>6. TasksGoOn
    BY <1>1, <2>1, <2>2, <2>3, <2>4, <2>5, RowWritten, Zenon
  <2> QED BY <1>3, <2>6, RowStep DEF End, store, memory, rest
<1> QED BY <1>2, <1>3

\* Results are booked.
LEMMA BookingStep ==
    ASSUME IInv, \/ \E s \in Authored : BookSpecialist(s)
                 \/ \E t \in Integrates \cup Probe : BookIntegrate(t)
                 \/ \E t \in Revals : BookReval(t)
    PROVE  IInv'
<1>1. CASE \E s \in Authored : BookSpecialist(s)
  <2>1. PICK s \in Authored : BookSpecialist(s)
    BY <1>1
  <2>2. s \in Tasks /\ s \in Specialist
    BY Kinds DEF Specialist
  <2>3. TasksGoOn
    BY <2>1, <2>2, TasksBooked DEF BookSpecialist
  <2> QED BY <2>1, <2>3, RowStep DEF BookSpecialist, store, memory, session
<1>2. CASE \E t \in Integrates \cup Probe : BookIntegrate(t)
  <2>1. PICK t \in Integrates \cup Probe : BookIntegrate(t)
    BY <1>2
  <2>2. t \in Tasks
    BY DEF Tasks
  <2>3. TasksGoOn
    BY <2>1, <2>2, TasksBooked DEF BookIntegrate
  <2>4. Rearm(result[t], Author(t)) /\ todo.op # "cancel" /\ disk' = disk /\ crashes' = crashes
    BY <2>1, IdleOwesNothing DEF BookIntegrate
  <2> QED BY <2>3, <2>4, RearmStep
<1>3. CASE \E t \in Revals : BookReval(t)
  <2>1. PICK t \in Revals : BookReval(t)
    BY <1>3
  <2>2. TasksGoOn
    BY <2>1, Kinds, TasksBooked DEF BookReval
  <2>3. todo.op # "cancel" /\ disk' = disk /\ crashes' = crashes
    BY <2>1, IdleOwesNothing DEF BookReval
  <2>4. RevalPromoted(result[t]) \/ RevalFailed(result[t])
    BY <2>1 DEF BookReval
  <2> QED BY <2>2, <2>3, <2>4, RevalPromotedStep, RevalFailedStep
<1> QED BY <1>1, <1>2, <1>3

\* Rows of dead processes are failed, and accounted.
LEMMA DeadStep ==
    ASSUME IInv, NEW t \in Tasks, FailDead(t) \/ AccountDead(t)
    PROVE  IInv'
<1>1. result = [u \in Tasks |-> result[u]] /\ proposals \subseteq Specialist
  BY DEF IInv, Shape
<1>2. CASE FailDead(t)
  <2>1. TasksGoOn
    BY <1>1, <1>2, RowWritten, Zenon DEF FailDead, RowState, Terminal
  <2> QED BY <1>2, <2>1, RowStep DEF FailDead, store, memory, session
<1>3. CASE AccountDead(t)
  <2>1. TasksGoOn
    BY <1>3, TasksStay DEF AccountDead
  <2>2. todo.op # "cancel" /\ disk' = disk /\ crashes' = crashes
    BY <1>3, IdleOwesNothing DEF AccountDead
  <2>3. CASE t \in Revals
    BY <1>3, <2>1, <2>2, <2>3, RevalFailedStep DEF AccountDead
  <2>4. CASE t \notin Revals
    BY <1>3, <2>1, <2>2, <2>4, RowStep DEF AccountDead, store
  <2> QED BY <2>3, <2>4
<1> QED BY <1>2, <1>3

\* The second writes of handlers, and the save.
LEMMA OwedStep ==
    ASSUME IInv, HandOver \/ RearmRejected \/ CancelHolder \/ Save
    PROVE  IInv'
<1>1. CASE HandOver
  <2>1. /\ todo.op = "handoff" /\ todo' = Nothing
        /\ UNCHANGED <<task, result, proposals, dead, lane, disk, crashes>>
    BY <1>1 DEF HandOver, rows, session
  <2>2. /\ todo.task \in Specialist /\ task[todo.task] \in Terminal
        /\ task[Integrate(todo.task)] # "absent"
    BY <2>1 DEF IInv, Owed
  <2>3. Owed' /\ todo.op # "cancel"
    BY <2>1, NothingOwed
  <2>4. CASE \E r \in Held : rounds[r].holder = todo.task
                            /\ Store!Handoff(Store!Snap(r), Integrate(todo.task))
    BY <2>1, <2>2, <2>3, <2>4, HandoffStep
  <2>5. CASE rounds' = rounds
    <3>1. TasksGoOn
      BY <2>1, TasksStay
    <3> QED BY <2>1, <2>3, <2>5, <3>1, RowStep
  <2> QED BY <1>1, <2>4, <2>5 DEF HandOver, store
<1>2. CASE RearmRejected
  <2>1. TasksGoOn
    BY <1>2, TasksStay DEF RearmRejected, rows
  <2> QED BY <1>2, <2>1, RearmStep DEF RearmRejected, session
<1>3. CASE CancelHolder
  <2>1. todo.task \in Authored /\ todo = [op |-> "cancel", task |-> todo.task] /\ todo' = Nothing
    BY <1>3 DEF CancelHolder, IInv, Owed
  <2>2. UNCHANGED <<rounds, result, proposals, dead, lane, disk, crashes>>
    BY <1>3 DEF CancelHolder, store, rest
  <2>3. todo.task \in Tasks /\ task \in [Tasks -> RowState]
        /\ dead \subseteq {t \in Tasks : task[t] = "running"}
        /\ result = [u \in Tasks |-> result[u]] /\ proposals \subseteq Specialist
    BY <2>1, Kinds DEF IInv, Shape
  <2>4. CASE task[todo.task] = "queued"
    <3>1. task' = [task EXCEPT ![todo.task] = "cancelled"]
      BY <1>3, <2>4 DEF CancelHolder
    <3>2. TasksGoOn
      BY <2>2, <2>3, <2>4, <3>1, RowWritten, Zenon DEF RowState, Terminal
    <3>3. task'[todo.task] # "queued"
      BY <2>3, <3>1
    <3> QED BY <2>1, <2>2, <3>2, <3>3, NothingOwed, RowStep
  <2>5. CASE task[todo.task] # "queued"
    <3>1. task' = task
      BY <1>3, <2>5 DEF CancelHolder
    <3>2. TasksGoOn
      BY <2>2, <3>1, TasksStay
    <3> QED BY <2>1, <2>2, <2>5, <3>1, <3>2, NothingOwed, RowStep
  <2> QED BY <2>4, <2>5
<1>4. CASE Save
  <2>1. TasksGoOn
    BY <1>4, TasksStay DEF Save, rows
  <2>2. rounds' = rounds /\ lane' = lane /\ disk' = lane /\ todo' = todo /\ crashes' = crashes
    BY <1>4 DEF Save, store, rest
  <2> QED BY <2>1, <2>2, SameStep DEF IInv, Shape
<1> QED BY <1>1, <1>2, <1>3, <1>4

\* Verdicts on proposals.
LEMMA ReviewStep ==
    ASSUME IInv, NEW s \in Specialist, Approve(s) \/ Reject(s) \/ Deny(s)
    PROVE  IInv'
<1>1. /\ result = [u \in Tasks |-> result[u]] /\ proposals \subseteq Specialist
      /\ task \in [Tasks -> RowState] /\ dead \subseteq {t \in Tasks : task[t] = "running"}
      /\ Integrate(s) \in Tasks /\ Integrate(s) \notin Specialist /\ s \in Tasks
  BY Kinds DEF IInv, Shape
<1>2. s \in proposals /\ task[s] \in Terminal /\ todo.op # "cancel"
  BY IdleOwesNothing DEF Approve, Reject, Deny, BeforeDrain, IInv, EndedFirst
<1>3. CASE Approve(s)
  <2>1. /\ task[Integrate(s)] = "absent" /\ task' = [task EXCEPT ![Integrate(s)] = "queued"]
        /\ proposals' = proposals \ {s} /\ todo' = [op |-> "handoff", task |-> s]
        /\ UNCHANGED <<rounds, result, dead, lane, disk, crashes>>
    BY <1>3 DEF Approve, store, session
  <2>2. /\ task' \in [Tasks -> RowState]
        /\ \A t \in Tasks : task'[t] = IF t = Integrate(s) THEN "queued" ELSE task[t]
    BY <1>1, <2>1 DEF RowState
  <2>3. Integrate(s) \notin Authored /\ "absent" \notin Terminal
    BY <1>1 DEF Specialist, Terminal
  <2>4. TasksGoOn
    <3>1. \A t \in Tasks : /\ task[t] # "absent" => task'[t] # "absent"
                           /\ task[t] \in Terminal => task'[t] \in Terminal
      BY <2>1, <2>2, <2>3
    <3>2. \A u \in Authored : task'[u] = "queued" => task[u] = "queued"
      BY <2>2, <2>3, Kinds
    <3>3. dead' \subseteq {t \in Tasks : task'[t] = "running"}
      BY <1>1, <2>1, <2>2
    <3> QED BY <1>1, <2>1, <2>2, <3>1, <3>2, <3>3 DEF TasksGoOn
  <2>5. Owed'
    <3>1. todo'.op = "handoff" /\ todo'.task = s
      BY <2>1
    <3>2. s # Integrate(s) /\ task'[s] \in Terminal /\ task'[Integrate(s)] # "absent"
      BY <1>1, <1>2, <2>2
    <3> QED BY <3>1, <3>2 DEF Owed
  <2> QED BY <1>2, <2>1, <2>4, <2>5, RowStep
<1>4. CASE Reject(s) \/ Deny(s)
  <2>1. UNCHANGED <<rounds, task, result, dead, lane, disk, crashes>> /\ proposals' = proposals \ {s}
    BY <1>4 DEF Reject, Deny, store, rows, memory, session
  <2>2. TasksGoOn
    BY <1>1, <2>1, Kinds DEF TasksGoOn
  <2>3. todo' = todo \/ Owed'
    BY <1>4 DEF Reject, Deny, memory, Owed
  <2> QED BY <1>2, <2>1, <2>2, <2>3, RowStep
<1> QED BY <1>3, <1>4

\* Work of others, the budget, and baselines of another origin.
LEMMA OutsideStep ==
    ASSUME IInv, Outside
    PROVE  IInv'
<1>1. /\ result = [u \in Tasks |-> result[u]] /\ proposals \subseteq Specialist
      /\ task \in [Tasks -> RowState] /\ dead \subseteq {t \in Tasks : task[t] = "running"}
      /\ lane \in Lane /\ disk \in Lane
  BY DEF IInv, Shape
<1>2. ASSUME NEW s \in Foreign, ForeignDelivers(s)
      PROVE  IInv'
  <2>1. s \in Tasks /\ s \in Specialist
    BY Kinds DEF Specialist
  <2>2. /\ task[s] = "absent" /\ task' = [task EXCEPT ![s] = "succeeded"]
        /\ proposals' = proposals \cup {s}
        /\ UNCHANGED <<rounds, result, dead, lane, disk, todo, crashes>>
    BY <1>2 DEF ForeignDelivers, store, memory, rest
  <2>3. TasksGoOn
    BY <1>1, <2>1, <2>2, RowWritten, Zenon DEF RowState, Terminal
  <2> QED BY <2>2, <2>3, RowStep
<1>3. ASSUME NEW p \in Probe, EnqueueProbe(p)
      PROVE  IInv'
  <2>1. p \in Tasks /\ p \notin Authored
    BY Kinds, KindsDiffer
  <2>2. /\ task[p] = "absent" /\ task' = [task EXCEPT ![p] = "queued"]
        /\ UNCHANGED <<rounds, result, proposals, dead, lane, disk, todo, crashes>>
    BY <1>3 DEF EnqueueProbe, store, memory, rest
  <2>3. TasksGoOn
    BY <1>1, <2>1, <2>2, RowWritten, Zenon DEF RowState, Terminal
  <2> QED BY <2>2, <2>3, RowStep
<1>4. ASSUME NEW t \in Tasks, CancelOverBudget(t)
      PROVE  IInv'
  <2>1. /\ task[t] = "queued" /\ task' = [task EXCEPT ![t] = "cancelled"]
        /\ UNCHANGED <<rounds, result, proposals, dead, lane, disk, todo, crashes>>
    BY <1>4 DEF CancelOverBudget, store, memory, rest
  <2>2. TasksGoOn
    BY <1>1, <2>1, RowWritten, Zenon DEF RowState, Terminal
  <2> QED BY <2>1, <2>2, RowStep
<1>5. CASE OtherBaselinePromotes
  <2>1. TasksGoOn /\ disk' = disk /\ crashes' = crashes /\ todo.op # "cancel"
    BY <1>5, TasksStay, IdleOwesNothing DEF OtherBaselinePromotes, rows, rest
  <2>2. CASE lane.pending
    <3>1. lane' = [lane EXCEPT !.origin = "", !.anchored = TRUE] /\ rounds' = rounds /\ todo' = todo
      BY <1>5, <2>2 DEF OtherBaselinePromotes, store
    <3>2. lane' \in Lane
      BY <1>1, <3>1, LaneWrites, Zenon
    <3> QED BY <1>1, <2>1, <2>2, <3>1, <3>2, SameStep
  <2>3. CASE ~lane.pending
    BY <1>5, <2>1, <2>3, PromotedStep DEF OtherBaselinePromotes
  <2> QED BY <2>2, <2>3
<1>6. CASE OtherBaselineFailsEval
  <2>1. /\ lane' = [lane EXCEPT !.origin = "eval", !.pending = FALSE]
        /\ UNCHANGED <<rounds, task, result, proposals, dead, disk, todo, crashes>>
    BY <1>6 DEF OtherBaselineFailsEval, store, rows, rest
  <2>2. lane' \in Lane /\ ~lane'.pending
    BY <1>1, <2>1, LaneWrites, Zenon
  <2>3. TasksGoOn
    BY <2>1, TasksStay
  <2> QED BY <1>1, <2>1, <2>2, <2>3, SameStep
<1>7. CASE RunLate
  <2>1. UNCHANGED <<rounds, task, result, proposals, dead, lane, disk, todo, crashes>>
    BY <1>7 DEF RunLate, store, rows, memory
  <2>2. TasksGoOn
    BY <2>1, TasksStay
  <2> QED BY <2>1, <2>2, RowStep
<1> QED BY <1>2, <1>3, <1>4, <1>5, <1>6, <1>7 DEF Outside

\* A round is opened with the row of the task that holds it.
LEMMA OpenStep ==
    ASSUME IInv, Idle, NEW r \in Rounds, Store!Open(r, r),
           task[r] = "absent", task' = [task EXCEPT ![r] = "queued"], lane' \in Lane,
           r \in Revals \/ (~lane'.pending /\ ~disk.pending),
           UNCHANGED <<result, proposals, dead, disk, todo, crashes>>
    PROVE  IInv'
<1>1. /\ rounds' = [q \in Rounds |-> rounds'[q]]
      /\ Held = {} /\ Held' = {r} /\ rounds'[r].holder = r
  BY OpenHolds DEF IInv
<1>2. r \in Tasks
  BY Kinds DEF Rounds
<1>3. task' \in [Tasks -> RowState] /\ \A t \in Tasks : task'[t] = IF t = r THEN "queued" ELSE task[t]
  BY <1>2 DEF IInv, Shape, RowState
<1>4. Shape'
  <2>1. dead \subseteq {t \in Tasks : task'[t] = "running"}
    BY <1>2, <1>3 DEF IInv, Shape
  <2> QED BY <1>1, <1>3, <2>1 DEF IInv, Shape
<1>5. EndedFirst'
  <2>1. "absent" \notin Terminal
    BY DEF Terminal
  <2> QED BY <1>2, <1>3, <2>1, Kinds DEF IInv, Shape, EndedFirst
<1>6. OneHeld' /\ Barred'
  BY <1>1 DEF OneHeld, Barred
<1>7. RoundStaysWithItsWork'
  BY <1>1, <1>2, <1>3 DEF RoundStaysWithItsWork
<1>8. todo' = Nothing /\ \A s : todo # [op |-> "cancel", task |-> s]
  BY DEF Idle, Nothing
<1>9. QueuedSpecialistHolds'
  <2>1. \A s \in Authored : task'[s] = "queued" => s = r \/ task[s] = "queued"
    BY <1>3, Kinds
  <2> QED BY <1>1, <1>8, <2>1 DEF IInv, QueuedSpecialistHolds
<1> QED BY <1>4, <1>5, <1>6, <1>7, <1>8, <1>9, NothingOwed DEF IInv

\* The pumps of the tick.
LEMMA PumpStep ==
    ASSUME IInv, Pumps
    PROVE  IInv'
<1>1. CASE PumpRevalidation
  <2> DEFINE g == ScanStop(lane.gen)
  <2>1. /\ Idle /\ g \in Gen /\ lane \in Lane /\ disk \in Lane /\ lane = disk /\ lane.pending
        /\ UNCHANGED <<result, proposals, dead, disk, todo, crashes>>
    BY <1>1 DEF PumpRevalidation, rest, IInv, Shape, Idle
  <2>2. \/ /\ task[Reval(g)] = "absent" /\ Store!Open(Reval(g), Reval(g))
           /\ task' = [task EXCEPT ![Reval(g)] = "queued"]
           /\ lane' = [lane EXCEPT !.gen = g, !.tracked = Reval(g)]
        \/ lane' = [lane EXCEPT !.gen = g] /\ rounds' = rounds /\ task' = task
    BY <1>1 DEF PumpRevalidation, store
  <2> HIDE DEF g
  <2>3. g \in Nat /\ Reval(g) \in Revals /\ Reval(g) \in Rounds
    BY <2>1, Kinds DEF Gen, Rounds
  <2>4. [lane EXCEPT !.gen = g, !.tracked = Reval(g)] \in Lane /\ [lane EXCEPT !.gen = g] \in Lane
    BY <2>1, <2>3, Zenon DEF Lane
  <2>5. CASE /\ task[Reval(g)] = "absent" /\ Store!Open(Reval(g), Reval(g))
             /\ task' = [task EXCEPT ![Reval(g)] = "queued"]
             /\ lane' = [lane EXCEPT !.gen = g, !.tracked = Reval(g)]
    BY <2>1, <2>3, <2>4, <2>5, OpenStep, Zenon
  <2>6. CASE lane' = [lane EXCEPT !.gen = g] /\ rounds' = rounds /\ task' = task
    <3>1. TasksGoOn
      BY <2>1, <2>6, TasksStay
    <3> QED BY <2>1, <2>4, <2>6, <3>1, SameStep
  <2> QED BY <2>2, <2>5, <2>6
<1>2. ASSUME NEW s \in Authored, PumpAuthoring(s)
      PROVE  IInv'
  <2>1. /\ Idle /\ ~lane.pending /\ task[s] = "absent" /\ Store!Open(s, s)
        /\ task' = [task EXCEPT ![s] = "queued"]
        /\ UNCHANGED <<result, proposals, dead, lane, disk, todo, crashes>>
    BY <1>2 DEF PumpAuthoring, AcceptsRounds, memory, rest
  <2>2. s \in Rounds /\ ~disk.pending /\ lane \in Lane
    BY <2>1 DEF Rounds, Idle, IInv, Shape
  <2> QED BY <2>1, <2>2, OpenStep, Zenon
<1>3. CASE StopOnExhaustedAttempts
  <2>1. TasksGoOn
    BY <1>3, TasksStay DEF StopOnExhaustedAttempts, rows
  <2> QED BY <1>3, <2>1, RowStep DEF StopOnExhaustedAttempts, store, memory
<1> QED BY <1>1, <1>2, <1>3 DEF Pumps

\* The reconciler's rules on rounds and windows.
LEMMA ReconcileStep ==
    ASSUME IInv, \/ \E r \in Rounds : AdvanceToSuccessor(r) \/ Expire(r)
                 \/ CloseStaleWindow
    PROVE  IInv'
<1>1. ASSUME NEW r \in Rounds, AdvanceToSuccessor(r)
      PROVE  IInv'
  <2> DEFINE h == rounds[r].holder
  <2>1. /\ r \in Held /\ task[h] \in Terminal /\ Successor(h) # NoTask
        /\ Store!Handoff(Store!Snap(r), Successor(h))
        /\ UNCHANGED <<task, result, proposals, dead, lane, disk, todo, crashes>>
    BY <1>1, Zenon DEF AdvanceToSuccessor, HolderIsGone, rows, memory, session
  <2>2. h \in Authored /\ Live(Integrate(h)) /\ Successor(h) = Integrate(h)
    BY <2>1, Zenon DEF Successor
  <2>3. h \in Specialist /\ task[Integrate(h)] # "absent"
    BY <2>2 DEF Specialist, Live
  <2>4. todo.op # "cancel" /\ todo' = Nothing
    BY <1>1, <2>1, IdleOwesNothing, Zenon DEF AdvanceToSuccessor, BeforeDrain, Idle
  <2> QED BY <2>1, <2>2, <2>3, <2>4, NothingOwed, HandoffStep, Zenon
<1>2. ASSUME NEW r \in Rounds, Expire(r)
      PROVE  IInv'
  <2>1. /\ r \in Held /\ task[rounds[r].holder] \in Terminal
        /\ Store!Settle(Store!Snap(r), "expired_reaped")
        /\ UNCHANGED <<task, result, proposals, dead, lane, disk, todo, crashes>>
    BY <1>2, Zenon DEF Expire, HolderIsGone, rows, memory, session
  <2>2. RoundsEnd /\ Held' = Held \ {r}
    BY <2>1, SettleEnds DEF IInv
  <2>3. TasksGoOn
    BY <2>1, TasksStay, Zenon
  <2>4. Shape' /\ EndedFirst'
    BY <2>1, <2>2, <2>3, RowsKept DEF RoundsEnd, IInv, Shape
  <2>5. OneHeld' /\ RoundStaysWithItsWork'
    BY <2>2, <2>3, RoundsKept
  <2>6. Owed' /\ Barred'
    BY <2>1, <2>2 DEF IInv, Owed, Barred
  <2>7. QueuedSpecialistHolds'
    <3>1. \A s \in Authored : task[s] = "queued" => s # rounds[r].holder
      BY <2>1, Zenon DEF Terminal
    <3> QED BY <2>1, <2>2, <3>1 DEF IInv, QueuedSpecialistHolds, RoundsEnd
  <2> QED BY <2>4, <2>5, <2>6, <2>7 DEF IInv
<1>3. CASE CloseStaleWindow
  <2>1. /\ lane' = [lane EXCEPT !.pending = FALSE, !.tracked = NoTask]
        /\ UNCHANGED <<rounds, task, result, proposals, dead, disk, todo, crashes>>
    BY <1>3 DEF CloseStaleWindow, store, rows, session
  <2>2. lane' \in Lane /\ ~lane'.pending /\ disk \in Lane
    BY <2>1, LaneWrites, Zenon DEF IInv, Shape
  <2>3. TasksGoOn
    BY <2>1, TasksStay
  <2> QED BY <2>1, <2>2, <2>3, SameStep
<1> QED BY <1>1, <1>2, <1>3

\* A crash, with the resume that follows it.
LEMMA RestartStep ==
    ASSUME IInv, Restart
    PROVE  IInv'
<1>1. /\ disk' = disk /\ disk \in Lane /\ lane' = Recovered(disk)
      /\ UNCHANGED <<task, proposals>> /\ task \in [Tasks -> RowState] /\ proposals \subseteq Specialist
      /\ result' = [t \in Tasks |-> "none"] /\ dead' = {t \in Tasks : task[t] = "running"}
  BY DEF Restart, IInv, Shape
<1>2. crashes' \in Nat /\ crashes' # 0
  BY DEF Restart, IInv, Shape
<1>3. lane' \in Lane /\ (lane'.pending => disk.pending)
  BY <1>1, LaneWrites, Zenon DEF Recovered
<1>4. TasksGoOn
  <2>1. result' = [t \in Tasks |-> result'[t]] /\ \A t \in Tasks : result'[t] = "none"
    BY <1>1
  <2> QED BY <1>1, <2>1 DEF TasksGoOn
<1>5. CASE SettleHeld("abandoned")
  BY <1>1, <1>2, <1>3, <1>4, <1>5, SettleStep
<1>6. CASE rounds' = rounds /\ todo' = Nothing
  <2>1. Held' = Held /\ RoundsEnd
    BY <1>6 DEF Held, Store!OpenRounds, RoundsEnd, IInv, Shape
  <2>2. Shape' /\ EndedFirst'
    BY <1>1, <1>2, <1>3, <1>4, <2>1, RowsKept DEF RoundsEnd
  <2>3. OneHeld' /\ RoundStaysWithItsWork'
    BY <1>4, <2>1, RoundsKept
  <2>4. Barred' /\ QueuedSpecialistHolds'
    BY <1>1, <1>2, <1>3, <2>1 DEF IInv, Barred, QueuedSpecialistHolds
  <2> QED BY <1>6, <2>2, <2>3, <2>4, NothingOwed DEF IInv
<1> QED BY <1>5, <1>6 DEF Restart, store

-----------------------------------------------------------------------------
\* The lane starts with no round, no task and no window.
LEMMA InitInv == Init => IInv
<1> SUFFICES ASSUME Init PROVE IInv
  OBVIOUS
<1>1. /\ rounds = [r \in Rounds |-> Store!Absent] /\ todo = Nothing /\ crashes = 0
      /\ task = [t \in Tasks |-> "absent"] /\ result = [t \in Tasks |-> "none"]
      /\ proposals = {} /\ dead = {} /\ disk = lane
  BY DEF Init, Store!StoreInit
<1>2. Held = {}
  BY <1>1, Zenon DEF Held, Store!OpenRounds, Store!Absent
<1>3. lane \in Lane
  <2>1. PICK b \in {"boot", "eval", ""} :
           lane = [succeeded |-> FALSE, pending |-> FALSE, tracked |-> NoTask, gen |-> 0,
                   origin |-> b, anchored |-> FALSE]
    BY Zenon DEF Init
  <2>2. 0 \in Nat
    BY Zenon
  <2> QED BY <2>1, <2>2, Zenon DEF Lane
<1>4. Shape
  <2>1. task \in [Tasks -> RowState]
    BY <1>1 DEF RowState
  <2>2. rounds = [r \in Rounds |-> rounds[r]] /\ result = [t \in Tasks |-> result[t]]
    BY <1>1
  <2> QED BY <1>1, <1>3, <2>1, <2>2 DEF Shape
<1>5. Owed /\ EndedFirst
  BY <1>1 DEF Owed, EndedFirst, Nothing
<1>6. QueuedSpecialistHolds
  BY <1>1, Kinds DEF QueuedSpecialistHolds
<1> QED BY <1>2, <1>4, <1>5, <1>6 DEF IInv, OneHeld, Barred, RoundStaysWithItsWork

\* Every step of the lane keeps the invariant.
LEMMA StepKeepsInv == IInv /\ [Next]_vars => IInv'
<1> SUFFICES ASSUME IInv, [Next]_vars PROVE IInv'
  OBVIOUS
<1>1. CASE Execution
  BY <1>1, ExecutionStep DEF Execution
<1>2. CASE Booking
  BY <1>2, BookingStep, DeadStep, OwedStep DEF Booking
<1>3. CASE Review
  BY <1>3, ReviewStep DEF Review, Specialist
<1>4. CASE Outside
  BY <1>4, OutsideStep
<1>5. CASE Pumps
  BY <1>5, PumpStep
<1>6. CASE Reconcile
  BY <1>6, DeadStep, ReconcileStep DEF Reconcile
<1>7. CASE Restart
  BY <1>7, RestartStep
<1>8. CASE UNCHANGED vars
  <2>1. UNCHANGED <<rounds, task, result, proposals, dead, lane, disk, todo, crashes>>
    BY <1>8 DEF vars
  <2>2. TasksGoOn
    BY <2>1, TasksStay
  <2> QED BY <2>1, <2>2, RowStep
<1> QED BY <1>1, <1>2, <1>3, <1>4, <1>5, <1>6, <1>7, <1>8 DEF Next

\* The inductive invariant holds throughout.
LEMMA AlwaysInv == Spec => []IInv
BY InitInv, StepKeepsInv, PTL DEF Spec

\* A round is only ever worked on by the specialist it was opened for or by the
\* integrate of its patch, whatever is approved, repaired or restarted meanwhile.
THEOREM RoundsStayWithTheirWork == Spec => []RoundStaysWithItsWork
<1>1. IInv => RoundStaysWithItsWork
  BY DEF IInv
<1> QED BY AlwaysInv, <1>1, PTL

\* Until a crash, a specialist that waits to start holds the round, or its cancel is
\* what the settling handler does next.
THEOREM QueuedSpecialistsHold == Spec => []QueuedSpecialistHolds
<1>1. IInv => QueuedSpecialistHolds
  BY DEF IInv
<1> QED BY AlwaysInv, <1>1, PTL

\* While a revalidation window is open no authoring round is held, across any number
\* of crashes between a settle and the save that follows it.
THEOREM WindowsBarAuthoring == Spec => []WindowBarsAuthoring
<1>1. IInv => WindowBarsAuthoring
  BY DEF IInv, Barred, WindowBarsAuthoring
<1> QED BY AlwaysInv, <1>1, PTL

-----------------------------------------------------------------------------
(* Windows and the results that wait *)

\* A row that was failed for a dead process has no result to book.
Unbooked ==
    /\ uncounted \subseteq Tasks
    /\ \A t \in uncounted : task[t] \in Terminal /\ result[t] = "none"

\* It stays so when ended rows stay, and what they reported is at most booked.
LEMMA UnbookedStays ==
    ASSUME Unbooked, uncounted' \subseteq uncounted,
           \A t \in Tasks : task[t] \in Terminal =>
               task'[t] \in Terminal /\ result'[t] \in {result[t], "none"}
    PROVE  Unbooked'
BY DEF Unbooked

\* One row is written that had not ended.
LEMMA UnendedWritten ==
    ASSUME IInv, Unbooked, uncounted' = uncounted, NEW t \in Tasks, NEW st,
           task' = [task EXCEPT ![t] = st], task[t] \notin Terminal,
           \A u \in Tasks \ {t} : result'[u] = result[u]
    PROVE  Unbooked'
<1>1. \A u \in Tasks \ {t} : task'[u] = task[u]
  BY DEF IInv, Shape
<1> QED BY <1>1, UnbookedStays

\* A result is booked.
LEMMA BookedStays ==
    ASSUME IInv, Unbooked, NEW t \in Tasks, Booked(t), UNCHANGED <<task, uncounted>>
    PROVE  Unbooked'
<1>1. \A u \in Tasks : result'[u] \in {result[u], "none"}
  BY DEF Booked, IInv, Shape
<1> QED BY <1>1, UnbookedStays

\* Every step keeps the accounts apart from the results.
LEMMA UnbookedStep == IInv /\ Unbooked /\ [Next]_vars => Unbooked'
<1> SUFFICES ASSUME IInv, Unbooked, [Next]_vars PROVE Unbooked'
  OBVIOUS
<1>0. /\ task \in [Tasks -> RowState] /\ dead \subseteq {t \in Tasks : task[t] = "running"}
      /\ {"absent", "queued", "running"} \cap Terminal = {}
  BY DEF IInv, Shape, Terminal
<1>1. ASSUME UNCHANGED <<task, result, uncounted>> PROVE Unbooked'
  BY <1>1, UnbookedStays
<1>2. ASSUME NEW t \in Tasks, Start(t) \/ End(t) PROVE Unbooked'
  <2>1. CASE Start(t)
    BY <1>0, <2>1, UnendedWritten, Zenon DEF Start
  <2>2. CASE End(t)
    <3>1. PICK report : /\ task' = [task EXCEPT ![t] = RowFor(report)]
                        /\ result' = [result EXCEPT ![t] = report]
      BY <2>2, Zenon DEF End
    <3>2. task[t] \notin Terminal /\ uncounted' = uncounted
      BY <1>0, <2>2 DEF End
    <3>3. \A u \in Tasks \ {t} : result'[u] = result[u]
      BY <3>1 DEF IInv, Shape
    <3> QED BY <3>1, <3>2, <3>3, UnendedWritten, Zenon
  <2> QED BY <1>2, <2>1, <2>2
<1>3. ASSUME Booking PROVE Unbooked'
  <2>1. ASSUME NEW s \in Authored, BookSpecialist(s) PROVE Unbooked'
    BY <2>1, Kinds, BookedStays DEF BookSpecialist
  <2>2. ASSUME NEW t \in Integrates \cup Probe, BookIntegrate(t) PROVE Unbooked'
    BY <2>2, BookedStays DEF BookIntegrate, Tasks
  <2>3. ASSUME NEW t \in Revals, BookReval(t) PROVE Unbooked'
    BY <2>3, Kinds, BookedStays DEF BookReval
  <2>4. ASSUME NEW t \in Tasks, AccountDead(t) PROVE Unbooked'
    BY <2>4, UnbookedStays DEF AccountDead
  <2>5. CASE HandOver \/ RearmRejected \/ Save
    BY <1>1, <2>5, Zenon DEF HandOver, RearmRejected, Save, rows
  <2>6. CASE CancelHolder
    <3>1. todo.task \in Tasks /\ UNCHANGED <<result, uncounted>>
      BY <2>6, Kinds DEF CancelHolder, IInv, Owed
    <3>2. CASE task[todo.task] = "queued"
      BY <1>0, <2>6, <3>1, <3>2, UnendedWritten, Zenon DEF CancelHolder
    <3>3. CASE task[todo.task] # "queued"
      BY <1>1, <2>6, <3>1, <3>3 DEF CancelHolder
    <3> QED BY <3>2, <3>3
  <2> QED BY <1>3, <2>1, <2>2, <2>3, <2>4, <2>5, <2>6 DEF Booking
<1>4. ASSUME NEW s \in Specialist, Approve(s) \/ Reject(s) \/ Deny(s) PROVE Unbooked'
  <2>1. CASE Approve(s)
    BY <1>0, <2>1, Kinds, UnendedWritten, Zenon DEF Approve
  <2>2. CASE Reject(s) \/ Deny(s)
    BY <1>1, <2>2 DEF Reject, Deny, rows
  <2> QED BY <1>4, <2>1, <2>2
<1>5. ASSUME Outside PROVE Unbooked'
  <2>1. ASSUME NEW s \in Foreign, ForeignDelivers(s) PROVE Unbooked'
    BY <1>0, <2>1, Kinds, UnendedWritten, Zenon DEF ForeignDelivers
  <2>2. ASSUME NEW p \in Probe, EnqueueProbe(p) PROVE Unbooked'
    BY <1>0, <2>2, Kinds, UnendedWritten, Zenon DEF EnqueueProbe
  <2>3. ASSUME NEW t \in Tasks, CancelOverBudget(t) PROVE Unbooked'
    BY <1>0, <2>3, UnendedWritten, Zenon DEF CancelOverBudget
  <2>4. CASE OtherBaselinePromotes \/ OtherBaselineFailsEval \/ RunLate
    BY <1>1, <2>4 DEF OtherBaselinePromotes, OtherBaselineFailsEval, RunLate, rows
  <2> QED BY <1>5, <2>1, <2>2, <2>3, <2>4 DEF Outside
<1>6. ASSUME Pumps PROVE Unbooked'
  <2>1. CASE PumpRevalidation
    <3> DEFINE g == ScanStop(lane.gen)
    <3>1. /\ g \in Gen /\ UNCHANGED <<result, uncounted>>
          /\ \/ task[Reval(g)] = "absent" /\ task' = [task EXCEPT ![Reval(g)] = "queued"]
             \/ task' = task
      BY <2>1 DEF PumpRevalidation
    <3> HIDE DEF g
    <3>2. Reval(g) \in Tasks
      BY <3>1, Kinds
    <3> QED BY <1>0, <1>1, <3>1, <3>2, UnendedWritten
  <2>2. ASSUME NEW s \in Authored, PumpAuthoring(s) PROVE Unbooked'
    BY <1>0, <2>2, Kinds, UnendedWritten, Zenon DEF PumpAuthoring
  <2>3. CASE StopOnExhaustedAttempts
    BY <1>1, <2>3 DEF StopOnExhaustedAttempts, rows
  <2> QED BY <1>6, <2>1, <2>2, <2>3 DEF Pumps
<1>7. ASSUME NEW t \in Tasks, FailDead(t) PROVE Unbooked'
  <2>1. /\ task' = [task EXCEPT ![t] = "failed"] /\ result' = result
        /\ uncounted' = uncounted \cup {t} /\ task[t] = "running"
    BY <1>0, <1>7 DEF FailDead
  <2>2. result[t] = "none"
    BY <1>0, <2>1 DEF IInv, EndedFirst
  <2>3. task'[t] \in Terminal /\ \A u \in Tasks \ {t} : task'[u] = task[u]
    BY <1>0, <2>1 DEF Terminal
  <2> QED BY <2>1, <2>2, <2>3 DEF Unbooked
<1>8. ASSUME NEW r \in Rounds, AdvanceToSuccessor(r) \/ Expire(r) PROVE Unbooked'
  BY <1>1, <1>8, Zenon DEF AdvanceToSuccessor, Expire, rows
<1>9. CASE CloseStaleWindow
  BY <1>1, <1>9 DEF CloseStaleWindow, rows
<1>10. CASE Restart
  BY <1>10, Zenon DEF Restart, Unbooked
<1>11. CASE UNCHANGED vars
  BY <1>1, <1>11 DEF vars
<1> QED BY <1>2, <1>3, <1>4, <1>5, <1>6, <1>7, <1>8, <1>9, <1>10, <1>11
        DEF Next, Execution, Review, Reconcile, Specialist

\* An open window that a handler's write keeps open.
LEMMA WindowKept ==
    ASSUME lane \in Lane, lane.pending
    PROVE  /\ [lane EXCEPT !.pending = TRUE, !.gen = @ + 1, !.tracked = NoTask].pending
           /\ [lane EXCEPT !.origin = "", !.anchored = TRUE].pending
           /\ \A n, t : [lane EXCEPT !.gen = n, !.tracked = t].pending
           /\ \A n : [lane EXCEPT !.gen = n].pending
BY Zenon DEF Lane

\* maybe_rearm_enablement never closes a window.
LEMMA RearmKeepsWindow ==
    ASSUME IInv, lane.pending, NEW status, NEW spec, Rearm(status, spec)
    PROVE  lane'.pending
BY WindowKept, Zenon DEF Rearm, IInv, Shape

\* A step that closes a window over a passed result that goes on waiting.
LEMMA WindowStep ==
    ASSUME IInv, Unbooked, [Next]_vars, NEW g \in Gen, lane.tracked = Reval(g),
           result[Reval(g)] = "passed", result'[Reval(g)] = "passed",
           lane.pending, ~lane'.pending
    PROVE  \/ OtherBaselineFailsEval
           \/ \E h \in Gen \ {g} :
                 \/ result[Reval(h)] # "none" /\ result'[Reval(h)] = "none"
                 \/ Reval(h) \in uncounted \ uncounted'
<1>0. lane' # lane /\ lane \in Lane /\ Reval(g) \in Tasks /\ result = [t \in Tasks |-> result[t]]
  BY Kinds DEF IInv, Shape
<1>1. ASSUME NEW t \in Revals, t # Reval(g) PROVE \E h \in Gen \ {g} : t = Reval(h)
  BY <1>1 DEF Revals
<1>2. CASE Execution
  BY <1>0, <1>2 DEF Execution, Start, End, memory
<1>3. CASE Booking
  <2>1. ASSUME NEW s \in Authored, BookSpecialist(s) PROVE FALSE
    BY <1>0, <2>1 DEF BookSpecialist, memory
  <2>2. ASSUME NEW t \in Integrates \cup Probe, BookIntegrate(t) PROVE FALSE
    BY <2>2, RearmKeepsWindow, Zenon DEF BookIntegrate
  <2>3. ASSUME NEW t \in Revals, BookReval(t)
        PROVE  \E h \in Gen \ {g} : result[Reval(h)] # "none" /\ result'[Reval(h)] = "none"
    <3>1. result[t] # "none" /\ result'[t] = "none"
      BY <1>0, <2>3, Kinds DEF BookReval, Booked
    <3>2. t # Reval(g)
      BY <3>1, Zenon
    <3> QED BY <1>1, <3>1, <3>2
  <2>4. ASSUME NEW t \in Tasks, AccountDead(t)
        PROVE  \E h \in Gen \ {g} : Reval(h) \in uncounted \ uncounted'
    <3>1. t \in uncounted \ uncounted' /\ t \in Revals
      BY <1>0, <2>4 DEF AccountDead
    <3>2. t # Reval(g)
      BY <3>1 DEF Unbooked
    <3> QED BY <1>1, <3>1, <3>2
  <2>5. CASE HandOver \/ CancelHolder \/ Save
    BY <1>0, <2>5 DEF HandOver, CancelHolder, Save
  <2>6. CASE RearmRejected
    BY <2>6, RearmKeepsWindow, Zenon DEF RearmRejected
  <2> QED BY <1>3, <2>1, <2>2, <2>3, <2>4, <2>5, <2>6, Zenon DEF Booking
<1>4. CASE Review
  BY <1>0, <1>4 DEF Review, Approve, Reject, Deny, memory
<1>5. CASE Outside
  <2>1. ASSUME NEW s, ForeignDelivers(s) \/ EnqueueProbe(s) \/ CancelOverBudget(s) PROVE FALSE
    BY <1>0, <2>1 DEF ForeignDelivers, EnqueueProbe, CancelOverBudget, memory
  <2>2. CASE OtherBaselinePromotes
    BY <1>0, <2>2, WindowKept, Zenon DEF OtherBaselinePromotes
  <2>3. CASE RunLate
    BY <1>0, <2>3 DEF RunLate, memory
  <2> QED BY <1>5, <2>1, <2>2, <2>3, Zenon DEF Outside
<1>6. CASE Pumps
  <2>1. CASE PumpRevalidation
    <3> DEFINE n == ScanStop(lane.gen)
    <3>1. lane' = [lane EXCEPT !.gen = n, !.tracked = Reval(n)] \/ lane' = [lane EXCEPT !.gen = n]
      BY <2>1 DEF PumpRevalidation
    <3> HIDE DEF n
    <3> QED BY <1>0, <3>1, WindowKept, Zenon
  <2>2. ASSUME NEW s, PumpAuthoring(s) PROVE FALSE
    BY <1>0, <2>2 DEF PumpAuthoring, memory
  <2>3. CASE StopOnExhaustedAttempts
    BY <1>0, <2>3 DEF StopOnExhaustedAttempts, memory
  <2> QED BY <1>6, <2>1, <2>2, <2>3, Zenon DEF Pumps
<1>7. CASE Reconcile
  <2>1. ASSUME NEW t, FailDead(t) \/ AdvanceToSuccessor(t) \/ Expire(t) PROVE FALSE
    BY <1>0, <2>1 DEF FailDead, AdvanceToSuccessor, Expire, memory
  <2>2. CASE CloseStaleWindow
    BY <2>2 DEF CloseStaleWindow
  <2> QED BY <1>7, <2>1, <2>2, Zenon DEF Reconcile
<1>8. CASE Restart
  BY <1>0, <1>8 DEF Restart
<1>9. CASE UNCHANGED vars
  BY <1>0, <1>9 DEF vars
<1> QED BY <1>2, <1>3, <1>4, <1>5, <1>6, <1>7, <1>8, <1>9, Zenon DEF Next

\* A revalidation that passed is booked into the window it was run for: while its
\* result waits, neither the reconciler, a verdict, a keep nor a pump closes that
\* window, only the end of another revalidation or another baseline's eval.
THEOREM PassesAreCredited == Spec => PassedRevalidationCredited
<1> DEFINE Credit == \A g \in Gen :
                /\ lane.tracked = Reval(g)
                /\ result[Reval(g)] = "passed" /\ result'[Reval(g)] = "passed"
                /\ lane.pending /\ ~lane'.pending
                => \/ OtherBaselineFailsEval
                   \/ \E h \in Gen \ {g} :
                       \/ result[Reval(h)] # "none" /\ result'[Reval(h)] = "none"
                       \/ Reval(h) \in uncounted \ uncounted'
<1>1. Init => Unbooked
  BY DEF Init, Unbooked
<1>2. IInv /\ Unbooked /\ [Next]_vars => Credit
  BY WindowStep, Zenon
<1>3. PassedRevalidationCredited <=> [][Credit]_vars
  BY DEF PassedRevalidationCredited
<1> HIDE DEF Credit
<1>4. Spec => [][Credit]_vars
  BY AlwaysInv, UnbookedStep, <1>1, <1>2, PTL DEF Spec
<1> QED BY <1>3, <1>4

-----------------------------------------------------------------------------
(* The lane and the round store *)

\* A settle of the held round is one of the store's transactions.
LEMMA SettleHeldCalls ==
    ASSUME NEW outcome \in Store!Outcome, SettleHeld(outcome)
    PROVE  Store!StoreNext \/ UNCHANGED store
<1>1. CASE Held = {}
  BY <1>1 DEF SettleHeld
<1>2. CASE Held # {}
  <2>1. PICK r \in Held : Store!Settle(Store!Snap(r), outcome)
    BY <1>2 DEF SettleHeld
  <2>2. r \in Rounds
    BY DEF Held, Store!OpenRounds
  <2> QED BY <2>1, <2>2, Zenon DEF Store!StoreNext
<1> QED BY <1>1, <1>2

\* maybe_rearm_enablement settles at most the held round.
LEMMA RearmCalls ==
    ASSUME NEW status, NEW spec, Rearm(status, spec)
    PROVE  Store!StoreNext \/ UNCHANGED store
<1>1. MovedBy(status) \in Store!Outcome
  BY DEF MovedBy, Store!Outcome
<1>2. CASE SettleHeld(MovedBy(status))
  BY <1>1, <1>2, SettleHeldCalls
<1> QED BY <1>2 DEF Rearm, store

\* The baseline handlers do no more.
LEMMA BaselineCalls ==
    ASSUME \/ PromotedOutsideWindow
           \/ \E report : RevalPromoted(report) \/ RevalFailed(report)
    PROVE  Store!StoreNext \/ UNCHANGED store
<1>1. {"booted", "failed", "abandoned"} \subseteq Store!Outcome
  BY DEF Store!Outcome
<1>2. ASSUME NEW outcome \in {"booted", "failed", "abandoned"}, SettleHeld(outcome)
      PROVE  Store!StoreNext
             \/ UNCHANGED store
  BY <1>1, <1>2, SettleHeldCalls
<1>3. CASE PromotedOutsideWindow
  BY <1>2, <1>3 DEF PromotedOutsideWindow
<1>4. ASSUME NEW report, RevalPromoted(report) PROVE Store!StoreNext \/ UNCHANGED store
  BY <1>2, <1>3, <1>4 DEF RevalPromoted
<1>5. ASSUME NEW report, RevalFailed(report) PROVE Store!StoreNext \/ UNCHANGED store
  BY <1>2, <1>5 DEF RevalFailed, store
<1> QED BY <1>3, <1>4, <1>5

\* Every step of the lane is at most one transaction of the store.
LEMMA StoreCalls == IInv /\ [Next]_vars => Store!StoreNext \/ UNCHANGED store
<1> SUFFICES ASSUME IInv, [Next]_vars PROVE Store!StoreNext \/ UNCHANGED store
  OBVIOUS
<1>1. \A r \in Held : r \in Rounds
  BY DEF Held, Store!OpenRounds
<1>2. CASE Execution
  BY <1>2, Zenon DEF Execution, Start, End
<1>3. CASE Booking
  <2>1. ASSUME NEW s, BookSpecialist(s) PROVE UNCHANGED store
    BY <2>1, Zenon DEF BookSpecialist
  <2>2. ASSUME NEW t, BookIntegrate(t) PROVE Store!StoreNext \/ UNCHANGED store
    BY <2>2, RearmCalls, Zenon DEF BookIntegrate
  <2>3. ASSUME NEW t, BookReval(t) PROVE Store!StoreNext \/ UNCHANGED store
    BY <2>3, BaselineCalls, Zenon DEF BookReval
  <2>4. ASSUME NEW t, AccountDead(t) PROVE Store!StoreNext \/ UNCHANGED store
    BY <2>4, BaselineCalls DEF AccountDead, store
  <2>5. CASE HandOver
    <3>1. CASE \E r \in Held : Store!Handoff(Store!Snap(r), Integrate(todo.task))
      <4>1. PICK r \in Held : Store!Handoff(Store!Snap(r), Integrate(todo.task))
        BY <3>1
      <4>2. Integrate(todo.task) \in Tasks
        BY <2>5, Kinds DEF HandOver, IInv, Owed
      <4> QED BY <1>1, <4>1, <4>2, Zenon DEF Store!StoreNext
    <3> QED BY <2>5, <3>1, Zenon DEF HandOver
  <2>6. CASE RearmRejected
    BY <2>6, RearmCalls, Zenon DEF RearmRejected
  <2>7. CASE CancelHolder \/ Save
    BY <2>7, Zenon DEF CancelHolder, Save, store
  <2> QED BY <1>3, <2>1, <2>2, <2>3, <2>4, <2>5, <2>6, <2>7, Zenon DEF Booking
<1>4. CASE Review
  BY <1>4, Zenon DEF Review, Approve, Reject, Deny
<1>5. CASE Outside
  <2>1. ASSUME NEW s, ForeignDelivers(s) \/ EnqueueProbe(s) \/ CancelOverBudget(s)
        PROVE  UNCHANGED store
    BY <2>1, Zenon DEF ForeignDelivers, EnqueueProbe, CancelOverBudget
  <2>2. CASE OtherBaselinePromotes
    BY <2>2, BaselineCalls DEF OtherBaselinePromotes, store
  <2>3. CASE OtherBaselineFailsEval \/ RunLate
    BY <2>3, Zenon DEF OtherBaselineFailsEval, RunLate
  <2> QED BY <1>5, <2>1, <2>2, <2>3, Zenon DEF Outside
<1>6. CASE Pumps
  <2>1. CASE PumpRevalidation
    <3> DEFINE g == ScanStop(lane.gen)
    <3>1. g \in Gen /\ (Store!Open(Reval(g), Reval(g)) \/ UNCHANGED store)
      BY <2>1 DEF PumpRevalidation, store
    <3> HIDE DEF g
    <3>2. Reval(g) \in Rounds /\ Reval(g) \in Tasks
      BY <3>1, Kinds DEF Rounds
    <3> QED BY <3>1, <3>2, Zenon DEF Store!StoreNext
  <2>2. ASSUME NEW s \in Authored, PumpAuthoring(s) PROVE Store!StoreNext
    <3>1. s \in Rounds /\ s \in Tasks /\ Store!Open(s, s)
      BY <2>2, Kinds DEF Rounds, PumpAuthoring
    <3> QED BY <3>1, Zenon DEF Store!StoreNext
  <2>3. CASE StopOnExhaustedAttempts
    BY <2>3, Zenon DEF StopOnExhaustedAttempts
  <2> QED BY <1>6, <2>1, <2>2, <2>3, Zenon DEF Pumps
<1>7. CASE Reconcile
  <2>1. ASSUME NEW t, FailDead(t) PROVE UNCHANGED store
    BY <2>1, Zenon DEF FailDead
  <2>2. ASSUME NEW r \in Rounds, AdvanceToSuccessor(r) PROVE Store!StoreNext
    <3> DEFINE h == rounds[r].holder
    <3>1. Successor(h) # NoTask /\ Store!Handoff(Store!Snap(r), Successor(h))
      BY <2>2 DEF AdvanceToSuccessor
    <3>2. Successor(h) \in Tasks
      BY <3>1, Kinds DEF Successor, Specialist
    <3> QED BY <3>1, <3>2, Zenon DEF Store!StoreNext
  <2>3. ASSUME NEW r \in Rounds, Expire(r) PROVE Store!StoreNext
    <3>1. Store!Settle(Store!Snap(r), "expired_reaped") /\ "expired_reaped" \in Store!Outcome
      BY <2>3, Zenon DEF Expire, Store!Outcome
    <3> QED BY <3>1, Zenon DEF Store!StoreNext
  <2>4. CASE CloseStaleWindow
    BY <2>4, Zenon DEF CloseStaleWindow
  <2> QED BY <1>7, <2>1, <2>2, <2>3, <2>4, Zenon DEF Reconcile
<1>8. CASE Restart
  <2>1. "abandoned" \in Store!Outcome
    BY DEF Store!Outcome
  <2>2. CASE SettleHeld("abandoned")
    BY <2>1, <2>2, SettleHeldCalls
  <2> QED BY <1>8, <2>2, Zenon DEF Restart
<1>9. CASE UNCHANGED vars
  BY <1>9, Zenon DEF vars, store
<1> QED BY <1>2, <1>3, <1>4, <1>5, <1>6, <1>7, <1>8, <1>9, Zenon DEF Next

\* The handlers, the pumps, the reconciler and the resume drive the round store only
\* through its transactions, at most one in each step a crash cannot divide.
THEOREM LaneImplementsStore == Spec => Store!StoreSpec
<1>1. Init => Store!StoreInit
  BY DEF Init
<1>2. IInv /\ [Next]_vars => [Store!StoreNext]_(Store!storeVars)
  BY StoreCalls DEF store, Store!storeVars
<1> QED BY AlwaysInv, <1>1, <1>2, PTL DEF Spec, Store!StoreSpec

\* The lane rows name the open round and its holder, and no other.
LaneRow == roundLane = {[round |-> r, holder |-> rounds[r].holder] : r \in Held}

\* A transaction writes one round, which was not settled, and its row of the lane.
LEMMA StoreWrites ==
    ASSUME Shape, OneHeld, LaneRow, Store!StoreNext
    PROVE  /\ LaneRow'
           /\ \A r \in Rounds : rounds[r].state = "settled" => rounds'[r] = rounds[r]
<1> DEFINE WritesOnly(r, after) == /\ Store!Write(r, after)
                                   /\ after.state \in {"open", "settled"}
                                   /\ rounds[r].state # "settled"
                                   /\ Held \subseteq {r}
<1>1. PICK r \in Rounds : \E after : WritesOnly(r, after)
  <2>1. \A r \in Rounds : Store!Snap(r).id = r
    BY DEF Store!Snap
  <2>2. ASSUME NEW r \in Rounds, NEW h, Store!Open(r, h)
        PROVE  /\ Store!Write(r, [state |-> "open", outcome |-> "", holder |-> h, fence |-> 1])
               /\ rounds[r].state # "settled" /\ Held \subseteq {r}
    BY <2>2, Zenon DEF Store!Open, Store!MayOpen, Held
  <2>3. ASSUME NEW r \in Rounds, Store!CasHolds(Store!Snap(r))
        PROVE  rounds[r].state # "settled" /\ Held \subseteq {r}
    BY <2>1, <2>3 DEF Store!CasHolds, Held, Store!OpenRounds, OneHeld
  <2>4. ASSUME NEW r \in Rounds, NEW h, Store!Handoff(Store!Snap(r), h)
        PROVE  /\ Store!Write(r, [state |-> "open", outcome |-> "", holder |-> h,
                                  fence |-> Store!Snap(r).fence + 1])
               /\ rounds[r].state # "settled" /\ Held \subseteq {r}
    BY <2>1, <2>3, <2>4, Zenon DEF Store!Handoff
  <2>5. ASSUME NEW r \in Rounds, NEW o, Store!Settle(Store!Snap(r), o)
        PROVE  /\ Store!Write(r, [state |-> "settled", outcome |-> o,
                                  holder |-> Store!Snap(r).holder, fence |-> Store!Snap(r).fence])
               /\ rounds[r].state # "settled" /\ Held \subseteq {r}
    BY <2>1, <2>3, <2>5, Zenon DEF Store!Settle
  <2>6. \A h, f : [state |-> "open", outcome |-> "", holder |-> h, fence |-> f].state = "open"
    OBVIOUS
  <2>7. \A o, h, f : [state |-> "settled", outcome |-> o, holder |-> h, fence |-> f].state = "settled"
    OBVIOUS
  <2>8. PICK r \in Rounds : \/ \E h \in Tasks : Store!Open(r, h) \/ Store!Handoff(Store!Snap(r), h)
                            \/ \E o \in Store!Outcome : Store!Settle(Store!Snap(r), o)
    BY Zenon DEF Store!StoreNext
  <2> QED BY <2>2, <2>4, <2>5, <2>6, <2>7, <2>8, Zenon
<1>2. PICK after : WritesOnly(r, after)
  BY <1>1
<1>3. /\ \A q \in Rounds : rounds'[q] = IF q = r THEN after ELSE rounds[q]
      /\ roundLane' = Store!PlaceLane(r, after)
  BY <1>2 DEF Store!Write, Shape
<1>4. ASSUME NEW row \in roundLane PROVE row.round = r
  <2>1. PICK q \in Held : row = [round |-> q, holder |-> rounds[q].holder]
    BY Zenon DEF LaneRow
  <2>2. q = r
    BY <1>2
  <2> QED BY <2>1, <2>2
<1>5. roundLane' = IF after.state = "open" THEN {[round |-> r, holder |-> after.holder]} ELSE {}
  BY <1>3, <1>4 DEF Store!PlaceLane
<1>6. Held' = IF after.state = "open" THEN {r} ELSE {}
  BY <1>2, <1>3 DEF Held, Store!OpenRounds
<1>7. LaneRow'
  BY <1>3, <1>5, <1>6 DEF LaneRow
<1> QED BY <1>2, <1>3, <1>7

\* Whatever handlers, verdicts, repairs and restarts do, at most one round is open, and
\* the bringup_round lane has one row, for the task that holds it, or none.
THEOREM LaneHasOneOwner == Spec => [](OneHeld /\ LaneRow)
<1>1. Init => LaneRow
  <2> SUFFICES ASSUME Init PROVE LaneRow
    OBVIOUS
  <2>1. rounds = [r \in Rounds |-> Store!Absent] /\ roundLane = {}
    BY DEF Init, Store!StoreInit
  <2>2. Held = {}
    BY <2>1, Zenon DEF Held, Store!OpenRounds, Store!Absent
  <2> QED BY <2>1, <2>2 DEF LaneRow
<1>2. IInv /\ LaneRow /\ [Next]_vars => LaneRow'
  <2>1. UNCHANGED store /\ LaneRow => LaneRow'
    BY Zenon DEF store, LaneRow, Held, Store!OpenRounds
  <2> QED BY <2>1, StoreCalls, StoreWrites DEF IInv
<1>3. IInv => OneHeld
  BY DEF IInv
<1> QED BY AlwaysInv, <1>1, <1>2, <1>3, PTL DEF Spec

\* The outcome a round was settled with is never written again: no late result, second
\* verdict, expiry or resume regrades or reopens it.
THEOREM SettledRoundsStay ==
    Spec => [][\A r \in Rounds : rounds[r].state = "settled" => rounds'[r] = rounds[r]]_vars
<1> DEFINE Stay == \A r \in Rounds : rounds[r].state = "settled" => rounds'[r] = rounds[r]
<1>1. IInv /\ LaneRow /\ [Next]_vars => Stay
  <2>1. UNCHANGED store => Stay
    BY DEF store
  <2> QED BY <2>1, StoreCalls, StoreWrites DEF IInv
<1> HIDE DEF Stay
<1>2. Spec => [][Stay]_vars
  BY AlwaysInv, LaneHasOneOwner, <1>1, PTL DEF Spec
<1> QED BY <1>2 DEF Stay

-----------------------------------------------------------------------------
(* Which stalls charge a round *)

\* A round that is open was not graded, and integrates and probes report what they may.
Ungraded == \A r \in Held : rounds[r].outcome # "failed"

Reported ==
    \A t \in Integrates \cup Probe : result[t] \in {"none", "kept", "advanced", "reverted"}

\* What each transaction leaves of the grade of the round r.
LEMMA Grades ==
    ASSUME Shape, OneHeld, Ungraded, NEW r \in Held
    PROVE  /\ UNCHANGED store => rounds'[r].outcome # "failed"
           /\ \A h : \A q \in Rounds : ~Store!Open(q, h)
           /\ \A h : \A q \in Rounds : Store!Handoff(Store!Snap(q), h) => rounds'[r].outcome # "failed"
           /\ \A o : \A q \in Rounds : Store!Settle(Store!Snap(q), o) => rounds'[r].outcome = o
           /\ \A o : SettleHeld(o) => rounds'[r].outcome = o
<1>1. r \in Rounds /\ rounds = [q \in Rounds |-> rounds[q]]
  BY DEF Held, Store!OpenRounds, Shape
<1>2. \A q \in Rounds : Store!Snap(q).id = q
  BY DEF Store!Snap
<1>3. ASSUME NEW q \in Rounds, Store!CasHolds(Store!Snap(q)) PROVE q = r
  BY <1>2, <1>3 DEF Store!CasHolds, Held, Store!OpenRounds, OneHeld
<1>4. \A h : \A q \in Rounds : ~Store!Open(q, h)
  BY Zenon DEF Store!Open, Store!MayOpen, Held
<1>5. ASSUME NEW q \in Rounds, NEW h, Store!Handoff(Store!Snap(q), h)
      PROVE  rounds'[r].outcome # "failed"
  <2>1. q = r
    BY <1>3, <1>5, Zenon DEF Store!Handoff
  <2> DEFINE row == [state |-> "open", outcome |-> "", holder |-> h,
                     fence |-> Store!Snap(r).fence + 1]
  <2>2. rounds'[r] = row
    BY <1>1, <1>2, <1>5, <2>1, Zenon DEF Store!Handoff, Store!Write
  <2>3. row.outcome # "failed"
    BY Zenon
  <2> HIDE DEF row
  <2> QED BY <2>2, <2>3
<1>6. ASSUME NEW q \in Rounds, NEW o, Store!Settle(Store!Snap(q), o) PROVE rounds'[r].outcome = o
  <2>1. q = r
    BY <1>3, <1>6, Zenon DEF Store!Settle
  <2> DEFINE row == [state |-> "settled", outcome |-> o,
                     holder |-> Store!Snap(r).holder, fence |-> Store!Snap(r).fence]
  <2>2. rounds'[r] = row
    BY <1>1, <1>2, <1>6, <2>1, Zenon DEF Store!Settle, Store!Write
  <2>3. row.outcome = o
    OBVIOUS
  <2> HIDE DEF row
  <2> QED BY <2>2, <2>3
<1>7. ASSUME NEW o, SettleHeld(o) PROVE rounds'[r].outcome = o
  <2>1. PICK q \in Held : Store!Settle(Store!Snap(q), o)
    BY <1>7 DEF SettleHeld
  <2> QED BY <1>6, <2>1 DEF Held, Store!OpenRounds
<1>8. UNCHANGED store => rounds'[r].outcome # "failed"
  BY DEF store, Ungraded
<1> QED BY <1>4, <1>5, <1>6, <1>7, <1>8, Zenon

\* Rounds are opened and handed on ungraded.
LEMMA UngradedStep == IInv /\ Ungraded /\ [Next]_vars => Ungraded'
<1> SUFFICES ASSUME IInv, Ungraded, Store!StoreNext PROVE Ungraded'
  <2>1. UNCHANGED store => (Ungraded => Ungraded')
    BY DEF store, Ungraded, Held, Store!OpenRounds
  <2> QED BY <2>1, StoreCalls
<1>1. PICK q \in Rounds : \/ \E h \in Tasks : Store!Open(q, h) \/ Store!Handoff(Store!Snap(q), h)
                          \/ \E o \in Store!Outcome : Store!Settle(Store!Snap(q), o)
  BY Zenon DEF Store!StoreNext
<1>2. rounds = [r \in Rounds |-> rounds[r]] /\ Store!Snap(q).id = q
  BY DEF IInv, Shape, Store!Snap
<1>3. PICK after : /\ rounds' = [rounds EXCEPT ![q] = after]
                   /\ after.state = "settled" \/ after.outcome # "failed"
  <2> DEFINE Kept(after) == after.state = "settled" \/ after.outcome # "failed"
  <2>1. ASSUME NEW h, Store!Open(q, h)
        PROVE  \E after : rounds' = [rounds EXCEPT ![q] = after] /\ Kept(after)
    <3> DEFINE row == [state |-> "open", outcome |-> "", holder |-> h, fence |-> 1]
    <3>1. rounds' = [rounds EXCEPT ![q] = row] /\ row.outcome # "failed"
      BY <2>1, Zenon DEF Store!Open, Store!Write
    <3> HIDE DEF row
    <3> QED BY <3>1, Zenon
  <2>2. ASSUME NEW h, Store!Handoff(Store!Snap(q), h)
        PROVE  \E after : rounds' = [rounds EXCEPT ![q] = after] /\ Kept(after)
    <3> DEFINE row == [state |-> "open", outcome |-> "", holder |-> h,
                       fence |-> Store!Snap(q).fence + 1]
    <3>1. rounds' = [rounds EXCEPT ![q] = row] /\ row.outcome # "failed"
      BY <1>2, <2>2, Zenon DEF Store!Handoff, Store!Write
    <3> HIDE DEF row
    <3> QED BY <3>1, Zenon
  <2>3. ASSUME NEW o, Store!Settle(Store!Snap(q), o)
        PROVE  \E after : rounds' = [rounds EXCEPT ![q] = after] /\ Kept(after)
    <3> DEFINE row == [state |-> "settled", outcome |-> o,
                       holder |-> Store!Snap(q).holder, fence |-> Store!Snap(q).fence]
    <3>1. rounds' = [rounds EXCEPT ![q] = row] /\ row.state = "settled"
      BY <1>2, <2>3, Zenon DEF Store!Settle, Store!Write
    <3> HIDE DEF row
    <3> QED BY <3>1, Zenon
  <2> HIDE DEF Kept
  <2>4. \E after : rounds' = [rounds EXCEPT ![q] = after] /\ Kept(after)
    BY <1>1, <2>1, <2>2, <2>3, Zenon
  <2> QED BY <2>4, Zenon DEF Kept
<1>4. \A r \in Rounds : rounds'[r] = IF r = q THEN after ELSE rounds[r]
  BY <1>2, <1>3
<1> QED BY <1>3, <1>4 DEF Ungraded, Held, Store!OpenRounds

\* No integrate or probe has the id of a revalidation.
LEMMA RevalsApart == (Integrates \cup Probe) \cap Revals = {}
<1>1. \A s, g : Integrate(s) # Reval(g)
  <2> SUFFICES ASSUME NEW s, NEW g PROVE Integrate(s)[1] # Reval(g)[1]
    OBVIOUS
  <2> QED BY DEF Integrate, Reval
<1> QED BY <1>1, KindsDiffer DEF Integrates, Revals

\* Results come from executions, and go when they are booked or the process ends.
LEMMA ReportedStep == IInv /\ Reported /\ [Next]_vars => Reported'
<1> SUFFICES ASSUME IInv, Reported, [Next]_vars PROVE Reported'
  OBVIOUS
<1>1. Integrates \cup Probe \subseteq Tasks /\ result = [t \in Tasks |-> result[t]]
  BY DEF Tasks, IInv, Shape
<1>2. ASSUME result' = result PROVE Reported'
  BY <1>2 DEF Reported
<1>3. ASSUME NEW t \in Tasks, Booked(t) PROVE Reported'
  BY <1>1, <1>3 DEF Booked, Reported
<1>4. ASSUME NEW t \in Tasks, End(t) PROVE Reported'
  <2>1. PICK report \in Reports(t) : result' = [result EXCEPT ![t] = report]
    BY <1>4, Zenon DEF End
  <2>2. t \in Integrates \cup Probe => t \notin Revals
    BY RevalsApart
  <2>3. t \in Integrates \cup Probe => report \in {"kept", "advanced", "reverted"}
    BY <2>1, <2>2 DEF Reports
  <2> QED BY <1>1, <2>1, <2>3 DEF Reported
<1>5. CASE Restart
  BY <1>1, <1>5 DEF Restart, Reported
<1>6. CASE Booking
  <2>1. \A t \in Integrates \cup Probe : BookIntegrate(t) => Booked(t)
    BY DEF BookIntegrate
  <2>2. \A t \in Authored : BookSpecialist(t) => Booked(t)
    BY DEF BookSpecialist
  <2>3. \A t \in Revals : BookReval(t) => Booked(t)
    BY DEF BookReval
  <2>4. \A t \in Tasks : AccountDead(t) => result' = result
    BY DEF AccountDead
  <2>5. HandOver \/ RearmRejected \/ CancelHolder \/ Save => result' = result
    BY Zenon DEF HandOver, RearmRejected, CancelHolder, Save, rows
  <2> QED BY <1>1, <1>2, <1>3, <1>6, <2>1, <2>2, <2>3, <2>4, <2>5, Kinds, Zenon DEF Booking
<1>7. CASE Review
  BY <1>2, <1>7 DEF Review, Approve, Reject, Deny, rows
<1>8. CASE Outside
  BY <1>2, <1>8 DEF Outside, ForeignDelivers, EnqueueProbe, CancelOverBudget,
                    OtherBaselinePromotes, OtherBaselineFailsEval, RunLate, rows
<1>9. CASE Pumps
  BY <1>2, <1>9 DEF Pumps, PumpRevalidation, PumpAuthoring, StopOnExhaustedAttempts, rows
<1>10. CASE Reconcile
  BY <1>2, <1>10 DEF Reconcile, FailDead, AdvanceToSuccessor, Expire, CloseStaleWindow, rows
<1>11. CASE UNCHANGED vars \/ \E t \in Tasks : Start(t)
  BY <1>2, <1>11 DEF vars, Start
<1> QED BY <1>4, <1>5, <1>6, <1>7, <1>8, <1>9, <1>10, <1>11 DEF Next, Execution

\* The results that may end the round r as failed.
OwnOrUnnamed(r) ==
    \/ todo.op = "rearm"
    \/ \E t \in Probe \cup {Integrate(r)} : result[t] = "reverted" /\ result'[t] = "none"

\* An integrate ends, as failed, only the round of the specialist it names.
LEMMA IntegrateCharges ==
    ASSUME IInv, Ungraded, Reported, NEW r \in Authored, r \in Held, rounds'[r].outcome = "failed",
           NEW t \in Integrates \cup Probe, BookIntegrate(t)
    PROVE  OwnOrUnnamed(r)
<1>1. /\ Rearm(result[t], Author(t)) /\ result[t] # "none" /\ result'[t] = "none"
  <2>1. t \in Tasks /\ result = [u \in Tasks |-> result[u]]
    BY DEF Tasks, IInv, Shape
  <2> QED BY <2>1 DEF BookIntegrate, Booked
<1>2. Answers(result[t], Author(t)) /\ rounds'[r].outcome = MovedBy(result[t])
  BY <1>1, Grades DEF Rearm, IInv, store
<1>3. result[t] = "reverted"
  BY <1>1, <1>2 DEF MovedBy, Reported
<1>4. Author(t) = NoTask \/ Author(t) \in Held
  BY <1>2, <1>3 DEF Answers
<1>5. CASE t \in Probe
  BY <1>1, <1>3, <1>5 DEF OwnOrUnnamed
<1>6. CASE t \notin Probe
  <2>1. PICK s \in Authored \cup Foreign : t = Integrate(s)
    BY <1>6 DEF Integrates
  <2>2. Author(t) = s
    BY <1>6, <2>1 DEF Author, Integrate
  <2>3. s \in Tasks
    BY Kinds
  <2>4. s = r
    BY <1>4, <2>2, <2>3, KindsDiffer DEF IInv, OneHeld
  <2> QED BY <1>1, <1>3, <2>1, <2>4, Zenon DEF OwnOrUnnamed
<1> QED BY <1>5, <1>6

\* What a revalidation reports never charges an authoring round.
LEMMA BaselineSpares ==
    ASSUME IInv, Ungraded, NEW r \in Authored, r \in Held,
           \/ PromotedOutsideWindow
           \/ \E report : RevalPromoted(report) \/ RevalFailed(report)
    PROVE  rounds'[r].outcome # "failed"
<1>1. ~lane.pending
  BY Kinds DEF IInv, Barred, Specialist
<1>2. PromotedOutsideWindow => rounds'[r].outcome # "failed"
  <2>1. PromotedOutsideWindow => SettleHeld("booted") \/ UNCHANGED store
    BY DEF PromotedOutsideWindow
  <2> QED BY <2>1, Grades, Zenon DEF IInv
<1>3. \A report : RevalPromoted(report) => PromotedOutsideWindow
  BY <1>1 DEF RevalPromoted
<1>4. \A report : RevalFailed(report) => UNCHANGED store
  BY <1>1 DEF RevalFailed, store
<1> QED BY <1>2, <1>3, <1>4, Grades, Zenon DEF IInv

\* A step that ends an authoring round as failed.
LEMMA ChargeStep ==
    ASSUME IInv, Ungraded, Reported, [Next]_vars, NEW r \in Authored,
           rounds[r].state = "open", rounds'[r].outcome = "failed"
    PROVE  OwnOrUnnamed(r)
<1>0. r \in Rounds /\ r \in Held /\ Shape /\ OneHeld
  BY DEF IInv, Rounds, Held, Store!OpenRounds
<1>1. /\ ~UNCHANGED store
      /\ \A h : \A q \in Rounds : ~Store!Open(q, h) /\ ~Store!Handoff(Store!Snap(q), h)
      /\ \A o : \A q \in Rounds : Store!Settle(Store!Snap(q), o) => o = "failed"
      /\ \A o : SettleHeld(o) => o = "failed"
  BY <1>0, Grades, Zenon
<1>2. \A q \in Held : q \in Rounds
  BY DEF Held, Store!OpenRounds
<1>3. CASE Execution
  BY <1>1, <1>3, Zenon DEF Execution, Start, End
<1>4. CASE Booking
  <2>1. ASSUME NEW s, BookSpecialist(s) PROVE FALSE
    BY <1>1, <2>1, Zenon DEF BookSpecialist
  <2>2. ASSUME NEW t \in Revals, BookReval(t) PROVE FALSE
    BY <1>0, <2>2, BaselineSpares, Zenon DEF BookReval
  <2>3. ASSUME NEW t, AccountDead(t) PROVE FALSE
    <3>1. RevalFailed("failed") \/ UNCHANGED store
      BY <2>3, Zenon DEF AccountDead, store
    <3> QED BY <1>0, <1>1, <3>1, BaselineSpares, Zenon
  <2>4. CASE HandOver
    BY <1>1, <1>2, <2>4, Zenon DEF HandOver
  <2>5. CASE RearmRejected
    BY <2>5, Zenon DEF RearmRejected, OwnOrUnnamed
  <2>6. CASE CancelHolder \/ Save
    BY <1>1, <2>6, Zenon DEF CancelHolder, Save, store
  <2> QED BY <1>0, <1>4, <2>1, <2>2, <2>3, <2>4, <2>5, <2>6, IntegrateCharges, Zenon DEF Booking
<1>5. CASE Review
  BY <1>1, <1>5, Zenon DEF Review, Approve, Reject, Deny
<1>6. CASE Outside
  <2>1. ASSUME NEW s, ForeignDelivers(s) \/ EnqueueProbe(s) \/ CancelOverBudget(s) PROVE FALSE
    BY <1>1, <2>1, Zenon DEF ForeignDelivers, EnqueueProbe, CancelOverBudget
  <2>2. CASE OtherBaselinePromotes
    <3>1. PromotedOutsideWindow \/ UNCHANGED store
      BY <2>2 DEF OtherBaselinePromotes, store
    <3> QED BY <1>0, <1>1, <3>1, BaselineSpares, Zenon
  <2>3. CASE OtherBaselineFailsEval \/ RunLate
    BY <1>1, <2>3, Zenon DEF OtherBaselineFailsEval, RunLate
  <2> QED BY <1>6, <2>1, <2>2, <2>3, Zenon DEF Outside
<1>7. CASE Pumps
  <2>1. CASE PumpRevalidation
    <3> DEFINE g == ScanStop(lane.gen)
    <3>1. g \in Gen /\ (Store!Open(Reval(g), Reval(g)) \/ UNCHANGED store)
      BY <2>1 DEF PumpRevalidation, store
    <3> HIDE DEF g
    <3>2. Reval(g) \in Rounds
      BY <3>1, Kinds, Zenon DEF Rounds
    <3> QED BY <1>1, <3>1, <3>2, Zenon
  <2>2. ASSUME NEW s \in Authored, PumpAuthoring(s) PROVE FALSE
    BY <1>1, <2>2, Zenon DEF PumpAuthoring, Rounds
  <2>3. CASE StopOnExhaustedAttempts
    BY <1>1, <2>3, Zenon DEF StopOnExhaustedAttempts
  <2> QED BY <1>7, <2>1, <2>2, <2>3, Zenon DEF Pumps
<1>8. CASE Reconcile
  <2>1. ASSUME NEW t, FailDead(t) PROVE FALSE
    BY <1>1, <2>1, Zenon DEF FailDead
  <2>2. ASSUME NEW q \in Rounds, AdvanceToSuccessor(q) PROVE FALSE
    BY <1>1, <2>2, Zenon DEF AdvanceToSuccessor
  <2>3. ASSUME NEW q \in Rounds, Expire(q) PROVE FALSE
    BY <1>1, <2>3, Zenon DEF Expire
  <2>4. CASE CloseStaleWindow
    BY <1>1, <2>4, Zenon DEF CloseStaleWindow
  <2> QED BY <1>8, <2>1, <2>2, <2>3, <2>4, Zenon DEF Reconcile
<1>9. CASE Restart
  <2>1. SettleHeld("abandoned") \/ UNCHANGED store
    BY <1>9, Zenon DEF Restart
  <2> QED BY <1>1, <2>1, Zenon
<1>10. CASE UNCHANGED vars
  BY <1>1, <1>10, Zenon DEF vars, store
<1> QED BY <1>3, <1>4, <1>5, <1>6, <1>7, <1>8, <1>9, <1>10, Zenon DEF Next

\* The stalls that may charge an authoring round are told apart: the integrate of the
\* round's own patch, a launch probe, which names no specialist, or a rejected verdict.
\* No other specialist's integrate, revalidation, expiry or restart ends it as failed.
THEOREM StallsByName ==
    Spec => [][\A r \in Authored :
                   rounds[r].state = "open" /\ rounds'[r].outcome = "failed" => OwnOrUnnamed(r)]_vars
<1> DEFINE Named == \A r \in Authored :
              rounds[r].state = "open" /\ rounds'[r].outcome = "failed" => OwnOrUnnamed(r)
<1>1. Init => Ungraded /\ Reported
  <2> SUFFICES ASSUME Init PROVE Ungraded /\ Reported
    OBVIOUS
  <2>1. rounds = [r \in Rounds |-> Store!Absent] /\ result = [t \in Tasks |-> "none"]
    BY DEF Init, Store!StoreInit
  <2>2. Held = {}
    BY <2>1, Zenon DEF Held, Store!OpenRounds, Store!Absent
  <2>3. \A t \in Integrates \cup Probe : result[t] = "none"
    BY <2>1 DEF Tasks
  <2> QED BY <2>2, <2>3 DEF Ungraded, Reported
<1>2. IInv /\ Ungraded /\ Reported /\ [Next]_vars => Named
  BY ChargeStep
<1> HIDE DEF Named
<1>3. Spec => [][Named]_vars
  BY AlwaysInv, UngradedStep, ReportedStep, <1>1, <1>2, PTL DEF Spec
<1> QED BY <1>3 DEF Named

-----------------------------------------------------------------------------
(* Which keep a window measures *)

\* Until a crash takes the lane back to what the disk kept, the generation is at the
\* newest keep's or past it, and so is the revalidation the window waits for.
NewestTracked ==
    /\ keepGen \in Nat
    /\ crashes = 0 => /\ lane.gen >= keepGen
                      /\ \A g \in Gen : lane.tracked = Reval(g) => g >= keepGen

\* A write of the lane that goes no generation back and tracks nothing new.
GoesOn ==
    /\ lane'.gen \in Nat /\ lane'.gen >= lane.gen
    /\ lane'.tracked \in {lane.tracked, NoTask}

\* Such a write keeps the invariant.
LEMMA NewestStays ==
    ASSUME NewestTracked, IInv, GoesOn, UNCHANGED <<keepGen, crashes>>
    PROVE  NewestTracked'
<1>1. \A g \in Gen : NoTask # Reval(g)
  BY Kinds, KindsDiffer
<1>2. lane.gen \in Nat
  BY Zenon DEF IInv, Shape, Lane
<1> QED BY <1>1, <1>2 DEF NewestTracked, GoesOn

\* A write that leaves the generation, or moves it up by one.
LEMMA GenGoesOn ==
    ASSUME IInv, lane'.gen \in {lane.gen, lane.gen + 1}, lane'.tracked \in {lane.tracked, NoTask}
    PROVE  GoesOn
<1>1. lane.gen \in Nat
  BY Zenon DEF IInv, Shape, Lane
<1> QED BY <1>1 DEF GoesOn

\* No write at all.
LEMMA SameGoesOn ==
    ASSUME IInv, lane' = lane
    PROVE  GoesOn
BY GenGoesOn

\* The writes of the baseline handlers.
LEMMA BaselineGoesOn ==
    ASSUME IInv, \/ PromotedOutsideWindow
                 \/ \E report : RevalPromoted(report) \/ RevalFailed(report)
    PROVE  GoesOn
<1>1. lane \in Lane
  BY DEF IInv, Shape
<1>2. ASSUME \/ lane' = [CloseBooted(lane) EXCEPT !.anchored = TRUE]
             \/ lane' = [lane EXCEPT !.pending = FALSE, !.tracked = NoTask, !.anchored = TRUE]
             \/ lane' = [lane EXCEPT !.origin = "", !.anchored = TRUE]
      PROVE  GoesOn
  <2>1. lane'.gen = lane.gen /\ lane'.tracked \in {lane.tracked, NoTask}
    BY <1>1, <1>2, Zenon DEF Lane, CloseBooted
  <2> QED BY <2>1, GenGoesOn
<1>3. CASE PromotedOutsideWindow
  BY <1>2, <1>3, Zenon DEF PromotedOutsideWindow
<1>4. ASSUME NEW report, RevalPromoted(report) PROVE GoesOn
  BY <1>2, <1>3, <1>4, Zenon DEF RevalPromoted
<1>5. ASSUME NEW report, RevalFailed(report) PROVE GoesOn
  <2> DEFINE l == IF ~lane.pending THEN lane
                  ELSE IF report = "stopped" THEN ReopenWindow(lane)
                  ELSE [lane EXCEPT !.pending = FALSE, !.tracked = NoTask]
  <2>1. lane' = lane \/ \E b : lane' = [l EXCEPT !.origin = b]
    BY <1>5 DEF RevalFailed
  <2>2. /\ l \in Lane
        /\ l.gen \in {lane.gen, lane.gen + 1} /\ l.tracked \in {lane.tracked, NoTask}
    <3>1. /\ ReopenWindow(lane).gen = lane.gen + 1 /\ ReopenWindow(lane).tracked = NoTask
      BY <1>1, Zenon DEF ReopenWindow, Lane
    <3>2. /\ [lane EXCEPT !.pending = FALSE, !.tracked = NoTask].gen = lane.gen
          /\ [lane EXCEPT !.pending = FALSE, !.tracked = NoTask].tracked = NoTask
      BY <1>1, Zenon DEF Lane
    <3>3. ReopenWindow(lane) \in Lane /\ [lane EXCEPT !.pending = FALSE, !.tracked = NoTask] \in Lane
      BY <1>1, LaneWrites, Zenon
    <3> QED BY <1>1, <3>1, <3>2, <3>3
  <2> HIDE DEF l
  <2>3. \A b : [l EXCEPT !.origin = b].gen = l.gen /\ [l EXCEPT !.origin = b].tracked = l.tracked
    BY <2>2, Zenon DEF Lane
  <2> QED BY <2>1, <2>2, <2>3, GenGoesOn, SameGoesOn, Zenon
<1> QED BY <1>3, <1>4, <1>5

\* A keep opens the window for a generation of its own, and tracks nothing yet.
LEMMA KeepIsNewest ==
    ASSUME IInv, NewestTracked, NEW t \in Integrates \cup Probe, BookIntegrate(t)
    PROVE  NewestTracked'
<1>0. \A g \in Gen : NoTask # Reval(g)
  BY Kinds, KindsDiffer
<1>1. lane \in Lane /\ lane.gen \in Nat
  BY Zenon DEF IInv, Shape, Lane
<1>2. CASE result[t] = "kept"
  <2>1. /\ lane' = [lane EXCEPT !.pending = TRUE, !.gen = @ + 1, !.tracked = NoTask]
        /\ keepGen' = lane.gen + 1
    BY <1>2 DEF BookIntegrate, Rearm
  <2>2. lane'.gen = lane.gen + 1 /\ lane'.tracked = NoTask
    BY <1>1, <2>1, Zenon DEF Lane
  <2> QED BY <1>0, <1>1, <2>1, <2>2 DEF NewestTracked
<1>3. CASE result[t] # "kept"
  <2>1. lane' = lane /\ keepGen' = keepGen /\ crashes' = crashes
    BY <1>3 DEF BookIntegrate, Rearm
  <2> QED BY <2>1, SameGoesOn, NewestStays
<1> QED BY <1>2, <1>3

\* The scan for a generation goes up.
LEMMA PumpIsNewest ==
    ASSUME IInv, NewestTracked, PumpRevalidation
    PROVE  NewestTracked'
<1> DEFINE n == ScanStop(lane.gen)
<1>1. lane \in Lane /\ lane.gen \in Nat
  BY Zenon DEF IInv, Shape, Lane
<1>2. n >= lane.gen
  BY <1>1 DEF ScanStop
<1>3. /\ n \in Gen /\ UNCHANGED <<keepGen, crashes>>
      /\ lane' = [lane EXCEPT !.gen = n, !.tracked = Reval(n)] \/ lane' = [lane EXCEPT !.gen = n]
  BY DEF PumpRevalidation, rest
<1> HIDE DEF n
<1>4. n \in Nat
  BY <1>3 DEF Gen
<1>5. lane'.gen = n /\ lane'.tracked \in {lane.tracked, Reval(n)}
  BY <1>1, <1>3, Zenon DEF Lane
<1>6. \A g, h \in Gen : Reval(g) = Reval(h) => g = h
  <2> SUFFICES ASSUME NEW g \in Gen, NEW h \in Gen, Reval(g) = Reval(h) PROVE g = h
    OBVIOUS
  <2>1. Reval(g)[2] = Reval(h)[2]
    OBVIOUS
  <2> QED BY <2>1 DEF Reval
<1>7. keepGen' = keepGen /\ crashes' = crashes
  BY <1>3
<1>8. ASSUME crashes = 0 PROVE n >= keepGen /\ \A g \in Gen : lane'.tracked = Reval(g) => g >= keepGen
  <2>1. n >= keepGen
    BY <1>1, <1>2, <1>4, <1>8 DEF NewestTracked
  <2> QED BY <1>3, <1>5, <1>6, <1>8, <2>1 DEF NewestTracked
<1> QED BY <1>5, <1>7, <1>8 DEF NewestTracked

\* Every step keeps the window on the newest keep.
LEMMA NewestStep == IInv /\ NewestTracked /\ [Next]_vars => NewestTracked'
<1> SUFFICES ASSUME IInv, NewestTracked, [Next]_vars PROVE NewestTracked'
  OBVIOUS
<1>0. lane \in Lane /\ lane.gen \in Nat
  BY Zenon DEF IInv, Shape, Lane
<1>1. ASSUME UNCHANGED <<lane, keepGen, crashes>> PROVE NewestTracked'
  BY <1>1, SameGoesOn, NewestStays
<1>2. CASE Execution
  BY <1>1, <1>2 DEF Execution, Start, End, memory, rest
<1>3. CASE Booking
  <2>1. ASSUME NEW s, BookSpecialist(s) PROVE NewestTracked'
    BY <1>1, <2>1 DEF BookSpecialist, memory, session
  <2>2. ASSUME NEW t \in Revals, BookReval(t) PROVE NewestTracked'
    <3>1. RevalPromoted(result[t]) \/ RevalFailed(result[t])
      BY <2>2 DEF BookReval
    <3> QED BY <2>2, <3>1, BaselineGoesOn, NewestStays DEF BookReval
  <2>3. ASSUME NEW t, AccountDead(t) PROVE NewestTracked'
    <3>1. RevalFailed("failed") \/ lane' = lane
      BY <2>3 DEF AccountDead
    <3> QED BY <2>3, <3>1, BaselineGoesOn, SameGoesOn, NewestStays DEF AccountDead
  <2>4. CASE HandOver \/ CancelHolder \/ Save
    BY <1>1, <2>4, Zenon DEF HandOver, CancelHolder, Save, session, rest
  <2>5. CASE RearmRejected
    <3>1. UNCHANGED <<lane, keepGen, crashes>>
      BY <2>5 DEF RearmRejected, Rearm, session
    <3> QED BY <1>1, <3>1
  <2> QED BY <1>3, <2>1, <2>2, <2>3, <2>4, <2>5, KeepIsNewest, Zenon DEF Booking
<1>4. CASE Review
  BY <1>1, <1>4, Zenon DEF Review, Approve, Reject, Deny, memory, session
<1>5. CASE Outside
  <2>1. ASSUME NEW s, ForeignDelivers(s) \/ EnqueueProbe(s) \/ CancelOverBudget(s)
        PROVE  NewestTracked'
    BY <1>1, <2>1 DEF ForeignDelivers, EnqueueProbe, CancelOverBudget, memory, rest
  <2>2. CASE OtherBaselinePromotes
    <3>1. keepGen' = keepGen /\ crashes' = crashes
      BY <2>2 DEF OtherBaselinePromotes, rest
    <3>2. CASE lane' = [lane EXCEPT !.origin = "", !.anchored = TRUE]
      <4>1. lane'.gen = lane.gen /\ lane'.tracked = lane.tracked
        BY <1>0, <3>2, Zenon DEF Lane
      <4>2. GoesOn
        BY <1>0, <4>1 DEF GoesOn
      <4> QED BY <3>1, <4>2, NewestStays
    <3>3. CASE PromotedOutsideWindow
      BY <3>1, <3>3, BaselineGoesOn, NewestStays
    <3> QED BY <2>2, <3>2, <3>3, Zenon DEF OtherBaselinePromotes
  <2>3. CASE OtherBaselineFailsEval
    <3>1. lane'.gen = lane.gen /\ lane'.tracked = lane.tracked
      BY <1>0, <2>3, Zenon DEF OtherBaselineFailsEval, Lane
    <3>2. GoesOn
      BY <1>0, <3>1 DEF GoesOn
    <3> QED BY <2>3, <3>2, NewestStays DEF OtherBaselineFailsEval, rest
  <2>4. CASE RunLate
    BY <1>1, <2>4 DEF RunLate, memory
  <2> QED BY <1>5, <2>1, <2>2, <2>3, <2>4, Zenon DEF Outside
<1>6. CASE Pumps
  <2>1. ASSUME NEW s, PumpAuthoring(s) PROVE NewestTracked'
    BY <1>1, <2>1 DEF PumpAuthoring, memory, rest
  <2>2. CASE StopOnExhaustedAttempts
    BY <1>1, <2>2 DEF StopOnExhaustedAttempts, memory
  <2> QED BY <1>6, <2>1, <2>2, PumpIsNewest, Zenon DEF Pumps
<1>7. CASE Reconcile
  <2>1. ASSUME NEW t, FailDead(t) \/ AdvanceToSuccessor(t) \/ Expire(t) PROVE NewestTracked'
    BY <1>1, <2>1, Zenon DEF FailDead, AdvanceToSuccessor, Expire, memory, session
  <2>2. CASE CloseStaleWindow
    <3>1. lane'.gen = lane.gen /\ lane'.tracked = NoTask
      BY <1>0, <2>2, Zenon DEF CloseStaleWindow, Lane
    <3>2. GoesOn
      BY <1>0, <3>1 DEF GoesOn
    <3> QED BY <2>2, <3>2, NewestStays DEF CloseStaleWindow, session
  <2> QED BY <1>7, <2>1, <2>2, Zenon DEF Reconcile
<1>8. CASE Restart
  <2>1. crashes' = crashes + 1 /\ keepGen' = keepGen
    BY <1>8, Zenon DEF Restart
  <2>2. crashes \in Nat
    BY DEF IInv, Shape
  <2> QED BY <2>1, <2>2 DEF NewestTracked
<1>9. CASE UNCHANGED vars
  BY <1>1, <1>9 DEF vars
<1> QED BY <1>2, <1>3, <1>4, <1>5, <1>6, <1>7, <1>8, <1>9, Zenon DEF Next

\* Until a crash, the revalidation a window waits for was enqueued for the newest keep
\* or later: keeps, reopened windows and the scan over spent generations never leave it
\* tracking the revalidation of a keep that came before.
THEOREM WindowsTrackNewestKeep == Spec => []NewestTracked
<1>1. Init => NewestTracked
  <2> SUFFICES ASSUME Init PROVE NewestTracked
    OBVIOUS
  <2>1. keepGen = 0 /\ lane.gen = 0 /\ lane.tracked = NoTask
    BY Zenon DEF Init
  <2>2. \A g \in Gen : NoTask # Reval(g)
    BY Kinds, KindsDiffer
  <2> QED BY <2>1, <2>2 DEF NewestTracked
<1> QED BY AlwaysInv, NewestStep, <1>1, PTL DEF Spec
=============================================================================
