-------------------------- MODULE PhaseMachineProofs --------------------------
(***************************************************************************)
(* Three invariants of PhaseMachine for every choice of toggles and every  *)
(* bound on cycles, processes and events: a leg that ended is closed, a    *)
(* hint acts in its own phase only, and a phase takes over only the work   *)
(* that it admits.                                                         *)
(***************************************************************************)
EXTENDS PhaseMachine, TLAPS

WorkPhase == {"ENABLEMENT", "FRAMEWORK", "KERNEL", "SWEEP"}

\* What waits or runs in phase p of cycle c was created there or is admitted there.
Own(p, c, rs) ==
    p \in WorkPhase =>
        \A r \in rs : r.at \in {"queued", "running"} =>
            (r.born = p /\ r.cycle = c) \/ r.kind \in PHASE_ALLOWED_ACTIONS[p]

\* Shared state and rows that a step of phase m.phase may leave.
Keeps(e, m, rs) ==
    /\ e[1] \in Shared /\ e[2] \subseteq Row
    /\ Own(m.phase, m.cycle, rs) => Own(m.phase, m.cycle, e[2])
    /\ e[1].phase = m.phase /\ e[1].cycle = m.cycle /\ e[1].hint = m.hint
    /\ e[1].done = m.done

DoneIsClosed(m) == m.done => m.phase = "CLOSE"
HintAtHome(m) == m.phase # "PRELUDE" /\ m.hint.says # "" => m.hint.at = <<m.phase, m.cycle>>

Typed == mem \in Shared /\ disk \in Shared /\ rows \subseteq Row /\ move \in Move

\* What holds at the steps that a tick is made of.
AtStep ==
    /\ pc \notin {"down", "init"} => mem.phase # ""
    /\ pc = "drain" => /\ mem.phase # "CLOSE" /\ move.to # ""
                       /\ move.hint => mem.phase = "FRAMEWORK" /\ mem.hint.says # ""
    /\ pc = "sequence" => /\ mem.phase = "CLOSE"
                          /\ stage = "end" => mem.stop /\ ~mem.closing
    /\ stage = "end" => pc \in {"sequence", "exit"}

Told == DoneIsClosed(mem) /\ DoneIsClosed(disk) /\ HintAtHome(mem) /\ HintAtHome(disk)

Kept ==
    ~failed => /\ disk.phase = mem.phase /\ disk.cycle = mem.cycle
               /\ Own(mem.phase, mem.cycle, rows)

IInv == Typed /\ AtStep /\ Told /\ Kept /\ EndedLegIsClosed

-------------------------------------------------------------------------------
(* The operators *)

\* _live_conc_sweep_row and on_enter_kernel add a row of the phase and cycle, or none.
LEMMA LiveRowOwn ==
    ASSUME NEW rs, rs \subseteq Row, NEW k \in Kind, NEW m \in Shared
    PROVE  /\ LiveRow(rs, k, m) \subseteq Row
           /\ Own(m.phase, m.cycle, rs) => Own(m.phase, m.cycle, LiveRow(rs, k, m))
<1> DEFINE new == [kind |-> k, born |-> m.phase, cycle |-> m.cycle, at |-> "queued"]
<1>1. m.phase \in Phase /\ m.cycle \in Nat
  BY Zenon DEF Shared
<1>2. new \in Row /\ new.born = m.phase /\ new.cycle = m.cycle
  BY <1>1 DEF Row
<1>3. LiveRow(rs, k, m) = rs \/ LiveRow(rs, k, m) = rs \union {new}
  BY Zenon DEF LiveRow
<1> HIDE DEF new
<1> QED BY <1>2, <1>3, Zenon DEF Own

\* on_enter_sweep changes the sweep's outcome or adds the sweep, in SWEEP.
LEMMA EnterSweepKeeps ==
    ASSUME NEW m \in Shared, NEW rs, rs \subseteq Row, m.phase = "SWEEP",
           NEW e \in on_enter_sweep(m, rs)
    PROVE  /\ e[1] \in Shared /\ e[2] \subseteq Row
           /\ (Own(m.phase, m.cycle, rs) => Own(m.phase, m.cycle, e[2]))
           /\ e[1].phase = m.phase /\ e[1].cycle = m.cycle /\ e[1].hint = m.hint
           /\ e[1].done = m.done
<1>1. CASE \E s \in {"ok", "failed"} : e = <<[m EXCEPT !.sweep = s, !.sweepOf = m.cycle], rs>>
  <2>1. PICK s \in {"ok", "failed"} : e = <<[m EXCEPT !.sweep = s, !.sweepOf = m.cycle], rs>>
    BY <1>1, Zenon
  <2>2. e[1] = [m EXCEPT !.sweep = s, !.sweepOf = m.cycle] /\ e[2] = rs
    BY <2>1
  <2> QED BY <2>2, Zenon DEF Shared
<1>2. CASE e = <<m, LiveRow(rs, "conc_sweep", m)>>
  <2>1. "conc_sweep" \in Kind
    BY Zenon DEF Kind
  <2>2. LiveRow(rs, "conc_sweep", m) \subseteq Row
        /\ (Own(m.phase, m.cycle, rs) => Own(m.phase, m.cycle, LiveRow(rs, "conc_sweep", m)))
    BY <2>1, LiveRowOwn, Zenon
  <2> QED BY <1>2, <2>2
<1> QED BY <1>1, <1>2 DEF on_enter_sweep

\* Asking for the initial analysis sets its marker and adds its row, or nothing.
LEMMA AnalysisKeeps ==
    ASSUME NEW m \in Shared, NEW rs, rs \subseteq Row, NEW e \in InitialAnalysis(m, rs)
    PROVE  Keeps(e, m, rs)
<1>1. CASE e = <<m, rs>>
  BY <1>1 DEF Keeps
<1>2. CASE e = <<[m EXCEPT !.pending = TRUE], LiveRow(rs, "roofline", m)>>
  <2>1. "roofline" \in Kind
    BY DEF Kind
  <2>2. /\ LiveRow(rs, "roofline", m) \subseteq Row
        /\ Own(m.phase, m.cycle, rs) => Own(m.phase, m.cycle, LiveRow(rs, "roofline", m))
    BY <2>1, LiveRowOwn, Zenon
  <2>3. e[1] = [m EXCEPT !.pending = TRUE] /\ e[2] = LiveRow(rs, "roofline", m)
    BY <1>2
  <2> QED BY <2>2, <2>3, Zenon DEF Keeps, Shared
<1> QED BY <1>1, <1>2, Zenon DEF InitialAnalysis

\* What keeps after a change of the shared state that keeps, keeps.
LEMMA KeepsOn ==
    ASSUME NEW m, NEW n, NEW rs, NEW e, Keeps(e, n, rs),
           n.phase = m.phase, n.cycle = m.cycle, n.hint = m.hint, n.done = m.done
    PROVE  Keeps(e, m, rs)
BY Zenon DEF Keeps

\* Releasing what no task will settle moves neither phase, cycle nor hint.
LEMMA HoldKeeps ==
    ASSUME NEW m \in Shared, NEW rs, rs \subseteq Row,
           NEW h \in release_roofline_hold(m, rs)
    PROVE  Keeps(h, m, rs)
<1> DEFINE free == [m EXCEPT !.pending = FALSE]
<1>1. /\ free \in Shared /\ free.phase = m.phase /\ free.cycle = m.cycle /\ free.hint = m.hint
      /\ free.done = m.done
  BY Zenon DEF Shared
<1>2. h = <<m, rs>> \/ h = <<free, rs>> \/ h \in InitialAnalysis(free, rs)
  BY Zenon DEF release_roofline_hold
<1> HIDE DEF free
<1>3. CASE h = <<m, rs>> \/ h = <<free, rs>>
  BY <1>1, <1>3 DEF Keeps
<1>4. CASE h \in InitialAnalysis(free, rs)
  <2>1. Keeps(h, free, rs)
    BY <1>1, <1>4, AnalysisKeeps, Zenon
  <2> QED BY <1>1, <2>1, KeepsOn, Zenon
<1> QED BY <1>2, <1>3, <1>4, Zenon

\* The same of everything that is released before a decision.
LEMMA ReleasedKeeps ==
    ASSUME Typed, NEW h \in Released
    PROVE  /\ h[1] \in Shared /\ h[2] \subseteq Row
           /\ (Own(mem.phase, mem.cycle, rows) => Own(mem.phase, mem.cycle, h[2]))
           /\ h[1].phase = mem.phase /\ h[1].cycle = mem.cycle /\ h[1].hint = mem.hint
           /\ h[1].done = mem.done
<1>1. PICK g \in release_roofline_hold(mem, rows) : h \in resume_unsettled_sweep(g[1], g[2])
  BY DEF Released
<1>2. /\ g[1] \in Shared /\ g[2] \subseteq Row
      /\ (Own(mem.phase, mem.cycle, rows) => Own(mem.phase, mem.cycle, g[2]))
      /\ g[1].phase = mem.phase /\ g[1].cycle = mem.cycle /\ g[1].hint = mem.hint
      /\ g[1].done = mem.done
  BY HoldKeeps DEF Typed, Keeps
<1>3. CASE h = <<g[1], g[2]>>
  BY <1>2, <1>3
<1>4. CASE h \in on_enter_sweep(g[1], g[2]) /\ g[1].phase = "SWEEP"
  BY <1>2, <1>4, EnterSweepKeeps
<1> QED BY <1>1, <1>3, <1>4, Zenon DEF resume_unsettled_sweep

\* The moves that the predicates are made of.
LEMMA MoveFacts ==
    /\ Stay \in Move /\ ~Stay.hint
    /\ Ending \in Move /\ Ending.to = "CLOSE" /\ ~Ending.hint
    /\ \A p \in Phase :
          /\ To(p) \in Move /\ To(p).to = p /\ ~To(p).hint
          /\ [To(p) EXCEPT !.loop = TRUE] \in Move /\ [To(p) EXCEPT !.loop = TRUE].to = p
          /\ ~[To(p) EXCEPT !.loop = TRUE].hint
          /\ [To(p) EXCEPT !.hint = TRUE] \in Move /\ [To(p) EXCEPT !.hint = TRUE].to = p
<1>1. Stay \in Move /\ ~Stay.hint
  BY DEF Stay, Move, Phase
<1>2. Ending \in Move /\ Ending.to = "CLOSE" /\ ~Ending.hint
  BY Zenon DEF Ending, Stay, Move, Phase
<1>3. ASSUME NEW p \in Phase
      PROVE  To(p) \in Move /\ To(p).to = p /\ ~To(p).hint
  BY Zenon DEF To, Stay, Move
<1>4. ASSUME NEW p \in Phase
      PROVE  /\ [To(p) EXCEPT !.loop = TRUE] \in Move /\ [To(p) EXCEPT !.loop = TRUE].to = p
             /\ ~[To(p) EXCEPT !.loop = TRUE].hint
             /\ [To(p) EXCEPT !.hint = TRUE] \in Move /\ [To(p) EXCEPT !.hint = TRUE].to = p
  <2>1. ASSUME NEW d \in Move
        PROVE  /\ [d EXCEPT !.loop = TRUE] \in Move /\ [d EXCEPT !.loop = TRUE].to = d.to
               /\ [d EXCEPT !.loop = TRUE].hint = d.hint
               /\ [d EXCEPT !.hint = TRUE] \in Move /\ [d EXCEPT !.hint = TRUE].to = d.to
    BY Zenon DEF Move
  <2> QED BY <1>3, <2>1
<1> QED BY <1>1, <1>2, <1>3, <1>4

\* What the exit predicates may decide.
LEMMA DecisionFits ==
    ASSUME NEW m \in Shared, m.phase # "", NEW rs, NEW d \in Decisions(m, rs)
    PROVE  /\ d \in Move
           /\ d # Stay => m.phase # "CLOSE" /\ d.to # ""
           /\ d.hint => m.phase = "FRAMEWORK" /\ m.hint.says # ""
<1> DEFINE Loop == [To("FRAMEWORK") EXCEPT !.loop = TRUE]
           Next2 == To(IF flags.kernel THEN "KERNEL" ELSE "SWEEP")
           Hinted == [Next2 EXCEPT !.hint = TRUE]
<1>0. Post \in Phase \ {""} /\ {"FRAMEWORK", "KERNEL", "SWEEP", "CLOSE", "ENABLEMENT"} \subseteq Phase
      /\ (IF flags.kernel THEN "KERNEL" ELSE "SWEEP") \in Phase \ {""}
  BY Zenon DEF Post, Phase
<1>1. /\ Loop \in Move /\ Loop.to # "" /\ ~Loop.hint
      /\ Next2 \in Move /\ Next2.to # "" /\ ~Next2.hint
      /\ Hinted \in Move /\ Hinted.to # ""
      /\ To(Post) \in Move /\ To(Post).to # "" /\ ~To(Post).hint
      /\ \A p \in {"SWEEP", "CLOSE", "ENABLEMENT"} :
            To(p) \in Move /\ To(p).to # "" /\ ~To(p).hint
  BY <1>0, MoveFacts, Zenon
<1> HIDE DEF Loop, Next2, Hinted
<1>2. CASE m.phase = "CLOSE"
  <2>1. d = Stay
    BY <1>2 DEF Decisions
  <2> QED BY <2>1, MoveFacts, Zenon
<1>3. CASE m.phase # "CLOSE" /\ d \in {Stay, Ending, To(Post), To("SWEEP"), To("CLOSE"),
                                       To("ENABLEMENT"), Loop, Next2}
  BY <1>1, <1>3, MoveFacts, Zenon
<1>4. CASE m.phase = "FRAMEWORK" /\ m.hint.says # "" /\ d = Hinted
  BY <1>1, <1>4, Zenon
<1>5. m.phase = "PRELUDE" /\ d \in prelude_transition(m, rs)
      => d \in {Stay, Ending, To(Post), To("ENABLEMENT")}
  BY DEF prelude_transition, Anchored
<1>6. m.phase = "ENABLEMENT" /\ d \in enablement_transition(m) => d \in {Stay, To(Post)}
  BY Zenon DEF enablement_transition, Anchored
<1>7. d \in framework_transition(m) => d \in {Stay, Next2} \/ (m.hint.says # "" /\ d = Hinted)
  <2>1. m.hint.says \in {"", "skip_to_kernel", "skip_to_sweep"}
    BY Zenon DEF Shared, Hint
  <2> QED BY <2>1, Zenon DEF framework_transition, Next2, Hinted
<1>8. d \in kernel_transition(m, rs) => d \in {Stay, To("SWEEP")}
  BY Zenon DEF kernel_transition
<1>9. d \in sweep_transition(m) => d \in {Stay, Ending, To("CLOSE"), Loop}
  BY Zenon DEF sweep_transition, Loop
<1>10. m.phase \in {"PRELUDE", "ENABLEMENT", "FRAMEWORK", "KERNEL", "SWEEP", "CLOSE"}
  BY Zenon DEF Shared, Phase
<1>11. m.phase # "CLOSE" => d \in {Ending, To("SWEEP")}
          \/ (m.phase = "PRELUDE" /\ d \in prelude_transition(m, rs))
          \/ (m.phase = "ENABLEMENT" /\ d \in enablement_transition(m))
          \/ (m.phase = "FRAMEWORK" /\ d \in framework_transition(m))
          \/ d \in kernel_transition(m, rs) \/ d \in sweep_transition(m)
  BY <1>10, Zenon DEF Decisions
<1> QED BY <1>2, <1>3, <1>4, <1>5, <1>6, <1>7, <1>8, <1>9, <1>11, Zenon

\* A baseline that fails counts, one that anchors may start the replay or the analysis.
LEMMA BaselineKeeps ==
    ASSUME NEW m \in Shared, NEW rs, rs \subseteq Row,
           NEW e \in {<<BaselineFailed(m), rs>>} \union BaselinePromoted(m, rs)
    PROVE  Keeps(e, m, rs)
<1> DEFINE f == IF m.failures < 3 THEN m.failures + 1 ELSE m.failures
           at(a) == [m EXCEPT !.anchor = a, !.failures = 0, !.legFailed = FALSE]
           warm(n) == [n EXCEPT !.warm = TRUE]
<1>1. f \in Nat
  <2>1. m.failures \in Nat
    BY Zenon DEF Shared
  <2> QED BY <2>1
<1>2. CASE e = <<BaselineFailed(m), rs>>
  <2>1. BaselineFailed(m) = m \/ BaselineFailed(m) = [m EXCEPT !.failures = f, !.legFailed = TRUE]
    BY DEF BaselineFailed
  <2>2. e[1] = BaselineFailed(m) /\ e[2] = rs
    BY <1>2
  <2> HIDE DEF f
  <2>3. /\ BaselineFailed(m) \in Shared /\ BaselineFailed(m).phase = m.phase
        /\ BaselineFailed(m).cycle = m.cycle /\ BaselineFailed(m).hint = m.hint
        /\ BaselineFailed(m).done = m.done
    <3>1. CASE BaselineFailed(m) = m
      BY <3>1
    <3>2. CASE BaselineFailed(m) = [m EXCEPT !.failures = f, !.legFailed = TRUE]
      BY <1>1, <3>2, Zenon DEF Shared
    <3> QED BY <2>1, <3>1, <3>2
  <2> QED BY <2>2, <2>3, Zenon DEF Keeps
<1>3. ASSUME NEW a \in {"cold", "hot"}
      PROVE  /\ at(a) \in Shared /\ at(a).phase = m.phase /\ at(a).cycle = m.cycle
             /\ at(a).hint = m.hint /\ at(a).done = m.done
  <2>1. 0 \in Nat
    OBVIOUS
  <2> QED BY <2>1, Zenon DEF Shared
<1>4. CASE e \in BaselinePromoted(m, rs)
  <2>1. PICK a \in {"cold", "hot"} : e = <<at(a), rs>> \/ e \in Bootstrapped(at(a), rs)
    BY <1>4, Zenon DEF BaselinePromoted
  <2> DEFINE n == at(a)
  <2>2. n \in Shared /\ n.phase = m.phase /\ n.cycle = m.cycle /\ n.hint = m.hint /\ n.done = m.done
    BY <1>3
  <2>3. \/ e = <<n, rs>> \/ e \in InitialAnalysis(n, rs)
        \/ e = <<warm(n), LiveRow(rs, "replay_warm_recipe", n)>>
    BY <2>1, Zenon DEF Bootstrapped
  <2> HIDE DEF at, n
  <2>4. CASE e = <<n, rs>>
    BY <2>2, <2>4 DEF Keeps
  <2>5. CASE e \in InitialAnalysis(n, rs)
    <3>1. Keeps(e, n, rs)
      BY <2>2, <2>5, AnalysisKeeps, Zenon
    <3> QED BY <2>2, <3>1, KeepsOn, Zenon
  <2>6. CASE e = <<warm(n), LiveRow(rs, "replay_warm_recipe", n)>>
    <3>1. "replay_warm_recipe" \in Kind
      BY DEF Kind
    <3>2. /\ LiveRow(rs, "replay_warm_recipe", n) \subseteq Row
          /\ Own(n.phase, n.cycle, rs)
                => Own(n.phase, n.cycle, LiveRow(rs, "replay_warm_recipe", n))
      BY <2>2, <3>1, LiveRowOwn, Zenon
    <3>3. e[1] = warm(n) /\ e[2] = LiveRow(rs, "replay_warm_recipe", n)
      BY <2>6
    <3>4. Keeps(e, n, rs)
      BY <2>2, <3>2, <3>3, Zenon DEF Keeps, Shared
    <3> QED BY <2>2, <3>4, KeepsOn, Zenon
  <2> QED BY <2>3, <2>4, <2>5, <2>6, Zenon
<1> QED BY <1>2, <1>4

\* A booking moves neither phase, cycle nor hint, and creates rows of the phase only.
LEMMA BookedKeeps ==
    ASSUME NEW r \in Row, NEW m \in Shared, NEW rs, rs \subseteq Row,
           NEW e \in Booked(r, m, rs)
    PROVE  Keeps(e, m, rs)
<1>1. r.cycle \in Nat
  BY DEF Row
<1>2. CASE r.kind = "baseline"
  <2>1. e \in {<<BaselineFailed(m), rs>>} \union BaselinePromoted(m, rs)
    BY <1>2, Zenon DEF Booked
  <2> QED BY <2>1, BaselineKeeps, Zenon
<1>3. CASE r.kind = "replay_warm_recipe"
  <2> DEFINE n == [m EXCEPT !.warm = FALSE]
  <2>1. n \in Shared /\ n.phase = m.phase /\ n.cycle = m.cycle /\ n.hint = m.hint /\ n.done = m.done
    BY Zenon DEF Shared
  <2>2. e \in InitialAnalysis(n, rs)
    BY <1>3 DEF Booked
  <2> HIDE DEF n
  <2>3. Keeps(e, n, rs)
    BY <2>1, <2>2, AnalysisKeeps, Zenon
  <2> QED BY <2>1, <2>3, KeepsOn, Zenon
<1>4. CASE r.kind = "roofline"
  <2>1. e = <<[m EXCEPT !.pending = FALSE], rs>>
    BY <1>4 DEF Booked
  <2>2. e[1] = [m EXCEPT !.pending = FALSE] /\ e[2] = rs
    BY <2>1
  <2> QED BY <2>2, Zenon DEF Keeps, Shared
<1>5. CASE r.kind = "conc_sweep"
  <2>1. PICK s \in {"ok", "failed"} : e = <<[m EXCEPT !.sweep = s, !.sweepOf = r.cycle], rs>>
    BY <1>5 DEF Booked
  <2>2. e[1] = [m EXCEPT !.sweep = s, !.sweepOf = r.cycle] /\ e[2] = rs
    BY <2>1
  <2> QED BY <1>1, <2>2, Zenon DEF Keeps, Shared
<1>6. CASE r.kind \notin {"baseline", "replay_warm_recipe", "roofline", "conc_sweep"}
  <2>1. e = <<m, rs>>
    BY <1>6 DEF Booked
  <2> QED BY <2>1 DEF Keeps
<1> QED BY <1>2, <1>3, <1>4, <1>5, <1>6

\* The next macro-cycle resets what is counted per cycle.
LEMMA OpenedIs ==
    ASSUME NEW m \in Shared
    PROVE  /\ open_macro_cycle(m) \in Shared /\ open_macro_cycle(m).phase = m.phase
           /\ open_macro_cycle(m).hint = m.hint /\ open_macro_cycle(m).done = m.done
<1>1. ASSUME NEW c \in Nat, NEW z \in Nat
      PROVE  LET n == [m EXCEPT !.cycle = c, !.sweep = "", !.sweepOf = z]
             IN  n \in Shared /\ n.phase = m.phase /\ n.hint = m.hint /\ n.done = m.done
  BY Zenon DEF Shared
<1>2. m.cycle \in Nat
  BY Zenon DEF Shared
<1>3. m.cycle + 1 \in Nat /\ 0 \in Nat
  BY <1>2
<1> QED BY <1>1, <1>3, Zenon DEF open_macro_cycle

\* What leaves a phase leaves no hint behind it.
LEMMA CommittedIs ==
    ASSUME NEW m \in Shared, NEW d \in Move
    PROVE  /\ Committed(m, d) \in Shared
           /\ Committed(m, d).phase = d.to /\ Committed(m, d).hint = NoHint
           /\ Committed(m, d).done = m.done
<1> DEFINE g == [m EXCEPT !.hint = NoHint]
           b == g.stop \/ d.to = "CLOSE"
           at == [g EXCEPT !.phase = d.to, !.stop = b]
<1>0. NoHint \in Hint
  BY Zenon DEF NoHint, Hint, Phase
<1>1. d.to \in Phase
  BY DEF Move
<1>2. g \in Shared /\ g.hint = NoHint /\ g.done = m.done
  BY <1>0, Zenon DEF Shared
<1>3. Committed(m, d) = IF d.loop THEN open_macro_cycle(at) ELSE at
  BY DEF Committed, settle_escalate_hint
<1>4. b \in BOOLEAN
  OBVIOUS
<1> HIDE DEF g, b
<1>5. at \in Shared /\ at.phase = d.to /\ at.hint = NoHint /\ at.done = m.done
  BY <1>1, <1>2, <1>4, Zenon DEF Shared
<1> HIDE DEF at
<1> QED BY <1>3, <1>5, OpenedIs

\* The recorded close, for a session not in CLOSE and for one that is.
LEMMA ClosedIs ==
    ASSUME NEW m \in Shared
    PROVE  /\ Closed(m) \in Shared /\ Closed(m).phase = "CLOSE"
           /\ Closed(m).closing = m.closing
           /\ m.stop => Closed(m).stop
           /\ HintAtHome(m) => HintAtHome(Closed(m))
<1>0. NoHint \in Hint
      /\ NoHint.says = ""
  BY Zenon DEF NoHint, Hint, Phase
<1>1. CASE m.phase = "CLOSE"
  BY <1>1 DEF Closed
<1>2. CASE m.phase # "CLOSE"
  <2>1. Closed(m) = [[m EXCEPT !.hint = NoHint] EXCEPT !.phase = "CLOSE", !.stop = TRUE]
    BY <1>2 DEF Closed, settle_escalate_hint
  <2>2. /\ Closed(m) \in Shared /\ Closed(m).phase = "CLOSE" /\ Closed(m).stop
        /\ Closed(m).closing = m.closing /\ Closed(m).hint = NoHint
    BY <1>0, <2>1, Zenon DEF Shared, Phase
  <2> QED BY <1>0, <2>2, Zenon DEF HintAtHome
<1> QED BY <1>1, <1>2

-------------------------------------------------------------------------------
(* The invariant *)

\* A step that leaves the shared state alone.
LEMMA Steady ==
    ASSUME IInv, UNCHANGED <<mem, disk, failed>>, rows' \subseteq Row,
           Own(mem.phase, mem.cycle, rows) => Own(mem.phase, mem.cycle, rows'),
           move' \in Move, AtStep', pc' = "exit" => pc = "exit"
    PROVE  IInv'
BY Zenon DEF IInv, Typed, Told, Kept, EndedLegIsClosed, DoneIsClosed, HintAtHome, Own

\* A row that goes on to its next state stays where it belongs.
LEMMA RowMoves ==
    ASSUME NEW rs, rs \subseteq Row, NEW r \in rs, NEW p, NEW c,
           NEW a \in {"queued", "running", "ended", "unbooked"},
           r.at \in {"queued", "running"} \/ a \in {"ended", "unbooked"}
    PROVE  /\ (rs \ {r}) \union {[r EXCEPT !.at = a]} \subseteq Row
           /\ Own(p, c, rs) => Own(p, c, (rs \ {r}) \union {[r EXCEPT !.at = a]})
<1>1. [r EXCEPT !.at = a] \in Row /\ [r EXCEPT !.at = a].kind = r.kind
      /\ [r EXCEPT !.at = a].at = a /\ [r EXCEPT !.at = a].born = r.born
      /\ [r EXCEPT !.at = a].cycle = r.cycle
  BY DEF Row
<1> QED BY <1>1, Zenon DEF Own

\* The first state.
LEMMA InitInv == Init => IInv
<1> SUFFICES ASSUME Init PROVE IInv
  OBVIOUS
<1>1. NoHint \in Hint
      /\ NoHint.says = ""
  BY Zenon DEF NoHint, Hint, Phase
<1>2. Typed
  BY <1>1, MoveFacts, Zenon DEF Init, Typed, Shared, Phase
<1>3. AtStep /\ EndedLegIsClosed
  BY Zenon DEF Init, AtStep, EndedLegIsClosed
<1>4. Told
  BY <1>1, Zenon DEF Init, Told, DoneIsClosed, HintAtHome
<1>5. Kept
  BY Zenon DEF Init, Kept, Own
<1> QED BY <1>2, <1>3, <1>4, <1>5 DEF IInv

\* The steps of a tick that only move on, and what happens outside.
LEMMA PlainSteps ==
    ASSUME IInv,
           SkipAdvance \/ AdvanceClosing \/ EnterClose \/ CutShort \/ ReactIdle \/ PumpNothing
               \/ ClockRuns \/ PhaseBudgetSpent \/ StopRequested
    PROVE  IInv'
<1> USE DEF world, happened, Outside, AfterAdvance, AfterPump
<1>1. UNCHANGED <<mem, disk, rows, failed>>
  BY DEF SkipAdvance, AdvanceClosing, EnterClose, CutShort, ReactIdle, PumpNothing,
         ClockRuns, PhaseBudgetSpent, StopRequested
<1>2. move' \in Move
  BY MoveFacts DEF IInv, Typed, SkipAdvance, AdvanceClosing, EnterClose, CutShort, ReactIdle,
         PumpNothing, ClockRuns, PhaseBudgetSpent, StopRequested
<1>3. AtStep' /\ (pc' = "exit" => pc = "exit")
  BY <1>1, Zenon DEF IInv, AtStep, SkipAdvance, AdvanceClosing, EnterClose, CutShort, ReactIdle,
         PumpNothing, ClockRuns, PhaseBudgetSpent, StopRequested
<1> QED BY <1>1, <1>2, <1>3, Steady DEF IInv, Typed

\* Rows are proposed, started, ended and queued for booking.
LEMMA RowSteps ==
    ASSUME IInv,
           NEW r \in rows, Spawn(r) \/ EndExecution(r) \/ queue_completion(r)
    PROVE  IInv'
<1> USE DEF world, happened, Outside, AfterPump
<1>1. UNCHANGED <<mem, disk, failed, move>>
  BY DEF Spawn, EndExecution, queue_completion
<1>2. rows' \subseteq Row /\ (Own(mem.phase, mem.cycle, rows) => Own(mem.phase, mem.cycle, rows'))
  <2>1. r.at \in {"queued", "running"} \/ queue_completion(r)
    BY DEF Spawn, EndExecution, Fits, At
  <2>2. PICK a \in {"running", "ended", "unbooked"} :
           /\ rows' = (rows \ {r}) \union {[r EXCEPT !.at = a]}
           /\ queue_completion(r) => a = "unbooked"
    BY DEF Spawn, EndExecution, queue_completion, Fits, At
  <2>3. rows \subseteq Row
    BY DEF IInv, Typed
  <2>4. r.at \in {"queued", "running"} \/ a \in {"ended", "unbooked"}
    BY <2>1, <2>2
  <2>5. /\ (rows \ {r}) \union {[r EXCEPT !.at = a]} \subseteq Row
        /\ Own(mem.phase, mem.cycle, rows) => Own(mem.phase, mem.cycle, (rows \ {r}) \union {[r EXCEPT !.at = a]})
    BY <2>3, <2>4, RowMoves, Zenon
  <2> QED BY <2>2, <2>5
<1>3. AtStep' /\ (pc' = "exit" => pc = "exit")
  BY <1>1, Zenon DEF IInv, AtStep, Spawn, EndExecution, queue_completion, Pumping
<1> QED BY <1>1, <1>2, <1>3, Steady DEF IInv, Typed

\* A new process starts from what was saved.
LEMMA StartStep ==
    ASSUME IInv, Start PROVE IInv'
<1>1. /\ mem' \in Shared /\ mem'.phase = disk.phase /\ mem'.cycle = disk.cycle
      /\ mem'.hint = disk.hint /\ ~mem'.done /\ disk' = mem'
  BY Zenon DEF IInv, Typed, Start, Shared
<1>2. rows' \subseteq rows
  BY DEF Start, At
<1>3. pc' = "init" /\ stage' = "pre" /\ move' = Stay /\ failed' = failed
  BY DEF Start, happened
<1>4. Typed'
  BY <1>1, <1>2, <1>3, MoveFacts DEF IInv, Typed
<1>5. AtStep' /\ EndedLegIsClosed'
  BY <1>3 DEF AtStep, EndedLegIsClosed
<1>6. Told'
  BY <1>1, Zenon DEF IInv, Told, DoneIsClosed, HintAtHome
<1>7. Kept'
  BY <1>1, <1>2, <1>3 DEF IInv, Kept, Own
<1> QED BY <1>4, <1>5, <1>6, <1>7 DEF IInv

\* A crash goes back to what was saved and keeps what is queued.
LEMMA CrashStep ==
    ASSUME IInv, Crash PROVE IInv'
<1>1. mem' = disk /\ disk' = disk /\ rows' \subseteq rows /\ pc' = "down" /\ stage' = "pre"
      /\ move' = Stay /\ failed' = failed
  BY DEF Crash, Gone, happened, At
<1>2. Typed'
  BY <1>1, MoveFacts DEF IInv, Typed
<1>3. AtStep' /\ EndedLegIsClosed' /\ Told'
  BY <1>1, Zenon DEF IInv, AtStep, EndedLegIsClosed, Told, DoneIsClosed, HintAtHome
<1>4. Kept'
  BY <1>1 DEF IInv, Kept, Own
<1> QED BY <1>2, <1>3, <1>4 DEF IInv

\* A close that raises leaves the session of its last save, in the phase it was in.
LEMMA CloseRaisesStep ==
    ASSUME IInv, CloseRaises PROVE IInv'
<1>0. mem \in Shared /\ disk \in Shared /\ rows \subseteq Row
  BY DEF IInv, Typed
<1>1. mem' = disk' /\ rows' \subseteq rows /\ pc' = "down" /\ stage' = "pre"
      /\ move' = Stay /\ failed' = failed
  BY DEF CloseRaises, Gone, happened, At
<1>2. \/ disk' = disk
      \/ disk' = mem
      \/ mem.done /\ disk' = [mem EXCEPT !.closing = FALSE, !.stop = TRUE]
      \/ pc = "sequence" /\ disk' = [mem EXCEPT !.done = TRUE]
  BY DEF CloseRaises
<1>3. /\ disk' \in Shared /\ DoneIsClosed(disk') /\ HintAtHome(disk')
      /\ disk' = disk \/ (disk'.phase = mem.phase /\ disk'.cycle = mem.cycle)
  <2>1. CASE disk' = disk \/ disk' = mem
    BY <1>0, <2>1, Zenon DEF IInv, Told
  <2>2. CASE mem.done /\ disk' = [mem EXCEPT !.closing = FALSE, !.stop = TRUE]
    <3>1. /\ disk' \in Shared /\ disk'.phase = mem.phase /\ disk'.cycle = mem.cycle
          /\ disk'.hint = mem.hint /\ disk'.done = mem.done
      BY <1>0, <2>2, Zenon DEF Shared
    <3> QED BY <3>1, Zenon DEF IInv, Told, DoneIsClosed, HintAtHome
  <2>3. CASE pc = "sequence" /\ disk' = [mem EXCEPT !.done = TRUE]
    <3>1. /\ disk' \in Shared /\ disk'.phase = mem.phase /\ disk'.cycle = mem.cycle
          /\ disk'.hint = mem.hint
      BY <1>0, <2>3, Zenon DEF Shared
    <3>2. mem.phase = "CLOSE"
      BY <2>3, Zenon DEF IInv, AtStep
    <3> QED BY <3>1, <3>2, Zenon DEF IInv, Told, DoneIsClosed, HintAtHome
  <2> QED BY <1>2, <2>1, <2>2, <2>3, Zenon
<1>4. Typed'
  BY <1>0, <1>1, <1>3, MoveFacts DEF Typed
<1>5. AtStep' /\ EndedLegIsClosed' /\ Told'
  BY <1>1, <1>3, Zenon DEF AtStep, EndedLegIsClosed, Told
<1>6. Kept'
  BY <1>1, <1>3, Zenon DEF IInv, Kept, Own
<1> QED BY <1>4, <1>5, <1>6 DEF IInv

\* A closed session reopens in PRELUDE, where no hint and no row has to fit.
LEMMA InitialiseStep ==
    ASSUME IInv, Initialise PROVE IInv'
<1> DEFINE n == ensure_phase_initialised(mem)
<1>0. mem \in Shared /\ rows \subseteq Row
  BY DEF IInv, Typed
<1>1. n \in Shared /\ DoneIsClosed(n) /\ HintAtHome(n) /\ n.phase # ""
      /\ (n = mem \/ n.phase = "PRELUDE")
  <2>1. CASE mem.phase = "CLOSE"
    <3>1. n = [open_macro_cycle(mem) EXCEPT !.phase = "PRELUDE", !.done = FALSE]
      BY <2>1 DEF ensure_phase_initialised
    <3>2. open_macro_cycle(mem) \in Shared
      BY <1>0, OpenedIs
    <3>3. n \in Shared /\ n.phase = "PRELUDE" /\ ~n.done
      BY <3>1, <3>2, Zenon DEF Shared, Phase
    <3> QED BY <3>3 DEF DoneIsClosed, HintAtHome
  <2>2. CASE mem.phase = ""
    <3>1. n = [mem EXCEPT !.phase = "PRELUDE"]
      BY <2>2, Zenon DEF ensure_phase_initialised
    <3>2. n \in Shared /\ n.phase = "PRELUDE" /\ n.done = mem.done
      BY <1>0, <3>1, Zenon DEF Shared, Phase
    <3> QED BY <2>2, <3>2, Zenon DEF IInv, Told, DoneIsClosed, HintAtHome
  <2>3. CASE mem.phase \notin {"CLOSE", ""}
    <3>1. n = mem
      BY <2>3, Zenon DEF ensure_phase_initialised
    <3> QED BY <1>0, <2>3, <3>1, Zenon DEF IInv, Told
  <2> QED BY <2>1, <2>2, <2>3, Zenon
<1> DEFINE w == WarmRecovered(n, rows)
<1>2. /\ disk' = mem' /\ pc' = "decide" /\ UNCHANGED <<stage, move, failed>> /\ pc = "init"
      /\ \/ mem' = w[1] /\ (rows' = w[2] \/ rows' = on_enter_kernel(n, w[2]))
         \/ mem' = [n EXCEPT !.stop = TRUE] /\ rows' = rows
  BY DEF Initialise
<1> HIDE DEF n
<1>3. /\ w[2] \subseteq rows /\ (w[1] = n \/ w[1] = [n EXCEPT !.warm = FALSE])
  BY DEF WarmRecovered
<1> HIDE DEF w
<1>4. /\ mem' \in Shared /\ mem'.phase = n.phase /\ mem'.cycle = n.cycle
      /\ mem'.hint = n.hint /\ mem'.done = n.done
  <2>1. mem' \in {n, [n EXCEPT !.warm = FALSE], [n EXCEPT !.stop = TRUE]}
    BY <1>2, <1>3
  <2> QED BY <1>1, <2>1, Zenon DEF Shared
<1>5. rows' \subseteq Row /\ (Own(n.phase, n.cycle, rows) => Own(n.phase, n.cycle, rows'))
  <2>1. w[2] \subseteq Row /\ (Own(n.phase, n.cycle, rows) => Own(n.phase, n.cycle, w[2]))
    BY <1>0, <1>3, Zenon DEF Own
  <2>2. CASE rows' = LiveRow(w[2], "kernel_agent", n)
    <3>1. "kernel_agent" \in Kind
      BY DEF Kind
    <3>2. /\ LiveRow(w[2], "kernel_agent", n) \subseteq Row
          /\ Own(n.phase, n.cycle, w[2]) => Own(n.phase, n.cycle, LiveRow(w[2], "kernel_agent", n))
      BY <1>1, <2>1, <3>1, LiveRowOwn, Zenon
    <3> QED BY <2>1, <2>2, <3>2, Zenon
  <2>3. CASE rows' = w[2] \/ rows' = rows
    BY <1>0, <2>1, <2>3, Zenon
  <2> QED BY <1>2, <2>2, <2>3, Zenon DEF on_enter_kernel
<1>6. Typed'
  BY <1>2, <1>4, <1>5, Zenon DEF IInv, Typed
<1>7. AtStep' /\ EndedLegIsClosed' /\ Told'
  BY <1>1, <1>2, <1>4, Zenon DEF IInv, AtStep, EndedLegIsClosed, Told, DoneIsClosed, HintAtHome
<1>8. Kept'
  BY <1>1, <1>2, <1>4, <1>5, Zenon DEF IInv, Kept, Own, WorkPhase
<1> QED BY <1>6, <1>7, <1>8 DEF IInv

\* A step of the coordinator that keeps phase, cycle and hint.
LEMMA SamePhase ==
    ASSUME IInv, mem' \in Shared, rows' \subseteq Row, move' \in Move, AtStep',
           mem'.phase = mem.phase, mem'.cycle = mem.cycle, mem'.hint = mem.hint,
           mem'.done = mem.done, disk' = disk \/ disk' = mem',
           failed' \/ failed' = failed, pc' # "exit",
           Own(mem.phase, mem.cycle, rows) => Own(mem.phase, mem.cycle, rows')
    PROVE  IInv'
<1>1. Typed'
  BY DEF IInv, Typed
<1>2. Told' /\ EndedLegIsClosed'
  BY Zenon DEF IInv, Told, DoneIsClosed, HintAtHome, EndedLegIsClosed
<1>3. Kept'
  BY DEF IInv, Kept
<1> QED BY <1>1, <1>2, <1>3 DEF IInv

\* A decision leaves the phase alone and is one the predicates allow.
LEMMA DecideStep ==
    ASSUME IInv, Decide PROVE IInv'
<1>1. PICK h \in Released :
         /\ mem' = h[1] /\ rows' = h[2]
         /\ disk' = IF h[1].sweep # mem.sweep THEN h[1] ELSE disk
         /\ \E d \in Decisions(h[1], h[2]) :
               /\ move' = d
               /\ IF d = Stay THEN AfterAdvance ELSE pc' = "drain" /\ UNCHANGED stage
  BY DEF Decide
<1>2. PICK d \in Decisions(h[1], h[2]) :
         /\ move' = d
         /\ IF d = Stay THEN AfterAdvance ELSE pc' = "drain" /\ UNCHANGED stage
  BY <1>1
<1>3. /\ h[1] \in Shared /\ h[2] \subseteq Row
      /\ (Own(mem.phase, mem.cycle, rows) => Own(mem.phase, mem.cycle, h[2]))
      /\ h[1].phase = mem.phase /\ h[1].cycle = mem.cycle /\ h[1].hint = mem.hint
      /\ h[1].done = mem.done
  BY ReleasedKeeps DEF IInv
<1>4. mem.phase # "" /\ stage # "end" /\ failed' = failed
  BY Zenon DEF IInv, AtStep, Decide, happened
<1>5. /\ d \in Move
      /\ d # Stay => mem.phase # "CLOSE" /\ d.to # ""
      /\ d.hint => mem.phase = "FRAMEWORK" /\ mem.hint.says # ""
  <2>1. /\ d \in Move
        /\ d # Stay => h[1].phase # "CLOSE" /\ d.to # ""
        /\ d.hint => h[1].phase = "FRAMEWORK" /\ h[1].hint.says # ""
    <3>1. h[1] \in Shared /\ h[1].phase # ""
      BY <1>3, <1>4, Zenon
    <3> QED BY <1>2, <3>1, DecisionFits, Zenon
  <2> QED BY <1>3, <2>1, Zenon
<1>6. AtStep' /\ pc' # "exit"
  <2>1. CASE d = Stay
    BY <1>1, <1>2, <1>3, <1>4, <2>1, Zenon DEF AtStep, AfterAdvance
  <2>2. CASE d # Stay
    BY <1>1, <1>2, <1>3, <1>4, <1>5, <2>2, Zenon DEF AtStep
  <2> QED BY <2>1, <2>2
<1> QED BY <1>1, <1>2, <1>3, <1>4, <1>5, <1>6, SamePhase, Zenon

\* The drain holds, or commits with no foreign row queued and none running.
LEMMA DrainStep ==
    ASSUME IInv, Drain PROVE IInv'
<1>0. /\ mem \in Shared /\ disk \in Shared /\ rows \subseteq Row /\ move \in Move
      /\ pc = "drain" /\ mem.phase # "CLOSE" /\ mem.phase # "" /\ move.to # ""
      /\ stage # "end" /\ ~mem.done /\ move.to \in Phase
  BY Zenon DEF Drain, IInv, Typed, AtStep, Told, DoneIsClosed, Move
<1>1. /\ rows' \subseteq rows
      /\ \A r \in rows' : r.at = "queued" => r.kind \in PHASE_ALLOWED_ACTIONS[move.to]
  BY DEF Drain, cancel_queued
<1>2. CASE At(rows', "running") \union At(rows', "unbooked") # {}
  <2>1. AfterAdvance /\ UNCHANGED <<mem, disk, failed>>
    BY <1>2 DEF Drain, happened
  <2>2. move' \in Move /\ AtStep' /\ pc' # "exit"
    BY <1>0, <2>1, MoveFacts, Zenon DEF AfterAdvance, AtStep
  <2>3. rows' \subseteq Row /\ (Own(mem.phase, mem.cycle, rows) => Own(mem.phase, mem.cycle, rows'))
    BY <1>0, <1>1, Zenon DEF Own
  <2> QED BY <2>1, <2>2, <2>3, Steady
<1>3. CASE At(rows', "running") \union At(rows', "unbooked") = {}
  <2>1. /\ mem' = Committed(mem, move) /\ pc' = "enter" /\ stage' = stage
        /\ \/ disk' = mem' /\ move' = move /\ failed' = failed
           \/ failed' /\ disk' = disk /\ move' = [move EXCEPT !.unsaved = TRUE]
    BY <1>3 DEF Drain, WriteFails, happened
  <2>2. /\ mem' \in Shared /\ mem'.phase = move.to /\ mem'.hint = NoHint /\ ~mem'.done
    <3>1. /\ Committed(mem, move) \in Shared /\ Committed(mem, move).phase = move.to
          /\ Committed(mem, move).hint = NoHint /\ Committed(mem, move).done = mem.done
      BY <1>0, CommittedIs, Zenon
    <3> QED BY <1>0, <2>1, <3>1, Zenon
  <2>3. [move EXCEPT !.unsaved = TRUE] \in Move
    BY <1>0, Zenon DEF Move
  <2>4. Typed'
    BY <1>0, <1>1, <2>1, <2>2, <2>3, Zenon DEF Typed
  <2>5. AtStep' /\ EndedLegIsClosed'
    BY <1>0, <2>1, <2>2, Zenon DEF AtStep, EndedLegIsClosed
  <2>6. Told'
    <3>1. NoHint.says = ""
      BY DEF NoHint
    <3>2. DoneIsClosed(mem') /\ HintAtHome(mem')
      BY <2>2, <3>1, Zenon DEF DoneIsClosed, HintAtHome
    <3>3. disk' = mem' \/ disk' = disk
      BY <2>1
    <3> QED BY <3>2, <3>3, Zenon DEF IInv, Told, DoneIsClosed, HintAtHome
  <2>7. Own(move.to, mem'.cycle, rows')
    BY <1>1, <1>3 DEF Own, At
  <2>8. Kept'
    BY <2>1, <2>2, <2>7 DEF Kept
  <2> QED BY <2>4, <2>5, <2>6, <2>8 DEF IInv
<1> QED BY <1>2, <1>3

\* A phase entry adds its own row or outcome.
LEMMA EnterPhaseStep ==
    ASSUME IInv, EnterPhase PROVE IInv'
<1>0. /\ mem \in Shared /\ rows \subseteq Row /\ mem.phase # "" /\ mem.phase # "CLOSE"
      /\ stage # "end" /\ mem.cycle \in Nat /\ mem.phase \in Phase
  BY Zenon DEF EnterPhase, IInv, Typed, AtStep, Shared
<1>1. /\ stage' = stage /\ move' \in Move /\ pc' \in {"react", "check"}
  BY MoveFacts DEF EnterPhase, AfterEntry
<1>2. /\ mem' \in Shared /\ rows' \subseteq Row
      /\ (Own(mem.phase, mem.cycle, rows) => Own(mem.phase, mem.cycle, rows'))
      /\ mem'.phase = mem.phase /\ mem'.cycle = mem.cycle /\ mem'.hint = mem.hint
      /\ mem'.done = mem.done /\ (disk' = disk \/ disk' = mem') /\ (failed' \/ failed' = failed)
  <2>1. CASE failed' /\ UNCHANGED <<mem, disk, rows>>
    BY <1>0, <2>1, Zenon
  <2>2. ASSUME NEW e, mem' = e[1], rows' = e[2], disk' = IF e[1] # mem THEN e[1] ELSE disk,
               failed' = failed,
               e \in CASE mem.phase = "KERNEL" -> {<<mem, on_enter_kernel(mem, rows)>>}
                        [] mem.phase = "SWEEP" -> on_enter_sweep(mem, rows)
                        [] OTHER -> {<<mem, rows>>}
        PROVE  /\ mem' \in Shared /\ rows' \subseteq Row
               /\ (Own(mem.phase, mem.cycle, rows) => Own(mem.phase, mem.cycle, rows'))
               /\ mem'.phase = mem.phase /\ mem'.cycle = mem.cycle /\ mem'.hint = mem.hint
               /\ mem'.done = mem.done /\ (disk' = disk \/ disk' = mem')
    <3>1. CASE mem.phase = "KERNEL"
      <4>1. mem' = mem /\ rows' = on_enter_kernel(mem, rows)
        BY <2>2, <3>1
      <4>2. "kernel_agent" \in Kind
        BY DEF Kind
      <4>3. LiveRow(rows, "kernel_agent", mem) \subseteq Row
            /\ (Own(mem.phase, mem.cycle, rows) => Own(mem.phase, mem.cycle, LiveRow(rows, "kernel_agent", mem)))
        BY <1>0, <4>2, LiveRowOwn, Zenon
      <4> QED BY <1>0, <2>2, <4>1, <4>3, Zenon DEF on_enter_kernel
    <3>2. CASE mem.phase = "SWEEP"
      <4>1. e \in on_enter_sweep(mem, rows)
        BY <2>2, <3>2
      <4> QED BY <1>0, <2>2, <3>2, <4>1, EnterSweepKeeps
    <3>3. CASE mem.phase \notin {"KERNEL", "SWEEP"}
      <4>1. e = <<mem, rows>>
        BY <2>2, <3>3
      <4> QED BY <1>0, <2>2, <4>1, Zenon
    <3> QED BY <3>1, <3>2, <3>3
  <2> QED BY <2>1, <2>2 DEF EnterPhase, WriteFails, happened
<1>3. AtStep' /\ pc' # "exit"
  BY <1>0, <1>1, <1>2, Zenon DEF AtStep
<1> QED BY <1>1, <1>2, <1>3, SamePhase

\* The close sequence runs in CLOSE; at the end of the run it ends the leg.
LEMMA RunSequenceStep ==
    ASSUME IInv, RunSequence PROVE IInv'
<1>0. mem \in Shared /\ rows \subseteq Row /\ mem.phase = "CLOSE"
      /\ (stage = "end" => mem.stop /\ ~mem.closing)
  BY Zenon DEF RunSequence, IInv, Typed, AtStep
<1>1. /\ mem' \in Shared /\ mem'.phase = "CLOSE" /\ mem'.cycle = mem.cycle /\ mem'.done
      /\ mem'.hint = mem.hint /\ mem'.stop = mem.stop /\ mem'.closing = mem.closing
  BY <1>0, Zenon DEF RunSequence, Shared
<1>2. /\ rows' = rows /\ stage' = stage /\ move' \in Move
      /\ pc' \in {"exit", "react", "check"} /\ (stage = "end" <=> pc' = "exit")
      /\ disk' = mem' \/ (disk' = disk /\ failed' /\ stage # "end")
  BY MoveFacts DEF RunSequence, AfterEntry, WriteFails, IInv, Typed
<1>3. Typed'
  BY <1>0, <1>1, <1>2 DEF IInv, Typed
<1>4. AtStep'
  BY <1>1, <1>2 DEF AtStep
<1>5. Told'
  BY <1>0, <1>1, <1>2, Zenon DEF IInv, Told, DoneIsClosed, HintAtHome
<1>6. Kept'
  BY <1>1, <1>2 DEF Kept, Own, WorkPhase
<1>7. EndedLegIsClosed'
  BY <1>0, <1>1, <1>2 DEF EndedLegIsClosed
<1> QED BY <1>3, <1>4, <1>5, <1>6, <1>7 DEF IInv

\* A proposal waits, and a verdict may make a row of the phase of it.
LEMMA ProposalSteps ==
    ASSUME IInv, NEW k \in Kind, Propose(k) \/ Verdict(k) PROVE IInv'
<1>1. /\ UNCHANGED <<mem, disk, failed, move, stage>> /\ pc' = "pump" /\ pc = "react"
      /\ rows' = rows \/ rows' = LiveRow(rows, k, mem)
  BY DEF Propose, Verdict, Turn, happened
<1>2. rows \subseteq Row /\ mem \in Shared /\ move \in Move
  BY Zenon DEF IInv, Typed
<1>3. rows' \subseteq Row /\ (Own(mem.phase, mem.cycle, rows) => Own(mem.phase, mem.cycle, rows'))
  BY <1>1, <1>2, LiveRowOwn, Zenon
<1>4. AtStep'
  BY <1>1, Zenon DEF IInv, AtStep
<1> QED BY <1>1, <1>2, <1>3, <1>4, Steady

\* A new hint names the phase and cycle it is given in.
LEMMA EscalateStep ==
    ASSUME IInv, NEW h \in {"skip_to_kernel", "skip_to_sweep"}, Escalate(h) PROVE IInv'
<1> DEFINE new == [says |-> h, at |-> <<mem.phase, mem.cycle>>]
<1>0. mem \in Shared /\ mem.phase \in Phase /\ mem.cycle \in Nat
  BY Zenon DEF IInv, Typed, Shared
<1>1. new \in Hint
      /\ new.at = <<mem.phase, mem.cycle>>
  BY <1>0, Zenon DEF Hint
<1>2. /\ mem' = [mem EXCEPT !.hint = new] /\ disk' = mem'
      /\ UNCHANGED <<rows, failed, move, stage>> /\ pc' = "pump" /\ pc = "react"
  BY DEF Escalate, Turn
<1> HIDE DEF new
<1>3. /\ mem' \in Shared /\ mem'.phase = mem.phase /\ mem'.cycle = mem.cycle
      /\ mem'.done = mem.done /\ mem'.hint = new
  BY <1>0, <1>1, <1>2, Zenon DEF Shared
<1>4. Typed'
  BY <1>2, <1>3 DEF IInv, Typed
<1>5. AtStep' /\ EndedLegIsClosed'
  BY <1>2, <1>3, Zenon DEF IInv, AtStep, EndedLegIsClosed
<1>6. DoneIsClosed(mem')
  BY <1>3 DEF IInv, Told, DoneIsClosed
<1>7. HintAtHome(mem')
  BY <1>1, <1>3, Zenon DEF HintAtHome
<1>8. Told'
  BY <1>2, <1>6, <1>7 DEF Told
<1>9. Kept'
  BY <1>2, <1>3 DEF IInv, Kept
<1> QED BY <1>4, <1>5, <1>8, <1>9 DEF IInv

\* A booking changes neither phase, cycle nor hint.
LEMMA BookStep ==
    ASSUME IInv, NEW r \in rows, Book(r) PROVE IInv'
<1>0. /\ mem \in Shared /\ rows \subseteq Row /\ move \in Move /\ r \in Row
      /\ pc = "pump" /\ UNCHANGED <<pc, stage, move>>
  BY DEF IInv, Typed, Book
<1>1. /\ rows \ {r} \subseteq Row
      /\ (Own(mem.phase, mem.cycle, rows) => Own(mem.phase, mem.cycle, rows \ {r}))
  BY <1>0 DEF Own
<1>2. CASE rows' = rows \ {r} /\ UNCHANGED <<mem, disk>> /\ failed'
  <2>1. AtStep'
    BY <1>0, <1>2, Zenon DEF IInv, AtStep
  <2> QED BY <1>0, <1>1, <1>2, <2>1, SamePhase
<1>3. ASSUME NEW e \in Booked(r, mem, rows \ {r}),
             mem' = e[1] \/ mem' = [e[1] EXCEPT !.stop = TRUE],
             rows' = e[2], disk' = mem', failed' = failed
      PROVE  IInv'
  <2>1. /\ e[1] \in Shared /\ e[2] \subseteq Row
        /\ (Own(mem.phase, mem.cycle, rows \ {r}) => Own(mem.phase, mem.cycle, e[2]))
        /\ e[1].phase = mem.phase /\ e[1].cycle = mem.cycle /\ e[1].hint = mem.hint
        /\ e[1].done = mem.done
    <3>1. Keeps(e, mem, rows \ {r})
      BY <1>0, <1>1, BookedKeeps, Zenon
    <3> QED BY <3>1, Zenon DEF Keeps
  <2>2. ASSUME NEW g \in Shared
        PROVE  LET n == [g EXCEPT !.stop = TRUE]
               IN  n \in Shared /\ n.phase = g.phase /\ n.cycle = g.cycle /\ n.hint = g.hint
                   /\ n.done = g.done
    BY Zenon DEF Shared
  <2>3. /\ mem' \in Shared /\ mem'.phase = mem.phase /\ mem'.cycle = mem.cycle
        /\ mem'.hint = mem.hint /\ mem'.done = mem.done
    BY <1>3, <2>1, <2>2, Zenon
  <2>4. AtStep'
    BY <1>0, <2>3, Zenon DEF IInv, AtStep
  <2>5. rows' \subseteq Row /\ (Own(mem.phase, mem.cycle, rows) => Own(mem.phase, mem.cycle, rows'))
    BY <1>1, <1>3, <2>1
  <2> QED BY <1>0, <1>3, <2>3, <2>4, <2>5, SamePhase
<1> QED BY <1>2, <1>3 DEF Book, WriteFails

\* Without time left rows are dropped or, as the report, started.
LEMMA OutOfTimeStep ==
    ASSUME IInv, OutOfTime PROVE IInv'
<1>0. /\ mem \in Shared /\ rows \subseteq Row /\ move \in Move /\ mem.cycle \in Nat
      /\ pc = "pump" /\ pc' = "decide" /\ stage' = "post" /\ UNCHANGED <<move, failed>>
  BY Zenon DEF IInv, Typed, Shared, OutOfTime, Pumping, AfterPump, happened
<1>1. \A x \in rows' : x \in rows \/ \E y \in At(rows, "queued") : x = [y EXCEPT !.at = "running"]
  BY Zenon DEF OutOfTime, At
<1>2. \A y \in Row : LET x == [y EXCEPT !.at = "running"]
                     IN  x \in Row /\ x.kind = y.kind /\ x.born = y.born /\ x.cycle = y.cycle
  BY DEF Row
<1>3. rows' \subseteq Row /\ (Own(mem.phase, mem.cycle, rows) => Own(mem.phase, mem.cycle, rows'))
  <2>1. \A x \in rows' : /\ x \in Row
                         /\ x \in rows \/ \E y \in rows : /\ y.at = "queued" /\ x.kind = y.kind
                                                         /\ x.born = y.born /\ x.cycle = y.cycle
    <3> TAKE x \in rows'
    <3>1. CASE x \in rows
      BY <1>0, <3>1
    <3>2. CASE \E y \in At(rows, "queued") : x = [y EXCEPT !.at = "running"]
      <4>1. PICK y \in rows : y.at = "queued" /\ x = [y EXCEPT !.at = "running"]
        BY <3>2, Zenon DEF At
      <4>2. x \in Row /\ x.kind = y.kind /\ x.born = y.born /\ x.cycle = y.cycle
        BY <1>0, <1>2, <4>1, Zenon
      <4> QED BY <4>1, <4>2, Zenon
    <3> QED BY <1>1, <3>1, <3>2, Zenon
  <2> QED BY <2>1 DEF Own
<1>4. mem' = mem \/ mem' = [mem EXCEPT !.sweep = "ok", !.sweepOf = mem.cycle]
  BY Zenon DEF OutOfTime
<1>5. /\ mem' \in Shared /\ mem'.phase = mem.phase /\ mem'.cycle = mem.cycle
      /\ mem'.hint = mem.hint /\ mem'.done = mem.done
  BY <1>0, <1>4, Zenon DEF Shared
<1>6. AtStep' /\ (disk' = disk \/ disk' = mem')
  BY <1>0, <1>5, Zenon DEF IInv, AtStep, OutOfTime
<1> QED BY <1>0, <1>3, <1>5, <1>6, SamePhase

\* Every way into _close_run.
LEMMA CloseRunStep ==
    ASSUME IInv, pc = "check", CloseRun PROVE IInv'
<1> DEFINE m == [mem EXCEPT !.closing = FALSE, !.stop = TRUE]
<1>0. mem \in Shared /\ rows \subseteq Row
  BY DEF IInv, Typed
<1>1. /\ m \in Shared /\ m.phase = mem.phase /\ m.cycle = mem.cycle /\ m.hint = mem.hint
      /\ m.done = mem.done /\ ~m.closing /\ m.stop
  BY <1>0, Zenon DEF Shared
<1>2. /\ mem' = IF m.done THEN m ELSE Closed(m)
      /\ pc' = IF m.done THEN "exit" ELSE "sequence"
      /\ disk' = mem' /\ stage' = "end" /\ move' = Stay /\ UNCHANGED <<rows, failed>>
  BY DEF CloseRun
<1> HIDE DEF m
<1>3. DoneIsClosed(m) /\ HintAtHome(m)
  BY <1>1, Zenon DEF IInv, Told, DoneIsClosed, HintAtHome
<1>4. /\ Closed(m) \in Shared /\ Closed(m).phase = "CLOSE" /\ Closed(m).closing = m.closing
      /\ Closed(m).stop /\ HintAtHome(Closed(m))
  BY <1>1, <1>3, ClosedIs
<1>5. /\ mem' \in Shared /\ mem'.phase = "CLOSE" /\ ~mem'.closing /\ mem'.stop
      /\ HintAtHome(mem') /\ (pc' = "exit" => mem'.done)
  <2>1. CASE m.done
    BY <1>1, <1>2, <1>3, <2>1 DEF DoneIsClosed
  <2>2. CASE ~m.done
    BY <1>1, <1>2, <1>4, <2>2
  <2> QED BY <2>1, <2>2
<1>6. Typed'
  BY <1>0, <1>2, <1>5, MoveFacts DEF Typed
<1>7. AtStep' /\ EndedLegIsClosed'
  BY <1>2, <1>5, Zenon DEF AtStep, EndedLegIsClosed
<1>8. Told'
  BY <1>2, <1>5 DEF Told, DoneIsClosed
<1>9. Kept'
  BY <1>2, <1>5 DEF Kept, Own, WorkPhase
<1> QED BY <1>6, <1>7, <1>8, <1>9 DEF IInv

\* The closing phase is recorded as CLOSE.
LEMMA EnterClosingStep ==
    ASSUME IInv, pc = "check", enter_closing_phase PROVE IInv'
<1> DEFINE m == [mem EXCEPT !.closing = TRUE]
           kept == {r \in rows : r.at = "queued" => r.kind = "report"}
<1>0. mem \in Shared /\ rows \subseteq Row /\ mem.cycle \in Nat /\ move \in Move
  BY Zenon DEF IInv, Typed, Shared
<1>1. /\ m \in Shared /\ m.phase = mem.phase /\ m.cycle = mem.cycle /\ m.hint = mem.hint
      /\ m.done = mem.done
  BY <1>0, Zenon DEF Shared
<1>2. /\ mem' = Closed(m) /\ disk' = mem' /\ rows' = LiveRow(kept, "report", mem)
      /\ pc' = "decide" /\ stage' = "pre" /\ UNCHANGED <<move, failed>>
  BY DEF enter_closing_phase
<1>3. rows' \subseteq Row
  <2>1. kept \subseteq Row /\ "report" \in Kind
    BY <1>0 DEF Kind
  <2> HIDE DEF kept
  <2> QED BY <1>0, <1>2, <2>1, LiveRowOwn, Zenon
<1> HIDE DEF m, kept
<1>4. HintAtHome(m)
  BY <1>1, Zenon DEF IInv, Told, HintAtHome
<1>5. mem' \in Shared /\ mem'.phase = "CLOSE" /\ HintAtHome(mem')
  BY <1>1, <1>2, <1>4, ClosedIs
<1>6. Typed' /\ AtStep' /\ EndedLegIsClosed'
  BY <1>0, <1>2, <1>3, <1>5 DEF Typed, AtStep, EndedLegIsClosed
<1>7. Told'
  BY <1>2, <1>5 DEF Told, DoneIsClosed
<1>8. Kept'
  BY <1>2, <1>5 DEF Kept, Own, WorkPhase
<1> QED BY <1>6, <1>7, <1>8 DEF IInv

\* Reaching the objective touches none of it.
LEMMA NextTickStep ==
    ASSUME IInv, NextTick PROVE IInv'
<1>0. /\ mem \in Shared /\ rows \subseteq Row /\ move \in Move
      /\ pc = "check" /\ pc' = "decide" /\ stage' = "pre"
      /\ UNCHANGED <<disk, rows, move, failed>>
      /\ (mem' = mem \/ mem' = [mem EXCEPT !.target = TRUE])
  BY Zenon DEF IInv, Typed, NextTick
<1>1. /\ mem' \in Shared /\ mem'.phase = mem.phase /\ mem'.cycle = mem.cycle
      /\ mem'.hint = mem.hint /\ mem'.done = mem.done
  BY <1>0, Zenon DEF Shared
<1>2. AtStep'
  BY <1>0, <1>1, Zenon DEF IInv, AtStep
<1> QED BY <1>0, <1>1, <1>2, SamePhase

\* IInv is inductive.
LEMMA StepKeepsInv == IInv /\ [Next]_vars => IInv'
<1> SUFFICES ASSUME IInv, [Next]_vars PROVE IInv'
  OBVIOUS
<1>1. CASE UNCHANGED vars
  BY <1>1, Zenon DEF vars, IInv, Typed, AtStep, Told, Kept, EndedLegIsClosed, DoneIsClosed, HintAtHome, Own
<1>2. CASE Start
  BY <1>2, StartStep
<1>3. CASE Initialise
  BY <1>3, InitialiseStep
<1>4. CASE Advance
  BY <1>4, PlainSteps, DecideStep, DrainStep, EnterPhaseStep, RunSequenceStep DEF Advance
<1>5. CASE React
  BY <1>5, PlainSteps, ProposalSteps, EscalateStep DEF React
<1>6. CASE Pump
  BY <1>6, PlainSteps, BookStep, RowSteps, OutOfTimeStep DEF Pump
<1>7. CASE EndTick
  BY <1>7, CloseRunStep, EnterClosingStep, NextTickStep, CloseRaisesStep
     DEF EndTick, StopChecked, DeadlineChecked, ClosingChecked, BudgetStop
<1>8. CASE \E r \in rows : EndExecution(r) \/ queue_completion(r)
  BY <1>8, RowSteps
<1>9. CASE ClockRuns \/ PhaseBudgetSpent \/ StopRequested
  BY <1>9, PlainSteps
<1>10. CASE Crash
  BY <1>10, CrashStep
<1> QED BY <1>1, <1>2, <1>3, <1>4, <1>5, <1>6, <1>7, <1>8, <1>9, <1>10 DEF Next, Coordinator

\* IInv holds of every reachable state.
LEMMA AlwaysInv == Spec => []IInv
BY InitInv, StepKeepsInv, PTL DEF Spec

-------------------------------------------------------------------------------
(* The theorems *)

\* The variables that IInv says nothing about: the tick's place and its switches, and
\* what is counted.
Placed ==
    /\ flags \in RunFlags
    /\ proposals \subseteq Kind
    /\ pc \in {"down", "init", "decide", "drain", "enter", "react", "pump", "check",
               "sequence", "exit"}
    /\ stage \in {"pre", "post", "end"}
    /\ frozen \in BOOLEAN /\ checked \in BOOLEAN /\ spent \in BOOLEAN /\ asked \in BOOLEAN
    /\ failed \in BOOLEAN
Counted == leg \in 0..MaxLeg /\ clock \in 0..3 /\ events \in 0..MaxEvent

Counts ==
    /\ leg' = leg \/ (leg < MaxLeg /\ leg' = leg + 1)
    /\ clock' = clock \/ clock' \in 0..2 \/ ((clock < 2 \/ clock = 2) /\ clock' = clock + 1)
    /\ events' = events \/ (events < MaxEvent /\ events' = events + 1)

\* A step of the tick loop moves within its places and counts by one.
LEMMA LoopStep == ASSUME Placed, [Next]_vars PROVE Placed' /\ Counts
<1> USE DEF Placed, Counts, world, happened, Event, WriteFails, AfterAdvance, AfterEntry,
        AfterPump, Outside
<1>1. CASE UNCHANGED vars
  BY <1>1, Zenon DEF vars
<1>2. CASE Start
  BY <1>2, Zenon DEF Start
<1>3. CASE Initialise
  <2>1. /\ UNCHANGED <<world, stage, move, frozen, checked, failed>> /\ pc' = "decide"
        /\ spent' \in BOOLEAN /\ (UNCHANGED events \/ Event)
    BY <1>3, Zenon DEF Initialise
  <2> QED BY <2>1, Zenon
<1>4. CASE SkipAdvance \/ AdvanceClosing \/ EnterClose \/ RunSequence \/ CutShort
  BY <1>4, Zenon DEF SkipAdvance, AdvanceClosing, EnterClose, RunSequence, CutShort
<1>5. CASE Decide
  BY <1>5 DEF Decide, admission_frozen
<1>6. CASE Drain
  BY <1>6, ZenonT(30) DEF Drain
<1>7. CASE EnterPhase
  <2>1. /\ UNCHANGED <<world, frozen, checked, spent>> /\ AfterEntry
        /\ UNCHANGED happened \/ WriteFails
    BY <1>7, Zenon DEF EnterPhase
  <2> QED BY <2>1, Zenon
<1>8. CASE React
  BY <1>8 DEF React, ReactIdle, Propose, Verdict, Escalate
<1>9. CASE \E r \in rows : Book(r)
  <2>1. /\ UNCHANGED <<world, pc, stage, frozen, checked, spent>>
        /\ (UNCHANGED failed /\ (UNCHANGED events \/ Event)) \/ WriteFails
    BY <1>9, Zenon DEF Book
  <2>2. UNCHANGED <<flags, proposals, leg, clock, asked, pc, stage, frozen, checked, spent>>
    BY <2>1, Zenon
  <2>3. events' = events \/ (events < MaxEvent /\ events' = events + 1)
    BY <2>1, Zenon
  <2>4. failed' \in BOOLEAN
    BY <2>1, Zenon
  <2> QED BY <2>2, <2>3, <2>4, Zenon
<1>10. CASE (\E r \in rows : Spawn(r)) \/ OutOfTime \/ PumpNothing
  <2>1. UNCHANGED <<world, frozen, checked, spent, happened>> /\ AfterPump
    BY <1>10, Zenon DEF Spawn, OutOfTime, PumpNothing
  <2> QED BY <2>1
<1>11. CASE EndTick
  <2>1. CASE CloseRun /\ (UNCHANGED events \/ Event)
    <3>1. UNCHANGED <<world, frozen, checked, spent, failed>> /\ pc' \in {"exit", "sequence"}
          /\ stage' = "end"
      BY <2>1, Zenon DEF CloseRun
    <3> QED BY <2>1, <3>1
  <2>2. CASE enter_closing_phase /\ UNCHANGED events
    BY <2>2, Zenon DEF enter_closing_phase
  <2>3. CASE NextTick
    BY <2>3, Zenon DEF NextTick
  <2>4. CASE CloseRaises
    BY <2>4, Zenon DEF CloseRaises, Gone
  <2> QED BY <1>11, <2>1, <2>2, <2>3, <2>4, Zenon
          DEF EndTick, StopChecked, DeadlineChecked, ClosingChecked, BudgetStop
<1>12. CASE \E r \in rows : EndExecution(r) \/ queue_completion(r)
  BY <1>12, Zenon DEF EndExecution, queue_completion
<1>13. CASE ClockRuns \/ PhaseBudgetSpent \/ StopRequested
  BY <1>13, Zenon DEF ClockRuns, PhaseBudgetSpent, StopRequested
<1>14. CASE Crash
  BY <1>14, Zenon DEF Crash, Gone
<1> QED BY <1>1, <1>2, <1>3, <1>4, <1>5, <1>6, <1>7, <1>8, <1>9, <1>10, <1>11, <1>12, <1>13, <1>14, Zenon
        DEF Next, Coordinator, Advance, Pump

\* The shared state, the rows and the tick keep their shape (SharedState's phase fields,
\* the task table, _tick_once).
THEOREM TypeCorrect == Spec => []TypeOK
<1>1. Init => Placed /\ Counted
  <2>1. Init => leg = 0 /\ clock = 0 /\ events = 0
    BY Zenon DEF Init
  <2>2. Init => Placed
    BY Zenon DEF Init, Placed
  <2> QED BY <2>1, <2>2, BoundsAreNat DEF Counted
<1>2. Placed /\ Counted /\ [Next]_vars => (Placed /\ Counted)'
  <2>1. Counted /\ Counts => Counted'
    BY BoundsAreNat DEF Counted, Counts
  <2> QED BY <2>1, LoopStep
<1>3. IInv /\ Placed /\ Counted => TypeOK
  BY DEF IInv, Typed, Placed, Counted, TypeOK
<1> QED BY <1>1, <1>2, <1>3, AlwaysInv, PTL DEF Spec

\* Whatever the toggles, and however often the session stops, fails to write, crashes and
\* is resumed, a process that leaves its loop has saved a session in CLOSE with the close
\* sequence run (_close_run, on_enter_close, enter_closing_phase).
THEOREM LegsEndClosed == Spec => []EndedLegIsClosed
<1>1. IInv => EndedLegIsClosed
  BY DEF IInv
<1> QED BY <1>1, AlwaysInv, PTL

\* A transition that a hint decides leaves the phase and the cycle that the hint was given
\* for (settle_escalate_hint on every way out of a phase).
THEOREM HintsStayHome == Spec => []HintSpeaksForItsPhase
<1>1. IInv => HintSpeaksForItsPhase
  BY Zenon DEF IInv, AtStep, Told, HintAtHome, HintSpeaksForItsPhase
<1> QED BY <1>1, AlwaysInv, PTL

\* As long as no write has failed, what an earlier phase or cycle created runs in a phase
\* past PRELUDE only when that phase admits it (_drain_for_transition, cancel_queued).
THEOREM PhasesTakeOverTheirOwn == Spec => []CarriedWorkIsAdmitted
<1>1. IInv => CarriedWorkIsAdmitted
  <2> SUFFICES ASSUME IInv, ~failed, mem.phase \in WorkPhase, NEW r \in At(rows, "running"),
                      r.kind \notin PHASE_ALLOWED_ACTIONS[mem.phase]
               PROVE  <<r.born, r.cycle>> = <<mem.phase, mem.cycle>>
    BY Zenon DEF CarriedWorkIsAdmitted, WorkPhase
  <2>1. r \in rows /\ r.at = "running"
    BY DEF At
  <2> QED BY <2>1, Zenon DEF IInv, Kept, Own
<1> QED BY <1>1, AlwaysInv, PTL
=============================================================================
