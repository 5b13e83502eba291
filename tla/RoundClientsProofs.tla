------------------------- MODULE RoundClientsProofs -------------------------
(***************************************************************************)
(* The round store keeps its promises for any number of rounds, tasks,     *)
(* callers and handoffs.                                                   *)
(***************************************************************************)
EXTENDS RoundClients, FiniteSetTheorems, SequenceTheorems, TLAPS

-----------------------------------------------------------------------------
(* What a step does to the tables, round by round. *)

Becomes(r, state, holder, fence) ==
    /\ rounds'[r] \in Round
    /\ rounds'[r].state = state /\ rounds'[r].holder = holder /\ rounds'[r].fence = fence

OpensFor(r, h) ==
    /\ OpenRounds = {} /\ rounds[r].state = "absent"
    /\ Becomes(r, "open", h, 1)
    /\ order' = order

HandsOver(s, h) ==
    /\ CasHolds(s)
    /\ Becomes(s.id, "open", h, s.fence + 1)
    /\ order' = order

Settles(s) ==
    /\ CasHolds(s)
    /\ Becomes(s.id, "settled", s.holder, s.fence)
    /\ order' = Append(order, s.id)

Elsewhere(r) ==
    /\ \A q \in RoundId \ {r} : rounds'[q] = rounds[q]
    /\ rounds' = [q \in RoundId |-> rounds'[q]]
    /\ roundLane' = {row \in roundLane : row.round # r}
                    \cup (IF rounds'[r].state = "open"
                          THEN {[round |-> r, holder |-> rounds'[r].holder]} ELSE {})

Fresh(c) == \E r \in OpenRounds : seen' = [seen EXCEPT ![c] = {Snap(r)}]

Forgets(c) == seen' = [seen EXCEPT ![c] = {}]

Same == rounds' = rounds /\ roundLane' = roundLane /\ order' = order

\* The row open and handoff write is a round row, and it is open.
LEMMA OpenRow ==
    ASSUME NEW h \in TaskId, NEW f \in Nat
    PROVE  LET R == [state |-> "open", outcome |-> "", holder |-> h, fence |-> f] IN
           R \in Round /\ R.state = "open" /\ R.holder = h /\ R.fence = f
BY Zenon DEF Round

\* Every step of a caller is a read, a refusal, or one of the three writes, and
\* a write touches one round and its own lane row.
LEMMA Steps ==
    ASSUME TypeOK, NEW c \in Client, Read(c) \/ OpenBy(c) \/ HandoffBy(c) \/ SettleBy(c)
    PROVE  \/ Same /\ (Fresh(c) \/ Forgets(c))
           \/ \E r \in RoundId, h \in TaskId : OpensFor(r, h) /\ Elsewhere(r) /\ seen' = seen
           \/ \E s \in seen[c], h \in TaskId :
                 HandsOver(s, h) /\ Elsewhere(s.id) /\ Forgets(c)
           \/ \E s \in seen[c] :
                 Settles(s) /\ Elsewhere(s.id) /\ Forgets(c)
<1>0. /\ rounds \in [RoundId -> Round]
      /\ \A s \in seen[c] : s.id \in RoundId /\ s.holder \in TaskId /\ s.fence \in Nat
  BY DEF TypeOK, StoreTypeOK, Snapshot
<1>1. CASE Read(c)
  BY <1>1, Zenon DEF Read, Fresh, Same, storeVars
<1>2. CASE OpenBy(c)
  <2>1. PICK r \in RoundId, h \in TaskId : Open(r, h) /\ seen' = seen
    BY <1>2, Zenon DEF OpenBy
  <2>2. OpensFor(r, h) /\ Elsewhere(r)
    BY <2>1, <1>0, Zenon DEF Open, MayOpen, Write, PlaceLane, OpensFor, Becomes, Elsewhere, Round
  <2> QED BY <2>1, <2>2, Zenon
<1>3. CASE HandoffBy(c)
  <2>1. PICK s \in seen[c], h \in TaskId :
           Forgets(c) /\ (Handoff(s, h) \/ Refused(s))
    BY <1>3, Zenon DEF HandoffBy, Use, Forgets
  <2>2. CASE Refused(s)
    BY <2>1, <2>2, Zenon DEF Refused, Same, storeVars
  <2>3. CASE Handoff(s, h)
    <3>1. HandsOver(s, h)
      <4>1. PICK f \in Nat : f = s.fence + 1
        BY <1>0
      <4> DEFINE R == [state |-> "open", outcome |-> "", holder |-> h, fence |-> f]
      <4>2. rounds'[s.id] = R
        BY <1>0, <2>3, <4>1, Zenon DEF Handoff, Write
      <4>3. R \in Round /\ R.state = "open" /\ R.holder = h /\ R.fence = f
        BY OpenRow, Zenon
      <4>4. Becomes(s.id, "open", h, f)
        <5> HIDE DEF R
        <5> QED BY <4>2, <4>3, Zenon DEF Becomes
      <4> QED BY <2>3, <4>1, <4>4, Zenon DEF Handoff, HandsOver
    <3>2. Elsewhere(s.id)
      BY <1>0, <2>3, Zenon DEF Handoff, Write, PlaceLane, Elsewhere
    <3> QED BY <2>1, <3>1, <3>2, Zenon
  <2> QED BY <2>1, <2>2, <2>3, Zenon
<1>4. CASE SettleBy(c)
  <2>1. PICK s \in seen[c], outcome \in Outcome :
           Forgets(c) /\ (Settle(s, outcome) \/ Refused(s))
    BY <1>4, Zenon DEF SettleBy, Use, Forgets
  <2>2. CASE Refused(s)
    BY <2>1, <2>2, Zenon DEF Refused, Same, storeVars
  <2>3. CASE Settle(s, outcome)
    <3>1. Settles(s)
      BY <1>0, <2>3, Zenon DEF Settle, Write, Settles, Becomes, Round
    <3>2. Elsewhere(s.id)
      BY <1>0, <2>3, Zenon DEF Settle, Write, PlaceLane, Elsewhere
    <3> QED BY <2>1, <3>1, <3>2, Zenon
  <2> QED BY <2>1, <2>2, <2>3, Zenon
<1> QED BY <1>1, <1>2, <1>3, <1>4, Zenon
-----------------------------------------------------------------------------
(* The inductive invariant. *)

OpenHasHolder == \A r \in RoundId : rounds[r].state = "open" => rounds[r].holder \in TaskId

OneSnapshot == \A c \in Client : \A s, t \in seen[c] : s = t

\* A snapshot is of a round that was opened, is no newer than the round, and
\* names its holder unless the fence has moved on since.
SnapshotsTrail ==
    \A c \in Client : \A s \in seen[c] :
        /\ rounds[s.id].state # "absent"
        /\ s.fence <= rounds[s.id].fence
        /\ s.fence = rounds[s.id].fence => s.holder = rounds[s.id].holder

\* The settle order lists the settled rounds, each of them once.
OrderListsSettled ==
    /\ \A r \in RoundId : rounds[r].state = "settled" <=> \E i \in DOMAIN order : order[i] = r
    /\ \A i, j \in DOMAIN order : order[i] = order[j] => i = j

IInv ==
    /\ TypeOK /\ OneOwnerOneLane /\ FenceNamesHolder
    /\ OpenHasHolder /\ OneSnapshot /\ SnapshotsTrail /\ OrderListsSettled

\* The empty store satisfies the inductive invariant.
LEMMA InitIInv == ASSUME Init PROVE IInv
<1>1. /\ rounds = [r \in RoundId |-> Absent] /\ roundLane = {} /\ order = <<>>
      /\ seen = [c \in Client |-> {}]
  BY Zenon DEF Init, StoreInit
<1>2. Absent \in Round /\ Absent.state = "absent"
  BY Zenon DEF Absent, Round
<1>3. TypeOK
  BY <1>1, <1>2 DEF TypeOK, StoreTypeOK
<1>4. OpenRounds = {}
  BY <1>1, <1>2, Zenon DEF OpenRounds
<1>5. OneOwnerOneLane
  BY <1>1, <1>4, Zenon DEF OneOwnerOneLane
<1>6. FenceNamesHolder /\ OneSnapshot /\ SnapshotsTrail
  BY <1>1, Zenon DEF FenceNamesHolder, OneSnapshot, SnapshotsTrail
<1>7. OpenHasHolder /\ OrderListsSettled
  BY <1>1, <1>2 DEF OpenHasHolder, OrderListsSettled
<1> QED BY <1>3, <1>5, <1>6, <1>7, Zenon DEF IInv

\* The snapshots a caller holds after a step: the ones of before, none, or one
\* just read.
LEMMA SeenAfter ==
    ASSUME TypeOK, OpenHasHolder, NEW c \in Client, Fresh(c) \/ Forgets(c) \/ seen' = seen
    PROVE  /\ seen' \in [Client -> SUBSET Snapshot]
           /\ \A d \in Client : seen'[d] = seen[d] \/ seen'[d] = {}
                                \/ (Fresh(c) /\ \E r \in OpenRounds : seen'[d] = {Snap(r)})
<1>0. seen \in [Client -> SUBSET Snapshot] /\ rounds \in [RoundId -> Round]
  BY Zenon DEF TypeOK, StoreTypeOK
<1>1. CASE Fresh(c)
  <2>1. PICK r \in OpenRounds : seen' = [seen EXCEPT ![c] = {Snap(r)}]
    BY <1>1, Zenon DEF Fresh
  <2>2. r \in RoundId /\ rounds[r].holder \in TaskId /\ rounds[r].fence \in Nat
    BY <1>0, <2>1, Zenon DEF OpenRounds, OpenHasHolder, Round
  <2>3. Snap(r) \in Snapshot
    BY <2>2, Zenon DEF Snap, Snapshot
  <2> QED BY <1>0, <1>1, <2>1, <2>3, Zenon
<1>2. CASE Forgets(c)
  BY <1>0, <1>2, Zenon DEF Forgets
<1>3. CASE seen' = seen
  BY <1>0, <1>3, Zenon
<1> QED BY <1>1, <1>2, <1>3, Zenon

\* A write of round r leaves it with a row of its own in the lane and the other
\* rounds as they were; with at most r open afterwards, the lane names it.
LEMMA WriteKeepsStore ==
    ASSUME TypeOK, OneOwnerOneLane, OpenHasHolder, NEW r \in RoundId, Elsewhere(r),
           rounds'[r] \in Round, rounds'[r].state \in {"open", "settled"},
           rounds'[r].holder \in TaskId, OpenRounds \subseteq {r}
    PROVE  /\ rounds' \in [RoundId -> Round]
           /\ roundLane' \subseteq [round : RoundId, holder : TaskId]
           /\ OneOwnerOneLane' /\ OpenHasHolder'
<1>0. rounds \in [RoundId -> Round] /\ roundLane \subseteq [round : RoundId, holder : TaskId]
  BY Zenon DEF TypeOK, StoreTypeOK
<1>1. rounds' \in [RoundId -> Round]
  <2>1. \A q \in RoundId : rounds'[q] \in Round
    BY <1>0, Zenon DEF Elsewhere
  <2>2. rounds' = [q \in RoundId |-> rounds'[q]]
    BY Zenon DEF Elsewhere
  <2> QED BY <2>1, <2>2, Zenon
<1>2. \A row \in roundLane : row.round = r
  BY DEF OneOwnerOneLane
<1>3. roundLane' = IF rounds'[r].state = "open"
                   THEN {[round |-> r, holder |-> rounds'[r].holder]} ELSE {}
  BY <1>2, Zenon DEF Elsewhere
<1>4. OpenRounds' = IF rounds'[r].state = "open" THEN {r} ELSE {}
  BY Zenon DEF OpenRounds, Elsewhere
<1>5. OneOwnerOneLane'
  BY <1>3, <1>4, Zenon DEF OneOwnerOneLane
<1>6. OpenHasHolder'
  BY Zenon DEF OpenHasHolder, Elsewhere
<1> QED BY <1>1, <1>3, <1>5, <1>6

\* One step of one caller preserves the invariant.
LEMMA StepIInv ==
    ASSUME IInv, NEW c \in Client, Read(c) \/ OpenBy(c) \/ HandoffBy(c) \/ SettleBy(c)
    PROVE  IInv'
<1> USE DEF IInv
<1>0. /\ rounds \in [RoundId -> Round] /\ order \in Seq(RoundId)
      /\ seen \in [Client -> SUBSET Snapshot]
  BY Zenon DEF TypeOK, StoreTypeOK
<1>1. ASSUME Same, Fresh(c) \/ Forgets(c) PROVE IInv'
  <2>1. /\ seen' \in [Client -> SUBSET Snapshot]
        /\ \A d \in Client : seen'[d] = seen[d] \/ seen'[d] = {}
                             \/ \E r \in OpenRounds : seen'[d] = {Snap(r)}
    BY <1>1, SeenAfter, Zenon
  <2>2. TypeOK' /\ OneOwnerOneLane' /\ OpenHasHolder' /\ OrderListsSettled'
    BY <1>1, <2>1 DEF Same, TypeOK, StoreTypeOK, OneOwnerOneLane, OpenRounds, OpenHasHolder,
                      OrderListsSettled
  <2>3. OneSnapshot'
    BY <2>1, Zenon DEF OneSnapshot
  <2>4. \A r \in OpenRounds : /\ Snap(r).id = r /\ Snap(r).holder = rounds[r].holder
                              /\ Snap(r).fence = rounds[r].fence /\ rounds[r].state # "absent"
                              /\ rounds[r].fence \in Nat
    BY <1>0, Zenon DEF Snap, OpenRounds, Round
  <2>5. SnapshotsTrail'
    BY <1>1, <2>1, <2>4 DEF SnapshotsTrail, Same
  <2>6. FenceNamesHolder'
    BY <2>1, <2>4 DEF FenceNamesHolder, SnapshotsTrail
  <2> QED BY <2>2, <2>3, <2>5, <2>6, Zenon
<1>2. ASSUME NEW r \in RoundId, Elsewhere(r), rounds'[r] \in Round,
             rounds'[r].holder \in TaskId, Forgets(c) \/ seen' = seen,
             OpenRounds \subseteq {r},
             \/ rounds'[r].state = "open" /\ rounds[r].state # "settled" /\ order' = order
             \/ rounds'[r].state = "settled" /\ rounds[r].state = "open"
                /\ order' = Append(order, r),
             \/ rounds[r].state = "absent"
             \/ rounds'[r].fence = rounds[r].fence /\ rounds'[r].holder = rounds[r].holder
             \/ rounds'[r].fence = rounds[r].fence + 1
      PROVE  IInv'
  <2>1. /\ rounds' \in [RoundId -> Round]
        /\ roundLane' \subseteq [round : RoundId, holder : TaskId]
        /\ OneOwnerOneLane' /\ OpenHasHolder'
    BY <1>2, WriteKeepsStore, Zenon
  <2>2. /\ seen' \in [Client -> SUBSET Snapshot]
        /\ \A d \in Client : seen'[d] = seen[d] \/ seen'[d] = {}
    BY <1>0, <1>2, Zenon DEF Forgets
  <2>3. order' \in Seq(RoundId)
    BY <1>0, <1>2
  <2>4. TypeOK'
    BY <2>1, <2>2, <2>3, Zenon DEF TypeOK, StoreTypeOK
  <2>5. OneSnapshot' /\ FenceNamesHolder'
    BY <2>2 DEF OneSnapshot, FenceNamesHolder
  <2>6. SnapshotsTrail'
    <3> SUFFICES ASSUME NEW d \in Client, NEW s \in seen'[d]
                 PROVE  /\ rounds'[s.id].state # "absent"
                        /\ s.fence <= rounds'[s.id].fence
                        /\ s.fence = rounds'[s.id].fence => s.holder = rounds'[s.id].holder
      BY Zenon DEF SnapshotsTrail
    <3>1. s \in seen[d] /\ s.id \in RoundId /\ s.fence \in Nat
      BY <1>0, <2>2 DEF Snapshot
    <3>2. /\ rounds[s.id].state # "absent" /\ s.fence <= rounds[s.id].fence
          /\ s.fence = rounds[s.id].fence => s.holder = rounds[s.id].holder
      BY <3>1, Zenon DEF SnapshotsTrail
    <3>3. CASE s.id # r
      BY <1>2, <3>1, <3>2, <3>3, Zenon DEF Elsewhere
    <3>4. CASE s.id = r
      <4>1. rounds[r].fence \in Nat
        BY <1>0, Zenon DEF Round
      <4> QED BY <1>2, <3>1, <3>2, <3>4, <4>1
    <3> QED BY <3>3, <3>4, Zenon
  <2>7. OrderListsSettled'
    <3>1. CASE order' = order /\ rounds'[r].state = "open" /\ rounds[r].state # "settled"
      BY <1>2, <3>1 DEF OrderListsSettled, Elsewhere
    <3>2. CASE order' = Append(order, r) /\ rounds'[r].state = "settled"
               /\ rounds[r].state = "open"
      <4>1. /\ DOMAIN order' = DOMAIN order \cup {Len(order) + 1}
            /\ order'[Len(order) + 1] = r /\ Len(order) + 1 \notin DOMAIN order
            /\ \A i \in DOMAIN order : order'[i] = order[i]
        BY <1>0, <3>2
      <4>2. \A i \in DOMAIN order : order[i] # r
        BY <3>2, Zenon DEF OrderListsSettled
      <4>3. \A q \in RoundId : rounds'[q].state = "settled"
                              <=> \E i \in DOMAIN order' : order'[i] = q
        BY <1>2, <3>2, <4>1 DEF OrderListsSettled, Elsewhere
      <4>4. \A i, j \in DOMAIN order' : order'[i] = order'[j] => i = j
        BY <4>1, <4>2, Zenon DEF OrderListsSettled
      <4> QED BY <4>3, <4>4, Zenon DEF OrderListsSettled
    <3> QED BY <1>2, <3>1, <3>2, Zenon
  <2> QED BY <2>1, <2>4, <2>5, <2>6, <2>7, Zenon
<1>3. ASSUME NEW r \in RoundId, NEW h \in TaskId, OpensFor(r, h), Elsewhere(r), seen' = seen
      PROVE  IInv'
  <2>1. /\ rounds'[r] \in Round /\ rounds'[r].state = "open" /\ rounds'[r].holder = h
        /\ rounds[r].state = "absent" /\ OpenRounds = {} /\ order' = order
    BY <1>3, Zenon DEF OpensFor, Becomes
  <2> QED BY <1>2, <1>3, <2>1, Zenon
<1>4. ASSUME NEW s \in seen[c], CasHolds(s)
      PROVE  /\ s.id \in RoundId /\ s.holder \in TaskId /\ OpenRounds \subseteq {s.id}
             /\ rounds[s.id].state = "open" /\ rounds[s.id].holder = s.holder
             /\ rounds[s.id].fence = s.fence
  <2>1. s.id \in RoundId /\ s.holder \in TaskId
    BY <1>0 DEF Snapshot
  <2>2. s.id \in OpenRounds
    BY <1>4, <2>1, Zenon DEF CasHolds, OpenRounds
  <2> QED BY <1>4, <2>1, <2>2, Zenon DEF OneOwnerOneLane, CasHolds
<1>5. ASSUME NEW s \in seen[c], NEW h \in TaskId, HandsOver(s, h), Elsewhere(s.id), Forgets(c)
      PROVE  IInv'
  <2>1. /\ rounds'[s.id] \in Round /\ rounds'[s.id].state = "open"
        /\ rounds'[s.id].holder = h /\ rounds'[s.id].fence = s.fence + 1 /\ order' = order
        /\ CasHolds(s)
    BY <1>5, Zenon DEF HandsOver, Becomes
  <2> QED BY <1>2, <1>4, <1>5, <2>1, Zenon
<1>6. ASSUME NEW s \in seen[c], Settles(s), Elsewhere(s.id), Forgets(c)
      PROVE  IInv'
  <2>1. /\ rounds'[s.id] \in Round /\ rounds'[s.id].state = "settled"
        /\ rounds'[s.id].holder = s.holder /\ rounds'[s.id].fence = s.fence
        /\ order' = Append(order, s.id) /\ CasHolds(s)
    BY <1>6, Zenon DEF Settles, Becomes
  <2> QED BY <1>2, <1>4, <1>6, <2>1, Zenon
<1> QED
  BY <1>1, <1>3, <1>5, <1>6, Steps, Zenon

-----------------------------------------------------------------------------
(* The theorems. *)

\* Every step, a refused swap and a stutter included, keeps the inductive invariant.
LEMMA Inductive == ASSUME IInv, [Next]_vars PROVE IInv'
<1>1. CASE Next
  BY <1>1, StepIInv, Zenon DEF Next
<1>2. CASE UNCHANGED vars
  BY <1>2 DEF vars, IInv, TypeOK, StoreTypeOK, OneOwnerOneLane, FenceNamesHolder, OpenRounds,
              OpenHasHolder, OneSnapshot, SnapshotsTrail, OrderListsSettled
<1> QED BY <1>1, <1>2, Zenon

\* The invariant holds of every reachable state, for any callers and rounds.
THEOREM Invariant == Spec => []IInv
BY InitIInv, Inductive, PTL DEF Spec

\* One round at a time owns the machine and the lane row follows its holder:
\* RoundStore.open, handoff and settle never leave two owners or a stray row.
THEOREM OneOwner == Spec => []OneOwnerOneLane
<1>1. IInv => OneOwnerOneLane
  BY Zenon DEF IInv
<1> QED BY <1>1, Invariant, PTL

\* The fence handoff advances names one holder for good.
THEOREM FencesName == Spec => []FenceNamesHolder
<1>1. IInv => FenceNamesHolder
  BY Zenon DEF IInv
<1> QED BY <1>1, Invariant, PTL

\* _cas_reason refuses every caller the round has moved on from.
THEOREM StaleCallersRefused == Spec => StaleCallerChangesNothing
<1>1. ASSUME IInv, Next, NEW d \in Client, NEW s \in seen[d], seen'[d] = {},
             rounds[s.id].fence # s.fence
      PROVE  UNCHANGED storeVars
  <2>1. PICK c \in Client : Read(c) \/ OpenBy(c) \/ HandoffBy(c) \/ SettleBy(c)
    BY <1>1, Zenon DEF Next
  <2>2. TypeOK /\ seen \in [Client -> SUBSET Snapshot] /\ OneSnapshot
    BY <1>1, Zenon DEF IInv, TypeOK
  <2>3. CASE Same
    BY <2>3, Zenon DEF Same, storeVars
  <2>4. CASE seen' = seen
    BY <1>1, <2>4, Zenon
  <2>5. ASSUME NEW t \in seen[c], CasHolds(t), Forgets(c) PROVE FALSE
    <3>1. d = c
      BY <1>1, <2>2, <2>5, Zenon DEF Forgets
    <3>2. t = s
      BY <1>1, <2>2, <2>5, <3>1, Zenon DEF OneSnapshot
    <3> QED BY <1>1, <2>5, <3>2, Zenon DEF CasHolds
  <2> QED BY <2>1, <2>2, <2>3, <2>4, <2>5, Steps, Zenon DEF HandsOver, Settles
<1>2. IInv /\ [Next]_vars => [\A c \in Client : \A s \in seen[c] :
           seen'[c] = {} /\ rounds[s.id].fence # s.fence => UNCHANGED storeVars]_vars
  BY <1>1, Zenon
<1> QED BY <1>2, Invariant, PTL DEF Spec, StaleCallerChangesNothing

\* RoundStore.settle is for good: no open, handoff or settle touches the row
\* again, and the stall count reads it once.
THEOREM SettledRoundsAreFinal == Spec => SettledIsFinal
<1>1. ASSUME IInv, IInv', Next, NEW r \in RoundId, rounds[r].state = "settled"
      PROVE  /\ rounds'[r] = rounds[r]
             /\ Cardinality({i \in DOMAIN order' : order'[i] = r}) = 1
  <2>1. PICK c \in Client : Read(c) \/ OpenBy(c) \/ HandoffBy(c) \/ SettleBy(c)
    BY <1>1, Zenon DEF Next
  <2>2. TypeOK
    BY <1>1, Zenon DEF IInv
  <2>3. Same => rounds'[r] = rounds[r]
    BY Zenon DEF Same
  <2>4. ASSUME NEW q \in RoundId, rounds[q].state # "settled", Elsewhere(q)
        PROVE  rounds'[r] = rounds[r]
    BY <1>1, <2>4, Zenon DEF Elsewhere
  <2>5. ASSUME NEW s \in seen[c], CasHolds(s)
        PROVE  s.id \in RoundId /\ rounds[s.id].state # "settled"
    BY <2>2, <2>5 DEF TypeOK, Snapshot, CasHolds
  <2>6. rounds'[r] = rounds[r]
    BY <2>1, <2>2, <2>3, <2>4, <2>5, Steps, Zenon DEF OpensFor, HandsOver, Settles
  <2>7. PICK i \in DOMAIN order' : order'[i] = r
    BY <1>1, <2>6, Zenon DEF IInv, OrderListsSettled
  <2>8. {j \in DOMAIN order' : order'[j] = r} = {i}
    BY <1>1, <2>7 DEF IInv, OrderListsSettled
  <2> QED BY <2>6, <2>8, FS_Singleton, Zenon
<1>2. IInv /\ IInv' /\ [Next]_vars => [\A r \in RoundId : rounds[r].state = "settled" =>
           /\ rounds'[r] = rounds[r]
           /\ Cardinality({i \in DOMAIN order' : order'[i] = r}) = 1]_vars
  BY <1>1, Zenon
<1> QED BY <1>2, Invariant, PTL DEF Spec, SettledIsFinal

\* A snapshot that a swap goes through with is the round as it stands.
LEMMA CurrentSnapshot ==
    ASSUME NEW s \in Snapshot, CasHolds(s)
    PROVE  s.id \in RoundId /\ s = Snap(s.id)
BY DEF Snapshot, CasHolds, Snap

\* However old the snapshots are that callers act on, the store only ever does what
\* it would do for callers that read and write in one transaction.
THEOREM ClientsImplementStore == Spec => StoreSpec
<1>1. Init => StoreInit
  BY DEF Init
<1>2. IInv /\ [Next]_vars => [StoreNext]_storeVars
  <2> SUFFICES ASSUME IInv, [Next]_vars PROVE StoreNext \/ UNCHANGED storeVars
    BY Zenon
  <2>1. \A c \in Client : \A s \in seen[c] : s \in Snapshot
    BY DEF IInv, TypeOK
  <2>2. ASSUME NEW c \in Client, Read(c) PROVE UNCHANGED storeVars
    BY <2>2, Zenon DEF Read
  <2>3. ASSUME NEW c \in Client, OpenBy(c) PROVE StoreNext
    BY <2>3, Zenon DEF OpenBy, StoreNext
  <2>4. ASSUME NEW c \in Client, HandoffBy(c) PROVE StoreNext \/ UNCHANGED storeVars
    <3>1. PICK s \in seen[c], h \in TaskId : Handoff(s, h) \/ Refused(s)
      BY <2>4, Zenon DEF HandoffBy
    <3>2. CASE Handoff(s, h)
      <4>1. s.id \in RoundId /\ s = Snap(s.id)
        BY <2>1, <3>2, CurrentSnapshot, Zenon DEF Handoff
      <4> QED BY <3>2, <4>1, Zenon DEF StoreNext
    <3> QED BY <3>1, <3>2, Zenon DEF Refused
  <2>5. ASSUME NEW c \in Client, SettleBy(c) PROVE StoreNext \/ UNCHANGED storeVars
    <3>1. PICK s \in seen[c], outcome \in Outcome : Settle(s, outcome) \/ Refused(s)
      BY <2>5, Zenon DEF SettleBy
    <3>2. CASE Settle(s, outcome)
      <4>1. s.id \in RoundId /\ s = Snap(s.id)
        BY <2>1, <3>2, CurrentSnapshot, Zenon DEF Settle
      <4> QED BY <3>2, <4>1, Zenon DEF StoreNext
    <3> QED BY <3>1, <3>2, Zenon DEF Refused
  <2>6. CASE UNCHANGED vars
    BY <2>6, Zenon DEF vars, storeVars
  <2> QED BY <2>2, <2>3, <2>4, <2>5, <2>6, Zenon DEF Next
<1> QED BY Invariant, <1>1, <1>2, PTL DEF Spec, StoreSpec
=============================================================================
