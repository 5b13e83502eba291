----------------------------- MODULE RoundStore -----------------------------
(***************************************************************************)
(* The durable bring-up round (state/round_store.py): the mutex one        *)
(* enablement round or one revalidation holds on the machine.  Every       *)
(* operation is one BEGIN IMMEDIATE transaction that writes the round row  *)
(* and the lane row it stands for.  Lease times are left out: a round ends *)
(* only by an explicit settle, so no time on the row decides anything, and *)
(* a renewal, which moves only times, is a stuttering step.  The outbox of *)
(* attempts (round_events) is an audit log nothing reads back.             *)
(***************************************************************************)
EXTENDS Integers, Sequences, FiniteSets, FiniteSetsExt

CONSTANTS
    RoundId,    \* identities a round may be opened under
    TaskId,     \* tasks that may hold one
    NoTask      \* the holder of a round that was never opened

ASSUME NoTaskIsNone == NoTask \notin TaskId

VARIABLES
    rounds,     \* the bringup_rounds table
    roundLane,  \* the rows of the bringup_round lane in the lease table
    order       \* the settled rounds, oldest settle first (settled_unix)

storeVars == <<rounds, roundLane, order>>

Outcome == {"booted", "advanced", "failed", "abandoned", "expired_reaped"}

Absent == [state |-> "absent", outcome |-> "", holder |-> NoTask, fence |-> 0]

Round == [state : {"absent", "open", "settled"}, outcome : Outcome \cup {""},
          holder : TaskId \cup {NoTask}, fence : Nat]

\* A round as a caller last read it; what a compare-and-swap is given.
Snapshot == [id : RoundId, holder : TaskId, fence : Nat]

StoreInit ==
    /\ rounds = [r \in RoundId |-> Absent]
    /\ roundLane = {}
    /\ order = <<>>

StoreTypeOK ==
    /\ rounds \in [RoundId -> Round]
    /\ roundLane \subseteq [round : RoundId, holder : TaskId]
    /\ order \in Seq(RoundId)

-----------------------------------------------------------------------------
OpenRounds == {r \in RoundId : rounds[r].state = "open"}

Snap(r) == [id |-> r, holder |-> rounds[r].holder, fence |-> rounds[r].fence]

LanePlacedOnce(r, after) ==
    IF after.state = "open" /\ \A row \in roundLane : row.round # r
    THEN roundLane \cup {[round |-> r, holder |-> after.holder]}
    ELSE IF after.state = "open" THEN roundLane ELSE {row \in roundLane : row.round # r}

\* _place_lane: the round's lane row is its holder's while open, gone once settled.
PlaceLane(r, after) ==
    {row \in roundLane : row.round # r}
        \cup (IF after.state = "open" THEN {[round |-> r, holder |-> after.holder]} ELSE {})

Write(r, after) ==
    /\ rounds' = [rounds EXCEPT ![r] = after]
    /\ roundLane' = PlaceLane(r, after)

\* The insert's two NOT EXISTS conditions: no open round, and no round of this id.
MayOpen(r) == OpenRounds = {} /\ rounds[r].state = "absent"

Open(r, h) ==
    /\ MayOpen(r)
    /\ Write(r, [state |-> "open", outcome |-> "", holder |-> h, fence |-> 1])
    /\ UNCHANGED order

HolderMatches(s) == rounds[s.id].state = "open" /\ rounds[s.id].holder = s.holder

\* _cas_reason: the swap goes through only while the snapshot still names the
\* open round's holder and fence.
CasHolds(s) ==
    /\ rounds[s.id].state = "open"
    /\ rounds[s.id].holder = s.holder
    /\ rounds[s.id].fence = s.fence

HandoffKeepingFence(s, h) ==
    /\ CasHolds(s)
    /\ Write(s.id, [rounds[s.id] EXCEPT !.holder = h])
    /\ UNCHANGED order

Handoff(s, h) ==
    /\ CasHolds(s)
    /\ Write(s.id, [state |-> "open", outcome |-> "", holder |-> h, fence |-> s.fence + 1])
    /\ UNCHANGED order

SettleUnguarded(s, outcome) ==
    /\ rounds[s.id].state # "absent"
    /\ Write(s.id, [rounds[s.id] EXCEPT !.state = "settled", !.outcome = outcome])
    /\ order' = Append(order, s.id)

Settle(s, outcome) ==
    /\ CasHolds(s)
    /\ Write(s.id, [state |-> "settled", outcome |-> outcome,
                    holder |-> s.holder, fence |-> s.fence])
    /\ order' = Append(order, s.id)

\* Any attempt the checks above refuse, a settle that was already applied
\* included: the tables keep what they hold.
Refused(s) == ~CasHolds(s) /\ UNCHANGED storeVars

\* The store as its callers may drive it: every change is one transaction, on a
\* round as it stands when the transaction begins.
StoreNext ==
    \E r \in RoundId :
        \/ \E h \in TaskId : Open(r, h) \/ Handoff(Snap(r), h)
        \/ \E outcome \in Outcome : Settle(Snap(r), outcome)

StoreSpec == StoreInit /\ [][StoreNext]_storeVars

OutcomeAt(i) == rounds[order[i]].outcome

Moved == {"booted", "advanced"}

LastMove == Max({i \in DOMAIN order : OutcomeAt(i) \in Moved} \cup {0})

\* consecutive_stalled: the failed rounds since the newest one that bought
\* ground; an abandoned or an expired round neither counts nor breaks the run.
Stalled == Cardinality({i \in DOMAIN order : i > LastMove /\ OutcomeAt(i) = "failed"})
=============================================================================
