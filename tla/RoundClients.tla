---------------------------- MODULE RoundClients ----------------------------
(***************************************************************************)
(* Callers of the round store, each acting on a round as it last read it:  *)
(* the lane's handlers, the reconciler and the revalidation pump.  A       *)
(* caller reads, other callers write, and only then does it try its own    *)
(* swap, which is what the holder and the fence are for.                   *)
(***************************************************************************)
EXTENDS RoundStore

CONSTANTS
    Client,
    MaxFence    \* handoffs stop once a round's fence is here

ASSUME MaxFenceIsPositive == MaxFence \in Nat \ {0}

VARIABLE seen   \* the snapshots each client holds: at most one

vars == <<rounds, roundLane, order, seen>>

Init == StoreInit /\ seen = [c \in Client |-> {}]

\* held() and open_rounds(): a client takes a snapshot of an open round.
Read(c) ==
    /\ \E r \in OpenRounds : seen' = [seen EXCEPT ![c] = {Snap(r)}]
    /\ UNCHANGED storeVars

OpenBy(c) ==
    /\ \E r \in RoundId, h \in TaskId : Open(r, h)
    /\ UNCHANGED seen

\* A swap spends the snapshot it was given.
Use(c, s) == s \in seen[c] /\ seen' = [seen EXCEPT ![c] = {}]

HandoffBy(c) ==
    \E s \in seen[c], h \in TaskId :
        /\ Use(c, s)
        /\ (s.fence < MaxFence /\ Handoff(s, h)) \/ Refused(s)

SettleBy(c) ==
    \E s \in seen[c], outcome \in Outcome :
        /\ Use(c, s)
        /\ Settle(s, outcome) \/ Refused(s)

Next == \E c \in Client : Read(c) \/ OpenBy(c) \/ HandoffBy(c) \/ SettleBy(c)

Spec == Init /\ [][Next]_vars

-----------------------------------------------------------------------------
\* The tables and the snapshots keep their shape.
TypeOK ==
    /\ StoreTypeOK
    /\ seen \in [Client -> SUBSET Snapshot]

\* The machine has one owner and its lane says who: at most one round is open,
\* and the bringup_round lane holds exactly one row, naming the open round and
\* the task that holds it now, or none when no round is open.
OneOwnerOneLane ==
    /\ \A q, r \in OpenRounds : q = r
    /\ roundLane = {[round |-> r, holder |-> rounds[r].holder] : r \in OpenRounds}

\* A fence value names one holder for good: two callers whose snapshots of a
\* round carry the same fence were told of the same holder, however many
\* handoffs came between the two reads.
FenceNamesHolder ==
    \A c, d \in Client : \A s \in seen[c], t \in seen[d] :
        s.id = t.id /\ s.fence = t.fence => s.holder = t.holder

\* A caller that lost the round cannot act on it: a swap given a snapshot older
\* than the round's last handoff changes nothing, even when the round has since
\* come back to the very task the snapshot names.
StaleCallerChangesNothing ==
    [][\A c \in Client : \A s \in seen[c] :
           seen'[c] = {} /\ rounds[s.id].fence # s.fence => UNCHANGED storeVars]_vars

\* A settled round is never reopened, regraded or handed on, and is counted
\* once in the order the stall count reads.
SettledIsFinal ==
    [][\A r \in RoundId : rounds[r].state = "settled" =>
           /\ rounds'[r] = rounds[r]
           /\ Cardinality({i \in DOMAIN order' : order'[i] = r}) = 1]_vars
=============================================================================
