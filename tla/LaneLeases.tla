----------------------------- MODULE LaneLeases -----------------------------
(* The lane table of coordinator.db (bus/resource_lock.py): who may use which *)
(* serialized resource.  A row is one (lane, holder) pair with the process    *)
(* that wrote it, named by its PID and its owner scope (the boot, PID         *)
(* namespace and container start of the environment it ran in).  Each         *)
(* operator is the effect of one BEGIN IMMEDIATE transaction on the set of    *)
(* rows.  Expiry times are left out: no operation of the table releases a row *)
(* because its TTL passed.                                                    *)
EXTENDS Naturals, FiniteSets

CONSTANTS
    Lane,       \* KNOWN_LANES
    Conflicts,  \* LANE_CONFLICTS: for each lane, the lanes taken along with it
    Capacity,   \* lane_capacity, seeded from DEFAULT_LANE_CAPACITIES
    Holder,     \* holder ids; the dispatcher uses the task id
    Env,        \* execution environments, identified by their owner scope
    Blind,      \* environments whose owner scope cannot be read (scope "")
    Pid         \* process ids, unique only while the process lives

ASSUME LaneAssumption ==
    /\ Conflicts \in [Lane -> SUBSET Lane]
    /\ Capacity \in [Lane -> Nat]
    /\ Blind \subseteq Env
    /\ IsFiniteSet(Holder)

Row == [lane : Lane, holder : Holder, env : Env, pid : Pid]

\* _expand_lanes: the requested lanes and every lane they conflict with.
ExpandLanes(lanes) == lanes \union UNION {Conflicts[l] : l \in lanes}

HoldersOf(rows, l) == {r.holder : r \in {q \in rows : q.lane = l}}

LanesOf(rows, h) == {r.lane : r \in {q \in rows : q.holder = h}}

\* Mutant: a lane is full one holder too late.
CanAcquireOffByOne(rows, h, lanes) ==
    \A l \in ExpandLanes(lanes) :
        \/ h \in HoldersOf(rows, l)
        \/ Cardinality(HoldersOf(rows, l)) <= Capacity[l]

\* acquire_many refuses the whole batch if any expanded lane is full and this
\* holder is not already on it.
CanAcquire(rows, h, lanes) ==
    \A l \in ExpandLanes(lanes) :
        \/ h \in HoldersOf(rows, l)
        \/ Cardinality(HoldersOf(rows, l)) < Capacity[l]

\* INSERT OR REPLACE on (lane, holder_id): the same holder refreshes its row,
\* which from then on names the process that wrote it last.
Acquired(rows, h, lanes, env, pid) ==
    {r \in rows : ~(r.holder = h /\ r.lane \in ExpandLanes(lanes))}
        \union {[lane |-> l, holder |-> h, env |-> env, pid |-> pid] :
                    l \in ExpandLanes(lanes)}

\* release: drop every (lane, holder) row the lease names.
Released(rows, h, lanes) ==
    {r \in rows : ~(r.holder = h /\ r.lane \in ExpandLanes(lanes))}

\* Mutant: the process is not looked up.
HolderIsLocal(r, me) == r.env = me.env /\ r.env \notin Blind

\* holder_is_dead, asked by the process `me`: only a PID absent from the
\* recorded environment counts, and only when that environment is this one.
\* The asking coordinator is the one process known to live, so a row carrying
\* its PID reads as alive even when an earlier process wrote it.
HolderIsDead(r, me) ==
    /\ r.env = me.env
    /\ r.env \notin Blind
    /\ r.pid # me.pid

\* reap_dead_holders: dead rows go, except those of a holder that still has a
\* GPU lease, because a lane names its coordinator and not the GPU worker.
Reapable(rows, me, gpuHolders) ==
    {r \in rows : HolderIsDead(r, me) /\ r.holder \notin gpuHolders}

=============================================================================
