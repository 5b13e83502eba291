------------------------------ MODULE GpuPool -------------------------------
(* The gpu_leases table (bus/gpu_pool.py).  gpu_id is its primary key, so the *)
(* table is a function from cards to the task that holds them.                *)
EXTENDS Naturals, FiniteSets

CONSTANTS
    Gpu,        \* the card ids (or, under Ray, the observation slots) of a pool
    NoTask      \* a card nobody holds

CardsOf(gpus, t) == {g \in Gpu : gpus[g] = t}

FreeCards(gpus) == {g \in Gpu : gpus[g] = NoTask}

GpuHolders(gpus) == {gpus[g] : g \in Gpu} \ {NoTask}

\* try_acquire: a lease of the same task with the right number of cards is
\* returned as it is; one of another size is given back before trying afresh.
WithoutStale(gpus, t, n) ==
    IF Cardinality(CardsOf(gpus, t)) = n
        THEN gpus
        ELSE [g \in Gpu |-> IF gpus[g] = t THEN NoTask ELSE gpus[g]]

\* The selections try_acquire may return.  Which free cards come first in the
\* pool's order is left open.
Selections(gpus, t, n) ==
    LET left == WithoutStale(gpus, t, n)
    IN  IF CardsOf(left, t) # {}
            THEN {CardsOf(left, t)}
            ELSE {s \in SUBSET FreeCards(left) : Cardinality(s) = n}

Taken(gpus, t, n, cards) ==
    [g \in Gpu |-> IF g \in cards THEN t ELSE WithoutStale(gpus, t, n)[g]]

\* try_acquire_ray_observation: one fresh slot, whatever the task already has.
RaySlots(gpus) == {{g} : g \in FreeCards(gpus)}

RayTaken(gpus, t, slot) == [g \in Gpu |-> IF g \in slot THEN t ELSE gpus[g]]

\* release: rows of these cards held by this holder.
GivenBack(gpus, t, cards) ==
    [g \in Gpu |-> IF g \in cards /\ gpus[g] = t THEN NoTask ELSE gpus[g]]

=============================================================================
