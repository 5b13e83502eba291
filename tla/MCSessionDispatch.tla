------------------------- MODULE MCSessionDispatch --------------------------
(* Small instances of SessionDispatch for TLC.                                *)
EXTENDS SessionDispatch

CONSTANTS a, b, c, serving, bench

\* serving and bench conflict with each other, as the serving lanes do.
MCConflicts == [l \in Lane |-> Lane \ {l}]
MCCapacity == [l \in Lane |-> 1]

\* a serves, b benchmarks on one card, c needs neither.
MCNeeds == [t \in Holder |-> IF t = a THEN {serving} ELSE IF t = b THEN {bench} ELSE {}]
MCGpuNeed == [t \in Holder |-> IF t = b THEN 1 ELSE 0]

\* Both on the one card: a card kept for a worker that did not stop bars the other
\* task, whose lanes are free by then.
MCOneCard == [t \in Holder |-> 1]

=============================================================================
