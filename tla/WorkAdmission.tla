---------------------------- MODULE WorkAdmission ---------------------------
(* What the dispatch core promises: work on a shared resource starts only     *)
(* when no clashing work is under way, and ends without asking anybody.  How  *)
(* that is recorded, leased, crashed over and recovered is not mentioned.     *)
CONSTANTS
    Task,
    Clash(_, _)     \* two tasks that may not work side by side

VARIABLE using      \* the tasks at work

Init == using = {}

Begin(t) ==
    /\ t \notin using
    /\ \A u \in using : ~Clash(t, u)
    /\ using' = using \union {t}

\* Several workers end at once when their machine does.
End(ts) ==
    /\ ts # {}
    /\ using' = using \ ts

Next ==
    \/ \E t \in Task : Begin(t)
    \/ \E ts \in SUBSET using : End(ts)

Spec == Init /\ [][Next]_using

=============================================================================
