---------------------------- MODULE ReviewPromise ---------------------------
(* What a review promises: a proposal is raised, then decided once, and work  *)
(* starts from it at most once, on the variants the decision let through.     *)
(* Logs, cursors, turns, timeouts and restarts are not mentioned.             *)
CONSTANTS Proposal, Variant

VARIABLES
    status,     \* of each proposal: "none", "open" or "decided"
    allowed,    \* the variants its decision let through
    work        \* what was started: the proposal and its grid

Init ==
    /\ status = [p \in Proposal |-> "none"]
    /\ allowed = [p \in Proposal |-> {}]
    /\ work = {}

Raise(p) ==
    /\ status[p] = "none"
    /\ status' = [status EXCEPT ![p] = "open"]
    /\ UNCHANGED <<allowed, work>>

Decide(p, variants) ==
    /\ status[p] = "open"
    /\ status' = [status EXCEPT ![p] = "decided"]
    /\ allowed' = [allowed EXCEPT ![p] = variants]
    /\ UNCHANGED work

Begin(p) ==
    /\ status[p] = "decided" /\ allowed[p] # {}
    /\ \A w \in work : w.from # p
    /\ work' = work \cup {[from |-> p, grid |-> allowed[p]]}
    /\ UNCHANGED <<status, allowed>>

Next ==
    \E p \in Proposal :
        \/ Raise(p)
        \/ \E variants \in SUBSET Variant : Decide(p, variants)
        \/ Begin(p)

Spec == Init /\ [][Next]_<<status, allowed, work>>

=============================================================================
