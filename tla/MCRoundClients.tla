--------------------------- MODULE MCRoundClients ---------------------------
(***************************************************************************)
(* RoundClients on two rounds, two tasks and two callers.                  *)
(***************************************************************************)
EXTENDS RoundClients, TLC

Interchangeable == Permutations(RoundId) \cup Permutations(TaskId) \cup Permutations(Client)
=============================================================================
