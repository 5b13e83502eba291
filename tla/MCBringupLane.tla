--------------------------- MODULE MCBringupLane ----------------------------
(***************************************************************************)
(* BringupLane on a few specialists, probes and generations.               *)
(***************************************************************************)
EXTENDS BringupLane, TLC

Interchangeable == Permutations(Authored)
=============================================================================
