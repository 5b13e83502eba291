---------------------------- MODULE MCReviewDesk ----------------------------
(***************************************************************************)
(* ReviewDesk on two proposals.                                            *)
(***************************************************************************)
EXTENDS ReviewDesk

CONSTANTS ours, theirs, v, w

MCAuthor == [x \in Proposal |-> IF x = ours THEN "orchestration" ELSE "coordinator"]

Both(x, y) == [i \in Variant |-> IF i = v THEN x ELSE y]
MCAnswer == {Both("advise", "reject"), Both("reject", "needs_review")}
=============================================================================
