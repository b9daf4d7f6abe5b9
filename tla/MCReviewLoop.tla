---------------------------- MODULE MCReviewLoop ----------------------------
(***************************************************************************)
(* An instance of ReviewLoop for TLC: one document has two proposals, each *)
(* for an object of its own, and another has a proposal for one of them.   *)
(***************************************************************************)
EXTENDS ReviewLoop, TLC

CONSTANTS d1, d2, p1, p2, p3, o1, o2

MCDocumentOf == p1 :> d1 @@ p2 :> d1 @@ p3 :> d2

MCTargetOf == p1 :> o1 @@ p2 :> o2 @@ p3 :> o1

Symmetric == Permutations(Reviewers)
=============================================================================
