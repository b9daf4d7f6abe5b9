------------------------- MODULE MCProcessingQueue -------------------------
(***************************************************************************)
(* Instances of ProcessingQueue for TLC. Documents, whose order decides    *)
(* which job is claimed first, are the numbers 1..DocumentCount.           *)
(***************************************************************************)
EXTENDS LeaseTexts, TLC

CONSTANT DocumentCount

MCDocuments == 1..DocumentCount

MCLimits == 1..MaxAttempts

\* On both sides of a whole second, and on it, by any of these ticks.
MCTimes == {4999999, 5000000, 5000001}

MCTickLengths == {1, 500000, 1000000}

\* Workers, facts, proposals, actors and keys are interchangeable.
Symmetric ==
  Permutations(Workers) \cup Permutations(Facts) \cup Permutations(ProposalLists)
  \cup Permutations(Keys) \cup Permutations(Actors)
=============================================================================
