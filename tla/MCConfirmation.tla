-------------------------- MODULE MCConfirmation --------------------------
(***************************************************************************)
(* Instances of Confirmation for TLC.                                      *)
(***************************************************************************)
EXTENDS Confirmation, TLC

\* Requests in flight, proposals, reviewers and keys are interchangeable.
Symmetric ==
  Permutations(Clients) \cup Permutations(Proposals)
  \cup Permutations(Reviewers) \cup Permutations(Keys)
=============================================================================
