---------------------------- MODULE ReviewLedger ----------------------------
(***************************************************************************)
(* What human confirmation promises: a proposal is accepted at most once,  *)
(* by one reviewer under one idempotency key, a key accepts at most one    *)
(* proposal, and nothing that was accepted is ever taken back.             *)
(***************************************************************************)
CONSTANTS
  Proposals,   \* proposals shown for review
  Reviewers,   \* who may confirm one
  Keys,        \* idempotency keys of confirmations
  NoDecision   \* the proposal is not accepted

VARIABLE accepted  \* the accepting decision of each proposal

Init == accepted = [p \in Proposals |-> NoDecision]

Accept(p, r, k) ==
  /\ accepted[p] = NoDecision
  /\ \A q \in Proposals : accepted[q] # NoDecision => accepted[q].key # k
  /\ accepted' = [accepted EXCEPT ![p] = [key |-> k, reviewer |-> r]]

Next == \E p \in Proposals, r \in Reviewers, k \in Keys : Accept(p, r, k)

Spec == Init /\ [][Next]_accepted
=============================================================================
