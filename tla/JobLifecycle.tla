---------------------------- MODULE JobLifecycle ----------------------------
(***************************************************************************)
(* What the processing queue promises about each document, with no word of *)
(* workers, leases, clocks or transactions: a submitted document is taken  *)
(* up, its output is written for good (but for proposals that come to a    *)
(* document which had none) or its processing fails, and a failed one goes *)
(* back to the queue only a bounded number of times.                       *)
(*                                                                         *)
(* The phases are the values of processing_job.state (db/schema.py), and   *)
(* the transitions are those the queue operations of db/services.py may    *)
(* make visible in the database.                                           *)
(***************************************************************************)
EXTENDS Naturals

CONSTANTS
  Documents,     \* documents that may be submitted
  Facts,         \* what extraction can find in a document
  ProposalLists, \* what matching can propose for it
  NoProposals,   \* matching proposed nothing
  NoOutput,      \* no output is stored yet
  MaxAttempts    \* largest attempt limit an operator gives to a retry

VARIABLES
  phase,         \* the phase of each document
  result,        \* the output stored for each document
  retries        \* how often each document was sent back to the queue

lvars == <<phase, result, retries>>

Outputs == [facts : Facts, proposals : ProposalLists \cup {NoProposals}]

Init ==
  /\ phase = [d \in Documents |-> "absent"]
  /\ result = [d \in Documents |-> NoOutput]
  /\ retries = [d \in Documents |-> 0]

Move(d, from, to) ==
  /\ phase[d] = from
  /\ phase' = [phase EXCEPT ![d] = to]

Submit(d) == Move(d, "absent", "pending") /\ UNCHANGED <<result, retries>>

Start(d) == Move(d, "pending", "processing") /\ UNCHANGED <<result, retries>>

Complete(d) ==
  /\ Move(d, "processing", "complete")
  /\ \E o \in Outputs : result' = [result EXCEPT ![d] = o]
  /\ UNCHANGED retries

\* Proposals may still come to a completed document that has none.
Supplement(d) ==
  /\ phase[d] = "complete" /\ result[d].proposals = NoProposals
  /\ \E x \in ProposalLists : result' = [result EXCEPT ![d].proposals = x]
  /\ UNCHANGED <<phase, retries>>

Fail(d) == Move(d, "processing", "failed") /\ UNCHANGED <<result, retries>>

\* Attempts start at one, so a limit of MaxAttempts leaves one retry less.
Retry(d) ==
  /\ retries[d] + 1 < MaxAttempts
  /\ Move(d, "failed", "pending")
  /\ retries' = [retries EXCEPT ![d] = @ + 1]
  /\ UNCHANGED result

Next ==
  \E d \in Documents :
    Submit(d) \/ Start(d) \/ Complete(d) \/ Supplement(d) \/ Fail(d) \/ Retry(d)

Spec == Init /\ [][Next]_lvars
=============================================================================
