--------------------------- MODULE EvidenceLedger ---------------------------
(***************************************************************************)
(* What the evidence store promises a submitter, with no word of files,    *)
(* directories, flushing or registration in steps: bytes appear whole or   *)
(* not at all, a submission is accepted for bytes that are there, a source *)
(* stands for one content for good, and accepted evidence is lost to no    *)
(* loss of power where the file system keeps it. Nothing else ever goes.   *)
(***************************************************************************)
EXTENDS Naturals

CONSTANTS
  Contents,   \* distinct bytes
  Kept,       \* those whose directory a loss of power leaves
  Sources,    \* source identities
  NoContent

VARIABLES
  shown,      \* what a reader finds under each digest: "absent" or "whole"
  stands,     \* the content each source stands for
  answered,   \* submissions that were answered successfully
  losses      \* losses of power so far

evars == <<shown, stands, answered, losses>>

Init ==
  /\ shown = [x \in Contents |-> "absent"]
  /\ stands = [s \in Sources |-> NoContent]
  /\ answered = {}
  /\ losses = 0

Show(x) ==
  /\ shown[x] = "absent"
  /\ shown' = [shown EXCEPT ![x] = "whole"]
  /\ UNCHANGED <<stands, answered, losses>>

Accept(s, x) ==
  /\ shown[x] = "whole"
  /\ stands[s] \in {NoContent, x}
  /\ stands' = [stands EXCEPT ![s] = x]
  /\ answered' = answered \cup {[source |-> s, content |-> x]}
  /\ UNCHANGED <<shown, losses>>

Accepted == {stands[s] : s \in Sources}

Lose ==
  /\ \E gone \in SUBSET (Contents \ (Accepted \cap Kept)) :
       shown' = [x \in Contents |-> IF x \in gone THEN "absent" ELSE shown[x]]
  /\ losses' = losses + 1
  /\ UNCHANGED <<stands, answered>>

Next ==
  \/ \E x \in Contents : Show(x) \/ \E s \in Sources : Accept(s, x)
  \/ Lose

Spec == Init /\ [][Next]_evars
=============================================================================
