--------------------------- MODULE MCEvidenceStore ---------------------------
(***************************************************************************)
(* Instances of EvidenceStore for TLC: two digests that share a directory  *)
(* and, if there are three, one that does not.                             *)
(***************************************************************************)
EXTENDS EvidenceStore, TLC

CONSTANTS d1, d2, x3

MCDirectories == {d1, d2}

MCDirectoryOf == [x \in Contents |-> IF x = x3 THEN d2 ELSE d1]

Symmetric == Permutations(Clients) \cup Permutations(Sources)
               \cup Permutations(Contents \ {x3})
=============================================================================
