----------------------------- MODULE Timestamps -----------------------------
(***************************************************************************)
(* The texts by which times are stored and compared. Python's isoformat    *)
(* leaves the fraction out when it is zero: 2026-01-01T00:00:00+00:00, but *)
(* 2026-01-01T00:00:00.000001+00:00. SQLite compares leases as such texts, *)
(* byte by byte; ProcessingQueue compares the times, and LeaseTexts states *)
(* that this is the same.                                                  *)
(***************************************************************************)
EXTENDS Integers, Sequences

Second == 1000000

\* The bytes in question: they decide where two texts of a second differ.
Plus == 43
Dot == 46
Zulu == 90

\* Mutant of IsoText: the short form Z of the offset.
IsoTextZulu(t) ==
  IF t % Second = 0 THEN <<t \div Second, Zulu>>
  ELSE <<t \div Second, Dot, t % Second, Zulu>>

(***************************************************************************)
(* The text of a time: date and time to the second, of a fixed width, as   *)
(* one symbol; the six digits of a fraction as another; then the offset.   *)
(***************************************************************************)
IsoText(t) ==
  IF t % Second = 0 THEN <<t \div Second, Plus>>
  ELSE <<t \div Second, Dot, t % Second, Plus>>

\* Lexicographic order.
TextBefore(a, b) ==
  \E i \in 1..Len(b) :
    /\ i <= Len(a) + 1
    /\ \A j \in 1..(i - 1) : a[j] = b[j]
    /\ i = Len(a) + 1 \/ (i <= Len(a) /\ a[i] < b[i])

=============================================================================
