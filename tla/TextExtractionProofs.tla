------------------------ MODULE TextExtractionProofs ------------------------
(***************************************************************************)
(* Theorems about bounded extraction, for every limit on bytes and time,   *)
(* every size of pipe and of reads, and every output the tool may have.    *)
(***************************************************************************)
EXTENDS TextExtraction, TLAPS

(***************************************************************************)
(* Bytes are conserved while the pipe is open; an output that was closed   *)
(* without a crash is all there is.                                        *)
(***************************************************************************)
BytesAreConserved ==
  /\ reading => output + pipe = child.written
  /\ child.written <= child.prints
  /\ child.code = 0 /\ ~ child.open => child.written = child.prints

\* Once the end of the output has been seen, everything printed is received.
EndIsReached ==
  /\ parent = "read" => Readable
  /\ parent = "wait" \/ (parent \in {"close", "reap", "bury", "judge"} /\ verdict = "none") =>
       ~ child.open /\ pipe = 0 /\ output = child.written

(***************************************************************************)
(* Where the process is, for each place in the code of the extractor.      *)
(***************************************************************************)
ProcessIsKnown ==
  /\ child.state \in {"none", "exited", "reaped"} => ~ child.open
  /\ parent \in {"loop", "select", "read", "wait"} =>
       reading /\ verdict = "none" /\ child.state \in {"running", "exited"}
  /\ parent \in {"close", "reap"} =>
       /\ child.state \in {"running", "exited", "reaped"}
       /\ verdict \in {"none", "text_size", "text_extraction_timeout"}
       /\ verdict = "none" => child.state = "reaped"
  /\ parent \in {"reap", "bury", "judge", "idle"} => ~ reading
  /\ parent = "bury" => child.state \in {"dying", "exited"}
  /\ parent \in {"bury", "judge"} => verdict \in {"none", "text_size", "text_extraction_timeout"}
  /\ parent = "judge" => child.state = "reaped"
  /\ parent = "idle" => child.state \in {"none", "reaped"}

\* No more than the limit is received without an error.
LimitIsKept ==
  /\ verdict = "none" => output <= MaxTextBytes

(***************************************************************************)
(* The time a call has taken: the patience of a select or a wait never     *)
(* reaches beyond the deadline by more than Grace and the delays so far.   *)
(***************************************************************************)
TimeIsBudgeted ==
  /\ parent \in {"select", "wait"} => left <= patience
  /\ left + Grace + (MaxDelay - slack) >= 0
  /\ parent \in {"loop", "read"} => left + (MaxDelay - slack) >= 0
  /\ parent = "select" => left + (MaxDelay - slack) >= patience
  /\ parent = "wait" => left + Grace + (MaxDelay - slack) >= patience

Inductive ==
  /\ TypeOK /\ BytesAreConserved /\ EndIsReached /\ ProcessIsKnown /\ LimitIsKept
  /\ TimeIsBudgeted /\ RefusalIsJustified /\ AcceptedTextIsWhole

USE ExtractionAssumption DEF ExtractionAssumption

-----------------------------------------------------------------------------
(***************************************************************************)
(* Typing.                                                                 *)
(***************************************************************************)

\* A chunk is no more than the pipe holds and the limit leaves room for.
LEMMA ChunkBounds ==
  ASSUME TypeOK, output <= MaxTextBytes
  PROVE  /\ Chunk \in Nat /\ Chunk <= pipe /\ output + Chunk <= MaxTextBytes + 1
         /\ Chunk = 0 => pipe = 0
BY DEF TypeOK, Chunk, Allowance, Smaller

\* The numbers of a process.
LEMMA ChildNumbers ==
  ASSUME TypeOK
  PROVE  child.written \in Nat /\ child.prints \in Nat /\ child.code \in {0, 1}
<1>1. child \in Children /\ \A n \in Prints \cup {0} : n \in Nat
  BY DEF TypeOK
<1> QED BY <1>1 DEF Children

\* What a call comes to is an error or a text.
LEMMA OutcomeType ==
  ASSUME TypeOK PROVE Outcome \in Errors \cup {"text"}
BY DEF TypeOK, Outcome, Errors

LEMMA TypeStep ==
  ASSUME TypeOK, LimitIsKept, ProcessIsKnown, [Next]_vars PROVE TypeOK'
<1> USE DEF TypeOK, Raise, clock
<1>1. CASE Refuse
  <2>1. NoChild \in Children
    BY DEF NoChild, Children, Contents
  <2> QED BY <1>1, <2>1 DEF Refuse, Errors
<1>2. CASE Start
  <2>1. child' \in Children
    BY <1>2 DEF Start, Children
  <2> QED BY <1>2, <2>1 DEF Start
<1>3. CASE Read
  <2>1. output + Chunk \in 0..(MaxTextBytes + 1) /\ pipe - Chunk \in 0..PipeCapacity
    BY <1>3, ChunkBounds DEF Read, LimitIsKept, ProcessIsKnown
  <2>2. parent' \in {"loop", "close"} /\ verdict' \in {verdict, "text_size"}
    BY <1>3 DEF Read
  <2> QED BY <1>3, <2>1, <2>2 DEF Read, Errors
<1>4. CASE ReadEnd
  BY <1>4 DEF ReadEnd, Larger
<1>5. CASE Judge
  BY <1>5, OutcomeType DEF Judge
<1>6. CASE AskReady \/ BecomesReadable \/ CloseOutput
  <2>1. parent' \in {"select", "read", "reap"} /\ patience' \in Nat /\ pipe' \in 0..PipeCapacity
    BY <1>6 DEF AskReady, BecomesReadable, CloseOutput
  <2> QED BY <1>6, <2>1 DEF AskReady, BecomesReadable, CloseOutput
<1>7. CASE Exited \/ Kill \/ Reap
  <2>1. child' \in Children
    BY <1>7 DEF Exited, Kill, Reap, Children
  <2> QED BY <1>7, <2>1 DEF Exited, Kill, Reap
<1>8. CASE Emit
  <2>1. child' \in Children /\ pipe' \in 0..PipeCapacity
    BY <1>8 DEF Emit, Children, Smaller
  <2> QED BY <1>8, <2>1 DEF Emit
<1>9. CASE Finish \/ Exit \/ Die
  <2>1. child' \in Children
    BY <1>9 DEF Finish, Exit, Die, Children
  <2> QED BY <1>9, <2>1 DEF Finish, Exit, Die
<1>10. CASE Tick
  BY <1>10 DEF Tick, Larger
<1>11. CASE TimeIsUp
  <2>1. verdict' \in Errors /\ parent' = "close"
    BY <1>11 DEF TimeIsUp, Errors
  <2> QED BY <1>11, <2>1 DEF TimeIsUp
<1>12. CASE UNCHANGED vars
  BY <1>12 DEF vars
<1> QED
  BY <1>1, <1>2, <1>3, <1>4, <1>5, <1>6, <1>7, <1>8, <1>9, <1>10, <1>11, <1>12
  DEF Next, ParentStep, ChildStep

\* A tick takes as much from the patience, or from the slack, as from the time left.
LEMMA TickKeepsBudget ==
  ASSUME TypeOK, TimeIsBudgeted, Tick PROVE TimeIsBudgeted'
<1>1. /\ left \in Int /\ patience \in Nat /\ slack \in Int
      /\ parent' = parent /\ left' = left - 1
      /\ patience' = IF patience > 0 THEN patience - 1 ELSE 0
  BY DEF TypeOK, Tick, Larger
<1>2. CASE Waits
  <2>1. patience > 0 /\ parent \in {"select", "wait"} /\ (slack' = slack \/ slack' = slack - 1)
    BY <1>2 DEF Tick, Waits
  <2> QED BY <1>1, <2>1 DEF TimeIsBudgeted
<1>3. CASE ~ Waits
  <2>1. slack' = slack - 1
    BY <1>3 DEF Tick
  <2> QED BY <1>1, <2>1 DEF TimeIsBudgeted
<1> QED BY <1>2, <1>3

\* The wait for the exit begins no later than the time left allows.
LEMMA WaitKeepsBudget ==
  ASSUME TypeOK, TimeIsBudgeted, ReadEnd PROVE TimeIsBudgeted'
<1>1. /\ left \in Int /\ slack \in 0..MaxDelay
      /\ parent = "read" /\ parent' = "wait" /\ left' = left /\ slack' = slack
      /\ patience' = IF left >= Grace THEN left ELSE Grace
  BY DEF TypeOK, ReadEnd, Larger
<1> QED BY <1>1 DEF TimeIsBudgeted

(***************************************************************************)
(* The invariant is inductive.                                             *)
(***************************************************************************)
LEMMA InductiveStep ==
  ASSUME Inductive, [Next]_vars PROVE Inductive'
<1>0. TypeOK'
  BY TypeStep DEF Inductive
<1> USE <1>0 DEF Inductive, TypeOK, BytesAreConserved, EndIsReached, ProcessIsKnown,
             LimitIsKept, TimeIsBudgeted, RefusalIsJustified, AcceptedTextIsWhole, Raise, Readable, clock
<1>1. CASE Refuse
  <2>1. verdict' \in Errors \ {"text_size", "text_extraction_failed", "text_extraction_timeout"}
    BY <1>1 DEF Refuse, Refused, Errors
  <2>2. /\ child'.state = "none" /\ child'.written = 0 /\ child'.prints = 0
        /\ child'.code = 0 /\ ~ child'.open
    BY <1>1 DEF Refuse, NoChild
  <2> QED BY <1>1, <2>1, <2>2 DEF Refuse, Errors
<1>2. CASE Start
  BY <1>2 DEF Start
<1>3. CASE Read
  <2>1. /\ Chunk \in Nat /\ Chunk <= pipe /\ output + Chunk <= MaxTextBytes + 1
        /\ output' = output + Chunk /\ pipe' = pipe - Chunk
    BY <1>3, ChunkBounds DEF Read
  <2>2. child.written \in Nat /\ child.prints \in Nat
    BY ChildNumbers
  <2>3. /\ parent = "read" /\ child' = child /\ reading' = reading
        /\ left' = left /\ patience' = patience /\ slack' = slack
    BY <1>3 DEF Read
  <2>4. CASE output' > MaxTextBytes
    <3>1. parent' = "close" /\ verdict' = "text_size"
      BY <1>3, <2>4 DEF Read
    <3>2. MaxTextBytes < child.prints
      BY <2>1, <2>2, <2>3, <2>4
    <3> QED BY <2>1, <2>2, <2>3, <2>4, <3>1, <3>2
  <2>5. CASE ~ output' > MaxTextBytes
    <3>1. parent' = "loop" /\ verdict' = verdict
      BY <1>3, <2>5 DEF Read
    <3> QED BY <2>1, <2>2, <2>3, <2>5, <3>1
  <2> QED BY <2>4, <2>5
<1>4. CASE ReadEnd
  <2>1. parent = "read" /\ parent' = "wait" /\ Chunk = 0
    BY <1>4 DEF ReadEnd
  <2>2. pipe = 0
    BY <2>1, ChunkBounds
  <2>3. TimeIsBudgeted'
    BY <1>4, WaitKeepsBudget
  <2>4. /\ child' = child /\ pipe' = pipe /\ reading' = reading /\ output' = output
        /\ left' = left /\ slack' = slack /\ verdict' = verdict
    BY <1>4 DEF ReadEnd
  <2>5. /\ BytesAreConserved' /\ EndIsReached' /\ ProcessIsKnown' /\ LimitIsKept'
        /\ AcceptedTextIsWhole' /\ RefusalIsJustified'
    BY <2>1, <2>2, <2>4, ChildNumbers
  <2> QED BY <2>3, <2>5
<1>5. CASE Judge
  <2>1. /\ parent = "judge" /\ parent' = "idle" /\ verdict' = Outcome
        /\ UNCHANGED <<child, pipe, reading, output, left, patience, slack>>
    BY <1>5 DEF Judge
  <2>2. CASE verdict # "none"
    <3>1. verdict' = verdict
      BY <2>1, <2>2 DEF Outcome
    <3> QED BY <2>1, <2>2, <3>1
  <2>3. CASE verdict = "none"
    <3>1. /\ verdict' \in {"text_extraction_failed", "text_encoding", "empty_text", "text"}
          /\ verdict' = "text_extraction_failed" => child.code # 0
          /\ verdict' = "text" => child.code = 0 /\ output > 0 /\ child.content = "text"
      BY <2>1, <2>3, ChildNumbers DEF Outcome, Children, Contents
    <3>2. ~ child.open /\ output = child.written /\ output <= MaxTextBytes
      BY <2>1, <2>3
    <3>3. child.code = 0 => output = child.prints
      BY <3>2
    <3> QED BY <2>1, <2>3, <3>1, <3>2, <3>3
  <2> QED BY <2>2, <2>3
<1>6. CASE AskReady
  BY <1>6 DEF AskReady
<1>7. CASE TimeIsUp
  BY <1>7 DEF TimeIsUp
<1>8. CASE BecomesReadable
  BY <1>8 DEF BecomesReadable
<1>9. CASE CloseOutput
  BY <1>9 DEF CloseOutput
<1>10. CASE Exited
  BY <1>10 DEF Exited, Children
<1>11. CASE Kill \/ Reap
  <2>1. CASE Kill
    BY <2>1 DEF Kill, Children
  <2>2. CASE Reap
    BY <2>2 DEF Reap, Children
  <2> QED BY <1>11, <2>1, <2>2
<1>12. CASE Emit
  BY <1>12 DEF Emit, Children, Smaller
<1>13. CASE Finish \/ Exit
  BY <1>13 DEF Finish, Exit, Children
<1>14. CASE Die
  BY <1>14 DEF Die, Children
<1>15. CASE Tick
  <2>1. TimeIsBudgeted'
    BY <1>15, TickKeepsBudget
  <2>2. left' = left - 1 /\ UNCHANGED <<parent, verdict, child, pipe, reading, output>>
    BY <1>15 DEF Tick
  <2>3. /\ BytesAreConserved' /\ EndIsReached' /\ ProcessIsKnown' /\ LimitIsKept'
        /\ AcceptedTextIsWhole'
    BY <2>2
  <2>4. RefusalIsJustified'
    BY <2>2
  <2> QED BY <2>1, <2>3, <2>4
<1>16. CASE UNCHANGED vars
  BY <1>16 DEF vars
<1> QED
  BY <1>1, <1>2, <1>3, <1>4, <1>5, <1>6, <1>7, <1>8, <1>9, <1>10, <1>11, <1>12, <1>13,
     <1>14, <1>15, <1>16
  DEF Next, ParentStep, ChildStep

LEMMA Invariance == Spec => []Inductive
<1>1. Init => Inductive
  <2> SUFFICES ASSUME Init PROVE Inductive
    OBVIOUS
  <2>1. child.state = "none" /\ child.prints = 0 /\ child.written = 0 /\ ~ child.open
    BY DEF Init, NoChild
  <2>2. TypeOK
    <3>1. NoChild \in Children
      BY DEF NoChild, Children, Contents
    <3>2. child \in Children
      BY <3>1 DEF Init
    <3>3. reading \in BOOLEAN /\ verdict \in Errors \cup {"none", "text"}
      BY DEF Init
    <3>4. pipe \in 0..PipeCapacity /\ output \in 0..(MaxTextBytes + 1)
      BY DEF Init
    <3>5. left \in Int /\ patience \in Nat /\ slack \in 0..MaxDelay
      BY DEF Init
    <3> QED BY <3>2, <3>3, <3>4, <3>5 DEF Init, TypeOK
  <2>3. BytesAreConserved /\ EndIsReached /\ ProcessIsKnown /\ LimitIsKept
    BY <2>1 DEF Init, BytesAreConserved, EndIsReached, ProcessIsKnown, LimitIsKept
  <2>4. TimeIsBudgeted
    BY DEF Init, TimeIsBudgeted
  <2>5. RefusalIsJustified /\ AcceptedTextIsWhole
    BY DEF Init, RefusalIsJustified, AcceptedTextIsWhole
  <2> QED BY <2>2, <2>3, <2>4, <2>5 DEF Inductive
<1> QED BY <1>1, InductiveStep, PTL DEF Spec

-----------------------------------------------------------------------------
\* Every state of an extraction is well typed, and what is held is bounded.
THEOREM ExtractionTypes == Spec => []TypeOK
BY Invariance, PTL DEF Inductive

(***************************************************************************)
(* No truncated text is accepted: what extract returns is all the tool had *)
(* to print, within the limit, from a tool that exited with code 0.        *)
(***************************************************************************)
THEOREM Completeness == Spec => []AcceptedTextIsWhole
BY Invariance, PTL DEF Inductive

\* Size, failure and timeout are reported only when they occurred.
THEOREM Justification == Spec => []RefusalIsJustified
BY Invariance, PTL DEF Inductive

\* When a call is over no process and no pipe is left of it.
THEOREM Cleanliness == Spec => []NothingIsLeftBehind
<1>1. Inductive => NothingIsLeftBehind
  BY DEF Inductive, ProcessIsKnown, NothingIsLeftBehind
<1> QED BY <1>1, Invariance, PTL

(***************************************************************************)
(* A worker's lease outlasts its extraction as long as what nobody waits   *)
(* for, in all, is less than the margin of the lease less the grace.       *)
(***************************************************************************)
THEOREM Punctuality == Spec => []LeaseOutlastsExtraction
<1>1. Inductive => LeaseOutlastsExtraction
  BY DEF Inductive, TypeOK, TimeIsBudgeted, LeaseOutlastsExtraction, WorkerLease, Larger
<1> QED BY <1>1, Invariance, PTL
=============================================================================
