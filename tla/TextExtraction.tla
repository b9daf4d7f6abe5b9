--------------------------- MODULE TextExtraction ---------------------------
(***************************************************************************)
(* Bounded text extraction: BoundedTextExtractor.extract checks the file,  *)
(* starts pdftotext or tesseract, reads what it prints through a pipe, no  *)
(* more than so many bytes and no longer than so many seconds, and leaves  *)
(* neither a process nor a pipe behind.                                    *)
(*                                                                         *)
(* The child is free: it prints, blocks when the pipe is full, closes its  *)
(* output early, exits, crashes or never does anything again. Bytes are    *)
(* counted, not looked at. Time is kept relative to the present, as in     *)
(* ProcessingQueue: `left' is deadline - time.monotonic().                 *)
(***************************************************************************)
EXTENDS Integers

CONSTANTS
  MaxInputBytes, MaxTextBytes,
  ReadSize,       \* bytes asked for in one read
  PipeCapacity,   \* bytes the pipe holds
  Timeout,        \* timeout_seconds, in ticks
  Grace,          \* the least time the exit of the child is waited for
  MaxDelay,       \* bound: ticks of an extraction in which nobody waits
  LeaseMargin,    \* what a worker's lease is longer than its timeout
  LeaseFloor,     \* the shortest lease of a worker
  Prints          \* how much the child may have to print, in bytes

ASSUME ExtractionAssumption ==
  /\ MaxInputBytes \in Nat \ {0} /\ MaxTextBytes \in Nat
  /\ ReadSize \in Nat \ {0} /\ PipeCapacity \in Nat \ {0}
  /\ Timeout \in Nat \ {0} /\ Grace \in Nat \ {0} /\ MaxDelay \in Nat
  /\ LeaseMargin \in Nat /\ LeaseFloor \in Nat
  /\ Grace + MaxDelay < LeaseMargin
  /\ Prints \subseteq Nat

VARIABLES
  parent,    \* where the extractor is in its code
  verdict,   \* what it raised or returned
  child,     \* the process
  pipe,      \* bytes in the pipe
  reading,   \* the parent's end of the pipe is open
  output,    \* bytes received
  left,      \* time to the deadline, negative after it
  patience,  \* time to the end of the select or wait under way
  slack      \* what is left of MaxDelay

vars == <<parent, verdict, child, pipe, reading, output, left, patience, slack>>

clock == <<left, patience, slack>>

Errors == {"unsupported_mime", "input_unavailable", "unsafe_input", "input_size",
           "text_extractor_unavailable", "text_extraction_timeout", "text_size",
           "text_extraction_failed", "text_encoding", "empty_text"}

Smaller(m, n) == IF m <= n THEN m ELSE n
Larger(m, n) == IF m >= n THEN m ELSE n

\* The lease under which a worker extracts.
WorkerLease == Larger(Timeout + LeaseMargin, LeaseFloor)

Contents == {"text", "blank", "garbled"}

Children == [state : {"none", "running", "dying", "exited", "reaped"},
             prints : Prints \cup {0}, written : Nat, code : {0, 1},
             content : Contents, open : BOOLEAN]

NoChild == [state |-> "none", prints |-> 0, written |-> 0, code |-> 0,
            content |-> "text", open |-> FALSE]

Init ==
  /\ parent = "idle" /\ verdict = "none"
  /\ child = NoChild /\ pipe = 0 /\ reading = FALSE /\ output = 0
  /\ left = Timeout /\ patience = 0 /\ slack = MaxDelay

-----------------------------------------------------------------------------
\* What the extractor is given: a detected type and what is at the path.
Files == [allowed : BOOLEAN, present : BOOLEAN, regular : BOOLEAN,
          size : {0, 1, MaxInputBytes, MaxInputBytes + 1}]

Refused(f, code) ==
  \/ code = "unsupported_mime" /\ ~ f.allowed
  \/ code = "input_unavailable" /\ f.allowed /\ ~ f.present
  \/ code = "unsafe_input" /\ f.allowed /\ f.present /\ ~ f.regular
  \/ code = "input_size" /\ f.allowed /\ f.present /\ f.regular /\ f.size \notin 1..MaxInputBytes

\* A call that is refused before a process is started, or cannot start one.
Refuse ==
  /\ parent = "idle"
  /\ child' = NoChild /\ output' = 0
  /\ left' = Timeout /\ slack' = MaxDelay
  /\ \E f \in Files :
       \/ \E code \in Errors : Refused(f, code) /\ verdict' = code
       \/ (~ \E code \in Errors : Refused(f, code)) /\ verdict' = "text_extractor_unavailable"
  /\ UNCHANGED <<parent, pipe, reading, patience>>

Start ==
  /\ parent = "idle"
  /\ parent' = "loop" /\ verdict' = "none"
  /\ \E n \in Prints, code \in {0, 1}, content \in Contents :
       child' = [state |-> "running", prints |-> n, written |-> 0, code |-> code,
                 content |-> content, open |-> TRUE]
  /\ pipe' = 0 /\ reading' = TRUE /\ output' = 0
  /\ left' = Timeout /\ patience' = 0 /\ slack' = MaxDelay

\* ProcessingError: the finally clause comes next.
Raise(code) == parent' = "close" /\ verdict' = code

Readable == pipe > 0 \/ ~ child.open

\* Mutant of AskReady: every select has the whole time.
AskReadyAfresh ==
  /\ parent = "loop" /\ left > 0
  /\ parent' = "select" /\ patience' = Timeout
  /\ UNCHANGED <<verdict, child, pipe, reading, output, left, slack>>

AskReady ==
  /\ parent = "loop" /\ left > 0
  /\ parent' = "select" /\ patience' = left
  /\ UNCHANGED <<verdict, child, pipe, reading, output, left, slack>>

TimeIsUp ==
  /\ \/ parent = "loop" /\ left <= 0
     \/ parent = "select" /\ patience = 0 /\ ~ Readable
     \/ parent = "wait" /\ patience = 0
  /\ Raise("text_extraction_timeout")
  /\ UNCHANGED <<child, pipe, reading, output, clock>>

BecomesReadable ==
  /\ parent = "select" /\ Readable
  /\ parent' = "read"
  /\ UNCHANGED <<verdict, child, pipe, reading, output, clock>>

\* Mutant of Allowance: the limit itself is the most that is asked for.
AllowanceToTheLimit == Smaller(ReadSize, MaxTextBytes - output)

\* Mutant of Allowance: each read asks for as much as it can.
AllowanceUnlimited == ReadSize

\* One byte more than the limit is asked for, so that too much is noticed.
Allowance == Smaller(ReadSize, MaxTextBytes + 1 - output)

Chunk == Smaller(pipe, Allowance)

\* Mutant of Read: the limit itself is too much.
ReadBelowLimit ==
  /\ parent = "read" /\ Chunk > 0
  /\ output' = output + Chunk /\ pipe' = pipe - Chunk
  /\ IF output' >= MaxTextBytes THEN Raise("text_size")
     ELSE parent' = "loop" /\ UNCHANGED verdict
  /\ UNCHANGED <<child, reading, clock>>

Read ==
  /\ parent = "read" /\ Chunk > 0
  /\ output' = output + Chunk /\ pipe' = pipe - Chunk
  /\ IF output' > MaxTextBytes THEN Raise("text_size")
     ELSE parent' = "loop" /\ UNCHANGED verdict
  /\ UNCHANGED <<child, reading, clock>>

\* An empty chunk is taken for the end of the output.
ReadEnd ==
  /\ parent = "read" /\ Chunk = 0
  /\ parent' = "wait" /\ patience' = Larger(left, Grace)
  /\ UNCHANGED <<verdict, child, pipe, reading, output, left, slack>>

Exited ==
  /\ parent = "wait" /\ child.state = "exited"
  /\ parent' = "close" /\ child' = [child EXCEPT !.state = "reaped"]
  /\ UNCHANGED <<verdict, pipe, reading, output, clock>>

(***************************************************************************)
(* The finally clause, on every path: the pipe is closed; a child that has *)
(* not exited is killed; and it is waited for, now without a limit.        *)
(***************************************************************************)
CloseOutput ==
  /\ parent = "close"
  /\ parent' = "reap" /\ reading' = FALSE /\ pipe' = 0
  /\ UNCHANGED <<verdict, child, output, clock>>

\* Mutant of Kill: the child is waited for but not killed.
KillNobody ==
  /\ parent = "reap" /\ child.state = "running"
  /\ parent' = "bury"
  /\ UNCHANGED <<verdict, child, pipe, reading, output, clock>>

Kill ==
  /\ parent = "reap" /\ child.state = "running"
  /\ parent' = "bury" /\ child' = [child EXCEPT !.state = "dying", !.code = 1]
  /\ UNCHANGED <<verdict, pipe, reading, output, clock>>

\* Mutant of Reap: an exit that was not waited for is not collected.
ReapLater ==
  /\ parent \in {"reap", "bury"} /\ child.state # "running"
  /\ parent' = "judge"
  /\ UNCHANGED <<verdict, child, pipe, reading, output, clock>>

Reap ==
  /\ parent \in {"reap", "bury"} /\ child.state \in {"exited", "reaped"}
  /\ parent' = "judge" /\ child' = [child EXCEPT !.state = "reaped"]
  /\ UNCHANGED <<verdict, pipe, reading, output, clock>>

\* What was raised; else the return code, the decoding and the text decide.
Outcome ==
  CASE verdict # "none" -> verdict
    [] verdict = "none" /\ child.code # 0 -> "text_extraction_failed"
    [] verdict = "none" /\ child.code = 0 /\ child.content = "garbled" /\ output > 0 ->
         "text_encoding"
    [] verdict = "none" /\ child.code = 0 /\ (child.content = "blank" \/ output = 0) ->
         "empty_text"
    [] OTHER -> "text"

Judge ==
  /\ parent = "judge"
  /\ parent' = "idle" /\ verdict' = Outcome
  /\ UNCHANGED <<child, pipe, reading, output, clock>>

-----------------------------------------------------------------------------
\* The child.
Emit ==
  /\ child.state = "running" /\ child.open /\ reading
  /\ \E n \in 1..Smaller(child.prints - child.written, PipeCapacity - pipe) :
       /\ pipe' = pipe + n
       /\ child' = [child EXCEPT !.written = @ + n]
  /\ UNCHANGED <<parent, verdict, reading, output, clock>>

\* It closes its output when it has printed everything, and may linger.
Finish ==
  /\ child.state = "running" /\ child.open /\ child.written = child.prints
  /\ child' = [child EXCEPT !.open = FALSE]
  /\ UNCHANGED <<parent, verdict, pipe, reading, output, clock>>

Exit ==
  /\ child.state = "running" /\ ~ child.open
  /\ child' = [child EXCEPT !.state = "exited"]
  /\ UNCHANGED <<parent, verdict, pipe, reading, output, clock>>

\* It crashes at any point, writes into a closed pipe (SIGPIPE), is killed.
Die ==
  /\ child.state \in {"running", "dying"}
  /\ child' = [child EXCEPT !.state = "exited", !.code = 1, !.open = FALSE]
  /\ UNCHANGED <<parent, verdict, pipe, reading, output, clock>>

(***************************************************************************)
(* Time passes while the parent waits for the child. What its own steps    *)
(* and the kernel's take is at most MaxDelay in all.                       *)
(***************************************************************************)
Waits ==
  /\ patience > 0
  /\ \/ parent = "select" /\ ~ Readable
     \/ parent = "wait" /\ child.state # "exited"

Tick ==
  /\ parent # "idle"
  /\ \/ Waits /\ UNCHANGED slack
     \/ ~ Waits /\ slack > 0 /\ slack' = slack - 1
  /\ left' = left - 1 /\ patience' = Larger(patience - 1, 0)
  /\ UNCHANGED <<parent, verdict, child, pipe, reading, output>>

ParentStep ==
  \/ AskReady \/ TimeIsUp \/ BecomesReadable \/ Read \/ ReadEnd \/ Exited
  \/ CloseOutput \/ Kill \/ Reap \/ Judge

ChildStep == Emit \/ Finish \/ Exit \/ Die

Next == Refuse \/ Start \/ ParentStep \/ ChildStep \/ Tick

Spec == Init /\ [][Next]_vars

(***************************************************************************)
(* Time passes and the extractor, a single thread, goes on when it can. Of *)
(* the child nothing is assumed, except that it dies when it is killed.    *)
(***************************************************************************)
Fairness ==
  WF_vars(Tick) /\ WF_vars(ParentStep) /\ WF_vars(Die /\ child.state = "dying")

FairSpec == Spec /\ Fairness

-----------------------------------------------------------------------------
(***************************************************************************)
(* Types; and however much the tool prints, the pipe holds no more of it   *)
(* than it can, and the parent no more than the limit and one byte.        *)
(***************************************************************************)
TypeOK ==
  /\ parent \in {"idle", "loop", "select", "read", "wait", "close", "reap", "bury", "judge"}
  /\ verdict \in Errors \cup {"none", "text"}
  /\ child \in Children
  /\ pipe \in 0..PipeCapacity
  /\ reading \in BOOLEAN
  /\ output \in 0..(MaxTextBytes + 1)
  /\ left \in Int
  /\ patience \in Nat
  /\ slack \in 0..MaxDelay

(***************************************************************************)
(* A text that is accepted is everything the tool had to print, and the    *)
(* tool said it succeeded: a short read, a child that crashed half way, a  *)
(* limit reached or an output closed early never pass a truncated text on. *)
(***************************************************************************)
AcceptedTextIsWhole ==
  verdict = "text" =>
    /\ output = child.prints /\ output \in 1..MaxTextBytes
    /\ child.code = 0 /\ child.content = "text"

(***************************************************************************)
(* A call is not refused for nothing: too much is more than the limit, a   *)
(* failure is the tool's, and no one is cut off before the deadline.       *)
(***************************************************************************)
RefusalIsJustified ==
  /\ verdict = "text_size" => child.prints > MaxTextBytes
  /\ verdict = "text_extraction_failed" => child.code # 0
  /\ verdict = "text_extraction_timeout" => left <= 0

(***************************************************************************)
(* Whatever happened, when the call is over its process has been reaped    *)
(* and its pipe closed, so that a polling worker can go on for ever.       *)
(***************************************************************************)
NothingIsLeftBehind == parent = "idle" => child.state \in {"none", "reaped"} /\ ~ reading

(***************************************************************************)
(* The lease that was claimed before the extraction began outlasts it: the *)
(* deadline holds over all the reads and the wait together, not for each.  *)
(* This is what ProcessingQueue calls Punctual.                            *)
(***************************************************************************)
LeaseOutlastsExtraction == Timeout - left < WorkerLease

(***************************************************************************)
(* Every extraction ends, also when the tool stalls with its output open,  *)
(* blocks on a full pipe, or closes its output and lingers.                *)
(***************************************************************************)
EveryExtractionEnds == parent # "idle" ~> parent = "idle"
=============================================================================
