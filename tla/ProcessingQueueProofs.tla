----------------------- MODULE ProcessingQueueProofs -----------------------
(***************************************************************************)
(* Theorems about the processing queue, for every set of documents,        *)
(* processes, keys and outputs and every value of its bounds.              *)
(***************************************************************************)
EXTENDS ProcessingQueue, FiniteSetTheorems, TLAPS

(***************************************************************************)
(* Typing.                                                                 *)
(***************************************************************************)

\* Settling or requeueing one job keeps both tables well typed.
LEMMA SetStateType ==
  ASSUME job \in [Documents -> Jobs], document \in [Documents -> States],
         NEW d \in Documents, NEW s \in States, SetState(d, s)
  PROVE  /\ job' \in [Documents -> Jobs]
         /\ document' \in [Documents -> States]
         /\ document' = [document EXCEPT ![d] = s]
         /\ \A e \in Documents \ {d} : job'[e] = job[e]
         /\ job'[d].state = s /\ job'[d].owner = NoWorker
         /\ job'[d].attempts = job[d].attempts
BY DEF SetState, Jobs

\* Ages of samples: a fresh one, one a tick older, and their bound.
LEMMA AgeTypes ==
  /\ 0 \in Ages
  /\ \A a \in Ages : a \in Int /\ a >= -MaxSetBack /\ a + 1 \in Ages
  /\ \A a \in Int : a >= -MaxSetBack => a \in Ages
BY QueueAssumption DEF QueueAssumption, Ages

\* Every call's sample has such an age.
LEMMA CallAge ==
  ASSUME TypeOK, NEW p \in Processes
  PROVE  call[p].age \in Int /\ call[p].age >= -MaxSetBack
<1>1. call[p].age \in Ages
  BY DEF TypeOK, Calls
<1> QED BY <1>1, AgeTypes

\* The record of a call that just sampled the clock is a call.
LEMMA CallTypes ==
  /\ Idle \in Calls /\ Down \in Calls
  /\ Idle.at = "idle" /\ Down.at = "down"
  /\ \A at \in {"claim", "complete", "fail"}, d \in Documents \cup {NoDocument},
        o \in Outputs \cup {NoOutput} :
       /\ Sampled(at, d, o) \in Calls
       /\ Sampled(at, d, o).at = at /\ Sampled(at, d, o).doc = d
       /\ Sampled(at, d, o).out = o
BY AgeTypes DEF Idle, Down, Sampled, Calls

\* The typing of calls: one process's call changes to a well-typed one.
LEMMA BecomeType ==
  ASSUME TypeOK, NEW p \in Processes, NEW c \in Calls, Become(p, c),
         c.at \in {"working", "complete", "fail"} => c.doc \in Documents,
         c.at = "complete" => c.out \in Outputs
  PROVE  /\ call' \in [Processes -> Calls]
         /\ \A q \in Processes :
              /\ AtWork(q)' => call'[q].doc \in Documents
              /\ call'[q].at = "complete" => call'[q].out \in Outputs
BY DEF TypeOK, Become, AtWork

\* A replay leaves, for its document, the output of the call; it can only
\* have added proposals where none were stored.
LEMMA ReplayEffect ==
  ASSUME TypeOK, DocumentAgreesWithJob, NEW p \in Processes, CompleteReplay(p)
  PROVE  \E d \in Documents :
           /\ d = call[p].doc
           /\ call[p].at = "complete" /\ call'[p].at = "idle"
           /\ job[d].state = "complete"
           /\ output[d] \in Outputs /\ call[p].out \in Outputs
           /\ output[d].facts = call[p].out.facts
           /\ output[d].proposals # NoProposals => output[d] = call[p].out
           /\ output' = [output EXCEPT ![d] = call[p].out]
           /\ UNCHANGED <<job, document, audit, life>>
<1> DEFINE d == call[p].doc
           out == call[p].out
<1>1. /\ call[p].at = "complete" /\ call'[p].at = "idle"
      /\ d \in Documents /\ out \in Outputs
  BY DEF CompleteReplay, TypeOK, AtWork, Become, Idle
<1>2. /\ job[d].state = "complete" /\ output[d].facts = out.facts
      /\ output[d].proposals \in {NoProposals, out.proposals}
  BY DEF CompleteReplay, CanReplay
<1>3. output[d] \in Outputs
  BY <1>1, <1>2 DEF TypeOK, DocumentAgreesWithJob
<1>4. output[d].proposals # NoProposals => output[d] = out
  BY <1>1, <1>2, <1>3 DEF Outputs
<1>5. output' = [output EXCEPT ![d] = out]
  <2>1. output' = [output EXCEPT ![d].proposals =
                     IF @ = NoProposals THEN out.proposals ELSE @]
    BY DEF CompleteReplay, AddProposals
  <2>2. [output[d] EXCEPT !.proposals =
           IF @ = NoProposals THEN out.proposals ELSE @] = out
    BY <1>1, <1>2, <1>3 DEF Outputs
  <2> QED BY <2>1, <2>2
<1> QED BY <1>1, <1>2, <1>3, <1>4, <1>5 DEF CompleteReplay

(***************************************************************************)
(* Every step preserves the types. A replay needs more than types: what it *)
(* compares with is there because the job is complete.                     *)
(***************************************************************************)
LEMMA TypeStep ==
  ASSUME TypeOK, DocumentAgreesWithJob, [Next]_vars PROVE TypeOK'
<1> USE CallTypes
<1>1. ASSUME NEW d \in Documents, Submit(d) PROVE TypeOK'
  BY <1>1, SetStateType DEF Submit, TypeOK, States, AtWork
<1>2. ASSUME NEW p \in Processes, Poll(p) PROVE TypeOK'
  BY <1>2, BecomeType DEF Poll, TypeOK
<1>3. ASSUME NEW p \in Processes, StartSync(p) PROVE TypeOK'
  <2>1. PICK d \in Documents : Become(p, Sampled("claim", d, NoOutput))
    BY <1>3 DEF StartSync
  <2>2. life' \in [Processes -> Nat]
    BY <1>3 DEF StartSync, TypeOK
  <2> QED BY <1>3, <2>1, <2>2, BecomeType DEF StartSync, TypeOK
<1>4. ASSUME NEW p \in Processes, ClaimFound(p) PROVE TypeOK'
  <2> DEFINE row(d) == [state |-> "processing", attempts |-> NextAttempt(job[d].attempts),
                        owner |-> WorkerId(p), expires |-> LeaseOf(p) - call[p].age]
             new(d) == [Idle EXCEPT !.at = "working", !.doc = d]
  <2>1. PICK d \in Claimable(p) :
          /\ job' = [job EXCEPT ![d] = row(d)]
          /\ document' = [document EXCEPT ![d] = "processing"]
          /\ Become(p, new(d))
    BY <1>4 DEF ClaimFound
  <2>2. d \in Documents
    BY DEF Claimable
  <2>3. row(d) \in Jobs
    <3>1. NextAttempt(job[d].attempts) \in 0..CountCap
      BY <2>2, QueueAssumption DEF QueueAssumption, NextAttempt, TypeOK, Jobs
    <3>2. WorkerId(p) \in WorkerIds
      BY DEF WorkerId, WorkerIds, TypeOK
    <3>3. LeaseOf(p) - call[p].age \in Int
      BY CallAge, QueueAssumption DEF QueueAssumption, LeaseOf
    <3> QED BY <3>1, <3>2, <3>3 DEF Jobs, States
  <2>4. new(d) \in Calls /\ new(d).at = "working" /\ new(d).doc = d
    BY <2>2 DEF Calls, Idle
  <2>5. job' \in [Documents -> Jobs] /\ document' \in [Documents -> States]
    BY <2>1, <2>2, <2>3 DEF TypeOK, States
  <2> HIDE DEF new
  <2> QED BY <1>4, <2>1, <2>2, <2>4, <2>5, BecomeType DEF ClaimFound, TypeOK
<1>5. ASSUME NEW p \in Processes, ClaimNone(p) PROVE TypeOK'
  BY <1>5, BecomeType DEF ClaimNone, TypeOK
<1>6. ASSUME NEW p \in Processes, Prepare(p) PROVE TypeOK'
  <2>1. call[p].doc \in Documents
    BY <1>6 DEF Prepare, TypeOK, AtWork
  <2>2. CASE \E o \in Outputs : Become(p, Sampled("complete", call[p].doc, o))
    BY <1>6, <2>1, <2>2, BecomeType DEF Prepare, TypeOK
  <2>3. CASE Become(p, Sampled("fail", call[p].doc, NoOutput))
    BY <1>6, <2>1, <2>3, BecomeType DEF Prepare, TypeOK
  <2> QED BY <1>6, <2>2, <2>3 DEF Prepare
<1>7. ASSUME NEW p \in Processes, CompleteFresh(p) PROVE TypeOK'
  <2>1. call[p].doc \in Documents /\ call[p].out \in Outputs
    BY <1>7 DEF CompleteFresh, TypeOK, AtWork
  <2>2. output' \in [Documents -> Outputs \cup {NoOutput}]
    BY <1>7, <2>1 DEF CompleteFresh, StoreOutput, TypeOK
  <2> QED BY <1>7, <2>1, <2>2, SetStateType, BecomeType DEF CompleteFresh, TypeOK, States
<1>8. ASSUME NEW p \in Processes, CompleteReplay(p) PROVE TypeOK'
  <2>1. output' \in [Documents -> Outputs \cup {NoOutput}]
    BY <1>8, ReplayEffect DEF TypeOK
  <2> QED BY <1>8, <2>1, BecomeType DEF CompleteReplay, TypeOK
<1>9. ASSUME NEW p \in Processes, CompleteConflict(p) PROVE TypeOK'
  <2>1. call[p].doc \in Documents
    BY <1>9 DEF CompleteConflict, TypeOK, AtWork
  <2> QED BY <1>9, <2>1, BecomeType DEF CompleteConflict, TypeOK
<1>10. ASSUME NEW p \in Processes, FailJob(p) PROVE TypeOK'
  <2>1. call[p].doc \in Documents
    BY <1>10 DEF FailJob, TypeOK, AtWork
  <2> QED BY <1>10, <2>1, SetStateType, BecomeType DEF FailJob, TypeOK, States
<1>11. ASSUME NEW p \in Processes, FailConflict(p) PROVE TypeOK'
  BY <1>11, BecomeType DEF FailConflict, TypeOK
<1>12. ASSUME NEW p \in Processes, TransactionFails(p) PROVE TypeOK'
  <2>1. CASE call[p].at = "complete"
    <3>1. call[p].doc \in Documents /\ Become(p, Sampled("fail", call[p].doc, NoOutput))
      BY <1>12, <2>1 DEF TransactionFails, TypeOK, AtWork
    <3> QED BY <1>12, <3>1, BecomeType DEF TransactionFails, TypeOK
  <2>2. CASE call[p].at # "complete"
    <3>1. Become(p, Idle)
      BY <1>12, <2>2 DEF TransactionFails
    <3> QED BY <1>12, <3>1, BecomeType DEF TransactionFails, TypeOK
  <2> QED BY <2>1, <2>2
<1>13. ASSUME NEW p \in Processes, Crash(p) PROVE TypeOK'
  BY <1>13, BecomeType DEF Crash, TypeOK
<1>14. ASSUME NEW p \in Processes, Restart(p) PROVE TypeOK'
  <2>1. life' \in [Processes -> Nat]
    BY <1>14 DEF Restart, TypeOK
  <2> QED BY <1>14, <2>1, BecomeType DEF Restart, TypeOK
<1>15. ASSUME NEW d \in Documents, NEW actor \in Actors, NEW key \in Keys,
              NEW limit \in AttemptLimits, Retry(d, actor, key, limit)
       PROVE  TypeOK'
  <2>1. audit' \in [Keys -> [doc : Documents, actor : Actors] \cup {NoAudit}]
    BY <1>15 DEF Retry, TypeOK
  <2> QED BY <1>15, <2>1, SetStateType DEF Retry, TypeOK, States, AtWork
<1>16. ASSUME ClockStep PROVE TypeOK'
  <2>1. ASSUME NEW d \in Documents PROVE job'[d] \in Jobs
    <3>1. job[d] \in Jobs
      BY DEF TypeOK
    <3>2. CASE Tick
      <4>1. job'[d] = job[d] \/ job'[d] = [job[d] EXCEPT !.expires = @ - 1]
        BY <3>2 DEF Tick
      <4> QED BY <3>1, <4>1 DEF Jobs
    <3>3. CASE SetClockBack
      <4>1. \E k \in Int : job'[d] = job[d] \/ job'[d] = [job[d] EXCEPT !.expires = @ + k]
        BY <3>3, QueueAssumption DEF SetClockBack, QueueAssumption
      <4>2. job[d].expires \in Int
        BY <3>1 DEF Jobs
      <4> QED BY <3>1, <4>1, <4>2 DEF Jobs
    <3> QED BY <1>16, <3>2, <3>3 DEF ClockStep
  <2>2. ASSUME NEW p \in Processes
        PROVE  /\ call'[p] \in Calls
               /\ call'[p].at = call[p].at
               /\ call'[p].doc = call[p].doc
               /\ call'[p].out = call[p].out
    <3>1. call[p] \in Calls /\ call[p].age \in Ages /\ call[p].age \in Int
      BY AgeTypes DEF TypeOK, Calls
    <3>2. \E a \in Ages : call'[p] = [call[p] EXCEPT !.age = a]
      <4>1. CASE Tick
        <5>1. call'[p] = call[p] \/ call'[p] = [call[p] EXCEPT !.age = call[p].age + 1]
          BY <4>1 DEF Tick
        <5>2. call[p] = [call[p] EXCEPT !.age = call[p].age] /\ call[p].age + 1 \in Ages
          BY <3>1, AgeTypes DEF Calls
        <5> QED BY <3>1, <5>1, <5>2
      <4>2. CASE SetClockBack
        <5>1. PICK k \in 1..MaxSetBack :
                \/ call'[p] = call[p]
                \/ /\ call'[p] = [call[p] EXCEPT !.age = call[p].age - k]
                   /\ call[p].age - k >= -MaxSetBack
          BY <4>2 DEF SetClockBack
        <5>2. call[p].age - k \in Int
          BY <3>1, QueueAssumption DEF QueueAssumption
        <5>3. call[p].age - k >= -MaxSetBack => call[p].age - k \in Ages
          BY <5>2, AgeTypes
        <5>4. call[p] = [call[p] EXCEPT !.age = call[p].age]
          BY <3>1 DEF Calls
        <5> QED BY <3>1, <5>1, <5>3, <5>4
      <4> QED BY <1>16, <4>1, <4>2 DEF ClockStep
    <3> QED BY <3>1, <3>2 DEF Calls
  <2>3. job' \in [Documents -> Jobs] /\ call' \in [Processes -> Calls]
    BY <1>16, <2>1, <2>2 DEF ClockStep, Tick, SetClockBack
  <2> QED BY <1>16, <2>2, <2>3 DEF ClockStep, Tick, SetClockBack, TypeOK, AtWork
<1>17. CASE UNCHANGED vars
  BY <1>17 DEF vars, TypeOK, AtWork
<1>18. ASSUME NEW p \in Processes, ProcessStep(p) PROVE TypeOK'
  BY <1>18, <1>2, <1>3, <1>4, <1>5, <1>6, <1>7, <1>8, <1>9, <1>10, <1>11,
     <1>12, <1>13, <1>14 DEF ProcessStep
<1>19. CASE OperatorStep
  BY <1>15, <1>19 DEF OperatorStep
<1> QED BY <1>1, <1>16, <1>17, <1>18, <1>19 DEF Next

(***************************************************************************)
(* Only these steps touch rows: every other one changes just the calls.    *)
(***************************************************************************)
RowsUnchanged == UNCHANGED <<job, document, output, audit>>

\* The steps that touch rows, one by one.
LEMMA RowSteps ==
  ASSUME [Next]_vars
  PROVE  \/ RowsUnchanged
         \/ \E d \in Documents : Submit(d)
         \/ \E p \in Processes : ClaimFound(p)
         \/ \E p \in Processes : CompleteFresh(p)
         \/ \E p \in Processes : CompleteReplay(p)
         \/ \E p \in Processes : FailJob(p)
         \/ \E d \in Documents, actor \in Actors, key \in Keys, limit \in AttemptLimits :
              Retry(d, actor, key, limit)
         \/ ClockStep
<1>1. ASSUME NEW p \in Processes, ProcessStep(p)
      PROVE  \/ RowsUnchanged \/ ClaimFound(p) \/ CompleteFresh(p)
             \/ CompleteReplay(p) \/ FailJob(p)
  BY <1>1 DEF ProcessStep, RowsUnchanged, Poll, StartSync, ClaimNone, Prepare,
     CompleteConflict, FailConflict, TransactionFails, Crash, Restart
<1>2. CASE UNCHANGED vars
  BY <1>2 DEF vars, RowsUnchanged
<1> QED BY <1>1, <1>2 DEF Next, OperatorStep

\* What each of these steps does to the state of jobs, and to no other job.
LEMMA ClaimEffect ==
  ASSUME TypeOK, NEW p \in Processes, ClaimFound(p)
  PROVE  \E d \in Documents :
           /\ job[d].state = "pending" \/ Expired(d, call[p].age)
           /\ job'[d].state = "processing" /\ document'[d] = "processing"
           /\ job'[d].attempts = NextAttempt(job[d].attempts)
           /\ call[p].at = "claim" /\ job'[d].owner = WorkerId(p)
           /\ \A e \in Documents \ {d} : job'[e] = job[e] /\ document'[e] = document[e]
           /\ output' = output /\ audit' = audit
<1>1. PICK d \in Claimable(p) :
        /\ job' = [job EXCEPT ![d] =
                     [state |-> "processing", attempts |-> NextAttempt(@.attempts),
                      owner |-> WorkerId(p), expires |-> LeaseOf(p) - call[p].age]]
        /\ document' = [document EXCEPT ![d] = "processing"]
  BY DEF ClaimFound
<1>2. d \in Documents /\ (job[d].state = "pending" \/ Expired(d, call[p].age))
  BY DEF Claimable
<1> QED BY <1>1, <1>2 DEF ClaimFound, TypeOK

LEMMA ClockEffect ==
  ASSUME TypeOK, ClockStep
  PROVE  /\ \A d \in Documents : /\ job'[d].state = job[d].state
                                 /\ job'[d].attempts = job[d].attempts
                                 /\ job'[d].owner = job[d].owner
                                 /\ job[d].state # "processing" => job'[d] = job[d]
         /\ document' = document /\ output' = output /\ audit' = audit
BY DEF ClockStep, Tick, SetClockBack, TypeOK, Jobs

\* The row of a process at complete or fail that may write is its document's.
LEMMA SettleEffect ==
  ASSUME TypeOK, NEW p \in Processes, CompleteFresh(p) \/ FailJob(p)
  PROVE  /\ call[p].doc \in Documents
         /\ call[p].at \in {"complete", "fail"} /\ call'[p].at = "idle"
         /\ job[call[p].doc].state = "processing"
         /\ job[call[p].doc].owner = WorkerId(p)
BY DEF TypeOK, CompleteFresh, FailJob, HoldsLease, AtWork, Become, Idle

\* A first completion writes its own document's row, output and state.
LEMMA CompleteEffect ==
  ASSUME TypeOK, NEW p \in Processes, CompleteFresh(p)
  PROVE  \E d \in Documents :
           /\ d = call[p].doc
           /\ call[p].at = "complete" /\ call'[p].at = "idle"
           /\ job[d].state = "processing" /\ job[d].owner = WorkerId(p)
           /\ job'[d].state = "complete" /\ document'[d] = "complete"
           /\ job'[d].attempts = job[d].attempts
           /\ output' = [output EXCEPT ![d] = call[p].out] /\ call[p].out \in Outputs
           /\ \A e \in Documents \ {d} :
                job'[e] = job[e] /\ document'[e] = document[e] /\ output'[e] = output[e]
           /\ audit' = audit
<1> DEFINE d == call[p].doc
<1>1. d \in Documents /\ job[d].state = "processing" /\ job[d].owner = WorkerId(p)
      /\ call[p].at = "complete" /\ call'[p].at = "idle"
  BY SettleEffect DEF CompleteFresh
<1>2. SetState(d, "complete") /\ output' = [output EXCEPT ![d] = call[p].out]
      /\ audit' = audit
  BY DEF CompleteFresh, StoreOutput
<1>3. call[p].out \in Outputs
  BY <1>1 DEF TypeOK
<1>4. /\ document' = [document EXCEPT ![d] = "complete"]
      /\ \A e \in Documents \ {d} : job'[e] = job[e]
      /\ job'[d].state = "complete" /\ job'[d].attempts = job[d].attempts
  BY <1>1, <1>2, SetStateType DEF TypeOK, States
<1> HIDE DEF d
<1>5. /\ document'[d] = "complete"
      /\ \A e \in Documents \ {d} : document'[e] = document[e] /\ output'[e] = output[e]
  BY <1>1, <1>2, <1>4 DEF TypeOK
<1>6. d = call[p].doc
  BY DEF d
<1> QED BY <1>1, <1>2, <1>3, <1>4, <1>5, <1>6

\* Every step writes the job, its document and its output together.
LEMMA AgreementStep ==
  ASSUME TypeOK, DocumentAgreesWithJob, [Next]_vars PROVE DocumentAgreesWithJob'
<1>1. CASE RowsUnchanged
  BY <1>1 DEF RowsUnchanged, DocumentAgreesWithJob
<1>2. ASSUME NEW d \in Documents, Submit(d) PROVE DocumentAgreesWithJob'
  BY <1>2, SetStateType DEF Submit, TypeOK, DocumentAgreesWithJob, States
<1>3. ASSUME NEW p \in Processes, ClaimFound(p) PROVE DocumentAgreesWithJob'
  BY <1>3, ClaimEffect DEF DocumentAgreesWithJob, Expired
<1>4. ASSUME NEW p \in Processes, CompleteFresh(p) PROVE DocumentAgreesWithJob'
  BY <1>4, CompleteEffect, QueueAssumption
  DEF QueueAssumption, TypeOK, DocumentAgreesWithJob
<1>5. ASSUME NEW p \in Processes, FailJob(p) PROVE DocumentAgreesWithJob'
  BY <1>5, SettleEffect, SetStateType DEF FailJob, TypeOK, DocumentAgreesWithJob, States
<1>6. ASSUME NEW d \in Documents, NEW actor \in Actors, NEW key \in Keys,
             NEW limit \in AttemptLimits, Retry(d, actor, key, limit)
      PROVE  DocumentAgreesWithJob'
  BY <1>6, SetStateType DEF Retry, TypeOK, DocumentAgreesWithJob, States
<1>7. CASE ClockStep
  BY <1>7, ClockEffect DEF DocumentAgreesWithJob
<1>8. ASSUME NEW p \in Processes, CompleteReplay(p) PROVE DocumentAgreesWithJob'
  BY <1>8, ReplayEffect, QueueAssumption
  DEF QueueAssumption, TypeOK, DocumentAgreesWithJob
<1> QED BY <1>1, <1>2, <1>3, <1>4, <1>5, <1>6, <1>7, <1>8, RowSteps

(***************************************************************************)
(* Types and agreement are inductive together.                             *)
(***************************************************************************)
Consistent == TypeOK /\ DocumentAgreesWithJob

LEMMA Consistency == Spec => []Consistent
<1>1. Init => Consistent
  BY QueueAssumption, CallTypes
  DEF QueueAssumption, Init, Consistent, TypeOK, DocumentAgreesWithJob, Jobs, Calls,
      Idle, States, AtWork
<1>2. Consistent /\ [Next]_vars => Consistent'
  BY TypeStep, AgreementStep DEF Consistent
<1> QED BY <1>1, <1>2, PTL DEF Spec

\* Rows, calls and audit events have their types in every reachable state.
THEOREM TypeCorrect == Spec => []TypeOK
<1>1. Consistent => TypeOK
  BY DEF Consistent
<1> QED BY <1>1, Consistency, PTL

(***************************************************************************)
(* In every reachable state the document table repeats the state of its    *)
(* job, and output is stored exactly for the complete jobs.                *)
(***************************************************************************)
THEOREM Agreement == Spec => []DocumentAgreesWithJob
<1>1. Consistent => DocumentAgreesWithJob
  BY DEF Consistent
<1> QED BY <1>1, Consistency, PTL

(***************************************************************************)
(* No step changes the rows, the facts or a stored proposal of a completed *)
(* document.                                                               *)
(***************************************************************************)
THEOREM Finality == Spec => CompleteIsFinal
<1> DEFINE Final == \A d \in Documents : job[d].state = "complete" =>
                      /\ job'[d] = job[d]
                      /\ document'[d] = document[d]
                      /\ output'[d].facts = output[d].facts
                      /\ output[d].proposals # NoProposals => output'[d] = output[d]
<1>1. ASSUME TypeOK, DocumentAgreesWithJob, [Next]_vars PROVE Final
  <2>1. CASE RowsUnchanged
    BY <2>1 DEF RowsUnchanged
  <2>2. ASSUME NEW d \in Documents, Submit(d) PROVE Final
    BY <1>1, <2>2, SetStateType DEF Submit, TypeOK, States
  <2>3. ASSUME NEW p \in Processes, ClaimFound(p) PROVE Final
    BY <1>1, <2>3, ClaimEffect DEF Expired
  <2>4. ASSUME NEW p \in Processes, CompleteFresh(p) PROVE Final
    BY <1>1, <2>4, CompleteEffect
  <2>5. ASSUME NEW p \in Processes, FailJob(p) PROVE Final
    BY <1>1, <2>5, SettleEffect, SetStateType DEF FailJob, TypeOK, States
  <2>6. ASSUME NEW d \in Documents, NEW actor \in Actors, NEW key \in Keys,
               NEW limit \in AttemptLimits, Retry(d, actor, key, limit)
        PROVE  Final
    BY <1>1, <2>6, SetStateType DEF Retry, TypeOK, States
  <2>7. CASE ClockStep
    BY <1>1, <2>7, ClockEffect
  <2>8. ASSUME NEW p \in Processes, CompleteReplay(p) PROVE Final
    BY <1>1, <2>8, ReplayEffect DEF TypeOK
  <2> QED BY <1>1, <2>1, <2>2, <2>3, <2>4, <2>5, <2>6, <2>7, <2>8, RowSteps
<1>2. Consistent /\ [Next]_vars => [Final]_vars
  BY <1>1 DEF Consistent
<1> QED BY <1>2, Consistency, PTL DEF Spec, CompleteIsFinal

(***************************************************************************)
(* Mutual exclusion by lease: a job whose lease has time left leaves its   *)
(* owner's hands only by the settling call of that owner, whatever samples *)
(* of the clock the other processes judge it by, and however far below the *)
(* time left the clock has been set back.                                  *)
(***************************************************************************)
THEOREM LeaseExclusion == Spec => LiveLeaseIsExclusive
<1> DEFINE Exclusive ==
      \A d \in Documents :
        job[d].state = "processing" /\ job[d].expires >= MaxSetBack
        /\ (job'[d].state # "processing" \/ job'[d].owner # job[d].owner)
        => \E p \in Processes : SettledBy(p, d)
<1>1. ASSUME TypeOK, [Next]_vars PROVE Exclusive
  <2>1. CASE RowsUnchanged
    BY <2>1 DEF RowsUnchanged
  <2>2. ASSUME NEW d \in Documents, Submit(d) PROVE Exclusive
    BY <1>1, <2>2, SetStateType DEF Submit, TypeOK, States
  <2>3. ASSUME NEW p \in Processes, ClaimFound(p) PROVE Exclusive
    <3>1. \A d \in Documents : Expired(d, call[p].age) => job[d].expires < MaxSetBack
      <4>1. call[p].age \in Int /\ call[p].age >= -MaxSetBack /\ MaxSetBack \in Nat
        BY <1>1, CallAge, QueueAssumption DEF QueueAssumption
      <4>2. \A d \in Documents : job[d].expires \in Int
        BY <1>1 DEF TypeOK, Jobs
      <4> QED BY <4>1, <4>2 DEF Expired
    <3> QED BY <1>1, <2>3, <3>1, ClaimEffect, QueueAssumption DEF TypeOK, Jobs, QueueAssumption
  <2>4. ASSUME NEW p \in Processes, CompleteFresh(p) PROVE Exclusive
    BY <1>1, <2>4, CompleteEffect DEF SettledBy
  <2>5. ASSUME NEW p \in Processes, FailJob(p) PROVE Exclusive
    BY <1>1, <2>5, SettleEffect, SetStateType DEF FailJob, TypeOK, States, SettledBy
  <2>6. ASSUME NEW d \in Documents, NEW actor \in Actors, NEW key \in Keys,
               NEW limit \in AttemptLimits, Retry(d, actor, key, limit)
        PROVE  Exclusive
    BY <1>1, <2>6, SetStateType DEF Retry, TypeOK, States
  <2>7. CASE ClockStep
    BY <1>1, <2>7, ClockEffect
  <2>8. ASSUME NEW p \in Processes, CompleteReplay(p) PROVE Exclusive
    BY <2>8 DEF CompleteReplay
  <2> QED BY <1>1, <2>1, <2>2, <2>3, <2>4, <2>5, <2>6, <2>7, <2>8, RowSteps
<1>2. TypeOK /\ [Next]_vars => [Exclusive]_vars
  BY <1>1
<1> QED BY <1>2, TypeCorrect, PTL DEF Spec, LiveLeaseIsExclusive

\* A call that is at work before and after a step is the same call, of the
\* same worker id, for the same document: a new one starts with a claim.
LEMMA SameCall ==
  ASSUME TypeOK, [Next]_vars, NEW p \in Processes, AtWork(p), AtWork(p)'
  PROVE  call'[p].doc = call[p].doc /\ WorkerId(p)' = WorkerId(p)
<1> SUFFICES call'[p].doc = call[p].doc /\ life'[p] = life[p]
  BY DEF WorkerId
<1>1. ASSUME NEW q \in Processes, ProcessStep(q), q # p
      PROVE  call'[p] = call[p] /\ life'[p] = life[p]
  BY <1>1 DEF TypeOK, ProcessStep, Become, Poll, StartSync, ClaimFound, ClaimNone,
     Prepare, CompleteFresh, CompleteReplay, CompleteConflict, FailJob, FailConflict,
     TransactionFails, Crash, Restart
<1>2. CASE ProcessStep(p)
  <2>1. \A c : Become(p, c) => call'[p] = c
    BY DEF TypeOK, Become
  <2>2. call'[p] # Idle /\ call'[p] # Down
    BY DEF AtWork, Idle, Down
  <2>3. /\ ~ Poll(p) /\ ~ StartSync(p) /\ ~ ClaimFound(p) /\ ~ ClaimNone(p) /\ ~ Restart(p)
    BY DEF AtWork, Poll, StartSync, ClaimFound, ClaimNone, Restart
  <2>4. /\ ~ CompleteFresh(p) /\ ~ CompleteReplay(p) /\ ~ FailJob(p)
        /\ ~ FailConflict(p) /\ ~ Crash(p)
    BY <2>1, <2>2 DEF CompleteFresh, CompleteReplay, FailJob, FailConflict, Crash
  <2>5. Prepare(p) \/ CompleteConflict(p) \/ TransactionFails(p)
    BY <1>2, <2>3, <2>4 DEF ProcessStep
  <2>6. \/ call'[p] = Sampled("fail", call[p].doc, NoOutput)
        \/ \E o : call'[p] = Sampled("complete", call[p].doc, o)
    BY <2>1, <2>2, <2>5 DEF Prepare, CompleteConflict, TransactionFails
  <2>7. \A at, d, o : Sampled(at, d, o).doc = d
    BY DEF Sampled
  <2>8. life' = life
    BY <2>5 DEF Prepare, CompleteConflict, TransactionFails
  <2> QED BY <2>6, <2>7, <2>8
<1>3. CASE \E d \in Documents : Submit(d)
  BY <1>3 DEF Submit
<1>4. CASE OperatorStep
  BY <1>4 DEF OperatorStep, Retry
<1>5. CASE ClockStep
  BY <1>5 DEF ClockStep, Tick, SetClockBack, TypeOK, Calls
<1>6. CASE UNCHANGED vars
  BY <1>6 DEF vars
<1> QED BY <1>1, <1>2, <1>3, <1>4, <1>5, <1>6 DEF Next

(***************************************************************************)
(* Claims are fenced by their owner alone: no call comes to own a job that *)
(* it has lost, or that has been claimed again since, and only the call    *)
(* that owns a job ends it. So the owner and the expiry that a settling    *)
(* transaction compares are enough, without the attempt it worked for.     *)
(***************************************************************************)
THEOREM Fencing == Spec => ClaimIsFenced
<1> DEFINE Same(p, d) == /\ job[d].state = "processing" /\ job[d].owner = WorkerId(p)
                         /\ job'[d].attempts = job[d].attempts
           Kept == \A p \in Processes : AtWork(p) /\ Owns(p)' => Same(p, call[p].doc)
           Ended == \A d \in Documents :
                      job[d].state = "processing" /\ job'[d].state # "processing" =>
                        \E p \in Processes :
                          Owns(p) /\ call[p].doc = d /\ call'[p].at = "idle"
<1>1. ASSUME TypeOK, [Next]_vars PROVE Kept
  <2> SUFFICES ASSUME NEW p \in Processes, NEW d \in Documents,
                      AtWork(p), d = call[p].doc,
                      job'[d].state = "processing", job'[d].owner = WorkerId(p)
               PROVE  Same(p, d)
    BY <1>1, SameCall DEF Owns, TypeOK
  <2>1. WorkerId(p) # NoWorker
    BY <1>1, QueueAssumption DEF QueueAssumption, WorkerId, TypeOK
  <2>2. CASE RowsUnchanged \/ \E q \in Processes : CompleteReplay(q)
    BY <2>2 DEF RowsUnchanged, CompleteReplay
  <2>3. ASSUME NEW q \in Processes, ClaimFound(q) PROVE Same(p, d)
    <3>1. PICK e \in Documents :
            /\ call[q].at = "claim" /\ job'[e].owner = WorkerId(q)
            /\ \A c \in Documents \ {e} : job'[c] = job[c]
      BY <1>1, <2>3, ClaimEffect
    <3>2. q # p
      BY <3>1 DEF AtWork
    <3>3. WorkerId(q) # WorkerId(p)
      BY <3>2 DEF WorkerId
    <3> QED BY <3>1, <3>3
  <2>4. ASSUME NEW e \in Documents, NEW s \in States, SetState(e, s) PROVE Same(p, d)
    <3>1. job'[e].owner = NoWorker /\ \A c \in Documents \ {e} : job'[c] = job[c]
      BY <1>1, <2>4, SetStateType DEF TypeOK
    <3> QED BY <2>1, <3>1
  <2>5. CASE ClockStep
    BY <1>1, <2>5, ClockEffect
  <2>6. CASE \E q \in Processes : CompleteFresh(q) \/ FailJob(q)
    BY <1>1, <2>4, <2>6, SettleEffect DEF CompleteFresh, FailJob, States
  <2>7. CASE \E e \in Documents : Submit(e)
    BY <2>4, <2>7 DEF Submit, States
  <2>8. CASE \E e \in Documents, actor \in Actors, key \in Keys, limit \in AttemptLimits :
               Retry(e, actor, key, limit)
    BY <2>4, <2>8 DEF Retry, States
  <2> QED BY <1>1, <2>2, <2>3, <2>5, <2>6, <2>7, <2>8, RowSteps
<1>2. ASSUME TypeOK, [Next]_vars PROVE Ended
  <2>1. CASE RowsUnchanged \/ \E q \in Processes : CompleteReplay(q)
    BY <2>1 DEF RowsUnchanged, CompleteReplay
  <2>2. ASSUME NEW q \in Processes, ClaimFound(q) PROVE Ended
    BY <1>2, <2>2, ClaimEffect
  <2>3. ASSUME NEW q \in Processes, CompleteFresh(q) \/ FailJob(q) PROVE Ended
    <3>1. /\ call[q].doc \in Documents /\ call'[q].at = "idle" /\ Owns(q)
      BY <1>2, <2>3, SettleEffect DEF Owns, AtWork
    <3>2. \A c \in Documents \ {call[q].doc} : job'[c] = job[c]
      BY <1>2, <2>3, <3>1, SetStateType DEF CompleteFresh, FailJob, TypeOK, States
    <3> QED BY <3>1, <3>2
  <2>4. ASSUME NEW e \in Documents, job[e].state # "processing",
               NEW s \in States, SetState(e, s)
        PROVE  Ended
    BY <1>2, <2>4, SetStateType DEF TypeOK
  <2>5. CASE \E e \in Documents : Submit(e)
    BY <2>4, <2>5 DEF Submit, States
  <2>6. CASE \E e \in Documents, actor \in Actors, key \in Keys, limit \in AttemptLimits :
               Retry(e, actor, key, limit)
    BY <2>4, <2>6 DEF Retry, States
  <2>7. CASE ClockStep
    BY <1>2, <2>7, ClockEffect
  <2> QED BY <1>2, <2>1, <2>2, <2>3, <2>5, <2>6, <2>7, RowSteps
<1>3. TypeOK /\ [Next]_vars => Kept /\ Ended
  BY <1>1, <1>2
<1> DEFINE Step == /\ \A p \in Processes : AtWork(p) /\ Owns(p)' =>
                        Owns(p) /\ job'[call[p].doc].attempts = job[call[p].doc].attempts
                   /\ Ended
<1>4. Kept /\ Ended => Step
  BY DEF Owns
<1> HIDE DEF Kept, Ended
<1>5. TypeOK /\ [Next]_vars => [Step]_vars
  BY <1>3, <1>4
<1> QED BY <1>5, TypeCorrect, PTL DEF Spec, ClaimIsFenced, Ended

(***************************************************************************)
(* Why no punctual holder loses its lease: it has a tick left at every     *)
(* point of its work, and a sample is never older than the wait for the    *)
(* lock, which a lease outlasts from its claim.                            *)
(***************************************************************************)
LeaseIsKept == \A p \in Processes : AtWork(p) => Owns(p) /\ job[call[p].doc].expires >= 1

SamplesAreFresh == \A p \in Processes : Waiting(p) => call[p].age <= MaxWait

\* Only a clock step changes the age of a sample that waits already.
LEMMA FreshStep ==
  ASSUME TypeOK, SamplesAreFresh, [Next]_vars PROVE SamplesAreFresh'
<1>1. MaxWait \in Nat /\ MaxSetBack \in Nat /\ \A p \in Processes : call[p].age \in Int
  BY CallAge, QueueAssumption DEF QueueAssumption
<1>2. ASSUME NEW q \in Processes, ProcessStep(q) PROVE SamplesAreFresh'
  <2>1. \A c : Become(q, c) => call'[q] = c /\ \A p \in Processes \ {q} : call'[p] = call[p]
    BY DEF TypeOK, Become
  <2>2. /\ Idle.at = "idle" /\ Down.at = "down"
        /\ \A at, d, o : Sampled(at, d, o).age = 0
        /\ \A d : [Idle EXCEPT !.at = "working", !.doc = d].at = "working"
    BY DEF Idle, Down, Sampled
  <2>3. PICK c : Become(q, c) /\ (c.at \in {"claim", "complete", "fail"} => c.age = 0)
    <3>1. CASE Poll(q) \/ StartSync(q) \/ ClaimNone(q) \/ Prepare(q)
      BY <2>2, <3>1 DEF Poll, StartSync, ClaimNone, Prepare
    <3>2. CASE ClaimFound(q)
      BY <2>2, <3>2 DEF ClaimFound
    <3>3. CASE CompleteFresh(q) \/ CompleteReplay(q) \/ CompleteConflict(q)
      BY <2>2, <3>3 DEF CompleteFresh, CompleteReplay, CompleteConflict
    <3>4. CASE FailJob(q) \/ FailConflict(q) \/ TransactionFails(q) \/ Crash(q) \/ Restart(q)
      BY <2>2, <3>4 DEF FailJob, FailConflict, TransactionFails, Crash, Restart
    <3> QED BY <1>2, <3>1, <3>2, <3>3, <3>4 DEF ProcessStep
  <2> QED BY <1>1, <2>1, <2>3 DEF SamplesAreFresh, Waiting
<1>3. CASE Tick
  <2>1. ASSUME NEW p \in Processes, Waiting(p)' PROVE call'[p].age <= MaxWait
    <3>1. Waiting(p) /\ call'[p].age = call[p].age + 1 /\ call[p].age < MaxWait
      BY <1>3, <2>1 DEF Tick, Waiting, TypeOK, Calls
    <3> QED BY <1>1, <3>1
  <2> QED BY <2>1 DEF SamplesAreFresh
<1>4. CASE SetClockBack
  <2>1. PICK k \in 1..MaxSetBack :
          call' = [p \in Processes |->
                     IF Waiting(p) THEN [call[p] EXCEPT !.age = @ - k] ELSE call[p]]
    BY <1>4 DEF SetClockBack
  <2>2. ASSUME NEW p \in Processes, Waiting(p)' PROVE call'[p].age <= MaxWait
    <3>1. Waiting(p) /\ call'[p].age = call[p].age - k
      BY <2>1, <2>2 DEF Waiting, TypeOK, Calls
    <3>2. k \in Nat /\ call[p].age <= MaxWait
      BY <1>1, <3>1 DEF SamplesAreFresh
    <3> QED BY <1>1, <3>1, <3>2
  <2> QED BY <2>2 DEF SamplesAreFresh
<1>5. CASE (\E d \in Documents : Submit(d)) \/ OperatorStep \/ UNCHANGED vars
  <2>1. call' = call
    BY <1>5 DEF Submit, OperatorStep, Retry, vars
  <2> QED BY <2>1 DEF SamplesAreFresh, Waiting
<1> QED BY <1>2, <1>3, <1>4, <1>5 DEF Next, ClockStep

LEMMA KeptStep ==
  ASSUME Punctual, MaxSetBack = 0, MaxWait < WorkerLease, MaxWait < SyncLease,
         TypeOK, TypeOK', SamplesAreFresh, LeaseIsKept, [Next]_vars
  PROVE  LeaseIsKept'
<1>1. /\ MaxWait \in Nat /\ \A p \in Processes : call[p].age \in Int /\ call[p].age >= 0
      /\ \A d \in Documents : job[d].expires \in Int
  BY CallAge, QueueAssumption DEF QueueAssumption, TypeOK, Jobs
<1>2. SUFFICES ASSUME NEW p \in Processes, AtWork(p)'
               PROVE  Owns(p)' /\ (job[call[p].doc].expires >= 1)'
  BY DEF LeaseIsKept
<1>3. CASE ~ AtWork(p)
  <2>1. ClaimFound(p)
    <3>1. ASSUME NEW q \in Processes, ProcessStep(q), q # p PROVE call'[p] = call[p]
      BY <3>1 DEF TypeOK, ProcessStep, Become, Poll, StartSync, ClaimFound,
         ClaimNone, Prepare, CompleteFresh, CompleteReplay, CompleteConflict,
         FailJob, FailConflict, TransactionFails, Crash, Restart
    <3>2. CASE ProcessStep(p)
      <4>1. \A c : Become(p, c) => call'[p] = c
        BY DEF TypeOK, Become
      <4>2. \A d, o : call'[p] # Idle /\ call'[p] # Down /\ call'[p] # Sampled("claim", d, o)
        BY <1>2 DEF AtWork, Idle, Down, Sampled
      <4>3. /\ ~ Poll(p) /\ ~ StartSync(p) /\ ~ ClaimNone(p) /\ ~ Restart(p) /\ ~ Crash(p)
        BY <4>1, <4>2 DEF Poll, StartSync, ClaimNone, Restart, Crash
      <4>4. /\ ~ Prepare(p) /\ ~ CompleteFresh(p) /\ ~ CompleteReplay(p)
            /\ ~ CompleteConflict(p) /\ ~ FailJob(p) /\ ~ FailConflict(p)
        BY <1>3 DEF AtWork, Prepare, CompleteFresh, CompleteReplay, CompleteConflict,
           FailJob, FailConflict
      <4>5. ~ TransactionFails(p)
        BY <1>3, <4>1, <4>2 DEF AtWork, TransactionFails
      <4> QED BY <3>2, <4>3, <4>4, <4>5 DEF ProcessStep
    <3>3. CASE (\E d \in Documents : Submit(d)) \/ OperatorStep \/ UNCHANGED vars
      BY <3>3, <1>2, <1>3 DEF Submit, OperatorStep, Retry, vars, AtWork
    <3>4. CASE ClockStep
      BY <3>4, <1>2, <1>3 DEF ClockStep, Tick, SetClockBack, TypeOK, Calls, AtWork
    <3>5. CASE call'[p] = call[p]
      BY <1>2, <1>3, <3>5 DEF AtWork
    <3> QED BY <3>1, <3>2, <3>3, <3>4, <3>5 DEF Next
  <2>2. PICK d \in Documents :
          /\ job' = [job EXCEPT ![d] =
                       [state |-> "processing", attempts |-> NextAttempt(@.attempts),
                        owner |-> WorkerId(p), expires |-> LeaseOf(p) - call[p].age]]
          /\ Become(p, [Idle EXCEPT !.at = "working", !.doc = d])
    BY <2>1 DEF ClaimFound, Claimable
  <2>3. call'[p].doc = d /\ WorkerId(p)' = WorkerId(p)
    BY <2>1, <2>2 DEF ClaimFound, TypeOK, Become, Idle, WorkerId
  <2>4. /\ job'[d].state = "processing" /\ job'[d].owner = WorkerId(p)
        /\ job'[d].expires = LeaseOf(p) - call[p].age
    BY <2>2 DEF TypeOK
  <2>5. LeaseOf(p) - call[p].age >= 1
    <3>1. LeaseOf(p) \in Nat /\ LeaseOf(p) > MaxWait
      BY QueueAssumption DEF QueueAssumption, LeaseOf
    <3>2. call[p].age <= MaxWait
      BY <2>1 DEF ClaimFound, SamplesAreFresh, Waiting
    <3> QED BY <1>1, <3>1, <3>2
  <2> QED BY <1>2, <2>3, <2>4, <2>5 DEF Owns
<1>4. CASE AtWork(p)
  <2> DEFINE d == call[p].doc
             Kept == /\ job'[d].state = "processing" /\ job'[d].owner = WorkerId(p)
                     /\ job'[d].expires >= 1
  <2>1. /\ d \in Documents /\ job[d].state = "processing" /\ job[d].owner = WorkerId(p)
        /\ job[d].expires >= 1
    BY <1>4 DEF LeaseIsKept, Owns, TypeOK
  <2>2. call'[p].doc = d /\ WorkerId(p)' = WorkerId(p)
    BY <1>2, <1>4, SameCall
  <2> HIDE DEF d
  <2>3. CASE job'[d] = job[d]
    BY <1>2, <2>1, <2>2, <2>3 DEF Owns
  <2>4. ASSUME NEW q \in Processes, ClaimFound(q) PROVE job'[d] = job[d]
    <3>1. PICK e \in Documents :
            /\ job[e].state = "pending" \/ Expired(e, call[q].age)
            /\ \A c \in Documents \ {e} : job'[c] = job[c]
      BY <2>4, ClaimEffect
    <3>2. job[e].state = "pending" \/ job[e].expires < 0
      BY <1>1, <3>1 DEF Expired
    <3>3. e # d
      BY <1>1, <2>1, <3>2
    <3> QED BY <2>1, <3>1, <3>3
  <2>5. ASSUME NEW q \in Processes, CompleteFresh(q) \/ FailJob(q) PROVE job'[d] = job[d]
    <3>1. /\ call[q].doc \in Documents /\ call'[q].at = "idle"
          /\ job[call[q].doc].owner = WorkerId(q)
      BY <2>5, SettleEffect
    <3>2. q # p
      BY <1>2, <3>1 DEF AtWork
    <3>3. call[q].doc # d
      BY <2>1, <3>1, <3>2 DEF WorkerId
    <3>4. \A c \in Documents \ {call[q].doc} : job'[c] = job[c]
      BY <2>5, <3>1, SetStateType DEF CompleteFresh, FailJob, TypeOK, States
    <3> QED BY <2>1, <3>3, <3>4
  <2>6. ASSUME NEW e \in Documents, job[e].state # "processing",
               NEW s \in States, SetState(e, s)
        PROVE  job'[d] = job[d]
    BY <2>1, <2>6, SetStateType DEF TypeOK
  <2>7. CASE \E e \in Documents : Submit(e)
    BY <2>3, <2>6, <2>7 DEF Submit, States
  <2>8. CASE \E e \in Documents, actor \in Actors, key \in Keys, limit \in AttemptLimits :
               Retry(e, actor, key, limit)
    BY <2>3, <2>6, <2>8 DEF Retry, States
  <2>9. CASE Tick
    <3>1. job[d].expires > 1
      <4>1. InTime /\ d = call[p].doc
        BY <2>9 DEF Tick, d
      <4> QED BY <1>4, <2>1, <4>1 DEF InTime
    <3>2. job'[d] = job[d] \/ job'[d] = [job[d] EXCEPT !.expires = @ - 1]
      BY <2>1, <2>9 DEF Tick
    <3>3. /\ job'[d].state = "processing" /\ job'[d].owner = WorkerId(p)
          /\ job'[d].expires = job[d].expires \/ job'[d].expires = job[d].expires - 1
      BY <2>1, <3>2 DEF TypeOK, Jobs
    <3>4. job'[d].expires >= 1
      BY <1>1, <2>1, <3>1, <3>3
    <3> QED BY <1>2, <2>2, <3>3, <3>4 DEF Owns
  <2>10. ~ SetClockBack
    BY DEF SetClockBack
  <2>11. CASE RowsUnchanged \/ \E q \in Processes : CompleteReplay(q)
    BY <2>3, <2>11 DEF RowsUnchanged, CompleteReplay
  <2> QED BY <2>3, <2>4, <2>5, <2>7, <2>8, <2>9, <2>10, <2>11, RowSteps DEF ClockStep
<1> QED BY <1>3, <1>4

(***************************************************************************)
(* If holders are punctual, the clock is not set back and leases outlast   *)
(* the wait for the lock, a lease is good for the whole of the work: no    *)
(* settling transaction of a live process is refused for want of it.       *)
(***************************************************************************)
THEOREM PunctualWorkIsSafe ==
  ASSUME Punctual, MaxSetBack = 0, MaxWait < WorkerLease, MaxWait < SyncLease
  PROVE  Spec => []WorkIsNeverLost
<1>1. Init => SamplesAreFresh /\ LeaseIsKept
  BY DEF Init, SamplesAreFresh, LeaseIsKept, Waiting, AtWork, Idle
<1>2. TypeOK /\ TypeOK' /\ SamplesAreFresh /\ LeaseIsKept /\ [Next]_vars
        => SamplesAreFresh' /\ LeaseIsKept'
  BY FreshStep, KeptStep
<1>3. TypeOK /\ LeaseIsKept => WorkIsNeverLost
  <2> SUFFICES ASSUME TypeOK, LeaseIsKept, NEW p \in Processes, AtWork(p)
               PROVE  HoldsLease(p)
    BY DEF WorkIsNeverLost
  <2>1. /\ call[p].doc \in Documents /\ job[call[p].doc].expires \in Int
        /\ call[p].age \in Int /\ call[p].age >= 0
    BY CallAge DEF TypeOK, Jobs
  <2>2. job[call[p].doc].expires >= 1 /\ Owns(p)
    BY DEF LeaseIsKept
  <2> QED BY <2>1, <2>2 DEF Owns, HoldsLease
<1> QED BY <1>1, <1>2, <1>3, TypeCorrect, PTL DEF Spec

(***************************************************************************)
(* A call of complete_processing that returns without an exception leaves  *)
(* the job complete with exactly the caller's output.                      *)
(***************************************************************************)
THEOREM Acknowledgement == Spec => AcknowledgedOutputIsStored
<1> DEFINE Stored ==
      \A p \in Processes :
        LET d == call[p].doc
        IN  call[p].at = "complete" /\ call'[p].at = "idle" =>
              job'[d].state = "complete" /\ output'[d] = call[p].out
<1>1. ASSUME TypeOK, DocumentAgreesWithJob, [Next]_vars PROVE Stored
  <2> SUFFICES ASSUME NEW p \in Processes,
                      call[p].at = "complete", call'[p].at = "idle"
               PROVE  /\ job'[call[p].doc].state = "complete"
                      /\ output'[call[p].doc] = call[p].out
    OBVIOUS
  <2>1. CompleteFresh(p) \/ CompleteReplay(p)
    <3>1. ASSUME NEW q \in Processes, ProcessStep(q), q # p PROVE FALSE
      <4>1. call'[p] = call[p]
        BY <1>1, <3>1 DEF TypeOK, ProcessStep, Become, Poll, StartSync, ClaimFound,
           ClaimNone, Prepare, CompleteFresh, CompleteReplay, CompleteConflict,
           FailJob, FailConflict, TransactionFails, Crash, Restart
      <4> QED BY <4>1
    <3>2. CASE ProcessStep(p)
      <4>1. ~ CompleteConflict(p) /\ ~ TransactionFails(p) /\ ~ Crash(p)
        BY <1>1 DEF TypeOK, CompleteConflict, TransactionFails, Crash, Become,
           Sampled, Down, Idle
      <4> QED BY <3>2, <4>1 DEF ProcessStep, Poll, StartSync, ClaimFound, ClaimNone,
             Prepare, FailJob, FailConflict, Restart
    <3>3. CASE \E d \in Documents : Submit(d)
      BY <3>3 DEF Submit
    <3>4. CASE OperatorStep
      BY <3>4 DEF OperatorStep, Retry
    <3>5. CASE ClockStep
      BY <1>1, <3>5 DEF ClockStep, Tick, SetClockBack, TypeOK, Calls
    <3>6. CASE UNCHANGED vars
      BY <3>6 DEF vars
    <3> QED BY <1>1, <3>1, <3>2, <3>3, <3>4, <3>5, <3>6 DEF Next
  <2>2. CASE CompleteFresh(p)
    BY <1>1, <2>2, CompleteEffect DEF TypeOK
  <2>3. CASE CompleteReplay(p)
    BY <1>1, <2>3, ReplayEffect DEF TypeOK
  <2> QED BY <2>1, <2>2, <2>3
<1>2. Consistent /\ [Next]_vars => [Stored]_vars
  BY <1>1 DEF Consistent
<1> QED BY <1>2, Consistency, PTL DEF Spec, AcknowledgedOutputIsStored

(***************************************************************************)
(* Counting retries: a document has finitely many audited retries, and     *)
(* their number depends on the audit table alone.                          *)
(***************************************************************************)
LEMMA RetriesAreCounted ==
  \A d \in Documents : IsFiniteSet(RetryKeys(d)) /\ Retries(d) \in Nat
<1> TAKE d \in Documents
<1>1. RetryKeys(d) \subseteq Keys
  BY DEF RetryKeys
<1> QED BY <1>1, QueueAssumption, FS_Subset, FS_CardinalityType
        DEF QueueAssumption, Retries

\* No audit event is written: no retry is counted.
LEMMA SameAuditSameRetries ==
  ASSUME audit' = audit, NEW d \in Documents PROVE Retries(d)' = Retries(d)
BY DEF Retries, RetryKeys

\* A retry counts once, for its own document.
LEMMA RetryEffect ==
  ASSUME TypeOK, NEW d \in Documents, NEW actor \in Actors, NEW key \in Keys,
         NEW limit \in AttemptLimits, Retry(d, actor, key, limit)
  PROVE  /\ job[d].state = "failed" /\ job'[d].state = "pending"
         /\ job[d].attempts < limit /\ job'[d].attempts = job[d].attempts
         /\ \A e \in Documents \ {d} : job'[e] = job[e]
         /\ output' = output
         /\ Retries(d)' = Retries(d) + 1
         /\ \A e \in Documents \ {d} : Retries(e)' = Retries(e)
<1>1. /\ audit[key] = NoAudit
      /\ audit' = [audit EXCEPT ![key] = [doc |-> d, actor |-> actor]]
      /\ [doc |-> d, actor |-> actor] # NoAudit
  BY QueueAssumption DEF QueueAssumption, Retry
<1>2. key \notin RetryKeys(d) /\ RetryKeys(d)' = RetryKeys(d) \cup {key}
  BY <1>1 DEF RetryKeys, TypeOK
<1>3. \A e \in Documents \ {d} : RetryKeys(e)' = RetryKeys(e)
  BY <1>1 DEF RetryKeys, TypeOK
<1>4. Retries(d)' = Retries(d) + 1
  BY <1>2, RetriesAreCounted, FS_AddElement DEF Retries
<1>5. \A e \in Documents \ {d} : Retries(e)' = Retries(e)
  BY <1>3 DEF Retries
<1>6. /\ job[d].state = "failed" /\ job'[d].state = "pending"
      /\ job[d].attempts < limit /\ job'[d].attempts = job[d].attempts
      /\ \A e \in Documents \ {d} : job'[e] = job[e]
      /\ output' = output
  BY SetStateType DEF Retry, TypeOK, States
<1> QED BY <1>4, <1>5, <1>6

(***************************************************************************)
(* A failed job leaves that state only by a retry that adds one new key    *)
(* for its document to the audit table, where nothing is ever overwritten. *)
(***************************************************************************)
THEOREM Audited == Spec => RetryIsAudited
<1> DEFINE Requeued(d) ==
             /\ job'[d].state = "pending"
             /\ \E k \in Keys : RetryKeys(d)' = RetryKeys(d) \cup {k} /\ k \notin RetryKeys(d)
           Kept == \A k \in Keys : audit[k] # NoAudit => audit'[k] = audit[k]
           Step == /\ \A d \in Documents : job[d].state = "failed" /\ job'[d].state # "failed"
                                             => Requeued(d)
                   /\ Kept
<1>1. ASSUME TypeOK, DocumentAgreesWithJob, [Next]_vars PROVE Step
  <2> HIDE DEF Requeued
  <2>1. CASE RowsUnchanged
    BY <2>1 DEF RowsUnchanged
  <2>2. ASSUME NEW d \in Documents, Submit(d) PROVE Step
    BY <1>1, <2>2, SetStateType DEF Submit, TypeOK, States
  <2>3. ASSUME NEW p \in Processes, ClaimFound(p) PROVE Step
    BY <1>1, <2>3, ClaimEffect DEF Expired
  <2>4. ASSUME NEW p \in Processes, CompleteFresh(p) PROVE Step
    BY <1>1, <2>4, CompleteEffect
  <2>5. ASSUME NEW p \in Processes, FailJob(p) PROVE Step
    BY <1>1, <2>5, SettleEffect, SetStateType DEF FailJob, TypeOK, States
  <2>6. ASSUME NEW d \in Documents, NEW actor \in Actors, NEW key \in Keys,
               NEW limit \in AttemptLimits, Retry(d, actor, key, limit)
        PROVE  Step
    <3>1. /\ audit[key] = NoAudit
          /\ audit' = [audit EXCEPT ![key] = [doc |-> d, actor |-> actor]]
          /\ [doc |-> d, actor |-> actor] # NoAudit
      BY <2>6, QueueAssumption DEF QueueAssumption, Retry
    <3>2. key \notin RetryKeys(d) /\ RetryKeys(d)' = RetryKeys(d) \cup {key}
      BY <1>1, <3>1 DEF RetryKeys, TypeOK
    <3>3. job'[d].state = "pending" /\ \A e \in Documents \ {d} : job'[e] = job[e]
      BY <1>1, <2>6, RetryEffect
    <3>4. Requeued(d)
      BY <3>2, <3>3 DEF Requeued
    <3>5. Kept
      BY <1>1, <3>1 DEF TypeOK
    <3> QED BY <3>3, <3>4, <3>5
  <2>7. CASE ClockStep
    BY <1>1, <2>7, ClockEffect
  <2>8. ASSUME NEW p \in Processes, CompleteReplay(p) PROVE Step
    BY <1>1, <2>8 DEF CompleteReplay
  <2> QED BY <1>1, <2>1, <2>2, <2>3, <2>4, <2>5, <2>6, <2>7, <2>8, RowSteps
<1>2. Consistent /\ [Next]_vars => [Step]_vars
  BY <1>1 DEF Consistent
<1> QED BY <1>2, Consistency, PTL DEF Spec, RetryIsAudited

(***************************************************************************)
(* Why the bound holds, and holds inductively: every audited retry but a   *)
(* last one still waiting in the queue was followed by a counted attempt.  *)
(***************************************************************************)
RetryBudget ==
  \A d \in Documents :
    /\ Retries(d) < MaxAttempts
    /\ Retries(d) <= job[d].attempts
    /\ job[d].state \in {"processing", "complete", "failed"} =>
         Retries(d) < job[d].attempts

\* What the budget says of one document, given its row and its retries.
Budgeted(n, row) ==
  /\ n < MaxAttempts
  /\ n <= row.attempts
  /\ row.state \in {"processing", "complete", "failed"} => n < row.attempts

\* Every step keeps every document within its budget.
LEMMA BudgetStep ==
  ASSUME TypeOK, TypeOK', RetryBudget, [Next]_vars PROVE RetryBudget'
<1> USE RetriesAreCounted
<1>1. \A d \in Documents : job[d].attempts \in 0..CountCap /\ job'[d].attempts \in 0..CountCap
  BY DEF TypeOK, Jobs
<1>2. \A d \in Documents : Budgeted(Retries(d), job[d])
  BY DEF RetryBudget, Budgeted
<1>3. SUFFICES \A d \in Documents : Budgeted(Retries(d)', job'[d])
  BY DEF RetryBudget, Budgeted
<1>4. CASE RowsUnchanged
  BY <1>2, <1>4, SameAuditSameRetries DEF RowsUnchanged
<1>5. ASSUME NEW d \in Documents, Submit(d)
      PROVE  \A e \in Documents : Budgeted(Retries(e)', job'[e])
  <2>1. /\ job[d].state = "absent" /\ job'[d].state = "pending"
        /\ job'[d].attempts = job[d].attempts
        /\ \A e \in Documents \ {d} : job'[e] = job[e]
        /\ audit' = audit
    BY <1>5, SetStateType DEF Submit, TypeOK, States
  <2> QED BY <1>2, <2>1, SameAuditSameRetries DEF Budgeted
<1>6. ASSUME NEW p \in Processes, ClaimFound(p)
      PROVE  \A e \in Documents : Budgeted(Retries(e)', job'[e])
  <2>1. PICK d \in Documents :
          /\ job[d].state = "pending" \/ job[d].state = "processing"
          /\ job'[d].attempts = NextAttempt(job[d].attempts)
          /\ \A e \in Documents \ {d} : job'[e] = job[e]
          /\ audit' = audit
    BY <1>6, ClaimEffect DEF Expired
  <2>2. Retries(d) < NextAttempt(job[d].attempts)
    BY <1>1, <1>2, QueueAssumption DEF QueueAssumption, Budgeted, NextAttempt
  <2>3. Budgeted(Retries(d), job'[d])
    BY <1>1, <1>2, <2>1, <2>2 DEF Budgeted
  <2> QED BY <1>2, <2>1, <2>3, SameAuditSameRetries
<1>7. ASSUME NEW p \in Processes, CompleteFresh(p)
      PROVE  \A e \in Documents : Budgeted(Retries(e)', job'[e])
  <2>1. PICK d \in Documents :
          /\ job[d].state = "processing" /\ job'[d].attempts = job[d].attempts
          /\ \A e \in Documents \ {d} : job'[e] = job[e]
          /\ audit' = audit
    BY <1>7, CompleteEffect
  <2>2. Budgeted(Retries(d), job'[d])
    BY <1>2, <2>1 DEF Budgeted
  <2> QED BY <1>2, <2>1, <2>2, SameAuditSameRetries
<1>8. ASSUME NEW p \in Processes, FailJob(p)
      PROVE  \A e \in Documents : Budgeted(Retries(e)', job'[e])
  <2>1. PICK d \in Documents :
          /\ job[d].state = "processing" /\ job'[d].attempts = job[d].attempts
          /\ \A e \in Documents \ {d} : job'[e] = job[e]
          /\ audit' = audit
    BY <1>8, SettleEffect, SetStateType DEF FailJob, TypeOK, States
  <2>2. Budgeted(Retries(d), job'[d])
    BY <1>2, <2>1 DEF Budgeted
  <2> QED BY <1>2, <2>1, <2>2, SameAuditSameRetries
<1>9. ASSUME NEW d \in Documents, NEW actor \in Actors, NEW key \in Keys,
             NEW limit \in AttemptLimits, Retry(d, actor, key, limit)
      PROVE  \A e \in Documents : Budgeted(Retries(e)', job'[e])
  <2>1. limit \in Nat /\ limit <= MaxAttempts /\ MaxAttempts \in Nat
    BY QueueAssumption DEF QueueAssumption
  <2>2. Budgeted(Retries(d)', job'[d])
    BY <1>1, <1>2, <1>9, <2>1, RetryEffect DEF Budgeted
  <2> QED BY <1>2, <1>9, <2>2, RetryEffect
<1>10. CASE ClockStep
  BY <1>2, <1>10, ClockEffect, SameAuditSameRetries DEF Budgeted
<1>11. ASSUME NEW p \in Processes, CompleteReplay(p)
       PROVE  \A e \in Documents : Budgeted(Retries(e)', job'[e])
  BY <1>2, <1>11, SameAuditSameRetries DEF CompleteReplay
<1> QED BY <1>4, <1>5, <1>6, <1>7, <1>8, <1>9, <1>10, <1>11, RowSteps

(***************************************************************************)
(* The inductive invariant behind the bound on retries: audited retries    *)
(* against counted attempts.                                               *)
(***************************************************************************)
THEOREM BudgetKept == Spec => []RetryBudget
<1>1. Init => RetryBudget
  <2> SUFFICES ASSUME Init PROVE RetryBudget
    OBVIOUS
  <2>1. \A d \in Documents : RetryKeys(d) = {}
    BY DEF Init, RetryKeys
  <2>2. \A d \in Documents : Retries(d) = 0
    BY <2>1, FS_EmptySet DEF Retries
  <2> QED BY <2>2, QueueAssumption DEF QueueAssumption, Init, RetryBudget
<1>2. TypeOK /\ TypeOK' /\ RetryBudget /\ [Next]_vars => RetryBudget'
  BY BudgetStep
<1> QED BY <1>1, <1>2, TypeCorrect, PTL DEF Spec

(***************************************************************************)
(* Retrying is bounded: the audited retries of a document stay below the   *)
(* largest attempt limit operators use.                                    *)
(***************************************************************************)
THEOREM RetriesBounded == Spec => []RetriesBelowLimit
<1>1. RetryBudget => RetriesBelowLimit
  BY DEF RetryBudget, RetriesBelowLimit
<1> QED BY <1>1, BudgetKept, PTL

(***************************************************************************)
(* The queue implements the life cycle of documents: leases, owners,       *)
(* clocks, lost calls and crashes are invisible in JobLifecycle, where a   *)
(* reclaim of an expired lease is a stuttering step.                       *)
(***************************************************************************)
THEOREM Implementation == Spec => LifecycleSpec
<1> USE DEF Lifecycle!Next, Lifecycle!Move
<1> DEFINE Phase == [d \in Documents |-> job[d].state]
           Count == [d \in Documents |-> Retries(d)]
<1>1. Init => Lifecycle!Init
  <2> SUFFICES ASSUME Init PROVE Lifecycle!Init
    OBVIOUS
  <2>1. \A d \in Documents : RetryKeys(d) = {}
    BY DEF Init, RetryKeys
  <2>2. \A d \in Documents : Retries(d) = 0
    BY <2>1, FS_EmptySet DEF Retries
  <2> QED BY <2>2 DEF Init, Lifecycle!Init
<1>2. ASSUME Consistent, TypeOK', RetryBudget, [Next]_vars
      PROVE  [Lifecycle!Next]_<<Phase, output, Count>>
  <2> USE DEF Consistent
  <2> DEFINE Step == [Lifecycle!Next]_<<Phase, output, Count>>
  <2>1. audit' = audit => Count' = Count
    BY SameAuditSameRetries
  <2>2. CASE RowsUnchanged
    BY <2>1, <2>2 DEF RowsUnchanged
  <2>3. ASSUME NEW d \in Documents, Submit(d) PROVE Step
    <3>1. /\ job[d].state = "absent" /\ job'[d].state = "pending"
          /\ \A e \in Documents \ {d} : job'[e] = job[e]
          /\ audit' = audit /\ output' = output
      BY <1>2, <2>3, SetStateType DEF Submit, TypeOK, States
    <3>2. Phase' = [Phase EXCEPT ![d] = "pending"]
      BY <3>1
    <3> QED BY <2>1, <3>1, <3>2 DEF Lifecycle!Submit
  <2>4. ASSUME NEW p \in Processes, ClaimFound(p) PROVE Step
    <3>1. PICK d \in Documents :
            /\ job[d].state = "pending" \/ job[d].state = "processing"
            /\ job'[d].state = "processing"
            /\ \A e \in Documents \ {d} : job'[e] = job[e]
            /\ audit' = audit /\ output' = output
      BY <1>2, <2>4, ClaimEffect DEF Expired
    <3>2. Phase' = [Phase EXCEPT ![d] = "processing"]
      BY <3>1
    <3>3. CASE job[d].state = "pending"
      BY <2>1, <3>1, <3>2, <3>3 DEF Lifecycle!Start
    <3>4. CASE job[d].state = "processing"
      <4>1. Phase' = Phase
        BY <3>1, <3>4
      <4> QED BY <2>1, <3>1, <4>1
    <3> QED BY <3>1, <3>3, <3>4
  <2>5. ASSUME NEW p \in Processes, CompleteFresh(p) PROVE Step
    <3>1. PICK d \in Documents :
            /\ job[d].state = "processing" /\ job'[d].state = "complete"
            /\ \A e \in Documents \ {d} : job'[e] = job[e]
            /\ output' = [output EXCEPT ![d] = call[p].out] /\ call[p].out \in Outputs
            /\ audit' = audit
      BY <1>2, <2>5, CompleteEffect
    <3>2. Phase' = [Phase EXCEPT ![d] = "complete"]
      BY <3>1
    <3> QED BY <2>1, <3>1, <3>2 DEF Lifecycle!Complete, Outputs, Lifecycle!Outputs
  <2>6. ASSUME NEW p \in Processes, FailJob(p) PROVE Step
    <3>1. PICK d \in Documents :
            /\ job[d].state = "processing" /\ job'[d].state = "failed"
            /\ \A e \in Documents \ {d} : job'[e] = job[e]
            /\ audit' = audit /\ output' = output
      BY <1>2, <2>6, SettleEffect, SetStateType DEF FailJob, TypeOK, States
    <3>2. Phase' = [Phase EXCEPT ![d] = "failed"]
      BY <3>1
    <3> QED BY <2>1, <3>1, <3>2 DEF Lifecycle!Fail
  <2>7. ASSUME NEW d \in Documents, NEW actor \in Actors, NEW key \in Keys,
               NEW limit \in AttemptLimits, Retry(d, actor, key, limit)
        PROVE  Step
    <3>1. /\ job[d].state = "failed" /\ job'[d].state = "pending"
          /\ \A e \in Documents \ {d} : job'[e] = job[e]
          /\ output' = output
      BY <1>2, <2>7, RetryEffect
    <3>2. Phase' = [Phase EXCEPT ![d] = "pending"]
      BY <3>1
    <3>3. Count' = [Count EXCEPT ![d] = @ + 1]
      BY <1>2, <2>7, RetryEffect
    <3>4. Retries(d) + 1 < MaxAttempts
      <4>1. /\ limit \in Nat /\ MaxAttempts \in Nat /\ limit <= MaxAttempts
            /\ Retries(d) \in Nat /\ job[d].attempts \in Nat
        BY <1>2, QueueAssumption, RetriesAreCounted DEF QueueAssumption, TypeOK, Jobs
      <4>2. Retries(d) < job[d].attempts /\ job[d].attempts < limit
        BY <1>2, <2>7, RetryEffect DEF RetryBudget
      <4> QED BY <4>1, <4>2
    <3> QED BY <3>1, <3>2, <3>3, <3>4 DEF Lifecycle!Retry
  <2>8. CASE ClockStep
    <3>1. Phase' = Phase /\ output' = output /\ audit' = audit
      BY <1>2, <2>8, ClockEffect
    <3> QED BY <2>1, <3>1
  <2>9. ASSUME NEW p \in Processes, CompleteReplay(p) PROVE Step
    <3>1. PICK d \in Documents :
            /\ job[d].state = "complete" /\ job' = job /\ audit' = audit
            /\ output[d] \in Outputs /\ call[p].out \in Outputs
            /\ output[d].facts = call[p].out.facts
            /\ output[d].proposals # NoProposals => output[d] = call[p].out
            /\ output' = [output EXCEPT ![d] = call[p].out]
      BY <1>2, <2>9, ReplayEffect
    <3>2. Phase' = Phase /\ Phase[d] = "complete"
      BY <3>1
    <3>3. CASE output[d] = call[p].out
      <4>1. output' = output
        BY <1>2, <3>1, <3>3 DEF TypeOK
      <4> QED BY <2>1, <3>1, <3>2, <4>1
    <3>4. CASE output[d] # call[p].out
      <4>1. /\ output[d].proposals = NoProposals
            /\ call[p].out.proposals \in ProposalLists
            /\ [output[d] EXCEPT !.proposals = call[p].out.proposals] = call[p].out
        BY <3>1, <3>4 DEF Outputs
      <4>2. output' = [output EXCEPT ![d].proposals = call[p].out.proposals]
        BY <3>1, <4>1
      <4> QED BY <2>1, <3>1, <3>2, <4>1, <4>2 DEF Lifecycle!Supplement
    <3> QED BY <3>3, <3>4
  <2> QED BY <1>2, <2>2, <2>3, <2>4, <2>5, <2>6, <2>7, <2>8, <2>9, RowSteps
<1>3. Consistent /\ TypeOK' /\ RetryBudget /\ [Next]_vars
        => [Lifecycle!Next]_(Lifecycle!lvars)
  BY <1>2 DEF Lifecycle!lvars
<1> QED BY <1>1, <1>3, Consistency, TypeCorrect, BudgetKept, PTL
        DEF Spec, LifecycleSpec, Lifecycle!Spec
=============================================================================
