-------------------------- MODULE ProcessingQueue --------------------------
(***************************************************************************)
(* The durable processing queue: the rows of processing_job and document   *)
(* in SQLite, the polling workers and the synchronous callers that claim a *)
(* job under a lease, process it outside any transaction and settle it,    *)
(* and the operator that sends a failed job back to the queue.             *)
(*                                                                         *)
(* Every operation of PersistenceService reads the wall clock BEFORE it    *)
(* asks for SQLite's write lock (BEGIN IMMEDIATE), may wait for the lock,  *)
(* and then runs alone: one step samples the clock and a later, separate   *)
(* step is the transaction, which judges leases by the older sample.       *)
(*                                                                         *)
(* Times are kept relative to the present: a lease's `expires' is the time *)
(* it has left (negative once it is over), a call's `age' is how long ago  *)
(* it sampled the clock. A Tick moves both, so no clock grows for ever.    *)
(* When the wall clock is set back leases gain time, and a sample that was *)
(* taken before has a negative age.                                        *)
(***************************************************************************)
EXTENDS Integers, FiniteSets

CONSTANTS
  Documents,      \* document ids; the text order of the UUIDs is their order
  Workers,        \* polling worker processes
  SyncCallers,    \* processes that call submit_and_process
  Facts,          \* what extraction yields: type, date, extractor, signals
  ProposalLists,  \* what matching yields when it proposes something
  Actors,         \* who may ask for a retry
  Keys,           \* idempotency keys of retries
  AttemptLimits,  \* the limits operators pass to a retry
  MaxAttempts,    \* the largest of them
  WorkerLease,    \* the lease of a worker, in ticks
  SyncLease,      \* the lease of a synchronous caller, in ticks
  MaxWait,        \* bound: ticks between a clock sample and its transaction
  MaxSetBack,     \* bound: how far the wall clock is set back under a sample
  CountCap,       \* bound: attempt_count is not counted beyond it
  MaxLives,       \* bound: process starts (worker ids) per process
  Punctual,       \* TRUE: no holder stalls until its lease runs out
  NoProposals,    \* matching proposes nothing
  NoDocument, NoOutput, NoWorker, NoAudit

Processes == Workers \cup SyncCallers

Outputs == [facts : Facts, proposals : ProposalLists \cup {NoProposals}]

ASSUME QueueAssumption ==
  /\ Documents \subseteq Nat
  /\ NoDocument \notin Documents
  /\ NoOutput \notin Outputs
  /\ NoProposals \notin ProposalLists
  /\ NoWorker \notin Processes \X Nat
  /\ NoAudit \notin [doc : Documents, actor : Actors]
  /\ IsFiniteSet(Keys)
  /\ MaxAttempts \in Nat \ {0}
  /\ AttemptLimits \subseteq 1..MaxAttempts
  /\ WorkerLease \in Nat \ {0}
  /\ SyncLease \in Nat \ {0}
  /\ MaxWait \in Nat
  /\ MaxSetBack \in Nat
  /\ CountCap \in Nat /\ MaxAttempts <= CountCap
  /\ MaxLives \in Nat
  /\ Punctual \in BOOLEAN

VARIABLES
  job,       \* the processing_job row of each document
  document,  \* document.processing_state
  output,    \* the facts and the proposals stored for each document
  audit,     \* the audit_event of each retry key
  call,      \* what each process is doing, and the clock sample it holds
  life       \* how many worker ids each process has used

vars == <<job, document, output, audit, call, life>>

States == {"absent", "pending", "processing", "complete", "failed"}

WorkerIds == Processes \X Nat

Jobs == [state : States, attempts : 0..CountCap,
         owner : WorkerIds \cup {NoWorker}, expires : Int]

\* A sample lies in the future only as far as the clock is set back.
Ages == {a \in Int : a >= -MaxSetBack}

Calls == [at : {"down", "idle", "claim", "working", "complete", "fail"},
          doc : Documents \cup {NoDocument}, age : Ages,
          out : Outputs \cup {NoOutput}]

(***************************************************************************)
(* Every process start, and every synchronous call, draws a fresh id.      *)
(***************************************************************************)
WorkerId(p) == <<p, life[p]>>

LeaseOf(p) == IF p \in Workers THEN WorkerLease ELSE SyncLease

Idle == [at |-> "idle", doc |-> NoDocument, age |-> 0, out |-> NoOutput]

Down == [Idle EXCEPT !.at = "down"]

\* A call that just sampled the clock and now waits for the write lock.
Sampled(at, d, o) == [at |-> at, doc |-> d, age |-> 0, out |-> o]

Waiting(p) == call[p].at \in {"claim", "complete", "fail"}

Init ==
  /\ job = [d \in Documents |-> [state |-> "absent", attempts |-> 0,
                                 owner |-> NoWorker, expires |-> 0]]
  /\ document = [d \in Documents |-> "absent"]
  /\ output = [d \in Documents |-> NoOutput]
  /\ audit = [k \in Keys |-> NoAudit]
  /\ call = [p \in Processes |-> Idle]
  /\ life = [p \in Processes |-> 0]

\* Mutant of SetState: the document row is forgotten.
SetJobStateOnly(d, s) ==
  /\ job' = [job EXCEPT ![d] = [state |-> s, attempts |-> @.attempts,
                                 owner |-> NoWorker, expires |-> 0]]
  /\ UNCHANGED document

(***************************************************************************)
(* A job leaves the hands of its owner: no lease_owner, no expiry.         *)
(***************************************************************************)
SetState(d, s) ==
  /\ job' = [job EXCEPT ![d] = [state |-> s, attempts |-> @.attempts,
                                 owner |-> NoWorker, expires |-> 0]]
  /\ document' = [document EXCEPT ![d] = s]

Become(p, c) == call' = [call EXCEPT ![p] = c]

(***************************************************************************)
(* Ingest of evidence not seen before enqueues its document. A repeated    *)
(* submission finds the document and writes nothing to these tables.       *)
(***************************************************************************)
Submit(d) ==
  /\ job[d].state = "absent"
  /\ SetState(d, "pending")
  /\ UNCHANGED <<output, audit, call, life>>

(***************************************************************************)
(* Claiming. A worker polls for any job; a synchronous caller first reads, *)
(* in a connection of its own, that its document's job is not complete,    *)
(* and then claims that document under a new id.                           *)
(***************************************************************************)
Poll(p) ==
  /\ p \in Workers
  /\ call[p].at = "idle"
  /\ Become(p, Sampled("claim", NoDocument, NoOutput))
  /\ UNCHANGED <<job, document, output, audit, life>>

StartSync(p) ==
  /\ p \in SyncCallers
  /\ call[p].at = "idle"
  /\ life[p] < MaxLives
  /\ \E d \in Documents :
       /\ job[d].state \notin {"absent", "complete"}
       /\ Become(p, Sampled("claim", d, NoOutput))
  /\ life' = [life EXCEPT ![p] = @ + 1]
  /\ UNCHANGED <<job, document, output, audit>>

\* Mutant of Expired: the expiry is not compared with the sample.
ExpiredUnchecked(d, age) == job[d].state = "processing"

Expired(d, age) == job[d].state = "processing" /\ job[d].expires < -age

\* Mutant of Claimable: failed jobs are picked up without a retry.
ClaimableFailed(p) ==
  {d \in Documents : /\ call[p].doc \in {NoDocument, d}
                     /\ job[d].state \in {"pending", "failed"}
                        \/ Expired(d, call[p].age)}

\* Mutant of Claimable: a lease is never taken over.
ClaimablePending(p) ==
  {d \in Documents : call[p].doc \in {NoDocument, d} /\ job[d].state = "pending"}

Claimable(p) ==
  {d \in Documents : /\ call[p].doc \in {NoDocument, d}
                     /\ job[d].state = "pending" \/ Expired(d, call[p].age)}

NextAttempt(n) == IF n < CountCap THEN n + 1 ELSE n

ClaimFound(p) ==
  /\ call[p].at = "claim"
  /\ \E d \in Claimable(p) :
       /\ \A e \in Claimable(p) : d <= e
       /\ job' = [job EXCEPT ![d] =
                    [state |-> "processing", attempts |-> NextAttempt(@.attempts),
                     owner |-> WorkerId(p), expires |-> LeaseOf(p) - call[p].age]]
       /\ document' = [document EXCEPT ![d] = "processing"]
       /\ Become(p, [Idle EXCEPT !.at = "working", !.doc = d])
  /\ UNCHANGED <<output, audit, life>>

ClaimNone(p) ==
  /\ call[p].at = "claim"
  /\ Claimable(p) = {}
  /\ Become(p, Idle)
  /\ UNCHANGED <<job, document, output, audit, life>>

\* Mutant of Prepare: a processing error is swallowed.
PrepareSwallowing(p) ==
  /\ call[p].at = "working"
  /\ \E o \in Outputs \cup {NoOutput} : Become(p, Sampled("complete", call[p].doc, o))
  /\ UNCHANGED <<job, document, output, audit, life>>

(***************************************************************************)
(* Extraction and matching run outside any write transaction. They yield   *)
(* an output (which one depends on the reference data read) or raise, and  *)
(* the completion, or failure, that follows samples the clock.             *)
(***************************************************************************)
Prepare(p) ==
  /\ call[p].at = "working"
  /\ \/ \E o \in Outputs : Become(p, Sampled("complete", call[p].doc, o))
     \/ Become(p, Sampled("fail", call[p].doc, NoOutput))
  /\ UNCHANGED <<job, document, output, audit, life>>

(***************************************************************************)
(* Completion. An already complete job is compared with the request and    *)
(* replayed for anyone, lease or not; otherwise only the owner of an       *)
(* unexpired lease may write, in one transaction, the whole output and the *)
(* two states. In a replay the facts must be those stored, and so must the *)
(* proposals, unless none are stored: then the request's are inserted.     *)
(***************************************************************************)
\* Mutant of HoldsLease: the owner is not compared.
HoldsAnyLease(p) ==
  LET d == call[p].doc
  IN  job[d].state = "processing" /\ job[d].expires > -call[p].age

HoldsLease(p) ==
  LET d == call[p].doc
  IN  /\ job[d].state = "processing"
      /\ job[d].owner = WorkerId(p)
      /\ job[d].expires > -call[p].age

\* Mutant of CanReplay: a complete job answers every completion.
CanReplayAny(p) == job[call[p].doc].state = "complete"

CanReplay(p) ==
  LET stored == output[call[p].doc]
  IN  /\ job[call[p].doc].state = "complete"
      /\ stored.facts = call[p].out.facts
      /\ stored.proposals \in {NoProposals, call[p].out.proposals}

\* Signals, then validated proposals with their evidence, in one transaction.
StoreOutput(p) == output' = [output EXCEPT ![call[p].doc] = call[p].out]

\* Stored proposals stay; where none are, the request's are written.
AddProposals(p) ==
  output' = [output EXCEPT ![call[p].doc].proposals =
               IF @ = NoProposals THEN call[p].out.proposals ELSE @]

CompleteFresh(p) ==
  /\ call[p].at = "complete"
  /\ HoldsLease(p)
  /\ StoreOutput(p)
  /\ SetState(call[p].doc, "complete")
  /\ Become(p, Idle)
  /\ UNCHANGED <<audit, life>>

CompleteReplay(p) ==
  /\ call[p].at = "complete"
  /\ CanReplay(p)
  /\ AddProposals(p)
  /\ Become(p, Idle)
  /\ UNCHANGED <<job, document, audit, life>>

\* The exception is caught by the caller, which then tries to fail the job.
CompleteConflict(p) ==
  /\ call[p].at = "complete"
  /\ ~ HoldsLease(p) /\ ~ CanReplay(p)
  /\ Become(p, Sampled("fail", call[p].doc, NoOutput))
  /\ UNCHANGED <<job, document, output, audit, life>>

\* Mutant of FailJob: the lease is not checked.
FailJobUnchecked(p) ==
  /\ call[p].at = "fail"
  /\ SetState(call[p].doc, "failed")
  /\ Become(p, Idle)
  /\ UNCHANGED <<output, audit, life>>

FailJob(p) ==
  /\ call[p].at = "fail"
  /\ HoldsLease(p)
  /\ SetState(call[p].doc, "failed")
  /\ Become(p, Idle)
  /\ UNCHANGED <<output, audit, life>>

\* The worker logs the lost lease and polls again; the caller re-raises.
FailConflict(p) ==
  /\ call[p].at = "fail"
  /\ ~ HoldsLease(p)
  /\ Become(p, Idle)
  /\ UNCHANGED <<job, document, output, audit, life>>

(***************************************************************************)
(* A transaction may fail without effect at any point: the lock stays busy *)
(* past busy_timeout, evidence does not validate, the disk is full. It is  *)
(* rolled back. A failed claim is logged and polled again, a failed        *)
(* completion leads to the failure transition, a lost one is only logged.  *)
(***************************************************************************)
TransactionFails(p) ==
  /\ Waiting(p)
  /\ Become(p, IF call[p].at = "complete"
               THEN Sampled("fail", call[p].doc, NoOutput) ELSE Idle)
  /\ UNCHANGED <<job, document, output, audit, life>>

\* Mutant of Retry: the limit is off by one.
RetryAtLimit(d, actor, key, limit) ==
  /\ audit[key] = NoAudit
  /\ job[d].state = "failed"
  /\ job[d].attempts <= limit
  /\ SetState(d, "pending")
  /\ audit' = [audit EXCEPT ![key] = [doc |-> d, actor |-> actor]]
  /\ UNCHANGED <<output, call, life>>

\* Mutant of Retry: no replay check, a key used before transitions again.
RetryWithoutReplay(d, actor, key, limit) ==
  /\ job[d].state = "failed"
  /\ job[d].attempts < limit
  /\ SetState(d, "pending")
  /\ audit' = [audit EXCEPT ![key] = [doc |-> d, actor |-> actor]]
  /\ UNCHANGED <<output, call, life>>

(***************************************************************************)
(* An operator's retry. A key that is already audited changes nothing: it  *)
(* is replayed for the same document and actor and refused otherwise. So   *)
(* is a retry of a job that is not failed or has used up its attempts.     *)
(***************************************************************************)
Retry(d, actor, key, limit) ==
  /\ audit[key] = NoAudit
  /\ job[d].state = "failed"
  /\ job[d].attempts < limit
  /\ SetState(d, "pending")
  /\ audit' = [audit EXCEPT ![key] = [doc |-> d, actor |-> actor]]
  /\ UNCHANGED <<output, call, life>>

(***************************************************************************)
(* A process dies at any instant; whatever transaction it had open is      *)
(* rolled back, what it held in memory is gone. It is started again with a *)
(* new worker id (compose.yaml: restart: unless-stopped).                  *)
(***************************************************************************)
Crash(p) ==
  /\ call[p].at # "down"
  /\ life[p] < MaxLives
  /\ Become(p, Down)
  /\ UNCHANGED <<job, document, output, audit, life>>

Restart(p) ==
  /\ call[p].at = "down"
  /\ Become(p, Idle)
  /\ life' = [life EXCEPT ![p] = @ + 1]
  /\ UNCHANGED <<job, document, output, audit>>

(***************************************************************************)
(* Time passes. No call waits for its transaction longer than MaxWait, and *)
(* a lease that is over by more than that, and than the clock is set back, *)
(* is expired for every sample, so it is not counted down further. When    *)
(* Punctual, the holder of a lease that is still at work does not let it   *)
(* run out: the lease, max(ocr_timeout_seconds + 30, 60), is sized to      *)
(* outlast the bounded extraction; see TextExtraction for why it does.     *)
(***************************************************************************)
AtWork(p) == call[p].at \in {"working", "complete", "fail"}

InTime ==
  \A p \in Processes : \A d \in Documents :
    AtWork(p) /\ call[p].doc = d /\ job[d].state = "processing"
      /\ job[d].owner = WorkerId(p) => job[d].expires > 1

Tick ==
  /\ \A p \in Processes : Waiting(p) => call[p].age < MaxWait
  /\ Punctual => InTime
  /\ call' = [p \in Processes |->
                IF Waiting(p) THEN [call[p] EXCEPT !.age = @ + 1] ELSE call[p]]
  /\ job' = [d \in Documents |->
               IF job[d].state = "processing" /\ job[d].expires >= -MaxWait - MaxSetBack
               THEN [job[d] EXCEPT !.expires = @ - 1] ELSE job[d]]
  /\ UNCHANGED <<document, output, audit, life>>

(***************************************************************************)
(* The wall clock, which _now reads, is set back (by an operator, or after *)
(* a correction of the time): what was stamped or sampled before moves     *)
(* into the future. Setting it forward is a row of Ticks.                  *)
(***************************************************************************)
SetClockBack ==
  \E k \in 1..MaxSetBack :
    /\ \A p \in Processes : Waiting(p) => call[p].age - k >= -MaxSetBack
    /\ \A d \in Documents : job[d].state = "processing" =>
         job[d].expires + k <= LeaseOf(job[d].owner[1]) + MaxSetBack
    /\ call' = [p \in Processes |->
                  IF Waiting(p) THEN [call[p] EXCEPT !.age = @ - k] ELSE call[p]]
    /\ job' = [d \in Documents |->
                 IF job[d].state = "processing"
                 THEN [job[d] EXCEPT !.expires = @ + k] ELSE job[d]]
    /\ UNCHANGED <<document, output, audit, life>>

ClockStep == Tick \/ SetClockBack

ProcessStep(p) ==
  \/ Poll(p) \/ StartSync(p)
  \/ ClaimFound(p) \/ ClaimNone(p)
  \/ Prepare(p)
  \/ CompleteFresh(p) \/ CompleteReplay(p) \/ CompleteConflict(p)
  \/ FailJob(p) \/ FailConflict(p)
  \/ TransactionFails(p)
  \/ Crash(p) \/ Restart(p)

OperatorStep ==
  \E d \in Documents, actor \in Actors, key \in Keys, limit \in AttemptLimits :
    Retry(d, actor, key, limit)

Next ==
  \/ \E d \in Documents : Submit(d)
  \/ \E p \in Processes : ProcessStep(p)
  \/ OperatorStep
  \/ ClockStep

Spec == Init /\ [][Next]_vars

(***************************************************************************)
(* Fairness of the scheduling the code relies on: time passes, a process   *)
(* that can take its next step does, a worker is restarted, and the write  *)
(* lock is not busy every single time a worker asks for it (hence SF).     *)
(***************************************************************************)
Fairness ==
  /\ WF_vars(Tick)
  /\ \A p \in Processes :
       /\ WF_vars(Poll(p)) /\ WF_vars(Prepare(p)) /\ WF_vars(Restart(p))
       /\ SF_vars(ClaimFound(p) \/ ClaimNone(p))
       /\ SF_vars(CompleteFresh(p) \/ CompleteReplay(p) \/ CompleteConflict(p))
       /\ SF_vars(FailJob(p) \/ FailConflict(p))

FairSpec == Spec /\ Fairness

-----------------------------------------------------------------------------
(***************************************************************************)
(* Types. `expires' counts only while a lease is held, and a request that  *)
(* reached complete_processing carries the output it was prepared with.    *)
(***************************************************************************)
TypeOK ==
  /\ job \in [Documents -> Jobs]
  /\ document \in [Documents -> States]
  /\ output \in [Documents -> Outputs \cup {NoOutput}]
  /\ audit \in [Keys -> [doc : Documents, actor : Actors] \cup {NoAudit}]
  /\ call \in [Processes -> Calls]
  /\ life \in [Processes -> Nat]
  /\ \A p \in Processes :
       /\ AtWork(p) => call[p].doc \in Documents
       /\ call[p].at = "complete" => call[p].out \in Outputs

(***************************************************************************)
(* What the two tables and the output tell a reader of one snapshot always *)
(* agrees: document.processing_state is the state of its job, and a        *)
(* document has stored output exactly when its job is complete, so no      *)
(* crash, lost lease or failed attempt leaves a partial or early output.   *)
(***************************************************************************)
DocumentAgreesWithJob ==
  \A d \in Documents :
    /\ document[d] = job[d].state
    /\ output[d] # NoOutput <=> job[d].state = "complete"

RetryKeys(d) == {k \in Keys : audit[k] # NoAudit /\ audit[k].doc = d}

Retries(d) == Cardinality(RetryKeys(d))

(***************************************************************************)
(* Retrying is attempt-bounded in the long run: whatever keys, actors and  *)
(* limits operators use, and however often leases expire in between, the   *)
(* audited retries of a document stay below the largest limit.             *)
(***************************************************************************)
RetriesBelowLimit == \A d \in Documents : Retries(d) < MaxAttempts

(***************************************************************************)
(* A completed document is final: no late completion under an expired      *)
(* lease, late failure, retry or reclaim ever changes its rows, its facts  *)
(* or a proposal that a reviewer may have seen.                            *)
(***************************************************************************)
CompleteIsFinal ==
  [][\A d \in Documents : job[d].state = "complete" =>
       /\ job'[d] = job[d]
       /\ document'[d] = document[d]
       /\ output'[d].facts = output[d].facts
       /\ output[d].proposals # NoProposals => output'[d] = output[d]]_vars

\* Process p's call settles document d in this step.
SettledBy(p, d) ==
  /\ call[p].doc = d /\ job[d].owner = WorkerId(p)
  /\ call[p].at \in {"complete", "fail"} /\ call'[p].at = "idle"

(***************************************************************************)
(* Mutual exclusion by lease, although leases are judged by clock samples  *)
(* older than the transaction, and the clock may be set back in between:   *)
(* while a lease has more time left than that, the job stays with its      *)
(* owner until the owner's own call settles it.                            *)
(***************************************************************************)
LiveLeaseIsExclusive ==
  [][\A d \in Documents :
       job[d].state = "processing" /\ job[d].expires >= MaxSetBack
       /\ (job'[d].state # "processing" \/ job'[d].owner # job[d].owner)
       => \E p \in Processes : SettledBy(p, d)]_vars

(***************************************************************************)
(* The claim a call settles is the claim it has worked under. An owner is  *)
(* all that tells claims apart, and leases expire and are claimed again:   *)
(* still, a call that has lost its job never owns it again, no one else    *)
(* claims it while it does, and a job ends only by a call that owns it, in *)
(* that call's last step.                                                  *)
(***************************************************************************)
Owns(p) ==
  /\ AtWork(p)
  /\ job[call[p].doc].state = "processing" /\ job[call[p].doc].owner = WorkerId(p)

ClaimIsFenced ==
  [][/\ \A p \in Processes : AtWork(p) /\ Owns(p)' =>
          Owns(p) /\ job'[call[p].doc].attempts = job[call[p].doc].attempts
     /\ \A d \in Documents : job[d].state = "processing" /\ job'[d].state # "processing" =>
          \E p \in Processes : Owns(p) /\ call[p].doc = d /\ call'[p].at = "idle"]_vars

(***************************************************************************)
(* Who keeps to the lease is never robbed of the work: as long as the      *)
(* clock is not set back and leases are longer than the wait for the lock, *)
(* a punctual holder's completion or failure transition always finds the   *)
(* lease its own and unexpired, however old its sample of the clock and    *)
(* that of its rivals is. So no document is processed twice at once.       *)
(***************************************************************************)
WorkIsNeverLost == \A p \in Processes : AtWork(p) => HoldsLease(p)

(***************************************************************************)
(* A caller of complete_processing that gets an answer and no exception,   *)
(* first completion or replay after losing its lease to another worker,    *)
(* finds exactly its own output stored.                                    *)
(***************************************************************************)
AcknowledgedOutputIsStored ==
  [][\A p \in Processes :
       LET d == call[p].doc
       IN  call[p].at = "complete" /\ call'[p].at = "idle" =>
             job'[d].state = "complete" /\ output'[d] = call[p].out]_vars

(***************************************************************************)
(* A failed job goes back to the queue only by an audited retry: the step  *)
(* records one new key for that document, and no key recorded before is    *)
(* ever changed; a replayed key causes no second transition.               *)
(***************************************************************************)
RetryIsAudited ==
  [][/\ \A d \in Documents :
          job[d].state = "failed" /\ job'[d].state # "failed" =>
            /\ job'[d].state = "pending"
            /\ \E k \in Keys : RetryKeys(d)' = RetryKeys(d) \cup {k} /\ k \notin RetryKeys(d)
     /\ \A k \in Keys : audit[k] # NoAudit => audit'[k] = audit[k]]_vars

(***************************************************************************)
(* The queue implements the abstract life cycle of a document.             *)
(***************************************************************************)
Lifecycle == INSTANCE JobLifecycle WITH
  phase <- [d \in Documents |-> job[d].state],
  result <- output,
  retries <- [d \in Documents |-> Retries(d)]

LifecycleSpec == Lifecycle!Spec

(***************************************************************************)
(* Every submitted document settles, across crashes and restarts, busy     *)
(* transactions and lost failure transitions: recovery after lease expiry  *)
(* leaves no job behind, whatever other documents are queued before it.    *)
(***************************************************************************)
EverySubmissionSettles ==
  \A d \in Documents :
    job[d].state \in {"pending", "processing"} ~> job[d].state \in {"complete", "failed"}

(***************************************************************************)
(* What the plan and the docstring of ProposalConflict say: proposals are  *)
(* inserted under a verified lease, and a replay whose proposals differ    *)
(* from the persisted ones is a conflict. So once a document is complete,  *)
(* no completion changes its output.                                       *)
(***************************************************************************)
CompletedOutputIsFrozen ==
  [][\A d \in Documents :
       job[d].state = "complete" => output'[d] = output[d]]_vars
=============================================================================
