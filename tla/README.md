# A TLA+ model of reverse-cms

The repository is a small, local, deterministic document pipeline: a person
submits a PDF or image, its bytes are kept as immutable evidence, a worker
extracts signals and proposes links to known subjects, a reviewer confirms one
of them, and related documents are found through the confirmed relation. A web
process, worker processes and operator commands share one SQLite database and
one directory of evidence; the database, and links that either exist or do not,
are the only means they have to coordinate. This directory models that
coordination, checks it with TLC and proves the main results about it with
TLAPS.

All source paths below are relative to `src/src/reversecrm/` unless they start
with `docs/`, `tests/` or name a file at the top of the repository.

## 1. Inventory

| Component | State it keeps | Operations | Talks to |
|---|---|---|---|
| processing queue (`db/services.py` claim, complete, fail, retry; `ingest/worker.py`; `core.py` `submit_and_process`; `cli.py` `retry`) | `processing_job`, `document`, `extraction_signal`, `proposal`, `proposal_evidence`, the `processing.retry` audit events | enqueue, claim under a lease, complete or replay, fail, retry | evidence (reads the file), matching (reads candidates, validates), SQLite |
| confirmation (`db/services.py` `ConfirmationService`, two routes of `web/app.py`) | `review_decision`, `relation`, `evidence_link`, `proposal.state`, the `proposal.accepted` audit events | confirm | matching (revalidates evidence), SQLite |
| SQLite policy (`db/connection.py`) | the write lock, WAL snapshots | `connect`, `transaction` (BEGIN IMMEDIATE, commit or roll back) | everyone |
| evidence store and ingestion (`evidence/store.py`, `db/services.py` `ingest_placement`) | files by digest, `evidence_blob`, `source_reference` | place, resolve, register | queue (enqueues the document) |
| integrity inspection (`evidence/integrity.py`) | none | inspect | database and directory |
| matching (`match/service.py`, `match/persistence.py`) | none (reads reference data) | find candidates, score, validate | queue, confirmation |
| extraction (`extract/anchors.py`, `domain/normalise.py`) | none | recognise a document and its signals | queue |
| bounded text extraction (`ingest/pipeline.py`) | a child process and its pipe | extract | queue |
| review reads (`core.py` `proposals`, `counts`; `query_related_documents`) | none | read, SELECT by SELECT | web |
| web surface (`web/app.py`), command line (`cli.py`), settings (`config.py`) | sessions in signed cookies | HTTP, commands | core |
| migrations, fixtures, acceptance harness | | | |

What is hard in it:

* **Interleaving.** Any number of workers and synchronous callers claim the
  same rows. A lease is judged by a clock read *before* the wait for SQLite's
  write lock (`db/services.py:653`, `:707`, `:748`), so every decision is made
  with a stale sample.
* **Failure.** A process may die between claim and completion; a transaction
  may fail on a busy lock; the transition to `failed` may itself fail
  (`ingest/worker.py:130`). Recovery is lease expiry, nothing else.
* **Late and repeated calls.** A worker that overran its lease still completes
  or fails; retries and confirmations are repeated with the same or another
  idempotency key.
* **Atomicity.** Completion and confirmation write several tables.
* **Two stores.** Evidence is a file and a row; no transaction spans both, and
  what is visible is not yet what a loss of power leaves.
* **Ordering and time.** Proposals are validated when persisted and again when
  confirmed, with reference data edited in between. Leases are wall-clock times
  compared as text, and a clock can be set back.
* **Torn reads.** Only writers open transactions. `Database.connect()` gives a
  connection on which a SELECT begins none, so a page made of several SELECTs
  is made of several moments.
* **A process one does not trust.** The text of a document comes from a tool
  that may print without end, stall, crash half way or linger.

What makes each part correct:

* queue: a live lease is exclusive; a completed document is final; a caller
  that is told "done" finds its output; tables agree at every instant; retries
  are audited, idempotent and bounded; every submission settles;
* confirmation: whole or absent, at most one decision per proposal, no raw
  constraint error, replies that stand, only valid evidence;
* evidence: registered evidence survives; what is on disk and unregistered is
  reported;
* matching: what the matcher drafts the validator accepts; the best candidates
  are the ones proposed;
* bounded extraction: bounded in bytes and time on every path, whole or
  refused, and reaped;
* review: a page that says "complete" misses nothing, a press means what the
  page showed, what was confirmed is retrieved with its evidence.

`PROJECT.json` lists the hazards at their lines, with the properties that
cover them, or the reason why none does.

## 2. Modules

| Module | Models | Notes |
|---|---|---|
| `JobLifecycle` | what the queue promises about each document | abstract: phase, result, number of retries |
| `ProcessingQueue` | the queue in detail | implements `JobLifecycle` |
| `MCProcessingQueue` | instances for TLC | documents are `1..DocumentCount` |
| `ProcessingQueueProofs` | theorems | TLAPS |
| `Timestamps` | the texts of times, and their order | pure operators |
| `LeaseTexts` | the texts by which leases are compared | over the states of the queue |
| `TimestampProofs` | theorems | TLAPS |
| `ReviewLedger` | what confirmation promises | abstract: the accepting decision of each proposal |
| `Confirmation` | `confirm`, statement by statement | implements `ReviewLedger` |
| `MCConfirmation` | instances for TLC | |
| `ConfirmationProofs` | theorems | TLAPS |
| `EvidenceLedger` | what the store promises about accepted evidence | abstract: what is shown, what sources stand for, answers |
| `EvidenceStore` | placement, registration and inspection of evidence | implements `EvidenceLedger` |
| `MCEvidenceStore` | instances for TLC | digests and the directories they fall into |
| `EvidenceStoreProofs` | theorems | TLAPS |
| `Matching` | candidate lookups, scoring, and the two validators of evidence | |
| `MCMatching` | instances for TLC | objects are numbered in the order of their ids |
| `MatchingProofs` | theorems | TLAPS |
| `TextExtraction` | the extractor, its child process and the pipe | |
| `MCTextExtraction` | an instance for TLC | |
| `TextExtractionProofs` | theorems | TLAPS |
| `ReviewLoop` | pages, presses and retrieval over queue and ledger | composes `JobLifecycle` and `ReviewLedger` |
| `MCReviewLoop` | an instance for TLC | |
| `ReviewLoopProofs` | theorems | TLAPS |

The queue and the evidence store meet in one transaction: `RegisterNew` there
is what enqueues the document, `Submit` here. The queue's `Prepare` lets the
reading of a file fail, so it relies on nothing that `EvidenceStore` may not
give. `Matching` opens up one `Prepare` and its completion, which the queue
takes for any output and a choice to accept or fail; `Confirmation` repeats
its validation when a reviewer decides. `TextExtraction` opens up the first
half of the same `Prepare`, and shows that it ends before its lease does
(`LeaseOutlastsExtraction`), which the queue's liveness assumes as `Punctual`.
`ReviewLoop` composes queue and confirmation, each at its abstract
specification, which the detailed modules are shown to implement, and adds
everyone who only reads:

        ProcessingQueue --implements--> JobLifecycle --+
                                                       +--> ReviewLoop
        Confirmation ----implements--> ReviewLedger ---+

        EvidenceStore ---implements--> EvidenceLedger

`EvidenceLedger` stands by itself: the queue relies on nothing the store may
not give, and evidence is not read by reviewers through the database.

### ProcessingQueue

One row of `job` is a row of `processing_job` (state, attempt count, owner and
expiry of the lease), `document` is `document.processing_state`, `output` is
everything a completion writes: the *facts* (document type and date, extractor
version, signals), which must agree in a replay, and the *proposals*, which
must agree only if some are stored. `audit` is the `processing.retry` audit
event of each key. `call` is the program counter of each process and the
arguments and clock sample of the call it has in flight; `life` counts the
worker ids a process has drawn (host, pid and random suffix in the code).

`PersistenceService` reads the clock, then waits for `BEGIN IMMEDIATE`, then
runs alone. So an operation is two steps: one puts a process in `claim`,
`complete` or `fail` with a fresh sample, the other is the whole transaction.
In between time passes and other transactions run. Because the transaction is
serial, its statements need no interleaving here; `Confirmation` shows what
`BEGIN IMMEDIATE` gives, statement by statement.

Time is relative: a lease's `expires` is the time it has left, a call's `age`
is how long ago it sampled the clock, and `Tick` moves both. The code's
`lease_expires_at < now` is then `expires < -age`. No variable grows for ever,
and the check needs no artificial end of time. `SetClockBack` is the one step
of the wall clock that goes the other way (`utc_now` is `datetime.now(UTC)`,
`db/services.py:63`): every lease lasts longer, every sample comes from nearer
or even from the future, at most `MaxSetBack` ticks of it.

| Action | Code |
|---|---|
| `Submit` | `_get_or_create_document`, `db/services.py:312` |
| `Poll`, `StartSync` | `_poll_forever`, `ingest/worker.py:162`; `submit_and_process`, `core.py:123` |
| `ClaimFound`, `ClaimNone` | `claim_processing_job`, `db/services.py:643` |
| `Prepare` | `prepare_processing`, `core.py:203`: any output, or an exception |
| `CompleteFresh`, `CompleteReplay`, `CompleteConflict` | `complete_processing`, `db/services.py:733` |
| `FailJob`, `FailConflict` | `fail_processing_job`, `db/services.py:703`, and its callers |
| `TransactionFails` | roll back of `transaction()`, `db/connection.py:44`, for any reason |
| `Retry` | `retry_processing_job`, `db/services.py:918` |
| `Crash`, `Restart` | death of a process; `restart: unless-stopped` in `compose.yaml` |
| `Tick`, `SetClockBack` | the wall clock |

The stored leases are ISO texts and SQLite compares bytes. `Timestamps` keeps
of a text what decides the comparison: the part down to the second, which has a
fixed width, and then either the offset at once (`+`) or a point and six
digits. `LeaseTexts` takes the present to be any of some times and a tick to be
any of some lengths, writes the expiry of every lease and the sample of every
call as such texts, and says that the texts compare as the queue's numbers do
(`TextsTellLeases`).

What a lease is worth is said in three ways. `LiveLeaseIsExclusive`: nobody
else gets the job while the lease runs. `ClaimIsFenced`: the row keeps only the
document and the owner, no number of the claim, and yet the lease that lets a
call complete or fail a job is always the one its own claim gave it, so a late
call cannot pass with a later lease. It holds because a worker id is drawn
anew by every process and synchronous call, and a worker has one call at a
time. `WorkIsNeverLost`: who is punctual never finds its job gone, although
everyone else judges its lease by samples from before their wait for the lock.
This needs `MaxWait` to be less than a lease; in the code a call waits at most
5 s (`busy_timeout`, `db/connection.py`) and a lease is 60 s or more.

`error_code` and `updated_at` are left out: nothing reads them. Refused
retries, replays of retries and repeated submissions write nothing to these
tables and are not separate actions.

### Confirmation

`db` is what is committed, `conn` holds each request's arguments, its progress
and its uncommitted rows, `lock` the holder of the write lock. The five writes
are five actions, `Commit` shows them at once, `RollBack` stands for an error,
a busy lock or a death at any point. `persisted` and `stale` stand for the
proposals processing has written and for reference data edited from outside
(external: nothing in the repository edits it; that is modelled from how
`validate` uses it). `replies` is a history variable: the successful answers.

### EvidenceStore

`file` and `directories` are what the operating system shows, `disk` what a
loss of power leaves: bytes that were fsynced, entries of directories that were
fsynced, and directories. `registered` and `source` are `evidence_blob` (with
the document and job that are created with it) and `source_reference`; they
survive everything once committed (`PRAGMA synchronous=FULL`). `place` is the
program counter of each submission. The temporary file of a submission is
private to it and is removed on every path, so only whether it was fsynced is
kept.

| Action | Code |
|---|---|
| `Submit` | `CoreApplication.submit`, `core.py:179` |
| `Stream`, `MakeDirectory`, `LinkNew`, `LinkExisting`, `SyncDirectory` | `EvidenceStore.place`, `evidence/store.py:20` |
| `RegisterNew`, `RegisterReplay` | `ingest_placement`, `db/services.py:190`, one transaction |
| `Abandon` | any exception or death on the way; what is visible stays |
| `ReadRegistered`, `CheckFile`, `BeginListing`, `ListFile`, `Report` | `IntegrityService.inspect`, `evidence/integrity.py:19` |
| `PowerLoss` | external: what was fsynced stays, of the rest any part |

A linked file whose bytes were not fsynced may come back torn; the code never
gets there, and the model shows that it does not. `KeptDirectories` are those
whose own entry survives once they are fsynced: POSIX does not promise it,
journalling file systems commonly do it. The promises are then made for the
evidence below such directories (`Promised`). The walk
over the directory is file by file in any order, since placements go on
meanwhile. An orphan of the report may have been registered since the rows were
read: `InspectionMissesNothing` promises that nothing is missed, not that
nothing else is named. What it calls missing was registered and is outside
the kept directories, so that only a loss of power can have taken it
(`MissingIsLost`). `inspector.before` and `answers` are history variables.

### Matching

`extract_anchor` yields at most one signal of each type, and every lookup
compares with it, so a table is the set of rows that agree with the signal:
`data.addressed` are the properties at the document's address, `data.suffixed`
and `data.issued` the accounts with its suffix or issuer, `data.merchants` the
organisations with its merchant as an alias. `FindCandidates`, `Describe` and
`Rank` are `build_proposals` (`match/service.py:79`) with `SqlCandidateReader`.
sqlite3 opens no transaction for a SELECT, so the candidates are described one
by one, in any order, each from the tables as they are then; the lookups of ids
together are one step. `Persist` and `Reject` are `_validate_new_proposal`
under the write lock; `Accepts` is `SqlEvidenceValidator`, written apart from
`SupportedCodes` and `MatchedObject` as it is in the code. `EditReferenceData`
is external: nothing in the repository edits these rows after the seed, but
both validators exist because someone may.

The drafts are replayed by comparing them one by one with what is stored. So
unless someone edits, two workers that process the same document must draft the
same (`DraftsAreRepeatable`: whatever the order of the reads, the drafts are
those of one snapshot). If someone does edit, a draft may be wrong; it is then
rejected at the write, and no property says more of that than `Persist` does.
`TopThree` also delimits the disagreement of `match_properties`: if fewer than
the limit are drafted and something with support is missing, the document is
about a property and one property has two accounts that agree with its suffix.

### TextExtraction

`parent` is where `BoundedTextExtractor.extract` (`ingest/pipeline.py:18`) is
in its code: the head of the loop, inside `select`, before `os.read`, inside
the wait for the exit, and the three parts of the `finally` clause. `child` is
the tool, free to print any amount, block on a full pipe, close its output and
linger, exit with any code, crash, or do nothing ever again. Of the bytes only
their number is kept, and whether they are text, blank or not UTF-8.

| Action | Code |
|---|---|
| `Refuse` | the checks of type and file, `:21`; `Popen` failing, `:36` |
| `Start` | `Popen` and the deadline, `:36` |
| `AskReady`, `BecomesReadable`, `TimeIsUp` | the remaining time, `select`, the three time-outs |
| `Read`, `ReadEnd` | `os.read` of one byte more than the limit allows; the empty chunk |
| `Exited` | `process.wait(timeout=max(..., 0.001))` |
| `CloseOutput`, `Kill`, `Reap` | the `finally` clause |
| `Judge` | return code, decoding, empty text |
| `Emit`, `Finish`, `Exit`, `Die` | external: the tool |
| `Tick` | `time.monotonic()`; at most `MaxDelay` of it while nobody waits |

### ReviewLoop

`phase`, `result` and `retries` are the variables of `JobLifecycle`, `accepted`
that of `ReviewLedger`; `linked` are the evidence links a confirmation commits
with its relation. `page` is the review page in a browser window, `answer` the
answer to the last press in it, `listing` a list of related documents being
put together. `stored`, `known` and `answer` are history variables, and so is
`edited`: the proposals whose reference data someone edited after they were
stored, and with that validated. From then on their evidence may or may not
validate, since an edit may leave it true and another may restore it.

| Action | Code |
|---|---|
| `Process` | any step of the queue; its proposals are of its own document |
| `OpenPage`, `ReadState`, `ReadProposals` | `document_status`, `web/app.py:199`; `core.py` `processing`, `proposals` |
| `Press` | the form's route, with the key `web-confirm:<proposal id>` of `templates/review.html` |
| `ConfirmJson` | the JSON route: any proposal under any key |
| `EditReferenceData` | external, as in `Confirmation` |
| `OpenListing`, `ReadRelations`, `ReadLinks` | `query_related_documents`, `db/services.py:1010` |

A press has every answer the route can give. It is confirmed, by a new decision
(`Accept`) or an earlier one (`Replay`); or it is refused (`Refuse`), in the
order of `ConfirmationService.confirm`: a conflict (409) over the key or with
another reviewer, an unknown proposal (`KeyError`), or evidence that no longer
validates (`EvidenceValidationError`), the last two as an error page, since
`web/app.py` has no handler for them; or it fails (`Failed`): the session has
expired (401) or is not that of the page (403), the database fails, or the
answer is lost, with or without its decision. `PressesAreHonoured` says what
each answer means, and `RepeatsAreConfirmed` that evidence which became invalid
takes no confirmation back: a reviewer who presses again is told so again. A
refused call of the JSON route changes nothing and is a stutter.

## 3. Runs

| Run | Question | Instance | Result |
|---|---|---|---|
| `queue_leases` | Are rows consistent, live leases exclusive and fenced, completed documents final, acknowledgements true? Does the queue implement `JobLifecycle`? | 1 document, 2 workers, 1 synchronous caller, leases of 2 and 3 ticks, waits up to 2, a clock set back once, 2 facts x (1 proposal list or none), 2 retry keys | holds |
| `queue_retries` | Are retries audited once per key and bounded? Do lease texts compare as their times? | 2 documents, 1 worker, lease 1, 2 operators, 3 keys, limits 1..3; three instants around a whole second, ticks of 1 µs, half a second and a second | holds |
| `queue_liveness` | Does every submission settle? Does a punctual holder keep its job? | 2 documents, 1 worker, 1 synchronous caller, 1 retry | holds |
| `queue_frozen_output` | Is the output of a completed document frozen? | 1 document, 2 workers | **violated** |
| `confirm_races` | Are confirmations atomic, unique, valid, and their replies lasting? | 2 requests, 2 proposals, 2 reviewers, 3 keys | holds |
| `confirm_key_reuse` | Does a key stand for one confirmation? | 1 client, 2 proposals, 2 keys | **violated** |
| `evidence_races` | Is registered evidence whole, does an answered submission stand, what does an inspection miss or falsely report? Does the store implement `EvidenceLedger`? | 2 submissions, 2 digests in two directories of which one is kept, 2 sources, 1 inspection, 1 loss of power | holds: nothing is missed |
| `evidence_directories` | Is *all* registered evidence preserved, also below a directory that is not kept? | 1 submission, 1 loss of power | **violated** |
| `match_edits` | Is a draft rejected only because something was edited? Are the three best proposed, and the same for two workers? What may crowd a property out? | 2 properties, 2 accounts, or 4 assets, 2 merchants; all tables, 1 edit | holds |
| `match_properties` | Is every candidate with support either proposed or outdone by three others? | 2 properties, 4 accounts | **violated** |
| `extract_bounded` | Is an extraction bounded in bytes and time, whole or refused, reaped, and does it always end? | a tool that prints 0 to 7 bytes against a limit of 4, reads of 2, pipe of 3, 3 ticks, 2 ticks of delay | holds |
| `review_pages` | Do pages, presses and listings mean what they show? | 2 documents, 3 proposals for 2 objects, 1 browser, 2 reviewers, 1 reprocessing each, edits of the data of 1 proposal | holds |

The bounds, and why they are enough. `MaxWait`, the ticks a call may wait for
its transaction, is as long as the worker's lease, so a sample can be taken
before and used after a whole lease, in every order of claim, expiry and
reclaim. `MaxLives` allows one crash of each process (and as many synchronous
calls): the second holder, the dead holder and the late holder exist together.
`CountCap` stops counting attempts at or above the largest limit, beyond which
no guard tells counts apart. Two documents show priority and shared retry keys;
three keys make a replay, a conflict and a fresh retry coexist. In
`queue_retries` the lease is one tick so that reclaims alternate with retries.
Outputs are irrelevant to retries and liveness, which use one. A clock set
back by a tick (`MaxSetBack`) makes a lease that had run out live again, and a
sample newer than the present; more of it only repeats that. Symmetry is used
for safety only, over sets whose members nothing orders; documents are ordered
and never symmetric.

For evidence, two submissions are the smallest number with a file that one
linked and the other found; two directories, one kept and one not, show
durable and lost evidence in one behaviour. One loss of power (`MaxOutages`)
may come at any point, and the submissions and inspection after it start from
what it left; a second one would start from states of the same kind, and the
theorems hold for any number.

For matching every set of agreeing rows is an initial state, but for the
tables that a document of its kind never reads, which start empty (`MCInit`).
Four candidates are one more than are proposed; two accounts or merchants make
"the first row" differ from "a row"; one edit (`MaxEdits`) falls between any
two reads or before the write, and a second could only make the same rejection.

For extraction the limit is two reads long and the pipe is between one read and
two, so that a limit is met within a read and between two, and the pipe is full
before it is reached; the tool prints anything from nothing to three bytes too many.
`Timeout` is long enough for several selects, and `Grace + MaxDelay <
LeaseMargin` is the code's 1 ms and the slowness of a host against 30 s.

For review one document has two proposals and another shares an object with
one of them: the smallest data in which a relation, a page or a key can be
taken for another. One browser is enough for interleaving, because the JSON
endpoint and the queue move between any two of its reads; `Keys` are those of
all forms, which the JSON endpoint may take, and one more (`ApiKeys`). Edits of the
data of one proposal (`Editable`) are enough, since presses of one proposal
meet those of another only through keys, and keys do not depend on edits.

**Fairness.** `FairSpec` assumes what the scheduling of the code gives: time
passes, a worker polls again (`while True` with a one-second sleep), extraction
ends (it is bounded by a timeout), a dead worker is started again, and a
transaction that is possible again and again eventually runs (strong fairness:
the lock may be busy many times, not always). `Punctual` says that the holder
of a lease which is still at work ends before its lease does: the lease is
`max(ocr_timeout_seconds + 30, 60)` seconds for a worker and 300 for a
synchronous caller, against an extraction of at most `ocr_timeout_seconds` and
a wait of at most 5 s. Without it two documents that always overrun their lease
are reclaimed for ever: the code bounds operator retries, not reclaims. Nothing
is assumed of operators or submitters.

The extractor's fairness is that time passes, that its single thread goes on
when it can, and that a child that was killed dies. Of the tool itself nothing
is assumed: it may never act again, and `EveryExtractionEnds` holds.

**Disagreements.** `queue_frozen_output`: a late completion, without a lease,
of a document that another worker completed *with no proposals* is taken for a
replay and inserts its proposals; `JobLifecycle.Supplement` is the abstract
trace of that. `confirm_key_reuse`: a confirmation answered as a replay under
a second key does not record that key, which may then accept another proposal.
`evidence_directories`: only the last of the new directories is fsynced, so a
registered document's file depends on the file system keeping its parents.
`match_properties`: a lookup is cut to three rows before repeated candidates
are dropped, so a property with three accounts of one suffix hides another with
the same suffix, although fewer than three properties are proposed. For the
same reason, and because properties at the address come first, `TopThree`
promises the best of assets, but of properties only that none is left out with
room to spare, accounts of one property aside.

## 4. Proofs

`ProcessingQueueProofs` proves, for every set of documents, processes, keys,
facts and proposals and every value of the bounds allowed by
`QueueAssumption`:

* `TypeCorrect`, `Agreement`: types, and the agreement of the tables. They are
  inductive only together (`Consistent`): a replay compares with stored output
  that exists *because* the job is complete.
* `Finality`, `LeaseExclusion`, `Acknowledgement`: action properties, each by
  the case of every step that touches rows (`RowSteps`) and what it does there
  (`ClaimEffect`, `CompleteEffect`, `ReplayEffect`, `SettleEffect`,
  `TickEffect`). Exclusion rests on one fact: a sample is newer than
  the present by no more than the clock was set back, so a lease with more time
  left than that is expired for no sample.
* `Fencing`: by the same cases, with one more fact for each: a step of another
  process leaves a call as it is (`SameCall`), and a row that a call owns after
  a step of another it owned before, at the same count of attempts.
* `PunctualWorkIsSafe`, from three assumptions: holders are punctual, the clock
  is not set back, and a wait is shorter than any lease. Then a sample is no
  older than a wait when it is used (`SamplesAreFresh`), so a lease that is
  dated by one still has time left when it is granted, and it keeps some while
  its holder works (`LeaseIsKept`). No rival can take it: a sample is never
  newer than the present, so it cannot be past an expiry to come. The first assumption is
  `LeaseOutlastsExtraction` of `TextExtraction`, the third the 5 s of
  `busy_timeout` against 60 s, and the second is why `LeaseExclusion` is stated
  separately for clocks that are set back.
* `Audited`: an action property of the same kind, from what a retry does.
* `BudgetKept`, `RetriesBounded`: the bound on retries is not inductive, since
  it says nothing of `attempt_count`. `RetryBudget` relates the two: every
  audited retry, but a last one still in the queue, was followed by a counted
  attempt. Claims count before work, a retry needs fewer attempts than its
  limit, and a replayed key counts nothing (`RetryEffect`).
* `Implementation`: `Spec => LifecycleSpec`, under the mapping that forgets
  owners, expiries, calls, lives and documents. A reclaim is a stutter; a
  retry maps to `Retry` because of `RetryBudget`.

The assumptions are those of the model: sets disjoint from the null values,
finitely many keys, positive leases, `MaxAttempts <= CountCap`.

`EvidenceStoreProofs` proves, under `EvidenceAssumption`:

* `EvidenceTypes`, and `AnswersKept`, which is inductive only with
  `SourcesStand`: what a source stands for is registered, so that a replay
  may answer.
* `InspectionInformed` and `NothingMissed`, for any file system: but for a loss
  of power, which ends the inspection, files and rows only come
  (`FilesAndRowsGrow`), so each look and each listing stays true.
* `Durability` and `Wholeness`, of the evidence in `KeptDirectories` (without
  that limit they are false, see `evidence_directories`). The invariant
  `DurableBeforeRegistered` carries each obligation to where it is used: bytes
  are flushed before they are linked (`FilesAreFlushed`), linked before the directory is fsynced, durable before
  they are registered (`PlacementsAreOrdered`), and durable for good
  (`DurableStays`), also when another submission made the link.
* `NoFalseAlarm`: the inspection looks only for what it knows to be registered
  (`LooksForKnown`), and what is registered and kept is there, by `Wholeness`.
* `ImplementsLedger`: `Spec => LedgerSpec`, where `shown` is the directory as a
  reader sees it. Linking is `Show`, and it is whole because of what the
  invariant says of flushing; both registrations are `Accept`, and find the
  file in place; a loss of power takes nothing that was accepted and is kept,
  which is `Durability`; leaving a placement behind is a stutter.

`ConfirmationProofs` proves all of `Confirmation`, under
`ConfirmationAssumption`, for any number of requests, proposals and keys. Each
theorem is about what is committed, and the invariant is about what is not:

* only the holder of the lock is past BEGIN, and the uncommitted rows of a
  request are the committed ones with the writes it has come to (`RowsFollow`).
  So what it read before it began to write is still so when it commits, which
  is `NoCollision`, and what it commits is whole (`Atomicity`);
* what was validated under the lock stays validated, since an edit needs the
  lock too (`ValidatedStays`; `Validity`);
* an answer names a decision that is committed, and decisions are never taken
  back (`RepliesNameDecisions`; `AnswersStand`);
* a commit is `Accept` in `ReviewLedger`, and every other step a stutter
  (`ImplementsLedger`).

`MatchingProofs` proves, under `MatchingAssumption`:

* `Agreement`: what a snapshot supports, the tables support, with the object
  the snapshot names (`SnapshotIsAccepted`, which needs that the first of some
  rows exists and is one of them, `LeastIsMember`), and this stays so until
  something is edited (`Agreed`).
* `MatchingTypes`: ranks stay within the limit because what is described and
  what is left to describe are together never more than what was found
  (`Sized`).
* `BestOfThem`: a row that a lookup leaves out was crowded out by earlier rows
  (`FirstRows`, `ExtendedList`); serials and order references are unique and
  looked up first, so only a model is ever left out (`AssetChoice`), and it
  scores no more than any that is in (`LeftOutIsWorse`); and while no one edits,
  describing the candidates one by one is as good as all at once
  (`ReadsAgree`). It takes room for two: with room for one, a serial would
  hide an asset whose order and model together score more. The code has three.
  Of properties, none at the address is dropped before the limit is reached; an
  account that its lookup left out has as many earlier ones as the limit
  allows, and if these stood for different properties (`AccountsAreProperties`)
  they would have filled the list (`PropertyCrowding`, `NothingIsCrowdedOut`).
  So with room left two of them stand for one property.
* `Repeatability`: from `ReadsAgree`, since ranks are a function of what was
  described.

`TextExtractionProofs` proves, under `ExtractionAssumption`, all the safety of
the extractor. The properties speak of the end of a call, and the invariant
carries to it what the reads learned: no byte is lost between child and parent
(`BytesAreConserved`), an empty read means that the child closed an output it
had printed in full, or crashed (`EndIsReached`), what is left after a limit or
a clean-up (`LimitIsKept`, `ProcessIsKnown`; the types bound what is held), and
a budget of time (`TimeIsBudgeted`): a select never waits past the deadline, only the last wait
may, by `Grace`. `Punctuality` follows: `Timeout + Grace + MaxDelay` is less
than the lease.

`ReviewLoopProofs` proves, under `ReviewAssumption`, for any number of browsers,
reviewers, documents and keys, the types and the five properties of the loop.
The queue takes nothing away from a complete document (`ProcessEffect`) and the
ledger nothing at all (`DecisionsStay`); from that, what a page has read stays
behind what is stored (`PagesAreBehind`), so that a press finds what its page showed, and a listing behind what is
confirmed (`ListingsAreBehind`). `PagesMissNothing` needs the *order* of the
two reads: the state first. Two more results have no run of their own.
`WebFormsSuffice`: with one reviewer, and if confirmations come from the forms
of the pages only, no press meets a conflict, since a form's key then is used
for its own proposal alone (`WebOnly`); unless it fails, it is refused only
after an edit of reference data. The JSON route, which takes any key, and a
second reviewer are what `Honour` has to allow for. `Composition`:
`Spec => Queue!Spec /\ Ledger!Spec`, that is, the loop adds readers to the two
abstract parts and no new behaviour, so that what their detailed modules
implement is what the loop relies on.

`TimestampProofs` proves `TextOrder` for all integer numbers of microseconds:
it comes down to `+` being before `.` in ASCII, and would be false for the
suffix `Z`. `LeaseOrder` follows for whatever times and lengths of a tick, from
`TypeCorrect`.

Model-checked only: liveness under fairness (`EverySubmissionSettles`,
`EveryExtractionEnds`), which is out of the prover's reach. Every invariant and
action property that a passing run checks is also a theorem. The invariants
that only serve a proof (`RetryBudget`, `InspectionIsInformed`,
`DurableBeforeRegistered`, `LeaseIsKept`, `SamplesAreFresh`, `BestAssets` and
their like) are stated in the proof modules, with the theorems they are for.

## 5. Not modelled, and the plan

Left out for good: text recognition and normalisation (`extract/anchors.py`,
`domain/normalise.py`: pure, sequential, decided by regular expressions), value
types (`db/contracts.py`, `domain/models.py`), counts and
`all_evidence_revalidates` (read only by the acceptance harness and tests),
page rendering, sessions and CSRF tokens (signed cookies, no state shared with
anything modelled), settings, migrations (run by Alembic; the empty tables are
the initial states), fixtures, and the acceptance harness.

What could come next: the queue and the evidence store composed in one module,
so that the file of a claimed document is the one that was placed; and larger
instances of the liveness runs.
