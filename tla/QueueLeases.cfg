\* One document, two workers and a synchronous caller racing for its lease.
SPECIFICATION Spec
CONSTANTS
  DocumentCount = 1
  Documents <- MCDocuments
  Workers = {w1, w2}
  SyncCallers = {s1}
  Facts = {f1, f2}
  ProposalLists = {x1}
  NoProposals = NoProposals
  Actors = {a1}
  Keys = {k1, k2}
  AttemptLimits <- MCLimits
  MaxAttempts = 2
  WorkerLease = 2
  SyncLease = 3
  MaxWait = 2
  MaxSetBack = 1
  CountCap = 2
  MaxLives = 1
  Punctual = FALSE
  Times <- MCTimes
  TickLengths <- MCTickLengths
  NoDocument = NoDocument
  NoOutput = NoOutput
  NoWorker = NoWorker
  NoAudit = NoAudit
SYMMETRY Symmetric
INVARIANTS TypeOK DocumentAgreesWithJob
PROPERTIES CompleteIsFinal LiveLeaseIsExclusive ClaimIsFenced AcknowledgedOutputIsStored LifecycleSpec
