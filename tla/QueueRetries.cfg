\* Two documents share the retry keys of two operators; leases expire in between.
SPECIFICATION Spec
CONSTANTS
  DocumentCount = 2
  Documents <- MCDocuments
  Workers = {w1}
  SyncCallers = {}
  Facts = {f1}
  ProposalLists = {}
  NoProposals = NoProposals
  Actors = {a1, a2}
  Keys = {k1, k2, k3}
  AttemptLimits <- MCLimits
  MaxAttempts = 3
  WorkerLease = 1
  SyncLease = 3
  MaxWait = 1
  MaxSetBack = 0
  CountCap = 4
  MaxLives = 1
  Punctual = FALSE
  Times <- MCTimes
  TickLengths <- MCTickLengths
  NoDocument = NoDocument
  NoOutput = NoOutput
  NoWorker = NoWorker
  NoAudit = NoAudit
SYMMETRY Symmetric
INVARIANTS RetriesBelowLimit TextsTellLeases
PROPERTIES RetryIsAudited
