\* Expected violation: proposals inserted into a completed document.
SPECIFICATION Spec
CONSTANTS
  DocumentCount = 1
  Documents <- MCDocuments
  Workers = {w1, w2}
  SyncCallers = {}
  Facts = {f1}
  ProposalLists = {x1}
  NoProposals = NoProposals
  Actors = {a1}
  Keys = {k1}
  AttemptLimits <- MCLimits
  MaxAttempts = 2
  WorkerLease = 2
  SyncLease = 3
  MaxWait = 2
  MaxSetBack = 0
  CountCap = 2
  MaxLives = 1
  Punctual = FALSE
  Times <- MCTimes
  TickLengths <- MCTickLengths
  NoDocument = NoDocument
  NoOutput = NoOutput
  NoWorker = NoWorker
  NoAudit = NoAudit
SYMMETRY Symmetric
PROPERTIES CompletedOutputIsFrozen
