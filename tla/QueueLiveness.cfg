\* Two documents, a worker and a synchronous caller, one retry; no symmetry.
SPECIFICATION FairSpec
CONSTANTS
  DocumentCount = 2
  Documents <- MCDocuments
  Workers = {w1}
  SyncCallers = {s1}
  Facts = {f1}
  ProposalLists = {}
  NoProposals = NoProposals
  Actors = {a1}
  Keys = {k1}
  AttemptLimits <- MCLimits
  MaxAttempts = 2
  WorkerLease = 2
  SyncLease = 2
  MaxWait = 1
  MaxSetBack = 0
  CountCap = 2
  MaxLives = 1
  Punctual = TRUE
  Times <- MCTimes
  TickLengths <- MCTickLengths
  NoDocument = NoDocument
  NoOutput = NoOutput
  NoWorker = NoWorker
  NoAudit = NoAudit
INVARIANTS WorkIsNeverLost
PROPERTIES EverySubmissionSettles
