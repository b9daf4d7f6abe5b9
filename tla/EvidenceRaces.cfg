\* Two submissions, an inspection and a power loss; d2 is not kept.
SPECIFICATION Spec
CONSTANTS
  Clients = {c1, c2}
  Contents = {x1, x3}
  Sources = {s1, s2}
  Directories <- MCDirectories
  DirectoryOf <- MCDirectoryOf
  d1 = d1
  d2 = d2
  x3 = x3
  KeptDirectories = {d1}
  MaxOutages = 1
  NoContent = NoContent
  NoSource = NoSource
SYMMETRY Symmetric
INVARIANTS TypeOK RegisteredEvidenceIsWhole AnsweredSubmissionIsKept MissingIsLost
PROPERTIES InspectionMissesNothing LedgerSpec
