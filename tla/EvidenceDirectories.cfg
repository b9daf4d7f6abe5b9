\* Expected violation: a new directory is not fsynced into its parent.
SPECIFICATION Spec
CONSTANTS
  Clients = {c1}
  Contents = {x1, x3}
  Sources = {s1, s2}
  Directories <- MCDirectories
  DirectoryOf <- MCDirectoryOf
  d1 = d1
  d2 = d2
  x3 = x3
  KeptDirectories = {d1}
  MaxOutages = 1
  NoContent = NoContent
  NoSource = NoSource
SYMMETRY Symmetric
INVARIANTS AllEvidenceIsPreserved
