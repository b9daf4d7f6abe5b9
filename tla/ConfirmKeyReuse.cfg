\* Expected violation: one key answered for two proposals.
SPECIFICATION Spec
CONSTANTS
  Clients = {c1}
  Proposals = {p1, p2}
  Reviewers = {r1}
  Keys = {k1, k2}
  NoDecision = NoDecision
  NoKey = NoKey
  NoClient = NoClient
  NoRequest = NoRequest
SYMMETRY Symmetric
INVARIANTS KeyMeansOneConfirmation
