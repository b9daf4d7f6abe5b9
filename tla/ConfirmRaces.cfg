\* Two requests in flight over two proposals, two reviewers and three keys.
SPECIFICATION Spec
CONSTANTS
  Clients = {c1, c2}
  Proposals = {p1, p2}
  Reviewers = {r1, r2}
  Keys = {k1, k2, k3}
  NoDecision = NoDecision
  NoKey = NoKey
  NoClient = NoClient
  NoRequest = NoRequest
SYMMETRY Symmetric
INVARIANTS TypeOK WritesNeverCollide ConfirmationIsWhole RepliesStand
PROPERTIES CommittedEvidenceIsValid LedgerSpec
