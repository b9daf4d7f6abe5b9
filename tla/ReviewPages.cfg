\* Two documents, three proposals, a browser, two reviewers, a key from outside, one edit.
SPECIFICATION Spec
CONSTANTS
  d1 = d1
  d2 = d2
  p1 = p1
  p2 = p2
  p3 = p3
  o1 = o1
  o2 = o2
  Documents = {d1, d2}
  Proposals = {p1, p2, p3}
  DocumentOf <- MCDocumentOf
  TargetOf <- MCTargetOf
  Facts = {f1}
  MaxAttempts = 2
  Browsers = {b1}
  Reviewers = {r1, r2}
  ApiKeys = {k1}
  Editable = {p1}
  NoOutput = NoOutput
  NoDecision = NoDecision
  NoDocument = NoDocument
  NoObject = NoObject
  NoProposal = NoProposal
  NoReviewer = NoReviewer
SYMMETRY Symmetric
INVARIANTS TypeOK PageMissesNothing RelationsHaveProposals PressesAreHonoured ConfirmedIsRetrieved
PROPERTY RepeatsAreConfirmed
