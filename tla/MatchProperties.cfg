\* Expected violation: one property's accounts crowd out another property.
SPECIFICATION Spec
CONSTANTS
  Properties <- MCProperties
  Accounts <- MCAccounts
  Assets <- MCAssets
  Organisations <- MCOrganisations
  PropertyCount = 2
  AccountCount = 4
  AssetCount = 0
  OrganisationCount = 0
  MaxCandidates = 3
  MaxEdits = 0
INVARIANTS NoneIsCrowdedOut
CHECK_DEADLOCK FALSE
