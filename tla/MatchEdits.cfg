\* Edits of reference data between the reads and the write.
SPECIFICATION MCSpec
CONSTANTS
  Properties <- MCProperties
  Accounts <- MCAccounts
  Assets <- MCAssets
  Organisations <- MCOrganisations
  PropertyCount = 2
  AccountCount = 2
  AssetCount = 4
  OrganisationCount = 2
  MaxCandidates = 3
  MaxEdits = 1
INVARIANTS TypeOK ValidatorsAgree DraftsAreRepeatable TopThree
CHECK_DEADLOCK FALSE
