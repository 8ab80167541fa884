\* Specs, others and configurations change the Deployment twice.
SPECIFICATION FairSpec
CONSTANTS
  Names = {"PORT", "HOME"}
  Values = {"one", "two"}
  Templates <- MCTemplates
  Quantities = {0, 1, 2}
  Specs <- MCSpecs
  OtherEnvs <- MCOtherEnvs
  MaxChanges = 2
INVARIANTS RestMatchesSpec TwoPassesSettle
PROPERTIES MergesEnvironment Settles
\* The bounds on changes let the system come to rest.
CHECK_DEADLOCK FALSE
