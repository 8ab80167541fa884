\* The cache of the Deployment lags.
SPECIFICATION Spec
CONSTANTS
  Pages = {}
  Translations = {"default"}
  Direct = {}
  DefaultPages = {}
  DefaultTranslation = "default"
  Reporting = {}
  Lagging = {"deployment"}
  Removable = {}
  Finalized = {}
  Flaky = {}
  MaxUid = 1
  MaxGeneration = 1
  MaxFaults = 0
INVARIANTS DeploymentIsGone
\* The bounds on users' actions let the cluster come to rest.
CHECK_DEADLOCK FALSE
