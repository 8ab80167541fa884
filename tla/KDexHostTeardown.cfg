\* Two incarnations, a page to choose that others delete and the bundled one, finalizers on
\* the copies of both; a call fails or the manager restarts.
SPECIFICATION FairSpec
CONSTANTS
  Pages = {"login", "error"}
  Translations = {"default"}
  Direct = {}
  DefaultPages = {"error"}
  DefaultTranslation = "default"
  Reporting = {}
  Lagging = {}
  Removable = {"login"}
  Finalized = {"login", "error"}
  Flaky = {}
  MaxUid = 2
  MaxGeneration = 1
  MaxFaults = 1
PROPERTIES TeardownCompletes LeavesOnlyBinding
\* The bounds on users' actions let the cluster come to rest.
CHECK_DEADLOCK FALSE
