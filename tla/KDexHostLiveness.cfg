\* A page to choose comes, goes, changes readiness, and its copy has a finalizer; the
\* Deployment and the internal host report; a call fails or the manager restarts.
SPECIFICATION FairSpec
CONSTANTS
  Pages = {"login"}
  Translations = {"default"}
  Direct = {}
  DefaultPages = {}
  DefaultTranslation = "default"
  Reporting = {"deployment", "internalHost"}
  Lagging = {}
  Removable = {}
  Finalized = {"login"}
  Flaky = {"login"}
  MaxUid = 1
  MaxGeneration = 1
  MaxFaults = 1
PROPERTIES Converges
\* The bounds on users' actions let the cluster come to rest.
CHECK_DEADLOCK FALSE
