\* Two incarnations and an edit, a page to choose with a finalizer on its copy, two failed
\* calls and restarts.  Only the host's own cached copy lags.
SPECIFICATION Spec
CONSTANTS
  Pages = {"login"}
  Translations = {"default"}
  Direct = {}
  DefaultPages = {}
  DefaultTranslation = "default"
  Reporting = {}
  Lagging = {}
  Removable = {}
  Finalized = {"login"}
  Flaky = {}
  MaxUid = 2
  MaxGeneration = 2
  MaxFaults = 2
INVARIANTS TypeOK RbacOutlivesDeployment NoDanglingRefs ReadyMeansInPlace
PROPERTIES CreationOnlyUnderFinalizer NothingLeftByTeardown ImplementsHostLife
\* The bounds on users' actions let the cluster come to rest.
CHECK_DEADLOCK FALSE
