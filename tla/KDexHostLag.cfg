\* The cache of the internal host lags over two incarnations, others delete children,
\* a call fails, the manager restarts.
SPECIFICATION Spec
CONSTANTS
  Pages = {}
  Translations = {"default"}
  Direct = {}
  DefaultPages = {}
  DefaultTranslation = "default"
  Reporting = {"deployment"}
  Lagging = {"internalHost"}
  Removable = {"serviceAccount", "clusterRoleBinding", "deployment", "default"}
  Finalized = {}
  Flaky = {}
  MaxUid = 2
  MaxGeneration = 1
  MaxFaults = 1
INVARIANTS RbacOutlivesDeployment ReadyMeansInPlace
PROPERTIES CreationOnlyUnderFinalizer NothingLeftByTeardown ImplementsHostLife
\* The bounds on users' actions let the cluster come to rest.
CHECK_DEADLOCK FALSE
