\* The bundled page, a translation and a theme to choose come, go and change readiness.
SPECIFICATION Spec
CONSTANTS
  Pages = {"error"}
  Translations = {"default", "french"}
  Direct = {"theme"}
  DefaultPages = {"error"}
  DefaultTranslation = "default"
  Reporting = {}
  Lagging = {}
  Removable = {}
  Finalized = {}
  Flaky = {"error", "french", "theme"}
  MaxUid = 1
  MaxGeneration = 1
  MaxFaults = 0
INVARIANTS NoDanglingRefs ServesWhatItNames
\* The bounds on users' actions let the cluster come to rest.
CHECK_DEADLOCK FALSE
