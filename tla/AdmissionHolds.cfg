\* One object of each kind, written twice by users while webhook calls are
\* lost or the manager is down.
SPECIFICATION FairSpec
CONSTANTS
  Kinds = {"host", "archetype", "page", "binding", "footer", "header", "navigation", "theme", "library", "app"}
  MaxEdits = 2
  MaxLost = 1
INVARIANTS
  ReadmissionIsQuiet
  ReferencesResolve
PROPERTIES
  DeletedGoes
