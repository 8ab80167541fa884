\* An edit of a page, of its archetype, which may name the wrong scope, or of the navigation
\* it lends, these two being of the cluster; the informer of the navigation and the
\* handlers of the archetype's controller lag.
SPECIFICATION Spec
CONSTANTS
  Objects <- ChainObjects
  Choices <- ChainChoices
  Lagging <- LaggingNavigation
  Slow = {"archetype"}
  MaxEdits = 1
  MaxFaults = 0
INVARIANTS
  ReadyAtRest
  UnreadyRetries
\* The system rests when users stop.
CHECK_DEADLOCK FALSE
