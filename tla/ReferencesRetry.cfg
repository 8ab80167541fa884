\* A library in another namespace, which no event announces, and its secret: they and
\* the referrer are edited, deleted and made again; a read or a validation fails, or
\* the manager restarts.
SPECIFICATION FairSpec
CONSTANTS
  Objects <- RetryObjects
  Choices <- RetryChoices
  Lagging = {}
  Slow = {}
  MaxEdits = 2
  MaxFaults = 1
INVARIANTS
  TypeOK
  ReadyAtRest
  ReadyMeansResolved
PROPERTIES
  EventuallyReady
\* The system rests when users stop.
CHECK_DEADLOCK FALSE
