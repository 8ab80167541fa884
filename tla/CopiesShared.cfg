\* Hosts that mean the same copy: they are edited and deleted, and copies removed.
SPECIFICATION FairSpec
CONSTANTS
  Hosts <- MCHosts
  SpecsOf <- MCSpecsOf
  Default <- MCDefault
  MaxChanges = 2
INVARIANTS ServedAtRest
PROPERTIES
  NeverTakenOver
  Settles
  Freed
\* The bound on changes lets the system come to rest.
CHECK_DEADLOCK FALSE
