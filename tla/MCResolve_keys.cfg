CONSTANTS
  Ev <- MCEv
  Fetchable <- MCFetchableAll
  Exists <- MCFetchableAll
  Forks <- MCForks
  NumSets = 2
SPECIFICATION Spec
INVARIANTS
  EveryInputKeyResolved
CHECK_DEADLOCK FALSE
