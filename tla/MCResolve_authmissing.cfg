CONSTANTS
  Ev <- MCEv
  Fetchable <- MCFetchable
  Exists <- MCFetchable
  Forks <- MCForks
  NumSets = 2
SPECIFICATION Spec
INVARIANTS
  MissingAuthParentIsFatal
CHECK_DEADLOCK FALSE
