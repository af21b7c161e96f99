CONSTANTS
  Ev <- MCEv
  Fetchable <- MCFetchable
  Exists <- MCFetchable
  Forks <- MCForks
  NumSets = 2
SPECIFICATION Spec
INVARIANTS
  NoEventSilentlyDropped
CHECK_DEADLOCK FALSE
