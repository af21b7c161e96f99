CONSTANTS
  Ev <- MCEv
  Fetchable <- MCFetchable
  Exists <- MCFetchableAll
  Forks <- MCForks
  NumSets = 2
SPECIFICATION Spec
INVARIANTS
  IterativeAuthNeverFetchesMissing
PROPERTIES
  ResolveImplementsSpec
CHECK_DEADLOCK FALSE
