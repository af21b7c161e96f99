CONSTANTS
  Ev <- MCEv
  Fetchable <- MCFetchable
  Exists <- MCFetchable
  Forks <- MCForks3
  NumSets = 3
SPECIFICATION Spec
PROPERTIES
  ResolveImplementsSpec
CHECK_DEADLOCK FALSE
