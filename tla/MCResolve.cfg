CONSTANTS
  Ev <- MCEv
  Fetchable <- MCFetchable
  Exists <- MCFetchable
  Forks <- MCForks
  NumSets = 2
SPECIFICATION Spec
INVARIANTS
  TypeOK
  ControlsAfterAuthAncestors
PROPERTIES
  ResolveImplementsSpec
CHECK_DEADLOCK FALSE
