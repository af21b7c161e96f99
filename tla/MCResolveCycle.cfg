CONSTANTS
  Ev <- CycleEv
  Fetchable <- CycleIds
  Exists <- CycleIds
  Forks <- CycleForks
  NumSets = 2
SPECIFICATION Spec
INVARIANTS
  MainlineWalkEnds
CHECK_DEADLOCK FALSE
