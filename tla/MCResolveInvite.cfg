CONSTANTS
  Ev <- InviteEv
  Fetchable <- InviteIds
  Exists <- InviteIds
  Forks <- InviteForks
  NumSets = 2
SPECIFICATION Spec
PROPERTY
  ResolveImplementsSpec
CHECK_DEADLOCK FALSE
