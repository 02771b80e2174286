SPECIFICATION FairSpec
CONSTANTS
  MaxTasks = 6
  NumCreate = 5
  Users <- MCUsers
  MaxKeys = 2
INVARIANTS
  TypeOK
  MutualExclusion
  CriticalExact
  CriticalBounded
  NoWildSwitch
PROPERTIES
  EveryTaskRuns
  ImplementsCriticalSection
CHECK_DEADLOCK FALSE
