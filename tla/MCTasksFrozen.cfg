SPECIFICATION FairSpec
CONSTANTS
  MaxTasks = 6
  NumCreate = 5
  Users <- MCUsers
  MaxKeys = 1
PROPERTIES
  TasksSurviveKeys
CHECK_DEADLOCK FALSE
