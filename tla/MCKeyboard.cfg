SPECIFICATION Spec
CONSTANTS
  LShift = lshift
  Letters = {a}
  Unmapped = {caps}
  QueueSize = 3
  MaxCodes = 5
INVARIANTS
  TypedRight
  LatestIsHandled
  ShiftRepaired
CHECK_DEADLOCK FALSE
