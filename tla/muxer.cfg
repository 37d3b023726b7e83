SPECIFICATION FairSpec
CONSTANTS
  a = a
  b = b
  UserTypes = {a, b}
  ControlType = "__CONTROL__"
  Payloads = {"empty", "full"}
  DataSize <- MCDataSize
  FieldSize = 1
  CounterModulus = 4
  MaxQueued = 2
INVARIANTS
  TypeOK
  CountersMatchQueues
  NoLostWakeup
  ControlBacklogBounded
PROPERTIES
  ErrorLatched
  StreamSpec
  DestructorReturns
  HangUpDetected
  BacklogDrains
  PostersNotLockedOut
