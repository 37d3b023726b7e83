SPECIFICATION FairSpec
CONSTANTS
  a = a
  s1 = s1
  s2 = s2
  UserTypes = {a}
  ControlType = "__CONTROL__"
  Payloads = {"empty", "full"}
  DataSize <- MCDataSize
  FieldSize = 1
  Subs = {s1, s2}
  TypeOf <- MCTypeOf
  MaxInbox = 1
PROPERTY HangUpEndsLoop
