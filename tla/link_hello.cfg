SPECIFICATION Spec
CONSTANTS
  a = a
  s = s
  UserTypes = {a}
  ControlType = "__CONTROL__"
  Payloads = {"full"}
  DataSize <- MCDataSize
  FieldSize = 1
  CounterModulus = 3
  Subs = {s}
  TypeOf <- MCTypeOf
  TxIds <- MCTxIds
  RxIds <- MCRxIds
  Capacity = 2
  MaxPosts = 1
INVARIANT
  HelloGate
