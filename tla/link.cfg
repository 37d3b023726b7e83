SPECIFICATION Spec
CONSTANTS
  a = a
  s = s
  UserTypes = {a}
  ControlType = "__CONTROL__"
  Payloads = {"full", "empty"}
  DataSize <- MCDataSize
  FieldSize = 1
  CounterModulus = 4
  Subs = {s}
  TypeOf <- MCTypeOf
  TxIds <- MCTxIds
  RxIds <- MCRxIds
  Capacity = 2
  MaxPosts = 2
VIEW Behaviour
INVARIANTS
  Framing
PROPERTIES
  ChannelSpec
