SPECIFICATION FairSpec
CONSTANTS
  a = a
  s = s
  UserTypes = {a}
  ControlType = "__CONTROL__"
  Payloads = {"full"}
  DataSize <- MCDataSize
  FieldSize = 1
  CounterModulus = 3
  Subs = {s}
  TypeOf <- MCTypeOf
  TxIds <- MCTxIds
  RxIds <- MCRxIds
  Capacity = 1
  MaxPosts = 1
VIEW Behaviour
PROPERTIES
  Delivery
  MuxerDestroyed
  DemuxerDestroyed
