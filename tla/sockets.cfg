SPECIFICATION Spec
CONSTANTS
  a = a
  b = b
  Clients = {a}
  QueueSize = 1
  Capacity = 2
  Hosts = {"localhost"}
  UnknownHost = "nowhere"
  PortModulus = 4
  ServerPort = 5
  Askers = {a, b}
  PortOf <- MCPortOf
  MaxAsked = 2
INVARIANTS
  AnswersGoToAskers
PROPERTIES
  ErrorsAreFinal
  Released
CHECK_DEADLOCK FALSE
