SPECIFICATION HelperSpec
CONSTANTS
  p = p
  q = q
  c1 = c1
  c2 = c2
  c3 = c3
  Items = {p, q}
  Consumers = {c1, c2, c3}
  Patient = {c1, c2}
  MaxEmplaced = 3
  n1 = n1
  n2 = n2
  Names <- TwoNames
  Script <- Distinct
  MaxInFlight = 2
INVARIANTS
  ReturnsNotEmpty
  NobodySleepsOnItems
  FirstInFirstOut
  Rendezvous
PROPERTIES
  ItemsTaken
  BothReturn
