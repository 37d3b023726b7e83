SPECIFICATION FairSpec
CONSTANTS
  A = A
  B = B
  Programs = {A, B}
  Uses <- PlainUses
  Capacity = 1
  MaxRequests = 1
PROPERTIES
  LeaverLeaves
CHECK_DEADLOCK FALSE
