SPECIFICATION FairSpec
CONSTANTS
  A = A
  B = B
  Programs = {A, B}
  Uses <- SafeUses
  Capacity = 1
  MaxRequests = 1
PROPERTIES
  LeaverLeaves
  CallbacksReturn
  RequestsAnswered
