SPECIFICATION FairSyncSpec
CONSTANTS
  n1 = n1
  n2 = n2
  Names <- TwoNames
  Script <- Reused
  MaxInFlight = 2
PROPERTY AckReleasesServer
