CONSTANTS
  Channels <- MCChannels
  Setups <- PartlySetups
  TTL = 1
  MaxFaults = 0
SPECIFICATION FairSpec
PROPERTY FullCloseIsTold
