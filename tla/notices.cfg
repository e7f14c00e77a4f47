CONSTANTS
  Channels <- MCChannels
  Setups <- MCSetups
  TTL = 1
  MaxFaults = 1
SPECIFICATION FairSpec
INVARIANTS TypeOK SkippedIsCarried
PROPERTIES NoRepeat NoticesAreTold
