CONSTANTS
  Symbols <- MCSymbols
  Callers = {a1}
  Lanes = 2
  QueueCap = 2
  IngestCap = 1
  Setups <- MCSetups
SPECIFICATION FairSpec
INVARIANTS TypeOK PendingMatches StreamFollows HeldIsMonitored NoticedOnce
PROPERTIES PendingClears ReadersEnd StatusHeals
CHECK_DEADLOCK FALSE
