SPECIFICATION FairSpec
CONSTANTS
  MaxUpsets = 3
  MaxServers = 2
  MaxPending = 2
INVARIANT TypeOK
INVARIANT ConnectedIsTrue
INVARIANT NeverAtRestUnconnected
PROPERTY SettledStays
PROPERTY ConnectsAgain
CHECK_DEADLOCK FALSE
