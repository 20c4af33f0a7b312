SPECIFICATION FairSpec
CONSTANTS
  MaxUpsets = 1
  MaxServers = 1
  MaxPending = 3
PROPERTY ReconnectSettles
CHECK_DEADLOCK FALSE
