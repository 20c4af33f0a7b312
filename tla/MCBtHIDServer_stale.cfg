SPECIFICATION FairSpec
CONSTANTS
  Host = {h1, h2}
  MaxChannels = 2
  Backlog = 2
  MaxFailures = 1
  NoChannel = NoChannel
CHECK_DEADLOCK FALSE
PROPERTY FailureRemovesOwnConnection
