SPECIFICATION FairSpec
CONSTANTS
  Host = {h1, h2}
  MaxChannels = 2
  Backlog = 2
  MaxFailures = 1
  NoChannel = NoChannel
INVARIANT TypeOK
INVARIANT CapturedIsCurrent
INVARIANT InstalledIsOpen
INVARIANT NoChannelLeaks
INVARIANT LoneHostNotStranded
PROPERTY ImplementsReportChannel
PROPERTY LoneHostServed
PROPERTY ShutdownEnds
CHECK_DEADLOCK FALSE
