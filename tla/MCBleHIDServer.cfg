SPECIFICATION FairSpec
CONSTANTS
  Payload <- MCPayload
  Zero = "zero"
  MaxQueue = 2
  MaxCalls = 2
INVARIANT TypeOK
INVARIANT HostInStep
INVARIANT SubscriptionKnown
INVARIANT HeldAtCloseIsCutOff
PROPERTY ImplementsReportPipe
PROPERTY LossNeedsLateCall
PROPERTY ReleaseReachesHost
PROPERTY SubscriptionSeen
