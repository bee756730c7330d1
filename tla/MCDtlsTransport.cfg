SPECIFICATION FairSpec
CONSTANTS
    Builds <- MCRetransmitting
    PacketCount = 2
    HoldLimit = 1
    QueueLimit = 1
    MaxExpired = 1
INVARIANTS SkipIsCovered QuietAfterStop
PROPERTIES ClosedLast TransportServes
CHECK_DEADLOCK FALSE
