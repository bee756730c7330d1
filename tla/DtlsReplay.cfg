SPECIFICATION FairSpec
CONSTANTS
    Builds <- MCOpenSSLServer
    PacketCount = 1
    HoldLimit = 1
    QueueLimit = 1
    MaxExpired = 1
PROPERTIES PacketConsumed
CHECK_DEADLOCK FALSE
