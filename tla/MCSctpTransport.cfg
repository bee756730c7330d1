SPECIFICATION MCSpec
CONSTANTS
    s1 = s1
    Streams <- MCOneStream
    Sizes <- MCSizes
    MessageCount = 3
    Room = 1
    MaxInput = 1
    MaxCloses = 1
    MaxCalls = 4
    Creators <- MCCreators
    MaxCreated = 2
    MaxSent = 1
    MaxStream = 1
INVARIANTS QueueExact NothingLeft WrittenReleases  ChannelsSettle
PROPERTIES ShutdownLast
CHECK_DEADLOCK FALSE
