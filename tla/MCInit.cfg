CONSTANTS
    o1 = o1
    o2 = o2
    o3 = o3
    s1 = s1
    s2 = s2
    Objects <- MCObjects
    Settings <- MCSettings
    Default = s1
    MaxGenerations = 3
    WaitForCleanup = TRUE
    AppThreads = {"app"}
    LibThreads = {"lib", "net"}
    Kinds = {"pc", "track", "ws", "server"}
    MaxHandles = 2
    MaxFired = 2
    Overlap = FALSE
    CleanupInUse = FALSE
SPECIFICATION MCSpec
INVARIANTS LoadedWhileNeeded QuietOnceDeleted
 
CHECK_DEADLOCK FALSE
