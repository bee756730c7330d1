CONSTANTS
    AppThreads = {"app"}
    LibThreads = {"lib"}
    Kinds = {"pc", "ws"}
    MaxHandles = 1
    MaxFired = 1
    Overlap = FALSE
    CleanupInUse = TRUE
SPECIFICATION CApiSpec
PROPERTIES CleanupReturns
CHECK_DEADLOCK FALSE
