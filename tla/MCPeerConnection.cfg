SPECIFICATION MCSpec
CONSTANTS
    Scenarios <- MCScenarios
    Libraries = {"juice", "nice"}
    ServerLists <- MCServerLists
    MaxTurnServers = 2
    Configurations <- MCConfigurations
    EXT16 = 2
    EXT64 = 4
    MaxControl = 1
    MaxMessageSize = 3
    MaxOutstandingPings = 1
    Lengths = {0, 2, 5}
    Chunks = {1, 3, 7}
    MaxFrames = 2
    MaxIdle = 2
INVARIANTS NoSpontaneousEnd CloseCompletes IceAgentSafe  
CHECK_DEADLOCK FALSE
