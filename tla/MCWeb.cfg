SPECIFICATION MCSpec
CONSTANTS
    Socks = {1}
    MaxChanges = 3
    MaxAddresses = 2
    Sizes = {1, 3}
    PingSize = 1
    SocketRoom = 3
    MaxQueue = 2
    IdMod = 4
    Libraries = {"openssl", "gnutls", "mbedtls"}
    HandshakeLength = 2
    MaxRecords = 4
PROPERTIES PollServes  RecordsTaken
CHECK_DEADLOCK FALSE
