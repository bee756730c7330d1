SPECIFICATION MCSpec
CONSTANTS
    Plans <- MCPlans
    Candidates <- MCCandidates
    Unresolved <- MCUnresolved
    DynamicTypes = {96, 97, 98}
    PayloadTypes = {96, 97, 111}
    Formats = {"VP8", "H264"}
    Ssrcs <- MCSsrcs
    SdpMids = {"0", "d"}
    SdpCandidates <- MCSdpCandidates
    MaxEdits = 3
INVARIANTS PeersAgree  RtxConsistent
PROPERTIES NegotiationSettles
CHECK_DEADLOCK FALSE
