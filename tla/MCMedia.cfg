SPECIFICATION MediaSpec
CONSTANTS
  Codecs <- MCCodecs
  Frames <- MCFrames
  Separator = "StartSequence"
  mMaxFragmentSize = 6
  SequenceModulus = 16
  FirstNumbers <- MCFirstNumbers
  MaxFrames = 2
  MaxLate = 1
  RTP_SEQ_MOD = 8
  MAX_DROPOUT = 3
  MAX_MISORDER = 2
  MaxSize = 2
  FirstSeqs <- MCFirstSeqs
  MaxPackets = 4
  ReportTimes = {1, 3}
  MaxNacks = 1
  MaxRequests = 2
  MaxInFlight = 2
  MaxFeedback = 1
  a = a
  b = b
  Tracks = {a, b}
  Paced = {a}
  Ssrcs <- MCSsrcs
  Directions <- MCDirections
  Inputs <- MCInputs
  Sizes = {1, 3}
  RECV_QUEUE_LIMIT = 1
  MaxQueueAmount = 2
  MaxBudget = 2
  MaxSent = 3
  MaxReceived = 1
  NackLists <- MCNackLists
  Bitrates <- MCBitrates
  RtcpPackets <- MCRtcpPackets
  SdesPackets <- MCSdesPackets
  ExtensionLists <- MCExtensionLists
  Contexts <- MCContexts
  Allocations <- MCAllocations
INVARIANTS FramesIntact RetransmissionFaithful  MediaFlows 
CHECK_DEADLOCK FALSE
