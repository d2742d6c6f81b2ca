CONSTANTS
  m0 = m0
  m1 = m1
  m2 = m2
  me = me
  ARP_TABLE_SIZE = 2
  ARP_CACHE_TIME_TO_LIVE = 2
  IpAddr <- MCIpAddr
  NoIp <- MCNoIp
  AllOnes <- MCAllOnes
  EthAddr <- MCEthAddr
  NoEth = m0
  Broadcast = Broadcast
  MyEth = me
  Frames <- MCFrames
  InitConfig <- MCInitConfig
  NewConfigs <- MCNewConfigs
  Driver = "w5100"
  Word = 65536
  NicRoom = 2
  MaxFrames = 3
SPECIFICATION Spec
INVARIANTS TypeOK UniqueIp CacheIsLatest HandledOnce
PROPERTIES LiveEntryStays AnswerReachesHop FrameTaken
