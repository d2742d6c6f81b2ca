CONSTANTS
  ARP_TABLE_SIZE = 1
  ARP_CACHE_TIME_TO_LIVE = 1
  IpAddr <- MCIpAddr
  NoIp <- MCNoIp
  EthAddr = {0, 1}
  NoEth = 0
  Broadcast = 255
  AllOnes <- MCAllOnes
  MyEth = 1
  Servers <- MCServers
  Pool <- MCPool
  Options <- MCOptions
  Absent = Absent
  MyXid = 1
  OtherXid = 2
  Faults = {"lose", "duplicate"}
  MaxNet = 2
SPECIFICATION Spec
INVARIANTS TypeOK LeaseHeld OnlyWhenAsked
PROPERTIES GetsConfigured
