SPECIFICATION FairSpec
CONSTANTS
  alice = alice
  carol = carol
  bob = bob
  Names <- MCNames
  NoName = NoName
  Peers <- MCPeers
  NoPeer = NoPeer
  MaxKeys = 1
  MaxStarts = 1
  MaxSockets = 3
  MaxTasks = 3
  MaxMessages = 2
  MaxFailures = 1
PROPERTIES StaysConnected ReceivedIsShown
CHECK_DEADLOCK FALSE
