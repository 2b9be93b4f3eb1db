SPECIFICATION Spec
CONSTANTS
  alice = alice
  carol = carol
  bob = bob
  Names <- MCNames
  NoName = NoName
  Peers <- MCPeers
  NoPeer = NoPeer
  MaxKeys = 2
  MaxStarts = 2
  MaxSockets = 4
  MaxTasks = 2
  MaxMessages = 1
  MaxFailures = 1
SYMMETRY Users
INVARIANTS TypeOK OneSocket ReconnectsCounted SocketFollowsUser SentByOneUser ContactsOfUser RefusedOnlyAfterRekey
CHECK_DEADLOCK FALSE
