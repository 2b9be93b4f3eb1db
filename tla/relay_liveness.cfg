SPECIFICATION FairSpec
CONSTANTS
  alice = alice
  bob = bob
  nameless = nameless
  Names <- MCNames
  ValidNames <- MCValidNames
  NoName = NoName
  MaxConnections = 2
  MaxPayloads = 2
  MaxRestarts = 0
  MaxFailedLinks = 1
  FailingStatements = {}
  SessionsOverlap = TRUE
PROPERTIES EnvelopesSettle ClosedIsUnregistered LoadedIsDelivered
CHECK_DEADLOCK FALSE
