SPECIFICATION FairSpec
CONSTANTS
  alice = alice
  bob = bob
  nameless = nameless
  Names <- MCNames
  ValidNames <- MCValidNames
  NoName = NoName
  MaxConnections = 2
  MaxPayloads = 1
  MaxRestarts = 0
  MaxFailedLinks = 0
  FailingStatements = {}
  SessionsOverlap = TRUE
PROPERTY OnlineIsForwarded
CHECK_DEADLOCK FALSE
