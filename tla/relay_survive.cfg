SPECIFICATION Spec
CONSTANTS
  alice = alice
  bob = bob
  nameless = nameless
  Names <- MCNames
  ValidNames <- MCValidNames
  NoName = NoName
  MaxConnections = 2
  MaxPayloads = 1
  MaxRestarts = 0
  MaxFailedLinks = 2
  FailingStatements = {}
  SessionsOverlap = TRUE
INVARIANT StoredSurvives
CHECK_DEADLOCK FALSE
