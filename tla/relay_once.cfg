SPECIFICATION Spec
CONSTANTS
  alice = alice
  bob = bob
  nameless = nameless
  Names <- MCNames
  ValidNames <- MCValidNames
  NoName = NoName
  MaxConnections = 2
  MaxPayloads = 2
  MaxRestarts = 1
  MaxFailedLinks = 2
  FailingStatements = {"select", "insert"}
  SessionsOverlap = FALSE
SYMMETRY Users
INVARIANT AtMostOnce
CHECK_DEADLOCK FALSE
