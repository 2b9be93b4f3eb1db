SPECIFICATION Spec
CONSTANTS
  alice = alice
  bob = bob
  nameless = nameless
  Names <- MCNames
  ValidNames <- MCValidNames
  NoName = NoName
  MaxConnections = 3
  MaxPayloads = 2
  MaxRestarts = 0
  MaxFailedLinks = 1
  FailingStatements = {"delete"}
  SessionsOverlap = TRUE
SYMMETRY Users
INVARIANTS Addressed InOrder
PROPERTIES HandOver LossNeedsFailure OnlyOwnUnregistration
CHECK_DEADLOCK FALSE
