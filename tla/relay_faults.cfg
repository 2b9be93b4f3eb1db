SPECIFICATION Spec
CONSTANTS
  alice = alice
  bob = bob
  nameless = nameless
  Names <- MCNames
  ValidNames <- MCValidNames
  NoName = NoName
  MaxConnections = 2
  MaxPayloads = 2
  MaxRestarts = 1
  MaxFailedLinks = 1
  FailingStatements = {"select", "insert", "delete"}
  SessionsOverlap = TRUE
SYMMETRY Users
INVARIANTS TypeOK RegistrySound NothingVanishes
PROPERTY ImplementsMailbox
CHECK_DEADLOCK FALSE
