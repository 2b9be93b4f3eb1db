SPECIFICATION StartSpec
CONSTANTS
  first = first
  second = second
  third = third
  Clients <- MCClients
  Unix = TRUE
  InitialFiles = {"absent", "legacy"}
  ClientsOverlap = TRUE
  MaxGenerations = 4
  Texts <- MCTexts
  MaxItems = 4
  Hosts <- MCHosts
  LocalHosts <- MCLocalHosts
  Paths <- MCPaths
  MaxSlashes = 2
  UserNames <- MCUserNames
INVARIANTS TypeOK KeysAgree PublishedIsSaved ArgumentsRead HintConnects ClientsAgree NamesRouted
PROPERTIES OneIdentity ImplementsSharedIdentity
CHECK_DEADLOCK FALSE
