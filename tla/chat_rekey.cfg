SPECIFICATION Spec
CONSTANTS
  alice = alice
  bob = bob
  Users <- MCUsers
  NoUser = NoUser
  NoKey = NoKey
  OldRows <- MCOldRows
  MaxKeys = 2
  MaxMessages = 2
  Talks <- EachOther
  Faults = {"lookup", "save"}
INVARIANTS TypeOK RefusedOnlyAfterRekey FileFollowsBook
PROPERTIES PinsKept ImplementsTrust
CHECK_DEADLOCK FALSE
