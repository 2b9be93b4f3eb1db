SPECIFICATION Spec
CONSTANTS
  alice = alice
  bob = bob
  Users <- MCUsers
  NoUser = NoUser
  NoKey = NoKey
  OldRows = {}
  MaxKeys = 1
  MaxMessages = 1
  Talks <- EachOther
  Faults = {}
INVARIANT ContactsLoad
CHECK_DEADLOCK FALSE
