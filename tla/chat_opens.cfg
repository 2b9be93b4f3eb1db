SPECIFICATION FairSpec
CONSTANTS
  alice = alice
  bob = bob
  Users <- MCUsers
  NoUser = NoUser
  NoKey = NoKey
  OldRows = {}
  MaxKeys = 1
  MaxMessages = 2
  Talks <- Everybody
  Faults = {}
INVARIANT BookIsSaved
PROPERTY OpenedIsShown
CHECK_DEADLOCK FALSE
