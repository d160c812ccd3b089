CONSTANTS
  Ids <- MCFiveIds
  Unreadable = {}
  Unstorable = {}
  Batches = {}
  Limits = {}
  Commands = {"a", "b"}
  Beats <- ThreeBeats
  SendLimit = 2
  SyncMax <- NoSyncMax
  NoLimit = 99
  Timeout = 1
  Legacy = {3}
  MaxClock = 2
  MaxFaults = 2
SPECIFICATION FairSpec
INVARIANTS TypeOK OnlyExtrasForgotten DisabledKeepsOut
PROPERTY CommandEnds
