CONSTANTS
  Ids <- MCIds
  Unreadable = {}
  Unstorable = {}
  Batches = {}
  Limits = {}
  Commands = {"a", "b"}
  Beats <- FewBeats
  SendLimit = 2
  SyncMax <- MCSyncMax
  NoLimit = 99
  Timeout = 1
  Legacy = {3}
  MaxClock = 2
  MaxFaults = 2
SPECIFICATION Spec
PROPERTY LegacyIsSent
