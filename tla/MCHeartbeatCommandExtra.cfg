CONSTANTS
  Ids <- MCIds
  Unreadable = {}
  Unstorable = {}
  Batches = {}
  Limits = {}
  Commands = {"a", "b"}
  Beats <- ManyBeats
  SendLimit = 2
  SyncMax <- MCSyncMax
  NoLimit = 99
  Timeout = 1
  Legacy = {}
  MaxClock = 2
  MaxFaults = 2
SPECIFICATION Spec
INVARIANT ExtrasAwaited
