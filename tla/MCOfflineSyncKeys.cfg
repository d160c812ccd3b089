CONSTANTS
  Ids <- MCIds
  Unreadable = {}
  Unstorable = {}
  Batches = {}
  Limits = {}
  Senders = {"sender"}
  Syncers = {"small", "all"}
  Fresh <- MCFresh
  SyncLimit <- MCSyncLimit
  ApiKey <- TwoKeys
  SendLimit = 2
  NoLimit = 99
  MaxFaults = 2
SPECIFICATION Spec
INVARIANT NoSilentLoss
