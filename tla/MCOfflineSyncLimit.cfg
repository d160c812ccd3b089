CONSTANTS
  Ids <- MCIds
  Unreadable = {}
  Unstorable = {}
  Batches = {}
  Limits = {}
  Senders = {"sender"}
  Syncers = {"default"}
  Fresh <- MCFresh
  SyncLimit <- MCSyncLimit
  ApiKey <- OneKey
  SendLimit = 2
  NoLimit = 99
  MaxFaults = 2
SPECIFICATION Spec
INVARIANT SyncLimitRespected
