CONSTANTS
  Ids <- MCIds
  Unreadable = {}
  Unstorable = {}
  Batches = {}
  Limits = {}
  Senders = {"sender"}
  Syncers = {"small", "all"}
  Fresh <- MCFresh
  SyncLimit <- MCSyncLimit
  ApiKey <- OneKey
  SendLimit = 2
  NoLimit = 99
  MaxFaults = 2
SPECIFICATION KeepsSyncing
INVARIANTS TypeOK OnePlace NoSilentLoss NeverSentAgain SmallLimits
PROPERTIES SyncEnds Settled ImplementsLife
