CONSTANTS
  Clients = {c1, c2}
  NoClient = NoClient
  MaxRequeueAttempts = 3
  Ids <- MCIds
  Unreadable <- MCUnreadable
  Unstorable <- MCUnstorable
  Batches <- MCBatches
  Limits <- MCLimits
SPECIFICATION FairSpec
INVARIANTS TypeOK OneTransaction NoLostUpdate
PROPERTIES UnreadableBlocksPops Implements CallsReturn
