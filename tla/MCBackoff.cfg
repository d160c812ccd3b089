CONSTANTS
  Procs = {"a", "b"}
  Nobody = Nobody
  Keys <- MCKeys
  MaxFaults = 1
  Factor = 1
  MaxBackoff = 2
  NtlmProxy = {"a"}
  CustomUrl = {}
  Pause = 3
  FirstClock = 4
  LastFailure = 4
  MaxClock = 7
  MaxFailures = 2
SPECIFICATION KeepsRunning
INVARIANTS TypeOK PairKept BackoffJustified CountedFailures TakenOrQueued
PROPERTIES WritesEnd Recovers
CHECK_DEADLOCK FALSE
