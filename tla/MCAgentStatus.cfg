SPECIFICATION FairSpec
CONSTANTS
  Servers = {s1, s2}
  Ingest = {s1, s2}
  Window = 2
  Every = 2
  FaultKinds = {"kill", "link", "server", "store"}
  Faults = 4
CHECK_DEADLOCK FALSE
INVARIANTS OneAlarmPerLife
PROPERTIES  SilenceTold
