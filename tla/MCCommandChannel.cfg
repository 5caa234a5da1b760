SPECIFICATION FairSpec
CONSTANTS
  Calls = {k1, k2}
  Conns = {c1, c2}
  FaultKinds = {"link", "silent", "agent", "server", "store"}
  Faults = 1
  None = None
CHECK_DEADLOCK FALSE
INVARIANT OutcomesHonest
PROPERTIES PendingResolved ChannelRecovers
