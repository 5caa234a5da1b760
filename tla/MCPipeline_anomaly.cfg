SPECIFICATION Spec
CONSTANTS
  e1 = e1
  e2 = e2
  b1 = b1
  Events = {e1}
  Batches = {b1}
  Content <- OneBatch
  Requests = {r1}
  Msgs = {m1}
  Workers = {w1}
  MaxDeliver = 2
  Sigma = {}
  Novel = {e1}
  Faults = 1
  Cap = 2
  None = None
CHECK_DEADLOCK FALSE
INVARIANT AnomalyStored
