SPECIFICATION FairSpec
CONSTANTS
  e1 = e1
  e2 = e2
  b1 = b1
  Events = {e1, e2}
  Batches = {b1}
  Content <- OneBatch
  Requests = {r1}
  Msgs = {m1, m2, m3}
  Workers = {w1, w2}
  MaxDeliver = 3
  Sigma = {e1}
  Novel = {e2}
  Faults = 2
  Cap = 2
  None = None
CHECK_DEADLOCK FALSE
INVARIANT AckedIsProcessed
PROPERTIES KeepsCustody EventuallyProcessed
