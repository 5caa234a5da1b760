SPECIFICATION Spec
CONSTANTS
  a1 = a1
  a2 = a2
  e1 = e1
  Keys <- TwoKeys
  Entities = {e1}
  Agents = {a1, a2}
  Count <- SmallCount
  Window <- SmallWindow
  ExfilBytes = 2
  ExfilWindow = 3
  Refire = 3
  GcEvery = 2
  Sizes = {1}
  MaxTime = 5
  First = 1
  MaxEvents = 5
  MaxLate = 1
  None = None
CHECK_DEADLOCK FALSE

PROPERTIES FiresExactly CountsReal ExfilWithinWindow
