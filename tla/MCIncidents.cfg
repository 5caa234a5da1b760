SPECIFICATION Spec
CONSTANTS
  d1 = d1
  d2 = d2
  d3 = d3
  a1 = a1
  a2 = a2
  i1 = i1
  w1 = w1
  w2 = w2
  Detections = {d1, d2, d3}
  Agents = {a1, a2}
  Agent <- AgentOf
  Qualifies = {d1, d2, d3}
  Items = {i1}
  Match <- MatchOf
  Until <- UntilOf
  Workers = {w1, w2}
  Analysts = {h1}
  Editors = {e1}
  Window = 2
  Throttle = 2
  None = None
  MaxTime = 2
  MaxCases = 2
  MaxEdits = 2
  MaxFaults = 1
SYMMETRY Symmetry
CHECK_DEADLOCK FALSE
PROPERTIES GateFollowsStore AlertsSpaced CasesAsAtomic
