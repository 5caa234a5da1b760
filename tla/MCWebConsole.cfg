SPECIFICATION WebSpec
CONSTANTS
  Clicks <- ClicksOf
  Ids = {1, 2}
  Places = {p1, p2}
  Refused = Refused
  Events = {1, 2, 3, 4, 5}
  Marks <- MarksOf
  Cited <- CitedBy
  FirstRead = 3
  Listed = 3
  Cap = 3
  Kinds <- KindsOf
  Words <- WordsOf
  h1 = h1
  h2 = h2
  process = process
  file = file
  open = open
  other = other
  None = None
INVARIANTS  TreeAboutFocus
PROPERTIES RefusedEndsAtLogin AgentsCatchUp NoteKept SecondClick
CHECK_DEADLOCK FALSE
