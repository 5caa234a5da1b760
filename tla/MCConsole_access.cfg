SPECIFICATION Spec
CONSTANTS
  any = any
  text = text
  Moves <- Entering
  Reads <- Two
  Ids = {1, 2}
  Hits <- HitsOf
  PageSize = 2
  RulePage = 1
  Severe = {2}
  Limit = 2
  Links = {None, 1}
  Supps = {s1}
  Columns = {tactic}
  Events = {1, 2, 3}
  Late = {2}
  Filters = {any, text}
  Matches <- MatchesOf
  Local = {any}
  FeedPage = 1
  TailLimit = 2
  Cap = 2
  Slots = {slot}
  Components = {c1, c2}
  MaxTimers = 3
  h1 = h1
  h2 = h2
  root = root
  Root = root
  ann = ann
  p1 = p1
  f1 = f1
  d1 = d1
  t1 = t1
  t2 = t2
  t3 = t3
  t4 = t4
  Facts <- FactsOf
  Subject <- SubjectOf
  Categories = {file}
  StoryLimit = 1
  Sources = 1
  Flows <- FlowsOf
  Techniques = {t1, t2, t3, t4}
  Tactic <- TacticOf
  Parent <- ParentOf
  Stages = 5
  Ranks = 2
  Window = 4
  Buckets = 2
  Top = 2
  Around = 1
  Browsers = {b1, b2}
  SessionTTL = 2
  CacheAge = 2
  Keep = 1
  TokenTTL = 2
  Slack = 1
  Calls = {call1, call2}
  Horizon = 3
  Ready = Ready
  None = None
  Asked = Asked
  Gone = Gone
PROPERTIES CallsEntitled
CHECK_DEADLOCK FALSE
SYMMETRY Alike
