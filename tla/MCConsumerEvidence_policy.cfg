\* One run given another policy than the checkout's, nothing moving meanwhile.
SPECIFICATION Spec
CONSTANTS
  finder = finder  tool = tool  stranger = stranger  c1 = c1  c2 = c2
  p1 = p1  p2 = p2  e1 = e1  e2 = e2  m1 = m1  m2 = m2
  Web = web
  Control = control
  Repos = {finder, tool, web}
  Tagged = {tool, web}
  Strangers = {stranger}
  Commits = {c1, c2}
  Tree <- MCTree
  Policies = {p1, p2}
  Engines = {e1, e2}
  Receipts <- MCReceipts
  RedlineManifests = {m1, m2}
  Edits <- MCEdits
  Others <- MCOthers
  Drafts <- MCDrafts
  MaxRuns = 1
  MaxMoves = 0
  Absent = absent  Torn = torn  NoEngine = none
INVARIANT PolicyBinds
CHECK_DEADLOCK FALSE
