\* The developer moves files about between git's answers.
SPECIFICATION FairSpec
CONSTANTS
  p1 = p1  p2 = p2  p3 = p3
  f1 = f1  f2 = f2  f3 = f3
  Packages = {p1, p2, p3}
  NoPackage = NoPackage
  Files = {f1, f2, f3}
  Shared = {f3}
  Inside <- MCInside
  Depth <- MCDepth
  Graphs <- SomeGraphs
  Busy = TRUE
INVARIANTS TypeOK NothingSlips NothingExtra
PROPERTIES PlanEnds
CHECK_DEADLOCK FALSE
