SPECIFICATION Spec
CONSTANTS
  Builds <- TwoBuilds
  First = 1
  Version <- Prints
  Codes = {"missed", "excused"}
  Policies = {"lax", "strict"}
  CleanTrees <- Verdicts
  Worlds <- SevenWorlds
  MaxWaiting = 2
INVARIANTS TypeOK OneAuditor PassedIsClean MainKeepsBaseline
CHECK_DEADLOCK FALSE
