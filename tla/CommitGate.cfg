\* Every command line of up to four tokens, in every environment.
SPECIFICATION Spec
CONSTANTS
  MaxLen = 4
INVARIANTS TypeOK AuditedCommits
CHECK_DEADLOCK FALSE
