\* Every command line of up to four tokens, against what the wrapper says of
\* the hooks of a commit it lets through.
SPECIFICATION Spec
CONSTANTS
  MaxLen = 4
INVARIANTS NeverUnverified
CHECK_DEADLOCK FALSE
