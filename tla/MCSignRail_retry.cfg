\* Runs one after the other, killed anywhere, the artifact rebuilt at
\* any time, and a check; each process is scheduled fairly.
SPECIFICATION FairSpec
CONSTANTS
  i1 = i1  i2 = i2  d1 = d1  d2 = d2  s1 = s1  s2 = s2  k1 = k1  k2 = k2
  NoBytes = NoBytes
  NoRun = NoRun
  Runs = {r1, r2}
  Checks = {c1}
  Ids = {i1, i2}
  Dirs = {d1}
  Stages = {s1, s2}
  Keys = {k1, k2}
  Bytes = {b1, b2}
  Requests <- RetryRequests
  Invocations <- RetryInvocations
  Exclusive = TRUE
INVARIANTS NoSpuriousReject RetryRepairs
PROPERTIES SettledIsAccepted
