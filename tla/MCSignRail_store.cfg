\* One run and a build that does not wait for it.
SPECIFICATION Spec
CONSTANTS
  i1 = i1  i2 = i2  d1 = d1  d2 = d2  s1 = s1  s2 = s2  k1 = k1  k2 = k2
  NoBytes = NoBytes
  NoRun = NoRun
  Runs = {r1}
  Checks = {c1}
  Ids = {i1, i2}
  Dirs = {d1}
  Stages = {s1, s2}
  Keys = {k1, k2}
  Bytes = {b1, b2}
  Requests <- RetryRequests
  Invocations <- RetryInvocations
  Exclusive = TRUE
INVARIANT ContentAddressed
