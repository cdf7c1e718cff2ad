\* Two runs of one release in every interleaving, killed anywhere, and a
\* check that reads between their writes.
SPECIFICATION Spec
SYMMETRY RunSymmetry
CONSTANTS
  i1 = i1  i2 = i2  d1 = d1  d2 = d2  s1 = s1  s2 = s2  k1 = k1  k2 = k2
  NoBytes = NoBytes
  NoRun = NoRun
  Runs = {r1, r2}
  Checks = {c1}
  Ids = {i1}
  Dirs = {d1, d2}
  Stages = {s1, s2}
  Keys = {k1, k2}
  Bytes = {b1}
  Requests <- RaceRequests
  Invocations <- RaceInvocations
  Exclusive = FALSE
INVARIANTS TypeOK ApprovedOnly ReceiptLast AcceptedSound
PROPERTIES LedgerSpec
