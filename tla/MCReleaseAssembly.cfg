\* Up to two artifacts, three signers, every order of calls and an
\* assignment to any public field between them.
SPECIFICATION Spec
CONSTANTS
  a1 = a1  a2 = a2  none = none  x1 = x1
  Digests = {a1, a2, none}
  Blank = none
  Artifacts <- MCArtifacts
  Sources = {x1, x2}
  Trusted = {x1}
  Headers <- MCHeaders
  k1 = k1  k2 = k2  p1 = p1  p2 = p2
  KeyIds = {k1, k2}
  Secrets = {p1, p2}
  Signers <- MCSigners
  Foreign <- MCForeign
  NoSbom = NoSbom
  NoSigning = NoSigning
  MaxArtifacts = 2
  MaxEdits = 1
  Expiry = 1
  MaxTime = 1
INVARIANTS TypeOK WitnessSound WitnessedAsSigned SignedPasses
