\* Services' calls in every order on one ledger, and the kernel's run, with
\* seconds passing between the calls.
SPECIFICATION Spec
CONSTANTS
  t1 = t1  t2 = t2  ann = ann  annx = annx
  Blank = Blank
  Tenants = {t1, t2}
  Actors = {ann, annx, Blank}
  ClaimNames <- MCClaimNames
  Word <- MCWord
  Words <- MCWords
  Digest <- MCDigest
  Principals <- MCPrincipals
  PolicyInputs <- MCPolicyInputs
  SignalLists <- MCSignalLists
  Claims <- MCClaims
  Upgrades <- MCUpgrades
  LabelSets <- MCLabelSets
  Texts <- MCTexts
  Callers = {"services", "kernel"}
  MaxCalls = 3
  MaxClock = 1
INVARIANTS TypeOK LedgerAccounts StateIsWorst ReadySound RollbackUndoes
CHECK_DEADLOCK FALSE
