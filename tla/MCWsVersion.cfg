\* Main moves on while the engine works, dies and is retried.
SPECIFICATION Spec
CONSTANTS
  Changes <- Mixed
  MaxPush = 2
  MaxSum = 4
  MaxBlind = 1
  MaxCommits = 3
  Hosts <- BothHosts
  Torn = Torn
INVARIANTS TypeOK BumpCovers InSync ChangelogIsReleases ReleasesEarned
INVARIANTS FloorIsPatch 
CHECK_DEADLOCK FALSE
