SPECIFICATION ArchiveSpec
CONSTANTS
  t1 = t1  a1 = a1  a2 = a2  a3 = a3
  poster = poster  worker = worker  tee = tee  j1 = j1
  NoJob = NoJob  NoOne = NoOne
  Jobs = {j1}
  Users = {poster, worker}
  Poster <- MCPoster
  Funds <- MCFunds
  JobRent = 1
  Rewards = {10}
  Stakes = {2}
  Deadlines = {1}
  Levels = {1}
  Reports <- MCReports
  Validators = {tee}
  REVIEW_PERIOD_SECS = 0
  DISPUTE_WINDOW_SECS = 1
  MaxTime = 2
  MaxBids = 1
  Disputes <- MCDisputes
  Verifiers = {}
  DisputeRent = 1
  VoteRent = 1
  PANEL_QUORUM = 1
  Trees = {a1, a2}
  ArchiveTrees = {a3}
  MaxLives = 2
  Keepers = {worker}
  ArchiveRent = 1
  CredentialRent = 1
INVARIANTS ArchiveTypeOK LedgerConserved ArchiveFaithful NoRecordLost RentHeld FoundedInItsLife
PROPERTIES FinishedPaysOnly ClearedForGood
SYMMETRY TreeSymmetry
CHECK_DEADLOCK FALSE
