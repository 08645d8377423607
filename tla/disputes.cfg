SPECIFICATION PanelSpec
CONSTANTS
  t1 = t1  t2 = t2
  poster = poster  worker = worker  rival = rival  tee = tee  j1 = j1  j2 = j2
  NoJob = NoJob  NoOne = NoOne
  Jobs = {j1, j2}
  Users = {poster, worker}
  Poster <- MCPoster
  Funds <- MCFunds
  JobRent = 1
  Rewards = {20}
  Stakes = {3}
  Deadlines = {1}
  Levels = {1}
  Reports <- MCReports
  Validators = {tee}
  REVIEW_PERIOD_SECS = 1
  DISPUTE_WINDOW_SECS = 1
  MaxTime = 2
  MaxBids = 1
  Disputes <- TwoThreads
  Verifiers = {worker}
  DisputeRent = 1
  VoteRent = 1
  PANEL_QUORUM = 2
INVARIANTS PanelTypeOK VaultSolvent DisputeFounded LostMeansFailed WindowExclusive VerdictPossible
PROPERTIES VerdictFinal RevisedOnlyByVerdict ImplementsArbitration
SYMMETRY ThreadSymmetry
CHECK_DEADLOCK FALSE
