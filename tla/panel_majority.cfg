SPECIFICATION PanelSpec
CONSTANTS
  poster = poster  worker = worker  rival = rival  tee = tee  j1 = j1  j2 = j2
  NoJob = NoJob  NoOne = NoOne
  Jobs = {j1}
  Users = {poster, worker, rival}
  Poster <- MCPoster
  Funds <- MCFunds
  JobRent = 1
  Rewards = {20}
  Stakes = {3}
  Deadlines = {1}
  Levels = {0, 1}
  Reports <- MCReports
  Validators = {tee}
  REVIEW_PERIOD_SECS = 1
  DISPUTE_WINDOW_SECS = 2
  MaxTime = 4
  MaxBids = 1
  t1 = t1  t2 = t2
  Disputes <- OneThread
  Verifiers = {poster, worker, rival}
  DisputeRent = 1
  VoteRent = 1
  PANEL_QUORUM = 2
PROPERTIES PanelMajority
CHECK_DEADLOCK FALSE
