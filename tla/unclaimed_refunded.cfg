SPECIFICATION FairSpec
CONSTANTS
  poster = poster  worker = worker  rival = rival
  tee = tee  outsider = outsider  j1 = j1  j2 = j2
  NoJob = NoJob  NoOne = NoOne
  Jobs = {j1}
  Users = {poster, worker}
  Poster <- MCPoster
  Funds <- MCFunds
  JobRent = 2
  Rewards = {20}
  Stakes = {2}
  Deadlines = {1, 2}
  Levels = {0, 1}
  Reports <- MCReports
  Validators = {tee}
  REVIEW_PERIOD_SECS = 1
  DISPUTE_WINDOW_SECS = 2
  MaxTime = 5
  MaxBids = 2
PROPERTIES UnclaimedRefunded
CHECK_DEADLOCK FALSE
