SPECIFICATION FairSpec
CONSTANTS
  poster = poster  worker = worker  rival = rival
  tee = tee  outsider = outsider  j1 = j1  j2 = j2
  NoJob = NoJob  NoOne = NoOne
  Jobs = {j1}
  Users = {poster, worker, rival}
  Poster <- MCPoster
  Funds <- MCFunds
  JobRent = 2
  Rewards = {0, 20}
  Stakes = {0, 1, 2, 5}
  Deadlines = {1, 2}
  Levels = {0, 1}
  Reports <- MCReports
  Validators = {tee}
  REVIEW_PERIOD_SECS = 1
  DISPUTE_WINDOW_SECS = 2
  MaxTime = 5
  MaxBids = 2
INVARIANTS TypeOK ClaimProvenance AttestedByValidator DeadlineDecides
PROPERTIES ClaimTermsFixed ImplementsContract 
CHECK_DEADLOCK FALSE
