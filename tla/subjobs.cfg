SPECIFICATION Spec
CONSTANTS
  poster = poster  worker = worker  
  tee = tee  j1 = j1  j2 = j2  j3 = j3
  NoJob = NoJob  NoOne = NoOne
  Jobs = {j1, j2, j3}
  Users = {poster, worker}
  Poster <- MCPoster
  Funds <- MCFunds
  JobRent = 1
  Rewards = {11, 20}
  Stakes = {2}
  Deadlines = {1}
  Levels = {1}
  Reports <- MCReports
  Validators = {tee}
  REVIEW_PERIOD_SECS = 0
  DISPUTE_WINDOW_SECS = 1
  MaxTime = 2
  MaxBids = 1
SYMMETRY JobSymmetry
INVARIANTS LamportsConserved FamilyBalance SubJobLineage EscrowBalance
PROPERTIES ImplementsContract
CHECK_DEADLOCK FALSE
