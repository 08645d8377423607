SPECIFICATION PaymentSpec
CONSTANTS
  poster = poster  worker = worker  tee = tee  j1 = j1  j2 = j2
  e1 = e1  e2 = e2  s1 = s1  a1 = a1  a2 = a2
  NoJob = NoJob  NoOne = NoOne  NoValidator = NoValidator  NoRecord = NoRecord
  Jobs = {j1, j2}
  Users = {poster, worker}
  Poster <- MCPoster
  Funds <- MCFunds
  JobRent = 1
  Rewards = {1}
  Stakes = {1}
  Deadlines = {1}
  Levels = {0}
  Reports <- MCReports
  Validators = {tee}
  REVIEW_PERIOD_SECS = 0
  DISPUTE_WINDOW_SECS = 1
  MaxTime = 2
  MaxBids = 1
  EscrowIds = {e1}
  LeafTrees = {a1}
  Sessions = {s1}
  Deposits = {2}
  Amounts = {1, 2}
  PaymentReports <- MCPaymentReports
  EscrowRent = 1
  RecordRent = 1
INVARIANTS PaymentTypeOK PurseAccounted MeteringBacked PaidAgentIsClaimer PaymentsConserved
PROPERTIES SettlementFinal 
CHECK_DEADLOCK FALSE
