-------------------------- MODULE JobLedger_proofs --------------------------
(***************************************************************************)
(* Proofs about JobLedger: the lamports of all accounts together, and the  *)
(* books of parents and their sub-jobs, for all values of the constants.   *)
(***************************************************************************)
EXTENDS JobLedger, JobEscrow_proofs, Totals_proofs

-----------------------------------------------------------------------------
(***************************************************************************)
(* Conservation.  Every instruction takes from one account what it gives   *)
(* another.                                                                *)
(***************************************************************************)
Circulating == Total(wallet, Users) + Total(lamports, Jobs)

FiniteLedger == IsFiniteSet(Jobs) /\ IsFiniteSet(Users)

(* What a step does to the two totals, by what it does to single accounts. *)
LEMMA OneWallet ==
  ASSUME FiniteLedger, NEW u \in Users,
         \A v \in Users : wallet[v] \in Nat /\ wallet'[v] \in Nat,
         \A v \in Users \ {u} : wallet'[v] = wallet[v]
  PROVE  Total(wallet', Users) = Total(wallet, Users) + wallet'[u] - wallet[u]
<1>1. IsFiniteSet(Users) /\ \A v \in Users : wallet[v] \in Int /\ wallet'[v] \in Int
  BY DEF FiniteLedger
<1>2. QED BY <1>1, TotalOne

LEMMA OneAccount ==
  ASSUME FiniteLedger, NEW j \in Jobs,
         \A k \in Jobs : lamports[k] \in Nat /\ lamports'[k] \in Nat,
         \A k \in Jobs \ {j} : lamports'[k] = lamports[k]
  PROVE  Total(lamports', Jobs) = Total(lamports, Jobs) + lamports'[j] - lamports[j]
<1>1. IsFiniteSet(Jobs) /\ \A k \in Jobs : lamports[k] \in Int /\ lamports'[k] \in Int
  BY DEF FiniteLedger
<1>2. QED BY <1>1, TotalOne

LEMMA TwoAccounts ==
  ASSUME NEW p \in Jobs, NEW s \in Jobs, p # s, IsFiniteSet(Jobs),
         \A k \in Jobs : lamports[k] \in Int /\ lamports'[k] \in Int,
         \A k \in Jobs \ {p, s} : lamports'[k] = lamports[k]
  PROVE  Total(lamports', Jobs) = Total(lamports, Jobs) + (lamports'[p] - lamports[p])
                                                        + (lamports'[s] - lamports[s])
<1>1. ASSUME NEW f, NEW h, \A k \in Jobs : f[k] \in Int /\ h[k] \in Int,
             \A k \in Jobs \ {p, s} : h[k] = f[k]
      PROVE  Total(h, Jobs) = Total(f, Jobs) + (h[p] - f[p]) + (h[s] - f[s])
  BY <1>1, TotalTwo
<1>2. QED BY <1>1

LEMMA TotalsAreIntegers ==
  ASSUME TypeOK, FiniteLedger
  PROVE  Total(wallet, Users) \in Int /\ Total(lamports, Jobs) \in Int
<1>1. (\A u \in Users : wallet[u] \in Int) /\ (\A j \in Jobs : lamports[j] \in Int)
  BY DEF TypeOK
<1>2. QED BY <1>1, TotalType DEF FiniteLedger

(* What one account loses the other gets.                                  *)
LEMMA TransferConserves ==
  ASSUME TypeOK, TypeOK', FiniteLedger, NEW j \in Jobs, NEW u \in Users, NEW m, NEW w,
         lamports' = [lamports EXCEPT ![j] = m],
         wallet'   = [wallet EXCEPT ![u] = w],
         m + w = lamports[j] + wallet[u]
  PROVE  Circulating' = Circulating
<1>1. /\ \A v \in Users : wallet[v] \in Nat /\ wallet'[v] \in Nat
      /\ \A v \in Users \ {u} : wallet'[v] = wallet[v]
      /\ \A k \in Jobs : lamports[k] \in Nat /\ lamports'[k] \in Nat
      /\ \A k \in Jobs \ {j} : lamports'[k] = lamports[k]
      /\ lamports'[j] = m /\ wallet'[u] = w
  BY DEF TypeOK
<1>2. Total(wallet', Users) = Total(wallet, Users) + wallet'[u] - wallet[u]
  BY <1>1, OneWallet
<1>3. Total(lamports', Jobs) = Total(lamports, Jobs) + lamports'[j] - lamports[j]
  BY <1>1, OneAccount
<1>4. QED BY <1>1, <1>2, <1>3, TotalsAreIntegers DEF Circulating

LEMMA PayOutConserves ==
  ASSUME TypeOK, TypeOK', FiniteLedger, NEW j \in Jobs, NEW to \in Users,
         NEW amount \in Nat, PayOut(j, to, amount)
  PROVE  Circulating' = Circulating
<1> DEFINE paid == Lesser(amount, Available(j))
<1>1. paid \in Int /\ lamports[j] \in Int /\ wallet[to] \in Int
  BY AvailableType DEF Lesser, TypeOK
<1>2. /\ lamports' = [lamports EXCEPT ![j] = lamports[j] - paid]
      /\ wallet'   = [wallet EXCEPT ![to] = wallet[to] + paid]
  BY DEF PayOut
<1> HIDE DEF paid
<1>3. (lamports[j] - paid) + (wallet[to] + paid) = lamports[j] + wallet[to]
  BY <1>1
<1>4. QED BY <1>2, <1>3, TransferConserves

LEMMA PayClaimerConserves ==
  ASSUME TypeOK, TypeOK', FiniteLedger, NEW j \in Jobs, PayClaimer(j)
  PROVE  Circulating' = Circulating
<1>1. job[j].reward + job[j].claimer_stake \in Nat
  BY DEF TypeOK, JobAccount
<1>2. QED BY <1>1, PayOutConserves DEF PayClaimer

(* The reward moves from parent to sub-job, its rent comes from a wallet.  *)
LEMMA CreateSubJobConserves ==
  ASSUME TypeOK, TypeOK', FiniteLedger, NEW p \in Jobs, NEW s \in Jobs,
         NEW agent, NEW reward \in Nat, NEW deadline,
         CreateSubJob(p, s, agent, reward, deadline)
  PROVE  Circulating' = Circulating
<1> DEFINE u    == job[p].claimer
           rent == RentDue(JobRent, lamports[s])
<1>1. p # s /\ u \in Users
  BY DEF CreateSubJob, EscrowCovers, Exists
<1>2. /\ lamports' = [lamports EXCEPT ![p] = @ - reward, ![s] = @ + rent + reward]
      /\ wallet'   = [wallet EXCEPT ![u] = @ - rent]
  BY DEF CreateSubJob, FundSubJob
<1>3. rent \in Nat
  BY AmountAssumption DEF RentDue, TypeOK
<1> HIDE DEF u, rent
<1>4. /\ \A v \in Users : wallet[v] \in Nat /\ wallet'[v] \in Nat
      /\ \A v \in Users \ {u} : wallet'[v] = wallet[v]
      /\ \A k \in Jobs : lamports[k] \in Nat /\ lamports'[k] \in Nat
      /\ \A k \in Jobs \ {p, s} : lamports'[k] = lamports[k]
      /\ lamports'[p] = lamports[p] - reward
      /\ lamports'[s] = lamports[s] + rent + reward
      /\ wallet'[u] = wallet[u] - rent
  BY <1>1, <1>2 DEF TypeOK
<1>5. Total(wallet', Users) = Total(wallet, Users) + wallet'[u] - wallet[u]
  BY <1>1, <1>4, OneWallet
<1>6. Total(lamports', Jobs) = Total(lamports, Jobs) + (lamports'[p] - lamports[p])
                                                     + (lamports'[s] - lamports[s])
  <2>1. IsFiniteSet(Jobs) /\ \A k \in Jobs : lamports[k] \in Int /\ lamports'[k] \in Int
    BY <1>4 DEF FiniteLedger
  <2>2. QED BY <1>1, <1>4, <2>1, TwoAccounts
<1>7. lamports[p] \in Int /\ lamports[s] \in Int /\ wallet[u] \in Int
  BY <1>1, <1>4
<1>8. QED BY <1>1, <1>3, <1>4, <1>5, <1>6, <1>7, TotalsAreIntegers DEF Circulating

LEMMA InitializeConserves ==
  ASSUME TypeOK, TypeOK', FiniteLedger, NEW j \in Jobs, NEW reward \in Nat,
         NEW deadline, NEW mode, NEW level,
         InitializeJob(j, reward, deadline, mode, level)
  PROVE  Circulating' = Circulating
<1> DEFINE cost == RentDue(JobRent, lamports[j]) + reward
<1>1. Poster[j] \in Users
  BY PosterAssumption
<1>2. /\ lamports' = [lamports EXCEPT ![j] = lamports[j] + cost]
      /\ wallet'   = [wallet EXCEPT ![Poster[j]] = wallet[Poster[j]] - cost]
  BY DEF InitializeJob
<1>3. cost \in Int
  BY AmountAssumption DEF RentDue, TypeOK
<1> HIDE DEF cost
<1>4. (lamports[j] + cost) + (wallet[Poster[j]] - cost) = lamports[j] + wallet[Poster[j]]
  BY <1>1, <1>3 DEF TypeOK
<1>5. QED BY <1>1, <1>2, <1>4, TransferConserves

(* The refund of an expired claim, to a wallet or to a job.                *)
LEMMA ExpireClaimConserves ==
  ASSUME TypeOK, TypeOK', FiniteLedger, NEW j \in Jobs, NEW account,
         ExpireClaim(j, account)
  PROVE  Circulating' = Circulating
<1>1. CASE account \in Users /\ PayOut(j, account, job[j].reward)
  <2>1. job[j].reward \in Nat
    BY DEF TypeOK, JobAccount
  <2>2. QED BY <1>1, <2>1, PayOutConserves
<1>2. CASE /\ account \in Jobs
           /\ lamports' = [[lamports EXCEPT ![j] = @ - Refund(j)]
                              EXCEPT ![account] = @ + Refund(j)]
           /\ UNCHANGED wallet
  <2> DEFINE refund == Refund(j)
  <2>1. refund \in Nat
    BY RefundType
  <2>2. lamports' = [[lamports EXCEPT ![j] = @ - refund]
                        EXCEPT ![account] = @ + refund]
    BY <1>2
  <2> HIDE DEF refund
  <2>3. lamports \in [Jobs -> Nat] /\ lamports' \in [Jobs -> Nat]
    BY DEF TypeOK
  <2>4. CASE account = j
    <3>1. \A k \in Jobs : lamports'[k] = lamports[k]
      BY <2>1, <2>2, <2>3, <2>4
    <3>2. lamports' = lamports
      BY <2>3, <3>1
    <3>3. QED BY <1>2, <3>2 DEF Circulating
  <2>5. CASE account # j
    <3>1. /\ \A k \in Jobs \ {j, account} : lamports'[k] = lamports[k]
          /\ lamports'[j] = lamports[j] - refund
          /\ lamports'[account] = lamports[account] + refund
      BY <1>2, <2>1, <2>2, <2>3, <2>5
    <3>2. IsFiniteSet(Jobs) /\ \A k \in Jobs : lamports[k] \in Int /\ lamports'[k] \in Int
      BY <2>3 DEF FiniteLedger
    <3>3. Total(lamports', Jobs) = Total(lamports, Jobs) + (lamports'[j] - lamports[j])
                                     + (lamports'[account] - lamports[account])
      BY <1>2, <2>5, <3>1, <3>2, TwoAccounts
    <3>4. lamports[j] \in Int /\ lamports[account] \in Int
      BY <1>2, <3>2
    <3>5. Total(lamports', Jobs) = Total(lamports, Jobs)
      BY <2>1, <3>1, <3>3, <3>4, TotalsAreIntegers
    <3>6. QED BY <1>2, <3>5 DEF Circulating
  <2>6. QED BY <2>4, <2>5
<1>3. QED BY <1>1, <1>2 DEF ExpireClaim

(* Credited to an account that is not a job, it leaves the jobs' books.    *)
LEMMA ExpireElsewhereDebits ==
  ASSUME TypeOK, TypeOK', FiniteLedger, NEW j \in Jobs, ExpireElsewhere(j)
  PROVE  /\ Circulating' = Circulating - Refund(j)
         /\ Circulating \in Int /\ Refund(j) \in Nat
<1> DEFINE refund == Refund(j)
<1>1. refund \in Nat /\ lamports' = [lamports EXCEPT ![j] = @ - refund]
      /\ UNCHANGED wallet
  BY RefundType DEF ExpireElsewhere
<1> HIDE DEF refund
<1>2. /\ \A k \in Jobs : lamports[k] \in Nat /\ lamports'[k] \in Nat
      /\ \A k \in Jobs \ {j} : lamports'[k] = lamports[k]
      /\ lamports'[j] = lamports[j] - refund
  BY <1>1 DEF TypeOK
<1>3. Total(lamports', Jobs) = Total(lamports, Jobs) + lamports'[j] - lamports[j]
  BY <1>2, OneAccount
<1>4. lamports[j] \in Int
  BY <1>2
<1>5. Circulating' = Circulating - refund /\ Circulating \in Int
  BY <1>1, <1>2, <1>3, <1>4, TotalsAreIntegers DEF Circulating
<1>6. QED BY <1>1, <1>5 DEF refund

LEMMA LockStakeConserves ==
  ASSUME TypeOK, TypeOK', FiniteLedger, NEW j \in Jobs, LockStake(j)
  PROVE  Circulating' = Circulating
<1> DEFINE u == job[j].claimer
           x == job[j].claimer_stake
<1>1. x \in Int /\ u \in Users
  BY DEF LockStake, TypeOK, JobAccount
<1>2. /\ lamports' = [lamports EXCEPT ![j] = lamports[j] + x]
      /\ wallet'   = [wallet EXCEPT ![u] = wallet[u] - x]
  BY DEF LockStake
<1> HIDE DEF u, x
<1>3. (lamports[j] + x) + (wallet[u] - x) = lamports[j] + wallet[u]
  BY <1>1 DEF TypeOK
<1>4. QED BY <1>1, <1>2, <1>3, TransferConserves

(* No job instruction makes or loses a lamport.                            *)
LEMMA NextConserves ==
  ASSUME TypeOK, TypeOK', FiniteLedger, [Next]_vars
  PROVE  Circulating' = Circulating
<1>1. ASSUME UNCHANGED <<lamports, wallet>> PROVE Circulating' = Circulating
  BY <1>1 DEF Circulating
<1>2. \A j \in Jobs : job[j].reward \in Nat /\ Poster[j] \in Users
  BY PosterAssumption DEF TypeOK, JobAccount
<1>3. ASSUME NEW j \in Jobs, PosterStep(j) PROVE Circulating' = Circulating
  <2>1. ASSUME NEW reward \in Rewards, NEW deadline \in Deadlines,
               NEW mode \in {0, 1}, NEW level \in Levels,
               InitializeJob(j, reward, deadline, mode, level)
        PROVE  Circulating' = Circulating
    BY <2>1, AmountAssumption, InitializeConserves
  <2>2. ASSUME \/ \E agent \in Users \cup {NoOne} : AutoAssignJob(j, agent)
               \/ \E deadline \in Deadlines : ExtendDeadline(j, deadline)
               \/ DelegateJob(j)
        PROVE  Circulating' = Circulating
    BY <1>1, <2>2 DEF AutoAssignJob, ExtendDeadline, DelegateJob
  <2>3. CASE ExpireUnclaimed(j)
    BY <1>2, <2>3, PayOutConserves DEF ExpireUnclaimed
  <2>4. ASSUME NEW verdict \in 0..2, SettleJob(j, verdict)
        PROVE  Circulating' = Circulating
    BY <1>2, <2>4, PayOutConserves, PayClaimerConserves DEF SettleJob
  <2>5. QED BY <1>3, <2>1, <2>2, <2>3, <2>4 DEF PosterStep
<1>4. ASSUME NEW j \in Jobs, ClaimerStep(j) PROVE Circulating' = Circulating
  <2>1. CASE LockStake(j)
    BY <2>1, LockStakeConserves
  <2>2. ASSUME NEW s \in Jobs, NEW agent \in Users \cup {NoOne}, NEW reward \in Rewards,
               NEW deadline \in Deadlines,
               CreateSubJob(j, s, agent, reward, deadline)
        PROVE  Circulating' = Circulating
    BY <2>2, AmountAssumption, CreateSubJobConserves
  <2>3. ASSUME NEW h \in {0, 1},
               SubmitProof(j, h) \/ SubmitEncryptedProof(j, h) \/ SubmitVerifiedProof(j, h)
        PROVE  Circulating' = Circulating
    BY <1>1, <2>3 DEF SubmitProof, SubmitEncryptedProof, SubmitVerifiedProof, Submit
  <2>4. CASE AutoSettle(j) \/ ClaimTimeout(j)
    BY <2>4, PayClaimerConserves DEF AutoSettle, ClaimTimeout
  <2>5. QED BY <1>4, <2>1, <2>2, <2>3, <2>4 DEF ClaimerStep
<1>5. ASSUME NEW j \in Jobs, OtherStep(j) PROVE Circulating' = Circulating
  <2>1. ASSUME NEW account \in Users \cup Jobs, ExpireClaim(j, account)
        PROVE  Circulating' = Circulating
    BY <2>1, ExpireClaimConserves
  <2>2. CASE ~ \E account \in Users \cup Jobs : ExpireClaim(j, account)
    BY <1>1, <1>5, <2>2
    DEF OtherStep, PlaceBid, VerifyBidAttestation, CloseBidding, Undelegate
  <2>3. QED BY <2>1, <2>2
<1>6. CASE Tick \/ UNCHANGED vars
  BY <1>1, <1>6 DEF Tick, vars
<1>7. QED BY <1>3, <1>4, <1>5, <1>6 DEF Next

(* Nothing is made or lost by the job program's lamport arithmetic         *)
(* (try_borrow_mut_lamports in job.rs, bidding.rs and settlement.rs).      *)
THEOREM LamportsAreConserved == Spec => []LamportsConserved
<1>1. FiniteLedger
  BY LedgerAssumption DEF FiniteLedger
<1>2. Init => LamportsConserved
  <2> SUFFICES ASSUME Init PROVE LamportsConserved
    OBVIOUS
  <2>1. Total(lamports, Jobs) = 0
    BY <1>1, TotalZero DEF Init, FiniteLedger
  <2>2. Total(Funds, Users) \in Int
    BY <1>1, FundsAssumption, TotalType DEF FiniteLedger
  <2>3. QED BY <2>1, <2>2 DEF Init, LamportsConserved
<1>3. IInv /\ IInv' /\ LamportsConserved /\ [Next]_vars => LamportsConserved'
  <2>1. (IInv => TypeOK) /\ (IInv' => TypeOK')
    BY DEF IInv
  <2>2. QED BY <1>1, <2>1, NextConserves DEF LamportsConserved, Circulating
<1>4. QED BY <1>2, <1>3, Invariance, PTL DEF Spec

-----------------------------------------------------------------------------
(***************************************************************************)
(* Families.  A step either has a parent p adopt a sub-job s, or keeps     *)
(* every account in its place.  Lineage needs that nothing is left at an   *)
(* absent address (not even a parent), and the balance needs lineage: a    *)
(* job starts work without sub-jobs only because none point to it.         *)
(***************************************************************************)
AbsentIsBlank == \A j \in Jobs : ~ Exists(j) => job[j] = Absent

(* Account k keeps its place in its family: data a and lamports m become   *)
(* b and n.                                                                *)
Keeps(a, m, b, n) ==
  /\ b.parent_job = a.parent_job
  /\ b.sub_job_count = a.sub_job_count
  /\ b.status = "NONE" => b = a
  /\ a.status # "NONE" =>
       b.reward = a.reward /\ b.verification_level = a.verification_level
  /\ a.claimer_stake > 0 => b.claimer_stake = a.claimer_stake
  /\ b.status = "STAKED" =>
       \/ a.status = "STAKED" /\ n >= m /\ b.claimer_stake = a.claimer_stake
       \/ a.status = "CLAIMED" /\ b.sub_job_count = 0

AllKeep == \A k \in Jobs : Keeps(job[k], lamports[k], job'[k], lamports'[k])

Adopts(p, s, reward) ==
  /\ p # s
  /\ job[p].status = "STAKED" /\ job[s] = Absent /\ Poster[s] = Poster[p]
  /\ Available(p) >= reward
  /\ job'[p] = [job[p] EXCEPT !.sub_job_count = @ + 1]
  /\ job'[s].parent_job = p /\ job'[s].sub_job_count = 0
  /\ job'[s].verification_level = job[p].verification_level
  /\ job'[s].reward = reward /\ job'[s].status = "OPEN"
  /\ lamports'[p] = lamports[p] - reward
  /\ \A k \in Jobs \ {p, s} : job'[k] = job[k] /\ lamports'[k] = lamports[k]

LEMMA StillKeeps ==
  ASSUME TypeOK, UNCHANGED <<job, lamports>> PROVE AllKeep
<1> SUFFICES ASSUME NEW k \in Jobs
             PROVE  Keeps(job[k], lamports[k], job'[k], lamports'[k])
  BY DEF AllKeep
<1>1. QED BY DEF Keeps, TypeOK

LEMMA OneKeeps ==
  ASSUME TypeOK, NEW j \in Jobs, NEW a,
         job' = [job EXCEPT ![j] = a],
         \A k \in Jobs \ {j} : lamports'[k] >= lamports[k],
         Keeps(job[j], lamports[j], a, lamports'[j])
  PROVE  AllKeep
<1> SUFFICES ASSUME NEW k \in Jobs
             PROVE  Keeps(job[k], lamports[k], job'[k], lamports'[k])
  BY DEF AllKeep
<1>1. CASE k = j
  BY <1>1 DEF TypeOK
<1>2. CASE k # j
  <2>1. job'[k] = job[k] /\ lamports'[k] >= lamports[k]
    BY <1>2 DEF TypeOK
  <2>2. QED BY <2>1 DEF Keeps
<1>3. QED BY <1>1, <1>2

(* Handlers that move no lamports.                                         *)
LEMMA DataKeeps ==
  ASSUME TypeOK, NEW j \in Jobs, NEW a,
         job' = [job EXCEPT ![j] = a], UNCHANGED lamports,
         Keeps(job[j], lamports[j], a, lamports'[j])
  PROVE  AllKeep
<1>1. \A k \in Jobs \ {j} : lamports'[k] >= lamports[k]
  BY DEF TypeOK
<1>2. QED BY <1>1, OneKeeps

(* Settling and expiring touch the status, take from that job alone, and   *)
(* add at most to others.                                                  *)
LEMMA PaidKeeps ==
  ASSUME TypeOK, NEW j \in Jobs, NEW st \in {"DONE", "FAILED"},
         \A k \in Jobs \ {j} : lamports'[k] >= lamports[k],
         job' = [job EXCEPT ![j].status = st]
  PROVE  AllKeep
<1> DEFINE a == [job[j] EXCEPT !.status = st]
<1>1. job' = [job EXCEPT ![j] = a]
  BY DEF TypeOK
<1>2. Keeps(job[j], lamports[j], a, lamports'[j])
  BY DEF Keeps, TypeOK, JobAccount
<1> HIDE DEF a
<1>3. QED BY <1>1, <1>2, OneKeeps

LEMMA PayoutKeeps ==
  ASSUME TypeOK, NEW j \in Jobs, NEW to, NEW amount, NEW st \in {"DONE", "FAILED"},
         PayOut(j, to, amount), job' = [job EXCEPT ![j].status = st]
  PROVE  AllKeep
<1>1. \A k \in Jobs \ {j} : lamports'[k] >= lamports[k]
  BY DEF PayOut, TypeOK
<1>2. QED BY <1>1, PaidKeeps

LEMMA ExpireClaimKeeps ==
  ASSUME TypeOK, NEW j \in Jobs, NEW account, ExpireClaim(j, account)
  PROVE  AllKeep
<1>1. job' = [job EXCEPT ![j].status = "FAILED"]
  BY DEF ExpireClaim, MarkExpired
<1>2. CASE PayOut(j, account, job[j].reward)
  BY <1>1, <1>2, PayoutKeeps
<1>3. CASE /\ account \in Jobs
           /\ lamports' = [[lamports EXCEPT ![j] = @ - Refund(j)]
                              EXCEPT ![account] = @ + Refund(j)]
  <2> DEFINE refund == Refund(j)
  <2>1. refund \in Nat /\ lamports \in [Jobs -> Nat]
    BY RefundType DEF TypeOK
  <2>2. lamports' = [[lamports EXCEPT ![j] = @ - refund]
                        EXCEPT ![account] = @ + refund]
    BY <1>3
  <2> HIDE DEF refund
  <2>3. \A k \in Jobs \ {j} : lamports'[k] >= lamports[k]
    BY <1>3, <2>1, <2>2
  <2>4. QED BY <1>1, <2>3, PaidKeeps
<1>4. QED BY <1>2, <1>3 DEF ExpireClaim

LEMMA PayClaimerKeeps ==
  ASSUME TypeOK, NEW j \in Jobs, PayClaimer(j) PROVE AllKeep
BY PayoutKeeps DEF PayClaimer

LEMMA PosterStepKeeps ==
  ASSUME IInv, AbsentIsBlank, NEW j \in Jobs, PosterStep(j) PROVE AllKeep
<1>0. TypeOK
  BY DEF IInv
<1>1. ASSUME NEW reward, NEW deadline, NEW mode, NEW level,
             InitializeJob(j, reward, deadline, mode, level)
      PROVE  AllKeep
  <2> DEFINE a == NewJob(reward, deadline, mode, level)
  <2>1. /\ job' = [job EXCEPT ![j] = a]
        /\ \A k \in Jobs \ {j} : lamports'[k] >= lamports[k]
    BY <1>0, <1>1 DEF InitializeJob, TypeOK
  <2>2. job[j] = Absent
    BY <1>1 DEF InitializeJob, AbsentIsBlank
  <2>3. Keeps(job[j], lamports[j], a, lamports'[j])
    BY <2>2 DEF Keeps, NewJob, Absent
  <2> HIDE DEF a
  <2>4. QED BY <1>0, <2>1, <2>3, OneKeeps
<1>2. ASSUME NEW agent \in Users \cup {NoOne}, AutoAssignJob(j, agent) PROVE AllKeep
  <2> DEFINE a == [job[j] EXCEPT !.claimer = agent, !.status = "CLAIMED"]
  <2>1. /\ job' = [job EXCEPT ![j] = a]
        /\ UNCHANGED lamports
    BY <1>0, <1>2 DEF AutoAssignJob, TypeOK
  <2>2. Keeps(job[j], lamports[j], a, lamports'[j])
    BY <1>0 DEF Keeps, TypeOK, JobAccount
  <2> HIDE DEF a
  <2>3. QED BY <1>0, <2>1, <2>2, DataKeeps
<1>3. ASSUME NEW deadline, ExtendDeadline(j, deadline) PROVE AllKeep
  <2> DEFINE a == [job[j] EXCEPT !.deadline = deadline]
  <2>1. /\ job' = [job EXCEPT ![j] = a]
        /\ UNCHANGED lamports
    BY <1>0, <1>3 DEF ExtendDeadline, TypeOK
  <2>2. Keeps(job[j], lamports[j], a, lamports'[j])
    BY <1>0, <1>3 DEF ExtendDeadline, Keeps, TypeOK, JobAccount
  <2> HIDE DEF a
  <2>3. QED BY <1>0, <2>1, <2>2, DataKeeps
<1>4. CASE DelegateJob(j)
  BY <1>0, <1>4, StillKeeps DEF DelegateJob
<1>5. CASE ExpireUnclaimed(j)
  BY <1>0, <1>5, PayoutKeeps DEF ExpireUnclaimed
<1>6. ASSUME NEW verdict, SettleJob(j, verdict) PROVE AllKeep
  BY <1>0, <1>6, PayoutKeeps, PayClaimerKeeps DEF SettleJob
<1>7. QED BY <1>1, <1>2, <1>3, <1>4, <1>5, <1>6 DEF PosterStep

LEMMA CreateSubJobAdopts ==
  ASSUME IInv, AbsentIsBlank, NEW p \in Jobs, NEW s \in Jobs, NEW agent, NEW reward,
         NEW deadline, CreateSubJob(p, s, agent, reward, deadline)
  PROVE  Adopts(p, s, reward)
<1> DEFINE c == [NewJob(reward, deadline, 1, job[p].verification_level)
                   EXCEPT !.claimer = agent, !.parent_job = p]
<1>1. /\ p # s /\ job[p].status = "STAKED" /\ job[s] = Absent
      /\ Poster[s] = Poster[p] /\ Available(p) >= reward
  BY DEF CreateSubJob, EscrowCovers, Exists, AbsentIsBlank
<1>2. /\ job' = [job EXCEPT ![p].sub_job_count = @ + 1, ![s] = c]
      /\ lamports' = [lamports EXCEPT ![p] = @ - reward,
                        ![s] = @ + RentDue(JobRent, lamports[s]) + reward]
  BY DEF CreateSubJob, AddSubJob, FundSubJob
<1>3. /\ c.parent_job = p /\ c.sub_job_count = 0 /\ c.reward = reward
      /\ c.verification_level = job[p].verification_level /\ c.status = "OPEN"
  BY DEF NewJob, Absent
<1> HIDE DEF c
<1>4. /\ job'[p] = [job[p] EXCEPT !.sub_job_count = @ + 1] /\ job'[s] = c
      /\ lamports'[p] = lamports[p] - reward
      /\ \A k \in Jobs \ {p, s} : job'[k] = job[k] /\ lamports'[k] = lamports[k]
  BY <1>1, <1>2 DEF IInv, TypeOK
<1>5. QED BY <1>1, <1>3, <1>4 DEF Adopts

LEMMA ClaimerStepKeeps ==
  ASSUME IInv, AbsentIsBlank, NEW j \in Jobs, ClaimerStep(j)
  PROVE  AllKeep \/ \E s \in Jobs, reward \in Rewards : Adopts(j, s, reward)
<1>0. TypeOK
  BY DEF IInv
<1>1. CASE LockStake(j)
  <2> DEFINE a == [job[j] EXCEPT !.status = "STAKED"]
  <2>1. /\ job' = [job EXCEPT ![j] = a]
        /\ \A k \in Jobs \ {j} : lamports'[k] >= lamports[k]
    BY <1>0, <1>1 DEF LockStake, TypeOK
  <2>2. job[j].status = "CLAIMED" /\ job[j].sub_job_count = 0
    BY <1>1, SoundAt DEF LockStake, Sound, Provenance
  <2>3. Keeps(job[j], lamports[j], a, lamports'[j])
    BY <1>0, <2>2 DEF Keeps, TypeOK, JobAccount
  <2> HIDE DEF a
  <2>4. QED BY <1>0, <2>1, <2>3, OneKeeps
<1>2. ASSUME NEW s \in Jobs, NEW agent, NEW reward \in Rewards, NEW deadline,
             CreateSubJob(j, s, agent, reward, deadline)
      PROVE  \E t \in Jobs, amount \in Rewards : Adopts(j, t, amount)
  BY <1>2, CreateSubJobAdopts
<1>3. ASSUME NEW h, NEW w, Submit(j, h, w) PROVE AllKeep
  <2> DEFINE a == [job[j] EXCEPT !.proof_hash = h, !.submitted_at = now,
                                 !.dispute_window_end = w, !.status = "SUBMITTED"]
  <2>1. /\ job' = [job EXCEPT ![j] = a]
        /\ UNCHANGED lamports
    BY <1>0, <1>3 DEF Submit, TypeOK
  <2>2. Keeps(job[j], lamports[j], a, lamports'[j])
    BY <1>0 DEF Keeps, TypeOK, JobAccount
  <2> HIDE DEF a
  <2>3. QED BY <1>0, <2>1, <2>2, DataKeeps
<1>4. ASSUME NEW h,
             SubmitProof(j, h) \/ SubmitEncryptedProof(j, h) \/ SubmitVerifiedProof(j, h)
      PROVE  AllKeep
  BY <1>3, <1>4 DEF SubmitProof, SubmitEncryptedProof, SubmitVerifiedProof
<1>5. CASE AutoSettle(j) \/ ClaimTimeout(j)
  BY <1>0, <1>5, PayClaimerKeeps DEF AutoSettle, ClaimTimeout
<1>6. QED BY <1>1, <1>2, <1>4, <1>5 DEF ClaimerStep

LEMMA OtherStepKeeps ==
  ASSUME IInv, NEW j \in Jobs, OtherStep(j) PROVE AllKeep
<1>0. TypeOK
  BY DEF IInv
<1>1. ASSUME NEW bidder, NEW stake, PlaceBid(j, bidder, stake) PROVE AllKeep
  <2> DEFINE a == [job[j] EXCEPT
                  !.status         = "BIDDING",
                  !.bid_count      = @ + 1,
                  !.best_bid_stake = IF stake > job[j].best_bid_stake THEN stake ELSE @,
                  !.best_bidder    = IF stake > job[j].best_bid_stake THEN bidder ELSE @]
  <2>1. /\ job' = [job EXCEPT ![j] = a]
        /\ UNCHANGED lamports
    BY <1>0, <1>1 DEF PlaceBid, TypeOK
  <2>2. Keeps(job[j], lamports[j], a, lamports'[j])
    BY <1>0 DEF Keeps, TypeOK, JobAccount
  <2> HIDE DEF a
  <2>3. QED BY <1>0, <2>1, <2>2, DataKeeps
<1>2. ASSUME NEW r \in Reports, VerifyBidAttestation(j, r) PROVE AllKeep
  <2> DEFINE a == [job[j] EXCEPT !.tee_verified = TRUE]
  <2>1. /\ job' = [job EXCEPT ![j] = a]
        /\ UNCHANGED lamports
    BY <1>0, <1>2 DEF VerifyBidAttestation, TypeOK
  <2>2. Keeps(job[j], lamports[j], a, lamports'[j])
    BY <1>0, <1>2 DEF VerifyBidAttestation, Keeps, TypeOK, JobAccount
  <2> HIDE DEF a
  <2>3. QED BY <1>0, <2>1, <2>2, DataKeeps
<1>3. CASE CloseBidding(j)
  <2> DEFINE a == [job[j] EXCEPT !.claimer = job[j].best_bidder,
                                 !.claimer_stake = job[j].best_bid_stake,
                                 !.status = "CLAIMED"]
  <2>1. /\ job' = [job EXCEPT ![j] = a]
        /\ UNCHANGED lamports
    BY <1>0, <1>3 DEF CloseBidding, TypeOK
  <2>2. job[j].claimer_stake = 0
    BY <1>3, SoundAt DEF CloseBidding, Sound, Provenance
  <2>3. Keeps(job[j], lamports[j], a, lamports'[j])
    BY <1>0, <2>2 DEF Keeps, TypeOK, JobAccount
  <2> HIDE DEF a
  <2>4. QED BY <1>0, <2>1, <2>3, DataKeeps
<1>4. CASE Undelegate(j)
  BY <1>0, <1>4, StillKeeps DEF Undelegate
<1>5. ASSUME NEW account \in Users \cup Jobs, ExpireClaim(j, account) PROVE AllKeep
  BY <1>0, <1>5, ExpireClaimKeeps
<1>6. QED BY <1>1, <1>2, <1>3, <1>4, <1>5 DEF OtherStep

LEMMA KeepsOrAdopts ==
  ASSUME IInv, AbsentIsBlank, [Next]_vars
  PROVE  AllKeep \/ \E p \in Jobs, s \in Jobs, reward \in Rewards : Adopts(p, s, reward)
<1>1. CASE Tick \/ UNCHANGED vars
  BY <1>1, StillKeeps DEF Tick, vars, IInv
<1>2. ASSUME NEW j \in Jobs, PosterStep(j) \/ ClaimerStep(j) \/ OtherStep(j)
      PROVE  AllKeep \/ \E s \in Jobs, reward \in Rewards : Adopts(j, s, reward)
  BY <1>2, PosterStepKeeps, ClaimerStepKeeps, OtherStepKeeps
<1>3. QED BY <1>1, <1>2 DEF Next

(* The two kinds of step and the children they leave.                      *)
FamilyInv == IInv /\ AbsentIsBlank /\ SubJobLineage

LEMMA ChildrenExist ==
  ASSUME FamilyInv, NEW p \in Jobs, NEW s \in Children(p)
  PROVE  s \in Jobs /\ Exists(s) /\ Exists(p)
<1>1. s \in Jobs /\ job[s].parent_job = p /\ p # NoJob
  BY AddressAssumption DEF Children
<1>2. job[p].claimer_stake > 0
  BY DEF FamilyInv, SubJobLineage
<1>3. Absent.parent_job = NoJob /\ ~ (Absent.claimer_stake > 0)
  BY DEF Absent
<1>4. QED BY <1>1, <1>2, <1>3 DEF FamilyInv, AbsentIsBlank

LEMMA KeptChildren ==
  ASSUME AllKeep, NEW p \in Jobs PROVE Children(p)' = Children(p)
BY DEF AllKeep, Keeps, Children

LEMMA AdoptedChildren ==
  ASSUME FamilyInv, NEW p \in Jobs, NEW s \in Jobs, NEW reward, Adopts(p, s, reward),
         NEW q \in Jobs
  PROVE  /\ q = p => Children(q)' = Children(q) \cup {s}
         /\ q # p => Children(q)' = Children(q)
         /\ s \notin Children(q)
<1>1. job[s].parent_job = NoJob /\ NoJob \notin Jobs
  BY AddressAssumption DEF Adopts, Absent
<1>2. job[p] \in JobAccount
  BY DEF FamilyInv, IInv, TypeOK
<1>3. job'[p].parent_job = job[p].parent_job
  BY <1>2 DEF Adopts, JobAccount
<1>4. \A k \in Jobs \ {s} : job'[k].parent_job = job[k].parent_job
  BY <1>3 DEF Adopts
<1>5. job'[s].parent_job = p
  BY DEF Adopts
<1>6. QED BY <1>1, <1>4, <1>5 DEF Children

LEMMA KeepsLineage ==
  ASSUME FamilyInv, AllKeep PROVE AbsentIsBlank' /\ SubJobLineage'
<1>1. AbsentIsBlank'
  BY DEF AllKeep, Keeps, AbsentIsBlank, Exists, FamilyInv, Absent
<1>2. ASSUME NEW p \in Jobs
      PROVE  /\ job'[p].sub_job_count = Cardinality(Children(p)')
             /\ \A s \in Children(p)' :
                  /\ Poster[s] = Poster[p]
                  /\ job'[s].verification_level = job'[p].verification_level
                  /\ job'[p].claimer_stake > 0
  <2>1. Children(p)' = Children(p)
    BY KeptChildren
  <2>2. job'[p].sub_job_count = job[p].sub_job_count
    BY DEF AllKeep, Keeps
  <2>3. ASSUME NEW s \in Children(p)
        PROVE  /\ Poster[s] = Poster[p]
               /\ job'[s].verification_level = job'[p].verification_level
               /\ job'[p].claimer_stake > 0
    <3>1. s \in Jobs /\ Exists(s) /\ Exists(p)
      BY ChildrenExist
    <3>2. /\ Poster[s] = Poster[p] /\ job[p].claimer_stake > 0
          /\ job[s].verification_level = job[p].verification_level
      BY DEF FamilyInv, SubJobLineage
    <3>3. QED BY <3>1, <3>2 DEF AllKeep, Keeps, Exists
  <2>4. QED BY <2>1, <2>2, <2>3 DEF FamilyInv, SubJobLineage
<1>3. QED BY <1>1, <1>2 DEF SubJobLineage

LEMMA FiniteChildren ==
  ASSUME FiniteLedger, NEW p
  PROVE  IsFiniteSet(Children(p)) /\ Cardinality(Children(p)) \in Nat
<1>1. Children(p) \in SUBSET Jobs
  BY DEF Children
<1>2. IsFiniteSet(Children(p))
  BY <1>1, FS_Subset DEF FiniteLedger
<1>3. QED BY <1>2, FS_CardinalityType

LEMMA AdoptsLineage ==
  ASSUME FamilyInv, FiniteLedger, NEW p \in Jobs, NEW s \in Jobs, NEW reward,
         Adopts(p, s, reward)
  PROVE  AbsentIsBlank' /\ SubJobLineage'
<1>1. /\ job[p] \in JobAccount /\ job[p].claimer_stake > 0
      /\ job[p].status = "STAKED" /\ job[s] = Absent /\ Poster[s] = Poster[p]
  BY SoundAt DEF FamilyInv, Adopts, Sound, Provenance, Auctioned, BestBidSound
<1>2. /\ job'[p].sub_job_count = job[p].sub_job_count + 1
      /\ job'[p].claimer_stake = job[p].claimer_stake
      /\ job'[p].verification_level = job[p].verification_level
      /\ job'[p].status = "STAKED"
      /\ job'[s].status = "OPEN" /\ job'[s].sub_job_count = 0
      /\ job'[s].verification_level = job[p].verification_level
  BY <1>1 DEF Adopts, JobAccount
<1>3. \A k \in Jobs \ {p, s} : job'[k] = job[k]
  BY DEF Adopts
<1>4. AbsentIsBlank'
  BY <1>2, <1>3 DEF AbsentIsBlank, Exists, FamilyInv, Absent
<1>5. ASSUME NEW q \in Jobs
      PROVE  /\ job'[q].sub_job_count = Cardinality(Children(q)')
             /\ \A t \in Children(q)' :
                  /\ Poster[t] = Poster[q]
                  /\ job'[t].verification_level = job'[q].verification_level
                  /\ job'[q].claimer_stake > 0
  <2>1. /\ job[q].sub_job_count = Cardinality(Children(q))
        /\ \A t \in Children(q) :
             /\ Poster[t] = Poster[q]
             /\ job[t].verification_level = job[q].verification_level
             /\ job[q].claimer_stake > 0
    BY DEF FamilyInv, SubJobLineage
  <2>2. \A t \in Children(q) : t \in Jobs /\ t # s /\ Exists(q)
    BY AdoptedChildren, ChildrenExist
  <2>3. \A t \in Children(q) : job'[t].verification_level = job[t].verification_level
    BY <1>2, <1>3, <2>2
  <2>4. CASE q = p
    <3>1. Children(q)' = Children(q) \cup {s} /\ s \notin Children(q)
      BY <2>4, AdoptedChildren
    <3>2. Cardinality(Children(q)') = Cardinality(Children(q)) + 1
      BY <3>1, FiniteChildren, FS_AddElement
    <3>3. QED BY <1>1, <1>2, <2>1, <2>3, <2>4, <3>1, <3>2
  <2>5. CASE q # p
    <3>1. Children(q)' = Children(q)
      BY <2>5, AdoptedChildren
    <3>2. job'[q].sub_job_count = job[q].sub_job_count
      BY <1>1, <1>2, <1>3, <2>5 DEF Absent
    <3>3. ASSUME NEW t \in Children(q) PROVE job'[q] = job[q]
      <4>1. q # s
        BY <1>1, <2>2 DEF Exists, Absent
      <4>2. QED BY <1>3, <2>5, <4>1
    <3>4. QED BY <2>1, <2>3, <3>1, <3>2, <3>3
  <2>6. QED BY <2>4, <2>5
<1>6. QED BY <1>4, <1>5 DEF SubJobLineage

LEMMA FamilyInvariance == Spec => []FamilyInv
<1>1. FiniteLedger
  BY LedgerAssumption DEF FiniteLedger
<1>2. Init => AbsentIsBlank /\ SubJobLineage
  <2> SUFFICES ASSUME Init PROVE AbsentIsBlank /\ SubJobLineage
    OBVIOUS
  <2>1. \A j \in Jobs : job[j] = Absent
    BY DEF Init
  <2>2. \A p \in Jobs : Children(p) = {} /\ job[p].sub_job_count = 0
    BY <2>1, AddressAssumption DEF Children, Absent
  <2>3. QED BY <2>1, <2>2, FS_EmptySet DEF AbsentIsBlank, SubJobLineage
<1>3. FamilyInv /\ [Next]_vars => AbsentIsBlank' /\ SubJobLineage'
  BY <1>1, KeepsOrAdopts, KeepsLineage, AdoptsLineage DEF FamilyInv
<1>4. QED BY <1>2, <1>3, Invariance, PTL DEF Spec, FamilyInv

(* The counter of a parent counts its sub-jobs, which share its poster and *)
(* level, and only a job whose stake was locked has any (create_sub_job,   *)
(* against every handler that touches either account later).               *)
THEOREM LineageIsConsistent == Spec => []SubJobLineage
<1>1. FamilyInv => SubJobLineage
  BY DEF FamilyInv
<1>2. QED BY <1>1, FamilyInvariance, PTL

-----------------------------------------------------------------------------
(* The balance of one family.                                              *)
FamilyBalanced(p) ==
  job[p].status = "STAKED" =>
    Available(p) + Total(RewardOf, Children(p))
      >= job[p].reward + job[p].claimer_stake

LEMMA KeepsBalance ==
  ASSUME FamilyInv, FamilyBalance, FamilyInv', FiniteLedger, AllKeep, NEW p \in Jobs
  PROVE  FamilyBalanced(p)'
<1> SUFFICES ASSUME job'[p].status = "STAKED"
             PROVE  Available(p)' + Total(RewardOf', Children(p)')
                      >= job'[p].reward + job'[p].claimer_stake
  BY DEF FamilyBalanced
<1>1. Keeps(job[p], lamports[p], job'[p], lamports'[p])
  BY DEF AllKeep
<1>2. CASE /\ job[p].status = "STAKED" /\ lamports'[p] >= lamports[p]
           /\ job'[p].claimer_stake = job[p].claimer_stake
  <2>1. /\ job'[p].reward = job[p].reward
        /\ job[p].reward \in Int /\ job[p].claimer_stake \in Int
        /\ Available(p) \in Int /\ Available(p)' \in Int
        /\ Available(p)' >= Available(p)
    BY <1>1, <1>2, AmountAssumption
    DEF Keeps, Available, FamilyInv, IInv, TypeOK, JobAccount
  <2>2. Children(p)' = Children(p) /\ IsFiniteSet(Children(p))
    BY KeptChildren, FiniteChildren
  <2>3. \A s \in Children(p) : RewardOf[s] \in Int /\ RewardOf'[s] = RewardOf[s]
    <3>1. TypeOK
      BY DEF FamilyInv, IInv
    <3>2. QED BY <3>1, ChildrenExist
              DEF AllKeep, Keeps, Exists, RewardOf, TypeOK, JobAccount
  <2>4. Total(RewardOf', Children(p)) = Total(RewardOf, Children(p))
    BY <2>2, <2>3, TotalSame
  <2>5. Total(RewardOf, Children(p)) \in Int
    BY <2>2, <2>3, TotalType
  <2>6. QED BY <1>2, <2>1, <2>2, <2>4, <2>5 DEF FamilyBalance
<1>3. CASE job'[p].sub_job_count = 0
  <2>1. Children(p)' = {}
    <3>1. Cardinality(Children(p)) = 0
      BY <1>1, <1>3 DEF Keeps, FamilyInv, SubJobLineage
    <3>2. QED BY <3>1, KeptChildren, FiniteChildren, FS_EmptySet
  <2>2. Total(RewardOf', Children(p)') = 0
    BY <2>1, TotalEmpty
  <2>3. /\ lamports'[p] >= JobRent + job'[p].reward + job'[p].claimer_stake
        /\ job'[p].reward \in Nat /\ job'[p].claimer_stake \in Nat
        /\ lamports'[p] \in Nat
    BY <1>3 DEF FamilyInv, IInv, EscrowBalance, Balanced, TypeOK, JobAccount
  <2>4. QED BY <2>2, <2>3, AmountAssumption DEF Available
<1>4. QED BY <1>1, <1>2, <1>3 DEF Keeps

(* What leaves the parent is the reward of the child.                      *)
LEMMA AdoptsBalance ==
  ASSUME FamilyInv, FamilyBalance, FamilyInv', FiniteLedger,
         NEW p \in Jobs, NEW s \in Jobs, NEW reward \in Nat, Adopts(p, s, reward),
         NEW q \in Jobs
  PROVE  FamilyBalanced(q)'
<1>1. TypeOK /\ TypeOK'
  BY DEF FamilyInv, IInv
<1>2. /\ p # s /\ job'[s].status = "OPEN" /\ job'[s].reward = reward
      /\ job[p].status = "STAKED" /\ job[s] = Absent
      /\ lamports'[p] = lamports[p] - reward /\ Available(p) >= reward
      /\ \A k \in Jobs \ {p, s} : job'[k] = job[k] /\ lamports'[k] = lamports[k]
  BY DEF Adopts
<1>3. /\ job'[p].reward = job[p].reward
      /\ job'[p].claimer_stake = job[p].claimer_stake
  BY <1>1 DEF Adopts, TypeOK, JobAccount
<1>4. \A t \in Jobs : RewardOf[t] \in Int /\ RewardOf'[t] \in Int
  BY <1>1 DEF RewardOf, TypeOK, JobAccount
<1>5. \A t \in Jobs \ {s} : RewardOf'[t] = RewardOf[t]
  BY <1>2, <1>3 DEF RewardOf
<1>6. /\ IsFiniteSet(Children(q)) /\ s \notin Children(q)
      /\ \A t \in Children(q) : RewardOf[t] \in Int /\ RewardOf'[t] \in Int
      /\ \A t \in Children(q) : RewardOf'[t] = RewardOf[t]
  <2>1. IsFiniteSet(Children(q)) /\ s \notin Children(q)
    BY FiniteChildren, AdoptedChildren
  <2>2. Children(q) \subseteq Jobs
    BY DEF Children
  <2>3. QED BY <1>4, <1>5, <2>1, <2>2
<1>7. /\ Total(RewardOf', Children(q)) = Total(RewardOf, Children(q))
      /\ Total(RewardOf, Children(q)) \in Int
  <2>1. Total(RewardOf', Children(q)) = Total(RewardOf, Children(q))
    BY <1>6, TotalSame
  <2>2. QED BY <1>6, <2>1, TotalType
<1>8. CASE q = p
  <2>1. Children(q)' = Children(q) \cup {s}
    BY <1>8, AdoptedChildren
  <2>2. RewardOf'[s] = reward
    BY <1>2 DEF RewardOf
  <2>3. Total(RewardOf', Children(q) \cup {s}) = reward + Total(RewardOf', Children(q))
    <3>1. RewardOf'[s] \in Int
      BY <1>4
    <3>2. Total(RewardOf', Children(q) \cup {s}) = RewardOf'[s] + Total(RewardOf', Children(q))
      BY <1>6, <3>1, TotalAdd
    <3>3. QED BY <2>2, <3>2
  <2>4. Available(q)' = Available(q) - reward
    BY <1>1, <1>2, <1>8, AmountAssumption DEF Available, TypeOK
  <2>5. Available(q) + Total(RewardOf, Children(q))
          >= job[q].reward + job[q].claimer_stake
    BY <1>2, <1>8 DEF FamilyBalance
  <2>6. Available(q) \in Int /\ job[q].reward \in Int /\ job[q].claimer_stake \in Int
    BY <1>1, AvailableType DEF TypeOK, JobAccount
  <2>7. QED BY <1>3, <1>7, <1>8, <2>1, <2>3, <2>4, <2>5, <2>6 DEF FamilyBalanced
<1>9. CASE q = s
  BY <1>2, <1>9 DEF FamilyBalanced
<1>10. CASE q # p /\ q # s
  <2>1. Children(q)' = Children(q) /\ job'[q] = job[q] /\ Available(q)' = Available(q)
    BY <1>2, <1>10, AdoptedChildren DEF Available
  <2>2. QED BY <1>7, <2>1 DEF FamilyBalanced, FamilyBalance
<1>11. QED BY <1>8, <1>9, <1>10

(* Sub-jobs cost their parent what they were funded with and nothing else: *)
(* what is left there and the rewards handed down cover reward and stake   *)
(* together, wherever the refunds of expired jobs go (create_sub_job       *)
(* against lock_stake, place_bid and expire_claim).                        *)
THEOREM FamiliesBalance == Spec => []FamilyBalance
<1>1. FiniteLedger
  BY LedgerAssumption DEF FiniteLedger
<1>2. Init => FamilyBalance
  BY DEF Init, Absent, FamilyBalance
<1>3. FamilyInv /\ FamilyInv' /\ FamilyBalance /\ [Next]_vars => FamilyBalance'
  <2> SUFFICES ASSUME FamilyInv, FamilyInv', FamilyBalance, [Next]_vars,
                      NEW q \in Jobs
               PROVE  FamilyBalanced(q)'
    BY DEF FamilyBalance, FamilyBalanced
  <2>1. CASE AllKeep
    BY <1>1, <2>1, KeepsBalance
  <2>2. ASSUME NEW p \in Jobs, NEW s \in Jobs, NEW reward \in Rewards,
               Adopts(p, s, reward)
        PROVE  FamilyBalanced(q)'
    <3>1. reward \in Nat
      BY AmountAssumption
    <3>2. QED BY <1>1, <2>2, <3>1, AdoptsBalance
  <2>3. QED BY <2>1, <2>2, KeepsOrAdopts DEF FamilyInv
<1>4. QED BY <1>2, <1>3, FamilyInvariance, PTL DEF Spec

=============================================================================
