-------------------------- MODULE JobEscrow_proofs --------------------------
(***************************************************************************)
(* Proofs about JobEscrow, for all values of its constants.                *)
(***************************************************************************)
EXTENDS JobEscrow, TLAPS

(* The account data every handler starts from has its type.                *)
LEMMA NewJobType ==
  ASSUME NEW reward \in Nat, NEW deadline \in Nat, NEW mode \in {0, 1},
         NEW level \in Nat
  PROVE  NewJob(reward, deadline, mode, level) \in JobAccount
BY DEF NewJob, Absent, JobAccount, Status

(* Most handlers end by setting the status.                                *)
LEMMA SetStatusType ==
  ASSUME TypeOK, NEW j \in Jobs, NEW st \in Status
  PROVE  [job EXCEPT ![j].status = st] \in [Jobs -> JobAccount]
BY DEF TypeOK, JobAccount

LEMMA AvailableType == ASSUME TypeOK, NEW j \in Jobs PROVE Available(j) \in Nat
BY AmountAssumption DEF TypeOK, Available

(* The rent `init` asks of the payer is an amount.                         *)
LEMMA RentDueType ==
  ASSUME NEW rent \in Nat, NEW balance \in Nat
  PROVE  RentDue(rent, balance) \in Nat /\ balance + RentDue(rent, balance) >= rent
BY DEF RentDue

(* A payout leaves the ledger well typed.                                  *)
LEMMA PayOutType ==
  ASSUME TypeOK, NEW j \in Jobs, NEW to \in Users, NEW amount \in Nat,
         PayOut(j, to, amount)
  PROVE  lamports' \in [Jobs -> Nat] /\ wallet' \in [Users -> Nat]
BY AvailableType, AmountAssumption DEF TypeOK, PayOut, Available, Lesser

LEMMA PayClaimerType ==
  ASSUME TypeOK, NEW j \in Jobs, PayClaimer(j) PROVE TypeOK'
<1>1. /\ job[j].claimer \in Users
      /\ PayOut(j, job[j].claimer, job[j].reward + job[j].claimer_stake)
      /\ job[j].reward + job[j].claimer_stake \in Nat
  BY DEF PayClaimer, TypeOK, JobAccount
<1>2. lamports' \in [Jobs -> Nat] /\ wallet' \in [Users -> Nat]
  BY <1>1, PayOutType
<1>3. job' \in [Jobs -> JobAccount]
  BY SetStatusType DEF PayClaimer, Status
<1>4. QED BY <1>2, <1>3 DEF TypeOK, PayClaimer

LEMMA PosterStepType ==
  ASSUME TypeOK, NEW j \in Jobs, PosterStep(j) PROVE TypeOK'
<1>1. ASSUME NEW reward \in Rewards, NEW deadline \in Deadlines,
             NEW mode \in {0, 1}, NEW level \in Levels,
             InitializeJob(j, reward, deadline, mode, level)
      PROVE  TypeOK'
  <2>1. reward \in Nat /\ deadline \in Nat /\ level \in Nat /\ JobRent \in Nat
    BY AmountAssumption, TimeAssumption
  <2>2. NewJob(reward, deadline, mode, level) \in JobAccount
    BY <2>1, NewJobType
  <2>3. Poster[j] \in Users
    BY PosterAssumption
  <2> DEFINE cost == RentDue(JobRent, lamports[j]) + reward
  <2>4. cost \in Nat
    BY <2>1 DEF TypeOK, RentDue
  <2>5. /\ lamports' = [lamports EXCEPT ![j] = @ + cost]
        /\ wallet' = [wallet EXCEPT ![Poster[j]] = @ - cost]
        /\ wallet[Poster[j]] >= cost
    BY <1>1 DEF InitializeJob
  <2> HIDE DEF cost
  <2>6. lamports' \in [Jobs -> Nat] /\ wallet' \in [Users -> Nat]
    BY <2>3, <2>4, <2>5 DEF TypeOK
  <2>7. QED BY <1>1, <2>2, <2>6 DEF TypeOK, InitializeJob
<1>2. ASSUME NEW agent \in Users \cup {NoOne}, AutoAssignJob(j, agent) PROVE TypeOK'
  BY <1>2 DEF TypeOK, AutoAssignJob, JobAccount, Status
<1>3. ASSUME NEW deadline \in Deadlines, ExtendDeadline(j, deadline) PROVE TypeOK'
  BY <1>3, TimeAssumption DEF TypeOK, ExtendDeadline, JobAccount, Status
<1>4. CASE DelegateJob(j)
  BY <1>4 DEF TypeOK, DelegateJob
<1>5. CASE ExpireUnclaimed(j)
  <2>1. /\ PayOut(j, Poster[j], job[j].reward)
        /\ job[j].reward \in Nat
        /\ Poster[j] \in Users
    BY <1>5, PosterAssumption DEF ExpireUnclaimed, TypeOK, JobAccount
  <2>2. lamports' \in [Jobs -> Nat] /\ wallet' \in [Users -> Nat]
    BY <2>1, PayOutType
  <2>3. job' \in [Jobs -> JobAccount]
    BY <1>5, SetStatusType DEF ExpireUnclaimed, Status
  <2>4. QED BY <1>5, <2>2, <2>3 DEF TypeOK, ExpireUnclaimed
<1>6. ASSUME NEW verdict \in 0..2, SettleJob(j, verdict) PROVE TypeOK'
  <2>1. CASE PayClaimer(j)
    BY <2>1, PayClaimerType
  <2>2. CASE /\ PayOut(j, Poster[j], job[j].reward)
             /\ job' = [job EXCEPT ![j].status = "FAILED"]
             /\ UNCHANGED <<site, now>>
    <3>1. job[j].reward \in Nat /\ Poster[j] \in Users
      BY PosterAssumption DEF TypeOK, JobAccount
    <3>2. lamports' \in [Jobs -> Nat] /\ wallet' \in [Users -> Nat]
      BY <2>2, <3>1, PayOutType
    <3>3. job' \in [Jobs -> JobAccount]
      BY <2>2, SetStatusType DEF Status
    <3>4. QED BY <2>2, <3>2, <3>3 DEF TypeOK
  <2>3. QED BY <1>6, <2>1, <2>2 DEF SettleJob
<1>7. QED BY <1>1, <1>2, <1>3, <1>4, <1>5, <1>6 DEF PosterStep

LEMMA ClaimerStepType ==
  ASSUME TypeOK, NEW j \in Jobs, ClaimerStep(j) PROVE TypeOK'
<1>1. CASE LockStake(j)
  <2>1. job[j].claimer_stake \in Nat
    BY DEF TypeOK, JobAccount
  <2>2. lamports' \in [Jobs -> Nat] /\ wallet' \in [Users -> Nat]
    BY <1>1, <2>1 DEF LockStake, TypeOK
  <2>3. QED BY <1>1, <2>2 DEF TypeOK, LockStake, JobAccount, Status
<1>2. ASSUME NEW s \in Jobs, NEW agent \in Users \cup {NoOne}, NEW reward \in Rewards,
             NEW deadline \in Deadlines,
             CreateSubJob(j, s, agent, reward, deadline)
      PROVE  TypeOK'
  <2> DEFINE child == [NewJob(reward, deadline, 1, job[j].verification_level)
                         EXCEPT !.claimer = agent, !.parent_job = j]
  <2>1. job[j].verification_level \in Nat
    BY DEF TypeOK, JobAccount
  <2>2. child \in JobAccount
    BY <2>1, AmountAssumption, TimeAssumption DEF NewJob, Absent, JobAccount, Status
  <2>3. job' \in [Jobs -> JobAccount]
    <3>1. job' = [job EXCEPT ![j].sub_job_count = @ + 1, ![s] = child]
      BY <1>2 DEF CreateSubJob, AddSubJob
    <3> HIDE DEF child
    <3>2. [job EXCEPT ![j].sub_job_count = @ + 1] \in [Jobs -> JobAccount]
      BY DEF TypeOK, JobAccount
    <3>3. QED BY <3>1, <3>2, <2>2 DEF TypeOK
  <2> DEFINE rent == RentDue(JobRent, lamports[s])
  <2>4. rent \in Nat /\ reward \in Nat
    BY AmountAssumption, RentDueType DEF TypeOK
  <2>5. /\ job[j].claimer \in Users
        /\ wallet[job[j].claimer] >= rent
        /\ lamports' = [lamports EXCEPT ![j] = @ - reward, ![s] = @ + rent + reward]
        /\ wallet' = [wallet EXCEPT ![job[j].claimer] = @ - rent]
        /\ lamports[j] >= reward
    BY <1>2, AmountAssumption
    DEF CreateSubJob, FundSubJob, EscrowCovers, Available, TypeOK
  <2> HIDE DEF rent
  <2>6. lamports' \in [Jobs -> Nat] /\ wallet' \in [Users -> Nat]
    BY <2>4, <2>5 DEF TypeOK
  <2>7. QED BY <1>2, <2>3, <2>6 DEF TypeOK, CreateSubJob
<1>3. ASSUME NEW h \in {0, 1}, NEW w \in Nat, Submit(j, h, w) PROVE TypeOK'
  BY <1>3 DEF TypeOK, Submit, JobAccount, Status
<1>4. ASSUME NEW h \in {0, 1},
             SubmitProof(j, h) \/ SubmitEncryptedProof(j, h) \/ SubmitVerifiedProof(j, h)
      PROVE  TypeOK'
  <2>1. /\ job[j].dispute_window_end \in Nat
        /\ (IF job[j].verification_level >= 1 THEN now + DISPUTE_WINDOW_SECS ELSE 0) \in Nat
    BY TimeAssumption DEF TypeOK, JobAccount
  <2>2. QED
    BY <1>3, <1>4, <2>1 DEF SubmitProof, SubmitEncryptedProof, SubmitVerifiedProof
<1>5. CASE AutoSettle(j) \/ ClaimTimeout(j)
  BY <1>5, PayClaimerType DEF AutoSettle, ClaimTimeout
<1>6. QED BY <1>1, <1>2, <1>4, <1>5 DEF ClaimerStep

(* What expire_claim gives back is what the job has above its rent.        *)
LEMMA RefundType ==
  ASSUME TypeOK, NEW j \in Jobs
  PROVE  /\ Refund(j) \in Nat /\ Refund(j) <= lamports[j]
         /\ lamports[j] >= JobRent => lamports[j] - Refund(j) >= JobRent
BY AmountAssumption DEF TypeOK, JobAccount, Refund, Available, Lesser

(* A claim that expired, whoever received the refund.                      *)
LEMMA MarkExpiredType ==
  ASSUME TypeOK, NEW j \in Jobs, MarkExpired(j),
         lamports' \in [Jobs -> Nat], wallet' \in [Users -> Nat]
  PROVE  TypeOK'
<1>1. job' \in [Jobs -> JobAccount]
  BY SetStatusType DEF MarkExpired, Status
<1>2. QED BY <1>1 DEF TypeOK, MarkExpired

LEMMA ExpireClaimType ==
  ASSUME TypeOK, NEW j \in Jobs, NEW account, ExpireClaim(j, account) PROVE TypeOK'
<1>1. MarkExpired(j)
  BY DEF ExpireClaim
<1>2. CASE account \in Users /\ PayOut(j, account, job[j].reward)
  <2>1. lamports' \in [Jobs -> Nat] /\ wallet' \in [Users -> Nat]
    BY <1>2, PayOutType DEF TypeOK, JobAccount
  <2>2. QED BY <1>1, <2>1, MarkExpiredType
<1>3. CASE /\ account \in Jobs
           /\ lamports' = [[lamports EXCEPT ![j] = @ - Refund(j)]
                              EXCEPT ![account] = @ + Refund(j)]
           /\ UNCHANGED wallet
  <2>1. [lamports EXCEPT ![j] = @ - Refund(j)] \in [Jobs -> Nat]
    BY RefundType DEF TypeOK
  <2>2. lamports' \in [Jobs -> Nat]
    BY <1>3, <2>1, RefundType DEF TypeOK
  <2>3. QED BY <1>1, <1>3, <2>2, MarkExpiredType DEF TypeOK
<1>4. QED BY <1>2, <1>3 DEF ExpireClaim

LEMMA ExpireElsewhereType ==
  ASSUME TypeOK, NEW j \in Jobs, ExpireElsewhere(j) PROVE TypeOK'
<1>1. lamports' \in [Jobs -> Nat] /\ wallet' \in [Users -> Nat]
  BY RefundType DEF ExpireElsewhere, TypeOK
<1>2. QED BY <1>1, MarkExpiredType DEF ExpireElsewhere

LEMMA OtherStepType ==
  ASSUME TypeOK, NEW j \in Jobs, OtherStep(j) PROVE TypeOK'
<1>1. ASSUME NEW bidder \in Users, NEW stake \in Stakes, PlaceBid(j, bidder, stake)
      PROVE  TypeOK'
  BY <1>1, AmountAssumption DEF TypeOK, PlaceBid, JobAccount, Status
<1>2. ASSUME NEW r \in Reports, VerifyBidAttestation(j, r) PROVE TypeOK'
  <2>1. job' = [job EXCEPT ![j].tee_verified = TRUE]
    BY <1>2 DEF VerifyBidAttestation
  <2>2. [job[j] EXCEPT !.tee_verified = TRUE] \in JobAccount
    <3>1. job[j] \in JobAccount
      BY DEF TypeOK
    <3>2. QED BY <3>1, Zenon DEF JobAccount
  <2>3. job' = [job EXCEPT ![j] = [job[j] EXCEPT !.tee_verified = TRUE]]
    BY <2>1
  <2>4. job' \in [Jobs -> JobAccount]
    BY <2>2, <2>3 DEF TypeOK
  <2>5. QED BY <1>2, <2>4 DEF TypeOK, VerifyBidAttestation
<1>3. CASE CloseBidding(j)
  BY <1>3 DEF TypeOK, CloseBidding, JobAccount, Status
<1>4. CASE Undelegate(j)
  BY <1>4 DEF TypeOK, Undelegate
<1>5. ASSUME NEW account \in Users \cup Jobs, ExpireClaim(j, account) PROVE TypeOK'
  BY <1>5, ExpireClaimType
<1>6. QED BY <1>1, <1>2, <1>3, <1>4, <1>5 DEF OtherStep

(* A step of the job instructions where the program has more accounts than *)
(* jobs: expire_claim may name one of those.  The lemmas are stated for    *)
(* such a step, so that the modules that add accounts can use them; Next   *)
(* is the case without.                                                    *)
JobStep == Next \/ \E j \in Jobs : ExpireElsewhere(j)

LEMMA NextType == ASSUME TypeOK, JobStep PROVE TypeOK'
<1>1. CASE Tick
  BY <1>1 DEF Tick, TypeOK
<1>2. ASSUME NEW j \in Jobs, PosterStep(j) \/ ClaimerStep(j) \/ OtherStep(j)
      PROVE  TypeOK'
  BY <1>2, PosterStepType, ClaimerStepType, OtherStepType
<1>3. ASSUME NEW j \in Jobs, ExpireElsewhere(j) PROVE TypeOK'
  BY <1>3, ExpireElsewhereType
<1>4. QED BY <1>1, <1>2, <1>3 DEF Next, JobStep

(* Type correctness: job data, lamports and wallets stay in range, so no   *)
(* instruction of job.rs, bidding.rs, proof.rs or settlement.rs can        *)
(* underflow a balance.                                                    *)
THEOREM TypeCorrect == Spec => []TypeOK
<1>1. Init => TypeOK
  BY FundsAssumption DEF Init, TypeOK, JobAccount, Absent, Status
<1>2. TypeOK /\ [Next]_vars => TypeOK'
  <2> SUFFICES ASSUME TypeOK, [Next]_vars PROVE TypeOK'
    OBVIOUS
  <2>1. CASE UNCHANGED vars
    BY <2>1 DEF vars, TypeOK
  <2>2. QED BY <2>1, NextType DEF JobStep
<1>3. QED BY <1>1, <1>2, PTL DEF Spec

-----------------------------------------------------------------------------
(***************************************************************************)
(* The escrow balance.  It is not inductive by itself: that a STAKED job   *)
(* has a stake, and a BIDDING one no claimer stake yet, comes from where    *)
(* its claim came from.  Balance and provenance together are.              *)
(***************************************************************************)
Sound(a, m, where) == Balanced(a, m, where) /\ Provenance(a)

IInv == TypeOK /\ EscrowBalance /\ ClaimProvenance

LEMMA SoundAt ==
  ASSUME IInv, NEW j \in Jobs
  PROVE  /\ Sound(job[j], lamports[j], site[j])
         /\ job[j] \in JobAccount
         /\ lamports[j] \in Nat
         /\ JobRent \in Nat
BY AmountAssumption DEF IInv, TypeOK, EscrowBalance, ClaimProvenance, Sound

(* What somebody else's refund adds does no harm.                          *)
LEMMA MoreIsSound ==
  ASSUME NEW a \in JobAccount, NEW m \in Nat, NEW n \in Nat, n >= m, NEW where,
         Sound(a, m, where)
  PROVE  Sound(a, n, where)
BY AmountAssumption DEF Sound, Balanced, JobAccount

(* An expired claim leaves its rent behind and takes from no other job.    *)
LEMMA ExpiredSound ==
  ASSUME IInv, TypeOK', NEW j \in Jobs, MarkExpired(j),
         lamports'[j] >= JobRent,
         \A k \in Jobs \ {j} : lamports'[k] >= lamports[k]
  PROVE  IInv'
<1>1. ASSUME NEW k \in Jobs PROVE Sound(job'[k], lamports'[k], site'[k])
  <2>1. CASE k = j
    <3>1. job'[j].status = "FAILED" /\ site'[j] = site[j]
      BY DEF MarkExpired, IInv, TypeOK, JobAccount
    <3>2. QED BY <2>1, <3>1, SoundAt DEF Sound, Balanced, Provenance
  <2>2. CASE k # j
    <3>1. job'[k] = job[k] /\ site'[k] = site[k] /\ lamports'[k] \in Nat
      BY <2>2 DEF MarkExpired, IInv, TypeOK
    <3>2. QED BY <2>2, <3>1, SoundAt, MoreIsSound
  <2>3. QED BY <2>1, <2>2
<1>2. QED BY <1>1 DEF IInv, EscrowBalance, ClaimProvenance, Sound

(* An action that touches one job keeps the invariant if that job stays    *)
(* sound.                                                                  *)
LEMMA OneJob ==
  ASSUME IInv, TypeOK', NEW j \in Jobs, NEW a, NEW m, NEW w,
         job'      = [job EXCEPT ![j] = a],
         lamports' = [lamports EXCEPT ![j] = m],
         site'     = [site EXCEPT ![j] = w],
         Sound(a, m, w)
  PROVE  IInv'
<1>1. ASSUME NEW k \in Jobs
      PROVE  Sound(job'[k], lamports'[k], site'[k])
  <2>1. CASE k = j
    BY <2>1 DEF IInv, TypeOK
  <2>2. CASE k # j
    BY <2>2, SoundAt DEF IInv, TypeOK
  <2>3. QED BY <2>1, <2>2
<1>2. QED BY <1>1 DEF IInv, EscrowBalance, ClaimProvenance, Sound

(* Paying a job out by at most its reward, or to its claimer.              *)
LEMMA PayPosterSound ==
  ASSUME IInv, TypeOK', NEW j \in Jobs, NEW to \in Users,
         job[j].status \in {"OPEN", "BIDDING", "CLAIMED", "STAKED", "SUBMITTED"},
         PayOut(j, to, job[j].reward),
         job' = [job EXCEPT ![j].status = "FAILED"],
         UNCHANGED site
  PROVE  IInv'
<1> DEFINE a == [job[j] EXCEPT !.status = "FAILED"]
           m == lamports[j] - Lesser(job[j].reward, Available(j))
<1>1. Sound(a, m, site[j])
  BY SoundAt DEF Sound, Balanced, Provenance, JobAccount, Lesser, Available,
                 Assigned, Auctioned, BestBidSound
<1>2. /\ job' = [job EXCEPT ![j] = a]
      /\ lamports' = [lamports EXCEPT ![j] = m]
      /\ site' = [site EXCEPT ![j] = site[j]]
  BY DEF PayOut, IInv, TypeOK
<1> HIDE DEF a, m
<1>3. QED BY <1>1, <1>2, OneJob

LEMMA PayClaimerSound ==
  ASSUME IInv, TypeOK', NEW j \in Jobs, job[j].status = "SUBMITTED", PayClaimer(j)
  PROVE  IInv'
<1> DEFINE a == [job[j] EXCEPT !.status = "DONE"]
           m == lamports[j] - Lesser(job[j].reward + job[j].claimer_stake, Available(j))
<1>1. Sound(a, m, site[j])
  BY SoundAt DEF Sound, Balanced, Provenance, JobAccount, Lesser, Available,
                 Assigned, Auctioned, BestBidSound
<1>2. /\ job' = [job EXCEPT ![j] = a]
      /\ lamports' = [lamports EXCEPT ![j] = m]
      /\ site' = [site EXCEPT ![j] = site[j]]
  BY DEF PayClaimer, PayOut, IInv, TypeOK
<1> HIDE DEF a, m
<1>3. QED BY <1>1, <1>2, OneJob

LEMMA PosterStepSound ==
  ASSUME IInv, TypeOK', NEW j \in Jobs, PosterStep(j) PROVE IInv'
<1>1. ASSUME NEW reward \in Rewards, NEW deadline \in Deadlines,
             NEW mode \in {0, 1}, NEW level \in Levels,
             InitializeJob(j, reward, deadline, mode, level)
      PROVE  IInv'
  <2> DEFINE a == NewJob(reward, deadline, mode, level)
  <2> DEFINE m == lamports[j] + (RentDue(JobRent, lamports[j]) + reward)
  <2>1. Sound(a, m, site[j])
    BY <1>1, SoundAt, AmountAssumption DEF Sound, Balanced, Provenance, JobAccount,
       Assigned, Auctioned, BestBidSound, InitializeJob, Exists, NewJob, Absent, RentDue
  <2>2. /\ job' = [job EXCEPT ![j] = a]
        /\ lamports' = [lamports EXCEPT ![j] = m]
        /\ site' = [site EXCEPT ![j] = site[j]]
    BY <1>1 DEF InitializeJob, IInv, TypeOK
  <2> HIDE DEF a, m
  <2>3. QED BY <2>1, <2>2, OneJob
<1>2. ASSUME NEW agent \in Users \cup {NoOne}, AutoAssignJob(j, agent) PROVE IInv'
  <2> DEFINE a == [job[j] EXCEPT !.claimer = agent, !.status = "CLAIMED"]
  <2>1. Sound(a, lamports[j], site[j])
    BY <1>2, SoundAt DEF Sound, Balanced, Provenance, JobAccount,
       Assigned, Auctioned, BestBidSound, AutoAssignJob
  <2>2. /\ job' = [job EXCEPT ![j] = a]
        /\ lamports' = [lamports EXCEPT ![j] = lamports[j]]
        /\ site' = [site EXCEPT ![j] = site[j]]
    BY <1>2 DEF AutoAssignJob, IInv, TypeOK
  <2> HIDE DEF a
  <2>3. QED BY <2>1, <2>2, OneJob
<1>3. ASSUME NEW deadline \in Deadlines, ExtendDeadline(j, deadline) PROVE IInv'
  <2> DEFINE a == [job[j] EXCEPT !.deadline = deadline]
  <2>1. Sound(a, lamports[j], site[j])
    BY <1>3, SoundAt DEF Sound, Balanced, Provenance, JobAccount,
       Assigned, Auctioned, BestBidSound, ExtendDeadline
  <2>2. /\ job' = [job EXCEPT ![j] = a]
        /\ lamports' = [lamports EXCEPT ![j] = lamports[j]]
        /\ site' = [site EXCEPT ![j] = site[j]]
    BY <1>3 DEF ExtendDeadline, IInv, TypeOK
  <2> HIDE DEF a
  <2>3. QED BY <2>1, <2>2, OneJob
<1>4. CASE DelegateJob(j)
  <2> DEFINE a == job[j]
  <2>1. Sound(a, lamports[j], "ER")
    BY <1>4, SoundAt DEF Sound, Balanced, Provenance, JobAccount,
       Assigned, Auctioned, BestBidSound, DelegateJob
  <2>2. /\ job' = [job EXCEPT ![j] = a]
        /\ lamports' = [lamports EXCEPT ![j] = lamports[j]]
        /\ site' = [site EXCEPT ![j] = "ER"]
    BY <1>4 DEF DelegateJob, IInv, TypeOK
  <2> HIDE DEF a
  <2>3. QED BY <2>1, <2>2, OneJob
<1>5. CASE ExpireUnclaimed(j)
  BY <1>5, PayPosterSound, PosterAssumption DEF ExpireUnclaimed
<1>6. ASSUME NEW verdict \in 0..2, SettleJob(j, verdict) PROVE IInv'
  BY <1>6, PayPosterSound, PayClaimerSound, PosterAssumption DEF SettleJob
<1>7. QED BY <1>1, <1>2, <1>3, <1>4, <1>5, <1>6 DEF PosterStep

(* The one step that touches two jobs: a parent and its new child.         *)
LEMMA CreateSubJobSound ==
  ASSUME IInv, TypeOK', NEW p \in Jobs, NEW s \in Jobs, NEW agent \in Users \cup {NoOne},
         NEW reward \in Rewards, NEW deadline \in Deadlines,
         CreateSubJob(p, s, agent, reward, deadline)
  PROVE  IInv'
<1> DEFINE a == [job[p] EXCEPT !.sub_job_count = @ + 1]
           c == [NewJob(reward, deadline, 1, job[p].verification_level)
                   EXCEPT !.claimer = agent, !.parent_job = p]
           m == lamports[s] + RentDue(JobRent, lamports[s]) + reward
<1>1. p # s
  BY DEF CreateSubJob, EscrowCovers, Exists
<1>2. Sound(a, lamports[p] - reward, site[p])
  BY SoundAt, AmountAssumption
  DEF CreateSubJob, EscrowCovers, Available, Sound, Balanced, Provenance,
      JobAccount, Auctioned, BestBidSound
<1>3. Sound(c, m, site[s])
  BY SoundAt, AmountAssumption
  DEF CreateSubJob, Sound, Balanced, Provenance, NewJob, Absent, RentDue, Exists
<1>4. /\ job' = [[job EXCEPT ![p] = a] EXCEPT ![s] = c]
      /\ lamports' = [[lamports EXCEPT ![p] = @ - reward] EXCEPT ![s] = m]
      /\ site' = site
  BY <1>1 DEF CreateSubJob, AddSubJob, FundSubJob, IInv, TypeOK
<1>5. ASSUME NEW k \in Jobs PROVE Sound(job'[k], lamports'[k], site'[k])
  <2> HIDE DEF a, c, m
  <2>1. CASE k = s
    BY <2>1, <1>1, <1>3, <1>4 DEF IInv, TypeOK
  <2>2. CASE k = p
    BY <2>2, <1>1, <1>2, <1>4 DEF IInv, TypeOK
  <2>3. CASE k # s /\ k # p
    BY <2>3, <1>4, SoundAt DEF IInv, TypeOK
  <2>4. QED BY <2>1, <2>2, <2>3
<1>6. QED BY <1>5 DEF IInv, EscrowBalance, ClaimProvenance, Sound

LEMMA ClaimerStepSound ==
  ASSUME IInv, TypeOK', NEW j \in Jobs, ClaimerStep(j) PROVE IInv'
<1>1. CASE LockStake(j)
  <2> DEFINE a == [job[j] EXCEPT !.status = "STAKED"]
  <2>1. Sound(a, lamports[j] + job[j].claimer_stake, site[j])
    BY <1>1, SoundAt DEF Sound, Balanced, Provenance, JobAccount,
       Assigned, Auctioned, BestBidSound, LockStake
  <2>2. /\ job' = [job EXCEPT ![j] = a]
        /\ lamports' = [lamports EXCEPT ![j] = lamports[j] + job[j].claimer_stake]
        /\ site' = [site EXCEPT ![j] = site[j]]
    BY <1>1 DEF LockStake, IInv, TypeOK
  <2> HIDE DEF a
  <2>3. QED BY <2>1, <2>2, OneJob
<1>2. ASSUME NEW s \in Jobs, NEW agent \in Users \cup {NoOne}, NEW reward \in Rewards,
             NEW deadline \in Deadlines,
             CreateSubJob(j, s, agent, reward, deadline)
      PROVE  IInv'
  BY <1>2, CreateSubJobSound
<1>3. ASSUME NEW h, NEW w, Submit(j, h, w) PROVE IInv'
  <2> DEFINE a == [job[j] EXCEPT !.proof_hash = h, !.submitted_at = now,
                             !.dispute_window_end = w, !.status = "SUBMITTED"]
  <2>1. Sound(a, lamports[j], site[j])
    BY <1>3, SoundAt DEF Sound, Balanced, Provenance, JobAccount,
       Assigned, Auctioned, BestBidSound, Submit
  <2>2. /\ job' = [job EXCEPT ![j] = a]
        /\ lamports' = [lamports EXCEPT ![j] = lamports[j]]
        /\ site' = [site EXCEPT ![j] = site[j]]
    BY <1>3 DEF Submit, IInv, TypeOK
  <2> HIDE DEF a
  <2>3. QED BY <2>1, <2>2, OneJob
<1>4. ASSUME NEW h \in {0, 1},
             SubmitProof(j, h) \/ SubmitEncryptedProof(j, h) \/ SubmitVerifiedProof(j, h)
      PROVE  IInv'
  BY <1>3, <1>4 DEF SubmitProof, SubmitEncryptedProof, SubmitVerifiedProof
<1>5. CASE AutoSettle(j) \/ ClaimTimeout(j)
  BY <1>5, PayClaimerSound DEF AutoSettle, ClaimTimeout
<1>6. QED BY <1>1, <1>2, <1>4, <1>5 DEF ClaimerStep

LEMMA ExpireClaimSound ==
  ASSUME IInv, TypeOK', NEW j \in Jobs, NEW account, ExpireClaim(j, account)
  PROVE  IInv'
<1>1. MarkExpired(j) /\ job[j].status # "NONE"
  BY DEF ExpireClaim, MarkExpired, ClaimExpired
<1>2. lamports[j] >= JobRent /\ lamports \in [Jobs -> Nat] /\ JobRent \in Nat
  BY <1>1, SoundAt DEF Sound, Balanced, IInv, TypeOK
<1>3. /\ Refund(j) \in Nat
      /\ lamports[j] - Refund(j) >= JobRent
  BY <1>2, RefundType DEF IInv
<1>4. CASE account \in Users /\ PayOut(j, account, job[j].reward)
  <2>1. lamports' = [lamports EXCEPT ![j] = @ - Refund(j)]
    BY <1>4 DEF PayOut, Refund
  <2>2. QED BY <1>1, <1>2, <1>3, <2>1, ExpiredSound
<1>5. CASE /\ account \in Jobs
           /\ lamports' = [[lamports EXCEPT ![j] = @ - Refund(j)]
                              EXCEPT ![account] = @ + Refund(j)]
  <2>1. lamports'[j] >= JobRent
    BY <1>2, <1>3, <1>5
  <2>2. \A k \in Jobs \ {j} : lamports'[k] >= lamports[k]
    BY <1>2, <1>3, <1>5
  <2>3. QED BY <1>1, <2>1, <2>2, ExpiredSound
<1>6. QED BY <1>4, <1>5 DEF ExpireClaim

LEMMA ExpireElsewhereSound ==
  ASSUME IInv, TypeOK', NEW j \in Jobs, ExpireElsewhere(j) PROVE IInv'
<1>1. MarkExpired(j) /\ job[j].status # "NONE"
  BY DEF ExpireElsewhere, MarkExpired, ClaimExpired
<1>2. lamports[j] >= JobRent /\ lamports \in [Jobs -> Nat] /\ JobRent \in Nat
  BY <1>1, SoundAt DEF Sound, Balanced, IInv, TypeOK
<1>3. lamports' = [lamports EXCEPT ![j] = @ - Refund(j)]
  BY DEF ExpireElsewhere
<1>4. QED BY <1>1, <1>2, <1>3, RefundType, ExpiredSound DEF IInv

LEMMA OtherStepSound ==
  ASSUME IInv, TypeOK', NEW j \in Jobs, OtherStep(j) PROVE IInv'
<1>1. ASSUME NEW bidder \in Users, NEW stake \in Stakes, PlaceBid(j, bidder, stake)
      PROVE  IInv'
  <2> DEFINE a == [job[j] EXCEPT
                  !.status         = "BIDDING",
                  !.bid_count      = @ + 1,
                  !.best_bid_stake = IF stake > job[j].best_bid_stake THEN stake ELSE @,
                  !.best_bidder    = IF stake > job[j].best_bid_stake THEN bidder ELSE @]
  <2>1. Sound(a, lamports[j], site[j])
    BY <1>1, SoundAt, AmountAssumption DEF Sound, Balanced, Provenance, JobAccount,
       Assigned, Auctioned, BestBidSound, PlaceBid
  <2>2. /\ job' = [job EXCEPT ![j] = a]
        /\ lamports' = [lamports EXCEPT ![j] = lamports[j]]
        /\ site' = [site EXCEPT ![j] = site[j]]
    BY <1>1 DEF PlaceBid, IInv, TypeOK
  <2> HIDE DEF a
  <2>3. QED BY <2>1, <2>2, OneJob
<1>2. ASSUME NEW r \in Reports, VerifyBidAttestation(j, r) PROVE IInv'
  <2> DEFINE a == [job[j] EXCEPT !.tee_verified = TRUE]
  <2>1. Sound(a, lamports[j], site[j])
    BY <1>2, SoundAt DEF Sound, Balanced, Provenance, JobAccount,
       Assigned, Auctioned, BestBidSound, VerifyBidAttestation
  <2>2. /\ job' = [job EXCEPT ![j] = a]
        /\ lamports' = [lamports EXCEPT ![j] = lamports[j]]
        /\ site' = [site EXCEPT ![j] = site[j]]
    BY <1>2 DEF VerifyBidAttestation, IInv, TypeOK
  <2> HIDE DEF a
  <2>3. QED BY <2>1, <2>2, OneJob
<1>3. CASE CloseBidding(j)
  <2> DEFINE a == [job[j] EXCEPT !.claimer = job[j].best_bidder,
                             !.claimer_stake = job[j].best_bid_stake,
                             !.status = "CLAIMED"]
  <2>1. Sound(a, lamports[j], "Returning")
    BY <1>3, SoundAt DEF Sound, Balanced, Provenance, JobAccount,
       Assigned, Auctioned, BestBidSound, CloseBidding
  <2>2. /\ job' = [job EXCEPT ![j] = a]
        /\ lamports' = [lamports EXCEPT ![j] = lamports[j]]
        /\ site' = [site EXCEPT ![j] = "Returning"]
    BY <1>3 DEF CloseBidding, IInv, TypeOK
  <2> HIDE DEF a
  <2>3. QED BY <2>1, <2>2, OneJob
<1>4. CASE Undelegate(j)
  <2> DEFINE a == job[j]
  <2>1. Sound(a, lamports[j], "L1")
    BY <1>4, SoundAt DEF Sound, Balanced, Provenance, JobAccount,
       Assigned, Auctioned, BestBidSound, Undelegate
  <2>2. /\ job' = [job EXCEPT ![j] = a]
        /\ lamports' = [lamports EXCEPT ![j] = lamports[j]]
        /\ site' = [site EXCEPT ![j] = "L1"]
    BY <1>4 DEF Undelegate, IInv, TypeOK
  <2> HIDE DEF a
  <2>3. QED BY <2>1, <2>2, OneJob
<1>5. ASSUME NEW account \in Users \cup Jobs, ExpireClaim(j, account) PROVE IInv'
  BY <1>5, ExpireClaimSound
<1>6. QED BY <1>1, <1>2, <1>3, <1>4, <1>5 DEF OtherStep

LEMMA StepSound == ASSUME IInv, JobStep \/ UNCHANGED vars, TypeOK' PROVE IInv'
<1>1. CASE Tick
  BY <1>1 DEF Tick, IInv, TypeOK, EscrowBalance, ClaimProvenance
<1>2. ASSUME NEW j \in Jobs, PosterStep(j) \/ ClaimerStep(j) \/ OtherStep(j)
      PROVE  IInv'
  BY <1>2, PosterStepSound, ClaimerStepSound, OtherStepSound
<1>3. CASE UNCHANGED vars
  BY <1>3 DEF vars, IInv, TypeOK, EscrowBalance, ClaimProvenance
<1>4. ASSUME NEW j \in Jobs, ExpireElsewhere(j) PROVE IInv'
  BY <1>4, ExpireElsewhereSound
<1>5. QED BY <1>1, <1>2, <1>3, <1>4 DEF Next, JobStep

(* IInv is an inductive invariant of the specification.                    *)
THEOREM Invariance == Spec => []IInv
<1>1. Init => IInv
  BY FundsAssumption
  DEF Init, IInv, TypeOK, EscrowBalance, ClaimProvenance, Balanced, Provenance,
      Absent, JobAccount, Status
<1>2. IInv /\ TypeOK' /\ [Next]_vars => IInv'
  BY StepSound DEF JobStep
<1>3. QED BY <1>1, <1>2, TypeCorrect, PTL DEF Spec

(* The escrow of every job is backed, status by status, whatever account   *)
(* expire_claim is told to refund: initialize_job through settlement never *)
(* pay out of the rent, an unstarted job always holds its full reward, and *)
(* locked work without sub-jobs the stake as well.                         *)
THEOREM EscrowIsBalanced == Spec => []EscrowBalance
<1>1. IInv => EscrowBalance
  BY DEF IInv
<1>2. QED BY <1>1, Invariance, PTL

(* Every claim is the poster's assignment without stake, to any key there  *)
(* is, or the best bid of an attested auction; staked work is always the   *)
(* latter, and work handed in has a claimer who can be paid                *)
(* (auto_assign_job, place_bid, close_bidding, submit_proof).              *)
THEOREM ClaimsHaveProvenance == Spec => []ClaimProvenance
<1>1. IInv => ClaimProvenance
  BY DEF IInv
<1>2. QED BY <1>1, Invariance, PTL

-----------------------------------------------------------------------------
(***************************************************************************)
(* What one instruction makes of the data a of account k: b.  A claim is   *)
(* for good and so are its terms, an account keeps its parent, a root job  *)
(* has no claimer before it is claimed, and tee_verified has a report.     *)
(***************************************************************************)
Unclaimed == {"NONE", "OPEN", "BIDDING"}

Vacant(a) == a.status \in Unclaimed /\ a.parent_job = NoJob => a.claimer = NoOne

Warranted(k) == \E r \in Reports : /\ r.job = k /\ r.signed
                                  /\ r.validator \in Validators
                                  /\ r.issued_at <= now

Evolves(k, a, b) ==
  /\ a.status \notin Unclaimed => b.status \notin Unclaimed /\ Terms(b) = Terms(a)
  /\ a.status # "NONE" => b.status # "NONE" /\ b.parent_job = a.parent_job
  /\ Vacant(a) => Vacant(b)
  /\ b.tee_verified => a.tee_verified \/ Warranted(k)

AllEvolve == \A k \in Jobs : Evolves(k, job[k], job'[k])

LEMMA OneEvolves ==
  ASSUME TypeOK, NEW j \in Jobs, NEW a, job' = [job EXCEPT ![j] = a],
         Evolves(j, job[j], a)
  PROVE  AllEvolve
<1> SUFFICES ASSUME NEW k \in Jobs PROVE Evolves(k, job[k], job'[k])
  BY DEF AllEvolve
<1>1. CASE k = j
  BY <1>1 DEF TypeOK
<1>2. CASE k # j
  BY <1>2 DEF TypeOK, Evolves
<1>3. QED BY <1>1, <1>2

(* Locking a stake, settling and expiring touch the status alone.          *)
LEMMA StatusEvolves ==
  ASSUME TypeOK, NEW j \in Jobs, NEW st \in {"STAKED", "DONE", "FAILED"},
         job' = [job EXCEPT ![j].status = st]
  PROVE  AllEvolve
<1> DEFINE a == [job[j] EXCEPT !.status = st]
<1>1. Evolves(j, job[j], a)
  BY DEF Evolves, Vacant, Unclaimed, Terms, TypeOK, JobAccount
<1>2. job' = [job EXCEPT ![j] = a]
  BY DEF TypeOK
<1> HIDE DEF a
<1>3. QED BY <1>1, <1>2, OneEvolves

LEMMA PosterStepEvolves ==
  ASSUME TypeOK, NEW j \in Jobs, PosterStep(j) PROVE AllEvolve
<1>1. ASSUME NEW reward \in Rewards, NEW deadline \in Deadlines,
             NEW mode \in {0, 1}, NEW level \in Levels,
             InitializeJob(j, reward, deadline, mode, level)
      PROVE  AllEvolve
  <2> DEFINE a == NewJob(reward, deadline, mode, level)
  <2>1. Evolves(j, job[j], a)
    BY <1>1 DEF InitializeJob, Exists, NewJob, Absent, Evolves, Vacant, Unclaimed
  <2>2. job' = [job EXCEPT ![j] = a]
    BY <1>1 DEF InitializeJob
  <2> HIDE DEF a
  <2>3. QED BY <2>1, <2>2, OneEvolves
<1>2. ASSUME NEW agent \in Users \cup {NoOne}, AutoAssignJob(j, agent) PROVE AllEvolve
  <2> DEFINE a == [job[j] EXCEPT !.claimer = agent, !.status = "CLAIMED"]
  <2>1. Evolves(j, job[j], a)
    BY <1>2 DEF AutoAssignJob, Evolves, Vacant, Unclaimed, TypeOK, JobAccount
  <2>2. job' = [job EXCEPT ![j] = a]
    BY <1>2 DEF AutoAssignJob, TypeOK
  <2> HIDE DEF a
  <2>3. QED BY <2>1, <2>2, OneEvolves
<1>3. ASSUME NEW deadline \in Deadlines, ExtendDeadline(j, deadline) PROVE AllEvolve
  <2> DEFINE a == [job[j] EXCEPT !.deadline = deadline]
  <2>1. Evolves(j, job[j], a)
    BY <1>3 DEF ExtendDeadline, Evolves, Vacant, Unclaimed, TypeOK, JobAccount
  <2>2. job' = [job EXCEPT ![j] = a]
    BY <1>3 DEF ExtendDeadline, TypeOK
  <2> HIDE DEF a
  <2>3. QED BY <2>1, <2>2, OneEvolves
<1>4. CASE DelegateJob(j)
  BY <1>4 DEF DelegateJob, AllEvolve, Evolves
<1>5. CASE ExpireUnclaimed(j)
  BY <1>5, StatusEvolves DEF ExpireUnclaimed
<1>6. ASSUME NEW verdict \in 0..2, SettleJob(j, verdict) PROVE AllEvolve
  BY <1>6, StatusEvolves DEF SettleJob, PayClaimer
<1>7. QED BY <1>1, <1>2, <1>3, <1>4, <1>5, <1>6 DEF PosterStep

(* A sub-job has its parent and its agent from the start.                  *)
LEMMA CreateSubJobEvolves ==
  ASSUME TypeOK, NEW p \in Jobs, NEW s \in Jobs, NEW agent \in Users \cup {NoOne},
         NEW reward \in Rewards, NEW deadline \in Deadlines,
         CreateSubJob(p, s, agent, reward, deadline)
  PROVE  AllEvolve
<1> DEFINE a == [job[p] EXCEPT !.sub_job_count = @ + 1]
           c == [NewJob(reward, deadline, 1, job[p].verification_level)
                   EXCEPT !.claimer = agent, !.parent_job = p]
<1>1. p # s
  BY DEF CreateSubJob, EscrowCovers, Exists
<1>2. Evolves(p, job[p], a)
  BY DEF Evolves, Vacant, Unclaimed, Terms, TypeOK, JobAccount
<1>3. Evolves(s, job[s], c)
  BY AddressAssumption
  DEF CreateSubJob, Exists, NewJob, Absent, Evolves, Vacant, Unclaimed
<1>4. job' = [[job EXCEPT ![p] = a] EXCEPT ![s] = c]
  BY DEF CreateSubJob, AddSubJob
<1>5. ASSUME NEW k \in Jobs PROVE Evolves(k, job[k], job'[k])
  <2> HIDE DEF a, c
  <2>1. CASE k = s
    BY <2>1, <1>1, <1>3, <1>4 DEF TypeOK
  <2>2. CASE k = p
    BY <2>2, <1>1, <1>2, <1>4 DEF TypeOK
  <2>3. CASE k # s /\ k # p
    BY <2>3, <1>4 DEF TypeOK, Evolves
  <2>4. QED BY <2>1, <2>2, <2>3
<1>6. QED BY <1>5 DEF AllEvolve

LEMMA ClaimerStepEvolves ==
  ASSUME TypeOK, NEW j \in Jobs, ClaimerStep(j) PROVE AllEvolve
<1>1. CASE LockStake(j)
  BY <1>1, StatusEvolves DEF LockStake
<1>2. ASSUME NEW s \in Jobs, NEW agent \in Users \cup {NoOne}, NEW reward \in Rewards,
             NEW deadline \in Deadlines,
             CreateSubJob(j, s, agent, reward, deadline)
      PROVE  AllEvolve
  BY <1>2, CreateSubJobEvolves
<1>3. ASSUME NEW h, NEW w, Submit(j, h, w) PROVE AllEvolve
  <2> DEFINE a == [job[j] EXCEPT !.proof_hash = h, !.submitted_at = now,
                                 !.dispute_window_end = w, !.status = "SUBMITTED"]
  <2>1. Evolves(j, job[j], a)
    BY <1>3 DEF Submit, Evolves, Vacant, Unclaimed, Terms, TypeOK, JobAccount
  <2>2. job' = [job EXCEPT ![j] = a]
    BY <1>3 DEF Submit, TypeOK
  <2> HIDE DEF a
  <2>3. QED BY <2>1, <2>2, OneEvolves
<1>4. ASSUME NEW h \in {0, 1},
             SubmitProof(j, h) \/ SubmitEncryptedProof(j, h) \/ SubmitVerifiedProof(j, h)
      PROVE  AllEvolve
  BY <1>3, <1>4 DEF SubmitProof, SubmitEncryptedProof, SubmitVerifiedProof
<1>5. CASE AutoSettle(j) \/ ClaimTimeout(j)
  BY <1>5, StatusEvolves DEF AutoSettle, ClaimTimeout, PayClaimer
<1>6. QED BY <1>1, <1>2, <1>4, <1>5 DEF ClaimerStep

LEMMA OtherStepEvolves ==
  ASSUME TypeOK, NEW j \in Jobs, OtherStep(j) PROVE AllEvolve
<1>1. ASSUME NEW bidder \in Users, NEW stake \in Stakes, PlaceBid(j, bidder, stake)
      PROVE  AllEvolve
  <2> DEFINE a == [job[j] EXCEPT
                  !.status         = "BIDDING",
                  !.bid_count      = @ + 1,
                  !.best_bid_stake = IF stake > job[j].best_bid_stake THEN stake ELSE @,
                  !.best_bidder    = IF stake > job[j].best_bid_stake THEN bidder ELSE @]
  <2>1. Evolves(j, job[j], a)
    BY <1>1 DEF PlaceBid, Evolves, Vacant, Unclaimed, TypeOK, JobAccount
  <2>2. job' = [job EXCEPT ![j] = a]
    BY <1>1 DEF PlaceBid, TypeOK
  <2> HIDE DEF a
  <2>3. QED BY <2>1, <2>2, OneEvolves
<1>2. ASSUME NEW r \in Reports, VerifyBidAttestation(j, r) PROVE AllEvolve
  <2> DEFINE a == [job[j] EXCEPT !.tee_verified = TRUE]
  <2>1. Warranted(j)
    BY <1>2 DEF VerifyBidAttestation, ReportAccepted, Warranted
  <2>2. Evolves(j, job[j], a)
    BY <1>2, <2>1
    DEF VerifyBidAttestation, Evolves, Vacant, Unclaimed, Terms, TypeOK, JobAccount
  <2>3. job' = [job EXCEPT ![j] = a]
    BY <1>2 DEF VerifyBidAttestation, TypeOK
  <2> HIDE DEF a
  <2>4. QED BY <2>2, <2>3, OneEvolves
<1>3. CASE CloseBidding(j)
  <2> DEFINE a == [job[j] EXCEPT !.claimer = job[j].best_bidder,
                                 !.claimer_stake = job[j].best_bid_stake,
                                 !.status = "CLAIMED"]
  <2>1. Evolves(j, job[j], a)
    BY <1>3 DEF CloseBidding, Evolves, Vacant, Unclaimed, TypeOK, JobAccount
  <2>2. job' = [job EXCEPT ![j] = a]
    BY <1>3 DEF CloseBidding, TypeOK
  <2> HIDE DEF a
  <2>3. QED BY <2>1, <2>2, OneEvolves
<1>4. CASE Undelegate(j)
  BY <1>4 DEF Undelegate, AllEvolve, Evolves
<1>5. ASSUME NEW account \in Users \cup Jobs, ExpireClaim(j, account) PROVE AllEvolve
  BY <1>5, StatusEvolves DEF ExpireClaim, MarkExpired
<1>6. QED BY <1>1, <1>2, <1>3, <1>4, <1>5 DEF OtherStep

LEMMA NextEvolves == ASSUME TypeOK, JobStep PROVE AllEvolve
<1>1. CASE Tick
  BY <1>1 DEF Tick, AllEvolve, Evolves
<1>2. ASSUME NEW j \in Jobs, PosterStep(j) \/ ClaimerStep(j) \/ OtherStep(j)
      PROVE  AllEvolve
  BY <1>2, PosterStepEvolves, ClaimerStepEvolves, OtherStepEvolves
<1>3. ASSUME NEW j \in Jobs, ExpireElsewhere(j) PROVE AllEvolve
  BY <1>3, StatusEvolves DEF ExpireElsewhere, MarkExpired
<1>4. QED BY <1>1, <1>2, <1>3 DEF Next, JobStep

LEMMA ClockForward == ASSUME TypeOK, JobStep PROVE now <= now'
<1>1. CASE Tick
  BY <1>1 DEF Tick, TypeOK
<1>2. ASSUME NEW j \in Jobs, PosterStep(j) \/ ClaimerStep(j) \/ OtherStep(j)
      PROVE  now' = now
  BY <1>2 DEF PosterStep, ClaimerStep, OtherStep, InitializeJob, AutoAssignJob,
     ExtendDeadline, DelegateJob, ExpireUnclaimed, SettleJob, PayClaimer,
     LockStake, CreateSubJob, SubmitProof, SubmitEncryptedProof,
     SubmitVerifiedProof, Submit, AutoSettle, ClaimTimeout, PlaceBid,
     VerifyBidAttestation, CloseBidding, Undelegate, ExpireClaim, MarkExpired
<1>3. ASSUME NEW j \in Jobs, ExpireElsewhere(j) PROVE now' = now
  BY <1>3 DEF ExpireElsewhere, MarkExpired
<1>4. QED BY <1>1, <1>2, <1>3 DEF Next, JobStep, TypeOK

(* Terms agreed at the claim stay: no later instruction of the job program *)
(* rewrites claimer, stake, reward, deadline or level (job.rs, bidding.rs).*)
THEOREM ClaimTermsAreFixed == Spec => ClaimTermsFixed
<1> DEFINE Kept == \A j \in Jobs :
                     job[j].status \notin {"NONE", "OPEN", "BIDDING"} =>
                       Terms(job'[j]) = Terms(job[j])
<1>1. TypeOK /\ [Next]_vars => Kept \/ UNCHANGED vars
  BY NextEvolves DEF AllEvolve, Evolves, Unclaimed, JobStep
<1>2. QED BY <1>1, TypeCorrect, PTL DEF Spec, ClaimTermsFixed

(* A tee_verified job was attested by a signed report of an allowed        *)
(* validator on that job (verify_bid_attestation against close_bidding).   *)
THEOREM AttestationsAreSigned == Spec => []AttestedByValidator
<1>1. Init => AttestedByValidator
  BY DEF Init, Absent, AttestedByValidator
<1>2. TypeOK /\ TypeOK' /\ AttestedByValidator /\ [Next]_vars => AttestedByValidator'
  <2> SUFFICES ASSUME TypeOK, TypeOK', AttestedByValidator, [Next]_vars,
                      NEW j \in Jobs, job'[j].tee_verified
               PROVE  Warranted(j)'
    BY DEF AttestedByValidator, Warranted
  <2>1. Warranted(j)
    BY NextEvolves DEF AllEvolve, Evolves, AttestedByValidator, Warranted, vars, JobStep
  <2>2. now \in Nat /\ now' \in Nat /\ now <= now'
    BY ClockForward DEF TypeOK, vars, JobStep
  <2>3. QED BY <2>1, <2>2, ReportAssumption DEF Warranted
<1>3. QED BY <1>1, <1>2, TypeCorrect, PTL DEF Spec

-----------------------------------------------------------------------------
(***************************************************************************)
(* The course of a job: which status may follow which, and what the clock  *)
(* has to say about it.  A claim never falls back to the market, its       *)
(* deadline decides between submission and expiry, and submitted work ends *)
(* by a verdict on a proof or by a timeout.                                *)
(***************************************************************************)
InTime(a)    == now <= a.deadline
Overdue(a)   == now > a.deadline
Collectable(a) ==
  \/ now > a.submitted_at + REVIEW_PERIOD_SECS
  \/ a.dispute_window_end > 0 /\ now > a.dispute_window_end

Course(a, b) ==
  /\ a.status = "NONE" => b.status \in {"NONE", "OPEN"}
  /\ a.status \in {"OPEN", "BIDDING"} =>
       b.status \in {"OPEN", "BIDDING", "CLAIMED"} \/ (b.status = "FAILED" /\ Overdue(a))
  /\ a.status \in {"CLAIMED", "STAKED"} =>
       \/ b.status \in {a.status, "STAKED"}
       \/ b.status = "SUBMITTED" /\ InTime(a)
       \/ b.status = "FAILED" /\ Overdue(a)
  /\ a.status = "SUBMITTED" =>
       \/ b.status = "SUBMITTED"
       \/ b.status = "DONE" /\ (a.proof_hash # 0 \/ Collectable(a))
       \/ b.status = "FAILED" /\ a.proof_hash # 0
  /\ a.status \in {"DONE", "FAILED"} => b.status = a.status

AllCourse == \A k \in Jobs : Course(job[k], job'[k])

LEMMA OneCourse ==
  ASSUME TypeOK, NEW j \in Jobs, NEW a, job' = [job EXCEPT ![j] = a],
         Course(job[j], a)
  PROVE  AllCourse
<1> SUFFICES ASSUME NEW k \in Jobs PROVE Course(job[k], job'[k])
  BY DEF AllCourse
<1>1. CASE k = j
  BY <1>1 DEF TypeOK
<1>2. CASE k # j
  BY <1>2 DEF TypeOK, JobAccount, Status, Course
<1>3. QED BY <1>1, <1>2

(* Handlers that set the status of an account and nothing else.            *)
LEMMA StatusCourse ==
  ASSUME TypeOK, NEW j \in Jobs, NEW st \in Status,
         job' = [job EXCEPT ![j].status = st],
         \A b \in JobAccount : b.status = st => Course(job[j], b)
  PROVE  AllCourse
<1> DEFINE a == [job[j] EXCEPT !.status = st]
<1>1. a \in JobAccount /\ a.status = st
  BY DEF TypeOK, JobAccount
<1>2. job' = [job EXCEPT ![j] = a]
  BY DEF TypeOK
<1> HIDE DEF a
<1>3. QED BY <1>1, <1>2, OneCourse

LEMMA PosterStepCourse ==
  ASSUME TypeOK, NEW j \in Jobs, PosterStep(j) PROVE AllCourse
<1>1. ASSUME NEW reward \in Rewards, NEW deadline \in Deadlines,
             NEW mode \in {0, 1}, NEW level \in Levels,
             InitializeJob(j, reward, deadline, mode, level)
      PROVE  AllCourse
  <2> DEFINE a == NewJob(reward, deadline, mode, level)
  <2>1. Course(job[j], a)
    BY <1>1 DEF InitializeJob, Exists, NewJob, Absent, Course
  <2>2. job' = [job EXCEPT ![j] = a]
    BY <1>1 DEF InitializeJob
  <2> HIDE DEF a
  <2>3. QED BY <2>1, <2>2, OneCourse
<1>2. ASSUME NEW agent \in Users \cup {NoOne}, AutoAssignJob(j, agent) PROVE AllCourse
  <2> DEFINE a == [job[j] EXCEPT !.claimer = agent, !.status = "CLAIMED"]
  <2>1. Course(job[j], a)
    BY <1>2 DEF AutoAssignJob, Course, TypeOK, JobAccount
  <2>2. job' = [job EXCEPT ![j] = a]
    BY <1>2 DEF AutoAssignJob, TypeOK
  <2> HIDE DEF a
  <2>3. QED BY <2>1, <2>2, OneCourse
<1>3. ASSUME NEW deadline \in Deadlines, ExtendDeadline(j, deadline) PROVE AllCourse
  <2> DEFINE a == [job[j] EXCEPT !.deadline = deadline]
  <2>1. Course(job[j], a)
    BY <1>3 DEF ExtendDeadline, Course, TypeOK, JobAccount
  <2>2. job' = [job EXCEPT ![j] = a]
    BY <1>3 DEF ExtendDeadline, TypeOK
  <2> HIDE DEF a
  <2>3. QED BY <2>1, <2>2, OneCourse
<1>4. CASE DelegateJob(j)
  BY <1>4 DEF DelegateJob, AllCourse, Course, TypeOK, JobAccount, Status
<1>5. CASE ExpireUnclaimed(j)
  BY <1>5, StatusCourse DEF ExpireUnclaimed, Course, Overdue, Status
<1>6. ASSUME NEW verdict \in 0..2, SettleJob(j, verdict) PROVE AllCourse
  BY <1>6, StatusCourse DEF SettleJob, PayClaimer, Course, Status
<1>7. QED BY <1>1, <1>2, <1>3, <1>4, <1>5, <1>6 DEF PosterStep

LEMMA CreateSubJobCourse ==
  ASSUME TypeOK, NEW p \in Jobs, NEW s \in Jobs, NEW agent \in Users \cup {NoOne},
         NEW reward \in Rewards, NEW deadline \in Deadlines,
         CreateSubJob(p, s, agent, reward, deadline)
  PROVE  AllCourse
<1> DEFINE a == [job[p] EXCEPT !.sub_job_count = @ + 1]
           c == [NewJob(reward, deadline, 1, job[p].verification_level)
                   EXCEPT !.claimer = agent, !.parent_job = p]
<1>1. p # s
  BY DEF CreateSubJob, EscrowCovers, Exists
<1>2. Course(job[p], a)
  BY DEF Course, TypeOK, JobAccount, Status
<1>3. Course(job[s], c)
  BY DEF CreateSubJob, Exists, NewJob, Absent, Course
<1>4. job' = [[job EXCEPT ![p] = a] EXCEPT ![s] = c]
  BY DEF CreateSubJob, AddSubJob
<1>5. ASSUME NEW k \in Jobs PROVE Course(job[k], job'[k])
  <2> HIDE DEF a, c
  <2>1. CASE k = s
    BY <2>1, <1>1, <1>3, <1>4 DEF TypeOK
  <2>2. CASE k = p
    BY <2>2, <1>1, <1>2, <1>4 DEF TypeOK
  <2>3. CASE k # s /\ k # p
    BY <2>3, <1>4 DEF TypeOK, JobAccount, Status, Course
  <2>4. QED BY <2>1, <2>2, <2>3
<1>6. QED BY <1>5 DEF AllCourse

LEMMA ClaimerStepCourse ==
  ASSUME TypeOK, NEW j \in Jobs, ClaimerStep(j) PROVE AllCourse
<1>1. CASE LockStake(j)
  BY <1>1, StatusCourse DEF LockStake, Course, Status
<1>2. ASSUME NEW s \in Jobs, NEW agent \in Users \cup {NoOne}, NEW reward \in Rewards,
             NEW deadline \in Deadlines,
             CreateSubJob(j, s, agent, reward, deadline)
      PROVE  AllCourse
  BY <1>2, CreateSubJobCourse
<1>3. ASSUME NEW h, NEW w, Submit(j, h, w) PROVE AllCourse
  <2> DEFINE a == [job[j] EXCEPT !.proof_hash = h, !.submitted_at = now,
                                 !.dispute_window_end = w, !.status = "SUBMITTED"]
  <2>1. Course(job[j], a)
    BY <1>3 DEF Submit, Course, InTime, TypeOK, JobAccount
  <2>2. job' = [job EXCEPT ![j] = a]
    BY <1>3 DEF Submit, TypeOK
  <2> HIDE DEF a
  <2>3. QED BY <2>1, <2>2, OneCourse
<1>4. ASSUME NEW h \in {0, 1},
             SubmitProof(j, h) \/ SubmitEncryptedProof(j, h) \/ SubmitVerifiedProof(j, h)
      PROVE  AllCourse
  BY <1>3, <1>4 DEF SubmitProof, SubmitEncryptedProof, SubmitVerifiedProof
<1>5. CASE AutoSettle(j) \/ ClaimTimeout(j)
  BY <1>5, StatusCourse
  DEF AutoSettle, ClaimTimeout, PayClaimer, Course, Collectable, Status
<1>6. QED BY <1>1, <1>2, <1>4, <1>5 DEF ClaimerStep

LEMMA MarkExpiredCourse ==
  ASSUME TypeOK, NEW j \in Jobs, MarkExpired(j) PROVE AllCourse
BY StatusCourse DEF MarkExpired, ClaimExpired, Course, Overdue, Status

LEMMA OtherStepCourse ==
  ASSUME TypeOK, NEW j \in Jobs, OtherStep(j) PROVE AllCourse
<1>1. ASSUME NEW bidder \in Users, NEW stake \in Stakes, PlaceBid(j, bidder, stake)
      PROVE  AllCourse
  <2> DEFINE a == [job[j] EXCEPT
                  !.status         = "BIDDING",
                  !.bid_count      = @ + 1,
                  !.best_bid_stake = IF stake > job[j].best_bid_stake THEN stake ELSE @,
                  !.best_bidder    = IF stake > job[j].best_bid_stake THEN bidder ELSE @]
  <2>1. Course(job[j], a)
    BY <1>1 DEF PlaceBid, Course, TypeOK, JobAccount
  <2>2. job' = [job EXCEPT ![j] = a]
    BY <1>1 DEF PlaceBid, TypeOK
  <2> HIDE DEF a
  <2>3. QED BY <2>1, <2>2, OneCourse
<1>2. ASSUME NEW r \in Reports, VerifyBidAttestation(j, r) PROVE AllCourse
  <2> DEFINE a == [job[j] EXCEPT !.tee_verified = TRUE]
  <2>1. Course(job[j], a)
    BY <1>2 DEF VerifyBidAttestation, Course, TypeOK, JobAccount
  <2>2. job' = [job EXCEPT ![j] = a]
    BY <1>2 DEF VerifyBidAttestation, TypeOK
  <2> HIDE DEF a
  <2>3. QED BY <2>1, <2>2, OneCourse
<1>3. CASE CloseBidding(j)
  <2> DEFINE a == [job[j] EXCEPT !.claimer = job[j].best_bidder,
                                 !.claimer_stake = job[j].best_bid_stake,
                                 !.status = "CLAIMED"]
  <2>1. Course(job[j], a)
    BY <1>3 DEF CloseBidding, Course, TypeOK, JobAccount
  <2>2. job' = [job EXCEPT ![j] = a]
    BY <1>3 DEF CloseBidding, TypeOK
  <2> HIDE DEF a
  <2>3. QED BY <2>1, <2>2, OneCourse
<1>4. CASE Undelegate(j)
  BY <1>4 DEF Undelegate, AllCourse, Course, TypeOK, JobAccount, Status
<1>5. ASSUME NEW account \in Users \cup Jobs, ExpireClaim(j, account) PROVE AllCourse
  BY <1>5, MarkExpiredCourse DEF ExpireClaim
<1>6. QED BY <1>1, <1>2, <1>3, <1>4, <1>5 DEF OtherStep

LEMMA NextCourse == ASSUME TypeOK, JobStep \/ UNCHANGED vars PROVE AllCourse
<1>1. CASE Tick \/ UNCHANGED vars
  BY <1>1 DEF Tick, vars, AllCourse, Course, TypeOK, JobAccount, Status
<1>2. ASSUME NEW j \in Jobs, PosterStep(j) \/ ClaimerStep(j) \/ OtherStep(j)
      PROVE  AllCourse
  BY <1>2, PosterStepCourse, ClaimerStepCourse, OtherStepCourse
<1>3. ASSUME NEW j \in Jobs, ExpireElsewhere(j) PROVE AllCourse
  BY <1>3, MarkExpiredCourse DEF ExpireElsewhere
<1>4. QED BY <1>1, <1>2, <1>3 DEF Next, JobStep

(* Only an OPEN account is delegated, so that whatever is claimed, locked, *)
(* submitted or finished on L1, or on its way there, never leaves again.   *)
LEMMA StaysHome ==
  ASSUME TypeOK, JobStep \/ UNCHANGED vars, NEW k \in Jobs, site[k] # "ER",
         job[k].status # "OPEN"
  PROVE  site'[k] # "ER"
<1>1. CASE Tick \/ UNCHANGED vars
  BY <1>1 DEF Tick, vars
<1>2. ASSUME NEW j \in Jobs, PosterStep(j) PROVE site'[k] # "ER"
  <2>1. CASE DelegateJob(j)
    BY <2>1 DEF DelegateJob, TypeOK
  <2>2. QED BY <1>2, <2>1
    DEF PosterStep, InitializeJob, AutoAssignJob, ExtendDeadline, ExpireUnclaimed,
        SettleJob, PayOut, PayClaimer
<1>3. ASSUME NEW j \in Jobs, ClaimerStep(j) PROVE site'[k] # "ER"
  BY <1>3
  DEF ClaimerStep, LockStake, CreateSubJob, SubmitProof, SubmitEncryptedProof,
      SubmitVerifiedProof, Submit, AutoSettle, ClaimTimeout, PayClaimer, PayOut
<1>4. ASSUME NEW j \in Jobs, OtherStep(j) PROVE site'[k] # "ER"
  <2>1. CASE CloseBidding(j) \/ Undelegate(j)
    BY <2>1 DEF CloseBidding, Undelegate, TypeOK
  <2>2. QED BY <1>4, <2>1
    DEF OtherStep, PlaceBid, VerifyBidAttestation, ExpireClaim, MarkExpired
<1>5. ASSUME NEW j \in Jobs, ExpireElsewhere(j) PROVE site'[k] # "ER"
  BY <1>5 DEF ExpireElsewhere, MarkExpired
<1>6. QED BY <1>1, <1>2, <1>3, <1>4, <1>5 DEF Next, JobStep

(* What DeadlineDecides says of the instants, this says of the steps: work *)
(* is handed in up to the deadline and a claim expires after it, by        *)
(* whatever instruction (submit_*, expire_claim, expire_unclaimed); and    *)
(* submitted work is paid or refused on a proof, or paid after a timeout   *)
(* (settle_job, auto_settle, claim_timeout).                               *)
THEOREM JobsRunTheirCourse ==
  Spec => [][\A j \in Jobs : Course(job[j], job'[j])]_vars
<1>1. TypeOK /\ [Next]_vars => \A j \in Jobs : Course(job[j], job'[j])
  BY NextCourse DEF AllCourse, JobStep
<1>2. QED BY <1>1, TypeCorrect, PTL DEF Spec

(* The safety half of ClaimResolves: work in progress outside the rollup   *)
(* stays outside and in progress until it is settled or expired; nothing   *)
(* sends it back to the market or into the rollup, where nobody could      *)
(* settle it.                                                              *)
InWork(j) == site[j] # "ER" /\ job[j].status \in {"CLAIMED", "STAKED", "SUBMITTED"}

THEOREM WorkOnlyEnds ==
  Spec => [][\A j \in Jobs : InWork(j) => (InWork(j) \/ Terminal(j))']_vars
<1>1. TypeOK /\ [Next]_vars => \A j \in Jobs : InWork(j) => (InWork(j) \/ Terminal(j))'
  <2> SUFFICES ASSUME TypeOK, [Next]_vars, NEW j \in Jobs, InWork(j)
               PROVE  (InWork(j) \/ Terminal(j))'
    OBVIOUS
  <2>1. site'[j] # "ER"
    BY StaysHome DEF InWork, JobStep
  <2>2. job'[j].status \in {"CLAIMED", "STAKED", "SUBMITTED", "DONE", "FAILED"}
    BY NextCourse DEF AllCourse, Course, InWork, JobStep
  <2>3. QED BY <2>1, <2>2 DEF InWork, Terminal
<1>2. QED BY <1>1, TypeCorrect, PTL DEF Spec

=============================================================================
