-------------------------- MODULE JobContract_proofs --------------------------
(***************************************************************************)
(* The job instructions implement EscrowContract: every step is a step of  *)
(* the abstract contract or changes nothing the contract can see.          *)
(***************************************************************************)
EXTENDS JobEscrow_proofs

(* What one instruction can make of the terms and lamports of its job.     *)
KeepsTerms(k) == /\ job'[k].reward = job[k].reward
            /\ job'[k].claimer_stake = job[k].claimer_stake

Stays(k) ==
  job'[k].status = job[k].status /\ KeepsTerms(k) /\ lamports'[k] = lamports[k]

Opens(j) ==
  /\ job[j].status = "NONE" /\ job'[j].status = "OPEN"
  /\ job'[j].reward > 0 /\ job'[j].claimer_stake = 0
  /\ lamports'[j] = lamports[j] + RentDue(JobRent, lamports[j]) + job'[j].reward

Claims(j) ==
  /\ job[j].status \in {"OPEN", "BIDDING"} /\ job'[j].status = "CLAIMED"
  /\ job'[j].reward = job[j].reward
  /\ lamports'[j] = lamports[j]

Locks(j) ==
  /\ job[j].status = "CLAIMED" /\ job'[j].status = "STAKED"
  /\ KeepsTerms(j) /\ job[j].claimer_stake > 0
  /\ lamports'[j] = lamports[j] + job[j].claimer_stake

Submits(j) ==
  /\ job[j].status \in {"CLAIMED", "STAKED"} /\ job'[j].status = "SUBMITTED"
  /\ KeepsTerms(j)
  /\ lamports'[j] = lamports[j]

PaysClaimer(j) ==
  /\ job[j].status = "SUBMITTED" /\ job'[j].status = "DONE"
  /\ KeepsTerms(j)
  /\ lamports'[j] =
       lamports[j] - Lesser(job[j].reward + job[j].claimer_stake, Available(j))

InProgress == {"OPEN", "BIDDING", "CLAIMED", "STAKED", "SUBMITTED"}

PaysBack(j) ==
  /\ job[j].status \in InProgress /\ job'[j].status = "FAILED"
  /\ KeepsTerms(j)
  /\ lamports'[j] = lamports[j] - Refund(j)

Bids(j) ==
  /\ job[j].status \in {"OPEN", "BIDDING"} /\ job'[j].status \in {"OPEN", "BIDDING"}
  /\ KeepsTerms(j)
  /\ lamports'[j] = lamports[j]

OneLawful(j) ==
  /\ \/ Stays(j) \/ Bids(j) \/ Opens(j) \/ Claims(j) \/ Locks(j) \/ Submits(j)
     \/ PaysClaimer(j) \/ PaysBack(j)
  /\ \A k \in Jobs \ {j} : Stays(k)

(* The lapsed claim of j refunded into the account of e.                   *)
RefundsInto(j, e) ==
  /\ job[j].status \in {"CLAIMED", "STAKED"} /\ job'[j].status = "FAILED"
  /\ \A k \in Jobs \ {j} : job'[k] = job[k]
  /\ KeepsTerms(j)
  /\ lamports' = [[lamports EXCEPT ![j] = @ - Refund(j)]
                     EXCEPT ![e] = @ + Refund(j)]

LEMMA OnlyStatusOf ==
  ASSUME TypeOK, NEW j \in Jobs, NEW a, NEW m,
         job' = [job EXCEPT ![j] = a], lamports' = [lamports EXCEPT ![j] = m]
  PROVE  /\ job'[j] = a /\ lamports'[j] = m
         /\ \A k \in Jobs \ {j} : Stays(k)
BY DEF TypeOK, Stays, KeepsTerms

LEMMA StatusKeeps ==
  ASSUME TypeOK, NEW j \in Jobs, NEW st, job' = [job EXCEPT ![j].status = st]
  PROVE  /\ job'[j].status = st /\ KeepsTerms(j)
         /\ \A k \in Jobs \ {j} : job'[k] = job[k]
BY DEF TypeOK, JobAccount, KeepsTerms

(* What the handlers that give the reward back end with.                   *)
Fails(j) ==
  /\ job[j].status \in InProgress
  /\ lamports' = [lamports EXCEPT ![j] = @ - Refund(j)]
  /\ job' = [job EXCEPT ![j].status = "FAILED"]

LEMMA PayPosterLawful ==
  ASSUME IInv, NEW j \in Jobs, Fails(j)
  PROVE  OneLawful(j)
BY StatusKeeps DEF OneLawful, PaysBack, IInv, Fails, TypeOK, Stays, KeepsTerms

LEMMA PayOutRefunds ==
  ASSUME NEW j, NEW to, PayOut(j, to, job[j].reward)
  PROVE  lamports' = [lamports EXCEPT ![j] = @ - Refund(j)]
BY DEF PayOut, Refund

LEMMA PayClaimerLawful ==
  ASSUME IInv, NEW j \in Jobs, job[j].status = "SUBMITTED", PayClaimer(j)
  PROVE  OneLawful(j)
BY StatusKeeps
DEF OneLawful, PaysClaimer, PayClaimer, PayOut, IInv, TypeOK, Stays, KeepsTerms

LEMMA PosterStepLawful ==
  ASSUME IInv, NEW j \in Jobs, PosterStep(j) PROVE OneLawful(j)
<1> USE DEF IInv
<1>1. ASSUME NEW reward \in Rewards, NEW deadline \in Deadlines,
             NEW mode \in {0, 1}, NEW level \in Levels,
             InitializeJob(j, reward, deadline, mode, level)
      PROVE  OneLawful(j)
  <2> DEFINE a == NewJob(reward, deadline, mode, level)
  <2> DEFINE m == lamports[j] + (RentDue(JobRent, lamports[j]) + reward)
  <2>1. a.status = "OPEN" /\ a.reward = reward /\ a.claimer_stake = 0
    BY DEF NewJob, Absent
  <2>2. /\ job' = [job EXCEPT ![j] = a]
        /\ lamports' = [lamports EXCEPT ![j] = m]
        /\ job[j].status = "NONE" /\ reward > 0
        /\ m = lamports[j] + RentDue(JobRent, lamports[j]) + reward
    BY <1>1, AmountAssumption DEF InitializeJob, Exists, RentDue, TypeOK
  <2> HIDE DEF a, m
  <2>3. QED BY <2>1, <2>2, OnlyStatusOf DEF OneLawful, Opens
<1>2. ASSUME NEW agent \in Users \cup {NoOne}, AutoAssignJob(j, agent) PROVE OneLawful(j)
  <2> DEFINE a == [job[j] EXCEPT !.claimer = agent, !.status = "CLAIMED"]
  <2>1. a.status = "CLAIMED" /\ a.reward = job[j].reward
    BY SoundAt DEF JobAccount
  <2>2. /\ job' = [job EXCEPT ![j] = a]
        /\ lamports' = [lamports EXCEPT ![j] = lamports[j]]
        /\ job[j].status = "OPEN"
    BY <1>2 DEF AutoAssignJob, TypeOK
  <2> HIDE DEF a
  <2>3. QED BY <2>1, <2>2, OnlyStatusOf DEF OneLawful, Claims
<1>3. ASSUME NEW deadline \in Deadlines, ExtendDeadline(j, deadline) PROVE OneLawful(j)
  <2> DEFINE a == [job[j] EXCEPT !.deadline = deadline]
  <2>1. /\ a.status = job[j].status /\ a.reward = job[j].reward
        /\ a.claimer_stake = job[j].claimer_stake
    BY SoundAt DEF JobAccount
  <2>2. /\ job' = [job EXCEPT ![j] = a]
        /\ lamports' = [lamports EXCEPT ![j] = lamports[j]]
    BY <1>3 DEF ExtendDeadline, TypeOK
  <2> HIDE DEF a
  <2>3. QED BY <2>1, <2>2, OnlyStatusOf DEF OneLawful, Stays, KeepsTerms
<1>4. CASE DelegateJob(j)
  BY <1>4 DEF DelegateJob, OneLawful, Stays, KeepsTerms
<1>5. CASE ExpireUnclaimed(j)
  <2>1. Fails(j)
    BY <1>5, PayOutRefunds DEF ExpireUnclaimed, Fails, InProgress
  <2>2. QED BY <2>1, PayPosterLawful
<1>6. ASSUME NEW verdict \in 0..2, SettleJob(j, verdict) PROVE OneLawful(j)
  BY <1>6, PayPosterLawful, PayClaimerLawful, PayOutRefunds
  DEF SettleJob, Fails, InProgress
<1>7. QED BY <1>1, <1>2, <1>3, <1>4, <1>5, <1>6 DEF PosterStep

LEMMA OtherStepLawful ==
  ASSUME IInv, NEW j \in Jobs, OtherStep(j)
  PROVE  OneLawful(j) \/ \E e \in Jobs : RefundsInto(j, e)
<1> USE DEF IInv
<1>1. ASSUME NEW bidder \in Users, NEW stake \in Stakes, PlaceBid(j, bidder, stake)
      PROVE  OneLawful(j)
  <2> DEFINE a == [job[j] EXCEPT
                  !.status         = "BIDDING",
                  !.bid_count      = @ + 1,
                  !.best_bid_stake = IF stake > job[j].best_bid_stake THEN stake ELSE @,
                  !.best_bidder    = IF stake > job[j].best_bid_stake THEN bidder ELSE @]
  <2>1. /\ a.status = "BIDDING" /\ a.reward = job[j].reward
        /\ a.claimer_stake = job[j].claimer_stake
    BY SoundAt DEF JobAccount
  <2>2. /\ job' = [job EXCEPT ![j] = a]
        /\ lamports' = [lamports EXCEPT ![j] = lamports[j]]
        /\ job[j].status \in {"OPEN", "BIDDING"}
    BY <1>1 DEF PlaceBid, TypeOK
  <2> HIDE DEF a
  <2>3. QED BY <2>1, <2>2, OnlyStatusOf DEF OneLawful, Bids, KeepsTerms
<1>2. ASSUME NEW r \in Reports, VerifyBidAttestation(j, r) PROVE OneLawful(j)
  <2> DEFINE a == [job[j] EXCEPT !.tee_verified = TRUE]
  <2>1. /\ a.status = job[j].status /\ a.reward = job[j].reward
        /\ a.claimer_stake = job[j].claimer_stake
    BY SoundAt DEF JobAccount
  <2>2. /\ job' = [job EXCEPT ![j] = a]
        /\ lamports' = [lamports EXCEPT ![j] = lamports[j]]
    BY <1>2 DEF VerifyBidAttestation, TypeOK
  <2> HIDE DEF a
  <2>3. QED BY <2>1, <2>2, OnlyStatusOf DEF OneLawful, Stays, KeepsTerms
<1>3. CASE CloseBidding(j)
  <2> DEFINE a == [job[j] EXCEPT !.claimer = job[j].best_bidder,
                             !.claimer_stake = job[j].best_bid_stake,
                             !.status = "CLAIMED"]
  <2>1. a.status = "CLAIMED" /\ a.reward = job[j].reward
    BY SoundAt DEF JobAccount
  <2>2. /\ job' = [job EXCEPT ![j] = a]
        /\ lamports' = [lamports EXCEPT ![j] = lamports[j]]
        /\ job[j].status = "BIDDING"
    BY <1>3 DEF CloseBidding, TypeOK
  <2> HIDE DEF a
  <2>3. QED BY <2>1, <2>2, OnlyStatusOf DEF OneLawful, Claims
<1>4. CASE Undelegate(j)
  BY <1>4 DEF Undelegate, OneLawful, Stays, KeepsTerms
<1>5. ASSUME NEW account \in Users \cup Jobs, ExpireClaim(j, account)
      PROVE  OneLawful(j) \/ \E e \in Jobs : RefundsInto(j, e)
  <2>1. CASE account \in Users /\ PayOut(j, account, job[j].reward)
    <3>1. Fails(j)
      BY <1>5, <2>1, PayOutRefunds
      DEF ExpireClaim, MarkExpired, ClaimExpired, Fails, InProgress
    <3>2. QED BY <3>1, PayPosterLawful
  <2>2. CASE /\ account \in Jobs
             /\ lamports' = [[lamports EXCEPT ![j] = @ - Refund(j)]
                                EXCEPT ![account] = @ + Refund(j)]
    <3>1. RefundsInto(j, account)
      BY <1>5, <2>2, StatusKeeps
      DEF ExpireClaim, MarkExpired, ClaimExpired, RefundsInto
    <3>2. QED BY <2>2, <3>1
  <2>3. QED BY <1>5, <2>1, <2>2 DEF ExpireClaim
<1>6. QED BY <1>1, <1>2, <1>3, <1>4, <1>5 DEF OtherStep

LEMMA ExpireElsewhereLawful ==
  ASSUME IInv, NEW j \in Jobs, ExpireElsewhere(j) PROVE OneLawful(j)
<1>1. Fails(j)
  BY DEF ExpireElsewhere, MarkExpired, ClaimExpired, Fails, InProgress
<1>2. QED BY <1>1, PayPosterLawful

(* A sub-job takes what it is funded with, to the lamport, from its parent. *)
FundsSubJob(p, s) ==
  /\ p # s
  /\ job[p].status = "STAKED" /\ job'[p].status = "STAKED" /\ KeepsTerms(p)
  /\ job[s].status = "NONE" /\ job'[s].status = "OPEN"
  /\ job'[s].reward > 0 /\ job'[s].claimer_stake = 0
  /\ lamports[p] >= JobRent + job'[s].reward
  /\ lamports'[p] = lamports[p] - job'[s].reward
  /\ lamports'[s] = lamports[s] + RentDue(JobRent, lamports[s]) + job'[s].reward
  /\ \A k \in Jobs \ {p, s} : Stays(k)

LEMMA CreateSubJobFunds ==
  ASSUME IInv, NEW p \in Jobs, NEW s \in Jobs, NEW agent \in Users \cup {NoOne},
         NEW reward \in Rewards, NEW deadline \in Deadlines,
         CreateSubJob(p, s, agent, reward, deadline)
  PROVE  FundsSubJob(p, s)
<1> DEFINE a == [job[p] EXCEPT !.sub_job_count = @ + 1]
           c == [NewJob(reward, deadline, 1, job[p].verification_level)
                   EXCEPT !.claimer = agent, !.parent_job = p]
           m == lamports[s] + RentDue(JobRent, lamports[s]) + reward
<1>1. p # s
  BY DEF CreateSubJob, EscrowCovers, Exists
<1>2. /\ job[p].status = "STAKED" /\ job[s].status = "NONE"
      /\ reward \in Nat \ {0} /\ JobRent \in Nat /\ lamports[p] \in Nat
      /\ lamports[p] >= JobRent + reward
  BY SoundAt, AmountAssumption DEF CreateSubJob, EscrowCovers, Available, Exists
<1>3. /\ a.status = "STAKED" /\ a.reward = job[p].reward
      /\ a.claimer_stake = job[p].claimer_stake
      /\ c.status = "OPEN" /\ c.reward = reward /\ c.claimer_stake = 0
  BY <1>2, SoundAt DEF JobAccount, NewJob, Absent
<1>4. /\ job' = [[job EXCEPT ![p] = a] EXCEPT ![s] = c]
      /\ lamports' = [[lamports EXCEPT ![p] = @ - reward] EXCEPT ![s] = m]
  BY <1>1 DEF CreateSubJob, AddSubJob, FundSubJob, IInv, TypeOK
<1> HIDE DEF a, c, m
<1>5. /\ job'[p] = a /\ job'[s] = c
      /\ lamports'[p] = lamports[p] - reward /\ lamports'[s] = m
      /\ \A k \in Jobs \ {p, s} : Stays(k)
  BY <1>1, <1>4 DEF IInv, TypeOK, Stays, KeepsTerms
<1>6. QED BY <1>1, <1>2, <1>3, <1>5 DEF FundsSubJob, KeepsTerms, m

LEMMA ClaimerStepLawful ==
  ASSUME IInv, NEW j \in Jobs, ClaimerStep(j)
  PROVE  OneLawful(j) \/ \E s \in Jobs : FundsSubJob(j, s)
<1> USE DEF IInv
<1>1. CASE LockStake(j)
  <2> DEFINE a == [job[j] EXCEPT !.status = "STAKED"]
  <2>1. /\ a.status = "STAKED" /\ a.reward = job[j].reward
        /\ a.claimer_stake = job[j].claimer_stake
    BY SoundAt DEF JobAccount
  <2>2. /\ job' = [job EXCEPT ![j] = a]
        /\ lamports' = [lamports EXCEPT ![j] = lamports[j] + job[j].claimer_stake]
        /\ job[j].status = "CLAIMED" /\ job[j].claimer_stake > 0
    BY <1>1 DEF LockStake, TypeOK
  <2> HIDE DEF a
  <2>3. QED BY <2>1, <2>2, OnlyStatusOf DEF OneLawful, Locks, KeepsTerms
<1>2. ASSUME NEW s \in Jobs, NEW agent \in Users \cup {NoOne}, NEW reward \in Rewards,
             NEW deadline \in Deadlines,
             CreateSubJob(j, s, agent, reward, deadline)
      PROVE  FundsSubJob(j, s)
  BY <1>2, CreateSubJobFunds
<1>3. ASSUME NEW h, NEW w, Submit(j, h, w) PROVE OneLawful(j)
  <2> DEFINE a == [job[j] EXCEPT !.proof_hash = h, !.submitted_at = now,
                             !.dispute_window_end = w, !.status = "SUBMITTED"]
  <2>1. /\ a.status = "SUBMITTED" /\ a.reward = job[j].reward
        /\ a.claimer_stake = job[j].claimer_stake
    BY SoundAt DEF JobAccount
  <2>2. /\ job' = [job EXCEPT ![j] = a]
        /\ lamports' = [lamports EXCEPT ![j] = lamports[j]]
        /\ job[j].status \in {"CLAIMED", "STAKED"}
    BY <1>3 DEF Submit, TypeOK
  <2> HIDE DEF a
  <2>3. QED BY <2>1, <2>2, OnlyStatusOf DEF OneLawful, Submits, KeepsTerms
<1>4. ASSUME NEW h \in {0, 1},
             SubmitProof(j, h) \/ SubmitEncryptedProof(j, h) \/ SubmitVerifiedProof(j, h)
      PROVE  OneLawful(j)
  BY <1>3, <1>4 DEF SubmitProof, SubmitEncryptedProof, SubmitVerifiedProof
<1>5. CASE AutoSettle(j) \/ ClaimTimeout(j)
  BY <1>5, PayClaimerLawful DEF AutoSettle, ClaimTimeout
<1>6. QED BY <1>1, <1>2, <1>4, <1>5 DEF ClaimerStep

-----------------------------------------------------------------------------
(* The abstract variables, seen through the refinement mapping.            *)
PhaseMap == [j \in Jobs |-> PhaseOf(job[j].status)]
PriceMap == [j \in Jobs |-> job[j].reward]
StakeMap == [j \in Jobs |-> job[j].claimer_stake]
HeldMap  == [j \in Jobs |-> Available(j)]

mapVars == <<PhaseMap, PriceMap, StakeMap, HeldMap>>

(* What the contract sees of a job does not change.                        *)
Same(k) == /\ PhaseMap'[k] = PhaseMap[k] /\ PriceMap'[k] = PriceMap[k]
           /\ StakeMap'[k] = StakeMap[k] /\ HeldMap'[k] = HeldMap[k]

LEMMA MapsAreFunctions ==
  /\ PhaseMap = [k \in Jobs |-> PhaseMap[k]] /\ PhaseMap' = [k \in Jobs |-> PhaseMap'[k]]
  /\ PriceMap = [k \in Jobs |-> PriceMap[k]] /\ PriceMap' = [k \in Jobs |-> PriceMap'[k]]
  /\ StakeMap = [k \in Jobs |-> StakeMap[k]] /\ StakeMap' = [k \in Jobs |-> StakeMap'[k]]
  /\ HeldMap = [k \in Jobs |-> HeldMap[k]] /\ HeldMap' = [k \in Jobs |-> HeldMap'[k]]
BY DEF PhaseMap, PriceMap, StakeMap, HeldMap

(* What the abstract contract sees of one job.                             *)
LEMMA MapsAt ==
  ASSUME IInv, IInv', NEW j \in Jobs
  PROVE  /\ PhaseMap[j] = PhaseOf(job[j].status)
         /\ PhaseMap'[j] = PhaseOf(job'[j].status)
         /\ PriceMap[j] = job[j].reward /\ PriceMap'[j] = job'[j].reward
         /\ StakeMap[j] = job[j].claimer_stake
         /\ StakeMap'[j] = job'[j].claimer_stake
         /\ HeldMap[j] = Available(j)
         /\ HeldMap[j] = IF lamports[j] >= JobRent THEN lamports[j] - JobRent ELSE 0
         /\ HeldMap'[j] = IF lamports'[j] >= JobRent THEN lamports'[j] - JobRent ELSE 0
         /\ job[j].status # "NONE" => lamports[j] >= JobRent
         /\ PriceMap[j] \in Nat /\ PriceMap'[j] \in Nat
         /\ StakeMap[j] \in Nat /\ StakeMap'[j] \in Nat
         /\ lamports[j] \in Nat /\ lamports'[j] \in Nat /\ JobRent \in Nat \ {0}
<1>1. /\ PhaseMap[j] = PhaseOf(job[j].status)
      /\ PhaseMap'[j] = PhaseOf(job'[j].status)
  BY Zenon DEF PhaseMap
<1>2. /\ PriceMap[j] = job[j].reward /\ PriceMap'[j] = job'[j].reward
      /\ StakeMap[j] = job[j].claimer_stake
      /\ StakeMap'[j] = job'[j].claimer_stake
  BY DEF PriceMap, StakeMap
<1>3. /\ HeldMap[j] = Available(j)
      /\ HeldMap[j] = IF lamports[j] >= JobRent THEN lamports[j] - JobRent ELSE 0
      /\ HeldMap'[j] = IF lamports'[j] >= JobRent THEN lamports'[j] - JobRent ELSE 0
  BY DEF HeldMap, Available
<1>4. /\ job[j] \in JobAccount /\ job'[j] \in JobAccount
      /\ lamports[j] \in Nat /\ lamports'[j] \in Nat /\ JobRent \in Nat \ {0}
      /\ job[j].status # "NONE" => lamports[j] >= JobRent
  BY AmountAssumption DEF IInv, TypeOK, EscrowBalance, Balanced
<1>5. QED BY <1>1, <1>2, <1>3, <1>4 DEF JobAccount

LEMMA MapsStay == ASSUME NEW k \in Jobs, Stays(k) PROVE Same(k)
<1>1. /\ PhaseMap[k] = PhaseOf(job[k].status)
      /\ PhaseMap'[k] = PhaseOf(job'[k].status)
  BY Zenon DEF PhaseMap
<1>2. PhaseMap'[k] = PhaseMap[k]
  BY <1>1, Zenon DEF Stays
<1>3. QED BY <1>2 DEF Same, Stays, KeepsTerms, PriceMap, StakeMap, HeldMap, Available

LEMMA NothingMoves ==
  ASSUME \A k \in Jobs : Same(k) PROVE UNCHANGED mapVars
<1>1. PhaseMap' = PhaseMap
  BY MapsAreFunctions, Zenon DEF Same
<1>2. PriceMap' = PriceMap
  BY MapsAreFunctions, Zenon DEF Same
<1>3. StakeMap' = StakeMap
  BY MapsAreFunctions, Zenon DEF Same
<1>4. HeldMap' = HeldMap
  BY MapsAreFunctions, Zenon DEF Same
<1>5. QED BY <1>1, <1>2, <1>3, <1>4 DEF mapVars

LEMMA OneMoves ==
  ASSUME NEW j \in Jobs, \A k \in Jobs \ {j} : Same(k)
  PROVE  /\ PhaseMap' = [PhaseMap EXCEPT ![j] = PhaseMap'[j]]
         /\ PriceMap' = [PriceMap EXCEPT ![j] = PriceMap'[j]]
         /\ StakeMap' = [StakeMap EXCEPT ![j] = StakeMap'[j]]
         /\ HeldMap'  = [HeldMap EXCEPT ![j] = HeldMap'[j]]
         /\ PriceMap'[j] = PriceMap[j] => PriceMap' = PriceMap
         /\ StakeMap'[j] = StakeMap[j] => StakeMap' = StakeMap
         /\ HeldMap'[j] = HeldMap[j] => HeldMap' = HeldMap
<1>1. PhaseMap' = [PhaseMap EXCEPT ![j] = PhaseMap'[j]]
  BY MapsAreFunctions DEF Same
<1>2. /\ PriceMap' = [PriceMap EXCEPT ![j] = PriceMap'[j]]
      /\ PriceMap'[j] = PriceMap[j] => PriceMap' = PriceMap
  BY MapsAreFunctions DEF Same
<1>3. /\ StakeMap' = [StakeMap EXCEPT ![j] = StakeMap'[j]]
      /\ StakeMap'[j] = StakeMap[j] => StakeMap' = StakeMap
  BY MapsAreFunctions DEF Same
<1>4. /\ HeldMap'  = [HeldMap EXCEPT ![j] = HeldMap'[j]]
      /\ HeldMap'[j] = HeldMap[j] => HeldMap' = HeldMap
  BY MapsAreFunctions DEF Same
<1>5. QED BY <1>1, <1>2, <1>3, <1>4

(* The contract's own names for what it adds and takes.                    *)
LEMMA LeastIsLesser == \A a, b : Contract!Least(a, b) = Lesser(a, b)
BY DEF Contract!Least, Lesser

LEMMA OneLawfulIsContract ==
  ASSUME IInv, IInv', NEW j \in Jobs, OneLawful(j)
  PROVE  [Contract!ContractNext]_mapVars
<1> USE DEF PhaseOf
<1>1. \A k \in Jobs \ {j} : Same(k)
  BY MapsStay DEF OneLawful
<1>2. CASE Stays(j)
  BY <1>1, <1>2, MapsStay, NothingMoves
<1>3. CASE Bids(j)
  <2>1. Same(j)
    BY <1>3, MapsAt DEF Bids, Same, KeepsTerms
  <2>2. QED BY <1>1, <2>1, NothingMoves
<1>4. CASE Opens(j)
  <2>1. /\ PhaseMap[j] = "absent" /\ PhaseMap'[j] = "funded"
        /\ PriceMap'[j] > 0 /\ StakeMap'[j] = 0
        /\ HeldMap'[j] = HeldMap[j] + PriceMap'[j]
    BY <1>4, MapsAt DEF Opens, RentDue
  <2>2. Contract!Fund(j)
    BY <1>1, <2>1, OneMoves
    DEF Contract!Fund, Contract!Move, PhaseMap, PriceMap, StakeMap, HeldMap
  <2>3. QED BY <2>2 DEF Contract!ContractNext
<1>5. CASE Claims(j)
  <2>1. /\ PhaseMap[j] = "funded" /\ PhaseMap'[j] = "engaged"
        /\ PriceMap'[j] = PriceMap[j] /\ HeldMap'[j] = HeldMap[j]
        /\ StakeMap'[j] \in Nat
    BY <1>5, MapsAt DEF Claims
  <2>2. Contract!Engage(j)
    BY <1>1, <2>1, OneMoves
    DEF Contract!Engage, Contract!Move, PhaseMap, PriceMap, StakeMap, HeldMap
  <2>3. QED BY <2>2 DEF Contract!ContractNext
<1>6. CASE Locks(j)
  <2>1. /\ PhaseMap[j] = "engaged" /\ PhaseMap'[j] = "secured"
        /\ PriceMap'[j] = PriceMap[j] /\ StakeMap'[j] = StakeMap[j]
        /\ StakeMap[j] > 0 /\ HeldMap'[j] = HeldMap[j] + StakeMap[j]
    BY <1>6, MapsAt DEF Locks, KeepsTerms
  <2>2. /\ PhaseMap' = [PhaseMap EXCEPT ![j] = PhaseMap'[j]]
        /\ PriceMap' = PriceMap /\ StakeMap' = StakeMap
        /\ HeldMap' = [HeldMap EXCEPT ![j] = @ + StakeMap[j]]
    BY <1>1, <2>1, OneMoves, MapsAreFunctions
  <2>3. Contract!Secure(j)
    BY <2>1, <2>2
    DEF Contract!Secure, Contract!Move, PhaseMap, PriceMap, StakeMap, HeldMap
  <2>4. QED BY <2>3 DEF Contract!ContractNext
<1>7. CASE Submits(j)
  <2>1. /\ PhaseMap[j] \in {"engaged", "secured"} /\ PhaseMap'[j] = "delivered"
        /\ PriceMap'[j] = PriceMap[j] /\ StakeMap'[j] = StakeMap[j]
        /\ HeldMap'[j] = HeldMap[j]
    BY <1>7, MapsAt DEF Submits, KeepsTerms
  <2>2. Contract!Deliver(j)
    BY <1>1, <2>1, OneMoves
    DEF Contract!Deliver, Contract!Move, PhaseMap, PriceMap, StakeMap, HeldMap
  <2>3. QED BY <2>2 DEF Contract!ContractNext
<1>8. CASE PaysClaimer(j)
  <2>1. /\ PhaseMap[j] = "delivered" /\ PhaseMap'[j] = "released"
        /\ PriceMap'[j] = PriceMap[j] /\ StakeMap'[j] = StakeMap[j]
        /\ HeldMap'[j] = HeldMap[j]
                           - Contract!Least(PriceMap[j] + StakeMap[j], HeldMap[j])
    BY <1>8, MapsAt DEF Contract!Least, PaysClaimer, KeepsTerms, Lesser
  <2>2. /\ PhaseMap' = [PhaseMap EXCEPT ![j] = PhaseMap'[j]]
        /\ PriceMap' = PriceMap /\ StakeMap' = StakeMap
        /\ HeldMap' = [HeldMap EXCEPT ![j] = @ - Contract!Least(PriceMap[j] + StakeMap[j], @)]
    BY <1>1, <2>1, OneMoves, MapsAreFunctions
  <2>3. Contract!Release(j)
    BY <2>1, <2>2
    DEF Contract!Release, Contract!Move, PhaseMap, PriceMap, StakeMap, HeldMap
  <2>4. QED BY <2>3 DEF Contract!ContractNext
<1>9. CASE PaysBack(j)
  <2>1. /\ PhaseMap[j] \in {"funded", "engaged", "secured", "delivered"}
        /\ PhaseMap'[j] = "refunded"
        /\ PriceMap'[j] = PriceMap[j] /\ StakeMap'[j] = StakeMap[j]
        /\ HeldMap'[j] = HeldMap[j] - Contract!Least(PriceMap[j], HeldMap[j])
    BY <1>9, MapsAt DEF Contract!Least, PaysBack, InProgress, KeepsTerms, Lesser, Refund
  <2>2. PhaseMap[j] \in {"funded", "engaged"} => PriceMap[j] <= HeldMap[j]
    BY <1>9, MapsAt, SoundAt DEF PaysBack, InProgress, Sound, Balanced, JobAccount
  <2>3. /\ PhaseMap' = [PhaseMap EXCEPT ![j] = PhaseMap'[j]]
        /\ PriceMap' = PriceMap /\ StakeMap' = StakeMap
        /\ HeldMap' = [HeldMap EXCEPT ![j] = @ - Contract!Least(PriceMap[j], @)]
    BY <1>1, <2>1, OneMoves, MapsAreFunctions
  <2>4. Contract!Refund(j)
    BY <2>1, <2>2, <2>3
    DEF Contract!Refund, Contract!Move, PhaseMap, PriceMap, StakeMap, HeldMap
  <2>5. QED BY <2>4 DEF Contract!ContractNext
<1>10. QED
  BY <1>2, <1>3, <1>4, <1>5, <1>6, <1>7, <1>8, <1>9 DEF OneLawful

(* A refund credited to another job, to an address that has none, where it *)
(* may be part of the rent still due, or to the expired job itself.        *)
LEMMA RefundIntoIsContract ==
  ASSUME IInv, IInv', NEW j \in Jobs, NEW e \in Jobs, RefundsInto(j, e)
  PROVE  Contract!ContractNext
<1> DEFINE refund == Lesser(PriceMap[j], HeldMap[j])
           base   == IF e = j THEN HeldMap[j] - refund ELSE HeldMap[e]
           kept   == refund - (HeldMap'[e] - base)
<1>1. /\ PhaseMap[j] \in {"engaged", "secured"} /\ PhaseMap'[j] = "refunded"
      /\ PriceMap'[j] = PriceMap[j] /\ StakeMap'[j] = StakeMap[j]
  BY MapsAt DEF RefundsInto, KeepsTerms, PhaseOf
<1>2. PhaseMap[j] = "engaged" => PriceMap[j] <= HeldMap[j]
  BY MapsAt, SoundAt DEF RefundsInto, Sound, Balanced, JobAccount, PhaseOf
<1>3. /\ refund = Refund(j) /\ refund \in Nat /\ refund <= HeldMap[j]
      /\ lamports[j] = HeldMap[j] + JobRent
  BY MapsAt DEF Refund, Lesser, RefundsInto
<1>4. ASSUME NEW k \in Jobs \ {j}
      PROVE  /\ PhaseMap'[k] = PhaseMap[k] /\ PriceMap'[k] = PriceMap[k]
             /\ StakeMap'[k] = StakeMap[k]
  <2>1. job'[k] = job[k]
    BY <1>4 DEF RefundsInto
  <2>2. PhaseMap'[k] = PhaseMap[k]
    BY <1>4, <2>1, Zenon DEF PhaseMap
  <2>3. PriceMap'[k] = PriceMap[k] /\ StakeMap'[k] = StakeMap[k]
    BY <1>4, <2>1 DEF PriceMap, StakeMap
  <2>4. QED BY <2>2, <2>3
<1>5. /\ lamports'[e] = (IF e = j THEN lamports[j] ELSE lamports[e] + refund)
      /\ e # j => lamports'[j] = lamports[j] - refund
      /\ \A k \in Jobs \ {j, e} : lamports'[k] = lamports[k]
  <2>1. lamports \in [Jobs -> Nat]
    BY DEF IInv, TypeOK
  <2> HIDE DEF refund
  <2>2. lamports' = [[lamports EXCEPT ![j] = @ - refund] EXCEPT ![e] = @ + refund]
    BY <1>3 DEF RefundsInto
  <2>3. QED BY <1>3, <2>1, <2>2
<1>6. /\ kept \in 0..refund
      /\ HeldMap'[e] = base + (refund - kept)
      /\ kept > 0 => PhaseMap[e] = "absent"
  <2> HIDE DEF refund
  <2>1. CASE e = j
    BY <1>3, <1>5, <2>1, MapsAt
  <2>2. CASE e # j
    <3>1. /\ lamports'[e] = lamports[e] + refund
          /\ HeldMap[e] = IF lamports[e] >= JobRent THEN lamports[e] - JobRent ELSE 0
          /\ HeldMap'[e] = IF lamports'[e] >= JobRent THEN lamports'[e] - JobRent ELSE 0
          /\ job[e].status # "NONE" => lamports[e] >= JobRent
          /\ lamports[e] \in Nat /\ JobRent \in Nat /\ refund \in Nat
      BY <1>3, <1>5, <2>2, MapsAt
    <3>2. /\ HeldMap'[e] - HeldMap[e] \in 0..refund
          /\ job[e].status # "NONE" => HeldMap'[e] - HeldMap[e] = refund
          /\ HeldMap[e] \in Nat /\ HeldMap'[e] \in Nat
      BY <3>1
    <3>3. job[e].status = "NONE" => PhaseMap[e] = "absent"
      BY MapsAt DEF PhaseOf
    <3>4. QED BY <1>3, <2>2, <3>2, <3>3
  <2>3. QED BY <2>1, <2>2
<1>7. /\ e # j => HeldMap'[j] = HeldMap[j] - refund
      /\ \A k \in Jobs \ {j, e} : HeldMap'[k] = HeldMap[k]
  <2> HIDE DEF refund
  <2>1. e # j => HeldMap'[j] = HeldMap[j] - refund
    BY <1>3, <1>5, MapsAt
  <2>2. \A k \in Jobs \ {j, e} : HeldMap'[k] = HeldMap[k]
    BY <1>5, MapsAt
  <2>3. QED BY <2>1, <2>2
<1> DEFINE credit == refund - kept
<1>8. HeldMap' = [[HeldMap EXCEPT ![j] = @ - refund] EXCEPT ![e] = @ + credit]
  <2> HIDE DEF refund, kept
  <2>1. HeldMap'[e] = base + credit
    BY <1>6
  <2> HIDE DEF credit
  <2>2. QED BY <1>7, <2>1, MapsAreFunctions
<1>9. /\ PhaseMap' = [PhaseMap EXCEPT ![j] = "refunded"]
      /\ PriceMap' = PriceMap
      /\ StakeMap' = StakeMap
  <2>1. PhaseMap' = [PhaseMap EXCEPT ![j] = "refunded"]
    BY <1>1, <1>4, MapsAreFunctions
  <2>2. PriceMap' = PriceMap
    BY <1>1, <1>4, MapsAreFunctions
  <2>3. StakeMap' = StakeMap
    BY <1>1, <1>4, MapsAreFunctions
  <2>4. QED BY <2>1, <2>2, <2>3
<1>10. refund = Contract!Least(PriceMap[j], HeldMap[j])
  BY LeastIsLesser
<1>11. Contract!RefundInto(j, e)
  <2> HIDE DEF refund, kept
  <2>1. QED BY <1>1, <1>2, <1>6, <1>8, <1>9, <1>10
    DEF Contract!RefundInto, Contract!Move, PhaseMap, PriceMap, StakeMap, HeldMap
<1>12. QED BY <1>11 DEF Contract!ContractNext

LEMMA SubJobIsContract ==
  ASSUME IInv, IInv', NEW p \in Jobs, NEW s \in Jobs, FundsSubJob(p, s)
  PROVE  Contract!ContractNext
<1>1. /\ PhaseMap[p] = "secured" /\ PhaseMap'[p] = "secured"
      /\ PhaseMap[s] = "absent" /\ PhaseMap'[s] = "funded"
  BY MapsAt DEF FundsSubJob, PhaseOf
<1>2. /\ PriceMap'[p] = PriceMap[p] /\ StakeMap'[p] = StakeMap[p]
      /\ PriceMap'[s] > 0 /\ StakeMap'[s] = 0
      /\ PriceMap'[s] <= HeldMap[p]
      /\ HeldMap'[p] = HeldMap[p] - PriceMap'[s]
      /\ HeldMap'[s] = HeldMap[s] + PriceMap'[s]
  <2>1. /\ lamports[p] >= JobRent + job'[s].reward
        /\ lamports'[p] = lamports[p] - job'[s].reward
        /\ lamports'[s] = lamports[s] + RentDue(JobRent, lamports[s]) + job'[s].reward
        /\ job'[s].reward > 0 /\ job'[s].claimer_stake = 0
        /\ job'[p].reward = job[p].reward
        /\ job'[p].claimer_stake = job[p].claimer_stake
    BY DEF FundsSubJob, KeepsTerms
  <2>2. HeldMap'[s] = HeldMap[s] + job'[s].reward
    BY <2>1, MapsAt DEF RentDue
  <2>3. QED BY <2>1, <2>2, MapsAt
<1>3. \A k \in Jobs \ {p, s} : Same(k)
  BY MapsStay DEF FundsSubJob
<1>4. /\ p # s
      /\ PhaseMap' = [PhaseMap EXCEPT ![s] = "funded"]
  BY <1>1, <1>3, MapsAreFunctions DEF Same
<1>5. PriceMap' = [PriceMap EXCEPT ![s] = PriceMap'[s]]
  BY <1>2, <1>3, MapsAreFunctions DEF Same
<1>6. StakeMap' = [StakeMap EXCEPT ![s] = 0]
  BY <1>2, <1>3, MapsAreFunctions DEF Same
<1>7. HeldMap' = [HeldMap EXCEPT ![p] = @ - PriceMap'[s], ![s] = @ + PriceMap'[s]]
  BY <1>2, <1>3, <1>4, MapsAreFunctions DEF Same
<1>8. Contract!Subcontract(p, s)
  BY <1>1, <1>2, <1>4, <1>5, <1>6, <1>7
  DEF Contract!Subcontract, Contract!Move, PhaseMap, PriceMap, StakeMap, HeldMap
<1>9. QED BY <1>8 DEF Contract!ContractNext

LEMMA InitIsContract == Init => Contract!ContractInit
BY AmountAssumption DEF Init, Absent, PhaseOf, Available, Contract!ContractInit

LEMMA StepIsContract ==
  ASSUME IInv, IInv', JobStep \/ UNCHANGED vars
  PROVE  [Contract!ContractNext]_mapVars
<1>1. CASE Tick \/ UNCHANGED vars
  BY <1>1, NothingMoves, MapsStay DEF Tick, vars, Stays, KeepsTerms
<1>2. ASSUME NEW j \in Jobs, PosterStep(j) \/ ClaimerStep(j) \/ OtherStep(j)
      PROVE  [Contract!ContractNext]_mapVars
  BY <1>2, PosterStepLawful, ClaimerStepLawful, OtherStepLawful,
     OneLawfulIsContract, SubJobIsContract, RefundIntoIsContract
<1>3. ASSUME NEW j \in Jobs, ExpireElsewhere(j)
      PROVE  [Contract!ContractNext]_mapVars
  BY <1>3, ExpireElsewhereLawful, OneLawfulIsContract
<1>4. QED BY <1>1, <1>2, <1>3 DEF Next, JobStep

(* The job program implements the escrow contract, for any number of jobs  *)
(* and whatever account expire_claim refunds: money leaves an account only *)
(* in the step that decides its job or funds a sub-job, and to the lamport;*)
(* a decided job never pays again, only submitted work is paid for, and    *)
(* the one thing a step does to another job's money is to add to it.       *)
THEOREM JobsAreContracts == Spec => ImplementsContract
<1>1. IInv /\ IInv' /\ [Next]_vars => [Contract!ContractNext]_mapVars
  BY StepIsContract DEF JobStep
<1>2. QED
  BY <1>1, InitIsContract, Invariance, PTL
  DEF Spec, ImplementsContract, Contract!ContractSpec, mapVars, PhaseMap, PriceMap,
      StakeMap, HeldMap

=============================================================================
