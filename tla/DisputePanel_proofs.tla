------------------------- MODULE DisputePanel_proofs -------------------------
(***************************************************************************)
(* Proofs about DisputePanel, for all values of its constants.  Of the job *)
(* instructions they use the type, and what one may do to an account that  *)
(* a dispute looks at (Follows); that jobs stay sound under verdicts is a  *)
(* theorem of its own.                                                     *)
(***************************************************************************)
EXTENDS DisputePanel, JobContract_proofs

-----------------------------------------------------------------------------
(* What a job instruction may make of an account a with m lamports: b with *)
(* n.  Rent stays covered; a terminal account is left alone, except that a *)
(* claim that lapses elsewhere may leave its refund there; and after       *)
(* submission the terms a dispute was opened on stay as they are.          *)
Settling == {"SUBMITTED", "DONE", "FAILED"}

Grounds(a) == <<a.reward, a.claimer, a.submitted_at, a.dispute_window_end>>

Follows(a, m, b, n) ==
  /\ (a.status # "NONE" => JobRent <= m) => (b.status # "NONE" => JobRent <= n)
  /\ a.status \in {"DONE", "FAILED"} => b = a /\ (n = m \/ (ClaimLapses /\ n > m))
  /\ a.status \in Settling => b.status \in Settling /\ Grounds(b) = Grounds(a)
  /\ a.submitted_at <= now => b.submitted_at <= now

AllFollow == \A k \in Jobs : Follows(job[k], lamports[k], job'[k], lamports'[k])

LEMMA OneFollows ==
  ASSUME TypeOK, NEW j \in Jobs, NEW a, NEW m,
         job'      = [job EXCEPT ![j] = a],
         lamports' = [lamports EXCEPT ![j] = m],
         Follows(job[j], lamports[j], a, m)
  PROVE  AllFollow
<1> SUFFICES ASSUME NEW k \in Jobs
             PROVE  Follows(job[k], lamports[k], job'[k], lamports'[k])
  BY DEF AllFollow
<1>1. CASE k = j
  BY <1>1 DEF TypeOK
<1>2. CASE k # j
  BY <1>2 DEF TypeOK, Follows
<1>3. QED BY <1>1, <1>2

(* A payout never reaches the rent, so neither settlement nor expiry does. *)
LEMMA DebitFollows ==
  ASSUME TypeOK, NEW j \in Jobs, NEW amount \in Nat, NEW st \in {"DONE", "FAILED"},
         job[j].status \notin {"NONE", "DONE", "FAILED"},
         lamports' = [lamports EXCEPT ![j] = @ - Lesser(amount, Available(j))],
         job' = [job EXCEPT ![j].status = st]
  PROVE  AllFollow
<1> DEFINE a == [job[j] EXCEPT !.status = st]
           m == lamports[j] - Lesser(amount, Available(j))
<1>1. job[j] \in JobAccount /\ lamports[j] \in Nat /\ JobRent \in Nat
  BY AmountAssumption DEF TypeOK
<1>2. JobRent <= lamports[j] => JobRent <= m
  BY <1>1 DEF Lesser, Available
<1>3. Grounds(a) = Grounds(job[j]) /\ a.status = st
  BY <1>1 DEF Grounds, JobAccount
<1>4. Follows(job[j], lamports[j], a, m)
  <2>1. a.submitted_at = job[j].submitted_at
    BY <1>1 DEF JobAccount
  <2> HIDE DEF a, m
  <2>2. QED BY <2>1, <1>2, <1>3 DEF Follows, Settling
<1>5. /\ job' = [job EXCEPT ![j] = a]
      /\ lamports' = [lamports EXCEPT ![j] = m]
  BY DEF TypeOK
<1> HIDE DEF a, m
<1>6. QED BY <1>4, <1>5, OneFollows

LEMMA PayOutFollows ==
  ASSUME TypeOK, NEW j \in Jobs, NEW to, NEW amount \in Nat, NEW st \in {"DONE", "FAILED"},
         job[j].status \notin {"NONE", "DONE", "FAILED"},
         PayOut(j, to, amount), job' = [job EXCEPT ![j].status = st]
  PROVE  AllFollow
BY DebitFollows DEF PayOut

LEMMA PayClaimerFollows ==
  ASSUME TypeOK, NEW j \in Jobs, job[j].status = "SUBMITTED", PayClaimer(j)
  PROVE  AllFollow
<1>1. /\ PayOut(j, job[j].claimer, job[j].reward + job[j].claimer_stake)
      /\ job[j].reward + job[j].claimer_stake \in Nat
      /\ job' = [job EXCEPT ![j].status = "DONE"]
  BY DEF PayClaimer, TypeOK, JobAccount
<1>2. QED BY <1>1, PayOutFollows

LEMMA PosterStepFollows ==
  ASSUME TypeOK, NEW j \in Jobs, PosterStep(j) PROVE AllFollow
<1>1. ASSUME NEW reward \in Rewards, NEW deadline \in Deadlines,
             NEW mode \in {0, 1}, NEW level \in Levels,
             InitializeJob(j, reward, deadline, mode, level)
      PROVE  AllFollow
  <2> DEFINE a == NewJob(reward, deadline, mode, level)
             m == lamports[j] + (RentDue(JobRent, lamports[j]) + reward)
  <2>1. Follows(job[j], lamports[j], a, m)
    BY <1>1, AmountAssumption
    DEF InitializeJob, Exists, NewJob, Absent, RentDue, Follows, Settling, TypeOK
  <2>2. /\ job' = [job EXCEPT ![j] = a]
        /\ lamports' = [lamports EXCEPT ![j] = m]
    BY <1>1 DEF InitializeJob, TypeOK
  <2> HIDE DEF a, m
  <2>3. QED BY <2>1, <2>2, OneFollows
<1>2. ASSUME NEW agent \in Users \cup {NoOne}, AutoAssignJob(j, agent) PROVE AllFollow
  <2> DEFINE a == [job[j] EXCEPT !.claimer = agent, !.status = "CLAIMED"]
  <2>1. Follows(job[j], lamports[j], a, lamports[j])
    BY <1>2 DEF AutoAssignJob, Follows, Settling, TypeOK, JobAccount
  <2>2. /\ job' = [job EXCEPT ![j] = a]
        /\ lamports' = [lamports EXCEPT ![j] = lamports[j]]
    BY <1>2 DEF AutoAssignJob, TypeOK
  <2> HIDE DEF a
  <2>3. QED BY <2>1, <2>2, OneFollows
<1>3. ASSUME NEW deadline \in Deadlines, ExtendDeadline(j, deadline) PROVE AllFollow
  <2> DEFINE a == [job[j] EXCEPT !.deadline = deadline]
  <2>1. Follows(job[j], lamports[j], a, lamports[j])
    BY <1>3 DEF ExtendDeadline, Follows, Settling, TypeOK, JobAccount
  <2>2. /\ job' = [job EXCEPT ![j] = a]
        /\ lamports' = [lamports EXCEPT ![j] = lamports[j]]
    BY <1>3 DEF ExtendDeadline, TypeOK
  <2> HIDE DEF a
  <2>3. QED BY <2>1, <2>2, OneFollows
<1>4. CASE DelegateJob(j)
  BY <1>4 DEF DelegateJob, AllFollow, Follows
<1>5. CASE ExpireUnclaimed(j)
  <2>1. job[j].reward \in Nat
    BY DEF TypeOK, JobAccount
  <2>2. QED BY <1>5, <2>1, PayOutFollows DEF ExpireUnclaimed
<1>6. ASSUME NEW verdict \in 0..2, SettleJob(j, verdict) PROVE AllFollow
  <2>1. job[j].reward \in Nat
    BY DEF TypeOK, JobAccount
  <2>2. QED BY <1>6, <2>1, PayOutFollows, PayClaimerFollows DEF SettleJob
<1>7. QED BY <1>1, <1>2, <1>3, <1>4, <1>5, <1>6 DEF PosterStep

(* A parent keeps its rent when it funds a child, and has not submitted.   *)
LEMMA CreateSubJobFollows ==
  ASSUME TypeOK, NEW p \in Jobs, NEW s \in Jobs, NEW agent \in Users \cup {NoOne},
         NEW reward \in Rewards, NEW deadline \in Deadlines,
         CreateSubJob(p, s, agent, reward, deadline)
  PROVE  AllFollow
<1> DEFINE a == [job[p] EXCEPT !.sub_job_count = @ + 1]
           c == [NewJob(reward, deadline, 1, job[p].verification_level)
                   EXCEPT !.claimer = agent, !.parent_job = p]
           m == lamports[s] + RentDue(JobRent, lamports[s]) + reward
<1>1. p # s
  BY DEF CreateSubJob, EscrowCovers, Exists
<1>2. Follows(job[p], lamports[p], a, lamports[p] - reward)
  BY AmountAssumption
  DEF CreateSubJob, EscrowCovers, Available, Follows, Settling, TypeOK, JobAccount
<1>3. Follows(job[s], lamports[s], c, m)
  BY AmountAssumption
  DEF CreateSubJob, Exists, NewJob, Absent, RentDue, Follows, Settling, TypeOK
<1>4. /\ job' = [[job EXCEPT ![p] = a] EXCEPT ![s] = c]
      /\ lamports' = [[lamports EXCEPT ![p] = @ - reward] EXCEPT ![s] = m]
  BY <1>1 DEF CreateSubJob, AddSubJob, FundSubJob, TypeOK
<1>5. ASSUME NEW k \in Jobs
      PROVE  Follows(job[k], lamports[k], job'[k], lamports'[k])
  <2> HIDE DEF a, c, m
  <2>1. CASE k = s
    BY <2>1, <1>1, <1>3, <1>4 DEF TypeOK
  <2>2. CASE k = p
    BY <2>2, <1>1, <1>2, <1>4 DEF TypeOK
  <2>3. CASE k # s /\ k # p
    BY <2>3, <1>4 DEF TypeOK, Follows
  <2>4. QED BY <2>1, <2>2, <2>3
<1>6. QED BY <1>5 DEF AllFollow

LEMMA ClaimerStepFollows ==
  ASSUME TypeOK, NEW j \in Jobs, ClaimerStep(j) PROVE AllFollow
<1>1. CASE LockStake(j)
  <2> DEFINE a == [job[j] EXCEPT !.status = "STAKED"]
  <2>1. Follows(job[j], lamports[j], a, lamports[j] + job[j].claimer_stake)
    BY <1>1, AmountAssumption DEF LockStake, Follows, Settling, TypeOK, JobAccount
  <2>2. /\ job' = [job EXCEPT ![j] = a]
        /\ lamports' = [lamports EXCEPT ![j] = lamports[j] + job[j].claimer_stake]
    BY <1>1 DEF LockStake, TypeOK
  <2> HIDE DEF a
  <2>3. QED BY <2>1, <2>2, OneFollows
<1>2. ASSUME NEW s \in Jobs, NEW agent \in Users \cup {NoOne}, NEW reward \in Rewards,
             NEW deadline \in Deadlines,
             CreateSubJob(j, s, agent, reward, deadline)
      PROVE  AllFollow
  BY <1>2, CreateSubJobFollows
<1>3. ASSUME NEW h, NEW w, Submit(j, h, w) PROVE AllFollow
  <2> DEFINE a == [job[j] EXCEPT !.proof_hash = h, !.submitted_at = now,
                                 !.dispute_window_end = w, !.status = "SUBMITTED"]
  <2>1. Follows(job[j], lamports[j], a, lamports[j])
    BY <1>3 DEF Submit, Follows, Settling, TypeOK, JobAccount
  <2>2. /\ job' = [job EXCEPT ![j] = a]
        /\ lamports' = [lamports EXCEPT ![j] = lamports[j]]
    BY <1>3 DEF Submit, TypeOK
  <2> HIDE DEF a
  <2>3. QED BY <2>1, <2>2, OneFollows
<1>4. ASSUME NEW h \in {0, 1},
             SubmitProof(j, h) \/ SubmitEncryptedProof(j, h) \/ SubmitVerifiedProof(j, h)
      PROVE  AllFollow
  BY <1>3, <1>4 DEF SubmitProof, SubmitEncryptedProof, SubmitVerifiedProof
<1>5. CASE AutoSettle(j) \/ ClaimTimeout(j)
  BY <1>5, PayClaimerFollows DEF AutoSettle, ClaimTimeout
<1>6. QED BY <1>1, <1>2, <1>4, <1>5 DEF ClaimerStep

(* The refund of a lapsed claim, wherever it goes.                         *)
LEMMA ExpireClaimFollows ==
  ASSUME TypeOK, NEW j \in Jobs, NEW account \in Users \cup Jobs,
         ExpireClaim(j, account)
  PROVE  AllFollow
<1>1. /\ job[j].status \in {"CLAIMED", "STAKED"}
      /\ job' = [job EXCEPT ![j].status = "FAILED"]
      /\ job[j].reward \in Nat /\ JobRent \in Nat
  BY AmountAssumption DEF ExpireClaim, MarkExpired, ClaimExpired, TypeOK, JobAccount
<1>2. CASE account \in Users /\ PayOut(j, account, job[j].reward)
  BY <1>1, <1>2, PayOutFollows
<1>3. CASE /\ account \in Jobs
           /\ lamports' = [[lamports EXCEPT ![j] = @ - Refund(j)]
                              EXCEPT ![account] = @ + Refund(j)]
  <2> DEFINE a == [job[j] EXCEPT !.status = "FAILED"]
  <2>1. ClaimLapses
    <3>1. job'[j].status = "FAILED"
      BY <1>1 DEF TypeOK, JobAccount
    <3>2. QED BY <1>1, <3>1 DEF ClaimLapses
  <2>2. /\ Refund(j) \in Nat /\ lamports[j] \in Nat
        /\ Refund(j) <= lamports[j]
        /\ JobRent <= lamports[j] => JobRent <= lamports[j] - Refund(j)
    BY <1>1 DEF Refund, Lesser, Available, TypeOK
  <2>3. /\ a.status = "FAILED" /\ Grounds(a) = Grounds(job[j])
        /\ a.submitted_at = job[j].submitted_at
        /\ job'[j] = a /\ \A k \in Jobs \ {j} : job'[k] = job[k]
    BY <1>1 DEF Grounds, TypeOK, JobAccount
  <2> HIDE DEF a
  <2>4. ASSUME NEW k \in Jobs, k # j
        PROVE  Follows(job[k], lamports[k], job'[k], lamports'[k])
    <3>1. /\ lamports[k] \in Nat
          /\ \/ lamports'[k] = lamports[k]
             \/ lamports'[k] = lamports[k] + Refund(j)
      BY <1>3, <2>4 DEF TypeOK
    <3>2. job'[k] = job[k]
      BY <2>3, <2>4
    <3>3. lamports'[k] = lamports[k] \/ lamports'[k] > lamports[k]
      BY <2>2, <3>1
    <3>4. JobRent <= lamports[k] => JobRent <= lamports'[k]
      BY <1>1, <2>2, <3>1
    <3>5. QED BY <2>1, <3>2, <3>3, <3>4 DEF Follows
  <2>5. Follows(job[j], lamports[j], job'[j], lamports'[j])
    <3>1. \/ lamports'[j] = lamports[j] - Refund(j)
          \/ lamports'[j] = lamports[j] - Refund(j) + Refund(j)
      BY <1>3 DEF TypeOK
    <3>2. QED BY <1>1, <2>2, <2>3, <3>1 DEF Follows, Settling
  <2>6. QED BY <2>4, <2>5 DEF AllFollow
<1>4. QED BY <1>2, <1>3 DEF ExpireClaim

LEMMA OtherStepFollows ==
  ASSUME TypeOK, NEW j \in Jobs, OtherStep(j) PROVE AllFollow
<1>1. ASSUME NEW bidder \in Users, NEW stake \in Stakes, PlaceBid(j, bidder, stake)
      PROVE  AllFollow
  <2> DEFINE a == [job[j] EXCEPT
                  !.status         = "BIDDING",
                  !.bid_count      = @ + 1,
                  !.best_bid_stake = IF stake > job[j].best_bid_stake THEN stake ELSE @,
                  !.best_bidder    = IF stake > job[j].best_bid_stake THEN bidder ELSE @]
  <2>1. Follows(job[j], lamports[j], a, lamports[j])
    BY <1>1 DEF PlaceBid, Follows, Settling, TypeOK, JobAccount
  <2>2. /\ job' = [job EXCEPT ![j] = a]
        /\ lamports' = [lamports EXCEPT ![j] = lamports[j]]
    BY <1>1 DEF PlaceBid, TypeOK
  <2> HIDE DEF a
  <2>3. QED BY <2>1, <2>2, OneFollows
<1>2. ASSUME NEW r \in Reports, VerifyBidAttestation(j, r) PROVE AllFollow
  <2> DEFINE a == [job[j] EXCEPT !.tee_verified = TRUE]
  <2>1. Follows(job[j], lamports[j], a, lamports[j])
    BY <1>2 DEF VerifyBidAttestation, Follows, Settling, TypeOK, JobAccount
  <2>2. /\ job' = [job EXCEPT ![j] = a]
        /\ lamports' = [lamports EXCEPT ![j] = lamports[j]]
    BY <1>2 DEF VerifyBidAttestation, TypeOK
  <2> HIDE DEF a
  <2>3. QED BY <2>1, <2>2, OneFollows
<1>3. CASE CloseBidding(j)
  <2> DEFINE a == [job[j] EXCEPT !.claimer = job[j].best_bidder,
                                 !.claimer_stake = job[j].best_bid_stake,
                                 !.status = "CLAIMED"]
  <2>1. Follows(job[j], lamports[j], a, lamports[j])
    BY <1>3 DEF CloseBidding, Follows, Settling, TypeOK, JobAccount
  <2>2. /\ job' = [job EXCEPT ![j] = a]
        /\ lamports' = [lamports EXCEPT ![j] = lamports[j]]
    BY <1>3 DEF CloseBidding, TypeOK
  <2> HIDE DEF a
  <2>3. QED BY <2>1, <2>2, OneFollows
<1>4. CASE Undelegate(j)
  BY <1>4 DEF Undelegate, AllFollow, Follows
<1>5. ASSUME NEW account \in Users \cup Jobs, ExpireClaim(j, account) PROVE AllFollow
  BY <1>5, ExpireClaimFollows
<1>6. QED BY <1>1, <1>2, <1>3, <1>4, <1>5 DEF OtherStep

LEMMA ExpireElsewhereFollows ==
  ASSUME TypeOK, NEW j \in Jobs, ExpireElsewhere(j) PROVE AllFollow
<1>1. /\ job[j].status \in {"CLAIMED", "STAKED"} /\ job[j].reward \in Nat
      /\ job' = [job EXCEPT ![j].status = "FAILED"]
      /\ lamports' = [lamports EXCEPT ![j] = @ - Lesser(job[j].reward, Available(j))]
  BY DEF ExpireElsewhere, MarkExpired, ClaimExpired, Refund, TypeOK, JobAccount
<1>2. QED BY <1>1, DebitFollows

LEMMA NextFollows == ASSUME TypeOK, JobStep PROVE AllFollow
<1>1. CASE Tick
  BY <1>1 DEF Tick, AllFollow, Follows
<1>2. ASSUME NEW j \in Jobs, PosterStep(j) \/ ClaimerStep(j) \/ OtherStep(j)
      PROVE  AllFollow
  BY <1>2, PosterStepFollows, ClaimerStepFollows, OtherStepFollows
<1>3. ASSUME NEW j \in Jobs, ExpireElsewhere(j) PROVE AllFollow
  BY <1>3, ExpireElsewhereFollows
<1>4. QED BY <1>1, <1>2, <1>3 DEF Next, JobStep

(* What the job instructions do among the disputes: they read none, and    *)
(* all they can do to a dispute account is to leave it a refund.           *)
JobMove ==
  /\ JobStep
  /\ UNCHANGED <<dispute, vote>>
  /\ \A d \in Disputes : vault'[d] >= vault[d]

LEMMA JobMoveCases ==
  ASSUME PanelTypeOK,
         \/ Next /\ UNCHANGED disputeVars
         \/ \E j \in Jobs, d \in Disputes : ExpireClaimIntoVault(j, d)
  PROVE  JobMove
<1>1. CASE Next /\ UNCHANGED disputeVars
  BY <1>1 DEF JobMove, JobStep, disputeVars, PanelTypeOK
<1>2. ASSUME NEW j \in Jobs, NEW d \in Disputes, ExpireClaimIntoVault(j, d)
      PROVE  JobMove
  <2>1. Refund(j) \in Nat
    BY RefundType DEF PanelTypeOK
  <2>2. QED BY <1>2, <2>1 DEF JobMove, JobStep, ExpireClaimIntoVault, PanelTypeOK
<1>3. QED BY <1>1, <1>2

LEMMA JobMoveType ==
  ASSUME PanelTypeOK,
         \/ Next /\ UNCHANGED disputeVars
         \/ \E j \in Jobs, d \in Disputes : ExpireClaimIntoVault(j, d)
  PROVE  PanelTypeOK'
<1>1. JobStep /\ UNCHANGED <<dispute, vote>>
  BY JobMoveCases DEF JobMove
<1>2. TypeOK'
  BY <1>1, NextType DEF PanelTypeOK
<1>3. vault' \in [Disputes -> Nat]
  BY RefundType DEF disputeVars, ExpireClaimIntoVault, PanelTypeOK
<1>4. QED BY <1>1, <1>2, <1>3 DEF PanelTypeOK

-----------------------------------------------------------------------------
(* What the four dispute handlers come down to: whoever decides, and on    *)
(* whichever votes, a verdict is one of two payouts of an open dispute.    *)
LEMMA DisputeStepCases ==
  ASSUME NEW d \in Disputes, DisputeStep(d)
  PROVE  \/ \E challenger \in Users : OpenDispute(d, challenger)
         \/ \E verifier \in Verifiers, verdict \in 0..2 : CastVote(d, verifier, verdict)
         \/ Decidable(d) /\ AgentWins(d)
         \/ Decidable(d) /\ ChallengerWins(d)
BY DEF DisputeStep, TallyPanel, ResolveDispute

LEMMA DisputeFacts ==
  ASSUME PanelTypeOK, NEW d \in Disputes
  PROVE  /\ JobOf(d) \in Jobs
         /\ job[JobOf(d)] \in JobAccount
         /\ lamports[JobOf(d)] \in Nat
         /\ Available(JobOf(d)) \in Nat
         /\ dispute[d] \in DisputeRecord
         /\ vault[d] \in Nat
         /\ DisputeStake(JobOf(d)) \in Nat
         /\ StakeBack(d) \in Nat
         /\ StakeBack(d) <= vault[d]
         /\ JobRent \in Nat /\ DisputeRent \in Nat /\ VoteRent \in Nat
<1>1. JobOf(d) \in Jobs
  BY PanelAssumption DEF JobOf
<1>2. /\ job[JobOf(d)] \in JobAccount
      /\ lamports[JobOf(d)] \in Nat
      /\ dispute[d] \in DisputeRecord
      /\ vault[d] \in Nat
      /\ JobRent \in Nat /\ DisputeRent \in Nat /\ VoteRent \in Nat
  BY <1>1, AmountAssumption, PanelAssumption DEF PanelTypeOK, TypeOK
<1>3. Available(JobOf(d)) \in Nat
  BY <1>2 DEF Available
<1>4. DisputeStake(JobOf(d)) \in Nat
  BY <1>2 DEF DisputeStake, JobAccount
<1>5. StakeBack(d) \in Nat /\ StakeBack(d) <= vault[d]
  BY <1>2 DEF StakeBack, Lesser, DisputeRecord
<1>6. QED BY <1>1, <1>2, <1>3, <1>4, <1>5

LEMMA DisputeStepType ==
  ASSUME PanelTypeOK, NEW d \in Disputes, DisputeStep(d) PROVE PanelTypeOK'
<1>1. ASSUME NEW challenger \in Users, OpenDispute(d, challenger) PROVE PanelTypeOK'
  <2>1. dispute' \in [Disputes -> DisputeRecord]
    BY <1>1, DisputeFacts
    DEF OpenDispute, PanelTypeOK, TypeOK, DisputeRecord, DisputeStatus
  <2> DEFINE cost == RentDue(DisputeRent, vault[d]) + DisputeStake(JobOf(d))
  <2>2. vault' \in [Disputes -> Nat] /\ wallet' \in [Users -> Nat]
    <3>1. cost \in Nat
      <4>1. RentDue(DisputeRent, vault[d]) \in Nat
        BY DisputeFacts, RentDueType
      <4>2. QED BY <4>1, DisputeFacts
    <3>2. /\ vault' = [vault EXCEPT ![d] = @ + cost]
          /\ wallet' = [wallet EXCEPT ![challenger] = @ - cost]
          /\ wallet[challenger] >= cost
      BY <1>1 DEF OpenDispute
    <3> HIDE DEF cost
    <3>3. QED BY <3>1, <3>2 DEF PanelTypeOK, TypeOK
  <2>3. QED BY <1>1, <2>1, <2>2 DEF OpenDispute, PanelTypeOK, TypeOK
<1>2. ASSUME NEW verifier \in Verifiers, NEW verdict \in 0..2,
             CastVote(d, verifier, verdict)
      PROVE  PanelTypeOK'
  <2>1. vote' \in [Disputes -> [Verifiers -> 0..2]]
    BY <1>2 DEF CastVote, PanelTypeOK
  <2>2. wallet' \in [Users -> Nat]
    BY <1>2, PanelAssumption DEF CastVote, PanelTypeOK, TypeOK
  <2>3. QED BY <1>2, <2>1, <2>2 DEF CastVote, PanelTypeOK, TypeOK
<1>3. CASE AgentWins(d)
  <2>1. dispute' \in [Disputes -> DisputeRecord]
    BY <1>3 DEF AgentWins, PanelTypeOK, DisputeRecord, DisputeStatus
  <2>2. vault' \in [Disputes -> Nat] /\ lamports' \in [Jobs -> Nat]
    BY <1>3, DisputeFacts DEF AgentWins, PanelTypeOK, TypeOK
  <2>3. QED BY <1>3, <2>1, <2>2 DEF AgentWins, PanelTypeOK, TypeOK
<1>4. CASE ChallengerWins(d)
  <2> DEFINE penalty == Lesser(job[JobOf(d)].claimer_stake, Available(JobOf(d)))
  <2>1. dispute' \in [Disputes -> DisputeRecord]
    BY <1>4 DEF ChallengerWins, PanelTypeOK, DisputeRecord, DisputeStatus
  <2>2. penalty \in Nat /\ penalty <= lamports[JobOf(d)]
    BY DisputeFacts DEF Lesser, Available, JobAccount
  <2>3. vault' \in [Disputes -> Nat] /\ lamports' \in [Jobs -> Nat]
    BY <1>4, <2>2, DisputeFacts DEF ChallengerWins, PanelTypeOK, TypeOK
  <2>4. wallet' \in [Users -> Nat]
    <3> DEFINE to == dispute[d].challenger
               back == StakeBack(d)
    <3>1. wallet' = [wallet EXCEPT ![to] = @ + back + penalty]
      BY <1>4 DEF ChallengerWins
    <3>2. back \in Nat
      BY DisputeFacts
    <3>3. wallet \in [Users -> Nat]
      BY DEF PanelTypeOK, TypeOK
    <3> HIDE DEF penalty, to, back
    <3>4. ASSUME NEW u \in Users PROVE wallet[u] + back + penalty \in Nat
      BY <3>2, <3>3, <2>2
    <3>5. QED BY <3>1, <3>3, <3>4
  <2>5. job' \in [Jobs -> JobAccount]
    BY <1>4, DisputeFacts, SetStatusType DEF ChallengerWins, PanelTypeOK, Status
  <2>6. QED BY <1>4, <2>1, <2>3, <2>4, <2>5 DEF ChallengerWins, PanelTypeOK, TypeOK
<1>5. QED BY <1>1, <1>2, <1>3, <1>4, DisputeStepCases

(* Type correctness with disputes: stakes, penalties and vote rents never  *)
(* underflow a vault, a job account or a wallet (dispute.rs).              *)
THEOREM PanelTypeCorrect == PanelSpec => []PanelTypeOK
<1>1. PanelInit => PanelTypeOK
  BY FundsAssumption
  DEF PanelInit, PanelTypeOK, NoDispute, DisputeRecord, DisputeStatus,
      Init, TypeOK, JobAccount, Absent, Status
<1>2. PanelTypeOK /\ [PanelNext]_allVars => PanelTypeOK'
  <2> SUFFICES ASSUME PanelTypeOK, [PanelNext]_allVars PROVE PanelTypeOK'
    OBVIOUS
  <2>1. CASE \/ Next /\ UNCHANGED disputeVars
             \/ \E j \in Jobs, d \in Disputes : ExpireClaimIntoVault(j, d)
    BY <2>1, JobMoveType
  <2>2. ASSUME NEW d \in Disputes, DisputeStep(d) PROVE PanelTypeOK'
    BY <2>2, DisputeStepType
  <2>3. CASE UNCHANGED allVars
    BY <2>3 DEF allVars, PanelTypeOK, TypeOK
  <2>4. QED BY <2>1, <2>2, <2>3 DEF PanelNext
<1>3. QED BY <1>1, <1>2, PTL DEF PanelSpec

-----------------------------------------------------------------------------
(***************************************************************************)
(* The safety of disputes.  Stakes, rent, and what a verdict found are one *)
(* invariant: that submitted_at lies in the past makes a dispute founded.  *)
(***************************************************************************)
SubmittedInPast == \A j \in Jobs : job[j].submitted_at <= now

PanelSafe == /\ VaultSolvent
             /\ RentHeld
             /\ SubmittedInPast
             /\ DisputeFounded
             /\ LostMeansFailed

PanelInv == PanelTypeOK /\ PanelSafe

(* Job instructions, which read no dispute.                                *)
LEMMA JobMoveSafe ==
  ASSUME PanelInv, PanelTypeOK', JobMove PROVE PanelSafe'
<1> USE DEF JobMove
<1>1. AllFollow /\ now <= now'
  BY NextFollows, ClockForward DEF PanelInv, PanelTypeOK
<1>2. VaultSolvent'
  <2> SUFFICES ASSUME NEW d \in Disputes
               PROVE  /\ dispute[d].status = "OPEN" =>
                           vault'[d] >= DisputeRent + dispute[d].challenger_stake
                      /\ dispute[d].status # "NONE" => vault'[d] >= DisputeRent
    BY DEF VaultSolvent
  <2>1. /\ vault[d] \in Nat /\ vault'[d] \in Nat /\ vault'[d] >= vault[d]
        /\ DisputeRent \in Nat /\ dispute[d].challenger_stake \in Nat
    BY DisputeFacts DEF PanelInv, PanelTypeOK, DisputeRecord
  <2>2. QED BY <2>1 DEF PanelInv, PanelSafe, VaultSolvent
<1>3. RentHeld'
  BY <1>1 DEF PanelInv, PanelSafe, RentHeld, Exists, AllFollow, Follows
<1>4. SubmittedInPast'
  <2> SUFFICES ASSUME NEW j \in Jobs PROVE job'[j].submitted_at <= now'
    BY DEF SubmittedInPast
  <2>1. job'[j].submitted_at <= now
    BY <1>1 DEF PanelInv, PanelSafe, SubmittedInPast, AllFollow, Follows
  <2>2. job'[j].submitted_at \in Nat /\ now \in Nat /\ now' \in Nat
    BY DEF PanelInv, PanelTypeOK, TypeOK, JobAccount
  <2>3. QED BY <1>1, <2>1, <2>2
<1>5. ASSUME NEW d \in Disputes, dispute[d].status # "NONE"
      PROVE  /\ JobOf(d) \in Jobs
             /\ job'[JobOf(d)].status \in Settling
             /\ Grounds(job'[JobOf(d)]) = Grounds(job[JobOf(d)])
  <2>1. JobOf(d) \in Jobs /\ job[JobOf(d)].status \in Settling
    BY <1>5, DisputeFacts DEF PanelInv, PanelSafe, DisputeFounded, Settling
  <2>2. QED BY <1>1, <2>1 DEF AllFollow, Follows
<1>6. DisputeFounded'
  BY <1>5 DEF PanelInv, PanelSafe, DisputeFounded, Settling, Grounds
<1>7. LostMeansFailed'
  <2> SUFFICES ASSUME NEW d \in Disputes, dispute[d].status = "CHALLENGER_WINS"
               PROVE  job'[JobOf(d)].status = "FAILED"
    BY DEF LostMeansFailed
  <2>1. JobOf(d) \in Jobs /\ job[JobOf(d)].status = "FAILED"
    BY DisputeFacts DEF PanelInv, PanelSafe, LostMeansFailed
  <2>2. QED BY <1>1, <2>1 DEF AllFollow, Follows
<1>8. QED BY <1>2, <1>3, <1>4, <1>6, <1>7 DEF PanelSafe

LEMMA OpenDisputeSafe ==
  ASSUME PanelInv, NEW d \in Disputes, NEW challenger \in Users,
         OpenDispute(d, challenger)
  PROVE  PanelSafe'
<1> DEFINE r == [status |-> "OPEN", challenger |-> challenger,
                 challenger_stake |-> DisputeStake(JobOf(d)), opened_at |-> now]
           m == vault[d] + (RentDue(DisputeRent, vault[d]) + DisputeStake(JobOf(d)))
<1>1. /\ dispute' = [dispute EXCEPT ![d] = r]
      /\ vault' = [vault EXCEPT ![d] = m]
      /\ UNCHANGED <<job, lamports, now>>
  BY DEF OpenDispute, PanelInv, PanelTypeOK
<1>2. VaultSolvent'
  <2>1. m >= DisputeRent + DisputeStake(JobOf(d)) /\ m >= DisputeRent
    BY DisputeFacts DEF PanelInv, RentDue
  <2>2. r.status = "OPEN" /\ r.challenger_stake = DisputeStake(JobOf(d))
    OBVIOUS
  <2> HIDE DEF m, r
  <2>3. QED BY <1>1, <2>1, <2>2 DEF PanelInv, PanelTypeOK, PanelSafe, VaultSolvent
<1>3. RentHeld' /\ SubmittedInPast'
  BY <1>1 DEF PanelInv, PanelSafe, RentHeld, Exists, SubmittedInPast
<1>4. /\ job[JobOf(d)].status = "SUBMITTED"
      /\ job[JobOf(d)].submitted_at <= now
      /\ now < job[JobOf(d)].dispute_window_end
      /\ challenger # job[JobOf(d)].claimer
  BY DisputeFacts DEF OpenDispute, WindowOpen, PanelInv, PanelSafe, SubmittedInPast
<1>5. DisputeFounded'
  BY <1>1, <1>4 DEF PanelInv, PanelTypeOK, PanelSafe, DisputeFounded, DisputeStake
<1>6. LostMeansFailed'
  BY <1>1 DEF PanelInv, PanelTypeOK, PanelSafe, LostMeansFailed
<1>7. QED BY <1>2, <1>3, <1>5, <1>6 DEF PanelSafe

LEMMA CastVoteSafe ==
  ASSUME PanelInv, NEW d \in Disputes, NEW verifier, NEW verdict,
         CastVote(d, verifier, verdict)
  PROVE  PanelSafe'
BY DEF PanelInv, PanelSafe, VaultSolvent, RentHeld, Exists, SubmittedInPast,
       DisputeFounded, LostMeansFailed, CastVote

(* An open vault pays the challenger's stake, whole, and keeps its rent.   *)
LEMMA StakeBackExact ==
  ASSUME PanelInv, NEW d \in Disputes, dispute[d].status = "OPEN"
  PROVE  /\ StakeBack(d) = dispute[d].challenger_stake
         /\ vault[d] - StakeBack(d) >= DisputeRent
         /\ StakeBack(d) \in Nat /\ vault[d] \in Nat /\ DisputeRent \in Nat
<1>1. vault[d] >= DisputeRent + dispute[d].challenger_stake
  BY DEF PanelInv, PanelSafe, VaultSolvent
<1>2. DisputeRent \in Nat /\ dispute[d].challenger_stake \in Nat
  BY DisputeFacts DEF PanelInv, DisputeRecord
<1>3. QED BY <1>1, <1>2, DisputeFacts DEF StakeBack, Lesser, PanelInv

LEMMA AgentWinsSafe ==
  ASSUME PanelInv, NEW d \in Disputes, Decidable(d), AgentWins(d) PROVE PanelSafe'
<1> DEFINE m == vault[d] - StakeBack(d)
<1>1. /\ dispute' = [dispute EXCEPT ![d].status = "AGENT_WINS"]
      /\ vault' = [vault EXCEPT ![d] = m]
      /\ m >= DisputeRent
      /\ UNCHANGED <<job, now>>
  BY StakeBackExact DEF AgentWins, Decidable, PanelInv, PanelTypeOK
<1> HIDE DEF m
<1>2. VaultSolvent'
  BY <1>1 DEF PanelInv, PanelTypeOK, PanelSafe, VaultSolvent, DisputeRecord
<1>3. RentHeld'
  <2>1. ASSUME NEW j \in Jobs PROVE lamports[j] <= lamports'[j]
    BY DisputeFacts DEF AgentWins, PanelInv, PanelTypeOK, TypeOK
  <2>2. ASSUME NEW j \in Jobs, Exists(j) PROVE JobRent <= lamports'[j]
    <3>1. /\ JobRent <= lamports[j]
          /\ lamports[j] \in Nat /\ JobRent \in Nat
      BY <2>2, AmountAssumption DEF PanelInv, PanelTypeOK, PanelSafe, RentHeld, TypeOK
    <3>2. lamports'[j] \in Nat
      BY DisputeFacts DEF AgentWins, PanelInv, PanelTypeOK, TypeOK
    <3>3. QED BY <2>1, <3>1, <3>2
  <2>3. QED BY <1>1, <2>2 DEF RentHeld, Exists
<1>4. SubmittedInPast'
  BY <1>1 DEF PanelInv, PanelSafe, SubmittedInPast
<1>5. DisputeFounded'
  BY <1>1 DEF PanelInv, PanelTypeOK, PanelSafe, DisputeFounded, DisputeRecord, Decidable
<1>6. LostMeansFailed'
  BY <1>1 DEF PanelInv, PanelTypeOK, PanelSafe, LostMeansFailed, DisputeRecord
<1>7. QED BY <1>2, <1>3, <1>4, <1>5, <1>6 DEF PanelSafe

LEMMA ChallengerWinsSafe ==
  ASSUME PanelInv, NEW d \in Disputes, Decidable(d), ChallengerWins(d) PROVE PanelSafe'
<1> DEFINE j == JobOf(d)
           penalty == Lesser(job[j].claimer_stake, Available(j))
           a == [job[j] EXCEPT !.status = "FAILED"]
           m == vault[d] - StakeBack(d)
<1>1. /\ dispute' = [dispute EXCEPT ![d].status = "CHALLENGER_WINS"]
      /\ vault' = [vault EXCEPT ![d] = m]
      /\ m >= DisputeRent
      /\ job' = [job EXCEPT ![j] = a]
      /\ lamports' = [lamports EXCEPT ![j] = @ - penalty]
      /\ UNCHANGED now
  BY StakeBackExact DEF ChallengerWins, Decidable, PanelInv, PanelTypeOK
<1> HIDE DEF m
<1>2. j \in Jobs /\ Grounds(a) = Grounds(job[j]) /\ a.status = "FAILED"
  BY DisputeFacts DEF PanelInv, Grounds, JobAccount
<1>3. VaultSolvent'
  BY <1>1 DEF PanelInv, PanelTypeOK, PanelSafe, VaultSolvent, DisputeRecord
<1>4. RentHeld'
  <2>1. JobRent <= lamports[j]
    BY <1>2 DEF Decidable, PanelInv, PanelSafe, RentHeld
  <2>2. JobRent <= lamports[j] - penalty
    BY <2>1, DisputeFacts DEF PanelInv, Lesser, Available, JobAccount
  <2> HIDE DEF a, penalty, j
  <2>3. QED
    BY <1>1, <2>2 DEF PanelInv, PanelTypeOK, TypeOK, PanelSafe, RentHeld, Exists
<1>5. SubmittedInPast'
  <2>1. a.submitted_at = job[j].submitted_at
    BY <1>2 DEF Grounds
  <2> HIDE DEF a, penalty, j
  <2>2. QED
    BY <1>1, <1>2, <2>1 DEF PanelInv, PanelTypeOK, TypeOK, PanelSafe, SubmittedInPast
<1>6. DisputeFounded'
  <2> HIDE DEF a, penalty
  <2> SUFFICES ASSUME NEW e \in Disputes, dispute'[e].status # "NONE"
               PROVE  /\ job'[JobOf(e)].status \in Settling
                      /\ job'[JobOf(e)].submitted_at <= dispute'[e].opened_at
                      /\ dispute'[e].opened_at < job'[JobOf(e)].dispute_window_end
                      /\ dispute'[e].challenger # job'[JobOf(e)].claimer
                      /\ dispute'[e].challenger_stake = job'[JobOf(e)].reward \div 10
    BY DEF DisputeFounded, Settling
  <2>1. /\ dispute[e].status # "NONE"
        /\ dispute'[e].opened_at = dispute[e].opened_at
        /\ dispute'[e].challenger = dispute[e].challenger
        /\ dispute'[e].challenger_stake = dispute[e].challenger_stake
    BY <1>1 DEF PanelInv, PanelTypeOK, DisputeRecord, Decidable
  <2>2. /\ job[JobOf(e)].status \in Settling
        /\ job[JobOf(e)].submitted_at <= dispute[e].opened_at
        /\ dispute[e].opened_at < job[JobOf(e)].dispute_window_end
        /\ dispute[e].challenger # job[JobOf(e)].claimer
        /\ dispute[e].challenger_stake = job[JobOf(e)].reward \div 10
    BY <2>1 DEF PanelInv, PanelSafe, DisputeFounded, Settling
  <2>3. /\ Grounds(job'[JobOf(e)]) = Grounds(job[JobOf(e)])
        /\ job'[JobOf(e)].status \in Settling
    <3>1. JobOf(e) \in Jobs
      BY DisputeFacts DEF PanelInv
    <3> HIDE DEF j
    <3>2. QED BY <1>1, <1>2, <2>2, <3>1 DEF PanelInv, PanelTypeOK, TypeOK, Settling
  <2>4. QED BY <2>1, <2>2, <2>3 DEF Grounds
<1>7. LostMeansFailed'
  <2> SUFFICES ASSUME NEW e \in Disputes, dispute'[e].status = "CHALLENGER_WINS"
               PROVE  job'[JobOf(e)].status = "FAILED"
    BY DEF LostMeansFailed
  <2>1. JobOf(e) \in Jobs
    BY DisputeFacts DEF PanelInv
  <2>2. e # d => job[JobOf(e)].status = "FAILED"
    BY <1>1 DEF PanelInv, PanelTypeOK, PanelSafe, LostMeansFailed
  <2>3. e = d => JobOf(e) = j
    OBVIOUS
  <2> HIDE DEF a, penalty, j
  <2>4. QED BY <1>1, <1>2, <2>1, <2>2, <2>3 DEF PanelInv, PanelTypeOK, TypeOK
<1>8. QED BY <1>3, <1>4, <1>5, <1>6, <1>7 DEF PanelSafe

(* PanelInv is an inductive invariant.                                     *)
THEOREM PanelInvariance == PanelSpec => []PanelInv
<1>1. PanelInit => PanelSafe
  BY DEF PanelInit, PanelSafe, VaultSolvent, RentHeld, SubmittedInPast,
         DisputeFounded, LostMeansFailed, NoDispute, Init, Exists, Absent,
         JobOf
<1>2. PanelInv /\ PanelTypeOK' /\ [PanelNext]_allVars => PanelSafe'
  <2> SUFFICES ASSUME PanelInv, PanelTypeOK', [PanelNext]_allVars PROVE PanelSafe'
    OBVIOUS
  <2>1. CASE \/ Next /\ UNCHANGED disputeVars
             \/ \E j \in Jobs, d \in Disputes : ExpireClaimIntoVault(j, d)
    BY <2>1, JobMoveCases, JobMoveSafe DEF PanelInv
  <2>2. ASSUME NEW d \in Disputes, DisputeStep(d) PROVE PanelSafe'
    BY <2>2, DisputeStepCases, OpenDisputeSafe, CastVoteSafe, AgentWinsSafe,
       ChallengerWinsSafe
  <2>3. CASE UNCHANGED allVars
    BY <2>3 DEF allVars, PanelInv, PanelSafe, VaultSolvent, RentHeld, Exists,
                SubmittedInPast, DisputeFounded, LostMeansFailed
  <2>4. QED BY <2>1, <2>2, <2>3 DEF PanelNext
<1>3. QED BY <1>1, <1>2, PanelTypeCorrect, PTL DEF PanelSpec, PanelInv

(* Stakes are covered: whatever the interleaving of votes, tallies, the    *)
(* poster's verdict and refunds credited from outside, an open dispute     *)
(* holds its challenger's stake above its rent and a decided one its rent  *)
(* (resolve_dispute, tally_panel).                                         *)
THEOREM VaultsSolvent == PanelSpec => []VaultSolvent
<1>1. PanelInv => VaultSolvent
  BY DEF PanelInv, PanelSafe
<1>2. QED BY <1>1, PanelInvariance, PTL

(* No verdict, however late and however many fall on one job, takes a job  *)
(* account below its rent.                                                 *)
THEOREM RentIsHeld == PanelSpec => []RentHeld
<1>1. PanelInv => RentHeld
  BY DEF PanelInv, PanelSafe
<1>2. QED BY <1>1, PanelInvariance, PTL

(* A verdict harms no job: one for the agent adds to the account, one for  *)
(* the challenger leaves a failed job its rent.                            *)
LEMMA VerdictSound ==
  ASSUME IInv, PanelInv, TypeOK', NEW d \in Disputes, Decidable(d),
         AgentWins(d) \/ ChallengerWins(d)
  PROVE  IInv'
<1> DEFINE j == JobOf(d)
<1>1. /\ j \in Jobs /\ job[j] \in JobAccount /\ lamports[j] \in Nat
      /\ StakeBack(d) \in Nat
  BY DisputeFacts DEF PanelInv
<1>2. Sound(job[j], lamports[j], site[j]) /\ lamports[j] >= JobRent
  BY <1>1, SoundAt DEF Decidable, PanelInv, PanelSafe, RentHeld
<1> HIDE DEF j
<1>3. CASE AgentWins(d)
  <2> DEFINE m == lamports[j] + StakeBack(d)
  <2>1. /\ job' = [job EXCEPT ![j] = job[j]]
        /\ lamports' = [lamports EXCEPT ![j] = m]
        /\ site' = [site EXCEPT ![j] = site[j]]
    BY <1>1, <1>3 DEF AgentWins, j, PanelInv, PanelTypeOK, TypeOK
  <2>2. Sound(job[j], m, site[j])
    BY <1>1, <1>2, MoreIsSound
  <2> HIDE DEF m
  <2>3. QED BY <1>1, <2>1, <2>2, OneJob
<1>4. CASE ChallengerWins(d)
  <2> DEFINE a == [job[j] EXCEPT !.status = "FAILED"]
             m == lamports[j] - Lesser(job[j].claimer_stake, Available(j))
  <2>1. /\ job' = [job EXCEPT ![j] = a]
        /\ lamports' = [lamports EXCEPT ![j] = m]
        /\ site' = [site EXCEPT ![j] = site[j]]
    BY <1>1, <1>4 DEF ChallengerWins, j, PanelInv, PanelTypeOK, TypeOK
  <2>2. Sound(a, m, site[j])
    <3>1. a.status = "FAILED"
      BY <1>1 DEF JobAccount
    <3>2. m >= JobRent
      BY <1>1, <1>2, AmountAssumption DEF Lesser, Available, JobAccount
    <3> HIDE DEF a, m
    <3>3. QED BY <3>1, <3>2 DEF Sound, Balanced, Provenance
  <2> HIDE DEF a, m
  <2>3. QED BY <1>1, <2>1, <2>2, OneJob
<1>5. QED BY <1>3, <1>4

(* The job program keeps its own promises under disputes: verdicts that    *)
(* fall on jobs at any time, two of them on one job too, leave every       *)
(* account covering what its status says it owes.                          *)
THEOREM JobsStaySoundUnderVerdicts == PanelSpec => [](EscrowBalance /\ ClaimProvenance)
<1>1. PanelInit => IInv
  BY FundsAssumption
  DEF PanelInit, Init, IInv, TypeOK, EscrowBalance, ClaimProvenance, Balanced,
      Provenance, Absent, JobAccount, Status
<1>2. IInv /\ PanelInv /\ PanelInv' /\ [PanelNext]_allVars => IInv'
  <2> SUFFICES ASSUME IInv, PanelInv, PanelInv', [PanelNext]_allVars PROVE IInv'
    OBVIOUS
  <2>1. TypeOK'
    BY DEF PanelInv, PanelTypeOK
  <2>2. CASE \/ Next /\ UNCHANGED disputeVars
             \/ \E j \in Jobs, d \in Disputes : ExpireClaimIntoVault(j, d)
    BY <2>1, <2>2, StepSound DEF JobStep, ExpireClaimIntoVault
  <2>3. ASSUME NEW d \in Disputes, DisputeStep(d) PROVE IInv'
    <3>1. CASE UNCHANGED <<job, lamports, site>>
      BY <2>1, <3>1 DEF IInv, EscrowBalance, ClaimProvenance
    <3>2. QED
      BY <2>1, <2>3, <3>1, DisputeStepCases, VerdictSound DEF OpenDispute, CastVote
  <2>4. CASE UNCHANGED allVars
    BY <2>1, <2>4 DEF allVars, IInv, EscrowBalance, ClaimProvenance
  <2>5. QED BY <2>2, <2>3, <2>4 DEF PanelNext
<1>3. IInv => EscrowBalance /\ ClaimProvenance
  BY DEF IInv
<1>4. QED BY <1>1, <1>2, <1>3, PanelInvariance, PTL DEF PanelSpec

(* Every dispute was raised in the window of submitted work by somebody    *)
(* other than its claimer, for a tenth of the reward, and the job instructions *)
(* that go on beside it never change what it was raised about.             *)
THEOREM DisputesAreFounded == PanelSpec => []DisputeFounded
<1>1. PanelInv => DisputeFounded
  BY DEF PanelInv, PanelSafe
<1>2. QED BY <1>1, PanelInvariance, PTL

(* A job that lost a dispute stays failed (resolve_dispute, tally_panel    *)
(* against auto_settle, settle_job and claim_timeout).                     *)
THEOREM LostJobsFailed == PanelSpec => []LostMeansFailed
<1>1. PanelInv => LostMeansFailed
  BY DEF PanelInv, PanelSafe
<1>2. QED BY <1>1, PanelInvariance, PTL

-----------------------------------------------------------------------------
(* An account leaves L1 only while its job is OPEN, or in the rollup.      *)
LEMMA SettlingStaysOnL1 ==
  ASSUME TypeOK, JobStep, NEW k \in Jobs, job[k].status \in Settling, OnL1(k)
  PROVE  OnL1(k)'
<1>1. CASE Tick
  BY <1>1 DEF Tick, OnL1
<1>2. ASSUME NEW j \in Jobs, PosterStep(j) PROVE OnL1(k)'
  <2>1. CASE DelegateJob(j)
    BY <2>1 DEF DelegateJob, OnL1, Settling, TypeOK
  <2>2. CASE UNCHANGED site
    BY <2>2 DEF OnL1
  <2>3. DelegateJob(j) \/ UNCHANGED site
    BY <1>2
    DEF PosterStep, InitializeJob, AutoAssignJob, ExtendDeadline, ExpireUnclaimed,
        SettleJob, PayClaimer
  <2>4. QED BY <2>1, <2>2, <2>3
<1>3. ASSUME NEW j \in Jobs, ClaimerStep(j) PROVE OnL1(k)'
  BY <1>3
  DEF ClaimerStep, LockStake, CreateSubJob, SubmitProof, SubmitEncryptedProof,
      SubmitVerifiedProof, Submit, AutoSettle, ClaimTimeout, PayClaimer, PayOut, OnL1
<1>4. ASSUME NEW j \in Jobs, OtherStep(j) PROVE OnL1(k)'
  <2>1. CASE CloseBidding(j)
    BY <2>1 DEF CloseBidding, OnL1, Settling, TypeOK
  <2>2. CASE Undelegate(j)
    BY <2>2 DEF Undelegate, OnL1, TypeOK
  <2>3. CASE UNCHANGED site
    BY <2>3 DEF OnL1
  <2>4. CloseBidding(j) \/ Undelegate(j) \/ UNCHANGED site
    BY <1>4 DEF OtherStep, PlaceBid, VerifyBidAttestation, ExpireClaim, MarkExpired
  <2>5. QED BY <2>1, <2>2, <2>3, <2>4
<1>5. ASSUME NEW j \in Jobs, ExpireElsewhere(j) PROVE OnL1(k)'
  BY <1>5 DEF ExpireElsewhere, MarkExpired, OnL1
<1>6. QED BY <1>1, <1>2, <1>3, <1>4, <1>5 DEF Next, JobStep

OpenOnL1 == \A d \in Disputes : dispute[d].status = "OPEN" => OnL1(JobOf(d))

LEMMA PanelStepOnL1 ==
  ASSUME PanelInv, OpenOnL1, [PanelNext]_allVars PROVE OpenOnL1'
<1>1. CASE \/ Next /\ UNCHANGED disputeVars
           \/ \E j \in Jobs, d \in Disputes : ExpireClaimIntoVault(j, d)
  <2>0. JobMove
    BY <1>1, JobMoveCases DEF PanelInv
  <2> SUFFICES ASSUME NEW d \in Disputes, dispute[d].status = "OPEN"
               PROVE  OnL1(JobOf(d))'
    BY <2>0 DEF OpenOnL1, JobMove
  <2>1. /\ JobOf(d) \in Jobs
        /\ job[JobOf(d)].status \in Settling
        /\ OnL1(JobOf(d))
    BY DisputeFacts DEF PanelInv, PanelSafe, DisputeFounded, Settling, OpenOnL1
  <2>2. QED BY <2>0, <2>1, SettlingStaysOnL1 DEF JobMove, PanelInv, PanelTypeOK, OnL1
<1>2. ASSUME NEW d \in Disputes, DisputeStep(d) PROVE OpenOnL1'
  <2>1. ASSUME NEW challenger \in Users, OpenDispute(d, challenger) PROVE OpenOnL1'
    BY <2>1 DEF OpenDispute, OpenOnL1, OnL1, PanelInv, PanelTypeOK
  <2>2. ASSUME NEW verifier \in Verifiers, NEW verdict \in 0..2,
               CastVote(d, verifier, verdict)
        PROVE  OpenOnL1'
    BY <2>2 DEF CastVote, OpenOnL1, OnL1
  <2>3. CASE AgentWins(d)
    BY <2>3 DEF AgentWins, OpenOnL1, OnL1, PanelInv, PanelTypeOK
  <2>4. CASE ChallengerWins(d)
    BY <2>4 DEF ChallengerWins, OpenOnL1, OnL1, PanelInv, PanelTypeOK
  <2>5. QED BY <1>2, <2>1, <2>2, <2>3, <2>4, DisputeStepCases
<1>3. CASE UNCHANGED allVars
  BY <1>3 DEF allVars, OpenOnL1, OnL1
<1>4. QED BY <1>1, <1>2, <1>3 DEF PanelNext

(* An open dispute can always be decided: the job it was raised on keeps   *)
(* existing and never goes back to the rollup, so that the conditions of   *)
(* resolve_dispute hold until there is a verdict.  They are all that       *)
(* ENABLED ResolveDispute asks for, the rest of it assigns values.         *)
THEOREM OpenStaysDecidable ==
  PanelSpec => [](\A d \in Disputes : dispute[d].status = "OPEN" => Decidable(d))
<1>1. PanelInit => OpenOnL1
  BY DEF PanelInit, OpenOnL1, NoDispute
<1>2. PanelInv /\ OpenOnL1 =>
        \A d \in Disputes : dispute[d].status = "OPEN" => Decidable(d)
  BY DEF PanelInv, PanelSafe, DisputeFounded, OpenOnL1, Decidable, Exists
<1>3. QED BY <1>1, <1>2, PanelStepOnL1, PanelInvariance, PTL DEF PanelSpec

(* A thread of a job that was handed in, whose window ran out undisputed.  *)
Undisputable(d) ==
  /\ dispute[d].status = "NONE"
  /\ job[JobOf(d)].status \in Settling
  /\ job[JobOf(d)].dispute_window_end <= now

(* auto_settle waits for the end of the window.                            *)
LEMMA AutoSettleIsLate ==
  ASSUME PanelTypeOK, NEW d \in Disputes, AutoSettle(JobOf(d))
  PROVE  dispute[d].status # "NONE" \/ Undisputable(d)
<1>1. JobOf(d) \in Jobs /\ job[JobOf(d)] \in JobAccount /\ now \in Nat
  BY DisputeFacts DEF PanelTypeOK, TypeOK
<1>2. QED BY <1>1 DEF AutoSettle, Undisputable, Settling, JobAccount

LEMMA StaysUndisputable ==
  ASSUME PanelTypeOK, [PanelNext]_allVars, NEW d \in Disputes, Undisputable(d)
  PROVE  Undisputable(d)'
<1> DEFINE j == JobOf(d)
<1>1. j \in Jobs /\ job[j] \in JobAccount /\ now \in Nat
  BY DisputeFacts DEF PanelTypeOK, TypeOK
<1>2. CASE \/ Next /\ UNCHANGED disputeVars
           \/ \E i \in Jobs, e \in Disputes : ExpireClaimIntoVault(i, e)
  <2>0. JobStep /\ UNCHANGED dispute
    BY <1>2, JobMoveCases DEF JobMove
  <2>1. /\ job'[j].status \in Settling
        /\ job'[j].dispute_window_end = job[j].dispute_window_end
    BY <1>1, <2>0, NextFollows
    DEF PanelTypeOK, AllFollow, Follows, Grounds, Undisputable
  <2>2. now' \in Nat /\ now <= now'
    BY <2>0, ClockForward, NextType DEF PanelTypeOK, TypeOK
  <2>3. QED BY <1>1, <2>0, <2>1, <2>2 DEF Undisputable, JobAccount
<1>3. ASSUME NEW e \in Disputes, DisputeStep(e) PROVE Undisputable(d)'
  <2>1. ASSUME NEW challenger \in Users, OpenDispute(e, challenger)
        PROVE  Undisputable(d)'
    <3>1. e # d
      BY <1>1, <2>1 DEF OpenDispute, WindowOpen, Undisputable, JobAccount
    <3>2. QED BY <2>1, <3>1 DEF OpenDispute, Undisputable, PanelTypeOK
  <2>2. ASSUME NEW verifier \in Verifiers, NEW verdict \in 0..2,
               CastVote(e, verifier, verdict)
        PROVE  Undisputable(d)'
    BY <2>2 DEF CastVote, Undisputable
  <2>3. CASE Decidable(e) /\ AgentWins(e)
    BY <2>3 DEF Decidable, AgentWins, Undisputable, PanelTypeOK
  <2>4. CASE Decidable(e) /\ ChallengerWins(e)
    <3>1. e # d
      BY <2>4 DEF Decidable, Undisputable
    <3>2. job'[j].status \in Settling
          /\ job'[j].dispute_window_end = job[j].dispute_window_end
      BY <1>1, <2>4 DEF ChallengerWins, Undisputable, Settling, PanelTypeOK, TypeOK, JobAccount
    <3>3. QED BY <2>4, <3>1, <3>2 DEF ChallengerWins, Undisputable, PanelTypeOK
  <2>5. QED BY <1>3, <2>1, <2>2, <2>3, <2>4, DisputeStepCases
<1>4. CASE UNCHANGED allVars
  BY <1>4 DEF allVars, Undisputable
<1>5. QED BY <1>2, <1>3, <1>4 DEF PanelNext

(* A window that ran out undisputed stays shut: no job instruction and no  *)
(* verdict on another thread reopens it, so that a job paid by auto_settle *)
(* without a dispute is never disputed afterwards (open_dispute against    *)
(* auto_settle).                                                           *)
THEOREM ShutWindowsStayShut ==
  ASSUME NEW d \in Disputes
  PROVE  PanelSpec => /\ [](Undisputable(d) => []Undisputable(d))
                      /\ [][AutoSettle(JobOf(d)) =>
                              dispute[d].status # "NONE" \/ Undisputable(d)]_allVars
<1>1. PanelTypeOK /\ [PanelNext]_allVars /\ Undisputable(d) => Undisputable(d)'
  BY StaysUndisputable
<1>2. PanelTypeOK /\ AutoSettle(JobOf(d)) =>
        dispute[d].status # "NONE" \/ Undisputable(d)
  BY AutoSettleIsLate
<1>3. QED BY <1>1, <1>2, PanelTypeCorrect, PTL DEF PanelSpec

(* A verdict is final: no handler reopens a decided dispute or records a   *)
(* vote on it.                                                             *)
THEOREM VerdictsAreFinal == PanelSpec => VerdictFinal
<1> DEFINE Kept == \A d \in Disputes :
                     dispute[d].status \in {"AGENT_WINS", "CHALLENGER_WINS"} =>
                       dispute'[d] = dispute[d] /\ vote'[d] = vote[d]
<1>1. PanelTypeOK /\ [PanelNext]_allVars => Kept \/ UNCHANGED allVars
  <2> SUFFICES ASSUME PanelTypeOK, PanelNext PROVE Kept
    OBVIOUS
  <2>1. CASE \/ Next /\ UNCHANGED disputeVars
             \/ \E j \in Jobs, d \in Disputes : ExpireClaimIntoVault(j, d)
    BY <2>1, JobMoveCases DEF JobMove
  <2>2. ASSUME NEW e \in Disputes, DisputeStep(e) PROVE Kept
    <3>1. CASE \E challenger \in Users : OpenDispute(e, challenger)
      BY <3>1 DEF OpenDispute, PanelTypeOK
    <3>2. CASE \E verifier \in Verifiers, verdict \in 0..2 : CastVote(e, verifier, verdict)
      BY <3>2 DEF CastVote, PanelTypeOK
    <3>3. CASE Decidable(e) /\ AgentWins(e)
      BY <3>3 DEF Decidable, AgentWins, PanelTypeOK
    <3>4. CASE Decidable(e) /\ ChallengerWins(e)
      BY <3>4 DEF Decidable, ChallengerWins, PanelTypeOK
    <3>5. QED BY <2>2, <3>1, <3>2, <3>3, <3>4, DisputeStepCases
  <2>3. QED BY <2>1, <2>2 DEF PanelNext
<1>2. QED BY <1>1, PanelTypeCorrect, PTL DEF PanelSpec, VerdictFinal

(* After settlement a job is revised, and lamports taken from it, only by  *)
(* the verdict of a dispute of that job, and then its terms stay.  A claim *)
(* that lapses elsewhere may leave its refund there; nothing else any job  *)
(* instruction does reaches it (job.rs, settlement.rs against dispute.rs). *)
THEOREM OnlyVerdictsRevise == PanelSpec => RevisedOnlyByVerdict
<1> DEFINE Revised(j) ==
      \/ /\ VerdictOn(j)
         /\ job'[j] \in {job[j], [job[j] EXCEPT !.status = "FAILED"]}
      \/ /\ ClaimLapses
         /\ job'[j] = job[j]
         /\ lamports'[j] > lamports[j]
    Kept == \A j \in Jobs :
      Terminal(j) /\ <<job'[j], lamports'[j]>> # <<job[j], lamports[j]>> => Revised(j)
<1>1. PanelTypeOK /\ [PanelNext]_allVars => Kept \/ UNCHANGED allVars
  <2> SUFFICES ASSUME PanelTypeOK, PanelNext, NEW j \in Jobs, Terminal(j),
                      <<job'[j], lamports'[j]>> # <<job[j], lamports[j]>>
               PROVE  Revised(j)
    OBVIOUS
  <2>1. CASE \/ Next /\ UNCHANGED disputeVars
             \/ \E k \in Jobs, d \in Disputes : ExpireClaimIntoVault(k, d)
    <3>1. AllFollow
      BY <2>1, JobMoveCases, NextFollows DEF JobMove, PanelTypeOK
    <3>2. QED BY <3>1 DEF AllFollow, Follows, Terminal
  <2>2. ASSUME NEW e \in Disputes, DisputeStep(e) PROVE Revised(j)
    <3>1. CASE \E challenger \in Users : OpenDispute(e, challenger)
      BY <3>1 DEF OpenDispute
    <3>2. CASE \E verifier \in Verifiers, verdict \in 0..2 : CastVote(e, verifier, verdict)
      BY <3>2 DEF CastVote
    <3>3. CASE Decidable(e) /\ AgentWins(e)
      <4>1. JobOf(e) = j /\ job'[j] = job[j]
        BY <3>3 DEF AgentWins, PanelTypeOK, TypeOK
      <4>2. dispute[e].status = "OPEN" /\ dispute'[e].status # "OPEN"
        BY <3>3 DEF Decidable, AgentWins, PanelTypeOK, DisputeRecord
      <4>3. QED BY <4>1, <4>2 DEF VerdictOn
    <3>4. CASE Decidable(e) /\ ChallengerWins(e)
      <4>1. JobOf(e) = j /\ job'[j] = [job[j] EXCEPT !.status = "FAILED"]
        BY <3>4 DEF ChallengerWins, PanelTypeOK, TypeOK
      <4>2. dispute[e].status = "OPEN" /\ dispute'[e].status # "OPEN"
        BY <3>4 DEF Decidable, ChallengerWins, PanelTypeOK, DisputeRecord
      <4>3. QED BY <4>1, <4>2 DEF VerdictOn
    <3>5. QED BY <2>2, <3>1, <3>2, <3>3, <3>4, DisputeStepCases
  <2>3. QED BY <2>1, <2>2 DEF PanelNext
<1>2. QED BY <1>1, PanelTypeCorrect, PTL DEF PanelSpec, RevisedOnlyByVerdict

-----------------------------------------------------------------------------
(***************************************************************************)
(* The panel implements Arbitration.  A step is seen through six maps; a   *)
(* job instruction is a Trade, by its course, its terms and what it leaves *)
(* of terminal accounts, and the dispute handlers are the other steps.     *)
(***************************************************************************)
RulingMap == [d \in Disputes |-> RulingOf(dispute[d].status)]
PledgeMap == [d \in Disputes |->
                IF dispute[d].status = "OPEN" THEN dispute[d].challenger_stake ELSE 0]
ChestMap  == [d \in Disputes |->
                IF vault[d] >= DisputeRent THEN vault[d] - DisputeRent ELSE 0]

panelMaps == <<PhaseMap, HeldMap, StakeMap, RulingMap, PledgeMap, ChestMap>>

LEMMA PanelMapsAreFunctions ==
  /\ RulingMap = [e \in Disputes |-> RulingMap[e]]
  /\ RulingMap' = [e \in Disputes |-> RulingMap'[e]]
  /\ PledgeMap = [e \in Disputes |-> PledgeMap[e]]
  /\ PledgeMap' = [e \in Disputes |-> PledgeMap'[e]]
  /\ ChestMap = [e \in Disputes |-> ChestMap[e]]
  /\ ChestMap' = [e \in Disputes |-> ChestMap'[e]]
BY DEF RulingMap, PledgeMap, ChestMap

LEMMA TradeAt ==
  ASSUME PanelInv, PanelTypeOK', JobStep, NEW k \in Jobs
  PROVE  /\ PhaseMap'[k] \in DOMAIN Arbitrated!Successors
         /\ PhaseMap'[k] \in Arbitrated!Successors[PhaseMap[k]]
         /\ HeldMap'[k] \in Nat
         /\ StakeMap'[k] \in Nat
         /\ PhaseMap[k] \notin {"absent", "funded"} => StakeMap'[k] = StakeMap[k]
         /\ PhaseMap[k] \in {"released", "refunded"} => HeldMap'[k] >= HeldMap[k]
<1>1. /\ PhaseMap[k] = PhaseOf(job[k].status)
      /\ PhaseMap'[k] = PhaseOf(job'[k].status)
  BY Zenon DEF PhaseMap
<1>2. /\ Course(job[k], job'[k])
      /\ Evolves(k, job[k], job'[k])
      /\ Follows(job[k], lamports[k], job'[k], lamports'[k])
  BY NextCourse, NextEvolves, NextFollows
  DEF PanelInv, PanelTypeOK, AllCourse, AllEvolve, AllFollow
<1>3. job[k].status \in Status /\ job'[k].status \in Status
  BY DEF PanelInv, PanelTypeOK, TypeOK, JobAccount
<1>4. /\ PhaseMap'[k] \in DOMAIN Arbitrated!Successors
      /\ PhaseMap'[k] \in Arbitrated!Successors[PhaseMap[k]]
  BY <1>1, <1>2, <1>3 DEF Course, Status, PhaseOf, Arbitrated!Successors
<1>5. HeldMap'[k] \in Nat /\ StakeMap'[k] \in Nat
  BY AmountAssumption
  DEF HeldMap, StakeMap, Available, PanelTypeOK, TypeOK, JobAccount
<1>6. PhaseMap[k] \notin {"absent", "funded"} => StakeMap'[k] = StakeMap[k]
  BY <1>1, <1>2, <1>3 DEF PhaseOf, Status, Evolves, Unclaimed, Terms, StakeMap
<1>7. PhaseMap[k] \in {"released", "refunded"} => HeldMap'[k] >= HeldMap[k]
  <2>1. PhaseMap[k] \in {"released", "refunded"} => lamports'[k] >= lamports[k]
    <3>1. lamports[k] \in Nat /\ lamports'[k] \in Nat
      BY DEF PanelInv, PanelTypeOK, TypeOK
    <3>2. QED BY <1>1, <1>2, <1>3, <3>1 DEF PhaseOf, Status, Follows
  <2>2. /\ HeldMap[k] = IF lamports[k] >= JobRent THEN lamports[k] - JobRent ELSE 0
        /\ HeldMap'[k] = IF lamports'[k] >= JobRent THEN lamports'[k] - JobRent ELSE 0
        /\ lamports[k] \in Nat /\ lamports'[k] \in Nat /\ JobRent \in Nat
    BY AmountAssumption DEF HeldMap, Available, PanelInv, PanelTypeOK, TypeOK
  <2>3. QED BY <2>1, <2>2
<1>8. QED BY <1>4, <1>5, <1>6, <1>7

LEMMA JobMoveIsTrade ==
  ASSUME PanelInv, PanelTypeOK', JobMove
  PROVE  Arbitrated!Trade
<1> USE DEF JobMove
<1>1. /\ PhaseMap' \in [Jobs -> DOMAIN Arbitrated!Successors]
      /\ HeldMap' \in [Jobs -> Nat]
      /\ StakeMap' \in [Jobs -> Nat]
  BY TradeAt DEF PhaseMap, HeldMap, StakeMap
<1>2. UNCHANGED <<RulingMap, PledgeMap>>
  BY DEF RulingMap, PledgeMap
<1>3. ASSUME NEW d \in Disputes
      PROVE  ChestMap'[d] \in Nat /\ ChestMap'[d] >= ChestMap[d]
  BY PanelAssumption DEF ChestMap, PanelInv, PanelTypeOK
<1>4. ChestMap' \in [Disputes -> Nat]
  BY <1>3 DEF ChestMap
<1>5. QED
  BY <1>1, <1>2, <1>3, <1>4, TradeAt
  DEF Arbitrated!Trade, PhaseMap, HeldMap, StakeMap, RulingMap, PledgeMap, ChestMap

(* What the maps make of one dispute account.                              *)
PledgeOf(a) == IF a.status = "OPEN" THEN a.challenger_stake ELSE 0

LEMMA OneDispute ==
  ASSUME PanelTypeOK, NEW d \in Disputes, NEW a, NEW m \in Nat, m >= DisputeRent,
         dispute' = [dispute EXCEPT ![d] = a], vault' = [vault EXCEPT ![d] = m]
  PROVE  /\ RulingMap' = [RulingMap EXCEPT ![d] = RulingOf(a.status)]
         /\ PledgeMap' = [PledgeMap EXCEPT ![d] = PledgeOf(a)]
         /\ ChestMap' = [ChestMap EXCEPT ![d] = m - DisputeRent]
<1>1. dispute'[d] = a /\ vault'[d] = m
  BY DEF PanelTypeOK
<1>2. ASSUME NEW e \in Disputes \ {d}
      PROVE  dispute'[e] = dispute[e] /\ vault'[e] = vault[e]
  BY DEF PanelTypeOK
<1>3. RulingMap' = [RulingMap EXCEPT ![d] = RulingOf(a.status)]
  <2>1. \A e \in Disputes : /\ RulingMap[e] = RulingOf(dispute[e].status)
                            /\ RulingMap'[e] = RulingOf(dispute'[e].status)
    BY Zenon DEF RulingMap
  <2>2. RulingMap'[d] = RulingOf(a.status)
    BY <1>1, <2>1, Zenon
  <2>3. ASSUME NEW e \in Disputes \ {d} PROVE RulingMap'[e] = RulingMap[e]
    <3>1. e \in Disputes /\ dispute'[e] = dispute[e]
      BY <1>2
    <3>2. QED BY <2>1, <3>1, Zenon
  <2>4. QED BY <2>2, <2>3, PanelMapsAreFunctions
<1>4. PledgeMap' = [PledgeMap EXCEPT ![d] = PledgeOf(a)]
  <2>1. /\ PledgeMap'[d] = PledgeOf(a)
        /\ \A e \in Disputes \ {d} : PledgeMap'[e] = PledgeMap[e]
    BY <1>1, <1>2 DEF PledgeMap, PledgeOf
  <2>2. QED BY <2>1, PanelMapsAreFunctions
<1>5. ChestMap' = [ChestMap EXCEPT ![d] = m - DisputeRent]
  <2>1. /\ ChestMap'[d] = m - DisputeRent
        /\ \A e \in Disputes \ {d} : ChestMap'[e] = ChestMap[e]
    BY <1>1, <1>2 DEF ChestMap
  <2>2. QED BY <2>1, PanelMapsAreFunctions
<1>6. QED BY <1>3, <1>4, <1>5

(* And of the job account a verdict pays to or takes from.                 *)
LEMMA OneJobAccount ==
  ASSUME PanelTypeOK, NEW j \in Jobs, NEW m \in Nat, JobRent <= m,
         lamports' = [lamports EXCEPT ![j] = m]
  PROVE  HeldMap' = [HeldMap EXCEPT ![j] = m - JobRent]
<1>1. lamports'[j] = m /\ \A k \in Jobs \ {j} : lamports'[k] = lamports[k]
  BY DEF PanelTypeOK, TypeOK
<1>2. HeldMap'[j] = m - JobRent
  BY <1>1 DEF HeldMap, Available
<1>3. ASSUME NEW k \in Jobs \ {j} PROVE HeldMap'[k] = HeldMap[k]
  BY <1>1, <1>3 DEF HeldMap, Available
<1>4. QED BY <1>2, <1>3, MapsAreFunctions

LEMMA RulingFacts ==
  ASSUME PanelInv, NEW d \in Disputes, Decidable(d)
  PROVE  /\ JobOf(d) \in Jobs
         /\ RulingMap[d] = "open"
         /\ PledgeMap[d] = StakeBack(d)
         /\ ChestMap[d] = vault[d] - DisputeRent
         /\ vault[d] - StakeBack(d) \in Nat
         /\ vault[d] - StakeBack(d) >= DisputeRent
         /\ vault[d] - StakeBack(d) - DisputeRent = ChestMap[d] - PledgeMap[d]
         /\ PledgeMap[d] <= ChestMap[d]
         /\ PhaseMap[JobOf(d)] \in {"delivered", "released", "refunded"}
         /\ HeldMap[JobOf(d)] = lamports[JobOf(d)] - JobRent
         /\ HeldMap[JobOf(d)] = Available(JobOf(d))
         /\ JobRent <= lamports[JobOf(d)]
         /\ lamports[JobOf(d)] \in Nat /\ JobRent \in Nat /\ StakeBack(d) \in Nat
         /\ StakeMap[JobOf(d)] = job[JobOf(d)].claimer_stake
         /\ job[JobOf(d)].claimer_stake \in Nat
<1>1. /\ JobOf(d) \in Jobs /\ dispute[d].status = "OPEN"
      /\ lamports[JobOf(d)] \in Nat /\ JobRent \in Nat /\ StakeBack(d) \in Nat
      /\ job[JobOf(d)].claimer_stake \in Nat
      /\ vault[d] \in Nat /\ DisputeRent \in Nat
  BY DisputeFacts DEF Decidable, PanelInv, JobAccount
<1>2. RulingMap[d] = "open"
  BY <1>1 DEF RulingMap, RulingOf
<1>3. PledgeMap[d] = StakeBack(d)
  BY <1>1, StakeBackExact DEF PledgeMap
<1>8. /\ ChestMap[d] = vault[d] - DisputeRent
      /\ vault[d] - StakeBack(d) \in Nat
      /\ vault[d] - StakeBack(d) >= DisputeRent
      /\ vault[d] - StakeBack(d) - DisputeRent = ChestMap[d] - PledgeMap[d]
      /\ PledgeMap[d] <= ChestMap[d]
  <2>1. /\ vault[d] - StakeBack(d) >= DisputeRent
        /\ vault[d] >= DisputeRent
    BY <1>1, StakeBackExact
  <2>2. ChestMap[d] = vault[d] - DisputeRent
    BY <2>1 DEF ChestMap
  <2>3. QED BY <1>1, <1>3, <2>1, <2>2
<1>4. PhaseMap[JobOf(d)] \in {"delivered", "released", "refunded"}
  <2>1. job[JobOf(d)].status \in Settling
    BY <1>1 DEF PanelInv, PanelSafe, DisputeFounded, Settling
  <2>2. PhaseMap[JobOf(d)] = PhaseOf(job[JobOf(d)].status)
    BY <1>1, Zenon DEF PhaseMap
  <2>3. QED BY <2>1, <2>2 DEF Settling, PhaseOf
<1>5. JobRent <= lamports[JobOf(d)]
  BY <1>1 DEF Decidable, PanelInv, PanelSafe, RentHeld
<1>6. /\ HeldMap[JobOf(d)] = lamports[JobOf(d)] - JobRent
      /\ HeldMap[JobOf(d)] = Available(JobOf(d))
  BY <1>1, <1>5 DEF HeldMap, Available
<1>7. StakeMap[JobOf(d)] = job[JobOf(d)].claimer_stake
  BY <1>1 DEF StakeMap
<1>9. QED BY <1>1, <1>2, <1>3, <1>4, <1>5, <1>6, <1>7, <1>8

LEMMA OpenIsRaise ==
  ASSUME PanelInv, NEW d \in Disputes, NEW challenger \in Users,
         OpenDispute(d, challenger)
  PROVE  Arbitrated!Raise(d)
<1> DEFINE j == JobOf(d)
           a == [status |-> "OPEN", challenger |-> challenger,
                 challenger_stake |-> DisputeStake(j), opened_at |-> now]
<1>1. /\ j \in Jobs /\ DisputeRent \in Nat /\ DisputeStake(j) \in Nat
      /\ vault[d] \in Nat
  BY DisputeFacts DEF PanelInv
<1>2. RulingMap[d] = "none" /\ PhaseMap[j] = "delivered"
  BY <1>1 DEF OpenDispute, RulingMap, RulingOf, PhaseMap, PhaseOf
<1>3. /\ RulingMap' = [RulingMap EXCEPT ![d] = RulingOf("OPEN")]
      /\ PledgeMap' = [PledgeMap EXCEPT ![d] = DisputeStake(j)]
      /\ ChestMap' = [ChestMap EXCEPT ![d] = ChestMap[d] + DisputeStake(j)]
  <2> DEFINE m == vault[d] + (RentDue(DisputeRent, vault[d]) + DisputeStake(j))
  <2>1. /\ dispute' = [dispute EXCEPT ![d] = a]
        /\ vault' = [vault EXCEPT ![d] = m]
        /\ a.status = "OPEN" /\ PledgeOf(a) = DisputeStake(j)
    BY DEF OpenDispute, PledgeOf, PanelInv, PanelTypeOK
  <2>2. /\ m \in Nat /\ m >= DisputeRent
        /\ m - DisputeRent = ChestMap[d] + DisputeStake(j)
    BY <1>1 DEF ChestMap, RentDue
  <2> HIDE DEF a, m
  <2>3. /\ RulingMap' = [RulingMap EXCEPT ![d] = RulingOf(a.status)]
        /\ PledgeMap' = [PledgeMap EXCEPT ![d] = PledgeOf(a)]
        /\ ChestMap' = [ChestMap EXCEPT ![d] = m - DisputeRent]
    BY <2>1, <2>2, OneDispute, Zenon DEF PanelInv
  <2>4. QED BY <2>1, <2>2, <2>3, Zenon
<1>4. UNCHANGED <<PhaseMap, HeldMap, StakeMap>>
  BY DEF OpenDispute, PhaseMap, HeldMap, StakeMap, Available
<1>5. PledgeMap'[d] = DisputeStake(j)
  BY <1>1, <1>3 DEF PledgeMap
<1>6. RulingOf("OPEN") = "open"
  BY DEF RulingOf
<1>7. QED
  BY <1>1, <1>2, <1>3, <1>4, <1>5, <1>6
  DEF Arbitrated!Raise, PhaseMap, HeldMap, StakeMap, RulingMap, PledgeMap, ChestMap

LEMMA AgentWinsIsUphold ==
  ASSUME PanelInv, NEW d \in Disputes, Decidable(d), AgentWins(d)
  PROVE  Arbitrated!Uphold(d)
<1> DEFINE j == JobOf(d)
           a == [dispute[d] EXCEPT !.status = "AGENT_WINS"]
<1>1. /\ RulingMap' = [RulingMap EXCEPT ![d] = "upheld"]
      /\ PledgeMap' = [PledgeMap EXCEPT ![d] = 0]
      /\ ChestMap' = [ChestMap EXCEPT ![d] = ChestMap[d] - PledgeMap[d]]
  <2> DEFINE m == vault[d] - StakeBack(d)
  <2>1. /\ dispute' = [dispute EXCEPT ![d] = a]
        /\ vault' = [vault EXCEPT ![d] = m]
        /\ a.status = "AGENT_WINS"
    BY DEF AgentWins, PanelInv, PanelTypeOK, DisputeRecord
  <2>2. /\ m \in Nat /\ m >= DisputeRent
        /\ m - DisputeRent = ChestMap[d] - PledgeMap[d]
    BY RulingFacts
  <2>3. RulingOf("AGENT_WINS") = "upheld" /\ PledgeOf(a) = 0
    BY <2>1 DEF RulingOf, PledgeOf
  <2> HIDE DEF a, j, m
  <2>4. /\ RulingMap' = [RulingMap EXCEPT ![d] = RulingOf(a.status)]
        /\ PledgeMap' = [PledgeMap EXCEPT ![d] = PledgeOf(a)]
        /\ ChestMap' = [ChestMap EXCEPT ![d] = m - DisputeRent]
    BY <2>1, <2>2, OneDispute, Zenon DEF PanelInv
  <2>5. QED BY <2>1, <2>2, <2>3, <2>4, Zenon
<1>2. HeldMap' = [HeldMap EXCEPT ![j] = HeldMap[j] + PledgeMap[d]]
  <2> DEFINE m == lamports[j] + StakeBack(d)
  <2>1. lamports' = [lamports EXCEPT ![j] = m]
    BY DEF AgentWins
  <2>2. m \in Nat /\ JobRent <= m /\ m - JobRent = HeldMap[j] + PledgeMap[d]
    BY RulingFacts
  <2>3. j \in Jobs
    BY RulingFacts
  <2> HIDE DEF j, m
  <2>4. QED BY <2>1, <2>2, <2>3, OneJobAccount DEF PanelInv
<1>3. UNCHANGED <<PhaseMap, StakeMap>>
  BY DEF AgentWins, PhaseMap, StakeMap
<1>4. QED
  BY <1>1, <1>2, <1>3, RulingFacts
  DEF Arbitrated!Uphold, Arbitrated!Rule, PhaseMap, HeldMap, StakeMap,
      RulingMap, PledgeMap, ChestMap

LEMMA ChallengerWinsIsReverse ==
  ASSUME PanelInv, NEW d \in Disputes, Decidable(d), ChallengerWins(d)
  PROVE  Arbitrated!Reverse(d)
<1> DEFINE j == JobOf(d)
           a == [dispute[d] EXCEPT !.status = "CHALLENGER_WINS"]
           b == [job[j] EXCEPT !.status = "FAILED"]
           penalty == Lesser(job[j].claimer_stake, Available(j))
<1>1. /\ RulingMap' = [RulingMap EXCEPT ![d] = "reversed"]
      /\ PledgeMap' = [PledgeMap EXCEPT ![d] = 0]
      /\ ChestMap' = [ChestMap EXCEPT ![d] = ChestMap[d] - PledgeMap[d]]
  <2> DEFINE m == vault[d] - StakeBack(d)
  <2>1. /\ dispute' = [dispute EXCEPT ![d] = a]
        /\ vault' = [vault EXCEPT ![d] = m]
        /\ a.status = "CHALLENGER_WINS"
    BY DEF ChallengerWins, PanelInv, PanelTypeOK, DisputeRecord
  <2>2. /\ m \in Nat /\ m >= DisputeRent
        /\ m - DisputeRent = ChestMap[d] - PledgeMap[d]
    BY RulingFacts
  <2>3. RulingOf("CHALLENGER_WINS") = "reversed" /\ PledgeOf(a) = 0
    BY <2>1 DEF RulingOf, PledgeOf
  <2> HIDE DEF a, j, m
  <2>4. /\ RulingMap' = [RulingMap EXCEPT ![d] = RulingOf(a.status)]
        /\ PledgeMap' = [PledgeMap EXCEPT ![d] = PledgeOf(a)]
        /\ ChestMap' = [ChestMap EXCEPT ![d] = m - DisputeRent]
    BY <2>1, <2>2, OneDispute, Zenon DEF PanelInv
  <2>5. QED BY <2>1, <2>2, <2>3, <2>4, Zenon
<1>2. j \in Jobs /\ penalty \in Nat /\ penalty <= HeldMap[j]
      /\ penalty = (IF StakeMap[j] <= HeldMap[j] THEN StakeMap[j] ELSE HeldMap[j])
  BY RulingFacts DEF Lesser
<1>3. HeldMap' = [HeldMap EXCEPT ![j] = HeldMap[j] - penalty]
  <2>1. lamports' = [lamports EXCEPT ![j] = lamports[j] - penalty]
    BY DEF ChallengerWins
  <2>2. /\ lamports[j] - penalty \in Nat
        /\ JobRent <= lamports[j] - penalty
        /\ lamports[j] - penalty - JobRent = HeldMap[j] - penalty
    BY <1>2, RulingFacts
  <2> HIDE DEF j, penalty
  <2>3. QED BY <1>2, <2>1, <2>2, OneJobAccount DEF PanelInv
<1>4. PhaseMap' = [PhaseMap EXCEPT ![j] = "refunded"] /\ StakeMap' = StakeMap
  <2>1. job' = [job EXCEPT ![j] = b]
    BY DEF ChallengerWins
  <2>2. b.status = "FAILED" /\ b.claimer_stake = job[j].claimer_stake
    BY <1>2 DEF PanelInv, PanelTypeOK, TypeOK, JobAccount
  <2> HIDE DEF j, b
  <2>3. job'[j] = b /\ \A k \in Jobs \ {j} : job'[k] = job[k]
    BY <1>2, <2>1 DEF PanelInv, PanelTypeOK, TypeOK
  <2>4. PhaseOf(b.status) = "refunded"
    BY <2>2 DEF PhaseOf
  <2>5. QED BY <2>2, <2>3, <2>4 DEF PhaseMap, StakeMap
<1>5. QED
  <2> HIDE DEF penalty
  <2>1. QED
    BY <1>1, <1>2, <1>3, <1>4, RulingFacts
    DEF Arbitrated!Reverse, Arbitrated!Rule, Arbitrated!Penalty, PhaseMap, HeldMap,
        StakeMap, RulingMap, PledgeMap, ChestMap

(* The dispute handlers on top of the job instructions implement           *)
(* Arbitration: a dispute is raised on delivered work, decided once and    *)
(* for exact amounts (dispute.rs), and no instruction of the job program   *)
(* interferes with what a case is about, wherever a refund is sent.        *)
THEOREM PanelArbitrates == PanelSpec => ImplementsArbitration
<1>1. PanelInit => Arbitrated!ArbitrationInit
  BY AmountAssumption, PanelAssumption
  DEF PanelInit, Init, Absent, NoDispute, PhaseOf, RulingOf, Available,
      Arbitrated!ArbitrationInit
<1>2. PanelInv /\ PanelInv' /\ [PanelNext]_allVars =>
        [Arbitrated!ArbitrationNext]_panelMaps
  <2> SUFFICES ASSUME PanelInv, PanelInv', [PanelNext]_allVars
               PROVE  [Arbitrated!ArbitrationNext]_panelMaps
    OBVIOUS
  <2>1. CASE \/ Next /\ UNCHANGED disputeVars
             \/ \E j \in Jobs, d \in Disputes : ExpireClaimIntoVault(j, d)
    BY <2>1, JobMoveCases, JobMoveIsTrade DEF PanelInv, Arbitrated!ArbitrationNext
  <2>2. CASE UNCHANGED <<job, lamports, dispute, vault>>
    BY <2>2
    DEF panelMaps, PhaseMap, HeldMap, StakeMap, RulingMap, PledgeMap, ChestMap,
        Available
  <2>3. ASSUME NEW d \in Disputes, DisputeStep(d)
        PROVE  [Arbitrated!ArbitrationNext]_panelMaps
    <3>1. CASE \E challenger \in Users : OpenDispute(d, challenger)
      BY <3>1, OpenIsRaise DEF Arbitrated!ArbitrationNext
    <3>2. CASE \E verifier \in Verifiers, verdict \in 0..2 : CastVote(d, verifier, verdict)
      BY <3>2, <2>2 DEF CastVote
    <3>3. CASE Decidable(d) /\ AgentWins(d)
      BY <3>3, AgentWinsIsUphold DEF Arbitrated!ArbitrationNext
    <3>4. CASE Decidable(d) /\ ChallengerWins(d)
      BY <3>4, ChallengerWinsIsReverse DEF Arbitrated!ArbitrationNext
    <3>5. QED BY <2>3, <3>1, <3>2, <3>3, <3>4, DisputeStepCases
  <2>4. QED BY <2>1, <2>2, <2>3 DEF PanelNext, allVars
<1>3. QED
  BY <1>1, <1>2, PanelInvariance, PTL
  DEF PanelSpec, ImplementsArbitration, Arbitrated!ArbitrationSpec,
      Arbitrated!arbitrationVars, panelMaps, PhaseMap, HeldMap, StakeMap,
      RulingMap, PledgeMap, ChestMap

=============================================================================
