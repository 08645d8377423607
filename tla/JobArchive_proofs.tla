-------------------------- MODULE JobArchive_proofs --------------------------
(***************************************************************************)
(* Theorems about JobArchive: what remains true of archives, compressed    *)
(* jobs and open disputes when accounts are emptied and their addresses    *)
(* used again.                                                             *)
(***************************************************************************)
EXTENDS ArchiveLedger, DisputePanel_proofs, JobLedger_proofs

(***************************************************************************)
(* What a job or dispute instruction can do to jobs and disputes, as far   *)
(* as archives care: jobs do not vanish, finished ones change by a lost    *)
(* dispute only, raised disputes stay raised on the same grounds.          *)
(***************************************************************************)
Revised(k) ==
  \/ job'[k] = job[k]
  \/ job'[k] = [job[k] EXCEPT !.status = "FAILED"] /\ LostDispute(k)'

JobsMove ==
  \A k \in Jobs :
    /\ Exists(k) => Exists(k)'
    /\ Terminal(k) => Revised(k)
    /\ job[k].status \in Settling =>
         job'[k].status \in Settling /\ Grounds(job'[k]) = Grounds(job[k])
    /\ JobRent <= lamports[k] /\ Exists(k) => JobRent <= lamports'[k]
    /\ Exists(k)' /\ ~ Exists(k) => JobRent <= lamports'[k]

DisputeMoves(d) ==
  /\ dispute[d].status # "NONE" =>
       /\ dispute'[d].status # "NONE"
       /\ dispute'[d].challenger = dispute[d].challenger
       /\ dispute'[d].opened_at = dispute[d].opened_at
  /\ dispute[d].status = "CHALLENGER_WINS" => dispute'[d].status = "CHALLENGER_WINS"
  /\ dispute[d].status = "NONE" /\ dispute'[d].status # "NONE" =>
       /\ UNCHANGED job
       /\ job[JobOf(d)].status = "SUBMITTED"
       /\ dispute'[d].opened_at = now
       /\ now < job[JobOf(d)].dispute_window_end
       /\ dispute'[d].challenger # job[JobOf(d)].claimer

Moves ==
  /\ JobsMove
  /\ \A d \in Disputes : DisputeMoves(d)
  /\ \A k \in Jobs : job'[k].submitted_at <= now'

LEMMA JobMoves ==
  ASSUME PanelTypeOK, SubmittedInPast, RentHeld, JobMove PROVE Moves
<1>1. TypeOK /\ TypeOK' /\ AllFollow /\ AllEvolve /\ now <= now'
  BY NextFollows, NextEvolves, NextType, ClockForward DEF JobMove, PanelTypeOK
<1>2. JobsMove
  <2> SUFFICES ASSUME NEW k \in Jobs
               PROVE  /\ Exists(k) => Exists(k)'
                      /\ Terminal(k) => Revised(k)
                      /\ job[k].status \in Settling =>
                           job'[k].status \in Settling /\ Grounds(job'[k]) = Grounds(job[k])
                      /\ Exists(k)' => JobRent <= lamports'[k]
    BY DEF JobsMove
  <2>1. Exists(k) => Exists(k)'
    BY <1>1 DEF AllEvolve, Evolves, Exists
  <2>2. Terminal(k) => Revised(k)
    BY <1>1 DEF AllFollow, Follows, Terminal, Revised
  <2>3. job[k].status \in Settling =>
          job'[k].status \in Settling /\ Grounds(job'[k]) = Grounds(job[k])
    BY <1>1 DEF AllFollow, Follows
  <2>4. Exists(k)' => JobRent <= lamports'[k]
    BY <1>1 DEF AllFollow, Follows, Exists, RentHeld
  <2>5. QED BY <2>1, <2>2, <2>3, <2>4
<1>3. \A d \in Disputes : DisputeMoves(d)
  BY DEF DisputeMoves, JobMove
<1>4. ASSUME NEW k \in Jobs PROVE job'[k].submitted_at <= now'
  <2>1. job'[k].submitted_at <= now
    BY <1>1 DEF SubmittedInPast, AllFollow, Follows
  <2>2. job'[k].submitted_at \in Nat /\ now \in Nat /\ now' \in Nat
    BY <1>1 DEF TypeOK, JobAccount
  <2>3. QED BY <1>1, <2>1, <2>2
<1>5. QED BY <1>2, <1>3, <1>4 DEF Moves

(* Opening and voting leave the jobs alone.                                *)
LEMMA JobsStay ==
  ASSUME UNCHANGED <<job, lamports>> PROVE JobsMove
BY DEF JobsMove, Exists, Terminal, Revised

LEMMA OpenDisputeMoves ==
  ASSUME PanelTypeOK, SubmittedInPast, NEW d \in Disputes, NEW challenger \in Users,
         OpenDispute(d, challenger)
  PROVE  Moves
<1>1. JobsMove
  BY JobsStay DEF OpenDispute
<1>2. ASSUME NEW c \in Disputes PROVE DisputeMoves(c)
  <2>1. CASE c = d
    BY <2>1 DEF OpenDispute, WindowOpen, DisputeMoves, PanelTypeOK
  <2>2. CASE c # d
    BY <2>2 DEF OpenDispute, DisputeMoves, PanelTypeOK
  <2>3. QED BY <2>1, <2>2
<1>3. QED BY <1>1, <1>2 DEF Moves, SubmittedInPast, OpenDispute

LEMMA CastVoteMoves ==
  ASSUME SubmittedInPast, NEW d \in Disputes, NEW verifier, NEW verdict,
         CastVote(d, verifier, verdict)
  PROVE  Moves
BY JobsStay DEF Moves, SubmittedInPast, CastVote, DisputeMoves

(* A verdict leaves every dispute raised, on the same grounds.             *)
LEMMA VerdictKeepsDisputes ==
  ASSUME PanelTypeOK, NEW d \in Disputes, NEW st \in {"AGENT_WINS", "CHALLENGER_WINS"},
         dispute[d].status = "OPEN", dispute' = [dispute EXCEPT ![d].status = st]
  PROVE  \A c \in Disputes : DisputeMoves(c)
<1> SUFFICES ASSUME NEW c \in Disputes PROVE DisputeMoves(c)
  OBVIOUS
<1>1. CASE c = d
  BY <1>1 DEF DisputeMoves, PanelTypeOK, DisputeRecord
<1>2. CASE c # d
  BY <1>2 DEF DisputeMoves, PanelTypeOK
<1>3. QED BY <1>1, <1>2

LEMMA AgentWinsMoves ==
  ASSUME PanelTypeOK, SubmittedInPast, NEW d \in Disputes, Decidable(d), AgentWins(d)
  PROVE  Moves
<1>1. \A c \in Disputes : DisputeMoves(c)
  BY VerdictKeepsDisputes DEF AgentWins, Decidable
<1>2. ASSUME NEW k \in Jobs
      PROVE  JobRent <= lamports[k] => JobRent <= lamports'[k]
  <2>1. lamports' = [lamports EXCEPT ![JobOf(d)] = @ + StakeBack(d)]
    BY DEF AgentWins
  <2>2. StakeBack(d) \in Nat /\ JobRent \in Nat /\ lamports \in [Jobs -> Nat]
    BY DisputeFacts DEF PanelTypeOK, TypeOK
  <2>3. QED BY <2>1, <2>2
<1>3. UNCHANGED job
  BY DEF AgentWins
<1>4. JobsMove
  BY <1>2, <1>3 DEF JobsMove, Exists, Terminal, Revised
<1>5. QED BY <1>1, <1>3, <1>4 DEF Moves, SubmittedInPast, AgentWins

LEMMA ChallengerWinsMoves ==
  ASSUME PanelTypeOK, SubmittedInPast, NEW d \in Disputes, Decidable(d),
         ChallengerWins(d)
  PROVE  Moves
<1> DEFINE j == JobOf(d)
           penalty == Lesser(job[j].claimer_stake, Available(j))
           a == [job[j] EXCEPT !.status = "FAILED"]
<1>1. /\ dispute' = [dispute EXCEPT ![d].status = "CHALLENGER_WINS"]
      /\ job' = [job EXCEPT ![j] = a]
      /\ lamports' = [lamports EXCEPT ![j] = @ - penalty]
      /\ UNCHANGED now
  BY DisputeFacts DEF ChallengerWins, PanelTypeOK, TypeOK
<1>2. /\ j \in Jobs /\ Grounds(a) = Grounds(job[j]) /\ a.status = "FAILED"
      /\ a.submitted_at = job[j].submitted_at
  BY DisputeFacts DEF Grounds, JobAccount
<1>3. JobRent <= lamports[j] => JobRent <= lamports[j] - penalty
  BY DisputeFacts DEF Lesser, Available, JobAccount
<1>4. Exists(j)
  BY DEF Decidable
<1>5. LostDispute(j)'
  BY <1>1 DEF LostDispute, PanelTypeOK, DisputeRecord
<1>6. job \in [Jobs -> JobAccount] /\ lamports \in [Jobs -> Nat]
  BY DEF PanelTypeOK, TypeOK
<1>7. \A c \in Disputes : DisputeMoves(c)
  BY <1>1, VerdictKeepsDisputes DEF Decidable
<1>8. JobsMove
  <2> SUFFICES ASSUME NEW k \in Jobs
               PROVE  /\ Exists(k) => Exists(k)'
                      /\ Terminal(k) => Revised(k)
                      /\ job[k].status \in Settling =>
                           job'[k].status \in Settling /\ Grounds(job'[k]) = Grounds(job[k])
                      /\ JobRent <= lamports[k] /\ Exists(k) => JobRent <= lamports'[k]
                      /\ Exists(k)' /\ ~ Exists(k) => JobRent <= lamports'[k]
    BY DEF JobsMove
  <2>1. CASE k = j
    <3>1. job'[k] = a /\ lamports'[k] = lamports[j] - penalty
      BY <1>1, <1>2, <1>6, <2>1
    <3> HIDE DEF penalty
    <3>2. Revised(k)
      BY <1>5, <2>1, <3>1 DEF Revised
    <3> HIDE DEF a, j
    <3>3. QED
      BY <1>2, <1>3, <1>4, <2>1, <3>1, <3>2 DEF Exists, Settling
  <2>2. CASE k # j
    <3>1. job'[k] = job[k] /\ lamports'[k] = lamports[k]
      BY <1>1, <1>6, <2>2
    <3>2. QED BY <3>1 DEF Exists, Revised
  <2>3. QED BY <2>1, <2>2
<1>9. ASSUME NEW k \in Jobs PROVE job'[k].submitted_at <= now'
  <2> HIDE DEF a, penalty, j
  <2>1. QED BY <1>1, <1>2, <1>6 DEF SubmittedInPast
<1>10. QED BY <1>7, <1>8, <1>9 DEF Moves

LEMMA PanelMoves ==
  ASSUME PanelTypeOK, SubmittedInPast, RentHeld, PanelNext PROVE Moves
<1>1. CASE \/ Next /\ UNCHANGED disputeVars
           \/ \E j \in Jobs, d \in Disputes : ExpireClaimIntoVault(j, d)
  BY <1>1, JobMoveCases, JobMoves
<1>2. ASSUME NEW d \in Disputes, DisputeStep(d) PROVE Moves
  BY <1>2, DisputeStepCases, OpenDisputeMoves, CastVoteMoves, AgentWinsMoves,
     ChallengerWinsMoves
<1>3. QED BY <1>1, <1>2 DEF PanelNext

-----------------------------------------------------------------------------
LEMMA KeepingStepType ==
  ASSUME ArchiveTypeOK, NEW j \in Jobs, KeepingStep(j) PROVE ArchiveTypeOK'
<1> USE DEF disputeVars
<1>0. /\ Outcome(j) \in Archived
      /\ job[j] \in JobAccount /\ lamports[j] \in Nat /\ life[j] \in Nat
  BY DEF ArchiveTypeOK, PanelTypeOK, TypeOK, Outcome, Archived, JobAccount
<1>1. ASSUME NEW payer \in Users, ArchiveSettlement(j, payer) PROVE ArchiveTypeOK'
  <2>1. archive' \in [Jobs -> Archived] /\ wallet' \in [Users -> Nat]
    BY <1>0, <1>1, ArchiveAssumption
    DEF ArchiveSettlement, ArchiveTypeOK, PanelTypeOK, TypeOK
  <2>2. QED BY <1>1, <2>1 DEF ArchiveSettlement, ArchiveTypeOK, PanelTypeOK, TypeOK
<1>2. ASSUME NEW tree \in ArchiveTrees, ArchiveSettlementCompressed(j, tree)
      PROVE  ArchiveTypeOK'
  <2>1. archiveLeaf' \in [Jobs -> [ArchiveTrees -> Archived]]
    BY <1>0, <1>2 DEF ArchiveSettlementCompressed, ArchiveTypeOK
  <2>2. QED
    BY <1>2, <2>1 DEF ArchiveSettlementCompressed, ArchiveTypeOK, PanelTypeOK, TypeOK
<1>3. ASSUME NEW signer \in Users, NEW tree \in Trees, NEW repaid \in {0, JobRent},
             CompressFinishedJob(j, signer, tree, repaid)
      PROVE  ArchiveTypeOK'
  <2>1. Remains(j, repaid) \in JobAccount /\ repaid \in Nat
    BY <1>0, AmountAssumption DEF Remains, Absent, JobAccount, Status
  <2>2. job' \in [Jobs -> JobAccount] /\ lamports' \in [Jobs -> Nat]
    BY <1>3, <2>1 DEF CompressFinishedJob, ArchiveTypeOK, PanelTypeOK, TypeOK
  <2>3. wallet' \in [Users -> Nat]
    BY <1>0, <1>3, <2>1
    DEF CompressFinishedJob, Reclaimed, ArchiveTypeOK, PanelTypeOK, TypeOK
  <2>4. jobLeaf' \in [Jobs -> [Trees -> CompressedJob]]
    BY <1>0, <1>3 DEF CompressFinishedJob, CompressedJob, JobAccount, ArchiveTypeOK
  <2>5. QED
    BY <1>3, <2>2, <2>3, <2>4
    DEF CompressFinishedJob, ArchiveTypeOK, PanelTypeOK, TypeOK
<1>4. ASSUME NEW poster \in Keepers, StoreCredential(poster, j) PROVE ArchiveTypeOK'
  <2>1. credential' \in [Vaults -> {"NONE", "ACTIVE", "CLEARED"}]
    BY <1>4 DEF StoreCredential, ArchiveTypeOK
  <2>2. wallet' \in [Users -> Nat]
    BY <1>4, ArchiveAssumption DEF StoreCredential, ArchiveTypeOK, PanelTypeOK, TypeOK
  <2>3. QED
    BY <1>4, <2>1, <2>2 DEF StoreCredential, ArchiveTypeOK, PanelTypeOK, TypeOK
<1>5. ASSUME NEW poster \in Keepers, ClearCredential(poster, j) PROVE ArchiveTypeOK'
  <2>1. credential' \in [Vaults -> {"NONE", "ACTIVE", "CLEARED"}]
    BY <1>5 DEF ClearCredential, ArchiveTypeOK
  <2>2. QED BY <1>5, <2>1 DEF ClearCredential, ArchiveTypeOK, PanelTypeOK, TypeOK
<1>6. QED BY <1>1, <1>2, <1>3, <1>4, <1>5 DEF KeepingStep

LEMMA PanelNextType ==
  ASSUME PanelTypeOK, PanelNext PROVE PanelTypeOK'
<1>1. CASE \/ Next /\ UNCHANGED disputeVars
           \/ \E j \in Jobs, d \in Disputes : ExpireClaimIntoVault(j, d)
  BY <1>1, JobMoveType
<1>2. ASSUME NEW d \in Disputes, DisputeStep(d) PROVE PanelTypeOK'
  BY <1>2, DisputeStepType
<1>3. QED BY <1>1, <1>2 DEF PanelNext

LEMMA PanelStepType ==
  ASSUME ArchiveTypeOK, PanelStep PROVE ArchiveTypeOK'
<1>1. PanelTypeOK'
  BY PanelNextType DEF PanelStep, ArchiveTypeOK
<1>2. life' \in [Jobs -> Nat]
  BY DEF PanelStep, ArchiveTypeOK
<1>3. raisedIn' \in [Disputes -> Nat]
  <2>1. ASSUME NEW d \in Disputes PROVE life[JobOf(d)] \in Nat /\ raisedIn[d] \in Nat
    BY DisputeFacts DEF ArchiveTypeOK
  <2>2. QED BY <2>1 DEF PanelStep
<1>4. QED BY <1>1, <1>2, <1>3 DEF PanelStep, keptVars, ArchiveTypeOK

LEMMA InitType == ArchiveInit => ArchiveTypeOK
<1> SUFFICES ASSUME ArchiveInit PROVE ArchiveTypeOK
  OBVIOUS
<1>1. PanelTypeOK
  BY FundsAssumption
  DEF ArchiveInit, PanelInit, PanelTypeOK, NoDispute, DisputeRecord, DisputeStatus,
      Init, TypeOK, JobAccount, Absent, Status
<1>2. NoArchive \in Archived /\ NoLeaf \in CompressedJob
  BY DEF NoArchive, Archived, NoLeaf, CompressedJob, Status
<1>3. QED BY <1>1, <1>2 DEF ArchiveInit, ArchiveTypeOK

(* Type correctness of archives, leaves, credentials and of what lies under *)
(* them: no order of payouts, verdicts and closings of accounts takes a    *)
(* balance below zero (settlement.rs, dispute.rs, compressed.rs).          *)
THEOREM ArchiveTypeCorrect == ArchiveSpec => []ArchiveTypeOK
<1>1. ArchiveTypeOK /\ [ArchiveNext]_archiveVars => ArchiveTypeOK'
  <2> SUFFICES ASSUME ArchiveTypeOK, [ArchiveNext]_archiveVars PROVE ArchiveTypeOK'
    OBVIOUS
  <2>1. CASE UNCHANGED archiveVars
    BY <2>1 DEF archiveVars, ArchiveTypeOK, PanelTypeOK, TypeOK
  <2>2. QED BY <2>1, PanelStepType, KeepingStepType DEF ArchiveNext
<1>2. QED BY <1>1, InitType, PTL DEF ArchiveSpec

-----------------------------------------------------------------------------
(***************************************************************************)
(* The inductive invariant.  A job that is there has a life number of its  *)
(* own, which no record of an earlier job bears; that is why a record made *)
(* now cannot be taken for one of those.                                   *)
(***************************************************************************)
LivesCounted ==
  /\ \A j \in Jobs : Exists(j) => life[j] > 0
  /\ \A d \in Disputes : raisedIn[d] <= life[JobOf(d)]

ArchiveSafe == /\ RentHeld
               /\ SubmittedInPast
               /\ LivesCounted
               /\ FoundedInItsLife
               /\ NoRecordLost
               /\ ArchiveFaithful

ArchiveInv == ArchiveTypeOK /\ ArchiveSafe

(* The two properties, for one address and two records of it.              *)
LeavesKept(j) ==
  \A n \in 1..life[j] : Gone(j, n) => \E t \in Trees : jobLeaf[j][t].life = n

PairRight(j, a, b) ==
  /\ a.life \in 1..life[j]
  /\ a.life = life[j] /\ Exists(j) => Tells(a, j)
  /\ b.life = a.life => Agree(a, b, j)

LEMMA SafeAt ==
  ASSUME ArchiveInv, NEW j \in Jobs
  PROVE  /\ LeavesKept(j)
         /\ \A a, b \in RecordsOf(j) : PairRight(j, a, b)
         /\ Exists(j) => life[j] > 0
         /\ life[j] \in Nat
         /\ job[j] \in JobAccount
<1>1. LeavesKept(j)
  BY DEF ArchiveInv, ArchiveSafe, NoRecordLost, LeavesKept
<1>2. \A a, b \in RecordsOf(j) : PairRight(j, a, b)
  BY DEF ArchiveInv, ArchiveSafe, ArchiveFaithful, PairRight
<1>3. QED
  BY <1>1, <1>2 DEF ArchiveInv, ArchiveTypeOK, PanelTypeOK, TypeOK, ArchiveSafe, LivesCounted

LEMMA SafeFromParts ==
  ASSUME RentHeld', SubmittedInPast', LivesCounted', FoundedInItsLife',
         \A j \in Jobs : LeavesKept(j)',
         \A j \in Jobs : \A a, b \in RecordsOf(j)' : PairRight(j, a, b)'
  PROVE  ArchiveSafe'
<1>1. NoRecordLost'
  BY DEF NoRecordLost, LeavesKept
<1>2. ArchiveFaithful'
  BY DEF ArchiveFaithful, PairRight
<1>3. QED BY <1>1, <1>2 DEF ArchiveSafe

(* A job or dispute instruction either creates a job at j or keeps its life. *)
LEMMA LivesMove ==
  ASSUME ArchiveTypeOK, PanelStep, JobsMove, NEW j \in Jobs
  PROVE  \/ ~ Exists(j) /\ Exists(j)' /\ life'[j] = life[j] + 1
         \/ (Exists(j) <=> Exists(j)') /\ life'[j] = life[j]
BY DEF ArchiveTypeOK, PanelStep, JobsMove, Exists

(* What is told of a job stays true when the job loses a dispute.          *)
LEMMA TellsRevised ==
  ASSUME ArchiveTypeOK, NEW j \in Jobs, NEW a, Tells(a, j), Revised(j),
         LostDispute(j) => LostDispute(j)'
  PROVE  Tells(a, j)'
<1>1. CASE job'[j] = job[j]
  BY <1>1 DEF Tells, Terminal
<1>2. CASE job'[j] = [job[j] EXCEPT !.status = "FAILED"] /\ LostDispute(j)'
  <2>1. job[j] \in JobAccount
    BY DEF ArchiveTypeOK, PanelTypeOK, TypeOK
  <2>2. /\ job'[j].status = "FAILED"
        /\ job'[j].claimer = job[j].claimer
        /\ job'[j].reward = job[j].reward
        /\ job'[j].claimer_stake = job[j].claimer_stake
    BY <1>2, <2>1 DEF JobAccount
  <2>3. QED BY <1>2, <2>2 DEF Tells, SameTerms, Terminal
<1>3. QED BY <1>1, <1>2 DEF Revised

LEMMA LostStays ==
  ASSUME \A d \in Disputes : DisputeMoves(d), NEW j \in Jobs, LostDispute(j)
  PROVE  LostDispute(j)'
BY DEF DisputeMoves, LostDispute

LEMMA PanelStepSafe ==
  ASSUME ArchiveInv, ArchiveTypeOK', PanelStep PROVE ArchiveSafe'
<1>1. Moves
  BY PanelMoves DEF ArchiveInv, ArchiveTypeOK, ArchiveSafe, PanelStep
<1>2. UNCHANGED keptVars /\ JobsMove /\ \A d \in Disputes : DisputeMoves(d)
  BY <1>1 DEF PanelStep, Moves
<1>3. RentHeld' /\ SubmittedInPast'
  <2>1. RentHeld'
    BY <1>2 DEF JobsMove, RentHeld, Exists, ArchiveInv, ArchiveSafe, ArchiveTypeOK,
                PanelTypeOK, TypeOK
  <2>2. QED BY <1>1, <2>1 DEF Moves, SubmittedInPast
<1>4. LivesCounted'
  <2>1. ASSUME NEW j \in Jobs, Exists(j)' PROVE life'[j] > 0
    BY <1>2, <2>1, LivesMove, SafeAt DEF ArchiveInv
  <2>2. ASSUME NEW d \in Disputes PROVE raisedIn'[d] <= life'[JobOf(d)]
    <3>1. /\ JobOf(d) \in Jobs /\ raisedIn[d] <= life[JobOf(d)]
          /\ raisedIn[d] \in Nat /\ life[JobOf(d)] \in Nat
      BY DisputeFacts DEF ArchiveInv, ArchiveTypeOK, ArchiveSafe, LivesCounted
    <3>2. raisedIn'[d] \in {raisedIn[d], life[JobOf(d)]}
      BY DEF PanelStep
    <3>3. life[JobOf(d)] <= life'[JobOf(d)]
      BY <1>2, <3>1, LivesMove DEF ArchiveInv
    <3>4. life'[JobOf(d)] \in Nat
      BY <3>1 DEF ArchiveTypeOK
    <3>5. QED BY <3>1, <3>2, <3>3, <3>4
  <2>3. QED BY <2>1, <2>2 DEF LivesCounted
<1>5. FoundedInItsLife'
  <2> SUFFICES ASSUME NEW d \in Disputes, dispute'[d].status # "NONE",
                      raisedIn'[d] = life'[JobOf(d)], job'[JobOf(d)].status # "NONE"
               PROVE  /\ job'[JobOf(d)].status \in Settling
                      /\ job'[JobOf(d)].submitted_at <= dispute'[d].opened_at
                      /\ dispute'[d].opened_at < job'[JobOf(d)].dispute_window_end
                      /\ dispute'[d].challenger # job'[JobOf(d)].claimer
    BY DEF FoundedInItsLife, Settling
  <2>1. JobOf(d) \in Jobs /\ raisedIn[d] <= life[JobOf(d)]
        /\ raisedIn[d] \in Nat /\ life[JobOf(d)] \in Nat
    BY DisputeFacts DEF ArchiveInv, ArchiveTypeOK, ArchiveSafe, LivesCounted
  <2>2. CASE dispute[d].status = "NONE"
    <3>1. /\ UNCHANGED job
          /\ job[JobOf(d)].status = "SUBMITTED"
          /\ dispute'[d].opened_at = now
          /\ now < job[JobOf(d)].dispute_window_end
          /\ dispute'[d].challenger # job[JobOf(d)].claimer
      BY <1>2, <2>2 DEF DisputeMoves
    <3>2. job[JobOf(d)].submitted_at <= now
      BY <2>1 DEF ArchiveInv, ArchiveSafe, SubmittedInPast
    <3>3. QED BY <3>1, <3>2 DEF Settling
  <2>3. CASE dispute[d].status # "NONE"
    <3>1. raisedIn'[d] = raisedIn[d]
      BY <2>3 DEF PanelStep
    <3>2. life'[JobOf(d)] = life[JobOf(d)] /\ Exists(JobOf(d))
      <4>1. life'[JobOf(d)] <= life[JobOf(d)]
        BY <2>1, <3>1
      <4>2. Exists(JobOf(d))'
        BY DEF Exists
      <4>3. \/ ~ Exists(JobOf(d)) /\ life'[JobOf(d)] = life[JobOf(d)] + 1
            \/ Exists(JobOf(d)) /\ life'[JobOf(d)] = life[JobOf(d)]
        BY <1>2, <2>1, <4>2, LivesMove DEF ArchiveInv
      <4>4. QED BY <2>1, <4>1, <4>3
    <3>3. /\ job[JobOf(d)].status \in Settling
          /\ job[JobOf(d)].submitted_at <= dispute[d].opened_at
          /\ dispute[d].opened_at < job[JobOf(d)].dispute_window_end
          /\ dispute[d].challenger # job[JobOf(d)].claimer
      BY <2>3, <3>1, <3>2 DEF ArchiveInv, ArchiveSafe, FoundedInItsLife, Exists, Settling
    <3>4. /\ job'[JobOf(d)].status \in Settling
          /\ Grounds(job'[JobOf(d)]) = Grounds(job[JobOf(d)])
      BY <1>2, <2>1, <3>3 DEF JobsMove
    <3>5. /\ dispute'[d].challenger = dispute[d].challenger
          /\ dispute'[d].opened_at = dispute[d].opened_at
      BY <1>2, <2>3 DEF DisputeMoves
    <3>6. QED BY <3>3, <3>4, <3>5 DEF Grounds
  <2>4. QED BY <2>2, <2>3
<1>6. ASSUME NEW j \in Jobs PROVE LeavesKept(j)'
  <2>1. LeavesKept(j) /\ life[j] \in Nat
    BY SafeAt
  <2>2. CASE ~ Exists(j) /\ Exists(j)' /\ life'[j] = life[j] + 1
    BY <1>2, <2>1, <2>2 DEF LeavesKept, Gone, keptVars
  <2>3. CASE (Exists(j) <=> Exists(j)') /\ life'[j] = life[j]
    BY <1>2, <2>1, <2>3 DEF LeavesKept, Gone, keptVars
  <2>4. QED BY <1>2, <2>2, <2>3, LivesMove DEF ArchiveInv
<1>7. ASSUME NEW j \in Jobs, NEW a \in RecordsOf(j)', NEW b \in RecordsOf(j)'
      PROVE  PairRight(j, a, b)'
  <2>1. RecordsOf(j)' = RecordsOf(j)
    BY <1>2 DEF RecordsOf, keptVars
  <2>2. PairRight(j, a, b) /\ life[j] \in Nat
    BY <2>1, SafeAt
  <2>3. LostDispute(j) => LostDispute(j)'
    BY <1>2, LostStays
  <2>4. a.life \in 1..life[j]
    BY <2>2 DEF PairRight
  <2>5. a.life \in 1..life'[j]
    BY <1>2, <2>2, <2>4, LivesMove DEF ArchiveInv
  <2>6. ASSUME a.life = life'[j], Exists(j)' PROVE Tells(a, j)'
    <3>1. life'[j] = life[j] /\ Exists(j)
      BY <1>2, <2>2, <2>4, <2>6, LivesMove DEF ArchiveInv
    <3>2. Tells(a, j)
      BY <2>2, <2>6, <3>1 DEF PairRight
    <3>3. Revised(j)
      BY <1>2, <3>2 DEF JobsMove, Tells
    <3>4. QED BY <2>3, <3>2, <3>3, TellsRevised DEF ArchiveInv
  <2>7. ASSUME b.life = a.life PROVE Agree(a, b, j)'
    BY <2>2, <2>3, <2>7 DEF PairRight, Agree
  <2>8. QED BY <2>5, <2>6, <2>7 DEF PairRight
<1>8. QED BY <1>3, <1>4, <1>5, <1>6, <1>7, SafeFromParts

-----------------------------------------------------------------------------
LEMMA RecordsType ==
  ASSUME ArchiveTypeOK, NEW j \in Jobs, NEW a \in RecordsOf(j)
  PROVE  a \in Archived
<1>1. archive[j] \in Archived /\ \A t \in ArchiveTrees : archiveLeaf[j][t] \in Archived
  BY DEF ArchiveTypeOK
<1>2. ASSUME NEW t \in Trees PROVE AsOutcome(jobLeaf[j][t]) \in Archived
  <2>1. jobLeaf[j][t] \in CompressedJob
    BY DEF ArchiveTypeOK
  <2>2. QED BY <2>1 DEF CompressedJob, AsOutcome, Archived
<1>3. QED BY <1>1, <1>2 DEF RecordsOf

(* Two records that tell of the job that is there agree.                   *)
LEMMA TellersAgree ==
  ASSUME NEW j \in Jobs, NEW a, NEW b, a.verdict \in {0, 1}, b.verdict \in {0, 1},
         Tells(a, j), Tells(b, j)
  PROVE  Agree(a, b, j)
BY DEF Tells, Agree, SameTerms

(* A record made now tells of the job that is there, and so agrees with    *)
(* every other record of that job.                                         *)
LEMMA OneMoreRecord ==
  ASSUME ArchiveInv, NEW j \in Jobs, Terminal(j),
         NEW a \in RecordsOf(j) \cup {Outcome(j)}, NEW b \in RecordsOf(j) \cup {Outcome(j)}
  PROVE  PairRight(j, a, b)
<1>1. Exists(j) /\ life[j] \in 1..life[j]
  <2>1. Exists(j)
    BY DEF Terminal, Exists
  <2>2. QED BY <2>1, SafeAt
<1>2. /\ Tells(Outcome(j), j)
      /\ Outcome(j).life = life[j]
      /\ Outcome(j).verdict \in {0, 1}
  BY DEF Tells, SameTerms, Outcome, Terminal
<1>3. ASSUME NEW c \in RecordsOf(j)
      PROVE  /\ c.verdict \in {0, 1}
             /\ c.life \in 1..life[j]
             /\ c.life = life[j] => Tells(c, j)
  <2>1. c \in Archived
    BY RecordsType DEF ArchiveInv
  <2>2. PairRight(j, c, c)
    BY SafeAt
  <2>3. QED BY <1>1, <2>1, <2>2 DEF Archived, PairRight
<1>4. /\ a.life \in 1..life[j] /\ a.verdict \in {0, 1} /\ b.verdict \in {0, 1}
      /\ a.life = life[j] => Tells(a, j)
      /\ b.life = life[j] => Tells(b, j)
  BY <1>1, <1>2, <1>3
<1>5. CASE a.life = life[j] \/ b.life # a.life
  BY <1>4, <1>5, TellersAgree DEF PairRight
<1>6. CASE a.life # life[j] /\ b.life = a.life
  <2>1. a \in RecordsOf(j) /\ b \in RecordsOf(j)
    BY <1>2, <1>6
  <2>2. QED BY <2>1, SafeAt
<1>7. QED BY <1>5, <1>6

(* What is right stays right while the address holds what it holds, or     *)
(* nothing.                                                                *)
LEMMA PairStays ==
  ASSUME NEW j \in Jobs, NEW a, NEW b, PairRight(j, a, b), life'[j] = life[j],
         Exists(j)' => job'[j] = job[j], UNCHANGED dispute
  PROVE  PairRight(j, a, b)'
<1>1. LostDispute(j)' <=> LostDispute(j)
  BY DEF LostDispute
<1>2. Agree(a, b, j) => Agree(a, b, j)'
  BY <1>1 DEF Agree
<1>3. ASSUME Exists(j)', Tells(a, j) PROVE Tells(a, j)'
  BY <1>1, <1>3 DEF Tells, Terminal
<1>4. Exists(j)' => Exists(j)
  BY DEF Exists
<1>5. QED BY <1>2, <1>3, <1>4 DEF PairRight

(* Archives and credentials leave jobs and disputes alone.                 *)
LEMMA RestIsSafe ==
  ASSUME ArchiveInv, UNCHANGED <<job, lamports, now, dispute, jobLeaf, life, raisedIn>>,
         \A j \in Jobs : RecordsOf(j)' \subseteq RecordsOf(j)
                         \/ /\ Terminal(j)
                            /\ RecordsOf(j)' \subseteq RecordsOf(j) \cup {Outcome(j)}
  PROVE  ArchiveSafe'
<1>1. RentHeld' /\ SubmittedInPast' /\ LivesCounted' /\ FoundedInItsLife'
  BY DEF ArchiveInv, ArchiveSafe, RentHeld, Exists, SubmittedInPast, LivesCounted,
         FoundedInItsLife
<1>2. ASSUME NEW j \in Jobs PROVE LeavesKept(j)'
  BY SafeAt DEF LeavesKept, Gone, Exists
<1>3. ASSUME NEW j \in Jobs, NEW a \in RecordsOf(j)', NEW b \in RecordsOf(j)'
      PROVE  PairRight(j, a, b)'
  <2>1. PairRight(j, a, b)
    BY SafeAt, OneMoreRecord
  <2>2. QED BY <2>1, PairStays
<1>4. QED BY <1>1, <1>2, <1>3, SafeFromParts

LEMMA ArchiveSettlementSafe ==
  ASSUME ArchiveInv, NEW i \in Jobs, NEW payer \in Users, ArchiveSettlement(i, payer)
  PROVE  ArchiveSafe'
<1>1. /\ UNCHANGED <<job, lamports, now, dispute, jobLeaf, archiveLeaf, life, raisedIn>>
      /\ archive' = [archive EXCEPT ![i] = Outcome(i)]
      /\ Terminal(i)
  BY DEF ArchiveSettlement, Archivable, disputeVars
<1>2. archive \in [Jobs -> Archived]
  BY DEF ArchiveInv, ArchiveTypeOK
<1>3. ASSUME NEW j \in Jobs
      PROVE  \/ RecordsOf(j)' \subseteq RecordsOf(j)
             \/ Terminal(j) /\ RecordsOf(j)' \subseteq RecordsOf(j) \cup {Outcome(j)}
  <2>1. CASE j = i
    <3>1. archive'[i] = Outcome(i)
      BY <1>1, <1>2
    <3>2. QED BY <1>1, <2>1, <3>1 DEF RecordsOf
  <2>2. CASE j # i
    <3>1. archive'[j] = archive[j]
      BY <1>1, <1>2, <2>2
    <3>2. QED BY <1>1, <3>1 DEF RecordsOf
  <2>3. QED BY <2>1, <2>2
<1>4. QED BY <1>1, <1>3, RestIsSafe

LEMMA ArchiveCompressedSafe ==
  ASSUME ArchiveInv, NEW i \in Jobs, NEW tree \in ArchiveTrees,
         ArchiveSettlementCompressed(i, tree)
  PROVE  ArchiveSafe'
<1>1. /\ UNCHANGED <<job, lamports, now, dispute, jobLeaf, archive, life, raisedIn>>
      /\ archiveLeaf' = [archiveLeaf EXCEPT ![i][tree] = Outcome(i)]
      /\ Terminal(i)
  BY DEF ArchiveSettlementCompressed, Archivable, disputeVars
<1>2. archiveLeaf \in [Jobs -> [ArchiveTrees -> Archived]]
  BY DEF ArchiveInv, ArchiveTypeOK
<1>3. ASSUME NEW j \in Jobs
      PROVE  \/ RecordsOf(j)' \subseteq RecordsOf(j)
             \/ Terminal(j) /\ RecordsOf(j)' \subseteq RecordsOf(j) \cup {Outcome(j)}
  <2>1. CASE j = i
    <3>1. \A t \in ArchiveTrees : archiveLeaf'[i][t] \in {archiveLeaf[i][t], Outcome(i)}
      BY <1>1, <1>2
    <3>2. QED BY <1>1, <2>1, <3>1 DEF RecordsOf
  <2>2. CASE j # i
    <3>1. archiveLeaf'[j] = archiveLeaf[j]
      BY <1>1, <1>2, <2>2
    <3>2. QED BY <1>1, <3>1 DEF RecordsOf
  <2>3. QED BY <2>1, <2>2
<1>4. QED BY <1>1, <1>3, RestIsSafe

LEMMA CredentialSafe ==
  ASSUME ArchiveInv,
         UNCHANGED <<job, lamports, now, dispute, jobLeaf, archive, archiveLeaf, life,
                     raisedIn>>
  PROVE  ArchiveSafe'
<1>1. \A j \in Jobs : RecordsOf(j)' \subseteq RecordsOf(j)
  BY DEF RecordsOf
<1>2. QED BY <1>1, RestIsSafe

(* compress_finished_job: the leaf is one more record of the job.  The job *)
(* is gone, and its disputes wait for whatever comes there next, or it is  *)
(* there as it was, with its rent.                                         *)
LEMMA CompressSafe ==
  ASSUME ArchiveInv, ArchiveTypeOK', NEW i \in Jobs, NEW signer \in Users,
         NEW tree \in Trees, NEW repaid \in {0, JobRent},
         CompressFinishedJob(i, signer, tree, repaid)
  PROVE  ArchiveSafe'
<1> DEFINE l == [status |-> job[i].status, claimer |-> job[i].claimer,
                 reward |-> job[i].reward, claimer_stake |-> job[i].claimer_stake,
                 parent_job |-> job[i].parent_job, life |-> life[i]]
<1>1. /\ UNCHANGED <<now, dispute, archive, archiveLeaf, life, raisedIn>>
      /\ jobLeaf' = [jobLeaf EXCEPT ![i][tree] = l]
      /\ job' = [job EXCEPT ![i] = Remains(i, repaid)]
      /\ lamports' = [lamports EXCEPT ![i] = repaid]
      /\ jobLeaf[i][tree] = NoLeaf
      /\ Terminal(i)
  BY DEF CompressFinishedJob, LeafNew, disputeVars
<1>2. /\ job \in [Jobs -> JobAccount] /\ lamports \in [Jobs -> Nat]
      /\ jobLeaf \in [Jobs -> [Trees -> CompressedJob]]
      /\ life \in [Jobs -> Nat] /\ now \in Nat
  BY DEF ArchiveInv, ArchiveTypeOK, PanelTypeOK, TypeOK
<1>3. Exists(i) /\ life[i] \in 1..life[i]
  BY <1>1, SafeAt DEF Terminal, Exists
<1>4. l.life = life[i] /\ AsOutcome(l) = Outcome(i)
  BY DEF AsOutcome, Outcome
<1> HIDE DEF l
<1>5. ASSUME NEW j \in Jobs, j # i
      PROVE  job'[j] = job[j] /\ lamports'[j] = lamports[j] /\ jobLeaf'[j] = jobLeaf[j]
  BY <1>1, <1>2, <1>5
<1>6. /\ job'[i] = Remains(i, repaid) /\ lamports'[i] = repaid
      /\ \A t \in Trees \ {tree} : jobLeaf'[i][t] = jobLeaf[i][t]
      /\ jobLeaf'[i][tree] = l
  BY <1>1, <1>2
<1>7. \/ repaid = 0 /\ job'[i] = Absent
      \/ repaid = JobRent /\ job'[i] = job[i]
  BY <1>6 DEF Remains
<1>8. \A j \in Jobs : Exists(j)' => job'[j] = job[j]
  BY <1>5, <1>7 DEF Exists, Absent
<1>9. RentHeld'
  <2> SUFFICES ASSUME NEW j \in Jobs, Exists(j)' PROVE lamports'[j] >= JobRent
    BY DEF RentHeld
  <2>1. Exists(j)
    BY <1>8 DEF Exists
  <2>2. CASE j = i
    <3>1. repaid = JobRent
      BY <1>7, <2>2 DEF Exists, Absent
    <3>2. QED BY <1>6, <2>2, <3>1, AmountAssumption
  <2>3. CASE j # i
    BY <1>5, <2>1, <2>3 DEF RentHeld, ArchiveInv, ArchiveSafe
  <2>4. QED BY <2>2, <2>3
<1>10. SubmittedInPast' /\ LivesCounted'
  <2>1. SubmittedInPast'
    BY <1>1, <1>2, <1>5, <1>7 DEF SubmittedInPast, Absent, ArchiveInv, ArchiveSafe
  <2>2. LivesCounted'
    BY <1>1, <1>8 DEF LivesCounted, Exists, ArchiveInv, ArchiveSafe
  <2>3. QED BY <2>1, <2>2
<1>11. FoundedInItsLife'
  <2> SUFFICES ASSUME NEW d \in Disputes, dispute'[d].status # "NONE",
                      raisedIn'[d] = life'[JobOf(d)], job'[JobOf(d)].status # "NONE"
               PROVE  /\ job'[JobOf(d)].status \in Settling
                      /\ job'[JobOf(d)].submitted_at <= dispute'[d].opened_at
                      /\ dispute'[d].opened_at < job'[JobOf(d)].dispute_window_end
                      /\ dispute'[d].challenger # job'[JobOf(d)].claimer
    BY DEF FoundedInItsLife, Settling
  <2>1. JobOf(d) \in Jobs
    BY DisputeFacts DEF ArchiveInv, ArchiveTypeOK
  <2>2. job'[JobOf(d)] = job[JobOf(d)]
    BY <1>8, <2>1 DEF Exists
  <2>3. QED
    BY <1>1, <2>2 DEF ArchiveInv, ArchiveSafe, FoundedInItsLife, Settling
<1>12. ASSUME NEW j \in Jobs PROVE LeavesKept(j)'
  <2> SUFFICES ASSUME NEW n \in 1..life[j], Gone(j, n)'
               PROVE  \E t \in Trees : jobLeaf'[j][t].life = n
    BY <1>1 DEF LeavesKept
  <2>1. CASE j = i /\ n = life[i]
    BY <1>4, <1>6, <2>1
  <2>2. CASE j = i /\ n # life[i]
    <3>1. n < life[i]
      <4>1. n \in 1..life[i] /\ life[i] \in Nat /\ n # life[i]
        BY <1>2, <2>2
      <4>2. QED BY <4>1
    <3>2. PICK t \in Trees : jobLeaf[i][t].life = n
      BY <2>2, <3>1, SafeAt DEF LeavesKept, Gone
    <3>3. t # tree
      BY <1>1, <3>2 DEF NoLeaf
    <3>4. QED BY <1>6, <2>2, <3>2, <3>3
  <2>3. CASE j # i
    <3>1. Gone(j, n)
      BY <1>1, <1>5, <2>3 DEF Gone, Exists
    <3>2. QED BY <1>5, <2>3, <3>1, SafeAt DEF LeavesKept
  <2>4. QED BY <2>1, <2>2, <2>3
<1>13. ASSUME NEW j \in Jobs, NEW a \in RecordsOf(j)', NEW b \in RecordsOf(j)'
       PROVE  PairRight(j, a, b)'
  <2>1. PairRight(j, a, b)
    <3>1. CASE j # i
      <4>1. RecordsOf(j)' = RecordsOf(j)
        BY <1>1, <1>5, <3>1 DEF RecordsOf
      <4>2. QED BY <4>1, SafeAt
    <3>2. CASE j = i
      <4>1. \A t \in Trees : AsOutcome(jobLeaf'[i][t])
                                \in {AsOutcome(jobLeaf[i][t]), Outcome(i)}
        BY <1>4, <1>6
      <4>2. RecordsOf(i)' \subseteq RecordsOf(i) \cup {Outcome(i)}
        <5>1. ASSUME NEW t \in Trees
              PROVE  AsOutcome(jobLeaf[i][t])' \in {AsOutcome(jobLeaf[i][t]), Outcome(i)}
          BY <4>1 DEF AsOutcome
        <5>2. QED BY <1>1, <5>1 DEF RecordsOf
      <4>3. QED BY <1>1, <3>2, <4>2, OneMoreRecord
    <3>3. QED BY <3>1, <3>2
  <2>2. QED BY <1>1, <1>8, <2>1, PairStays
<1>14. QED BY <1>9, <1>10, <1>11, <1>12, <1>13, SafeFromParts

LEMMA KeepingStepSafe ==
  ASSUME ArchiveInv, ArchiveTypeOK', NEW j \in Jobs, KeepingStep(j) PROVE ArchiveSafe'
<1>1. ASSUME NEW poster \in Keepers,
             StoreCredential(poster, j) \/ ClearCredential(poster, j)
      PROVE  ArchiveSafe'
  BY <1>1, CredentialSafe DEF StoreCredential, ClearCredential, disputeVars
<1>2. QED
  BY <1>1, ArchiveSettlementSafe, ArchiveCompressedSafe, CompressSafe DEF KeepingStep

LEMMA InitSafe == ASSUME ArchiveInit PROVE ArchiveSafe
<1>1. /\ RentHeld /\ SubmittedInPast /\ LivesCounted /\ FoundedInItsLife
  <2>1. \A d \in Disputes : JobOf(d) \in Jobs
    BY PanelAssumption DEF JobOf
  <2>2. \A j \in Jobs : job[j] = Absent /\ life[j] = 0 /\ now = 0
    BY DEF ArchiveInit, PanelInit, Init
  <2>3. \A d \in Disputes : dispute[d] = NoDispute /\ raisedIn[d] = 0
    BY DEF ArchiveInit, PanelInit
  <2>4. QED
    BY <2>1, <2>2, <2>3
    DEF Absent, NoDispute, RentHeld, Exists, SubmittedInPast, LivesCounted,
        FoundedInItsLife
<1>2. NoRecordLost
  <2>1. ASSUME NEW j \in Jobs PROVE 1..life[j] = {}
    <3>1. life[j] = 0
      BY DEF ArchiveInit
    <3>2. QED BY <3>1
  <2>2. QED BY <2>1 DEF NoRecordLost
<1>3. ArchiveFaithful
  <2>1. AsOutcome(NoLeaf) = NoArchive
    BY DEF AsOutcome, NoLeaf, NoArchive
  <2>2. ASSUME NEW j \in Jobs PROVE RecordsOf(j) = {}
    <3>1. /\ archive[j] = NoArchive
          /\ \A t \in ArchiveTrees : archiveLeaf[j][t] = NoArchive
          /\ \A t \in Trees : jobLeaf[j][t] = NoLeaf
      BY DEF ArchiveInit
    <3>2. QED BY <2>1, <3>1 DEF RecordsOf
  <2>3. QED BY <2>2 DEF ArchiveFaithful
<1>4. QED BY <1>1, <1>2, <1>3 DEF ArchiveSafe

(* ArchiveInv is an inductive invariant.                                   *)
THEOREM ArchiveInvariance == ArchiveSpec => []ArchiveInv
<1>1. ArchiveInit => ArchiveSafe
  BY InitSafe
<1>2. ArchiveInv /\ ArchiveTypeOK' /\ [ArchiveNext]_archiveVars => ArchiveSafe'
  <2> SUFFICES ASSUME ArchiveInv, ArchiveTypeOK', [ArchiveNext]_archiveVars
               PROVE  ArchiveSafe'
    OBVIOUS
  <2>1. CASE UNCHANGED archiveVars
    BY <2>1, CredentialSafe DEF archiveVars
  <2>2. QED BY <2>1, PanelStepSafe, KeepingStepSafe DEF ArchiveNext
<1>3. QED BY <1>1, <1>2, ArchiveTypeCorrect, PTL DEF ArchiveSpec, ArchiveInv

(* Whatever jobs an address has held, none of their verdicts, however late *)
(* and on whichever job it fell, takes the account below its rent.         *)
THEOREM RentIsHeldInEveryLife == ArchiveSpec => []RentHeld
<1>1. ArchiveInv => RentHeld
  BY DEF ArchiveInv, ArchiveSafe
<1>2. QED BY <1>1, ArchiveInvariance, PTL

(* A dispute of the job that has the address now is about submitted work   *)
(* of that job (open_dispute against compress_finished_job).               *)
THEOREM DisputesFoundedInTheirLife == ArchiveSpec => []FoundedInItsLife
<1>1. ArchiveInv => FoundedInItsLife
  BY DEF ArchiveInv, ArchiveSafe
<1>2. QED BY <1>1, ArchiveInvariance, PTL

(* Every job that is gone left a record, which no later job of the address *)
(* overwrites (compress_finished_job, with or without the rent paid back). *)
THEOREM NoRecordIsLost == ArchiveSpec => []NoRecordLost
<1>1. ArchiveInv => NoRecordLost
  BY DEF ArchiveInv, ArchiveSafe
<1>2. QED BY <1>1, ArchiveInvariance, PTL

(* Archives and leaves tell of the job of their own life and agree with    *)
(* each other (archive_settlement, its compressed twin and                 *)
(* compress_finished_job against late verdicts and reused addresses).      *)
THEOREM ArchivesAreFaithful == ArchiveSpec => []ArchiveFaithful
<1>1. ArchiveInv => ArchiveFaithful
  BY DEF ArchiveInv, ArchiveSafe
<1>2. QED BY <1>1, ArchiveInvariance, PTL

(* A credential once cleared stays cleared (store_credential creates its   *)
(* vault, and no instruction closes one).                                  *)
THEOREM ClearedStaysCleared == ArchiveSpec => ClearedForGood
<1> DEFINE Kept == \A v \in Vaults : credential[v] = "CLEARED" => credential'[v] = "CLEARED"
<1>1. ArchiveTypeOK /\ [ArchiveNext]_archiveVars => Kept
  <2> SUFFICES ASSUME ArchiveTypeOK, [ArchiveNext]_archiveVars PROVE Kept
    OBVIOUS
  <2>1. CASE UNCHANGED credential
    BY <2>1
  <2>2. ASSUME NEW j \in Jobs, NEW poster \in Keepers, StoreCredential(poster, j)
        PROVE  Kept
    BY <2>2 DEF StoreCredential, VaultNew, ArchiveTypeOK
  <2>3. ASSUME NEW j \in Jobs, NEW poster \in Keepers, ClearCredential(poster, j)
        PROVE  Kept
    BY <2>3 DEF ClearCredential, ArchiveTypeOK
  <2>4. CASE PanelStep \/ UNCHANGED archiveVars
    BY <2>1, <2>4 DEF PanelStep, keptVars, archiveVars
  <2>5. ASSUME NEW j \in Jobs, KeepingStep(j) PROVE Kept
    <3>1. CASE \/ \E payer \in Users : ArchiveSettlement(j, payer)
               \/ \E tree \in ArchiveTrees : ArchiveSettlementCompressed(j, tree)
               \/ \E signer \in Users, tree \in Trees, repaid \in {0, JobRent} :
                    CompressFinishedJob(j, signer, tree, repaid)
      BY <2>1, <3>1 DEF ArchiveSettlement, ArchiveSettlementCompressed, CompressFinishedJob
    <3>2. QED BY <2>2, <2>3, <2>5, <3>1 DEF KeepingStep
  <2>6. QED BY <2>4, <2>5 DEF ArchiveNext
<1>2. QED BY <1>1, ArchiveTypeCorrect, PTL DEF ArchiveSpec, ClearedForGood

(* What a finished job still holds goes to its poster against a new leaf   *)
(* (compress_finished_job), or to the winner of a dispute on it, and to    *)
(* nobody else.                                                            *)
THEOREM FinishedPaysPosterOrChallenger == ArchiveSpec => FinishedPaysOnly
<1> DEFINE Right(j, u) ==
             \/ /\ u = Poster[j]
                /\ \E t \in Trees : jobLeaf[j][t] = NoLeaf /\ jobLeaf'[j][t] # NoLeaf
             \/ \E d \in Disputes : /\ JobOf(d) = j
                                    /\ dispute[d].challenger = u
                                    /\ dispute[d].status = "OPEN"
                                    /\ dispute'[d].status = "CHALLENGER_WINS"
           Paid(j, u) == Terminal(j) /\ lamports'[j] < lamports[j] /\ wallet'[u] > wallet[u]
<1>1. ArchiveTypeOK /\ [ArchiveNext]_archiveVars =>
        \A j \in Jobs, u \in Users : Paid(j, u) => Right(j, u)
  <2> SUFFICES ASSUME ArchiveTypeOK, [ArchiveNext]_archiveVars,
                      NEW j \in Jobs, NEW u \in Users, Paid(j, u)
               PROVE  Right(j, u)
    OBVIOUS
  <2>0. /\ lamports \in [Jobs -> Nat] /\ wallet \in [Users -> Nat]
        /\ dispute \in [Disputes -> DisputeRecord]
        /\ jobLeaf \in [Jobs -> [Trees -> CompressedJob]]
    BY DEF ArchiveTypeOK, PanelTypeOK, TypeOK
  <2>1. lamports'[j] # lamports[j] /\ wallet'[u] > wallet[u] /\ ~ (UNCHANGED lamports)
    BY <2>0
  <2>2. CASE \/ Next /\ UNCHANGED disputeVars
             \/ \E i \in Jobs, d \in Disputes : ExpireClaimIntoVault(i, d)
    <3>1. PanelTypeOK /\ TypeOK /\ TypeOK'
      BY <2>2, JobMoveType DEF ArchiveTypeOK, PanelTypeOK
    <3>2. AllFollow
      BY <2>2, <3>1, JobMoveCases, NextFollows DEF JobMove
    <3>3. lamports'[j] = lamports[j] \/ lamports'[j] > lamports[j]
      BY <3>2 DEF AllFollow, Follows, Terminal
    <3>4. lamports[j] \in Nat /\ lamports'[j] \in Nat
      BY <3>1 DEF TypeOK
    <3>5. QED BY <3>3, <3>4
  <2>3. ASSUME NEW d \in Disputes, DisputeStep(d) PROVE Right(j, u)
    <3>1. CASE Decidable(d) /\ AgentWins(d)
      <4>1. StakeBack(d) \in Nat
        BY DisputeFacts DEF ArchiveTypeOK
      <4>2. QED BY <2>0, <3>1, <4>1 DEF AgentWins
    <3>2. CASE Decidable(d) /\ ChallengerWins(d)
      <4>1. JobOf(d) = j
        BY <2>0, <2>1, <3>2 DEF ChallengerWins
      <4>2. dispute[d].challenger = u
        BY <2>0, <2>1, <3>2 DEF ChallengerWins
      <4>3. dispute[d].status = "OPEN" /\ dispute'[d].status = "CHALLENGER_WINS"
        BY <2>0, <3>2 DEF Decidable, ChallengerWins, DisputeRecord
      <4>4. QED BY <4>1, <4>2, <4>3
    <3>3. QED
      BY <2>1, <2>3, <3>1, <3>2, DisputeStepCases DEF OpenDispute, CastVote
  <2>4. ASSUME NEW i \in Jobs, NEW signer \in Users, NEW tree \in Trees,
               NEW repaid \in {0, JobRent}, CompressFinishedJob(i, signer, tree, repaid)
        PROVE  Right(j, u)
    <3>1. i = j
      BY <2>0, <2>1, <2>4 DEF CompressFinishedJob
    <3>2. u = Poster[j]
      BY <2>0, <2>1, <2>4, <3>1 DEF CompressFinishedJob, HasOnePoster
    <3>3. jobLeaf[j][tree] = NoLeaf
      BY <2>4, <3>1 DEF CompressFinishedJob, LeafNew
    <3>4. jobLeaf'[j][tree].status = job[j].status
      BY <2>0, <2>4, <3>1 DEF CompressFinishedJob
    <3>5. jobLeaf'[j][tree] # NoLeaf
      BY <3>4 DEF Terminal, NoLeaf
    <3>6. QED BY <3>2, <3>3, <3>5
  <2>5. ASSUME NEW i \in Jobs, KeepingStep(i) PROVE Right(j, u)
    <3>1. CASE \/ \E payer \in Users : ArchiveSettlement(i, payer)
               \/ \E tree \in ArchiveTrees : ArchiveSettlementCompressed(i, tree)
               \/ \E poster \in Keepers : StoreCredential(poster, i)
                                          \/ ClearCredential(poster, i)
      BY <2>1, <3>1 DEF ArchiveSettlement, ArchiveSettlementCompressed,
                        StoreCredential, ClearCredential
    <3>2. QED BY <2>4, <2>5, <3>1 DEF KeepingStep
  <2>6. CASE UNCHANGED archiveVars
    BY <2>1, <2>6 DEF archiveVars
  <2>7. QED BY <2>2, <2>3, <2>5, <2>6 DEF ArchiveNext, PanelStep, PanelNext
<1>2. QED BY <1>1, ArchiveTypeCorrect, PTL DEF ArchiveSpec, FinishedPaysOnly

-----------------------------------------------------------------------------
(***************************************************************************)
(* Conservation over all instructions.  To the wallets and job accounts of *)
(* JobLedger come the vaults of disputes and the rent of the accounts that *)
(* are never closed.  An open dispute needs a real challenger to be paid   *)
(* back, and an archive is told from no archive by the life of its job.    *)
(***************************************************************************)
VaultsReady ==
  \A d \in Disputes : dispute[d].status = "OPEN" => dispute[d].challenger \in Users

FiniteArchive == FiniteLedger /\ IsFiniteSet(Disputes) /\ IsFiniteSet(Vaults)
                   /\ IsFiniteSet(Disputes \X Verifiers)

LedgerInv == ArchiveInv /\ VaultsReady

Vaulted == Total(vault, Disputes)

Held == Circulating + Vaulted + RentSunk

LEMMA ArchiveIsFinite == FiniteArchive
<1>1. IsFiniteSet(Jobs) /\ IsFiniteSet(Users) /\ IsFiniteSet(Disputes)
  BY ArchiveLedgerAssumption
<1>2. IsFiniteSet(Keepers) /\ IsFiniteSet(Verifiers)
  BY <1>1, FS_Subset, ArchiveAssumption, PanelAssumption
<1>3. IsFiniteSet(Vaults)
  BY <1>1, <1>2, FS_Product DEF Vaults
<1>4. IsFiniteSet(Disputes \X Verifiers)
  BY <1>1, <1>2, FS_Product
<1>5. QED BY <1>1, <1>3, <1>4 DEF FiniteArchive, FiniteLedger

LEMMA OneVault ==
  ASSUME FiniteArchive, NEW d \in Disputes,
         \A c \in Disputes : vault[c] \in Nat /\ vault'[c] \in Nat,
         \A c \in Disputes \ {d} : vault'[c] = vault[c]
  PROVE  Vaulted' = Vaulted + vault'[d] - vault[d]
<1>1. /\ IsFiniteSet(Disputes)
      /\ \A c \in Disputes : vault[c] \in Int /\ vault'[c] \in Int
  BY DEF FiniteArchive
<1>2. QED BY <1>1, TotalOne DEF Vaulted

LEMMA FiniteAccounts ==
  ASSUME FiniteArchive
  PROVE  /\ IsFiniteSet(ArchiveAccounts)
         /\ IsFiniteSet(CredentialAccounts)
         /\ IsFiniteSet(VoteAccounts)
<1>1. /\ ArchiveAccounts \subseteq Jobs
      /\ CredentialAccounts \subseteq Vaults
      /\ VoteAccounts \subseteq Disputes \X Verifiers
  BY DEF ArchiveAccounts, CredentialAccounts, VoteAccounts
<1>2. QED BY <1>1, FS_Subset DEF FiniteArchive, FiniteLedger

LEMMA SunkType ==
  ASSUME FiniteArchive
  PROVE  /\ ArchiveRent * Cardinality(ArchiveAccounts) \in Int
         /\ CredentialRent * Cardinality(CredentialAccounts) \in Int
         /\ VoteRent * Cardinality(VoteAccounts) \in Int
<1>1. /\ Cardinality(ArchiveAccounts) \in Nat
      /\ Cardinality(CredentialAccounts) \in Nat
      /\ Cardinality(VoteAccounts) \in Nat
  BY FiniteAccounts, FS_CardinalityType
<1>2. ArchiveRent \in Nat /\ CredentialRent \in Nat /\ VoteRent \in Nat
  BY ArchiveAssumption, PanelAssumption
<1>3. QED BY <1>1, <1>2

LEMMA HeldTypes ==
  ASSUME ArchiveTypeOK, FiniteArchive
  PROVE  /\ Total(wallet, Users) \in Int /\ Total(lamports, Jobs) \in Int
         /\ Vaulted \in Int /\ RentSunk \in Int
<1>1. TypeOK /\ FiniteLedger /\ IsFiniteSet(Disputes)
  BY DEF ArchiveTypeOK, PanelTypeOK, FiniteArchive
<1>2. \A d \in Disputes : vault[d] \in Int
  BY DEF ArchiveTypeOK, PanelTypeOK
<1>3. Vaulted \in Int
  BY <1>1, <1>2, TotalType DEF Vaulted
<1>4. RentSunk \in Int
  BY SunkType DEF RentSunk
<1>5. QED BY <1>1, <1>3, <1>4, TotalsAreIntegers

(* The three ledgers, read off a step.                                     *)
LEMMA WalletMoves ==
  ASSUME ArchiveTypeOK, ArchiveTypeOK', FiniteArchive, NEW u \in Users, NEW w,
         wallet' = [wallet EXCEPT ![u] = w]
  PROVE  Total(wallet', Users) = Total(wallet, Users) + w - wallet[u]
<1>1. /\ \A v \in Users : wallet[v] \in Nat /\ wallet'[v] \in Nat
      /\ \A v \in Users \ {u} : wallet'[v] = wallet[v]
      /\ wallet'[u] = w
  BY DEF ArchiveTypeOK, PanelTypeOK, TypeOK
<1>2. QED BY <1>1, OneWallet DEF FiniteArchive

LEMMA AccountMoves ==
  ASSUME ArchiveTypeOK, ArchiveTypeOK', FiniteArchive, NEW j \in Jobs, NEW m,
         lamports' = [lamports EXCEPT ![j] = m]
  PROVE  Total(lamports', Jobs) = Total(lamports, Jobs) + m - lamports[j]
<1>1. /\ \A k \in Jobs : lamports[k] \in Nat /\ lamports'[k] \in Nat
      /\ \A k \in Jobs \ {j} : lamports'[k] = lamports[k]
      /\ lamports'[j] = m
  BY DEF ArchiveTypeOK, PanelTypeOK, TypeOK
<1>2. QED BY <1>1, OneAccount DEF FiniteArchive

LEMMA VaultMoves ==
  ASSUME ArchiveTypeOK, ArchiveTypeOK', FiniteArchive, NEW d \in Disputes, NEW x,
         vault' = [vault EXCEPT ![d] = x]
  PROVE  Vaulted' = Vaulted + x - vault[d]
<1>1. /\ \A c \in Disputes : vault[c] \in Nat /\ vault'[c] \in Nat
      /\ \A c \in Disputes \ {d} : vault'[c] = vault[c]
      /\ vault'[d] = x
  BY DEF ArchiveTypeOK, PanelTypeOK
<1>2. QED BY <1>1, OneVault

LEMMA SunkStays ==
  ASSUME UNCHANGED <<vote, archive, credential>> PROVE RentSunk' = RentSunk
BY DEF RentSunk, ArchiveAccounts, CredentialAccounts, VoteAccounts

(* dispute.rs.                                                             *)
LEMMA OpenDisputeHolds ==
  ASSUME LedgerInv, ArchiveTypeOK', FiniteArchive, NEW d \in Disputes,
         NEW u \in Users, OpenDispute(d, u), UNCHANGED keptVars
  PROVE  Held' = Held
<1> DEFINE x == RentDue(DisputeRent, vault[d]) + DisputeStake(JobOf(d))
<1>1. /\ vault' = [vault EXCEPT ![d] = vault[d] + x]
      /\ wallet' = [wallet EXCEPT ![u] = wallet[u] - x]
      /\ UNCHANGED <<lamports, vote, archive, credential>>
  BY DEF OpenDispute, keptVars
<1>2. ArchiveTypeOK
  BY DEF LedgerInv, ArchiveInv
<1>3. x \in Int /\ vault[d] \in Int /\ wallet[u] \in Int
  BY <1>2, DisputeFacts DEF RentDue, ArchiveTypeOK, PanelTypeOK, TypeOK
<1> HIDE DEF x
<1>4. Total(wallet', Users) = Total(wallet, Users) + (wallet[u] - x) - wallet[u]
  BY <1>1, <1>2, WalletMoves
<1>5. Vaulted' = Vaulted + (vault[d] + x) - vault[d]
  BY <1>1, <1>2, VaultMoves
<1>6. Total(lamports', Jobs) = Total(lamports, Jobs) /\ RentSunk' = RentSunk
  BY <1>1, SunkStays
<1>7. QED BY <1>2, <1>3, <1>4, <1>5, <1>6, HeldTypes DEF Held, Circulating

LEMMA CastVoteHolds ==
  ASSUME LedgerInv, ArchiveTypeOK', FiniteArchive, NEW d \in Disputes,
         NEW u \in Verifiers, NEW verdict, CastVote(d, u, verdict), UNCHANGED keptVars
  PROVE  Held' = Held
<1>1. /\ wallet' = [wallet EXCEPT ![u] = wallet[u] - VoteRent]
      /\ vote' = [vote EXCEPT ![d][u] = verdict]
      /\ vote[d][u] = 0 /\ verdict # 0
      /\ UNCHANGED <<lamports, vault, archive, credential>>
  BY DEF CastVote, keptVars
<1>2. ArchiveTypeOK /\ u \in Users /\ VoteRent \in Nat
  BY PanelAssumption DEF LedgerInv, ArchiveInv
<1>3. wallet[u] \in Int
  BY <1>2 DEF ArchiveTypeOK, PanelTypeOK, TypeOK
<1>4. Total(wallet', Users) = Total(wallet, Users) + (wallet[u] - VoteRent) - wallet[u]
  BY <1>1, <1>2, WalletMoves
<1>5. VoteAccounts' = VoteAccounts \cup {<<d, u>>} /\ <<d, u>> \notin VoteAccounts
  <2>1. \A e \in Disputes, v \in Verifiers :
          vote'[e][v] = IF e = d /\ v = u THEN verdict ELSE vote[e][v]
    BY <1>1, <1>2 DEF ArchiveTypeOK, PanelTypeOK
  <2>2. \A b \in Disputes \X Verifiers : b[1] \in Disputes /\ b[2] \in Verifiers /\ b = <<b[1], b[2]>>
    OBVIOUS
  <2>3. \A b \in Disputes \X Verifiers :
          vote'[b[1]][b[2]] # 0 <=> vote[b[1]][b[2]] # 0 \/ b = <<d, u>>
    BY <1>1, <2>1, <2>2
  <2>4. <<d, u>> \in Disputes \X Verifiers
    OBVIOUS
  <2>5. vote[<<d, u>>[1]][<<d, u>>[2]] = 0
    BY <1>1
  <2>6. QED BY <2>3, <2>4, <2>5 DEF VoteAccounts
<1>6. VoteRent * Cardinality(VoteAccounts') = VoteRent * Cardinality(VoteAccounts) + VoteRent
  BY <1>2, <1>5, FiniteAccounts, OneMore
<1>7. RentSunk' = RentSunk + VoteRent
  <2>1. ArchiveAccounts' = ArchiveAccounts /\ CredentialAccounts' = CredentialAccounts
    BY <1>1 DEF ArchiveAccounts, CredentialAccounts
  <2>2. QED BY <1>2, <1>6, <2>1, SunkType DEF RentSunk
<1>8. Total(lamports', Jobs) = Total(lamports, Jobs) /\ Vaulted' = Vaulted
  BY <1>1 DEF Vaulted
<1>9. QED BY <1>2, <1>3, <1>4, <1>7, <1>8, HeldTypes DEF Held, Circulating

LEMMA AgentWinsHolds ==
  ASSUME LedgerInv, ArchiveTypeOK', FiniteArchive, NEW d \in Disputes, AgentWins(d),
         UNCHANGED keptVars
  PROVE  Held' = Held
<1> DEFINE j == JobOf(d)
           x == StakeBack(d)
<1>1. /\ vault' = [vault EXCEPT ![d] = vault[d] - x]
      /\ lamports' = [lamports EXCEPT ![j] = lamports[j] + x]
      /\ UNCHANGED <<wallet, vote, archive, credential>>
  BY DEF AgentWins, keptVars
<1>2. ArchiveTypeOK
  BY DEF LedgerInv, ArchiveInv
<1>3. x \in Int /\ vault[d] \in Int /\ lamports[j] \in Int /\ j \in Jobs
  BY <1>2, DisputeFacts DEF ArchiveTypeOK
<1> HIDE DEF j, x
<1>4. Total(lamports', Jobs) = Total(lamports, Jobs) + (lamports[j] + x) - lamports[j]
  BY <1>1, <1>2, <1>3, AccountMoves
<1>5. Vaulted' = Vaulted + (vault[d] - x) - vault[d]
  BY <1>1, <1>2, VaultMoves
<1>6. Total(wallet', Users) = Total(wallet, Users) /\ RentSunk' = RentSunk
  BY <1>1, SunkStays
<1>7. QED BY <1>2, <1>3, <1>4, <1>5, <1>6, HeldTypes DEF Held, Circulating

LEMMA ChallengerWinsHolds ==
  ASSUME LedgerInv, ArchiveTypeOK', FiniteArchive, NEW d \in Disputes, Decidable(d),
         ChallengerWins(d), UNCHANGED keptVars
  PROVE  Held' = Held
<1> DEFINE j == JobOf(d)
           u == dispute[d].challenger
           x == StakeBack(d)
           penalty == Lesser(job[j].claimer_stake, Available(j))
<1>1. /\ vault' = [vault EXCEPT ![d] = vault[d] - x]
      /\ lamports' = [lamports EXCEPT ![j] = lamports[j] - penalty]
      /\ wallet' = [wallet EXCEPT ![u] = wallet[u] + x + penalty]
      /\ UNCHANGED <<vote, archive, credential>>
  BY DEF ChallengerWins, keptVars
<1>2. ArchiveTypeOK /\ u \in Users
  BY DEF LedgerInv, ArchiveInv, VaultsReady, Decidable
<1>3. /\ x \in Int /\ vault[d] \in Int /\ lamports[j] \in Int /\ j \in Jobs
      /\ penalty \in Int /\ wallet[u] \in Int
  <2>1. x \in Int /\ vault[d] \in Int /\ lamports[j] \in Int /\ j \in Jobs
    BY <1>2, DisputeFacts DEF ArchiveTypeOK
  <2>2. penalty \in Int
    BY <1>2, DisputeFacts DEF ArchiveTypeOK, Lesser, JobAccount
  <2>3. QED BY <1>2, <2>1, <2>2 DEF ArchiveTypeOK, PanelTypeOK, TypeOK
<1> HIDE DEF j, u, x, penalty
<1>4. Total(lamports', Jobs) = Total(lamports, Jobs) + (lamports[j] - penalty) - lamports[j]
  BY <1>1, <1>2, <1>3, AccountMoves
<1>5. Vaulted' = Vaulted + (vault[d] - x) - vault[d]
  BY <1>1, <1>2, VaultMoves
<1>6. Total(wallet', Users) = Total(wallet, Users) + (wallet[u] + x + penalty) - wallet[u]
  BY <1>1, <1>2, WalletMoves
<1>7. RentSunk' = RentSunk
  BY <1>1, SunkStays
<1>8. QED BY <1>2, <1>3, <1>4, <1>5, <1>6, <1>7, HeldTypes DEF Held, Circulating

(* Job instructions conserve what circulates and see nothing else.         *)
LEMMA JobStepHolds ==
  ASSUME LedgerInv, ArchiveTypeOK', FiniteArchive, Next, UNCHANGED disputeVars,
         UNCHANGED keptVars
  PROVE  Held' = Held
<1>1. TypeOK /\ TypeOK' /\ FiniteLedger
  BY DEF LedgerInv, ArchiveInv, ArchiveTypeOK, PanelTypeOK, FiniteArchive
<1>2. Circulating' = Circulating
  BY <1>1, NextConserves
<1>3. Vaulted' = Vaulted /\ RentSunk' = RentSunk
  BY SunkStays DEF disputeVars, keptVars, Vaulted
<1>4. QED BY <1>2, <1>3 DEF Held

(* The refund that expire_claim takes from a job arrives in the vault.     *)
LEMMA ExpireIntoVaultHolds ==
  ASSUME LedgerInv, ArchiveTypeOK', FiniteArchive, NEW j \in Jobs, NEW d \in Disputes,
         ExpireClaimIntoVault(j, d), UNCHANGED keptVars
  PROVE  Held' = Held
<1> DEFINE x == Refund(j)
<1>1. /\ ExpireElsewhere(j)
      /\ vault' = [vault EXCEPT ![d] = vault[d] + x]
      /\ UNCHANGED <<vote, archive, credential>>
  BY DEF ExpireClaimIntoVault, keptVars
<1>2. /\ ArchiveTypeOK /\ FiniteLedger /\ TypeOK /\ TypeOK'
      /\ vault[d] \in Int
  BY DEF LedgerInv, ArchiveInv, ArchiveTypeOK, PanelTypeOK, FiniteArchive
<1>3. /\ Circulating' = Circulating - x
      /\ Circulating \in Int /\ x \in Nat
  BY <1>1, <1>2, ExpireElsewhereDebits
<1> HIDE DEF x
<1>4. Vaulted' = Vaulted + (vault[d] + x) - vault[d]
  BY <1>1, <1>2, VaultMoves
<1>5. RentSunk' = RentSunk
  BY <1>1, SunkStays
<1>6. QED BY <1>2, <1>3, <1>4, <1>5, HeldTypes DEF Held

LEMMA PanelStepHolds ==
  ASSUME LedgerInv, ArchiveTypeOK', FiniteArchive, PanelStep PROVE Held' = Held
<1>1. UNCHANGED keptVars /\ PanelNext
  BY DEF PanelStep
<1>2. ASSUME NEW d \in Disputes, DisputeStep(d) PROVE Held' = Held
  BY <1>1, <1>2, DisputeStepCases, OpenDisputeHolds, CastVoteHolds, AgentWinsHolds,
     ChallengerWinsHolds
<1>3. QED BY <1>1, <1>2, JobStepHolds, ExpireIntoVaultHolds DEF PanelNext

(* settlement.rs, compressed.rs, credential.rs.                            *)
LEMMA ArchiveSettlementHolds ==
  ASSUME LedgerInv, ArchiveTypeOK', FiniteArchive, NEW j \in Jobs, NEW u \in Users,
         ArchiveSettlement(j, u)
  PROVE  Held' = Held
<1>1. /\ wallet' = [wallet EXCEPT ![u] = wallet[u] - ArchiveRent]
      /\ archive' = [archive EXCEPT ![j] = Outcome(j)]
      /\ archive[j] = NoArchive
      /\ UNCHANGED <<lamports, vault, vote, credential>>
  BY DEF ArchiveSettlement, disputeVars
<1>2. ArchiveTypeOK /\ ArchiveRent \in Nat
  BY ArchiveAssumption DEF LedgerInv, ArchiveInv
<1>3. wallet[u] \in Int
  BY <1>2 DEF ArchiveTypeOK, PanelTypeOK, TypeOK
<1>4. Total(wallet', Users) = Total(wallet, Users) + (wallet[u] - ArchiveRent) - wallet[u]
  BY <1>1, <1>2, WalletMoves
<1>5. Outcome(j) # NoArchive
  <2>1. life[j] > 0
    BY SafeAt DEF LedgerInv, ArchiveSettlement, Archivable, Terminal, Exists
  <2>2. Outcome(j).life = life[j] /\ NoArchive.life = 0
    BY DEF Outcome, NoArchive
  <2>3. QED BY <2>1, <2>2
<1>6. ArchiveAccounts' = ArchiveAccounts \cup {j} /\ j \notin ArchiveAccounts
  <2>1. \A k \in Jobs : archive'[k] = IF k = j THEN Outcome(j) ELSE archive[k]
    BY <1>1, <1>2 DEF ArchiveTypeOK
  <2>2. QED BY <1>1, <1>5, <2>1 DEF ArchiveAccounts
<1>7. ArchiveRent * Cardinality(ArchiveAccounts')
        = ArchiveRent * Cardinality(ArchiveAccounts) + ArchiveRent
  BY <1>2, <1>6, FiniteAccounts, OneMore
<1>8. RentSunk' = RentSunk + ArchiveRent
  <2>1. CredentialAccounts' = CredentialAccounts /\ VoteAccounts' = VoteAccounts
    BY <1>1 DEF CredentialAccounts, VoteAccounts
  <2>2. QED BY <1>2, <1>7, <2>1, SunkType DEF RentSunk
<1>9. Total(lamports', Jobs) = Total(lamports, Jobs) /\ Vaulted' = Vaulted
  BY <1>1 DEF Vaulted
<1>10. QED BY <1>2, <1>3, <1>4, <1>8, <1>9, HeldTypes DEF Held, Circulating

LEMMA StoreCredentialHolds ==
  ASSUME LedgerInv, ArchiveTypeOK', FiniteArchive, NEW j \in Jobs, NEW u \in Keepers,
         StoreCredential(u, j)
  PROVE  Held' = Held
<1> DEFINE v == <<u, j>>
<1>1. /\ wallet' = [wallet EXCEPT ![u] = wallet[u] - CredentialRent]
      /\ credential' = [credential EXCEPT ![v] = "ACTIVE"]
      /\ credential[v] = "NONE"
      /\ UNCHANGED <<lamports, vault, vote, archive>>
  BY DEF StoreCredential, VaultNew, disputeVars
<1>2. ArchiveTypeOK /\ CredentialRent \in Nat /\ u \in Users /\ v \in Vaults
  BY ArchiveAssumption DEF LedgerInv, ArchiveInv, Vaults
<1> HIDE DEF v
<1>3. wallet[u] \in Int
  BY <1>2 DEF ArchiveTypeOK, PanelTypeOK, TypeOK
<1>4. Total(wallet', Users) = Total(wallet, Users) + (wallet[u] - CredentialRent) - wallet[u]
  BY <1>1, <1>2, WalletMoves
<1>5. CredentialAccounts' = CredentialAccounts \cup {v} /\ v \notin CredentialAccounts
  BY <1>1, <1>2 DEF CredentialAccounts, ArchiveTypeOK
<1>6. CredentialRent * Cardinality(CredentialAccounts')
        = CredentialRent * Cardinality(CredentialAccounts) + CredentialRent
  BY <1>2, <1>5, FiniteAccounts, OneMore
<1>7. RentSunk' = RentSunk + CredentialRent
  <2>1. ArchiveAccounts' = ArchiveAccounts /\ VoteAccounts' = VoteAccounts
    BY <1>1 DEF ArchiveAccounts, VoteAccounts
  <2>2. QED BY <1>2, <1>6, <2>1, SunkType DEF RentSunk
<1>8. Total(lamports', Jobs) = Total(lamports, Jobs) /\ Vaulted' = Vaulted
  BY <1>1 DEF Vaulted
<1>9. QED BY <1>2, <1>3, <1>4, <1>7, <1>8, HeldTypes DEF Held, Circulating

LEMMA CompressHolds ==
  ASSUME LedgerInv, ArchiveTypeOK', FiniteArchive, NEW j \in Jobs, NEW u \in Users,
         NEW tree, NEW repaid \in {0, JobRent}, CompressFinishedJob(j, u, tree, repaid)
  PROVE  Held' = Held
<1>1. /\ wallet' = [wallet EXCEPT ![u] = wallet[u] + lamports[j] - repaid]
      /\ lamports' = [lamports EXCEPT ![j] = repaid]
      /\ UNCHANGED <<vault, vote, archive, credential>>
  BY DEF CompressFinishedJob, Reclaimed, disputeVars
<1>2. ArchiveTypeOK
  BY DEF LedgerInv, ArchiveInv
<1>3. wallet[u] \in Int /\ lamports[j] \in Int /\ repaid \in Int
  BY <1>2, AmountAssumption DEF ArchiveTypeOK, PanelTypeOK, TypeOK
<1>4. Total(wallet', Users)
        = Total(wallet, Users) + (wallet[u] + lamports[j] - repaid) - wallet[u]
  BY <1>1, <1>2, WalletMoves
<1>5. Total(lamports', Jobs) = Total(lamports, Jobs) + repaid - lamports[j]
  BY <1>1, <1>2, AccountMoves
<1>6. Vaulted' = Vaulted /\ RentSunk' = RentSunk
  BY <1>1, SunkStays DEF Vaulted
<1>7. QED BY <1>2, <1>3, <1>4, <1>5, <1>6, HeldTypes DEF Held, Circulating

(* A compressed archive costs its sender no rent, clearing frees none.     *)
LEMMA ClearCredentialHolds ==
  ASSUME LedgerInv, NEW j \in Jobs, NEW u \in Keepers, ClearCredential(u, j)
  PROVE  Held' = Held
<1>1. /\ credential[<<u, j>>] # "NONE"
      /\ credential' = [credential EXCEPT ![<<u, j>>] = "CLEARED"]
      /\ UNCHANGED <<lamports, wallet, vault, vote, archive>>
  BY DEF ClearCredential, disputeVars
<1>2. CredentialAccounts' = CredentialAccounts
  BY <1>1 DEF CredentialAccounts, LedgerInv, ArchiveInv, ArchiveTypeOK
<1>3. ArchiveAccounts' = ArchiveAccounts /\ VoteAccounts' = VoteAccounts
  BY <1>1 DEF ArchiveAccounts, VoteAccounts
<1>4. QED BY <1>1, <1>2, <1>3 DEF Held, Circulating, Vaulted, RentSunk

LEMMA KeepingStepHolds ==
  ASSUME LedgerInv, ArchiveTypeOK', FiniteArchive, NEW j \in Jobs, KeepingStep(j)
  PROVE  Held' = Held
<1>1. ASSUME NEW tree \in ArchiveTrees, ArchiveSettlementCompressed(j, tree)
      PROVE  Held' = Held
  BY <1>1, SunkStays
  DEF ArchiveSettlementCompressed, disputeVars, Held, Circulating, Vaulted
<1>2. QED
  BY <1>1, ArchiveSettlementHolds, CompressHolds, StoreCredentialHolds,
     ClearCredentialHolds DEF KeepingStep

-----------------------------------------------------------------------------
(* An open dispute has a challenger.                                       *)
LEMMA VaultsReadyOn ==
  ASSUME LedgerInv, PanelNext PROVE VaultsReady'
<1>1. PanelTypeOK /\ VaultsReady
  BY DEF LedgerInv, ArchiveInv, ArchiveTypeOK
<1>2. ASSUME NEW d \in Disputes, NEW u \in Users, OpenDispute(d, u) PROVE VaultsReady'
  BY <1>1, <1>2 DEF OpenDispute, VaultsReady, PanelTypeOK
<1>3. ASSUME NEW d \in Disputes, AgentWins(d) \/ ChallengerWins(d), Decidable(d)
      PROVE  VaultsReady'
  <2>1. PICK st \in {"AGENT_WINS", "CHALLENGER_WINS"} :
          dispute' = [dispute EXCEPT ![d].status = st]
    BY <1>3 DEF AgentWins, ChallengerWins
  <2>2. \A c \in Disputes \ {d} : dispute'[c] = dispute[c]
    BY <1>1, <1>3 DEF AgentWins, ChallengerWins, PanelTypeOK
  <2>3. dispute'[d].status = st
    BY <1>1, <2>1 DEF PanelTypeOK, DisputeRecord
  <2>4. QED BY <1>1, <2>2, <2>3 DEF VaultsReady
<1>4. CASE UNCHANGED dispute
  BY <1>1, <1>4 DEF VaultsReady
<1>5. ASSUME NEW d \in Disputes, DisputeStep(d) PROVE VaultsReady'
  BY <1>2, <1>3, <1>4, <1>5, DisputeStepCases DEF CastVote
<1>6. QED BY <1>4, <1>5 DEF PanelNext, ExpireClaimIntoVault, disputeVars

LEMMA KeepingStepReady ==
  ASSUME LedgerInv, NEW j \in Jobs, KeepingStep(j) PROVE VaultsReady'
<1>1. UNCHANGED disputeVars
  BY DEF KeepingStep, ArchiveSettlement, ArchiveSettlementCompressed,
         CompressFinishedJob, StoreCredential, ClearCredential
<1>2. QED BY <1>1 DEF disputeVars, LedgerInv, VaultsReady

LEMMA LedgerInvariance == ArchiveSpec => []LedgerInv
<1>1. ArchiveInit => VaultsReady
  BY DEF ArchiveInit, PanelInit, VaultsReady, NoDispute
<1>2. LedgerInv /\ [ArchiveNext]_archiveVars => VaultsReady'
  <2> SUFFICES ASSUME LedgerInv, [ArchiveNext]_archiveVars PROVE VaultsReady'
    OBVIOUS
  <2>1. CASE UNCHANGED archiveVars
    BY <2>1 DEF archiveVars, LedgerInv, VaultsReady
  <2>2. CASE PanelStep
    BY <2>2, VaultsReadyOn DEF PanelStep
  <2>3. QED BY <2>1, <2>2, KeepingStepReady DEF ArchiveNext
<1>3. QED BY <1>1, <1>2, ArchiveInvariance, PTL DEF ArchiveSpec, LedgerInv

(* No instruction of the program makes or loses a lamport, whichever       *)
(* accounts were emptied, created again, archived or disputed before       *)
(* (job.rs, settlement.rs, dispute.rs, compressed.rs, credential.rs).      *)
THEOREM LedgerIsConserved == ArchiveSpec => []LedgerConserved
<1>1. ArchiveInit => LedgerConserved
  <2> SUFFICES ASSUME ArchiveInit PROVE LedgerConserved
    OBVIOUS
  <2>1. Total(lamports, Jobs) = 0 /\ Total(vault, Disputes) = 0
    BY ArchiveIsFinite, TotalZero
    DEF ArchiveInit, PanelInit, Init, FiniteArchive, FiniteLedger
  <2>2. wallet = Funds /\ Total(Funds, Users) \in Int
    BY ArchiveIsFinite, FundsAssumption, TotalType
    DEF ArchiveInit, PanelInit, Init, FiniteArchive, FiniteLedger
  <2>3. ArchiveAccounts = {} /\ CredentialAccounts = {} /\ VoteAccounts = {}
    BY DEF ArchiveInit, PanelInit, ArchiveAccounts, CredentialAccounts, VoteAccounts
  <2>4. RentSunk = 0
    BY <2>3, FS_EmptySet, ArchiveAssumption, PanelAssumption DEF RentSunk
  <2>5. QED BY <2>1, <2>2, <2>4 DEF LedgerConserved
<1>2. LedgerConserved <=> Held = Total(Funds, Users)
  BY DEF LedgerConserved, Held, Circulating, Vaulted
<1>3. LedgerInv /\ LedgerInv' /\ [ArchiveNext]_archiveVars => Held' = Held
  <2> SUFFICES ASSUME LedgerInv, LedgerInv', [ArchiveNext]_archiveVars
               PROVE  Held' = Held
    OBVIOUS
  <2>1. CASE UNCHANGED archiveVars
    BY <2>1, SunkStays DEF archiveVars, Held, Circulating, Vaulted
  <2>2. ArchiveTypeOK' /\ FiniteArchive
    BY ArchiveIsFinite DEF LedgerInv, ArchiveInv
  <2>3. QED BY <2>1, <2>2, PanelStepHolds, KeepingStepHolds DEF ArchiveNext
<1>4. LedgerInv /\ LedgerInv' /\ LedgerConserved /\ [ArchiveNext]_archiveVars
        => LedgerConserved'
  BY <1>2, <1>3 DEF LedgerConserved, Held, Circulating, Vaulted
<1>5. QED BY <1>1, <1>4, LedgerInvariance, PTL DEF ArchiveSpec

=============================================================================
