---------------------------- MODULE DisputePanel ----------------------------
(***************************************************************************)
(* Disputes over submitted work, on top of JobEscrow: programs/taskforest/ *)
(* src/instructions/dispute.rs.  A dispute account is seeded by the job and *)
(* a thread number, so a thread of a job is disputed at most once; a vote  *)
(* account by the dispute and the verifier, so a wallet votes at most once. *)
(*                                                                         *)
(* The job instructions go on unchanged: none of them reads a dispute, and *)
(* the one way they reach a dispute account is a refund that expire_claim  *)
(* credits to it.  That is where the interleavings of this module come     *)
(* from.                                                                   *)
(***************************************************************************)
EXTENDS JobEscrow, FiniteSets

CONSTANTS
  Disputes,      \* addresses of dispute accounts: <<job, disputed_thread>>
  Verifiers,     \* the wallets that vote (any wallet may)
  DisputeRent,   \* Rent::minimum_balance(DisputeRecord::SIZE)
  VoteRent,      \* Rent::minimum_balance(VerifierVote::SIZE)
  PANEL_QUORUM

ASSUME PanelAssumption == /\ \A d \in Disputes : d[1] \in Jobs
                          /\ Verifiers \subseteq Users
                          /\ DisputeRent \in Nat \ {0}
                          /\ VoteRent \in Nat
                          /\ PANEL_QUORUM \in Nat

VARIABLES
  dispute,       \* data of each dispute account
  vault,         \* lamports of each dispute account
  vote           \* verdict in each vote account, 0 if there is none

disputeVars == <<dispute, vault, vote>>
allVars     == <<job, lamports, wallet, site, now, dispute, vault, vote>>

JobOf(d) == d[1]

DisputeStatus == {"NONE", "OPEN", "AGENT_WINS", "CHALLENGER_WINS"}

DisputeRecord ==
  [status           : DisputeStatus,
   challenger       : Users \cup {NoOne},
   challenger_stake : Nat,
   opened_at        : Nat]

NoDispute == [status |-> "NONE", challenger |-> NoOne, challenger_stake |-> 0,
              opened_at |-> 0]

DisputeStake(j) == job[j].reward \div 10

-----------------------------------------------------------------------------
(* Mutant: the boundary of the window.                                     *)
WindowOpenForever(j) == job[j].dispute_window_end > 0

WindowOpen(j) ==
  job[j].dispute_window_end > 0 /\ now < job[j].dispute_window_end

(* The job account is passed as mutable but not written.                   *)
OpenDispute(d, challenger) ==
  LET j    == JobOf(d)
      cost == RentDue(DisputeRent, vault[d]) + DisputeStake(j)
  IN  /\ OnL1(j)
      /\ dispute[d].status = "NONE"
      /\ job[j].status = "SUBMITTED"
      /\ WindowOpen(j)
      /\ challenger # job[j].claimer
      /\ wallet[challenger] >= cost
      /\ dispute' = [dispute EXCEPT ![d] =
                      [status |-> "OPEN", challenger |-> challenger,
                       challenger_stake |-> DisputeStake(j), opened_at |-> now]]
      /\ vault'   = [vault EXCEPT ![d] = @ + cost]
      /\ wallet'  = [wallet EXCEPT ![challenger] = @ - cost]
      /\ UNCHANGED <<job, lamports, site, now, vote>>

(* Mutant: the whole account is paid out.                                  *)
StakeBackWithRent(d) == vault[d]

(* What a dispute account can pay: its challenger's stake, never its rent. *)
StakeBack(d) ==
  Lesser(dispute[d].challenger_stake,
         IF vault[d] >= DisputeRent THEN vault[d] - DisputeRent ELSE 0)

(* Mutant: the stake is paid to the claimer instead of the job account.    *)
AgentWinsPaidOut(d) ==
  /\ vault'   = [vault EXCEPT ![d] = @ - StakeBack(d)]
  /\ wallet'  = [wallet EXCEPT ![job[JobOf(d)].claimer] = @ + StakeBack(d)]
  /\ dispute' = [dispute EXCEPT ![d].status = "AGENT_WINS"]
  /\ UNCHANGED <<job, lamports, site, now, vote>>

(* Verdict 1: the challenger's stake goes to the job account, whatever the *)
(* job has become meanwhile; its status stays.                             *)
AgentWins(d) ==
  LET j == JobOf(d)
  IN  /\ vault'    = [vault EXCEPT ![d] = @ - StakeBack(d)]
      /\ lamports' = [lamports EXCEPT ![j] = @ + StakeBack(d)]
      /\ dispute'  = [dispute EXCEPT ![d].status = "AGENT_WINS"]
      /\ UNCHANGED <<job, wallet, site, now, vote>>

(* Mutant: the job stays payable.                                          *)
ChallengerWinsJobKept(d) ==
  LET challenger == dispute[d].challenger
  IN  /\ vault'   = [vault EXCEPT ![d] = @ - StakeBack(d)]
      /\ wallet'  = [wallet EXCEPT ![challenger] = @ + StakeBack(d)]
      /\ dispute' = [dispute EXCEPT ![d].status = "CHALLENGER_WINS"]
      /\ UNCHANGED <<job, lamports, site, now, vote>>

(* Mutant: the penalty is not capped by what the job holds.                *)
ChallengerWinsUncapped(d) ==
  LET j          == JobOf(d)
      challenger == dispute[d].challenger
      penalty    == job[j].claimer_stake
  IN  /\ vault'    = [vault EXCEPT ![d] = @ - StakeBack(d)]
      /\ lamports' = [lamports EXCEPT ![j] = @ - penalty]
      /\ wallet'   = [wallet EXCEPT ![challenger] = @ + StakeBack(d) + penalty]
      /\ job'      = [job EXCEPT ![j].status = "FAILED"]
      /\ dispute'  = [dispute EXCEPT ![d].status = "CHALLENGER_WINS"]
      /\ UNCHANGED <<site, now, vote>>

(* Mutant: checked_sub on the job account, an error when it holds less.    *)
ChallengerWinsInFull(d) ==
  LET j          == JobOf(d)
      challenger == dispute[d].challenger
      penalty    == job[j].claimer_stake
  IN  /\ penalty <= Available(j)
      /\ vault'    = [vault EXCEPT ![d] = @ - StakeBack(d)]
      /\ lamports' = [lamports EXCEPT ![j] = @ - penalty]
      /\ wallet'   = [wallet EXCEPT ![challenger] = @ + StakeBack(d) + penalty]
      /\ job'      = [job EXCEPT ![j].status = "FAILED"]
      /\ dispute'  = [dispute EXCEPT ![d].status = "CHALLENGER_WINS"]
      /\ UNCHANGED <<site, now, vote>>

(* Verdict 2: the challenger gets its stake back and the claimer's, or as  *)
(* much of it as the job account holds; the job fails.                     *)
ChallengerWins(d) ==
  LET j          == JobOf(d)
      challenger == dispute[d].challenger
      penalty    == Lesser(job[j].claimer_stake, Available(j))
  IN  /\ vault'    = [vault EXCEPT ![d] = @ - StakeBack(d)]
      /\ lamports' = [lamports EXCEPT ![j] = @ - penalty]
      /\ wallet'   = [wallet EXCEPT ![challenger] = @ + StakeBack(d) + penalty]
      /\ job'      = [job EXCEPT ![j].status = "FAILED"]
      /\ dispute'  = [dispute EXCEPT ![d].status = "CHALLENGER_WINS"]
      /\ UNCHANGED <<site, now, vote>>

(* Mutant: a dispute can be decided again.                                 *)
DecidableAgain(d) == OnL1(JobOf(d)) /\ Exists(JobOf(d)) /\ dispute[d].status # "NONE"

(* Both deciding instructions look at the dispute only, not at the job.    *)
Decidable(d) == OnL1(JobOf(d)) /\ Exists(JobOf(d)) /\ dispute[d].status = "OPEN"

(* The poster decides.                                                     *)
ResolveDispute(d, verdict) ==
  /\ Decidable(d)
  /\ \/ verdict = 1 /\ AgentWins(d)
     \/ verdict = 2 /\ ChallengerWins(d)

(* Mutant: votes go on after the verdict.                                  *)
CastVoteAnyTime(d, verifier, verdict) ==
  /\ dispute[d].status # "NONE"
  /\ vote[d][verifier] = 0
  /\ wallet[verifier] >= VoteRent
  /\ vote'   = [vote EXCEPT ![d][verifier] = verdict]
  /\ wallet' = [wallet EXCEPT ![verifier] = @ - VoteRent]
  /\ UNCHANGED <<job, lamports, site, now, dispute, vault>>

CastVote(d, verifier, verdict) ==
  /\ dispute[d].status = "OPEN"
  /\ verdict \in {1, 2}
  /\ vote[d][verifier] = 0
  /\ wallet[verifier] >= VoteRent
  /\ vote'   = [vote EXCEPT ![d][verifier] = verdict]
  /\ wallet' = [wallet EXCEPT ![verifier] = @ - VoteRent]
  /\ UNCHANGED <<job, lamports, site, now, dispute, vault>>

(* Anyone decides, by showing accounts of its choice that read as votes on *)
(* this dispute, `ayes` of them for the agent and `nays` for the           *)
(* challenger, at least a quorum together; an even count is the            *)
(* challenger's.  Neither the owner nor the address of such an account is  *)
(* checked, so that the counts are not bound to the votes cast.            *)
TallyPanel(d, ayes, nays) ==
  /\ Decidable(d)
  /\ ayes + nays >= PANEL_QUORUM
  /\ \/ ayes > nays /\ AgentWins(d)
     \/ ayes <= nays /\ ChallengerWins(d)

(* expire_claim (job.rs) naming a dispute account.                         *)
ExpireClaimIntoVault(j, d) ==
  /\ ExpireElsewhere(j)
  /\ vault' = [vault EXCEPT ![d] = @ + Refund(j)]
  /\ UNCHANGED <<dispute, vote>>

-----------------------------------------------------------------------------
PanelInit ==
  /\ Init
  /\ dispute = [d \in Disputes |-> NoDispute]
  /\ vault   = [d \in Disputes |-> 0]
  /\ vote    = [d \in Disputes |-> [u \in Verifiers |-> 0]]

(* Counts above the quorum decide nothing that these do not.               *)
DisputeStep(d) ==
  \/ \E challenger \in Users : OpenDispute(d, challenger)
  \/ \E verifier \in Verifiers, verdict \in 0..2 : CastVote(d, verifier, verdict)
  \/ \E ayes, nays \in 0..PANEL_QUORUM : TallyPanel(d, ayes, nays)
  \/ \E verdict \in 0..2 : ResolveDispute(d, verdict)

PanelNext ==
  \/ Next /\ UNCHANGED disputeVars
  \/ \E j \in Jobs, d \in Disputes : ExpireClaimIntoVault(j, d)
  \/ \E d \in Disputes : DisputeStep(d)

PanelSpec == PanelInit /\ [][PanelNext]_allVars

-----------------------------------------------------------------------------
(* Properties.                                                             *)

PanelTypeOK ==
  /\ TypeOK
  /\ dispute \in [Disputes -> DisputeRecord]
  /\ vault   \in [Disputes -> Nat]
  /\ vote    \in [Disputes -> [Verifiers -> 0..2]]

(* An open dispute can always pay its challenger's stake to whoever wins,  *)
(* and a decided one keeps its rent, whatever expire_claim put there       *)
(* before, between or after.                                               *)
VaultSolvent ==
  \A d \in Disputes :
    /\ dispute[d].status = "OPEN" => vault[d] >= DisputeRent + dispute[d].challenger_stake
    /\ dispute[d].status # "NONE" => vault[d] >= DisputeRent

(* Verdicts reach a job at any time, before or after it was paid out, and  *)
(* several may hit one job; none ever takes its account below rent.        *)
RentHeld == \A j \in Jobs : Exists(j) => lamports[j] >= JobRent

(* A dispute is about work that was handed in, raised in its window by     *)
(* somebody other than the claimer, however late it is decided.            *)
DisputeFounded ==
  \A d \in Disputes :
    LET a == job[JobOf(d)]
    IN  dispute[d].status # "NONE" =>
          /\ a.status \in {"SUBMITTED", "DONE", "FAILED"}
          /\ a.submitted_at <= dispute[d].opened_at
          /\ dispute[d].opened_at < a.dispute_window_end
          /\ dispute[d].challenger # a.claimer
          /\ dispute[d].challenger_stake = a.reward \div 10

(* A job that lost a dispute has failed, and its claimer is not paid for   *)
(* it any more, whatever timeout or verdict was still on its way.          *)
LostMeansFailed ==
  \A d \in Disputes :
    dispute[d].status = "CHALLENGER_WINS" => job[JobOf(d)].status = "FAILED"

(* The window closes before automatic payment opens: no instant admits     *)
(* both open_dispute and auto_settle.                                      *)
WindowExclusive ==
  \A d \in Disputes :
    ~ /\ ENABLED AutoSettle(JobOf(d))
      /\ \E challenger \in Users : ENABLED OpenDispute(d, challenger)

(* No dispute gets stuck: as long as its job is there, either verdict can  *)
(* be given on it, whatever earlier payouts and verdicts left in the job   *)
(* account and however far the account has moved on.                       *)
VerdictPossible ==
  \A d \in Disputes, verdict \in {1, 2} :
    dispute[d].status = "OPEN" => ENABLED ResolveDispute(d, verdict)

(* A verdict is final, and so are the votes behind it.                     *)
VerdictFinal ==
  [][\A d \in Disputes :
       dispute[d].status \in {"AGENT_WINS", "CHALLENGER_WINS"} =>
         dispute'[d] = dispute[d] /\ vote'[d] = vote[d]]_allVars

(* After settlement only a dispute of that very job, decided in the same   *)
(* step, revises it or takes from it, and then its terms stay and the only *)
(* status it can get is FAILED.  All that other jobs can do to it is to    *)
(* leave it the refund of a claim that expires in that step.               *)
VerdictOn(j) ==
  \E d \in Disputes : /\ JobOf(d) = j
                      /\ dispute[d].status = "OPEN"
                      /\ dispute'[d].status # "OPEN"

ClaimLapses ==
  \E k \in Jobs : job[k].status \in {"CLAIMED", "STAKED"} /\ job'[k].status = "FAILED"

RevisedOnlyByVerdict ==
  [][\A j \in Jobs :
       Terminal(j) /\ <<job'[j], lamports'[j]>> # <<job[j], lamports[j]>> =>
         \/ /\ VerdictOn(j)
            /\ job'[j] \in {job[j], [job[j] EXCEPT !.status = "FAILED"]}
         \/ /\ ClaimLapses
            /\ job'[j] = job[j]
            /\ lamports'[j] > lamports[j]]_allVars

(* The arbitration the panel implements: rulings from dispute statuses,    *)
(* chests from the lamports above rent, bonds from locked claims.          *)
RulingOf(status) ==
  CASE status = "NONE"            -> "none"
    [] status = "OPEN"            -> "open"
    [] status = "AGENT_WINS"      -> "upheld"
    [] status = "CHALLENGER_WINS" -> "reversed"

Arbitrated == INSTANCE Arbitration WITH
  Deals  <- Jobs,
  Cases  <- Disputes,
  DealOf <- [d \in Disputes |-> JobOf(d)],
  phase  <- [j \in Jobs |-> PhaseOf(job[j].status)],
  held   <- [j \in Jobs |-> Available(j)],
  bond   <- [j \in Jobs |-> job[j].claimer_stake],
  ruling <- [d \in Disputes |-> RulingOf(dispute[d].status)],
  pledge <- [d \in Disputes |->
               IF dispute[d].status = "OPEN" THEN dispute[d].challenger_stake ELSE 0],
  chest  <- [d \in Disputes |->
               IF vault[d] >= DisputeRent THEN vault[d] - DisputeRent ELSE 0]

(* Job instructions and verdicts together keep the promises of arbitration:*)
(* raised on delivered work only, decided once, stake and penalty paid to  *)
(* the lamport, and a reversed job refunded from whichever phase it had    *)
(* reached.                                                                *)
ImplementsArbitration == Arbitrated!ArbitrationSpec

=============================================================================
