------------------------------ MODULE JobEscrow ------------------------------
(***************************************************************************)
(* The job half of the taskforest program: the escrow account of a job,    *)
(* from initialize_job to the instruction that pays it out.                *)
(*                                                                         *)
(* One action per instruction handler of programs/taskforest/src/          *)
(* instructions/{job,delegation,bidding,tee,proof,settlement}.rs.  An      *)
(* instruction is atomic: a failed require! reverts the transaction, so a  *)
(* handler is one action whose guard collects its checks, in their order.  *)
(*                                                                         *)
(* A job account is a program derived address seeded by (poster, job_id),  *)
(* so the address fixes the poster: Poster[j].  Its lamports are kept      *)
(* apart from its data, as the runtime keeps them.  Hashes, URIs, keys and *)
(* the privacy and verification-mode bytes, which no handler reads back,   *)
(* are left out; proof_hash keeps what settle_job tests, zero or not.      *)
(***************************************************************************)
EXTENDS Integers

CONSTANTS
  Jobs,          \* addresses of job accounts, root jobs and sub-jobs alike
  NoJob,         \* Pubkey::default() as parent_job
  Users,         \* wallets: posters, workers, bystanders
  NoOne,         \* a key nobody signs with, Pubkey::default() among them
  Poster,        \* the poster in the seeds of each job address
  Funds,         \* lamports of each wallet at the start
  JobRent,       \* Rent::minimum_balance(Job::SIZE)
  Rewards,       \* reward_lamports arguments
  Stakes,        \* stake_lamports arguments of place_bid
  Deadlines,     \* deadline arguments
  Levels,        \* verification_level arguments
  Reports,       \* attestation reports that reach verify_bid_attestation
  Validators,    \* the TEE validator allowlist of constants.rs
  REVIEW_PERIOD_SECS,
  DISPUTE_WINDOW_SECS,
  MaxTime,       \* bound: the clock stops here
  MaxBids        \* bound: bids on one job

ASSUME AddressAssumption == NoJob \notin Jobs /\ NoOne \notin Users
ASSUME PosterAssumption  == Poster \in [Jobs -> Users]
ASSUME FundsAssumption   == Funds \in [Users -> Nat]
ASSUME AmountAssumption  == /\ JobRent \in Nat \ {0}
                            /\ Rewards \subseteq Nat
                            /\ Stakes \subseteq Nat
ASSUME TimeAssumption    == /\ Deadlines \subseteq Nat
                            /\ Levels \subseteq Nat
                            /\ REVIEW_PERIOD_SECS \in Nat
                            /\ DISPUTE_WINDOW_SECS \in Nat \ {0}
                            /\ MaxTime \in Nat
ASSUME ReportAssumption  ==
  \A r \in Reports : /\ r.job \in Jobs /\ r.signed \in BOOLEAN
                     /\ r.issued_at \in Nat /\ r.expires_at \in Nat

VARIABLES
  job,           \* data of each job account
  lamports,      \* lamports of each job account
  wallet,        \* lamports of each user
  site,          \* where a job account can be written: "L1", "ER", "Returning"
  now            \* Clock::unix_timestamp

vars == <<job, lamports, wallet, site, now>>

-----------------------------------------------------------------------------
(* The account data (state/job.rs).                                        *)

Status == {"NONE", "OPEN", "BIDDING", "CLAIMED", "STAKED", "SUBMITTED",
           "DONE", "FAILED"}

JobAccount ==
  [status             : Status,
   reward             : Nat,
   deadline           : Nat,
   assignment_mode    : {0, 1},
   verification_level : Nat,
   claimer            : Users \cup {NoOne},
   claimer_stake      : Nat,
   best_bid_stake     : Nat,
   best_bidder        : Users \cup {NoOne},
   bid_count          : Nat,
   tee_verified       : BOOLEAN,
   proof_hash         : {0, 1},
   submitted_at       : Nat,
   dispute_window_end : Nat,
   parent_job         : Jobs \cup {NoJob},
   sub_job_count      : Nat]

(* No account at the address: the system program owns it.                  *)
Absent ==
  [status |-> "NONE", reward |-> 0, deadline |-> 0, assignment_mode |-> 0,
   verification_level |-> 0, claimer |-> NoOne, claimer_stake |-> 0,
   best_bid_stake |-> 0, best_bidder |-> NoOne, bid_count |-> 0,
   tee_verified |-> FALSE, proof_hash |-> 0, submitted_at |-> 0,
   dispute_window_end |-> 0, parent_job |-> NoJob, sub_job_count |-> 0]

(* The data both handlers that create a job write: everything not named    *)
(* here starts at zero.                                                    *)
NewJob(reward, deadline, mode, level) ==
  [Absent EXCEPT !.status = "OPEN", !.reward = reward, !.deadline = deadline,
                 !.assignment_mode = mode, !.verification_level = level]

Exists(j)   == job[j].status # "NONE"
Terminal(j) == job[j].status \in {"DONE", "FAILED"}

-----------------------------------------------------------------------------
(* The Ephemeral Rollup, external: a delegated account is owned by the     *)
(* delegation program on L1, where every instruction that takes it fails;  *)
(* in the rollup only instructions that write nothing but the job and the  *)
(* fee payer run.  close_bidding schedules the return, which L1 sees later.*)

OnL1(j)     == site[j] = "L1"
Writable(j) == site[j] \in {"L1", "ER"}

-----------------------------------------------------------------------------
(* Lamports.                                                               *)

Lesser(a, b) == IF a <= b THEN a ELSE b

(* lamports().saturating_sub(rent)                                         *)
Available(j) == IF lamports[j] >= JobRent THEN lamports[j] - JobRent ELSE 0

(* `init`: the payer tops an address that already holds lamports up to the *)
(* rent of its account; what is there beyond the rent stays there.         *)
RentDue(rent, balance) == IF balance >= rent THEN 0 ELSE rent - balance

(* Mutants: the `min` is dropped, or only the credit forgets it.           *)
PayOutUncapped(j, to, amount) ==
  /\ lamports' = [lamports EXCEPT ![j] = @ - amount]
  /\ wallet'   = [wallet EXCEPT ![to] = @ + amount]

PayOutCreditsAmount(j, to, amount) ==
  /\ lamports' = [lamports EXCEPT ![j] = @ - Lesser(amount, Available(j))]
  /\ wallet'   = [wallet EXCEPT ![to] = @ + amount]

(* What every handler that pays out of a job does: at most `amount`, never *)
(* below rent, to the account `to`.                                        *)
PayOut(j, to, amount) ==
  LET paid == Lesser(amount, Available(j))
  IN  /\ lamports' = [lamports EXCEPT ![j] = @ - paid]
      /\ wallet'   = [wallet EXCEPT ![to] = @ + paid]

-----------------------------------------------------------------------------
(* job.rs                                                                  *)

InitializeJob(j, reward, deadline, mode, level) ==
  LET p    == Poster[j]
      cost == RentDue(JobRent, lamports[j]) + reward
  IN  /\ ~ Exists(j)
      /\ reward > 0
      /\ deadline > now
      /\ wallet[p] >= cost
      /\ job'      = [job EXCEPT ![j] = NewJob(reward, deadline, mode, level)]
      /\ lamports' = [lamports EXCEPT ![j] = @ + cost]
      /\ wallet'   = [wallet EXCEPT ![p] = @ - cost]
      /\ UNCHANGED <<site, now>>

(* Mutant: a job that already has bids can be assigned too.                *)
AutoAssignUnclaimedJob(j, assigned_agent) ==
  /\ Writable(j)
  /\ job[j].status \in {"OPEN", "BIDDING"}
  /\ job[j].assignment_mode = 1
  /\ job' = [job EXCEPT ![j].claimer = assigned_agent, ![j].status = "CLAIMED"]
  /\ UNCHANGED <<lamports, wallet, site, now>>

(* The agent is any key: nothing says that anybody holds it.               *)
AutoAssignJob(j, assigned_agent) ==
  /\ Writable(j)
  /\ job[j].status = "OPEN"
  /\ job[j].assignment_mode = 1
  /\ job' = [job EXCEPT ![j].claimer = assigned_agent, ![j].status = "CLAIMED"]
  /\ UNCHANGED <<lamports, wallet, site, now>>

(* Mutants: the recorded reward is compared, not what is left of it;       *)
(* sub-jobs of finished work.                                              *)
EscrowCoversOnPaper(p, reward) ==
  job[p].status = "STAKED" /\ job[p].reward >= reward

EscrowCoversLate(p, reward) ==
  job[p].status \in {"STAKED", "SUBMITTED"} /\ Available(p) >= reward

EscrowCovers(p, reward) ==
  /\ job[p].status = "STAKED"
  /\ lamports[p] > JobRent
  /\ Available(p) >= reward

(* Mutant: the parent does not count its children.                         *)
AddSubJobUncounted(p, s, account) == job' = [job EXCEPT ![s] = account]

AddSubJob(p, s, account) ==
  job' = [job EXCEPT ![p].sub_job_count = @ + 1, ![s] = account]

(* Mutant: the parent pays the rent as well.                               *)
FundSubJobRentToo(p, s, reward) ==
  LET cost == RentDue(JobRent, lamports[s]) + reward
  IN  /\ lamports' = [lamports EXCEPT ![p] = @ - cost, ![s] = @ + cost]
      /\ UNCHANGED wallet

(* The orchestrator, the parent's claimer, pays the rent of the new        *)
(* account; the reward comes out of the parent's.                          *)
FundSubJob(p, s, reward) ==
  LET rent == RentDue(JobRent, lamports[s])
  IN  /\ lamports' = [lamports EXCEPT ![p] = @ - reward, ![s] = @ + rent + reward]
      /\ wallet'   = [wallet EXCEPT ![job[p].claimer] = @ - rent]

(* Nothing checks the deadline, and the address is the poster's next root  *)
(* job just as well.                                                       *)
CreateSubJob(p, s, assigned_agent, reward, deadline) ==
  /\ OnL1(p)
  /\ ~ Exists(s)
  /\ Poster[s] = Poster[p]
  /\ reward > 0
  /\ EscrowCovers(p, reward)
  /\ job[p].claimer \in Users
  /\ wallet[job[p].claimer] >= RentDue(JobRent, lamports[s])
  /\ AddSubJob(p, s,
       [NewJob(reward, deadline, 1, job[p].verification_level)
          EXCEPT !.claimer = assigned_agent, !.parent_job = p])
  /\ FundSubJob(p, s, reward)
  /\ UNCHANGED <<site, now>>

(* Mutants: the deadline itself counts as passed; unlocked claims stay.    *)
ClaimExpiredAtDeadline(j) ==
  job[j].status \in {"CLAIMED", "STAKED"} /\ now >= job[j].deadline

ClaimExpiredIfStaked(j) == job[j].status = "STAKED" /\ now > job[j].deadline

ClaimExpired(j) ==
  job[j].status \in {"CLAIMED", "STAKED"} /\ now > job[j].deadline

(* What the handler gives back, and what it writes into the job.           *)
Refund(j) == Lesser(job[j].reward, Available(j))

MarkExpired(j) ==
  /\ ClaimExpired(j)
  /\ job' = [job EXCEPT ![j].status = "FAILED"]
  /\ UNCHANGED <<site, now>>

(* Anyone may call it, and names the account that receives the refund: any *)
(* writable one, a wallet, another job, the address of one that does not   *)
(* exist, or the expired job itself, which then keeps the reward.  In that *)
(* case nothing but the job is written, and the rollup runs it as well.    *)
ExpireClaim(j, account) ==
  /\ MarkExpired(j)
  /\ \/ /\ account \in Users
        /\ OnL1(j)
        /\ PayOut(j, account, job[j].reward)
     \/ /\ account \in Jobs
        /\ IF account = j THEN Writable(j) ELSE OnL1(j)
        /\ lamports' = [[lamports EXCEPT ![j] = @ - Refund(j)]
                           EXCEPT ![account] = @ + Refund(j)]
        /\ UNCHANGED wallet

(* The same call naming an account this module does not have: the modules  *)
(* that add accounts of the program credit one of theirs.                  *)
ExpireElsewhere(j) ==
  /\ MarkExpired(j)
  /\ OnL1(j)
  /\ lamports' = [lamports EXCEPT ![j] = @ - Refund(j)]
  /\ UNCHANGED wallet

ExpireUnclaimed(j) ==
  /\ OnL1(j)
  /\ job[j].status \in {"OPEN", "BIDDING"}
  /\ now > job[j].deadline
  /\ PayOut(j, Poster[j], job[j].reward)
  /\ job' = [job EXCEPT ![j].status = "FAILED"]
  /\ UNCHANGED <<site, now>>

(* Mutant: the poster can still move the deadline of a claimed job.        *)
ExtendAnyDeadline(j, new_deadline) ==
  /\ Writable(j)
  /\ Exists(j)
  /\ new_deadline > now
  /\ job' = [job EXCEPT ![j].deadline = new_deadline]
  /\ UNCHANGED <<lamports, wallet, site, now>>

(* Despite its name it may move the deadline either way.                   *)
ExtendDeadline(j, new_deadline) ==
  /\ Writable(j)
  /\ job[j].status \in {"OPEN", "BIDDING"}
  /\ new_deadline > now
  /\ job' = [job EXCEPT ![j].deadline = new_deadline]
  /\ UNCHANGED <<lamports, wallet, site, now>>

-----------------------------------------------------------------------------
(* delegation.rs, tee.rs, bidding.rs                                       *)

DelegateJob(j) ==
  /\ OnL1(j)
  /\ job[j].status = "OPEN"
  /\ site' = [site EXCEPT ![j] = "ER"]
  /\ UNCHANGED <<job, lamports, wallet, now>>

(* Mutant: the ed25519 instruction is not looked for.                      *)
ReportAcceptedUnsigned(r, j) ==
  /\ r.job = j
  /\ r.validator \in Validators
  /\ r.issued_at <= now /\ now <= r.expires_at

(* A report is bound to the job's id and poster, signed by the validator   *)
(* that submits it, and read inside its time window.                       *)
ReportAccepted(r, j) ==
  /\ r.job = j
  /\ r.validator \in Validators
  /\ r.signed
  /\ r.issued_at <= now /\ now <= r.expires_at

VerifyBidAttestation(j, r) ==
  /\ Writable(j)
  /\ ReportAccepted(r, j)
  /\ job[j].status \in {"OPEN", "BIDDING"}
  /\ job' = [job EXCEPT ![j].tee_verified = TRUE]
  /\ UNCHANGED <<lamports, wallet, site, now>>

(* No lamports move: the bidder needs none yet.  Only a strictly higher    *)
(* stake replaces the best bid.                                            *)
PlaceBid(j, bidder, stake) ==
  LET best == stake > job[j].best_bid_stake
  IN  /\ Writable(j)
      /\ job[j].bid_count < MaxBids
      /\ stake > 0
      /\ job[j].status \in {"OPEN", "BIDDING"}
      /\ stake >= job[j].reward \div 10
      /\ now <= job[j].deadline
      /\ job' = [job EXCEPT
                   ![j].status         = "BIDDING",
                   ![j].bid_count      = @ + 1,
                   ![j].best_bid_stake = IF best THEN stake ELSE @,
                   ![j].best_bidder    = IF best THEN bidder ELSE @]
      /\ UNCHANGED <<lamports, wallet, site, now>>

(* Runs in the rollup only, where the magic program it calls lives.        *)
CloseBidding(j) ==
  /\ site[j] = "ER"
  /\ job[j].status = "BIDDING"
  /\ job[j].bid_count > 0
  /\ job[j].tee_verified
  /\ job' = [job EXCEPT ![j].claimer       = job[j].best_bidder,
                        ![j].claimer_stake = job[j].best_bid_stake,
                        ![j].status        = "CLAIMED"]
  /\ site' = [site EXCEPT ![j] = "Returning"]
  /\ UNCHANGED <<lamports, wallet, now>>

(* External: the rollup hands the account back to the program on L1.       *)
Undelegate(j) ==
  /\ site[j] = "Returning"
  /\ site' = [site EXCEPT ![j] = "L1"]
  /\ UNCHANGED <<job, lamports, wallet, now>>

LockStake(j) ==
  LET claimer == job[j].claimer
      stake   == job[j].claimer_stake
  IN  /\ OnL1(j)
      /\ job[j].status = "CLAIMED"
      /\ claimer \in Users
      /\ stake > 0
      /\ wallet[claimer] >= stake
      /\ job'      = [job EXCEPT ![j].status = "STAKED"]
      /\ lamports' = [lamports EXCEPT ![j] = @ + stake]
      /\ wallet'   = [wallet EXCEPT ![claimer] = @ - stake]
      /\ UNCHANGED <<site, now>>

-----------------------------------------------------------------------------
(* proof.rs: three submit handlers, signed by the claimer; they differ in  *)
(* what they record of the execution, and only the verified one opens a    *)
(* window.                                                                 *)

Submit(j, proof_hash, window_end) ==
  /\ Writable(j)
  /\ job[j].claimer \in Users
  /\ job[j].status \in {"CLAIMED", "STAKED"}
  /\ now <= job[j].deadline
  /\ job' = [job EXCEPT ![j].proof_hash         = proof_hash,
                        ![j].submitted_at       = now,
                        ![j].dispute_window_end = window_end,
                        ![j].status             = "SUBMITTED"]
  /\ UNCHANGED <<lamports, wallet, site, now>>

SubmitProof(j, proof_hash) ==
  Submit(j, proof_hash, job[j].dispute_window_end)

SubmitEncryptedProof(j, proof_hash) ==
  Submit(j, proof_hash, job[j].dispute_window_end)

SubmitVerifiedProof(j, proof_hash) ==
  Submit(j, proof_hash, IF job[j].verification_level >= 1
                        THEN now + DISPUTE_WINDOW_SECS ELSE 0)

-----------------------------------------------------------------------------
(* settlement.rs                                                           *)

(* PASS, and every path by which the claimer is paid.                      *)
PayClaimer(j) ==
  /\ job[j].claimer \in Users
  /\ PayOut(j, job[j].claimer, job[j].reward + job[j].claimer_stake)
  /\ job' = [job EXCEPT ![j].status = "DONE"]
  /\ UNCHANGED <<site, now>>

AutoSettle(j) ==
  /\ OnL1(j)
  /\ job[j].status = "SUBMITTED"
  /\ job[j].dispute_window_end > 0
  /\ now > job[j].dispute_window_end
  /\ PayClaimer(j)

(* The poster's verdict: 1 is PASS, 0 is FAIL.                             *)
SettleJob(j, verdict) ==
  /\ OnL1(j)
  /\ job[j].status = "SUBMITTED"
  /\ job[j].proof_hash # 0
  /\ verdict <= 1
  /\ \/ /\ verdict = 1
        /\ PayClaimer(j)
     \/ /\ verdict # 1
        /\ PayOut(j, Poster[j], job[j].reward)
        /\ job' = [job EXCEPT ![j].status = "FAILED"]
        /\ UNCHANGED <<site, now>>

(* Mutant: the status is not checked.                                      *)
ClaimTimeoutAnyStatus(j) ==
  /\ OnL1(j)
  /\ now > job[j].submitted_at + REVIEW_PERIOD_SECS
  /\ PayClaimer(j)

ClaimTimeout(j) ==
  /\ OnL1(j)
  /\ job[j].status = "SUBMITTED"
  /\ now > job[j].submitted_at + REVIEW_PERIOD_SECS
  /\ PayClaimer(j)

-----------------------------------------------------------------------------
(* The clock sysvar, external.                                             *)
Tick ==
  /\ now < MaxTime
  /\ now' = now + 1
  /\ UNCHANGED <<job, lamports, wallet, site>>

Init ==
  /\ job      = [j \in Jobs |-> Absent]
  /\ lamports = [j \in Jobs |-> 0]
  /\ wallet   = Funds
  /\ site     = [j \in Jobs |-> "L1"]
  /\ now      = 0

(* The poster's instructions on job j.                                     *)
PosterStep(j) ==
  \/ \E reward \in Rewards, deadline \in Deadlines, mode \in {0, 1},
        level \in Levels : InitializeJob(j, reward, deadline, mode, level)
  \/ \E agent \in Users \cup {NoOne} : AutoAssignJob(j, agent)
  \/ \E deadline \in Deadlines : ExtendDeadline(j, deadline)
  \/ DelegateJob(j)
  \/ ExpireUnclaimed(j)
  \/ \E verdict \in 0..2 : SettleJob(j, verdict)

(* Its claimer's.                                                          *)
ClaimerStep(j) ==
  \/ LockStake(j)
  \/ \E s \in Jobs, agent \in Users \cup {NoOne}, reward \in Rewards,
        deadline \in Deadlines : CreateSubJob(j, s, agent, reward, deadline)
  \/ \E proof_hash \in {0, 1} : \/ SubmitProof(j, proof_hash)
                               \/ SubmitEncryptedProof(j, proof_hash)
                               \/ SubmitVerifiedProof(j, proof_hash)
  \/ AutoSettle(j)
  \/ ClaimTimeout(j)

(* Bidders', validators', anyone's.                                        *)
OtherStep(j) ==
  \/ \E bidder \in Users, stake \in Stakes : PlaceBid(j, bidder, stake)
  \/ \E r \in Reports : VerifyBidAttestation(j, r)
  \/ CloseBidding(j)
  \/ Undelegate(j)
  \/ \E account \in Users \cup Jobs : ExpireClaim(j, account)

Next ==
  \/ Tick
  \/ \E j \in Jobs : PosterStep(j) \/ ClaimerStep(j) \/ OtherStep(j)

Spec == Init /\ [][Next]_vars

-----------------------------------------------------------------------------
(* Properties.                                                             *)

TypeOK ==
  /\ job      \in [Jobs -> JobAccount]
  /\ lamports \in [Jobs -> Nat]
  /\ wallet   \in [Users -> Nat]
  /\ site     \in [Jobs -> {"L1", "ER", "Returning"}]
  /\ now      \in Nat

(* A job account covers what it owes, status by status: the full reward    *)
(* until work starts, the stake too once it is locked, and never less than *)
(* its rent, however many sub-jobs were funded from it.  It may hold more: *)
(* expire_claim can credit it with another job's refund at any time, even  *)
(* before it exists.  What each step takes is ImplementsContract's matter. *)
Balanced(a, m, where) ==
  /\ a.status = "NONE"  => where = "L1"
  /\ a.status # "NONE"  => m >= JobRent
  /\ a.status \in {"OPEN", "BIDDING", "CLAIMED"} => m >= JobRent + a.reward
  /\ a.status = "STAKED" /\ a.sub_job_count = 0 =>
       m >= JobRent + a.reward + a.claimer_stake
  /\ a.status = "SUBMITTED" /\ a.sub_job_count = 0 => m >= JobRent + a.reward

EscrowBalance == \A j \in Jobs : Balanced(job[j], lamports[j], site[j])

(* Where a claim comes from: either the poster's router assigned it, and   *)
(* then it carries no stake and no sub-job can hang off it, or it won an   *)
(* attested auction with the best bid, at least a tenth of the reward.     *)
(* Either way, work that was handed in has a claimer who can be paid.      *)
Assigned(a)  == a.assignment_mode = 1 /\ a.claimer_stake = 0 /\ a.bid_count = 0

BestBidSound(a) ==
  /\ a.bid_count > 0
  /\ a.best_bidder \in Users
  /\ a.best_bid_stake > 0
  /\ a.best_bid_stake >= a.reward \div 10

Auctioned(a) ==
  /\ BestBidSound(a)
  /\ a.tee_verified
  /\ a.claimer = a.best_bidder
  /\ a.claimer_stake = a.best_bid_stake

Provenance(a) ==
  /\ a.status = "OPEN" => a.bid_count = 0 /\ a.best_bid_stake = 0
                           /\ a.claimer_stake = 0 /\ a.sub_job_count = 0
  /\ a.status = "BIDDING" => BestBidSound(a) /\ a.claimer_stake = 0
                              /\ a.sub_job_count = 0
  /\ a.status = "CLAIMED" => (Assigned(a) \/ Auctioned(a)) /\ a.sub_job_count = 0
  /\ a.status = "STAKED" => Auctioned(a)
  /\ a.status \in {"SUBMITTED", "DONE"} =>
       /\ a.claimer \in Users
       /\ Auctioned(a) \/ (Assigned(a) /\ a.sub_job_count = 0)

ClaimProvenance == \A j \in Jobs : Provenance(job[j])

(* close_bidding trusts tee_verified long after the attestation: it was    *)
(* set by an allowed validator's signed report on this very job.           *)
AttestedByValidator ==
  \A j \in Jobs : job[j].tee_verified =>
    \E r \in Reports : /\ r.job = j /\ r.signed
                       /\ r.validator \in Validators
                       /\ r.issued_at <= now

(* The deadline leaves no instant at which claimed work can be both handed *)
(* in and expired, and, unless the job was assigned to a key nobody signs  *)
(* with, none at which it can be neither (submit_proof tests               *)
(* now <= deadline, expire_claim now > deadline, in two files).            *)
DeadlineDecides ==
  \A j \in Jobs :
    OnL1(j) /\ job[j].status \in {"CLAIMED", "STAKED"} =>
      LET submit == ENABLED SubmitProof(j, 1)
          expire == ENABLED ExpireClaim(j, Poster[j])
      IN  /\ ~ (submit /\ expire)
          /\ submit \/ expire \/ job[j].claimer \notin Users

(* Once a job is claimed, what was agreed is fixed: no later instruction   *)
(* changes claimer, stake, reward, deadline or verification level.         *)
Terms(a) == <<a.claimer, a.claimer_stake, a.reward, a.deadline,
              a.verification_level>>

ClaimTermsFixed ==
  [][\A j \in Jobs :
       job[j].status \notin {"NONE", "OPEN", "BIDDING"} =>
         Terms(job'[j]) = Terms(job[j])]_vars

(* Liveness.  No instruction runs by itself: each is sent by somebody it    *)
(* serves.  Fairness is assumed of the clock, of the rollup that returns an *)
(* account, and of three senders acting in their own interest: the poster  *)
(* who reclaims an unclaimed job, the claimer who collects after the review *)
(* period, and whoever cranks expire_claim, which needs no signature.      *)
Fairness ==
  /\ WF_vars(Tick)
  /\ \A j \in Jobs :
       /\ WF_vars(Undelegate(j))
       /\ WF_vars(\E account \in Users \cup Jobs : ExpireClaim(j, account))
       /\ WF_vars(ExpireUnclaimed(j))
       /\ WF_vars(ClaimTimeout(j))

FairSpec == Spec /\ Fairness

(* Claimed work on L1, or on its way back there, is always settled or      *)
(* expired: neither a silent poster nor a silent claimer keeps the reward  *)
(* in the account for ever.                                                *)
ClaimResolves ==
  \A j \in Jobs :
    (site[j] # "ER" /\ job[j].status \in {"CLAIMED", "STAKED", "SUBMITTED"})
      ~> Terminal(j)

(* The escrow contract the job program implements: phases from statuses,   *)
(* price and bond from the terms, what is held from the lamports above     *)
(* rent.                                                                   *)
PhaseOf(status) ==
  CASE status = "NONE"                -> "absent"
    [] status \in {"OPEN", "BIDDING"} -> "funded"
    [] status = "CLAIMED"             -> "engaged"
    [] status = "STAKED"              -> "secured"
    [] status = "SUBMITTED"           -> "delivered"
    [] status = "DONE"                -> "released"
    [] status = "FAILED"              -> "refunded"

Contract == INSTANCE EscrowContract WITH
  Deals <- Jobs,
  phase <- [j \in Jobs |-> PhaseOf(job[j].status)],
  price <- [j \in Jobs |-> job[j].reward],
  bond  <- [j \in Jobs |-> job[j].claimer_stake],
  held  <- [j \in Jobs |-> Available(j)]

(* Every behaviour of the job instructions, taken alone, is one of the     *)
(* abstract contract: a settled or expired job never pays again, only a    *)
(* submitted one is released, money leaves an account in no other step and *)
(* to the lamport, and no step takes any from a deal it is not about.      *)
ImplementsContract == Contract!ContractSpec

=============================================================================
