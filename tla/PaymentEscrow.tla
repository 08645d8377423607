---------------------------- MODULE PaymentEscrow ----------------------------
(***************************************************************************)
(* The taskforest-payments program (programs/taskforest-payments/src/      *)
(* instructions/{payment,compressed}.rs), next to the job program whose    *)
(* accounts it reads: an escrow names a job, and takes poster and agent    *)
(* from it when it is created, once and for all.                           *)
(*                                                                         *)
(* An escrow address is seeded by the escrow id alone, whoever the poster  *)
(* is.  tee_pubkey and the settlement hash, copied and never read, are     *)
(* left out, and so are request_count and the timestamps.                  *)
(***************************************************************************)
EXTENDS JobEscrow

CONSTANTS
  EscrowIds,         \* escrow_id arguments
  Sessions,          \* mpp_session_id arguments
  Deposits,          \* deposit_lamports arguments
  Amounts,           \* amount and total_paid arguments
  PaymentReports,    \* attestation reports that reach verify_tee_attestation
  NoValidator,       \* Pubkey::default() as validator
  NoRecord,          \* no settlement record, no compressed leaf
  LeafTrees,         \* address trees picked for compressed settlements
  EscrowRent,        \* Rent::minimum_balance(EscrowWrapper::SIZE)
  RecordRent         \* Rent::minimum_balance(SettlementRecord::SIZE)

ASSUME PaymentAssumption ==
  /\ Deposits \subseteq Nat /\ Amounts \subseteq Nat
  /\ EscrowRent \in Nat /\ RecordRent \in Nat
  /\ NoValidator \notin Validators
  /\ \A r \in PaymentReports :
       r.issued_at \in Nat /\ r.expires_at \in Nat /\ r.signed \in BOOLEAN

VARIABLES
  escrow,            \* data of each EscrowWrapper
  purse,             \* its lamports
  place,             \* where it can be written: "L1" or "ER"
  record,            \* the settlement record account of each escrow id
  leaf               \* its compressed settlements, by tree

payVars     == <<escrow, purse, place, record, leaf>>
paymentVars == <<job, lamports, wallet, site, now,
                 escrow, purse, place, record, leaf>>

EscrowStatus == {"NONE", "ACTIVE", "DELEGATED", "SETTLED"}

EscrowWrapper ==
  [status       : EscrowStatus,
   job          : Jobs \cup {NoJob},
   poster       : Users \cup {NoOne},
   agent        : Users \cup {NoOne},
   validator    : Validators \cup {NoValidator},
   session      : Sessions \cup {NoRecord},
   deposited    : Nat,
   total_paid   : Nat,
   tee_verified : BOOLEAN]

NoEscrow == [status |-> "NONE", job |-> NoJob, poster |-> NoOne, agent |-> NoOne,
             validator |-> NoValidator, session |-> NoRecord, deposited |-> 0,
             total_paid |-> 0, tee_verified |-> FALSE]

(* What SettlementRecord and CompressedSettlement both state.              *)
Settlement == [agent : Users \cup {NoOne}, total_deposited : Nat, total_paid : Nat]

ASSUME RecordAssumption == NoRecord \notin Settlement

Created(e) == escrow[e].status # "NONE"

-----------------------------------------------------------------------------
(* Mutant: the bidder that leads when the escrow is made is its agent.     *)
AgentOfLeader(j) == job[j].best_bidder

(* Whoever has the job then, nobody if it is not claimed yet.              *)
AgentOf(j) == job[j].claimer

CreateEscrowWrapper(e, j, deposit, session) ==
  LET p    == Poster[j]
      cost == RentDue(EscrowRent, purse[e]) + deposit
  IN  /\ ~ Created(e)
      /\ OnL1(j) /\ Exists(j)
      /\ wallet[p] >= cost
      /\ escrow' = [escrow EXCEPT ![e] =
                     [NoEscrow EXCEPT !.status = "ACTIVE", !.job = j, !.poster = p,
                                      !.agent = AgentOf(j), !.session = session,
                                      !.deposited = deposit]]
      /\ purse'  = [purse EXCEPT ![e] = @ + cost]
      /\ wallet' = [wallet EXCEPT ![p] = @ - cost]
      /\ UNCHANGED <<job, lamports, site, now, place, record, leaf>>

(* The status stays ACTIVE, and the program has no instruction that asks   *)
(* for the account back.                                                   *)
DelegateToPer(e) ==
  /\ place[e] = "L1"
  /\ escrow[e].status = "ACTIVE"
  /\ place' = [place EXCEPT ![e] = "ER"]
  /\ UNCHANGED <<job, lamports, wallet, site, now, escrow, purse, record, leaf>>

(* Mutant: the report is not bound to the escrow.                          *)
ReportFitsJobOnly(e, r) ==
  /\ r.validator \in Validators
  /\ r.signed
  /\ r.job = escrow[e].job
  /\ r.issued_at <= now /\ now <= r.expires_at

ReportFits(e, r) ==
  /\ r.validator \in Validators
  /\ r.signed
  /\ r.escrow = e
  /\ r.job = escrow[e].job
  /\ r.session = escrow[e].session
  /\ r.issued_at <= now /\ now <= r.expires_at

(* Runs on L1 or, delegated, in the rollup: it writes the escrow only.     *)
VerifyTeeAttestation(e, r) ==
  /\ escrow[e].status = "ACTIVE"
  /\ ReportFits(e, r)
  /\ escrow' = [escrow EXCEPT ![e].validator    = r.validator,
                              ![e].tee_verified = TRUE,
                              ![e].status       = "DELEGATED"]
  /\ UNCHANGED <<job, lamports, wallet, site, now, purse, place, record, leaf>>

(* Mutant: each payment fits the deposit, but not their sum.               *)
EachWithinBudget(e, amount) == amount <= escrow[e].deposited

WithinBudget(e, amount) == escrow[e].total_paid + amount <= escrow[e].deposited

RecordPayment(e, caller, amount) ==
  /\ amount > 0
  /\ escrow[e].status = "DELEGATED"
  /\ caller \in {escrow[e].agent, escrow[e].validator}
  /\ WithinBudget(e, amount)
  /\ escrow' = [escrow EXCEPT ![e].total_paid = @ + amount]
  /\ UNCHANGED <<job, lamports, wallet, site, now, purse, place, record, leaf>>

(* Mutant: the total the sender claims is settled.                         *)
TotalClaimed(e, claimed) == claimed

(* "Use on-chain metered total": the argument is ignored.                  *)
TotalSettled(e, claimed) == escrow[e].total_paid

(* Mutant: the rent goes back to the poster as well.                       *)
RefundWithRent(e, paid) == purse[e] - paid

RefundDue(e, paid) ==
  Lesser(escrow[e].deposited - paid,
         IF purse[e] - paid >= EscrowRent THEN purse[e] - paid - EscrowRent ELSE 0)

(* Mutant: a record that exists is written again.                          *)
RecordReusable(e) == Created(e)

(* The record account is created: that, and no test of the status, is what *)
(* makes settlement happen once.                                           *)
Recordable(e) == Created(e) /\ record[e] = NoRecord

(* Mutant: balances read up front are written back, one after the other.   *)
SettledWalletsCached(payer, agent, poster, total, back) ==
  [wallet EXCEPT ![payer]  = wallet[payer] - RecordRent,
                 ![agent]  = wallet[agent] + total,
                 ![poster] = wallet[poster] + back]

(* Payer, agent and poster may well be one wallet: each amount is added to *)
(* what the one before it left.                                            *)
SettledWallets(payer, agent, poster, total, back) ==
  LET charged == [wallet EXCEPT ![payer] = @ - RecordRent]
      paid    == [charged EXCEPT ![agent] = @ + total]
  IN  [paid EXCEPT ![poster] = @ + back]

(* Anyone may send it.  The accounts it pays make it an L1 instruction,    *)
(* and one that names Pubkey::default() as a writable agent is rejected.   *)
RecordSettlement(e, payer, claimed) ==
  LET total == TotalSettled(e, claimed)
      back  == RefundDue(e, total)
      agent == escrow[e].agent
  IN  /\ place[e] = "L1"
      /\ Recordable(e)
      /\ agent \in Users
      /\ wallet[payer] >= RecordRent
      /\ total <= escrow[e].deposited
      /\ record' = [record EXCEPT ![e] =
                     [agent |-> agent, total_deposited |-> escrow[e].deposited,
                      total_paid |-> total]]
      /\ escrow' = [escrow EXCEPT ![e].status = "SETTLED"]
      /\ purse'  = [purse EXCEPT ![e] = @ - total - back]
      /\ wallet' = SettledWallets(payer, agent, escrow[e].poster, total, back)
      /\ UNCHANGED <<job, lamports, site, now, place, leaf>>

(* Any signer, any status, any total; once for each address tree, since    *)
(* the address of the leaf is derived from the escrow's and the tree's.    *)
CompressSettlement(e, tree, total_paid) ==
  /\ place[e] = "L1"
  /\ Created(e)
  /\ leaf[e][tree] = NoRecord
  /\ leaf' = [leaf EXCEPT ![e][tree] =
               [agent |-> escrow[e].agent, total_deposited |-> escrow[e].deposited,
                total_paid |-> total_paid]]
  /\ UNCHANGED <<job, lamports, wallet, site, now, escrow, purse, place, record>>

(* expire_claim of the job program naming an escrow account.               *)
ExpireClaimIntoPurse(j, e) ==
  /\ ExpireElsewhere(j)
  /\ purse' = [purse EXCEPT ![e] = @ + Refund(j)]
  /\ UNCHANGED <<escrow, place, record, leaf>>

-----------------------------------------------------------------------------
PaymentInit ==
  /\ Init
  /\ escrow = [e \in EscrowIds |-> NoEscrow]
  /\ purse  = [e \in EscrowIds |-> 0]
  /\ place  = [e \in EscrowIds |-> "L1"]
  /\ record = [e \in EscrowIds |-> NoRecord]
  /\ leaf   = [e \in EscrowIds |-> [t \in LeafTrees |-> NoRecord]]

PaymentStep(e) ==
  \/ \E j \in Jobs, deposit \in Deposits, session \in Sessions :
       CreateEscrowWrapper(e, j, deposit, session)
  \/ DelegateToPer(e)
  \/ \E r \in PaymentReports : VerifyTeeAttestation(e, r)
  \/ \E caller \in Users \cup Validators, amount \in Amounts :
       RecordPayment(e, caller, amount)
  \/ \E payer \in Users, claimed \in Amounts : RecordSettlement(e, payer, claimed)
  \/ \E tree \in LeafTrees, total \in Amounts : CompressSettlement(e, tree, total)

PaymentNext ==
  \/ Next /\ UNCHANGED payVars
  \/ \E j \in Jobs, e \in EscrowIds : ExpireClaimIntoPurse(j, e)
  \/ \E e \in EscrowIds : PaymentStep(e)

PaymentSpec == PaymentInit /\ [][PaymentNext]_paymentVars

-----------------------------------------------------------------------------
(* Properties.                                                             *)

PaymentTypeOK ==
  /\ TypeOK
  /\ escrow \in [EscrowIds -> EscrowWrapper]
  /\ purse  \in [EscrowIds -> Nat]
  /\ place  \in [EscrowIds -> {"L1", "ER"}]
  /\ record \in [EscrowIds -> Settlement \cup {NoRecord}]
  /\ leaf   \in [EscrowIds -> [LeafTrees -> Settlement \cup {NoRecord}]]

(* The deposit is whole until settlement, and the rent after it: whatever  *)
(* was metered and whatever a refund of the job program added, agent and   *)
(* poster can be paid all of the deposit, and the account stays.           *)
PurseAccounted ==
  \A e \in EscrowIds :
    Created(e) =>
      purse[e] >= EscrowRent + (IF escrow[e].status = "SETTLED" THEN 0
                                ELSE escrow[e].deposited)

(* Metered payments are backed: they fit the deposit together, and a       *)
(* validator of the list has attested this escrow, its job and its session.*)
MeteringBacked ==
  \A e \in EscrowIds :
    escrow[e].total_paid > 0 =>
      /\ escrow[e].total_paid <= escrow[e].deposited
      /\ \E r \in PaymentReports :
           /\ r.signed /\ r.validator = escrow[e].validator
           /\ r.escrow = e /\ r.job = escrow[e].job
           /\ r.session = escrow[e].session
           /\ r.issued_at <= now

(* Across the two programs: who was paid from the escrow of a root job is  *)
(* who had the job then and still has it, although the escrow copied the   *)
(* claimer when it was created, at whatever stage of the job that was.     *)
(* Not so for sub-jobs: create_sub_job names a claimer and leaves the job  *)
(* OPEN, so that a later assignment or auction may replace the agent an    *)
(* escrow has copied.                                                      *)
PaidAgentIsClaimer ==
  \A e \in EscrowIds :
    record[e] # NoRecord =>
      /\ job[escrow[e].job].parent_job = NoJob =>
           record[e].agent = job[escrow[e].job].claimer
      /\ record[e].total_paid = escrow[e].total_paid

(* A settlement is final: no retry, late payment or second sender changes  *)
(* its record or its escrow, or takes anything from its account again.     *)
SettlementFinal ==
  [][\A e \in EscrowIds :
       record[e] # NoRecord =>
         /\ record'[e] = record[e]
         /\ escrow'[e] = escrow[e]
         /\ purse'[e] >= purse[e]]_paymentVars

(* The payment channel an escrow implements.                               *)
ChannelPhase(status) ==
  CASE status = "NONE"      -> "absent"
    [] status = "ACTIVE"    -> "open"
    [] status = "DELEGATED" -> "metering"
    [] status = "SETTLED"   -> "closed"

Channel == INSTANCE MeteredChannel WITH
  Channels <- EscrowIds,
  phase    <- [e \in EscrowIds |-> ChannelPhase(escrow[e].status)],
  budget   <- [e \in EscrowIds |-> escrow[e].deposited],
  metered  <- [e \in EscrowIds |-> escrow[e].total_paid],
  held     <- [e \in EscrowIds |->
                 IF purse[e] >= EscrowRent THEN purse[e] - EscrowRent ELSE 0]

(* Whatever happens to the job meanwhile, an escrow is a metered channel:  *)
(* no metering before attestation or after closing, never beyond budget,   *)
(* and one closing that takes the budget out, to the lamport.              *)
ImplementsChannel == Channel!ChannelSpec

=============================================================================
