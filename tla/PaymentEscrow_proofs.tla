------------------------ MODULE PaymentEscrow_proofs ------------------------
(***************************************************************************)
(* Proofs about PaymentEscrow, for all values of its constants.  Payment   *)
(* instructions write no job; of a job instruction the proofs use what it  *)
(* makes of one account (Evolves in JobEscrow_proofs), that the clock does *)
(* not run backwards, and that it takes nothing from an escrow.            *)
(***************************************************************************)
EXTENDS PaymentLedger, JobLedger_proofs, JobContract_proofs

(***************************************************************************)
(* The invariant, escrow by escrow.  That the purse covers what was        *)
(* metered, which keeps it a natural number, needs PurseAccounted; that a  *)
(* settlement record exists exactly when the escrow is settled is what     *)
(* makes the creation of the record an effective guard.                    *)
(***************************************************************************)
Funded(e) ==
  Created(e) =>
    purse[e] >= EscrowRent + (IF escrow[e].status = "SETTLED" THEN 0
                              ELSE escrow[e].deposited)

Attested(e) ==
  \E r \in PaymentReports :
    /\ r.signed /\ r.validator = escrow[e].validator
    /\ r.escrow = e /\ r.job = escrow[e].job
    /\ r.session = escrow[e].session
    /\ r.issued_at <= now

Metered(e) ==
  /\ escrow[e].total_paid <= escrow[e].deposited
  /\ escrow[e].status = "DELEGATED" \/ escrow[e].total_paid > 0 => Attested(e)

Recorded(e) ==
  /\ record[e] # NoRecord <=> escrow[e].status = "SETTLED"
  /\ record[e] # NoRecord => /\ record[e].agent = escrow[e].agent
                             /\ escrow[e].agent \in Users
                             /\ record[e].total_paid = escrow[e].total_paid

(* The agent of a root job's escrow has the job, or there is no agent.     *)
Copied(e) ==
  escrow[e].agent \in Users =>
    /\ escrow[e].job \in Jobs
    /\ job[escrow[e].job].status # "NONE"
    /\ job[escrow[e].job].parent_job = NoJob =>
         /\ job[escrow[e].job].status \notin Unclaimed
         /\ job[escrow[e].job].claimer = escrow[e].agent

Unused(e) == IF Created(e) THEN escrow[e].poster \in Users ELSE escrow[e] = NoEscrow

EscrowSound(e) == Funded(e) /\ Metered(e) /\ Recorded(e) /\ Copied(e) /\ Unused(e)

JobsVacant == \A j \in Jobs : Vacant(job[j])

PaymentInv == /\ PaymentTypeOK
              /\ JobsVacant
              /\ \A e \in EscrowIds : EscrowSound(e)

LEMMA EscrowFacts ==
  ASSUME PaymentInv, NEW e \in EscrowIds
  PROVE  /\ escrow[e] \in EscrowWrapper
         /\ purse[e] \in Nat
         /\ escrow[e].deposited \in Nat
         /\ escrow[e].total_paid \in Nat
         /\ EscrowRent \in Nat /\ RecordRent \in Nat
         /\ EscrowSound(e)
BY PaymentAssumption DEF PaymentInv, PaymentTypeOK, EscrowWrapper

(* An instruction on one escrow, the jobs and the clock left alone.        *)
LEMMA OneEscrow ==
  ASSUME PaymentInv, NEW e \in EscrowIds, NEW a, NEW m, NEW r,
         escrow' = [escrow EXCEPT ![e] = a],
         purse'  = [purse EXCEPT ![e] = m],
         record' = [record EXCEPT ![e] = r],
         UNCHANGED <<job, lamports, site, now>>,
         a \in EscrowWrapper, m \in Nat, r \in Settlement \cup {NoRecord},
         wallet' \in [Users -> Nat],
         place' \in [EscrowIds -> {"L1", "ER"}],
         leaf' \in [EscrowIds -> [LeafTrees -> Settlement \cup {NoRecord}]],
         EscrowSound(e)'
  PROVE  PaymentInv'
<1>1. PaymentTypeOK'
  BY DEF PaymentInv, PaymentTypeOK, TypeOK
<1>2. JobsVacant'
  BY DEF PaymentInv, JobsVacant
<1>3. ASSUME NEW f \in EscrowIds PROVE EscrowSound(f)'
  <2>1. CASE f = e
    BY <2>1
  <2>2. CASE f # e
    <3>1. /\ escrow'[f] = escrow[f] /\ purse'[f] = purse[f] /\ record'[f] = record[f]
          /\ EscrowSound(f)
      BY <2>2 DEF PaymentInv, PaymentTypeOK
    <3>2. QED
      BY <3>1
      DEF EscrowSound, Funded, Metered, Attested, Recorded, Copied, Unused,
          Created
  <2>3. QED BY <2>1, <2>2
<1>4. QED BY <1>1, <1>2, <1>3 DEF PaymentInv

LEMMA CreateSound ==
  ASSUME PaymentInv, NEW e \in EscrowIds, NEW j \in Jobs, NEW deposit \in Deposits,
         NEW session \in Sessions, CreateEscrowWrapper(e, j, deposit, session)
  PROVE  PaymentInv'
<1> DEFINE a == [NoEscrow EXCEPT !.status = "ACTIVE", !.job = j, !.poster = Poster[j],
                                 !.agent = job[j].claimer, !.session = session,
                                 !.deposited = deposit]
           cost == RentDue(EscrowRent, purse[e]) + deposit
<1>1. /\ deposit \in Nat /\ EscrowRent \in Nat /\ Poster[j] \in Users
      /\ purse[e] \in Nat /\ cost \in Nat
      /\ purse[e] + cost >= EscrowRent + deposit
  <2>1. /\ deposit \in Nat /\ EscrowRent \in Nat /\ Poster[j] \in Users
        /\ purse[e] \in Nat
    BY PaymentAssumption, PosterAssumption, EscrowFacts
  <2>2. QED BY <2>1 DEF RentDue
<1>2. job[j] \in JobAccount /\ Vacant(job[j])
  BY DEF PaymentInv, PaymentTypeOK, TypeOK, JobsVacant
<1>3. a \in EscrowWrapper
  BY <1>1, <1>2 DEF NoEscrow, EscrowWrapper, EscrowStatus, JobAccount
<1>4. /\ escrow' = [escrow EXCEPT ![e] = a]
      /\ purse' = [purse EXCEPT ![e] = purse[e] + cost]
      /\ record' = [record EXCEPT ![e] = record[e]]
      /\ UNCHANGED <<job, lamports, site, now, place, leaf>>
  BY DEF CreateEscrowWrapper, AgentOf, PaymentInv, PaymentTypeOK
<1>5. wallet' \in [Users -> Nat]
  <2>1. /\ wallet' = [wallet EXCEPT ![Poster[j]] = @ - cost]
        /\ wallet[Poster[j]] >= cost
        /\ wallet \in [Users -> Nat]
    BY DEF CreateEscrowWrapper, PaymentInv, PaymentTypeOK, TypeOK
  <2> HIDE DEF cost
  <2>2. QED BY <1>1, <2>1
<1> HIDE DEF cost
<1>6. EscrowSound(e)'
  <2>1. escrow'[e] = a /\ purse'[e] = purse[e] + cost /\ record'[e] = record[e]
    BY <1>4 DEF PaymentInv, PaymentTypeOK
  <2>2. /\ a.status = "ACTIVE" /\ a.total_paid = 0 /\ a.deposited = deposit
        /\ a.job = j /\ a.agent = job[j].claimer /\ a.poster = Poster[j]
    BY DEF NoEscrow
  <2> HIDE DEF a
  <2>3. Funded(e)' /\ Unused(e)'
    BY <1>1, <2>1, <2>2 DEF Funded, Unused, Created
  <2>4. Metered(e)'
    BY <1>1, <2>1, <2>2 DEF Metered
  <2>5. Recorded(e)'
    <3>1. record[e] = NoRecord
      BY EscrowFacts DEF CreateEscrowWrapper, Created, EscrowSound, Recorded
    <3>2. QED BY <2>1, <2>2, <3>1 DEF Recorded
  <2>6. Copied(e)'
    BY <1>2, <1>4, <2>1, <2>2, AddressAssumption
    DEF Copied, Vacant, CreateEscrowWrapper, Exists
  <2>7. QED BY <2>3, <2>4, <2>5, <2>6 DEF EscrowSound
<1>7. purse[e] + cost \in Nat /\ record[e] \in Settlement \cup {NoRecord}
  BY <1>1, <1>4 DEF PaymentInv, PaymentTypeOK
<1>8. place' \in [EscrowIds -> {"L1", "ER"}] /\ leaf' \in [EscrowIds -> [LeafTrees -> Settlement \cup {NoRecord}]]
  BY <1>4 DEF PaymentInv, PaymentTypeOK
<1> HIDE DEF a
<1>9. QED BY <1>3, <1>4, <1>5, <1>6, <1>7, <1>8, OneEscrow

LEMMA VerifySound ==
  ASSUME PaymentInv, NEW e \in EscrowIds, NEW r \in PaymentReports,
         VerifyTeeAttestation(e, r)
  PROVE  PaymentInv'
<1> DEFINE a == [escrow[e] EXCEPT !.validator = r.validator, !.tee_verified = TRUE,
                                  !.status = "DELEGATED"]
<1>1. escrow[e] \in EscrowWrapper /\ EscrowSound(e) /\ escrow[e].status = "ACTIVE"
  BY EscrowFacts DEF VerifyTeeAttestation
<1>2. a \in EscrowWrapper
  BY <1>1 DEF VerifyTeeAttestation, ReportFits, EscrowWrapper, EscrowStatus
<1>3. /\ escrow' = [escrow EXCEPT ![e] = a]
      /\ purse' = [purse EXCEPT ![e] = purse[e]]
      /\ record' = [record EXCEPT ![e] = record[e]]
      /\ UNCHANGED <<job, lamports, wallet, site, now, place, leaf>>
  BY DEF VerifyTeeAttestation, PaymentInv, PaymentTypeOK
<1>4. EscrowSound(e)'
  <2>1. escrow'[e] = a /\ purse'[e] = purse[e] /\ record'[e] = record[e]
    BY <1>3 DEF PaymentInv, PaymentTypeOK
  <2>2. /\ a.status = "DELEGATED" /\ a.validator = r.validator
        /\ a.total_paid = escrow[e].total_paid /\ a.deposited = escrow[e].deposited
        /\ a.job = escrow[e].job /\ a.agent = escrow[e].agent
        /\ a.poster = escrow[e].poster
        /\ a.session = escrow[e].session
    BY <1>1 DEF EscrowWrapper
  <2> HIDE DEF a
  <2>3. Funded(e)' /\ Unused(e)'
    BY <1>1, <2>1, <2>2 DEF EscrowSound, Funded, Unused, Created
  <2>4. Metered(e)'
    <3>1. Attested(e)'
      BY <1>3, <2>1, <2>2 DEF VerifyTeeAttestation, ReportFits, Attested
    <3>2. QED BY <1>1, <2>1, <2>2, <3>1 DEF EscrowSound, Metered
  <2>5. Recorded(e)' /\ Copied(e)'
    BY <1>1, <1>3, <2>1, <2>2 DEF EscrowSound, Recorded, Copied
  <2>6. QED BY <2>3, <2>4, <2>5 DEF EscrowSound
<1>5. /\ purse[e] \in Nat /\ record[e] \in Settlement \cup {NoRecord}
      /\ wallet' \in [Users -> Nat]
      /\ place' \in [EscrowIds -> {"L1", "ER"}]
      /\ leaf' \in [EscrowIds -> [LeafTrees -> Settlement \cup {NoRecord}]]
  BY <1>3 DEF PaymentInv, PaymentTypeOK, TypeOK
<1> HIDE DEF a
<1>6. QED BY <1>2, <1>3, <1>4, <1>5, OneEscrow

LEMMA RecordPaymentSound ==
  ASSUME PaymentInv, NEW e \in EscrowIds, NEW caller, NEW amount \in Amounts,
         RecordPayment(e, caller, amount)
  PROVE  PaymentInv'
<1> DEFINE a == [escrow[e] EXCEPT !.total_paid = @ + amount]
<1>1. /\ escrow[e] \in EscrowWrapper /\ EscrowSound(e)
      /\ escrow[e].status = "DELEGATED" /\ amount \in Nat
      /\ escrow[e].total_paid + amount <= escrow[e].deposited
  BY EscrowFacts, PaymentAssumption DEF RecordPayment, WithinBudget
<1>2. a \in EscrowWrapper
  BY <1>1 DEF EscrowWrapper
<1>3. /\ escrow' = [escrow EXCEPT ![e] = a]
      /\ purse' = [purse EXCEPT ![e] = purse[e]]
      /\ record' = [record EXCEPT ![e] = record[e]]
      /\ UNCHANGED <<job, lamports, wallet, site, now, place, leaf>>
  BY DEF RecordPayment, PaymentInv, PaymentTypeOK
<1>4. EscrowSound(e)'
  <2>1. escrow'[e] = a /\ purse'[e] = purse[e] /\ record'[e] = record[e]
    BY <1>3 DEF PaymentInv, PaymentTypeOK
  <2>2. /\ a.status = "DELEGATED" /\ a.validator = escrow[e].validator
        /\ a.total_paid = escrow[e].total_paid + amount
        /\ a.deposited = escrow[e].deposited
        /\ a.job = escrow[e].job /\ a.agent = escrow[e].agent
        /\ a.poster = escrow[e].poster
        /\ a.session = escrow[e].session
    BY <1>1 DEF EscrowWrapper
  <2> HIDE DEF a
  <2>3. Funded(e)' /\ Unused(e)'
    BY <1>1, <2>1, <2>2 DEF EscrowSound, Funded, Unused, Created
  <2>4. Metered(e)'
    <3>1. Attested(e)'
      BY <1>1, <1>3, <2>1, <2>2 DEF EscrowSound, Metered, Attested
    <3>2. QED BY <1>1, <2>1, <2>2, <3>1 DEF Metered
  <2>5. Recorded(e)' /\ Copied(e)'
    BY <1>1, <1>3, <2>1, <2>2 DEF EscrowSound, Recorded, Copied
  <2>6. QED BY <2>3, <2>4, <2>5 DEF EscrowSound
<1>5. /\ purse[e] \in Nat /\ record[e] \in Settlement \cup {NoRecord}
      /\ wallet' \in [Users -> Nat]
      /\ place' \in [EscrowIds -> {"L1", "ER"}]
      /\ leaf' \in [EscrowIds -> [LeafTrees -> Settlement \cup {NoRecord}]]
  BY <1>3 DEF PaymentInv, PaymentTypeOK, TypeOK
<1> HIDE DEF a
<1>6. QED BY <1>2, <1>3, <1>4, <1>5, OneEscrow

(* The purse of an escrow that can still be settled covers deposit and rent, *)
(* so that refund and payment together take the deposit out of it.         *)
LEMMA RefundExact ==
  ASSUME PaymentInv, NEW e \in EscrowIds, Recordable(e)
  PROVE  /\ RefundDue(e, escrow[e].total_paid) = escrow[e].deposited - escrow[e].total_paid
         /\ RefundDue(e, escrow[e].total_paid) \in Nat
         /\ purse[e] - escrow[e].total_paid - RefundDue(e, escrow[e].total_paid)
              = purse[e] - escrow[e].deposited
         /\ purse[e] - escrow[e].deposited \in Nat
         /\ purse[e] - escrow[e].deposited >= EscrowRent
<1>1. /\ purse[e] >= EscrowRent + escrow[e].deposited
      /\ escrow[e].total_paid <= escrow[e].deposited
  <2>1. escrow[e].status # "NONE" /\ escrow[e].status # "SETTLED"
    BY EscrowFacts DEF Recordable, Created, EscrowSound, Recorded
  <2>2. QED BY <2>1, EscrowFacts DEF EscrowSound, Funded, Metered, Created
<1>2. /\ escrow[e].deposited \in Nat /\ escrow[e].total_paid \in Nat
      /\ EscrowRent \in Nat /\ purse[e] \in Nat
  BY EscrowFacts
<1>3. QED BY <1>1, <1>2 DEF RefundDue, Lesser

LEMMA SettlementSound ==
  ASSUME PaymentInv, NEW e \in EscrowIds, NEW payer \in Users, NEW claimed,
         RecordSettlement(e, payer, claimed)
  PROVE  PaymentInv'
<1> DEFINE total == escrow[e].total_paid
           back  == RefundDue(e, total)
           a     == [escrow[e] EXCEPT !.status = "SETTLED"]
           r     == [agent |-> escrow[e].agent,
                     total_deposited |-> escrow[e].deposited, total_paid |-> total]
           left  == purse[e] - escrow[e].deposited
<1>1. /\ escrow[e] \in EscrowWrapper /\ EscrowSound(e)
      /\ escrow[e].status # "NONE" /\ total \in Nat /\ RecordRent \in Nat
  BY EscrowFacts DEF RecordSettlement, Recordable, Created
<1>2. /\ back \in Nat /\ purse[e] - total - back = left
      /\ left \in Nat /\ left >= EscrowRent /\ EscrowRent \in Nat
  BY RefundExact, EscrowFacts DEF RecordSettlement
<1>3. a \in EscrowWrapper /\ r \in Settlement
  BY <1>1 DEF EscrowWrapper, EscrowStatus, Settlement
<1>4. /\ escrow' = [escrow EXCEPT ![e] = a]
      /\ purse' = [purse EXCEPT ![e] = left]
      /\ record' = [record EXCEPT ![e] = r]
      /\ UNCHANGED <<job, lamports, site, now, place, leaf>>
  BY <1>2 DEF RecordSettlement, TotalSettled, PaymentInv, PaymentTypeOK
<1>5. wallet' \in [Users -> Nat]
  <2>1. /\ wallet' = SettledWallets(payer, escrow[e].agent, escrow[e].poster, total, back)
        /\ wallet[payer] >= RecordRent
        /\ wallet \in [Users -> Nat]
        /\ escrow[e].agent \in Users
    BY DEF RecordSettlement, TotalSettled, PaymentInv, PaymentTypeOK, TypeOK
  <2>2. escrow[e].poster \in Users /\ total \in Nat /\ back \in Nat
    BY <1>1, <1>2 DEF EscrowSound, Unused, Created
  <2> HIDE DEF total, back
  <2>3. QED BY <1>1, <2>1, <2>2 DEF SettledWallets
<1>6. EscrowSound(e)'
  <2>1. escrow'[e] = a /\ purse'[e] = left /\ record'[e] = r
    BY <1>4 DEF PaymentInv, PaymentTypeOK
  <2>2. /\ a.status = "SETTLED" /\ a.validator = escrow[e].validator
        /\ a.total_paid = total
        /\ a.deposited = escrow[e].deposited
        /\ a.job = escrow[e].job /\ a.agent = escrow[e].agent
        /\ a.poster = escrow[e].poster
        /\ a.session = escrow[e].session
    BY <1>1 DEF EscrowWrapper
  <2>3. /\ r # NoRecord /\ r.agent = escrow[e].agent /\ r.total_paid = total
        /\ escrow[e].agent \in Users
    BY <1>3, RecordAssumption DEF RecordSettlement
  <2> HIDE DEF a, r, left
  <2>4. Funded(e)' /\ Unused(e)' /\ Recorded(e)'
    BY <1>1, <1>2, <2>1, <2>2, <2>3 DEF EscrowSound, Funded, Unused, Recorded, Created
  <2>5. Metered(e)'
    <3>1. total <= escrow[e].deposited /\ (total > 0 => Attested(e))
      BY <1>1 DEF EscrowSound, Metered
    <3>2. Attested(e) => Attested(e)'
      BY <1>4, <2>1, <2>2 DEF Attested
    <3>3. QED BY <2>1, <2>2, <3>1, <3>2 DEF Metered
  <2>6. Copied(e)'
    BY <1>1, <1>4, <2>1, <2>2 DEF EscrowSound, Copied
  <2>7. QED BY <2>4, <2>5, <2>6 DEF EscrowSound
<1>7. /\ left \in Nat
      /\ place' \in [EscrowIds -> {"L1", "ER"}]
      /\ leaf' \in [EscrowIds -> [LeafTrees -> Settlement \cup {NoRecord}]]
  BY <1>2, <1>4 DEF PaymentInv, PaymentTypeOK
<1> HIDE DEF a, r, left
<1>8. QED BY <1>3, <1>4, <1>5, <1>6, <1>7, OneEscrow

(* delegate_to_per and compress_settlement leave the escrow as it is.      *)
LEMMA AsideSound ==
  ASSUME PaymentInv, NEW e \in EscrowIds,
         \/ DelegateToPer(e)
         \/ \E tree \in LeafTrees, total \in Amounts : CompressSettlement(e, tree, total)
  PROVE  PaymentInv'
<1>1. UNCHANGED <<job, lamports, wallet, site, now, escrow, purse, record>>
  BY DEF DelegateToPer, CompressSettlement
<1>2. place' \in [EscrowIds -> {"L1", "ER"}]
  BY DEF DelegateToPer, CompressSettlement, PaymentInv, PaymentTypeOK
<1>3. leaf' \in [EscrowIds -> [LeafTrees -> Settlement \cup {NoRecord}]]
  <2>1. CASE DelegateToPer(e)
    BY <2>1 DEF DelegateToPer, PaymentInv, PaymentTypeOK
  <2>2. ASSUME NEW tree \in LeafTrees, NEW total \in Amounts,
               CompressSettlement(e, tree, total)
        PROVE  leaf' \in [EscrowIds -> [LeafTrees -> Settlement \cup {NoRecord}]]
    <3>1. [agent |-> escrow[e].agent, total_deposited |-> escrow[e].deposited,
           total_paid |-> total] \in Settlement
      BY EscrowFacts, PaymentAssumption DEF Settlement, EscrowWrapper
    <3>2. QED BY <2>2, <3>1 DEF CompressSettlement, PaymentInv, PaymentTypeOK
  <2>3. QED BY <2>1, <2>2
<1>4. PaymentTypeOK' /\ JobsVacant'
  BY <1>1, <1>2, <1>3 DEF PaymentInv, PaymentTypeOK, TypeOK, JobsVacant
<1>5. ASSUME NEW f \in EscrowIds PROVE EscrowSound(f)'
  BY <1>1, EscrowFacts
  DEF EscrowSound, Funded, Metered, Attested, Recorded, Copied, Unused, Created
<1>6. QED BY <1>4, <1>5 DEF PaymentInv

(* Job instructions, which know of no escrow and at most leave it a refund. *)
JobSide ==
  /\ JobStep
  /\ UNCHANGED <<escrow, place, record, leaf>>
  /\ \A e \in EscrowIds : purse'[e] >= purse[e]

LEMMA JobSideCases ==
  ASSUME PaymentInv,
         \/ Next /\ UNCHANGED payVars
         \/ \E j \in Jobs, e \in EscrowIds : ExpireClaimIntoPurse(j, e)
  PROVE  JobSide /\ purse' \in [EscrowIds -> Nat]
<1>1. CASE Next /\ UNCHANGED payVars
  BY <1>1 DEF JobSide, JobStep, payVars, PaymentInv, PaymentTypeOK
<1>2. ASSUME NEW j \in Jobs, NEW e \in EscrowIds, ExpireClaimIntoPurse(j, e)
      PROVE  JobSide /\ purse' \in [EscrowIds -> Nat]
  <2>1. Refund(j) \in Nat
    BY RefundType DEF PaymentInv, PaymentTypeOK
  <2>2. QED
    BY <1>2, <2>1 DEF JobSide, JobStep, ExpireClaimIntoPurse, PaymentInv, PaymentTypeOK
<1>3. QED BY <1>1, <1>2

LEMMA JobSideKeepsEscrows ==
  ASSUME PaymentInv, JobSide, purse' \in [EscrowIds -> Nat] PROVE PaymentInv'
<1> USE DEF JobSide
<1>1. TypeOK /\ TypeOK' /\ AllEvolve /\ now <= now'
  BY NextType, NextEvolves, ClockForward DEF PaymentInv, PaymentTypeOK
<1>2. PaymentTypeOK'
  BY <1>1 DEF PaymentInv, PaymentTypeOK
<1>3. JobsVacant'
  BY <1>1 DEF PaymentInv, JobsVacant, AllEvolve, Evolves
<1>4. ASSUME NEW e \in EscrowIds PROVE EscrowSound(e)'
  <2>1. EscrowSound(e)
    BY EscrowFacts
  <2>2. Recorded(e)' /\ Unused(e)'
    BY <2>1 DEF EscrowSound, Recorded, Unused, Created
  <2>6. Funded(e)'
    <3>1. /\ purse[e] \in Nat /\ purse'[e] \in Nat /\ purse'[e] >= purse[e]
          /\ EscrowRent \in Nat /\ escrow[e].deposited \in Nat
      BY EscrowFacts
    <3>2. QED BY <2>1, <3>1 DEF EscrowSound, Funded, Created
  <2>3. Metered(e)'
    <3>1. Attested(e) => Attested(e)'
      BY <1>1, PaymentAssumption DEF Attested, TypeOK
    <3>2. QED BY <2>1, <3>1 DEF EscrowSound, Metered
  <2>4. Copied(e)'
    <3>1. CASE escrow[e].agent \notin Users
      BY <3>1 DEF Copied
    <3>2. CASE escrow[e].agent \in Users
      <4> DEFINE k == escrow[e].job
      <4>1. /\ k \in Jobs /\ job[k].status # "NONE"
            /\ job[k].parent_job = NoJob =>
                 job[k].status \notin Unclaimed /\ job[k].claimer = escrow[e].agent
        BY <2>1, <3>2 DEF EscrowSound, Copied
      <4>2. Evolves(k, job[k], job'[k])
        BY <1>1, <4>1 DEF AllEvolve
      <4>3. Terms(job'[k]) = Terms(job[k]) => job'[k].claimer = job[k].claimer
        BY DEF Terms
      <4>4. escrow' = escrow
        OBVIOUS
      <4>5. QED BY <4>1, <4>2, <4>3, <4>4 DEF Evolves, Copied
    <3>3. QED BY <3>1, <3>2
  <2>5. QED BY <2>2, <2>3, <2>4, <2>6 DEF EscrowSound
<1>5. QED BY <1>2, <1>3, <1>4 DEF PaymentInv

(* PaymentInv is an inductive invariant.                                   *)
THEOREM PaymentInvariance == PaymentSpec => []PaymentInv
<1>1. PaymentInit => PaymentInv
  <2> SUFFICES ASSUME PaymentInit PROVE PaymentInv
    OBVIOUS
  <2>1. NoEscrow \in EscrowWrapper
    BY DEF NoEscrow, EscrowWrapper, EscrowStatus
  <2>2. PaymentTypeOK
    BY <2>1, FundsAssumption
    DEF PaymentInit, PaymentTypeOK, Init, TypeOK, JobAccount, Absent, Status
  <2>3. JobsVacant
    BY DEF PaymentInit, Init, JobsVacant, Vacant, Absent
  <2>4. ASSUME NEW e \in EscrowIds PROVE EscrowSound(e)
    BY AddressAssumption
    DEF PaymentInit, EscrowSound, Funded, Metered, Recorded, Copied, Unused,
        Created, NoEscrow
  <2>5. QED BY <2>2, <2>3, <2>4 DEF PaymentInv
<1>2. PaymentInv /\ [PaymentNext]_paymentVars => PaymentInv'
  <2> SUFFICES ASSUME PaymentInv, [PaymentNext]_paymentVars PROVE PaymentInv'
    OBVIOUS
  <2>1. CASE \/ Next /\ UNCHANGED payVars
             \/ \E j \in Jobs, e \in EscrowIds : ExpireClaimIntoPurse(j, e)
    BY <2>1, JobSideCases, JobSideKeepsEscrows
  <2>2. ASSUME NEW e \in EscrowIds, PaymentStep(e) PROVE PaymentInv'
    BY <2>2, CreateSound, VerifySound, RecordPaymentSound, SettlementSound, AsideSound
    DEF PaymentStep
  <2>3. CASE UNCHANGED paymentVars
    BY <2>3
    DEF paymentVars, PaymentInv, PaymentTypeOK, TypeOK, JobsVacant, EscrowSound,
        Funded, Metered, Attested, Recorded, Copied, Unused, Created
  <2>4. QED BY <2>1, <2>2, <2>3 DEF PaymentNext
<1>3. QED BY <1>1, <1>2, PTL DEF PaymentSpec

(* Balances of the payments program, unchecked subtractions included, never *)
(* underflow (record_settlement).                                          *)
THEOREM PaymentTypeCorrect == PaymentSpec => []PaymentTypeOK
<1>1. PaymentInv => PaymentTypeOK
  BY DEF PaymentInv
<1>2. QED BY <1>1, PaymentInvariance, PTL

(* Deposits are whole until settlement, and the rent after it, whatever    *)
(* was metered (create_escrow_wrapper, record_settlement).                 *)
THEOREM PursesAccounted == PaymentSpec => []PurseAccounted
<1>1. PaymentInv => PurseAccounted
  BY DEF PaymentInv, EscrowSound, Funded, PurseAccounted
<1>2. QED BY <1>1, PaymentInvariance, PTL

(* What was metered fits the deposit and was attested for this very escrow, *)
(* its job and its session (verify_tee_attestation, record_payment).       *)
THEOREM MeteringIsBacked == PaymentSpec => []MeteringBacked
<1>1. PaymentInv => MeteringBacked
  BY EscrowFacts DEF EscrowSound, Metered, Attested, MeteringBacked
<1>2. QED BY <1>1, PaymentInvariance, PTL

(* Whoever is paid from the escrow of a root job has that job, whenever    *)
(* the escrow was created and whatever the job program did since           *)
(* (create_escrow_wrapper against auto_assign_job and close_bidding).      *)
THEOREM PaidAgentsAreClaimers == PaymentSpec => []PaidAgentIsClaimer
<1>1. PaymentInv => PaidAgentIsClaimer
  <2> SUFFICES ASSUME PaymentInv, NEW e \in EscrowIds, record[e] # NoRecord
               PROVE  /\ job[escrow[e].job].parent_job = NoJob =>
                           record[e].agent = job[escrow[e].job].claimer
                      /\ record[e].total_paid = escrow[e].total_paid
    BY DEF PaidAgentIsClaimer
  <2>1. Recorded(e) /\ Copied(e)
    BY EscrowFacts DEF EscrowSound
  <2>2. QED BY <2>1 DEF Recorded, Copied
<1>2. QED BY <1>1, PaymentInvariance, PTL

-----------------------------------------------------------------------------
(***************************************************************************)
(* Steps.  What a payment instruction does to escrow e, and to no other.   *)
(***************************************************************************)
Untouched(e) == escrow'[e] = escrow[e] /\ purse'[e] = purse[e] /\ record'[e] = record[e]

Opened(e) ==
  /\ escrow[e].status = "NONE"
  /\ escrow'[e].status = "ACTIVE"
  /\ escrow'[e].total_paid = 0
  /\ escrow'[e].deposited \in Nat
  /\ purse'[e] = purse[e] + RentDue(EscrowRent, purse[e]) + escrow'[e].deposited

Validated(e) ==
  /\ escrow[e].status = "ACTIVE"
  /\ escrow'[e].status = "DELEGATED"
  /\ escrow'[e].total_paid = escrow[e].total_paid
  /\ escrow'[e].deposited = escrow[e].deposited
  /\ purse'[e] = purse[e]

Paid(e) ==
  /\ escrow[e].status = "DELEGATED"
  /\ escrow'[e].status = "DELEGATED"
  /\ escrow[e].total_paid < escrow'[e].total_paid
  /\ escrow'[e].total_paid <= escrow[e].deposited
  /\ escrow'[e].deposited = escrow[e].deposited
  /\ purse'[e] = purse[e]

Settled(e) ==
  /\ escrow[e].status \in {"ACTIVE", "DELEGATED"}
  /\ escrow'[e].status = "SETTLED"
  /\ escrow'[e].total_paid = escrow[e].total_paid
  /\ escrow'[e].deposited = escrow[e].deposited
  /\ purse[e] >= EscrowRent + escrow[e].deposited
  /\ purse'[e] = purse[e] - escrow[e].deposited

LEMMA PaymentStepCases ==
  ASSUME PaymentInv, NEW e \in EscrowIds, PaymentStep(e)
  PROVE  /\ \A f \in EscrowIds \ {e} : Untouched(f)
         /\ Untouched(e) \/ Opened(e) \/ Validated(e) \/ Paid(e) \/ Settled(e)
<1>1. ASSUME NEW j \in Jobs, NEW deposit \in Deposits, NEW session \in Sessions,
             CreateEscrowWrapper(e, j, deposit, session)
      PROVE  Opened(e) /\ \A f \in EscrowIds \ {e} : Untouched(f)
  <2>1. \A f \in EscrowIds \ {e} : Untouched(f)
    BY <1>1 DEF CreateEscrowWrapper, Untouched, PaymentInv, PaymentTypeOK
  <2>2. purse'[e] = purse[e] + (RentDue(EscrowRent, purse[e]) + deposit)
    BY <1>1 DEF CreateEscrowWrapper, PaymentInv, PaymentTypeOK
  <2>3. RentDue(EscrowRent, purse[e]) \in Nat /\ deposit \in Nat /\ purse[e] \in Nat
    BY PaymentAssumption, EscrowFacts DEF RentDue
  <2>4. escrow'[e].deposited = deposit /\ escrow[e].status = "NONE"
        /\ escrow'[e].status = "ACTIVE" /\ escrow'[e].total_paid = 0
    BY <1>1 DEF CreateEscrowWrapper, Created, NoEscrow, PaymentInv, PaymentTypeOK
  <2>5. Opened(e)
    BY <2>2, <2>3, <2>4 DEF Opened
  <2>6. QED BY <2>1, <2>5
<1>2. ASSUME \/ DelegateToPer(e)
             \/ \E tree \in LeafTrees, total \in Amounts :
                  CompressSettlement(e, tree, total)
      PROVE  \A f \in EscrowIds : Untouched(f)
  BY <1>2 DEF DelegateToPer, CompressSettlement, Untouched
<1>3. ASSUME NEW r \in PaymentReports, VerifyTeeAttestation(e, r)
      PROVE  Validated(e) /\ \A f \in EscrowIds \ {e} : Untouched(f)
  BY <1>3
  DEF VerifyTeeAttestation, Validated, Untouched, PaymentInv, PaymentTypeOK, EscrowWrapper
<1>4. ASSUME NEW caller, NEW amount \in Amounts, RecordPayment(e, caller, amount)
      PROVE  Paid(e) /\ \A f \in EscrowIds \ {e} : Untouched(f)
  <2>1. amount \in Nat /\ escrow[e] \in EscrowWrapper
    BY PaymentAssumption, EscrowFacts
  <2>2. QED
    BY <1>4, <2>1
    DEF RecordPayment, WithinBudget, Paid, Untouched, PaymentInv, PaymentTypeOK,
        EscrowWrapper
<1>5. ASSUME NEW payer \in Users, NEW claimed, RecordSettlement(e, payer, claimed)
      PROVE  Settled(e) /\ \A f \in EscrowIds \ {e} : Untouched(f)
  <2>1. \A f \in EscrowIds \ {e} : Untouched(f)
    BY <1>5 DEF RecordSettlement, Untouched, PaymentInv, PaymentTypeOK
  <2>2. escrow[e] \in EscrowWrapper /\ escrow[e].status \in {"ACTIVE", "DELEGATED"}
    BY <1>5, EscrowFacts
    DEF RecordSettlement, Recordable, Created, EscrowSound, Recorded, EscrowWrapper,
        EscrowStatus
  <2>3. purse'[e] = purse[e] - escrow[e].deposited
    BY <1>5, RefundExact DEF RecordSettlement, TotalSettled, PaymentInv, PaymentTypeOK
  <2>6. purse[e] >= EscrowRent + escrow[e].deposited
    BY <2>2, EscrowFacts DEF EscrowSound, Funded, Created
  <2>4. escrow' = [escrow EXCEPT ![e].status = "SETTLED"]
    BY <1>5 DEF RecordSettlement
  <2>5. QED
    BY <2>1, <2>2, <2>3, <2>4, <2>6 DEF Settled, PaymentInv, PaymentTypeOK, EscrowWrapper
<1>6. QED BY <1>1, <1>2, <1>3, <1>4, <1>5 DEF PaymentStep

(* A refund of the job program may arrive in the purse of any escrow.      *)
Given(e) == escrow'[e] = escrow[e] /\ record'[e] = record[e] /\ purse'[e] >= purse[e]

LEMMA RefundGiven ==
  ASSUME PaymentInv, NEW j \in Jobs, NEW e \in EscrowIds, ExpireClaimIntoPurse(j, e)
  PROVE  Given(e) /\ \A f \in EscrowIds \ {e} : Untouched(f)
<1>1. JobSide
  BY JobSideCases
<1>2. \A f \in EscrowIds \ {e} : purse'[f] = purse[f]
  BY DEF ExpireClaimIntoPurse, PaymentInv, PaymentTypeOK
<1>3. QED BY <1>1, <1>2 DEF JobSide, Given, Untouched

(* A settlement is final: the record account that record_settlement creates *)
(* keeps a second one, and the status a late payment or attestation, out.  *)
THEOREM SettlementsAreFinal == PaymentSpec => SettlementFinal
<1> DEFINE Kept == \A e \in EscrowIds :
                     record[e] # NoRecord => Given(e)
<1>1. PaymentInv /\ [PaymentNext]_paymentVars => Kept
  <2> SUFFICES ASSUME PaymentInv, [PaymentNext]_paymentVars,
                      NEW e \in EscrowIds, record[e] # NoRecord
               PROVE  Given(e)
    OBVIOUS
  <2>1. escrow[e].status = "SETTLED" /\ purse[e] \in Nat
    BY EscrowFacts DEF EscrowSound, Recorded
  <2>2. CASE UNCHANGED paymentVars
    BY <2>1, <2>2 DEF paymentVars, Given
  <2>3. ASSUME NEW f \in EscrowIds, PaymentStep(f) PROVE Given(e)
    <3>1. Untouched(e)
      BY <2>1, <2>3, PaymentStepCases DEF Opened, Validated, Paid, Settled
    <3>2. QED BY <2>1, <3>1 DEF Untouched, Given
  <2>4. CASE \/ Next /\ UNCHANGED payVars
             \/ \E j \in Jobs, f \in EscrowIds : ExpireClaimIntoPurse(j, f)
    BY <2>4, JobSideCases DEF JobSide, Given
  <2>5. QED BY <2>2, <2>3, <2>4 DEF PaymentNext
<1>2. Kept => \A e \in EscrowIds :
        record[e] # NoRecord =>
          /\ record'[e] = record[e]
          /\ escrow'[e] = escrow[e]
          /\ purse'[e] >= purse[e]
  BY DEF Given
<1>3. QED BY <1>1, <1>2, PaymentInvariance, PTL DEF PaymentSpec, SettlementFinal

LEMMA OneValue ==
  ASSUME NEW S, NEW e \in S, NEW F, NEW G,
         F = [x \in S |-> F[x]], G = [x \in S |-> G[x]],
         \A x \in S \ {e} : G[x] = F[x]
  PROVE  G = [F EXCEPT ![e] = G[e]]
OBVIOUS

(* The abstract variables, seen through the refinement mapping.            *)
EscrowPhaseMap  == [e \in EscrowIds |-> ChannelPhase(escrow[e].status)]
BudgetMap == [e \in EscrowIds |-> escrow[e].deposited]
MeterMap  == [e \in EscrowIds |-> escrow[e].total_paid]
EscrowHeldMap   == [e \in EscrowIds |->
                      IF purse[e] >= EscrowRent THEN purse[e] - EscrowRent ELSE 0]

LEMMA PhaseKept ==
  ASSUME NEW f \in EscrowIds, Untouched(f)
  PROVE  EscrowPhaseMap'[f] = EscrowPhaseMap[f]
<1>1. escrow'[f] = escrow[f]
  BY DEF Untouched
<1>2. /\ EscrowPhaseMap[f] = ChannelPhase(escrow[f].status)
      /\ EscrowPhaseMap'[f] = ChannelPhase(escrow'[f].status)
  BY Zenon DEF EscrowPhaseMap
<1>3. QED BY <1>1, <1>2, Zenon

(* They move at e only, when all other escrows are untouched.              *)
LEMMA MapsMove ==
  ASSUME NEW e \in EscrowIds, \A f \in EscrowIds \ {e} : Untouched(f)
  PROVE  /\ EscrowPhaseMap'  = [EscrowPhaseMap EXCEPT ![e] = EscrowPhaseMap'[e]]
         /\ BudgetMap' = [BudgetMap EXCEPT ![e] = BudgetMap'[e]]
         /\ MeterMap'  = [MeterMap EXCEPT ![e] = MeterMap'[e]]
         /\ EscrowHeldMap'   = [EscrowHeldMap EXCEPT ![e] = EscrowHeldMap'[e]]
<1>1. EscrowPhaseMap' = [EscrowPhaseMap EXCEPT ![e] = EscrowPhaseMap'[e]]
  <2>1. ASSUME NEW f \in EscrowIds \ {e} PROVE EscrowPhaseMap'[f] = EscrowPhaseMap[f]
    BY PhaseKept DEF Untouched, EscrowPhaseMap
  <2>2. /\ EscrowPhaseMap = [f \in EscrowIds |-> EscrowPhaseMap[f]]
        /\ EscrowPhaseMap' = [f \in EscrowIds |-> EscrowPhaseMap'[f]]
    BY DEF EscrowPhaseMap
  <2>3. QED BY <2>1, <2>2, OneValue, Zenon
<1>2. BudgetMap' = [BudgetMap EXCEPT ![e] = BudgetMap'[e]]
  BY OneValue DEF Untouched, BudgetMap
<1>3. MeterMap' = [MeterMap EXCEPT ![e] = MeterMap'[e]]
  BY OneValue DEF Untouched, MeterMap
<1>4. EscrowHeldMap' = [EscrowHeldMap EXCEPT ![e] = EscrowHeldMap'[e]]
  <2>1. ASSUME NEW f \in EscrowIds \ {e} PROVE EscrowHeldMap'[f] = EscrowHeldMap[f]
    BY DEF Untouched, EscrowHeldMap
  <2>2. /\ EscrowHeldMap = [f \in EscrowIds |-> EscrowHeldMap[f]]
        /\ EscrowHeldMap' = [f \in EscrowIds |-> EscrowHeldMap'[f]]
    BY DEF EscrowHeldMap
  <2>3. QED BY <2>1, <2>2, OneValue, Zenon
<1>5. QED BY <1>1, <1>2, <1>3, <1>4

(* A map that also stays at e does not move at all.                        *)
LEMMA MapsSame ==
  ASSUME NEW e \in EscrowIds, \A f \in EscrowIds \ {e} : Untouched(f)
  PROVE  /\ EscrowPhaseMap'[e] = EscrowPhaseMap[e] => EscrowPhaseMap' = EscrowPhaseMap
         /\ BudgetMap'[e] = BudgetMap[e] => BudgetMap' = BudgetMap
         /\ MeterMap'[e] = MeterMap[e] => MeterMap' = MeterMap
         /\ EscrowHeldMap'[e] = EscrowHeldMap[e] => EscrowHeldMap' = EscrowHeldMap
<1>1. ASSUME EscrowPhaseMap'[e] = EscrowPhaseMap[e] PROVE EscrowPhaseMap' = EscrowPhaseMap
  <2>1. ASSUME NEW f \in EscrowIds PROVE EscrowPhaseMap'[f] = EscrowPhaseMap[f]
    <3>1. CASE f = e BY <1>1, <3>1
    <3>2. CASE f # e BY <3>2, PhaseKept
    <3>3. QED BY <3>1, <3>2
  <2>2. /\ EscrowPhaseMap = [f \in EscrowIds |-> EscrowPhaseMap[f]]
        /\ EscrowPhaseMap' = [f \in EscrowIds |-> EscrowPhaseMap'[f]]
    BY DEF EscrowPhaseMap
  <2>3. QED BY <2>1, <2>2, Zenon
<1>2. ASSUME BudgetMap'[e] = BudgetMap[e] PROVE BudgetMap' = BudgetMap
  <2>1. ASSUME NEW f \in EscrowIds PROVE BudgetMap'[f] = BudgetMap[f]
    BY <1>2 DEF Untouched, BudgetMap
  <2>2. /\ BudgetMap = [f \in EscrowIds |-> BudgetMap[f]]
        /\ BudgetMap' = [f \in EscrowIds |-> BudgetMap'[f]]
    BY DEF BudgetMap
  <2>3. QED BY <2>1, <2>2, Zenon
<1>3. ASSUME MeterMap'[e] = MeterMap[e] PROVE MeterMap' = MeterMap
  <2>1. ASSUME NEW f \in EscrowIds PROVE MeterMap'[f] = MeterMap[f]
    BY <1>3 DEF Untouched, MeterMap
  <2>2. /\ MeterMap = [f \in EscrowIds |-> MeterMap[f]]
        /\ MeterMap' = [f \in EscrowIds |-> MeterMap'[f]]
    BY DEF MeterMap
  <2>3. QED BY <2>1, <2>2, Zenon
<1>4. ASSUME EscrowHeldMap'[e] = EscrowHeldMap[e] PROVE EscrowHeldMap' = EscrowHeldMap
  <2>1. ASSUME NEW f \in EscrowIds PROVE EscrowHeldMap'[f] = EscrowHeldMap[f]
    BY <1>4 DEF Untouched, EscrowHeldMap
  <2>2. /\ EscrowHeldMap = [f \in EscrowIds |-> EscrowHeldMap[f]]
        /\ EscrowHeldMap' = [f \in EscrowIds |-> EscrowHeldMap'[f]]
    BY DEF EscrowHeldMap
  <2>3. QED BY <2>1, <2>2, Zenon
<1>5. QED BY <1>1, <1>2, <1>3, <1>4

(* Every escrow is a metered channel: each instruction of either program   *)
(* is a step of MeteredChannel or changes nothing it can see.              *)
THEOREM EscrowsAreChannels == PaymentSpec => ImplementsChannel
<1>1. PaymentInit => Channel!ChannelInit
  <2> SUFFICES ASSUME PaymentInit PROVE Channel!ChannelInit
    OBVIOUS
  <2>1. EscrowHeldMap = [e \in EscrowIds |-> 0]
    BY PaymentAssumption DEF PaymentInit, EscrowHeldMap
  <2>2. QED
    BY <2>1
    DEF PaymentInit, NoEscrow, ChannelPhase, Channel!ChannelInit, EscrowHeldMap
<1>2. PaymentInv /\ [PaymentNext]_paymentVars =>
        [Channel!ChannelNext]_<<EscrowPhaseMap, BudgetMap, MeterMap, EscrowHeldMap>>
  <2> SUFFICES ASSUME PaymentInv, [PaymentNext]_paymentVars
               PROVE  [Channel!ChannelNext]_<<EscrowPhaseMap, BudgetMap, MeterMap, EscrowHeldMap>>
    OBVIOUS
  <2>1. ASSUME \A e \in EscrowIds : Untouched(e)
        PROVE  UNCHANGED <<EscrowPhaseMap, BudgetMap, MeterMap, EscrowHeldMap>>
    BY <2>1 DEF Untouched, EscrowPhaseMap, BudgetMap, MeterMap, EscrowHeldMap
  <2>2. ASSUME NEW e \in EscrowIds, Opened(e), \A f \in EscrowIds \ {e} : Untouched(f)
        PROVE  Channel!ChannelNext
    <3>1. /\ EscrowPhaseMap'[e] = "open" /\ MeterMap'[e] = MeterMap[e]
          /\ EscrowHeldMap'[e] = EscrowHeldMap[e] + BudgetMap'[e]
      <4>1. EscrowPhaseMap'[e] = "open" /\ MeterMap'[e] = MeterMap[e]
        BY <2>2, EscrowFacts
        DEF Opened, ChannelPhase, Created, EscrowSound, Unused, NoEscrow,
            EscrowPhaseMap, MeterMap
      <4>2. /\ purse'[e] = purse[e] + RentDue(EscrowRent, purse[e]) + BudgetMap'[e]
            /\ BudgetMap'[e] \in Nat /\ purse[e] \in Nat /\ EscrowRent \in Nat
        BY <2>2, EscrowFacts DEF Opened, BudgetMap
      <4>3. /\ EscrowHeldMap[e] = IF purse[e] >= EscrowRent THEN purse[e] - EscrowRent ELSE 0
            /\ EscrowHeldMap'[e] = IF purse'[e] >= EscrowRent THEN purse'[e] - EscrowRent ELSE 0
        BY DEF EscrowHeldMap
      <4>4. EscrowHeldMap'[e] = EscrowHeldMap[e] + BudgetMap'[e]
        BY <4>2, <4>3 DEF RentDue
      <4>5. QED BY <4>1, <4>4
    <3>2. EscrowPhaseMap[e] = "absent" /\ BudgetMap'[e] \in Nat
      BY <2>2, EscrowFacts
      DEF Opened, ChannelPhase, EscrowSound, Unused, Created, NoEscrow,
          EscrowPhaseMap, BudgetMap, MeterMap, EscrowHeldMap
    <3>3. /\ EscrowPhaseMap' = [EscrowPhaseMap EXCEPT ![e] = "open"]
          /\ BudgetMap' = [BudgetMap EXCEPT ![e] = BudgetMap'[e]]
          /\ EscrowHeldMap' = [EscrowHeldMap EXCEPT ![e] = EscrowHeldMap[e] + BudgetMap'[e]]
          /\ MeterMap' = MeterMap
      BY <2>2, <3>1, MapsMove, MapsSame
    <3>4. Channel!Open(e, BudgetMap'[e])
      BY <3>2, <3>3 DEF Channel!Open, EscrowPhaseMap, BudgetMap, MeterMap, EscrowHeldMap
    <3>5. QED
      BY <3>4 DEF Channel!ChannelNext, Channel!Open, BudgetMap, MeterMap
  <2>3. ASSUME NEW e \in EscrowIds, Validated(e), \A f \in EscrowIds \ {e} : Untouched(f)
        PROVE  Channel!ChannelNext
    <3>1. /\ EscrowPhaseMap'[e] = "metering" /\ EscrowHeldMap'[e] = EscrowHeldMap[e]
          /\ MeterMap'[e] = MeterMap[e] /\ BudgetMap'[e] = BudgetMap[e]
      BY <2>3, EscrowFacts
      DEF Validated, ChannelPhase, EscrowPhaseMap, BudgetMap, MeterMap, EscrowHeldMap
    <3>2. EscrowPhaseMap[e] = "open"
      BY <2>3, EscrowFacts
      DEF Validated, ChannelPhase, EscrowPhaseMap, BudgetMap, MeterMap,
          EscrowHeldMap
    <3>3. /\ EscrowPhaseMap' = [EscrowPhaseMap EXCEPT ![e] = "metering"]
          /\ BudgetMap' = BudgetMap
          /\ MeterMap' = MeterMap
          /\ EscrowHeldMap' = EscrowHeldMap
      BY <2>3, <3>1, MapsMove, MapsSame
    <3>4. Channel!Attest(e)
      BY <3>2, <3>3 DEF Channel!Attest, EscrowPhaseMap, BudgetMap, MeterMap, EscrowHeldMap
    <3>5. QED
      BY <3>4 DEF Channel!ChannelNext, BudgetMap, MeterMap
  <2>4. ASSUME NEW e \in EscrowIds, Paid(e), \A f \in EscrowIds \ {e} : Untouched(f)
        PROVE  Channel!ChannelNext
    <3>1. /\ EscrowPhaseMap'[e] = EscrowPhaseMap[e] /\ EscrowHeldMap'[e] = EscrowHeldMap[e]
          /\ BudgetMap'[e] = BudgetMap[e]
      BY <2>4, EscrowFacts
      DEF Paid, ChannelPhase, EscrowPhaseMap, BudgetMap, MeterMap, EscrowHeldMap
    <3>2. EscrowPhaseMap[e] = "metering" /\ MeterMap[e] < MeterMap'[e] /\ MeterMap'[e] <= BudgetMap[e]
      BY <2>4, EscrowFacts
      DEF Paid, ChannelPhase, EscrowPhaseMap, BudgetMap, MeterMap,
          EscrowHeldMap
    <3>3. /\ EscrowPhaseMap' = EscrowPhaseMap
          /\ BudgetMap' = BudgetMap
          /\ MeterMap' = [MeterMap EXCEPT ![e] = MeterMap'[e]]
          /\ EscrowHeldMap' = EscrowHeldMap
      BY <2>4, <3>1, MapsMove, MapsSame
    <3>4. Channel!Meter(e, MeterMap'[e])
      BY <3>2, <3>3 DEF Channel!Meter, EscrowPhaseMap, BudgetMap, MeterMap, EscrowHeldMap
    <3>5. QED
      BY <3>4 DEF Channel!ChannelNext, Channel!Meter, BudgetMap, MeterMap
  <2>5. ASSUME NEW e \in EscrowIds, Settled(e), \A f \in EscrowIds \ {e} : Untouched(f)
        PROVE  Channel!ChannelNext
    <3>1. /\ EscrowPhaseMap'[e] = "closed"
          /\ EscrowHeldMap'[e] = EscrowHeldMap[e] - BudgetMap[e]
          /\ BudgetMap[e] <= EscrowHeldMap[e]
          /\ MeterMap'[e] = MeterMap[e] /\ BudgetMap'[e] = BudgetMap[e]
      BY <2>5, EscrowFacts
      DEF Settled, ChannelPhase, EscrowPhaseMap, BudgetMap, MeterMap, EscrowHeldMap
    <3>2. EscrowPhaseMap[e] \in {"open", "metering"}
      BY <2>5, EscrowFacts
      DEF Settled, ChannelPhase, EscrowPhaseMap, BudgetMap, MeterMap,
          EscrowHeldMap
    <3>3. /\ EscrowPhaseMap' = [EscrowPhaseMap EXCEPT ![e] = "closed"]
          /\ BudgetMap' = BudgetMap
          /\ MeterMap' = MeterMap
          /\ EscrowHeldMap' = [EscrowHeldMap EXCEPT ![e] = EscrowHeldMap[e] - BudgetMap[e]]
      BY <2>5, <3>1, MapsMove, MapsSame
    <3>4. Channel!Close(e)
      BY <3>1, <3>2, <3>3 DEF Channel!Close, EscrowPhaseMap, BudgetMap, MeterMap, EscrowHeldMap
    <3>5. QED
      BY <3>4 DEF Channel!ChannelNext, BudgetMap, MeterMap
  <2>6. CASE UNCHANGED payVars \/ UNCHANGED paymentVars
    BY <2>1, <2>6 DEF payVars, paymentVars, Untouched
  <2>7. ASSUME NEW e \in EscrowIds, PaymentStep(e)
        PROVE  [Channel!ChannelNext]_<<EscrowPhaseMap, BudgetMap, MeterMap, EscrowHeldMap>>
    BY <2>1, <2>2, <2>3, <2>4, <2>5, <2>7, PaymentStepCases
  <2>8. ASSUME NEW j \in Jobs, NEW e \in EscrowIds, ExpireClaimIntoPurse(j, e)
        PROVE  [Channel!ChannelNext]_<<EscrowPhaseMap, BudgetMap, MeterMap, EscrowHeldMap>>
    <3>1. Given(e) /\ \A f \in EscrowIds \ {e} : Untouched(f)
      BY <2>8, RefundGiven
    <3>2. UNCHANGED <<EscrowPhaseMap, BudgetMap, MeterMap>>
      BY <3>1 DEF Given, Untouched, EscrowPhaseMap, BudgetMap, MeterMap
    <3>3. EscrowHeldMap' = [EscrowHeldMap EXCEPT ![e] = EscrowHeldMap'[e]]
      BY <3>1, MapsMove
    <3>4. CASE EscrowHeldMap'[e] > EscrowHeldMap[e]
      <4>1. Channel!Gift(e)
        BY <3>2, <3>3, <3>4
        DEF Channel!Gift, EscrowPhaseMap, BudgetMap, MeterMap, EscrowHeldMap
      <4>2. QED
        BY <4>1 DEF Channel!ChannelNext, BudgetMap, MeterMap
    <3>5. CASE EscrowHeldMap'[e] = EscrowHeldMap[e]
      BY <3>1, <3>2, <3>5, MapsSame
    <3>6. EscrowHeldMap'[e] > EscrowHeldMap[e] \/ EscrowHeldMap'[e] = EscrowHeldMap[e]
      <4>1. purse' \in [EscrowIds -> Nat]
        BY <2>8, JobSideCases
      <4>2. QED BY <3>1, <4>1, EscrowFacts DEF Given, EscrowHeldMap
    <3>7. QED BY <3>4, <3>5, <3>6
  <2>9. QED BY <2>6, <2>7, <2>8 DEF PaymentNext
<1>3. QED
  BY <1>1, <1>2, PaymentInvariance, PTL
  DEF PaymentSpec, ImplementsChannel, Channel!ChannelSpec, Channel!channelVars,
      EscrowPhaseMap, BudgetMap, MeterMap, EscrowHeldMap

-----------------------------------------------------------------------------
(***************************************************************************)
(* Both programs together.  Payment instructions leave the job program's   *)
(* books alone, and a refund that goes to an escrow is, for the jobs, one  *)
(* that goes elsewhere.                                                    *)
(***************************************************************************)
LEMMA JobBooksStay ==
  ASSUME IInv, PaymentInv', [PaymentNext]_paymentVars PROVE IInv'
<1>1. TypeOK'
  BY DEF PaymentInv, PaymentTypeOK
<1>2. CASE JobStep \/ UNCHANGED paymentVars
  BY <1>1, <1>2, StepSound DEF paymentVars, vars
<1>3. ASSUME NEW e \in EscrowIds, PaymentStep(e) PROVE IInv'
  <2>1. UNCHANGED <<job, lamports, site, now>>
    BY <1>3
    DEF PaymentStep, CreateEscrowWrapper, DelegateToPer, VerifyTeeAttestation,
        RecordPayment, RecordSettlement, CompressSettlement
  <2>2. QED BY <1>1, <2>1 DEF IInv, EscrowBalance, ClaimProvenance
<1>4. QED BY <1>2, <1>3 DEF PaymentNext, JobStep, ExpireClaimIntoPurse

LEMMA PaymentInitSound == PaymentInit => IInv
BY FundsAssumption
DEF PaymentInit, Init, IInv, TypeOK, EscrowBalance, ClaimProvenance, Balanced,
    Provenance, Absent, JobAccount, Status

(* The job program keeps its own promises next to the payments program,    *)
(* which pays and is paid by the same wallets.                             *)
THEOREM JobsStaySound == PaymentSpec => [](EscrowBalance /\ ClaimProvenance)
<1>1. IInv => EscrowBalance /\ ClaimProvenance
  BY DEF IInv
<1>2. QED
  BY <1>1, PaymentInitSound, JobBooksStay, PaymentInvariance, PTL DEF PaymentSpec

LEMMA JobsStayLawful ==
  ASSUME IInv, IInv', [PaymentNext]_paymentVars
  PROVE  [Contract!ContractNext]_mapVars
<1>1. CASE JobStep
  BY <1>1, StepIsContract
<1>2. CASE UNCHANGED <<job, lamports>>
  BY <1>2, NothingMoves, MapsStay DEF Stays, KeepsTerms
<1>3. ASSUME NEW e \in EscrowIds, PaymentStep(e) PROVE UNCHANGED <<job, lamports>>
  BY <1>3
  DEF PaymentStep, CreateEscrowWrapper, DelegateToPer, VerifyTeeAttestation,
      RecordPayment, RecordSettlement, CompressSettlement
<1>4. QED BY <1>1, <1>2, <1>3 DEF PaymentNext, JobStep, ExpireClaimIntoPurse, paymentVars

(* The refinement of the job program survives composition: with payment    *)
(* escrows created, metered, settled and compressed on the same jobs and   *)
(* wallets, a job is still an escrow contract (instructions/payment.rs     *)
(* reads job accounts and writes none).                                    *)
THEOREM JobsStayContracts == PaymentSpec => ImplementsContract
<1>1. PaymentInit => Contract!ContractInit
  BY InitIsContract DEF PaymentInit
<1>2. IInv /\ IInv' /\ [PaymentNext]_paymentVars => [Contract!ContractNext]_mapVars
  BY JobsStayLawful
<1>3. QED
  BY <1>1, <1>2, PaymentInitSound, JobBooksStay, PaymentInvariance, PTL
  DEF PaymentSpec, ImplementsContract, Contract!ContractSpec, mapVars, PhaseMap, PriceMap,
      StakeMap, HeldMap

-----------------------------------------------------------------------------
(***************************************************************************)
(* Conservation over jobs and payments.  The job program's half is         *)
(* NextConserves of JobLedger_proofs.                                      *)
(***************************************************************************)
Deposited == Total(purse, EscrowIds)

RecordsSunk == RecordRent * Cardinality(RecordAccounts)

AllLamports == Circulating + Deposited + RecordsSunk

LEMMA PaymentIsFinite == FiniteLedger /\ IsFiniteSet(EscrowIds) /\ IsFiniteSet(RecordAccounts)
<1>1. RecordAccounts \subseteq EscrowIds
  BY DEF RecordAccounts
<1>2. QED BY <1>1, FS_Subset, LedgerAssumption, PaymentLedgerAssumption DEF FiniteLedger

LEMMA AllLamportsType ==
  ASSUME PaymentInv
  PROVE  /\ Total(wallet, Users) \in Int /\ Total(lamports, Jobs) \in Int
         /\ Deposited \in Int /\ RecordsSunk \in Int
<1>1. \A e \in EscrowIds : purse[e] \in Int
  BY DEF PaymentInv, PaymentTypeOK
<1>2. Deposited \in Int
  BY <1>1, PaymentIsFinite, TotalType DEF Deposited
<1>3. Cardinality(RecordAccounts) \in Nat /\ RecordRent \in Nat
  BY PaymentIsFinite, FS_CardinalityType, PaymentAssumption
<1>4. RecordsSunk \in Int
  BY <1>3 DEF RecordsSunk
<1>5. QED BY <1>2, <1>4, PaymentIsFinite, TotalsAreIntegers DEF PaymentInv, PaymentTypeOK

(* What a payment instruction makes of one escrow's lamports.              *)
LEMMA OnePurse ==
  ASSUME PaymentInv, PaymentInv', NEW e \in EscrowIds,
         \A f \in EscrowIds \ {e} : purse'[f] = purse[f]
  PROVE  Deposited' = Deposited + purse'[e] - purse[e]
<1>1. \A f \in EscrowIds : purse[f] \in Int /\ purse'[f] \in Int
  BY DEF PaymentInv, PaymentTypeOK
<1>2. IsFiniteSet(EscrowIds)
  BY PaymentIsFinite
<1>3. QED BY <1>1, <1>2, TotalOne DEF Deposited

LEMMA PurseMoves ==
  ASSUME PaymentInv, PaymentInv', NEW e \in EscrowIds, NEW x, purse' = [purse EXCEPT ![e] = x]
  PROVE  Deposited' = Deposited + x - purse[e]
<1>1. purse'[e] = x /\ \A f \in EscrowIds \ {e} : purse'[f] = purse[f]
  BY DEF PaymentInv, PaymentTypeOK
<1>2. QED BY <1>1, OnePurse

(* The poster pays the deposit, and what is missing of the rent.           *)
LEMMA CreateConserves ==
  ASSUME PaymentInv, PaymentInv', NEW e \in EscrowIds, NEW j \in Jobs,
         NEW deposit \in Deposits, NEW session \in Sessions,
         CreateEscrowWrapper(e, j, deposit, session)
  PROVE  AllLamports' = AllLamports
<1> DEFINE p == Poster[j]
           x == RentDue(EscrowRent, purse[e]) + deposit
<1>1. /\ purse' = [purse EXCEPT ![e] = purse[e] + x]
      /\ wallet' = [wallet EXCEPT ![p] = @ - x]
      /\ UNCHANGED <<lamports, record>>
  BY DEF CreateEscrowWrapper
<1>2. x \in Int /\ p \in Users /\ purse[e] \in Int
  BY PaymentAssumption, PosterAssumption, EscrowFacts DEF RentDue
<1> HIDE DEF p, x
<1>4. /\ \A u \in Users : wallet[u] \in Nat /\ wallet'[u] \in Nat
      /\ \A u \in Users \ {p} : wallet'[u] = wallet[u]
      /\ wallet'[p] = wallet[p] - x
  BY <1>1, <1>2 DEF PaymentInv, PaymentTypeOK, TypeOK
<1>5. Total(wallet', Users) = Total(wallet, Users) + (wallet[p] - x) - wallet[p]
  BY <1>2, <1>4, PaymentIsFinite, OneWallet
<1>6. Deposited' = Deposited + (purse[e] + x) - purse[e]
  BY <1>1, PurseMoves
<1>7. Total(lamports', Jobs) = Total(lamports, Jobs) /\ RecordsSunk' = RecordsSunk
  BY <1>1 DEF RecordsSunk, RecordAccounts
<1>8. QED
  BY <1>2, <1>4, <1>5, <1>6, <1>7, AllLamportsType DEF AllLamports, Circulating

LEMMA WalletPlus ==
  ASSUME NEW w \in [Users -> Int], NEW u \in Users, NEW x \in Int
  PROVE  /\ [w EXCEPT ![u] = @ + x] \in [Users -> Int]
         /\ Total([w EXCEPT ![u] = @ + x], Users) = Total(w, Users) + x
<1> DEFINE h == [w EXCEPT ![u] = @ + x]
<1>1. h \in [Users -> Int] /\ h[u] = w[u] + x /\ \A v \in Users \ {u} : h[v] = w[v]
  OBVIOUS
<1> HIDE DEF h
<1>2. /\ IsFiniteSet(Users)
      /\ \A v \in Users : w[v] \in Int /\ h[v] \in Int
  BY <1>1, PaymentIsFinite DEF FiniteLedger
<1>3. Total(h, Users) = Total(w, Users) + h[u] - w[u] /\ Total(w, Users) \in Int
  BY <1>1, <1>2, TotalOne, TotalType
<1>4. Total(h, Users) = Total(w, Users) + x
  BY <1>1, <1>2, <1>3
<1>5. QED BY <1>1, <1>4 DEF h

(* Three moves on wallets that may be one: their sum is what counts.       *)
LEMMA SettledWalletsTotal ==
  ASSUME PaymentInv, NEW payer \in Users, NEW agent \in Users, NEW poster \in Users,
         NEW total \in Nat, NEW back \in Nat
  PROVE  Total(SettledWallets(payer, agent, poster, total, back), Users)
           = Total(wallet, Users) + total + back - RecordRent
<1> DEFINE charged == [wallet EXCEPT ![payer] = @ - RecordRent]
           paid    == [charged EXCEPT ![agent] = @ + total]
           final   == [paid EXCEPT ![poster] = @ + back]
<1>1. /\ wallet \in [Users -> Int] /\ RecordRent \in Int /\ -RecordRent \in Int
      /\ total \in Int /\ back \in Int
  BY PaymentAssumption DEF PaymentInv, PaymentTypeOK, TypeOK
<1>2. /\ charged \in [Users -> Int]
      /\ Total(charged, Users) = Total(wallet, Users) + (-RecordRent)
  <2>1. charged = [wallet EXCEPT ![payer] = @ + (-RecordRent)]
    BY <1>1
  <2>2. QED BY <1>1, <2>1, WalletPlus, Zenon
<1> HIDE DEF charged
<1>3. paid \in [Users -> Int] /\ Total(paid, Users) = Total(charged, Users) + total
  <2>1. charged \in [Users -> Int] /\ total \in Int
    BY <1>1, <1>2
  <2>2. QED BY <2>1, WalletPlus, ZenonT(30)
<1> HIDE DEF paid
<1>4. Total(final, Users) = Total(paid, Users) + back
  <2>1. paid \in [Users -> Int] /\ back \in Int
    BY <1>1, <1>3
  <2>2. QED BY <2>1, WalletPlus, ZenonT(30)
<1>5. SettledWallets(payer, agent, poster, total, back) = final
  BY Zenon DEF SettledWallets, final, paid, charged
<1> HIDE DEF final
<1>6. Total(wallet, Users) \in Int
  BY AllLamportsType
<1>7. QED BY <1>1, <1>2, <1>3, <1>4, <1>5, <1>6

LEMMA SettlementConserves ==
  ASSUME PaymentInv, PaymentInv', NEW e \in EscrowIds, NEW payer \in Users, NEW claimed,
         RecordSettlement(e, payer, claimed)
  PROVE  AllLamports' = AllLamports
<1> DEFINE total == escrow[e].total_paid
           back  == RefundDue(e, total)
           agent == escrow[e].agent
           p     == escrow[e].poster
<1>1. /\ purse' = [purse EXCEPT ![e] = purse[e] - total - back]
      /\ wallet' = SettledWallets(payer, agent, p, total, back)
      /\ record' = [record EXCEPT ![e] =
                      [agent |-> agent, total_deposited |-> escrow[e].deposited,
                       total_paid |-> total]]
      /\ record[e] = NoRecord /\ agent \in Users /\ UNCHANGED lamports
  BY DEF RecordSettlement, TotalSettled, Recordable
<1>2. total \in Nat /\ back \in Nat /\ purse[e] \in Nat /\ RecordRent \in Nat
  BY EscrowFacts, RefundExact DEF RecordSettlement
<1>3. p \in Users
  BY EscrowFacts DEF RecordSettlement, Recordable, EscrowSound, Unused
<1>4. RecordAccounts' = RecordAccounts \cup {e} /\ e \notin RecordAccounts
  <2>1. record'[e] # NoRecord
    <3>1. record'[e] \in Settlement
      BY <1>1, EscrowFacts
      DEF PaymentInv, PaymentTypeOK, Settlement, EscrowWrapper
    <3>2. QED BY <3>1, RecordAssumption
  <2>2. \A f \in EscrowIds \ {e} : record'[f] = record[f]
    BY <1>1 DEF PaymentInv, PaymentTypeOK
  <2>3. QED BY <1>1, <2>1, <2>2 DEF RecordAccounts
<1>5. RecordsSunk' = RecordsSunk + RecordRent
  <2>1. RecordRent * Cardinality(RecordAccounts \cup {e})
          = RecordRent * Cardinality(RecordAccounts) + RecordRent
    BY <1>2, <1>4, PaymentIsFinite, OneMore
  <2>2. QED BY <1>4, <2>1 DEF RecordsSunk
<1> HIDE DEF total, back, agent, p
<1>6. Total(wallet', Users) = Total(wallet, Users) + total + back - RecordRent
  BY <1>1, <1>2, <1>3, SettledWalletsTotal
<1>7. Deposited' = Deposited + (purse[e] - total - back) - purse[e]
  BY <1>1, PurseMoves
<1>8. Total(lamports', Jobs) = Total(lamports, Jobs)
  BY <1>1
<1>9. QED
  BY <1>2, <1>5, <1>6, <1>7, <1>8, AllLamportsType DEF AllLamports, Circulating

(* The refund that expire_claim takes from a job arrives in the escrow.    *)
LEMMA ExpireIntoPurseConserves ==
  ASSUME PaymentInv, PaymentInv', NEW j \in Jobs, NEW e \in EscrowIds,
         ExpireClaimIntoPurse(j, e)
  PROVE  AllLamports' = AllLamports
<1> DEFINE x == Refund(j)
<1>1. /\ ExpireElsewhere(j)
      /\ purse' = [purse EXCEPT ![e] = purse[e] + x]
      /\ UNCHANGED record
  BY DEF ExpireClaimIntoPurse
<1>2. TypeOK /\ TypeOK' /\ purse[e] \in Int
  BY DEF PaymentInv, PaymentTypeOK
<1>3. /\ Circulating' = Circulating - x
      /\ Circulating \in Int /\ x \in Nat
  BY <1>1, <1>2, PaymentIsFinite, ExpireElsewhereDebits
<1> HIDE DEF x
<1>4. Deposited' = Deposited + (purse[e] + x) - purse[e]
  BY <1>1, PurseMoves
<1>5. RecordsSunk' = RecordsSunk
  BY <1>1 DEF RecordsSunk, RecordAccounts
<1>6. QED BY <1>2, <1>3, <1>4, <1>5, AllLamportsType DEF AllLamports

LEMMA PaymentStepConserves ==
  ASSUME PaymentInv, PaymentInv', [PaymentNext]_paymentVars PROVE AllLamports' = AllLamports
<1>1. ASSUME UNCHANGED <<lamports, wallet, purse, record>> PROVE AllLamports' = AllLamports
  BY <1>1 DEF AllLamports, Circulating, Deposited, RecordsSunk, RecordAccounts
<1>2. CASE Next /\ UNCHANGED payVars
  <2>1. TypeOK /\ TypeOK'
    BY DEF PaymentInv, PaymentTypeOK
  <2>2. Circulating' = Circulating
    BY <1>2, <2>1, PaymentIsFinite, NextConserves
  <2>3. QED
    BY <1>2, <2>2 DEF payVars, AllLamports, Deposited, RecordsSunk, RecordAccounts
<1>3. ASSUME NEW e \in EscrowIds, PaymentStep(e) PROVE AllLamports' = AllLamports
  <2>1. CASE \/ DelegateToPer(e)
             \/ \E r \in PaymentReports : VerifyTeeAttestation(e, r)
             \/ \E caller \in Users \cup Validators, amount \in Amounts :
                  RecordPayment(e, caller, amount)
             \/ \E tree \in LeafTrees, total \in Amounts :
                  CompressSettlement(e, tree, total)
    BY <1>1, <2>1
    DEF DelegateToPer, VerifyTeeAttestation, RecordPayment, CompressSettlement
  <2>2. QED BY <1>3, <2>1, CreateConserves, SettlementConserves DEF PaymentStep
<1>4. CASE UNCHANGED paymentVars
  BY <1>1, <1>4 DEF paymentVars
<1>5. QED BY <1>2, <1>3, <1>4, ExpireIntoPurseConserves DEF PaymentNext

(* No lamport appears or disappears over the instructions on jobs and on   *)
(* payments, not even when payer, agent and poster of a settlement are one *)
(* wallet, or when expire_claim names an escrow (record_settlement,        *)
(* create_escrow_wrapper, with job.rs and settlement.rs).                  *)
THEOREM PaymentsAreConserved == PaymentSpec => []PaymentsConserved
<1>1. PaymentInit => PaymentsConserved
  <2> SUFFICES ASSUME PaymentInit PROVE PaymentsConserved
    OBVIOUS
  <2>1. Total(lamports, Jobs) = 0 /\ Total(purse, EscrowIds) = 0
    BY PaymentIsFinite, TotalZero DEF PaymentInit, Init, FiniteLedger
  <2>2. wallet = Funds /\ Total(Funds, Users) \in Int
    BY PaymentIsFinite, FundsAssumption, TotalType DEF PaymentInit, Init, FiniteLedger
  <2>3. RecordAccounts = {}
    BY DEF PaymentInit, RecordAccounts
  <2>4. RecordRent * Cardinality(RecordAccounts) = 0
    BY <2>3, FS_EmptySet, PaymentAssumption
  <2>5. QED BY <2>1, <2>2, <2>4 DEF PaymentsConserved
<1>2. PaymentsConserved <=> AllLamports = Total(Funds, Users)
  BY DEF PaymentsConserved, AllLamports, Circulating, Deposited, RecordsSunk
<1>3. PaymentsConserved /\ PaymentInv /\ PaymentInv' /\ [PaymentNext]_paymentVars
        => PaymentsConserved'
  <2>1. ASSUME PaymentInv, PaymentInv', [PaymentNext]_paymentVars
        PROVE  AllLamports' = AllLamports
    BY <2>1, PaymentStepConserves
  <2>2. QED BY <1>2, <2>1
    DEF PaymentsConserved, AllLamports, Circulating, Deposited, RecordsSunk
<1>4. QED BY <1>1, <1>3, PaymentInvariance, PTL
          DEF PaymentSpec

=============================================================================
