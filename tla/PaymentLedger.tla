---------------------------- MODULE PaymentLedger ----------------------------
(* Conservation over jobs and payments: a sum over jobs, escrows, wallets. *)
EXTENDS PaymentEscrow, JobLedger

(* A ledger has finitely many escrows, as it has finitely many jobs.       *)
ASSUME PaymentLedgerAssumption == IsFiniteSet(EscrowIds)

(* No instruction closes a settlement record again.                        *)
RecordAccounts == {e \in EscrowIds : record[e] # NoRecord}

(* Wallets, job accounts, escrows and the rent of settlement records add   *)
(* up to what there was in the beginning, over every instruction on jobs   *)
(* and on payments: record_settlement moves lamports by hand between up to *)
(* four accounts, of which payer, agent and poster may coincide, and       *)
(* expire_claim may credit an escrow.                                      *)
PaymentsConserved ==
  Total(wallet, Users) + Total(lamports, Jobs) + Total(purse, EscrowIds)
    + RecordRent * Cardinality(RecordAccounts)
  = Total(Funds, Users)

=============================================================================
