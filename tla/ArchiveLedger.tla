---------------------------- MODULE ArchiveLedger ----------------------------
(***************************************************************************)
(* Properties of JobArchive that add up all accounts, apart because they   *)
(* need sums over sets; and what a comment of the program says of archives *)
(* and the code does not keep.                                             *)
(***************************************************************************)
EXTENDS JobArchive, Totals

(* A ledger has finitely many accounts.                                    *)
ASSUME ArchiveLedgerAssumption ==
  /\ IsFiniteSet(Jobs) /\ IsFiniteSet(Users) /\ IsFiniteSet(Disputes)

(* Rent of the accounts no instruction closes again.                       *)
ArchiveAccounts    == {j \in Jobs : archive[j] # NoArchive}
CredentialAccounts == {v \in Vaults : credential[v] # "NONE"}
VoteAccounts       == {b \in Disputes \X Verifiers : vote[b[1]][b[2]] # 0}

RentSunk ==
  ArchiveRent * Cardinality(ArchiveAccounts)
    + CredentialRent * Cardinality(CredentialAccounts)
    + VoteRent * Cardinality(VoteAccounts)

(* Lamports are conserved over all instructions of the program: archives   *)
(* and verdicts that come after an account was emptied or created again    *)
(* make none and lose none.                                                *)
LedgerConserved ==
  Total(wallet, Users) + Total(lamports, Jobs) + Total(vault, Disputes) + RentSunk
    = Total(Funds, Users)

(* SettlementArchive "captures the final state of a settled job"           *)
(* (state/settlement.rs): its verdict is what the job ends as.             *)
ArchiveIsFinal ==
  \A j \in Jobs :
    archive[j] # NoArchive /\ archive[j].life = life[j] /\ Exists(j) =>
      (archive[j].verdict = 1 <=> job[j].status = "DONE")

=============================================================================
