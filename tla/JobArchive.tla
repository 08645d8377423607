----------------------------- MODULE JobArchive -----------------------------
(***************************************************************************)
(* What is kept of a finished job, and what happens to its account: the    *)
(* archives of settlement.rs and compressed.rs, compress_finished_job,     *)
(* which empties the account, and the credential vaults of credential.rs;  *)
(* next to every job and dispute instruction.                              *)
(*                                                                         *)
(* An emptied address is free again: its poster may create another job     *)
(* there, while disputes, archives and credentials of the first are still  *)
(* seeded by the same address.  `life` counts the jobs an address has had; *)
(* it, raisedIn and the life fields are history, which no guard reads.     *)
(*                                                                         *)
(* Leaves of the Light state trees are addressed by what seeds them and by *)
(* the address tree the sender picks: one leaf per tree.  Hashes, reason   *)
(* codes, timestamps and bumps, which nothing reads back, are left out.    *)
(***************************************************************************)
EXTENDS DisputePanel

CONSTANTS
  Trees,            \* address trees picked for compressed jobs
  ArchiveTrees,     \* and for compressed archives
  Keepers,          \* wallets that store credentials (any wallet may)
  ArchiveRent,      \* Rent::minimum_balance(SettlementArchive::SIZE)
  CredentialRent,   \* Rent::minimum_balance(CredentialVault::SIZE)
  MaxLives          \* bound: jobs created at one address

ASSUME ArchiveAssumption == /\ Keepers \subseteq Users
                            /\ ArchiveRent \in Nat
                            /\ CredentialRent \in Nat
                            /\ MaxLives \in Nat

VARIABLES
  archive,          \* the archive account of each job address
  archiveLeaf,      \* its compressed archives, by tree
  jobLeaf,          \* the compressed jobs left by it, by tree
  credential,       \* is_active of each credential vault, if there is one
  life,             \* history: jobs created at the address so far
  raisedIn          \* history: the life in which a dispute was opened

keptVars    == <<archive, archiveLeaf, jobLeaf, credential>>
archiveVars == <<job, lamports, wallet, site, now, dispute, vault, vote,
                 archive, archiveLeaf, jobLeaf, credential, life, raisedIn>>

Archived ==
  [claimer : Users \cup {NoOne}, reward : Nat, claimer_stake : Nat,
   verdict : {0, 1}, life : Nat]

NoArchive == [claimer |-> NoOne, reward |-> 0, claimer_stake |-> 0,
              verdict |-> 0, life |-> 0]

CompressedJob ==
  [status : Status, claimer : Users \cup {NoOne}, reward : Nat,
   claimer_stake : Nat, parent_job : Jobs \cup {NoJob}, life : Nat]

NoLeaf == [status |-> "NONE", claimer |-> NoOne, reward |-> 0,
           claimer_stake |-> 0, parent_job |-> NoJob, life |-> 0]

Vaults == Keepers \X Jobs

-----------------------------------------------------------------------------
(* settlement.rs, compressed.rs: archives                                  *)

(* Mutant: work that waits for its verdict can be archived.                *)
ArchivableEarly(j) == OnL1(j) /\ job[j].status \in {"SUBMITTED", "DONE", "FAILED"}

Archivable(j) == OnL1(j) /\ Terminal(j)

Outcome(j) ==
  [claimer |-> job[j].claimer, reward |-> job[j].reward,
   claimer_stake |-> job[j].claimer_stake,
   verdict |-> IF job[j].status = "DONE" THEN 1 ELSE 0, life |-> life[j]]

(* Anyone pays for it; the address takes one archive, ever.                *)
ArchiveSettlement(j, payer) ==
  /\ Archivable(j)
  /\ archive[j] = NoArchive
  /\ wallet[payer] >= ArchiveRent
  /\ archive' = [archive EXCEPT ![j] = Outcome(j)]
  /\ wallet'  = [wallet EXCEPT ![payer] = @ - ArchiveRent]
  /\ UNCHANGED <<job, lamports, site, now, disputeVars, archiveLeaf, jobLeaf,
                 credential, life, raisedIn>>

ArchiveSettlementCompressed(j, tree) ==
  /\ Archivable(j)
  /\ archiveLeaf[j][tree] = NoArchive
  /\ archiveLeaf' = [archiveLeaf EXCEPT ![j][tree] = Outcome(j)]
  /\ UNCHANGED <<job, lamports, wallet, site, now, disputeVars, archive, jobLeaf,
                 credential, life, raisedIn>>

-----------------------------------------------------------------------------
(* compressed.rs: compress_finished_job                                    *)

(* Mutant: has_one = poster is missing.                                    *)
AnySigner(j, signer) == TRUE

HasOnePoster(j, signer) == signer = Poster[j]

(* Mutant: a leaf that exists is written again.                            *)
LeafReusable(j, tree) == TRUE

LeafNew(j, tree) == jobLeaf[j][tree] = NoLeaf

(* Mutant: the signer is credited with the rent only.                      *)
ReclaimRent(j) == JobRent

(* All there is: rent, a stake that was forfeited, lost stakes of          *)
(* challengers, refunds of other jobs.                                     *)
Reclaimed(j) == lamports[j]

(* The data is written back when the handler returns.  The account ends    *)
(* with the transaction if it has no lamports then; if the sender pays     *)
(* rent back in the same transaction, the finished job stays.              *)
Remains(j, repaid) == IF repaid = 0 THEN Absent ELSE job[j]

(* The account is left without lamports, or with what the transaction pays *)
(* back into it: its rent, or it fails.  Open disputes of the job are not  *)
(* looked for.                                                             *)
CompressFinishedJob(j, signer, tree, repaid) ==
  /\ OnL1(j)
  /\ HasOnePoster(j, signer)
  /\ Terminal(j)
  /\ LeafNew(j, tree)
  /\ wallet[signer] + Reclaimed(j) >= repaid
  /\ jobLeaf'  = [jobLeaf EXCEPT ![j][tree] =
                   [status |-> job[j].status, claimer |-> job[j].claimer,
                    reward |-> job[j].reward, claimer_stake |-> job[j].claimer_stake,
                    parent_job |-> job[j].parent_job, life |-> life[j]]]
  /\ wallet'   = [wallet EXCEPT ![signer] = @ + Reclaimed(j) - repaid]
  /\ lamports' = [lamports EXCEPT ![j] = repaid]
  /\ job'      = [job EXCEPT ![j] = Remains(j, repaid)]
  /\ UNCHANGED <<site, now, disputeVars, archive, archiveLeaf, credential, life,
                 raisedIn>>

-----------------------------------------------------------------------------
(* credential.rs                                                           *)

(* Mutant: init_if_needed.                                                 *)
VaultReusable(v) == credential[v] # "ACTIVE"

VaultNew(v) == credential[v] = "NONE"

(* The signer is called poster, and need not be the job's.                 *)
StoreCredential(poster, j) ==
  LET v == <<poster, j>>
  IN  /\ OnL1(j) /\ Exists(j)
      /\ VaultNew(v)
      /\ wallet[poster] >= CredentialRent
      /\ credential' = [credential EXCEPT ![v] = "ACTIVE"]
      /\ wallet'     = [wallet EXCEPT ![poster] = @ - CredentialRent]
      /\ UNCHANGED <<job, lamports, site, now, disputeVars, archive, archiveLeaf,
                     jobLeaf, life, raisedIn>>

(* At any time, whatever the job is; the account stays.                    *)
ClearCredential(poster, j) ==
  LET v == <<poster, j>>
  IN  /\ credential[v] # "NONE"
      /\ credential' = [credential EXCEPT ![v] = "CLEARED"]
      /\ UNCHANGED <<job, lamports, wallet, site, now, disputeVars, archive,
                     archiveLeaf, jobLeaf, life, raisedIn>>

-----------------------------------------------------------------------------
ArchiveInit ==
  /\ PanelInit
  /\ archive     = [j \in Jobs |-> NoArchive]
  /\ archiveLeaf = [j \in Jobs |-> [t \in ArchiveTrees |-> NoArchive]]
  /\ jobLeaf     = [j \in Jobs |-> [t \in Trees |-> NoLeaf]]
  /\ credential  = [v \in Vaults |-> "NONE"]
  /\ life        = [j \in Jobs |-> 0]
  /\ raisedIn    = [d \in Disputes |-> 0]

(* Job and dispute instructions, with what the history records of them.    *)
PanelStep ==
  /\ PanelNext
  /\ life' = [j \in Jobs |-> life[j] +
                IF ~ Exists(j) /\ job'[j].status # "NONE" THEN 1 ELSE 0]
  /\ raisedIn' = [d \in Disputes |->
                    IF dispute[d].status = "NONE" /\ dispute'[d].status # "NONE"
                    THEN life[JobOf(d)] ELSE raisedIn[d]]
  /\ \A j \in Jobs : life'[j] <= MaxLives
  /\ UNCHANGED keptVars

KeepingStep(j) ==
  \/ \E payer \in Users : ArchiveSettlement(j, payer)
  \/ \E tree \in ArchiveTrees : ArchiveSettlementCompressed(j, tree)
  \/ \E signer \in Users, tree \in Trees, repaid \in {0, JobRent} :
       CompressFinishedJob(j, signer, tree, repaid)
  \/ \E poster \in Keepers : StoreCredential(poster, j) \/ ClearCredential(poster, j)

ArchiveNext == PanelStep \/ \E j \in Jobs : KeepingStep(j)

ArchiveSpec == ArchiveInit /\ [][ArchiveNext]_archiveVars

-----------------------------------------------------------------------------
(* Properties.                                                             *)

ArchiveTypeOK ==
  /\ PanelTypeOK
  /\ archive     \in [Jobs -> Archived]
  /\ archiveLeaf \in [Jobs -> [ArchiveTrees -> Archived]]
  /\ jobLeaf     \in [Jobs -> [Trees -> CompressedJob]]
  /\ credential  \in [Vaults -> {"NONE", "ACTIVE", "CLEARED"}]
  /\ life        \in [Jobs -> Nat]
  /\ raisedIn    \in [Disputes -> Nat]

(* What is recorded of finished jobs, in one form: a leaf's status is the  *)
(* verdict that an archive would have.                                     *)
AsOutcome(leaf) ==
  [claimer |-> leaf.claimer, reward |-> leaf.reward,
   claimer_stake |-> leaf.claimer_stake,
   verdict |-> IF leaf.status = "DONE" THEN 1 ELSE 0, life |-> leaf.life]

RecordsOf(j) ==
  ({archive[j]} \cup {archiveLeaf[j][t] : t \in ArchiveTrees}
     \cup {AsOutcome(jobLeaf[j][t]) : t \in Trees}) \ {NoArchive}

LostDispute(j) ==
  \E d \in Disputes : JobOf(d) = j /\ dispute[d].status = "CHALLENGER_WINS"

SameTerms(a, b) ==
  a.claimer = b.claimer /\ a.reward = b.reward /\ a.claimer_stake = b.claimer_stake

(* A record tells what a job ended as, with one exception: a job that was  *)
(* paid may have lost a dispute since.                                     *)
Tells(a, j) ==
  /\ Terminal(j)
  /\ SameTerms(a, job[j])
  /\ a.verdict = 0 => job[j].status = "FAILED"
  /\ a.verdict = 1 /\ job[j].status = "FAILED" => LostDispute(j)

Agree(a, b, j) == SameTerms(a, b) /\ (a.verdict # b.verdict => LostDispute(j))

(* The records of an address, archives and compressed jobs, made by        *)
(* anybody at any time after settlement and as often as there are trees,   *)
(* tell of the job of their own life if it is still there, and agree with  *)
(* each other once it is gone; they never tell of another job that had the *)
(* address before or has it since.                                         *)
ArchiveFaithful ==
  \A j \in Jobs : \A a \in RecordsOf(j) :
    /\ a.life \in 1..life[j]
    /\ a.life = life[j] /\ Exists(j) => Tells(a, j)
    /\ \A b \in RecordsOf(j) : b.life = a.life => Agree(a, b, j)

(* Every job that is gone left a leaf: an account is never closed without  *)
(* a record, and reuse of the address never overwrites one.                *)
Gone(j, n) == n < life[j] \/ ~ Exists(j)

NoRecordLost ==
  \A j \in Jobs : \A n \in 1..life[j] :
    Gone(j, n) => \E t \in Trees : jobLeaf[j][t].life = n

(* A dispute is about submitted work of the job it was raised on, as long  *)
(* as that job is there.  Of one that outlives its job nothing of the kind *)
(* holds: its verdict falls on whatever job has the address then.          *)
FoundedInItsLife ==
  \A d \in Disputes :
    LET a == job[JobOf(d)]
    IN  dispute[d].status # "NONE" /\ raisedIn[d] = life[JobOf(d)] /\ a.status # "NONE" =>
          /\ a.status \in {"SUBMITTED", "DONE", "FAILED"}
          /\ a.submitted_at <= dispute[d].opened_at
          /\ dispute[d].opened_at < a.dispute_window_end
          /\ dispute[d].challenger # a.claimer

(* What a finished job still holds goes, however late, to its poster       *)
(* against a new leaf of it or, by a verdict in the same step, to the      *)
(* challenger of a dispute on it.                                          *)
FinishedPaysOnly ==
  [][\A j \in Jobs, u \in Users :
       Terminal(j) /\ lamports'[j] < lamports[j] /\ wallet'[u] > wallet[u] =>
         \/ /\ u = Poster[j]
            /\ \E t \in Trees : jobLeaf[j][t] = NoLeaf /\ jobLeaf'[j][t] # NoLeaf
         \/ \E d \in Disputes : /\ JobOf(d) = j
                                /\ dispute[d].challenger = u
                                /\ dispute[d].status = "OPEN"
                                /\ dispute'[d].status = "CHALLENGER_WINS"]_archiveVars

(* A credential once cleared is never active again, however often the job  *)
(* it was for is created anew at its address.                              *)
ClearedForGood ==
  [][\A v \in Vaults : credential[v] = "CLEARED" => credential'[v] = "CLEARED"]_archiveVars

=============================================================================
