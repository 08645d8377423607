------------------------------ MODULE JobLedger ------------------------------
(***************************************************************************)
(* Properties of JobEscrow that add up several accounts: conservation of   *)
(* lamports, and the books of a parent job and its sub-jobs.  They are     *)
(* kept apart because they need sums over sets.                            *)
(***************************************************************************)
EXTENDS JobEscrow, Totals

(* A ledger has finitely many accounts.                                    *)
ASSUME LedgerAssumption == IsFiniteSet(Jobs) /\ IsFiniteSet(Users)

Children(p) == {s \in Jobs : job[s].parent_job = p}

RewardOf == [s \in Jobs |-> job[s].reward]

(* Handlers move lamports by hand (try_borrow_mut_lamports), one `-=` and  *)
(* one `+=` each: no instruction makes or loses any.                       *)
LamportsConserved ==
  Total(wallet, Users) + Total(lamports, Jobs) = Total(Funds, Users)

(* While the orchestrator works, what the parent still holds and what its  *)
(* sub-jobs were funded with cover reward plus stake together: sub-jobs    *)
(* cost the parent what they were funded with and nothing else.  (It can   *)
(* be more: the refund of an expired job may be credited to the parent.)   *)
FamilyBalance ==
  \A p \in Jobs : job[p].status = "STAKED" =>
    Available(p) + Total(RewardOf, Children(p))
      >= job[p].reward + job[p].claimer_stake

(* The lineage is consistent: the counter counts the children, they share  *)
(* the parent's poster and verification level, and only a job whose stake  *)
(* was locked has any (create_sub_job requires STAKED; auto-assigned jobs, *)
(* sub-jobs among them, never get there, so families stay one level deep   *)
(* unless a sub-job is auctioned).                                         *)
SubJobLineage ==
  \A p \in Jobs :
    /\ job[p].sub_job_count = Cardinality(Children(p))
    /\ \A s \in Children(p) :
         /\ Poster[s] = Poster[p]
         /\ job[s].verification_level = job[p].verification_level
         /\ job[p].claimer_stake > 0

=============================================================================
