----------------------------- MODULE MCSubJobs ------------------------------
(* Constants of the TLC run on a parent job and its sub-jobs.              *)
EXTENDS JobLedger, JobStatements, TLC

CONSTANTS poster, worker, tee, j1, j2, j3

MCPoster == [j \in Jobs |-> poster]

(* The poster can fund one root job at a time; the worker can lock its    *)
(* stake of 2 and pay the rent of two sub-jobs.  Two sub-jobs of 11 drain a *)
(* parent of 20 to its rent, the stake included.                           *)
MCFunds == [u \in Users |-> IF u = poster THEN 21 ELSE 4]

(* Only j1 is ever attested, so only j1 can become a parent.               *)
MCReports ==
  {[job |-> j1, validator |-> tee, signed |-> TRUE,
    issued_at |-> 0, expires_at |-> 0]}

(* The other addresses are interchangeable.                                *)
JobSymmetry == Permutations({j2, j3})

=============================================================================
