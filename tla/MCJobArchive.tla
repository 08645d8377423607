---------------------------- MODULE MCJobArchive ----------------------------
(* Constants of the TLC runs of JobArchive: one address, twice a job's.    *)
EXTENDS ArchiveLedger, TLC

CONSTANTS poster, worker, tee, j1, t1, a1, a2, a3

MCPoster == [j \in Jobs |-> poster]

(* The poster can fund one job at a time and dispute it; the worker can    *)
(* lock a stake, dispute, or pay for an archive or a credential.           *)
MCFunds == [u \in Users |-> IF u = poster THEN 13 ELSE 2]

MCDisputes == {<<j1, t1>>}

MCReports == {[job |-> j1, validator |-> tee, signed |-> TRUE,
               issued_at |-> 0, expires_at |-> 0]}

(* The trees for compressed jobs are interchangeable.                      *)
TreeSymmetry == Permutations({a1, a2})

=============================================================================
