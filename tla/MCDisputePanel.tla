--------------------------- MODULE MCDisputePanel ---------------------------
(* Constants of the TLC runs of DisputePanel: a job, j1, that is auctioned,*)
(* and in one run the address j2 of a sub-job of it or of a second job.    *)
EXTENDS PanelStatements, TLC

CONSTANTS poster, worker, rival, tee, j1, j2, t1, t2

MCPoster == [j \in Jobs |-> poster]

(* The poster can fund one job at a time and dispute it once; the worker   *)
(* can lock its stake, pay the rent of a sub-job, and dispute and vote.    *)
MCFunds == [u \in Users |-> IF u = poster THEN 25 ELSE 9]

(* Two disputes of j1, or one.  (Any job can be disputed; that j2 is not   *)
(* keeps the run small.)                                                   *)
TwoThreads == {<<j1, t1>>, <<j1, t2>>}
OneThread  == {<<j1, t1>>}

MCReports == {[job |-> j1, validator |-> tee, signed |-> TRUE,
               issued_at |-> 0, expires_at |-> 0]}

(* Threads are interchangeable.                                            *)
ThreadSymmetry == Permutations({t1, t2})

=============================================================================
