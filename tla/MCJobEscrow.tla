---------------------------- MODULE MCJobEscrow -----------------------------
(* Constants of the TLC runs of JobEscrow and JobStatements on one job.    *)
EXTENDS JobStatements

CONSTANTS poster, worker, rival, tee, outsider, j1, j2

MCPoster == [j \in Jobs |-> poster]

(* The poster can fund one job of 20 and its rent; each worker a stake of  *)
(* 2 and a rent, but not a stake of 5, so a winner may be unable to lock.  *)
MCFunds == [u \in Users |-> IF u = poster THEN 25 ELSE 4]

Report(j, v, s, a, b) ==
  [job |-> j, validator |-> v, signed |-> s, issued_at |-> a, expires_at |-> b]

(* One good report, and one wrong in each respect the handler checks.      *)
MCReports ==
  {Report(j1, tee, TRUE, 1, 2), Report(j1, tee, FALSE, 0, 9),
   Report(j1, outsider, TRUE, 0, 9)}

=============================================================================
