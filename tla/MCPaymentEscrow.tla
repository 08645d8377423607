---------------------------- MODULE MCPaymentEscrow ----------------------------
(* Constants of the TLC runs of PaymentEscrow: an escrow for either of two *)
(* jobs, which may be parent and sub-job.                                  *)
EXTENDS PaymentStatements, PaymentLedger

CONSTANTS poster, worker, tee, j1, j2, e1, e2, s1, a1, a2

MCPoster == [j \in Jobs |-> poster]

(* Enough for a root job of 1, an escrow of 2 and a settlement record; the *)
(* worker can lock a stake and pay the rent of a sub-job.                  *)
MCFunds == [u \in Users |-> IF u = poster THEN 6 ELSE 2]

(* j1 can be auctioned, so that sub-jobs hang off it.                      *)
MCReports ==
  {[job |-> j1, validator |-> tee, signed |-> TRUE, issued_at |-> 0, expires_at |-> 0]}

PaymentReport(e, j) ==
  [escrow |-> e, job |-> j, session |-> s1, validator |-> tee,
   signed |-> TRUE, issued_at |-> 0, expires_at |-> 1]

(* e1 is attested as an escrow of j2; the report on j1 is of another one.  *)
MCPaymentReports == {PaymentReport(e1, j2), PaymentReport(e2, j1)}

=============================================================================
