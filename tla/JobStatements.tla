---------------------------- MODULE JobStatements ----------------------------
(***************************************************************************)
(* What comments of the job program say of it, as properties.  The code    *)
(* does not keep them: each has a run that shows how.                      *)
(***************************************************************************)
EXTENDS JobEscrow

(* expire_claim's account "Receives reward refund. Validated via job.poster *)
(* in instruction" (job.rs): an expired claim refunds the poster.          *)
ExpiryRefundsPoster ==
  [][\A j \in Jobs :
       job[j].status \in {"CLAIMED", "STAKED"} /\ job'[j].status = "FAILED" =>
         wallet'[Poster[j]] > wallet[Poster[j]]]_vars

(* expire_unclaimed "refunds poster's escrowed SOL. Works for STATUS_OPEN  *)
(* and STATUS_BIDDING" (job.rs): past its deadline, an unclaimed job does  *)
(* not stay so when its poster wants the reward back.                      *)
UnclaimedRefunded ==
  \A j \in Jobs :
    (job[j].status \in {"OPEN", "BIDDING"} /\ now > job[j].deadline)
      ~> (job[j].status \notin {"OPEN", "BIDDING"})

=============================================================================
