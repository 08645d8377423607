-------------------------- MODULE PaymentStatements --------------------------
(* What the repository says of the payments program and the code does not  *)
(* keep, as properties.                                                    *)
EXTENDS PaymentEscrow

(* "Use on-chain metered total - never trust client-supplied value": no    *)
(* settlement on chain, compressed ones included, states another total.    *)
LeafStatesMeteredTotal ==
  \A e \in EscrowIds :
    record[e] # NoRecord =>
      \A tree \in LeafTrees : leaf[e][tree] # NoRecord =>
        leaf[e][tree].total_paid = record[e].total_paid

(* The sender that closes a session sends record_settlement until it       *)
(* lands; the clock runs.                                                  *)
PaymentFairness ==
  /\ WF_paymentVars(Tick /\ UNCHANGED payVars)
  /\ \A e \in EscrowIds :
       WF_paymentVars(\E payer \in Users, claimed \in Amounts :
                        RecordSettlement(e, payer, claimed))

FairPaymentSpec == PaymentSpec /\ PaymentFairness

(* "delegate into PER, track incremental usage privately, commit the final *)
(* settlement outcome on-chain" (dark-forest/README.md): an escrow whose   *)
(* agent is known and that was delegated is settled in the end.            *)
DelegatedSettles ==
  \A e \in EscrowIds :
    (place[e] = "ER" /\ escrow[e].agent # NoOne) ~> (record[e] # NoRecord)

=============================================================================
