--------------------------- MODULE EscrowContract ---------------------------
(***************************************************************************)
(* What an escrowed task promises, whatever the program behind it: a deal  *)
(* is funded with its price, engaged, perhaps secured by a bond, delivered,*)
(* and then released or refunded.  Money enters by funding and bonding and *)
(* leaves only in the step that decides the deal or funds a sub-contract;  *)
(* a decided deal never pays again.  The one way by which a step of one    *)
(* deal reaches another's money is a refund of a claim that lapsed: it may *)
(* be credited to any deal, and it adds to it.                             *)
(***************************************************************************)
EXTENDS Integers

CONSTANT Deals

VARIABLES
  phase,         \* of each deal
  price,         \* what the deal is worth
  bond,          \* what its worker stands to lose
  held           \* what it can pay

Phase == {"absent", "funded", "engaged", "secured", "delivered", "released",
          "refunded"}

ContractInit ==
  /\ phase = [d \in Deals |-> "absent"]
  /\ price = [d \in Deals |-> 0]
  /\ bond  = [d \in Deals |-> 0]
  /\ held  = [d \in Deals |-> 0]

Least(a, b) == IF a <= b THEN a ELSE b

(* Deal d goes from one of the phases `from` to `to`; no other deal does.  *)
Move(d, from, to) ==
  /\ phase[d] \in from
  /\ phase' = [phase EXCEPT ![d] = to]

Fund(d) ==
  /\ Move(d, {"absent"}, "funded")
  /\ price' = [price EXCEPT ![d] = price'[d]]
  /\ price'[d] > 0
  /\ held' = [held EXCEPT ![d] = @ + price'[d]]
  /\ bond' = [bond EXCEPT ![d] = 0]

(* The bond is agreed on here, and paid in by Secure.                      *)
Engage(d) ==
  /\ Move(d, {"funded"}, "engaged")
  /\ bond' = [bond EXCEPT ![d] = bond'[d]]
  /\ bond'[d] \in Nat
  /\ UNCHANGED <<price, held>>

Secure(d) ==
  /\ Move(d, {"engaged"}, "secured")
  /\ bond[d] > 0
  /\ held' = [held EXCEPT ![d] = @ + bond[d]]
  /\ UNCHANGED <<price, bond>>

Deliver(d) ==
  /\ Move(d, {"engaged", "secured"}, "delivered")
  /\ UNCHANGED <<price, bond, held>>

Release(d) ==
  /\ Move(d, {"delivered"}, "released")
  /\ held' = [held EXCEPT ![d] = @ - Least(price[d] + bond[d], @)]
  /\ UNCHANGED <<price, bond>>

(* Before any sub-contract could drain it, a deal holds its whole price.   *)
Refund(d) ==
  /\ Move(d, {"funded", "engaged", "secured", "delivered"}, "refunded")
  /\ phase[d] \in {"funded", "engaged"} => price[d] <= held[d]
  /\ held' = [held EXCEPT ![d] = @ - Least(price[d], @)]
  /\ UNCHANGED <<price, bond>>

(* The refund of a lapsed claim credited to a deal, perhaps to d itself.   *)
(* An absent deal may need part of it, or all, to keep its account alive.  *)
RefundInto(d, e) ==
  LET refund == Least(price[d], held[d])
  IN  /\ Move(d, {"engaged", "secured"}, "refunded")
      /\ phase[d] = "engaged" => price[d] <= held[d]
      /\ \E kept \in 0..refund :
           /\ kept > 0 => phase[e] = "absent"
           /\ held' = [[held EXCEPT ![d] = @ - refund]
                         EXCEPT ![e] = @ + (refund - kept)]
      /\ UNCHANGED <<price, bond>>

(* The sub-contract s is funded with what leaves d, to the lamport.        *)
Subcontract(d, s) ==
  /\ phase[d] = "secured"
  /\ Move(s, {"absent"}, "funded")
  /\ price' = [price EXCEPT ![s] = price'[s]]
  /\ 0 < price'[s] /\ price'[s] <= held[d]
  /\ held' = [held EXCEPT ![d] = @ - price'[s], ![s] = @ + price'[s]]
  /\ bond' = [bond EXCEPT ![s] = 0]

ContractNext ==
  \/ \E d \in Deals : \/ Fund(d) \/ Engage(d) \/ Secure(d) \/ Deliver(d)
                      \/ Release(d) \/ Refund(d)
  \/ \E d, e \in Deals : Subcontract(d, e) \/ RefundInto(d, e)

ContractSpec == ContractInit /\ [][ContractNext]_<<phase, price, bond, held>>

=============================================================================
