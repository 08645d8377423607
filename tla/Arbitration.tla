----------------------------- MODULE Arbitration -----------------------------
(***************************************************************************)
(* What arbitration over escrowed deals promises, whoever decides and by   *)
(* whichever vote.  The deals go their own way (Trade); a case is raised   *)
(* once, on delivered work, against a pledge; it is decided once, however  *)
(* far the deal has moved on; the pledge then goes to the deal or back,    *)
(* and a deal that is reversed loses its bond, as far as it is still there.*)
(***************************************************************************)
EXTENDS Integers

CONSTANTS
  Deals,
  Cases,
  DealOf         \* the deal each case is about

VARIABLES
  phase,         \* of each deal, as in EscrowContract
  held,          \* what the deal's account can pay
  bond,          \* what its worker stands to lose
  ruling,        \* of each case
  pledge,        \* what an open case owes to whoever wins it
  chest          \* what its account can pay

arbitrationVars == <<phase, held, bond, ruling, pledge, chest>>

(* The phases a deal may be in one step after it was in each.              *)
Successors ==
  [absent    |-> {"absent", "funded"},
   funded    |-> {"funded", "engaged", "refunded"},
   engaged   |-> {"engaged", "secured", "delivered", "refunded"},
   secured   |-> {"secured", "delivered", "refunded"},
   delivered |-> {"delivered", "released", "refunded"},
   released  |-> {"released"},
   refunded  |-> {"refunded"}]

ArbitrationInit ==
  /\ phase  = [d \in Deals |-> "absent"]
  /\ held   = [d \in Deals |-> 0]
  /\ bond   = [d \in Deals |-> 0]
  /\ ruling = [c \in Cases |-> "none"]
  /\ pledge = [c \in Cases |-> 0]
  /\ chest  = [c \in Cases |-> 0]

(* Anything the deals do among themselves.  Once engaged, the bond stays.  *)
(* They never take from a deal that was released or refunded, nor from the *)
(* chest of a case; a refund of theirs may be left in either.              *)
Trade ==
  /\ phase' \in [Deals -> DOMAIN Successors]
  /\ held'  \in [Deals -> Nat]
  /\ bond'  \in [Deals -> Nat]
  /\ chest' \in [Cases -> Nat]
  /\ \A d \in Deals :
       /\ phase'[d] \in Successors[phase[d]]
       /\ phase[d] \notin {"absent", "funded"} => bond'[d] = bond[d]
       /\ phase[d] \in {"released", "refunded"} => held'[d] >= held[d]
  /\ \A c \in Cases : chest'[c] >= chest[c]
  /\ UNCHANGED <<ruling, pledge>>

Raise(c) ==
  /\ ruling[c] = "none"
  /\ phase[DealOf[c]] = "delivered"
  /\ ruling' = [ruling EXCEPT ![c] = "open"]
  /\ pledge' = [pledge EXCEPT ![c] = pledge'[c]]
  /\ pledge'[c] \in Nat
  /\ chest'  = [chest EXCEPT ![c] = @ + pledge'[c]]
  /\ UNCHANGED <<phase, held, bond>>

(* A ruling on case c, which pays its pledge out, once.                    *)
Rule(c, result) ==
  /\ ruling[c] = "open"
  /\ phase[DealOf[c]] \in {"delivered", "released", "refunded"}
  /\ pledge[c] <= chest[c]
  /\ ruling' = [ruling EXCEPT ![c] = result]
  /\ chest'  = [chest EXCEPT ![c] = @ - pledge[c]]
  /\ pledge' = [pledge EXCEPT ![c] = 0]

Uphold(c) ==
  /\ Rule(c, "upheld")
  /\ held' = [held EXCEPT ![DealOf[c]] = @ + pledge[c]]
  /\ UNCHANGED <<phase, bond>>

Penalty(d) == IF bond[d] <= held[d] THEN bond[d] ELSE held[d]

Reverse(c) ==
  LET d == DealOf[c]
  IN  /\ Rule(c, "reversed")
      /\ phase' = [phase EXCEPT ![d] = "refunded"]
      /\ held'  = [held EXCEPT ![d] = @ - Penalty(d)]
      /\ UNCHANGED bond

ArbitrationNext == Trade \/ \E c \in Cases : Raise(c) \/ Uphold(c) \/ Reverse(c)

ArbitrationSpec == ArbitrationInit /\ [][ArbitrationNext]_arbitrationVars

=============================================================================
