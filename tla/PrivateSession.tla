--------------------------- MODULE PrivateSession ---------------------------
(***************************************************************************)
(* Payment sessions of the client, dark-forest/src/index.ts: a session per *)
(* escrow in a SessionStore, kept beside the metering on chain.  The chain *)
(* is the abstract MeteredChannel, which PaymentEscrow implements: an RPC  *)
(* that succeeds is one of its steps.  No step reads what a channel holds  *)
(* beyond its budget, so Gift is not offered.                              *)
(*                                                                         *)
(* startPrivateSession, recordPayment and closeSession are asynchronous:   *)
(* what stands between two awaits is one step here, and calls interleave.  *)
(* An RPC may fail without effect, or take effect and fail to answer; the  *)
(* process may stop anywhere, with a store that survives or one that does  *)
(* not.  requestCount moves with totalPaid; ids and endpoints are left out.*)
(***************************************************************************)
EXTENDS MeteredChannel

CONSTANTS
  Calls,         \* bound: calls in progress at the same time
  NoChannel,     \* the escrow of a call slot not in use
  Budgets,       \* config.budgetLamports
  Amounts        \* amountLamports

ASSUME SessionAssumption == /\ NoChannel \notin Channels
                            /\ Budgets \subseteq Nat
                            /\ Amounts \subseteq Nat

VARIABLES
  store,         \* what sessionStore.get returns for each escrow
  call,          \* where each call is, and the session it read
  upset          \* history: what has happened to an escrow besides calls
                 \* that follow one another and get their answers

sessionVars == <<phase, budget, metered, held, store, call, upset>>

State     == {"none", "active", "inactive"}
Session   == [state : State, totalPaid : Nat]
NoSession == [state |-> "none", totalPaid |-> 0]

Stage == {"idle",
          "created",             \* startPrivateSession: escrow made
          "sent", "landed",      \* recordPayment: RPC under way, effective
          "read", "marked", "settled"}  \* closeSession: session read, marked, RPC effective

CallState == [at : Stage, on : Channels \cup {NoChannel}, seen : Session, amount : Nat]
IdleCall  == [at |-> "idle", on |-> NoChannel, seen |-> NoSession, amount |-> 0]

Cause == {"overlap", "unanswered", "restart", "elsewhere"}

Busy(e) == \E c \in Calls : call[c].on = e

Begin(c, e, at, seen, amount) ==
  /\ call[c] = IdleCall
  /\ call'  = [call EXCEPT ![c] = [at |-> at, on |-> e, seen |-> seen, amount |-> amount]]
  /\ upset' = [upset EXCEPT ![e] = IF Busy(e) THEN @ \cup {"overlap"} ELSE @]

Advance(c, from, to) ==
  /\ call[c].at = from
  /\ call' = [call EXCEPT ![c].at = to]

Return(c, from) ==
  /\ call[c].at = from
  /\ call' = [call EXCEPT ![c] = IdleCall]

-----------------------------------------------------------------------------
(* startPrivateSession                                                     *)

(* budgetLamports is divided by 10^9, multiplied again and rounded down, in *)
(* floating point: 15 of them are a deposit of 14.                         *)
DepositsFor(b) == {b, b - 1} \cap Nat

StartCreates(c, e, b) ==
  /\ \E deposit \in DepositsFor(b) : Open(e, deposit)
  /\ Begin(c, e, "created", NoSession, 0)
  /\ UNCHANGED store

(* delegateToPer has succeeded.                                            *)
StartStores(c) ==
  /\ Return(c, "created")
  /\ store' = [store EXCEPT ![call[c].on] = [state |-> "active", totalPaid |-> 0]]
  /\ UNCHANGED <<channelVars, upset>>

(* It has not, or the store has not: an escrow without a session.          *)
StartFails(c) ==
  /\ Return(c, "created")
  /\ UNCHANGED <<channelVars, store, upset>>

-----------------------------------------------------------------------------
(* recordPayment                                                           *)

(* Mutant: isActive is not looked at.                                      *)
PayableIfStored(e) == store[e].state # "none"

Payable(e) == store[e].state = "active"

PayReads(c, e, amount) ==
  /\ Payable(e)
  /\ Begin(c, e, "sent", store[e], amount)
  /\ UNCHANGED <<channelVars, store>>

(* Mutant: the await is missing, the transaction may yet fail.             *)
PayAssumed(c) ==
  /\ Advance(c, "sent", "landed")
  /\ UNCHANGED <<channelVars, store, upset>>

PayLands(c) ==
  /\ Advance(c, "sent", "landed")
  /\ Meter(call[c].on, metered[call[c].on] + call[c].amount)
  /\ UNCHANGED <<store, upset>>

(* Mutant: the amount replaces the total.                                  *)
LastAmount(c) ==
  [call[c].seen EXCEPT !.totalPaid = call[c].amount]

(* The session read before the RPC, isActive with it, plus the amount.     *)
Updated(c) == [call[c].seen EXCEPT !.totalPaid = @ + call[c].amount]

PayStores(c) ==
  /\ Return(c, "landed")
  /\ store' = [store EXCEPT ![call[c].on] = Updated(c)]
  /\ UNCHANGED <<channelVars, upset>>

(* Mutant: the payment is taken back although it was never added.          *)
PayRollsBack(c) ==
  /\ Return(c, "sent")
  /\ store' = [store EXCEPT ![call[c].on].totalPaid = @ - call[c].amount]
  /\ UNCHANGED <<channelVars, upset>>

(* The RPC reports an error.  A transaction that was sent all the same may *)
(* land later: that is a payment from elsewhere then, see ChainMoves.      *)
PayFails(c) ==
  /\ Return(c, "sent")
  /\ UNCHANGED <<channelVars, store, upset>>

(* The answer is lost, or the store refuses.                               *)
PayUnanswered(c) ==
  /\ Return(c, "landed")
  /\ upset' = [upset EXCEPT ![call[c].on] = @ \cup {"unanswered"}]
  /\ UNCHANGED <<channelVars, store>>

-----------------------------------------------------------------------------
(* closeSession                                                            *)

(* It asks for a session, active or not.                                   *)
CloseReads(c, e) ==
  /\ store[e].state # "none"
  /\ Begin(c, e, "read", store[e], 0)
  /\ UNCHANGED <<channelVars, store>>

CloseMarks(c) ==
  /\ Advance(c, "read", "marked")
  /\ store' = [store EXCEPT ![call[c].on] = [call[c].seen EXCEPT !.state = "inactive"]]
  /\ UNCHANGED <<channelVars, upset>>

(* recordSettlement; the chain settles its own total.                      *)
CloseLands(c) ==
  /\ Advance(c, "marked", "settled")
  /\ Close(call[c].on)
  /\ UNCHANGED <<store, upset>>

CloseDeletes(c) ==
  /\ Return(c, "settled")
  /\ store' = [store EXCEPT ![call[c].on] = NoSession]
  /\ UNCHANGED <<channelVars, upset>>

(* A store, the RPC or its answer fails: the session stays as it is.       *)
CloseFails(c) ==
  /\ \E stage \in {"read", "marked", "settled"} : Return(c, stage)
  /\ UNCHANGED <<channelVars, store, upset>>

-----------------------------------------------------------------------------
(* Other senders, external: the validator that attests, another process    *)
(* that pays or settles the same escrow.  A transaction of this client that*)
(* lands when the call that sent it is over, failed or cut off, is one of  *)
(* theirs too: no call waits for it any more.                              *)
ChainMoves(e) ==
  \/ Attest(e) /\ UNCHANGED <<store, call, upset>>
  \/ Close(e) /\ UNCHANGED <<store, call, upset>>
  \/ /\ \E amount \in Amounts : Meter(e, metered[e] + amount)
     /\ upset' = [upset EXCEPT ![e] = @ \cup {"elsewhere"}]
     /\ UNCHANGED <<store, call>>

(* The process stops and starts again.  A LocalStorageSessionStore or an   *)
(* injected store keeps its sessions, a MemorySessionStore does not.  What *)
(* the calls had sent may still land, as a step of ChainMoves.             *)
Restart ==
  /\ \E c \in Calls : call[c] # IdleCall
  /\ call'  = [c \in Calls |-> IdleCall]
  /\ store' \in {store, [e \in Channels |-> NoSession]}
  /\ upset' = [e \in Channels |-> IF Busy(e) THEN upset[e] \cup {"restart"} ELSE upset[e]]
  /\ UNCHANGED channelVars

-----------------------------------------------------------------------------
SessionInit ==
  /\ ChannelInit
  /\ store = [e \in Channels |-> NoSession]
  /\ call  = [c \in Calls |-> IdleCall]
  /\ upset = [e \in Channels |-> {}]

CallStep(c) ==
  \/ \E e \in Channels, b \in Budgets : StartCreates(c, e, b)
  \/ StartStores(c)
  \/ StartFails(c)
  \/ \E e \in Channels, amount \in Amounts : PayReads(c, e, amount)
  \/ PayLands(c)
  \/ PayStores(c)
  \/ PayFails(c)
  \/ PayUnanswered(c)
  \/ \E e \in Channels : CloseReads(c, e)
  \/ CloseMarks(c)
  \/ CloseLands(c)
  \/ CloseDeletes(c)
  \/ CloseFails(c)

SessionNext ==
  \/ \E c \in Calls : CallStep(c)
  \/ \E e \in Channels : ChainMoves(e)
  \/ Restart

SessionSpec == SessionInit /\ [][SessionNext]_sessionVars

-----------------------------------------------------------------------------
(* Properties.                                                             *)

SessionTypeOK ==
  /\ phase   \in [Channels -> {"absent", "open", "metering", "closed"}]
  /\ budget  \in [Channels -> Nat]
  /\ metered \in [Channels -> Nat]
  /\ held    \in [Channels -> Nat]
  /\ store   \in [Channels -> Session]
  /\ call    \in [Calls -> CallState]
  /\ upset   \in [Channels -> SUBSET Cause]

(* However calls overlap, fail or are cut off, and whoever else pays, a    *)
(* session never claims a payment the chain has not metered: its total may *)
(* fall behind, never run ahead.                                           *)
NeverOverstated == \A e \in Channels : store[e].totalPaid <= metered[e]

(* Calls that follow one another, whose RPCs may fail but not lose their   *)
(* answer, keep a session exact: that much, and no more, a caller has to   *)
(* see to for getActiveSession to tell the total on chain.                 *)
ExactIfUndisturbed ==
  \A e \in Channels :
    upset[e] = {} /\ ~ Busy(e) /\ store[e].state # "none" =>
      store[e].totalPaid = metered[e]

(* Once no call starts or pays on an escrow and no active session is       *)
(* stored for it, recordPayment never sends another payment for it: a close*)
(* that fails half-way, a restart or a second close never revives the      *)
(* session.  A payment that was sent before, by a call that failed or was  *)
(* cut off, may still land.                                                *)
Sealed(e) ==
  /\ phase[e] # "absent"
  /\ store[e].state # "active"
  /\ \A c \in Calls : call[c].on = e => call[c].at \in {"read", "marked", "settled"}

SealedForGood ==
  [][\A e \in Channels : Sealed(e) => Sealed(e)']_sessionVars

=============================================================================
