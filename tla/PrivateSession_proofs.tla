------------------------ MODULE PrivateSession_proofs ------------------------
(***************************************************************************)
(* Proofs about PrivateSession, for any number of escrows and of calls in  *)
(* progress, and any budgets and amounts.                                  *)
(***************************************************************************)
EXTENDS PrivateSession, TLAPS

LEMMA CallFacts ==
  ASSUME SessionTypeOK, NEW c \in Calls
  PROVE  /\ call[c] \in CallState
         /\ call[c].at \in Stage
         /\ call[c].on \in Channels \cup {NoChannel}
         /\ call[c].seen \in Session
         /\ call[c].seen.totalPaid \in Nat
         /\ call[c].amount \in Nat
BY DEF SessionTypeOK, CallState, Session

LEMMA IdleCallType == IdleCall \in CallState
BY DEF IdleCall, CallState, Stage, NoSession, Session, State

(* The three ways in which a step moves a call keep its type.              *)
LEMMA BeginType ==
  ASSUME SessionTypeOK, NEW c \in Calls, NEW e \in Channels, NEW at \in Stage,
         NEW seen \in Session, NEW amount \in Nat, Begin(c, e, at, seen, amount)
  PROVE  call' \in [Calls -> CallState] /\ upset' \in [Channels -> SUBSET Cause]
<1>1. [at |-> at, on |-> e, seen |-> seen, amount |-> amount] \in CallState
  BY DEF CallState
<1>2. QED BY <1>1 DEF Begin, SessionTypeOK, Cause

LEMMA AdvanceType ==
  ASSUME SessionTypeOK, NEW c \in Calls, NEW from, NEW to \in Stage, Advance(c, from, to)
  PROVE  call' \in [Calls -> CallState]
BY CallFacts DEF Advance, SessionTypeOK, CallState

LEMMA ReturnType ==
  ASSUME SessionTypeOK, NEW c \in Calls, NEW from, Return(c, from)
  PROVE  call' \in [Calls -> CallState]
BY IdleCallType DEF Return, SessionTypeOK

LEMMA SessionTypes ==
  /\ NoSession \in Session
  /\ [state |-> "active", totalPaid |-> 0] \in Session
BY DEF NoSession, Session, State

LEMMA StartType ==
  ASSUME SessionTypeOK, NEW c \in Calls,
         (\E e \in Channels, b \in Budgets : StartCreates(c, e, b)) \/ StartStores(c) \/ StartFails(c)
  PROVE  SessionTypeOK'
<1>1. ASSUME NEW e \in Channels, NEW b \in Budgets, StartCreates(c, e, b)
      PROVE  SessionTypeOK'
  <2>1. PICK deposit \in DepositsFor(b) : Open(e, deposit)
    BY <1>1 DEF StartCreates
  <2>2. /\ phase'   \in [Channels -> {"absent", "open", "metering", "closed"}]
        /\ budget'  \in [Channels -> Nat]
        /\ metered' \in [Channels -> Nat]
        /\ held'    \in [Channels -> Nat]
    BY <2>1 DEF Open, SessionTypeOK
  <2>3. call' \in [Calls -> CallState] /\ upset' \in [Channels -> SUBSET Cause]
    BY <1>1, BeginType, SessionTypes DEF StartCreates, Stage
  <2>4. QED BY <1>1, <2>2, <2>3 DEF StartCreates, SessionTypeOK
<1>2. CASE StartStores(c)
  <2>1. call' \in [Calls -> CallState]
    BY <1>2, ReturnType DEF StartStores
  <2>2. QED BY <1>2, <2>1, SessionTypes DEF StartStores, SessionTypeOK, channelVars
<1>3. CASE StartFails(c)
  <2>1. call' \in [Calls -> CallState]
    BY <1>3, ReturnType DEF StartFails
  <2>2. QED BY <1>3, <2>1 DEF StartFails, SessionTypeOK, channelVars
<1>4. QED BY <1>1, <1>2, <1>3

LEMMA PayType ==
  ASSUME SessionTypeOK, NEW c \in Calls,
         \/ \E e \in Channels, amount \in Amounts : PayReads(c, e, amount)
         \/ PayLands(c) \/ PayStores(c) \/ PayFails(c) \/ PayUnanswered(c)
  PROVE  SessionTypeOK'
<1>1. ASSUME NEW e \in Channels, NEW amount \in Amounts, PayReads(c, e, amount)
      PROVE  SessionTypeOK'
  <2>1. amount \in Nat /\ store[e] \in Session
    BY SessionAssumption DEF SessionTypeOK
  <2>2. call' \in [Calls -> CallState] /\ upset' \in [Channels -> SUBSET Cause]
    BY <1>1, <2>1, BeginType DEF PayReads, Stage
  <2>3. QED BY <1>1, <2>2 DEF PayReads, SessionTypeOK, channelVars
<1>2. CASE PayLands(c)
  <2>1. call' \in [Calls -> CallState]
    BY <1>2, AdvanceType DEF PayLands, Stage
  <2>2. metered' \in [Channels -> Nat]
    <3> DEFINE e == call[c].on
    <3>1. metered' = [metered EXCEPT ![e] = metered[e] + call[c].amount]
      BY <1>2 DEF PayLands, Meter
    <3>2. call[c].amount \in Nat
      BY CallFacts
    <3> HIDE DEF e
    <3>3. CASE e \in Channels
      <4>1. metered[e] + call[c].amount \in Nat
        BY <3>2, <3>3 DEF SessionTypeOK
      <4>2. QED BY <3>1, <4>1 DEF SessionTypeOK
    <3>4. CASE e \notin Channels
      BY <3>1, <3>4 DEF SessionTypeOK
    <3>5. QED BY <3>3, <3>4
  <2>3. QED BY <1>2, <2>1, <2>2 DEF PayLands, Meter, SessionTypeOK
<1>3. CASE PayStores(c)
  <2>1. call' \in [Calls -> CallState]
    BY <1>3, ReturnType DEF PayStores
  <2>2. Updated(c) \in Session
    BY CallFacts DEF Updated, Session
  <2>3. QED BY <1>3, <2>1, <2>2 DEF PayStores, SessionTypeOK, channelVars
<1>4. CASE PayFails(c)
  <2>1. call' \in [Calls -> CallState]
    BY <1>4, ReturnType DEF PayFails
  <2>2. QED BY <1>4, <2>1 DEF PayFails, SessionTypeOK, channelVars
<1>5. CASE PayUnanswered(c)
  <2>1. call' \in [Calls -> CallState]
    BY <1>5, ReturnType DEF PayUnanswered
  <2>2. upset' \in [Channels -> SUBSET Cause]
    BY <1>5 DEF PayUnanswered, SessionTypeOK, Cause
  <2>3. QED BY <1>5, <2>1, <2>2 DEF PayUnanswered, SessionTypeOK, channelVars
<1>6. QED BY <1>1, <1>2, <1>3, <1>4, <1>5

LEMMA CloseType ==
  ASSUME SessionTypeOK, NEW c \in Calls,
         \/ \E e \in Channels : CloseReads(c, e)
         \/ CloseMarks(c) \/ CloseLands(c) \/ CloseDeletes(c) \/ CloseFails(c)
  PROVE  SessionTypeOK'
<1>1. ASSUME NEW e \in Channels, CloseReads(c, e) PROVE SessionTypeOK'
  <2>1. store[e] \in Session
    BY DEF SessionTypeOK
  <2>2. call' \in [Calls -> CallState] /\ upset' \in [Channels -> SUBSET Cause]
    BY <1>1, <2>1, BeginType DEF CloseReads, Stage
  <2>3. QED BY <1>1, <2>2 DEF CloseReads, SessionTypeOK, channelVars
<1>2. CASE CloseMarks(c)
  <2>1. call' \in [Calls -> CallState]
    BY <1>2, AdvanceType DEF CloseMarks, Stage
  <2>2. [call[c].seen EXCEPT !.state = "inactive"] \in Session
    BY CallFacts DEF Session, State
  <2>3. QED BY <1>2, <2>1, <2>2 DEF CloseMarks, SessionTypeOK, channelVars
<1>3. CASE CloseLands(c)
  <2>1. call' \in [Calls -> CallState]
    BY <1>3, AdvanceType DEF CloseLands, Stage
  <2>2. held' \in [Channels -> Nat]
    <3> DEFINE e == call[c].on
    <3>1. held' = [held EXCEPT ![e] = @ - budget[e]] /\ budget[e] <= held[e]
      BY <1>3 DEF CloseLands, Close
    <3> HIDE DEF e
    <3>2. e \in Channels => held[e] - budget[e] \in Nat
      BY <3>1 DEF SessionTypeOK
    <3>3. QED BY <3>1, <3>2 DEF SessionTypeOK
  <2>3. QED BY <1>3, <2>1, <2>2 DEF CloseLands, Close, SessionTypeOK
<1>4. CASE CloseDeletes(c)
  <2>1. call' \in [Calls -> CallState]
    BY <1>4, ReturnType DEF CloseDeletes
  <2>2. QED BY <1>4, <2>1, SessionTypes DEF CloseDeletes, SessionTypeOK, channelVars
<1>5. CASE CloseFails(c)
  <2>1. call' \in [Calls -> CallState]
    BY <1>5, ReturnType DEF CloseFails
  <2>2. QED BY <1>5, <2>1 DEF CloseFails, SessionTypeOK, channelVars
<1>6. QED BY <1>1, <1>2, <1>3, <1>4, <1>5

LEMMA ChainMovesType ==
  ASSUME SessionTypeOK, NEW e \in Channels, ChainMoves(e) PROVE SessionTypeOK'
<1>1. CASE Attest(e) /\ UNCHANGED <<store, call, upset>>
  BY <1>1 DEF Attest, SessionTypeOK
<1>2. CASE Close(e) /\ UNCHANGED <<store, call, upset>>
  BY <1>2 DEF Close, SessionTypeOK
<1>3. ASSUME NEW amount \in Amounts, Meter(e, metered[e] + amount),
             upset' = [upset EXCEPT ![e] = @ \cup {"elsewhere"}],
             UNCHANGED <<store, call>>
      PROVE  SessionTypeOK'
  <2>1. metered' \in [Channels -> Nat]
    BY <1>3, SessionAssumption DEF Meter, SessionTypeOK
  <2>2. upset' \in [Channels -> SUBSET Cause]
    BY <1>3 DEF SessionTypeOK, Cause
  <2>3. QED BY <1>3, <2>1, <2>2 DEF Meter, SessionTypeOK
<1>4. QED BY <1>1, <1>2, <1>3 DEF ChainMoves

LEMMA RestartType == ASSUME SessionTypeOK, Restart PROVE SessionTypeOK'
<1>1. call' \in [Calls -> CallState]
  BY IdleCallType DEF Restart
<1>2. store' \in [Channels -> Session]
  BY SessionTypes DEF Restart, SessionTypeOK
<1>3. upset' \in [Channels -> SUBSET Cause]
  BY DEF Restart, SessionTypeOK, Cause
<1>4. QED BY <1>1, <1>2, <1>3 DEF Restart, SessionTypeOK, channelVars

(* Sessions, calls and the chain keep their types: no total goes below     *)
(* zero, however calls of startPrivateSession, recordPayment and           *)
(* closeSession interleave.                                                *)
THEOREM SessionTypeCorrect == SessionSpec => []SessionTypeOK
<1>1. SessionInit => SessionTypeOK
  BY IdleCallType, SessionTypes DEF SessionInit, ChannelInit, SessionTypeOK
<1>2. SessionTypeOK /\ [SessionNext]_sessionVars => SessionTypeOK'
  <2> SUFFICES ASSUME SessionTypeOK, [SessionNext]_sessionVars PROVE SessionTypeOK'
    OBVIOUS
  <2>1. ASSUME NEW c \in Calls, CallStep(c) PROVE SessionTypeOK'
    BY <2>1, StartType, PayType, CloseType DEF CallStep
  <2>2. ASSUME NEW e \in Channels, ChainMoves(e) PROVE SessionTypeOK'
    BY <2>2, ChainMovesType
  <2>3. CASE Restart
    BY <2>3, RestartType
  <2>4. CASE UNCHANGED sessionVars
    BY <2>4 DEF sessionVars, SessionTypeOK
  <2>5. QED BY <2>1, <2>2, <2>3, <2>4 DEF SessionNext
<1>3. QED BY <1>1, <1>2, PTL DEF SessionSpec

-----------------------------------------------------------------------------
(***************************************************************************)
(* A session never runs ahead.  The session a call has read may be stale   *)
(* by the time it is written back, so what is inductive is about the calls *)
(* in flight: what each is going to write is metered already.  That the    *)
(* chain's total only grows makes a stale session a low one.               *)
(***************************************************************************)
OnItsChannel == \A c \in Calls : call[c].at # "idle" => call[c].on \in Channels

WillWrite(k) == k.seen.totalPaid + (IF k.at = "landed" THEN k.amount ELSE 0)

Covered(k) == k.at \in Stage \ {"idle", "created"} => WillWrite(k) <= metered[k.on]

InFlightCovered == \A c \in Calls : Covered(call[c])

SessionSafe == OnItsChannel /\ NeverOverstated /\ InFlightCovered

SessionInv == SessionTypeOK /\ SessionSafe

MeteredGrows == \A e \in Channels : metered[e] <= metered'[e]

LEMMA MeterGrows ==
  ASSUME SessionTypeOK, NEW e \in Channels, NEW total \in Nat, Meter(e, total)
  PROVE  MeteredGrows /\ metered'[e] = total
BY DEF Meter, SessionTypeOK, MeteredGrows

(* A step that touches one call, and at most the session of its escrow,    *)
(* has to account for these two only.                                      *)
LEMMA OneCallSafe ==
  ASSUME SessionInv, SessionTypeOK', NEW c \in Calls, MeteredGrows,
         \A b \in Calls : b # c => call'[b] = call[b],
         call'[c].at # "idle" => call'[c].on \in Channels,
         Covered(call[c])',
         \A e \in Channels : store'[e] # store[e] => store'[e].totalPaid <= metered'[e]
  PROVE  SessionSafe'
<1>1. ASSUME NEW b \in Calls
      PROVE  (call'[b].at # "idle" => call'[b].on \in Channels) /\ Covered(call[b])'
  <2>1. CASE b = c
    BY <2>1
  <2>2. CASE b # c
    <3>1. call'[b] = call[b] /\ Covered(call[b])
      BY <2>2 DEF SessionInv, SessionSafe, InFlightCovered
    <3>2. call[b].at # "idle" => call[b].on \in Channels
      BY DEF SessionInv, SessionSafe, OnItsChannel
    <3>3. WillWrite(call[b]) \in Nat
      BY CallFacts DEF SessionInv, WillWrite
    <3>4. call[b].on \in Channels =>
            /\ metered[call[b].on] \in Nat /\ metered'[call[b].on] \in Nat
            /\ metered[call[b].on] <= metered'[call[b].on]
      BY DEF SessionInv, SessionTypeOK, MeteredGrows
    <3>5. QED BY <3>1, <3>2, <3>3, <3>4 DEF Covered, WillWrite
  <2>3. QED BY <2>1, <2>2
<1>2. ASSUME NEW e \in Channels PROVE store'[e].totalPaid <= metered'[e]
  <2>1. /\ store[e].totalPaid <= metered[e] /\ metered[e] <= metered'[e]
        /\ store[e].totalPaid \in Nat /\ metered[e] \in Nat /\ metered'[e] \in Nat
    BY DEF SessionInv, SessionSafe, NeverOverstated, MeteredGrows, SessionTypeOK, Session
  <2>2. QED BY <2>1
<1>3. QED BY <1>1, <1>2 DEF SessionSafe, OnItsChannel, InFlightCovered, NeverOverstated

(* Steps that leave the chain alone.                                       *)
LEMMA ChainStays ==
  ASSUME SessionTypeOK, UNCHANGED channelVars PROVE MeteredGrows
BY DEF channelVars, MeteredGrows, SessionTypeOK

LEMMA ReturnSafe ==
  ASSUME SessionInv, SessionTypeOK', NEW c \in Calls, NEW from, Return(c, from),
         UNCHANGED channelVars,
         \A e \in Channels : store'[e] # store[e] => store'[e].totalPaid <= metered[e]
  PROVE  SessionSafe'
<1>1. /\ \A b \in Calls : b # c => call'[b] = call[b]
      /\ call'[c] = IdleCall
  BY DEF Return, SessionInv, SessionTypeOK
<1>2. call'[c].at = "idle"
  BY <1>1 DEF IdleCall
<1>3. Covered(call[c])'
  BY <1>2 DEF Covered
<1>4. MeteredGrows /\ metered' = metered
  BY ChainStays DEF SessionInv, channelVars
<1>5. QED BY <1>1, <1>2, <1>3, <1>4, OneCallSafe

LEMMA BeginSafe ==
  ASSUME SessionInv, SessionTypeOK', NEW c \in Calls, NEW e \in Channels,
         NEW at \in {"sent", "read"}, NEW amount, Begin(c, e, at, store[e], amount),
         UNCHANGED <<channelVars, store>>
  PROVE  SessionSafe'
<1>1. /\ \A b \in Calls : b # c => call'[b] = call[b]
      /\ call'[c] = [at |-> at, on |-> e, seen |-> store[e], amount |-> amount]
  BY DEF Begin, SessionInv, SessionTypeOK
<1>2. MeteredGrows /\ metered' = metered /\ store' = store
  BY ChainStays DEF SessionInv, channelVars
<1>3. store[e].totalPaid <= metered[e] /\ store[e].totalPaid \in Nat
  BY DEF SessionInv, SessionSafe, NeverOverstated, SessionTypeOK, Session
<1>4. Covered(call[c])'
  BY <1>1, <1>2, <1>3 DEF Covered, WillWrite
<1>5. QED BY <1>1, <1>2, <1>4, OneCallSafe

LEMMA StartSafe ==
  ASSUME SessionInv, SessionTypeOK', NEW c \in Calls,
         (\E e \in Channels, b \in Budgets : StartCreates(c, e, b)) \/ StartStores(c) \/ StartFails(c)
  PROVE  SessionSafe'
<1>1. ASSUME NEW e \in Channels, NEW b \in Budgets, StartCreates(c, e, b)
      PROVE  SessionSafe'
  <2>1. /\ \A k \in Calls : k # c => call'[k] = call[k]
        /\ call'[c] = [at |-> "created", on |-> e, seen |-> NoSession, amount |-> 0]
        /\ store' = store
    BY <1>1 DEF StartCreates, Begin, SessionInv, SessionTypeOK
  <2>2. MeteredGrows
    BY <1>1 DEF StartCreates, Open, MeteredGrows, SessionInv, SessionTypeOK
  <2>3. Covered(call[c])'
    BY <2>1 DEF Covered
  <2>4. QED BY <2>1, <2>2, <2>3, OneCallSafe
<1>2. CASE StartStores(c)
  <2>1. Return(c, "created") /\ UNCHANGED channelVars
    BY <1>2 DEF StartStores
  <2>2. ASSUME NEW e \in Channels, store'[e] # store[e]
        PROVE  store'[e].totalPaid <= metered[e]
    BY <1>2, <2>2 DEF StartStores, SessionInv, SessionTypeOK
  <2>3. QED BY <2>1, <2>2, ReturnSafe
<1>3. CASE StartFails(c)
  BY <1>3, ReturnSafe DEF StartFails
<1>4. QED BY <1>1, <1>2, <1>3

(* The session a call at one of these stages writes back is covered.       *)
LEMMA WriteCovered ==
  ASSUME SessionInv, NEW c \in Calls, call[c].at \in Stage \ {"idle", "created"}
  PROVE  /\ call[c].on \in Channels
         /\ WillWrite(call[c]) <= metered[call[c].on]
BY DEF SessionInv, SessionSafe, OnItsChannel, InFlightCovered, Covered

LEMMA PaySafe ==
  ASSUME SessionInv, SessionTypeOK', NEW c \in Calls,
         \/ \E e \in Channels, amount \in Amounts : PayReads(c, e, amount)
         \/ PayLands(c) \/ PayStores(c) \/ PayFails(c) \/ PayUnanswered(c)
  PROVE  SessionSafe'
<1>1. ASSUME NEW e \in Channels, NEW amount \in Amounts, PayReads(c, e, amount)
      PROVE  SessionSafe'
  BY <1>1, BeginSafe DEF PayReads
<1>2. CASE PayLands(c)
  <2> DEFINE e == call[c].on
  <2>1. e \in Channels /\ call[c].seen.totalPaid <= metered[e]
    BY <1>2, WriteCovered, CallFacts DEF PayLands, Advance, Stage, WillWrite, SessionInv
  <2>2. MeteredGrows /\ metered'[e] = metered[e] + call[c].amount
    <3>1. metered[e] + call[c].amount \in Nat
      BY <2>1, CallFacts DEF SessionInv, SessionTypeOK
    <3>2. QED BY <1>2, <2>1, <3>1, MeterGrows DEF PayLands, SessionInv
  <2>3. /\ \A b \in Calls : b # c => call'[b] = call[b]
        /\ call'[c] = [call[c] EXCEPT !.at = "landed"]
        /\ store' = store
    BY <1>2 DEF PayLands, Advance, SessionInv, SessionTypeOK
  <2>4. /\ call'[c].at = "landed" /\ call'[c].on = e
        /\ call'[c].seen = call[c].seen /\ call'[c].amount = call[c].amount
    BY <2>3, CallFacts DEF SessionInv, CallState
  <2>5. Covered(call[c])'
    <3>1. call[c].seen.totalPaid \in Nat /\ call[c].amount \in Nat /\ metered[e] \in Nat
      BY <2>1, CallFacts DEF SessionInv, SessionTypeOK
    <3> HIDE DEF e
    <3>2. QED BY <2>1, <2>2, <2>4, <3>1 DEF Covered, WillWrite
  <2>6. QED BY <2>1, <2>2, <2>3, <2>4, <2>5, OneCallSafe
<1>3. CASE PayStores(c)
  <2>1. Return(c, "landed") /\ UNCHANGED channelVars
    BY <1>3 DEF PayStores
  <2>2. Updated(c).totalPaid = WillWrite(call[c])
    BY <2>1, CallFacts DEF Return, Updated, WillWrite, SessionInv, Session
  <2>3. call[c].on \in Channels /\ Updated(c).totalPaid <= metered[call[c].on]
    BY <2>1, <2>2, WriteCovered DEF Return, Stage
  <2>4. ASSUME NEW e \in Channels, store'[e] # store[e]
        PROVE  store'[e].totalPaid <= metered[e]
    BY <1>3, <2>3, <2>4 DEF PayStores, SessionInv, SessionTypeOK
  <2>5. QED BY <2>1, <2>4, ReturnSafe
<1>4. CASE PayFails(c)
  BY <1>4, ReturnSafe DEF PayFails
<1>5. CASE PayUnanswered(c)
  BY <1>5, ReturnSafe DEF PayUnanswered
<1>6. QED BY <1>1, <1>2, <1>3, <1>4, <1>5

LEMMA CloseSafe ==
  ASSUME SessionInv, SessionTypeOK', NEW c \in Calls,
         \/ \E e \in Channels : CloseReads(c, e)
         \/ CloseMarks(c) \/ CloseLands(c) \/ CloseDeletes(c) \/ CloseFails(c)
  PROVE  SessionSafe'
<1>1. ASSUME NEW e \in Channels, CloseReads(c, e) PROVE SessionSafe'
  BY <1>1, BeginSafe DEF CloseReads
<1>2. ASSUME NEW from \in {"read", "marked"}, NEW to \in {"marked", "settled"},
             Advance(c, from, to), MeteredGrows,
             \A e \in Channels : store'[e] # store[e] =>
               e = call[c].on /\ store'[e].totalPaid = call[c].seen.totalPaid
      PROVE  SessionSafe'
  <2>1. /\ call[c].on \in Channels
        /\ call[c].seen.totalPaid <= metered[call[c].on]
        /\ call[c].seen.totalPaid \in Nat
        /\ metered[call[c].on] \in Nat
        /\ metered'[call[c].on] \in Nat
    BY <1>2, WriteCovered, CallFacts
    DEF Advance, Stage, WillWrite, SessionInv, SessionTypeOK
  <2>2. call[c].seen.totalPaid <= metered'[call[c].on]
    BY <1>2, <2>1 DEF MeteredGrows
  <2>3. /\ \A b \in Calls : b # c => call'[b] = call[b]
        /\ call'[c].at = to /\ call'[c].on = call[c].on /\ call'[c].seen = call[c].seen
    BY <1>2, CallFacts DEF Advance, SessionInv, SessionTypeOK, CallState
  <2>4. Covered(call[c])'
    BY <2>1, <2>2, <2>3 DEF Covered, WillWrite
  <2>5. QED BY <1>2, <2>1, <2>2, <2>3, <2>4, OneCallSafe
<1>3. CASE CloseMarks(c)
  <2>1. [call[c].seen EXCEPT !.state = "inactive"].totalPaid = call[c].seen.totalPaid
    BY CallFacts DEF SessionInv, Session
  <2>2. \A e \in Channels : store'[e] # store[e] =>
          e = call[c].on /\ store'[e].totalPaid = call[c].seen.totalPaid
    BY <1>3, <2>1 DEF CloseMarks, SessionInv, SessionTypeOK
  <2>3. Advance(c, "read", "marked") /\ MeteredGrows
    BY <1>3, ChainStays DEF CloseMarks, SessionInv
  <2>4. QED BY <1>2, <2>2, <2>3
<1>4. CASE CloseLands(c)
  <2>1. Advance(c, "marked", "settled") /\ MeteredGrows /\ store' = store
    BY <1>4 DEF CloseLands, Close, MeteredGrows, SessionInv, SessionTypeOK
  <2>2. QED BY <1>2, <2>1
<1>5. CASE CloseDeletes(c)
  <2>1. Return(c, "settled") /\ UNCHANGED channelVars
    BY <1>5 DEF CloseDeletes
  <2>2. ASSUME NEW e \in Channels, store'[e] # store[e]
        PROVE  store'[e].totalPaid <= metered[e]
    BY <1>5, <2>2 DEF CloseDeletes, NoSession, SessionInv, SessionTypeOK
  <2>3. QED BY <2>1, <2>2, ReturnSafe
<1>6. CASE CloseFails(c)
  BY <1>6, ReturnSafe DEF CloseFails
<1>7. QED BY <1>1, <1>3, <1>4, <1>5, <1>6

LEMMA ChainMovesSafe ==
  ASSUME SessionInv, SessionTypeOK', NEW e \in Channels, ChainMoves(e) PROVE SessionSafe'
<1>1. MeteredGrows
  <2>1. CASE Attest(e) \/ Close(e)
    BY <2>1 DEF Attest, Close, MeteredGrows, SessionInv, SessionTypeOK
  <2>2. ASSUME NEW amount \in Amounts, Meter(e, metered[e] + amount) PROVE MeteredGrows
    <3>1. metered[e] + amount \in Nat
      BY SessionAssumption DEF SessionInv, SessionTypeOK
    <3>2. QED BY <2>2, <3>1, MeterGrows DEF SessionInv
  <2>3. QED BY <2>1, <2>2 DEF ChainMoves
<1>2. call' = call /\ store' = store
  BY DEF ChainMoves
<1>3. SUFFICES ASSUME Calls # {} PROVE SessionSafe'
  BY <1>1, <1>2
  DEF SessionInv, SessionSafe, SessionTypeOK, Session, OnItsChannel, InFlightCovered,
      NeverOverstated, MeteredGrows
<1>4. ASSUME NEW c \in Calls PROVE Covered(call[c])'
  <2>1. Covered(call[c]) /\ (call[c].at # "idle" => call[c].on \in Channels)
    BY DEF SessionInv, SessionSafe, InFlightCovered, OnItsChannel
  <2>2. WillWrite(call[c]) \in Nat
    BY CallFacts DEF SessionInv, WillWrite
  <2>3. call[c].on \in Channels =>
          /\ metered[call[c].on] \in Nat /\ metered'[call[c].on] \in Nat
          /\ metered[call[c].on] <= metered'[call[c].on]
    BY <1>1 DEF SessionInv, SessionTypeOK, MeteredGrows
  <2>4. QED BY <1>2, <2>1, <2>2, <2>3 DEF Covered, WillWrite
<1>5. PICK c \in Calls : TRUE
  BY <1>3
<1>6. call[c].at # "idle" => call[c].on \in Channels
  BY DEF SessionInv, SessionSafe, OnItsChannel
<1>7. QED BY <1>1, <1>2, <1>4, <1>6, OneCallSafe

LEMMA RestartSafe ==
  ASSUME SessionInv, SessionTypeOK', Restart PROVE SessionSafe'
<1>1. \A c \in Calls : call'[c].at = "idle"
  BY DEF Restart, IdleCall
<1>2. metered' = metered /\ \A e \in Channels : store'[e] \in {store[e], NoSession}
  BY DEF Restart, channelVars, SessionInv, SessionTypeOK
<1>3. NeverOverstated'
  BY <1>2 DEF SessionInv, SessionSafe, NeverOverstated, SessionTypeOK, NoSession
<1>4. QED BY <1>1, <1>3 DEF SessionSafe, OnItsChannel, InFlightCovered, Covered

THEOREM SessionInvariance == SessionSpec => []SessionInv
<1>1. SessionInit => SessionSafe
  BY DEF SessionInit, ChannelInit, SessionSafe, OnItsChannel, InFlightCovered, Covered,
         NeverOverstated, IdleCall, NoSession
<1>2. SessionInv /\ SessionTypeOK' /\ [SessionNext]_sessionVars => SessionSafe'
  <2> SUFFICES ASSUME SessionInv, SessionTypeOK', [SessionNext]_sessionVars
               PROVE  SessionSafe'
    OBVIOUS
  <2>1. ASSUME NEW c \in Calls, CallStep(c) PROVE SessionSafe'
    BY <2>1, StartSafe, PaySafe, CloseSafe DEF CallStep
  <2>2. ASSUME NEW e \in Channels, ChainMoves(e) PROVE SessionSafe'
    BY <2>2, ChainMovesSafe
  <2>3. CASE Restart
    BY <2>3, RestartSafe
  <2>4. CASE UNCHANGED sessionVars
    BY <2>4 DEF sessionVars, SessionInv, SessionSafe, OnItsChannel, InFlightCovered,
                Covered, WillWrite, NeverOverstated
  <2>5. QED BY <2>1, <2>2, <2>3, <2>4 DEF SessionNext
<1>3. QED BY <1>1, <1>2, SessionTypeCorrect, PTL DEF SessionSpec, SessionInv

(* However many calls of recordPayment and closeSession overlap, fail, are *)
(* left unanswered or cut off by a restart, no stored session claims more  *)
(* than the chain has metered.                                             *)
THEOREM SessionsNeverOverstate == SessionSpec => []NeverOverstated
<1>1. SessionInv => NeverOverstated
  BY DEF SessionInv, SessionSafe
<1>2. QED BY <1>1, SessionInvariance, PTL

-----------------------------------------------------------------------------
(* What seals an escrow holds after every step that leaves its seal alone: *)
(* the escrow exists, its session is not made active, and the one call     *)
(* that moves does not come to start or pay on it.                         *)
Closing == {"read", "marked", "settled"}

LEMMA SealKept ==
  ASSUME SessionTypeOK, NEW e \in Channels, Sealed(e), NEW c \in Calls,
         \A b \in Calls : b # c => call'[b] = call[b],
         call'[c].on = e => call'[c].at \in Closing,
         phase'[e] # "absent", store'[e].state # "active"
  PROVE  Sealed(e)'
BY DEF Sealed, Closing

LEMMA SealedCallStep ==
  ASSUME SessionTypeOK, NEW e \in Channels, Sealed(e), NEW c \in Calls, CallStep(c)
  PROVE  Sealed(e)'
<1>1. phase[e] # "absent" /\ store[e].state # "active"
  BY DEF Sealed
<1>2. call[c].on = e => call[c].at \in Closing
  BY DEF Sealed, Closing
<1>3. IdleCall.on # e
  BY SessionAssumption DEF IdleCall
<1>4. ASSUME NEW f \in Channels, NEW b \in Budgets, StartCreates(c, f, b)
      PROVE  Sealed(e)'
  <2>1. f # e /\ phase'[e] = phase[e] /\ store' = store
    BY <1>4, <1>1 DEF StartCreates, Open, SessionTypeOK
  <2>2. /\ \A k \in Calls : k # c => call'[k] = call[k]
        /\ call'[c].on = f
    BY <1>4 DEF StartCreates, Begin, SessionTypeOK
  <2>3. QED BY <1>1, <2>1, <2>2, SealKept
<1>5. ASSUME NEW f \in Channels, NEW amount \in Amounts, PayReads(c, f, amount)
      PROVE  Sealed(e)'
  <2>1. f # e /\ phase' = phase /\ store' = store
    BY <1>5, <1>1 DEF PayReads, Payable, channelVars
  <2>2. /\ \A k \in Calls : k # c => call'[k] = call[k]
        /\ call'[c].on = f
    BY <1>5 DEF PayReads, Begin, SessionTypeOK
  <2>3. QED BY <1>1, <2>1, <2>2, SealKept
<1>6. ASSUME NEW f \in Channels, CloseReads(c, f) PROVE Sealed(e)'
  <2>1. phase' = phase /\ store' = store
    BY <1>6 DEF CloseReads, channelVars
  <2>2. /\ \A k \in Calls : k # c => call'[k] = call[k]
        /\ call'[c].at = "read"
    BY <1>6 DEF CloseReads, Begin, SessionTypeOK
  <2>3. QED BY <1>1, <2>1, <2>2, SealKept DEF Closing
<1>7. ASSUME NEW from, Return(c, from), phase'[e] # "absent", store'[e].state # "active"
      PROVE  Sealed(e)'
  <2>1. /\ \A k \in Calls : k # c => call'[k] = call[k]
        /\ call'[c] = IdleCall
    BY <1>7 DEF Return, SessionTypeOK
  <2>2. QED BY <1>3, <1>7, <2>1, SealKept
<1>8. CASE StartStores(c) \/ PayStores(c)
  <2>1. call[c].on # e
    BY <1>2, <1>8 DEF StartStores, PayStores, Return, Closing
  <2>2. store'[e] = store[e] /\ phase' = phase
    BY <1>8, <2>1 DEF StartStores, PayStores, SessionTypeOK, channelVars
  <2>3. QED BY <1>1, <1>7, <1>8, <2>2 DEF StartStores, PayStores
<1>9. CASE StartFails(c) \/ PayFails(c) \/ PayUnanswered(c) \/ CloseFails(c)
  <2>1. store' = store /\ phase' = phase
    BY <1>9 DEF StartFails, PayFails, PayUnanswered, CloseFails, channelVars
  <2>2. QED BY <1>1, <1>7, <1>9, <2>1 DEF StartFails, PayFails, PayUnanswered, CloseFails
<1>10. CASE PayLands(c)
  <2>1. call[c].on # e
    BY <1>2, <1>10 DEF PayLands, Advance, Closing
  <2>2. /\ \A k \in Calls : k # c => call'[k] = call[k]
        /\ call'[c].on = call[c].on
    BY <1>10, CallFacts DEF PayLands, Advance, SessionTypeOK, CallState
  <2>3. store' = store /\ phase' = phase
    BY <1>10 DEF PayLands, Meter
  <2>4. QED BY <1>1, <2>1, <2>2, <2>3, SealKept
<1>11. CASE CloseMarks(c)
  <2>1. /\ \A k \in Calls : k # c => call'[k] = call[k]
        /\ call'[c].at = "marked"
    BY <1>11, CallFacts DEF CloseMarks, Advance, SessionTypeOK, CallState
  <2>2. [call[c].seen EXCEPT !.state = "inactive"].state # "active"
    BY CallFacts DEF Session
  <2>3. phase' = phase /\ store'[e].state # "active"
    BY <1>1, <1>11, <2>2 DEF CloseMarks, SessionTypeOK, channelVars
  <2>4. QED BY <1>1, <2>1, <2>3, SealKept DEF Closing
<1>12. CASE CloseLands(c)
  <2>1. /\ \A k \in Calls : k # c => call'[k] = call[k]
        /\ call'[c].at = "settled"
    BY <1>12, CallFacts DEF CloseLands, Advance, SessionTypeOK, CallState
  <2>2. phase'[e] # "absent" /\ store' = store
    BY <1>1, <1>12 DEF CloseLands, Close, SessionTypeOK
  <2>3. QED BY <1>1, <2>1, <2>2, SealKept DEF Closing
<1>13. CASE CloseDeletes(c)
  <2>1. phase' = phase /\ store'[e].state # "active"
    BY <1>1, <1>13 DEF CloseDeletes, NoSession, SessionTypeOK, channelVars
  <2>2. QED BY <1>1, <1>7, <1>13, <2>1 DEF CloseDeletes
<1>14. QED
  BY <1>4, <1>5, <1>6, <1>8, <1>9, <1>10, <1>11, <1>12, <1>13 DEF CallStep

(* Once an escrow has no active session and no call is starting or paying  *)
(* on it, no call of recordPayment ever is again, whatever closeSession    *)
(* calls fail half-way, repeat or are cut off by a restart.                *)
THEOREM SealsHold == SessionSpec => SealedForGood
<1> DEFINE Held == \A e \in Channels : Sealed(e) => Sealed(e)'
<1>1. SessionTypeOK /\ [SessionNext]_sessionVars => Held \/ UNCHANGED sessionVars
  <2> SUFFICES ASSUME SessionTypeOK, SessionNext, NEW e \in Channels, Sealed(e)
               PROVE  Sealed(e)'
    OBVIOUS
  <2>1. ASSUME NEW c \in Calls, CallStep(c) PROVE Sealed(e)'
    BY <2>1, SealedCallStep
  <2>2. ASSUME NEW f \in Channels, ChainMoves(f) PROVE Sealed(e)'
    BY <2>2 DEF ChainMoves, Attest, Close, Meter, Sealed, SessionTypeOK
  <2>3. ASSUME Restart PROVE Sealed(e)'
    <3>1. IdleCall.on # e /\ NoSession.state # "active"
      BY SessionAssumption DEF IdleCall, NoSession
    <3>2. \A c \in Calls : call'[c].on # e
      BY <2>3, <3>1 DEF Restart
    <3>3. phase' = phase /\ store'[e] \in {store[e], NoSession}
      BY <2>3 DEF Restart, channelVars
    <3>4. QED BY <3>1, <3>2, <3>3 DEF Sealed
  <2>4. QED BY <2>1, <2>2, <2>3 DEF SessionNext
<1>2. QED BY <1>1, SessionTypeCorrect, PTL DEF SessionSpec, SealedForGood

-----------------------------------------------------------------------------
(***************************************************************************)
(* When a session is exact.  Undisturbed means that the one call at work   *)
(* on an escrow has in hand what the store says, so that between two       *)
(* awaits its session and the chain differ by at most its own payment.     *)
(***************************************************************************)
Agrees(e) == store[e].state # "none" => store[e].totalPaid = metered[e]

Consistent(k, e) ==
  /\ k.at = "created" => metered[e] = 0 /\ store[e] = NoSession
  /\ k.at # "created" => WillWrite(k) = metered[e]
  /\ k.at \in {"sent", "landed", "read"} => store[e] = k.seen
  /\ k.at \in {"marked", "settled"} => store[e].totalPaid = k.seen.totalPaid

Fresh(e) ==
  phase[e] = "absent" =>
    metered[e] = 0 /\ store[e] = NoSession /\ \A c \in Calls : call[c].on # e

Alone(e) == \A b, c \in Calls : call[b].on = e /\ call[c].on = e => b = c

Exact(e) ==
  /\ Fresh(e)
  /\ upset[e] = {} =>
       /\ Alone(e)
       /\ ~ Busy(e) => Agrees(e)
       /\ \A c \in Calls : call[c].on = e => Consistent(call[c], e)

AllExact == \A e \in Channels : Exact(e)

(* An escrow the step has nothing to do with.                              *)
LEMMA ExactFrame ==
  ASSUME NEW e \in Channels, Exact(e), upset'[e] = {} => upset[e] = {},
         phase'[e] = "absent" <=> phase[e] = "absent",
         metered'[e] = metered[e], store'[e] = store[e],
         \A c \in Calls : call'[c] = call[c] \/ (call[c].on # e /\ call'[c].on # e)
  PROVE  Exact(e)'
<1>1. \A c \in Calls : call'[c].on = e <=> call[c].on = e
  OBVIOUS
<1>2. \A c \in Calls : call'[c].on = e => call'[c] = call[c]
  OBVIOUS
<1>3. Fresh(e)'
  BY <1>1 DEF Exact, Fresh
<1>4. Alone(e) => Alone(e)'
  BY <1>1 DEF Alone
<1>5. Busy(e)' <=> Busy(e)
  BY <1>1 DEF Busy
<1>6. Agrees(e) => Agrees(e)'
  BY DEF Agrees
<1>7. ASSUME NEW c \in Calls, call'[c].on = e, Consistent(call[c], e)
      PROVE  Consistent(call[c], e)'
  BY <1>2, <1>7 DEF Consistent, WillWrite
<1>8. QED BY <1>1, <1>3, <1>4, <1>5, <1>6, <1>7 DEF Exact

(* A call that returns leaves its escrow to nobody, if it was undisturbed. *)
LEMMA ReturnExact ==
  ASSUME SessionTypeOK, AllExact, NEW c \in Calls, NEW from, from # "idle",
         Return(c, from), UNCHANGED channelVars, NEW o \in Channels, call[c].on = o,
         \A e \in Channels : e # o => store'[e] = store[e],
         \A e \in Channels : upset'[e] = {} => upset[e] = {},
         upset'[o] = {} => Agrees(o)'
  PROVE  AllExact'
<1> SUFFICES ASSUME NEW e \in Channels PROVE Exact(e)'
  BY DEF AllExact
<1>1. /\ \A b \in Calls : b # c => call'[b] = call[b]
      /\ call'[c].on # e
  BY SessionAssumption DEF Return, IdleCall, SessionTypeOK
<1>2. Exact(e) /\ (upset'[e] = {} => upset[e] = {}) /\ metered' = metered /\ phase' = phase
  BY DEF AllExact, channelVars
<1>3. CASE e # o
  <2>1. \A b \in Calls : call'[b] = call[b] \/ (call[b].on # e /\ call'[b].on # e)
    BY <1>1, <1>3
  <2>2. QED BY <1>2, <1>3, <2>1, ExactFrame
<1>4. CASE e = o
  <2>1. Fresh(e)'
    BY <1>2, <1>4 DEF Exact, Fresh
  <2>2. ASSUME upset'[e] = {} PROVE \A b \in Calls : call'[b].on # e
    <3>1. \A k \in Calls : call[k].on = e => k = c
      BY <1>2, <1>4, <2>2 DEF Exact, Alone
    <3>2. QED BY <1>1, <3>1
  <2>3. upset'[e] = {} => Agrees(e)'
    BY <1>4
  <2>4. QED BY <2>1, <2>2, <2>3 DEF Exact, Alone, Busy
<1>5. QED BY <1>3, <1>4

(* A call that goes on has to stay consistent with the store and chain.    *)
LEMMA AdvanceExact ==
  ASSUME SessionTypeOK, AllExact, NEW c \in Calls, NEW from, NEW to,
         Advance(c, from, to), NEW o \in Channels, call[c].on = o, UNCHANGED upset,
         \A e \in Channels : (phase'[e] = "absent") <=> (phase[e] = "absent"),
         \A e \in Channels : e # o => store'[e] = store[e] /\ metered'[e] = metered[e],
         upset[o] = {} => Consistent(call[c], o)'
  PROVE  AllExact'
<1> SUFFICES ASSUME NEW e \in Channels PROVE Exact(e)'
  BY DEF AllExact
<1>1. /\ \A b \in Calls : b # c => call'[b] = call[b]
      /\ call'[c].on = call[c].on
  BY CallFacts DEF Advance, SessionTypeOK, CallState
<1>2. Exact(e)
  BY DEF AllExact
<1>3. CASE e # o
  <2>1. \A b \in Calls : call'[b] = call[b] \/ (call[b].on # e /\ call'[b].on # e)
    BY <1>1, <1>3
  <2>2. QED BY <1>2, <1>3, <2>1, ExactFrame
<1>4. CASE e = o
  <2>1. Fresh(e)'
    BY <1>2, <1>4 DEF Exact, Fresh
  <2>2. \A b \in Calls : call'[b].on = e <=> call[b].on = e
    BY <1>1
  <2>3. ASSUME upset'[e] = {}
        PROVE  Alone(e)' /\ \A b \in Calls : call'[b].on = e => b = c
    <3>1. \A k \in Calls : call[k].on = e => k = c
      BY <1>2, <1>4, <2>3 DEF Exact, Alone
    <3>2. QED BY <2>2, <3>1 DEF Alone
  <2>4. upset'[e] = {} => Consistent(call[c], e)'
    BY <1>4
  <2>5. Busy(e)'
    BY <1>4, <2>2 DEF Busy
  <2>6. QED BY <2>1, <2>3, <2>4, <2>5 DEF Exact
<1>5. QED BY <1>3, <1>4

(* A call that begins where another is at work disturbs it; where none is, *)
(* it finds a session that agrees with the chain.                          *)
LEMMA BeginExact ==
  ASSUME SessionTypeOK, AllExact, NEW c \in Calls, NEW e \in Channels,
         NEW at, NEW seen, NEW amount, Begin(c, e, at, seen, amount),
         UNCHANGED store, metered' = metered, phase'[e] # "absent",
         \A f \in Channels : f # e => phase'[f] = phase[f],
         ~ Busy(e) /\ upset[e] = {} => Consistent(call[c], e)'
  PROVE  AllExact'
<1> SUFFICES ASSUME NEW f \in Channels PROVE Exact(f)'
  BY DEF AllExact
<1>1. /\ \A b \in Calls : b # c => call'[b] = call[b]
      /\ call'[c].on = e
      /\ call[c].on # f
  BY SessionAssumption DEF Begin, IdleCall, SessionTypeOK
<1>2. Exact(f)
  BY DEF AllExact
<1>3. upset'[f] = {} => upset[f] = {} /\ (f = e => ~ Busy(e))
  BY DEF Begin, SessionTypeOK
<1>4. CASE f # e
  <2>1. \A b \in Calls : call'[b] = call[b] \/ (call[b].on # f /\ call'[b].on # f)
    BY <1>1, <1>4
  <2>2. upset'[f] = {} => upset[f] = {}
    BY <1>3
  <2>3. QED BY <1>2, <1>4, <2>1, <2>2, ExactFrame
<1>5. CASE f = e
  <2>1. Fresh(f)'
    BY <1>5 DEF Fresh
  <2>2. ASSUME upset'[f] = {} PROVE \A b \in Calls : call'[b].on = f <=> b = c
    BY <1>1, <1>3, <1>5, <2>2 DEF Busy
  <2>3. upset'[f] = {} => Consistent(call[c], f)'
    BY <1>3, <1>5
  <2>4. upset'[f] = {} => Alone(f)' /\ Busy(f)'
    BY <2>2 DEF Alone, Busy
  <2>5. QED BY <2>1, <2>2, <2>3, <2>4 DEF Exact
<1>6. QED BY <1>4, <1>5

LEMMA CallConsistent ==
  ASSUME AllExact, NEW c \in Calls, NEW o \in Channels, call[c].on = o
  PROVE  (upset[o] = {} => Consistent(call[c], o)) /\ phase[o] # "absent"
BY DEF AllExact, Exact, Fresh

LEMMA StartExact ==
  ASSUME SessionInv, AllExact, NEW c \in Calls,
         (\E e \in Channels, b \in Budgets : StartCreates(c, e, b)) \/ StartStores(c) \/ StartFails(c)
  PROVE  AllExact'
<1>1. ASSUME NEW e \in Channels, NEW b \in Budgets, StartCreates(c, e, b)
      PROVE  AllExact'
  <2>1. PICK deposit \in DepositsFor(b) : Open(e, deposit)
    BY <1>1 DEF StartCreates
  <2>2. /\ phase[e] = "absent" /\ phase'[e] # "absent" /\ metered' = metered
        /\ \A f \in Channels : f # e => phase'[f] = phase[f]
    BY <2>1 DEF Open, SessionInv, SessionTypeOK
  <2>3. metered[e] = 0 /\ store[e] = NoSession
    BY <2>2 DEF AllExact, Exact, Fresh
  <2>4. Begin(c, e, "created", NoSession, 0) /\ store' = store
    BY <1>1 DEF StartCreates
  <2>5. Consistent(call[c], e)'
    <3>1. call'[c].at = "created"
      BY <2>4 DEF Begin, SessionInv, SessionTypeOK
    <3>2. QED BY <2>2, <2>3, <2>4, <3>1 DEF Consistent
  <2>6. QED BY <2>2, <2>4, <2>5, BeginExact DEF SessionInv
<1>2. CASE StartStores(c)
  <2>1. Return(c, "created") /\ UNCHANGED <<channelVars, upset>> /\ call[c].on \in Channels
    BY <1>2 DEF StartStores, Return, SessionInv, SessionSafe, OnItsChannel
  <2> PICK o \in Channels : call[c].on = o
    BY <2>1
  <2>2. \A e \in Channels : e # o => store'[e] = store[e]
    BY <1>2 DEF StartStores, SessionInv, SessionTypeOK
  <2>3. ASSUME upset'[o] = {} PROVE Agrees(o)'
    <3>1. metered[o] = 0
      BY <2>1, <2>3, CallConsistent DEF Return, Consistent
    <3>2. store'[o].totalPaid = 0
      BY <1>2, <2>1 DEF StartStores, SessionInv, SessionTypeOK
    <3>3. QED BY <2>1, <3>1, <3>2 DEF Agrees, channelVars
  <2>4. QED BY <2>1, <2>2, <2>3, ReturnExact DEF SessionInv
<1>3. CASE StartFails(c)
  <2>1. /\ Return(c, "created") /\ UNCHANGED <<channelVars, store, upset>>
        /\ call[c].on \in Channels
    BY <1>3 DEF StartFails, Return, SessionInv, SessionSafe, OnItsChannel
  <2> PICK o \in Channels : call[c].on = o
    BY <2>1
  <2>2. ASSUME upset'[o] = {} PROVE Agrees(o)'
    BY <2>1, <2>2, CallConsistent DEF Return, Consistent, Agrees, NoSession
  <2>3. QED BY <2>1, <2>2, ReturnExact DEF SessionInv
<1>4. QED BY <1>1, <1>2, <1>3

(* A call that has read a session which is there.                          *)
LEMMA ReadExact ==
  ASSUME SessionInv, AllExact, NEW c \in Calls, NEW e \in Channels,
         NEW at \in {"sent", "read"}, NEW amount, store[e].state # "none",
         Begin(c, e, at, store[e], amount), UNCHANGED <<channelVars, store>>
  PROVE  AllExact'
<1>1. phase'[e] # "absent"
  BY DEF AllExact, Exact, Fresh, NoSession, channelVars
<1>2. ASSUME ~ Busy(e), upset[e] = {} PROVE Consistent(call[c], e)'
  <2>1. store[e].totalPaid = metered[e]
    BY <1>2 DEF AllExact, Exact, Agrees
  <2>2. call'[c].at = at /\ call'[c].seen = store[e]
    BY DEF Begin, SessionInv, SessionTypeOK
  <2>3. store[e].totalPaid \in Nat
    BY DEF SessionInv, SessionTypeOK, Session
  <2>4. QED BY <2>1, <2>2, <2>3 DEF Consistent, WillWrite, channelVars
<1>3. QED BY <1>1, <1>2, BeginExact DEF SessionInv, channelVars

LEMMA PayExact ==
  ASSUME SessionInv, AllExact, NEW c \in Calls,
         \/ \E e \in Channels, amount \in Amounts : PayReads(c, e, amount)
         \/ PayLands(c) \/ PayStores(c) \/ PayFails(c) \/ PayUnanswered(c)
  PROVE  AllExact'
<1>1. ASSUME NEW e \in Channels, NEW amount \in Amounts, PayReads(c, e, amount)
      PROVE  AllExact'
  BY <1>1, ReadExact DEF PayReads, Payable
<1>2. CASE PayLands(c)
  <2>1. /\ Advance(c, "sent", "landed") /\ UNCHANGED <<phase, store, upset>>
        /\ call[c].on \in Channels
    BY <1>2 DEF PayLands, Meter, Advance, SessionInv, SessionSafe, OnItsChannel
  <2> PICK e \in Channels : call[c].on = e
    BY <2>1
  <2>2. /\ metered'[e] = metered[e] + call[c].amount
        /\ \A f \in Channels : f # e => metered'[f] = metered[f]
    BY <1>2, <2>1 DEF PayLands, Meter, SessionInv, SessionTypeOK
  <2>3. ASSUME upset[e] = {} PROVE Consistent(call[c], e)'
    <3>1. call[c].seen.totalPaid = metered[e] /\ store[e] = call[c].seen
      BY <2>1, <2>3, CallConsistent, CallFacts
      DEF Advance, Consistent, WillWrite, SessionInv
    <3>2. /\ call'[c].at = "landed" /\ call'[c].seen = call[c].seen
          /\ call'[c].amount = call[c].amount
      BY <2>1, CallFacts DEF Advance, SessionInv, SessionTypeOK, CallState
    <3>3. QED BY <2>1, <2>2, <3>1, <3>2 DEF Consistent, WillWrite
  <2>4. QED BY <2>1, <2>2, <2>3, AdvanceExact DEF SessionInv
<1>3. CASE PayStores(c)
  <2>1. Return(c, "landed") /\ UNCHANGED <<channelVars, upset>> /\ call[c].on \in Channels
    BY <1>3 DEF PayStores, Return, SessionInv, SessionSafe, OnItsChannel
  <2> PICK o \in Channels : call[c].on = o
    BY <2>1
  <2>2. /\ \A e \in Channels : e # o => store'[e] = store[e]
        /\ store'[o] = Updated(c)
    BY <1>3, <2>1 DEF PayStores, SessionInv, SessionTypeOK
  <2>3. ASSUME upset'[o] = {} PROVE Agrees(o)'
    <3>1. WillWrite(call[c]) = metered[o]
      BY <2>1, <2>3, CallConsistent DEF Return, Consistent
    <3>2. Updated(c).totalPaid = WillWrite(call[c])
      BY <2>1, CallFacts DEF Return, Updated, WillWrite, SessionInv, Session
    <3>3. QED BY <2>1, <2>2, <3>1, <3>2 DEF Agrees, channelVars
  <2>4. QED BY <2>1, <2>2, <2>3, ReturnExact DEF SessionInv
<1>4. CASE PayFails(c)
  <2>1. /\ Return(c, "sent") /\ UNCHANGED <<channelVars, store, upset>>
        /\ call[c].on \in Channels
    BY <1>4 DEF PayFails, Return, SessionInv, SessionSafe, OnItsChannel
  <2> PICK o \in Channels : call[c].on = o
    BY <2>1
  <2>2. ASSUME upset'[o] = {} PROVE Agrees(o)'
    BY <2>1, <2>2, CallConsistent, CallFacts
    DEF Return, Consistent, WillWrite, Agrees, channelVars, SessionInv
  <2>3. QED BY <2>1, <2>2, ReturnExact DEF SessionInv
<1>5. CASE PayUnanswered(c)
  <2>1. /\ Return(c, "landed") /\ UNCHANGED <<channelVars, store>>
        /\ call[c].on \in Channels
    BY <1>5 DEF PayUnanswered, Return, SessionInv, SessionSafe, OnItsChannel
  <2> PICK o \in Channels : call[c].on = o
    BY <2>1
  <2>2. /\ upset'[o] # {}
        /\ \A e \in Channels : upset'[e] = {} => upset[e] = {}
    BY <1>5, <2>1 DEF PayUnanswered, SessionInv, SessionTypeOK
  <2>3. QED BY <2>1, <2>2, ReturnExact DEF SessionInv
<1>6. QED BY <1>1, <1>2, <1>3, <1>4, <1>5

LEMMA CloseExact ==
  ASSUME SessionInv, AllExact, NEW c \in Calls,
         \/ \E e \in Channels : CloseReads(c, e)
         \/ CloseMarks(c) \/ CloseLands(c) \/ CloseDeletes(c) \/ CloseFails(c)
  PROVE  AllExact'
<1>1. ASSUME NEW e \in Channels, CloseReads(c, e) PROVE AllExact'
  BY <1>1, ReadExact DEF CloseReads
<1>2. CASE CloseMarks(c)
  <2>1. /\ Advance(c, "read", "marked") /\ UNCHANGED <<channelVars, upset>>
        /\ call[c].on \in Channels
    BY <1>2 DEF CloseMarks, Advance, SessionInv, SessionSafe, OnItsChannel
  <2> PICK o \in Channels : call[c].on = o
    BY <2>1
  <2>2. /\ \A e \in Channels : e # o => store'[e] = store[e]
        /\ store'[o].totalPaid = call[c].seen.totalPaid
    BY <1>2, <2>1, CallFacts DEF CloseMarks, SessionInv, SessionTypeOK, Session
  <2>3. call'[c].at = "marked" /\ call'[c].seen = call[c].seen
    BY <2>1, CallFacts DEF Advance, SessionInv, SessionTypeOK, CallState
  <2>4. ASSUME upset[o] = {} PROVE Consistent(call[c], o)'
    <3>1. call[c].seen.totalPaid = metered[o]
      BY <2>1, <2>4, CallConsistent, CallFacts
      DEF Advance, Consistent, WillWrite, SessionInv
    <3>2. call'[c].on = o /\ metered' = metered
      BY <2>1, CallFacts DEF Advance, SessionInv, SessionTypeOK, CallState, channelVars
    <3>3. call[c].seen.totalPaid \in Nat
      BY CallFacts DEF SessionInv
    <3>4. QED BY <2>2, <2>3, <3>1, <3>2, <3>3 DEF Consistent, WillWrite
  <2>5. QED BY <2>1, <2>2, <2>4, AdvanceExact DEF SessionInv, channelVars
<1>3. CASE CloseLands(c)
  <2>1. /\ Advance(c, "marked", "settled") /\ UNCHANGED <<metered, store, upset>>
        /\ call[c].on \in Channels
        /\ \A e \in Channels : (phase'[e] = "absent") <=> (phase[e] = "absent")
    BY <1>3 DEF CloseLands, Close, Advance, SessionInv, SessionTypeOK, SessionSafe, OnItsChannel
  <2> PICK o \in Channels : call[c].on = o
    BY <2>1
  <2>2. call'[c].at = "settled" /\ call'[c].seen = call[c].seen
    BY <2>1, CallFacts DEF Advance, SessionInv, SessionTypeOK, CallState
  <2>3. ASSUME upset[o] = {} PROVE Consistent(call[c], o)'
    <3>1. WillWrite(call[c]) = metered[o] /\ store[o].totalPaid = call[c].seen.totalPaid
      BY <2>1, <2>3, CallConsistent DEF Advance, Consistent
    <3>2. call'[c].on = o
      BY <2>1, CallFacts DEF Advance, SessionInv, SessionTypeOK, CallState
    <3>3. WillWrite(call[c])' = WillWrite(call[c])
      BY <2>1, <2>2 DEF Advance, WillWrite
    <3>4. QED BY <2>1, <2>2, <3>1, <3>2, <3>3 DEF Consistent
  <2>4. QED BY <2>1, <2>3, AdvanceExact DEF SessionInv
<1>4. CASE CloseDeletes(c)
  <2>1. /\ Return(c, "settled") /\ UNCHANGED <<channelVars, upset>>
        /\ call[c].on \in Channels
    BY <1>4 DEF CloseDeletes, Return, SessionInv, SessionSafe, OnItsChannel
  <2> PICK o \in Channels : call[c].on = o
    BY <2>1
  <2>2. /\ \A e \in Channels : e # o => store'[e] = store[e]
        /\ store'[o] = NoSession
    BY <1>4, <2>1 DEF CloseDeletes, SessionInv, SessionTypeOK
  <2>3. Agrees(o)'
    BY <2>2 DEF Agrees, NoSession
  <2>4. QED BY <2>1, <2>2, <2>3, ReturnExact DEF SessionInv
<1>5. ASSUME NEW from \in {"read", "marked", "settled"}, Return(c, from),
             UNCHANGED <<channelVars, store, upset>>
      PROVE  AllExact'
  <2>1. call[c].on \in Channels
    BY <1>5 DEF Return, SessionInv, SessionSafe, OnItsChannel
  <2> PICK o \in Channels : call[c].on = o
    BY <2>1
  <2>2. ASSUME upset'[o] = {} PROVE Agrees(o)'
    <3>1. store[o].totalPaid = metered[o]
      BY <1>5, <2>1, <2>2, CallConsistent, CallFacts
      DEF Return, Consistent, WillWrite, SessionInv
    <3>2. QED BY <1>5, <3>1 DEF Agrees, channelVars
  <2>3. QED BY <1>5, <2>1, <2>2, ReturnExact DEF SessionInv
<1>6. CASE CloseFails(c)
  BY <1>5, <1>6 DEF CloseFails
<1>7. QED BY <1>1, <1>2, <1>3, <1>4, <1>6

LEMMA ChainMovesExact ==
  ASSUME SessionInv, AllExact, NEW e \in Channels, ChainMoves(e) PROVE AllExact'
<1> SUFFICES ASSUME NEW f \in Channels PROVE Exact(f)'
  BY DEF AllExact
<1>1. Exact(f) /\ store' = store /\ call' = call
  BY DEF AllExact, ChainMoves
<1>2. (phase'[f] = "absent") <=> (phase[f] = "absent")
  BY DEF ChainMoves, Attest, Close, Meter, SessionInv, SessionTypeOK
<1>3. CASE metered'[f] = metered[f]
  <2>1. upset'[f] = {} => upset[f] = {}
    BY DEF ChainMoves, SessionInv, SessionTypeOK
  <2>2. QED BY <1>1, <1>2, <1>3, <2>1, ExactFrame
<1>4. CASE metered'[f] # metered[f]
  <2>1. phase[f] # "absent" /\ upset'[f] # {}
    BY <1>4 DEF ChainMoves, Attest, Close, Meter, SessionInv, SessionTypeOK
  <2>2. QED BY <1>2, <2>1 DEF Exact, Fresh
<1>5. QED BY <1>3, <1>4

LEMMA RestartExact == ASSUME SessionInv, AllExact, Restart PROVE AllExact'
<1> SUFFICES ASSUME NEW e \in Channels PROVE Exact(e)'
  BY DEF AllExact
<1>1. /\ metered' = metered /\ phase' = phase
      /\ store'[e] \in {store[e], NoSession}
      /\ \A c \in Calls : call'[c].on # e
  BY SessionAssumption DEF Restart, channelVars, IdleCall
<1>2. upset'[e] = {} => upset[e] = {} /\ ~ Busy(e)
  BY DEF Restart
<1>3. Fresh(e)'
  BY <1>1 DEF AllExact, Exact, Fresh
<1>4. upset'[e] = {} => Agrees(e)'
  BY <1>1, <1>2 DEF AllExact, Exact, Agrees, NoSession
<1>5. QED BY <1>1, <1>3, <1>4 DEF Exact, Alone

(* Calls that follow one another and get their answers keep a session      *)
(* equal to the chain's metering, failed payments and failed closes        *)
(* included (startPrivateSession, recordPayment, closeSession).            *)
THEOREM SessionsExact == SessionSpec => []ExactIfUndisturbed
<1>1. SessionInit => AllExact
  <2> SUFFICES ASSUME SessionInit, NEW e \in Channels PROVE Exact(e)
    BY DEF AllExact
  <2>1. \A c \in Calls : call[c].on # e
    BY SessionAssumption DEF SessionInit, IdleCall
  <2>2. metered[e] = 0 /\ store[e] = NoSession /\ NoSession.state = "none"
    BY DEF SessionInit, ChannelInit, NoSession
  <2>3. QED BY <2>1, <2>2 DEF Exact, Fresh, Alone, Agrees
<1>2. SessionInv /\ AllExact /\ [SessionNext]_sessionVars => AllExact'
  <2> SUFFICES ASSUME SessionInv, AllExact, [SessionNext]_sessionVars PROVE AllExact'
    OBVIOUS
  <2>1. ASSUME NEW c \in Calls, CallStep(c) PROVE AllExact'
    BY <2>1, StartExact, PayExact, CloseExact DEF CallStep
  <2>2. ASSUME NEW e \in Channels, ChainMoves(e) PROVE AllExact'
    BY <2>2, ChainMovesExact
  <2>3. CASE Restart
    BY <2>3, RestartExact
  <2>4. ASSUME UNCHANGED sessionVars, NEW e \in Channels PROVE Exact(e)'
    BY <2>4, ExactFrame DEF sessionVars, AllExact
  <2>5. QED BY <2>1, <2>2, <2>3, <2>4 DEF SessionNext, AllExact
<1>3. AllExact => ExactIfUndisturbed
  BY DEF AllExact, Exact, Agrees, ExactIfUndisturbed
<1>4. QED BY <1>1, <1>2, <1>3, SessionInvariance, PTL DEF SessionSpec

=============================================================================
