---------------------------- MODULE MeteredChannel ----------------------------
(***************************************************************************)
(* What a payment escrow promises, with no programs, rollup or reports: a  *)
(* payer locks a budget, attested metering uses it up, and closing the     *)
(* channel, once, pays what was metered and returns the rest.  Nothing but *)
(* closing takes from what is locked; anybody may add to it.               *)
(***************************************************************************)
EXTENDS Naturals

CONSTANT Channels

VARIABLES
  phase,         \* absent, open, metering, closed
  budget,        \* what the payer locked
  metered,       \* what the payee has earned so far
  held           \* what is locked now

channelVars == <<phase, budget, metered, held>>

ChannelInit ==
  /\ phase   = [c \in Channels |-> "absent"]
  /\ budget  = [c \in Channels |-> 0]
  /\ metered = [c \in Channels |-> 0]
  /\ held    = [c \in Channels |-> 0]

Open(c, b) ==
  /\ phase[c] = "absent"
  /\ b \in Nat
  /\ phase'  = [phase EXCEPT ![c] = "open"]
  /\ budget' = [budget EXCEPT ![c] = b]
  /\ held'   = [held EXCEPT ![c] = @ + b]
  /\ UNCHANGED metered

Attest(c) ==
  /\ phase[c] = "open"
  /\ phase' = [phase EXCEPT ![c] = "metering"]
  /\ UNCHANGED <<budget, metered, held>>

Meter(c, total) ==
  /\ phase[c] = "metering"
  /\ metered[c] < total /\ total <= budget[c]
  /\ metered' = [metered EXCEPT ![c] = total]
  /\ UNCHANGED <<phase, budget, held>>

Close(c) ==
  /\ phase[c] \in {"open", "metering"}
  /\ budget[c] <= held[c]
  /\ phase' = [phase EXCEPT ![c] = "closed"]
  /\ held'  = [held EXCEPT ![c] = @ - budget[c]]
  /\ UNCHANGED <<budget, metered>>

(* At any time, before the channel is opened and after it is closed too.   *)
Gift(c) ==
  /\ held' = [held EXCEPT ![c] = held'[c]]
  /\ held'[c] > held[c]
  /\ UNCHANGED <<phase, budget, metered>>

(* The totals a step can lead to are those of the implementation, so that  *)
(* the quantifiers stay finite under a refinement mapping.                 *)
ChannelNext ==
  \E c \in Channels : \/ Open(c, budget'[c])
                      \/ Attest(c)
                      \/ Meter(c, metered'[c])
                      \/ Close(c)
                      \/ Gift(c)

ChannelSpec == ChannelInit /\ [][ChannelNext]_channelVars

=============================================================================
