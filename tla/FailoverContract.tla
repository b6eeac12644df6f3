-------------------------- MODULE FailoverContract --------------------------
(***************************************************************************)
(* What a user of withFailover and setNodeConfig may rely on, with the     *)
(* retry loop, the health probes and the timers left out: a configuration  *)
(* names a primary and a fallback, one of the two is active, and a call    *)
(* makes at most two attempts, the second only if the first was made on    *)
(* the primary, and then on the fallback, which is active from then on.    *)
(***************************************************************************)
EXTENDS Sequences, Naturals

CONSTANTS Hosts, Calls

VARIABLES
  pair,     \* the configured primary and fallback
  active,   \* the node a new attempt is sent to
  tried,    \* by call, the hosts it was sent to; << >> when there is none
  onPrimary \* by call, whether its first attempt was made on the primary

vars == <<pair, active, tried, onPrimary>>

Pairs == [primary : Hosts, fallback : Hosts]

Init ==
  /\ pair \in Pairs
  /\ active = pair.primary
  /\ tried = [c \in Calls |-> << >>]
  /\ onPrimary \in [Calls -> BOOLEAN]

Reconfigure ==
  /\ pair' \in Pairs
  /\ active' = pair'.primary
  /\ UNCHANGED <<tried, onPrimary>>

Switch ==
  /\ active' \in {pair.primary, pair.fallback}
  /\ UNCHANGED <<pair, tried, onPrimary>>

Begin(c) ==
  /\ tried[c] = << >>
  /\ tried' = [tried EXCEPT ![c] = <<active>>]
  /\ onPrimary' = [onPrimary EXCEPT ![c] = (active = pair.primary)]
  /\ UNCHANGED <<pair, active>>

Retry(c) ==
  /\ Len(tried[c]) = 1
  /\ onPrimary[c]
  /\ active' = pair.fallback
  /\ tried' = [tried EXCEPT ![c] = Append(@, active')]
  /\ UNCHANGED <<pair, onPrimary>>

Return(c) ==
  /\ tried[c] # << >>
  /\ tried' = [tried EXCEPT ![c] = << >>]
  /\ \E b \in BOOLEAN : onPrimary' = [onPrimary EXCEPT ![c] = b]
  /\ UNCHANGED <<pair, active>>

Next ==
  \/ Reconfigure
  \/ Switch
  \/ \E c \in Calls : Begin(c) \/ Retry(c) \/ Return(c)

Spec == Init /\ [][Next]_vars
=============================================================================
