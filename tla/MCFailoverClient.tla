-------------------------- MODULE MCFailoverClient --------------------------
(***************************************************************************)
(* An instance of FailoverClient for TLC: a submit, with a start-up check  *)
(* and two reconfigurations beside it.                                     *)
(***************************************************************************)
EXTENDS FailoverClient

CONSTANTS node1, node2, custom1, submit1, poll1, b1, t1, t2

Empty     == {}
OneCustom == {custom1}
OneSubmit == {submit1}
OnePoll   == {poll1}
Both      == {submit1, poll1}
OneBoot   == {b1}
TwoTimers == {t1, t2}
OneGasLimit == {1600000}

(* The bound of the instance: one call is made in a behaviour, of either   *)
(* kind.  Fairness never asks for a call, so none of it is lost.           *)
OneCall == \A c, d \in Calls : Tries(c) # {} /\ Tries(d) # {} => c = d

MCSpec == ClientInit /\ [][ClientNext /\ OneCall']_allVars /\ ClientFairness
=============================================================================
