--------------------------- MODULE MCNodeFailover ---------------------------
(***************************************************************************)
(* Instances of NodeFailover for TLC.                                      *)
(***************************************************************************)
EXTENDS NodeFailover

(* Model values of the instances. *)
CONSTANTS node1, node2, custom1, c1, c2, b1, t1, t2, badUrl

OneCustom == {custom1}
OneBadUrl == {badUrl}
NoUrl     == {}
OneCall   == {c1}
TwoCalls  == {c1, c2}
OneBoot   == {b1}
TwoTimers == {t1, t2}
TwoGasLimits == {1600000, 3000000}
=============================================================================
