---------------------------- MODULE MCPollStatus ----------------------------
(* An instance of PollStatus for TLC: two keys on one host, one on another. *)
EXTENDS PollStatus

CONSTANTS k1, k2, k3, h1, h2, spv

ThreeKeys == {k1, k2, k3}
TwoHosts  == [k \in ThreeKeys |-> IF k = k3 THEN h2 ELSE h1]
OneProof  == {spv}
=============================================================================
