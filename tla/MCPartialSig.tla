---------------------------- MODULE MCPartialSig ----------------------------
(* An instance of PartialSig for TLC: a command of two signers held by two *)
(* parties, an edited one that lists them the other way round, and one     *)
(* that has lost a signer.                                                 *)
EXTENDS PartialSig

CONSTANTS p1, p2, a, b, c1, c2, c3

TwoParties == {p1, p2}
TwoKeys    == {a, b}
ThreeCmds  == {c1, c2, c3}
Listed     == [c \in ThreeCmds |-> CASE c = c1 -> <<a, b>>
                                     [] c = c2 -> <<b, a>>
                                     [] c = c3 -> <<b>>]
OneEach    == [p \in TwoParties |-> IF p = p1 THEN {a} ELSE {b}]
RawKeys    == {b}
Ecko       == {p2}
=============================================================================
