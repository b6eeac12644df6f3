--------------------------- MODULE MCGuardReview ---------------------------
(* A small instance of GuardReview: two keys, a guard of each kind, and   *)
(* one that lists a key twice.                                            *)
EXTENDS GuardReview

CONSTANTS a, b

Keyset(pred, keys) == [shapes |-> {"keyset"}, pred |-> pred, keys |-> keys, ref |-> ""]

MCKeys == {a, b}
Any     == Keyset("keys-any", <<a, b>>)
Percent == Keyset("pct51", <<a, b>>)
Future  == Keyset("a future predicate", <<a, b>>)
Twice   == Keyset("all-but-two", <<a, b, b>>)
Fixed   == Keyset("keys1", <<b, a>>)
Empty   == Keyset("keys-all", <<>>)
Ref     == [Keyset("all-but-one", <<b, a>>) EXCEPT !.shapes = {"keysetref"}, !.ref = "ns.ks"]
Cap     == [Keyset("keys-2", <<a, b>>) EXCEPT !.shapes = {"capability", "keyset"}]
Unknown == [Keyset("keys-all", <<>>) EXCEPT !.shapes = {}]

(* The account's and the sovereign's guards are keysets, or could not be   *)
(* fetched; the governor may be a guard of any kind.                       *)
MCAccounts ==
  {[i \in Branches |-> <<g, s, v>>[i + 1]] :
     g \in {Percent, Unknown}, s \in {Future, Ref, Unknown},
     v \in {Any, Twice, Fixed, Empty, Ref, Cap, Unknown}}
=============================================================================
