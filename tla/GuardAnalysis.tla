--------------------------- MODULE GuardAnalysis ---------------------------
(***************************************************************************)
(* guard/guardUtils.ts and guard/smartAccountAuth.ts: how many signatures  *)
(* a keyset guard takes, which of its keys can sign, which of the three    *)
(* guards of a smart account can be used, and which key pays for gas.      *)
(* Everything here is an operator; GuardReview and CodexStrategy are the   *)
(* state machines that use them.                                           *)
(*                                                                         *)
(* A keyset is [pred, keys, ref]: a predicate, a sequence of public keys   *)
(* and its keysetRef.  A raw guard is the same record with the object      *)
(* shapes it shows.                                                        *)
(***************************************************************************)
EXTENDS Integers, Sequences, FiniteSets

CONSTANT Keys       \* public keys

NoKey == "no key"   \* null, where a public key may be expected

ASSUME KeyAssumption == NoKey \notin Keys

(* STOIC_FIXED, STOIC_M_OF_N and STOIC_PCT; a percentage is in hundredths. *)
StoicFixed == [keys1 |-> 1, keys3 |-> 3, keys4 |-> 4]
StoicMofN  == [of3 |-> 2, of5 |-> 3, of7 |-> 4, of9 |-> 5]
StoicPct   == [pct51 |-> 51, pct60 |-> 60, pct66 |-> 66, pct75 |-> 75, pct90 |-> 90]

Predicates == {"keys-any", "keys-all", "keys-2", "all-but-one", "all-but-two"}
                \cup DOMAIN StoicFixed \cup DOMAIN StoicMofN \cup DOMAIN StoicPct

Least(a, b) == IF a < b THEN a ELSE b
Most(a, b)  == IF a > b THEN a ELSE b

(* computeThreshold throws UnknownPredicateError, except for no keys. *)
Recognised(pred, keyCount) == keyCount = 0 \/ pred \in Predicates

(* Variants named ...Bug are what a plausible mistake would turn the       *)
(* definition after them into; no specification uses them.                 *)
ComputeThresholdBug(pred, keyCount) ==   \* Math.floor, and no cap at keyCount
  IF keyCount = 0 THEN 0
  ELSE CASE pred \in DOMAIN StoicPct   -> (keyCount * StoicPct[pred]) \div 100
         [] pred \in DOMAIN StoicFixed -> StoicFixed[pred]
         [] pred \in DOMAIN StoicMofN  -> StoicMofN[pred]
         [] pred = "keys-2"            -> 2
         [] OTHER                      -> keyCount

ComputeThreshold(pred, keyCount) ==
  CASE keyCount = 0                                -> 0
    [] keyCount # 0 /\ pred = "keys-any"           -> 1
    [] keyCount # 0 /\ pred = "keys-all"           -> keyCount
    [] keyCount # 0 /\ pred = "keys-2"             -> Least(2, keyCount)
    [] keyCount # 0 /\ pred \in DOMAIN StoicFixed  -> Least(StoicFixed[pred], keyCount)
    [] keyCount # 0 /\ pred \in DOMAIN StoicMofN   -> Least(StoicMofN[pred], keyCount)
    [] keyCount # 0 /\ pred \in DOMAIN StoicPct    -> (keyCount * StoicPct[pred] + 99) \div 100
    [] keyCount # 0 /\ pred = "all-but-one"        -> Most(1, keyCount - 1)
    [] keyCount # 0 /\ pred = "all-but-two"        -> Most(1, keyCount - 2)

-----------------------------------------------------------------------------
(* analyzeGuard.  Keys are counted by their positions, as the arrays of    *)
(* the code count them: a key listed twice counts twice.  `pasted` maps a  *)
(* key to "absent", "blank" or "given": what resolvedManualKeys holds      *)
(* under it, of which only a non-empty string is truthy.                   *)

ThresholdBug(guard) ==   \* an unknown predicate asks for nothing
  LET n == Len(guard.keys)
  IN  IF Recognised(guard.pred, n) THEN ComputeThreshold(guard.pred, n) ELSE 0

Threshold(guard) ==
  LET n == Len(guard.keys)
  IN  IF Recognised(guard.pred, n) THEN ComputeThreshold(guard.pred, n) ELSE n

CodexKeys(guard, codexPubs) ==
  {i \in DOMAIN guard.keys : guard.keys[i] \in codexPubs}

ResolvedForeignKeys(guard, codexPubs, pasted) ==
  {i \in DOMAIN guard.keys :
     guard.keys[i] \notin codexPubs /\ pasted[guard.keys[i]] = "given"}

Signable(guard, codexPubs, pasted) ==
  Cardinality(CodexKeys(guard, codexPubs)
                \cup ResolvedForeignKeys(guard, codexPubs, pasted))

Satisfied(guard, codexPubs, pasted) ==
  Signable(guard, codexPubs, pasted) >= Threshold(guard)

NeededMore(guard, codexPubs, pasted) ==
  Most(0, Threshold(guard) - Signable(guard, codexPubs, pasted))

BuildCodexPubSetBug(codex) == codex.seeds \cup codex.accounts \cup codex.pure

(* buildCodexPubSet: seeds, accounts and pure keypairs together, without   *)
(* the entries that have no public key.                                    *)
BuildCodexPubSet(codex) ==
  (codex.seeds \cup codex.accounts \cup codex.pure) \ {NoKey}

(* classifyPaymentKey: the public key in a k: address, none in any other. *)
PaymentPub(address) == IF address.type = "k-account" THEN address.pubkey ELSE NoKey

-----------------------------------------------------------------------------
(* smartAccountAuth.ts *)

Shapes == {"capability", "user", "keysetref", "keysetRef", "keyset"}

(* The shapes a payload shows in full are tried in this order. *)
ClassifyGuardKind(guard) ==
  IF "capability" \in guard.shapes THEN "capability"
  ELSE IF "user" \in guard.shapes THEN "user"
  ELSE IF {"keysetref", "keysetRef"} \cap guard.shapes # {} THEN "keyset-ref"
  ELSE IF "keyset" \in guard.shapes THEN "keyset"
  ELSE "unknown"

(* normalizeKeysetRef: the camel-case field mirrors the lower-case one. *)
NormalizeKeysetRef(guard) ==
  IF "keysetref" \in guard.shapes
  THEN [guard EXCEPT !.shapes = @ \cup {"keysetRef"}]
  ELSE guard

KeyBased(guard) == ClassifyGuardKind(guard) = "keyset"

ExtractKeyset(guard) ==
  [pred |-> guard.pred, keys |-> guard.keys, ref |-> guard.ref]

BranchSatisfiedBug(guard, codexPubs, pasted) ==   \* any kind of guard
  Satisfied(ExtractKeyset(guard), codexPubs, pasted)

BranchSatisfied(guard, codexPubs, pasted) ==
  KeyBased(guard) /\ Satisfied(ExtractKeyset(guard), codexPubs, pasted)

(* The branches: 0 is the account's guard, 1 the sovereign's, 2 the        *)
(* governor.                                                               *)
Branches == 0..2

FirstInBug(indices) ==   \* the loop does not break
  IF indices = {} THEN -1
  ELSE CHOOSE i \in indices : \A j \in indices : j <= i

FirstIn(indices) ==
  IF indices = {} THEN -1
  ELSE CHOOSE i \in indices : \A j \in indices : i <= j

AnyKeyBased(guards) == \E i \in Branches : KeyBased(guards[i])

FirstSatisfied(guards, codexPubs, pasted) ==
  FirstIn({i \in Branches : BranchSatisfied(guards[i], codexPubs, pasted)})

FirstSignableButUnsatisfied(guards, codexPubs, pasted) ==
  FirstIn({i \in Branches : /\ KeyBased(guards[i])
                            /\ ~BranchSatisfied(guards[i], codexPubs, pasted)})

-----------------------------------------------------------------------------
(* selectCapsSigningKey.  The codex set is iterated in insertion order,    *)
(* which nothing else fixes, so the fallback may be any free codex key.    *)

CapsChoicesBug(paymentKey, codexPubs, pureSigningPubs) ==
  IF paymentKey \in codexPubs   \* the overlap with guard signers is not checked
  THEN {[key |-> paymentKey, impossible |-> FALSE]}
  ELSE {[key |-> k, impossible |-> FALSE] : k \in codexPubs}

CapsChoices(paymentKey, codexPubs, pureSigningPubs) ==
  LET free == codexPubs \ pureSigningPubs
  IN  IF paymentKey \in free
      THEN {[key |-> paymentKey, impossible |-> FALSE]}
      ELSE IF free # {}
      THEN {[key |-> k, impossible |-> FALSE] : k \in free}
      ELSE {[key |-> NoKey, impossible |-> paymentKey \in pureSigningPubs]}

=============================================================================
