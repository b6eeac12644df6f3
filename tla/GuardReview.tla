---------------------------- MODULE GuardReview ----------------------------
(***************************************************************************)
(* The auth-path review of a smart account: its three guards are fetched   *)
(* and resolved, keys enter and leave the codex, foreign private keys are  *)
(* pasted and cleared, and analyzeSmartAccountAuthPaths is run again after *)
(* every change.  The analysis is the core's; who changes the codex and    *)
(* pastes keys is its consumer.                                            *)
(***************************************************************************)
EXTENDS GuardAnalysis

CONSTANT Accounts    \* the triples of guards a smart account may have

ASSUME GuardAssumption ==
  Accounts \subseteq [Branches -> [shapes : SUBSET Shapes, pred : STRING,
                                  keys : Seq(Keys), ref : STRING]]

Sources == {"seeds", "accounts", "pure"}   \* where the codex keeps a key

VARIABLES
  guards,   \* the account's, the sovereign's and the governor's guard
  entries,  \* by source, the public keys of the codex's entries
  pasted    \* what resolvedManualKeys holds under each key

reviewVars == <<guards, entries, pasted>>

codexPubs == BuildCodexPubSet(entries)

ReviewInit ==
  /\ guards \in Accounts
  /\ \E none \in SUBSET {NoKey} :   \* an account entry may lack a key
       entries = [s \in Sources |-> IF s = "accounts" THEN none ELSE {}]
  /\ pasted = [k \in Keys |-> "absent"]

(* resolveGuard: a keyset-ref is replaced by the keyset it names. *)
ResolveRef(i) ==
  /\ ClassifyGuardKind(NormalizeKeysetRef(guards[i])) = "keyset-ref"
  /\ guards' = [guards EXCEPT ![i].shapes = {"keyset"}]
  /\ UNCHANGED <<entries, pasted>>

ImportKey(k, s) ==
  /\ entries' = [entries EXCEPT ![s] = @ \cup {k}]
  /\ UNCHANGED <<guards, pasted>>

RemoveKey(k, s) ==
  /\ k \in entries[s]
  /\ entries' = [entries EXCEPT ![s] = @ \ {k}]
  /\ UNCHANGED <<guards, pasted>>

(* What is pasted: a private key in the 64 digits of Ed25519 or the 128 of *)
(* an extended key, or something else, of which no key can be derived.     *)
Inputs == [form : {"ed25519", "extended", "other"}, key : Keys]

TryDerivePublicKey(input) == IF input.form = "other" THEN NoKey ELSE input.key

(* The input is kept if it is the private key of the signer asked for. *)
PasteKey(k) ==
  /\ \E input \in Inputs : TryDerivePublicKey(input) = k
  /\ pasted' = [pasted EXCEPT ![k] = "given"]
  /\ UNCHANGED <<guards, entries>>

(* The input is emptied: its entry stays, with an empty string. *)
ClearKey(k) ==
  /\ pasted[k] = "given"
  /\ pasted' = [pasted EXCEPT ![k] = "blank"]
  /\ UNCHANGED <<guards, entries>>

AddsKeys ==
  \/ \E i \in Branches : ResolveRef(i)
  \/ \E k \in Keys, s \in Sources : ImportKey(k, s)
  \/ \E k \in Keys : PasteKey(k)

ReviewNext ==
  \/ AddsKeys
  \/ \E k \in Keys, s \in Sources : RemoveKey(k, s)
  \/ \E k \in Keys : ClearKey(k)

ReviewSpec == ReviewInit /\ [][ReviewNext]_reviewVars

-----------------------------------------------------------------------------
(* Properties *)

ReviewTypeOK ==
  /\ guards \in [Branches -> [shapes : SUBSET Shapes, pred : STRING,
                              keys : Seq(Keys), ref : STRING]]
  /\ entries \in [Sources -> SUBSET (Keys \cup {NoKey})]
  /\ codexPubs \subseteq Keys
  /\ pasted \in [Keys -> {"absent", "blank", "given"}]

(* The cases a caller branches on, smartAccountAuth.ts:238-257. *)
Kinds == {ClassifyGuardKind(guards[i]) : i \in Branches}
CaseA == FirstSatisfied(guards, codexPubs, pasted) >= 0
CaseB == /\ FirstSatisfied(guards, codexPubs, pasted) = -1
         /\ AnyKeyBased(guards)
CaseC == /\ FirstSatisfied(guards, codexPubs, pasted) = -1
         /\ ~AnyKeyBased(guards)
         /\ Kinds # {"unknown"}
CaseD == Kinds = {"unknown"}

Cases == {name \in {"A", "B", "C", "D"} :
            \/ name = "A" /\ CaseA
            \/ name = "B" /\ CaseB
            \/ name = "C" /\ CaseC
            \/ name = "D" /\ CaseD}

(* Exactly one of the four documented cases applies to any three guards,   *)
(* and in case B the branch to prompt for is there: key-based, and short   *)
(* of at least one key.                                                    *)
ExactlyOneCase ==
  LET prompt == FirstSignableButUnsatisfied(guards, codexPubs, pasted)
  IN  /\ Cardinality(Cases) = 1
      /\ CaseA => KeyBased(guards[FirstSatisfied(guards, codexPubs, pasted)])
      /\ CaseB => /\ prompt \in Branches
                  /\ NeededMore(guards[prompt], codexPubs, pasted) > 0

(* A private key is at hand: in the codex, or pasted and not cleared. *)
Usable(k) == k \in codexPubs \/ pasted[k] = "given"

(* What the names of the predicates promise of a keyset of n keys: a share *)
(* of the keys, all but some, or a number of them if there are as many.    *)
Enough(pred, usable, n) ==
  LET AtLeast(k) == usable >= Least(k, n)
  IN  /\ pred \in DOMAIN StoicPct => 100 * usable >= StoicPct[pred] * n
      /\ pred \in DOMAIN StoicFixed => AtLeast(StoicFixed[pred])
      /\ pred \in DOMAIN StoicMofN => AtLeast(StoicMofN[pred])
      /\ pred = "all-but-one" => AtLeast(1) /\ usable >= n - 1
      /\ pred = "all-but-two" => AtLeast(1) /\ usable >= n - 2
      /\ pred = "keys-any" => AtLeast(1)
      /\ pred = "keys-2" => AtLeast(2)
      /\ pred = "keys-all" => usable >= n

(* A branch reported as satisfied has as many usable keys as its predicate *)
(* asks for: a cleared paste is not a signature, and neither is a          *)
(* percentage rounded down.                                                *)
SatisfiedHasSigners ==
  \A i \in Branches : LET g == guards[i] IN
    /\ BranchSatisfied(g, codexPubs, pasted)
    /\ g.pred \in Predicates
    => Enough(g.pred, Cardinality({p \in DOMAIN g.keys : Usable(g.keys[p])}), Len(g.keys))

(* Under a predicate this version does not know, nothing short of every    *)
(* key counts as enough (guardUtils.ts:35-38).                             *)
UnknownIsConservative ==
  \A i \in Branches :
    /\ BranchSatisfied(guards[i], codexPubs, pasted)
    /\ guards[i].pred \notin Predicates
    => \A p \in DOMAIN guards[i].keys : Usable(guards[i].keys[p])

(* What the review reports as satisfied is backed by private keys at hand, *)
(* under every predicate, known or not (guardUtils.ts:35-38, 219-221).     *)
VerdictsAreBacked == SatisfiedHasSigners /\ UnknownIsConservative

(* A key gained, in the codex or pasted, never leaves a branch wanting     *)
(* more keys, and never moves the default branch to a later one.           *)
MoreKeysNeverHurt ==
  [][AddsKeys =>
       /\ \A i \in Branches :
            NeededMore(guards[i], codexPubs, pasted)' <= NeededMore(guards[i], codexPubs, pasted)
       /\ LET before == FirstSatisfied(guards, codexPubs, pasted)
              after  == FirstSatisfied(guards, codexPubs, pasted)'
          IN  before >= 0 => after \in 0..before]_reviewVars

=============================================================================
