----------------------------- MODULE GuardProofs -----------------------------
(***************************************************************************)
(* Proofs about GuardAnalysis for keysets of any length, about GuardReview *)
(* for any keys and accounts, and about CodexStrategy for every number of  *)
(* executions, any jobs, codexes, prices and clock.  For the strategy,     *)
(* first what execute makes of the guards' keys (Among, Collect, Needed,   *)
(* GuardSigners), then the invariant of an execution, step by step, and    *)
(* what follows from it.                                                   *)
(***************************************************************************)
EXTENDS GuardReview, CodexStrategy, FoldTheorems

RawKeysets == [shapes : SUBSET Shapes, pred : STRING, keys : Seq(Keys), ref : STRING]
Pastes  == [Keys -> {"absent", "blank", "given"}]

(* Percentages round up, and a percentage of at most 90 asks for no more   *)
(* keys than there are.                                                    *)
LEMMA RoundedUp ==
  ASSUME NEW n \in Nat \ {0}, NEW pct \in 1..99
  PROVE  LET t == (n * pct + 99) \div 100 IN t \in 1..n /\ 100 * t >= pct * n
<1>1. n * pct \in Nat /\ n * pct >= n /\ n * pct <= 99 * n
  OBVIOUS
<1> DEFINE m == n * pct
<1>2. m \in Nat /\ m >= n /\ m <= 99 * n
  BY <1>1
<1> HIDE DEF m
<1>3. (m + 99) \div 100 \in 1..n /\ 100 * ((m + 99) \div 100) >= m
  BY <1>2
<1>4. pct * n = m
  BY DEF m
<1> QED
  BY <1>3, <1>4 DEF m

(* Of a predicate this version knows, between one signature and all of     *)
(* them are asked for, and none of an empty keyset: what computeThreshold's *)
(* callers divide the keys by (guardUtils.ts:63-146).                      *)
THEOREM ThresholdInRange ==
  ASSUME NEW n \in Nat, NEW pred \in Predicates
  PROVE  /\ ComputeThreshold(pred, n) \in 0..n
         /\ n # 0 => ComputeThreshold(pred, n) >= 1
<1>1. CASE n = 0
  BY <1>1 DEF ComputeThreshold
<1>2. CASE n # 0 /\ pred \in DOMAIN StoicPct
  <2>1. StoicPct[pred] \in 1..99
    BY <1>2 DEF StoicPct
  <2>2. ComputeThreshold(pred, n) = (n * StoicPct[pred] + 99) \div 100
    BY <1>2 DEF ComputeThreshold, StoicPct, StoicFixed, StoicMofN
  <2> QED
    BY <1>2, <2>1, <2>2, RoundedUp
<1>3. CASE n # 0 /\ pred \in DOMAIN StoicFixed
  <2>1. StoicFixed[pred] \in 1..4
    BY <1>3 DEF StoicFixed
  <2>2. ComputeThreshold(pred, n) = Least(StoicFixed[pred], n)
    BY <1>3 DEF ComputeThreshold, StoicPct, StoicFixed, StoicMofN
  <2> QED
    BY <1>3, <2>1, <2>2 DEF Least
<1>4. CASE n # 0 /\ pred \in DOMAIN StoicMofN
  <2>1. StoicMofN[pred] \in 2..5
    BY <1>4 DEF StoicMofN
  <2>2. ComputeThreshold(pred, n) = Least(StoicMofN[pred], n)
    BY <1>4 DEF ComputeThreshold, StoicPct, StoicFixed, StoicMofN
  <2> QED
    BY <1>4, <2>1, <2>2 DEF Least
<1>5. CASE /\ n # 0
            /\ pred \in {"keys-any", "keys-all", "keys-2", "all-but-one", "all-but-two"}
  <2>1. CASE pred \in {"keys-any", "keys-all", "keys-2"}
    <3>1. ComputeThreshold(pred, n) \in {1, n, Least(2, n)}
      BY <1>5, <2>1 DEF ComputeThreshold, StoicPct, StoicFixed, StoicMofN
    <3> QED
      BY <1>5, <3>1 DEF Least
  <2>2. CASE pred \in {"all-but-one", "all-but-two"}
    <3>1. ComputeThreshold(pred, n) \in {Most(1, n - 1), Most(1, n - 2)}
      BY <1>5, <2>2 DEF ComputeThreshold, StoicPct, StoicFixed, StoicMofN
    <3> QED
      BY <1>5, <3>1 DEF Most
  <2> QED
    BY <1>5, <2>1, <2>2
<1> QED
  BY <1>1, <1>2, <1>3, <1>4, <1>5 DEF Predicates

(* Whatever its predicate, a keyset's threshold lies in the same range. *)
LEMMA ThresholdOfKeyset ==
  ASSUME NEW g, g.keys \in Seq(Keys)
  PROVE  /\ Threshold(g) \in 0..Len(g.keys)
         /\ Len(g.keys) # 0 => Threshold(g) >= 1
<1>1. Len(g.keys) \in Nat
  OBVIOUS
<1>2. CASE g.pred \in Predicates
  BY <1>1, <1>2, ThresholdInRange DEF Threshold, Recognised
<1>3. CASE g.pred \notin Predicates
  <2>1. ComputeThreshold(g.pred, 0) = 0
    BY DEF ComputeThreshold
  <2>2. Threshold(g) = Len(g.keys)
    BY <1>1, <1>3, <2>1 DEF Threshold, Recognised
  <2> QED
    BY <1>1, <2>2
<1> QED
  BY <1>2, <1>3

-----------------------------------------------------------------------------
(* The positions whose key can sign, which analyzeGuard counts. *)
UsablePositions(g, pubs, paste) ==
  {p \in DOMAIN g.keys : g.keys[p] \in pubs \/ paste[g.keys[p]] = "given"}

LEMMA SignableCounts ==
  ASSUME NEW g, g.keys \in Seq(Keys), NEW pubs, NEW paste
  PROVE  /\ Signable(g, pubs, paste) = Cardinality(UsablePositions(g, pubs, paste))
         /\ IsFiniteSet(UsablePositions(g, pubs, paste))
         /\ Signable(g, pubs, paste) \in 0..Len(g.keys)
<1>1. CodexKeys(g, pubs) \cup ResolvedForeignKeys(g, pubs, paste) = UsablePositions(g, pubs, paste)
  BY DEF CodexKeys, ResolvedForeignKeys, UsablePositions
<1>2. DOMAIN g.keys = 1..Len(g.keys) /\ Len(g.keys) \in Nat
  OBVIOUS
<1>3. IsFiniteSet(1..Len(g.keys)) /\ Cardinality(1..Len(g.keys)) = Len(g.keys)
  BY <1>2, FS_Interval
<1>4. UsablePositions(g, pubs, paste) \subseteq 1..Len(g.keys)
  BY <1>2 DEF UsablePositions
<1>5. /\ IsFiniteSet(UsablePositions(g, pubs, paste))
      /\ Cardinality(UsablePositions(g, pubs, paste)) <= Len(g.keys)
      /\ Cardinality(UsablePositions(g, pubs, paste)) \in Nat
  BY <1>3, <1>4, FS_Subset, FS_CardinalityType
<1>6. Signable(g, pubs, paste) = Cardinality(UsablePositions(g, pubs, paste))
  BY <1>1, Zenon DEF Signable
<1> QED
  BY <1>2, <1>5, <1>6

(* More usable keys, more signatures. *)
LEMMA SignableGrows ==
  ASSUME NEW g, g.keys \in Seq(Keys), NEW pubs, NEW paste, NEW morePubs, NEW morePaste,
         UsablePositions(g, pubs, paste) \subseteq UsablePositions(g, morePubs, morePaste)
  PROVE  /\ Signable(g, pubs, paste) <= Signable(g, morePubs, morePaste)
         /\ NeededMore(g, morePubs, morePaste) <= NeededMore(g, pubs, paste)
         /\ Satisfied(g, pubs, paste) => Satisfied(g, morePubs, morePaste)
<1>1. Signable(g, pubs, paste) <= Signable(g, morePubs, morePaste)
  BY SignableCounts, FS_Subset
<1>2. /\ Signable(g, pubs, paste) \in Nat /\ Signable(g, morePubs, morePaste) \in Nat
      /\ Threshold(g) \in Nat
  BY SignableCounts, ThresholdOfKeyset
<1> QED
  BY <1>1, <1>2 DEF NeededMore, Satisfied, Most

-----------------------------------------------------------------------------
(* GuardReview *)

LEMMA ReviewInitTypeOK == ReviewInit => ReviewTypeOK
<1> SUFFICES ASSUME ReviewInit PROVE ReviewTypeOK
  OBVIOUS
<1>1. guards \in [Branches -> RawKeysets]
  BY GuardAssumption DEF ReviewInit, RawKeysets
<1>2. entries \in [Sources -> SUBSET (Keys \cup {NoKey})]
  BY DEF ReviewInit, Sources
<1>3. codexPubs \subseteq Keys
  BY <1>2 DEF codexPubs, BuildCodexPubSet, Sources
<1> QED
  BY <1>1, <1>2, <1>3 DEF ReviewInit, ReviewTypeOK, RawKeysets

LEMMA ReviewNextTypeOK == ReviewTypeOK /\ [ReviewNext]_reviewVars => ReviewTypeOK'
<1> SUFFICES ASSUME ReviewTypeOK, [ReviewNext]_reviewVars PROVE ReviewTypeOK'
  OBVIOUS
<1>1. guards' \in [Branches -> RawKeysets]
  <2>1. ASSUME NEW i \in Branches, ResolveRef(i) PROVE guards' \in [Branches -> RawKeysets]
    <3>1. [guards[i] EXCEPT !.shapes = {"keyset"}] \in RawKeysets
      BY DEF ReviewTypeOK, RawKeysets, Shapes
    <3>2. guards' = [guards EXCEPT ![i] = [guards[i] EXCEPT !.shapes = {"keyset"}]]
      BY <2>1 DEF ResolveRef
    <3> QED
      BY <3>1, <3>2 DEF ReviewTypeOK, RawKeysets
  <2>2. guards' = guards => guards' \in [Branches -> RawKeysets]
    BY DEF ReviewTypeOK, RawKeysets
  <2> QED
    BY <2>1, <2>2 DEF ReviewNext, AddsKeys, ImportKey, RemoveKey, PasteKey, ClearKey, reviewVars
<1>2. entries' \in [Sources -> SUBSET (Keys \cup {NoKey})]
  BY DEF ReviewTypeOK, ReviewNext, AddsKeys, ResolveRef, ImportKey, RemoveKey, PasteKey, ClearKey, reviewVars
<1>3. pasted' \in Pastes
  BY DEF ReviewTypeOK, ReviewNext, AddsKeys, ResolveRef, ImportKey, RemoveKey, PasteKey, ClearKey, reviewVars, Pastes
<1>4. codexPubs' \subseteq Keys
  BY <1>2 DEF codexPubs, BuildCodexPubSet, Sources
<1> QED
  BY <1>1, <1>2, <1>3, <1>4 DEF ReviewTypeOK, RawKeysets, Pastes

(* Type correctness of the review, for any keys and accounts. *)
THEOREM ReviewTypeCorrect == ReviewSpec => []ReviewTypeOK
  BY ReviewInitTypeOK, ReviewNextTypeOK, PTL DEF ReviewSpec

-----------------------------------------------------------------------------
(* The number of keys computeThreshold gives is enough for what the name   *)
(* of the predicate promises, whatever the length of the keyset.           *)
LEMMA ThresholdIsEnough ==
  ASSUME NEW n \in Nat, NEW u \in Nat, NEW pred \in Predicates, u >= ComputeThreshold(pred, n)
  PROVE  Enough(pred, u, n)
<1>1. CASE pred \in DOMAIN StoicPct
  <2>1. StoicPct[pred] \in 1..99 /\ StoicPct[pred] * n \in Nat
    BY <1>1 DEF StoicPct
  <2>2. 100 * u >= StoicPct[pred] * n
    <3>1. CASE n = 0
      <4>1. StoicPct[pred] * n = 0
        BY <2>1, <3>1
      <4> QED
        BY <4>1
    <3>2. CASE n # 0
      <4>1. ComputeThreshold(pred, n) = (n * StoicPct[pred] + 99) \div 100
        BY <1>1, <3>2 DEF ComputeThreshold, StoicPct, StoicFixed, StoicMofN
      <4>2. /\ ComputeThreshold(pred, n) \in Nat
            /\ 100 * ComputeThreshold(pred, n) >= StoicPct[pred] * n
        BY <2>1, <3>2, <4>1, RoundedUp
      <4> QED
        BY <2>1, <4>2
    <3> QED
      BY <3>1, <3>2
  <2>3. /\ pred \notin DOMAIN StoicFixed /\ pred \notin DOMAIN StoicMofN
        /\ pred \notin {"all-but-one", "all-but-two", "keys-any", "keys-2", "keys-all"}
    BY <1>1 DEF StoicPct, StoicFixed, StoicMofN
  <2> QED
    BY <2>2, <2>3, Zenon DEF Enough
<1>2. CASE n = 0 /\ pred \notin DOMAIN StoicPct
  <2>1. \A k \in Nat : Least(k, n) = 0 \/ Least(k, n) = n
    BY <1>2 DEF Least
  <2>2. \A k \in Nat : u >= Least(k, n)
    BY <1>2, <2>1
  <2>3. /\ pred \in DOMAIN StoicFixed => StoicFixed[pred] \in Nat
        /\ pred \in DOMAIN StoicMofN => StoicMofN[pred] \in Nat
    BY DEF StoicFixed, StoicMofN
  <2> QED
    BY <1>2, <2>2, <2>3 DEF Enough
<1>3. CASE n # 0 /\ pred \in DOMAIN StoicFixed
  <2>1. ComputeThreshold(pred, n) = Least(StoicFixed[pred], n)
    BY <1>3 DEF ComputeThreshold, StoicPct, StoicFixed, StoicMofN
  <2> QED
    BY <1>3, <2>1 DEF Enough, StoicPct, StoicFixed, StoicMofN
<1>4. CASE n # 0 /\ pred \in DOMAIN StoicMofN
  <2>1. ComputeThreshold(pred, n) = Least(StoicMofN[pred], n)
    BY <1>4 DEF ComputeThreshold, StoicPct, StoicFixed, StoicMofN
  <2> QED
    BY <1>4, <2>1 DEF Enough, StoicPct, StoicFixed, StoicMofN
<1>5. CASE n # 0 /\ pred \in {"keys-any", "keys-all", "keys-2"}
  <2>1. /\ pred = "keys-any" => ComputeThreshold(pred, n) = 1
        /\ pred = "keys-all" => ComputeThreshold(pred, n) = n
        /\ pred = "keys-2" => ComputeThreshold(pred, n) = Least(2, n)
    BY <1>5 DEF ComputeThreshold, StoicPct, StoicFixed, StoicMofN
  <2>2. Least(1, n) = 1
    BY <1>5 DEF Least
  <2> QED
    BY <1>5, <2>1, <2>2 DEF Enough, StoicPct, StoicFixed, StoicMofN
<1>6. CASE n # 0 /\ pred \in {"all-but-one", "all-but-two"}
  <2>1. /\ pred = "all-but-one" => ComputeThreshold(pred, n) = Most(1, n - 1)
        /\ pred = "all-but-two" => ComputeThreshold(pred, n) = Most(1, n - 2)
    BY <1>6 DEF ComputeThreshold, StoicPct, StoicFixed, StoicMofN
  <2>2. Least(1, n) = 1
    BY <1>6 DEF Least
  <2>3. /\ pred = "all-but-one" => u >= 1 /\ u >= n - 1
        /\ pred = "all-but-two" => u >= 1 /\ u >= n - 2
    BY <1>6, <2>1 DEF Most
  <2> QED
    BY <1>6, <2>2, <2>3 DEF Enough, StoicPct, StoicFixed, StoicMofN
<1> QED
  BY <1>1, <1>2, <1>3, <1>4, <1>5, <1>6 DEF Predicates

(* A guard the analysis looks at as a keyset is one of the account's. *)
LEMMA GuardsAreRawKeysets ==
  ASSUME ReviewTypeOK, NEW i \in Branches
  PROVE  /\ guards[i] \in RawKeysets
         /\ ExtractKeyset(guards[i]).keys = guards[i].keys
         /\ ExtractKeyset(guards[i]).pred = guards[i].pred
  BY DEF ReviewTypeOK, RawKeysets, ExtractKeyset

(* BranchSatisfied is analyzeGuard on the keyset of the guard. *)
LEMMA BranchIsAnalysed ==
  ASSUME NEW g \in RawKeysets, NEW pubs, NEW paste
  PROVE  BranchSatisfied(g, pubs, paste) <=> KeyBased(g) /\ Satisfied(g, pubs, paste)
<1>1. ExtractKeyset(g).keys = g.keys /\ ExtractKeyset(g).pred = g.pred
  BY DEF ExtractKeyset
<1>2. /\ Threshold(ExtractKeyset(g)) = Threshold(g)
      /\ Signable(ExtractKeyset(g), pubs, paste) = Signable(g, pubs, paste)
  BY <1>1 DEF Threshold, Signable, CodexKeys, ResolvedForeignKeys
<1> QED
  BY <1>2 DEF BranchSatisfied, Satisfied

(* A branch the review calls satisfied is backed by private keys at hand,  *)
(* for keysets of any length under any predicate (guardUtils.ts:63-112,    *)
(* 219-221).                                                               *)
THEOREM VerdictsHoldAlways == ReviewSpec => []VerdictsAreBacked
<1>1. ReviewTypeOK => SatisfiedHasSigners
  <2> SUFFICES ASSUME ReviewTypeOK, NEW i \in Branches, guards[i].pred \in Predicates,
                      BranchSatisfied(guards[i], codexPubs, pasted)
               PROVE  Enough(guards[i].pred,
                             Cardinality({p \in DOMAIN guards[i].keys : Usable(guards[i].keys[p])}),
                             Len(guards[i].keys))
    BY DEF SatisfiedHasSigners
  <2> DEFINE g == guards[i]
  <2>1. g \in RawKeysets /\ g.keys \in Seq(Keys) /\ Len(g.keys) \in Nat
    BY GuardsAreRawKeysets DEF RawKeysets
  <2>2. Satisfied(g, codexPubs, pasted)
    BY <2>1, BranchIsAnalysed
  <2>3. {p \in DOMAIN g.keys : Usable(g.keys[p])} = UsablePositions(g, codexPubs, pasted)
    BY DEF Usable, UsablePositions
  <2>4. /\ Signable(g, codexPubs, pasted) = Cardinality(UsablePositions(g, codexPubs, pasted))
        /\ Signable(g, codexPubs, pasted) \in Nat
    BY <2>1, SignableCounts
  <2>5. Threshold(g) = ComputeThreshold(g.pred, Len(g.keys))
    BY DEF Threshold, Recognised
  <2>6. Enough(g.pred, Signable(g, codexPubs, pasted), Len(g.keys))
    BY <2>1, <2>2, <2>4, <2>5, ThresholdIsEnough DEF Satisfied
  <2> QED
    BY <2>3, <2>4, <2>6
<1>2. ReviewTypeOK => UnknownIsConservative
  <2> SUFFICES ASSUME ReviewTypeOK, NEW i \in Branches, guards[i].pred \notin Predicates,
                      BranchSatisfied(guards[i], codexPubs, pasted)
               PROVE  \A p \in DOMAIN guards[i].keys : Usable(guards[i].keys[p])
    BY DEF UnknownIsConservative
  <2> DEFINE g == guards[i]
  <2>1. /\ g \in RawKeysets /\ g.keys \in Seq(Keys)
        /\ Len(g.keys) \in Nat /\ DOMAIN g.keys = 1..Len(g.keys)
    BY GuardsAreRawKeysets DEF RawKeysets
  <2>2. ComputeThreshold(g.pred, 0) = 0
    BY DEF ComputeThreshold
  <2>3. Threshold(g) = Len(g.keys)
    BY <2>1, <2>2 DEF Threshold, Recognised
  <2>4. Signable(g, codexPubs, pasted) >= Len(g.keys)
    BY <2>1, <2>3, BranchIsAnalysed DEF Satisfied
  <2>5. Cardinality(UsablePositions(g, codexPubs, pasted)) = Len(g.keys)
    BY <2>1, <2>4, SignableCounts
  <2>6. UsablePositions(g, codexPubs, pasted) \subseteq 1..Len(g.keys)
    BY <2>1 DEF UsablePositions
  <2>7. UsablePositions(g, codexPubs, pasted) = 1..Len(g.keys)
    <3>1. IsFiniteSet(1..Len(g.keys)) /\ Cardinality(1..Len(g.keys)) = Len(g.keys)
      BY <2>1, FS_Interval
    <3> QED
      BY <2>5, <2>6, <3>1, FS_Subset
  <2> QED
    BY <2>1, <2>7 DEF UsablePositions, Usable
<1> QED
  BY <1>1, <1>2, ReviewTypeCorrect, PTL DEF VerdictsAreBacked

-----------------------------------------------------------------------------
(* The loop that stops at the first branch. *)
LEMMA FirstInIsFirst ==
  ASSUME NEW S \in SUBSET Branches
  PROVE  /\ S = {} => FirstIn(S) = -1
         /\ S # {} => FirstIn(S) \in S /\ \A j \in S : FirstIn(S) <= j
<1>1. CASE S = {}
  BY <1>1 DEF FirstIn
<1>2. CASE S # {}
  <2>1. \E i \in S : \A j \in S : i <= j
    <3>1. CASE 0 \in S
      BY <3>1 DEF Branches
    <3>2. CASE 0 \notin S /\ 1 \in S
      BY <3>2 DEF Branches
    <3>3. CASE 0 \notin S /\ 1 \notin S
      <4>1. \A j \in S : j = 2
        BY <3>3 DEF Branches
      <4> QED
        BY <1>2, <4>1
    <3> QED
      BY <3>1, <3>2, <3>3
  <2> QED
    BY <1>2, <2>1 DEF FirstIn
<1> QED
  BY <1>1, <1>2

SatisfiedBranches == {i \in Branches : BranchSatisfied(guards[i], codexPubs, pasted)}
ShortBranches == {i \in Branches : KeyBased(guards[i]) /\ i \notin SatisfiedBranches}

LEMMA FirstBranches ==
  /\ SatisfiedBranches = {} => FirstSatisfied(guards, codexPubs, pasted) = -1
  /\ SatisfiedBranches # {} =>
       /\ FirstSatisfied(guards, codexPubs, pasted) \in SatisfiedBranches
       /\ \A j \in SatisfiedBranches : FirstSatisfied(guards, codexPubs, pasted) <= j
  /\ ShortBranches # {} => FirstSignableButUnsatisfied(guards, codexPubs, pasted) \in ShortBranches
<1>1. FirstSatisfied(guards, codexPubs, pasted) = FirstIn(SatisfiedBranches)
  BY DEF FirstSatisfied, SatisfiedBranches
<1>2. FirstSignableButUnsatisfied(guards, codexPubs, pasted) = FirstIn(ShortBranches)
  <2>1. {i \in Branches : KeyBased(guards[i]) /\ ~BranchSatisfied(guards[i], codexPubs, pasted)}
          = ShortBranches
    BY DEF ShortBranches, SatisfiedBranches
  <2> QED
    BY <2>1, Zenon DEF FirstSignableButUnsatisfied
<1>3. SatisfiedBranches \in SUBSET Branches /\ ShortBranches \in SUBSET Branches
  BY DEF SatisfiedBranches, ShortBranches
<1> QED
  BY <1>1, <1>2, <1>3, FirstInIsFirst

LEMMA CasesOfState == ReviewTypeOK => ExactlyOneCase
<1> SUFFICES ASSUME ReviewTypeOK PROVE ExactlyOneCase
  OBVIOUS
<1>1. CaseA <=> SatisfiedBranches # {}
  BY FirstBranches DEF CaseA, SatisfiedBranches, Branches
<1>2. CaseB <=> SatisfiedBranches = {} /\ AnyKeyBased(guards)
  BY FirstBranches DEF CaseB, SatisfiedBranches, Branches
<1>3. CaseC <=> SatisfiedBranches = {} /\ ~AnyKeyBased(guards) /\ Kinds # {"unknown"}
  BY FirstBranches DEF CaseC, SatisfiedBranches, Branches
<1>4. \A i \in SatisfiedBranches : KeyBased(guards[i])
  BY DEF SatisfiedBranches, BranchSatisfied
<1>5. Kinds = {"unknown"} => ~AnyKeyBased(guards)
  <2>1. Kinds = {"unknown"} => \A i \in Branches : ClassifyGuardKind(guards[i]) = "unknown"
    BY Zenon DEF Kinds
  <2> QED
    BY <2>1 DEF AnyKeyBased, KeyBased
<1>6. SatisfiedBranches # {} => AnyKeyBased(guards)
  BY <1>4 DEF AnyKeyBased, SatisfiedBranches
<1>7. CaseD <=> Kinds = {"unknown"}
  BY DEF CaseD
<1>8. \E name : Cases = {name}
  <2>1. CASE CaseA /\ ~CaseB /\ ~CaseC /\ ~CaseD
    <3>1. Cases = {"A"}
      BY <2>1 DEF Cases
    <3> QED
      BY <3>1
  <2>2. CASE ~CaseA /\ CaseB /\ ~CaseC /\ ~CaseD
    <3>1. Cases = {"B"}
      BY <2>2 DEF Cases
    <3> QED
      BY <3>1
  <2>3. CASE ~CaseA /\ ~CaseB /\ CaseC /\ ~CaseD
    <3>1. Cases = {"C"}
      BY <2>3 DEF Cases
    <3> QED
      BY <3>1
  <2>4. CASE ~CaseA /\ ~CaseB /\ ~CaseC /\ CaseD
    <3>1. Cases = {"D"}
      BY <2>4 DEF Cases
    <3> QED
      BY <3>1
  <2> QED
    BY <1>1, <1>2, <1>3, <1>5, <1>6, <1>7, <2>1, <2>2, <2>3, <2>4
<1>9. Cardinality(Cases) = 1
  BY <1>8, FS_Singleton
<1>10. CaseA => KeyBased(guards[FirstSatisfied(guards, codexPubs, pasted)])
  BY <1>1, <1>4, FirstBranches
<1>11. CaseB =>
         LET prompt == FirstSignableButUnsatisfied(guards, codexPubs, pasted)
         IN prompt \in Branches /\ NeededMore(guards[prompt], codexPubs, pasted) > 0
  <2> SUFFICES ASSUME CaseB
               PROVE  \A i \in ShortBranches : NeededMore(guards[i], codexPubs, pasted) > 0
    <3>1. CaseB => ShortBranches # {}
      BY <1>2 DEF AnyKeyBased, ShortBranches
    <3> QED
      BY <3>1, FirstBranches DEF ShortBranches
  <2> TAKE i \in ShortBranches
  <2>1. i \in Branches /\ guards[i] \in RawKeysets
    BY GuardsAreRawKeysets DEF ShortBranches
  <2>2. ~Satisfied(guards[i], codexPubs, pasted)
    BY <2>1, BranchIsAnalysed DEF ShortBranches, SatisfiedBranches
  <2>3. Signable(guards[i], codexPubs, pasted) \in Nat /\ Threshold(guards[i]) \in Nat
    BY <2>1, SignableCounts, ThresholdOfKeyset DEF RawKeysets
  <2> QED
    BY <2>2, <2>3 DEF Satisfied, NeededMore, Most
<1> QED
  BY <1>9, <1>10, <1>11 DEF ExactlyOneCase

(* The four cases of smartAccountAuth.ts:238-257 exclude one another, one  *)
(* always applies, and in case B there is a branch to prompt for.          *)
THEOREM CasesAreComplete == ReviewSpec => []ExactlyOneCase
  BY CasesOfState, ReviewTypeCorrect, PTL

-----------------------------------------------------------------------------
(* What a key gained changes: no keyset, no kind that had keys, and no     *)
(* position that could sign before.                                        *)
LEMMA KeysAdd ==
  ASSUME ReviewTypeOK, AddsKeys, NEW i \in Branches
  PROVE  /\ guards'[i].keys = guards[i].keys /\ guards'[i].pred = guards[i].pred
         /\ KeyBased(guards[i]) => KeyBased(guards'[i])
         /\ UsablePositions(guards[i], codexPubs, pasted)
              \subseteq UsablePositions(guards[i], codexPubs', pasted')
<1>1. CASE \E j \in Branches : ResolveRef(j)
  <2>1. PICK j \in Branches : ResolveRef(j)
    BY <1>1
  <2> DEFINE resolved == [guards[j] EXCEPT !.shapes = {"keyset"}]
  <2>2. guards' = [guards EXCEPT ![j] = resolved] /\ UNCHANGED <<entries, pasted>>
    BY <2>1 DEF ResolveRef
  <2>3. guards[j] \in RawKeysets
    BY GuardsAreRawKeysets
  <2>4. resolved.keys = guards[j].keys /\ resolved.pred = guards[j].pred
    BY <2>3 DEF RawKeysets
  <2>5. resolved.shapes = {"keyset"}
    BY <2>3 DEF RawKeysets
  <2>6. KeyBased(resolved)
    BY <2>5 DEF KeyBased, ClassifyGuardKind
  <2>7. guards'[i] = IF i = j THEN resolved ELSE guards[i]
    BY <2>2 DEF ReviewTypeOK
  <2>8. UNCHANGED codexPubs
    BY <2>2 DEF codexPubs
  <2> QED
    BY <2>2, <2>4, <2>6, <2>7, <2>8
<1>2. CASE \E k \in Keys, s \in Sources : ImportKey(k, s)
  <2>1. UNCHANGED <<guards, pasted>> /\ \A s \in Sources : entries[s] \subseteq entries'[s]
    BY <1>2 DEF ImportKey, ReviewTypeOK
  <2>2. codexPubs \subseteq codexPubs'
    BY <2>1 DEF codexPubs, BuildCodexPubSet, Sources
  <2> QED
    BY <2>1, <2>2 DEF UsablePositions
<1>3. CASE \E k \in Keys : PasteKey(k)
  <2>1. /\ UNCHANGED <<guards, entries>>
        /\ \A k \in Keys : pasted[k] = "given" => pasted'[k] = "given"
    BY <1>3 DEF PasteKey, ReviewTypeOK
  <2>2. UNCHANGED codexPubs
    BY <2>1 DEF codexPubs
  <2>3. \A p \in DOMAIN guards[i].keys : guards[i].keys[p] \in Keys
    BY GuardsAreRawKeysets DEF RawKeysets
  <2> QED
    BY <2>1, <2>2, <2>3 DEF UsablePositions
<1> QED
  BY <1>1, <1>2, <1>3 DEF AddsKeys

(* What the analysis asks of a guard depends on its keyset alone. *)
LEMMA AnalysisOfKeyset ==
  ASSUME NEW g, NEW h, g.keys = h.keys, g.pred = h.pred, NEW pubs, NEW paste
  PROVE  /\ NeededMore(g, pubs, paste) = NeededMore(h, pubs, paste)
         /\ Satisfied(g, pubs, paste) <=> Satisfied(h, pubs, paste)
<1>1. /\ Threshold(g) = Threshold(h)
      /\ Signable(g, pubs, paste) = Signable(h, pubs, paste)
  BY DEF Threshold, Signable, CodexKeys, ResolvedForeignKeys
<1> QED
  BY <1>1 DEF NeededMore, Satisfied

(* The analysis is monotone in the keys at hand, for any accounts and      *)
(* however keys come (guardUtils.ts:219-222, smartAccountAuth.ts).         *)
THEOREM KeysOnlyHelp == ReviewSpec => MoreKeysNeverHurt
<1>1. ReviewTypeOK /\ ReviewTypeOK' /\ AddsKeys =>
        /\ \A i \in Branches :
             NeededMore(guards[i], codexPubs, pasted)' <= NeededMore(guards[i], codexPubs, pasted)
        /\ LET before == FirstSatisfied(guards, codexPubs, pasted)
               after  == FirstSatisfied(guards, codexPubs, pasted)'
           IN  before >= 0 => after \in 0..before
  <2> SUFFICES ASSUME ReviewTypeOK, ReviewTypeOK', AddsKeys
               PROVE  /\ \A i \in Branches :
                           NeededMore(guards'[i], codexPubs', pasted')
                             <= NeededMore(guards[i], codexPubs, pasted)
                      /\ FirstSatisfied(guards, codexPubs, pasted) >= 0 =>
                           FirstSatisfied(guards', codexPubs', pasted')
                             \in 0..FirstSatisfied(guards, codexPubs, pasted)
    OBVIOUS
  <2>1. ASSUME NEW i \in Branches
        PROVE  /\ NeededMore(guards'[i], codexPubs', pasted')
                     <= NeededMore(guards[i], codexPubs, pasted)
               /\ i \in SatisfiedBranches => i \in SatisfiedBranches'
    <3>1. /\ guards[i] \in RawKeysets /\ guards'[i] \in RawKeysets
          /\ guards[i].keys \in Seq(Keys)
      BY <2>1 DEF ReviewTypeOK, RawKeysets
    <3>2. /\ NeededMore(guards[i], codexPubs', pasted') <= NeededMore(guards[i], codexPubs, pasted)
          /\ Satisfied(guards[i], codexPubs, pasted) => Satisfied(guards[i], codexPubs', pasted')
      BY <2>1, <3>1, KeysAdd, SignableGrows
    <3>3. /\ NeededMore(guards'[i], codexPubs', pasted') = NeededMore(guards[i], codexPubs', pasted')
          /\ Satisfied(guards'[i], codexPubs', pasted') <=> Satisfied(guards[i], codexPubs', pasted')
      BY <2>1, KeysAdd, AnalysisOfKeyset
    <3>4. i \in SatisfiedBranches => KeyBased(guards'[i]) /\ Satisfied(guards'[i], codexPubs', pasted')
      BY <2>1, <3>1, <3>2, <3>3, KeysAdd, BranchIsAnalysed DEF SatisfiedBranches
    <3>5. i \in SatisfiedBranches => BranchSatisfied(guards'[i], codexPubs', pasted')
      BY <3>1, <3>4, BranchIsAnalysed
    <3> QED
      BY <2>1, <3>2, <3>3, <3>5 DEF SatisfiedBranches
  <2> DEFINE before == FirstSatisfied(guards, codexPubs, pasted)
             after  == FirstSatisfied(guards', codexPubs', pasted')
  <2>2. before >= 0 => before \in SatisfiedBranches
    BY FirstBranches
  <2>3. SatisfiedBranches' # {} => after \in SatisfiedBranches' /\ \A j \in SatisfiedBranches' : after <= j
    <3>1. SatisfiedBranches' = {i \in Branches : BranchSatisfied(guards'[i], codexPubs', pasted')}
      BY DEF SatisfiedBranches
    <3>2. after = FirstIn(SatisfiedBranches')
      BY <3>1, Zenon DEF FirstSatisfied
    <3>3. SatisfiedBranches' \in SUBSET Branches
      BY <3>1
    <3> QED
      BY <3>2, <3>3, FirstInIsFirst
  <2>4. SatisfiedBranches \subseteq SatisfiedBranches' /\ SatisfiedBranches' \subseteq Branches
    BY <2>1 DEF SatisfiedBranches
  <2>5. before >= 0 => after \in Branches /\ before \in Branches /\ after <= before
    BY <2>2, <2>3, <2>4
  <2>6. before >= 0 => after \in 0..before
    BY <2>5 DEF Branches
  <2> QED
    BY <2>1, <2>6
<1> QED
  BY <1>1, ReviewTypeCorrect, PTL DEF MoreKeysNeverHurt, ReviewSpec

-----------------------------------------------------------------------------
(* CodexStrategy *)

(* Collect, stage by stage. *)
CollectThrough(f, K, keys) ==
  /\ f \in [0..Len(keys) -> Seq(K)]
  /\ f[0] = << >> /\ Collect(keys) = f[Len(keys)]
  /\ \A n \in 1..Len(keys) : f[n] = IF Contains(f[n-1], keys[n]) THEN f[n-1] ELSE Append(f[n-1], keys[n])

LEMMA CollectStages ==
  ASSUME NEW K, NEW keys \in Seq(K)
  PROVE  \E f : CollectThrough(f, K, keys)
<1> DEFINE S == Seq(K)
           g == [x \in S \X K |-> IF Contains(x[1], x[2]) THEN x[1] ELSE Append(x[1], x[2])]
           Is(iter) == iter = [t \in SUBSET DOMAIN keys |->
             IF t = {} THEN << >>
             ELSE IF Contains(iter[t \ {Greatest(t)}], keys[Greatest(t)])
                  THEN iter[t \ {Greatest(t)}]
                  ELSE Append(iter[t \ {Greatest(t)}], keys[Greatest(t)])]
<1>1. << >> \in S /\ Len(keys) \in Nat /\ DOMAIN keys = 1..Len(keys)
  OBVIOUS
<1>2. /\ g \in [S \X K -> S]
      /\ \A p \in S, k \in K : Step1(g, p, k) = IF Contains(p, k) THEN p ELSE Append(p, k)
  BY DEF Step1
<1>3. ASSUME NEW t \in SUBSET (1..Len(keys)), t # {} PROVE keys[Greatest(t)] \in K
  <2>1. Greatest(t) \in t
    BY <1>1, <1>3, GreatestOf
  <2>2. Greatest(t) \in 1..Len(keys)
    BY <2>1
  <2> HIDE DEF S, g, Is
  <2> QED
    BY <2>2
<1> HIDE DEF g, S
<1>4. PICK any \in [SUBSET DOMAIN keys -> S] : FoldsOver(any, Len(keys), << >>, g, keys)
  BY <1>1, <1>2, FoldExists DEF S
<1>5. Is(any)
  BY <1>1, <1>2, <1>3, <1>4 DEF FoldsOver
<1>6. PICK iter : Is(iter) /\ Collect(keys) = iter[DOMAIN keys]
  <2>1. Collect(keys) = (CHOOSE iter : Is(iter))[DOMAIN keys]
    BY Zenon DEF Collect, FoldLeft, MapThenFoldSet, Max, Greatest
  <2> QED
    BY <1>5, <2>1
<1>7. iter[{}] = << >>
  BY <1>6
<1>8. FoldsLike(iter, Len(keys), S, g, keys)
  <2>1. ASSUME NEW t \in SUBSET (1..Len(keys)), t # {}, iter[t \ {Greatest(t)}] \in S
        PROVE  iter[t] = Step1(g, iter[t \ {Greatest(t)}], keys[Greatest(t)])
    <3>1. keys[Greatest(t)] \in K
      BY <1>3, <2>1
    <3> DEFINE p == iter[t \ {Greatest(t)}]
               k == keys[Greatest(t)]
    <3>2. iter[t] = IF Contains(p, k) THEN p ELSE Append(p, k)
      BY <1>1, <1>6, <2>1
    <3>3. p \in S /\ k \in K
      BY <2>1, <3>1
    <3> HIDE DEF p, k
    <3>4. Step1(g, p, k) = IF Contains(p, k) THEN p ELSE Append(p, k)
      BY <1>2, <3>3
    <3> QED
      BY <3>2, <3>4 DEF p, k
  <2> QED
    BY <2>1 DEF FoldsLike
<1> HIDE DEF Is
<1>9. PICK f : StagesOf(f, << >>, S, g, keys) /\ iter[DOMAIN keys] = f[Len(keys)]
  <2> DEFINE b == << >>
  <2>1. b \in S /\ g \in [S \X K -> S] /\ iter[{}] = b
    BY <1>1, <1>2, <1>7
  <2> HIDE DEF b
  <2>2. Staged(iter, b, S, g, keys)
    BY <1>8, <2>1, FoldStages
  <2> QED
    BY <2>2 DEF b, Staged
<1>10. ASSUME NEW n \in 1..Len(keys)
       PROVE  f[n] = IF Contains(f[n-1], keys[n]) THEN f[n-1] ELSE Append(f[n-1], keys[n])
  <2>1. n - 1 \in 0..Len(keys) /\ keys[n] \in K
    BY <1>1
  <2> QED
    BY <1>2, <1>9, <2>1 DEF StagesOf
<1> QED
  BY <1>6, <1>9, <1>10 DEF StagesOf, S, CollectThrough
(* Among, stage by stage. *)
AmongThrough(f, K, keys, some) ==
  /\ f \in [0..Len(keys) -> Seq(K)]
  /\ f[0] = << >> /\ Among(keys, some) = f[Len(keys)]
  /\ \A n \in 1..Len(keys) : f[n] = IF keys[n] \in some THEN Append(f[n-1], keys[n]) ELSE f[n-1]

LEMMA AmongStages ==
  ASSUME NEW K, NEW keys \in Seq(K), NEW some
  PROVE  \E f : AmongThrough(f, K, keys, some)
<1> DEFINE S == Seq(K)
           g == [x \in S \X K |-> IF x[2] \in some THEN Append(x[1], x[2]) ELSE x[1]]
           Is(iter) == iter = [t \in SUBSET DOMAIN keys |->
             IF t = {} THEN << >>
             ELSE IF keys[Greatest(t)] \in some
                  THEN Append(iter[t \ {Greatest(t)}], keys[Greatest(t)])
                  ELSE iter[t \ {Greatest(t)}]]
<1>1. << >> \in S /\ Len(keys) \in Nat /\ DOMAIN keys = 1..Len(keys)
  OBVIOUS
<1>2. /\ g \in [S \X K -> S]
      /\ \A p \in S, k \in K : Step1(g, p, k) = IF k \in some THEN Append(p, k) ELSE p
  BY DEF Step1
<1>3. ASSUME NEW t \in SUBSET (1..Len(keys)), t # {} PROVE keys[Greatest(t)] \in K
  <2>1. Greatest(t) \in t
    BY <1>1, <1>3, GreatestOf
  <2>2. Greatest(t) \in 1..Len(keys)
    BY <2>1
  <2> HIDE DEF S, g, Is
  <2> QED
    BY <2>2
<1> HIDE DEF g, S
<1>4. PICK any \in [SUBSET DOMAIN keys -> S] : FoldsOver(any, Len(keys), << >>, g, keys)
  BY <1>1, <1>2, FoldExists DEF S
<1>5. Is(any)
  BY <1>1, <1>2, <1>3, <1>4 DEF FoldsOver
<1>6. PICK iter : Is(iter) /\ Among(keys, some) = iter[DOMAIN keys]
  <2>1. Among(keys, some) = (CHOOSE iter : Is(iter))[DOMAIN keys]
    BY Zenon DEF Among, FoldLeft, MapThenFoldSet, Max, Greatest
  <2> QED
    BY <1>5, <2>1
<1>7. iter[{}] = << >>
  BY <1>6
<1>8. FoldsLike(iter, Len(keys), S, g, keys)
  <2>1. ASSUME NEW t \in SUBSET (1..Len(keys)), t # {}, iter[t \ {Greatest(t)}] \in S
        PROVE  iter[t] = Step1(g, iter[t \ {Greatest(t)}], keys[Greatest(t)])
    <3>1. keys[Greatest(t)] \in K
      BY <1>3, <2>1
    <3> DEFINE p == iter[t \ {Greatest(t)}]
               k == keys[Greatest(t)]
    <3>2. iter[t] = IF k \in some THEN Append(p, k) ELSE p
      BY <1>1, <1>6, <2>1
    <3>3. p \in S /\ k \in K
      BY <2>1, <3>1
    <3> HIDE DEF p, k
    <3>4. Step1(g, p, k) = IF k \in some THEN Append(p, k) ELSE p
      BY <1>2, <3>3
    <3> QED
      BY <3>2, <3>4 DEF p, k
  <2> QED
    BY <2>1 DEF FoldsLike
<1> HIDE DEF Is
<1>9. PICK f : StagesOf(f, << >>, S, g, keys) /\ iter[DOMAIN keys] = f[Len(keys)]
  <2> DEFINE b == << >>
  <2>1. b \in S /\ g \in [S \X K -> S] /\ iter[{}] = b
    BY <1>1, <1>2, <1>7
  <2> HIDE DEF b
  <2>2. Staged(iter, b, S, g, keys)
    BY <1>8, <2>1, FoldStages
  <2> QED
    BY <2>2 DEF b, Staged
<1>10. ASSUME NEW n \in 1..Len(keys)
       PROVE  f[n] = IF keys[n] \in some THEN Append(f[n-1], keys[n]) ELSE f[n-1]
  <2>1. n - 1 \in 0..Len(keys) /\ keys[n] \in K
    BY <1>1
  <2> QED
    BY <1>2, <1>9, <2>1 DEF StagesOf
<1> QED
  BY <1>6, <1>9, <1>10 DEF StagesOf, S, AmongThrough

LEMMA CollectIs ==
  ASSUME NEW K, NEW keys \in Seq(K)
  PROVE  /\ Collect(keys) \in Seq(K) /\ Distinct(Collect(keys))
         /\ ToSet(Collect(keys)) = ToSet(keys)
<1> DEFINE N == Len(keys)
<1>0. N \in Nat /\ DOMAIN keys = 1..N /\ \A n \in 1..N : keys[n] \in K
  OBVIOUS
<1>b. PICK f : CollectThrough(f, K, keys)
  BY CollectStages
<1>1. /\ f \in [0..N -> Seq(K)] /\ f[0] = << >> /\ Collect(keys) = f[N]
      /\ \A n \in 1..N : f[n] = IF Contains(f[n-1], keys[n]) THEN f[n-1] ELSE Append(f[n-1], keys[n])
  BY <1>b DEF CollectThrough
<1>a. N \in 0..N /\ N \in Nat
  BY <1>0
<1> HIDE DEF N
<1> DEFINE T == {n \in 0..N : Distinct(f[n]) /\ ToSet(f[n]) = First(keys, n)}
<1>2. 0 \in T
  BY <1>0, <1>1 DEF Distinct, ToSet, First
<1>3. ASSUME NEW n \in 0..N, n < N, n \in T PROVE n + 1 \in T
  <2>1. n + 1 \in 1..N /\ (n + 1) - 1 = n /\ n + 1 \in 0..N /\ n \in Nat
    BY <1>a, <1>3
  <2>2. /\ f[n] \in Seq(K) /\ keys[n+1] \in K
        /\ Distinct(f[n]) /\ ToSet(f[n]) = First(keys, n)
    BY <1>0, <1>1, <1>3, <2>1
  <2> HIDE DEF T
  <2>3. f[n+1] = IF keys[n+1] \in ToSet(f[n]) THEN f[n] ELSE Append(f[n], keys[n+1])
    <3>1. f[n+1] = IF Contains(f[n], keys[n+1]) THEN f[n] ELSE Append(f[n], keys[n+1])
      BY <1>1, <2>1
    <3>2. Contains(f[n], keys[n+1]) <=> keys[n+1] \in ToSet(f[n])
      BY <2>2 DEF Contains, ToSet
    <3> QED
      BY <3>1, <3>2
  <2>4. First(keys, n + 1) = First(keys, n) \cup {keys[n+1]}
    BY <2>1, FirstGrows
  <2> DEFINE p == f[n]
             k == keys[n+1]
  <2>5. p \in Seq(K) /\ k \in K /\ Distinct(p) /\ ToSet(p) = First(keys, n)
    BY <2>2
  <2>6. f[n+1] = IF k \in ToSet(p) THEN p ELSE Append(p, k)
    BY <2>3
  <2>7. First(keys, n + 1) = ToSet(p) \cup {k}
    BY <2>4, <2>5
  <2> HIDE DEF p, k
  <2>8. Distinct(f[n+1]) /\ ToSet(f[n+1]) = First(keys, n + 1)
    <3>1. CASE k \in ToSet(p)
      BY <2>5, <2>6, <2>7, <3>1
    <3>2. CASE k \notin ToSet(p)
      <4>1. Distinct(Append(p, k))
        BY <2>5, <3>2, AppendDistinct
      <4>2. ToSet(Append(p, k)) = ToSet(p) \cup {k}
        BY <2>5, AppendHolds
      <4> QED
        BY <2>6, <2>7, <3>2, <4>1, <4>2
    <3> QED
      BY <3>1, <3>2
  <2> QED
    BY <2>1, <2>8 DEF T
<1> HIDE DEF T
<1>4. 0..N \subseteq T
  BY <1>a, <1>2, <1>3, BoundedInduction
<1>5. Distinct(f[N]) /\ ToSet(f[N]) = First(keys, N)
  BY <1>a, <1>4 DEF T
<1>6. First(keys, N) = ToSet(keys)
  BY <1>0 DEF First, ToSet
<1>7. f[N] \in Seq(K)
  BY <1>1, <1>a
<1> QED
  BY <1>1, <1>5, <1>6, <1>7

LEMMA AmongIs ==
  ASSUME NEW K, NEW keys \in Seq(K), NEW some
  PROVE  /\ Among(keys, some) \in Seq(K)
         /\ ToSet(Among(keys, some)) = ToSet(keys) \cap some
         /\ Distinct(keys) => Distinct(Among(keys, some))
<1> DEFINE N == Len(keys)
<1>0. N \in Nat /\ DOMAIN keys = 1..N /\ \A n \in 1..N : keys[n] \in K
  OBVIOUS
<1>b. PICK f : AmongThrough(f, K, keys, some)
  BY AmongStages
<1>1. /\ f \in [0..N -> Seq(K)] /\ f[0] = << >> /\ Among(keys, some) = f[N]
      /\ \A n \in 1..N : f[n] = IF keys[n] \in some THEN Append(f[n-1], keys[n]) ELSE f[n-1]
  BY <1>b DEF AmongThrough
<1>a. N \in 0..N /\ N \in Nat
  BY <1>0
<1> HIDE DEF N
<1> DEFINE T == {n \in 0..N : /\ Distinct(keys) => Distinct(f[n])
                              /\ ToSet(f[n]) = First(keys, n) \cap some}
<1>2. 0 \in T
  BY <1>0, <1>1 DEF Distinct, ToSet, First
<1>3. ASSUME NEW n \in 0..N, n < N, n \in T PROVE n + 1 \in T
  <2>1. n + 1 \in 1..N /\ (n + 1) - 1 = n /\ n + 1 \in 0..N /\ n \in Nat
    BY <1>a, <1>3
  <2>2. /\ f[n] \in Seq(K) /\ keys[n+1] \in K
        /\ Distinct(keys) => Distinct(f[n])
        /\ ToSet(f[n]) = First(keys, n) \cap some
    BY <1>0, <1>1, <1>3, <2>1
  <2> HIDE DEF T
  <2>4. First(keys, n + 1) = First(keys, n) \cup {keys[n+1]}
    BY <2>1, FirstGrows
  <2>9. Distinct(keys) => keys[n+1] \notin First(keys, n)
    <3>1. \A i \in 1..n : i \in 1..N /\ i # n + 1
      BY <1>a, <2>1
    <3> QED
      BY <1>0, <2>1, <3>1 DEF Distinct, First
  <2> DEFINE p == f[n]
             k == keys[n+1]
  <2>5. p \in Seq(K) /\ k \in K /\ (Distinct(keys) => Distinct(p))
    BY <2>2
  <2>6. f[n+1] = IF k \in some THEN Append(p, k) ELSE p
    BY <1>1, <2>1
  <2>7. First(keys, n + 1) = First(keys, n) \cup {k} /\ (Distinct(keys) => k \notin First(keys, n))
        /\ ToSet(p) = First(keys, n) \cap some
    BY <2>2, <2>4, <2>9
  <2> HIDE DEF p, k
  <2>8. (Distinct(keys) => Distinct(f[n+1])) /\ ToSet(f[n+1]) = First(keys, n + 1) \cap some
    <3>1. CASE k \notin some
      BY <2>5, <2>6, <2>7, <3>1
    <3>2. CASE k \in some
      <4>1. Distinct(keys) => Distinct(Append(p, k))
        BY <2>5, <2>7, AppendDistinct
      <4>2. ToSet(Append(p, k)) = ToSet(p) \cup {k}
        BY <2>5, AppendHolds
      <4> QED
        BY <2>6, <2>7, <3>2, <4>1, <4>2
    <3> QED
      BY <3>1, <3>2
  <2> QED
    BY <2>1, <2>8 DEF T
<1> HIDE DEF T
<1>4. 0..N \subseteq T
  BY <1>a, <1>2, <1>3, BoundedInduction
<1>5. (Distinct(keys) => Distinct(f[N])) /\ ToSet(f[N]) = First(keys, N) \cap some
  BY <1>a, <1>4 DEF T
<1>6. First(keys, N) = ToSet(keys)
  BY <1>0 DEF First, ToSet
<1>7. f[N] \in Seq(K)
  BY <1>1, <1>a
<1> QED
  BY <1>1, <1>5, <1>6, <1>7

-----------------------------------------------------------------------------
Keysets == [pred : STRING, keys : Seq(Keys), ref : STRING]

LEMMA ThresholdIsNat ==
  ASSUME NEW g \in Keysets
  PROVE  Threshold(g) \in Nat
<1>1. g.keys \in Seq(Keys) /\ Len(g.keys) \in Nat
  BY DEF Keysets
<1> QED
  BY <1>1, ThresholdOfKeyset

(* What analyzeGuard finds signable of a guard, in execute's order. *)
Available(g, pubs, paste) ==
  Among(g.keys, pubs) \o Among(g.keys, {k \in Keys \ pubs : paste[k] = "given"})

LEMMA AvailableIs ==
  ASSUME NEW g \in Keysets, NEW pubs \in SUBSET Keys, NEW paste
  PROVE  /\ Available(g, pubs, paste) \in Seq(Keys)
         /\ ToSet(Available(g, pubs, paste)) = {g.keys[i] : i \in UsablePositions(g, pubs, paste)}
         /\ Distinct(g.keys) => Distinct(Available(g, pubs, paste))
<1> DEFINE keys == g.keys
           given == {k \in Keys \ pubs : paste[k] = "given"}
           p == Among(keys, pubs)
           q == Among(keys, given)
<1>0. keys \in Seq(Keys) /\ ToSet(keys) = {keys[i] : i \in DOMAIN keys}
      /\ \A i \in DOMAIN keys : keys[i] \in Keys
  BY DEF Keysets, ToSet
<1>a. pubs \cap given = {} /\ \A k \in Keys : k \in pubs \/ k \in given <=> k \in pubs \/ paste[k] = "given"
  OBVIOUS
<1>b. {keys[i] : i \in UsablePositions(g, pubs, paste)} = ToSet(keys) \cap (pubs \cup given)
  <2> HIDE DEF given
  <2>1. UsablePositions(g, pubs, paste) = {i \in DOMAIN keys : keys[i] \in pubs \/ keys[i] \in given}
    BY <1>0, <1>a DEF UsablePositions
  <2> HIDE DEF keys
  <2> QED
    BY <1>0, <2>1
<1> HIDE DEF given
<1>1. p \in Seq(Keys) /\ ToSet(p) = ToSet(keys) \cap pubs /\ (Distinct(keys) => Distinct(p))
  <2> HIDE DEF keys
  <2> QED
    BY <1>0, AmongIs
<1>2. q \in Seq(Keys) /\ ToSet(q) = ToSet(keys) \cap given /\ (Distinct(keys) => Distinct(q))
  <2> HIDE DEF keys
  <2> QED
    BY <1>0, AmongIs
<1>3. Available(g, pubs, paste) = p \o q
  BY DEF Available, given
<1> HIDE DEF p, q, keys
<1>4. p \o q \in Seq(Keys)
  BY <1>1, <1>2
<1>5. ToSet(p \o q) = ToSet(p) \cup ToSet(q)
  BY <1>1, <1>2, ConcatHolds
<1>6. Distinct(keys) => Distinct(p \o q)
  BY <1>1, <1>2, <1>a, ConcatDistinct
<1>7. ToSet(p \o q) = ToSet(keys) \cap (pubs \cup given)
  BY <1>1, <1>2, <1>5
<1> QED
  BY <1>3, <1>4, <1>6, <1>7, <1>b DEF keys

(* The keys execute takes of one guard: of a guard that lists no key       *)
(* twice and is satisfied, as many different keys as its threshold asks.   *)
LEMMA NeededIs ==
  ASSUME NEW g \in Keysets, NEW pubs \in SUBSET Keys, NEW paste
  PROVE  /\ Needed(g, pubs, paste) \in Seq(Keys)
         /\ ToSet(Needed(g, pubs, paste)) \subseteq KeysOf(g)
         /\ Distinct(g.keys) /\ Satisfied(g, pubs, paste) =>
              /\ IsFiniteSet(ToSet(Needed(g, pubs, paste)))
              /\ Cardinality(ToSet(Needed(g, pubs, paste))) = Threshold(g)
<1> DEFINE s == Available(g, pubs, paste)
           m == Least(Threshold(g), Len(s))
           P == UsablePositions(g, pubs, paste)
<1>1. /\ s \in Seq(Keys) /\ ToSet(s) = {g.keys[i] : i \in P}
      /\ Distinct(g.keys) => Distinct(s)
  BY AvailableIs
<1>2. Needed(g, pubs, paste) = SubSeq(s, 1, m)
  BY Zenon DEF Needed, Available
<1>0. P \subseteq DOMAIN g.keys /\ KeysOf(g) = {g.keys[i] : i \in DOMAIN g.keys}
  BY DEF UsablePositions, KeysOf
<1>3. Satisfied(g, pubs, paste) => Cardinality(P) >= Threshold(g)
  <2>1. CodexKeys(g, pubs) \cup ResolvedForeignKeys(g, pubs, paste) = P
    BY DEF CodexKeys, ResolvedForeignKeys, UsablePositions
  <2> QED
    BY <2>1 DEF Satisfied, Signable
<1> HIDE DEF s, P
<1>4. m \in 0..Len(s)
  <2>1. Len(s) \in Nat /\ Threshold(g) \in Nat
    BY <1>1, ThresholdIsNat
  <2> QED
    BY <2>1 DEF Least
<1>5. ToSet(s) \subseteq KeysOf(g)
  BY <1>0, <1>1
<1>6. ASSUME Distinct(g.keys), Satisfied(g, pubs, paste)
      PROVE  m = Threshold(g)
  <2>1. IsFiniteSet(P)
    <3> DEFINE n == Len(g.keys)
    <3>1. n \in Nat /\ DOMAIN g.keys = 1..n
      BY DEF Keysets
    <3> HIDE DEF n
    <3>2. IsFiniteSet(1..n)
      BY <3>1, FS_Interval
    <3> QED
      BY <1>0, <3>1, <3>2, FS_Subset
  <2> DEFINE ks == g.keys
  <2>2. \A i, j \in P : ks[i] = ks[j] => i = j
    BY <1>0, <1>6 DEF Distinct
  <2>3. ToSet(s) = {ks[i] : i \in P}
    BY <1>1
  <2> HIDE DEF ks
  <2>4. Cardinality(ToSet(s)) = Cardinality(P)
    BY <2>1, <2>2, <2>3, ImageCount
  <2>5. Cardinality(ToSet(s)) = Len(s)
    BY <1>1, <1>6, DistinctCount
  <2>6. Len(s) >= Threshold(g) /\ Len(s) \in Nat /\ Threshold(g) \in Nat
    BY <1>1, <1>3, <1>6, <2>4, <2>5, ThresholdIsNat
  <2> QED
    BY <2>6 DEF Least
<1> HIDE DEF m
<1> DEFINE t == SubSeq(s, 1, m)
<1>7. /\ t \in Seq(Keys) /\ Len(t) = m
      /\ ToSet(t) \subseteq ToSet(s)
      /\ Distinct(s) => Distinct(t)
  BY <1>1, <1>4, PrefixIs
<1> HIDE DEF t
<1>8. Distinct(t) => IsFiniteSet(ToSet(t)) /\ Cardinality(ToSet(t)) = m
  BY <1>7, DistinctCount
<1> QED
  BY <1>1, <1>2, <1>5, <1>6, <1>7, <1>8 DEF t

(* All of them, each once. *)
LEMMA GuardSignersAre ==
  ASSUME NEW job \in JobRecords, NEW pubs \in SUBSET Keys
  PROVE  /\ GuardSigners(job, pubs) \in Seq(Keys)
         /\ Distinct(GuardSigners(job, pubs))
         /\ \A g \in Guards(job) :
              ToSet(Needed(g, pubs, job.pasted)) \subseteq ToSet(GuardSigners(job, pubs))
<1> DEFINE need == [i \in DOMAIN job.guards |-> Needed(job.guards[i], pubs, job.pasted)]
           n == Len(job.guards)
<1>1. n \in Nat /\ DOMAIN job.guards = 1..n /\ \A i \in 1..n : job.guards[i] \in Keysets
  <2> DEFINE listed == job.guards
  <2>1. listed \in Seq(Keysets)
    BY DEF JobRecords, Keysets
  <2> HIDE DEF listed
  <2>2. Len(listed) \in Nat /\ DOMAIN listed = 1..Len(listed)
        /\ \A i \in 1..Len(listed) : listed[i] \in Keysets
    BY <2>1
  <2> QED
    BY <2>2 DEF listed
<1>2. \A i \in 1..n : Needed(job.guards[i], pubs, job.pasted) \in Seq(Keys)
  BY <1>1, NeededIs
<1>3. need \in Seq(Seq(Keys)) /\ DOMAIN need = 1..n
      /\ \A i \in 1..n : need[i] = Needed(job.guards[i], pubs, job.pasted)
  BY <1>1, <1>2
<1>4. GuardSigners(job, pubs) = Collect(FlattenSeq(need))
  BY Zenon DEF GuardSigners
<1> HIDE DEF need
<1>5. /\ FlattenSeq(need) \in Seq(Keys)
      /\ ToSet(FlattenSeq(need)) = UNION {ToSet(need[i]) : i \in DOMAIN need}
  BY <1>3, FlattenSeqHolds
<1>6. /\ GuardSigners(job, pubs) \in Seq(Keys) /\ Distinct(GuardSigners(job, pubs))
      /\ ToSet(GuardSigners(job, pubs)) = ToSet(FlattenSeq(need))
  BY <1>4, <1>5, CollectIs
<1>7. ASSUME NEW g \in Guards(job)
      PROVE  ToSet(Needed(g, pubs, job.pasted)) \subseteq ToSet(GuardSigners(job, pubs))
  <2>1. PICK i \in 1..n : g = job.guards[i]
    BY <1>1 DEF Guards
  <2>2. need[i] = Needed(g, pubs, job.pasted)
    BY <1>3, <2>1
  <2>3. ToSet(need[i]) \subseteq ToSet(FlattenSeq(need))
    BY <1>3, <1>5
  <2> QED
    BY <1>6, <2>2, <2>3
<1> QED
  BY <1>6, <1>7

-----------------------------------------------------------------------------

(* An execution has these fields. *)
IsRun(r) ==
  DOMAIN r = {"phase", "error", "job", "codexPubs", "left", "guardPubs", "asked",
              "capsKey", "sim", "tx", "sigs", "root"}

RunsAreRecords ==
  /\ runs = [e \in Executions |-> runs[e]]
  /\ \A e \in Executions : IsRun(runs[e])

(* The caps key is chosen once the guard keys are complete, and none of    *)
(* them.                                                                   *)
CapsKeyComesLast(e) ==
  /\ runs[e].phase \in {"idle", "listing", "guardKeys"} => runs[e].capsKey = NoKey
  /\ runs[e].capsKey # NoKey => runs[e].capsKey \notin ToSet(runs[e].guardPubs)

(* While the simulation is out, it is of the keys at hand, and priced at   *)
(* its own time.                                                           *)
SimulatesWhatIsHeld(e) ==
  In(e, "simulating") =>
    /\ runs[e].sim.signers =
         {runs[e].capsKey} \cup ToSet(runs[e].guardPubs) \cup runs[e].job.wired
    /\ runs[e].sim.gasPrice = MinGasPriceAnu(runs[e].sim.creationTime)

(* From signing on, the transaction is as the simulation was. *)
SignsWhatWasSimulated(e) ==
  runs[e].phase \in {"signing", "submitting"} \/ Submitted(e) =>
    /\ GuardsMet(runs[e].job, runs[e].tx.signers)
    /\ runs[e].tx.gasPrice = MinGasPriceAnu(runs[e].tx.creationTime)

(* Only submit puts a transaction on the wire, and an execution rejected   *)
(* afterwards carries one of submit's errors.                              *)
WireFollowsSubmit(e) ==
  Submitted(e) =>
    /\ runs[e].phase \in {"submitting", "resolved", "rejected"}
    /\ In(e, "rejected") => runs[e].error \in {"submit", "TIMEOUT"}

(* What the resolver was asked for so far is all different, because it is  *)
(* among the keys at hand: the guard signers collected, of which those     *)
(* still left make up the rest, then the caps key, then the signatures.    *)
Collected == {"guardKeys", "capsKey", "simulating", "signing", "submitting", "resolved"}

Prompts(r) ==
  /\ r.guardPubs \in Seq(Keys) /\ r.left \in Seq(Keys)
  /\ r.asked \in Seq(Keys) /\ Distinct(r.asked)
  /\ r.phase \in {"idle", "listing"} => r.guardPubs = <<>> /\ r.left = <<>> /\ r.asked = <<>>
  /\ r.phase \in Collected => r.guardPubs \o r.left = GuardSigners(r.job, r.codexPubs)
  /\ r.phase \in Collected \ {"guardKeys"} => r.left = <<>>
  /\ r.phase = "guardKeys" => ToSet(r.asked) \subseteq ToSet(r.guardPubs)
  /\ r.phase \in {"capsKey", "simulating"} =>
       r.capsKey \in Keys /\ ToSet(r.asked) \subseteq {r.capsKey} \cup ToSet(r.guardPubs)
  /\ r.phase = "signing" => ToSet(r.asked) \subseteq r.sigs /\ r.tx.signers \subseteq Keys

RunTypeOK(e) ==
  /\ runs[e].phase \in Phases /\ runs[e].error \in Errors
  /\ (runs[e].error # "none") <=> In(e, "rejected")
  /\ runs[e].job \in Jobs
  /\ runs[e].codexPubs \subseteq Keys
  /\ runs[e].capsKey \in Keys \cup {NoKey}
  /\ In(e, "capsKey") => runs[e].capsKey # NoKey
  /\ runs[e].root \in Executions

RunInv(e) ==
  /\ RunTypeOK(e)
  /\ CapsKeyComesLast(e)
  /\ SimulatesWhatIsHeld(e)
  /\ SignsWhatWasSimulated(e)
  /\ WireFollowsSubmit(e)
  /\ Prompts(runs[e])

Frame ==
  /\ codex \in Codexes
  /\ clock \in 0..MaxClock
  /\ wire \in [Executions -> {"none", "sent", "accepted", "refused", "lost", "landed"}]
  /\ RunsAreRecords

RInv == Frame /\ \A e \in Executions : RunInv(e)

-----------------------------------------------------------------------------
(* A step of one execution leaves the others, and what an execution is     *)
(* rejected with does not matter to any part but its type.                 *)

(* What a step may do to one run: it becomes r, the others stay. *)
Becomes(e, r) == runs' = [runs EXCEPT ![e] = r]

LEMMA OneRunChanges ==
  ASSUME RunsAreRecords, NEW e \in Executions, NEW r, IsRun(r), Becomes(e, r)
  PROVE  /\ RunsAreRecords'
         /\ runs'[e] = r
         /\ \A f \in Executions \ {e} : runs'[f] = runs[f]
<1>1. runs' = [f \in Executions |-> IF f = e THEN r ELSE runs[f]]
  BY DEF RunsAreRecords, Becomes
<1>2. runs'[e] = r /\ \A f \in Executions \ {e} : runs'[f] = runs[f]
  BY <1>1
<1>3. \A f \in Executions : IsRun(runs'[f])
  <2> SUFFICES ASSUME NEW f \in Executions PROVE IsRun(runs'[f])
    OBVIOUS
  <2>1. CASE f = e
    BY <2>1, <1>2
  <2>2. CASE f # e
    BY <2>2, <1>2 DEF RunsAreRecords
  <2> QED
    BY <2>1, <2>2
<1>4. runs' = [f \in Executions |-> runs'[f]]
  BY <1>1, <1>2
<1> QED
  BY <1>2, <1>3, <1>4 DEF RunsAreRecords

(* Reject and the record it makes. *)
Rejected(r, error) == [r EXCEPT !.phase = "rejected", !.error = error]

LEMMA RejectIs ==
  ASSUME RunsAreRecords, NEW e \in Executions, NEW error, Reject(e, error)
  PROVE  Becomes(e, Rejected(runs[e], error)) /\ IsRun(Rejected(runs[e], error))
<1>1. IsRun(runs[e])
  BY DEF RunsAreRecords
<1>2. Becomes(e, Rejected(runs[e], error))
  BY DEF RunsAreRecords, Becomes, Reject, Rejected
<1>3. IsRun(Rejected(runs[e], error))
  BY <1>1 DEF IsRun, Rejected
<1> QED
  BY <1>2, <1>3

(* To keep the invariant it is enough to keep it of the run that changed. *)
LEMMA OneRunSuffices ==
  ASSUME RInv, NEW e \in Executions, NEW r, IsRun(r), Becomes(e, r),
         UNCHANGED <<codex, clock, wire>>, RunInv(e)'
  PROVE  RInv'
<1>1. /\ RunsAreRecords'
      /\ \A f \in Executions \ {e} : runs'[f] = runs[f]
  BY OneRunChanges DEF RInv, Frame
<1>2. ASSUME NEW f \in Executions \ {e} PROVE RunInv(f)'
  <2>1. RunInv(f) /\ runs'[f] = runs[f] /\ wire' = wire
    BY <1>1 DEF RInv
  <2> QED
    BY <2>1 DEF RunInv, RunTypeOK, CapsKeyComesLast, SimulatesWhatIsHeld,
               SignsWhatWasSimulated, WireFollowsSubmit, In, Submitted
<1> QED
  BY <1>1, <1>2 DEF RInv, Frame

(* A step of e that rejects it, or takes it on; the rest stays. *)
Moves(e) ==
  /\ \A f \in Executions \ {e} : runs'[f] = runs[f] /\ wire'[f] = wire[f]
  /\ runs'[e].root = runs[e].root
  /\ ~In(e, "rejected")
  /\ In(e, "idle") => runs[e].root = e
  /\ ~In(e, "idle")'

LEMMA RejectKeeps ==
  ASSUME RInv, NEW e \in Executions, NEW error \in Errors \ {"none"},
         ~Submitted(e) \/ error \in {"submit", "TIMEOUT"},
         ~In(e, "idle"), ~In(e, "rejected"),
         Reject(e, error), UNCHANGED <<codex, clock, wire>>
  PROVE  RInv' /\ Moves(e)
<1> DEFINE r == Rejected(runs[e], error)
<1>1. Becomes(e, r) /\ IsRun(r) /\ IsRun(runs[e])
  BY RejectIs DEF RInv, Frame, RunsAreRecords
<1>2. runs'[e] = r /\ \A f \in Executions \ {e} : runs'[f] = runs[f]
  BY <1>1, OneRunChanges DEF RInv, Frame
<1>3. /\ r.phase = "rejected" /\ r.error = error
      /\ r.job = runs[e].job /\ r.codexPubs = runs[e].codexPubs
      /\ r.guardPubs = runs[e].guardPubs /\ r.capsKey = runs[e].capsKey
      /\ r.tx = runs[e].tx /\ r.root = runs[e].root
      /\ r.left = runs[e].left /\ r.asked = runs[e].asked
  BY <1>1 DEF IsRun, Rejected
<1> HIDE DEF r
<1>4. RunInv(e)'
  <2>1. RunInv(e)
    BY DEF RInv
  <2>2. RunTypeOK(e)'
    BY <1>2, <1>3, <2>1 DEF RunInv, RunTypeOK, In, Phases
  <2>3. CapsKeyComesLast(e)' /\ SimulatesWhatIsHeld(e)'
    BY <1>2, <1>3, <2>1 DEF RunInv, CapsKeyComesLast, SimulatesWhatIsHeld, In
  <2>4. SignsWhatWasSimulated(e)'
    BY <1>2, <1>3, <2>1 DEF RunInv, SignsWhatWasSimulated, Submitted
  <2>5. WireFollowsSubmit(e)'
    BY <1>2, <1>3, <2>1 DEF RunInv, WireFollowsSubmit, Submitted, In
  <2>6. Prompts(r)
    BY <1>3, <2>1 DEF RunInv, Prompts, Collected
  <2> QED
    BY <1>2, <2>2, <2>3, <2>4, <2>5, <2>6 DEF RunInv
<1>5. RInv'
  BY <1>1, <1>4, OneRunSuffices
<1> QED
  BY <1>2, <1>3, <1>5 DEF Moves, In

(* Before anything was submitted. *)
LEMMA NothingSubmittedBefore ==
  ASSUME RInv, NEW e \in Executions,
         runs[e].phase \in {"idle", "listing", "guardKeys", "capsKey", "simulating", "signing"}
  PROVE  ~Submitted(e)
  BY DEF RInv, RunInv, WireFollowsSubmit

(* The steps that end in a rejection. *)
LEMMA RejectionsKeep ==
  ASSUME RInv, NEW e \in Executions,
         \/ RejectSmartAccount(e) \/ RejectForeignKey(e) \/ GuardKeyMissing(e)
         \/ CapsKeyMissing(e) \/ BuildFails(e) \/ SimulationFails(e)
         \/ SimulationErrors(e) \/ ForeignKeyRefused(e) \/ SigningFails(e)
         \/ SubmitErrors(e) \/ SubmitTimesOut(e)
  PROVE  RInv' /\ Moves(e)
<1>1. PICK error \in Errors \ {"none"} :
        Reject(e, error) /\ (In(e, "submitting") => error \in {"submit", "TIMEOUT"})
  BY DEF RejectSmartAccount, RejectForeignKey, GuardKeyMissing, CapsKeyMissing, BuildFails,
         SimulationFails, SimulationErrors, ForeignKeyRefused, SigningFails, SubmitErrors,
         SubmitTimesOut, Errors, In
<1>2. /\ runs[e].phase \in {"listing", "guardKeys", "capsKey", "simulating", "signing",
                             "submitting"}
      /\ UNCHANGED <<codex, clock, wire>>
  BY DEF RejectSmartAccount, RejectForeignKey, GuardKeyMissing, CapsKeyMissing, BuildFails,
         SimulationFails, SimulationErrors, ForeignKeyRefused, SigningFails, SubmitErrors,
         SubmitTimesOut, In
<1>3. ~Submitted(e) \/ error \in {"submit", "TIMEOUT"}
  BY <1>1, <1>2, NothingSubmittedBefore DEF In
<1> QED
  BY <1>1, <1>2, <1>3, RejectKeeps DEF In

-----------------------------------------------------------------------------
(* The steps that take an execution on, up to the signatures. *)

(* What a run that goes on to r must show of r. *)
Fits(r) ==
  /\ r.phase \in {"listing", "guardKeys", "capsKey", "simulating", "signing"}
  /\ r.codexPubs \subseteq Keys
  /\ r.capsKey \in Keys \cup {NoKey}
  /\ r.phase = "capsKey" => r.capsKey # NoKey
  /\ r.phase \in {"listing", "guardKeys"} => r.capsKey = NoKey
  /\ r.capsKey # NoKey => r.capsKey \notin ToSet(r.guardPubs)
  /\ r.phase = "simulating" =>
       /\ r.sim.signers = {r.capsKey} \cup ToSet(r.guardPubs) \cup r.job.wired
       /\ r.sim.gasPrice = MinGasPriceAnu(r.sim.creationTime)
  /\ r.phase = "signing" =>
       /\ GuardsMet(r.job, r.tx.signers)
       /\ r.tx.gasPrice = MinGasPriceAnu(r.tx.creationTime)
  /\ Prompts(r)

LEMMA ForwardKeeps ==
  ASSUME RInv, NEW e \in Executions, NEW r, IsRun(r), Becomes(e, r),
         UNCHANGED <<codex, clock, wire>>,
         runs[e].phase \in {"idle", "listing", "guardKeys", "capsKey", "simulating", "signing"},
         In(e, "idle") => runs[e].root = e,
         r.error = runs[e].error, r.root = runs[e].root, r.job = runs[e].job,
         Fits(r)
  PROVE  RInv' /\ Moves(e)
<1>1. runs'[e] = r /\ \A f \in Executions \ {e} : runs'[f] = runs[f]
  BY OneRunChanges DEF RInv, Frame
<1>2. RunInv(e) /\ ~Submitted(e)
  BY NothingSubmittedBefore DEF RInv
<1>3. RunInv(e)'
  <2>1. RunTypeOK(e)'
    BY <1>1, <1>2 DEF RunInv, RunTypeOK, In, Phases, Fits
  <2>2. CapsKeyComesLast(e)' /\ SimulatesWhatIsHeld(e)'
    BY <1>1, <1>2 DEF CapsKeyComesLast, SimulatesWhatIsHeld, In, Fits
  <2>3. SignsWhatWasSimulated(e)' /\ WireFollowsSubmit(e)'
    BY <1>1, <1>2 DEF SignsWhatWasSimulated, WireFollowsSubmit, Submitted, Fits
  <2>4. Prompts(runs[e])'
    BY <1>1 DEF Fits
  <2> QED
    BY <2>1, <2>2, <2>3, <2>4 DEF RunInv
<1>4. RInv'
  BY <1>3, OneRunSuffices
<1> QED
  BY <1>1, <1>4 DEF Moves, In, Fits

LEMMA ExecuteKeeps ==
  ASSUME RInv, NEW e \in Executions, Execute(e)
  PROVE  RInv' /\ Moves(e)
<1> DEFINE r == [runs[e] EXCEPT !.phase = "listing"]
<1>1. IsRun(runs[e]) /\ RunInv(e)
  BY DEF RInv, Frame, RunsAreRecords
<1>2. Becomes(e, r) /\ IsRun(r)
  BY <1>1 DEF Becomes, Execute, IsRun, RInv, Frame, RunsAreRecords
<1>3. Fits(r) /\ r.error = runs[e].error /\ r.root = runs[e].root /\ r.job = runs[e].job
  BY <1>1 DEF IsRun, Fits, Execute, In, RunInv, RunTypeOK, CapsKeyComesLast, Prompts, Collected
<1> QED
  BY <1>2, <1>3, ForwardKeeps DEF Execute, In

LEMMA AcceptGuardsKeeps ==
  ASSUME RInv, NEW e \in Executions, AcceptGuards(e)
  PROVE  RInv' /\ Moves(e)
<1> DEFINE r == [runs[e] EXCEPT !.phase = "guardKeys", !.codexPubs = codex,
                                !.left = GuardSigners(runs[e].job, codex)]
<1>1. IsRun(runs[e]) /\ RunInv(e) /\ codex \subseteq Keys
  BY CodexAssumption DEF RInv, Frame, RunsAreRecords
<1>2. Becomes(e, r) /\ IsRun(r)
  BY <1>1 DEF Becomes, AcceptGuards, IsRun, RInv, Frame, RunsAreRecords
<1>3. Fits(r) /\ r.error = runs[e].error /\ r.root = runs[e].root /\ r.job = runs[e].job
  <2>1. /\ r.phase = "guardKeys" /\ r.error = runs[e].error /\ r.root = runs[e].root
        /\ r.job = runs[e].job /\ r.codexPubs = codex /\ r.capsKey = runs[e].capsKey
        /\ r.guardPubs = runs[e].guardPubs /\ r.asked = runs[e].asked
        /\ r.left = GuardSigners(runs[e].job, codex)
    BY <1>1 DEF IsRun
  <2> HIDE DEF r
  <2>2. r.guardPubs = <<>> /\ r.asked = <<>>
    BY <1>1, <2>1 DEF AcceptGuards, In, RunInv, Prompts
  <2>3. r.left \in Seq(Keys)
    BY <1>1, <2>1, JobAssumption, GuardSignersAre DEF RunInv, RunTypeOK
  <2>4. Prompts(r)
    <3>1. <<>> \o r.left = r.left /\ <<>> \in Seq(Keys) /\ Distinct(<<>>) /\ ToSet(<<>>) = {}
      BY <2>3 DEF Distinct, ToSet
    <3> QED
      BY <2>1, <2>2, <2>3, <3>1 DEF Prompts, Collected
  <2> QED
    BY <1>1, <2>1, <2>4 DEF Fits, AcceptGuards, In, RunInv, RunTypeOK, CapsKeyComesLast
<1> QED
  BY <1>2, <1>3, ForwardKeeps DEF AcceptGuards, In

(* A key goes from those left to those collected. *)
LEMMA HeadMoves ==
  ASSUME NEW K, NEW p \in Seq(K), NEW q \in Seq(K), q # <<>>
  PROVE  /\ Head(q) \in K /\ Tail(q) \in Seq(K)
         /\ Append(p, Head(q)) \o Tail(q) = p \o q
         /\ Distinct(p \o q) => Head(q) \notin ToSet(p)
<1>1. Head(q) \in K /\ Tail(q) \in Seq(K) /\ Append(p, Head(q)) \o Tail(q) = p \o q
  OBVIOUS
<1>2. /\ DOMAIN p = 1..Len(p) /\ Len(p) \in Nat /\ Len(p) + 1 \in DOMAIN (p \o q)
      /\ (p \o q)[Len(p) + 1] = Head(q)
      /\ \A i \in 1..Len(p) : i \in DOMAIN (p \o q) /\ (p \o q)[i] = p[i]
  OBVIOUS
<1>3. ASSUME Distinct(p \o q), Head(q) \in ToSet(p) PROVE FALSE
  <2>1. PICK i \in 1..Len(p) : p[i] = Head(q)
    BY <1>2, <1>3 DEF ToSet
  <2>2. i = Len(p) + 1
    BY <1>2, <1>3, <2>1 DEF Distinct
  <2> QED
    BY <1>2, <2>1, <2>2
<1> QED
  BY <1>1, <1>3

LEMMA AddGuardKeyKeeps ==
  ASSUME RInv, NEW e \in Executions, AddGuardKey(e)
  PROVE  RInv' /\ Moves(e)
<1> DEFINE k == Head(runs[e].left)
           r == [runs[e] EXCEPT !.left = Tail(@), !.guardPubs = Append(@, k),
                                !.asked = IF Pasted(e, k) THEN @ ELSE Append(@, k)]
<1>1. IsRun(runs[e]) /\ RunInv(e)
  BY DEF RInv, Frame, RunsAreRecords
<1>2. Becomes(e, r) /\ IsRun(r)
  BY <1>1 DEF Becomes, AddGuardKey, IsRun, RInv, Frame, RunsAreRecords
<1>3. /\ r.phase = runs[e].phase /\ r.error = runs[e].error /\ r.root = runs[e].root
      /\ r.job = runs[e].job /\ r.codexPubs = runs[e].codexPubs /\ r.capsKey = runs[e].capsKey
      /\ r.left = Tail(runs[e].left) /\ r.guardPubs = Append(runs[e].guardPubs, k)
      /\ r.asked = IF Pasted(e, k) THEN runs[e].asked ELSE Append(runs[e].asked, k)
  BY <1>1 DEF IsRun
<1>5. Prompts(runs[e]) /\ runs[e].phase = "guardKeys" /\ runs[e].left # <<>>
  BY <1>1 DEF AddGuardKey, In, RunInv
<1>6. r.left \in Seq(Keys) /\ r.guardPubs \in Seq(Keys) /\ k \in Keys
      /\ r.guardPubs \o r.left = runs[e].guardPubs \o runs[e].left
      /\ k \notin ToSet(runs[e].guardPubs)
      /\ ToSet(r.guardPubs) = ToSet(runs[e].guardPubs) \cup {k}
  <2> DEFINE p == runs[e].guardPubs
             q == runs[e].left
  <2>1. p \in Seq(Keys) /\ q \in Seq(Keys) /\ q # <<>>
        /\ p \o q = GuardSigners(runs[e].job, runs[e].codexPubs)
    BY <1>5 DEF Prompts, Collected
  <2>2. Distinct(p \o q)
    BY <1>1, <2>1, JobAssumption, GuardSignersAre DEF RunInv, RunTypeOK
  <2>3. r.left = Tail(q) /\ r.guardPubs = Append(p, Head(q)) /\ k = Head(q)
    BY <1>3
  <2> HIDE DEF p, q, r, k
  <2>4. /\ k \in Keys /\ Tail(q) \in Seq(Keys) /\ Append(p, k) \o Tail(q) = p \o q
        /\ k \notin ToSet(p)
    BY <2>1, <2>2, <2>3, HeadMoves
  <2>5. Append(p, k) \in Seq(Keys) /\ ToSet(Append(p, k)) = ToSet(p) \cup {k}
    BY <2>1, <2>4, AppendHolds
  <2> QED
    BY <2>3, <2>4, <2>5 DEF p, q
<1> HIDE DEF r, k
<1>7. r.asked \in Seq(Keys) /\ Distinct(r.asked) /\ ToSet(r.asked) \subseteq ToSet(r.guardPubs)
  <2> DEFINE asked == runs[e].asked
  <2>1. asked \in Seq(Keys) /\ Distinct(asked) /\ ToSet(asked) \subseteq ToSet(runs[e].guardPubs)
    BY <1>5 DEF Prompts
  <2>2. r.asked = asked \/ r.asked = Append(asked, k)
    BY <1>3
  <2> HIDE DEF asked
  <2>3. Append(asked, k) \in Seq(Keys) /\ Distinct(Append(asked, k))
        /\ ToSet(Append(asked, k)) = ToSet(asked) \cup {k}
    BY <1>6, <2>1, AppendDistinct, AppendHolds
  <2> QED
    BY <1>6, <2>1, <2>2, <2>3
<1>8. Prompts(r)
  BY <1>3, <1>5, <1>6, <1>7 DEF Prompts, Collected
<1>4. Fits(r)
  BY <1>1, <1>3, <1>8 DEF Fits, AddGuardKey, In, RunInv, RunTypeOK, CapsKeyComesLast
<1> QED
  BY <1>2, <1>3, <1>4, ForwardKeeps DEF AddGuardKey, In

(* Whatever the codex, the payment key and the guard signers have in       *)
(* common, selectCapsSigningKey gives a codex key that signs no guard, or  *)
(* none (guardUtils.ts).                                                   *)
LEMMA CapsChoicesAreFree ==
  ASSUME NEW payment, NEW pubs, NEW signers, NEW caps \in CapsChoices(payment, pubs, signers),
         caps.key # NoKey
  PROVE  caps.key \in pubs \ signers
  BY DEF CapsChoices

LEMMA ChooseCapsKeyKeeps ==
  ASSUME RInv, NEW e \in Executions, ChooseCapsKey(e)
  PROVE  RInv' /\ Moves(e)
<1>1. IsRun(runs[e]) /\ RunInv(e) /\ ~Submitted(e)
  BY NothingSubmittedBefore DEF RInv, Frame, RunsAreRecords, ChooseCapsKey, In
<1>2. PICK caps \in CapsChoicesOf(e) :
        \/ /\ caps.key # NoKey
           /\ runs' = [runs EXCEPT ![e].phase = "capsKey", ![e].capsKey = caps.key,
                                   ![e].asked = Append(@, caps.key)]
        \/ /\ caps.key = NoKey
           /\ Reject(e, IF caps.impossible THEN "impossible" ELSE "no GAS_PAYER")
  BY DEF ChooseCapsKey
<1>3. CASE caps.key = NoKey
  <2> DEFINE error == IF caps.impossible THEN "impossible" ELSE "no GAS_PAYER"
  <2>1. error \in Errors \ {"none"} /\ Reject(e, error)
    BY <1>2, <1>3 DEF Errors
  <2> HIDE DEF error
  <2> QED
    BY <1>1, <2>1, RejectKeeps DEF ChooseCapsKey, In
<1>4. CASE caps.key # NoKey
  <2> DEFINE r == [runs[e] EXCEPT !.phase = "capsKey", !.capsKey = caps.key,
                                  !.asked = Append(@, caps.key)]
  <2>1. Becomes(e, r) /\ IsRun(r)
    BY <1>1, <1>2, <1>4 DEF Becomes, IsRun, RInv, Frame, RunsAreRecords
  <2>2. /\ r.phase = "capsKey" /\ r.error = runs[e].error /\ r.root = runs[e].root
        /\ r.job = runs[e].job /\ r.codexPubs = runs[e].codexPubs
        /\ r.guardPubs = runs[e].guardPubs /\ r.capsKey = caps.key
        /\ r.left = runs[e].left /\ r.asked = Append(runs[e].asked, caps.key)
    BY <1>1 DEF IsRun
  <2>3. caps.key \in runs[e].codexPubs \ ToSet(runs[e].guardPubs)
    <3> DEFINE payment == runs[e].job.payment
               pubs == runs[e].codexPubs
               signers == ToSet(runs[e].guardPubs)
    <3>1. caps \in CapsChoices(payment, pubs, signers)
      BY <1>2 DEF CapsChoicesOf
    <3> HIDE DEF payment, pubs, signers
    <3>2. caps.key \in pubs \ signers
      BY <3>1, <1>4, CapsChoicesAreFree
    <3> QED
      BY <3>2 DEF pubs, signers
  <2> HIDE DEF r
  <2>5. Prompts(runs[e]) /\ runs[e].phase = "guardKeys" /\ runs[e].left = <<>>
        /\ caps.key \in Keys
    BY <1>1, <2>3 DEF ChooseCapsKey, In, RunInv, RunTypeOK
  <2>6. /\ r.asked \in Seq(Keys) /\ Distinct(r.asked)
        /\ ToSet(r.asked) \subseteq {caps.key} \cup ToSet(r.guardPubs)
    <3> DEFINE asked == runs[e].asked
               key == caps.key
    <3>1. /\ asked \in Seq(Keys) /\ Distinct(asked) /\ ToSet(asked) \subseteq ToSet(r.guardPubs)
          /\ r.asked = Append(asked, key) /\ key \in Keys /\ key \notin ToSet(r.guardPubs)
      BY <2>2, <2>3, <2>5 DEF Prompts
    <3> HIDE DEF asked, key
    <3>2. Distinct(Append(asked, key)) /\ ToSet(Append(asked, key)) = ToSet(asked) \cup {key}
      BY <3>1, AppendDistinct, AppendHolds
    <3>3. Append(asked, key) \in Seq(Keys)
      BY <3>1
    <3> QED
      BY <3>1, <3>2, <3>3 DEF key
  <2>7. Prompts(r)
    BY <2>2, <2>5, <2>6 DEF Prompts, Collected
  <2>4. Fits(r)
    BY <1>1, <1>4, <2>2, <2>3, <2>7 DEF Fits, RunInv, RunTypeOK
  <2> QED
    BY <2>1, <2>2, <2>4, ForwardKeeps DEF ChooseCapsKey, In
<1> QED
  BY <1>3, <1>4

LEMMA SimulateKeeps ==
  ASSUME RInv, NEW e \in Executions, Simulate(e)
  PROVE  RInv' /\ Moves(e)
<1>0. PICK sim : /\ sim = Build(e, StoaGasMeta(clock), SimulationGasLimit)
                /\ runs' = [runs EXCEPT ![e].phase = "simulating", ![e].sim = sim]
  BY DEF Simulate
<1> DEFINE r == [runs[e] EXCEPT !.phase = "simulating", !.sim = sim]
<1>1. IsRun(runs[e]) /\ RunInv(e)
  BY DEF RInv, Frame, RunsAreRecords
<1>2. Becomes(e, r) /\ IsRun(r)
  BY <1>0, <1>1 DEF Becomes, IsRun, RInv, Frame, RunsAreRecords
<1>3. /\ sim.signers = {runs[e].capsKey} \cup ToSet(runs[e].guardPubs) \cup runs[e].job.wired
      /\ sim.gasPrice = MinGasPriceAnu(sim.creationTime)
  BY <1>0 DEF Build, StoaGasMeta
<1>4. /\ r.phase = "simulating" /\ r.error = runs[e].error /\ r.root = runs[e].root
      /\ r.job = runs[e].job /\ r.codexPubs = runs[e].codexPubs /\ r.sim = sim
      /\ r.guardPubs = runs[e].guardPubs /\ r.capsKey = runs[e].capsKey
      /\ r.left = runs[e].left /\ r.asked = runs[e].asked
  BY <1>1 DEF IsRun
<1> HIDE DEF r
<1>6. Prompts(r)
  BY <1>1, <1>4 DEF Simulate, In, RunInv, Prompts, Collected
<1>5. Fits(r)
  BY <1>1, <1>3, <1>4, <1>6 DEF Fits, RunInv, RunTypeOK, CapsKeyComesLast
<1> QED
  BY <1>2, <1>4, <1>5, ForwardKeeps DEF Simulate, In

(* What is signed has the signers that were simulated, and their price. *)
LEMMA SimulationSucceedsKeeps ==
  ASSUME RInv, NEW e \in Executions, SimulationSucceeds(e)
  PROVE  RInv' /\ Moves(e)
<1>1. IsRun(runs[e]) /\ RunInv(e) /\ In(e, "simulating")
  BY DEF RInv, Frame, RunsAreRecords, SimulationSucceeds
<1>2. PICK gasLimit, tx, sigs :
        /\ tx = Build(e, MetaOfReal(e), gasLimit)
        /\ sigs = Held(e) \cap runs[e].sim.signers
        /\ runs' = [runs EXCEPT ![e].phase = "signing", ![e].tx = tx, ![e].sigs = sigs]
  BY Zenon DEF SimulationSucceeds
<1> DEFINE r == [runs[e] EXCEPT !.phase = "signing", !.tx = tx, !.sigs = sigs]
<1>3. Becomes(e, r) /\ IsRun(r)
  BY <1>1, <1>2 DEF Becomes, IsRun, RInv, Frame, RunsAreRecords
<1>4. tx.signers = runs[e].sim.signers
  BY <1>1, <1>2 DEF Build, RunInv, SimulatesWhatIsHeld
<1>5. tx.gasPrice = MinGasPriceAnu(tx.creationTime)
  BY <1>1, <1>2 DEF Build, MetaOfReal, RunInv, SimulatesWhatIsHeld
<1>6. GuardsMet(runs[e].job, tx.signers)
  BY <1>4 DEF SimulationSucceeds
<1>7. /\ r.phase = "signing" /\ r.error = runs[e].error /\ r.root = runs[e].root
      /\ r.job = runs[e].job /\ r.codexPubs = runs[e].codexPubs /\ r.tx = tx
      /\ r.guardPubs = runs[e].guardPubs /\ r.capsKey = runs[e].capsKey
      /\ r.left = runs[e].left /\ r.asked = runs[e].asked /\ r.sigs = sigs
  BY <1>1 DEF IsRun
<1> HIDE DEF r
<1>9. Prompts(r)
  <2>1. Prompts(runs[e]) /\ runs[e].phase = "simulating" /\ runs[e].job.wired \subseteq Keys
    BY <1>1, JobAssumption DEF In, RunInv, RunTypeOK, JobRecords
  <2>2. runs[e].sim.signers = {runs[e].capsKey} \cup ToSet(runs[e].guardPubs) \cup runs[e].job.wired
    BY <1>1 DEF RunInv, SimulatesWhatIsHeld
  <2>3. ToSet(runs[e].asked) \subseteq sigs
    BY <1>2, <2>1, <2>2 DEF Prompts, Held
  <2>4. ToSet(runs[e].guardPubs) \subseteq Keys
    <3> DEFINE p == runs[e].guardPubs
    <3>1. p \in Seq(Keys)
      BY <2>1 DEF Prompts
    <3> HIDE DEF p
    <3>2. ToSet(p) \subseteq Keys
      BY <3>1 DEF ToSet
    <3> QED
      BY <3>2 DEF p
  <2>5. tx.signers \subseteq Keys
    BY <1>4, <2>1, <2>2, <2>4 DEF Prompts
  <2> QED
    BY <1>7, <2>1, <2>3, <2>5 DEF Prompts, Collected
<1>8. Fits(r)
  BY <1>1, <1>5, <1>6, <1>7, <1>9 DEF Fits, RunInv, RunTypeOK, CapsKeyComesLast
<1> QED
  BY <1>1, <1>3, <1>7, <1>8, ForwardKeeps DEF SimulationSucceeds, In

LEMMA AskForeignKeyKeeps ==
  ASSUME RInv, NEW e \in Executions, AskForeignKey(e)
  PROVE  RInv' /\ Moves(e)
<1>1. IsRun(runs[e]) /\ RunInv(e) /\ In(e, "signing")
  BY DEF RInv, Frame, RunsAreRecords, AskForeignKey
<1>2. PICK k \in Unsigned(e) :
        runs' = [runs EXCEPT ![e].sigs = @ \cup {k}, ![e].asked = Append(@, k)]
  BY DEF AskForeignKey
<1> DEFINE r == [runs[e] EXCEPT !.sigs = @ \cup {k}, !.asked = Append(@, k)]
<1>3. Becomes(e, r) /\ IsRun(r)
  BY <1>1, <1>2 DEF Becomes, IsRun, RInv, Frame, RunsAreRecords
<1>4. /\ r.phase = runs[e].phase /\ r.error = runs[e].error /\ r.root = runs[e].root
      /\ r.job = runs[e].job /\ r.codexPubs = runs[e].codexPubs /\ r.tx = runs[e].tx
      /\ r.guardPubs = runs[e].guardPubs /\ r.capsKey = runs[e].capsKey
      /\ r.left = runs[e].left /\ r.asked = Append(runs[e].asked, k)
      /\ r.sigs = runs[e].sigs \cup {k}
  BY <1>1 DEF IsRun
<1> HIDE DEF r
<1>6. Prompts(r)
  <2> DEFINE asked == runs[e].asked
  <2>1. /\ asked \in Seq(Keys) /\ Distinct(asked) /\ ToSet(asked) \subseteq runs[e].sigs
        /\ k \in Keys /\ k \notin runs[e].sigs
    BY <1>1, <1>2 DEF In, RunInv, Prompts, Unsigned
  <2>0. r.asked = Append(asked, k)
    BY <1>4
  <2> HIDE DEF asked
  <2>2. Distinct(Append(asked, k)) /\ ToSet(Append(asked, k)) = ToSet(asked) \cup {k}
    BY <2>1, AppendDistinct, AppendHolds
  <2>3. Append(asked, k) \in Seq(Keys)
    BY <2>1
  <2>4. r.asked \in Seq(Keys) /\ Distinct(r.asked) /\ ToSet(r.asked) \subseteq r.sigs
    BY <1>4, <2>0, <2>1, <2>2, <2>3
  <2> QED
    BY <1>1, <1>4, <2>4 DEF In, RunInv, Prompts, Collected
<1>5. Fits(r)
  BY <1>1, <1>4, <1>6 DEF Fits, In, RunInv, RunTypeOK, CapsKeyComesLast, SignsWhatWasSimulated
<1> QED
  BY <1>1, <1>3, <1>4, <1>5, ForwardKeeps DEF AskForeignKey, In

-----------------------------------------------------------------------------
(* The submission: the steps that touch the wire. *)

LEMMA SubmitKeeps ==
  ASSUME RInv, NEW e \in Executions, Submit(e)
  PROVE  RInv' /\ Moves(e)
<1> DEFINE r == [runs[e] EXCEPT !.phase = "submitting"]
<1>1. IsRun(runs[e]) /\ RunInv(e) /\ In(e, "signing")
  BY DEF RInv, Frame, RunsAreRecords, Submit
<1>2. Becomes(e, r) /\ IsRun(r)
  BY <1>1 DEF Becomes, Submit, IsRun, RInv, Frame, RunsAreRecords
<1>3. RunsAreRecords' /\ runs'[e] = r /\ \A f \in Executions \ {e} : runs'[f] = runs[f]
  BY <1>2, OneRunChanges DEF RInv, Frame
<1>4. /\ r.phase = "submitting" /\ r.error = runs[e].error /\ r.root = runs[e].root
      /\ r.job = runs[e].job /\ r.codexPubs = runs[e].codexPubs /\ r.tx = runs[e].tx
      /\ r.guardPubs = runs[e].guardPubs /\ r.capsKey = runs[e].capsKey
      /\ r.left = runs[e].left /\ r.asked = runs[e].asked
  BY <1>1 DEF IsRun
<1> HIDE DEF r
<1>p. Prompts(r)
  BY <1>1, <1>4 DEF In, RunInv, Prompts, Collected
<1>5. /\ wire' \in [Executions -> {"none", "sent", "accepted", "refused", "lost", "landed"}]
      /\ \A f \in Executions \ {e} : wire'[f] = wire[f]
  BY DEF Submit, RInv, Frame
<1>6. RunInv(e)'
  BY <1>1, <1>3, <1>4, <1>p DEF RunInv, RunTypeOK, CapsKeyComesLast, SimulatesWhatIsHeld,
       SignsWhatWasSimulated, WireFollowsSubmit, Submitted, In, Phases
<1>7. ASSUME NEW f \in Executions \ {e} PROVE RunInv(f)'
  <2>1. RunInv(f) /\ runs'[f] = runs[f] /\ wire'[f] = wire[f]
    BY <1>3, <1>5 DEF RInv
  <2> QED
    BY <2>1 DEF RunInv, RunTypeOK, CapsKeyComesLast, SimulatesWhatIsHeld,
               SignsWhatWasSimulated, WireFollowsSubmit, In, Submitted
<1>8. RInv'
  BY <1>3, <1>5, <1>6, <1>7 DEF RInv, Frame, Submit
<1> QED
  BY <1>1, <1>3, <1>4, <1>5, <1>8 DEF Moves, In

LEMMA SubmitAnsweredKeeps ==
  ASSUME RInv, NEW e \in Executions, SubmitAnswered(e)
  PROVE  RInv' /\ Moves(e)
<1> DEFINE r == [runs[e] EXCEPT !.phase = "resolved"]
<1>1. IsRun(runs[e]) /\ RunInv(e) /\ In(e, "submitting")
  BY DEF RInv, Frame, RunsAreRecords, SubmitAnswered
<1>2. Becomes(e, r) /\ IsRun(r)
  BY <1>1 DEF Becomes, SubmitAnswered, IsRun, RInv, Frame, RunsAreRecords
<1>3. runs'[e] = r /\ \A f \in Executions \ {e} : runs'[f] = runs[f]
  BY <1>2, OneRunChanges DEF RInv, Frame
<1>4. /\ r.phase = "resolved" /\ r.error = runs[e].error /\ r.root = runs[e].root
      /\ r.job = runs[e].job /\ r.codexPubs = runs[e].codexPubs /\ r.tx = runs[e].tx
      /\ r.guardPubs = runs[e].guardPubs /\ r.capsKey = runs[e].capsKey
      /\ r.left = runs[e].left /\ r.asked = runs[e].asked
  BY <1>1 DEF IsRun
<1> HIDE DEF r
<1>p. Prompts(r)
  BY <1>1, <1>4 DEF In, RunInv, Prompts, Collected
<1>5. RunInv(e)'
  BY <1>1, <1>3, <1>4, <1>p DEF RunInv, RunTypeOK, CapsKeyComesLast, SimulatesWhatIsHeld,
       SignsWhatWasSimulated, WireFollowsSubmit, Submitted, In, Phases, SubmitAnswered
<1>6. RInv'
  BY <1>2, <1>5, OneRunSuffices DEF SubmitAnswered
<1> QED
  BY <1>1, <1>3, <1>4, <1>6 DEF Moves, In, SubmitAnswered

(* A step of the nodes or the chain: one wire moves on, from sent or       *)
(* accepted, and no run changes.                                           *)
LEMMA WireMovesKeep ==
  ASSUME RInv, NEW e \in Executions,
         NodeAccepts(e) \/ NodeRefuses(e) \/ TxLost(e) \/ Mine(e)
  PROVE  /\ RInv' /\ runs' = runs
         /\ \A f \in Executions : wire'[f] # wire[f] => wire[f] \in {"sent", "accepted"}
         /\ \A f \in Executions : wire[f] = "none" => wire'[f] = "none"
<1>1. PICK w \in {"accepted", "refused", "lost", "landed"} :
        /\ wire' = [wire EXCEPT ![e] = w]
        /\ wire[e] \in {"sent", "accepted"}
        /\ UNCHANGED <<codex, clock, runs>>
  BY DEF NodeAccepts, NodeRefuses, TxLost, Mine
<1>2. /\ wire' \in [Executions -> {"none", "sent", "accepted", "refused", "lost", "landed"}]
      /\ wire'[e] = w
      /\ \A f \in Executions \ {e} : wire'[f] = wire[f]
  BY <1>1 DEF RInv, Frame
<1>3. ASSUME NEW f \in Executions PROVE RunInv(f)'
  <2>1. RunInv(f) /\ runs'[f] = runs[f] /\ (Submitted(f)' <=> Submitted(f))
    BY <1>1, <1>2 DEF RInv, Submitted
  <2> QED
    BY <2>1 DEF RunInv, RunTypeOK, CapsKeyComesLast, SimulatesWhatIsHeld,
               SignsWhatWasSimulated, WireFollowsSubmit, In
<1>4. RInv'
  BY <1>1, <1>2, <1>3 DEF RInv, Frame, RunsAreRecords, IsRun
<1> QED
  BY <1>1, <1>2, <1>4

-----------------------------------------------------------------------------
(* Every step, and what follows for the type and the safety properties. *)

LEMMA StepKeeps ==
  ASSUME RInv, NEW e \in Executions, Step(e)
  PROVE  RInv' /\ Moves(e)
  BY RejectionsKeep, ExecuteKeeps, AcceptGuardsKeeps, AddGuardKeyKeeps, ChooseCapsKeyKeeps,
     SimulateKeeps, SimulationSucceedsKeeps, AskForeignKeyKeeps, SubmitKeeps,
     SubmitAnsweredKeeps
  DEF Step

(* A consumer executes a job again: a fresh run joins the job's executions. *)
LEMMA ExecuteAgainKeeps ==
  ASSUME RInv, NEW f \in Executions, ExecuteAgain(f)
  PROVE  /\ RInv' /\ wire' = wire
         /\ In(f, "idle") /\ In(f, "listing")'
         /\ \A g \in Executions \ {f} : runs'[g] = runs[g]
         /\ \E e \in Executions \ {f} :
              /\ In(e, "rejected") /\ MayRepeat(runs[e].root)
              /\ runs'[f].root = runs[e].root
<1>1. PICK e \in Executions \ {f} :
        /\ In(e, "rejected") /\ MayRepeat(runs[e].root)
        /\ runs' = [runs EXCEPT ![f].phase = "listing", ![f].root = runs[e].root]
        /\ In(f, "idle") /\ UNCHANGED <<codex, clock, wire>>
  BY DEF ExecuteAgain
<1> DEFINE root == runs[e].root
           r == [runs[f] EXCEPT !.phase = "listing", !.root = root]
<1>2. IsRun(runs[f]) /\ RunInv(f) /\ root \in Executions
  BY DEF RInv, Frame, RunsAreRecords, RunInv, RunTypeOK
<1>3. runs' = [runs EXCEPT ![f].phase = "listing", ![f].root = root]
  BY <1>1
<1> HIDE DEF root
<1>4. Becomes(f, r) /\ IsRun(r)
  BY <1>2, <1>3 DEF Becomes, IsRun, RInv, Frame, RunsAreRecords
<1>5. runs'[f] = r /\ \A g \in Executions \ {f} : runs'[g] = runs[g]
  BY <1>4, OneRunChanges DEF RInv, Frame
<1>6. /\ r.phase = "listing" /\ r.error = runs[f].error /\ r.root = root
      /\ r.job = runs[f].job /\ r.codexPubs = runs[f].codexPubs
      /\ r.guardPubs = runs[f].guardPubs /\ r.capsKey = runs[f].capsKey
      /\ r.left = runs[f].left /\ r.asked = runs[f].asked
  BY <1>2 DEF IsRun
<1> HIDE DEF r
<1>7. ~Submitted(f)
  BY <1>1, NothingSubmittedBefore DEF In
<1>p. Prompts(r)
  BY <1>1, <1>2, <1>6 DEF In, RunInv, Prompts, Collected
<1>8. RunInv(f)'
  BY <1>1, <1>2, <1>5, <1>6, <1>7, <1>p DEF RunInv, RunTypeOK, CapsKeyComesLast,
       SimulatesWhatIsHeld, SignsWhatWasSimulated, WireFollowsSubmit, Submitted, In, Phases
<1>9. RInv'
  BY <1>1, <1>4, <1>8, OneRunSuffices
<1>10. wire' = wire /\ In(f, "idle") /\ In(f, "listing")'
  BY <1>1, <1>5, <1>6 DEF In
<1>11. In(e, "rejected") /\ MayRepeat(runs[e].root) /\ runs'[f].root = runs[e].root
  BY <1>1, <1>5, <1>6 DEF root
<1> QED
  BY <1>5, <1>9, <1>10, <1>11

LEMMA WorldKeeps ==
  ASSUME RInv, CodexChanges \/ Tick
  PROVE  RInv' /\ runs' = runs /\ wire' = wire
<1>1. /\ codex' \in Codexes /\ clock' \in 0..MaxClock
      /\ runs' = runs /\ wire' = wire
  BY BoundAssumption DEF CodexChanges, Tick, RInv, Frame
<1>2. ASSUME NEW e \in Executions PROVE RunInv(e)'
  <2>1. RunInv(e)
    BY DEF RInv
  <2> QED
    BY <1>1, <2>1 DEF RunInv, RunTypeOK, CapsKeyComesLast, SimulatesWhatIsHeld,
               SignsWhatWasSimulated, WireFollowsSubmit, In, Submitted
<1> QED
  BY <1>1, <1>2 DEF RInv, Frame, RunsAreRecords, IsRun

LEMMA StutterKeeps ==
  ASSUME RInv, UNCHANGED vars
  PROVE  RInv'
<1>1. ASSUME NEW e \in Executions PROVE RunInv(e)'
  <2>1. RunInv(e) /\ runs' = runs /\ wire' = wire
    BY DEF RInv, vars
  <2> QED
    BY <2>1 DEF RunInv, RunTypeOK, CapsKeyComesLast, SimulatesWhatIsHeld,
               SignsWhatWasSimulated, WireFollowsSubmit, In, Submitted
<1> QED
  BY <1>1 DEF RInv, Frame, RunsAreRecords, IsRun, vars

LEMMA InitEstablishes == Init => RInv
<1> SUFFICES ASSUME Init PROVE RInv
  OBVIOUS
<1>1. PICK job \in Jobs : runs = [e \in Executions |-> Idle(e, job)]
  BY DEF Init
<1>2. Frame
  BY <1>1, BoundAssumption DEF Frame, RunsAreRecords, IsRun, Idle, Init
<1>3. ASSUME NEW e \in Executions PROVE RunInv(e)
  <2>1. runs[e] = Idle(e, job) /\ wire[e] = "none"
    BY <1>1 DEF Init
  <2>2. /\ runs[e].phase = "idle" /\ runs[e].error = "none" /\ runs[e].job = job
        /\ runs[e].codexPubs = {} /\ runs[e].capsKey = NoKey /\ runs[e].root = e
        /\ runs[e].guardPubs = <<>> /\ runs[e].left = <<>> /\ runs[e].asked = <<>>
    BY <2>1 DEF Idle
  <2>3. Prompts(runs[e])
    BY <2>2 DEF Prompts, Collected, Distinct
  <2> QED
    BY <2>1, <2>2, <2>3 DEF RunInv, RunTypeOK, CapsKeyComesLast, SimulatesWhatIsHeld,
               SignsWhatWasSimulated, WireFollowsSubmit, In, Submitted, Phases, Errors
<1> QED
  BY <1>2, <1>3 DEF RInv

(* The invariant of the signing runs holds in every reachable state: every step
   of an execution keeps it, and so does every answer of its environment. *)
THEOREM RunsInvariance == Spec => []RInv
<1>1. RInv /\ [Next]_vars => RInv'
  <2> SUFFICES ASSUME RInv, [Next]_vars PROVE RInv'
    OBVIOUS
  <2>1. CASE \E e \in Executions : Step(e)
    BY <2>1, StepKeeps
  <2>2. CASE \E e \in Executions : Environment(e)
    BY <2>2, ExecuteAgainKeeps, WireMovesKeep DEF Environment
  <2>3. CASE CodexChanges \/ Tick
    BY <2>3, WorldKeeps
  <2>4. CASE UNCHANGED vars
    BY <2>4, StutterKeeps
  <2> QED
    BY <2>1, <2>2, <2>3, <2>4 DEF Next
<1> QED
  BY <1>1, InitEstablishes, PTL DEF Spec

(* The variables of every execution, the codex, the clock and the wire     *)
(* keep their types, whatever the user, the codex and the nodes do.        *)
THEOREM StrategyTypeCorrect == Spec => []TypeOK
<1>1. RInv => TypeOK
  BY DEF RInv, Frame, RunInv, RunTypeOK, TypeOK
<1> QED
  BY <1>1, RunsInvariance, PTL

(* The key that pays for gas signs for no guard, for any guards, payment   *)
(* key and codex that changes while execute asks for keys (step E).        *)
THEOREM CapsKeyIsApart == Spec => []CapsKeySignsNoGuard
<1>1. RInv => CapsKeySignsNoGuard
  BY DEF RInv, RunInv, CapsKeyComesLast, CapsKeySignsNoGuard
<1> QED
  BY <1>1, RunsInvariance, PTL

(* However many guards list a key, and whatever the caps key, the pasted   *)
(* keys and the foreign signers have in common with them, the user is      *)
(* asked for each private key once (seenGuardPub, steps C to F).           *)
THEOREM KeysAreAskedOnce == Spec => []AskedOnce
<1>1. RInv => AskedOnce
  BY DEF RInv, RunInv, Prompts, Distinct, AskedOnce
<1> QED
  BY <1>1, RunsInvariance, PTL

(* One key, one role, one prompt.                                          *)
THEOREM KeysStaySeparate == Spec => []KeysAreSeparate
<1>1. CapsKeySignsNoGuard /\ AskedOnce => KeysAreSeparate
  BY DEF KeysAreSeparate
<1> QED
  BY <1>1, CapsKeyIsApart, KeysAreAskedOnce, PTL

(* What reaches a node has the signers its guards ask for: they are those  *)
(* of the simulation that succeeded (codexStrategy.ts:222-274).            *)
THEOREM GuardsAreMetOnSubmit == Spec => []SubmittedMeetsGuards
<1>1. RInv => SubmittedMeetsGuards
  BY DEF RInv, RunInv, SignsWhatWasSimulated, SubmittedMeetsGuards
<1> QED
  BY <1>1, RunsInvariance, PTL

(* A keyset holds each of its keys once, which is so of every keyset on    *)
(* the chain: Pact keeps its keys as a set.  Without it the next theorem   *)
(* is false: analyzeGuard counts positions and the chain counts keys.      *)
KeysListedOnce == \A job \in Jobs : \A g \in Guards(job) : Distinct(g.keys)

(* Guards that are all satisfied are met by the signers collected for      *)
(* them, although no key is taken twice.                                   *)
LEMMA SignersMeetGuards ==
  ASSUME KeysListedOnce, NEW job \in Jobs, NEW pubs \in SUBSET Keys,
         \A g \in Guards(job) : g.pred \in Predicates /\ Satisfied(g, pubs, job.pasted)
  PROVE  GuardsMet(job, ToSet(GuardSigners(job, pubs)))
<1> DEFINE signers == ToSet(GuardSigners(job, pubs))
<1> SUFFICES ASSUME NEW g \in Guards(job)
             PROVE  Cardinality(KeysOf(g) \cap signers)
                      >= ComputeThreshold(g.pred, Cardinality(KeysOf(g)))
  BY DEF GuardsMet
<1>1. job \in JobRecords /\ g \in Keysets
  <2>1. job \in JobRecords
    BY JobAssumption
  <2> DEFINE listed == job.guards
  <2>2. listed \in Seq(Keysets)
    BY <2>1 DEF JobRecords, Keysets
  <2>3. g \in {listed[i] : i \in DOMAIN listed}
    BY DEF Guards
  <2> HIDE DEF listed
  <2> QED
    BY <2>1, <2>2, <2>3
<1>2. Distinct(g.keys) /\ Satisfied(g, pubs, job.pasted) /\ g.pred \in Predicates
  BY DEF KeysListedOnce
<1> DEFINE need == ToSet(Needed(g, pubs, job.pasted))
<1>3. need \subseteq KeysOf(g) /\ IsFiniteSet(need) /\ Cardinality(need) = Threshold(g)
  <2> DEFINE paste == job.pasted
  <2>1. Satisfied(g, pubs, paste)
    BY <1>2
  <2> HIDE DEF paste
  <2>2. /\ ToSet(Needed(g, pubs, paste)) \subseteq KeysOf(g)
        /\ IsFiniteSet(ToSet(Needed(g, pubs, paste)))
        /\ Cardinality(ToSet(Needed(g, pubs, paste))) = Threshold(g)
    BY <1>1, <1>2, <2>1, NeededIs
  <2> QED
    BY <2>2 DEF paste
<1>4. need \subseteq signers
  BY <1>1, GuardSignersAre
<1>5. IsFiniteSet(KeysOf(g)) /\ Cardinality(KeysOf(g)) = Len(g.keys)
  <2> DEFINE keys == g.keys
  <2>1. keys \in Seq(Keys) /\ Distinct(keys)
    BY <1>1, <1>2 DEF Keysets
  <2>2. KeysOf(g) = ToSet(keys)
    BY DEF KeysOf, ToSet
  <2> HIDE DEF keys
  <2>3. IsFiniteSet(ToSet(keys)) /\ Cardinality(ToSet(keys)) = Len(keys)
    BY <2>1, DistinctCount
  <2> QED
    BY <2>2, <2>3 DEF keys
<1>6. ComputeThreshold(g.pred, Cardinality(KeysOf(g))) = Threshold(g)
  BY <1>2, <1>5 DEF Threshold, Recognised
<1> HIDE DEF need, signers
<1>7. IsFiniteSet(KeysOf(g) \cap signers)
  BY <1>5, FS_Subset
<1>8. Cardinality(need) <= Cardinality(KeysOf(g) \cap signers)
  BY <1>3, <1>4, <1>7, FS_Subset
<1>9. Cardinality(need) \in Nat /\ Cardinality(KeysOf(g) \cap signers) \in Nat
  BY <1>3, <1>7, FS_CardinalityType
<1> QED
  BY <1>3, <1>6, <1>8, <1>9

(* Execute collects enough signers for guards the analysis calls           *)
(* satisfied, whatever order they come in and keys they share, and while   *)
(* the codex changes between the prompts (codexStrategy.ts:161-197).       *)
THEOREM SatisfiedGuardsGetTheirSigners ==
  ASSUME KeysListedOnce
  PROVE  Spec => []SatisfiedGuardsAreMet
<1>1. RInv => SatisfiedGuardsAreMet
  <2> SUFFICES ASSUME RInv, NEW e \in Executions,
                 runs[e].phase \in {"capsKey", "simulating", "signing", "submitting", "resolved"},
                 \A g \in Guards(runs[e].job) : g.pred \in Predicates
                   /\ Satisfied(g, runs[e].codexPubs, runs[e].job.pasted)
               PROVE  GuardsMet(runs[e].job, ToSet(runs[e].guardPubs))
    BY DEF SatisfiedGuardsAreMet
  <2> DEFINE job == runs[e].job
             pubs == runs[e].codexPubs
             p == runs[e].guardPubs
  <2>1. job \in Jobs /\ pubs \in SUBSET Keys /\ Prompts(runs[e])
    BY DEF RInv, RunInv, RunTypeOK
  <2>2. p \in Seq(Keys) /\ p \o <<>> = GuardSigners(job, pubs)
    BY <2>1 DEF Prompts, Collected
  <2>3. \A g \in Guards(job) : g.pred \in Predicates /\ Satisfied(g, pubs, job.pasted)
    OBVIOUS
  <2> HIDE DEF job, pubs, p
  <2>4. p = GuardSigners(job, pubs)
    BY <2>2
  <2>5. GuardsMet(job, ToSet(GuardSigners(job, pubs)))
    BY <2>1, <2>3, SignersMeetGuards
  <2> QED
    BY <2>4, <2>5 DEF job, pubs, p
<1> QED
  BY <1>1, RunsInvariance, PTL

(* From the analysis to the wire the guards stay met. *)
THEOREM GuardsStayMet ==
  ASSUME KeysListedOnce
  PROVE  Spec => []GuardsAreMet
<1>1. SatisfiedGuardsAreMet /\ SubmittedMeetsGuards => GuardsAreMet
  BY DEF GuardsAreMet
<1> QED
  BY <1>1, SatisfiedGuardsGetTheirSigners, GuardsAreMetOnSubmit, PTL

(* The price submitted is the floor of the creation time submitted, for    *)
(* any clock and any parameters of the floor.                              *)
THEOREM PriceFollowsTime == Spec => []PriceIsOfItsTime
<1>1. RInv => PriceIsOfItsTime
  BY DEF RInv, RunInv, SignsWhatWasSimulated, PriceIsOfItsTime
<1> QED
  BY <1>1, RunsInvariance, PTL

-----------------------------------------------------------------------------
(* A job lands once.  Of two executions of one job, at most one is alive:  *)
(* the other was rejected, and its transaction is not on its way.          *)

NotOnItsWay(e) == wire[e] \in {"none", "refused", "lost"}
Dead(e) == In(e, "rejected") /\ NotOnItsWay(e)

RootsWereRun == \A e \in Executions : ~In(e, "idle") => ~In(runs[e].root, "idle")

OneIsAlive ==
  \A e, f \in Executions :
    e # f /\ runs[e].root = runs[f].root /\ ~In(e, "idle") /\ ~In(f, "idle")
      => Dead(e) \/ Dead(f)

LandInv == RInv /\ RootsWereRun /\ OneIsAlive

(* The consumer waits after every error after which a transaction may be   *)
(* on its way; the documentation asks it to (codexStrategy.ts:50-67).      *)
ConsumerPolls == {"submit", "TIMEOUT"} \subseteq PollAfter

LEMMA StepKeepsOneAlive ==
  ASSUME LandInv, NEW e \in Executions, Step(e)
  PROVE  LandInv'
<1>1. RInv' /\ Moves(e) /\ RunTypeOK(e)
  BY StepKeeps DEF LandInv, RInv, RunInv
<1>2. RootsWereRun'
  <2> SUFFICES ASSUME NEW g \in Executions, ~In(g, "idle")' PROVE ~In(runs[g].root, "idle")'
    BY DEF RootsWereRun
  <2>1. CASE g = e
    <3>1. runs'[e].root = runs[e].root
      BY <1>1 DEF Moves
    <3>2. CASE In(e, "idle")
      BY <1>1, <2>1, <3>1, <3>2 DEF Moves
    <3>3. CASE ~In(e, "idle")
      <4>1. ~In(runs[e].root, "idle") /\ runs[e].root \in Executions
        BY <1>1, <3>3 DEF LandInv, RootsWereRun, RunTypeOK
      <4> QED
        BY <1>1, <2>1, <3>1, <4>1 DEF Moves, In
    <3> QED
      BY <3>2, <3>3
  <2>2. CASE g # e
    <3>1. runs'[g] = runs[g] /\ ~In(g, "idle")
      BY <1>1, <2>2 DEF Moves, In
    <3>2. ~In(runs[g].root, "idle") /\ runs[g].root \in Executions
      BY <3>1 DEF LandInv, RootsWereRun, RInv, RunInv, RunTypeOK
    <3> QED
      BY <1>1, <3>1, <3>2 DEF Moves, In
  <2> QED
    BY <2>1, <2>2
<1>3. ASSUME NEW f \in Executions \ {e}, ~In(f, "idle")', runs'[e].root = runs'[f].root
      PROVE  Dead(f)'
  <2>1. /\ ~In(f, "idle") /\ runs[e].root = runs[f].root /\ ~Dead(e)
        /\ Dead(f)' <=> Dead(f)
    BY <1>1, <1>3 DEF Moves, In, Dead, NotOnItsWay
  <2>2. ~In(e, "idle")
    (* otherwise f's root would be e, which has not run *)
    BY <1>1, <2>1 DEF Moves, LandInv, RootsWereRun
  <2> QED
    BY <2>1, <2>2 DEF LandInv, OneIsAlive
<1>4. OneIsAlive'
  <2> SUFFICES ASSUME NEW g \in Executions, NEW h \in Executions, g # h,
                      runs'[g].root = runs'[h].root, ~In(g, "idle")', ~In(h, "idle")'
               PROVE  Dead(g)' \/ Dead(h)'
    BY DEF OneIsAlive
  <2>1. CASE g = e \/ h = e
    BY <1>3, <2>1
  <2>2. CASE g # e /\ h # e
    <3>1. /\ runs'[g] = runs[g] /\ runs'[h] = runs[h]
          /\ wire'[g] = wire[g] /\ wire'[h] = wire[h]
      BY <1>1, <2>2 DEF Moves
    <3> QED
      BY <3>1 DEF LandInv, OneIsAlive, In, Dead, NotOnItsWay
  <2> QED
    BY <2>1, <2>2
<1> QED
  BY <1>1, <1>2, <1>4 DEF LandInv

(* The consumer's rule is what lets a new execution in: all others of the  *)
(* job are dead.                                                           *)
LEMMA ExecuteAgainKeepsOneAlive ==
  ASSUME ConsumerPolls, LandInv, NEW f \in Executions, ExecuteAgain(f)
  PROVE  LandInv'
<1>1. PICK e \in Executions \ {f} :
        /\ In(e, "rejected") /\ MayRepeat(runs[e].root)
        /\ runs'[f].root = runs[e].root
  BY ExecuteAgainKeeps DEF LandInv
<1>2. /\ RInv' /\ wire' = wire /\ In(f, "idle") /\ In(f, "listing")'
      /\ \A g \in Executions \ {f} : runs'[g] = runs[g]
  BY ExecuteAgainKeeps DEF LandInv
<1>3. \A g \in Executions : runs[g].root \in Executions
  BY DEF LandInv, RInv, RunInv, RunTypeOK
<1>4. RootsWereRun'
  <2> SUFFICES ASSUME NEW g \in Executions, ~In(g, "idle")' PROVE ~In(runs[g].root, "idle")'
    BY DEF RootsWereRun
  <2>1. \A h \in Executions : ~In(h, "idle") => ~In(h, "idle")'
    BY <1>2 DEF In
  <2>2. CASE g = f
    <3>1. ~In(runs[e].root, "idle")
      BY <1>1 DEF LandInv, RootsWereRun, In
    <3> QED
      BY <1>1, <1>3, <2>1, <2>2, <3>1
  <2>3. CASE g # f
    <3>1. ~In(runs[g].root, "idle") /\ runs'[g] = runs[g]
      BY <1>2, <2>3 DEF LandInv, RootsWereRun, In
    <3> QED
      BY <1>3, <2>1, <3>1
  <2> QED
    BY <2>2, <2>3
<1>5. ASSUME NEW g \in Executions \ {f}, ~In(g, "idle")', runs'[g].root = runs'[f].root
      PROVE  Dead(g)'
  <2>1. ~In(g, "idle") /\ runs[g].root = runs[e].root
    BY <1>1, <1>2, <1>5 DEF In
  <2>2. In(g, "rejected") /\ (runs[g].error \in PollAfter => NotOnItsWay(g))
    BY <1>1, <2>1 DEF MayRepeat, NotOnItsWay
  <2>3. NotOnItsWay(g)
    BY <2>2 DEF ConsumerPolls, LandInv, RInv, RunInv, WireFollowsSubmit, Submitted, NotOnItsWay
  <2> QED
    BY <1>2, <2>2, <2>3 DEF Dead, In, NotOnItsWay
<1>6. OneIsAlive'
  <2> SUFFICES ASSUME NEW g \in Executions, NEW h \in Executions, g # h,
                      runs'[g].root = runs'[h].root, ~In(g, "idle")', ~In(h, "idle")'
               PROVE  Dead(g)' \/ Dead(h)'
    BY DEF OneIsAlive
  <2>1. CASE g = f \/ h = f
    BY <1>5, <2>1
  <2>2. CASE g # f /\ h # f
    <3>1. runs'[g] = runs[g] /\ runs'[h] = runs[h] /\ wire' = wire
      BY <1>2, <2>2
    <3> QED
      BY <3>1 DEF LandInv, OneIsAlive, In, Dead, NotOnItsWay
  <2> QED
    BY <2>1, <2>2
<1> QED
  BY <1>2, <1>4, <1>6 DEF LandInv

LEMMA WireMovesKeepOneAlive ==
  ASSUME LandInv, NEW e \in Executions,
         NodeAccepts(e) \/ NodeRefuses(e) \/ TxLost(e) \/ Mine(e)
  PROVE  LandInv'
<1>1. /\ RInv' /\ runs' = runs
      /\ \A f \in Executions : wire'[f] # wire[f] => wire[f] \in {"sent", "accepted"}
  BY WireMovesKeep DEF LandInv
<1>2. \A f \in Executions : Dead(f) => Dead(f)'
  BY <1>1 DEF Dead, NotOnItsWay, In
<1>3. RootsWereRun'
  BY <1>1 DEF LandInv, RootsWereRun, In
<1>4. OneIsAlive'
  BY <1>1, <1>2 DEF LandInv, OneIsAlive, In
<1> QED
  BY <1>1, <1>3, <1>4 DEF LandInv

LEMMA InitEstablishesOneAlive == Init => LandInv
<1>1. Init => \A e \in Executions : In(e, "idle")
  BY DEF Init, In, Idle
<1> QED
  BY <1>1, InitEstablishes DEF LandInv, RootsWereRun, OneIsAlive

(* However often a consumer executes a job again, and whenever the first   *)
(* answer, a timeout and the chain come, the job's transaction lands once, *)
(* provided it polls after each error of a submit (codexStrategy.ts:50-67).*)
THEOREM JobsLandOnce ==
  ASSUME ConsumerPolls
  PROVE  Spec => []LandsOnce
<1>1. LandInv /\ [Next]_vars => LandInv'
  <2> SUFFICES ASSUME LandInv, [Next]_vars PROVE LandInv'
    OBVIOUS
  <2>1. CASE \E e \in Executions : Step(e)
    BY <2>1, StepKeepsOneAlive
  <2>2. CASE \E e \in Executions : Environment(e)
    BY <2>2, ExecuteAgainKeepsOneAlive, WireMovesKeepOneAlive DEF Environment
  <2>3. CASE CodexChanges \/ Tick \/ UNCHANGED vars
    <3>1. RInv' /\ runs' = runs /\ wire' = wire
      BY <2>3, WorldKeeps, StutterKeeps DEF LandInv, vars
    <3> QED
      BY <3>1 DEF LandInv, RootsWereRun, OneIsAlive, Dead, NotOnItsWay, In
  <2> QED
    BY <2>1, <2>2, <2>3 DEF Next
<1>2. LandInv => LandsOnce
  <2> SUFFICES ASSUME LandInv, NEW e \in Executions, NEW f \in Executions,
                      wire[e] = "landed", wire[f] = "landed", runs[e].root = runs[f].root
               PROVE  e = f
    BY DEF LandsOnce
  <2>1. ~In(e, "idle") /\ ~In(f, "idle")
    BY DEF LandInv, RInv, RunInv, WireFollowsSubmit, Submitted, In
  <2> QED
    BY <2>1 DEF LandInv, OneIsAlive, Dead, NotOnItsWay
<1> QED
  BY <1>1, <1>2, InitEstablishesOneAlive, PTL DEF Spec
=============================================================================
