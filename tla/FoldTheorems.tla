--------------------------- MODULE FoldTheorems ---------------------------
(***************************************************************************)
(* What the folds and the flattening of the community modules make of a    *)
(* sequence, for every sequence.  A fact about all lengths is proved as a  *)
(* set of lengths that holds 0 and is closed under the next (SetInduction, *)
(* which rests on Nat being well founded); a fold is a CHOSEN recursive    *)
(* function, so that such a function exists is proved first, and then its  *)
(* values at 1..0, 1..1, ..., the stages of the fold.                      *)
(*                                                                         *)
(* To use it for a definition with FoldLeft: expand FoldLeft and           *)
(* MapThenFoldSet there, show that the chosen function is FoldsLike, and   *)
(* cite FoldExists and FoldStages.                                         *)
(***************************************************************************)
EXTENDS Integers, SequencesExt, FiniteSetTheorems, WellFoundedInduction, TLAPS

(* Some numbers have a least. *)
LEMMA LeastNat ==
  ASSUME NEW T, T \subseteq Nat, T # {}
  PROVE  \E n \in T : \A m \in T : n <= m
<1>1. PICK n \in T : \A m \in T : ~(<<m, n>> \in OpToRel(<, Nat))
  BY NatLessThanWellFounded, WFMin
<1>2. ASSUME NEW m \in T PROVE n <= m
  <2>1. <<m, n>> \in Nat \X Nat
    OBVIOUS
  <2>2. ~(m < n)
    BY <1>1, <2>1 DEF OpToRel
  <2> QED
    BY <2>2
<1> QED
  BY <1>2

(* A set with 0 and, with each number, the next, has them all. *)
LEMMA SetInduction ==
  ASSUME NEW T, 0 \in T, \A n \in Nat : n \in T => n + 1 \in T
  PROVE  Nat \subseteq T
<1> SUFFICES ASSUME Nat \ T # {} PROVE FALSE
  OBVIOUS
<1>1. PICK n \in Nat \ T : \A m \in Nat \ T : n <= m
  BY LeastNat
<1>2. n - 1 \in Nat /\ n - 1 \in T
  BY <1>1
<1> QED
  BY <1>1, <1>2

(* Up to a bound. *)
LEMMA BoundedInduction ==
  ASSUME NEW N \in Nat, NEW T, 0 \in T, \A n \in 0..N : n < N /\ n \in T => n + 1 \in T
  PROVE  0..N \subseteq T
<1> DEFINE U == {n \in Nat : n <= N => n \in T}
<1>1. 0 \in U
  OBVIOUS
<1>2. \A n \in Nat : n \in U => n + 1 \in U
  OBVIOUS
<1> HIDE DEF U
<1>3. Nat \subseteq U
  BY <1>1, <1>2, SetInduction
<1> QED
  BY <1>3 DEF U

-----------------------------------------------------------------------------
(* Max of FiniteSetsExt, over whose values MapThenFoldSet goes. *)
Greatest(t) == CHOOSE x \in t : \A y \in t : x >= y

LEMMA GreatestOf ==
  ASSUME NEW n \in Nat, NEW t \in SUBSET (1..n), t # {}
  PROVE  Greatest(t) \in t /\ \A y \in t : Greatest(t) >= y
<1> DEFINE T == {m \in Nat : \E x \in t : m = n - x}
<1>1. PICK m \in T : \A k \in T : m <= k
  <2>0. PICK x \in t : TRUE
    OBVIOUS
  <2>1. n - x \in T /\ T \subseteq Nat
    OBVIOUS
  <2> HIDE DEF T
  <2> QED
    BY <2>1, LeastNat
<1>2. PICK x \in t : m = n - x
  BY <1>1
<1>3. \A y \in t : x >= y
  <2> SUFFICES ASSUME NEW y \in t PROVE x >= y
    OBVIOUS
  <2>1. n - y \in T
    OBVIOUS
  <2> QED
    BY <1>1, <1>2, <2>1
<1> QED
  BY <1>3 DEF Greatest

LEMMA GreatestOfPrefix ==
  ASSUME NEW n \in Nat \ {0}
  PROVE  Greatest(1..n) = n /\ (1..n) \ {n} = 1..(n-1)
<1>1. Greatest(1..n) \in 1..n /\ \A y \in 1..n : Greatest(1..n) >= y
  <2> DEFINE t == 1..n
  <2>1. t \in SUBSET (1..n) /\ t # {}
    OBVIOUS
  <2> HIDE DEF t
  <2>2. Greatest(t) \in t /\ \A y \in t : Greatest(t) >= y
    BY <2>1, GreatestOf
  <2> QED BY <2>2 DEF t
<1> QED
  BY <1>1

(* One step of a fold, as a function of what was folded and the next. *)
Step1(g, p, x) == g[<<p, x>>]

LEMMA Step1In ==
  ASSUME NEW S, NEW X, NEW g \in [S \X X -> S], NEW p \in S, NEW x \in X
  PROVE  Step1(g, p, x) \in S
  BY DEF Step1

(* The folding function of MapThenFoldSet over positions, greatest first. *)
FoldsOver(iter, n, b, g, s) ==
  iter = [t \in SUBSET (1..n) |->
            IF t = {} THEN b ELSE Step1(g, iter[t \ {Greatest(t)}], s[Greatest(t)])]

LEMMA FunctionFoldExists ==
  ASSUME NEW S, NEW b \in S, NEW X, NEW g \in [S \X X -> S], NEW N \in Nat,
         NEW s \in [1..N -> X]
  PROVE  \E iter \in [SUBSET (1..N) -> S] : FoldsOver(iter, N, b, g, s)
<1> DEFINE T == {n \in 0..N : \E iter \in [SUBSET (1..n) -> S] : FoldsOver(iter, n, b, g, s)}
<1>1. 0 \in T
  <2> DEFINE iter == [t \in SUBSET (1..0) |-> b]
  <2>1. SUBSET (1..0) = {{}}
    OBVIOUS
  <2>2. iter \in [SUBSET (1..0) -> S] /\ FoldsOver(iter, 0, b, g, s)
    BY <2>1 DEF FoldsOver
  <2> QED
    BY <2>2
<1>2. ASSUME NEW n \in 0..N, n < N, n \in T
      PROVE  n + 1 \in T
  <2>1. PICK old \in [SUBSET (1..n) -> S] : FoldsOver(old, n, b, g, s)
    BY <1>2
  <2> DEFINE new == [t \in SUBSET (1..(n+1)) |->
                       IF n + 1 \in t THEN Step1(g, old[t \ {n+1}], s[n+1]) ELSE old[t]]
  <2>2. ASSUME NEW t \in SUBSET (1..(n+1))
        PROVE  /\ new[t] \in S
               /\ new[t] = IF t = {} THEN b
                           ELSE Step1(g, new[t \ {Greatest(t)}], s[Greatest(t)])
    <3>1. CASE n + 1 \in t
      <4>1. Greatest(t) \in t /\ \A y \in t : Greatest(t) >= y
        <5>1. n + 1 \in Nat /\ t # {}
          BY <3>1
        <5> QED
          BY <5>1, GreatestOf
      <4>2. Greatest(t) = n + 1
        <5> DEFINE x == Greatest(t)
        <5>1. x \in 1..(n+1) /\ x >= n + 1
          BY <3>1, <4>1
        <5> HIDE DEF x
        <5>2. x = n + 1
          BY <5>1
        <5> QED
          BY <5>2 DEF x
      <4>3. t \ {n+1} \in SUBSET (1..n)
        OBVIOUS
      <4>4. new[t \ {n+1}] = old[t \ {n+1}]
        BY <4>3
      <4>5. s[n+1] \in X /\ old[t \ {n+1}] \in S
        BY <4>3, <1>2
      <4>6. new[t] = Step1(g, old[t \ {n+1}], s[n+1]) /\ new[t] \in S
        BY <3>1, <4>5 DEF Step1
      <4> HIDE DEF new
      <4> QED
        BY <3>1, <4>2, <4>4, <4>6
    <3>2. CASE n + 1 \notin t
      <4>1. t \in SUBSET (1..n)
        BY <3>2
      <4>2. new[t] = old[t]
        BY <3>2
      <4>3. old[t] = IF t = {} THEN b ELSE Step1(g, old[t \ {Greatest(t)}], s[Greatest(t)])
        BY <2>1, <4>1 DEF FoldsOver
      <4>4. n + 1 \notin t \ {Greatest(t)} /\ t \ {Greatest(t)} \in SUBSET (1..(n+1))
        BY <3>2
      <4>5. new[t \ {Greatest(t)}] = old[t \ {Greatest(t)}]
        BY <4>4
      <4>6. old[t] \in S
        BY <4>1
      <4> HIDE DEF new
      <4> QED
        BY <4>2, <4>3, <4>5, <4>6
    <3> QED
      BY <3>1, <3>2
  <2>3. FoldsOver(new, n + 1, b, g, s)
    <3>1. new = [t \in SUBSET (1..(n+1)) |-> new[t]]
      OBVIOUS
    <3> HIDE DEF new
    <3> QED
      BY <2>2, <3>1 DEF FoldsOver
  <2>4. new \in [SUBSET (1..(n+1)) -> S]
    <3>1. new = [t \in SUBSET (1..(n+1)) |-> new[t]]
      OBVIOUS
    <3> HIDE DEF new
    <3> QED
      BY <2>2, <3>1
  <2> HIDE DEF new
  <2> QED
    BY <1>2, <2>3, <2>4
<1> HIDE DEF T
<1>3. 0..N \subseteq T
  BY <1>1, <1>2, BoundedInduction
<1>4. N \in T
  BY <1>3
<1> QED
  BY <1>4 DEF T

(* The folding function of any step that agrees with g on S. *)
FoldsLike(iter, N, S, g, s) ==
  \A t \in SUBSET (1..N) :
    t # {} /\ iter[t \ {Greatest(t)}] \in S
      => iter[t] = Step1(g, iter[t \ {Greatest(t)}], s[Greatest(t)])

(* Its values on the first n positions. *)
StagesAre(iter, N, b, S, g, s) ==
  /\ iter[1..0] = b
  /\ \A n \in 0..N : iter[1..n] \in S
  /\ \A n \in 1..N : iter[1..n] = Step1(g, iter[1..(n-1)], s[n])

LEMMA FunctionFoldStages ==
  ASSUME NEW S, NEW b \in S, NEW X, NEW g \in [S \X X -> S], NEW N \in Nat,
         NEW s \in [1..N -> X], NEW iter, iter[{}] = b,
         FoldsLike(iter, N, S, g, s)
  PROVE  StagesAre(iter, N, b, S, g, s)
<1> DEFINE T == {n \in 0..N : iter[1..n] \in S}
<1>1. iter[1..0] = b
  <2>1. 1..0 = {}
    OBVIOUS
  <2> QED
    BY <2>1
<1>2. ASSUME NEW n \in 1..N, iter[1..(n-1)] \in S
      PROVE  iter[1..n] = Step1(g, iter[1..(n-1)], s[n]) /\ iter[1..n] \in S
  <2>1. Greatest(1..n) = n /\ (1..n) \ {n} = 1..(n-1)
    BY GreatestOfPrefix
  <2> DEFINE t == 1..n
  <2>2. Greatest(t) = n /\ t \ {n} = 1..(n-1)
    BY <2>1
  <2>5. t \in SUBSET (1..N) /\ n \in t
    OBVIOUS
  <2> HIDE DEF t
  <2>3. iter[t] = Step1(g, iter[1..(n-1)], s[n])
    BY <2>2, <2>5, <1>2 DEF FoldsLike
  <2>4. s[n] \in X
    OBVIOUS
  <2> QED
    <3>1. Step1(g, iter[1..(n-1)], s[n]) \in S
      BY <1>2, <2>4, Step1In
    <3> QED
      BY <2>3, <3>1 DEF t
<1>3. 0 \in T
  BY <1>1
<1>4. ASSUME NEW n \in 0..N, n < N, n \in T PROVE n + 1 \in T
  <2>1. n + 1 \in 1..N /\ (n + 1) - 1 = n /\ n + 1 \in 0..N
    BY <1>4
  <2>2. iter[1..((n+1)-1)] \in S
    BY <1>4, <2>1
  <2>3. iter[1..(n+1)] \in S
    BY <1>2, <2>1, <2>2
  <2> QED
    BY <2>1, <2>3
<1> HIDE DEF T
<1>5. 0..N \subseteq T
  BY <1>3, <1>4, BoundedInduction
<1>6. \A n \in 0..N : iter[1..n] \in S
  BY <1>5 DEF T
<1>7. \A n \in 1..N : n - 1 \in 0..N
  OBVIOUS
<1> QED
  BY <1>1, <1>2, <1>6, <1>7 DEF StagesAre

(* For a sequence: what FoldLeft has folded after n elements. *)
StagesOf(f, b, S, g, s) ==
  /\ f \in [0..Len(s) -> S]
  /\ f[0] = b
  /\ \A n \in 1..Len(s) : f[n] = Step1(g, f[n-1], s[n])

(* The fold went through such stages. *)
Staged(iter, b, S, g, s) ==
  \E f : StagesOf(f, b, S, g, s) /\ iter[DOMAIN s] = f[Len(s)]

LEMMA FoldExists ==
  ASSUME NEW S, NEW b \in S, NEW X, NEW g \in [S \X X -> S], NEW s \in Seq(X)
  PROVE  \E iter \in [SUBSET DOMAIN s -> S] : FoldsOver(iter, Len(s), b, g, s)
<1> DEFINE N == Len(s)
<1>1. N \in Nat /\ s \in [1..N -> X] /\ DOMAIN s = 1..N
  OBVIOUS
<1> HIDE DEF N
<1>2. \E iter \in [SUBSET (1..N) -> S] : FoldsOver(iter, N, b, g, s)
  BY <1>1, FunctionFoldExists
<1> QED
  BY <1>1, <1>2 DEF N

LEMMA FoldStages ==
  ASSUME NEW S, NEW b \in S, NEW X, NEW g \in [S \X X -> S], NEW s \in Seq(X),
         NEW iter, iter[{}] = b, FoldsLike(iter, Len(s), S, g, s)
  PROVE  Staged(iter, b, S, g, s)
<1> DEFINE N == Len(s)
           f == [n \in 0..N |-> iter[1..n]]
<1>1. N \in Nat /\ s \in [1..N -> X] /\ DOMAIN s = 1..N
  OBVIOUS
<1> HIDE DEF N
<1>2. StagesAre(iter, N, b, S, g, s)
  <2>1. FoldsLike(iter, N, S, g, s)
    BY DEF N
  <2> QED
    BY <1>1, <2>1, FunctionFoldStages
<1>3. 0 \in 0..N /\ N \in 0..N /\ \A n \in 1..N : n \in 0..N /\ n - 1 \in 0..N
  BY <1>1
<1>4. f \in [0..N -> S]
  BY <1>2 DEF StagesAre
<1>5. f[0] = b /\ f[N] = iter[1..N]
  BY <1>2, <1>3 DEF StagesAre
<1>6. ASSUME NEW n \in 1..N PROVE f[n] = Step1(g, f[n-1], s[n])
  <2>1. f[n] = iter[1..n] /\ f[n-1] = iter[1..(n-1)]
    BY <1>3
  <2> HIDE DEF f
  <2> QED
    BY <1>2, <2>1 DEF StagesAre
<1> HIDE DEF f
<1>7. StagesOf(f, b, S, g, s)
  BY <1>4, <1>5, <1>6 DEF StagesOf, N
<1> QED
  BY <1>1, <1>5, <1>7 DEF N, Staged

-----------------------------------------------------------------------------
(* What two joined sequences hold. *)
LEMMA ConcatHolds ==
  ASSUME NEW X, NEW p \in Seq(X), NEW q \in Seq(X)
  PROVE  ToSet(p \o q) = ToSet(p) \cup ToSet(q)
<1>1. /\ Len(p \o q) = Len(p) + Len(q) /\ Len(p) \in Nat /\ Len(q) \in Nat
      /\ DOMAIN (p \o q) = 1..(Len(p) + Len(q)) /\ DOMAIN p = 1..Len(p) /\ DOMAIN q = 1..Len(q)
  OBVIOUS
<1>2. \A i \in 1..Len(p) : (p \o q)[i] = p[i]
  OBVIOUS
<1>3. \A i \in 1..Len(q) : (p \o q)[Len(p) + i] = q[i]
  OBVIOUS
<1>4. ASSUME NEW x \in ToSet(p \o q) PROVE x \in ToSet(p) \cup ToSet(q)
  <2>1. PICK i \in 1..(Len(p) + Len(q)) : x = (p \o q)[i]
    BY <1>1 DEF ToSet
  <2>2. CASE i <= Len(p)
    BY <1>1, <1>2, <2>1, <2>2 DEF ToSet
  <2>3. CASE i > Len(p)
    <3>1. i - Len(p) \in 1..Len(q) /\ Len(p) + (i - Len(p)) = i
      BY <1>1, <2>3
    <3>2. x = q[i - Len(p)]
      BY <1>3, <2>1, <3>1
    <3> QED
      BY <1>1, <3>1, <3>2 DEF ToSet
  <2> QED
    BY <1>1, <2>2, <2>3
<1>5. ASSUME NEW x \in ToSet(p) PROVE x \in ToSet(p \o q)
  <2>1. PICK i \in 1..Len(p) : x = p[i]
    BY <1>1 DEF ToSet
  <2> QED
    BY <1>1, <1>2, <2>1 DEF ToSet
<1>6. ASSUME NEW x \in ToSet(q) PROVE x \in ToSet(p \o q)
  <2>1. PICK i \in 1..Len(q) : x = q[i]
    BY <1>1 DEF ToSet
  <2>2. Len(p) + i \in 1..(Len(p) + Len(q))
    BY <1>1
  <2> QED
    BY <1>1, <1>3, <2>1, <2>2 DEF ToSet
<1> QED
  BY <1>4, <1>5, <1>6

LEMMA AppendHolds ==
  ASSUME NEW X, NEW p \in Seq(X), NEW x \in X
  PROVE  ToSet(Append(p, x)) = ToSet(p) \cup {x}
<1>1. /\ DOMAIN Append(p, x) = 1..(Len(p) + 1) /\ DOMAIN p = 1..Len(p) /\ Len(p) \in Nat
      /\ Append(p, x)[Len(p) + 1] = x /\ \A i \in 1..Len(p) : Append(p, x)[i] = p[i]
  OBVIOUS
<1> QED
  BY <1>1 DEF ToSet

-----------------------------------------------------------------------------
(* Sequences that hold nothing twice. *)
Distinct(s) == \A i, j \in DOMAIN s : s[i] = s[j] => i = j

LEMMA AppendDistinct ==
  ASSUME NEW K, NEW s \in Seq(K), NEW k \in K \ ToSet(s), Distinct(s)
  PROVE  Distinct(Append(s, k))
<1>1. /\ DOMAIN Append(s, k) = 1..(Len(s) + 1) /\ DOMAIN s = 1..Len(s) /\ Len(s) \in Nat
      /\ Append(s, k)[Len(s) + 1] = k /\ \A i \in 1..Len(s) : Append(s, k)[i] = s[i]
  OBVIOUS
<1>2. \A i \in 1..Len(s) : s[i] # k
  BY <1>1 DEF ToSet
<1> QED
  BY <1>1, <1>2 DEF Distinct

(* The first n of a sequence. *)
First(keys, n) == {keys[i] : i \in 1..n}

LEMMA FirstGrows ==
  ASSUME NEW keys, NEW n \in Nat
  PROVE  First(keys, 0) = {} /\ First(keys, n + 1) = First(keys, n) \cup {keys[n+1]}
<1>1. 1..0 = {} /\ 1..(n+1) = (1..n) \cup {n+1}
  OBVIOUS
<1> QED
  BY <1>1 DEF First

(* Positions that hold different things are as many as what they hold. *)
LEMMA ImageCount ==
  ASSUME NEW s, NEW P, IsFiniteSet(P), \A i, j \in P : s[i] = s[j] => i = j
  PROVE  /\ IsFiniteSet({s[i] : i \in P})
         /\ Cardinality({s[i] : i \in P}) = Cardinality(P)
<1> DEFINE img == {s[i] : i \in P}
           h == [i \in P |-> s[i]]
<1>1. h \in Bijection(P, img)
  BY DEF Bijection, Injection, Surjection, IsInjective
<1>2. ExistsBijection(P, img)
  BY <1>1 DEF ExistsBijection
<1> HIDE DEF img
<1>3. IsFiniteSet(img) /\ Cardinality(img) = Cardinality(P)
  BY <1>2, FS_Bijection
<1> QED
  BY <1>3 DEF img

LEMMA DistinctCount ==
  ASSUME NEW K, NEW s \in Seq(K), Distinct(s)
  PROVE  IsFiniteSet(ToSet(s)) /\ Cardinality(ToSet(s)) = Len(s)
<1> DEFINE n == Len(s)
           P == 1..n
<1>1. n \in Nat /\ DOMAIN s = P
  OBVIOUS
<1>2. IsFiniteSet(P) /\ Cardinality(P) = n
  <2> HIDE DEF n
  <2> QED
    BY <1>1, FS_Interval
<1>3. \A i, j \in P : s[i] = s[j] => i = j
  BY <1>1 DEF Distinct
<1>4. ToSet(s) = {s[i] : i \in P}
  BY <1>1 DEF ToSet
<1> HIDE DEF P
<1>5. IsFiniteSet({s[i] : i \in P}) /\ Cardinality({s[i] : i \in P}) = Cardinality(P)
  BY <1>2, <1>3, ImageCount
<1> HIDE DEF n
<1>6. IsFiniteSet(ToSet(s)) /\ Cardinality(ToSet(s)) = n
  BY <1>2, <1>4, <1>5
<1> QED
  BY <1>6 DEF n

LEMMA ConcatDistinct ==
  ASSUME NEW K, NEW p \in Seq(K), NEW q \in Seq(K), Distinct(p), Distinct(q),
         ToSet(p) \cap ToSet(q) = {}
  PROVE  Distinct(p \o q)
<1>1. /\ Len(p) \in Nat /\ Len(q) \in Nat
      /\ DOMAIN (p \o q) = 1..(Len(p) + Len(q)) /\ DOMAIN p = 1..Len(p) /\ DOMAIN q = 1..Len(q)
  OBVIOUS
<1>2. \A i \in 1..Len(p) : (p \o q)[i] = p[i]
  OBVIOUS
<1>3. \A i \in 1..(Len(p) + Len(q)) : i > Len(p) => (p \o q)[i] = q[i - Len(p)]
  OBVIOUS
<1> SUFFICES ASSUME NEW i \in 1..(Len(p) + Len(q)), NEW j \in 1..(Len(p) + Len(q)),
                    (p \o q)[i] = (p \o q)[j]
             PROVE  i = j
  BY <1>1 DEF Distinct
<1>4. CASE i <= Len(p) /\ j <= Len(p)
  BY <1>1, <1>2, <1>4 DEF Distinct
<1>5. CASE i > Len(p) /\ j > Len(p)
  <2>1. i - Len(p) \in DOMAIN q /\ j - Len(p) \in DOMAIN q
    BY <1>1, <1>5
  <2>2. q[i - Len(p)] = q[j - Len(p)]
    BY <1>3, <1>5
  <2>3. i - Len(p) = j - Len(p)
    BY <2>1, <2>2 DEF Distinct
  <2> QED
    BY <1>1, <2>3
<1>6. ASSUME NEW x \in 1..Len(p), NEW y \in 1..(Len(p) + Len(q)), y > Len(p)
      PROVE  (p \o q)[x] # (p \o q)[y]
  <2>1. y - Len(p) \in DOMAIN q
    BY <1>1, <1>6
  <2>2. (p \o q)[x] \in ToSet(p) /\ (p \o q)[y] \in ToSet(q)
    BY <1>1, <1>2, <1>3, <1>6, <2>1 DEF ToSet
  <2> QED
    BY <2>2
<1>7. CASE (i <= Len(p) /\ j > Len(p)) \/ (i > Len(p) /\ j <= Len(p))
  BY <1>1, <1>6, <1>7
<1> QED
  BY <1>1, <1>4, <1>5, <1>7

(* The first m of a sequence. *)
LEMMA PrefixIs ==
  ASSUME NEW K, NEW s \in Seq(K), NEW m \in 0..Len(s)
  PROVE  /\ SubSeq(s, 1, m) \in Seq(K) /\ Len(SubSeq(s, 1, m)) = m
         /\ ToSet(SubSeq(s, 1, m)) \subseteq ToSet(s)
         /\ Distinct(s) => Distinct(SubSeq(s, 1, m))
<1>1. /\ DOMAIN SubSeq(s, 1, m) = 1..m /\ DOMAIN s = 1..Len(s) /\ Len(s) \in Nat
      /\ \A i \in 1..m : SubSeq(s, 1, m)[i] = s[i]
      /\ SubSeq(s, 1, m) \in Seq(K) /\ Len(SubSeq(s, 1, m)) = m
  OBVIOUS
<1> QED
  BY <1>1 DEF ToSet, Distinct

-----------------------------------------------------------------------------
(* The recursive function of FlattenSeq, and that there is one. *)
FlattensTo(f, ss, n) ==
  f = [i \in 1..n |-> IF i = 1 THEN ss[i] ELSE f[i-1] \o ss[i]]

LEMMA FlattenExists ==
  ASSUME NEW X, NEW ss \in Seq(Seq(X))
  PROVE  \E f \in [1..Len(ss) -> Seq(X)] : FlattensTo(f, ss, Len(ss))
<1> DEFINE N == Len(ss)
           T == {n \in 0..N : \E f \in [1..n -> Seq(X)] : FlattensTo(f, ss, n)}
<1>0. N \in Nat /\ \A i \in 1..N : ss[i] \in Seq(X)
  OBVIOUS
<1>1. 0 \in T
  <2> DEFINE f == [i \in 1..0 |-> << >>]
  <2>1. f \in [1..0 -> Seq(X)] /\ FlattensTo(f, ss, 0)
    BY DEF FlattensTo
  <2> HIDE DEF f
  <2>2. 0 \in 0..N
    BY <1>0
  <2> QED
    BY <2>1, <2>2
<1>2. ASSUME NEW n \in 0..N, n < N, n \in T PROVE n + 1 \in T
  <2>1. PICK f \in [1..n -> Seq(X)] : FlattensTo(f, ss, n)
    BY <1>2
  <2> DEFINE last == IF n = 0 THEN ss[1] ELSE f[n] \o ss[n+1]
             h == [i \in 1..(n+1) |-> IF i = n + 1 THEN last ELSE f[i]]
  <2>2. last \in Seq(X)
    <3>1. ss[n+1] \in Seq(X)
      BY <1>0, <1>2
    <3>2. CASE n = 0
      BY <3>1, <3>2
    <3>3. CASE n # 0
      <4>1. f[n] \in Seq(X)
        BY <3>3
      <4> QED
        BY <3>1, <3>3, <4>1
    <3> QED
      BY <3>2, <3>3
  <2>3. h \in [1..(n+1) -> Seq(X)]
    BY <2>2
  <2>4. ASSUME NEW i \in 1..(n+1)
        PROVE  h[i] = IF i = 1 THEN ss[i] ELSE h[i-1] \o ss[i]
    <3>1. CASE i = n + 1
      BY <3>1
    <3>2. CASE i # n + 1
      <4>1. i \in 1..n
        BY <3>2
      <4>2. f[i] = IF i = 1 THEN ss[i] ELSE f[i-1] \o ss[i]
        BY <2>1, <4>1 DEF FlattensTo
      <4> QED
        BY <3>2, <4>2
    <3> QED
      BY <3>1, <3>2
  <2>5. FlattensTo(h, ss, n + 1)
    <3>1. h = [i \in 1..(n+1) |-> h[i]]
      OBVIOUS
    <3> HIDE DEF h
    <3> QED
      BY <2>4, <3>1 DEF FlattensTo
  <2> HIDE DEF h
  <2>6. n + 1 \in 0..N
    BY <1>2
  <2> QED
    BY <2>3, <2>5, <2>6
<1> HIDE DEF T
<1>3. 0..N \subseteq T
  BY <1>0, <1>1, <1>2, BoundedInduction
<1>4. N \in T
  BY <1>0, <1>3
<1> QED
  BY <1>4 DEF T

(* After n of the sequences, their concatenation. *)
LEMMA FlattenStages ==
  ASSUME NEW X, NEW ss \in Seq(Seq(X))
  PROVE  \E f \in [0..Len(ss) -> Seq(X)] :
           /\ f[0] = << >>
           /\ \A n \in 1..Len(ss) : f[n] = f[n-1] \o ss[n]
           /\ FlattenSeq(ss) = f[Len(ss)]
<1>1. CASE Len(ss) = 0
  <2>1. FlattenSeq(ss) = << >>
    BY <1>1 DEF FlattenSeq
  <2> DEFINE f == [n \in 0..0 |-> << >>]
  <2>2. f \in [0..0 -> Seq(X)] /\ f[0] = << >> /\ \A n \in 1..0 : FALSE
    OBVIOUS
  <2> HIDE DEF f
  <2> QED
    BY <1>1, <2>1, <2>2
<1>2. CASE Len(ss) # 0
  <2> DEFINE N == Len(ss)
  <2>1. N \in Nat \ {0} /\ \A i \in 1..N : ss[i] \in Seq(X)
    BY <1>2
  <2>2. FlattenSeq(ss) = (CHOOSE f : FlattensTo(f, ss, N))[N]
    BY <1>2, Zenon DEF FlattenSeq, FlattensTo
  <2>3. PICK f : FlattensTo(f, ss, N) /\ FlattenSeq(ss) = f[N]
    BY <2>2, FlattenExists
  <2> DEFINE h == [n \in 0..N |-> IF n = 0 THEN << >> ELSE f[n]]
             T == {n \in 0..N : h[n] \in Seq(X)}
  <2>4. ASSUME NEW n \in 1..N, h[n-1] \in Seq(X)
        PROVE  h[n] = h[n-1] \o ss[n] /\ h[n] \in Seq(X)
    <3>1. f[n] = IF n = 1 THEN ss[n] ELSE f[n-1] \o ss[n]
      BY <2>3 DEF FlattensTo
    <3>2. ss[n] \in Seq(X) /\ h[n] = f[n] /\ n - 1 \in 0..N
      BY <2>1
    <3>3. CASE n = 1
      <4>1. h[n-1] = << >>
        BY <3>2, <3>3
      <4>2. h[n] = ss[n]
        BY <3>1, <3>2, <3>3
      <4> HIDE DEF h
      <4> QED
        BY <3>2, <4>1, <4>2
    <3>4. CASE n # 1
      <4>1. h[n-1] = f[n-1]
        BY <3>2, <3>4
      <4>2. h[n] = h[n-1] \o ss[n]
        BY <3>1, <3>2, <3>4, <4>1
      <4> HIDE DEF h
      <4> QED
        BY <2>4, <3>2, <4>2
    <3> QED
      BY <3>3, <3>4
  <2>5. 0 \in T
    BY <2>1
  <2>6. ASSUME NEW n \in 0..N, n < N, n \in T PROVE n + 1 \in T
    <3>1. n + 1 \in 1..N /\ (n + 1) - 1 = n /\ n + 1 \in 0..N
      BY <2>6
    <3>2. h[(n+1)-1] \in Seq(X)
      BY <2>6, <3>1
    <3> HIDE DEF h
    <3>3. h[n+1] \in Seq(X)
      BY <2>4, <3>1, <3>2
    <3> QED
      BY <3>1, <3>3
  <2> HIDE DEF T
  <2>7. 0..N \subseteq T
    BY <2>1, <2>5, <2>6, BoundedInduction
  <2>8. \A n \in 0..N : h[n] \in Seq(X)
    BY <2>7 DEF T
  <2>9. h = [n \in 0..N |-> h[n]] /\ h[0] = << >> /\ h[N] = f[N]
    BY <2>1
  <2> HIDE DEF h
  <2>10. h \in [0..N -> Seq(X)]
    BY <2>8, <2>9
  <2>12. \A n \in 1..N : n - 1 \in 0..N
    BY <2>1
  <2>11. \A n \in 1..N : h[n] = h[n-1] \o ss[n]
    BY <2>4, <2>8, <2>12
  <2> QED
    BY <2>3, <2>9, <2>10, <2>11
<1> QED
  BY <1>1, <1>2

(* What a flattened sequence holds. *)
LEMMA FlattenSeqHolds ==
  ASSUME NEW X, NEW ss \in Seq(Seq(X))
  PROVE  /\ FlattenSeq(ss) \in Seq(X)
         /\ ToSet(FlattenSeq(ss)) = UNION {ToSet(ss[i]) : i \in DOMAIN ss}
<1> DEFINE N == Len(ss)
<1>1. PICK f \in [0..N -> Seq(X)] :
        /\ f[0] = << >>
        /\ \A n \in 1..N : f[n] = f[n-1] \o ss[n]
        /\ FlattenSeq(ss) = f[N]
  BY FlattenStages
<1>0. N \in Nat /\ DOMAIN ss = 1..N /\ \A i \in 1..N : ss[i] \in Seq(X)
  OBVIOUS
<1>a. FlattenSeq(ss) \in Seq(X)
  BY <1>0, <1>1
<1>b. N \in Nat
  OBVIOUS
<1> HIDE DEF N
<1> DEFINE T == {n \in 0..N : ToSet(f[n]) = UNION {ToSet(ss[i]) : i \in 1..n}}
<1>2. 0 \in T
  BY <1>0, <1>1 DEF ToSet
<1>3. ASSUME NEW n \in 0..N, n < N, n \in T PROVE n + 1 \in T
  <2> HIDE DEF T
  <2>0. n + 1 \in 1..N /\ (n + 1) - 1 = n /\ n + 1 \in 0..N
    BY <1>b, <1>3
  <2>1. f[n] \in Seq(X) /\ ss[n+1] \in Seq(X)
    BY <1>0, <1>3, <2>0
  <2>2. f[n+1] = f[n] \o ss[n+1]
    BY <1>1, <2>0
  <2>3. ToSet(f[n] \o ss[n+1]) = ToSet(f[n]) \cup ToSet(ss[n+1])
    BY <2>1, ConcatHolds
  <2>4. ToSet(f[n]) = UNION {ToSet(ss[i]) : i \in 1..n}
    BY <1>3 DEF T
  <2>5. UNION {ToSet(ss[i]) : i \in 1..(n+1)}
          = (UNION {ToSet(ss[i]) : i \in 1..n}) \cup ToSet(ss[n+1])
    <3>1. 1..(n+1) = (1..n) \cup {n+1}
      BY <2>0
    <3> QED
      BY <3>1
  <2>6. ToSet(f[n+1]) = UNION {ToSet(ss[i]) : i \in 1..(n+1)}
    BY <2>2, <2>3, <2>4, <2>5
  <2> QED
    BY <2>0, <2>6 DEF T
<1> HIDE DEF T
<1>4. 0..N \subseteq T
  BY <1>0, <1>2, <1>3, BoundedInduction
<1>5. N \in 0..N
  BY <1>0
<1> QED
  BY <1>0, <1>1, <1>a, <1>4, <1>5 DEF T

=============================================================================
