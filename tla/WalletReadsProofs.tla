-------------------------- MODULE WalletReadsProofs --------------------------
(***************************************************************************)
(* Proofs about WalletReads for any nodes, calls, pins and ledger, and any *)
(* number of rewirings; and about Amounts, for amounts of any length.      *)
(***************************************************************************)
EXTENDS WalletReads, FoldTheorems

-----------------------------------------------------------------------------
(* Texts of amounts. *)

Digits == Seq(0..9)

(* The position of the last digit that is not 0, and the digits up to it. *)
LastDigit(part) == SelectLastInSeq(part, LAMBDA d : d # 0)
Strip(part) == SubSeq(part, 1, LastDigit(part))

(* What the digits before the mark are as a number; how is not looked at. *)
WholeOf(whole) == FoldLeft(LAMBDA n, d : 10 * n + d, 0, whole)

LEMMA NumberIs ==
  \A whole, part : Number(whole, part) = [whole |-> WholeOf(whole), part |-> Strip(part)]
  BY Zenon DEF Number, Strip, LastDigit, WholeOf

LEMMA NumberWithPart ==
  ASSUME NEW whole, NEW part, NEW other
  PROVE  /\ Number(whole, part).part = Strip(part)
         /\ [Number(whole, part) EXCEPT !.part = Strip(other)] = Number(whole, other)
<1> DEFINE w == WholeOf(whole)
           p == Strip(part)
           q == Strip(other)
<1>1. Number(whole, part) = [whole |-> w, part |-> p] /\ Number(whole, other) = [whole |-> w, part |-> q]
  BY NumberIs
<1> HIDE DEF w, p, q
<1>2. /\ Number(whole, part).part = p
      /\ [Number(whole, part) EXCEPT !.part = q] = Number(whole, other)
  BY <1>1
<1> QED
  BY <1>2 DEF p, q

(* It is that position exactly if only 0 follows. *)
IsLastDigit(part, n) ==
  /\ n \in 0..Len(part)
  /\ n # 0 => part[n] # 0
  /\ \A i \in 1..Len(part) : n < i => part[i] = 0

LEMMA LastDigitIs ==
  ASSUME NEW part \in Digits
  PROVE  IsLastDigit(part, LastDigit(part))
<1> DEFINE N == Len(part)
           I == {i \in 1..N : part[i] # 0}
<1>1. LastDigit(part) = IF I # {} THEN Greatest(I) ELSE 0
  BY Zenon DEF LastDigit, SelectLastInSeq, Max, Greatest
<1>2. N \in Nat /\ I \in SUBSET (1..N)
  BY DEF Digits
<1>3. CASE I = {}
  <2>1. \A i \in 1..N : part[i] = 0
    BY <1>3
  <2> HIDE DEF I
  <2> QED
    BY <1>1, <1>2, <1>3, <2>1 DEF IsLastDigit
<1>4. CASE I # {}
  <2> DEFINE g == Greatest(I)
  <2>1. g \in I /\ \A y \in I : g >= y
    <3> HIDE DEF I, N
    <3> QED
      BY <1>2, <1>4, GreatestOf
  <2>2. LastDigit(part) = g
    BY <1>1, <1>4
  <2> HIDE DEF g
  <2>3. g \in 1..N /\ part[g] # 0
    BY <2>1
  <2>4. ASSUME NEW i \in 1..N, g < i PROVE part[i] = 0
    BY <2>1, <2>3, <2>4
  <2> HIDE DEF I
  <2> QED
    BY <1>2, <2>2, <2>3, <2>4 DEF IsLastDigit
<1> QED
  BY <1>3, <1>4

LEMMA LastDigitIsUnique ==
  ASSUME NEW part \in Digits, NEW n, IsLastDigit(part, n)
  PROVE  LastDigit(part) = n
<1> DEFINE N == Len(part)
           m == LastDigit(part)
<1>1. N \in Nat
  BY DEF Digits
<1>2. /\ m \in 0..N /\ (m # 0 => part[m] # 0) /\ \A i \in 1..N : m < i => part[i] = 0
      /\ n \in 0..N /\ (n # 0 => part[n] # 0) /\ \A i \in 1..N : n < i => part[i] = 0
  BY LastDigitIs DEF IsLastDigit
<1> HIDE DEF N, m
<1>3. ~(m < n) /\ ~(n < m)
  BY <1>1, <1>2
<1>4. m = n
  BY <1>1, <1>2, <1>3
<1> QED
  BY <1>4 DEF m

LEMMA PrefixOfDigits ==
  ASSUME NEW s \in Digits, NEW k \in 0..Len(s)
  PROVE  /\ SubSeq(s, 1, k) \in Digits /\ Len(SubSeq(s, 1, k)) = k
         /\ \A i \in 1..k : SubSeq(s, 1, k)[i] = s[i]
         /\ \A j \in 0..k : SubSeq(SubSeq(s, 1, k), 1, j) = SubSeq(s, 1, j)
         /\ SubSeq(s, 1, Len(s)) = s
<1>1. /\ SubSeq(s, 1, k) \in Digits /\ Len(SubSeq(s, 1, k)) = k
      /\ \A i \in 1..k : SubSeq(s, 1, k)[i] = s[i]
  BY DEF Digits
<1>2. ASSUME NEW j \in 0..k PROVE SubSeq(SubSeq(s, 1, k), 1, j) = SubSeq(s, 1, j)
  <2>1. /\ SubSeq(s, 1, j) \in Digits /\ Len(SubSeq(s, 1, j)) = j
        /\ \A i \in 1..j : SubSeq(s, 1, j)[i] = s[i]
    BY DEF Digits
  <2> DEFINE p == SubSeq(s, 1, k)
  <2>2. p \in Digits /\ j \in 0..Len(p) /\ \A i \in 1..j : p[i] = s[i]
    BY <1>1
  <2> HIDE DEF p
  <2>3. /\ SubSeq(p, 1, j) \in Digits /\ Len(SubSeq(p, 1, j)) = j
        /\ \A i \in 1..j : SubSeq(p, 1, j)[i] = p[i]
    BY <2>2 DEF Digits
  <2>4. \A i \in 1..j : SubSeq(p, 1, j)[i] = SubSeq(s, 1, j)[i]
    BY <2>1, <2>2, <2>3
  <2> DEFINE a == SubSeq(p, 1, j)
             b == SubSeq(s, 1, j)
  <2>5. a \in Seq(0..9) /\ b \in Seq(0..9) /\ Len(a) = Len(b) /\ Len(b) = j
        /\ \A i \in 1..j : a[i] = b[i]
    BY <2>1, <2>3, <2>4 DEF Digits
  <2> HIDE DEF a, b
  <2>6. a = b
    BY <2>5
  <2> QED
    BY <2>6 DEF a, b, p
<1>3. SubSeq(s, 1, Len(s)) = s
  BY DEF Digits
<1> QED
  BY <1>1, <1>2, <1>3

(* Digits cut after they were stripped have the value of the digits cut. *)
LEMMA CutOfStripped ==
  ASSUME NEW part \in Digits, NEW n \in Nat
  PROVE  Strip(Cut(Strip(part), n)) = Strip(Cut(part, n)) /\ Cut(part, n) \in Digits
<1> DEFINE N == Len(part)
           a == LastDigit(part)
           s == Strip(part)
<1>1. N \in Nat /\ a \in 0..N /\ (a # 0 => part[a] # 0)
      /\ \A i \in 1..N : a < i => part[i] = 0
  BY LastDigitIs DEF IsLastDigit, Digits
<1>2. /\ s \in Digits /\ Len(s) = a /\ (\A i \in 1..a : s[i] = part[i])
      /\ s = SubSeq(part, 1, a)
      /\ \A j \in 0..a : SubSeq(s, 1, j) = SubSeq(part, 1, j)
  BY <1>1, PrefixOfDigits DEF Strip
<1> HIDE DEF s, N, a
<1>3. CASE n >= a
  <2> DEFINE c == Cut(part, n)
             k == Len(c)
  <2>1. Cut(s, n) = s
    BY <1>1, <1>2, <1>3 DEF Cut
  <2>2. /\ c \in Digits /\ k \in Nat /\ a <= k /\ k <= N
        /\ (\A i \in 1..k : c[i] = part[i])
        /\ \A j \in 0..k : SubSeq(c, 1, j) = SubSeq(part, 1, j)
    <3>1. CASE n < N
      <4>1. n \in 0..N /\ c = SubSeq(part, 1, n)
        BY <1>1, <3>1 DEF Cut, N
      <4> HIDE DEF c
      <4>2. /\ c \in Digits /\ Len(c) = n /\ \A i \in 1..n : c[i] = part[i]
            /\ \A j \in 0..n : SubSeq(c, 1, j) = SubSeq(part, 1, j)
        BY <4>1, PrefixOfDigits DEF N
      <4> QED
        BY <1>1, <1>3, <4>1, <4>2
    <3>2. CASE ~(n < N)
      <4>1. c = part
        BY <3>2 DEF Cut, N
      <4> HIDE DEF c
      <4> QED
        BY <1>1, <4>1 DEF N
    <3> QED
      BY <3>1, <3>2
  <2> HIDE DEF c
  <2>3. IsLastDigit(c, a)
    <3>1. a \in 0..k
      BY <1>1, <2>2
    <3>2. a # 0 => c[a] # 0
      BY <1>1, <2>2
    <3>3. \A i \in 1..k : a < i => c[i] = 0
      BY <1>1, <2>2
    <3> QED
      BY <3>1, <3>2, <3>3 DEF IsLastDigit
  <2>4. IsLastDigit(s, a)
    <3>1. \A i \in 1..a : ~(a < i)
      BY <1>1
    <3> QED
      BY <1>1, <1>2, <3>1 DEF IsLastDigit
  <2>5. Strip(c) = SubSeq(c, 1, a) /\ Strip(s) = SubSeq(s, 1, a)
    BY <1>2, <2>2, <2>3, <2>4, LastDigitIsUnique DEF Strip
  <2>6. a \in 0..k /\ a \in 0..a
    BY <1>1, <2>2
  <2> HIDE DEF k
  <2>7. Strip(c) = Strip(s)
    BY <1>2, <2>2, <2>5, <2>6
  <2> QED
    BY <2>1, <2>2, <2>7 DEF c, s
<1>4. CASE n < a
  <2>1. n < N /\ n \in 0..a /\ n \in 0..N
    BY <1>1, <1>4
  <2>2. Cut(s, n) = SubSeq(part, 1, n)
    BY <1>2, <1>4, <2>1 DEF Cut
  <2>3. Cut(part, n) = SubSeq(part, 1, n)
    BY <2>1 DEF Cut, N
  <2>4. Cut(part, n) \in Digits
    BY <2>1, <2>3, PrefixOfDigits DEF N
  <2> QED
    BY <2>2, <2>3, <2>4 DEF s
<1>5. n >= a \/ n < a
  BY <1>1
<1> QED
  BY <1>3, <1>4, <1>5

LEMMA JoinOfSlices ==
  ASSUME NEW s \in Digits, NEW a \in 0..Len(s), NEW b \in a..Len(s)
  PROVE  /\ SubSeq(s, a + 1, b) \in Digits /\ Len(SubSeq(s, a + 1, b)) = b - a
         /\ SubSeq(s, 1, a) \o SubSeq(s, a + 1, b) = SubSeq(s, 1, b)
<1> DEFINE N == Len(s)
           p == SubSeq(s, 1, a)
           q == SubSeq(s, a + 1, b)
           r == SubSeq(s, 1, b)
<1>0. N \in Nat /\ a \in Nat /\ b \in Nat /\ a <= b /\ b <= N
  BY DEF Digits
<1>1. p \in Seq(0..9) /\ Len(p) = a /\ \A i \in 1..a : p[i] = s[i]
  BY PrefixOfDigits DEF Digits
<1>2. r \in Seq(0..9) /\ Len(r) = b /\ \A i \in 1..b : r[i] = s[i]
  <2>1. b \in 0..Len(s)
    BY <1>0
  <2> QED
    BY <2>1, PrefixOfDigits DEF Digits
<1>3. q \in Seq(0..9) /\ Len(q) = b - a /\ \A i \in 1..(b-a) : q[i] = s[a+i]
  BY <1>0 DEF Digits
<1> HIDE DEF p, q, r, N
<1>4. /\ p \o q \in Seq(0..9) /\ Len(p \o q) = b
      /\ \A i \in 1..b : (p \o q)[i] = IF i <= a THEN p[i] ELSE q[i-a]
  <2>1. /\ p \o q \in Seq(0..9) /\ Len(p \o q) = Len(p) + Len(q)
        /\ \A i \in 1..(Len(p) + Len(q)) : (p \o q)[i] = IF i <= Len(p) THEN p[i] ELSE q[i - Len(p)]
    BY <1>1, <1>3
  <2>2. Len(p) = a /\ Len(p) + Len(q) = b
    BY <1>0, <1>1, <1>3
  <2> QED
    BY <2>1, <2>2
<1>5. ASSUME NEW i \in 1..b PROVE (p \o q)[i] = r[i]
  <2>1. CASE i <= a
    BY <1>0, <1>1, <1>2, <1>4, <2>1
  <2>2. CASE ~(i <= a)
    <3>1. i - a \in 1..(b-a) /\ a + (i - a) = i
      BY <1>0, <2>2
    <3>2. q[i-a] = s[i]
      BY <1>3, <3>1
    <3> QED
      BY <1>2, <1>4, <2>2, <3>2
  <2> QED
    BY <2>1, <2>2
<1> DEFINE pq == p \o q
<1>6. pq \in Seq(0..9) /\ Len(pq) = b /\ \A i \in 1..b : pq[i] = r[i]
  BY <1>4, <1>5
<1> HIDE DEF pq
<1>7. pq = r
  BY <1>2, <1>6
<1> QED
  BY <1>3, <1>7 DEF p, q, r, pq, Digits

(* Where a group of three ends, counted from the first digit. *)
GroupEnd(length, groups, i) == length - 3 * (groups - i)

LEMMA GroupsOfThree ==
  ASSUME NEW L \in Nat \ {0}, NEW n, n = (L + 2) \div 3
  PROVE  /\ n \in Nat \ {0} /\ GroupEnd(L, n, n) = L
         /\ GroupEnd(L, n, 0) <= 0
         /\ \A i \in 1..n : /\ GroupEnd(L, n, i) \in 1..L
                            /\ GroupEnd(L, n, i) = GroupEnd(L, n, i - 1) + 3
<1>1. n \in Nat /\ 3 * n >= L /\ 3 * n <= L + 2
  OBVIOUS
<1>2. n # 0
  BY <1>1
<1>3. GroupEnd(L, n, n) = L /\ GroupEnd(L, n, 0) <= 0
  BY <1>1 DEF GroupEnd
<1>4. ASSUME NEW i \in 1..n
      PROVE  /\ GroupEnd(L, n, i) \in 1..L
             /\ GroupEnd(L, n, i) = GroupEnd(L, n, i - 1) + 3
  BY <1>1 DEF GroupEnd
<1> QED
  BY <1>1, <1>2, <1>3, <1>4

(* Grouped digits are the digits, with nothing between them. *)
LEMMA ThousandsFlatten ==
  ASSUME NEW digits \in Digits, digits # << >>
  PROVE  /\ Thousands(digits) \in Seq(Digits) /\ Len(Thousands(digits)) \in Nat \ {0}
         /\ FlattenSeq(Thousands(digits)) = digits
         /\ Len(Thousands(digits)) = 1 => Thousands(digits)[1] = digits
<1> DEFINE L == Len(digits)
           n == (L + 2) \div 3
           E(i) == GroupEnd(L, n, i)
           t == Thousands(digits)
<1>1. L \in Nat \ {0}
  BY DEF Digits
<1>2. /\ n \in Nat \ {0} /\ E(n) = L /\ E(0) <= 0
      /\ \A i \in 1..n : E(i) \in 1..L /\ E(i) = E(i - 1) + 3
  <2> HIDE DEF L
  <2>1. \E m : m = n
    OBVIOUS
  <2> QED
    BY <1>1, GroupsOfThree
<1>3. t = [i \in 1..n |-> SubSeq(digits, IF E(i) - 2 < 1 THEN 1 ELSE E(i) - 2, E(i))]
  <2>1. \A i \in 1..n : L - 3 * (n + 1 - i) + 1 = E(i) - 2 /\ (L - 3 * (n + 1 - i) + 1) + 2 = E(i)
    <3>1. n \in Nat /\ L \in Nat
      BY <1>1, <1>2
    <3> HIDE DEF n, L
    <3> QED
      BY <3>1 DEF GroupEnd
  <2>2. t = [i \in 1..n |-> SubSeq(digits, IF L - 3 * (n + 1 - i) + 1 < 1 THEN 1 ELSE L - 3 * (n + 1 - i) + 1,
                                           (L - 3 * (n + 1 - i) + 1) + 2)]
    BY Zenon DEF Thousands
  <2> HIDE DEF E, n, L
  <2> QED
    BY <2>1, <2>2
<1> HIDE DEF t, E, n
<1> DEFINE pre(i) == IF i = 0 THEN << >> ELSE SubSeq(digits, 1, E(i))
<1>4. ASSUME NEW i \in 1..n
      PROVE  t[i] \in Digits /\ pre(i-1) \o t[i] = pre(i)
  <2>1. E(i) \in 1..L /\ E(i) = E(i-1) + 3 /\ (i - 1 = 0 \/ (i - 1 \in 1..n /\ E(i-1) \in 1..L))
    BY <1>2
  <2>2. t[i] = SubSeq(digits, IF E(i) - 2 < 1 THEN 1 ELSE E(i) - 2, E(i))
    BY <1>3
  <2>3. CASE i = 1
    <3>1. E(i) - 2 <= 1
      <4>1. E(i - 1) <= 0 /\ E(i) \in Int /\ E(i-1) \in Int
        <5>1. i - 1 = 0
          BY <2>3
        <5>2. E(0) \in Int
          BY <1>1, <1>2 DEF GroupEnd, E
        <5> QED
          BY <1>2, <2>1, <5>1, <5>2
      <4> QED
        BY <2>1, <4>1
    <3>2. (IF E(i) - 2 < 1 THEN 1 ELSE E(i) - 2) = 1
      BY <2>1, <3>1
    <3>6. t[i] = SubSeq(digits, 1, E(i))
      BY <2>2, <3>2
    <3>7. i # 0 /\ i - 1 = 0
      BY <2>3
    <3>3. t[i] = SubSeq(digits, 1, E(i)) /\ pre(i-1) = << >> /\ pre(i) = SubSeq(digits, 1, E(i))
      BY <3>6, <3>7, Zenon
    <3>4. E(i) \in 0..Len(digits)
      BY <2>1
    <3>5. t[i] \in Digits
      BY <3>3, <3>4, PrefixOfDigits
    <3> HIDE DEF pre
    <3> QED
      BY <3>3, <3>5 DEF Digits
  <2>4. CASE i # 1
    <3>1. i - 1 # 0 /\ i - 1 \in 1..n /\ E(i-1) \in 1..L
      BY <2>1, <2>4
    <3> DEFINE a == E(i-1)
               b == E(i)
    <3>2. a \in 0..Len(digits) /\ b \in a..Len(digits) /\ b - 2 = a + 1 /\ ~(b - 2 < 1)
      <4>1. a \in 1..L /\ b \in 1..L /\ b = a + 3
        BY <2>1, <3>1
      <4> HIDE DEF a, b
      <4> QED
        BY <4>1
    <3>4. (IF b - 2 < 1 THEN 1 ELSE b - 2) = a + 1
      BY <3>2
    <3>5. t[i] = SubSeq(digits, a + 1, b)
      BY <2>2, <3>4
    <3>6. i # 0 /\ i - 1 # 0
      BY <3>1
    <3>3. t[i] = SubSeq(digits, a + 1, b) /\ pre(i-1) = SubSeq(digits, 1, a) /\ pre(i) = SubSeq(digits, 1, b)
      BY <3>5, <3>6, Zenon
    <3> HIDE DEF a, b, pre
    <3> QED
      BY <3>2, <3>3, JoinOfSlices
  <2> QED
    BY <2>3, <2>4
<1>5. t \in Seq(Digits) /\ Len(t) = n
  BY <1>2, <1>3, <1>4
<1>6. PICK f \in [0..Len(t) -> Seq(0..9)] :
        /\ f[0] = << >>
        /\ \A i \in 1..Len(t) : f[i] = f[i-1] \o t[i]
        /\ FlattenSeq(t) = f[Len(t)]
  BY <1>5, FlattenStages DEF Digits
<1> DEFINE T == {i \in 0..n : f[i] = pre(i)}
<1>7. 0 \in T
  BY <1>2, <1>6
<1>8. ASSUME NEW i \in 0..n, i < n, i \in T PROVE i + 1 \in T
  <2>1. i + 1 \in 1..n /\ (i + 1) - 1 = i /\ i + 1 \in 0..n
    BY <1>2, <1>8
  <2>2. f[i] = pre(i)
    BY <1>8
  <2> HIDE DEF pre
  <2>3. f[i+1] = f[i] \o t[i+1]
    BY <1>5, <1>6, <2>1
  <2>4. pre(i) \o t[i+1] = pre(i+1)
    BY <1>4, <2>1
  <2> QED
    BY <2>1, <2>2, <2>3, <2>4
<1> HIDE DEF T
<1>9. 0..n \subseteq T
  BY <1>2, <1>7, <1>8, BoundedInduction
<1>10. n \in 0..n /\ n # 0
  BY <1>2
<1>11. f[n] = SubSeq(digits, 1, L)
  BY <1>2, <1>9, <1>10 DEF T
<1>12. SubSeq(digits, 1, L) = digits
  <2>1. L \in 0..L
    BY <1>1
  <2> QED
    BY <2>1, PrefixOfDigits
<1>13. n = 1 => t[1] = digits
  <2> SUFFICES ASSUME n = 1 PROVE t[1] = digits
    OBVIOUS
  <2>1. << >> \o t[1] = SubSeq(digits, 1, L) /\ t[1] \in Digits
    BY <1>2, <1>4
  <2> QED
    BY <1>12, <2>1 DEF Digits
<1> QED
  BY <1>2, <1>5, <1>6, <1>11, <1>12, <1>13 DEF t

(* A number as the chain prints it. *)
IsInteger(text) == \E digits \in Digits : digits # << >> /\ text = Integer(digits)
IsDecimal(text) ==
  \E whole, part \in Digits : whole # << >> /\ part # << >> /\ text = Decimal(whole, part)
IsAmount(text) == IsInteger(text) \/ IsDecimal(text)

LEMMA StripNothing ==
  /\ Strip(<< >>) = << >> /\ Strip(<<0>>) = << >>
  /\ << >> \in Digits /\ <<0>> \in Digits
<1>1. << >> \in Digits /\ <<0>> \in Digits /\ Len(<< >>) = 0 /\ Len(<<0>>) = 1
  BY DEF Digits
<1>2. IsLastDigit(<< >>, 0) /\ IsLastDigit(<<0>>, 0)
  BY <1>1 DEF IsLastDigit
<1>3. Strip(<< >>) = SubSeq(<< >>, 1, 0) /\ Strip(<<0>>) = SubSeq(<<0>>, 1, 0)
  BY <1>1, <1>2, LastDigitIsUnique DEF Strip
<1>4. SubSeq(<< >>, 1, 0) = << >> /\ SubSeq(<<0>>, 1, 0) = << >>
  OBVIOUS
<1> QED
  BY <1>1, <1>3, <1>4

(* The value a literal must have: that of the text, its decimals cut. *)
CutValue(value, n) == [value EXCEPT !.part = Number(<< >>, Cut(value.part, n)).part]

LEMMA CutValueIs ==
  ASSUME NEW whole, NEW part \in Digits, NEW n \in Nat
  PROVE  CutValue(Number(whole, part), n) = Number(whole, Cut(part, n))
<1>1. Number(whole, part).part = Strip(part)
  BY NumberWithPart
<1>2. Number(<< >>, Cut(Strip(part), n)).part = Strip(Cut(part, n))
  BY NumberWithPart, CutOfStripped
<1>3. [Number(whole, part) EXCEPT !.part = Strip(Cut(part, n))] = Number(whole, Cut(part, n))
  BY NumberWithPart
<1> QED
  BY <1>1, <1>2, <1>3, Zenon DEF CutValue

-----------------------------------------------------------------------------
(* Texts with no mark, with one, and with a comma after some dots. *)

LEMMA CountNone ==
  ASSUME NEW text, NEW mark, \A i \in DOMAIN text.marks : text.marks[i] # mark
  PROVE  Count(text, mark) = 0
<1>1. {i \in DOMAIN text.marks : text.marks[i] = mark} = {}
  OBVIOUS
<1> QED
  BY <1>1, FS_EmptySet DEF Count

LEMMA CountOne ==
  ASSUME NEW text, NEW mark, NEW k \in DOMAIN text.marks,
         \A i \in DOMAIN text.marks : text.marks[i] = mark <=> i = k
  PROVE  Count(text, mark) = 1
<1>1. {i \in DOMAIN text.marks : text.marks[i] = mark} = {k}
  OBVIOUS
<1> QED
  BY <1>1, FS_Singleton DEF Count

LEMMA CountSome ==
  ASSUME NEW text, NEW mark, NEW n \in Nat, DOMAIN text.marks = 1..n,
         NEW k \in 1..n, text.marks[k] = mark
  PROVE  Count(text, mark) # 0
<1> DEFINE S == {i \in DOMAIN text.marks : text.marks[i] = mark}
<1>1. k \in S /\ S \subseteq 1..n
  OBVIOUS
<1>2. IsFiniteSet(1..n)
  BY FS_Interval
<1> HIDE DEF S
<1>3. IsFiniteSet(S)
  BY <1>1, <1>2, FS_Subset
<1>4. Cardinality(S) # 0
  BY <1>1, <1>3, FS_EmptySet
<1> QED
  BY <1>4 DEF Count, S

LEMMA NoMarks == \A s : s = << >> => DOMAIN s = {}
  OBVIOUS

LEMMA OneMark ==
  ASSUME NEW s, s = <<".">>
  PROVE  DOMAIN s = {1} /\ s[1] = "." /\ s # << >> /\ Len(s) = 1
  OBVIOUS

LEMMA OneGroup ==
  ASSUME NEW x, NEW s, s = <<x>>
  PROVE  s[1] = x
  OBVIOUS

LEMMA IntegerIs ==
  ASSUME NEW digits
  PROVE  /\ Integer(digits).groups = <<digits>> /\ Integer(digits).marks = << >>
         /\ Integer(digits).tail = "" /\ Integer(digits).groups[1] = digits
         /\ \A mark : Count(Integer(digits), mark) = 0
<1> DEFINE text == Integer(digits)
<1>1. text.groups = <<digits>> /\ text.marks = << >> /\ text.tail = ""
  BY DEF Integer, Text
<1> HIDE DEF text
<1>2. DOMAIN text.marks = {} /\ text.groups[1] = digits
  BY <1>1, NoMarks, OneGroup
<1>3. \A mark : Count(text, mark) = 0
  <2>1. \A mark : \A i \in DOMAIN text.marks : text.marks[i] # mark
    BY <1>2
  <2> QED
    BY <2>1, CountNone, Zenon
<1> QED
  BY <1>1, <1>2, <1>3, Zenon DEF text

(* Two groups of digits with a dot between them. *)
Dotted(text, whole, part) ==
  /\ text.groups[1] = whole /\ text.groups[2] = part /\ text.tail = ""
  /\ text.marks = <<".">> /\ text.marks # << >> /\ text.marks[1] = "." /\ Len(text.marks) = 1
  /\ Count(text, ",") = 0 /\ Count(text, ".") = 1

LEMMA DecimalIs ==
  ASSUME NEW whole, NEW part
  PROVE  Dotted(Decimal(whole, part), whole, part)
<1> DEFINE text == Decimal(whole, part)
           groups == text.groups
           marks == text.marks
<1>1. groups = <<whole, part>> /\ marks = <<".">> /\ text.tail = ""
  BY DEF Decimal, Text
<1> HIDE DEF text, groups, marks
<1>2. /\ DOMAIN marks = {1} /\ marks[1] = "." /\ marks # << >>
      /\ Len(marks) = 1
  BY <1>1, OneMark
<1>3. Count(text, ",") = 0
  <2>1. \A i \in DOMAIN marks : marks[i] # ","
    BY <1>2
  <2> QED
    BY <2>1, CountNone DEF marks
<1>4. Count(text, ".") = 1
  <2>1. 1 \in DOMAIN marks /\ \A i \in DOMAIN marks : marks[i] = "." <=> i = 1
    BY <1>2
  <2> QED
    BY <2>1, CountOne DEF marks
<1>5. groups[1] = whole /\ groups[2] = part
  BY <1>1
<1> QED
  BY <1>1, <1>2, <1>3, <1>4, <1>5, Zenon DEF Dotted, text, marks, groups

LEMMA ValueOfInteger ==
  ASSUME NEW digits
  PROVE  ValueOf(Integer(digits)) = Number(digits, << >>)
  BY IntegerIs, Zenon DEF ValueOf, ParseFloat

LEMMA ValueOfDecimal ==
  ASSUME NEW whole, NEW part
  PROVE  ValueOf(Decimal(whole, part)) = Number(whole, part)
<1> DEFINE text == Decimal(whole, part)
<1>0. Dotted(text, whole, part)
  BY DecimalIs
<1> HIDE DEF text
<1>1. /\ text.marks # << >> /\ text.marks[1] = "."
      /\ text.groups[1] = whole /\ text.groups[2] = part
  BY <1>0, Zenon DEF Dotted
<1>2. ValueOf(text) = Number(text.groups[1], text.groups[2])
  BY <1>1, Zenon DEF ValueOf, ParseFloat
<1> QED
  BY <1>1, <1>2, Zenon DEF text

(* A decimal is given to Pact as it is, its decimals cut. *)
LEMMA PactDecimal ==
  ASSUME NEW whole, whole # << >>, NEW part, NEW n
  PROVE  FormatDecimalForPact(Decimal(whole, part), n) = Accepted(Decimal(whole, Cut(part, n)))
<1> DEFINE text == Decimal(whole, part)
           commas == Count(text, ",")
           points == Count(text, ".")
<1>0. Dotted(text, whole, part)
  BY DecimalIs
<1> HIDE DEF text
<1>1. text.groups[1] = whole /\ text.groups[2] = part /\ text.marks # << >> /\ text.tail = ""
  BY <1>0, Zenon DEF Dotted
<1>2. commas = 0 /\ points = 1
  BY <1>0, Zenon DEF Dotted
<1> HIDE DEF commas, points
<1>3. commas # 1 /\ points <= 1
  BY <1>2
<1>4. NormaliseComma(text) = text
  BY <1>3, Zenon DEF NormaliseComma, commas
<1>5. LexesAsDecimal(text)
  BY <1>1, <1>2, <1>3, Zenon DEF LexesAsDecimal, commas, points
<1>6. FormatDecimalForPact(text, n) = Accepted(Decimal(text.groups[1], Cut(text.groups[2], n)))
  BY <1>1, <1>4, <1>5, Zenon DEF FormatDecimalForPact
<1> QED
  BY <1>1, <1>6, Zenon DEF text

LEMMA PactInteger ==
  ASSUME NEW digits, digits # << >>, NEW n
  PROVE  FormatDecimalForPact(Integer(digits), n) = Accepted(Decimal(digits, <<0>>))
<1> DEFINE text == Integer(digits)
           commas == Count(text, ",")
           points == Count(text, ".")
<1>1. text.groups[1] = digits /\ text.marks = << >> /\ text.tail = ""
  BY IntegerIs, Zenon
<1>2. commas = 0 /\ points = 0
  BY IntegerIs, Zenon
<1> HIDE DEF text, commas, points
<1>3. commas # 1 /\ points <= 1
  BY <1>2
<1>4. NormaliseComma(text) = text
  BY <1>3, Zenon DEF NormaliseComma, commas
<1>5. LexesAsDecimal(text)
  BY <1>1, <1>2, <1>3, Zenon DEF LexesAsDecimal, commas, points
<1>6. FormatDecimalForPact(text, n) = Accepted(Decimal(text.groups[1], <<0>>))
  BY <1>1, <1>4, <1>5, Zenon DEF FormatDecimalForPact
<1> QED
  BY <1>1, <1>6, Zenon DEF text

LEMMA AcceptedIs == \A text : Accepted(text).ok /\ Accepted(text).text = text
  BY DEF Accepted

LEMMA RefusedIs == ~Refused.ok
  BY DEF Refused

(* The literal has the value of the amount, cut. *)
LEMMA LiteralHasTheValue ==
  ASSUME NEW text, IsAmount(text), NEW n \in Nat
  PROVE  /\ FormatDecimalForPact(text, n).ok
         /\ ValueOf(FormatDecimalForPact(text, n).text) = CutValue(ValueOf(text), n)
<1>1. CASE IsInteger(text)
  <2>1. PICK digits \in Digits : digits # << >> /\ text = Integer(digits)
    BY <1>1 DEF IsInteger
  <2>2. FormatDecimalForPact(text, n) = Accepted(Decimal(digits, <<0>>))
    BY <2>1, PactInteger
  <2>3. ValueOf(Decimal(digits, <<0>>)) = Number(digits, <<0>>)
    BY ValueOfDecimal
  <2>4. CutValue(ValueOf(text), n) = Number(digits, Cut(<< >>, n))
    BY <2>1, ValueOfInteger, CutValueIs, StripNothing
  <2>5. Cut(<< >>, n) = << >>
    BY DEF Cut
  <2>6. Number(digits, <<0>>) = Number(digits, << >>)
    BY NumberIs, StripNothing, Zenon
  <2> QED
    BY <2>2, <2>3, <2>4, <2>5, <2>6, AcceptedIs
<1>2. CASE IsDecimal(text)
  <2>1. PICK whole \in Digits, part \in Digits : whole # << >> /\ text = Decimal(whole, part)
    BY <1>2 DEF IsDecimal
  <2>2. FormatDecimalForPact(text, n) = Accepted(Decimal(whole, Cut(part, n)))
    BY <2>1, PactDecimal
  <2>3. ValueOf(Decimal(whole, Cut(part, n))) = Number(whole, Cut(part, n))
    BY ValueOfDecimal
  <2>4. CutValue(ValueOf(text), n) = Number(whole, Cut(part, n))
    BY <2>1, ValueOfDecimal, CutValueIs
  <2> QED
    BY <2>2, <2>3, <2>4, AcceptedIs
<1> QED
  BY <1>1, <1>2 DEF IsAmount

(* An integer, and no decimal, is an integer literal, as it is. *)
LEMMA IntegerLiteral ==
  ASSUME NEW text, IsAmount(text)
  PROVE  /\ FormatIntegerForPact(text).ok <=> text.marks = << >>
         /\ FormatIntegerForPact(text).ok => FormatIntegerForPact(text).text = text
<1>1. CASE IsInteger(text)
  <2>1. text.marks = << >> /\ text.tail = "" /\ text.groups[1] # << >>
    BY <1>1, IntegerIs DEF IsInteger
  <2>2. FormatIntegerForPact(text) = Accepted(text)
    BY <2>1 DEF FormatIntegerForPact
  <2> QED
    BY <2>1, <2>2, AcceptedIs
<1>2. CASE IsDecimal(text)
  <2>1. PICK whole \in Digits, part \in Digits : text = Decimal(whole, part)
    BY <1>2, Zenon DEF IsDecimal
  <2>4. Dotted(text, whole, part)
    BY <2>1, DecimalIs
  <2>2. text.marks # << >>
    BY <2>4, Zenon DEF Dotted
  <2>3. FormatIntegerForPact(text) = Refused
    BY <2>2 DEF FormatIntegerForPact
  <2> QED
    BY <2>2, <2>3, RefusedIs
<1> QED
  BY <1>1, <1>2 DEF IsAmount

-----------------------------------------------------------------------------
(* What is shown of a decimal. *)

Dots(n) == [i \in 1..(n - 1) |-> "."]
Shown(whole, part) ==
  Text(Append(Thousands(whole), part), Append(Dots(Len(Thousands(whole))), ","), "")

LEMMA ShownIs ==
  ASSUME NEW whole \in Digits, whole # << >>, NEW part \in Digits, part # << >>
  PROVE  FormatEU(Decimal(whole, part)) = Shown(whole, part)
<1> DEFINE text == Decimal(whole, part)
<1>1. Dotted(text, whole, part)
  BY DecimalIs
<1>2. << >> \notin ToSet(text.groups)
  <2> DEFINE groups == text.groups
  <2>1. groups = <<whole, part>>
    BY DEF Decimal, Text
  <2> HIDE DEF groups
  <2>2. ToSet(groups) = {whole, part}
    BY <2>1 DEF ToSet
  <2>3. << >> \notin ToSet(groups)
    BY <2>2
  <2> QED
    BY <2>3 DEF groups
<1> HIDE DEF text
<1>3. text.tail \in {"", "unit"} /\ text.marks \in {<< >>, <<".">>}
  BY <1>1, Zenon DEF Dotted
<1>4. text.tail = "" /\ text.marks # << >> /\ text.groups[1] = whole /\ text.groups[2] = part
  BY <1>1, Zenon DEF Dotted
<1>5. FormatEU(text) = Shown(whole, part)
  BY <1>2, <1>3, <1>4, Zenon DEF FormatEU, Shown, Dots
<1> QED
  BY <1>5 DEF text

LEMMA AppendIs ==
  ASSUME NEW K, NEW s \in Seq(K), NEW x \in K
  PROVE  /\ DOMAIN Append(s, x) = 1..(Len(s) + 1) /\ Len(Append(s, x)) = Len(s) + 1
         /\ Append(s, x)[Len(s) + 1] = x /\ \A i \in 1..Len(s) : Append(s, x)[i] = s[i]
  OBVIOUS

LEMMA OneSlice ==
  ASSUME NEW K, NEW s \in Seq(K), NEW k \in 1..Len(s)
  PROVE  SubSeq(s, k, k) = <<s[k]>>
<1> DEFINE p == SubSeq(s, k, k)
           x == s[k]
<1>1. p \in Seq(K) /\ Len(p) = 1 /\ p[1] = x
  OBVIOUS
<1> HIDE DEF p, x
<1>2. p = <<x>>
  BY <1>1
<1> QED
  BY <1>2 DEF p, x

(* Its groups and its marks. *)
ShownAs(text, t, part, n) ==
  /\ text.tail = ""
  /\ text.groups \in Seq(Digits) /\ Len(text.groups) = n + 1
  /\ SubSeq(text.groups, 1, n) = t /\ SubSeq(text.groups, n + 1, n + 1) = <<part>>
  /\ text.groups[1] = t[1] /\ text.groups[n+1] = part
  /\ DOMAIN text.marks = 1..n /\ Len(text.marks) = n
  /\ text.marks[n] = "," /\ \A i \in 1..n : i < n => text.marks[i] = "."

LEMMA ShownFields ==
  ASSUME NEW whole \in Digits, whole # << >>, NEW part \in Digits
  PROVE  ShownAs(Shown(whole, part), Thousands(whole), part, Len(Thousands(whole)))
<1> DEFINE t == Thousands(whole)
           n == Len(t)
           groups == Append(t, part)
           marks == Append(Dots(n), ",")
           text == Shown(whole, part)
<1>1. t \in Seq(Digits) /\ n \in Nat \ {0}
  BY ThousandsFlatten
<1>2. text.groups = groups /\ text.marks = marks /\ text.tail = ""
  BY DEF Shown, Text
<1> HIDE DEF t
<1>3. groups \in Seq(Digits) /\ Len(groups) = n + 1 /\ groups[n+1] = part
      /\ \A i \in 1..n : groups[i] = t[i]
  BY <1>1
<1>4. SubSeq(groups, 1, n) = t
  <2> DEFINE p == SubSeq(groups, 1, n)
  <2> HIDE DEF groups, n
  <2>1. p \in Seq(Digits) /\ Len(p) = n /\ \A i \in 1..n : p[i] = groups[i]
    BY <1>1, <1>3
  <2>2. \A i \in 1..n : p[i] = t[i]
    BY <1>3, <2>1
  <2> HIDE DEF p
  <2>3. p = t
    BY <1>1, <2>1, <2>2 DEF n
  <2> QED
    BY <2>3 DEF p
<1>5. SubSeq(groups, n + 1, n + 1) = <<part>>
  <2>1. n + 1 \in 1..Len(groups)
    BY <1>1, <1>3
  <2> HIDE DEF groups, n
  <2> QED
    BY <1>3, <2>1, OneSlice
<1>6. /\ DOMAIN marks = 1..n /\ Len(marks) = n /\ marks[n] = ","
      /\ \A i \in 1..n : i < n => marks[i] = "."
  <2> DEFINE d == Dots(n)
  <2> HIDE DEF n
  <2>1. d \in Seq({".", ","}) /\ Len(d) = n - 1 /\ \A i \in 1..(n-1) : d[i] = "."
    BY <1>1 DEF Dots
  <2> HIDE DEF d
  <2>2. (n - 1) + 1 = n
    BY <1>1
  <2>3. /\ DOMAIN Append(d, ",") = 1..n /\ Len(Append(d, ",")) = n /\ Append(d, ",")[n] = ","
        /\ \A i \in 1..(n-1) : Append(d, ",")[i] = d[i]
    <3>1. "," \in {".", ","}
      OBVIOUS
    <3> DEFINE D == {".", ","}
               c == ","
    <3>2. d \in Seq(D) /\ c \in D
      BY <2>1
    <3> HIDE DEF D, c
    <3>3. /\ DOMAIN Append(d, c) = 1..(Len(d) + 1) /\ Len(Append(d, c)) = Len(d) + 1
          /\ Append(d, c)[Len(d) + 1] = c /\ \A i \in 1..Len(d) : Append(d, c)[i] = d[i]
      BY <3>2, AppendIs
    <3>4. Len(d) + 1 = n /\ Len(d) = n - 1
      BY <2>1, <2>2
    <3> QED
      BY <3>3, <3>4 DEF c
  <2>4. \A i \in 1..n : i < n => i \in 1..(n-1)
    BY <1>1
  <2>5. \A i \in 1..n : i < n => Append(d, ",")[i] = "."
    BY <2>1, <2>3, <2>4
  <2> QED
    BY <2>3, <2>5 DEF d
<1>7. groups[1] = t[1]
  BY <1>1, <1>3
<1> HIDE DEF groups, marks, text, n
<1> QED
  BY <1>2, <1>3, <1>4, <1>5, <1>6, <1>7, Zenon DEF ShownAs, t, n, text

LEMMA FlattenOne ==
  ASSUME NEW X, NEW s \in Seq(X)
  PROVE  FlattenSeq(<<s>>) = s
<1> DEFINE ss == <<s>>
<1>1. ss \in Seq(Seq(X)) /\ Len(ss) = 1 /\ ss[1] = s
  OBVIOUS
<1> HIDE DEF ss
<1>2. PICK f \in [0..Len(ss) -> Seq(X)] :
        /\ f[0] = << >>
        /\ \A n \in 1..Len(ss) : f[n] = f[n-1] \o ss[n]
        /\ FlattenSeq(ss) = f[Len(ss)]
  BY <1>1, FlattenStages
<1>3. FlattenSeq(ss) = << >> \o s
  <2>1. 1 \in 1..Len(ss) /\ 1 - 1 = 0
    BY <1>1
  <2>2. f[1] = f[0] \o ss[1]
    BY <1>2, <2>1
  <2> QED
    BY <1>1, <1>2, <2>2
<1> QED
  BY <1>3 DEF ss

(* The first comma of such a text, and that no other follows. *)
LEMMA CommaIs ==
  ASSUME NEW text, NEW t, NEW part, NEW n \in Nat \ {0}, ShownAs(text, t, part, n)
  PROVE  /\ Places(text, ",") = n
         /\ SelectInSubSeq(text.marks, n + 1, Len(text.marks), LAMBDA m : m = ",") = 0
<1> DEFINE marks == text.marks
           I == {i \in 1..Len(marks) : marks[i] = ","}
           J == {i \in (n+1)..Len(marks) : marks[i] = ","}
<1>1. Len(marks) = n /\ marks[n] = "," /\ \A i \in 1..n : i < n => marks[i] = "."
  BY Zenon DEF ShownAs
<1>2. I = {n}
  <2> HIDE DEF marks
  <2>0. \A i \in 1..n : i < n \/ i = n
    OBVIOUS
  <2>1. \A i \in 1..n : marks[i] = "," <=> i = n
    <3>1. "." # ","
      OBVIOUS
    <3> QED
      BY <1>1, <2>0, <3>1, Zenon
  <2>2. n \in 1..n
    OBVIOUS
  <2> QED
    BY <1>1, <2>1, <2>2
<1>3. J = {}
  <2> HIDE DEF marks
  <2>1. (n+1)..n = {}
    OBVIOUS
  <2> QED
    BY <1>1, <2>1
<1>4. Places(text, ",") = IF I # {} THEN CHOOSE x \in I : \A y \in I : x =< y ELSE 0
  BY Zenon DEF Places, SelectInSeq, Min
<1>5. SelectInSubSeq(marks, n + 1, Len(marks), LAMBDA m : m = ",")
        = IF J # {} THEN CHOOSE x \in J : \A y \in J : x =< y ELSE 0
  BY Zenon DEF SelectInSubSeq, Min
<1> HIDE DEF I, J
<1>6. Places(text, ",") = n
  <2>1. I # {} /\ n \in I /\ (\A y \in I : n =< y) /\ \A x \in I : x = n
    BY <1>2
  <2> QED
    BY <1>4, <2>1
<1> QED
  BY <1>3, <1>5, <1>6

LEMMA ShownIsReadBack ==
  ASSUME NEW whole \in Digits, whole # << >>, NEW part \in Digits
  PROVE  ParseEU(Shown(whole, part)) = Number(whole, part)
<1> DEFINE t == Thousands(whole)
           n == Len(t)
           text == Shown(whole, part)
           comma == Places(text, ",")
           after == SelectInSubSeq(text.marks, comma + 1, Len(text.marks), LAMBDA m : m = ",")
<1>1. t \in Seq(Digits) /\ n \in Nat \ {0} /\ FlattenSeq(t) = whole
  BY ThousandsFlatten
<1>2. ShownAs(text, t, part, n)
  BY ShownFields
<1> HIDE DEF t, n, text
<1>3. comma = n /\ after = 0
  BY <1>1, <1>2, CommaIs
<1>4. comma > 0 /\ text.tail # "placeholder"
  <2>1. n > 0
    BY <1>1
  <2>2. text.tail = ""
    BY <1>2, Zenon DEF ShownAs
  <2> QED
    BY <1>3, <2>1, <2>2
<1>5. ParseEU(text) = Number(FlattenSeq(SubSeq(text.groups, 1, comma)),
                             FlattenSeq(SubSeq(text.groups, comma + 1, Len(text.groups))))
  <2>1. (IF after = 0 THEN Len(text.groups) ELSE after) = Len(text.groups)
    BY <1>3
  <2>2. ParseEU(text) = Number(FlattenSeq(SubSeq(text.groups, 1, comma)),
                               FlattenSeq(SubSeq(text.groups, comma + 1, IF after = 0 THEN Len(text.groups) ELSE after)))
    BY <1>4, Zenon DEF ParseEU
  <2> QED
    BY <2>1, <2>2
<1>6. SubSeq(text.groups, 1, n) = t /\ Len(text.groups) = n + 1
      /\ SubSeq(text.groups, n + 1, n + 1) = <<part>>
  BY <1>2, Zenon DEF ShownAs
<1>7. FlattenSeq(<<part>>) = part
  BY FlattenOne DEF Digits
<1> QED
  BY <1>1, <1>3, <1>5, <1>6, <1>7 DEF text

LEMMA TextWith ==
  ASSUME NEW g, NEW m, NEW u, NEW x
  PROVE  [Text(g, m, u) EXCEPT !.marks = x] = Text(Text(g, m, u).groups, x, Text(g, m, u).tail)
<1>1. Text(g, m, u).groups = g /\ Text(g, m, u).tail = u
  BY DEF Text
<1>2. [Text(g, m, u) EXCEPT !.marks = x] = Text(g, x, u)
  BY DEF Text
<1> QED
  BY <1>1, <1>2, Zenon

(* What is shown is refused where a literal is typed, for its dots or has  *)
(* none and says the same with its comma.                                  *)
LEMMA ShownIsTyped ==
  ASSUME NEW whole \in Digits, whole # << >>, NEW part \in Digits, NEW n \in Nat
  PROVE  LET typed == FormatDecimalForPact(Shown(whole, part), n)
         IN typed.ok => ValueOf(typed.text) = Number(whole, Cut(part, n))
<1> DEFINE t == Thousands(whole)
           k == Len(t)
           text == Shown(whole, part)
           typed == FormatDecimalForPact(text, n)
<1>1. t \in Seq(Digits) /\ k \in Nat \ {0} /\ (k = 1 => t[1] = whole)
  BY ThousandsFlatten
<1>2. ShownAs(text, t, part, k)
  BY ShownFields
<1>4. [text EXCEPT !.marks = <<".">>] = Text(text.groups, <<".">>, text.tail)
  <2> DEFINE g == Append(t, part)
             m == Append(Dots(k), ",")
             u == ""
             x == <<".">>
  <2>1. text = Text(g, m, u)
    BY DEF Shown
  <2> HIDE DEF g, m, u, x, text
  <2>2. [text EXCEPT !.marks = x] = Text(text.groups, x, text.tail)
    BY <2>1, TextWith
  <2> QED
    BY <2>2 DEF x
<1> HIDE DEF t, k, text
<1>5. /\ DOMAIN text.marks = 1..k /\ text.marks[k] = "," /\ text.tail = ""
      /\ \A i \in 1..k : i < k => text.marks[i] = "."
      /\ text.groups[1] = t[1] /\ text.groups[k+1] = part /\ Len(text.groups) = k + 1
      /\ text.groups \in Seq(Digits)
  BY <1>2, Zenon DEF ShownAs
<1>6. Count(text, ",") = 1
  <2> DEFINE marks == text.marks
  <2>1. k \in 1..k /\ \A i \in 1..k : marks[i] = "," <=> i = k
    <3> HIDE DEF marks
    <3>1. marks[k] = "," /\ \A i \in 1..k : i < k => marks[i] = "."
      BY <1>5 DEF marks
    <3>2. k \in 1..k /\ \A i \in 1..k : i < k \/ i = k
      BY <1>1
    <3>3. "." # ","
      OBVIOUS
    <3> QED
      BY <3>1, <3>2, <3>3, Zenon
  <2> HIDE DEF marks
  <2>2. DOMAIN marks = 1..k
    BY <1>5 DEF marks
  <2>3. k \in DOMAIN marks /\ \A i \in DOMAIN marks : marks[i] = "," <=> i = k
    BY <2>1, <2>2
  <2> QED
    BY <2>3, CountOne DEF marks
<1>7. CASE k = 1
  <2>1. Count(text, ".") = 0
    <3>1. \A i \in 1..k : i = k
      BY <1>7
    <3>2. \A i \in DOMAIN text.marks : text.marks[i] # "."
      BY <1>5, <3>1
    <3> QED
      BY <3>2, CountNone
  <2>2. NormaliseComma(text) = [text EXCEPT !.marks = <<".">>]
    BY <1>6, <2>1, Zenon DEF NormaliseComma
  <2>3. text.groups = <<whole, part>>
    <3> DEFINE groups == text.groups
    <3>0. k + 1 = 2
      BY <1>7
    <3>1. groups \in Seq(Digits) /\ Len(groups) = 2 /\ groups[1] = whole /\ groups[2] = part
      BY <1>1, <1>5, <1>7, <3>0, Zenon
    <3> HIDE DEF groups
    <3>2. groups = <<whole, part>>
      BY <3>1
    <3> QED
      BY <3>2 DEF groups
  <2>4. NormaliseComma(text) = Decimal(whole, part)
    BY <1>4, <1>5, <2>2, <2>3, Zenon DEF Decimal
  <2>5. NormaliseComma(Decimal(whole, part)) = Decimal(whole, part)
    <3> DEFINE d == Decimal(whole, part)
               commas == Count(d, ",")
    <3>1. Dotted(d, whole, part)
      BY DecimalIs
    <3> HIDE DEF d
    <3>2. commas = 0
      BY <3>1, Zenon DEF Dotted
    <3> HIDE DEF commas
    <3>3. commas # 1
      BY <3>2
    <3>4. NormaliseComma(d) = d
      BY <3>3, Zenon DEF NormaliseComma, commas
    <3> QED
      BY <3>4 DEF d
  <2>6. typed = FormatDecimalForPact(Decimal(whole, part), n)
    BY <2>4, <2>5, Zenon DEF FormatDecimalForPact
  <2>7. typed = Accepted(Decimal(whole, Cut(part, n)))
    BY <2>6, PactDecimal
  <2>8. ValueOf(typed.text) = Number(whole, Cut(part, n))
    BY <2>7, AcceptedIs, ValueOfDecimal
  <2> QED
    BY <2>8 DEF text
<1>8. CASE k # 1
  <2>1. 1 \in 1..k /\ 1 < k
    BY <1>1, <1>8
  <2>2. text.marks[1] = "."
    BY <1>5, <2>1
  <2>3. Count(text, ".") # 0
    BY <1>1, <1>5, <2>1, <2>2, CountSome
  <2>4. NormaliseComma(text) = text
    BY <2>3, Zenon DEF NormaliseComma
  <2>5. ~LexesAsDecimal(text)
    <3> DEFINE commas == Count(text, ",")
    <3>1. commas = 1
      BY <1>6
    <3> HIDE DEF commas
    <3>2. commas # 0
      BY <3>1
    <3> QED
      BY <3>2, Zenon DEF LexesAsDecimal, commas
  <2>6. typed = Refused
    BY <2>4, <2>5, Zenon DEF FormatDecimalForPact
  <2> QED
    BY <2>6, RefusedIs DEF text
<1> QED
  BY <1>7, <1>8

(* What the screen and a transaction make of an amount. *)
LEMMA AmountsHold ==
  ASSUME IsAmount(balance)
  PROVE  AmountsMeanWhatTheySay
<1> DEFINE n == MaxDecimals
           value == ValueOf(balance)
           cut == CutValue(value, n)
           literal == FormatDecimalForPact(balance, n)
           integer == FormatIntegerForPact(balance)
           shown == FormatEU(balance)
           typed == FormatDecimalForPact(shown, n)
<1>1. n \in Nat
  BY DecimalsAssumption
<1>2. literal.ok /\ ValueOf(literal.text) = cut
  BY <1>1, LiteralHasTheValue
<1>3. (integer.ok <=> balance.marks = << >>) /\ (integer.ok => integer.text = balance)
  BY IntegerLiteral
<1>4. ASSUME balance.marks # << >>
      PROVE  ParseEU(shown) = value /\ (typed.ok => ValueOf(typed.text) = cut)
  <2>1. ~IsInteger(balance)
    BY <1>4, IntegerIs DEF IsInteger
  <2>2. PICK whole \in Digits, part \in Digits :
          whole # << >> /\ part # << >> /\ balance = Decimal(whole, part)
    BY <2>1, Zenon DEF IsAmount, IsDecimal
  <2>3. shown = Shown(whole, part)
    BY <2>2, ShownIs
  <2>4. value = Number(whole, part) /\ cut = Number(whole, Cut(part, n))
    BY <1>1, <2>2, ValueOfDecimal, CutValueIs
  <2> HIDE DEF cut, value
  <2>5. ParseEU(shown) = value
    BY <2>2, <2>3, <2>4, ShownIsReadBack
  <2>6. typed.ok => ValueOf(typed.text) = cut
    BY <1>1, <2>2, <2>3, <2>4, ShownIsTyped
  <2> QED
    BY <2>5, <2>6
<1> QED
  BY <1>2, <1>3, <1>4, Zenon DEF AmountsMeanWhatTheySay, CutValue

-----------------------------------------------------------------------------
(* The reads. *)

Top == Len(Ledger)
Heights == 1..Top

LEMMA TopIsNat == Top \in Nat /\ 1 <= Top
  BY LedgerAssumption DEF Top

(* A read has these fields. *)
IsRead(r) == DOMAIN r = {"state", "pin", "hosts", "ended", "since", "outcome"}

ReadsAreRecords ==
  /\ reads = [c \in Calls |-> reads[c]]
  /\ \A c \in Calls : IsRead(reads[c])

(* The failover contract, the chain and the wiring. *)
WorldOK ==
  /\ pair \in [primary : Hosts, fallback : Hosts]
  /\ active \in {pair.primary, pair.fallback}
  /\ tried \in [Calls -> Seq(Hosts)] /\ onPrimary \in [Calls -> BOOLEAN]
  /\ heads \in [Hosts -> Heights]
  /\ reader \in Pins /\ resolver \in {"default", "live"}
  /\ logger \in [Channels -> {"console", "consumer"}] /\ lines \subseteq {"console", "consumer"}

(* A read that is not under way asks nobody. *)
AtRest(c) ==
  reads[c].state \in {"none", "reported"} =>
    /\ tried[c] = << >> /\ reads[c].pin = "none"
    /\ reads[c].hosts = << >> /\ reads[c].ended = << >>
    /\ reads[c].outcome.code = ""

(* A read under way has asked the pinned node, or as many as failover      *)
(* sent it to, of which each but the last has failed over the network.     *)
UnderWay(c) ==
  reads[c].state = "reading" =>
    /\ IF Pinned(c)
       THEN /\ tried[c] = << >> /\ reads[c].pin \in Hosts
            /\ reads[c].hosts = <<reads[c].pin>> /\ reads[c].ended = << >>
       ELSE /\ Len(reads[c].hosts) = Len(tried[c])
            /\ \/ Len(tried[c]) = 1 /\ Len(reads[c].ended) = 0
               \/ Len(tried[c]) = 2 /\ Len(reads[c].ended) = 1 /\ reads[c].ended[1] \in NetworkErrors
    /\ reads[c].outcome.code = ""

(* It remembers heights that its nodes have reached. *)
SinceReached(c) ==
  reads[c].state = "reading" =>
    /\ reads[c].since \in [Hosts -> Heights]
    /\ \A h \in Hosts : reads[c].since[h] <= heads[h]

TimeoutAgrees(ended, code) ==
  /\ Len(ended) = 0 => code # "TIMEOUT"
  /\ Len(ended) # 0 => (code = "TIMEOUT" <=> ended[Len(ended)] = "timer")

(* A settled read ended as its last attempt did. *)
EndedAs(c) ==
  reads[c].state = "settled" =>
    /\ tried[c] = << >>
    /\ Pinned(c) => reads[c].hosts = <<reads[c].pin>> /\ Len(reads[c].ended) = 1
    /\ Len(reads[c].hosts) = 0 \/ Len(reads[c].hosts) = 1 \/ Len(reads[c].hosts) = 2
    /\ Len(reads[c].hosts) = 2 => Len(reads[c].ended) = 2 /\ reads[c].ended[1] \in NetworkErrors
    /\ TimeoutAgrees(reads[c].ended, reads[c].outcome.code)

Endings == Failures \cup {"answer"}

ReadInv(c) ==
  /\ reads[c].state \in {"none", "reading", "settled", "reported"}
  /\ reads[c].hosts \in Seq(Hosts) /\ reads[c].ended \in Seq(Endings)
  /\ AtRest(c) /\ UnderWay(c) /\ SinceReached(c) /\ EndedAs(c)

(* The balance was read at a height its node has reached. *)
LastOK ==
  \/ last = [host |-> NoHost, since |-> 0] /\ balance = ZeroText
  \/ /\ last \in [host : Hosts, since : Heights]
     /\ \E k \in last.since..heads[last.host] : BalanceAt(k).ok /\ BalanceAt(k).text = balance

WInv == WorldOK /\ ReadsAreRecords /\ LastOK /\ \A c \in Calls : ReadInv(c)

(* Only the ledger says that the row is missing: no other failure a node   *)
(* may answer is taken for it.                                             *)
OtherFailuresAreOther ==
  \A phrases \in Messages : CreateSimulationError(phrases) # "ACCOUNT_NOT_FOUND"

(* A balance in the ledger is a number as the chain prints it. *)
LedgerHoldsAmounts ==
  \A k \in Heights : BalanceAt(k).ok => IsAmount(BalanceAt(k).text)

-----------------------------------------------------------------------------
(* What the state says of the properties. *)

LEMMA InvImpliesTypeOK == WInv => TypeOK
<1> SUFFICES ASSUME WInv PROVE TypeOK
  OBVIOUS
<1>1. pair \in Failover!Pairs
  BY DEF WInv, WorldOK, Failover!Pairs
<1>2. ASSUME NEW c \in Calls
      PROVE  /\ reads[c].state \in {"none", "reading", "settled", "reported"}
             /\ tried[c] # << >> => reads[c].state = "reading" /\ ~Pinned(c)
  BY DEF WInv, ReadInv, AtRest, UnderWay, EndedAs
<1>3. last \in [host : Hosts, since : Heights] \cup {[host |-> NoHost, since |-> 0]}
  BY DEF WInv, LastOK
<1> QED
  BY <1>1, <1>2, <1>3 DEF WInv, WorldOK, TypeOK, Heights, Top

LEMMA InvImpliesAmount ==
  ASSUME WInv, LedgerHoldsAmounts
  PROVE  IsAmount(balance)
<1>1. CASE balance = ZeroText
  <2>1. <<0>> \in Digits /\ <<0>> # << >>
    BY DEF Digits
  <2>2. IsInteger(balance)
    BY <1>1, <2>1 DEF IsInteger, ZeroText
  <2> QED
    BY <2>2 DEF IsAmount
<1>2. CASE /\ last \in [host : Hosts, since : Heights]
           /\ \E k \in last.since..heads[last.host] : BalanceAt(k).ok /\ BalanceAt(k).text = balance
  <2>1. last.since \in Heights /\ heads[last.host] \in Heights
    BY <1>2 DEF WInv, WorldOK
  <2>2. PICK k \in last.since..heads[last.host] : BalanceAt(k).ok /\ BalanceAt(k).text = balance
    BY <1>2
  <2>3. k \in Heights
    BY <2>1, TopIsNat DEF Heights
  <2> QED
    BY <2>2, <2>3 DEF LedgerHoldsAmounts
<1> QED
  BY <1>1, <1>2 DEF WInv, LastOK

LEMMA AtMostTwo == \A n : (n = 0 \/ n = 1 \/ n = 2 => n <= 2) /\ (n = 1 => n <= 1)
  OBVIOUS

LEMMA InvImpliesHonest == WInv => ReadsAreHonest
<1> SUFFICES ASSUME WInv PROVE ReadsAreHonest
  OBVIOUS
<1>1. BalanceIsRead
  <2>1. CASE last = [host |-> NoHost, since |-> 0] /\ balance = ZeroText
    BY <2>1 DEF BalanceIsRead
  <2>2. CASE /\ last \in [host : Hosts, since : Heights]
             /\ \E k \in last.since..heads[last.host] : BalanceAt(k).ok /\ BalanceAt(k).text = balance
    <3>1. last.host # NoHost
      BY <2>2, NodeAssumption
    <3> QED
      BY <2>2, <3>1 DEF BalanceIsRead
  <2> QED
    BY <2>1, <2>2 DEF WInv, LastOK
<1>2. ASSUME NEW c \in Calls
      PROVE  /\ Pinned(c) /\ reads[c].hosts # << >>
                  => reads[c].hosts = <<reads[c].pin>> /\ Len(reads[c].ended) <= 1
             /\ Len(reads[c].hosts) <= 2
             /\ Len(reads[c].hosts) = 2 => reads[c].ended[1] \in NetworkErrors
             /\ reads[c].state = "settled" =>
                  (reads[c].outcome.code = "TIMEOUT"
                     <=> /\ reads[c].ended # << >>
                         /\ reads[c].ended[Len(reads[c].ended)] = "timer")
  <2> DEFINE state == reads[c].state
             hosts == reads[c].hosts
             ended == reads[c].ended
             pin == reads[c].pin
             code == reads[c].outcome.code
  <2>1. ReadInv(c)
    BY DEF WInv
  <2>2. hosts \in Seq(Hosts) /\ ended \in Seq(Endings)
    BY <2>1 DEF ReadInv
  <2>3. CASE state \in {"none", "reported"}
    <3>1. hosts = << >> /\ state # "settled"
      BY <2>1, <2>3 DEF ReadInv, AtRest
    <3> HIDE DEF hosts, state
    <3> QED
      BY <3>1 DEF hosts, state
  <2>4. CASE state = "reading"
    <3>1. CASE Pinned(c)
      <4>1. hosts = <<pin>> /\ ended = << >>
        BY <2>1, <2>4, <3>1 DEF ReadInv, UnderWay
      <4> HIDE DEF hosts, ended, pin
      <4>2. Len(hosts) = 1 /\ Len(ended) = 0
        BY <4>1
      <4> QED
        BY <2>4, <4>1, <4>2 DEF hosts, ended, pin
    <3>2. CASE ~Pinned(c)
      <4>1. /\ Len(hosts) = Len(tried[c])
            /\ \/ Len(tried[c]) = 1 /\ Len(ended) = 0
               \/ Len(tried[c]) = 2 /\ Len(ended) = 1 /\ ended[1] \in NetworkErrors
        BY <2>1, <2>4, <3>2 DEF ReadInv, UnderWay
      <4>2. Len(hosts) = 1 \/ (Len(hosts) = 2 /\ ended[1] \in NetworkErrors)
        BY <4>1, Zenon
      <4>3. Len(hosts) <= 2
        BY <4>2, AtMostTwo, Zenon
      <4>4. Len(hosts) = 2 => ended[1] \in NetworkErrors
        <5> DEFINE m == Len(hosts)
        <5>1. m = 1 \/ (m = 2 /\ ended[1] \in NetworkErrors)
          BY <4>2
        <5> HIDE DEF m
        <5>2. m = 2 => ended[1] \in NetworkErrors
          BY <5>1
        <5> QED
          BY <5>2 DEF m
      <4> QED
        BY <2>4, <3>2, <4>3, <4>4
    <3> QED
      BY <3>1, <3>2
  <2>5. CASE state = "settled"
    <3>1. /\ Pinned(c) => hosts = <<pin>> /\ Len(ended) = 1
          /\ Len(hosts) = 0 \/ Len(hosts) = 1 \/ Len(hosts) = 2
          /\ Len(hosts) = 2 => Len(ended) = 2 /\ ended[1] \in NetworkErrors
          /\ TimeoutAgrees(ended, code)
      BY <2>1, <2>5 DEF ReadInv, EndedAs
    <3>2. /\ hosts # << >> /\ Pinned(c) => hosts = <<pin>> /\ Len(ended) <= 1
          /\ Len(hosts) <= 2
          /\ Len(hosts) = 2 => ended[1] \in NetworkErrors
          /\ code = "TIMEOUT" <=> ended # << >> /\ ended[Len(ended)] = "timer"
      <4> HIDE DEF hosts, ended, pin, code
      <4>1. ended = << >> <=> Len(ended) = 0
        BY <2>2
      <4>2. code = "TIMEOUT" <=> ended # << >> /\ ended[Len(ended)] = "timer"
        BY <3>1, <4>1 DEF TimeoutAgrees
      <4>3. Len(hosts) <= 2 /\ (Len(ended) = 1 => Len(ended) <= 1)
        BY <3>1, AtMostTwo, Zenon
      <4> QED
        BY <3>1, <4>2, <4>3, Zenon
    <3> QED
      BY <3>2
  <2> QED
    BY <2>1, <2>3, <2>4, <2>5 DEF ReadInv
<1> QED
  BY <1>1, <1>2 DEF ReadsAreHonest

-----------------------------------------------------------------------------
(* A step changes one read at most. *)

Becomes(c, r) == reads' = [reads EXCEPT ![c] = r]

LEMMA OneReadChanges ==
  ASSUME ReadsAreRecords, NEW c \in Calls, NEW r, IsRead(r), Becomes(c, r)
  PROVE  /\ ReadsAreRecords'
         /\ reads'[c] = r
         /\ \A f \in Calls \ {c} : reads'[f] = reads[f]
<1>1. reads' = [f \in Calls |-> IF f = c THEN r ELSE reads[f]]
  BY DEF ReadsAreRecords, Becomes
<1>2. reads'[c] = r /\ \A f \in Calls \ {c} : reads'[f] = reads[f]
  BY <1>1
<1>3. \A f \in Calls : IsRead(reads'[f])
  <2> SUFFICES ASSUME NEW f \in Calls PROVE IsRead(reads'[f])
    OBVIOUS
  <2>1. CASE f = c
    BY <2>1, <1>2
  <2>2. CASE f # c
    BY <2>2, <1>2 DEF ReadsAreRecords
  <2> QED
    BY <2>1, <2>2
<1>4. reads' = [f \in Calls |-> reads'[f]]
  BY <1>1, <1>2
<1> QED
  BY <1>2, <1>3, <1>4 DEF ReadsAreRecords

(* A read is not disturbed by what happens elsewhere, as heights only grow. *)
LEMMA UndisturbedReadKeeps ==
  ASSUME NEW f \in Calls, ReadInv(f), reads'[f] = reads[f], tried'[f] = tried[f],
         \A h \in Hosts : heads[h] \in Nat /\ heads'[h] \in Nat /\ heads[h] <= heads'[h]
  PROVE  ReadInv(f)'
<1>1. (reads[f].state \in {"none", "reading", "settled", "reported"})'
      /\ (reads[f].hosts \in Seq(Hosts))' /\ (reads[f].ended \in Seq(Endings))'
      /\ AtRest(f)' /\ EndedAs(f)'
  BY DEF ReadInv, AtRest, EndedAs, Pinned
<1>2. UnderWay(f)'
  BY DEF ReadInv, UnderWay, Pinned
<1>3. SinceReached(f)'
  <2> SUFFICES ASSUME reads[f].state = "reading" PROVE SinceReached(f)'
    BY DEF SinceReached
  <2> DEFINE since == reads[f].since
  <2>1. since \in [Hosts -> Heights] /\ \A h \in Hosts : since[h] <= heads[h]
    BY DEF ReadInv, SinceReached
  <2> HIDE DEF since
  <2>2. \A h \in Hosts : since[h] \in Nat
    BY <2>1, TopIsNat DEF Heights
  <2>3. \A h \in Hosts : since[h] <= heads'[h]
    BY <2>1, <2>2
  <2> QED
    BY <2>1, <2>3 DEF SinceReached, since
<1> QED
  BY <1>1, <1>2, <1>3 DEF ReadInv

LEMMA OneReadSuffices ==
  ASSUME WInv, NEW c \in Calls, NEW r, IsRead(r), Becomes(c, r),
         WorldOK', LastOK', heads' = heads,
         \A f \in Calls \ {c} : tried'[f] = tried[f], ReadInv(c)'
  PROVE  WInv'
<1>1. ReadsAreRecords' /\ \A f \in Calls \ {c} : reads'[f] = reads[f]
  BY OneReadChanges DEF WInv
<1>2. \A h \in Hosts : heads[h] \in Nat /\ heads'[h] \in Nat /\ heads[h] <= heads'[h]
  BY TopIsNat DEF WInv, WorldOK, Heights
<1>3. ASSUME NEW f \in Calls \ {c} PROVE ReadInv(f)'
  BY <1>1, <1>2, UndisturbedReadKeeps DEF WInv
<1> QED
  BY <1>1, <1>3 DEF WInv

-----------------------------------------------------------------------------
(* The steps of a read. *)

LEMMA UnresolvedKeeps ==
  ASSUME WInv, NEW c \in Calls, Unresolved(c)
  PROVE  WInv'
<1> DEFINE r == [Unread EXCEPT !.state = "settled", !.outcome = Failed("NOT_CONFIGURED")]
<1>1. Becomes(c, r) /\ IsRead(r)
  BY DEF Unresolved, Becomes, IsRead, Unread
<1>2. /\ r.state = "settled" /\ r.pin = "none" /\ r.hosts = << >> /\ r.ended = << >>
      /\ r.outcome.code # "TIMEOUT"
  BY DEF Unread, Failed
<1> HIDE DEF r
<1>3. reads'[c] = r
  BY <1>1, OneReadChanges DEF WInv
<1>4. tried' = tried /\ tried[c] = << >>
  BY DEF Unresolved, failoverVars, WInv, ReadInv, AtRest
<1>5. ReadInv(c)'
  <2>1. Len(r.hosts) = 0 /\ Len(r.ended) = 0 /\ r.hosts \in Seq(Hosts) /\ r.ended \in Seq(Endings)
    BY <1>2
  <2>2. TimeoutAgrees(r.ended, r.outcome.code)
    BY <1>2, <2>1 DEF TimeoutAgrees
  <2>3. EndedAs(c)'
    <3>1. tried'[c] = << >>
      BY <1>4
    <3>2. ~Pinned(c)'
      BY <1>2, <1>3 DEF Pinned
    <3>3. Len(reads'[c].hosts) = 0
      BY <1>3, <2>1
    <3>4. TimeoutAgrees(reads'[c].ended, reads'[c].outcome.code)
      BY <1>3, <2>2
    <3>5. TimeoutAgrees(reads[c].ended, reads[c].outcome.code)'
      BY <3>4 DEF TimeoutAgrees
    <3> QED
      BY <3>1, <3>2, <3>3, <3>5 DEF EndedAs
  <2> QED
    BY <1>2, <1>3, <2>1, <2>3 DEF ReadInv, AtRest, UnderWay, SinceReached
<1>6. WorldOK' /\ LastOK' /\ heads' = heads
  BY DEF Unresolved, failoverVars, wiring, WInv, WorldOK, LastOK
<1> QED
  BY <1>1, <1>4, <1>5, <1>6, OneReadSuffices

LEMMA ReadPinnedKeeps ==
  ASSUME WInv, NEW c \in Calls, ReadPinned(c)
  PROVE  WInv'
<1> DEFINE r == [Unread EXCEPT !.state = "reading", !.pin = reader,
                               !.hosts = <<reader>>, !.since = heads]
<1>1. Becomes(c, r) /\ IsRead(r)
  BY DEF ReadPinned, Start, Becomes, IsRead, Unread
<1>2. /\ r.state = "reading" /\ r.pin = reader /\ r.hosts = <<reader>> /\ r.ended = << >>
      /\ r.since = heads /\ r.outcome.code = ""
  BY DEF Unread, Failed
<1> HIDE DEF r
<1>3. reads'[c] = r
  BY <1>1, OneReadChanges DEF WInv
<1>4. tried' = tried /\ tried[c] = << >>
  BY DEF ReadPinned, failoverVars, WInv, ReadInv, AtRest
<1>5. WorldOK' /\ LastOK' /\ heads' = heads
  BY DEF ReadPinned, failoverVars, wiring, WInv, WorldOK, LastOK
<1>6. reader \in Hosts /\ heads \in [Hosts -> Heights]
  BY NodeAssumption DEF ReadPinned, WInv, WorldOK
<1>7. \A h \in Hosts : heads[h] <= heads[h]
  BY <1>6, TopIsNat DEF Heights
<1>8. UnderWay(c)' /\ SinceReached(c)'
  BY <1>2, <1>3, <1>4, <1>5, <1>6, <1>7 DEF UnderWay, SinceReached, Pinned, ReadPinned
<1>9. ReadInv(c)'
  <2>1. <<reader>> \in Seq(Hosts) /\ << >> \in Seq(Endings)
    BY <1>6
  <2> QED
    BY <1>2, <1>3, <1>8, <2>1 DEF ReadInv, AtRest, EndedAs
<1> QED
  BY <1>1, <1>4, <1>5, <1>9, OneReadSuffices

LEMMA ReadWithFailoverKeeps ==
  ASSUME WInv, NEW c \in Calls, ReadWithFailover(c)
  PROVE  WInv'
<1> DEFINE r == [Unread EXCEPT !.state = "reading", !.pin = reader,
                               !.hosts = <<active>>, !.since = heads]
<1>1. Becomes(c, r) /\ IsRead(r)
  BY DEF ReadWithFailover, Start, Becomes, IsRead, Unread
<1>2. /\ r.state = "reading" /\ r.pin = reader /\ r.hosts = <<active>> /\ r.ended = << >>
      /\ r.since = heads /\ r.outcome.code = ""
  BY DEF Unread, Failed
<1> HIDE DEF r
<1>3. reads'[c] = r
  BY <1>1, OneReadChanges DEF WInv
<1>4. active \in Hosts /\ heads \in [Hosts -> Heights]
  BY DEF WInv, WorldOK
<1>5. /\ tried' = [tried EXCEPT ![c] = <<active>>]
      /\ onPrimary' \in [Calls -> BOOLEAN]
      /\ UNCHANGED <<pair, active>>
  BY DEF ReadWithFailover, Failover!Begin, WInv, WorldOK
<1>6. /\ tried'[c] = <<active>> /\ \A f \in Calls \ {c} : tried'[f] = tried[f]
      /\ tried' \in [Calls -> Seq(Hosts)]
  BY <1>4, <1>5 DEF WInv, WorldOK
<1>7. WorldOK' /\ LastOK' /\ heads' = heads
  BY <1>5, <1>6 DEF ReadWithFailover, wiring, WInv, WorldOK, LastOK
<1>8. \A h \in Hosts : heads[h] <= heads[h]
  BY <1>4, TopIsNat DEF Heights
<1>9. UnderWay(c)'
  <2>1. ~Pinned(c)'
    BY <1>2, <1>3 DEF Pinned, ReadWithFailover
  <2>2. Len(<<active>>) = 1 /\ Len(<< >>) = 0 /\ 0 = 1 - 1
    OBVIOUS
  <2>3. reads'[c].hosts = <<active>> /\ tried'[c] = <<active>> /\ reads'[c].ended = << >>
    BY <1>2, <1>3, <1>6
  <2>4. /\ Len(tried'[c]) = 1 /\ Len(reads'[c].hosts) = Len(tried'[c])
        /\ Len(reads'[c].ended) = 0
    BY <2>2, <2>3
  <2>5. reads'[c].outcome.code = ""
    BY <1>2, <1>3
  <2> QED
    BY <2>1, <2>4, <2>5 DEF UnderWay
<1>11. SinceReached(c)'
  BY <1>2, <1>3, <1>4, <1>7, <1>8 DEF SinceReached
<1>10. ReadInv(c)'
  <2>1. <<active>> \in Seq(Hosts) /\ << >> \in Seq(Endings)
    BY <1>4
  <2> QED
    BY <1>2, <1>3, <1>9, <1>11, <2>1 DEF ReadInv, AtRest, EndedAs
<1> QED
  BY <1>1, <1>6, <1>7, <1>10, OneReadSuffices

LEMMA ReportKeeps ==
  ASSUME WInv, NEW c \in Calls, Report(c)
  PROVE  WInv'
<1> DEFINE r == [Unread EXCEPT !.state = "reported"]
<1>1. Becomes(c, r) /\ IsRead(r)
  BY DEF Report, Becomes, IsRead, Unread
<1>2. /\ r.state = "reported" /\ r.pin = "none" /\ r.hosts = << >> /\ r.ended = << >>
      /\ r.outcome.code = ""
  BY DEF Unread, Failed
<1> HIDE DEF r
<1>3. reads'[c] = r
  BY <1>1, OneReadChanges DEF WInv
<1>4. tried' = tried /\ tried[c] = << >>
  BY DEF Report, failoverVars, WInv, ReadInv, EndedAs
<1>5. ReadInv(c)'
  <2>1. << >> \in Seq(Hosts) /\ << >> \in Seq(Endings)
    OBVIOUS
  <2> QED
    BY <1>2, <1>3, <1>4, <2>1 DEF ReadInv, AtRest, UnderWay, SinceReached, EndedAs
<1>6. lines' \subseteq {"console", "consumer"}
  BY DEF Report, WInv, WorldOK, Channels
<1>7. WorldOK' /\ LastOK' /\ heads' = heads
  BY <1>6 DEF Report, failoverVars, WInv, WorldOK, LastOK
<1> QED
  BY <1>1, <1>4, <1>5, <1>7, OneReadSuffices

(* The node a read under way is waiting for is one of the nodes. *)
LEMMA AskedIsAHost ==
  ASSUME WInv, NEW c \in Calls, reads[c].state = "reading"
  PROVE  /\ Asked(c) \in Hosts
         /\ reads[c].since[Asked(c)] \in Heights /\ heads[Asked(c)] \in Heights
         /\ reads[c].since[Asked(c)] <= heads[Asked(c)]
<1>1. UnderWay(c) /\ SinceReached(c)
  BY DEF WInv, ReadInv
<1>2. Asked(c) \in Hosts
  <2>1. CASE Pinned(c)
    BY <1>1, <2>1 DEF UnderWay, Asked
  <2>2. CASE ~Pinned(c)
    <3> DEFINE t == tried[c]
    <3>1. t \in Seq(Hosts) /\ (Len(t) = 1 \/ Len(t) = 2)
      BY <1>1, <2>2 DEF UnderWay, WInv, WorldOK
    <3> HIDE DEF t
    <3> DEFINE n == Len(t)
    <3>2. n \in Nat /\ (n = 1 \/ n = 2) /\ \A i \in 1..n : t[i] \in Hosts
      BY <3>1
    <3> HIDE DEF n
    <3>3. n \in 1..n
      BY <3>2
    <3>4. t[Len(t)] \in Hosts
      BY <3>2, <3>3 DEF n
    <3> QED
      BY <2>2, <3>4 DEF Asked, Last, t
  <2> QED
    BY <2>1, <2>2
<1>3. heads \in [Hosts -> Heights]
  BY DEF WInv, WorldOK
<1> QED
  BY <1>1, <1>2, <1>3 DEF SinceReached

(* How a read ends: with what its last attempt said. *)
LEMMA SettleKeeps ==
  ASSUME WInv, NEW c \in Calls, reads[c].state = "reading",
         NEW how \in Endings, NEW outcome,
         outcome.code = "TIMEOUT" <=> how = "timer",
         outcome.ok => \E k \in Heights :
           /\ k \in reads[c].since[Asked(c)]..heads[Asked(c)]
           /\ BalanceAt(k).ok /\ BalanceAt(k).text = outcome.text,
         Settle(c, how, outcome), UNCHANGED <<heads, wiring>>
  PROVE  WInv'
<1> DEFINE old == reads[c].ended
           ended == Append(old, how)
           r == [reads[c] EXCEPT !.state = "settled", !.ended = ended,
                                 !.since = << >>, !.outcome = outcome]
<1>2. IsRead(reads[c]) /\ ReadInv(c)
  BY DEF WInv, ReadsAreRecords
<1>1. Becomes(c, r) /\ IsRead(r)
  <2>1. IsRead(r)
    BY <1>2 DEF IsRead
  <2>2. reads' = [reads EXCEPT ![c] = Settled(c, how, outcome)]
    BY DEF Settle
  <2>3. Settled(c, how, outcome) = r
    BY DEF Settled
  <2>4. Becomes(c, r)
    BY <2>2, <2>3 DEF Becomes
  <2> QED
    BY <2>1, <2>4
<1>3. /\ r.state = "settled" /\ r.pin = reads[c].pin /\ r.hosts = reads[c].hosts
      /\ r.ended = ended /\ r.outcome = outcome
  BY <1>2 DEF IsRead
<1> HIDE DEF r
<1>4. reads'[c] = r
  BY <1>1, OneReadChanges DEF WInv
<1>5. /\ UNCHANGED <<pair, active>>
      /\ tried'[c] = << >> /\ tried' \in [Calls -> Seq(Hosts)]
      /\ onPrimary' \in [Calls -> BOOLEAN]
      /\ \A f \in Calls \ {c} : tried'[f] = tried[f]
  <2>1. CASE Pinned(c)
    BY <1>2, <2>1 DEF Settle, failoverVars, WInv, WorldOK, ReadInv, UnderWay
  <2>2. CASE ~Pinned(c)
    <3>1. Failover!Return(c)
      BY <2>2 DEF Settle
    <3>2. << >> \in Seq(Hosts)
      OBVIOUS
    <3> QED
      BY <3>1, <3>2 DEF Failover!Return, WInv, WorldOK
  <2> QED
    BY <2>1, <2>2
<1>6. WorldOK' /\ heads' = heads
  BY <1>5 DEF wiring, WInv, WorldOK
<1>7. LastOK'
  <2>1. CASE outcome.ok
    <3> DEFINE host == Asked(c)
               since == reads[c].since[Asked(c)]
    <3>1. balance' = outcome.text /\ last' = [host |-> host, since |-> since]
      BY <2>1 DEF Settle, WrittenBy
    <3>2. host \in Hosts /\ since \in Heights
      BY AskedIsAHost
    <3>3. \E k \in since..heads[host] : BalanceAt(k).ok /\ BalanceAt(k).text = outcome.text
      BY <2>1
    <3> HIDE DEF host, since
    <3> QED
      BY <1>6, <3>1, <3>2, <3>3 DEF LastOK
  <2>2. CASE ~outcome.ok
    BY <1>6, <2>2 DEF Settle, WInv, LastOK
  <2> QED
    BY <2>1, <2>2
<1>8. old \in Seq(Endings) /\ ended \in Seq(Endings) /\ Len(ended) = Len(old) + 1
      /\ ended[Len(ended)] = how /\ (Len(old) = 1 => ended[1] = old[1])
  <2>1. old \in Seq(Endings)
    BY <1>2 DEF ReadInv
  <2> HIDE DEF old
  <2> QED
    BY <2>1
<1>9. Len(old) = 0 \/ (Len(old) = 1 /\ ~Pinned(c) /\ old[1] \in NetworkErrors)
  <2>1. CASE Pinned(c)
    <3>1. old = << >>
      BY <1>2, <2>1 DEF ReadInv, UnderWay
    <3> HIDE DEF old
    <3> QED
      BY <3>1
  <2>2. CASE ~Pinned(c)
    BY <1>2, <2>2 DEF ReadInv, UnderWay
  <2> QED
    BY <2>1, <2>2
<1>10. /\ Pinned(c) => r.hosts = <<r.pin>>
       /\ Len(r.hosts) = 1 \/ (Len(r.hosts) = 2 /\ Len(old) = 1)
  <2>1. CASE Pinned(c)
    <3>1. r.hosts = <<r.pin>>
      BY <1>2, <1>3, <2>1 DEF ReadInv, UnderWay
    <3>2. Len(<<r.pin>>) = 1
      OBVIOUS
    <3> QED
      BY <3>1, <3>2
  <2>2. CASE ~Pinned(c)
    BY <1>2, <1>3, <2>2 DEF ReadInv, UnderWay
  <2> QED
    BY <2>1, <2>2
<1> HIDE DEF old, ended
<1>11. Len(ended) = 1 \/ Len(ended) = 2
  <2>1. Len(old) = 0 => Len(ended) = 1
    BY <1>8
  <2>2. Len(old) = 1 => Len(ended) = 2
    BY <1>8
  <2> QED
    BY <1>9, <2>1, <2>2
<1>12. TimeoutAgrees(ended, outcome.code)
  BY <1>8, <1>11 DEF TimeoutAgrees
<1>13. /\ Pinned(c) => Len(ended) = 1
       /\ Len(r.hosts) = 2 => Len(ended) = 2 /\ ended[1] \in NetworkErrors
  <2>1. Len(old) = 0 => Len(ended) = 1
    BY <1>8
  <2>2. Len(old) = 1 => Len(ended) = 2 /\ ended[1] = old[1]
    BY <1>8
  <2>3. Len(r.hosts) = 2 => Len(old) = 1
    BY <1>10
  <2> QED
    BY <1>9, <2>1, <2>2, <2>3
<1>14. EndedAs(c)'
  <2>1. Pinned(c)' <=> Pinned(c)
    BY <1>3, <1>4 DEF Pinned
  <2>2. TimeoutAgrees(reads[c].ended, reads[c].outcome.code)'
    BY <1>3, <1>4, <1>12 DEF TimeoutAgrees
  <2>3. /\ Pinned(c) => reads'[c].hosts = <<reads'[c].pin>> /\ Len(reads'[c].ended) = 1
        /\ Len(reads'[c].hosts) = 1 \/ Len(reads'[c].hosts) = 2
        /\ Len(reads'[c].hosts) = 2 =>
             Len(reads'[c].ended) = 2 /\ reads'[c].ended[1] \in NetworkErrors
    BY <1>3, <1>4, <1>10, <1>13
  <2> QED
    BY <1>5, <2>1, <2>2, <2>3 DEF EndedAs
<1>15. ReadInv(c)'
  <2>1. r.hosts \in Seq(Hosts) /\ r.ended \in Seq(Endings)
    BY <1>2, <1>3, <1>8 DEF ReadInv
  <2> QED
    BY <1>3, <1>4, <1>14, <2>1 DEF ReadInv, AtRest, UnderWay, SinceReached
<1> QED
  BY <1>1, <1>5, <1>6, <1>7, <1>15, OneReadSuffices

LEMMA Outcomes ==
  /\ \A text : Value(text).ok = TRUE /\ Value(text).code = ""
  /\ \A code : Failed(code).ok = FALSE /\ Failed(code).code = code
  BY DEF Value, Failed

(* What a resolver makes of an answer is never a TIMEOUT; it is a balance  *)
(* only if the answer is the ledger's.                                     *)
LEMMA ResolvedIsOfTheLedger ==
  ASSUME OtherFailuresAreOther, NEW host, NEW answer \in Answers(host)
  PROVE  /\ Resolve(answer).code # "TIMEOUT"
         /\ Resolve(answer).ok => answer = Ledger[heads[host]]
<1> DEFINE code == CreateSimulationError(answer.phrases)
<1>1. code # "TIMEOUT"
  BY DEF CreateSimulationError
<1>2. ASSUME answer \in [status : {"failure"}, phrases : Messages]
      PROVE  answer.status # "success" /\ code # "ACCOUNT_NOT_FOUND"
  BY <1>2 DEF OtherFailuresAreOther
<1> HIDE DEF code
<1>3. CASE answer.status = "success"
  <2> DEFINE text == MayComeWithDeimal(answer.data)
  <2>1. Resolve(answer) = Value(text)
    BY <1>3 DEF Resolve
  <2> HIDE DEF text
  <2>2. Resolve(answer).code = ""
    BY <2>1, Outcomes
  <2>3. answer = Ledger[heads[host]]
    BY <1>2, <1>3 DEF Answers
  <2> QED
    BY <2>2, <2>3
<1>4. CASE answer.status # "success" /\ code = "ACCOUNT_NOT_FOUND"
  <2>1. Resolve(answer) = Value(ZeroText)
    BY <1>4 DEF Resolve, code
  <2>2. Resolve(answer).code = ""
    BY <2>1, Outcomes
  <2>3. answer = Ledger[heads[host]]
    BY <1>2, <1>4 DEF Answers
  <2> QED
    BY <2>2, <2>3
<1>5. CASE answer.status # "success" /\ code # "ACCOUNT_NOT_FOUND"
  <2>1. Resolve(answer) = Failed(code)
    BY <1>5 DEF Resolve, code
  <2>2. Resolve(answer).code = code /\ ~Resolve(answer).ok
    BY <2>1, Outcomes
  <2> QED
    BY <1>1, <2>2
<1> QED
  BY <1>3, <1>4, <1>5

LEMMA AnswerKeeps ==
  ASSUME WInv, OtherFailuresAreOther, NEW c \in Calls, Answer(c)
  PROVE  WInv'
<1> DEFINE host == Asked(c)
<1>1. reads[c].state = "reading" /\ UNCHANGED <<heads, wiring>>
  BY DEF Answer
<1>2. PICK answer \in Answers(host) : Settle(c, "answer", Resolve(answer))
  BY DEF Answer
<1> DEFINE outcome == Resolve(answer)
<1>3. outcome.code = "TIMEOUT" <=> "answer" = "timer"
  BY ResolvedIsOfTheLedger
<1>4. ASSUME outcome.ok
      PROVE  \E k \in Heights : /\ k \in reads[c].since[Asked(c)]..heads[Asked(c)]
                                /\ BalanceAt(k).ok /\ BalanceAt(k).text = outcome.text
  <2> DEFINE k == heads[host]
  <2>1. Resolve(answer) = BalanceAt(k)
    BY <1>4, ResolvedIsOfTheLedger DEF BalanceAt
  <2>2. /\ reads[c].since[host] \in Heights /\ k \in Heights
        /\ reads[c].since[host] <= k
    BY <1>1, AskedIsAHost
  <2>3. k \in reads[c].since[host]..k
    <3> DEFINE first == reads[c].since[host]
    <3>1. first \in Nat /\ k \in Nat /\ first <= k
      BY <2>2, TopIsNat DEF Heights
    <3> HIDE DEF first, k
    <3>2. k \in first..k
      BY <3>1
    <3> QED
      BY <3>2 DEF first
  <2>4. BalanceAt(k).ok /\ BalanceAt(k).text = outcome.text
    BY <1>4, <2>1
  <2> HIDE DEF outcome
  <2> QED
    BY <2>2, <2>3, <2>4
<1>5. Settle(c, "answer", outcome) /\ "answer" \in Endings
  BY <1>2 DEF Endings
<1> HIDE DEF outcome
<1> QED
  BY <1>1, <1>3, <1>4, <1>5, SettleKeeps

LEMMA FailsKeeps ==
  ASSUME WInv, NEW c \in Calls, NEW how \in Failures, Fails(c, how)
  PROVE  WInv'
<1> DEFINE outcome == Failed(ErrorOf(how))
<1>1. /\ reads[c].state = "reading" /\ UNCHANGED <<heads, wiring>>
      /\ Settle(c, how, outcome) /\ how \in Endings
  BY DEF Fails, Endings
<1>2. (outcome.code = "TIMEOUT" <=> how = "timer") /\ ~outcome.ok
  BY DEF Failed, ErrorOf
<1> HIDE DEF outcome
<1> QED
  BY <1>1, <1>2, SettleKeeps

(* The second attempt: the first one failed over the network, and the call *)
(* asks the fallback of now.                                               *)
LEMMA RetryKeeps ==
  ASSUME WInv, NEW c \in Calls, NEW how \in Failures, Retry(c, how)
  PROVE  WInv'
<1> DEFINE hosts == Append(reads[c].hosts, active')
           ended == Append(reads[c].ended, how)
           r == [reads[c] EXCEPT !.hosts = hosts, !.ended = ended]
<1>1. IsRead(reads[c]) /\ ReadInv(c)
  BY DEF WInv, ReadsAreRecords
<1>2. Becomes(c, r) /\ IsRead(r)
  BY <1>1 DEF Retry, Becomes, IsRead
<1>3. /\ r.state = "reading" /\ r.pin = reads[c].pin /\ r.since = reads[c].since
      /\ r.hosts = hosts /\ r.ended = ended /\ r.outcome = reads[c].outcome
  BY <1>1 DEF IsRead, Retry
<1> HIDE DEF r
<1>4. reads'[c] = r
  BY <1>2, OneReadChanges DEF WInv
<1>5. ~Pinned(c) /\ Len(tried[c]) = 1 /\ how \in NetworkErrors
  BY DEF Retry, CanRetry
<1>6. active' \in Hosts /\ tried[c] \in Seq(Hosts)
  BY DEF Retry, Failover!Retry, WInv, WorldOK
<1>7. /\ tried' = [tried EXCEPT ![c] = Append(tried[c], active')]
      /\ active' = pair.fallback /\ UNCHANGED <<pair, onPrimary>>
  BY DEF Retry, Failover!Retry
<1>8. /\ tried'[c] = Append(tried[c], active') /\ tried' \in [Calls -> Seq(Hosts)]
      /\ \A f \in Calls \ {c} : tried'[f] = tried[f]
  <2>1. Append(tried[c], active') \in Seq(Hosts)
    BY <1>6
  <2> QED
    BY <1>7, <2>1 DEF WInv, WorldOK
<1>9. WorldOK' /\ LastOK' /\ heads' = heads
  BY <1>7, <1>8 DEF Retry, wiring, WInv, WorldOK, LastOK
<1>10. /\ reads[c].hosts \in Seq(Hosts) /\ reads[c].ended \in Seq(Endings)
       /\ Len(reads[c].hosts) = 1 /\ Len(reads[c].ended) = 0
  <2> DEFINE h == Len(reads[c].hosts)
             e == Len(reads[c].ended)
             t == Len(tried[c])
  <2>1. h = t /\ ((t = 1 /\ e = 0) \/ (t = 2 /\ e = 1))
    BY <1>1, <1>5 DEF ReadInv, UnderWay, Retry
  <2>2. t = 1
    BY <1>5
  <2>3. reads[c].hosts \in Seq(Hosts) /\ reads[c].ended \in Seq(Endings)
    BY <1>1 DEF ReadInv
  <2> HIDE DEF h, e, t
  <2>4. h = 1 /\ e = 0
    BY <2>1, <2>2
  <2> QED
    BY <2>3, <2>4 DEF h, e
<1>11. hosts \in Seq(Hosts) /\ Len(hosts) = 2
  <2> DEFINE old == reads[c].hosts
             to == active'
  <2>1. old \in Seq(Hosts) /\ Len(old) = 1 /\ to \in Hosts
    BY <1>6, <1>10
  <2> HIDE DEF old, to
  <2>2. Append(old, to) \in Seq(Hosts)
    BY <2>1
  <2>3. Len(Append(old, to)) = 2
    BY <2>1
  <2> QED
    BY <2>2, <2>3 DEF old, to
<1>12. ended \in Seq(Endings) /\ Len(ended) = 1 /\ ended[1] = how
  BY <1>10 DEF Endings
<1>13. Len(tried'[c]) = 2
  <2> DEFINE old == tried[c]
             to == active'
  <2>1. old \in Seq(Hosts) /\ Len(old) = 1 /\ to \in Hosts
    BY <1>5, <1>6
  <2> HIDE DEF old, to
  <2>2. Len(Append(old, to)) = 2
    BY <2>1
  <2> QED
    BY <1>8, <2>2 DEF old, to
<1> HIDE DEF hosts, ended
<1>14. UnderWay(c)'
  <2>1. ~Pinned(c)'
    BY <1>3, <1>4, <1>5 DEF Pinned
  <2>2. /\ Len(reads'[c].hosts) = Len(tried'[c]) /\ Len(tried'[c]) = 2
        /\ Len(reads'[c].ended) = 1 /\ reads'[c].ended[1] \in NetworkErrors
    BY <1>3, <1>4, <1>5, <1>11, <1>12, <1>13
  <2>3. reads'[c].outcome.code = ""
    BY <1>1, <1>3, <1>4 DEF Retry, ReadInv, UnderWay
  <2> QED
    BY <2>1, <2>2, <2>3 DEF UnderWay
<1>15. SinceReached(c)'
  BY <1>1, <1>3, <1>4, <1>9 DEF Retry, ReadInv, SinceReached
<1>16. ReadInv(c)'
  BY <1>3, <1>4, <1>11, <1>12, <1>14, <1>15 DEF ReadInv, AtRest, EndedAs
<1> QED
  BY <1>2, <1>8, <1>9, <1>16, OneReadSuffices

-----------------------------------------------------------------------------
(* The steps of the rest of the world: no read and no balance changes. *)

LEMMA OtherStepsKeep ==
  ASSUME WInv, WorldOK', UNCHANGED <<reads, tried, balance, last>>,
         \A h \in Hosts : heads[h] \in Nat /\ heads'[h] \in Nat /\ heads[h] <= heads'[h]
  PROVE  WInv'
<1>1. ReadsAreRecords'
  BY DEF WInv, ReadsAreRecords
<1>2. ASSUME NEW f \in Calls PROVE ReadInv(f)'
  BY UndisturbedReadKeeps DEF WInv
<1>3. LastOK'
  <2>1. CASE last = [host |-> NoHost, since |-> 0] /\ balance = ZeroText
    BY <2>1 DEF LastOK
  <2>2. CASE /\ last \in [host : Hosts, since : Heights]
             /\ \E k \in last.since..heads[last.host] : BalanceAt(k).ok /\ BalanceAt(k).text = balance
    <3> DEFINE since == last.since
               head == heads[last.host]
               later == heads'[last.host]
    <3>1. since \in Nat /\ head \in Nat /\ later \in Nat /\ head <= later
      BY <2>2, TopIsNat DEF Heights
    <3>2. PICK k \in since..head : BalanceAt(k).ok /\ BalanceAt(k).text = balance
      BY <2>2
    <3> HIDE DEF since, head, later
    <3>3. k \in since..later
      BY <3>1, <3>2
    <3>4. BalanceAt(k)' = BalanceAt(k)
      BY DEF BalanceAt
    <3>5. \E j \in since..later : BalanceAt(j).ok /\ BalanceAt(j).text = balance
      BY <3>2, <3>3
    <3> QED
      BY <2>2, <3>5 DEF LastOK, BalanceAt, since, later
  <2> QED
    BY <2>1, <2>2 DEF WInv, LastOK
<1> QED
  BY <1>1, <1>2, <1>3 DEF WInv

LEMMA HeadsStay ==
  ASSUME WInv, heads' = heads
  PROVE  \A h \in Hosts : heads[h] \in Nat /\ heads'[h] \in Nat /\ heads[h] <= heads'[h]
  BY TopIsNat DEF WInv, WorldOK, Heights

LEMMA AdvanceKeeps ==
  ASSUME WInv, NEW h \in Hosts, Advance(h)
  PROVE  WInv'
<1>1. heads \in [Hosts -> Heights]
  BY DEF WInv, WorldOK
<1>2. heads[h] < Top /\ heads' = [heads EXCEPT ![h] = heads[h] + 1]
  BY DEF Advance, Top
<1>3. heads[h] + 1 \in Heights
  BY <1>1, <1>2, TopIsNat DEF Heights
<1>4. heads' \in [Hosts -> Heights]
  BY <1>1, <1>2, <1>3
<1>5. ASSUME NEW g \in Hosts
      PROVE  heads[g] \in Nat /\ heads'[g] \in Nat /\ heads[g] <= heads'[g]
  BY <1>1, <1>2, <1>4, TopIsNat DEF Heights
<1>6. WorldOK'
  BY <1>4 DEF Advance, failoverVars, wiring, WInv, WorldOK
<1>7. UNCHANGED <<reads, tried, balance, last>>
  BY DEF Advance, failoverVars
<1> QED
  BY <1>5, <1>6, <1>7, OtherStepsKeep

LEMMA RewiringKeeps ==
  ASSUME WInv, Elsewhere \/ SetPactReader \/ SetResolver \/ SetLogger
  PROVE  WInv'
<1>1. UNCHANGED <<heads, reads, tried, balance, last>>
  BY DEF Elsewhere, Failover!Reconfigure, Failover!Switch, SetPactReader, SetResolver,
         SetLogger, failoverVars
<1>2. WorldOK'
  <2>1. CASE Elsewhere
    BY <2>1 DEF Elsewhere, Failover!Reconfigure, Failover!Switch, Failover!Pairs, WInv, WorldOK
  <2>2. CASE SetPactReader
    BY <2>2 DEF SetPactReader, failoverVars, WInv, WorldOK
  <2>3. CASE SetResolver
    BY <2>3 DEF SetResolver, failoverVars, WInv, WorldOK
  <2>4. CASE SetLogger
    <3>1. PICK candidate \in SUBSET Channels : logger' = Installed(candidate)
      BY <2>4 DEF SetLogger
    <3>2. logger' \in [Channels -> {"console", "consumer"}]
      BY <3>1 DEF Installed, WInv, WorldOK
    <3> QED
      BY <2>4, <3>2 DEF SetLogger, failoverVars, WInv, WorldOK
  <2> QED
    BY <2>1, <2>2, <2>3, <2>4
<1> QED
  BY <1>1, <1>2, HeadsStay, OtherStepsKeep

-----------------------------------------------------------------------------

LEMMA InitInv == Init => WInv
<1> SUFFICES ASSUME Init PROVE WInv
  OBVIOUS
<1>1. WorldOK
  <2>1. << >> \in Seq(Hosts) /\ 1 \in Heights
    BY TopIsNat DEF Heights
  <2> QED
    BY <2>1 DEF Init, Failover!Init, Failover!Pairs, WorldOK, DefaultLogger
<1>2. reads = [c \in Calls |-> Unread]
  BY DEF Init
<1>3. ReadsAreRecords
  BY <1>2 DEF ReadsAreRecords, IsRead, Unread
<1>4. LastOK
  BY DEF Init, LastOK
<1>5. ASSUME NEW c \in Calls PROVE ReadInv(c)
  <2>1. reads[c].state = "none" /\ reads[c].pin = "none" /\ reads[c].hosts = << >>
        /\ reads[c].ended = << >> /\ reads[c].outcome.code = ""
    BY <1>2 DEF Unread, Failed
  <2>2. tried[c] = << >>
    BY DEF Init, Failover!Init
  <2>3. << >> \in Seq(Hosts) /\ << >> \in Seq(Endings)
    OBVIOUS
  <2> QED
    BY <2>1, <2>2, <2>3 DEF ReadInv, AtRest, UnderWay, SinceReached, EndedAs
<1> QED
  BY <1>1, <1>3, <1>4, <1>5 DEF WInv

LEMMA StepKeeps ==
  ASSUME WInv, OtherFailuresAreOther, [Next]_vars
  PROVE  WInv'
<1>1. CASE UNCHANGED vars
  <2>1. WorldOK'
    BY <1>1 DEF vars, failoverVars, wiring, WInv, WorldOK
  <2> QED
    BY <1>1, <2>1, HeadsStay, OtherStepsKeep DEF vars, failoverVars
<1>2. CASE Next
  <2>1. ASSUME NEW c \in Calls,
               Unresolved(c) \/ ReadPinned(c) \/ ReadWithFailover(c) \/ Answer(c) \/ Report(c)
        PROVE  WInv'
    BY <2>1, UnresolvedKeeps, ReadPinnedKeeps, ReadWithFailoverKeeps, AnswerKeeps, ReportKeeps
  <2>2. ASSUME NEW c \in Calls, NEW how \in Failures, Fails(c, how) \/ Retry(c, how)
        PROVE  WInv'
    BY <2>2, FailsKeeps, RetryKeeps
  <2>3. ASSUME NEW h \in Hosts, Advance(h)
        PROVE  WInv'
    BY <2>3, AdvanceKeeps
  <2>4. ASSUME Elsewhere \/ SetPactReader \/ SetResolver \/ SetLogger
        PROVE  WInv'
    BY <2>4, RewiringKeeps
  <2> QED
    BY <1>2, <2>1, <2>2, <2>3, <2>4 DEF Next
<1> QED
  BY <1>1, <1>2

(* Through any number of reads, switches of node and rewirings, the state  *)
(* of the wallet and of its reads is as WInv says, for nodes that only say *)
(* that a row is missing when it is (KadenaWallet.ts:92-100).              *)
THEOREM ReadsInvariance == ASSUME OtherFailuresAreOther PROVE Spec => []WInv
  BY InitInv, StepKeeps, PTL DEF Spec

(* The wallet's state stays of its type: no attempt is left open at the    *)
(* failover, and every line of the logger goes to a function               *)
(* (rawCalibratedRead.ts:70-110, logger.ts:92-141).                        *)
THEOREM ReadsTypeCorrect == ASSUME OtherFailuresAreOther PROVE Spec => []TypeOK
  BY ReadsInvariance, InvImpliesTypeOK, PTL

(* The balance shown is one the asked node has had since the call was      *)
(* made, "0" is said only of a missing row, and a read is repeated once at *)
(* most, after a network error, and never when it is pinned                *)
(* (KadenaWallet.ts:92-100, rawCalibratedRead.ts:70-110).                  *)
THEOREM ReadsStayHonest == ASSUME OtherFailuresAreOther PROVE Spec => []ReadsAreHonest
  BY ReadsInvariance, InvImpliesHonest, PTL

(* Of any balance that is ever shown, the literal has its value, cut after *)
(* MaxDecimals and never more, an integer literal is the text, and a       *)
(* decimal that is shown is read back to the same value, and is refused or *)
(* keeps it where a literal is typed (pact/format.ts:71-196).              *)
THEOREM AmountsKeepTheirMeaning ==
  ASSUME OtherFailuresAreOther, LedgerHoldsAmounts
  PROVE  Spec => []AmountsMeanWhatTheySay
<1>1. WInv => AmountsMeanWhatTheySay
  BY InvImpliesAmount, AmountsHold
<1> QED
  BY <1>1, ReadsInvariance, PTL
=============================================================================
