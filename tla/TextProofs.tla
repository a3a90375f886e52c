------------------------------- MODULE TextProofs -------------------------------
(***************************************************************************)
(* What the functions on texts return, for every text.                     *)
(***************************************************************************)
EXTENDS RouteSegments, TextReference, WellFoundedInduction, SequenceTheorems, TLAPS

-----------------------------------------------------------------------------
(* Numbers. *)

\* A set of numbers has a least one.
LEMMA SmallestNumber ==
  ASSUME NEW T \in SUBSET Nat, T # {}
  PROVE  \E m \in T : \A k \in T : m <= k
<1> DEFINE R == {p \in Nat \X Nat : p[1] < p[2]}
<1>1. IsWellFoundedOn(R, Nat)
  BY NatLessThanWellFounded, Zenon DEF OpToRel
<1>2. \A x, y \in Nat : x < y => <<x, y>> \in R
  OBVIOUS
<1> HIDE DEF R
<1>3. PICK m \in T : \A k \in T : <<k, m>> \notin R
  BY <1>1, WFMin
<1>4. ASSUME NEW k \in T PROVE m <= k
  <2>1. ~(k < m)
    BY <1>2, <1>3
  <2> QED BY <2>1
<1> QED BY <1>4

\* What is true of 0 and of the successor of every number it is true of, is true of all.
LEMMA NumberInduction ==
  ASSUME NEW T \in SUBSET Nat, 0 \in T, \A n \in T : n + 1 \in T
  PROVE  T = Nat
<1> SUFFICES ASSUME Nat \ T # {} PROVE FALSE
  OBVIOUS
<1>1. PICK m \in Nat \ T : \A k \in Nat \ T : m <= k
  BY SmallestNumber
<1>2. m - 1 \in T
  BY <1>1
<1> QED BY <1>1, <1>2

LEMMA MinIs ==
  ASSUME NEW T \in SUBSET Nat, T # {}
  PROVE  Min(T) \in T /\ \A k \in T : Min(T) <= k
<1>1. PICK m \in T : \A k \in T : m <= k
  BY SmallestNumber
<1> QED BY <1>1 DEF Min

-----------------------------------------------------------------------------
(* Characters of a text. *)

\* c is in s from place i on first at place p, or not at all.
FirstAt(s, c, i, p) == p \in i..Len(s) /\ s[p] = c /\ \A j \in i..(p - 1) : s[j] # c
Lacks(s, c, i) == \A j \in i..Len(s) : s[j] # c

LEMMA FindFromIs ==
  ASSUME NEW S, NEW s \in Seq(S), NEW c, NEW i \in Nat \ {0}
  PROVE  \/ FindFrom(s, c, i) = 0 /\ Lacks(s, c, i)
         \/ FindFrom(s, c, i) # 0 /\ FirstAt(s, c, i, FindFrom(s, c, i))
<1> DEFINE at == {j \in i..Len(s) : s[j] = c}
<1>1. FindFrom(s, c, i) = IF at = {} THEN 0 ELSE Min(at)
  BY DEF FindFrom
<1>2. at \in SUBSET Nat
  OBVIOUS
<1>3. CASE at = {}
  BY <1>1, <1>3 DEF Lacks
<1>4. CASE at # {}
  <2>1. Min(at) \in at /\ \A k \in at : Min(at) <= k
    <3> HIDE DEF at
    <3> QED BY <1>2, <1>4, MinIs
  <2> DEFINE p == Min(at)
  <2>2. p \in i..Len(s) /\ s[p] = c /\ \A k \in at : p <= k
    BY <2>1
  <2>3. FindFrom(s, c, i) = p
    BY <1>1, <1>4
  <2> HIDE DEF p
  <2>4. \A j \in i..(p - 1) : s[j] # c
    BY <2>2
  <2> QED BY <2>2, <2>3, <2>4 DEF FirstAt
<1> QED BY <1>3, <1>4

LEMMA FindFromFirst ==
  ASSUME NEW S, NEW s \in Seq(S), NEW c, NEW i \in Nat \ {0}, NEW p, FirstAt(s, c, i, p)
  PROVE  FindFrom(s, c, i) = p
BY FindFromIs DEF FirstAt, Lacks

LEMMA FindFromNone ==
  ASSUME NEW S, NEW s \in Seq(S), NEW c, NEW i \in Nat \ {0}, Lacks(s, c, i)
  PROVE  FindFrom(s, c, i) = 0
BY FindFromIs DEF FirstAt, Lacks

LEMMA FindIs ==
  ASSUME NEW S, NEW s \in Seq(S), NEW c
  PROVE  \/ Find(s, c) = 0 /\ Lacks(s, c, 1)
         \/ Find(s, c) # 0 /\ FirstAt(s, c, 1, Find(s, c))
BY FindFromIs DEF Find

\* The two parts of a text.
LEMMA PartsOf ==
  ASSUME NEW S, NEW s \in Seq(S), NEW i \in 1..(Len(s) + 1)
  PROVE  /\ From(s, i) \in Seq(S) /\ Len(From(s, i)) = Len(s) - i + 1
         /\ \A j \in 1..(Len(s) - i + 1) : From(s, i)[j] = s[i + j - 1]
         /\ Before(s, i) \in Seq(S) /\ Len(Before(s, i)) = i - 1
         /\ \A j \in 1..(i - 1) : Before(s, i)[j] = s[j]
<1>1. /\ SubSeq(s, i, Len(s)) \in Seq(S)
      /\ Len(SubSeq(s, i, Len(s))) = IF i <= Len(s) THEN Len(s) - i + 1 ELSE 0
      /\ \A j \in 1..(Len(s) - i + 1) : SubSeq(s, i, Len(s))[j] = s[i + j - 1]
  BY SubSeqProperties
<1>2. /\ SubSeq(s, 1, i - 1) \in Seq(S)
      /\ Len(SubSeq(s, 1, i - 1)) = IF 1 <= i - 1 THEN (i - 1) - 1 + 1 ELSE 0
      /\ \A j \in 1..((i - 1) - 1 + 1) : SubSeq(s, 1, i - 1)[j] = s[1 + j - 1]
  <2>1. \A j \in 1..(i - 1) : s[j] \in S
    OBVIOUS
  <2> QED BY <2>1, SubSeqProperties
<1> QED BY <1>1, <1>2 DEF From, Before

\* They make the text again.
LEMMA PartsJoin ==
  ASSUME NEW S, NEW s \in Seq(S), NEW i \in 1..(Len(s) + 1)
  PROVE  s = Before(s, i) \o From(s, i)
<1>1. SubSeq(s, 1, i - 1) \o SubSeq(s, (i - 1) + 1, Len(s)) = SubSeq(s, 1, Len(s))
  <2>1. 1 \in 1..Len(s) + 1 /\ i - 1 \in (1 - 1)..Len(s) /\ Len(s) \in (i - 1)..Len(s)
    OBVIOUS
  <2> QED BY <2>1, ConcatAdjacentSubSeq
<1>2. (i - 1) + 1 = i
  OBVIOUS
<1> QED BY <1>1, <1>2, SubSeqFull DEF From, Before

\* What is left of a text after p characters.
LEMMA Rest ==
  ASSUME NEW S, NEW s \in Seq(S), NEW p \in 0..Len(s)
  PROVE  /\ From(s, p + 1) \in Seq(S) /\ Len(From(s, p + 1)) = Len(s) - p
         /\ \A k \in 1..(Len(s) - p) : From(s, p + 1)[k] = s[p + k]
<1> DEFINE q == p + 1
           n == Len(s) - p
<1>1. q \in 1..(Len(s) + 1) /\ Len(s) - q + 1 = n /\ \A k \in Nat : q + k - 1 = p + k
  OBVIOUS
<1>2. /\ From(s, q) \in Seq(S) /\ Len(From(s, q)) = Len(s) - q + 1
      /\ \A j \in 1..(Len(s) - q + 1) : From(s, q)[j] = s[q + j - 1]
  <2> HIDE DEF q
  <2> QED BY <1>1, PartsOf
<1> HIDE DEF q, n
<1>3. \A k \in 1..n : From(s, q)[k] = s[p + k]
  <2> TAKE k \in 1..n
  <2>1. k \in Nat /\ k \in 1..(Len(s) - q + 1)
    BY <1>1 DEF n
  <2>2. From(s, q)[k] = s[q + k - 1]
    BY <1>2, <2>1
  <2> QED BY <1>1, <2>1, <2>2
<1> QED BY <1>1, <1>2, <1>3 DEF q, n

\* A part of what is left of a text.
LEMMA PartOfRest ==
  ASSUME NEW S, NEW s \in Seq(S), NEW p \in 0..Len(s), NEW i \in 1..(Len(s) - p + 1), NEW j \in 0..(Len(s) - p)
  PROVE  SubSeq(From(s, p + 1), i, j) = SubSeq(s, p + i, p + j)
<1> DEFINE r == From(s, p + 1)
<1>1. r \in Seq(S) /\ Len(r) = Len(s) - p /\ \A k \in 1..(Len(s) - p) : r[k] = s[p + k]
  BY Rest
<1> HIDE DEF r
<1>2. /\ SubSeq(r, i, j) \in Seq(S) /\ Len(SubSeq(r, i, j)) = IF i <= j THEN j - i + 1 ELSE 0
      /\ \A k \in 1..(j - i + 1) : SubSeq(r, i, j)[k] = r[i + k - 1]
  <2>1. \A k \in i..j : r[k] \in S
    BY <1>1
  <2> QED BY <2>1, SubSeqProperties
<1>3. /\ SubSeq(s, p + i, p + j) \in Seq(S)
      /\ Len(SubSeq(s, p + i, p + j)) = IF p + i <= p + j THEN (p + j) - (p + i) + 1 ELSE 0
      /\ \A k \in 1..((p + j) - (p + i) + 1) : SubSeq(s, p + i, p + j)[k] = s[(p + i) + k - 1]
  <2>1. \A k \in (p + i)..(p + j) : s[k] \in S
    OBVIOUS
  <2> QED BY <2>1, SubSeqProperties
<1>4. Len(SubSeq(r, i, j)) = Len(SubSeq(s, p + i, p + j))
  BY <1>2, <1>3
<1>5. ASSUME NEW k \in 1..Len(SubSeq(r, i, j)) PROVE SubSeq(r, i, j)[k] = SubSeq(s, p + i, p + j)[k]
  <2>1. k \in 1..(j - i + 1) /\ i + k - 1 \in 1..(Len(s) - p) /\ k \in 1..((p + j) - (p + i) + 1)
        /\ p + (i + k - 1) = (p + i) + k - 1
    BY <1>2
  <2> QED BY <1>1, <1>2, <1>3, <2>1
<1>6. SubSeq(r, i, j) = SubSeq(s, p + i, p + j)
  BY <1>2, <1>3, <1>4, <1>5, SeqEqual
<1> QED BY <1>6 DEF r

LEMMA RestOfRest ==
  ASSUME NEW S, NEW s \in Seq(S), NEW p \in 0..Len(s), NEW i \in 1..(Len(s) - p + 1)
  PROVE  From(From(s, p + 1), i) = From(s, p + i)
<1>1. Len(From(s, p + 1)) = Len(s) - p
  BY Rest
<1>2. SubSeq(From(s, p + 1), i, Len(s) - p) = SubSeq(s, p + i, p + (Len(s) - p))
  <2> DEFINE n == Len(s) - p
  <2>1. n \in 0..(Len(s) - p)
    OBVIOUS
  <2> HIDE DEF n
  <2>2. SubSeq(From(s, p + 1), i, n) = SubSeq(s, p + i, p + n)
    BY <2>1, PartOfRest
  <2> QED BY <2>2 DEF n
<1>3. p + (Len(s) - p) = Len(s)
  OBVIOUS
<1> QED BY <1>1, <1>2, <1>3 DEF From

LEMMA FindInRest ==
  ASSUME NEW S, NEW s \in Seq(S), NEW c, NEW p \in 0..Len(s), NEW i \in Nat \ {0}
  PROVE  FindFrom(s, c, p + i) = IF FindFrom(From(s, p + 1), c, i) = 0 THEN 0
                                 ELSE p + FindFrom(From(s, p + 1), c, i)
<1> DEFINE r == From(s, p + 1)
<1>1. r \in Seq(S) /\ Len(r) = Len(s) - p /\ \A k \in 1..(Len(s) - p) : r[k] = s[p + k]
  BY Rest
<1> HIDE DEF r
<1>2. CASE FindFrom(r, c, i) = 0
  <2>1. \A k \in i..Len(r) : r[k] # c
    BY <1>1, <1>2, FindFromIs DEF Lacks, FirstAt
  <2>2. ASSUME NEW k \in (p + i)..Len(s) PROVE s[k] # c
    <3>1. k - p \in i..Len(r) /\ k - p \in 1..(Len(s) - p) /\ p + (k - p) = k
      BY <1>1
    <3> QED BY <1>1, <2>1, <3>1
  <2> QED BY <1>2, <2>2, FindFromNone DEF Lacks, r
<1>3. CASE FindFrom(r, c, i) # 0
  <2> DEFINE q == FindFrom(r, c, i)
  <2>1. q \in i..Len(r) /\ r[q] = c /\ \A k \in i..(q - 1) : r[k] # c
    BY <1>1, <1>3, FindFromIs DEF Lacks, FirstAt
  <2> HIDE DEF q
  <2>2. p + q \in (p + i)..Len(s) /\ s[p + q] = c
    BY <1>1, <2>1
  <2>3. ASSUME NEW k \in (p + i)..(p + q - 1) PROVE s[k] # c
    <3>1. k - p \in i..(q - 1) /\ k - p \in 1..(Len(s) - p) /\ p + (k - p) = k
      BY <1>1, <2>1
    <3> QED BY <1>1, <2>1, <3>1
  <2>4. FirstAt(s, c, p + i, p + q)
    <3> DEFINE a == p + i
               b == p + q
    <3>0. b \in a..Len(s) /\ s[b] = c
      BY <2>2
    <3>1. \A k \in a..(b - 1) : s[k] # c
      <4>1. ASSUME NEW k \in (p + i)..((p + q) - 1) PROVE s[k] # c
        <5>1. k \in (p + i)..(p + q - 1)
          BY <2>1
        <5> QED BY <2>3, <5>1
      <4> QED BY <4>1
    <3> HIDE DEF a, b
    <3>2. FirstAt(s, c, a, b)
      BY <3>0, <3>1 DEF FirstAt
    <3> QED BY <3>2 DEF a, b
  <2>5. FindFrom(s, c, p + i) = p + q
    BY <2>4, FindFromFirst
  <2> QED BY <1>3, <2>5 DEF q, r
<1> QED BY <1>2, <1>3

\* Two texts put together.
LEMMA Together ==
  ASSUME NEW S, NEW s \in Seq(S), NEW t \in Seq(S), NEW m, m = Len(s), NEW n, n = Len(t)
  PROVE  /\ s \o t \in Seq(S) /\ Len(s \o t) = m + n
         /\ \A i \in 1..(m + n) : (s \o t)[i] = IF i <= m THEN s[i] ELSE t[i - m]
<1>1. /\ s \o t \in Seq(S) /\ Len(s \o t) = Len(s) + Len(t)
      /\ \A i \in 1..(Len(s) + Len(t)) : (s \o t)[i] = IF i <= Len(s) THEN s[i] ELSE t[i - Len(s)]
  BY ConcatProperties
<1> QED BY <1>1, Zenon

\* The parts of two texts put together.
LEMMA PartsOfFirst ==
  ASSUME NEW S, NEW s \in Seq(S), NEW t \in Seq(S), NEW i \in 1..(Len(s) + 1)
  PROVE  Before(s \o t, i) = Before(s, i) /\ From(s \o t, i) = From(s, i) \o t
<1> DEFINE st == s \o t
<1>1. /\ st \in Seq(S) /\ Len(st) = Len(s) + Len(t)
      /\ \A j \in 1..(Len(s) + Len(t)) : st[j] = IF j <= Len(s) THEN s[j] ELSE t[j - Len(s)]
  BY ConcatProperties
<1> HIDE DEF st
<1>2. Len(s) \in Nat /\ Len(t) \in Nat /\ i \in 1..(Len(st) + 1)
  BY <1>1
<1>3. /\ From(st, i) \in Seq(S) /\ Len(From(st, i)) = Len(st) - i + 1
      /\ \A j \in 1..(Len(st) - i + 1) : From(st, i)[j] = st[i + j - 1]
      /\ Before(st, i) \in Seq(S) /\ Len(Before(st, i)) = i - 1
      /\ \A j \in 1..(i - 1) : Before(st, i)[j] = st[j]
  BY <1>1, <1>2, PartsOf
<1>4. /\ From(s, i) \in Seq(S) /\ Len(From(s, i)) = Len(s) - i + 1
      /\ \A j \in 1..(Len(s) - i + 1) : From(s, i)[j] = s[i + j - 1]
      /\ Before(s, i) \in Seq(S) /\ Len(Before(s, i)) = i - 1
      /\ \A j \in 1..(i - 1) : Before(s, i)[j] = s[j]
  BY PartsOf
<1>5. \A j \in 1..(i - 1) : Before(st, i)[j] = Before(s, i)[j]
  BY <1>1, <1>2, <1>3, <1>4
<1>6. Before(st, i) = Before(s, i)
  BY <1>3, <1>4, <1>5, SeqEqual
<1> DEFINE r == From(s, i) \o t
           n == Len(s) - i + 1
<1>7. /\ r \in Seq(S) /\ Len(r) = n + Len(t)
      /\ \A j \in 1..(n + Len(t)) : r[j] = IF j <= n THEN From(s, i)[j] ELSE t[j - n]
  <2> DEFINE v == From(s, i)
  <2>1. v \in Seq(S) /\ n = Len(v)
    BY <1>4
  <2> HIDE DEF n, v
  <2> QED BY <2>1, Together DEF v
<1>8. n \in Nat /\ Len(st) - i + 1 = n + Len(t) /\ n = Len(s) - (i - 1)
  BY <1>1, <1>2
<1> HIDE DEF r, n
<1>9. ASSUME NEW j \in 1..(n + Len(t)) PROVE From(st, i)[j] = r[j]
  <2>1. j \in 1..(Len(st) - i + 1) /\ i + j - 1 \in 1..(Len(s) + Len(t))
    BY <1>1, <1>2, <1>8
  <2>2. From(st, i)[j] = IF i + j - 1 <= Len(s) THEN s[i + j - 1] ELSE t[(i + j - 1) - Len(s)]
    BY <1>1, <1>3, <2>1
  <2>3. r[j] = IF j <= n THEN From(s, i)[j] ELSE t[j - n]
    BY <1>7
  <2>4. CASE j <= n
    <3>1. j \in 1..(Len(s) - i + 1) /\ i + j - 1 <= Len(s)
      BY <1>2, <1>8, <2>4
    <3> QED BY <1>4, <2>2, <2>3, <2>4, <3>1
  <2>5. CASE ~(j <= n)
    <3>1. ~(i + j - 1 <= Len(s)) /\ (i + j - 1) - Len(s) = j - n
      BY <1>2, <1>8, <2>5
    <3> QED BY <2>2, <2>3, <2>5, <3>1
  <2> QED BY <2>4, <2>5
<1>10. From(st, i) = r
  <2>1. Len(From(st, i)) = n + Len(t)
    BY <1>3, <1>8
  <2> QED BY <1>3, <1>7, <1>9, <2>1, SeqEqual
<1> QED BY <1>6, <1>10 DEF st, r

LEMMA PartsOfSecond ==
  ASSUME NEW S, NEW s \in Seq(S), NEW t \in Seq(S), NEW i \in 1..(Len(t) + 1)
  PROVE  Before(s \o t, Len(s) + i) = s \o Before(t, i) /\ From(s \o t, Len(s) + i) = From(t, i)
<1> DEFINE st == s \o t
           k == Len(s) + i
<1>1. /\ st \in Seq(S) /\ Len(st) = Len(s) + Len(t)
      /\ \A j \in 1..(Len(s) + Len(t)) : st[j] = IF j <= Len(s) THEN s[j] ELSE t[j - Len(s)]
  BY ConcatProperties
<1> HIDE DEF st
<1>2. Len(s) \in Nat /\ Len(t) \in Nat /\ k \in 1..(Len(st) + 1)
  BY <1>1
<1> HIDE DEF k
<1>3. /\ From(st, k) \in Seq(S) /\ Len(From(st, k)) = Len(st) - k + 1
      /\ \A j \in 1..(Len(st) - k + 1) : From(st, k)[j] = st[k + j - 1]
      /\ Before(st, k) \in Seq(S) /\ Len(Before(st, k)) = k - 1
      /\ \A j \in 1..(k - 1) : Before(st, k)[j] = st[j]
  BY <1>1, <1>2, PartsOf
<1>4. /\ From(t, i) \in Seq(S) /\ Len(From(t, i)) = Len(t) - i + 1
      /\ \A j \in 1..(Len(t) - i + 1) : From(t, i)[j] = t[i + j - 1]
      /\ Before(t, i) \in Seq(S) /\ Len(Before(t, i)) = i - 1
      /\ \A j \in 1..(i - 1) : Before(t, i)[j] = t[j]
  BY PartsOf
<1>5. Len(st) - k + 1 = Len(t) - i + 1 /\ Len(t) - i + 1 \in Nat /\ k - 1 = Len(s) + (i - 1)
  BY <1>1, <1>2 DEF k
<1>6. ASSUME NEW j \in 1..(Len(t) - i + 1) PROVE From(st, k)[j] = From(t, i)[j]
  <2>1. j \in 1..(Len(st) - k + 1) /\ k + j - 1 \in 1..(Len(s) + Len(t)) /\ ~(k + j - 1 <= Len(s))
        /\ (k + j - 1) - Len(s) = i + j - 1
    BY <1>1, <1>2, <1>5 DEF k
  <2> QED BY <1>1, <1>3, <1>4, <2>1
<1>7. From(st, k) = From(t, i)
  <2>1. Len(From(st, k)) = Len(From(t, i))
    BY <1>3, <1>4, <1>5
  <2>2. \A j \in 1..Len(From(st, k)) : From(st, k)[j] = From(t, i)[j]
    BY <1>3, <1>5, <1>6
  <2> QED BY <1>3, <1>4, <2>1, <2>2, SeqEqual
<1> DEFINE r == s \o Before(t, i)
<1>8. /\ r \in Seq(S) /\ Len(r) = Len(s) + (i - 1)
      /\ \A j \in 1..(Len(s) + (i - 1)) : r[j] = IF j <= Len(s) THEN s[j] ELSE Before(t, i)[j - Len(s)]
  <2> DEFINE v == Before(t, i)
             n == i - 1
  <2>1. v \in Seq(S) /\ n = Len(v)
    BY <1>4
  <2> HIDE DEF n, v
  <2>2. /\ s \o v \in Seq(S) /\ Len(s \o v) = Len(s) + n
        /\ \A j \in 1..(Len(s) + n) : (s \o v)[j] = IF j <= Len(s) THEN s[j] ELSE v[j - Len(s)]
    BY <2>1, Together
  <2> QED BY <2>2 DEF n, v
<1> HIDE DEF r
<1>9. ASSUME NEW j \in 1..(k - 1) PROVE Before(st, k)[j] = r[j]
  <2>1. j \in 1..(Len(s) + Len(t)) /\ j \in 1..(Len(s) + (i - 1))
    BY <1>2, <1>5
  <2>2. Before(st, k)[j] = IF j <= Len(s) THEN s[j] ELSE t[j - Len(s)]
    BY <1>1, <1>3, <2>1
  <2>3. j <= Len(s) \/ j - Len(s) \in 1..(i - 1)
    BY <1>2, <2>1
  <2> QED BY <1>4, <1>8, <2>1, <2>2, <2>3
<1>10. Before(st, k) = r
  <2>1. Len(Before(st, k)) = Len(r)
    BY <1>3, <1>5, <1>8
  <2> QED BY <1>3, <1>8, <1>9, <2>1, SeqEqual
<1> QED BY <1>7, <1>10 DEF st, r, k

\* Where a character is first in two texts put together.
LEMMA FirstOfTwo ==
  ASSUME NEW S, NEW s \in Seq(S), NEW t \in Seq(S), NEW c
  PROVE  /\ Lacks(s, c, 1) /\ Lacks(t, c, 1) => Lacks(s \o t, c, 1)
         /\ \A p : FirstAt(s, c, 1, p) => FirstAt(s \o t, c, 1, p)
         /\ \A p : Lacks(s, c, 1) /\ FirstAt(t, c, 1, p) => FirstAt(s \o t, c, 1, Len(s) + p)
<1> DEFINE st == s \o t
           m == Len(s)
           n == Len(t)
<1>1. /\ st \in Seq(S) /\ Len(st) = m + n
      /\ \A j \in 1..(m + n) : st[j] = IF j <= m THEN s[j] ELSE t[j - m]
  BY ConcatProperties
<1>2. m \in Nat /\ n \in Nat
  OBVIOUS
<1> HIDE DEF st
<1>3. \A j \in 1..m : st[j] = s[j]
  <2> HIDE DEF m, n
  <2> QED BY <1>1, <1>2
<1>4. ASSUME NEW j \in 1..n PROVE st[m + j] = t[j]
  <2> HIDE DEF m, n
  <2>1. m + j \in 1..(m + n) /\ ~(m + j <= m) /\ (m + j) - m = j
    BY <1>2
  <2> QED BY <1>1, <2>1
<1>5. ASSUME Lacks(s, c, 1), Lacks(t, c, 1) PROVE Lacks(st, c, 1)
  <2>1. (\A j \in 1..m : s[j] # c) /\ \A j \in 1..n : t[j] # c
    BY <1>5 DEF Lacks
  <2> HIDE DEF m, n
  <2>2. ASSUME NEW j \in 1..Len(st) PROVE st[j] # c
    <3>1. j \in 1..m \/ (j - m \in 1..n /\ m + (j - m) = j)
      BY <1>1, <1>2
    <3> QED BY <1>3, <1>4, <2>1, <3>1
  <2> QED BY <2>2 DEF Lacks
<1>6. ASSUME NEW p, FirstAt(s, c, 1, p) PROVE FirstAt(st, c, 1, p)
  <2>1. p \in 1..m /\ s[p] = c /\ \A j \in 1..(p - 1) : s[j] # c
    BY <1>6 DEF FirstAt
  <2> HIDE DEF m, n
  <2>2. p \in 1..Len(st) /\ st[p] = c
    BY <1>1, <1>2, <1>3, <2>1
  <2>3. ASSUME NEW j \in 1..(p - 1) PROVE st[j] # c
    <3>1. j \in 1..m
      BY <1>2, <2>1
    <3> QED BY <1>3, <2>1, <3>1
  <2> QED BY <2>2, <2>3 DEF FirstAt
<1>7. ASSUME NEW p, Lacks(s, c, 1), FirstAt(t, c, 1, p) PROVE FirstAt(st, c, 1, m + p)
  <2>1. p \in 1..n /\ t[p] = c /\ \A j \in 1..(p - 1) : t[j] # c
    BY <1>7 DEF FirstAt
  <2>2. \A j \in 1..m : s[j] # c
    BY <1>7 DEF Lacks
  <2> DEFINE q == m + p
  <2> HIDE DEF m, n
  <2>3. q \in 1..Len(st) /\ st[q] = c
    BY <1>1, <1>2, <1>4, <2>1
  <2>4. ASSUME NEW j \in 1..(q - 1) PROVE st[j] # c
    <3>1. j \in 1..m \/ (j - m \in 1..(p - 1) /\ j - m \in 1..n /\ m + (j - m) = j)
      BY <1>2, <2>1
    <3> QED BY <1>3, <1>4, <2>1, <2>2, <3>1
  <2> HIDE DEF q
  <2>5. FirstAt(st, c, 1, q)
    BY <2>3, <2>4 DEF FirstAt
  <2> QED BY <2>5 DEF q
<1> QED BY <1>5, <1>6, <1>7 DEF st

\* A first element before others.
LEMMA PutBefore ==
  ASSUME NEW S, NEW x \in S, NEW s \in Seq(S)
  PROVE  /\ <<x>> \o s \in Seq(S) /\ Len(<<x>> \o s) = Len(s) + 1 /\ (<<x>> \o s)[1] = x
         /\ \A i \in 1..Len(s) : (<<x>> \o s)[i + 1] = s[i]
<1> DEFINE u == <<x>>
<1>1. u \in Seq(S) /\ Len(u) = 1 /\ u[1] = x /\ Len(s) \in Nat
  OBVIOUS
<1> HIDE DEF u
<1>2. /\ u \o s \in Seq(S) /\ Len(u \o s) = 1 + Len(s)
      /\ \A i \in 1..(1 + Len(s)) : (u \o s)[i] = IF i <= 1 THEN u[i] ELSE s[i - 1]
  <2>1. /\ u \o s \in Seq(S) /\ Len(u \o s) = Len(u) + Len(s)
        /\ \A i \in 1..(Len(u) + Len(s)) : (u \o s)[i] = IF i <= Len(u) THEN u[i] ELSE s[i - Len(u)]
    BY <1>1, ConcatProperties
  <2> QED BY <1>1, <2>1
<1>3. (u \o s)[1] = x
  <2>1. 1 \in 1..(1 + Len(s)) /\ 1 <= 1
    BY <1>1
  <2> QED BY <1>1, <1>2, <2>1
<1>4. ASSUME NEW i \in 1..Len(s) PROVE (u \o s)[i + 1] = s[i]
  <2>1. i + 1 \in 1..(1 + Len(s)) /\ ~(i + 1 <= 1) /\ (i + 1) - 1 = i
    BY <1>1
  <2> QED BY <1>2, <2>1
<1> QED BY <1>1, <1>2, <1>3, <1>4 DEF u

-----------------------------------------------------------------------------
(* Functions that take pieces off a text, from one place to a later one. *)

\* The pieces from place i on are the last ones, or one before those from place next[i] on.
Pieces(f, m, next, piece, last) ==
  f = [i \in 1..m |-> IF next[i] = 0 THEN last[i] ELSE <<piece[i]>> \o f[next[i]]]

\* There is such a function if places go up.
LEMMA PiecesExist ==
  ASSUME NEW m \in Nat, NEW next, NEW piece, NEW last,
         \A i \in 1..m : next[i] = 0 \/ next[i] \in (i + 1)..m
  PROVE  \E f : Pieces(f, m, next, piece, last)
<1> DEFINE Is(f, i) == f[i] = IF next[i] = 0 THEN last[i] ELSE <<piece[i]>> \o f[next[i]]
           T == {n \in Nat : \E f : \A i \in 1..m : i > m - n => Is(f, i)}
<1>1. 0 \in T
  OBVIOUS
<1>2. ASSUME NEW n \in T PROVE n + 1 \in T
  <2>1. PICK f : \A i \in 1..m : i > m - n => Is(f, i)
    OBVIOUS
  <2> DEFINE k == m - n
             g == [i \in 1..m |-> IF i = k THEN IF next[k] = 0 THEN last[k] ELSE <<piece[k]>> \o f[next[k]]
                                  ELSE f[i]]
  <2>2. ASSUME NEW i \in 1..m, i > m - (n + 1) PROVE Is(g, i)
    <3>1. next[i] = 0 \/ g[next[i]] = f[next[i]]
      <4>1. next[i] = 0 \/ (next[i] \in 1..m /\ next[i] # k)
        BY <2>2
      <4> QED BY <4>1
    <3>2. g[i] = IF i = k THEN IF next[k] = 0 THEN last[k] ELSE <<piece[k]>> \o f[next[k]] ELSE f[i]
      OBVIOUS
    <3>3. i # k => Is(f, i)
      BY <2>1, <2>2
    <3> HIDE DEF g
    <3>4. CASE i = k
      BY <3>1, <3>2, <3>4
    <3>5. CASE i # k
      BY <3>1, <3>2, <3>3, <3>5
    <3> QED BY <3>4, <3>5
  <2> HIDE DEF Is, g
  <2> QED BY <2>2
<1>3. m \in T
  <2> HIDE DEF T
  <2>1. T \in SUBSET Nat
    BY DEF T
  <2> QED BY <1>1, <1>2, <2>1, NumberInduction
<1>4. PICK f : \A i \in 1..m : Is(f, i)
  BY <1>3
<1> DEFINE g == [i \in 1..m |-> f[i]]
           h == [i \in 1..m |-> IF next[i] = 0 THEN last[i] ELSE <<piece[i]>> \o g[next[i]]]
<1>5. ASSUME NEW i \in 1..m PROVE g[i] = h[i]
  <2>1. next[i] = 0 \/ g[next[i]] = f[next[i]]
    OBVIOUS
  <2>2. g[i] = f[i] /\ h[i] = IF next[i] = 0 THEN last[i] ELSE <<piece[i]>> \o g[next[i]]
    OBVIOUS
  <2>3. Is(f, i)
    BY <1>4
  <2> HIDE DEF g, h
  <2> QED BY <2>1, <2>2, <2>3
<1>6. g = h
  <2>1. DOMAIN g = 1..m /\ DOMAIN h = 1..m /\ g = [i \in 1..m |-> g[i]] /\ h = [i \in 1..m |-> h[i]]
    OBVIOUS
  <2> HIDE DEF g, h
  <2> QED BY <1>5, <2>1
<1>7. Pieces(g, m, next, piece, last)
  <2> HIDE DEF g
  <2> QED BY <1>6 DEF Pieces
<1> QED BY <1>7

LEMMA PiecesAre ==
  ASSUME NEW m \in Nat, NEW next, NEW piece, NEW last, NEW f, Pieces(f, m, next, piece, last), NEW i \in 1..m
  PROVE  f[i] = IF next[i] = 0 THEN last[i] ELSE <<piece[i]>> \o f[next[i]]
<1> DEFINE h == [j \in 1..m |-> IF next[j] = 0 THEN last[j] ELSE <<piece[j]>> \o f[next[j]]]
<1>1. f = h
  BY DEF Pieces
<1>2. h[i] = IF next[i] = 0 THEN last[i] ELSE <<piece[i]>> \o f[next[i]]
  OBVIOUS
<1> HIDE DEF h
<1> QED BY <1>1, <1>2

-----------------------------------------------------------------------------
(* Tokens. *)

\* The tokens from place i on.
LEMMA TokensFrom ==
  ASSUME NEW S, NEW text \in Seq(S), NEW sep
  PROVE  \E f : /\ tokens(text, sep) = f[1]
                /\ \A i \in 1..(Len(text) + 1) :
                     f[i] = IF FindFrom(text, sep, i) = 0 THEN <<From(text, i)>>
                            ELSE <<SubSeq(text, i, FindFrom(text, sep, i) - 1)>> \o f[FindFrom(text, sep, i) + 1]
<1> DEFINE m == Len(text) + 1
           Step(f, i) == IF FindFrom(text, sep, i) = 0 THEN <<From(text, i)>>
                         ELSE <<SubSeq(text, i, FindFrom(text, sep, i) - 1)>> \o f[FindFrom(text, sep, i) + 1]
           next == [i \in 1..m |-> IF FindFrom(text, sep, i) = 0 THEN 0 ELSE FindFrom(text, sep, i) + 1]
           piece == [i \in 1..m |-> SubSeq(text, i, FindFrom(text, sep, i) - 1)]
           last == [i \in 1..m |-> <<From(text, i)>>]
           f == CHOOSE f : f = [i \in 1..m |-> Step(f, i)]
<1>1. m \in Nat /\ 1 \in 1..m
  OBVIOUS
<1>2. ASSUME NEW i \in 1..m PROVE next[i] = 0 \/ next[i] \in (i + 1)..m
  <2>1. FindFrom(text, sep, i) = 0 \/ FindFrom(text, sep, i) \in i..Len(text)
    BY FindFromIs DEF FirstAt
  <2> QED BY <2>1
<1>3. PICK g : Pieces(g, m, next, piece, last)
  <2> HIDE DEF m, next, piece, last
  <2> QED BY <1>1, <1>2, PiecesExist
<1>4. ASSUME NEW i \in 1..m
      PROVE  (IF next[i] = 0 THEN last[i] ELSE <<piece[i]>> \o g[next[i]]) = Step(g, i)
  <2>1. next[i] = (IF FindFrom(text, sep, i) = 0 THEN 0 ELSE FindFrom(text, sep, i) + 1)
        /\ piece[i] = SubSeq(text, i, FindFrom(text, sep, i) - 1) /\ last[i] = <<From(text, i)>>
    OBVIOUS
  <2>2. FindFrom(text, sep, i) = 0 \/ FindFrom(text, sep, i) \in i..Len(text)
    BY FindFromIs DEF FirstAt
  <2>3. (next[i] = 0) <=> FindFrom(text, sep, i) = 0
    BY <2>1, <2>2
  <2> HIDE DEF next, piece, last
  <2> QED BY <2>1, <2>3
<1>5. g = [i \in 1..m |-> Step(g, i)]
  <2>1. g = [i \in 1..m |-> IF next[i] = 0 THEN last[i] ELSE <<piece[i]>> \o g[next[i]]]
    BY <1>3 DEF Pieces
  <2> HIDE DEF m, next, piece, last, Step
  <2> QED BY <1>4, <2>1
<1>6. f = [i \in 1..m |-> Step(f, i)]
  <2> HIDE DEF m, Step
  <2> QED BY <1>5
<1>7. tokens(text, sep) = f[1]
  BY DEF tokens, LastToken
<1>8. ASSUME NEW i \in 1..m PROVE f[i] = Step(f, i)
  <2> DEFINE h == [j \in 1..m |-> Step(f, j)]
  <2>1. h[i] = Step(f, i)
    <3> HIDE DEF Step, f, m
    <3> QED OBVIOUS
  <2> HIDE DEF f, h
  <2>2. f = h
    BY <1>6 DEF h
  <2> QED BY <2>1, <2>2
<1> HIDE DEF f
<1> QED BY <1>7, <1>8

\* A text without separators is one token.
LEMMA OneToken ==
  ASSUME NEW S, NEW text \in Seq(S), NEW sep, Lacks(text, sep, 1)
  PROVE  tokens(text, sep) = <<text>>
<1>1. PICK f : /\ tokens(text, sep) = f[1]
               /\ \A i \in 1..(Len(text) + 1) :
                    f[i] = IF FindFrom(text, sep, i) = 0 THEN <<From(text, i)>>
                           ELSE <<SubSeq(text, i, FindFrom(text, sep, i) - 1)>> \o f[FindFrom(text, sep, i) + 1]
  BY TokensFrom
<1>2. FindFrom(text, sep, 1) = 0
  BY FindFromNone
<1>3. f[1] = <<From(text, 1)>>
  <2>1. 1 \in 1..(Len(text) + 1)
    OBVIOUS
  <2> QED BY <1>1, <1>2, <2>1, Zenon
<1>4. From(text, 1) = text
  BY SubSeqFull DEF From
<1> QED BY <1>1, <1>3, <1>4
\* The first separator ends the first token, and what follows is split in the same way.
LEMMA FirstToken ==
  ASSUME NEW S, NEW text \in Seq(S), NEW sep, NEW p, FirstAt(text, sep, 1, p)
  PROVE  tokens(text, sep) = <<Before(text, p)>> \o tokens(From(text, p + 1), sep)
<1> DEFINE rest == From(text, p + 1)
           n == Len(text) - p
<1>1. p \in 1..Len(text) /\ p \in 0..Len(text) /\ p + 1 \in 1..(Len(text) + 1) /\ n \in Nat
  BY DEF FirstAt
<1>2. rest \in Seq(S) /\ Len(rest) = n
  BY <1>1, Rest
<1>3. PICK f : /\ tokens(text, sep) = f[1]
               /\ \A i \in 1..(Len(text) + 1) :
                    f[i] = IF FindFrom(text, sep, i) = 0 THEN <<From(text, i)>>
                           ELSE <<SubSeq(text, i, FindFrom(text, sep, i) - 1)>> \o f[FindFrom(text, sep, i) + 1]
  BY TokensFrom
<1>4. PICK g : /\ tokens(rest, sep) = g[1]
               /\ \A i \in 1..(n + 1) :
                    g[i] = IF FindFrom(rest, sep, i) = 0 THEN <<From(rest, i)>>
                           ELSE <<SubSeq(rest, i, FindFrom(rest, sep, i) - 1)>> \o g[FindFrom(rest, sep, i) + 1]
  <2> HIDE DEF rest
  <2> QED BY <1>2, TokensFrom
<1> DEFINE T == {k \in Nat : \A i \in 1..(n + 1) : i > n + 1 - k => f[p + i] = g[i]}
<1>5. 0 \in T
  BY <1>1
<1>6. ASSUME NEW k \in T PROVE k + 1 \in T
  <2> SUFFICES ASSUME NEW i \in 1..(n + 1), i = n + 1 - k PROVE f[p + i] = g[i]
    <3> HIDE DEF rest
    <3>1. \A i \in 1..(n + 1) : i > n + 1 - (k + 1) => i > n + 1 - k \/ i = n + 1 - k
      BY <1>1
    <3> QED BY <3>1
  <2> DEFINE e == FindFrom(rest, sep, i)
  <2>1. p + i \in 1..(Len(text) + 1) /\ i \in 1..(Len(text) - p + 1) /\ i \in Nat \ {0}
    BY <1>1
  <2>2. FindFrom(text, sep, p + i) = IF e = 0 THEN 0 ELSE p + e
    BY <1>1, <2>1, FindInRest, SMTT(20)
  <2>3. e = 0 \/ (e # 0 /\ e \in i..n)
    <3> HIDE DEF rest
    <3> QED BY <1>2, <2>1, FindFromIs DEF FirstAt
  <2>4. g[i] = IF e = 0 THEN <<From(rest, i)>> ELSE <<SubSeq(rest, i, e - 1)>> \o g[e + 1]
    BY <1>4
  <2>5. f[p + i] = IF FindFrom(text, sep, p + i) = 0 THEN <<From(text, p + i)>>
                   ELSE <<SubSeq(text, p + i, FindFrom(text, sep, p + i) - 1)>> \o f[FindFrom(text, sep, p + i) + 1]
    BY <1>3, <2>1
  <2>6. CASE e = 0
    <3>1. From(rest, i) = From(text, p + i)
      BY <1>1, <2>1, RestOfRest
    <3> HIDE DEF rest, e
    <3> QED BY <2>2, <2>4, <2>5, <2>6, <3>1
  <2>7. CASE e # 0
    <3>1. SubSeq(rest, i, e - 1) = SubSeq(text, p + i, p + (e - 1))
      <4> DEFINE j == e - 1
      <4>1. j \in 0..(Len(text) - p)
        <5> HIDE DEF e, T
        <5> QED BY <1>1, <2>1, <2>3, <2>7
      <4> HIDE DEF e, j
      <4>2. SubSeq(rest, i, j) = SubSeq(text, p + i, p + j)
        BY <1>1, <2>1, <4>1, PartOfRest
      <4> QED BY <4>2 DEF j
    <3> HIDE DEF rest, e
    <3>2. p + e # 0 /\ (p + e) - 1 = p + (e - 1) /\ p + e + 1 = p + (e + 1) /\ e + 1 \in 1..(n + 1) /\ e + 1 > n + 1 - k
      BY <1>1, <2>3, <2>7
    <3>3. f[p + (e + 1)] = g[e + 1]
      BY <1>6, <3>2
    <3>4. g[i] = <<SubSeq(text, p + i, p + (e - 1))>> \o f[p + (e + 1)]
      BY <2>4, <2>7, <3>1, <3>3, Zenon
    <3>5. FindFrom(text, sep, p + i) = p + e
      BY <2>2, <2>7
    <3>6. f[p + i] = <<SubSeq(text, p + i, (p + e) - 1)>> \o f[p + e + 1]
      BY <2>5, <3>2, <3>5, Zenon
    <3> QED BY <3>2, <3>4, <3>6, Zenon
  <2> QED BY <2>6, <2>7
<1>7. n + 1 \in T
  <2>1. T \in SUBSET Nat
    OBVIOUS
  <2> HIDE DEF T
  <2> QED BY <1>1, <1>5, <1>6, <2>1, NumberInduction
<1>8. f[p + 1] = g[1]
  BY <1>1, <1>7
<1>9. FindFrom(text, sep, 1) = p
  BY FindFromFirst
<1>10. f[1] = <<SubSeq(text, 1, p - 1)>> \o f[p + 1]
  <2>1. 1 \in 1..(Len(text) + 1) /\ p # 0
    BY <1>1
  <2> QED BY <1>3, <1>9, <2>1, Zenon
<1> QED BY <1>3, <1>4, <1>8, <1>10 DEF Before
\* There is a token at least, and no separator in any.
LEMMA TokensAre ==
  ASSUME NEW S, NEW text \in Seq(S), NEW sep
  PROVE  /\ tokens(text, sep) \in Seq(Seq(S)) /\ Len(tokens(text, sep)) \in Nat \ {0}
         /\ \A i \in 1..Len(tokens(text, sep)) : Lacks(tokens(text, sep)[i], sep, 1)
<1> DEFINE Are(q) == /\ q \in Seq(Seq(S)) /\ Len(q) \in Nat \ {0}
                     /\ \A i \in 1..Len(q) : Lacks(q[i], sep, 1)
           T == {n \in Nat : \A s \in Seq(S) : Len(s) < n => Are(tokens(s, sep))}
<1>1. 0 \in T
  OBVIOUS
<1>2. ASSUME NEW n \in T PROVE n + 1 \in T
  <2> SUFFICES ASSUME NEW s \in Seq(S), Len(s) < n + 1 PROVE Are(tokens(s, sep))
    <3> HIDE DEF Are
    <3> QED OBVIOUS
  <2>1. CASE Lacks(s, sep, 1)
    <3>1. tokens(s, sep) = <<s>>
      BY <2>1, OneToken
    <3>2. <<s>> \in Seq(Seq(S)) /\ Len(<<s>>) = 1 /\ <<s>>[1] = s
      OBVIOUS
    <3>3. Are(<<s>>)
      BY <2>1, <3>2
    <3> QED BY <3>1, <3>3
  <2>2. CASE ~Lacks(s, sep, 1)
    <3>1. PICK p : FirstAt(s, sep, 1, p)
      BY <2>2, FindIs
    <3>2. p \in 1..Len(s) /\ p \in 0..Len(s) /\ p \in 1..(Len(s) + 1) /\ \A j \in 1..(p - 1) : s[j] # sep
      BY <3>1 DEF FirstAt
    <3> DEFINE r == From(s, p + 1)
               x == Before(s, p)
    <3>3. r \in Seq(S) /\ Len(r) < n
      BY <3>2, <2>2, Rest
    <3>4. x \in Seq(S) /\ Lacks(x, sep, 1)
      <4>1. x \in Seq(S) /\ Len(x) = p - 1 /\ \A j \in 1..(p - 1) : x[j] = s[j]
        BY <3>2, PartsOf
      <4> HIDE DEF x
      <4> QED BY <3>2, <4>1 DEF Lacks
    <3>5. Are(tokens(r, sep))
      <4> HIDE DEF Are, r
      <4> QED BY <3>3
    <3>6. tokens(s, sep) = <<x>> \o tokens(r, sep)
      BY <3>1, FirstToken
    <3> HIDE DEF x, r
    <3> DEFINE q == tokens(r, sep)
               t == <<x>> \o q
    <3>7. /\ t \in Seq(Seq(S)) /\ Len(t) = Len(q) + 1 /\ t[1] = x
          /\ \A i \in 1..Len(q) : t[i + 1] = q[i]
      BY <3>4, <3>5, PutBefore
    <3> HIDE DEF q, t
    <3>8. ASSUME NEW i \in 1..Len(t) PROVE Lacks(t[i], sep, 1)
      <4>1. i = 1 \/ (i - 1 \in 1..Len(q) /\ (i - 1) + 1 = i)
        BY <3>5, <3>7 DEF q
      <4> QED BY <3>4, <3>5, <3>7, <4>1 DEF q
    <3>9. Are(t)
      BY <3>5, <3>7, <3>8 DEF q
    <3> QED BY <3>6, <3>9 DEF t, q
  <2> QED BY <2>1, <2>2
<1>3. T = Nat
  <2>1. T \in SUBSET Nat
    OBVIOUS
  <2> HIDE DEF T
  <2> QED BY <1>1, <1>2, <2>1, NumberInduction
<1>4. Len(text) + 1 \in T
  <2> HIDE DEF T
  <2> QED BY <1>3
<1>5. Are(tokens(text, sep))
  <2>1. Len(text) < Len(text) + 1
    OBVIOUS
  <2> HIDE DEF Are
  <2> QED BY <1>4, <2>1
<1> QED BY <1>5
\* g is p and q put together, the last of p and the first of q in one.
Glued(p, q, g) ==
  /\ Len(g) = Len(p) + Len(q) - 1
  /\ \A i \in 1..(Len(p) - 1) : g[i] = p[i]
  /\ g[Len(p)] = p[Len(p)] \o q[1]
  /\ \A i \in 2..Len(q) : g[(Len(p) - 1) + i] = q[i]

LEMMA GluedOne ==
  ASSUME NEW S, NEW x \in Seq(S), NEW y \in Seq(S), NEW r \in Seq(Seq(S))
  PROVE  /\ Glued(<<x>>, <<y>>, <<x \o y>>)
         /\ Glued(<<x>>, <<y>> \o r, <<x \o y>> \o r)
<1> DEFINE p == <<x>>
           q == <<y>> \o r
           xy == x \o y
           g == <<xy>> \o r
<1>1. xy \in Seq(S)
  BY ConcatProperties
<1>2. Len(p) = 1 /\ p[1] = x
  OBVIOUS
<1>3. Glued(p, <<y>>, <<xy>>)
  <2>1. Len(<<y>>) = 1 /\ <<y>>[1] = y /\ Len(<<xy>>) = 1 /\ <<xy>>[1] = xy
    OBVIOUS
  <2> HIDE DEF p, xy
  <2>2. p[Len(p)] \o <<y>>[1] = x \o y
    BY <1>2, <2>1, Zenon
  <2>3. <<xy>>[Len(p)] = xy
    BY <1>2, <2>1
  <2> QED BY <1>2, <2>1, <2>2, <2>3 DEF Glued, xy
<1>4. q \in Seq(Seq(S)) /\ Len(q) = Len(r) + 1 /\ q[1] = y /\ \A i \in 1..Len(r) : q[i + 1] = r[i]
  BY PutBefore
<1>5. g \in Seq(Seq(S)) /\ Len(g) = Len(r) + 1 /\ g[1] = xy /\ \A i \in 1..Len(r) : g[i + 1] = r[i]
  <2> HIDE DEF xy
  <2> QED BY <1>1, PutBefore
<1>6. Glued(p, q, g)
  <2> HIDE DEF p, q, g
  <2>1. \A i \in 2..Len(q) : g[(Len(p) - 1) + i] = q[i]
    <3> TAKE i \in 2..Len(q)
    <3>1. i - 1 \in 1..Len(r) /\ (i - 1) + 1 = i /\ (Len(p) - 1) + i = i
      BY <1>2, <1>4, SMTT(20)
    <3> QED BY <1>4, <1>5, <3>1
  <2>2. Len(g) = Len(p) + Len(q) - 1
    BY <1>2, <1>4, <1>5
  <2>3. g[Len(p)] = p[Len(p)] \o q[1]
    BY <1>2, <1>4, <1>5, Zenon
  <2>4. \A i \in 1..(Len(p) - 1) : g[i] = p[i]
    BY <1>2
  <2> QED BY <2>1, <2>2, <2>3, <2>4 DEF Glued
<1> QED BY <1>3, <1>6

LEMMA GluedLonger ==
  ASSUME NEW S, NEW x \in Seq(S), NEW p \in Seq(Seq(S)), NEW q \in Seq(Seq(S)), NEW g \in Seq(Seq(S)),
         Len(p) > 0, Len(q) > 0, Glued(p, q, g)
  PROVE  Glued(<<x>> \o p, q, <<x>> \o g)
<1> DEFINE a == <<x>> \o p
           b == <<x>> \o g
<1>1. a \in Seq(Seq(S)) /\ Len(a) = Len(p) + 1 /\ a[1] = x /\ \A i \in 1..Len(p) : a[i + 1] = p[i]
  BY PutBefore
<1>2. b \in Seq(Seq(S)) /\ Len(b) = Len(g) + 1 /\ b[1] = x /\ \A i \in 1..Len(g) : b[i + 1] = g[i]
  BY PutBefore
<1> HIDE DEF a, b
<1>3. Len(p) \in Nat /\ Len(q) \in Nat /\ Len(g) = Len(p) + Len(q) - 1
  BY DEF Glued
<1>4. Len(b) = Len(a) + Len(q) - 1
  BY <1>1, <1>2, <1>3
<1>5. ASSUME NEW i \in 1..(Len(a) - 1) PROVE b[i] = a[i]
  <2>1. CASE i = 1
    BY <1>1, <1>2, <2>1
  <2>2. CASE i # 1
    <3>0. Len(a) - 1 = Len(p) /\ Len(g) >= Len(p)
      BY <1>1, <1>3
    <3>1. i - 1 \in 1..(Len(p) - 1) /\ i - 1 \in 1..Len(p) /\ i - 1 \in 1..Len(g) /\ (i - 1) + 1 = i
      BY <1>3, <2>2, <3>0
    <3>2. g[i - 1] = p[i - 1]
      BY <3>1 DEF Glued
    <3> QED BY <1>1, <1>2, <3>1, <3>2
  <2> QED BY <2>1, <2>2
<1>6. b[Len(a)] = a[Len(a)] \o q[1]
  <2>1. Len(p) \in 1..Len(p) /\ Len(p) \in 1..Len(g)
    BY <1>3
  <2>2. b[Len(a)] = g[Len(p)] /\ a[Len(a)] = p[Len(p)]
    BY <1>1, <1>2, <2>1
  <2> QED BY <2>2 DEF Glued
<1>7. ASSUME NEW i \in 2..Len(q) PROVE b[(Len(a) - 1) + i] = q[i]
  <2>1. (Len(p) - 1) + i \in 1..Len(g) /\ ((Len(p) - 1) + i) + 1 = (Len(a) - 1) + i
    BY <1>1, <1>3
  <2>2. g[(Len(p) - 1) + i] = q[i]
    BY DEF Glued
  <2> DEFINE k == (Len(p) - 1) + i
             n == (Len(a) - 1) + i
  <2>3. b[k + 1] = g[k]
    <3>1. k \in 1..Len(g)
      BY <2>1
    <3> HIDE DEF k
    <3> QED BY <1>2, <3>1
  <2>4. k + 1 = n /\ g[k] = q[i]
    BY <2>1, <2>2
  <2>5. b[n] = q[i]
    <3> HIDE DEF k, n
    <3> QED BY <2>3, <2>4
  <2> QED BY <2>5
<1>8. Glued(a, q, b)
  BY <1>4, <1>5, <1>6, <1>7 DEF Glued
<1> QED BY <1>8 DEF a, b
\* The tokens of two texts put together.
LEMMA TokensGlue ==
  ASSUME NEW S, NEW text \in Seq(S), NEW y \in Seq(S), NEW sep
  PROVE  Glued(tokens(text, sep), tokens(y, sep), tokens(text \o y, sep))
<1> DEFINE Is(x) == Glued(tokens(x, sep), tokens(y, sep), tokens(x \o y, sep))
           T == {n \in Nat : \A x \in Seq(S) : Len(x) < n => Is(x)}
<1>1. 0 \in T
  OBVIOUS
<1>2. ASSUME NEW n \in T PROVE n + 1 \in T
  <2> SUFFICES ASSUME NEW x \in Seq(S), Len(x) < n + 1 PROVE Is(x)
    <3> HIDE DEF Is
    <3> QED OBVIOUS
  <2> DEFINE xy == x \o y
  <2>0. /\ xy \in Seq(S) /\ Len(xy) = Len(x) + Len(y) /\ Len(x) \in Nat /\ Len(y) \in Nat
        /\ \A j \in 1..(Len(x) + Len(y)) : xy[j] = IF j <= Len(x) THEN x[j] ELSE y[j - Len(x)]
    BY ConcatProperties
  <2> HIDE DEF xy
  <2>1. CASE Lacks(x, sep, 1) /\ Lacks(y, sep, 1)
    <3>1. Lacks(xy, sep, 1)
      BY <2>1, FirstOfTwo DEF xy
    <3>2. tokens(xy, sep) = <<xy>> /\ tokens(x, sep) = <<x>> /\ tokens(y, sep) = <<y>>
      BY <2>0, <2>1, <3>1, OneToken
    <3>3. Glued(<<x>>, <<y>>, <<x \o y>>)
      BY GluedOne, <<>> \in Seq(Seq(S))
    <3> QED BY <3>2, <3>3 DEF xy
  <2>2. CASE Lacks(x, sep, 1) /\ ~Lacks(y, sep, 1)
    <3>1. PICK p : FirstAt(y, sep, 1, p)
      BY <2>2, FindIs
    <3>2. p \in 1..Len(y) /\ p \in 1..(Len(y) + 1) /\ p + 1 \in 1..(Len(y) + 1) /\ p \in 0..Len(y)
      BY <2>0, <3>1 DEF FirstAt
    <3> DEFINE q == Len(x) + p
               r == From(y, p + 1)
               b == Before(y, p)
    <3>5. FirstAt(xy, sep, 1, q)
      BY <2>2, <3>1, FirstOfTwo DEF xy
    <3>6. tokens(xy, sep) = <<Before(xy, q)>> \o tokens(From(xy, q + 1), sep)
      <4> HIDE DEF q
      <4> QED BY <2>0, <3>5, FirstToken
    <3>7. Before(xy, q) = x \o b /\ From(xy, q + 1) = r
      <4>1. Before(xy, Len(x) + p) = x \o b
        BY <3>2, PartsOfSecond DEF xy
      <4> DEFINE k == p + 1
      <4>2. k \in 1..(Len(y) + 1)
        BY <3>2
      <4>3. From(xy, Len(x) + k) = From(y, k)
        <5> HIDE DEF k
        <5> QED BY <4>2, PartsOfSecond DEF xy
      <4>4. Len(x) + k = q + 1
        BY <2>0, <3>2
      <4> QED BY <4>1, <4>3, <4>4
    <3>8. r \in Seq(S) /\ b \in Seq(S)
      BY <3>2, Rest, PartsOf
    <3>9. tokens(y, sep) = <<b>> \o tokens(r, sep)
      BY <3>1, FirstToken
    <3>10. tokens(r, sep) \in Seq(Seq(S))
      <4> HIDE DEF r
      <4> QED BY <3>8, TokensAre
    <3>11. Glued(<<x>>, <<b>> \o tokens(r, sep), <<x \o b>> \o tokens(r, sep))
      <4> HIDE DEF r, b
      <4> QED BY <3>8, <3>10, GluedOne
    <3>12. tokens(x, sep) = <<x>>
      BY <2>2, OneToken
    <3>13. tokens(xy, sep) = <<x \o b>> \o tokens(r, sep)
      <4> HIDE DEF q, r, b
      <4> QED BY <3>6, <3>7
    <3> HIDE DEF q, r, b
    <3> QED BY <3>9, <3>11, <3>12, <3>13 DEF xy
  <2>3. CASE ~Lacks(x, sep, 1)
    <3>1. PICK p : FirstAt(x, sep, 1, p)
      BY <2>3, FindIs
    <3>2. p \in 1..Len(x) /\ p \in 1..(Len(x) + 1) /\ p + 1 \in 1..(Len(x) + 1) /\ p \in 0..Len(x)
      BY <2>0, <3>1 DEF FirstAt
    <3> DEFINE r == From(x, p + 1)
               b == Before(x, p)
    <3>3. FirstAt(xy, sep, 1, p)
      BY <3>1, FirstOfTwo DEF xy
    <3>4. tokens(xy, sep) = <<Before(xy, p)>> \o tokens(From(xy, p + 1), sep)
      BY <2>0, <3>3, FirstToken
    <3>5. Before(xy, p) = b /\ From(xy, p + 1) = r \o y
      <4> DEFINE k == p + 1
      <4>1. Before(xy, p) = b
        BY <3>2, PartsOfFirst DEF xy
      <4>2. k \in 1..(Len(x) + 1)
        BY <3>2
      <4>3. From(xy, k) = From(x, k) \o y
        <5> HIDE DEF k
        <5> QED BY <4>2, PartsOfFirst DEF xy
      <4> QED BY <4>1, <4>3
    <3>6. tokens(x, sep) = <<b>> \o tokens(r, sep)
      BY <3>1, FirstToken
    <3>7. b \in Seq(S) /\ r \in Seq(S) /\ Len(r) < n
      BY <2>3, <3>2, Rest, PartsOf
    <3>8. Is(r)
      <4> HIDE DEF Is, r
      <4> QED BY <3>7
    <3> HIDE DEF r, b
    <3>9. /\ tokens(r, sep) \in Seq(Seq(S)) /\ Len(tokens(r, sep)) > 0
          /\ tokens(y, sep) \in Seq(Seq(S)) /\ Len(tokens(y, sep)) > 0
      BY <3>7, TokensAre
    <3>10. r \o y \in Seq(S)
      BY <3>7, ConcatProperties
    <3>11. tokens(r \o y, sep) \in Seq(Seq(S))
      BY <3>10, TokensAre
    <3>12. Glued(<<b>> \o tokens(r, sep), tokens(y, sep), <<b>> \o tokens(r \o y, sep))
      BY <3>7, <3>8, <3>9, <3>11, GluedLonger
    <3> QED BY <3>4, <3>5, <3>6, <3>12 DEF xy
  <2> QED BY <2>1, <2>2, <2>3
<1>3. T = Nat
  <2>1. T \in SUBSET Nat
    OBVIOUS
  <2> HIDE DEF T
  <2> QED BY <1>1, <1>2, <2>1, NumberInduction
<1>4. Len(text) + 1 \in T
  <2> HIDE DEF T
  <2> QED BY <1>3
<1>5. Is(text)
  <2>1. Len(text) < Len(text) + 1
    OBVIOUS
  <2> HIDE DEF Is
  <2> QED BY <1>4, <2>1
<1> QED BY <1>5
-----------------------------------------------------------------------------
(* Pieces between separators of one character. *)

LEMMA FindTextIs ==
  ASSUME NEW S, NEW s \in Seq(S), NEW c
  PROVE  FindText(s, <<c>>) = Find(s, c)
<1> DEFINE sep == <<c>>
<1>1. Len(sep) = 1
  OBVIOUS
<1>2. ASSUME NEW j \in 1..Len(s) PROVE StandsAt(s, sep, j) <=> s[j] = c
  <2>1. j + 1 - 1 = j /\ j <= Len(s)
    OBVIOUS
  <2>2. SubSeq(s, j, j) \in Seq(S) /\ Len(SubSeq(s, j, j)) = 1 /\ SubSeq(s, j, j)[1] = s[j]
    <3>1. /\ SubSeq(s, j, j) \in Seq(S)
          /\ Len(SubSeq(s, j, j)) = IF j <= j THEN j - j + 1 ELSE 0
          /\ \A i \in 1..(j - j + 1) : SubSeq(s, j, j)[i] = s[j + i - 1]
      <4>1. \A i \in j..j : s[i] \in S
        OBVIOUS
      <4> QED BY <4>1, SubSeqProperties
    <3> QED BY <3>1
  <2>3. SubSeq(s, j, j) = sep <=> s[j] = c
    <3> DEFINE q == SubSeq(s, j, j)
    <3>1. q \in Seq(S) /\ Len(q) = 1 /\ q[1] = s[j]
      BY <2>2
    <3> HIDE DEF q
    <3>2. q = <<q[1]>>
      BY <3>1
    <3>3. q = <<c>> <=> q[1] = c
      BY <3>2
    <3> QED BY <3>1, <3>3 DEF q
  <2> HIDE DEF sep
  <2>4. StandsAt(s, sep, j) <=> j + 1 - 1 <= Len(s) /\ SubSeq(s, j, j + 1 - 1) = sep
    BY <1>1 DEF StandsAt
  <2> QED BY <2>1, <2>3, <2>4
<1>3. {j \in 1..Len(s) : StandsAt(s, sep, j)} = {j \in 1..Len(s) : s[j] = c}
  <2> HIDE DEF sep
  <2> QED BY <1>2
<1> QED BY <1>3 DEF FindText, Find, FindFrom

\* The pieces from place i on.
LEMMA SplitFrom ==
  ASSUME NEW S, NEW text \in Seq(S), NEW c
  PROVE  \E f : /\ split(text, <<c>>) = f[1]
                /\ \A i \in 1..(Len(text) + 1) :
                     f[i] = IF Find(From(text, i), c) = 0 THEN SplitRest(From(text, i))
                            ELSE <<Before(From(text, i), Find(From(text, i), c))>>
                                   \o f[i + Find(From(text, i), c)]
<1> DEFINE m == Len(text) + 1
           pos(i) == FindText(From(text, i), <<c>>)
           Step(f, i) == IF pos(i) = 0 THEN SplitRest(From(text, i))
                         ELSE <<Before(From(text, i), pos(i))>> \o f[i + pos(i)]
           next == [i \in 1..m |-> IF pos(i) = 0 THEN 0 ELSE i + pos(i)]
           piece == [i \in 1..m |-> Before(From(text, i), pos(i))]
           last == [i \in 1..m |-> SplitRest(From(text, i))]
           f == CHOOSE f : f = [i \in 1..m |-> Step(f, i)]
<1>1. m \in Nat /\ 1 \in 1..m
  OBVIOUS
<1>2. ASSUME NEW i \in 1..m
      PROVE  pos(i) = Find(From(text, i), c) /\ (pos(i) = 0 \/ pos(i) \in 1..(m - i))
  <2> DEFINE r == From(text, i)
  <2>1. r \in Seq(S) /\ Len(r) = Len(text) - i + 1
    BY PartsOf
  <2> HIDE DEF r
  <2>2. FindText(r, <<c>>) = Find(r, c)
    BY <2>1, FindTextIs
  <2>3. Find(r, c) = 0 \/ Find(r, c) \in 1..Len(r)
    BY <2>1, FindIs DEF FirstAt
  <2>4. Len(r) = m - i
    BY <2>1
  <2> HIDE DEF m
  <2> QED BY <2>2, <2>3, <2>4 DEF r
<1>3. ASSUME NEW i \in 1..m PROVE next[i] = 0 \/ next[i] \in (i + 1)..m
  <2> HIDE DEF pos
  <2>1. next[i] = IF pos(i) = 0 THEN 0 ELSE i + pos(i)
    OBVIOUS
  <2> HIDE DEF next, m
  <2> QED BY <1>1, <1>2, <2>1
<1>4. PICK g : Pieces(g, m, next, piece, last)
  <2> HIDE DEF m, next, piece, last
  <2> QED BY <1>1, <1>3, PiecesExist
<1>5. ASSUME NEW i \in 1..m
      PROVE  (IF next[i] = 0 THEN last[i] ELSE <<piece[i]>> \o g[next[i]]) = Step(g, i)
  <2> HIDE DEF pos
  <2>1. /\ next[i] = IF pos(i) = 0 THEN 0 ELSE i + pos(i)
        /\ piece[i] = Before(From(text, i), pos(i)) /\ last[i] = SplitRest(From(text, i))
    OBVIOUS
  <2> HIDE DEF next, piece, last, m
  <2>2. (next[i] = 0) <=> pos(i) = 0
    BY <1>1, <1>2, <2>1
  <2> QED BY <2>1, <2>2
<1>6. g = [i \in 1..m |-> Step(g, i)]
  <2>1. g = [i \in 1..m |-> IF next[i] = 0 THEN last[i] ELSE <<piece[i]>> \o g[next[i]]]
    BY <1>4 DEF Pieces
  <2> HIDE DEF m, next, piece, last, Step
  <2> QED BY <1>5, <2>1
<1>7. f = [i \in 1..m |-> Step(f, i)]
  <2> HIDE DEF m, Step
  <2> QED BY <1>6
<1>8. split(text, <<c>>) = f[1]
  BY DEF split
<1>9. ASSUME NEW i \in 1..m PROVE f[i] = Step(f, i)
  <2> DEFINE h == [j \in 1..m |-> Step(f, j)]
  <2>1. h[i] = Step(f, i)
    <3> HIDE DEF Step, f, m
    <3> QED OBVIOUS
  <2> HIDE DEF f, h
  <2>2. f = h
    BY <1>7 DEF h
  <2> QED BY <2>1, <2>2
<1> HIDE DEF f, pos
<1> QED BY <1>2, <1>8, <1>9

LEMMA OnePiece ==
  ASSUME NEW S, NEW text \in Seq(S), NEW c, Lacks(text, c, 1)
  PROVE  split(text, <<c>>) = SplitRest(text)
<1>1. PICK f : /\ split(text, <<c>>) = f[1]
               /\ \A i \in 1..(Len(text) + 1) :
                    f[i] = IF Find(From(text, i), c) = 0 THEN SplitRest(From(text, i))
                           ELSE <<Before(From(text, i), Find(From(text, i), c))>>
                                  \o f[i + Find(From(text, i), c)]
  BY SplitFrom
<1>2. From(text, 1) = text /\ Find(text, c) = 0
  BY SubSeqFull, FindFromNone DEF From, Find
<1>3. 1 \in 1..(Len(text) + 1)
  OBVIOUS
<1> QED BY <1>1, <1>2, <1>3, Zenon

\* The first separator ends the first piece, and what follows is split in the same way.
LEMMA FirstPiece ==
  ASSUME NEW S, NEW text \in Seq(S), NEW c, NEW p, FirstAt(text, c, 1, p)
  PROVE  split(text, <<c>>) = <<Before(text, p)>> \o split(From(text, p + 1), <<c>>)
<1> DEFINE rest == From(text, p + 1)
           n == Len(text) - p
<1>1. p \in 1..Len(text) /\ p \in 0..Len(text) /\ p + 1 \in 1..(Len(text) + 1) /\ n \in Nat
  BY DEF FirstAt
<1>2. rest \in Seq(S) /\ Len(rest) = n
  BY <1>1, Rest
<1>3. PICK f : /\ split(text, <<c>>) = f[1]
               /\ \A i \in 1..(Len(text) + 1) :
                    f[i] = IF Find(From(text, i), c) = 0 THEN SplitRest(From(text, i))
                           ELSE <<Before(From(text, i), Find(From(text, i), c))>>
                                  \o f[i + Find(From(text, i), c)]
  BY SplitFrom
<1>4. PICK g : /\ split(rest, <<c>>) = g[1]
               /\ \A i \in 1..(n + 1) :
                    g[i] = IF Find(From(rest, i), c) = 0 THEN SplitRest(From(rest, i))
                           ELSE <<Before(From(rest, i), Find(From(rest, i), c))>>
                                  \o g[i + Find(From(rest, i), c)]
  <2> HIDE DEF rest
  <2> QED BY <1>2, SplitFrom
<1> DEFINE T == {k \in Nat : \A i \in 1..(n + 1) : i > n + 1 - k => f[p + i] = g[i]}
<1>5. 0 \in T
  BY <1>1
<1>6. ASSUME NEW k \in T PROVE k + 1 \in T
  <2> SUFFICES ASSUME NEW i \in 1..(n + 1), i = n + 1 - k PROVE f[p + i] = g[i]
    <3> HIDE DEF rest
    <3>1. \A i \in 1..(n + 1) : i > n + 1 - (k + 1) => i > n + 1 - k \/ i = n + 1 - k
      BY <1>1
    <3> QED BY <3>1
  <2> DEFINE r == From(rest, i)
             e == Find(r, c)
  <2>1. p + i \in 1..(Len(text) + 1) /\ i \in 1..(Len(text) - p + 1) /\ i \in 1..(n + 1)
    BY <1>1
  <2>2. From(text, p + i) = r
    BY <1>1, <2>1, RestOfRest
  <2>3. r \in Seq(S) /\ Len(r) = n - i + 1
    <3> HIDE DEF rest
    <3>1. i \in 1..(Len(rest) + 1)
      BY <1>2, <2>1, Zenon
    <3>2. From(rest, i) \in Seq(S) /\ Len(From(rest, i)) = Len(rest) - i + 1
      BY <1>2, <3>1, PartsOf
    <3> HIDE DEF n
    <3> QED BY <1>2, <3>2
  <2>4. e = 0 \/ (e # 0 /\ e \in 1..(n - i + 1))
    <3> HIDE DEF r
    <3> QED BY <2>3, FindIs DEF FirstAt
  <2>5. g[i] = IF e = 0 THEN SplitRest(r) ELSE <<Before(r, e)>> \o g[i + e]
    BY <1>4
  <2>6. f[p + i] = IF e = 0 THEN SplitRest(r) ELSE <<Before(r, e)>> \o f[(p + i) + e]
    BY <1>3, <2>1, <2>2, Zenon
  <2> HIDE DEF r, e
  <2>7. CASE e = 0
    BY <2>5, <2>6, <2>7
  <2>8. CASE e # 0
    <3>1. i + e \in 1..(n + 1) /\ i + e > n + 1 - k /\ p + (i + e) = (p + i) + e
      BY <1>1, <2>4, <2>8
    <3>2. f[p + (i + e)] = g[i + e]
      BY <3>1
    <3> QED BY <2>5, <2>6, <2>8, <3>1, <3>2, Zenon
  <2> QED BY <2>7, <2>8
<1>7. n + 1 \in T
  <2>1. T \in SUBSET Nat
    OBVIOUS
  <2> HIDE DEF T
  <2> QED BY <1>1, <1>5, <1>6, <2>1, NumberInduction
<1>8. f[p + 1] = g[1]
  BY <1>1, <1>7
<1>9. Find(text, c) = p /\ From(text, 1) = text
  BY FindFromFirst, SubSeqFull DEF Find, From
<1>10. f[1] = <<Before(text, p)>> \o f[p + 1]
  <2>1. 1 \in 1..(Len(text) + 1) /\ p # 0 /\ 1 + p = p + 1
    BY <1>1
  <2> QED BY <1>3, <1>9, <2>1, Zenon
<1> QED BY <1>3, <1>4, <1>8, <1>10

\* StringUtils::split, which cuts the text it goes through, and SysLink::split, which goes on from
\* place to place, make the same pieces of every text with a separator of one character, but that
\* StringUtils::split drops a last one that is empty.
THEOREM SplitIsTokens ==
  ASSUME NEW S, NEW text \in Seq(S), NEW c, NEW q, q = tokens(text, c)
  PROVE  split(text, <<c>>) = IF q[Len(q)] = <<>> THEN SubSeq(q, 1, Len(q) - 1) ELSE q
<1> DEFINE Cropped(t) == IF t[Len(t)] = <<>> THEN SubSeq(t, 1, Len(t) - 1) ELSE t
           Is(s) == split(s, <<c>>) = Cropped(tokens(s, c))
           T == {n \in Nat : \A s \in Seq(S) : Len(s) < n => Is(s)}
<1>1. 0 \in T
  OBVIOUS
<1>2. ASSUME NEW n \in T PROVE n + 1 \in T
  <2> SUFFICES ASSUME NEW s \in Seq(S), Len(s) < n + 1 PROVE Is(s)
    <3> HIDE DEF Is
    <3> QED OBVIOUS
  <2>1. CASE Lacks(s, c, 1)
    <3>1. tokens(s, c) = <<s>> /\ split(s, <<c>>) = SplitRest(s)
      BY <2>1, OneToken, OnePiece
    <3> DEFINE t == <<s>>
    <3>2. Len(t) = 1 /\ t[1] = s /\ SubSeq(t, 1, 1 - 1) = <<>>
      OBVIOUS
    <3>3. Cropped(t) = SplitRest(s)
      <4>1. SplitRest(s) = IF s # <<>> THEN t ELSE <<>>
        BY DEF SplitRest
      <4> HIDE DEF t
      <4>2. t[Len(t)] = s /\ SubSeq(t, 1, Len(t) - 1) = <<>>
        BY <3>2, Zenon
      <4> QED BY <4>1, <4>2
    <3> HIDE DEF Cropped
    <3> QED BY <3>1, <3>3
  <2>2. CASE ~Lacks(s, c, 1)
    <3>1. PICK p : FirstAt(s, c, 1, p)
      BY <2>2, FindIs
    <3>2. p \in 1..Len(s) /\ p \in 0..Len(s) /\ p \in 1..(Len(s) + 1)
      BY <3>1 DEF FirstAt
    <3> DEFINE r == From(s, p + 1)
               x == Before(s, p)
    <3>3. r \in Seq(S) /\ Len(r) < n /\ x \in Seq(S)
      BY <2>2, <3>2, Rest, PartsOf
    <3>4. Is(r)
      <4> HIDE DEF Is, r
      <4> QED BY <3>3
    <3>5. tokens(s, c) = <<x>> \o tokens(r, c) /\ split(s, <<c>>) = <<x>> \o split(r, <<c>>)
      BY <3>1, FirstToken, FirstPiece
    <3> DEFINE u == tokens(r, c)
               v == <<x>> \o u
               m == Len(u)
    <3>6. u \in Seq(Seq(S)) /\ Len(u) \in Nat \ {0}
      <4> HIDE DEF r
      <4> QED BY <3>3, TokensAre
    <3> HIDE DEF x, r, u
    <3>7. /\ v \in Seq(Seq(S)) /\ Len(v) = m + 1 /\ v[1] = x
          /\ \A i \in 1..m : v[i + 1] = u[i]
      BY <3>3, <3>6, PutBefore
    <3>8. v[Len(v)] = u[Len(u)]
      <4>1. m \in 1..m
        BY <3>6
      <4> HIDE DEF v
      <4> QED BY <3>7, <4>1
    <3>9. SubSeq(v, 1, Len(v) - 1) = <<x>> \o SubSeq(u, 1, Len(u) - 1)
      <4> DEFINE a == SubSeq(u, 1, m - 1)
                 b == SubSeq(v, 1, Len(v) - 1)
      <4>1. a \in Seq(Seq(S)) /\ Len(a) = m - 1 /\ \A i \in 1..(m - 1) : a[i] = u[i]
        <5> DEFINE k == m - 1
        <5>1. k \in Nat /\ \A i \in 1..k : u[i] \in Seq(S)
          BY <3>6
        <5> HIDE DEF k
        <5>2. /\ SubSeq(u, 1, k) \in Seq(Seq(S)) /\ Len(SubSeq(u, 1, k)) = IF 1 <= k THEN k - 1 + 1 ELSE 0
              /\ \A i \in 1..(k - 1 + 1) : SubSeq(u, 1, k)[i] = u[1 + i - 1]
          BY <5>1, SubSeqProperties
        <5>3. SubSeq(u, 1, k) \in Seq(Seq(S)) /\ Len(SubSeq(u, 1, k)) = k /\ \A i \in 1..k : SubSeq(u, 1, k)[i] = u[i]
          BY <5>1, <5>2
        <5> QED BY <5>3 DEF k
      <4>2. b \in Seq(Seq(S)) /\ Len(b) = m /\ \A i \in 1..m : b[i] = v[i]
        <5>0. Len(v) - 1 = m
          BY <3>6, <3>7
        <5> HIDE DEF v
        <5>1. m \in Nat /\ \A i \in 1..m : v[i] \in Seq(S)
          BY <3>6, <3>7
        <5> HIDE DEF m
        <5>2. /\ SubSeq(v, 1, m) \in Seq(Seq(S)) /\ Len(SubSeq(v, 1, m)) = IF 1 <= m THEN m - 1 + 1 ELSE 0
              /\ \A i \in 1..(m - 1 + 1) : SubSeq(v, 1, m)[i] = v[1 + i - 1]
          BY <5>1, SubSeqProperties
        <5>3. SubSeq(v, 1, m) \in Seq(Seq(S)) /\ Len(SubSeq(v, 1, m)) = m /\ \A i \in 1..m : SubSeq(v, 1, m)[i] = v[i]
          BY <5>1, <5>2
        <5> QED BY <5>0, <5>3
      <4> DEFINE w == <<x>> \o a
      <4>3. w \in Seq(Seq(S)) /\ Len(w) = Len(a) + 1 /\ w[1] = x /\ \A i \in 1..Len(a) : w[i + 1] = a[i]
        <5> HIDE DEF a
        <5> QED BY <3>3, <4>1, PutBefore
      <4> HIDE DEF a, b, v, w
      <4>4. Len(b) = Len(w)
        BY <3>6, <4>1, <4>2, <4>3
      <4>5. ASSUME NEW i \in 1..Len(b) PROVE b[i] = w[i]
        <5>1. CASE i = 1
          BY <3>7, <4>2, <4>3, <5>1
        <5>2. CASE i # 1
          <6>1. i - 1 \in 1..(m - 1) /\ i - 1 \in 1..m /\ (i - 1) + 1 = i /\ i \in 1..m
            BY <3>6, <4>2, <5>2
          <6>2. b[i] = u[i - 1]
            BY <3>7, <4>2, <6>1
          <6>3. w[i] = u[i - 1]
            BY <4>1, <4>3, <6>1
          <6> QED BY <6>2, <6>3
        <5> QED BY <5>1, <5>2
      <4>6. b = w
        BY <4>2, <4>3, <4>4, <4>5, SeqEqual
      <4> QED BY <4>6 DEF a, b, w
    <3>10. Cropped(v) = <<x>> \o Cropped(u)
      <4> HIDE DEF v
      <4> QED BY <3>8, <3>9 DEF v
    <3> QED BY <3>4, <3>5, <3>10 DEF u
  <2> QED BY <2>1, <2>2
<1>3. T = Nat
  <2>1. T \in SUBSET Nat
    OBVIOUS
  <2> HIDE DEF T
  <2> QED BY <1>1, <1>2, <2>1, NumberInduction
<1>4. Len(text) + 1 \in T
  <2> HIDE DEF T
  <2> QED BY <1>3
<1>5. Is(text)
  <2>1. Len(text) < Len(text) + 1
    OBVIOUS
  <2> HIDE DEF Is
  <2> QED BY <1>4, <2>1
<1> QED BY <1>5

\* A token is a part of the text.
LEMMA TokenParts ==
  ASSUME NEW S, NEW text \in Seq(S), NEW c
  PROVE  \A i \in 1..Len(tokens(text, c)) :
           \E j \in 0..Len(text) : /\ j + Len(tokens(text, c)[i]) <= Len(text)
                                   /\ tokens(text, c)[i] = SubSeq(text, j + 1, j + Len(tokens(text, c)[i]))
<1> DEFINE In(x, s) == \E j \in 0..Len(s) : j + Len(x) <= Len(s) /\ x = SubSeq(s, j + 1, j + Len(x))
           Is(s) == \A i \in 1..Len(tokens(s, c)) : In(tokens(s, c)[i], s)
           T == {n \in Nat : \A s \in Seq(S) : Len(s) < n => Is(s)}
<1>1. 0 \in T
  OBVIOUS
<1>2. ASSUME NEW n \in T PROVE n + 1 \in T
  <2> SUFFICES ASSUME NEW s \in Seq(S), Len(s) < n + 1 PROVE Is(s)
    <3> HIDE DEF Is
    <3> QED OBVIOUS
  <2>1. CASE Lacks(s, c, 1)
    <3>1. tokens(s, c) = <<s>>
      BY <2>1, OneToken
    <3>2. In(s, s)
      <4>1. 0 \in 0..Len(s) /\ 0 + Len(s) <= Len(s) /\ s = SubSeq(s, 0 + 1, 0 + Len(s))
        BY SubSeqFull
      <4> QED BY <4>1
    <3> HIDE DEF In
    <3> QED BY <3>1, <3>2
  <2>2. CASE ~Lacks(s, c, 1)
    <3>1. PICK p : FirstAt(s, c, 1, p)
      BY <2>2, FindIs
    <3>2. p \in 1..Len(s) /\ p \in 0..Len(s) /\ p \in 1..(Len(s) + 1)
      BY <3>1 DEF FirstAt
    <3> DEFINE r == From(s, p + 1)
               x == Before(s, p)
    <3>3. r \in Seq(S) /\ Len(r) < n /\ x \in Seq(S) /\ Len(r) = Len(s) - p /\ Len(x) = p - 1
      BY <2>2, <3>2, Rest, PartsOf
    <3>4. Is(r)
      <4> HIDE DEF Is, r
      <4> QED BY <3>3
    <3>5. tokens(s, c) = <<x>> \o tokens(r, c)
      BY <3>1, FirstToken
    <3>6. In(x, s)
      <4>1. x = SubSeq(s, 0 + 1, 0 + (p - 1))
        BY <3>2 DEF Before
      <4>2. 0 \in 0..Len(s) /\ 0 + (p - 1) <= Len(s)
        BY <3>2
      <4> HIDE DEF x
      <4> QED BY <3>3, <4>1, <4>2
    <3>11. \A a \in 1..(Len(s) - p + 1), b \in 0..(Len(s) - p) : SubSeq(r, a, b) = SubSeq(s, p + a, p + b)
      <4>1. p \in 0..Len(s)
        BY <3>2
      <4> HIDE DEF T, Is, In, x
      <4> QED BY <4>1, PartOfRest
    <3>7. ASSUME NEW y \in Seq(S), In(y, r) PROVE In(y, s)
      <4>1. PICK j \in 0..Len(r) : j + Len(y) <= Len(r) /\ y = SubSeq(r, j + 1, j + Len(y))
        BY <3>7
      <4> DEFINE a == j + 1
                 b == j + Len(y)
                 k == p + j
      <4>2. a \in 1..(Len(s) - p + 1) /\ b \in 0..(Len(s) - p)
        <5> HIDE DEF r
        <5> QED BY <3>2, <3>3, <4>1
      <4>3. SubSeq(r, a, b) = SubSeq(s, p + a, p + b)
        <5> HIDE DEF a, b, k, r
        <5> QED BY <3>11, <4>2
      <4>4. k \in 0..Len(s) /\ k + Len(y) <= Len(s) /\ p + a = k + 1 /\ p + b = k + Len(y)
        <5> HIDE DEF r
        <5> QED BY <3>2, <3>3, <4>1
      <4>5. y = SubSeq(s, k + 1, k + Len(y))
        <5> HIDE DEF k, r
        <5> QED BY <4>1, <4>3, <4>4
      <4> HIDE DEF k
      <4> QED BY <4>4, <4>5
    <3> DEFINE u == tokens(r, c)
               v == <<x>> \o u
    <3>8. u \in Seq(Seq(S)) /\ Len(u) \in Nat \ {0}
      <4> HIDE DEF r
      <4> QED BY <3>3, TokensAre
    <3> HIDE DEF x, r, u, In
    <3>9. /\ v \in Seq(Seq(S)) /\ Len(v) = Len(u) + 1 /\ v[1] = x
          /\ \A i \in 1..Len(u) : v[i + 1] = u[i]
      BY <3>3, <3>8, PutBefore
    <3> HIDE DEF v
    <3>10. ASSUME NEW i \in 1..Len(v) PROVE In(v[i], s)
      <4>1. i = 1 \/ (i - 1 \in 1..Len(u) /\ (i - 1) + 1 = i)
        BY <3>8, <3>9
      <4>2. CASE i = 1
        BY <3>6, <3>9, <4>2
      <4>3. CASE i - 1 \in 1..Len(u) /\ (i - 1) + 1 = i
        <5>1. v[i] = u[i - 1] /\ u[i - 1] \in Seq(S)
          <6>1. v[i] = u[i - 1]
            BY <3>9, <4>3
          <6>2. u[i - 1] \in Seq(S)
            BY <3>8, <4>3
          <6> QED BY <6>1, <6>2
        <5>2. In(u[i - 1], r)
          BY <3>4, <4>3 DEF u
        <5> QED BY <3>7, <5>1, <5>2
      <4> QED BY <4>1, <4>2, <4>3
    <3> QED BY <3>5, <3>10 DEF u, v
  <2> QED BY <2>1, <2>2
<1>3. T = Nat
  <2>1. T \in SUBSET Nat
    OBVIOUS
  <2> HIDE DEF T
  <2> QED BY <1>1, <1>2, <2>1, NumberInduction
<1>4. Len(text) + 1 \in T
  <2> HIDE DEF T
  <2> QED BY <1>3
<1>5. Is(text)
  <2>1. Len(text) < Len(text) + 1
    OBVIOUS
  <2> HIDE DEF Is
  <2> QED BY <1>4, <2>1
<1> QED BY <1>5

-----------------------------------------------------------------------------
(* The same letters. *)

\* What is true of texts without c, and of a text when it is true of what follows the first c,
\* is true of all texts.
LEMMA TokenInduction ==
  ASSUME NEW S, NEW c, NEW T \in SUBSET Seq(S),
         \A s \in Seq(S) : Lacks(s, c, 1) => s \in T,
         \A s \in Seq(S) : \A p \in 1..Len(s) : FirstAt(s, c, 1, p) /\ From(s, p + 1) \in T => s \in T
  PROVE  T = Seq(S)
<1> DEFINE N == {n \in Nat : \A s \in Seq(S) : Len(s) < n => s \in T}
<1>1. 0 \in N
  OBVIOUS
<1>2. ASSUME NEW n \in N PROVE n + 1 \in N
  <2> SUFFICES ASSUME NEW s \in Seq(S), Len(s) < n + 1 PROVE s \in T
    OBVIOUS
  <2>1. CASE Lacks(s, c, 1)
    BY <2>1
  <2>2. CASE ~Lacks(s, c, 1)
    <3>1. PICK p : FirstAt(s, c, 1, p)
      BY <2>2, FindIs
    <3>2. p \in 1..Len(s) /\ p \in 0..Len(s)
      BY <3>1 DEF FirstAt
    <3>3. From(s, p + 1) \in Seq(S) /\ Len(From(s, p + 1)) < n
      BY <3>2, Rest
    <3> QED BY <3>1, <3>2, <3>3
  <2> QED BY <2>1, <2>2
<1>3. N = Nat
  <2>1. N \in SUBSET Nat
    OBVIOUS
  <2> HIDE DEF N
  <2> QED BY <1>1, <1>2, <2>1, NumberInduction
<1>4. ASSUME NEW s \in Seq(S) PROVE s \in T
  <2>1. Len(s) + 1 \in N /\ Len(s) < Len(s) + 1
    BY <1>3
  <2> QED BY <2>1
<1> QED BY <1>4

\* What the first c of a text makes of it.
LEMMA AtFirst ==
  ASSUME NEW S, NEW s \in Seq(S), NEW c, NEW p, FirstAt(s, c, 1, p)
  PROVE  /\ p \in 1..Len(s) /\ c \in S
         /\ Before(s, p) \in Seq(S) /\ Len(Before(s, p)) = p - 1 /\ Lacks(Before(s, p), c, 1)
         /\ From(s, p + 1) \in Seq(S) /\ Len(From(s, p + 1)) = Len(s) - p
         /\ tokens(From(s, p + 1), c) \in Seq(Seq(S)) /\ Len(tokens(From(s, p + 1), c)) \in Nat \ {0}
<1> DEFINE b == Before(s, p)
           r == From(s, p + 1)
<1>1. p \in 1..Len(s) /\ p \in 0..Len(s) /\ p \in 1..(Len(s) + 1) /\ s[p] = c /\ \A j \in 1..(p - 1) : s[j] # c
  BY DEF FirstAt
<1>2. c \in S
  BY <1>1
<1>4. b \in Seq(S) /\ Len(b) = p - 1 /\ \A j \in 1..(p - 1) : b[j] = s[j]
  BY <1>1, PartsOf
<1>5. Lacks(b, c, 1)
  BY <1>1, <1>4 DEF Lacks
<1>6. r \in Seq(S) /\ Len(r) = Len(s) - p
  BY <1>1, Rest
<1> HIDE DEF b, r
<1>7. tokens(r, c) \in Seq(Seq(S)) /\ Len(tokens(r, c)) \in Nat \ {0}
  BY <1>6, TokensAre
<1> QED BY <1>1, <1>2, <1>4, <1>5, <1>6, <1>7 DEF b, r

\* A text is what is before one of its characters, the character and what is behind it.
HasAt(s, c, p) == p \in 1..Len(s) /\ s[p] = c

LEMMA JoinAt ==
  ASSUME NEW S, NEW s \in Seq(S), NEW c, NEW p, HasAt(s, c, p)
  PROVE  s = Before(s, p) \o (<<c>> \o From(s, p + 1))
<1> DEFINE b == Before(s, p)
           r == From(s, p + 1)
<1>1. p \in 1..Len(s) /\ p \in 0..Len(s) /\ p \in 1..(Len(s) + 1) /\ s[p] = c
  BY DEF HasAt
<1>2. c \in S
  BY <1>1
<1> DEFINE u == From(s, p)
<1>3. u \in Seq(S) /\ Len(u) = (Len(s) - p) + 1 /\ \A j \in 1..((Len(s) - p) + 1) : u[j] = s[p + j - 1]
  BY <1>1, PartsOf
<1>6. r \in Seq(S) /\ Len(r) = Len(s) - p /\ \A k \in 1..(Len(s) - p) : r[k] = s[p + k]
  BY <1>1, Rest
<1>7. s = b \o u
  BY <1>1, PartsJoin
<1> HIDE DEF u, b, r
<1> DEFINE v == <<c>> \o r
<1>9. /\ v \in Seq(S) /\ Len(v) = Len(r) + 1 /\ v[1] = c
      /\ \A i \in 1..Len(r) : v[i + 1] = r[i]
  BY <1>2, <1>6, PutBefore
<1> HIDE DEF v
<1>10. ASSUME NEW i \in 1..Len(u) PROVE u[i] = v[i]
  <2>1. CASE i = 1
    BY <1>1, <1>3, <1>9, <2>1, SMTT(30)
  <2>2. CASE i # 1
    <3>1. i - 1 \in 1..Len(r) /\ (i - 1) + 1 = i /\ p + i - 1 = p + (i - 1)
      BY <1>1, <1>3, <1>6, <2>2
    <3> QED BY <1>3, <1>6, <1>9, <3>1
  <2> QED BY <2>1, <2>2
<1>11. u = v
  <2>1. Len(u) = Len(v)
    BY <1>3, <1>6, <1>9
  <2> QED BY <1>3, <1>9, <1>10, <2>1, SeqEqual
<1> QED BY <1>7, <1>11 DEF v, b, r

LEMMA FirstJoin ==
  ASSUME NEW S, NEW s \in Seq(S), NEW c, NEW p, FirstAt(s, c, 1, p)
  PROVE  s = Before(s, p) \o (<<c>> \o From(s, p + 1))
<1>1. HasAt(s, c, p)
  BY DEF FirstAt, HasAt
<1> QED BY <1>1, JoinAt

\* A text is one token, or more than one.
LEMMA HowManyTokens ==
  ASSUME NEW S, NEW s \in Seq(S), NEW c
  PROVE  Lacks(s, c, 1) <=> Len(tokens(s, c)) = 1
<1>1. CASE Lacks(s, c, 1)
  <2>1. tokens(s, c) = <<s>> /\ Len(<<s>>) = 1
    BY <1>1, OneToken
  <2> QED BY <1>1, <2>1
<1>2. CASE ~Lacks(s, c, 1)
  <2>1. PICK p : FirstAt(s, c, 1, p)
    BY <1>2, FindIs
  <2> DEFINE b == Before(s, p)
             r == From(s, p + 1)
             q == tokens(r, c)
  <2>2. b \in Seq(S) /\ q \in Seq(Seq(S)) /\ Len(q) \in Nat \ {0}
    BY <2>1, AtFirst
  <2>4. tokens(s, c) = <<b>> \o q
    BY <2>1, FirstToken
  <2> HIDE DEF b, q
  <2>3. Len(<<b>> \o q) = Len(q) + 1
    BY <2>2, PutBefore
  <2> QED BY <1>2, <2>2, <2>3, <2>4
<1> QED BY <1>1, <1>2

\* SysLink::split loses nothing: texts with the same tokens are the same.
THEOREM TokensEqual ==
  ASSUME NEW S, NEW x \in Seq(S), NEW y \in Seq(S), NEW c, tokens(x, c) = tokens(y, c)
  PROVE  x = y
<1> DEFINE Is(s) == \A z \in Seq(S) : tokens(s, c) = tokens(z, c) => s = z
           T == {s \in Seq(S) : Is(s)}
<1>1. ASSUME NEW s \in Seq(S), Lacks(s, c, 1) PROVE s \in T
  <2> SUFFICES ASSUME NEW z \in Seq(S), tokens(s, c) = tokens(z, c) PROVE s = z
    OBVIOUS
  <2> HIDE DEF T, Is
  <2>1. Lacks(z, c, 1)
    BY <1>1, HowManyTokens
  <2>2. tokens(s, c) = <<s>> /\ tokens(z, c) = <<z>>
    BY <1>1, <2>1, OneToken
  <2>3. <<s>>[1] = s /\ <<z>>[1] = z
    OBVIOUS
  <2> QED BY <2>2, <2>3
<1>2. ASSUME NEW s \in Seq(S), NEW p \in 1..Len(s), FirstAt(s, c, 1, p), From(s, p + 1) \in T PROVE s \in T
  <2> DEFINE r == From(s, p + 1)
             b == Before(s, p)
  <2>1. Is(r)
    BY <1>2
  <2> HIDE DEF T, Is
  <2>2. r \in Seq(S) /\ b \in Seq(S) /\ tokens(r, c) \in Seq(Seq(S))
    BY <1>2, AtFirst
  <2>4. s = b \o (<<c>> \o r)
    BY <1>2, FirstJoin
  <2>5. tokens(s, c) = <<b>> \o tokens(r, c)
    BY <1>2, FirstToken
  <2> HIDE DEF r, b
  <2>3. ASSUME NEW z \in Seq(S), tokens(s, c) = tokens(z, c) PROVE s = z
    <3>1. ~Lacks(z, c, 1)
      <4>1. ~Lacks(s, c, 1)
        BY <1>2 DEF Lacks, FirstAt
      <4> QED BY <2>3, <4>1, HowManyTokens
    <3>2. PICK k : FirstAt(z, c, 1, k)
      BY <3>1, FindIs
    <3> DEFINE rz == From(z, k + 1)
               bz == Before(z, k)
    <3>3. rz \in Seq(S) /\ bz \in Seq(S) /\ tokens(rz, c) \in Seq(Seq(S))
      BY <3>2, AtFirst
    <3>7. z = bz \o (<<c>> \o rz)
      BY <3>2, FirstJoin
    <3>8. tokens(z, c) = <<bz>> \o tokens(rz, c)
      BY <3>2, FirstToken
    <3> HIDE DEF rz, bz
    <3>4. <<b>> \o tokens(r, c) = <<bz>> \o tokens(rz, c)
      BY <2>3, <2>5, <3>8, Zenon
    <3>5. b = bz /\ tokens(r, c) = tokens(rz, c)
      <4> DEFINE q == tokens(r, c)
                 qz == tokens(rz, c)
      <4>1. <<b>> \o q = <<bz>> \o qz
        BY <3>4, Zenon
      <4> HIDE DEF q, qz
      <4> DEFINE K == Seq(S)
      <4>3. b \in K /\ bz \in K /\ q \in Seq(K) /\ qz \in Seq(K)
        BY <2>2, <3>3 DEF q, qz
      <4> HIDE DEF K
      <4> DEFINE g == <<b>> \o q
                 gz == <<bz>> \o qz
      <4>4. g = gz
        BY <4>1, Zenon
      <4>5. Len(g) = Len(q) + 1 /\ g[1] = b /\ \A i \in 1..Len(q) : g[i + 1] = q[i]
        BY <4>3, PutBefore
      <4>6. Len(gz) = Len(qz) + 1 /\ gz[1] = bz /\ \A i \in 1..Len(qz) : gz[i + 1] = qz[i]
        BY <4>3, PutBefore
      <4> HIDE DEF g, gz
      <4>7. Len(q) = Len(qz) /\ b = bz /\ \A i \in 1..Len(q) : q[i] = qz[i]
        BY <4>3, <4>4, <4>5, <4>6
      <4>2. b = bz /\ q = qz
        BY <4>3, <4>7, SeqEqual
      <4> QED BY <4>2 DEF q, qz
    <3>6. r = rz
      BY <2>1, <3>3, <3>5 DEF Is
    <3> QED BY <2>4, <3>5, <3>6, <3>7, Zenon
  <2> QED BY <2>3 DEF T, Is
<1>3. T = Seq(S)
  <2>1. T \in SUBSET Seq(S)
    OBVIOUS
  <2> HIDE DEF T
  <2> QED BY <1>1, <1>2, <2>1, TokenInduction
<1> QED BY <1>3

-----------------------------------------------------------------------------
(* Small and capital letters. *)

LEMMA UpperIs ==
  ASSUME NEW s \in Seq(Byte)
  PROVE  /\ toUpper(s) \in Seq(Byte) /\ Len(toUpper(s)) = Len(s)
         /\ \A i \in 1..Len(s) : toUpper(s)[i] = IF s[i] \in 97..122 THEN s[i] - 32 ELSE s[i]
<1>1. Len(s) \in Nat /\ DOMAIN s = 1..Len(s) /\ \A i \in 1..Len(s) : s[i] \in Byte
  OBVIOUS
<1>2. \A i \in 1..Len(s) : (IF s[i] \in 97..122 THEN s[i] - 32 ELSE s[i]) \in Byte
  BY <1>1 DEF Byte
<1>3. toUpper(s) \in [1..Len(s) -> Byte]
  BY <1>1, <1>2 DEF toUpper
<1>4. toUpper(s) \in Seq(Byte)
  BY <1>1, <1>3
<1> QED BY <1>1, <1>3, <1>4 DEF toUpper

\* No slash comes or goes.
LEMMA UpperSlash ==
  ASSUME NEW s \in Seq(Byte), NEW i \in 1..Len(s)
  PROVE  toUpper(s)[i] = Slash <=> s[i] = Slash
<1>1. s[i] \in Byte /\ toUpper(s)[i] = IF s[i] \in 97..122 THEN s[i] - 32 ELSE s[i]
  BY UpperIs
<1>3. \A b \in Byte : b \in Int
  BY DEF Byte
<1>4. Slash = 47
  BY DEF Slash
<1>2. s[i] \in Int /\ Slash = 47
  BY <1>1, <1>3, <1>4
<1>5. CASE s[i] \in 97..122
  <2>1. toUpper(s)[i] = s[i] - 32
    BY <1>1, <1>5
  <2>2. \A x \in Int : x \in 97..122 => x - 32 # 47 /\ x # 47
    OBVIOUS
  <2> QED BY <1>2, <1>5, <2>1, <2>2
<1>6. CASE s[i] \notin 97..122
  <2>1. toUpper(s)[i] = s[i]
    BY <1>1, <1>6
  <2> QED BY <2>1
<1> QED BY <1>5, <1>6

LEMMA UpperParts ==
  ASSUME NEW s \in Seq(Byte), NEW i \in 1..(Len(s) + 1)
  PROVE  toUpper(From(s, i)) = From(toUpper(s), i) /\ toUpper(Before(s, i)) = Before(toUpper(s), i)
<1> DEFINE u == toUpper(s)
           f == From(s, i)
           b == Before(s, i)
           n == (Len(s) - i) + 1
<1>1. u \in Seq(Byte) /\ Len(u) = Len(s) /\ \A j \in 1..Len(s) : u[j] = IF s[j] \in 97..122 THEN s[j] - 32 ELSE s[j]
  BY UpperIs
<1>2. /\ f \in Seq(Byte) /\ Len(f) = n
      /\ \A j \in 1..n : f[j] = s[i + j - 1]
      /\ b \in Seq(Byte) /\ Len(b) = i - 1
      /\ \A j \in 1..(i - 1) : b[j] = s[j]
  BY PartsOf
<1> HIDE DEF u
<1>3. /\ From(u, i) \in Seq(Byte) /\ Len(From(u, i)) = n
      /\ \A j \in 1..n : From(u, i)[j] = u[i + j - 1]
      /\ Before(u, i) \in Seq(Byte) /\ Len(Before(u, i)) = i - 1
      /\ \A j \in 1..(i - 1) : Before(u, i)[j] = u[j]
  <2>1. i \in 1..(Len(u) + 1)
    BY <1>1
  <2>2. /\ From(u, i) \in Seq(Byte) /\ Len(From(u, i)) = Len(u) - i + 1
        /\ \A j \in 1..(Len(u) - i + 1) : From(u, i)[j] = u[i + j - 1]
        /\ Before(u, i) \in Seq(Byte) /\ Len(Before(u, i)) = i - 1
        /\ \A j \in 1..(i - 1) : Before(u, i)[j] = u[j]
    BY <1>1, <2>1, PartsOf
  <2>3. Len(u) - i + 1 = n
    BY <1>1
  <2> HIDE DEF n
  <2> QED BY <2>2, <2>3
<1> HIDE DEF f, b
<1>4. /\ toUpper(f) \in Seq(Byte) /\ Len(toUpper(f)) = Len(f)
      /\ \A j \in 1..Len(f) : toUpper(f)[j] = IF f[j] \in 97..122 THEN f[j] - 32 ELSE f[j]
  BY <1>2, UpperIs
<1>5. /\ toUpper(b) \in Seq(Byte) /\ Len(toUpper(b)) = Len(b)
      /\ \A j \in 1..Len(b) : toUpper(b)[j] = IF b[j] \in 97..122 THEN b[j] - 32 ELSE b[j]
  BY <1>2, UpperIs
<1>6. \A j \in 1..n : i + j - 1 \in 1..Len(s)
  OBVIOUS
<1>7. toUpper(f) = From(u, i)
  <2>1. ASSUME NEW j \in 1..n PROVE toUpper(f)[j] = From(u, i)[j]
    <3>1. i + j - 1 \in 1..Len(s)
      BY <1>6
    <3> DEFINE k == i + j - 1
    <3>2. k \in 1..Len(s) /\ f[j] = s[k] /\ From(u, i)[j] = u[k]
      BY <1>2, <1>3, <3>1
    <3>3. j \in 1..Len(f)
      BY <1>2
    <3> HIDE DEF k, n
    <3>4. u[k] = IF s[k] \in 97..122 THEN s[k] - 32 ELSE s[k]
      BY <1>1, <3>2
    <3>5. toUpper(f)[j] = IF f[j] \in 97..122 THEN f[j] - 32 ELSE f[j]
      BY <1>4, <3>3
    <3> QED BY <3>2, <3>4, <3>5
  <2> HIDE DEF n
  <2> QED BY <1>2, <1>3, <1>4, <2>1, SeqEqual
<1>8. toUpper(b) = Before(u, i)
  <2>1. \A j \in 1..(i - 1) : j \in 1..Len(s)
    OBVIOUS
  <2>2. ASSUME NEW j \in 1..(i - 1) PROVE toUpper(b)[j] = Before(u, i)[j]
    <3>1. toUpper(b)[j] = IF s[j] \in 97..122 THEN s[j] - 32 ELSE s[j]
      BY <1>2, <1>5
    <3>2. Before(u, i)[j] = IF s[j] \in 97..122 THEN s[j] - 32 ELSE s[j]
      BY <1>1, <1>3, <2>1
    <3> QED BY <3>1, <3>2
  <2> QED BY <1>2, <1>3, <1>5, <2>2, SeqEqual
<1> QED BY <1>7, <1>8 DEF f, b, u

LEMMA UpperFirst ==
  ASSUME NEW s \in Seq(Byte)
  PROVE  /\ Lacks(toUpper(s), Slash, 1) <=> Lacks(s, Slash, 1)
         /\ \A p : FirstAt(s, Slash, 1, p) => FirstAt(toUpper(s), Slash, 1, p)
<1>1. Len(toUpper(s)) = Len(s) /\ \A i \in 1..Len(s) : toUpper(s)[i] = Slash <=> s[i] = Slash
  BY UpperIs, UpperSlash
<1> QED BY <1>1 DEF Lacks, FirstAt

\* The segments of a text in capital letters are those of the text.
LEMMA UpperSegments ==
  ASSUME NEW text \in Seq(Byte)
  PROVE  /\ Len(tokens(toUpper(text), Slash)) = Len(tokens(text, Slash))
         /\ \A i \in 1..Len(tokens(text, Slash)) :
              tokens(toUpper(text), Slash)[i] = toUpper(tokens(text, Slash)[i])
<1> DEFINE Up(q, u) == Len(u) = Len(q) /\ \A i \in 1..Len(q) : u[i] = toUpper(q[i])
           Is(s) == Up(tokens(s, Slash), tokens(toUpper(s), Slash))
           T == {s \in Seq(Byte) : Is(s)}
<1>1. ASSUME NEW s \in Seq(Byte), Lacks(s, Slash, 1) PROVE s \in T
  <2>1. tokens(s, Slash) = <<s>>
    BY <1>1, OneToken
  <2>2. tokens(toUpper(s), Slash) = <<toUpper(s)>>
    BY <1>1, OneToken, UpperIs, UpperFirst
  <2>3. Up(<<s>>, <<toUpper(s)>>)
    OBVIOUS
  <2> HIDE DEF Up
  <2> QED BY <2>1, <2>2, <2>3
<1>2. ASSUME NEW s \in Seq(Byte), NEW p \in 1..Len(s), FirstAt(s, Slash, 1, p), From(s, p + 1) \in T PROVE s \in T
  <2> DEFINE r == From(s, p + 1)
             b == Before(s, p)
             u == toUpper(s)
             q == tokens(r, Slash)
             v == tokens(toUpper(r), Slash)
  <2>1. Up(q, v)
    BY <1>2
  <2> HIDE DEF T, Is
  <2>2. u \in Seq(Byte) /\ FirstAt(u, Slash, 1, p)
    BY <1>2, UpperIs, UpperFirst
  <2>3. Before(u, p) = toUpper(b)
    <3>1. p \in 1..(Len(s) + 1)
      BY <1>2
    <3> QED BY <3>1, UpperParts
  <2>4. From(u, p + 1) = toUpper(r)
    <3> DEFINE k == p + 1
    <3>1. k \in 1..(Len(s) + 1)
      BY <1>2
    <3> HIDE DEF k
    <3>2. From(u, k) = toUpper(From(s, k))
      BY <3>1, UpperParts
    <3> QED BY <3>2 DEF k
  <2>5. b \in Seq(Byte) /\ q \in Seq(Seq(Byte))
    BY <1>2, AtFirst
  <2>6. tokens(From(u, p + 1), Slash) \in Seq(Seq(Byte)) /\ Before(u, p) \in Seq(Byte)
    <3> HIDE DEF u
    <3> QED BY <2>2, AtFirst
  <2>7. tokens(s, Slash) = <<b>> \o q
    BY <1>2, FirstToken
  <2>8. tokens(u, Slash) = <<Before(u, p)>> \o tokens(From(u, p + 1), Slash)
    <3> HIDE DEF u
    <3> QED BY <2>2, FirstToken
  <2>9. tokens(u, Slash) = <<toUpper(b)>> \o v
    <3> HIDE DEF u, r, b
    <3> QED BY <2>3, <2>4, <2>8, Zenon DEF v
  <2>10. v \in Seq(Seq(Byte)) /\ toUpper(b) \in Seq(Byte)
    <3> HIDE DEF u, r, b
    <3> QED BY <2>3, <2>4, <2>6 DEF v
  <2> HIDE DEF r, b, u, q, v
  <2> DEFINE bq == <<b>> \o q
             bv == <<toUpper(b)>> \o v
  <2>11. Len(bq) = Len(q) + 1 /\ bq[1] = b /\ \A i \in 1..Len(q) : bq[i + 1] = q[i]
    BY <2>5, PutBefore
  <2>12. Len(bv) = Len(v) + 1 /\ bv[1] = toUpper(b) /\ \A i \in 1..Len(v) : bv[i + 1] = v[i]
    BY <2>10, PutBefore
  <2> HIDE DEF bq, bv
  <2>13. Len(bv) = Len(bq) /\ Len(q) \in Nat /\ Len(v) = Len(q) /\ \A i \in 1..Len(q) : v[i] = toUpper(q[i])
    <3>1. Len(v) = Len(q) /\ \A i \in 1..Len(q) : v[i] = toUpper(q[i])
      BY <2>1
    <3>2. Len(q) \in Nat
      BY <2>5
    <3>3. Len(bv) = Len(bq)
      BY <2>11, <2>12, <3>1
    <3> QED BY <3>1, <3>2, <3>3
  <2>14. ASSUME NEW i \in 1..Len(bq) PROVE bv[i] = toUpper(bq[i])
    <3>1. CASE i = 1
      BY <2>11, <2>12, <3>1
    <3>2. CASE i # 1
      <4>1. i - 1 \in 1..Len(q) /\ (i - 1) + 1 = i
        BY <2>11, <2>13, <3>2
      <4>2. bq[i] = q[i - 1] /\ bv[i] = v[i - 1]
        BY <2>11, <2>12, <2>13, <4>1
      <4> QED BY <2>13, <4>1, <4>2
    <3> QED BY <3>1, <3>2
  <2>15. Up(bq, bv)
    BY <2>13, <2>14
  <2> HIDE DEF Up
  <2>16. Is(s)
    BY <2>7, <2>9, <2>15 DEF Is, bq, bv, u
  <2> QED BY <2>16 DEF T
<1>3. T = Seq(Byte)
  <2>1. T \in SUBSET Seq(Byte)
    OBVIOUS
  <2> HIDE DEF T
  <2> QED BY <1>1, <1>2, <2>1, TokenInduction
<1> QED BY <1>3

\* Texts are the same in small or capital letters if their segments are.
LEMMA SegmentsSame ==
  ASSUME NEW x \in Seq(Byte), NEW y \in Seq(Byte)
  PROVE  SameText(x, y) <=>
           /\ Len(Segments(x)) = Len(Segments(y))
           /\ \A i \in 1..Len(Segments(x)) : SameText(Segments(x)[i], Segments(y)[i])
<1> DEFINE u == toUpper(x)
           v == toUpper(y)
           su == tokens(u, Slash)
           sv == tokens(v, Slash)
           sx == Segments(x)
           sy == Segments(y)
<1>1. u \in Seq(Byte) /\ v \in Seq(Byte)
  BY UpperIs
<1>2. Len(su) = Len(sx) /\ \A i \in 1..Len(sx) : su[i] = toUpper(sx[i])
  BY UpperSegments DEF Segments
<1>3. Len(sv) = Len(sy) /\ \A i \in 1..Len(sy) : sv[i] = toUpper(sy[i])
  BY UpperSegments DEF Segments
<1> HIDE DEF u, v, sx, sy
<1>4. su \in Seq(Seq(Byte)) /\ sv \in Seq(Seq(Byte))
  BY <1>1, TokensAre
<1>5. su = sv <=> u = v
  BY <1>1, TokensEqual
<1> HIDE DEF su, sv
<1>6. su = sv <=> Len(sx) = Len(sy) /\ \A i \in 1..Len(sx) : toUpper(sx[i]) = toUpper(sy[i])
  <2>1. ASSUME su = sv PROVE Len(sx) = Len(sy) /\ \A i \in 1..Len(sx) : toUpper(sx[i]) = toUpper(sy[i])
    BY <1>2, <1>3, <2>1
  <2>2. ASSUME Len(sx) = Len(sy), \A i \in 1..Len(sx) : toUpper(sx[i]) = toUpper(sy[i]) PROVE su = sv
    <3>1. Len(su) = Len(sv) /\ \A i \in 1..Len(su) : su[i] = sv[i]
      BY <1>2, <1>3, <2>2
    <3> QED BY <1>4, <3>1, SeqEqual
  <2> QED BY <2>1, <2>2
<1>7. SameText(x, y) <=> u = v
  BY DEF SameText, u, v
<1> QED BY <1>5, <1>6, <1>7 DEF SameText, sx, sy

-----------------------------------------------------------------------------
(* A text up to some place. *)

\* The first m characters of a text.
LEMMA Opening ==
  ASSUME NEW S, NEW s \in Seq(S), NEW m \in 0..Len(s)
  PROVE  /\ SubSeq(s, 1, m) \in Seq(S) /\ Len(SubSeq(s, 1, m)) = m
         /\ \A j \in 1..m : SubSeq(s, 1, m)[j] = s[j]
<1> DEFINE i == m + 1
<1>1. i \in 1..(Len(s) + 1)
  OBVIOUS
<1>2. i - 1 = m
  OBVIOUS
<1> HIDE DEF i
<1>3. /\ Before(s, i) \in Seq(S) /\ Len(Before(s, i)) = i - 1
      /\ \A j \in 1..(i - 1) : Before(s, i)[j] = s[j]
  BY <1>1, PartsOf
<1> QED BY <1>2, <1>3 DEF Before

\* There is a place up to which the text has k tokens, the last of them as long as l.
EndsInToken(text, c, k, l) ==
  \E m \in 0..Len(text) :
    /\ Len(tokens(SubSeq(text, 1, m), c)) = k
    /\ \A i \in 1..(k - 1) : tokens(SubSeq(text, 1, m), c)[i] = tokens(text, c)[i]
    /\ tokens(SubSeq(text, 1, m), c)[k] = SubSeq(tokens(text, c)[k], 1, l)

LEMMA PartsOfTokens ==
  ASSUME NEW S, NEW c
  PROVE  \A text \in Seq(S) :
           \A k \in 1..Len(tokens(text, c)) : \A l \in 0..Len(tokens(text, c)[k]) : EndsInToken(text, c, k, l)
<1> DEFINE Up(q, u, n, a) == /\ Len(q) = n /\ \A i \in 1..(n - 1) : q[i] = u[i]
                             /\ q[n] = SubSeq(u[n], 1, a)
           Is(s) == \A n \in 1..Len(tokens(s, c)) : \A a \in 0..Len(tokens(s, c)[n]) :
                      \E m \in 0..Len(s) : Up(tokens(SubSeq(s, 1, m), c), tokens(s, c), n, a)
           T == {s \in Seq(S) : Is(s)}
<1>1. ASSUME NEW s \in Seq(S), Lacks(s, c, 1) PROVE s \in T
  <2>1. tokens(s, c) = <<s>> /\ Len(<<s>>) = 1 /\ <<s>>[1] = s
    BY <1>1, OneToken
  <2>2. ASSUME NEW n \in 1..Len(tokens(s, c)), NEW a \in 0..Len(tokens(s, c)[n])
        PROVE  \E m \in 0..Len(s) : Up(tokens(SubSeq(s, 1, m), c), tokens(s, c), n, a)
    <3>1. n = 1 /\ a \in 0..Len(s)
      BY <2>1
    <3> DEFINE x == SubSeq(s, 1, a)
    <3>2. x \in Seq(S) /\ Len(x) = a /\ \A j \in 1..a : x[j] = s[j]
      BY <3>1, Opening
    <3>3. Lacks(x, c, 1)
      BY <1>1, <3>1, <3>2 DEF Lacks
    <3>4. tokens(x, c) = <<x>> /\ Len(<<x>>) = 1 /\ <<x>>[1] = x
      <4> HIDE DEF x
      <4> QED BY <3>2, <3>3, OneToken
    <3>5. Up(tokens(x, c), tokens(s, c), n, a)
      BY <2>1, <3>1, <3>4
    <3> HIDE DEF Up
    <3> QED BY <3>1, <3>5
  <2> HIDE DEF Up
  <2> QED BY <2>2
<1>2. ASSUME NEW s \in Seq(S), NEW p \in 1..Len(s), FirstAt(s, c, 1, p), From(s, p + 1) \in T PROVE s \in T
  <2> DEFINE r == From(s, p + 1)
             b == Before(s, p)
             q == tokens(r, c)
             t == tokens(s, c)
  <2>1. Is(r)
    BY <1>2
  <2> HIDE DEF T, Is
  <2>0. s \in Seq(S) /\ FirstAt(s, c, 1, p)
    BY <1>2
  <2>2. /\ b \in Seq(S) /\ Len(b) = p - 1 /\ r \in Seq(S) /\ Len(r) = Len(s) - p
        /\ q \in Seq(Seq(S)) /\ Len(q) \in Nat \ {0} /\ Lacks(b, c, 1)
    <3>1. b \in Seq(S) /\ Len(b) = p - 1 /\ Lacks(b, c, 1)
      BY <2>0, AtFirst, SMTT(20)
    <3>2. r \in Seq(S) /\ Len(r) = Len(s) - p
      BY <2>0, AtFirst
    <3>3. q \in Seq(Seq(S)) /\ Len(q) \in Nat \ {0}
      <4> HIDE DEF r
      <4> QED BY <3>2, TokensAre
    <3> QED BY <3>1, <3>2, <3>3
  <2>3. t = <<b>> \o q
    BY <2>0, FirstToken
  <2>4. /\ p \in 0..Len(s) /\ p \in 1..(Len(s) + 1) /\ s[p] = c /\ \A j \in 1..(p - 1) : s[j] # c
    BY <1>2 DEF FirstAt
  <2>5. \A j \in 1..(p - 1) : b[j] = s[j]
    BY <2>4, PartsOf
  <2>6. \A j \in 1..(Len(s) - p) : r[j] = s[p + j]
    BY <2>4, Rest
  <2> HIDE DEF r, b
  <2>7. /\ Len(t) = Len(q) + 1 /\ t[1] = b
        /\ \A i \in 1..Len(q) : t[i + 1] = q[i]
    <3> HIDE DEF q, t
    <3> QED BY <2>2, <2>3, PutBefore, SMTT(20)
  <2>8. ASSUME NEW n \in 1..Len(t), NEW a \in 0..Len(t[n])
        PROVE  \E m \in 0..Len(s) : Up(tokens(SubSeq(s, 1, m), c), t, n, a)
    <3>1. CASE n = 1
      <4>1. a \in 0..(p - 1) /\ a \in 0..Len(s) /\ a \in 0..Len(b)
        BY <2>2, <2>4, <2>7, <3>1
      <4> DEFINE x == SubSeq(s, 1, a)
                 z == SubSeq(b, 1, a)
      <4>2. x \in Seq(S) /\ Len(x) = a /\ \A j \in 1..a : x[j] = s[j]
        BY <4>1, Opening
      <4>3. z \in Seq(S) /\ Len(z) = a /\ \A j \in 1..a : z[j] = b[j]
        BY <2>2, <4>1, Opening
      <4>4. Lacks(x, c, 1)
        BY <2>4, <4>1, <4>2 DEF Lacks
      <4> HIDE DEF x, z
      <4>5. tokens(x, c) = <<x>> /\ Len(<<x>>) = 1 /\ <<x>>[1] = x
        BY <4>2, <4>4, OneToken
      <4>6. x = z
        <5>1. \A j \in 1..a : x[j] = z[j]
          BY <2>5, <4>1, <4>2, <4>3
        <5> QED BY <4>2, <4>3, <5>1, SeqEqual
      <4>7. Up(tokens(x, c), t, n, a)
        <5> HIDE DEF t
        <5> QED BY <2>7, <3>1, <4>5, <4>6 DEF z
      <4> HIDE DEF Up, t
      <4> QED BY <4>1, <4>7 DEF x
    <3>2. CASE n # 1
      <4> DEFINE h == n - 1
      <4>1. h \in 1..Len(q) /\ h + 1 = n
        BY <2>2, <2>7, <3>2
      <4>2. t[n] = q[h]
        BY <2>7, <4>1
      <4> HIDE DEF h
      <4>3. PICK m \in 0..Len(r) : Up(tokens(SubSeq(r, 1, m), c), q, h, a)
        <5> HIDE DEF Up
        <5>1. a \in 0..Len(q[h])
          <6> HIDE DEF q, t
          <6> QED BY <4>2
        <5> QED BY <2>1, <4>1, <5>1 DEF Is
      <4> HIDE DEF q, t
      <4> DEFINE w == p + m
                 x == SubSeq(s, 1, w)
                 z == SubSeq(r, 1, m)
                 y == tokens(z, c)
      <4>4. w \in 0..Len(s) /\ w \in Nat /\ p \in 1..w /\ w - p = m
        BY <2>2, <2>4
      <4>5. x \in Seq(S) /\ Len(x) = w /\ \A j \in 1..w : x[j] = s[j]
        <5> HIDE DEF w
        <5> QED BY <4>4, Opening
      <4>6. z \in Seq(S) /\ Len(z) = m /\ \A j \in 1..m : z[j] = r[j]
        BY <2>2, Opening
      <4> HIDE DEF x, z
      <4>7. FirstAt(x, c, 1, p)
        <5>1. \A j \in 1..p : j \in 1..w
          BY <4>4
        <5>2. x[p] = c /\ \A j \in 1..(p - 1) : x[j] # c
          <6>1. p \in 1..p /\ \A j \in 1..(p - 1) : j \in 1..p
            OBVIOUS
          <6> HIDE DEF w
          <6>2. \A j \in 1..p : x[j] = s[j]
            BY <4>5, <5>1
          <6> QED BY <2>4, <6>1, <6>2
        <5> HIDE DEF w
        <5> QED BY <4>4, <4>5, <5>2 DEF FirstAt
      <4>8. Before(x, p) = b
        <5>1. Before(x, p) \in Seq(S) /\ Len(Before(x, p)) = p - 1 /\ \A j \in 1..(p - 1) : Before(x, p)[j] = x[j]
          <6>1. p \in 1..(Len(x) + 1)
            BY <4>4, <4>5
          <6> QED BY <4>5, <6>1, PartsOf
        <5>2. \A j \in 1..(p - 1) : Before(x, p)[j] = b[j]
          <6>1. \A j \in 1..(p - 1) : j \in 1..w
            BY <4>4
          <6> HIDE DEF w
          <6> QED BY <2>5, <4>5, <5>1, <6>1
        <5> QED BY <2>2, <5>1, <5>2, SeqEqual
      <4>9. From(x, p + 1) = z
        <5>1. /\ From(x, p + 1) \in Seq(S) /\ Len(From(x, p + 1)) = m
              /\ \A j \in 1..m : From(x, p + 1)[j] = x[p + j]
          <6>1. p \in 0..Len(x) /\ Len(x) - p = m
            BY <4>4, <4>5
          <6> HIDE DEF w
          <6> QED BY <4>5, <6>1, Rest
        <5>2. \A j \in 1..m : From(x, p + 1)[j] = z[j]
          <6>1. \A j \in 1..m : p + j \in 1..w /\ j \in 1..(Len(s) - p)
            BY <2>2
          <6> HIDE DEF w
          <6> QED BY <2>6, <4>5, <4>6, <5>1, <6>1
        <5> QED BY <4>6, <5>1, <5>2, SeqEqual
      <4>10. tokens(x, c) = <<b>> \o y
        <5>1. tokens(x, c) = <<Before(x, p)>> \o tokens(From(x, p + 1), c)
          BY <4>5, <4>7, FirstToken
        <5> QED BY <4>8, <4>9, <5>1, Zenon
      <4>11. y \in Seq(Seq(S))
        BY <4>6, TokensAre
      <4>12. Up(y, q, h, a)
        BY <4>3 DEF z
      <4> HIDE DEF y
      <4> DEFINE u == <<b>> \o y
      <4>13. /\ Len(u) = Len(y) + 1 /\ u[1] = b
             /\ \A i \in 1..Len(y) : u[i + 1] = y[i]
        BY <2>2, <4>11, PutBefore
      <4> HIDE DEF u
      <4>14. Len(u) = n /\ u[n] = SubSeq(t[n], 1, a)
        <5>1. Len(y) = h /\ y[h] = SubSeq(q[h], 1, a)
          BY <4>12
        <5>2. h \in 1..Len(y) /\ Len(u) = n
          BY <4>1, <4>13, <5>1
        <5>3. u[h + 1] = y[h]
          BY <4>13, <5>2
        <5> QED BY <4>1, <4>2, <5>1, <5>2, <5>3
      <4>15. ASSUME NEW i \in 1..(n - 1) PROVE u[i] = t[i]
        <5>1. CASE i = 1
          BY <2>7, <4>13, <5>1
        <5>2. CASE i # 1
          <6>1. i - 1 \in 1..(h - 1) /\ i - 1 \in 1..Len(y) /\ i - 1 \in 1..Len(q) /\ (i - 1) + 1 = i
            <7>1. Len(y) = h
              BY <4>12
            <7> QED BY <2>2, <4>1, <5>2, <7>1
          <6>2. y[i - 1] = q[i - 1]
            BY <4>12, <6>1
          <6> QED BY <2>7, <4>13, <6>1, <6>2
        <5> QED BY <5>1, <5>2
      <4>16. Up(u, t, n, a)
        BY <4>14, <4>15
      <4> HIDE DEF Up
      <4>17. Up(tokens(SubSeq(s, 1, w), c), t, n, a)
        BY <4>10, <4>16 DEF u, x
      <4> HIDE DEF w
      <4> QED BY <4>4, <4>17
    <3> HIDE DEF Up, t
    <3> QED BY <3>1, <3>2
  <2> HIDE DEF Up
  <2>9. Is(s)
    BY <2>8 DEF Is, t
  <2> QED BY <2>9 DEF T
<1>3. T = Seq(S)
  <2>1. T \in SUBSET Seq(S)
    OBVIOUS
  <2> HIDE DEF T
  <2> QED BY <1>1, <1>2, <2>1, TokenInduction
<1> QED BY <1>3 DEF EndsInToken

-----------------------------------------------------------------------------
(* Segments and their variables. *)

-----------------------------------------------------------------------------
(* Segments of routes. *)

LEMMA SegmentsAre ==
  ASSUME NEW x \in Seq(Byte)
  PROVE  /\ Segments(x) \in Seq(Seq(Byte)) /\ Len(Segments(x)) \in Nat \ {0}
         /\ DOMAIN Segments(x) = 1..Len(Segments(x))
         /\ \A i \in 1..Len(Segments(x)) : Segments(x)[i] \in Seq(Byte) /\ Lacks(Segments(x)[i], Slash, 1)
<1>1. /\ Segments(x) \in Seq(Seq(Byte)) /\ Len(Segments(x)) \in Nat \ {0}
      /\ \A i \in 1..Len(Segments(x)) : Lacks(Segments(x)[i], Slash, 1)
  BY TokensAre DEF Segments
<1> QED BY <1>1

\* A character that is not in a text is not in its segments.
LEMMA SegmentsLack ==
  ASSUME NEW x \in Seq(Byte), NEW c, Lacks(x, c, 1), NEW i \in 1..Len(Segments(x))
  PROVE  Lacks(Segments(x)[i], c, 1)
<1> DEFINE s == Segments(x)[i]
<1>1. PICK j \in 0..Len(x) : j + Len(s) <= Len(x) /\ s = SubSeq(x, j + 1, j + Len(s))
  BY TokenParts DEF Segments
<1>2. s \in Seq(Byte)
  BY SegmentsAre
<1> HIDE DEF s
<1> DEFINE n == j + Len(s)
           k == j + 1
<1>3. n \in 0..Len(x) /\ Len(s) \in Nat /\ k \in 1..(Len(x) + 1)
  BY <1>1, <1>2
<1>4. \A a \in 1..Len(s) : SubSeq(x, k, n)[a] = x[k + a - 1] /\ k + a - 1 \in 1..Len(x)
  <2>1. \A a \in 1..(n - k + 1) : SubSeq(x, k, n)[a] = x[k + a - 1]
    <3>1. k \in Int /\ n \in Int /\ (k <= n => k \in 1..Len(x) /\ n \in 1..Len(x))
      BY <1>3
    <3>2. CASE k <= n
      <4> HIDE DEF k, n
      <4> QED BY <3>1, <3>2, SubSeqProperties
    <3>3. CASE ~(k <= n)
      BY <3>1, <3>3
    <3> QED BY <3>2, <3>3
  <2>2. n - k + 1 = Len(s) /\ \A a \in 1..Len(s) : k + a - 1 \in 1..Len(x)
    BY <1>3
  <2> HIDE DEF k, n
  <2> QED BY <2>1, <2>2
<1>5. SubSeq(x, k, n) = s
  BY <1>1
<1> HIDE DEF k, n
<1> QED BY <1>4, <1>5 DEF Lacks, s

\* A segment without variables.
LEMMA NoVariables ==
  ASSUME NEW seg \in Seq(Byte), Lacks(seg, Open, 1)
  PROVE  /\ Literal(seg) = seg /\ Variables(seg) = <<>> /\ Names(Variables(seg)) = {}
         /\ \A r : Stands(seg, r) <=> SameText(seg, r)
<1>1. Find(seg, Open) = 0
  BY FindFromNone DEF Find
<1>2. Literal(seg) = seg /\ Variables(seg) = <<>>
  BY <1>1 DEF Literal, Variables
<1>3. Closed(<<>>)
  BY DEF Closed
<1>4. Names(<<>>) = {}
  BY DEF Names
<1> QED BY <1>2, <1>3, <1>4 DEF Stands

\* A segment with variables, and the text before them.
LEMMA VariablesAfter ==
  ASSUME NEW b \in Seq(Byte), Lacks(b, Open, 1), NEW w \in Seq(Byte), w # <<>>, w[1] = Open
  PROVE  Literal(b \o w) = b /\ Variables(b \o w) = w
<1> DEFINE k == Len(b) + 1
           s == b \o w
<1>1. FirstAt(w, Open, 1, 1)
  BY DEF FirstAt
<1>2. FirstAt(s, Open, 1, k)
  BY <1>1, FirstOfTwo
<1>3. s \in Seq(Byte) /\ Len(b) \in Nat /\ k \in Nat /\ k # 0
  BY ConcatProperties
<1>4. Find(s, Open) = k
  <2> HIDE DEF s, k
  <2> QED BY <1>2, <1>3, FindFromFirst DEF Find
<1>5. Before(s, k) = b /\ From(s, k) = w
  <2>1. Before(b \o w, Len(b) + 1) = b \o Before(w, 1) /\ From(b \o w, Len(b) + 1) = From(w, 1)
    <3>1. 1 \in 1..(Len(w) + 1)
      OBVIOUS
    <3> QED BY <3>1, PartsOfSecond
  <2>2. From(w, 1) = w
    BY SubSeqFull DEF From
  <2>3. b \o Before(w, 1) = b
    <3>1. Before(w, 1) = <<>>
      <4>1. 1 \in 1..(Len(w) + 1)
        OBVIOUS
      <4>2. Before(w, 1) \in Seq(Byte) /\ Len(Before(w, 1)) = 1 - 1
        BY <4>1, PartsOf
      <4> QED BY <4>2
    <3>2. b \o <<>> = b
      BY ConcatEmptySeq
    <3> QED BY <3>1, <3>2
  <2> QED BY <2>1, <2>2, <2>3
<1> HIDE DEF s, k
<1>6. Literal(s) = b /\ Variables(s) = w
  BY <1>3, <1>4, <1>5 DEF Literal, Variables
<1> QED BY <1>6 DEF s

LEMMA VariablesAlone ==
  ASSUME NEW w \in Seq(Byte), w # <<>>, w[1] = Open
  PROVE  Literal(w) = <<>> /\ Variables(w) = w
<1> DEFINE e == <<>>
<1>1. e \in Seq(Byte) /\ Lacks(e, Open, 1)
  BY DEF Lacks
<1>2. e \o w = w
  BY ConcatEmptySeq
<1> HIDE DEF e
<1>3. Literal(e \o w) = e /\ Variables(e \o w) = w
  BY <1>1, VariablesAfter
<1> QED BY <1>2, <1>3 DEF e

\* A variable in its brackets.
Bracketed(n) == <<Open>> \o (n \o <<Close>>)

\* A variable at the start of a text.
LEMMA BracketedIs ==
  ASSUME NEW n \in Seq(Byte), Lacks(n, Close, 1), NEW u \in Seq(Byte)
  PROVE  /\ Bracketed(n) \o u \in Seq(Byte) /\ Len(Bracketed(n) \o u) = (Len(n) + 2) + Len(u)
         /\ Bracketed(n) \in Seq(Byte) /\ Len(Bracketed(n)) = Len(n) + 2
         /\ (Bracketed(n) \o u)[1] = Open /\ (Bracketed(n) \o u)[Len(n) + 2] = Close
         /\ \A i \in 1..((Len(n) + 2) - 1) : (Bracketed(n) \o u)[i] # Close
         /\ \A i \in 1..Len(n) : (Bracketed(n) \o u)[i + 1] = n[i]
         /\ \A i \in 1..Len(u) : (Bracketed(n) \o u)[(Len(n) + 2) + i] = u[i]
<1> DEFINE p == Len(n) + 2
           w == Bracketed(n) \o u
<1> DEFINE c == <<Close>>
           m == n \o c
           B == Bracketed(n)
           l == Len(n)
<1>0. l \in Nat /\ Open \in Byte /\ Close \in Byte /\ Open # Close
  BY DEF Open, Close, Byte
<1>1. c \in Seq(Byte) /\ Len(c) = 1 /\ c[1] = Close
  BY <1>0
<1> HIDE DEF c
<1>2. m \in Seq(Byte) /\ Len(m) = l + 1 /\ \A i \in 1..(l + 1) : m[i] = IF i <= l THEN n[i] ELSE c[i - l]
  <2>1. l = Len(n) /\ 1 = Len(c)
    BY <1>1
  <2> HIDE DEF l
  <2>2. /\ n \o c \in Seq(Byte) /\ Len(n \o c) = l + 1
        /\ \A i \in 1..(l + 1) : (n \o c)[i] = IF i <= l THEN n[i] ELSE c[i - l]
    <3>1. /\ n \o c \in Seq(Byte) /\ Len(n \o c) = Len(n) + Len(c)
          /\ \A i \in 1..(Len(n) + Len(c)) : (n \o c)[i] = IF i <= Len(n) THEN n[i] ELSE c[i - Len(n)]
      BY <1>1, ConcatProperties
    <3> QED BY <2>1, <3>1
  <2> QED BY <2>2
<1>3. m[l + 1] = Close /\ \A i \in 1..l : m[i] = n[i]
  <2>1. l + 1 \in 1..(l + 1) /\ ~(l + 1 <= l) /\ (l + 1) - l = 1
    BY <1>0
  <2>2. \A i \in 1..l : i \in 1..(l + 1) /\ i <= l
    BY <1>0
  <2> HIDE DEF m, l
  <2> QED BY <1>1, <1>2, <2>1, <2>2
<1> HIDE DEF m
<1>4. B = <<Open>> \o m
  BY DEF B, Bracketed, m, c
<1>5. B \in Seq(Byte) /\ Len(B) = Len(m) + 1 /\ B[1] = Open /\ \A i \in 1..Len(m) : B[i + 1] = m[i]
  <2> HIDE DEF B
  <2> QED BY <1>0, <1>2, <1>4, PutBefore
<1>6. p \in Nat /\ Len(B) = p /\ p = l + 2 /\ l + 1 = p - 1
  BY <1>0, <1>2, <1>5
<1> HIDE DEF p, l
<1>7. w \in Seq(Byte) /\ Len(w) = p + Len(u) /\ \A i \in 1..(p + Len(u)) : w[i] = IF i <= p THEN B[i] ELSE u[i - p]
  <2> DEFINE k == Len(u)
  <2>1. B \o u \in Seq(Byte) /\ Len(B \o u) = p + k /\ \A i \in 1..(p + k) : (B \o u)[i] = IF i <= p THEN B[i] ELSE u[i - p]
    <3>1. /\ B \o u \in Seq(Byte) /\ Len(B \o u) = Len(B) + Len(u)
          /\ \A i \in 1..(Len(B) + Len(u)) : (B \o u)[i] = IF i <= Len(B) THEN B[i] ELSE u[i - Len(B)]
      BY <1>5, ConcatProperties
    <3> QED BY <1>6, <3>1
  <2> QED BY <2>1 DEF B, w
<1> HIDE DEF w, B
<1>8. \A i \in 1..p : w[i] = B[i]
  BY <1>6, <1>7
<1>9. w[1] = Open /\ w[p] = Close /\ \A i \in 1..l : w[i + 1] = n[i]
  <2>1. \A i \in 1..(l + 1) : i + 1 \in 1..p /\ i \in 1..Len(m)
    BY <1>0, <1>2, <1>6
  <2>2. \A i \in 1..(l + 1) : w[i + 1] = m[i]
    BY <1>5, <1>8, <2>1
  <2>3. l + 1 \in 1..(l + 1) /\ (l + 1) + 1 = p /\ 1 \in 1..p /\ \A i \in 1..l : i \in 1..(l + 1)
    BY <1>0, <1>6
  <2> QED BY <1>3, <1>5, <1>8, <2>2, <2>3
<1>10. ASSUME NEW i \in 1..(p - 1) PROVE w[i] # Close
  <2>1. CASE i = 1
    BY <1>0, <1>9, <2>1
  <2>2. CASE i # 1
    <3>1. i - 1 \in 1..l /\ (i - 1) + 1 = i
      BY <1>0, <1>6, <2>2
    <3>2. n[i - 1] # Close
      BY <3>1 DEF Lacks, l
    <3> QED BY <1>9, <3>1, <3>2
  <2> QED BY <2>1, <2>2
<1>11. ASSUME NEW i \in 1..Len(u) PROVE w[p + i] = u[i]
  <2>1. p + i \in 1..(p + Len(u)) /\ ~(p + i <= p) /\ (p + i) - p = i
    BY <1>6
  <2> QED BY <1>7, <2>1
<1> QED BY <1>5, <1>6, <1>7, <1>9, <1>10, <1>11 DEF l, B, p, w

\* A bracket opened before closes at place i of v.
ClosesAt(v, i) == v[i] = Close /\ \E j \in 1..(i - 1) : v[j] = Open /\ \A k \in j..(i - 1) : v[k] # Close

LEMMA ClosedIs ==
  ASSUME NEW v \in Seq(Byte)
  PROVE  Closed(v) <=> /\ \A i \in 1..Len(v) : ClosesAt(v, i) /\ i < Len(v) => v[i + 1] = Open
                       /\ v # <<>> => v[1] = Open /\ ClosesAt(v, Len(v))
<1> DEFINE closing == {i \in DOMAIN v : v[i] = Close /\ \E j \in 1..(i - 1) : v[j] = Open /\ \A k \in j..(i - 1) : v[k] # Close}
<1>1. Closed(v) <=> /\ \A i \in closing : i < Len(v) => v[i + 1] = Open
                    /\ v # <<>> => v[1] = Open /\ Len(v) \in closing
  BY DEF Closed
<1>2. \A i : i \in closing <=> i \in 1..Len(v) /\ ClosesAt(v, i)
  BY DEF ClosesAt
<1>3. v # <<>> => Len(v) \in 1..Len(v)
  BY EmptySeq
<1> HIDE DEF closing
<1> QED BY <1>1, <1>2, <1>3

\* What follows a variable is nothing or other variables.
LEMMA ClosedOne ==
  ASSUME NEW n \in Seq(Byte), Lacks(n, Close, 1), NEW u \in Seq(Byte)
  PROVE  Closed(Bracketed(n) \o u) <=> u = <<>> \/ (u[1] = Open /\ Closed(u))
<1> DEFINE w == Bracketed(n) \o u
           p == Len(n) + 2
<1>1. /\ w \in Seq(Byte) /\ Len(w) = p + Len(u)
      /\ w[1] = Open /\ w[p] = Close /\ \A i \in 1..(p - 1) : w[i] # Close
      /\ \A i \in 1..Len(u) : w[p + i] = u[i]
  BY BracketedIs
<1>2. p \in Nat /\ p >= 2 /\ Len(u) \in Nat
  OBVIOUS
<1> HIDE DEF w, p
<1>3. ClosesAt(w, p)
  BY <1>1, <1>2 DEF ClosesAt
<1>4. ASSUME NEW i \in 1..Len(w), ClosesAt(w, i) PROVE i = p \/ (i - p \in 1..Len(u) /\ ClosesAt(u, i - p))
  <2>1. i >= p
    BY <1>1, <1>2, <1>4 DEF ClosesAt
  <2>2. CASE i > p
    <3> DEFINE h == i - p
    <3>1. h \in 1..Len(u) /\ i = p + h
      BY <1>1, <1>2, <2>2
    <3>2. PICK j \in 1..(i - 1) : w[j] = Open /\ \A k \in j..(i - 1) : w[k] # Close
      BY <1>4 DEF ClosesAt
    <3>3. j > p
      BY <1>1, <1>2, <2>2, <3>2
    <3> DEFINE g == j - p
    <3>4. g \in 1..(h - 1) /\ g \in 1..Len(u) /\ j = p + g
      BY <1>1, <1>2, <3>1, <3>2, <3>3
    <3>5. ASSUME NEW k \in g..(h - 1) PROVE u[k] # Close
      <4>1. p + k \in j..(i - 1) /\ k \in 1..Len(u)
        BY <1>1, <1>2, <3>1, <3>2, <3>4
      <4> HIDE DEF g, h
      <4> QED BY <1>1, <3>2, <4>1
    <3> HIDE DEF g, h
    <3>6. u[h] = Close /\ u[g] = Open
      BY <1>1, <1>4, <3>1, <3>2, <3>4 DEF ClosesAt
    <3>7. ClosesAt(u, h)
      BY <3>4, <3>5, <3>6 DEF ClosesAt
    <3> QED BY <3>1, <3>7 DEF h
  <2> QED BY <1>2, <2>1, <2>2
<1>5. ASSUME NEW i \in 1..Len(u), ClosesAt(u, i) PROVE ClosesAt(w, p + i) /\ p + i \in 1..Len(w)
  <2>1. PICK j \in 1..(i - 1) : u[j] = Open /\ \A k \in j..(i - 1) : u[k] # Close
    BY <1>5 DEF ClosesAt
  <2> DEFINE g == p + j
             h == p + i
  <2>2. g \in 1..(h - 1) /\ h \in 1..Len(w)
    BY <1>1, <1>2
  <2>3. ASSUME NEW k \in g..(h - 1) PROVE w[k] # Close
    <3>1. k - p \in j..(i - 1) /\ k - p \in 1..Len(u) /\ p + (k - p) = k
      BY <1>1, <1>2
    <3> HIDE DEF g, h
    <3> QED BY <1>1, <2>1, <3>1
  <2>4. w[h] = Close /\ w[g] = Open
    <3>1. j \in 1..Len(u)
      BY <1>2
    <3> QED BY <1>1, <1>5, <2>1, <3>1 DEF ClosesAt
  <2> HIDE DEF g, h
  <2>5. ClosesAt(w, h)
    BY <2>2, <2>3, <2>4 DEF ClosesAt
  <2> QED BY <2>2, <2>5 DEF h
<1>6. CASE u = <<>>
  <2>1. Len(u) = 0 /\ Len(w) = p
    BY <1>1, <1>2, <1>6
  <2>2. \A i \in 1..Len(w) : ClosesAt(w, i) => i = p
    BY <1>4, <2>1
  <2>3. Closed(w)
    BY <1>1, <1>2, <1>3, <2>1, <2>2, ClosedIs
  <2> QED BY <1>6, <2>3 DEF w
<1>7. CASE u # <<>>
  <2>1. Len(u) >= 1 /\ w # <<>>
    BY <1>1, <1>2, <1>7, EmptySeq
  <2>2. ASSUME Closed(w) PROVE u[1] = Open /\ Closed(u)
    <3>1. /\ \A i \in 1..Len(w) : ClosesAt(w, i) /\ i < Len(w) => w[i + 1] = Open
          /\ ClosesAt(w, Len(w))
      BY <1>1, <2>1, <2>2, ClosedIs
    <3>2. u[1] = Open
      <4>1. p \in 1..Len(w) /\ p < Len(w) /\ 1 \in 1..Len(u)
        BY <1>1, <1>2, <2>1
      <4>2. w[p + 1] = Open
        BY <1>3, <3>1, <4>1
      <4> QED BY <1>1, <4>1, <4>2
    <3>3. ASSUME NEW i \in 1..Len(u), ClosesAt(u, i), i < Len(u) PROVE u[i + 1] = Open
      <4> DEFINE k == p + i
                 g == i + 1
      <4>1. ClosesAt(w, k) /\ k \in 1..Len(w)
        BY <1>5, <3>3
      <4>2. k < Len(w) /\ k + 1 = p + g /\ g \in 1..Len(u)
        BY <1>1, <1>2, <3>3
      <4> HIDE DEF k, g
      <4>3. w[k + 1] = Open
        BY <3>1, <4>1, <4>2
      <4>4. u[g] = Open
        BY <1>1, <4>2, <4>3
      <4> QED BY <4>4 DEF g
    <3>4. ClosesAt(u, Len(u))
      <4>1. Len(w) \in 1..Len(w) /\ Len(w) # p /\ Len(w) - p = Len(u)
        BY <1>1, <1>2, <2>1
      <4> QED BY <1>4, <3>1, <4>1
    <3> QED BY <3>2, <3>3, <3>4, ClosedIs
  <2>3. ASSUME u[1] = Open, Closed(u) PROVE Closed(w)
    <3>1. /\ \A i \in 1..Len(u) : ClosesAt(u, i) /\ i < Len(u) => u[i + 1] = Open
          /\ ClosesAt(u, Len(u))
      BY <1>7, <2>3, ClosedIs
    <3>2. ASSUME NEW i \in 1..Len(w), ClosesAt(w, i), i < Len(w) PROVE w[i + 1] = Open
      <4>1. CASE i = p
        <5>1. 1 \in 1..Len(u)
          BY <1>2, <2>1
        <5> QED BY <1>1, <2>3, <4>1, <5>1
      <4>2. CASE i # p
        <5> DEFINE h == i - p
        <5>1. h \in 1..Len(u) /\ ClosesAt(u, h)
          BY <1>4, <3>2, <4>2
        <5>2. h < Len(u) /\ h + 1 \in 1..Len(u) /\ i + 1 = p + (h + 1)
          BY <1>1, <1>2, <3>2, <5>1
        <5> HIDE DEF h
        <5>3. u[h + 1] = Open
          BY <3>1, <5>1, <5>2
        <5> QED BY <1>1, <5>2, <5>3
      <4> QED BY <4>1, <4>2
    <3>3. ClosesAt(w, Len(w))
      <4>1. Len(u) \in 1..Len(u)
        BY <1>2, <2>1
      <4> QED BY <1>1, <1>5, <3>1, <4>1
    <3> QED BY <1>1, <3>2, <3>3, ClosedIs
  <2> QED BY <1>7, <2>2, <2>3 DEF w
<1> QED BY <1>6, <1>7

\* There is a name between place a and place b of v.
NameAt(v, a, b) ==
  /\ v[a] = Open /\ v[b] = Close /\ a < b
  /\ a = 1 \/ v[a - 1] = Close
  /\ \A k \in a..(b - 1) : v[k] # Close

LEMMA NamesIs ==
  ASSUME NEW v \in Seq(Byte), NEW m
  PROVE  m \in Names(v) <=> \E a, b \in 1..Len(v) : NameAt(v, a, b) /\ m = SubSeq(v, a + 1, b - 1)
<1> DEFINE variable(p) == /\ v[p[1]] = Open /\ v[p[2]] = Close /\ p[1] < p[2]
                          /\ p[1] = 1 \/ v[p[1] - 1] = Close
                          /\ \A k \in p[1]..(p[2] - 1) : v[k] # Close
           P == {p \in (DOMAIN v) \X (DOMAIN v) : variable(p)}
<1>1. Names(v) = {SubSeq(v, p[1] + 1, p[2] - 1) : p \in P}
  BY Zenon DEF Names
<1>2. \A p : p \in P <=> p \in (1..Len(v)) \X (1..Len(v)) /\ NameAt(v, p[1], p[2])
  BY DEF NameAt
<1> HIDE DEF P
<1>3. ASSUME m \in Names(v) PROVE \E a, b \in 1..Len(v) : NameAt(v, a, b) /\ m = SubSeq(v, a + 1, b - 1)
  <2>1. PICK p \in P : m = SubSeq(v, p[1] + 1, p[2] - 1)
    BY <1>1, <1>3
  <2>2. p[1] \in 1..Len(v) /\ p[2] \in 1..Len(v) /\ NameAt(v, p[1], p[2])
    BY <1>2
  <2> QED BY <2>1, <2>2
<1>4. ASSUME NEW a \in 1..Len(v), NEW b \in 1..Len(v), NameAt(v, a, b), m = SubSeq(v, a + 1, b - 1)
      PROVE  m \in Names(v)
  <2> DEFINE p == <<a, b>>
  <2>1. p[1] = a /\ p[2] = b /\ p \in (1..Len(v)) \X (1..Len(v))
    OBVIOUS
  <2>2. p \in P
    BY <1>2, <1>4, <2>1
  <2>3. m = SubSeq(v, p[1] + 1, p[2] - 1)
    BY <1>4, <2>1
  <2> HIDE DEF p
  <2> QED BY <1>1, <2>2, <2>3
<1> QED BY <1>3, <1>4

\* The names of a variable and those that follow it.
LEMMA NamesOne ==
  ASSUME NEW n \in Seq(Byte), Lacks(n, Close, 1), NEW u \in Seq(Byte), u = <<>> \/ u[1] = Open
  PROVE  Names(Bracketed(n) \o u) = {n} \cup Names(u)
<1> DEFINE w == Bracketed(n) \o u
           p == Len(n) + 2
<1>1. /\ w \in Seq(Byte) /\ Len(w) = p + Len(u)
      /\ w[1] = Open /\ w[p] = Close /\ \A i \in 1..(p - 1) : w[i] # Close
      /\ \A i \in 1..Len(n) : w[i + 1] = n[i]
      /\ \A i \in 1..Len(u) : w[p + i] = u[i]
  BY BracketedIs
<1>2. p \in Nat /\ p >= 2 /\ Len(u) \in Nat /\ Len(n) = p - 2
  OBVIOUS
<1> HIDE DEF w, p
<1>3. NameAt(w, 1, p) /\ 1 \in 1..Len(w) /\ p \in 1..Len(w)
  BY <1>1, <1>2 DEF NameAt
<1>4. SubSeq(w, 2, p - 1) = n
  <2> DEFINE e == p - 1
             s == SubSeq(w, 2, e)
  <2>1. e \in Int /\ e >= 1 /\ e = Len(n) + 1 /\ \A i \in 2..e : i \in 1..Len(w)
    BY <1>1, <1>2
  <2>2. s \in Seq(Byte) /\ Len(s) = (IF 2 <= e THEN e - 2 + 1 ELSE 0) /\ \A i \in 1..(e - 2 + 1) : s[i] = w[2 + i - 1]
    <3> HIDE DEF e
    <3>1. \A i \in 2..e : w[i] \in Byte
      BY <1>1, <2>1
    <3> QED BY <2>1, <3>1, SubSeqProperties
  <2> HIDE DEF e, s
  <2>3. Len(s) = Len(n) /\ e - 2 + 1 = Len(n)
    BY <2>1, <2>2
  <2>4. ASSUME NEW i \in 1..Len(n) PROVE s[i] = n[i]
    <3>1. 2 + i - 1 = i + 1
      OBVIOUS
    <3> QED BY <1>1, <2>2, <2>3, <3>1
  <2>5. s = n
    BY <2>2, <2>3, <2>4, SeqEqual
  <2> QED BY <2>5 DEF s, e
<1>5. From(w, p + 1) = u
  <2>1. /\ From(w, p + 1) \in Seq(Byte) /\ Len(From(w, p + 1)) = Len(w) - p
        /\ \A k \in 1..(Len(w) - p) : From(w, p + 1)[k] = w[p + k]
    <3>1. p \in 0..Len(w)
      BY <1>1, <1>2
    <3> QED BY <1>1, <3>1, Rest
  <2>2. Len(w) - p = Len(u)
    BY <1>1, <1>2
  <2> QED BY <1>1, <2>1, <2>2, SeqEqual
<1>6. ASSUME NEW a \in 1..Len(u), NEW b \in 1..Len(u), a < b
      PROVE  SubSeq(w, (p + a) + 1, (p + b) - 1) = SubSeq(u, a + 1, b - 1)
  <2> DEFINE i == a + 1
             j == b - 1
  <2>1. p \in 0..Len(w) /\ i \in 1..(Len(w) - p + 1) /\ j \in 0..(Len(w) - p)
    BY <1>1, <1>2
  <2>5. (p + a) + 1 = p + i /\ (p + b) - 1 = p + j
    BY <1>1, <1>2
  <2> HIDE DEF i, j
  <2>4. w \in Seq(Byte)
    BY <1>1
  <2>2. SubSeq(From(w, p + 1), i, j) = SubSeq(w, p + i, p + j)
    BY <2>1, <2>4, PartOfRest
  <2>3. SubSeq(w, p + i, p + j) = SubSeq(u, i, j)
    BY <1>5, <2>2
  <2> QED BY <2>3, <2>5 DEF i, j
<1>7. ASSUME NEW a \in 1..Len(w), NEW b \in 1..Len(w), NameAt(w, a, b), NEW m, m = SubSeq(w, a + 1, b - 1)
      PROVE  m = n \/ m \in Names(u)
  <2>1. CASE a < p
    <3>1. a = 1
      <4>1. a - 1 \in 1..(p - 1) \/ a = 1
        BY <1>2, <2>1
      <4> QED BY <1>1, <1>7, <4>1 DEF NameAt
    <3>2. b = p
      <4>1. b < p => b \in 1..(p - 1)
        BY <1>2
      <4>2. b > p => p \in a..(b - 1)
        BY <1>2, <2>1
      <4>3. ~(b < p) /\ ~(b > p)
        BY <1>1, <1>7, <4>1, <4>2 DEF NameAt
      <4> QED BY <1>2, <4>3
    <3>3. m = SubSeq(w, 2, p - 1)
      BY <1>7, <3>1, <3>2
    <3> QED BY <1>4, <3>3
  <2>2. CASE a = p
    <3>1. w[p] = Open
      BY <1>7, <2>2 DEF NameAt
    <3> QED BY <1>1, <3>1 DEF Open, Close
  <2>3. CASE a > p
    <3> DEFINE g == a - p
               h == b - p
    <3>1. a < b
      BY <1>7 DEF NameAt
    <3>2. g \in 1..Len(u) /\ h \in 1..Len(u) /\ g < h /\ p + g = a /\ p + h = b
      BY <1>1, <1>2, <2>3, <3>1
    <3> HIDE DEF g, h
    <3>3. u[g] = Open /\ u[h] = Close
      BY <1>1, <1>7, <3>2 DEF NameAt
    <3>4. g = 1 \/ u[g - 1] = Close
      <4>1. CASE g # 1
        <5>1. a # 1 /\ g - 1 \in 1..Len(u) /\ p + (g - 1) = a - 1
          BY <1>2, <2>3, <3>2, <4>1
        <5>2. w[a - 1] = Close
          BY <1>7, <5>1 DEF NameAt
        <5> QED BY <1>1, <5>1, <5>2
      <4> QED BY <4>1
    <3>5. ASSUME NEW k \in g..(h - 1) PROVE u[k] # Close
      <4>1. p + k \in a..(b - 1) /\ k \in 1..Len(u)
        BY <1>2, <3>2
      <4> QED BY <1>1, <1>7, <4>1 DEF NameAt
    <3>6. NameAt(u, g, h)
      BY <3>2, <3>3, <3>4, <3>5 DEF NameAt
    <3>7. m = SubSeq(u, g + 1, h - 1)
      BY <1>6, <1>7, <3>2
    <3> QED BY <3>2, <3>6, <3>7, NamesIs
  <2> QED BY <1>2, <2>1, <2>2, <2>3
<1>8. ASSUME NEW a \in 1..Len(u), NEW b \in 1..Len(u), NameAt(u, a, b), NEW m, m = SubSeq(u, a + 1, b - 1)
      PROVE  m \in Names(w)
  <2> DEFINE g == p + a
             h == p + b
  <2>1. a < b
    BY <1>8 DEF NameAt
  <2>2. g \in 1..Len(w) /\ h \in 1..Len(w) /\ g < h
    BY <1>1, <1>2, <2>1
  <2>3. w[g] = Open /\ w[h] = Close
    BY <1>1, <1>8 DEF NameAt
  <2>4. w[g - 1] = Close
    <3>1. CASE a = 1
      <4>1. g - 1 = p
        BY <1>2, <3>1
      <4> QED BY <1>1, <4>1
    <3>2. CASE a # 1
      <4>1. a - 1 \in 1..Len(u) /\ p + (a - 1) = g - 1
        BY <1>2, <3>2
      <4>2. u[a - 1] = Close
        BY <1>8, <3>2 DEF NameAt
      <4> HIDE DEF g
      <4> QED BY <1>1, <4>1, <4>2
    <3> QED BY <3>1, <3>2
  <2>5. ASSUME NEW k \in g..(h - 1) PROVE w[k] # Close
    <3>1. k - p \in a..(b - 1) /\ k - p \in 1..Len(u) /\ p + (k - p) = k
      BY <1>1, <1>2
    <3>2. u[k - p] # Close
      BY <1>8, <3>1 DEF NameAt
    <3> HIDE DEF g, h
    <3> QED BY <1>1, <3>1, <3>2
  <2>6. m = SubSeq(w, g + 1, h - 1)
    BY <1>6, <1>8, <2>1
  <2> HIDE DEF g, h
  <2>7. NameAt(w, g, h)
    BY <2>2, <2>3, <2>4, <2>5 DEF NameAt
  <2> QED BY <1>1, <2>2, <2>6, <2>7, NamesIs
<1>9. ASSUME NEW m \in Names(w) PROVE m = n \/ m \in Names(u)
  <2>1. PICK a \in 1..Len(w), b \in 1..Len(w) : NameAt(w, a, b) /\ m = SubSeq(w, a + 1, b - 1)
    <3>1. w \in Seq(Byte)
      BY <1>1
    <3> QED BY <3>1, NamesIs
  <2> QED BY <1>7, <2>1
<1>10. ASSUME NEW m \in Names(u) PROVE m \in Names(w)
  <2>1. PICK a \in 1..Len(u), b \in 1..Len(u) : NameAt(u, a, b) /\ m = SubSeq(u, a + 1, b - 1)
    BY NamesIs
  <2> QED BY <1>8, <2>1
<1>11. n \in Names(w)
  <2>1. n = SubSeq(w, 1 + 1, p - 1)
    BY <1>4
  <2> QED BY <1>1, <1>3, <2>1, NamesIs
<1>12. Names(w) = {n} \cup Names(u)
  BY <1>9, <1>10, <1>11
<1> QED BY <1>12 DEF w

LEMMA SegmentsGlue ==
  ASSUME NEW x \in Seq(Byte), NEW y \in Seq(Byte)
  PROVE  Glued(Segments(x), Segments(y), Segments(x \o y))
BY TokensGlue DEF Segments

LEMMA SegmentAlone ==
  ASSUME NEW x \in Seq(Byte), Lacks(x, Slash, 1)
  PROVE  Segments(x) = <<x>>
BY OneToken DEF Segments

\* The first segment begins as the text, unless the text begins with a slash.
LEMMA FirstSegment ==
  ASSUME NEW x \in Seq(Byte)
  PROVE  /\ x = <<>> \/ x[1] = Slash => Segments(x)[1] = <<>>
         /\ x # <<>> /\ x[1] # Slash => Segments(x)[1] # <<>> /\ Segments(x)[1][1] = x[1]
<1>1. CASE Lacks(x, Slash, 1)
  <2>1. Segments(x)[1] = x
    <3>1. Segments(x) = <<x>> /\ <<x>>[1] = x
      BY <1>1, SegmentAlone
    <3> QED BY <3>1
  <2>2. x # <<>> => x[1] # Slash
    <3>1. x # <<>> => 1 \in 1..Len(x)
      BY EmptySeq
    <3> QED BY <1>1, <3>1 DEF Lacks
  <2> QED BY <2>1, <2>2
<1>2. CASE ~Lacks(x, Slash, 1)
  <2>1. PICK p : FirstAt(x, Slash, 1, p)
    BY <1>2, FindIs
  <2> DEFINE b == Before(x, p)
             q == tokens(From(x, p + 1), Slash)
  <2>2. b \in Seq(Byte) /\ Len(b) = p - 1 /\ q \in Seq(Seq(Byte)) /\ p \in 1..Len(x)
    BY <2>1, AtFirst
  <2>3. Segments(x) = <<b>> \o q
    BY <2>1, FirstToken DEF Segments
  <2>4. \A j \in 1..(p - 1) : b[j] = x[j]
    <3>1. p \in 1..(Len(x) + 1)
      BY <2>2
    <3> QED BY <3>1, PartsOf
  <2>5. x[p] = Slash /\ \A j \in 1..(p - 1) : x[j] # Slash
    BY <2>1 DEF FirstAt
  <2> HIDE DEF b, q
  <2>6. (<<b>> \o q)[1] = b
    BY <2>2, PutBefore
  <2>7. Segments(x)[1] = b
    BY <2>3, <2>6
  <2>8. CASE p = 1
    <3>1. b = <<>>
      BY <2>2, <2>8, EmptySeq
    <3> QED BY <2>5, <2>7, <2>8, <3>1
  <2>9. CASE p # 1
    <3>1. 1 \in 1..(p - 1) /\ Len(b) # 0
      BY <2>2, <2>9
    <3>2. b # <<>> /\ x # <<>>
      BY <2>2, <3>1, EmptySeq
    <3> QED BY <2>4, <2>5, <2>7, <3>1, <3>2
  <2> QED BY <2>8, <2>9
<1> QED BY <1>1, <1>2

LEMMA SameLength ==
  ASSUME NEW x \in Seq(Byte), NEW y \in Seq(Byte), SameText(x, y)
  PROVE  Len(x) = Len(y)
BY UpperIs DEF SameText

\* Brackets at the start of a segment stand for everything, or for nothing when they are
\* not closed.
LEMMA StandsOpen ==
  ASSUME NEW w \in Seq(Byte), w # <<>>, w[1] = Open, NEW y \in Seq(Byte)
  PROVE  Stands(w, y) <=> Closed(w)
<1>1. Literal(w) = <<>> /\ Variables(w) = w
  BY VariablesAlone
<1>2. Len(<<>>) = 0 /\ Len(y) \in Nat /\ SubSeq(y, 1, 0) = <<>>
  OBVIOUS
<1>3. SameText(<<>>, <<>>)
  BY DEF SameText
<1> DEFINE l == Literal(w)
           v == Variables(w)
<1>4. Len(l) <= Len(y)
  BY <1>1, <1>2
<1>5. SameText(l, SubSeq(y, 1, Len(l)))
  <2>1. SubSeq(y, 1, Len(l)) = <<>>
    BY <1>1, <1>2
  <2> QED BY <1>1, <1>3, <2>1, Zenon
<1>6. v # <<>> /\ v = w
  BY <1>1
<1> HIDE DEF l, v
<1>7. Stands(w, y) <=> Closed(v) /\ IF v = <<>> THEN SameText(w, y) ELSE Len(l) <= Len(y) /\ SameText(l, SubSeq(y, 1, Len(l)))
  BY Zenon DEF Stands, l, v
<1> QED BY <1>4, <1>5, <1>6, <1>7, Zenon

LEMMA StandsAfter ==
  ASSUME NEW b \in Seq(Byte), Lacks(b, Open, 1), NEW w \in Seq(Byte), w # <<>>, w[1] = Open,
         NEW x \in Seq(Byte), NEW y \in Seq(Byte), SameText(b, x)
  PROVE  Stands(b \o w, x \o y) <=> Closed(w)
<1>1. Literal(b \o w) = b /\ Variables(b \o w) = w
  BY VariablesAfter
<1>2. Len(b) = Len(x) /\ Len(x) \in Nat /\ Len(y) \in Nat
  BY SameLength
<1>3. Len(x \o y) = Len(x) + Len(y)
  BY ConcatProperties
<1>4. SubSeq(x \o y, 1, Len(b)) = x
  <2> DEFINE n == Len(x) + 1
  <2>1. n \in 1..(Len(x) + 1) /\ n - 1 = Len(x)
    BY <1>2
  <2> HIDE DEF n
  <2>2. Before(x \o y, n) = Before(x, n)
    BY <2>1, PartsOfFirst
  <2>3. SubSeq(x, 1, Len(x)) = x
    BY SubSeqFull
  <2> QED BY <1>2, <2>1, <2>2, <2>3 DEF Before
<1> DEFINE t == b \o w
           r == x \o y
           l == Literal(t)
           v == Variables(t)
<1>5. Len(l) <= Len(r)
  BY <1>1, <1>2, <1>3
<1>6. SameText(l, SubSeq(r, 1, Len(l)))
  BY <1>1, <1>4, Zenon
<1>7. v # <<>> /\ v = w
  BY <1>1
<1> HIDE DEF l, v, t, r
<1>8. Stands(t, r) <=> Closed(v) /\ IF v = <<>> THEN SameText(t, r) ELSE Len(l) <= Len(r) /\ SameText(l, SubSeq(r, 1, Len(l)))
  BY Zenon DEF Stands, l, v
<1>9. Stands(t, r) <=> Closed(w)
  BY <1>5, <1>6, <1>7, <1>8, Zenon
<1> QED BY <1>9 DEF t, r

\* The segments p stand for the segments q.
AllStand(p, q) == Len(p) = Len(q) /\ \A i \in 1..Len(p) : Stands(p[i], q[i])

\* Sequences of segments stand for each other if those put together do, when what is in front
\* of them does.
LEMMA GluedStand ==
  ASSUME NEW S,
         NEW p \in Seq(S), NEW q \in Seq(S), NEW g \in Seq(S), Glued(p, q, g), Len(p) > 0, Len(q) > 0,
         NEW x \in Seq(S), NEW y \in Seq(S), NEW h \in Seq(S), Glued(x, y, h), Len(y) > 0,
         Len(p) = Len(x), \A i \in 1..(Len(p) - 1) : Stands(p[i], x[i]),
         Stands(p[Len(p)] \o q[1], x[Len(p)] \o y[1]) <=> Stands(q[1], y[1])
  PROVE  AllStand(g, h) <=> AllStand(q, y)
<1> DEFINE k == Len(p)
<1>1. k \in Nat \ {0} /\ Len(q) \in Nat \ {0} /\ Len(y) \in Nat \ {0} /\ Len(x) = k
  OBVIOUS
<1>2. /\ Len(g) = k + Len(q) - 1 /\ \A i \in 1..(k - 1) : g[i] = p[i]
      /\ g[k] = p[k] \o q[1] /\ \A i \in 2..Len(q) : g[(k - 1) + i] = q[i]
  BY DEF Glued
<1>3. /\ Len(h) = k + Len(y) - 1 /\ \A i \in 1..(k - 1) : h[i] = x[i]
      /\ h[k] = x[k] \o y[1] /\ \A i \in 2..Len(y) : h[(k - 1) + i] = y[i]
  BY DEF Glued
<1>4. (\A i \in 1..(k - 1) : Stands(p[i], x[i])) /\ (Stands(p[k] \o q[1], x[k] \o y[1]) <=> Stands(q[1], y[1]))
  OBVIOUS
<1> HIDE DEF k
<1>5. Len(g) = Len(h) <=> Len(q) = Len(y)
  <2>1. Len(g) = k + Len(q) - 1 /\ Len(h) = k + Len(y) - 1
    BY <1>2, <1>3
  <2>2. \A a, b \in Nat \ {0} : k + a - 1 = k + b - 1 => a = b
    BY <1>1
  <2>3. ASSUME Len(g) = Len(h) PROVE Len(q) = Len(y)
    BY <1>1, <2>1, <2>2, <2>3
  <2>4. ASSUME Len(q) = Len(y) PROVE Len(g) = Len(h)
    BY <2>1, <2>4
  <2> QED BY <2>3, <2>4
<1>6. ASSUME Len(q) = Len(y), \A i \in 1..Len(g) : Stands(g[i], h[i]), NEW i \in 1..Len(q)
      PROVE  Stands(q[i], y[i])
  <2>1. CASE i = 1
    <3>1. k \in 1..Len(g)
      BY <1>1, <1>2
    <3>2. Stands(g[k], h[k])
      BY <1>6, <3>1
    <3>3. Stands(p[k] \o q[1], x[k] \o y[1])
      BY <1>2, <1>3, <3>2
    <3> QED BY <1>4, <2>1, <3>3
  <2>2. CASE i # 1
    <3> DEFINE j == (k - 1) + i
    <3>1. i \in 2..Len(q) /\ i \in 2..Len(y) /\ j \in 1..Len(g)
      BY <1>1, <1>2, <1>6, <2>2
    <3>2. g[j] = q[i] /\ h[j] = y[i]
      BY <1>2, <1>3, <3>1
    <3> HIDE DEF j
    <3> QED BY <1>6, <3>1, <3>2
  <2> QED BY <2>1, <2>2
<1>7. ASSUME Len(q) = Len(y), \A i \in 1..Len(q) : Stands(q[i], y[i]), NEW i \in 1..Len(g)
      PROVE  Stands(g[i], h[i])
  <2>1. CASE i \in 1..(k - 1)
    BY <1>2, <1>3, <1>4, <2>1
  <2>2. CASE i = k
    <3>1. 1 \in 1..Len(q)
      BY <1>1
    <3>2. Stands(p[k] \o q[1], x[k] \o y[1])
      BY <1>4, <1>7, <3>1
    <3> QED BY <1>2, <1>3, <2>2, <3>2
  <2>3. CASE i > k
    <3> DEFINE j == (i - k) + 1
    <3>1. j \in 2..Len(q) /\ j \in 2..Len(y) /\ j \in 1..Len(q) /\ (k - 1) + j = i
      BY <1>1, <1>2, <1>7, <2>3
    <3> HIDE DEF j
    <3>2. g[i] = q[j] /\ h[i] = y[j]
      BY <1>2, <1>3, <3>1
    <3> QED BY <1>7, <3>1, <3>2
  <2>4. i \in 1..(k - 1) \/ i = k \/ i > k
    BY <1>1
  <2> QED BY <2>1, <2>2, <2>3, <2>4
<1> QED BY <1>5, <1>6, <1>7 DEF AllStand

-----------------------------------------------------------------------------
(* Routes and resources. *)

LEMMA MatchesAre ==
  ASSUME NEW t \in Seq(Byte), NEW r
  PROVE  Matches(t, r) <=> AllStand(Segments(t), Segments(r))
<1>1. DOMAIN Segments(t) = 1..Len(Segments(t))
  BY SegmentsAre
<1> QED BY <1>1, Zenon DEF Matches, AllStand

\* A route without variables is for its own text.
LEMMA MatchesText ==
  ASSUME NEW t \in Seq(Byte), Lacks(t, Open, 1), NEW r \in Seq(Byte)
  PROVE  Matches(t, r) <=> SameText(t, r)
<1>1. ASSUME NEW i \in 1..Len(Segments(t)) PROVE Stands(Segments(t)[i], Segments(r)[i]) <=> SameText(Segments(t)[i], Segments(r)[i])
  <2>1. Segments(t)[i] \in Seq(Byte) /\ Lacks(Segments(t)[i], Open, 1)
    BY SegmentsAre, SegmentsLack
  <2> QED BY <2>1, NoVariables
<1> QED BY <1>1, MatchesAre, SegmentsSame DEF AllStand

\* What a route has in front of its first variable is left off with as much of the resource.
LEMMA MatchesAfter ==
  ASSUME NEW b \in Seq(Byte), Lacks(b, Open, 1), NEW w \in Seq(Byte), w # <<>>, w[1] = Open,
         NEW x \in Seq(Byte), NEW y \in Seq(Byte), SameText(b, x)
  PROVE  Matches(b \o w, x \o y) <=> Matches(w, y)
<1> DEFINE sb == Segments(b)
           sw == Segments(w)
           sx == Segments(x)
           sy == Segments(y)
           t == b \o w
           r == x \o y
           st == Segments(t)
           sr == Segments(r)
           S == Seq(Byte)
<1>1. /\ sb \in Seq(S) /\ sw \in Seq(S) /\ sx \in Seq(S) /\ sy \in Seq(S)
      /\ Len(sb) \in Nat \ {0} /\ Len(sw) \in Nat \ {0} /\ Len(sx) \in Nat \ {0} /\ Len(sy) \in Nat \ {0}
  BY SegmentsAre
<1>2. t \in Seq(Byte) /\ r \in Seq(Byte)
  BY ConcatProperties
<1>3. st \in Seq(S) /\ sr \in Seq(S)
  <2> HIDE DEF t, r
  <2> QED BY <1>2, SegmentsAre
<1>4. Glued(sb, sw, st) /\ Glued(sx, sy, sr)
  BY SegmentsGlue
<1>5. /\ Len(sb) = Len(sx) /\ \A i \in 1..Len(sb) : SameText(sb[i], sx[i])
  BY SegmentsSame
<1>6. \A i \in 1..Len(sb) : sb[i] \in Seq(Byte) /\ Lacks(sb[i], Open, 1)
  BY SegmentsAre, SegmentsLack
<1>7. sw[1] \in Seq(Byte) /\ sw[1] # <<>> /\ sw[1][1] = Open
  <2>1. Open # Slash
    BY DEF Open, Slash
  <2>2. 1 \in 1..Len(sw)
    BY <1>1
  <2> QED BY <2>1, <2>2, FirstSegment, SegmentsAre
<1>8. \A i \in 1..Len(sx) : sx[i] \in Seq(Byte)
  BY SegmentsAre
<1>9. sy[1] \in Seq(Byte)
  <2>1. 1 \in 1..Len(sy)
    BY <1>1
  <2> QED BY <2>1, SegmentsAre
<1> HIDE DEF sb, sw, sx, sy, st, sr, t, r
<1>10. \A i \in 1..(Len(sb) - 1) : Stands(sb[i], sx[i])
  <2> SUFFICES ASSUME NEW i \in 1..(Len(sb) - 1) PROVE Stands(sb[i], sx[i])
    OBVIOUS
  <2>1. i \in 1..Len(sb)
    BY <1>1
  <2> QED BY <1>5, <1>6, <2>1, NoVariables
<1>11. Stands(sb[Len(sb)] \o sw[1], sx[Len(sb)] \o sy[1]) <=> Stands(sw[1], sy[1])
  <2> DEFINE k == Len(sb)
             bk == sb[k]
             xk == sx[k]
             w1 == sw[1]
             y1 == sy[1]
  <2>1. k \in 1..Len(sb) /\ k \in 1..Len(sx)
    BY <1>1, <1>5
  <2>2. /\ bk \in Seq(Byte) /\ Lacks(bk, Open, 1) /\ xk \in Seq(Byte) /\ SameText(bk, xk)
        /\ w1 \in Seq(Byte) /\ w1 # <<>> /\ w1[1] = Open /\ y1 \in Seq(Byte)
    BY <1>5, <1>6, <1>7, <1>8, <1>9, <2>1
  <2> HIDE DEF bk, xk, w1, y1
  <2>3. Stands(bk \o w1, xk \o y1) <=> Closed(w1)
    BY <2>2, StandsAfter
  <2>4. Stands(w1, y1) <=> Closed(w1)
    BY <2>2, StandsOpen
  <2>5. Stands(bk \o w1, xk \o y1) <=> Stands(w1, y1)
    BY <2>3, <2>4
  <2> QED BY <2>5 DEF bk, xk, w1, y1
<1>12. AllStand(st, sr) <=> AllStand(sw, sy)
  <2>1. Len(sb) > 0 /\ Len(sw) > 0 /\ Len(sy) > 0 /\ Len(sb) = Len(sx)
    BY <1>1, <1>5
  <2> HIDE DEF S
  <2> QED BY <1>1, <1>3, <1>4, <1>10, <1>11, <2>1, GluedStand
<1>13. Matches(t, r) <=> AllStand(st, sr)
  BY <1>2, MatchesAre DEF st, sr
<1>14. Matches(w, y) <=> AllStand(sw, sy)
  BY MatchesAre DEF sw, sy
<1> QED BY <1>12, <1>13, <1>14 DEF t, r

\* A text up to some place of its k-th segment.
LEMMA SegmentsUpTo ==
  ASSUME NEW r \in Seq(Byte)
  PROVE  \A k \in 1..Len(Segments(r)) : \A l \in 0..Len(Segments(r)[k]) :
           \E m \in 0..Len(r) :
             /\ Len(Segments(SubSeq(r, 1, m))) = k
             /\ \A i \in 1..(k - 1) : Segments(SubSeq(r, 1, m))[i] = Segments(r)[i]
             /\ Segments(SubSeq(r, 1, m))[k] = SubSeq(Segments(r)[k], 1, l)
<1>1. \A k \in 1..Len(tokens(r, Slash)) : \A l \in 0..Len(tokens(r, Slash)[k]) : EndsInToken(r, Slash, k, l)
  BY PartsOfTokens
<1> QED BY <1>1, Zenon DEF Segments, EndsInToken

\* A route is for no resource that does not begin with the text in front of its variable.
LEMMA MatchesStart ==
  ASSUME NEW b \in Seq(Byte), Lacks(b, Open, 1), NEW w \in Seq(Byte), w # <<>>, w[1] = Open,
         NEW r \in Seq(Byte), Matches(b \o w, r)
  PROVE  \E m \in 0..Len(r) : SameText(b, SubSeq(r, 1, m))
<1>0. ASSUME NEW k \in 1..Len(Segments(r)), NEW l \in 0..Len(Segments(r)[k])
      PROVE  \E m \in 0..Len(r) :
               /\ Len(Segments(SubSeq(r, 1, m))) = k
               /\ \A i \in 1..(k - 1) : Segments(SubSeq(r, 1, m))[i] = Segments(r)[i]
               /\ Segments(SubSeq(r, 1, m))[k] = SubSeq(Segments(r)[k], 1, l)
  BY SegmentsUpTo, Zenon
<1> DEFINE sb == Segments(b)
           sw == Segments(w)
           t == b \o w
           st == Segments(t)
           sr == Segments(r)
           k == Len(sb)
           l == Len(sb[k])
<1>1. sb \in Seq(Seq(Byte)) /\ sw \in Seq(Seq(Byte)) /\ k \in Nat \ {0} /\ Len(sw) \in Nat \ {0}
  BY SegmentsAre
<1>2. t \in Seq(Byte)
  BY ConcatProperties
<1>3. Glued(sb, sw, st)
  BY SegmentsGlue
<1>4. \A i \in 1..k : sb[i] \in Seq(Byte) /\ Lacks(sb[i], Open, 1)
  BY SegmentsAre, SegmentsLack
<1>5. sw[1] \in Seq(Byte) /\ sw[1] # <<>> /\ sw[1][1] = Open
  <2>1. Open # Slash
    BY DEF Open, Slash
  <2>2. 1 \in 1..Len(sw)
    BY <1>1
  <2> QED BY <2>1, <2>2, FirstSegment, SegmentsAre
<1>6. \A i \in 1..Len(sr) : sr[i] \in Seq(Byte)
  BY SegmentsAre
<1>7. Len(st) = Len(sr) /\ \A i \in 1..Len(st) : Stands(st[i], sr[i])
  <2>1. Matches(t, r)
    OBVIOUS
  <2> HIDE DEF t
  <2> QED BY <1>2, <2>1, MatchesAre DEF AllStand
<1> HIDE DEF sb, sw, st, k, t
<1>8. /\ Len(st) = k + Len(sw) - 1 /\ \A i \in 1..(k - 1) : st[i] = sb[i]
      /\ st[k] = sb[k] \o sw[1]
  BY <1>3 DEF Glued, k
<1>9. k \in 1..Len(st) /\ \A i \in 1..(k - 1) : i \in 1..Len(st) /\ i \in 1..k
  BY <1>1, <1>8
<1>10. ASSUME NEW i \in 1..(k - 1) PROVE SameText(sb[i], sr[i])
  <2>1. Stands(sb[i], sr[i])
    BY <1>7, <1>8, <1>9
  <2> QED BY <1>4, <1>9, <2>1, NoVariables
<1>11. l \in 0..Len(sr[k]) /\ SameText(sb[k], SubSeq(sr[k], 1, l))
  <2> DEFINE bk == sb[k]
             w1 == sw[1]
             z == bk \o w1
  <2>1. Stands(z, sr[k])
    BY <1>7, <1>8, <1>9
  <2>2. bk \in Seq(Byte) /\ Lacks(bk, Open, 1) /\ w1 \in Seq(Byte) /\ w1 # <<>> /\ w1[1] = Open
    BY <1>1, <1>4, <1>5
  <2> HIDE DEF bk, w1
  <2>3. Literal(z) = bk /\ Variables(z) = w1
    BY <2>2, VariablesAfter
  <2> HIDE DEF z
  <2>4. Len(bk) <= Len(sr[k]) /\ SameText(bk, SubSeq(sr[k], 1, Len(bk)))
    BY <2>1, <2>2, <2>3 DEF Stands
  <2>5. Len(bk) \in Nat
    BY <2>2
  <2>6. Len(sr[k]) \in Nat
    BY <1>6, <1>7, <1>9
  <2> QED BY <2>4, <2>5, <2>6 DEF bk
<1>12. k \in 1..Len(sr)
  BY <1>7, <1>9
<1> HIDE DEF l
<1>13. PICK m \in 0..Len(r) :
         /\ Len(Segments(SubSeq(r, 1, m))) = k
         /\ \A i \in 1..(k - 1) : Segments(SubSeq(r, 1, m))[i] = sr[i]
         /\ Segments(SubSeq(r, 1, m))[k] = SubSeq(sr[k], 1, l)
  BY <1>0, <1>11, <1>12
<1> DEFINE x == SubSeq(r, 1, m)
<1>14. x \in Seq(Byte)
  BY Opening
<1>15. ASSUME NEW i \in 1..k PROVE SameText(sb[i], Segments(x)[i])
  <2>1. CASE i = k
    BY <1>11, <1>13, <2>1
  <2>2. CASE i # k
    <3>1. i \in 1..(k - 1)
      BY <1>1, <2>2
    <3> QED BY <1>10, <1>13, <3>1
  <2> QED BY <2>1, <2>2
<1>16. Len(sb) = Len(Segments(x)) /\ \A i \in 1..Len(sb) : SameText(sb[i], Segments(x)[i])
  BY <1>13, <1>15 DEF k
<1> HIDE DEF x
<1>17. SameText(b, x)
  BY <1>14, <1>16, SegmentsSame DEF sb
<1> QED BY <1>17 DEF x

\* What a variable has in front of the next one, or of the end of its segment.
FollowsVariable(u) == u = <<>> \/ (u[1] = Open /\ Closed(u))

\* Nothing is left of the segment of the resource that a variable has taken.
LEMMA StandsForNothing ==
  ASSUME NEW u \in Seq(Byte)
  PROVE  Stands(u, <<>>) <=> FollowsVariable(u)
<1>1. CASE u = <<>>
  <2>1. Lacks(u, Open, 1)
    BY <1>1 DEF Lacks
  <2>2. Stands(u, <<>>) <=> SameText(u, <<>>)
    BY <2>1, NoVariables
  <2> QED BY <1>1, <2>2 DEF SameText, FollowsVariable
<1>2. CASE u # <<>> /\ u[1] = Open
  <2>1. <<>> \in Seq(Byte)
    OBVIOUS
  <2>2. Stands(u, <<>>) <=> Closed(u)
    BY <1>2, <2>1, StandsOpen
  <2> QED BY <1>2, <2>2 DEF FollowsVariable
<1>3. CASE u # <<>> /\ u[1] # Open
  <2>1. Len(u) > 0
    BY <1>3
  <2>2. CASE Lacks(u, Open, 1)
    <3>1. Stands(u, <<>>) <=> SameText(u, <<>>)
      BY <2>2, NoVariables
    <3>2. <<>> \in Seq(Byte)
      OBVIOUS
    <3>3. SameText(u, <<>>) => Len(u) = Len(<<>>)
      BY <3>2, SameLength
    <3>4. ~SameText(u, <<>>)
      BY <2>1, <3>3
    <3> QED BY <1>3, <3>1, <3>4 DEF FollowsVariable
  <2>3. CASE ~Lacks(u, Open, 1)
    <3> DEFINE p == Find(u, Open)
    <3>1. p # 0 /\ FirstAt(u, Open, 1, p)
      BY <2>3, FindIs
    <3>2. p \in 2..Len(u)
      BY <1>3, <3>1 DEF FirstAt
    <3>3. Literal(u) = Before(u, p) /\ Variables(u) = From(u, p)
      BY <3>1 DEF Literal, Variables
    <3>4. Len(Before(u, p)) = p - 1 /\ Len(From(u, p)) = Len(u) - p + 1
      <4>1. p \in 1..(Len(u) + 1)
        BY <3>2
      <4> HIDE DEF p
      <4> QED BY <4>1, PartsOf
    <3>5. Variables(u) # <<>> /\ Len(Literal(u)) > 0
      BY <3>2, <3>3, <3>4
    <3> HIDE DEF p
    <3>6. ~Stands(u, <<>>)
      BY <3>5 DEF Stands
    <3> QED BY <1>3, <3>6 DEF FollowsVariable
  <2> QED BY <2>2, <2>3
<1> QED BY <1>1, <1>2, <1>3

\* Where a text is taken up to is the end of it or a slash.
EndsSegment(r) == r = <<>> \/ r[1] = Slash

\* The segments of a route that starts with a variable, and of a resource.
LEMMA VariableSegments ==
  ASSUME NEW n \in Seq(Byte), Lacks(n, Close, 1), Lacks(n, Slash, 1), NEW w \in Seq(Byte)
  PROVE  /\ Segments(Bracketed(n) \o w) \in Seq(Seq(Byte))
         /\ Len(Segments(Bracketed(n) \o w)) = Len(Segments(w))
         /\ Segments(Bracketed(n) \o w)[1] = Bracketed(n) \o Segments(w)[1]
         /\ \A i \in 2..Len(Segments(w)) : Segments(Bracketed(n) \o w)[i] = Segments(w)[i]
<1> DEFINE b == Bracketed(n)
<1>1. <<>> \in Seq(Byte)
  OBVIOUS
<1>2. b \in Seq(Byte) /\ Len(b) = Len(n) + 2 /\ b \o w \in Seq(Byte)
  BY BracketedIs
<1>3. Lacks(b, Slash, 1)
  <2>1. <<Close>> \in Seq(Byte) /\ <<Open>> \in Seq(Byte) /\ Lacks(<<Close>>, Slash, 1) /\ Lacks(<<Open>>, Slash, 1)
    BY DEF Open, Close, Slash, Byte, Lacks
  <2>2. n \o <<Close>> \in Seq(Byte) /\ Lacks(n \o <<Close>>, Slash, 1)
    BY <2>1, FirstOfTwo, ConcatProperties
  <2> DEFINE e == n \o <<Close>>
             o == <<Open>>
  <2> HIDE DEF e, o
  <2>3. o \in Seq(Byte) /\ e \in Seq(Byte) /\ Lacks(e, Slash, 1) /\ Lacks(o, Slash, 1)
    BY <2>1, <2>2 DEF e, o
  <2>4. Lacks(o \o e, Slash, 1)
    BY <2>3, FirstOfTwo
  <2> QED BY <2>4 DEF e, o, Bracketed
<1> HIDE DEF b
<1>4. Segments(b) = <<b>>
  BY <1>2, <1>3, SegmentAlone
<1>5. Glued(Segments(b), Segments(w), Segments(b \o w))
  BY <1>2, SegmentsGlue
<1>6. Len(Segments(w)) \in Nat
  BY SegmentsAre
<1>7. Len(Segments(b)) = 1 /\ Segments(b)[1] = b
  BY <1>4
<1>8. /\ Len(Segments(b \o w)) = Len(Segments(w))
      /\ Segments(b \o w)[1] = b \o Segments(w)[1]
      /\ \A i \in 2..Len(Segments(w)) : Segments(b \o w)[i] = Segments(w)[i]
  BY <1>5, <1>6, <1>7 DEF Glued
<1>9. Segments(b \o w) \in Seq(Seq(Byte))
  BY <1>2, SegmentsAre
<1> QED BY <1>8, <1>9 DEF b

LEMMA ValueSegments ==
  ASSUME NEW v \in Seq(Byte), Lacks(v, Slash, 1), NEW r \in Seq(Byte), EndsSegment(r)
  PROVE  /\ Len(Segments(v \o r)) = Len(Segments(r))
         /\ Segments(v \o r)[1] = v /\ Segments(r)[1] = <<>>
         /\ \A i \in 2..Len(Segments(r)) : Segments(v \o r)[i] = Segments(r)[i]
<1>1. Segments(v) = <<v>>
  BY SegmentAlone
<1>2. Len(Segments(v)) = 1 /\ Segments(v)[1] = v
  BY <1>1
<1>3. Glued(Segments(v), Segments(r), Segments(v \o r))
  BY SegmentsGlue
<1>4. Segments(r)[1] = <<>>
  BY FirstSegment DEF EndsSegment
<1>5. Len(Segments(r)) \in Nat
  BY SegmentsAre
<1>6. /\ Len(Segments(v \o r)) = Len(Segments(r))
      /\ Segments(v \o r)[1] = v \o Segments(r)[1]
      /\ \A i \in 2..Len(Segments(r)) : Segments(v \o r)[i] = Segments(r)[i]
  BY <1>2, <1>3, <1>5 DEF Glued
<1>7. v \o <<>> = v
  BY ConcatEmptySeq
<1> QED BY <1>4, <1>6, <1>7

\* A variable takes its value.
LEMMA MatchesVariable ==
  ASSUME NEW n \in Seq(Byte), Lacks(n, Close, 1), Lacks(n, Slash, 1), NEW w \in Seq(Byte),
         NEW v \in Seq(Byte), Lacks(v, Slash, 1), NEW r \in Seq(Byte), EndsSegment(r)
  PROVE  Matches(Bracketed(n) \o w, v \o r) <=> Matches(w, r)
<1> DEFINE b == Bracketed(n)
           t == b \o w
           y == v \o r
<1>1. b \in Seq(Byte) /\ t \in Seq(Byte) /\ y \in Seq(Byte)
  BY BracketedIs, ConcatProperties
<1>2. Len(Segments(w)) \in Nat \ {0} /\ Len(Segments(r)) \in Nat \ {0} /\ Segments(w)[1] \in Seq(Byte)
  <2>1. Len(Segments(w)) \in Nat \ {0} /\ Len(Segments(r)) \in Nat \ {0}
    BY SegmentsAre
  <2>2. 1 \in 1..Len(Segments(w))
    BY <2>1
  <2> QED BY <2>1, <2>2, SegmentsAre
<1>3. /\ Len(Segments(t)) = Len(Segments(w)) /\ Segments(t)[1] = b \o Segments(w)[1]
      /\ \A i \in 2..Len(Segments(w)) : Segments(t)[i] = Segments(w)[i]
  BY VariableSegments
<1>4. /\ Len(Segments(y)) = Len(Segments(r)) /\ Segments(y)[1] = v /\ Segments(r)[1] = <<>>
      /\ \A i \in 2..Len(Segments(r)) : Segments(y)[i] = Segments(r)[i]
  BY ValueSegments
<1>5. Stands(b \o Segments(w)[1], v) <=> Stands(Segments(w)[1], <<>>)
  <2> DEFINE u == Segments(w)[1]
             c == b \o u
  <2> HIDE DEF u
  <2>0. u \in Seq(Byte)
    BY <1>2 DEF u
  <2>1. c \in Seq(Byte) /\ c[1] = Open /\ Len(c) = (Len(n) + 2) + Len(u)
    BY <2>0, BracketedIs
  <2>2. Closed(c) <=> FollowsVariable(u)
    BY <2>0, ClosedOne DEF FollowsVariable
  <2> HIDE DEF c, b, t, y
  <2>3. c # <<>>
    <3>1. Len(c) > 0
      BY <2>0, <2>1
    <3> QED BY <3>1
  <2>4. Stands(c, v) <=> Closed(c)
    BY <2>1, <2>3, StandsOpen
  <2>5. Stands(u, <<>>) <=> FollowsVariable(u)
    BY <2>0, StandsForNothing
  <2>6. Stands(c, v) <=> Stands(u, <<>>)
    BY <2>2, <2>4, <2>5
  <2> QED BY <2>6 DEF c, u
<1> HIDE DEF b, t, y
<1>6. Matches(t, y) <=> AllStand(Segments(t), Segments(y))
  BY <1>1, MatchesAre
<1>7. Matches(w, r) <=> AllStand(Segments(w), Segments(r))
  BY MatchesAre
<1>8. AllStand(Segments(t), Segments(y)) <=> AllStand(Segments(w), Segments(r))
  <2> DEFINE st == Segments(t)
             sy == Segments(y)
             sw == Segments(w)
             sr == Segments(r)
  <2>1. /\ Len(st) = Len(sw) /\ Len(sy) = Len(sr) /\ Len(sw) \in Nat \ {0} /\ Len(sr) \in Nat \ {0}
        /\ Stands(st[1], sy[1]) <=> Stands(sw[1], sr[1])
    BY <1>2, <1>3, <1>4, <1>5
  <2>2. \A i \in 2..Len(sw) : st[i] = sw[i]
    BY <1>3
  <2>3. \A i \in 2..Len(sr) : sy[i] = sr[i]
    BY <1>4
  <2> HIDE DEF st, sy, sw, sr
  <2>4. \A i \in 1..Len(sw) : Len(sw) = Len(sr) => (Stands(st[i], sy[i]) <=> Stands(sw[i], sr[i]))
    <3> SUFFICES ASSUME NEW i \in 1..Len(sw), Len(sw) = Len(sr) PROVE Stands(st[i], sy[i]) <=> Stands(sw[i], sr[i])
      OBVIOUS
    <3>1. CASE i = 1
      BY <2>1, <3>1
    <3>2. CASE i # 1
      <4>1. i \in 2..Len(sw) /\ i \in 2..Len(sr)
        BY <2>1, <3>2
      <4>2. st[i] = sw[i] /\ sy[i] = sr[i]
        BY <2>2, <2>3, <4>1
      <4> QED BY <4>2
    <3> QED BY <3>1, <3>2
  <2>5. AllStand(st, sy) <=> AllStand(sw, sr)
    BY <2>1, <2>4 DEF AllStand
  <2> QED BY <2>5 DEF st, sy, sw, sr
<1> QED BY <1>6, <1>7, <1>8 DEF b, t, y

\* A route is for no resource when the first thing in it is a bracket that is never closed.
LEMMA MatchesNoClose ==
  ASSUME NEW w \in Seq(Byte), w # <<>>, w[1] = Open, Lacks(w, Close, 1), NEW y \in Seq(Byte)
  PROVE  ~Matches(w, y)
<1> DEFINE u == Segments(w)[1]
<1>1. Len(Segments(w)) \in Nat \ {0} /\ Len(Segments(y)) \in Nat \ {0}
  BY SegmentsAre
<1>2. 1 \in 1..Len(Segments(w)) /\ 1 \in 1..Len(Segments(y))
  BY <1>1
<1>3. u \in Seq(Byte) /\ Lacks(u, Close, 1) /\ Segments(y)[1] \in Seq(Byte)
  BY <1>2, SegmentsAre, SegmentsLack
<1>4. u # <<>> /\ u[1] = Open
  BY FirstSegment DEF Open, Slash
<1> HIDE DEF u
<1>5. Stands(u, Segments(y)[1]) <=> Closed(u)
  BY <1>3, <1>4, StandsOpen
<1>6. ~Closed(u)
  <2>1. Len(u) \in 1..Len(u)
    BY <1>3, <1>4
  <2>2. u[Len(u)] # Close
    BY <1>3, <2>1 DEF Lacks
  <2> QED BY <1>3, <1>4, <2>2, ClosedIs DEF ClosesAt
<1>7. ~AllStand(Segments(w), Segments(y))
  BY <1>2, <1>5, <1>6 DEF AllStand, u
<1> QED BY <1>7, MatchesAre

-----------------------------------------------------------------------------
(* The names of variables. *)

NamesOf(seg) == Names(Variables(seg))

LEMMA RouteNamesIs ==
  ASSUME NEW t \in Seq(Byte), NEW m
  PROVE  m \in RouteNames(t) <=> \E i \in 1..Len(Segments(t)) : m \in NamesOf(Segments(t)[i])
<1>1. DOMAIN Segments(t) = 1..Len(Segments(t))
  BY SegmentsAre
<1> QED BY <1>1, Zenon DEF RouteNames, NamesOf

LEMMA NamesOfText ==
  ASSUME NEW t \in Seq(Byte), Lacks(t, Open, 1)
  PROVE  RouteNames(t) = {}
<1>1. ASSUME NEW i \in 1..Len(Segments(t)) PROVE NamesOf(Segments(t)[i]) = {}
  <2>1. Segments(t)[i] \in Seq(Byte) /\ Lacks(Segments(t)[i], Open, 1)
    BY SegmentsAre, SegmentsLack
  <2> QED BY <2>1, NoVariables DEF NamesOf
<1> QED BY <1>1, RouteNamesIs

\* At most one bracket closes in a segment.
OneClose(seg) == \A k, l \in 1..Len(seg) : seg[k] = Close /\ seg[l] = Close => k = l

LEMMA OwnIs ==
  ASSUME NEW t \in Seq(Byte), NEW i \in 1..Len(Segments(t))
  PROVE  Own(t, i) <=>
           /\ OneClose(Segments(t)[i])
           /\ \A j \in 1..Len(Segments(t)) : j # i => NamesOf(Segments(t)[i]) \cap NamesOf(Segments(t)[j]) = {}
<1> DEFINE ts == Segments(t)
<1>1. DOMAIN ts = 1..Len(ts) /\ ts[i] \in Seq(Byte)
  BY SegmentsAre
<1>2. DOMAIN ts[i] = 1..Len(ts[i])
  BY <1>1
<1>3. Own(t, i) <=>
        /\ \A k, l \in DOMAIN ts[i] : ts[i][k] = Close /\ ts[i][l] = Close => k = l
        /\ \A j \in DOMAIN ts \ {i} : NamesOf(ts[i]) \cap NamesOf(ts[j]) = {}
  BY Zenon DEF Own, NamesOf
<1> HIDE DEF ts
<1>4. (\A k, l \in DOMAIN ts[i] : ts[i][k] = Close /\ ts[i][l] = Close => k = l) <=> OneClose(ts[i])
  BY <1>2, Zenon DEF OneClose
<1>5. (\A j \in DOMAIN ts \ {i} : NamesOf(ts[i]) \cap NamesOf(ts[j]) = {})
        <=> \A j \in 1..Len(ts) : j # i => NamesOf(ts[i]) \cap NamesOf(ts[j]) = {}
  BY <1>1
<1> QED BY <1>3, <1>4, <1>5 DEF ts

\* The text in front of the first variable adds segments without names, and the rest has the
\* variables it had.
LEMMA SegmentsAfter ==
  ASSUME NEW b \in Seq(Byte), Lacks(b, Open, 1), NEW w \in Seq(Byte), w # <<>>, w[1] = Open
  PROVE  /\ Len(Segments(b)) \in Nat \ {0}
         /\ Len(Segments(b \o w)) = (Len(Segments(b)) - 1) + Len(Segments(w))
         /\ \A i \in 1..(Len(Segments(b)) - 1) : NamesOf(Segments(b \o w)[i]) = {}
         /\ \A i \in 1..Len(Segments(w)) :
              /\ NamesOf(Segments(b \o w)[(Len(Segments(b)) - 1) + i]) = NamesOf(Segments(w)[i])
              /\ OneClose(Segments(b \o w)[(Len(Segments(b)) - 1) + i]) => OneClose(Segments(w)[i])
              /\ i # 1 => Segments(b \o w)[(Len(Segments(b)) - 1) + i] = Segments(w)[i]
         /\ Len(Literal(Segments(b \o w)[Len(Segments(b))])) = Len(Segments(b)[Len(Segments(b))])
         /\ Literal(Segments(w)[1]) = <<>>
<1> DEFINE sb == Segments(b)
           sw == Segments(w)
           g == Segments(b \o w)
           k == Len(sb)
           bk == sb[k]
           w1 == sw[1]
<1>1. k \in Nat \ {0} /\ Len(sw) \in Nat \ {0}
  BY SegmentsAre
<1>2. k \in 1..Len(sb) /\ 1 \in 1..Len(sw)
  BY <1>1
<1>3. \A i \in 1..Len(sb) : sb[i] \in Seq(Byte) /\ Lacks(sb[i], Open, 1)
  BY SegmentsAre, SegmentsLack
<1>4. bk \in Seq(Byte) /\ Lacks(bk, Open, 1) /\ w1 \in Seq(Byte)
  BY <1>2, <1>3, SegmentsAre
<1>5. w1 # <<>> /\ w1[1] = Open
  BY FirstSegment DEF Open, Slash
<1>6. Glued(sb, sw, g)
  BY SegmentsGlue
<1> HIDE DEF bk, w1
<1>7. Literal(bk \o w1) = bk /\ Variables(bk \o w1) = w1 /\ Literal(w1) = <<>> /\ Variables(w1) = w1
  BY <1>4, <1>5, VariablesAfter, VariablesAlone
<1>8. OneClose(bk \o w1) => OneClose(w1)
  <2> SUFFICES ASSUME OneClose(bk \o w1), NEW m \in 1..Len(w1), NEW l \in 1..Len(w1), w1[m] = Close, w1[l] = Close
               PROVE  m = l
    BY DEF OneClose
  <2> DEFINE c == bk \o w1
  <2>1. /\ Len(c) = Len(bk) + Len(w1) /\ Len(bk) \in Nat /\ Len(w1) \in Nat
        /\ \A i \in 1..(Len(bk) + Len(w1)) : c[i] = IF i <= Len(bk) THEN bk[i] ELSE w1[i - Len(bk)]
    BY <1>4, Together
  <2> HIDE DEF c
  <2>2. c[Len(bk) + m] = Close /\ c[Len(bk) + l] = Close
    <3>1. ASSUME NEW i \in 1..Len(w1) PROVE c[Len(bk) + i] = w1[i]
      <4>1. Len(bk) + i \in 1..(Len(bk) + Len(w1)) /\ ~(Len(bk) + i <= Len(bk)) /\ (Len(bk) + i) - Len(bk) = i
        BY <2>1
      <4> QED BY <2>1, <4>1
    <3> QED BY <3>1
  <2>3. Len(bk) + m \in 1..Len(c) /\ Len(bk) + l \in 1..Len(c)
    BY <2>1
  <2>4. OneClose(c)
    BY DEF c
  <2>5. Len(bk) + m = Len(bk) + l
    BY <2>2, <2>3, <2>4, Zenon DEF OneClose
  <2> QED BY <2>1, <2>5
<1> HIDE DEF sb, sw, g
<1>9. /\ Len(g) = (k - 1) + Len(sw) /\ \A i \in 1..(k - 1) : g[i] = sb[i]
      /\ g[k] = bk \o w1 /\ \A i \in 2..Len(sw) : g[(k - 1) + i] = sw[i]
  BY <1>1, <1>6 DEF Glued, bk, w1
<1>10. ASSUME NEW i \in 1..(k - 1) PROVE NamesOf(g[i]) = {}
  <2>1. i \in 1..Len(sb) /\ g[i] = sb[i]
    BY <1>1, <1>9
  <2>2. sb[i] \in Seq(Byte) /\ Lacks(sb[i], Open, 1)
    BY <1>3, <2>1
  <2> QED BY <2>1, <2>2, NoVariables DEF NamesOf
<1>11. ASSUME NEW i \in 1..Len(sw)
       PROVE  /\ NamesOf(g[(k - 1) + i]) = NamesOf(sw[i])
              /\ OneClose(g[(k - 1) + i]) => OneClose(sw[i])
              /\ i # 1 => g[(k - 1) + i] = sw[i]
  <2>1. CASE i = 1
    <3>1. (k - 1) + i = k
      BY <1>1, <2>1
    <3>2. g[(k - 1) + i] = bk \o w1 /\ sw[i] = w1
      BY <1>9, <2>1, <3>1 DEF w1
    <3> QED BY <1>7, <1>8, <2>1, <3>2 DEF NamesOf
  <2>2. CASE i # 1
    <3>1. i \in 2..Len(sw)
      BY <1>1, <2>2
    <3>2. g[(k - 1) + i] = sw[i]
      BY <1>9, <3>1
    <3> QED BY <3>2
  <2> QED BY <2>1, <2>2
<1>12. Len(Literal(g[k])) = Len(sb[k]) /\ Literal(sw[1]) = <<>>
  <2>1. Literal(g[k]) = bk
    BY <1>7, <1>9
  <2> QED BY <1>7, <2>1 DEF bk, w1
<1> QED BY <1>1, <1>9, <1>10, <1>11, <1>12 DEF sb, sw, g

LEMMA NamesAfter ==
  ASSUME NEW b \in Seq(Byte), Lacks(b, Open, 1), NEW w \in Seq(Byte), w # <<>>, w[1] = Open
  PROVE  RouteNames(b \o w) = RouteNames(w)
<1> DEFINE t == b \o w
           k == Len(Segments(b))
           sw == Segments(w)
           g == Segments(t)
<1>1. t \in Seq(Byte)
  BY ConcatProperties
<1>2. /\ k \in Nat \ {0} /\ Len(g) = (k - 1) + Len(sw)
      /\ \A i \in 1..(k - 1) : NamesOf(g[i]) = {}
      /\ \A i \in 1..Len(sw) : NamesOf(g[(k - 1) + i]) = NamesOf(sw[i])
  <2>1. k \in Nat \ {0} /\ Len(g) = (k - 1) + Len(sw)
    BY SegmentsAfter
  <2>2. \A i \in 1..(k - 1) : NamesOf(g[i]) = {}
    BY SegmentsAfter
  <2>3. \A i \in 1..Len(sw) : NamesOf(g[(k - 1) + i]) = NamesOf(sw[i])
    BY SegmentsAfter
  <2> QED BY <2>1, <2>2, <2>3
<1>3. Len(sw) \in Nat
  BY SegmentsAre
<1> HIDE DEF t, k, sw, g
<1>4. ASSUME NEW m PROVE (\E i \in 1..Len(g) : m \in NamesOf(g[i])) <=> \E i \in 1..Len(sw) : m \in NamesOf(sw[i])
  <2>1. ASSUME NEW i \in 1..Len(g), m \in NamesOf(g[i]) PROVE \E j \in 1..Len(sw) : m \in NamesOf(sw[j])
    <3>1. i \notin 1..(k - 1)
      BY <1>2, <2>1
    <3>2. i - (k - 1) \in 1..Len(sw) /\ (k - 1) + (i - (k - 1)) = i
      BY <1>2, <1>3, <3>1
    <3>3. NamesOf(g[i]) = NamesOf(sw[i - (k - 1)])
      BY <1>2, <3>2
    <3> QED BY <2>1, <3>2, <3>3
  <2>2. ASSUME NEW j \in 1..Len(sw), m \in NamesOf(sw[j]) PROVE \E i \in 1..Len(g) : m \in NamesOf(g[i])
    <3>1. (k - 1) + j \in 1..Len(g)
      BY <1>2, <1>3
    <3>2. NamesOf(g[(k - 1) + j]) = NamesOf(sw[j])
      BY <1>2
    <3> QED BY <2>2, <3>1, <3>2
  <2> QED BY <2>1, <2>2
<1>5. ASSUME NEW m PROVE m \in RouteNames(t) <=> m \in RouteNames(w)
  BY <1>1, <1>4, RouteNamesIs DEF g, sw
<1> QED BY <1>5 DEF t

\* The names of a segment that starts with a variable.
LEMMA NamesVariable ==
  ASSUME NEW n \in Seq(Byte), Lacks(n, Close, 1), NEW u \in Seq(Byte), FollowsVariable(u)
  PROVE  NamesOf(Bracketed(n) \o u) = {n} \cup NamesOf(u)
<1> DEFINE c == Bracketed(n) \o u
<1>1. c \in Seq(Byte) /\ c[1] = Open /\ Len(c) = (Len(n) + 2) + Len(u)
  BY BracketedIs
<1>2. Names(c) = {n} \cup Names(u)
  BY NamesOne DEF FollowsVariable
<1> HIDE DEF c
<1>3. c # <<>>
  BY <1>1
<1>4. Variables(c) = c
  BY <1>1, <1>3, VariablesAlone
<1>5. Variables(u) = u
  <2>1. CASE u = <<>>
    <3>1. Lacks(u, Open, 1)
      BY <2>1 DEF Lacks
    <3> QED BY <2>1, <3>1, NoVariables
  <2>2. CASE u # <<>>
    BY <2>2, VariablesAlone DEF FollowsVariable
  <2> QED BY <2>1, <2>2
<1> QED BY <1>2, <1>4, <1>5 DEF c, NamesOf

\* A route that is for a resource whose segment has ended goes on with another variable, a
\* slash or nothing.
LEMMA GoesOn ==
  ASSUME NEW w \in Seq(Byte), NEW r \in Seq(Byte), EndsSegment(r), Matches(w, r)
  PROVE  FollowsVariable(Segments(w)[1]) /\ Segments(w)[1] \in Seq(Byte)
<1>1. Len(Segments(w)) \in Nat \ {0}
  BY SegmentsAre
<1>2. 1 \in 1..Len(Segments(w))
  BY <1>1
<1>3. Segments(w)[1] \in Seq(Byte)
  BY <1>2, SegmentsAre
<1>4. Stands(Segments(w)[1], Segments(r)[1])
  BY <1>2, MatchesAre DEF AllStand
<1>5. Segments(r)[1] = <<>>
  BY FirstSegment DEF EndsSegment
<1> QED BY <1>3, <1>4, <1>5, StandsForNothing

LEMMA NamesVariables ==
  ASSUME NEW n \in Seq(Byte), Lacks(n, Close, 1), Lacks(n, Slash, 1), NEW w \in Seq(Byte),
         NEW r \in Seq(Byte), EndsSegment(r), Matches(w, r)
  PROVE  RouteNames(Bracketed(n) \o w) = {n} \cup RouteNames(w)
<1> DEFINE t == Bracketed(n) \o w
           g == Segments(t)
           sw == Segments(w)
<1>1. t \in Seq(Byte)
  BY BracketedIs
<1>2. Len(g) = Len(sw) /\ g[1] = Bracketed(n) \o sw[1] /\ \A i \in 2..Len(sw) : g[i] = sw[i]
  BY VariableSegments
<1>3. Len(sw) \in Nat \ {0}
  BY SegmentsAre
<1>4. FollowsVariable(sw[1]) /\ sw[1] \in Seq(Byte)
  BY GoesOn
<1>5. NamesOf(g[1]) = {n} \cup NamesOf(sw[1])
  BY <1>2, <1>4, NamesVariable
<1> HIDE DEF t, g, sw
<1>6. ASSUME NEW m PROVE (\E i \in 1..Len(g) : m \in NamesOf(g[i])) <=> m = n \/ \E i \in 1..Len(sw) : m \in NamesOf(sw[i])
  <2>1. \A i \in 1..Len(sw) : i = 1 \/ i \in 2..Len(sw)
    BY <1>3
  <2>2. 1 \in 1..Len(sw) /\ 1 \in 1..Len(g)
    BY <1>2, <1>3
  <2>3. \A i \in 1..Len(sw) : m \in NamesOf(g[i]) <=> (i = 1 /\ m = n) \/ m \in NamesOf(sw[i])
    <3> SUFFICES ASSUME NEW i \in 1..Len(sw) PROVE m \in NamesOf(g[i]) <=> (i = 1 /\ m = n) \/ m \in NamesOf(sw[i])
      OBVIOUS
    <3>1. CASE i = 1
      BY <1>5, <3>1
    <3>2. CASE i \in 2..Len(sw)
      BY <1>2, <3>2
    <3> QED BY <2>1, <3>1, <3>2
  <2>4. Len(g) = Len(sw)
    BY <1>2
  <2> QED BY <2>2, <2>3, <2>4, Zenon
<1>7. ASSUME NEW m PROVE m \in RouteNames(t) <=> m \in {n} \cup RouteNames(w)
  BY <1>1, <1>6, RouteNamesIs DEF g, sw
<1> QED BY <1>7 DEF t

-----------------------------------------------------------------------------
(* The values of variables. *)

\* A variable n with a name of its own, and its value.
OwnValue(t, r, n, x) ==
  \E i \in 1..Len(Segments(t)) :
    Own(t, i) /\ n \in NamesOf(Segments(t)[i]) /\ x = ValueOf(Segments(t)[i], Segments(r)[i])

\* The rest of a text after as many places as another text has.
LEMMA AfterAll ==
  ASSUME NEW x \in Seq(Byte), NEW y \in Seq(Byte)
  PROVE  From(x \o y, Len(x) + 1) = y
<1>1. Len(x) \in Nat /\ Len(y) \in Nat /\ x \o y \in Seq(Byte)
  BY ConcatProperties
<1>2. From(x \o y, Len(x) + 1) = From(y, 1)
  <2>1. 1 \in 1..(Len(y) + 1)
    BY <1>1
  <2> QED BY <2>1, PartsOfSecond
<1>3. From(y, 1) = y
  <2>1. 1 \in 1..(Len(y) + 1)
    BY <1>1
  <2> DEFINE f == From(y, 1)
  <2>2. /\ f \in Seq(Byte) /\ Len(f) = Len(y) - 1 + 1
        /\ \A j \in 1..(Len(y) - 1 + 1) : f[j] = y[1 + j - 1]
    BY <2>1, PartsOf
  <2> HIDE DEF f
  <2>3. f \in Seq(Byte) /\ Len(f) = Len(y) /\ \A j \in 1..Len(y) : f[j] = y[j]
    <3>1. Len(y) - 1 + 1 = Len(y) /\ \A j \in 1..Len(y) : 1 + j - 1 = j
      BY <1>1
    <3>2. \A j \in 1..Len(y) : f[j] = y[1 + j - 1]
      BY <2>2, <3>1
    <3> QED BY <2>2, <3>1, <3>2
  <2>4. f = y
    BY <2>3
  <2> QED BY <2>4 DEF f
<1> QED BY <1>2, <1>3

LEMMA OwnValueAfter ==
  ASSUME NEW b \in Seq(Byte), Lacks(b, Open, 1), NEW w \in Seq(Byte), w # <<>>, w[1] = Open,
         NEW x \in Seq(Byte), NEW y \in Seq(Byte), SameText(b, x), Matches(w, y),
         NEW n, NEW v, OwnValue(b \o w, x \o y, n, v)
  PROVE  OwnValue(w, y, n, v)
<1> DEFINE t == b \o w
           r == x \o y
           k == Len(Segments(b))
           g == Segments(t)
           h == Segments(r)
           sw == Segments(w)
           sy == Segments(y)
           sb == Segments(b)
           sx == Segments(x)
<1>1. t \in Seq(Byte) /\ r \in Seq(Byte)
  BY ConcatProperties
<1>2. k \in Nat \ {0} /\ Len(g) = (k - 1) + Len(sw) /\ Literal(sw[1]) = <<>> /\ Len(Literal(g[k])) = Len(sb[k])
  BY SegmentsAfter
<1>3. \A i \in 1..(k - 1) : NamesOf(g[i]) = {}
  BY SegmentsAfter
<1>4. \A i \in 1..Len(sw) : /\ NamesOf(g[(k - 1) + i]) = NamesOf(sw[i])
                            /\ OneClose(g[(k - 1) + i]) => OneClose(sw[i])
                            /\ i # 1 => g[(k - 1) + i] = sw[i]
  BY SegmentsAfter
<1>5. Glued(sx, sy, h)
  BY SegmentsGlue
<1>6. Len(sw) \in Nat \ {0} /\ Len(sy) \in Nat \ {0} /\ Len(sy) = Len(sw)
  BY SegmentsAre, MatchesAre DEF AllStand
<1>7. k = Len(sx) /\ \A i \in 1..k : SameText(sb[i], sx[i])
  BY SegmentsSame
<1>8. sx[k] \in Seq(Byte) /\ sb[k] \in Seq(Byte) /\ Len(sx[k]) = Len(sb[k]) /\ sy[1] \in Seq(Byte)
  <2>1. k \in 1..Len(sb) /\ k \in 1..Len(sx) /\ 1 \in 1..Len(sy)
    BY <1>2, <1>6, <1>7
  <2>2. sx[k] \in Seq(Byte) /\ sb[k] \in Seq(Byte) /\ sy[1] \in Seq(Byte) /\ SameText(sb[k], sx[k])
    BY <1>7, <2>1, SegmentsAre
  <2> HIDE DEF k, sx, sb, sy
  <2> QED BY <2>2, SameLength
<1> PICK i \in 1..Len(g) : Own(t, i) /\ n \in NamesOf(g[i]) /\ v = ValueOf(g[i], h[i])
  BY DEF OwnValue
<1>9. /\ OneClose(g[i])
      /\ \A j \in 1..Len(g) : j # i => NamesOf(g[i]) \cap NamesOf(g[j]) = {}
  <2> HIDE DEF t
  <2> QED BY <1>1, OwnIs
<1> HIDE DEF t, r, k, g, h, sw, sy, sb, sx
<1> DEFINE l == i - (k - 1)
<1>10. l \in 1..Len(sw) /\ i = (k - 1) + l
  <2>1. i \notin 1..(k - 1)
    BY <1>3
  <2> QED BY <1>2, <1>6, <2>1
<1>11. NamesOf(g[i]) = NamesOf(sw[l]) /\ (OneClose(g[i]) => OneClose(sw[l]))
  BY <1>4, <1>10
<1>12. Own(w, l)
  <2>1. ASSUME NEW j \in 1..Len(sw), j # l PROVE NamesOf(sw[l]) \cap NamesOf(sw[j]) = {}
    <3>1. (k - 1) + j \in 1..Len(g) /\ (k - 1) + j # i
      BY <1>2, <1>6, <1>10, <2>1
    <3>2. NamesOf(g[(k - 1) + j]) = NamesOf(sw[j])
      BY <1>4
    <3> QED BY <1>9, <1>11, <3>1, <3>2
  <2>2. OneClose(sw[l])
    BY <1>9, <1>11
  <2> HIDE DEF l
  <2> QED BY <1>10, <2>1, <2>2, OwnIs DEF sw
<1>13. ValueOf(g[i], h[i]) = ValueOf(sw[l], sy[l])
  <2>1. CASE l = 1
    <3>1. i = k
      BY <1>2, <1>10, <2>1
    <3>2. h[k] = sx[k] \o sy[1]
      BY <1>5, <1>7 DEF Glued
    <3> DEFINE xk == sx[k]
               y1 == sy[1]
    <3> HIDE DEF xk, y1
    <3>3. xk \in Seq(Byte) /\ y1 \in Seq(Byte)
      BY <1>8 DEF xk, y1
    <3>4. From(xk \o y1, Len(xk) + 1) = y1
      BY <3>3, AfterAll
    <3>5. ValueOf(g[k], h[k]) = y1
      BY <1>2, <1>8, <3>2, <3>4 DEF ValueOf, xk, y1
    <3>6. ValueOf(sw[1], y1) = y1
      <4>1. <<>> \in Seq(Byte) /\ Len(<<>>) = 0 /\ <<>> \o y1 = y1
        BY <3>3, ConcatEmptySeq
      <4>2. From(<<>> \o y1, Len(<<>>) + 1) = y1
        BY <3>3, <4>1, AfterAll
      <4> QED BY <1>2, <4>1, <4>2 DEF ValueOf
    <3> QED BY <2>1, <3>1, <3>5, <3>6 DEF y1
  <2>2. CASE l # 1
    <3>1. g[i] = sw[l]
      BY <1>4, <1>10, <2>2
    <3>2. l \in 2..Len(sy)
      BY <1>6, <1>10, <2>2
    <3>3. h[i] = sy[l]
      BY <1>5, <1>7, <1>10, <3>2 DEF Glued
    <3> QED BY <3>1, <3>3
  <2> QED BY <2>1, <2>2
<1> HIDE DEF l
<1>14. v = ValueOf(sw[l], sy[l]) /\ n \in NamesOf(sw[l])
  BY <1>11, <1>13
<1> QED BY <1>10, <1>12, <1>14, Zenon DEF OwnValue, sw, sy

\* A segment with two variables has two brackets that close.
LEMMA OneCloseAlone ==
  ASSUME NEW n \in Seq(Byte), Lacks(n, Close, 1), NEW u \in Seq(Byte), FollowsVariable(u), OneClose(Bracketed(n) \o u)
  PROVE  u = <<>>
<1> SUFFICES ASSUME u # <<>> PROVE FALSE
  OBVIOUS
<1> DEFINE c == Bracketed(n) \o u
           m == Len(n) + 2
<1>1. /\ m \in Nat \ {0} /\ Len(c) = m + Len(u) /\ c[m] = Close
      /\ \A i \in 1..Len(u) : c[m + i] = u[i]
  BY BracketedIs
<1>2. Len(u) \in 1..Len(u)
  OBVIOUS
<1>3. u[Len(u)] = Close
  BY ClosedIs DEF FollowsVariable, ClosesAt
<1> HIDE DEF c, m
<1>4. c[m + Len(u)] = Close
  BY <1>1, <1>2, <1>3
<1>5. m + Len(u) \in 1..Len(c) /\ m \in 1..Len(c) /\ m + Len(u) # m
  BY <1>1, <1>2
<1>6. OneClose(c)
  BY DEF c
<1> QED BY <1>1, <1>4, <1>5, <1>6, Zenon DEF OneClose

LEMMA OwnValueVariable ==
  ASSUME NEW m \in Seq(Byte), Lacks(m, Close, 1), Lacks(m, Slash, 1), NEW w \in Seq(Byte),
         NEW x \in Seq(Byte), Lacks(x, Slash, 1), NEW r \in Seq(Byte), EndsSegment(r), Matches(w, r),
         NEW n, NEW v, OwnValue(Bracketed(m) \o w, x \o r, n, v)
  PROVE  \/ n = m /\ v = x /\ n \notin RouteNames(w)
         \/ n # m /\ OwnValue(w, r, n, v)
<1> DEFINE t == Bracketed(m) \o w
           y == x \o r
           g == Segments(t)
           h == Segments(y)
           sw == Segments(w)
           sr == Segments(r)
<1>1. t \in Seq(Byte) /\ y \in Seq(Byte)
  BY BracketedIs, ConcatProperties
<1>2. Len(g) = Len(sw) /\ g[1] = Bracketed(m) \o sw[1] /\ \A i \in 2..Len(sw) : g[i] = sw[i]
  BY VariableSegments
<1>3. h[1] = x /\ sr[1] = <<>> /\ \A i \in 2..Len(sr) : h[i] = sr[i]
  BY ValueSegments
<1>4. Len(sw) \in Nat \ {0} /\ Len(sr) = Len(sw)
  BY SegmentsAre, MatchesAre DEF AllStand
<1>5. FollowsVariable(sw[1]) /\ sw[1] \in Seq(Byte)
  BY GoesOn
<1>6. NamesOf(g[1]) = {m} \cup NamesOf(sw[1])
  BY <1>2, <1>5, NamesVariable
<1> PICK i \in 1..Len(g) : Own(t, i) /\ n \in NamesOf(g[i]) /\ v = ValueOf(g[i], h[i])
  BY DEF OwnValue
<1>7. /\ OneClose(g[i])
      /\ \A j \in 1..Len(g) : j # i => NamesOf(g[i]) \cap NamesOf(g[j]) = {}
  <2> HIDE DEF t
  <2> QED BY <1>1, OwnIs
<1>8. 1 \in 1..Len(g) /\ (i = 1 \/ (i \in 2..Len(sw) /\ i \in 2..Len(sr) /\ i # 1))
  BY <1>2, <1>4
<1>9. \A e : e \in RouteNames(w) <=> \E j \in 1..Len(sw) : e \in NamesOf(sw[j])
  BY RouteNamesIs
<1>10. CASE i = 1
  <2>1. sw[1] = <<>>
    <3> DEFINE u == sw[1]
    <3> HIDE DEF u, sw
    <3>1. u \in Seq(Byte) /\ FollowsVariable(u)
      BY <1>5 DEF u
    <3>2. OneClose(Bracketed(m) \o u)
      BY <1>2, <1>7, <1>10 DEF u
    <3>3. u = <<>>
      BY <3>1, <3>2, OneCloseAlone
    <3> QED BY <3>3 DEF u
  <2>2. NamesOf(sw[1]) = {}
    <3>1. <<>> \in Seq(Byte) /\ Lacks(<<>>, Open, 1)
      BY DEF Lacks
    <3> QED BY <2>1, <3>1, NoVariables DEF NamesOf
  <2>3. n = m
    BY <1>6, <1>10, <2>2
  <2>4. v = x
    <3> HIDE DEF sw, sr, t, y
    <3> DEFINE c == Bracketed(m) \o <<>>
    <3>1. g[1] = c
      BY <1>2, <2>1
    <3>2. c \in Seq(Byte) /\ c[1] = Open /\ Len(c) = (Len(m) + 2) + 0
      BY BracketedIs
    <3> HIDE DEF c
    <3>3. c # <<>>
      BY <3>2
    <3>4. Literal(c) = <<>>
      BY <3>2, <3>3, VariablesAlone
    <3>5. v = From(x, 1)
      <4>1. v = From(x, Len(Literal(c)) + 1)
        BY <1>3, <1>10, <3>1 DEF ValueOf
      <4> QED BY <3>4, <4>1
    <3>6. <<>> \in Seq(Byte) /\ Len(<<>>) = 0 /\ <<>> \o x = x
      BY ConcatEmptySeq
    <3>7. From(<<>> \o x, Len(<<>>) + 1) = x
      BY <3>6, AfterAll
    <3> QED BY <3>5, <3>6, <3>7
  <2>5. ASSUME NEW j \in 1..Len(sw) PROVE n \notin NamesOf(sw[j])
    <3>1. CASE j = 1
      BY <2>2, <3>1
    <3>2. CASE j # 1
      <4>1. j \in 2..Len(sw) /\ j \in 1..Len(g)
        BY <1>2, <1>4, <3>2
      <4>2. NamesOf(g[1]) \cap NamesOf(g[j]) = {}
        BY <1>7, <1>10, <3>2, <4>1
      <4>3. g[j] = sw[j]
        BY <1>2, <4>1
      <4> QED BY <1>6, <2>3, <4>2, <4>3
    <3> QED BY <3>1, <3>2
  <2>6. n \notin RouteNames(w)
    BY <1>9, <2>5
  <2> QED BY <2>3, <2>4, <2>6
<1>11. CASE i # 1
  <2>1. i \in 2..Len(sw) /\ g[i] = sw[i] /\ h[i] = sr[i] /\ i \in 1..Len(sw)
    BY <1>2, <1>3, <1>4, <1>8, <1>11
  <2>2. n # m
    <3>1. NamesOf(g[i]) \cap NamesOf(g[1]) = {}
      BY <1>7, <1>8, <1>11
    <3> QED BY <1>6, <3>1
  <2>3. Own(w, i)
    <3>1. ASSUME NEW j \in 1..Len(sw), j # i PROVE NamesOf(sw[i]) \cap NamesOf(sw[j]) = {}
      <4>1. NamesOf(g[i]) \cap NamesOf(g[j]) = {}
        BY <1>2, <1>7, <3>1
      <4>2. NamesOf(sw[j]) \subseteq NamesOf(g[j])
        <5>1. CASE j = 1
          BY <1>6, <5>1
        <5>2. CASE j # 1
          <6>1. j \in 2..Len(sw)
            BY <1>4, <5>2
          <6> QED BY <1>2, <6>1
        <5> QED BY <5>1, <5>2
      <4> QED BY <2>1, <4>1, <4>2
    <3>2. OneClose(sw[i])
      BY <1>7, <2>1
    <3> HIDE DEF g, h
    <3> QED BY <2>1, <3>1, <3>2, OwnIs
  <2>4. v = ValueOf(sw[i], sr[i]) /\ n \in NamesOf(sw[i])
    BY <2>1
  <2>5. OwnValue(w, r, n, v)
    BY <2>1, <2>3, <2>4, Zenon DEF OwnValue
  <2> QED BY <2>2, <2>5
<1> QED BY <1>10, <1>11

-----------------------------------------------------------------------------
(* Where texts are cut. *)

LEMMA SuffixOf ==
  ASSUME NEW x \in Seq(Byte), NEW y \in Seq(Byte)
  PROVE  IsSuffix(y, x \o y)
<1> DEFINE t == x \o y
           a == Reverse(y)
           c == Reverse(t)
<1>1. /\ t \in Seq(Byte) /\ Len(t) = Len(x) + Len(y) /\ Len(x) \in Nat /\ Len(y) \in Nat
      /\ \A i \in 1..(Len(x) + Len(y)) : t[i] = IF i <= Len(x) THEN x[i] ELSE y[i - Len(x)]
  BY Together
<1> HIDE DEF t
<1>2. a = [i \in 1..Len(y) |-> y[(Len(y) - i) + 1]] /\ c = [i \in 1..Len(t) |-> t[(Len(t) - i) + 1]]
  BY DEF Reverse
<1>3. a \in Seq(Byte) /\ Len(a) = Len(y) /\ \A i \in 1..Len(y) : a[i] = y[(Len(y) - i) + 1]
  BY <1>1, <1>2
<1>4. c \in Seq(Byte) /\ Len(c) = Len(t) /\ \A i \in 1..Len(t) : c[i] = t[(Len(t) - i) + 1]
  BY <1>1, <1>2
<1> HIDE DEF a, c
<1>5. ASSUME NEW i \in 1..Len(y) PROVE a[i] = c[i]
  <2>1. i \in 1..Len(t) /\ (Len(t) - i) + 1 \in 1..(Len(x) + Len(y)) /\ ~((Len(t) - i) + 1 <= Len(x))
    BY <1>1
  <2>2. ((Len(t) - i) + 1) - Len(x) = (Len(y) - i) + 1
    BY <1>1
  <2>3. t[(Len(t) - i) + 1] = y[((Len(t) - i) + 1) - Len(x)]
    BY <1>1, <2>1
  <2>4. c[i] = t[(Len(t) - i) + 1]
    BY <1>4, <2>1
  <2> QED BY <1>3, <2>2, <2>3, <2>4
<1>6. SubSeq(a, 1, Len(a)) = SubSeq(c, 1, Len(a))
  BY <1>1, <1>3, <1>4, <1>5
<1>7. IsPrefix(a, c)
  BY <1>1, <1>3, <1>4, <1>6 DEF IsPrefix
<1> QED BY <1>7 DEF IsSuffix, a, c, t

\* What follows in a text whose brackets are closed before a slash.
LEMMA PlainAfter ==
  ASSUME NEW x \in Seq(Byte), NEW y \in Seq(Byte), Plain(x \o y)
  PROVE  Plain(y)
<1> DEFINE t == x \o y
           m == Len(x)
<1>1. /\ t \in Seq(Byte) /\ Len(t) = m + Len(y) /\ m \in Nat /\ Len(y) \in Nat
      /\ \A i \in 1..(m + Len(y)) : t[i] = IF i <= m THEN x[i] ELSE y[i - m]
  BY Together
<1> HIDE DEF t, m
<1>2. ASSUME NEW i \in 1..Len(y) PROVE m + i \in DOMAIN t /\ t[m + i] = y[i]
  <2>1. m + i \in 1..(m + Len(y)) /\ ~(m + i <= m) /\ (m + i) - m = i
    BY <1>1
  <2> QED BY <1>1, <2>1
<1>3. ASSUME NEW i \in DOMAIN y, y[i] = Slash, NEW j \in 1..(i - 1), y[j] = Open
      PROVE  \E k \in (j + 1)..(i - 1) : y[k] = Close
  <2>1. i \in 1..Len(y) /\ j \in 1..Len(y) /\ m + j \in 1..((m + i) - 1)
    BY <1>1, <1>3
  <2>2. t[m + i] = Slash /\ t[m + j] = Open /\ m + i \in DOMAIN t
    BY <1>2, <1>3, <2>1
  <2>3. PICK k \in ((m + j) + 1)..((m + i) - 1) : t[k] = Close
    BY <2>1, <2>2, Zenon DEF Plain, t
  <2>4. k - m \in (j + 1)..(i - 1) /\ k - m \in 1..Len(y) /\ m + (k - m) = k
    <3>1. m \in Nat /\ Len(y) \in Nat /\ i \in Nat /\ i <= Len(y) /\ j \in Nat /\ 1 <= j
      BY <1>1, <2>1
    <3>2. k \in Int /\ (m + j) + 1 <= k /\ k <= (m + i) - 1
      BY <2>3, <3>1
    <3> QED BY <3>1, <3>2
  <2>5. y[k - m] = Close
    BY <1>2, <2>3, <2>4
  <2> QED BY <2>4, <2>5
<1> QED BY <1>3 DEF Plain

\* Such a text has no slash in the name of a variable.
LEMMA PlainName ==
  ASSUME NEW n \in Seq(Byte), Lacks(n, Close, 1), NEW w \in Seq(Byte), Plain(Bracketed(n) \o w)
  PROVE  Lacks(n, Slash, 1)
<1> SUFFICES ASSUME NEW i \in 1..Len(n), n[i] = Slash PROVE FALSE
  BY DEF Lacks
<1> DEFINE t == Bracketed(n) \o w
<1>1. /\ t \in Seq(Byte) /\ Len(t) = (Len(n) + 2) + Len(w) /\ t[1] = Open
      /\ \A j \in 1..((Len(n) + 2) - 1) : t[j] # Close
      /\ \A j \in 1..Len(n) : t[j + 1] = n[j]
  BY BracketedIs
<1> HIDE DEF t
<1>2. i + 1 \in DOMAIN t /\ t[i + 1] = Slash /\ 1 \in 1..((i + 1) - 1)
  BY <1>1
<1>3. PICK k \in (1 + 1)..((i + 1) - 1) : t[k] = Close
  BY <1>1, <1>2, Zenon DEF Plain, t
<1>4. k \in 1..((Len(n) + 2) - 1)
  BY <1>3
<1> QED BY <1>1, <1>3, <1>4

Regrouped(s, t, u, v) == (s \o (t \o u)) \o v = s \o (t \o (u \o v))

LEMMA FourTogether ==
  ASSUME NEW S, NEW s \in Seq(S), NEW t \in Seq(S), NEW u \in Seq(S), NEW v \in Seq(S)
  PROVE  Regrouped(s, t, u, v)
<1>1. t \o u \in Seq(S)
  BY ConcatProperties
<1>2. (s \o (t \o u)) \o v = s \o ((t \o u) \o v)
  <2> DEFINE m == t \o u
  <2> HIDE DEF m
  <2>1. m \in Seq(S)
    BY <1>1 DEF m
  <2>2. (s \o m) \o v = s \o (m \o v)
    BY <2>1, ConcatAssociative, SMTT(60)
  <2> QED BY <2>2 DEF m
<1>3. (t \o u) \o v = t \o (u \o v)
  BY ConcatAssociative, SMTT(60)
<1> QED BY <1>2, <1>3 DEF Regrouped

\* The places where a route and a resource are cut.
LEMMA CutRoute ==
  ASSUME NEW t \in Seq(Byte), NEW p, FirstAt(t, Open, 1, p), NEW q, FirstAt(From(t, p + 1), Close, 1, q)
  PROVE  /\ t = Before(t, p) \o (Bracketed(Before(From(t, p + 1), q)) \o From(From(t, p + 1), q + 1))
         /\ Before(t, p) \in Seq(Byte) /\ Lacks(Before(t, p), Open, 1)
         /\ Before(From(t, p + 1), q) \in Seq(Byte) /\ Lacks(Before(From(t, p + 1), q), Close, 1)
         /\ From(From(t, p + 1), q + 1) \in Seq(Byte)
<1> DEFINE b == Before(t, p)
           inside == From(t, p + 1)
           n == Before(inside, q)
           w == From(inside, q + 1)
<1>1. b \in Seq(Byte) /\ Lacks(b, Open, 1) /\ inside \in Seq(Byte)
  BY AtFirst
<1>2. t = b \o (<<Open>> \o inside)
  BY FirstJoin
<1> HIDE DEF b, inside
<1>3. FirstAt(inside, Close, 1, q)
  BY DEF inside
<1>4. n \in Seq(Byte) /\ Lacks(n, Close, 1) /\ w \in Seq(Byte)
  BY <1>1, <1>3, AtFirst
<1>5. inside = n \o (<<Close>> \o w)
  BY <1>1, <1>3, FirstJoin
<1> HIDE DEF n, w
<1> DEFINE o == <<Open>>
           c == <<Close>>
<1>6. o \in Seq(Byte) /\ c \in Seq(Byte)
  BY DEF Open, Close, Byte
<1> HIDE DEF o, c
<1>7. (o \o (n \o c)) \o w = o \o (n \o (c \o w))
  <2>1. Regrouped(o, n, c, w)
    BY <1>4, <1>6, FourTogether
  <2> QED BY <2>1 DEF Regrouped
<1>8. t = b \o (Bracketed(n) \o w)
  BY <1>2, <1>5, <1>7, Zenon DEF Bracketed, o, c
<1> QED BY <1>1, <1>4, <1>8 DEF b, n, w, inside

\* The value of a variable that a resource starts with.
Taken(s) == IF Find(s, Slash) = 0 THEN s ELSE Before(s, Find(s, Slash))

LEMMA CutValue ==
  ASSUME NEW s \in Seq(Byte)
  PROVE  /\ s = Taken(s) \o From(s, Len(Taken(s)) + 1)
         /\ Taken(s) \in Seq(Byte) /\ Lacks(Taken(s), Slash, 1)
         /\ From(s, Len(Taken(s)) + 1) \in Seq(Byte) /\ EndsSegment(From(s, Len(Taken(s)) + 1))
<1>1. CASE Find(s, Slash) = 0
  <2>1. Taken(s) = s /\ Lacks(s, Slash, 1)
    BY <1>1, FindIs DEF Taken
  <2>2. Len(s) + 1 \in 1..(Len(s) + 1) /\ Len(s) \in Nat
    OBVIOUS
  <2>3. From(s, Len(s) + 1) = <<>>
    BY <2>2 DEF From
  <2>4. s \o <<>> = s
    BY ConcatEmptySeq
  <2>5. <<>> \in Seq(Byte)
    OBVIOUS
  <2> QED BY <2>1, <2>3, <2>4, <2>5 DEF EndsSegment
<1>2. CASE Find(s, Slash) # 0
  <2> DEFINE p == Find(s, Slash)
  <2>1. FirstAt(s, Slash, 1, p) /\ Taken(s) = Before(s, p)
    BY <1>2, FindIs DEF Taken
  <2> HIDE DEF p
  <2>2. p \in 1..Len(s) /\ Before(s, p) \in Seq(Byte) /\ Len(Before(s, p)) = p - 1 /\ Lacks(Before(s, p), Slash, 1)
    BY <2>1, AtFirst
  <2>3. Len(Taken(s)) + 1 = p /\ p \in 1..(Len(s) + 1)
    BY <2>1, <2>2
  <2>4. s = Before(s, p) \o From(s, p)
    BY <2>3, PartsJoin
  <2>5. /\ From(s, p) \in Seq(Byte)
        /\ \A j \in 1..(Len(s) - p + 1) : From(s, p)[j] = s[p + j - 1]
    BY <2>3, PartsOf
  <2>6. From(s, p)[1] = Slash
    <3>1. 1 \in 1..(Len(s) - p + 1) /\ p + 1 - 1 = p
      BY <2>2
    <3>2. From(s, p)[1] = s[p]
      BY <2>5, <3>1
    <3> QED BY <2>1, <3>2 DEF FirstAt
  <2> QED BY <2>1, <2>2, <2>3, <2>4, <2>5, <2>6 DEF EndsSegment
<1> QED BY <1>1, <1>2

-----------------------------------------------------------------------------
(* One call of routeIsCompatible. *)

\* As much of r as there is in front of place p.
StartOf(r, p) == SubSeq(r, 1, Min({p - 1, Len(r)}))

LEMMA StartIs ==
  ASSUME NEW r \in Seq(Byte), NEW p \in Nat \ {0}
  PROVE  /\ p - 1 <= Len(r) => StartOf(r, p) = Before(r, p)
         /\ StartOf(r, p) \in Seq(Byte) /\ Len(StartOf(r, p)) <= p - 1
         /\ Len(StartOf(r, p)) = p - 1 => p - 1 <= Len(r)
<1> DEFINE T == {p - 1, Len(r)}
           m == Min(T)
<1>1. T \in SUBSET Nat /\ T # {}
  OBVIOUS
<1>2. m \in T /\ \A k \in T : m <= k
  <2> HIDE DEF T
  <2> QED BY <1>1, MinIs
<1> HIDE DEF m
<1>3. m \in 0..Len(r) /\ m <= p - 1 /\ (p - 1 <= Len(r) => m = p - 1)
  BY <1>2
<1>4. StartOf(r, p) = SubSeq(r, 1, m)
  BY DEF StartOf, m
<1>5. SubSeq(r, 1, m) \in Seq(Byte) /\ Len(SubSeq(r, 1, m)) = m
  BY <1>3, Opening
<1>6. p - 1 <= Len(r) => SubSeq(r, 1, m) = Before(r, p)
  BY <1>3 DEF Before
<1> QED BY <1>3, <1>4, <1>5, <1>6

\* A resource that begins with the text in front of the variable.
LEMMA CutResource ==
  ASSUME NEW r \in Seq(Byte), NEW b \in Seq(Byte), NEW p \in Nat \ {0}, Len(b) = p - 1, SameText(b, StartOf(r, p))
  PROVE  /\ r = Before(r, p) \o From(r, p) /\ SameText(b, Before(r, p))
         /\ Before(r, p) \in Seq(Byte) /\ From(r, p) \in Seq(Byte)
<1>1. StartOf(r, p) \in Seq(Byte)
  BY StartIs
<1>2. Len(StartOf(r, p)) = p - 1
  BY <1>1, SameLength
<1>3. p - 1 <= Len(r)
  BY <1>2, StartIs
<1>4. p \in 1..(Len(r) + 1)
  BY <1>3
<1>5. StartOf(r, p) = Before(r, p)
  BY <1>3, StartIs
<1>6. Before(r, p) \in Seq(Byte) /\ From(r, p) \in Seq(Byte)
  BY <1>4, PartsOf
<1>7. r = Before(r, p) \o From(r, p)
  BY <1>4, PartsJoin
<1> QED BY <1>5, <1>6, <1>7

EndsWith(t, w) == \E x \in Seq(Byte) : t = x \o w

\* What there is to know of a route t and a resource r when the variable n has taken v, and
\* w and r1 are left.
Steps(t, r, n, w, v, r1) ==
  /\ n \in Seq(Byte) /\ v \in Seq(Byte) /\ w \in Seq(Byte) /\ r1 \in Seq(Byte)
  /\ EndsWith(t, w) /\ EndsWith(r, r1)
  /\ Plain(t) => /\ Plain(w)
                 /\ Matches(t, r) <=> Matches(w, r1)
                 /\ Matches(t, r) =>
                      /\ RouteNames(t) = {n} \cup RouteNames(w)
                      /\ \A m, x : OwnValue(t, r, m, x) =>
                           \/ m = n /\ x = v /\ m \notin RouteNames(w)
                           \/ m # n /\ OwnValue(w, r1, m, x)

LEMMA LastOfThree ==
  ASSUME NEW s \in Seq(Byte), NEW t \in Seq(Byte), NEW u \in Seq(Byte)
  PROVE  EndsWith(s \o (t \o u), u)
<1>1. s \o t \in Seq(Byte)
  BY ConcatProperties
<1>2. s \o (t \o u) = (s \o t) \o u
  BY ConcatAssociative
<1> QED BY <1>1, <1>2 DEF EndsWith

LEMMA TakeVariable ==
  ASSUME NEW b \in Seq(Byte), Lacks(b, Open, 1), NEW n \in Seq(Byte), Lacks(n, Close, 1), NEW w \in Seq(Byte),
         NEW x \in Seq(Byte), SameText(b, x), NEW v \in Seq(Byte), Lacks(v, Slash, 1),
         NEW r \in Seq(Byte), EndsSegment(r)
  PROVE  Steps(b \o (Bracketed(n) \o w), x \o (v \o r), n, w, v, r)
<1> DEFINE c == Bracketed(n)
           e == c \o w
           y == v \o r
           t == b \o e
           z == x \o y
<1>1. c \in Seq(Byte) /\ e \in Seq(Byte) /\ e[1] = Open /\ Len(e) = (Len(n) + 2) + Len(w)
  BY BracketedIs
<1>2. y \in Seq(Byte)
  BY ConcatProperties
<1>3. e # <<>>
  <2> HIDE DEF e
  <2>1. Len(e) > 0
    BY <1>1
  <2> QED BY <2>1
<1> HIDE DEF c
<1>4. EndsWith(t, w)
  BY <1>1, LastOfThree
<1>5. EndsWith(z, r)
  BY LastOfThree
<1>6. ASSUME Plain(t)
      PROVE  /\ Plain(w) /\ Plain(e)
             /\ Lacks(n, Slash, 1)
  <2>1. Plain(e)
    <3> HIDE DEF e
    <3> QED BY <1>1, <1>6, PlainAfter
  <2>2. Plain(w)
    BY <1>1, <2>1, PlainAfter
  <2>3. Lacks(n, Slash, 1)
    BY <2>1, PlainName DEF c
  <2> QED BY <2>1, <2>2, <2>3
<1>7. ASSUME Plain(t) PROVE Matches(e, y) <=> Matches(w, r)
  BY <1>6, <1>7, MatchesVariable DEF c
<1>8. Matches(t, z) <=> Matches(e, y)
  <2> HIDE DEF e, y
  <2> QED BY <1>1, <1>2, <1>3, MatchesAfter
<1>9. RouteNames(t) = RouteNames(e)
  <2> HIDE DEF e
  <2> QED BY <1>1, <1>3, NamesAfter
<1>10. ASSUME Plain(t), Matches(t, z) PROVE RouteNames(e) = {n} \cup RouteNames(w)
  BY <1>6, <1>7, <1>8, <1>10, NamesVariables DEF c
<1>11. ASSUME Plain(t), Matches(t, z), NEW m, NEW u, OwnValue(t, z, m, u) PROVE OwnValue(e, y, m, u)
  <2> HIDE DEF e, y
  <2> QED BY <1>1, <1>2, <1>3, <1>8, <1>11, OwnValueAfter
<1>12. ASSUME Plain(t), Matches(t, z), NEW m, NEW u, OwnValue(t, z, m, u)
       PROVE  \/ m = n /\ u = v /\ m \notin RouteNames(w)
              \/ m # n /\ OwnValue(w, r, m, u)
  BY <1>6, <1>7, <1>8, <1>11, <1>12, OwnValueVariable DEF c
<1> HIDE DEF t, z, e, y
<1>13. Steps(t, z, n, w, v, r)
  BY <1>4, <1>5, <1>6, <1>7, <1>8, <1>9, <1>10, <1>12, Zenon DEF Steps
<1> QED BY <1>13 DEF t, z, e, y, c

\* A call of routeIsCompatible that finds a variable.
LEMMA VariableStep ==
  ASSUME NEW t \in Seq(Byte), NEW r \in Seq(Byte), NEW p, FirstAt(t, Open, 1, p),
         NEW q, FirstAt(From(t, p + 1), Close, 1, q), SameText(Before(t, p), StartOf(r, p))
  PROVE  Steps(t, r, Before(From(t, p + 1), q), From(From(t, p + 1), q + 1),
               Taken(From(r, p)), From(From(r, p), Len(Taken(From(r, p))) + 1))
<1> DEFINE b == Before(t, p)
           n == Before(From(t, p + 1), q)
           w == From(From(t, p + 1), q + 1)
           x == Before(r, p)
           s == From(r, p)
           v == Taken(s)
           r1 == From(s, Len(v) + 1)
<1>1. /\ t = b \o (Bracketed(n) \o w)
      /\ b \in Seq(Byte) /\ Lacks(b, Open, 1) /\ n \in Seq(Byte) /\ Lacks(n, Close, 1) /\ w \in Seq(Byte)
  BY CutRoute
<1>2. p \in 1..Len(t) /\ Len(b) = p - 1
  BY AtFirst
<1>3. r = x \o s /\ SameText(b, x) /\ x \in Seq(Byte) /\ s \in Seq(Byte)
  <2>1. p \in Nat \ {0}
    BY <1>2
  <2> HIDE DEF b
  <2> QED BY <1>1, <1>2, <2>1, CutResource DEF b
<1>4. s = v \o r1 /\ v \in Seq(Byte) /\ Lacks(v, Slash, 1) /\ r1 \in Seq(Byte) /\ EndsSegment(r1)
  <2> HIDE DEF s
  <2> QED BY <1>3, CutValue
<1> HIDE DEF b, n, w, x, s, v, r1
<1>5. Steps(b \o (Bracketed(n) \o w), x \o (v \o r1), n, w, v, r1)
  BY <1>1, <1>3, <1>4, TakeVariable
<1>6. t = b \o (Bracketed(n) \o w) /\ r = x \o (v \o r1)
  BY <1>1, <1>3, <1>4
<1>7. Steps(t, r, n, w, v, r1)
  BY <1>5, <1>6, Zenon
<1> QED BY <1>7 DEF n, w, v, r1, s

\* A call that finds another text in front of the variable, or no end of it.
LEMMA OtherStep ==
  ASSUME NEW t \in Seq(Byte), NEW r \in Seq(Byte), NEW p, FirstAt(t, Open, 1, p),
         ~SameText(Before(t, p), StartOf(r, p)) \/ Lacks(From(t, p + 1), Close, 1)
  PROVE  ~Matches(t, r)
<1> SUFFICES ASSUME Matches(t, r) PROVE FALSE
  OBVIOUS
<1> DEFINE b == Before(t, p)
           inside == From(t, p + 1)
           e == <<Open>> \o inside
<1>1. b \in Seq(Byte) /\ Lacks(b, Open, 1) /\ inside \in Seq(Byte) /\ p \in 1..Len(t) /\ Len(b) = p - 1
  BY AtFirst
<1>2. t = b \o e
  BY FirstJoin
<1>3. e \in Seq(Byte) /\ e # <<>> /\ e[1] = Open /\ Len(e) = Len(inside) + 1 /\ \A i \in 1..Len(inside) : e[i + 1] = inside[i]
  <2>1. Open \in Byte
    BY DEF Open, Byte
  <2> HIDE DEF inside
  <2>2. e \in Seq(Byte) /\ Len(e) = Len(inside) + 1 /\ e[1] = Open /\ \A i \in 1..Len(inside) : e[i + 1] = inside[i]
    BY <1>1, <2>1, PutBefore
  <2> HIDE DEF e
  <2>3. e # <<>>
    <3>1. Len(e) > 0
      BY <1>1, <2>2
    <3> QED BY <3>1
  <2> QED BY <2>2, <2>3
<1> HIDE DEF b, inside, e
<1>4. PICK m \in 0..Len(r) : SameText(b, SubSeq(r, 1, m))
  <2>1. Matches(b \o e, r)
    BY <1>2
  <2> QED BY <1>1, <1>3, <2>1, MatchesStart
<1>5. SubSeq(r, 1, m) \in Seq(Byte) /\ Len(SubSeq(r, 1, m)) = m
  BY Opening
<1>6. m = p - 1
  BY <1>1, <1>4, <1>5, SameLength
<1>7. SameText(b, StartOf(r, p))
  <2>1. p \in Nat \ {0} /\ p - 1 <= Len(r)
    BY <1>1, <1>6
  <2>2. StartOf(r, p) = Before(r, p)
    BY <2>1, StartIs
  <2> QED BY <1>4, <1>6, <2>2 DEF Before
<1>8. Lacks(inside, Close, 1)
  BY <1>7 DEF b, inside
<1>9. Lacks(e, Close, 1)
  <2> SUFFICES ASSUME NEW i \in 1..Len(e), e[i] = Close PROVE FALSE
    BY DEF Lacks
  <2>1. i # 1
    BY <1>3 DEF Open, Close
  <2>2. i - 1 \in 1..Len(inside) /\ (i - 1) + 1 = i
    BY <1>1, <1>3, <2>1
  <2>3. inside[i - 1] = Close
    BY <1>3, <2>2
  <2> QED BY <1>8, <2>2, <2>3 DEF Lacks
<1>10. r = Before(r, p) \o From(r, p) /\ SameText(b, Before(r, p)) /\ Before(r, p) \in Seq(Byte) /\ From(r, p) \in Seq(Byte)
  <2>1. p \in Nat \ {0}
    BY <1>1
  <2> QED BY <1>1, <1>7, <2>1, CutResource
<1> DEFINE x == Before(r, p)
           s == From(r, p)
<1> HIDE DEF x, s
<1>11. r = x \o s /\ SameText(b, x) /\ x \in Seq(Byte) /\ s \in Seq(Byte)
  BY <1>10 DEF x, s
<1>12. Matches(b \o e, x \o s)
  BY <1>2, <1>11
<1>13. Matches(e, s)
  BY <1>1, <1>3, <1>11, <1>12, MatchesAfter
<1> QED BY <1>3, <1>9, <1>11, <1>13, MatchesNoClose

-----------------------------------------------------------------------------
(* The url. *)

\* What split makes of the end of a text stands there.
LEMMA PiecesInText ==
  ASSUME NEW url \in Seq(Byte), NEW p \in 1..Len(url), NEW d,
         NEW n \in ToSet(split(From(url, p + 1), <<d>>)), n # <<>>
  PROVE  n \in Seq(Byte) /\ \E j \in (p + 1)..Len(url) : SubSeq(url, j, j + Len(n) - 1) = n
<1> DEFINE s == From(url, p + 1)
           q == tokens(s, d)
           m == split(s, <<d>>)
<1>1. s \in Seq(Byte) /\ Len(s) = Len(url) - p
  BY Rest
<1>2. m = IF q[Len(q)] = <<>> THEN SubSeq(q, 1, Len(q) - 1) ELSE q
  <2> HIDE DEF s
  <2> QED BY <1>1, SplitIsTokens
<1>3. q \in Seq(Seq(Byte)) /\ Len(q) \in Nat \ {0}
  <2> HIDE DEF s
  <2> QED BY <1>1, TokensAre
<1>4. ASSUME NEW i \in 1..Len(q) PROVE \E j \in 0..Len(s) : j + Len(q[i]) <= Len(s) /\ q[i] = SubSeq(s, j + 1, j + Len(q[i]))
  <2> HIDE DEF s
  <2> QED BY <1>1, TokenParts
<1>5. \E i \in DOMAIN m : n = m[i]
  BY DEF ToSet
<1> HIDE DEF m, q, s
<1>6. PICK i \in 1..Len(q) : n = q[i]
  <2>1. CASE q[Len(q)] # <<>>
    BY <1>2, <1>3, <1>5, <2>1
  <2>2. CASE q[Len(q)] = <<>>
    <3>1. m = SubSeq(q, 1, Len(q) - 1) /\ Len(q) - 1 \in 0..Len(q)
      BY <1>2, <1>3, <2>2
    <3> DEFINE S == Seq(Byte)
    <3>2. q \in Seq(S)
      BY <1>3
    <3> HIDE DEF S
    <3> DEFINE l == Len(q) - 1
    <3> HIDE DEF l
    <3>3. SubSeq(q, 1, l) \in Seq(S) /\ Len(SubSeq(q, 1, l)) = l /\ \A j \in 1..l : SubSeq(q, 1, l)[j] = q[j]
      BY <3>1, <3>2, Opening DEF l
    <3>4. m \in Seq(S) /\ Len(m) = l /\ \A j \in 1..l : m[j] = q[j]
      BY <3>1, <3>3 DEF l
    <3>5. \A j \in 1..l : j \in 1..Len(q)
      BY <1>3 DEF l
    <3>6. DOMAIN m = 1..l
      BY <3>4
    <3> QED BY <1>5, <3>4, <3>5, <3>6
  <2> QED BY <2>1, <2>2
<1>7. n \in Seq(Byte)
  BY <1>3, <1>6
<1>8. PICK j \in 0..Len(s) : j + Len(n) <= Len(s) /\ n = SubSeq(s, j + 1, j + Len(n))
  BY <1>4, <1>6
<1>9. Len(n) \in Nat \ {0}
  BY <1>7
<1>10. SubSeq(s, j + 1, j + Len(n)) = SubSeq(url, p + (j + 1), p + (j + Len(n)))
  <2>1. p \in 0..Len(url) /\ j + 1 \in 1..(Len(url) - p + 1) /\ j + Len(n) \in 0..(Len(url) - p)
    BY <1>1, <1>8, <1>9
  <2> DEFINE e == j + Len(n)
             b == j + 1
  <2>2. p \in 0..Len(url) /\ b \in 1..(Len(url) - p + 1) /\ e \in 0..(Len(url) - p)
    BY <2>1
  <2> HIDE DEF e, b
  <2>3. SubSeq(From(url, p + 1), b, e) = SubSeq(url, p + b, p + e)
    BY <2>2, PartOfRest
  <2> QED BY <2>3 DEF s, e, b
<1> DEFINE k == p + (j + 1)
<1>11. k \in (p + 1)..Len(url) /\ p + (j + Len(n)) = k + Len(n) - 1
  BY <1>1, <1>8, <1>9
<1> HIDE DEF k
<1>12. SubSeq(url, k, p + (j + Len(n))) = n
  BY <1>8, <1>10 DEF k
<1>13. SubSeq(url, k, k + Len(n) - 1) = n
  BY <1>11, <1>12
<1> QED BY <1>7, <1>11, <1>13

-----------------------------------------------------------------------------
(* Texts made of pieces: what FlattenSeq makes of a sequence of them. *)

\* f is the function that FlattenSeq builds for the first n pieces of s.
Flattens(f, s, n) == f = [i \in 1..n |-> IF i = 1 THEN s[i] ELSE f[i - 1] \o s[i]]

\* What that function is for each number.
LEMMA FlattensAt ==
  ASSUME NEW f, NEW s, NEW n, Flattens(f, s, n), NEW i \in 1..n
  PROVE  f[i] = IF i = 1 THEN s[i] ELSE f[i - 1] \o s[i]
<1> DEFINE h == [j \in 1..n |-> IF j = 1 THEN s[j] ELSE f[j - 1] \o s[j]]
<1>1. f = h
  BY DEF Flattens
<1>2. h[i] = IF i = 1 THEN s[i] ELSE f[i - 1] \o s[i]
  OBVIOUS
<1> HIDE DEF h
<1> QED BY <1>1, <1>2

\* There is such a function.
LEMMA FlattensExists ==
  ASSUME NEW s, NEW m \in Nat
  PROVE  \E f : Flattens(f, s, m)
<1> DEFINE T == {n \in Nat : \E f : Flattens(f, s, n)}
<1>1. 0 \in T
  <2>1. Flattens([i \in 1..0 |-> {}], s, 0)
    BY DEF Flattens
  <2> QED BY <2>1
<1>2. ASSUME NEW n \in T PROVE n + 1 \in T
  <2>1. PICK f : Flattens(f, s, n)
    OBVIOUS
  <2> DEFINE g == [i \in 1..n+1 |-> IF i <= n THEN f[i] ELSE IF i = 1 THEN s[i] ELSE f[n] \o s[i]]
  <2>2. ASSUME NEW i \in 1..n+1 PROVE g[i] = IF i = 1 THEN s[i] ELSE g[i - 1] \o s[i]
    <3>1. CASE i <= n
      <4>1. f[i] = IF i = 1 THEN s[i] ELSE f[i - 1] \o s[i]
        BY <2>1, <3>1, FlattensAt
      <4>2. i = 1 \/ g[i - 1] = f[i - 1]
        BY <3>1
      <4> QED BY <3>1, <4>1, <4>2
    <3>2. CASE i = n + 1
      <4>1. i = 1 \/ g[i - 1] = f[n]
        BY <3>2
      <4> QED BY <3>2, <4>1
    <3> QED BY <3>1, <3>2
  <2>3. Flattens(g, s, n + 1)
    <3> DEFINE h == [i \in 1..n+1 |-> IF i = 1 THEN s[i] ELSE g[i - 1] \o s[i]]
    <3>1. \A i \in 1..n+1 : h[i] = g[i]
      BY <2>2
    <3>2. g = h
      <4>1. DOMAIN g = 1..n+1 /\ DOMAIN h = 1..n+1 /\ g = [i \in 1..n+1 |-> g[i]] /\ h = [i \in 1..n+1 |-> h[i]]
        OBVIOUS
      <4> HIDE DEF g, h
      <4> QED BY <3>1, <4>1
    <3> HIDE DEF g
    <3> QED BY <3>2 DEF Flattens
  <2> QED BY <2>3
<1>3. m \in T
  <2> HIDE DEF T
  <2>1. T \in SUBSET Nat
    BY DEF T
  <2> QED BY <1>1, <1>2, <2>1, NumberInduction
<1> QED BY <1>3

\* It is the only one, whatever s has behind its first pieces.
LEMMA FlattensUnique ==
  ASSUME NEW s, NEW t, NEW m \in Nat, NEW n \in Nat, m <= n, \A i \in 1..m : s[i] = t[i],
         NEW f, NEW g, Flattens(f, s, m), Flattens(g, t, n), NEW k \in 1..m
  PROVE  f[k] = g[k]
<1> DEFINE T == {i \in Nat : i \in 1..m => f[i] = g[i]}
<1>1. 0 \in T
  OBVIOUS
<1>2. ASSUME NEW i \in T, i + 1 \in 1..m PROVE f[i + 1] = g[i + 1]
  <2>0. i + 1 \in 1..m /\ i + 1 \in 1..n /\ i + 1 - 1 = i
    BY <1>2
  <2>1. f[i + 1] = IF i + 1 = 1 THEN s[i + 1] ELSE f[i + 1 - 1] \o s[i + 1]
    BY <2>0, FlattensAt
  <2>2. g[i + 1] = IF i + 1 = 1 THEN t[i + 1] ELSE g[i + 1 - 1] \o t[i + 1]
    BY <2>0, FlattensAt
  <2>3. i = 0 \/ f[i] = g[i]
    BY <1>2
  <2> QED BY <1>2, <2>0, <2>1, <2>2, <2>3
<1>3. T = Nat
  <2>1. T \in SUBSET Nat /\ \A i \in T : i + 1 \in T
    BY <1>2
  <2> HIDE DEF T
  <2> QED BY <1>1, <2>1, NumberInduction
<1> QED BY <1>3

\* FlattenSeq is its last value.
LEMMA FlattenSeqIs ==
  ASSUME NEW S, NEW s \in Seq(S), Len(s) > 0, NEW f, Flattens(f, s, Len(s))
  PROVE  FlattenSeq(s) = f[Len(s)]
<1> DEFINE g == CHOOSE g : g = [i \in 1..Len(s) |-> IF i = 1 THEN s[i] ELSE g[i - 1] \o s[i]]
<1>1. FlattenSeq(s) = IF Len(s) = 0 THEN s ELSE g[Len(s)]
  BY Zenon DEF FlattenSeq
<1>2. Flattens(g, s, Len(s))
  BY Zenon DEF Flattens
<1>3. Len(s) \in Nat /\ Len(s) \in 1..Len(s) /\ Len(s) # 0 /\ Len(s) <= Len(s)
  OBVIOUS
<1> HIDE DEF g
<1> QED BY <1>1, <1>2, <1>3, FlattensUnique

LEMMA FlattenLonger ==
  ASSUME NEW S, NEW s \in Seq(S), NEW t \in Seq(S), NEW m \in Nat, NEW n \in Nat,
         m > 0, n = m + 1, Len(s) = m, Len(t) = n, \A i \in 1..m : s[i] = t[i]
  PROVE  FlattenSeq(t) = FlattenSeq(s) \o t[n]
<1>1. PICK f : Flattens(f, t, n)
  BY FlattensExists
<1>2. PICK g : Flattens(g, s, m)
  BY FlattensExists
<1>3. FlattenSeq(t) = f[n]
  BY <1>1, FlattenSeqIs
<1>4. FlattenSeq(s) = g[m]
  BY <1>2, FlattenSeqIs
<1>5. m \in 1..m /\ m <= n /\ n \in 1..n /\ n # 1 /\ n - 1 = m
  OBVIOUS
<1>6. \A k \in 1..m : g[k] = f[k]
  BY <1>1, <1>2, <1>5, FlattensUnique, SMTT(30)
<1>7. \A i \in 1..n : f[i] = IF i = 1 THEN t[i] ELSE f[i - 1] \o t[i]
  BY <1>1, FlattensAt
<1>8. f[n] = f[n - 1] \o t[n]
  BY <1>5, <1>7
<1>9. g[m] = f[m]
  BY <1>5, <1>6
<1> QED BY <1>3, <1>4, <1>5, <1>8, <1>9

LEMMA FlattenNone == FlattenSeq(<<>>) = <<>>
BY Zenon DEF FlattenSeq

LEMMA FlattenOne ==
  ASSUME NEW S, NEW x \in S
  PROVE  FlattenSeq(<<x>>) = x
<1> DEFINE s == <<x>>
<1>1. s \in Seq(S) /\ Len(s) = 1 /\ s[1] = x /\ 1 \in 1..1
  OBVIOUS
<1> HIDE DEF s
<1>2. PICK f : Flattens(f, s, 1)
  BY FlattensExists
<1>3. FlattenSeq(s) = f[1]
  <2>1. Flattens(f, s, Len(s)) /\ Len(s) > 0
    <3>1. Len(s) > 0
      BY <1>1
    <3> QED BY <1>1, <1>2, <3>1, Zenon
  <2> QED BY <1>1, <2>1, FlattenSeqIs
<1>4. f[1] = s[1]
  BY <1>1, <1>2, FlattensAt
<1> QED BY <1>1, <1>3, <1>4 DEF s

\* What is put behind the last piece.
LEMMA FlattenAppend ==
  ASSUME NEW S, NEW s \in Seq(Seq(S)), NEW x \in Seq(S)
  PROVE  FlattenSeq(Append(s, x)) = FlattenSeq(s) \o x
<1> DEFINE t == Append(s, x)
<1>1. /\ t \in Seq(Seq(S)) /\ Len(t) = Len(s) + 1 /\ Len(s) \in Nat /\ t[Len(s) + 1] = x
      /\ \A i \in 1..Len(s) : t[i] = s[i]
  <2> HIDE DEF t
  <2>1. Append(s, x) \in Seq(Seq(S)) /\ Len(Append(s, x)) = Len(s) + 1
        /\ (\A i \in 1..Len(s) : Append(s, x)[i] = s[i]) /\ Append(s, x)[Len(s) + 1] = x
    BY AppendProperties
  <2> QED BY <2>1 DEF t
<1>2. CASE s = <<>>
  <2>1. t = <<x>>
    BY <1>2
  <2>2. <<>> \o x = x
    OBVIOUS
  <2>3. FlattenSeq(<<x>>) = x
    BY FlattenOne
  <2> QED BY <1>2, <2>1, <2>2, <2>3, FlattenNone, Zenon
<1>3. CASE s # <<>>
  <2>1. Len(s) > 0
    BY <1>3
  <2> HIDE DEF t
  <2>2. FlattenSeq(t) = FlattenSeq(s) \o t[Len(s) + 1]
    <3> DEFINE m == Len(s)
               n == m + 1
    <3>1. m \in Nat /\ n \in Nat /\ m > 0 /\ n = m + 1 /\ Len(s) = m /\ Len(t) = n /\ \A i \in 1..m : s[i] = t[i]
      BY <1>1, <2>1
    <3> HIDE DEF m, n
    <3>2. FlattenSeq(t) = FlattenSeq(s) \o t[n]
      BY <1>1, <3>1, FlattenLonger
    <3> QED BY <3>2 DEF m, n
  <2> QED BY <1>1, <2>2 DEF t
<1> QED BY <1>2, <1>3

\* What is true of no pieces, and of pieces with one more behind them, is true of all.
LEMMA PieceInduction ==
  ASSUME NEW S, NEW T \in SUBSET Seq(S), <<>> \in T, \A s \in T : \A x \in S : Append(s, x) \in T
  PROVE  T = Seq(S)
<1> DEFINE N == {n \in Nat : \A s \in Seq(S) : Len(s) = n => s \in T}
<1>1. 0 \in N
  <2>1. \A s \in Seq(S) : Len(s) = 0 => s = <<>>
    OBVIOUS
  <2> QED BY <2>1
<1>2. ASSUME NEW n \in N PROVE n + 1 \in N
  <2> SUFFICES ASSUME NEW s \in Seq(S), Len(s) = n + 1 PROVE s \in T
    OBVIOUS
  <2>1. s # <<>>
    OBVIOUS
  <2> DEFINE f == SubSeq(s, 1, n)
             x == s[n + 1]
  <2>2. f \in Seq(S) /\ Len(f) = n /\ x \in S /\ \A i \in 1..n : f[i] = s[i]
    <3>1. \A i \in 1..n : s[i] \in S
      OBVIOUS
    <3>2. SubSeq(s, 1, n) \in Seq(S) /\ Len(SubSeq(s, 1, n)) = (IF 1 <= n THEN n - 1 + 1 ELSE 0)
          /\ \A i \in 1..(n - 1 + 1) : SubSeq(s, 1, n)[i] = s[1 + i - 1]
      BY <3>1, SubSeqProperties
    <3> QED BY <3>2
  <2> HIDE DEF f
  <2>3. s = Append(f, x)
    <3> HIDE DEF x
    <3>1. Append(f, x) \in Seq(S) /\ Len(Append(f, x)) = n + 1 /\ (\A i \in 1..n : Append(f, x)[i] = f[i])
          /\ Append(f, x)[n + 1] = x
      <4>1. \A i \in 1..Len(f) : Append(f, x)[i] = f[i]
        BY <2>2, AppendProperties
      <4>2. Append(f, x) \in Seq(S) /\ Len(Append(f, x)) = Len(f) + 1 /\ Append(f, x)[Len(f) + 1] = x
        BY <2>2, AppendProperties
      <4> QED BY <2>2, <4>1, <4>2
    <3>2. \A i \in 1..Len(s) : Append(f, x)[i] = s[i]
      <4> TAKE i \in 1..Len(s)
      <4>1. i \in 1..n \/ i = n + 1
        OBVIOUS
      <4>2. CASE i \in 1..n
        <5>1. Append(f, x)[i] = f[i] /\ f[i] = s[i]
          BY <2>2, <3>1, <4>2
        <5> QED BY <5>1
      <4>3. CASE i = n + 1
        BY <3>1, <4>3 DEF x
      <4> QED BY <4>1, <4>2, <4>3
    <3> QED BY <3>1, <3>2, SeqEqual
  <2>4. f \in T
    BY <2>2
  <2> HIDE DEF N, x
  <2> QED BY <2>2, <2>3, <2>4
<1>3. N = Nat
  <2>1. N \in SUBSET Nat
    OBVIOUS
  <2> HIDE DEF N
  <2> QED BY <1>1, <1>2, <2>1, NumberInduction
<1>4. ASSUME NEW s \in Seq(S) PROVE s \in T
  <2>1. Len(s) \in N
    BY <1>3
  <2> QED BY <2>1
<1> QED BY <1>4

\* The pieces of two sequences, one behind the other.
LEMMA FlattenTyped ==
  ASSUME NEW S
  PROVE  \A s \in Seq(Seq(S)) : FlattenSeq(s) \in Seq(S)
<1> DEFINE T == {s \in Seq(Seq(S)) : FlattenSeq(s) \in Seq(S)}
<1>1. <<>> \in T
  <2>1. <<>> \in Seq(Seq(S)) /\ <<>> \in Seq(S)
    OBVIOUS
  <2> QED BY <2>1, FlattenNone
<1>2. ASSUME NEW s \in T, NEW x \in Seq(S) PROVE Append(s, x) \in T
  <2>1. FlattenSeq(s) \o x \in Seq(S) /\ Append(s, x) \in Seq(Seq(S))
    OBVIOUS
  <2>2. FlattenSeq(Append(s, x)) = FlattenSeq(s) \o x
    BY FlattenAppend
  <2> QED BY <2>1, <2>2
<1>3. T = Seq(Seq(S))
  <2>1. T \in SUBSET Seq(Seq(S))
    OBVIOUS
  <2> HIDE DEF T
  <2> QED BY <1>1, <1>2, <2>1, PieceInduction
<1> QED BY <1>3

LEMMA FlattenConcat ==
  ASSUME NEW S, NEW s \in Seq(Seq(S))
  PROVE  \A t \in Seq(Seq(S)) : FlattenSeq(s \o t) = FlattenSeq(s) \o FlattenSeq(t)
<1> DEFINE T == {t \in Seq(Seq(S)) : FlattenSeq(s \o t) = FlattenSeq(s) \o FlattenSeq(t)}
<1>0. FlattenSeq(s) \in Seq(S)
  BY FlattenTyped
<1>1. <<>> \in T
  <2>1. s \o <<>> = s /\ FlattenSeq(s) \o <<>> = FlattenSeq(s) /\ <<>> \in Seq(Seq(S))
    BY <1>0
  <2> QED BY <2>1, FlattenNone
<1>2. ASSUME NEW t \in T, NEW x \in Seq(S) PROVE Append(t, x) \in T
  <2>1. t \in Seq(Seq(S)) /\ Append(t, x) \in Seq(Seq(S)) /\ s \o t \in Seq(Seq(S)) /\ s \o Append(t, x) = Append(s \o t, x)
    OBVIOUS
  <2>2. FlattenSeq(Append(t, x)) = FlattenSeq(t) \o x
    BY <2>1, FlattenAppend
  <2>3. FlattenSeq(Append(s \o t, x)) = FlattenSeq(s \o t) \o x
    BY <2>1, FlattenAppend
  <2>4. FlattenSeq(s \o t) = FlattenSeq(s) \o FlattenSeq(t)
    OBVIOUS
  <2>5. (FlattenSeq(s) \o FlattenSeq(t)) \o x = FlattenSeq(s) \o (FlattenSeq(t) \o x)
    <3>1. FlattenSeq(t) \in Seq(S)
      BY <2>1, FlattenTyped
    <3> QED BY <1>0, <3>1, ConcatAssociative, SMTT(60)
  <2>6. FlattenSeq(s \o Append(t, x)) = FlattenSeq(s) \o FlattenSeq(Append(t, x))
    BY <2>1, <2>2, <2>3, <2>4, <2>5, Zenon
  <2> QED BY <2>1, <2>6
<1>3. T = Seq(Seq(S))
  <2>1. T \in SUBSET Seq(Seq(S))
    OBVIOUS
  <2> HIDE DEF T
  <2> QED BY <1>1, <1>2, <2>1, PieceInduction
<1> QED BY <1>3

LEMMA FlattenFirst ==
  ASSUME NEW S, NEW x \in Seq(S), NEW s \in Seq(Seq(S))
  PROVE  FlattenSeq(<<x>> \o s) = x \o FlattenSeq(s)
<1>1. <<x>> \in Seq(Seq(S))
  OBVIOUS
<1>2. FlattenSeq(<<x>> \o s) = FlattenSeq(<<x>>) \o FlattenSeq(s)
  BY <1>1, FlattenConcat
<1>3. FlattenSeq(<<x>>) = x
  BY FlattenOne
<1> QED BY <1>2, <1>3

\* With the separator behind every piece but the last.
Ended(q, c) == [i \in DOMAIN q |-> IF i < Len(q) THEN Append(q[i], c) ELSE q[i]]

LEMMA EndedIs ==
  ASSUME NEW S, NEW q \in Seq(Seq(S)), NEW c \in S
  PROVE  /\ Rejoined(q, c) = FlattenSeq(Ended(q, c))
         /\ Ended(q, c) \in Seq(Seq(S)) /\ Len(Ended(q, c)) = Len(q)
         /\ \A i \in 1..Len(q) : Ended(q, c)[i] = IF i < Len(q) THEN Append(q[i], c) ELSE q[i]
<1>1. Rejoined(q, c) = FlattenSeq(Ended(q, c))
  BY Zenon DEF Rejoined, Ended
<1>2. DOMAIN q = 1..Len(q) /\ Len(q) \in Nat
  OBVIOUS
<1>3. \A i \in 1..Len(q) : (IF i < Len(q) THEN Append(q[i], c) ELSE q[i]) \in Seq(S)
  <2>1. \A x \in Seq(S) : Append(x, c) \in Seq(S)
    OBVIOUS
  <2> QED BY <2>1
<1>4. Ended(q, c) \in [1..Len(q) -> Seq(S)]
  BY <1>2, <1>3 DEF Ended
<1>5. Ended(q, c) \in Seq(Seq(S)) /\ Len(Ended(q, c)) = Len(q)
  BY <1>2, <1>4
<1> QED BY <1>1, <1>2, <1>5 DEF Ended

LEMMA RejoinedTyped ==
  ASSUME NEW S, NEW q \in Seq(Seq(S)), NEW c \in S
  PROVE  Rejoined(q, c) \in Seq(S)
BY EndedIs, FlattenTyped

LEMMA RejoinedNone ==
  ASSUME NEW c
  PROVE  Rejoined(<<>>, c) = <<>>
<1>1. Ended(<<>>, c) = <<>>
  BY DEF Ended
<1>2. Rejoined(<<>>, c) = FlattenSeq(Ended(<<>>, c))
  BY Zenon DEF Rejoined, Ended
<1> QED BY <1>1, <1>2, FlattenNone

\* One piece is itself.
LEMMA RejoinedOne ==
  ASSUME NEW S, NEW x \in Seq(S), NEW c
  PROVE  Rejoined(<<x>>, c) = x
<1>1. Ended(<<x>>, c) = <<x>>
  <2>1. DOMAIN <<x>> = {1} /\ Len(<<x>>) = 1 /\ <<x>>[1] = x
    OBVIOUS
  <2>2. Ended(<<x>>, c) = [i \in {1} |-> x]
    BY <2>1 DEF Ended
  <2>3. [i \in {1} |-> x] = <<x>>
    OBVIOUS
  <2> QED BY <2>2, <2>3
<1>2. Rejoined(<<x>>, c) = FlattenSeq(Ended(<<x>>, c))
  BY Zenon DEF Rejoined, Ended
<1>3. FlattenSeq(<<x>>) = x
  BY FlattenOne
<1> QED BY <1>1, <1>2, <1>3

\* A first piece before others has the separator behind it.
JoinsFirst(x, q, c) == Rejoined(<<x>> \o q, c) = Append(x, c) \o Rejoined(q, c)

LEMMA RejoinedFirst ==
  ASSUME NEW S, NEW x \in Seq(S), NEW q \in Seq(Seq(S)), q # <<>>, NEW c \in S
  PROVE  JoinsFirst(x, q, c)
<1> DEFINE p == <<x>> \o q
           y == Append(x, c)
           e == Ended(q, c)
           r == <<y>> \o e
<1>1. /\ p \in Seq(Seq(S)) /\ Len(p) = Len(q) + 1 /\ p[1] = x
      /\ \A i \in 1..Len(q) : p[i + 1] = q[i]
  BY PutBefore
<1>2. y \in Seq(S) /\ Len(q) \in Nat /\ Len(q) > 0
  OBVIOUS
<1>3. /\ Rejoined(q, c) = FlattenSeq(e) /\ e \in Seq(Seq(S)) /\ Len(e) = Len(q)
      /\ \A i \in 1..Len(q) : e[i] = IF i < Len(q) THEN Append(q[i], c) ELSE q[i]
  BY EndedIs
<1> HIDE DEF p, e
<1>4. /\ Rejoined(p, c) = FlattenSeq(Ended(p, c))
      /\ Ended(p, c) \in Seq(Seq(S)) /\ Len(Ended(p, c)) = Len(p)
      /\ \A i \in 1..Len(p) : Ended(p, c)[i] = IF i < Len(p) THEN Append(p[i], c) ELSE p[i]
  BY <1>1, EndedIs
<1> HIDE DEF y
<1>5. /\ r \in Seq(Seq(S)) /\ Len(r) = Len(e) + 1 /\ r[1] = y
      /\ \A i \in 1..Len(e) : r[i + 1] = e[i]
  BY <1>2, <1>3, PutBefore
<1> HIDE DEF r
<1>6. \A i \in 1..Len(p) : Ended(p, c)[i] = r[i]
  <2> TAKE i \in 1..Len(p)
  <2>1. CASE i = 1
    <3>1. 1 < Len(p) /\ 1 \in 1..Len(p)
      BY <1>1, <1>2
    <3>2. Ended(p, c)[1] = Append(x, c)
      BY <1>1, <1>4, <3>1
    <3> QED BY <1>5, <2>1, <3>2 DEF y
  <2>2. CASE i # 1
    <3>1. i - 1 \in 1..Len(q) /\ (i - 1) + 1 = i /\ (i < Len(p) <=> i - 1 < Len(q))
      BY <1>1, <1>2, <2>2
    <3>2. p[i] = q[i - 1] /\ r[i] = e[i - 1]
      BY <1>1, <1>3, <1>5, <3>1
    <3>3. e[i - 1] = IF i - 1 < Len(q) THEN Append(q[i - 1], c) ELSE q[i - 1]
      BY <1>3, <3>1
    <3>4. Ended(p, c)[i] = IF i < Len(p) THEN Append(p[i], c) ELSE p[i]
      BY <1>4
    <3> QED BY <3>1, <3>2, <3>3, <3>4
  <2> QED BY <2>1, <2>2
<1>7. Ended(p, c) = r
  <2>1. Len(Ended(p, c)) = Len(r)
    BY <1>1, <1>3, <1>4, <1>5
  <2> QED BY <1>4, <1>5, <1>6, <2>1, SeqEqual
<1>8. FlattenSeq(r) = y \o FlattenSeq(e)
  BY <1>2, <1>3, FlattenFirst DEF r
<1> QED BY <1>3, <1>4, <1>7, <1>8 DEF p, y, JoinsFirst

\* A character between two texts is behind the first or before the second.
LEMMA Between ==
  ASSUME NEW S, NEW x \in Seq(S), NEW c \in S, NEW r \in Seq(S)
  PROVE  x \o (<<c>> \o r) = Append(x, c) \o r
<1>1. <<c>> \in Seq(S) /\ Append(x, c) = x \o <<c>>
  BY AppendIsConcat
<1>2. (x \o <<c>>) \o r = x \o (<<c>> \o r)
  BY <1>1, ConcatAssociative
<1> QED BY <1>1, <1>2

\* SysLink::split loses nothing: its tokens make the text again.
THEOREM TokensMakeTheText ==
  ASSUME NEW S, NEW text \in Seq(S), NEW c
  PROVE  TokensJoin(text, c)
<1> DEFINE Is(s) == Rejoined(tokens(s, c), c) = s
           T == {s \in Seq(S) : Is(s)}
<1>1. ASSUME NEW s \in Seq(S), Lacks(s, c, 1) PROVE s \in T
  <2>1. tokens(s, c) = <<s>>
    BY <1>1, OneToken
  <2>2. Rejoined(<<s>>, c) = s
    BY RejoinedOne
  <2> QED BY <2>1, <2>2
<1>2. ASSUME NEW s \in Seq(S), NEW p \in 1..Len(s), FirstAt(s, c, 1, p), From(s, p + 1) \in T PROVE s \in T
  <2> DEFINE r == From(s, p + 1)
             b == Before(s, p)
             q == tokens(r, c)
  <2>1. Is(r)
    BY <1>2
  <2>2. c \in S /\ b \in Seq(S) /\ r \in Seq(S) /\ q \in Seq(Seq(S)) /\ Len(q) \in Nat \ {0}
    BY <1>2, AtFirst
  <2>3. tokens(s, c) = <<b>> \o q
    BY <1>2, FirstToken
  <2>4. s = b \o (<<c>> \o r)
    BY <1>2, FirstJoin
  <2> HIDE DEF T, b, q
  <2>5. q # <<>>
    BY <2>2
  <2>6. Rejoined(<<b>> \o q, c) = Append(b, c) \o Rejoined(q, c)
    <3> HIDE DEF r
    <3>1. c \in S /\ b \in Seq(S) /\ q \in Seq(Seq(S))
      BY <2>2
    <3>2. JoinsFirst(b, q, c)
      BY <2>5, <3>1, RejoinedFirst
    <3> QED BY <3>2 DEF JoinsFirst
  <2>7. Rejoined(q, c) = r
    BY <2>1 DEF q
  <2> HIDE DEF r
  <2>8. b \o (<<c>> \o r) = Append(b, c) \o r
    BY <2>2, Between, SMTT(60)
  <2>9. Is(s)
    BY <2>3, <2>4, <2>6, <2>7, <2>8
  <2> QED BY <2>9 DEF T
<1>3. T = Seq(S)
  <2>1. T \in SUBSET Seq(S)
    OBVIOUS
  <2> HIDE DEF T
  <2> QED BY <1>1, <1>2, <2>1, TokenInduction
<1>4. Is(text)
  BY <1>3
<1> QED BY <1>4 DEF TokensJoin

\* What the pieces of split are, if they are not in the way of an induction.
PiecesOf(s, p, c) ==
  /\ \A i \in 1..Len(p) : Lacks(p[i], c, 1)
  /\ p = <<>> => s = <<>>
  /\ s = Rejoined(p, c) \/ s = Append(Rejoined(p, c), c)

LEMMA PiecesOfNone ==
  ASSUME NEW c
  PROVE  PiecesOf(<<>>, <<>>, c)
BY RejoinedNone DEF PiecesOf

LEMMA PiecesOfOne ==
  ASSUME NEW S, NEW s \in Seq(S), NEW c, Lacks(s, c, 1)
  PROVE  PiecesOf(s, <<s>>, c)
<1>1. Rejoined(<<s>>, c) = s
  BY RejoinedOne
<1>2. Len(<<s>>) = 1 /\ <<s>>[1] = s /\ <<s>> # <<>>
  OBVIOUS
<1> QED BY <1>1, <1>2 DEF PiecesOf

LEMMA PiecesOfMore ==
  ASSUME NEW S, NEW b \in Seq(S), NEW c \in S, NEW r \in Seq(S), NEW p \in Seq(Seq(S)),
         Lacks(b, c, 1), PiecesOf(r, p, c)
  PROVE  PiecesOf(Append(b, c) \o r, <<b>> \o p, c)
<1> DEFINE q == <<b>> \o p
           s == Append(b, c) \o r
<1>1. /\ q \in Seq(Seq(S)) /\ Len(q) = Len(p) + 1 /\ q[1] = b
      /\ \A i \in 1..Len(p) : q[i + 1] = p[i]
  BY PutBefore
<1>2. Append(b, c) \in Seq(S) /\ Len(p) \in Nat
  OBVIOUS
<1>3. q # <<>>
  <2> HIDE DEF q
  <2> QED BY <1>1, <1>2
<1>4. \A i \in 1..Len(q) : Lacks(q[i], c, 1)
  <2> HIDE DEF q
  <2> TAKE i \in 1..Len(q)
  <2>1. CASE i = 1
    BY <1>1, <2>1
  <2>2. CASE i # 1
    <3>1. i - 1 \in 1..Len(p) /\ (i - 1) + 1 = i
      BY <1>1, <1>2, <2>2
    <3>2. q[i] = p[i - 1]
      BY <1>1, <3>1
    <3> QED BY <3>1, <3>2 DEF PiecesOf
  <2> QED BY <2>1, <2>2
<1>5. s = Rejoined(q, c) \/ s = Append(Rejoined(q, c), c)
  <2>1. CASE p = <<>>
    <3>1. r = <<>>
      BY <2>1 DEF PiecesOf
    <3>2. q = <<b>> /\ s = Append(b, c)
      BY <1>2, <2>1, <3>1
    <3>3. Rejoined(<<b>>, c) = b
      BY RejoinedOne
    <3> HIDE DEF q, s
    <3> QED BY <3>2, <3>3
  <2>2. CASE p # <<>>
    <3> DEFINE j == Rejoined(p, c)
    <3>1. j \in Seq(S)
      BY RejoinedTyped
    <3>2. JoinsFirst(b, p, c)
      BY <2>2, RejoinedFirst
    <3>3. Rejoined(q, c) = Append(b, c) \o j
      BY <3>2 DEF JoinsFirst
    <3> HIDE DEF j, q
    <3>4. Append(b, c) \o Append(j, c) = Append(Append(b, c) \o j, c)
      BY <1>2, <3>1
    <3>5. r = j \/ r = Append(j, c)
      BY DEF PiecesOf, j
    <3> QED BY <3>3, <3>4, <3>5
  <2> QED BY <2>1, <2>2
<1> HIDE DEF q, s
<1>6. PiecesOf(s, q, c)
  BY <1>3, <1>4, <1>5 DEF PiecesOf
<1> QED BY <1>6 DEF q, s

LEMMA SplitIs ==
  ASSUME NEW S, NEW text \in Seq(S), NEW c
  PROVE  split(text, <<c>>) \in Seq(Seq(S)) /\ PiecesOf(text, split(text, <<c>>), c)
<1> DEFINE Is(s) == split(s, <<c>>) \in Seq(Seq(S)) /\ PiecesOf(s, split(s, <<c>>), c)
           T == {s \in Seq(S) : Is(s)}
<1>1. ASSUME NEW s \in Seq(S), Lacks(s, c, 1) PROVE s \in T
  <2>1. split(s, <<c>>) = SplitRest(s)
    BY <1>1, OnePiece
  <2>2. CASE s = <<>>
    <3>1. SplitRest(s) = <<>> /\ <<>> \in Seq(Seq(S))
      BY <2>2 DEF SplitRest
    <3>2. Is(s)
      BY <2>1, <2>2, <3>1, PiecesOfNone, Zenon
    <3> QED BY <3>2
  <2>3. CASE s # <<>>
    <3>1. SplitRest(s) = <<s>> /\ <<s>> \in Seq(Seq(S))
      BY <2>3 DEF SplitRest
    <3>2. PiecesOf(s, <<s>>, c)
      BY <1>1, PiecesOfOne
    <3>3. Is(s)
      BY <2>1, <3>1, <3>2, Zenon
    <3> QED BY <3>3
  <2> QED BY <2>2, <2>3
<1>2. ASSUME NEW s \in Seq(S), NEW p \in 1..Len(s), FirstAt(s, c, 1, p), From(s, p + 1) \in T PROVE s \in T
  <2> DEFINE r == From(s, p + 1)
             b == Before(s, p)
             q == split(r, <<c>>)
  <2>1. Is(r)
    BY <1>2
  <2>2. c \in S /\ b \in Seq(S) /\ r \in Seq(S) /\ Lacks(b, c, 1)
    BY <1>2, AtFirst
  <2>3. split(s, <<c>>) = <<b>> \o q
    BY <1>2, FirstPiece
  <2>4. s = b \o (<<c>> \o r)
    BY <1>2, FirstJoin
  <2>5. q \in Seq(Seq(S)) /\ PiecesOf(r, q, c)
    BY <2>1
  <2> HIDE DEF T, b, q, r
  <2>6. PiecesOf(Append(b, c) \o r, <<b>> \o q, c)
    BY <2>2, <2>5, PiecesOfMore
  <2>7. b \o (<<c>> \o r) = Append(b, c) \o r
    BY <2>2, Between
  <2>8. <<b>> \o q \in Seq(Seq(S))
    BY <2>2, <2>5, PutBefore
  <2>9. Is(s)
    BY <2>3, <2>4, <2>6, <2>7, <2>8, Zenon
  <2> QED BY <2>9 DEF T
<1>3. T = Seq(S)
  <2>1. T \in SUBSET Seq(S)
    OBVIOUS
  <2> HIDE DEF T
  <2> QED BY <1>1, <1>2, <2>1, TokenInduction
<1>4. Is(text)
  BY <1>3
<1> QED BY <1>4

\* StringUtils::split with a separator of one character loses nothing but a separator at the end.
THEOREM PiecesMakeTheText ==
  ASSUME NEW S, NEW text \in Seq(S), NEW c
  PROVE  SplitLosesNothing(text, c)
<1> DEFINE p == split(text, <<c>>)
<1>1. p \in Seq(Seq(S)) /\ PiecesOf(text, p, c)
  BY SplitIs
<1> HIDE DEF p
<1>2. ASSUME NEW i \in DOMAIN p PROVE ~Contains(p[i], c)
  <2>1. i \in 1..Len(p) /\ p[i] \in Seq(S)
    BY <1>1
  <2>2. Lacks(p[i], c, 1)
    BY <1>1, <2>1 DEF PiecesOf
  <2> QED BY <2>1, <2>2 DEF Lacks, Contains
<1>3. text \in {Rejoined(p, c), Append(Rejoined(p, c), c)}
  BY <1>1 DEF PiecesOf
<1> QED BY <1>2, <1>3 DEF SplitLosesNothing, p

-----------------------------------------------------------------------------
(* Ends of a text, and of a path. *)

\* A set of numbers up to n has a greatest one.
LEMMA MaxIs ==
  ASSUME NEW n \in Nat, NEW T \in SUBSET (0..n), T # {}
  PROVE  Max(T) \in T /\ \A k \in T : k <= Max(T)
<1> DEFINE D == {k \in 0..n : n - k \in T}
<1>1. D \in SUBSET Nat /\ D # {}
  <2>1. PICK k \in T : TRUE
    OBVIOUS
  <2>2. n - k \in 0..n /\ n - (n - k) = k
    BY <2>1
  <2>3. n - k \in D
    BY <2>1, <2>2
  <2>4. D \in SUBSET Nat
    OBVIOUS
  <2> HIDE DEF D
  <2> QED BY <2>3, <2>4
<1>2. PICK d \in D : \A k \in D : d <= k
  <2> HIDE DEF D
  <2> QED BY <1>1, SmallestNumber
<1>3. n - d \in T /\ \A k \in T : k <= n - d
  <2>1. n - d \in T /\ d \in 0..n
    OBVIOUS
  <2>2. ASSUME NEW k \in T PROVE k <= n - d
    <3>1. n - k \in 0..n /\ n - (n - k) = k
      OBVIOUS
    <3>2. n - k \in D
      BY <3>1
    <3>3. d <= n - k
      BY <1>2, <3>2
    <3> QED BY <2>1, <3>1, <3>3
  <2> QED BY <2>1, <2>2
<1>4. \E x \in T : \A y \in T : x >= y
  <2>1. \A y \in T : n - d >= y
    BY <1>2, <1>3
  <2> QED BY <1>3, <2>1
<1>5. Max(T) \in T /\ \A y \in T : Max(T) >= y
  BY <1>4 DEF Max
<1> QED BY <1>5

\* What trim leaves of a text that is not all spaces: from the first character that is none to the last.
LEMMA TrimIs ==
  ASSUME NEW S, NEW s \in Seq(S), Inked(s) # {}
  PROVE  \E m, n \in 1..Len(s) :
           /\ m <= n /\ m \in Inked(s) /\ n \in Inked(s) /\ \A j \in Inked(s) : m <= j /\ j <= n
           /\ trim(s) = SubSeq(s, m, n)
<1> DEFINE n == Max(Inked(s))
           m == Min(Inked(s))
           u == SubSeq(s, 1, n)
<1>1. Inked(s) \in SUBSET (0..Len(s)) /\ Inked(s) \in SUBSET Nat /\ Len(s) \in Nat /\ Inked(s) \subseteq 1..Len(s)
  BY DEF Inked
<1>2. n \in Inked(s) /\ \A j \in Inked(s) : j <= n
  <2> HIDE DEF m, n, u
  <2>1. Max(Inked(s)) \in Inked(s) /\ \A j \in Inked(s) : j <= Max(Inked(s))
    BY <1>1, MaxIs
  <2> QED BY <2>1 DEF n
<1>3. m \in Inked(s) /\ \A j \in Inked(s) : m <= j
  <2>1. Min(Inked(s)) \in Inked(s) /\ \A j \in Inked(s) : Min(Inked(s)) <= j
    BY <1>1, MinIs
  <2> QED BY <2>1
<1> HIDE DEF m, n
<1>4. n \in 1..Len(s) /\ m \in 1..Len(s) /\ m <= n
  BY <1>1, <1>2, <1>3
<1>5. u \in Seq(S) /\ Len(u) = n /\ \A j \in 1..n : u[j] = s[j]
  <2>1. \A j \in 1..n : s[j] \in S
    BY <1>4
  <2>2. /\ SubSeq(s, 1, n) \in Seq(S) /\ Len(SubSeq(s, 1, n)) = IF 1 <= n THEN n - 1 + 1 ELSE 0
        /\ \A j \in 1..(n - 1 + 1) : SubSeq(s, 1, n)[j] = s[1 + j - 1]
    BY <1>4, <2>1, SubSeqProperties
  <2> HIDE DEF u
  <2>3. n - 1 + 1 = n /\ \A j \in 1..n : 1 + j - 1 = j
    BY <1>4
  <2> QED BY <1>4, <2>2, <2>3 DEF u
<1>6. rtrim(s) = u
  BY Zenon DEF rtrim, n
<1> HIDE DEF u
<1>7. Inked(u) = Inked(s)
  <2>1. \A j \in Inked(u) : j \in Inked(s)
    BY <1>4, <1>5 DEF Inked
  <2>2. \A j \in Inked(s) : j \in Inked(u)
    BY <1>1, <1>2, <1>4, <1>5 DEF Inked
  <2> QED BY <2>1, <2>2
<1>8. ltrim(u) = From(u, m)
  <2>1. Inked(u) # {} /\ Min(Inked(u)) = m
    BY <1>7 DEF m
  <2> QED BY <2>1 DEF ltrim
<1>9. From(u, m) = SubSeq(s, m, n)
  <2> DEFINE a == SubSeq(u, m, n)
             b == SubSeq(s, m, n)
             k == n - m + 1
  <2>1. k \in Nat /\ \A j \in 1..k : m + j - 1 \in 1..n
    BY <1>4
  <2>2. /\ a \in Seq(S) /\ Len(a) = IF m <= n THEN n - m + 1 ELSE 0
        /\ \A j \in 1..(n - m + 1) : a[j] = u[m + j - 1]
    <3>1. \A j \in m..n : u[j] \in S
      BY <1>4, <1>5
    <3> QED BY <1>4, <3>1, SubSeqProperties
  <2>3. /\ b \in Seq(S) /\ Len(b) = IF m <= n THEN n - m + 1 ELSE 0
        /\ \A j \in 1..(n - m + 1) : b[j] = s[m + j - 1]
    <3>1. \A j \in m..n : s[j] \in S
      BY <1>4
    <3> QED BY <1>4, <3>1, SubSeqProperties
  <2> HIDE DEF a, b
  <2>4. \A j \in 1..k : a[j] = b[j]
    BY <1>5, <2>1, <2>2, <2>3
  <2>5. Len(a) = k /\ Len(b) = k
    BY <1>4, <2>2, <2>3
  <2> HIDE DEF k
  <2>6. a = b
    BY <2>2, <2>3, <2>4, <2>5, SeqEqual
  <2> QED BY <1>5, <2>6 DEF From, a, b
<1>10. trim(s) = SubSeq(s, m, n)
  BY <1>6, <1>8, <1>9 DEF trim
<1> QED BY <1>2, <1>3, <1>4, <1>10

\* trim takes the spaces at both ends and nothing else.
THEOREM TrimsBothEnds ==
  ASSUME NEW S, NEW text \in Seq(S)
  PROVE  TrimIsExact(text)
<1> DEFINE t == trim(text)
<1>1. CASE Inked(text) = {}
  <2>1. rtrim(text) = <<>>
    BY <1>1 DEF rtrim
  <2>2. Inked(<<>>) = {}
    BY DEF Inked
  <2>3. ltrim(<<>>) = <<>>
    BY <2>2 DEF ltrim
  <2>4. t = <<>>
    BY <2>1, <2>3 DEF trim
  <2> QED BY <1>1, <2>4 DEF TrimIsExact
<1>2. CASE Inked(text) # {}
  <2>1. PICK m \in 1..Len(text), n \in 1..Len(text) :
           /\ m <= n /\ m \in Inked(text) /\ n \in Inked(text) /\ \A j \in Inked(text) : m <= j /\ j <= n
           /\ trim(text) = SubSeq(text, m, n)
    BY <1>2, TrimIs
  <2> DEFINE i == m - 1
  <2>2. Len(t) = n - m + 1 /\ t[1] = text[m] /\ t[Len(t)] = text[n]
    <3>1. \A j \in m..n : text[j] \in S
      OBVIOUS
    <3>2. /\ Len(SubSeq(text, m, n)) = IF m <= n THEN n - m + 1 ELSE 0
          /\ \A j \in 1..(n - m + 1) : SubSeq(text, m, n)[j] = text[m + j - 1]
      BY <3>1, SubSeqProperties
    <3>3. 1 \in 1..(n - m + 1) /\ n - m + 1 \in 1..(n - m + 1) /\ m + 1 - 1 = m /\ m + (n - m + 1) - 1 = n
      BY <2>1
    <3> HIDE DEF t
    <3>4. t[1] = text[m + 1 - 1] /\ t[n - m + 1] = text[m + (n - m + 1) - 1]
      BY <2>1, <3>2, <3>3 DEF t
    <3>5. Len(t) = n - m + 1
      BY <2>1, <3>2 DEF t
    <3> QED BY <3>3, <3>4, <3>5
  <2> HIDE DEF t
  <2>3. t # <<>> /\ ~IsSpace(t[1]) /\ ~IsSpace(t[Len(t)])
    <3>1. ~IsSpace(text[m]) /\ ~IsSpace(text[n])
      BY <2>1 DEF Inked
    <3>2. Len(t) # 0
      BY <2>1, <2>2
    <3> QED BY <2>2, <3>1, <3>2
  <2>4. i \in 0..Len(text) /\ i + 1 = m /\ i + Len(t) = n
    BY <2>1, <2>2
  <2>5. SubSeq(text, i + 1, i + Len(t)) = t
    BY <2>1, <2>4 DEF t
  <2>6. \A j \in 1..Len(text) : j \notin (i + 1)..(i + Len(t)) => IsSpace(text[j])
    <3> HIDE DEF i
    <3> TAKE j \in 1..Len(text)
    <3>1. j \in Inked(text) => j \in m..n
      BY <2>1
    <3>2. j \in DOMAIN text
      OBVIOUS
    <3> QED BY <2>4, <3>1, <3>2 DEF Inked
  <2> HIDE DEF i
  <2> QED BY <1>2, <2>3, <2>4, <2>5, <2>6 DEF TrimIsExact, t
<1> QED BY <1>1, <1>2

\* The directory and the name of a file make its path again.
THEOREM PathsReturn ==
  ASSUME NEW S, NEW text \in Seq(S)
  PROVE  PathReturns(text)
<1> DEFINE at == {i \in DOMAIN text : text[i] = Slash}
           p == LastSlash(text)
<1>1. p \in {0} \cup at /\ \A k \in {0} \cup at : k <= p
  <2> DEFINE T == {0} \cup at
  <2>1. T \in SUBSET (0..Len(text)) /\ T # {} /\ Len(text) \in Nat
    OBVIOUS
  <2>2. Max(T) \in T /\ \A k \in T : k <= Max(T)
    <3> HIDE DEF T
    <3> QED BY <2>1, MaxIs
  <2> QED BY <2>2 DEF LastSlash
<1> HIDE DEF p
<1>2. CASE Contains(text, Slash)
  <2>1. PICK k \in 1..Len(text) : text[k] = Slash
    BY <1>2 DEF Contains
  <2>2. p \in 1..Len(text) /\ text[p] = Slash /\ p # 0
    <3>1. k \in at
      BY <2>1
    <3>2. k <= p /\ k # 0
      BY <1>1, <3>1
    <3> QED BY <1>1, <3>2
  <2> DEFINE d == Before(text, p)
             f == From(text, p + 1)
  <2>3. text = d \o (<<Slash>> \o f)
    BY <2>2, JoinAt DEF HasAt
  <2>4. d \in Seq(S) /\ f \in Seq(S) /\ <<Slash>> \in Seq(S)
    <3>1. p \in 0..Len(text) /\ p \in 1..(Len(text) + 1) /\ Slash \in S
      BY <2>2
    <3> QED BY <3>1, Rest, PartsOf
  <2>5. getDirectoryName(text) = d /\ getFileName(text) = f
    BY <2>2 DEF getDirectoryName, getFileName, p
  <2> HIDE DEF d, f
  <2>6. (d \o <<Slash>>) \o f = text
    BY <2>3, <2>4, ConcatAssociative
  <2> QED BY <1>2, <2>5, <2>6 DEF PathReturns
<1>3. CASE ~Contains(text, Slash)
  <2>1. at = {}
    BY <1>3 DEF Contains
  <2>2. p = 0
    BY <1>1, <2>1
  <2>3. getFileName(text) = text /\ getDirectoryName(text) = <<>>
    <3>1. From(text, 1) = text
      BY SubSeqFull DEF From
    <3> QED BY <2>2, <3>1 DEF getFileName, getDirectoryName, p
  <2> QED BY <1>3, <2>3 DEF PathReturns
<1> QED BY <1>2, <1>3

-----------------------------------------------------------------------------
(* Lines of a listing. *)

\* What is true of no pieces, and of pieces with one more before them, is true of all.
LEMMA FrontInduction ==
  ASSUME NEW S, NEW T \in SUBSET Seq(S), <<>> \in T, \A s \in T : \A x \in S : <<x>> \o s \in T
  PROVE  T = Seq(S)
<1> DEFINE N == {n \in Nat : \A s \in Seq(S) : Len(s) = n => s \in T}
<1>1. 0 \in N
  <2>1. \A s \in Seq(S) : Len(s) = 0 => s = <<>>
    OBVIOUS
  <2> QED BY <2>1
<1>2. ASSUME NEW n \in N PROVE n + 1 \in N
  <2> SUFFICES ASSUME NEW s \in Seq(S), Len(s) = n + 1 PROVE s \in T
    OBVIOUS
  <2> DEFINE x == s[1]
             r == From(s, 1 + 1)
  <2>1. 1 \in 1..Len(s) /\ 1 \in 0..Len(s) /\ x \in S /\ HasAt(s, x, 1)
    BY DEF HasAt
  <2>2. r \in Seq(S) /\ Len(r) = n
    <3>1. r \in Seq(S) /\ Len(r) = Len(s) - 1
      BY <2>1, Rest
    <3> QED BY <3>1
  <2> HIDE DEF x, r
  <2>3. s = Before(s, 1) \o (<<x>> \o r)
    BY <2>1, JoinAt DEF r
  <2>4. Before(s, 1) = <<>>
    BY DEF Before
  <2>5. s = <<x>> \o r
    <3>1. <<x>> \o r \in Seq(S)
      BY <2>1, <2>2
    <3>2. <<>> \o (<<x>> \o r) = <<x>> \o r
      BY <3>1, ConcatEmptySeq
    <3> QED BY <2>3, <2>4, <3>2, Zenon
  <2>6. r \in T
    BY <2>2
  <2> HIDE DEF N
  <2> QED BY <2>1, <2>5, <2>6
<1>3. N = Nat
  <2>1. N \in SUBSET Nat
    OBVIOUS
  <2> HIDE DEF N
  <2> QED BY <1>1, <1>2, <2>1, NumberInduction
<1>4. ASSUME NEW s \in Seq(S) PROVE s \in T
  <2>1. Len(s) \in N
    BY <1>3
  <2> QED BY <2>1
<1> QED BY <1>4

\* A text that ends with its only separator is a token.
LEMMA EndedToken ==
  ASSUME NEW S, NEW x \in Seq(S), NEW c \in S, NEW r \in Seq(S), Lacks(x, c, 1)
  PROVE  tokens(x \o (<<c>> \o r), c) = <<x>> \o tokens(r, c)
<1> DEFINE y == <<c>> \o r
           n == Len(x)
           xy == x \o y
<1>1. y \in Seq(S) /\ Len(y) = Len(r) + 1 /\ y[1] = c /\ \A i \in 1..Len(r) : y[i + 1] = r[i]
  BY PutBefore
<1>2. n \in Nat /\ Len(r) \in Nat
  OBVIOUS
<1> HIDE DEF y
<1>3. FirstAt(y, c, 1, 1)
  BY <1>1, <1>2 DEF FirstAt
<1>4. FirstAt(xy, c, 1, n + 1)
  BY <1>1, <1>3, FirstOfTwo
<1>5. Before(xy, n + 1) = x
  <2>1. 1 \in 1..(Len(y) + 1)
    BY <1>1, <1>2
  <2>2. Before(xy, n + 1) = x \o Before(y, 1)
    BY <1>1, <2>1, PartsOfSecond
  <2>3. Before(y, 1) = <<>> /\ x \o <<>> = x
    BY DEF Before
  <2> QED BY <2>2, <2>3
<1>6. From(xy, (n + 1) + 1) = r
  <2>1. 2 \in 1..(Len(y) + 1) /\ (n + 1) + 1 = n + 2
    BY <1>1, <1>2
  <2>2. From(xy, n + 2) = From(y, 2)
    BY <1>1, <2>1, PartsOfSecond
  <2>3. From(y, 2) = r
    <3>1. 1 \in 0..Len(y) /\ Len(y) - 1 = Len(r) /\ \A k \in 1..Len(r) : 1 + k = k + 1
      BY <1>1, <1>2
    <3>2. /\ From(y, 1 + 1) \in Seq(S) /\ Len(From(y, 1 + 1)) = Len(y) - 1
          /\ \A k \in 1..(Len(y) - 1) : From(y, 1 + 1)[k] = y[1 + k]
      BY <1>1, <3>1, Rest
    <3>3. From(y, 1 + 1) = r
      BY <1>1, <3>1, <3>2, SeqEqual
    <3> QED BY <3>3
  <2> QED BY <2>1, <2>2, <2>3
<1>7. xy \in Seq(S)
  BY <1>1
<1> HIDE DEF xy, n
<1>8. tokens(xy, c) = <<Before(xy, n + 1)>> \o tokens(From(xy, (n + 1) + 1), c)
  BY <1>4, <1>7, FirstToken
<1> QED BY <1>5, <1>6, <1>8 DEF xy, y

\* A line up to its end.
Start == <<Colon, Colon, Space, 0, Space>>

LEMMA StartOfLine ==
  ASSUME NEW S, NEW name \in Seq(S), Colon \in S, Space \in S, 0 \in S, NewLine \in S, Lacks(name, NewLine, 1)
  PROVE  /\ Start \in Seq(S) /\ Start \o name \in Seq(S) /\ Lacks(Start \o name, NewLine, 1)
         /\ Line(name) = (Start \o name) \o <<NewLine>> /\ Line(name) \in Seq(S)
         /\ Len(Start \o name) = 5 + Len(name)
         /\ (Start \o name)[1] = Colon /\ (Start \o name)[2] = Colon /\ (Start \o name)[3] = Space
         /\ (Start \o name)[4] = 0 /\ (Start \o name)[5] = Space
         /\ \A k \in 1..Len(name) : (Start \o name)[5 + k] = name[k]
<1> DEFINE l == Start \o name
           h == Start
<1>1. h \in Seq(S) /\ Len(h) = 5 /\ h[1] = Colon /\ h[2] = Colon /\ h[3] = Space /\ h[4] = 0 /\ h[5] = Space
  BY DEF Start
<1> HIDE DEF h
<1>2. l \in Seq(S) /\ Len(l) = 5 + Len(name) /\ Len(name) \in Nat
      /\ \A i \in 1..(5 + Len(name)) : l[i] = IF i <= 5 THEN h[i] ELSE name[i - 5]
  <2>1. h \o name \in Seq(S) /\ Len(h \o name) = 5 + Len(name)
        /\ \A i \in 1..(5 + Len(name)) : (h \o name)[i] = IF i <= 5 THEN h[i] ELSE name[i - 5]
    <3>1. h \o name \in Seq(S) /\ Len(h \o name) = Len(h) + Len(name)
          /\ \A i \in 1..(Len(h) + Len(name)) : (h \o name)[i] = IF i <= Len(h) THEN h[i] ELSE name[i - Len(h)]
      BY <1>1, ConcatProperties
    <3> QED BY <1>1, <3>1
  <2> QED BY <2>1 DEF h
<1> HIDE DEF l
<1>3. l[1] = Colon /\ l[2] = Colon /\ l[3] = Space /\ l[4] = 0 /\ l[5] = Space
  BY <1>1, <1>2
<1>4. ASSUME NEW k \in 1..Len(name) PROVE l[5 + k] = name[k]
  <2>1. 5 + k \in 1..(5 + Len(name)) /\ ~(5 + k <= 5) /\ (5 + k) - 5 = k
    BY <1>2
  <2> QED BY <1>2, <2>1
<1>5. Lacks(l, NewLine, 1)
  <2> SUFFICES ASSUME NEW i \in 1..Len(l) PROVE l[i] # NewLine
    BY DEF Lacks
  <2>1. CASE i <= 5
    <3>1. i = 1 \/ i = 2 \/ i = 3 \/ i = 4 \/ i = 5
      BY <2>1
    <3>2. l[i] = Colon \/ l[i] = Space \/ l[i] = 0
      BY <1>3, <3>1
    <3> QED BY <3>2 DEF Colon, Space, NewLine
  <2>2. CASE ~(i <= 5)
    <3>1. i - 5 \in 1..Len(name) /\ i \in 1..(5 + Len(name))
      BY <1>2, <2>2
    <3>2. l[i] = name[i - 5]
      BY <1>2, <2>2, <3>1
    <3> QED BY <3>1, <3>2 DEF Lacks
  <2> QED BY <2>1, <2>2
<1>6. Line(name) = l \o <<NewLine>>
  BY DEF Line, l, Start
<1>7. Line(name) \in Seq(S)
  BY <1>2, <1>6
<1> QED BY <1>1, <1>2, <1>3, <1>4, <1>5, <1>6, <1>7 DEF l, h

LEMMA AfterIs ==
  ASSUME NEW S, NEW s \in Seq(S), NEW c, NEW p, FirstAt(s, c, 1, p)
  PROVE  After(s, c) = {From(s, p + 1)}
<1>1. Find(s, c) = p
  BY FindFromFirst DEF Find
<1>2. p # 0
  BY DEF FirstAt
<1> QED BY <1>1, <1>2 DEF After

\* The name in a line.
LEMMA NameOfLine ==
  ASSUME NEW S, NEW name \in Seq(S), Colon \in S, Space \in S, 0 \in S, NewLine \in S, Lacks(name, NewLine, 1)
  PROVE  NameIn(Start \o name) = {name}
<1> DEFINE l == Start \o name
           n == Len(name)
           time == From(l, 1 + 1)
           zone == From(time, 2 + 1)
           rest == From(zone, 2 + 1)
<1>1. /\ l \in Seq(S) /\ Len(l) = 5 + n /\ n \in Nat
      /\ l[1] = Colon /\ l[2] = Colon /\ l[3] = Space /\ l[4] = 0 /\ l[5] = Space
      /\ \A k \in 1..n : l[5 + k] = name[k]
  <2> HIDE DEF time, zone, rest
  <2>1. /\ Start \o name \in Seq(S) /\ Len(Start \o name) = 5 + Len(name)
        /\ (Start \o name)[1] = Colon /\ (Start \o name)[2] = Colon /\ (Start \o name)[3] = Space
        /\ (Start \o name)[4] = 0 /\ (Start \o name)[5] = Space
        /\ \A k \in 1..Len(name) : (Start \o name)[5 + k] = name[k]
    BY StartOfLine
  <2> QED BY <2>1
<1> HIDE DEF l, n
<1>2. /\ time \in Seq(S) /\ Len(time) = 4 + n /\ \A k \in 1..(4 + n) : time[k] = l[1 + k]
  <2>1. 1 \in 0..Len(l) /\ Len(l) - 1 = 4 + n
    BY <1>1
  <2>2. time \in Seq(S) /\ Len(time) = Len(l) - 1 /\ \A k \in 1..(Len(l) - 1) : time[k] = l[1 + k]
    BY <1>1, <2>1, Rest
  <2> HIDE DEF time
  <2> QED BY <2>1, <2>2
<1> HIDE DEF time
<1>3. /\ zone \in Seq(S) /\ Len(zone) = 2 + n /\ \A k \in 1..(2 + n) : zone[k] = time[2 + k]
  <2>1. 2 \in 0..Len(time) /\ Len(time) - 2 = 2 + n
    BY <1>1, <1>2
  <2>2. zone \in Seq(S) /\ Len(zone) = Len(time) - 2 /\ \A k \in 1..(Len(time) - 2) : zone[k] = time[2 + k]
    BY <1>2, <2>1, Rest
  <2> HIDE DEF zone
  <2> QED BY <2>1, <2>2
<1> HIDE DEF zone
<1>4. /\ rest \in Seq(S) /\ Len(rest) = n /\ \A k \in 1..n : rest[k] = zone[2 + k]
  <2>1. 2 \in 0..Len(zone) /\ Len(zone) - 2 = n
    BY <1>1, <1>3
  <2>2. rest \in Seq(S) /\ Len(rest) = Len(zone) - 2 /\ \A k \in 1..(Len(zone) - 2) : rest[k] = zone[2 + k]
    BY <1>3, <2>1, Rest
  <2> HIDE DEF rest
  <2> QED BY <2>1, <2>2
<1> HIDE DEF rest
<1>5. time[1] = Colon /\ time[2] = Space /\ time[3] = 0 /\ time[4] = Space
  <2>1. 1 \in 1..(4 + n) /\ 2 \in 1..(4 + n) /\ 3 \in 1..(4 + n) /\ 4 \in 1..(4 + n)
    BY <1>1
  <2>2. time[1] = l[1 + 1] /\ time[2] = l[1 + 2] /\ time[3] = l[1 + 3] /\ time[4] = l[1 + 4]
    BY <1>2, <2>1
  <2> QED BY <1>1, <2>2
<1>6. zone[1] = 0 /\ zone[2] = Space
  <2>1. 1 \in 1..(2 + n) /\ 2 \in 1..(2 + n)
    BY <1>1
  <2>2. zone[1] = time[2 + 1] /\ zone[2] = time[2 + 2]
    BY <1>3, <2>1
  <2> QED BY <1>5, <2>2
<1>7. rest = name
  <2>1. ASSUME NEW k \in 1..n PROVE rest[k] = name[k]
    <3>1. 2 + k \in 1..(2 + n) /\ 2 + (2 + k) \in 1..(4 + n) /\ 1 + (2 + (2 + k)) = 5 + k
      BY <1>1
    <3>2. rest[k] = time[2 + (2 + k)]
      BY <1>3, <1>4, <3>1
    <3>3. time[2 + (2 + k)] = l[1 + (2 + (2 + k))]
      BY <1>2, <3>1
    <3> QED BY <1>1, <3>1, <3>2, <3>3
  <2>2. Len(rest) = Len(name)
    BY <1>4 DEF n
  <2> QED BY <1>4, <2>1, <2>2, SeqEqual
<1>8. FirstAt(l, Colon, 1, 1)
  BY <1>1 DEF FirstAt
<1>9. FirstAt(time, Space, 1, 2)
  <2>1. \A j \in 1..(2 - 1) : time[j] # Space
    BY <1>5 DEF Colon, Space
  <2> QED BY <1>1, <1>2, <1>5, <2>1 DEF FirstAt
<1>10. FirstAt(zone, Space, 1, 2)
  <2>1. \A j \in 1..(2 - 1) : zone[j] # Space
    BY <1>6 DEF Space
  <2> QED BY <1>1, <1>3, <1>6, <2>1 DEF FirstAt
<1>11. After(l, Colon) = {time}
  BY <1>1, <1>8, AfterIs DEF time
<1>12. After(time, Space) = {zone}
  BY <1>2, <1>9, AfterIs DEF zone
<1>13. After(zone, Space) = {rest}
  BY <1>3, <1>10, AfterIs DEF rest
<1>14. NameIn(l) = {name}
  BY <1>7, <1>11, <1>12, <1>13 DEF NameIn
<1> QED BY <1>14 DEF l

\* What g makes of every element.
Mapped(g, q) == [i \in DOMAIN q |-> g[q[i]]]
MapsTo(g, A, B) == g \in [A -> B]

LEMMA MappedIs ==
  ASSUME NEW A, NEW B, NEW g, MapsTo(g, A, B), NEW q \in Seq(A)
  PROVE  /\ Mapped(g, q) \in Seq(B) /\ Len(Mapped(g, q)) = Len(q)
         /\ \A i \in 1..Len(q) : Mapped(g, q)[i] = g[q[i]]
<1>1. DOMAIN q = 1..Len(q) /\ Len(q) \in Nat /\ \A i \in 1..Len(q) : q[i] \in A
  OBVIOUS
<1>2. Mapped(g, q) \in [1..Len(q) -> B]
  BY <1>1 DEF Mapped, MapsTo
<1>3. Mapped(g, q) \in Seq(B) /\ Len(Mapped(g, q)) = Len(q)
  BY <1>1, <1>2
<1> QED BY <1>1, <1>3 DEF Mapped

MapsFirst(g, x, q) == Mapped(g, <<x>> \o q) = <<g[x]>> \o Mapped(g, q)

LEMMA MappedFirst ==
  ASSUME NEW A, NEW B, NEW g, MapsTo(g, A, B), NEW x \in A, NEW q \in Seq(A)
  PROVE  MapsFirst(g, x, q)
<1> DEFINE p == <<x>> \o q
           e == Mapped(g, q)
           y == g[x]
           r == <<y>> \o e
<1>1. p \in Seq(A) /\ Len(p) = Len(q) + 1 /\ p[1] = x /\ \A i \in 1..Len(q) : p[i + 1] = q[i]
  BY PutBefore
<1>2. e \in Seq(B) /\ Len(e) = Len(q) /\ Len(q) \in Nat /\ \A i \in 1..Len(q) : e[i] = g[q[i]]
  BY MappedIs
<1>3. y \in B
  BY DEF MapsTo
<1> HIDE DEF p, e, y
<1>4. Mapped(g, p) \in Seq(B) /\ Len(Mapped(g, p)) = Len(p) /\ \A i \in 1..Len(p) : Mapped(g, p)[i] = g[p[i]]
  <2>1. p \in Seq(A)
    BY <1>1
  <2> QED BY <2>1, MappedIs
<1>5. r \in Seq(B) /\ Len(r) = Len(e) + 1 /\ r[1] = y /\ \A i \in 1..Len(e) : r[i + 1] = e[i]
  BY <1>2, <1>3, PutBefore
<1> HIDE DEF r
<1>6. ASSUME NEW i \in 1..Len(p) PROVE Mapped(g, p)[i] = r[i]
  <2>1. CASE i = 1
    BY <1>1, <1>4, <1>5, <2>1 DEF y
  <2>2. CASE i # 1
    <3>1. i - 1 \in 1..Len(q) /\ (i - 1) + 1 = i
      BY <1>1, <1>2, <2>2
    <3>2. p[i] = q[i - 1] /\ r[i] = e[i - 1]
      BY <1>1, <1>2, <1>5, <3>1
    <3> QED BY <1>2, <1>4, <3>1, <3>2
  <2> QED BY <2>1, <2>2
<1>7. Mapped(g, p) = r
  <2>1. Len(Mapped(g, p)) = Len(r)
    BY <1>1, <1>2, <1>4, <1>5
  <2> QED BY <1>4, <1>5, <1>6, <2>1, SeqEqual
<1> QED BY <1>7 DEF MapsFirst, p, r, e, y

\* The lines of names.
Lines(names) == FlattenSeq([i \in DOMAIN names |-> Line(names[i])])

LinesFirst(x, q) == Lines(<<x>> \o q) = Line(x) \o Lines(q)

LEMMA LinesOne ==
  ASSUME NEW S, Colon \in S, Space \in S, 0 \in S, NewLine \in S
  PROVE  /\ \A q \in Seq(Seq(S)) : Lines(q) \in Seq(S)
         /\ \A x \in Seq(S), q \in Seq(Seq(S)) : LinesFirst(x, q)
<1> DEFINE A == Seq(S)
           g == [x \in A |-> Line(x)]
<1>1. ASSUME NEW x \in A PROVE Line(x) \in A
  <2>1. <<Colon, Colon, Space, 0, Space>> \in A /\ <<NewLine>> \in A
    OBVIOUS
  <2> QED BY <2>1 DEF Line
<1>2. MapsTo(g, A, A) /\ g \in [A -> A] /\ \A x \in A : g[x] = Line(x)
  BY <1>1 DEF MapsTo
<1> HIDE DEF A, g
<1>3. ASSUME NEW q \in Seq(A) PROVE Lines(q) = FlattenSeq(Mapped(g, q)) /\ Mapped(g, q) \in Seq(A)
  <2>1. \A i \in DOMAIN q : g[q[i]] = Line(q[i])
    BY <1>2
  <2>2. Mapped(g, q) = [i \in DOMAIN q |-> Line(q[i])]
    BY <2>1 DEF Mapped
  <2> QED BY <1>2, <2>2, MappedIs DEF Lines
<1>4. ASSUME NEW q \in Seq(A) PROVE Lines(q) \in A
  BY <1>3, FlattenTyped DEF A
<1>5. ASSUME NEW x \in A, NEW q \in Seq(A) PROVE LinesFirst(x, q)
  <2>1. MapsFirst(g, x, q)
    BY <1>2, MappedFirst
  <2> DEFINE p == <<x>> \o q
             y == g[x]
             e == Mapped(g, q)
  <2>2. p \in Seq(A) /\ y \in A /\ e \in Seq(A) /\ y = Line(x)
    BY <1>2, <1>3
  <2>3. Mapped(g, p) = <<y>> \o e
    BY <2>1 DEF MapsFirst
  <2>4. Lines(q) = FlattenSeq(e)
    BY <1>3
  <2> HIDE DEF p, y, e
  <2>5. Lines(p) = FlattenSeq(Mapped(g, p))
    BY <1>3, <2>2
  <2>6. FlattenSeq(<<y>> \o e) = y \o FlattenSeq(e)
    BY <2>2, FlattenFirst DEF A
  <2>7. Lines(p) = Line(x) \o Lines(q)
    BY <2>2, <2>3, <2>4, <2>5, <2>6, Zenon
  <2> QED BY <2>7 DEF LinesFirst, p
<1> QED BY <1>4, <1>5 DEF A

\* The name in a line, if there is one.
NamePieces(l) == IF NameIn(l) = {} THEN <<>> ELSE <<CHOOSE x \in NameIn(l) : TRUE>>
Listed(q) == FlattenSeq([i \in DOMAIN q |-> NamePieces(q[i])])
ListedFirst(x, q) == Listed(<<x>> \o q) = NamePieces(x) \o Listed(q)

LEMMA ListedOne ==
  ASSUME NEW S
  PROVE  /\ \A x \in Seq(S) : NamePieces(x) \in Seq(Seq(S)) /\ Listed(<<x>>) = NamePieces(x)
         /\ \A q \in Seq(Seq(S)) : Listed(q) \in Seq(Seq(S))
         /\ \A x \in Seq(S), q \in Seq(Seq(S)) : ListedFirst(x, q)
<1> DEFINE A == Seq(S)
           B == Seq(A)
           g == [x \in A |-> NamePieces(x)]
<1>1. ASSUME NEW s \in A, NEW c PROVE After(s, c) \subseteq A
  <2>1. CASE Find(s, c) = 0
    BY <2>1 DEF After
  <2>2. CASE Find(s, c) # 0
    <3>1. Find(s, c) \in 0..Len(s)
      BY <2>2, FindIs DEF FirstAt, Lacks
    <3>2. From(s, Find(s, c) + 1) \in A
      BY <3>1, Rest
    <3> QED BY <2>2, <3>2 DEF After
  <2> QED BY <2>1, <2>2
<1>2. ASSUME NEW x \in A PROVE NamePieces(x) \in B
  <2>1. NameIn(x) \subseteq A
    BY <1>1 DEF NameIn
  <2>2. CASE NameIn(x) = {}
    BY <2>2 DEF NamePieces
  <2>3. CASE NameIn(x) # {}
    <3> DEFINE y == CHOOSE y \in NameIn(x) : TRUE
    <3>1. y \in A
      BY <2>1, <2>3
    <3> HIDE DEF y, A
    <3>2. NamePieces(x) = <<y>>
      BY <2>3 DEF NamePieces, y
    <3> QED BY <3>1, <3>2
  <2> QED BY <2>2, <2>3
<1>3. MapsTo(g, A, B) /\ g \in [A -> B] /\ \A x \in A : g[x] = NamePieces(x)
  BY <1>2 DEF MapsTo
<1> HIDE DEF A, B, g
<1>4. ASSUME NEW q \in Seq(A) PROVE Listed(q) = FlattenSeq(Mapped(g, q)) /\ Mapped(g, q) \in Seq(B)
  <2>1. \A i \in DOMAIN q : g[q[i]] = NamePieces(q[i])
    BY <1>3
  <2>2. Mapped(g, q) = [i \in DOMAIN q |-> NamePieces(q[i])]
    BY <2>1 DEF Mapped
  <2> QED BY <1>3, <2>2, MappedIs DEF Listed
<1>5. ASSUME NEW q \in Seq(A) PROVE Listed(q) \in B
  BY <1>4, FlattenTyped DEF B
<1>6. ASSUME NEW x \in A, NEW q \in Seq(A) PROVE ListedFirst(x, q)
  <2>1. MapsFirst(g, x, q)
    BY <1>3, MappedFirst
  <2> DEFINE p == <<x>> \o q
             y == g[x]
             e == Mapped(g, q)
  <2>2. p \in Seq(A) /\ y \in B /\ e \in Seq(B) /\ y = NamePieces(x)
    BY <1>3, <1>4
  <2>3. Mapped(g, p) = <<y>> \o e
    BY <2>1 DEF MapsFirst
  <2>4. Listed(q) = FlattenSeq(e)
    BY <1>4
  <2> HIDE DEF p, y, e
  <2>5. Listed(p) = FlattenSeq(Mapped(g, p))
    BY <1>4, <2>2
  <2>6. FlattenSeq(<<y>> \o e) = y \o FlattenSeq(e)
    BY <2>2, FlattenFirst DEF B
  <2>7. Listed(p) = NamePieces(x) \o Listed(q)
    BY <2>2, <2>3, <2>4, <2>5, <2>6, Zenon
  <2> QED BY <2>7 DEF ListedFirst, p
<1>7. ASSUME NEW x \in A PROVE Listed(<<x>>) = NamePieces(x)
  <2>1. [i \in DOMAIN <<x>> |-> NamePieces(<<x>>[i])] = <<NamePieces(x)>>
    <3>1. DOMAIN <<x>> = {1} /\ <<x>>[1] = x
      OBVIOUS
    <3>2. [i \in DOMAIN <<x>> |-> NamePieces(<<x>>[i])] = [i \in {1} |-> NamePieces(x)]
      BY <3>1
    <3>3. [i \in {1} |-> NamePieces(x)] = <<NamePieces(x)>>
      OBVIOUS
    <3> QED BY <3>2, <3>3
  <2>2. FlattenSeq(<<NamePieces(x)>>) = NamePieces(x)
    BY <1>2, FlattenOne
  <2> QED BY <2>1, <2>2 DEF Listed
<1> QED BY <1>2, <1>5, <1>6, <1>7 DEF A, B

\* The lines of names, taken apart, have the names.
LEMMA LinesListed ==
  ASSUME NEW S, NEW N, N = {x \in Seq(S) : Lacks(x, NewLine, 1)},
         Colon \in S, Space \in S, 0 \in S, NewLine \in S
  PROVE  \A q \in Seq(N) : Listed(tokens(Lines(q), NewLine)) = q /\ (q # <<>> => Len(tokens(Lines(q), NewLine)) > 1)
<1> DEFINE t(q) == tokens(Lines(q), NewLine)
           T == {q \in Seq(N) : Listed(t(q)) = q /\ (q # <<>> => Len(t(q)) > 1)}
<1>0. Seq(N) \subseteq Seq(Seq(S)) /\ N \subseteq Seq(S)
  OBVIOUS
<1>1. <<>> \in T
  <2>1. Lines(<<>>) = <<>>
    <3>1. [i \in DOMAIN <<>> |-> Line(<<>>[i])] = <<>>
      OBVIOUS
    <3> QED BY <3>1, FlattenNone DEF Lines
  <2>2. tokens(<<>>, NewLine) = <<<<>>>>
    <3>1. <<>> \in Seq(S) /\ Lacks(<<>>, NewLine, 1)
      BY DEF Lacks
    <3> QED BY <3>1, OneToken
  <2>3. Listed(<<<<>>>>) = NamePieces(<<>>)
    <3>1. <<>> \in Seq(S)
      OBVIOUS
    <3> QED BY <3>1, ListedOne
  <2>4. NamePieces(<<>>) = <<>>
    <3>1. Find(<<>>, Colon) = 0
      BY DEF Find, FindFrom
    <3> QED BY <3>1 DEF NamePieces, NameIn, After
  <2>5. Listed(t(<<>>)) = <<>>
    BY <2>1, <2>2, <2>3, <2>4, Zenon
  <2>6. <<>> \in Seq(N)
    OBVIOUS
  <2> QED BY <2>5, <2>6
<1>2. ASSUME NEW q \in T, NEW x \in N PROVE <<x>> \o q \in T
  <2> DEFINE p == <<x>> \o q
             r == Lines(q)
             h == Start \o x
             u == tokens(r, NewLine)
  <2>1. q \in Seq(N) /\ q \in Seq(Seq(S)) /\ x \in Seq(S) /\ Lacks(x, NewLine, 1) /\ Listed(u) = q
    BY <1>0
  <2>2. LinesFirst(x, q) /\ r \in Seq(S)
    BY <2>1, LinesOne
  <2>3. Lines(p) = Line(x) \o r
    BY <2>2 DEF LinesFirst
  <2>4. h \in Seq(S) /\ Lacks(h, NewLine, 1) /\ Line(x) = h \o <<NewLine>>
    BY <2>1, StartOfLine
  <2>5. u \in Seq(Seq(S)) /\ Len(u) \in Nat \ {0}
    BY <2>2, TokensAre
  <2> HIDE DEF T, r, u, h
  <2>6. Line(x) \o r = h \o (<<NewLine>> \o r)
    <3>1. <<NewLine>> \in Seq(S)
      OBVIOUS
    <3> QED BY <2>2, <2>4, <3>1, ConcatAssociative
  <2>7. tokens(h \o (<<NewLine>> \o r), NewLine) = <<h>> \o u
    BY <2>2, <2>4, EndedToken DEF u
  <2>8. t(p) = <<h>> \o u
    BY <2>3, <2>6, <2>7, Zenon
  <2>9. NamePieces(h) = <<x>>
    <3>1. NameIn(h) = {x}
      BY <2>1, NameOfLine DEF h
    <3> QED BY <3>1 DEF NamePieces
  <2>10. ListedFirst(h, u)
    BY <2>4, <2>5, ListedOne
  <2>11. Listed(t(p)) = p
    BY <2>1, <2>8, <2>9, <2>10, Zenon DEF ListedFirst
  <2>12. Len(t(p)) > 1
    <3>1. Len(<<h>> \o u) = Len(u) + 1
      BY <2>4, <2>5, PutBefore
    <3> QED BY <2>5, <2>8, <3>1
  <2>13. p \in Seq(N)
    BY <2>1
  <2> HIDE DEF p
  <2> QED BY <2>11, <2>12, <2>13 DEF T, p
<1>3. T = Seq(N)
  <2>1. T \in SUBSET Seq(N)
    OBVIOUS
  <2> HIDE DEF T
  <2> QED BY <1>1, <1>2, <2>1, FrontInduction
<1> QED BY <1>3

\* Names without line ends are read back from the lines of ls.
THEOREM NamesAreRead ==
  ASSUME NEW S, NEW names \in Seq(Seq(S)), NewLine \notin S
  PROVE  NamesReturn(names)
<1> DEFINE A == S \cup {Colon, Space, 0, NewLine}
           N == {x \in Seq(A) : Lacks(x, NewLine, 1)}
           s == Lines(names)
           q == tokens(s, NewLine)
<1>1. names \in Seq(N)
  <2>1. ASSUME NEW x \in Seq(S) PROVE x \in N
    <3>1. x \in Seq(A)
      OBVIOUS
    <3>2. Lacks(x, NewLine, 1)
      BY DEF Lacks
    <3> QED BY <3>1, <3>2
  <2> HIDE DEF N
  <2> QED BY <2>1
<1>2. Listed(q) = names /\ (names # <<>> => Len(q) > 1)
  <2> DEFINE B == A
  <2>1. Colon \in B /\ Space \in B /\ 0 \in B /\ NewLine \in B /\ N = {x \in Seq(B) : Lacks(x, NewLine, 1)}
    OBVIOUS
  <2> HIDE DEF B, N
  <2>2. \A p \in Seq(N) : Listed(tokens(Lines(p), NewLine)) = p /\ (p # <<>> => Len(tokens(Lines(p), NewLine)) > 1)
    BY <2>1, LinesListed
  <2> QED BY <1>1, <2>2
<1> HIDE DEF q
<1>3. NamesListed(s) = IF Len(q) <= 1 THEN <<>> ELSE Listed(q)
  BY Zenon DEF NamesListed, Listed, NamePieces, q
<1>4. NamesListed(s) = names
  <2>1. CASE names = <<>>
    BY <1>2, <1>3, <2>1
  <2>2. CASE names # <<>>
    <3>1. Len(q) > 1
      BY <1>2, <2>2
    <3>2. s \in Seq(A) /\ Len(q) \in Nat
      <4>1. names \in Seq(Seq(A))
        BY <1>1
      <4>2. s \in Seq(A)
        <5> DEFINE B == A
        <5>1. Colon \in B /\ Space \in B /\ 0 \in B /\ NewLine \in B
          OBVIOUS
        <5> HIDE DEF B
        <5>2. \A p \in Seq(Seq(B)) : Lines(p) \in Seq(B)
          BY <5>1, LinesOne
        <5> QED BY <4>1, <5>2 DEF B
      <4> QED BY <4>2, TokensAre DEF q
    <3> QED BY <1>2, <1>3, <3>1, <3>2
  <2> QED BY <2>1, <2>2
<1> QED BY <1>4 DEF NamesReturn, Lines

-----------------------------------------------------------------------------
(* base64. *)

\* Three bytes as four numbers, one by one.
FirstSextet(a) == a \div 4
SecondSextet(a, b) == (a % 4) * 16 + b \div 16
ThirdSextet(b, c) == (b % 16) * 4 + c \div 64
FourthSextet(c) == c % 64

LEMMA NumbersFit ==
  \A a \in Byte, b \in Byte, c \in Byte :
    FirstSextet(a) \in 0..63 /\ SecondSextet(a, b) \in 0..63 /\ ThirdSextet(b, c) \in 0..63 /\ FourthSextet(c) \in 0..63
<1> SUFFICES ASSUME NEW a \in Byte, NEW b \in Byte, NEW c \in Byte
             PROVE  FirstSextet(a) \in 0..63 /\ SecondSextet(a, b) \in 0..63 /\ ThirdSextet(b, c) \in 0..63 /\ FourthSextet(c) \in 0..63
  OBVIOUS
<1>1. a \in 0..255 /\ b \in 0..255 /\ c \in 0..255
  BY DEF Byte
<1>2. FirstSextet(a) \in 0..63
  BY <1>1, SMT DEF FirstSextet
<1>3. SecondSextet(a, b) \in 0..63
  BY <1>1, SMT DEF SecondSextet
<1>4. ThirdSextet(b, c) \in 0..63
  BY <1>1, SMT DEF ThirdSextet
<1>5. FourthSextet(c) \in 0..63
  BY <1>1, SMT DEF FourthSextet
<1> QED BY <1>2, <1>3, <1>4, <1>5

\* The bytes come back from their numbers.
LEMMA NumbersReturn ==
  \A a \in Byte, b \in Byte, c \in Byte :
    /\ (FirstSextet(a) * 4 + (SecondSextet(a, b) % 64) \div 16) % 256 = a
    /\ ((SecondSextet(a, b) % 16) * 16 + (ThirdSextet(b, c) % 64) \div 4) % 256 = b
    /\ ((ThirdSextet(b, c) % 4) * 64 + FourthSextet(c)) % 256 = c
<1> SUFFICES ASSUME NEW a \in Byte, NEW b \in Byte, NEW c \in Byte
             PROVE  /\ (FirstSextet(a) * 4 + (SecondSextet(a, b) % 64) \div 16) % 256 = a
                    /\ ((SecondSextet(a, b) % 16) * 16 + (ThirdSextet(b, c) % 64) \div 4) % 256 = b
                    /\ ((ThirdSextet(b, c) % 4) * 64 + FourthSextet(c)) % 256 = c
  OBVIOUS
<1>1. a \in 0..255 /\ b \in 0..255 /\ c \in 0..255
  BY DEF Byte
<1>2. (FirstSextet(a) * 4 + (SecondSextet(a, b) % 64) \div 16) % 256 = a
  BY <1>1, SMTT(60) DEF FirstSextet, SecondSextet
<1>3. ((SecondSextet(a, b) % 16) * 16 + (ThirdSextet(b, c) % 64) \div 4) % 256 = b
  BY <1>1, SMTT(60) DEF SecondSextet, ThirdSextet
<1>4. ((ThirdSextet(b, c) % 4) * 64 + FourthSextet(c)) % 256 = c
  BY <1>1, SMTT(60) DEF ThirdSextet, FourthSextet
<1> QED BY <1>2, <1>3, <1>4

LEMMA SextetsIs ==
  ASSUME NEW b, b[1] \in Byte, b[2] \in Byte, b[3] \in Byte
  PROVE  /\ Sextets(b)[1] = FirstSextet(b[1]) /\ Sextets(b)[2] = SecondSextet(b[1], b[2])
         /\ Sextets(b)[3] = ThirdSextet(b[2], b[3]) /\ Sextets(b)[4] = FourthSextet(b[3])
         /\ \A j \in 1..4 : Sextets(b)[j] \in 0..63
<1>1. /\ Sextets(b)[1] = FirstSextet(b[1]) /\ Sextets(b)[2] = SecondSextet(b[1], b[2])
      /\ Sextets(b)[3] = ThirdSextet(b[2], b[3]) /\ Sextets(b)[4] = FourthSextet(b[3])
  BY DEF Sextets, FirstSextet, SecondSextet, ThirdSextet, FourthSextet
<1>2. \A j \in 1..4 : j = 1 \/ j = 2 \/ j = 3 \/ j = 4
  OBVIOUS
<1> QED BY <1>1, <1>2, NumbersFit

\* A byte comes back when the two numbers that have its bits do.
LEMMA OctetsReturn ==
  ASSUME NEW b, b[1] \in Byte, b[2] \in Byte, b[3] \in Byte, NEW q, NEW j \in 1..3,
         q[j] = Sextets(b)[j], q[j + 1] = Sextets(b)[j + 1]
  PROVE  Octets(q)[j] = b[j]
<1>1. /\ Sextets(b)[1] = FirstSextet(b[1]) /\ Sextets(b)[2] = SecondSextet(b[1], b[2])
      /\ Sextets(b)[3] = ThirdSextet(b[2], b[3]) /\ Sextets(b)[4] = FourthSextet(b[3])
  BY SextetsIs
<1>2. j = 1 \/ j = 2 \/ j = 3
  OBVIOUS
<1>3. CASE j = 1
  <2>1. q[1] = FirstSextet(b[1]) /\ q[2] = SecondSextet(b[1], b[2])
    BY <1>1, <1>3
  <2>2. Octets(q)[1] = (q[1] * 4 + (q[2] % 64) \div 16) % 256
    BY DEF Octets
  <2>3. (FirstSextet(b[1]) * 4 + (SecondSextet(b[1], b[2]) % 64) \div 16) % 256 = b[1]
    BY NumbersReturn
  <2>4. Octets(q)[1] = (FirstSextet(b[1]) * 4 + (SecondSextet(b[1], b[2]) % 64) \div 16) % 256
    BY <2>1, <2>2, Zenon
  <2> QED BY <1>3, <2>3, <2>4
<1>4. CASE j = 2
  <2>1. q[2] = SecondSextet(b[1], b[2]) /\ q[3] = ThirdSextet(b[2], b[3])
    BY <1>1, <1>4
  <2>2. Octets(q)[2] = ((q[2] % 16) * 16 + (q[3] % 64) \div 4) % 256
    BY DEF Octets
  <2>3. ((SecondSextet(b[1], b[2]) % 16) * 16 + (ThirdSextet(b[2], b[3]) % 64) \div 4) % 256 = b[2]
    BY NumbersReturn
  <2>4. Octets(q)[2] = ((SecondSextet(b[1], b[2]) % 16) * 16 + (ThirdSextet(b[2], b[3]) % 64) \div 4) % 256
    BY <2>1, <2>2, Zenon
  <2> QED BY <1>4, <2>3, <2>4
<1>5. CASE j = 3
  <2>1. q[3] = ThirdSextet(b[2], b[3]) /\ q[4] = FourthSextet(b[3])
    BY <1>1, <1>5
  <2>2. Octets(q)[3] = ((q[3] % 4) * 64 + q[4]) % 256
    BY DEF Octets
  <2>3. ((ThirdSextet(b[2], b[3]) % 4) * 64 + FourthSextet(b[3])) % 256 = b[3]
    BY NumbersReturn
  <2>4. Octets(q)[3] = ((ThirdSextet(b[2], b[3]) % 4) * 64 + FourthSextet(b[3])) % 256
    BY <2>1, <2>2, Zenon
  <2> QED BY <1>5, <2>3, <2>4
<1> QED BY <1>2, <1>3, <1>4, <1>5

\* Products with the sizes of groups.
LEMMA Products ==
  ASSUME NEW k \in {3, 4}, NEW m \in Nat
  PROVE  /\ k * m \in Nat /\ k * (m + 1) = k * m + k /\ k * 0 = 0
         /\ \A n \in 1..m, j \in 1..k : k * (n - 1) + j \in 1..(k * m)
         /\ \A x \in 1..(k * m) : \E n \in 1..m, j \in 1..k : x = k * (n - 1) + j
<1>1. CASE k = 3
  <2>1. \A x \in 1..(3 * m) : \E n \in 1..m, j \in 1..3 : x = 3 * (n - 1) + j
    <3> TAKE x \in 1..(3 * m)
    <3> DEFINE n == (x - 1) \div 3 + 1
               j == ((x - 1) % 3) + 1
    <3>1. n \in 1..m /\ j \in 1..3 /\ x = 3 * (n - 1) + j
      OBVIOUS
    <3> QED BY <3>1
  <2> QED BY <1>1, <2>1
<1>2. CASE k = 4
  <2>1. \A x \in 1..(4 * m) : \E n \in 1..m, j \in 1..4 : x = 4 * (n - 1) + j
    <3> TAKE x \in 1..(4 * m)
    <3> DEFINE n == (x - 1) \div 4 + 1
               j == ((x - 1) % 4) + 1
    <3>1. n \in 1..m /\ j \in 1..4 /\ x = 4 * (n - 1) + j
      OBVIOUS
    <3> QED BY <3>1
  <2> QED BY <1>2, <2>1
<1> QED BY <1>1, <1>2

\* Pieces of k characters, of which the last may have less, and where their characters are.
InBlocks(p, k) == \A n \in 1..(Len(p) - 1) : Len(p[n]) = k
AtBlocks(f, p, k) ==
  /\ p = <<>> => f = <<>>
  /\ p # <<>> => Len(f) = k * (Len(p) - 1) + Len(p[Len(p)])
  /\ \A n \in 1..Len(p) : \A j \in 1..Len(p[n]) : f[k * (n - 1) + j] = p[n][j]

LEMMA BlocksFlatten ==
  ASSUME NEW S, NEW k \in {3, 4}
  PROVE  \A p \in Seq(Seq(S)) : InBlocks(p, k) => AtBlocks(FlattenSeq(p), p, k)
<1> DEFINE T == {p \in Seq(Seq(S)) : InBlocks(p, k) => AtBlocks(FlattenSeq(p), p, k)}
<1>1. <<>> \in T
  <2>1. AtBlocks(<<>>, <<>>, k)
    BY DEF AtBlocks
  <2>2. <<>> \in Seq(Seq(S))
    OBVIOUS
  <2> QED BY <2>1, <2>2, FlattenNone
<1>2. ASSUME NEW p \in T, NEW x \in Seq(S) PROVE Append(p, x) \in T
  <2> DEFINE q == Append(p, x)
             m == Len(p)
             f == FlattenSeq(p)
  <2>0. p \in Seq(Seq(S)) /\ (InBlocks(p, k) => AtBlocks(f, p, k))
    OBVIOUS
  <2> HIDE DEF T
  <2>1. q \in Seq(Seq(S)) /\ Len(q) = m + 1 /\ m \in Nat /\ q[m + 1] = x /\ q # <<>>
    BY <2>0, AppendProperties
  <2>2. \A i \in 1..m : q[i] = p[i] /\ p[i] \in Seq(S)
    BY <2>0, AppendProperties
  <2>3. FlattenSeq(q) = f \o x /\ f \in Seq(S)
    BY <2>0, FlattenAppend, FlattenTyped
  <2> HIDE DEF q, f
  <2>4. SUFFICES ASSUME InBlocks(q, k) PROVE AtBlocks(f \o x, q, k)
    BY <2>1, <2>3 DEF T, q
  <2>5. \A n \in 1..m : Len(p[n]) = k
    BY <2>1, <2>2, <2>4 DEF InBlocks
  <2>6. AtBlocks(f, p, k)
    <3>1. InBlocks(p, k)
      BY <2>1, <2>5 DEF InBlocks
    <3> QED BY <2>0, <3>1
  <2>7. k * m \in Nat /\ k * (m + 1) = k * m + k /\ k * 0 = 0
        /\ \A n \in 1..m, j \in 1..k : k * (n - 1) + j \in 1..(k * m)
    BY <2>1, Products
  <2>8. Len(f) = k * m
    <3>1. CASE m = 0
      <4>1. p = <<>>
        BY <2>0, <3>1
      <4> QED BY <2>6, <2>7, <3>1, <4>1 DEF AtBlocks
    <3>2. CASE m # 0
      <4>1. m \in 1..m /\ p # <<>> /\ m - 1 \in Nat /\ (m - 1) + 1 = m
        BY <2>1, <3>2
      <4>2. k * m = k * (m - 1) + k
        BY <4>1, Products
      <4>3. Len(f) = k * (m - 1) + Len(p[m])
        BY <2>6, <4>1 DEF AtBlocks
      <4>4. Len(p[m]) = k
        BY <2>5, <4>1
      <4> QED BY <4>2, <4>3, <4>4
    <3> QED BY <3>1, <3>2
  <2> DEFINE g == f \o x
  <2>9. /\ Len(g) = k * m + Len(x) /\ Len(x) \in Nat
        /\ \A i \in 1..(k * m + Len(x)) : g[i] = IF i <= k * m THEN f[i] ELSE x[i - k * m]
    <3>1. /\ Len(f \o x) = Len(f) + Len(x)
          /\ \A i \in 1..(Len(f) + Len(x)) : (f \o x)[i] = IF i <= Len(f) THEN f[i] ELSE x[i - Len(f)]
      BY <2>3, ConcatProperties
    <3> QED BY <2>8, <3>1
  <2> HIDE DEF g, m
  <2>10. ASSUME NEW n \in 1..Len(q), NEW j \in 1..Len(q[n]) PROVE g[k * (n - 1) + j] = q[n][j]
    <3>1. CASE n = m + 1
      <4>1. q[n] = x /\ j \in 1..Len(x) /\ n - 1 = m
        BY <2>1, <2>10, <3>1
      <4> DEFINE i == k * m + j
      <4>2. i \in 1..(k * m + Len(x)) /\ ~(i <= k * m) /\ i - k * m = j
        <5> DEFINE z == k * m
                   l == Len(x)
        <5>1. z \in Nat /\ l \in Nat /\ j \in 1..l
          BY <2>7, <2>9, <4>1
        <5> HIDE DEF z, l
        <5>2. z + j \in 1..(z + l) /\ ~(z + j <= z) /\ (z + j) - z = j
          BY <5>1
        <5> QED BY <5>2 DEF z, l
      <4>3. g[i] = x[j]
        <5> HIDE DEF i
        <5> QED BY <2>9, <4>2
      <4> QED BY <4>1, <4>3
    <3>2. CASE n # m + 1
      <4>1. n \in 1..m
        BY <2>1, <3>2
      <4>2. q[n] = p[n] /\ Len(p[n]) = k /\ j \in 1..k
        BY <2>2, <2>5, <2>10, <4>1
      <4> DEFINE i == k * (n - 1) + j
      <4>3. i \in 1..(k * m)
        BY <2>7, <4>1, <4>2
      <4>4. f[i] = p[n][j]
        BY <2>6, <4>1, <4>2 DEF AtBlocks, m
      <4> HIDE DEF i
      <4>5. g[i] = f[i]
        BY <2>7, <2>9, <4>3
      <4> QED BY <4>2, <4>4, <4>5 DEF i
    <3> QED BY <3>1, <3>2
  <2>11. Len(g) = k * (Len(q) - 1) + Len(q[Len(q)])
    <3>1. Len(q) - 1 = m /\ q[Len(q)] = x
      BY <2>1
    <3> QED BY <2>9, <3>1
  <2>12. AtBlocks(g, q, k)
    BY <2>1, <2>10, <2>11 DEF AtBlocks
  <2> QED BY <2>12 DEF g
<1>3. T = Seq(Seq(S))
  <2>1. T \in SUBSET Seq(Seq(S))
    OBVIOUS
  <2> HIDE DEF T
  <2> QED BY <1>1, <1>2, <2>1, PieceInduction
<1> QED BY <1>3

LEMMA SmallerOf ==
  ASSUME NEW k \in Nat, NEW x \in Nat
  PROVE  Min({k, x}) = IF x < k THEN x ELSE k
<1>1. {k, x} \in SUBSET Nat /\ {k, x} # {}
  OBVIOUS
<1>2. Min({k, x}) \in {k, x} /\ \A i \in {k, x} : Min({k, x}) <= i
  BY <1>1, MinIs
<1> HIDE DEF Min
<1> QED BY <1>2

\* How many groups of k a text of length l has, if it is not empty, and the size of the last.
InGroups(l, k, g, r) == g \in Nat \ {0} /\ r \in 1..k /\ l = k * (g - 1) + r

\* What the groups of k characters of s are, and where they have their characters from.
GroupsFit(s, k, g, r) ==
  /\ Groups(s, k) = g
  /\ \A n \in 1..g : GroupSize(s, n, k) = IF n < g THEN k ELSE r
  /\ \A n \in 1..g : \A z : \A j \in 1..k :
       Group(s, n, k, z)[j] = IF n < g \/ j <= r THEN s[k * (n - 1) + j] ELSE z
  /\ \A n \in 1..g : \A j \in 1..k : n < g \/ j <= r => k * (n - 1) + j \in 1..Len(s)

LEMMA GroupsAre ==
  ASSUME NEW S, NEW s \in Seq(S), NEW k \in {3, 4}, NEW g, NEW r, InGroups(Len(s), k, g, r)
  PROVE  GroupsFit(s, k, g, r)
<1> DEFINE l == Len(s)
<1>1. g \in Nat \ {0} /\ r \in 1..k /\ l = k * (g - 1) + r /\ l \in Nat
  BY DEF InGroups
<1> HIDE DEF l
<1>2. Groups(s, k) = g
  <2>1. CASE k = 3
    <3>1. (l + 3 - 1) \div 3 = g
      BY <1>1, <2>1
    <3> QED BY <2>1, <3>1 DEF Groups, l
  <2>2. CASE k = 4
    <3>1. (l + 4 - 1) \div 4 = g
      BY <1>1, <2>2
    <3> QED BY <2>2, <3>1 DEF Groups, l
  <2> QED BY <2>1, <2>2
<1>3. ASSUME NEW n \in 1..g
      PROVE  /\ l - (n - 1) * k \in Nat /\ (n < g => l - (n - 1) * k >= k) /\ (n = g => l - (n - 1) * k = r)
             /\ \A j \in 1..k : /\ (n - 1) * k + j = k * (n - 1) + j /\ k * (n - 1) + j \in Nat \ {0}
                                /\ k * (n - 1) + j <= l <=> n < g \/ j <= r
  <2>1. CASE k = 3
    BY <1>1, <2>1
  <2>2. CASE k = 4
    BY <1>1, <2>2
  <2> QED BY <2>1, <2>2
<1>4. ASSUME NEW n \in 1..g PROVE GroupSize(s, n, k) = IF n < g THEN k ELSE r
  <2> DEFINE x == l - (n - 1) * k
  <2>1. x \in Nat /\ (n < g => x >= k) /\ (n = g => x = r) /\ r <= k /\ k \in Nat /\ r \in Nat
    BY <1>1, <1>3
  <2>2. GroupSize(s, n, k) = Min({k, x})
    BY DEF GroupSize, l
  <2> HIDE DEF x
  <2>3. Min({k, x}) = IF x < k THEN x ELSE k
    BY <2>1, SmallerOf
  <2>4. n < g \/ n = g
    BY <1>1
  <2> QED BY <2>1, <2>2, <2>3, <2>4
<1>5. ASSUME NEW n \in 1..g, NEW z, NEW j \in 1..k
      PROVE  Group(s, n, k, z)[j] = IF n < g \/ j <= r THEN s[k * (n - 1) + j] ELSE z
  <2>1. Group(s, n, k, z)[j] = IF (n - 1) * k + j <= l THEN s[(n - 1) * k + j] ELSE z
    BY DEF Group, l
  <2>2. (n - 1) * k + j = k * (n - 1) + j /\ (k * (n - 1) + j <= l <=> n < g \/ j <= r)
    BY <1>3
  <2> QED BY <2>1, <2>2
<1>6. ASSUME NEW n \in 1..g, NEW j \in 1..k, n < g \/ j <= r PROVE k * (n - 1) + j \in 1..Len(s)
  <2> DEFINE x == k * (n - 1) + j
  <2>1. x \in Nat \ {0} /\ x <= l
    BY <1>3, <1>6
  <2> HIDE DEF x
  <2>2. x \in 1..l
    BY <1>1, <2>1
  <2> QED BY <2>2 DEF x, l
<1> QED BY <1>2, <1>4, <1>5, <1>6 DEF GroupsFit

\* Every text that is not empty is in groups.
LEMMA GroupsExist ==
  ASSUME NEW l \in Nat, l > 0
  PROVE  \E g, r : InGroups(l, 3, g, r) /\ g = (l + 2) \div 3
<1> DEFINE g == (l + 2) \div 3
           r == l - 3 * (g - 1)
<1>1. g \in Nat \ {0} /\ r \in 1..3 /\ l = 3 * (g - 1) + r
  OBVIOUS
<1> QED BY <1>1 DEF InGroups

LEMMA OfLength ==
  ASSUME NEW S, NEW n \in Nat, NEW s \in [1..n -> S]
  PROVE  s \in Seq(S) /\ Len(s) = n
<1>1. s \in Seq(S)
  OBVIOUS
<1>2. Len(s) = n
  BY <1>1, LenProperties
<1> QED BY <1>1, <1>2

\* The characters of an encoded text.
EncodedIn(e, text, g, r) ==
  /\ e \in Seq(0..Pad) /\ Len(e) = 4 * g
  /\ \A n \in 1..g : \A j \in 1..4 :
       e[4 * (n - 1) + j] = IF n < g \/ j <= r + 1 THEN Sextets(Group(text, n, 3, 0))[j] ELSE Pad
  /\ \A n \in 1..g : \A j \in 1..3 : Group(text, n, 3, 0)[j] \in Byte

LEMMA EncodeIs ==
  ASSUME NEW text \in Seq(Byte), NEW g, NEW r, InGroups(Len(text), 3, g, r)
  PROVE  EncodedIn(base64_encode(text), text, g, r)
<1> DEFINE size(n) == GroupSize(text, n, 3)
           b(n) == Group(text, n, 3, 0)
           piece(n) == [j \in 1..4 |-> IF j <= Chars(size(n)) THEN Sextets(b(n))[j] ELSE Pad]
           p == [n \in 1..g |-> piece(n)]
           e == base64_encode(text)
<1>1. /\ Groups(text, 3) = g
      /\ \A n \in 1..g : size(n) = IF n < g THEN 3 ELSE r
      /\ \A n \in 1..g : \A j \in 1..3 : b(n)[j] = IF n < g \/ j <= r THEN text[3 * (n - 1) + j] ELSE 0
      /\ \A n \in 1..g : \A j \in 1..3 : n < g \/ j <= r => 3 * (n - 1) + j \in 1..Len(text)
  <2>1. GroupsFit(text, 3, g, r)
    <3>1. 3 \in {3, 4}
      OBVIOUS
    <3> QED BY <3>1, GroupsAre, Zenon
  <2> QED BY <2>1, Zenon DEF GroupsFit
<1>2. g \in Nat \ {0} /\ r \in 1..3
  BY DEF InGroups
<1>3. e = FlattenSeq(p)
  BY <1>1, Zenon DEF base64_encode
<1> HIDE DEF b, size, e
<1>4. ASSUME NEW n \in 1..g, NEW j \in 1..3 PROVE b(n)[j] \in Byte
  <2>1. 0 \in Byte
    BY DEF Byte
  <2>2. CASE n < g \/ j <= r
    BY <1>1, <2>2
  <2>3. CASE ~(n < g \/ j <= r)
    BY <1>1, <2>1, <2>3
  <2> QED BY <2>2, <2>3
<1>5. ASSUME NEW n \in 1..g
      PROVE  /\ piece(n) \in Seq(0..Pad) /\ Len(piece(n)) = 4
             /\ \A j \in 1..4 : piece(n)[j] = IF n < g \/ j <= r + 1 THEN Sextets(b(n))[j] ELSE Pad
  <2>1. b(n)[1] \in Byte /\ b(n)[2] \in Byte /\ b(n)[3] \in Byte
    BY <1>4
  <2>2. \A j \in 1..4 : Sextets(b(n))[j] \in 0..63
    BY <2>1, SextetsIs
  <2>3. Pad \in 0..Pad /\ \A j \in 1..4 : Sextets(b(n))[j] \in 0..Pad
    <3>1. 0..63 \in SUBSET (0..Pad) /\ Pad \in 0..Pad
      BY DEF Pad
    <3> QED BY <2>2, <3>1
  <2>4. Chars(size(n)) = IF n < g THEN 4 ELSE r + 1
    BY <1>1 DEF Chars
  <2>5. \A j \in 1..4 : j <= Chars(size(n)) <=> n < g \/ j <= r + 1
    BY <1>2, <2>4
  <2>6. piece(n) \in [1..4 -> 0..Pad]
    BY <2>3
  <2>7. piece(n) \in Seq(0..Pad) /\ Len(piece(n)) = 4
    <3> HIDE DEF piece
    <3>1. 4 \in Nat
      OBVIOUS
    <3> QED BY <2>6, <3>1, OfLength
  <2> QED BY <2>5, <2>7
<1>6. p \in Seq(Seq(0..Pad)) /\ Len(p) = g /\ \A n \in 1..g : p[n] = piece(n)
  <2> HIDE DEF piece
  <2>1. p \in [1..g -> Seq(0..Pad)]
    BY <1>5
  <2> QED BY <1>2, <2>1
<1> HIDE DEF p, piece
<1>7. AtBlocks(e, p, 4)
  <2>1. InBlocks(p, 4)
    BY <1>2, <1>5, <1>6 DEF InBlocks
  <2>2. 4 \in {3, 4}
    OBVIOUS
  <2> QED BY <1>3, <1>6, <2>1, <2>2, BlocksFlatten
<1>8. e \in Seq(0..Pad)
  BY <1>3, <1>6, FlattenTyped
<1>9. Len(e) = 4 * g
  <2>1. p # <<>> /\ g \in 1..g /\ Len(p[g]) = 4
    BY <1>2, <1>5, <1>6
  <2>2. Len(e) = 4 * (g - 1) + 4
    BY <1>6, <1>7, <2>1 DEF AtBlocks
  <2> QED BY <1>2, <2>2
<1>10. ASSUME NEW n \in 1..g, NEW j \in 1..4
       PROVE  e[4 * (n - 1) + j] = IF n < g \/ j <= r + 1 THEN Sextets(b(n))[j] ELSE Pad
  <2>1. p[n] = piece(n) /\ n \in 1..Len(p) /\ j \in 1..Len(p[n])
    BY <1>5, <1>6
  <2>2. e[4 * (n - 1) + j] = p[n][j]
    BY <1>7, <2>1 DEF AtBlocks
  <2> QED BY <1>5, <2>1, <2>2
<1> QED BY <1>4, <1>8, <1>9, <1>10 DEF EncodedIn, e, b

\* A function of no numbers is the empty text.
LEMMA NoEntries ==
  ASSUME NEW f \in [1..0 -> {}]
  PROVE  f = <<>>
<1>1. f \in Seq({}) /\ Len(f) = 0
  <2>1. 0 \in Nat
    OBVIOUS
  <2> QED BY <2>1, OfLength
<1> QED BY <1>1

LEMMA NothingReturns == Base64Returns(<<>>)
<1>1. base64_encode(<<>>) = <<>>
  <2>1. Groups(<<>>, 3) = 0
    BY DEF Groups
  <2> DEFINE piece(n) == [j \in 1..4 |-> IF j <= Chars(GroupSize(<<>>, n, 3))
                                         THEN Sextets(Group(<<>>, n, 3, 0))[j] ELSE Pad]
             p == [n \in 1..0 |-> piece(n)]
  <2>2. base64_encode(<<>>) = FlattenSeq(p)
    BY <2>1, Zenon DEF base64_encode
  <2> HIDE DEF piece
  <2>3. p \in [1..0 -> {}]
    OBVIOUS
  <2>4. p = <<>>
    <3> HIDE DEF p
    <3> QED BY <2>3, NoEntries
  <2> QED BY <2>2, <2>4, FlattenNone
<1>2. base64_decode(<<>>) = <<>>
  <2>1. Groups(<<>>, 4) = 0
    BY DEF Groups
  <2>2. Find(<<>>, Pad) = 0
    <3> DEFINE none == <<>>
    <3>1. none \in Seq({}) /\ Len(none) = 0
      OBVIOUS
    <3> HIDE DEF none
    <3>2. Find(none, Pad) = 0 \/ Find(none, Pad) \in 1..Len(none)
      BY <3>1, FindIs DEF FirstAt
    <3>3. Find(none, Pad) = 0
      BY <3>1, <3>2
    <3> QED BY <3>3 DEF none
  <2> DEFINE piece(n) == SubSeq(Octets(Group(<<>>, n, 4, NotFound)), 1, GroupSize(<<>>, n, 4) - 1)
             p == [n \in 1..0 |-> piece(n)]
  <2>3. base64_decode(<<>>) = FlattenSeq(p)
    BY <2>1, <2>2, Zenon DEF base64_decode
  <2> HIDE DEF piece
  <2>4. p \in [1..0 -> {}]
    OBVIOUS
  <2>5. p = <<>>
    <3> HIDE DEF p
    <3> QED BY <2>4, NoEntries
  <2> QED BY <2>3, <2>5, FlattenNone
<1>3. <<>> \in Seq(0..Pad) /\ Len(<<>>) = 4 * ((Len(<<>>) + 2) \div 3)
  OBVIOUS
<1> QED BY <1>1, <1>2, <1>3 DEF Base64Returns

\* What is left of an encoded text without what fills it up.
Unpadded(e) == IF Find(e, Pad) = 0 THEN e ELSE Before(e, Find(e, Pad))

LEMMA UnpaddedIs ==
  ASSUME NEW S, NEW e \in Seq(S), NEW l \in Nat, l <= Len(e), \A x \in 1..l : e[x] # Pad,
         l < Len(e) => e[l + 1] = Pad
  PROVE  Unpadded(e) \in Seq(S) /\ Len(Unpadded(e)) = l /\ \A x \in 1..l : Unpadded(e)[x] = e[x]
<1>1. CASE l = Len(e)
  <2>1. Lacks(e, Pad, 1)
    BY <1>1 DEF Lacks
  <2>2. Find(e, Pad) = 0
    BY <2>1, FindFromNone DEF Find
  <2> QED BY <1>1, <2>2 DEF Unpadded
<1>2. CASE l < Len(e)
  <2>1. FirstAt(e, Pad, 1, l + 1)
    BY <1>2 DEF FirstAt
  <2>2. Find(e, Pad) = l + 1
    BY <2>1, FindFromFirst DEF Find
  <2>3. Unpadded(e) = SubSeq(e, 1, l + 1 - 1) /\ l + 1 - 1 = l /\ l + 1 # 0
    BY <2>2 DEF Unpadded, Before
  <2>4. Unpadded(e) = SubSeq(e, 1, l)
    BY <2>3
  <2>5. \A i \in 1..l : e[i] \in S
    BY <1>2
  <2>6. SubSeq(e, 1, l) \in Seq(S) /\ Len(SubSeq(e, 1, l)) = (IF 1 <= l THEN l - 1 + 1 ELSE 0)
        /\ \A i \in 1..(l - 1 + 1) : SubSeq(e, 1, l)[i] = e[1 + i - 1]
    BY <2>5, SubSeqProperties
  <2> QED BY <2>4, <2>6
<1>3. l = Len(e) \/ l < Len(e)
  OBVIOUS
<1> QED BY <1>1, <1>2, <1>3

\* Where the bytes of a text are, in groups of three.
BytesIn(text, g, r) ==
  /\ \A n \in 1..g : \A j \in 1..3 : n < g \/ j <= r =>
       3 * (n - 1) + j \in 1..Len(text) /\ Group(text, n, 3, 0)[j] = text[3 * (n - 1) + j]
  /\ \A x \in 1..Len(text) : \E n \in 1..g, j \in 1..3 : (n < g \/ j <= r) /\ x = 3 * (n - 1) + j

LEMMA ByteGroups ==
  ASSUME NEW text \in Seq(Byte), NEW g, NEW r, InGroups(Len(text), 3, g, r)
  PROVE  BytesIn(text, g, r)
<1>1. GroupsFit(text, 3, g, r)
  <2>1. 3 \in {3, 4}
    OBVIOUS
  <2> QED BY <2>1, GroupsAre, Zenon
<1>2. \A n \in 1..g : \A j \in 1..3 : n < g \/ j <= r =>
        3 * (n - 1) + j \in 1..Len(text) /\ Group(text, n, 3, 0)[j] = text[3 * (n - 1) + j]
  BY <1>1 DEF GroupsFit
<1>3. ASSUME NEW x \in 1..Len(text)
      PROVE  \E n \in 1..g, j \in 1..3 : (n < g \/ j <= r) /\ x = 3 * (n - 1) + j
  <2> DEFINE l == Len(text)
             n == (x - 1) \div 3 + 1
             j == ((x - 1) % 3) + 1
  <2>1. g \in Nat \ {0} /\ r \in 1..3 /\ l = 3 * (g - 1) + r /\ x \in 1..l
    BY DEF InGroups
  <2> HIDE DEF l
  <2>2. n \in 1..g /\ j \in 1..3 /\ (n < g \/ j <= r) /\ x = 3 * (n - 1) + j
    BY <2>1
  <2> QED BY <2>2
<1> QED BY <1>2, <1>3 DEF BytesIn

\* The characters of an encoded text that are no padding.
CharactersIn(s, text, g, r) ==
  /\ s \in Seq(0..Pad) /\ InGroups(Len(s), 4, g, r + 1)
  /\ \A n \in 1..g : \A j \in 1..4 : n < g \/ j <= r + 1 =>
       s[4 * (n - 1) + j] = Sextets(Group(text, n, 3, 0))[j]

LEMMA CharactersAre ==
  ASSUME NEW text \in Seq(Byte), NEW g, NEW r, InGroups(Len(text), 3, g, r)
  PROVE  CharactersIn(Unpadded(base64_encode(text)), text, g, r)
<1> DEFINE e == base64_encode(text)
           l == 4 * (g - 1) + (r + 1)
           b(n) == Group(text, n, 3, 0)
<1>1. /\ e \in Seq(0..Pad) /\ Len(e) = 4 * g
      /\ \A n \in 1..g : \A j \in 1..4 :
           e[4 * (n - 1) + j] = IF n < g \/ j <= r + 1 THEN Sextets(b(n))[j] ELSE Pad
      /\ \A n \in 1..g : \A j \in 1..3 : b(n)[j] \in Byte
  BY EncodeIs, Zenon DEF EncodedIn
<1>2. g \in Nat \ {0} /\ r \in 1..3
  BY DEF InGroups
<1> HIDE DEF e, b
<1>3. ASSUME NEW n \in 1..g, NEW j \in 1..4 PROVE Sextets(b(n))[j] # Pad
  <2>1. b(n)[1] \in Byte /\ b(n)[2] \in Byte /\ b(n)[3] \in Byte
    BY <1>1
  <2>2. Sextets(b(n))[j] \in 0..63
    BY <2>1, SextetsIs
  <2>3. \A y \in 0..63 : y # Pad
    BY DEF Pad
  <2> QED BY <2>2, <2>3
<1>4. ASSUME NEW x \in 1..l PROVE e[x] # Pad
  <2> DEFINE n == (x - 1) \div 4 + 1
             j == ((x - 1) % 4) + 1
  <2>1. n \in 1..g /\ j \in 1..4 /\ (n < g \/ j <= r + 1) /\ x = 4 * (n - 1) + j
    BY <1>2
  <2> HIDE DEF n, j
  <2>2. e[4 * (n - 1) + j] = Sextets(b(n))[j]
    BY <1>1, <2>1
  <2>3. Sextets(b(n))[j] # Pad
    BY <1>3, <2>1
  <2> QED BY <2>1, <2>2, <2>3
<1>5. l < Len(e) => e[l + 1] = Pad
  <2> SUFFICES ASSUME l < Len(e) PROVE e[l + 1] = Pad
    OBVIOUS
  <2>1. g \in 1..g /\ r + 2 \in 1..4 /\ l + 1 = 4 * (g - 1) + (r + 2) /\ ~(g < g) /\ ~(r + 2 <= r + 1)
    BY <1>1, <1>2
  <2>2. e[4 * (g - 1) + (r + 2)] = Pad
    BY <1>1, <2>1
  <2> QED BY <2>1, <2>2
<1>6. l \in Nat /\ l <= Len(e)
  BY <1>1, <1>2
<1>7. Unpadded(e) \in Seq(0..Pad) /\ Len(Unpadded(e)) = l /\ \A x \in 1..l : Unpadded(e)[x] = e[x]
  <2> HIDE DEF l
  <2> QED BY <1>1, <1>4, <1>5, <1>6, UnpaddedIs
<1>8. InGroups(Len(Unpadded(e)), 4, g, r + 1)
  BY <1>2, <1>7 DEF InGroups
<1>9. ASSUME NEW n \in 1..g, NEW j \in 1..4, n < g \/ j <= r + 1
      PROVE  Unpadded(e)[4 * (n - 1) + j] = Sextets(b(n))[j]
  <2>1. 4 * (n - 1) + j \in 1..l
    BY <1>2, <1>9
  <2>2. e[4 * (n - 1) + j] = Sextets(b(n))[j]
    BY <1>1, <1>9
  <2>3. Unpadded(e)[4 * (n - 1) + j] = e[4 * (n - 1) + j]
    <3> HIDE DEF l
    <3> QED BY <1>7, <2>1
  <2> QED BY <2>2, <2>3
<1>10. \A n \in 1..g : \A j \in 1..4 : n < g \/ j <= r + 1 => Unpadded(e)[4 * (n - 1) + j] = Sextets(b(n))[j]
  BY <1>9
<1> HIDE DEF l
<1> QED BY <1>7, <1>8, <1>10, Zenon DEF CharactersIn, e, b

LEMMA OctetsTyped ==
  ASSUME NEW q, NEW m \in 1..3, NEW S, \A j \in 1..m : Octets(q)[j] \in S
  PROVE  /\ SubSeq(Octets(q), 1, m) \in Seq(S) /\ Len(SubSeq(Octets(q), 1, m)) = m
         /\ \A j \in 1..m : SubSeq(Octets(q), 1, m)[j] = Octets(q)[j]
<1>1. /\ SubSeq(Octets(q), 1, m) \in Seq(S)
      /\ Len(SubSeq(Octets(q), 1, m)) = (IF 1 <= m THEN m - 1 + 1 ELSE 0)
      /\ \A j \in 1..(m - 1 + 1) : SubSeq(Octets(q), 1, m)[j] = Octets(q)[1 + j - 1]
  BY SubSeqProperties
<1>2. m \in Nat /\ 1 <= m /\ m - 1 + 1 = m /\ \A j \in 1..m : 1 + j - 1 = j
  OBVIOUS
<1> QED BY <1>1, <1>2

\* A group of characters gives the bytes of the group it stands for.
Returned(d, text, n, g, r) ==
  /\ d \in Seq(Byte) /\ Len(d) = (IF n < g THEN 3 ELSE r)
  /\ \A j \in 1..Len(d) : d[j] = text[3 * (n - 1) + j]

LEMMA GroupReturns ==
  ASSUME NEW text \in Seq(Byte), NEW g, NEW r, InGroups(Len(text), 3, g, r), NEW n \in 1..g, NEW s,
         s = Unpadded(base64_encode(text)), NEW d,
         d = SubSeq(Octets(Group(s, n, 4, NotFound)), 1, GroupSize(s, n, 4) - 1)
  PROVE  Returned(d, text, n, g, r)
<1> DEFINE b == Group(text, n, 3, 0)
           q == Group(s, n, 4, NotFound)
           m == IF n < g THEN 3 ELSE r
<1>1. /\ s \in Seq(0..Pad) /\ InGroups(Len(s), 4, g, r + 1)
      /\ \A j \in 1..4 : n < g \/ j <= r + 1 => s[4 * (n - 1) + j] = Sextets(b)[j]
  BY CharactersAre, Zenon DEF CharactersIn
<1>2. b[1] \in Byte /\ b[2] \in Byte /\ b[3] \in Byte
  <2>1. \A i \in 1..g : \A j \in 1..3 : Group(text, i, 3, 0)[j] \in Byte
    BY EncodeIs, Zenon DEF EncodedIn
  <2>2. 1 \in 1..3 /\ 2 \in 1..3 /\ 3 \in 1..3
    OBVIOUS
  <2> QED BY <2>1, <2>2
<1>3. g \in Nat \ {0} /\ r \in 1..3
  BY DEF InGroups
<1>4. /\ \A j \in 1..4 : q[j] = IF n < g \/ j <= r + 1 THEN s[4 * (n - 1) + j] ELSE NotFound
      /\ GroupSize(s, n, 4) = IF n < g THEN 4 ELSE r + 1
  <2>1. GroupsFit(s, 4, g, r + 1)
    <3>1. 4 \in {3, 4}
      OBVIOUS
    <3> QED BY <1>1, <3>1, GroupsAre, Zenon
  <2> QED BY <2>1 DEF GroupsFit
<1> HIDE DEF b, q
<1>5. \A j \in 1..4 : n < g \/ j <= r + 1 => q[j] = Sextets(b)[j]
  BY <1>1, <1>4
<1>6. m \in 1..3 /\ GroupSize(s, n, 4) - 1 = m /\ \A j \in 1..m : n < g \/ j <= r
  BY <1>3, <1>4
<1>7. ASSUME NEW j \in 1..m PROVE Octets(q)[j] = b[j] /\ b[j] \in Byte
  <2>1. j \in 1..3 /\ j \in 1..4 /\ j + 1 \in 1..4 /\ (n < g \/ j <= r + 1) /\ (n < g \/ j + 1 <= r + 1)
    BY <1>3, <1>6
  <2>2. q[j] = Sextets(b)[j] /\ q[j + 1] = Sextets(b)[j + 1]
    BY <1>5, <2>1
  <2>3. Octets(q)[j] = b[j]
    BY <1>2, <2>1, <2>2, OctetsReturn
  <2>4. j = 1 \/ j = 2 \/ j = 3
    BY <2>1
  <2> QED BY <1>2, <2>3, <2>4
<1>8. d = SubSeq(Octets(q), 1, m)
  BY <1>6, Zenon DEF q
<1> HIDE DEF m
<1>9. d \in Seq(Byte) /\ Len(d) = m /\ \A j \in 1..m : d[j] = Octets(q)[j]
  <2>1. \A j \in 1..m : Octets(q)[j] \in Byte
    BY <1>7
  <2> QED BY <1>6, <1>8, <2>1, OctetsTyped
<1>10. ASSUME NEW j \in 1..m PROVE d[j] = text[3 * (n - 1) + j]
  <2>1. \A i \in 1..g : \A h \in 1..3 : i < g \/ h <= r =>
          3 * (i - 1) + h \in 1..Len(text) /\ Group(text, i, 3, 0)[h] = text[3 * (i - 1) + h]
    <3>1. BytesIn(text, g, r)
      BY ByteGroups, Zenon
    <3> QED BY <3>1 DEF BytesIn
  <2>2. j \in 1..3 /\ (n < g \/ j <= r)
    BY <1>6
  <2>3. b[j] = text[3 * (n - 1) + j]
    BY <2>1, <2>2 DEF b
  <2> QED BY <1>7, <1>9, <2>3
<1> QED BY <1>9, <1>10 DEF m, Returned

\* The bytes come back from base64.
THEOREM BytesReturn ==
  ASSUME NEW text \in Seq(Byte)
  PROVE  Base64Returns(text)
<1>1. CASE text = <<>>
  BY <1>1, NothingReturns
<1>2. CASE text # <<>>
  <2>1. PICK g, r : InGroups(Len(text), 3, g, r) /\ g = (Len(text) + 2) \div 3
    <3>1. Len(text) \in Nat /\ Len(text) > 0
      BY <1>2
    <3> QED BY <3>1, GroupsExist
  <2> DEFINE e == base64_encode(text)
             s == Unpadded(e)
             d(n) == SubSeq(Octets(Group(s, n, 4, NotFound)), 1, GroupSize(s, n, 4) - 1)
             p == [n \in 1..g |-> d(n)]
             f == FlattenSeq(p)
  <2>2. e \in Seq(0..Pad) /\ Len(e) = 4 * g
    BY <2>1, EncodeIs, Zenon DEF EncodedIn
  <2>3. g \in Nat \ {0} /\ r \in 1..3 /\ Len(text) = 3 * (g - 1) + r
    BY <2>1 DEF InGroups
  <2>4. Groups(s, 4) = g
    <3>1. s \in Seq(0..Pad) /\ InGroups(Len(s), 4, g, r + 1)
      BY <2>1, CharactersAre, Zenon DEF CharactersIn
    <3> HIDE DEF s
    <3>2. 4 \in {3, 4}
      OBVIOUS
    <3>3. GroupsFit(s, 4, g, r + 1)
      BY <3>1, <3>2, GroupsAre, Zenon
    <3> QED BY <3>3, Zenon DEF GroupsFit
  <2>5. base64_decode(e) = f
    BY <2>4, Zenon DEF base64_decode, Unpadded
  <2>6. ASSUME NEW n \in 1..g PROVE Returned(d(n), text, n, g, r)
    BY <2>1, GroupReturns, Zenon
  <2> HIDE DEF d, s, e
  <2>7. p \in Seq(Seq(Byte)) /\ Len(p) = g /\ \A n \in 1..g : p[n] = d(n)
    <3>1. p \in [1..g -> Seq(Byte)]
      BY <2>6 DEF Returned
    <3>2. g \in Nat
      BY <2>3
    <3>3. \A n \in 1..g : p[n] = d(n)
      OBVIOUS
    <3> HIDE DEF p
    <3> QED BY <3>1, <3>2, <3>3, OfLength
  <2> HIDE DEF p, f
  <2>8. f \in Seq(Byte) /\ AtBlocks(f, p, 3)
    <3>1. InBlocks(p, 3)
      BY <2>3, <2>6, <2>7 DEF InBlocks, Returned
    <3>2. 3 \in {3, 4}
      OBVIOUS
    <3> QED BY <2>7, <3>1, <3>2, BlocksFlatten, FlattenTyped DEF f
  <2>9. Len(f) = Len(text)
    <3>1. p # <<>> /\ g \in 1..g /\ Len(p[g]) = r
      BY <2>3, <2>6, <2>7 DEF Returned
    <3>2. Len(f) = 3 * (g - 1) + r
      BY <2>7, <2>8, <3>1 DEF AtBlocks
    <3> QED BY <2>3, <3>2
  <2>10. ASSUME NEW x \in 1..Len(text) PROVE f[x] = text[x]
    <3>1. \A y \in 1..Len(text) : \E n \in 1..g, j \in 1..3 : (n < g \/ j <= r) /\ y = 3 * (n - 1) + j
      <4>1. BytesIn(text, g, r)
        BY <2>1, ByteGroups, Zenon
      <4> QED BY <4>1 DEF BytesIn
    <3>2. PICK n \in 1..g, j \in 1..3 : (n < g \/ j <= r) /\ x = 3 * (n - 1) + j
      BY <3>1
    <3>3. p[n] = d(n) /\ n \in 1..Len(p) /\ j \in 1..Len(p[n])
      <4>1. p[n] = d(n) /\ n \in 1..Len(p)
        BY <2>7
      <4>2. Len(d(n)) = IF n < g THEN 3 ELSE r
        BY <2>6 DEF Returned
      <4>3. j \in 1..(IF n < g THEN 3 ELSE r)
        BY <2>3, <3>2
      <4> QED BY <4>1, <4>2, <4>3
    <3>4. f[3 * (n - 1) + j] = p[n][j]
      BY <2>8, <3>3 DEF AtBlocks
    <3>5. d(n)[j] = text[3 * (n - 1) + j]
      BY <2>6, <3>3 DEF Returned
    <3> QED BY <3>2, <3>3, <3>4, <3>5
  <2>11. f = text
    BY <2>8, <2>9, <2>10, SeqEqual
  <2> QED BY <2>1, <2>2, <2>5, <2>11 DEF Base64Returns, e
<1> QED BY <1>1, <1>2

-----------------------------------------------------------------------------
(* A text without some of its characters. *)

\* Each character, or nothing, as a piece.
KeptCharacters(s, cs) == [i \in DOMAIN s |-> IF s[i] \in cs THEN <<>> ELSE <<s[i]>>]

LEMMA KeptPieces ==
  ASSUME NEW S, NEW s \in Seq(S), NEW cs
  PROVE  /\ WithoutAll(s, cs) = FlattenSeq(KeptCharacters(s, cs))
         /\ KeptCharacters(s, cs) \in Seq(Seq(S)) /\ Len(KeptCharacters(s, cs)) = Len(s)
         /\ \A i \in 1..Len(s) : KeptCharacters(s, cs)[i] = IF s[i] \in cs THEN <<>> ELSE <<s[i]>>
<1>1. WithoutAll(s, cs) = FlattenSeq(KeptCharacters(s, cs))
  BY Zenon DEF WithoutAll, KeptCharacters
<1>2. DOMAIN s = 1..Len(s) /\ Len(s) \in Nat
  OBVIOUS
<1>3. \A i \in 1..Len(s) : (IF s[i] \in cs THEN <<>> ELSE <<s[i]>>) \in Seq(S)
  <2>1. \A x \in S : <<x>> \in Seq(S) /\ <<>> \in Seq(S)
    OBVIOUS
  <2>2. \A i \in 1..Len(s) : s[i] \in S
    OBVIOUS
  <2> QED BY <2>1, <2>2
<1>4. KeptCharacters(s, cs) \in [1..Len(s) -> Seq(S)]
  BY <1>2, <1>3 DEF KeptCharacters
<1>5. KeptCharacters(s, cs) \in Seq(Seq(S)) /\ Len(KeptCharacters(s, cs)) = Len(s)
  BY <1>2, <1>4, OfLength
<1> QED BY <1>1, <1>2, <1>5 DEF KeptCharacters

LEMMA WithoutTyped ==
  ASSUME NEW S, NEW s \in Seq(S), NEW cs
  PROVE  WithoutAll(s, cs) \in Seq(S)
BY KeptPieces, FlattenTyped

\* What is left of two texts, one behind the other.
WithoutSplits(s, t, cs) == WithoutAll(s \o t, cs) = WithoutAll(s, cs) \o WithoutAll(t, cs)

LEMMA WithoutConcat ==
  ASSUME NEW S, NEW s \in Seq(S), NEW t \in Seq(S), NEW cs
  PROVE  WithoutSplits(s, t, cs)
<1> DEFINE u == s \o t
<1>1. /\ u \in Seq(S) /\ Len(u) = Len(s) + Len(t)
      /\ \A i \in 1..(Len(s) + Len(t)) : u[i] = IF i <= Len(s) THEN s[i] ELSE t[i - Len(s)]
  BY ConcatProperties
<1> HIDE DEF u
<1> DEFINE a == KeptCharacters(s, cs)
           b == KeptCharacters(t, cs)
           e == KeptCharacters(u, cs)
<1>2. /\ WithoutAll(s, cs) = FlattenSeq(a) /\ a \in Seq(Seq(S)) /\ Len(a) = Len(s)
      /\ \A i \in 1..Len(s) : a[i] = IF s[i] \in cs THEN <<>> ELSE <<s[i]>>
  BY KeptPieces
<1>3. /\ WithoutAll(t, cs) = FlattenSeq(b) /\ b \in Seq(Seq(S)) /\ Len(b) = Len(t)
      /\ \A i \in 1..Len(t) : b[i] = IF t[i] \in cs THEN <<>> ELSE <<t[i]>>
  BY KeptPieces
<1>4. /\ WithoutAll(u, cs) = FlattenSeq(e) /\ e \in Seq(Seq(S)) /\ Len(e) = Len(u)
      /\ \A i \in 1..Len(u) : e[i] = IF u[i] \in cs THEN <<>> ELSE <<u[i]>>
  BY <1>1, KeptPieces, SMTT(60)
<1> HIDE DEF a, b, e
<1>5. /\ a \o b \in Seq(Seq(S)) /\ Len(a \o b) = Len(s) + Len(t)
      /\ \A i \in 1..(Len(s) + Len(t)) : (a \o b)[i] = IF i <= Len(s) THEN a[i] ELSE b[i - Len(s)]
  <2>1. /\ a \o b \in Seq(Seq(S)) /\ Len(a \o b) = Len(a) + Len(b)
        /\ \A i \in 1..(Len(a) + Len(b)) : (a \o b)[i] = IF i <= Len(a) THEN a[i] ELSE b[i - Len(a)]
    <3>1. a \in Seq(Seq(S)) /\ b \in Seq(Seq(S))
      BY <1>2, <1>3
    <3> QED BY <3>1, ConcatProperties, Zenon
  <2> QED BY <1>2, <1>3, <2>1
<1>6. e = a \o b
  <2>1. ASSUME NEW i \in 1..Len(e) PROVE e[i] = (a \o b)[i]
    <3>1. i \in 1..(Len(s) + Len(t)) /\ Len(s) \in Nat /\ Len(t) \in Nat
      BY <1>1, <1>4
    <3>2. e[i] = IF u[i] \in cs THEN <<>> ELSE <<u[i]>>
      BY <1>1, <1>4, <3>1
    <3>3. CASE i <= Len(s)
      <4>1. u[i] = s[i] /\ (a \o b)[i] = a[i] /\ i \in 1..Len(s)
        BY <1>1, <1>5, <3>1, <3>3
      <4>2. a[i] = IF s[i] \in cs THEN <<>> ELSE <<s[i]>>
        BY <1>2, <4>1
      <4> QED BY <3>2, <4>1, <4>2
    <3>4. CASE ~(i <= Len(s))
      <4> DEFINE j == i - Len(s)
      <4>1. u[i] = t[j] /\ (a \o b)[i] = b[j] /\ j \in 1..Len(t)
        BY <1>1, <1>5, <3>1, <3>4
      <4> HIDE DEF j
      <4>2. b[j] = IF t[j] \in cs THEN <<>> ELSE <<t[j]>>
        BY <1>3, <4>1
      <4> QED BY <3>2, <4>1, <4>2
    <3> QED BY <3>3, <3>4
  <2>2. Len(e) = Len(a \o b)
    BY <1>1, <1>4, <1>5
  <2> DEFINE w == a \o b
  <2>3. w \in Seq(Seq(S)) /\ Len(e) = Len(w) /\ \A i \in 1..Len(e) : e[i] = w[i]
    BY <1>5, <2>1, <2>2
  <2> HIDE DEF w
  <2>4. e = w
    BY <1>4, <2>3, SeqEqual
  <2> QED BY <2>4 DEF w
<1>7. FlattenSeq(a \o b) = FlattenSeq(a) \o FlattenSeq(b)
  BY <1>2, <1>3, FlattenConcat
<1> QED BY <1>2, <1>3, <1>4, <1>6, <1>7, Zenon DEF u, WithoutSplits

LEMMA WithoutNothing ==
  ASSUME NEW cs
  PROVE  WithoutAll(<<>>, cs) = <<>>
<1>1. KeptCharacters(<<>>, cs) = <<>>
  BY DEF KeptCharacters
<1>2. WithoutAll(<<>>, cs) = FlattenSeq(KeptCharacters(<<>>, cs))
  BY Zenon DEF WithoutAll, KeptCharacters
<1> QED BY <1>1, <1>2, FlattenNone

\* A character that is left out is nothing.
LEMMA WithoutOne ==
  ASSUME NEW cs, NEW c \in cs
  PROVE  WithoutAll(<<c>>, cs) = <<>>
<1>1. KeptCharacters(<<c>>, cs) = <<<<>>>>
  <2>1. DOMAIN <<c>> = {1} /\ <<c>>[1] = c
    OBVIOUS
  <2>2. KeptCharacters(<<c>>, cs) = [i \in {1} |-> <<>>]
    BY <2>1 DEF KeptCharacters
  <2>3. [i \in {1} |-> <<>>] = <<<<>>>>
    OBVIOUS
  <2> QED BY <2>2, <2>3
<1>2. WithoutAll(<<c>>, cs) = FlattenSeq(KeptCharacters(<<c>>, cs))
  BY Zenon DEF WithoutAll, KeptCharacters
<1>3. <<>> \in Seq({})
  OBVIOUS
<1> QED BY <1>1, <1>2, <1>3, FlattenOne

\* A text that is cut at such a character.
LEMMA WithoutAt ==
  ASSUME NEW S, NEW s \in Seq(S), NEW cs, NEW i \in 1..Len(s), s[i] \in cs
  PROVE  WithoutAll(s, cs) = WithoutAll(Before(s, i), cs) \o WithoutAll(From(s, i + 1), cs)
<1> DEFINE c == s[i]
           b == Before(s, i)
           f == From(s, i + 1)
<1>1. b \in Seq(S) /\ f \in Seq(S) /\ <<c>> \in Seq(S) /\ <<c>> \o f \in Seq(S)
  <2>1. b \in Seq(S) /\ f \in Seq(S)
    BY PartsOf
  <2>2. c \in S
    OBVIOUS
  <2> HIDE DEF b, f, c
  <2> QED BY <2>1, <2>2
<1>2. s = b \o (<<c>> \o f)
  <2>1. s = b \o From(s, i)
    BY PartsJoin
  <2>2. From(s, i) = <<c>> \o f
    <3>1. i \in 1..Len(s) /\ Len(s) \in i..Len(s)
      OBVIOUS
    <3> QED BY <3>1, SubSeqRecursiveFirst DEF From
  <2> QED BY <2>1, <2>2, Zenon
<1> HIDE DEF b, f
<1>3. WithoutAll(b \o (<<c>> \o f), cs) = WithoutAll(b, cs) \o WithoutAll(<<c>> \o f, cs)
  <2>1. WithoutSplits(b, <<c>> \o f, cs)
    BY <1>1, WithoutConcat, Zenon
  <2> QED BY <2>1 DEF WithoutSplits
<1>4. WithoutAll(<<c>> \o f, cs) = WithoutAll(<<c>>, cs) \o WithoutAll(f, cs)
  <2>1. WithoutSplits(<<c>>, f, cs)
    BY <1>1, WithoutConcat, Zenon
  <2> QED BY <2>1 DEF WithoutSplits
<1>5. WithoutAll(<<c>>, cs) = <<>>
  BY WithoutOne
<1>6. <<>> \o WithoutAll(f, cs) = WithoutAll(f, cs)
  BY <1>1, WithoutTyped, ConcatEmptySeq
<1>7. WithoutAll(s, cs) = WithoutAll(b, cs) \o WithoutAll(f, cs)
  BY <1>2, <1>3, <1>4, <1>5, <1>6, Zenon
<1> QED BY <1>7 DEF b, f

-----------------------------------------------------------------------------
(* Pieces between two separators of one character. *)

\* A separator that stands at a place is the character there.
LEMMA StandsOne ==
  ASSUME NEW S, NEW s \in Seq(S), NEW c, NEW i \in Nat \ {0}, StandsAt(s, <<c>>, i)
  PROVE  i \in 1..Len(s) /\ s[i] = c
<1> DEFINE sep == <<c>>
<1>1. Len(sep) = 1 /\ i + 1 - 1 = i
  OBVIOUS
<1> HIDE DEF sep
<1>2. i + 1 - 1 <= Len(s) /\ SubSeq(s, i, i + 1 - 1) = sep
  BY <1>1 DEF StandsAt, sep
<1>3. i \in 1..Len(s) /\ SubSeq(s, i, i) = sep
  BY <1>1, <1>2
<1>4. SubSeq(s, i, i)[1] = s[i]
  <2>1. \A j \in i..i : s[j] \in S
    BY <1>3
  <2>2. \A j \in 1..(i - i + 1) : SubSeq(s, i, i)[j] = s[i + j - 1]
    BY <2>1, SubSeqProperties
  <2> QED BY <2>2
<1>5. sep[1] = c
  BY DEF sep
<1> QED BY <1>3, <1>4, <1>5

\* What one turn of splitAny does to what is left, the pieces and the place, and that f says so
\* for the first n of them.
Turn(t, x, next) ==
  LET found == x # <<>> /\ StandsAt(t.left, x, t.place)
  IN [left |-> IF found THEN Cut(t.left, t.place, x) ELSE t.left,
      pieces |-> IF found THEN Append(t.pieces, Before(t.left, t.place)) ELSE t.pieces,
      place |-> (IF found THEN 1 ELSE t.place) + (IF next THEN 1 ELSE 0)]
TurnOf(f, seps, k) == Turn(f[k - 1], seps[((k - 1) % Len(seps)) + 1], k % Len(seps) = 0)
Turns(f, source, seps, n) ==
  f = [k \in 0..n |-> IF k = 0 THEN [left |-> source, pieces |-> <<>>, place |-> 1] ELSE TurnOf(f, seps, k)]

LEMMA TurnsAt ==
  ASSUME NEW f, NEW source, NEW seps, NEW n, Turns(f, source, seps, n), NEW k \in 0..n
  PROVE  f[k] = IF k = 0 THEN [left |-> source, pieces |-> <<>>, place |-> 1] ELSE TurnOf(f, seps, k)
<1> DEFINE h == [j \in 0..n |-> IF j = 0 THEN [left |-> source, pieces |-> <<>>, place |-> 1]
                                ELSE TurnOf(f, seps, j)]
<1>1. f = h
  BY DEF Turns
<1>2. h[k] = IF k = 0 THEN [left |-> source, pieces |-> <<>>, place |-> 1] ELSE TurnOf(f, seps, k)
  OBVIOUS
<1> HIDE DEF h
<1> QED BY <1>1, <1>2

LEMMA TurnsExist ==
  ASSUME NEW source, NEW seps, NEW m \in Nat
  PROVE  \E f : Turns(f, source, seps, m)
<1> DEFINE T == {n \in Nat : \E f : Turns(f, source, seps, n)}
           start == [left |-> source, pieces |-> <<>>, place |-> 1]
<1> HIDE DEF start
<1>1. 0 \in T
  <2> DEFINE f == [k \in 0..0 |-> start]
             h == [k \in 0..0 |-> IF k = 0 THEN start ELSE TurnOf(f, seps, k)]
  <2>1. f = h
    OBVIOUS
  <2>2. Turns(f, source, seps, 0)
    <3> HIDE DEF f
    <3> QED BY <2>1 DEF Turns, start
  <2> QED BY <2>2
<1>2. ASSUME NEW n \in T PROVE n + 1 \in T
  <2>1. PICK f : Turns(f, source, seps, n)
    OBVIOUS
  <2> DEFINE x == TurnOf(f, seps, n + 1)
             g == [k \in 0..(n + 1) |-> IF k <= n THEN f[k] ELSE x]
             h == [k \in 0..(n + 1) |-> IF k = 0 THEN start ELSE TurnOf(g, seps, k)]
  <2>2. ASSUME NEW k \in 0..(n + 1) PROVE g[k] = IF k = 0 THEN start ELSE TurnOf(g, seps, k)
    <3>1. CASE k = 0
      <4>1. f[k] = start
        BY <2>1, <3>1, TurnsAt DEF start
      <4> QED BY <3>1, <4>1
    <3>2. CASE k # 0
      <4>1. g[k - 1] = f[k - 1]
        BY <3>2
      <4>2. TurnOf(g, seps, k) = TurnOf(f, seps, k)
        <5> HIDE DEF g
        <5> QED BY <4>1, Zenon DEF TurnOf
      <4>3. CASE k <= n
        <5>1. k \in 0..n
          BY <4>3
        <5>2. f[k] = TurnOf(f, seps, k)
          <6>1. f[k] = IF k = 0 THEN [left |-> source, pieces |-> <<>>, place |-> 1] ELSE TurnOf(f, seps, k)
            BY <2>1, <5>1, TurnsAt
          <6> QED BY <3>2, <6>1, Zenon
        <5> QED BY <3>2, <4>2, <4>3, <5>2
      <4>4. CASE k = n + 1
        BY <3>2, <4>2, <4>4
      <4> QED BY <4>3, <4>4
    <3> QED BY <3>1, <3>2
  <2>3. Turns(g, source, seps, n + 1)
    <3>1. \A k \in 0..(n + 1) : h[k] = g[k]
      BY <2>2
    <3>2. g = h
      <4>1. DOMAIN g = 0..(n + 1) /\ DOMAIN h = 0..(n + 1) /\ g = [k \in 0..(n + 1) |-> g[k]]
            /\ h = [k \in 0..(n + 1) |-> h[k]]
        OBVIOUS
      <4> HIDE DEF g, h
      <4> QED BY <3>1, <4>1
    <3> HIDE DEF g
    <3> QED BY <3>2 DEF Turns, start
  <2> QED BY <2>3
<1>3. m \in T
  <2> HIDE DEF T
  <2>1. T \in SUBSET Nat
    BY DEF T
  <2> QED BY <1>1, <1>2, <2>1, NumberInduction
<1> QED BY <1>3

\* What stays true of the pieces and of what is left.
KeptIn(t, text, cs, S) ==
  /\ t.left \in Seq(S) /\ t.pieces \in Seq(Seq(S)) /\ t.place \in Nat \ {0}
  /\ WithoutAll(FlattenSeq(t.pieces), cs) \o WithoutAll(t.left, cs) = WithoutAll(text, cs)

LEMMA TurnKeeps ==
  ASSUME NEW S, NEW text \in Seq(S), NEW cs, NEW t, KeptIn(t, text, cs, S), NEW c \in cs, NEW next
  PROVE  KeptIn(Turn(t, <<c>>, next), text, cs, S)
<1> DEFINE found == <<c>> # <<>> /\ StandsAt(t.left, <<c>>, t.place)
           u == Turn(t, <<c>>, next)
           l == t.left
           p == t.place
           f == FlattenSeq(t.pieces)
<1>1. /\ l \in Seq(S) /\ t.pieces \in Seq(Seq(S)) /\ p \in Nat \ {0} /\ f \in Seq(S)
      /\ WithoutAll(f, cs) \o WithoutAll(l, cs) = WithoutAll(text, cs)
  BY FlattenTyped DEF KeptIn
<1>2. CASE ~found
  <2>1. u.left = l /\ u.pieces = t.pieces /\ u.place \in Nat \ {0}
    BY <1>1, <1>2 DEF Turn
  <2> HIDE DEF u
  <2> QED BY <1>1, <2>1 DEF KeptIn, u
<1>3. CASE found
  <2> DEFINE b == Before(l, p)
             r == From(l, p + 1)
  <2>1. u.left = Cut(l, p, <<c>>) /\ u.pieces = Append(t.pieces, b) /\ u.place \in Nat \ {0}
    BY <1>1, <1>3 DEF Turn
  <2>2. p \in 1..Len(l) /\ l[p] = c
    <3>1. StandsAt(l, <<c>>, p)
      BY <1>3
    <3> HIDE DEF l, p
    <3> QED BY <1>1, <3>1, StandsOne
  <2>3. Cut(l, p, <<c>>) = r
    BY DEF Cut
  <2> HIDE DEF u, l, p, f
  <2>4. b \in Seq(S) /\ r \in Seq(S)
    <3>1. p \in 1..(Len(l) + 1) /\ p + 1 \in 1..(Len(l) + 1)
      BY <1>1, <2>2
    <3> QED BY <1>1, <3>1, PartsOf
  <2>5. WithoutAll(l, cs) = WithoutAll(b, cs) \o WithoutAll(r, cs)
    <3>1. l[p] \in cs
      BY <2>2
    <3> QED BY <1>1, <2>2, <3>1, WithoutAt
  <2> HIDE DEF b, r
  <2>6. FlattenSeq(u.pieces) = f \o b
    BY <1>1, <2>1, <2>4, FlattenAppend DEF f
  <2>7. WithoutAll(f \o b, cs) = WithoutAll(f, cs) \o WithoutAll(b, cs)
    <3>1. WithoutSplits(f, b, cs)
      BY <1>1, <2>4, WithoutConcat, Zenon
    <3> QED BY <3>1 DEF WithoutSplits
  <2>8. (WithoutAll(f, cs) \o WithoutAll(b, cs)) \o WithoutAll(r, cs) = WithoutAll(f, cs) \o (WithoutAll(b, cs) \o WithoutAll(r, cs))
    <3>1. WithoutAll(f, cs) \in Seq(S) /\ WithoutAll(b, cs) \in Seq(S) /\ WithoutAll(r, cs) \in Seq(S)
      BY <1>1, <2>4, WithoutTyped
    <3> QED BY <3>1, ConcatAssociative
  <2>9. WithoutAll(FlattenSeq(u.pieces), cs) \o WithoutAll(u.left, cs) = WithoutAll(text, cs)
    BY <1>1, <2>1, <2>3, <2>5, <2>6, <2>7, <2>8, Zenon
  <2>10. u.pieces \in Seq(Seq(S)) /\ u.left \in Seq(S)
    BY <1>1, <2>1, <2>3, <2>4
  <2> QED BY <2>1, <2>9, <2>10 DEF KeptIn, u
<1> QED BY <1>2, <1>3

LEMMA TurnsKeep ==
  ASSUME NEW S, NEW text \in Seq(S), NEW c, NEW d, NEW f, NEW n \in Nat, Turns(f, text, <<<<c>>, <<d>>>>, n)
  PROVE  KeptIn(f[n], text, {c, d}, S)
<1> DEFINE cs == {c, d}
           seps == <<<<c>>, <<d>>>>
           T == {k \in Nat : k <= n => KeptIn(f[k], text, cs, S)}
<1>1. 0 \in T
  <2> DEFINE start == [left |-> text, pieces |-> <<>>, place |-> 1]
  <2>1. f[0] = start
    BY TurnsAt
  <2>2. start.left = text /\ start.pieces = <<>> /\ start.place = 1
    OBVIOUS
  <2> HIDE DEF start, cs
  <2>3. WithoutAll(FlattenSeq(<<>>), cs) \o WithoutAll(text, cs) = WithoutAll(text, cs)
    <3>1. <<>> \o WithoutAll(text, cs) = WithoutAll(text, cs)
      BY WithoutTyped, ConcatEmptySeq
    <3> QED BY <3>1, FlattenNone, WithoutNothing
  <2>4. KeptIn(start, text, cs, S)
    BY <2>2, <2>3 DEF KeptIn
  <2> QED BY <2>1, <2>4
<1>2. ASSUME NEW k \in T PROVE k + 1 \in T
  <2> SUFFICES ASSUME k + 1 <= n PROVE KeptIn(f[k + 1], text, cs, S)
    OBVIOUS
  <2>1. KeptIn(f[k], text, cs, S)
    OBVIOUS
  <2>2. k + 1 \in 0..n /\ k + 1 # 0 /\ (k + 1) - 1 = k
    OBVIOUS
  <2> DEFINE x == seps[(((k + 1) - 1) % Len(seps)) + 1]
             next == (k + 1) % Len(seps) = 0
  <2>3. f[k + 1] = TurnOf(f, seps, k + 1)
    <3>1. f[k + 1] = IF k + 1 = 0 THEN [left |-> text, pieces |-> <<>>, place |-> 1] ELSE TurnOf(f, seps, k + 1)
      <4>1. \A j \in 0..n : f[j] = IF j = 0 THEN [left |-> text, pieces |-> <<>>, place |-> 1]
                                   ELSE TurnOf(f, seps, j)
        BY TurnsAt
      <4> QED BY <2>2, <4>1, Zenon
    <3> QED BY <2>2, <3>1, Zenon
  <2>4. TurnOf(f, seps, k + 1) = Turn(f[k], x, next)
    BY <2>2, Zenon DEF TurnOf
  <2>5. x = <<c>> \/ x = <<d>>
    <3>1. Len(seps) = 2 /\ seps[1] = <<c>> /\ seps[2] = <<d>>
      OBVIOUS
    <3>2. k % 2 = 0 \/ k % 2 = 1
      OBVIOUS
    <3> HIDE DEF seps
    <3> QED BY <2>2, <3>1, <3>2
  <2> HIDE DEF x, next
  <2>6. KeptIn(Turn(f[k], x, next), text, cs, S)
    <3>1. c \in cs /\ d \in cs
      OBVIOUS
    <3> HIDE DEF cs
    <3>2. CASE x = <<c>>
      <4>1. KeptIn(Turn(f[k], <<c>>, next), text, cs, S)
        BY <2>1, <3>1, TurnKeeps
      <4> QED BY <3>2, <4>1
    <3>3. CASE x = <<d>>
      <4>1. KeptIn(Turn(f[k], <<d>>, next), text, cs, S)
        BY <2>1, <3>1, TurnKeeps
      <4> QED BY <3>3, <4>1
    <3> QED BY <2>5, <3>2, <3>3
  <2> QED BY <2>3, <2>4, <2>6, Zenon
<1>3. T = Nat
  <2>1. T \in SUBSET Nat
    OBVIOUS
  <2> HIDE DEF T
  <2> QED BY <1>1, <1>2, <2>1, NumberInduction
<1>4. n \in T
  <2> HIDE DEF T
  <2> QED BY <1>3
<1> QED BY <1>4

\* splitAny keeps the other characters, where they were.
THEOREM OthersAreKept ==
  ASSUME NEW S, NEW text \in Seq(S), NEW c, NEW d
  PROVE  SplitAnyKeepsText(text, c, d)
<1> DEFINE seps == <<<<c>>, <<d>>>>
           cs == {c, d}
           n == Len(text) * Len(seps)
           f == CHOOSE f : Turns(f, text, seps, n)
           end == f[n]
<1>1. n \in Nat
  OBVIOUS
<1>2. splitAny(text, seps) = end.pieces \o SplitRest(end.left)
  BY Zenon DEF splitAny, Turns, TurnOf, Turn
<1>3. Turns(f, text, seps, n)
  <2>1. \E g : Turns(g, text, seps, n)
    <3> HIDE DEF n
    <3> QED BY <1>1, TurnsExist
  <2> QED BY <2>1
<1> HIDE DEF n, f
<1>4. KeptIn(end, text, cs, S)
  BY <1>1, <1>3, TurnsKeep
<1> DEFINE p == end.pieces
           l == end.left
<1>5. l \in Seq(S) /\ p \in Seq(Seq(S)) /\ WithoutAll(FlattenSeq(p), cs) \o WithoutAll(l, cs) = WithoutAll(text, cs)
  BY <1>4 DEF KeptIn
<1> HIDE DEF end, cs
<1>6. FlattenSeq(SplitRest(l)) = l /\ SplitRest(l) \in Seq(Seq(S))
  <2> HIDE DEF l
  <2>1. CASE l = <<>>
    <3>1. SplitRest(l) = <<>>
      BY <2>1 DEF SplitRest
    <3>2. <<>> \in Seq(Seq(S))
      OBVIOUS
    <3> QED BY <2>1, <3>1, <3>2, FlattenNone
  <2>2. CASE l # <<>>
    <3>1. SplitRest(l) = <<l>>
      BY <2>2 DEF SplitRest
    <3>2. <<l>> \in Seq(Seq(S))
      BY <1>5
    <3> QED BY <1>5, <3>1, <3>2, FlattenOne
  <2> QED BY <2>1, <2>2
<1>7. FlattenSeq(p \o SplitRest(l)) = FlattenSeq(p) \o l
  <2>1. FlattenSeq(p \o SplitRest(l)) = FlattenSeq(p) \o FlattenSeq(SplitRest(l))
    <3> HIDE DEF p, l
    <3> QED BY <1>5, <1>6, FlattenConcat
  <2> QED BY <1>6, <2>1, Zenon
<1>8. WithoutAll(FlattenSeq(p) \o l, cs) = WithoutAll(FlattenSeq(p), cs) \o WithoutAll(l, cs)
  <2> HIDE DEF p, l
  <2>1. FlattenSeq(p) \in Seq(S)
    BY <1>5, FlattenTyped
  <2>2. WithoutSplits(FlattenSeq(p), l, cs)
    BY <1>5, <2>1, WithoutConcat, Zenon
  <2> QED BY <2>2 DEF WithoutSplits
<1>9. WithoutAll(FlattenSeq(splitAny(text, seps)), cs) = WithoutAll(text, cs)
  BY <1>2, <1>5, <1>7, <1>8, Zenon
<1> QED BY <1>9, Zenon DEF SplitAnyKeepsText, cs
================================================================================
