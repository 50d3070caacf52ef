-------------------------- MODULE DirRecordProofs --------------------------
(***************************************************************************)
(* What DirRecord promises, for every set of names, every length of the    *)
(* records up to half a block and every size of the blocks.                *)
(*                                                                         *)
(* The records of a directory are packed one after another, and a record   *)
(* that is put in or taken out moves all that follow it.  The proof        *)
(* compares two packings by induction on the index: a packing of one       *)
(* record more is never ahead by more than a block.                        *)
(***************************************************************************)
EXTENDS DirRecord, FiniteSetTheorems, SequenceTheorems, WellFoundedInduction, TLAPS

-----------------------------------------------------------------------------
(* Induction on the natural numbers, from the order on them: the library   *)
(* states that it is well-founded.                                         *)

LEMMA LeastNatural ==
  ASSUME NEW T, T \subseteq Nat, T # {}
  PROVE  \E x \in T : \A y \in T : x <= y
<1>1. PICK x \in T : \A y \in T : ~(<<y, x>> \in OpToRel(<, Nat))
  BY NatLessThanWellFounded, WFMin, Zenon
<1>2. \A y \in T : ~(y < x)
  BY <1>1, Zenon DEF OpToRel
<1>3. QED
  BY <1>2

LEMMA UpTo ==
  ASSUME NEW T, NEW n \in Nat, 0 \in T, \A j \in 0..(n - 1) : j \in T => j + 1 \in T
  PROVE  \A j \in 0..n : j \in T
<1> SUFFICES ASSUME (0..n) \ T # {} PROVE FALSE
  OBVIOUS
<1>1. (0..n) \ T \subseteq Nat
  OBVIOUS
<1>2. PICK x \in (0..n) \ T : \A y \in (0..n) \ T : x <= y
  BY <1>1, LeastNatural
<1>3. x # 0 /\ x - 1 \in 0..(n - 1) /\ x - 1 \in 0..n /\ ~(x <= x - 1)
  BY <1>2
<1>4. x - 1 \in T
  BY <1>2, <1>3
<1>5. (x - 1) + 1 \in T
  BY <1>3, <1>4
<1>6. (x - 1) + 1 = x
  BY <1>2
<1>7. QED
  BY <1>2, <1>5, <1>6

-----------------------------------------------------------------------------
(* Lists: a record put in, a record taken out.                             *)

Distinct(s) == \A i, j \in 1..Len(s) : s[i] = s[j] => i = j

\* t is the list s with x put in at index k / with what is at k taken out.
Inserted(t, s, k, x) ==
  /\ t \in Seq(Child) /\ Len(t) = Len(s) + 1
  /\ \A j \in 1..(Len(s) + 1) :
       t[j] = IF j < k THEN s[j] ELSE IF j = k THEN x ELSE s[j - 1]
Removed(t, s, k) ==
  /\ t \in Seq(Child) /\ Len(t) = Len(s) - 1
  /\ \A j \in 1..(Len(s) - 1) : t[j] = IF j < k THEN s[j] ELSE s[j + 1]

LEMMA InsertProperties ==
  ASSUME NEW s \in Seq(Child), NEW k \in 1..(Len(s) + 1), NEW x \in Child
  PROVE  Inserted(InsertAt(s, k, x), s, k, x)
<1>1. Len(s) \in Nat /\ k - 1 \in 0..Len(s) /\ k \in Nat /\ k > 0
  OBVIOUS
<1> DEFINE a == SubSeq(s, 1, k - 1)
           b == SubSeq(s, k, Len(s))
<1>2. a \in Seq(Child) /\ Len(a) = k - 1 /\ \A j \in 1..(k - 1) : a[j] = s[j]
  BY <1>1, SubSeqProperties
<1>3. /\ b \in Seq(Child) /\ Len(b) = Len(s) - k + 1
      /\ \A j \in 1..(Len(s) - k + 1) : b[j] = s[k + j - 1]
  <2>1. k \in 1..(Len(s) + 1) /\ Len(s) \in (k - 1)..Len(s)
    BY <1>1
  <2>2. \A j \in k..Len(s) : s[j] \in Child
    BY <1>1
  <2>3. QED
    BY <1>1, <2>1, <2>2, SubSeqProperties
<1> HIDE DEF a, b
<1> DEFINE c == a \o <<x>>
<1>4. c \in Seq(Child) /\ Len(c) = k /\ \A j \in 1..k : c[j] = IF j < k THEN s[j] ELSE x
  <2>1. <<x>> \in Seq(Child) /\ Len(<<x>>) = 1 /\ <<x>>[1] = x
    OBVIOUS
  <2>2. /\ c \in Seq(Child) /\ Len(c) = Len(a) + 1
        /\ \A j \in 1..(Len(a) + 1) : c[j] = IF j <= Len(a) THEN a[j] ELSE <<x>>[j - Len(a)]
    BY <1>2, <2>1, ConcatProperties
  <2>3. QED
    BY <1>1, <1>2, <2>1, <2>2
<1> HIDE DEF c
<1>5. /\ c \o b \in Seq(Child) /\ Len(c \o b) = Len(c) + Len(b)
      /\ \A j \in 1..(Len(c) + Len(b)) :
           (c \o b)[j] = IF j <= Len(c) THEN c[j] ELSE b[j - Len(c)]
  BY <1>3, <1>4, ConcatProperties
<1>6. InsertAt(s, k, x) = c \o b
  BY DEF InsertAt, a, b, c
<1>7. Len(c) + Len(b) = Len(s) + 1
  BY <1>1, <1>3, <1>4
<1>8. ASSUME NEW j \in 1..(Len(s) + 1)
      PROVE  (c \o b)[j] = IF j < k THEN s[j] ELSE IF j = k THEN x ELSE s[j - 1]
  <2>1. (c \o b)[j] = IF j <= Len(c) THEN c[j] ELSE b[j - Len(c)]
    BY <1>5, <1>7
  <2>2. CASE j <= k
    BY <1>1, <1>4, <2>1, <2>2
  <2>3. CASE ~(j <= k)
    <3>1. j - k \in 1..(Len(s) - k + 1) /\ k + (j - k) - 1 = j - 1
      BY <1>1, <2>3
    <3>2. b[j - k] = s[j - 1]
      BY <1>3, <3>1
    <3>3. QED
      BY <1>1, <1>4, <2>1, <2>3, <3>2
  <2>4. QED
    BY <2>2, <2>3
<1>9. QED
  BY <1>5, <1>6, <1>7, <1>8 DEF Inserted

LEMMA RemoveProperties ==
  ASSUME NEW s \in Seq(Child), NEW k \in 1..Len(s)
  PROVE  Removed(RemoveAt(s, k), s, k)
<1>1. Len(s) \in Nat /\ k - 1 \in 0..Len(s) /\ k \in Nat /\ k > 0 /\ k <= Len(s)
  OBVIOUS
<1> DEFINE a == SubSeq(s, 1, k - 1)
           b == SubSeq(s, k + 1, Len(s))
<1>2. a \in Seq(Child) /\ Len(a) = k - 1 /\ \A j \in 1..(k - 1) : a[j] = s[j]
  BY <1>1, SubSeqProperties
<1>3. /\ b \in Seq(Child) /\ Len(b) = Len(s) - k
      /\ \A j \in 1..(Len(s) - k) : b[j] = s[k + j]
  <2>1. k + 1 \in 1..(Len(s) + 1) /\ Len(s) \in k..Len(s)
    BY <1>1
  <2>2. \A j \in (k + 1)..Len(s) : s[j] \in Child
    BY <1>1
  <2>3. QED
    BY <1>1, <2>1, <2>2, SubSeqProperties
<1> HIDE DEF a, b
<1>4. /\ a \o b \in Seq(Child) /\ Len(a \o b) = Len(a) + Len(b)
      /\ \A j \in 1..(Len(a) + Len(b)) :
           (a \o b)[j] = IF j <= Len(a) THEN a[j] ELSE b[j - Len(a)]
  BY <1>2, <1>3, ConcatProperties
<1>5. RemoveAt(s, k) = a \o b
  BY DEF RemoveAt, a, b
<1>6. Len(a) + Len(b) = Len(s) - 1
  BY <1>1, <1>2, <1>3
<1>7. ASSUME NEW j \in 1..(Len(s) - 1)
      PROVE  (a \o b)[j] = IF j < k THEN s[j] ELSE s[j + 1]
  <2>1. (a \o b)[j] = IF j <= Len(a) THEN a[j] ELSE b[j - Len(a)]
    BY <1>4, <1>6
  <2>2. CASE j < k
    BY <1>1, <1>2, <2>1, <2>2
  <2>3. CASE ~(j < k)
    <3>1. j - (k - 1) \in 1..(Len(s) - k) /\ k + (j - (k - 1)) = j + 1
      BY <1>1, <2>3
    <3>2. b[j - (k - 1)] = s[j + 1]
      BY <1>3, <3>1
    <3>3. QED
      BY <1>1, <1>2, <2>1, <2>3, <3>2
  <2>4. QED
    BY <2>2, <2>3
<1>8. QED
  BY <1>4, <1>5, <1>6, <1>7 DEF Removed

LEMMA InsertElements ==
  ASSUME NEW s \in Seq(Child), NEW k \in 1..(Len(s) + 1), NEW x \in Child
  PROVE  /\ Elements(InsertAt(s, k, x)) = Elements(s) \cup {x}
         /\ Distinct(s) /\ x \notin Elements(s) => Distinct(InsertAt(s, k, x))
<1> DEFINE t == InsertAt(s, k, x)
<1>1. /\ t \in Seq(Child) /\ Len(t) = Len(s) + 1
      /\ \A j \in 1..(Len(s) + 1) :
           t[j] = IF j < k THEN s[j] ELSE IF j = k THEN x ELSE s[j - 1]
  <2>1. Inserted(t, s, k, x)
    BY InsertProperties
  <2>2. QED
    BY <2>1 DEF Inserted
<1> HIDE DEF t
<1>2. Len(s) \in Nat /\ k \in Nat
  OBVIOUS
<1>3. ASSUME NEW j \in 1..Len(t) PROVE t[j] \in Elements(s) \cup {x}
  <2>1. CASE j < k
    BY <1>1, <1>2, <2>1 DEF Elements
  <2>2. CASE j = k
    BY <1>1, <1>2, <2>2
  <2>3. CASE j > k
    <3>1. j - 1 \in 1..Len(s) /\ t[j] = s[j - 1]
      BY <1>1, <1>2, <2>3
    <3>2. QED
      BY <3>1 DEF Elements
  <2>4. QED
    BY <1>2, <2>1, <2>2, <2>3
<1>4. x \in Elements(t)
  BY <1>1, <1>2 DEF Elements
<1>5. ASSUME NEW j \in 1..Len(s) PROVE s[j] \in Elements(t)
  <2>1. CASE j < k
    BY <1>1, <1>2, <2>1 DEF Elements
  <2>2. CASE ~(j < k)
    <3>1. j + 1 \in 1..Len(t) /\ t[j + 1] = s[j]
      BY <1>1, <1>2, <2>2
    <3>2. QED
      BY <3>1 DEF Elements
  <2>3. QED
    BY <2>1, <2>2
<1>6. Elements(t) = Elements(s) \cup {x}
  BY <1>3, <1>4, <1>5 DEF Elements
<1>7. ASSUME Distinct(s), x \notin Elements(s) PROVE Distinct(t)
  <2> SUFFICES ASSUME NEW i \in 1..Len(t), NEW j \in 1..Len(t), t[i] = t[j] PROVE i = j
    BY DEF Distinct
  <2> DEFINE p(n) == IF n < k THEN n ELSE n - 1
  <2>1. ASSUME NEW n \in 1..Len(t), n # k
        PROVE  p(n) \in 1..Len(s) /\ t[n] = s[p(n)] /\ t[n] # x
    <3>1. p(n) \in 1..Len(s) /\ t[n] = s[p(n)]
      BY <1>1, <1>2, <2>1
    <3>2. QED
      BY <1>7, <3>1 DEF Elements
  <2>2. t[k] = x
    BY <1>1, <1>2
  <2>3. CASE i = k \/ j = k
    BY <2>1, <2>2, <2>3
  <2>4. CASE i # k /\ j # k
    <3>1. p(i) = p(j)
      BY <1>7, <2>1, <2>4 DEF Distinct
    <3>2. QED
      BY <1>1, <1>2, <2>4, <3>1
  <2>5. QED
    BY <2>3, <2>4
<1>8. QED
  BY <1>6, <1>7 DEF t

LEMMA RemoveElements ==
  ASSUME NEW s \in Seq(Child), NEW k \in 1..Len(s), Distinct(s)
  PROVE  /\ Elements(RemoveAt(s, k)) = Elements(s) \ {s[k]}
         /\ Distinct(RemoveAt(s, k))
         /\ InsertAt(RemoveAt(s, k), k, s[k]) = s
<1> DEFINE t == RemoveAt(s, k)
<1>1. /\ t \in Seq(Child) /\ Len(t) = Len(s) - 1
      /\ \A j \in 1..(Len(s) - 1) : t[j] = IF j < k THEN s[j] ELSE s[j + 1]
  <2>1. Removed(t, s, k)
    BY RemoveProperties
  <2>2. QED
    BY <2>1 DEF Removed
<1> HIDE DEF t
<1>2. Len(s) \in Nat /\ k \in Nat /\ s[k] \in Child
  OBVIOUS
<1> DEFINE p(n) == IF n < k THEN n ELSE n + 1
<1>3. \A n \in 1..Len(t) : p(n) \in 1..Len(s) /\ p(n) # k /\ t[n] = s[p(n)]
  BY <1>1, <1>2
<1>4. ASSUME NEW j \in 1..Len(s), j # k PROVE s[j] \in Elements(t)
  <2>1. CASE j < k
    BY <1>1, <1>2, <2>1 DEF Elements
  <2>2. CASE ~(j < k)
    <3>1. j - 1 \in 1..Len(t) /\ t[j - 1] = s[j]
      BY <1>1, <1>2, <1>4, <2>2
    <3>2. QED
      BY <3>1 DEF Elements
  <2>3. QED
    BY <2>1, <2>2
<1>5. Elements(t) = Elements(s) \ {s[k]}
  <2>1. ASSUME NEW n \in 1..Len(t) PROVE t[n] \in Elements(s) \ {s[k]}
    BY <1>3 DEF Elements, Distinct
  <2>2. QED
    BY <1>4, <2>1 DEF Elements
<1>6. Distinct(t)
  <2> SUFFICES ASSUME NEW i \in 1..Len(t), NEW j \in 1..Len(t), t[i] = t[j] PROVE i = j
    BY DEF Distinct
  <2>1. p(i) = p(j)
    BY <1>3 DEF Distinct
  <2>2. QED
    BY <1>1, <1>2, <2>1
<1>7. InsertAt(t, k, s[k]) = s
  <2>1. k \in 1..(Len(t) + 1) /\ Len(t) + 1 = Len(s)
    BY <1>1, <1>2
  <2>2. /\ InsertAt(t, k, s[k]) \in Seq(Child)
        /\ Len(InsertAt(t, k, s[k])) = Len(s)
        /\ \A j \in 1..Len(s) :
             InsertAt(t, k, s[k])[j] = IF j < k THEN t[j] ELSE IF j = k THEN s[k] ELSE t[j - 1]
    <3>1. /\ InsertAt(t, k, s[k]) \in Seq(Child)
          /\ Len(InsertAt(t, k, s[k])) = Len(t) + 1
          /\ \A j \in 1..(Len(t) + 1) :
               InsertAt(t, k, s[k])[j]
                 = IF j < k THEN t[j] ELSE IF j = k THEN s[k] ELSE t[j - 1]
      <4>1. t \in Seq(Child) /\ k \in 1..(Len(t) + 1) /\ s[k] \in Child
        BY <1>1, <1>2, <2>1
      <4>2. Inserted(InsertAt(t, k, s[k]), t, k, s[k])
        BY <4>1, InsertProperties
      <4>3. QED
        BY <4>2 DEF Inserted
    <3>2. QED
      BY <2>1, <3>1
  <2>3. ASSUME NEW j \in 1..Len(s) PROVE InsertAt(t, k, s[k])[j] = s[j]
    <3>1. CASE j < k
      <4>1. j \in 1..(Len(s) - 1) /\ t[j] = s[j]
        BY <1>1, <1>2, <3>1
      <4>2. QED
        BY <2>2, <3>1, <4>1
    <3>2. CASE j = k
      BY <1>2, <2>2, <3>2
    <3>3. CASE j > k
      <4>1. j - 1 \in 1..(Len(s) - 1) /\ ~(j - 1 < k) /\ (j - 1) + 1 = j
        BY <1>2, <3>3
      <4>2. t[j - 1] = s[j]
        BY <1>1, <4>1
      <4>3. QED
        BY <1>2, <2>2, <3>3, <4>2
    <3>4. QED
      BY <1>2, <3>1, <3>2, <3>3
  <2>4. QED
    BY <2>2, <2>3, SeqEqual
<1>8. QED
  BY <1>5, <1>6, <1>7 DEF t


-----------------------------------------------------------------------------
(* The places of the records of a list.                                    *)

Spot == [extents : Nat \ {0}, offset : 1..BlockSize]

\* One record more at the end of what is before it stays within one block.
LEMMA Sizes ==
  /\ BlockSize \in Nat /\ 2 <= BlockSize
  /\ \A n \in Name : Length[n] \in Nat /\ 1 <= Length[n] /\ 2 * Length[n] <= BlockSize
  /\ \A c \in Child : NameOf(c) \in Name
  /\ Start \in Spot
<1> USE DirRecordAssumption
<1>1. BlockSize \in Nat /\ DotsLength \in 1..(BlockSize \div 2)
  OBVIOUS
<1>2. BlockSize \div 2 \in Nat /\ 2 * (BlockSize \div 2) <= BlockSize
  BY <1>1
<1>3. 2 <= BlockSize
  BY <1>1, <1>2
<1>4. ASSUME NEW n \in Name
      PROVE  Length[n] \in Nat /\ 1 <= Length[n] /\ 2 * Length[n] <= BlockSize
  <2>1. Length[n] \in 1..(BlockSize \div 2)
    OBVIOUS
  <2>2. QED
    BY <1>1, <1>2, <2>1
<1>5. \A c \in Child : NameOf(c) \in Name
  BY DEF Child, NameOf, Name
<1>6. Start \in Spot
  <2>1. DotsLength \in 1..BlockSize
    BY <1>1, <1>2
  <2>2. QED
    BY <2>1 DEF Start, Spot
<1>7. QED
  BY <1>1, <1>3, <1>4, <1>5, <1>6

LEMMA AfterType ==
  ASSUME NEW p \in Spot, NEW n \in Name
  PROVE  After(p, Length[n]) \in Spot
<1>1. /\ p.extents \in Nat \ {0} /\ p.offset \in 1..BlockSize /\ BlockSize \in Nat
      /\ Length[n] \in Nat /\ 1 <= Length[n] /\ 2 * Length[n] <= BlockSize
  BY Sizes DEF Spot
<1>2. CASE p.offset + Length[n] > BlockSize
  <2>1. p.extents + 1 \in Nat \ {0} /\ Length[n] \in 1..BlockSize
    BY <1>1
  <2>2. After(p, Length[n]) = [extents |-> p.extents + 1, offset |-> Length[n]]
    BY <1>2 DEF After
  <2>3. QED
    BY <2>1, <2>2 DEF Spot
<1>3. CASE ~(p.offset + Length[n] > BlockSize)
  <2>1. p.offset + Length[n] \in 1..BlockSize
    BY <1>1, <1>3
  <2>2. After(p, Length[n]) = [p EXCEPT !.offset = p.offset + Length[n]]
    BY <1>3 DEF After
  <2>3. QED
    BY <2>1, <2>2 DEF Spot
<1>4. QED
  BY <1>2, <1>3

\* The ends of the records, one from the other (dr.py:715).  That there is
\* such a function is by induction: the ends up to one more index extend the
\* ends up to an index.
EndsOf(g, s, k, old) ==
  g = [j \in 0..Len(s) |->
         IF j = 0 THEN Start
         ELSE IF j < k THEN [extents |-> old[s[j]].extents, offset |-> old[s[j]].offset]
         ELSE After(g[j - 1], Length[NameOf(s[j])])]

LEMMA EndsExist ==
  ASSUME NEW s \in Seq(Child), NEW k \in Nat, NEW old
  PROVE  \E g : EndsOf(g, s, k, old)
<1> DEFINE F(g, j) == IF j = 0 THEN Start
                      ELSE IF j < k
                        THEN [extents |-> old[s[j]].extents, offset |-> old[s[j]].offset]
                        ELSE After(g[j - 1], Length[NameOf(s[j])])
           N == Len(s)
           T == {n \in 0..N : \E g : g = [j \in 0..n |-> F(g, j)]}
<1>1. N \in Nat
  OBVIOUS
<1>2. 0 \in T
  <2> DEFINE g == [j \in 0..0 |-> Start]
  <2>1. g = [j \in 0..0 |-> F(g, j)]
    OBVIOUS
  <2> HIDE DEF g
  <2>2. QED
    BY <1>1, <2>1
<1>3. ASSUME NEW n \in 0..(N - 1), n \in T PROVE n + 1 \in T
  <2>1. PICK g : g = [j \in 0..n |-> F(g, j)]
    BY <1>3
  <2> DEFINE h == [j \in 0..(n + 1) |-> IF j = n + 1 THEN F(g, n + 1) ELSE g[j]]
  <2>2. ASSUME NEW j \in 0..(n + 1) PROVE h[j] = F(h, j)
    <3>1. CASE j = n + 1
      <4>1. j # 0 /\ j - 1 = n /\ h[j - 1] = g[j - 1] /\ h[j] = F(g, j)
        BY <3>1
      <4> HIDE DEF h
      <4>2. QED
        BY <4>1
    <3>2. CASE j # n + 1
      <4>1. j \in 0..n /\ h[j] = g[j] /\ (j # 0 => h[j - 1] = g[j - 1])
        BY <3>2
      <4>2. g[j] = F(g, j)
        BY <2>1, <4>1
      <4> HIDE DEF h
      <4>3. QED
        BY <4>1, <4>2
    <3>3. QED
      BY <3>1, <3>2
  <2>3. h = [j \in 0..(n + 1) |-> h[j]]
    OBVIOUS
  <2> HIDE DEF h
  <2>4. h = [j \in 0..(n + 1) |-> F(h, j)]
    <3> HIDE DEF F
    <3>1. QED
      BY <2>2, <2>3
  <2>5. n + 1 \in 0..N
    BY <1>1
  <2>6. QED
    BY <2>4, <2>5
<1> HIDE DEF T
<1>4. N \in T
  <2> HIDE DEF N
  <2>1. \A n \in 0..(N - 1) : n \in T => n + 1 \in T
    BY <1>3
  <2>2. \A n \in 0..N : n \in T
    BY ONLY <1>1, <1>2, <2>1, UpTo
  <2>3. QED
    BY <1>1, <2>2
<1>5. PICK g : g = [j \in 0..N |-> F(g, j)]
  <2> HIDE DEF F, N
  <2>1. QED
    BY <1>4 DEF T
<1>6. EndsOf(g, s, k, old) <=> g = [j \in 0..N |-> F(g, j)]
  BY Zenon DEF EndsOf
<1>7. QED
  BY <1>5, <1>6, Zenon

LEMMA EndsAre ==
  ASSUME NEW s \in Seq(Child), NEW k \in Nat, NEW old
  PROVE  \A j \in 0..Len(s) :
           Ends(s, k, old)[j]
             = IF j = 0 THEN Start
               ELSE IF j < k
                 THEN [extents |-> old[s[j]].extents, offset |-> old[s[j]].offset]
                 ELSE After(Ends(s, k, old)[j - 1], Length[NameOf(s[j])])
<1>1. \E g : EndsOf(g, s, k, old)
  BY EndsExist
<1>2. Ends(s, k, old) = CHOOSE g : EndsOf(g, s, k, old)
  BY Zenon DEF Ends, EndsOf
<1>3. EndsOf(Ends(s, k, old), s, k, old)
  BY <1>1, <1>2
<1> DEFINE e == Ends(s, k, old)
<1> HIDE DEF e
<1>4. \A j \in 0..Len(s) :
        e[j] = IF j = 0 THEN Start
               ELSE IF j < k
                 THEN [extents |-> old[s[j]].extents, offset |-> old[s[j]].offset]
                 ELSE After(e[j - 1], Length[NameOf(s[j])])
  BY <1>3 DEF EndsOf, e
<1>5. QED
  BY <1>4 DEF e

\* The ends of the records when the whole list is packed.
Fresh == [c \in Child |-> Nowhere]
Packing(s) == Ends(s, 1, Fresh)

LEMMA PackingStep ==
  ASSUME NEW s \in Seq(Child)
  PROVE  /\ Packing(s)[0] = Start
         /\ \A j \in 1..Len(s) :
              Packing(s)[j] = After(Packing(s)[j - 1], Length[NameOf(s[j])])
<1> DEFINE o == Fresh
           e == Ends(s, 1, o)
<1> HIDE DEF o
<1>1. \A j \in 0..Len(s) :
        e[j] = IF j = 0 THEN Start
               ELSE IF j < 1
                 THEN [extents |-> o[s[j]].extents, offset |-> o[s[j]].offset]
                 ELSE After(e[j - 1], Length[NameOf(s[j])])
  <2>1. 1 \in Nat /\ s \in Seq(Child)
    OBVIOUS
  <2>2. QED
    BY ONLY <2>1, EndsAre
<1> HIDE DEF e
<1>2. Len(s) \in Nat
  OBVIOUS
<1>3. e[0] = Start
  <2>1. 0 \in 0..Len(s)
    BY <1>2
  <2>2. QED
    BY <1>1, <2>1, Zenon
<1>4. \A j \in 1..Len(s) : e[j] = After(e[j - 1], Length[NameOf(s[j])])
  <2> SUFFICES ASSUME NEW j \in 1..Len(s)
               PROVE  e[j] = After(e[j - 1], Length[NameOf(s[j])])
    OBVIOUS
  <2>1. j \in 0..Len(s) /\ j # 0 /\ ~(j < 1)
    BY <1>2
  <2>2. QED
    BY <1>1, <2>1
<1>5. QED
  BY <1>3, <1>4 DEF e, o, Packing

LEMMA PackingType ==
  ASSUME NEW s \in Seq(Child)
  PROVE  \A j \in 0..Len(s) : Packing(s)[j] \in Spot
<1> DEFINE e == Packing(s)
           T == {j \in 0..Len(s) : e[j] \in Spot}
<1>1. /\ e[0] = Start
      /\ \A j \in 1..Len(s) : e[j] = After(e[j - 1], Length[NameOf(s[j])])
  BY PackingStep
<1> HIDE DEF e
<1>2. Len(s) \in Nat /\ \A j \in 1..Len(s) : NameOf(s[j]) \in Name
  BY Sizes
<1>3. 0 \in T
  BY <1>1, <1>2, Sizes
<1>4. ASSUME NEW n \in 0..(Len(s) - 1), n \in T PROVE n + 1 \in T
  <2>1. n + 1 \in 1..Len(s) /\ (n + 1) - 1 = n /\ e[n] \in Spot
    BY <1>2, <1>4
  <2>2. e[n + 1] = After(e[n], Length[NameOf(s[n + 1])])
    BY <1>1, <2>1
  <2>3. e[n + 1] \in Spot
    BY <1>2, <2>1, <2>2, AfterType
  <2>4. QED
    BY <2>1, <2>3
<1> HIDE DEF T
<1>5. \A j \in 0..Len(s) : j \in T
  <2>1. \A n \in 0..(Len(s) - 1) : n \in T => n + 1 \in T
    BY <1>4
  <2>2. QED
    BY ONLY <1>2, <1>3, <2>1, UpTo
<1>6. QED
  BY <1>5 DEF T, e

\* Two lists that begin alike are packed alike up to there.
LEMMA PrefixPacking ==
  ASSUME NEW s \in Seq(Child), NEW t \in Seq(Child),
         NEW n \in Nat, n <= Len(s), n <= Len(t), \A j \in 1..n : s[j] = t[j]
  PROVE  \A j \in 0..n : Packing(s)[j] = Packing(t)[j]
<1> DEFINE e == Packing(s)
           f == Packing(t)
           T == {j \in 0..n : e[j] = f[j]}
<1>1. /\ e[0] = Start
      /\ \A j \in 1..Len(s) : e[j] = After(e[j - 1], Length[NameOf(s[j])])
  BY PackingStep
<1>2. /\ f[0] = Start
      /\ \A j \in 1..Len(t) : f[j] = After(f[j - 1], Length[NameOf(t[j])])
  BY PackingStep
<1> HIDE DEF e, f
<1>3. Len(s) \in Nat /\ Len(t) \in Nat
  OBVIOUS
<1>4. 0 \in T
  BY <1>1, <1>2
<1>5. ASSUME NEW m \in 0..(n - 1), m \in T PROVE m + 1 \in T
  <2>1. m + 1 \in 1..Len(s) /\ m + 1 \in 1..Len(t) /\ m + 1 \in 1..n /\ (m + 1) - 1 = m
    BY <1>3
  <2>2. e[m] = f[m] /\ s[m + 1] = t[m + 1]
    BY <1>5, <2>1
  <2>3. e[m + 1] = f[m + 1]
    BY <1>1, <1>2, <2>1, <2>2
  <2>4. QED
    BY <2>1, <2>3
<1> HIDE DEF T
<1>6. \A j \in 0..n : j \in T
  <2>1. \A m \in 0..(n - 1) : m \in T => m + 1 \in T
    BY <1>5
  <2>2. n \in Nat
    OBVIOUS
  <2>3. QED
    BY ONLY <1>4, <2>1, <2>2, UpTo
<1>7. QED
  BY <1>6 DEF T, e, f

\* The place of the record at an index, in the list recalculated from k on.
LEMMA PlaceAt ==
  ASSUME NEW s \in Seq(Child), Distinct(s), NEW k \in Nat \ {0}, NEW old, NEW j \in 1..Len(s)
  PROVE  Places(s, k, old)[s[j]]
           = IF k <= j
               THEN [extents |-> Ends(s, k, old)[j].extents,
                     offset |-> Ends(s, k, old)[j].offset, index |-> j]
               ELSE old[s[j]]
<1>1. s[j] \in Child /\ s[j] \in Elements(s) /\ Len(s) \in Nat
  BY DEF Elements
<1> DEFINE e == Ends(s, k, old)
           at(i) == [extents |-> e[i].extents, offset |-> e[i].offset, index |-> i]
           first == CHOOSE i \in k..Len(s) : s[i] = s[j]
<1> HIDE DEF e
<1>2. Places(s, k, old)[s[j]]
        = IF \E i \in k..Len(s) : s[i] = s[j] THEN at(first)
          ELSE IF s[j] \in Elements(s) THEN old[s[j]] ELSE Nowhere
  BY <1>1 DEF Places, e
<1>3. CASE k <= j
  <2>1. j \in k..Len(s) /\ \A i \in k..Len(s) : s[i] = s[j] => i = j
    BY <1>1, <1>3 DEF Distinct
  <2>2. first = j
    BY <2>1
  <2>3. QED
    BY <1>2, <1>3, <2>1, <2>2 DEF e
<1>4. CASE ~(k <= j)
  <2>1. \A i \in k..Len(s) : s[i] # s[j]
    BY <1>1, <1>4 DEF Distinct
  <2>2. QED
    BY <1>1, <1>2, <1>4, <2>1
<1>5. QED
  BY <1>3, <1>4

LEMMA PackedAt ==
  ASSUME NEW s \in Seq(Child), Distinct(s), NEW j \in 1..Len(s)
  PROVE  Packed(s)[s[j]] = [extents |-> Packing(s)[j].extents,
                            offset |-> Packing(s)[j].offset, index |-> j]
<1>1. 1 \in Nat \ {0} /\ 1 <= j
  OBVIOUS
<1>2. Packed(s)[s[j]]
        = IF 1 <= j
            THEN [extents |-> Ends(s, 1, Fresh)[j].extents,
                  offset |-> Ends(s, 1, Fresh)[j].offset, index |-> j]
            ELSE Fresh[s[j]]
  BY <1>1, PlaceAt, Zenon DEF Packed, Fresh
<1>3. QED
  BY <1>1, <1>2, Zenon DEF Packing

\* The records not in the list are nowhere.
LEMMA PlaceOutside ==
  ASSUME NEW s \in Seq(Child), NEW k \in Nat \ {0}, NEW old, NEW c \in Child,
         c \notin Elements(s)
  PROVE  Places(s, k, old)[c] = Nowhere
<1>1. \A i \in k..Len(s) : s[i] # c
  BY DEF Elements
<1>2. QED
  BY <1>1 DEF Places

\* Recalculating from the point of a change on is enough (dr.py:792, 909).
LEMMA PlacesPacked ==
  ASSUME NEW s \in Seq(Child), Distinct(s), NEW t \in Seq(Child), Distinct(t),
         NEW k \in Nat \ {0}, k <= Len(s) + 1, k <= Len(t) + 1,
         \A j \in 1..(k - 1) : s[j] = t[j]
  PROVE  Places(s, k, Packed(t)) = Packed(s)
<1> DEFINE old == Packed(t)
           e == Ends(s, k, old)
           f == Packing(s)
           g == Packing(t)
<1>1. Len(s) \in Nat /\ Len(t) \in Nat /\ k - 1 \in Nat /\ k - 1 <= Len(s) /\ k - 1 <= Len(t)
  OBVIOUS
<1>2. ASSUME NEW j \in 1..(k - 1)
      PROVE  old[s[j]] = [extents |-> f[j].extents, offset |-> f[j].offset, index |-> j]
  <2>1. j \in 1..Len(t) /\ s[j] = t[j] /\ j \in 0..(k - 1)
    BY <1>1
  <2>2. f[j] = g[j]
    BY <1>1, <2>1, PrefixPacking
  <2>3. old[t[j]] = [extents |-> g[j].extents, offset |-> g[j].offset, index |-> j]
    BY <2>1, PackedAt
  <2>4. QED
    BY <2>1, <2>2, <2>3
<1>3. \A j \in 0..Len(s) :
        e[j] = IF j = 0 THEN Start
               ELSE IF j < k THEN [extents |-> old[s[j]].extents, offset |-> old[s[j]].offset]
               ELSE After(e[j - 1], Length[NameOf(s[j])])
  <2> HIDE DEF old
  <2>1. k \in Nat
    OBVIOUS
  <2>2. QED
    BY <2>1, EndsAre, Zenon
<1>4. /\ f[0] = Start
      /\ \A j \in 1..Len(s) : f[j] = After(f[j - 1], Length[NameOf(s[j])])
  BY PackingStep
<1>5. \A j \in 0..Len(s) : f[j] \in Spot
  BY PackingType
<1> HIDE DEF old, e, f, g
<1> DEFINE T == {j \in 0..Len(s) : e[j] = f[j]}
<1>6. 0 \in T
  <2>1. 0 \in 0..Len(s)
    BY <1>1
  <2>2. e[0] = Start
    BY <1>3, <2>1, Zenon
  <2>3. QED
    BY <1>4, <2>1, <2>2
<1>7. ASSUME NEW n \in 0..(Len(s) - 1), n \in T PROVE n + 1 \in T
  <2>1. n + 1 \in 0..Len(s) /\ n + 1 \in 1..Len(s) /\ n + 1 # 0 /\ (n + 1) - 1 = n
    BY <1>1
  <2>2. CASE n + 1 < k
    <3>1. n + 1 \in 1..(k - 1)
      BY <1>1, <2>1, <2>2
    <3>2. e[n + 1] = [extents |-> old[s[n + 1]].extents, offset |-> old[s[n + 1]].offset]
      BY <1>3, <2>1, <2>2
    <3>3. e[n + 1] = [extents |-> f[n + 1].extents, offset |-> f[n + 1].offset]
      <4> DEFINE m == n + 1
      <4>1. /\ old[s[m]].extents = f[m].extents
            /\ old[s[m]].offset = f[m].offset
        <5> HIDE DEF m
        <5>1. old[s[m]] = [extents |-> f[m].extents, offset |-> f[m].offset, index |-> m]
          BY <1>2, <3>1 DEF m
        <5>2. QED
          BY <5>1
      <4>2. QED
        BY <3>2, <4>1
    <3>4. e[n + 1] = f[n + 1]
      BY <1>5, <2>1, <3>3 DEF Spot
    <3>5. QED
      BY <2>1, <3>4
  <2>3. CASE ~(n + 1 < k)
    <3>1. e[n + 1] = After(e[n], Length[NameOf(s[n + 1])])
      BY <1>3, <2>1, <2>3
    <3>2. e[n] = f[n]
      BY <1>7
    <3>3. e[n + 1] = f[n + 1]
      BY <1>4, <2>1, <3>1, <3>2
    <3>4. QED
      BY <2>1, <3>3
  <2>4. QED
    BY <2>2, <2>3
<1> HIDE DEF T
<1>8. \A j \in 0..Len(s) : e[j] = f[j]
  <2>1. \A n \in 0..(Len(s) - 1) : n \in T => n + 1 \in T
    BY <1>7
  <2>2. Len(s) \in Nat
    BY <1>1
  <2>3. \A j \in 0..Len(s) : j \in T
    BY ONLY <1>6, <2>1, <2>2, UpTo
  <2>4. QED
    BY <2>3 DEF T
<1>9. ASSUME NEW j \in 1..Len(s)
      PROVE  Places(s, k, old)[s[j]] = Packed(s)[s[j]]
  <2>1. Packed(s)[s[j]] = [extents |-> f[j].extents, offset |-> f[j].offset, index |-> j]
    BY PackedAt DEF f
  <2>2. Places(s, k, old)[s[j]]
          = IF k <= j THEN [extents |-> e[j].extents, offset |-> e[j].offset, index |-> j]
            ELSE old[s[j]]
    BY PlaceAt DEF e
  <2>3. CASE k <= j
    <3>1. e[j] = f[j]
      BY <1>1, <1>8
    <3>2. QED
      BY <2>1, <2>2, <2>3, <3>1
  <2>4. CASE ~(k <= j)
    <3>1. j \in 1..(k - 1)
      BY <1>1, <2>4
    <3>2. QED
      BY <1>2, <2>1, <2>2, <2>4, <3>1
  <2>5. QED
    BY <2>3, <2>4
<1>10. ASSUME NEW c \in Child PROVE Places(s, k, old)[c] = Packed(s)[c]
  <2>1. CASE c \in Elements(s)
    BY <1>9, <2>1 DEF Elements
  <2>2. CASE c \notin Elements(s)
    <3>1. 1 \in Nat \ {0}
      OBVIOUS
    <3>2. QED
      BY <2>2, <3>1, PlaceOutside DEF Packed
  <2>3. QED
    BY <2>1, <2>2
<1>11. DOMAIN Places(s, k, old) = Child /\ DOMAIN Packed(s) = Child
  BY DEF Places, Packed
<1>12. Places(s, k, old) = [c \in Child |-> Places(s, k, old)[c]]
  BY DEF Places
<1>13. Packed(s) = [c \in Child |-> Packed(s)[c]]
  BY DEF Packed, Places
<1>14. QED
  BY <1>10, <1>12, <1>13 DEF old

\* Where a list ends (dr.py:733).
LEMMA LastPacked ==
  ASSUME NEW s \in Seq(Child), Distinct(s)
  PROVE  /\ Last(s, Packed(s)) = Packing(s)[Len(s)]
         /\ Last(s, Packed(s)) \in Spot
         /\ Blocks(s) \in Nat \ {0} /\ Blocks(s) = Packing(s)[Len(s)].extents
<1>1. Len(s) \in Nat /\ Len(s) \in 0..Len(s)
  OBVIOUS
<1>2. Packing(s)[Len(s)] \in Spot
  BY <1>1, PackingType
<1>3. Last(s, Packed(s)) = Packing(s)[Len(s)]
  <2>1. CASE s = <<>>
    BY <2>1, PackingStep DEF Last
  <2>2. CASE s # <<>>
    <3>1. Len(s) \in 1..Len(s)
      BY <1>1, <2>2
    <3>2. Packed(s)[s[Len(s)]] = [extents |-> Packing(s)[Len(s)].extents,
                                  offset |-> Packing(s)[Len(s)].offset, index |-> Len(s)]
      BY <3>1, PackedAt
    <3>3. Last(s, Packed(s)) = [extents |-> Packing(s)[Len(s)].extents,
                                offset |-> Packing(s)[Len(s)].offset]
      BY <2>2, <3>2 DEF Last
    <3>4. QED
      BY <1>2, <3>3 DEF Spot
  <2>3. QED
    BY <2>1, <2>2
<1>4. QED
  BY <1>2, <1>3 DEF Blocks, Spot

\* A place q of a record among one record more is at most one block after the
\* place p it has without.
Ahead(p, q) ==
  \/ q.extents = p.extents /\ q.offset >= p.offset
  \/ q.extents = p.extents + 1 /\ q.offset <= p.offset

LEMMA AheadFirst ==
  ASSUME NEW p \in Spot, NEW n \in Name
  PROVE  Ahead(p, After(p, Length[n]))
<1>1. /\ p.extents \in Nat \ {0} /\ p.offset \in 1..BlockSize /\ BlockSize \in Nat
      /\ Length[n] \in Nat /\ 1 <= Length[n] /\ 2 * Length[n] <= BlockSize
  BY Sizes DEF Spot
<1>2. CASE p.offset + Length[n] > BlockSize
  <2>1. After(p, Length[n]) = [extents |-> p.extents + 1, offset |-> Length[n]]
    BY <1>2 DEF After
  <2>2. Length[n] <= p.offset
    BY <1>1, <1>2
  <2>3. QED
    BY <2>1, <2>2 DEF Ahead
<1>3. CASE ~(p.offset + Length[n] > BlockSize)
  <2>1. After(p, Length[n]) = [extents |-> p.extents, offset |-> p.offset + Length[n]]
    BY <1>3 DEF After, Spot
  <2>2. p.offset + Length[n] >= p.offset
    BY <1>1
  <2>3. QED
    BY <2>1, <2>2 DEF Ahead
<1>4. QED
  BY <1>2, <1>3

LEMMA AheadStep ==
  ASSUME NEW p \in Spot, NEW q \in Spot, Ahead(p, q), NEW n \in Name
  PROVE  Ahead(After(p, Length[n]), After(q, Length[n]))
<1> DEFINE m == Length[n]
<1>1. /\ p.extents \in Nat /\ p.offset \in Nat /\ q.extents \in Nat /\ q.offset \in Nat
      /\ BlockSize \in Nat /\ m \in Nat
  BY Sizes DEF Spot
<1>2. /\ After(p, m).extents = IF p.offset + m > BlockSize THEN p.extents + 1 ELSE p.extents
      /\ After(p, m).offset = IF p.offset + m > BlockSize THEN m ELSE p.offset + m
  BY DEF After, Spot
<1>3. /\ After(q, m).extents = IF q.offset + m > BlockSize THEN q.extents + 1 ELSE q.extents
      /\ After(q, m).offset = IF q.offset + m > BlockSize THEN m ELSE q.offset + m
  BY DEF After, Spot
<1> HIDE DEF m
<1> DEFINE a == After(p, m)
           b == After(q, m)
<1> HIDE DEF a, b
<1>4. ASSUME q.extents = p.extents, q.offset >= p.offset PROVE Ahead(a, b)
  BY <1>1, <1>2, <1>3, <1>4 DEF Ahead, a, b
<1>5. ASSUME q.extents = p.extents + 1, q.offset <= p.offset PROVE Ahead(a, b)
  BY <1>1, <1>2, <1>3, <1>5 DEF Ahead, a, b
<1>6. QED
  BY <1>4, <1>5 DEF Ahead, a, b, m

LEMMA OneBlockMore ==
  ASSUME NEW s \in Seq(Child), Distinct(s), NEW k \in 1..(Len(s) + 1), NEW x \in Child,
         x \notin Elements(s)
  PROVE  Blocks(InsertAt(s, k, x)) \in {Blocks(s), Blocks(s) + 1}
<1> DEFINE t == InsertAt(s, k, x)
           e == Packing(s)
           f == Packing(t)
           T == {j \in 0..(Len(s) - (k - 1)) : Ahead(e[(k - 1) + j], f[k + j])}
<1>1. /\ t \in Seq(Child) /\ Len(t) = Len(s) + 1
      /\ \A j \in 1..(Len(s) + 1) :
           t[j] = IF j < k THEN s[j] ELSE IF j = k THEN x ELSE s[j - 1]
  <2>1. Inserted(t, s, k, x)
    BY InsertProperties
  <2>2. QED
    BY <2>1 DEF Inserted
<1>2. Distinct(t)
  BY InsertElements
<1> HIDE DEF t
<1>3. /\ \A j \in 1..Len(s) : e[j] = After(e[j - 1], Length[NameOf(s[j])])
      /\ \A j \in 0..Len(s) : e[j] \in Spot
  BY PackingStep, PackingType
<1>4. /\ \A j \in 1..Len(t) : f[j] = After(f[j - 1], Length[NameOf(t[j])])
      /\ \A j \in 0..Len(t) : f[j] \in Spot
  BY <1>1, PackingStep, PackingType
<1>5. Len(s) \in Nat /\ k - 1 \in Nat /\ k - 1 <= Len(s) /\ k - 1 <= Len(t) /\ k \in Nat
  BY <1>1
<1>6. e[k - 1] = f[k - 1]
  <2>1. \A j \in 1..(k - 1) : s[j] = t[j]
    BY <1>1, <1>5
  <2>2. \A j \in 0..(k - 1) : e[j] = f[j]
    BY <1>1, <1>5, <2>1, PrefixPacking
  <2>3. QED
    BY <1>5, <2>2
<1> HIDE DEF e, f
<1>7. \A c \in Child : NameOf(c) \in Name
  BY Sizes
<1>8. 0 \in T
  <2>1. k \in 1..Len(t) /\ k - 1 \in 0..Len(s) /\ t[k] = x /\ (k - 1) + 0 = k - 1 /\ k + 0 = k
    BY <1>1, <1>5
  <2>2. f[k] = After(e[k - 1], Length[NameOf(x)])
    BY <1>4, <1>6, <2>1
  <2>3. Ahead(e[k - 1], f[k])
    BY <1>3, <1>7, <2>1, <2>2, AheadFirst
  <2>4. QED
    BY <1>5, <2>1, <2>3
<1>9. ASSUME NEW j \in 0..(Len(s) - (k - 1) - 1), j \in T PROVE j + 1 \in T
  <2> DEFINE a == (k - 1) + j
             b == k + j
  <2>1. /\ a \in 0..Len(s) /\ a + 1 \in 1..Len(s) /\ (a + 1) - 1 = a
        /\ b \in 0..Len(t) /\ b + 1 \in 1..Len(t) /\ (b + 1) - 1 = b
        /\ b + 1 > k /\ (b + 1) - 1 = a + 1
        /\ a + 1 = (k - 1) + (j + 1) /\ b + 1 = k + (j + 1)
        /\ j + 1 \in 0..(Len(s) - (k - 1))
    BY <1>1, <1>5
  <2>2. Ahead(e[a], f[b])
    BY <1>9
  <2> HIDE DEF a, b
  <2>3. t[b + 1] = s[a + 1]
    BY <1>1, <1>5, <2>1
  <2>4. /\ e[a + 1] = After(e[a], Length[NameOf(s[a + 1])])
        /\ f[b + 1] = After(f[b], Length[NameOf(s[a + 1])])
    BY <1>3, <1>4, <2>1, <2>3
  <2>5. e[a] \in Spot /\ f[b] \in Spot /\ NameOf(s[a + 1]) \in Name
    BY <1>3, <1>4, <1>7, <2>1
  <2>6. Ahead(e[a + 1], f[b + 1])
    BY <2>2, <2>4, <2>5, AheadStep
  <2>7. QED
    BY <2>1, <2>6
<1> DEFINE n == Len(s) - (k - 1)
<1>10. n \in Nat /\ n \in 0..n /\ (k - 1) + n = Len(s) /\ k + n = Len(t)
  BY <1>1, <1>5
<1>11. Ahead(e[Len(s)], f[Len(t)])
  <2>1. \A j \in 0..(n - 1) : j \in T => j + 1 \in T
    BY <1>9
  <2> HIDE DEF T, n
  <2>2. \A j \in 0..n : j \in T
    BY ONLY <1>8, <1>10, <2>1, UpTo
  <2>3. Ahead(e[(k - 1) + n], f[k + n])
    BY <1>10, <2>2 DEF T
  <2>4. QED
    BY <1>10, <2>3
<1>12. /\ Blocks(s) = e[Len(s)].extents /\ Blocks(s) \in Nat
       /\ Blocks(t) = f[Len(t)].extents /\ Blocks(t) \in Nat
  BY <1>1, <1>2, LastPacked DEF e, f
<1>13. QED
  BY <1>11, <1>12 DEF Ahead, t

LEMMA OneBlockLess ==
  ASSUME NEW s \in Seq(Child), Distinct(s), NEW k \in 1..Len(s)
  PROVE  /\ Blocks(RemoveAt(s, k)) \in Nat \ {0}
         /\ Blocks(s) \in {Blocks(RemoveAt(s, k)), Blocks(RemoveAt(s, k)) + 1}
<1> DEFINE t == RemoveAt(s, k)
<1>1. t \in Seq(Child) /\ Len(t) = Len(s) - 1 /\ s[k] \in Child
  BY RemoveProperties DEF Removed
<1>2. Elements(t) = Elements(s) \ {s[k]} /\ Distinct(t) /\ InsertAt(t, k, s[k]) = s
  BY RemoveElements
<1> HIDE DEF t
<1> DEFINE x == s[k]
<1>3. k \in 1..(Len(t) + 1) /\ x \in Child /\ x \notin Elements(t)
  BY <1>1, <1>2
<1>4. InsertAt(t, k, x) = s
  BY <1>2
<1> HIDE DEF x
<1>5. Blocks(InsertAt(t, k, x)) \in {Blocks(t), Blocks(t) + 1}
  BY <1>1, <1>2, <1>3, OneBlockMore
<1>6. Blocks(t) \in Nat \ {0}
  BY <1>1, <1>2, LastPacked
<1>7. QED
  BY <1>4, <1>5, <1>6 DEF t


-----------------------------------------------------------------------------
(* The sorted lists and the binary search in them.                         *)

IsoKey == [c \in Child |-> NameOf(c)]
RrRank == [c \in Child |-> RrKey(c)]
SortedBy(s, g) == \A i, j \in 1..Len(s) : i < j => g[s[i]] <= g[s[j]]

LEMMA KeysType ==
  /\ IsoKey \in [Child -> Nat] /\ RrRank \in [Child -> Nat]
  /\ \A c \in Child : NameOf(c) \in Nat /\ RrKey(c) \in Nat
<1>1. \A c \in Child : NameOf(c) \in Name
  BY Sizes
<1>2. \A c \in Child : NameOf(c) \in Nat /\ RrKey(c) \in Nat
  BY <1>1, DirRecordAssumption DEF RrKey
<1>3. QED
  BY <1>2 DEF IsoKey, RrRank

\* k is the leftmost index of the list s whose key is not below v.
Leftmost(k, s, g, v) ==
  /\ k \in 1..(Len(s) + 1)
  /\ \A j \in 1..(k - 1) : g[s[j]] < v
  /\ \A j \in k..Len(s) : g[s[j]] >= v

LEMMA LeftmostExists ==
  ASSUME NEW s \in Seq(Child), NEW g \in [Child -> Nat], SortedBy(s, g), NEW v \in Nat
  PROVE  \E k \in 1..(Len(s) + 1) : Leftmost(k, s, g, v)
<1> DEFINE T == {k \in 1..(Len(s) + 1) : \A j \in k..Len(s) : g[s[j]] >= v}
<1>1. Len(s) \in Nat /\ \A j \in 1..Len(s) : g[s[j]] \in Nat
  OBVIOUS
<1>2. Len(s) + 1 \in T
  BY <1>1
<1>3. T \subseteq Nat
  BY <1>1
<1>4. PICK k \in T : \A y \in T : k <= y
  BY <1>2, <1>3, LeastNatural
<1>5. ASSUME NEW j \in 1..(k - 1) PROVE g[s[j]] < v
  <2>1. /\ k \in Nat /\ k - 1 \in 1..(Len(s) + 1) /\ k - 1 \in 1..Len(s) /\ ~(k <= k - 1)
        /\ j \in 1..Len(s) /\ j <= k - 1
    BY <1>1, <1>4
  <2>2. k - 1 \notin T
    BY <1>4, <2>1
  <2>3. PICK i \in (k - 1)..Len(s) : ~(g[s[i]] >= v)
    BY <2>1, <2>2
  <2>4. i = k - 1
    BY <1>1, <1>4, <2>1, <2>3
  <2>5. g[s[k - 1]] < v
    BY <1>1, <2>1, <2>3, <2>4
  <2>6. g[s[j]] <= g[s[k - 1]]
    <3>1. j = k - 1 \/ j < k - 1
      BY <1>1, <2>1
    <3>2. j < k - 1 => g[s[j]] <= g[s[k - 1]]
      BY <2>1 DEF SortedBy
    <3>3. g[s[j]] \in Nat
      BY <1>1, <2>1
    <3>4. j = k - 1 => g[s[j]] <= g[s[k - 1]]
      BY <3>3
    <3>5. QED
      BY <3>1, <3>2, <3>4
  <2>7. g[s[j]] \in Nat /\ g[s[k - 1]] \in Nat
    BY <1>1, <2>1
  <2> HIDE DEF T
  <2>8. QED
    BY <2>5, <2>6, <2>7
<1>6. QED
  BY <1>4, <1>5 DEF Leftmost

\* The two binary searches (dr.py:763 and 776, pycdlib.py:745).
LEMMA BisectIso ==
  ASSUME NEW s \in Seq(Child), SortedBy(s, IsoKey), NEW v \in Nat
  PROVE  Leftmost(Bisect(s, NameOf, v), s, IsoKey, v)
<1>1. PICK k \in 1..(Len(s) + 1) : Leftmost(k, s, IsoKey, v)
  BY KeysType, LeftmostExists
<1>2. \A j \in 1..Len(s) : IsoKey[s[j]] = NameOf(s[j])
  BY DEF IsoKey
<1> DEFINE P(m) == /\ \A j \in 1..(m - 1) : NameOf(s[j]) < v
                   /\ \A j \in m..Len(s) : NameOf(s[j]) >= v
<1>3. P(k)
  BY <1>1, <1>2 DEF Leftmost
<1>4. Bisect(s, NameOf, v) = CHOOSE m \in 1..(Len(s) + 1) : P(m)
  BY Zenon DEF Bisect
<1> DEFINE b == Bisect(s, NameOf, v)
<1>5. b \in 1..(Len(s) + 1) /\ P(b)
  <2> HIDE DEF P
  <2>1. QED
    BY <1>3, <1>4
<1> HIDE DEF b
<1>6. ASSUME NEW j \in 1..(b - 1) PROVE IsoKey[s[j]] < v
  <2>1. j \in 1..Len(s) /\ NameOf(s[j]) < v
    BY <1>5
  <2>2. QED
    BY <1>2, <2>1
<1>7. ASSUME NEW j \in b..Len(s) PROVE IsoKey[s[j]] >= v
  <2>1. j \in 1..Len(s) /\ NameOf(s[j]) >= v
    BY <1>5
  <2>2. QED
    BY <1>2, <2>1
<1>8. QED
  BY <1>5, <1>6, <1>7 DEF Leftmost, b

LEMMA BisectRr ==
  ASSUME NEW s \in Seq(Child), SortedBy(s, RrRank), NEW v \in Nat
  PROVE  Leftmost(Bisect(s, RrKey, v), s, RrRank, v)
<1>1. PICK k \in 1..(Len(s) + 1) : Leftmost(k, s, RrRank, v)
  BY KeysType, LeftmostExists
<1>2. \A j \in 1..Len(s) : RrRank[s[j]] = RrKey(s[j])
  BY DEF RrRank
<1> DEFINE P(m) == /\ \A j \in 1..(m - 1) : RrKey(s[j]) < v
                   /\ \A j \in m..Len(s) : RrKey(s[j]) >= v
<1>3. P(k)
  BY <1>1, <1>2 DEF Leftmost
<1>4. Bisect(s, RrKey, v) = CHOOSE m \in 1..(Len(s) + 1) : P(m)
  BY Zenon DEF Bisect
<1> DEFINE b == Bisect(s, RrKey, v)
<1>5. b \in 1..(Len(s) + 1) /\ P(b)
  <2> HIDE DEF P
  <2>1. QED
    BY <1>3, <1>4
<1> HIDE DEF b
<1>6. ASSUME NEW j \in 1..(b - 1) PROVE RrRank[s[j]] < v
  <2>1. j \in 1..Len(s) /\ RrKey(s[j]) < v
    BY <1>5
  <2>2. QED
    BY <1>2, <2>1
<1>7. ASSUME NEW j \in b..Len(s) PROVE RrRank[s[j]] >= v
  <2>1. j \in 1..Len(s) /\ RrKey(s[j]) >= v
    BY <1>5
  <2>2. QED
    BY <1>2, <2>1
<1>8. QED
  BY <1>5, <1>6, <1>7 DEF Leftmost, b

\* It finds a key that is there.
LEMMA LeftmostFinds ==
  ASSUME NEW s \in Seq(Child), NEW g \in [Child -> Nat], SortedBy(s, g), NEW v \in Nat,
         NEW k, Leftmost(k, s, g, v), NEW c \in Elements(s), g[c] = v
  PROVE  k \in 1..Len(s) /\ g[s[k]] = v
<1>1. PICK j \in 1..Len(s) : s[j] = c
  BY DEF Elements
<1>2. /\ k \in 1..(Len(s) + 1) /\ Len(s) \in Nat
      /\ \A i \in 1..(k - 1) : g[s[i]] < v
      /\ \A i \in k..Len(s) : g[s[i]] >= v
      /\ \A i \in 1..Len(s) : g[s[i]] \in Nat
  BY DEF Leftmost
<1>3. ~(j \in 1..(k - 1))
  BY <1>1, <1>2
<1>4. k <= j /\ k \in 1..Len(s)
  BY <1>2, <1>3
<1>5. g[s[k]] >= v
  BY <1>2, <1>4
<1>6. k = j \/ g[s[k]] <= g[s[j]]
  BY <1>2, <1>4 DEF SortedBy
<1>7. g[s[k]] <= v
  BY <1>1, <1>2, <1>4, <1>6
<1>8. QED
  BY <1>2, <1>4, <1>5, <1>7

LEMMA InsertSorted ==
  ASSUME NEW s \in Seq(Child), NEW k \in 1..(Len(s) + 1), NEW x \in Child,
         NEW g \in [Child -> Nat], SortedBy(s, g),
         \A j \in 1..(k - 1) : g[s[j]] <= g[x],
         \A j \in k..Len(s) : g[x] <= g[s[j]]
  PROVE  SortedBy(InsertAt(s, k, x), g)
<1> DEFINE t == InsertAt(s, k, x)
<1>1. /\ t \in Seq(Child) /\ Len(t) = Len(s) + 1
      /\ \A j \in 1..(Len(s) + 1) :
           t[j] = IF j < k THEN s[j] ELSE IF j = k THEN x ELSE s[j - 1]
  <2>1. Inserted(t, s, k, x)
    BY InsertProperties
  <2>2. QED
    BY <2>1 DEF Inserted
<1> HIDE DEF t
<1>2. /\ Len(s) \in Nat /\ k \in Nat
      /\ \A j \in 1..Len(s) : g[s[j]] \in Nat
      /\ g[x] \in Nat
  OBVIOUS
<1> SUFFICES ASSUME NEW i \in 1..Len(t), NEW j \in 1..Len(t), i < j PROVE g[t[i]] <= g[t[j]]
  BY DEF SortedBy, t
<1>3. CASE j < k
  <2>1. i \in 1..Len(s) /\ j \in 1..Len(s) /\ i < k
    <3> DEFINE n == Len(s)
    <3>1. i \in 1..(n + 1) /\ j \in 1..(n + 1) /\ n \in Nat /\ k \in 1..(n + 1)
      BY <1>1, <1>2
    <3> HIDE DEF n
    <3>2. i \in 1..n /\ j \in 1..n /\ i < k
      BY ONLY <3>1, <1>3, i < j
    <3>3. QED
      BY <3>2 DEF n
  <2>2. i \in 1..(Len(s) + 1) /\ j \in 1..(Len(s) + 1)
    BY <1>1
  <2>3. t[i] = s[i] /\ t[j] = s[j]
    BY <1>1, <1>3, <2>1, <2>2
  <2>4. QED
    BY <2>1, <2>3 DEF SortedBy
<1>4. CASE j = k
  <2>1. i \in 1..(k - 1) /\ t[i] = s[i] /\ t[j] = x
    BY <1>1, <1>2, <1>4
  <2>2. QED
    BY <2>1
<1>5. CASE j > k /\ i < k
  <2>1. i \in 1..Len(s) /\ j - 1 \in 1..Len(s) /\ i < j /\ t[i] = s[i] /\ t[j] = s[j - 1]
    BY <1>1, <1>2, <1>5
  <2>2. i \in 1..(k - 1) /\ j - 1 \in k..Len(s)
    BY <1>1, <1>2, <1>5
  <2>3. g[s[i]] <= g[x] /\ g[x] <= g[s[j - 1]]
    BY <2>2
  <2>4. QED
    BY <1>2, <2>1, <2>3
<1>6. CASE j > k /\ i = k
  <2>1. j - 1 \in k..Len(s) /\ t[i] = x /\ t[j] = s[j - 1]
    BY <1>1, <1>2, <1>6
  <2>2. QED
    BY <2>1
<1>7. CASE j > k /\ i > k
  <2>1. /\ i - 1 \in 1..Len(s) /\ j - 1 \in 1..Len(s) /\ i - 1 < j - 1
        /\ t[i] = s[i - 1] /\ t[j] = s[j - 1]
    BY <1>1, <1>2, <1>7
  <2>2. QED
    BY <2>1 DEF SortedBy
<1>8. QED
  BY <1>2, <1>3, <1>4, <1>5, <1>6, <1>7

LEMMA RemoveSorted ==
  ASSUME NEW s \in Seq(Child), NEW k \in 1..Len(s), NEW g \in [Child -> Nat], SortedBy(s, g)
  PROVE  SortedBy(RemoveAt(s, k), g)
<1> DEFINE t == RemoveAt(s, k)
<1>1. /\ t \in Seq(Child) /\ Len(t) = Len(s) - 1
      /\ \A j \in 1..(Len(s) - 1) : t[j] = IF j < k THEN s[j] ELSE s[j + 1]
  <2>1. Removed(t, s, k)
    BY RemoveProperties
  <2>2. QED
    BY <2>1 DEF Removed
<1> HIDE DEF t
<1>2. Len(s) \in Nat /\ k \in Nat
  OBVIOUS
<1> SUFFICES ASSUME NEW i \in 1..Len(t), NEW j \in 1..Len(t), i < j PROVE g[t[i]] <= g[t[j]]
  BY DEF SortedBy, t
<1> DEFINE p(n) == IF n < k THEN n ELSE n + 1
<1>3. ASSUME NEW n \in 1..Len(t) PROVE p(n) \in 1..Len(s) /\ t[n] = s[p(n)]
  <2>1. n \in 1..(Len(s) - 1)
    BY <1>1
  <2>2. p(n) \in 1..Len(s)
    BY <1>2, <2>1
  <2>3. t[n] = IF n < k THEN s[n] ELSE s[n + 1]
    BY <1>1, <2>1
  <2>4. QED
    BY <2>2, <2>3
<1>4. p(i) < p(j)
  <2>1. i \in Nat /\ j \in Nat
    BY <1>1, <1>2
  <2>2. QED
    BY ONLY <2>1, <1>2, i < j
<1> HIDE DEF p
<1>5. QED
  BY <1>3, <1>4 DEF SortedBy

\* A list of a finite set in order (the first listing of a directory).
LEMMA OrderProperties ==
  ASSUME NEW S \in SUBSET Child, IsFiniteSet(S), NEW s \in [1..Cardinality(S) -> S],
         Elements(s) = S
  PROVE  s \in Seq(Child) /\ Distinct(s)
<1>1. Cardinality(S) \in Nat
  BY FS_CardinalityType
<1> DEFINE n == Cardinality(S)
<1>2. s \in Seq(Child) /\ Len(s) = n
  BY <1>1
<1>3. IsFiniteSet(1..n) /\ Cardinality(1..n) = n
  BY <1>1, FS_Interval
<1>4. s \in Surjection(1..n, S)
  <2>1. \A c \in S : \E j \in 1..n : s[j] = c
    BY <1>2 DEF Elements
  <2>2. QED
    BY <2>1 DEF Surjection
<1>5. s \in Injection(1..n, S)
  BY <1>3, <1>4, FS_SurjSameCardinalityImpliesInj
<1>6. \A i, j \in 1..n : s[i] = s[j] => i = j
  <2> HIDE DEF n
  <2>1. QED
    BY <1>5 DEF Injection, IsInjective
<1>7. QED
  BY <1>2, <1>6 DEF Distinct


-----------------------------------------------------------------------------
(* The inductive invariant: the records are distinct and sorted twice, and *)
(* their places are those of packing them all.                             *)

RecordsInv ==
  /\ TypeOK
  /\ Distinct(children) /\ SortedBy(children, IsoKey)
  /\ SortedBy(rrChildren, RrRank)
  /\ rockRidge => Elements(children) \subseteq Elements(rrChildren)
  /\ pos = Packed(children)
  /\ CountsFit

Dirs(S) == {c \in S : IsDir(c)}

LEMMA DirRecords ==
  /\ \A c \in Child, d \in DirName : NameOf(c) = d <=> c = <<d, 1>>
  /\ \A d \in DirName : <<d, 1>> \in Child /\ NameOf(<<d, 1>>) = d
  /\ \A c \in Child : IsDir(c) <=> \E d \in DirName : c = <<d, 1>>
BY DirRecordAssumption DEF Child, NameOf, IsDir, Name

LEMMA DirsFinite ==
  ASSUME NEW S \in SUBSET Child
  PROVE  IsFiniteSet(Dirs(S)) /\ Cardinality(Dirs(S)) \in Nat
<1>1. IsFiniteSet(DirName)
  BY DirRecordAssumption, FS_Subset DEF Name
<1>2. IsFiniteSet(DirName \X {1})
  BY <1>1, FS_Singleton, FS_Product
<1>3. Dirs(S) \subseteq DirName \X {1}
  BY DirRecords DEF Dirs
<1>4. IsFiniteSet(Dirs(S))
  BY <1>2, <1>3, FS_Subset
<1>5. QED
  BY <1>4, FS_CardinalityType

LEMMA PackedType ==
  ASSUME NEW s \in Seq(Child), Distinct(s)
  PROVE  Packed(s) \in [Child -> [extents : Nat, offset : 0..BlockSize, index : Nat]]
<1> DEFINE R == [extents : Nat, offset : 0..BlockSize, index : Nat]
<1>1. ASSUME NEW c \in Child PROVE Packed(s)[c] \in R
  <2>1. CASE c \in Elements(s)
    <3>1. PICK j \in 1..Len(s) : s[j] = c
      BY <2>1 DEF Elements
    <3>2. Packed(s)[c] = [extents |-> Packing(s)[j].extents,
                          offset |-> Packing(s)[j].offset, index |-> j]
      BY <3>1, PackedAt
    <3>3. j \in 0..Len(s) /\ j \in Nat
      BY <3>1
    <3>4. Packing(s)[j] \in Spot
      BY <3>3, PackingType
    <3>5. QED
      BY <3>2, <3>3, <3>4, Sizes DEF Spot
  <2>2. CASE c \notin Elements(s)
    <3>1. 1 \in Nat \ {0}
      OBVIOUS
    <3>2. Packed(s)[c] = Nowhere
      BY <2>2, <3>1, PlaceOutside DEF Packed
    <3>3. QED
      BY <3>2, Sizes DEF Nowhere
  <2>3. QED
    BY <2>1, <2>2
<1>2. Packed(s) = [c \in Child |-> Packed(s)[c]]
  BY DEF Packed, Places
<1>3. QED
  BY <1>1, <1>2

\* Where the searches put a new record.
LEMMA ElementsOf == \A s \in Seq(Child) : Elements(s) \subseteq Child
BY DEF Elements

\* _add_child keeps the lists sorted, the places right and the length fitting.
LEMMA InsertKeeps ==
  ASSUME RecordsInv, NEW c \in Child, c \notin Elements(children),
         NEW k \in 1..(Len(children) + 1),
         \A j \in 1..(k - 1) : IsoKey[children[j]] <= IsoKey[c],
         \A j \in k..Len(children) : IsoKey[c] <= IsoKey[children[j]],
         Insert(c, k)
  PROVE  /\ children' \in Seq(Child) /\ Distinct(children') /\ SortedBy(children', IsoKey)
         /\ Elements(children') = Elements(children) \cup {c}
         /\ rrChildren' \in Seq(Child) /\ SortedBy(rrChildren', RrRank)
         /\ rockRidge => Elements(children') \subseteq Elements(rrChildren')
         /\ pos' = Packed(children')
         /\ dataLength' \in Nat \ {0} /\ dot' = dataLength' /\ charged' = dataLength'
         /\ Blocks(children') <= dataLength' /\ dataLength' <= Blocks(children') + 1
         /\ raised' = "none"
<1> DEFINE s == InsertAt(children, k, c)
<1>1. /\ children \in Seq(Child) /\ Distinct(children) /\ SortedBy(children, IsoKey)
      /\ rrChildren \in Seq(Child) /\ SortedBy(rrChildren, RrRank)
      /\ rockRidge => Elements(children) \subseteq Elements(rrChildren)
      /\ pos = Packed(children)
  BY DEF RecordsInv, TypeOK
<1>2. children' = s /\ pos' = Repack(s, k) /\ raised' = "none"
  BY DEF Insert
<1>3. s \in Seq(Child) /\ Len(s) = Len(children) + 1 /\ Inserted(s, children, k, c)
  <2>1. Inserted(s, children, k, c)
    BY <1>1, InsertProperties
  <2>2. QED
    BY <2>1 DEF Inserted
<1>4. Elements(s) = Elements(children) \cup {c} /\ Distinct(s)
  BY <1>1, InsertElements
<1>5. SortedBy(s, IsoKey)
  BY <1>1, KeysType, InsertSorted
<1>6. Blocks(s) \in {Blocks(children), Blocks(children) + 1}
  BY <1>1, OneBlockMore
<1> HIDE DEF s
<1>7. Repack(s, k) = Packed(s)
  <2>1. k \in Nat \ {0} /\ k <= Len(s) + 1 /\ k <= Len(children) + 1
    BY <1>1, <1>3
  <2>2. \A j \in 1..(k - 1) : s[j] = children[j]
    BY <1>1, <1>3, <2>1 DEF Inserted
  <2>3. Places(s, k, Packed(children)) = Packed(s)
    BY <1>1, <1>3, <1>4, <2>1, <2>2, PlacesPacked
  <2>4. QED
    BY <1>1, <2>3 DEF Repack
<1>8. /\ rrChildren' \in Seq(Child) /\ SortedBy(rrChildren', RrRank)
      /\ rockRidge => Elements(s) \subseteq Elements(rrChildren')
  <2>1. CASE ~rockRidge
    BY <1>1, <2>1 DEF Insert
  <2>2. CASE rockRidge
    <3> DEFINE m == Bisect(rrChildren, RrKey, RrKey(c))
               t == InsertAt(rrChildren, m, c)
    <3>1. rrChildren' = t
      BY <2>2 DEF Insert
    <3>2. Leftmost(m, rrChildren, RrRank, RrKey(c))
      BY <1>1, KeysType, BisectRr
    <3> HIDE DEF m
    <3>3. RrRank[c] = RrKey(c) /\ RrKey(c) \in Nat /\ RrRank \in [Child -> Nat]
      BY KeysType DEF RrRank
    <3>4. /\ m \in 1..(Len(rrChildren) + 1)
          /\ \A j \in 1..(m - 1) : RrRank[rrChildren[j]] < RrKey(c)
          /\ \A j \in m..Len(rrChildren) : RrRank[rrChildren[j]] >= RrKey(c)
      BY <3>2 DEF Leftmost
    <3>5. ASSUME NEW j \in 1..(m - 1) PROVE RrRank[rrChildren[j]] <= RrRank[c]
      <4>1. rrChildren[j] \in Child /\ RrRank[rrChildren[j]] < RrKey(c)
        BY <1>1, <3>4
      <4>2. RrRank[rrChildren[j]] \in Nat
        BY <3>3, <4>1
      <4>3. QED
        BY <3>3, <4>1, <4>2
    <3>6. ASSUME NEW j \in m..Len(rrChildren) PROVE RrRank[c] <= RrRank[rrChildren[j]]
      <4>1. rrChildren[j] \in Child /\ RrRank[rrChildren[j]] >= RrKey(c)
        BY <1>1, <3>4
      <4>2. RrRank[rrChildren[j]] \in Nat
        BY <3>3, <4>1
      <4>3. QED
        BY <3>3, <4>1, <4>2
    <3>7. SortedBy(t, RrRank)
      BY <1>1, <3>3, <3>4, <3>5, <3>6, InsertSorted
    <3>8. Elements(t) = Elements(rrChildren) \cup {c}
      BY <1>1, <3>4, InsertElements
    <3>9. t \in Seq(Child)
      BY <1>1, <3>4, InsertProperties DEF Inserted
    <3> HIDE DEF t
    <3>10. QED
      BY <1>1, <1>4, <2>2, <3>1, <3>7, <3>8, <3>9
  <2>3. QED
    BY <2>1, <2>2
<1>9. /\ dataLength' = dataLength + (IF Blocks(s) > dataLength THEN 1 ELSE 0)
      /\ dot' = dataLength' /\ charged' = dataLength'
  <2>1. Overflowed(s, Repack(s, k)) <=> Blocks(s) > dataLength
    BY <1>7 DEF Overflowed, Blocks
  <2>2. dot = dataLength /\ charged = dataLength
    BY DEF RecordsInv, CountsFit
  <2>3. Resize(IF Overflowed(s, Repack(s, k)) THEN 1 ELSE 0)
    BY DEF Insert, s
  <2>4. QED
    BY <2>1, <2>2, <2>3 DEF Resize
<1>10. /\ Blocks(children) <= dataLength /\ dataLength <= Blocks(children) + 1
       /\ dataLength \in Nat \ {0}
  BY DEF RecordsInv, CountsFit, TypeOK
<1>11. Blocks(children) \in Nat /\ Blocks(s) \in Nat
  BY <1>1, <1>3, <1>4, LastPacked
<1>12. /\ dataLength' \in Nat \ {0}
       /\ Blocks(s) <= dataLength' /\ dataLength' <= Blocks(s) + 1
  BY <1>6, <1>9, <1>10, <1>11
<1>13. QED
  BY <1>2, <1>3, <1>4, <1>5, <1>7, <1>8, <1>9, <1>12

\* remove_child takes off a block when more than one is left over (dr.py:913).
LEMMA Shrinks ==
  ASSUME NEW e \in Nat, NEW o \in 1..BlockSize, NEW n \in {e, e + 1, e + 2}, e # 0
  PROVE  LET d == IF n * BlockSize - ((e - 1) * BlockSize + o) > BlockSize THEN n - 1 ELSE n
         IN d \in {e, e + 1}
<1> DEFINE B == BlockSize
           x == e * B
<1>1. B \in Nat /\ 2 <= B /\ o \in Nat /\ 1 <= o /\ o <= B
  BY Sizes
<1>2. x \in Int /\ (e - 1) * B = x - B /\ (e + 1) * B = x + B /\ (e + 2) * B = x + B + B
  BY <1>1
<1> HIDE DEF x, B
<1>3. ASSUME n = e PROVE ~(n * B - ((e - 1) * B + o) > B)
  BY <1>1, <1>2, <1>3 DEF x
<1>4. ASSUME n = e + 2 PROVE n * B - ((e - 1) * B + o) > B
  BY <1>1, <1>2, <1>4
<1>5. QED
  BY <1>3, <1>4 DEF B

\* What the counts say, in terms of the set of the records.
LEMMA CountsFrom ==
  ASSUME RecordsInv
  PROVE  /\ \A d \in DirName : <<d, 1>> \in Elements(children) => dotdots[d] \in {1, dataLength}
         /\ rockRidge => links >= 2 + Cardinality(Dirs(Elements(children)))
<1>1. ASSUME NEW d \in DirName, <<d, 1>> \in Elements(children)
      PROVE  dotdots[d] \in {1, dataLength}
  <2>1. Taken(d)
    BY <1>1, DirRecords DEF Taken
  <2>2. QED
    BY <2>1 DEF RecordsInv, CountsFit
<1>2. QED
  BY <1>1 DEF RecordsInv, CountsFit, Dirs

DotdotsFit == \A d \in DirName : Taken(d) => dotdots[d] \in {1, dataLength}
LinksFit == rockRidge => links >= 2 + Cardinality({c \in Elements(children) : IsDir(c)})

LEMMA CountsNext ==
  ASSUME children' \in Seq(Child),
         \A d \in DirName : <<d, 1>> \in Elements(children') => dotdots'[d] \in {1, dataLength'},
         rockRidge' => links' >= 2 + Cardinality(Dirs(Elements(children')))
  PROVE  DotdotsFit' /\ LinksFit'
<1>1. ASSUME NEW d \in DirName, NEW c \in Elements(children'), NameOf(c) = d
      PROVE  dotdots'[d] \in {1, dataLength'}
  <2>1. c = <<d, 1>>
    BY <1>1, DirRecords, ElementsOf
  <2>2. QED
    BY <1>1, <2>1
<1>2. QED
  BY <1>1 DEF DotdotsFit, LinksFit, Dirs, Taken

\* The invariant from its parts.
LEMMA InvNext ==
  ASSUME children' \in Seq(Child), Distinct(children'), SortedBy(children', IsoKey),
         rrChildren' \in Seq(Child), SortedBy(rrChildren', RrRank),
         rockRidge' => Elements(children') \subseteq Elements(rrChildren'),
         pos' = Packed(children'),
         dataLength' \in Nat \ {0}, dot' = dataLength', charged' = dataLength',
         Blocks(children') <= dataLength', dataLength' <= Blocks(children') + 1,
         rockRidge' \in BOOLEAN, dotdots' \in [DirName -> Nat], links' \in Nat,
         raised' \in {"none", "invalid"}, DotdotsFit', LinksFit'
  PROVE  RecordsInv'
<1>1. pos' \in [Child -> [extents : Nat, offset : 0..BlockSize, index : Nat]]
  BY PackedType
<1>2. TypeOK'
  BY <1>1 DEF TypeOK
<1>3. CountsFit'
  BY DEF CountsFit, DotdotsFit, LinksFit
<1>4. QED
  BY <1>2, <1>3 DEF RecordsInv

\* The ".." records follow the length.
LEMMA FollowFits ==
  ASSUME RecordsInv, NEW s \in Seq(Child), dataLength' \in Nat \ {0}
  PROVE  /\ Follow(s) \in [DirName -> Nat]
         /\ \A d \in DirName : /\ <<d, 1>> \in Elements(s)
                               /\ <<d, 1>> \in Elements(children)
                               => Follow(s)[d] \in {1, dataLength'}
<1>1. dotdots \in [DirName -> Nat]
  BY DEF RecordsInv, TypeOK
<1>2. CASE dataLength' = dataLength
  BY <1>1, <1>2, CountsFrom DEF Follow
<1>3. CASE dataLength' # dataLength
  BY <1>3 DEF Follow, Dotdots
<1>4. QED
  BY <1>2, <1>3

LEMMA AddFileStep == ASSUME RecordsInv, NEW c \in Child, AddFile(c) PROVE RecordsInv'
<1> DEFINE n == NameOf(c)
           p == Place(n)
           k == IF Taken(n) THEN p + 1 ELSE p
<1>1. /\ children \in Seq(Child) /\ SortedBy(children, IsoKey) /\ rockRidge \in BOOLEAN
      /\ links \in Nat
  BY DEF RecordsInv, TypeOK
<1>2. n \in FileName /\ n \in Nat /\ IsoKey[c] = n /\ IsoKey \in [Child -> Nat]
  BY KeysType DEF AddFile, IsoKey
<1>3. Leftmost(p, children, IsoKey, n)
  BY <1>1, <1>2, BisectIso DEF Place
<1>4. Taken(n) => p \in 1..Len(children) /\ IsoKey[children[p]] = n
  <2> SUFFICES ASSUME Taken(n) PROVE p \in 1..Len(children) /\ IsoKey[children[p]] = n
    OBVIOUS
  <2>1. PICK o \in Elements(children) : NameOf(o) = n
    BY DEF Taken
  <2>2. IsoKey[o] = n
    BY <1>1, <2>1, ElementsOf DEF IsoKey
  <2> HIDE DEF p, n
  <2>3. QED
    BY <1>1, <1>2, <1>3, <2>2, LeftmostFinds
<1>5. c \notin Elements(children) /\ Insert(c, k) /\ dotdots' = Follow(children)
      /\ rockRidge' = rockRidge /\ links' = links
  BY DEF AddFile
<1>6. /\ p \in 1..(Len(children) + 1) /\ Len(children) \in Nat
      /\ \A j \in 1..(p - 1) : IsoKey[children[j]] < n
      /\ \A j \in p..Len(children) : IsoKey[children[j]] >= n
      /\ \A j \in 1..Len(children) : IsoKey[children[j]] \in Nat
  BY <1>1, <1>2, <1>3 DEF Leftmost
<1> HIDE DEF p, n
<1>7. k \in 1..(Len(children) + 1)
  BY <1>4, <1>6
<1>8. ASSUME NEW j \in 1..(k - 1) PROVE IsoKey[children[j]] <= n
  <2>1. p \in Nat /\ j \in Nat /\ 1 <= j
    BY <1>6
  <2>2. CASE j \in 1..(p - 1)
    <3>1. IsoKey[children[j]] < n /\ j \in 1..Len(children)
      BY <1>6, <2>2
    <3>2. QED
      BY <1>2, <1>6, <3>1
  <2>3. CASE j \notin 1..(p - 1)
    <3>1. Taken(n) /\ j = p
      BY <2>1, <2>3
    <3>2. QED
      BY <1>2, <1>4, <3>1
  <2>4. QED
    BY <2>2, <2>3
<1>9. ASSUME NEW j \in k..Len(children) PROVE n <= IsoKey[children[j]]
  <2>1. j \in 1..Len(children) /\ j \in p..Len(children)
    BY <1>6, <1>7
  <2>2. QED
    BY <1>2, <1>6, <2>1
<1> HIDE DEF k
<1>10. /\ children' \in Seq(Child) /\ Distinct(children') /\ SortedBy(children', IsoKey)
       /\ Elements(children') = Elements(children) \cup {c}
       /\ rrChildren' \in Seq(Child) /\ SortedBy(rrChildren', RrRank)
       /\ rockRidge => Elements(children') \subseteq Elements(rrChildren')
       /\ pos' = Packed(children')
       /\ dataLength' \in Nat \ {0} /\ dot' = dataLength' /\ charged' = dataLength'
       /\ Blocks(children') <= dataLength' /\ dataLength' <= Blocks(children') + 1
       /\ raised' = "none"
  BY <1>2, <1>5, <1>7, <1>8, <1>9, InsertKeeps
<1>11. \A d \in DirName : <<d, 1>> \in Elements(children') => <<d, 1>> \in Elements(children)
  <2>1. \A d \in DirName : c # <<d, 1>>
    BY <1>2, DirRecords, DirRecordAssumption DEF n
  <2>2. QED
    BY <1>10, <2>1
<1>12. /\ dotdots' \in [DirName -> Nat]
       /\ \A d \in DirName : <<d, 1>> \in Elements(children') => dotdots'[d] \in {1, dataLength'}
  BY <1>1, <1>5, <1>10, <1>11, FollowFits
<1>13. Dirs(Elements(children')) = Dirs(Elements(children))
  <2>1. ~IsDir(c)
    BY <1>2, DirRecordAssumption DEF IsDir, n
  <2>2. QED
    BY <1>10, <2>1 DEF Dirs
<1>14. rockRidge' => links' >= 2 + Cardinality(Dirs(Elements(children')))
  BY <1>5, <1>13, CountsFrom
<1>15. DotdotsFit' /\ LinksFit'
  BY <1>10, <1>12, <1>14, CountsNext
<1>16. QED
  BY <1>1, <1>5, <1>10, <1>12, <1>15, InvNext

LEMMA AddDirectoryStep ==
  ASSUME RecordsInv, NEW d \in DirName, AddDirectory(d)
  PROVE  RecordsInv'
<1> DEFINE c == <<d, 1>>
           k == Place(d)
<1>1. /\ children \in Seq(Child) /\ SortedBy(children, IsoKey) /\ rockRidge \in BOOLEAN
      /\ links \in Nat
  BY DEF RecordsInv, TypeOK
<1>2. c \in Child /\ d \in Nat /\ IsoKey[c] = d /\ IsoKey \in [Child -> Nat]
  BY DirRecords, KeysType DEF IsoKey
<1>3. /\ ~Taken(d) /\ Insert(c, k) /\ dotdots' = [Follow(children) EXCEPT ![d] = 1]
      /\ rockRidge' = rockRidge /\ links' = IF rockRidge THEN links + 1 ELSE links
  BY DEF AddDirectory
<1>4. Leftmost(k, children, IsoKey, d)
  BY <1>1, <1>2, BisectIso DEF Place
<1>5. c \notin Elements(children)
  BY <1>3, DirRecords DEF Taken
<1> HIDE DEF k
<1>6. /\ k \in 1..(Len(children) + 1) /\ Len(children) \in Nat
      /\ \A j \in 1..(k - 1) : IsoKey[children[j]] < d
      /\ \A j \in k..Len(children) : IsoKey[children[j]] >= d
      /\ \A j \in 1..Len(children) : IsoKey[children[j]] \in Nat
  BY <1>1, <1>2, <1>4 DEF Leftmost
<1>7. ASSUME NEW j \in 1..(k - 1) PROVE IsoKey[children[j]] <= d
  <2>1. j \in 1..Len(children) /\ IsoKey[children[j]] < d
    BY <1>6
  <2>2. QED
    BY <1>2, <1>6, <2>1
<1>8. ASSUME NEW j \in k..Len(children) PROVE d <= IsoKey[children[j]]
  <2>1. j \in 1..Len(children) /\ IsoKey[children[j]] >= d
    BY <1>6
  <2>2. QED
    BY <1>2, <1>6, <2>1
<1> HIDE DEF c
<1>9. /\ children' \in Seq(Child) /\ Distinct(children') /\ SortedBy(children', IsoKey)
      /\ Elements(children') = Elements(children) \cup {c}
      /\ rrChildren' \in Seq(Child) /\ SortedBy(rrChildren', RrRank)
      /\ rockRidge => Elements(children') \subseteq Elements(rrChildren')
      /\ pos' = Packed(children')
      /\ dataLength' \in Nat \ {0} /\ dot' = dataLength' /\ charged' = dataLength'
      /\ Blocks(children') <= dataLength' /\ dataLength' <= Blocks(children') + 1
      /\ raised' = "none"
  BY <1>2, <1>3, <1>5, <1>6, <1>7, <1>8, InsertKeeps
<1>10. /\ Follow(children) \in [DirName -> Nat]
       /\ \A b \in DirName :
            <<b, 1>> \in Elements(children) => Follow(children)[b] \in {1, dataLength'}
  BY <1>1, <1>9, FollowFits
<1>11. dotdots' \in [DirName -> Nat] /\ links' \in Nat
  BY <1>1, <1>3, <1>10
<1>12. ASSUME NEW b \in DirName, <<b, 1>> \in Elements(children')
       PROVE  dotdots'[b] \in {1, dataLength'}
  <2>1. CASE b = d
    BY <1>3, <1>10, <2>1
  <2>2. CASE b # d
    <3>1. <<b, 1>> \in Elements(children)
      BY <1>9, <1>12, <2>2 DEF c
    <3>2. QED
      BY <1>3, <1>10, <2>2, <3>1
  <2>3. QED
    BY <2>1, <2>2
<1>13. rockRidge' => links' >= 2 + Cardinality(Dirs(Elements(children')))
  <2>1. IsDir(c)
    BY <1>2, DirRecords DEF c
  <2>2. Dirs(Elements(children')) = Dirs(Elements(children)) \cup {c}
    BY <1>9, <2>1 DEF Dirs
  <2>3. c \notin Dirs(Elements(children))
    BY <1>5 DEF Dirs
  <2>4. /\ IsFiniteSet(Dirs(Elements(children)))
        /\ Cardinality(Dirs(Elements(children))) \in Nat
    BY <1>1, DirsFinite, ElementsOf
  <2>5. Cardinality(Dirs(Elements(children'))) = Cardinality(Dirs(Elements(children))) + 1
    BY <2>2, <2>3, <2>4, FS_AddElement
  <2>6. rockRidge => links >= 2 + Cardinality(Dirs(Elements(children)))
    BY CountsFrom
  <2>7. QED
    BY <1>1, <1>3, <2>4, <2>5, <2>6
<1>14. DotdotsFit' /\ LinksFit'
  BY <1>9, <1>12, <1>13, CountsNext
<1>15. QED
  BY <1>1, <1>3, <1>9, <1>11, <1>14, InvNext

LEMMA AddDirectoryFailsStep ==
  ASSUME RecordsInv, NEW d \in DirName, AddDirectoryFails(d)
  PROVE  RecordsInv'
<1>1. /\ children' = children /\ rrChildren' = rrChildren /\ pos' = pos
      /\ dataLength' = dataLength /\ dot' = dot /\ charged' = charged /\ dotdots' = dotdots
      /\ rockRidge' = rockRidge /\ raised' = "invalid"
      /\ links' = IF rockRidge THEN links + 1 ELSE links
  BY DEF AddDirectoryFails
<1>2. links \in Nat /\ children \in Seq(Child)
  BY DEF RecordsInv, TypeOK
<1>3. links' \in Nat /\ TypeOK'
  BY <1>1, <1>2 DEF RecordsInv, TypeOK
<1>4. /\ IsFiniteSet(Dirs(Elements(children)))
      /\ Cardinality(Dirs(Elements(children))) \in Nat
  BY <1>2, DirsFinite, ElementsOf
<1>5. rockRidge' => links' >= 2 + Cardinality(Dirs(Elements(children')))
  BY <1>1, <1>2, <1>4, CountsFrom
<1>6. \A b \in DirName : <<b, 1>> \in Elements(children') => dotdots'[b] \in {1, dataLength'}
  BY <1>1, CountsFrom
<1>7. DotdotsFit' /\ LinksFit'
  BY <1>1, <1>2, <1>5, <1>6, CountsNext
<1>8. CountsFit'
  BY <1>1, <1>7 DEF RecordsInv, CountsFit, DotdotsFit, LinksFit
<1>9. QED
  BY <1>1, <1>3, <1>8 DEF RecordsInv

LEMMA RemoveStep == ASSUME RecordsInv, NEW c \in Child, Remove(c) PROVE RecordsInv'
<1> DEFINE k == pos[c].index
           s == RemoveAt(children, k)
<1>1. /\ children \in Seq(Child) /\ Distinct(children) /\ SortedBy(children, IsoKey)
      /\ rrChildren \in Seq(Child) /\ SortedBy(rrChildren, RrRank)
      /\ rockRidge => Elements(children) \subseteq Elements(rrChildren)
      /\ pos = Packed(children) /\ rockRidge \in BOOLEAN /\ links \in Nat
      /\ IsoKey \in [Child -> Nat]
  BY KeysType DEF RecordsInv, TypeOK
<1>2. /\ c \in Elements(children) /\ children' = s /\ pos' = Repack(s, k)
      /\ Resize(IF Underflowed(s, Repack(s, k)) THEN -1 ELSE 0)
      /\ dotdots' = IF IsDir(c) THEN [Follow(s) EXCEPT ![NameOf(c)] = 0] ELSE Follow(s)
      /\ links' = IF rockRidge /\ IsDir(c) THEN links - 1 ELSE links
      /\ raised' = "none" /\ rockRidge' = rockRidge /\ rrChildren' = rrChildren
  BY DEF Remove
<1>3. k \in 1..Len(children) /\ children[k] = c
  <2>1. PICK j \in 1..Len(children) : children[j] = c
    BY <1>2 DEF Elements
  <2>2. Packed(children)[c].index = j
    <3>1. Packed(children)[children[j]]
            = [extents |-> Packing(children)[j].extents,
               offset |-> Packing(children)[j].offset, index |-> j]
      BY <1>1, PackedAt
    <3>2. QED
      BY <2>1, <3>1
  <2>3. QED
    BY <1>1, <2>1, <2>2
<1> HIDE DEF k
<1>4. s \in Seq(Child) /\ Removed(s, children, k)
  <2>1. Removed(s, children, k)
    BY <1>1, <1>3, RemoveProperties
  <2>2. QED
    BY <2>1 DEF Removed
<1>5. Elements(s) = Elements(children) \ {c} /\ Distinct(s)
  BY <1>1, <1>3, RemoveElements
<1>6. SortedBy(s, IsoKey)
  BY <1>1, <1>3, RemoveSorted
<1>7. /\ Blocks(s) \in Nat \ {0} /\ Blocks(children) \in {Blocks(s), Blocks(s) + 1}
  BY <1>1, <1>3, OneBlockLess
<1> HIDE DEF s
<1>8. Repack(s, k) = Packed(s)
  <2>1. Len(children) \in Nat /\ Len(s) = Len(children) - 1
    BY <1>1, <1>4 DEF Removed
  <2>2. k \in Nat \ {0} /\ k <= Len(s) + 1 /\ k <= Len(children) + 1
    BY <1>3, <2>1
  <2>3. \A j \in 1..(k - 1) : s[j] = children[j]
    BY <1>3, <1>4, <2>1, <2>2 DEF Removed
  <2>4. Places(s, k, Packed(children)) = Packed(s)
    BY <1>1, <1>4, <1>5, <2>2, <2>3, PlacesPacked
  <2>5. QED
    BY <1>1, <2>4 DEF Repack
<1>9. /\ dataLength' \in {Blocks(s), Blocks(s) + 1}
      /\ dot' = dataLength' /\ charged' = dataLength'
  <2> DEFINE e == Blocks(s)
             o == Last(s, Packed(s)).offset
  <2>1. Last(s, Packed(s)).extents = e /\ o \in 1..BlockSize
    BY <1>4, <1>5, LastPacked DEF Blocks, Spot
  <2>2. Underflowed(s, Repack(s, k))
          <=> dataLength * BlockSize - ((e - 1) * BlockSize + o) > BlockSize
    BY <1>8, <2>1 DEF Underflowed
  <2>3. dot = dataLength /\ charged = dataLength /\ dataLength \in Nat
        /\ Blocks(children) <= dataLength /\ dataLength <= Blocks(children) + 1
    BY DEF RecordsInv, CountsFit, TypeOK
  <2>4. dataLength \in {e, e + 1, e + 2}
    BY <1>7, <2>3
  <2>5. dataLength' = dataLength + (IF Underflowed(s, Repack(s, k)) THEN -1 ELSE 0)
        /\ dot' = dataLength' /\ charged' = dataLength'
    BY <1>2, <2>3 DEF Resize
  <2> HIDE DEF e, o
  <2>6. (IF dataLength * BlockSize - ((e - 1) * BlockSize + o) > BlockSize
           THEN dataLength - 1 ELSE dataLength) \in {e, e + 1}
    BY <1>7, <2>1, <2>4, Shrinks DEF e
  <2>7. dataLength' = IF dataLength * BlockSize - ((e - 1) * BlockSize + o) > BlockSize
                        THEN dataLength - 1 ELSE dataLength
    BY <2>2, <2>3, <2>5
  <2>8. QED
    BY <2>5, <2>6, <2>7 DEF e
<1>10. /\ dataLength' \in Nat \ {0}
       /\ Blocks(s) <= dataLength' /\ dataLength' <= Blocks(s) + 1
  BY <1>7, <1>9
<1>11. /\ Follow(s) \in [DirName -> Nat]
       /\ \A d \in DirName : <<d, 1>> \in Elements(s) => Follow(s)[d] \in {1, dataLength'}
  BY <1>4, <1>5, <1>10, FollowFits
<1>12. dotdots' \in [DirName -> Nat]
  BY <1>2, <1>11
<1>13. ASSUME NEW d \in DirName, <<d, 1>> \in Elements(children')
       PROVE  dotdots'[d] \in {1, dataLength'}
  <2>1. <<d, 1>> \in Elements(s)
    BY <1>2, <1>13
  <2>2. <<d, 1>> # c
    BY <1>5, <2>1
  <2>3. NameOf(c) # d
    BY <2>2, DirRecords
  <2>4. QED
    BY <1>2, <1>11, <2>1, <2>3
<1>14. /\ links' \in Nat
       /\ rockRidge' => links' >= 2 + Cardinality(Dirs(Elements(children')))
  <2> DEFINE D == Dirs(Elements(children))
  <2>1. IsFiniteSet(D) /\ Cardinality(D) \in Nat
    BY <1>1, DirsFinite, ElementsOf
  <2>2. rockRidge => links >= 2 + Cardinality(D)
    BY CountsFrom
  <2>3. CASE IsDir(c)
    <3>1. c \in D /\ Dirs(Elements(children')) = D \ {c}
      BY <1>2, <1>5, <2>3 DEF Dirs
    <3> HIDE DEF D
    <3>2. Cardinality(D \ {c}) = Cardinality(D) - 1 /\ IsFiniteSet(D \ {c})
      BY <2>1, <3>1, FS_RemoveElement
    <3>3. Cardinality(D \ {c}) \in Nat
      BY <3>2, FS_CardinalityType
    <3>4. QED
      BY <1>1, <1>2, <2>1, <2>2, <2>3, <3>1, <3>2, <3>3
  <2>4. CASE ~IsDir(c)
    <3>1. Dirs(Elements(children')) = D
      BY <1>2, <1>5, <2>4 DEF Dirs
    <3>2. QED
      BY <1>1, <1>2, <2>2, <2>4, <3>1
  <2>5. QED
    BY <2>3, <2>4
<1>15. DotdotsFit' /\ LinksFit'
  BY <1>2, <1>4, <1>13, <1>14, CountsNext
<1>16. rockRidge' => Elements(children') \subseteq Elements(rrChildren')
  BY <1>1, <1>2, <1>5
<1>17. QED
  BY <1>1, <1>2, <1>4, <1>5, <1>6, <1>8, <1>9, <1>10, <1>12, <1>14, <1>15, <1>16, InvNext

LEMMA InitRecords == Init => RecordsInv
<1> SUFFICES ASSUME Init PROVE RecordsInv
  OBVIOUS
<1>1. PICK S \in SUBSET (Name \X {1}) :
        /\ children \in Orders(S, NameOf)
        /\ rrChildren \in Orders(IF rockRidge THEN S ELSE {}, RrKey)
        /\ dataLength = Blocks(children)
        /\ links = IF rockRidge THEN 2 + Cardinality({c \in S : IsDir(c)}) ELSE 0
  BY DEF Init
<1>2. S \in SUBSET Child
  BY DirRecordAssumption DEF Child, Name
<1>3. IsFiniteSet(S)
  <2>1. IsFiniteSet(Name \X {1})
    BY DirRecordAssumption, FS_Singleton, FS_Product
  <2>2. QED
    BY <2>1, FS_Subset
<1>4. /\ children \in Seq(Child) /\ Distinct(children) /\ Elements(children) = S
      /\ SortedBy(children, IsoKey)
  <2>1. /\ children \in [1..Cardinality(S) -> S] /\ Elements(children) = S
        /\ \A j, k \in 1..Len(children) :
             j < k => NameOf(children[j]) <= NameOf(children[k])
    BY <1>1 DEF Orders, Sorted
  <2>2. children \in Seq(Child) /\ Distinct(children)
    BY <1>2, <1>3, <2>1, OrderProperties
  <2>3. \A j \in 1..Len(children) : IsoKey[children[j]] = NameOf(children[j])
    BY <2>2 DEF IsoKey
  <2>4. QED
    BY <2>1, <2>2, <2>3 DEF SortedBy
<1>5. /\ rrChildren \in Seq(Child) /\ SortedBy(rrChildren, RrRank)
      /\ rockRidge => Elements(children) \subseteq Elements(rrChildren)
  <2> DEFINE R == IF rockRidge THEN S ELSE {}
  <2>1. /\ rrChildren \in [1..Cardinality(R) -> R] /\ Elements(rrChildren) = R
        /\ \A j, k \in 1..Len(rrChildren) :
             j < k => RrKey(rrChildren[j]) <= RrKey(rrChildren[k])
    BY <1>1 DEF Orders, Sorted
  <2>2. R \in SUBSET Child /\ IsFiniteSet(R) /\ (rockRidge => R = S)
    BY <1>2, <1>3, FS_EmptySet
  <2> HIDE DEF R
  <2>3. rrChildren \in Seq(Child)
    BY <2>1, <2>2, OrderProperties
  <2>4. \A j \in 1..Len(rrChildren) : RrRank[rrChildren[j]] = RrKey(rrChildren[j])
    BY <2>3 DEF RrRank
  <2>5. SortedBy(rrChildren, RrRank)
    BY <2>1, <2>4 DEF SortedBy
  <2>6. QED
    BY <1>4, <2>1, <2>2, <2>3, <2>5
<1>6. /\ rockRidge \in BOOLEAN /\ pos = Packed(children) /\ dot = dataLength
      /\ dotdots = Dotdots(children, dataLength) /\ charged = dataLength /\ raised = "none"
  BY DEF Init
<1>7. Blocks(children) \in Nat \ {0}
  BY <1>4, LastPacked
<1>8. /\ pos \in [Child -> [extents : Nat, offset : 0..BlockSize, index : Nat]]
      /\ dotdots \in [DirName -> Nat]
  BY <1>1, <1>4, <1>6, <1>7, PackedType DEF Dotdots
<1>9. /\ Cardinality({c \in S : IsDir(c)}) \in Nat
      /\ {c \in S : IsDir(c)} = {c \in Elements(children) : IsDir(c)}
  BY <1>2, <1>4, DirsFinite DEF Dirs
<1>10. TypeOK
  BY <1>1, <1>4, <1>5, <1>6, <1>7, <1>8, <1>9 DEF TypeOK
<1>11. ASSUME NEW d \in DirName, Taken(d) PROVE dotdots[d] \in {1, dataLength}
  <2>1. <<d, 1>> \in Elements(children)
    BY <1>4, <1>11, DirRecords, ElementsOf DEF Taken
  <2>2. QED
    BY <1>6, <2>1 DEF Dotdots
<1>12. CountsFit
  <2>1. Blocks(children) <= dataLength /\ dataLength <= Blocks(children) + 1
    BY <1>1, <1>7
  <2>2. rockRidge => links >= 2 + Cardinality({c \in Elements(children) : IsDir(c)})
    <3> DEFINE D == {c \in S : IsDir(c)}
               E == {c \in Elements(children) : IsDir(c)}
    <3>1. D = E /\ Cardinality(D) \in Nat /\ (rockRidge => links = 2 + Cardinality(D))
      BY <1>1, <1>9
    <3> HIDE DEF D, E
    <3>2. rockRidge => links >= 2 + Cardinality(E)
      BY <3>1
    <3>3. QED
      BY <3>2 DEF E
  <2>3. QED
    BY <1>6, <1>11, <2>1, <2>2 DEF CountsFit
<1>13. QED
  BY <1>4, <1>5, <1>6, <1>10, <1>12 DEF RecordsInv

LEMMA StepRecords == RecordsInv /\ [Next]_vars => RecordsInv'
<1> SUFFICES ASSUME RecordsInv, [Next]_vars PROVE RecordsInv'
  OBVIOUS
<1>1. ASSUME NEW c \in Child, AddFile(c) PROVE RecordsInv'
  BY <1>1, AddFileStep
<1>2. ASSUME NEW d \in DirName, AddDirectory(d) PROVE RecordsInv'
  BY <1>2, AddDirectoryStep
<1>3. ASSUME NEW d \in DirName, AddDirectoryFails(d) PROVE RecordsInv'
  BY <1>3, AddDirectoryFailsStep
<1>4. ASSUME NEW c \in Child, Remove(c) PROVE RecordsInv'
  BY <1>4, RemoveStep
<1>5. CASE UNCHANGED vars
  BY <1>5 DEF vars, RecordsInv, TypeOK, CountsFit, Taken
<1>6. QED
  BY <1>1, <1>2, <1>3, <1>4, <1>5 DEF Next

\* The records of a directory hang together: distinct, in the order of their
\* names and of their Rock Ridge names, each at the place packing them all
\* gives it, whatever is added and removed (dr.py:735, 861).
THEOREM RecordsHangTogether == Spec => []RecordsInv
<1>1. QED
  BY InitRecords, StepRecords, PTL DEF Spec

\* The state of a directory has its type; in particular its length and its
\* count of links never go below what they may be.
THEOREM TypeCorrect == Spec => []TypeOK
<1>1. RecordsInv => TypeOK
  BY DEF RecordsInv
<1>2. QED
  BY <1>1, RecordsHangTogether, PTL

\* Recalculating the places from the point of a change on leaves the places,
\* and the index by which a record is removed, that recalculating all of them
\* gives (dr.py:701).
THEOREM PlacesAlwaysCurrent == Spec => []PlacesCurrent
<1>1. RecordsInv => PlacesCurrent
  BY DEF RecordsInv, PlacesCurrent
<1>2. QED
  BY <1>1, RecordsHangTogether, PTL

\* A directory is never too short for its records, nor longer by more than a
\* block, although it grows and shrinks by one block at most per change: no
\* change moves the end of the records by more than that (dr.py:799, 913).
THEOREM CountsAlwaysFit == Spec => []CountsFit
<1>1. RecordsInv => CountsFit
  BY DEF RecordsInv
<1>2. QED
  BY <1>1, RecordsHangTogether, PTL

\* Binary search finds what is in a sorted list.
LEMMA SortedFinds == RecordsInv => LookupFinds
<1> SUFFICES ASSUME RecordsInv, NEW n \in Name
             PROVE  /\ Taken(n) <=> FindIso(n) \cap Elements(children) # {}
                    /\ rockRidge /\ Taken(n) => FindRr(n) # {}
  BY DEF LookupFinds
<1>1. /\ children \in Seq(Child) /\ SortedBy(children, IsoKey)
      /\ rrChildren \in Seq(Child) /\ SortedBy(rrChildren, RrRank)
      /\ rockRidge => Elements(children) \subseteq Elements(rrChildren)
  BY DEF RecordsInv, TypeOK
<1>2. n \in Nat /\ RrOrder[n] \in Nat /\ IsoKey \in [Child -> Nat] /\ RrRank \in [Child -> Nat]
  BY DirRecordAssumption, KeysType
<1>3. /\ \A c \in Child : IsoKey[c] = NameOf(c) /\ RrRank[c] = RrKey(c)
      /\ Elements(children) \subseteq Child /\ Elements(rrChildren) \subseteq Child
  BY <1>1, ElementsOf DEF IsoKey, RrRank
<1>4. ASSUME Taken(n) PROVE FindIso(n) \cap Elements(children) # {}
  <2> DEFINE k == Place(n)
  <2>1. PICK c \in Elements(children) : NameOf(c) = n
    BY <1>4 DEF Taken
  <2>2. Leftmost(k, children, IsoKey, n)
    BY <1>1, <1>2, BisectIso DEF Place
  <2> HIDE DEF k
  <2>3. k \in 1..Len(children) /\ IsoKey[children[k]] = n
    <3>1. /\ children \in Seq(Child) /\ IsoKey \in [Child -> Nat]
          /\ SortedBy(children, IsoKey) /\ n \in Nat
          /\ Leftmost(k, children, IsoKey, n)
          /\ c \in Elements(children) /\ IsoKey[c] = n
      BY <1>1, <1>2, <1>3, <2>1, <2>2
    <3>2. QED
      BY <3>1, LeftmostFinds
  <2>4. children[k] \in Elements(children) /\ NameOf(children[k]) = n
    BY <1>1, <1>3, <2>3 DEF Elements
  <2>5. children[k] \in FindIso(n)
    BY <2>3, <2>4 DEF FindIso, k
  <2>6. QED
    BY <2>4, <2>5
<1>5. ASSUME FindIso(n) \cap Elements(children) # {} PROVE Taken(n)
  BY <1>5 DEF FindIso, Taken
<1>6. ASSUME rockRidge, Taken(n) PROVE FindRr(n) # {}
  <2> DEFINE k == Bisect(rrChildren, RrKey, RrOrder[n])
  <2>1. PICK c \in Elements(children) : NameOf(c) = n
    BY <1>6 DEF Taken
  <2>2. c \in Elements(rrChildren) /\ RrRank[c] = RrOrder[n]
    BY <1>1, <1>3, <1>6, <2>1 DEF RrKey
  <2>3. Leftmost(k, rrChildren, RrRank, RrOrder[n])
    BY <1>1, <1>2, BisectRr
  <2> HIDE DEF k
  <2>4. k \in 1..Len(rrChildren) /\ RrRank[rrChildren[k]] = RrOrder[n]
    <3> DEFINE v == RrOrder[n]
    <3>1. /\ rrChildren \in Seq(Child) /\ RrRank \in [Child -> Nat]
          /\ SortedBy(rrChildren, RrRank) /\ v \in Nat
          /\ Leftmost(k, rrChildren, RrRank, v)
          /\ c \in Elements(rrChildren) /\ RrRank[c] = v
      BY <1>1, <1>2, <2>2, <2>3
    <3> HIDE DEF v
    <3>2. k \in 1..Len(rrChildren) /\ RrRank[rrChildren[k]] = v
      BY <3>1, LeftmostFinds
    <3>3. QED
      BY <3>2 DEF v
  <2>5. RrKey(rrChildren[k]) = RrOrder[n]
    BY <1>1, <1>3, <2>4 DEF Elements
  <2>6. rrChildren[k] \in FindRr(n)
    <3>1. FindRr(n) = {rrChildren[j] : j \in {i \in {k} : /\ i <= Len(rrChildren)
                                                       /\ RrKey(rrChildren[i]) = RrOrder[n]}}
      BY Zenon DEF FindRr, k
    <3>2. k <= Len(rrChildren)
      BY <1>1, <2>4
    <3>3. QED
      BY <2>5, <3>1, <3>2
  <2>7. QED
    BY <2>6
<1>7. QED
  BY <1>4, <1>5, <1>6

\* The binary searches find every record that is listed, by its name and by its
\* Rock Ridge name (pycdlib.py:463, 723).
THEOREM LookupAlwaysFinds == Spec => []LookupFinds
BY SortedFinds, RecordsHangTogether, PTL
=============================================================================
