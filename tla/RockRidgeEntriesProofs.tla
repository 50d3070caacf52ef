----------------------- MODULE RockRidgeEntriesProofs -----------------------
(***************************************************************************)
(* Proofs about RockRidgeEntries.  First the areas of entries: what a list *)
(* or an area of any length adds up to, what is written of an object, what *)
(* is read of it again, what the changes of the object leave alone, and    *)
(* the records of other tools; an object is sound if it can be written and *)
(* read again without loss.  Then RockRidge.new for a name and a target of *)
(* any length: _assign_entries one kind after the other, _add_name,        *)
(* _new_symlink.  Last the reader, and the invariant and the theorems for  *)
(* every set of requests, of records of other tools and of blocks, and     *)
(* every bound on the links.                                               *)
(***************************************************************************)
EXTENDS RockRidgeEntries, SequenceTheorems, WellFoundedInduction, TLAPS

LEMMA LeastNatural ==
  ASSUME NEW S \in SUBSET Nat, S # {}
  PROVE  \E m \in S : \A q \in S : m <= q
<1>1. PICK m \in S : \A q \in S : ~(<<q, m>> \in OpToRel(<, Nat))
  BY NatLessThanWellFounded, WFMin, Zenon
<1>2. \A q \in S : ~(q < m)
  BY <1>1, Zenon DEF OpToRel
<1>3. QED
  BY <1>2

\* Induction up to n.
LEMMA UpTo ==
  ASSUME NEW T, NEW n \in Nat, 0 \in T, \A j \in 0..(n - 1) : j \in T => j + 1 \in T
  PROVE  \A j \in 0..n : j \in T
<1> SUFFICES ASSUME (0..n) \ T # {} PROVE FALSE
  OBVIOUS
<1>1. (0..n) \ T \subseteq Nat
  OBVIOUS
<1>2. PICK x \in (0..n) \ T : \A y \in (0..n) \ T : x <= y
  BY <1>1, LeastNatural
<1>3. x # 0 /\ x - 1 \in 0..(n - 1) /\ x - 1 \in 0..n /\ ~(x <= x - 1)
  BY <1>2
<1>4. x - 1 \in T
  BY <1>2, <1>3
<1>5. (x - 1) + 1 \in T
  BY <1>3, <1>4
<1>6. (x - 1) + 1 = x
  BY <1>2
<1>7. QED
  BY <1>2, <1>5, <1>6

-----------------------------------------------------------------------------
(* The recursive functions of the model: that they exist, and what they are  *)
(* of a sequence with an element more.                                      *)


TotalOf(g, s) == g = [i \in 0..Len(s) |-> IF i = 0 THEN 0 ELSE g[i - 1] + s[i]]

\* The recursive functions of the model exist, on sequences of any length, and
\* obey their equations; what is appended comes last.
LEMMA TotalExists ==
  ASSUME NEW S, NEW s \in Seq(S)
  PROVE  \E g : TotalOf(g, s)
<1> DEFINE n == Len(s)
           F(g, i) == IF i = 0 THEN 0 ELSE g[i - 1] + s[i]
           T == {k \in 0..n : \E g : g = [i \in 0..k |-> F(g, i)]}
<1>0. n \in Nat
  OBVIOUS
<1> HIDE DEF n
<1>1. 0 \in T
  <2> DEFINE g == [i \in 0..0 |-> 0]
  <2>1. g = [i \in 0..0 |-> F(g, i)]
    OBVIOUS
  <2> HIDE DEF g
  <2>2. QED
    BY <1>0, <2>1
<1>2. ASSUME NEW k \in 0..(n - 1), k \in T PROVE k + 1 \in T
  <2>1. PICK g : g = [i \in 0..k |-> F(g, i)]
    BY <1>2
  <2>0. k \in Nat /\ k + 1 \in 0..n
    BY <1>0
  <2> DEFINE h == [i \in 0..(k + 1) |-> IF i = k + 1 THEN F(g, k + 1) ELSE g[i]]
  <2>2. ASSUME NEW i \in 0..(k + 1) PROVE h[i] = F(h, i)
    <3>1. CASE i = k + 1
      <4>1. i # 0 /\ i - 1 = k /\ h[i - 1] = g[i - 1] /\ h[i] = F(g, i)
        BY <2>0, <3>1
      <4> HIDE DEF h
      <4>2. QED
        BY <4>1
    <3>2. CASE i # k + 1
      <4>1. i \in 0..k /\ h[i] = g[i] /\ (i # 0 => h[i - 1] = g[i - 1])
        BY <2>0, <3>2
      <4>2. g[i] = F(g, i)
        BY <2>1, <4>1
      <4> HIDE DEF h
      <4>3. QED
        BY <4>1, <4>2
    <3>3. QED
      BY <3>1, <3>2
  <2>3. h = [i \in 0..(k + 1) |-> h[i]]
    OBVIOUS
  <2> HIDE DEF h
  <2>4. h = [i \in 0..(k + 1) |-> F(h, i)]
    <3> HIDE DEF F
    <3>1. QED
      BY <2>2, <2>3
  <2>5. QED
    BY <2>4, <2>0
<1> HIDE DEF T, F
<1>3. n \in T
  <2>1. \A k \in 0..n : k \in T
    BY <1>1, <1>2, <1>0, UpTo
  <2>2. QED
    BY <1>0, <2>1
<1>4. QED
  BY <1>3 DEF T, n, F, TotalOf

LEMMA TotalIs ==
  ASSUME NEW S, NEW s \in Seq(S)
  PROVE  \E g : TotalOf(g, s) /\ Total(s) = g[Len(s)]
<1>1. PICK g : g = CHOOSE h : TotalOf(h, s)
  OBVIOUS
<1>2. TotalOf(g, s)
  BY <1>1, TotalExists
<1>3. Total(s) = g[Len(s)]
  BY <1>1, Zenon DEF Total, TotalOf
<1>4. QED
  BY <1>2, <1>3

LEMMA TotalEmpty ==
  Total(<<>>) = 0
<1>1. <<>> \in Seq({}) /\ Len(<<>>) = 0
  OBVIOUS
<1>2. PICK g : TotalOf(g, <<>>) /\ Total(<<>>) = g[Len(<<>>)]
  BY <1>1, TotalIs
<1>3. g[0] = 0
  BY <1>1, <1>2 DEF TotalOf
<1>4. QED
  BY <1>1, <1>2, <1>3

LEMMA TotalAppend ==
  ASSUME NEW S, NEW s \in Seq(S), NEW e \in S
  PROVE  Total(Append(s, e)) = Total(s) + e
<1> DEFINE t == Append(s, e)
           n == Len(s)
<1>1. t \in Seq(S) /\ n \in Nat /\ Len(t) = n + 1 /\ t[n + 1] = e
  OBVIOUS
<1>2. \A i \in 1..n : t[i] = s[i]
  OBVIOUS
<1>3. PICK g : TotalOf(g, s) /\ Total(s) = g[Len(s)]
  BY TotalIs
<1>4. PICK h : TotalOf(h, t) /\ Total(t) = h[Len(t)]
  BY <1>1, TotalIs
<1> HIDE DEF t
<1>5. /\ \A i \in 0..n : g[i] = IF i = 0 THEN 0 ELSE g[i - 1] + s[i]
      /\ \A i \in 0..(n + 1) : h[i] = IF i = 0 THEN 0 ELSE h[i - 1] + t[i]
  BY <1>1, <1>3, <1>4 DEF TotalOf
<1> HIDE DEF n
<1>6. /\ 0 \in 0..n /\ 0 \in 0..(n + 1)
      /\ \A i \in 1..n : i \in 0..n /\ i # 0
      /\ \A i \in 1..(n + 1) : i \in 0..(n + 1) /\ i # 0
  BY <1>1
<1>7. /\ g[0] = 0 /\ h[0] = 0
      /\ \A i \in 1..n : g[i] = g[i - 1] + s[i]
      /\ \A i \in 1..(n + 1) : h[i] = h[i - 1] + t[i]
  BY <1>5, <1>6
<1> DEFINE U == {i \in 0..n : h[i] = g[i]}
<1>8. 0 \in U
  BY <1>6, <1>7
<1>9. ASSUME NEW i \in 0..(n - 1), i \in U PROVE i + 1 \in U
  <2>1. i + 1 \in 1..n /\ i + 1 \in 1..(n + 1) /\ i + 1 \in 0..n /\ (i + 1) - 1 = i
    BY <1>1
  <2>2. t[i + 1] = s[i + 1]
    BY <1>2, <2>1
  <2>3. QED
    BY <1>7, <1>9, <2>1, <2>2
<1> HIDE DEF U
<1>10. n \in U
  <2>1. \A i \in 0..n : i \in U
    BY <1>1, <1>8, <1>9, UpTo
  <2>2. QED
    BY <1>1, <2>1
<1>11. h[n] = g[n] /\ n + 1 \in 1..(n + 1) /\ (n + 1) - 1 = n
  BY <1>1, <1>10 DEF U
<1>12. QED
  BY <1>1, <1>3, <1>4, <1>7, <1>11 DEF t, n

OfKindOf(g, s, k) == g = [i \in 0..Len(s) |-> IF i = 0 THEN <<>> ELSE (IF s[i].su = k THEN Append(g[i - 1], s[i]) ELSE g[i - 1])]

LEMMA OfKindExists ==
  ASSUME NEW S, NEW s \in Seq(S), NEW k
  PROVE  \E g : OfKindOf(g, s, k)
<1> DEFINE n == Len(s)
           F(g, i) == IF i = 0 THEN <<>> ELSE (IF s[i].su = k THEN Append(g[i - 1], s[i]) ELSE g[i - 1])
           T == {j \in 0..n : \E g : g = [i \in 0..j |-> F(g, i)]}
<1>0. n \in Nat
  OBVIOUS
<1> HIDE DEF n
<1>1. 0 \in T
  <2> DEFINE g == [i \in 0..0 |-> <<>>]
  <2>1. g = [i \in 0..0 |-> F(g, i)]
    OBVIOUS
  <2> HIDE DEF g
  <2>2. QED
    BY <1>0, <2>1
<1>2. ASSUME NEW j \in 0..(n - 1), j \in T PROVE j + 1 \in T
  <2>1. PICK g : g = [i \in 0..j |-> F(g, i)]
    BY <1>2
  <2>0. j \in Nat /\ j + 1 \in 0..n
    BY <1>0
  <2> DEFINE h == [i \in 0..(j + 1) |-> IF i = j + 1 THEN F(g, j + 1) ELSE g[i]]
  <2>2. ASSUME NEW i \in 0..(j + 1) PROVE h[i] = F(h, i)
    <3>1. CASE i = j + 1
      <4>1. i # 0 /\ i - 1 = j /\ h[i - 1] = g[i - 1] /\ h[i] = F(g, i)
        BY <2>0, <3>1
      <4> HIDE DEF h
      <4>2. QED
        BY <4>1
    <3>2. CASE i # j + 1
      <4>1. i \in 0..j /\ h[i] = g[i] /\ (i # 0 => h[i - 1] = g[i - 1])
        BY <2>0, <3>2
      <4>2. g[i] = F(g, i)
        BY <2>1, <4>1
      <4> HIDE DEF h
      <4>3. QED
        BY <4>1, <4>2
    <3>3. QED
      BY <3>1, <3>2
  <2>3. h = [i \in 0..(j + 1) |-> h[i]]
    OBVIOUS
  <2> HIDE DEF h
  <2>4. h = [i \in 0..(j + 1) |-> F(h, i)]
    <3> HIDE DEF F
    <3>1. QED
      BY <2>2, <2>3
  <2>5. QED
    BY <2>4, <2>0
<1> HIDE DEF T, F
<1>3. n \in T
  <2>1. \A j \in 0..n : j \in T
    BY <1>1, <1>2, <1>0, UpTo
  <2>2. QED
    BY <1>0, <2>1
<1>4. QED
  BY <1>3 DEF T, n, F, OfKindOf

LEMMA OfKindIs ==
  ASSUME NEW S, NEW s \in Seq(S), NEW k
  PROVE  \E g : OfKindOf(g, s, k) /\ OfKind(s, k) = g[Len(s)]
<1>1. PICK g : g = CHOOSE h : OfKindOf(h, s, k)
  OBVIOUS
<1>2. OfKindOf(g, s, k)
  BY <1>1, OfKindExists
<1>3. OfKind(s, k) = g[Len(s)]
  BY <1>1, Zenon DEF OfKind, OfKindOf
<1>4. QED
  BY <1>2, <1>3

LEMMA OfKindEmpty ==
  ASSUME NEW k
  PROVE  OfKind(<<>>, k) = <<>>
<1>1. <<>> \in Seq({}) /\ Len(<<>>) = 0
  OBVIOUS
<1>2. PICK g : OfKindOf(g, <<>>, k) /\ OfKind(<<>>, k) = g[Len(<<>>)]
  BY <1>1, OfKindIs
<1>3. g[0] = <<>>
  BY <1>1, <1>2 DEF OfKindOf
<1>4. QED
  BY <1>1, <1>2, <1>3

LEMMA OfKindAppend ==
  ASSUME NEW S, NEW s \in Seq(S), NEW e \in S, NEW k
  PROVE  OfKind(Append(s, e), k) = IF e.su = k THEN Append(OfKind(s, k), e) ELSE OfKind(s, k)
<1> DEFINE t == Append(s, e)
           n == Len(s)
<1>1. t \in Seq(S) /\ n \in Nat /\ Len(t) = n + 1 /\ t[n + 1] = e
  OBVIOUS
<1>2. \A i \in 1..n : t[i] = s[i]
  OBVIOUS
<1>3. PICK g : OfKindOf(g, s, k) /\ OfKind(s, k) = g[Len(s)]
  BY OfKindIs
<1>4. PICK h : OfKindOf(h, t, k) /\ OfKind(t, k) = h[Len(t)]
  BY <1>1, OfKindIs
<1> HIDE DEF t
<1>5. /\ \A i \in 0..n : g[i] = IF i = 0 THEN <<>> ELSE (IF s[i].su = k THEN Append(g[i - 1], s[i]) ELSE g[i - 1])
      /\ \A i \in 0..(n + 1) : h[i] = IF i = 0 THEN <<>> ELSE (IF t[i].su = k THEN Append(h[i - 1], t[i]) ELSE h[i - 1])
  BY <1>1, <1>3, <1>4 DEF OfKindOf
<1> HIDE DEF n
<1>6. /\ 0 \in 0..n /\ 0 \in 0..(n + 1)
      /\ \A i \in 1..n : i \in 0..n /\ i # 0
      /\ \A i \in 1..(n + 1) : i \in 0..(n + 1) /\ i # 0
  BY <1>1
<1>7. /\ g[0] = <<>> /\ h[0] = <<>>
      /\ \A i \in 1..n : g[i] = (IF s[i].su = k THEN Append(g[i - 1], s[i]) ELSE g[i - 1])
      /\ \A i \in 1..(n + 1) : h[i] = (IF t[i].su = k THEN Append(h[i - 1], t[i]) ELSE h[i - 1])
  BY <1>5, <1>6
<1> DEFINE U == {i \in 0..n : h[i] = g[i]}
<1>8. 0 \in U
  BY <1>6, <1>7
<1>9. ASSUME NEW i \in 0..(n - 1), i \in U PROVE i + 1 \in U
  <2>1. i + 1 \in 1..n /\ i + 1 \in 1..(n + 1) /\ i + 1 \in 0..n /\ (i + 1) - 1 = i
    BY <1>1
  <2>2. t[i + 1] = s[i + 1]
    BY <1>2, <2>1
  <2>3. QED
    BY <1>7, <1>9, <2>1, <2>2
<1> HIDE DEF U
<1>10. n \in U
  <2>1. \A i \in 0..n : i \in U
    BY <1>1, <1>8, <1>9, UpTo
  <2>2. QED
    BY <1>1, <2>1
<1>11. h[n] = g[n] /\ n + 1 \in 1..(n + 1) /\ (n + 1) - 1 = n
  BY <1>1, <1>10 DEF U
<1>12. QED
  BY <1>1, <1>3, <1>4, <1>7, <1>11 DEF t, n

SlReadOf(g, s) == g = [i \in 0..Len(s) |-> IF i = 0 THEN [names |-> <<>>, cont |-> FALSE] ELSE AddText(g[i - 1], s[i])]

LEMMA SlReadExists ==
  ASSUME NEW S, NEW s \in Seq(S)
  PROVE  \E g : SlReadOf(g, s)
<1> DEFINE n == Len(s)
           F(g, i) == IF i = 0 THEN [names |-> <<>>, cont |-> FALSE] ELSE AddText(g[i - 1], s[i])
           T == {k \in 0..n : \E g : g = [i \in 0..k |-> F(g, i)]}
<1>0. n \in Nat
  OBVIOUS
<1> HIDE DEF n
<1>1. 0 \in T
  <2> DEFINE g == [i \in 0..0 |-> [names |-> <<>>, cont |-> FALSE]]
  <2>1. g = [i \in 0..0 |-> F(g, i)]
    OBVIOUS
  <2> HIDE DEF g
  <2>2. QED
    BY <1>0, <2>1
<1>2. ASSUME NEW k \in 0..(n - 1), k \in T PROVE k + 1 \in T
  <2>1. PICK g : g = [i \in 0..k |-> F(g, i)]
    BY <1>2
  <2>0. k \in Nat /\ k + 1 \in 0..n
    BY <1>0
  <2> DEFINE h == [i \in 0..(k + 1) |-> IF i = k + 1 THEN F(g, k + 1) ELSE g[i]]
  <2>2. ASSUME NEW i \in 0..(k + 1) PROVE h[i] = F(h, i)
    <3>1. CASE i = k + 1
      <4>1. i # 0 /\ i - 1 = k /\ h[i - 1] = g[i - 1] /\ h[i] = F(g, i)
        BY <2>0, <3>1
      <4> HIDE DEF h
      <4>2. QED
        BY <4>1
    <3>2. CASE i # k + 1
      <4>1. i \in 0..k /\ h[i] = g[i] /\ (i # 0 => h[i - 1] = g[i - 1])
        BY <2>0, <3>2
      <4>2. g[i] = F(g, i)
        BY <2>1, <4>1
      <4> HIDE DEF h
      <4>3. QED
        BY <4>1, <4>2
    <3>3. QED
      BY <3>1, <3>2
  <2>3. h = [i \in 0..(k + 1) |-> h[i]]
    OBVIOUS
  <2> HIDE DEF h
  <2>4. h = [i \in 0..(k + 1) |-> F(h, i)]
    <3> HIDE DEF F
    <3>1. QED
      BY <2>2, <2>3
  <2>5. QED
    BY <2>4, <2>0
<1> HIDE DEF T, F
<1>3. n \in T
  <2>1. \A k \in 0..n : k \in T
    BY <1>1, <1>2, <1>0, UpTo
  <2>2. QED
    BY <1>0, <2>1
<1>4. QED
  BY <1>3 DEF T, n, F, SlReadOf

LEMMA SlReadIs ==
  ASSUME NEW S, NEW s \in Seq(S)
  PROVE  \E g : SlReadOf(g, s) /\ SlRead(s) = g[Len(s)]
<1>1. PICK g : g = CHOOSE h : SlReadOf(h, s)
  OBVIOUS
<1>2. SlReadOf(g, s)
  BY <1>1, SlReadExists
<1>3. SlRead(s) = g[Len(s)]
  BY <1>1, Zenon DEF SlRead, SlReadOf
<1>4. QED
  BY <1>2, <1>3

LEMMA SlReadEmpty ==
  SlRead(<<>>) = [names |-> <<>>, cont |-> FALSE]
<1>1. <<>> \in Seq({}) /\ Len(<<>>) = 0
  OBVIOUS
<1>2. PICK g : SlReadOf(g, <<>>) /\ SlRead(<<>>) = g[Len(<<>>)]
  BY <1>1, SlReadIs
<1>3. g[0] = [names |-> <<>>, cont |-> FALSE]
  BY <1>1, <1>2 DEF SlReadOf
<1>4. QED
  BY <1>1, <1>2, <1>3

LEMMA SlReadAppend ==
  ASSUME NEW S, NEW s \in Seq(S), NEW e \in S
  PROVE  SlRead(Append(s, e)) = AddText(SlRead(s), e)
<1> DEFINE t == Append(s, e)
           n == Len(s)
<1>1. t \in Seq(S) /\ n \in Nat /\ Len(t) = n + 1 /\ t[n + 1] = e
  OBVIOUS
<1>2. \A i \in 1..n : t[i] = s[i]
  OBVIOUS
<1>3. PICK g : SlReadOf(g, s) /\ SlRead(s) = g[Len(s)]
  BY SlReadIs
<1>4. PICK h : SlReadOf(h, t) /\ SlRead(t) = h[Len(t)]
  BY <1>1, SlReadIs
<1> HIDE DEF t
<1>5. /\ \A i \in 0..n : g[i] = IF i = 0 THEN [names |-> <<>>, cont |-> FALSE] ELSE AddText(g[i - 1], s[i])
      /\ \A i \in 0..(n + 1) : h[i] = IF i = 0 THEN [names |-> <<>>, cont |-> FALSE] ELSE AddText(h[i - 1], t[i])
  BY <1>1, <1>3, <1>4 DEF SlReadOf
<1> HIDE DEF n
<1>6. /\ 0 \in 0..n /\ 0 \in 0..(n + 1)
      /\ \A i \in 1..n : i \in 0..n /\ i # 0
      /\ \A i \in 1..(n + 1) : i \in 0..(n + 1) /\ i # 0
  BY <1>1
<1>7. /\ g[0] = [names |-> <<>>, cont |-> FALSE] /\ h[0] = [names |-> <<>>, cont |-> FALSE]
      /\ \A i \in 1..n : g[i] = AddText(g[i - 1], s[i])
      /\ \A i \in 1..(n + 1) : h[i] = AddText(h[i - 1], t[i])
  BY <1>5, <1>6
<1> DEFINE U == {i \in 0..n : h[i] = g[i]}
<1>8. 0 \in U
  BY <1>6, <1>7
<1>9. ASSUME NEW i \in 0..(n - 1), i \in U PROVE i + 1 \in U
  <2>1. i + 1 \in 1..n /\ i + 1 \in 1..(n + 1) /\ i + 1 \in 0..n /\ (i + 1) - 1 = i
    BY <1>1
  <2>2. t[i + 1] = s[i + 1]
    BY <1>2, <2>1
  <2>3. QED
    BY <1>7, <1>9, <2>1, <2>2
<1> HIDE DEF U
<1>10. n \in U
  <2>1. \A i \in 0..n : i \in U
    BY <1>1, <1>8, <1>9, UpTo
  <2>2. QED
    BY <1>1, <2>1
<1>11. h[n] = g[n] /\ n + 1 \in 1..(n + 1) /\ (n + 1) - 1 = n
  BY <1>1, <1>10 DEF U
<1>12. QED
  BY <1>1, <1>3, <1>4, <1>7, <1>11 DEF t, n

PathReadOf(g, s) == g = [i \in 0..Len(s) |-> IF i = 0 THEN [out |-> <<>>, saved |-> <<>>] ELSE AddEntry(g[i - 1], s[i])]

LEMMA PathReadExists ==
  ASSUME NEW S, NEW s \in Seq(S)
  PROVE  \E g : PathReadOf(g, s)
<1> DEFINE n == Len(s)
           F(g, i) == IF i = 0 THEN [out |-> <<>>, saved |-> <<>>] ELSE AddEntry(g[i - 1], s[i])
           T == {k \in 0..n : \E g : g = [i \in 0..k |-> F(g, i)]}
<1>0. n \in Nat
  OBVIOUS
<1> HIDE DEF n
<1>1. 0 \in T
  <2> DEFINE g == [i \in 0..0 |-> [out |-> <<>>, saved |-> <<>>]]
  <2>1. g = [i \in 0..0 |-> F(g, i)]
    OBVIOUS
  <2> HIDE DEF g
  <2>2. QED
    BY <1>0, <2>1
<1>2. ASSUME NEW k \in 0..(n - 1), k \in T PROVE k + 1 \in T
  <2>1. PICK g : g = [i \in 0..k |-> F(g, i)]
    BY <1>2
  <2>0. k \in Nat /\ k + 1 \in 0..n
    BY <1>0
  <2> DEFINE h == [i \in 0..(k + 1) |-> IF i = k + 1 THEN F(g, k + 1) ELSE g[i]]
  <2>2. ASSUME NEW i \in 0..(k + 1) PROVE h[i] = F(h, i)
    <3>1. CASE i = k + 1
      <4>1. i # 0 /\ i - 1 = k /\ h[i - 1] = g[i - 1] /\ h[i] = F(g, i)
        BY <2>0, <3>1
      <4> HIDE DEF h
      <4>2. QED
        BY <4>1
    <3>2. CASE i # k + 1
      <4>1. i \in 0..k /\ h[i] = g[i] /\ (i # 0 => h[i - 1] = g[i - 1])
        BY <2>0, <3>2
      <4>2. g[i] = F(g, i)
        BY <2>1, <4>1
      <4> HIDE DEF h
      <4>3. QED
        BY <4>1, <4>2
    <3>3. QED
      BY <3>1, <3>2
  <2>3. h = [i \in 0..(k + 1) |-> h[i]]
    OBVIOUS
  <2> HIDE DEF h
  <2>4. h = [i \in 0..(k + 1) |-> F(h, i)]
    <3> HIDE DEF F
    <3>1. QED
      BY <2>2, <2>3
  <2>5. QED
    BY <2>4, <2>0
<1> HIDE DEF T, F
<1>3. n \in T
  <2>1. \A k \in 0..n : k \in T
    BY <1>1, <1>2, <1>0, UpTo
  <2>2. QED
    BY <1>0, <2>1
<1>4. QED
  BY <1>3 DEF T, n, F, PathReadOf

LEMMA PathReadIs ==
  ASSUME NEW S, NEW s \in Seq(S)
  PROVE  \E g : PathReadOf(g, s) /\ PathRead(s) = g[Len(s)]
<1>1. PICK g : g = CHOOSE h : PathReadOf(h, s)
  OBVIOUS
<1>2. PathReadOf(g, s)
  BY <1>1, PathReadExists
<1>3. PathRead(s) = g[Len(s)]
  BY <1>1, Zenon DEF PathRead, PathReadOf
<1>4. QED
  BY <1>2, <1>3

LEMMA PathReadEmpty ==
  PathRead(<<>>) = [out |-> <<>>, saved |-> <<>>]
<1>1. <<>> \in Seq({}) /\ Len(<<>>) = 0
  OBVIOUS
<1>2. PICK g : PathReadOf(g, <<>>) /\ PathRead(<<>>) = g[Len(<<>>)]
  BY <1>1, PathReadIs
<1>3. g[0] = [out |-> <<>>, saved |-> <<>>]
  BY <1>1, <1>2 DEF PathReadOf
<1>4. QED
  BY <1>1, <1>2, <1>3

LEMMA PathReadAppend ==
  ASSUME NEW S, NEW s \in Seq(S), NEW e \in S
  PROVE  PathRead(Append(s, e)) = AddEntry(PathRead(s), e)
<1> DEFINE t == Append(s, e)
           n == Len(s)
<1>1. t \in Seq(S) /\ n \in Nat /\ Len(t) = n + 1 /\ t[n + 1] = e
  OBVIOUS
<1>2. \A i \in 1..n : t[i] = s[i]
  OBVIOUS
<1>3. PICK g : PathReadOf(g, s) /\ PathRead(s) = g[Len(s)]
  BY PathReadIs
<1>4. PICK h : PathReadOf(h, t) /\ PathRead(t) = h[Len(t)]
  BY <1>1, PathReadIs
<1> HIDE DEF t
<1>5. /\ \A i \in 0..n : g[i] = IF i = 0 THEN [out |-> <<>>, saved |-> <<>>] ELSE AddEntry(g[i - 1], s[i])
      /\ \A i \in 0..(n + 1) : h[i] = IF i = 0 THEN [out |-> <<>>, saved |-> <<>>] ELSE AddEntry(h[i - 1], t[i])
  BY <1>1, <1>3, <1>4 DEF PathReadOf
<1> HIDE DEF n
<1>6. /\ 0 \in 0..n /\ 0 \in 0..(n + 1)
      /\ \A i \in 1..n : i \in 0..n /\ i # 0
      /\ \A i \in 1..(n + 1) : i \in 0..(n + 1) /\ i # 0
  BY <1>1
<1>7. /\ g[0] = [out |-> <<>>, saved |-> <<>>] /\ h[0] = [out |-> <<>>, saved |-> <<>>]
      /\ \A i \in 1..n : g[i] = AddEntry(g[i - 1], s[i])
      /\ \A i \in 1..(n + 1) : h[i] = AddEntry(h[i - 1], t[i])
  BY <1>5, <1>6
<1> DEFINE U == {i \in 0..n : h[i] = g[i]}
<1>8. 0 \in U
  BY <1>6, <1>7
<1>9. ASSUME NEW i \in 0..(n - 1), i \in U PROVE i + 1 \in U
  <2>1. i + 1 \in 1..n /\ i + 1 \in 1..(n + 1) /\ i + 1 \in 0..n /\ (i + 1) - 1 = i
    BY <1>1
  <2>2. t[i + 1] = s[i + 1]
    BY <1>2, <2>1
  <2>3. QED
    BY <1>7, <1>9, <2>1, <2>2
<1> HIDE DEF U
<1>10. n \in U
  <2>1. \A i \in 0..n : i \in U
    BY <1>1, <1>8, <1>9, UpTo
  <2>2. QED
    BY <1>1, <2>1
<1>11. h[n] = g[n] /\ n + 1 \in 1..(n + 1) /\ (n + 1) - 1 = n
  BY <1>1, <1>10 DEF U
<1>12. QED
  BY <1>1, <1>3, <1>4, <1>7, <1>11 DEF t, n

PlacedStart(area) ==
  [full |-> <<>>, last |-> SL(<<>>, FALSE), area |-> area, at |-> 1, from |-> 0]
PlacedOf(g, target, area, turns) == g = [i \in 0..turns |-> IF i = 0 THEN PlacedStart(area) ELSE PlaceComponent(target, g[i - 1])]

LEMMA PlacedExists ==
  ASSUME NEW target, NEW area, NEW turns \in Nat
  PROVE  \E g : PlacedOf(g, target, area, turns)
<1> DEFINE n == turns
           F(g, i) == IF i = 0 THEN PlacedStart(area) ELSE PlaceComponent(target, g[i - 1])
           T == {k \in 0..n : \E g : g = [i \in 0..k |-> F(g, i)]}
<1>0. n \in Nat
  OBVIOUS
<1> HIDE DEF n
<1>1. 0 \in T
  <2> DEFINE g == [i \in 0..0 |-> PlacedStart(area)]
  <2>1. g = [i \in 0..0 |-> F(g, i)]
    OBVIOUS
  <2> HIDE DEF g
  <2>2. QED
    BY <1>0, <2>1
<1>2. ASSUME NEW k \in 0..(n - 1), k \in T PROVE k + 1 \in T
  <2>1. PICK g : g = [i \in 0..k |-> F(g, i)]
    BY <1>2
  <2>0. k \in Nat /\ k + 1 \in 0..n
    BY <1>0
  <2> DEFINE h == [i \in 0..(k + 1) |-> IF i = k + 1 THEN F(g, k + 1) ELSE g[i]]
  <2>2. ASSUME NEW i \in 0..(k + 1) PROVE h[i] = F(h, i)
    <3>1. CASE i = k + 1
      <4>1. i # 0 /\ i - 1 = k /\ h[i - 1] = g[i - 1] /\ h[i] = F(g, i)
        BY <2>0, <3>1
      <4> HIDE DEF h
      <4>2. QED
        BY <4>1
    <3>2. CASE i # k + 1
      <4>1. i \in 0..k /\ h[i] = g[i] /\ (i # 0 => h[i - 1] = g[i - 1])
        BY <2>0, <3>2
      <4>2. g[i] = F(g, i)
        BY <2>1, <4>1
      <4> HIDE DEF h
      <4>3. QED
        BY <4>1, <4>2
    <3>3. QED
      BY <3>1, <3>2
  <2>3. h = [i \in 0..(k + 1) |-> h[i]]
    OBVIOUS
  <2> HIDE DEF h
  <2>4. h = [i \in 0..(k + 1) |-> F(h, i)]
    <3> HIDE DEF F
    <3>1. QED
      BY <2>2, <2>3
  <2>5. QED
    BY <2>4, <2>0
<1> HIDE DEF T, F
<1>3. n \in T
  <2>1. \A k \in 0..n : k \in T
    BY <1>1, <1>2, <1>0, UpTo
  <2>2. QED
    BY <1>0, <2>1
<1>4. QED
  BY <1>3 DEF T, n, F, PlacedOf

LEMMA PlacedIs ==
  ASSUME NEW target, NEW area, NEW turns \in Nat
  PROVE  \E g : PlacedOf(g, target, area, turns) /\ Placed(target, area, turns) = g[turns]
<1>1. PICK g : g = CHOOSE h : PlacedOf(h, target, area, turns)
  OBVIOUS
<1>2. PlacedOf(g, target, area, turns)
  BY <1>1, PlacedExists
<1>3. Placed(target, area, turns) = g[turns]
  BY <1>1, Zenon DEF Placed, PlacedStart, PlacedOf
<1>4. QED
  BY <1>2, <1>3

LEMMA PlacedNone ==
  ASSUME NEW target, NEW area
  PROVE  Placed(target, area, 0) = PlacedStart(area)
<1>1. PICK g : PlacedOf(g, target, area, 0) /\ Placed(target, area, 0) = g[0]
  BY PlacedIs
<1>2. QED
  BY <1>1 DEF PlacedOf

LEMMA PlacedNext ==
  ASSUME NEW target, NEW area, NEW n \in Nat
  PROVE  Placed(target, area, n + 1) = PlaceComponent(target, Placed(target, area, n))
<1>3. PICK g : PlacedOf(g, target, area, n) /\ Placed(target, area, n) = g[n]
  BY PlacedIs
<1>4. PICK h : PlacedOf(h, target, area, n + 1) /\ Placed(target, area, n + 1) = h[n + 1]
  BY PlacedIs
<1>5. /\ \A i \in 0..n : g[i] = IF i = 0 THEN PlacedStart(area) ELSE PlaceComponent(target, g[i - 1])
      /\ \A i \in 0..(n + 1) : h[i] = IF i = 0 THEN PlacedStart(area) ELSE PlaceComponent(target, h[i - 1])
  BY <1>3, <1>4 DEF PlacedOf
<1>6. /\ 0 \in 0..n /\ 0 \in 0..(n + 1)
      /\ \A i \in 1..n : i \in 0..n /\ i # 0
      /\ \A i \in 1..(n + 1) : i \in 0..(n + 1) /\ i # 0
  OBVIOUS
<1>7. /\ g[0] = PlacedStart(area) /\ h[0] = PlacedStart(area)
      /\ \A i \in 1..n : g[i] = PlaceComponent(target, g[i - 1])
      /\ \A i \in 1..(n + 1) : h[i] = PlaceComponent(target, h[i - 1])
  BY <1>5, <1>6
<1> DEFINE U == {i \in 0..n : h[i] = g[i]}
<1>8. 0 \in U
  BY <1>6, <1>7
<1>9. ASSUME NEW i \in 0..(n - 1), i \in U PROVE i + 1 \in U
  <2>1. i + 1 \in 1..n /\ i + 1 \in 1..(n + 1) /\ i + 1 \in 0..n /\ (i + 1) - 1 = i
    OBVIOUS
  <2>2. QED
    BY <1>7, <1>9, <2>1
<1> HIDE DEF U
<1>10. n \in U
  <2>1. \A i \in 0..n : i \in U
    BY <1>8, <1>9, UpTo
  <2>2. QED
    BY <2>1
<1>11. h[n] = g[n] /\ n + 1 \in 1..(n + 1) /\ (n + 1) - 1 = n
  BY <1>10 DEF U
<1>12. QED
  BY <1>3, <1>4, <1>7, <1>11

FlattenOf(g, s) == g = [i \in 1..Len(s) |-> IF i = 1 THEN s[i] ELSE g[i - 1] \o s[i]]

LEMMA FlattenExists ==
  ASSUME NEW S, NEW s \in Seq(S), s # <<>>
  PROVE  \E g : FlattenOf(g, s)
<1> DEFINE n == Len(s) - 1
           F(g, i) == IF i = 1 THEN s[i] ELSE g[i - 1] \o s[i]
           T == {k \in 0..n : \E g : g = [i \in 1..(k + 1) |-> F(g, i)]}
<1>0. n \in Nat /\ n + 1 = Len(s)
  OBVIOUS
<1> HIDE DEF n
<1>1. 0 \in T
  <2> DEFINE g == [i \in 1..1 |-> s[i]]
  <2>1. g = [i \in 1..(0 + 1) |-> F(g, i)]
    OBVIOUS
  <2> HIDE DEF g, F
  <2>2. QED
    BY <1>0, <2>1
<1>2. ASSUME NEW k \in 0..(n - 1), k \in T PROVE k + 1 \in T
  <2>1. PICK g : g = [i \in 1..(k + 1) |-> F(g, i)]
    BY <1>2
  <2>0. k \in Nat /\ k + 1 \in 0..n
    BY <1>0
  <2> DEFINE h == [i \in 1..((k + 1) + 1) |-> IF i = k + 2 THEN F(g, k + 2) ELSE g[i]]
  <2>2. ASSUME NEW i \in 1..((k + 1) + 1) PROVE h[i] = F(h, i)
    <3>1. CASE i = k + 2
      <4>1. i # 1 /\ i - 1 = k + 1 /\ h[i - 1] = g[i - 1] /\ h[i] = F(g, i)
        BY <2>0, <3>1
      <4> HIDE DEF h
      <4>2. QED
        BY <4>1
    <3>2. CASE i # k + 2
      <4>1. i \in 1..(k + 1) /\ h[i] = g[i] /\ (i # 1 => h[i - 1] = g[i - 1])
        BY <2>0, <3>2
      <4>2. g[i] = F(g, i)
        BY <2>1, <4>1
      <4> HIDE DEF h
      <4>3. QED
        BY <4>1, <4>2
    <3>3. QED
      BY <3>1, <3>2
  <2>3. h = [i \in 1..((k + 1) + 1) |-> h[i]]
    OBVIOUS
  <2> HIDE DEF h
  <2>4. h = [i \in 1..((k + 1) + 1) |-> F(h, i)]
    <3> HIDE DEF F
    <3>1. QED
      BY <2>2, <2>3
  <2>5. QED
    BY <2>4, <2>0
<1> HIDE DEF T, F
<1>3. n \in T
  <2>1. \A k \in 0..n : k \in T
    BY <1>1, <1>2, <1>0, UpTo
  <2>2. QED
    BY <1>0, <2>1
<1>4. PICK g : g = [i \in 1..(n + 1) |-> F(g, i)]
  BY <1>3 DEF T
<1>5. QED
  BY <1>4, <1>0 DEF F, FlattenOf

FlattenedBy(g, s) ==
  /\ g[1] = s[1] /\ \A i \in 2..Len(s) : g[i] = g[i - 1] \o s[i]
  /\ FlattenSeq(s) = g[Len(s)]
LEMMA FlattenIs ==
  ASSUME NEW S, NEW s \in Seq(S), s # <<>>
  PROVE  \E g : FlattenedBy(g, s)
<1> USE DEF FlattenedBy
<1>1. PICK g : g = CHOOSE h : FlattenOf(h, s)
  OBVIOUS
<1>2. FlattenOf(g, s)
  BY <1>1, FlattenExists
<1>3. Len(s) # 0 /\ Len(s) \in Nat
  OBVIOUS
<1>4. FlattenSeq(s) = g[Len(s)]
  BY <1>1, <1>3, Zenon DEF FlattenSeq, FlattenOf
<1>5. \A i \in 1..Len(s) : g[i] = IF i = 1 THEN s[i] ELSE g[i - 1] \o s[i]
  BY <1>2 DEF FlattenOf
<1>6. 1 \in 1..Len(s) /\ \A i \in 2..Len(s) : i \in 1..Len(s) /\ i # 1
  BY <1>3
<1>7. QED
  BY <1>4, <1>5, <1>6

-----------------------------------------------------------------------------
(* Sums, lengths of areas and the entries of a kind.                        *)

AppendedLast(s, t, e) == s \o Append(t, e) = Append(s \o t, e)

LEMMA ConcatAppend ==
  ASSUME NEW S, NEW s \in Seq(S), NEW t \in Seq(S), NEW e \in S
  PROVE  AppendedLast(s, t, e)
BY DEF AppendedLast

\* Induction over sequences.
LEMMA SeqInduction ==
  ASSUME NEW S, NEW T, <<>> \in T,
         \A s \in Seq(S) : \A e \in S : s \in T => Append(s, e) \in T
  PROVE  \A s \in Seq(S) : s \in T
<1> SUFFICES ASSUME NEW s \in Seq(S) PROVE s \in T
  OBVIOUS
<1> DEFINE U == {n \in 0..Len(s) : SubSeq(s, 1, n) \in T}
<1>1. 0 \in U
  <2>1. SubSeq(s, 1, 0) = <<>> /\ 0 \in 0..Len(s)
    OBVIOUS
  <2>2. QED
    BY <2>1
<1>2. ASSUME NEW n \in 0..(Len(s) - 1), n \in U PROVE n + 1 \in U
  <2>1. n \in 0..Len(s) /\ n + 1 \in 0..Len(s) /\ n + 1 \in 1..Len(s)
    OBVIOUS
  <2>2. SubSeq(s, 1, n) \in Seq(S) /\ s[n + 1] \in S
    BY <2>1
  <2>3. SubSeq(s, 1, n + 1) = Append(SubSeq(s, 1, n), s[n + 1])
    BY <2>1
  <2>4. QED
    BY <1>2, <2>1, <2>2, <2>3
<1>3. Len(s) \in Nat
  OBVIOUS
<1> HIDE DEF U
<1>4. \A n \in 0..Len(s) : n \in U
  BY <1>1, <1>2, <1>3, UpTo
<1>5. Len(s) \in U /\ SubSeq(s, 1, Len(s)) = s
  BY <1>3, <1>4
<1>6. QED
  BY <1>5 DEF U

LEMMA TotalType ==
  ASSUME NEW s \in Seq(Nat)
  PROVE  Total(s) \in Nat
<1> DEFINE T == {t \in Seq(Nat) : Total(t) \in Nat}
<1>1. <<>> \in T
  BY TotalEmpty
<1>2. ASSUME NEW t \in Seq(Nat), NEW e \in Nat, t \in T PROVE Append(t, e) \in T
  <2>1. Append(t, e) \in Seq(Nat) /\ Total(Append(t, e)) = Total(t) + e
    BY TotalAppend
  <2>2. QED
    BY <1>2, <2>1
<1> HIDE DEF T
<1>3. \A t \in Seq(Nat) : t \in T
  BY <1>1, <1>2, SeqInduction
<1>4. QED
  BY <1>3 DEF T

\* The total of a concatenation.
LEMMA TotalConcat ==
  ASSUME NEW s \in Seq(Nat), NEW t \in Seq(Nat)
  PROVE  Total(s \o t) = Total(s) + Total(t)
<1> DEFINE T == {u \in Seq(Nat) : Total(s \o u) = Total(s) + Total(u)}
<1>1. <<>> \in T
  <2>1. s \o <<>> = s /\ Total(s) \in Nat
    BY TotalType
  <2>2. QED
    BY <2>1, TotalEmpty
<1>2. ASSUME NEW u \in Seq(Nat), NEW e \in Nat, u \in T PROVE Append(u, e) \in T
  <2>1. s \o Append(u, e) = Append(s \o u, e) /\ s \o u \in Seq(Nat) /\ Append(u, e) \in Seq(Nat)
    OBVIOUS
  <2>2. Total(Append(s \o u, e)) = Total(s \o u) + e /\ Total(Append(u, e)) = Total(u) + e
    BY <2>1, TotalAppend
  <2>3. Total(s) \in Nat /\ Total(u) \in Nat
    BY TotalType
  <2>4. Total(s \o u) = Total(s) + Total(u)
    BY <1>2
  <2>5. Total(s \o Append(u, e)) = Total(s) + Total(Append(u, e))
    BY <2>1, <2>2, <2>3, <2>4
  <2>6. QED
    BY <2>1, <2>5
<1> HIDE DEF T
<1>3. \A u \in Seq(Nat) : u \in T
  BY <1>1, <1>2, SeqInduction
<1>4. QED
  BY <1>3 DEF T

\* Two sums that differ in one place.
Sums(n, i, x, y, g, h) ==
  /\ g[0] = 0 /\ h[0] = 0
  /\ \A j \in 1..n : /\ g[j] = g[j - 1] + x[j] /\ h[j] = h[j - 1] + y[j]
                      /\ x[j] \in Nat /\ y[j] \in Nat /\ (j # i => y[j] = x[j])
LEMMA SumsDiffer ==
  ASSUME NEW n \in Nat, NEW i \in 1..n, NEW x, NEW y, NEW g, NEW h, Sums(n, i, x, y, g, h)
  PROVE  h[n] + x[i] = g[n] + y[i]
<1> USE DEF Sums
<1> DEFINE T == {m \in 0..n : /\ g[m] \in Nat /\ h[m] \in Nat
                              /\ m < i => h[m] = g[m]
                              /\ m >= i => h[m] + x[i] = g[m] + y[i]}
<1>1. 0 \in T
  OBVIOUS
<1>2. ASSUME NEW m \in 0..(n - 1), m \in T PROVE m + 1 \in T
  <2>1. m + 1 \in 1..n /\ (m + 1) - 1 = m /\ m + 1 \in 0..n /\ m \in Nat /\ i \in Nat
    OBVIOUS
  <2>2. /\ g[m + 1] = g[m] + x[m + 1] /\ h[m + 1] = h[m] + y[m + 1]
        /\ x[m + 1] \in Nat /\ y[m + 1] \in Nat /\ x[i] \in Nat /\ y[i] \in Nat
        /\ m + 1 # i => y[m + 1] = x[m + 1]
    BY <2>1
  <2>3. /\ g[m] \in Nat /\ h[m] \in Nat /\ (m < i => h[m] = g[m])
        /\ m >= i => h[m] + x[i] = g[m] + y[i]
    BY <1>2
  <2>4. g[m + 1] \in Nat /\ h[m + 1] \in Nat
    BY <2>2, <2>3
  <2>5. m + 1 < i => h[m + 1] = g[m + 1]
    BY <2>1, <2>2, <2>3
  <2>6. m + 1 >= i => h[m + 1] + x[i] = g[m + 1] + y[i]
    <3>1. CASE m + 1 = i
      BY <2>1, <2>2, <2>3, <3>1
    <3>2. CASE m + 1 > i
      BY <2>1, <2>2, <2>3, <3>2
    <3>3. QED
      BY <2>1, <3>1, <3>2
  <2>7. QED
    BY <2>1, <2>4, <2>5, <2>6
<1> HIDE DEF T
<1>3. n \in T
  <2>1. \A m \in 0..n : m \in T
    BY <1>1, <1>2, UpTo
  <2>2. QED
    BY <2>1
<1>4. QED
  BY <1>3 DEF T

ChangedIn(s, t, i) == Total(t) + s[i] = Total(s) + t[i]
LEMMA TotalChange ==
  ASSUME NEW s, NEW t, NEW i, s \in Seq(Nat), t \in Seq(Nat), i \in 1..Len(s), Len(t) = Len(s),
         \A j \in 1..Len(s) : j # i => t[j] = s[j]
  PROVE  ChangedIn(s, t, i)
<1> DEFINE n == Len(s)
<1>1. n \in Nat /\ i \in 1..n /\ Len(t) = n
  OBVIOUS
<1>2. \A j \in 1..n : s[j] \in Nat /\ t[j] \in Nat
  OBVIOUS
<1>3. PICK g : TotalOf(g, s) /\ Total(s) = g[n]
  BY TotalIs
<1>4. PICK h : TotalOf(h, t) /\ Total(t) = h[Len(t)]
  BY TotalIs
<1>5. \A j \in 1..n : j # i => t[j] = s[j]
  OBVIOUS
<1> HIDE DEF n
<1>6. \A j \in 0..n : g[j] = IF j = 0 THEN 0 ELSE g[j - 1] + s[j]
  BY ONLY <1>1, <1>3 DEF TotalOf, n
<1>7. \A j \in 0..n : h[j] = IF j = 0 THEN 0 ELSE h[j - 1] + t[j]
  BY ONLY <1>1, <1>4 DEF TotalOf, n
<1>8. 0 \in 0..n /\ \A j \in 1..n : j \in 0..n /\ j # 0
  BY ONLY <1>1
<1>9. /\ g[0] = 0 /\ h[0] = 0
      /\ \A j \in 1..n : /\ g[j] = g[j - 1] + s[j] /\ h[j] = h[j - 1] + t[j]
                          /\ s[j] \in Nat /\ t[j] \in Nat /\ (j # i => t[j] = s[j])
  BY ONLY <1>2, <1>5, <1>6, <1>7, <1>8
<1>10. h[n] + s[i] = g[n] + t[i]
  <2>1. Sums(n, i, s, t, g, h)
    BY ONLY <1>9 DEF Sums
  <2>2. QED
    BY ONLY <1>1, <2>1, SumsDiffer
<1>11. QED
  BY ONLY <1>1, <1>3, <1>4, <1>10 DEF n, ChangedIn

\* An area is a sequence of entries, of any kind of data.
LEMMA AreaEmpty == AreaLength(<<>>) = 0
<1>1. [i \in 1..Len(<<>>) |-> <<>>[i].len] = <<>>
  OBVIOUS
<1>2. QED
  BY <1>1, TotalEmpty DEF AreaLength

LEMMA AreaAppend ==
  ASSUME NEW S, NEW s \in Seq(S), NEW e \in S
  PROVE  AreaLength(Append(s, e)) = AreaLength(s) + e.len
<1> DEFINE R == {x.len : x \in S}
           f == [i \in 1..Len(s) |-> s[i].len]
           t == Append(s, e)
<1>1. f \in Seq(R) /\ Len(f) = Len(s) /\ e.len \in R
  OBVIOUS
<1>2. [i \in 1..Len(t) |-> t[i].len] = Append(f, e.len)
  <2>1. Len(t) = Len(s) + 1 /\ Len(s) \in Nat /\ t[Len(s) + 1] = e
    OBVIOUS
  <2>2. \A i \in 1..Len(s) : t[i] = s[i]
    OBVIOUS
  <2> HIDE DEF t
  <2>3. \A i \in 1..(Len(s) + 1) : t[i].len = Append(f, e.len)[i]
    BY <1>1, <2>1, <2>2
  <2> HIDE DEF R
  <2>4. Append(f, e.len) = [i \in 1..(Len(s) + 1) |-> Append(f, e.len)[i]]
    BY <1>1
  <2>5. [i \in 1..(Len(s) + 1) |-> t[i].len] = [i \in 1..(Len(s) + 1) |-> Append(f, e.len)[i]]
    BY <2>3
  <2>6. QED
    BY <2>1, <2>4, <2>5
<1> HIDE DEF f, R, t
<1>3. Total(Append(f, e.len)) = Total(f) + e.len
  BY <1>1, TotalAppend
<1>4. QED
  BY <1>2, <1>3 DEF AreaLength, f, t

LEMMA AreaOne ==
  ASSUME NEW e, e.len \in Nat
  PROVE  AreaLength(<<e>>) = e.len
<1>1. <<>> \in Seq({e}) /\ e \in {e} /\ <<e>> = Append(<<>>, e)
  OBVIOUS
<1>2. AreaLength(Append(<<>>, e)) = AreaLength(<<>>) + e.len
  BY ONLY <1>1, AreaAppend
<1>3. QED
  BY <1>1, <1>2, AreaEmpty

HasLengths(S) == \A e \in S : e.len \in Nat

LEMMA AreaType ==
  ASSUME NEW S, HasLengths(S), NEW s \in Seq(S)
  PROVE  AreaLength(s) \in Nat
<1> DEFINE T == {t \in Seq(S) : AreaLength(t) \in Nat}
<1>1. <<>> \in T
  BY AreaEmpty
<1>2. ASSUME NEW t \in Seq(S), NEW e \in S, t \in T PROVE Append(t, e) \in T
  <2>1. Append(t, e) \in Seq(S) /\ AreaLength(Append(t, e)) = AreaLength(t) + e.len
    BY AreaAppend
  <2>2. QED
    BY <1>2, <2>1 DEF HasLengths
<1> HIDE DEF T
<1>3. \A t \in Seq(S) : t \in T
  BY <1>1, <1>2, SeqInduction
<1>4. QED
  BY <1>3 DEF T

LEMMA AreaConcat ==
  ASSUME NEW S, HasLengths(S), NEW s \in Seq(S), NEW t \in Seq(S)
  PROVE  AreaLength(s \o t) = AreaLength(s) + AreaLength(t)
<1> DEFINE T == {u \in Seq(S) : AreaLength(s \o u) = AreaLength(s) + AreaLength(u)}
<1>1. <<>> \in T
  <2>1. s \o <<>> = s /\ AreaLength(s) \in Nat
    BY AreaType
  <2>2. QED
    BY <2>1, AreaEmpty
<1>2. ASSUME NEW u \in Seq(S), NEW e \in S, u \in T PROVE Append(u, e) \in T
  <2>1. s \o Append(u, e) = Append(s \o u, e) /\ s \o u \in Seq(S) /\ Append(u, e) \in Seq(S)
    OBVIOUS
  <2>2. AreaLength(Append(s \o u, e)) = AreaLength(s \o u) + e.len
    BY <2>1, AreaAppend
  <2>3. AreaLength(Append(u, e)) = AreaLength(u) + e.len
    BY AreaAppend
  <2>4. AreaLength(s) \in Nat /\ AreaLength(u) \in Nat /\ e.len \in Nat
    BY AreaType DEF HasLengths
  <2>5. AreaLength(s \o u) = AreaLength(s) + AreaLength(u)
    BY <1>2
  <2>6. AreaLength(s \o Append(u, e)) = AreaLength(s) + AreaLength(Append(u, e))
    BY <2>1, <2>2, <2>3, <2>4, <2>5
  <2>7. QED
    BY <2>1, <2>6
<1> HIDE DEF T
<1>3. \A u \in Seq(S) : u \in T
  BY <1>1, <1>2, SeqInduction
<1>4. QED
  BY <1>3 DEF T

\* No entry is without a length, so an area without one has no entry.
LEMMA AreaNothing ==
  ASSUME NEW S, HasLengths(S), \A e \in S : e.len > 0, NEW s \in Seq(S), AreaLength(s) = 0
  PROVE  s = <<>>
<1> DEFINE T == {t \in Seq(S) : t # <<>> => AreaLength(t) > 0}
<1>1. <<>> \in T
  OBVIOUS
<1>2. ASSUME NEW t \in Seq(S), NEW e \in S, t \in T PROVE Append(t, e) \in T
  <2>1. Append(t, e) \in Seq(S) /\ AreaLength(Append(t, e)) = AreaLength(t) + e.len
    BY AreaAppend
  <2>2. AreaLength(t) \in Nat /\ e.len \in Nat /\ e.len > 0
    BY AreaType DEF HasLengths
  <2>3. QED
    BY <2>1, <2>2
<1> HIDE DEF T
<1>3. \A t \in Seq(S) : t \in T
  BY <1>1, <1>2, SeqInduction
<1>4. QED
  BY <1>3 DEF T

LEMMA OfKindType ==
  ASSUME NEW S, NEW s \in Seq(S), NEW k
  PROVE  OfKind(s, k) \in Seq({e \in S : e.su = k})
<1> DEFINE K == {e \in S : e.su = k}
           T == {t \in Seq(S) : OfKind(t, k) \in Seq(K)}
<1>1. <<>> \in T
  <2>1. OfKind(<<>>, k) = <<>> /\ <<>> \in Seq(S)
    BY OfKindEmpty
  <2> HIDE DEF K
  <2>2. <<>> \in Seq(K)
    OBVIOUS
  <2>3. QED
    BY <2>1, <2>2
<1>2. ASSUME NEW t \in Seq(S), NEW e \in S, t \in T PROVE Append(t, e) \in T
  <2>1. OfKind(Append(t, e), k) = IF e.su = k THEN Append(OfKind(t, k), e) ELSE OfKind(t, k)
    BY OfKindAppend
  <2>2. Append(t, e) \in Seq(S) /\ OfKind(t, k) \in Seq(K) /\ (e.su = k => e \in K)
    BY <1>2
  <2> HIDE DEF K
  <2>3. OfKind(Append(t, e), k) \in Seq(K)
    BY <2>1, <2>2
  <2>4. QED
    BY <2>2, <2>3
<1> HIDE DEF T
<1>3. \A t \in Seq(S) : t \in T
  BY <1>1, <1>2, SeqInduction
<1>4. QED
  BY <1>3 DEF T

LEMMA OfKindConcat ==
  ASSUME NEW S, NEW s \in Seq(S), NEW t \in Seq(S), NEW k
  PROVE  OfKind(s \o t, k) = OfKind(s, k) \o OfKind(t, k)
<1> DEFINE K == {e \in S : e.su = k}
           T == {u \in Seq(S) : OfKind(s \o u, k) = OfKind(s, k) \o OfKind(u, k)}
<1>0. OfKind(s, k) \in Seq(K)
  BY OfKindType
<1>1. <<>> \in T
  <2>1. s \o <<>> = s
    OBVIOUS
  <2> HIDE DEF K
  <2>2. OfKind(s, k) \o <<>> = OfKind(s, k)
    BY <1>0
  <2>3. OfKind(<<>>, k) = <<>> /\ <<>> \in Seq(S)
    BY OfKindEmpty
  <2>4. QED
    BY <2>1, <2>2, <2>3
<1>2. ASSUME NEW u \in Seq(S), NEW e \in S, u \in T PROVE Append(u, e) \in T
  <2>1. s \o Append(u, e) = Append(s \o u, e) /\ s \o u \in Seq(S) /\ Append(u, e) \in Seq(S)
    OBVIOUS
  <2>2. OfKind(Append(s \o u, e), k) =
          IF e.su = k THEN Append(OfKind(s \o u, k), e) ELSE OfKind(s \o u, k)
    BY <2>1, OfKindAppend
  <2>3. OfKind(Append(u, e), k) = IF e.su = k THEN Append(OfKind(u, k), e) ELSE OfKind(u, k)
    BY OfKindAppend
  <2>4. OfKind(u, k) \in Seq(K) /\ (e.su = k => e \in K)
    BY OfKindType
  <2>5. OfKind(s \o u, k) = OfKind(s, k) \o OfKind(u, k)
    BY <1>2
  <2> HIDE DEF K
  <2>6. e.su = k => Append(OfKind(s, k) \o OfKind(u, k), e) = OfKind(s, k) \o Append(OfKind(u, k), e)
    <3> DEFINE p == OfKind(s, k)
               r == OfKind(u, k)
    <3> HIDE DEF p, r
    <3>1. ASSUME e \in K PROVE AppendedLast(p, r, e)
      <4>1. p \in Seq(K) /\ r \in Seq(K)
        BY <1>0, <2>4 DEF p, r
      <4>2. QED
        BY ONLY <3>1, <4>1, ConcatAppend
    <3>2. QED
      BY <2>4, <3>1 DEF p, r, AppendedLast
  <2>7. OfKind(s \o Append(u, e), k) = OfKind(s, k) \o OfKind(Append(u, e), k)
    BY <2>1, <2>2, <2>3, <2>5, <2>6
  <2>8. QED
    BY <2>1, <2>7
<1> HIDE DEF T
<1>3. \A u \in Seq(S) : u \in T
  BY <1>1, <1>2, SeqInduction
<1>4. QED
  BY <1>3 DEF T

LEMMA OfKindAll ==
  ASSUME NEW S, NEW k, NEW s \in Seq(S), \A e \in S : e.su = k
  PROVE  OfKind(s, k) = s
<1> DEFINE T == {t \in Seq(S) : OfKind(t, k) = t}
<1>1. <<>> \in T
  BY OfKindEmpty
<1>2. ASSUME NEW t \in Seq(S), NEW e \in S, t \in T PROVE Append(t, e) \in T
  BY <1>2, OfKindAppend
<1> HIDE DEF T
<1>3. \A t \in Seq(S) : t \in T
  BY <1>1, <1>2, SeqInduction
<1>4. QED
  BY <1>3 DEF T

LEMMA OfKindNone ==
  ASSUME NEW S, NEW k, NEW s \in Seq(S), \A e \in S : e.su # k
  PROVE  OfKind(s, k) = <<>>
<1> DEFINE T == {t \in Seq(S) : OfKind(t, k) = <<>>}
<1>1. <<>> \in T
  BY OfKindEmpty
<1>2. ASSUME NEW t \in Seq(S), NEW e \in S, t \in T PROVE Append(t, e) \in T
  BY <1>2, OfKindAppend
<1> HIDE DEF T
<1>3. \A t \in Seq(S) : t \in T
  BY <1>1, <1>2, SeqInduction
<1>4. QED
  BY <1>3 DEF T

\* Each entry of the area is among those of its kind.
LEMMA OfKindHas ==
  ASSUME NEW S, NEW s \in Seq(S), NEW k, NEW i \in 1..Len(s), s[i].su = k
  PROVE  \E j \in 1..Len(OfKind(s, k)) : OfKind(s, k)[j] = s[i]
<1> DEFINE K == {e \in S : e.su = k}
           T == {t \in Seq(S) : \A n \in 1..Len(t) : t[n].su = k =>
                   \E j \in 1..Len(OfKind(t, k)) : OfKind(t, k)[j] = t[n]}
<1>1. <<>> \in T
  OBVIOUS
<1>2. ASSUME NEW t \in Seq(S), NEW e \in S, t \in T PROVE Append(t, e) \in T
  <2> DEFINE v == Append(t, e)
             o == OfKind(t, k)
  <2>1. v \in Seq(S) /\ Len(v) = Len(t) + 1 /\ Len(t) \in Nat /\ v[Len(t) + 1] = e
    OBVIOUS
  <2>2. \A n \in 1..Len(t) : v[n] = t[n]
    OBVIOUS
  <2>3. OfKind(v, k) = IF e.su = k THEN Append(o, e) ELSE o
    BY OfKindAppend
  <2>4. o \in Seq(K) /\ (e.su = k => e \in K)
    BY OfKindType
  <2>5. \A n \in 1..Len(t) : t[n].su = k => \E j \in 1..Len(o) : o[j] = t[n]
    BY <1>2
  <2> HIDE DEF v, o, K
  <2>6. ASSUME NEW n \in 1..Len(v), v[n].su = k
        PROVE  \E j \in 1..Len(OfKind(v, k)) : OfKind(v, k)[j] = v[n]
    <3>1. CASE n = Len(t) + 1
      <4>1. e.su = k /\ v[n] = e
        BY <2>1, <2>6, <3>1
      <4>2. Len(o) + 1 \in 1..Len(Append(o, e)) /\ Append(o, e)[Len(o) + 1] = e
        BY <2>4, <4>1
      <4>3. QED
        BY <2>3, <4>1, <4>2
    <3>2. CASE n # Len(t) + 1
      <4>1. n \in 1..Len(t) /\ v[n] = t[n]
        BY <2>1, <2>2, <3>2
      <4>2. PICK j \in 1..Len(o) : o[j] = t[n]
        BY <2>5, <2>6, <4>1
      <4>3. e.su = k => j \in 1..Len(Append(o, e)) /\ Append(o, e)[j] = o[j]
        BY <2>4
      <4>4. QED
        BY <2>3, <4>1, <4>2, <4>3
    <3>3. QED
      BY <3>1, <3>2
  <2>7. v \in T
    BY <2>1, <2>6
  <2>8. QED
    BY <2>7 DEF v
<1> HIDE DEF T
<1>3. \A t \in Seq(S) : t \in T
  BY <1>1, <1>2, SeqInduction
<1>4. QED
  BY <1>3 DEF T

\* Two entries of a kind are two in what is selected.
LEMMA OfKindTwo ==
  ASSUME NEW S, NEW s \in Seq(S), NEW k, NEW i \in 1..Len(s), NEW j \in 1..(i - 1),
         s[i].su = k, s[j].su = k
  PROVE  Len(OfKind(s, k)) > 1
<1> DEFINE K == {e \in S : e.su = k}
           Some(t) == \E n \in 1..Len(t) : t[n].su = k
           Two(t) == \E n \in 1..Len(t) : \E m \in 1..(n - 1) : t[n].su = k /\ t[m].su = k
           T == {t \in Seq(S) : /\ Some(t) => Len(OfKind(t, k)) > 0
                                /\ Two(t) => Len(OfKind(t, k)) > 1}
<1>1. <<>> \in T
  OBVIOUS
<1>2. ASSUME NEW t \in Seq(S), NEW e \in S, t \in T PROVE Append(t, e) \in T
  <2> DEFINE v == Append(t, e)
             o == OfKind(t, k)
  <2>1. v \in Seq(S) /\ Len(v) = Len(t) + 1 /\ Len(t) \in Nat /\ v[Len(t) + 1] = e
    OBVIOUS
  <2>2. \A n \in 1..Len(t) : v[n] = t[n]
    OBVIOUS
  <2>3. OfKind(v, k) = IF e.su = k THEN Append(o, e) ELSE o
    BY OfKindAppend
  <2>4. o \in Seq(K) /\ (e.su = k => e \in K)
    BY OfKindType
  <2>5. (Some(t) => Len(o) > 0) /\ (Two(t) => Len(o) > 1)
    BY <1>2
  <2> HIDE DEF v, o, K
  <2>6. Len(o) \in Nat /\ (e.su = k => Len(OfKind(v, k)) = Len(o) + 1)
                       /\ (e.su # k => Len(OfKind(v, k)) = Len(o))
    BY <2>3, <2>4
  <2>7. Some(v) => Len(OfKind(v, k)) > 0
    <3>1. e.su # k /\ Some(v) => Some(t)
      BY <2>1, <2>2
    <3> HIDE DEF Some
    <3>2. QED
      BY <2>5, <2>6, <3>1
  <2>8. Two(v) => Len(OfKind(v, k)) > 1
    <3>1. ASSUME NEW n \in 1..Len(v), NEW m \in 1..(n - 1), v[n].su = k, v[m].su = k
          PROVE  Len(OfKind(v, k)) > 1
      <4>1. m \in 1..Len(t) /\ v[m] = t[m]
        BY <2>1, <2>2
      <4>2. Some(t)
        BY <3>1, <4>1
      <4>3. CASE n = Len(t) + 1
        BY <2>1, <2>5, <2>6, <3>1, <4>2, <4>3
      <4>4. CASE n # Len(t) + 1
        <5>1. n \in 1..Len(t) /\ v[n] = t[n]
          <6>1. n \in 1..(Len(t) + 1) /\ n # Len(t) + 1
            BY <2>1, <4>4
          <6>2. n \in 1..Len(t)
            BY <2>1, <6>1
          <6>3. QED
            BY <2>2, <6>2
        <5>2. Two(t)
          BY <3>1, <4>1, <5>1
        <5> HIDE DEF Some, Two
        <5>3. QED
          BY <2>5, <2>6, <5>2
      <4>5. QED
        BY <4>3, <4>4
    <3>2. QED
      BY <3>1
  <2>9. v \in T
    BY <2>1, <2>7, <2>8
  <2>10. QED
    BY <2>9 DEF v
<1> HIDE DEF T
<1>3. \A t \in Seq(S) : t \in T
  BY <1>1, <1>2, SeqInduction
<1>4. s \in T
  BY <1>3
<1>5. QED
  BY <1>4 DEF T

-----------------------------------------------------------------------------
(* The lists of entries by kind, and what is written of them.               *)

OfSu(S, k) == {e \in S : e.su = k}
Lists(S) == {E \in [Kinds -> Seq(S)] : \A k \in Kinds : E[k] \in Seq(OfSu(S, k))}
Weight(E) == Total([i \in 1..16 |-> AreaLength(E[RecordOrder[i]])])

LEMMA ListsHave ==
  ASSUME NEW S, NEW E \in Lists(S), NEW k \in Kinds
  PROVE  /\ E[k] \in Seq(OfSu(S, k)) /\ E[k] \in Seq(S) /\ Len(E[k]) \in Nat
         /\ \A i \in 1..Len(E[k]) : E[k][i] \in S /\ E[k][i].su = k
<1>1. E[k] \in Seq(OfSu(S, k)) /\ E[k] \in Seq(S)
  BY DEF Lists
<1>2. Len(E[k]) \in Nat /\ \A i \in 1..Len(E[k]) : E[k][i] \in OfSu(S, k)
  BY ONLY <1>1
<1>3. QED
  BY <1>1, <1>2 DEF OfSu

LEMMA Order ==
  /\ Len(RecordOrder) = 16 /\ RecordOrder[16] = "SF"
  /\ \A i \in 1..16 : RecordOrder[i] \in Kinds /\ RecordOrder[i] # "PN"
  /\ \A i, j \in 1..16 : i # j => RecordOrder[i] # RecordOrder[j]
  /\ \A k \in Kinds \ {"PN"} : \E i \in 1..16 : RecordOrder[i] = k
<1>1. Len(RecordOrder) = 16
  BY DEF RecordOrder
<1>2. /\ RecordOrder[1] = "SP" /\ RecordOrder[2] = "RR" /\ RecordOrder[3] = "NM"
      /\ RecordOrder[4] = "PX" /\ RecordOrder[5] = "SL" /\ RecordOrder[6] = "TF"
      /\ RecordOrder[7] = "CL" /\ RecordOrder[8] = "PL" /\ RecordOrder[9] = "RE"
      /\ RecordOrder[10] = "ES" /\ RecordOrder[11] = "ER" /\ RecordOrder[12] = "AL"
      /\ RecordOrder[13] = "CE" /\ RecordOrder[14] = "PD" /\ RecordOrder[15] = "ST"
      /\ RecordOrder[16] = "SF"
  BY DEF RecordOrder
<1>3. \A i \in 1..16 : \/ i = 1 \/ i = 2 \/ i = 3 \/ i = 4 \/ i = 5 \/ i = 6 \/ i = 7 \/ i = 8
                       \/ i = 9 \/ i = 10 \/ i = 11 \/ i = 12 \/ i = 13 \/ i = 14 \/ i = 15
                       \/ i = 16
  OBVIOUS
<1>4. \A i \in 1..16 : RecordOrder[i] \in Kinds /\ RecordOrder[i] # "PN"
  BY <1>2, <1>3 DEF Kinds
<1>5. \A i, j \in 1..16 : i # j => RecordOrder[i] # RecordOrder[j]
  BY <1>2, <1>3
<1>6. \A k \in Kinds \ {"PN"} : \E i \in 1..16 : RecordOrder[i] = k
  <2> SUFFICES ASSUME NEW k \in Kinds \ {"PN"} PROVE \E i \in 1..16 : RecordOrder[i] = k
    OBVIOUS
  <2>1. \A i \in {1, 2, 3, 4, 5, 6, 7, 8, 9, 10, 11, 12, 13, 14, 15, 16} : i \in 1..16
    OBVIOUS
  <2>2. QED
    BY <1>2, <2>1 DEF Kinds
<1>7. QED
  BY <1>1, <1>2, <1>4, <1>5, <1>6

WeighedBy(w, E) ==
  /\ w[0] = 0 /\ Weight(E) = w[16]
  /\ \A i \in 1..16 : w[i] = w[i - 1] + AreaLength(E[RecordOrder[i]])
\* The weight of the lists is the sum of their lengths in the order of writing.
LEMMA WeightIs ==
  ASSUME NEW S, HasLengths(S), NEW E \in Lists(S)
  PROVE  /\ Weight(E) \in Nat /\ [i \in 1..16 |-> AreaLength(E[RecordOrder[i]])] \in Seq(Nat)
         /\ \E w : WeighedBy(w, E)
<1> DEFINE f == [i \in 1..16 |-> AreaLength(E[RecordOrder[i]])]
<1>1. \A i \in 1..16 : AreaLength(E[RecordOrder[i]]) \in Nat
  <2> TAKE i \in 1..16
  <2>1. E[RecordOrder[i]] \in Seq(S)
    BY Order, ListsHave
  <2>2. QED
    BY <2>1, AreaType
<1>2. f \in Seq(Nat) /\ Len(f) = 16 /\ \A i \in 1..16 : f[i] = AreaLength(E[RecordOrder[i]])
  BY <1>1
<1> HIDE DEF f
<1>3. Total(f) \in Nat
  BY <1>2, TotalType
<1>4. PICK w : TotalOf(w, f) /\ Total(f) = w[16]
  BY <1>2, TotalIs
<1>5. \A i \in 0..16 : w[i] = IF i = 0 THEN 0 ELSE w[i - 1] + f[i]
  BY ONLY <1>2, <1>4 DEF TotalOf
<1>6. w[0] = 0 /\ \A i \in 1..16 : w[i] = w[i - 1] + f[i]
  BY ONLY <1>5
<1>7. w[0] = 0 /\ \A i \in 1..16 : w[i] = w[i - 1] + AreaLength(E[RecordOrder[i]])
  BY ONLY <1>2, <1>6
<1>8. Weight(E) = Total(f)
  BY DEF Weight, f
<1>9. f \in Seq(Nat)
  BY <1>2
<1>10. WeighedBy(w, E)
  BY ONLY <1>4, <1>7, <1>8 DEF WeighedBy
<1>11. QED
  BY <1>3, <1>8, <1>9, <1>10 DEF f

\* One list replaced: the weight changes by its length.
LEMMA WeightPut ==
  ASSUME NEW S, HasLengths(S), NEW E \in Lists(S), NEW F \in Lists(S),
         NEW k \in Kinds \ {"PN"}, \A j \in Kinds \ {k} : F[j] = E[j]
  PROVE  Weight(F) + AreaLength(E[k]) = Weight(E) + AreaLength(F[k])
<1> DEFINE f == [i \in 1..16 |-> AreaLength(E[RecordOrder[i]])]
           g == [i \in 1..16 |-> AreaLength(F[RecordOrder[i]])]
<1>1. f \in Seq(Nat) /\ g \in Seq(Nat)
  BY WeightIs
<1>2. Weight(E) = Total(f) /\ Weight(F) = Total(g)
  BY DEF Weight
<1>3. Len(f) = 16 /\ Len(g) = 16
  OBVIOUS
<1>4. PICK i \in 1..16 : RecordOrder[i] = k
  BY Order
<1>5. \A j \in 1..16 : j # i => g[j] = f[j]
  BY <1>4, Order
<1>6. f[i] = AreaLength(E[k]) /\ g[i] = AreaLength(F[k])
  BY <1>4
<1> HIDE DEF f, g
<1>7. ChangedIn(f, g, i)
  BY ONLY <1>1, <1>3, <1>4, <1>5, TotalChange
<1>8. QED
  BY ONLY <1>2, <1>6, <1>7 DEF ChangedIn

\* The PX entry has the length that it is written in.
PXRight(version, E) ==
  /\ Len(E["PX"]) <= 1
  /\ \A i \in 1..Len(E["PX"]) : E["PX"][i].len = PXLength(version)
AreEntries(S) == \A e \in S : e = [su |-> e.su, len |-> e.len, sound |-> e.sound, data |-> e.data]

WrittenBy(g, o, E) ==
  /\ g[1] = E[RecordOrder[1]] /\ Record(o, E) = g[16]
  /\ \A i \in 2..16 : g[i] = g[i - 1] \o E[RecordOrder[i]]
\* What record() writes, one kind after the other.
LEMMA RecordIs ==
  ASSUME NEW S, HasLengths(S), AreEntries(S), NEW E \in Lists(S), NEW o, PXRight(o.version, E)
  PROVE  \E g : WrittenBy(g, o, E)
<1> DEFINE ss == [i \in 1..16 |-> E[RecordOrder[i]]]
           written(k) == IF k = "PX" /\ E[k] # <<>>
                         THEN <<[E[k][1] EXCEPT !.len = PXLength(o.version)]>> ELSE E[k]
<1>1. ASSUME NEW k \in Kinds PROVE written(k) = E[k]
  <2>1. CASE k = "PX" /\ E[k] # <<>>
    <3>1. E[k] \in Seq(S) /\ Len(E[k]) = 1
      <4>1. E[k] \in Seq(S) /\ Len(E[k]) <= 1 /\ E[k] # <<>>
        BY <2>1, ListsHave DEF PXRight
      <4>2. Len(E[k]) # 0 /\ Len(E[k]) \in Nat
        BY <4>1, EmptySeq, LenProperties
      <4> DEFINE l == Len(E[k])
      <4>3. l <= 1 /\ l # 0 /\ l \in Nat
        BY <4>1, <4>2
      <4> HIDE DEF l
      <4>4. l = 1
        BY ONLY <4>3
      <4>5. QED
        BY <4>1, <4>4 DEF l
    <3>2. E[k] = <<E[k][1]>> /\ E[k][1] \in S /\ 1 \in 1..Len(E[k])
      BY ONLY <3>1
    <3>3. E[k][1].len = PXLength(o.version)
      BY <2>1, <3>2 DEF PXRight
    <3> DEFINE e == E[k][1]
    <3> HIDE DEF e
    <3>4. e = [su |-> e.su, len |-> e.len, sound |-> e.sound, data |-> e.data]
      BY <3>2 DEF AreEntries, e
    <3>5. [e EXCEPT !.len = e.len] = e
      BY ONLY <3>4
    <3>6. QED
      BY <2>1, <3>2, <3>3, <3>5 DEF e
  <2>2. QED
    BY <2>1
<1>2. [i \in 1..Len(RecordOrder) |-> written(RecordOrder[i])] = ss
  <2> HIDE DEF written
  <2>1. QED
    BY <1>1, Order
<1>3. Record(o, E) = FlattenSeq(ss)
  BY <1>2 DEF Record
<1>4. ss \in Seq(Seq(S)) /\ Len(ss) = 16 /\ \A i \in 1..16 : ss[i] = E[RecordOrder[i]]
  <2>1. \A i \in 1..16 : E[RecordOrder[i]] \in Seq(S)
    BY Order, ListsHave
  <2>2. QED
    BY <2>1
<1> HIDE DEF ss
<1>5. ss # <<>>
  <2>1. Len(ss) # 0
    BY ONLY <1>4
  <2>2. Len(<<>>) = 0
    OBVIOUS
  <2>3. QED
    BY ONLY <2>1, <2>2
<1>6. PICK g : FlattenedBy(g, ss)
  BY ONLY <1>4, <1>5, FlattenIs
<1>7. 1 \in 1..16 /\ \A i \in 2..16 : i \in 1..16
  OBVIOUS
<1>8. /\ g[1] = ss[1] /\ (\A i \in 2..16 : g[i] = g[i - 1] \o ss[i])
      /\ FlattenSeq(ss) = g[16]
  BY ONLY <1>4, <1>6 DEF FlattenedBy
<1>9. /\ g[1] = E[RecordOrder[1]] /\ \A i \in 2..16 : g[i] = g[i - 1] \o E[RecordOrder[i]]
  BY ONLY <1>4, <1>7, <1>8
<1>10. WrittenBy(g, o, E)
  BY ONLY <1>3, <1>8, <1>9 DEF WrittenBy
<1>11. QED
  BY <1>10

\* What is written has of each kind what the list of that kind has, but
\* nothing of a PN entry; it weighs what the lists weigh; and the SF entry
\* is the last.
LEMMA RecordHas ==
  ASSUME NEW S, HasLengths(S), AreEntries(S), NEW E \in Lists(S), NEW o, PXRight(o.version, E)
  PROVE  /\ Record(o, E) \in Seq(S)
         /\ \A k \in Kinds : OfKind(Record(o, E), k) = IF k = "PN" THEN <<>> ELSE E[k]
         /\ AreaLength(Record(o, E)) = Weight(E)
         /\ \E front \in Seq(S) : Record(o, E) = front \o E["SF"]
<1>a. PICK g : WrittenBy(g, o, E)
  BY RecordIs
<1>b. PICK w : WeighedBy(w, E)
  BY WeightIs
<1>1. /\ g[1] = E[RecordOrder[1]] /\ Record(o, E) = g[16]
      /\ \A i \in 2..16 : g[i] = g[i - 1] \o E[RecordOrder[i]]
  BY ONLY <1>a DEF WrittenBy
<1>2. /\ w[0] = 0 /\ Weight(E) = w[16]
      /\ \A i \in 1..16 : w[i] = w[i - 1] + AreaLength(E[RecordOrder[i]])
  BY ONLY <1>b DEF WeighedBy
<1> DEFINE Written(m, k) == \E j \in 1..m : RecordOrder[j] = k
           T == {m \in 0..15 : /\ g[m + 1] \in Seq(S) /\ AreaLength(g[m + 1]) = w[m + 1]
                               /\ \A k \in Kinds : OfKind(g[m + 1], k) =
                                    IF Written(m + 1, k) THEN E[k] ELSE <<>>}
<1>3. ASSUME NEW i \in 1..16
      PROVE  /\ E[RecordOrder[i]] \in Seq(S) /\ AreaLength(E[RecordOrder[i]]) \in Nat
             /\ \A k \in Kinds : OfKind(E[RecordOrder[i]], k) =
                                   IF RecordOrder[i] = k THEN E[k] ELSE <<>>
  <2> DEFINE r == RecordOrder[i]
  <2>1. r \in Kinds
    BY Order
  <2>2. E[r] \in Seq(S) /\ E[r] \in Seq(OfSu(S, r))
    BY <2>1, ListsHave
  <2>3. AreaLength(E[r]) \in Nat
    BY <2>2, AreaType
  <2>4. ASSUME NEW k \in Kinds PROVE OfKind(E[r], k) = IF r = k THEN E[k] ELSE <<>>
    <3>1. \A e \in OfSu(S, r) : e.su = r
      BY DEF OfSu
    <3>2. CASE r = k
      BY <2>2, <3>1, <3>2, OfKindAll
    <3>3. CASE r # k
      <4>1. \A e \in OfSu(S, r) : e.su # k
        BY <3>1, <3>3
      <4>2. QED
        BY <2>2, <3>3, <4>1, OfKindNone
    <3>4. QED
      BY <3>2, <3>3
  <2>5. QED
    BY <2>2, <2>3, <2>4
<1>4. 0 \in T
  <2>1. 1 \in 1..16 /\ 0 + 1 = 1 /\ 1 - 1 = 0
    OBVIOUS
  <2>2. w[1] = AreaLength(E[RecordOrder[1]])
    <3> DEFINE x == AreaLength(E[RecordOrder[1]])
    <3>1. x \in Nat
      BY <1>3, <2>1
    <3>2. w[1] = 0 + x
      BY ONLY <1>2, <2>1
    <3> HIDE DEF x
    <3>3. w[1] = x
      BY ONLY <3>1, <3>2
    <3>4. QED
      BY <3>3 DEF x
  <2>3. \A k \in Kinds : Written(1, k) <=> RecordOrder[1] = k
    OBVIOUS
  <2> HIDE DEF Written
  <2>4. \A k \in Kinds : OfKind(g[1], k) = IF Written(1, k) THEN E[k] ELSE <<>>
    <3>1. \A k \in Kinds : OfKind(E[RecordOrder[1]], k) = IF RecordOrder[1] = k THEN E[k] ELSE <<>>
      BY <1>3, <2>1
    <3>2. QED
      BY ONLY <1>1, <2>3, <3>1
  <2>5. g[1] \in Seq(S) /\ AreaLength(g[1]) = w[1]
    BY <1>1, <1>3, <2>1, <2>2
  <2>6. QED
    BY <2>1, <2>4, <2>5
<1>5. ASSUME NEW m \in 0..(15 - 1), m \in T PROVE m + 1 \in T
  <2> DEFINE n == m + 1
             r == RecordOrder[n + 1]
  <2>1. n \in 0..15 /\ n \in 1..16 /\ n + 1 \in 2..16 /\ n + 1 \in 1..16 /\ (n + 1) - 1 = n /\ n \in Nat
    OBVIOUS
  <2>2. /\ g[n] \in Seq(S) /\ AreaLength(g[n]) = w[n]
        /\ \A k \in Kinds : OfKind(g[n], k) = IF Written(n, k) THEN E[k] ELSE <<>>
    BY <1>5
  <2> HIDE DEF n
  <2>3. g[n + 1] = g[n] \o E[r] /\ w[n + 1] = w[n] + AreaLength(E[r])
    BY <1>1, <1>2, <2>1
  <2>4. /\ E[r] \in Seq(S)
        /\ \A k \in Kinds : OfKind(E[r], k) = IF r = k THEN E[k] ELSE <<>>
    BY <1>3, <2>1
  <2>5. g[n + 1] \in Seq(S)
    BY ONLY <2>2, <2>3, <2>4
  <2>6. AreaLength(g[n + 1]) = w[n + 1]
    BY <2>2, <2>3, <2>4, AreaConcat
  <2>7. ASSUME NEW k \in Kinds
        PROVE  OfKind(g[n + 1], k) = IF Written(n + 1, k) THEN E[k] ELSE <<>>
    <3>1. OfKind(g[n + 1], k) = OfKind(g[n], k) \o OfKind(E[r], k)
      <4> DEFINE p == g[n]
                 q == E[r]
      <4>1. p \in Seq(S) /\ q \in Seq(S)
        BY <2>2, <2>4
      <4> HIDE DEF p, q
      <4>2. OfKind(p \o q, k) = OfKind(p, k) \o OfKind(q, k)
        BY ONLY <4>1, OfKindConcat
      <4>3. QED
        BY ONLY <2>3, <4>2 DEF p, q
    <3>2. Written(n + 1, k) <=> Written(n, k) \/ r = k
      <4>1. \A j \in 1..(n + 1) : j \in 1..n \/ j = n + 1
        BY <2>1
      <4>2. \A j \in 1..n : j \in 1..(n + 1)
        BY <2>1
      <4>3. n + 1 \in 1..(n + 1)
        BY <2>1
      <4>4. QED
        BY <4>1, <4>2, <4>3
    <3>3. ~(Written(n, k) /\ r = k)
      <4>1. \A j \in 1..n : j \in 1..16 /\ j # n + 1
        BY <2>1
      <4>2. QED
        BY <2>1, <4>1, Order
    <3> HIDE DEF Written, r
    <3>4. E[k] \in Seq(S)
      BY ListsHave
    <3>5. E[k] \o <<>> = E[k] /\ <<>> \o E[k] = E[k] /\ <<>> \o <<>> = <<>>
      BY ONLY <3>4
    <3>6. OfKind(g[n], k) = IF Written(n, k) THEN E[k] ELSE <<>>
      BY <2>2
    <3>7. OfKind(E[r], k) = IF r = k THEN E[k] ELSE <<>>
      BY <2>4
    <3>8. QED
      BY ONLY <3>1, <3>2, <3>3, <3>5, <3>6, <3>7
  <2> HIDE DEF Written
  <2>8. n \in T
    BY ONLY <2>1, <2>5, <2>6, <2>7
  <2>9. QED
    BY <2>8 DEF n
<1> HIDE DEF T
<1>6. \A m \in 0..15 : m \in T
  BY <1>4, <1>5, UpTo
<1>7. 15 \in T /\ 14 \in T /\ 14 + 1 = 15 /\ 15 + 1 = 16
  BY <1>6
<1>8. /\ g[16] \in Seq(S) /\ AreaLength(g[16]) = w[16]
      /\ \A k \in Kinds : OfKind(g[16], k) = IF Written(16, k) THEN E[k] ELSE <<>>
  BY <1>7 DEF T
<1>9. g[15] \in Seq(S) /\ g[16] = g[15] \o E["SF"]
  <2>1. 16 \in 2..16 /\ 16 - 1 = 15
    OBVIOUS
  <2>2. g[15] \in Seq(S)
    BY <1>7 DEF T
  <2>3. g[16] = g[15] \o E[RecordOrder[16]]
    BY ONLY <1>1, <2>1
  <2>4. RecordOrder[16] = "SF"
    BY Order
  <2>5. QED
    BY ONLY <2>2, <2>3, <2>4
<1>10. \A k \in Kinds : Written(16, k) <=> k # "PN"
  BY Order
<1> HIDE DEF Written
<1>11. QED
  BY <1>1, <1>2, <1>8, <1>9, <1>10

-----------------------------------------------------------------------------
(* Entries that the parser accepts, and areas of them.                      *)

Piece == [kind: {"root", "dot", "dotdot", "text"}, of: Nat, from: Nat, len: Nat, cont: BOOLEAN]
Text == [of: Nat, from: Nat, len: Nat]
NameData == [text: Text, cont: BOOLEAN]
LinkData == [comps: Seq(Piece), cont: BOOLEAN]
ForeignData == {f.dr[i].data : f \in Foreign, i \in Nat} \cup {f.ce[i].data : f \in Foreign, i \in Nat}
Announces == {"PX", "TF", "NM", "SL", "CL", "RE", "PL"}  \* what an RR entry may announce
Data == Nat \cup BOOLEAN \cup {"IEEE_P1282", "RRIP_1991A"} \cup (SUBSET Announces) \cup NameData \cup LinkData \cup ForeignData
Whole == {e \in [su: Kinds, len: 4..255, sound: {TRUE}, data: Data] : Accepts(e)}

\* An entry that the parser accepts has a length that fits into a byte.
LEMMA WholeHas ==
  /\ HasLengths(Whole) /\ AreEntries(Whole)
  /\ \A e \in Whole : /\ e.su \in Kinds /\ e.len \in 4..255 /\ e.len \in Nat /\ e.len > 0 /\ e.sound
                      /\ e.data \in Data /\ Accepts(e)
                      /\ (e.su = "PX" => e.len \in {36, 44}) /\ (e.su = "SF" => e.len \in {12, 21})
<1>1. \A e \in Whole : /\ e.su \in Kinds /\ e.len \in 4..255 /\ e.sound /\ e.data \in Data /\ Accepts(e)
                       /\ e = [su |-> e.su, len |-> e.len, sound |-> e.sound, data |-> e.data]
  <2> TAKE e \in Whole
  <2>1. e \in [su: Kinds, len: 4..255, sound: {TRUE}, data: Data] /\ Accepts(e)
    BY DEF Whole
  <2>2. QED
    BY ONLY <2>1
<1>2. \A e \in Whole : (e.su = "PX" => e.len \in {36, 44}) /\ (e.su = "SF" => e.len \in {12, 21})
  BY <1>1 DEF Accepts
<1>3. \A n \in 4..255 : n \in Nat /\ n > 0
  OBVIOUS
<1>4. QED
  BY <1>1, <1>2, <1>3 DEF HasLengths, AreEntries

LEMMA OfKindFrom ==
  ASSUME NEW S, NEW s \in Seq(S), NEW k, NEW j \in 1..Len(OfKind(s, k))
  PROVE  OfKind(s, k)[j].su = k /\ \E i \in 1..Len(s) : s[i] = OfKind(s, k)[j]
<1> DEFINE R == {s[i] : i \in 1..Len(s)}
           o == OfKind(s, k)
<1>1. s \in Seq(R)
  OBVIOUS
<1>2. o \in Seq({e \in R : e.su = k})
  BY <1>1, OfKindType
<1> HIDE DEF o
<1>3. j \in 1..Len(o)
  BY DEF o
<1>4. o[j] \in {e \in R : e.su = k}
  BY <1>2, <1>3
<1>5. QED
  BY <1>4 DEF o

Alone(s, k) == \A i \in 1..Len(s) : \A j \in 1..(i - 1) : ~(s[i].su = k /\ s[j].su = k)
\* An area without two entries of a kind holds one of it at most.
LEMMA OfKindOne ==
  ASSUME NEW S, NEW s \in Seq(S), NEW k, Alone(s, k)
  PROVE  Len(OfKind(s, k)) \in Nat /\ Len(OfKind(s, k)) <= 1
<1> DEFINE K == {e \in S : e.su = k}
           None(t) == \A n \in 1..Len(t) : t[n].su # k
           T == {t \in Seq(S) : /\ None(t) => Len(OfKind(t, k)) = 0
                                /\ Alone(t, k) => Len(OfKind(t, k)) <= 1}
<1>1. <<>> \in T
  BY OfKindEmpty
<1>2. ASSUME NEW t \in Seq(S), NEW e \in S, t \in T PROVE Append(t, e) \in T
  <2> DEFINE v == Append(t, e)
             o == OfKind(t, k)
  <2>1. v \in Seq(S) /\ Len(v) = Len(t) + 1 /\ Len(t) \in Nat /\ v[Len(t) + 1] = e
    OBVIOUS
  <2>2. \A n \in 1..Len(t) : v[n] = t[n]
    OBVIOUS
  <2>3. OfKind(v, k) = IF e.su = k THEN Append(o, e) ELSE o
    BY OfKindAppend
  <2>4. o \in Seq(K) /\ (e.su = k => e \in K)
    BY OfKindType
  <2>5. (None(t) => Len(o) = 0) /\ (Alone(t, k) => Len(o) <= 1)
    BY <1>2
  <2> HIDE DEF v, o, K
  <2>6. Len(o) \in Nat /\ (e.su = k => Len(OfKind(v, k)) = Len(o) + 1)
                       /\ (e.su # k => Len(OfKind(v, k)) = Len(o))
    BY <2>3, <2>4
  <2>7. \A n \in 1..Len(t) : n \in 1..Len(v) /\ n \in 1..((Len(t) + 1) - 1)
    BY <2>1
  <2>8. Len(t) + 1 \in 1..Len(v) /\ \A n \in 1..Len(t) : \A m \in 1..(n - 1) : m \in 1..Len(t)
    BY <2>1
  <2>9. None(v) => None(t) /\ e.su # k
    BY <2>1, <2>2, <2>7, <2>8
  <2>10. Alone(v, k) => Alone(t, k)
    BY <2>1, <2>2, <2>7, <2>8 DEF Alone
  <2>11. Alone(v, k) /\ e.su = k => None(t)
    BY <2>1, <2>2, <2>7, <2>8 DEF Alone
  <2> HIDE DEF None
  <2>12. None(v) => Len(OfKind(v, k)) = 0
    BY <2>5, <2>6, <2>9
  <2>13. Alone(v, k) => Len(OfKind(v, k)) <= 1
    BY <2>5, <2>6, <2>10, <2>11
  <2>14. v \in T
    BY <2>1, <2>12, <2>13
  <2>15. QED
    BY <2>14 DEF v
<1> HIDE DEF T
<1>3. \A t \in Seq(S) : t \in T
  BY <1>1, <1>2, SeqInduction
<1>4. s \in T /\ OfKind(s, k) \in Seq(K)
  BY <1>3, OfKindType
<1>5. Len(OfKind(s, k)) <= 1
  BY <1>4 DEF T
<1> HIDE DEF K
<1>6. QED
  BY <1>4, <1>5

ByKind(s) == [k \in Kinds |-> OfKind(s, k)]

\* An area weighs what its entries by kind weigh, and its PN entries.
LEMMA AreaWeight ==
  ASSUME NEW s, s \in Seq(Whole)
  PROVE  /\ ByKind(s) \in Lists(Whole)
         /\ AreaLength(s) = Weight(ByKind(s)) + AreaLength(OfKind(s, "PN"))
<1>0. HasLengths(Whole)
  BY WholeHas
<1>1. ASSUME NEW t, t \in Seq(Whole) PROVE ByKind(t) \in Lists(Whole)
  <2>1. ASSUME NEW k \in Kinds PROVE OfKind(t, k) \in Seq(OfSu(Whole, k)) /\ OfKind(t, k) \in Seq(Whole)
    <3>1. OfKind(t, k) \in Seq(OfSu(Whole, k))
      BY <1>1, OfKindType DEF OfSu
    <3>2. OfSu(Whole, k) \subseteq Whole
      BY DEF OfSu
    <3>3. QED
      BY ONLY <3>1, <3>2
  <2>2. QED
    BY <2>1 DEF ByKind, Lists
<1> DEFINE T == {t \in Seq(Whole) : AreaLength(t) = Weight(ByKind(t)) + AreaLength(OfKind(t, "PN"))}
<1>2. <<>> \in T
  <2>1. <<>> \in Seq(Whole)
    OBVIOUS
  <2>2. \A i \in 1..16 : AreaLength(ByKind(<<>>)[RecordOrder[i]]) = 0
    BY Order, OfKindEmpty, AreaEmpty DEF ByKind
  <2>3. PICK w : WeighedBy(w, ByKind(<<>>))
    BY <1>0, <1>1, <2>1, WeightIs
  <2>4. w[0] = 0 /\ \A i \in 1..16 : w[i] = w[i - 1] + 0
    BY <2>2, <2>3 DEF WeighedBy
  <2> DEFINE U == {m \in 0..16 : w[m] = 0}
  <2>5. 0 \in U
    BY <2>4
  <2>6. ASSUME NEW m \in 0..(16 - 1), m \in U PROVE m + 1 \in U
    <3>1. m + 1 \in 1..16 /\ (m + 1) - 1 = m /\ w[m] = 0 /\ m + 1 \in 0..16
      BY <2>6
    <3>2. w[m + 1] = w[m] + 0
      BY <2>4, <3>1
    <3>3. QED
      BY <3>1, <3>2
  <2> HIDE DEF U
  <2>7. \A m \in 0..16 : m \in U
    BY <2>5, <2>6, UpTo
  <2>8. w[16] = 0
    BY <2>7 DEF U
  <2>9. Weight(ByKind(<<>>)) = 0
    BY <2>3, <2>8 DEF WeighedBy
  <2>10. QED
    BY <2>1, <2>9, AreaEmpty, OfKindEmpty
<1>3. ASSUME NEW t \in Seq(Whole), NEW e \in Whole, t \in T PROVE Append(t, e) \in T
  <2> DEFINE v == Append(t, e)
             A == AreaLength(t)
             W == Weight(ByKind(t))
             V == Weight(ByKind(v))
             P == AreaLength(OfKind(t, "PN"))
             Q == AreaLength(OfKind(v, "PN"))
             l == e.len
  <2>1. v \in Seq(Whole)
    OBVIOUS
  <2>2. AreaLength(v) = A + l /\ l \in Nat /\ e.su \in Kinds
    BY <1>0, AreaAppend, WholeHas
  <2>3. ASSUME NEW k \in Kinds
        PROVE  /\ OfKind(v, k) = IF e.su = k THEN Append(OfKind(t, k), e) ELSE OfKind(t, k)
               /\ AreaLength(OfKind(t, k)) \in Nat
               /\ (e.su = k => AreaLength(OfKind(v, k)) = AreaLength(OfKind(t, k)) + l)
    <3>1. OfKind(v, k) = IF e.su = k THEN Append(OfKind(t, k), e) ELSE OfKind(t, k)
      BY OfKindAppend
    <3>2. OfKind(t, k) \in Seq(Whole)
      <4>1. ByKind(t) \in Lists(Whole)
        BY <1>1
      <4>2. ByKind(t)[k] \in Seq(Whole)
        BY <4>1, ListsHave
      <4>3. QED
        BY <4>2 DEF ByKind
    <3>3. AreaLength(Append(OfKind(t, k), e)) = AreaLength(OfKind(t, k)) + l
      BY <3>2, AreaAppend
    <3>4. QED
      BY <1>0, <3>1, <3>2, <3>3, AreaType
  <2>4. ByKind(t) \in Lists(Whole) /\ ByKind(v) \in Lists(Whole)
    BY <1>1, <2>1
  <2>5. A = W + P /\ W \in Nat
    BY <1>0, <1>3, <2>4, WeightIs
  <2>6. "PN" \in Kinds
    BY DEF Kinds
  <2>7. \A j \in Kinds \ {e.su} : ByKind(v)[j] = ByKind(t)[j]
    BY <2>3 DEF ByKind
  <2>8. CASE e.su = "PN"
    <3>1. \A i \in 1..16 : ByKind(v)[RecordOrder[i]] = ByKind(t)[RecordOrder[i]]
      BY <2>7, <2>8, Order
    <3>2. V = W
      BY <3>1 DEF Weight
    <3>3. Q = P + l /\ P \in Nat
      BY <2>3, <2>6, <2>8
    <3> HIDE DEF V, W, Q, P, A, l
    <3>4. A + l = V + Q
      BY ONLY <2>2, <2>5, <3>2, <3>3
    <3>5. QED
      BY <2>1, <2>2, <3>4 DEF V, Q
  <2>9. CASE e.su # "PN"
    <3> DEFINE x == AreaLength(OfKind(t, e.su))
    <3>1. V + x = W + AreaLength(OfKind(v, e.su))
      <4>1. e.su \in Kinds \ {"PN"}
        BY <2>2, <2>9
      <4>2. Weight(ByKind(v)) + AreaLength(ByKind(t)[e.su]) = Weight(ByKind(t)) + AreaLength(ByKind(v)[e.su])
        BY <1>0, <2>4, <2>7, <4>1, WeightPut
      <4>3. QED
        BY <2>2, <4>2 DEF ByKind
    <3>2. x \in Nat /\ AreaLength(OfKind(v, e.su)) = x + l
      BY <2>2, <2>3
    <3>3. Q = P /\ P \in Nat /\ V \in Nat
      BY <1>0, <2>3, <2>4, <2>6, <2>9, WeightIs
    <3>4. V + x = W + (x + l)
      BY <3>1, <3>2
    <3> HIDE DEF V, W, Q, P, A, l, x
    <3>5. A + l = V + Q
      BY ONLY <2>2, <2>5, <3>2, <3>3, <3>4
    <3>6. QED
      BY <2>1, <2>2, <3>5 DEF V, Q
  <2>10. QED
    BY <2>8, <2>9
<1> HIDE DEF T
<1>4. \A t \in Seq(Whole) : t \in T
  BY <1>2, <1>3, SeqInduction
<1>5. QED
  BY <1>1, <1>4 DEF T

-----------------------------------------------------------------------------
(* An object that is written and read again.                                *)

TellsNew(E) ==
  \/ E["ES"] # <<>>
  \/ \E i \in 1..Len(E["PX"]) : E["PX"][i].len = 44
  \/ \E i \in 1..Len(E["ER"]) : E["ER"][i].data = "IEEE_P1282"
Versions == {"1.09", "1.10", "1.12"}
LongSparse(E) == \E i \in 1..Len(E["SF"]) : E["SF"][i].len = 21

\* Where PX has the length of Rock Ridge 1.12, every area tells of 1.12;
\* where it has not, none does.
OneVersion(o) ==
  \A E \in {o.dr, o.ce} : \A i \in 1..Len(E["PX"]) :
    /\ E["PX"][i].len = PXLength(o.version)
    /\ IF E["PX"][i].len = 44
       THEN TellsNew(o.dr) /\ (o.dr["CE"] # <<>> => TellsNew(o.ce))
       ELSE ~TellsNew(o.dr) /\ ~TellsNew(o.ce) /\ ~LongSparse(o.dr) /\ ~LongSparse(o.ce)

Sound(o, first) ==
  /\ o = [version |-> o.version, dr |-> o.dr, ce |-> o.ce, name |-> NameOf(o.dr, o.ce)]
  /\ o.version \in Versions
  /\ o.dr \in Lists(Whole) /\ o.ce \in Lists(Whole)
  /\ \A k \in Kinds \ Many : Len(o.dr[k]) + Len(o.ce[k]) <= 1
  /\ o.dr["PN"] = <<>> /\ o.ce["PN"] = <<>> /\ o.ce["CE"] = <<>>
  /\ (o.dr["SP"] # <<>> \/ o.ce["SP"] # <<>>) => first
  /\ IF o.dr["CE"] = <<>> THEN o.ce = NoEntries ELSE Weight(o.ce) = o.dr["CE"][1].data
  /\ OneVersion(o)

TellsIn(s, E) == TellsNewVersion(s) <=> TellsNew(E)
\* What an area tells of the version depends on its lists only.
LEMMA Tells ==
  ASSUME NEW s, s \in Seq(Whole), NEW E, \A k \in Kinds \ {"PN"} : E[k] = OfKind(s, k)
  PROVE  TellsIn(s, E)
<1>1. "PX" \in Kinds \ {"PN"} /\ "ES" \in Kinds \ {"PN"} /\ "ER" \in Kinds \ {"PN"}
  BY DEF Kinds
<1>2. E["PX"] = OfKind(s, "PX") /\ E["ES"] = OfKind(s, "ES") /\ E["ER"] = OfKind(s, "ER")
  BY <1>1
<1>3. ASSUME TellsNewVersion(s) PROVE TellsNew(E)
  <2>1. PICK i \in 1..Len(s) :
          \/ s[i].su = "PX" /\ s[i].len = 44
          \/ s[i].su = "ES"
          \/ s[i].su = "ER" /\ s[i].data = "IEEE_P1282"
    BY <1>3 DEF TellsNewVersion
  <2>2. CASE s[i].su = "PX" /\ s[i].len = 44
    <3> DEFINE k == "PX"
    <3>1. s[i].su = k
      BY <2>2
    <3> HIDE DEF k
    <3>2. \E j \in 1..Len(OfKind(s, k)) : OfKind(s, k)[j] = s[i]
      BY ONLY s \in Seq(Whole), i \in 1..Len(s), <3>1, OfKindHas
    <3>3. \E j \in 1..Len(E["PX"]) : E["PX"][j] = s[i]
      BY <1>2, <3>2 DEF k
    <3>4. QED
      BY ONLY <2>2, <3>3 DEF TellsNew
  <2>3. CASE s[i].su = "ES"
    <3>1. PICK j \in 1..Len(OfKind(s, "ES")) : OfKind(s, "ES")[j] = s[i]
      BY <2>3, OfKindHas
    <3>2. OfKind(s, "ES") # <<>>
      BY <3>1
    <3>3. QED
      BY <1>2, <3>2 DEF TellsNew
  <2>4. CASE s[i].su = "ER" /\ s[i].data = "IEEE_P1282"
    <3>1. \E j \in 1..Len(OfKind(s, "ER")) : OfKind(s, "ER")[j] = s[i]
      BY <2>4, OfKindHas
    <3>2. QED
      BY <1>2, <2>4, <3>1 DEF TellsNew
  <2>5. QED
    BY <2>1, <2>2, <2>3, <2>4
<1>4. ASSUME TellsNew(E) PROVE TellsNewVersion(s)
  <2>1. CASE E["ES"] # <<>>
    <3>1. OfKind(s, "ES") \in Seq({e \in Whole : e.su = "ES"}) /\ OfKind(s, "ES") # <<>>
      BY <1>2, <2>1, OfKindType
    <3>2. 1 \in 1..Len(OfKind(s, "ES"))
      BY ONLY <3>1
    <3>3. \E i \in 1..Len(s) : s[i].su = "ES"
      BY <3>2, OfKindFrom
    <3>4. QED
      BY <3>3 DEF TellsNewVersion
  <2>2. CASE \E i \in 1..Len(E["PX"]) : E["PX"][i].len = 44
    <3>1. PICK j \in 1..Len(OfKind(s, "PX")) : OfKind(s, "PX")[j].len = 44
      BY <1>2, <2>2
    <3>2. \E i \in 1..Len(s) : s[i].su = "PX" /\ s[i].len = 44
      BY <3>1, OfKindFrom
    <3>3. QED
      BY <3>2 DEF TellsNewVersion
  <2>3. CASE \E i \in 1..Len(E["ER"]) : E["ER"][i].data = "IEEE_P1282"
    <3>1. PICK j \in 1..Len(OfKind(s, "ER")) : OfKind(s, "ER")[j].data = "IEEE_P1282"
      BY <1>2, <2>3
    <3>2. \E i \in 1..Len(s) : s[i].su = "ER" /\ s[i].data = "IEEE_P1282"
      BY <3>1, OfKindFrom
    <3>3. QED
      BY <3>2 DEF TellsNewVersion
  <2>4. QED
    BY <1>4, <2>1, <2>2, <2>3 DEF TellsNew
<1>5. QED
  BY <1>3, <1>4 DEF TellsIn

\* What the version is taken to be from an area with these lists.
Infers(version, E) ==
  /\ version \in Versions
  /\ TellsNew(E) => version = "1.12"
  /\ ~TellsNew(E) /\ ~LongSparse(E) => version # "1.12"
  /\ ~TellsNew(E) /\ E["SF"] = <<>> => version = "1.09"

\* What a concatenation consists of.
ConcatHas(S, p, f) ==
  /\ p \o f \in Seq(S) /\ Len(p) \in Nat /\ Len(f) \in Nat /\ Len(p \o f) = Len(p) + Len(f)
  /\ \A i \in 1..Len(p) : (p \o f)[i] = p[i]
  /\ \A i \in 1..Len(f) : (p \o f)[Len(p) + i] = f[i]
LEMMA Concats ==
  ASSUME NEW S, NEW p, NEW f, p \in Seq(S), f \in Seq(S)
  PROVE  ConcatHas(S, p, f)
<1>1. /\ p \o f \in Seq(S) /\ Len(p \o f) = Len(p) + Len(f)
      /\ \A i \in 1 .. Len(p) + Len(f) : (p \o f)[i] = IF i <= Len(p) THEN p[i] ELSE f[i - Len(p)]
  BY ConcatProperties
<1>2. Len(p) \in Nat /\ Len(f) \in Nat
  BY LenProperties
<1> DEFINE m == Len(p)
           n == Len(f)
           r == p \o f
<1>3. \A i \in 1..(m + n) : r[i] = IF i <= m THEN p[i] ELSE f[i - m]
  BY <1>1
<1>4. m \in Nat /\ n \in Nat
  BY <1>2
<1> HIDE DEF m, n, r
<1>5. \A i \in 1..m : r[i] = p[i]
  BY ONLY <1>3, <1>4
<1>6. \A i \in 1..n : r[m + i] = f[i]
  <2> TAKE i \in 1..n
  <2>1. m + i \in 1..(m + n) /\ ~(m + i <= m) /\ (m + i) - m = i
    BY ONLY <1>4
  <2>2. QED
    BY ONLY <1>3, <2>1
<1>7. QED
  BY ONLY <1>1, <1>2, <1>5, <1>6 DEF ConcatHas, m, n, r

LEMMA Filled ==
  ASSUME NEW f, Len(f) # 0
  PROVE  f # <<>>
<1>1. Len(<<>>) = 0
  OBVIOUS
<1>2. QED
  BY <1>1, Zenon

LEMMA OneLast ==
  ASSUME NEW S, NEW p, NEW f, p \in Seq(S), f \in Seq(S), Len(f) = 1
  PROVE  Len(p \o f) = Len(p) + 1 /\ Len(p) \in Nat /\ (p \o f)[Len(p) + 1] = f[1]
<1>1. ConcatHas(S, p, f)
  BY Concats
<1>2. 1 \in 1..Len(f)
  BY ONLY Len(f) = 1
<1>3. QED
  BY ONLY <1>1, <1>2, Len(f) = 1 DEF ConcatHas

LEMMA SubSeqOne ==
  ASSUME NEW S, NEW s, s \in Seq(S), NEW i, i \in 1..Len(s)
  PROVE  SubSeq(s, i, i) = <<s[i]>> /\ s[i] \in S
<1>1. s[i] \in S /\ i \in Int
  BY ElementOfSeq
<1>2. \A j \in i..i : s[j] \in S
  BY <1>1
<1>3. /\ SubSeq(s, i, i) \in Seq(S) /\ Len(SubSeq(s, i, i)) = IF i <= i THEN i - i + 1 ELSE 0
      /\ \A j \in 1 .. i - i + 1 : SubSeq(s, i, i)[j] = s[i + j - 1]
  BY <1>1, <1>2, SubSeqProperties
<1> DEFINE t == SubSeq(s, i, i)
<1> HIDE DEF t
<1>4. t \in Seq(S) /\ Len(t) = 1 /\ t[1] = s[i + 1 - 1] /\ i + 1 - 1 = i
  BY <1>1, <1>3 DEF t
<1>5. t = <<t[1]>>
  BY ONLY <1>4
<1>6. QED
  BY ONLY <1>1, <1>4, <1>5 DEF t

\* The entry after which nothing of its kind, and nothing else, comes.
AtEnd(s, F) == \E p : p \in Seq(Whole) /\ s = p \o F
\* An entry of the kind that is written last ends the area.
LEMMA LastAtEnd ==
  ASSUME NEW s, s \in Seq(Whole), NEW k, NEW F, F = OfKind(s, k), Len(F) <= 1, AtEnd(s, F),
         NEW i, i \in 1..Len(s), s[i].su = k
  PROVE  i = Len(s) /\ Len(F) = 1 /\ F[1] = s[i]
<1> DEFINE l == Len(F)
           r == Len(s)
<1>1. F \in Seq({e \in Whole : e.su = k})
  BY OfKindType
<1>2. F \in Seq(Whole) /\ l \in Nat /\ r \in Nat /\ \A j \in 1..l : F[j].su = k
  BY ONLY <1>1, s \in Seq(Whole)
<1>3. PICK j \in 1..l : F[j] = s[i]
  BY OfKindHas
<1> HIDE DEF l, r
<1>4. l = 1 /\ F[1] = s[i] /\ l <= 1
  <2>1. l <= 1
    BY DEF l
  <2>2. j = 1 /\ l = 1
    BY ONLY <1>2, <1>3, <2>1
  <2>3. QED
    BY <1>3, <2>2
<1>5. PICK p : p \in Seq(Whole) /\ s = p \o F
  BY DEF AtEnd
<1>6. s[r] = F[1] /\ r >= 1
  <2>1. Len(p \o F) = Len(p) + 1 /\ Len(p) \in Nat /\ (p \o F)[Len(p) + 1] = F[1]
    BY ONLY <1>2, <1>4, <1>5, OneLast DEF l
  <2>2. QED
    BY ONLY <1>5, <2>1 DEF r
<1>7. i \in 1..r
  BY DEF r
<1>8. ~(i < r)
  <2>1. ASSUME i < r PROVE FALSE
    <3>1. r \in 1..r /\ i \in 1..(r - 1)
      BY ONLY <1>2, <1>6, <1>7, <2>1
    <3>2. s[r].su = k
      BY <1>4, <1>6
    <3>3. Len(OfKind(s, k)) > 1
      BY <3>1, <3>2, OfKindTwo DEF r
    <3>4. l > 1
      BY <3>3 DEF l
    <3>5. QED
      BY ONLY <1>4, <3>4
  <2>2. QED
    BY <2>1
<1>9. i = r
  BY ONLY <1>2, <1>7, <1>8
<1>10. QED
  BY <1>4, <1>9 DEF l, r

\* The version inferred of an area, from the lists that it holds.
LEMMA VersionInferred ==
  ASSUME NEW s, s \in Seq(Whole), NEW E, \A k \in Kinds \ {"PN"} : E[k] = OfKind(s, k),
         Len(E["SF"]) <= 1, AtEnd(s, E["SF"]), NEW pad, pad \in {0, 1}
  PROVE  Infers(InferredVersion(s, pad), E)
<1> DEFINE F == E["SF"]
           sparse(n) == \E i \in 1..Len(s) :
             s[i].su = "SF" /\ AreaLength(SubSeq(s, i, Len(s))) + pad = n
<1>1. TellsIn(s, E)
  BY Tells
<1>2. F = OfKind(s, "SF") /\ Len(F) <= 1 /\ AtEnd(s, F)
  BY DEF Kinds
<1> HIDE DEF F
<1>3. ASSUME NEW n, sparse(n)
      PROVE  F # <<>> /\ \E m \in {12, 21} : n = m + pad /\ (m = 21 => LongSparse(E))
  <2>1. PICK i : i \in 1..Len(s) /\ s[i].su = "SF" /\ AreaLength(SubSeq(s, i, Len(s))) + pad = n
    BY <1>3
  <2>2. i = Len(s) /\ Len(F) = 1 /\ F[1] = s[i]
    BY <1>2, <2>1, LastAtEnd
  <2>3. SubSeq(s, i, i) = <<s[i]>> /\ s[i] \in Whole
    BY <2>1, SubSeqOne
  <2>4. AreaLength(<<s[i]>>) = s[i].len /\ s[i].len \in {12, 21}
    BY <2>1, <2>3, WholeHas, AreaOne
  <2>5. n = s[i].len + pad
    BY ONLY <2>1, <2>2, <2>3, <2>4
  <2>6. s[i].len = 21 => LongSparse(E)
    BY <2>2 DEF LongSparse, F
  <2>7. F # <<>>
    <3>1. Len(F) # 0
      BY ONLY <2>2
    <3>2. QED
      BY ONLY <3>1, Filled
  <2>8. QED
    BY ONLY <2>4, <2>5, <2>6, <2>7
<1>4. sparse(21) => LongSparse(E)
  <2>1. ASSUME sparse(21) PROVE LongSparse(E)
    <3>1. PICK m \in {12, 21} : 21 = m + pad /\ (m = 21 => LongSparse(E))
      BY <1>3, <2>1
    <3>2. pad \in {0, 1}
      OBVIOUS
    <3>3. m = 21
      BY ONLY <3>1, <3>2
    <3>4. QED
      BY <3>1, <3>3
  <2>2. QED
    BY <2>1
<1>5. sparse(21) \/ sparse(12) => F # <<>>
  BY <1>3
<1>6. InferredVersion(s, pad) = IF TellsNewVersion(s) \/ sparse(21) THEN "1.12"
                                ELSE IF sparse(12) THEN "1.10" ELSE "1.09"
  BY DEF InferredVersion
<1> HIDE DEF sparse
<1>7. QED
  BY <1>1, <1>4, <1>5, <1>6 DEF Infers, TellsIn, Versions, F

LEMMA VersionRead ==
  ASSUME NEW E, E \in Lists(Whole), NEW o, PXRight(o.version, E), Len(E["SF"]) <= 1,
         NEW pad, pad \in {0, 1}
  PROVE  Infers(InferredVersion(Record(o, E), pad), E)
<1>1. /\ Record(o, E) \in Seq(Whole)
      /\ \A k \in Kinds : OfKind(Record(o, E), k) = IF k = "PN" THEN <<>> ELSE E[k]
      /\ \E front \in Seq(Whole) : Record(o, E) = front \o E["SF"]
  <2>1. HasLengths(Whole) /\ AreEntries(Whole)
    BY WholeHas
  <2>2. QED
    BY <2>1, RecordHas
<1>2. AtEnd(Record(o, E), E["SF"])
  BY ONLY <1>1 DEF AtEnd
<1>3. \A k \in Kinds \ {"PN"} : E[k] = OfKind(Record(o, E), k)
  BY <1>1
<1>4. QED
  BY <1>1, <1>2, <1>3, VersionInferred

LEMMA SoundHas ==
  ASSUME NEW o, NEW first, Sound(o, first)
  PROVE  /\ PXRight(o.version, o.dr) /\ PXRight(o.version, o.ce)
         /\ Len(o.dr["SF"]) <= 1 /\ Len(o.ce["SF"]) <= 1
         /\ \A k \in Kinds : Len(o.dr[k]) \in Nat /\ Len(o.ce[k]) \in Nat
<1>1. \A k \in Kinds : Len(o.dr[k]) \in Nat /\ Len(o.ce[k]) \in Nat
  BY ListsHave DEF Sound
<1>2. "PX" \in Kinds \ Many /\ "SF" \in Kinds \ Many
  BY DEF Kinds, Many
<1>3. ASSUME NEW k \in Kinds \ Many PROVE Len(o.dr[k]) <= 1 /\ Len(o.ce[k]) <= 1
  <2> DEFINE m == Len(o.dr[k])
             n == Len(o.ce[k])
  <2>1. m \in Nat /\ n \in Nat /\ m + n <= 1
    BY <1>1 DEF Sound
  <2> HIDE DEF m, n
  <2>2. m <= 1 /\ n <= 1
    BY ONLY <2>1
  <2>3. QED
    BY <2>2 DEF m, n
<1>4. \A E \in {o.dr, o.ce} : \A i \in 1..Len(E["PX"]) : E["PX"][i].len = PXLength(o.version)
  BY DEF Sound, OneVersion
<1>5. Len(o.dr["PX"]) <= 1 /\ Len(o.ce["PX"]) <= 1 /\ Len(o.dr["SF"]) <= 1 /\ Len(o.ce["SF"]) <= 1
  BY ONLY <1>2, <1>3
<1>6. PXRight(o.version, o.dr) /\ PXRight(o.version, o.ce)
  BY ONLY <1>4, <1>5 DEF PXRight
<1>7. QED
  BY ONLY <1>1, <1>5, <1>6

\* The two areas that are written of an object.
Areas(o) == [dr |-> Record(o, o.dr), ce |-> IF o.dr["CE"] # <<>> THEN Record(o, o.ce) ELSE <<>>]
Once(o) == Parse(Unread, Areas(o).dr, FALSE)
Again(o) == ReadAreas(Areas(o).dr, Areas(o).ce)

\* What an area has of each kind, and how long it is.
Holds(s, E) ==
  /\ s \in Seq(Whole) /\ AreaLength(s) = Weight(E)
  /\ \A k \in Kinds : OfKind(s, k) = E[k]
\* Nothing is lost or added by writing: the areas hold the lists of the object.
LEMMA AreasHold ==
  ASSUME NEW o, NEW first, Sound(o, first)
  PROVE  /\ Holds(Record(o, o.dr), o.dr) /\ Holds(Record(o, o.ce), o.ce)
         /\ Holds(Areas(o).dr, o.dr) /\ Holds(Areas(o).ce, o.ce)
<1>1. o.dr \in Lists(Whole) /\ o.ce \in Lists(Whole) /\ o.dr["PN"] = <<>> /\ o.ce["PN"] = <<>>
  BY DEF Sound
<1>2. Holds(Record(o, o.dr), o.dr)
  BY <1>1, SoundHas, WholeHas, RecordHas DEF Holds
<1>3. Holds(Record(o, o.ce), o.ce)
  BY <1>1, SoundHas, WholeHas, RecordHas DEF Holds
<1>4. CASE o.dr["CE"] # <<>>
  BY <1>2, <1>3, <1>4 DEF Areas
<1>5. CASE o.dr["CE"] = <<>>
  <2>1. o.ce = NoEntries /\ Areas(o).ce = <<>>
    BY <1>5 DEF Sound, Areas
  <2>2. \A k \in Kinds : OfKind(<<>>, k) = <<>> /\ o.ce[k] = <<>>
    BY <2>1, OfKindEmpty DEF NoEntries
  <2>3. <<>> \in Seq(Whole)
    OBVIOUS
  <2>4. "PN" \in Kinds
    BY DEF Kinds
  <2>5. ByKind(<<>>) = o.ce
    BY <2>1, <2>2 DEF ByKind, NoEntries
  <2>6. AreaLength(<<>>) = Weight(o.ce) + AreaLength(<<>>) /\ Weight(o.ce) \in Nat
    BY <1>1, <2>2, <2>3, <2>4, <2>5, AreaWeight, WeightIs, WholeHas
  <2>7. AreaLength(<<>>) = Weight(o.ce)
    BY <2>6, AreaEmpty
  <2>8. Holds(<<>>, o.ce)
    BY <2>2, <2>3, <2>7 DEF Holds
  <2>9. QED
    BY <1>2, <1>3, <2>1, <2>8 DEF Areas
<1>6. QED
  BY <1>4, <1>5

\* What is read of an object that was written: the same entries, and a
\* version that the area read last tells of.
LEMMA OnceIs ==
  ASSUME NEW o, NEW first, Sound(o, first)
  PROVE  /\ Once(o).dr = o.dr /\ Once(o).ce = NoEntries
         /\ Infers(Once(o).version, o.dr)
         /\ Once(o) = [version |-> Once(o).version, dr |-> Once(o).dr, ce |-> Once(o).ce,
                       name |-> NameOf(Once(o).dr, Once(o).ce)]
<1> DEFINE s == Areas(o).dr
           pad == AreaLength(s) % 2
<1>1. Holds(s, o.dr) /\ s = Record(o, o.dr)
  BY AreasHold DEF Areas
<1>2. o.dr \in Lists(Whole)
  BY DEF Sound
<1>3. ASSUME NEW k \in Kinds PROVE NoEntries[k] \o OfKind(s, k) = o.dr[k]
  <2>1. o.dr[k] \in Seq(Whole) /\ OfKind(s, k) = o.dr[k] /\ NoEntries[k] = <<>>
    BY <1>1, <1>2, ListsHave DEF Holds, NoEntries
  <2>2. <<>> \o o.dr[k] = o.dr[k]
    BY <2>1, ConcatEmptySeq
  <2>3. QED
    BY ONLY <2>1, <2>2
<1>4. o.dr = [k \in Kinds |-> o.dr[k]]
  BY <1>2 DEF Lists
<1>5. [k \in Kinds |-> NoEntries[k] \o OfKind(s, k)] = o.dr
  BY ONLY <1>3, <1>4
<1>6. AreaLength(s) \in Nat
  BY <1>1, AreaType, WholeHas DEF Holds
<1>7. pad \in {0, 1}
  BY ONLY <1>6
<1>8. Infers(InferredVersion(s, pad), o.dr)
  BY <1>1, <1>2, <1>7, SoundHas, VersionRead
<1>9. Once(o) = [version |-> InferredVersion(s, pad), dr |-> o.dr, ce |-> NoEntries,
                 name |-> NameOf(o.dr, NoEntries)]
  <2> HIDE DEF s
  <2>1. Parse(Unread, s, FALSE) = [version |-> InferredVersion(s, pad), dr |-> o.dr, ce |-> NoEntries,
                                   name |-> NameOf(o.dr, NoEntries)]
    BY <1>5 DEF Parse, Unread
  <2>2. QED
    BY <2>1 DEF Once, s
<1> HIDE DEF s, pad
<1>10. QED
  BY <1>8, <1>9

Reread(p, o) ==
  /\ p.dr = o.dr /\ p.ce = o.ce /\ p.name = NameOf(o.dr, o.ce)
  /\ p = [version |-> p.version, dr |-> p.dr, ce |-> p.ce, name |-> p.name]
  /\ Infers(p.version, o.dr) \/ (o.dr["CE"] # <<>> /\ Infers(p.version, o.ce))

\* Reading what was written gives the lists and the name back.
LEMMA AgainIs ==
  ASSUME NEW o, NEW first, Sound(o, first)
  PROVE  Reread(Again(o), o)
<1> DEFINE t == Areas(o).ce
           once == Once(o)
           new == InferredVersion(t, 0)
<1>1. /\ once.dr = o.dr /\ once.ce = NoEntries /\ Infers(once.version, o.dr)
      /\ once = [version |-> once.version, dr |-> once.dr, ce |-> once.ce,
                 name |-> NameOf(once.dr, once.ce)]
  BY OnceIs
<1>2. Again(o) = IF once.dr["CE"] = <<>> THEN once ELSE Parse(once, t, TRUE)
  BY DEF Again, ReadAreas, Once
<1>3. CASE o.dr["CE"] = <<>>
  <2>1. o.ce = NoEntries
    BY <1>3 DEF Sound
  <2> HIDE DEF once, t
  <2>2. Again(o) = once
    BY ONLY <1>1, <1>2, <1>3
  <2>3. QED
    BY <1>1, <2>1, <2>2 DEF Reread
<1>4. CASE o.dr["CE"] # <<>>
  <2>1. Holds(t, o.ce) /\ t = Record(o, o.ce) /\ o.ce \in Lists(Whole)
    BY <1>4, AreasHold DEF Areas, Sound
  <2>2. Infers(new, o.ce)
    BY <2>1, SoundHas, VersionRead
  <2> HIDE DEF once, t, new
  <2>3. ASSUME NEW k \in Kinds PROVE once.ce[k] \o OfKind(t, k) = o.ce[k]
    <3>1. o.ce[k] \in Seq(Whole) /\ OfKind(t, k) = o.ce[k] /\ once.ce[k] = <<>>
      BY <1>1, <2>1, ListsHave DEF Holds, NoEntries
    <3>2. <<>> \o o.ce[k] = o.ce[k]
      BY <3>1, ConcatEmptySeq
    <3>3. QED
      BY ONLY <3>1, <3>2
  <2>4. o.ce = [k \in Kinds |-> o.ce[k]]
    BY <2>1 DEF Lists
  <2>5. [k \in Kinds |-> once.ce[k] \o OfKind(t, k)] = o.ce
    BY ONLY <2>3, <2>4
  <2>6. Parse(once, t, TRUE) = [version |-> new, dr |-> o.dr, ce |-> o.ce, name |-> NameOf(o.dr, o.ce)]
    BY <1>1, <2>5 DEF Parse, new
  <2>7. Again(o) = [version |-> new, dr |-> o.dr, ce |-> o.ce, name |-> NameOf(o.dr, o.ce)]
    BY ONLY <1>1, <1>2, <1>4, <2>6
  <2>8. QED
    BY <1>4, <2>2, <2>7 DEF Reread
<1>5. QED
  BY <1>3, <1>4

\* The object is sound again, and as new or as old as it was.
LEMMA SoundAgain ==
  ASSUME NEW o, NEW first, Sound(o, first)
  PROVE  /\ Sound(Again(o), first)
         /\ \A E \in {o.dr, o.ce} : E["PX"] # <<>> => PXLength(Again(o).version) = PXLength(o.version)
<1> DEFINE p == Again(o)
<1>1. Reread(p, o)
  BY AgainIs
<1> HIDE DEF p
<1>2. p.dr = o.dr /\ p.ce = o.ce /\ p.version \in Versions
  BY <1>1 DEF Reread, Infers
<1>3. p = [version |-> p.version, dr |-> p.dr, ce |-> p.ce, name |-> NameOf(p.dr, p.ce)]
  BY <1>1 DEF Reread
<1>4. ASSUME NEW E, E \in {o.dr, o.ce}, NEW i, i \in 1..Len(E["PX"])
      PROVE  PXLength(p.version) = E["PX"][i].len
  <2>1. /\ E["PX"][i].len = PXLength(o.version)
        /\ IF E["PX"][i].len = 44
           THEN TellsNew(o.dr) /\ (o.dr["CE"] # <<>> => TellsNew(o.ce))
           ELSE ~TellsNew(o.dr) /\ ~TellsNew(o.ce) /\ ~LongSparse(o.dr) /\ ~LongSparse(o.ce)
    BY <1>4 DEF Sound, OneVersion
  <2>2. E["PX"][i].len = 44 => p.version = "1.12"
    BY <1>1, <2>1 DEF Reread, Infers
  <2>3. E["PX"][i].len # 44 => p.version # "1.12"
    BY <1>1, <2>1 DEF Reread, Infers
  <2>4. E["PX"][i].len \in {36, 44}
    BY <2>1 DEF PXLength
  <2>5. QED
    BY <2>2, <2>3, <2>4 DEF PXLength
<1>5. OneVersion(p)
  <2>1. \A E \in {p.dr, p.ce} : \A i \in 1..Len(E["PX"]) :
          /\ E["PX"][i].len = PXLength(o.version) /\ E["PX"][i].len = PXLength(p.version)
          /\ IF E["PX"][i].len = 44
             THEN TellsNew(p.dr) /\ (p.dr["CE"] # <<>> => TellsNew(p.ce))
             ELSE ~TellsNew(p.dr) /\ ~TellsNew(p.ce) /\ ~LongSparse(p.dr) /\ ~LongSparse(p.ce)
    BY <1>2, <1>4 DEF Sound, OneVersion
  <2>2. QED
    BY <2>1 DEF OneVersion
<1>6. Sound(p, first)
  BY <1>2, <1>3, <1>5 DEF Sound
<1>7. ASSUME NEW E, E \in {o.dr, o.ce}, E["PX"] # <<>> PROVE PXLength(p.version) = PXLength(o.version)
  <2>1. "PX" \in Kinds /\ o.dr \in Lists(Whole) /\ o.ce \in Lists(Whole)
    BY DEF Kinds, Sound
  <2>2. E["PX"] \in Seq(Whole)
    BY <1>7, <2>1, ListsHave
  <2>3. 1 \in 1..Len(E["PX"])
    BY ONLY <1>7, <2>2, EmptySeq
  <2>4. PXLength(p.version) = E["PX"][1].len /\ E["PX"][1].len = PXLength(o.version)
    BY <1>4, <1>7, <2>3 DEF Sound, OneVersion
  <2>5. QED
    BY <2>4
<1>8. QED
  BY <1>6, <1>7 DEF p

\* Nothing that is written of a sound object is refused.
LEMMA AreasReadable ==
  ASSUME NEW o, NEW first, Sound(o, first)
  PROVE  Readable(Unread, Areas(o).dr, first) /\ Readable(Once(o), Areas(o).ce, first)
<1>1. Holds(Areas(o).dr, o.dr) /\ Holds(Areas(o).ce, o.ce)
  BY AreasHold
<1>2. \A k \in Kinds : Once(o).dr[k] = o.dr[k] /\ Once(o).ce[k] = <<>> /\ Unread.dr[k] = <<>> /\ Unread.ce[k] = <<>>
  BY OnceIs DEF NoEntries, Unread
<1>3. ASSUME NEW s, NEW E, NEW p, E \in Lists(Whole), Holds(s, E), E["SP"] # <<>> => first,
             \A k \in Kinds \ Many : Len(E[k]) <= 1 /\ (E[k] # <<>> => ~HasEntry(p, k))
      PROVE  Readable(p, s, first)
  <2> SUFFICES ASSUME NEW i \in 1..Len(s)
               PROVE  /\ Accepts(s[i])
                      /\ s[i].su = "SP" => first
                      /\ s[i].su \in Kinds \ Many =>
                           /\ ~HasEntry(p, s[i].su)
                           /\ \A j \in 1..(i - 1) : s[j].su # s[i].su
    BY DEF Readable
  <2>1. s \in Seq(Whole) /\ \A k \in Kinds : OfKind(s, k) = E[k]
    BY <1>3 DEF Holds
  <2>2. s[i] \in Whole
    BY <2>1, ElementOfSeq
  <2> DEFINE k == s[i].su
  <2>3. k \in Kinds /\ Accepts(s[i])
    BY <2>2, WholeHas
  <2>4. \E j \in 1..Len(OfKind(s, k)) : OfKind(s, k)[j] = s[i]
    BY <2>1, OfKindHas
  <2>5. E[k] # <<>>
    <3>1. OfKind(s, k) = E[k] /\ E[k] \in Seq(Whole)
      BY <1>3, <2>1, <2>3, ListsHave
    <3> HIDE DEF k
    <3>2. Len(E[k]) # 0
      BY ONLY <2>4, <3>1
    <3>3. QED
      BY ONLY <3>2, Filled
  <2>6. k = "SP" => first
    BY <1>3, <2>5
  <2>7. ASSUME k \in Kinds \ Many, NEW j \in 1..(i - 1), s[j].su = k PROVE FALSE
    <3>1. Len(OfKind(s, k)) > 1
      BY <2>1, <2>7, OfKindTwo
    <3>2. Len(E[k]) <= 1 /\ Len(E[k]) \in Nat /\ OfKind(s, k) = E[k]
      BY <1>3, <2>1, <2>7, ListsHave
    <3>3. QED
      BY ONLY <3>1, <3>2
  <2>8. k \in Kinds \ Many => ~HasEntry(p, k)
    BY <1>3, <2>5
  <2>9. QED
    BY <2>3, <2>6, <2>7, <2>8
<1>4. o.dr \in Lists(Whole) /\ o.ce \in Lists(Whole) /\ (o.dr["SP"] # <<>> => first) /\ (o.ce["SP"] # <<>> => first)
  BY DEF Sound
<1>5. ASSUME NEW k \in Kinds \ Many
      PROVE  Len(o.dr[k]) <= 1 /\ Len(o.ce[k]) <= 1 /\ (o.ce[k] # <<>> => o.dr[k] = <<>>)
  <2> DEFINE x == o.dr[k]
             y == o.ce[k]
             m == Len(x)
             n == Len(y)
  <2>1. m \in Nat /\ n \in Nat /\ m + n <= 1 /\ x \in Seq(Whole) /\ y \in Seq(Whole)
    BY <1>4, ListsHave DEF Sound
  <2> HIDE DEF x, y
  <2>2. y # <<>> => n # 0
    BY <2>1, EmptySeq
  <2>3. m = 0 => x = <<>>
    BY <2>1, EmptySeq
  <2> HIDE DEF m, n
  <2>4. m <= 1 /\ n <= 1 /\ (y # <<>> => x = <<>>)
    BY ONLY <2>1, <2>2, <2>3
  <2>5. QED
    BY <2>4 DEF m, n, x, y
<1>6. Readable(Unread, Areas(o).dr, first)
  <2>1. \A k \in Kinds \ Many : Len(o.dr[k]) <= 1 /\ (o.dr[k] # <<>> => ~HasEntry(Unread, k))
    BY <1>2, <1>5 DEF HasEntry
  <2>2. QED
    BY <1>1, <1>3, <1>4, <2>1
<1>7. Readable(Once(o), Areas(o).ce, first)
  <2>1. \A k \in Kinds \ Many : Len(o.ce[k]) <= 1 /\ (o.ce[k] # <<>> => ~HasEntry(Once(o), k))
    BY <1>2, <1>5 DEF HasEntry
  <2>2. QED
    BY <1>1, <1>3, <1>4, <2>1
<1>8. QED
  BY <1>6, <1>7

-----------------------------------------------------------------------------
(* The changes of an object: the link count, the blocks of CL and PL.       *)

SetData(E, k, n) == [E EXCEPT ![k][1].data = n]
DataSet(E, F, k, n) ==
  /\ F \in Lists(Whole) /\ Weight(F) = Weight(E)
  /\ \A j \in Kinds \ {k} : F[j] = E[j]
  /\ F[k] = <<[E[k][1] EXCEPT !.data = n]>> /\ Len(E[k]) = 1 /\ Len(F[k]) = 1
  /\ F[k][1].su = k /\ E[k][1].su = k /\ F[k][1].len = E[k][1].len /\ F[k][1].data = n

LEMMA OneOf ==
  ASSUME NEW S, NEW s, s \in Seq(S), Len(s) <= 1, s # <<>>
  PROVE  Len(s) = 1 /\ s = <<s[1]>> /\ s[1] \in S
<1> DEFINE l == Len(s)
<1>1. l \in Nat \ {0} /\ l <= 1
  BY EmptySeq
<1> HIDE DEF l
<1>2. l = 1
  BY ONLY <1>1
<1>3. Len(s) = 1
  BY <1>2 DEF l
<1>4. QED
  BY ONLY <1>3, s \in Seq(S)

LEMMA SetDataIs ==
  ASSUME NEW E, E \in Lists(Whole), NEW k, k \in {"PX", "CL", "PL"}, NEW n, n \in Nat,
         Len(E[k]) <= 1, E[k] # <<>>
  PROVE  DataSet(E, SetData(E, k, n), k, n)
<1> DEFINE F == SetData(E, k, n)
           e == E[k][1]
           f == [e EXCEPT !.data = n]
<1>1. k \in Kinds \ {"PN"} /\ k \in Kinds
  BY DEF Kinds
<1>2. E[k] \in Seq(Whole) /\ E[k] \in Seq(OfSu(Whole, k))
  BY <1>1, ListsHave
<1>3. Len(E[k]) = 1 /\ E[k] = <<e>> /\ e \in Whole
  BY ONLY <1>2, Len(E[k]) <= 1, E[k] # <<>>, OneOf
<1>4. e \in OfSu(Whole, k)
  BY ONLY <1>2, Len(E[k]) <= 1, E[k] # <<>>, OneOf
<1>5. E \in [Kinds -> Seq(Whole)] /\ \A j \in Kinds : E[j] \in Seq(OfSu(Whole, j))
  BY DEF Lists
<1> HIDE DEF e
<1>6. e.su = k /\ e.len \in 4..255 /\ e.sound = TRUE /\ Accepts(e)
      /\ e = [su |-> e.su, len |-> e.len, sound |-> e.sound, data |-> e.data]
  <2>1. e \in [su: Kinds, len: 4..255, sound: {TRUE}, data: Data] /\ Accepts(e) /\ e.su = k
    BY <1>4 DEF OfSu, Whole
  <2>2. QED
    BY ONLY <2>1
<1>7. f = [su |-> e.su, len |-> e.len, sound |-> e.sound, data |-> n]
  BY ONLY <1>6
<1> HIDE DEF f
<1>8. f.su = k /\ f.len = e.len /\ f.sound = TRUE /\ f.data = n
  BY ONLY <1>6, <1>7
<1>9. Accepts(f)
  BY ONLY <1>6, <1>8 DEF Accepts
<1>10. n \in Data
  BY DEF Data
<1>11. f \in [su: Kinds, len: 4..255, sound: {TRUE}, data: Data]
  BY ONLY <1>1, <1>6, <1>7, <1>10
<1>12. f \in OfSu(Whole, k) /\ f \in Whole
  BY <1>8, <1>9, <1>11 DEF Whole, OfSu
<1>13. F = [j \in Kinds |-> IF j = k THEN <<f>> ELSE E[j]]
  <2>1. [<<e>> EXCEPT ![1].data = n] = <<[e EXCEPT !.data = n]>>
    OBVIOUS
  <2>2. [E EXCEPT ![k] = <<f>>] = [j \in Kinds |-> IF j = k THEN <<f>> ELSE E[j]]
    BY ONLY <1>5
  <2>3. [E[k] EXCEPT ![1].data = n] = <<f>>
    BY <1>3, <2>1 DEF f
  <2>4. F = [E EXCEPT ![k] = [E[k] EXCEPT ![1].data = n]]
    BY DEF SetData
  <2>5. QED
    BY ONLY <2>2, <2>3, <2>4
<1> HIDE DEF F
<1>14. F[k] = <<f>> /\ \A j \in Kinds \ {k} : F[j] = E[j]
  BY <1>1, <1>13
<1>15. <<f>> \in Seq(Whole) /\ <<f>> \in Seq(OfSu(Whole, k)) /\ Len(<<f>>) = 1 /\ <<f>>[1] = f
  BY ONLY <1>12
<1>16. F \in Lists(Whole)
  <2>1. \A j \in Kinds : F[j] \in Seq(Whole) /\ F[j] \in Seq(OfSu(Whole, j))
    BY <1>5, <1>14, <1>15
  <2>2. F = [j \in Kinds |-> F[j]]
    BY <1>13
  <2>3. QED
    BY <2>1, <2>2 DEF Lists
<1>17. Weight(F) = Weight(E)
  <2> DEFINE x == AreaLength(E[k])
             y == AreaLength(F[k])
             v == Weight(E)
             w == Weight(F)
  <2>1. w + x = v + y
    BY <1>1, <1>14, <1>16, WholeHas, WeightPut
  <2>2. x = e.len /\ y = e.len /\ x \in Nat
    <3>1. e.len \in Nat
      BY <1>3, WholeHas
    <3>2. AreaLength(<<e>>) = e.len /\ AreaLength(<<f>>) = f.len
      BY <1>8, <3>1, AreaOne
    <3>3. QED
      BY <1>3, <1>8, <1>14, <3>1, <3>2
  <2>3. v \in Nat /\ w \in Nat
    BY <1>16, WholeHas, WeightIs
  <2> HIDE DEF x, y, v, w
  <2>4. w = v
    BY ONLY <2>1, <2>2, <2>3
  <2>5. QED
    BY <2>4 DEF v, w
<1>18. F[k] = <<[E[k][1] EXCEPT !.data = n]>>
  BY <1>14 DEF e, f
<1>19. F[k][1].su = k /\ F[k][1].len = E[k][1].len /\ F[k][1].data = n /\ E[k][1].su = k
  BY <1>6, <1>8, <1>14, <1>15 DEF e
<1>20. QED
  BY <1>3, <1>14, <1>15, <1>16, <1>17, <1>18, <1>19 DEF DataSet, F

\* The object with the block or the count changed where it is.
Put1(o, k, n) == IF o.dr[k] # <<>> THEN [o EXCEPT !.dr[k][1].data = n]
                                   ELSE [o EXCEPT !.ce[k][1].data = n]
Changed(o, p, k, n) ==
  /\ p = [version |-> o.version, dr |-> p.dr, ce |-> p.ce, name |-> o.name]
  /\ \/ p.dr = o.dr /\ o.dr[k] = <<>> /\ DataSet(o.ce, p.ce, k, n)
     \/ p.ce = o.ce /\ o.dr[k] # <<>> /\ DataSet(o.dr, p.dr, k, n)
LEMMA ChangedIs ==
  ASSUME NEW o, NEW first, Sound(o, first), NEW k, k \in {"PX", "CL", "PL"}, HasEntry(o, k),
         NEW n, n \in Nat
  PROVE  Changed(o, Put1(o, k, n), k, n)
<1> DEFINE p == Put1(o, k, n)
<1>0. o = [version |-> o.version, dr |-> o.dr, ce |-> o.ce, name |-> o.name]
  <2>1. o = [version |-> o.version, dr |-> o.dr, ce |-> o.ce, name |-> NameOf(o.dr, o.ce)]
    BY DEF Sound
  <2>2. QED
    BY ONLY <2>1
<1>1. k \in Kinds \ Many /\ o.dr \in Lists(Whole) /\ o.ce \in Lists(Whole) /\ k \in Kinds
  BY DEF Kinds, Many, Sound
<1>2. Len(o.dr[k]) <= 1 /\ Len(o.ce[k]) <= 1
  <2> DEFINE x == Len(o.dr[k])
             y == Len(o.ce[k])
  <2>1. x \in Nat /\ y \in Nat /\ x + y <= 1
    BY <1>1, SoundHas DEF Sound
  <2> HIDE DEF x, y
  <2>2. x <= 1 /\ y <= 1
    BY ONLY <2>1
  <2>3. QED
    BY <2>2 DEF x, y
<1>3. CASE o.dr[k] # <<>>
  <2>1. p = [version |-> o.version, dr |-> SetData(o.dr, k, n), ce |-> o.ce, name |-> o.name]
    <3>1. p = [o EXCEPT !.dr = SetData(o.dr, k, n)]
      BY <1>3 DEF Put1, SetData
    <3>2. QED
      BY ONLY <1>0, <3>1
  <2>2. DataSet(o.dr, SetData(o.dr, k, n), k, n)
    BY <1>1, <1>2, <1>3, SetDataIs
  <2> HIDE DEF p
  <2>3. p.dr = SetData(o.dr, k, n) /\ p.ce = o.ce /\ p = [version |-> o.version, dr |-> p.dr, ce |-> p.ce, name |-> o.name]
    BY ONLY <2>1
  <2>4. QED
    BY <1>3, <2>2, <2>3 DEF Changed, p
<1>4. CASE o.dr[k] = <<>>
  <2>1. p = [version |-> o.version, dr |-> o.dr, ce |-> SetData(o.ce, k, n), name |-> o.name]
    <3>1. p = [o EXCEPT !.ce = SetData(o.ce, k, n)]
      BY <1>4 DEF Put1, SetData
    <3>2. QED
      BY ONLY <1>0, <3>1
  <2>2. DataSet(o.ce, SetData(o.ce, k, n), k, n)
    <3>1. o.ce[k] # <<>>
      BY <1>4 DEF HasEntry
    <3>2. QED
      BY <1>1, <1>2, <3>1, SetDataIs
  <2> HIDE DEF p
  <2>3. p.ce = SetData(o.ce, k, n) /\ p.dr = o.dr /\ p = [version |-> o.version, dr |-> p.dr, ce |-> p.ce, name |-> o.name]
    BY ONLY <2>1
  <2>4. QED
    BY <1>4, <2>2, <2>3 DEF Changed, p
<1>5. QED
  BY <1>3, <1>4

\* Lists that have the same lengths of every kind, and the same entries but
\* for the data of one kind.
Alike(E, F, k) ==
  /\ F \in Lists(Whole) /\ Weight(F) = Weight(E)
  /\ \A j \in Kinds \ {k} : F[j] = E[j]
  /\ Len(F[k]) = Len(E[k]) /\ (F[k] = <<>> <=> E[k] = <<>>)
  /\ \A i \in 1..Len(E[k]) : F[k][i].len = E[k][i].len
  /\ \A j \in Kinds : SameEntries(F[j], E[j])
LEMMA AlikeIs ==
  ASSUME NEW E, NEW F, E \in Lists(Whole), NEW k, k \in {"PX", "CL", "PL"}, NEW n,
         F = E \/ DataSet(E, F, k, n)
  PROVE  Alike(E, F, k)
<1>1. \A j \in Kinds : SameEntries(E[j], E[j])
  BY DEF SameEntries
<1>2. CASE F = E
  BY <1>1, <1>2 DEF Alike
<1>3. CASE DataSet(E, F, k, n)
  <2>1. /\ F \in Lists(Whole) /\ Weight(F) = Weight(E)
        /\ \A j \in Kinds \ {k} : F[j] = E[j]
        /\ Len(E[k]) = 1 /\ Len(F[k]) = 1
        /\ F[k][1].su = k /\ E[k][1].su = k /\ F[k][1].len = E[k][1].len /\ F[k][1].data = n
        /\ F[k] = <<[E[k][1] EXCEPT !.data = n]>>
    BY <1>3 DEF DataSet
  <2>2. F[k] # <<>> /\ E[k] # <<>>
    <3>1. Len(F[k]) # 0 /\ Len(E[k]) # 0
      BY ONLY <2>1
    <3>2. QED
      BY ONLY <3>1, Filled
  <2>3. \A i \in 1..Len(E[k]) : i = 1
    BY ONLY <2>1
  <2> DEFINE e == E[k][1]
             f == F[k][1]
  <2>4. f = [e EXCEPT !.data = n]
    BY ONLY <2>1
  <2>5. k \in Kinds
    BY DEF Kinds
  <2>6. UpToOwn(f) = UpToOwn(e)
    <3>1. e.su = k /\ f.su = k
      BY <2>1
    <3> HIDE DEF e, f
    <3>2. UpToOwn(f) = [f EXCEPT !.data = 0] /\ UpToOwn(e) = [e EXCEPT !.data = 0]
      BY <3>1 DEF UpToOwn
    <3>3. e.su = e.su
      OBVIOUS
    <3>4. [[e EXCEPT !.data = n] EXCEPT !.data = 0] = [e EXCEPT !.data = 0]
      OBVIOUS
    <3>5. QED
      BY ONLY <2>4, <3>2, <3>4
  <2>7. SameEntries(F[k], E[k])
    BY <2>1, <2>3, <2>6 DEF SameEntries
  <2>8. QED
    BY <1>1, <2>1, <2>2, <2>3, <2>7 DEF Alike
<1>4. QED
  BY <1>2, <1>3

Both(o, p, k) == Alike(o.dr, p.dr, k) /\ Alike(o.ce, p.ce, k)
LEMMA BothAlike ==
  ASSUME NEW o, NEW p, NEW first, Sound(o, first), NEW k, k \in {"PX", "CL", "PL"}, NEW n,
         Changed(o, p, k, n)
  PROVE  Both(o, p, k)
<1>1. o.dr \in Lists(Whole) /\ o.ce \in Lists(Whole)
  BY DEF Sound
<1>2. p.dr = o.dr \/ DataSet(o.dr, p.dr, k, n)
  BY DEF Changed
<1>3. p.ce = o.ce \/ DataSet(o.ce, p.ce, k, n)
  BY DEF Changed
<1>4. QED
  BY <1>1, <1>2, <1>3, AlikeIs DEF Both

LEMMA AlikeTells ==
  ASSUME NEW E, NEW F, NEW k, k \in {"PX", "CL", "PL"}, Alike(E, F, k)
  PROVE  (TellsNew(F) <=> TellsNew(E)) /\ (LongSparse(F) <=> LongSparse(E))
<1>1. F["ES"] = E["ES"] /\ F["ER"] = E["ER"] /\ F["SF"] = E["SF"]
  BY DEF Alike, Kinds
<1>2. Len(F["PX"]) = Len(E["PX"]) /\ \A i \in 1..Len(E["PX"]) : F["PX"][i].len = E["PX"][i].len
  <2>1. CASE k = "PX"
    BY <2>1 DEF Alike
  <2>2. CASE k # "PX"
    BY <2>2 DEF Alike, Kinds
  <2>3. QED
    BY <2>1, <2>2
<1>3. QED
  BY ONLY <1>1, <1>2 DEF TellsNew, LongSparse

\* A changed count or block leaves the object sound and as heavy as it was.
LEMMA SoundChanged ==
  ASSUME NEW o, NEW p, NEW first, Sound(o, first), NEW k, k \in {"PX", "CL", "PL"}, NEW n,
         Changed(o, p, k, n)
  PROVE  Sound(p, first) /\ Weight(p.dr) = Weight(o.dr)
<1>1. Alike(o.dr, p.dr, k) /\ Alike(o.ce, p.ce, k)
  BY BothAlike DEF Both
<1>2. p = [version |-> o.version, dr |-> p.dr, ce |-> p.ce, name |-> o.name]
  BY DEF Changed
<1>3. p.version = o.version /\ p.name = o.name
  BY ONLY <1>2
<1>4. k \in Kinds /\ k # "NM" /\ k # "PN" /\ k # "CE" /\ k # "SP"
  BY DEF Kinds
<1>5. \A j \in {"NM", "PN", "CE", "SP"} : p.dr[j] = o.dr[j] /\ p.ce[j] = o.ce[j]
  BY <1>1, <1>4 DEF Alike, Kinds
<1>6. o.name = NameOf(o.dr, o.ce)
  <2>1. o = [version |-> o.version, dr |-> o.dr, ce |-> o.ce, name |-> NameOf(o.dr, o.ce)]
    BY DEF Sound
  <2>2. QED
    BY ONLY <2>1
<1>7. NameOf(p.dr, p.ce) = NameOf(o.dr, o.ce)
  BY <1>5 DEF NameOf
<1>8. p = [version |-> p.version, dr |-> p.dr, ce |-> p.ce, name |-> NameOf(p.dr, p.ce)]
  BY ONLY <1>2, <1>3, <1>6, <1>7
<1>9. \A j \in Kinds : Len(p.dr[j]) = Len(o.dr[j]) /\ Len(p.ce[j]) = Len(o.ce[j])
  BY <1>1 DEF Alike
<1>10. \A j \in Kinds \ Many : Len(p.dr[j]) + Len(p.ce[j]) <= 1
  BY <1>9 DEF Sound
<1>11. p.dr["PN"] = <<>> /\ p.ce["PN"] = <<>> /\ p.ce["CE"] = <<>>
       /\ ((p.dr["SP"] # <<>> \/ p.ce["SP"] # <<>>) => first)
  BY <1>5 DEF Sound
<1>12. IF p.dr["CE"] = <<>> THEN p.ce = NoEntries ELSE Weight(p.ce) = p.dr["CE"][1].data
  <2>1. CASE p.dr["CE"] = <<>>
    <3>1. o.ce = NoEntries
      BY <1>5, <2>1 DEF Sound
    <3>2. Len(o.ce[k]) = 0
      BY <1>4, <3>1 DEF NoEntries
    <3>3. ~DataSet(o.ce, p.ce, k, n)
      BY <3>2 DEF DataSet
    <3>4. p.ce = o.ce
      BY <3>3 DEF Changed
    <3>5. QED
      BY <2>1, <3>1, <3>4
  <2>2. CASE p.dr["CE"] # <<>>
    BY <1>1, <1>5, <2>2 DEF Sound, Alike
  <2>3. QED
    BY <2>1, <2>2
<1>13. OneVersion(p)
  <2>1. /\ TellsNew(p.dr) <=> TellsNew(o.dr)
        /\ TellsNew(p.ce) <=> TellsNew(o.ce)
        /\ LongSparse(p.dr) <=> LongSparse(o.dr)
        /\ LongSparse(p.ce) <=> LongSparse(o.ce)
    BY <1>1, AlikeTells
  <2>2. p.dr["CE"] = o.dr["CE"]
    BY <1>5
  <2>3. ASSUME NEW E, NEW F, E \in {o.dr, o.ce}, Alike(E, F, k), NEW i \in 1..Len(F["PX"])
        PROVE  /\ F["PX"][i].len = PXLength(p.version)
               /\ IF F["PX"][i].len = 44
                  THEN TellsNew(p.dr) /\ (p.dr["CE"] # <<>> => TellsNew(p.ce))
                  ELSE ~TellsNew(p.dr) /\ ~TellsNew(p.ce) /\ ~LongSparse(p.dr) /\ ~LongSparse(p.ce)
    <3>1. i \in 1..Len(E["PX"]) /\ F["PX"][i].len = E["PX"][i].len
      <4>1. CASE k = "PX"
        BY <2>3, <4>1 DEF Alike
      <4>2. CASE k # "PX"
        BY <2>3, <4>2 DEF Alike, Kinds
      <4>3. QED
        BY <4>1, <4>2
    <3>2. /\ E["PX"][i].len = PXLength(o.version)
          /\ IF E["PX"][i].len = 44
             THEN TellsNew(o.dr) /\ (o.dr["CE"] # <<>> => TellsNew(o.ce))
             ELSE ~TellsNew(o.dr) /\ ~TellsNew(o.ce) /\ ~LongSparse(o.dr) /\ ~LongSparse(o.ce)
      BY <2>3, <3>1 DEF Sound, OneVersion
    <3>3. QED
      BY ONLY <1>3, <2>1, <2>2, <3>1, <3>2
  <2>4. QED
    BY <1>1, <2>3 DEF OneVersion
<1>14. Weight(p.dr) = Weight(o.dr) /\ p.dr \in Lists(Whole) /\ p.ce \in Lists(Whole)
  BY <1>1 DEF Alike
<1>15. p.version \in Versions
  BY <1>3 DEF Sound
<1>16. QED
  BY <1>8, <1>10, <1>11, <1>12, <1>13, <1>14, <1>15 DEF Sound

\* What the record of a request says.
PathSays(path, target) ==
  /\ Len(path) = Len(target)
  /\ \A i \in 1..Len(path) : LET c == target[i] IN
       IF c.kind = "text" THEN Spells(path[i], c.of, c.len)
       ELSE [t \in 1..Len(path[i]) |-> path[i][t].kind] =
              IF c.kind = "root" THEN <<>> ELSE <<c.kind>>
OneEntry(o, k) == Len(o.dr[k] \o o.ce[k]) = 1
Says(o, q) ==
  /\ Spells(o.name, 0, q.name) /\ PathSays(SymlinkPath(o), q.target)
  /\ OneEntry(o, "PX") /\ OneEntry(o, "TF")
  /\ HasEntry(o, "CL") <=> q.kind = "child_link"
  /\ HasEntry(o, "PL") <=> q.kind = "moved_dotdot"
  /\ HasEntry(o, "RE") <=> q.kind = "moved_dir"
  /\ ~HasEntry(o, "SF")
  /\ PXLength(o.version) = PXLength(q.version)
  /\ LinksOf(o) \in 1..MaxLinks

\* Nor does it change the name, the target and the kinds of entries.
LEMMA SaysChanged ==
  ASSUME NEW o, NEW p, NEW first, Sound(o, first), NEW q, Says(o, q),
         NEW k, k \in {"PX", "CL", "PL"}, NEW n, Changed(o, p, k, n), k = "PX" => n \in 1..MaxLinks
  PROVE  Says(p, q)
<1>1. Alike(o.dr, p.dr, k) /\ Alike(o.ce, p.ce, k)
  BY BothAlike DEF Both
<1>2. p = [version |-> o.version, dr |-> p.dr, ce |-> p.ce, name |-> o.name]
  BY DEF Changed
<1>3. p.version = o.version /\ p.name = o.name
  BY ONLY <1>2
<1>4. \A j \in {"SL", "TF", "RE", "SF"} : p.dr[j] = o.dr[j] /\ p.ce[j] = o.ce[j]
  BY <1>1 DEF Alike, Kinds
<1>5. \A j \in Kinds : HasEntry(p, j) <=> HasEntry(o, j)
  BY <1>1 DEF Alike, HasEntry
<1>6. SymlinkPath(p) = SymlinkPath(o)
  BY <1>4 DEF SymlinkPath
<1>7. OneEntry(p, "TF")
  BY <1>4 DEF Says, OneEntry
<1>8. OneEntry(p, "PX")
  <2>1. "PX" \in Kinds /\ o.dr \in Lists(Whole) /\ o.ce \in Lists(Whole) /\ p.dr \in Lists(Whole) /\ p.ce \in Lists(Whole)
    BY <1>1 DEF Kinds, Sound, Alike
  <2>2. \A E \in {o.dr, o.ce, p.dr, p.ce} : E["PX"] \in Seq(Whole)
    BY <2>1, ListsHave
  <2>3. /\ Len(o.dr["PX"] \o o.ce["PX"]) = Len(o.dr["PX"]) + Len(o.ce["PX"])
        /\ Len(p.dr["PX"] \o p.ce["PX"]) = Len(p.dr["PX"]) + Len(p.ce["PX"])
    BY <2>2, ConcatProperties
  <2>4. Len(p.dr["PX"]) = Len(o.dr["PX"]) /\ Len(p.ce["PX"]) = Len(o.ce["PX"])
    <3>1. CASE k = "PX"
      BY <1>1, <3>1 DEF Alike
    <3>2. CASE k # "PX"
      BY <1>1, <3>2 DEF Alike, Kinds
    <3>3. QED
      BY <3>1, <3>2
  <2>5. QED
    BY <2>3, <2>4 DEF Says, OneEntry
<1>9. LinksOf(p) \in 1..MaxLinks
  <2>1. CASE k = "PX"
    <3>1. CASE p.dr = o.dr /\ o.dr[k] = <<>> /\ DataSet(o.ce, p.ce, k, n)
      BY <2>1, <3>1 DEF LinksOf, DataSet
    <3>2. CASE p.ce = o.ce /\ o.dr[k] # <<>> /\ DataSet(o.dr, p.dr, k, n)
      <4>1. p.dr[k] # <<>>
        BY <1>1, <3>2 DEF Alike
      <4>2. QED
        BY <2>1, <3>2, <4>1 DEF LinksOf, DataSet
    <3>3. QED
      BY <3>1, <3>2 DEF Changed
  <2>2. CASE k # "PX"
    <3>1. p.dr["PX"] = o.dr["PX"] /\ p.ce["PX"] = o.ce["PX"]
      BY <1>1, <2>2 DEF Alike, Kinds
    <3>2. QED
      BY <3>1 DEF LinksOf, Says
  <2>3. QED
    BY <2>1, <2>2
<1>10. "CL" \in Kinds /\ "PL" \in Kinds /\ "RE" \in Kinds /\ "SF" \in Kinds
  BY DEF Kinds
<1>11. /\ HasEntry(p, "CL") <=> q.kind = "child_link"
       /\ HasEntry(p, "PL") <=> q.kind = "moved_dotdot"
       /\ HasEntry(p, "RE") <=> q.kind = "moved_dir"
       /\ ~HasEntry(p, "SF")
  BY <1>5, <1>10 DEF Says
<1>12. QED
  BY <1>3, <1>6, <1>7, <1>8, <1>9, <1>11 DEF Says

\* What a record says is the same after reading.
LEMMA SaysAgain ==
  ASSUME NEW o, NEW first, Sound(o, first), NEW q, Says(o, q)
  PROVE  Says(Again(o), q)
<1> DEFINE p == Again(o)
<1>1. p.dr = o.dr /\ p.ce = o.ce /\ p.name = o.name
  <2>1. Reread(p, o)
    BY AgainIs
  <2>2. o = [version |-> o.version, dr |-> o.dr, ce |-> o.ce, name |-> NameOf(o.dr, o.ce)]
    BY DEF Sound
  <2>3. o.name = NameOf(o.dr, o.ce)
    BY ONLY <2>2
  <2>4. QED
    BY <2>1, <2>3 DEF Reread
<1>2. PXLength(p.version) = PXLength(o.version)
  <2>1. o.dr["PX"] # <<>> \/ o.ce["PX"] # <<>>
    <3>1. ASSUME o.dr["PX"] = <<>>, o.ce["PX"] = <<>> PROVE FALSE
      <4>1. <<>> \o <<>> = <<>> /\ Len(<<>>) = 0
        OBVIOUS
      <4>2. Len(<<>> \o <<>>) = 1
        BY ONLY <3>1, Says(o, q) DEF Says, OneEntry
      <4>3. QED
        BY ONLY <4>1, <4>2
    <3>2. QED
      BY <3>1
  <2>2. QED
    BY <2>1, SoundAgain
<1> HIDE DEF p
<1>3. QED
  BY <1>1, <1>2 DEF Says, SymlinkPath, OneEntry, HasEntry, LinksOf, p

\* What another tool wrote.
Keeps(o, q) == \A k \in Kinds : SameEntries(o.dr[k], OfKind(q.dr, k)) /\ SameEntries(o.ce[k], OfKind(q.ce, k))
\* And of a record of another tool all entries are still kept.
LEMMA KeepsChanged ==
  ASSUME NEW o, NEW p, NEW first, Sound(o, first), NEW q, Keeps(o, q),
         NEW k, k \in {"PX", "CL", "PL"}, NEW n, Changed(o, p, k, n)
  PROVE  Keeps(p, q)
<1>1. Alike(o.dr, p.dr, k) /\ Alike(o.ce, p.ce, k)
  BY BothAlike DEF Both
<1>2. ASSUME NEW s, NEW t, NEW u, SameEntries(s, t), SameEntries(t, u) PROVE SameEntries(s, u)
  BY <1>2 DEF SameEntries
<1>3. \A j \in Kinds : SameEntries(p.dr[j], o.dr[j]) /\ SameEntries(p.ce[j], o.ce[j])
  BY <1>1 DEF Alike
<1>4. QED
  BY <1>2, <1>3 DEF Keeps

-----------------------------------------------------------------------------
(* Records of other tools.                                                  *)

LEMMA AcceptsWhole ==
  ASSUME NEW e, e = [su |-> e.su, len |-> e.len, sound |-> e.sound, data |-> e.data],
         e.sound \in BOOLEAN, e.len \in 0..255, Accepts(e), e.data \in Data
  PROVE  e \in Whole
<1>1. e.sound = TRUE
  BY DEF Accepts
<1>2. e.su \in Kinds /\ e.len >= 4
  BY DEF Accepts, Kinds
<1>3. e.len \in 4..255
  BY <1>2
<1>4. e \in [su: Kinds, len: 4..255, sound: {TRUE}, data: Data]
  BY ONLY e = [su |-> e.su, len |-> e.len, sound |-> e.sound, data |-> e.data], <1>1, <1>2, <1>3, e.data \in Data
<1>5. QED
  BY <1>4 DEF Whole

\* Every entry of an area that is accepted is whole.
LEMMA WholeArea ==
  ASSUME NEW s, IsArea(s), \A i \in 1..Len(s) : s[i].data \in Data, NEW p, NEW first, Readable(p, s, first)
  PROVE  s \in Seq(Whole)
<1>1. ASSUME NEW i \in 1..Len(s) PROVE s[i] \in Whole
  <2>1. /\ s[i] = [su |-> s[i].su, len |-> s[i].len, sound |-> s[i].sound, data |-> s[i].data]
        /\ s[i].sound \in BOOLEAN /\ s[i].len \in 0..255
    BY DEF IsArea
  <2>2. Accepts(s[i])
    BY DEF Readable
  <2>3. QED
    BY <2>1, <2>2, AcceptsWhole
<1> DEFINE l == Len(s)
<1>2. l \in Nat /\ s = [i \in 1..l |-> s[i]]
  BY DEF IsArea
<1> HIDE DEF l
<1>3. \A i \in 1..l : s[i] \in Whole
  BY <1>1 DEF l
<1>4. QED
  BY ONLY <1>2, <1>3

\* Of the kinds there may be one of, an area that is accepted has no second.
LEMMA ReadableAlone ==
  ASSUME NEW s, s \in Seq(Whole), NEW p, NEW first, Readable(p, s, first), NEW k, k \in Kinds \ Many
  PROVE  /\ Len(OfKind(s, k)) \in Nat /\ Len(OfKind(s, k)) <= 1
         /\ OfKind(s, k) # <<>> => ~HasEntry(p, k)
<1>1. Alone(s, k)
  BY DEF Readable, Alone
<1>2. Len(OfKind(s, k)) \in Nat /\ Len(OfKind(s, k)) <= 1
  BY <1>1, OfKindOne
<1>3. ASSUME OfKind(s, k) # <<>> PROVE ~HasEntry(p, k)
  <2>1. OfKind(s, k) \in Seq({e \in Whole : e.su = k})
    BY OfKindType
  <2>2. 1 \in 1..Len(OfKind(s, k))
    BY ONLY <1>3, <2>1, EmptySeq
  <2>3. PICK i : i \in 1..Len(s) /\ s[i].su = k
    <3>1. OfKind(s, k)[1].su = k /\ \E i \in 1..Len(s) : s[i] = OfKind(s, k)[1]
      BY <2>2, OfKindFrom
    <3>2. QED
      BY <3>1
  <2>4. QED
    BY <2>3 DEF Readable
<1>4. QED
  BY <1>2, <1>3

Taken(o, f, once) ==
  /\ once.dr = ByKind(f.dr) /\ once.ce = NoEntries
  /\ o.dr = ByKind(f.dr) /\ o.ce = ByKind(f.ce)
  /\ o = [version |-> o.version, dr |-> o.dr, ce |-> o.ce, name |-> NameOf(o.dr, o.ce)]
  /\ o.version \in Versions
  /\ f.dr \in Seq(Whole) /\ f.ce \in Seq(Whole)
  /\ o.dr["CE"] = <<>> => f.ce = <<>>

LEMMA InferredOne ==
  ASSUME NEW s, NEW pad
  PROVE  InferredVersion(s, pad) \in Versions
BY Zenon DEF InferredVersion, Versions

\* The object that is read of another tool's record has its entries by kind.
LEMMA ForeignTaken ==
  ASSUME NEW f, f \in Foreign, NEW once, once = Parse(Unread, f.dr, FALSE),
         Readable(Unread, f.dr, FALSE), Readable(once, f.ce, FALSE)
  PROVE  Taken(ReadAreas(f.dr, f.ce), f, once)
<1> DEFINE o == ReadAreas(f.dr, f.ce)
<1>1. IsForeign(f)
  BY RockRidgeEntriesAssumption
<1>2. \A i \in 1..Len(f.dr) : f.dr[i].data \in Data
  <2>1. Len(f.dr) \in Nat
    BY <1>1 DEF IsForeign, IsArea
  <2>2. \A i \in 1..Len(f.dr) : f.dr[i].data \in ForeignData
    BY <2>1 DEF ForeignData
  <2>3. QED
    BY <2>2 DEF Data
<1>3. \A i \in 1..Len(f.ce) : f.ce[i].data \in Data
  <2>1. Len(f.ce) \in Nat
    BY <1>1 DEF IsForeign, IsArea
  <2>2. \A i \in 1..Len(f.ce) : f.ce[i].data \in ForeignData
    BY <2>1 DEF ForeignData
  <2>3. QED
    BY <2>2 DEF Data
<1>4. f.dr \in Seq(Whole) /\ f.ce \in Seq(Whole)
  BY <1>1, <1>2, <1>3, WholeArea DEF IsForeign
<1>5. ASSUME NEW s, s \in Seq(Whole) PROVE [k \in Kinds |-> NoEntries[k] \o OfKind(s, k)] = ByKind(s)
  <2>1. ASSUME NEW k \in Kinds PROVE NoEntries[k] \o OfKind(s, k) = OfKind(s, k)
    <3>1. ByKind(s) \in Lists(Whole)
      BY <1>5, AreaWeight
    <3>2. ByKind(s)[k] \in Seq(Whole)
      BY <3>1, ListsHave
    <3>3. OfKind(s, k) \in Seq(Whole)
      BY <3>2 DEF ByKind
    <3>4. <<>> \o OfKind(s, k) = OfKind(s, k)
      BY <3>3, ConcatEmptySeq
    <3>5. QED
      BY <3>4 DEF NoEntries
  <2>2. QED
    BY ONLY <2>1 DEF ByKind
<1>6. once = [version |-> once.version, dr |-> ByKind(f.dr), ce |-> NoEntries,
              name |-> NameOf(ByKind(f.dr), NoEntries)] /\ once.version \in Versions
  <2>1. [k \in Kinds |-> NoEntries[k] \o OfKind(f.dr, k)] = ByKind(f.dr)
    BY <1>4, <1>5
  <2> DEFINE v == InferredVersion(f.dr, AreaLength(f.dr) % 2)
  <2>2. Parse(Unread, f.dr, FALSE) = [version |-> v, dr |-> ByKind(f.dr), ce |-> NoEntries,
                                      name |-> NameOf(ByKind(f.dr), NoEntries)]
    BY <2>1 DEF Parse, Unread
  <2>3. v \in Versions
    BY InferredOne
  <2> HIDE DEF v
  <2>4. once = [version |-> v, dr |-> ByKind(f.dr), ce |-> NoEntries, name |-> NameOf(ByKind(f.dr), NoEntries)]
    BY ONLY <2>2, once = Parse(Unread, f.dr, FALSE)
  <2>5. QED
    BY ONLY <2>3, <2>4
<1>7. once.dr = ByKind(f.dr) /\ once.ce = NoEntries
  BY ONLY <1>6
<1>8. o = IF once.dr["CE"] = <<>> THEN once ELSE Parse(once, f.ce, TRUE)
  BY DEF ReadAreas
<1> HIDE DEF o
<1>9. CASE once.dr["CE"] = <<>>
  <2>1. OfKind(f.dr, "CE") = <<>>
    BY <1>7, <1>9 DEF ByKind, Kinds
  <2>2. AreaLength(f.ce) = 0
    BY <1>1, <2>1 DEF IsForeign, Announced
  <2>3. f.ce = <<>>
    BY <1>4, <2>2, WholeHas, AreaNothing
  <2>4. ByKind(f.ce) = NoEntries
    BY <2>3, OfKindEmpty DEF ByKind, NoEntries
  <2>5. o = once
    BY <1>8, <1>9
  <2>6. QED
    BY <1>4, <1>6, <1>7, <2>3, <2>4, <2>5 DEF Taken, o
<1>10. CASE once.dr["CE"] # <<>>
  <2> DEFINE v == InferredVersion(f.ce, 0)
  <2>1. [k \in Kinds |-> NoEntries[k] \o OfKind(f.ce, k)] = ByKind(f.ce)
    BY <1>4, <1>5
  <2>2. Parse(once, f.ce, TRUE) = [version |-> v, dr |-> ByKind(f.dr), ce |-> ByKind(f.ce),
                                   name |-> NameOf(ByKind(f.dr), ByKind(f.ce))]
    BY <1>7, <2>1 DEF Parse
  <2>3. v \in Versions
    BY InferredOne
  <2> HIDE DEF v
  <2>4. o = [version |-> v, dr |-> ByKind(f.dr), ce |-> ByKind(f.ce), name |-> NameOf(ByKind(f.dr), ByKind(f.ce))]
    BY ONLY <1>8, <1>10, <2>2
  <2>5. o.dr["CE"] # <<>>
    BY <1>7, <1>10, <2>4
  <2>6. o.dr = ByKind(f.dr) /\ o.ce = ByKind(f.ce) /\ o.version \in Versions
        /\ o = [version |-> o.version, dr |-> o.dr, ce |-> o.ce, name |-> NameOf(o.dr, o.ce)]
    BY ONLY <2>3, <2>4
  <2>7. QED
    BY <1>4, <1>7, <2>5, <2>6 DEF Taken, o
<1>11. QED
  BY <1>9, <1>10 DEF o

\* Where the places that tell of the version agree, the object has one version.
LEMMA ForeignOneVersion ==
  ASSUME NEW f, NEW once, NEW o, o = ReadAreas(f.dr, f.ce), Taken(o, f, once), VersionsAgree(f)
  PROVE  OneVersion(o)
<1>1. /\ o.dr = ByKind(f.dr) /\ o.ce = ByKind(f.ce) /\ f.dr \in Seq(Whole) /\ f.ce \in Seq(Whole)
      /\ o.dr["CE"] = <<>> => f.ce = <<>>
  BY DEF Taken
<1>2. (TellsNewVersion(f.dr) <=> TellsNew(o.dr)) /\ (TellsNewVersion(f.ce) <=> TellsNew(o.ce))
  <2>1. TellsIn(f.dr, o.dr)
    BY <1>1, Tells DEF ByKind
  <2>2. TellsIn(f.ce, o.ce)
    BY <1>1, Tells DEF ByKind
  <2>3. QED
    BY <2>1, <2>2 DEF TellsIn
<1>3. SparseOf(o, 21) <=> LongSparse(o.dr) \/ LongSparse(o.ce)
  BY DEF SparseOf, LongSparse
<1> DEFINE areas == IF o.dr["CE"] = <<>> THEN {f.dr} ELSE {f.dr, f.ce}
<1>4. ASSUME NEW area \in areas, NEW i \in 1..Len(area), area[i].su = "PX"
      PROVE  IF area[i].len = 44
             THEN \A other \in areas : TellsNewVersion(other)
             ELSE /\ o.version # "1.12" /\ ~SparseOf(o, 21)
                  /\ \A other \in areas : ~TellsNewVersion(other)
  BY <1>4 DEF VersionsAgree
<1>5. f.dr \in areas /\ (o.dr["CE"] # <<>> => f.ce \in areas)
  OBVIOUS
<1>6. o.dr["CE"] = <<>> => ~TellsNewVersion(f.ce)
  <2>1. ~TellsNewVersion(<<>>)
    <3>1. \A i \in 1..Len(<<>>) : FALSE
      OBVIOUS
    <3>2. QED
      BY <3>1 DEF TellsNewVersion
  <2>2. QED
    BY <1>1, <2>1
<1> HIDE DEF areas
<1>7. ASSUME NEW area \in areas, NEW i \in 1..Len(OfKind(area, "PX")), area \in Seq(Whole)
      PROVE  LET e == OfKind(area, "PX")[i] IN
             /\ e.len = PXLength(o.version)
             /\ IF e.len = 44
                THEN TellsNew(o.dr) /\ (o.dr["CE"] # <<>> => TellsNew(o.ce))
                ELSE ~TellsNew(o.dr) /\ ~TellsNew(o.ce) /\ ~LongSparse(o.dr) /\ ~LongSparse(o.ce)
  <2> DEFINE e == OfKind(area, "PX")[i]
  <2>1. e.su = "PX" /\ \E j \in 1..Len(area) : area[j] = e
    BY <1>7, OfKindFrom
  <2> HIDE DEF e
  <2>2. PICK j \in 1..Len(area) : area[j] = e
    BY <2>1
  <2>3. IF e.len = 44
        THEN \A other \in areas : TellsNewVersion(other)
        ELSE /\ o.version # "1.12" /\ ~SparseOf(o, 21)
             /\ \A other \in areas : ~TellsNewVersion(other)
    BY <1>4, <2>1, <2>2
  <2>4. e.len \in {36, 44}
    <3>1. area[j] \in Whole
      BY <1>7, ElementOfSeq
    <3>2. QED
      BY <2>1, <2>2, <3>1, WholeHas
  <2>5. IF e.len = 44
        THEN TellsNew(o.dr) /\ (o.dr["CE"] # <<>> => TellsNew(o.ce))
        ELSE ~TellsNew(o.dr) /\ ~TellsNew(o.ce) /\ ~LongSparse(o.dr) /\ ~LongSparse(o.ce)
    BY <1>2, <1>3, <1>5, <1>6, <2>3
  <2>6. e.len = 44 => o.version = "1.12"
    <3>1. ASSUME e.len = 44 PROVE o.version = "1.12"
      <4>1. TellsNewVersion(f.dr) /\ (o.dr["CE"] # <<>> => TellsNewVersion(f.ce))
        BY <1>5, <2>3, <3>1
      <4>2. o.version = "1.12"
        <5> DEFINE p == Parse(Unread, f.dr, FALSE)
        <5>1. p.version = "1.12"
          BY <4>1 DEF Parse, InferredVersion
        <5>2. Parse(p, f.ce, TRUE).version = InferredVersion(f.ce, 0)
          BY DEF Parse
        <5>3. TellsNewVersion(f.ce) => InferredVersion(f.ce, 0) = "1.12"
          BY DEF InferredVersion
        <5>4. o = IF p.dr["CE"] = <<>> THEN p ELSE Parse(p, f.ce, TRUE)
          BY DEF ReadAreas
        <5>5. p.dr["CE"] # <<>> => o.dr = p.dr
          <6>1. Parse(p, f.ce, TRUE).dr = p.dr
            BY DEF Parse
          <6> HIDE DEF p
          <6>2. QED
            BY <5>4, <6>1
        <5> HIDE DEF p
        <5>6. QED
          BY <4>1, <5>1, <5>2, <5>3, <5>4, <5>5
      <4>3. QED
        BY <4>2
    <3>2. QED
      BY <3>1
  <2>7. e.len # 44 => o.version # "1.12"
    BY <2>3
  <2>8. e.len = PXLength(o.version)
    BY <2>4, <2>6, <2>7 DEF PXLength
  <2>9. QED
    BY <2>5, <2>8 DEF e
<1>8. o.dr["PX"] = OfKind(f.dr, "PX") /\ o.ce["PX"] = OfKind(f.ce, "PX")
  BY <1>1 DEF ByKind, Kinds
<1>9. o.dr["CE"] = <<>> => o.ce["PX"] = <<>>
  BY <1>1, <1>8, OfKindEmpty
<1>10. ASSUME NEW i \in 1..Len(o.dr["PX"])
       PROVE  /\ o.dr["PX"][i].len = PXLength(o.version)
              /\ IF o.dr["PX"][i].len = 44
                 THEN TellsNew(o.dr) /\ (o.dr["CE"] # <<>> => TellsNew(o.ce))
                 ELSE ~TellsNew(o.dr) /\ ~TellsNew(o.ce) /\ ~LongSparse(o.dr) /\ ~LongSparse(o.ce)
  BY <1>1, <1>5, <1>7, <1>8
<1>11. ASSUME NEW i \in 1..Len(o.ce["PX"])
       PROVE  /\ o.ce["PX"][i].len = PXLength(o.version)
              /\ IF o.ce["PX"][i].len = 44
                 THEN TellsNew(o.dr) /\ (o.dr["CE"] # <<>> => TellsNew(o.ce))
                 ELSE ~TellsNew(o.dr) /\ ~TellsNew(o.ce) /\ ~LongSparse(o.dr) /\ ~LongSparse(o.ce)
  <2>1. CASE o.dr["CE"] = <<>>
    <3>1. i \in 1..Len(<<>>)
      BY <1>9, <2>1
    <3>2. QED
      BY ONLY <3>1
  <2>2. CASE o.dr["CE"] # <<>>
    BY <1>1, <1>5, <1>7, <1>8, <2>2
  <2>3. QED
    BY <2>1, <2>2
<1>12. QED
  BY <1>10, <1>11 DEF OneVersion

\* It is then sound, as heavy as the area, and keeps all entries.
LEMMA ForeignSound ==
  ASSUME NEW f, NEW once, NEW o, f \in Foreign, o = ReadAreas(f.dr, f.ce),
         once = Parse(Unread, f.dr, FALSE), Taken(o, f, once), VersionsAgree(f), ~HasEntry(o, "PN"),
         Readable(Unread, f.dr, FALSE), Readable(once, f.ce, FALSE)
  PROVE  /\ Sound(o, FALSE) /\ Weight(o.dr) = AreaLength(f.dr) /\ AreaLength(f.dr) \in Nat
         /\ Keeps(o, f)
<1>1. /\ o.dr = ByKind(f.dr) /\ o.ce = ByKind(f.ce) /\ f.dr \in Seq(Whole) /\ f.ce \in Seq(Whole)
      /\ o.dr["CE"] = <<>> => f.ce = <<>>
      /\ once.dr = ByKind(f.dr) /\ o.version \in Versions
      /\ o = [version |-> o.version, dr |-> o.dr, ce |-> o.ce, name |-> NameOf(o.dr, o.ce)]
  BY DEF Taken
<1>2. o.dr \in Lists(Whole) /\ o.ce \in Lists(Whole)
  BY <1>1, AreaWeight
<1>3. o.dr["PN"] = <<>> /\ o.ce["PN"] = <<>>
  BY DEF HasEntry
<1>4. \A k \in Kinds : o.dr[k] = OfKind(f.dr, k) /\ o.ce[k] = OfKind(f.ce, k)
  BY <1>1 DEF ByKind
<1>5. "PN" \in Kinds /\ "CE" \in Kinds \ Many /\ "SP" \in Kinds
  BY DEF Kinds, Many
<1>6. Weight(o.dr) = AreaLength(f.dr) /\ Weight(o.ce) = AreaLength(f.ce) /\ AreaLength(f.dr) \in Nat
  <2>1. /\ AreaLength(f.dr) = Weight(o.dr) + AreaLength(OfKind(f.dr, "PN"))
        /\ AreaLength(f.ce) = Weight(o.ce) + AreaLength(OfKind(f.ce, "PN"))
    BY <1>1, AreaWeight
  <2>2. OfKind(f.dr, "PN") = <<>> /\ OfKind(f.ce, "PN") = <<>>
    BY <1>3, <1>4, <1>5
  <2>3. Weight(o.dr) \in Nat /\ Weight(o.ce) \in Nat
    BY <1>2, WholeHas, WeightIs
  <2>4. QED
    BY <2>1, <2>2, <2>3, AreaEmpty
<1>7. ASSUME NEW k \in Kinds \ Many PROVE Len(o.dr[k]) + Len(o.ce[k]) <= 1
  <2> DEFINE x == o.dr[k]
             y == o.ce[k]
             m == Len(x)
             n == Len(y)
  <2>1. m \in Nat /\ m <= 1 /\ n \in Nat /\ n <= 1 /\ (y # <<>> => ~HasEntry(once, k))
    BY <1>1, <1>4, ReadableAlone
  <2>2. y # <<>> => x = <<>>
    BY <1>1, <2>1 DEF HasEntry
  <2>3. y \in Seq(Whole)
    BY <1>2, ListsHave
  <2>4. y = <<>> \/ m = 0
    <3> HIDE DEF x, y
    <3>1. QED
      BY <2>2
  <2>5. n = 0 \/ m = 0
    <3> HIDE DEF x, y
    <3>1. QED
      BY <2>4
  <2> HIDE DEF x, y, m, n
  <2>6. m + n <= 1
    BY ONLY <2>1, <2>5
  <2>7. QED
    BY <2>6 DEF m, n, x, y
<1>8. ASSUME NEW s, s \in Seq(Whole), NEW p, Readable(p, s, FALSE) PROVE OfKind(s, "SP") = <<>>
  <2>1. \A e \in {s[i] : i \in 1..Len(s)} : e.su # "SP"
    BY <1>8 DEF Readable
  <2>2. s \in Seq({s[i] : i \in 1..Len(s)})
    BY <1>8
  <2>3. QED
    BY <2>1, <2>2, OfKindNone
<1>9. o.dr["SP"] = <<>> /\ o.ce["SP"] = <<>>
  BY <1>1, <1>4, <1>5, <1>8
<1>10. o.ce["CE"] = <<>> /\ IF o.dr["CE"] = <<>> THEN o.ce = NoEntries ELSE Weight(o.ce) = o.dr["CE"][1].data
  <2>1. CASE o.dr["CE"] = <<>>
    <3>1. f.ce = <<>>
      BY <1>1, <2>1
    <3>2. o.ce = NoEntries
      BY <1>1, <3>1, OfKindEmpty DEF ByKind, NoEntries
    <3>3. QED
      BY <1>5, <2>1, <3>2 DEF NoEntries
  <2>2. CASE o.dr["CE"] # <<>>
    <3>1. HasEntry(once, "CE")
      BY <1>1, <2>2 DEF HasEntry
    <3>2. OfKind(f.ce, "CE") = <<>>
      BY <1>1, <1>5, <3>1, ReadableAlone
    <3>3. IsForeign(f)
      BY RockRidgeEntriesAssumption
    <3>4. AreaLength(f.ce) = Announced(f.dr) /\ OfKind(f.dr, "CE") = o.dr["CE"]
      BY <1>4, <1>5, <3>3 DEF IsForeign
    <3>5. Announced(f.dr) = o.dr["CE"][1].data
      BY <2>2, <3>4 DEF Announced
    <3>6. QED
      BY <1>4, <1>5, <1>6, <2>2, <3>2, <3>4, <3>5
  <2>3. QED
    BY <2>1, <2>2
<1>11. OneVersion(o)
  BY ForeignOneVersion
<1>12. Keeps(o, f)
  BY <1>4 DEF Keeps, SameEntries
<1>13. QED
  BY <1>1, <1>2, <1>3, <1>6, <1>7, <1>9, <1>10, <1>11, <1>12 DEF Sound

-----------------------------------------------------------------------------
(* Assigning the entries of a request, one kind after the other.            *)

Room(w) == IF w THEN 28 ELSE 0
Fit(a, q, w) ==
  /\ a = [dr |-> a.dr, ce |-> a.ce, len |-> a.len, withCe |-> w, cont |-> a.cont]
  /\ a.dr \in Lists(Whole) /\ a.ce \in Lists(Whole)
  /\ a.len = q.start + Room(w) + Weight(a.dr) /\ a.len \in Nat /\ a.len <= 254 /\ a.cont \in Nat
  /\ w => a.cont = Weight(a.ce)
  /\ ~w => a.cont = 0 /\ \A k \in Kinds \ {"SL"} : a.ce[k] = <<>>

\* The lists of one kind, empty so far, filled: s in the record, t in the
\* continuation.
Grown(a, b, k, s, t) ==
  b = [dr |-> [a.dr EXCEPT ![k] = s], ce |-> [a.ce EXCEPT ![k] = t], len |-> a.len + AreaLength(s),
       withCe |-> a.withCe, cont |-> a.cont + IF a.withCe THEN AreaLength(t) ELSE 0]

ListPut(E, F, k, s) ==
  /\ F \in Lists(Whole) /\ Weight(F) = Weight(E) + AreaLength(s) /\ F[k] = s
  /\ \A j \in Kinds \ {k} : F[j] = E[j]
LEMMA ListPutIs ==
  ASSUME NEW E, E \in Lists(Whole), NEW k, k \in Kinds \ {"PN"}, E[k] = <<>>,
         NEW s, s \in Seq(OfSu(Whole, k))
  PROVE  ListPut(E, [E EXCEPT ![k] = s], k, s)
<1> DEFINE F == [E EXCEPT ![k] = s]
<1>1. E \in [Kinds -> Seq(Whole)] /\ \A j \in Kinds : E[j] \in Seq(OfSu(Whole, j))
  BY DEF Lists
<1>2. s \in Seq(Whole)
  <2>1. OfSu(Whole, k) \subseteq Whole
    BY DEF OfSu
  <2>2. QED
    BY ONLY <2>1, s \in Seq(OfSu(Whole, k))
<1>3. F = [j \in Kinds |-> IF j = k THEN s ELSE E[j]]
  BY ONLY <1>1
<1> HIDE DEF F
<1>4. F[k] = s /\ \A j \in Kinds \ {k} : F[j] = E[j]
  BY <1>3
<1>5. F \in Lists(Whole)
  <2>1. \A j \in Kinds : F[j] \in Seq(Whole) /\ F[j] \in Seq(OfSu(Whole, j))
    BY <1>1, <1>2, <1>4
  <2>2. F = [j \in Kinds |-> F[j]]
    BY <1>3
  <2>3. QED
    BY <2>1, <2>2 DEF Lists
<1>6. Weight(F) + AreaLength(E[k]) = Weight(E) + AreaLength(F[k])
  BY <1>4, <1>5, WholeHas, WeightPut
<1>7. Weight(F) \in Nat /\ Weight(E) \in Nat /\ AreaLength(s) \in Nat
  BY <1>2, <1>5, WholeHas, WeightIs, AreaType
<1>8. Weight(F) = Weight(E) + AreaLength(s)
  BY <1>4, <1>6, <1>7, AreaEmpty
<1>9. QED
  BY <1>4, <1>5, <1>8 DEF ListPut, F

FitWith(a, b, q, w, k, s, t) ==
  /\ Fit(b, q, w) /\ b.dr[k] = s /\ b.ce[k] = t
  /\ \A j \in Kinds \ {k} : b.dr[j] = a.dr[j] /\ b.ce[j] = a.ce[j]
\* An entry that is put into either list keeps the count of the bytes.
LEMMA FitGrown ==
  ASSUME NEW q, q.start \in 34..226, NEW w, w \in BOOLEAN, NEW a, NEW b, Fit(a, q, w), NEW k, k \in Kinds \ {"PN"},
         a.dr[k] = <<>>, a.ce[k] = <<>>, NEW s, NEW t, s \in Seq(OfSu(Whole, k)), t \in Seq(OfSu(Whole, k)),
         a.len + AreaLength(s) <= 254, w \/ k = "SL" \/ t = <<>>, Grown(a, b, k, s, t)
  PROVE  FitWith(a, b, q, w, k, s, t)
<1>1. ListPut(a.dr, [a.dr EXCEPT ![k] = s], k, s) /\ ListPut(a.ce, [a.ce EXCEPT ![k] = t], k, t)
  BY ListPutIs DEF Fit
<1>2. /\ b.dr = [a.dr EXCEPT ![k] = s] /\ b.ce = [a.ce EXCEPT ![k] = t] /\ b.len = a.len + AreaLength(s)
      /\ b.cont = a.cont + (IF a.withCe THEN AreaLength(t) ELSE 0)
      /\ b = [dr |-> b.dr, ce |-> b.ce, len |-> b.len, withCe |-> a.withCe, cont |-> b.cont]
  BY ONLY Grown(a, b, k, s, t) DEF Grown
<1>3. a.withCe = w
  BY DEF Fit
<1>4. ListPut(a.dr, b.dr, k, s) /\ ListPut(a.ce, b.ce, k, t)
  BY ONLY <1>1, <1>2
<1>5. Weight(a.dr) \in Nat /\ Weight(a.ce) \in Nat
  BY WholeHas, WeightIs DEF Fit
<1>6. AreaLength(s) \in Nat /\ AreaLength(t) \in Nat
  <2>1. HasLengths(OfSu(Whole, k))
    BY WholeHas DEF OfSu, HasLengths
  <2>2. QED
    BY <2>1, AreaType
<1>7. b.len = q.start + Room(w) + Weight(b.dr) /\ b.len \in Nat /\ b.len <= 254 /\ b.cont \in Nat
  <2> DEFINE x == Weight(a.dr)
             y == Weight(b.dr)
             l == AreaLength(s)
             r == Room(w)
             v == q.start
             m == IF a.withCe THEN AreaLength(t) ELSE 0
  <2>1. /\ y = x + l /\ a.len = v + r + x /\ b.len = a.len + l /\ a.len + l <= 254
        /\ b.cont = a.cont + m /\ a.cont \in Nat /\ a.len \in Nat
    BY <1>2, <1>4 DEF ListPut, Fit
  <2>2. x \in Nat /\ l \in Nat /\ m \in Nat
    BY <1>5, <1>6
  <2>3. r \in Nat
    BY DEF Room
  <2>4. v \in Nat
    BY ONLY q.start \in 34..226
  <2> HIDE DEF x, y, l, r, m, v
  <2>5. b.len = v + r + y /\ b.len \in Nat /\ b.len <= 254 /\ b.cont \in Nat
    BY ONLY <2>1, <2>2, <2>3, <2>4
  <2>6. QED
    BY <2>5 DEF r, y, v
<1>8. w => b.cont = Weight(b.ce)
  BY ONLY <1>2, <1>3, <1>4, Fit(a, q, w) DEF ListPut, Fit
<1>9. ~w => b.cont = 0 /\ \A j \in Kinds \ {"SL"} : b.ce[j] = <<>>
  <2>1. ~w => a.cont = 0 /\ \A j \in Kinds \ {"SL"} : a.ce[j] = <<>>
    BY ONLY Fit(a, q, w) DEF Fit
  <2>2. ~w => b.cont = 0
    BY ONLY <1>2, <1>3, <2>1
  <2>3. ~w => t = <<>> \/ k = "SL"
    BY ONLY w \/ k = "SL" \/ t = <<>>
  <2>4. b.ce[k] = t /\ \A j \in Kinds \ {k} : b.ce[j] = a.ce[j]
    BY ONLY <1>4 DEF ListPut
  <2>5. QED
    BY ONLY <2>1, <2>2, <2>3, <2>4
<1>10. QED
  BY ONLY <1>2, <1>3, <1>4, <1>7, <1>8, <1>9 DEF ListPut, Fit, FitWith

\* What there has to be of the kinds of which there is one at most.
Ones == {"SP", "RR", "PX", "TF", "CL", "RE", "PL", "ER"}
Wanted(q, k) ==
  \/ k \in {"SP", "ER"} /\ q.kind = "first"
  \/ k = "RR" /\ q.version = "1.09"
  \/ k \in {"PX", "TF"}
  \/ k = "CL" /\ q.kind = "child_link"
  \/ k = "RE" /\ q.kind = "moved_dir"
  \/ k = "PL" /\ q.kind = "moved_dotdot"
EntryOf(q, k) ==
  CASE k = "SP" -> SP(0) [] k = "RR" -> RR(Fields(q)) [] k = "PX" -> PX(q.version, 1)
    [] k = "TF" -> TF(3, FALSE) [] k = "CL" -> CL(0) [] k = "RE" -> RE [] k = "PL" -> PL(0)
    [] k = "ER" -> ER(q.version)
OneHas(q, k, s, t) ==
  IF Wanted(q, k) THEN \/ s = <<EntryOf(q, k)>> /\ t = <<>>
                       \/ s = <<>> /\ t = <<EntryOf(q, k)>>
                  ELSE s = <<>> /\ t = <<>>
NameHas(q, s, t) == Spells([i \in 1..(Len(s) + Len(t)) |-> (s \o t)[i].data.text], 0, q.name)
PathHas(q, s, t) ==
  /\ PathSays(PathRead(s \o t).out, q.target)
  /\ q.target = <<>> => t = <<>>

Has(q, k, s, t) ==
  /\ k \in Ones => OneHas(q, k, s, t)
  /\ k = "NM" => NameHas(q, s, t)
  /\ k = "SL" => PathHas(q, s, t)
\* The kinds of K are assigned, the others not yet.
Part(a, q, w, K) ==
  /\ Fit(a, q, w)
  /\ \A k \in Kinds \ K : a.dr[k] = <<>> /\ a.ce[k] = <<>>
  /\ \A k \in K : Has(q, k, a.dr[k], a.ce[k])
Partly(a, q, w, K) == (a.len = -1 /\ ~w) \/ Part(a, q, w, K)

Growing(a, b, q, w, K, k, s, t) ==
  /\ q.start \in 34..226 /\ w \in BOOLEAN /\ K \subseteq Kinds /\ Part(a, q, w, K)
  /\ k \in Kinds \ {"PN"} /\ k \notin K /\ s \in Seq(OfSu(Whole, k)) /\ t \in Seq(OfSu(Whole, k))
  /\ a.len + AreaLength(s) <= 254 /\ (w \/ k = "SL" \/ t = <<>>)
  /\ Grown(a, b, k, s, t) /\ Has(q, k, s, t)
\* And it answers one more kind of the request.
LEMMA PartGrown ==
  ASSUME NEW q, NEW w, NEW a, NEW b, NEW K, NEW k, NEW s, NEW t, Growing(a, b, q, w, K, k, s, t)
  PROVE  Part(b, q, w, K \cup {k})
<1>1. /\ q.start \in 34..226 /\ w \in BOOLEAN /\ K \subseteq Kinds /\ Part(a, q, w, K)
      /\ k \in Kinds \ {"PN"} /\ k \notin K /\ s \in Seq(OfSu(Whole, k)) /\ t \in Seq(OfSu(Whole, k))
      /\ a.len + AreaLength(s) <= 254 /\ (w \/ k = "SL" \/ t = <<>>)
      /\ Grown(a, b, k, s, t) /\ Has(q, k, s, t)
  BY ONLY Growing(a, b, q, w, K, k, s, t) DEF Growing
<1>2. a.dr[k] = <<>> /\ a.ce[k] = <<>> /\ Fit(a, q, w)
  BY <1>1 DEF Part
<1>3. /\ Fit(b, q, w) /\ b.dr[k] = s /\ b.ce[k] = t
      /\ \A j \in Kinds \ {k} : b.dr[j] = a.dr[j] /\ b.ce[j] = a.ce[j]
  <2>1. FitWith(a, b, q, w, k, s, t)
    BY <1>1, <1>2, FitGrown
  <2>2. QED
    BY <2>1 DEF FitWith
<1>4. \A j \in Kinds \ (K \cup {k}) : b.dr[j] = <<>> /\ b.ce[j] = <<>>
  BY <1>1, <1>3 DEF Part
<1>5. \A j \in K \cup {k} : Has(q, j, b.dr[j], b.ce[j])
  <2>1. \A j \in K : j \in Kinds \ {k} /\ Has(q, j, a.dr[j], a.ce[j])
    BY <1>1 DEF Part
  <2>2. QED
    BY ONLY <1>1, <1>3, <2>1
<1>6. QED
  BY <1>3, <1>4, <1>5 DEF Part

Assignment(d, c, l, w, n) == [dr |-> d, ce |-> c, len |-> l, withCe |-> w, cont |-> n]
WithRecord(a, x, y) == [a EXCEPT !.dr = x, !.len = y]
WithContinuation(a, x, y) == [a EXCEPT !.ce = x, !.cont = y]
LEMMA TwoFields ==
  ASSUME NEW a, NEW d, NEW c, NEW l, NEW w, NEW n, a = Assignment(d, c, l, w, n), NEW x, NEW y
  PROVE  WithRecord(a, x, y) = Assignment(x, c, y, w, n) /\ WithContinuation(a, x, y) = Assignment(d, x, l, w, y)
<1> USE DEF Assignment, WithRecord, WithContinuation
<1> DEFINE b == [a EXCEPT !.dr = x]
           e == [a EXCEPT !.ce = x]
<1>1. b = Assignment(x, c, l, w, n) /\ e = Assignment(d, x, l, w, n)
  OBVIOUS
<1>2. [b EXCEPT !.len = y] = [a EXCEPT !.dr = x, !.len = y]
  OBVIOUS
<1>3. [e EXCEPT !.cont = y] = [a EXCEPT !.ce = x, !.cont = y]
  OBVIOUS
<1> HIDE DEF b, e
<1>4. [b EXCEPT !.len = y] = Assignment(x, c, y, w, n)
  BY ONLY <1>1 DEF Assignment
<1>5. [e EXCEPT !.cont = y] = Assignment(d, x, l, w, y)
  BY ONLY <1>1 DEF Assignment
<1>6. QED
  BY ONLY <1>2, <1>3, <1>4, <1>5 DEF WithRecord, WithContinuation

\* The ways to place entries.
LEMMA GrownWays ==
  ASSUME NEW q, NEW w, NEW a, Fit(a, q, w), NEW k, k \in Kinds, a.dr[k] = <<>>, a.ce[k] = <<>>,
         NEW e, e.su = k, e.len \in Nat, NEW es, es \in Seq(OfSu(Whole, k))
  PROVE  /\ Grown(a, InRecord(a, e), k, <<e>>, <<>>)
         /\ Grown(a, InContinuation(a, k, es), k, <<>>, es)
         /\ Grown(a, InContinuation(InRecord(a, e), k, es), k, <<e>>, es)
<1>1. /\ a = [dr |-> a.dr, ce |-> a.ce, len |-> a.len, withCe |-> w, cont |-> a.cont]
      /\ a.dr \in [Kinds -> Seq(Whole)] /\ a.ce \in [Kinds -> Seq(Whole)]
  BY DEF Fit, Lists
<1>2. Append(<<>>, e) = <<e>> /\ AreaLength(<<e>>) = e.len /\ AreaLength(<<>>) = 0
  BY AreaEmpty, AreaOne
<1>3. <<>> \o es = es
  BY ConcatEmptySeq
<1>4. [a.dr EXCEPT ![k] = <<>>] = a.dr /\ [a.ce EXCEPT ![k] = <<>>] = a.ce
  BY ONLY <1>1, a.dr[k] = <<>>, a.ce[k] = <<>>
<1>5. a.len \in Nat /\ a.cont \in Nat /\ a.withCe = w
  BY DEF Fit
<1> DEFINE b == InRecord(a, e)
<1>6. b = [dr |-> [a.dr EXCEPT ![k] = <<e>>], ce |-> a.ce, len |-> a.len + e.len, withCe |-> w, cont |-> a.cont]
  <2>1. b = WithRecord(a, [a.dr EXCEPT ![k] = Append(a.dr[k], e)], a.len + e.len)
    BY e.su = k DEF InRecord, WithRecord
  <2>2. Append(a.dr[k], e) = <<e>>
    BY <1>2
  <2> HIDE DEF b
  <2>3. b = [dr |-> [a.dr EXCEPT ![k] = Append(a.dr[k], e)], ce |-> a.ce, len |-> a.len + e.len, withCe |-> w, cont |-> a.cont]
    <3>1. a = Assignment(a.dr, a.ce, a.len, w, a.cont)
      BY ONLY <1>1 DEF Assignment
    <3>2. b = Assignment([a.dr EXCEPT ![k] = Append(a.dr[k], e)], a.ce, a.len + e.len, w, a.cont)
      BY ONLY <2>1, <3>1, TwoFields
    <3>3. QED
      BY ONLY <3>2 DEF Assignment
  <2>4. QED
    BY ONLY <2>2, <2>3
<1> HIDE DEF b
<1>7. Grown(a, b, k, <<e>>, <<>>)
  <2>1. a.cont + (IF a.withCe THEN AreaLength(<<>>) ELSE 0) = a.cont
    BY <1>2, <1>5
  <2>2. QED
    BY ONLY <1>2, <1>4, <1>5, <1>6, <2>1 DEF Grown
<1>8. ASSUME NEW c, c = [dr |-> c.dr, ce |-> a.ce, len |-> c.len, withCe |-> w, cont |-> a.cont]
      PROVE  InContinuation(c, k, es) =
               [dr |-> c.dr, ce |-> [a.ce EXCEPT ![k] = es], len |-> c.len, withCe |-> w,
                cont |-> a.cont + IF w THEN AreaLength(es) ELSE 0]
  <2> DEFINE x == c.cont + IF c.withCe THEN AreaLength(es) ELSE 0
             y == [c.ce EXCEPT ![k] = c.ce[k] \o es]
             d == InContinuation(c, k, es)
  <2>1. d = WithContinuation(c, y, x)
    BY DEF InContinuation, WithContinuation
  <2>2. c.ce = a.ce /\ c.cont = a.cont /\ c.withCe = w
    BY ONLY <1>8
  <2>3. y = [a.ce EXCEPT ![k] = es] /\ x = a.cont + IF w THEN AreaLength(es) ELSE 0
    BY <1>3, <2>2
  <2> HIDE DEF x, y, d
  <2>4. d = [dr |-> c.dr, ce |-> y, len |-> c.len, withCe |-> w, cont |-> x]
    <3>1. c = Assignment(c.dr, a.ce, c.len, w, a.cont)
      BY ONLY <1>8 DEF Assignment
    <3>2. d = Assignment(c.dr, y, c.len, w, x)
      BY ONLY <2>1, <3>1, TwoFields
    <3>3. QED
      BY ONLY <3>2 DEF Assignment
  <2>5. QED
    BY <2>3, <2>4 DEF d
<1>9. Grown(a, InContinuation(a, k, es), k, <<>>, es)
  <2>1. InContinuation(a, k, es) =
          [dr |-> a.dr, ce |-> [a.ce EXCEPT ![k] = es], len |-> a.len, withCe |-> w,
           cont |-> a.cont + IF w THEN AreaLength(es) ELSE 0]
    BY <1>1, <1>8
  <2>2. a.len + AreaLength(<<>>) = a.len
    BY <1>2, <1>5
  <2>3. QED
    BY ONLY <1>4, <1>5, <2>1, <2>2 DEF Grown
<1>10. Grown(a, InContinuation(b, k, es), k, <<e>>, es)
  <2>1. b = [dr |-> b.dr, ce |-> a.ce, len |-> b.len, withCe |-> w, cont |-> a.cont]
    BY ONLY <1>6
  <2>2. InContinuation(b, k, es) =
          [dr |-> b.dr, ce |-> [a.ce EXCEPT ![k] = es], len |-> b.len, withCe |-> w,
           cont |-> a.cont + IF w THEN AreaLength(es) ELSE 0]
    BY <1>8, <2>1
  <2>3. b.dr = [a.dr EXCEPT ![k] = <<e>>] /\ b.len = a.len + e.len
    BY ONLY <1>6
  <2>4. QED
    BY ONLY <1>2, <1>5, <2>2, <2>3 DEF Grown
<1>11. QED
  BY <1>7, <1>9, <1>10 DEF b

LEMMA Built ==
  ASSUME NEW k, k \in Kinds, NEW l, l \in 4..255, NEW d, d \in Data, Accepts(Entry(k, l, d))
  PROVE  Entry(k, l, d) \in OfSu(Whole, k) /\ Entry(k, l, d).su = k /\ Entry(k, l, d).len = l
         /\ Entry(k, l, d).data = d
<1> DEFINE e == Entry(k, l, d)
<1>1. e = [su |-> k, len |-> l, sound |-> TRUE, data |-> d]
  BY DEF Entry
<1>2. Accepts(e)
  OBVIOUS
<1> HIDE DEF e
<1>3. e \in [su: Kinds, len: 4..255, sound: {TRUE}, data: Data]
  BY ONLY <1>1, k \in Kinds, l \in 4..255, d \in Data
<1>4. e.su = k /\ e.len = l /\ e.data = d
  BY ONLY <1>1
<1>5. QED
  BY <1>2, <1>3, <1>4 DEF OfSu, Whole, e

\* The entries that new() makes are whole, of the kind that they are put under.
LEMMA EntriesWhole ==
  ASSUME NEW q, IsRequest(q), NEW k, k \in Ones
  PROVE  EntryOf(q, k) \in OfSu(Whole, k) /\ k \in Kinds \ {"PN"} /\ EntryOf(q, k).su = k
         /\ EntryOf(q, k).len \in Nat
<1>1. k \in Kinds \ {"PN"}
  BY DEF Ones, Kinds
<1>2. ASSUME NEW l, l \in {4, 5, 7, 12, 26, 36, 44, 183, 237}, NEW d, d \in Data, Accepts(Entry(k, l, d)),
             EntryOf(q, k) = Entry(k, l, d)
      PROVE  EntryOf(q, k) \in OfSu(Whole, k) /\ EntryOf(q, k).su = k /\ EntryOf(q, k).len \in Nat
  <2>1. l \in 4..255 /\ l \in Nat
    BY ONLY l \in {4, 5, 7, 12, 26, 36, 44, 183, 237}
  <2>2. QED
    BY <1>1, <1>2, <2>1, Built
<1>3. 0 \in Data /\ 1 \in Data /\ FALSE \in Data /\ {} \in Data /\ "IEEE_P1282" \in Data /\ "RRIP_1991A" \in Data
  BY DEF Data
<1>4. Fields(q) \in Data
  <2>1. Fields(q) \subseteq Announces
    BY Zenon DEF Fields, Announces
  <2>2. QED
    BY ONLY <2>1 DEF Data
<1>5. CASE k = "SP"
  <2>1. EntryOf(q, k) = Entry(k, 7, 0)
    BY ONLY <1>5 DEF EntryOf, SP
  <2>2. Accepts(Entry(k, 7, 0))
    BY ONLY <1>5 DEF Accepts, Entry
  <2>3. QED
    BY ONLY <1>1, <1>2, <1>3, <2>1, <2>2
<1>6. CASE k = "RR"
  <2>1. EntryOf(q, k) = Entry(k, 5, Fields(q))
    BY ONLY <1>6 DEF EntryOf, RR
  <2>2. Accepts(Entry(k, 5, Fields(q)))
    BY ONLY <1>6 DEF Accepts, Entry
  <2>3. QED
    BY ONLY <1>1, <1>2, <1>4, <2>1, <2>2
<1>7. CASE k = "PX"
  <2> DEFINE l == PXLength(q.version)
  <2>1. EntryOf(q, k) = Entry(k, l, 1)
    BY ONLY <1>7 DEF EntryOf, PX
  <2>2. l \in {36, 44}
    BY ONLY DEF PXLength
  <2> HIDE DEF l
  <2>3. Accepts(Entry(k, l, 1))
    BY ONLY <1>7, <2>2 DEF Accepts, Entry
  <2>4. QED
    BY ONLY <1>1, <1>2, <1>3, <2>1, <2>2, <2>3
<1>8. CASE k = "TF"
  <2>1. EntryOf(q, k) = Entry(k, 26, FALSE)
    <3>1. 5 + 3 * (IF FALSE THEN 17 ELSE 7) = 26
      OBVIOUS
    <3>2. EntryOf(q, k) = TF(3, FALSE)
      BY ONLY <1>8 DEF EntryOf
    <3>3. QED
      BY ONLY <1>8, <3>1, <3>2 DEF TF
  <2>2. Accepts(Entry(k, 26, FALSE))
    BY ONLY <1>8 DEF Accepts, Entry
  <2> DEFINE l == 26
             d == FALSE
  <2>3. l \in {4, 5, 7, 12, 26, 36, 44, 183, 237} /\ d \in Data /\ Accepts(Entry(k, l, d))
        /\ EntryOf(q, k) = Entry(k, l, d)
    BY <1>3, <2>1, <2>2
  <2> HIDE DEF l, d
  <2>4. QED
    BY ONLY <1>1, <1>2, <2>3
<1>9. CASE k = "CL"
  <2>1. EntryOf(q, k) = Entry(k, 12, 0)
    BY ONLY <1>9 DEF EntryOf, CL
  <2>2. Accepts(Entry(k, 12, 0))
    BY ONLY <1>9 DEF Accepts, Entry
  <2>3. QED
    BY ONLY <1>1, <1>2, <1>3, <2>1, <2>2
<1>10. CASE k = "RE"
  <2>1. EntryOf(q, k) = Entry(k, 4, {})
    BY ONLY <1>10 DEF EntryOf, RE
  <2>2. Accepts(Entry(k, 4, {}))
    BY ONLY <1>10 DEF Accepts, Entry
  <2>3. QED
    BY ONLY <1>1, <1>2, <1>3, <2>1, <2>2
<1>11. CASE k = "PL"
  <2>1. EntryOf(q, k) = Entry(k, 12, 0)
    BY ONLY <1>11 DEF EntryOf, PL
  <2>2. Accepts(Entry(k, 12, 0))
    BY ONLY <1>11 DEF Accepts, Entry
  <2>3. QED
    BY ONLY <1>1, <1>2, <1>3, <2>1, <2>2
<1>12. CASE k = "ER"
  <2>1. EntryOf(q, k) = IF q.version = "1.12" THEN Entry(k, 183, "IEEE_P1282") ELSE Entry(k, 237, "RRIP_1991A")
    <3>1. 8 + 10 + 72 + 93 = 183 /\ 8 + 10 + 84 + 135 = 237
      OBVIOUS
    <3>2. EntryOf(q, k) = ER(q.version)
      BY ONLY <1>12 DEF EntryOf
    <3>3. QED
      BY ONLY <1>12, <3>1, <3>2 DEF ER
  <2>2. Accepts(Entry(k, 183, "IEEE_P1282")) /\ Accepts(Entry(k, 237, "RRIP_1991A"))
    BY ONLY <1>12 DEF Accepts, Entry
  <2>3. QED
    BY ONLY <1>1, <1>2, <1>3, <2>1, <2>2
<1>13. QED
  BY <1>1, <1>5, <1>6, <1>7, <1>8, <1>9, <1>10, <1>11, <1>12 DEF Ones

\* Put has four outcomes.
LEMMA PutCases ==
  ASSUME NEW a, NEW e, NEW l, NEW m, l \in Int, m \in Nat, a.len = l, e.len = m
  PROVE  /\ l < 0 => Put(a, e) = a
         /\ (l >= 0 /\ l + m <= 254) => Put(a, e) = InRecord(a, e)
         /\ (l >= 0 /\ l + m > 254 /\ a.withCe) => Put(a, e) = InContinuation(a, e.su, <<e>>)
         /\ (l >= 0 /\ l + m > 254 /\ ~a.withCe) => Put(a, e) = DoesNotFit(a)
<1> DEFINE x == InRecord(a, e)
           y == InContinuation(a, e.su, <<e>>)
           z == DoesNotFit(a)
           c == a.withCe
<1>1. Put(a, e) = IF l < 0 THEN a ELSE IF l + m <= 254 THEN x ELSE IF c THEN y ELSE z
  BY Zenon DEF Put, AllowedDrSize
<1> HIDE DEF x, y, z, c
<1>2. (l < 0 => Put(a, e) = a) /\ (~(l < 0) => Put(a, e) = IF l + m <= 254 THEN x ELSE IF c THEN y ELSE z)
  BY Zenon, <1>1
<1>3. /\ l < 0 => Put(a, e) = a
      /\ (~(l < 0) /\ l + m <= 254) => Put(a, e) = x
      /\ (~(l < 0) /\ ~(l + m <= 254) /\ c) => Put(a, e) = y
      /\ (~(l < 0) /\ ~(l + m <= 254) /\ ~c) => Put(a, e) = z
  BY Zenon, <1>2
<1>4. (l >= 0 <=> ~(l < 0)) /\ (l + m > 254 <=> ~(l + m <= 254))
  BY ONLY l \in Int, m \in Nat
<1>5. QED
  BY Zenon, <1>3, <1>4 DEF x, y, z, c

\* One call of add_record, whatever its outcome.
LEMMA PutStep ==
  ASSUME NEW q, IsRequest(q), q.start \in 34..226, NEW w, w \in BOOLEAN, NEW K, K \subseteq Kinds, NEW a, Partly(a, q, w, K),
         NEW k, k \in Ones, k \notin K, NEW wanted, wanted <=> Wanted(q, k)
  PROVE  Partly(PutIf(wanted, a, EntryOf(q, k)), q, w, K \cup {k})
<1> DEFINE e == EntryOf(q, k)
           b == PutIf(wanted, a, e)
<1>1. e \in OfSu(Whole, k) /\ k \in Kinds \ {"PN"} /\ e.su = k /\ e.len \in Nat
  BY EntriesWhole
<1>2. (wanted => b = Put(a, e)) /\ (~wanted => b = a)
  BY Zenon DEF PutIf
<1>3. Wanted(q, k) => Has(q, k, <<e>>, <<>>) /\ Has(q, k, <<>>, <<e>>)
  BY DEF Has, OneHas, Ones
<1>4. ~Wanted(q, k) => Has(q, k, <<>>, <<>>)
  BY DEF Has, OneHas, Ones
<1>5. wanted <=> Wanted(q, k)
  OBVIOUS
<1> HIDE DEF e, b
<1>6. CASE a.len = -1 /\ ~w
  <2>1. wanted => Put(a, e) = a
    <3>1. a.len \in Int /\ a.len < 0
      BY ONLY <1>6
    <3>2. QED
      BY ONLY <1>1, <3>1, PutCases
  <2>2. b = a
    BY ONLY <1>2, <2>1
  <2>3. Partly(b, q, w, K \cup {k})
    BY ONLY <1>6, <2>2 DEF Partly
  <2>4. QED
    BY <2>3 DEF b, e
<1>7. CASE Part(a, q, w, K) /\ ~wanted
  <2>1. b = a
    BY ONLY <1>2, <1>7
  <2>2. a.dr[k] = <<>> /\ a.ce[k] = <<>>
    BY <1>1, <1>7 DEF Part
  <2>3. Has(q, k, <<>>, <<>>)
    BY ONLY <1>4, <1>5, <1>7
  <2>4. Part(a, q, w, K \cup {k})
    BY <1>7, <2>2, <2>3 DEF Part
  <2>5. Partly(b, q, w, K \cup {k})
    BY ONLY <2>1, <2>4 DEF Partly
  <2>6. QED
    BY <2>5 DEF b, e
<1>8. CASE Part(a, q, w, K) /\ wanted
  <2>1. Fit(a, q, w) /\ a.dr[k] = <<>> /\ a.ce[k] = <<>>
    BY <1>1, <1>8 DEF Part
  <2>2. a.len \in Nat /\ a.len <= 254 /\ a.withCe = w
    BY ONLY <2>1 DEF Fit
  <2>3. /\ a.len + e.len <= 254 => b = InRecord(a, e)
        /\ (a.len + e.len > 254 /\ w) => b = InContinuation(a, k, <<e>>)
        /\ (a.len + e.len > 254 /\ ~w) => b = DoesNotFit(a)
    <3>1. a.len \in Int /\ a.len >= 0
      BY ONLY <2>2
    <3>2. /\ a.len + e.len <= 254 => Put(a, e) = InRecord(a, e)
          /\ (a.len + e.len > 254 /\ a.withCe) => Put(a, e) = InContinuation(a, e.su, <<e>>)
          /\ (a.len + e.len > 254 /\ ~a.withCe) => Put(a, e) = DoesNotFit(a)
      BY ONLY <1>1, <3>1, PutCases
    <3>3. b = Put(a, e)
      BY ONLY <1>2, <1>8
    <3>4. QED
      BY ONLY <1>1, <2>2, <3>2, <3>3
  <2>4. <<>> \in Seq(OfSu(Whole, k)) /\ <<e>> \in Seq(OfSu(Whole, k))
    BY ONLY <1>1
  <2>5. Grown(a, InRecord(a, e), k, <<e>>, <<>>) /\ Grown(a, InContinuation(a, k, <<e>>), k, <<>>, <<e>>)
    BY <1>1, <2>1, <2>4, GrownWays
  <2>6. Has(q, k, <<e>>, <<>>) /\ Has(q, k, <<>>, <<e>>)
    BY ONLY <1>3, <1>5, <1>8
  <2>7. AreaLength(<<e>>) = e.len /\ AreaLength(<<>>) = 0
    BY <1>1, AreaOne, AreaEmpty
  <2>8. CASE a.len + e.len <= 254
    <3>1. a.len + AreaLength(<<e>>) <= 254
      BY ONLY <2>7, <2>8
    <3>2. Part(InRecord(a, e), q, w, K \cup {k})
      <4> DEFINE s == <<e>>
                 t == <<>>
                 c == InRecord(a, e)
      <4>1. Growing(a, c, q, w, K, k, s, t)
        BY ONLY q.start \in 34..226, w \in BOOLEAN, K \subseteq Kinds, k \notin K,
                <1>1, <1>8, <2>4, <2>5, <2>6, <3>1 DEF Growing
      <4> HIDE DEF s, t, c
      <4>2. Part(c, q, w, K \cup {k})
        BY ONLY <4>1, PartGrown
      <4> QED
        BY <4>2 DEF c
    <3>3. Partly(b, q, w, K \cup {k})
      BY ONLY <2>3, <2>8, <3>2 DEF Partly
    <3>4. QED
      BY <3>3 DEF b, e
  <2>9. CASE a.len + e.len > 254 /\ w
    <3>1. a.len + AreaLength(<<>>) <= 254
      BY ONLY <2>2, <2>7
    <3>2. Part(InContinuation(a, k, <<e>>), q, w, K \cup {k})
      <4> DEFINE s == <<>>
                 t == <<e>>
                 c == InContinuation(a, k, <<e>>)
      <4>1. Growing(a, c, q, w, K, k, s, t)
        BY ONLY q.start \in 34..226, w \in BOOLEAN, K \subseteq Kinds, k \notin K,
                <1>1, <1>8, <2>4, <2>5, <2>6, <2>9, <3>1 DEF Growing
      <4> HIDE DEF s, t, c
      <4>2. Part(c, q, w, K \cup {k})
        BY ONLY <4>1, PartGrown
      <4> QED
        BY <4>2 DEF c
    <3>3. Partly(b, q, w, K \cup {k})
      BY ONLY <2>3, <2>9, <3>2 DEF Partly
    <3>4. QED
      BY <3>3 DEF b, e
  <2>10. CASE a.len + e.len > 254 /\ ~w
    <3>1. a = [dr |-> a.dr, ce |-> a.ce, len |-> a.len, withCe |-> w, cont |-> a.cont]
      BY ONLY <2>1 DEF Fit
    <3>2. DoesNotFit(a).len = -1
      BY ONLY <3>1 DEF DoesNotFit
    <3>3. Partly(b, q, w, K \cup {k})
      BY ONLY <2>3, <2>10, <3>2 DEF Partly
    <3>4. QED
      BY <3>3 DEF b, e
  <2>11. a.len + e.len <= 254 \/ a.len + e.len > 254
    BY ONLY <1>1, <2>2
  <2>12. w \/ ~w
    OBVIOUS
  <2>13. QED
    BY ONLY <2>8, <2>9, <2>10, <2>11, <2>12
<1>9. (a.len = -1 /\ ~w) \/ Part(a, q, w, K)
  BY DEF Partly
<1>10. QED
  BY <1>6, <1>7, <1>8, <1>9


-----------------------------------------------------------------------------
(* The pieces of a name.                                                    *)

PieceStart(here, k) == here + 250 * (k - 1)
Count(here, n) == (n - here + 249) \div 250
PieceEnd(here, n, k) == Least(n, here + 250 * k)
PiecesAre(here, n, P) ==
  /\ Count(here, n) \in Nat /\ Len(P) = Count(here, n) /\ P \in Seq(OfSu(Whole, "NM"))
  /\ Count(here, n) = 0 <=> here = n
  /\ \A k \in 1..Count(here, n) :
       P[k].data.text = [of |-> 0, from |-> PieceStart(here, k), len |-> PieceEnd(here, n, k) - PieceStart(here, k)]
  /\ PieceStart(here, 1) = here
  /\ \A k \in 1..Count(here, n) : /\ PieceStart(here, k) \in Nat /\ PieceEnd(here, n, k) \in Nat
                                  /\ k < Count(here, n) => PieceEnd(here, n, k) = PieceStart(here, k + 1)
                                  /\ k = Count(here, n) => PieceEnd(here, n, k) = n
LEMMA NamePieceWhole ==
  ASSUME NEW from, NEW to, NEW cont, from \in Nat, to \in Nat, from < to, to - from <= 250, cont \in BOOLEAN
  PROVE  /\ NM(NamePiece(from, to), cont) \in OfSu(Whole, "NM")
         /\ NM(NamePiece(from, to), cont).len = 5 + (to - from) /\ NM(NamePiece(from, to), cont).su = "NM"
         /\ NM(NamePiece(from, to), cont).data.text = [of |-> 0, from |-> from, len |-> to - from]
<1> DEFINE l == to - from
           x == NamePiece(from, to)
           e == NM(x, cont)
<1>1. l \in Nat /\ 5 + l \in 4..255 /\ x = [of |-> 0, from |-> from, len |-> l]
  BY DEF NamePiece
<1>2. x \in Text
  BY ONLY <1>1, from \in Nat DEF Text
<1>3. x.len = l
  BY ONLY <1>1
<1> HIDE DEF x, l
<1>4. e = [su |-> "NM", len |-> 5 + l, sound |-> TRUE, data |-> [text |-> x, cont |-> cont]]
  BY <1>3 DEF NM, Entry
<1>5. [text |-> x, cont |-> cont] \in Data
  <2>1. [text |-> x, cont |-> cont] \in NameData
    BY <1>2 DEF NameData
  <2>2. QED
    BY <2>1 DEF Data
<1> HIDE DEF e
<1>6. e.su = "NM" /\ e.len = 5 + l /\ e.sound = TRUE /\ e.data.text = x
  BY ONLY <1>4
<1>7. Accepts(e)
  BY <1>1, <1>6 DEF Accepts
<1>8. "NM" \in Kinds
  BY DEF Kinds
<1>9. e \in [su: Kinds, len: 4..255, sound: {TRUE}, data: Data]
  BY ONLY <1>1, <1>4, <1>5, <1>8
<1>10. QED
  BY <1>1, <1>6, <1>7, <1>9 DEF OfSu, Whole, e, l, x

\* The pieces of a name follow each other and end where the name ends.
LEMMA NamePiecesAre ==
  ASSUME NEW n, n \in Nat, NEW here, here \in Nat, here <= n
  PROVE  PiecesAre(here, n, NamePieces(here, n))
<1> DEFINE c == Count(here, n)
           P == NamePieces(here, n)
           end(k) == PieceEnd(here, n, k)
<1>1. c \in Nat /\ 250 * c <= n - here + 249 /\ n - here + 249 < 250 * c + 250
  BY DEF Count
<1>2. c = 0 <=> here = n
  <2> HIDE DEF c
  <2>1. QED
    BY <1>1
<1>3. ASSUME NEW k, k \in 1..c
      PROVE  /\ end(k) \in Nat /\ here + 250 * (k - 1) \in Nat /\ here + 250 * (k - 1) < end(k)
             /\ end(k) - (here + 250 * (k - 1)) <= 250
             /\ IF k < c THEN end(k) = here + 250 * k ELSE end(k) = n
  <2> HIDE DEF c
  <2>1. k \in Nat /\ 1 <= k /\ k <= c
    BY <1>1, <1>3
  <2>2. here + 250 * (k - 1) < n
    BY <1>1, <2>1
  <2>3. k < c => here + 250 * k < n
    BY <1>1, <2>1
  <2>4. k = c => here + 250 * k >= n
    BY <1>1, <2>1
  <2>5. end(k) = IF n < here + 250 * k THEN n ELSE here + 250 * k
    BY DEF PieceEnd, Least
  <2> HIDE DEF end
  <2>6. QED
    BY <1>1, <2>1, <2>2, <2>3, <2>4, <2>5
<1>4. P = [k \in 1..c |-> NM(NamePiece(here + 250 * (k - 1), end(k)), k < c)]
  BY DEF NamePieces, Count, PieceEnd
<1> HIDE DEF c, P, end
<1>5. ASSUME NEW k, k \in 1..c
      PROVE  /\ P[k] \in OfSu(Whole, "NM")
             /\ P[k].data.text = [of |-> 0, from |-> here + 250 * (k - 1), len |-> end(k) - (here + 250 * (k - 1))]
  <2> DEFINE from == here + 250 * (k - 1)
             to == end(k)
  <2>1. from \in Nat /\ to \in Nat /\ from < to /\ to - from <= 250 /\ (k < c) \in BOOLEAN
    BY <1>3, <1>5
  <2>2. P[k] = NM(NamePiece(from, to), k < c)
    BY <1>4, <1>5
  <2> HIDE DEF from, to
  <2>3. /\ NM(NamePiece(from, to), k < c) \in OfSu(Whole, "NM")
        /\ NM(NamePiece(from, to), k < c).data.text = [of |-> 0, from |-> from, len |-> to - from]
    BY <2>1, NamePieceWhole
  <2>4. QED
    BY <2>2, <2>3 DEF from, to
<1>6. P \in Seq(OfSu(Whole, "NM")) /\ Len(P) = c
  <2>1. P = [k \in 1..c |-> P[k]]
    BY <1>4
  <2>2. \A k \in 1..c : P[k] \in OfSu(Whole, "NM")
    BY <1>5
  <2>3. QED
    BY ONLY <1>1, <2>1, <2>2
<1>7. PieceStart(here, 1) = here
  BY DEF PieceStart
<1>8. ASSUME NEW k, k \in 1..c
      PROVE  /\ PieceStart(here, k) \in Nat /\ PieceEnd(here, n, k) \in Nat
             /\ k < c => PieceEnd(here, n, k) = PieceStart(here, k + 1)
             /\ k = c => PieceEnd(here, n, k) = n
  <2>1. k \in Nat /\ here + 250 * (k - 1) \in Nat /\ end(k) \in Nat
    BY <1>1, <1>3, <1>8
  <2>2. (k < c => end(k) = here + 250 * k) /\ (k = c => end(k) = n)
    <3>1. IF k < c THEN end(k) = here + 250 * k ELSE end(k) = n
      BY <1>3, <1>8
    <3>2. k = c => ~(k < c)
      BY <1>1, <2>1
    <3>3. QED
      BY ONLY <3>1, <3>2
  <2>3. here + 250 * ((k + 1) - 1) = here + 250 * k
    BY <2>1
  <2>4. QED
    BY <2>1, <2>2, <2>3 DEF PieceStart, end
<1>9. ASSUME NEW k, k \in 1..c
      PROVE  P[k].data.text = [of |-> 0, from |-> PieceStart(here, k), len |-> PieceEnd(here, n, k) - PieceStart(here, k)]
  BY ONLY <1>5, <1>9 DEF PieceStart, end
<1> HIDE DEF P
<1>10. PiecesAre(here, n, P)
  <2>1. Count(here, n) \in Nat /\ Len(P) = Count(here, n) /\ P \in Seq(OfSu(Whole, "NM"))
    BY ONLY <1>1, <1>6 DEF c
  <2>2. Count(here, n) = 0 <=> here = n
    BY ONLY <1>2 DEF c
  <2>3. \A k \in 1..Count(here, n) :
          P[k].data.text = [of |-> 0, from |-> PieceStart(here, k), len |-> PieceEnd(here, n, k) - PieceStart(here, k)]
    BY ONLY <1>9 DEF c
  <2>4. \A k \in 1..Count(here, n) : /\ PieceStart(here, k) \in Nat /\ PieceEnd(here, n, k) \in Nat
                                     /\ k < Count(here, n) => PieceEnd(here, n, k) = PieceStart(here, k + 1)
                                     /\ k = Count(here, n) => PieceEnd(here, n, k) = n
    BY ONLY <1>8 DEF c
  <2> HIDE DEF c
  <2>5. QED
    BY ONLY <1>7, <2>1, <2>2, <2>3, <2>4 DEF PiecesAre
<1>11. QED
  BY <1>10 DEF P

LEMMA Chained ==
  ASSUME NEW T, NEW N, N \in Nat, N > 0, T = [i \in 1..N |-> T[i]], NEW of, NEW n,
         \A i \in 1..N : T[i].of = of, \A i \in 2..N : T[i].from = T[i - 1].from + T[i - 1].len,
         T[1].from = 0, T[N].from + T[N].len = n
  PROVE  Spells(T, of, n)
<1>1. Len(T) = N
  BY ONLY N \in Nat, T = [i \in 1..N |-> T[i]]
<1>2. T # <<>>
  BY <1>1, Filled
<1>3. Last(T) = T[N]
  BY <1>1 DEF Last
<1>4. QED
  BY <1>1, <1>2, <1>3 DEF Spells

\* Pieces that follow each other spell the name.
LEMMA NameSpelled ==
  ASSUME NEW q, NEW n, n \in Nat, q.name = n, n > 0, NEW here, here \in Nat, here <= n, NEW P, PiecesAre(here, n, P),
         NEW s, here = 0 => s = <<>>, here > 0 => \E cont : s = <<NM(NamePiece(0, here), cont)>>
  PROVE  NameHas(q, s, P)
<1> DEFINE c == Count(here, n)
           Q == s \o P
           T == [i \in 1..(Len(s) + Len(P)) |-> Q[i].data.text]
<1>1. /\ c \in Nat /\ Len(P) = c /\ P \in Seq(OfSu(Whole, "NM")) /\ (c = 0 <=> here = n)
      /\ \A k \in 1..c : P[k].data.text = [of |-> 0, from |-> PieceStart(here, k),
                                           len |-> PieceEnd(here, n, k) - PieceStart(here, k)]
      /\ PieceStart(here, 1) = here
      /\ \A k \in 1..c : /\ PieceStart(here, k) \in Nat /\ PieceEnd(here, n, k) \in Nat
                         /\ k < c => PieceEnd(here, n, k) = PieceStart(here, k + 1)
                         /\ k = c => PieceEnd(here, n, k) = n
  BY DEF PiecesAre
<1> HIDE DEF c
<1>2. \A k \in 1..c : /\ P[k].data.text.of = 0 /\ P[k].data.text.from = PieceStart(here, k)
                      /\ P[k].data.text.len = PieceEnd(here, n, k) - PieceStart(here, k)
  <2> TAKE k \in 1..c
  <2> DEFINE x == P[k].data.text
             u == PieceStart(here, k)
             v == PieceEnd(here, n, k) - PieceStart(here, k)
  <2>1. x = [of |-> 0, from |-> u, len |-> v]
    BY <1>1
  <2> HIDE DEF x, u, v
  <2>2. x.of = 0 /\ x.from = u /\ x.len = v
    BY ONLY <2>1
  <2>3. QED
    BY <2>2 DEF x, u, v
<1>3. CASE here = 0
  <2>1. s = <<>>
    BY <1>3
  <2>2. Q = P
    BY ONLY <1>1, <2>1, ConcatEmptySeq
  <2>3. Len(s) + Len(P) = c /\ c > 0
    BY <1>1, <1>3, <2>1
  <2>4. T = [i \in 1..c |-> P[i].data.text]
    BY <2>2, <2>3
  <2> HIDE DEF T
  <2>5. \A i \in 1..c : T[i] = P[i].data.text
    BY ONLY <2>4
  <2>6. \A i \in 2..c : T[i].from = T[i - 1].from + T[i - 1].len
    <3> TAKE i \in 2..c
    <3> DEFINE j == i - 1
    <3>1. j \in 1..c /\ i \in 1..c /\ j < c /\ i = j + 1
      BY <1>1
    <3> HIDE DEF j
    <3>2. T[i].from = PieceStart(here, j + 1) /\ T[j].from = PieceStart(here, j)
          /\ T[j].len = PieceEnd(here, n, j) - PieceStart(here, j)
      BY <1>2, <2>5, <3>1
    <3>3. PieceEnd(here, n, j) = PieceStart(here, j + 1) /\ PieceStart(here, j) \in Nat /\ PieceEnd(here, n, j) \in Nat
      BY <1>1, <3>1
    <3>4. T[i].from = T[j].from + T[j].len
      BY ONLY <3>2, <3>3
    <3>5. QED
      BY <3>4 DEF j
  <2>7. 1 \in 1..c /\ c \in 1..c
    BY ONLY <1>1, <2>3
  <2>8. T[1].from = 0
    <3>1. T[1] = P[1].data.text /\ P[1].data.text.from = PieceStart(here, 1)
      BY ONLY <1>2, <2>5, <2>7
    <3>2. PieceStart(here, 1) = here
      BY ONLY <1>1
    <3>3. QED
      BY ONLY <1>3, <3>1, <3>2
  <2>9. T[c].from + T[c].len = n
    <3>1. T[c].from = PieceStart(here, c) /\ T[c].len = PieceEnd(here, n, c) - PieceStart(here, c)
      BY <1>2, <2>5, <2>7
    <3>2. PieceEnd(here, n, c) = n /\ PieceStart(here, c) \in Nat
      BY <1>1, <2>7
    <3>3. QED
      BY ONLY <3>1, <3>2, n \in Nat
  <2>10. T = [i \in 1..c |-> T[i]]
    BY ONLY <2>4
  <2>11. \A i \in 1..c : T[i].of = 0
    BY <1>2, <2>5
  <2>12. Spells(T, 0, n)
    BY ONLY <1>1, <2>3, <2>6, <2>8, <2>9, <2>10, <2>11, Chained
  <2>13. QED
    BY <2>12 DEF NameHas, T
<1>4. CASE here > 0
  <2>1. PICK cont : s = <<NM(NamePiece(0, here), cont)>>
    BY <1>4
  <2> DEFINE e == NM(NamePiece(0, here), cont)
  <2>2. e.data.text = [of |-> 0, from |-> 0, len |-> here]
    <3>1. e.data.text = NamePiece(0, here)
      BY DEF NM, Entry
    <3>2. here - 0 = here
      OBVIOUS
    <3>3. QED
      BY <3>1, <3>2 DEF NamePiece
  <2>3. s = <<e>>
    BY <2>1
  <2> HIDE DEF e
  <2>4. e.data.text.of = 0 /\ e.data.text.from = 0 /\ e.data.text.len = here
    BY ONLY <2>2
  <2>5. Len(s) = 1 /\ s[1] = e /\ s \in Seq({e} \cup OfSu(Whole, "NM")) /\ P \in Seq({e} \cup OfSu(Whole, "NM"))
    <3>1. Len(s) = 1 /\ s[1] = e /\ s \in Seq({e} \cup OfSu(Whole, "NM"))
      BY ONLY <2>3
    <3>2. OfSu(Whole, "NM") \subseteq {e} \cup OfSu(Whole, "NM")
      OBVIOUS
    <3>3. QED
      BY ONLY <1>1, <3>1, <3>2, SeqMonotonic
  <2>6. Q[1] = e /\ \A i \in 1..c : Q[1 + i] = P[i]
    <3>1. ConcatHas({e} \cup OfSu(Whole, "NM"), s, P)
      BY ONLY <2>5, Concats
    <3>2. QED
      BY ONLY <1>1, <2>5, <3>1 DEF ConcatHas
  <2> DEFINE N == 1 + c
  <2>7. Len(s) + Len(P) = N /\ N \in Nat /\ N > 0
    BY ONLY <1>1, <2>5
  <2>8. T = [i \in 1..N |-> Q[i].data.text]
    BY <2>7
  <2> HIDE DEF T, N, Q
  <2>9. /\ T[1].of = 0 /\ T[1].from = 0 /\ T[1].len = here
        /\ \A k \in 1..c : /\ T[1 + k].of = 0 /\ T[1 + k].from = PieceStart(here, k)
                           /\ T[1 + k].len = PieceEnd(here, n, k) - PieceStart(here, k)
    <3>1. 1 \in 1..N /\ \A k \in 1..c : 1 + k \in 1..N
      BY ONLY <1>1 DEF N
    <3>2. T[1] = Q[1].data.text /\ \A k \in 1..c : T[1 + k] = Q[1 + k].data.text
      BY ONLY <2>8, <3>1
    <3>3. QED
      BY ONLY <1>2, <2>4, <2>6, <3>2
  <2>10. \A i \in 1..N : T[i].of = 0
    <3> TAKE i \in 1..N
    <3>1. i = 1 \/ (i - 1 \in 1..c /\ i = 1 + (i - 1))
      BY <1>1 DEF N
    <3>2. QED
      BY <2>9, <3>1
  <2>11. \A i \in 2..N : T[i].from = T[i - 1].from + T[i - 1].len
    <3> TAKE i \in 2..N
    <3> DEFINE j == i - 1
    <3>1. j \in 1..c /\ i = 1 + j
      BY <1>1 DEF N
    <3> HIDE DEF j
    <3>2. T[i].from = PieceStart(here, j)
      BY <2>9, <3>1
    <3>3. CASE j = 1
      <4>1. T[j].from = 0 /\ T[j].len = here /\ PieceStart(here, j) = here
        BY <1>1, <2>9, <3>3
      <4>2. QED
        BY <3>2, <4>1 DEF j
    <3>4. CASE j > 1
      <4> DEFINE l == j - 1
      <4>1. l \in 1..c /\ j = l + 1 /\ j = 1 + l /\ l < c
        BY <1>1, <3>1, <3>4
      <4> HIDE DEF l
      <4>2. T[j].from = PieceStart(here, l) /\ T[j].len = PieceEnd(here, n, l) - PieceStart(here, l)
        BY <2>9, <4>1
      <4>3. PieceEnd(here, n, l) = PieceStart(here, j) /\ PieceStart(here, l) \in Nat /\ PieceEnd(here, n, l) \in Nat
        BY <1>1, <4>1
      <4>4. T[i].from = T[j].from + T[j].len
        BY ONLY <3>2, <4>2, <4>3
      <4>5. QED
        BY <4>4 DEF j
    <3>5. j = 1 \/ j > 1
      BY ONLY <1>1, <3>1
    <3>6. QED
      BY <3>3, <3>4, <3>5
  <2>12. T[N].from + T[N].len = n
    <3>1. CASE c = 0
      <4>1. N = 1 /\ here = n
        BY <1>1, <3>1 DEF N
      <4>2. QED
        BY <2>9, <4>1
    <3>2. CASE c > 0
      <4>1. c \in 1..c
        BY ONLY <1>1, <3>2
      <4>2. T[N].from = PieceStart(here, c) /\ T[N].len = PieceEnd(here, n, c) - PieceStart(here, c)
        BY <2>9, <4>1 DEF N
      <4>3. PieceEnd(here, n, c) = n /\ PieceStart(here, c) \in Nat
        BY <1>1, <4>1
      <4>4. QED
        BY ONLY <4>2, <4>3, n \in Nat
    <3>3. c = 0 \/ c > 0
      BY ONLY <1>1
    <3>4. QED
      BY <3>1, <3>2, <3>3
  <2>13. T = [i \in 1..N |-> T[i]]
    BY ONLY <2>8
  <2>14. Spells(T, 0, n)
    BY ONLY <2>7, <2>9, <2>10, <2>11, <2>12, <2>13, Chained
  <2>15. QED
    BY <2>14 DEF NameHas, T, Q
<1>5. QED
  BY <1>3, <1>4

\* AddName has four outcomes as well.
LEMMA AddNameCases ==
  ASSUME NEW a, NEW n, NEW l, l \in Nat, n \in Nat, a.len = l
  PROVE  /\ n = 0 => AddName(a, n) = a
         /\ (n > 0 /\ 249 - l < n /\ ~a.withCe) => AddName(a, n) = DoesNotFit(a)
         /\ (n > 0 /\ ~(249 - l < n /\ ~a.withCe) /\ 249 - l <= 0) =>
              AddName(a, n) = InContinuation(a, "NM", NamePieces(0, n))
         /\ \A h \in Nat : (n > 0 /\ ~(249 - l < n /\ ~a.withCe) /\ 249 - l > 0 /\ h = Least(n, 249 - l)) =>
              AddName(a, n) = InContinuation(InRecord(a, NM(NamePiece(0, h), h < n)), "NM", NamePieces(h, n))
<1> DEFINE room == AllowedDrSize - a.len - 5
           here == IF room > 0 THEN Least(n, room) ELSE 0
           begun == IF here > 0 THEN InRecord(a, NM(NamePiece(0, here), here < n)) ELSE a
           x == DoesNotFit(a)
           y == InContinuation(begun, "NM", NamePieces(here, n))
           none == a.len < 0 \/ n = 0
           over == room < n /\ ~a.withCe
<1>1. AddName(a, n) = IF none THEN a ELSE IF over THEN x ELSE y
  BY Zenon DEF AddName
<1>2. room = 249 - l /\ (none <=> n = 0) /\ (n > 0 <=> ~(n = 0))
  BY l \in Nat, n \in Nat DEF AllowedDrSize
<1>3. /\ (249 - l > 0 /\ n > 0) => (here = Least(n, 249 - l) /\ here > 0)
      /\ 249 - l <= 0 => here = 0
  <2>1. room = 249 - l
    BY <1>2
  <2> HIDE DEF room
  <2>2. QED
    BY ONLY <2>1, l \in Nat, n \in Nat DEF Least
<1>4. /\ here > 0 => begun = InRecord(a, NM(NamePiece(0, here), here < n))
      /\ here = 0 => begun = a
  <2> DEFINE h == here
             e == InRecord(a, NM(NamePiece(0, h), h < n))
             b == begun
  <2>1. b = IF h > 0 THEN e ELSE a
    OBVIOUS
  <2> HIDE DEF h, e, b
  <2>2. h = 0 => ~(h > 0)
    OBVIOUS
  <2>3. (h > 0 => b = e) /\ (h = 0 => b = a)
    BY Zenon, <2>1, <2>2
  <2>4. QED
    BY <2>3 DEF h, e, b
<1> HIDE DEF x, y, none, over
<1>5. /\ n = 0 => AddName(a, n) = a
      /\ (n > 0 /\ over) => AddName(a, n) = x
      /\ (n > 0 /\ ~over) => AddName(a, n) = y
  BY Zenon, <1>1, <1>2
<1>6. over <=> (249 - l < n /\ ~a.withCe)
  BY <1>2 DEF over
<1> HIDE DEF here, begun
<1>7. here = 0 => y = InContinuation(a, "NM", NamePieces(0, n))
  BY Zenon, <1>4 DEF y
<1>8. here > 0 => y = InContinuation(InRecord(a, NM(NamePiece(0, here), here < n)), "NM", NamePieces(here, n))
  BY Zenon, <1>4 DEF y
<1>9. ASSUME NEW h, h \in Nat, n > 0, ~over, 249 - l > 0, h = Least(n, 249 - l)
      PROVE  AddName(a, n) = InContinuation(InRecord(a, NM(NamePiece(0, h), h < n)), "NM", NamePieces(h, n))
  <2>1. here = h /\ here > 0
    BY <1>3, <1>9
  <2>2. AddName(a, n) = y
    BY <1>5, <1>9
  <2>3. QED
    BY Zenon, <1>8, <2>1, <2>2
<1>10. (n > 0 /\ ~over /\ 249 - l <= 0) => AddName(a, n) = InContinuation(a, "NM", NamePieces(0, n))
  BY Zenon, <1>3, <1>5, <1>7
<1>11. (n > 0 /\ over) => AddName(a, n) = DoesNotFit(a)
  BY <1>5 DEF x
<1>12. QED
  BY <1>5, <1>6, <1>9, <1>10, <1>11

\* _add_name spells the name, of any length.
LEMMA NameStep ==
  ASSUME NEW q, IsRequest(q), q.start \in 34..226, NEW w, w \in BOOLEAN, NEW K, K \subseteq Kinds, NEW a, Partly(a, q, w, K),
         "NM" \notin K
  PROVE  Partly(AddName(a, q.name), q, w, K \cup {"NM"})
<1> DEFINE n == q.name
           b == AddName(a, n)
           l == a.len
<1>1. n \in Nat /\ q.name = n
  BY DEF IsRequest, Request
<1>2. "NM" \in Kinds \ {"PN"} /\ "NM" \notin Ones /\ "NM" # "SL"
  BY DEF Kinds, Ones
<1>3. \A s, t : NameHas(q, s, t) => Has(q, "NM", s, t)
  BY <1>2 DEF Has
<1>4. <<>> \in Seq(OfSu(Whole, "NM"))
  OBVIOUS
<1>5. AreaLength(<<>>) = 0
  BY AreaEmpty
<1> HIDE DEF n, b
<1>6. CASE l = -1 /\ ~w
  <2>1. b = a
    BY ONLY <1>6 DEF AddName, b
  <2>2. Partly(b, q, w, K \cup {"NM"})
    BY ONLY <1>6, <2>1 DEF Partly
  <2>3. QED
    BY <2>2 DEF b, n
<1>7. CASE Part(a, q, w, K)
  <2>1. Fit(a, q, w) /\ a.dr["NM"] = <<>> /\ a.ce["NM"] = <<>>
    BY <1>2, <1>7 DEF Part
  <2>2. /\ a.len \in Nat /\ a.len <= 254 /\ a.withCe = w /\ a.len >= 34
        /\ a = [dr |-> a.dr, ce |-> a.ce, len |-> a.len, withCe |-> w, cont |-> a.cont]
    <3>1. Weight(a.dr) \in Nat
      BY <2>1, WholeHas, WeightIs DEF Fit
    <3>2. Room(w) \in Nat
      BY DEF Room
    <3> DEFINE x == Weight(a.dr)
               y == Room(w)
    <3> HIDE DEF x, y
    <3>3. a.len = q.start + y + x /\ x \in Nat /\ y \in Nat
      BY <2>1, <3>1, <3>2 DEF Fit, x, y
    <3>4. a.len >= 34
      BY <3>3
    <3>5. QED
      BY <2>1, <3>4 DEF Fit
  <2>3. /\ n = 0 => b = a
        /\ (n > 0 /\ 249 - l < n /\ ~w) => b = DoesNotFit(a)
        /\ (n > 0 /\ ~(249 - l < n /\ ~w) /\ 249 - l <= 0) => b = InContinuation(a, "NM", NamePieces(0, n))
        /\ \A h \in Nat : (n > 0 /\ ~(249 - l < n /\ ~w) /\ 249 - l > 0 /\ h = Least(n, 249 - l)) =>
              b = InContinuation(InRecord(a, NM(NamePiece(0, h), h < n)), "NM", NamePieces(h, n))
    BY ONLY <1>1, <2>2, AddNameCases DEF b
  <2>4. CASE n = 0
    <3>1. b = a
      BY ONLY <2>3, <2>4
    <3>2. NameHas(q, <<>>, <<>>)
      <4> DEFINE T == [i \in 1..(Len(<<>>) + Len(<<>>)) |-> (<<>> \o <<>>)[i].data.text]
      <4>1. T = <<>> /\ Len(T) = 0
        OBVIOUS
      <4> HIDE DEF T
      <4>2. Spells(T, 0, q.name)
        BY <1>1, <2>4, <4>1 DEF Spells
      <4>3. QED
        BY <4>2 DEF NameHas, T
    <3>3. Has(q, "NM", <<>>, <<>>)
      BY <1>3, <3>2
    <3>4. Part(a, q, w, K \cup {"NM"})
      BY <1>7, <2>1, <3>3 DEF Part
    <3>5. QED
      BY <3>1, <3>4 DEF Partly, b, n
  <2>5. CASE n > 0 /\ 249 - l < n /\ ~w
    <3>1. DoesNotFit(a).len = -1
      BY ONLY <2>2 DEF DoesNotFit
    <3>2. Partly(b, q, w, K \cup {"NM"})
      BY ONLY <2>3, <2>5, <3>1 DEF Partly
    <3>3. QED
      BY <3>2 DEF b, n
  <2>6. CASE n > 0 /\ ~(249 - l < n /\ ~w) /\ 249 - l <= 0
    <3> DEFINE P == NamePieces(0, n)
               c == InContinuation(a, "NM", P)
               s == <<>>
    <3>1. b = c
      BY ONLY <2>3, <2>6
    <3>2. PiecesAre(0, n, P)
      BY <1>1, NamePiecesAre
    <3>3. P \in Seq(OfSu(Whole, "NM"))
      BY <3>2 DEF PiecesAre
    <3> HIDE DEF P
    <3>4. NameHas(q, <<>>, P)
      <4>1. 0 \in Nat /\ 0 <= n /\ (0 = 0 => s = <<>>) /\ (0 > 0 => \E cont : s = <<NM(NamePiece(0, 0), cont)>>)
        BY <1>1
      <4> HIDE DEF s
      <4>2. NameHas(q, s, P)
        BY ONLY <1>1, <2>6, <3>2, <4>1, NameSpelled
      <4>3. QED
        BY <4>2 DEF s
    <3>5. Grown(a, c, "NM", <<>>, P)
      <4> DEFINE e == [su |-> "NM", len |-> 0]
      <4>1. e.su = "NM" /\ e.len \in Nat
        OBVIOUS
      <4> HIDE DEF e
      <4>2. QED
        BY ONLY <1>2, <2>1, <3>3, <4>1, GrownWays
    <3>6. w
      BY <1>1, <2>2, <2>6
    <3>7. Growing(a, c, q, w, K, "NM", s, P)
      BY <1>2, <1>3, <1>4, <1>5, <1>7, <2>2, <3>3, <3>4, <3>5, <3>6 DEF Growing
    <3> HIDE DEF c, s
    <3>8. Part(c, q, w, K \cup {"NM"})
      BY ONLY <3>7, PartGrown
    <3>9. QED
      BY <3>1, <3>8 DEF Partly, b, n
  <2>7. CASE n > 0 /\ ~(249 - l < n /\ ~w) /\ 249 - l > 0
    <3> DEFINE h == Least(n, 249 - l)
               P == NamePieces(h, n)
               e == NM(NamePiece(0, h), h < n)
               c == InContinuation(InRecord(a, e), "NM", P)
               s == <<e>>
    <3>1. /\ h \in Nat /\ h > 0 /\ h <= n /\ h <= 249 - l /\ h - 0 <= 250 /\ h - 0 = h
          /\ 249 - l >= n => h = n
      BY ONLY <1>1, <2>2, <2>7 DEF Least
    <3>2. b = c
      BY ONLY <2>3, <2>7, <3>1
    <3> HIDE DEF h
    <3>3. PiecesAre(h, n, P)
      BY ONLY <1>1, <3>1, NamePiecesAre
    <3>4. P \in Seq(OfSu(Whole, "NM")) /\ (h = n => Len(P) = 0)
      BY ONLY <3>3 DEF PiecesAre
    <3>5. e \in OfSu(Whole, "NM") /\ e.len = 5 + h /\ e.su = "NM"
      <4>1. (h < n) \in BOOLEAN /\ 0 \in Nat /\ 0 < h
        BY <3>1
      <4> DEFINE x == h < n
      <4>3. x \in BOOLEAN
        OBVIOUS
      <4> DEFINE z == 0
      <4>5. z \in Nat /\ z < h /\ h - z <= 250 /\ h \in Nat
        BY <3>1
      <4> HIDE DEF x, z
      <4>6. NM(NamePiece(z, h), x) \in OfSu(Whole, "NM") /\ NM(NamePiece(z, h), x).len = 5 + (h - z)
            /\ NM(NamePiece(z, h), x).su = "NM"
        BY ONLY <4>3, <4>5, NamePieceWhole
      <4>2. NM(NamePiece(0, h), x) \in OfSu(Whole, "NM") /\ NM(NamePiece(0, h), x).len = 5 + (h - 0)
            /\ NM(NamePiece(0, h), x).su = "NM"
        BY <4>6 DEF z
      <4>4. QED
        BY <3>1, <4>2 DEF x
    <3>6. \E cont : s = <<NM(NamePiece(0, h), cont)>>
      OBVIOUS
    <3> HIDE DEF P, e
    <3>7. NameHas(q, s, P)
      <4> HIDE DEF s
      <4>1. QED
        BY ONLY <1>1, <2>7, <3>1, <3>3, <3>6, NameSpelled
    <3>8. Grown(a, c, "NM", s, P)
      BY ONLY <1>2, <2>1, <3>1, <3>4, <3>5, GrownWays
    <3>9. s \in Seq(OfSu(Whole, "NM")) /\ AreaLength(s) = e.len
      BY <3>1, <3>5, AreaOne
    <3>10. w \/ P = <<>>
      <4>1. CASE ~w
        <5>1. h = n
          BY ONLY <1>1, <2>2, <2>7, <3>1, <4>1
        <5>2. P = <<>>
          BY ONLY <3>4, <5>1, EmptySeq
        <5>3. QED
          BY <5>2
      <4>2. QED
        BY <4>1
    <3> HIDE DEF c, s
    <3>11. a.len + AreaLength(s) <= 254
      BY ONLY <2>2, <3>1, <3>5, <3>9
    <3>12. Growing(a, c, q, w, K, "NM", s, P)
      BY <1>2, <1>3, <1>7, <3>4, <3>7, <3>8, <3>9, <3>10, <3>11 DEF Growing
    <3>13. Part(c, q, w, K \cup {"NM"})
      BY ONLY <3>12, PartGrown
    <3>14. QED
      BY <3>2, <3>13 DEF Partly, b, n
  <2>8. (n = 0 \/ n > 0) /\ (249 - l <= 0 \/ 249 - l > 0)
    BY ONLY <1>1, <2>2
  <2>9. QED
    BY ONLY <2>4, <2>5, <2>6, <2>7, <2>8
<1>8. (a.len = -1 /\ ~w) \/ Part(a, q, w, K)
  BY DEF Partly
<1>9. QED
  BY <1>6, <1>7, <1>8

-----------------------------------------------------------------------------
(* The path that the SL entries read as, while they are made.               *)

PathText == [kind: {"dot", "dotdot", "text"}, of: Nat, from: Nat, len: Nat]
Texts == Seq(PathText)
Path == Seq(Texts)

GluedMore(s, t, x) == /\ Append(t, x) \in Path /\ Append(t, x) # <<>> /\ (t # <<>> => Glue(s, t) # <<>>)
                      /\ Glue(s, t) \in Path /\ Glue(s, Append(t, x)) = Append(Glue(s, t), x)
LEMMA GlueAppend ==
  ASSUME NEW s, NEW t, s \in Path, t \in Path, s = <<>> \/ t # <<>>, NEW x, x \in Texts
  PROVE  GluedMore(s, t, x)
<1> DEFINE u == Append(t, x)
<1>1. u \in Path /\ Len(u) = Len(t) + 1 /\ Len(t) \in Nat
  BY AppendProperties DEF Path
<1>2. u # <<>>
  <2>1. Len(u) # 0
    BY ONLY <1>1
  <2> HIDE DEF u
  <2>2. QED
    BY ONLY <2>1, Filled
<1>3. CASE s = <<>>
  <2>1. Glue(s, t) = t /\ Glue(s, u) = u
    BY ONLY <1>3 DEF Glue
  <2>2. QED
    BY <1>1, <1>2, <2>1 DEF GluedMore
<1>4. CASE s # <<>>
  <2>1. t # <<>>
    BY <1>4
  <2> DEFINE h == Head(t)
             l == Tail(t)
             a == Front(s)
             b == <<Last(s) \o h>>
             p == a \o b
  <2>2. h \in Texts /\ l \in Path /\ Head(u) = h /\ Tail(u) = Append(l, x)
    <3>1. t \in Seq(Texts)
      BY DEF Path
    <3>2. h \in Texts /\ l \in Seq(Texts) /\ Head(u) = h /\ Tail(u) = Append(l, x)
      BY ONLY <2>1, <3>1, x \in Texts
    <3>3. QED
      BY <3>2 DEF Path
  <2>3. Len(s) \in Nat /\ Len(s) # 0 /\ Last(s) \in Texts /\ a \in Path
    <3>1. s \in Seq(Texts)
      BY DEF Path
    <3>2. Len(s) \in Nat /\ Len(s) # 0 /\ Last(s) \in Texts /\ Front(s) \in Seq(Texts)
      BY ONLY <1>4, <3>1 DEF Last, Front
    <3>3. QED
      BY <3>2 DEF Path
  <2>4. Last(s) \o h \in Texts
    BY <2>2, <2>3, ConcatProperties DEF Texts
  <2>5. b \in Path
    BY <2>4 DEF Path
  <2> HIDE DEF h, l, a, b
  <2>6. p \in Path
    BY <2>3, <2>5, ConcatProperties DEF Path
  <2>7. Glue(s, t) = p \o l
    BY <1>4, Zenon DEF Glue, h, l, a, b
  <2>8. Glue(s, u) = p \o Append(l, x)
    <3>1. Glue(s, u) = Front(s) \o <<Last(s) \o Head(u)>> \o Tail(u)
      BY <1>4, Zenon DEF Glue
    <3>2. QED
      BY <2>2, <3>1, Zenon DEF a, b
  <2> HIDE DEF p
  <2>9. AppendedLast(p, l, x) /\ p \o l \in Path
    <3>1. p \in Seq(Texts) /\ l \in Seq(Texts) /\ p \o l \in Seq(Texts)
      BY <2>2, <2>6, ConcatProperties DEF Path
    <3>2. QED
      BY <3>1, ConcatAppend DEF Path
  <2>10. Glue(s, t) # <<>>
    <3>1. a \in Seq(Texts) /\ b \in Seq(Texts) /\ p \in Seq(Texts) /\ l \in Seq(Texts) /\ Len(b) = 1
      BY <2>2, <2>3, <2>5, <2>6 DEF Path, b
    <3>2. Len(p) = Len(a) + 1 /\ Len(a) \in Nat
      <4>1. ConcatHas(Texts, a, b)
        BY ONLY <3>1, Concats
      <4>2. QED
        BY ONLY <3>1, <4>1 DEF ConcatHas, p
    <3>3. Len(p \o l) = Len(p) + Len(l) /\ Len(l) \in Nat
      <4>1. ConcatHas(Texts, p, l)
        BY ONLY <3>1, Concats
      <4>2. QED
        BY ONLY <4>1 DEF ConcatHas
    <3>4. Len(p \o l) # 0
      BY ONLY <3>2, <3>3
    <3>5. p \o l # <<>>
      BY ONLY <3>4, Filled
    <3>6. QED
      BY <2>7, <3>5
  <2>11. QED
    BY <1>1, <1>2, <2>7, <2>8, <2>9, <2>10 DEF GluedMore, AppendedLast
<1>5. QED
  BY <1>3, <1>4

\* A path with a text more in its last part.
Longer(Q, P, x) ==
  /\ Q \in Path /\ Len(Q) = Len(P) /\ Len(P) \in Nat /\ Len(P) > 0
  /\ \A i \in 1..(Len(P) - 1) : Q[i] = P[i]
  /\ Q[Len(P)] = Append(P[Len(P)], x)
\* A text that is glued to a path makes its last component longer.
LEMMA GlueOne ==
  ASSUME NEW s, s \in Path, s # <<>>, NEW x, x \in PathText, NEW o, o \in Path
  PROVE  Longer(o \o Glue(s, <<<<x>>>>), o \o s, x)
<1> DEFINE n == Len(s)
           m == Len(o)
           v == Append(Last(s), x)
           g == Front(s) \o <<v>>
           P == o \o s
           Q == o \o g
<1>1. s \in Seq(Texts) /\ o \in Seq(Texts)
  BY DEF Path
<1>2. n \in Nat /\ n > 0 /\ Last(s) \in Texts /\ Last(s) = s[n]
  BY ONLY <1>1, s # <<>> DEF Last
<1>3. v \in Texts
  BY <1>2, AppendProperties DEF Texts
<1>4. Front(s) \in Seq(Texts) /\ Len(Front(s)) = n - 1 /\ \A i \in 1..(n - 1) : Front(s)[i] = s[i]
  <2> DEFINE f == SubSeq(s, 1, n - 1)
  <2>1. n - 1 \in Int /\ 1 \in Int /\ \A i \in 1..(n - 1) : s[i] \in Texts
    BY ONLY <1>1, <1>2
  <2>2. f \in Seq(Texts) /\ Len(f) = n - 1 /\ \A i \in 1..(n - 1) : f[i] = s[i]
    <3> DEFINE k == n - 1
    <3>1. k \in Int /\ 1 \in Int /\ \A i \in 1..k : s[i] \in Texts
      BY ONLY <2>1
    <3>2. /\ SubSeq(s, 1, k) \in Seq(Texts) /\ Len(SubSeq(s, 1, k)) = (IF 1 <= k THEN k - 1 + 1 ELSE 0)
          /\ \A i \in 1..(k - 1 + 1) : SubSeq(s, 1, k)[i] = s[1 + i - 1]
      <4> HIDE DEF k
      <4>1. QED
        BY ONLY <3>1, SubSeqProperties
    <3>3. k \in Nat /\ (IF 1 <= k THEN k - 1 + 1 ELSE 0) = k /\ k - 1 + 1 = k
          /\ \A i \in 1..k : 1 + i - 1 = i
      BY ONLY <1>2
    <3> HIDE DEF k
    <3>4. SubSeq(s, 1, k) \in Seq(Texts) /\ Len(SubSeq(s, 1, k)) = k /\ \A i \in 1..k : SubSeq(s, 1, k)[i] = s[i]
      BY ONLY <3>2, <3>3
    <3>5. QED
      BY <3>4 DEF k
  <2>3. f = Front(s)
    BY DEF Front
  <2> HIDE DEF f
  <2>4. QED
    BY ONLY <2>2, <2>3
<1>5. Glue(s, <<<<x>>>>) = g
  <2> DEFINE t == <<<<x>>>>
  <2>1. Head(t) = <<x>> /\ Tail(t) = <<>>
    OBVIOUS
  <2>2. Last(s) \o <<x>> = v
    <3>1. Last(s) \in Seq(PathText)
      BY <1>2 DEF Texts
    <3>2. QED
      BY ONLY <3>1, x \in PathText
  <2>3. g \o <<>> = g
    <3>1. <<v>> \in Seq(Texts)
      BY ONLY <1>3
    <3>2. g \in Seq(Texts)
      BY ONLY <1>4, <3>1, ConcatProperties
    <3>3. QED
      BY ONLY <3>2, ConcatEmptySeq
  <2> HIDE DEF t
  <2>4. Glue(s, t) = Front(s) \o <<Last(s) \o Head(t)>> \o Tail(t)
    BY Zenon DEF Glue
  <2>5. Glue(s, t) = g
    BY <2>1, <2>2, <2>3, <2>4, Zenon
  <2>6. QED
    BY <2>5 DEF t
<1> HIDE DEF v
<1>6. <<v>> \in Seq(Texts) /\ Len(<<v>>) = 1 /\ <<v>>[1] = v
  BY ONLY <1>3
<1>7. ConcatHas(Texts, Front(s), <<v>>)
  BY ONLY <1>4, <1>6, Concats
<1>8. g \in Seq(Texts) /\ Len(g) = n /\ (\A i \in 1..(n - 1) : g[i] = s[i]) /\ g[n] = v
  <2>1. Len(g) = (n - 1) + 1 /\ g[(n - 1) + 1] = v /\ (\A i \in 1..(n - 1) : g[i] = Front(s)[i])
    BY ONLY <1>4, <1>6, <1>7 DEF ConcatHas
  <2>2. (n - 1) + 1 = n
    BY ONLY <1>2
  <2>3. g \in Seq(Texts)
    BY ONLY <1>7 DEF ConcatHas
  <2>4. QED
    BY ONLY <1>4, <2>1, <2>2, <2>3
<1> HIDE DEF g
<1>9. ConcatHas(Texts, o, s) /\ ConcatHas(Texts, o, g)
  BY ONLY <1>1, <1>8, Concats
<1>10. /\ Q \in Seq(Texts) /\ Len(Q) = m + n /\ Len(P) = m + n /\ m \in Nat
       /\ \A i \in 1..m : Q[i] = o[i] /\ P[i] = o[i]
       /\ \A i \in 1..n : Q[m + i] = g[i] /\ P[m + i] = s[i]
  BY ONLY <1>8, <1>9 DEF ConcatHas
<1> HIDE DEF P, Q, m, n
<1>11. \A i \in 1..(m + n - 1) : Q[i] = P[i]
  <2> TAKE i \in 1..(m + n - 1)
  <2>1. CASE i <= m
    <3>1. i \in 1..m
      BY <1>10, <2>1
    <3>2. QED
      BY ONLY <1>10, <3>1
  <2>2. CASE i > m
    <3> DEFINE j == i - m
    <3>1. j \in 1..(n - 1) /\ j \in 1..n /\ i = m + j
      BY <1>2, <1>10, <2>2
    <3> HIDE DEF j
    <3>2. QED
      BY ONLY <1>8, <1>10, <3>1
  <2>3. i <= m \/ i > m
    BY ONLY <1>2, <1>10, i \in 1..(m + n - 1)
  <2>4. QED
    BY <2>1, <2>2, <2>3
<1>12. Q[m + n] = v /\ P[m + n] = s[n]
  <2>1. n \in 1..n
    BY ONLY <1>2
  <2>2. QED
    BY ONLY <1>8, <1>10, <2>1
<1>13. m + n \in Nat /\ m + n > 0
  BY ONLY <1>2, <1>10
<1>14. Longer(Q, P, x)
  BY ONLY <1>2, <1>10, <1>11, <1>12, <1>13 DEF Longer, v, Path
<1>15. QED
  BY <1>5, <1>14 DEF P, Q

Out(full) == PathRead(full).out
Saved(full) == PathRead(full).saved
Names(comps) == SlRead(comps).names
Pth(full, comps) == Out(full) \o Glue(Saved(full), Names(comps))
TextsOf(c) == IF c.kind = "root" THEN <<>> ELSE <<TextOf(c)>>
ReadOk(full, comps) ==
  /\ Out(full) \in Path /\ Saved(full) \in Path /\ Names(comps) \in Path /\ Pth(full, comps) \in Path
  /\ SlRead(comps).cont = FALSE
  /\ comps = <<>> => Saved(full) = <<>> /\ Names(comps) = <<>>
  /\ comps # <<>> => Names(comps) # <<>>
LEMMA TextsTyped ==
  ASSUME NEW c, c \in Piece
  PROVE  TextsOf(c) \in Texts /\ (c.kind # "root" => TextOf(c) \in PathText)
<1>1. c.kind # "root" => TextOf(c) \in PathText
  BY DEF Piece, TextOf, PathText
<1>2. QED
  BY <1>1 DEF TextsOf, Texts

\* A component more.
AddedTo(full, comps, c) ==
  /\ ReadOk(full, Append(comps, c))
  /\ Pth(full, Append(comps, c)) = Append(Pth(full, comps), TextsOf(c))
\* What is read of the components when one is added to the last entry.
LEMMA ReadAdd ==
  ASSUME NEW full, NEW comps, comps \in Seq(Piece), ReadOk(full, comps), NEW c, c \in Piece, c.cont = FALSE,
         c.kind = "root" => comps = <<>>
  PROVE  AddedTo(full, comps, c)
<1> DEFINE d == Append(comps, c)
           N == Names(comps)
           s == Saved(full)
           o == Out(full)
           x == TextsOf(c)
<1>1. x \in Texts
  BY TextsTyped
<1>2. N \in Path /\ s \in Path /\ o \in Path /\ (s = <<>> \/ N # <<>>) /\ (comps = <<>> => N = <<>>)
  BY DEF ReadOk
<1>3. Names(d) = Append(N, x) /\ SlRead(d).cont = FALSE
  <2> DEFINE r == SlRead(comps)
  <2>1. SlRead(d) = AddText(r, c)
    BY SlReadAppend
  <2>2. r.cont = FALSE /\ N = r.names
    BY DEF ReadOk, Names
  <2> HIDE DEF r, N, d
  <2>3. AddText(r, c).cont = FALSE
    BY DEF AddText
  <2>4. AddText(r, c).names = Append(IF c.kind = "root" THEN <<>> ELSE N, x)
    BY ONLY <2>2 DEF AddText, TextsOf
  <2>5. (IF c.kind = "root" THEN <<>> ELSE N) = N
    BY <1>2
  <2>6. QED
    BY ONLY <2>1, <2>3, <2>4, <2>5 DEF Names
<1> HIDE DEF N, s, o, x
<1>4. GluedMore(s, N, x)
  BY ONLY <1>1, <1>2, GlueAppend
<1>5. Pth(full, d) = o \o Append(Glue(s, N), x) /\ Pth(full, comps) = o \o Glue(s, N)
  BY ONLY <1>3, <1>4 DEF Pth, GluedMore, N, s, o
<1>6. AppendedLast(o, Glue(s, N), x)
  <2>1. o \in Seq(Texts) /\ Glue(s, N) \in Seq(Texts)
    BY ONLY <1>2, <1>4 DEF GluedMore, Path
  <2>2. QED
    BY ONLY <1>1, <2>1, ConcatAppend
<1>7. Pth(full, d) = Append(Pth(full, comps), x)
  BY ONLY <1>5, <1>6 DEF AppendedLast
<1>8. Pth(full, d) \in Path
  <2>1. Pth(full, comps) \in Seq(Texts)
    BY DEF ReadOk, Path
  <2>2. QED
    BY ONLY <1>1, <1>7, <2>1, AppendProperties DEF Path
<1>9. d # <<>>
  <2>1. Len(d) = Len(comps) + 1 /\ Len(comps) \in Nat
    BY AppendProperties
  <2>2. QED
    BY <2>1, Filled
<1> HIDE DEF d
<1>10. ReadOk(full, d)
  BY ONLY <1>2, <1>3, <1>4, <1>8, <1>9 DEF ReadOk, GluedMore, s, o
<1>11. QED
  BY ONLY <1>7, <1>10 DEF AddedTo, d, x

-----------------------------------------------------------------------------
(* SL entries: their lengths, and what a full one does to the path.          *)

Links == OfSu(Whole, "SL")
Plain(comps) == comps \in Seq(Piece) /\ \A i \in 1..Len(comps) : comps[i].cont = FALSE

LEMMA PieceLength ==
  ASSUME NEW c, c \in Piece
  PROVE  /\ ComponentLength(c) \in Nat /\ ComponentLength(c) >= 2
         /\ c.kind = "text" => ComponentLength(c) = 2 + c.len
         /\ c.kind # "text" => ComponentLength(c) = 2
<1>1. c.len \in Nat
  BY DEF Piece
<1>2. (c.kind = "text" => ComponentLength(c) = 2 + c.len) /\ (c.kind # "text" => ComponentLength(c) = 2)
  BY <1>1 DEF ComponentLength
<1>3. QED
  BY ONLY <1>1, <1>2, c.kind = "text" \/ c.kind # "text"

LEMMA LinkEmpty == SLLength(<<>>) = 5
<1>1. [i \in 1..Len(<<>>) |-> ComponentLength(<<>>[i])] = <<>>
  OBVIOUS
<1>2. QED
  BY <1>1, TotalEmpty DEF SLLength

Lengths(comps) == [i \in 1..Len(comps) |-> ComponentLength(comps[i])]
LEMMA LinkLength ==
  ASSUME NEW comps, comps \in Seq(Piece)
  PROVE  Lengths(comps) \in Seq(Nat) /\ SLLength(comps) \in Nat /\ SLLength(comps) >= 5
<1>1. \A i \in 1..Len(comps) : ComponentLength(comps[i]) \in Nat
  <2> TAKE i \in 1..Len(comps)
  <2>1. comps[i] \in Piece
    BY ElementOfSeq
  <2>2. QED
    BY <2>1, PieceLength
<1>2. Len(comps) \in Nat
  BY LenProperties
<1>3. Lengths(comps) \in Seq(Nat)
  BY ONLY <1>1, <1>2 DEF Lengths
<1>4. Total(Lengths(comps)) \in Nat
  BY <1>3, TotalType
<1>5. QED
  BY <1>3, <1>4 DEF SLLength, Lengths

\* A component makes the entry longer by its own length.
LEMMA LinkLonger ==
  ASSUME NEW comps, comps \in Seq(Piece), NEW c, c \in Piece
  PROVE  SLLength(Append(comps, c)) = SLLength(comps) + ComponentLength(c)
<1> DEFINE d == Append(comps, c)
           f == Lengths(comps)
           x == ComponentLength(c)
           n == Len(comps)
<1>1. n \in Nat /\ Len(d) = n + 1 /\ d[n + 1] = c /\ \A i \in 1..n : d[i] = comps[i]
  BY AppendProperties, LenProperties
<1>2. f \in Seq(Nat) /\ x \in Nat /\ Len(f) = n /\ \A i \in 1..n : f[i] = ComponentLength(comps[i])
  <2>1. f \in Seq(Nat) /\ x \in Nat
    BY LinkLength, PieceLength
  <2>2. f = [i \in 1..n |-> ComponentLength(comps[i])]
    BY DEF Lengths
  <2> HIDE DEF f, n
  <2>3. Len(f) = n /\ \A i \in 1..n : f[i] = ComponentLength(comps[i])
    BY ONLY <1>1, <2>2
  <2>4. QED
    BY <2>1, <2>3
<1> HIDE DEF f, x
<1>3. Lengths(d) = Append(f, x)
  <2> DEFINE g == Lengths(d)
             h == Append(f, x)
  <2>1. g = [i \in 1..(n + 1) |-> ComponentLength(d[i])]
    BY ONLY <1>1 DEF Lengths
  <2>2. Len(h) = n + 1 /\ h[n + 1] = x /\ \A i \in 1..n : h[i] = f[i]
    BY ONLY <1>1, <1>2, AppendProperties
  <2>3. h = [i \in 1..(n + 1) |-> h[i]]
    <3>1. h \in Seq(Nat)
      BY ONLY <1>2, AppendProperties
    <3> HIDE DEF h
    <3>2. QED
      BY ONLY <2>2, <3>1
  <2> HIDE DEF g, h, d, n
  <2>4. \A i \in 1..(n + 1) : ComponentLength(d[i]) = h[i]
    <3> TAKE i \in 1..(n + 1)
    <3>1. i \in 1..n \/ i = n + 1
      BY ONLY <1>1, i \in 1..(n + 1)
    <3>2. QED
      BY <1>1, <1>2, <2>2, <3>1 DEF x
  <2>5. g = h
    BY ONLY <2>1, <2>3, <2>4
  <2>6. QED
    BY <2>5 DEF g, h
<1>4. Total(Append(f, x)) = Total(f) + x /\ Total(f) \in Nat
  BY ONLY <1>2, TotalAppend, TotalType
<1>5. SLLength(d) = 5 + Total(Lengths(d)) /\ SLLength(comps) = 5 + Total(Lengths(comps))
  BY DEF SLLength, Lengths
<1> HIDE DEF d
<1>6. SLLength(d) = SLLength(comps) + x
  BY ONLY <1>2, <1>3, <1>4, <1>5 DEF f
<1>7. QED
  BY <1>6 DEF d, x

LEMMA LinkWhole ==
  ASSUME NEW comps, comps \in Seq(Piece), SLLength(comps) <= 255, NEW b, b \in BOOLEAN
  PROVE  /\ SL(comps, b) \in Links /\ SL(comps, b).len = SLLength(comps) /\ SL(comps, b).su = "SL"
         /\ SL(comps, b).data.comps = comps /\ SL(comps, b).data.cont = b
<1> DEFINE l == SLLength(comps)
           d == [comps |-> comps, cont |-> b]
<1>1. l \in Nat /\ l >= 5
  BY LinkLength
<1>2. l \in 4..255
  <2>1. l <= 255
    OBVIOUS
  <2> HIDE DEF l
  <2>2. QED
    BY ONLY <1>1, <2>1
<1>3. d \in Data
  <2>1. d \in LinkData
    BY DEF LinkData
  <2>2. QED
    BY <2>1 DEF Data
<1>4. d.comps = comps /\ d.cont = b
  OBVIOUS
<1> HIDE DEF l, d
<1>5. Accepts(Entry("SL", l, d))
  BY <1>1 DEF Accepts, Entry
<1>6. "SL" \in Kinds
  BY DEF Kinds
<1>7. Entry("SL", l, d) \in OfSu(Whole, "SL") /\ Entry("SL", l, d).su = "SL" /\ Entry("SL", l, d).len = l
      /\ Entry("SL", l, d).data = d
  BY ONLY <1>2, <1>3, <1>5, <1>6, Built
<1>8. SL(comps, b) = Entry("SL", l, d)
  BY DEF SL, l, d
<1>9. QED
  BY ONLY <1>4, <1>7, <1>8 DEF Links, l

PushedOn(full, comps, b) ==
  LET more == Append(full, SL(comps, b)) IN
  /\ more \in Seq(Links) /\ Out(more) = Pth(full, comps) /\ Saved(more) = <<>>
  /\ ReadOk(more, <<>>) /\ Pth(more, <<>>) = Pth(full, comps)
\* An entry that ends with a component is pushed to the entries that are full.
LEMMA ReadPush ==
  ASSUME NEW full, full \in Seq(Links), NEW comps, Plain(comps), comps # <<>>, ReadOk(full, comps),
         SLLength(comps) <= 255, NEW b, b \in BOOLEAN
  PROVE  PushedOn(full, comps, b)
<1> DEFINE e == SL(comps, b)
           more == Append(full, e)
           r == PathRead(full)
           all == Glue(Saved(full), Names(comps))
<1>1. e \in Links /\ e.data.comps = comps
  BY LinkWhole DEF Plain
<1> HIDE DEF e
<1>2. more \in Seq(Links)
  BY ONLY <1>1, full \in Seq(Links), AppendProperties
<1>3. PathRead(more) = AddEntry(r, e)
  BY ONLY <1>1, full \in Seq(Links), PathReadAppend
<1>4. Last(comps).cont = FALSE
  <2>1. comps \in Seq(Piece) /\ \A i \in 1..Len(comps) : comps[i].cont = FALSE
    BY DEF Plain
  <2>2. Len(comps) \in 1..Len(comps)
    BY ONLY <2>1, comps # <<>>
  <2>3. QED
    BY ONLY <2>1, <2>2 DEF Last
<1>5. SlName(e) = Names(comps)
  BY <1>1 DEF SlName, Names
<1>6. AddEntry(r, e) = [out |-> r.out \o all, saved |-> <<>>]
  <2>1. AddEntry(r, e) = IF Last(e.data.comps).cont THEN [out |-> r.out, saved |-> all]
                         ELSE [out |-> r.out \o all, saved |-> <<>>]
    BY <1>5, Zenon DEF AddEntry, Saved
  <2>2. ~Last(e.data.comps).cont
    BY ONLY <1>1, <1>4
  <2> HIDE DEF all
  <2>3. QED
    BY ONLY <2>1, <2>2
<1>7. Pth(full, comps) = r.out \o all
  BY Zenon DEF Pth, Out
<1> HIDE DEF r, all, more
<1>8. Out(more) = Pth(full, comps) /\ Saved(more) = <<>>
  BY ONLY <1>3, <1>6, <1>7 DEF Out, Saved
<1>9. Names(<<>>) = <<>> /\ SlRead(<<>>).cont = FALSE
  BY SlReadEmpty DEF Names
<1>10. Glue(<<>>, <<>>) = <<>>
  BY DEF Glue
<1>11. Pth(full, comps) \in Seq(Texts)
  BY DEF ReadOk, Path
<1>12. Pth(more, <<>>) = Pth(full, comps)
  <2>1. Pth(more, <<>>) = Pth(full, comps) \o <<>>
    BY ONLY <1>8, <1>9, <1>10 DEF Pth
  <2>2. QED
    BY ONLY <1>11, <2>1, ConcatEmptySeq
<1>13. <<>> \in Path
  BY DEF Path
<1>14. ReadOk(more, <<>>)
  BY ONLY <1>8, <1>9, <1>11, <1>12, <1>13 DEF ReadOk, Path
<1>15. QED
  BY <1>2, <1>8, <1>12, <1>14 DEF PushedOn, more, e

Midst(comps) == [comps EXCEPT ![Len(comps)].cont = TRUE]
MidstIs(comps) == /\ Midst(comps) \in Seq(Piece) /\ Last(Midst(comps)).cont = TRUE
                  /\ SLLength(Midst(comps)) = SLLength(comps) /\ Names(Midst(comps)) = Names(comps)
LEMMA MidstSame ==
  ASSUME NEW comps, comps \in Seq(Piece), comps # <<>>
  PROVE  MidstIs(comps)
<1> DEFINE n == Len(comps)
           d == Midst(comps)
           f == Front(comps)
           c == comps[n]
           x == [c EXCEPT !.cont = TRUE]
<1>1. n \in Nat /\ n > 0 /\ n \in 1..n
  BY ONLY comps \in Seq(Piece), comps # <<>>
<1>2. c \in Piece
  BY <1>1, ElementOfSeq
<1>3. x \in Piece /\ x.cont = TRUE /\ x.kind = c.kind /\ x.of = c.of /\ x.from = c.from /\ x.len = c.len
  BY <1>2 DEF Piece
<1>4. d = [i \in 1..n |-> IF i = n THEN x ELSE comps[i]]
  <2>1. comps = [i \in 1..n |-> comps[i]]
    BY ONLY comps \in Seq(Piece)
  <2>2. d = [comps EXCEPT ![n] = x]
    BY DEF Midst
  <2> HIDE DEF d, n, x, c
  <2>3. QED
    BY ONLY <2>1, <2>2
<1> HIDE DEF d, x
<1>5. d \in Seq(Piece) /\ Len(d) = n /\ d[n] = x /\ \A i \in 1..n : i # n => d[i] = comps[i]
  <2>1. \A i \in 1..n : comps[i] \in Piece
    BY ElementOfSeq
  <2> HIDE DEF n, c
  <2>2. \A i \in 1..n : (IF i = n THEN x ELSE comps[i]) \in Piece
    BY ONLY <1>3, <2>1
  <2>3. d \in Seq(Piece) /\ Len(d) = n
    BY ONLY <1>1, <1>4, <2>2
  <2>4. d[n] = x /\ \A i \in 1..n : i # n => d[i] = comps[i]
    BY ONLY <1>1, <1>4
  <2>5. QED
    BY <2>3, <2>4
<1>6. Last(d).cont = TRUE
  BY <1>3, <1>5 DEF Last
<1>7. SLLength(d) = SLLength(comps)
  <2>1. ComponentLength(x) = ComponentLength(c)
    BY ONLY <1>3 DEF ComponentLength
  <2>2. \A i \in 1..n : ComponentLength(d[i]) = ComponentLength(comps[i])
    <3> HIDE DEF n
    <3>1. QED
      BY ONLY <1>5, <2>1 DEF c
  <2>3. [i \in 1..Len(d) |-> ComponentLength(d[i])] = [i \in 1..Len(comps) |-> ComponentLength(comps[i])]
    BY ONLY <1>5, <2>2
  <2>4. QED
    BY ONLY <2>3 DEF SLLength
<1>8. f \in Seq(Piece) /\ comps = Append(f, c) /\ d = Append(f, x)
  <2> DEFINE k == n - 1
  <2>1. k \in Int /\ k \in Nat /\ 1 \in Int /\ (IF 1 <= k THEN k - 1 + 1 ELSE 0) = k /\ k - 1 + 1 = k /\ k + 1 = n
        /\ \A i \in 1..k : i \in 1..n /\ 1 + i - 1 = i /\ i # n
    <3>1. k \in Nat /\ k + 1 = n
      BY ONLY <1>1
    <3> HIDE DEF k, n
    <3>2. \A i \in 1..k : i \in 1..n /\ 1 + i - 1 = i /\ i # n
      BY ONLY <3>1
    <3>3. k \in Int /\ 1 \in Int /\ k - 1 + 1 = k
      BY ONLY <3>1
    <3>4. (IF 1 <= k THEN k - 1 + 1 ELSE 0) = k
      BY ONLY <3>1
    <3>5. QED
      BY ONLY <3>1, <3>2, <3>3, <3>4
  <2>2. \A i \in 1..k : comps[i] \in Piece
    BY <2>1, ElementOfSeq
  <2>3. f = SubSeq(comps, 1, k)
    BY DEF Front
  <2> HIDE DEF k, f, n
  <2>4. /\ f \in Seq(Piece) /\ Len(f) = (IF 1 <= k THEN k - 1 + 1 ELSE 0)
        /\ \A i \in 1..(k - 1 + 1) : f[i] = comps[1 + i - 1]
    BY ONLY <2>1, <2>2, <2>3, SubSeqProperties
  <2>5. f \in Seq(Piece) /\ Len(f) = k /\ \A i \in 1..k : f[i] = comps[i]
    BY ONLY <2>1, <2>4
  <2>6. ASSUME NEW y, y \in Piece, NEW s, s \in Seq(Piece), Len(s) = n, s[n] = y, \A i \in 1..k : s[i] = comps[i]
        PROVE  s = Append(f, y)
    <3> DEFINE t == Append(f, y)
    <3>1. t \in Seq(Piece) /\ Len(t) = n /\ t[n] = y /\ \A i \in 1..k : t[i] = f[i]
      BY ONLY <2>1, <2>5, <2>6, AppendProperties
    <3> HIDE DEF t
    <3>2. \A i \in 1..n : i \in 1..k \/ i = n
      BY ONLY <2>1
    <3>3. \A i \in 1..n : s[i] = t[i]
      BY ONLY <2>5, <2>6, <3>1, <3>2
    <3>4. s = [i \in 1..n |-> s[i]] /\ t = [i \in 1..n |-> t[i]]
      BY ONLY <2>6, <3>1
    <3>5. s = t
      BY ONLY <3>3, <3>4
    <3>6. QED
      BY <3>5 DEF t
  <2>7. comps = Append(f, c)
    BY <1>2, <2>6 DEF n
  <2>8. \A i \in 1..k : d[i] = comps[i]
    BY ONLY <1>5, <2>1
  <2>9. d = Append(f, x)
    BY <1>3, <1>5, <2>6, <2>8
  <2>10. QED
    BY <2>5, <2>7, <2>9
<1> HIDE DEF f, c, n
<1>9. SlRead(comps) = AddText(SlRead(f), c) /\ SlRead(d) = AddText(SlRead(f), x)
  <2>1. SlRead(Append(f, c)) = AddText(SlRead(f), c) /\ SlRead(Append(f, x)) = AddText(SlRead(f), x)
    BY ONLY <1>2, <1>3, <1>8, SlReadAppend
  <2>2. QED
    BY ONLY <1>8, <2>1
<1>10. AddText(SlRead(f), c).names = AddText(SlRead(f), x).names
  <2>1. TextOf(c) = TextOf(x)
    BY ONLY <1>3 DEF TextOf
  <2>2. c.kind = x.kind
    BY ONLY <1>3
  <2>3. QED
    BY ONLY <2>1, <2>2 DEF AddText
<1>11. Names(d) = Names(comps)
  BY ONLY <1>9, <1>10 DEF Names
<1>12. QED
  BY <1>5, <1>6, <1>7, <1>11 DEF MidstIs, d

MidstOf(full, comps, c) ==
  LET more == Append(full, SL(Midst(comps), TRUE)) IN
  /\ more \in Seq(Links) /\ ReadOk(more, <<c>>) /\ Longer(Pth(more, <<c>>), Pth(full, comps), TextOf(c))
\* An entry that ends in the midst of a component is continued by the next.
LEMMA ReadMidst ==
  ASSUME NEW full, full \in Seq(Links), NEW comps, Plain(comps), comps # <<>>, ReadOk(full, comps),
         SLLength(comps) <= 255, NEW c, c \in Piece, c.cont = FALSE, c.kind # "root"
  PROVE  MidstOf(full, comps, c)
<1> DEFINE d == Midst(comps)
           e == SL(d, TRUE)
           more == Append(full, e)
           r == PathRead(full)
           all == Glue(Saved(full), Names(comps))
           x == TextOf(c)
           o == Out(full)
<1>1. comps \in Seq(Piece)
  BY DEF Plain
<1>2. d \in Seq(Piece) /\ Last(d).cont = TRUE /\ SLLength(d) <= 255 /\ Names(d) = Names(comps)
  <2>1. MidstIs(comps)
    BY <1>1, MidstSame
  <2>2. QED
    BY <2>1 DEF MidstIs
<1> HIDE DEF d
<1>3. e \in Links /\ e.data.comps = d
  BY <1>2, LinkWhole
<1> HIDE DEF e
<1>4. more \in Seq(Links)
  BY ONLY <1>3, full \in Seq(Links), AppendProperties
<1>5. PathRead(more) = AddEntry(r, e)
  BY ONLY <1>3, full \in Seq(Links), PathReadAppend
<1>6. SlName(e) = Names(comps)
  BY <1>2, <1>3 DEF SlName, Names
<1>7. AddEntry(r, e) = [out |-> r.out, saved |-> all]
  <2>1. AddEntry(r, e) = IF Last(e.data.comps).cont THEN [out |-> r.out, saved |-> all]
                         ELSE [out |-> r.out \o all, saved |-> <<>>]
    BY <1>6, Zenon DEF AddEntry, Saved
  <2>2. Last(e.data.comps).cont
    BY ONLY <1>2, <1>3
  <2> HIDE DEF all
  <2>3. QED
    BY ONLY <2>1, <2>2
<1>8. Out(more) = o /\ Saved(more) = all
  <2> HIDE DEF all, more, r
  <2>1. QED
    BY ONLY <1>5, <1>7 DEF Out, Saved, r
<1>9. x \in PathText /\ <<x>> \in Texts /\ TextsOf(c) = <<x>>
  BY TextsTyped DEF TextsOf, Texts
<1> HIDE DEF x
<1>10. Names(<<c>>) = <<<<x>>>> /\ SlRead(<<c>>).cont = FALSE
  <2>1. SlRead(<<>>).names = <<>> /\ SlRead(<<>>).cont = FALSE
    BY SlReadEmpty
  <2>2. SlRead(Append(<<>>, c)) = AddText(SlRead(<<>>), c)
    <3>1. <<>> \in Seq(Piece)
      OBVIOUS
    <3>2. QED
      BY ONLY <3>1, c \in Piece, SlReadAppend
  <2>3. Append(<<>>, c) = <<c>>
    OBVIOUS
  <2>4. AddText(SlRead(<<>>), c).names = <<<<x>>>>
    <3>1. AddText(SlRead(<<>>), c).names = Append(<<>>, <<x>>)
      BY ONLY <2>1, <1>9, c.kind # "root" DEF AddText, x
    <3>2. QED
      BY ONLY <3>1
  <2>5. AddText(SlRead(<<>>), c).cont = FALSE
    BY ONLY c.cont = FALSE DEF AddText
  <2>6. QED
    BY ONLY <2>2, <2>3, <2>4, <2>5 DEF Names
<1>11. all \in Path /\ all # <<>>
  <2>1. Saved(full) \in Path /\ Names(comps) \in Path /\ Names(comps) # <<>>
    BY DEF ReadOk
  <2>2. GluedMore(Saved(full), Names(comps), <<x>>)
    BY ONLY <1>9, <2>1, GlueAppend
  <2>3. QED
    BY <2>1, <2>2 DEF GluedMore
<1>12. Pth(full, comps) = o \o all /\ o \in Path
  BY DEF Pth, ReadOk
<1> HIDE DEF all, more, o, r
<1>13. Pth(more, <<c>>) = o \o Glue(all, <<<<x>>>>)
  BY ONLY <1>8, <1>10 DEF Pth
<1>14. Longer(Pth(more, <<c>>), Pth(full, comps), x)
  <2>1. Longer(o \o Glue(all, <<<<x>>>>), o \o all, x)
    BY ONLY <1>9, <1>11, <1>12, GlueOne
  <2>2. QED
    BY ONLY <1>12, <1>13, <2>1
<1>15. ReadOk(more, <<c>>)
  <2>1. <<<<x>>>> \in Path
    BY ONLY <1>9 DEF Path
  <2>2. <<c>> # <<>> /\ <<<<x>>>> # <<>>
    OBVIOUS
  <2>3. Pth(more, <<c>>) \in Path
    BY ONLY <1>14 DEF Longer
  <2>4. QED
    BY ONLY <1>8, <1>10, <1>11, <1>12, <2>1, <2>2, <2>3 DEF ReadOk
<1>16. QED
  BY <1>4, <1>14, <1>15 DEF MidstOf, more, e, d, x

-----------------------------------------------------------------------------
(* What of the target is in the path, and a turn of the loop over it.        *)

TargetOk(target) ==
  /\ target \in Seq(Component)
  /\ \A i \in 1..Len(target) : LET c == target[i] IN
       (c.kind # "text" => c.len = 0) /\ (c.kind = "root" => i = 1)
Said(t, c) ==
  IF c.kind = "text" THEN Spells(t, c.of, c.len)
  ELSE [j \in 1..Len(t) |-> t[j].kind] = IF c.kind = "root" THEN <<>> ELSE <<c.kind>>
Walked(target, P, at, from) ==
  /\ P \in Path /\ at \in 1..(Len(target) + 1) /\ from \in Nat
  /\ \A i \in 1..(at - 1) : Said(P[i], target[i])
  /\ from = 0 => Len(P) = at - 1
  /\ from > 0 => /\ Len(P) = at /\ at <= Len(target) /\ target[at].kind = "text" /\ from < target[at].len
                 /\ Spells(P[at], target[at].of, from)

PieceOf(c, f, m) == [c EXCEPT !.from = f, !.len = m]
PieceHas(c, f, m) ==
  LET p == PieceOf(c, f, m) IN
  p \in Piece /\ p.kind = c.kind /\ p.of = c.of /\ p.from = f /\ p.len = m /\ p.cont = FALSE
AComponent(k, o, g, l, b) == [kind |-> k, of |-> o, from |-> g, len |-> l, cont |-> b]
LEMMA TwoParts ==
  ASSUME NEW c, NEW k, NEW o, NEW g, NEW l, NEW b, c = AComponent(k, o, g, l, b), NEW f, NEW m
  PROVE  PieceOf(c, f, m) = AComponent(k, o, f, m, b)
<1> USE DEF AComponent
<1> DEFINE d == [c EXCEPT !.from = f]
<1>1. d = AComponent(k, o, f, l, b)
  OBVIOUS
<1>2. [d EXCEPT !.len = m] = PieceOf(c, f, m)
  BY DEF PieceOf
<1> HIDE DEF d
<1>3. [d EXCEPT !.len = m] = AComponent(k, o, f, m, b)
  BY ONLY <1>1 DEF AComponent
<1>4. QED
  BY ONLY <1>2, <1>3
LEMMA PieceIs ==
  ASSUME NEW c, c \in Component, NEW f, f \in Nat, NEW m, m \in Nat
  PROVE  PieceHas(c, f, m)
<1> DEFINE p == PieceOf(c, f, m)
<1>1. /\ c = [kind |-> c.kind, of |-> c.of, from |-> c.from, len |-> c.len, cont |-> c.cont] /\ c.cont = FALSE
      /\ c.kind \in {"root", "dot", "dotdot", "text"} /\ c.of \in Nat
  BY DEF Component
<1>2. c = AComponent(c.kind, c.of, c.from, c.len, c.cont)
  BY ONLY <1>1 DEF AComponent
<1>3. p = AComponent(c.kind, c.of, f, m, c.cont)
  BY ONLY <1>2, TwoParts
<1> HIDE DEF p
<1>4. p = [kind |-> c.kind, of |-> c.of, from |-> f, len |-> m, cont |-> c.cont]
  BY ONLY <1>3 DEF AComponent
<1>5. FALSE \in BOOLEAN
  OBVIOUS
<1>6. p \in Piece
  BY ONLY <1>1, <1>4, <1>5, f \in Nat, m \in Nat DEF Piece
<1>7. p.kind = c.kind /\ p.of = c.of /\ p.from = f /\ p.len = m /\ p.cont = FALSE
  BY ONLY <1>1, <1>4
<1>8. QED
  BY <1>6, <1>7 DEF p, PieceHas

LEMMA SpellsOne ==
  ASSUME NEW x, NEW of, NEW n, n \in Nat, x.of = of, x.from = 0, x.len = n
  PROVE  Spells(<<x>>, of, n)
<1> DEFINE T == <<x>>
<1>1. T = [i \in 1..1 |-> T[i]] /\ T[1] = x /\ \A i \in 1..1 : i = 1
  OBVIOUS
<1> HIDE DEF T
<1>2. \A i \in 1..1 : T[i].of = of
  BY ONLY <1>1, x.of = of
<1>3. \A i \in 2..1 : T[i].from = T[i - 1].from + T[i - 1].len
  OBVIOUS
<1>4. T[1].from = 0 /\ T[1].from + T[1].len = n
  BY <1>1
<1>5. 1 \in Nat /\ 1 > 0
  OBVIOUS
<1>6. Spells(T, of, n)
  BY ONLY <1>1, <1>2, <1>3, <1>4, <1>5, Chained
<1>7. QED
  BY <1>6 DEF T

LEMMA SpellsMore ==
  ASSUME NEW T, T \in Texts, NEW of, NEW n, n \in Nat, n > 0, Spells(T, of, n), NEW x, x \in PathText,
         x.of = of, x.from = n
  PROVE  Spells(Append(T, x), of, n + x.len)
<1> DEFINE N == Len(T)
           U == Append(T, x)
<1>1. T \in Seq(PathText)
  BY DEF Texts
<1>2. T # <<>>
  <2>1. CASE T = <<>>
    BY <2>1 DEF Spells
  <2>2. QED
    BY <2>1
<1>3. N \in Nat /\ N > 0 /\ Last(T) = T[N]
  BY ONLY <1>1, <1>2 DEF Last
<1>4. /\ \A i \in 1..N : T[i].of = of
      /\ \A i \in 2..N : T[i].from = T[i - 1].from + T[i - 1].len
      /\ T[1].from = 0 /\ T[N].from + T[N].len = n
  BY <1>2, <1>3 DEF Spells
<1>5. U \in Seq(PathText) /\ Len(U) = N + 1 /\ U[N + 1] = x /\ \A i \in 1..N : U[i] = T[i]
  BY ONLY <1>1, x \in PathText, AppendProperties
<1> HIDE DEF N, U
<1>6. U = [i \in 1..(N + 1) |-> U[i]]
  BY ONLY <1>5
<1>7. \A i \in 1..(N + 1) : i \in 1..N \/ i = N + 1
  BY ONLY <1>3
<1>8. \A i \in 1..(N + 1) : U[i].of = of
  BY ONLY <1>4, <1>5, <1>7, x.of = of
<1>9. \A i \in 2..(N + 1) : U[i].from = U[i - 1].from + U[i - 1].len
  <2> TAKE i \in 2..(N + 1)
  <2>1. CASE i = N + 1
    <3>1. i - 1 = N /\ N \in 1..N
      BY ONLY <1>3, <2>1
    <3>2. U[i - 1] = T[N] /\ U[i] = x
      BY ONLY <1>5, <2>1, <3>1
    <3>3. QED
      BY ONLY <1>4, <3>2, x.from = n
  <2>2. CASE i # N + 1
    <3>1. i \in 2..N /\ i \in 1..N /\ i - 1 \in 1..N
      BY <1>3, <2>2
    <3>2. QED
      BY ONLY <1>4, <1>5, <3>1
  <2>3. QED
    BY <2>1, <2>2
<1>10. U[1].from = 0
  <2>1. 1 \in 1..N
    BY ONLY <1>3
  <2>2. QED
    BY ONLY <1>4, <1>5, <2>1
<1>11. U[N + 1].from + U[N + 1].len = n + x.len
  BY ONLY <1>5, x.from = n
<1>12. N + 1 \in Nat /\ N + 1 > 0
  BY ONLY <1>3
<1>13. Spells(U, of, n + x.len)
  <2> DEFINE k == N + 1
             s == n + x.len
  <2>1. \A i \in 2..k : U[i].from = U[i - 1].from + U[i - 1].len
    BY <1>9
  <2>2. /\ k \in Nat /\ k > 0 /\ U = [i \in 1..k |-> U[i]] /\ \A i \in 1..k : U[i].of = of
        /\ U[1].from = 0 /\ U[k].from + U[k].len = s
    BY <1>6, <1>8, <1>10, <1>11, <1>12
  <2> HIDE DEF k, s
  <2>3. Spells(U, of, s)
    BY ONLY <2>1, <2>2, Chained
  <2>4. QED
    BY <2>3 DEF s
<1>14. QED
  BY <1>13 DEF U

\* A new part of the path: the whole component, or its first bytes.
LEMMA WalkNew ==
  ASSUME NEW target, TargetOk(target), NEW P, NEW at, Walked(target, P, at, 0), at <= Len(target),
         NEW m, m \in Nat, NEW Q, Q = Append(P, TextsOf(PieceOf(target[at], 0, m)))
  PROVE  /\ m = target[at].len => Walked(target, Q, at + 1, 0)
         /\ (target[at].kind = "text" /\ m > 0 /\ m < target[at].len) => Walked(target, Q, at, m)
<1> DEFINE c == target[at]
           p == PieceOf(c, 0, m)
           t == TextsOf(p)
<1>1. /\ P \in Seq(Texts) /\ at \in 1..(Len(target) + 1) /\ Len(P) = at - 1 /\ Len(target) \in Nat
      /\ \A i \in 1..(at - 1) : Said(P[i], target[i])
  BY LenProperties DEF Walked, TargetOk, Path
<1>2. at \in 1..Len(target) /\ at \in Nat /\ at + 1 \in 1..(Len(target) + 1) /\ (at + 1) - 1 = at
      /\ \A i \in 1..at : i \in 1..(at - 1) \/ i = at
  BY ONLY <1>1, at <= Len(target)
<1>3. c \in Component
  BY <1>2, ElementOfSeq DEF TargetOk
<1>4. p \in Piece /\ p.kind = c.kind /\ p.of = c.of /\ p.from = 0 /\ p.len = m
  <2> HIDE DEF c
  <2>1. 0 \in Nat
    OBVIOUS
  <2>2. QED
    <3>1. PieceHas(c, 0, m)
      BY ONLY <1>3, <2>1, m \in Nat, PieceIs
    <3>2. QED
      BY ONLY <3>1 DEF PieceHas
<1> HIDE DEF p
<1>5. t \in Texts /\ (c.kind = "root" => t = <<>>) /\ (c.kind # "root" => t = <<TextOf(p)>>)
  BY ONLY <1>4, TextsTyped DEF TextsOf
<1> HIDE DEF t
<1>6. Q \in Seq(Texts) /\ Len(Q) = at /\ Q[at] = t /\ \A i \in 1..(at - 1) : Q[i] = P[i]
  <2>1. Q = Append(P, t)
    BY DEF t, p
  <2>2. (at - 1) + 1 = at
    BY ONLY <1>2
  <2>3. Q \in Seq(Texts) /\ Len(Q) = (at - 1) + 1 /\ Q[(at - 1) + 1] = t /\ \A i \in 1..(at - 1) : Q[i] = P[i]
    BY ONLY <1>1, <1>5, <2>1, AppendProperties
  <2>4. QED
    BY ONLY <2>2, <2>3
<1>7. \A i \in 1..(at - 1) : Said(Q[i], target[i])
  BY ONLY <1>1, <1>6
<1>8. TextOf(p).kind = c.kind /\ TextOf(p).of = c.of /\ TextOf(p).from = 0 /\ TextOf(p).len = m
  BY ONLY <1>4 DEF TextOf
<1>9. c.kind = "text" => Spells(t, c.of, m)
  <2>1. Spells(<<TextOf(p)>>, c.of, m)
    BY ONLY <1>8, m \in Nat, SpellsOne
  <2>2. QED
    BY ONLY <1>5, <2>1
<1>10. c.kind # "text" => Said(t, c)
  <2>1. CASE c.kind = "root"
    <3>1. t = <<>>
      BY ONLY <1>5, <2>1
    <3>2. [j \in 1..Len(t) |-> t[j].kind] = <<>>
      BY ONLY <3>1
    <3>3. QED
      BY ONLY <2>1, <3>2 DEF Said
  <2>2. CASE c.kind # "root" /\ c.kind # "text"
    <3> DEFINE x == TextOf(p)
    <3>1. t = <<x>> /\ x.kind = c.kind
      BY ONLY <1>5, <1>8, <2>2
    <3> HIDE DEF x, c
    <3>2. Len(t) = 1 /\ t[1] = x /\ \A j \in 1..1 : j = 1
      BY ONLY <3>1
    <3>3. [j \in 1..Len(t) |-> t[j].kind] = <<c.kind>>
      BY ONLY <3>1, <3>2
    <3>4. QED
      BY ONLY <2>2, <3>3 DEF Said
  <2>3. QED
    BY ONLY <2>1, <2>2
<1> HIDE DEF c
<1>11. ASSUME m = c.len PROVE Walked(target, Q, at + 1, 0)
  <2>1. Said(t, c)
    BY ONLY <1>9, <1>10, <1>11 DEF Said
  <2>2. \A i \in 1..at : Said(Q[i], target[i])
    BY ONLY <1>2, <1>6, <1>7, <2>1 DEF c
  <2>3. QED
    BY ONLY <1>2, <1>6, <2>2 DEF Walked, Path
<1>12. ASSUME c.kind = "text", m > 0, m < c.len PROVE Walked(target, Q, at, m)
  <2>1. Spells(Q[at], c.of, m)
    BY ONLY <1>6, <1>9, <1>12
  <2>2. ~(m = 0) /\ m \in Nat
    BY <1>12
  <2>3. QED
    BY ONLY <1>1, <1>2, <1>6, <1>7, <1>12, <2>1, <2>2 DEF Walked, Path, c
<1>13. QED
  BY <1>11, <1>12 DEF c

\* More bytes of the last part.
LEMMA WalkOn ==
  ASSUME NEW target, TargetOk(target), NEW P, NEW at, NEW from, Walked(target, P, at, from), from > 0,
         NEW m, m \in Nat, NEW Q, Longer(Q, P, TextOf(PieceOf(target[at], from, m)))
  PROVE  /\ from + m = target[at].len => Walked(target, Q, at + 1, 0)
         /\ from + m < target[at].len => Walked(target, Q, at, from + m)
<1> DEFINE c == target[at]
           p == PieceOf(c, from, m)
           x == TextOf(p)
<1>1. /\ P \in Seq(Texts) /\ at \in 1..(Len(target) + 1) /\ Len(P) = at /\ Len(target) \in Nat /\ at <= Len(target)
      /\ from \in Nat /\ c.kind = "text" /\ from < c.len /\ Spells(P[at], c.of, from)
      /\ \A i \in 1..(at - 1) : Said(P[i], target[i])
  BY LenProperties DEF Walked, TargetOk, Path
<1>2. at \in 1..Len(target) /\ at \in Nat /\ at + 1 \in 1..(Len(target) + 1) /\ (at + 1) - 1 = at
      /\ (\A i \in 1..at : i \in 1..(at - 1) \/ i = at) /\ at \in 1..at
  BY ONLY <1>1
<1>3. c \in Component
  BY <1>2, ElementOfSeq DEF TargetOk
<1>4. p \in Piece /\ p.kind = c.kind /\ p.of = c.of /\ p.from = from /\ p.len = m
  <2> HIDE DEF c
  <2>1. QED
    <3>1. PieceHas(c, from, m)
      BY ONLY <1>1, <1>3, m \in Nat, PieceIs
    <3>2. QED
      BY ONLY <3>1 DEF PieceHas
<1> HIDE DEF p
<1>5. x \in PathText /\ x.of = c.of /\ x.from = from /\ x.len = m
  <2>1. x.of = p.of /\ x.from = p.from /\ x.len = p.len
    BY DEF TextOf
  <2>2. c.kind # "root"
    BY <1>1
  <2>3. x \in PathText
    BY ONLY <1>4, <2>2, TextsTyped
  <2>4. QED
    BY ONLY <1>4, <2>1, <2>3
<1> HIDE DEF x
<1>6. Q \in Seq(Texts) /\ Len(Q) = at /\ Q[at] = Append(P[at], x) /\ \A i \in 1..(at - 1) : Q[i] = P[i]
  <2>1. Longer(Q, P, x)
    BY DEF x, p
  <2>2. QED
    BY ONLY <1>1, <2>1 DEF Longer, Path
<1>7. \A i \in 1..(at - 1) : Said(Q[i], target[i])
  BY ONLY <1>1, <1>6
<1>8. Spells(Q[at], c.of, from + m)
  <2>1. P[at] \in Texts
    BY ONLY <1>1, <1>2, ElementOfSeq
  <2>2. Spells(Append(P[at], x), c.of, from + x.len)
    <3> DEFINE T == P[at]
               of == c.of
    <3>1. T \in Texts /\ Spells(T, of, from) /\ x \in PathText /\ x.of = of /\ x.from = from
      BY ONLY <1>1, <1>5, <2>1
    <3> HIDE DEF T, of
    <3>2. Spells(Append(T, x), of, from + x.len)
      BY ONLY <1>1, <3>1, from > 0, SpellsMore
    <3>3. QED
      BY <3>2 DEF T, of
  <2>3. QED
    BY ONLY <1>5, <1>6, <2>2
<1> HIDE DEF c
<1>9. ASSUME from + m = c.len PROVE Walked(target, Q, at + 1, 0)
  <2>1. Said(Q[at], c)
    BY ONLY <1>1, <1>8, <1>9 DEF Said
  <2>2. \A i \in 1..at : Said(Q[i], target[i])
    BY ONLY <1>2, <1>7, <2>1 DEF c
  <2>3. QED
    BY ONLY <1>2, <1>6, <2>2 DEF Walked, Path
<1>10. ASSUME from + m < c.len PROVE Walked(target, Q, at, from + m)
  <2>1. ~(from + m = 0) /\ from + m \in Nat
    BY <1>1
  <2>2. QED
    BY ONLY <1>1, <1>2, <1>6, <1>7, <1>8, <1>10, <2>1 DEF Walked, Path, c
<1>11. QED
  BY <1>9, <1>10 DEF c

-----------------------------------------------------------------------------
(* A turn of the loop, as what it makes of the entries.                      *)

Need(c) == IF c.kind = "text" THEN 3 ELSE 2
State(F, L, c, from, m, area, at, next) ==
  [full |-> F, last |-> WithComponent(L, PieceOf(c, from, m)), area |-> area, at |-> at, from |-> next]
TurnTo(F, L, room, c, s, t) ==
  /\ (c.kind # "text" /\ s.from = 0) => t = State(F, L, c, 0, 0, room - 2, s.at + 1, 0)
  /\ (c.kind = "text" /\ 2 + c.len - s.from <= room) =>
       t = State(F, L, c, s.from, c.len - s.from, room - (2 + c.len - s.from) - 2, s.at + 1, 0)
  /\ (c.kind = "text" /\ 2 + c.len - s.from > room) =>
       t = State(F, L, c, s.from, room - 2, 0, s.at, s.from + (room - 2))
TurnWith(F, L, room, c, s) ==
  LET whole == 2 + c.len - s.from
      length == IF c.kind # "text" THEN 0 ELSE IF whole > room THEN room - 2 ELSE whole
      done == s.from + length >= c.len
  IN [full |-> F, last |-> WithComponent(L, [c EXCEPT !.from = s.from, !.len = Least(length, c.len - s.from)]),
      area |-> room - length - 2, at |-> IF done THEN s.at + 1 ELSE s.at, from |-> IF done THEN 0 ELSE s.from + length]
LEMMA TurnWithIs ==
  ASSUME NEW F, NEW L, NEW room, room \in Int, NEW c, NEW s, c.len \in Nat, s.from \in Nat, s.at \in Nat,
         c.kind # "text" => c.len = 0
  PROVE  TurnTo(F, L, room, c, s, TurnWith(F, L, room, c, s))
<1> DEFINE whole == 2 + c.len - s.from
           length == IF c.kind # "text" THEN 0 ELSE IF whole > room THEN room - 2 ELSE whole
           done == s.from + length >= c.len
           m == Least(length, c.len - s.from)
           left == room - length - 2
           at == IF done THEN s.at + 1 ELSE s.at
           next == IF done THEN 0 ELSE s.from + length
           t == TurnWith(F, L, room, c, s)
<1>1. t = State(F, L, c, s.from, m, left, at, next)
  BY Zenon DEF TurnWith, State, PieceOf
<1> HIDE DEF t
<1>2. CASE c.kind # "text" /\ s.from = 0
  <2>1. length = 0
    BY ONLY <1>2
  <2> HIDE DEF length
  <2>2. done /\ m = 0 /\ left = room - 2
    BY ONLY <1>2, <2>1, c.kind # "text" => c.len = 0, room \in Int DEF Least
  <2> HIDE DEF done, m, left
  <2>3. at = s.at + 1 /\ next = 0
    BY ONLY <2>2
  <2> HIDE DEF at, next
  <2>4. t = State(F, L, c, 0, 0, room - 2, s.at + 1, 0)
    BY ONLY <1>1, <1>2, <2>2, <2>3
  <2>5. ~(c.kind = "text")
    BY <1>2
  <2>6. QED
    BY <2>4, <2>5 DEF TurnTo, t
<1>3. CASE c.kind = "text" /\ whole <= room
  <2>1. whole \in Int /\ ~(whole > room)
    BY <1>3
  <2>2. length = whole
    <3> HIDE DEF whole
    <3>1. QED
      BY ONLY <1>3, <2>1
  <2> HIDE DEF length
  <2>3. done /\ m = c.len - s.from /\ left = room - (2 + c.len - s.from) - 2
    BY ONLY <2>2, c.len \in Nat, s.from \in Nat, room \in Int DEF Least
  <2> HIDE DEF done, m, left
  <2>4. at = s.at + 1 /\ next = 0
    BY ONLY <2>3
  <2> HIDE DEF at, next
  <2>5. t = State(F, L, c, s.from, c.len - s.from, room - (2 + c.len - s.from) - 2, s.at + 1, 0)
    BY ONLY <1>1, <2>3, <2>4
  <2>6. 2 + c.len - s.from <= room /\ ~(2 + c.len - s.from > room)
    BY <1>3, <2>1
  <2>7. ~(c.kind # "text")
    BY <1>3
  <2>8. QED
    BY ONLY <2>5, <2>6, <2>7 DEF TurnTo, t
<1>4. CASE c.kind = "text" /\ whole > room
  <2>1. length = room - 2
    <3> HIDE DEF whole
    <3>1. QED
      BY ONLY <1>4
  <2> HIDE DEF length
  <2>2. ~done /\ m = room - 2 /\ left = 0
    BY ONLY <1>4, <2>1, c.len \in Nat, s.from \in Nat, room \in Int DEF Least
  <2> HIDE DEF done, m, left
  <2>3. at = s.at /\ next = s.from + (room - 2)
    BY ONLY <2>1, <2>2
  <2> HIDE DEF at, next
  <2>4. t = State(F, L, c, s.from, room - 2, 0, s.at, s.from + (room - 2))
    BY ONLY <1>1, <2>2, <2>3
  <2>5. 2 + c.len - s.from > room /\ ~(2 + c.len - s.from <= room)
    BY <1>4
  <2>6. ~(c.kind # "text")
    BY <1>4
  <2>7. QED
    BY ONLY <2>4, <2>5, <2>6 DEF TurnTo, t
<1>5. CASE c.kind # "text" /\ s.from # 0
  BY ONLY <1>5 DEF TurnTo
<1>6. whole <= room \/ whole > room
  BY ONLY c.len \in Nat, s.from \in Nat, room \in Int
<1> HIDE DEF whole
<1>7. QED
  BY <1>2, <1>3, <1>4, <1>5, <1>6 DEF t

Pushed(s) == Append(s.full, Continued(s.last, s.from > 0))
TurnOf(target, s) ==
  LET c == target[s.at]
      t == PlaceComponent(target, s) IN
  /\ s.area >= Need(c) => TurnTo(s.full, s.last, s.area, c, s, t)
  /\ s.area < Need(c) => TurnTo(Pushed(s), SL(<<>>, FALSE), 250, c, s, t)
LEMMA TurnIs ==
  ASSUME NEW target, NEW s, s.area \in Int, s.from \in Nat, s.at \in Nat, Len(target) \in Nat, s.at <= Len(target),
         target[s.at].len \in Nat, target[s.at].kind # "text" => target[s.at].len = 0
  PROVE  TurnOf(target, s)
<1> DEFINE c == target[s.at]
           full == s.area < Need(c)
           F == IF full THEN Pushed(s) ELSE s.full
           L == IF full THEN SL(<<>>, FALSE) ELSE s.last
           room == IF full THEN MaximumComponentArea ELSE s.area
           t == PlaceComponent(target, s)
           over == s.at > Len(target)
<1>1. t = IF over THEN s ELSE TurnWith(F, L, room, c, s)
  BY Zenon DEF PlaceComponent, TurnWith, Need, Pushed
<1>2. ~over
  BY ONLY s.at \in Nat, Len(target) \in Nat, s.at <= Len(target)
<1> HIDE DEF over
<1>3. t = TurnWith(F, L, room, c, s)
  BY Zenon, <1>1, <1>2
<1>4. Need(c) \in {2, 3}
  BY DEF Need
<1>5. room \in Int
  <2> HIDE DEF full
  <2>1. MaximumComponentArea \in Int
    BY DEF MaximumComponentArea
  <2>2. QED
    BY <2>1
<1> HIDE DEF F, L, room, t
<1>6. TurnTo(F, L, room, c, s, t)
  BY <1>3, <1>5, TurnWithIs
<1>7. full => F = Pushed(s) /\ L = SL(<<>>, FALSE) /\ room = 250
  BY DEF F, L, room, MaximumComponentArea
<1>8. ~full => F = s.full /\ L = s.last /\ room = s.area
  BY DEF F, L, room
<1>9. s.area >= Need(c) => ~full
  BY <1>4
<1> HIDE DEF full
<1>10. s.area >= Need(c) => TurnTo(s.full, s.last, s.area, c, s, t)
  BY ONLY <1>6, <1>8, <1>9
<1>11. full => TurnTo(Pushed(s), SL(<<>>, FALSE), 250, c, s, t)
  BY ONLY <1>6, <1>7
<1>12. QED
  BY <1>10, <1>11 DEF TurnOf, full, t

-----------------------------------------------------------------------------
(* What holds of the entries after any number of turns.                      *)

Cur(A, F) == IF F = <<>> THEN A ELSE 250
Comps(s) == s.last.data.comps
Placing(target, A, s) ==
  /\ s.full \in Seq(Links) /\ Plain(Comps(s)) /\ s.last = SL(Comps(s), FALSE) /\ ReadOk(s.full, Comps(s))
  /\ s.area \in Int /\ SLLength(Comps(s)) <= 5 + Cur(A, s.full) /\ SLLength(Comps(s)) + s.area <= 5 + Cur(A, s.full)
  /\ Walked(target, Pth(s.full, Comps(s)), s.at, s.from)
  /\ s.full # <<>> => s.full[1].len <= 5 + A
  /\ Comps(s) = <<>> => s.full = <<>> /\ s.at = 1 /\ s.from = 0 /\ s.area = A
  /\ Comps(s) # <<>> => s.at > 1 \/ s.from > 0
  /\ s.from > 0 => s.area = 0

\* An entry with a component more.
Base(F, comps, A) ==
  /\ F \in Seq(Links) /\ Plain(comps) /\ A \in 4..250 /\ (F # <<>> => F[1].len <= 5 + A)
\* Placing goes on with one component more in the entry under construction.
LEMMA Grows ==
  ASSUME NEW target, NEW A, NEW F, NEW comps, Base(F, comps, A), NEW c, c \in Component,
         NEW from, from \in Nat, NEW m, m \in Nat, NEW left, left \in Int, NEW at, NEW next,
         NEW l, l = ComponentLength(PieceOf(c, from, m)),
         SLLength(comps) + l <= 5 + Cur(A, F), SLLength(comps) + l + left <= 5 + Cur(A, F),
         ReadOk(F, Append(comps, PieceOf(c, from, m))),
         Walked(target, Pth(F, Append(comps, PieceOf(c, from, m))), at, next), at > 1 \/ next > 0, next > 0 => left = 0,
         NEW t, t = State(F, SL(comps, FALSE), c, from, m, left, at, next)
  PROVE  Placing(target, A, t)
<1> DEFINE p == PieceOf(c, from, m)
           d == Append(comps, p)
<1>1. p \in Piece /\ p.cont = FALSE
  <2>1. PieceHas(c, from, m)
    BY PieceIs
  <2>2. QED
    BY ONLY <2>1 DEF PieceHas
<1>2. SLLength(d) = SLLength(comps) + l
  BY <1>1, LinkLonger DEF Plain, Base
<1>3. ReadOk(F, d) /\ Walked(target, Pth(F, d), at, next)
  OBVIOUS
<1>4. SL(comps, FALSE).data.comps = comps /\ SL(comps, FALSE).data.cont = FALSE
  BY DEF SL, Entry
<1>5. t = [full |-> F, last |-> SL(d, FALSE), area |-> left, at |-> at, from |-> next]
  <2>1. WithComponent(SL(comps, FALSE), p) = SL(d, FALSE)
    <3>1. WithComponent(SL(comps, FALSE), p) = SL(Append(SL(comps, FALSE).data.comps, p), SL(comps, FALSE).data.cont)
      BY DEF WithComponent
    <3>2. QED
      BY <1>4, <3>1
  <2>2. QED
    BY <2>1, Zenon DEF State
<1> HIDE DEF p
<1>6. Plain(d) /\ d # <<>>
  <2>1. comps \in Seq(Piece) /\ \A i \in 1..Len(comps) : comps[i].cont = FALSE
    BY DEF Base, Plain
  <2>2. d \in Seq(Piece) /\ Len(d) = Len(comps) + 1 /\ Len(comps) \in Nat /\ d[Len(comps) + 1] = p
        /\ \A i \in 1..Len(comps) : d[i] = comps[i]
    BY ONLY <1>1, <2>1, AppendProperties, LenProperties
  <2> DEFINE n == Len(comps)
  <2> HIDE DEF d, n
  <2>3. \A i \in 1..(n + 1) : i \in 1..n \/ i = n + 1
    BY ONLY <2>2 DEF n
  <2>4. \A i \in 1..Len(d) : d[i].cont = FALSE
    BY ONLY <1>1, <2>1, <2>2, <2>3 DEF n
  <2>5. Len(d) # 0
    BY ONLY <2>2
  <2>6. QED
    BY ONLY <2>2, <2>4, <2>5, Filled DEF Plain
<1> HIDE DEF d
<1>7. SL(d, FALSE).data.comps = d
  BY DEF SL, Entry
<1>8. t.full = F /\ t.last = SL(d, FALSE) /\ t.area = left /\ t.at = at /\ t.from = next /\ Comps(t) = d
  BY ONLY <1>5, <1>7 DEF Comps
<1>9. SLLength(d) <= 5 + Cur(A, F) /\ SLLength(d) + left <= 5 + Cur(A, F)
  BY <1>2
<1>10. F \in Seq(Links) /\ (F # <<>> => F[1].len <= 5 + A)
  BY DEF Base
<1>11. (next > 0 => left = 0) /\ (at > 1 \/ next > 0)
  OBVIOUS
<1>12. QED
  BY ONLY <1>3, <1>6, <1>8, <1>9, <1>10, <1>11, left \in Int DEF Placing

Moves(s, t) ==
  \/ t.at = s.at + 1 /\ t.from = 0
  \/ /\ t.at = s.at /\ t.from \in Nat /\ t.from > 0
     /\ s.from > 0 => t.from >= s.from + 248

\* A turn that begins a component.
LEMMA BeginsPart ==
  ASSUME NEW target, TargetOk(target), NEW A, NEW F, NEW comps, Base(F, comps, A), ReadOk(F, comps),
         NEW room, room \in Int, NEW s, NEW t, s.from = 0, s.at <= Len(target), Walked(target, Pth(F, comps), s.at, 0),
         room >= Need(target[s.at]), SLLength(comps) + room <= 5 + Cur(A, F),
         target[s.at].kind = "root" => comps = <<>>, TurnTo(F, SL(comps, FALSE), room, target[s.at], s, t)
  PROVE  Placing(target, A, t) /\ Moves(s, t)
<1> DEFINE at == s.at
           c == target[at]
           P == Pth(F, comps)
           w == SLLength(comps)
           b == 5 + Cur(A, F)
<1>1. at \in 1..(Len(target) + 1) /\ Len(target) \in Nat
  BY LenProperties DEF Walked, TargetOk
<1>2. at \in 1..Len(target) /\ at \in Nat /\ at >= 1
  BY ONLY <1>1, s.at <= Len(target)
<1>3. c \in Component /\ (c.kind # "text" => c.len = 0)
  BY <1>2, ElementOfSeq DEF TargetOk
<1>4. c.len \in Nat
  BY <1>3 DEF Component
<1>5. w \in Nat /\ b \in Int /\ w + room <= b /\ A \in 4..250
  BY LinkLength DEF Base, Plain, Cur
<1>6. /\ c.kind # "text" => t = State(F, SL(comps, FALSE), c, 0, 0, room - 2, at + 1, 0)
      /\ (c.kind = "text" /\ 2 + c.len - 0 <= room) =>
           t = State(F, SL(comps, FALSE), c, 0, c.len - 0, room - (2 + c.len - 0) - 2, at + 1, 0)
      /\ (c.kind = "text" /\ 2 + c.len - 0 > room) => t = State(F, SL(comps, FALSE), c, 0, room - 2, 0, at, 0 + (room - 2))
  BY ONLY TurnTo(F, SL(comps, FALSE), room, target[s.at], s, t), s.from = 0 DEF TurnTo
<1>7. (c.kind = "text" => room >= 3) /\ room >= 2
  BY DEF Need
<1>8. ASSUME NEW m, m \in Nat
      PROVE  LET p == PieceOf(c, 0, m) IN
             /\ ReadOk(F, Append(comps, p)) /\ Pth(F, Append(comps, p)) = Append(P, TextsOf(p))
             /\ (c.kind = "text" => ComponentLength(p) = 2 + m) /\ (c.kind # "text" => ComponentLength(p) = 2)
  <2> DEFINE p == PieceOf(c, 0, m)
  <2>1. p \in Piece /\ p.kind = c.kind /\ p.len = m /\ p.cont = FALSE
    <3>1. 0 \in Nat
      OBVIOUS
    <3>2. PieceHas(c, 0, m)
      BY <1>3, <1>8, <3>1, PieceIs
    <3>3. QED
      BY ONLY <3>2 DEF PieceHas
  <2> HIDE DEF p
  <2>2. AddedTo(F, comps, p)
    <3>1. comps \in Seq(Piece)
      BY DEF Base, Plain
    <3>2. p.kind = "root" => comps = <<>>
      BY <2>1
    <3>3. QED
      BY ONLY <2>1, <3>1, <3>2, ReadOk(F, comps), ReadAdd
  <2>3. (c.kind = "text" => ComponentLength(p) = 2 + m) /\ (c.kind # "text" => ComponentLength(p) = 2)
    BY <2>1, PieceLength
  <2>4. QED
    BY <2>2, <2>3 DEF AddedTo, p
<1>9. ASSUME NEW m, m \in Nat, NEW l, l = ComponentLength(PieceOf(c, 0, m)), NEW left, left \in Int, w + l <= b, w + l + left <= b,
             NEW a, NEW next, next > 0 => left = 0, a > 1 \/ next > 0,
             \/ m = c.len /\ a = at + 1 /\ next = 0
             \/ c.kind = "text" /\ m > 0 /\ m < c.len /\ a = at /\ next = m,
             t = State(F, SL(comps, FALSE), c, 0, m, left, a, next)
      PROVE  Placing(target, A, t)
  <2> DEFINE p == PieceOf(c, 0, m)
             d == Append(comps, p)
             Q == Pth(F, d)
  <2>1. ReadOk(F, d) /\ Q = Append(P, TextsOf(p))
    BY <1>8, <1>9
  <2>2. Walked(target, Q, a, next)
    <3>1. /\ m = c.len => Walked(target, Q, at + 1, 0)
          /\ (c.kind = "text" /\ m > 0 /\ m < c.len) => Walked(target, Q, at, m)
      BY <1>9, <2>1, WalkNew
    <3>2. QED
      BY ONLY <1>9, <3>1
  <2>3. SLLength(comps) + l <= 5 + Cur(A, F) /\ SLLength(comps) + l + left <= 5 + Cur(A, F) /\ 0 \in Nat
    BY ONLY <1>9
  <2> HIDE DEF c, at, w, b
  <2>4. l = ComponentLength(PieceOf(c, 0, m)) /\ ReadOk(F, Append(comps, PieceOf(c, 0, m)))
        /\ Walked(target, Pth(F, Append(comps, PieceOf(c, 0, m))), a, next)
    BY ONLY <1>9, <2>1, <2>2
  <2>5. QED
    BY ONLY <1>3, <1>9, <2>3, <2>4, Base(F, comps, A), Grows
<1> HIDE DEF c, at, w, b, P
<1>10. CASE c.kind # "text"
  <2>1. t = State(F, SL(comps, FALSE), c, 0, 0, room - 2, at + 1, 0)
    BY ONLY <1>6, <1>10
  <2>2. 0 \in Nat /\ ComponentLength(PieceOf(c, 0, 0)) = 2
    <3>1. 0 \in Nat
      OBVIOUS
    <3>2. QED
      BY ONLY <1>8, <1>10, <3>1
  <2>3. room - 2 \in Int /\ w + 2 <= b /\ w + 2 + (room - 2) <= b /\ at + 1 > 1 /\ ~(0 > 0)
    BY ONLY <1>2, <1>5, <1>7, room \in Int
  <2>4. 0 = c.len
    BY ONLY <1>3, <1>10
  <2>5. Placing(target, A, t)
    BY ONLY <1>9, <2>1, <2>2, <2>3, <2>4
  <2>6. t.at = s.at + 1 /\ t.from = 0
    BY <2>1 DEF State, at
  <2>7. QED
    BY <2>5, <2>6 DEF Moves
<1>11. CASE c.kind = "text" /\ 2 + c.len <= room
  <2> DEFINE m == c.len
             left == room - (2 + m) - 2
  <2>1. t = State(F, SL(comps, FALSE), c, 0, m, left, at + 1, 0)
    <3>1. 2 + c.len - 0 = 2 + c.len /\ c.len - 0 = c.len
      BY ONLY <1>4
    <3>2. QED
      BY ONLY <1>6, <1>11, <3>1
  <2>2. ComponentLength(PieceOf(c, 0, m)) = 2 + m
    BY ONLY <1>4, <1>8, <1>11
  <2>3. left \in Int /\ w + (2 + m) <= b /\ w + (2 + m) + left <= b /\ at + 1 > 1 /\ ~(0 > 0)
    <3>1. m \in Nat /\ 2 + m <= room
      BY ONLY <1>4, <1>11
    <3> HIDE DEF m
    <3>2. left \in Int /\ left + (2 + m) = room - 2
      BY ONLY <3>1, room \in Int
    <3> HIDE DEF left
    <3>3. w + (2 + m) <= b /\ w + (2 + m) + left <= b
      BY ONLY <1>5, <3>1, <3>2, room \in Int
    <3>4. at + 1 > 1 /\ ~(0 > 0)
      BY ONLY <1>2
    <3>5. QED
      BY ONLY <3>2, <3>3, <3>4
  <2> DEFINE l == 2 + m
  <2>4. m \in Nat /\ m = c.len /\ l = ComponentLength(PieceOf(c, 0, m)) /\ left \in Int /\ w + l <= b /\ w + l + left <= b
        /\ at + 1 > 1 /\ ~(0 > 0)
    BY <1>4, <2>2, <2>3
  <2> HIDE DEF m, left, l
  <2>5. Placing(target, A, t)
    BY ONLY <1>9, <2>1, <2>4
  <2>6. t.at = s.at + 1 /\ t.from = 0
    BY <2>1 DEF State, at
  <2>7. QED
    BY <2>5, <2>6 DEF Moves
<1>12. CASE c.kind = "text" /\ 2 + c.len > room
  <2> DEFINE m == room - 2
  <2>1. t = State(F, SL(comps, FALSE), c, 0, m, 0, at, m)
    <3>1. 2 + c.len - 0 = 2 + c.len /\ 0 + (room - 2) = m
      BY ONLY <1>4, room \in Int
    <3>2. QED
      BY ONLY <1>6, <1>12, <3>1
  <2>2. m \in Nat /\ m > 0 /\ m < c.len
    BY ONLY <1>4, <1>7, <1>12, room \in Int
  <2>3. ComponentLength(PieceOf(c, 0, m)) = 2 + m
    BY ONLY <1>8, <1>12, <2>2
  <2>4. 0 \in Int /\ w + (2 + m) <= b /\ w + (2 + m) + 0 <= b
    BY ONLY <1>5, room \in Int
  <2> DEFINE l == 2 + m
             left == 0
  <2>5. m \in Nat /\ l = ComponentLength(PieceOf(c, 0, m)) /\ left \in Int /\ w + l <= b /\ w + l + left <= b /\ left = 0
        /\ m > 0 /\ m < c.len /\ t = State(F, SL(comps, FALSE), c, 0, m, left, at, m)
    BY <2>1, <2>2, <2>3, <2>4
  <2> HIDE DEF m, l, left
  <2>6. Placing(target, A, t)
    BY ONLY <1>9, <1>12, <2>5
  <2>7. t.at = s.at /\ t.from = m
    BY <2>1 DEF State, at
  <2>8. QED
    BY <2>2, <2>6, <2>7 DEF Moves
<1>13. 2 + c.len <= room \/ 2 + c.len > room
  BY ONLY <1>4, room \in Int
<1>14. QED
  BY ONLY <1>10, <1>11, <1>12, <1>13

PushedWith(A, F) == Base(F, <<>>, A) /\ Cur(A, F) = 250
LEMMA PushedBase ==
  ASSUME NEW full, full \in Seq(Links), NEW A, A \in 4..250, NEW e, e \in Links, full # <<>> => full[1].len <= 5 + A,
         full = <<>> => e.len <= 5 + A
  PROVE  PushedWith(A, Append(full, e))
<1> DEFINE F == Append(full, e)
           n == Len(full)
<1>1. F \in Seq(Links) /\ Len(F) = n + 1 /\ n \in Nat /\ F[n + 1] = e /\ \A i \in 1..n : F[i] = full[i]
  BY AppendProperties, LenProperties
<1> HIDE DEF F
<1>2. F # <<>>
  <2>1. Len(F) # 0
    BY ONLY <1>1
  <2>2. QED
    BY ONLY <2>1, Filled
<1>3. F[1].len <= 5 + A
  <2>1. CASE full = <<>>
    <3>1. n = 0
      BY <2>1
    <3>2. F[1] = e
      BY ONLY <1>1, <3>1
    <3>3. QED
      BY ONLY <2>1, <3>2, full = <<>> => e.len <= 5 + A
  <2>2. CASE full # <<>>
    <3>1. n # 0
      BY ONLY <2>2, full \in Seq(Links)
    <3>2. 1 \in 1..n
      BY ONLY <1>1, <3>1
    <3>3. F[1] = full[1]
      BY ONLY <1>1, <3>2
    <3>4. QED
      BY ONLY <2>2, <3>3, full # <<>> => full[1].len <= 5 + A
  <2>3. QED
    BY <2>1, <2>2
<1>4. Plain(<<>>)
  BY DEF Plain
<1>5. Base(F, <<>>, A) /\ Cur(A, F) = 250
  BY ONLY <1>1, <1>2, <1>3, <1>4, A \in 4..250 DEF Base, Cur
<1>6. QED
  BY <1>5 DEF F, PushedWith

CanPush(A, s, d) ==
  /\ SLLength(d) <= 255 /\ Base(Append(s.full, SL(d, TRUE)), <<>>, A)
  /\ Cur(A, Append(s.full, SL(d, TRUE))) = 250
\* What can be pushed.
LEMMA Pushable ==
  ASSUME NEW target, NEW A, A \in 4..250, NEW s, Placing(target, A, s), Comps(s) # <<>>, NEW d, d \in Seq(Piece),
         SLLength(d) = SLLength(Comps(s))
  PROVE  CanPush(A, s, d)
<1> DEFINE e == SL(d, TRUE)
<1>1. SLLength(d) <= 5 + Cur(A, s.full) /\ s.full \in Seq(Links) /\ (s.full # <<>> => s.full[1].len <= 5 + A)
  BY DEF Placing
<1>2. Cur(A, s.full) \in 4..250 /\ (s.full = <<>> => Cur(A, s.full) = A)
  BY DEF Cur
<1>3. SLLength(d) \in Nat
  BY LinkLength
<1>4. SLLength(d) <= 255
  <2> DEFINE x == SLLength(d)
             y == Cur(A, s.full)
  <2>1. x <= 5 + y /\ x \in Nat /\ y \in 4..250
    BY <1>1, <1>2, <1>3
  <2> HIDE DEF x, y
  <2>2. x <= 255
    BY ONLY <2>1
  <2>3. QED
    BY <2>2 DEF x
<1>5. e \in Links /\ e.len = SLLength(d)
  BY <1>4, LinkWhole
<1>6. s.full = <<>> => e.len <= 5 + A
  BY ONLY <1>1, <1>2, <1>5
<1> HIDE DEF e
<1> DEFINE full == s.full
<1>7. full \in Seq(Links) /\ (full # <<>> => full[1].len <= 5 + A) /\ (full = <<>> => e.len <= 5 + A)
  BY <1>1, <1>6
<1> HIDE DEF full
<1>8. PushedWith(A, Append(full, e))
  BY ONLY <1>5, <1>7, A \in 4..250, PushedBase
<1>9. QED
  BY <1>4, <1>8 DEF e, full, PushedWith, CanPush

\* A turn in the midst of a component.
LEMMA ContinuesPart ==
  ASSUME NEW target, TargetOk(target), NEW A, A \in 4..250, NEW s, Placing(target, A, s), s.from > 0,
         NEW t, TurnTo(Append(s.full, SL(Midst(Comps(s)), TRUE)), SL(<<>>, FALSE), 250, target[s.at], s, t)
  PROVE  Placing(target, A, t) /\ Moves(s, t)
<1> DEFINE comps == Comps(s)
           d == Midst(comps)
           F == Append(s.full, SL(d, TRUE))
           at == s.at
           from == s.from
           c == target[at]
           P == Pth(s.full, comps)
<1>1. /\ s.full \in Seq(Links) /\ Plain(comps) /\ ReadOk(s.full, comps) /\ Walked(target, P, at, from)
      /\ from \in Nat /\ from > 0 /\ ~(from = 0)
  BY DEF Placing, Walked
<1>2. comps # <<>> /\ comps \in Seq(Piece)
  BY <1>1 DEF Placing, Plain
<1>3. d \in Seq(Piece) /\ SLLength(d) = SLLength(comps)
  BY <1>2, MidstSame DEF MidstIs
<1>4. SLLength(d) <= 255 /\ Base(F, <<>>, A) /\ Cur(A, F) = 250
  <2>1. Comps(s) # <<>> /\ SLLength(d) = SLLength(Comps(s))
    BY <1>2, <1>3
  <2> HIDE DEF d
  <2>2. CanPush(A, s, d)
    BY ONLY <1>3, <2>1, A \in 4..250, Placing(target, A, s), Pushable
  <2>3. QED
    BY <2>2 DEF CanPush
<1>5. /\ at \in 1..(Len(target) + 1) /\ Len(target) \in Nat /\ at <= Len(target) /\ c.kind = "text" /\ from < c.len
  BY <1>1, LenProperties DEF Walked, TargetOk
<1>6. at \in 1..Len(target) /\ at \in Nat /\ at >= 1
  BY ONLY <1>5
<1>7. c \in Component
  BY <1>6, ElementOfSeq DEF TargetOk
<1>8. c.len \in Nat
  BY <1>7 DEF Component
<1>9. /\ 2 + c.len - from <= 250 => t = State(F, SL(<<>>, FALSE), c, from, c.len - from, 250 - (2 + c.len - from) - 2, at + 1, 0)
      /\ 2 + c.len - from > 250 => t = State(F, SL(<<>>, FALSE), c, from, 250 - 2, 0, at, from + (250 - 2))
  BY <1>5 DEF TurnTo
<1> HIDE DEF d, F, at, from, c, comps, P
<1>10. ASSUME NEW m, m \in Nat
       PROVE  LET p == PieceOf(c, from, m) IN
              /\ ReadOk(F, Append(<<>>, p)) /\ Longer(Pth(F, Append(<<>>, p)), P, TextOf(p))
              /\ ComponentLength(p) = 2 + m
  <2> DEFINE p == PieceOf(c, from, m)
  <2>1. p \in Piece /\ p.kind = c.kind /\ p.len = m /\ p.cont = FALSE
    <3>1. PieceHas(c, from, m)
      BY ONLY <1>1, <1>7, <1>10, PieceIs
    <3>2. QED
      BY ONLY <3>1 DEF PieceHas
  <2> HIDE DEF p
  <2>2. p.kind # "root"
    BY ONLY <1>5, <2>1
  <2>3. MidstOf(s.full, comps, p)
    <3>1. SLLength(comps) <= 255
      BY ONLY <1>3, <1>4
    <3>2. QED
      BY ONLY <1>1, <1>2, <2>1, <2>2, <3>1, ReadMidst
  <2>4. ReadOk(F, <<p>>) /\ Longer(Pth(F, <<p>>), P, TextOf(p))
    BY <2>3 DEF MidstOf, F, d, P
  <2>5. Append(<<>>, p) = <<p>>
    OBVIOUS
  <2>6. ComponentLength(p) = 2 + m
    BY ONLY <1>5, <2>1, PieceLength
  <2>7. QED
    BY <2>4, <2>5, <2>6 DEF p
<1>11. SLLength(<<>>) = 5
  BY LinkEmpty
<1> DEFINE Going(m, left, a, next) ==
             /\ m \in Nat /\ left \in Int /\ m <= 248 /\ m + left <= 248
             /\ next > 0 => left = 0
             /\ a > 1 \/ next > 0
             /\ \/ from + m = c.len /\ a = at + 1 /\ next = 0
                \/ from + m < c.len /\ a = at /\ next = from + m
             /\ t = State(F, SL(<<>>, FALSE), c, from, m, left, a, next)
<1>12. ASSUME NEW m, NEW left, NEW a, NEW next, Going(m, left, a, next)
       PROVE  Placing(target, A, t)
  <2> DEFINE p == PieceOf(c, from, m)
             e == Append(<<>>, p)
             Q == Pth(F, e)
             l == ComponentLength(p)
  <2>1. ReadOk(F, e) /\ Longer(Q, P, TextOf(p)) /\ l = 2 + m
    BY <1>10, <1>12
  <2>2. Walked(target, Q, a, next)
    <3>1. /\ from + m = c.len => Walked(target, Q, at + 1, 0)
          /\ from + m < c.len => Walked(target, Q, at, from + m)
      <4> HIDE DEF Q
      <4>1. Longer(Q, P, TextOf(PieceOf(target[at], from, m)))
        BY <2>1 DEF c
      <4>2. /\ from + m = target[at].len => Walked(target, Q, at + 1, 0)
            /\ from + m < target[at].len => Walked(target, Q, at, from + m)
        BY ONLY <1>1, <1>12, <4>1, TargetOk(target), WalkOn
      <4>3. QED
        BY <4>2 DEF c
    <3> HIDE DEF Q
    <3>2. QED
      BY ONLY <1>12, <3>1
  <2>3. SLLength(<<>>) + l <= 5 + Cur(A, F) /\ SLLength(<<>>) + l + left <= 5 + Cur(A, F)
    <3> HIDE DEF l
    <3>1. l <= 250 /\ l + left <= 250 /\ l \in Int
      BY ONLY <1>12, <2>1
    <3>2. QED
      BY ONLY <1>4, <1>11, <1>12, <3>1
  <2>4. l = ComponentLength(PieceOf(c, from, m)) /\ ReadOk(F, Append(<<>>, PieceOf(c, from, m)))
        /\ Walked(target, Pth(F, Append(<<>>, PieceOf(c, from, m))), a, next)
    BY ONLY <2>1, <2>2
  <2> DEFINE z == <<>>
  <2>5. /\ Base(F, z, A) /\ SLLength(z) + l <= 5 + Cur(A, F) /\ SLLength(z) + l + left <= 5 + Cur(A, F)
        /\ ReadOk(F, Append(z, PieceOf(c, from, m))) /\ Walked(target, Pth(F, Append(z, PieceOf(c, from, m))), a, next)
        /\ t = State(F, SL(z, FALSE), c, from, m, left, a, next)
    BY ONLY <1>4, <1>12, <2>3, <2>4
  <2> HIDE DEF z, l, Q, e, p
  <2>6. l = ComponentLength(PieceOf(c, from, m))
    BY DEF l, p
  <2>7. QED
    BY ONLY <1>1, <1>7, <1>12, <2>5, <2>6, Grows
<1> HIDE DEF Going
<1>13. CASE 2 + c.len - from <= 250
  <2> DEFINE m == c.len - from
             left == 250 - (2 + c.len - from) - 2
  <2>1. m \in Nat /\ left \in Int /\ m <= 248 /\ m + left <= 248 /\ from + m = c.len
    <3> DEFINE n == c.len
    <3>1. m = n - from /\ n \in Nat /\ from < n /\ 2 + n - from <= 250 /\ left = 250 - (2 + n - from) - 2
      BY <1>5, <1>8, <1>13
    <3> HIDE DEF m, left, n
    <3>2. m \in Nat /\ left \in Int /\ m <= 248 /\ m + left <= 248 /\ from + m = n
      BY ONLY <1>1, <3>1
    <3>3. QED
      BY <3>2 DEF n
  <2>2. at + 1 > 1 /\ ~(0 > 0)
    BY ONLY <1>6
  <2>3. t = State(F, SL(<<>>, FALSE), c, from, m, left, at + 1, 0)
    BY ONLY <1>9, <1>13
  <2> HIDE DEF m, left
  <2> DEFINE next == 0
  <2>4. Going(m, left, at + 1, next)
    BY ONLY <2>1, <2>2, <2>3 DEF Going
  <2> HIDE DEF next
  <2>5. Placing(target, A, t)
    BY ONLY <1>12, <2>4
  <2>6. t.at = s.at + 1 /\ t.from = 0
    BY <2>3 DEF State, at
  <2>7. QED
    BY <2>5, <2>6 DEF Moves
<1>14. CASE 2 + c.len - from > 250
  <2> DEFINE m == 250 - 2
             left == 0
  <2>1. m \in Nat /\ m = 248 /\ left \in Int /\ m <= 248 /\ m + left <= 248 /\ left = 0
    OBVIOUS
  <2>2. from + m < c.len /\ from + m > 0 /\ from + m \in Nat /\ from + m >= from + 248
    BY ONLY <1>1, <1>8, <1>14, <2>1
  <2>3. t = State(F, SL(<<>>, FALSE), c, from, m, left, at, from + m)
    BY ONLY <1>9, <1>14
  <2> HIDE DEF m, left
  <2>4. Placing(target, A, t)
    <3> DEFINE next == from + m
    <3>1. next > 0 => left = 0
      BY <2>1
    <3>2. at > 1 \/ next > 0
      BY <2>2
    <3>3. from + m < c.len /\ next = from + m /\ t = State(F, SL(<<>>, FALSE), c, from, m, left, at, next)
      BY <2>2, <2>3
    <3> HIDE DEF next
    <3>4. Going(m, left, at, next)
      BY ONLY <2>1, <3>1, <3>2, <3>3 DEF Going
    <3>5. QED
      BY ONLY <1>12, <3>4
  <2>5. t.at = s.at /\ t.from = from + m
    BY <2>3 DEF State, at
  <2>6. QED
    BY <2>2, <2>4, <2>5 DEF Moves, from
<1>15. 2 + c.len - from <= 250 \/ 2 + c.len - from > 250
  BY ONLY <1>1, <1>8
<1>16. QED
  BY ONLY <1>13, <1>14, <1>15

\* Every turn of the loop keeps what is placed so far, and goes on.
LEMMA TurnKeeps ==
  ASSUME NEW target, TargetOk(target), NEW A, A \in 4..250, NEW s, Placing(target, A, s), s.at <= Len(target)
  PROVE  Placing(target, A, PlaceComponent(target, s)) /\ Moves(s, PlaceComponent(target, s))
<1> DEFINE comps == Comps(s)
           c == target[s.at]
           t == PlaceComponent(target, s)
<1>1. /\ s.full \in Seq(Links) /\ Plain(comps) /\ s.last = SL(comps, FALSE) /\ ReadOk(s.full, comps) /\ s.area \in Int
      /\ SLLength(comps) <= 5 + Cur(A, s.full) /\ SLLength(comps) + s.area <= 5 + Cur(A, s.full)
      /\ Walked(target, Pth(s.full, comps), s.at, s.from) /\ (s.full # <<>> => s.full[1].len <= 5 + A)
      /\ (comps = <<>> => s.full = <<>> /\ s.at = 1 /\ s.from = 0 /\ s.area = A)
      /\ (comps # <<>> => s.at > 1 \/ s.from > 0) /\ (s.from > 0 => s.area = 0)
  BY DEF Placing
<1>2. s.at \in 1..(Len(target) + 1) /\ s.from \in Nat /\ Len(target) \in Nat
  BY <1>1, LenProperties DEF Walked, TargetOk
<1>3. s.at \in 1..Len(target) /\ s.at \in Nat
  BY ONLY <1>2, s.at <= Len(target)
<1>4. c \in Component /\ (c.kind # "text" => c.len = 0) /\ (c.kind = "root" => s.at = 1)
  BY <1>3, ElementOfSeq DEF TargetOk
<1>5. c.len \in Nat
  BY <1>4 DEF Component
<1>6. TurnOf(target, s)
  BY <1>1, <1>2, <1>3, <1>4, <1>5, TurnIs
<1>7. Need(c) \in {2, 3}
  BY DEF Need
<1> HIDE DEF comps, c, t
<1>8. CASE s.area >= Need(c)
  <2>1. s.from = 0
    BY ONLY <1>1, <1>2, <1>7, <1>8
  <2>2. TurnTo(s.full, SL(comps, FALSE), s.area, c, s, t)
    BY <1>1, <1>6, <1>8 DEF TurnOf, c, t
  <2>3. c.kind = "root" => comps = <<>>
    BY ONLY <1>1, <1>4, <2>1
  <2>4. Base(s.full, comps, A)
    BY ONLY <1>1, A \in 4..250 DEF Base
  <2>5. Walked(target, Pth(s.full, comps), s.at, 0)
    BY ONLY <1>1, <2>1
  <2>6. Placing(target, A, t) /\ Moves(s, t)
    BY ONLY <1>1, <1>8, <2>1, <2>2, <2>3, <2>4, <2>5, TargetOk(target), s.at <= Len(target), BeginsPart DEF c
  <2>7. QED
    BY <2>6 DEF t
<1>9. CASE s.area < Need(c)
  <2>1. comps # <<>>
    BY <1>1, <1>7, <1>9
  <2>2. comps \in Seq(Piece) /\ Comps(s) # <<>>
    BY <1>1, <2>1 DEF Plain, comps
  <2>3. TurnTo(Pushed(s), SL(<<>>, FALSE), 250, c, s, t)
    BY <1>6, <1>9 DEF TurnOf, c, t
  <2>4. SL(comps, FALSE).data.comps = comps
    BY DEF SL, Entry
  <2>5. CASE s.from = 0
    <3>1. Continued(s.last, s.from > 0) = SL(comps, TRUE)
      <4>1. ~(s.from > 0)
        BY <2>5
      <4>2. QED
        BY <1>1, <2>4, <4>1 DEF Continued
    <3> DEFINE F == Append(s.full, SL(comps, TRUE))
    <3>2. Pushed(s) = F
      BY <3>1 DEF Pushed
    <3>3. SLLength(comps) <= 255 /\ Base(F, <<>>, A) /\ Cur(A, F) = 250
      <4>1. SLLength(comps) = SLLength(Comps(s))
        BY DEF comps
      <4>2. CanPush(A, s, comps)
        BY ONLY <2>2, <4>1, A \in 4..250, Placing(target, A, s), Pushable
      <4>3. QED
        BY <4>2 DEF CanPush
    <3>4. ReadOk(F, <<>>) /\ Pth(F, <<>>) = Pth(s.full, comps)
      BY <1>1, <2>1, <3>3, ReadPush DEF PushedOn
    <3> HIDE DEF F
    <3>5. Walked(target, Pth(F, <<>>), s.at, 0)
      BY ONLY <1>1, <2>5, <3>4
    <3>6. SLLength(<<>>) + 250 <= 5 + Cur(A, F) /\ 250 \in Int /\ 250 >= Need(c)
      BY <1>7, <3>3, LinkEmpty
    <3>7. TurnTo(F, SL(<<>>, FALSE), 250, c, s, t)
      BY ONLY <2>3, <3>2
    <3> DEFINE z == <<>>
    <3>8. /\ Base(F, z, A) /\ ReadOk(F, z) /\ Walked(target, Pth(F, z), s.at, 0) /\ SLLength(z) + 250 <= 5 + Cur(A, F)
          /\ (target[s.at].kind = "root" => z = <<>>) /\ TurnTo(F, SL(z, FALSE), 250, target[s.at], s, t)
          /\ 250 >= Need(target[s.at])
      BY <3>3, <3>4, <3>5, <3>6, <3>7 DEF c
    <3> HIDE DEF z
    <3>9. Placing(target, A, t) /\ Moves(s, t)
      BY ONLY <2>5, <3>6, <3>8, TargetOk(target), s.at <= Len(target), BeginsPart
    <3>10. QED
      BY <3>9 DEF t
  <2>6. CASE s.from > 0
    <3>1. Continued(s.last, s.from > 0) = SL(Midst(comps), TRUE)
      <4>1. Continued(s.last, TRUE) = SL(Midst(comps), TRUE)
        BY <1>1, <2>4 DEF Continued, Midst
      <4>2. (s.from > 0) = TRUE
        BY <2>6
      <4>3. QED
        BY <4>1, <4>2
    <3>2. TurnTo(Append(s.full, SL(Midst(Comps(s)), TRUE)), SL(<<>>, FALSE), 250, target[s.at], s, t)
      BY <2>3, <3>1 DEF Pushed, comps, c
    <3>3. Placing(target, A, t) /\ Moves(s, t)
      BY ONLY <2>6, <3>2, Placing(target, A, s), TargetOk(target), A \in 4..250, ContinuesPart
    <3>4. QED
      BY <3>3 DEF t
  <2>7. s.from = 0 \/ s.from > 0
    BY ONLY <1>2
  <2>8. QED
    BY <2>5, <2>6, <2>7
<1>10. s.area >= Need(c) \/ s.area < Need(c)
  BY ONLY <1>1, <1>7
<1>11. QED
  BY ONLY <1>8, <1>9, <1>10

-----------------------------------------------------------------------------
(* The turns are enough for the whole target.                                *)

\* Nothing is placed before the first turn.
LEMMA BeginsPlacing ==
  ASSUME NEW target, TargetOk(target), NEW A, A \in 4..250
  PROVE  Placing(target, A, PlacedStart(A))
<1> DEFINE s == PlacedStart(A)
           z == <<>>
<1>1. s.full = z /\ s.last = SL(z, FALSE) /\ s.area = A /\ s.at = 1 /\ s.from = 0
  BY DEF PlacedStart
<1>2. SL(z, FALSE).data.comps = z
  BY DEF SL, Entry
<1>3. Comps(s) = z
  BY ONLY <1>1, <1>2 DEF Comps
<1>4. z \in Seq(Links) /\ z \in Path /\ Plain(z) /\ Len(z) = 0
  BY DEF Plain, Path
<1>5. Out(z) = z /\ Saved(z) = z
  BY PathReadEmpty DEF Out, Saved
<1>6. Names(z) = z /\ SlRead(z).cont = FALSE
  BY SlReadEmpty DEF Names
<1>7. Pth(z, z) = z
  <2>1. Glue(z, z) = z
    BY DEF Glue
  <2>2. z \o z = z
    OBVIOUS
  <2>3. QED
    BY <1>5, <1>6, <2>1, <2>2 DEF Pth
<1>8. Len(target) \in Nat
  BY LenProperties DEF TargetOk
<1>9. SLLength(z) = 5
  BY LinkEmpty
<1>10. z = <<>>
  OBVIOUS
<1> HIDE DEF z, s
<1>11. ReadOk(z, z)
  BY ONLY <1>4, <1>5, <1>6, <1>7, <1>10 DEF ReadOk
<1>12. Walked(target, z, 1, 0)
  <2>1. 1 \in 1..(Len(target) + 1) /\ 0 \in Nat /\ (1 - 1) = 0 /\ ~(0 > 0) /\ \A i \in 1..(1 - 1) : FALSE
    BY ONLY <1>8
  <2>2. QED
    BY ONLY <1>4, <2>1 DEF Walked
<1>13. Cur(A, z) = A
  BY ONLY <1>10 DEF Cur
<1>14. A \in Int /\ 5 <= 5 + A /\ 5 + A <= 5 + A
  OBVIOUS
<1>15. ~(0 > 0)
  OBVIOUS
<1>16. Placing(target, A, s)
  BY ONLY <1>1, <1>3, <1>4, <1>7, <1>9, <1>10, <1>11, <1>12, <1>13, <1>14, <1>15 DEF Placing
<1>17. QED
  BY <1>16 DEF s

\* How far n turns are at least: T of them are for the component at hand.
TurnSums(target, g) ==
  /\ g[0] = 0
  /\ \A i \in 1..Len(target) : g[i] = g[i - 1] + TurnsOf(target[i]) /\ g[i - 1] \in Nat /\ g[i] \in Nat
Far(target, g, s, n) ==
  s.at <= Len(target) =>
    \E T \in Nat : /\ n <= g[s.at - 1] + T
                   /\ s.from = 0 => T = 0
                   /\ s.from > 0 => T >= 1 /\ s.from >= 1 + 248 * (T - 1)
LEMMA TurnsLeft ==
  ASSUME NEW len, len \in Nat, NEW from, from \in Nat, from < len, NEW T, T \in Nat, T >= 1, from >= 1 + 248 * (T - 1)
  PROVE  T + 1 <= 1 + ((len + 246) \div 248)
<1>1. len + 246 >= 248 * T /\ len + 246 \in Nat
  OBVIOUS
<1> DEFINE y == len + 246
           d == y \div 248
<1>2. y \in Nat /\ y >= 248 * T
  BY <1>1
<1>3. d \in Nat /\ y < 248 * (d + 1)
  OBVIOUS
<1> HIDE DEF d, y
<1>4. T < d + 1
  BY ONLY <1>2, <1>3, T \in Nat
<1>5. T + 1 <= 1 + d
  BY ONLY <1>3, <1>4, T \in Nat
<1>6. QED
  BY <1>5 DEF d, y
TurnSpent(target, s) == target[s.at].kind = "text" => s.from < target[s.at].len \/ s.from = 0
LEMMA FarNext ==
  ASSUME NEW target, NEW g, TurnSums(target, g), Len(target) \in Nat, NEW s, NEW t, NEW n, n \in Nat, Far(target, g, s, n),
         s.at \in 1..Len(target), s.from \in Nat, target[s.at].len \in Nat, s.from > 0 => s.from < target[s.at].len, Moves(s, t)
  PROVE  Far(target, g, t, n + 1)
<1> DEFINE at == s.at
           from == s.from
           len == target[at].len
           b == g[at - 1]
           d == TurnsOf(target[at])
<1>1. PICK T \in Nat : n <= b + T /\ (from = 0 => T = 0) /\ (from > 0 => T >= 1 /\ from >= 1 + 248 * (T - 1))
  BY DEF Far
<1>2. g[at] = b + d /\ b \in Nat
  BY DEF TurnSums
<1>3. d = 1 + ((len + 246) \div 248) /\ len \in Nat
  BY DEF TurnsOf
<1>4. d \in Nat /\ d >= 1
  <2> HIDE DEF len, d
  <2>1. QED
    BY ONLY <1>3
<1>5. at \in Nat /\ at >= 1 /\ (at + 1) - 1 = at /\ from \in Nat
  OBVIOUS
<1>6. (from > 0 => from < len)
  OBVIOUS
<1> HIDE DEF len, d, b, from
<1>7. T + 1 <= d
  <2>1. CASE from = 0
    BY ONLY <1>1, <1>4, <2>1
  <2>2. CASE from > 0
    <3>1. T + 1 <= 1 + ((len + 246) \div 248)
      BY ONLY <1>1, <1>3, <1>5, <1>6, <2>2, TurnsLeft
    <3>2. QED
      BY ONLY <1>3, <3>1
  <2>3. QED
    BY ONLY <1>5, <2>1, <2>2
<1>8. CASE t.at = at + 1 /\ t.from = 0
  <2>1. n + 1 <= g[t.at - 1] + 0
    BY ONLY <1>1, <1>2, <1>4, <1>5, <1>7, <1>8, n \in Nat
  <2>2. 0 \in Nat /\ ~(0 > 0)
    OBVIOUS
  <2>3. QED
    BY ONLY <1>8, <2>1, <2>2 DEF Far
<1>9. CASE t.at = at /\ t.from \in Nat /\ t.from > 0 /\ (from > 0 => t.from >= from + 248)
  <2>1. T + 1 \in Nat /\ T + 1 >= 1 /\ n + 1 <= b + (T + 1)
    BY ONLY <1>1, <1>2, n \in Nat
  <2>2. t.from >= 1 + 248 * ((T + 1) - 1)
    BY ONLY <1>1, <1>5, <1>9
  <2>3. n + 1 <= g[t.at - 1] + (T + 1)
    BY ONLY <1>9, <2>1 DEF b
  <2>4. ~(t.from = 0)
    BY ONLY <1>9
  <2>5. QED
    BY ONLY <2>1, <2>2, <2>3, <2>4 DEF Far
<1>10. QED
  BY <1>8, <1>9 DEF Moves, from

\* The sum of the turns is more than any component but the last one takes.
LEMMA SumsGrow ==
  ASSUME NEW target, NEW g, TurnSums(target, g), Len(target) \in Nat, NEW k, k \in 1..Len(target),
         \A i \in 1..Len(target) : TurnsOf(target[i]) \in Nat
  PROVE  g[k] <= g[Len(target)]
<1> DEFINE n == Len(target)
           M == {j \in 0..n : j >= k => g[k] <= g[j]}
<1>1. g[k] \in Nat
  BY DEF TurnSums
<1>2. 0 \in M
  OBVIOUS
<1>3. ASSUME NEW j \in 0..(n - 1), j \in M
      PROVE  j + 1 \in M
  <2>1. j + 1 \in 1..n /\ (j + 1) - 1 = j
    BY <1>3
  <2>2. g[j + 1] = g[j] + TurnsOf(target[j + 1]) /\ g[j] \in Nat /\ TurnsOf(target[j + 1]) \in Nat
    BY ONLY <2>1, TurnSums(target, g), \A i \in 1..Len(target) : TurnsOf(target[i]) \in Nat DEF TurnSums
  <2> DEFINE d == TurnsOf(target[j + 1])
  <2> HIDE DEF d
  <2>3. g[j + 1] = g[j] + d /\ g[j] \in Nat /\ d \in Nat
    BY <2>2 DEF d
  <2>4. ASSUME j + 1 >= k PROVE g[k] <= g[j + 1]
    <3>1. CASE j >= k
      <4>1. g[k] <= g[j]
        BY <1>3, <3>1
      <4>2. QED
        BY ONLY <1>1, <2>3, <4>1
    <3>2. CASE j + 1 = k
      BY ONLY <1>1, <3>2
    <3>3. QED
      BY ONLY <1>3, <2>4, <3>1, <3>2, k \in 1..Len(target)
  <2>5. QED
    BY <2>1, <2>4
<1>4. \A j \in 0..n : j \in M
  <2> HIDE DEF M
  <2>1. \A j \in 0..(n - 1) : j \in M => j + 1 \in M
    BY <1>3
  <2>2. QED
    BY <1>2, <2>1, UpTo
<1>5. n \in M
  BY <1>4
<1>6. QED
  BY <1>5

\* After all turns the whole target is placed.
AllPlaced(target, A, s) == Placing(target, A, s) /\ s.at = Len(target) + 1 /\ s.from = 0
\* After the turns that were counted for it all of the target is placed.
LEMMA PlacesAll ==
  ASSUME NEW target, TargetOk(target), NEW A, A \in 4..250
  PROVE  AllPlaced(target, A, Placed(target, A, Total([i \in 1..Len(target) |-> TurnsOf(target[i])])))
<1> DEFINE L == Len(target)
           turns == [i \in 1..L |-> TurnsOf(target[i])]
           S(n) == Placed(target, A, n)
<1>1. L \in Nat
  BY LenProperties DEF TargetOk
<1>2. \A i \in 1..L : target[i] \in Component /\ target[i].len \in Nat
  <2> TAKE i \in 1..L
  <2>1. target[i] \in Component
    BY ElementOfSeq DEF TargetOk
  <2>2. QED
    BY <2>1 DEF Component
<1>3. \A i \in 1..L : TurnsOf(target[i]) \in Nat /\ TurnsOf(target[i]) >= 1
  <2> TAKE i \in 1..L
  <2> DEFINE n == target[i].len
  <2>1. n \in Nat
    BY <1>2
  <2>2. TurnsOf(target[i]) = 1 + ((n + 246) \div 248)
    BY DEF TurnsOf
  <2> HIDE DEF n
  <2>3. QED
    BY ONLY <2>1, <2>2
<1>4. turns \in Seq(Nat) /\ Len(turns) = L /\ \A i \in 1..L : turns[i] = TurnsOf(target[i])
  <2>1. turns \in [1..L -> Nat]
    BY <1>3
  <2>2. QED
    BY <1>1, <2>1
<1> HIDE DEF turns
<1>5. PICK g : TotalOf(g, turns) /\ Total(turns) = g[L]
  BY <1>4, TotalIs
<1>6. g[0] = 0 /\ \A i \in 1..L : g[i] = g[i - 1] + TurnsOf(target[i])
  <2>1. g = [i \in 0..L |-> IF i = 0 THEN 0 ELSE g[i - 1] + turns[i]]
    BY <1>4, <1>5 DEF TotalOf
  <2>2. \A i \in 1..L : i \in 0..L /\ ~(i = 0)
    BY <1>1
  <2>3. 0 \in 0..L
    BY <1>1
  <2>4. QED
    BY ONLY <1>4, <2>1, <2>2, <2>3
<1>7. \A i \in 0..L : g[i] \in Nat
  <2> DEFINE M == {i \in 0..L : g[i] \in Nat}
  <2>1. 0 \in M
    BY <1>1, <1>6
  <2>2. \A j \in 0..(L - 1) : j \in M => j + 1 \in M
    <3> TAKE j \in 0..(L - 1)
    <3>1. j + 1 \in 1..L /\ (j + 1) - 1 = j
      BY <1>1
    <3>2. g[j + 1] = g[j] + TurnsOf(target[j + 1]) /\ TurnsOf(target[j + 1]) \in Nat
      BY ONLY <1>3, <1>6, <3>1
    <3> DEFINE d == TurnsOf(target[j + 1])
    <3> HIDE DEF d
    <3>3. g[j] \in Nat => g[j + 1] \in Nat
      <4>1. g[j + 1] = g[j] + d /\ d \in Nat
        BY <3>2 DEF d
      <4>2. QED
        BY ONLY <4>1
    <3>4. QED
      BY <3>1, <3>3
  <2> HIDE DEF M
  <2>3. \A j \in 0..L : j \in M
    BY <1>1, <2>1, <2>2, UpTo
  <2>4. QED
    BY <2>3 DEF M
<1>8. TurnSums(target, g)
  <2>1. \A i \in 1..L : i \in 0..L /\ i - 1 \in 0..L
    BY <1>1
  <2>2. QED
    BY <1>6, <1>7, <2>1 DEF TurnSums
<1> DEFINE N == Total(turns)
           M == {n \in 0..N : Placing(target, A, S(n)) /\ Far(target, g, S(n), n)}
<1>9. N \in Nat
  BY <1>1, <1>5, <1>7
<1>10. 0 \in M
  <2>1. S(0) = PlacedStart(A)
    BY PlacedNone
  <2>2. Placing(target, A, PlacedStart(A))
    BY BeginsPlacing
  <2>3. PlacedStart(A).at = 1 /\ PlacedStart(A).from = 0 /\ 0 <= g[1 - 1] + 0 /\ 0 \in Nat /\ ~(0 > 0)
    BY <1>6 DEF PlacedStart
  <2>4. Far(target, g, PlacedStart(A), 0)
    BY ONLY <2>3 DEF Far
  <2>5. QED
    BY <1>9, <2>1, <2>2, <2>4
<1>11. \A n \in 0..(N - 1) : n \in M => n + 1 \in M
  <2> SUFFICES ASSUME NEW n, n \in 0..(N - 1), n \in M PROVE n + 1 \in M
    OBVIOUS
  <2> DEFINE s == S(n)
             t == S(n + 1)
  <2>1. n \in Nat /\ n + 1 \in 0..N
    BY <1>9
  <2>2. t = PlaceComponent(target, s)
    BY <2>1, PlacedNext
  <2>3. Placing(target, A, s) /\ Far(target, g, s, n)
    OBVIOUS
  <2> HIDE DEF s
  <2>4. s.at \in 1..(L + 1) /\ s.from \in Nat /\ (s.from > 0 => s.from < target[s.at].len)
    BY <2>3 DEF Placing, Walked
  <2>5. CASE s.at <= L
    <3>1. Placing(target, A, t) /\ Moves(s, t)
      BY ONLY <2>2, <2>3, <2>5, TargetOk(target), A \in 4..250, TurnKeeps
    <3>2. s.at \in 1..L
      BY ONLY <1>1, <2>4, <2>5
    <3>3. target[s.at].len \in Nat
      BY <1>2, <3>2
    <3> HIDE DEF t
    <3>4. Far(target, g, t, n + 1)
      BY ONLY <1>1, <1>8, <2>1, <2>3, <2>4, <3>1, <3>2, <3>3, FarNext
    <3>5. QED
      BY <2>1, <3>1, <3>4 DEF t
  <2>6. CASE s.at > L
    <3>1. t = s
      BY ONLY <2>2, <2>6 DEF PlaceComponent
    <3>2. ~(s.at <= L)
      BY ONLY <1>1, <2>4, <2>6
    <3>3. Far(target, g, s, n + 1)
      BY ONLY <3>2 DEF Far
    <3>4. QED
      BY <2>1, <2>3, <3>1, <3>3
  <2>7. QED
    BY ONLY <1>1, <2>4, <2>5, <2>6
<1>12. N \in M
  <2> HIDE DEF M, N
  <2>1. \A j \in 0..N : j \in M
    BY <1>9, <1>10, <1>11, UpTo
  <2>2. QED
    BY <1>9, <2>1
<1> DEFINE s == S(N)
<1>13. Placing(target, A, s) /\ Far(target, g, s, N) /\ N = g[L]
  BY <1>5, <1>12
<1> HIDE DEF s, N
<1>14. s.at \in 1..(L + 1) /\ s.from \in Nat /\ (s.from > 0 => s.at <= L /\ s.from < target[s.at].len)
  BY <1>13 DEF Placing, Walked
<1>15. ~(s.at <= L)
  <2> SUFFICES ASSUME s.at <= L PROVE FALSE
    OBVIOUS
  <2> DEFINE at == s.at
             from == s.from
             len == target[at].len
             d == TurnsOf(target[at])
             b == g[at - 1]
  <2>1. at \in 1..L
    BY ONLY <1>1, <1>14, s.at <= L
  <2>2. PICK T \in Nat : N <= b + T /\ (from = 0 => T = 0) /\ (from > 0 => T >= 1 /\ from >= 1 + 248 * (T - 1))
    BY <1>13 DEF Far
  <2>3. g[at] = b + d /\ b \in Nat /\ d \in Nat /\ d >= 1 /\ len \in Nat /\ d = 1 + ((len + 246) \div 248)
    <3>1. g[at] = b + d /\ b \in Nat
      BY <1>8, <2>1 DEF TurnSums
    <3>2. d \in Nat /\ d >= 1 /\ len \in Nat
      BY <1>2, <1>3, <2>1
    <3>3. d = 1 + ((len + 246) \div 248)
      BY DEF TurnsOf
    <3>4. QED
      BY ONLY <3>1, <3>2, <3>3
  <2>4. g[at] <= g[L]
    BY <1>1, <1>3, <1>8, <2>1, SumsGrow
  <2>5. from \in Nat /\ (from > 0 => from < len)
    BY <1>14
  <2>6. g[at] \in Nat /\ N \in Nat /\ N = g[L]
    BY <1>8, <1>9, <1>13, <2>1 DEF TurnSums
  <2> HIDE DEF d, b, from, len
  <2>7. T + 1 <= d
    <3>1. CASE from = 0
      BY ONLY <2>2, <2>3, <3>1
    <3>2. CASE from > 0
      <4>1. T + 1 <= 1 + ((len + 246) \div 248)
        BY ONLY <2>2, <2>3, <2>5, <3>2, TurnsLeft
      <4>2. QED
        BY ONLY <2>3, <4>1
    <3>3. QED
      BY ONLY <2>5, <3>1, <3>2
  <2>8. QED
    BY ONLY <2>2, <2>3, <2>4, <2>6, <2>7
<1>16. s.at = L + 1 /\ s.from = 0
  BY ONLY <1>1, <1>14, <1>15
<1>17. AllPlaced(target, A, s)
  BY <1>13, <1>16 DEF AllPlaced
<1>18. QED
  BY <1>17 DEF s, N, turns

\* The entries of a target read as the target, and the first is no longer
\* than there was room for.
LinksRead(es, target, A) ==
  /\ es \in Seq(Links) /\ Len(es) > 0 /\ es[1].len <= 5 + A
  /\ PathSays(PathRead(es).out, target)
\* The entries of a target are read as the target.
LEMMA SlEntriesRead ==
  ASSUME NEW target, TargetOk(target), target # <<>>, NEW A, A \in 4..250
  PROVE  LinksRead(SlEntries(target, A), target, A)
<1> DEFINE s == Placed(target, A, Total([i \in 1..Len(target) |-> TurnsOf(target[i])]))
           comps == Comps(s)
           es == Append(s.full, s.last)
           P == Pth(s.full, comps)
           L == Len(target)
<1>1. AllPlaced(target, A, s)
  BY PlacesAll
<1> HIDE DEF s
<1>2. /\ s.full \in Seq(Links) /\ Plain(comps) /\ s.last = SL(comps, FALSE) /\ ReadOk(s.full, comps)
      /\ SLLength(comps) <= 5 + Cur(A, s.full) /\ Walked(target, P, s.at, s.from)
      /\ (s.full # <<>> => s.full[1].len <= 5 + A) /\ (comps = <<>> => s.at = 1)
      /\ s.at = L + 1 /\ s.from = 0
  BY <1>1 DEF AllPlaced, Placing
<1>3. L \in Nat /\ L > 0
  <2>1. target \in Seq(Component)
    BY DEF TargetOk
  <2>2. QED
    BY ONLY <2>1, target # <<>>
<1>4. comps # <<>> /\ comps \in Seq(Piece)
  BY <1>2, <1>3 DEF Plain
<1> HIDE DEF comps
<1>5. SLLength(comps) \in Nat /\ SLLength(comps) <= 255 /\ (s.full = <<>> => SLLength(comps) <= 5 + A)
  <2>1. SLLength(comps) \in Nat
    BY ONLY <1>4, LinkLength
  <2>2. Cur(A, s.full) \in 4..250 /\ (s.full = <<>> => Cur(A, s.full) = A)
    BY DEF Cur
  <2>3. SLLength(comps) <= 5 + Cur(A, s.full)
    BY ONLY <1>2
  <2> DEFINE x == SLLength(comps)
             y == Cur(A, s.full)
  <2> HIDE DEF x, y
  <2>4. x \in Nat /\ x <= 5 + y /\ y \in 4..250
    BY <2>1, <2>2, <2>3 DEF x, y
  <2>5. x \in Nat /\ x <= 255
    BY ONLY <2>4
  <2>6. ASSUME s.full = <<>> PROVE x <= 5 + A
    <3>1. y = A
      BY <2>2, <2>6 DEF y
    <3>2. QED
      BY ONLY <2>4, <3>1
  <2>7. QED
    BY <2>5, <2>6 DEF x
<1> DEFINE b == FALSE
           full == s.full
<1>6. b \in BOOLEAN /\ full \in Seq(Links) /\ ReadOk(full, comps)
  BY <1>2
<1> HIDE DEF b
<1>7. PushedOn(full, comps, b)
  <2> HIDE DEF full
  <2>1. QED
    BY ONLY <1>2, <1>4, <1>5, <1>6, ReadPush
<1>8. es \in Seq(Links) /\ Out(es) = P
  BY <1>2, <1>7 DEF PushedOn, b
<1>9. PathSays(P, target)
  <2>1. Len(P) = L /\ \A i \in 1..L : Said(P[i], target[i])
    <3>1. (L + 1) - 1 = L
      BY ONLY <1>3
    <3> HIDE DEF P
    <3>2. QED
      BY ONLY <1>2, <3>1 DEF Walked
  <2> HIDE DEF P
  <2>2. QED
    BY ONLY <2>1 DEF PathSays, Said
<1>10. Len(es) > 0 /\ es[1].len <= 5 + A
  <2>1. s.last \in Links /\ s.last.len = SLLength(comps)
    BY <1>2, <1>4, <1>5, <1>6, LinkWhole DEF b
  <2> DEFINE last == s.last
             n == Len(full)
  <2> HIDE DEF last, full
  <2>2. Len(Append(full, last)) = n + 1 /\ n \in Nat /\ Append(full, last)[n + 1] = last /\ \A i \in 1..n : Append(full, last)[i] = full[i]
    BY ONLY <1>6, <2>1, AppendProperties, LenProperties DEF last
  <2>3. CASE full = <<>>
    <3>1. n = 0
      BY <2>3
    <3>2. Append(full, last)[1] = last /\ last.len <= 5 + A
      BY <1>5, <2>1, <2>2, <2>3, <3>1 DEF last, full
    <3>3. QED
      BY <2>2, <3>1, <3>2 DEF last, full
  <2>4. CASE full # <<>>
    <3>1. n # 0
      BY ONLY <1>6, <2>4
    <3>2. 1 \in 1..n /\ n + 1 > 0
      BY ONLY <2>2, <3>1
    <3>3. Append(full, last)[1].len <= 5 + A
      BY <1>2, <2>2, <2>4, <3>2 DEF full
    <3>4. QED
      BY <2>2, <3>2, <3>3 DEF last, full
  <2>5. QED
    BY <2>3, <2>4
<1>11. SlEntries(target, A) = es
  BY Zenon DEF SlEntries, s
<1>12. LinksRead(es, target, A)
  <2> HIDE DEF es
  <2>1. QED
    BY <1>8, <1>9, <1>10 DEF LinksRead, Out
<1>13. QED
  BY <1>11, <1>12

-----------------------------------------------------------------------------
(* A target is assigned.                                                     *)
LEMMA RequestTarget ==
  ASSUME NEW q, IsRequest(q)
  PROVE  TargetOk(q.target) /\ q.start \in 34..226 /\ q.name \in Nat /\ q.version \in {"1.09", "1.10", "1.12"}
<1>1. q \in Request
  BY DEF IsRequest
<1>2. q.target \in Seq(Component) /\ q.start \in 34..226 /\ q.name \in Nat /\ q.version \in {"1.09", "1.10", "1.12"}
  BY ONLY <1>1 DEF Request
<1>3. QED
  BY <1>2, Zenon DEF IsRequest, TargetOk

LEMMA LeastLink == SLLength(<<[kind |-> "text", len |-> 1]>>) = 8
<1> DEFINE c == [kind |-> "text", len |-> 1]
           comps == <<c>>
           s == [i \in 1..Len(comps) |-> ComponentLength(comps[i])]
<1>1. ComponentLength(c) = 3
  BY DEF ComponentLength
<1> HIDE DEF c
<1>2. s = Append(<<>>, 3)
  <2>1. Len(comps) = 1 /\ comps[1] = c /\ \A i \in 1..1 : i = 1
    OBVIOUS
  <2> HIDE DEF comps
  <2>2. s = [i \in 1..1 |-> 3]
    BY <1>1, <2>1
  <2>3. QED
    BY <2>2
<1>3. Total(Append(<<>>, 3)) = Total(<<>>) + 3
  <2>1. <<>> \in Seq(Nat) /\ 3 \in Nat
    OBVIOUS
  <2> DEFINE z == 3
             f == <<>>
  <2>2. f \in Seq(Nat) /\ z \in Nat
    BY <2>1
  <2> HIDE DEF z, f
  <2>3. Total(Append(f, z)) = Total(f) + z
    BY ONLY <2>2, TotalAppend
  <2>4. QED
    BY <2>3 DEF z, f
<1>4. Total(s) = 3
  BY <1>2, <1>3, TotalEmpty
<1>5. SLLength(comps) = 5 + Total(s)
  BY DEF SLLength
<1>6. QED
  BY <1>4, <1>5 DEF c

LEMMA SymlinkCases ==
  ASSUME NEW a, NEW target, NEW l, l \in Int, a.len = l
  PROVE  /\ (l < 0 \/ target = <<>>) => NewSymlink(a, target) = a
         /\ (l >= 0 /\ target # <<>> /\ ~a.withCe) =>
              \/ NewSymlink(a, target) = DoesNotFit(a)
              \/ l <= 245 /\ NewSymlink(a, target) = InContinuation(InRecord(a, Head(SlEntries(target, 249 - l))), "SL", Tail(SlEntries(target, 249 - l)))
              \/ l > 245 /\ NewSymlink(a, target) = InContinuation(a, "SL", SlEntries(target, 250))
         /\ (l >= 0 /\ target # <<>> /\ a.withCe) =>
              \/ l <= 245 /\ NewSymlink(a, target) = InContinuation(InRecord(a, Head(SlEntries(target, 249 - l))), "SL", Tail(SlEntries(target, 249 - l)))
              \/ l > 245 /\ NewSymlink(a, target) = InContinuation(a, "SL", SlEntries(target, 250))
<1> DEFINE room == AllowedDrSize - a.len - 5
           inRecord == a.len + SLLength(<<[kind |-> "text", len |-> 1]>>) < AllowedDrSize
           area == IF inRecord THEN room ELSE MaximumComponentArea
           es == SlEntries(target, area)
           none == a.len < 0 \/ target = <<>>
           over == a.len + SLLength(target) > AllowedDrSize /\ ~a.withCe
           x == DoesNotFit(a)
           y == InContinuation(InRecord(a, Head(es)), "SL", Tail(es))
           z == InContinuation(a, "SL", es)
           b == NewSymlink(a, target)
<1>1. b = IF none THEN a ELSE IF over THEN x ELSE IF inRecord THEN y ELSE z
  BY Zenon DEF NewSymlink
<1>2. room = 249 - l /\ (none <=> l < 0 \/ target = <<>>) /\ MaximumComponentArea = 250 /\ (inRecord <=> l <= 245)
      /\ (l >= 0 <=> ~(l < 0)) /\ (l > 245 <=> ~(l <= 245))
  BY LeastLink, l \in Int DEF AllowedDrSize, MaximumComponentArea
<1>3. ~over \/ ~a.withCe
  OBVIOUS
<1> HIDE DEF none, over, inRecord, x, y, z, room
<1>4. /\ none => b = a
      /\ (~none /\ over) => b = x
      /\ (~none /\ ~over /\ inRecord) => b = y
      /\ (~none /\ ~over /\ ~inRecord) => b = z
  BY Zenon, <1>1
<1>5. (inRecord => area = 249 - l) /\ (~inRecord => area = 250)
  BY ONLY <1>2
<1> HIDE DEF area
<1>6. inRecord => y = InContinuation(InRecord(a, Head(SlEntries(target, 249 - l))), "SL", Tail(SlEntries(target, 249 - l)))
  BY Zenon, <1>5 DEF y
<1>7. ~inRecord => z = InContinuation(a, "SL", SlEntries(target, 250))
  BY Zenon, <1>5 DEF z
<1> DEFINE Y == InContinuation(InRecord(a, Head(SlEntries(target, 249 - l))), "SL", Tail(SlEntries(target, 249 - l)))
           Z == InContinuation(a, "SL", SlEntries(target, 250))
<1> HIDE DEF b, Y, Z
<1>8. /\ (l < 0 \/ target = <<>>) => b = a
      /\ (l >= 0 /\ target # <<>> /\ ~a.withCe) => b = x \/ (l <= 245 /\ b = Y) \/ (l > 245 /\ b = Z)
      /\ (l >= 0 /\ target # <<>> /\ a.withCe) => (l <= 245 /\ b = Y) \/ (l > 245 /\ b = Z)
  <2>1. (inRecord => y = Y) /\ (~inRecord => z = Z)
    BY <1>6, <1>7 DEF Y, Z
  <2>2. (l >= 0 /\ target # <<>>) => ~none
    BY ONLY <1>2
  <2>3. (l < 0 \/ target = <<>>) => none
    BY ONLY <1>2
  <2>4. (inRecord => l <= 245) /\ (~inRecord => l > 245)
    BY ONLY <1>2
  <2>5. QED
    BY Zenon, <1>3, <1>4, <2>1, <2>2, <2>3, <2>4
<1>9. QED
  BY <1>8 DEF b, x, Y, Z

\* _new_symlink says the target, of any length and number of components.
LEMMA SymlinkStep ==
  ASSUME NEW q, IsRequest(q), NEW w, w \in BOOLEAN, NEW K, K \subseteq Kinds, NEW a, Partly(a, q, w, K), "SL" \notin K
  PROVE  Partly(NewSymlink(a, q.target), q, w, K \cup {"SL"})
<1> DEFINE target == q.target
           b == NewSymlink(a, target)
           l == a.len
<1>1. TargetOk(target) /\ q.start \in 34..226
  BY RequestTarget
<1>2. "SL" \in Kinds \ {"PN"} /\ "SL" \notin Ones /\ "NM" # "SL"
  BY DEF Kinds, Ones
<1>3. \A s, t : PathHas(q, s, t) => Has(q, "SL", s, t)
  BY <1>2 DEF Has
<1>4. <<>> \in Seq(OfSu(Whole, "SL"))
  OBVIOUS
<1>5. AreaLength(<<>>) = 0
  BY AreaEmpty
<1>6. q.target = target
  OBVIOUS
<1> HIDE DEF target, b
<1>7. CASE l = -1 /\ ~w
  <2>1. l \in Int /\ a.len = l /\ (l < 0 \/ target = <<>>)
    BY ONLY <1>7
  <2>2. b = a
    BY ONLY <2>1, SymlinkCases DEF b
  <2>3. Partly(b, q, w, K \cup {"SL"})
    BY ONLY <1>7, <2>2 DEF Partly
  <2>4. QED
    BY <2>3 DEF b, target
<1>8. CASE Part(a, q, w, K)
  <2>1. Fit(a, q, w) /\ a.dr["SL"] = <<>> /\ a.ce["SL"] = <<>>
    BY <1>2, <1>8 DEF Part
  <2>2. /\ a.len \in Nat /\ a.len <= 254 /\ a.withCe = w /\ a.len >= 34
        /\ a = [dr |-> a.dr, ce |-> a.ce, len |-> a.len, withCe |-> w, cont |-> a.cont]
    <3>1. Weight(a.dr) \in Nat
      BY <2>1, WholeHas, WeightIs DEF Fit
    <3>2. Room(w) \in Nat
      BY DEF Room
    <3> DEFINE x == Weight(a.dr)
               y == Room(w)
    <3> HIDE DEF x, y
    <3>3. a.len = q.start + y + x /\ x \in Nat /\ y \in Nat
      BY <2>1, <3>1, <3>2 DEF Fit, x, y
    <3>4. a.len >= 34
      BY ONLY <3>3, <1>1
    <3>5. QED
      BY <2>1, <3>4 DEF Fit
  <2>3. CASE target = <<>>
    <3>1. b = a
      <4>1. l \in Int /\ a.len = l /\ (l < 0 \/ target = <<>>)
        BY ONLY <2>2, <2>3
      <4>2. QED
        BY ONLY <4>1, SymlinkCases DEF b
    <3>2. PathHas(q, <<>>, <<>>)
      <4>1. PathRead(<<>> \o <<>>).out = <<>>
        <5>1. <<>> \o <<>> = <<>>
          OBVIOUS
        <5>2. QED
          BY <5>1, PathReadEmpty
      <4>2. PathSays(<<>>, <<>>)
        BY DEF PathSays
      <4>3. QED
        BY <1>6, <2>3, <4>1, <4>2 DEF PathHas
    <3>3. Has(q, "SL", <<>>, <<>>)
      BY <1>3, <3>2
    <3>4. Part(a, q, w, K \cup {"SL"})
      BY <1>8, <2>1, <3>3 DEF Part
    <3>5. QED
      BY <3>1, <3>4 DEF Partly, b, target
  <2>4. CASE target # <<>>
    <3> DEFINE X == InContinuation(InRecord(a, Head(SlEntries(target, 249 - l))), "SL", Tail(SlEntries(target, 249 - l)))
               Y == InContinuation(a, "SL", SlEntries(target, 250))
    <3>1. (b = DoesNotFit(a) /\ ~w) \/ (l <= 245 /\ b = X) \/ (l > 245 /\ b = Y)
      <4>1. l \in Int /\ a.len = l /\ l >= 0
        BY ONLY <2>2
      <4>2. /\ ~a.withCe => (b = DoesNotFit(a) \/ (l <= 245 /\ b = X) \/ (l > 245 /\ b = Y))
            /\ a.withCe => ((l <= 245 /\ b = X) \/ (l > 245 /\ b = Y))
        BY ONLY <2>4, <4>1, SymlinkCases DEF b
      <4> HIDE DEF X, Y
      <4>3. QED
        BY ONLY <2>2, <4>2
    <3>2. CASE b = DoesNotFit(a) /\ ~w
      <4>1. DoesNotFit(a).len = -1
        BY ONLY <2>2 DEF DoesNotFit
      <4>2. Partly(b, q, w, K \cup {"SL"})
        BY ONLY <3>2, <4>1 DEF Partly
      <4>3. QED
        BY <4>2 DEF b, target
    <3>3. CASE l <= 245 /\ b = X
      <4> DEFINE A == 249 - l
                 es == SlEntries(target, A)
                 e == Head(es)
                 t == Tail(es)
                 s == <<e>>
                 c == InContinuation(InRecord(a, e), "SL", t)
      <4>1. A \in 4..250 /\ l + 5 + A = 254 /\ A \in Int
        BY ONLY <2>2, <3>3
      <4> HIDE DEF A
      <4>2. LinksRead(es, target, A)
        BY ONLY <1>1, <2>4, <4>1, SlEntriesRead
      <4> HIDE DEF es
      <4>3. es \in Seq(Links) /\ Len(es) > 0 /\ es[1].len <= 5 + A /\ PathSays(PathRead(es).out, target)
        BY ONLY <4>2 DEF LinksRead
      <4>4. e \in Links /\ t \in Seq(Links) /\ s \o t = es /\ e = es[1]
        <5>1. es # <<>>
          BY ONLY <4>3
        <5>2. QED
          BY ONLY <4>3, <5>1, HeadTailProperties
      <4> HIDE DEF e, t
      <4>5. e.su = "SL" /\ e.len \in Nat /\ e \in Whole
        BY <4>4, WholeHas DEF Links, OfSu
      <4>6. s \in Seq(Links) /\ AreaLength(s) = e.len
        BY <4>4, <4>5, AreaOne
      <4>7. PathHas(q, s, t)
        <5>1. ~(q.target = <<>>)
          BY <1>6, <2>4
        <5> HIDE DEF s
        <5>2. QED
          BY ONLY <1>6, <4>3, <4>4, <5>1 DEF PathHas
      <4>8. Grown(a, c, "SL", s, t)
        BY ONLY <1>2, <2>1, <4>4, <4>5, GrownWays DEF Links
      <4>9. a.len + AreaLength(s) <= 254
        BY ONLY <2>2, <4>1, <4>3, <4>4, <4>5, <4>6
      <4> HIDE DEF c, s
      <4>10. Growing(a, c, q, w, K, "SL", s, t)
        BY <1>1, <1>2, <1>3, <1>8, <4>4, <4>6, <4>7, <4>8, <4>9 DEF Growing, Links
      <4>11. Part(c, q, w, K \cup {"SL"})
        BY ONLY <4>10, PartGrown
      <4>12. c = b
        BY <3>3 DEF c, e, t, es, A
      <4>13. QED
        BY <4>11, <4>12 DEF Partly, b, target
    <3>4. CASE l > 245 /\ b = Y
      <4> DEFINE A == 250
                 t == SlEntries(target, A)
                 s == <<>>
                 c == InContinuation(a, "SL", t)
      <4>1. A \in 4..250
        OBVIOUS
      <4>2. c = b
        BY <3>4
      <4> HIDE DEF A
      <4>3. LinksRead(t, target, A)
        BY ONLY <1>1, <2>4, <4>1, SlEntriesRead
      <4> HIDE DEF t
      <4>4. t \in Seq(Links) /\ PathSays(PathRead(t).out, target)
        BY ONLY <4>3 DEF LinksRead
      <4>5. s \o t = t
        BY <4>4
      <4>6. PathHas(q, s, t)
        <5>1. ~(q.target = <<>>)
          BY <1>6, <2>4
        <5> HIDE DEF s
        <5>2. QED
          BY ONLY <1>6, <4>4, <4>5, <5>1 DEF PathHas
      <4>7. Grown(a, c, "SL", <<>>, t)
        <5> DEFINE e == [su |-> "SL", len |-> 0]
        <5>1. e.su = "SL" /\ e.len \in Nat
          OBVIOUS
        <5> HIDE DEF e
        <5>2. QED
          BY ONLY <1>2, <2>1, <4>4, <5>1, GrownWays DEF Links
      <4>8. a.len + AreaLength(s) <= 254
        BY <1>5, <2>2
      <4>9. Growing(a, c, q, w, K, "SL", s, t)
        <5>1. s \in Seq(OfSu(Whole, "SL")) /\ Grown(a, c, "SL", s, t)
          BY <1>4, <4>7
        <5> HIDE DEF c, s
        <5>2. QED
          BY <1>1, <1>2, <1>3, <1>8, <4>4, <4>6, <4>8, <5>1 DEF Growing, Links
      <4> HIDE DEF c, s
      <4>10. Part(c, q, w, K \cup {"SL"})
        BY ONLY <4>9, PartGrown
      <4>11. QED
        BY <4>2, <4>10 DEF Partly, b, target
    <3>5. QED
      BY <3>1, <3>2, <3>3, <3>4
  <2>5. QED
    BY ONLY <2>3, <2>4
<1>9. (a.len = -1 /\ ~w) \/ Part(a, q, w, K)
  BY DEF Partly
<1>10. QED
  BY <1>7, <1>8, <1>9

-----------------------------------------------------------------------------
(* All kinds of a request are assigned.                                      *)
LEMMA NothingWeighs ==
  NoEntries \in Lists(Whole) /\ Weight(NoEntries) = 0 /\ \A k \in Kinds : NoEntries[k] = <<>>
<1>1. NoEntries \in Lists(Whole) /\ \A k \in Kinds : NoEntries[k] = <<>>
  <2>1. NoEntries \in [Kinds -> Seq(Whole)] /\ \A k \in Kinds : NoEntries[k] = <<>>
    BY DEF NoEntries
  <2>2. \A k \in Kinds : NoEntries[k] \in Seq(OfSu(Whole, k))
    BY <2>1
  <2>3. QED
    BY <2>1, <2>2 DEF Lists
<1>2. Weight(NoEntries) = 0
  <2>2. PICK g : WeighedBy(g, NoEntries)
    BY <1>1, WholeHas, WeightIs
  <2>3. \A i \in 1..16 : AreaLength(NoEntries[RecordOrder[i]]) = 0
    BY <1>1, Order, AreaEmpty
  <2>4. g[0] = 0 /\ Weight(NoEntries) = g[16] /\ \A i \in 1..16 : g[i] = g[i - 1] + 0
    BY ONLY <2>2, <2>3 DEF WeighedBy
  <2> DEFINE M == {i \in 0..16 : g[i] = 0}
  <2>5. 0 \in M
    BY <2>4
  <2>6. \A j \in 0..(16 - 1) : j \in M => j + 1 \in M
    <3> TAKE j \in 0..(16 - 1)
    <3>1. j + 1 \in 1..16 /\ (j + 1) - 1 = j
      OBVIOUS
    <3>2. g[j + 1] = g[j] + 0
      BY ONLY <2>4, <3>1
    <3>3. QED
      BY <3>1, <3>2
  <2> HIDE DEF M
  <2>7. \A j \in 0..16 : j \in M
    <3> DEFINE n == 16
    <3>1. n \in Nat /\ \A j \in 0..(n - 1) : j \in M => j + 1 \in M
      BY <2>6
    <3> HIDE DEF n
    <3>2. \A j \in 0..n : j \in M
      BY ONLY <2>5, <3>1, UpTo
    <3>3. QED
      BY <3>2 DEF n
  <2>8. 16 \in M
    BY <2>7
  <2>9. QED
    BY <2>4, <2>8 DEF M
<1>3. QED
  BY <1>1, <1>2

LEMMA BlankIs ==
  ASSUME NEW q, IsRequest(q), NEW w, w \in BOOLEAN
  PROVE  Partly(Blank(q.start + IF w THEN CE(0).len ELSE 0, w), q, w, {})
<1> DEFINE l == q.start + IF w THEN CE(0).len ELSE 0
           a == Blank(l, w)
           z == <<>>
<1>1. q.start \in 34..226
  BY RequestTarget
<1>2. CE(0).len = 28
  BY DEF CE, Entry
<1>3. l = q.start + Room(w) + 0 /\ l \in Nat /\ l <= 254
  BY <1>1, <1>2 DEF Room
<1>4. NoEntries \in Lists(Whole) /\ \A k \in Kinds : NoEntries[k] = <<>>
  BY NothingWeighs
<1>5. Weight(NoEntries) = 0
  BY NothingWeighs
<1>6. a = [dr |-> NoEntries, ce |-> NoEntries, len |-> l, withCe |-> w, cont |-> 0]
  BY DEF Blank
<1> HIDE DEF l, a
<1>7. a.dr = NoEntries /\ a.ce = NoEntries /\ a.len = l /\ a.cont = 0 /\ a.withCe = w
      /\ a = [dr |-> a.dr, ce |-> a.ce, len |-> a.len, withCe |-> w, cont |-> a.cont]
  BY ONLY <1>6
<1>8. Fit(a, q, w)
  BY ONLY <1>3, <1>4, <1>5, <1>7 DEF Fit
<1>9. Part(a, q, w, {})
  BY <1>4, <1>7, <1>8 DEF Part
<1>10. QED
  BY <1>9 DEF Partly, a, l

\* A step of the chain: b is a with the entries of k.
PutStepping(q, w, K, L, k, e, a, b) ==
  /\ IsRequest(q) /\ w \in BOOLEAN /\ K \subseteq Kinds /\ Partly(a, q, w, K)
  /\ k \in Ones /\ k \notin K /\ L = K \cup {k} /\ e = EntryOf(q, k)
  /\ Wanted(q, k) => b = Put(a, e)
  /\ ~Wanted(q, k) => b = a
LEMMA PutStepped ==
  ASSUME NEW q, NEW w, NEW K, NEW L, NEW k, NEW e, NEW a, NEW b, PutStepping(q, w, K, L, k, e, a, b)
  PROVE  Partly(b, q, w, L)
<1> DEFINE wanted == Wanted(q, k)
<1>1. IsRequest(q) /\ w \in BOOLEAN /\ K \subseteq Kinds /\ Partly(a, q, w, K) /\ k \in Ones /\ k \notin K
  BY DEF PutStepping
<1>2. q.start \in 34..226
  BY <1>1, RequestTarget
<1>3. wanted <=> Wanted(q, k)
  OBVIOUS
<1>4. b = PutIf(wanted, a, EntryOf(q, k))
  <2> HIDE DEF wanted
  <2>1. (wanted => b = Put(a, EntryOf(q, k))) /\ (~wanted => b = a)
    BY <1>3 DEF PutStepping
  <2>2. QED
    BY Zenon, <2>1 DEF PutIf
<1> HIDE DEF wanted
<1>5. Partly(PutIf(wanted, a, EntryOf(q, k)), q, w, K \cup {k})
  BY ONLY <1>1, <1>2, <1>3, PutStep
<1>6. L = K \cup {k}
  BY DEF PutStepping
<1>7. QED
  BY <1>4, <1>5, <1>6

AllAsked == Ones \cup {"NM", "SL"}
LEMMA EntriesOf ==
  ASSUME NEW q
  PROVE  /\ EntryOf(q, "SP") = SP(0) /\ EntryOf(q, "RR") = RR(Fields(q)) /\ EntryOf(q, "PX") = PX(q.version, 1)
         /\ EntryOf(q, "TF") = TF(3, FALSE) /\ EntryOf(q, "CL") = CL(0) /\ EntryOf(q, "RE") = RE
         /\ EntryOf(q, "PL") = PL(0) /\ EntryOf(q, "ER") = ER(q.version)
BY DEF EntryOf
\* _assign_entries answers the whole request, or nothing fits.
LEMMA AllAssigned ==
  ASSUME NEW q, IsRequest(q), NEW w, w \in BOOLEAN
  PROVE  Partly(AssignEntries(q, w), q, w, AllAsked)
<1> DEFINE blank == Blank(q.start + IF w THEN CE(0).len ELSE 0, w)
           sp == PutIf(q.kind = "first", blank, SP(0))
           fields == PutIf(q.version = "1.09", sp, RR(Fields(q)))
           name == AddName(fields, q.name)
           px == Put(name, PX(q.version, 1))
           target == NewSymlink(px, q.target)
           tf == Put(target, TF(3, FALSE))
           cl == PutIf(q.kind = "child_link", tf, CL(0))
           re == PutIf(q.kind = "moved_dir", cl, RE)
           pl == PutIf(q.kind = "moved_dotdot", re, PL(0))
           er == PutIf(q.kind = "first", pl, ER(q.version))
           K1 == {"SP"}
           K2 == {"SP", "RR"}
           K3 == {"SP", "RR", "NM"}
           K4 == {"SP", "RR", "NM", "PX"}
           K5 == {"SP", "RR", "NM", "PX", "SL"}
           K6 == {"SP", "RR", "NM", "PX", "SL", "TF"}
           K7 == {"SP", "RR", "NM", "PX", "SL", "TF", "CL"}
           K8 == {"SP", "RR", "NM", "PX", "SL", "TF", "CL", "RE"}
           K9 == {"SP", "RR", "NM", "PX", "SL", "TF", "CL", "RE", "PL"}
<1>1. AssignEntries(q, w) = er
  BY Zenon DEF AssignEntries
<1>2. /\ {} \subseteq Kinds /\ K1 \subseteq Kinds /\ K2 \subseteq Kinds /\ K3 \subseteq Kinds /\ K4 \subseteq Kinds
      /\ K5 \subseteq Kinds /\ K6 \subseteq Kinds /\ K7 \subseteq Kinds /\ K8 \subseteq Kinds /\ K9 \subseteq Kinds
  BY DEF Kinds
<1>3. /\ "SP" \notin {} /\ "RR" \notin K1 /\ "NM" \notin K2 /\ "PX" \notin K3 /\ "SL" \notin K4 /\ "TF" \notin K5
      /\ "CL" \notin K6 /\ "RE" \notin K7 /\ "PL" \notin K8 /\ "ER" \notin K9
  OBVIOUS
<1>4. /\ K1 = {} \cup {"SP"} /\ K2 = K1 \cup {"RR"} /\ K3 = K2 \cup {"NM"} /\ K4 = K3 \cup {"PX"} /\ K5 = K4 \cup {"SL"}
      /\ K6 = K5 \cup {"TF"} /\ K7 = K6 \cup {"CL"} /\ K8 = K7 \cup {"RE"} /\ K9 = K8 \cup {"PL"}
      /\ AllAsked = K9 \cup {"ER"}
  BY DEF AllAsked, Ones
<1>5. "SP" \in Ones /\ "RR" \in Ones /\ "PX" \in Ones /\ "TF" \in Ones /\ "CL" \in Ones /\ "RE" \in Ones /\ "PL" \in Ones
      /\ "ER" \in Ones
  BY DEF Ones
<1>6. /\ (q.kind = "first") <=> Wanted(q, "SP")
      /\ (q.version = "1.09") <=> Wanted(q, "RR")
      /\ TRUE <=> Wanted(q, "PX")
      /\ TRUE <=> Wanted(q, "TF")
      /\ (q.kind = "child_link") <=> Wanted(q, "CL")
      /\ (q.kind = "moved_dir") <=> Wanted(q, "RE")
      /\ (q.kind = "moved_dotdot") <=> Wanted(q, "PL")
      /\ (q.kind = "first") <=> Wanted(q, "ER")
  BY DEF Wanted
<1>7. /\ SP(0) = EntryOf(q, "SP") /\ RR(Fields(q)) = EntryOf(q, "RR") /\ PX(q.version, 1) = EntryOf(q, "PX")
      /\ TF(3, FALSE) = EntryOf(q, "TF") /\ CL(0) = EntryOf(q, "CL") /\ RE = EntryOf(q, "RE")
      /\ PL(0) = EntryOf(q, "PL") /\ ER(q.version) = EntryOf(q, "ER")
  BY EntriesOf
<1>8. Partly(blank, q, w, {})
  BY BlankIs
<1>9. px = Put(name, PX(q.version, 1)) /\ tf = Put(target, TF(3, FALSE))
      /\ name = AddName(fields, q.name) /\ target = NewSymlink(px, q.target)
  OBVIOUS
<1>10. /\ sp = IF q.kind = "first" THEN Put(blank, SP(0)) ELSE blank
       /\ fields = IF q.version = "1.09" THEN Put(sp, RR(Fields(q))) ELSE sp
       /\ cl = IF q.kind = "child_link" THEN Put(tf, CL(0)) ELSE tf
       /\ re = IF q.kind = "moved_dir" THEN Put(cl, RE) ELSE cl
       /\ pl = IF q.kind = "moved_dotdot" THEN Put(re, PL(0)) ELSE re
       /\ er = IF q.kind = "first" THEN Put(pl, ER(q.version)) ELSE pl
  BY Zenon DEF PutIf
<1> HIDE DEF blank, sp, fields, name, px, target, tf, cl, re, pl, er, K1, K2, K3, K4, K5, K6, K7, K8, K9
<1>11. q.start \in 34..226
  BY RequestTarget
<1>12. Partly(sp, q, w, K1)
  <2>1. PutStepping(q, w, {}, K1, "SP", SP(0), blank, sp)
    BY <1>2, <1>3, <1>4, <1>5, <1>6, <1>7, <1>9, <1>10, <1>8 DEF PutStepping
  <2>2. QED
    BY ONLY <2>1, PutStepped
<1>13. Partly(fields, q, w, K2)
  <2>1. PutStepping(q, w, K1, K2, "RR", RR(Fields(q)), sp, fields)
    BY <1>2, <1>3, <1>4, <1>5, <1>6, <1>7, <1>9, <1>10, <1>12 DEF PutStepping
  <2>2. QED
    BY ONLY <2>1, PutStepped
<1>14. Partly(name, q, w, K3)
  <2>1. Partly(AddName(fields, q.name), q, w, K2 \cup {"NM"})
    BY ONLY <1>2, <1>3, <1>11, <1>13, IsRequest(q), w \in BOOLEAN, NameStep
  <2>2. QED
    BY ONLY <1>4, <1>9, <2>1
<1>15. Partly(px, q, w, K4)
  <2>1. PutStepping(q, w, K3, K4, "PX", PX(q.version, 1), name, px)
    BY <1>2, <1>3, <1>4, <1>5, <1>6, <1>7, <1>9, <1>10, <1>14 DEF PutStepping
  <2>2. QED
    BY ONLY <2>1, PutStepped
<1>16. Partly(target, q, w, K5)
  <2>1. Partly(NewSymlink(px, q.target), q, w, K4 \cup {"SL"})
    BY ONLY <1>2, <1>3, <1>15, IsRequest(q), w \in BOOLEAN, SymlinkStep
  <2>2. QED
    BY ONLY <1>4, <1>9, <2>1
<1>17. Partly(tf, q, w, K6)
  <2>1. PutStepping(q, w, K5, K6, "TF", TF(3, FALSE), target, tf)
    BY <1>2, <1>3, <1>4, <1>5, <1>6, <1>7, <1>9, <1>10, <1>16 DEF PutStepping
  <2>2. QED
    BY ONLY <2>1, PutStepped
<1>18. Partly(cl, q, w, K7)
  <2>1. PutStepping(q, w, K6, K7, "CL", CL(0), tf, cl)
    BY <1>2, <1>3, <1>4, <1>5, <1>6, <1>7, <1>9, <1>10, <1>17 DEF PutStepping
  <2>2. QED
    BY ONLY <2>1, PutStepped
<1>19. Partly(re, q, w, K8)
  <2>1. PutStepping(q, w, K7, K8, "RE", RE, cl, re)
    BY <1>2, <1>3, <1>4, <1>5, <1>6, <1>7, <1>9, <1>10, <1>18 DEF PutStepping
  <2>2. QED
    BY ONLY <2>1, PutStepped
<1>20. Partly(pl, q, w, K9)
  <2>1. PutStepping(q, w, K8, K9, "PL", PL(0), re, pl)
    BY <1>2, <1>3, <1>4, <1>5, <1>6, <1>7, <1>9, <1>10, <1>19 DEF PutStepping
  <2>2. QED
    BY ONLY <2>1, PutStepped
<1>21. Partly(er, q, w, AllAsked)
  <2>1. PutStepping(q, w, K9, AllAsked, "ER", ER(q.version), pl, er)
    BY <1>2, <1>3, <1>4, <1>5, <1>6, <1>7, <1>9, <1>10, <1>20 DEF PutStepping
  <2>2. QED
    BY ONLY <2>1, PutStepped
<1>22. QED
  BY <1>1, <1>21

-----------------------------------------------------------------------------
(* What new makes of a request.                                              *)
LEMMA AssignedIs ==
  ASSUME NEW q, IsRequest(q)
  PROVE  \E w \in BOOLEAN : Part(Assigned(q), q, w, AllAsked) /\ (w => Assigned(q) = AssignEntries(q, TRUE))
<1> DEFINE f == AssignEntries(q, FALSE)
           t == AssignEntries(q, TRUE)
           no == FALSE
           yes == TRUE
<1>1. Assigned(q) = IF f.len < 0 THEN t ELSE f
  BY Zenon DEF Assigned
<1>2. no \in BOOLEAN /\ yes \in BOOLEAN /\ ~no /\ yes /\ f = AssignEntries(q, no) /\ t = AssignEntries(q, yes)
  OBVIOUS
<1>3. t = AssignEntries(q, TRUE)
  OBVIOUS
<1> HIDE DEF f, t, no, yes
<1>4. Partly(f, q, no, AllAsked) /\ Partly(t, q, yes, AllAsked)
  <2>1. Partly(AssignEntries(q, no), q, no, AllAsked)
    BY ONLY <1>2, IsRequest(q), AllAssigned
  <2>2. Partly(AssignEntries(q, yes), q, yes, AllAsked)
    BY ONLY <1>2, IsRequest(q), AllAssigned
  <2>3. QED
    BY <1>2, <2>1, <2>2
<1>5. Part(t, q, yes, AllAsked)
  BY ONLY <1>2, <1>4 DEF Partly
<1>6. CASE f.len = -1
  <2>1. Assigned(q) = t
    BY ONLY <1>1, <1>6
  <2>2. QED
    BY ONLY <1>2, <1>3, <1>5, <2>1
<1>7. CASE Part(f, q, no, AllAsked)
  <2>1. f.len \in Nat
    BY ONLY <1>7 DEF Part, Fit
  <2>2. Assigned(q) = f
    BY ONLY <1>1, <2>1
  <2>3. QED
    BY ONLY <1>2, <1>7, <2>2
<1>8. QED
  BY ONLY <1>4, <1>6, <1>7 DEF Partly

\* The first record of the root of a Rock Ridge 1.12 image has room for PX and
\* none for ER, so both of its areas tell of the version.
WithEntry(d, e) == [d EXCEPT ![e.su] = Append(@, e)]
LEMMA RecordedIs ==
  ASSUME NEW a, NEW d, NEW c, NEW l, NEW w, NEW n, a = Assignment(d, c, l, w, n), NEW e
  PROVE  InRecord(a, e) = Assignment(WithEntry(d, e), c, l + e.len, w, n)
<1> DEFINE x == WithEntry(d, e)
           y == l + e.len
           b == InRecord(a, e)
<1>1. a.dr = d /\ a.ce = c /\ a.len = l /\ a.withCe = w /\ a.cont = n
  BY DEF Assignment
<1>2. b = WithRecord(a, x, y)
  BY <1>1, Zenon DEF InRecord, WithRecord, WithEntry
<1> HIDE DEF x, y, b
<1>3. b = Assignment(x, c, y, w, n)
  BY ONLY <1>2, TwoFields, a = Assignment(d, c, l, w, n)
<1>4. QED
  BY <1>3 DEF b, x, y
FirstRest(q) == q.kind = "first" /\ q.version = "1.12" /\ q.start = 34 /\ q.name = 0 /\ q.target = <<>>
\* The first record of the root with Rock Ridge 1.12 has PX in the record and
\* ER in the continuation.
LEMMA FirstPlaces ==
  ASSUME NEW q, FirstRest(q)
  PROVE  AssignEntries(q, TRUE).dr["PX"] # <<>> /\ AssignEntries(q, TRUE).ce["ER"] # <<>>
<1> DEFINE w == TRUE
           blank == Blank(q.start + IF w THEN CE(0).len ELSE 0, w)
           sp == PutIf(q.kind = "first", blank, SP(0))
           fields == PutIf(q.version = "1.09", sp, RR(Fields(q)))
           name == AddName(fields, q.name)
           px == Put(name, PX(q.version, 1))
           target == NewSymlink(px, q.target)
           tf == Put(target, TF(3, FALSE))
           cl == PutIf(q.kind = "child_link", tf, CL(0))
           re == PutIf(q.kind = "moved_dir", cl, RE)
           pl == PutIf(q.kind = "moved_dotdot", re, PL(0))
           er == PutIf(q.kind = "first", pl, ER(q.version))
           n == 0
           eSP == SP(0)
           ePX == PX(q.version, 1)
           eTF == TF(3, FALSE)
           eER == ER(q.version)
<1>0. q.kind = "first" /\ q.version = "1.12" /\ q.start = 34 /\ q.name = 0 /\ q.target = <<>>
  BY DEF FirstRest
<1>1. AssignEntries(q, TRUE) = er
  BY Zenon DEF AssignEntries
<1>2. /\ eSP.len = 7 /\ eSP.su = "SP" /\ ePX.len = 44 /\ ePX.su = "PX" /\ eTF.len = 26 /\ eTF.su = "TF"
      /\ eER.len = 183 /\ eER.su = "ER"
  BY <1>0 DEF SP, PX, TF, ER, Entry, PXLength
<1>3. blank = Assignment(NoEntries, NoEntries, 62, w, n)
  <2>1. q.start + (IF w THEN CE(0).len ELSE 0) = 62
    BY <1>0 DEF CE, Entry
  <2>2. QED
    BY <2>1 DEF Blank, Assignment
<1>4. /\ "SP" \in Kinds /\ "PX" \in Kinds /\ "TF" \in Kinds /\ "ER" \in Kinds
      /\ DOMAIN NoEntries = Kinds /\ NoEntries["PX"] = <<>> /\ NoEntries["ER"] = <<>>
  BY DEF Kinds, NoEntries
<1>5. sp = Put(blank, eSP) /\ fields = sp /\ name = fields /\ cl = tf /\ re = tf /\ pl = tf /\ er = Put(pl, eER)
  <2>1. sp = Put(blank, eSP)
    BY <1>0 DEF PutIf
  <2>2. fields = sp
    BY <1>0 DEF PutIf
  <2>3. name = fields
    BY <1>0 DEF AddName
  <2>4. cl = tf
    BY <1>0 DEF PutIf
  <2>5. re = cl
    BY <1>0 DEF PutIf
  <2>6. pl = re
    BY <1>0 DEF PutIf
  <2>7. er = Put(pl, eER)
    BY <1>0 DEF PutIf
  <2>8. QED
    BY ONLY <2>1, <2>2, <2>3, <2>4, <2>5, <2>6, <2>7
<1>6. target = px
  BY <1>0 DEF NewSymlink
<1>7. px = Put(name, ePX) /\ tf = Put(target, eTF)
  OBVIOUS
<1> HIDE DEF n, w, blank, sp, fields, name, px, target, tf, cl, re, pl, er, eSP, ePX, eTF, eER
<1>8. ASSUME NEW a, NEW e, NEW l, NEW m, l \in Nat, m \in Nat, a.len = l, e.len = m, l + m <= 254
      PROVE  Put(a, e) = InRecord(a, e)
  <2>1. l \in Int /\ l >= 0
    BY <1>8
  <2>2. QED
    BY ONLY <1>8, <2>1, PutCases
<1>9. sp = InRecord(blank, eSP)
  <2>1. blank.len = 62 /\ 62 \in Nat /\ 7 \in Nat /\ 62 + 7 <= 254
    BY <1>3 DEF Assignment
  <2>2. QED
    BY ONLY <1>2, <1>5, <1>8, <2>1
<1> DEFINE d1 == WithEntry(NoEntries, eSP)
<1>10. sp = Assignment(d1, NoEntries, 69, w, n) /\ DOMAIN d1 = Kinds /\ d1["PX"] = <<>>
  <2>1. InRecord(blank, eSP) = Assignment(d1, NoEntries, 62 + eSP.len, w, n)
    BY ONLY <1>2, <1>3, <1>4, RecordedIs
  <2>2. 62 + eSP.len = 69
    BY <1>2
  <2>3. sp = Assignment(d1, NoEntries, 69, w, n)
    BY ONLY <1>2, <1>9, <2>1, <2>2
  <2>4. DOMAIN d1 = Kinds /\ d1["PX"] = <<>>
    BY <1>2, <1>4 DEF WithEntry
  <2>5. QED
    BY <2>3, <2>4
<1> HIDE DEF d1
<1>11. px = InRecord(sp, ePX)
  <2>1. sp.len = 69 /\ 69 \in Nat /\ 44 \in Nat /\ 69 + 44 <= 254
    BY <1>10 DEF Assignment
  <2>2. QED
    BY ONLY <1>2, <1>5, <1>7, <1>8, <2>1
<1> DEFINE d2 == WithEntry(d1, ePX)
<1>12. px = Assignment(d2, NoEntries, 113, w, n) /\ DOMAIN d2 = Kinds /\ d2["PX"] # <<>>
  <2>1. InRecord(sp, ePX) = Assignment(d2, NoEntries, 69 + ePX.len, w, n)
    BY ONLY <1>2, <1>4, <1>10, RecordedIs
  <2>2. 69 + ePX.len = 113
    BY <1>2
  <2>3. px = Assignment(d2, NoEntries, 113, w, n)
    BY ONLY <1>2, <1>11, <2>1, <2>2
  <2>4. DOMAIN d2 = Kinds /\ d2["PX"] = Append(<<>>, ePX)
    BY <1>2, <1>4, <1>10 DEF WithEntry
  <2>5. Append(<<>>, ePX) # <<>>
    OBVIOUS
  <2>6. QED
    BY <2>3, <2>4, <2>5
<1> HIDE DEF d2
<1>13. tf = InRecord(px, eTF)
  <2>1. px.len = 113 /\ 113 \in Nat /\ 26 \in Nat /\ 113 + 26 <= 254
    BY <1>12 DEF Assignment
  <2>2. QED
    BY ONLY <1>2, <1>6, <1>7, <1>8, <2>1
<1> DEFINE d3 == WithEntry(d2, eTF)
<1>14. tf = Assignment(d3, NoEntries, 139, w, n) /\ d3["PX"] # <<>>
  <2>1. InRecord(px, eTF) = Assignment(d3, NoEntries, 113 + eTF.len, w, n)
    BY ONLY <1>2, <1>4, <1>12, RecordedIs
  <2>2. 113 + eTF.len = 139
    BY <1>2
  <2>3. tf = Assignment(d3, NoEntries, 139, w, n)
    BY ONLY <1>2, <1>13, <2>1, <2>2
  <2>4. d3["PX"] = d2["PX"]
    BY <1>2, <1>4, <1>12 DEF WithEntry
  <2>5. QED
    BY <1>12, <2>3, <2>4
<1> HIDE DEF d3
<1>15. er = InContinuation(tf, "ER", <<eER>>)
  <2>1. tf.len = 139 /\ tf.withCe = w
    BY <1>14 DEF Assignment
  <2>2. tf.withCe
    BY <2>1 DEF w
  <2> DEFINE l == 139
             m == 183
  <2>3. l \in Int /\ m \in Nat /\ l >= 0 /\ l + m > 254 /\ tf.len = l /\ eER.len = m
    BY <1>2, <2>1
  <2> HIDE DEF l, m
  <2>4. Put(tf, eER) = InContinuation(tf, eER.su, <<eER>>)
    BY ONLY <2>2, <2>3, PutCases
  <2>5. QED
    BY ONLY <1>2, <1>5, <2>4
<1>16. er.dr = d3 /\ er.ce["ER"] = <<>> \o <<eER>>
  <2>1. tf.dr = d3 /\ tf.ce = NoEntries
    BY <1>14 DEF Assignment
  <2>2. er = [tf EXCEPT !.ce["ER"] = @ \o <<eER>>, !.cont = @ + IF tf.withCe THEN AreaLength(<<eER>>) ELSE 0]
    BY ONLY <1>15, Zenon DEF InContinuation
  <2>3. er.dr = tf.dr
    BY ONLY <1>14, <2>2 DEF Assignment
  <2>4. er.ce["ER"] = tf.ce["ER"] \o <<eER>>
    BY ONLY <1>4, <1>14, <2>1, <2>2 DEF Assignment
  <2>5. QED
    BY <1>4, <2>1, <2>3, <2>4
<1>17. <<>> \o <<eER>> # <<>>
  OBVIOUS
<1>18. QED
  BY ONLY <1>1, <1>14, <1>16, <1>17

\* The CE entry, where there is one, is the last one to be added.
WithCE(a) == IF a.withCe THEN [a.dr EXCEPT !["CE"] = <<CE(a.cont)>>] ELSE a.dr
Closed(a, q, w, D) ==
  /\ D \in Lists(Whole) /\ \A j \in Kinds \ {"CE"} : D[j] = a.dr[j]
  /\ a.len = q.start + Weight(D) /\ Weight(D) \in Nat /\ a.len <= 254
  /\ w => D["CE"] = <<CE(a.cont)>> /\ CE(a.cont).data = Weight(a.ce)
  /\ ~w => D["CE"] = <<>>
\* The CE entry is made when all is assigned, with the bytes that were counted.
LEMMA CloseIs ==
  ASSUME NEW q, IsRequest(q), NEW w, w \in BOOLEAN, NEW a, Part(a, q, w, AllAsked)
  PROVE  Closed(a, q, w, WithCE(a))
<1> DEFINE D == WithCE(a)
           e == CE(a.cont)
           W == Weight(a.dr)
<1>1. /\ a = [dr |-> a.dr, ce |-> a.ce, len |-> a.len, withCe |-> w, cont |-> a.cont] /\ a.dr \in Lists(Whole)
      /\ a.len = q.start + Room(w) + W /\ a.len <= 254 /\ a.cont \in Nat /\ (w => a.cont = Weight(a.ce))
  BY DEF Part, Fit
<1>2. q.start \in 34..226
  BY RequestTarget
<1>3. a.withCe = w
  BY ONLY <1>1
<1>4. "CE" \in Kinds \ {"PN"} /\ "CE" \notin AllAsked
  BY DEF Kinds, AllAsked, Ones
<1>5. a.dr["CE"] = <<>>
  BY <1>4 DEF Part
<1>6. W \in Nat
  BY <1>1, WholeHas, WeightIs
<1> HIDE DEF W, e, D
<1>7. CASE w
  <2>1. D = [a.dr EXCEPT !["CE"] = <<e>>]
    BY <1>3, <1>7 DEF WithCE, D, e
  <2>2. e \in OfSu(Whole, "CE") /\ e.len = 28 /\ e.data = a.cont
    <3>1. Accepts(Entry("CE", 28, a.cont))
      BY DEF Accepts, Entry
    <3>2. 28 \in 4..255 /\ a.cont \in Data
      BY <1>1 DEF Data
    <3>3. Entry("CE", 28, a.cont) \in OfSu(Whole, "CE") /\ Entry("CE", 28, a.cont).len = 28 /\ Entry("CE", 28, a.cont).data = a.cont
      <4> DEFINE k == "CE"
                 l == 28
      <4>1. k \in Kinds /\ l \in 4..255 /\ Accepts(Entry(k, l, a.cont))
        BY <1>4, <3>1
      <4> HIDE DEF k, l
      <4>2. Entry(k, l, a.cont) \in OfSu(Whole, k) /\ Entry(k, l, a.cont).len = l /\ Entry(k, l, a.cont).data = a.cont
        BY ONLY <3>2, <4>1, Built
      <4>3. QED
        BY <4>2 DEF k, l
    <3>4. QED
      BY <3>3 DEF e, CE
  <2>3. <<e>> \in Seq(OfSu(Whole, "CE")) /\ AreaLength(<<e>>) = 28
    <3>1. e.len \in Nat
      BY <2>2
    <3>2. QED
      BY <2>2, <3>1, AreaOne
  <2>4. ListPut(a.dr, D, "CE", <<e>>)
    BY ONLY <1>1, <1>4, <1>5, <2>1, <2>3, ListPutIs
  <2>5. D \in Lists(Whole) /\ Weight(D) = W + 28 /\ D["CE"] = <<e>> /\ \A j \in Kinds \ {"CE"} : D[j] = a.dr[j]
    BY ONLY <2>3, <2>4 DEF ListPut, W
  <2>6. Room(w) = 28
    BY <1>7 DEF Room
  <2>7. a.len = q.start + Weight(D) /\ Weight(D) \in Nat
    <3>1. a.len = q.start + 28 + W
      BY ONLY <1>1, <2>6
    <3>2. QED
      BY ONLY <1>2, <1>6, <2>5, <3>1
  <2>8. Closed(a, q, w, D)
    BY <1>1, <1>7, <2>2, <2>5, <2>7 DEF Closed, e
  <2>9. QED
    BY <2>8 DEF D
<1>8. CASE ~w
  <2>1. D = a.dr
    BY <1>3, <1>8 DEF WithCE, D
  <2>2. Room(w) = 0
    BY <1>8 DEF Room
  <2>3. a.len = q.start + W
    <3>1. a.len = q.start + 0 + W
      BY ONLY <1>1, <2>2
    <3>2. QED
      BY ONLY <1>2, <1>6, <3>1
  <2>4. Closed(a, q, w, D)
    BY <1>1, <1>5, <1>6, <1>8, <2>1, <2>3 DEF Closed, W
  <2>5. QED
    BY <2>4 DEF D
<1>9. QED
  BY <1>7, <1>8

\* What is in the two lists of a kind.
LEMMA AskedHas ==
  ASSUME NEW q, IsRequest(q), NEW w, w \in BOOLEAN, NEW a, Part(a, q, w, AllAsked), NEW D, Closed(a, q, w, D)
  PROVE  /\ \A k \in Ones : OneHas(q, k, D[k], a.ce[k])
         /\ \A k \in {"ES", "AL", "PD", "ST", "SF", "PN"} : D[k] = <<>> /\ a.ce[k] = <<>>
         /\ a.ce["CE"] = <<>>
         /\ NameHas(q, D["NM"], a.ce["NM"]) /\ PathHas(q, D["SL"], a.ce["SL"])
<1>1. \A j \in Kinds \ {"CE"} : D[j] = a.dr[j]
  BY DEF Closed
<1>2. \A k \in Ones : k \in Kinds /\ k # "CE" /\ k \in AllAsked
  BY DEF Ones, AllAsked, Kinds
<1>3. \A k \in {"ES", "AL", "PD", "ST", "SF", "PN"} : k \in Kinds /\ k # "CE" /\ k \notin AllAsked
  BY DEF Ones, AllAsked, Kinds
<1>4. "CE" \in Kinds /\ "CE" \notin AllAsked /\ "NM" \in AllAsked /\ "SL" \in AllAsked /\ "NM" \in Kinds /\ "SL" \in Kinds
      /\ "NM" # "CE" /\ "SL" # "CE"
  BY DEF Ones, AllAsked, Kinds
<1>5. (\A k \in Kinds \ AllAsked : a.dr[k] = <<>> /\ a.ce[k] = <<>>) /\ \A k \in AllAsked : Has(q, k, a.dr[k], a.ce[k])
  BY DEF Part
<1>6. \A k \in Ones : OneHas(q, k, D[k], a.ce[k])
  <2> TAKE k \in Ones
  <2>1. Has(q, k, a.dr[k], a.ce[k]) /\ D[k] = a.dr[k]
    BY ONLY <1>1, <1>2, <1>5, k \in Ones
  <2>2. OneHas(q, k, a.dr[k], a.ce[k])
    BY ONLY <2>1, k \in Ones DEF Has
  <2>3. QED
    BY ONLY <2>1, <2>2
<1>7. \A k \in {"ES", "AL", "PD", "ST", "SF", "PN"} : D[k] = <<>> /\ a.ce[k] = <<>>
  BY ONLY <1>1, <1>3, <1>5
<1>8. a.ce["CE"] = <<>>
  BY ONLY <1>4, <1>5
<1>9. NameHas(q, a.dr["NM"], a.ce["NM"]) /\ PathHas(q, a.dr["SL"], a.ce["SL"])
  BY ONLY <1>4, <1>5 DEF Has
<1>10. D["NM"] = a.dr["NM"] /\ D["SL"] = a.dr["SL"]
  BY ONLY <1>1, <1>4
<1>11. QED
  BY ONLY <1>6, <1>7, <1>8, <1>9, <1>10

\* The entries of a request, their lists, and the object they are in.
Answer(q, D, a) == [version |-> q.version, dr |-> D, ce |-> a.ce, name |-> NameOf(a.dr, a.ce)]
Answering(q, w, a, D) ==
  /\ IsRequest(q) /\ w \in BOOLEAN /\ Part(a, q, w, AllAsked) /\ Closed(a, q, w, D)
  /\ D["CE"] = <<>> => a.ce["SL"] = <<>>
  /\ (q.version = "1.12" /\ D["CE"] # <<>>) => FirstRest(q)
  /\ FirstRest(q) /\ w => a.dr["PX"] # <<>> /\ a.ce["ER"] # <<>>

\* Of PX and ER there is at most one in each list.
OneOrNone(s, e) == s = <<>> \/ s = <<e>>
LEMMA TellingEntries ==
  ASSUME NEW q, NEW w, NEW a, NEW D, Answering(q, w, a, D)
  PROVE  \A E \in {D, a.ce} : /\ OneOrNone(E["PX"], PX(q.version, 1)) /\ OneOrNone(E["ER"], ER(q.version))
                              /\ E["ES"] = <<>> /\ E["SF"] = <<>>
<1>1. IsRequest(q) /\ w \in BOOLEAN /\ Part(a, q, w, AllAsked) /\ Closed(a, q, w, D)
  BY DEF Answering
<1>2. /\ \A k \in Ones : OneHas(q, k, D[k], a.ce[k])
      /\ \A k \in {"ES", "AL", "PD", "ST", "SF", "PN"} : D[k] = <<>> /\ a.ce[k] = <<>>
  BY ONLY <1>1, AskedHas
<1>3. "PX" \in Ones /\ "ER" \in Ones
  BY DEF Ones
<1>4. OneHas(q, "PX", D["PX"], a.ce["PX"]) /\ OneHas(q, "ER", D["ER"], a.ce["ER"])
  BY <1>2, <1>3
<1>5. EntryOf(q, "PX") = PX(q.version, 1) /\ EntryOf(q, "ER") = ER(q.version)
  BY EntriesOf
<1>6. OneOrNone(D["PX"], PX(q.version, 1)) /\ OneOrNone(a.ce["PX"], PX(q.version, 1))
  BY ONLY <1>4, <1>5 DEF OneHas, OneOrNone
<1>7. OneOrNone(D["ER"], ER(q.version)) /\ OneOrNone(a.ce["ER"], ER(q.version))
  BY ONLY <1>4, <1>5 DEF OneHas, OneOrNone
<1>8. QED
  BY <1>2, <1>6, <1>7

\* All areas of the object tell of the version of its PX entry.
LEMMA NewOneVersion ==
  ASSUME NEW q, NEW w, NEW a, NEW D, Answering(q, w, a, D)
  PROVE  OneVersion(Answer(q, D, a))
<1> DEFINE o == Answer(q, D, a)
           v == q.version
           px == PX(v, 1)
           er == ER(v)
<1>1. o.dr = D /\ o.ce = a.ce /\ o.version = v
  BY DEF Answer
<1>2. \A E \in {D, a.ce} : /\ OneOrNone(E["PX"], px) /\ OneOrNone(E["ER"], er) /\ E["ES"] = <<>> /\ E["SF"] = <<>>
  BY TellingEntries
<1>3. px.len = PXLength(v)
  BY DEF PX, Entry
<1>4. v = "1.12" => px.len = 44 /\ er.data = "IEEE_P1282"
  BY DEF PX, ER, Entry, PXLength
<1>5. v # "1.12" => px.len = 36 /\ er.data = "RRIP_1991A"
  BY DEF PX, ER, Entry, PXLength
<1>6. /\ w => D["CE"] # <<>>
      /\ ~w => D["CE"] = <<>> /\ a.ce["PX"] = <<>>
      /\ D["PX"] = a.dr["PX"]
  <2>1. Closed(a, q, w, D) /\ Part(a, q, w, AllAsked)
    BY DEF Answering
  <2>2. "PX" \in Kinds \ {"SL"} /\ "PX" \in Kinds \ {"CE"}
    BY DEF Kinds
  <2>3. w => D["CE"] = <<CE(a.cont)>>
    BY <2>1 DEF Closed
  <2>4. ~w => D["CE"] = <<>> /\ a.ce["PX"] = <<>>
    BY <2>1, <2>2 DEF Closed, Part, Fit
  <2>5. <<CE(a.cont)>> # <<>>
    OBVIOUS
  <2>6. D["PX"] = a.dr["PX"]
    BY <2>1, <2>2 DEF Closed
  <2>7. QED
    BY <2>3, <2>4, <2>5, <2>6
<1>7. (v = "1.12" /\ D["CE"] # <<>>) => FirstRest(q)
  BY DEF Answering
<1>8. (FirstRest(q) /\ w) => a.dr["PX"] # <<>> /\ a.ce["ER"] # <<>>
  BY DEF Answering
<1>9. w \in BOOLEAN
  BY DEF Answering
<1> HIDE DEF o, v, px, er
<1>10. \A E \in {D, a.ce} : \A i \in 1..Len(E["PX"]) : E["PX"][i] = px /\ E["PX"] # <<>>
  <2> TAKE E \in {D, a.ce}
  <2>1. OneOrNone(E["PX"], px)
    BY <1>2
  <2> DEFINE s == E["PX"]
  <2> HIDE DEF s
  <2>2. s = <<>> \/ s = <<px>>
    BY <2>1 DEF OneOrNone, s
  <2>3. \A i \in 1..Len(s) : s[i] = px /\ s # <<>>
    BY <2>2
  <2>4. QED
    BY <2>3 DEF s
<1>11. ASSUME v = "1.12" PROVE OneVersion(o)
  <2>1. \A E \in {D, a.ce} : E["PX"] = <<px>> => TellsNew(E)
    <3> SUFFICES ASSUME NEW E, E \in {D, a.ce}, E["PX"] = <<px>> PROVE TellsNew(E)
      OBVIOUS
    <3>1. 1 \in 1..Len(E["PX"]) /\ E["PX"][1] = px
      OBVIOUS
    <3>2. QED
      BY <1>4, <1>11, <3>1 DEF TellsNew
  <2>2. \A E \in {D, a.ce} : E["ER"] = <<er>> => TellsNew(E)
    <3> SUFFICES ASSUME NEW E, E \in {D, a.ce}, E["ER"] = <<er>> PROVE TellsNew(E)
      OBVIOUS
    <3>1. 1 \in 1..Len(E["ER"]) /\ E["ER"][1] = er
      OBVIOUS
    <3>2. QED
      BY <1>4, <1>11, <3>1 DEF TellsNew
  <2>3. CASE w
    <3>1. a.dr["PX"] # <<>> /\ a.ce["ER"] # <<>>
      BY <1>6, <1>7, <1>8, <1>11, <2>3
    <3>2. D["PX"] = <<px>> /\ a.ce["ER"] = <<er>>
      BY <1>2, <1>6, <3>1 DEF OneOrNone
    <3>3. TellsNew(D) /\ TellsNew(a.ce)
      BY <2>1, <2>2, <3>2
    <3>4. QED
      BY ONLY <1>1, <1>3, <1>4, <1>10, <1>11, <3>3 DEF OneVersion
  <2>4. CASE ~w
    <3>1. a.ce["PX"] = <<>> /\ D["CE"] = <<>>
      BY <1>6, <2>4
    <3>2. D["PX"] # <<>> => TellsNew(D)
      BY <1>2, <2>1 DEF OneOrNone
    <3>3. ~(D["CE"] # <<>>)
      BY <3>1
    <3>4. \A i \in 1..Len(a.ce["PX"]) : TellsNew(D)
      BY ONLY <1>10, <3>1
    <3>5. QED
      BY ONLY <1>1, <1>3, <1>4, <1>10, <1>11, <3>2, <3>3, <3>4 DEF OneVersion
  <2>5. QED
    BY <1>9, <2>3, <2>4
<1>12. ASSUME v # "1.12" PROVE OneVersion(o)
  <2>1. \A E \in {D, a.ce} : ~TellsNew(E) /\ ~LongSparse(E)
    <3> TAKE E \in {D, a.ce}
    <3>1. \A i \in 1..Len(E["PX"]) : E["PX"][i].len = 36
      BY <1>5, <1>10, <1>12
    <3>2. \A i \in 1..Len(E["ER"]) : E["ER"][i].data = "RRIP_1991A"
      <4> DEFINE s == E["ER"]
      <4>1. s = <<>> \/ s = <<er>>
        BY <1>2 DEF OneOrNone
      <4> HIDE DEF s
      <4>2. \A i \in 1..Len(s) : s[i] = er
        BY <4>1
      <4>3. QED
        BY <1>5, <1>12, <4>2 DEF s
    <3>3. E["ES"] = <<>> /\ E["SF"] = <<>>
      BY <1>2
    <3>4. ~TellsNew(E)
      BY ONLY <3>1, <3>2, <3>3 DEF TellsNew
    <3>5. ~LongSparse(E)
      BY ONLY <3>3 DEF LongSparse
    <3>6. QED
      BY <3>4, <3>5
  <2>2. px.len # 44
    BY <1>5, <1>12
  <2>3. ~TellsNew(D) /\ ~TellsNew(a.ce) /\ ~LongSparse(D) /\ ~LongSparse(a.ce)
    BY <2>1
  <2>4. QED
    BY ONLY <1>1, <1>3, <1>10, <2>2, <2>3 DEF OneVersion
<1>13. QED
  BY <1>11, <1>12 DEF o

\* The object that new() makes is sound.
LEMMA NewSound ==
  ASSUME NEW q, NEW w, NEW a, NEW D, Answering(q, w, a, D)
  PROVE  Sound(Answer(q, D, a), q.kind = "first")
<1> DEFINE o == Answer(q, D, a)
           first == q.kind = "first"
<1>1. o.dr = D /\ o.ce = a.ce /\ o.version = q.version /\ o.name = NameOf(a.dr, a.ce)
      /\ o = [version |-> o.version, dr |-> o.dr, ce |-> o.ce, name |-> o.name]
  BY DEF Answer
<1>2. IsRequest(q) /\ w \in BOOLEAN /\ Part(a, q, w, AllAsked) /\ Closed(a, q, w, D)
  BY DEF Answering
<1>3. /\ \A k \in Ones : OneHas(q, k, D[k], a.ce[k])
      /\ \A k \in {"ES", "AL", "PD", "ST", "SF", "PN"} : D[k] = <<>> /\ a.ce[k] = <<>>
      /\ a.ce["CE"] = <<>>
  BY ONLY <1>2, AskedHas
<1>4. NameOf(a.dr, a.ce) = NameOf(D, a.ce)
  <2>1. "NM" \in Kinds \ {"CE"}
    BY DEF Kinds
  <2>2. D["NM"] = a.dr["NM"]
    BY <1>2, <2>1 DEF Closed
  <2>3. QED
    BY Zenon, <2>2 DEF NameOf
<1>5. D \in Lists(Whole) /\ a.ce \in Lists(Whole)
  BY <1>2 DEF Closed, Part, Fit
<1>6. /\ w => D["CE"] = <<CE(a.cont)>> /\ CE(a.cont).data = Weight(a.ce)
      /\ ~w => D["CE"] = <<>>
  BY <1>2 DEF Closed
<1>7. \A k \in Kinds \ Many : Len(D[k]) + Len(a.ce[k]) <= 1
  <2> TAKE k \in Kinds \ Many
  <2>1. CASE k \in Ones
    <3> DEFINE e == EntryOf(q, k)
               s == D[k]
               t == a.ce[k]
    <3>1. (s = <<e>> /\ t = <<>>) \/ (s = <<>> /\ t = <<e>>) \/ (s = <<>> /\ t = <<>>)
      BY <1>3, <2>1 DEF OneHas
    <3> HIDE DEF e, s, t
    <3>2. Len(<<>>) = 0 /\ Len(<<e>>) = 1
      OBVIOUS
    <3>3. (Len(s) = 1 /\ Len(t) = 0) \/ (Len(s) = 0 /\ Len(t) = 1) \/ (Len(s) = 0 /\ Len(t) = 0)
      BY ONLY <3>1, <3>2
    <3> DEFINE x == Len(s)
               y == Len(t)
    <3> HIDE DEF x, y
    <3>4. x \in Int /\ y \in Int /\ ((x = 1 /\ y = 0) \/ (x = 0 /\ y = 1) \/ (x = 0 /\ y = 0))
      BY <3>3 DEF x, y
    <3>6. x + y <= 1
      BY ONLY <3>4
    <3>5. QED
      BY <3>6 DEF s, t, x, y
  <2>2. CASE k = "CE"
    <3> DEFINE s == D["CE"]
               t == a.ce["CE"]
               e == CE(a.cont)
    <3>1. (s = <<e>> \/ s = <<>>) /\ t = <<>>
      BY <1>2, <1>3, <1>6
    <3> HIDE DEF e, s, t
    <3>2. Len(<<>>) = 0 /\ Len(<<e>>) = 1
      OBVIOUS
    <3>3. (Len(s) = 1 /\ Len(t) = 0) \/ (Len(s) = 0 /\ Len(t) = 1) \/ (Len(s) = 0 /\ Len(t) = 0)
      BY ONLY <3>1, <3>2
    <3> DEFINE x == Len(s)
               y == Len(t)
    <3> HIDE DEF x, y
    <3>4. x \in Int /\ y \in Int /\ ((x = 1 /\ y = 0) \/ (x = 0 /\ y = 1) \/ (x = 0 /\ y = 0))
      BY <3>3 DEF x, y
    <3>6. x + y <= 1
      BY ONLY <3>4
    <3>5. QED
      BY <2>2, <3>6 DEF s, t, x, y
  <2>3. CASE k \in {"ST", "SF", "PN"}
    <3>1. D[k] = <<>> /\ a.ce[k] = <<>>
      BY <1>3, <2>3
    <3>2. QED
      BY <3>1
  <2>4. k \in Ones \/ k = "CE" \/ k \in {"ST", "SF", "PN"}
    BY DEF Kinds, Many, Ones
  <2>5. QED
    BY <2>1, <2>2, <2>3, <2>4
<1>8. (D["SP"] # <<>> \/ a.ce["SP"] # <<>>) => first
  <2>1. "SP" \in Ones
    BY DEF Ones
  <2>2. OneHas(q, "SP", D["SP"], a.ce["SP"])
    BY <1>3, <2>1
  <2>3. Wanted(q, "SP") => q.kind = "first"
    BY DEF Wanted
  <2>4. QED
    BY <2>2, <2>3 DEF OneHas
<1>9. IF D["CE"] = <<>> THEN a.ce = NoEntries ELSE Weight(a.ce) = D["CE"][1].data
  <2>1. CASE w
    <3>1. D["CE"] # <<>> /\ D["CE"][1] = CE(a.cont)
      BY <1>6, <2>1
    <3>2. QED
      BY <1>6, <2>1, <3>1
  <2>2. CASE ~w
    <3>1. D["CE"] = <<>>
      BY <1>6, <2>2
    <3>2. a.ce["SL"] = <<>>
      BY <3>1 DEF Answering
    <3>3. \A k \in Kinds \ {"SL"} : a.ce[k] = <<>>
      BY <1>2, <2>2 DEF Part, Fit
    <3>4. a.ce = [k \in Kinds |-> a.ce[k]]
      BY <1>5 DEF Lists
    <3>5. a.ce = NoEntries
      BY ONLY <3>2, <3>3, <3>4 DEF NoEntries
    <3>6. QED
      BY <3>1, <3>5
  <2>3. QED
    BY <1>2, <2>1, <2>2
<1>10. OneVersion(o)
  BY NewOneVersion
<1>11. o.version \in Versions
  BY <1>1, <1>2, RequestTarget DEF Versions
<1>12. D["PN"] = <<>> /\ a.ce["PN"] = <<>>
  BY <1>3
<1> HIDE DEF o, first
<1>13. o = [version |-> o.version, dr |-> o.dr, ce |-> o.ce, name |-> NameOf(o.dr, o.ce)]
  BY ONLY <1>1, <1>4
<1>14. Sound(o, first)
  BY ONLY <1>1, <1>3, <1>5, <1>7, <1>8, <1>9, <1>10, <1>11, <1>12, <1>13 DEF Sound
<1>15. QED
  BY <1>14 DEF o, first

\* What was asked for can be read from the new record.
LEMMA OneOfTwo ==
  ASSUME NEW s, NEW t, NEW e, (s = <<e>> /\ t = <<>>) \/ (s = <<>> /\ t = <<e>>)
  PROVE  Len(s \o t) = 1
<1>1. <<e>> \o <<>> = <<e>> /\ <<>> \o <<e>> = <<e>> /\ Len(<<e>>) = 1
  OBVIOUS
<1>2. s \o t = <<e>>
  BY ONLY <1>1, (s = <<e>> /\ t = <<>>) \/ (s = <<>> /\ t = <<e>>)
<1>3. QED
  BY ONLY <1>1, <1>2

\* It says what was asked for.
LEMMA NewSays ==
  ASSUME NEW q, NEW w, NEW a, NEW D, Answering(q, w, a, D), 1 <= MaxLinks, MaxLinks \in Nat
  PROVE  Says(Answer(q, D, a), q)
<1> DEFINE o == Answer(q, D, a)
           c == a.ce
<1>1. o.dr = D /\ o.ce = c /\ o.version = q.version /\ o.name = NameOf(a.dr, c)
  BY DEF Answer
<1>2. IsRequest(q) /\ w \in BOOLEAN /\ Part(a, q, w, AllAsked) /\ Closed(a, q, w, D)
  BY DEF Answering
<1>3. /\ \A k \in Ones : OneHas(q, k, D[k], c[k])
      /\ \A k \in {"ES", "AL", "PD", "ST", "SF", "PN"} : D[k] = <<>> /\ c[k] = <<>>
      /\ NameHas(q, D["NM"], c["NM"]) /\ PathHas(q, D["SL"], c["SL"])
  BY ONLY <1>2, AskedHas
<1>4. D["NM"] = a.dr["NM"]
  <2>1. "NM" \in Kinds \ {"CE"}
    BY DEF Kinds
  <2>2. QED
    BY <1>2, <2>1 DEF Closed
<1> HIDE DEF o, c
<1>5. Spells(o.name, 0, q.name)
  <2>1. o.name = [k \in 1..(Len(D["NM"]) + Len(c["NM"])) |-> (D["NM"] \o c["NM"])[k].data.text]
    BY ONLY <1>1, <1>4, Zenon DEF NameOf
  <2>2. QED
    BY ONLY <1>3, <2>1 DEF NameHas
<1>6. PathSays(SymlinkPath(o), q.target)
  <2>1. SymlinkPath(o) = PathRead(D["SL"] \o c["SL"]).out
    BY ONLY <1>1 DEF SymlinkPath
  <2>2. QED
    BY ONLY <1>3, <2>1 DEF PathHas
<1>7. {"PX", "TF", "CL", "PL", "RE"} \subseteq Ones
  BY DEF Ones
<1>8. \A k \in {"PX", "TF", "CL", "PL", "RE"} :
        IF Wanted(q, k) THEN \/ D[k] = <<EntryOf(q, k)>> /\ c[k] = <<>>
                             \/ D[k] = <<>> /\ c[k] = <<EntryOf(q, k)>>
        ELSE D[k] = <<>> /\ c[k] = <<>>
  BY <1>3, <1>7 DEF OneHas
<1>9. Wanted(q, "PX") /\ Wanted(q, "TF") /\ (Wanted(q, "CL") <=> q.kind = "child_link")
      /\ (Wanted(q, "PL") <=> q.kind = "moved_dotdot") /\ (Wanted(q, "RE") <=> q.kind = "moved_dir")
  BY DEF Wanted
<1>10. OneEntry(o, "PX") /\ OneEntry(o, "TF")
  <2>1. \A k \in {"PX", "TF"} : Len(D[k] \o c[k]) = 1
    <3> TAKE k \in {"PX", "TF"}
    <3> DEFINE s == D[k]
               t == c[k]
               e == EntryOf(q, k)
    <3>1. (s = <<e>> /\ t = <<>>) \/ (s = <<>> /\ t = <<e>>)
      BY <1>8, <1>9
    <3> HIDE DEF s, t, e
    <3>2. Len(s \o t) = 1
      BY ONLY <3>1, OneOfTwo
    <3>3. QED
      BY <3>2 DEF s, t
  <2>2. QED
    BY ONLY <1>1, <2>1 DEF OneEntry
<1>11. \A k \in {"CL", "PL", "RE"} : HasEntry(o, k) <=> Wanted(q, k)
  <2> TAKE k \in {"CL", "PL", "RE"}
  <2> DEFINE s == D[k]
             t == c[k]
             e == EntryOf(q, k)
  <2>1. IF Wanted(q, k) THEN (s = <<e>> /\ t = <<>>) \/ (s = <<>> /\ t = <<e>>) ELSE s = <<>> /\ t = <<>>
    BY <1>8
  <2> HIDE DEF s, t, e
  <2>2. <<e>> # <<>>
    OBVIOUS
  <2>3. (s # <<>> \/ t # <<>>) <=> Wanted(q, k)
    BY ONLY <2>1, <2>2
  <2>4. QED
    BY ONLY <1>1, <2>3 DEF HasEntry, s, t
<1>12. ~HasEntry(o, "SF")
  BY <1>1, <1>3 DEF HasEntry
<1>13. LinksOf(o) \in 1..MaxLinks
  <2> DEFINE e == EntryOf(q, "PX")
  <2>1. e.data = 1
    <3>1. e = PX(q.version, 1)
      BY EntriesOf
    <3>2. QED
      BY <3>1 DEF PX, Entry
  <2>2. (D["PX"] = <<e>> /\ c["PX"] = <<>>) \/ (D["PX"] = <<>> /\ c["PX"] = <<e>>)
    BY <1>8, <1>9
  <2> HIDE DEF e
  <2>3. LinksOf(o) = 1
    <3>1. CASE D["PX"] = <<e>>
      <4>1. o.dr["PX"] # <<>> /\ o.dr["PX"][1] = e
        BY <1>1, <3>1
      <4>2. QED
        BY ONLY <2>1, <4>1 DEF LinksOf
    <3>2. CASE D["PX"] = <<>> /\ c["PX"] = <<e>>
      <4>1. ~(o.dr["PX"] # <<>>) /\ o.ce["PX"][1] = e
        BY <1>1, <3>2
      <4>2. QED
        BY ONLY <2>1, <4>1 DEF LinksOf
    <3>3. QED
      BY ONLY <2>2, <3>1, <3>2
  <2>4. QED
    BY ONLY <2>3, 1 <= MaxLinks, MaxLinks \in Nat
<1>14. HasEntry(o, "CL") <=> q.kind = "child_link"
  BY ONLY <1>9, <1>11
<1>15. HasEntry(o, "PL") <=> q.kind = "moved_dotdot"
  BY ONLY <1>9, <1>11
<1>16. HasEntry(o, "RE") <=> q.kind = "moved_dir"
  BY ONLY <1>9, <1>11
<1>17. Says(o, q)
  BY ONLY <1>1, <1>5, <1>6, <1>10, <1>12, <1>13, <1>14, <1>15, <1>16 DEF Says
<1>18. QED
  BY <1>17 DEF o

\* A record as the program keeps it: its entries, and the length that it has.
Good(o, q, len) ==
  /\ Sound(o, q.kind = "first") /\ q.start \in 34..226 /\ Weight(o.dr) \in Nat /\ q.start + Weight(o.dr) <= 254
  /\ len = Padded(q.start + Weight(o.dr))
  /\ HasEntry(o, "PX") => LinksOf(o) \in Nat
  /\ IF q.kind = "foreign" THEN Keeps(o, q) ELSE q.version \in Versions /\ Says(o, q)
Fine(q, made) == made.fits /\ Good(made.object, q, made.len)
\* And it fits: a record made by new() is good.
LEMMA NewGood ==
  ASSUME NEW q, IsRequest(q), Allowed(q, New(q).object), Faults = {}
  PROVE  Fine(q, New(q))
<1> DEFINE a == Assigned(q)
           D == WithCE(a)
           o == Answer(q, D, a)
           made == New(q)
<1>1. PICK w \in BOOLEAN : Part(a, q, w, AllAsked) /\ (w => a = AssignEntries(q, TRUE))
  BY AssignedIs
<1>2. made.object = o /\ made.len = Padded(a.len) /\ made.fits = (a.len <= AllowedDrSize)
  BY Zenon DEF New, WithEntries, Answer, WithCE
<1> HIDE DEF a, D, made
<1>3. Closed(a, q, w, D)
  BY ONLY <1>1, IsRequest(q), CloseIs DEF D
<1>4. o.dr = D /\ o.ce = a.ce
  BY DEF Answer
<1>5. q \in Request /\ q.target = q.target /\ (q.kind \in {"first", "dot", "dotdot", "moved_dotdot"} => q.start = 34 /\ q.name = 0 /\ q.target = <<>>)
  BY DEF IsRequest
<1> HIDE DEF o
<1>6. Answering(q, w, a, D)
  <2>1. Allowed(q, o)
    BY <1>2 DEF made
  <2>2. "many_components" \notin Faults /\ "new_version" \notin Faults
    OBVIOUS
  <2>3. D["CE"] = <<>> => a.ce["SL"] = <<>>
    BY ONLY <1>4, <2>1, <2>2 DEF Allowed
  <2>4. (q.version = "1.12" /\ D["CE"] # <<>>) => q.kind = "first"
    BY ONLY <1>4, <2>1, <2>2 DEF Allowed
  <2>5. (q.version = "1.12" /\ D["CE"] # <<>>) => FirstRest(q)
    BY ONLY <1>5, <2>4 DEF FirstRest
  <2>6. (FirstRest(q) /\ w) => a.dr["PX"] # <<>> /\ a.ce["ER"] # <<>>
    <3> SUFFICES ASSUME FirstRest(q), w PROVE a.dr["PX"] # <<>> /\ a.ce["ER"] # <<>>
      OBVIOUS
    <3>1. a = AssignEntries(q, TRUE)
      BY <1>1
    <3>2. QED
      BY <3>1, FirstPlaces
  <2>7. QED
    BY ONLY <1>1, <1>3, <2>3, <2>5, <2>6, IsRequest(q) DEF Answering
<1>7. Sound(o, q.kind = "first")
  BY <1>6, NewSound DEF o
<1>8. Says(o, q)
  <2>1. 1 <= MaxLinks /\ MaxLinks \in Nat
    BY RockRidgeEntriesAssumption
  <2>2. QED
    BY ONLY <1>6, <2>1, NewSays DEF o
<1>9. q.start \in 34..226 /\ q.version \in Versions
  BY RequestTarget DEF Versions
<1>10. a.len = q.start + Weight(D) /\ Weight(D) \in Nat /\ a.len <= 254
  BY ONLY <1>3 DEF Closed
<1>11. q.kind # "foreign"
  BY <1>5 DEF Request
<1>12. HasEntry(o, "PX") => LinksOf(o) \in Nat
  <2>1. LinksOf(o) \in 1..MaxLinks /\ MaxLinks \in Nat
    BY <1>8, RockRidgeEntriesAssumption DEF Says
  <2>2. QED
    BY <2>1
<1>13. made.fits
  BY <1>2, <1>10 DEF AllowedDrSize
<1>14. Good(o, q, made.len)
  BY ONLY <1>2, <1>4, <1>7, <1>8, <1>9, <1>10, <1>11, <1>12 DEF Good
<1>15. QED
  BY <1>2, <1>13, <1>14 DEF Fine, made

-----------------------------------------------------------------------------
(* What the reader makes of a record that was written.                      *)

\* The version that a record tells of is 1.12, or is taken for the oldest.
Told(version) == IF version = "1.12" THEN "1.12" ELSE "1.09"
\* The version that is inferred of a record is the one it was made with, up to
\* the two older ones that are not told apart.
LEMMA VersionTold ==
  ASSUME NEW o, NEW first, Sound(o, first), NEW q, q.version \in Versions, Says(o, q),
         NEW x, Infers(x, o.dr)
  PROVE  x = Told(q.version)
<1>1. Len(o.dr["PX"] \o o.ce["PX"]) = 1
  BY DEF Says, OneEntry
<1>2. "PX" \in Kinds /\ "SF" \in Kinds
  BY DEF Kinds
<1>3. o.dr["PX"] \in Seq(Whole) /\ o.ce["PX"] \in Seq(Whole)
  BY <1>2, ListsHave DEF Sound
<1>4. o.dr["SF"] = <<>>
  BY DEF Says, HasEntry
<1>5. PXLength(o.version) = PXLength(q.version)
  BY DEF Says
<1>6. OneVersion(o)
  BY DEF Sound
<1>7. \E E \in {o.dr, o.ce} : 1 \in 1..Len(E["PX"])
  <2> DEFINE s == o.dr["PX"]
             t == o.ce["PX"]
  <2>1. Len(s \o t) = 1 /\ s \in Seq(Whole) /\ t \in Seq(Whole)
    BY <1>1, <1>3
  <2> HIDE DEF s, t
  <2>2. Len(s \o t) = Len(s) + Len(t) /\ Len(s) \in Nat /\ Len(t) \in Nat
    <3>1. ConcatHas(Whole, s, t)
      BY ONLY <2>1, Concats
    <3>2. QED
      BY ONLY <3>1 DEF ConcatHas
  <2> DEFINE m == Len(s)
             n == Len(t)
  <2>3. m + n = 1 /\ m \in Nat /\ n \in Nat
    BY <2>1, <2>2
  <2> HIDE DEF m, n
  <2>4. 1 \in 1..m \/ 1 \in 1..n
    BY ONLY <2>3
  <2>5. QED
    BY <2>4 DEF m, n, s, t
<1>8. PICK E \in {o.dr, o.ce} : 1 \in 1..Len(E["PX"])
  BY <1>7
<1>9. /\ E["PX"][1].len = PXLength(q.version)
      /\ E["PX"][1].len = 44 => TellsNew(o.dr)
      /\ E["PX"][1].len # 44 => ~TellsNew(o.dr)
  BY ONLY <1>5, <1>6, <1>8 DEF OneVersion
<1>10. CASE q.version = "1.12"
  <2>1. TellsNew(o.dr)
    BY ONLY <1>9, <1>10 DEF PXLength
  <2>2. QED
    BY ONLY <1>10, <2>1, Infers(x, o.dr) DEF Infers, Told
<1>11. CASE q.version # "1.12"
  <2>1. ~TellsNew(o.dr)
    BY ONLY <1>9, <1>11 DEF PXLength
  <2>2. QED
    BY ONLY <1>4, <1>11, <2>1, Infers(x, o.dr) DEF Infers, Told
<1>12. QED
  BY <1>10, <1>11

\* All records are compared with the first one of the root.
LEMMA ImageTold ==
  ASSUME NEW v, v \in Versions, Faults = {}
  PROVE  ImageVersion(v) = Told(v)
<1> DEFINE q == FirstOfRoot(v)
           o == New(q).object
<1>1. q.kind = "first" /\ q.version = v /\ q.start = 34 /\ q.name = 0 /\ q.target = <<>>
  BY DEF FirstOfRoot
<1>2. IsRequest(q)
  <2>1. <<>> \in Seq(Component) /\ 34 \in 34..226 /\ 0 \in Nat /\ Len(<<>>) = 0
    OBVIOUS
  <2>2. q \in Request
    BY <2>1 DEF FirstOfRoot, Request, Versions
  <2> HIDE DEF q
  <2>3. \A i \in 1..Len(q.target) : FALSE
    BY ONLY <1>1, <2>1
  <2>4. QED
    BY ONLY <1>1, <2>2, <2>3 DEF IsRequest
<1> HIDE DEF q, o
<1>3. Allowed(q, o)
  <2>1. o.ce["SL"] = <<>>
    <3>1. PICK w \in BOOLEAN : Part(Assigned(q), q, w, AllAsked)
      BY <1>2, AssignedIs
    <3>2. o.ce = Assigned(q).ce
      <4>1. New(q).object.ce = Assigned(q).ce
        BY Zenon DEF New, WithEntries
      <4>2. QED
        BY <4>1 DEF o
    <3>3. "SL" \in AllAsked
      BY DEF AllAsked
    <3>4. Has(q, "SL", Assigned(q).dr["SL"], Assigned(q).ce["SL"])
      BY <3>1, <3>3 DEF Part
    <3>5. PathHas(q, Assigned(q).dr["SL"], Assigned(q).ce["SL"])
      BY ONLY <3>4 DEF Has
    <3>6. Assigned(q).ce["SL"] = <<>>
      BY ONLY <1>1, <3>5 DEF PathHas
    <3>7. QED
      BY ONLY <3>2, <3>6
  <2>2. QED
    BY ONLY <1>1, <2>1 DEF Allowed
<1>4. Fine(q, New(q))
  <2>1. Allowed(q, New(q).object)
    BY <1>3 DEF o
  <2>2. QED
    BY ONLY <1>2, <2>1, Faults = {}, NewGood
<1>5. Good(o, q, New(q).len)
  BY ONLY <1>4 DEF Fine, o
<1>6. Sound(o, q.kind = "first") /\ q.version \in Versions /\ Says(o, q)
  BY ONLY <1>1, <1>5 DEF Good
<1> DEFINE first == q.kind = "first"
           x == InferredVersion(Record(o, o.dr), 0)
<1>7. Infers(x, o.dr)
  <2>1. o.dr \in Lists(Whole) /\ PXRight(o.version, o.dr) /\ Len(o.dr["SF"]) <= 1
    <3> HIDE DEF first
    <3>1. Sound(o, first)
      BY <1>6 DEF first
    <3>2. PXRight(o.version, o.dr) /\ Len(o.dr["SF"]) <= 1
      BY ONLY <3>1, SoundHas
    <3>3. QED
      BY ONLY <3>1, <3>2 DEF Sound
  <2> DEFINE pad == 0
             E == o.dr
  <2>2. pad \in {0, 1} /\ E \in Lists(Whole) /\ PXRight(o.version, E) /\ Len(E["SF"]) <= 1
    BY <2>1
  <2> HIDE DEF pad, E
  <2>3. Infers(InferredVersion(Record(o, E), pad), E)
    BY ONLY <2>2, VersionRead
  <2>4. QED
    BY <2>3 DEF pad, E
<1>8. x = Told(q.version)
  <2> HIDE DEF x, first
  <2>1. Sound(o, first)
    BY <1>6 DEF first
  <2>2. QED
    BY ONLY <1>6, <1>7, <2>1, VersionTold
<1>9. ImageVersion(v) = x
  BY Zenon DEF ImageVersion, q, o
<1>10. QED
  BY ONLY <1>1, <1>8, <1>9

ImageOf(o, len) == [dr |-> Areas(o).dr, ce |-> Areas(o).ce, len |-> len]
\* What the reader asks of the two areas.
Opens(q, im) ==
  /\ WholeAreas(im, q.start) /\ Readable(Unread, im.dr, q.kind = "first")
  /\ Readable(Parse(Unread, im.dr, FALSE), im.ce, q.kind = "first")
  /\ q.kind # "foreign" => Parse(Unread, im.dr, FALSE).version = ImageVersion(q.version)
\* The CE entry announces the continuation in its length.
LEMMA CeAnnounced ==
  ASSUME NEW o, NEW first, Sound(o, first), NEW s, Holds(s, o.dr), NEW t, Holds(t, o.ce)
  PROVE  AreaLength(t) = Announced(s)
<1>1. "CE" \in Kinds
  BY DEF Kinds
<1>2. OfKind(s, "CE") = o.dr["CE"]
  BY <1>1 DEF Holds
<1>3. Announced(s) = IF o.dr["CE"] = <<>> THEN 0 ELSE o.dr["CE"][1].data
  BY ONLY <1>2, Zenon DEF Announced
<1>4. AreaLength(t) = Weight(o.ce)
  BY DEF Holds
<1>5. IF o.dr["CE"] = <<>> THEN o.ce = NoEntries ELSE Weight(o.ce) = o.dr["CE"][1].data
  BY DEF Sound
<1>6. Weight(NoEntries) = 0
  BY NothingWeighs
<1>7. QED
  BY ONLY <1>3, <1>4, <1>5, <1>6

\* What was written of a good record is accepted.
LEMMA GoodOpens ==
  ASSUME NEW o, NEW q, NEW len, Good(o, q, len), Faults = {}
  PROVE  Opens(q, ImageOf(o, len))
<1> DEFINE im == ImageOf(o, len)
           first == q.kind = "first"
<1>1. im.dr = Areas(o).dr /\ im.ce = Areas(o).ce /\ im.len = len
  BY DEF ImageOf
<1>2. Sound(o, first)
  BY DEF Good
<1> HIDE DEF im, first
<1>3. Holds(Areas(o).dr, o.dr) /\ Holds(Areas(o).ce, o.ce)
  BY ONLY <1>2, AreasHold
<1>4. WholeAreas(im, q.start)
  <2>1. AreaLength(im.dr) = Weight(o.dr)
    BY <1>1, <1>3 DEF Holds
  <2>2. AreaLength(im.ce) = Announced(im.dr)
    BY ONLY <1>1, <1>2, <1>3, CeAnnounced
  <2>3. len = Padded(q.start + Weight(o.dr)) /\ q.start \in 34..226 /\ Weight(o.dr) \in Nat
    BY DEF Good
  <2> DEFINE x == q.start + Weight(o.dr)
  <2>4. x \in Nat
    BY <2>3
  <2>5. x = q.start + AreaLength(im.dr)
    BY <2>1
  <2> HIDE DEF x
  <2>6. im.len = x + (x % 2)
    BY <1>1, <2>3 DEF Padded, x
  <2>7. x \in {im.len - 1, im.len}
    BY ONLY <2>4, <2>6
  <2>8. QED
    BY ONLY <2>2, <2>5, <2>7 DEF WholeAreas
<1>5. Readable(Unread, Areas(o).dr, first) /\ Readable(Once(o), Areas(o).ce, first)
  BY ONLY <1>2, AreasReadable
<1>6. Once(o) = Parse(Unread, im.dr, FALSE)
  BY <1>1 DEF Once
<1>7. ASSUME q.kind # "foreign"
      PROVE  Parse(Unread, im.dr, FALSE).version = ImageVersion(q.version)
  <2>1. q.version \in Versions /\ Says(o, q)
    BY <1>7 DEF Good
  <2>2. Infers(Once(o).version, o.dr)
    BY ONLY <1>2, OnceIs
  <2> DEFINE x == Once(o).version
             v == q.version
  <2> HIDE DEF x
  <2>3. x = Told(q.version)
    BY ONLY <1>2, <2>1, <2>2, VersionTold DEF x
  <2>4. ImageVersion(v) = Told(v)
    BY ONLY <2>1, Faults = {}, ImageTold
  <2>5. QED
    BY <1>6, <2>3, <2>4 DEF x
<1>8. Opens(q, im)
  BY ONLY <1>1, <1>4, <1>5, <1>6, <1>7 DEF Opens, first
<1>9. QED
  BY <1>8 DEF im

\* And the record that is read is as good as the one that was written.
LEMMA GoodAgain ==
  ASSUME NEW o, NEW q, NEW len, Good(o, q, len)
  PROVE  Good(Again(o), q, len)
<1> DEFINE p == Again(o)
           first == q.kind = "first"
<1>1. Sound(o, first)
  BY DEF Good
<1> HIDE DEF p, first
<1>2. Sound(p, first)
  BY ONLY <1>1, SoundAgain DEF p
<1>3. p.dr = o.dr /\ p.ce = o.ce
  <2>1. Reread(Again(o), o)
    BY ONLY <1>1, AgainIs
  <2>2. QED
    BY <2>1 DEF Reread, p
<1>4. q.kind = "foreign" => Keeps(p, q)
  BY <1>3 DEF Good, Keeps
<1>5. q.kind # "foreign" => q.version \in Versions /\ Says(p, q)
  <2> SUFFICES ASSUME q.kind # "foreign" PROVE q.version \in Versions /\ Says(p, q)
    OBVIOUS
  <2>1. q.version \in Versions /\ Says(o, q)
    BY DEF Good
  <2>2. Says(p, q)
    BY ONLY <1>1, <2>1, SaysAgain DEF p
  <2>3. QED
    BY <2>1, <2>2
<1>6. HasEntry(p, "PX") => LinksOf(p) \in Nat
  BY <1>3 DEF Good, HasEntry, LinksOf
<1>7. Good(p, q, len)
  <2>1. /\ q.start \in 34..226 /\ Weight(o.dr) \in Nat /\ q.start + Weight(o.dr) <= 254
        /\ len = Padded(q.start + Weight(o.dr))
    BY DEF Good
  <2>2. Sound(p, q.kind = "first")
    BY <1>2 DEF first
  <2>3. QED
    BY ONLY <1>3, <1>4, <1>5, <1>6, <2>1, <2>2 DEF Good
<1>8. QED
  BY <1>7 DEF p

-----------------------------------------------------------------------------
(* The inductive invariant and its steps.                                   *)

\* Setting the link count, or the block of a CL or PL entry, keeps a record good.
LEMMA LinksChanged ==
  ASSUME NEW o, NEW p, NEW first, Sound(o, first), HasEntry(o, "PX") => LinksOf(o) \in Nat,
         NEW k, k \in {"PX", "CL", "PL"}, NEW n, n \in Nat, Changed(o, p, k, n)
  PROVE  HasEntry(p, "PX") => LinksOf(p) \in Nat
<1>1. Alike(o.dr, p.dr, k) /\ Alike(o.ce, p.ce, k)
  BY BothAlike DEF Both
<1>2. CASE k = "PX"
  <2>1. CASE p.dr = o.dr /\ o.dr[k] = <<>> /\ DataSet(o.ce, p.ce, k, n)
    BY <1>2, <2>1 DEF LinksOf, DataSet
  <2>2. CASE p.ce = o.ce /\ o.dr[k] # <<>> /\ DataSet(o.dr, p.dr, k, n)
    <3>1. p.dr[k] # <<>>
      BY <1>1, <2>2 DEF Alike
    <3>2. QED
      BY <1>2, <2>2, <3>1 DEF LinksOf, DataSet
  <2>3. QED
    BY <2>1, <2>2 DEF Changed
<1>3. CASE k # "PX"
  <2>1. p.dr["PX"] = o.dr["PX"] /\ p.ce["PX"] = o.ce["PX"]
    BY <1>1, <1>3 DEF Alike, Kinds
  <2>2. QED
    BY <2>1 DEF LinksOf, HasEntry
<1>4. QED
  BY <1>2, <1>3

LEMMA GoodChanged ==
  ASSUME NEW o, NEW q, NEW len, Good(o, q, len), NEW k, k \in {"PX", "CL", "PL"}, HasEntry(o, k),
         NEW n, n \in Nat, (k = "PX" /\ q.kind # "foreign") => n \in 1..MaxLinks
  PROVE  Good(Put1(o, k, n), q, len)
<1> DEFINE p == Put1(o, k, n)
           first == q.kind = "first"
<1>1. Sound(o, first)
  BY DEF Good
<1> HIDE DEF p, first
<1>2. Changed(o, p, k, n)
  BY ONLY <1>1, k \in {"PX", "CL", "PL"}, HasEntry(o, k), n \in Nat, ChangedIs DEF p
<1>3. Sound(p, first) /\ Weight(p.dr) = Weight(o.dr)
  BY ONLY <1>1, <1>2, k \in {"PX", "CL", "PL"}, SoundChanged
<1>4. HasEntry(p, "PX") => LinksOf(p) \in Nat
  <2>1. HasEntry(o, "PX") => LinksOf(o) \in Nat
    BY DEF Good
  <2>2. QED
    BY ONLY <1>1, <1>2, <2>1, k \in {"PX", "CL", "PL"}, n \in Nat, LinksChanged
<1>5. q.kind = "foreign" => Keeps(p, q)
  <2> SUFFICES ASSUME q.kind = "foreign" PROVE Keeps(p, q)
    OBVIOUS
  <2>1. Keeps(o, q)
    BY DEF Good
  <2>2. QED
    BY ONLY <1>1, <1>2, <2>1, k \in {"PX", "CL", "PL"}, KeepsChanged
<1>6. q.kind # "foreign" => q.version \in Versions /\ Says(p, q)
  <2> SUFFICES ASSUME q.kind # "foreign" PROVE q.version \in Versions /\ Says(p, q)
    OBVIOUS
  <2>1. q.version \in Versions /\ Says(o, q)
    BY DEF Good
  <2>2. k = "PX" => n \in 1..MaxLinks
    OBVIOUS
  <2>3. Says(p, q)
    BY ONLY <1>1, <1>2, <2>1, <2>2, k \in {"PX", "CL", "PL"}, SaysChanged
  <2>4. QED
    BY <2>1, <2>3
<1>7. Good(p, q, len)
  <2>1. /\ q.start \in 34..226 /\ Weight(o.dr) \in Nat /\ q.start + Weight(o.dr) <= 254
        /\ len = Padded(q.start + Weight(o.dr))
    BY DEF Good
  <2>2. Sound(p, q.kind = "first")
    BY <1>3 DEF first
  <2>3. QED
    BY ONLY <1>3, <1>4, <1>5, <1>6, <2>1, <2>2 DEF Good
<1>8. QED
  BY <1>7 DEF p

\* A record of another tool that is taken in is good.
Told34(f) == [kind |-> "foreign", start |-> 34, dr |-> f.dr, ce |-> f.ce]
LEMMA ForeignGood ==
  ASSUME NEW f, f \in Foreign, NEW once, once = Parse(Unread, f.dr, FALSE),
         NEW o, o = ReadAreas(f.dr, f.ce),
         Readable(Unread, f.dr, FALSE), Readable(once, f.ce, FALSE),
         ~HasEntry(o, "PN"), VersionsAgree(f)
  PROVE  Good(o, Told34(f), 34 + AreaLength(f.dr) + (AreaLength(f.dr) % 2))
<1> DEFINE q == Told34(f)
           x == AreaLength(f.dr)
<1>1. q.kind = "foreign" /\ q.start = 34 /\ q.dr = f.dr /\ q.ce = f.ce
  BY DEF Told34
<1>2. Taken(o, f, once)
  BY ForeignTaken
<1>3. Sound(o, FALSE) /\ Weight(o.dr) = x /\ x \in Nat /\ Keeps(o, f)
  BY <1>2, ForeignSound
<1>4. IsForeign(f)
  BY RockRidgeEntriesAssumption
<1>5. 34 + x <= 254
  BY <1>4 DEF IsForeign, AllowedDrSize
<1> HIDE DEF q, x
<1>6. Sound(o, q.kind = "first")
  BY <1>1, <1>3
<1>7. Keeps(o, q)
  BY <1>1, <1>3 DEF Keeps
<1>8. 34 + x + (x % 2) = Padded(34 + x)
  <2>1. (34 + x) % 2 = x % 2
    BY <1>3
  <2>2. QED
    BY <1>3, <2>1 DEF Padded
<1>9. ASSUME NEW s, s \in Seq(Whole), IsArea(s), OfKind(s, "PX") # <<>>
      PROVE  OfKind(s, "PX")[1].data \in Nat
  <2> DEFINE t == OfKind(s, "PX")
  <2>1. "PX" \in Kinds
    BY DEF Kinds
  <2>2. t \in Seq(OfSu(Whole, "PX"))
    <3>1. ByKind(s) \in Lists(Whole)
      BY <1>9, AreaWeight
    <3>2. ByKind(s)["PX"] = t
      BY <2>1 DEF ByKind
    <3>3. QED
      BY <2>1, <3>1, <3>2 DEF Lists
  <2>3. 1 \in 1..Len(t)
    BY ONLY <1>9, <2>2, EmptySeq
  <2>4. t[1].su = "PX" /\ \E i \in 1..Len(s) : s[i] = t[1]
    BY <1>9, <2>3, OfKindFrom
  <2> HIDE DEF t
  <2>5. PICK i \in 1..Len(s) : s[i] = t[1]
    BY <2>4
  <2>6. s[i].su = "PX" => s[i].data \in Nat
    BY <1>9 DEF IsArea
  <2>7. QED
    BY <2>4, <2>5, <2>6 DEF t
<1>10. HasEntry(o, "PX") => LinksOf(o) \in Nat
  <2>1. o.dr = ByKind(f.dr) /\ o.ce = ByKind(f.ce) /\ f.dr \in Seq(Whole) /\ f.ce \in Seq(Whole)
    BY <1>2 DEF Taken
  <2>2. o.dr["PX"] = OfKind(f.dr, "PX") /\ o.ce["PX"] = OfKind(f.ce, "PX")
    BY <2>1 DEF ByKind, Kinds
  <2>3. IsArea(f.dr) /\ IsArea(f.ce)
    BY <1>4 DEF IsForeign
  <2>4. (o.dr["PX"] # <<>> => o.dr["PX"][1].data \in Nat) /\ (o.ce["PX"] # <<>> => o.ce["PX"][1].data \in Nat)
    BY ONLY <1>9, <2>1, <2>2, <2>3
  <2>5. QED
    BY ONLY <2>4 DEF HasEntry, LinksOf
<1>11. 34 \in 34..226
  OBVIOUS
<1>12. Good(o, q, 34 + x + (x % 2))
  BY ONLY <1>1, <1>3, <1>5, <1>6, <1>7, <1>8, <1>10, <1>11 DEF Good
<1>13. QED
  BY <1>12 DEF q, x

\* What the last writing left is the two areas of a record that was good: it
\* may have changed in memory since.
Written == \E o : Good(o, request, drLen) /\ image = ImageOf(o, drLen)
IInv ==
  /\ raised \in {"none", "refused"}
  /\ request = NoRequest => rr = Unread /\ image = NoImage
  /\ request # NoRequest => request.kind # "none" /\ Good(rr, request, drLen)
  /\ image # NoImage => Written

\* There is no record at first.
LEMMA Inits == Init => IInv
BY DEF Init, IInv, NoRequest

\* A record is made of a request only when there is none.
LEMMA CreateStep ==
  ASSUME IInv, Faults = {}, NEW q, q \in Requests, Create(q)
  PROVE  IInv'
<1> DEFINE made == New(q)
<1>1. IsRequest(q)
  BY RockRidgeEntriesAssumption
<1>2. request = NoRequest /\ Allowed(q, New(q).object)
  BY DEF Create, CreateAs
<1>3. Fine(q, New(q))
  BY ONLY <1>1, <1>2, Faults = {}, NewGood
<1>4. made.fits /\ Good(made.object, q, made.len)
  BY ONLY <1>3 DEF Fine
<1>5. CreateAs(q, made)
  BY DEF Create
<1> HIDE DEF made
<1>6. request' = q /\ rr' = made.object /\ drLen' = made.len /\ UNCHANGED <<image, raised>>
  BY ONLY <1>4, <1>5 DEF CreateAs
<1>7. q.kind # "none"
  BY <1>1 DEF IsRequest, Request
<1>8. q # NoRequest
  BY <1>7 DEF NoRequest
<1>9. image' = NoImage
  BY <1>2, <1>6 DEF IInv
<1>10. raised' \in {"none", "refused"}
  BY <1>6 DEF IInv
<1>11. QED
  BY ONLY <1>4, <1>6, <1>7, <1>8, <1>9, <1>10 DEF IInv

LEMMA OpenForeignStep ==
  ASSUME IInv, Faults = {}, NEW f, f \in Foreign, OpenForeign(f)
  PROVE  IInv'
<1> DEFINE once == Parse(Unread, f.dr, FALSE)
           o == ReadAreas(f.dr, f.ce)
<1>1. request = NoRequest /\ rr = Unread /\ image = NoImage /\ raised \in {"none", "refused"}
  BY DEF OpenForeign, IInv
<1>2. CASE Readable(Unread, f.dr, FALSE) /\ Readable(once, f.ce, FALSE)
  <2>1. /\ HasEntry(o, "PN") => "device" \in Faults
        /\ VersionsAgree(f) \/ "new_version" \in Faults
        /\ request' = Told34(f) /\ rr' = o
        /\ drLen' = 34 + AreaLength(f.dr) + (AreaLength(f.dr) % 2)
        /\ UNCHANGED <<image, raised>>
    BY <1>2 DEF OpenForeign, Told34
  <2>2. ~HasEntry(o, "PN") /\ VersionsAgree(f)
    BY <2>1
  <2>3. Good(o, Told34(f), 34 + AreaLength(f.dr) + (AreaLength(f.dr) % 2))
    BY <1>2, <2>2, ForeignGood
  <2>4. Told34(f).kind = "foreign"
    BY DEF Told34
  <2>5. Told34(f) # NoRequest
    BY <2>4 DEF NoRequest
  <2>6. "foreign" # "none"
    OBVIOUS
  <2> HIDE DEF o, once
  <2>7. QED
    BY ONLY <1>1, <2>1, <2>3, <2>4, <2>5, <2>6 DEF IInv
<1>3. CASE ~(Readable(Unread, f.dr, FALSE) /\ Readable(once, f.ce, FALSE))
  <2>1. raised' = "refused" /\ UNCHANGED <<request, rr, drLen, image>>
    BY <1>3 DEF OpenForeign
  <2>2. QED
    BY ONLY <1>1, <2>1 DEF IInv
<1>4. QED
  BY <1>2, <1>3

\* The record that is read has no entries before there is one.
LEMMA HasOne ==
  ASSUME IInv, NEW k, k \in Kinds, HasEntry(rr, k)
  PROVE  request # NoRequest /\ request.kind # "none" /\ Good(rr, request, drLen)
<1>1. request # NoRequest
  <2>1. Unread.dr = NoEntries /\ Unread.ce = NoEntries
    BY Zenon DEF Unread
  <2>2. ~HasEntry(Unread, k)
    BY <2>1 DEF HasEntry, NoEntries
  <2>3. rr # Unread
    BY ONLY HasEntry(rr, k), <2>2
  <2>4. QED
    BY ONLY IInv, <2>3 DEF IInv
<1>2. QED
  BY <1>1 DEF IInv

LEMMA ChangeStep ==
  ASSUME IInv, NEW k, k \in {"PX", "CL", "PL"}, HasEntry(rr, k), NEW n, n \in Nat,
         (k = "PX" /\ request.kind # "foreign") => n \in 1..MaxLinks,
         rr' = Put1(rr, k, n), UNCHANGED <<request, drLen, image, raised>>
  PROVE  IInv'
<1>1. k \in Kinds
  BY DEF Kinds
<1>2. request # NoRequest /\ request.kind # "none" /\ Good(rr, request, drLen)
  BY <1>1, HasOne
<1>3. Good(Put1(rr, k, n), request, drLen)
  BY <1>2, GoodChanged
<1>4. raised \in {"none", "refused"} /\ (image # NoImage => Written)
  BY DEF IInv
<1>5. image' # NoImage => Written'
  BY ONLY <1>4, UNCHANGED <<request, drLen, image, raised>> DEF Written
<1>6. QED
  BY ONLY <1>2, <1>3, <1>4, <1>5, rr' = Put1(rr, k, n), UNCHANGED <<request, drLen, image, raised>> DEF IInv

\* The number of links of a record that was made, and of any record.
LEMMA LinksAre ==
  ASSUME IInv, HasEntry(rr, "PX")
  PROVE  LinksOf(rr) \in Nat /\ (request.kind # "foreign" => LinksOf(rr) \in 1..MaxLinks)
<1>1. "PX" \in Kinds
  BY DEF Kinds
<1>2. Good(rr, request, drLen)
  BY <1>1, HasOne
<1>3. LinksOf(rr) \in Nat
  BY <1>2 DEF Good
<1>4. request.kind # "foreign" => Says(rr, request)
  BY <1>2 DEF Good
<1>5. QED
  BY ONLY <1>3, <1>4 DEF Says

LEMMA AddStep ==
  ASSUME IInv, AddToFileLinks
  PROVE  IInv'
<1> DEFINE l == LinksOf(rr)
           n == l + 1
<1>1. HasEntry(rr, "PX") /\ l < MaxLinks /\ UNCHANGED <<request, drLen, image, raised>>
      /\ rr' = WithLinks(rr, n)
  BY DEF AddToFileLinks
<1>2. rr' = Put1(rr, "PX", n)
  BY <1>1 DEF WithLinks, Put1
<1>3. l \in Nat /\ (request.kind # "foreign" => l \in 1..MaxLinks)
  BY <1>1, LinksAre
<1>4. MaxLinks \in Nat
  BY RockRidgeEntriesAssumption
<1>5. n \in Nat /\ (request.kind # "foreign" => n \in 1..MaxLinks)
  <2> HIDE DEF l
  <2>1. QED
    BY ONLY <1>1, <1>3, <1>4 DEF n
<1> DEFINE k == "PX"
<1>6. k \in {"PX", "CL", "PL"} /\ HasEntry(rr, k) /\ rr' = Put1(rr, k, n)
  BY <1>1, <1>2
<1> HIDE DEF k, n
<1>7. QED
  BY ONLY IInv, <1>1, <1>5, <1>6, ChangeStep

LEMMA RemoveStep ==
  ASSUME IInv, RemoveFromFileLinks
  PROVE  IInv'
<1> DEFINE l == LinksOf(rr)
           n == l - 1
<1>1. HasEntry(rr, "PX") /\ l > 1 /\ UNCHANGED <<request, drLen, image, raised>>
      /\ rr' = WithLinks(rr, n)
  BY DEF RemoveFromFileLinks
<1>2. rr' = Put1(rr, "PX", n)
  BY <1>1 DEF WithLinks, Put1
<1>3. l \in Nat /\ (request.kind # "foreign" => l \in 1..MaxLinks)
  BY <1>1, LinksAre
<1>4. MaxLinks \in Nat
  BY RockRidgeEntriesAssumption
<1>5. n \in Nat /\ (request.kind # "foreign" => n \in 1..MaxLinks)
  <2> HIDE DEF l
  <2>1. QED
    BY ONLY <1>1, <1>3, <1>4 DEF n
<1> DEFINE k == "PX"
<1>6. k \in {"PX", "CL", "PL"} /\ HasEntry(rr, k) /\ rr' = Put1(rr, k, n)
  BY <1>1, <1>2
<1> HIDE DEF k, n
<1>7. QED
  BY ONLY IInv, <1>1, <1>5, <1>6, ChangeStep

LEMMA BlockStep ==
  ASSUME IInv, NEW b, b \in Blocks, ChildLinkUpdate(b) \/ ParentLinkUpdate(b)
  PROVE  IInv'
<1>1. b \in Nat
  BY RockRidgeEntriesAssumption
<1>2. ASSUME NEW k, k \in {"CL", "PL"}, HasEntry(rr, k), rr' = WithBlock(rr, k, b),
             UNCHANGED <<request, drLen, image, raised>>
      PROVE  IInv'
  <2>1. rr' = Put1(rr, k, b)
    BY <1>2 DEF WithBlock, Put1
  <2>2. k \in {"PX", "CL", "PL"} /\ k # "PX"
    BY <1>2
  <2>3. QED
    BY ONLY IInv, <1>1, <1>2, <2>1, <2>2, ChangeStep
<1>3. CASE ChildLinkUpdate(b)
  BY ONLY <1>2, <1>3 DEF ChildLinkUpdate
<1>4. CASE ParentLinkUpdate(b)
  BY ONLY <1>2, <1>4 DEF ParentLinkUpdate
<1>5. QED
  BY <1>3, <1>4

LEMMA WriteStep ==
  ASSUME IInv, Write
  PROVE  IInv'
<1>1. request # NoRequest /\ UNCHANGED <<request, rr, drLen, raised>>
  BY DEF Write
<1>2. image' = ImageOf(rr, drLen)
  BY DEF Write, ImageOf, Areas
<1>3. request.kind # "none" /\ Good(rr, request, drLen) /\ raised \in {"none", "refused"}
  BY <1>1 DEF IInv
<1>4. Good(rr, request', drLen') /\ image' = ImageOf(rr, drLen')
  BY <1>1, <1>2, <1>3
<1>5. Written'
  BY ONLY <1>4 DEF Written
<1>6. QED
  BY ONLY <1>1, <1>3, <1>5 DEF IInv

LEMMA OpenStep ==
  ASSUME IInv, Faults = {}, Open
  PROVE  IInv'
<1>1. image # NoImage /\ Written /\ request # NoRequest /\ request.kind # "none"
  BY DEF Open, IInv
<1>2. PICK o : Good(o, request, drLen) /\ image = ImageOf(o, drLen)
  BY <1>1 DEF Written
<1>3. Opens(request, ImageOf(o, drLen))
  BY <1>2, GoodOpens
<1>4. Opens(request, image)
  BY ONLY <1>2, <1>3
<1> DEFINE once == Parse(Unread, image.dr, FALSE)
<1>5. /\ WholeAreas(image, request.start)
      /\ Readable(Unread, image.dr, request.kind = "first")
      /\ Readable(once, image.ce, request.kind = "first")
      /\ Made => once.version = ImageVersion(request.version)
  BY ONLY <1>4 DEF Opens, Made
<1>6. /\ rr' = ReadAreas(image.dr, image.ce) /\ drLen' = image.len
      /\ raised' = "none" /\ UNCHANGED <<request, image>>
  BY <1>5 DEF Open
<1> HIDE DEF once
<1>7. rr' = Again(o) /\ drLen' = drLen
  BY ONLY <1>2, <1>6 DEF ImageOf, Again
<1>8. Good(Again(o), request, drLen)
  BY ONLY <1>2, GoodAgain
<1>9. Good(rr', request', drLen')
  BY ONLY <1>6, <1>7, <1>8
<1>10. Good(o, request', drLen') /\ image' = ImageOf(o, drLen')
  BY ONLY <1>2, <1>6, <1>7
<1>11. Written'
  BY ONLY <1>10 DEF Written
<1>12. QED
  BY ONLY <1>1, <1>6, <1>9, <1>11 DEF IInv

\* Every step keeps the invariant.
LEMMA Steps ==
  ASSUME IInv, Faults = {}, [Next]_vars
  PROVE  IInv'
<1>1. ASSUME NEW q \in Requests, Create(q) PROVE IInv'
  BY <1>1, CreateStep
<1>2. ASSUME NEW f \in Foreign, OpenForeign(f) PROVE IInv'
  BY <1>2, OpenForeignStep
<1>3. CASE AddToFileLinks
  BY <1>3, AddStep
<1>4. CASE RemoveFromFileLinks
  BY <1>4, RemoveStep
<1>5. ASSUME NEW b \in Blocks, ChildLinkUpdate(b) \/ ParentLinkUpdate(b) PROVE IInv'
  BY <1>5, BlockStep
<1>6. CASE Write
  BY <1>6, WriteStep
<1>7. CASE Open
  BY <1>7, OpenStep
<1>8. CASE UNCHANGED vars
  BY ONLY IInv, <1>8 DEF vars, IInv, Written
<1>9. QED
  BY ONLY <1>1, <1>2, <1>3, <1>4, <1>5, <1>6, <1>7, <1>8, [Next]_vars DEF Next

-----------------------------------------------------------------------------
(* What follows of the properties.                                          *)

LEMMA Typed ==
  ASSUME IInv
  PROVE  TypeOK
<1>1. ASSUME request # NoRequest
      PROVE  drLen \in 34..AllowedDrSize /\ drLen % 2 = 0
  <2> DEFINE x == request.start + Weight(rr.dr)
  <2>1. Good(rr, request, drLen)
    BY <1>1 DEF IInv
  <2>2. /\ request.start \in 34..226 /\ Weight(rr.dr) \in Nat /\ x <= 254
        /\ drLen = Padded(x)
    BY ONLY <2>1 DEF Good
  <2>3. x \in 34..254
    <3> DEFINE a == request.start
               b == Weight(rr.dr)
    <3>1. a \in 34..226 /\ b \in Nat /\ a + b <= 254
      BY ONLY <2>2
    <3> HIDE DEF a, b
    <3>2. a + b \in 34..254
      BY ONLY <3>1
    <3>3. QED
      BY ONLY <3>2 DEF a, b
  <2> HIDE DEF x
  <2>4. drLen = x + (x % 2)
    BY <2>2 DEF Padded
  <2>5. drLen \in 34..254 /\ drLen % 2 = 0
    BY ONLY <2>3, <2>4
  <2>6. QED
    BY <2>5 DEF AllowedDrSize
<1>2. ASSUME Made PROVE LinksOf(rr) \in 1..MaxLinks
  <2>1. request # NoRequest /\ request.kind # "foreign"
    BY <1>2 DEF Made, NoRequest
  <2>2. Good(rr, request, drLen)
    BY <2>1 DEF IInv
  <2>3. Says(rr, request)
    BY ONLY <2>1, <2>2 DEF Good
  <2>4. QED
    BY ONLY <2>3 DEF Says
<1>3. raised \in {"none", "internal", "refused", "invalid ISO"}
  BY DEF IInv
<1>4. QED
  BY ONLY <1>1, <1>2, <1>3 DEF TypeOK

LEMMA Exact ==
  ASSUME IInv
  PROVE  AreasExact
<1> DEFINE dr == Record(rr, rr.dr)
           ce == Record(rr, rr.ce)
           first == request.kind = "first"
<1>1. ASSUME request # NoRequest
      PROVE  /\ drLen = request.start + AreaLength(dr) + ((request.start + AreaLength(dr)) % 2)
             /\ AreaLength(ce) = Announced(dr)
             /\ \A area \in {dr, ce} : \A i \in 1..Len(area) : area[i].len \in 4..255
  <2>1. Good(rr, request, drLen)
    BY <1>1 DEF IInv
  <2>2. Sound(rr, first) /\ drLen = Padded(request.start + Weight(rr.dr))
    BY ONLY <2>1 DEF Good
  <2> HIDE DEF first
  <2>3. Holds(dr, rr.dr) /\ Holds(ce, rr.ce)
    BY ONLY <2>2, AreasHold
  <2> HIDE DEF dr, ce
  <2>4. AreaLength(ce) = Announced(dr)
    BY ONLY <2>2, <2>3, CeAnnounced
  <2>5. AreaLength(dr) = Weight(rr.dr) /\ dr \in Seq(Whole) /\ ce \in Seq(Whole)
    BY ONLY <2>3 DEF Holds
  <2>6. ASSUME NEW s, s \in Seq(Whole), NEW i, i \in 1..Len(s) PROVE s[i].len \in 4..255
    <3>1. s[i] \in Whole
      BY ONLY <2>6, ElementOfSeq
    <3>2. QED
      BY ONLY <3>1, WholeHas
  <2>7. QED
    BY ONLY <2>2, <2>4, <2>5, <2>6 DEF Padded
<1>2. QED
  BY ONLY <1>1 DEF AreasExact

LEMMA SaysAll ==
  ASSUME NEW o, NEW q, Says(o, q)
  PROVE  /\ Spells(o.name, 0, q.name)
         /\ PathSays(SymlinkPath(o), q.target)
         /\ \A k \in {"PX", "TF"} : Len(o.dr[k] \o o.ce[k]) = 1
         /\ HasEntry(o, "CL") <=> q.kind = "child_link"
         /\ HasEntry(o, "PL") <=> q.kind = "moved_dotdot"
         /\ HasEntry(o, "RE") <=> q.kind = "moved_dir"
BY DEF Says, OneEntry

LEMMA Back ==
  ASSUME IInv
  PROVE  ReadsBack
<1>1. ASSUME Made PROVE Says(rr, request)
  <2>1. request # NoRequest /\ request.kind # "foreign"
    BY <1>1 DEF Made, NoRequest
  <2>2. Good(rr, request, drLen)
    BY <2>1 DEF IInv
  <2>3. QED
    BY ONLY <2>1, <2>2 DEF Good
<1>2. Made => /\ Spells(rr.name, 0, request.name)
              /\ PathSays(SymlinkPath(rr), request.target)
              /\ \A k \in {"PX", "TF"} : Len(rr.dr[k] \o rr.ce[k]) = 1
              /\ HasEntry(rr, "CL") <=> request.kind = "child_link"
              /\ HasEntry(rr, "PL") <=> request.kind = "moved_dotdot"
              /\ HasEntry(rr, "RE") <=> request.kind = "moved_dir"
  BY ONLY <1>1, SaysAll
<1>3. QED
  BY ONLY <1>2, Zenon DEF ReadsBack, PathSays

LEMMA Kept ==
  ASSUME IInv
  PROVE  ForeignKept
<1> DEFINE dr == Record(rr, rr.dr)
           ce == Record(rr, rr.ce)
           first == request.kind = "first"
<1>1. ASSUME request.kind = "foreign", NEW k, k \in Kinds
      PROVE  SameEntries(OfKind(dr, k), OfKind(request.dr, k)) /\ SameEntries(OfKind(ce, k), OfKind(request.ce, k))
  <2>1. request # NoRequest
    BY <1>1 DEF NoRequest
  <2>2. Good(rr, request, drLen)
    BY <2>1 DEF IInv
  <2>3. Sound(rr, first) /\ Keeps(rr, request)
    BY ONLY <1>1, <2>2 DEF Good
  <2> HIDE DEF first
  <2>4. Holds(dr, rr.dr) /\ Holds(ce, rr.ce)
    BY ONLY <2>3, AreasHold
  <2> HIDE DEF dr, ce
  <2>5. OfKind(dr, k) = rr.dr[k] /\ OfKind(ce, k) = rr.ce[k]
    BY ONLY <1>1, <2>4 DEF Holds
  <2>6. QED
    BY ONLY <1>1, <2>3, <2>5 DEF Keeps
<1>2. QED
  BY ONLY <1>1 DEF ForeignKept

LEMMA Opened ==
  ASSUME IInv
  PROVE  WrittenOpens
BY DEF IInv, WrittenOpens

\* The invariant holds in every state of every behaviour, without the
\* circumstances of Faults.
LEMMA Invariant == Faults = {} /\ Spec => []IInv
<1> SUFFICES ASSUME Faults = {} PROVE Spec => []IInv
  OBVIOUS
<1>1. Init => IInv
  BY Inits
<1>2. IInv /\ [Next]_vars => IInv'
  BY Steps
<1>3. QED
  BY <1>1, <1>2, PTL DEF Spec

\* The record never outgrows its 254 bytes, its length is even, and the links
\* are counted (TypeOK): RockRidge.new and dr_len.
THEOREM RecordTyped == Faults = {} /\ Spec => []TypeOK
<1>1. IInv => TypeOK
  BY Typed
<1>2. QED
  BY <1>1, Invariant, PTL

\* What is written is as long as dr_len and the CE entry say, and every entry
\* fits into its length byte, for names and targets of any length
\* (AreasExact): _assign_entries, _add_name and _new_symlink.
THEOREM AreasAreExact == Faults = {} /\ Spec => []AreasExact
<1>1. IInv => AreasExact
  BY Exact
<1>2. QED
  BY <1>1, Invariant, PTL

\* The name and the target that a record was made with, of any length, are
\* what name() and symlink_path() give, in memory and after reading
\* (ReadsBack).
THEOREM EntriesReadBack == Faults = {} /\ Spec => []ReadsBack
<1>1. IInv => ReadsBack
  BY Back
<1>2. QED
  BY <1>1, Invariant, PTL

\* No call of new() fails for want of room, and whatever is written is
\* accepted by parse() and by the check of the versions (WrittenOpens).
THEOREM RecordsOpen == Faults = {} /\ Spec => []WrittenOpens
<1>1. IInv => WrittenOpens
  BY Opened
<1>2. QED
  BY <1>1, Invariant, PTL

\* The entries of another tool's record are all written again
\* (ForeignKept): parse() and record_dr_entries, record_ce_entries.
THEOREM ForeignEntriesKept == Faults = {} /\ Spec => []ForeignKept
<1>1. IInv => ForeignKept
  BY Kept
<1>2. QED
  BY <1>1, Invariant, PTL

=============================================================================
