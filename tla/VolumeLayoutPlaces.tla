------------------------- MODULE VolumeLayoutPlaces -------------------------
(***************************************************************************)
(* What the calls of VolumeLayout do to a volume that the library makes    *)
(* itself.  The recursive functions and the sums of the model, on sequences*)
(* of any length; what such a volume is (Own: its header, its UDF part,    *)
(* its files; Laid: everything has the place that the walk of              *)
(* _reshuffle_extents gives it, and the size is what it comes to); the     *)
(* walk; and that new() and each call that adds or removes something leave *)
(* a volume that is laid out so.                                           *)
(***************************************************************************)
EXTENDS VolumeLayout, FiniteSetTheorems, SequenceTheorems, WellFoundedInduction, TLAPS

LEMMA LeastNatural ==
  ASSUME NEW S \in SUBSET Nat, S # {}
  PROVE  \E m \in S : \A q \in S : m <= q
<1>1. PICK m \in S : \A q \in S : ~(<<q, m>> \in OpToRel(<, Nat))
  BY NatLessThanWellFounded, WFMin, Zenon
<1>2. \A q \in S : ~(q < m)
  BY <1>1, Zenon DEF OpToRel
<1>3. QED
  BY <1>2

\* Induction up to n.
LEMMA UpTo ==
  ASSUME NEW T, NEW n \in Nat, 0 \in T, \A j \in 0..(n - 1) : j \in T => j + 1 \in T
  PROVE  \A j \in 0..n : j \in T
<1> SUFFICES ASSUME (0..n) \ T # {} PROVE FALSE
  OBVIOUS
<1>1. (0..n) \ T \subseteq Nat
  OBVIOUS
<1>2. PICK x \in (0..n) \ T : \A y \in (0..n) \ T : x <= y
  BY <1>1, LeastNatural
<1>3. x # 0 /\ x - 1 \in 0..(n - 1) /\ x - 1 \in 0..n /\ ~(x <= x - 1)
  BY <1>2
<1>4. x - 1 \in T
  BY <1>2, <1>3
<1>5. (x - 1) + 1 \in T
  BY <1>3, <1>4
<1>6. (x - 1) + 1 = x
  BY <1>2
<1>7. QED
  BY <1>2, <1>5, <1>6

-----------------------------------------------------------------------------
(* The recursive functions of the model: that they exist, and what they are  *)
(* of a sequence with an element more.                                      *)


TotalOf(g, s) == g = [i \in 0..Len(s) |-> IF i = 0 THEN 0 ELSE g[i - 1] + s[i]]

\* The recursive functions of the model exist, on sequences of any length, and
\* obey their equations; what is appended comes last.
LEMMA TotalExists ==
  ASSUME NEW S, NEW s \in Seq(S)
  PROVE  \E g : TotalOf(g, s)
<1> DEFINE n == Len(s)
           F(g, i) == IF i = 0 THEN 0 ELSE g[i - 1] + s[i]
           T == {k \in 0..n : \E g : g = [i \in 0..k |-> F(g, i)]}
<1>0. n \in Nat
  OBVIOUS
<1> HIDE DEF n
<1>1. 0 \in T
  <2> DEFINE g == [i \in 0..0 |-> 0]
  <2>1. g = [i \in 0..0 |-> F(g, i)]
    OBVIOUS
  <2> HIDE DEF g
  <2>2. QED
    BY <1>0, <2>1
<1>2. ASSUME NEW k \in 0..(n - 1), k \in T PROVE k + 1 \in T
  <2>1. PICK g : g = [i \in 0..k |-> F(g, i)]
    BY <1>2
  <2>0. k \in Nat /\ k + 1 \in 0..n
    BY <1>0
  <2> DEFINE h == [i \in 0..(k + 1) |-> IF i = k + 1 THEN F(g, k + 1) ELSE g[i]]
  <2>2. ASSUME NEW i \in 0..(k + 1) PROVE h[i] = F(h, i)
    <3>1. CASE i = k + 1
      <4>1. i # 0 /\ i - 1 = k /\ h[i - 1] = g[i - 1] /\ h[i] = F(g, i)
        BY <2>0, <3>1
      <4> HIDE DEF h
      <4>2. QED
        BY <4>1
    <3>2. CASE i # k + 1
      <4>1. i \in 0..k /\ h[i] = g[i] /\ (i # 0 => h[i - 1] = g[i - 1])
        BY <2>0, <3>2
      <4>2. g[i] = F(g, i)
        BY <2>1, <4>1
      <4> HIDE DEF h
      <4>3. QED
        BY <4>1, <4>2
    <3>3. QED
      BY <3>1, <3>2
  <2>3. h = [i \in 0..(k + 1) |-> h[i]]
    OBVIOUS
  <2> HIDE DEF h
  <2>4. h = [i \in 0..(k + 1) |-> F(h, i)]
    <3> HIDE DEF F
    <3>1. QED
      BY <2>2, <2>3
  <2>5. QED
    BY <2>4, <2>0
<1> HIDE DEF T, F
<1>3. n \in T
  <2>1. \A k \in 0..n : k \in T
    BY <1>1, <1>2, <1>0, UpTo
  <2>2. QED
    BY <1>0, <2>1
<1>4. QED
  BY <1>3 DEF T, n, F, TotalOf

LEMMA TotalIs ==
  ASSUME NEW S, NEW s \in Seq(S)
  PROVE  \E g : TotalOf(g, s) /\ Total(s) = g[Len(s)]
<1>1. PICK g : g = CHOOSE h : TotalOf(h, s)
  OBVIOUS
<1>2. TotalOf(g, s)
  BY <1>1, TotalExists
<1>3. Total(s) = g[Len(s)]
  BY <1>1, Zenon DEF Total, TotalOf
<1>4. QED
  BY <1>2, <1>3

LEMMA TotalEmpty ==
  Total(<<>>) = 0
<1>1. <<>> \in Seq({}) /\ Len(<<>>) = 0
  OBVIOUS
<1>2. PICK g : TotalOf(g, <<>>) /\ Total(<<>>) = g[Len(<<>>)]
  BY <1>1, TotalIs
<1>3. g[0] = 0
  BY <1>1, <1>2 DEF TotalOf
<1>4. QED
  BY <1>1, <1>2, <1>3

LEMMA TotalAppend ==
  ASSUME NEW S, NEW s \in Seq(S), NEW e \in S
  PROVE  Total(Append(s, e)) = Total(s) + e
<1> DEFINE t == Append(s, e)
           n == Len(s)
<1>1. t \in Seq(S) /\ n \in Nat /\ Len(t) = n + 1 /\ t[n + 1] = e
  OBVIOUS
<1>2. \A i \in 1..n : t[i] = s[i]
  OBVIOUS
<1>3. PICK g : TotalOf(g, s) /\ Total(s) = g[Len(s)]
  BY TotalIs
<1>4. PICK h : TotalOf(h, t) /\ Total(t) = h[Len(t)]
  BY <1>1, TotalIs
<1> HIDE DEF t
<1>5. /\ \A i \in 0..n : g[i] = IF i = 0 THEN 0 ELSE g[i - 1] + s[i]
      /\ \A i \in 0..(n + 1) : h[i] = IF i = 0 THEN 0 ELSE h[i - 1] + t[i]
  BY <1>1, <1>3, <1>4 DEF TotalOf
<1> HIDE DEF n
<1>6. /\ 0 \in 0..n /\ 0 \in 0..(n + 1)
      /\ \A i \in 1..n : i \in 0..n /\ i # 0
      /\ \A i \in 1..(n + 1) : i \in 0..(n + 1) /\ i # 0
  BY <1>1
<1>7. /\ g[0] = 0 /\ h[0] = 0
      /\ \A i \in 1..n : g[i] = g[i - 1] + s[i]
      /\ \A i \in 1..(n + 1) : h[i] = h[i - 1] + t[i]
  BY <1>5, <1>6
<1> DEFINE U == {i \in 0..n : h[i] = g[i]}
<1>8. 0 \in U
  BY <1>6, <1>7
<1>9. ASSUME NEW i \in 0..(n - 1), i \in U PROVE i + 1 \in U
  <2>1. i + 1 \in 1..n /\ i + 1 \in 1..(n + 1) /\ i + 1 \in 0..n /\ (i + 1) - 1 = i
    BY <1>1
  <2>2. t[i + 1] = s[i + 1]
    BY <1>2, <2>1
  <2>3. QED
    BY <1>7, <1>9, <2>1, <2>2
<1> HIDE DEF U
<1>10. n \in U
  <2>1. \A i \in 0..n : i \in U
    BY <1>1, <1>8, <1>9, UpTo
  <2>2. QED
    BY <1>1, <2>1
<1>11. h[n] = g[n] /\ n + 1 \in 1..(n + 1) /\ (n + 1) - 1 = n
  BY <1>1, <1>10 DEF U
<1>12. QED
  BY <1>1, <1>3, <1>4, <1>7, <1>11 DEF t, n

\* Induction over sequences.
LEMMA SeqInduction ==
  ASSUME NEW S, NEW T, <<>> \in T,
         \A s \in Seq(S) : \A e \in S : s \in T => Append(s, e) \in T
  PROVE  \A s \in Seq(S) : s \in T
<1> SUFFICES ASSUME NEW s \in Seq(S) PROVE s \in T
  OBVIOUS
<1> DEFINE U == {n \in 0..Len(s) : SubSeq(s, 1, n) \in T}
<1>1. 0 \in U
  <2>1. SubSeq(s, 1, 0) = <<>> /\ 0 \in 0..Len(s)
    OBVIOUS
  <2>2. QED
    BY <2>1
<1>2. ASSUME NEW n \in 0..(Len(s) - 1), n \in U PROVE n + 1 \in U
  <2>1. n \in 0..Len(s) /\ n + 1 \in 0..Len(s) /\ n + 1 \in 1..Len(s)
    OBVIOUS
  <2>2. SubSeq(s, 1, n) \in Seq(S) /\ s[n + 1] \in S
    BY <2>1
  <2>3. SubSeq(s, 1, n + 1) = Append(SubSeq(s, 1, n), s[n + 1])
    BY <2>1
  <2>4. QED
    BY <1>2, <2>1, <2>2, <2>3
<1>3. Len(s) \in Nat
  OBVIOUS
<1> HIDE DEF U
<1>4. \A n \in 0..Len(s) : n \in U
  BY <1>1, <1>2, <1>3, UpTo
<1>5. Len(s) \in U /\ SubSeq(s, 1, Len(s)) = s
  BY <1>3, <1>4
<1>6. QED
  BY <1>5 DEF U

LEMMA TotalType ==
  ASSUME NEW s \in Seq(Nat)
  PROVE  Total(s) \in Nat
<1> DEFINE T == {t \in Seq(Nat) : Total(t) \in Nat}
<1>1. <<>> \in T
  BY TotalEmpty
<1>2. ASSUME NEW t \in Seq(Nat), NEW e \in Nat, t \in T PROVE Append(t, e) \in T
  <2>1. Append(t, e) \in Seq(Nat) /\ Total(Append(t, e)) = Total(t) + e
    BY TotalAppend
  <2>2. QED
    BY <1>2, <2>1
<1> HIDE DEF T
<1>3. \A t \in Seq(Nat) : t \in T
  BY <1>1, <1>2, SeqInduction
<1>4. QED
  BY <1>3 DEF T

\* Two sums that differ in one place.
Sums(n, i, x, y, g, h) ==
  /\ g[0] = 0 /\ h[0] = 0
  /\ \A j \in 1..n : /\ g[j] = g[j - 1] + x[j] /\ h[j] = h[j - 1] + y[j]
                      /\ x[j] \in Nat /\ y[j] \in Nat /\ (j # i => y[j] = x[j])
LEMMA SumsDiffer ==
  ASSUME NEW n \in Nat, NEW i \in 1..n, NEW x, NEW y, NEW g, NEW h, Sums(n, i, x, y, g, h)
  PROVE  h[n] + x[i] = g[n] + y[i]
<1> USE DEF Sums
<1> DEFINE T == {m \in 0..n : /\ g[m] \in Nat /\ h[m] \in Nat
                              /\ m < i => h[m] = g[m]
                              /\ m >= i => h[m] + x[i] = g[m] + y[i]}
<1>1. 0 \in T
  OBVIOUS
<1>2. ASSUME NEW m \in 0..(n - 1), m \in T PROVE m + 1 \in T
  <2>1. m + 1 \in 1..n /\ (m + 1) - 1 = m /\ m + 1 \in 0..n /\ m \in Nat /\ i \in Nat
    OBVIOUS
  <2>2. /\ g[m + 1] = g[m] + x[m + 1] /\ h[m + 1] = h[m] + y[m + 1]
        /\ x[m + 1] \in Nat /\ y[m + 1] \in Nat /\ x[i] \in Nat /\ y[i] \in Nat
        /\ m + 1 # i => y[m + 1] = x[m + 1]
    BY <2>1
  <2>3. /\ g[m] \in Nat /\ h[m] \in Nat /\ (m < i => h[m] = g[m])
        /\ m >= i => h[m] + x[i] = g[m] + y[i]
    BY <1>2
  <2>4. g[m + 1] \in Nat /\ h[m + 1] \in Nat
    BY <2>2, <2>3
  <2>5. m + 1 < i => h[m + 1] = g[m + 1]
    BY <2>1, <2>2, <2>3
  <2>6. m + 1 >= i => h[m + 1] + x[i] = g[m + 1] + y[i]
    <3>1. CASE m + 1 = i
      BY <2>1, <2>2, <2>3, <3>1
    <3>2. CASE m + 1 > i
      BY <2>1, <2>2, <2>3, <3>2
    <3>3. QED
      BY <2>1, <3>1, <3>2
  <2>7. QED
    BY <2>1, <2>4, <2>5, <2>6
<1> HIDE DEF T
<1>3. n \in T
  <2>1. \A m \in 0..n : m \in T
    BY <1>1, <1>2, UpTo
  <2>2. QED
    BY <2>1
<1>4. QED
  BY <1>3 DEF T

ChangedIn(s, t, i) == Total(t) + s[i] = Total(s) + t[i]
LEMMA TotalChange ==
  ASSUME NEW s, NEW t, NEW i, s \in Seq(Nat), t \in Seq(Nat), i \in 1..Len(s), Len(t) = Len(s),
         \A j \in 1..Len(s) : j # i => t[j] = s[j]
  PROVE  ChangedIn(s, t, i)
<1> DEFINE n == Len(s)
<1>1. n \in Nat /\ i \in 1..n /\ Len(t) = n
  OBVIOUS
<1>2. \A j \in 1..n : s[j] \in Nat /\ t[j] \in Nat
  OBVIOUS
<1>3. PICK g : TotalOf(g, s) /\ Total(s) = g[n]
  BY TotalIs
<1>4. PICK h : TotalOf(h, t) /\ Total(t) = h[Len(t)]
  BY TotalIs
<1>5. \A j \in 1..n : j # i => t[j] = s[j]
  OBVIOUS
<1> HIDE DEF n
<1>6. \A j \in 0..n : g[j] = IF j = 0 THEN 0 ELSE g[j - 1] + s[j]
  BY ONLY <1>1, <1>3 DEF TotalOf, n
<1>7. \A j \in 0..n : h[j] = IF j = 0 THEN 0 ELSE h[j - 1] + t[j]
  BY ONLY <1>1, <1>4 DEF TotalOf, n
<1>8. 0 \in 0..n /\ \A j \in 1..n : j \in 0..n /\ j # 0
  BY ONLY <1>1
<1>9. /\ g[0] = 0 /\ h[0] = 0
      /\ \A j \in 1..n : /\ g[j] = g[j - 1] + s[j] /\ h[j] = h[j - 1] + t[j]
                          /\ s[j] \in Nat /\ t[j] \in Nat /\ (j # i => t[j] = s[j])
  BY ONLY <1>2, <1>5, <1>6, <1>7, <1>8
<1>10. h[n] + s[i] = g[n] + t[i]
  <2>1. Sums(n, i, s, t, g, h)
    BY ONLY <1>9 DEF Sums
  <2>2. QED
    BY ONLY <1>1, <2>1, SumsDiffer
<1>11. QED
  BY ONLY <1>1, <1>3, <1>4, <1>10 DEF n, ChangedIn

-----------------------------------------------------------------------------
(* Sums over the files, counts of lists, and numbers in order.              *)

\* One sum is at most another.
AtMost(n, x, y, g, h) ==
  /\ g[0] = 0 /\ h[0] = 0
  /\ \A j \in 1..n : /\ g[j] = g[j - 1] + x[j] /\ h[j] = h[j - 1] + y[j]
                      /\ x[j] \in Nat /\ y[j] \in Nat /\ x[j] <= y[j]
LEMMA SumsAtMost ==
  ASSUME NEW n \in Nat, NEW x, NEW y, NEW g, NEW h, AtMost(n, x, y, g, h)
  PROVE  g[n] <= h[n]
<1> USE DEF AtMost
<1> DEFINE T == {m \in 0..n : g[m] \in Nat /\ h[m] \in Nat /\ g[m] <= h[m]}
<1>1. 0 \in T
  OBVIOUS
<1>2. ASSUME NEW m \in 0..(n - 1), m \in T PROVE m + 1 \in T
  <2>1. m + 1 \in 1..n /\ (m + 1) - 1 = m /\ m + 1 \in 0..n
    OBVIOUS
  <2>2. /\ g[m + 1] = g[m] + x[m + 1] /\ h[m + 1] = h[m] + y[m + 1]
        /\ x[m + 1] \in Nat /\ y[m + 1] \in Nat /\ x[m + 1] <= y[m + 1]
    BY <2>1
  <2>3. g[m] \in Nat /\ h[m] \in Nat /\ g[m] <= h[m]
    BY <1>2
  <2>4. QED
    BY <2>1, <2>2, <2>3
<1> HIDE DEF T
<1>3. n \in T
  <2>1. \A m \in 0..n : m \in T
    BY <1>1, <1>2, UpTo
  <2>2. QED
    BY <2>1
<1>4. QED
  BY <1>3 DEF T

LEMMA TotalAtMost ==
  ASSUME NEW s, NEW t, s \in Seq(Nat), t \in Seq(Nat), Len(t) = Len(s),
         \A j \in 1..Len(s) : s[j] <= t[j]
  PROVE  Total(s) <= Total(t)
<1> DEFINE n == Len(s)
<1>1. n \in Nat /\ Len(t) = n
  OBVIOUS
<1>2. \A j \in 1..n : s[j] \in Nat /\ t[j] \in Nat /\ s[j] <= t[j]
  OBVIOUS
<1>3. PICK g : TotalOf(g, s) /\ Total(s) = g[n]
  BY TotalIs
<1>4. PICK h : TotalOf(h, t) /\ Total(t) = h[Len(t)]
  BY TotalIs
<1> HIDE DEF n
<1>6. \A j \in 0..n : g[j] = IF j = 0 THEN 0 ELSE g[j - 1] + s[j]
  BY ONLY <1>1, <1>3 DEF TotalOf, n
<1>7. \A j \in 0..n : h[j] = IF j = 0 THEN 0 ELSE h[j - 1] + t[j]
  BY ONLY <1>1, <1>4 DEF TotalOf, n
<1>8. 0 \in 0..n /\ \A j \in 1..n : j \in 0..n /\ j # 0
  BY ONLY <1>1
<1>9. AtMost(n, s, t, g, h)
  BY ONLY <1>2, <1>6, <1>7, <1>8 DEF AtMost
<1>10. QED
  BY ONLY <1>1, <1>3, <1>4, <1>9, SumsAtMost

\* What the blocks of a set of files add up to.
Lens(v, S) == [f \in Files |-> IF f \in S THEN v.files[f].len ELSE 0]
HasLens(v) == \A f \in Files : v.files[f].len \in Nat
LEMMA LensType ==
  ASSUME NEW v, NEW S, HasLens(v)
  PROVE  /\ Lens(v, S) \in Seq(Nat) /\ Len(Lens(v, S)) = NFiles /\ NFiles \in Nat
         /\ DataBlocks(v, S) = Total(Lens(v, S))
<1>1. NFiles \in Nat
  BY ConstantsAssumption
<1>2. Lens(v, S) \in [1..NFiles -> Nat]
  BY DEF Lens, HasLens, Files
<1>3. DataBlocks(v, S) = Total(Lens(v, S))
  BY Zenon DEF DataBlocks, Lens
<1>4. QED
  BY <1>1, <1>2, <1>3

LEMMA DataBlocksType ==
  ASSUME NEW v, NEW S, HasLens(v)
  PROVE  DataBlocks(v, S) \in Nat
BY LensType, TotalType

LEMMA DataBlocksSame ==
  ASSUME NEW v, NEW w, NEW S, NEW U, \A f \in Files : f \in S <=> f \in U,
         \A f \in Files : f \in S => v.files[f].len = w.files[f].len
  PROVE  DataBlocks(v, S) = DataBlocks(w, U)
<1>1. \A f \in Files : (IF f \in S THEN v.files[f].len ELSE 0) = (IF f \in U THEN w.files[f].len ELSE 0)
  OBVIOUS
<1>2. Lens(v, S) = Lens(w, U)
  BY <1>1 DEF Lens
<1>3. QED
  BY <1>2, Zenon DEF DataBlocks, Lens

LEMMA DataBlocksAdd ==
  ASSUME NEW v, NEW S, NEW U, NEW f \in Files, HasLens(v), f \notin S,
         \A g \in Files : g \in U <=> g \in S \/ g = f
  PROVE  DataBlocks(v, U) = DataBlocks(v, S) + v.files[f].len
<1> DEFINE s == Lens(v, S)
           t == Lens(v, U)
<1>1. /\ s \in Seq(Nat) /\ t \in Seq(Nat) /\ Len(s) = NFiles /\ Len(t) = NFiles /\ NFiles \in Nat
      /\ DataBlocks(v, S) = Total(s) /\ DataBlocks(v, U) = Total(t)
  BY LensType
<1>2. f \in 1..Len(s) /\ s[f] = 0 /\ t[f] = v.files[f].len
  BY <1>1 DEF Lens, Files
<1>3. \A g \in 1..Len(s) : g # f => t[g] = s[g]
  <2>1. 1..Len(s) = Files
    BY <1>1 DEF Files
  <2>2. QED
    BY <2>1 DEF Lens
<1>4. Total(s) \in Nat /\ Total(t) \in Nat /\ v.files[f].len \in Nat
  BY <1>1, TotalType DEF HasLens
<1> HIDE DEF s, t
<1>5. Total(t) + s[f] = Total(s) + t[f]
  <2>1. ChangedIn(s, t, f)
    BY ONLY <1>1, <1>2, <1>3, TotalChange
  <2>2. QED
    BY ONLY <2>1 DEF ChangedIn
<1>6. QED
  BY <1>1, <1>2, <1>4, <1>5

LEMMA DataBlocksWithin ==
  ASSUME NEW v, NEW S, NEW U, HasLens(v), S \subseteq U
  PROVE  DataBlocks(v, S) <= DataBlocks(v, U)
<1> DEFINE s == Lens(v, S)
           t == Lens(v, U)
<1>1. /\ s \in Seq(Nat) /\ t \in Seq(Nat) /\ Len(s) = NFiles /\ Len(t) = NFiles /\ NFiles \in Nat
      /\ DataBlocks(v, S) = Total(s) /\ DataBlocks(v, U) = Total(t)
  BY LensType
<1>2. \A g \in 1..Len(s) : s[g] <= t[g]
  <2>1. 1..Len(s) = Files
    BY <1>1 DEF Files
  <2>2. QED
    BY <2>1 DEF Lens, HasLens
<1> HIDE DEF s, t
<1>3. QED
  BY <1>1, <1>2, TotalAtMost

\* Counting lists.
HasLists(lists, order, n) ==
  /\ n \in Nat /\ Len(order) \in Nat /\ n <= Len(order)
  /\ \A i \in 1..Len(order) : Len(lists[order[i]]) \in Nat
LEMMA CountNext ==
  ASSUME NEW lists, NEW order, NEW n, HasLists(lists, order, n), n < Len(order)
  PROVE  Count(lists, order, n + 1) = Count(lists, order, n) + Len(lists[order[n + 1]])
<1> USE DEF HasLists
<1> DEFINE s == [i \in 1..n |-> Len(lists[order[i]])]
           t == [i \in 1..(n + 1) |-> Len(lists[order[i]])]
<1>1. s \in Seq(Nat) /\ t \in Seq(Nat) /\ Len(lists[order[n + 1]]) \in Nat
  OBVIOUS
<1>2. t = Append(s, Len(lists[order[n + 1]]))
  OBVIOUS
<1>3. Count(lists, order, n) = Total(s) /\ Count(lists, order, n + 1) = Total(t)
  BY Zenon DEF Count
<1> HIDE DEF s, t
<1>4. QED
  BY <1>1, <1>2, <1>3, TotalAppend

LEMMA CountNone ==
  ASSUME NEW lists, NEW order
  PROVE  Count(lists, order, 0) = 0
<1>1. [i \in 1..0 |-> Len(lists[order[i]])] = <<>>
  OBVIOUS
<1>2. QED
  BY <1>1, TotalEmpty DEF Count

-----------------------------------------------------------------------------
(* InOrderOf.                                                               *)

UpToHere(S, n) == {m \in S : m <= n}
Rank(S, n) == Cardinality(UpToHere(S, n))
LEMMA RankType ==
  ASSUME NEW S \in SUBSET Int, IsFiniteSet(S), NEW n \in S
  PROVE  Rank(S, n) \in 1..Cardinality(S)
<1>1. UpToHere(S, n) \in SUBSET S /\ {n} \in SUBSET UpToHere(S, n)
  BY DEF UpToHere
<1>2. IsFiniteSet(UpToHere(S, n)) /\ Rank(S, n) <= Cardinality(S)
  BY <1>1, FS_Subset DEF Rank
<1>3. Cardinality({n}) <= Rank(S, n) /\ Cardinality({n}) = 1
  BY <1>1, <1>2, FS_Subset, FS_Singleton DEF Rank
<1>4. Cardinality(S) \in Nat /\ Rank(S, n) \in Nat
  BY <1>2, FS_CardinalityType DEF Rank
<1>5. QED
  BY <1>2, <1>3, <1>4

LEMMA RankUp ==
  ASSUME NEW S \in SUBSET Int, IsFiniteSet(S), NEW a \in S, NEW b \in S, a < b
  PROVE  Rank(S, a) < Rank(S, b)
<1> DEFINE A == UpToHere(S, a)
           B == UpToHere(S, b)
<1>0. a \in Int /\ b \in Int /\ \A m \in S : m \in Int
  OBVIOUS
<1>1. A \in SUBSET B /\ b \in B /\ b \notin A /\ B \in SUBSET S
  <2>1. \A m \in S : m <= a => m <= b
    BY <1>0
  <2>2. b <= b /\ ~(b <= a)
    BY <1>0
  <2>3. QED
    BY <2>1, <2>2 DEF UpToHere
<1>2. IsFiniteSet(B)
  BY <1>1, FS_Subset
<1>3. IsFiniteSet(A) /\ Cardinality(A) <= Cardinality(B) /\ Cardinality(A) # Cardinality(B)
  BY <1>1, <1>2, FS_Subset
<1>4. Cardinality(A) \in Nat /\ Cardinality(B) \in Nat
  BY <1>2, <1>3, FS_CardinalityType
<1>5. QED
  BY <1>3, <1>4 DEF Rank

LEMMA RankOne ==
  ASSUME NEW S \in SUBSET Int, IsFiniteSet(S), NEW a \in S, NEW b \in S, Rank(S, a) = Rank(S, b)
  PROVE  a = b
<1>1. Rank(S, a) \in Int /\ Rank(S, b) \in Int
  BY RankType, FS_CardinalityType
<1>2. ~(a < b) /\ ~(b < a)
  BY <1>1, RankUp
<1>3. a \in Int /\ b \in Int
  OBVIOUS
<1>4. QED
  BY <1>2, <1>3

LEMMA RankOnto ==
  ASSUME NEW S \in SUBSET Int, IsFiniteSet(S), NEW i \in 1..Cardinality(S)
  PROVE  \E n \in S : Rank(S, n) = i
<1> DEFINE c == Cardinality(S)
           r == [n \in S |-> Rank(S, n)]
<1>1. c \in Nat
  BY FS_CardinalityType
<1>2. r \in [S -> 1..c]
  BY RankType
<1>3. \A a, b \in S : r[a] = r[b] => a = b
  BY RankOne
<1>4. r \in Injection(S, 1..c)
  BY <1>2, <1>3 DEF Injection, IsInjective
<1>5. IsFiniteSet(1..c) /\ Cardinality(1..c) = c
  BY <1>1, FS_Interval
<1>6. r \in Surjection(S, 1..c)
  BY <1>4, <1>5, FS_Injection
<1>7. \E n \in S : r[n] = i
  BY <1>6 DEF Surjection
<1>8. QED
  BY <1>7

\* All of them, each at its rank.
LEMMA Ordered ==
  ASSUME NEW S \in SUBSET Int, IsFiniteSet(S)
  PROVE  /\ InOrderOf(S) \in Seq(S) /\ Len(InOrderOf(S)) = Cardinality(S) /\ Cardinality(S) \in Nat
         /\ \A i \in 1..Cardinality(S) : InOrderOf(S)[i] \in S /\ Rank(S, InOrderOf(S)[i]) = i
         /\ \A n \in S : Rank(S, n) \in 1..Cardinality(S) /\ InOrderOf(S)[Rank(S, n)] = n
<1> DEFINE c == Cardinality(S)
           s == InOrderOf(S)
<1>1. c \in Nat
  BY FS_CardinalityType
<1>2. s = [i \in 1..c |-> CHOOSE n \in S : Rank(S, n) = i]
  BY DEF InOrderOf, Rank, UpToHere
<1> HIDE DEF s
<1>3. \A i \in 1..c : s[i] \in S /\ Rank(S, s[i]) = i
  BY <1>2, RankOnto
<1>4. s \in Seq(S) /\ Len(s) = c
  BY <1>1, <1>2, <1>3
<1>5. ASSUME NEW n \in S PROVE Rank(S, n) \in 1..c /\ s[Rank(S, n)] = n
  <2>1. Rank(S, n) \in 1..c
    BY RankType
  <2>2. s[Rank(S, n)] \in S /\ Rank(S, s[Rank(S, n)]) = Rank(S, n)
    BY <1>3, <2>1
  <2>3. s[Rank(S, n)] = n
    <3>1. PICK m : m = s[Rank(S, n)]
      OBVIOUS
    <3>2. m \in S /\ Rank(S, m) = Rank(S, n)
      BY <2>2, <3>1
    <3>3. m = n
      BY <3>2, RankOne
    <3>4. QED
      BY <3>1, <3>3
  <2>4. QED
    BY <2>1, <2>3
<1>6. QED
  BY <1>1, <1>3, <1>4, <1>5 DEF s

\* An interval in order.
LEMMA InOrderInterval ==
  ASSUME NEW a \in Int, NEW n \in Nat
  PROVE  InOrderOf(a..(a + n - 1)) = [i \in 1..n |-> a + i - 1]
<1> DEFINE S == a..(a + n - 1)
           s == InOrderOf(S)
<1>1. S \in SUBSET Int /\ IsFiniteSet(S) /\ Cardinality(S) = n
  BY FS_Interval
<1>2. ASSUME NEW x \in S PROVE Rank(S, x) = x - a + 1
  <2>1. UpToHere(S, x) = a..x
    BY DEF UpToHere
  <2>2. QED
    BY <2>1, FS_Interval DEF Rank
<1>3. /\ s \in Seq(S) /\ Len(s) = n
      /\ \A i \in 1..n : s[i] \in S /\ Rank(S, s[i]) = i
  BY <1>1, Ordered
<1>4. \A i \in 1..n : s[i] = a + i - 1
  <2> TAKE i \in 1..n
  <2>1. s[i] \in S /\ s[i] - a + 1 = i
    BY <1>2, <1>3
  <2>2. QED
    BY <2>1
<1> HIDE DEF s
<1>5. s = [i \in 1..n |-> a + i - 1]
  BY <1>3, <1>4
<1>6. QED
  BY <1>5 DEF s

LEMMA InOrderNone ==
  InOrderOf({}) = <<>>
BY FS_EmptySet DEF InOrderOf

LEMMA InOrderOne ==
  ASSUME NEW a \in Int
  PROVE  InOrderOf({a}) = <<a>>
<1>1. InOrderOf(a..(a + 1 - 1)) = [i \in 1..1 |-> a + i - 1]
  BY InOrderInterval
<1>2. a..(a + 1 - 1) = {a} /\ [i \in 1..1 |-> a + i - 1] = <<a>>
  OBVIOUS
<1>3. QED
  BY <1>1, <1>2

LEMMA InOrderTwo ==
  ASSUME NEW a \in Int, NEW b \in Int, a < b
  PROVE  InOrderOf({a, b}) = <<a, b>>
<1> DEFINE S == {a, b}
           s == InOrderOf(S)
<1>0. a # b /\ a <= b /\ ~(b <= a) /\ a <= a
  OBVIOUS
<1>1. S \in SUBSET Int /\ IsFiniteSet({a}) /\ Cardinality({a}) = 1 /\ b \notin {a} /\ S = {a} \cup {b}
  BY <1>0, FS_Singleton
<1>2. IsFiniteSet(S) /\ Cardinality(S) = 2
  BY <1>1, FS_AddElement
<1>3. Rank(S, a) = 1
  <2>1. UpToHere(S, a) = {a}
    BY <1>0 DEF UpToHere
  <2>2. QED
    BY <1>1, <2>1 DEF Rank
<1>4. Rank(S, b) = 2
  <2>1. UpToHere(S, b) = S
    BY <1>0 DEF UpToHere
  <2>2. QED
    BY <1>2, <2>1 DEF Rank
<1>5. Len(s) = 2 /\ s[1] = a /\ s[2] = b /\ s \in Seq(S)
  BY <1>1, <1>2, <1>3, <1>4, Ordered
<1> HIDE DEF s
<1>6. s = <<a, b>>
  BY <1>5
<1>7. QED
  BY <1>6 DEF s

-----------------------------------------------------------------------------
(* Where everything is, as the walk has it: a header, the UDF part, path    *)
(* tables, root directories, entries besides them, the catalog and data.    *)

TreeStart(v) == IF v.udf THEN UdfEnd(v) ELSE HeaderEnd(v)
IsoAt(v) == TreeStart(v) + 2 * v.tables + 2 * v.jtables
UsedBlocks(v) == {v.files[f].ce : f \in InTree(v, "iso")} \ {"none"}
JolietAt(v) == IsoAt(v) + 1 + Cardinality(UsedBlocks(v))
ErAt(v) == JolietAt(v) + (IF v.joliet THEN 1 ELSE 0)
CatalogAt(v) == ErAt(v) + (IF v.rr THEN 1 ELSE 0)
DataAt(v) == CatalogAt(v) + (IF v.catalog THEN 1 ELSE 0)
EndAt(v) == DataAt(v) + DataBlocks(v, Stored(v))
RootAt == PartStart + 2
EntriesAt(v) == RootAt + 2 + (IF v.catalog THEN 1 ELSE 0)

-----------------------------------------------------------------------------
(* The volumes that the library makes, whatever the calls, and reads again. *)

\* A descriptor of the library, before it is written or after it was read.
OwnBody(k, start, length, integrity) ==
  CASE k = 1 -> NewPVD [] k = 4 -> NewImplUse [] k = 7 -> NewUnallocated [] k = 8 -> NewTerminator
    [] k = 5 -> [NewPartition EXCEPT !.start = start, !.length = length]
    [] k = 6 -> [NewLogicalVolume EXCEPT !.integrity.location = integrity]
OwnTag(tag, ident) ==
  /\ tag = [ident |-> ident, version |-> 2, serial |-> 0, loc |-> tag.loc, crcLen |-> tag.crcLen]
  /\ tag.loc \in Int /\ tag.crcLen \in {-1, BodyLength}
OwnDesc(m, ident, body) ==
  /\ m = [tag |-> m.tag, body |-> body, extent |-> m.extent]
  /\ OwnTag(m.tag, ident) /\ m.extent \in Int
Singles == {1, 4, 5, 6, 7, 8}
OwnSequence(s, start, length, integrity) ==
  /\ s = [k \in Singles \cup {3} |-> IF k = 3 THEN <<>> ELSE <<s[k][1]>>]
  /\ \A k \in Singles : OwnDesc(s[k][1], k, OwnBody(k, start, length, integrity))

Integrity(unique, size, files) ==
  [NewIntegrity EXCEPT !.unique = unique, !.sizes = <<size>>, !.use.files = files]
Anchor(main, reserve) ==
  [NewAnchor EXCEPT !.main.location = main, !.reserve.location = reserve]

OwnUdf(v) ==
  /\ \E start, integrity \in Int :
       \A s \in {v.main, v.reserve} : OwnSequence(s, start, EndAt(v) - PartStart, integrity)
  /\ v.lvid = <<v.lvid[1]>> /\ v.lvidEnd = <<v.lvidEnd[1]>>
  /\ \E unique, files \in Int : OwnDesc(v.lvid[1], 9, Integrity(unique, EndAt(v) - PartStart, files))
  /\ OwnDesc(v.lvidEnd[1], 8, NewTerminator)
  /\ v.anchors = <<v.anchors[1], v.anchors[2]>>
  /\ \A i \in 1..2 : \E main, reserve \in Int : OwnDesc(v.anchors[i], 2, Anchor(main, reserve))
  /\ v.set = <<v.set[1]>> /\ v.setEnd = <<v.setEnd[1]>>
  /\ OwnDesc(v.set[1], 256, NewFileSet) /\ v.set[1].tag.loc = 0
  /\ OwnDesc(v.setEnd[1], 8, NewTerminator)
NoUdf(v) ==
  /\ v.main = NoSequence /\ v.reserve = NoSequence /\ v.lvid = <<>> /\ v.lvidEnd = <<>>
  /\ v.anchors = <<>> /\ v.set = <<>> /\ v.setEnd = <<>>

\* How many there are of each kind in the header, but for the primary ones.
One(b) == IF b THEN 1 ELSE 0
HeaderCount(v, k) ==
  CASE k = "br" -> One(v.catalog) [] k = "svd" -> One(v.joliet) [] k \in {"vdst", "version"} -> 1
    [] k \in {"bea", "nsr", "tea"} -> One(v.udf) [] k = "boot" -> 0
OwnHead(v) ==
  /\ DOMAIN v.head = HeaderNames
  /\ \A k \in HeaderNames :
       /\ Len(v.head[k]) \in Nat
       /\ k # "pvd" => Len(v.head[k]) = HeaderCount(v, k)
       /\ v.head[k] = [i \in 1..Len(v.head[k]) |->
                        [extent |-> v.head[k][i].extent, is |-> v.head[k][i].is]]
       /\ \A i \in 1..Len(v.head[k]) : v.head[k][i].extent \in Int
  /\ Len(v.head["pvd"]) >= 1 /\ (v.udf => Len(v.head["pvd"]) = 1)
  /\ v.head["version"][1].is = Zero
  /\ v.udf => /\ v.head["bea"][1].is = [k |-> "vs", s |-> NewBEA]
              /\ v.head["nsr"][1].is = [k |-> "vs", s |-> NewNSR]
              /\ v.head["tea"][1].is = [k |-> "vs", s |-> NewTEA]

OwnFile(v, f) ==
  LET x == v.files[f]
  IN /\ DOMAIN x = DOMAIN NoFile
     /\ x.in \subseteq TreesOf(v) /\ x.len \in Nat /\ x.ext \in Int /\ x.fe \in Int
     /\ x.ce \in {"none", "own"} /\ (x.ce = "own" => v.rr /\ "iso" \in x.in)
     /\ x.data = [i \in 1..x.len |-> x.data[i]] /\ x.bytes = [u \in x.in |-> x.bytes[u]]
     /\ x.in = {} => x.len = 0
OwnFiles(v) ==
  /\ v.files = [f \in Files |-> v.files[f]]
  /\ \A f \in Files : OwnFile(v, f)
  /\ \A f, g \in Present(v) : v.files[f].len = 0 /\ v.files[g].len = 0 => f = g
  /\ v.boot \subseteq {f \in InTree(v, "iso") : v.files[f].len > 0}
  /\ v.boot # {} => v.catalog
  /\ v.shared \subseteq {f \in Present(v) : v.files[f].len = 0}
  /\ v.blocks \ {"er"} = UsedBlocks(v)
  /\ "er" \in v.blocks => v.rr

Own(v) ==
  /\ DOMAIN v = DOMAIN NoVolume
  /\ {v.udf, v.joliet, v.rr, v.catalog, v.pending} \subseteq BOOLEAN
  /\ v.tables = 2 /\ v.jtables = IF v.joliet THEN 2 ELSE 0
  /\ DOMAIN v.at = DOMAIN NoPlaces
  /\ OwnHead(v) /\ OwnFiles(v)
  /\ IF v.udf THEN OwnUdf(v) ELSE NoUdf(v)
  /\ v.space = EndAt(v) + One(v.udf)

OwnRest(v) ==
  /\ DOMAIN v = DOMAIN NoVolume
  /\ {v.udf, v.joliet, v.rr, v.catalog, v.pending} \subseteq BOOLEAN
  /\ v.tables = 2 /\ v.jtables = IF v.joliet THEN 2 ELSE 0
  /\ DOMAIN v.at = DOMAIN NoPlaces
  /\ OwnHead(v) /\ OwnFiles(v)
\* What the places depend on.
Sound(v) == OwnRest(v) /\ (v.udf => Len(v.setEnd) = 1)

\* Everything is where the walk puts it.
PlacedAt(m, extent, loc) == m.extent = extent /\ m.tag.loc = loc
SequenceIs(s, from, v) ==
  /\ OwnSequence(s, PartStart, EndAt(v) - PartStart, 64)
  /\ \A k \in Singles :
       LET e == from + IF k = 1 THEN 0 ELSE k - 3 IN PlacedAt(s[k][1], e, e)
UdfPlaced(v) ==
  /\ SequenceIs(v.main, 32, v) /\ SequenceIs(v.reserve, 48, v)
  /\ PlacedAt(v.lvid[1], 64, 64) /\ PlacedAt(v.lvidEnd[1], 65, 65)
  /\ PlacedAt(v.anchors[1], 256, 256) /\ PlacedAt(v.anchors[2], EndAt(v), EndAt(v))
  /\ v.anchors[1].body = Anchor(32, 48) /\ v.anchors[2].body = Anchor(32, 48)
  /\ PlacedAt(v.set[1], PartStart, 0) /\ PlacedAt(v.setEnd[1], PartStart + 1, 1)
  /\ v.at.root = RootAt /\ v.at.idents = RootAt + 1
  /\ v.catalog => v.at.catalogFe = RootAt + 2
HeaderAt(v, k) ==
  16 + CASE k = "pvd" -> 0
         [] k = "br" -> Len(v.head["pvd"])
         [] k = "svd" -> Len(v.head["pvd"]) + One(v.catalog)
         [] k = "vdst" -> Len(v.head["pvd"]) + One(v.catalog) + One(v.joliet)
         [] k \in {"bea", "boot"} -> Len(v.head["pvd"]) + One(v.catalog) + One(v.joliet) + 1
         [] k = "nsr" -> Len(v.head["pvd"]) + One(v.catalog) + One(v.joliet) + 1 + One(v.udf)
         [] k = "tea" -> Len(v.head["pvd"]) + One(v.catalog) + One(v.joliet) + 1 + 2 * One(v.udf)
         [] k = "version" -> Len(v.head["pvd"]) + One(v.catalog) + One(v.joliet) + 1 + 3 * One(v.udf)
DataAtOf(v, f) == IF f \in Stored(v) THEN DataAt(v) + DataBlocks(v, Earlier(v, f)) ELSE 0
EntryAtOf(v, f) == EntriesAt(v) + Cardinality({g \in EntryFiles(v) : g < EntryOf(v, f)})
Placed(v) ==
  /\ \A k \in HeaderNames : \A i \in 1..Len(v.head[k]) : v.head[k][i].extent = HeaderAt(v, k) + i - 1
  /\ v.udf => UdfPlaced(v)
  /\ v.at.le = TreeStart(v) /\ v.at.be = TreeStart(v) + 2 /\ v.at.iso = IsoAt(v)
  /\ v.joliet => /\ v.at.jle = TreeStart(v) + 4 /\ v.at.jbe = TreeStart(v) + 6
                 /\ v.at.joliet = JolietAt(v)
  /\ v.rr => v.at.er = ErAt(v)
  /\ v.catalog => v.at.catalog = CatalogAt(v)
  /\ UsedBlocks(v) # {} => v.at.ce = IsoAt(v) + 1
  /\ \A f \in Present(v) : v.files[f].ext = DataAtOf(v, f)
  /\ \A f \in InTree(v, "udf") : v.files[f].fe = EntryAtOf(v, f)

\* It holds what is asked for.
Says(v, t) ==
  \A f \in Files : /\ v.files[f].in = t[f].in /\ v.files[f].len = t[f].len
                   /\ v.files[f].data = [i \in 1..t[f].len |-> Data(f, t[f].ver, i)]
                   /\ v.files[f].bytes = [u \in t[f].in |-> Bytes(t[f].len, t[f].ver)]

Laid(v) == Own(v) /\ Placed(v)
-----------------------------------------------------------------------------
(* The header, and the descriptors of a sequence, one after the other.      *)

LEMMA Names ==
  /\ HeaderNames = {"pvd", "br", "svd", "vdst", "bea", "boot", "nsr", "tea", "version"}
  /\ Len(HeaderOrder) = 9
  /\ HeaderOrder[1] = "pvd" /\ HeaderOrder[2] = "br" /\ HeaderOrder[3] = "svd"
  /\ HeaderOrder[4] = "vdst" /\ HeaderOrder[5] = "bea" /\ HeaderOrder[6] = "boot"
  /\ HeaderOrder[7] = "nsr" /\ HeaderOrder[8] = "tea" /\ HeaderOrder[9] = "version"
<1>1. /\ Len(HeaderOrder) = 9
      /\ HeaderOrder[1] = "pvd" /\ HeaderOrder[2] = "br" /\ HeaderOrder[3] = "svd"
      /\ HeaderOrder[4] = "vdst" /\ HeaderOrder[5] = "bea" /\ HeaderOrder[6] = "boot"
      /\ HeaderOrder[7] = "nsr" /\ HeaderOrder[8] = "tea" /\ HeaderOrder[9] = "version"
  BY DEF HeaderOrder
<1>2. HeaderNames = {HeaderOrder[i] : i \in 1..9}
  BY <1>1 DEF HeaderNames, ToSet, HeaderOrder
<1>3. 1..9 = {1, 2, 3, 4, 5, 6, 7, 8, 9}
  OBVIOUS
<1>4. HeaderNames = {HeaderOrder[1], HeaderOrder[2], HeaderOrder[3], HeaderOrder[4], HeaderOrder[5],
                     HeaderOrder[6], HeaderOrder[7], HeaderOrder[8], HeaderOrder[9]}
  BY <1>2, <1>3
<1>5. QED
  BY <1>1, <1>4

HeadLens(head, p, b, s, v, u, w) ==
  /\ Len(head["pvd"]) = p /\ Len(head["br"]) = b /\ Len(head["svd"]) = s /\ Len(head["vdst"]) = v
  /\ Len(head["bea"]) = u /\ Len(head["boot"]) = 0 /\ Len(head["nsr"]) = u /\ Len(head["tea"]) = u
  /\ Len(head["version"]) = w
HeadCounted(head, p, b, s, v, u, w) ==
  /\ Before(head, HeaderOrder, "pvd") = 0 /\ Before(head, HeaderOrder, "br") = p
  /\ Before(head, HeaderOrder, "svd") = p + b /\ Before(head, HeaderOrder, "vdst") = p + b + s
  /\ Before(head, HeaderOrder, "bea") = p + b + s + v
  /\ Before(head, HeaderOrder, "boot") = p + b + s + v + u
  /\ Before(head, HeaderOrder, "nsr") = p + b + s + v + u
  /\ Before(head, HeaderOrder, "tea") = p + b + s + v + 2 * u
  /\ Before(head, HeaderOrder, "version") = p + b + s + v + 3 * u
  /\ Count(head, HeaderOrder, Len(HeaderOrder)) = p + b + s + v + 3 * u + w
LEMMA HeadCounts ==
  ASSUME NEW head, NEW p \in Nat, NEW b \in Nat, NEW s \in Nat, NEW v \in Nat, NEW u \in Nat,
         NEW w \in Nat, HeadLens(head, p, b, s, v, u, w)
  PROVE  HeadCounted(head, p, b, s, v, u, w)
<1> DEFINE C(n) == Count(head, HeaderOrder, n)
<1>0. 1..9 = {1, 2, 3, 4, 5, 6, 7, 8, 9}
  OBVIOUS
<1>1. \A n \in 0..9 : HasLists(head, HeaderOrder, n)
  <2>1. \A i \in {1, 2, 3, 4, 5, 6, 7, 8, 9} : Len(head[HeaderOrder[i]]) \in Nat
    BY Names DEF HeadLens
  <2>2. QED
    BY <1>0, <2>1, Names DEF HasLists
<1>2. C(0) = 0
  BY CountNone
<1>3. \A n \in 0..8 : C(n + 1) = C(n) + Len(head[HeaderOrder[n + 1]])
  <2> TAKE n \in 0..8
  <2>1. HasLists(head, HeaderOrder, n) /\ n < Len(HeaderOrder)
    BY <1>1, Names
  <2>2. QED
    BY <2>1, CountNext, Zenon
<1>4. /\ C(1) = C(0) + p /\ C(2) = C(1) + b /\ C(3) = C(2) + s /\ C(4) = C(3) + v /\ C(5) = C(4) + u
      /\ C(6) = C(5) + 0 /\ C(7) = C(6) + u /\ C(8) = C(7) + u /\ C(9) = C(8) + w
  <2> HIDE DEF C
  <2>1. C(1) = C(0) + Len(head["pvd"])
    BY ONLY <1>3, 0 \in 0..8, 0 + 1 = 1, Names
  <2>2. C(2) = C(1) + Len(head["br"])
    BY ONLY <1>3, 1 \in 0..8, 1 + 1 = 2, Names
  <2>3. C(3) = C(2) + Len(head["svd"])
    BY ONLY <1>3, 2 \in 0..8, 2 + 1 = 3, Names
  <2>4. C(4) = C(3) + Len(head["vdst"])
    BY ONLY <1>3, 3 \in 0..8, 3 + 1 = 4, Names
  <2>5. C(5) = C(4) + Len(head["bea"])
    BY ONLY <1>3, 4 \in 0..8, 4 + 1 = 5, Names
  <2>6. C(6) = C(5) + Len(head["boot"])
    BY ONLY <1>3, 5 \in 0..8, 5 + 1 = 6, Names
  <2>7. C(7) = C(6) + Len(head["nsr"])
    BY ONLY <1>3, 6 \in 0..8, 6 + 1 = 7, Names
  <2>8. C(8) = C(7) + Len(head["tea"])
    BY ONLY <1>3, 7 \in 0..8, 7 + 1 = 8, Names
  <2>9. C(9) = C(8) + Len(head["version"])
    BY ONLY <1>3, 8 \in 0..8, 8 + 1 = 9, Names
  <2>10. QED
    BY <2>1, <2>2, <2>3, <2>4, <2>5, <2>6, <2>7, <2>8, <2>9, Zenon DEF HeadLens
<1>5. \A i \in 1..9 : Before(head, HeaderOrder, HeaderOrder[i]) = C(i - 1)
  <2> TAKE i \in 1..9
  <2>1. \A j \in 1..9 : HeaderOrder[j] = HeaderOrder[i] => j = i
    BY ONLY <1>0, Names, i \in 1..9
  <2>2. (CHOOSE j \in 1..9 : HeaderOrder[j] = HeaderOrder[i]) = i
    BY <2>1
  <2>3. QED
    BY <2>2, Names DEF Before
<1> HIDE DEF C
<1>6. /\ C(1) = p /\ C(2) = p + b /\ C(3) = p + b + s /\ C(4) = p + b + s + v
      /\ C(5) = p + b + s + v + u /\ C(6) = p + b + s + v + u /\ C(7) = p + b + s + v + 2 * u
      /\ C(8) = p + b + s + v + 3 * u /\ C(9) = p + b + s + v + 3 * u + w
  <2>1. C(1) = p
    BY ONLY <1>2, <1>4, p \in Nat
  <2>2. C(2) = p + b
    BY ONLY <2>1, <1>4
  <2>3. C(3) = p + b + s
    BY ONLY <2>2, <1>4
  <2>4. C(4) = p + b + s + v
    BY ONLY <2>3, <1>4
  <2>5. C(5) = p + b + s + v + u
    BY ONLY <2>4, <1>4
  <2>6. C(6) = p + b + s + v + u
    BY ONLY <2>5, <1>4, p \in Nat, b \in Nat, s \in Nat, v \in Nat, u \in Nat
  <2>7. C(7) = p + b + s + v + 2 * u
    BY ONLY <2>6, <1>4, p \in Nat, b \in Nat, s \in Nat, v \in Nat, u \in Nat
  <2>8. C(8) = p + b + s + v + 3 * u
    BY ONLY <2>7, <1>4, p \in Nat, b \in Nat, s \in Nat, v \in Nat, u \in Nat
  <2>9. C(9) = p + b + s + v + 3 * u + w
    BY ONLY <2>8, <1>4, p \in Nat, b \in Nat, s \in Nat, v \in Nat, u \in Nat
  <2>10. QED
    BY ONLY <2>1, <2>2, <2>3, <2>4, <2>5, <2>6, <2>7, <2>8, <2>9
<1>7. \A i \in 1..9 : HeaderOrder[i] = HeaderOrder[i] /\ Before(head, HeaderOrder, HeaderOrder[i]) = C(i - 1)
  BY <1>5
<1>8. /\ Before(head, HeaderOrder, HeaderOrder[1]) = C(0) /\ Before(head, HeaderOrder, HeaderOrder[2]) = C(1)
      /\ Before(head, HeaderOrder, HeaderOrder[3]) = C(2) /\ Before(head, HeaderOrder, HeaderOrder[4]) = C(3)
      /\ Before(head, HeaderOrder, HeaderOrder[5]) = C(4) /\ Before(head, HeaderOrder, HeaderOrder[6]) = C(5)
      /\ Before(head, HeaderOrder, HeaderOrder[7]) = C(6) /\ Before(head, HeaderOrder, HeaderOrder[8]) = C(7)
      /\ Before(head, HeaderOrder, HeaderOrder[9]) = C(8)
  <2>1. 1 - 1 = 0 /\ 2 - 1 = 1 /\ 3 - 1 = 2 /\ 4 - 1 = 3 /\ 5 - 1 = 4 /\ 6 - 1 = 5 /\ 7 - 1 = 6
        /\ 8 - 1 = 7 /\ 9 - 1 = 8
    OBVIOUS
  <2>2. \A i \in {1, 2, 3, 4, 5, 6, 7, 8, 9} : Before(head, HeaderOrder, HeaderOrder[i]) = C(i - 1)
    BY <1>5
  <2>3. QED
    BY ONLY <2>1, <2>2
<1>9. Count(head, HeaderOrder, Len(HeaderOrder)) = C(9)
  BY Names DEF C
<1>10. QED
  BY ONLY <1>2, <1>6, <1>8, <1>9, Names DEF HeadCounted

LEMMA SoundHeadLens ==
  ASSUME NEW v, Sound(v)
  PROVE  /\ HeadLens(v.head, Len(v.head["pvd"]), One(v.catalog), One(v.joliet), 1, One(v.udf), 1)
         /\ Len(v.head["pvd"]) \in Nat /\ Len(v.head["pvd"]) >= 1
         /\ One(v.catalog) \in 0..1 /\ One(v.joliet) \in 0..1 /\ One(v.udf) \in 0..1 /\ One(v.rr) \in 0..1
<1>1. /\ \A k \in HeaderNames : k # "pvd" => Len(v.head[k]) = HeaderCount(v, k)
      /\ \A k \in HeaderNames : Len(v.head[k]) \in Nat
      /\ Len(v.head["pvd"]) >= 1
  <2>1. OwnHead(v)
    BY Zenon DEF Sound, OwnRest
  <2>2. QED
    BY <2>1 DEF OwnHead
<1>2. {v.udf, v.joliet, v.rr, v.catalog} \subseteq BOOLEAN
  BY Zenon DEF Sound, OwnRest
<1>3. One(v.catalog) \in 0..1 /\ One(v.joliet) \in 0..1 /\ One(v.udf) \in 0..1 /\ One(v.rr) \in 0..1
  BY DEF One
<1>4. /\ HeaderCount(v, "br") = One(v.catalog) /\ HeaderCount(v, "svd") = One(v.joliet)
      /\ HeaderCount(v, "vdst") = 1 /\ HeaderCount(v, "version") = 1 /\ HeaderCount(v, "bea") = One(v.udf)
      /\ HeaderCount(v, "nsr") = One(v.udf) /\ HeaderCount(v, "tea") = One(v.udf) /\ HeaderCount(v, "boot") = 0
  BY DEF HeaderCount
<1>5. QED
  BY <1>1, <1>3, <1>4, Names DEF HeadLens

LEMMA SoundHeadPlaces ==
  ASSUME NEW v, Sound(v)
  PROVE  /\ \A k \in HeaderNames : k # "boot" => 16 + Before(v.head, HeaderOrder, k) = HeaderAt(v, k)
         /\ HeaderEnd(v) = HeaderAt(v, "version") + 1
         /\ HeaderAt(v, "version") \in Nat
<1> DEFINE p == Len(v.head["pvd"])
           b == One(v.catalog)
           s == One(v.joliet)
           u == One(v.udf)
<1>1. HeadLens(v.head, p, b, s, 1, u, 1) /\ p \in Nat /\ b \in Nat /\ s \in Nat /\ u \in Nat
  BY SoundHeadLens
<1>2. /\ HeaderAt(v, "pvd") = 16 + 0 /\ HeaderAt(v, "br") = 16 + p
      /\ HeaderAt(v, "svd") = 16 + (p + b) /\ HeaderAt(v, "vdst") = 16 + (p + b + s)
      /\ HeaderAt(v, "bea") = 16 + (p + b + s + 1) /\ HeaderAt(v, "boot") = 16 + (p + b + s + 1)
      /\ HeaderAt(v, "nsr") = 16 + (p + b + s + 1 + u) /\ HeaderAt(v, "tea") = 16 + (p + b + s + 1 + 2 * u)
      /\ HeaderAt(v, "version") = 16 + (p + b + s + 1 + 3 * u)
  BY DEF HeaderAt
<1> HIDE DEF p, b, s, u
<1>3. /\ Before(v.head, HeaderOrder, "pvd") = 0 /\ Before(v.head, HeaderOrder, "br") = p
      /\ Before(v.head, HeaderOrder, "svd") = p + b /\ Before(v.head, HeaderOrder, "vdst") = p + b + s
      /\ Before(v.head, HeaderOrder, "bea") = p + b + s + 1
      /\ Before(v.head, HeaderOrder, "boot") = p + b + s + 1 + u
      /\ Before(v.head, HeaderOrder, "nsr") = p + b + s + 1 + u
      /\ Before(v.head, HeaderOrder, "tea") = p + b + s + 1 + 2 * u
      /\ Before(v.head, HeaderOrder, "version") = p + b + s + 1 + 3 * u
      /\ Count(v.head, HeaderOrder, Len(HeaderOrder)) = p + b + s + 1 + 3 * u + 1
  <2>1. 1 \in Nat
    OBVIOUS
  <2>2. HeadCounted(v.head, p, b, s, 1, u, 1)
    BY ONLY <1>1, HeadCounts, <2>1, Zenon
  <2>3. QED
    BY ONLY <2>2 DEF HeadCounted
<1>4. HeaderEnd(v) = HeaderAt(v, "version") + 1 /\ HeaderAt(v, "version") \in Nat
  <2>1. HeaderEnd(v) = 16 + (p + b + s + 1 + 3 * u + 1)
    BY ONLY <1>3 DEF HeaderEnd
  <2>2. HeaderAt(v, "version") = 16 + (p + b + s + 1 + 3 * u)
    BY ONLY <1>2
  <2>3. 3 * u \in Nat
    BY <1>1
  <2>4. \A x \in Nat : 16 + (p + b + s + 1 + x + 1) = 16 + (p + b + s + 1 + x) + 1 /\ 16 + (p + b + s + 1 + x) \in Nat
    BY <1>1
  <2>5. QED
    BY ONLY <2>1, <2>2, <2>3, <2>4
<1>5. \A k \in HeaderNames : k # "boot" => 16 + Before(v.head, HeaderOrder, k) = HeaderAt(v, k)
  BY <1>1, <1>2, <1>3, Names
<1>6. QED
  BY <1>4, <1>5

LEMMA OwnSound ==
  ASSUME NEW v, Own(v)
  PROVE  Sound(v)
<1>1. OwnRest(v) /\ (v.udf => OwnUdf(v))
  BY DEF Own, OwnRest
<1>2. \A x : Len(<<x>>) = 1
  OBVIOUS
<1>3. v.udf => v.setEnd = <<v.setEnd[1]>>
  BY <1>1, Zenon DEF OwnUdf
<1>4. v.udf => Len(v.setEnd) = 1
  BY <1>2, <1>3, Zenon
<1>5. QED
  BY <1>1, <1>4 DEF Sound

LEMMA OwnHeadLens ==
  ASSUME NEW v, Own(v)
  PROVE  /\ HeadLens(v.head, Len(v.head["pvd"]), One(v.catalog), One(v.joliet), 1, One(v.udf), 1)
         /\ Len(v.head["pvd"]) \in Nat /\ Len(v.head["pvd"]) >= 1
         /\ One(v.catalog) \in 0..1 /\ One(v.joliet) \in 0..1 /\ One(v.udf) \in 0..1 /\ One(v.rr) \in 0..1
BY OwnSound, SoundHeadLens

LEMMA OwnHeadPlaces ==
  ASSUME NEW v, Own(v)
  PROVE  /\ \A k \in HeaderNames : k # "boot" => 16 + Before(v.head, HeaderOrder, k) = HeaderAt(v, k)
         /\ HeaderEnd(v) = HeaderAt(v, "version") + 1
         /\ HeaderAt(v, "version") \in Nat
BY OwnSound, SoundHeadPlaces
-----------------------------------------------------------------------------
(* What the places depend on, and how they follow each other.               *)

OneShared(v) == \A f, g \in v.shared : f = g
LEMMA OwnHas ==
  ASSUME NEW v, Own(v)
  PROVE  /\ DOMAIN v = DOMAIN NoVolume
         /\ v.udf \in BOOLEAN /\ v.joliet \in BOOLEAN /\ v.rr \in BOOLEAN /\ v.catalog \in BOOLEAN
         /\ v.pending \in BOOLEAN
         /\ v.tables = 2 /\ v.jtables = (IF v.joliet THEN 2 ELSE 0) /\ DOMAIN v.at = DOMAIN NoPlaces
         /\ OwnHead(v) /\ OwnFiles(v) /\ (v.udf => OwnUdf(v)) /\ (~v.udf => NoUdf(v))
         /\ v.space = EndAt(v) + One(v.udf)
BY DEF Own

LEMMA FilesFinite ==
  /\ NFiles \in Nat /\ IsFiniteSet(Files) /\ Files \in SUBSET Nat /\ Files \in SUBSET Int
  /\ \A S \in SUBSET Files : IsFiniteSet(S) /\ S \in SUBSET Int /\ Cardinality(S) \in Nat
<1>1. NFiles \in Nat
  BY ConstantsAssumption
<1>2. IsFiniteSet(Files) /\ Files \in SUBSET Nat /\ Files \in SUBSET Int
  BY <1>1, FS_Interval DEF Files
<1>3. \A S \in SUBSET Files : IsFiniteSet(S) /\ Cardinality(S) \in Nat
  BY <1>2, FS_Subset, FS_CardinalityType
<1>4. QED
  BY <1>1, <1>2, <1>3

LEMMA OwnFilesHave ==
  ASSUME NEW v, OwnFiles(v)
  PROVE  /\ HasLens(v) /\ DOMAIN v.files = Files /\ OneShared(v)
         /\ Present(v) \in SUBSET Files /\ Stored(v) \in SUBSET Present(v)
         /\ \A t : InTree(v, t) \in SUBSET Present(v)
         /\ v.boot \in SUBSET Stored(v)
         /\ UsedBlocks(v) \in SUBSET {"own"}
         /\ EntryFiles(v) = InTree(v, "udf")
         /\ \A f \in InTree(v, "udf") : EntryOf(v, f) = f
<1>1. \A f \in Files : OwnFile(v, f)
  BY DEF OwnFiles
<1>2. HasLens(v) /\ DOMAIN v.files = Files
  BY <1>1 DEF HasLens, OwnFile, OwnFiles
<1>3. OneShared(v)
  BY DEF OwnFiles, OneShared
<1>4. /\ Present(v) \in SUBSET Files /\ Stored(v) \in SUBSET Present(v)
      /\ \A t : InTree(v, t) \in SUBSET Present(v)
  BY DEF Present, Stored, InTree
<1>5. v.boot \in SUBSET Stored(v)
  BY DEF OwnFiles, Stored, InTree, Present
<1>6. UsedBlocks(v) \in SUBSET {"own"}
  BY <1>1 DEF UsedBlocks, InTree, OwnFile
<1>7. \A f \in Files : f <= f
  BY FilesFinite
<1>8. \A f \in InTree(v, "udf") : f \in v.shared => \A g \in InTree(v, "udf") \cap v.shared : f <= g
  BY <1>3, <1>4, <1>7 DEF OneShared
<1>9. EntryFiles(v) = InTree(v, "udf")
  BY <1>8 DEF EntryFiles
<1>10. ASSUME NEW f \in InTree(v, "udf") PROVE EntryOf(v, f) = f
  <2>1. \A g \in EntryFiles(v) : (g = f \/ {f, g} \subseteq v.shared) <=> g = f
    BY <1>3 DEF OneShared
  <2>2. QED
    BY <1>9, <1>10, <2>1 DEF EntryOf
<1>11. QED
  BY <1>2, <1>3, <1>4, <1>5, <1>6, <1>9, <1>10

\* Two volumes that have the same things in the same order.
AlikeFiles(v, w) ==
  /\ w.boot = v.boot
  /\ \A f \in Files : /\ w.files[f].in = v.files[f].in /\ w.files[f].len = v.files[f].len
                      /\ w.files[f].ce = v.files[f].ce
Alike(v, w) ==
  /\ w.udf = v.udf /\ w.joliet = v.joliet /\ w.rr = v.rr /\ w.catalog = v.catalog
  /\ w.tables = v.tables /\ w.jtables = v.jtables /\ AlikeFiles(v, w)
  /\ Len(w.setEnd) = Len(v.setEnd)
  /\ \A k \in HeaderNames : Len(w.head[k]) = Len(v.head[k])

LEMMA AlikeFilesSame ==
  ASSUME NEW v, NEW w, AlikeFiles(v, w), OwnFiles(v), OneShared(w)
  PROVE  /\ Present(w) = Present(v) /\ Stored(w) = Stored(v) /\ \A t : InTree(w, t) = InTree(v, t)
         /\ UsedBlocks(w) = UsedBlocks(v) /\ EntryFiles(w) = EntryFiles(v)
         /\ \A f \in InTree(v, "udf") : EntryOf(w, f) = EntryOf(v, f)
         /\ \A f \in Files : Earlier(w, f) = Earlier(v, f)
         /\ \A S : DataBlocks(w, S) = DataBlocks(v, S)
<1>1. /\ w.boot = v.boot
      /\ \A f \in Files : /\ w.files[f].in = v.files[f].in /\ w.files[f].len = v.files[f].len
                          /\ w.files[f].ce = v.files[f].ce
  BY DEF AlikeFiles
<1>2. Present(w) = Present(v) /\ \A t : InTree(w, t) = InTree(v, t)
  BY <1>1 DEF Present, InTree
<1>3. Stored(w) = Stored(v) /\ Stored(v) \in SUBSET Files
  BY <1>1, <1>2 DEF Stored, Present
<1>4. InTree(v, "iso") \in SUBSET Files /\ InTree(v, "udf") \in SUBSET Files
  BY DEF InTree
<1>5. UsedBlocks(w) = UsedBlocks(v)
  BY <1>1, <1>2, <1>4 DEF UsedBlocks
<1>6. EntryFiles(v) = InTree(v, "udf") /\ \A f \in InTree(v, "udf") : EntryOf(v, f) = f
  BY OwnFilesHave
<1>7. EntryFiles(w) = InTree(w, "udf")
  <2>1. \A f \in Files : f <= f
    BY FilesFinite
  <2>2. \A f \in InTree(w, "udf") : f \in w.shared => \A g \in InTree(w, "udf") \cap w.shared : f <= g
    BY <1>2, <1>4, <2>1 DEF OneShared
  <2>3. QED
    BY <2>2 DEF EntryFiles
<1>8. ASSUME NEW f \in InTree(v, "udf") PROVE EntryOf(w, f) = f
  <2>1. \A g \in EntryFiles(w) : (g = f \/ {f, g} \subseteq w.shared) <=> g = f
    BY DEF OneShared
  <2>2. QED
    BY <1>2, <1>7, <1>8, <2>1 DEF EntryOf
<1>9. \A f \in Files : MetIn(w, f) = MetIn(v, f)
  BY <1>1 DEF MetIn
<1>10. \A f \in Files : Earlier(w, f) = Earlier(v, f)
  BY <1>3, <1>9 DEF Earlier
<1>11. \A S : DataBlocks(w, S) = DataBlocks(v, S)
  BY <1>1, DataBlocksSame
<1>12. QED
  BY <1>2, <1>3, <1>5, <1>6, <1>7, <1>8, <1>10, <1>11

AlikePlaces(v, w) ==
  /\ HeaderEnd(w) = HeaderEnd(v) /\ TreeStart(w) = TreeStart(v) /\ IsoAt(w) = IsoAt(v)
  /\ JolietAt(w) = JolietAt(v) /\ ErAt(w) = ErAt(v) /\ CatalogAt(w) = CatalogAt(v)
  /\ DataAt(w) = DataAt(v) /\ EndAt(w) = EndAt(v) /\ EntriesAt(w) = EntriesAt(v)
  /\ \A k \in HeaderNames : HeaderAt(w, k) = HeaderAt(v, k)
  /\ \A f \in Files : DataAtOf(w, f) = DataAtOf(v, f)
  /\ \A f \in InTree(v, "udf") : EntryAtOf(w, f) = EntryAtOf(v, f)
LEMMA AlikeSame ==
  ASSUME NEW v, NEW w, Alike(v, w), OwnFiles(v), OneShared(w)
  PROVE  AlikePlaces(v, w)
<1>1. /\ w.udf = v.udf /\ w.joliet = v.joliet /\ w.rr = v.rr /\ w.catalog = v.catalog
      /\ w.tables = v.tables /\ w.jtables = v.jtables /\ AlikeFiles(v, w)
      /\ Len(w.setEnd) = Len(v.setEnd)
      /\ \A k \in HeaderNames : Len(w.head[k]) = Len(v.head[k])
  BY DEF Alike
<1>2. /\ Present(w) = Present(v) /\ Stored(w) = Stored(v) /\ \A t : InTree(w, t) = InTree(v, t)
      /\ UsedBlocks(w) = UsedBlocks(v) /\ EntryFiles(w) = EntryFiles(v)
      /\ \A f \in InTree(v, "udf") : EntryOf(w, f) = EntryOf(v, f)
      /\ \A f \in Files : Earlier(w, f) = Earlier(v, f)
      /\ \A S : DataBlocks(w, S) = DataBlocks(v, S)
  BY <1>1, AlikeFilesSame
<1>3. HeaderEnd(w) = HeaderEnd(v)
  <2>1. \A i \in 1..9 : HeaderOrder[i] \in HeaderNames
    BY Names
  <2>2. \A i \in 1..Len(HeaderOrder) : Len(w.head[HeaderOrder[i]]) = Len(v.head[HeaderOrder[i]])
    BY <1>1, <2>1, Names
  <2>3. [i \in 1..Len(HeaderOrder) |-> Len(w.head[HeaderOrder[i]])]
          = [i \in 1..Len(HeaderOrder) |-> Len(v.head[HeaderOrder[i]])]
    BY <2>2
  <2>4. Count(w.head, HeaderOrder, Len(HeaderOrder)) = Count(v.head, HeaderOrder, Len(HeaderOrder))
    BY <2>3 DEF Count
  <2>5. QED
    BY <2>4 DEF HeaderEnd
<1>4. TreeStart(w) = TreeStart(v)
  BY <1>1, <1>2, <1>3 DEF TreeStart, UdfEnd
<1>5. IsoAt(w) = IsoAt(v)
  BY <1>1, <1>4 DEF IsoAt
<1>6. JolietAt(w) = JolietAt(v)
  BY <1>2, <1>5 DEF JolietAt
<1>7. ErAt(w) = ErAt(v)
  BY <1>1, <1>6 DEF ErAt
<1>8. CatalogAt(w) = CatalogAt(v)
  BY <1>1, <1>7 DEF CatalogAt
<1>9. DataAt(w) = DataAt(v)
  BY <1>1, <1>8 DEF DataAt
<1>10. EndAt(w) = EndAt(v)
  BY <1>2, <1>9 DEF EndAt
<1>11. EntriesAt(w) = EntriesAt(v)
  BY <1>1 DEF EntriesAt
<1>12. \A k \in HeaderNames : HeaderAt(w, k) = HeaderAt(v, k)
  <2>1. Len(w.head["pvd"]) = Len(v.head["pvd"])
    BY <1>1, Names
  <2>2. QED
    BY <1>1, <2>1 DEF HeaderAt
<1>13. \A f \in Files : DataAtOf(w, f) = DataAtOf(v, f)
  BY <1>2, <1>9 DEF DataAtOf
<1>14. \A f \in InTree(v, "udf") : EntryAtOf(w, f) = EntryAtOf(v, f)
  BY <1>2, <1>11 DEF EntryAtOf
<1>15. QED
  BY <1>3, <1>4, <1>5, <1>6, <1>7, <1>8, <1>9, <1>10, <1>11, <1>12, <1>13, <1>14 DEF AlikePlaces

\* The places, one after the other.
Places(v) ==
  /\ IsoAt(v) = TreeStart(v) + 4 + 4 * One(v.joliet)
  /\ JolietAt(v) = IsoAt(v) + 1 + Cardinality(UsedBlocks(v))
  /\ ErAt(v) = JolietAt(v) + One(v.joliet) /\ CatalogAt(v) = ErAt(v) + One(v.rr)
  /\ DataAt(v) = CatalogAt(v) + One(v.catalog)
  /\ EndAt(v) = DataAt(v) + DataBlocks(v, Stored(v)) /\ DataBlocks(v, Stored(v)) \in Nat
  /\ Cardinality(UsedBlocks(v)) = (IF UsedBlocks(v) = {} THEN 0 ELSE 1)
  /\ One(v.joliet) \in 0..1 /\ One(v.rr) \in 0..1 /\ One(v.catalog) \in 0..1 /\ One(v.udf) \in 0..1
  /\ TreeStart(v) \in Nat /\ IsoAt(v) \in Nat /\ JolietAt(v) \in Nat /\ ErAt(v) \in Nat
  /\ CatalogAt(v) \in Nat /\ DataAt(v) \in Nat /\ EndAt(v) \in Nat /\ EntriesAt(v) \in Nat
  /\ EntriesAt(v) = 261 + One(v.catalog)
  /\ HeaderEnd(v) \in Nat /\ HeaderEnd(v) = HeaderAt(v, "version") + 1
  /\ v.udf => /\ TreeStart(v) = EntriesAt(v) + Cardinality(InTree(v, "udf"))
              /\ Cardinality(InTree(v, "udf")) \in Nat /\ HeaderEnd(v) <= 24
  /\ ~v.udf => TreeStart(v) = HeaderEnd(v)
LEMMA SoundPlaces ==
  ASSUME NEW v, Sound(v)
  PROVE  Places(v)
<1>1. /\ v.udf \in BOOLEAN /\ v.joliet \in BOOLEAN /\ v.rr \in BOOLEAN /\ v.catalog \in BOOLEAN
      /\ v.tables = 2 /\ v.jtables = (IF v.joliet THEN 2 ELSE 0)
      /\ OwnFiles(v) /\ (v.udf => Len(v.setEnd) = 1) /\ OwnHead(v)
  BY DEF Sound, OwnRest
<1>2. /\ One(v.joliet) = (IF v.joliet THEN 1 ELSE 0) /\ One(v.rr) = (IF v.rr THEN 1 ELSE 0)
      /\ One(v.catalog) = (IF v.catalog THEN 1 ELSE 0) /\ One(v.udf) = (IF v.udf THEN 1 ELSE 0)
      /\ One(v.joliet) \in 0..1 /\ One(v.rr) \in 0..1 /\ One(v.catalog) \in 0..1 /\ One(v.udf) \in 0..1
  BY <1>1 DEF One
<1>3. HeaderEnd(v) = HeaderAt(v, "version") + 1 /\ HeaderAt(v, "version") \in Nat
  BY SoundHeadPlaces
<1>4. v.udf => HeaderEnd(v) <= 24
  <2> SUFFICES ASSUME v.udf PROVE HeaderEnd(v) <= 24
    OBVIOUS
  <2>1. Len(v.head["pvd"]) = 1
    BY <1>1 DEF OwnHead
  <2>2. HeaderAt(v, "version") = 16 + (Len(v.head["pvd"]) + One(v.catalog) + One(v.joliet) + 1 + 3 * One(v.udf))
    BY DEF HeaderAt
  <2>3. One(v.udf) = 1
    BY <1>2
  <2>4. \A b, s \in 0..1 : 16 + (1 + b + s + 1 + 3 * 1) + 1 <= 24
    OBVIOUS
  <2>5. HeaderAt(v, "version") = 16 + (1 + One(v.catalog) + One(v.joliet) + 1 + 3 * 1)
    BY <2>1, <2>2, <2>3
  <2>6. HeaderAt(v, "version") + 1 <= 24
    BY ONLY <1>2, <2>4, <2>5
  <2>7. QED
    BY ONLY <1>3, <2>6
<1>5. EntriesAt(v) = 261 + One(v.catalog)
  BY <1>2 DEF EntriesAt, RootAt, PartStart
<1>6. v.udf => /\ TreeStart(v) = EntriesAt(v) + Cardinality(InTree(v, "udf"))
               /\ Cardinality(InTree(v, "udf")) \in Nat
  <2> SUFFICES ASSUME v.udf PROVE /\ TreeStart(v) = EntriesAt(v) + Cardinality(InTree(v, "udf"))
                                  /\ Cardinality(InTree(v, "udf")) \in Nat
    OBVIOUS
  <2>1. Len(v.setEnd) = 1
    BY <1>1
  <2>2. EntryFiles(v) = InTree(v, "udf") /\ Cardinality(InTree(v, "udf")) \in Nat
    BY <1>1, OwnFilesHave, FilesFinite DEF InTree
  <2>3. TreeStart(v) = PartStart + 3 + 1 + One(v.catalog) + Cardinality(InTree(v, "udf"))
    BY <1>2, <2>1, <2>2 DEF TreeStart, UdfEnd
  <2>4. QED
    BY <1>2, <1>5, <2>2, <2>3 DEF PartStart
<1>7. ~v.udf => TreeStart(v) = HeaderEnd(v)
  BY DEF TreeStart
<1>8. TreeStart(v) \in Nat /\ EntriesAt(v) \in Nat
  BY <1>1, <1>2, <1>3, <1>5, <1>6, <1>7
<1>9. IsoAt(v) = TreeStart(v) + 4 + 4 * One(v.joliet)
  BY <1>1, <1>2, <1>8 DEF IsoAt
<1>10. Cardinality(UsedBlocks(v)) = (IF UsedBlocks(v) = {} THEN 0 ELSE 1)
  <2>1. UsedBlocks(v) = {} \/ UsedBlocks(v) = {"own"}
    BY <1>1, OwnFilesHave
  <2>2. QED
    BY <2>1, FS_EmptySet, FS_Singleton
<1>11. JolietAt(v) = IsoAt(v) + 1 + Cardinality(UsedBlocks(v))
  BY DEF JolietAt
<1>12. /\ ErAt(v) = JolietAt(v) + One(v.joliet) /\ CatalogAt(v) = ErAt(v) + One(v.rr)
       /\ DataAt(v) = CatalogAt(v) + One(v.catalog)
  BY <1>2 DEF ErAt, CatalogAt, DataAt
<1>13. EndAt(v) = DataAt(v) + DataBlocks(v, Stored(v)) /\ DataBlocks(v, Stored(v)) \in Nat
  BY <1>1, OwnFilesHave, DataBlocksType DEF EndAt
<1>14. IsoAt(v) \in Nat /\ JolietAt(v) \in Nat
  BY <1>2, <1>8, <1>9, <1>10, <1>11
<1>15. ErAt(v) \in Nat /\ CatalogAt(v) \in Nat /\ DataAt(v) \in Nat /\ EndAt(v) \in Nat
  BY <1>2, <1>12, <1>13, <1>14
<1>16. QED
  BY <1>2, <1>3, <1>4, <1>5, <1>6, <1>7, <1>8, <1>9, <1>10, <1>11, <1>12, <1>13, <1>14, <1>15 DEF Places

LEMMA OwnPlaces ==
  ASSUME NEW v, Own(v)
  PROVE  Places(v)
BY OwnSound, SoundPlaces
-----------------------------------------------------------------------------
(* The descriptors of a sequence, given out from a block on.                *)

SequenceLens(s) == \A k \in Singles \cup {3} : Len(s[k]) = IF k = 3 THEN 0 ELSE 1
LEMMA SequenceBefore ==
  ASSUME NEW s, SequenceLens(s)
  PROVE  \A k \in Singles : Before(s, SequenceOrder, k) = IF k = 1 THEN 0 ELSE k - 3
<1> DEFINE C(n) == Count(s, SequenceOrder, n)
<1>0. 1..7 = {1, 2, 3, 4, 5, 6, 7} /\ Singles = {1, 4, 5, 6, 7, 8}
  BY DEF Singles
<1>1. /\ Len(SequenceOrder) = 7
      /\ SequenceOrder[1] = 1 /\ SequenceOrder[2] = 3 /\ SequenceOrder[3] = 4 /\ SequenceOrder[4] = 5
      /\ SequenceOrder[5] = 6 /\ SequenceOrder[6] = 7 /\ SequenceOrder[7] = 8
  BY DEF SequenceOrder
<1>2. /\ Len(s[1]) = 1 /\ Len(s[3]) = 0 /\ Len(s[4]) = 1 /\ Len(s[5]) = 1 /\ Len(s[6]) = 1
      /\ Len(s[7]) = 1 /\ Len(s[8]) = 1
  BY <1>0 DEF SequenceLens
<1>3. \A n \in 0..7 : HasLists(s, SequenceOrder, n)
  <2>1. \A i \in {1, 2, 3, 4, 5, 6, 7} : Len(s[SequenceOrder[i]]) \in Nat
    BY <1>1, <1>2
  <2>2. QED
    BY <1>0, <1>1, <2>1 DEF HasLists
<1>4. C(0) = 0
  BY CountNone
<1>5. \A n \in 0..6 : C(n + 1) = C(n) + Len(s[SequenceOrder[n + 1]])
  <2> TAKE n \in 0..6
  <2>1. HasLists(s, SequenceOrder, n) /\ n < Len(SequenceOrder)
    BY <1>1, <1>3
  <2>2. QED
    BY <2>1, CountNext, Zenon
<1>6. \A i \in 1..7 : Before(s, SequenceOrder, SequenceOrder[i]) = C(i - 1)
  <2> TAKE i \in 1..7
  <2>1. \A j \in 1..7 : SequenceOrder[j] = SequenceOrder[i] => j = i
    BY ONLY <1>0, <1>1, i \in 1..7
  <2>2. (CHOOSE j \in 1..7 : SequenceOrder[j] = SequenceOrder[i]) = i
    BY <2>1
  <2>3. QED
    BY <2>2, <1>1 DEF Before
<1> HIDE DEF C
<1>7. /\ C(1) = 1 /\ C(2) = 1 /\ C(3) = 2 /\ C(4) = 3 /\ C(5) = 4 /\ C(6) = 5
  <2>1. C(1) = C(0) + Len(s[1])
    BY ONLY <1>1, <1>5, 0 \in 0..6, 0 + 1 = 1
  <2>2. C(2) = C(1) + Len(s[3])
    BY ONLY <1>1, <1>5, 1 \in 0..6, 1 + 1 = 2
  <2>3. C(3) = C(2) + Len(s[4])
    BY ONLY <1>1, <1>5, 2 \in 0..6, 2 + 1 = 3
  <2>4. C(4) = C(3) + Len(s[5])
    BY ONLY <1>1, <1>5, 3 \in 0..6, 3 + 1 = 4
  <2>5. C(5) = C(4) + Len(s[6])
    BY ONLY <1>1, <1>5, 4 \in 0..6, 4 + 1 = 5
  <2>6. C(6) = C(5) + Len(s[7])
    BY ONLY <1>1, <1>5, 5 \in 0..6, 5 + 1 = 6
  <2>7. C(1) = 1
    BY ONLY <1>2, <1>4, <2>1
  <2>8. C(2) = 1
    BY ONLY <1>2, <2>2, <2>7
  <2>9. C(3) = 2
    BY ONLY <1>2, <2>3, <2>8
  <2>10. C(4) = 3
    BY ONLY <1>2, <2>4, <2>9
  <2>11. C(5) = 4
    BY ONLY <1>2, <2>5, <2>10
  <2>12. C(6) = 5
    BY ONLY <1>2, <2>6, <2>11
  <2>13. QED
    BY <2>7, <2>8, <2>9, <2>10, <2>11, <2>12
<1>8. /\ Before(s, SequenceOrder, 1) = 0 /\ Before(s, SequenceOrder, 4) = 1
      /\ Before(s, SequenceOrder, 5) = 2 /\ Before(s, SequenceOrder, 6) = 3
      /\ Before(s, SequenceOrder, 7) = 4 /\ Before(s, SequenceOrder, 8) = 5
  <2>1. \A i \in {1, 2, 3, 4, 5, 6, 7} : Before(s, SequenceOrder, SequenceOrder[i]) = C(i - 1)
    BY <1>0, <1>6
  <2>2. 1 - 1 = 0 /\ 3 - 1 = 2 /\ 4 - 1 = 3 /\ 5 - 1 = 4 /\ 6 - 1 = 5 /\ 7 - 1 = 6
    OBVIOUS
  <2>3. QED
    BY ONLY <1>1, <1>4, <1>7, <2>1, <2>2
<1>9. QED
  BY <1>0, <1>8

\* What the walk makes of a sequence.
Told(v, k, j, m) ==
  CASE k = 5 /\ j = 1 -> [m EXCEPT !.body.start = PartStart]
    [] k = 6 /\ j = 1 /\ v.lvid # <<>> -> [m EXCEPT !.body.integrity.location = 64]
    [] OTHER -> m
ToldSequence(v, s, start) ==
  LET placed == AssignDescExtents(s, start)
  IN [k \in DOMAIN s |-> [j \in 1..Len(s[k]) |-> Told(v, k, j, placed[k][j])]]

LEMMA OwnSequenceLens ==
  ASSUME NEW s, NEW start, NEW length, NEW integrity, OwnSequence(s, start, length, integrity)
  PROVE  /\ SequenceLens(s) /\ DOMAIN s = Singles \cup {3} /\ s[3] = <<>>
         /\ \A k \in Singles : s[k] = <<s[k][1]>> /\ OwnDesc(s[k][1], k, OwnBody(k, start, length, integrity))
<1>1. s = [k \in Singles \cup {3} |-> IF k = 3 THEN <<>> ELSE <<s[k][1]>>]
  BY DEF OwnSequence
<1>2. 3 \notin Singles
  BY DEF Singles
<1>3. DOMAIN s = Singles \cup {3}
  BY ONLY <1>1
<1>4. s[3] = <<>>
  BY ONLY <1>1
<1>5. \A k \in Singles : s[k] = <<s[k][1]>>
  BY ONLY <1>1, <1>2
<1>6. SequenceLens(s)
  <2>1. Len(s[3]) = 0
    BY <1>4
  <2>2. \A k \in Singles : Len(s[k]) = 1
    <3> TAKE k \in Singles
    <3>1. s[k] = <<s[k][1]>>
      BY <1>5
    <3>2. QED
      BY ONLY <3>1
  <2>3. QED
    BY ONLY <1>2, <2>1, <2>2 DEF SequenceLens
<1>7. QED
  BY <1>3, <1>4, <1>5, <1>6 DEF OwnSequence

\* One descriptor, put at a block and told where things are.
Made(ident, loc, crc, body, e) ==
  [tag |-> [ident |-> ident, version |-> 2, serial |-> 0, loc |-> loc, crcLen |-> crc],
   body |-> body, extent |-> e]
LEMMA MadeOwn ==
  ASSUME NEW ident, NEW loc \in Int, NEW crc \in {-1, BodyLength}, NEW body, NEW e \in Int
  PROVE  OwnDesc(Made(ident, loc, crc, body, e), ident, body)
BY DEF Made, OwnDesc, OwnTag
LEMMA OwnMade ==
  ASSUME NEW m, NEW ident, NEW body, OwnDesc(m, ident, body)
  PROVE  /\ m = Made(ident, m.tag.loc, m.tag.crcLen, body, m.extent) /\ m.body = body /\ m.tag.ident = ident
         /\ m.tag.loc \in Int /\ m.tag.crcLen \in {-1, BodyLength} /\ m.extent \in Int
<1>1. m = [tag |-> m.tag, body |-> body, extent |-> m.extent]
  BY DEF OwnDesc
<1>2. m.tag = [ident |-> ident, version |-> 2, serial |-> 0, loc |-> m.tag.loc, crcLen |-> m.tag.crcLen]
  BY DEF OwnDesc, OwnTag
<1>3. m.body = body
  BY ONLY <1>1
<1>4. m.tag.ident = ident
  BY ONLY <1>2
<1>5. m = Made(ident, m.tag.loc, m.tag.crcLen, body, m.extent)
  BY <1>1, <1>2, Zenon DEF Made
<1>6. QED
  BY <1>3, <1>4, <1>5 DEF OwnDesc, OwnTag

LEMMA AtOwn ==
  ASSUME NEW m, NEW ident, NEW body, OwnDesc(m, ident, body), NEW e \in Int
  PROVE  OwnDesc(At(m, e), ident, body) /\ PlacedAt(At(m, e), e, e)
<1>1. PICK loc \in Int, crc \in {-1, BodyLength}, x \in Int : m = Made(ident, loc, crc, body, x)
  BY OwnMade
<1>2. At(m, e) = Made(ident, e, crc, body, e)
  <2> DEFINE T(l) == [ident |-> ident, version |-> 2, serial |-> 0, loc |-> l, crcLen |-> crc]
  <2>1. [T(loc) EXCEPT !.loc = e] = T(e)
    OBVIOUS
  <2>2. m = [tag |-> T(loc), body |-> body, extent |-> x]
    BY <1>1 DEF Made
  <2>3. Made(ident, e, crc, body, e) = [tag |-> T(e), body |-> body, extent |-> e]
    BY DEF Made
  <2> HIDE DEF T
  <2> DEFINE n == [m EXCEPT !.extent = e]
  <2>4. n = [tag |-> T(loc), body |-> body, extent |-> e]
    BY <2>2
  <2>5. At(m, e) = [n EXCEPT !.tag.loc = e]
    BY DEF At
  <2> HIDE DEF n
  <2>6. [n EXCEPT !.tag.loc = e] = [tag |-> [T(loc) EXCEPT !.loc = e], body |-> body, extent |-> e]
    BY <2>4
  <2>7. QED
    BY <2>1, <2>3, <2>5, <2>6
<1>3. OwnDesc(Made(ident, e, crc, body, e), ident, body)
  BY MadeOwn
<1>4. PlacedAt(Made(ident, e, crc, body, e), e, e)
  BY DEF Made, PlacedAt
<1>5. QED
  BY <1>2, <1>3, <1>4

LEMMA ToldOwn ==
  ASSUME NEW v, v.lvid # <<>>, NEW m, NEW k \in Singles, NEW start, NEW length, NEW integrity, NEW e,
         OwnDesc(m, k, OwnBody(k, start, length, integrity)), PlacedAt(m, e, e)
  PROVE  /\ OwnDesc(Told(v, k, 1, m), k, OwnBody(k, PartStart, length, 64))
         /\ PlacedAt(Told(v, k, 1, m), e, e)
<1> DEFINE b == OwnBody(k, start, length, integrity)
           c == OwnBody(k, PartStart, length, 64)
<1>0. PICK loc \in Int, crc \in {-1, BodyLength}, x \in Int : m = Made(k, loc, crc, b, x)
  BY OwnMade
<1>1. Told(v, k, 1, m) = Made(k, loc, crc, c, x)
  <2>1. CASE k = 5
    <3>1. Told(v, k, 1, m) = [m EXCEPT !.body.start = PartStart]
      BY <2>1 DEF Told
    <3>2. b = [NewPartition EXCEPT !.start = start, !.length = length]
          /\ c = [NewPartition EXCEPT !.start = PartStart, !.length = length]
      BY <2>1 DEF OwnBody
    <3>3. [b EXCEPT !.start = PartStart] = c
      BY <3>2 DEF NewPartition
    <3> HIDE DEF b, c
    <3>4. QED
      BY <1>0, <3>1, <3>3 DEF Made
  <2>2. CASE k = 6
    <3>1. Told(v, k, 1, m) = [m EXCEPT !.body.integrity.location = 64]
      BY <2>2 DEF Told
    <3>2. b = [NewLogicalVolume EXCEPT !.integrity.location = integrity]
          /\ c = [NewLogicalVolume EXCEPT !.integrity.location = 64]
      BY <2>2 DEF OwnBody
    <3>3. [b EXCEPT !.integrity.location = 64] = c
      <4> DEFINE ad(n) == ExtentAD(4096, n)
                 L(n) == [NewLogicalVolume EXCEPT !.integrity = ad(n)]
      <4>1. \A n, n2 : [ad(n) EXCEPT !.location = n2] = ad(n2)
        BY DEF ExtentAD
      <4>2. "integrity" \in DOMAIN NewLogicalVolume /\ NewLogicalVolume.integrity = ad(0)
        BY DEF NewLogicalVolume
      <4> HIDE DEF ad
      <4>3. \A n2 : [NewLogicalVolume EXCEPT !.integrity.location = n2] = L(n2)
        BY <4>1, <4>2
      <4>4. \A n : L(n).integrity = ad(n)
        BY <4>2
      <4>5. \A n, n2 : [L(n) EXCEPT !.integrity = ad(n2)] = L(n2)
        OBVIOUS
      <4>6. \A n, n2 : [L(n) EXCEPT !.integrity.location = n2] = [L(n) EXCEPT !.integrity = [ad(n) EXCEPT !.location = n2]]
        BY <4>4
      <4>7. b = L(integrity) /\ c = L(64)
        BY <3>2, <4>3
      <4> HIDE DEF L, b, c
      <4>8. QED
        BY <4>1, <4>5, <4>6, <4>7
    <3> HIDE DEF b, c
    <3>4. QED
      BY <1>0, <3>1, <3>3 DEF Made
  <2>3. CASE k \notin {5, 6}
    <3>1. Told(v, k, 1, m) = m
      BY <2>3 DEF Told
    <3>2. b = c
      BY <2>3 DEF OwnBody, Singles
    <3>3. QED
      BY <1>0, <3>1, <3>2
  <2>4. QED
    BY <2>1, <2>2, <2>3
<1>2. loc = e /\ x = e
  BY <1>0 DEF PlacedAt, Made
<1> HIDE DEF b, c
<1>3. OwnDesc(Made(k, loc, crc, c, x), k, c)
  BY MadeOwn
<1>4. PlacedAt(Made(k, loc, crc, c, x), e, e)
  BY <1>2 DEF PlacedAt, Made
<1>5. QED
  BY <1>1, <1>3, <1>4 DEF c

SequenceAt(s, from, length) ==
  /\ OwnSequence(s, PartStart, length, 64)
  /\ \A k \in Singles : LET e == from + IF k = 1 THEN 0 ELSE k - 3 IN PlacedAt(s[k][1], e, e)
LEMMA ToldSequencePlaced ==
  ASSUME NEW v, v.lvid # <<>>, NEW s, NEW start, NEW length, NEW integrity,
         OwnSequence(s, start, length, integrity), NEW from \in Int
  PROVE  SequenceAt(ToldSequence(v, s, from), from, length)
<1> DEFINE t == ToldSequence(v, s, from)
           e(k) == from + IF k = 1 THEN 0 ELSE k - 3
<1>1. /\ SequenceLens(s) /\ DOMAIN s = Singles \cup {3} /\ s[3] = <<>>
      /\ \A k \in Singles : s[k] = <<s[k][1]>> /\ OwnDesc(s[k][1], k, OwnBody(k, start, length, integrity))
  BY OwnSequenceLens
<1>2. t = [k \in Singles \cup {3} |->
             [j \in 1..Len(s[k]) |-> Told(v, k, j, At(s[k][j], from + Before(s, SequenceOrder, k) + j - 1))]]
  BY <1>1 DEF ToldSequence, AssignDescExtents
<1>3. \A k \in Singles : k # 3 /\ k \in Int
  BY DEF Singles
<1>4. t[3] = <<>>
  BY <1>1, <1>2
<1>5. ASSUME NEW k \in Singles
      PROVE  t[k] = <<Told(v, k, 1, At(s[k][1], e(k)))>> /\ e(k) \in Int
  <2>1. Len(s[k]) = 1
    BY <1>1, <1>3 DEF SequenceLens
  <2>2. Before(s, SequenceOrder, k) = IF k = 1 THEN 0 ELSE k - 3
    BY <1>1, SequenceBefore
  <2>3. from + Before(s, SequenceOrder, k) + 1 - 1 = e(k) /\ e(k) \in Int
    BY <1>3, <2>2
  <2>4. t[k] = [j \in 1..1 |-> Told(v, k, j, At(s[k][j], from + Before(s, SequenceOrder, k) + j - 1))]
    BY <1>2, <2>1
  <2>5. QED
    BY <2>3, <2>4
<1>6. ASSUME NEW k \in Singles
      PROVE  OwnDesc(t[k][1], k, OwnBody(k, PartStart, length, 64)) /\ PlacedAt(t[k][1], e(k), e(k))
  <2>1. e(k) \in Int /\ t[k][1] = Told(v, k, 1, At(s[k][1], e(k)))
    BY <1>5
  <2> HIDE DEF t, e
  <2>2. OwnDesc(At(s[k][1], e(k)), k, OwnBody(k, start, length, integrity)) /\ PlacedAt(At(s[k][1], e(k)), e(k), e(k))
    BY <1>1, <2>1, AtOwn
  <2>3. QED
    BY ONLY <2>1, <2>2, ToldOwn, v.lvid # <<>>, Zenon
<1>7. t = [k \in Singles \cup {3} |-> IF k = 3 THEN <<>> ELSE <<t[k][1]>>]
  <2>1. DOMAIN t = Singles \cup {3}
    BY ONLY <1>2
  <2>2. \A k \in Singles \cup {3} : t[k] = IF k = 3 THEN <<>> ELSE <<t[k][1]>>
    BY <1>3, <1>4, <1>5
  <2>3. t = [k \in Singles \cup {3} |-> t[k]]
    BY ONLY <1>2
  <2> HIDE DEF t
  <2>4. QED
    BY ONLY <2>2, <2>3
<1> HIDE DEF t
<1>8. OwnSequence(t, PartStart, length, 64)
  BY <1>6, <1>7, Zenon DEF OwnSequence
<1>9. QED
  BY <1>6, <1>8 DEF SequenceAt, t
-----------------------------------------------------------------------------
(* The walk: everything is given its place, and the size that was added up  *)
(* is what it comes to.                                                     *)

LEMMA Single ==
  ASSUME NEW s, s = <<s[1]>>
  PROVE  s # <<>> /\ Len(s) = 1
<1>1. \A x : <<x>> # <<>> /\ Len(<<x>>) = 1
  OBVIOUS
<1>2. QED
  BY <1>1, Zenon

LEMMA Fields ==
  ASSUME NEW v, DOMAIN v = DOMAIN NoVolume
  PROVE  {"udf", "joliet", "rr", "head", "main", "reserve", "lvid", "lvidEnd", "anchors", "set", "setEnd",
          "at", "tables", "jtables", "blocks", "files", "catalog", "boot", "shared", "space", "pending"}
           = DOMAIN v
BY DEF NoVolume

KeptByUdf(v, u) ==
  /\ DOMAIN u = DOMAIN NoVolume
  /\ u.udf = v.udf /\ u.joliet = v.joliet /\ u.rr = v.rr /\ u.head = v.head
  /\ u.anchors = v.anchors /\ u.tables = v.tables /\ u.jtables = v.jtables /\ u.blocks = v.blocks
  /\ u.catalog = v.catalog /\ u.boot = v.boot /\ u.shared = v.shared /\ u.space = v.space
LaidLvid(m, end) == [At(m, 64) EXCEPT !.body.unique = end]
LaidSetEnd(m) == [m EXCEPT !.extent = PartStart + 1, !.tag.loc = 1]
LaidSet(m) == [m EXCEPT !.extent = PartStart]
LaidEntry(v, f) == IF f \in InTree(v, "udf") THEN [v.files[f] EXCEPT !.fe = EntryAtOf(v, f)] ELSE v.files[f]
UdfParts(v, u) ==
  /\ u.main = ToldSequence(v, v.main, 32) /\ u.reserve = ToldSequence(v, v.reserve, 48)
  /\ u.lvid = <<LaidLvid(v.lvid[1], UdfEnd(v))>> /\ u.lvidEnd = <<At(v.lvidEnd[1], 65)>>
  /\ u.set = <<LaidSet(v.set[1])>> /\ u.setEnd = <<LaidSetEnd(v.setEnd[1])>>
  /\ u.at = [v.at EXCEPT !.root = RootAt, !.idents = RootAt + 1, !.catalogFe = RootAt + 2]
  /\ u.files = [f \in Files |-> LaidEntry(v, f)]
LEMMA LaidUdfHas ==
  ASSUME NEW v, Own(v), v.udf
  PROVE  KeptByUdf(v, LaidUdf(v)) /\ UdfParts(v, LaidUdf(v))
<1> DEFINE u == LaidUdf(v)
           setEnd == IF v.setEnd = <<>> THEN <<>> ELSE <<LaidSetEnd(v.setEnd[1])>>
           root == PartStart + 1 + Len(setEnd)
           entries == root + 2 + (IF v.catalog THEN 1 ELSE 0)
           fe(f) == entries + Cardinality({g \in EntryFiles(v) : g < EntryOf(v, f)})
           end == entries + Cardinality(EntryFiles(v))
<1>1. OwnUdf(v) /\ DOMAIN v = DOMAIN NoVolume
  BY OwnHas
<1>2. /\ v.lvid = <<v.lvid[1]>> /\ v.lvidEnd = <<v.lvidEnd[1]>>
      /\ v.set = <<v.set[1]>> /\ v.setEnd = <<v.setEnd[1]>>
  BY <1>1 DEF OwnUdf
<1>3. u = [v EXCEPT
        !.main = ToldSequence(v, v.main, 32), !.reserve = ToldSequence(v, v.reserve, 48),
        !.lvid = IF @ = <<>> THEN @ ELSE <<LaidLvid(@[1], end)>>,
        !.lvidEnd = IF @ = <<>> THEN @ ELSE <<At(@[1], 64 + Len(v.lvid))>>,
        !.set = <<LaidSet(@[1])>>, !.setEnd = setEnd,
        !.at = [@ EXCEPT !.root = root, !.idents = root + 1, !.catalogFe = root + 2],
        !.files = [f \in Files |->
                     IF f \in InTree(v, "udf")
                     THEN [v.files[f] EXCEPT !.fe = fe(f)]
                     ELSE v.files[f]]]
  BY DEF LaidUdf, ToldSequence, Told, LaidLvid, LaidSetEnd, LaidSet
<1>4. setEnd = <<LaidSetEnd(v.setEnd[1])>> /\ Len(setEnd) = 1
  BY <1>2
<1>5. root = RootAt /\ entries = EntriesAt(v) /\ end = UdfEnd(v)
  <2>1. root = RootAt
    BY <1>4 DEF RootAt, PartStart
  <2>2. entries = EntriesAt(v)
    BY <2>1 DEF EntriesAt
  <2>3. Len(v.setEnd) = 1
    BY ONLY <1>2
  <2>4. end = RootAt + 2 + (IF v.catalog THEN 1 ELSE 0) + Cardinality(EntryFiles(v))
    BY <2>1
  <2>5. UdfEnd(v) = PartStart + 3 + 1 + (IF v.catalog THEN 1 ELSE 0) + Cardinality(EntryFiles(v))
    BY <2>3 DEF UdfEnd
  <2>6. RootAt + 2 = PartStart + 3 + 1
    BY DEF RootAt, PartStart
  <2>7. QED
    BY ONLY <2>1, <2>2, <2>4, <2>5, <2>6
<1>6. \A f : fe(f) = EntryAtOf(v, f)
  BY <1>5 DEF EntryAtOf
<1>7. v.lvid # <<>> /\ v.lvidEnd # <<>> /\ Len(v.lvid) = 1
  BY <1>2, Single, Zenon
<1> HIDE DEF u, setEnd, root, entries, fe, end
<1>8. DOMAIN u = DOMAIN v
  BY <1>3
<1>9. KeptByUdf(v, u)
  <2> DEFINE K == {"udf", "joliet", "rr", "head", "anchors", "tables", "jtables", "blocks", "catalog",
                   "boot", "shared", "space"}
  <2>0. \A x \in K : x \in DOMAIN v /\ x \notin {"main", "reserve", "lvid", "lvidEnd", "set", "setEnd", "at", "files"}
    BY <1>1, Fields
  <2> HIDE DEF K
  <2>1. \A x \in K : u[x] = v[x]
    BY <1>3, <2>0
  <2> USE DEF K
  <2>2. QED
    BY ONLY <1>1, <1>8, <2>1 DEF KeptByUdf
<1>10. {"main", "reserve", "lvid", "lvidEnd", "set", "setEnd", "at", "files"} \subseteq DOMAIN v
  BY <1>1, Fields
<1>11. /\ u.main = ToldSequence(v, v.main, 32) /\ u.reserve = ToldSequence(v, v.reserve, 48)
       /\ u.lvid = <<LaidLvid(v.lvid[1], end)>> /\ u.lvidEnd = <<At(v.lvidEnd[1], 65)>>
       /\ u.set = <<LaidSet(v.set[1])>> /\ u.setEnd = setEnd
  BY <1>3, <1>7, <1>10
<1>12. u.at = [v.at EXCEPT !.root = root, !.idents = root + 1, !.catalogFe = root + 2]
  BY <1>3, <1>10
<1>13. u.files = [f \in Files |-> IF f \in InTree(v, "udf") THEN [v.files[f] EXCEPT !.fe = fe(f)] ELSE v.files[f]]
  BY <1>3, <1>10
<1>14. u.files = [f \in Files |-> LaidEntry(v, f)]
  BY <1>6, <1>13 DEF LaidEntry
<1>15. UdfParts(v, u)
  BY <1>4, <1>5, <1>11, <1>12, <1>14 DEF UdfParts
<1>16. QED
  BY <1>9, <1>15 DEF u
\* The walk over everything else.
BeforeWalk(v) == IF v.udf THEN LaidUdf(v) ELSE v
KeptByWalk(v, w) ==
  /\ DOMAIN w = DOMAIN NoVolume
  /\ w.udf = v.udf /\ w.joliet = v.joliet /\ w.rr = v.rr
  /\ w.tables = v.tables /\ w.jtables = v.jtables /\ w.blocks = v.blocks
  /\ w.catalog = v.catalog /\ w.boot = v.boot /\ w.shared = v.shared /\ w.space = v.space
  /\ w.pending = FALSE /\ w.head = LaidHeader(v)
UdfKeptByWalk(v, w) ==
  LET u == BeforeWalk(v)
  IN /\ w.main = u.main /\ w.reserve = u.reserve /\ w.lvid = u.lvid /\ w.lvidEnd = u.lvidEnd
     /\ w.set = u.set /\ w.setEnd = u.setEnd
     /\ w.anchors = IF v.udf THEN <<AnchorAt(v.anchors[1], 256), AnchorAt(v.anchors[2], EndAt(v))>>
                    ELSE v.anchors
WalkAt(v, at) ==
  [at EXCEPT !.le = TreeStart(v), !.be = TreeStart(v) + 2, !.jle = TreeStart(v) + 4,
             !.jbe = TreeStart(v) + 4 + v.jtables, !.iso = IsoAt(v),
             !.ce = IsoAt(v) + 1, !.joliet = JolietAt(v), !.er = ErAt(v), !.catalog = CatalogAt(v)]
LaidOutFile(v, f) == [BeforeWalk(v).files[f] EXCEPT !.ext = DataAtOf(v, f)]
WalkParts(v, w) ==
  /\ w.at = WalkAt(v, BeforeWalk(v).at)
  /\ w.files = [f \in Files |-> LaidOutFile(v, f)]

LEMMA LaidOutHas ==
  ASSUME NEW v, Own(v)
  PROVE  /\ LaidOut(v).end = EndAt(v)
         /\ KeptByWalk(v, LaidOut(v).vol) /\ UdfKeptByWalk(v, LaidOut(v).vol)
         /\ WalkParts(v, LaidOut(v).vol)
<1> DEFINE w == LaidOut(v).vol
           u == BeforeWalk(v)
           start == IF v.udf THEN UdfEnd(v) ELSE HeaderEnd(v)
           le == start
           be == le + v.tables
           jle == be + v.tables
           jbe == jle + v.jtables
           iso == jbe + v.jtables
           used == {v.files[f].ce : f \in InTree(v, "iso")} \ {"none"}
           joliet == iso + 1 + Cardinality(used)
           er == joliet + (IF v.joliet THEN 1 ELSE 0)
           catalog == er + (IF v.rr THEN 1 ELSE 0)
           data == catalog + (IF v.catalog THEN 1 ELSE 0)
           ext(f) == IF f \in Stored(v) THEN data + DataBlocks(v, Earlier(v, f)) ELSE 0
           end == data + DataBlocks(v, Stored(v))
<1>1. /\ DOMAIN v = DOMAIN NoVolume /\ v.udf \in BOOLEAN /\ v.tables = 2
      /\ v.jtables = (IF v.joliet THEN 2 ELSE 0) /\ (v.udf => OwnUdf(v))
      /\ TreeStart(v) \in Nat
  BY OwnHas, OwnPlaces DEF Places
<1>2. /\ LaidOut(v).end = end
      /\ w = [u EXCEPT
        !.head = LaidHeader(v),
        !.at = [@ EXCEPT !.le = le, !.be = be, !.jle = jle, !.jbe = jbe, !.iso = iso,
                         !.ce = iso + 1, !.joliet = joliet, !.er = er, !.catalog = catalog],
        !.files = [f \in Files |-> [u.files[f] EXCEPT !.ext = ext(f)]],
        !.anchors = IF v.udf THEN <<AnchorAt(@[1], 256), AnchorAt(@[Len(@)], end)>> ELSE @,
        !.pending = FALSE]
  BY DEF LaidOut, BeforeWalk
<1>3. /\ KeptByUdf(v, u) /\ (~v.udf => u = v)
  <2>1. CASE v.udf
    BY <2>1, LaidUdfHas DEF BeforeWalk
  <2>2. CASE ~v.udf
    BY <1>1, <2>2 DEF BeforeWalk, KeptByUdf
  <2>3. QED
    BY <1>1, <2>1, <2>2
<1>4. /\ le = TreeStart(v) /\ be = TreeStart(v) + 2 /\ jle = TreeStart(v) + 4
      /\ jbe = TreeStart(v) + 4 + v.jtables /\ iso = IsoAt(v)
  <2>1. le = TreeStart(v)
    BY DEF TreeStart
  <2>2. v.jtables \in Nat
    BY <1>1
  <2>3. IsoAt(v) = le + 2 * 2 + 2 * v.jtables
    BY <1>1, <2>1 DEF IsoAt
  <2> HIDE DEF le
  <2>4. QED
    BY <1>1, <2>1, <2>2, <2>3
<1> HIDE DEF le, be, jle, jbe, iso
<1>5. joliet = JolietAt(v) /\ er = ErAt(v) /\ catalog = CatalogAt(v) /\ data = DataAt(v) /\ end = EndAt(v)
  <2>1. joliet = JolietAt(v)
    BY <1>4 DEF JolietAt, UsedBlocks
  <2>2. er = ErAt(v)
    BY <2>1 DEF ErAt
  <2>3. catalog = CatalogAt(v)
    BY <2>2 DEF CatalogAt
  <2>4. data = DataAt(v)
    BY <2>3 DEF DataAt
  <2>5. QED
    BY <2>1, <2>2, <2>3, <2>4 DEF EndAt
<1>6. \A f : ext(f) = DataAtOf(v, f)
  BY <1>5 DEF DataAtOf
<1> HIDE DEF w, u, start, used, joliet, er, catalog, data, ext, end
<1>7. DOMAIN w = DOMAIN NoVolume /\ DOMAIN u = DOMAIN NoVolume
  BY <1>2, <1>3 DEF KeptByUdf
<1>8. {"head", "at", "files", "anchors", "pending"} \subseteq DOMAIN u
  BY <1>7, Fields
<1> DEFINE K == {"udf", "joliet", "rr", "main", "reserve", "lvid", "lvidEnd", "set", "setEnd", "tables",
                 "jtables", "blocks", "catalog", "boot", "shared", "space"}
<1>9. \A x \in K : x \in DOMAIN u /\ x \notin {"head", "at", "files", "anchors", "pending"}
  BY <1>7, Fields
<1> HIDE DEF K
<1>10. \A x \in K : w[x] = u[x]
  BY <1>2, <1>9
<1> USE DEF K
<1>11. /\ w.head = LaidHeader(v) /\ w.pending = FALSE
       /\ w.anchors = IF v.udf THEN <<AnchorAt(u.anchors[1], 256), AnchorAt(u.anchors[Len(u.anchors)], end)>> ELSE u.anchors
  BY <1>2, <1>8
<1>12. KeptByWalk(v, w)
  BY ONLY <1>3, <1>7, <1>10, <1>11 DEF KeptByWalk, KeptByUdf
<1>13. UdfKeptByWalk(v, w)
  <2>1. u.anchors = v.anchors
    BY <1>3 DEF KeptByUdf
  <2>2. v.udf => Len(v.anchors) = 2
    <3>1. \A x, y : Len(<<x, y>>) = 2
      OBVIOUS
    <3>2. v.udf => v.anchors = <<v.anchors[1], v.anchors[2]>>
      BY <1>1 DEF OwnUdf
    <3>3. QED
      BY ONLY <3>1, <3>2, Zenon
  <2>3. w.anchors = IF v.udf THEN <<AnchorAt(v.anchors[1], 256), AnchorAt(v.anchors[2], EndAt(v))>>
                    ELSE v.anchors
    BY ONLY <1>5, <1>11, <2>1, <2>2
  <2>4. QED
    BY ONLY <1>10, <2>3 DEF UdfKeptByWalk, u
<1>14. w.at = WalkAt(v, u.at)
  <2>1. w.at = [u.at EXCEPT !.le = le, !.be = be, !.jle = jle, !.jbe = jbe, !.iso = iso,
                         !.ce = iso + 1, !.joliet = joliet, !.er = er, !.catalog = catalog]
    BY <1>2, <1>8
  <2>2. QED
    BY ONLY <1>4, <1>5, <2>1, Zenon DEF WalkAt
<1>15. w.files = [f \in Files |-> LaidOutFile(v, f)]
  <2>1. w.files = [f \in Files |-> [u.files[f] EXCEPT !.ext = ext(f)]]
    BY <1>2, <1>8
  <2>2. \A f \in Files : [u.files[f] EXCEPT !.ext = ext(f)] = LaidOutFile(v, f)
    BY <1>6 DEF LaidOutFile, u
  <2>3. QED
    BY ONLY <2>1, <2>2
<1>16. QED
  BY <1>2, <1>5, <1>12, <1>13, <1>14, <1>15 DEF WalkParts, w, u
LEMMA FilePlaces ==
  ASSUME NEW v, Own(v), NEW f \in Files
  PROVE  DataAtOf(v, f) \in Nat /\ EntryAtOf(v, f) \in Nat
<1>1. Places(v) /\ OwnFiles(v)
  BY OwnPlaces, OwnHas
<1>2. HasLens(v) /\ EntryFiles(v) = InTree(v, "udf") /\ InTree(v, "udf") \in SUBSET Files
  BY <1>1, OwnFilesHave DEF InTree
<1>3. DataBlocks(v, Earlier(v, f)) \in Nat
  BY <1>2, DataBlocksType
<1>4. {g \in EntryFiles(v) : g < EntryOf(v, f)} \in SUBSET Files
  BY <1>2
<1>5. Cardinality({g \in EntryFiles(v) : g < EntryOf(v, f)}) \in Nat
  BY <1>4, FilesFinite
<1>6. QED
  BY <1>1, <1>3, <1>5 DEF DataAtOf, EntryAtOf, Places

LaidFile(v, f, x) ==
  /\ DOMAIN x = DOMAIN NoFile /\ x.in = v.files[f].in /\ x.len = v.files[f].len
  /\ x.ce = v.files[f].ce /\ x.data = v.files[f].data /\ x.bytes = v.files[f].bytes
  /\ x.ext = DataAtOf(v, f) /\ x.fe \in Int
  /\ f \in InTree(v, "udf") => x.fe = EntryAtOf(v, f)
LEMMA LaidFileHas ==
  ASSUME NEW v, Own(v), NEW f \in Files
  PROVE  LaidFile(v, f, LaidOutFile(v, f))
<1>1. OwnFiles(v) /\ v.udf \in BOOLEAN
  BY OwnHas
<1>2. OwnFile(v, f)
  BY <1>1 DEF OwnFiles
<1>3. f \in InTree(v, "udf") => v.udf
  BY <1>1, <1>2 DEF InTree, OwnFile, TreesOf
<1>4. BeforeWalk(v).files[f] = LaidEntry(v, f)
  <2>1. CASE v.udf
    <3>1. UdfParts(v, LaidUdf(v))
      BY <2>1, LaidUdfHas
    <3>2. QED
      BY <2>1, <3>1 DEF UdfParts, BeforeWalk
  <2>2. CASE ~v.udf
    BY <1>3, <2>2 DEF BeforeWalk, LaidEntry
  <2>3. QED
    BY <2>1, <2>2
<1>5. DOMAIN v.files[f] = DOMAIN NoFile /\ v.files[f].fe \in Int
  BY <1>2 DEF OwnFile
<1>6. {"in", "len", "bytes", "ext", "fe", "numUdf", "ce", "data"} = DOMAIN NoFile
  BY DEF NoFile
<1>7. DataAtOf(v, f) \in Nat /\ EntryAtOf(v, f) \in Nat
  BY FilePlaces
<1> DEFINE e == LaidEntry(v, f)
<1>8. /\ DOMAIN e = DOMAIN NoFile /\ e.in = v.files[f].in /\ e.len = v.files[f].len
      /\ e.ce = v.files[f].ce /\ e.data = v.files[f].data /\ e.fe \in Int /\ e.bytes = v.files[f].bytes
      /\ f \in InTree(v, "udf") => e.fe = EntryAtOf(v, f)
  <2>1. CASE f \in InTree(v, "udf")
    <3>1. e = [v.files[f] EXCEPT !.fe = EntryAtOf(v, f)]
      BY <2>1 DEF LaidEntry
    <3> HIDE DEF e
    <3>2. QED
      BY <1>5, <1>6, <1>7, <3>1
  <2>2. CASE f \notin InTree(v, "udf")
    BY <1>5, <2>2 DEF LaidEntry
  <2>3. QED
    BY <2>1, <2>2
<1> HIDE DEF e
<1> DEFINE x == LaidOutFile(v, f)
<1>9. x = [e EXCEPT !.ext = DataAtOf(v, f)]
  BY <1>4 DEF LaidOutFile, e
<1> HIDE DEF x
<1>10. /\ DOMAIN x = DOMAIN NoFile /\ x.in = e.in /\ x.len = e.len
       /\ x.ce = e.ce /\ x.data = e.data /\ x.bytes = e.bytes /\ x.fe = e.fe /\ x.ext = DataAtOf(v, f)
  BY <1>6, <1>8, <1>9
<1>11. QED
  BY ONLY <1>8, <1>10 DEF LaidFile, x

\* The header.
LEMMA LaidHeaderOwn ==
  ASSUME NEW v, Own(v), NEW w, w.head = LaidHeader(v), w.catalog = v.catalog, w.joliet = v.joliet, w.udf = v.udf
  PROVE  /\ OwnHead(w)
         /\ \A k \in HeaderNames : /\ Len(w.head[k]) = Len(v.head[k])
                                   /\ \A i \in 1..Len(w.head[k]) : w.head[k][i].extent = HeaderAt(v, k) + i - 1
<1>1. OwnHead(v)
  BY OwnHas
<1>2. \A k \in HeaderNames : k # "boot" => 16 + Before(v.head, HeaderOrder, k) = HeaderAt(v, k)
  BY OwnHeadPlaces
<1>3. /\ Len(v.head["boot"]) = 0 /\ Len(v.head["pvd"]) \in Nat
      /\ One(v.catalog) \in 0..1 /\ One(v.joliet) \in 0..1 /\ One(v.udf) \in 0..1
  BY OwnHeadLens DEF HeadLens
<1>4. \A k \in HeaderNames : HeaderAt(v, k) \in Int
  <2> DEFINE p == Len(v.head["pvd"])
             b == One(v.catalog)
             s == One(v.joliet)
             u == One(v.udf)
  <2>1. /\ HeaderAt(v, "pvd") = 16 + 0 /\ HeaderAt(v, "br") = 16 + p
        /\ HeaderAt(v, "svd") = 16 + (p + b) /\ HeaderAt(v, "vdst") = 16 + (p + b + s)
        /\ HeaderAt(v, "bea") = 16 + (p + b + s + 1) /\ HeaderAt(v, "boot") = 16 + (p + b + s + 1)
        /\ HeaderAt(v, "nsr") = 16 + (p + b + s + 1 + u) /\ HeaderAt(v, "tea") = 16 + (p + b + s + 1 + 2 * u)
        /\ HeaderAt(v, "version") = 16 + (p + b + s + 1 + 3 * u)
    BY DEF HeaderAt
  <2>2. p \in Int /\ b \in Int /\ s \in Int /\ u \in Int
    BY <1>3
  <2> HIDE DEF p, b, s, u
  <2>3. 2 * u \in Int /\ 3 * u \in Int
    BY <2>2
  <2>4. /\ HeaderAt(v, "pvd") \in Int /\ HeaderAt(v, "br") \in Int /\ HeaderAt(v, "svd") \in Int
        /\ HeaderAt(v, "vdst") \in Int /\ HeaderAt(v, "bea") \in Int /\ HeaderAt(v, "boot") \in Int
        /\ HeaderAt(v, "nsr") \in Int /\ HeaderAt(v, "tea") \in Int /\ HeaderAt(v, "version") \in Int
    BY ONLY <2>1, <2>2, <2>3
  <2>5. QED
    BY ONLY <2>4, Names
<1> DEFINE y(k, i) == [extent |-> HeaderAt(v, k) + i - 1, is |-> v.head[k][i].is]
<1>5. ASSUME NEW k \in HeaderNames
      PROVE  w.head[k] = [i \in 1..Len(v.head[k]) |-> y(k, i)] /\ Len(v.head[k]) \in Nat
  <2>1. Len(v.head[k]) \in Nat
    BY <1>1 DEF OwnHead
  <2>2. w.head[k] = [i \in 1..Len(v.head[k]) |->
                       [v.head[k][i] EXCEPT !.extent = 16 + Before(v.head, HeaderOrder, k) + i - 1]]
    BY <1>1 DEF LaidHeader, OwnHead
  <2>3. ASSUME NEW i \in 1..Len(v.head[k])
        PROVE  [v.head[k][i] EXCEPT !.extent = 16 + Before(v.head, HeaderOrder, k) + i - 1] = y(k, i)
    <3>1. v.head[k] = [j \in 1..Len(v.head[k]) |-> [extent |-> v.head[k][j].extent, is |-> v.head[k][j].is]]
      BY <1>1 DEF OwnHead
    <3>2. v.head[k][i] = [extent |-> v.head[k][i].extent, is |-> v.head[k][i].is]
      BY ONLY <3>1, <2>3
    <3>3. k # "boot"
      BY <1>3, <2>3
    <3>4. 16 + Before(v.head, HeaderOrder, k) = HeaderAt(v, k)
      BY <1>2, <3>3
    <3>5. QED
      BY ONLY <3>2, <3>4
  <2>4. QED
    BY <2>1, <2>2, <2>3
<1>6. ASSUME NEW k \in HeaderNames
      PROVE  /\ Len(w.head[k]) = Len(v.head[k]) /\ Len(w.head[k]) \in Nat
             /\ \A i \in 1..Len(w.head[k]) : w.head[k][i] = y(k, i)
             /\ w.head[k] = [i \in 1..Len(w.head[k]) |-> y(k, i)]
  <2>1. w.head[k] = [i \in 1..Len(v.head[k]) |-> y(k, i)] /\ Len(v.head[k]) \in Nat
    BY <1>5
  <2> HIDE DEF y
  <2>2. Len(w.head[k]) = Len(v.head[k])
    BY ONLY <2>1
  <2>3. QED
    BY ONLY <2>1, <2>2
<1>7. \A k \in HeaderNames : \A i \in 1..Len(w.head[k]) :
        /\ w.head[k][i].extent = HeaderAt(v, k) + i - 1 /\ w.head[k][i].is = v.head[k][i].is
        /\ w.head[k][i].extent \in Int
  <2> TAKE k \in HeaderNames
  <2> TAKE i \in 1..Len(w.head[k])
  <2>1. w.head[k][i] = y(k, i)
    BY <1>6, Zenon
  <2>2. y(k, i).extent = HeaderAt(v, k) + i - 1 /\ y(k, i).is = v.head[k][i].is
    OBVIOUS
  <2>3. HeaderAt(v, k) \in Int /\ i \in Int
    BY <1>4
  <2> HIDE DEF y
  <2>4. QED
    BY ONLY <2>1, <2>2, <2>3
<1>8. \A k \in HeaderNames : HeaderCount(w, k) = HeaderCount(v, k)
  BY DEF HeaderCount
<1>9. ASSUME NEW k \in HeaderNames
      PROVE  /\ Len(w.head[k]) \in Nat
             /\ k # "pvd" => Len(w.head[k]) = HeaderCount(w, k)
             /\ w.head[k] = [i \in 1..Len(w.head[k]) |->
                              [extent |-> w.head[k][i].extent, is |-> w.head[k][i].is]]
             /\ \A i \in 1..Len(w.head[k]) : w.head[k][i].extent \in Int
  <2>1. \A i \in 1..Len(w.head[k]) : y(k, i) = [extent |-> w.head[k][i].extent, is |-> w.head[k][i].is]
    BY <1>6
  <2>2. k # "pvd" => Len(v.head[k]) = HeaderCount(v, k)
    BY <1>1 DEF OwnHead
  <2> HIDE DEF y
  <2>3. QED
    BY <1>6, <1>7, <1>8, <2>1, <2>2
<1>10. DOMAIN w.head = HeaderNames
  BY <1>1 DEF LaidHeader, OwnHead
<1>11. Len(w.head["pvd"]) >= 1 /\ (w.udf => Len(w.head["pvd"]) = 1)
  <2>1. Len(v.head["pvd"]) >= 1 /\ (v.udf => Len(v.head["pvd"]) = 1)
    BY <1>1 DEF OwnHead
  <2>2. "pvd" \in HeaderNames
    BY Names
  <2>3. Len(w.head["pvd"]) = Len(v.head["pvd"])
    BY ONLY <2>2, <1>6
  <2>4. QED
    BY <2>1, <2>3
<1>12. /\ Len(w.head["version"]) = 1
       /\ w.udf => Len(w.head["bea"]) = 1 /\ Len(w.head["nsr"]) = 1 /\ Len(w.head["tea"]) = 1
  <2>1. \A k \in {"version", "bea", "nsr", "tea"} : k \in HeaderNames /\ k # "pvd"
    BY Names
  <2>2. \A k \in {"version", "bea", "nsr", "tea"} : Len(w.head[k]) = HeaderCount(v, k)
    BY ONLY <1>9, <1>8, <2>1
  <2>3. /\ HeaderCount(v, "version") = 1
        /\ v.udf => HeaderCount(v, "bea") = 1 /\ HeaderCount(v, "nsr") = 1 /\ HeaderCount(v, "tea") = 1
    BY DEF HeaderCount, One
  <2>4. QED
    BY <2>2, <2>3
<1>13. /\ w.head["version"][1].is = Zero
       /\ w.udf => /\ w.head["bea"][1].is = [k |-> "vs", s |-> NewBEA]
                   /\ w.head["nsr"][1].is = [k |-> "vs", s |-> NewNSR]
                   /\ w.head["tea"][1].is = [k |-> "vs", s |-> NewTEA]
  <2>1. /\ v.head["version"][1].is = Zero
        /\ v.udf => /\ v.head["bea"][1].is = [k |-> "vs", s |-> NewBEA]
                    /\ v.head["nsr"][1].is = [k |-> "vs", s |-> NewNSR]
                    /\ v.head["tea"][1].is = [k |-> "vs", s |-> NewTEA]
    BY <1>1 DEF OwnHead
  <2>2. \A k \in {"version", "bea", "nsr", "tea"} : Len(w.head[k]) = 1 => w.head[k][1].is = v.head[k][1].is
    <3>1. \A k \in {"version", "bea", "nsr", "tea"} : k \in HeaderNames
      BY Names
    <3>2. 1 \in 1..1
      OBVIOUS
    <3>3. QED
      BY ONLY <1>7, <3>1, <3>2
  <2>3. QED
    BY <1>12, <2>1, <2>2
<1> HIDE DEF y
<1>14. OwnHead(w)
  BY <1>9, <1>10, <1>11, <1>13 DEF OwnHead
<1>15. QED
  BY <1>6, <1>7, <1>14
\* The UDF descriptors.
LEMMA IntegrityIs ==
  ASSUME NEW unique, NEW size, NEW files
  PROVE  Integrity(unique, size, files)
           = [date |-> Now, type |-> 1, next |-> ExtentAD(0, 0), unique |-> unique, free |-> <<0>>,
              sizes |-> <<size>>, useLength |-> 46,
              use |-> [impl |-> EntityID(0, "pycdlib"), files |-> files, dirs |-> 1, revision |-> 258]]
<1>1. [NewIntegrityUse EXCEPT !.files = files]
        = [impl |-> EntityID(0, "pycdlib"), files |-> files, dirs |-> 1, revision |-> 258]
  BY DEF NewIntegrityUse
<1> DEFINE n1 == [NewIntegrity EXCEPT !.unique = unique]
           n2 == [n1 EXCEPT !.sizes = <<size>>]
<1>2. n1 = [date |-> Now, type |-> 1, next |-> ExtentAD(0, 0), unique |-> unique, free |-> <<0>>,
            sizes |-> <<3>>, useLength |-> 46, use |-> NewIntegrityUse]
  BY DEF NewIntegrity
<1>3. Integrity(unique, size, files) = [n2 EXCEPT !.use.files = files]
  BY DEF Integrity
<1> HIDE DEF n1
<1>4. n2 = [date |-> Now, type |-> 1, next |-> ExtentAD(0, 0), unique |-> unique, free |-> <<0>>,
            sizes |-> <<size>>, useLength |-> 46, use |-> NewIntegrityUse]
  BY <1>2
<1> HIDE DEF n2
<1>5. [n2 EXCEPT !.use.files = files]
        = [date |-> Now, type |-> 1, next |-> ExtentAD(0, 0), unique |-> unique, free |-> <<0>>,
           sizes |-> <<size>>, useLength |-> 46, use |-> [NewIntegrityUse EXCEPT !.files = files]]
  BY <1>4
<1>6. QED
  BY <1>1, <1>3, <1>5

LEMMA AnchorIs ==
  ASSUME NEW a, NEW b
  PROVE  Anchor(a, b) = [main |-> ExtentAD(32768, a), reserve |-> ExtentAD(32768, b)]
<1>1. \A x, y : [ExtentAD(32768, x) EXCEPT !.location = y] = ExtentAD(32768, y)
  BY DEF ExtentAD
<1> DEFINE n1 == [NewAnchor EXCEPT !.main.location = a]
<1>2. NewAnchor = [main |-> ExtentAD(32768, 0), reserve |-> ExtentAD(32768, 0)]
  BY DEF NewAnchor
<1>3. n1 = [main |-> [ExtentAD(32768, 0) EXCEPT !.location = a], reserve |-> ExtentAD(32768, 0)]
  BY <1>2
<1>4. n1 = [main |-> ExtentAD(32768, a), reserve |-> ExtentAD(32768, 0)]
  BY <1>1, <1>3
<1>5. Anchor(a, b) = [n1 EXCEPT !.reserve.location = b]
  BY DEF Anchor
<1> HIDE DEF n1
<1>6. [n1 EXCEPT !.reserve.location = b] = [main |-> ExtentAD(32768, a), reserve |-> [ExtentAD(32768, 0) EXCEPT !.location = b]]
  BY <1>4
<1>7. QED
  BY <1>1, <1>5, <1>6

LEMMA LaidLvidOwn ==
  ASSUME NEW m, NEW unique, NEW size, NEW files, OwnDesc(m, 9, Integrity(unique, size, files)), NEW end
  PROVE  OwnDesc(LaidLvid(m, end), 9, Integrity(end, size, files)) /\ PlacedAt(LaidLvid(m, end), 64, 64)
<1>1. OwnDesc(At(m, 64), 9, Integrity(unique, size, files)) /\ PlacedAt(At(m, 64), 64, 64)
  BY AtOwn
<1> DEFINE n == At(m, 64)
<1> HIDE DEF n
<1>2. PICK loc \in Int, crc \in {-1, BodyLength}, x \in Int : n = Made(9, loc, crc, Integrity(unique, size, files), x)
  BY <1>1, OwnMade DEF n
<1>3. [Integrity(unique, size, files) EXCEPT !.unique = end] = Integrity(end, size, files)
  BY IntegrityIs
<1>4. [n EXCEPT !.body.unique = end] = Made(9, loc, crc, [Integrity(unique, size, files) EXCEPT !.unique = end], x)
  BY <1>2 DEF Made
<1>5. LaidLvid(m, end) = Made(9, loc, crc, Integrity(end, size, files), x)
  BY <1>3, <1>4 DEF LaidLvid, n
<1>6. loc = 64 /\ x = 64
  BY <1>1, <1>2 DEF PlacedAt, Made, n
<1>7. OwnDesc(Made(9, loc, crc, Integrity(end, size, files), x), 9, Integrity(end, size, files))
  BY MadeOwn
<1>8. PlacedAt(Made(9, loc, crc, Integrity(end, size, files), x), 64, 64)
  BY <1>6 DEF PlacedAt, Made
<1>9. QED
  BY <1>5, <1>7, <1>8

LEMMA AnchorAtOwn ==
  ASSUME NEW m, NEW a, NEW b, OwnDesc(m, 2, Anchor(a, b)), NEW e \in Int
  PROVE  OwnDesc(AnchorAt(m, e), 2, Anchor(32, 48)) /\ PlacedAt(AnchorAt(m, e), e, e)
<1> DEFINE n == At(m, e)
           n1 == [n EXCEPT !.body.main.location = 32]
<1>1. OwnDesc(n, 2, Anchor(a, b)) /\ PlacedAt(n, e, e)
  BY AtOwn, Zenon
<1>2. AnchorAt(m, e) = [n1 EXCEPT !.body.reserve.location = 48]
  BY DEF AnchorAt
<1> HIDE DEF n
<1>3. PICK loc \in Int, crc \in {-1, BodyLength}, x \in Int : n = Made(2, loc, crc, Anchor(a, b), x)
  BY <1>1, OwnMade
<1>4. \A x1, y1 : [ExtentAD(32768, x1) EXCEPT !.location = y1] = ExtentAD(32768, y1)
  BY DEF ExtentAD
<1>5. [Anchor(a, b) EXCEPT !.main.location = 32] = Anchor(32, b)
  <2>1. [Anchor(a, b) EXCEPT !.main.location = 32]
          = [main |-> [ExtentAD(32768, a) EXCEPT !.location = 32], reserve |-> ExtentAD(32768, b)]
    BY AnchorIs
  <2>2. QED
    BY <1>4, <2>1, AnchorIs
<1>6. [Anchor(32, b) EXCEPT !.reserve.location = 48] = Anchor(32, 48)
  <2>1. [Anchor(32, b) EXCEPT !.reserve.location = 48]
          = [main |-> ExtentAD(32768, 32), reserve |-> [ExtentAD(32768, b) EXCEPT !.location = 48]]
    BY AnchorIs
  <2>2. QED
    BY <1>4, <2>1, AnchorIs
<1>7. n1 = Made(2, loc, crc, [Anchor(a, b) EXCEPT !.main.location = 32], x)
  BY <1>3 DEF Made
<1>8. n1 = Made(2, loc, crc, Anchor(32, b), x)
  BY <1>5, <1>7
<1> HIDE DEF n1
<1>9. [n1 EXCEPT !.body.reserve.location = 48] = Made(2, loc, crc, [Anchor(32, b) EXCEPT !.reserve.location = 48], x)
  BY <1>8 DEF Made
<1>10. AnchorAt(m, e) = Made(2, loc, crc, Anchor(32, 48), x)
  BY <1>2, <1>6, <1>9
<1>11. loc = e /\ x = e
  BY <1>1, <1>3 DEF PlacedAt, Made
<1>12. OwnDesc(Made(2, loc, crc, Anchor(32, 48), x), 2, Anchor(32, 48))
  BY MadeOwn
<1>13. PlacedAt(Made(2, loc, crc, Anchor(32, 48), x), e, e)
  BY <1>11 DEF PlacedAt, Made
<1>14. QED
  BY <1>10, <1>12, <1>13

LEMMA LaidSetOwn ==
  ASSUME NEW m, OwnDesc(m, 256, NewFileSet)
  PROVE  /\ OwnDesc(LaidSet(m), 256, NewFileSet) /\ LaidSet(m).extent = PartStart
         /\ LaidSet(m).tag.loc = m.tag.loc
<1>1. PICK loc \in Int, crc \in {-1, BodyLength}, x \in Int :
        m = Made(256, loc, crc, NewFileSet, x) /\ m.tag.loc = loc
  BY OwnMade
<1>2. LaidSet(m) = Made(256, loc, crc, NewFileSet, PartStart)
  BY <1>1 DEF LaidSet, Made
<1>3. PartStart \in Int
  BY DEF PartStart
<1>4. OwnDesc(Made(256, loc, crc, NewFileSet, PartStart), 256, NewFileSet)
  BY <1>3, MadeOwn
<1>5. /\ Made(256, loc, crc, NewFileSet, PartStart).extent = PartStart
      /\ Made(256, loc, crc, NewFileSet, PartStart).tag.loc = loc
  BY DEF Made
<1>6. QED
  BY <1>1, <1>2, <1>4, <1>5

LEMMA LaidSetEndOwn ==
  ASSUME NEW m, OwnDesc(m, 8, NewTerminator)
  PROVE  OwnDesc(LaidSetEnd(m), 8, NewTerminator) /\ PlacedAt(LaidSetEnd(m), PartStart + 1, 1)
<1>1. PICK loc \in Int, crc \in {-1, BodyLength}, x \in Int : m = Made(8, loc, crc, NewTerminator, x)
  BY OwnMade
<1> DEFINE n == [m EXCEPT !.extent = PartStart + 1]
           T(l) == [ident |-> 8, version |-> 2, serial |-> 0, loc |-> l, crcLen |-> crc]
<1>2. LaidSetEnd(m) = [n EXCEPT !.tag.loc = 1]
  BY DEF LaidSetEnd
<1>3. [T(loc) EXCEPT !.loc = 1] = T(1)
  OBVIOUS
<1>4. \A l, e : Made(8, l, crc, NewTerminator, e) = [tag |-> T(l), body |-> NewTerminator, extent |-> e]
  BY DEF Made
<1> HIDE DEF T
<1>5. n = [tag |-> T(loc), body |-> NewTerminator, extent |-> PartStart + 1]
  BY <1>1, <1>4
<1> HIDE DEF n
<1>6. [n EXCEPT !.tag.loc = 1] = [tag |-> [T(loc) EXCEPT !.loc = 1], body |-> NewTerminator, extent |-> PartStart + 1]
  BY <1>5
<1>7. LaidSetEnd(m) = Made(8, 1, crc, NewTerminator, PartStart + 1)
  BY <1>2, <1>3, <1>4, <1>6
<1>8. PartStart + 1 \in Int /\ 1 \in Int
  BY DEF PartStart
<1>9. OwnDesc(Made(8, 1, crc, NewTerminator, PartStart + 1), 8, NewTerminator)
  BY <1>8, MadeOwn
<1>10. PlacedAt(Made(8, 1, crc, NewTerminator, PartStart + 1), PartStart + 1, 1)
  BY DEF PlacedAt, Made
<1>11. QED
  BY <1>7, <1>9, <1>10
LEMMA LaidUdfOwn ==
  ASSUME NEW v, Own(v), v.udf, NEW w, UdfKeptByWalk(v, w), WalkParts(v, w), w.udf = v.udf,
         w.catalog = v.catalog, EndAt(w) = EndAt(v)
  PROVE  OwnUdf(w) /\ UdfPlaced(w) /\ Len(w.setEnd) = Len(v.setEnd)
<1> DEFINE u == LaidUdf(v)
           e == EndAt(v)
<1>1. OwnUdf(v) /\ e \in Int /\ DOMAIN v.at = DOMAIN NoPlaces
  BY OwnHas, OwnPlaces DEF Places
<1>2. UdfParts(v, u)
  BY LaidUdfHas
<1>3. /\ w.main = u.main /\ w.reserve = u.reserve /\ w.lvid = u.lvid /\ w.lvidEnd = u.lvidEnd
      /\ w.set = u.set /\ w.setEnd = u.setEnd
      /\ w.anchors = <<AnchorAt(v.anchors[1], 256), AnchorAt(v.anchors[2], e)>>
      /\ w.at = WalkAt(v, u.at)
  BY DEF UdfKeptByWalk, WalkParts, BeforeWalk
<1>4. /\ v.lvid = <<v.lvid[1]>> /\ v.lvidEnd = <<v.lvidEnd[1]>>
      /\ v.set = <<v.set[1]>> /\ v.setEnd = <<v.setEnd[1]>> /\ v.lvid # <<>>
  <2>1. /\ v.lvid = <<v.lvid[1]>> /\ v.lvidEnd = <<v.lvidEnd[1]>>
        /\ v.set = <<v.set[1]>> /\ v.setEnd = <<v.setEnd[1]>>
    BY <1>1 DEF OwnUdf
  <2>2. QED
    BY <2>1, Single, Zenon
<1> HIDE DEF u, e
\* The sequences.
<1>5. SequenceAt(w.main, 32, e - PartStart) /\ SequenceAt(w.reserve, 48, e - PartStart)
  <2>1. PICK start \in Int, integrity \in Int :
          \A s \in {v.main, v.reserve} : OwnSequence(s, start, e - PartStart, integrity)
    BY <1>1 DEF OwnUdf, e
  <2>2. OwnSequence(v.main, start, e - PartStart, integrity) /\ OwnSequence(v.reserve, start, e - PartStart, integrity)
    BY <2>1
  <2>3. 32 \in Int /\ 48 \in Int
    OBVIOUS
  <2>4. SequenceAt(ToldSequence(v, v.main, 32), 32, e - PartStart)
    BY ONLY <1>4, <2>2, <2>3, ToldSequencePlaced, Zenon
  <2>5. SequenceAt(ToldSequence(v, v.reserve, 48), 48, e - PartStart)
    BY ONLY <1>4, <2>2, <2>3, ToldSequencePlaced, Zenon
  <2>6. w.main = ToldSequence(v, v.main, 32) /\ w.reserve = ToldSequence(v, v.reserve, 48)
    BY <1>2, <1>3 DEF UdfParts
  <2>7. QED
    BY <2>4, <2>5, <2>6
<1>6. /\ OwnSequence(w.main, PartStart, e - PartStart, 64) /\ OwnSequence(w.reserve, PartStart, e - PartStart, 64)
      /\ SequenceIs(w.main, 32, w) /\ SequenceIs(w.reserve, 48, w)
  BY <1>5 DEF SequenceAt, SequenceIs, e
\* The integrity sequence.
<1>7. /\ w.lvid = <<w.lvid[1]>> /\ w.lvid[1] = LaidLvid(v.lvid[1], UdfEnd(v))
      /\ w.lvidEnd = <<w.lvidEnd[1]>> /\ w.lvidEnd[1] = At(v.lvidEnd[1], 65)
      /\ w.set = <<w.set[1]>> /\ w.set[1] = LaidSet(v.set[1])
      /\ w.setEnd = <<w.setEnd[1]>> /\ w.setEnd[1] = LaidSetEnd(v.setEnd[1])
  <2>1. \A x : <<x>>[1] = x
    OBVIOUS
  <2>2. /\ w.lvid = <<LaidLvid(v.lvid[1], UdfEnd(v))>> /\ w.lvidEnd = <<At(v.lvidEnd[1], 65)>>
        /\ w.set = <<LaidSet(v.set[1])>> /\ w.setEnd = <<LaidSetEnd(v.setEnd[1])>>
    BY <1>2, <1>3 DEF UdfParts
  <2>3. QED
    BY ONLY <2>1, <2>2, Zenon
<1>8. PICK unique \in Int, files \in Int : OwnDesc(v.lvid[1], 9, Integrity(unique, e - PartStart, files))
  BY <1>1 DEF OwnUdf, e
<1>9. OwnDesc(w.lvid[1], 9, Integrity(UdfEnd(v), e - PartStart, files)) /\ PlacedAt(w.lvid[1], 64, 64)
  <2>1. OwnDesc(LaidLvid(v.lvid[1], UdfEnd(v)), 9, Integrity(UdfEnd(v), e - PartStart, files))
        /\ PlacedAt(LaidLvid(v.lvid[1], UdfEnd(v)), 64, 64)
    BY ONLY <1>8, LaidLvidOwn
  <2>2. QED
    BY ONLY <1>7, <2>1
<1>10. UdfEnd(v) \in Int
  <2>1. TreeStart(v) \in Nat /\ TreeStart(v) = UdfEnd(v)
    BY OwnPlaces DEF Places, TreeStart
  <2>2. QED
    BY <2>1
<1>11. OwnDesc(w.lvidEnd[1], 8, NewTerminator) /\ PlacedAt(w.lvidEnd[1], 65, 65)
  <2>1. OwnDesc(v.lvidEnd[1], 8, NewTerminator)
    BY <1>1 DEF OwnUdf
  <2>2. 65 \in Int
    OBVIOUS
  <2>3. QED
    BY ONLY <1>7, <2>1, <2>2, AtOwn, Zenon
<1>12. /\ OwnDesc(w.set[1], 256, NewFileSet) /\ PlacedAt(w.set[1], PartStart, 0)
  <2>1. OwnDesc(v.set[1], 256, NewFileSet) /\ v.set[1].tag.loc = 0
    BY <1>1 DEF OwnUdf
  <2>2. /\ OwnDesc(LaidSet(v.set[1]), 256, NewFileSet) /\ LaidSet(v.set[1]).extent = PartStart
        /\ LaidSet(v.set[1]).tag.loc = v.set[1].tag.loc
    BY <2>1, LaidSetOwn
  <2>3. QED
    BY ONLY <1>7, <2>1, <2>2 DEF PlacedAt
<1>13. OwnDesc(w.setEnd[1], 8, NewTerminator) /\ PlacedAt(w.setEnd[1], PartStart + 1, 1)
  <2>1. OwnDesc(v.setEnd[1], 8, NewTerminator)
    BY <1>1 DEF OwnUdf
  <2>2. QED
    BY ONLY <1>7, <2>1, LaidSetEndOwn, Zenon
\* The anchors.
<1>14. /\ w.anchors = <<w.anchors[1], w.anchors[2]>>
       /\ w.anchors[1] = AnchorAt(v.anchors[1], 256) /\ w.anchors[2] = AnchorAt(v.anchors[2], e)
  <2>1. w.anchors = <<AnchorAt(v.anchors[1], 256), AnchorAt(v.anchors[2], e)>>
    BY <1>3
  <2>2. w.anchors[1] = AnchorAt(v.anchors[1], 256) /\ w.anchors[2] = AnchorAt(v.anchors[2], e)
    BY ONLY <2>1
  <2>3. QED
    BY ONLY <2>1, <2>2
<1>15. /\ OwnDesc(w.anchors[1], 2, Anchor(32, 48)) /\ PlacedAt(w.anchors[1], 256, 256)
       /\ OwnDesc(w.anchors[2], 2, Anchor(32, 48)) /\ PlacedAt(w.anchors[2], e, e)
  <2>1. \A i \in 1..2 : \E main, reserve \in Int : OwnDesc(v.anchors[i], 2, Anchor(main, reserve))
    BY <1>1 DEF OwnUdf
  <2>2. 1 \in 1..2 /\ 2 \in 1..2 /\ 256 \in Int
    OBVIOUS
  <2>3. PICK m1, r1 : OwnDesc(v.anchors[1], 2, Anchor(m1, r1))
    BY <2>1, <2>2
  <2>4. PICK m2, r2 : OwnDesc(v.anchors[2], 2, Anchor(m2, r2))
    BY <2>1, <2>2
  <2>5. OwnDesc(w.anchors[1], 2, Anchor(32, 48)) /\ PlacedAt(w.anchors[1], 256, 256)
    <3>1. OwnDesc(AnchorAt(v.anchors[1], 256), 2, Anchor(32, 48)) /\ PlacedAt(AnchorAt(v.anchors[1], 256), 256, 256)
      BY ONLY <2>2, <2>3, AnchorAtOwn
    <3>2. QED
      BY ONLY <1>14, <3>1
  <2>6. OwnDesc(w.anchors[2], 2, Anchor(32, 48)) /\ PlacedAt(w.anchors[2], e, e)
    <3>1. OwnDesc(AnchorAt(v.anchors[2], e), 2, Anchor(32, 48)) /\ PlacedAt(AnchorAt(v.anchors[2], e), e, e)
      BY ONLY <1>1, <2>4, AnchorAtOwn
    <3>2. QED
      BY ONLY <1>14, <3>1
  <2>7. QED
    BY <2>5, <2>6
<1>16. w.anchors[1].body = Anchor(32, 48) /\ w.anchors[2].body = Anchor(32, 48)
  BY ONLY <1>15, OwnMade
\* The places of the tree.
<1>17. w.at.root = RootAt /\ w.at.idents = RootAt + 1 /\ w.at.catalogFe = RootAt + 2
  <2>1. u.at = [v.at EXCEPT !.root = RootAt, !.idents = RootAt + 1, !.catalogFe = RootAt + 2]
    BY <1>2 DEF UdfParts
  <2>2. {"root", "idents", "catalogFe"} \subseteq DOMAIN v.at
    BY <1>1 DEF NoPlaces
  <2>3. u.at.root = RootAt /\ u.at.idents = RootAt + 1 /\ u.at.catalogFe = RootAt + 2
    BY <2>1, <2>2
  <2>4. w.at.root = u.at.root /\ w.at.idents = u.at.idents /\ w.at.catalogFe = u.at.catalogFe
    BY <1>3, <2>1, <2>2 DEF WalkAt
  <2>5. QED
    BY <2>3, <2>4
<1>18. OwnUdf(w)
  <2>1. \E start, integrity \in Int :
          \A s \in {w.main, w.reserve} : OwnSequence(s, start, EndAt(w) - PartStart, integrity)
    <3>1. PartStart \in Int /\ 64 \in Int
      BY DEF PartStart
    <3>2. \A s \in {w.main, w.reserve} : OwnSequence(s, PartStart, EndAt(w) - PartStart, 64)
      BY <1>6 DEF e
    <3>3. QED
      BY ONLY <3>1, <3>2
  <2>2. \E x, y \in Int : OwnDesc(w.lvid[1], 9, Integrity(x, EndAt(w) - PartStart, y))
    BY <1>8, <1>9, <1>10 DEF e
  <2>3. \A i \in 1..2 : \E main, reserve \in Int : OwnDesc(w.anchors[i], 2, Anchor(main, reserve))
    <3>1. \A i \in 1..2 : OwnDesc(w.anchors[i], 2, Anchor(32, 48))
      BY <1>15, 1..2 = {1, 2}
    <3>2. QED
      BY ONLY <3>1, 32 \in Int, 48 \in Int
  <2>4. w.set[1].tag.loc = 0
    BY <1>12 DEF PlacedAt
  <2>5. QED
    BY ONLY <1>7, <1>11, <1>12, <1>13, <1>14, <2>1, <2>2, <2>3, <2>4 DEF OwnUdf
<1>19. UdfPlaced(w)
  BY ONLY <1>6, <1>9, <1>11, <1>12, <1>13, <1>15, <1>16, <1>17, EndAt(w) = EndAt(v) DEF UdfPlaced, e
<1>20. Len(w.setEnd) = Len(v.setEnd)
  BY <1>4, <1>7, Single, Zenon
<1>21. QED
  BY <1>18, <1>19, <1>20
SameData(v, w) ==
  \A f \in Files : /\ w.files[f].in = v.files[f].in /\ w.files[f].len = v.files[f].len
                   /\ w.files[f].data = v.files[f].data /\ w.files[f].bytes = v.files[f].bytes
LEMMA SaysSame ==
  ASSUME NEW v, NEW w, NEW t, SameData(v, w), Says(v, t)
  PROVE  Says(w, t)
BY DEF SameData, Says

\* Files that have the same things are as good.
LEMMA OwnFilesSame ==
  ASSUME NEW v, NEW w, OwnFiles(v), AlikeFiles(v, w), SameData(v, w), w.shared = v.shared, w.blocks = v.blocks,
         w.udf = v.udf, w.joliet = v.joliet, w.rr = v.rr, w.catalog = v.catalog,
         w.files = [f \in Files |-> w.files[f]],
         \A f \in Files : DOMAIN w.files[f] = DOMAIN NoFile /\ w.files[f].ext \in Int /\ w.files[f].fe \in Int
  PROVE  OwnFiles(w)
<1>1. ASSUME NEW f \in Files PROVE OwnFile(w, f)
  <2>1. OwnFile(v, f)
    BY DEF OwnFiles
  <2>2. /\ w.files[f].in = v.files[f].in /\ w.files[f].len = v.files[f].len
        /\ w.files[f].data = v.files[f].data /\ w.files[f].ce = v.files[f].ce
        /\ w.files[f].bytes = v.files[f].bytes
    BY DEF SameData, AlikeFiles
  <2>3. TreesOf(w) = TreesOf(v)
    BY DEF TreesOf
  <2>4. /\ v.files[f].in \subseteq TreesOf(v) /\ v.files[f].len \in Nat
        /\ v.files[f].ce \in {"none", "own"} /\ (v.files[f].ce = "own" => v.rr /\ "iso" \in v.files[f].in)
        /\ v.files[f].data = [i \in 1..v.files[f].len |-> v.files[f].data[i]]
        /\ v.files[f].bytes = [u \in v.files[f].in |-> v.files[f].bytes[u]]
        /\ v.files[f].in = {} => v.files[f].len = 0
    BY <2>1 DEF OwnFile
  <2>5. DOMAIN w.files[f] = DOMAIN NoFile /\ w.files[f].ext \in Int /\ w.files[f].fe \in Int
    OBVIOUS
  <2>6. /\ w.files[f].data = [i \in 1..w.files[f].len |-> w.files[f].data[i]]
        /\ w.files[f].bytes = [u \in w.files[f].in |-> w.files[f].bytes[u]]
    BY <2>2, <2>4
  <2>7. QED
    BY ONLY <2>2, <2>3, <2>4, <2>5, <2>6, w.rr = v.rr DEF OwnFile
<1>2. OneShared(w)
  <2>1. OneShared(v)
    BY OwnFilesHave
  <2>2. QED
    BY <2>1 DEF OneShared
<1>3. Present(w) = Present(v) /\ UsedBlocks(w) = UsedBlocks(v) /\ InTree(w, "iso") = InTree(v, "iso")
  BY <1>2, AlikeFilesSame
<1>4. InTree(v, "iso") \in SUBSET Files /\ Present(v) \in SUBSET Files
  BY DEF InTree, Present
<1>5. \A f \in Files : w.files[f].len = v.files[f].len
  BY DEF SameData
<1>6. \A f, g \in Present(w) : w.files[f].len = 0 /\ w.files[g].len = 0 => f = g
  <2>1. \A f, g \in Present(v) : v.files[f].len = 0 /\ v.files[g].len = 0 => f = g
    BY Zenon DEF OwnFiles
  <2>2. QED
    BY ONLY <1>3, <1>4, <1>5, <2>1
<1>7. w.boot \subseteq {f \in InTree(w, "iso") : w.files[f].len > 0}
  BY <1>3, <1>4, <1>5 DEF OwnFiles, AlikeFiles
<1>8. w.boot # {} => w.catalog
  BY DEF OwnFiles, AlikeFiles
<1>9. w.shared \subseteq {f \in Present(w) : w.files[f].len = 0}
  <2>1. v.shared \subseteq {f \in Present(v) : v.files[f].len = 0}
    BY Zenon DEF OwnFiles
  <2>2. QED
    BY ONLY <1>3, <1>4, <1>5, <2>1, w.shared = v.shared
<1>10. w.blocks \ {"er"} = UsedBlocks(w) /\ ("er" \in w.blocks => w.rr)
  BY <1>3 DEF OwnFiles
<1>11. QED
  BY <1>1, <1>6, <1>7, <1>8, <1>9, <1>10 DEF OwnFiles

WalkKeeps(v, w) ==
  /\ Own(w) /\ Placed(w) /\ Alike(v, w) /\ SameData(v, w) /\ w.pending = FALSE
  /\ w.space = v.space
LEMMA LaidOutLaid ==
  ASSUME NEW v, Own(v)
  PROVE  WalkKeeps(v, LaidOut(v).vol) /\ LaidOut(v).end = EndAt(v)
<1> DEFINE w == LaidOut(v).vol
<1>1. LaidOut(v).end = EndAt(v) /\ KeptByWalk(v, w) /\ UdfKeptByWalk(v, w) /\ WalkParts(v, w)
  BY LaidOutHas
<1> HIDE DEF w
<1>2. /\ DOMAIN w = DOMAIN NoVolume
      /\ w.udf = v.udf /\ w.joliet = v.joliet /\ w.rr = v.rr
      /\ w.tables = v.tables /\ w.jtables = v.jtables /\ w.blocks = v.blocks
      /\ w.catalog = v.catalog /\ w.boot = v.boot /\ w.shared = v.shared /\ w.space = v.space
      /\ w.pending = FALSE /\ w.head = LaidHeader(v)
  BY <1>1 DEF KeptByWalk
<1>3. /\ v.udf \in BOOLEAN /\ v.joliet \in BOOLEAN /\ v.rr \in BOOLEAN /\ v.catalog \in BOOLEAN
      /\ v.tables = 2 /\ v.jtables = (IF v.joliet THEN 2 ELSE 0) /\ DOMAIN v.at = DOMAIN NoPlaces
      /\ OwnFiles(v) /\ (v.udf => OwnUdf(v)) /\ (~v.udf => NoUdf(v)) /\ v.space = EndAt(v) + One(v.udf)
  BY OwnHas
<1>4. w.files = [f \in Files |-> LaidOutFile(v, f)]
  BY <1>1 DEF WalkParts
<1>5. \A f \in Files : LaidFile(v, f, w.files[f])
  BY <1>4, LaidFileHas
<1>6. SameData(v, w) /\ AlikeFiles(v, w)
  BY <1>2, <1>5 DEF SameData, AlikeFiles, LaidFile
<1>7. OneShared(v) /\ OneShared(w)
  BY <1>2, <1>3, OwnFilesHave DEF OneShared
<1>8. /\ OwnHead(w)
      /\ \A k \in HeaderNames : /\ Len(w.head[k]) = Len(v.head[k])
                                /\ \A i \in 1..Len(w.head[k]) : w.head[k][i].extent = HeaderAt(v, k) + i - 1
  BY ONLY <1>2, LaidHeaderOwn, Own(v)
<1>9. Len(w.setEnd) = Len(v.setEnd)
  <2>1. CASE v.udf
    <3>1. UdfParts(v, LaidUdf(v))
      BY <2>1, LaidUdfHas
    <3>2. w.setEnd = <<LaidSetEnd(v.setEnd[1])>>
      BY <1>1, <2>1, <3>1 DEF UdfKeptByWalk, BeforeWalk, UdfParts
    <3>3. v.setEnd = <<v.setEnd[1]>>
      BY <1>3, <2>1 DEF OwnUdf
    <3>4. \A x : Len(<<x>>) = 1
      OBVIOUS
    <3>5. QED
      BY ONLY <3>2, <3>3, <3>4, Zenon
  <2>2. CASE ~v.udf
    BY <1>1, <2>2 DEF UdfKeptByWalk, BeforeWalk
  <2>3. QED
    BY <1>3, <2>1, <2>2
<1>10. Alike(v, w)
  BY <1>2, <1>6, <1>8, <1>9 DEF Alike
<1>11. AlikePlaces(v, w)
  BY <1>3, <1>7, <1>10, AlikeSame
<1>12. /\ HeaderEnd(w) = HeaderEnd(v) /\ TreeStart(w) = TreeStart(v) /\ IsoAt(w) = IsoAt(v)
       /\ JolietAt(w) = JolietAt(v) /\ ErAt(w) = ErAt(v) /\ CatalogAt(w) = CatalogAt(v)
       /\ DataAt(w) = DataAt(v) /\ EndAt(w) = EndAt(v)
       /\ \A k \in HeaderNames : HeaderAt(w, k) = HeaderAt(v, k)
       /\ \A f \in Files : DataAtOf(w, f) = DataAtOf(v, f)
       /\ \A f \in InTree(v, "udf") : EntryAtOf(w, f) = EntryAtOf(v, f)
  BY <1>11 DEF AlikePlaces
<1>13. OwnFiles(w)
  <2>1. w.files = [f \in Files |-> w.files[f]]
    BY <1>4
  <2>2. \A f \in Files : DOMAIN w.files[f] = DOMAIN NoFile /\ w.files[f].ext \in Int /\ w.files[f].fe \in Int
    BY <1>5, FilePlaces DEF LaidFile
  <2>3. QED
    BY ONLY <1>2, <1>3, <1>6, <2>1, <2>2, OwnFilesSame
<1>14. IF w.udf THEN OwnUdf(w) /\ UdfPlaced(w) ELSE NoUdf(w)
  <2>1. CASE v.udf
    <3>1. OwnUdf(w) /\ UdfPlaced(w)
      BY ONLY <1>1, <1>2, <1>12, <2>1, LaidUdfOwn, Own(v)
    <3>2. QED
      BY <1>2, <2>1, <3>1
  <2>2. CASE ~v.udf
    <3>1. NoUdf(v)
      BY <1>3, <2>2
    <3>2. /\ w.main = v.main /\ w.reserve = v.reserve /\ w.lvid = v.lvid /\ w.lvidEnd = v.lvidEnd
          /\ w.set = v.set /\ w.setEnd = v.setEnd /\ w.anchors = v.anchors
      BY <1>1, <2>2 DEF UdfKeptByWalk, BeforeWalk
    <3>3. QED
      BY <1>2, <2>2, <3>1, <3>2 DEF NoUdf
  <2>3. QED
    BY <1>3, <2>1, <2>2
<1>15. /\ w.at.le = TreeStart(v) /\ w.at.be = TreeStart(v) + 2 /\ w.at.jle = TreeStart(v) + 4
       /\ w.at.jbe = TreeStart(v) + 4 + v.jtables /\ w.at.iso = IsoAt(v)
       /\ w.at.ce = IsoAt(v) + 1 /\ w.at.joliet = JolietAt(v) /\ w.at.er = ErAt(v) /\ w.at.catalog = CatalogAt(v)
       /\ DOMAIN w.at = DOMAIN NoPlaces
  <2> DEFINE a == BeforeWalk(v).at
  <2>1. DOMAIN a = DOMAIN NoPlaces
    <3>1. CASE v.udf
      <4>1. UdfParts(v, LaidUdf(v))
        BY <3>1, LaidUdfHas
      <4>2. a = [v.at EXCEPT !.root = RootAt, !.idents = RootAt + 1, !.catalogFe = RootAt + 2]
        BY <3>1, <4>1 DEF UdfParts, BeforeWalk
      <4>3. QED
        BY ONLY <1>3, <4>2
    <3>2. CASE ~v.udf
      BY <1>3, <3>2 DEF BeforeWalk
    <3>3. QED
      BY <1>3, <3>1, <3>2
  <2>2. w.at = WalkAt(v, a)
    BY <1>1 DEF WalkParts
  <2> HIDE DEF a
  <2>3. DOMAIN w.at = DOMAIN NoPlaces
    BY <2>1, <2>2 DEF WalkAt
  <2>4. {"le", "be", "jle", "jbe", "iso", "ce", "joliet", "er", "catalog"} \subseteq DOMAIN a
    BY <2>1 DEF NoPlaces
  <2>5. QED
    BY <2>2, <2>3, <2>4 DEF WalkAt
<1>16. Own(w)
  <2>1. {w.udf, w.joliet, w.rr, w.catalog, w.pending} \subseteq BOOLEAN
    BY <1>2, <1>3
  <2>2. w.space = EndAt(w) + One(w.udf)
    BY <1>2, <1>3, <1>12
  <2>3. w.tables = 2 /\ w.jtables = IF w.joliet THEN 2 ELSE 0
    BY <1>2, <1>3
  <2>4. IF w.udf THEN OwnUdf(w) ELSE NoUdf(w)
    BY <1>14
  <2>5. QED
    BY ONLY <1>2, <1>8, <1>13, <1>15, <2>1, <2>2, <2>3, <2>4 DEF Own
<1>17. Placed(w)
  <2>1. \A k \in HeaderNames : \A i \in 1..Len(w.head[k]) : w.head[k][i].extent = HeaderAt(w, k) + i - 1
    BY <1>8, <1>12
  <2>2. w.udf => UdfPlaced(w)
    BY <1>14
  <2>3. w.at.le = TreeStart(w) /\ w.at.be = TreeStart(w) + 2 /\ w.at.iso = IsoAt(w)
    BY <1>12, <1>15
  <2>4. w.joliet => /\ w.at.jle = TreeStart(w) + 4 /\ w.at.jbe = TreeStart(w) + 6
                    /\ w.at.joliet = JolietAt(w)
    <3>1. TreeStart(v) \in Nat
      BY OwnPlaces DEF Places
    <3>2. w.joliet => v.jtables = 2
      BY <1>2, <1>3
    <3>3. w.joliet => TreeStart(v) + 4 + v.jtables = TreeStart(v) + 6
      BY <3>1, <3>2
    <3>4. QED
      BY <1>12, <1>15, <3>3
  <2>5. /\ w.rr => w.at.er = ErAt(w)
        /\ w.catalog => w.at.catalog = CatalogAt(w)
        /\ UsedBlocks(w) # {} => w.at.ce = IsoAt(w) + 1
    BY <1>12, <1>15
  <2>6. \A f \in Present(w) : w.files[f].ext = DataAtOf(w, f)
    BY <1>5, <1>12 DEF Present, LaidFile
  <2>7. \A f \in InTree(w, "udf") : w.files[f].fe = EntryAtOf(w, f)
    <3>1. InTree(w, "udf") = InTree(v, "udf") /\ InTree(v, "udf") \in SUBSET Files
      BY <1>6 DEF InTree, SameData
    <3>2. QED
      BY <1>5, <1>12, <3>1 DEF LaidFile
  <2>8. QED
    BY <2>1, <2>2, <2>3, <2>4, <2>5, <2>6, <2>7 DEF Placed
<1>18. QED
  BY <1>1, <1>2, <1>6, <1>10, <1>16, <1>17 DEF WalkKeeps, w

LEMMA LayoutEnds ==
  ASSUME NEW v, Own(v)
  PROVE  LayoutRaises(v) = "none"
<1>1. v.udf \in BOOLEAN /\ (v.udf => OwnUdf(v)) /\ v.space = EndAt(v) + One(v.udf)
  BY OwnHas
<1>2. EndAt(v) \in Nat /\ One(v.udf) \in 0..1 /\ (v.udf => HeaderEnd(v) <= 24) /\ HeaderEnd(v) \in Nat
  BY OwnPlaces DEF Places
<1>3. LaidOut(v).end = EndAt(v)
  BY LaidOutLaid
<1>4. ~(LaidOut(v).end > v.space)
  BY <1>1, <1>2, <1>3
<1>5. v.udf => ~(HeaderEnd(v) > 32)
  BY <1>2
<1>6. v.udf => Len(v.anchors) = 2
  <2>1. \A x, y : Len(<<x, y>>) = 2
    OBVIOUS
  <2>2. v.udf => v.anchors = <<v.anchors[1], v.anchors[2]>>
    BY <1>1 DEF OwnUdf
  <2>3. QED
    BY ONLY <2>1, <2>2, Zenon
<1>7. v.udf => v.reserve[1] # <<>>
  <2>1. ASSUME v.udf PROVE v.reserve[1] # <<>>
    <3>1. PICK start \in Int, integrity \in Int : OwnSequence(v.reserve, start, EndAt(v) - PartStart, integrity)
      BY <1>1, <2>1 DEF OwnUdf
    <3>2. 1 \in Singles
      BY DEF Singles
    <3>3. v.reserve[1] = <<v.reserve[1][1]>>
      BY <3>1, <3>2, OwnSequenceLens
    <3>4. QED
      BY <3>3, Single, Zenon
  <2>2. QED
    BY <2>1
<1>8. QED
  BY <1>4, <1>5, <1>6, <1>7 DEF LayoutRaises
-----------------------------------------------------------------------------
(* What is added to and removed from the size.                              *)

OwnUdfTo(v, end) ==
  /\ \E start, integrity \in Int :
       \A s \in {v.main, v.reserve} : OwnSequence(s, start, end - PartStart, integrity)
  /\ v.lvid = <<v.lvid[1]>> /\ v.lvidEnd = <<v.lvidEnd[1]>>
  /\ \E unique, files \in Int : OwnDesc(v.lvid[1], 9, Integrity(unique, end - PartStart, files))
  /\ OwnDesc(v.lvidEnd[1], 8, NewTerminator)
  /\ v.anchors = <<v.anchors[1], v.anchors[2]>>
  /\ \A i \in 1..2 : \E main, reserve \in Int : OwnDesc(v.anchors[i], 2, Anchor(main, reserve))
  /\ v.set = <<v.set[1]>> /\ v.setEnd = <<v.setEnd[1]>>
  /\ OwnDesc(v.set[1], 256, NewFileSet) /\ v.set[1].tag.loc = 0
  /\ OwnDesc(v.setEnd[1], 8, NewTerminator)
OwnBut(v, end) == OwnRest(v) /\ (IF v.udf THEN OwnUdfTo(v, end) ELSE NoUdf(v))
OwnTo(v, end) == OwnBut(v, end) /\ v.space = end + One(v.udf)
LEMMA OwnIsTo ==
  ASSUME NEW v
  PROVE  Own(v) <=> OwnTo(v, EndAt(v))
<1>1. OwnUdf(v) <=> OwnUdfTo(v, EndAt(v))
  BY Zenon DEF OwnUdf, OwnUdfTo
<1>2. Own(v) <=> /\ OwnRest(v) /\ (IF v.udf THEN OwnUdf(v) ELSE NoUdf(v))
                 /\ v.space = EndAt(v) + One(v.udf)
  BY Zenon DEF Own, OwnRest
<1>3. QED
  BY <1>1, <1>2, Zenon DEF OwnTo, OwnBut

Longer(m, d) == [m EXCEPT !.body.length = @ + d]
LEMMA LongerOwn ==
  ASSUME NEW m, NEW start, NEW length \in Int, NEW integrity, OwnDesc(m, 5, OwnBody(5, start, length, integrity)),
         NEW d \in Int
  PROVE  OwnDesc(Longer(m, d), 5, OwnBody(5, start, length + d, integrity))
<1> DEFINE b(n) == OwnBody(5, start, n, integrity)
<1>1. PICK loc \in Int, crc \in {-1, BodyLength}, x \in Int : m = Made(5, loc, crc, b(length), x)
  BY OwnMade
<1>2. \A n : b(n) = [NewPartition EXCEPT !.start = start, !.length = n]
  BY DEF OwnBody
<1>3. \A n : b(n).length = n /\ \A n2 : [b(n) EXCEPT !.length = n2] = b(n2)
  <2> DEFINE r(n) == [seq |-> 2, flags |-> 1, num |-> 0, contents |-> EntityID(2, "NSR02"),
                      header |-> NewPartitionHeader, access |-> 1, start |-> start, length |-> n,
                      impl |-> EntityID(0, "pycdlib")]
             p == [NewPartition EXCEPT !.start = start]
  <2>1. p = r(3)
    BY DEF NewPartition
  <2>2. \A n : b(n) = [p EXCEPT !.length = n]
    BY <1>2
  <2>3. \A n, n2 : [r(n) EXCEPT !.length = n2] = r(n2) /\ r(n).length = n
    OBVIOUS
  <2> HIDE DEF b, r, p
  <2>4. \A n : b(n) = r(n)
    BY <2>1, <2>2, <2>3
  <2>5. QED
    BY <2>3, <2>4
<1> HIDE DEF b
<1>4. Longer(m, d) = Made(5, loc, crc, [b(length) EXCEPT !.length = @ + d], x)
  BY <1>1 DEF Longer, Made
<1>5. [b(length) EXCEPT !.length = @ + d] = b(length + d)
  BY <1>3
<1>6. OwnDesc(Made(5, loc, crc, b(length + d), x), 5, b(length + d))
  BY MadeOwn
<1>7. QED
  BY <1>4, <1>5, <1>6 DEF b

LongerSequence(s, t, d) == t = [s EXCEPT ![5] = <<Longer(s[5][1], d)>>]
LEMMA LongerSequenceOwn ==
  ASSUME NEW s, NEW t, NEW start, NEW length \in Int, NEW integrity, OwnSequence(s, start, length, integrity),
         NEW d \in Int, LongerSequence(s, t, d)
  PROVE  OwnSequence(t, start, length + d, integrity)
<1>1. /\ DOMAIN s = Singles \cup {3} /\ s[3] = <<>>
      /\ \A k \in Singles : s[k] = <<s[k][1]>> /\ OwnDesc(s[k][1], k, OwnBody(k, start, length, integrity))
  BY OwnSequenceLens
<1>2. 5 \in Singles /\ 3 \notin Singles /\ \A k \in Singles : k # 3
  BY DEF Singles
<1>3. t = [s EXCEPT ![5] = <<Longer(s[5][1], d)>>]
  BY DEF LongerSequence
<1>4. DOMAIN t = Singles \cup {3} /\ t = [k \in Singles \cup {3} |-> t[k]] /\ t[3] = <<>>
  BY <1>1, <1>2, <1>3
<1>5. t[5] = <<Longer(s[5][1], d)>>
  BY <1>1, <1>2, <1>3
<1>6. t[5] = <<t[5][1]>> /\ t[5][1] = Longer(s[5][1], d)
  BY <1>5
<1>7. \A k \in Singles : k # 5 => t[k] = s[k]
  BY <1>1, <1>3
<1>8. \A k \in Singles : t[k] = <<t[k][1]>>
  <2> TAKE k \in Singles
  <2>1. CASE k = 5
    BY <1>6, <2>1, Zenon
  <2>2. CASE k # 5
    <3>1. t[k] = s[k] /\ s[k] = <<s[k][1]>>
      BY <1>1, <1>7, <2>2
    <3>2. QED
      BY ONLY <3>1
  <2>3. QED
    BY <2>1, <2>2
<1>9. ASSUME NEW k \in Singles
      PROVE  OwnDesc(t[k][1], k, OwnBody(k, start, length + d, integrity))
  <2>1. CASE k = 5
    <3>1. OwnDesc(s[5][1], 5, OwnBody(5, start, length, integrity))
      BY <1>1, <1>2
    <3>2. OwnDesc(Longer(s[5][1], d), 5, OwnBody(5, start, length + d, integrity))
      BY ONLY <3>1, LongerOwn, length \in Int, d \in Int
    <3>3. QED
      BY <1>6, <2>1, <3>2
  <2>2. CASE k # 5
    <3>1. OwnBody(k, start, length + d, integrity) = OwnBody(k, start, length, integrity)
      BY <2>2 DEF OwnBody, Singles
    <3>2. QED
      BY <1>1, <1>7, <2>2, <3>1
  <2>3. QED
    BY <2>1, <2>2
<1>10. t = [k \in Singles \cup {3} |-> IF k = 3 THEN <<>> ELSE <<t[k][1]>>]
  BY ONLY <1>2, <1>4, <1>8
<1>11. QED
  BY <1>9, <1>10 DEF OwnSequence

LongerLvid(m, d) == [m EXCEPT !.body.sizes = <<@[1] + d>>]
LEMMA LongerLvidOwn ==
  ASSUME NEW m, NEW unique, NEW size \in Int, NEW files, OwnDesc(m, 9, Integrity(unique, size, files)), NEW d \in Int
  PROVE  OwnDesc(LongerLvid(m, d), 9, Integrity(unique, size + d, files))
<1> DEFINE b(n) == Integrity(unique, n, files)
<1>1. PICK loc \in Int, crc \in {-1, BodyLength}, x \in Int : m = Made(9, loc, crc, b(size), x)
  BY OwnMade
<1>2. \A n : b(n).sizes = <<n>> /\ \A n2 : [b(n) EXCEPT !.sizes = <<n2>>] = b(n2)
  BY IntegrityIs
<1> HIDE DEF b
<1>3. b(size).sizes[1] + d = size + d
  BY <1>2
<1>4. LongerLvid(m, d) = Made(9, loc, crc, [b(size) EXCEPT !.sizes = <<size + d>>], x)
  BY <1>1, <1>3 DEF LongerLvid, Made
<1>5. LongerLvid(m, d) = Made(9, loc, crc, b(size + d), x)
  BY <1>2, <1>4
<1>6. OwnDesc(Made(9, loc, crc, b(size + d), x), 9, b(size + d))
  BY MadeOwn
<1>7. QED
  BY <1>5, <1>6 DEF b

MoreFiles(m, n) == [m EXCEPT !.body.use.files = @ + n]
LEMMA MoreFilesOwn ==
  ASSUME NEW m, NEW unique, NEW size, NEW files, OwnDesc(m, 9, Integrity(unique, size, files)), NEW n
  PROVE  OwnDesc(MoreFiles(m, n), 9, Integrity(unique, size, files + n))
<1> DEFINE u(x) == [impl |-> EntityID(0, "pycdlib"), files |-> x, dirs |-> 1, revision |-> 258]
           b(x) == Integrity(unique, size, x)
<1>1. PICK loc \in Int, crc \in {-1, BodyLength}, x \in Int : m = Made(9, loc, crc, b(files), x)
  BY OwnMade
<1>2. \A x1 : u(x1).files = x1 /\ \A x2 : [u(x1) EXCEPT !.files = x2] = u(x2)
  OBVIOUS
<1>3. \A x1 : b(x1) = [date |-> Now, type |-> 1, next |-> ExtentAD(0, 0), unique |-> unique, free |-> <<0>>,
                       sizes |-> <<size>>, useLength |-> 46, use |-> u(x1)]
  BY IntegrityIs
<1> HIDE DEF u, b
<1>4. [b(files) EXCEPT !.use.files = @ + n]
        = [date |-> Now, type |-> 1, next |-> ExtentAD(0, 0), unique |-> unique, free |-> <<0>>,
           sizes |-> <<size>>, useLength |-> 46, use |-> [u(files) EXCEPT !.files = @ + n]]
  BY <1>3
<1>5. [u(files) EXCEPT !.files = @ + n] = u(files + n)
  BY <1>2
<1>6. [b(files) EXCEPT !.use.files = @ + n] = b(files + n)
  BY <1>3, <1>4, <1>5
<1>7. MoreFiles(m, n) = Made(9, loc, crc, [b(files) EXCEPT !.use.files = @ + n], x)
  BY <1>1 DEF MoreFiles, Made
<1>8. OwnDesc(Made(9, loc, crc, b(files + n), x), 9, b(files + n))
  BY MadeOwn
<1>9. QED
  BY <1>6, <1>7, <1>8 DEF b
\* Nothing else is touched.
SameButSize(v, w) ==
  /\ DOMAIN w = DOMAIN v
  /\ \A x \in DOMAIN v \ {"main", "reserve", "lvid", "space", "pending"} : w[x] = v[x]
SameRest(v, w) ==
  /\ w.udf = v.udf /\ w.joliet = v.joliet /\ w.rr = v.rr /\ w.catalog = v.catalog /\ w.tables = v.tables
  /\ w.jtables = v.jtables /\ w.at = v.at /\ w.head = v.head /\ w.files = v.files /\ w.boot = v.boot
  /\ w.shared = v.shared /\ w.blocks = v.blocks /\ w.anchors = v.anchors /\ w.set = v.set
  /\ w.setEnd = v.setEnd /\ w.lvidEnd = v.lvidEnd
LEMMA SameButSizeHas ==
  ASSUME NEW v, NEW w, SameButSize(v, w), DOMAIN v = DOMAIN NoVolume
  PROVE  SameRest(v, w) /\ DOMAIN w = DOMAIN NoVolume
<1> DEFINE K == {"udf", "joliet", "rr", "catalog", "tables", "jtables", "at", "head", "files", "boot", "shared",
                 "blocks", "anchors", "set", "setEnd", "lvidEnd"}
<1>1. \A x \in K : x \in DOMAIN v \ {"main", "reserve", "lvid", "space", "pending"}
  BY Fields
<1> HIDE DEF K
<1>2. \A x \in K : w[x] = v[x]
  BY <1>1 DEF SameButSize
<1> USE DEF K
<1>3. SameRest(v, w)
  BY ONLY <1>2 DEF SameRest
<1>4. QED
  BY <1>3 DEF SameButSize

LEMMA SameRestKeeps ==
  ASSUME NEW v, NEW w, SameRest(v, w), OwnFiles(v)
  PROVE  /\ Alike(v, w) /\ SameData(v, w) /\ OwnFiles(w) /\ OneShared(w)
         /\ OwnHead(v) => OwnHead(w)
<1>1. AlikeFiles(v, w) /\ SameData(v, w)
  BY DEF SameRest, AlikeFiles, SameData
<1>2. Alike(v, w)
  BY <1>1 DEF SameRest, Alike
<1>3. \A f \in Files : DOMAIN w.files[f] = DOMAIN NoFile /\ w.files[f].ext \in Int /\ w.files[f].fe \in Int
  BY DEF SameRest, OwnFiles, OwnFile
<1>4. w.files = [f \in Files |-> w.files[f]]
  BY DEF SameRest, OwnFiles
<1>5. OwnFiles(w)
  BY ONLY <1>1, <1>3, <1>4, OwnFiles(v), SameRest(v, w), OwnFilesSame DEF SameRest
<1>6. OneShared(w)
  BY <1>5, OwnFilesHave
<1>7. OwnHead(v) => OwnHead(w)
  <2>1. \A k : HeaderCount(w, k) = HeaderCount(v, k)
    BY DEF SameRest, HeaderCount
  <2>2. w.head = v.head /\ w.udf = v.udf
    BY DEF SameRest
  <2>3. QED
    BY ONLY <2>1, <2>2 DEF OwnHead
<1>8. QED
  BY <1>1, <1>2, <1>5, <1>6, <1>7

Resized(v, w, end, d) ==
  /\ SameButSize(v, w) /\ w.pending = TRUE /\ w.space = end + d + One(v.udf)
  /\ IF v.udf THEN LongerSequence(v.main, w.main, d) /\ LongerSequence(v.reserve, w.reserve, d)
                   /\ w.lvid = <<LongerLvid(v.lvid[1], d)>>
              ELSE w.main = v.main /\ w.reserve = v.reserve /\ w.lvid = v.lvid
LEMMA ResizedOwn ==
  ASSUME NEW v, NEW w, NEW end \in Int, NEW d \in Int, OwnBut(v, end), Resized(v, w, end, d)
  PROVE  OwnTo(w, end + d)
<1>1. OwnRest(v) /\ (IF v.udf THEN OwnUdfTo(v, end) ELSE NoUdf(v))
  BY DEF OwnBut
<1>2. DOMAIN v = DOMAIN NoVolume /\ OwnFiles(v) /\ OwnHead(v) /\ v.udf \in BOOLEAN
  BY <1>1 DEF OwnRest
<1>3. SameRest(v, w) /\ DOMAIN w = DOMAIN NoVolume
  BY <1>2, SameButSizeHas DEF Resized
<1>4. OwnFiles(w) /\ OwnHead(w)
  BY <1>2, <1>3, SameRestKeeps
<1>5. OwnRest(w)
  <2>1. w.pending \in BOOLEAN
    BY DEF Resized
  <2>2. {w.udf, w.joliet, w.rr, w.catalog, w.pending} \subseteq BOOLEAN
    BY <1>1, <1>3, <2>1 DEF SameRest, OwnRest
  <2>3. w.tables = 2 /\ w.jtables = (IF w.joliet THEN 2 ELSE 0) /\ DOMAIN w.at = DOMAIN NoPlaces
    BY <1>1, <1>3 DEF SameRest, OwnRest
  <2>4. QED
    BY ONLY <1>3, <1>4, <2>2, <2>3 DEF OwnRest
<1>6. w.space = end + d + One(w.udf)
  BY <1>3 DEF Resized, SameRest
<1>7. ASSUME v.udf PROVE OwnUdfTo(w, end + d)
  <2>1. OwnUdfTo(v, end)
    BY <1>1, <1>7
  <2>2. LongerSequence(v.main, w.main, d) /\ LongerSequence(v.reserve, w.reserve, d)
        /\ w.lvid = <<LongerLvid(v.lvid[1], d)>>
    BY <1>7 DEF Resized
  <2>3. PartStart \in Int /\ end - PartStart \in Int /\ (end - PartStart) + d = (end + d) - PartStart
    BY DEF PartStart
  <2>4. PICK start \in Int, integrity \in Int :
          \A s \in {v.main, v.reserve} : OwnSequence(s, start, end - PartStart, integrity)
    BY <2>1 DEF OwnUdfTo
  <2>5. OwnSequence(v.main, start, end - PartStart, integrity) /\ OwnSequence(v.reserve, start, end - PartStart, integrity)
    BY <2>4
  <2>6. OwnSequence(w.main, start, (end - PartStart) + d, integrity)
    BY ONLY <2>2, <2>3, <2>5, LongerSequenceOwn, d \in Int
  <2>7. OwnSequence(w.reserve, start, (end - PartStart) + d, integrity)
    BY ONLY <2>2, <2>3, <2>5, LongerSequenceOwn, d \in Int
  <2>8. \A s \in {w.main, w.reserve} : OwnSequence(s, start, (end + d) - PartStart, integrity)
    BY <2>3, <2>6, <2>7
  <2>9. PICK unique \in Int, files \in Int : OwnDesc(v.lvid[1], 9, Integrity(unique, end - PartStart, files))
    BY <2>1 DEF OwnUdfTo
  <2>10. OwnDesc(LongerLvid(v.lvid[1], d), 9, Integrity(unique, (end - PartStart) + d, files))
    BY ONLY <2>3, <2>9, LongerLvidOwn, d \in Int
  <2>11. w.lvid = <<w.lvid[1]>> /\ w.lvid[1] = LongerLvid(v.lvid[1], d)
    BY ONLY <2>2
  <2>12. OwnDesc(w.lvid[1], 9, Integrity(unique, (end + d) - PartStart, files))
    BY <2>3, <2>10, <2>11
  <2>13. /\ w.lvidEnd = <<w.lvidEnd[1]>> /\ OwnDesc(w.lvidEnd[1], 8, NewTerminator)
         /\ w.anchors = <<w.anchors[1], w.anchors[2]>>
         /\ \A i \in 1..2 : \E main, reserve \in Int : OwnDesc(w.anchors[i], 2, Anchor(main, reserve))
         /\ w.set = <<w.set[1]>> /\ w.setEnd = <<w.setEnd[1]>>
         /\ OwnDesc(w.set[1], 256, NewFileSet) /\ w.set[1].tag.loc = 0
         /\ OwnDesc(w.setEnd[1], 8, NewTerminator)
    <3>1. w.lvidEnd = v.lvidEnd /\ w.anchors = v.anchors /\ w.set = v.set /\ w.setEnd = v.setEnd
      BY <1>3 DEF SameRest
    <3>2. QED
      BY ONLY <2>1, <3>1, Zenon DEF OwnUdfTo
  <2>14. QED
    BY ONLY <2>8, <2>11, <2>12, <2>13 DEF OwnUdfTo
<1>8. ASSUME ~v.udf PROVE NoUdf(w)
  <2>1. NoUdf(v)
    BY <1>1, <1>8
  <2>2. QED
    BY <1>3, <1>8, <2>1 DEF Resized, SameRest, NoUdf
<1>9. w.udf = v.udf
  BY <1>3 DEF SameRest
<1>10. IF w.udf THEN OwnUdfTo(w, end + d) ELSE NoUdf(w)
  BY <1>2, <1>7, <1>8, <1>9
<1>11. QED
  BY ONLY <1>5, <1>6, <1>10 DEF OwnTo, OwnBut
LEMMA OneChanged ==
  ASSUME NEW s, s = <<s[1]>>, NEW y
  PROVE  [s EXCEPT ![1] = y] = <<y>>
<1>1. \A x : [<<x>> EXCEPT ![1] = y] = <<y>>
  OBVIOUS
<1>2. QED
  BY <1>1, Zenon

LEMMA LongerIs ==
  ASSUME NEW s, s[5] = <<s[5][1]>>, NEW d, NEW t, t = [s EXCEPT ![5][1].body.length = @ + d]
  PROVE  LongerSequence(s, t, d)
<1>1. [s[5] EXCEPT ![1] = Longer(s[5][1], d)] = <<Longer(s[5][1], d)>>
  BY OneChanged
<1>2. [s[5] EXCEPT ![1].body.length = @ + d] = [s[5] EXCEPT ![1] = Longer(s[5][1], d)]
  BY DEF Longer
<1>3. [s EXCEPT ![5][1].body.length = @ + d] = [s EXCEPT ![5] = [s[5] EXCEPT ![1].body.length = @ + d]]
  OBVIOUS
<1>4. QED
  BY <1>1, <1>2, <1>3 DEF LongerSequence
LEMMA LongerTooIs ==
  ASSUME NEW s, s[5] = <<s[5][1]>>, NEW d, NEW t,
         t = [s EXCEPT ![5] = LongerPartition(s[5], d)]
  PROVE  LongerSequence(s, t, d)
<1>1. s[5] # <<>>
  BY Single
<1>2. LongerPartition(s[5], d) = [s[5] EXCEPT ![1].body.length = @ + d]
  BY <1>1 DEF LongerPartition
<1>5. [s[5] EXCEPT ![1].body.length = @ + d] = [s[5] EXCEPT ![1] = Longer(s[5][1], d)]
  BY DEF Longer
<1>6. [s[5] EXCEPT ![1] = Longer(s[5][1], d)] = <<Longer(s[5][1], d)>>
  BY OneChanged
<1>7. LongerPartition(s[5], d) = <<Longer(s[5][1], d)>>
  BY ONLY <1>2, <1>5, <1>6
<1>8. QED
  BY <1>7 DEF LongerSequence

LEMMA LongerLvidIs ==
  ASSUME NEW s, s = <<s[1]>>, s[1].body.sizes = <<s[1].body.sizes[1]>>, NEW d
  PROVE  [s EXCEPT ![1].body.sizes[1] = @ + d] = <<LongerLvid(s[1], d)>>
<1> DEFINE z == s[1].body.sizes
<1>1. [z EXCEPT ![1] = z[1] + d] = <<z[1] + d>>
  BY OneChanged
<1>2. [s EXCEPT ![1].body.sizes[1] = @ + d] = [s EXCEPT ![1] = [s[1] EXCEPT !.body.sizes = [z EXCEPT ![1] = z[1] + d]]]
  OBVIOUS
<1>3. [s EXCEPT ![1].body.sizes[1] = @ + d] = [s EXCEPT ![1] = LongerLvid(s[1], d)]
  BY <1>1, <1>2 DEF LongerLvid
<1>4. QED
  BY <1>3, OneChanged

PartitionAdded(v, p, d) ==
  /\ DOMAIN p = DOMAIN v
  /\ \A x \in DOMAIN v \ {"main", "reserve", "lvid"} : p[x] = v[x]
  /\ IF v.udf THEN LongerSequence(v.main, p.main, d) /\ LongerSequence(v.reserve, p.reserve, d)
                   /\ p.lvid = <<LongerLvid(v.lvid[1], d)>>
              ELSE p.main = v.main /\ p.reserve = v.reserve /\ p.lvid = v.lvid
LEMMA AddPartitionHas ==
  ASSUME NEW v, NEW end, DOMAIN v = DOMAIN NoVolume, v.udf \in BOOLEAN, v.udf => OwnUdfTo(v, end), NEW d
  PROVE  PartitionAdded(v, AddPartition(v, d), d)
<1> DEFINE p == AddPartition(v, d)
<1>1. v.udf \in BOOLEAN /\ DOMAIN v = DOMAIN NoVolume /\ (v.udf => OwnUdfTo(v, end))
  OBVIOUS
<1>2. CASE ~v.udf
  <2>1. p = v
    BY <1>2 DEF AddPartition
  <2>2. QED
    BY <1>2, <2>1 DEF PartitionAdded
<1>3. CASE v.udf
  <2>1. p = [v EXCEPT !.main[5][1].body.length = @ + d,
                 !.reserve[5] = LongerPartition(v.reserve[5], d),
                 !.lvid = LongerIntegrity(v.lvid, d)]
    BY <1>3 DEF AddPartition
  <2> HIDE DEF p
  <2>2. "main" \in DOMAIN v /\ "reserve" \in DOMAIN v /\ "lvid" \in DOMAIN v
    BY <1>1, Fields
  <2>3. OwnUdfTo(v, end)
    BY <1>1, <1>3
  <2>4. PICK start \in Int, integrity \in Int :
          \A s \in {v.main, v.reserve} : OwnSequence(s, start, end - PartStart, integrity)
    BY <2>3 DEF OwnUdfTo
  <2>5. v.main[5] = <<v.main[5][1]>> /\ v.reserve[5] = <<v.reserve[5][1]>>
    <3>1. 5 \in Singles
      BY DEF Singles
    <3>2. OwnSequence(v.main, start, end - PartStart, integrity) /\ OwnSequence(v.reserve, start, end - PartStart, integrity)
      BY <2>4
    <3>3. QED
      BY ONLY <3>1, <3>2, OwnSequenceLens
  <2>6. v.lvid = <<v.lvid[1]>> /\ v.lvid # <<>> /\ v.lvid[1].body.sizes = <<v.lvid[1].body.sizes[1]>>
    <3>1. v.lvid = <<v.lvid[1]>>
      BY <2>3 DEF OwnUdfTo
    <3>2. PICK unique, files : OwnDesc(v.lvid[1], 9, Integrity(unique, end - PartStart, files))
      BY <2>3 DEF OwnUdfTo
    <3>3. v.lvid[1].body = Integrity(unique, end - PartStart, files)
      BY <3>2, OwnMade
    <3>4. v.lvid[1].body.sizes = <<end - PartStart>>
      BY <3>3, IntegrityIs
    <3>5. v.lvid # <<>>
      BY <3>1, Single, Zenon
    <3>6. QED
      BY <3>1, <3>4, <3>5
  <2>7. DOMAIN p = DOMAIN v /\ \A x \in DOMAIN v \ {"main", "reserve", "lvid"} : p[x] = v[x]
    BY <2>1
  <2>8. p.main = [v.main EXCEPT ![5][1].body.length = @ + d]
    BY <2>1, <2>2
  <2>9. p.reserve = [v.reserve EXCEPT ![5] = LongerPartition(v.reserve[5], d)]
    BY <2>1, <2>2
  <2>10. p.lvid = [v.lvid EXCEPT ![1].body.sizes[1] = @ + d]
    <3>1. p.lvid = LongerIntegrity(v.lvid, d)
      BY <2>1, <2>2
    <3>2. LongerIntegrity(v.lvid, d) = [v.lvid EXCEPT ![1].body.sizes[1] = @ + d]
      BY <2>6 DEF LongerIntegrity
    <3>3. QED
      BY ONLY <3>1, <3>2
  <2>11. LongerSequence(v.main, p.main, d)
    BY ONLY <2>5, <2>8, LongerIs
  <2>12. LongerSequence(v.reserve, p.reserve, d)
    BY ONLY <2>5, <2>9, LongerTooIs
  <2>13. p.lvid = <<LongerLvid(v.lvid[1], d)>>
    BY <2>6, <2>10, LongerLvidIs
  <2>14. QED
    BY <1>3, <2>7, <2>11, <2>12, <2>13 DEF PartitionAdded, p
<1>4. QED
  BY <1>1, <1>2, <1>3

LEMMA PartitionResized ==
  ASSUME NEW v, DOMAIN v = DOMAIN NoVolume, NEW end, NEW d, NEW p, PartitionAdded(v, p, d), NEW space,
         space = end + d + One(v.udf)
  PROVE  Resized(v, [p EXCEPT !.space = space, !.pending = TRUE], end, d)
<1> DEFINE w == [p EXCEPT !.space = space, !.pending = TRUE]
<1>1. DOMAIN p = DOMAIN v
  BY DEF PartitionAdded
<1>2. {"space", "pending", "main", "reserve", "lvid"} \subseteq DOMAIN p
  BY <1>1, Fields
<1>3. /\ DOMAIN w = DOMAIN v /\ w.space = space /\ w.pending = TRUE
      /\ w.main = p.main /\ w.reserve = p.reserve /\ w.lvid = p.lvid
  BY <1>1, <1>2
<1>4. \A x \in DOMAIN v \ {"main", "reserve", "lvid", "space", "pending"} : w[x] = v[x]
  BY <1>1 DEF PartitionAdded
<1>5. w = [p EXCEPT !.space = space, !.pending = TRUE]
  OBVIOUS
<1> HIDE DEF w
<1>6. Resized(v, w, end, d)
  BY ONLY <1>3, <1>4, PartitionAdded(v, p, d), space = end + d + One(v.udf) DEF Resized, SameButSize, PartitionAdded
<1>7. QED
  BY ONLY <1>5, <1>6

\* The sizes after FinishAdd and FinishRemove.
LEMMA FinishAddHas ==
  ASSUME NEW v, NEW end \in Int, DOMAIN v = DOMAIN NoVolume, v.udf \in BOOLEAN, NEW old, v.udf => OwnUdfTo(v, old),
         NEW n \in Int, NEW d \in Int, NEW m \in Int, v.udf => m = d, v.space + n + d = end + m + One(v.udf)
  PROVE  Resized(v, FinishAdd(v, n, d), end, m)
<1> DEFINE p == AddPartition(v, d)
<1>1. PartitionAdded(v, p, d)
  BY AddPartitionHas
<1>2. PartitionAdded(v, p, m)
  BY <1>1 DEF PartitionAdded
<1>3. p.space = v.space
  BY <1>1, Fields DEF PartitionAdded
<1>4. FinishAdd(v, n, d) = [p EXCEPT !.space = p.space + n + d, !.pending = TRUE]
  BY DEF FinishAdd
<1> HIDE DEF p
<1>5. p.space + n + d = end + m + One(v.udf)
  BY <1>3
<1>6. Resized(v, [p EXCEPT !.space = p.space + n + d, !.pending = TRUE], end, m)
  BY ONLY <1>2, <1>5, DOMAIN v = DOMAIN NoVolume, PartitionResized
<1>7. QED
  BY ONLY <1>4, <1>6

LEMMA FinishRemoveHas ==
  ASSUME NEW v, NEW end \in Int, DOMAIN v = DOMAIN NoVolume, v.udf \in BOOLEAN, NEW old, v.udf => OwnUdfTo(v, old),
         NEW d \in Int, v.space = end + One(v.udf)
  PROVE  Resized(v, FinishRemove(v, d), end, -d)
<1> DEFINE p == AddPartition(v, -d)
<1>1. PartitionAdded(v, p, -d)
  BY AddPartitionHas
<1>2. p.space = v.space
  BY <1>1, Fields DEF PartitionAdded
<1>3. FinishRemove(v, d) = [p EXCEPT !.space = p.space - d, !.pending = TRUE]
  BY DEF FinishRemove
<1> HIDE DEF p
<1>4. One(v.udf) \in Int
  BY DEF One
<1>5. p.space - d = end + (-d) + One(v.udf)
  BY <1>2, <1>4
<1>6. Resized(v, [p EXCEPT !.space = p.space - d, !.pending = TRUE], end, -d)
  BY ONLY <1>1, <1>5, DOMAIN v = DOMAIN NoVolume, PartitionResized
<1>7. QED
  BY ONLY <1>3, <1>6
-----------------------------------------------------------------------------
(* The calls that change a volume.                                          *)

LEMMA ResizedKept ==
  ASSUME NEW u, NEW w, NEW end \in Int, NEW d \in Int, OwnBut(u, end), Resized(u, w, end, d),
         EndAt(u) = end + d
  PROVE  Own(w) /\ w.pending = TRUE /\ SameData(u, w)
<1>1. OwnTo(w, end + d)
  BY ResizedOwn
<1>2. DOMAIN u = DOMAIN NoVolume /\ OwnFiles(u) /\ SameButSize(u, w) /\ w.pending = TRUE
  BY DEF OwnBut, OwnRest, Resized
<1>3. SameRest(u, w)
  BY <1>2, SameButSizeHas
<1>4. Alike(u, w) /\ SameData(u, w) /\ OneShared(w)
  BY <1>2, <1>3, SameRestKeeps
<1>5. EndAt(w) = EndAt(u)
  BY <1>2, <1>4, AlikeSame DEF AlikePlaces
<1>6. OwnTo(w, EndAt(w))
  BY <1>1, <1>5
<1>7. QED
  BY <1>2, <1>4, <1>6, OwnIsTo

\* The descriptors are the same, but for the number of files.
UdfCounted(v, w) ==
  /\ w.udf = v.udf /\ w.main = v.main /\ w.reserve = v.reserve /\ w.lvidEnd = v.lvidEnd
  /\ w.anchors = v.anchors /\ w.set = v.set /\ w.setEnd = v.setEnd
  /\ \/ w.lvid = v.lvid
     \/ v.udf /\ \E n \in Int : w.lvid = <<MoreFiles(v.lvid[1], n)>>
OwnDescriptors(v, end) == IF v.udf THEN OwnUdfTo(v, end) ELSE NoUdf(v)
LEMMA CountedOwn ==
  ASSUME NEW v, NEW w, NEW end, OwnDescriptors(v, end), UdfCounted(v, w), v.udf \in BOOLEAN
  PROVE  OwnDescriptors(w, end)
<1>1. /\ w.udf = v.udf /\ w.main = v.main /\ w.reserve = v.reserve /\ w.lvidEnd = v.lvidEnd
      /\ w.anchors = v.anchors /\ w.set = v.set /\ w.setEnd = v.setEnd
  BY DEF UdfCounted
<1>2. CASE ~v.udf
  <2>1. w.lvid = v.lvid
    BY <1>2 DEF UdfCounted
  <2>2. NoUdf(v)
    BY <1>2 DEF OwnDescriptors
  <2>3. NoUdf(w)
    BY <1>1, <2>1, <2>2, Zenon DEF NoUdf
  <2>4. QED
    BY <1>1, <1>2, <2>3 DEF OwnDescriptors
<1>3. CASE v.udf
  <2>1. OwnUdfTo(v, end)
    BY <1>3 DEF OwnDescriptors
  <2>2. v.lvid = <<v.lvid[1]>> /\ \E unique, files \in Int : OwnDesc(v.lvid[1], 9, Integrity(unique, end - PartStart, files))
    BY <2>1 DEF OwnUdfTo
  <2>3. w.lvid = <<w.lvid[1]>> /\ \E unique, files \in Int : OwnDesc(w.lvid[1], 9, Integrity(unique, end - PartStart, files))
    <3>1. CASE w.lvid = v.lvid
      BY <2>2, <3>1, Zenon
    <3>2. CASE \E n \in Int : w.lvid = <<MoreFiles(v.lvid[1], n)>>
      <4>1. PICK n \in Int : w.lvid = <<MoreFiles(v.lvid[1], n)>>
        BY <3>2
      <4>2. PICK unique \in Int, files \in Int : OwnDesc(v.lvid[1], 9, Integrity(unique, end - PartStart, files))
        BY <2>2
      <4>3. OwnDesc(MoreFiles(v.lvid[1], n), 9, Integrity(unique, end - PartStart, files + n))
        BY <4>2, MoreFilesOwn
      <4>4. w.lvid[1] = MoreFiles(v.lvid[1], n) /\ w.lvid = <<w.lvid[1]>>
        BY <4>1
      <4>5. files + n \in Int
        BY <4>1, <4>2
      <4>6. QED
        BY <4>3, <4>4, <4>5
    <3>3. QED
      BY <3>1, <3>2 DEF UdfCounted
  <2>4. OwnUdfTo(w, end)
    BY <1>1, <2>1, <2>3, Zenon DEF OwnUdfTo
  <2>5. QED
    BY <1>1, <1>3, <2>4 DEF OwnDescriptors
<1>4. QED
  BY <1>2, <1>3

LEMMA OwnDescribed ==
  ASSUME NEW v, Own(v)
  PROVE  OwnDescriptors(v, EndAt(v)) /\ DOMAIN v = DOMAIN NoVolume /\ v.udf \in BOOLEAN
<1>1. OwnTo(v, EndAt(v))
  BY OwnIsTo
<1>2. QED
  BY <1>1, OwnHas DEF OwnTo, OwnBut, OwnDescriptors

CountedFiles(v, u) ==
  /\ DOMAIN u = DOMAIN v /\ \A x \in DOMAIN v \ {"lvid"} : u[x] = v[x]
  /\ UdfCounted(v, u)
LEMMA UdfFilesHas ==
  ASSUME NEW v, DOMAIN v = DOMAIN NoVolume, v.udf \in BOOLEAN, NEW end, OwnDescriptors(v, end), NEW n \in Int
  PROVE  CountedFiles(v, UdfFiles(v, n))
<1> DEFINE u == UdfFiles(v, n)
<1>1. DOMAIN v = DOMAIN NoVolume /\ v.udf \in BOOLEAN /\ (v.udf => OwnUdfTo(v, end)) /\ (~v.udf => NoUdf(v))
  BY DEF OwnDescriptors
<1>2. CASE v.lvid = <<>>
  <2>1. u = v
    BY <1>2 DEF UdfFiles
  <2>2. QED
    BY <2>1 DEF CountedFiles, UdfCounted
<1>3. CASE v.lvid # <<>>
  <2>1. v.udf
    BY <1>1, <1>3 DEF NoUdf
  <2>2. v.lvid = <<v.lvid[1]>>
    BY <1>1, <2>1 DEF OwnUdfTo
  <2>3. u = [v EXCEPT !.lvid[1].body.use.files = @ + n]
    BY <1>3 DEF UdfFiles
  <2>4. [v.lvid EXCEPT ![1] = MoreFiles(v.lvid[1], n)] = <<MoreFiles(v.lvid[1], n)>>
    BY <2>2, OneChanged
  <2>5. u = [v EXCEPT !.lvid = [v.lvid EXCEPT ![1] = MoreFiles(v.lvid[1], n)]]
    BY <2>3 DEF MoreFiles
  <2>6. u = [v EXCEPT !.lvid = <<MoreFiles(v.lvid[1], n)>>]
    BY ONLY <2>4, <2>5
  <2> HIDE DEF u
  <2>7. /\ DOMAIN u = DOMAIN v /\ \A x \in DOMAIN v \ {"lvid"} : u[x] = v[x]
        /\ u.lvid = <<MoreFiles(v.lvid[1], n)>>
    BY <1>1, <2>6, Fields
  <2>8. UdfCounted(v, u)
    <3> DEFINE K == {"udf", "main", "reserve", "lvidEnd", "anchors", "set", "setEnd"}
    <3>1. K \subseteq DOMAIN v \ {"lvid"}
      BY <1>1, Fields
    <3> HIDE DEF K
    <3>2. \A x \in K : u[x] = v[x]
      BY <2>7, <3>1
    <3> USE DEF K
    <3>3. QED
      BY ONLY <2>1, <2>7, <3>2, n \in Int DEF UdfCounted
  <2>9. QED
    BY <2>7, <2>8 DEF CountedFiles, u
<1>4. QED
  BY <1>2, <1>3

\* Calls only change the fields C of what UdfFiles gives.
CallChanges(v, u, C) ==
  /\ DOMAIN u = DOMAIN v /\ \A x \in DOMAIN v \ (C \cup {"lvid"}) : u[x] = v[x]
  /\ UdfCounted(v, u)
Changing == {"files", "blocks", "shared", "catalog", "boot", "head"}
LEMMA CallSame ==
  ASSUME NEW v, Own(v), NEW u, NEW C \in SUBSET Changing, CallChanges(v, u, C)
  PROVE  /\ DOMAIN u = DOMAIN NoVolume /\ u.udf = v.udf /\ u.joliet = v.joliet /\ u.rr = v.rr
         /\ u.tables = v.tables /\ u.jtables = v.jtables /\ u.at = v.at /\ u.space = v.space
         /\ u.pending = v.pending /\ u.setEnd = v.setEnd
         /\ "files" \notin C => u.files = v.files
         /\ "blocks" \notin C => u.blocks = v.blocks
         /\ "shared" \notin C => u.shared = v.shared
         /\ "catalog" \notin C => u.catalog = v.catalog
         /\ "boot" \notin C => u.boot = v.boot
         /\ "head" \notin C => u.head = v.head
         /\ OwnDescriptors(u, EndAt(v))
<1>1. DOMAIN v = DOMAIN NoVolume /\ v.udf \in BOOLEAN
  BY OwnHas
<1>2. C \subseteq {"files", "blocks", "shared", "catalog", "boot", "head"}
  BY DEF Changing
<1> DEFINE K == {"udf", "joliet", "rr", "tables", "jtables", "at", "space", "pending", "setEnd"}
           L == {"files", "blocks", "shared", "catalog", "boot", "head"}
<1>3. K \subseteq DOMAIN v \ (C \cup {"lvid"}) /\ L \subseteq DOMAIN v \ {"lvid"}
  BY <1>1, <1>2, Fields
<1> HIDE DEF K, L
<1>4. (\A x \in K : u[x] = v[x]) /\ \A x \in L : x \notin C => u[x] = v[x]
  BY <1>3 DEF CallChanges
<1> USE DEF K, L
<1>5. /\ u.udf = v.udf /\ u.joliet = v.joliet /\ u.rr = v.rr
      /\ u.tables = v.tables /\ u.jtables = v.jtables /\ u.at = v.at /\ u.space = v.space
      /\ u.pending = v.pending /\ u.setEnd = v.setEnd
  BY ONLY <1>4
<1>6. /\ "files" \notin C => u.files = v.files
      /\ "blocks" \notin C => u.blocks = v.blocks
      /\ "shared" \notin C => u.shared = v.shared
      /\ "catalog" \notin C => u.catalog = v.catalog
      /\ "boot" \notin C => u.boot = v.boot
      /\ "head" \notin C => u.head = v.head
  BY ONLY <1>4
<1>7. OwnDescriptors(v, EndAt(v))
  BY OwnDescribed
<1>8. OwnDescriptors(u, EndAt(v)) /\ DOMAIN u = DOMAIN NoVolume
  BY <1>1, <1>7, CountedOwn DEF CallChanges
<1>9. QED
  BY ONLY <1>5, <1>6, <1>8

LEMMA CallOwn ==
  ASSUME NEW v, Own(v), NEW u, NEW C \in SUBSET Changing, CallChanges(v, u, C), u.catalog \in BOOLEAN,
         OwnHead(u), OwnFiles(u)
  PROVE  /\ OwnBut(u, EndAt(v)) /\ Sound(u) /\ EndAt(v) \in Int /\ u.space = EndAt(v) + One(u.udf)
         /\ DOMAIN u = DOMAIN NoVolume /\ u.udf \in BOOLEAN /\ (u.udf => OwnUdfTo(u, EndAt(v)))
<1>1. /\ v.udf \in BOOLEAN /\ v.joliet \in BOOLEAN /\ v.rr \in BOOLEAN /\ v.pending \in BOOLEAN
      /\ v.tables = 2 /\ v.jtables = (IF v.joliet THEN 2 ELSE 0) /\ DOMAIN v.at = DOMAIN NoPlaces
      /\ v.space = EndAt(v) + One(v.udf) /\ (v.udf => OwnUdf(v))
  BY OwnHas
<1>2. /\ DOMAIN u = DOMAIN NoVolume /\ u.udf = v.udf /\ u.joliet = v.joliet /\ u.rr = v.rr
      /\ u.tables = v.tables /\ u.jtables = v.jtables /\ u.at = v.at /\ u.space = v.space
      /\ u.pending = v.pending /\ u.setEnd = v.setEnd /\ OwnDescriptors(u, EndAt(v))
  BY CallSame
<1>3. OwnRest(u)
  BY ONLY <1>1, <1>2, u.catalog \in BOOLEAN, OwnHead(u), OwnFiles(u) DEF OwnRest
<1>4. OwnBut(u, EndAt(v)) /\ (u.udf => OwnUdfTo(u, EndAt(v)))
  BY <1>2, <1>3 DEF OwnBut, OwnDescriptors
<1>5. Sound(u)
  <2>1. v.udf => Len(v.setEnd) = 1
    BY OwnSound DEF Sound
  <2>2. QED
    BY <1>2, <1>3, <2>1 DEF Sound
<1>6. EndAt(v) \in Int
  BY OwnPlaces DEF Places
<1>7. QED
  BY <1>1, <1>2, <1>4, <1>5, <1>6
\* The end of a volume, as a sum.
LEMMA EndParts ==
  ASSUME NEW v, Sound(v)
  PROVE  /\ EndAt(v) = TreeStart(v) + 5 + 5 * One(v.joliet) + One(v.rr) + One(v.catalog)
                       + Cardinality(UsedBlocks(v)) + DataBlocks(v, Stored(v))
         /\ v.udf => TreeStart(v) = 261 + One(v.catalog) + Cardinality(InTree(v, "udf"))
         /\ ~v.udf => TreeStart(v) = 16 + Len(v.head["pvd"]) + One(v.catalog) + One(v.joliet) + 1 + 1
         /\ TreeStart(v) \in Nat /\ Len(v.head["pvd"]) \in Nat /\ Cardinality(InTree(v, "udf")) \in Nat
         /\ One(v.joliet) \in 0..1 /\ One(v.rr) \in 0..1 /\ One(v.catalog) \in 0..1
         /\ Cardinality(UsedBlocks(v)) = (IF UsedBlocks(v) = {} THEN 0 ELSE 1)
         /\ DataBlocks(v, Stored(v)) \in Nat
<1>1. Places(v)
  BY SoundPlaces
<1>2. Len(v.head["pvd"]) \in Nat
  BY SoundHeadLens
<1>3. ~v.udf => HeaderAt(v, "version") = 16 + (Len(v.head["pvd"]) + One(v.catalog) + One(v.joliet) + 1 + 3 * 0)
  BY DEF HeaderAt, One
<1>4. InTree(v, "udf") \in SUBSET Files
  BY DEF InTree
<1>5. Cardinality(InTree(v, "udf")) \in Nat
  BY <1>4, FilesFinite
<1>6. /\ One(v.joliet) \in 0..1 /\ One(v.rr) \in 0..1 /\ One(v.catalog) \in 0..1
      /\ TreeStart(v) \in Nat /\ DataBlocks(v, Stored(v)) \in Nat
      /\ Cardinality(UsedBlocks(v)) = (IF UsedBlocks(v) = {} THEN 0 ELSE 1)
  BY <1>1 DEF Places
<1>7. ~v.udf => TreeStart(v) = 16 + Len(v.head["pvd"]) + One(v.catalog) + One(v.joliet) + 1 + 1
  <2>1. ~v.udf => TreeStart(v) = HeaderAt(v, "version") + 1
    BY <1>1 DEF Places
  <2>2. QED
    BY ONLY <1>2, <1>3, <1>6, <2>1
<1>8. v.udf => TreeStart(v) = 261 + One(v.catalog) + Cardinality(InTree(v, "udf"))
  BY <1>1, <1>6 DEF Places
<1>9. EndAt(v) = TreeStart(v) + 5 + 5 * One(v.joliet) + One(v.rr) + One(v.catalog)
                 + Cardinality(UsedBlocks(v)) + DataBlocks(v, Stored(v))
  <2>1. /\ EndAt(v) = DataAt(v) + DataBlocks(v, Stored(v)) /\ DataAt(v) = CatalogAt(v) + One(v.catalog)
        /\ CatalogAt(v) = ErAt(v) + One(v.rr) /\ ErAt(v) = JolietAt(v) + One(v.joliet)
        /\ JolietAt(v) = IsoAt(v) + 1 + Cardinality(UsedBlocks(v))
        /\ IsoAt(v) = TreeStart(v) + 4 + 4 * One(v.joliet)
    BY <1>1 DEF Places
  <2>2. Cardinality(UsedBlocks(v)) \in Nat
    BY <1>6
  <2>3. QED
    BY ONLY <1>6, <2>1, <2>2
<1>10. QED
  BY <1>2, <1>5, <1>6, <1>7, <1>8, <1>9

-----------------------------------------------------------------------------
(* add_fp                                                                   *)

FileAdded(v, u, f, file, long) ==
  /\ CallChanges(v, u, {"files", "blocks"})
  /\ u.files = [v.files EXCEPT ![f] = file]
  /\ u.blocks = IF long THEN v.blocks \cup {file.ce} ELSE v.blocks
NewFile(file, in, len, ce) ==
  /\ DOMAIN file = DOMAIN NoFile /\ file.in = in /\ file.len = len /\ file.ext = 0 /\ file.fe = 0
  /\ file.ce = ce /\ file.data = [i \in 1..len |-> file.data[i]]
  /\ file.bytes = [u \in in |-> file.bytes[u]]
\* What add_fp asks for.
CanAdd(v, f, in, len, ce, long) ==
  /\ f \in Files /\ len \in Nat /\ in # {} /\ in \subseteq TreesOf(v) /\ v.files[f].in = {}
  /\ long \in BOOLEAN /\ (long => v.rr /\ "iso" \in in)
  /\ ce = (IF long THEN "own" ELSE "none") /\ (long => "er" \notin v.blocks)
  /\ len = 0 => \A g \in Present(v) : v.files[g].len # 0
LEMMA AddedFiles ==
  ASSUME NEW v, Own(v), NEW u, NEW f, NEW file, NEW in, NEW len, NEW ce, NEW long,
         FileAdded(v, u, f, file, long), NewFile(file, in, len, ce), CanAdd(v, f, in, len, ce, long)
  PROVE  /\ OwnFiles(u) /\ OwnHead(u) /\ u.catalog \in BOOLEAN
         /\ InTree(u, "udf") = InTree(v, "udf") \cup (IF "udf" \in in THEN {f} ELSE {})
         /\ UsedBlocks(u) = UsedBlocks(v) \cup (IF long THEN {"own"} ELSE {})
         /\ Stored(u) = Stored(v) \cup (IF len > 0 THEN {f} ELSE {})
         /\ f \notin InTree(v, "udf") /\ f \notin Stored(v) /\ u.files[f] = file
         /\ \A g \in Files : g # f => u.files[g] = v.files[g]
<1>1. OwnFiles(v) /\ OwnHead(v) /\ v.catalog \in BOOLEAN
  BY OwnHas
<1>2. /\ u.udf = v.udf /\ u.joliet = v.joliet /\ u.rr = v.rr /\ u.shared = v.shared /\ u.catalog = v.catalog
      /\ u.boot = v.boot /\ u.head = v.head
  <2>1. {"files", "blocks"} \in SUBSET Changing /\ \A x \in {"shared", "catalog", "boot", "head"} : x \notin {"files", "blocks"}
    BY DEF Changing
  <2>2. CallChanges(v, u, {"files", "blocks"})
    BY DEF FileAdded
  <2>3. QED
    BY <2>1, <2>2, CallSame
<1>3. f \in Files /\ v.files = [g \in Files |-> v.files[g]] /\ u.files = [v.files EXCEPT ![f] = file]
  BY <1>1 DEF OwnFiles, CanAdd, FileAdded
<1>4. u.files[f] = file /\ (\A g \in Files : g # f => u.files[g] = v.files[g]) /\ u.files = [g \in Files |-> u.files[g]]
  BY <1>3
<1>5. TreesOf(u) = TreesOf(v) /\ (\A k : HeaderCount(u, k) = HeaderCount(v, k))
  BY <1>2 DEF TreesOf, HeaderCount
<1>6. OwnHead(u)
  BY <1>1, <1>2, <1>5 DEF OwnHead
<1>7. f \notin Present(v) /\ Present(u) = Present(v) \cup {f} /\ \A t : f \notin InTree(v, t)
  <2>1. v.files[f].in = {} /\ file.in # {}
    BY DEF CanAdd, NewFile
  <2>2. f \notin Present(v) /\ \A t : f \notin InTree(v, t)
    BY <2>1 DEF Present, InTree
  <2>3. \A g : g \in Present(u) <=> g \in Present(v) \/ g = f
    BY <1>3, <1>4, <2>1 DEF Present
  <2>4. QED
    BY <2>2, <2>3
<1>8. \A t : InTree(u, t) = InTree(v, t) \cup (IF t \in in THEN {f} ELSE {})
  BY <1>3, <1>4, <1>7 DEF InTree, NewFile
<1>9. /\ file.in = in /\ file.len = len /\ file.ce = ce /\ len \in Nat /\ in # {} /\ in \subseteq TreesOf(v)
      /\ ce = (IF long THEN "own" ELSE "none") /\ (long => v.rr /\ "iso" \in in) /\ long \in BOOLEAN
  BY DEF NewFile, CanAdd
<1>10. Stored(u) = Stored(v) \cup (IF len > 0 THEN {f} ELSE {}) /\ f \notin Stored(v)
  BY <1>4, <1>7, <1>9 DEF Stored, Present
<1>11. UsedBlocks(u) = UsedBlocks(v) \cup (IF long THEN {"own"} ELSE {})
  <2>1. \A g \in InTree(v, "iso") : u.files[g].ce = v.files[g].ce
    BY <1>4, <1>7 DEF InTree
  <2>2. CASE "iso" \in in
    <3>1. InTree(u, "iso") = InTree(v, "iso") \cup {f}
      BY <1>8, <2>2
    <3>2. {u.files[g].ce : g \in InTree(u, "iso")} = {v.files[g].ce : g \in InTree(v, "iso")} \cup {ce}
      <4>1. u.files[f].ce = ce
        BY <1>4, <1>9
      <4>2. \A S, T : T = S \cup {f} /\ (\A g \in S : u.files[g].ce = v.files[g].ce)
                      => {u.files[g].ce : g \in T} = {v.files[g].ce : g \in S} \cup {ce}
        BY <4>1
      <4>3. QED
        BY ONLY <2>1, <3>1, <4>2
    <3>3. QED
      BY <1>9, <3>2 DEF UsedBlocks
  <2>3. CASE "iso" \notin in
    <3>1. InTree(u, "iso") = InTree(v, "iso") /\ ~long
      BY <1>8, <1>9, <2>3
    <3>2. QED
      BY <2>1, <3>1 DEF UsedBlocks
  <2>4. QED
    BY <2>2, <2>3
<1>12. u.blocks \ {"er"} = UsedBlocks(u) /\ ("er" \in u.blocks => u.rr)
  <2>1. v.blocks \ {"er"} = UsedBlocks(v) /\ ("er" \in v.blocks => v.rr)
    BY <1>1 DEF OwnFiles
  <2>2. u.blocks = IF long THEN v.blocks \cup {ce} ELSE v.blocks
    BY <1>9 DEF FileAdded
  <2>3. QED
    BY <1>2, <1>9, <1>11, <2>1, <2>2
<1>13. ASSUME NEW g \in Files PROVE OwnFile(u, g)
  <2>1. CASE g = f
    <3>1. /\ DOMAIN file = DOMAIN NoFile /\ file.ext = 0 /\ file.fe = 0
          /\ file.data = [i \in 1..len |-> file.data[i]] /\ file.bytes = [x \in in |-> file.bytes[x]]
      BY DEF NewFile
    <3>2. QED
      BY <1>2, <1>4, <1>5, <1>9, <2>1, <3>1 DEF OwnFile
  <2>2. CASE g # f
    <3>1. OwnFile(v, g)
      BY <1>1 DEF OwnFiles
    <3>2. QED
      BY <1>2, <1>4, <1>5, <2>2, <3>1 DEF OwnFile
  <2>3. QED
    BY <2>1, <2>2
<1>14. \A a, b \in Present(u) : u.files[a].len = 0 /\ u.files[b].len = 0 => a = b
  <2>1. \A a, b \in Present(v) : v.files[a].len = 0 /\ v.files[b].len = 0 => a = b
    BY <1>1 DEF OwnFiles
  <2>2. len = 0 => \A g \in Present(v) : v.files[g].len # 0
    BY DEF CanAdd
  <2>3. \A a \in Present(v) : u.files[a] = v.files[a]
    BY <1>4, <1>7 DEF Present
  <2>4. u.files[f].len = len
    BY <1>4, <1>9
  <2>5. QED
    BY ONLY <1>7, <2>1, <2>2, <2>3, <2>4
<1>15. /\ u.boot \subseteq {g \in InTree(u, "iso") : u.files[g].len > 0} /\ (u.boot # {} => u.catalog)
       /\ u.shared \subseteq {g \in Present(u) : u.files[g].len = 0}
  <2>1. /\ v.boot \subseteq {g \in InTree(v, "iso") : v.files[g].len > 0} /\ (v.boot # {} => v.catalog)
        /\ v.shared \subseteq {g \in Present(v) : v.files[g].len = 0}
    BY <1>1 DEF OwnFiles
  <2>2. \A a \in Present(v) : u.files[a] = v.files[a]
    BY <1>4, <1>7 DEF Present
  <2>3. InTree(v, "iso") \subseteq Present(v) /\ InTree(v, "iso") \subseteq InTree(u, "iso")
    BY <1>8 DEF InTree, Present
  <2>4. QED
    BY ONLY <1>2, <1>7, <2>1, <2>2, <2>3
<1>16. OwnFiles(u)
  BY ONLY <1>4, <1>12, <1>13, <1>14, <1>15 DEF OwnFiles
<1>17. QED
  BY <1>1, <1>2, <1>4, <1>6, <1>7, <1>8, <1>10, <1>11, <1>16
Grows(v, u, S, T, f, len) ==
  /\ f \in Files /\ HasLens(u) /\ f \notin S /\ u.files[f].len = len /\ len \in Nat
  /\ T = S \cup (IF len > 0 THEN {f} ELSE {})
  /\ \A g \in Files : g # f => u.files[g] = v.files[g]
LEMMA GrownBy ==
  ASSUME NEW v, NEW u, NEW S, NEW T, NEW f, NEW len, Grows(v, u, S, T, f, len)
  PROVE  DataBlocks(u, T) = DataBlocks(v, S) + len /\ DataBlocks(v, S) \in Nat
<1>0. /\ f \in Files /\ HasLens(u) /\ f \notin S /\ u.files[f].len = len /\ len \in Nat
      /\ T = S \cup (IF len > 0 THEN {f} ELSE {})
      /\ \A g \in Files : g # f => u.files[g] = v.files[g]
  BY DEF Grows
<1>1. DataBlocks(u, S) = DataBlocks(v, S)
  <2>1. \A g \in Files : g \in S <=> g \in S
    OBVIOUS
  <2>2. \A g \in Files : g \in S => u.files[g].len = v.files[g].len
    BY <1>0
  <2>3. QED
    BY ONLY <2>1, <2>2, DataBlocksSame
<1>2. DataBlocks(u, S) \in Nat
  BY <1>0, DataBlocksType
<1>3. CASE len > 0
  <2>1. \A g \in Files : g \in T <=> g \in S \/ g = f
    BY <1>0, <1>3
  <2>2. DataBlocks(u, T) = DataBlocks(u, S) + u.files[f].len
    BY <1>0, <2>1, DataBlocksAdd
  <2>3. QED
    BY <1>0, <1>1, <1>2, <2>2
<1>4. CASE ~(len > 0)
  <2>1. T = S /\ len = 0
    BY <1>0, <1>4
  <2>2. QED
    BY <1>0, <1>1, <1>2, <2>1
<1>5. QED
  BY <1>3, <1>4

LEMMA OneMore ==
  ASSUME NEW S \in SUBSET Files, NEW T, NEW f, f \notin S, NEW b \in BOOLEAN, T = S \cup (IF b THEN {f} ELSE {})
  PROVE  Cardinality(T) = Cardinality(S) + One(b) /\ Cardinality(S) \in Nat
<1>1. IsFiniteSet(S) /\ Cardinality(S) \in Nat
  BY FilesFinite
<1>2. CASE b
  <2>1. T = S \cup {f} /\ One(b) = 1
    BY <1>2 DEF One
  <2>2. QED
    BY <1>1, <2>1, FS_AddElement
<1>3. CASE ~b
  <2>1. T = S /\ One(b) = 0
    BY <1>3 DEF One
  <2>2. QED
    BY <1>1, <2>1
<1>4. QED
  BY <1>2, <1>3

AddedBlocks(v, in, len, long) ==
  len + One("udf" \in in) + One(long /\ v.blocks = {})
LEMMA AddedEnd ==
  ASSUME NEW v, Own(v), NEW u, NEW f, NEW file, NEW in, NEW len, NEW ce, NEW long,
         FileAdded(v, u, f, file, long), NewFile(file, in, len, ce), CanAdd(v, f, in, len, ce, long)
  PROVE  /\ OwnBut(u, EndAt(v)) /\ EndAt(u) = EndAt(v) + AddedBlocks(v, in, len, long)
         /\ AddedBlocks(v, in, len, long) \in Nat /\ EndAt(v) \in Int /\ u.space = EndAt(v) + One(u.udf)
         /\ DOMAIN u = DOMAIN NoVolume /\ u.udf \in BOOLEAN /\ (u.udf => OwnUdfTo(u, EndAt(v)))
<1>1. /\ OwnFiles(u) /\ OwnHead(u) /\ u.catalog \in BOOLEAN
      /\ InTree(u, "udf") = InTree(v, "udf") \cup (IF "udf" \in in THEN {f} ELSE {})
      /\ UsedBlocks(u) = UsedBlocks(v) \cup (IF long THEN {"own"} ELSE {})
      /\ Stored(u) = Stored(v) \cup (IF len > 0 THEN {f} ELSE {})
      /\ f \notin InTree(v, "udf") /\ f \notin Stored(v) /\ u.files[f] = file
      /\ \A g \in Files : g # f => u.files[g] = v.files[g]
  BY AddedFiles
<1>2. {"files", "blocks"} \in SUBSET Changing /\ \A x \in {"shared", "catalog", "boot", "head"} : x \notin {"files", "blocks"}
  BY DEF Changing
<1>3. CallChanges(v, u, {"files", "blocks"})
  BY DEF FileAdded
<1>4. /\ OwnBut(u, EndAt(v)) /\ Sound(u) /\ EndAt(v) \in Int /\ u.space = EndAt(v) + One(u.udf)
      /\ DOMAIN u = DOMAIN NoVolume /\ u.udf \in BOOLEAN /\ (u.udf => OwnUdfTo(u, EndAt(v)))
  BY <1>1, <1>2, <1>3, CallOwn
<1>5. u.udf = v.udf /\ u.joliet = v.joliet /\ u.rr = v.rr /\ u.catalog = v.catalog /\ u.head = v.head
  BY <1>2, <1>3, CallSame
<1>6. f \in Files /\ len \in Nat /\ long \in BOOLEAN /\ file.len = len /\ in \subseteq TreesOf(v)
      /\ ce = (IF long THEN "own" ELSE "none") /\ (long => "er" \notin v.blocks)
  BY DEF CanAdd, NewFile
<1>7. DataBlocks(u, Stored(u)) = DataBlocks(v, Stored(v)) + len
  <2>1. HasLens(u)
    BY <1>1, OwnFilesHave
  <2>2. u.files[f].len = len
    BY <1>1, <1>6
  <2>3. QED
    <3>1. Grows(v, u, Stored(v), Stored(u), f, len)
      BY ONLY <1>1, <1>6, <2>1, <2>2 DEF Grows
    <3>2. QED
      BY ONLY <3>1, GrownBy
<1>8. Cardinality(InTree(u, "udf")) = Cardinality(InTree(v, "udf")) + One("udf" \in in)
  <2>1. InTree(v, "udf") \in SUBSET Files /\ ("udf" \in in) \in BOOLEAN
    BY DEF InTree
  <2>2. QED
    BY ONLY <1>1, <2>1, OneMore
<1>9. "udf" \in in => v.udf
  BY <1>6 DEF TreesOf
<1>10. One("udf" \in in) \in 0..1 /\ One(long /\ v.blocks = {}) \in 0..1
  BY DEF One
<1>11. AddedBlocks(v, in, len, long) \in Nat
  BY <1>6, <1>10 DEF AddedBlocks
<1>12. Cardinality(UsedBlocks(u)) = Cardinality(UsedBlocks(v)) + One(long /\ v.blocks = {})
  <2>1. Cardinality(UsedBlocks(v)) = (IF UsedBlocks(v) = {} THEN 0 ELSE 1)
    BY OwnSound, EndParts
  <2>2. Cardinality(UsedBlocks(u)) = (IF UsedBlocks(u) = {} THEN 0 ELSE 1)
    BY <1>4, EndParts
  <2>3. v.blocks \ {"er"} = UsedBlocks(v)
    BY OwnHas DEF OwnFiles
  <2>4. CASE long
    <3>1. v.blocks = UsedBlocks(v) /\ UsedBlocks(u) # {}
      <4>1. UsedBlocks(u) = UsedBlocks(v) \cup {"own"}
        BY <1>1, <2>4
      <4>2. "er" \notin v.blocks
        BY <1>6, <2>4
      <4>3. v.blocks = UsedBlocks(v)
        BY ONLY <2>3, <4>2
      <4>4. QED
        BY ONLY <4>1, <4>3
    <3>2. QED
      BY <2>1, <2>2, <2>4, <3>1 DEF One
  <2>5. CASE ~long
    <3>1. UsedBlocks(u) = UsedBlocks(v) /\ One(long /\ v.blocks = {}) = 0
      BY <1>1, <2>5 DEF One
    <3>2. QED
      BY <2>1, <3>1
  <2>6. QED
    BY <1>6, <2>4, <2>5
<1>13. TreeStart(u) = TreeStart(v) + One("udf" \in in)
  <2>1. CASE v.udf
    <3>1. /\ TreeStart(v) = 261 + One(v.catalog) + Cardinality(InTree(v, "udf"))
          /\ Cardinality(InTree(v, "udf")) \in Nat /\ One(v.catalog) \in 0..1
      BY <2>1, OwnSound, EndParts
    <3>2. TreeStart(u) = 261 + One(u.catalog) + Cardinality(InTree(u, "udf"))
      BY <1>4, <1>5, <2>1, EndParts
    <3>3. QED
      BY ONLY <1>5, <1>8, <1>10, <3>1, <3>2
  <2>2. CASE ~v.udf
    <3>1. TreeStart(v) = 16 + Len(v.head["pvd"]) + One(v.catalog) + One(v.joliet) + 1 + 1 /\ TreeStart(v) \in Nat
      BY <2>2, OwnSound, EndParts
    <3>2. TreeStart(u) = 16 + Len(u.head["pvd"]) + One(u.catalog) + One(u.joliet) + 1 + 1
      BY <1>4, <1>5, <2>2, EndParts
    <3>3. One("udf" \in in) = 0
      BY <1>9, <2>2 DEF One
    <3>4. TreeStart(u) = TreeStart(v)
      BY ONLY <1>5, <3>1, <3>2
    <3>5. QED
      BY ONLY <3>1, <3>3, <3>4
  <2>3. QED
    BY <2>1, <2>2
<1>14. EndAt(u) = EndAt(v) + AddedBlocks(v, in, len, long)
  <2>1. /\ EndAt(v) = TreeStart(v) + 5 + 5 * One(v.joliet) + One(v.rr) + One(v.catalog)
                       + Cardinality(UsedBlocks(v)) + DataBlocks(v, Stored(v))
        /\ TreeStart(v) \in Nat /\ DataBlocks(v, Stored(v)) \in Nat
        /\ One(v.joliet) \in 0..1 /\ One(v.rr) \in 0..1 /\ One(v.catalog) \in 0..1
        /\ Cardinality(UsedBlocks(v)) = (IF UsedBlocks(v) = {} THEN 0 ELSE 1)
    BY OwnSound, EndParts
  <2>2. EndAt(u) = TreeStart(u) + 5 + 5 * One(u.joliet) + One(u.rr) + One(u.catalog)
                   + Cardinality(UsedBlocks(u)) + DataBlocks(u, Stored(u))
    BY <1>4, EndParts
  <2>3. Cardinality(UsedBlocks(v)) \in Nat
    BY <2>1
  <2>4. EndAt(u) = EndAt(v) + (len + One("udf" \in in) + One(long /\ v.blocks = {}))
    BY ONLY <1>5, <1>6, <1>7, <1>10, <1>12, <1>13, <2>1, <2>2, <2>3
  <2>5. QED
    BY ONLY <2>4 DEF AddedBlocks
<1>15. QED
  BY <1>4, <1>11, <1>14
LEMMA AddFileKept ==
  ASSUME NEW v, Own(v), NEW u, NEW f, NEW file, NEW in, NEW len, NEW ce, NEW long, NEW ver,
         FileAdded(v, u, f, file, long), NewFile(file, in, len, ce), CanAdd(v, f, in, len, ce, long),
         file.data = [i \in 1..len |-> Data(f, ver, i)], file.bytes = [x \in in |-> Bytes(len, ver)], NEW t, t = [g \in Files |-> t[g]], Says(v, t)
  PROVE  /\ Own(FinishAdd(u, 0, AddedBlocks(v, in, len, long)))
         /\ FinishAdd(u, 0, AddedBlocks(v, in, len, long)).pending = TRUE
         /\ Says(FinishAdd(u, 0, AddedBlocks(v, in, len, long)), [t EXCEPT ![f] = [in |-> in, len |-> len, ver |-> ver]])
<1> DEFINE d == AddedBlocks(v, in, len, long)
           w == FinishAdd(u, 0, d)
           t2 == [t EXCEPT ![f] = [in |-> in, len |-> len, ver |-> ver]]
           end == EndAt(v)
<1>1. /\ OwnBut(u, end) /\ EndAt(u) = end + d /\ d \in Nat /\ end \in Int /\ u.space = end + One(u.udf)
      /\ DOMAIN u = DOMAIN NoVolume /\ u.udf \in BOOLEAN /\ (u.udf => OwnUdfTo(u, end))
  BY AddedEnd
<1> HIDE DEF d, end
<1>2. Resized(u, w, end, d)
  <2>1. One(u.udf) \in Int
    BY DEF One
  <2>2. u.space + 0 + d = end + d + One(u.udf) /\ d \in Int /\ 0 \in Int
    BY ONLY <1>1, <2>1
  <2>3. QED
    BY ONLY <1>1, <2>2, FinishAddHas
<1> HIDE DEF w
<1>3. Own(w) /\ w.pending = TRUE /\ SameData(u, w)
  <2>1. d \in Int
    BY <1>1
  <2>2. QED
    BY ONLY <1>1, <1>2, <2>1, ResizedKept
<1>4. u.files[f] = file /\ \A g \in Files : g # f => u.files[g] = v.files[g]
  BY AddedFiles
<1>5. f \in Files /\ file.in = in /\ file.len = len
  BY DEF CanAdd, NewFile
<1>6. t2[f] = [in |-> in, len |-> len, ver |-> ver] /\ \A g \in Files : g # f => t2[g] = t[g]
  BY <1>5
<1> HIDE DEF t2
<1>7. ASSUME NEW g \in Files
      PROVE  /\ u.files[g].in = t2[g].in /\ u.files[g].len = t2[g].len
             /\ u.files[g].data = [i \in 1..t2[g].len |-> Data(g, t2[g].ver, i)]
             /\ u.files[g].bytes = [x \in t2[g].in |-> Bytes(t2[g].len, t2[g].ver)]
  <2>1. CASE g = f
    <3>1. t2[f].in = in /\ t2[f].len = len /\ t2[f].ver = ver
      BY <1>6
    <3>2. u.files[f].in = in /\ u.files[f].len = len /\ u.files[f].data = [i \in 1..len |-> Data(f, ver, i)]
          /\ u.files[f].bytes = [x \in in |-> Bytes(len, ver)]
      BY <1>4, <1>5
    <3>3. QED
      BY ONLY <2>1, <3>1, <3>2
  <2>2. CASE g # f
    BY <1>4, <1>6, <2>2 DEF Says
  <2>3. QED
    BY <2>1, <2>2
<1>8. Says(u, t2)
  BY <1>7 DEF Says
<1>9. Says(w, t2)
  BY <1>3, <1>8, SaysSame
<1>10. QED
  BY <1>3, <1>9 DEF w, d, t2

-----------------------------------------------------------------------------
(* rm_file                                                                  *)

FileRemoved(v, u, f) ==
  /\ CallChanges(v, u, {"files", "shared"})
  /\ u.files = [v.files EXCEPT ![f] = NoFile]
  /\ u.shared = v.shared \ {f}
CanBeRemoved(v, f) ==
  /\ f \in Present(v) \ v.boot
  /\ v.files[f].ce # "none" => \E g \in Present(v) \ {f} : v.files[g].ce = v.files[f].ce
RemovedBlocks(v, f) == v.files[f].len + One("udf" \in v.files[f].in)
LEMMA RemovedFiles ==
  ASSUME NEW v, Own(v), NEW u, NEW f, FileRemoved(v, u, f), CanBeRemoved(v, f)
  PROVE  /\ OwnFiles(u) /\ OwnHead(u) /\ u.catalog \in BOOLEAN
         /\ InTree(u, "udf") = InTree(v, "udf") \ {f}
         /\ UsedBlocks(u) = UsedBlocks(v)
         /\ Stored(u) = Stored(v) \ {f}
         /\ u.files[f] = NoFile
         /\ \A g \in Files : g # f => u.files[g] = v.files[g]
<1>1. OwnFiles(v) /\ OwnHead(v) /\ v.catalog \in BOOLEAN
  BY OwnHas
<1>2. /\ u.udf = v.udf /\ u.joliet = v.joliet /\ u.rr = v.rr /\ u.blocks = v.blocks /\ u.catalog = v.catalog
      /\ u.boot = v.boot /\ u.head = v.head
  <2>1. {"files", "shared"} \in SUBSET Changing /\ \A x \in {"blocks", "catalog", "boot", "head"} : x \notin {"files", "shared"}
    BY DEF Changing
  <2>2. CallChanges(v, u, {"files", "shared"})
    BY DEF FileRemoved
  <2>3. QED
    BY <2>1, <2>2, CallSame
<1>3. f \in Files /\ v.files = [g \in Files |-> v.files[g]] /\ u.files = [v.files EXCEPT ![f] = NoFile]
  BY <1>1 DEF OwnFiles, CanBeRemoved, FileRemoved, Present
<1>4. u.files[f] = NoFile /\ (\A g \in Files : g # f => u.files[g] = v.files[g]) /\ u.files = [g \in Files |-> u.files[g]]
  BY <1>3
<1>5. TreesOf(u) = TreesOf(v) /\ (\A k : HeaderCount(u, k) = HeaderCount(v, k))
  BY <1>2 DEF TreesOf, HeaderCount
<1>6. OwnHead(u)
  BY <1>1, <1>2, <1>5 DEF OwnHead
<1>7. DOMAIN NoFile = DOMAIN NoFile /\ NoFile.in = {} /\ NoFile.len = 0 /\ NoFile.ext = 0 /\ NoFile.fe = 0 /\ NoFile.ce = "none"
      /\ NoFile.data = <<>> /\ NoFile.bytes = <<>>
  BY DEF NoFile
<1>8. Present(u) = Present(v) \ {f} /\ \A t : InTree(u, t) = InTree(v, t) \ {f}
  <2>1. \A g : g \in Present(u) <=> g \in Present(v) /\ g # f
    BY <1>3, <1>4, <1>7 DEF Present
  <2>2. \A t, g : g \in InTree(u, t) <=> g \in InTree(v, t) /\ g # f
    BY <1>3, <1>4, <1>7 DEF InTree
  <2>3. QED
    BY <2>1, <2>2
<1>9. Stored(u) = Stored(v) \ {f}
  <2>1. \A g \in Present(u) : u.files[g].len = v.files[g].len
    BY <1>4, <1>8 DEF Present
  <2>2. QED
    BY <1>8, <2>1 DEF Stored
<1>10. UsedBlocks(u) = UsedBlocks(v)
  <2>1. \A g \in InTree(u, "iso") : u.files[g].ce = v.files[g].ce
    BY <1>4, <1>8 DEF InTree
  <2>2. ASSUME NEW g \in InTree(v, "iso"), v.files[g].ce # "none"
        PROVE  \E h \in InTree(u, "iso") : u.files[h].ce = v.files[g].ce
    <3>1. CASE g # f
      BY <1>8, <2>1, <3>1
    <3>2. CASE g = f
      <4>1. PICK h \in Present(v) \ {f} : v.files[h].ce = v.files[f].ce
        BY <2>2, <3>2 DEF CanBeRemoved
      <4>2. OwnFile(v, h)
        BY <1>1, <4>1 DEF OwnFiles, Present
      <4>3. h \in InTree(v, "iso")
        BY <2>2, <3>2, <4>1, <4>2 DEF OwnFile, InTree, Present
      <4>4. h \in InTree(u, "iso")
        BY <1>8, <4>1, <4>3
      <4>5. u.files[h].ce = v.files[h].ce
        BY <2>1, <4>4
      <4>6. QED
        BY <3>2, <4>1, <4>4, <4>5
    <3>3. QED
      BY <3>1, <3>2
  <2>3. \A x : x \in UsedBlocks(u) <=> x \in UsedBlocks(v)
    <3>1. \A x : x \in UsedBlocks(u) <=> x # "none" /\ \E g \in InTree(u, "iso") : x = u.files[g].ce
      BY DEF UsedBlocks
    <3>2. \A x : x \in UsedBlocks(v) <=> x # "none" /\ \E g \in InTree(v, "iso") : x = v.files[g].ce
      BY DEF UsedBlocks
    <3>3. InTree(u, "iso") \subseteq InTree(v, "iso")
      BY <1>8
    <3>4. QED
      BY ONLY <2>1, <2>2, <3>1, <3>2, <3>3
  <2>4. QED
    BY <2>3
<1>11. u.blocks \ {"er"} = UsedBlocks(u) /\ ("er" \in u.blocks => u.rr)
  BY <1>1, <1>2, <1>10 DEF OwnFiles
<1>12. ASSUME NEW g \in Files PROVE OwnFile(u, g)
  <2>1. CASE g = f
    <3>1. u.files[g].data = <<>> /\ u.files[g].len = 0 /\ DOMAIN u.files[g] = DOMAIN NoFile /\ u.files[g].in = {}
          /\ u.files[g].ext = 0 /\ u.files[g].fe = 0 /\ u.files[g].ce = "none" /\ u.files[g].bytes = <<>>
      BY <1>4, <1>7, <2>1
    <3>2. (\A x : [i \in 1..0 |-> x[i]] = <<>>) /\ \A x : [i \in {} |-> x[i]] = <<>>
      OBVIOUS
    <3>3. QED
      BY ONLY <3>1, <3>2 DEF OwnFile
  <2>2. CASE g # f
    <3>1. OwnFile(v, g)
      BY <1>1 DEF OwnFiles
    <3>2. QED
      BY <1>2, <1>4, <1>5, <2>2, <3>1 DEF OwnFile
  <2>3. QED
    BY <2>1, <2>2
<1>13. \A a, b \in Present(u) : u.files[a].len = 0 /\ u.files[b].len = 0 => a = b
  <2>1. \A a, b \in Present(v) : v.files[a].len = 0 /\ v.files[b].len = 0 => a = b
    BY <1>1 DEF OwnFiles
  <2>2. \A a \in Present(u) : u.files[a] = v.files[a] /\ a \in Present(v)
    BY <1>4, <1>8 DEF Present
  <2>3. QED
    BY ONLY <2>1, <2>2
<1>14. /\ u.boot \subseteq {g \in InTree(u, "iso") : u.files[g].len > 0} /\ (u.boot # {} => u.catalog)
       /\ u.shared \subseteq {g \in Present(u) : u.files[g].len = 0}
  <2>1. /\ v.boot \subseteq {g \in InTree(v, "iso") : v.files[g].len > 0} /\ (v.boot # {} => v.catalog)
        /\ v.shared \subseteq {g \in Present(v) : v.files[g].len = 0}
    BY <1>1 DEF OwnFiles
  <2>2. \A a \in Present(v) : a # f => u.files[a] = v.files[a]
    BY <1>4 DEF Present
  <2>3. InTree(v, "iso") \subseteq Present(v) /\ InTree(u, "iso") = InTree(v, "iso") \ {f} /\ f \notin v.boot
    BY <1>8 DEF InTree, Present, CanBeRemoved
  <2>4. u.shared = v.shared \ {f}
    BY DEF FileRemoved
  <2>5. QED
    BY ONLY <1>2, <1>8, <2>1, <2>2, <2>3, <2>4
<1>15. OwnFiles(u)
  BY ONLY <1>4, <1>11, <1>12, <1>13, <1>14 DEF OwnFiles
<1>16. QED
  BY <1>1, <1>2, <1>4, <1>6, <1>8, <1>9, <1>10, <1>15
LEMMA RemovedEnd ==
  ASSUME NEW v, Own(v), NEW u, NEW f, FileRemoved(v, u, f), CanBeRemoved(v, f)
  PROVE  /\ OwnBut(u, EndAt(v)) /\ EndAt(u) = EndAt(v) + (-RemovedBlocks(v, f))
         /\ RemovedBlocks(v, f) \in Nat /\ EndAt(v) \in Int /\ u.space = EndAt(v) + One(u.udf)
         /\ DOMAIN u = DOMAIN NoVolume /\ u.udf \in BOOLEAN /\ (u.udf => OwnUdfTo(u, EndAt(v)))
<1> DEFINE in == v.files[f].in
           len == v.files[f].len
<1>1. /\ OwnFiles(u) /\ OwnHead(u) /\ u.catalog \in BOOLEAN
      /\ InTree(u, "udf") = InTree(v, "udf") \ {f}
      /\ UsedBlocks(u) = UsedBlocks(v)
      /\ Stored(u) = Stored(v) \ {f}
      /\ u.files[f] = NoFile
      /\ \A g \in Files : g # f => u.files[g] = v.files[g]
  BY RemovedFiles
<1>2. {"files", "shared"} \in SUBSET Changing /\ \A x \in {"blocks", "catalog", "boot", "head"} : x \notin {"files", "shared"}
  BY DEF Changing
<1>3. CallChanges(v, u, {"files", "shared"})
  BY DEF FileRemoved
<1>4. /\ OwnBut(u, EndAt(v)) /\ Sound(u) /\ EndAt(v) \in Int /\ u.space = EndAt(v) + One(u.udf)
      /\ DOMAIN u = DOMAIN NoVolume /\ u.udf \in BOOLEAN /\ (u.udf => OwnUdfTo(u, EndAt(v)))
  BY <1>1, <1>2, <1>3, CallOwn
<1>5. u.udf = v.udf /\ u.joliet = v.joliet /\ u.rr = v.rr /\ u.catalog = v.catalog /\ u.head = v.head
  BY <1>2, <1>3, CallSame
<1>6. f \in Files /\ f \in Present(v) /\ OwnFiles(v)
  BY OwnHas DEF CanBeRemoved, Present
<1>7. len \in Nat /\ in \subseteq TreesOf(v)
  BY <1>6 DEF OwnFiles, OwnFile
<1>8. DataBlocks(v, Stored(v)) = DataBlocks(u, Stored(u)) + len /\ DataBlocks(u, Stored(u)) \in Nat
  <2>1. HasLens(v)
    BY <1>6, OwnFilesHave
  <2>2. v.files[f].len = len /\ f \notin Stored(u)
    BY <1>1
  <2>3. Stored(v) = Stored(u) \cup (IF len > 0 THEN {f} ELSE {})
    BY <1>1, <1>6 DEF Stored
  <2>4. \A g \in Files : g # f => v.files[g] = u.files[g]
    BY <1>1
  <2>5. f \in Files /\ len \in Nat
    BY <1>6, <1>7
  <2> HIDE DEF len, in
  <2>6. Grows(u, v, Stored(u), Stored(v), f, len)
    BY ONLY <2>1, <2>2, <2>3, <2>4, <2>5 DEF Grows
  <2>7. QED
    BY ONLY <2>6, GrownBy
<1>9. Cardinality(InTree(v, "udf")) = Cardinality(InTree(u, "udf")) + One("udf" \in in)
  <2>1. InTree(u, "udf") \in SUBSET Files /\ ("udf" \in in) \in BOOLEAN
    BY DEF InTree
  <2>2. InTree(v, "udf") = InTree(u, "udf") \cup (IF "udf" \in in THEN {f} ELSE {}) /\ f \notin InTree(u, "udf")
    BY <1>1, <1>6 DEF InTree
  <2> HIDE DEF len, in
  <2>3. QED
    BY ONLY <2>1, <2>2, OneMore
<1>10. "udf" \in in => v.udf
  BY <1>7 DEF TreesOf
<1>11. One("udf" \in in) \in 0..1
  BY DEF One
<1>12. RemovedBlocks(v, f) = len + One("udf" \in in) /\ RemovedBlocks(v, f) \in Nat
  BY <1>7, <1>11 DEF RemovedBlocks
<1> HIDE DEF in, len
<1>13. TreeStart(v) = TreeStart(u) + One("udf" \in in)
  <2>1. CASE v.udf
    <3>1. TreeStart(v) = 261 + One(v.catalog) + Cardinality(InTree(v, "udf"))
      BY <2>1, OwnSound, EndParts
    <3>2. /\ TreeStart(u) = 261 + One(u.catalog) + Cardinality(InTree(u, "udf"))
          /\ Cardinality(InTree(u, "udf")) \in Nat /\ One(u.catalog) \in 0..1
      BY <1>4, <1>5, <2>1, EndParts
    <3>3. QED
      BY ONLY <1>5, <1>9, <1>11, <3>1, <3>2
  <2>2. CASE ~v.udf
    <3>1. TreeStart(v) = 16 + Len(v.head["pvd"]) + One(v.catalog) + One(v.joliet) + 1 + 1 /\ TreeStart(v) \in Nat
      BY <2>2, OwnSound, EndParts
    <3>2. TreeStart(u) = 16 + Len(u.head["pvd"]) + One(u.catalog) + One(u.joliet) + 1 + 1
      BY <1>4, <1>5, <2>2, EndParts
    <3>3. One("udf" \in in) = 0
      BY <1>10, <2>2 DEF One
    <3>4. TreeStart(u) = TreeStart(v)
      BY ONLY <1>5, <3>1, <3>2
    <3>5. QED
      BY ONLY <3>1, <3>3, <3>4
  <2>3. QED
    BY <2>1, <2>2
<1>14. EndAt(u) = EndAt(v) + (-RemovedBlocks(v, f))
  <2>1. EndAt(v) = TreeStart(v) + 5 + 5 * One(v.joliet) + One(v.rr) + One(v.catalog)
                       + Cardinality(UsedBlocks(v)) + DataBlocks(v, Stored(v))
    BY OwnSound, EndParts
  <2>2. /\ EndAt(u) = TreeStart(u) + 5 + 5 * One(u.joliet) + One(u.rr) + One(u.catalog)
                      + Cardinality(UsedBlocks(u)) + DataBlocks(u, Stored(u))
        /\ TreeStart(u) \in Nat
        /\ One(u.joliet) \in 0..1 /\ One(u.rr) \in 0..1 /\ One(u.catalog) \in 0..1
        /\ Cardinality(UsedBlocks(u)) = (IF UsedBlocks(u) = {} THEN 0 ELSE 1)
    BY <1>4, EndParts
  <2>3. Cardinality(UsedBlocks(u)) \in Nat /\ UsedBlocks(u) = UsedBlocks(v)
    BY <1>1, <2>2
  <2>4. EndAt(u) = EndAt(v) + (-(len + One("udf" \in in)))
    BY ONLY <1>5, <1>7, <1>8, <1>11, <1>13, <2>1, <2>2, <2>3
  <2>5. QED
    BY ONLY <1>12, <2>4
<1>15. QED
  BY <1>4, <1>12, <1>14

LEMMA RmFileKept ==
  ASSUME NEW v, Own(v), NEW u, NEW f, FileRemoved(v, u, f), CanBeRemoved(v, f), NEW t, t = [g \in Files |-> t[g]], Says(v, t)
  PROVE  /\ Own(FinishRemove(u, RemovedBlocks(v, f))) /\ FinishRemove(u, RemovedBlocks(v, f)).pending = TRUE
         /\ Says(FinishRemove(u, RemovedBlocks(v, f)), [t EXCEPT ![f] = Nothing])
<1> DEFINE d == RemovedBlocks(v, f)
           w == FinishRemove(u, d)
           t2 == [t EXCEPT ![f] = Nothing]
           end == EndAt(v)
<1>1. /\ OwnBut(u, end) /\ EndAt(u) = end + (-d) /\ d \in Nat /\ end \in Int /\ u.space = end + One(u.udf)
      /\ DOMAIN u = DOMAIN NoVolume /\ u.udf \in BOOLEAN /\ (u.udf => OwnUdfTo(u, end))
  BY RemovedEnd
<1> HIDE DEF d, end
<1>2. d \in Int /\ -d \in Int
  BY <1>1
<1>3. Resized(u, w, end, -d)
  BY ONLY <1>1, <1>2, FinishRemoveHas
<1> HIDE DEF w
<1>4. Own(w) /\ w.pending = TRUE /\ SameData(u, w)
  BY ONLY <1>1, <1>2, <1>3, ResizedKept
<1>5. u.files[f] = NoFile /\ (\A g \in Files : g # f => u.files[g] = v.files[g]) /\ f \in Files
  BY RemovedFiles DEF CanBeRemoved, Present
<1>6. t2[f] = Nothing /\ \A g \in Files : g # f => t2[g] = t[g]
  BY <1>5
<1> HIDE DEF t2
<1>7. ASSUME NEW g \in Files
      PROVE  /\ u.files[g].in = t2[g].in /\ u.files[g].len = t2[g].len
             /\ u.files[g].data = [i \in 1..t2[g].len |-> Data(g, t2[g].ver, i)]
             /\ u.files[g].bytes = [x \in t2[g].in |-> Bytes(t2[g].len, t2[g].ver)]
  <2>1. CASE g = f
    <3>1. t2[f].in = {} /\ t2[f].len = 0 /\ t2[f].ver = 0
      BY <1>6 DEF Nothing
    <3>2. u.files[f].in = {} /\ u.files[f].len = 0 /\ u.files[f].data = <<>> /\ u.files[f].bytes = <<>>
      BY <1>5 DEF NoFile
    <3>3. <<>> = [i \in 1..0 |-> Data(f, 0, i)] /\ <<>> = [x \in {} |-> Bytes(0, 0)]
      OBVIOUS
    <3>4. QED
      BY ONLY <2>1, <3>1, <3>2, <3>3
  <2>2. CASE g # f
    BY <1>5, <1>6, <2>2 DEF Says
  <2>3. QED
    BY <2>1, <2>2
<1>8. Says(u, t2)
  BY <1>7 DEF Says
<1>9. Says(w, t2)
  BY <1>4, <1>8, SaysSame
<1>10. QED
  BY <1>4, <1>9 DEF w, d, t2
-----------------------------------------------------------------------------
(* add_eltorito, rm_eltorito and duplicate_pvd                              *)

\* Only the boot files, the catalog and the header change.
LEMMA BootFiles ==
  ASSUME NEW v, OwnFiles(v), NEW u, u.files = v.files, u.shared = v.shared, u.blocks = v.blocks,
         u.udf = v.udf, u.joliet = v.joliet, u.rr = v.rr,
         u.boot \subseteq {f \in InTree(v, "iso") : v.files[f].len > 0}, u.boot # {} => u.catalog
  PROVE  /\ OwnFiles(u) /\ UsedBlocks(u) = UsedBlocks(v)
         /\ InTree(u, "udf") = InTree(v, "udf") /\ DataBlocks(u, Stored(u)) = DataBlocks(v, Stored(v))
<1>1. TreesOf(u) = TreesOf(v) /\ Present(u) = Present(v) /\ (\A t : InTree(u, t) = InTree(v, t))
  BY DEF TreesOf, Present, InTree
<1>2. Stored(u) = Stored(v) /\ UsedBlocks(u) = UsedBlocks(v)
  BY <1>1 DEF Stored, UsedBlocks
<1>3. DataBlocks(u, Stored(u)) = DataBlocks(v, Stored(v))
  BY <1>2 DEF DataBlocks
<1>4. \A f \in Files : OwnFile(u, f)
  BY <1>1 DEF OwnFiles, OwnFile
<1>5. /\ u.files = [f \in Files |-> u.files[f]]
      /\ \A f, g \in Present(u) : u.files[f].len = 0 /\ u.files[g].len = 0 => f = g
      /\ u.shared \subseteq {f \in Present(u) : u.files[f].len = 0}
      /\ u.blocks \ {"er"} = UsedBlocks(u) /\ ("er" \in u.blocks => u.rr)
  BY <1>1, <1>2 DEF OwnFiles
<1>6. u.boot \subseteq {f \in InTree(u, "iso") : u.files[f].len > 0}
  BY <1>1
<1>7. OwnFiles(u)
  BY <1>4, <1>5, <1>6 DEF OwnFiles
<1>8. QED
  BY <1>1, <1>2, <1>3, <1>7

\* The blocks of the header, and of the catalog and its file entry.
HeadBlocks(v) == IF v.udf THEN 0 ELSE Len(v.head["pvd"]) + One(v.catalog)
BootBlocks(v) == HeadBlocks(v) + One(v.catalog) + (IF v.udf THEN One(v.catalog) ELSE 0)
LEMMA BootEnd ==
  ASSUME NEW v, Sound(v), NEW u, Sound(u), u.udf = v.udf, u.joliet = v.joliet, u.rr = v.rr,
         InTree(u, "udf") = InTree(v, "udf"), UsedBlocks(u) = UsedBlocks(v),
         DataBlocks(u, Stored(u)) = DataBlocks(v, Stored(v))
  PROVE  EndAt(u) = EndAt(v) + (BootBlocks(u) - BootBlocks(v)) /\ BootBlocks(u) \in Nat /\ BootBlocks(v) \in Nat
<1>1. v.udf \in BOOLEAN
  BY DEF Sound, OwnRest
<1>2. /\ EndAt(v) = TreeStart(v) + 5 + 5 * One(v.joliet) + One(v.rr) + One(v.catalog)
                    + Cardinality(UsedBlocks(v)) + DataBlocks(v, Stored(v))
      /\ v.udf => TreeStart(v) = 261 + One(v.catalog) + Cardinality(InTree(v, "udf"))
      /\ ~v.udf => TreeStart(v) = 16 + Len(v.head["pvd"]) + One(v.catalog) + One(v.joliet) + 1 + 1
      /\ Len(v.head["pvd"]) \in Nat /\ Cardinality(InTree(v, "udf")) \in Nat
      /\ One(v.joliet) \in 0..1 /\ One(v.rr) \in 0..1 /\ One(v.catalog) \in 0..1
      /\ Cardinality(UsedBlocks(v)) = (IF UsedBlocks(v) = {} THEN 0 ELSE 1)
      /\ DataBlocks(v, Stored(v)) \in Nat
  BY EndParts
<1>3. /\ EndAt(u) = TreeStart(u) + 5 + 5 * One(u.joliet) + One(u.rr) + One(u.catalog)
                    + Cardinality(UsedBlocks(u)) + DataBlocks(u, Stored(u))
      /\ u.udf => TreeStart(u) = 261 + One(u.catalog) + Cardinality(InTree(u, "udf"))
      /\ ~u.udf => TreeStart(u) = 16 + Len(u.head["pvd"]) + One(u.catalog) + One(u.joliet) + 1 + 1
      /\ Len(u.head["pvd"]) \in Nat /\ One(u.catalog) \in 0..1
  BY EndParts
<1>4. Cardinality(UsedBlocks(v)) \in Nat
  BY <1>2
<1>5. /\ Len(v.head["pvd"]) \in Nat /\ Len(u.head["pvd"]) \in Nat /\ One(v.catalog) \in Nat /\ One(u.catalog) \in Nat
      /\ One(v.joliet) \in Nat /\ One(v.rr) \in Nat /\ Cardinality(UsedBlocks(v)) \in Nat
      /\ DataBlocks(v, Stored(v)) \in Nat /\ Cardinality(InTree(v, "udf")) \in Nat
  BY <1>2, <1>3
<1> DEFINE p == Len(v.head["pvd"])
           q == Len(u.head["pvd"])
           c == One(v.catalog)
           d == One(u.catalog)
           j == One(v.joliet)
           r == One(v.rr)
           k == Cardinality(UsedBlocks(v))
           x == DataBlocks(v, Stored(v))
           s == Cardinality(InTree(v, "udf"))
<1>6. p \in Nat /\ q \in Nat /\ c \in Nat /\ d \in Nat /\ j \in Nat /\ r \in Nat /\ k \in Nat /\ x \in Nat /\ s \in Nat
  BY <1>5
<1>7. /\ EndAt(v) = TreeStart(v) + 5 + 5 * j + r + c + k + x
      /\ EndAt(u) = TreeStart(u) + 5 + 5 * j + r + d + k + x
  BY <1>2, <1>3, u.joliet = v.joliet, u.rr = v.rr
<1>8. /\ v.udf => TreeStart(v) = 261 + c + s /\ TreeStart(u) = 261 + d + s
      /\ ~v.udf => TreeStart(v) = 16 + p + c + j + 1 + 1 /\ TreeStart(u) = 16 + q + d + j + 1 + 1
  BY <1>2, <1>3, u.joliet = v.joliet, u.udf = v.udf, InTree(u, "udf") = InTree(v, "udf")
<1>9. /\ v.udf => BootBlocks(u) = 0 + d + d /\ BootBlocks(v) = 0 + c + c
      /\ ~v.udf => BootBlocks(u) = (q + d) + d + 0 /\ BootBlocks(v) = (p + c) + c + 0
  BY u.udf = v.udf DEF BootBlocks, HeadBlocks
<1> HIDE DEF p, q, c, d, j, r, k, x, s
<1>10. CASE v.udf
  <2>1. TreeStart(v) = 261 + c + s /\ TreeStart(u) = 261 + d + s /\ BootBlocks(u) = 0 + d + d /\ BootBlocks(v) = 0 + c + c
    BY <1>8, <1>9, <1>10
  <2>2. QED
    BY ONLY <1>6, <1>7, <2>1
<1>11. CASE ~v.udf
  <2>1. /\ TreeStart(v) = 16 + p + c + j + 1 + 1 /\ TreeStart(u) = 16 + q + d + j + 1 + 1
        /\ BootBlocks(u) = (q + d) + d + 0 /\ BootBlocks(v) = (p + c) + c + 0
    BY <1>8, <1>9, <1>11
  <2>2. QED
    BY ONLY <1>6, <1>7, <2>1
<1>12. QED
  BY <1>1, <1>10, <1>11

HeadFields == {"boot", "catalog", "head"}
LEMMA HeadChanged ==
  ASSUME NEW v, Own(v), NEW u, CallChanges(v, u, HeadFields), u.catalog \in BOOLEAN, OwnHead(u),
         u.boot \subseteq {f \in InTree(v, "iso") : v.files[f].len > 0}, u.boot # {} => u.catalog
  PROVE  /\ OwnBut(u, EndAt(v)) /\ EndAt(u) = EndAt(v) + (BootBlocks(u) - BootBlocks(v))
         /\ BootBlocks(u) - BootBlocks(v) \in Int /\ EndAt(v) \in Int /\ u.space = EndAt(v) + One(u.udf)
         /\ DOMAIN u = DOMAIN NoVolume /\ u.udf \in BOOLEAN /\ (u.udf => OwnUdfTo(u, EndAt(v)))
         /\ \A t : Says(v, t) => Says(u, t)
<1>1. HeadFields \in SUBSET Changing /\ \A x \in {"shared", "files", "blocks"} : x \notin HeadFields
  BY DEF Changing, HeadFields
<1>2. /\ u.udf = v.udf /\ u.joliet = v.joliet /\ u.rr = v.rr /\ u.blocks = v.blocks /\ u.files = v.files
      /\ u.shared = v.shared
  BY <1>1, CallSame
<1>3. /\ OwnFiles(u) /\ UsedBlocks(u) = UsedBlocks(v)
      /\ InTree(u, "udf") = InTree(v, "udf") /\ DataBlocks(u, Stored(u)) = DataBlocks(v, Stored(v))
  <2>1. OwnFiles(v)
    BY OwnHas
  <2>2. QED
    BY <1>2, <2>1, BootFiles
<1>4. /\ OwnBut(u, EndAt(v)) /\ Sound(u) /\ EndAt(v) \in Int /\ u.space = EndAt(v) + One(u.udf)
      /\ DOMAIN u = DOMAIN NoVolume /\ u.udf \in BOOLEAN /\ (u.udf => OwnUdfTo(u, EndAt(v)))
  BY <1>1, <1>3, CallOwn
<1>5. EndAt(u) = EndAt(v) + (BootBlocks(u) - BootBlocks(v)) /\ BootBlocks(u) \in Nat /\ BootBlocks(v) \in Nat
  BY <1>2, <1>3, <1>4, OwnSound, BootEnd
<1>6. \A t : Says(v, t) => Says(u, t)
  BY <1>2 DEF Says
<1>7. QED
  BY <1>4, <1>5, <1>6
LEMMA HeadAddKept ==
  ASSUME NEW v, Own(v), NEW u, CallChanges(v, u, HeadFields), u.catalog \in BOOLEAN, OwnHead(u),
         u.boot \subseteq {f \in InTree(v, "iso") : v.files[f].len > 0}, u.boot # {} => u.catalog,
         NEW n \in Int, NEW d \in Int, v.udf => n = 0, n + d = BootBlocks(u) - BootBlocks(v), NEW t, Says(v, t)
  PROVE  Own(FinishAdd(u, n, d)) /\ FinishAdd(u, n, d).pending = TRUE /\ Says(FinishAdd(u, n, d), t)
<1> DEFINE w == FinishAdd(u, n, d)
           m == BootBlocks(u) - BootBlocks(v)
           end == EndAt(v)
<1>1. /\ OwnBut(u, end) /\ EndAt(u) = end + m /\ m \in Int /\ end \in Int /\ u.space = end + One(u.udf)
      /\ DOMAIN u = DOMAIN NoVolume /\ u.udf \in BOOLEAN /\ (u.udf => OwnUdfTo(u, end)) /\ Says(u, t)
  BY HeadChanged
<1>2. n + d = m /\ u.udf = v.udf
  <2>1. HeadFields \in SUBSET Changing
    BY DEF Changing, HeadFields
  <2>2. QED
    BY <2>1, CallSame
<1> HIDE DEF m, end
<1>3. u.space + n + d = end + m + One(u.udf) /\ (u.udf => m = d)
  <2>1. One(u.udf) \in Int
    BY DEF One
  <2>2. QED
    BY <1>1, <1>2, <2>1
<1>4. Resized(u, w, end, m)
  BY ONLY <1>1, <1>3, n \in Int, d \in Int, FinishAddHas
<1> HIDE DEF w
<1>5. Own(w) /\ w.pending = TRUE /\ SameData(u, w)
  BY ONLY <1>1, <1>4, ResizedKept
<1>6. Says(w, t)
  BY <1>1, <1>5, SaysSame
<1>7. QED
  BY <1>5, <1>6 DEF w
LEMMA HeadRemoveKept ==
  ASSUME NEW v, Own(v), NEW u, CallChanges(v, u, HeadFields), u.catalog \in BOOLEAN, OwnHead(u),
         u.boot \subseteq {f \in InTree(v, "iso") : v.files[f].len > 0}, u.boot # {} => u.catalog,
         NEW d \in Int, -d = BootBlocks(u) - BootBlocks(v), NEW t, Says(v, t)
  PROVE  Own(FinishRemove(u, d)) /\ FinishRemove(u, d).pending = TRUE /\ Says(FinishRemove(u, d), t)
<1> DEFINE w == FinishRemove(u, d)
           end == EndAt(v)
<1>1. /\ OwnBut(u, end) /\ EndAt(u) = end + (-d) /\ -d \in Int /\ end \in Int /\ u.space = end + One(u.udf)
      /\ DOMAIN u = DOMAIN NoVolume /\ u.udf \in BOOLEAN /\ (u.udf => OwnUdfTo(u, end)) /\ Says(u, t)
  BY HeadChanged
<1> HIDE DEF end
<1>2. Resized(u, w, end, -d)
  BY ONLY <1>1, d \in Int, FinishRemoveHas
<1> HIDE DEF w
<1>3. Own(w) /\ w.pending = TRUE /\ SameData(u, w)
  BY ONLY <1>1, <1>2, ResizedKept
<1>4. Says(w, t)
  BY <1>1, <1>3, SaysSame
<1>5. QED
  BY <1>3, <1>4 DEF w
Entries(s) ==
  /\ Len(s) \in Nat
  /\ s = [i \in 1..Len(s) |-> [extent |-> s[i].extent, is |-> s[i].is]]
  /\ \A i \in 1..Len(s) : s[i].extent \in Int
LEMMA EntryAppended ==
  ASSUME NEW s, Entries(s)
  PROVE  Entries(Append(s, NoEntry)) /\ Len(Append(s, NoEntry)) = Len(s) + 1
<1> DEFINE t == Append(s, NoEntry)
           S == {s[i] : i \in 1..Len(s)} \cup {NoEntry}
<1>1. /\ Len(s) \in Nat /\ s = [i \in 1..Len(s) |-> [extent |-> s[i].extent, is |-> s[i].is]]
      /\ \A i \in 1..Len(s) : s[i].extent \in Int
  BY DEF Entries
<1>2. s = [i \in 1..Len(s) |-> s[i]]
  <2>1. \A n, f : s = [i \in 1..n |-> f[i]] => s = [i \in 1..n |-> s[i]]
    OBVIOUS
  <2> DEFINE f == [i \in 1..Len(s) |-> [extent |-> s[i].extent, is |-> s[i].is]]
  <2>2. s = [i \in 1..Len(s) |-> f[i]]
    BY <1>1
  <2>3. QED
    BY <2>1, <2>2
<1>3. s \in Seq(S) /\ NoEntry \in S
  BY <1>1, <1>2
<1>4. Len(t) = Len(s) + 1 /\ t \in Seq(S)
  BY <1>3
<1>5. t = [i \in 1..Len(t) |-> IF i <= Len(s) THEN s[i] ELSE NoEntry]
  <2>1. \A i \in 1..(Len(s) + 1) : t[i] = IF i <= Len(s) THEN s[i] ELSE NoEntry
    BY <1>1, <1>3
  <2> HIDE DEF t
  <2>2. t = [i \in 1..Len(t) |-> t[i]]
    BY <1>4
  <2>3. [i \in 1..Len(t) |-> t[i]] = [i \in 1..Len(t) |-> IF i <= Len(s) THEN s[i] ELSE NoEntry]
    BY <1>4, <2>1
  <2>4. QED
    BY ONLY <2>2, <2>3
<1>6. NoEntry = [extent |-> -1, is |-> Zero] /\ NoEntry.extent = -1 /\ NoEntry.is = Zero
  BY DEF NoEntry, Entry
<1> HIDE DEF t, S
<1>7. \A i \in 1..Len(t) : t[i] = [extent |-> t[i].extent, is |-> t[i].is] /\ t[i].extent \in Int
  <2> TAKE i \in 1..Len(t)
  <2>1. CASE i <= Len(s)
    <3>1. i \in 1..Len(s) /\ t[i] = s[i]
      BY <1>1, <1>4, <1>5, <2>1
    <3>2. s[i] = [extent |-> s[i].extent, is |-> s[i].is] /\ s[i].extent \in Int
      <4>1. \A n, f : s = [x \in 1..n |-> f[x]] /\ i \in 1..n => s[i] = f[i]
        OBVIOUS
      <4> DEFINE f == [x \in 1..Len(s) |-> [extent |-> s[x].extent, is |-> s[x].is]]
      <4>2. s[i] = f[i]
        BY <1>1, <3>1
      <4>3. QED
        BY <1>1, <3>1, <4>2
    <3>3. QED
      BY ONLY <3>1, <3>2
  <2>2. CASE ~(i <= Len(s))
    <3>1. t[i] = NoEntry
      BY <1>5, <2>2
    <3>2. QED
      BY ONLY <1>6, <3>1
  <2>3. QED
    BY <2>1, <2>2
<1>8. t = [i \in 1..Len(t) |-> [extent |-> t[i].extent, is |-> t[i].is]]
  <2> DEFINE f == [i \in 1..Len(t) |-> [extent |-> t[i].extent, is |-> t[i].is]]
             g == [i \in 1..Len(t) |-> IF i <= Len(s) THEN s[i] ELSE NoEntry]
  <2>1. t = g /\ DOMAIN g = 1..Len(t) /\ DOMAIN f = 1..Len(t)
    BY <1>5
  <2>2. \A i \in 1..Len(t) : f[i] = t[i]
    BY <1>7
  <2>3. t = [i \in 1..Len(t) |-> t[i]]
    BY <2>1
  <2>4. f = [i \in 1..Len(t) |-> t[i]]
    BY <2>2
  <2>5. QED
    BY <2>3, <2>4
<1>9. Len(t) \in Nat
  BY <1>1, <1>4
<1>10. QED
  BY <1>4, <1>7, <1>8, <1>9 DEF Entries, t

LEMMA NoEntries == Entries(<<>>) /\ Len(<<>>) = 0
BY DEF Entries
LEMMA EntriesOne ==
  ASSUME NEW s, Entries(s), Len(s) = 1
  PROVE  Tail(s) = <<>>
<1>1. s = [i \in 1..1 |-> [extent |-> s[i].extent, is |-> s[i].is]]
  BY Zenon DEF Entries
<1>2. s = <<[extent |-> s[1].extent, is |-> s[1].is]>>
  BY <1>1
<1>3. \A x : Tail(<<x>>) = <<>>
  OBVIOUS
<1>4. QED
  BY <1>2, <1>3, Zenon

\* The header of a volume in which one list of descriptors is another.
LEMMA HeadReplaced ==
  ASSUME NEW v, OwnHead(v), NEW u, NEW n \in HeaderNames, NEW s, Entries(s), u.head = [v.head EXCEPT ![n] = s],
         u.udf = v.udf, u.joliet = v.joliet, n \in {"pvd", "br"},
         n = "br" => Len(s) = One(u.catalog),
         n = "pvd" => Len(s) >= 1 /\ (v.udf => Len(s) = 1) /\ u.catalog = v.catalog
  PROVE  OwnHead(u)
<1>1. /\ DOMAIN v.head = HeaderNames
      /\ \A k \in HeaderNames : Entries(v.head[k]) /\ (k # "pvd" => Len(v.head[k]) = HeaderCount(v, k))
      /\ Len(v.head["pvd"]) >= 1 /\ (v.udf => Len(v.head["pvd"]) = 1)
      /\ v.head["version"][1].is = Zero
      /\ v.udf => /\ v.head["bea"][1].is = [k |-> "vs", s |-> NewBEA]
                  /\ v.head["nsr"][1].is = [k |-> "vs", s |-> NewNSR]
                  /\ v.head["tea"][1].is = [k |-> "vs", s |-> NewTEA]
  BY DEF OwnHead, Entries
<1>2. u.head[n] = s /\ DOMAIN u.head = HeaderNames /\ \A k \in HeaderNames : k # n => u.head[k] = v.head[k]
  BY <1>1
<1>3. \A k \in HeaderNames : Entries(u.head[k])
  <2> TAKE k \in HeaderNames
  <2>1. CASE k = n
    BY <1>2, <2>1
  <2>2. CASE k # n
    <3>1. u.head[k] = v.head[k] /\ Entries(v.head[k])
      BY <1>1, <1>2, <2>2
    <3>2. QED
      BY ONLY <3>1
  <2>3. QED
    BY <2>1, <2>2
<1>4. /\ HeaderCount(u, "br") = One(u.catalog)
      /\ \A k \in HeaderNames : k # "br" /\ k # "pvd" => HeaderCount(u, k) = HeaderCount(v, k)
      /\ u.catalog = v.catalog => HeaderCount(u, "br") = HeaderCount(v, "br")
  BY ONLY u.udf = v.udf, u.joliet = v.joliet, Names DEF HeaderCount
<1>5. \A k \in HeaderNames : k # "pvd" => Len(u.head[k]) = HeaderCount(u, k)
  <2> SUFFICES ASSUME NEW k \in HeaderNames, k # "pvd" PROVE Len(u.head[k]) = HeaderCount(u, k)
    OBVIOUS
  <2>1. CASE k = n
    <3>1. u.head[k] = s /\ n = "br" /\ k = "br"
      BY <1>2, <2>1
    <3>2. QED
      BY ONLY <1>4, <3>1, n = "br" => Len(s) = One(u.catalog)
  <2>2. CASE k # n
    <3>1. u.head[k] = v.head[k] /\ Len(v.head[k]) = HeaderCount(v, k)
      BY <1>1, <1>2, <2>2
    <3>2. HeaderCount(u, k) = HeaderCount(v, k)
      BY <1>4, <2>2
    <3>3. QED
      BY ONLY <3>1, <3>2
  <2>3. QED
    BY <2>1, <2>2
<1>6. \A k \in {"version", "bea", "nsr", "tea"} : u.head[k] = v.head[k]
  BY <1>2, Names
<1>7. Len(u.head["pvd"]) >= 1 /\ (u.udf => Len(u.head["pvd"]) = 1)
  <2>1. CASE n = "pvd"
    BY <1>2, <2>1
  <2>2. CASE n # "pvd"
    <3>1. u.head["pvd"] = v.head["pvd"]
      BY <1>2, <2>2, Names
    <3>2. QED
      BY ONLY <1>1, <3>1, u.udf = v.udf
  <2>3. QED
    BY <2>1, <2>2
<1>8. /\ u.head["version"][1].is = Zero
      /\ u.udf => /\ u.head["bea"][1].is = [k |-> "vs", s |-> NewBEA]
                  /\ u.head["nsr"][1].is = [k |-> "vs", s |-> NewNSR]
                  /\ u.head["tea"][1].is = [k |-> "vs", s |-> NewTEA]
  BY ONLY <1>1, <1>6, u.udf = v.udf
<1>9. QED
  BY ONLY <1>2, <1>3, <1>5, <1>7, <1>8 DEF OwnHead, Entries
LEMMA CountedCall ==
  ASSUME NEW v, DOMAIN v = DOMAIN NoVolume, NEW p, CountedFiles(v, p), NEW u, NEW C \in SUBSET Changing, DOMAIN u = DOMAIN p,
         \A x \in DOMAIN p \ C : u[x] = p[x]
  PROVE  CallChanges(v, u, C)
<1>1. DOMAIN p = DOMAIN v /\ (\A x \in DOMAIN v \ {"lvid"} : p[x] = v[x]) /\ UdfCounted(v, p)
  BY DEF CountedFiles
<1>2. \A x \in DOMAIN v \ (C \cup {"lvid"}) : u[x] = v[x]
  BY <1>1
<1> DEFINE K == {"udf", "main", "reserve", "lvid", "lvidEnd", "anchors", "set", "setEnd"}
<1>3. K \subseteq DOMAIN p \ C
  BY <1>1, Fields DEF Changing
<1> HIDE DEF K
<1>4. \A x \in K : u[x] = p[x]
  BY <1>3
<1> USE DEF K
<1>5. /\ u.udf = p.udf /\ u.main = p.main /\ u.reserve = p.reserve /\ u.lvid = p.lvid /\ u.lvidEnd = p.lvidEnd
      /\ u.anchors = p.anchors /\ u.set = p.set /\ u.setEnd = p.setEnd
  BY ONLY <1>4
<1>6. UdfCounted(v, u)
  BY ONLY <1>1, <1>5 DEF UdfCounted
<1>7. QED
  BY <1>1, <1>2, <1>6 DEF CallChanges

\* What a call that changes the volume leaves.
Kept == vol # NoVolume => Own(vol) /\ Says(vol, truth) /\ (~vol.pending => Placed(vol))
TruthKept == truth = [f \in Files |-> truth[f]]
ChangedTo(v, t) == Own(v) /\ v.pending = TRUE /\ Says(v, t)

LEMMA AddFileChanges ==
  ASSUME Faults = {}, Kept, TruthKept, NEW f \in Files, NEW len \in Lengths, NEW in \in Placements, NEW long \in BOOLEAN,
         AddFile(f, len, in, long)
  PROVE  \E v, t : ChangedTo(v, t) /\ Change(v, t) /\ t = [truth EXCEPT ![f] = [in |-> in, len |-> len, ver |-> calls + 1]]
<1> DEFINE udf == "udf" \in in
           ce == IF long THEN ContinuationBlock(vol) ELSE "none"
           file == [in |-> in, len |-> len, bytes |-> [x \in in |-> Bytes(len, calls + 1)],
                    ext |-> 0, fe |-> 0, numUdf |-> IF udf THEN 1 ELSE 0, ce |-> ce,
                    data |-> [i \in 1..len |-> Data(f, calls + 1, i)]]
           n == IF udf THEN 1 ELSE 0
           p == UdfFiles(vol, n)
           u == [p EXCEPT !.files[f] = file, !.blocks = IF long THEN @ \cup {ce} ELSE @]
           d == len + (IF udf THEN 1 ELSE 0) + (IF long /\ vol.blocks = {} THEN 1 ELSE 0)
           t == [truth EXCEPT ![f] = [in |-> in, len |-> len, ver |-> calls + 1]]
<1>1. /\ vol # NoVolume /\ vol.files[f].in = {} /\ in \subseteq TreesOf(vol)
      /\ (long => vol.rr /\ "iso" \in in)
      /\ (ce = "er" => "er_block" \in Faults)
      /\ (len = 0 /\ (\E g \in Present(vol) : vol.files[g].len = 0) => "empty_files" \in Faults)
  BY DEF AddFile
<1>2. Change(FinishAdd(u, 0, d), t)
  BY DEF AddFile
<1>3. Own(vol) /\ Says(vol, truth)
  BY <1>1 DEF Kept
<1>4. /\ DOMAIN vol = DOMAIN NoVolume /\ OwnDescriptors(vol, EndAt(vol)) /\ vol.udf \in BOOLEAN
  BY <1>3, OwnDescribed
<1>5. CountedFiles(vol, p)
  <2>1. n \in Int
    OBVIOUS
  <2> HIDE DEF n
  <2>2. QED
    BY <1>4, <2>1, UdfFilesHas
<1>6. d = AddedBlocks(vol, in, len, long)
  BY DEF AddedBlocks, One
<1>7. ce = (IF long THEN "own" ELSE "none") /\ (long => "er" \notin vol.blocks)
  BY <1>1 DEF ContinuationBlock
<1>8. len \in Nat /\ in \in SUBSET Trees /\ in # {}
  BY ConstantsAssumption
<1>9. CanAdd(vol, f, in, len, ce, long)
  <2>1. len = 0 => \A g \in Present(vol) : vol.files[g].len # 0
    BY <1>1
  <2> HIDE DEF ce
  <2>2. QED
    BY <1>1, <1>7, <1>8, <2>1 DEF CanAdd
<1>10. /\ NewFile(file, in, len, ce) /\ file.data = [i \in 1..len |-> Data(f, calls + 1, i)] /\ file.ce = ce
       /\ file.bytes = [x \in in |-> Bytes(len, calls + 1)]
  BY <1>8 DEF NewFile, NoFile
<1>11. FileAdded(vol, u, f, file, long)
  <2> HIDE DEF file, ce, p
  <2>1. "files" \in DOMAIN p /\ "blocks" \in DOMAIN p /\ p.files = vol.files /\ p.blocks = vol.blocks
    BY <1>4, <1>5, Fields DEF CountedFiles
  <2>2. /\ DOMAIN u = DOMAIN p /\ (\A x \in DOMAIN p \ {"files", "blocks"} : u[x] = p[x])
        /\ u.files = [p.files EXCEPT ![f] = file] /\ u.blocks = IF long THEN p.blocks \cup {ce} ELSE p.blocks
    BY <2>1
  <2> HIDE DEF u
  <2>3. {"files", "blocks"} \in SUBSET Changing
    BY DEF Changing
  <2>4. CallChanges(vol, u, {"files", "blocks"})
    BY <1>4, <1>5, <2>2, <2>3, CountedCall
  <2>5. u.files = [vol.files EXCEPT ![f] = file] /\ u.blocks = IF long THEN vol.blocks \cup {file.ce} ELSE vol.blocks
    BY <1>10, <2>1, <2>2
  <2>6. QED
    BY <2>4, <2>5 DEF FileAdded
<1> HIDE DEF u, d, ce, file, p
<1>12. ChangedTo(FinishAdd(u, 0, d), t)
  <2>1. truth = [g \in Files |-> truth[g]]
    BY DEF TruthKept
  <2>2. /\ Own(FinishAdd(u, 0, AddedBlocks(vol, in, len, long)))
        /\ FinishAdd(u, 0, AddedBlocks(vol, in, len, long)).pending = TRUE
        /\ Says(FinishAdd(u, 0, AddedBlocks(vol, in, len, long)), t)
    BY ONLY <1>3, <1>9, <1>10, <1>11, <2>1, AddFileKept
  <2>3. QED
    BY ONLY <1>6, <2>2 DEF ChangedTo
<1>13. QED
  BY <1>2, <1>12

LEMMA RmFileChanges ==
  ASSUME Faults = {}, Kept, TruthKept, NEW f \in Files, RmFile(f)
  PROVE  \E v, t : ChangedTo(v, t) /\ Change(v, t) /\ t = [truth EXCEPT ![f] = Nothing]
<1> DEFINE file == vol.files[f]
           udf == "udf" \in file.in
           gone == IF f \in vol.shared THEN vol.shared ELSE {f}
           n == -Cardinality(gone \cap InTree(vol, "udf"))
           p == UdfFiles(vol, n)
           u == [p EXCEPT !.files = [g \in Files |-> IF g \in gone THEN NoFile ELSE vol.files[g]], !.shared = @ \ gone]
           d == file.len + (IF udf /\ file.numUdf = 1 THEN 1 ELSE 0)
           t == [truth EXCEPT ![f] = Nothing]
<1>1. /\ f \in Present(vol) \ vol.boot
      /\ (udf /\ file.numUdf # 1 => "reopened_udf" \in Faults)
      /\ ((file.ce # "none" /\ \A g \in Present(vol) \ {f} : vol.files[g].ce # file.ce) => "long_removed" \in Faults)
  BY DEF RmFile, CanRemove
<1>2. Change(FinishRemove(u, d), t)
  BY DEF RmFile
<1>3. Own(vol) /\ Says(vol, truth)
  <2>1. vol # NoVolume
    BY <1>1 DEF NoVolume, NoFile, Present
  <2>2. QED
    BY <2>1 DEF Kept
<1>4. /\ DOMAIN vol = DOMAIN NoVolume /\ OwnDescriptors(vol, EndAt(vol)) /\ vol.udf \in BOOLEAN
  BY <1>3, OwnDescribed
<1>5. OwnFiles(vol) /\ OneShared(vol) /\ gone = {f}
  <2>1. OwnFiles(vol)
    BY <1>3, OwnHas
  <2>2. OneShared(vol)
    BY <2>1, OwnFilesHave
  <2>3. QED
    BY <2>1, <2>2 DEF OneShared
<1>6. CountedFiles(vol, p)
  <2>1. gone \cap InTree(vol, "udf") \in SUBSET Files
    BY DEF InTree
  <2>2. n \in Int
    BY <2>1, FilesFinite
  <2> HIDE DEF n
  <2>3. QED
    BY <1>4, <2>2, UdfFilesHas
<1>7. d = RemovedBlocks(vol, f)
  <2>1. udf => file.numUdf = 1
    BY <1>1
  <2>2. (IF udf /\ file.numUdf = 1 THEN 1 ELSE 0) = One(udf)
    BY <2>1 DEF One
  <2>3. QED
    BY <2>2 DEF RemovedBlocks
<1>8. CanBeRemoved(vol, f)
  BY <1>1 DEF CanBeRemoved
<1>9. FileRemoved(vol, u, f)
  <2> HIDE DEF p
  <2>1. /\ "files" \in DOMAIN p /\ "shared" \in DOMAIN p /\ p.files = vol.files /\ p.shared = vol.shared
    BY <1>4, <1>6, Fields DEF CountedFiles
  <2>2. /\ DOMAIN u = DOMAIN p /\ (\A x \in DOMAIN p \ {"files", "shared"} : u[x] = p[x])
        /\ u.files = [g \in Files |-> IF g \in gone THEN NoFile ELSE vol.files[g]] /\ u.shared = p.shared \ gone
    BY <2>1
  <2> HIDE DEF u
  <2>3. {"files", "shared"} \in SUBSET Changing
    BY DEF Changing
  <2>4. CallChanges(vol, u, {"files", "shared"})
    BY <1>4, <1>6, <2>2, <2>3, CountedCall
  <2>5. vol.files = [g \in Files |-> vol.files[g]]
    BY <1>5 DEF OwnFiles
  <2>6. u.files = [vol.files EXCEPT ![f] = NoFile] /\ u.shared = vol.shared \ {f}
    BY <1>5, <2>1, <2>2, <2>5
  <2>7. QED
    BY <2>4, <2>6 DEF FileRemoved
<1> HIDE DEF u, d, p
<1>10. ChangedTo(FinishRemove(u, d), t)
  <2>1. truth = [g \in Files |-> truth[g]]
    BY DEF TruthKept
  <2>2. /\ Own(FinishRemove(u, RemovedBlocks(vol, f))) /\ FinishRemove(u, RemovedBlocks(vol, f)).pending = TRUE
        /\ Says(FinishRemove(u, RemovedBlocks(vol, f)), t)
    BY ONLY <1>3, <1>8, <1>9, <2>1, RmFileKept
  <2>3. QED
    BY ONLY <1>7, <2>2 DEF ChangedTo
<1>11. QED
  BY <1>2, <1>10
LEMMA ListedCounted ==
  ASSUME NEW v, NEW end, OwnDescriptors(v, end), DOMAIN v = DOMAIN NoVolume, v.udf \in BOOLEAN, NEW boot, NEW n \in Int,
         NEW l, l = [v EXCEPT !.boot = boot]
  PROVE  /\ CallChanges(v, l, {"boot"}) /\ l.boot = boot
         /\ DOMAIN UdfFiles(l, n) = DOMAIN NoVolume
         /\ \A x \in DOMAIN NoVolume \ {"lvid", "boot"} : UdfFiles(l, n)[x] = v[x]
         /\ UdfFiles(l, n).boot = boot /\ UdfCounted(v, UdfFiles(l, n))
<1>1. "boot" \in DOMAIN v
  BY Fields
<1>2. DOMAIN l = DOMAIN v /\ l.boot = boot /\ \A x \in DOMAIN v \ {"boot"} : l[x] = v[x]
  BY <1>1
<1> DEFINE K == {"udf", "main", "reserve", "lvid", "lvidEnd", "anchors", "set", "setEnd"}
<1>3. K \subseteq DOMAIN v \ {"boot"}
  BY Fields
<1> HIDE DEF K
<1>4. \A x \in K : l[x] = v[x]
  BY <1>2, <1>3
<1> USE DEF K
<1>5. /\ l.udf = v.udf /\ l.main = v.main /\ l.reserve = v.reserve /\ l.lvid = v.lvid /\ l.lvidEnd = v.lvidEnd
      /\ l.anchors = v.anchors /\ l.set = v.set /\ l.setEnd = v.setEnd
  BY ONLY <1>4
<1>6. UdfCounted(v, l)
  BY ONLY <1>5 DEF UdfCounted
<1>7. CallChanges(v, l, {"boot"})
  BY <1>2, <1>6 DEF CallChanges
<1>8. OwnDescriptors(l, end) /\ l.udf \in BOOLEAN /\ DOMAIN l = DOMAIN NoVolume
  BY <1>2, <1>5, <1>6, CountedOwn
<1>9. CountedFiles(l, UdfFiles(l, n))
  BY <1>8, UdfFilesHas
<1> DEFINE p == UdfFiles(l, n)
<1>10. DOMAIN p = DOMAIN l /\ (\A x \in DOMAIN l \ {"lvid"} : p[x] = l[x]) /\ UdfCounted(l, p)
  BY <1>9 DEF CountedFiles
<1> HIDE DEF p
<1>11. UdfCounted(v, p)
  BY ONLY <1>5, <1>10 DEF UdfCounted
<1>12. p.boot = boot
  BY <1>1, <1>2, <1>10
<1>13. \A x \in DOMAIN NoVolume \ {"lvid", "boot"} : p[x] = v[x]
  BY <1>2, <1>10
<1>14. QED
  BY <1>2, <1>7, <1>10, <1>11, <1>12, <1>13 DEF p

LEMMA CallChangesMore ==
  ASSUME NEW v, NEW u, NEW C, NEW D, CallChanges(v, u, C), C \subseteq D
  PROVE  CallChanges(v, u, D)
BY DEF CallChanges

LEMMA AddElToritoChanges ==
  ASSUME Kept, NEW f \in Files, AddElTorito(f)
  PROVE  \E v : ChangedTo(v, truth) /\ Change(v, truth)
<1> DEFINE boot == vol.boot \cup {f}
           l == [vol EXCEPT !.boot = boot]
           n == IF vol.udf THEN 1 ELSE 0
           p == UdfFiles(l, n)
           u == [p EXCEPT !.catalog = TRUE, !.head["br"] = Append(@, NoEntry)]
           d == BootRecordBlocks(vol) + CatalogBlocks(vol)
<1>1. vol # NoVolume /\ "iso" \in vol.files[f].in /\ f \notin vol.boot /\ vol.files[f].len > 0
  BY DEF AddElTorito
<1>2. Change(IF vol.catalog THEN FinishAdd(l, 0, 0) ELSE FinishAdd(u, 0, d), truth)
  BY DEF AddElTorito
<1>3. Own(vol) /\ Says(vol, truth)
  BY <1>1 DEF Kept
<1>4. /\ DOMAIN vol = DOMAIN NoVolume /\ OwnDescriptors(vol, EndAt(vol)) /\ vol.udf \in BOOLEAN
  BY <1>3, OwnDescribed
<1>5. OwnHead(vol) /\ OwnFiles(vol) /\ vol.catalog \in BOOLEAN
  BY <1>3, OwnHas
<1>6. boot \subseteq {g \in InTree(vol, "iso") : vol.files[g].len > 0}
  BY <1>1, <1>5 DEF OwnFiles, InTree
<1>7. /\ CallChanges(vol, l, {"boot"}) /\ l.boot = boot
      /\ DOMAIN p = DOMAIN NoVolume
      /\ \A x \in DOMAIN NoVolume \ {"lvid", "boot"} : p[x] = vol[x]
      /\ p.boot = boot /\ UdfCounted(vol, p)
  <2>1. n \in Int
    OBVIOUS
  <2> HIDE DEF n, boot
  <2>2. QED
    BY <1>4, <2>1, ListedCounted
<1>8. CallChanges(vol, l, HeadFields) /\ {"boot"} \in SUBSET Changing /\ HeadFields \in SUBSET Changing
  BY <1>7, CallChangesMore DEF HeadFields, Changing
<1>9. CASE vol.catalog
  <2>1. l.catalog = vol.catalog /\ l.head = vol.head /\ l.udf = vol.udf /\ l.joliet = vol.joliet
    BY <1>3, <1>7, <1>8, CallSame
  <2> HIDE DEF l, boot
  <2>2. OwnHead(l)
    <3>1. \A k \in HeaderNames : k # "pvd" => HeaderCount(l, k) = HeaderCount(vol, k)
      BY ONLY <2>1, Names DEF HeaderCount
    <3>2. QED
      BY ONLY <1>5, <2>1, <3>1 DEF OwnHead
  <2>3. BootBlocks(l) = BootBlocks(vol)
    BY <2>1 DEF BootBlocks, HeadBlocks
  <2>4. BootBlocks(vol) \in Nat
    BY <1>3, OwnSound, BootEnd
  <2>5. 0 + 0 = BootBlocks(l) - BootBlocks(vol) /\ 0 \in Int
    BY <2>3, <2>4
  <2>6. /\ l.catalog \in BOOLEAN /\ (vol.udf => 0 = 0) /\ (l.boot # {} => l.catalog)
        /\ l.boot \subseteq {g \in InTree(vol, "iso") : vol.files[g].len > 0}
    BY <1>6, <1>7, <1>9, <2>1
  <2>7. ChangedTo(FinishAdd(l, 0, 0), truth)
    BY ONLY <1>3, <1>8, <2>2, <2>5, <2>6, HeadAddKept DEF ChangedTo
  <2>8. QED
    BY <1>2, <1>9, <2>7
<1>10. CASE ~vol.catalog
  <2>1. "catalog" \in DOMAIN p /\ "head" \in DOMAIN p /\ "boot" \in DOMAIN p /\ p.head = vol.head /\ "br" \in DOMAIN vol.head
    <3> HIDE DEF p
    <3>1. {"catalog", "head", "boot"} \subseteq DOMAIN NoVolume
      BY <1>4, Fields
    <3>2. "head" \in DOMAIN NoVolume \ {"lvid", "boot"}
      BY <3>1
    <3>3. p.head = vol.head
      BY <1>7, <3>2
    <3>4. "br" \in DOMAIN vol.head
      BY <1>5, Names DEF OwnHead
    <3>5. QED
      BY <1>7, <3>1, <3>3, <3>4
  <2> HIDE DEF p
  <2>2. /\ DOMAIN u = DOMAIN p /\ (\A x \in DOMAIN p \ {"catalog", "head"} : u[x] = p[x])
        /\ u.catalog = TRUE /\ u.head = [p.head EXCEPT !["br"] = Append(p.head["br"], NoEntry)] /\ u.boot = boot
    BY <1>7, <2>1
  <2> HIDE DEF u, boot
  <2>3. CallChanges(vol, u, HeadFields)
    <3>1. \A x \in DOMAIN vol \ (HeadFields \cup {"lvid"}) : u[x] = vol[x]
      BY <1>4, <1>7, <2>2 DEF HeadFields
    <3> DEFINE K == {"udf", "main", "reserve", "lvid", "lvidEnd", "anchors", "set", "setEnd"}
    <3>2. K \subseteq DOMAIN p \ {"catalog", "head"}
      BY <1>4, <1>7, Fields
    <3> HIDE DEF K
    <3>3. \A x \in K : u[x] = p[x]
      BY <2>2, <3>2
    <3> USE DEF K
    <3>4. /\ u.udf = p.udf /\ u.main = p.main /\ u.reserve = p.reserve /\ u.lvid = p.lvid /\ u.lvidEnd = p.lvidEnd
          /\ u.anchors = p.anchors /\ u.set = p.set /\ u.setEnd = p.setEnd
      BY ONLY <3>3
    <3>5. UdfCounted(vol, u)
      BY ONLY <1>7, <3>4 DEF UdfCounted
    <3>6. QED
      BY <1>4, <1>7, <2>2, <3>1, <3>5 DEF CallChanges
  <2>4. u.udf = vol.udf /\ u.joliet = vol.joliet
    BY <1>3, <1>8, <2>3, CallSame
  <2>5. Entries(vol.head["br"]) /\ Len(vol.head["br"]) = 0
    <3>1. "br" \in HeaderNames /\ HeaderCount(vol, "br") = 0
      BY <1>10, Names DEF HeaderCount, One
    <3>2. QED
      BY <1>5, <3>1 DEF OwnHead, Entries
  <2>6. Entries(Append(vol.head["br"], NoEntry)) /\ Len(Append(vol.head["br"], NoEntry)) = 1
    BY <2>5, EntryAppended
  <2>7. OwnHead(u)
    <3>1. "br" \in HeaderNames /\ "br" \in {"pvd", "br"} /\ "br" # "pvd" /\ One(u.catalog) = 1
      BY <2>2, Names DEF One
    <3>2. u.head = [vol.head EXCEPT !["br"] = Append(vol.head["br"], NoEntry)]
      BY <2>1, <2>2
    <3>3. QED
      BY <1>5, <2>4, <2>6, <3>1, <3>2, HeadReplaced
  <2>8. d = BootBlocks(u) - BootBlocks(vol)
    <3>1. One(u.catalog) = 1 /\ One(vol.catalog) = 0
      BY <1>10, <2>2 DEF One
    <3>2. u.head["pvd"] = vol.head["pvd"] /\ Len(vol.head["pvd"]) \in Nat
      <4>1. "pvd" \in HeaderNames
        BY Names
      <4>2. "pvd" \in DOMAIN vol.head /\ Len(vol.head["pvd"]) \in Nat
        BY <1>5, <4>1 DEF OwnHead
      <4>3. QED
        BY <2>1, <2>2, <4>2
    <3>3. QED
      BY <1>4, <2>4, <3>1, <3>2 DEF BootBlocks, HeadBlocks, BootRecordBlocks, CatalogBlocks
  <2>9. d \in Int /\ 0 \in Int /\ 0 + d = BootBlocks(u) - BootBlocks(vol) /\ (vol.udf => 0 = 0)
    <3>1. d \in Int
      BY DEF BootRecordBlocks, CatalogBlocks
    <3> HIDE DEF d
    <3>2. QED
      BY <2>8, <3>1
  <2>10. /\ u.catalog \in BOOLEAN /\ (u.boot # {} => u.catalog)
         /\ u.boot \subseteq {g \in InTree(vol, "iso") : vol.files[g].len > 0}
    BY <1>6, <2>2
  <2> HIDE DEF d
  <2>11. ChangedTo(FinishAdd(u, 0, d), truth)
    BY ONLY <1>3, <2>3, <2>7, <2>9, <2>10, HeadAddKept DEF ChangedTo
  <2>12. QED
    BY <1>2, <1>10, <2>11 DEF u, d, p
<1>11. QED
  BY <1>5, <1>9, <1>10

LEMMA RmElToritoChanges ==
  ASSUME Kept, RmElTorito
  PROVE  \E v : ChangedTo(v, truth) /\ Change(v, truth)
<1> DEFINE n == IF vol.udf THEN -1 ELSE 0
           p == UdfFiles(vol, n)
           u == [p EXCEPT !.catalog = FALSE, !.boot = {}, !.head["br"] = Tail(@)]
           d == BootRecordBlocks(vol) + CatalogBlocks(vol)
<1>1. vol.catalog
  BY DEF RmElTorito
<1>2. Change(FinishRemove(u, d), truth)
  BY DEF RmElTorito
<1>3. Own(vol) /\ Says(vol, truth)
  <2>1. vol # NoVolume
    BY <1>1 DEF NoVolume
  <2>2. QED
    BY <2>1 DEF Kept
<1>4. /\ DOMAIN vol = DOMAIN NoVolume /\ OwnDescriptors(vol, EndAt(vol)) /\ vol.udf \in BOOLEAN
  BY <1>3, OwnDescribed
<1>5. OwnHead(vol) /\ OwnFiles(vol) /\ vol.catalog \in BOOLEAN
  BY <1>3, OwnHas
<1>6. CountedFiles(vol, p)
  <2>1. n \in Int
    OBVIOUS
  <2> HIDE DEF n
  <2>2. QED
    BY <1>4, <2>1, UdfFilesHas
<1> HIDE DEF p
<1>7. /\ "catalog" \in DOMAIN p /\ "head" \in DOMAIN p /\ "boot" \in DOMAIN p /\ p.head = vol.head /\ "br" \in DOMAIN vol.head
  <2> HIDE DEF n, u, d
  <2>1. {"catalog", "head", "boot"} \subseteq DOMAIN vol
    BY ONLY <1>4, Fields
  <2>2. DOMAIN p = DOMAIN vol /\ \A x \in DOMAIN vol \ {"lvid"} : p[x] = vol[x]
    BY ONLY <1>6 DEF CountedFiles
  <2>3. p.head = vol.head
    BY ONLY <2>1, <2>2
  <2>4. "br" \in DOMAIN vol.head
    BY ONLY <1>5, Names DEF OwnHead
  <2>5. QED
    BY ONLY <2>1, <2>2, <2>3, <2>4
<1>8. /\ DOMAIN u = DOMAIN p /\ (\A x \in DOMAIN p \ HeadFields : u[x] = p[x])
      /\ u.catalog = FALSE /\ u.head = [p.head EXCEPT !["br"] = Tail(p.head["br"])] /\ u.boot = {}
  BY <1>7 DEF HeadFields
<1> HIDE DEF u
<1>9. HeadFields \in SUBSET Changing
  BY DEF HeadFields, Changing
<1>10. CallChanges(vol, u, HeadFields)
  BY <1>4, <1>6, <1>8, <1>9, CountedCall
<1>11. u.udf = vol.udf /\ u.joliet = vol.joliet
  BY <1>3, <1>9, <1>10, CallSame
<1>12. Tail(vol.head["br"]) = <<>>
  <2>1. "br" \in HeaderNames /\ HeaderCount(vol, "br") = 1
    BY <1>1, Names DEF HeaderCount, One
  <2>2. Entries(vol.head["br"]) /\ Len(vol.head["br"]) = 1
    BY <1>5, <2>1 DEF OwnHead, Entries
  <2>3. QED
    BY <2>2, EntriesOne
<1>13. OwnHead(u)
  <2>1. "br" \in HeaderNames /\ "br" \in {"pvd", "br"} /\ "br" # "pvd" /\ One(u.catalog) = 0
    BY <1>8, Names DEF One
  <2>2. u.head = [vol.head EXCEPT !["br"] = <<>>]
    BY <1>7, <1>8, <1>12
  <2>3. Entries(<<>>) /\ Len(<<>>) = 0
    BY NoEntries
  <2>4. QED
    BY <1>5, <1>11, <2>1, <2>2, <2>3, HeadReplaced
<1>14. -d = BootBlocks(u) - BootBlocks(vol)
  <2>1. One(u.catalog) = 0 /\ One(vol.catalog) = 1
    BY <1>1, <1>8 DEF One
  <2>2. u.head["pvd"] = vol.head["pvd"] /\ Len(vol.head["pvd"]) \in Nat
    <3>1. "pvd" \in HeaderNames
      BY Names
    <3>2. "pvd" \in DOMAIN vol.head /\ Len(vol.head["pvd"]) \in Nat
      BY <1>5, <3>1 DEF OwnHead
    <3>3. QED
      BY <1>7, <1>8, <3>2
  <2>3. QED
    BY <1>4, <1>11, <2>1, <2>2 DEF BootBlocks, HeadBlocks, BootRecordBlocks, CatalogBlocks
<1>15. d \in Int
  BY DEF BootRecordBlocks, CatalogBlocks
<1>16. /\ u.catalog \in BOOLEAN /\ (u.boot # {} => u.catalog)
       /\ u.boot \subseteq {g \in InTree(vol, "iso") : vol.files[g].len > 0}
  BY <1>8
<1> HIDE DEF d
<1>17. ChangedTo(FinishRemove(u, d), truth)
  BY ONLY <1>3, <1>10, <1>13, <1>14, <1>15, <1>16, HeadRemoveKept DEF ChangedTo
<1>18. QED
  BY <1>2, <1>17 DEF u, d, p

LEMMA DuplicatePvdChanges ==
  ASSUME Faults = {}, Kept, DuplicatePvd
  PROVE  \E v : ChangedTo(v, truth) /\ Change(v, truth)
<1> DEFINE u == [vol EXCEPT !.head["pvd"] = Append(@, NoEntry)]
<1>1. vol # NoVolume /\ ~vol.udf
  BY DEF DuplicatePvd
<1>2. Change(FinishAdd(u, 1, 0), truth)
  BY DEF DuplicatePvd
<1>3. Own(vol) /\ Says(vol, truth)
  BY <1>1 DEF Kept
<1>4. /\ DOMAIN vol = DOMAIN NoVolume /\ OwnHead(vol) /\ OwnFiles(vol) /\ vol.catalog \in BOOLEAN
  BY <1>3, OwnHas
<1>5. "pvd" \in HeaderNames /\ "pvd" \in DOMAIN vol.head /\ "head" \in DOMAIN vol
  BY <1>4, Fields, Names DEF OwnHead
<1>6. /\ DOMAIN u = DOMAIN vol /\ (\A x \in DOMAIN vol \ {"head"} : u[x] = vol[x])
      /\ u.head = [vol.head EXCEPT !["pvd"] = Append(vol.head["pvd"], NoEntry)]
  BY <1>5
<1> HIDE DEF u
<1>7. HeadFields \in SUBSET Changing /\ {"head"} \subseteq HeadFields /\ {"head"} \in SUBSET Changing
  BY DEF HeadFields, Changing
<1>8. CallChanges(vol, u, {"head"})
  <2>1. CountedFiles(vol, vol)
    BY DEF CountedFiles, UdfCounted
  <2>2. QED
    BY <1>4, <1>6, <1>7, <2>1, CountedCall
<1>9. CallChanges(vol, u, HeadFields)
  BY <1>7, <1>8, CallChangesMore
<1>10. u.udf = vol.udf /\ u.joliet = vol.joliet /\ u.catalog = vol.catalog /\ u.boot = vol.boot
  BY <1>3, <1>7, <1>8, CallSame
<1>11. Entries(vol.head["pvd"]) /\ Len(vol.head["pvd"]) >= 1 /\ Len(vol.head["pvd"]) \in Nat
  BY <1>4, <1>5 DEF OwnHead, Entries
<1>12. Entries(Append(vol.head["pvd"], NoEntry)) /\ Len(Append(vol.head["pvd"], NoEntry)) = Len(vol.head["pvd"]) + 1
  BY <1>11, EntryAppended
<1>13. OwnHead(u)
  <2>1. "pvd" \in {"pvd", "br"} /\ "pvd" # "br" /\ Len(vol.head["pvd"]) + 1 >= 1
    BY <1>11
  <2>2. QED
    BY <1>1, <1>4, <1>5, <1>6, <1>10, <1>12, <2>1, HeadReplaced
<1>14. 1 + 0 = BootBlocks(u) - BootBlocks(vol)
  <2>1. u.head["pvd"] = Append(vol.head["pvd"], NoEntry)
    BY <1>5, <1>6
  <2>2. One(vol.catalog) \in Nat
    BY DEF One
  <2>3. Len(u.head["pvd"]) = Len(vol.head["pvd"]) + 1
    BY <1>12, <2>1
  <2>4. /\ BootBlocks(u) = (Len(u.head["pvd"]) + One(vol.catalog)) + One(vol.catalog) + 0
        /\ BootBlocks(vol) = (Len(vol.head["pvd"]) + One(vol.catalog)) + One(vol.catalog) + 0
    BY <1>1, <1>10 DEF BootBlocks, HeadBlocks
  <2> DEFINE m == Len(vol.head["pvd"])
             c == One(vol.catalog)
  <2>5. BootBlocks(u) = ((m + 1) + c) + c + 0 /\ BootBlocks(vol) = (m + c) + c + 0 /\ m \in Nat /\ c \in Nat
    BY <1>11, <2>2, <2>3, <2>4
  <2> HIDE DEF m, c
  <2>6. QED
    BY ONLY <2>5
<1>15. /\ u.catalog \in BOOLEAN /\ (u.boot # {} => u.catalog)
       /\ u.boot \subseteq {g \in InTree(vol, "iso") : vol.files[g].len > 0}
  BY <1>4, <1>10 DEF OwnFiles
<1>16. 1 \in Int /\ 0 \in Int /\ (vol.udf => 1 = 0)
  BY <1>1
<1>17. ChangedTo(FinishAdd(u, 1, 0), truth)
  BY ONLY <1>3, <1>9, <1>13, <1>14, <1>15, <1>16, HeadAddKept DEF ChangedTo
<1>18. QED
  BY <1>2, <1>17 DEF u
-----------------------------------------------------------------------------
(* new()                                                                    *)

LEMMA DataBlocksNone ==
  ASSUME NEW v, HasLens(v)
  PROVE  DataBlocks(v, {}) = 0
<1> DEFINE s == Lens(v, {})
<1>1. s \in Seq(Nat) /\ Len(s) = NFiles /\ NFiles \in Nat /\ DataBlocks(v, {}) = Total(s)
  BY LensType
<1>2. \A i \in 1..NFiles : s[i] = 0
  BY DEF Lens, Files
<1> HIDE DEF s
<1>3. PICK g : TotalOf(g, s) /\ Total(s) = g[Len(s)]
  BY <1>1, TotalIs
<1>4. \A j \in 0..NFiles : g[j] = IF j = 0 THEN 0 ELSE g[j - 1] + s[j]
  BY ONLY <1>1, <1>3 DEF TotalOf
<1> DEFINE T == {j \in 0..NFiles : g[j] = 0}
<1>5. 0 \in T
  BY <1>1, <1>4
<1>6. ASSUME NEW j \in 0..(NFiles - 1), j \in T PROVE j + 1 \in T
  <2>1. j + 1 \in 1..NFiles /\ (j + 1) - 1 = j /\ j + 1 \in 0..NFiles /\ j + 1 # 0
    BY <1>1
  <2>2. g[j + 1] = g[j] + s[j + 1] /\ s[j + 1] = 0 /\ g[j] = 0
    BY <1>2, <1>4, <1>6, <2>1
  <2>3. QED
    BY <2>1, <2>2
<1> HIDE DEF T
<1>7. NFiles \in T
  <2>1. \A j \in 0..NFiles : j \in T
    BY <1>1, <1>5, <1>6, UpTo
  <2>2. QED
    BY <1>1, <2>1
<1>8. QED
  BY <1>1, <1>3, <1>7 DEF T

NewHead(udf, joliet) ==
  [k \in HeaderNames |->
     CASE k \in {"pvd", "vdst", "version"} -> <<NoEntry>>
       [] k = "svd" -> IF joliet THEN <<NoEntry>> ELSE <<>>
       [] k = "bea" /\ udf -> <<Entry([k |-> "vs", s |-> NewBEA])>>
       [] k = "nsr" /\ udf -> <<Entry([k |-> "vs", s |-> NewNSR])>>
       [] k = "tea" /\ udf -> <<Entry([k |-> "vs", s |-> NewTEA])>>
       [] OTHER -> <<>>]
NewBase(udf, joliet, rr) ==
  [NoVolume EXCEPT
     !.udf = udf, !.joliet = joliet, !.rr = rr, !.head = NewHead(udf, joliet),
     !.tables = 2, !.jtables = IF joliet THEN 2 ELSE 0, !.space = 17]
NewFull(udf, joliet, rr) ==
  IF ~udf THEN NewBase(udf, joliet, rr)
  ELSE [NewBase(udf, joliet, rr) EXCEPT
          !.main = NewSequence, !.reserve = NewSequence,
          !.lvid = <<NewDesc(9, NewIntegrity)>>, !.lvidEnd = <<NewDesc(8, NewTerminator)>>,
          !.anchors = <<NewDesc(2, NewAnchor), NewDesc(2, NewAnchor)>>,
          !.set = <<NewDesc(256, NewFileSet)>>,
          !.setEnd = <<NewDesc(8, NewTerminator)>>]
NewFixed(udf, joliet) ==
  IF udf THEN (32 - 17) + 16 + 16 + 192 + 1 + 2 + 1 + 1
  ELSE 2 + (IF joliet THEN 1 ELSE 0) + (IF udf THEN 3 ELSE 0)
NewPart(udf, joliet, rr) ==
  4 + 1 + (IF joliet THEN 4 + 1 ELSE 0) + (IF rr THEN 1 ELSE 0) + (IF udf THEN 1 ELSE 0)
LEMMA NewVolumeIs ==
  ASSUME NEW udf, NEW joliet, NEW rr
  PROVE  NewVolume(udf, joliet, rr)
           = FinishAdd(NewFull(udf, joliet, rr), NewFixed(udf, joliet), NewPart(udf, joliet, rr))
BY DEF NewVolume, NewFull, NewBase, NewHead, NewFixed, NewPart

NewHas(v, udf, joliet, rr) ==
  /\ DOMAIN v = DOMAIN NoVolume
  /\ v.udf = udf /\ v.joliet = joliet /\ v.rr = rr /\ v.head = NewHead(udf, joliet)
  /\ v.tables = 2 /\ v.jtables = (IF joliet THEN 2 ELSE 0) /\ v.space = 17
  /\ v.at = NoPlaces /\ v.blocks = {} /\ v.files = [f \in Files |-> NoFile]
  /\ v.catalog = FALSE /\ v.boot = {} /\ v.shared = {} /\ v.pending = FALSE
  /\ udf => /\ v.main = NewSequence /\ v.reserve = NewSequence
            /\ v.lvid = <<NewDesc(9, NewIntegrity)>> /\ v.lvidEnd = <<NewDesc(8, NewTerminator)>>
            /\ v.anchors = <<NewDesc(2, NewAnchor), NewDesc(2, NewAnchor)>>
            /\ v.set = <<NewDesc(256, NewFileSet)>> /\ v.setEnd = <<NewDesc(8, NewTerminator)>>
  /\ ~udf => NoUdf(v)
LEMMA NewFields ==
  ASSUME NEW udf \in BOOLEAN, NEW joliet, NEW rr, NEW v, v = NewFull(udf, joliet, rr)
  PROVE  NewHas(v, udf, joliet, rr)
<1> DEFINE b == NewBase(udf, joliet, rr)
<1>1. /\ DOMAIN b = DOMAIN NoVolume
      /\ b.udf = udf /\ b.joliet = joliet /\ b.rr = rr /\ b.head = NewHead(udf, joliet)
      /\ b.tables = 2 /\ b.jtables = (IF joliet THEN 2 ELSE 0) /\ b.space = 17
      /\ b.at = NoPlaces /\ b.blocks = {} /\ b.files = [f \in Files |-> NoFile]
      /\ b.catalog = FALSE /\ b.boot = {} /\ b.shared = {} /\ b.pending = FALSE
      /\ b.main = NoSequence /\ b.reserve = NoSequence /\ b.lvid = <<>> /\ b.lvidEnd = <<>>
      /\ b.anchors = <<>> /\ b.set = <<>> /\ b.setEnd = <<>>
  BY DEF NewBase, NoVolume
<1>2. v = IF ~udf THEN b
          ELSE [b EXCEPT
                  !.main = NewSequence, !.reserve = NewSequence,
                  !.lvid = <<NewDesc(9, NewIntegrity)>>, !.lvidEnd = <<NewDesc(8, NewTerminator)>>,
                  !.anchors = <<NewDesc(2, NewAnchor), NewDesc(2, NewAnchor)>>,
                  !.set = <<NewDesc(256, NewFileSet)>>,
                  !.setEnd = <<NewDesc(8, NewTerminator)>>]
  BY DEF NewFull
<1> HIDE DEF b
<1>3. CASE ~udf
  <2>1. v = b
    BY <1>2, <1>3
  <2>2. QED
    BY ONLY <1>1, <1>3, <2>1 DEF NoUdf, NewHas
<1>4. CASE udf
  <2> DEFINE K == {"main", "reserve", "lvid", "lvidEnd", "anchors", "set", "setEnd"}
  <2>1. DOMAIN b = {"udf", "joliet", "rr", "head", "main", "reserve", "lvid", "lvidEnd", "anchors", "set", "setEnd",
                    "at", "tables", "jtables", "blocks", "files", "catalog", "boot", "shared", "space", "pending"}
    BY <1>1, Fields
  <2>2. DOMAIN v = DOMAIN b /\ \A x \in DOMAIN b \ K : v[x] = b[x]
    BY <1>2, <1>4
  <2>3. /\ v.main = NewSequence /\ v.reserve = NewSequence
        /\ v.lvid = <<NewDesc(9, NewIntegrity)>> /\ v.lvidEnd = <<NewDesc(8, NewTerminator)>>
        /\ v.anchors = <<NewDesc(2, NewAnchor), NewDesc(2, NewAnchor)>>
        /\ v.set = <<NewDesc(256, NewFileSet)>> /\ v.setEnd = <<NewDesc(8, NewTerminator)>>
    BY <1>2, <1>4, <2>1
  <2>4. /\ v.udf = b.udf /\ v.joliet = b.joliet /\ v.rr = b.rr /\ v.head = b.head
        /\ v.tables = b.tables /\ v.jtables = b.jtables /\ v.space = b.space
        /\ v.at = b.at /\ v.blocks = b.blocks /\ v.files = b.files
        /\ v.catalog = b.catalog /\ v.boot = b.boot /\ v.shared = b.shared /\ v.pending = b.pending
    BY ONLY <2>1, <2>2 DEF K
  <2>5. QED
    BY ONLY <1>1, <1>4, <2>2, <2>3, <2>4 DEF NewHas
<1>5. QED
  BY ONLY <1>3, <1>4, udf \in BOOLEAN

LEMMA NewHeadOwn ==
  ASSUME NEW udf \in BOOLEAN, NEW joliet \in BOOLEAN, NEW rr \in BOOLEAN, NEW v, v = NewFull(udf, joliet, rr)
  PROVE  OwnHead(v) /\ Len(v.head["pvd"]) = 1
<1>1. v.udf = udf /\ v.joliet = joliet /\ v.catalog = FALSE /\ v.head = NewHead(udf, joliet)
  <2>1. NewHas(v, udf, joliet, rr)
    BY ONLY v = NewFull(udf, joliet, rr), udf \in BOOLEAN, NewFields
  <2>2. QED
    BY ONLY <2>1 DEF NewHas
<1>2. /\ \A k \in {"pvd", "vdst", "version"} : v.head[k] = <<NoEntry>>
      /\ v.head["svd"] = (IF joliet THEN <<NoEntry>> ELSE <<>>)
      /\ v.head["bea"] = (IF udf THEN <<Entry([k |-> "vs", s |-> NewBEA])>> ELSE <<>>)
      /\ v.head["nsr"] = (IF udf THEN <<Entry([k |-> "vs", s |-> NewNSR])>> ELSE <<>>)
      /\ v.head["tea"] = (IF udf THEN <<Entry([k |-> "vs", s |-> NewTEA])>> ELSE <<>>)
      /\ v.head["br"] = <<>> /\ v.head["boot"] = <<>> /\ DOMAIN v.head = HeaderNames
  BY <1>1, Names DEF NewHead
<1>3. ASSUME NEW is PROVE Entries(<<Entry(is)>>) /\ Len(<<Entry(is)>>) = 1 /\ <<Entry(is)>>[1].is = is
  BY DEF Entries, Entry
<1>4. NoEntry = Entry(Zero)
  BY DEF NoEntry
<1>5. Entries(<<NoEntry>>) /\ Len(<<NoEntry>>) = 1 /\ <<NoEntry>>[1].is = Zero
  BY ONLY <1>3, <1>4
<1>6. \A k \in HeaderNames : Entries(v.head[k])
  BY <1>2, <1>3, <1>5, NoEntries, Names
<1>7. /\ HeaderCount(v, "br") = 0 /\ HeaderCount(v, "svd") = (IF joliet THEN 1 ELSE 0)
      /\ HeaderCount(v, "vdst") = 1 /\ HeaderCount(v, "version") = 1
      /\ HeaderCount(v, "bea") = (IF udf THEN 1 ELSE 0) /\ HeaderCount(v, "nsr") = (IF udf THEN 1 ELSE 0)
      /\ HeaderCount(v, "tea") = (IF udf THEN 1 ELSE 0) /\ HeaderCount(v, "boot") = 0
  BY ONLY <1>1 DEF HeaderCount, One
<1>8. \A k \in HeaderNames : k # "pvd" => Len(v.head[k]) = HeaderCount(v, k)
  <2>1. /\ Len(v.head["vdst"]) = 1 /\ Len(v.head["version"]) = 1 /\ Len(v.head["br"]) = 0 /\ Len(v.head["boot"]) = 0
    BY ONLY <1>2, <1>5, NoEntries
  <2>2. Len(v.head["svd"]) = (IF joliet THEN 1 ELSE 0)
    BY ONLY <1>2, <1>5, NoEntries
  <2>3. /\ Len(v.head["bea"]) = (IF udf THEN 1 ELSE 0) /\ Len(v.head["nsr"]) = (IF udf THEN 1 ELSE 0)
        /\ Len(v.head["tea"]) = (IF udf THEN 1 ELSE 0)
    BY ONLY <1>2, <1>3, NoEntries
  <2> SUFFICES ASSUME NEW k \in HeaderNames, k # "pvd" PROVE Len(v.head[k]) = HeaderCount(v, k)
    OBVIOUS
  <2>4. \/ k = "br" \/ k = "svd" \/ k = "vdst" \/ k = "bea" \/ k = "boot" \/ k = "nsr" \/ k = "tea" \/ k = "version"
    BY Names
  <2>5. CASE k = "br"
    BY ONLY <1>7, <2>1, <2>5
  <2>6. CASE k = "svd"
    BY ONLY <1>7, <2>2, <2>6
  <2>7. CASE k = "vdst" \/ k = "version" \/ k = "boot"
    BY ONLY <1>7, <2>1, <2>7
  <2>8. CASE k = "bea" \/ k = "nsr" \/ k = "tea"
    BY ONLY <1>7, <2>3, <2>8
  <2>9. QED
    BY <2>4, <2>5, <2>6, <2>7, <2>8
<1>9. /\ Len(v.head["pvd"]) = 1 /\ v.head["version"][1].is = Zero
      /\ v.udf => /\ v.head["bea"][1].is = [k |-> "vs", s |-> NewBEA]
                  /\ v.head["nsr"][1].is = [k |-> "vs", s |-> NewNSR]
                  /\ v.head["tea"][1].is = [k |-> "vs", s |-> NewTEA]
  BY ONLY <1>1, <1>2, <1>3, <1>5
<1>10. QED
  BY ONLY <1>2, <1>6, <1>8, <1>9 DEF OwnHead, Entries

LEMMA NewDescOwn ==
  ASSUME NEW ident, NEW body
  PROVE  OwnDesc(NewDesc(ident, body), ident, body) /\ NewDesc(ident, body).tag.loc = 0
BY DEF NewDesc, NewTag, OwnDesc, OwnTag

LEMMA NewSequenceOwn == OwnSequence(NewSequence, 0, 3, 0)
<1>1. /\ NewPartition = [NewPartition EXCEPT !.start = 0, !.length = 3]
      /\ NewLogicalVolume = [NewLogicalVolume EXCEPT !.integrity.location = 0]
  <2> DEFINE a == NewPartition
  <2>1. a = [a EXCEPT !.start = 0, !.length = 3]
    <3>1. a = [seq |-> a.seq, flags |-> a.flags, num |-> a.num, contents |-> a.contents, header |-> a.header,
               access |-> a.access, start |-> 0, length |-> 3, impl |-> a.impl]
      BY DEF NewPartition
    <3> HIDE DEF a
    <3>2. a = [a EXCEPT !.start = 0]
      BY <3>1
    <3>3. a = [a EXCEPT !.length = 3]
      BY <3>1
    <3>4. [a EXCEPT !.start = 0, !.length = 3] = [[a EXCEPT !.start = 0] EXCEPT !.length = 3]
      OBVIOUS
    <3>5. QED
      BY ONLY <3>2, <3>3, <3>4
  <2> DEFINE b == NewLogicalVolume
  <2>2. b = [seq |-> b.seq, char |-> b.char, blockSize |-> b.blockSize, domain |-> b.domain,
             contents |-> b.contents, tableLength |-> b.tableLength, maps |-> b.maps,
             impl |-> b.impl, integrity |-> [length |-> 4096, location |-> 0]]
    BY DEF NewLogicalVolume, ExtentAD
  <2> HIDE DEF b
  <2>3. b = [b EXCEPT !.integrity.location = 0]
    BY <2>2
  <2>4. QED
    BY <2>1, <2>3 DEF a, b
<1>2. /\ OwnBody(1, 0, 3, 0) = NewPVD /\ OwnBody(4, 0, 3, 0) = NewImplUse /\ OwnBody(7, 0, 3, 0) = NewUnallocated
      /\ OwnBody(8, 0, 3, 0) = NewTerminator /\ OwnBody(5, 0, 3, 0) = NewPartition
      /\ OwnBody(6, 0, 3, 0) = NewLogicalVolume
  BY ONLY <1>1 DEF OwnBody
<1>3. /\ DOMAIN NewSequence = Singles \cup {3} /\ NewSequence[3] = <<>>
      /\ NewSequence[1] = <<NewDesc(1, NewPVD)>> /\ NewSequence[4] = <<NewDesc(4, NewImplUse)>>
      /\ NewSequence[5] = <<NewDesc(5, NewPartition)>> /\ NewSequence[6] = <<NewDesc(6, NewLogicalVolume)>>
      /\ NewSequence[7] = <<NewDesc(7, NewUnallocated)>> /\ NewSequence[8] = <<NewDesc(8, NewTerminator)>>
  BY ONLY TRUE DEF NewSequence, Singles
<1>4. \A k \in Singles : NewSequence[k] = <<NewDesc(k, OwnBody(k, 0, 3, 0))>>
  BY ONLY <1>2, <1>3 DEF Singles
<1> DEFINE s == NewSequence
<1>5. s = [k \in Singles \cup {3} |-> s[k]]
  BY DEF NewSequence, Singles
<1>6. \A k \in Singles \cup {3} : s[k] = IF k = 3 THEN <<>> ELSE <<s[k][1]>>
  <2> HIDE DEF s
  <2> TAKE k \in Singles \cup {3}
  <2>1. CASE k = 3
    BY <1>3, <2>1 DEF s
  <2>2. CASE k # 3
    <3>1. k \in Singles
      BY <2>2
    <3>2. \A x : <<x>> = <<(<<x>>)[1]>>
      OBVIOUS
    <3>3. QED
      BY ONLY <1>4, <2>2, <3>1, <3>2 DEF s
  <2>3. QED
    BY <2>1, <2>2
<1>7. \A k \in Singles : OwnDesc(s[k][1], k, OwnBody(k, 0, 3, 0))
  <2> HIDE DEF s
  <2> TAKE k \in Singles
  <2>1. \A x : (<<x>>)[1] = x
    OBVIOUS
  <2>2. s[k][1] = NewDesc(k, OwnBody(k, 0, 3, 0))
    BY ONLY <1>4, <2>1, k \in Singles DEF s
  <2>3. QED
    BY ONLY <2>2, NewDescOwn
<1> HIDE DEF s
<1>8. s = [k \in Singles \cup {3} |-> IF k = 3 THEN <<>> ELSE <<s[k][1]>>]
  BY ONLY <1>5, <1>6
<1>9. QED
  BY ONLY <1>7, <1>8 DEF OwnSequence, s

LEMMA NewUdfOwn ==
  ASSUME NEW udf \in BOOLEAN, NEW joliet, NEW rr, NEW v, v = NewFull(udf, joliet, rr), udf
  PROVE  OwnUdfTo(v, 260)
<1>1. /\ v.main = NewSequence /\ v.reserve = NewSequence
      /\ v.lvid = <<NewDesc(9, NewIntegrity)>> /\ v.lvidEnd = <<NewDesc(8, NewTerminator)>>
      /\ v.anchors = <<NewDesc(2, NewAnchor), NewDesc(2, NewAnchor)>>
      /\ v.set = <<NewDesc(256, NewFileSet)>> /\ v.setEnd = <<NewDesc(8, NewTerminator)>>
  <2>1. NewHas(v, udf, joliet, rr)
    BY ONLY v = NewFull(udf, joliet, rr), udf \in BOOLEAN, NewFields
  <2>2. QED
    BY ONLY <2>1, udf DEF NewHas
<1>2. 260 - PartStart = 3 /\ 0 \in Int /\ 261 \in Int
  BY DEF PartStart
<1>3. NewIntegrity = Integrity(261, 3, 0) /\ NewAnchor = Anchor(0, 0)
  <2>1. NewIntegrity = Integrity(261, 3, 0)
    BY ONLY IntegrityIs DEF NewIntegrity, NewHeader, NewIntegrityUse
  <2>2. NewAnchor = Anchor(0, 0)
    BY ONLY AnchorIs DEF NewAnchor
  <2>3. QED
    BY ONLY <2>1, <2>2
<1>4. \A s \in {v.main, v.reserve} : OwnSequence(s, 0, 260 - PartStart, 0)
  BY ONLY <1>1, <1>2, NewSequenceOwn
<1>5. /\ v.lvid = <<v.lvid[1]>> /\ v.lvidEnd = <<v.lvidEnd[1]>> /\ v.anchors = <<v.anchors[1], v.anchors[2]>>
      /\ v.set = <<v.set[1]>> /\ v.setEnd = <<v.setEnd[1]>>
      /\ v.lvid[1] = NewDesc(9, Integrity(261, 260 - PartStart, 0)) /\ v.lvidEnd[1] = NewDesc(8, NewTerminator)
      /\ v.anchors[1] = NewDesc(2, Anchor(0, 0)) /\ v.anchors[2] = NewDesc(2, Anchor(0, 0))
      /\ v.set[1] = NewDesc(256, NewFileSet) /\ v.setEnd[1] = NewDesc(8, NewTerminator)
  BY ONLY <1>1, <1>2, <1>3
<1>6. /\ OwnDesc(v.lvid[1], 9, Integrity(261, 260 - PartStart, 0)) /\ OwnDesc(v.lvidEnd[1], 8, NewTerminator)
      /\ \A i \in 1..2 : OwnDesc(v.anchors[i], 2, Anchor(0, 0))
      /\ OwnDesc(v.set[1], 256, NewFileSet) /\ OwnDesc(v.setEnd[1], 8, NewTerminator) /\ v.set[1].tag.loc = 0
  BY ONLY <1>5, NewDescOwn
<1>7. /\ \E start, integrity \in Int :
           \A s \in {v.main, v.reserve} : OwnSequence(s, start, 260 - PartStart, integrity)
      /\ \E unique, files \in Int : OwnDesc(v.lvid[1], 9, Integrity(unique, 260 - PartStart, files))
      /\ \A i \in 1..2 : \E main, reserve \in Int : OwnDesc(v.anchors[i], 2, Anchor(main, reserve))
  BY ONLY <1>2, <1>4, <1>6
<1>8. QED
  BY ONLY <1>5, <1>6, <1>7 DEF OwnUdfTo

LEMMA NewVolumeOwn ==
  ASSUME NEW udf \in BOOLEAN, NEW joliet \in BOOLEAN, NEW rr \in BOOLEAN
  PROVE  ChangedTo(NewVolume(udf, joliet, rr), [f \in Files |-> Nothing])
<1> DEFINE v == NewFull(udf, joliet, rr)
           n == NewFixed(udf, joliet)
           d == NewPart(udf, joliet, rr)
           t == [f \in Files |-> Nothing]
<1>1. /\ DOMAIN v = DOMAIN NoVolume
      /\ v.udf = udf /\ v.joliet = joliet /\ v.rr = rr
      /\ v.tables = 2 /\ v.jtables = (IF joliet THEN 2 ELSE 0) /\ v.space = 17
      /\ v.at = NoPlaces /\ v.blocks = {} /\ v.files = [f \in Files |-> NoFile]
      /\ v.catalog = FALSE /\ v.boot = {} /\ v.shared = {} /\ v.pending = FALSE
      /\ udf => v.setEnd = <<NewDesc(8, NewTerminator)>>
      /\ ~udf => NoUdf(v)
  <2> HIDE DEF v
  <2>2. v = NewFull(udf, joliet, rr)
    BY DEF v
  <2>3. NewHas(v, udf, joliet, rr)
    BY ONLY <2>2, udf \in BOOLEAN, NewFields
  <2>4. QED
    BY ONLY <2>3 DEF NewHas
<1>2. OwnHead(v) /\ Len(v.head["pvd"]) = 1
  BY NewHeadOwn
<1>3. udf => OwnUdfTo(v, 260)
  BY NewUdfOwn
<1> HIDE DEF v
<1>4. \A f \in Files : v.files[f] = NoFile
  BY <1>1
<1>5. /\ NoFile.in = {} /\ NoFile.len = 0 /\ NoFile.ext = 0 /\ NoFile.fe = 0 /\ NoFile.ce = "none"
      /\ NoFile.data = <<>> /\ NoFile.bytes = <<>>
  BY DEF NoFile
<1>6. Present(v) = {} /\ Stored(v) = {} /\ (\A x : InTree(v, x) = {}) /\ UsedBlocks(v) = {}
  BY <1>4, <1>5 DEF Present, Stored, InTree, UsedBlocks
<1>7. OwnFiles(v)
  <2>1. \A f \in Files : OwnFile(v, f)
    BY <1>4, <1>5 DEF OwnFile
  <2>2. v.files = [f \in Files |-> v.files[f]]
    BY <1>1
  <2>3. QED
    BY <1>1, <1>6, <2>1, <2>2 DEF OwnFiles
<1>8. OwnRest(v)
  BY <1>1, <1>2, <1>7 DEF OwnRest
<1>9. Sound(v)
  BY <1>1, <1>8 DEF Sound
<1>10. DataBlocks(v, {}) = 0
  <2>1. HasLens(v)
    BY <1>4, <1>5 DEF HasLens
  <2>2. QED
    BY <2>1, DataBlocksNone
<1>11. EndAt(v) = (IF udf THEN 261 ELSE 16 + 1 + One(joliet) + 1 + 1) + 5 + 5 * One(joliet) + One(rr)
  <2>1. One(v.catalog) = 0 /\ Cardinality({}) = 0
    BY <1>1, FS_EmptySet DEF One
  <2>2. One(joliet) \in Nat /\ One(rr) \in Nat
    BY DEF One
  <2>3. /\ EndAt(v) = TreeStart(v) + 5 + 5 * One(v.joliet) + One(v.rr) + One(v.catalog)
                       + Cardinality(UsedBlocks(v)) + DataBlocks(v, Stored(v))
        /\ v.udf => TreeStart(v) = 261 + One(v.catalog) + Cardinality(InTree(v, "udf"))
        /\ ~v.udf => TreeStart(v) = 16 + Len(v.head["pvd"]) + One(v.catalog) + One(v.joliet) + 1 + 1
    BY ONLY <1>9, EndParts
  <2>4. Stored(v) = {} /\ UsedBlocks(v) = {} /\ InTree(v, "udf") = {}
    BY <1>6
  <2>5. /\ EndAt(v) = TreeStart(v) + 5 + 5 * One(joliet) + One(rr) + 0 + 0 + 0
        /\ udf => TreeStart(v) = 261 + 0 + 0
        /\ ~udf => TreeStart(v) = 16 + 1 + 0 + One(joliet) + 1 + 1
    BY ONLY <1>1, <1>2, <1>10, <2>1, <2>3, <2>4
  <2>6. QED
    BY ONLY <2>2, <2>5, udf \in BOOLEAN
<1>12. /\ n = (IF udf THEN 244 ELSE 2 + One(joliet))
       /\ d = 5 + 5 * One(joliet) + One(rr) + One(udf)
       /\ One(joliet) \in Nat /\ One(rr) \in Nat /\ One(udf) = (IF udf THEN 1 ELSE 0)
  BY DEF NewFixed, NewPart, One
<1>13. Says(v, t)
  <2>1. \A f \in Files : t[f] = Nothing
    OBVIOUS
  <2>2. Nothing.in = {} /\ Nothing.len = 0
    BY DEF Nothing
  <2>3. \A f \in Files : /\ [i \in 1..t[f].len |-> Data(f, t[f].ver, i)] = <<>>
                          /\ [x \in t[f].in |-> Bytes(t[f].len, t[f].ver)] = <<>>
    BY <2>1, <2>2
  <2>4. QED
    BY <1>4, <1>5, <2>1, <2>2, <2>3 DEF Says
<1> HIDE DEF n, d, t
<1>14. CASE udf
  <2>1. OwnBut(v, 260)
    BY <1>1, <1>3, <1>8, <1>14 DEF OwnBut
  <2>2. n \in Int /\ d \in Int /\ 260 \in Int /\ v.space + n + d = 260 + d + One(v.udf) /\ EndAt(v) = 260 + d
    BY <1>1, <1>11, <1>12, <1>14
  <2>3. v.udf => d = d
    OBVIOUS
  <2>4. Resized(v, FinishAdd(v, n, d), 260, d)
    BY <1>1, <1>3, <2>2, <2>3, FinishAddHas
  <2> DEFINE w == FinishAdd(v, n, d)
  <2> HIDE DEF w
  <2>7. Resized(v, w, 260, d)
    BY <2>4 DEF w
  <2>8. Own(w) /\ w.pending = TRUE /\ SameData(v, w)
    BY ONLY <2>1, <2>2, <2>7, ResizedKept
  <2>5. Own(FinishAdd(v, n, d)) /\ FinishAdd(v, n, d).pending = TRUE /\ SameData(v, FinishAdd(v, n, d))
    BY <2>8 DEF w
  <2>6. QED
    BY <1>13, <2>5, SaysSame, NewVolumeIs DEF ChangedTo, v, n, d, t
<1>15. CASE ~udf
  <2>1. OwnBut(v, 0)
    BY <1>1, <1>8, <1>15 DEF OwnBut
  <2> DEFINE m == EndAt(v)
  <2>2. n \in Int /\ d \in Int /\ 0 \in Int /\ m \in Int /\ v.space + n + d = 0 + m + One(v.udf) /\ m = 0 + m
    BY <1>1, <1>11, <1>12, <1>15
  <2>3. v.udf => m = d /\ OwnUdfTo(v, 0)
    BY <1>1, <1>15
  <2> HIDE DEF m
  <2>4. Resized(v, FinishAdd(v, n, d), 0, m)
    BY <1>1, <2>2, <2>3, FinishAddHas
  <2>5. Own(FinishAdd(v, n, d)) /\ FinishAdd(v, n, d).pending = TRUE /\ SameData(v, FinishAdd(v, n, d))
    <3>1. EndAt(v) = 0 + m
      BY <2>2 DEF m
    <3>2. QED
      BY <2>1, <2>2, <2>4, <3>1, ResizedKept
  <2>6. QED
    BY <1>13, <2>5, SaysSame, NewVolumeIs DEF ChangedTo, v, n, d, t
<1>16. QED
  BY <1>14, <1>15

=============================================================================
