-------------------------- MODULE FileAccessProofs --------------------------
(***************************************************************************)
(* Proofs about FileAccess: a client that keeps off the circumstances      *)
(* reads its own files, whatever is on the image and however many streams  *)
(* it has.                                                                 *)
(***************************************************************************)
EXTENDS FileAccess, TLAPS

-----------------------------------------------------------------------------
(* Numbers and bytes.                                                       *)

\* Min and Max of two integers are what they should be.
LEMMA MinOfTwo ==
  ASSUME NEW a \in Int, NEW b \in Int
  PROVE  Min({a, b}) = IF a <= b THEN a ELSE b
<1> DEFINE m == IF a <= b THEN a ELSE b
<1>1. m \in {a, b} /\ \A y \in {a, b} : m <= y
  OBVIOUS
<1>2. \A x \in {a, b} : (\A y \in {a, b} : x <= y) => x = m
  OBVIOUS
<1> QED
  BY <1>1, <1>2 DEF Min

LEMMA MaxOfTwo ==
  ASSUME NEW a \in Int, NEW b \in Int
  PROVE  Max({a, b}) = IF a >= b THEN a ELSE b
<1> DEFINE m == IF a >= b THEN a ELSE b
<1>1. m \in {a, b} /\ \A y \in {a, b} : m >= y
  OBVIOUS
<1>2. \A x \in {a, b} : (\A y \in {a, b} : x >= y) => x = m
  OBVIOUS
<1> QED
  BY <1>1, <1>2 DEF Max

\* Sequences are equal that have the same elements.
LEMMA SameSequence ==
  ASSUME NEW T, NEW s \in Seq(T), NEW t \in Seq(T), Len(s) = Len(t),
         \A i \in 1..Len(s) : s[i] = t[i]
  PROVE  s = t
OBVIOUS

\* What is where in two sequences, one after the other.
LEMMA Joined ==
  ASSUME NEW T, NEW s \in Seq(T), NEW t \in Seq(T)
  PROVE  /\ s \o t \in Seq(T) /\ Len(s \o t) = Len(s) + Len(t)
         /\ \A i \in 1..Len(s) : (s \o t)[i] = s[i]
         /\ \A i \in 1..Len(t) : (s \o t)[Len(s) + i] = t[i]
OBVIOUS

\* A sequence of one element, one more and the rest.
LEMMA OneMoreAndRest ==
  ASSUME NEW T, NEW h \in Seq(T), NEW t \in T, NEW r \in Seq(T), Len(h) = 1
  PROVE  LET all == h \o <<t>> \o r
         IN /\ all \in Seq(T) /\ Len(all) = Len(r) + 2
            /\ all[1] = h[1] /\ all[2] = t
            /\ \A i \in 3..(Len(r) + 2) : all[i] = r[i - 2]
<1> DEFINE one == <<t>>  both == h \o one  all == both \o r
<1>1. one \in Seq(T) /\ Len(one) = 1 /\ one[1] = t
  OBVIOUS
<1>2. 1 \in 1..1 /\ 1 \in 1..2 /\ 2 \in 1..2 /\ 1 + 1 = 2 /\ Len(r) \in Nat
  OBVIOUS
<1> HIDE DEF one
<1>3. both \in Seq(T) /\ Len(both) = 1 + 1 /\ both[1] = h[1] /\ both[1 + 1] = one[1]
  <2>1. /\ both \in Seq(T) /\ Len(both) = Len(h) + Len(one)
        /\ \A i \in 1..Len(h) : both[i] = h[i]
        /\ \A i \in 1..Len(one) : both[Len(h) + i] = one[i]
    <3>1. h \in Seq(T) /\ one \in Seq(T)
      BY <1>1
    <3> QED
      BY ONLY <3>1, Joined
  <2>2. 1 \in 1..Len(h) /\ 1 \in 1..Len(one) /\ Len(h) = 1 /\ Len(one) = 1
    BY <1>1
  <2>3. both[1] = h[1] /\ both[Len(h) + 1] = one[1]
    BY <2>1, <2>2, Zenon
  <2> QED
    BY <2>1, <2>2, <2>3, Zenon
<1> HIDE DEF both
<1>4. /\ all \in Seq(T) /\ Len(all) = Len(both) + Len(r)
      /\ \A i \in 1..Len(both) : all[i] = both[i]
      /\ \A i \in 1..Len(r) : all[Len(both) + i] = r[i]
  <2>1. both \in Seq(T) /\ r \in Seq(T)
    BY <1>3
  <2> QED
    BY ONLY <2>1, Joined
<1> HIDE DEF all
<1>5. Len(all) = Len(r) + 2
  <2>1. Len(both) = 2
    BY <1>2, <1>3
  <2> QED
    BY <1>2, <1>4, <2>1
<1>6. all[1] = h[1] /\ all[2] = t
  <2>1. 1 \in 1..Len(both) /\ 2 \in 1..Len(both)
    BY <1>3
  <2> QED
    BY <1>1, <1>2, <1>3, <1>4, <2>1, Zenon
<1>7. ASSUME NEW i \in 3..(Len(r) + 2)  PROVE all[i] = r[i - 2]
  <2>1. i - 2 \in 1..Len(r) /\ Len(both) + (i - 2) = i
    BY <1>2, <1>3
  <2> QED
    BY <1>4, <2>1, Zenon
<1>8. all = h \o <<t>> \o r
  BY DEF all, both, one
<1> QED
  BY <1>4, <1>5, <1>6, <1>7, <1>8, Zenon

\* n bytes of an object from a place on.
Run(o, from, n) == [i \in 1..n |-> <<o, from + i - 1>>]
Byte(o) == {o} \X Nat

LEMMA RunType ==
  ASSUME NEW o, NEW from \in Nat, NEW n \in Nat
  PROVE  /\ Run(o, from, n) \in Seq(Byte(o)) /\ Len(Run(o, from, n)) = n
         /\ \A i \in 1..n : Run(o, from, n)[i] = <<o, from + i - 1>>
<1>1. ASSUME NEW i \in 1..n  PROVE <<o, from + i - 1>> \in Byte(o)
  <2>1. from + i - 1 \in Nat
    OBVIOUS
  <2> QED
    BY <2>1 DEF Byte
<1>2. Run(o, from, n) \in [1..n -> Byte(o)]
  BY <1>1 DEF Run
<1>3. \A T : \A s \in [1..n -> T] : s \in Seq(T) /\ Len(s) = n
  OBVIOUS
<1>4. \A i \in 1..n : Run(o, from, n)[i] = <<o, from + i - 1>>
  BY DEF Run
<1> QED
  BY <1>2, <1>3, <1>4

\* Runs that follow one another.
Joins(o, from, m, n) == Run(o, from, m) \o Run(o, from + m, n) = Run(o, from, m + n)
LEMMA RunsJoin ==
  ASSUME NEW o, NEW from \in Nat, NEW m \in Nat, NEW n \in Nat
  PROVE  Joins(o, from, m, n)
<1> DEFINE s == Run(o, from, m)  t == Run(o, from + m, n)  u == Run(o, from, m + n)
           B == Byte(o)
<1>1. s \in Seq(B) /\ Len(s) = m /\ \A i \in 1..m : s[i] = <<o, from + i - 1>>
  BY RunType
<1>2. t \in Seq(B) /\ Len(t) = n /\ \A i \in 1..n : t[i] = <<o, from + m + i - 1>>
  <2>1. from + m \in Nat
    OBVIOUS
  <2> QED
    BY <2>1, RunType
<1>3. u \in Seq(B) /\ Len(u) = m + n /\ \A i \in 1..(m + n) : u[i] = <<o, from + i - 1>>
  <2>1. m + n \in Nat
    OBVIOUS
  <2> QED
    BY <2>1, RunType
<1> HIDE DEF s, t, u, B
<1>7. /\ s \o t \in Seq(B) /\ Len(s \o t) = Len(s) + Len(t)
      /\ \A i \in 1..Len(s) : (s \o t)[i] = s[i]
      /\ \A i \in 1..Len(t) : (s \o t)[Len(s) + i] = t[i]
  <2>1. s \in Seq(B) /\ t \in Seq(B)
    BY <1>1, <1>2
  <2> QED
    BY ONLY <2>1, Joined
<1>4. s \o t \in Seq(B) /\ Len(s \o t) = Len(u)
  BY <1>1, <1>2, <1>3, <1>7, Zenon
<1>5. ASSUME NEW i \in 1..(m + n)  PROVE (s \o t)[i] = u[i]
  <2>1. CASE i <= m
    <3>1. i \in 1..m
      BY <2>1
    <3>2. (s \o t)[i] = s[i]
      BY <1>1, <1>7, <3>1, Zenon
    <3> QED
      BY <1>1, <1>3, <3>1, <3>2, Zenon
  <2>2. CASE i > m
    <3>1. (s \o t)[i] = t[i - m] /\ i - m \in 1..n
      <4>1. i - m \in 1..n /\ m + (i - m) = i
        BY <2>2
      <4> QED
        BY <1>1, <1>2, <1>7, <4>1, Zenon
    <3>2. from + m + (i - m) - 1 = from + i - 1
      OBVIOUS
    <3> QED
      BY <1>2, <1>3, <3>1, <3>2, Zenon
  <2>3. i <= m \/ i > m
    OBVIOUS
  <2> QED
    BY <2>1, <2>2, <2>3, Zenon
<1>6. s \o t = u
  BY <1>3, <1>4, <1>5, SameSequence
<1> QED
  BY <1>6 DEF s, t, u, Joins

-----------------------------------------------------------------------------
(* The bytes of a file.                                                     *)

\* How many bytes there are of n from a place on.
Some(f, from, n) ==
  LET here == IF n <= Size[Of[f].object] - from THEN n ELSE Size[Of[f].object] - from
  IN IF here >= 0 THEN here ELSE 0

LEMMA SomeType ==
  ASSUME NEW f \in File, NEW from \in Nat, NEW n \in Nat
  PROVE  Some(f, from, n) \in 0..n
<1>1. Size[Of[f].object] \in Nat
  BY FileAccessAssumption
<1> QED
  BY <1>1 DEF Some

LEMMA SomeIs ==
  ASSUME NEW f \in File, NEW from \in Nat, NEW n \in Nat
  PROVE  LET z == Size[Of[f].object]
         IN Some(f, from, n) = IF n <= z - from THEN n ELSE IF z - from >= 0 THEN z - from ELSE 0
<1>1. Size[Of[f].object] \in Nat
  BY FileAccessAssumption
<1> QED
  BY <1>1 DEF Some

LEMMA BytesAre ==
  ASSUME NEW f \in File, NEW from \in Nat, NEW n \in Nat
  PROVE  Bytes(f, from, n) = Run(Of[f].object, from, Some(f, from, n))
<1>1. Size[Of[f].object] \in Nat
  BY FileAccessAssumption
<1>2. /\ Min({n, Size[Of[f].object] - from})
           = IF n <= Size[Of[f].object] - from THEN n ELSE Size[Of[f].object] - from
      /\ Min({n, Size[Of[f].object] - from}) \in Int
  <2>1. Size[Of[f].object] - from \in Int
    BY <1>1
  <2> QED
    BY <2>1, MinOfTwo
<1>3. Max({0, Min({n, Size[Of[f].object] - from})}) = Some(f, from, n)
  BY <1>1, <1>2, MaxOfTwo DEF Some
<1> QED
  BY <1>3 DEF Bytes, Run

LEMMA BytesFollow ==
  ASSUME NEW f \in File, NEW from \in Nat, NEW m \in Nat, NEW n \in Nat, Some(f, from, m) = m
  PROVE  Bytes(f, from, m) \o Bytes(f, from + m, n) = Bytes(f, from, m + n)
<1>1. from + m \in Nat /\ m + n \in Nat /\ Size[Of[f].object] \in Nat
  BY FileAccessAssumption
<1>2. Some(f, from, m + n) = m + Some(f, from + m, n)
  <2> DEFINE size == Size[Of[f].object]
  <2>1. size \in Nat
    BY <1>1
  <2> HIDE DEF size
  <2>2. /\ Some(f, from, m) = IF m <= size - from THEN m ELSE IF size - from >= 0 THEN size - from ELSE 0
        /\ Some(f, from, m + n)
             = IF m + n <= size - from THEN m + n ELSE IF size - from >= 0 THEN size - from ELSE 0
        /\ Some(f, from + m, n)
             = IF n <= size - (from + m) THEN n
               ELSE IF size - (from + m) >= 0 THEN size - (from + m) ELSE 0
    BY <2>1 DEF Some, size
  <2> QED
    BY <2>1, <2>2
<1>3. Some(f, from + m, n) \in Nat
  <2>1. Some(f, from + m, n) \in 0..n
    BY <1>1, SomeType, Zenon
  <2> QED
    BY <2>1
<1>4. /\ Bytes(f, from, m) = Run(Of[f].object, from, m)
      /\ Bytes(f, from + m, n) = Run(Of[f].object, from + m, Some(f, from + m, n))
      /\ Bytes(f, from, m + n) = Run(Of[f].object, from, m + Some(f, from + m, n))
  BY <1>1, <1>2, BytesAre
<1>5. Run(Of[f].object, from, m) \o Run(Of[f].object, from + m, Some(f, from + m, n))
        = Run(Of[f].object, from, m + Some(f, from + m, n))
  <2>1. Joins(Of[f].object, from, m, Some(f, from + m, n))
    BY <1>3, RunsJoin
  <2> QED
    BY <2>1, Zenon DEF Joins
<1> QED
  BY <1>4, <1>5, Zenon

\* The data of an inode: what stands for it on an image is what get_file makes
\* of it, around the boot info table.
LEMMA RawIs ==
  ASSUME NEW f \in File
  PROVE  /\ Raw(f) = Run(Of[f].object, Of[f].at, Some(f, Of[f].at, Of[f].len))
         /\ Some(f, Of[f].at, Of[f].len) \in 0..Of[f].len
<1>1. Of[f].at \in Nat /\ Of[f].len \in Nat
  BY FileAccessAssumption
<1> QED
  BY <1>1, BytesAre, SomeType DEF Raw

\* A boot info table has the place that it takes in the data.
THEOREM CopyPartIs ==
  ASSUME NEW f \in File
  PROVE  CopyPart(f) = OnImage(f)
<1> DEFINE o == Of[f].object  at == Of[f].at  len == Of[f].len
<1>1. at \in Nat /\ len \in Nat /\ len # 0 /\ Size[o] \in Nat /\ Of[f].table \in BOOLEAN
  BY FileAccessAssumption
<1>4. 1 \in Nat /\ 1 \in 1..1
  OBVIOUS
<1> HIDE DEF o, at, len
<1>2. CASE ~Of[f].table
  BY <1>2 DEF CopyPart, OnImage, Patched
<1>3. CASE Of[f].table
  <2>0. CopyPart(f) = Bytes(f, at, Min({1, len}))
                       \o (IF len - Min({1, len}) > 0 THEN <<<<"table", f>>>> ELSE <<>>)
                       \o Bytes(f, at + 2, Max({0, len - Min({1, len}) - 1}))
    BY <1>3, Zenon DEF CopyPart, o, at, len
  <2>1. at + len <= Size[o]
    BY <1>3, FileAccessAssumption DEF o, at, len
  <2>2. Some(f, at, len) = len /\ Some(f, at, 1) = 1
    BY <1>1, <2>1 DEF Some, o
  <2>3. Raw(f) = Run(o, at, len)
    BY <2>2, RawIs DEF o, at, len
  <2>4. Min({1, len}) = 1
    BY <1>1, MinOfTwo
  <2>5. Bytes(f, at, Min({1, len})) = Run(o, at, 1)
    BY <1>1, <2>2, <2>4, BytesAre DEF o
  <2>6. len - 1 \in Nat /\ Max({0, len - 1 - 1}) = IF len = 1 THEN 0 ELSE len - 2
    <3>1. len - 2 \in Int /\ len - 1 - 1 = len - 2 /\ 0 \in Int
      BY <1>1
    <3>2. Max({0, len - 2}) = IF 0 >= len - 2 THEN 0 ELSE len - 2
      BY <3>1, MaxOfTwo
    <3> QED
      BY <1>1, <3>1, <3>2
  <2>7. CASE len = 1
    <3>1. CopyPart(f) = Run(o, at, 1) \o <<>> \o Bytes(f, at + 2, 0)
      <4>1. ~(len - 1 > 0) /\ Max({0, len - 1 - 1}) = 0
        BY <2>6, <2>7
      <4> QED
        BY <2>0, <2>4, <2>5, <4>1, Zenon
    <3>2. Bytes(f, at + 2, 0) = <<>>
      <4>1. at + 2 \in Nat /\ Some(f, at + 2, 0) = 0
        BY <1>1, <2>1, <2>7 DEF Some, o
      <4>2. Bytes(f, at + 2, 0) = Run(o, at + 2, 0)
        BY <4>1, BytesAre DEF o
      <4> QED
        BY <4>2 DEF Run
    <3>3. Run(o, at, 1) \in Seq(Byte(o)) /\ Len(Run(o, at, 1)) = 1
      BY <1>1, <1>4, RunType, Zenon
    <3>4. CopyPart(f) = Run(o, at, 1)
      BY <3>1, <3>2, <3>3
    <3>5. Patched(f, Run(o, at, 1)) = Run(o, at, 1)
      BY <1>3 DEF Patched, Run
    <3> QED
      BY <2>3, <2>7, <3>4, <3>5 DEF OnImage, len
  <2>8. CASE len > 1
    <3> DEFINE t == <<"table", f>>  B == Byte(o) \cup {t}
               h == Run(o, at, 1)  r == Run(o, at + 2, len - 2)
               got == h \o <<t>> \o r  want == [Run(o, at, len) EXCEPT ![2] = t]
    <3>1. CopyPart(f) = got
      <4>1. at + 2 \in Nat /\ len - 2 \in Nat /\ Some(f, at + 2, len - 2) = len - 2
        BY <1>1, <2>1, <2>8 DEF Some, o
      <4>2. Bytes(f, at + 2, len - 2) = r
        BY <4>1, BytesAre DEF o
      <4>3. len - 1 > 0 /\ Max({0, len - 1 - 1}) = len - 2
        BY <1>1, <2>6, <2>8
      <4> QED
        BY <2>0, <2>4, <2>5, <4>2, <4>3, Zenon
    <3>2. OnImage(f) = want
      BY <1>3, <2>3 DEF OnImage, Patched
    <3> HIDE DEF t
    <3>3. /\ h \in Seq(B) /\ Len(h) = 1 /\ h[1] = <<o, at>>
      <4>1. h \in Seq(Byte(o)) /\ Len(h) = 1 /\ h[1] = <<o, at + 1 - 1>>
        <5>1. at \in Nat /\ 1 \in Nat /\ 1 \in 1..1
          BY <1>1
        <5> QED
          BY ONLY <5>1, RunType
      <4>2. at + 1 - 1 = at
        BY <1>1
      <4> QED
        BY <4>1, <4>2
    <3>4. /\ r \in Seq(B) /\ Len(r) = len - 2
          /\ \A i \in 1..(len - 2) : r[i] = <<o, at + 2 + i - 1>>
      <4>1. at + 2 \in Nat /\ len - 2 \in Nat
        BY <1>1, <2>8
      <4>2. /\ r \in Seq(Byte(o)) /\ Len(r) = len - 2
            /\ \A i \in 1..(len - 2) : r[i] = <<o, at + 2 + i - 1>>
        BY <4>1, RunType
      <4> QED
        BY <4>2
    <3>5. /\ want \in Seq(B) /\ Len(want) = len /\ want[2] = t
          /\ \A i \in 1..len : i # 2 => want[i] = <<o, at + i - 1>>
      <4> DEFINE s == Run(o, at, len)
      <4>1. /\ s \in Seq(Byte(o)) /\ Len(s) = len
            /\ \A i \in 1..len : s[i] = <<o, at + i - 1>>
        BY <1>1, RunType
      <4>2. want = [s EXCEPT ![2] = t] /\ t \in B
        OBVIOUS
      <4> HIDE DEF s, want, B
      <4>3. 2 \in 1..len
        BY <1>1, <2>8
      <4>4. s \in Seq(B)
        BY <4>1 DEF B
      <4> QED
        BY <4>1, <4>2, <4>3, <4>4
    <3>6. /\ got \in Seq(B) /\ Len(got) = Len(r) + 2
          /\ got[1] = h[1] /\ got[2] = t
          /\ \A i \in 3..(Len(r) + 2) : got[i] = r[i - 2]
      <4>1. t \in B
        OBVIOUS
      <4> HIDE DEF h, r, B
      <4> QED
        BY <3>3, <3>4, <4>1, OneMoreAndRest
    <3> HIDE DEF h, r, want, got, B
    <3>7. ASSUME NEW i \in 1..len  PROVE got[i] = want[i]
      <4>1. CASE i = 1
        <5>1. 1 \in 1..len /\ 1 # 2 /\ at + 1 - 1 = at
          BY <1>1
        <5>2. want[1] = <<o, at + 1 - 1>>
          BY <3>5, <5>1, Zenon
        <5> QED
          BY <3>3, <3>6, <4>1, <5>1, <5>2, Zenon
      <4>2. CASE i = 2
        BY <3>5, <3>6, <4>2
      <4>3. CASE i > 2
        <5>1. got[i] = r[i - 2] /\ i - 2 \in 1..(len - 2)
          BY <1>1, <2>8, <3>4, <3>6, <4>3
        <5>2. at + 2 + (i - 2) - 1 = at + i - 1
          BY <1>1
        <5>3. r[i - 2] = <<o, at + 2 + (i - 2) - 1>>
          BY <3>4, <5>1, Zenon
        <5>4. i # 2
          BY <4>3
        <5>5. want[i] = <<o, at + i - 1>>
          BY <3>5, <5>4, Zenon
        <5> QED
          BY <5>1, <5>2, <5>3, <5>5, Zenon
      <4>4. i = 1 \/ i = 2 \/ i > 2
        OBVIOUS
      <4> QED
        BY <4>1, <4>2, <4>3, <4>4, Zenon
    <3>8. Len(got) = len
      BY <1>1, <2>8, <3>4, <3>6
    <3>9. got = want
      BY <3>5, <3>6, <3>7, <3>8, SameSequence
    <3> QED
      BY <3>1, <3>2, <3>9
  <2> QED
    BY <1>1, <2>7, <2>8
<1> QED
  BY <1>1, <1>2, <1>3

\* A file of one record without a table has its data as it is.
LEMMA FlattenOne ==
  ASSUME NEW s
  PROVE  FlattenSeq([i \in 1..1 |-> s]) = s
<1> DEFINE q == [i \in 1..1 |-> s]
           Body(g) == [i \in 1..Len(q) |-> IF i = 1 THEN q[i] ELSE g[i - 1] \o q[i]]
           flat == CHOOSE g : g = Body(g)
<1>1. Len(q) = 1 /\ q[1] = s
  OBVIOUS
<1>2. FlattenSeq(q) = flat[Len(q)]
  BY <1>1 DEF FlattenSeq
<1>3. flat = Body(flat)
  <2>1. [i \in 1..1 |-> s] = Body([i \in 1..1 |-> s])
    OBVIOUS
  <2> HIDE DEF Body
  <2>2. \E g : g = Body(g)
    BY <2>1
  <2> QED
    BY <2>2
<1> HIDE DEF flat
<1>4. flat[1] = s
  BY <1>1, <1>3
<1> QED
  BY <1>1, <1>2, <1>4

LEMMA WholeIs ==
  ASSUME NEW f \in File, ~Of[f].table, Len(Of[f].parts) = 1
  PROVE  Whole(f) = Raw(f)
<1>1. Of[f].parts[1] = f
  BY FileAccessAssumption
<1>2. [i \in 1..Len(Of[f].parts) |-> OnImage(Of[f].parts[i])] = [i \in 1..1 |-> OnImage(f)]
  BY <1>1
<1>3. OnImage(f) = Raw(f)
  BY DEF OnImage, Patched
<1> QED
  BY <1>2, <1>3, FlattenOne DEF Whole

\* What a stream gives that is where the client takes it to be, or beyond the
\* end of its file object as the client is: what it expects from here on.
At(f, here, p) ==
  here < Of[f].len =>
    \/ p = Of[f].at + here
    \/ p >= Size[Of[f].object] /\ Of[f].at + here >= Size[Of[f].object]
Left(all, here) == IF all - here >= 0 THEN all - here ELSE 0
Asked(all, here, n) ==
  IF n < 0 THEN Left(all, here) ELSE IF n <= Left(all, here) THEN n ELSE Left(all, here)

LEMMA Given ==
  ASSUME NEW f \in File, ~Of[f].table, Len(Of[f].parts) = 1,
         NEW here \in Nat, NEW n \in Int, NEW p \in Nat, At(f, here, p)
  PROVE  LET k == Asked(Of[f].len, here, n)
             g == Some(f, p, k)
         IN /\ k \in Nat /\ g \in 0..k /\ Len(Bytes(f, p, k)) = g
            /\ (Bytes(f, p, k) = <<>>) <=> g = 0
            /\ At(f, here + k, p + g) /\ At(f, here + g, p + g)
            /\ g > 0 => here + g <= Of[f].len
            /\ SubSeq(Whole(f), here + 1, here + Asked(Len(Whole(f)), here, n)) = Bytes(f, p, k)
<1> DEFINE o == Of[f].object  at == Of[f].at  len == Of[f].len  z == Size[o]
           k == Asked(len, here, n)  g == Some(f, p, k)  w == Some(f, at, len)
<1>1. at \in Nat /\ len \in Nat /\ z \in Nat
  BY FileAccessAssumption
<1>2. At(f, here, p) <=> (here < len => p = at + here \/ (p >= z /\ at + here >= z))
  BY DEF At
<1>3. /\ At(f, here + k, p + g)
           <=> (here + k < len => p + g = at + (here + k) \/ (p + g >= z /\ at + (here + k) >= z))
      /\ At(f, here + g, p + g)
           <=> (here + g < len => p + g = at + (here + g) \/ (p + g >= z /\ at + (here + g) >= z))
  BY DEF At
<1>16. k \in Nat
  BY <1>1 DEF Asked, Left
<1>4. k = Asked(len, here, n) /\ g = IF k <= z - p THEN k ELSE IF z - p >= 0 THEN z - p ELSE 0
  <2> HIDE DEF k
  <2>1. g = IF k <= z - p THEN k ELSE IF z - p >= 0 THEN z - p ELSE 0
    BY <1>16, SomeIs
  <2> QED
    BY <2>1 DEF k
<1>5. w = IF len <= z - at THEN len ELSE IF z - at >= 0 THEN z - at ELSE 0
  BY <1>1, SomeIs
<1>6. Bytes(f, p, Asked(len, here, n)) = Run(o, p, Some(f, p, Asked(len, here, n)))
  <2>1. Asked(len, here, n) \in Nat
    BY <1>1 DEF Asked, Left
  <2> QED
    BY <2>1, BytesAre
<1>7. Whole(f) = Run(o, at, w)
  BY WholeIs, RawIs
<1> HIDE DEF o, at, len, z, k, g, w
<1>8. k \in Nat
  BY <1>16
<1>9. g \in Nat /\ g <= k /\ w \in Nat /\ w <= len
  BY <1>1, <1>4, <1>5, <1>8
<1>10. Len(Whole(f)) = w
  <2>1. Len(Run(o, at, w)) = w
    BY <1>1, <1>9, RunType
  <2> QED
    BY <1>7, <2>1, Zenon
<1>11. /\ here + k < len => p + g = at + (here + k) \/ (p + g >= z /\ at + (here + k) >= z)
       /\ here + g < len => p + g = at + (here + g) \/ (p + g >= z /\ at + (here + g) >= z)
       /\ g > 0 => here + g <= w /\ p = at + here
       /\ Asked(w, here, n) = g
  <2>1. here < len => p = at + here \/ (p >= z /\ at + here >= z)
    BY <1>2
  <2>2. k = IF n < 0 THEN Left(len, here) ELSE IF n <= Left(len, here) THEN n ELSE Left(len, here)
    BY <1>4 DEF Asked
  <2>3. Asked(w, here, n)
          = IF n < 0 THEN Left(w, here) ELSE IF n <= Left(w, here) THEN n ELSE Left(w, here)
    BY DEF Asked
  <2>4. /\ Left(len, here) = IF len - here >= 0 THEN len - here ELSE 0
        /\ Left(w, here) = IF w - here >= 0 THEN w - here ELSE 0
    BY DEF Left
  <2>5. CASE here >= len
    BY <1>1, <1>4, <1>5, <1>9, <2>2, <2>3, <2>4, <2>5
  <2>6. CASE here < len /\ p = at + here
    BY <1>1, <1>4, <1>5, <1>9, <2>2, <2>3, <2>4, <2>6
  <2>7. CASE here < len /\ p >= z /\ at + here >= z
    BY <1>1, <1>4, <1>5, <1>9, <2>2, <2>3, <2>4, <2>7
  <2> QED
    BY <1>1, <2>1, <2>5, <2>6, <2>7
<1>12. Bytes(f, p, k) = Run(o, p, g) /\ Len(Run(o, p, g)) = g
  BY <1>4, <1>6, <1>9, RunType DEF g, k
<1>13. (Run(o, p, g) = <<>>) <=> g = 0
  <2>1. g = 0 => Run(o, p, g) = <<>>
    BY DEF Run
  <2>2. Run(o, p, g) = <<>> => g = 0
    BY ONLY <1>12
  <2> QED
    BY <2>1, <2>2
<1>14. SubSeq(Whole(f), here + 1, here + g) = Run(o, p, g)
  <2>1. CASE g = 0
    BY <2>1, <1>7 DEF Run
  <2>2. CASE g > 0
    <3>1. p = at + here /\ here + g <= w
      BY <1>11, <2>2
    <3> DEFINE all == Run(o, at, w)  got == Run(o, p, g)  B == Byte(o)
    <3>2. all \in Seq(B) /\ Len(all) = w /\ \A i \in 1..w : all[i] = <<o, at + i - 1>>
      <4>1. at \in Nat /\ w \in Nat
        BY <1>1, <1>9
      <4> QED
        BY ONLY <4>1, RunType
    <3>3. got \in Seq(B) /\ Len(got) = g /\ \A i \in 1..g : got[i] = <<o, p + i - 1>>
      <4>1. p \in Nat /\ g \in Nat
        BY <1>1, <1>9
      <4> QED
        BY ONLY <4>1, RunType
    <3> HIDE DEF all, got, B
    <3>4. SubSeq(all, here + 1, here + g) \in Seq(B) /\ Len(SubSeq(all, here + 1, here + g)) = g
      BY <1>9, <3>1, <3>2
    <3>5. ASSUME NEW i \in 1..g  PROVE SubSeq(all, here + 1, here + g)[i] = got[i]
      <4>1. SubSeq(all, here + 1, here + g)[i] = all[here + i] /\ here + i \in 1..w
        BY <1>9, <3>1, <3>2
      <4>2. at + (here + i) - 1 = p + i - 1
        BY <1>1, <3>1
      <4>3. all[here + i] = <<o, at + (here + i) - 1>> /\ got[i] = <<o, p + i - 1>>
        BY <3>2, <3>3, <4>1, Zenon
      <4> QED
        BY <4>1, <4>2, <4>3, Zenon
    <3>6. SubSeq(all, here + 1, here + g) = got
      BY <3>3, <3>4, <3>5, SameSequence
    <3> QED
      BY <1>7, <3>6 DEF all, got
  <2> QED
    BY <1>9, <2>1, <2>2
<1>15. /\ k \in Nat /\ g \in 0..k /\ Len(Bytes(f, p, k)) = g
       /\ (Bytes(f, p, k) = <<>>) <=> g = 0
       /\ At(f, here + k, p + g) /\ At(f, here + g, p + g)
       /\ g > 0 => here + g <= len
       /\ SubSeq(Whole(f), here + 1, here + Asked(Len(Whole(f)), here, n)) = Bytes(f, p, k)
  <2>1. g \in 0..k /\ (g > 0 => here + g <= len)
    BY <1>1, <1>8, <1>9, <1>11
  <2> QED
    BY <1>3, <1>8, <1>10, <1>11, <1>12, <1>13, <1>14, <2>1
<1> QED
  BY <1>15 DEF k, g, len

-----------------------------------------------------------------------------
(* The invariant.                                                           *)

Attributes == [file : File \cup {None}, offset : Nat, open : BOOLEAN, ahead : Nat]
Types ==
  /\ pos \in [Handles -> Nat]
  /\ owner \in [Handles -> Readers \cup {None}]
  /\ stream \in [Streams -> Attributes]

\* An open stream has a file that it can read as it is, and as long as nobody
\* else moved the file object, that is where the client takes the stream to be.
StreamSound(s) ==
  LET x == stream[s]
      h == Handle(x.file, s)
  IN x.open =>
       /\ x.file \in File /\ ~Of[x.file].table /\ Len(Of[x.file].parts) = 1
       /\ x.ahead > 0 => Here(x) <= Of[x.file].len
       /\ owner[h] = s => At(x.file, Here(x), pos[h])

\* What write_fp copied, and where it goes on.
CopySound ==
  copy # None =>
    \E f \in File : \E left \in 0..Of[f].len :
      LET done == Of[f].len - left
      IN /\ copy = [file |-> f, left |-> left, out |-> Bytes(f, Of[f].at, done)]
         /\ left > 0 => /\ pos[Handle(f, "copy")] = Of[f].at + done
                        /\ Some(f, Of[f].at, done) = done
Inv == Types /\ (\A s \in Streams : StreamSound(s)) /\ CopySound

LEMMA HandleType ==
  /\ \A f \in File, s \in Streams \cup {"copy"} : Handle(f, s) \in Handles
  /\ \A f \in File, s, t \in Streams \cup {"copy"} : s # t => Handle(f, t) # s
<1>1. \A f \in File : Of[f].object \in Objects
  BY DEF Objects
<1>2. Objects \cap Readers = {}
  BY FileAccessAssumption
<1> QED
  BY <1>1, <1>2 DEF Handle, Handles, Readers

\* A stream is sound as long as its file object is let alone, or another one
\* is said to have moved it.
LEMMA StreamKept ==
  ASSUME Types, NEW t \in Streams, StreamSound(t), stream'[t] = stream[t],
         \A h \in Handles :
           owner'[h] = t /\ stream[t].file \in File /\ Handle(stream[t].file, t) = h
             => owner[h] = t /\ pos'[h] = pos[h]
  PROVE  StreamSound(t)'
<1> DEFINE x == stream[t]  h == Handle(x.file, t)
<1>1. CASE x.open
  <2>1. /\ x.file \in File /\ ~Of[x.file].table /\ Len(Of[x.file].parts) = 1
        /\ x.ahead > 0 => Here(x) <= Of[x.file].len
        /\ owner[h] = t => At(x.file, Here(x), pos[h])
    BY <1>1 DEF StreamSound
  <2>2. h \in Handles
    BY <2>1, HandleType
  <2>3. owner'[h] = t => owner[h] = t /\ pos'[h] = pos[h]
    BY <2>1, <2>2
  <2> QED
    BY <1>1, <2>1, <2>3 DEF StreamSound
<1>2. CASE ~x.open
  BY <1>2 DEF StreamSound
<1> QED
  BY <1>1, <1>2

\* So is the copy whose file object is not moved.
LEMMA CopyKept ==
  ASSUME Types, CopySound, copy' = copy,
         copy # None /\ copy.file \in File
           => pos'[Handle(copy.file, "copy")] = pos[Handle(copy.file, "copy")]
  PROVE  CopySound'
<1> SUFFICES ASSUME copy # None
             PROVE  CopySound'
  BY DEF CopySound
<1>1. PICK f \in File : \E left \in 0..Of[f].len :
        LET done == Of[f].len - left
        IN /\ copy = [file |-> f, left |-> left, out |-> Bytes(f, Of[f].at, done)]
           /\ left > 0 => /\ pos[Handle(f, "copy")] = Of[f].at + done
                          /\ Some(f, Of[f].at, done) = done
  BY DEF CopySound
<1>2. PICK left \in 0..Of[f].len :
        LET done == Of[f].len - left
        IN /\ copy = [file |-> f, left |-> left, out |-> Bytes(f, Of[f].at, done)]
           /\ left > 0 => /\ pos[Handle(f, "copy")] = Of[f].at + done
                          /\ Some(f, Of[f].at, done) = done
  BY <1>1
<1>3. copy.file = f /\ pos'[Handle(f, "copy")] = pos[Handle(f, "copy")]
  BY <1>2
<1> QED
  BY <1>2, <1>3 DEF CopySound

\* What a move and a change of a stream come to.
LEMMA Moved ==
  ASSUME Types, NEW h \in Handles, NEW who \in Readers \cup {None}, NEW to \in Nat,
         pos' = [pos EXCEPT ![h] = to], owner' = [owner EXCEPT ![h] = who]
  PROVE  /\ pos' \in [Handles -> Nat] /\ owner' \in [Handles -> Readers \cup {None}]
         /\ pos'[h] = to /\ owner'[h] = who
BY DEF Types

LEMMA Streamed ==
  ASSUME Types, NEW s \in Streams, NEW y \in Attributes, stream' = [stream EXCEPT ![s] = y]
  PROVE  /\ stream' \in [Streams -> Attributes] /\ stream'[s] = y
         /\ \A t \in Streams \ {s} : stream'[t] = stream[t]
BY DEF Types

\* Who moves a file object does not harm the streams of others.
LEMMA OthersMoved ==
  ASSUME Types, NEW h \in Handles, NEW who, NEW to,
         pos' = [pos EXCEPT ![h] = to], owner' = [owner EXCEPT ![h] = who],
         NEW t \in Streams, t # who, StreamSound(t), stream'[t] = stream[t]
  PROVE  StreamSound(t)'
<1>1. ASSUME NEW g \in Handles, owner'[g] = t  PROVE owner[g] = t /\ pos'[g] = pos[g]
  <2>1. owner'[h] = who
    BY DEF Types
  <2>2. g # h
    BY <1>1, <2>1
  <2> QED
    BY <1>1, <2>2 DEF Types
<1> QED
  BY <1>1, StreamKept

\* Nor the copying, unless it takes its file object.
LEMMA CopyUndisturbed ==
  ASSUME Faults = {}, Types, CopySound, NEW h \in Handles, NEW who, who # "copy", NEW to,
         Moves(h, who, to), copy' = copy
  PROVE  CopySound'
<1>1. copy # None => h # Handle(copy.file, "copy")
  BY DEF Moves
<1>2. ASSUME copy # None, copy.file \in File
      PROVE  pos'[Handle(copy.file, "copy")] = pos[Handle(copy.file, "copy")]
  <2>1. Handle(copy.file, "copy") \in Handles
    BY <1>2, HandleType
  <2> QED
    BY <1>1, <1>2, <2>1 DEF Moves, Types
<1> QED
  BY <1>2, CopyKept

-----------------------------------------------------------------------------
(* The actions of a stream.                                                 *)

LEMMA StreamsAreApart ==
  /\ \A s \in Streams : s # None /\ s # "copy" /\ s # "get"
                         /\ s \in Readers /\ s \in Handles /\ s \notin Objects
  /\ "get" \in Readers /\ "copy" \in Readers /\ "copy" \in Handles
  /\ "copy" \notin Objects /\ "copy" \notin Streams
BY FileAccessAssumption DEF Readers, Handles

LEMMA PlainIs ==
  ASSUME Faults = {}, NEW f \in File, Plain(f)
  PROVE  ~Of[f].table /\ Len(Of[f].parts) = 1
<1>1. ~Of[f].table
  BY DEF Plain
<1>4. ~(Len(Of[f].parts) > 1)
  BY DEF Plain
<1>2. Of[f].parts \in Seq(File) /\ Of[f].parts # <<>>
  BY FileAccessAssumption
<1>3. Len(Of[f].parts) = 1
  <2>1. \A q \in Seq(File) : q # <<>> => Len(q) \in Nat /\ Len(q) # 0
    OBVIOUS
  <2>2. Len(Of[f].parts) \in Nat /\ Len(Of[f].parts) # 0
    BY <1>2, <2>1, Zenon
  <2> DEFINE l == Len(Of[f].parts)
  <2> HIDE DEF l
  <2>3. l \in Nat /\ l # 0 /\ ~(l > 1)
    BY <1>4, <2>2 DEF l
  <2>4. l = 1
    BY <2>3
  <2> QED
    BY <2>4 DEF l
<1> QED
  BY <1>1, <1>3, Zenon

LEMMA OpenKeeps ==
  ASSUME Faults = {}, Inv, NEW s \in Streams, NEW f \in File, Open(s, f)
  PROVE  Inv' /\ ReadsOwn'
<1> DEFINE h == Handle(f, s)  y == [file |-> f, offset |-> 0, open |-> TRUE, ahead |-> 0]
<1>1. h \in Handles /\ Of[f].at \in Nat /\ s \in Readers /\ s # "copy"
  BY HandleType, StreamsAreApart, FileAccessAssumption
<1>2. /\ Plain(f) /\ Moves(h, s, Of[f].at) /\ copy' = copy /\ last' = Nothing
      /\ stream' = [stream EXCEPT ![s] = y]
  BY DEF Open
<1>3. pos' = [pos EXCEPT ![h] = Of[f].at] /\ owner' = [owner EXCEPT ![h] = s]
  BY <1>2 DEF Moves
<1>4. y \in Attributes /\ Types
  BY DEF Attributes, Inv
<1>8. /\ stream' \in [Streams -> Attributes] /\ stream'[s] = y
      /\ \A t \in Streams \ {s} : stream'[t] = stream[t]
  <2> HIDE DEF y
  <2> QED
    BY <1>2, <1>4, Streamed
<1>9. /\ pos' \in [Handles -> Nat] /\ owner' \in [Handles -> Readers \cup {None}]
      /\ pos'[h] = Of[f].at
  <2> HIDE DEF h
  <2> QED
    BY <1>1, <1>3, <1>4, Moved
<1>5. StreamSound(s)'
  <2>1. ~Of[f].table /\ Len(Of[f].parts) = 1
    BY <1>2, PlainIs
  <2>3. Here(y) = 0 /\ Of[f].at + 0 = Of[f].at
    BY <1>1 DEF Here
  <2>4. At(f, Here(y), pos'[h])
    BY <1>9, <2>3 DEF At
  <2>5. y.file = f /\ y.open /\ ~(y.ahead > 0)
    OBVIOUS
  <2> HIDE DEF y
  <2> QED
    BY <1>8, <2>1, <2>4, <2>5 DEF StreamSound
<1>6. ASSUME NEW t \in Streams, t # s  PROVE StreamSound(t)'
  <2>1. stream'[t] = stream[t] /\ StreamSound(t) /\ Types
    BY <1>6, <1>8 DEF Inv
  <2> HIDE DEF h
  <2> QED
    BY <1>1, <1>3, <1>6, <2>1, OthersMoved
<1>7. CopySound'
  BY <1>1, <1>2, CopyUndisturbed DEF Inv
<1> QED
  BY <1>2, <1>5, <1>6, <1>7, <1>8, <1>9 DEF Inv, Types, ReadsOwn, Nothing

\* Where a reader is that nobody disturbed, and what it takes and expects.
LEMMA PositionedIs ==
  ASSUME Faults = {}, Inv, NEW s \in Streams, NEW n \in Sizes \cup {-1},
         stream[s].open, Positioned(s, n)
  PROVE  LET x == stream[s]
             f == x.file
             h == Handle(f, s)
         IN /\ x \in Attributes /\ f \in File /\ h \in Handles /\ n \in Int
            /\ ~Of[f].table /\ Len(Of[f].parts) = 1
            /\ x.offset \in Nat /\ x.ahead \in Nat /\ pos[h] \in Nat
            /\ owner[h] = s /\ At(f, Here(x), pos[h])
            /\ x.ahead > 0 => Here(x) <= Of[f].len /\ n >= 0 /\ Here(x) + n <= Of[f].len
            /\ Taken(x, n) = Asked(Of[f].len, Here(x), n)
            /\ Expected(x, n)
                 = SubSeq(Whole(f), Here(x) + 1, Here(x) + Asked(Len(Whole(f)), Here(x), n))
<1> DEFINE x == stream[s]  f == x.file  h == Handle(f, s)
<1>1. x \in Attributes /\ f \in File /\ ~Of[f].table /\ Len(Of[f].parts) = 1
  BY DEF Inv, Types, StreamSound
<1>2. h \in Handles /\ n \in Int /\ Of[f].len \in Nat
  BY <1>1, HandleType, FileAccessAssumption
<1>3. x.offset \in Nat /\ x.ahead \in Nat /\ pos[h] \in Nat
  BY <1>1, <1>2 DEF Inv, Types, Attributes
<1>4. /\ owner[h] = s
      /\ ~(x.ahead > 0 /\ (n < 0 \/ Here(x) + n > Of[f].len))
  BY DEF Positioned
<1>5. At(f, Here(x), pos[h]) /\ (x.ahead > 0 => Here(x) <= Of[f].len)
  BY <1>4 DEF Inv, StreamSound
<1>6. Here(x) = x.offset + x.ahead /\ Here(x) \in Nat
  BY <1>3 DEF Here
<1>7. x.ahead > 0 => n >= 0 /\ Here(x) + n <= Of[f].len
  BY <1>2, <1>4, <1>6
<1>8. Taken(x, n) = Asked(Of[f].len, x.offset, n)
  <2>1. Of[f].len - x.offset \in Int
    BY <1>2, <1>3
  <2>2. Max({0, Of[f].len - x.offset}) = Left(Of[f].len, x.offset) /\ Left(Of[f].len, x.offset) \in Int
    BY <2>1, MaxOfTwo DEF Left
  <2> QED
    BY <1>2, <2>2, MinOfTwo DEF Taken, Asked
<1>9. Asked(Of[f].len, x.offset, n) = Asked(Of[f].len, Here(x), n)
  <2>1. CASE x.ahead = 0
    <3>1. Here(x) = x.offset
      BY <1>3, <1>6, <2>1
    <3> QED
      BY <3>1
  <2>2. CASE x.ahead > 0
    <3> DEFINE len == Of[f].len  offset == x.offset  ahead == x.ahead  here == Here(x)
    <3>1. /\ len \in Nat /\ offset \in Nat /\ ahead \in Nat /\ n \in Nat
          /\ here = offset + ahead /\ here + n <= len
      BY <1>2, <1>3, <1>6, <1>7, <2>2
    <3> HIDE DEF len, offset, ahead, here
    <3>2. Asked(len, offset, n) = n /\ Asked(len, here, n) = n
      BY ONLY <3>1 DEF Asked, Left
    <3> QED
      BY <3>2 DEF len, offset, here
  <2> QED
    BY <1>3, <2>1, <2>2
<1>10. Expected(x, n) = SubSeq(Whole(f), Here(x) + 1, Here(x) + Asked(Len(Whole(f)), Here(x), n))
  <2>1. Len(Whole(f)) \in Nat
    <3>1. Whole(f) = Run(Of[f].object, Of[f].at, Some(f, Of[f].at, Of[f].len))
      BY <1>1, WholeIs, RawIs
    <3>2. Of[f].at \in Nat /\ Some(f, Of[f].at, Of[f].len) \in Nat
      <4>1. Some(f, Of[f].at, Of[f].len) \in 0..Of[f].len
        BY <1>1, RawIs
      <4>2. f \in File /\ Of[f].len \in Nat
        BY <1>1, <1>2
      <4> HIDE DEF f
      <4>3. Of[f].at \in Nat
        BY <4>2, FileAccessAssumption
      <4> QED
        BY <4>1, <4>2, <4>3
    <3> HIDE DEF f
    <3> QED
      BY <3>1, <3>2, RunType
  <2>2. Len(Whole(f)) - Here(x) \in Int
    BY <1>6, <2>1
  <2>3. /\ Max({0, Len(Whole(f)) - Here(x)}) = Left(Len(Whole(f)), Here(x))
        /\ Left(Len(Whole(f)), Here(x)) \in Int
    BY <2>2, MaxOfTwo DEF Left
  <2>4. Min({n, Left(Len(Whole(f)), Here(x))})
          = IF n <= Left(Len(Whole(f)), Here(x)) THEN n ELSE Left(Len(Whole(f)), Here(x))
    BY <1>2, <2>3, MinOfTwo
  <2> QED
    BY <2>3, <2>4 DEF Expected, Asked
<1> HIDE DEF x, f, h
<1>11. Taken(x, n) = Asked(Of[f].len, Here(x), n)
  BY <1>8, <1>9
<1> QED
  BY <1>1, <1>2, <1>3, <1>4, <1>5, <1>7, <1>10, <1>11, Zenon DEF x, f, h

LEMMA GiveKeeps ==
  ASSUME Faults = {}, Inv, NEW s \in Streams, NEW n \in Sizes \cup {-1}, NEW forgets \in BOOLEAN,
         stream[s].open, Positioned(s, n), Give(s, n, forgets)
  PROVE  Inv' /\ ReadsOwn'
<1> DEFINE x == stream[s]  f == x.file  h == Handle(f, s)  k == Taken(x, n)
           g == Some(f, pos[h], k)  got == Bytes(f, pos[h], k)
           y == IF forgets THEN [x EXCEPT !.ahead = @ + g] ELSE [x EXCEPT !.offset = @ + k]
<1>1. /\ x \in Attributes /\ f \in File /\ h \in Handles /\ n \in Int
      /\ ~Of[f].table /\ Len(Of[f].parts) = 1
      /\ x.offset \in Nat /\ x.ahead \in Nat /\ pos[h] \in Nat
      /\ owner[h] = s /\ At(f, Here(x), pos[h])
      /\ x.ahead > 0 => Here(x) <= Of[f].len /\ n >= 0 /\ Here(x) + n <= Of[f].len
      /\ k = Asked(Of[f].len, Here(x), n)
      /\ Expected(x, n)
           = SubSeq(Whole(f), Here(x) + 1, Here(x) + Asked(Len(Whole(f)), Here(x), n))
  BY PositionedIs
<1>2. Here(x) = x.offset + x.ahead /\ Here(x) \in Nat /\ Of[f].len \in Nat
  <2>1. f \in File /\ x.offset \in Nat /\ x.ahead \in Nat
    BY <1>1
  <2> HIDE DEF x, f
  <2>2. Of[f].len \in Nat
    BY <2>1, FileAccessAssumption
  <2> QED
    BY ONLY <2>1, <2>2 DEF Here
<1>3. /\ k \in Nat /\ g \in 0..k /\ Len(got) = g
      /\ (got = <<>>) <=> g = 0
      /\ At(f, Here(x) + k, pos[h] + g) /\ At(f, Here(x) + g, pos[h] + g)
      /\ g > 0 => Here(x) + g <= Of[f].len
      /\ Expected(x, n) = got
  <2> DEFINE here == Here(x)  p == pos[h]  a == Asked(Of[f].len, here, n)
  <2>1. /\ f \in File /\ ~Of[f].table /\ Len(Of[f].parts) = 1
        /\ here \in Nat /\ n \in Int /\ p \in Nat /\ At(f, here, p)
    BY <1>1, <1>2
  <2>2. k = a /\ Expected(x, n) = SubSeq(Whole(f), here + 1, here + Asked(Len(Whole(f)), here, n))
    BY <1>1
  <2>3. g = Some(f, p, k) /\ got = Bytes(f, p, k)
    OBVIOUS
  <2> HIDE DEF x, f, h, here, p, k, g, got
  <2>4. /\ a \in Nat /\ Some(f, p, a) \in 0..a /\ Len(Bytes(f, p, a)) = Some(f, p, a)
        /\ (Bytes(f, p, a) = <<>>) <=> Some(f, p, a) = 0
        /\ At(f, here + a, p + Some(f, p, a)) /\ At(f, here + Some(f, p, a), p + Some(f, p, a))
        /\ Some(f, p, a) > 0 => here + Some(f, p, a) <= Of[f].len
        /\ SubSeq(Whole(f), here + 1, here + Asked(Len(Whole(f)), here, n)) = Bytes(f, p, a)
    BY ONLY <2>1, Given
  <2> HIDE DEF a
  <2>5. /\ k \in Nat /\ g \in 0..k /\ Len(got) = g
        /\ (got = <<>>) <=> g = 0
        /\ At(f, here + k, p + g) /\ At(f, here + g, p + g)
        /\ g > 0 => here + g <= Of[f].len
        /\ Expected(x, n) = got
    BY <2>2, <2>3, <2>4, Zenon
  <2> QED
    BY <2>5 DEF here, p
<1>4. /\ IF got = <<>> THEN pos' = pos /\ owner' = owner ELSE Moves(h, s, pos[h] + g)
      /\ last' = [want |-> Expected(x, n), got |-> got]
      /\ stream' = [stream EXCEPT ![s] = y] /\ copy' = copy
  BY <1>3 DEF Give
<1>5. Types /\ s \in Readers /\ s # "copy" /\ pos[h] + g \in Nat
  <2>1. pos[h] + g \in Nat
    <3>1. pos[h] \in Nat /\ k \in Nat /\ g \in 0..k
      BY <1>1, <1>3
    <3> HIDE DEF h, k, g
    <3> QED
      BY ONLY <3>1
  <2> QED
    BY <2>1, StreamsAreApart DEF Inv
<1>6. pos' = [pos EXCEPT ![h] = pos[h] + g] /\ owner' = [owner EXCEPT ![h] = s]
  <2>1. CASE got = <<>>
    <3>1. pos[h] + g = pos[h]
      <4>1. pos[h] \in Nat /\ g = 0
        BY <1>1, <1>3, <2>1
      <4> HIDE DEF h, g
      <4> QED
        BY ONLY <4>1
    <3> HIDE DEF h, g, got
    <3> QED
      BY <1>1, <1>4, <1>5, <2>1, <3>1 DEF Types
  <2>2. CASE got # <<>>
    BY <1>4, <2>2 DEF Moves
  <2> QED
    BY <2>1, <2>2
<1>7. CopySound'
  <2>1. CASE got = <<>>
    <3>1. CopySound
      BY DEF Inv
    <3>2. pos' = pos
      BY <1>4, <2>1
    <3> HIDE DEF h, g, got, y
    <3> QED
      BY <1>4, <1>5, <3>1, <3>2, CopyKept
  <2>2. CASE got # <<>>
    <3>1. CopySound
      BY DEF Inv
    <3>2. Moves(h, s, pos[h] + g)
      BY <1>4, <2>2
    <3> HIDE DEF h, g, got, y
    <3> QED
      BY <1>1, <1>4, <1>5, <3>1, <3>2, CopyUndisturbed
  <2> QED
    BY <2>1, <2>2
<1>8. /\ y \in Attributes /\ y.file = f /\ y.open
      /\ Here(y) = IF forgets THEN Here(x) + g ELSE Here(x) + k
      /\ y.ahead > 0 => Here(y) <= Of[f].len
  <2>1. g \in Nat /\ x.open
    BY <1>3
  <2>2. CASE forgets
    <3>1. y = [x EXCEPT !.ahead = @ + g]
      BY <2>2
    <3> HIDE DEF x, f, g, k, y
    <3>2. y \in Attributes /\ y.file = x.file /\ y.open = x.open
          /\ y.offset = x.offset /\ y.ahead = x.ahead + g
      <4>1. x \in Attributes /\ x.ahead + g \in Nat /\ x.offset + k \in Nat
        BY <1>1, <1>3
      <4> QED
        BY ONLY <3>1, <4>1 DEF Attributes
    <3>3. Here(y) = Here(x) + g
      <4>1. x.offset \in Nat /\ x.ahead \in Nat
        BY <1>1
      <4> QED
        BY ONLY <2>1, <3>2, <4>1 DEF Here
    <3>4. y.ahead > 0 => Here(y) <= Of[f].len
      <4>1. /\ x.ahead > 0 => Here(x) <= Of[f].len
            /\ g > 0 => Here(x) + g <= Of[f].len
        BY <1>1, <1>3
      <4>2. Here(x) \in Nat /\ Of[f].len \in Nat /\ x.ahead \in Nat
        BY <1>1, <1>2
      <4> QED
        BY ONLY <2>1, <3>2, <3>3, <4>1, <4>2
    <3> QED
      BY <2>1, <2>2, <3>2, <3>3, <3>4 DEF f
  <2>3. CASE ~forgets
    <3>1. y = [x EXCEPT !.offset = @ + k]
      BY <2>3
    <3>5. x.ahead > 0 => k <= n
      <4>1. k = Asked(Of[f].len, Here(x), n)
        BY <1>1
      <4> HIDE DEF x, f, k
      <4> QED
        BY <1>1, <1>2, <4>1 DEF Asked, Left
    <3> HIDE DEF x, f, g, k, y
    <3>2. y \in Attributes /\ y.file = x.file /\ y.open = x.open
          /\ y.offset = x.offset + k /\ y.ahead = x.ahead
      <4>1. x \in Attributes /\ x.ahead + g \in Nat /\ x.offset + k \in Nat
        BY <1>1, <1>3
      <4> QED
        BY ONLY <3>1, <4>1 DEF Attributes
    <3>3. Here(y) = Here(x) + k
      <4>1. x.offset \in Nat /\ x.ahead \in Nat /\ k \in Nat
        BY <1>1, <1>3
      <4> QED
        BY ONLY <3>2, <4>1 DEF Here
    <3>4. y.ahead > 0 => Here(y) <= Of[f].len
      <4>1. x.ahead > 0 => Here(x) + n <= Of[f].len
        BY <1>1
      <4>2. Here(x) \in Nat /\ Of[f].len \in Nat /\ k \in Nat /\ n \in Int
        BY <1>1, <1>2, <1>3
      <4> QED
        BY ONLY <3>2, <3>3, <3>5, <4>1, <4>2
    <3> QED
      BY <2>1, <2>3, <3>2, <3>3, <3>4 DEF f
  <2> QED
    BY <2>2, <2>3
<1>9. /\ stream' \in [Streams -> Attributes] /\ stream'[s] = y
      /\ \A t \in Streams \ {s} : stream'[t] = stream[t]
  <2> HIDE DEF y
  <2> QED
    BY <1>4, <1>5, <1>8, Streamed
<1>10. /\ pos' \in [Handles -> Nat] /\ owner' \in [Handles -> Readers \cup {None}]
       /\ pos'[h] = pos[h] + g
  <2> HIDE DEF h, g
  <2> QED
    BY <1>1, <1>5, <1>6, Moved
<1>11. StreamSound(s)'
  <2>1. At(f, Here(y), pos'[h])
    <3> HIDE DEF x, f, h, g, k, y
    <3> QED
      BY <1>3, <1>8, <1>10
  <2> HIDE DEF f, y
  <2> QED
    BY <1>1, <1>8, <1>9, <2>1 DEF StreamSound
<1>12. ASSUME NEW t \in Streams, t # s  PROVE StreamSound(t)'
  <2>1. stream'[t] = stream[t] /\ StreamSound(t)
    BY <1>9, <1>12 DEF Inv
  <2> HIDE DEF h, g
  <2> QED
    BY <1>1, <1>5, <1>6, <1>12, <2>1, OthersMoved
<1>13. ReadsOwn'
  BY <1>3, <1>4 DEF ReadsOwn
<1> QED
  BY <1>7, <1>9, <1>10, <1>11, <1>12, <1>13 DEF Inv, Types

LEMMA SeekKeeps ==
  ASSUME Faults = {}, Inv, NEW s \in Streams, NEW offset \in Offsets, NEW whence \in 0..2,
         Seek(s, offset, whence)
  PROVE  Inv' /\ ReadsOwn'
<1> DEFINE x == stream[s]  f == x.file  h == Handle(f, s)  to == Target(x, offset, whence)
           there == IF to < Of[f].len THEN Of[f].at + to ELSE pos[h]
           y == [x EXCEPT !.offset = to, !.ahead = IF whence = 1 THEN @ ELSE 0]
<1>1. x.open /\ to \in 0..MaxOffset /\ (whence = 1 => ~(x.ahead > 0))
  BY DEF Seek
<1>2. /\ IF to < Of[f].len THEN Moves(h, s, Of[f].at + to)
         ELSE pos' = pos /\ owner' = [owner EXCEPT ![h] = s]
      /\ stream' = [stream EXCEPT ![s].offset = to, ![s].ahead = IF whence = 1 THEN @ ELSE 0]
      /\ last' = Nothing /\ copy' = copy
  BY DEF Seek, MovesTo
<1>3. Types /\ CopySound /\ StreamSound(s)
  BY DEF Inv
<1>4. x \in Attributes /\ f \in File /\ ~Of[f].table /\ Len(Of[f].parts) = 1
  BY <1>1, <1>3 DEF Types, StreamSound
<1>5. /\ h \in Handles /\ Of[f].at \in Nat /\ Of[f].len \in Nat
      /\ to \in Nat /\ s \in Readers /\ s # "copy"
  BY <1>1, <1>4, HandleType, StreamsAreApart, FileAccessAssumption
<1>6. pos[h] \in Nat /\ there \in Nat
  BY <1>3, <1>5 DEF Types
<1>7. y \in Attributes /\ y.file = f /\ y.open /\ y.offset = to /\ y.ahead = 0
  <2> HIDE DEF x, to
  <2>1. x.ahead \in Nat
    BY <1>4 DEF Attributes
  <2>2. whence = 1 => x.ahead = 0
    BY <1>1, <2>1
  <2>3. y = [x EXCEPT !.offset = to, !.ahead = 0]
    BY <2>2
  <2> HIDE DEF y
  <2>4. y \in Attributes /\ y.file = x.file /\ y.open = x.open /\ y.offset = to /\ y.ahead = 0
    BY ONLY <1>4, <1>5, <2>3 DEF Attributes
  <2> QED
    BY <1>1, <2>4
<1>8. stream' = [stream EXCEPT ![s] = y]
  <2>1. stream \in [Streams -> Attributes]
    BY <1>3 DEF Types
  <2> HIDE DEF to
  <2> QED
    BY <1>2, <2>1
<1>9. pos' = [pos EXCEPT ![h] = there] /\ owner' = [owner EXCEPT ![h] = s]
  <2>1. CASE to < Of[f].len
    BY <1>2, <2>1 DEF Moves
  <2>2. CASE ~(to < Of[f].len)
    <3>1. there = pos[h] /\ pos' = pos
      BY <1>2, <2>2
    <3> HIDE DEF h, there
    <3> QED
      BY <1>2, <1>3, <1>5, <2>2, <3>1 DEF Types
  <2> QED
    BY <2>1, <2>2
<1>10. CopySound'
  <2>1. CASE to < Of[f].len
    <3>1. Moves(h, s, Of[f].at + to)
      BY <1>2, <2>1
    <3> HIDE DEF h, to
    <3> QED
      BY <1>2, <1>3, <1>5, <3>1, CopyUndisturbed
  <2>2. CASE ~(to < Of[f].len)
    <3>1. pos' = pos
      BY <1>2, <2>2
    <3> HIDE DEF h, to
    <3> QED
      BY <1>2, <1>3, <3>1, CopyKept
  <2> QED
    BY <2>1, <2>2
<1>11. /\ stream' \in [Streams -> Attributes] /\ stream'[s] = y
       /\ \A t \in Streams \ {s} : stream'[t] = stream[t]
  <2> HIDE DEF y
  <2> QED
    BY <1>3, <1>7, <1>8, Streamed
<1>12. /\ pos' \in [Handles -> Nat] /\ owner' \in [Handles -> Readers \cup {None}]
       /\ pos'[h] = there
  <2> HIDE DEF h, there
  <2> QED
    BY <1>3, <1>5, <1>6, <1>9, Moved
<1>13. StreamSound(s)'
  <2>1. Here(y) = to
    <3> HIDE DEF y, to
    <3> QED
      BY <1>5, <1>7 DEF Here
  <2>2. At(f, Here(y), pos'[h])
    BY <1>12, <2>1 DEF At
  <2>3. ~(y.ahead > 0)
    BY <1>7
  <2> HIDE DEF f, y
  <2> QED
    BY <1>4, <1>7, <1>11, <2>2, <2>3 DEF StreamSound
<1>14. ASSUME NEW t \in Streams, t # s  PROVE StreamSound(t)'
  <2>1. stream'[t] = stream[t] /\ StreamSound(t)
    BY <1>11, <1>14 DEF Inv
  <2> HIDE DEF h, there
  <2> QED
    BY <1>3, <1>5, <1>9, <1>14, <2>1, OthersMoved
<1> QED
  BY <1>2, <1>10, <1>11, <1>12, <1>13, <1>14 DEF Inv, Types, ReadsOwn, Nothing

LEMMA CloseKeeps ==
  ASSUME Inv, NEW s \in Streams, Close(s)
  PROVE  Inv' /\ ReadsOwn'
<1>1. /\ stream' = [stream EXCEPT ![s] = Closed] /\ pos' = [pos EXCEPT ![s] = 0]
      /\ owner' = [h \in Handles |-> IF owner[h] = s THEN None ELSE owner[h]]
      /\ last' = Nothing /\ copy' = copy
  BY DEF Close
<1>2. Types /\ CopySound /\ s \in Handles
  BY StreamsAreApart DEF Inv
<1>3. Types'
  <2>1. pos' \in [Handles -> Nat] /\ owner' \in [Handles -> Readers \cup {None}]
    BY <1>1, <1>2 DEF Types
  <2>2. Closed \in Attributes
    BY DEF Closed, Attributes
  <2>3. stream' \in [Streams -> Attributes]
    BY <1>1, <1>2, <2>2, Streamed
  <2> QED
    BY <2>1, <2>3 DEF Types
<1>4. StreamSound(s)'
  <2>1. stream'[s] = Closed
    BY <1>1, <1>2 DEF Types
  <2> QED
    BY <2>1 DEF StreamSound, Closed
<1>5. ASSUME NEW t \in Streams, t # s  PROVE StreamSound(t)'
  <2>1. StreamSound(t) /\ stream'[t] = stream[t]
    BY <1>1, <1>2, <1>5 DEF Inv, Types
  <2>2. ASSUME NEW h \in Handles, owner'[h] = t, stream[t].file \in File,
               Handle(stream[t].file, t) = h
        PROVE  owner[h] = t /\ pos'[h] = pos[h]
    <3>1. h # s
      BY <1>5, <2>2, HandleType
    <3>2. t # None
      BY StreamsAreApart
    <3> QED
      BY <1>1, <1>2, <2>2, <3>1, <3>2 DEF Types
  <2> QED
    BY <1>2, <2>1, <2>2, StreamKept
<1>6. CopySound'
  <2>1. ASSUME copy.file \in File
        PROVE  pos'[Handle(copy.file, "copy")] = pos[Handle(copy.file, "copy")]
    <3>1. Handle(copy.file, "copy") \in Handles /\ Handle(copy.file, "copy") # s
      BY <2>1, HandleType, StreamsAreApart
    <3> QED
      BY <1>1, <1>2, <3>1 DEF Types
  <2> QED
    BY <1>1, <1>2, <2>1, CopyKept
<1> QED
  BY <1>1, <1>3, <1>4, <1>5, <1>6 DEF Inv, ReadsOwn, Nothing

-----------------------------------------------------------------------------
(* get_file_from_iso.                                                       *)

LEMMA GetKeeps ==
  ASSUME Faults = {}, Inv, NEW h \in Handles, NEW to \in Nat,
         (pos' = pos /\ owner' = owner) \/ Moves(h, "get", to),
         stream' = stream, copy' = copy
  PROVE  Inv'
<1>1. Types /\ CopySound /\ \A t \in Streams : StreamSound(t)
  BY DEF Inv
<1>2. CASE pos' = pos /\ owner' = owner
  <2>1. Types'
    BY <1>1, <1>2 DEF Types
  <2>2. ASSUME NEW t \in Streams  PROVE StreamSound(t)'
    BY <1>1, <1>2, StreamKept
  <2>3. CopySound'
    BY <1>1, <1>2, CopyKept
  <2> QED
    BY <2>1, <2>2, <2>3 DEF Inv
<1>3. CASE Moves(h, "get", to)
  <2>1. pos' = [pos EXCEPT ![h] = to] /\ owner' = [owner EXCEPT ![h] = "get"]
    BY <1>3 DEF Moves
  <2>2. "get" \in Readers \cup {None} /\ \A t \in Streams : t # "get"
    BY StreamsAreApart
  <2>3. Types'
    <3>1. pos' \in [Handles -> Nat] /\ owner' \in [Handles -> Readers \cup {None}]
      BY <1>1, <2>1, <2>2, Moved
    <3> QED
      BY <1>1, <3>1 DEF Types
  <2>4. ASSUME NEW t \in Streams  PROVE StreamSound(t)'
    BY <1>1, <2>1, <2>2, OthersMoved
  <2>5. CopySound'
    <3>1. "get" # "copy"
      OBVIOUS
    <3> QED
      BY <1>1, <1>3, <3>1, CopyUndisturbed
  <2> QED
    BY <2>3, <2>4, <2>5 DEF Inv
<1> QED
  BY <1>2, <1>3

\* The record that a file ends with.
LEMMA EndIs ==
  ASSUME NEW f \in File
  PROVE  /\ Of[f].parts \in Seq(File) /\ Last(Of[f].parts) \in File
         /\ Of[Last(Of[f].parts)].object \in Handles
<1>1. Of[f].parts \in Seq(File) /\ Of[f].parts # <<>>
  BY FileAccessAssumption
<1>2. \A q \in Seq(File) : q # <<>> => q[Len(q)] \in File
  OBVIOUS
<1>3. Last(Of[f].parts) \in File
  BY <1>1, <1>2 DEF Last
<1> QED
  BY <1>1, <1>3 DEF Handles, Objects

LEMMA GetFileKeeps ==
  ASSUME Faults = {}, Inv, NEW f \in File, GetFile(f)
  PROVE  Inv' /\ ReadsOwn'
<1> DEFINE end == Of[Last(Of[f].parts)]
           to == Min({end.at + end.len, Max({end.at, Size[end.object]})})
<1>1. Of[f].parts \in Seq(File) /\ end.object \in Handles
  BY EndIs
<1>2. to \in Nat
  <2>1. end.at \in Nat /\ end.len \in Nat /\ Size[end.object] \in Nat
    BY EndIs, FileAccessAssumption
  <2> HIDE DEF end
  <2>2. Max({end.at, Size[end.object]}) = IF end.at >= Size[end.object] THEN end.at ELSE Size[end.object]
    BY <2>1, MaxOfTwo
  <2>3. Max({end.at, Size[end.object]}) \in Nat /\ end.at + end.len \in Nat
    BY <2>1, <2>2
  <2> DEFINE u == end.at + end.len  v == Max({end.at, Size[end.object]})
  <2>4. u \in Nat /\ v \in Nat
    BY <2>3
  <2> HIDE DEF u, v
  <2>5. Min({u, v}) = IF u <= v THEN u ELSE v
    BY <2>4, MinOfTwo
  <2>6. Min({u, v}) \in Nat
    BY <2>4, <2>5
  <2> QED
    BY <2>6 DEF u, v
<1>3. /\ (pos' = pos /\ owner' = owner) \/ Moves(end.object, "get", to)
      /\ stream' = stream /\ copy' = copy
      /\ last' = [want |-> Whole(f),
                  got |-> FlattenSeq([i \in 1..Len(Of[f].parts) |-> CopyPart(Of[f].parts[i])])]
  BY DEF GetFile
<1>4. Inv'
  <2> HIDE DEF end, to
  <2> QED
    BY <1>1, <1>2, <1>3, GetKeeps
<1>5. [i \in 1..Len(Of[f].parts) |-> CopyPart(Of[f].parts[i])]
        = [i \in 1..Len(Of[f].parts) |-> OnImage(Of[f].parts[i])]
  <2>1. \A i \in 1..Len(Of[f].parts) : Of[f].parts[i] \in File
    BY <1>1
  <2>2. \A i \in 1..Len(Of[f].parts) : CopyPart(Of[f].parts[i]) = OnImage(Of[f].parts[i])
    BY <2>1, CopyPartIs
  <2> QED
    BY <2>2
<1>6. ReadsOwn'
  BY <1>3, <1>5 DEF ReadsOwn, Whole
<1> QED
  BY <1>4, <1>6

LEMMA GetUdfFileKeeps ==
  ASSUME Faults = {}, Inv, NEW f \in File, GetUdfFile(f)
  PROVE  Inv' /\ ReadsOwn'
<1> DEFINE end == Last(Of[f].parts)  to == Of[end].at + Len(Raw(end))
<1>1. end \in File /\ Of[end].object \in Handles
  BY EndIs
<1>2. to \in Nat
  <2>1. Some(end, Of[end].at, Of[end].len) \in Nat /\ Of[end].at \in Nat
    <3>1. Some(end, Of[end].at, Of[end].len) \in 0..Of[end].len /\ Of[end].len \in Nat
      BY <1>1, RawIs, FileAccessAssumption
    <3> QED
      BY <1>1, <3>1, FileAccessAssumption
  <2>2. Raw(end) = Run(Of[end].object, Of[end].at, Some(end, Of[end].at, Of[end].len))
    BY <1>1, RawIs
  <2> HIDE DEF end
  <2>3. Len(Raw(end)) \in Nat
    BY <2>1, <2>2, RunType
  <2> QED
    BY <2>1, <2>3
<1>3. /\ (pos' = pos /\ owner' = owner) \/ Moves(Of[end].object, "get", to)
      /\ stream' = stream /\ copy' = copy
      /\ last' = [want |-> Whole(f), got |-> Raw(end)]
  BY DEF GetUdfFile
<1>4. Inv'
  <2> HIDE DEF end, to
  <2> QED
    BY <1>1, <1>2, <1>3, GetKeeps
<1>5. Whole(f) = Raw(f) /\ end = f
  <2>1. Plain(f)
    BY DEF GetUdfFile
  <2>2. ~Of[f].table /\ Len(Of[f].parts) = 1
    BY <2>1, PlainIs
  <2> QED
    BY <2>2, WholeIs, FileAccessAssumption DEF Last
<1>6. ReadsOwn'
  BY <1>3, <1>5 DEF ReadsOwn
<1> QED
  BY <1>4, <1>6

-----------------------------------------------------------------------------
(* The copying.                                                             *)

LEMMA StartCopyKeeps ==
  ASSUME Inv, NEW f \in File, StartCopy(f)
  PROVE  Inv' /\ ReadsOwn'
<1> DEFINE h == Handle(f, "copy")  at == Of[f].at  len == Of[f].len
<1>1. /\ h \in Handles /\ at \in Nat /\ len \in Nat
      /\ "copy" \in Readers \cup {None} /\ \A t \in Streams : t # "copy"
  BY HandleType, StreamsAreApart, FileAccessAssumption
<1>2. /\ copy' = [file |-> f, left |-> len, out |-> <<>>]
      /\ pos' = [pos EXCEPT ![h] = at] /\ owner' = [owner EXCEPT ![h] = "copy"]
      /\ last' = Nothing /\ stream' = stream
  BY DEF StartCopy
<1>3. Types /\ \A t \in Streams : StreamSound(t)
  BY DEF Inv
<1>4. /\ pos' \in [Handles -> Nat] /\ owner' \in [Handles -> Readers \cup {None}]
      /\ pos'[h] = at
  <2> HIDE DEF h, at
  <2> QED
    BY <1>1, <1>2, <1>3, Moved
<1>5. Types'
  BY <1>2, <1>3, <1>4 DEF Types
<1>6. ASSUME NEW t \in Streams  PROVE StreamSound(t)'
  <2> HIDE DEF h, at
  <2> QED
    BY <1>1, <1>2, <1>3, OthersMoved
<1>7. CopySound'
  <2>1. Some(f, at, 0) = 0 /\ Bytes(f, at, 0) = <<>>
    <3>1. Some(f, at, 0) \in 0..0
      BY <1>1, SomeType
    <3>2. Some(f, at, 0) = 0
      BY <3>1
    <3>3. Bytes(f, at, 0) = Run(Of[f].object, at, 0)
      BY <1>1, <3>2, BytesAre
    <3> QED
      BY <3>2, <3>3 DEF Run
  <2>2. len - len = 0 /\ len \in 0..len /\ at + 0 = at
    BY <1>1
  <2>3. pos'[Handle(f, "copy")] = at + (len - len)
    BY <1>4, <2>2
  <2> HIDE DEF at, len
  <2>4. /\ copy' = [file |-> f, left |-> len, out |-> Bytes(f, at, len - len)]
        /\ pos'[Handle(f, "copy")] = at + (len - len)
        /\ Some(f, at, len - len) = len - len
    BY <1>2, <2>1, <2>2, <2>3
  <2>5. \E left \in 0..len :
          LET done == len - left
          IN /\ copy' = [file |-> f, left |-> left, out |-> Bytes(f, at, done)]
             /\ left > 0 => pos'[Handle(f, "copy")] = at + done /\ Some(f, at, done) = done
    BY <2>2, <2>4
  <2> QED
    BY <2>5 DEF CopySound, at, len
<1> QED
  BY <1>2, <1>5, <1>6, <1>7 DEF Inv, ReadsOwn, Nothing

LEMMA EndCopyKeeps ==
  ASSUME Inv, EndCopy
  PROVE  Inv' /\ ReadsOwn'
<1>1. /\ copy # None /\ copy.left = 0
      /\ last' = [want |-> OnImage(copy.file), got |-> Patched(copy.file, copy.out)]
      /\ copy' = None /\ pos' = [pos EXCEPT !["copy"] = 0]
      /\ owner' = [h \in Handles |-> IF owner[h] = "copy" THEN None ELSE owner[h]]
      /\ stream' = stream
  BY DEF EndCopy
<1>2. Types /\ CopySound /\ \A t \in Streams : StreamSound(t)
  BY DEF Inv
<1>10. PICK f \in File : \E left \in 0..Of[f].len :
        copy = [file |-> f, left |-> left, out |-> Bytes(f, Of[f].at, Of[f].len - left)]
  BY <1>1, <1>2 DEF CopySound
<1>3. PICK left \in 0..Of[f].len :
        copy = [file |-> f, left |-> left, out |-> Bytes(f, Of[f].at, Of[f].len - left)]
  BY <1>10
<1>4. Of[f].len - left = Of[f].len
  <2>1. left = 0 /\ Of[f].len \in Nat
    BY <1>1, <1>3, FileAccessAssumption
  <2> QED
    BY <2>1
<1>5. copy.out = Raw(f) /\ copy.file = f
  BY <1>3, <1>4 DEF Raw
<1>6. ReadsOwn'
  BY <1>1, <1>5 DEF ReadsOwn, OnImage
<1>7. Types'
  BY <1>1, <1>2, StreamsAreApart DEF Types
<1>8. CopySound'
  BY <1>1 DEF CopySound
<1>9. ASSUME NEW t \in Streams  PROVE StreamSound(t)'
  <2>1. ASSUME NEW h \in Handles, owner'[h] = t, stream[t].file \in File,
               Handle(stream[t].file, t) = h
        PROVE  owner[h] = t /\ pos'[h] = pos[h]
    <3>1. t # None /\ t # "copy"
      BY StreamsAreApart
    <3>2. h # "copy"
      BY <2>1, <3>1, HandleType
    <3> QED
      BY <1>1, <1>2, <2>1, <3>1, <3>2 DEF Types
  <2> QED
    BY <1>1, <1>2, <2>1, StreamKept
<1> QED
  BY <1>6, <1>7, <1>8, <1>9 DEF Inv

LEMMA CopyBlockKeeps ==
  ASSUME Faults = {}, Inv, NEW n \in Sizes, CopyBlock(n)
  PROVE  Inv' /\ ReadsOwn'
<1>1. Types /\ CopySound /\ (\A t \in Streams : StreamSound(t)) /\ copy # None /\ copy.left > 0
  BY DEF Inv, CopyBlock
<1>2. PICK f \in File : \E left \in 0..Of[f].len :
        LET done == Of[f].len - left
        IN /\ copy = [file |-> f, left |-> left, out |-> Bytes(f, Of[f].at, done)]
           /\ left > 0 => /\ pos[Handle(f, "copy")] = Of[f].at + done
                          /\ Some(f, Of[f].at, done) = done
  BY <1>1 DEF CopySound
<1>3. PICK left \in 0..Of[f].len :
        LET done == Of[f].len - left
        IN /\ copy = [file |-> f, left |-> left, out |-> Bytes(f, Of[f].at, done)]
           /\ left > 0 => /\ pos[Handle(f, "copy")] = Of[f].at + done
                          /\ Some(f, Of[f].at, done) = done
  BY <1>2
<1> DEFINE h == Handle(f, "copy")  at == Of[f].at  len == Of[f].len  done == len - left
           size == IF n <= left THEN n ELSE left
           g == Some(f, at + done, size)
           rest == IF g = size THEN left - size ELSE 0
           out == Bytes(f, at, done) \o Bytes(f, at + done, size)
<1>4. /\ copy = [file |-> f, left |-> left, out |-> Bytes(f, at, done)]
      /\ left > 0 /\ pos[h] = at + done /\ Some(f, at, done) = done
  BY <1>1, <1>3
<1>5. /\ at \in Nat /\ len \in Nat /\ n \in Nat /\ left \in Nat /\ done \in Nat
      /\ size \in Nat /\ size <= left /\ at + done \in Nat /\ done + size \in Nat
  <2>1. at \in Nat /\ len \in Nat /\ n \in Nat /\ left \in 0..len
    BY FileAccessAssumption
  <2> HIDE DEF at, len
  <2> QED
    BY <2>1
<1>6. g \in 0..size /\ Len(Bytes(f, at + done, size)) = g
  <2> HIDE DEF at, done, size
  <2>1. g \in 0..size
    BY <1>5, SomeType
  <2>2. Bytes(f, at + done, size) = Run(Of[f].object, at + done, g)
    BY <1>5, BytesAre
  <2>3. g \in Nat
    BY <1>5, <2>1
  <2> HIDE DEF g
  <2>4. Len(Run(Of[f].object, at + done, g)) = g
    BY <1>5, <2>3, RunType
  <2> QED
    BY <2>1, <2>2, <2>4, Zenon
<1>7. Min({n, left}) = size
  BY <1>5, MinOfTwo
<1>8. /\ Moves(h, "copy", at + done + g)
      /\ copy' = [file |-> f, left |-> rest, out |-> out]
      /\ last' = Nothing /\ stream' = stream
  <2>1. copy.file = f /\ copy.left = left /\ copy.out = Bytes(f, at, done)
    BY <1>4
  <2>2. Bytes(copy.file, pos[Handle(copy.file, "copy")], Min({n, copy.left}))
          = Bytes(f, at + done, size)
    BY <1>4, <1>7, <2>1, Zenon
  <2>3. /\ Moves(h, "copy", pos[h] + Len(Bytes(f, at + done, size)))
        /\ copy' = [copy EXCEPT !.left = IF Len(Bytes(f, at + done, size)) = size
                                         THEN left - size ELSE 0,
                                !.out = @ \o Bytes(f, at + done, size)]
        /\ last' = Nothing /\ stream' = stream
    BY <1>7, <2>1, <2>2, Zenon DEF CopyBlock, h
  <2>4. copy' = [file |-> f, left |-> rest, out |-> out]
    <3> HIDE DEF g, size, at, done
    <3> QED
      BY <1>4, <1>6, <2>3
  <2> QED
    BY <1>4, <1>6, <2>3, <2>4, Zenon
<1>9. out = Bytes(f, at, done + size)
  <2> HIDE DEF at, done, size
  <2>1. /\ at \in Nat /\ done \in Nat /\ size \in Nat /\ f \in File
        /\ Some(f, at, done) = done
    BY <1>4, <1>5
  <2> QED
    BY ONLY <2>1, BytesFollow
<1>10. h \in Handles /\ "copy" \in Readers \cup {None} /\ \A t \in Streams : t # "copy"
  BY HandleType, StreamsAreApart
<1>11. pos' = [pos EXCEPT ![h] = at + done + g] /\ owner' = [owner EXCEPT ![h] = "copy"]
  BY <1>8 DEF Moves
<1>12. /\ pos' \in [Handles -> Nat] /\ owner' \in [Handles -> Readers \cup {None}]
       /\ pos'[h] = at + done + g
  <2>1. at + done + g \in Nat
    BY <1>5, <1>6
  <2> HIDE DEF h, at, done, g
  <2> QED
    BY <1>1, <1>10, <1>11, <2>1, Moved
<1>13. Types'
  BY <1>1, <1>8, <1>12 DEF Types
<1>14. ASSUME NEW t \in Streams  PROVE StreamSound(t)'
  <2>1. at + done + g \in Nat
    BY <1>5, <1>6
  <2> HIDE DEF h, at, done, g
  <2> QED
    BY <1>1, <1>8, <1>10, <1>11, <2>1, OthersMoved
<1>15. /\ rest \in 0..len /\ out = Bytes(f, at, len - rest)
       /\ rest > 0 => pos'[h] = at + (len - rest) /\ Some(f, at, len - rest) = len - rest
  <2> DEFINE z == Size[Of[f].object]
  <2>1. z \in Nat
    BY FileAccessAssumption
  <2>2. /\ Some(f, at, done)
             = IF done <= z - at THEN done ELSE IF z - at >= 0 THEN z - at ELSE 0
        /\ Some(f, at, len) = IF len <= z - at THEN len ELSE IF z - at >= 0 THEN z - at ELSE 0
        /\ Some(f, at, done + size)
             = IF done + size <= z - at THEN done + size ELSE IF z - at >= 0 THEN z - at ELSE 0
        /\ g = IF size <= z - (at + done) THEN size
               ELSE IF z - (at + done) >= 0 THEN z - (at + done) ELSE 0
    <3> HIDE DEF at, len, done, size
    <3> QED
      BY <1>5, SomeIs
  <2>3. done = len - left
    OBVIOUS
  <2>4. left <= len
    BY <1>5
  <2> HIDE DEF z, g, done, size
  <2>5. CASE g = size
    <3>1. rest = left - size /\ len - rest = done + size
      BY <1>5, <2>3, <2>5
    <3>2. Some(f, at, done + size) = done + size
      BY <1>4, <1>5, <2>1, <2>2, <2>5
    <3>3. rest \in 0..len /\ at + done + g = at + (done + size)
      BY <1>5, <2>4, <2>5, <3>1
    <3> HIDE DEF rest, out, h, at, len
    <3> QED
      BY <1>9, <1>12, <3>1, <3>2, <3>3, Zenon
  <2>6. CASE g # size
    <3>1. rest = 0 /\ len - rest = len /\ 0 \in 0..len /\ ~(0 > 0)
      BY <1>5, <2>6
    <3>2. Some(f, at, done + size) = Some(f, at, len)
      BY <1>4, <1>5, <2>1, <2>2, <2>3, <2>6
    <3>3. Bytes(f, at, done + size) = Bytes(f, at, len)
      <4>1. /\ Bytes(f, at, done + size) = Run(Of[f].object, at, Some(f, at, done + size))
            /\ Bytes(f, at, len) = Run(Of[f].object, at, Some(f, at, len))
        BY <1>5, BytesAre
      <4> QED
        BY <3>2, <4>1
    <3> HIDE DEF rest, out, h, at, len
    <3> QED
      BY <1>9, <3>1, <3>3, Zenon
  <2> QED
    BY <2>5, <2>6
<1>16. CopySound'
  <2>1. \E l \in 0..len :
          LET d == len - l
          IN /\ copy' = [file |-> f, left |-> l, out |-> Bytes(f, at, d)]
             /\ l > 0 => pos'[h] = at + d /\ Some(f, at, d) = d
    <3> HIDE DEF rest, out, h, at, len
    <3> QED
      BY <1>8, <1>15
  <2> QED
    BY <2>1 DEF CopySound
<1> QED
  BY <1>8, <1>13, <1>14, <1>16 DEF Inv, ReadsOwn, Nothing

-----------------------------------------------------------------------------
(* The specification.                                                       *)

LEMMA InitKeeps ==
  ASSUME Init
  PROVE  Inv /\ ReadsOwn
<1>1. Types
  BY DEF Init, Types, Attributes, Closed
<1>2. ASSUME NEW s \in Streams  PROVE StreamSound(s)
  <2>1. stream[s] = Closed
    BY DEF Init
  <2> QED
    BY <2>1 DEF StreamSound, Closed
<1>3. CopySound /\ ReadsOwn
  BY DEF Init, CopySound, ReadsOwn, Nothing
<1> QED
  BY <1>1, <1>2, <1>3 DEF Inv

LEMMA NextKeeps ==
  ASSUME Faults = {}, Inv, Next
  PROVE  Inv' /\ ReadsOwn'
<1>1. ASSUME NEW s \in Streams, NEW f \in File, Open(s, f)  PROVE Inv' /\ ReadsOwn'
  BY <1>1, OpenKeeps
<1>2. ASSUME NEW s \in Streams, NEW n \in Sizes \cup {-1}, Read(s, n)  PROVE Inv' /\ ReadsOwn'
  BY <1>2, GiveKeeps DEF Read
<1>3. ASSUME NEW s \in Streams, NEW n \in Sizes, ReadInto(s, n)  PROVE Inv' /\ ReadsOwn'
  BY <1>3, GiveKeeps DEF ReadInto
<1>4. ASSUME NEW s \in Streams, NEW offset \in Offsets, NEW whence \in 0..2,
             Seek(s, offset, whence)
      PROVE  Inv' /\ ReadsOwn'
  BY <1>4, SeekKeeps
<1>5. ASSUME NEW s \in Streams, Close(s)  PROVE Inv' /\ ReadsOwn'
  BY <1>5, CloseKeeps
<1>6. ASSUME NEW f \in File, GetFile(f)  PROVE Inv' /\ ReadsOwn'
  BY <1>6, GetFileKeeps
<1>7. ASSUME NEW f \in File, GetUdfFile(f)  PROVE Inv' /\ ReadsOwn'
  BY <1>7, GetUdfFileKeeps
<1>8. ASSUME NEW f \in File, StartCopy(f)  PROVE Inv' /\ ReadsOwn'
  BY <1>8, StartCopyKeeps
<1>9. ASSUME NEW n \in Sizes, CopyBlock(n)  PROVE Inv' /\ ReadsOwn'
  BY <1>9, CopyBlockKeeps
<1>10. CASE EndCopy
  BY <1>10, EndCopyKeeps
<1> QED
  BY <1>1, <1>2, <1>3, <1>4, <1>5, <1>6, <1>7, <1>8, <1>9, <1>10 DEF Next

\* A client that keeps off the circumstances is given its own bytes by every
\* read, whatever files and streams there are and however its calls mix with
\* the copying of write_fp: streams (PyCdlibIO), get_file_from_iso and the
\* image that is written.
THEOREM ReadsOwnBytes ==
  ASSUME Faults = {}
  PROVE  Spec => []ReadsOwn
<1>1. Init => Inv /\ ReadsOwn
  BY InitKeeps
<1>2. (Inv /\ ReadsOwn) /\ [Next]_vars => (Inv /\ ReadsOwn)'
  <2> SUFFICES ASSUME Inv, ReadsOwn, [Next]_vars  PROVE Inv' /\ ReadsOwn'
    OBVIOUS
  <2>1. CASE Next
    BY <2>1, NextKeeps
  <2>2. CASE UNCHANGED vars
    <3>1. pos' = pos /\ owner' = owner /\ stream' = stream /\ copy' = copy /\ last' = last
      BY <2>2 DEF vars
    <3>2. Types' /\ CopySound'
      BY <3>1 DEF Inv, Types, CopySound
    <3>3. ASSUME NEW s \in Streams  PROVE StreamSound(s)'
      BY <3>1 DEF Inv, StreamSound
    <3> QED
      BY <3>1, <3>2, <3>3 DEF Inv, ReadsOwn
  <2> QED
    BY <2>1, <2>2
<1> QED
  BY <1>1, <1>2, PTL DEF Spec
=============================================================================
