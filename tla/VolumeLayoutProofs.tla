------------------------- MODULE VolumeLayoutProofs -------------------------
(***************************************************************************)
(* What is written of a volume that is laid out, block by block; that the  *)
(* file opens, and that what is read of it is the same volume again; that  *)
(* modify_file_in_place renews one file and nothing else.  Last the        *)
(* invariant, and the theorems: for every number of files, every set of    *)
(* lengths, of ways to make a volume, of circumstances, of images of other *)
(* tools, and every bound on the calls.                                    *)
(***************************************************************************)
EXTENDS VolumeLayoutPlaces

-----------------------------------------------------------------------------
(* What is written, and where: sequences of puts to different blocks.       *)

Ran(s) == {s[i] : i \in 1..Len(s)}
\* A sequence of puts to different blocks of A, P all together.
PutsIn(s, P, A) ==
  /\ s \in Seq(P) /\ P = Ran(s)
  /\ \A p \in P : p.at \in A
  /\ \A i, j \in 1..Len(s) : s[i].at = s[j].at => i = j

LEMMA NoPuts == PutsIn(<<>>, {}, {})
BY DEF PutsIn, Ran

LEMMA OnePut ==
  ASSUME NEW p, NEW A, p.at \in A
  PROVE  PutsIn(<<p>>, {p}, A)
<1>1. Len(<<p>>) = 1 /\ (<<p>>)[1] = p /\ <<p>> \in Seq({p})
  OBVIOUS
<1> DEFINE s == <<p>>
<1> HIDE DEF s
<1>2. Len(s) = 1 /\ s[1] = p /\ s \in Seq({p})
  BY <1>1 DEF s
<1>3. Ran(s) = {p}
  BY <1>2 DEF Ran
<1>4. \A i, j \in 1..Len(s) : s[i].at = s[j].at => i = j
  BY <1>2
<1>5. PutsIn(s, {p}, A)
  BY <1>2, <1>3, <1>4 DEF PutsIn
<1>6. QED
  BY <1>5 DEF s

LEMMA PutsWithin ==
  ASSUME NEW s, NEW P, NEW A, NEW B, PutsIn(s, P, A), A \subseteq B
  PROVE  PutsIn(s, P, B)
BY DEF PutsIn

\* What a concatenation consists of.
ConcatHas(S, p, f) ==
  /\ p \o f \in Seq(S) /\ Len(p) \in Nat /\ Len(f) \in Nat /\ Len(p \o f) = Len(p) + Len(f)
  /\ \A i \in 1..Len(p) : (p \o f)[i] = p[i]
  /\ \A i \in 1..Len(f) : (p \o f)[Len(p) + i] = f[i]
LEMMA Concats ==
  ASSUME NEW S, NEW p, NEW f, p \in Seq(S), f \in Seq(S)
  PROVE  ConcatHas(S, p, f)
<1>1. /\ p \o f \in Seq(S) /\ Len(p \o f) = Len(p) + Len(f)
      /\ \A i \in 1 .. Len(p) + Len(f) : (p \o f)[i] = IF i <= Len(p) THEN p[i] ELSE f[i - Len(p)]
  BY ConcatProperties
<1>2. Len(p) \in Nat /\ Len(f) \in Nat
  BY LenProperties
<1> DEFINE m == Len(p)
           n == Len(f)
           r == p \o f
<1>3. \A i \in 1..(m + n) : r[i] = IF i <= m THEN p[i] ELSE f[i - m]
  BY <1>1
<1>4. m \in Nat /\ n \in Nat
  BY <1>2
<1> HIDE DEF m, n, r
<1>5. \A i \in 1..m : r[i] = p[i]
  BY ONLY <1>3, <1>4
<1>6. \A i \in 1..n : r[m + i] = f[i]
  <2> TAKE i \in 1..n
  <2>1. m + i \in 1..(m + n) /\ ~(m + i <= m) /\ (m + i) - m = i
    BY ONLY <1>4
  <2>2. QED
    BY ONLY <1>3, <2>1
<1>7. QED
  BY ONLY <1>1, <1>2, <1>5, <1>6 DEF ConcatHas, m, n, r

LEMMA Joined ==
  ASSUME NEW s, NEW P, NEW A, NEW t, NEW Q, NEW B, PutsIn(s, P, A), PutsIn(t, Q, B), A \cap B = {}
  PROVE  PutsIn(s \o t, P \cup Q, A \cup B)
<1> DEFINE r == s \o t
           m == Len(s)
           n == Len(t)
<1>1. s \in Seq(P \cup Q) /\ t \in Seq(P \cup Q)
  BY SeqMonotonic DEF PutsIn
<1>2. ConcatHas(P \cup Q, s, t)
  BY ONLY <1>1, Concats
<1>3. /\ r \in Seq(P \cup Q) /\ m \in Nat /\ n \in Nat /\ Len(r) = m + n
      /\ \A i \in 1..m : r[i] = s[i]
      /\ \A i \in 1..n : r[m + i] = t[i]
  BY ONLY <1>2 DEF ConcatHas
<1>4. /\ P = Ran(s) /\ (\A p \in P : p.at \in A) /\ \A i, j \in 1..m : s[i].at = s[j].at => i = j
      /\ Q = Ran(t) /\ (\A p \in Q : p.at \in B) /\ \A i, j \in 1..n : t[i].at = t[j].at => i = j
  BY DEF PutsIn
<1> HIDE DEF r
<1>5. /\ \A i \in 1..m : r[i] \in P /\ r[i].at \in A
      /\ \A i \in 1..n : r[m + i] \in Q /\ r[m + i].at \in B
  <2>1. (\A i \in 1..m : s[i] \in P) /\ (\A i \in 1..n : t[i] \in Q)
    BY <1>4 DEF Ran
  <2>2. QED
    BY ONLY <1>3, <1>4, <2>1
<1> HIDE DEF m, n
<1>6. \A i \in 1..(m + n) : i \in 1..m \/ \E j \in 1..n : i = m + j
  <2> TAKE i \in 1..(m + n)
  <2>1. CASE i <= m
    BY ONLY <1>3, <2>1
  <2>2. CASE ~(i <= m)
    <3>1. i - m \in 1..n /\ i = m + (i - m)
      BY ONLY <1>3, <2>2, i \in 1..(m + n)
    <3>2. QED
      BY <3>1
  <2>3. QED
    BY <2>1, <2>2
<1>7. Ran(r) = P \cup Q
  <2>1. \A i \in 1..Len(r) : r[i] \in P \cup Q
    BY ONLY <1>3, <1>5, <1>6
  <2>2. \A p \in P : \E i \in 1..Len(r) : p = r[i]
    <3> TAKE p \in P
    <3>1. PICK i \in 1..m : p = s[i]
      BY ONLY <1>4, p \in P DEF Ran, m
    <3>2. i \in 1..Len(r) /\ p = r[i]
      BY ONLY <1>3, <3>1
    <3>3. QED
      BY <3>2
  <2>3. \A p \in Q : \E i \in 1..Len(r) : p = r[i]
    <3> TAKE p \in Q
    <3>1. PICK i \in 1..n : p = t[i]
      BY ONLY <1>4, p \in Q DEF Ran, n
    <3>2. m + i \in 1..Len(r) /\ p = r[m + i]
      BY ONLY <1>3, <3>1
    <3>3. QED
      BY <3>2
  <2>4. QED
    BY ONLY <2>1, <2>2, <2>3 DEF Ran
<1>8. ASSUME NEW i \in 1..Len(r), NEW j \in 1..Len(r), r[i].at = r[j].at PROVE i = j
  <2>1. i \in 1..m \/ \E x \in 1..n : i = m + x
    BY ONLY <1>3, <1>6, i \in 1..Len(r)
  <2>2. j \in 1..m \/ \E x \in 1..n : j = m + x
    BY ONLY <1>3, <1>6, j \in 1..Len(r)
  <2>3. CASE i \in 1..m /\ j \in 1..m
    BY ONLY <1>3, <1>4, <1>8, <2>3
  <2>4. CASE i \in 1..m /\ \E x \in 1..n : j = m + x
    BY ONLY <1>5, <1>8, <2>4, A \cap B = {}
  <2>5. CASE j \in 1..m /\ \E x \in 1..n : i = m + x
    BY ONLY <1>5, <1>8, <2>5, A \cap B = {}
  <2>6. CASE (\E x \in 1..n : i = m + x) /\ \E x \in 1..n : j = m + x
    <3>1. PICK x \in 1..n : i = m + x
      BY ONLY <2>6
    <3>2. PICK y \in 1..n : j = m + y
      BY ONLY <2>6
    <3>3. t[x].at = t[y].at
      BY ONLY <1>3, <1>8, <3>1, <3>2
    <3>4. x = y
      BY ONLY <1>4, <3>3
    <3>5. QED
      BY ONLY <3>1, <3>2, <3>4
  <2>7. QED
    BY ONLY <2>1, <2>2, <2>3, <2>4, <2>5, <2>6
<1>9. \A p \in P \cup Q : p.at \in A \cup B
  BY ONLY <1>4
<1>10. PutsIn(r, P \cup Q, A \cup B)
  BY ONLY <1>3, <1>7, <1>8, <1>9 DEF PutsIn
<1>11. QED
  BY ONLY <1>10 DEF r

\* One after the other, from a block on.
LEMMA PutsListed ==
  ASSUME NEW n \in Nat, NEW s, s = [i \in 1..n |-> s[i]], NEW a \in Int, \A i \in 1..n : s[i].at = a + i - 1
  PROVE  PutsIn(s, {s[i] : i \in 1..n}, a..(a + n - 1))
<1> DEFINE P == {s[i] : i \in 1..n}
<1>1. Len(s) = n /\ s \in Seq(P)
  <2>1. \A i \in 1..n : s[i] \in P
    OBVIOUS
  <2> HIDE DEF P
  <2>2. s \in [1..n -> P]
    BY <2>1
  <2>3. QED
    BY <2>2
<1>2. P = Ran(s)
  BY <1>1 DEF Ran
<1>3. \A p \in P : p.at \in a..(a + n - 1)
  <2>1. \A i \in 1..n : a + i - 1 \in a..(a + n - 1)
    OBVIOUS
  <2>2. QED
    BY <2>1
<1>4. \A i, j \in 1..Len(s) : s[i].at = s[j].at => i = j
  <2> TAKE i, j \in 1..Len(s)
  <2>1. s[i].at = a + i - 1 /\ s[j].at = a + j - 1 /\ i \in Int /\ j \in Int
    BY <1>1
  <2>2. a + i - 1 = a + j - 1 => i = j
    BY ONLY <2>1, a \in Int
  <2>3. QED
    BY ONLY <2>1, <2>2
<1> HIDE DEF P
<1>5. PutsIn(s, P, a..(a + n - 1))
  BY ONLY <1>1, <1>2, <1>3, <1>4 DEF PutsIn
<1>6. QED
  BY ONLY <1>5 DEF P

\* As many blocks as there are puts.
LEMMA PutsApart ==
  ASSUME NEW s, NEW P, NEW A, PutsIn(s, P, A)
  PROVE  PutApart(s)
<1> DEFINE n == Len(s)
           T == {s[i].at : i \in 1..n}
           f == [i \in 1..n |-> s[i].at]
<1>1. n \in Nat /\ \A i, j \in 1..n : s[i].at = s[j].at => i = j
  BY DEF PutsIn
<1>2. f \in Bijection(1..n, T)
  <2>1. f \in [1..n -> T] /\ (\A i, j \in 1..n : f[i] = f[j] => i = j) /\ \A x \in T : \E i \in 1..n : f[i] = x
    BY <1>1
  <2> HIDE DEF f, T
  <2>2. QED
    BY <2>1 DEF Bijection, Injection, Surjection, IsInjective
<1> HIDE DEF f, T, n
<1>3. ExistsBijection(1..n, T)
  BY <1>2 DEF ExistsBijection
<1>4. IsFiniteSet(1..n) /\ Cardinality(1..n) = n
  BY <1>1, FS_Interval
<1>5. Cardinality(T) = n
  BY <1>3, <1>4, FS_Bijection
<1>6. QED
  BY <1>5 DEF PutApart, T, n

\* Descriptors.
LEMMA DescPutsNone == DescPuts(<<>>) = <<>>
BY DEF DescPuts
DescPut(m) == Put(m.extent, Desc(RecordDesc(m)))
LEMMA DescPutsOne ==
  ASSUME NEW m
  PROVE  DescPuts(<<m>>) = <<DescPut(m)>>
BY DEF DescPuts, DescPut
BothSeq(S, s, t) == s \in Seq(S) /\ t \in Seq(S)
LEMMA DescPutsJoined ==
  ASSUME NEW S, NEW s, NEW t, BothSeq(S, s, t)
  PROVE  DescPuts(s \o t) = DescPuts(s) \o DescPuts(t)
<1> USE DEF BothSeq
<1> DEFINE T == {DescPut(x) : x \in S}
           r == s \o t
           m == Len(s)
           n == Len(t)
<1>1. /\ r \in Seq(S) /\ m \in Nat /\ n \in Nat /\ Len(r) = m + n
      /\ \A i \in 1..m : r[i] = s[i] /\ s[i] \in S
      /\ \A i \in 1..n : r[m + i] = t[i] /\ t[i] \in S
  <2>1. ConcatHas(S, s, t)
    BY Concats
  <2>2. (\A i \in 1..m : s[i] \in S) /\ (\A i \in 1..n : t[i] \in S)
    OBVIOUS
  <2>3. QED
    BY <2>1, <2>2 DEF ConcatHas
<1>2. \A x : x \in Seq(S) => /\ DescPuts(x) \in Seq(T) /\ Len(DescPuts(x)) = Len(x)
                            /\ \A i \in 1..Len(x) : DescPuts(x)[i] = DescPut(x[i])
  <2> SUFFICES ASSUME NEW x \in Seq(S)
               PROVE  /\ DescPuts(x) \in Seq(T) /\ Len(DescPuts(x)) = Len(x)
                      /\ \A i \in 1..Len(x) : DescPuts(x)[i] = DescPut(x[i])
    OBVIOUS
  <2>1. DescPuts(x) = [i \in 1..Len(x) |-> DescPut(x[i])]
    BY DEF DescPuts, DescPut
  <2>2. Len(x) \in Nat /\ \A i \in 1..Len(x) : DescPut(x[i]) \in T
    OBVIOUS
  <2> HIDE DEF T
  <2>3. DescPuts(x) \in [1..Len(x) -> T]
    BY <2>1, <2>2
  <2>4. DescPuts(x) \in Seq(T) /\ Len(DescPuts(x)) = Len(x)
    BY ONLY <2>2, <2>3
  <2>5. QED
    BY ONLY <2>1, <2>4
<1> DEFINE a == DescPuts(s)
           b == DescPuts(t)
           c == DescPuts(r)
<1>3. /\ a \in Seq(T) /\ Len(a) = m /\ (\A i \in 1..m : a[i] = DescPut(s[i]))
      /\ b \in Seq(T) /\ Len(b) = n /\ (\A i \in 1..n : b[i] = DescPut(t[i]))
      /\ c \in Seq(T) /\ Len(c) = m + n /\ (\A i \in 1..(m + n) : c[i] = DescPut(r[i]))
  BY <1>1, <1>2
<1> HIDE DEF T, a, b, c, r, m, n
<1>4. ConcatHas(T, a, b)
  BY ONLY <1>3, Concats
<1>5. a \o b \in Seq(T) /\ Len(a \o b) = m + n
  BY ONLY <1>3, <1>4 DEF ConcatHas
<1>6. \A i \in 1..(m + n) : c[i] = (a \o b)[i]
  <2> TAKE i \in 1..(m + n)
  <2>1. CASE i <= m
    <3>1. i \in 1..m
      BY ONLY <1>1, <2>1, i \in 1..(m + n)
    <3>2. (a \o b)[i] = a[i]
      BY ONLY <1>3, <1>4, <3>1 DEF ConcatHas
    <3>3. QED
      BY ONLY <1>1, <1>3, <3>1, <3>2, i \in 1..(m + n)
  <2>2. CASE ~(i <= m)
    <3>1. i - m \in 1..n /\ i = m + (i - m)
      BY ONLY <1>1, <2>2, i \in 1..(m + n)
    <3> DEFINE j == i - m
    <3>2. j \in 1..n /\ i = m + j
      BY ONLY <3>1
    <3> HIDE DEF j
    <3>3. (a \o b)[m + j] = b[j]
      BY ONLY <1>3, <1>4, <3>2 DEF ConcatHas
    <3>4. QED
      BY ONLY <1>1, <1>3, <3>2, <3>3, i \in 1..(m + n)
  <2>3. QED
    BY <2>1, <2>2
<1>7. c = a \o b
  BY ONLY <1>3, <1>5, <1>6, SeqEqual
<1>8. QED
  BY ONLY <1>7 DEF a, b, c, r
-----------------------------------------------------------------------------
(* The data, file by file.                                                  *)

FlattenOf(g, s) == g = [i \in 1..Len(s) |-> IF i = 1 THEN s[i] ELSE g[i - 1] \o s[i]]

LEMMA FlattenExists ==
  ASSUME NEW S, NEW s \in Seq(S), s # <<>>
  PROVE  \E g : FlattenOf(g, s)
<1> DEFINE n == Len(s) - 1
           F(g, i) == IF i = 1 THEN s[i] ELSE g[i - 1] \o s[i]
           T == {k \in 0..n : \E g : g = [i \in 1..(k + 1) |-> F(g, i)]}
<1>0. n \in Nat /\ n + 1 = Len(s)
  OBVIOUS
<1> HIDE DEF n
<1>1. 0 \in T
  <2> DEFINE g == [i \in 1..1 |-> s[i]]
  <2>1. g = [i \in 1..(0 + 1) |-> F(g, i)]
    OBVIOUS
  <2> HIDE DEF g, F
  <2>2. QED
    BY <1>0, <2>1
<1>2. ASSUME NEW k \in 0..(n - 1), k \in T PROVE k + 1 \in T
  <2>1. PICK g : g = [i \in 1..(k + 1) |-> F(g, i)]
    BY <1>2
  <2>0. k \in Nat /\ k + 1 \in 0..n
    BY <1>0
  <2> DEFINE h == [i \in 1..((k + 1) + 1) |-> IF i = k + 2 THEN F(g, k + 2) ELSE g[i]]
  <2>2. ASSUME NEW i \in 1..((k + 1) + 1) PROVE h[i] = F(h, i)
    <3>1. CASE i = k + 2
      <4>1. i # 1 /\ i - 1 = k + 1 /\ h[i - 1] = g[i - 1] /\ h[i] = F(g, i)
        BY <2>0, <3>1
      <4> HIDE DEF h
      <4>2. QED
        BY <4>1
    <3>2. CASE i # k + 2
      <4>1. i \in 1..(k + 1) /\ h[i] = g[i] /\ (i # 1 => h[i - 1] = g[i - 1])
        BY <2>0, <3>2
      <4>2. g[i] = F(g, i)
        BY <2>1, <4>1
      <4> HIDE DEF h
      <4>3. QED
        BY <4>1, <4>2
    <3>3. QED
      BY <3>1, <3>2
  <2>3. h = [i \in 1..((k + 1) + 1) |-> h[i]]
    OBVIOUS
  <2> HIDE DEF h
  <2>4. h = [i \in 1..((k + 1) + 1) |-> F(h, i)]
    <3> HIDE DEF F
    <3>1. QED
      BY <2>2, <2>3
  <2>5. QED
    BY <2>4, <2>0
<1> HIDE DEF T, F
<1>3. n \in T
  <2>1. \A k \in 0..n : k \in T
    BY <1>1, <1>2, <1>0, UpTo
  <2>2. QED
    BY <1>0, <2>1
<1>4. PICK g : g = [i \in 1..(n + 1) |-> F(g, i)]
  BY <1>3 DEF T
<1>5. QED
  BY <1>4, <1>0 DEF F, FlattenOf

FlattenedBy(g, s) ==
  /\ g[1] = s[1] /\ \A i \in 2..Len(s) : g[i] = g[i - 1] \o s[i]
  /\ FlattenSeq(s) = g[Len(s)]
LEMMA FlattenIs ==
  ASSUME NEW S, NEW s \in Seq(S), s # <<>>
  PROVE  \E g : FlattenedBy(g, s)
<1> USE DEF FlattenedBy
<1>1. PICK g : g = CHOOSE h : FlattenOf(h, s)
  OBVIOUS
<1>2. FlattenOf(g, s)
  BY <1>1, FlattenExists
<1>3. Len(s) # 0 /\ Len(s) \in Nat
  OBVIOUS
<1>4. FlattenSeq(s) = g[Len(s)]
  BY <1>1, <1>3, Zenon DEF FlattenSeq, FlattenOf
<1>5. \A i \in 1..Len(s) : g[i] = IF i = 1 THEN s[i] ELSE g[i - 1] \o s[i]
  BY <1>2 DEF FlattenOf
<1>6. 1 \in 1..Len(s) /\ \A i \in 2..Len(s) : i \in 1..Len(s) /\ i # 1
  BY <1>3
<1>7. QED
  BY <1>4, <1>5, <1>6

\* Puts one list after the other.
Lists(ss, Ps, As) ==
  /\ Len(ss) \in Nat /\ \A j \in 1..Len(ss) : PutsIn(ss[j], Ps[j], As[j])
  /\ \A i, j \in 1..Len(ss) : i # j => As[i] \cap As[j] = {}
LEMMA FlattenPuts ==
  ASSUME NEW X, NEW ss, ss \in Seq(X), NEW Ps, NEW As, Lists(ss, Ps, As)
  PROVE  PutsIn(FlattenSeq(ss), UNION {Ps[j] : j \in 1..Len(ss)}, UNION {As[j] : j \in 1..Len(ss)})
<1> DEFINE n == Len(ss)
           P(i) == UNION {Ps[j] : j \in 1..i}
           A(i) == UNION {As[j] : j \in 1..i}
<1>0. n \in Nat
  BY DEF Lists
<1>1. CASE n = 0
  <2>1. ss = <<>>
    BY <1>1
  <2>2. FlattenSeq(ss) = <<>>
    BY <1>1, <2>1 DEF FlattenSeq
  <2>3. P(n) = {} /\ A(n) = {}
    BY <1>1
  <2>4. PutsIn(FlattenSeq(ss), P(n), A(n))
    BY ONLY <2>2, <2>3, NoPuts
  <2>5. QED
    BY <2>4
<1>2. CASE n # 0
  <2>1. ss # <<>>
    BY <1>2
  <2>2. PICK g : FlattenedBy(g, ss)
    BY <2>1, FlattenIs
  <2>3. /\ g[1] = ss[1] /\ \A i \in 2..n : g[i] = g[i - 1] \o ss[i]
        /\ FlattenSeq(ss) = g[n]
    BY <2>2 DEF FlattenedBy
  <2>4. /\ \A j \in 1..n : PutsIn(ss[j], Ps[j], As[j])
        /\ \A i, j \in 1..n : i # j => As[i] \cap As[j] = {}
    BY DEF Lists
  <2> DEFINE m == n - 1
             T == {i \in 0..m : PutsIn(g[i + 1], P(i + 1), A(i + 1))}
  <2>5. m \in Nat /\ m + 1 = n
    BY <1>0, <1>2
  <2> HIDE DEF n, m
  <2>6. 0 \in T
    <3>1. P(0 + 1) = Ps[1] /\ A(0 + 1) = As[1] /\ 0 + 1 = 1 /\ 1 \in 1..n /\ 0 \in 0..m
      BY <2>5
    <3> HIDE DEF P, A
    <3>2. PutsIn(g[0 + 1], P(0 + 1), A(0 + 1))
      BY ONLY <2>3, <2>4, <3>1
    <3>3. QED
      BY ONLY <3>1, <3>2
  <2>7. ASSUME NEW i \in 0..(m - 1), i \in T PROVE i + 1 \in T
    <3>1. i + 1 \in 0..m /\ i + 2 \in 2..n /\ i + 2 \in 1..n /\ (i + 2) - 1 = i + 1 /\ (i + 1) + 1 = i + 2
      BY ONLY <2>5, i \in 0..(m - 1)
    <3>2. g[i + 2] = g[i + 1] \o ss[i + 2]
      BY ONLY <2>3, <3>1
    <3>3. 1..(i + 2) = 1..(i + 1) \cup {i + 2}
      BY ONLY <2>5, i \in 0..(m - 1)
    <3>4. P(i + 2) = P(i + 1) \cup Ps[i + 2] /\ A(i + 2) = A(i + 1) \cup As[i + 2]
      BY ONLY <3>3
    <3>5. A(i + 1) \cap As[i + 2] = {}
      <4>1. \A j \in 1..(i + 1) : j \in 1..n /\ j # i + 2
        BY ONLY <2>5, i \in 0..(m - 1)
      <4>2. QED
        BY ONLY <2>4, <3>1, <4>1
    <3> HIDE DEF P, A
    <3>6. PutsIn(g[i + 1], P(i + 1), A(i + 1)) /\ PutsIn(ss[i + 2], Ps[i + 2], As[i + 2])
      BY ONLY <2>4, <2>7, <3>1
    <3>7. PutsIn(g[i + 1] \o ss[i + 2], P(i + 1) \cup Ps[i + 2], A(i + 1) \cup As[i + 2])
      BY ONLY <3>5, <3>6, Joined
    <3>8. PutsIn(g[i + 2], P(i + 2), A(i + 2))
      BY ONLY <3>2, <3>4, <3>7
    <3>9. QED
      BY ONLY <3>1, <3>8
  <2> HIDE DEF P, A, T
  <2>8. m \in T
    <3>1. \A j \in 0..m : j \in T
      BY ONLY <2>5, <2>6, <2>7, UpTo
    <3>2. QED
      BY ONLY <2>5, <3>1
  <2>9. PutsIn(g[n], P(n), A(n))
    BY ONLY <2>5, <2>8 DEF T
  <2>10. QED
    BY ONLY <2>3, <2>9 DEF P, A, n
<1>3. QED
  BY <1>1, <1>2

\* Where the data of a file are.
DataOf(v, f) == DataAtOf(v, f)..(DataAtOf(v, f) + v.files[f].len - 1)
LEMMA DataFollows ==
  ASSUME NEW v, Sound(v), NEW f \in Stored(v)
  PROVE  /\ DataAtOf(v, f) = DataAt(v) + DataBlocks(v, Earlier(v, f)) /\ DataAt(v) \in Nat
         /\ DataBlocks(v, Earlier(v, f)) \in Nat /\ v.files[f].len \in Nat /\ v.files[f].len > 0
         /\ DataAtOf(v, f) + v.files[f].len <= EndAt(v) /\ EndAt(v) \in Nat
         /\ \A g \in Stored(v) : f \in Earlier(v, g) => DataAtOf(v, f) + v.files[f].len <= DataAtOf(v, g)
<1>1. OwnFiles(v)
  BY DEF Sound, OwnRest
<1>2. HasLens(v) /\ Stored(v) \in SUBSET Files
  BY <1>1, OwnFilesHave
<1>3. /\ EndAt(v) = DataAt(v) + DataBlocks(v, Stored(v)) /\ DataBlocks(v, Stored(v)) \in Nat
      /\ DataAt(v) \in Nat /\ EndAt(v) \in Nat
  BY SoundPlaces DEF Places
<1>4. f \in Files /\ v.files[f].len \in Nat /\ v.files[f].len > 0
  BY <1>2 DEF HasLens, Stored
<1>5. f \notin Earlier(v, f) /\ MetIn(v, f) \in Nat
  BY <1>4 DEF Earlier, MetIn, Files
<1> DEFINE E == Earlier(v, f)
           U == E \cup {f}
<1>6. /\ DataBlocks(v, U) = DataBlocks(v, E) + v.files[f].len
      /\ DataBlocks(v, E) \in Nat
  <2>1. \A g \in Files : g \in U <=> g \in E \/ g = f
    OBVIOUS
  <2>2. f \notin E
    BY <1>5
  <2> HIDE DEF E, U
  <2>3. QED
    BY ONLY <1>2, <1>4, <2>1, <2>2, DataBlocksAdd, DataBlocksType
<1>7. U \subseteq Stored(v)
  BY DEF Earlier
<1>8. DataAtOf(v, f) = DataAt(v) + DataBlocks(v, E)
  BY DEF DataAtOf
<1>9. ASSUME NEW g \in Stored(v), f \in Earlier(v, g)
      PROVE  DataAtOf(v, f) + v.files[f].len <= DataAtOf(v, g)
  <2>1. U \subseteq Earlier(v, g)
    <3>1. \A h \in Files : MetIn(v, h) \in Nat /\ h \in Nat
      BY FilesFinite DEF MetIn
    <3>2. g \in Files
      BY <1>2
    <3>3. ASSUME NEW h \in E PROVE h \in Earlier(v, g)
      <4>1. h \in Stored(v) /\ h \in Files
        BY <1>2 DEF Earlier
      <4> DEFINE a == MetIn(v, h)
                 b == MetIn(v, f)
                 c == MetIn(v, g)
      <4>2. (a < b \/ (a = b /\ h < f)) /\ (b < c \/ (b = c /\ f < g))
        BY <1>9 DEF Earlier
      <4>3. a \in Nat /\ b \in Nat /\ c \in Nat /\ h \in Nat /\ f \in Nat /\ g \in Nat
        BY <1>4, <3>1, <3>2, <4>1
      <4> HIDE DEF a, b, c
      <4>4. a < c \/ (a = c /\ h < g)
        BY ONLY <4>2, <4>3
      <4>5. QED
        BY <4>1, <4>4 DEF Earlier, a, c
    <3>4. QED
      BY <1>9, <3>3
  <2>2. DataBlocks(v, U) <= DataBlocks(v, Earlier(v, g))
    BY ONLY <1>2, <2>1, DataBlocksWithin
  <2>3. DataAtOf(v, g) = DataAt(v) + DataBlocks(v, Earlier(v, g)) /\ DataBlocks(v, Earlier(v, g)) \in Nat
    BY <1>2, DataBlocksType DEF DataAtOf
  <2>4. QED
    BY ONLY <1>3, <1>4, <1>6, <1>8, <2>2, <2>3
<1>10. DataBlocks(v, U) <= DataBlocks(v, Stored(v))
  BY ONLY <1>2, <1>7, DataBlocksWithin
<1>11. DataAtOf(v, f) + v.files[f].len <= EndAt(v)
  BY ONLY <1>3, <1>4, <1>6, <1>8, <1>10
<1> HIDE DEF U, E
<1>12. QED
  BY ONLY <1>3, <1>4, <1>6, <1>8, <1>9, <1>11 DEF E

LEMMA DataApart ==
  ASSUME NEW v, Sound(v)
  PROVE  /\ \A f \in Files : DataOf(v, f) \subseteq DataAt(v)..(EndAt(v) - 1)
         /\ \A f, g \in Files : f # g => DataOf(v, f) \cap DataOf(v, g) = {}
<1>1. OwnFiles(v)
  BY DEF Sound, OwnRest
<1>2. ASSUME NEW f \in Files, f \notin Stored(v) PROVE DataOf(v, f) = {}
  <2>1. v.files[f].len = 0
    <3>1. OwnFile(v, f)
      BY <1>1 DEF OwnFiles
    <3>2. v.files[f].len \in Nat /\ (v.files[f].in = {} => v.files[f].len = 0)
      BY <3>1 DEF OwnFile
    <3>3. QED
      BY <1>2, <3>2 DEF Stored, Present
  <2>2. DataAtOf(v, f) = 0
    BY <1>2 DEF DataAtOf
  <2>3. QED
    BY <2>1, <2>2 DEF DataOf
<1>3. ASSUME NEW f \in Stored(v) PROVE DataOf(v, f) \subseteq DataAt(v)..(EndAt(v) - 1)
  <2> DEFINE a == DataAtOf(v, f)
             n == v.files[f].len
             d == DataAt(v)
             e == EndAt(v)
             b == DataBlocks(v, Earlier(v, f))
  <2>1. a = d + b /\ d \in Nat /\ b \in Nat /\ n \in Nat /\ a + n <= e /\ e \in Nat
    BY DataFollows
  <2>2. DataOf(v, f) = a..(a + n - 1)
    BY DEF DataOf
  <2> HIDE DEF a, n, d, e, b
  <2>3. a..(a + n - 1) \subseteq d..(e - 1)
    BY ONLY <2>1
  <2>4. QED
    BY ONLY <2>2, <2>3 DEF d, e
<1>4. ASSUME NEW f \in Stored(v), NEW g \in Stored(v), f \in Earlier(v, g) PROVE DataOf(v, f) \cap DataOf(v, g) = {}
  <2> DEFINE a == DataAtOf(v, f)
             n == v.files[f].len
             b == DataAtOf(v, g)
             m == v.files[g].len
  <2>1. a \in Nat /\ n \in Nat /\ b \in Nat /\ m \in Nat /\ a + n <= b
    BY <1>4, DataFollows
  <2>2. DataOf(v, f) = a..(a + n - 1) /\ DataOf(v, g) = b..(b + m - 1)
    BY DEF DataOf
  <2> HIDE DEF a, n, b, m
  <2>3. a..(a + n - 1) \cap b..(b + m - 1) = {}
    BY ONLY <2>1
  <2>4. QED
    BY ONLY <2>2, <2>3
<1>5. ASSUME NEW f \in Stored(v), NEW g \in Stored(v), f # g PROVE f \in Earlier(v, g) \/ g \in Earlier(v, f)
  <2>1. f \in Nat /\ g \in Nat /\ MetIn(v, f) \in Nat /\ MetIn(v, g) \in Nat
    BY FilesFinite DEF Stored, Present, MetIn
  <2>2. \/ MetIn(v, f) < MetIn(v, g) \/ (MetIn(v, f) = MetIn(v, g) /\ f < g)
        \/ MetIn(v, g) < MetIn(v, f) \/ (MetIn(v, g) = MetIn(v, f) /\ g < f)
    BY <1>5, <2>1
  <2>3. QED
    BY <2>2 DEF Earlier
<1>6. ASSUME NEW f \in Files, NEW g \in Files, f # g PROVE DataOf(v, f) \cap DataOf(v, g) = {}
  <2>1. CASE f \in Stored(v) /\ g \in Stored(v)
    BY <1>4, <1>5, <1>6, <2>1
  <2>2. CASE f \notin Stored(v) \/ g \notin Stored(v)
    BY <1>2, <2>2
  <2>3. QED
    BY <2>1, <2>2
<1>7. QED
  BY <1>2, <1>3, <1>6
-----------------------------------------------------------------------------
(* The puts of a volume that is laid out, part by part.                     *)

LEMMA JoinedNext ==
  ASSUME NEW s, NEW P, NEW t, NEW Q, NEW a, NEW b, NEW c, PutsIn(s, P, a..(b - 1)), PutsIn(t, Q, b..(c - 1)),
         a \in Int, b \in Int, c \in Int, a <= b, b <= c
  PROVE  PutsIn(s \o t, P \cup Q, a..(c - 1))
<1>1. a..(b - 1) \cap b..(c - 1) = {}
  BY ONLY a \in Int, b \in Int, c \in Int
<1>2. a..(b - 1) \cup b..(c - 1) \subseteq a..(c - 1)
  BY ONLY a \in Int, b \in Int, c \in Int, a <= b, b <= c
<1>3. PutsIn(s \o t, P \cup Q, a..(b - 1) \cup b..(c - 1))
  BY <1>1, Joined
<1>4. QED
  BY ONLY <1>2, <1>3, PutsWithin

\* The header.
HeaderList(v, k) ==
  [i \in 1..Len(v.head[k]) |->
     Put(IF k = "pvd" THEN v.head[k][1].extent + i - 1 ELSE v.head[k][i].extent, HeaderBlock(v, k, i))]
HeaderSet(v, k) == {Put(HeaderAt(v, k) + i - 1, HeaderBlock(v, k, i)) : i \in 1..Len(v.head[k])}
HeadSet(v) == UNION {HeaderSet(v, k) : k \in HeaderNames}
\* Where its parts are.
HeadStands(v, p, b, s, u) ==
  /\ HeaderAt(v, "pvd") = 16 /\ HeaderAt(v, "br") = 16 + p
  /\ HeaderAt(v, "svd") = 16 + (p + b) /\ HeaderAt(v, "vdst") = 16 + (p + b + s)
  /\ HeaderAt(v, "bea") = 16 + (p + b + s + 1) /\ HeaderAt(v, "boot") = 16 + (p + b + s + 1)
  /\ HeaderAt(v, "nsr") = 16 + (p + b + s + 1 + u) /\ HeaderAt(v, "tea") = 16 + (p + b + s + 1 + 2 * u)
  /\ HeaderAt(v, "version") = 16 + (p + b + s + 1 + 3 * u) /\ HeaderEnd(v) = 16 + (p + b + s + 1 + 3 * u) + 1
HeadHolds(v, p, b, s, u) ==
  /\ p \in Nat /\ b \in 0..1 /\ s \in 0..1 /\ u \in 0..1 /\ p >= 1
  /\ Len(v.head["pvd"]) = p /\ Len(v.head["br"]) = b /\ Len(v.head["svd"]) = s /\ Len(v.head["vdst"]) = 1
  /\ Len(v.head["bea"]) = u /\ Len(v.head["boot"]) = 0 /\ Len(v.head["nsr"]) = u /\ Len(v.head["tea"]) = u
  /\ Len(v.head["version"]) = 1
LEMMA HeadStandsAt ==
  ASSUME NEW v, Own(v)
  PROVE  /\ HeadStands(v, Len(v.head["pvd"]), One(v.catalog), One(v.joliet), One(v.udf))
         /\ HeadHolds(v, Len(v.head["pvd"]), One(v.catalog), One(v.joliet), One(v.udf))
<1> DEFINE p == Len(v.head["pvd"])
           b == One(v.catalog)
           s == One(v.joliet)
           u == One(v.udf)
<1>1. HeadLens(v.head, p, b, s, 1, u, 1) /\ p \in Nat /\ p >= 1 /\ b \in 0..1 /\ s \in 0..1 /\ u \in 0..1
  BY OwnHeadLens
<1>2. HeadHolds(v, p, b, s, u)
  BY <1>1 DEF HeadHolds, HeadLens
<1>3. /\ HeaderAt(v, "pvd") = 16 + 0 /\ HeaderAt(v, "br") = 16 + p
      /\ HeaderAt(v, "svd") = 16 + (p + b) /\ HeaderAt(v, "vdst") = 16 + (p + b + s)
      /\ HeaderAt(v, "bea") = 16 + (p + b + s + 1) /\ HeaderAt(v, "boot") = 16 + (p + b + s + 1)
      /\ HeaderAt(v, "nsr") = 16 + (p + b + s + 1 + u) /\ HeaderAt(v, "tea") = 16 + (p + b + s + 1 + 2 * u)
      /\ HeaderAt(v, "version") = 16 + (p + b + s + 1 + 3 * u)
  BY DEF HeaderAt
<1>4. HeaderEnd(v) = HeaderAt(v, "version") + 1
  BY OwnHeadPlaces
<1> HIDE DEF p, b, s, u
<1>5. HeadStands(v, p, b, s, u)
  BY ONLY <1>3, <1>4 DEF HeadStands
<1>6. QED
  BY ONLY <1>2, <1>5 DEF p, b, s, u

LEMMA HeaderListPuts ==
  ASSUME NEW v, Laid(v), NEW k \in HeaderNames
  PROVE  /\ PutsIn(HeaderList(v, k), HeaderSet(v, k), HeaderAt(v, k)..(HeaderAt(v, k) + Len(v.head[k]) - 1))
         /\ HeaderAt(v, k) \in Int /\ Len(v.head[k]) \in Nat
<1> DEFINE n == Len(v.head[k])
           a == HeaderAt(v, k)
           s == HeaderList(v, k)
<1>1. Own(v) /\ Placed(v) /\ OwnHead(v)
  BY OwnHas DEF Laid
<1>2. n \in Nat
  BY <1>1 DEF OwnHead
<1>3. a \in Int
  <2>1. PICK p, b, c, u : HeadStands(v, p, b, c, u) /\ HeadHolds(v, p, b, c, u)
    BY <1>1, HeadStandsAt
  <2>2. /\ p \in Int /\ b \in Int /\ c \in Int /\ u \in Int
        /\ HeaderAt(v, "pvd") = 16 /\ HeaderAt(v, "br") = 16 + p
        /\ HeaderAt(v, "svd") = 16 + (p + b) /\ HeaderAt(v, "vdst") = 16 + (p + b + c)
        /\ HeaderAt(v, "bea") = 16 + (p + b + c + 1) /\ HeaderAt(v, "boot") = 16 + (p + b + c + 1)
        /\ HeaderAt(v, "nsr") = 16 + (p + b + c + 1 + u) /\ HeaderAt(v, "tea") = 16 + (p + b + c + 1 + 2 * u)
        /\ HeaderAt(v, "version") = 16 + (p + b + c + 1 + 3 * u)
    BY ONLY <2>1 DEF HeadStands, HeadHolds
  <2>3. \A x \in HeaderNames : HeaderAt(v, x) \in Int
    BY ONLY <2>2, Names
  <2>4. QED
    BY <2>3
<1>4. \A i \in 1..n : v.head[k][i].extent = a + i - 1
  BY <1>1 DEF Placed
<1>5. \A i \in 1..n : s[i] = Put(a + i - 1, HeaderBlock(v, k, i))
  <2> TAKE i \in 1..n
  <2>1. 1 \in 1..n
    BY <1>2
  <2>2. v.head[k][i].extent = a + i - 1 /\ v.head[k][1].extent = a + 1 - 1
    BY <1>4, <2>1
  <2> HIDE DEF a
  <2>3. (IF k = "pvd" THEN v.head[k][1].extent + i - 1 ELSE v.head[k][i].extent) = a + i - 1
    BY <1>3, <2>2
  <2>4. QED
    BY <2>3 DEF HeaderList
<1>6. s = [i \in 1..n |-> s[i]]
  BY DEF HeaderList
<1>7. {s[i] : i \in 1..n} = HeaderSet(v, k)
  BY <1>5 DEF HeaderSet
<1> HIDE DEF s, n, a
<1>8. \A i \in 1..n : s[i].at = a + i - 1
  <2>1. \A x, y : Put(x, y).at = x
    BY DEF Put
  <2>2. QED
    BY ONLY <1>5, <2>1
<1>9. PutsIn(s, {s[i] : i \in 1..n}, a..(a + n - 1))
  BY ONLY <1>2, <1>3, <1>6, <1>8, PutsListed
<1>10. QED
  BY <1>2, <1>3, <1>7, <1>9 DEF s, n, a

LEMMA HeaderPutsAre ==
  ASSUME NEW v, Laid(v)
  PROVE  PutsIn(HeaderPuts(v), HeadSet(v), 16..(HeaderEnd(v) - 1))
<1> DEFINE p == Len(v.head["pvd"])
           b == One(v.catalog)
           s == One(v.joliet)
           u == One(v.udf)
           L(k) == HeaderList(v, k)
           S(k) == HeaderSet(v, k)
<1>1. Own(v)
  BY DEF Laid
<1>2. /\ p \in Nat /\ b \in Nat /\ s \in Nat /\ u \in Nat
      /\ Len(v.head["pvd"]) = p /\ Len(v.head["br"]) = b /\ Len(v.head["svd"]) = s /\ Len(v.head["vdst"]) = 1
      /\ Len(v.head["bea"]) = u /\ Len(v.head["boot"]) = 0 /\ Len(v.head["nsr"]) = u /\ Len(v.head["tea"]) = u
      /\ Len(v.head["version"]) = 1
  <2>1. HeadHolds(v, p, b, s, u)
    BY <1>1, HeadStandsAt
  <2> HIDE DEF p, b, s, u
  <2>2. QED
    BY ONLY <2>1 DEF HeadHolds
<1>3. /\ HeaderAt(v, "pvd") = 16 /\ HeaderAt(v, "br") = 16 + p
      /\ HeaderAt(v, "svd") = 16 + (p + b) /\ HeaderAt(v, "vdst") = 16 + (p + b + s)
      /\ HeaderAt(v, "bea") = 16 + (p + b + s + 1) /\ HeaderAt(v, "boot") = 16 + (p + b + s + 1)
      /\ HeaderAt(v, "nsr") = 16 + (p + b + s + 1 + u) /\ HeaderAt(v, "tea") = 16 + (p + b + s + 1 + 2 * u)
      /\ HeaderAt(v, "version") = 16 + (p + b + s + 1 + 3 * u) /\ HeaderEnd(v) = 16 + (p + b + s + 1 + 3 * u) + 1
  <2>1. HeadStands(v, p, b, s, u)
    BY <1>1, HeadStandsAt
  <2> HIDE DEF p, b, s, u
  <2>2. QED
    BY ONLY <2>1 DEF HeadStands
<1>5. \A k \in HeaderNames : PutsIn(L(k), S(k), HeaderAt(v, k)..(HeaderAt(v, k) + Len(v.head[k]) - 1))
  BY HeaderListPuts
<1>6. HeaderPuts(v) = L("pvd") \o L("br") \o L("svd") \o L("vdst") \o L("bea") \o L("boot") \o L("nsr")
                        \o L("tea") \o L("version")
  BY DEF HeaderPuts, HeaderList
<1> HIDE DEF L, S, p, b, s, u
<1> DEFINE x2 == 16 + p
           x3 == 16 + (p + b)
           x4 == 16 + (p + b + s)
           x5 == 16 + (p + b + s + 1)
           x6 == 16 + (p + b + s + 1 + u)
           x7 == 16 + (p + b + s + 1 + 2 * u)
           x8 == 16 + (p + b + s + 1 + 3 * u)
           x9 == 16 + (p + b + s + 1 + 3 * u) + 1
<1>7. /\ HeaderAt(v, "pvd") = 16 /\ HeaderAt(v, "br") = x2 /\ HeaderAt(v, "svd") = x3 /\ HeaderAt(v, "vdst") = x4
      /\ HeaderAt(v, "bea") = x5 /\ HeaderAt(v, "boot") = x5 /\ HeaderAt(v, "nsr") = x6 /\ HeaderAt(v, "tea") = x7
      /\ HeaderAt(v, "version") = x8 /\ HeaderEnd(v) = x9
  BY ONLY <1>3
<1>8. /\ 16 + p - 1 = x2 - 1 /\ x2 + b - 1 = x3 - 1 /\ x3 + s - 1 = x4 - 1 /\ x4 + 1 - 1 = x5 - 1
      /\ x5 + u - 1 = x6 - 1 /\ x5 + 0 - 1 = x5 - 1 /\ x6 + u - 1 = x7 - 1 /\ x7 + u - 1 = x8 - 1
      /\ x8 + 1 - 1 = x9 - 1
  BY ONLY <1>2
<1>10. /\ 16 \in Int /\ x2 \in Int /\ x3 \in Int /\ x4 \in Int /\ x5 \in Int /\ x6 \in Int /\ x7 \in Int /\ x8 \in Int /\ x9 \in Int
       /\ 16 <= x2 /\ x2 <= x3 /\ x3 <= x4 /\ x4 <= x5 /\ x5 <= x6 /\ x6 <= x6 /\ x6 <= x7 /\ x7 <= x8 /\ x8 <= x9
       /\ 16 <= x3 /\ 16 <= x4 /\ 16 <= x5 /\ 16 <= x6 /\ 16 <= x7 /\ 16 <= x8
  BY ONLY <1>2
<1>9. PutsIn(L("boot"), S("boot"), x6..(x6 - 1))
  <2>1. PutsIn(L("boot"), S("boot"), x5..(x5 + 0 - 1))
    BY ONLY <1>2, <1>5, <1>7, Names
  <2>2. x5..(x5 + 0 - 1) = {} /\ x6..(x6 - 1) = {}
    BY ONLY <1>10
  <2>3. QED
    BY ONLY <2>1, <2>2
<1>11. /\ PutsIn(L("pvd"), S("pvd"), 16..(x2 - 1)) /\ PutsIn(L("br"), S("br"), x2..(x3 - 1))
       /\ PutsIn(L("svd"), S("svd"), x3..(x4 - 1)) /\ PutsIn(L("vdst"), S("vdst"), x4..(x5 - 1))
       /\ PutsIn(L("bea"), S("bea"), x5..(x6 - 1)) /\ PutsIn(L("boot"), S("boot"), x6..(x6 - 1))
       /\ PutsIn(L("nsr"), S("nsr"), x6..(x7 - 1)) /\ PutsIn(L("tea"), S("tea"), x7..(x8 - 1))
       /\ PutsIn(L("version"), S("version"), x8..(x9 - 1))
  <2> HIDE DEF x2, x3, x4, x5, x6, x7, x8, x9
  <2>1. /\ PutsIn(L("pvd"), S("pvd"), 16..(16 + p - 1)) /\ PutsIn(L("br"), S("br"), x2..(x2 + b - 1))
        /\ PutsIn(L("svd"), S("svd"), x3..(x3 + s - 1)) /\ PutsIn(L("vdst"), S("vdst"), x4..(x4 + 1 - 1))
        /\ PutsIn(L("bea"), S("bea"), x5..(x5 + u - 1)) /\ PutsIn(L("nsr"), S("nsr"), x6..(x6 + u - 1))
        /\ PutsIn(L("tea"), S("tea"), x7..(x7 + u - 1)) /\ PutsIn(L("version"), S("version"), x8..(x8 + 1 - 1))
    BY ONLY <1>2, <1>5, <1>7, Names
  <2>2. QED
    BY ONLY <1>8, <1>9, <2>1
<1> HIDE DEF x2, x3, x4, x5, x6, x7, x8, x9
<1> DEFINE s2 == L("pvd") \o L("br")
           s3 == s2 \o L("svd")
           s4 == s3 \o L("vdst")
           s5 == s4 \o L("bea")
           s6 == s5 \o L("boot")
           s7 == s6 \o L("nsr")
           s8 == s7 \o L("tea")
           s9 == s8 \o L("version")
           t2 == S("pvd") \cup S("br")
           t3 == t2 \cup S("svd")
           t4 == t3 \cup S("vdst")
           t5 == t4 \cup S("bea")
           t6 == t5 \cup S("boot")
           t7 == t6 \cup S("nsr")
           t8 == t7 \cup S("tea")
           t9 == t8 \cup S("version")
<1>12. PutsIn(s2, t2, 16..(x3 - 1))
  BY ONLY <1>10, <1>11, JoinedNext
<1> HIDE DEF s2, t2
<1>13. PutsIn(s3, t3, 16..(x4 - 1))
  BY ONLY <1>10, <1>11, <1>12, JoinedNext
<1> HIDE DEF s3, t3
<1>14. PutsIn(s4, t4, 16..(x5 - 1))
  BY ONLY <1>10, <1>11, <1>13, JoinedNext
<1> HIDE DEF s4, t4
<1>15. PutsIn(s5, t5, 16..(x6 - 1))
  BY ONLY <1>10, <1>11, <1>14, JoinedNext
<1> HIDE DEF s5, t5
<1>16. PutsIn(s6, t6, 16..(x6 - 1))
  BY ONLY <1>10, <1>11, <1>15, JoinedNext
<1> HIDE DEF s6, t6
<1>17. PutsIn(s7, t7, 16..(x7 - 1))
  BY ONLY <1>10, <1>11, <1>16, JoinedNext
<1> HIDE DEF s7, t7
<1>18. PutsIn(s8, t8, 16..(x8 - 1))
  BY ONLY <1>10, <1>11, <1>17, JoinedNext
<1> HIDE DEF s8, t8
<1>19. PutsIn(s9, t9, 16..(x9 - 1))
  BY ONLY <1>10, <1>11, <1>18, JoinedNext
<1>20. HeaderPuts(v) = s9
  BY ONLY <1>6 DEF s9, s8, s7, s6, s5, s4, s3, s2
<1>21. HeadSet(v) = t9
  <2>1. HeadSet(v) = UNION {S(k) : k \in HeaderNames}
    BY DEF HeadSet, S
  <2>2. UNION {S(k) : k \in HeaderNames} = S("pvd") \cup S("br") \cup S("svd") \cup S("vdst") \cup S("bea") \cup S("boot")
                                            \cup S("nsr") \cup S("tea") \cup S("version")
    BY ONLY Names
  <2>3. QED
    BY ONLY <2>1, <2>2 DEF t9, t8, t7, t6, t5, t4, t3, t2
<1>22. QED
  BY ONLY <1>7, <1>19, <1>20, <1>21

\* The descriptors of a sequence.
SequenceSet(s) == {DescPut(s[k][1]) : k \in Singles}
LEMMA SequencePuts ==
  ASSUME NEW s, NEW from \in Int, NEW length, SequenceAt(s, from, length)
  PROVE  /\ PutsIn(DescPuts(InOrder(s)), SequenceSet(s), from..(from + 5))
         /\ \E S : InOrder(s) \in Seq(S)
<1> DEFINE d(k) == DescPut(s[k][1])
<1>1. s[3] = <<>> /\ \A k \in Singles : s[k] = <<s[k][1]>>
  BY OwnSequenceLens DEF SequenceAt
<1>2. \A k \in Singles : s[k][1].extent = from + IF k = 1 THEN 0 ELSE k - 3
  BY DEF SequenceAt, PlacedAt
<1>3. /\ d(1).at = from /\ d(4).at = from + 1 /\ d(5).at = from + 2 /\ d(6).at = from + 3
      /\ d(7).at = from + 4 /\ d(8).at = from + 5
  <2>1. \A k \in Singles : d(k).at = s[k][1].extent
    BY DEF DescPut, Put
  <2> HIDE DEF d
  <2>2. QED
    BY ONLY <1>2, <2>1, from \in Int DEF Singles
<1> DEFINE S == {s[k][1] : k \in Singles}
<1>4. \A k \in Singles : <<s[k][1]>> \in Seq(S)
  OBVIOUS
<1> HIDE DEF S
<1> DEFINE m(k) == <<s[k][1]>>
<1>5. m(1) \o <<>> = m(1)
  BY <1>4, ConcatEmptySeq DEF Singles
<1>6. InOrder(s) = m(1) \o m(4) \o m(5) \o m(6) \o m(7) \o m(8)
  <2>1. s[1] = m(1) /\ s[4] = m(4) /\ s[5] = m(5) /\ s[6] = m(6) /\ s[7] = m(7) /\ s[8] = m(8)
    BY ONLY <1>1 DEF Singles
  <2> HIDE DEF m
  <2>2. InOrder(s) = m(1) \o <<>> \o m(4) \o m(5) \o m(6) \o m(7) \o m(8)
    BY ONLY <1>1, <2>1 DEF InOrder
  <2>3. QED
    BY ONLY <1>5, <2>2
<1>7. \A k \in Singles : m(k) \in Seq(S) /\ DescPuts(m(k)) = <<d(k)>>
  BY <1>4, DescPutsOne
<1> HIDE DEF m
<1> DEFINE m2 == m(1) \o m(4)
           m3 == m2 \o m(5)
           m4 == m3 \o m(6)
           m5 == m4 \o m(7)
           m6 == m5 \o m(8)
<1>8. m2 \in Seq(S) /\ m3 \in Seq(S) /\ m4 \in Seq(S) /\ m5 \in Seq(S) /\ m6 \in Seq(S)
  <2>1. m(1) \in Seq(S) /\ m(4) \in Seq(S) /\ m(5) \in Seq(S) /\ m(6) \in Seq(S) /\ m(7) \in Seq(S) /\ m(8) \in Seq(S)
    BY ONLY <1>7 DEF Singles
  <2>2. m2 \in Seq(S)
    BY ONLY <2>1, ConcatProperties
  <2> HIDE DEF m2
  <2>3. m3 \in Seq(S)
    BY ONLY <2>1, <2>2, ConcatProperties
  <2> HIDE DEF m3
  <2>4. m4 \in Seq(S)
    BY ONLY <2>1, <2>3, ConcatProperties
  <2> HIDE DEF m4
  <2>5. m5 \in Seq(S)
    BY ONLY <2>1, <2>4, ConcatProperties
  <2> HIDE DEF m5
  <2>6. m6 \in Seq(S)
    BY ONLY <2>1, <2>5, ConcatProperties
  <2>7. QED
    BY ONLY <2>2, <2>3, <2>4, <2>5, <2>6
<1> HIDE DEF m2, m3, m4, m5, m6
<1>9. \A k \in Singles : PutsIn(<<d(k)>>, {d(k)}, {d(k).at})
  BY OnePut
<1> DEFINE y1 == from + 1
           y2 == from + 2
           y3 == from + 3
           y4 == from + 4
           y5 == from + 5
           y6 == from + 6
<1>10. /\ PutsIn(<<d(1)>>, {d(1)}, from..(y1 - 1)) /\ PutsIn(<<d(4)>>, {d(4)}, y1..(y2 - 1))
       /\ PutsIn(<<d(5)>>, {d(5)}, y2..(y3 - 1)) /\ PutsIn(<<d(6)>>, {d(6)}, y3..(y4 - 1))
       /\ PutsIn(<<d(7)>>, {d(7)}, y4..(y5 - 1)) /\ PutsIn(<<d(8)>>, {d(8)}, y5..(y6 - 1))
  <2> HIDE DEF d
  <2>2. /\ {from} = from..(y1 - 1) /\ {y1} = y1..(y2 - 1) /\ {y2} = y2..(y3 - 1) /\ {y3} = y3..(y4 - 1)
        /\ {y4} = y4..(y5 - 1) /\ {y5} = y5..(y6 - 1)
    BY ONLY from \in Int
  <2>3. 1 \in Singles /\ 4 \in Singles /\ 5 \in Singles /\ 6 \in Singles /\ 7 \in Singles /\ 8 \in Singles
    BY DEF Singles
  <2>4. QED
    BY ONLY <1>3, <1>9, <2>2, <2>3
<1>11. \A k \in Singles : DescPuts(m(k)) = <<d(k)>>
  BY <1>7
<1> HIDE DEF d
<1>12. /\ from \in Int /\ y1 \in Int /\ y2 \in Int /\ y3 \in Int /\ y4 \in Int /\ y5 \in Int /\ y6 \in Int
       /\ from <= y1 /\ y1 <= y2 /\ y2 <= y3 /\ y3 <= y4 /\ y4 <= y5 /\ y5 <= y6
       /\ from <= y2 /\ from <= y3 /\ from <= y4 /\ from <= y5 /\ y6 - 1 = from + 5
  BY ONLY from \in Int
<1> HIDE DEF y1, y2, y3, y4, y5, y6
<1>13. PutsIn(DescPuts(m2), {d(1), d(4)}, from..(y2 - 1))
  <2>1. BothSeq(S, m(1), m(4))
    BY ONLY <1>7, <1>8 DEF BothSeq, Singles
  <2>2. DescPuts(m2) = DescPuts(m(1)) \o DescPuts(m(4))
    BY ONLY <2>1, DescPutsJoined DEF m2
  <2>3. DescPuts(m(4)) = <<d(4)>> /\ DescPuts(m(1)) = <<d(1)>>
    BY ONLY <1>11 DEF Singles
  <2>4. PutsIn(DescPuts(m(1)), {d(1)}, from..(y1 - 1))
    BY ONLY <1>10, <2>3
  <2>5. PutsIn(DescPuts(m(1)) \o <<d(4)>>, {d(1)} \cup {d(4)}, from..(y2 - 1))
    BY ONLY <1>10, <1>12, <2>4, JoinedNext
  <2>6. {d(1), d(4)} = {d(1)} \cup {d(4)}
    OBVIOUS
  <2>7. QED
    BY ONLY <2>2, <2>3, <2>5, <2>6
<1>14. PutsIn(DescPuts(m3), {d(1), d(4), d(5)}, from..(y3 - 1))
  <2>1. BothSeq(S, m2, m(5))
    BY ONLY <1>7, <1>8 DEF BothSeq, Singles
  <2>2. DescPuts(m3) = DescPuts(m2) \o DescPuts(m(5))
    BY ONLY <2>1, DescPutsJoined DEF m3
  <2>3. DescPuts(m(5)) = <<d(5)>>
    BY ONLY <1>11 DEF Singles
  <2>4. PutsIn(DescPuts(m2), {d(1), d(4)}, from..(y2 - 1))
    BY ONLY <1>13
  <2>5. PutsIn(DescPuts(m2) \o <<d(5)>>, {d(1), d(4)} \cup {d(5)}, from..(y3 - 1))
    BY ONLY <1>10, <1>12, <2>4, JoinedNext
  <2>6. {d(1), d(4), d(5)} = {d(1), d(4)} \cup {d(5)}
    OBVIOUS
  <2>7. QED
    BY ONLY <2>2, <2>3, <2>5, <2>6
<1>15. PutsIn(DescPuts(m4), {d(1), d(4), d(5), d(6)}, from..(y4 - 1))
  <2>1. BothSeq(S, m3, m(6))
    BY ONLY <1>7, <1>8 DEF BothSeq, Singles
  <2>2. DescPuts(m4) = DescPuts(m3) \o DescPuts(m(6))
    BY ONLY <2>1, DescPutsJoined DEF m4
  <2>3. DescPuts(m(6)) = <<d(6)>>
    BY ONLY <1>11 DEF Singles
  <2>4. PutsIn(DescPuts(m3), {d(1), d(4), d(5)}, from..(y3 - 1))
    BY ONLY <1>14
  <2>5. PutsIn(DescPuts(m3) \o <<d(6)>>, {d(1), d(4), d(5)} \cup {d(6)}, from..(y4 - 1))
    BY ONLY <1>10, <1>12, <2>4, JoinedNext
  <2>6. {d(1), d(4), d(5), d(6)} = {d(1), d(4), d(5)} \cup {d(6)}
    OBVIOUS
  <2>7. QED
    BY ONLY <2>2, <2>3, <2>5, <2>6
<1>16. PutsIn(DescPuts(m5), {d(1), d(4), d(5), d(6), d(7)}, from..(y5 - 1))
  <2>1. BothSeq(S, m4, m(7))
    BY ONLY <1>7, <1>8 DEF BothSeq, Singles
  <2>2. DescPuts(m5) = DescPuts(m4) \o DescPuts(m(7))
    BY ONLY <2>1, DescPutsJoined DEF m5
  <2>3. DescPuts(m(7)) = <<d(7)>>
    BY ONLY <1>11 DEF Singles
  <2>4. PutsIn(DescPuts(m4), {d(1), d(4), d(5), d(6)}, from..(y4 - 1))
    BY ONLY <1>15
  <2>5. PutsIn(DescPuts(m4) \o <<d(7)>>, {d(1), d(4), d(5), d(6)} \cup {d(7)}, from..(y5 - 1))
    BY ONLY <1>10, <1>12, <2>4, JoinedNext
  <2>6. {d(1), d(4), d(5), d(6), d(7)} = {d(1), d(4), d(5), d(6)} \cup {d(7)}
    OBVIOUS
  <2>7. QED
    BY ONLY <2>2, <2>3, <2>5, <2>6
<1>17. PutsIn(DescPuts(m6), {d(1), d(4), d(5), d(6), d(7), d(8)}, from..(y6 - 1))
  <2>1. BothSeq(S, m5, m(8))
    BY ONLY <1>7, <1>8 DEF BothSeq, Singles
  <2>2. DescPuts(m6) = DescPuts(m5) \o DescPuts(m(8))
    BY ONLY <2>1, DescPutsJoined DEF m6
  <2>3. DescPuts(m(8)) = <<d(8)>>
    BY ONLY <1>11 DEF Singles
  <2>4. PutsIn(DescPuts(m5), {d(1), d(4), d(5), d(6), d(7)}, from..(y5 - 1))
    BY ONLY <1>16
  <2>5. PutsIn(DescPuts(m5) \o <<d(8)>>, {d(1), d(4), d(5), d(6), d(7)} \cup {d(8)}, from..(y6 - 1))
    BY ONLY <1>10, <1>12, <2>4, JoinedNext
  <2>6. {d(1), d(4), d(5), d(6), d(7), d(8)} = {d(1), d(4), d(5), d(6), d(7)} \cup {d(8)}
    OBVIOUS
  <2>7. QED
    BY ONLY <2>2, <2>3, <2>5, <2>6
<1>18. InOrder(s) = m6
  BY ONLY <1>6 DEF m6, m5, m4, m3, m2
<1>19. SequenceSet(s) = {d(1), d(4), d(5), d(6), d(7), d(8)}
  <2>1. SequenceSet(s) = {d(k) : k \in Singles}
    BY DEF SequenceSet, d
  <2>2. QED
    BY ONLY <2>1 DEF Singles
<1>20. QED
  BY ONLY <1>8, <1>12, <1>17, <1>18, <1>19
LEMMA SeqWithin ==
  ASSUME NEW S, NEW T, NEW s, s \in Seq(S), S \subseteq T
  PROVE  s \in Seq(T)
<1>1. s = [i \in 1..Len(s) |-> s[i]] /\ Len(s) \in Nat /\ \A i \in 1..Len(s) : s[i] \in T
  OBVIOUS
<1>2. QED
  BY ONLY <1>1

LEMMA TwoPuts ==
  ASSUME NEW p, NEW q, NEW A, p.at \in A, q.at \in A, p.at # q.at
  PROVE  PutsIn(<<p, q>>, {p, q}, A)
<1>1. <<p, q>> \in Seq({p, q}) /\ {p, q} = Ran(<<p, q>>)
  BY DEF Ran
<1>2. \A i, j \in 1..Len(<<p, q>>) : <<p, q>>[i].at = <<p, q>>[j].at => i = j
  OBVIOUS
<1>3. QED
  BY <1>1, <1>2 DEF PutsIn
LEMMA DescPutsTwo ==
  ASSUME NEW m, NEW n
  PROVE  DescPuts(<<m, n>>) = <<DescPut(m), DescPut(n)>>
  BY DEF DescPuts, DescPut

\* Descriptors one list after the other.
AllSeqs(S, a, b, c, d, e) == a \in Seq(S) /\ b \in Seq(S) /\ c \in Seq(S) /\ d \in Seq(S) /\ e \in Seq(S)
LEMMA DescPutsAll ==
  ASSUME NEW S, NEW a, NEW b, NEW c, NEW d, NEW e, AllSeqs(S, a, b, c, d, e)
  PROVE  DescPuts(a \o b \o c \o d \o e)
           = DescPuts(a) \o DescPuts(b) \o DescPuts(c) \o DescPuts(d) \o DescPuts(e)
<1> DEFINE s2 == a \o b
           s3 == s2 \o c
           s4 == s3 \o d
<1>1. s2 \in Seq(S)
  BY ONLY AllSeqs(S, a, b, c, d, e), ConcatProperties DEF AllSeqs
<1>2. DescPuts(s2) = DescPuts(a) \o DescPuts(b)
  <2>1. BothSeq(S, a, b)
    BY DEF BothSeq, AllSeqs
  <2>2. QED
    BY ONLY <2>1, DescPutsJoined
<1> HIDE DEF s2
<1>3. s3 \in Seq(S)
  BY ONLY AllSeqs(S, a, b, c, d, e), <1>1, ConcatProperties DEF AllSeqs
<1>4. DescPuts(s3) = DescPuts(s2) \o DescPuts(c)
  <2>1. BothSeq(S, s2, c)
    BY <1>1 DEF BothSeq, AllSeqs
  <2>2. QED
    BY ONLY <2>1, DescPutsJoined
<1> HIDE DEF s3
<1>5. s4 \in Seq(S)
  BY ONLY AllSeqs(S, a, b, c, d, e), <1>3, ConcatProperties DEF AllSeqs
<1>6. DescPuts(s4) = DescPuts(s3) \o DescPuts(d)
  <2>1. BothSeq(S, s3, d)
    BY <1>3 DEF BothSeq, AllSeqs
  <2>2. QED
    BY ONLY <2>1, DescPutsJoined
<1> HIDE DEF s4
<1>7. DescPuts(s4 \o e) = DescPuts(s4) \o DescPuts(e)
  <2>1. BothSeq(S, s4, e)
    BY <1>5 DEF BothSeq, AllSeqs
  <2>2. QED
    BY ONLY <2>1, DescPutsJoined
<1>8. QED
  BY ONLY <1>2, <1>4, <1>6, <1>7 DEF s4, s3, s2

\* All descriptors but those of the partition.
DescLists(v) == InOrder(v.main) \o InOrder(v.reserve) \o v.lvid \o v.lvidEnd \o v.anchors
DescSet(v) ==
  IF ~v.udf THEN {}
  ELSE SequenceSet(v.main) \cup SequenceSet(v.reserve) \cup {DescPut(v.lvid[1])} \cup {DescPut(v.lvidEnd[1])}
         \cup {DescPut(v.anchors[1]), DescPut(v.anchors[2])}
DescPlaces(v) ==
  IF ~v.udf THEN {} ELSE 32..(32 + 5) \cup 48..(48 + 5) \cup {64} \cup {65} \cup {256, EndAt(v)}
LEMMA DescListsNone ==
  ASSUME NEW v, NoUdf(v)
  PROVE  DescPuts(DescLists(v)) = <<>>
<1>1. DOMAIN NewSequence = {1, 3, 4, 5, 6, 7, 8}
  BY DEF NewSequence
<1>2. \A k \in {1, 3, 4, 5, 6, 7, 8} : NoSequence[k] = <<>>
  BY <1>1 DEF NoSequence
<1>3. <<>> \o <<>> = <<>>
  BY ConcatEmptySeq, EmptySeq
<1>4. InOrder(NoSequence) = <<>>
  <2>1. InOrder(NoSequence) = <<>> \o <<>> \o <<>> \o <<>> \o <<>> \o <<>> \o <<>>
    BY ONLY <1>2 DEF InOrder
  <2>2. QED
    BY ONLY <1>3, <2>1
<1>5. DescLists(v) = <<>> \o <<>> \o <<>> \o <<>> \o <<>>
  BY ONLY <1>4, NoUdf(v) DEF DescLists, NoUdf
<1>6. QED
  BY ONLY <1>3, <1>5, DescPutsNone
LEMMA LaidUdf2 ==
  ASSUME NEW v, Laid(v), v.udf
  PROVE  /\ SequenceAt(v.main, 32, EndAt(v) - PartStart) /\ SequenceAt(v.reserve, 48, EndAt(v) - PartStart)
         /\ v.lvid = <<v.lvid[1]>> /\ v.lvidEnd = <<v.lvidEnd[1]>> /\ v.anchors = <<v.anchors[1], v.anchors[2]>>
         /\ v.lvid[1].extent = 64 /\ v.lvidEnd[1].extent = 65
         /\ v.anchors[1].extent = 256 /\ v.anchors[2].extent = EndAt(v)
         /\ v.set = <<v.set[1]>> /\ v.setEnd = <<v.setEnd[1]>>
         /\ v.set[1].extent = PartStart /\ v.setEnd[1].extent = PartStart + 1
         /\ v.at.root = RootAt /\ v.at.idents = RootAt + 1 /\ (v.catalog => v.at.catalogFe = RootAt + 2)
<1>1. OwnUdf(v) /\ UdfPlaced(v)
  BY OwnHas DEF Laid, Placed
<1>2. SequenceIs(v.main, 32, v) /\ SequenceIs(v.reserve, 48, v)
  BY <1>1 DEF UdfPlaced
<1>3. SequenceAt(v.main, 32, EndAt(v) - PartStart) /\ SequenceAt(v.reserve, 48, EndAt(v) - PartStart)
  BY ONLY <1>2 DEF SequenceIs, SequenceAt
<1>4. QED
  BY <1>1, <1>3 DEF UdfPlaced, OwnUdf, PlacedAt
LEMMA DescPutsAre ==
  ASSUME NEW v, Laid(v)
  PROVE  PutsIn(DescPuts(DescLists(v)), DescSet(v), DescPlaces(v))
<1>0. Own(v) /\ v.udf \in BOOLEAN /\ (~v.udf => NoUdf(v))
  BY OwnHas DEF Laid
<1>1. CASE ~v.udf
  BY <1>0, <1>1, DescListsNone, NoPuts DEF DescSet, DescPlaces
<1>2. CASE v.udf
  <2> DEFINE a == InOrder(v.main)
             b == InOrder(v.reserve)
             A == 32..(32 + 5)
             B == 48..(48 + 5)
  <2>0. SequenceAt(v.main, 32, EndAt(v) - PartStart) /\ SequenceAt(v.reserve, 48, EndAt(v) - PartStart)
    BY <1>2, LaidUdf2
  <2>1. PutsIn(DescPuts(a), SequenceSet(v.main), A) /\ \E S : a \in Seq(S)
    <3>1. 32 \in Int
      OBVIOUS
    <3>2. QED
      BY ONLY <2>0, <3>1, SequencePuts
  <2>2. PutsIn(DescPuts(b), SequenceSet(v.reserve), B) /\ \E S : b \in Seq(S)
    <3>1. 48 \in Int
      OBVIOUS
    <3>2. QED
      BY ONLY <2>0, <3>1, SequencePuts
  <2> DEFINE x == v.lvid[1]
             y == v.lvidEnd[1]
             z1 == v.anchors[1]
             z2 == v.anchors[2]
  <2>3. /\ v.lvid = <<x>> /\ v.lvidEnd = <<y>> /\ v.anchors = <<z1, z2>>
        /\ x.extent = 64 /\ y.extent = 65 /\ z1.extent = 256 /\ z2.extent = EndAt(v)
    BY <1>2, LaidUdf2
  <2>4. EndAt(v) \in Nat /\ EndAt(v) > 260
    <3>1. Places(v)
      BY <1>0, OwnPlaces
    <3>2. QED
      BY ONLY <1>2, <3>1 DEF Places
  <2> HIDE DEF a, b, A, B, x, y, z1, z2
  <2>5. PICK S1 : a \in Seq(S1)
    BY <2>1
  <2>6. PICK S2 : b \in Seq(S2)
    BY <2>2
  <2> DEFINE S == S1 \cup S2 \cup {x, y, z1, z2}
  <2>7. AllSeqs(S, a, b, <<x>>, <<y>>, <<z1, z2>>)
    <3>1. a \in Seq(S) /\ b \in Seq(S)
      BY <2>5, <2>6, SeqWithin
    <3>2. <<x>> \in Seq(S) /\ <<y>> \in Seq(S) /\ <<z1, z2>> \in Seq(S)
      OBVIOUS
    <3>3. QED
      BY ONLY <3>1, <3>2 DEF AllSeqs
  <2> HIDE DEF S
  <2>8. DescPuts(DescLists(v)) = DescPuts(a) \o DescPuts(b) \o DescPuts(<<x>>) \o DescPuts(<<y>>) \o DescPuts(<<z1, z2>>)
    <3> DEFINE c == <<x>>
               d == <<y>>
               e == <<z1, z2>>
    <3>1. AllSeqs(S, a, b, c, d, e)
      BY ONLY <2>7
    <3>2. DescLists(v) = a \o b \o c \o d \o e
      BY ONLY <2>3 DEF DescLists, a, b
    <3> HIDE DEF c, d, e
    <3>3. DescPuts(a \o b \o c \o d \o e)
            = DescPuts(a) \o DescPuts(b) \o DescPuts(c) \o DescPuts(d) \o DescPuts(e)
      BY ONLY <3>1, DescPutsAll
    <3>4. QED
      BY ONLY <3>2, <3>3 DEF c, d, e
  <2>9. /\ DescPuts(<<x>>) = <<DescPut(x)>> /\ DescPuts(<<y>>) = <<DescPut(y)>>
        /\ DescPuts(<<z1, z2>>) = <<DescPut(z1), DescPut(z2)>>
    BY DescPutsOne, DescPutsTwo
  <2>10. DescPut(x).at = 64 /\ DescPut(y).at = 65 /\ DescPut(z1).at = 256 /\ DescPut(z2).at = EndAt(v)
    BY <2>3 DEF DescPut, Put
  <2>11. /\ PutsIn(<<DescPut(x)>>, {DescPut(x)}, {64}) /\ PutsIn(<<DescPut(y)>>, {DescPut(y)}, {65})
         /\ PutsIn(<<DescPut(z1), DescPut(z2)>>, {DescPut(z1), DescPut(z2)}, {256, EndAt(v)})
    <3>1. 256 # EndAt(v)
      BY ONLY <2>4
    <3>2. QED
      BY ONLY <2>10, <3>1, OnePut, TwoPuts
  <2>12. /\ A \cap B = {} /\ (A \cup B) \cap {64} = {} /\ (A \cup B \cup {64}) \cap {65} = {}
         /\ (A \cup B \cup {64} \cup {65}) \cap {256, EndAt(v)} = {}
    BY ONLY <2>4 DEF A, B
  <2>13. PutsIn(DescPuts(a) \o DescPuts(b), SequenceSet(v.main) \cup SequenceSet(v.reserve), A \cup B)
    BY ONLY <2>1, <2>2, <2>12, Joined
  <2> DEFINE s2 == DescPuts(a) \o DescPuts(b)
             t2 == SequenceSet(v.main) \cup SequenceSet(v.reserve)
             A2 == A \cup B
             s3 == s2 \o <<DescPut(x)>>
             t3 == t2 \cup {DescPut(x)}
             A3 == A2 \cup {64}
             s4 == s3 \o <<DescPut(y)>>
             t4 == t3 \cup {DescPut(y)}
             A4 == A3 \cup {65}
  <2>14. PutsIn(s3, t3, A3)
    BY ONLY <2>11, <2>12, <2>13, Joined
  <2>15. PutsIn(s4, t4, A4)
    <3>1. A3 \cap {65} = {}
      BY ONLY <2>12
    <3> HIDE DEF s3, t3, A3
    <3>2. QED
      BY ONLY <2>11, <2>14, <3>1, Joined
  <2>16. PutsIn(s4 \o <<DescPut(z1), DescPut(z2)>>, t4 \cup {DescPut(z1), DescPut(z2)}, A4 \cup {256, EndAt(v)})
    <3>1. A4 \cap {256, EndAt(v)} = {}
      BY ONLY <2>12
    <3> HIDE DEF s4, t4, A4
    <3>2. QED
      BY ONLY <2>11, <2>15, <3>1, Joined
  <2>17. DescPuts(DescLists(v)) = s4 \o <<DescPut(z1), DescPut(z2)>>
    BY ONLY <2>8, <2>9
  <2>18. DescSet(v) = t4 \cup {DescPut(z1), DescPut(z2)}
    BY <1>2 DEF DescSet, x, y, z1, z2
  <2>19. DescPlaces(v) = A4 \cup {256, EndAt(v)}
    BY <1>2 DEF DescPlaces, A, B
  <2>20. QED
    BY ONLY <2>16, <2>17, <2>18, <2>19
<1>3. QED
  BY <1>0, <1>1, <1>2
\* The catalog and the trees of directory records.
CatalogPut(v) == Put(CatalogAt(v), [k |-> "catalog", boot |-> {v.files[f].ext : f \in v.boot}])
CatalogList(v) ==
  IF v.catalog THEN <<Put(v.at.catalog, [k |-> "catalog", boot |-> {v.files[f].ext : f \in v.boot}])>> ELSE <<>>
CatalogSet(v) == IF v.catalog THEN {CatalogPut(v)} ELSE {}
LEMMA CatalogPutsAre ==
  ASSUME NEW v, Laid(v)
  PROVE  PutsIn(CatalogList(v), CatalogSet(v), IF v.catalog THEN {CatalogAt(v)} ELSE {})
<1>1. v.catalog => v.at.catalog = CatalogAt(v)
  BY DEF Laid, Placed
<1>2. CatalogPut(v).at = CatalogAt(v)
  BY DEF CatalogPut, Put
<1>3. CatalogList(v) = IF v.catalog THEN <<CatalogPut(v)>> ELSE <<>>
  BY <1>1 DEF CatalogList, CatalogPut
<1>4. QED
  BY <1>2, <1>3, OnePut, NoPuts DEF CatalogSet

LEMMA ThreePuts ==
  ASSUME NEW p, NEW q, NEW r, p.at # q.at, p.at # r.at, q.at # r.at
  PROVE  PutsIn(<<p, q, r>>, {p, q, r}, {p.at, q.at, r.at})
<1>1. <<p, q, r>> \in Seq({p, q, r}) /\ {p, q, r} = Ran(<<p, q, r>>)
  BY DEF Ran
<1>2. \A i, j \in 1..Len(<<p, q, r>>) : <<p, q, r>>[i].at = <<p, q, r>>[j].at => i = j
  OBVIOUS
<1>3. QED
  BY <1>1, <1>2 DEF PutsIn

TreeSet(le, be, root, dir) == {Put(le, Table("le", root)), Put(be, Table("be", root)), Put(root, dir)}
LEMMA TreePutsAre ==
  ASSUME NEW le \in Int, NEW be \in Int, NEW root \in Int, NEW dir, le < be, be < root
  PROVE  PutsIn(<<Put(le, Table("le", root)), Put(be, Table("be", root)), Put(root, dir)>>,
                TreeSet(le, be, root, dir), {le, be, root})
<1> DEFINE p == Put(le, Table("le", root))
           q == Put(be, Table("be", root))
           r == Put(root, dir)
<1>1. p.at = le /\ q.at = be /\ r.at = root
  BY DEF Put
<1>2. TreeSet(le, be, root, dir) = {p, q, r}
  BY DEF TreeSet
<1> HIDE DEF p, q, r
<1>3. PutsIn(<<p, q, r>>, {p, q, r}, {p.at, q.at, r.at})
  BY ONLY <1>1, le \in Int, be \in Int, root \in Int, le < be, be < root, ThreePuts
<1>4. QED
  BY ONLY <1>1, <1>2, <1>3 DEF p, q, r

UsesBlock(v) == UsedBlocks(v) # {}
IsoSet(v) ==
  TreeSet(TreeStart(v), TreeStart(v) + 2, IsoAt(v), DirBlock(v, "iso"))
    \cup (IF v.rr THEN {Put(ErAt(v), [k |-> "er"])} ELSE {})
    \cup (IF UsesBlock(v) THEN {Put(IsoAt(v) + 1, [k |-> "ce"])} ELSE {})
IsoPlaces(v) ==
  {TreeStart(v), TreeStart(v) + 2, IsoAt(v)} \cup (IF v.rr THEN {ErAt(v)} ELSE {})
    \cup (IF UsesBlock(v) THEN {IsoAt(v) + 1} ELSE {})
LEMMA IsoPutsAre ==
  ASSUME NEW v, Laid(v)
  PROVE  PutsIn(IsoPuts(v), IsoSet(v), IsoPlaces(v))
<1>1. Own(v) /\ Placed(v)
  BY DEF Laid
<1>2. /\ v.at.le = TreeStart(v) /\ v.at.be = TreeStart(v) + 2 /\ v.at.iso = IsoAt(v)
      /\ v.rr => v.at.er = ErAt(v)
      /\ UsesBlock(v) => v.at.ce = IsoAt(v) + 1
  BY <1>1 DEF Placed, UsesBlock
<1>3. /\ TreeStart(v) \in Nat /\ IsoAt(v) \in Nat /\ ErAt(v) \in Nat
      /\ IsoAt(v) >= TreeStart(v) + 4 /\ ErAt(v) > IsoAt(v)
      /\ UsesBlock(v) => ErAt(v) > IsoAt(v) + 1
  <2>1. Places(v)
    BY <1>1, OwnPlaces
  <2>2. UsesBlock(v) \in BOOLEAN /\ Cardinality(UsedBlocks(v)) = IF UsesBlock(v) THEN 1 ELSE 0
    BY <2>1 DEF Places, UsesBlock
  <2>3. QED
    BY ONLY <2>1, <2>2 DEF Places
<1>4. (\E f \in InTree(v, "iso") : v.files[f].ce # "none") <=> UsesBlock(v)
  BY DEF UsesBlock, UsedBlocks
<1> DEFINE a == TreeStart(v)
           b == TreeStart(v) + 2
           c == IsoAt(v)
           dir == DirBlock(v, "iso")
           s == <<Put(a, Table("le", c)), Put(b, Table("be", c)), Put(c, dir)>>
           er == Put(ErAt(v), [k |-> "er"])
           ce == Put(IsoAt(v) + 1, [k |-> "ce"])
           t == IF v.rr THEN <<er>> ELSE <<>>
           u == IF UsesBlock(v) THEN <<ce>> ELSE <<>>
           T == IF v.rr THEN {er} ELSE {}
           U == IF UsesBlock(v) THEN {ce} ELSE {}
           Ta == IF v.rr THEN {ErAt(v)} ELSE {}
           Ua == IF UsesBlock(v) THEN {c + 1} ELSE {}
<1>5. IsoPuts(v) = s \o t \o u
  BY <1>2, <1>4 DEF IsoPuts
<1>6. IsoSet(v) = TreeSet(a, b, c, dir) \cup T \cup U /\ IsoPlaces(v) = {a, b, c} \cup Ta \cup Ua
  BY DEF IsoSet, IsoPlaces
<1>7. er.at = ErAt(v) /\ ce.at = c + 1
  BY DEF Put
<1> HIDE DEF er, ce
<1>8. PutsIn(t, T, Ta) /\ PutsIn(u, U, Ua)
  <2>1. PutsIn(<<er>>, {er}, {ErAt(v)}) /\ PutsIn(<<ce>>, {ce}, {c + 1})
    BY ONLY <1>7, OnePut
  <2>2. QED
    BY ONLY <2>1, NoPuts
<1>9. PutsIn(s, TreeSet(a, b, c, dir), {a, b, c})
  <2>1. a \in Int /\ b \in Int /\ c \in Int /\ a < b /\ b < c
    BY ONLY <1>3
  <2> HIDE DEF a, b, c, dir
  <2>2. QED
    BY ONLY <2>1, TreePutsAre
<1>10. {a, b, c} \cap Ta = {} /\ ({a, b, c} \cup Ta) \cap Ua = {}
  BY ONLY <1>3
<1> HIDE DEF a, b, c, s, t, u, T, U, Ta, Ua, dir
<1>11. PutsIn(s \o t, TreeSet(a, b, c, dir) \cup T, {a, b, c} \cup Ta)
  BY ONLY <1>8, <1>9, <1>10, Joined
<1> DEFINE x == s \o t
           X == TreeSet(a, b, c, dir) \cup T
           Xa == {a, b, c} \cup Ta
<1>12. PutsIn(x, X, Xa) /\ Xa \cap Ua = {}
  BY ONLY <1>10, <1>11
<1> HIDE DEF x, X, Xa
<1>13. PutsIn(x \o u, X \cup U, Xa \cup Ua)
  BY ONLY <1>8, <1>12, Joined
<1>14. QED
  BY ONLY <1>5, <1>6, <1>13 DEF x, X, Xa

JolietSet(v) ==
  IF ~v.joliet THEN {} ELSE TreeSet(TreeStart(v) + 4, TreeStart(v) + 6, JolietAt(v), DirBlock(v, "joliet"))
JolietPlaces(v) == IF ~v.joliet THEN {} ELSE {TreeStart(v) + 4, TreeStart(v) + 6, JolietAt(v)}
LEMMA JolietPutsAre ==
  ASSUME NEW v, Laid(v)
  PROVE  PutsIn(JolietPuts(v), JolietSet(v), JolietPlaces(v))
<1>1. Own(v) /\ Placed(v) /\ v.joliet \in BOOLEAN
  BY OwnHas DEF Laid
<1>2. CASE ~v.joliet
  BY <1>2, NoPuts DEF JolietPuts, JolietSet, JolietPlaces
<1>3. CASE v.joliet
  <2>1. v.at.jle = TreeStart(v) + 4 /\ v.at.jbe = TreeStart(v) + 6 /\ v.at.joliet = JolietAt(v)
    BY <1>1, <1>3 DEF Placed
  <2> DEFINE a == TreeStart(v) + 4
             b == TreeStart(v) + 6
             c == JolietAt(v)
             dir == DirBlock(v, "joliet")
  <2>2. a \in Int /\ b \in Int /\ c \in Int /\ a < b /\ b < c
    <3>1. Places(v)
      BY <1>1, OwnPlaces
    <3>2. Cardinality(UsedBlocks(v)) \in 0..1 /\ One(v.joliet) = 1
      BY <1>3, <3>1 DEF Places, One
    <3>3. QED
      BY ONLY <3>1, <3>2 DEF Places
  <2>3. JolietPuts(v) = <<Put(a, Table("le", c)), Put(b, Table("be", c)), Put(c, dir)>>
    BY <1>3, <2>1 DEF JolietPuts
  <2>4. JolietSet(v) = TreeSet(a, b, c, dir) /\ JolietPlaces(v) = {a, b, c}
    BY <1>3 DEF JolietSet, JolietPlaces
  <2> HIDE DEF a, b, c, dir
  <2>5. QED
    BY ONLY <2>2, <2>3, <2>4, TreePutsAre
<1>4. QED
  BY <1>1, <1>2, <1>3
\* The partition.
LEMMA RankBelow ==
  ASSUME NEW S \in SUBSET Int, IsFiniteSet(S), NEW n \in S
  PROVE  Cardinality({g \in S : g < n}) = Rank(S, n) - 1
<1> DEFINE B == {g \in S : g < n}
<1>1. UpToHere(S, n) = B \cup {n} /\ n \notin B
  <2>1. n \in Int /\ \A x \in S : x <= n <=> x < n \/ x = n
    OBVIOUS
  <2>2. \A x : x \in UpToHere(S, n) <=> x \in S /\ x <= n
    BY DEF UpToHere
  <2>3. \A x : x \in B \cup {n} <=> x \in S /\ x <= n
    <3>1. \A x : x \in B <=> x \in S /\ x < n
      OBVIOUS
    <3>2. n <= n
      BY <2>1
    <3> HIDE DEF B
    <3>3. QED
      BY <2>1, <3>1, <3>2
  <2>4. ~(n < n)
    BY <2>1
  <2>5. QED
    BY <2>2, <2>3, <2>4
<1>2. IsFiniteSet(B)
  BY FS_Subset
<1> HIDE DEF B
<1>3. Cardinality(B \cup {n}) = Cardinality(B) + 1 /\ Cardinality(B) \in Nat
  BY <1>1, <1>2, FS_AddElement, FS_CardinalityType
<1>4. QED
  BY <1>1, <1>3 DEF Rank, B

RelFe(e, len, n, at) == Put(e, FileEntry(e - PartStart, len, n, IF at = 0 THEN 0 ELSE at - PartStart))
EntryPut(v, f) == RelFe(EntryAtOf(v, f), v.files[f].len, v.files[f].bytes["udf"], v.files[f].ext)
IdentsPut(v) ==
  Put(RootAt + 1, [k |-> "idents", catalog |-> IF v.catalog THEN RootAt + 2 - PartStart ELSE 0,
                   recs |-> [f \in InTree(v, "udf") |-> v.files[f].fe - PartStart]])
EntryList(v) ==
  LET files == InOrderOf(EntryFiles(v))
  IN [i \in 1..Len(files) |->
        RelFe(v.files[files[i]].fe, v.files[files[i]].len, v.files[files[i]].bytes["udf"], v.files[files[i]].ext)]
LEMMA EntryPutsAre ==
  ASSUME NEW v, Laid(v)
  PROVE  PutsIn(EntryList(v), {EntryPut(v, f) : f \in InTree(v, "udf")},
                EntriesAt(v)..(EntriesAt(v) + Cardinality(InTree(v, "udf")) - 1))
<1> DEFINE S == InTree(v, "udf")
           fs == InOrderOf(S)
           n == Cardinality(S)
           a == EntriesAt(v)
           s == EntryList(v)
<1>1. Own(v) /\ OwnFiles(v) /\ Placed(v)
  BY OwnHas DEF Laid
<1>2. EntryFiles(v) = S /\ S \in SUBSET Files /\ \A f \in S : EntryOf(v, f) = f
  BY <1>1, OwnFilesHave
<1>3. IsFiniteSet(S) /\ S \in SUBSET Int
  BY <1>2, FilesFinite
<1>4. a \in Int
  <2>1. Places(v)
    BY <1>1, OwnPlaces
  <2>2. QED
    BY <2>1 DEF Places
<1>5. \A f \in S : v.files[f].fe = EntryAtOf(v, f)
  BY <1>1 DEF Placed
<1>6. \A f \in S : EntryAtOf(v, f) = a + (Rank(S, f) - 1)
  <2> TAKE f \in S
  <2>1. EntryAtOf(v, f) = a + Cardinality({g \in S : g < f})
    BY <1>2 DEF EntryAtOf
  <2>2. Cardinality({g \in S : g < f}) = Rank(S, f) - 1
    BY <1>3, RankBelow
  <2>3. QED
    BY ONLY <2>1, <2>2
<1> HIDE DEF S
<1>7. /\ fs \in Seq(S) /\ Len(fs) = n /\ n \in Nat
      /\ \A i \in 1..n : fs[i] \in S /\ Rank(S, fs[i]) = i
      /\ \A f \in S : Rank(S, f) \in 1..n /\ fs[Rank(S, f)] = f
  BY <1>3, Ordered
<1>8. s = [i \in 1..n |-> RelFe(v.files[fs[i]].fe, v.files[fs[i]].len, v.files[fs[i]].bytes["udf"], v.files[fs[i]].ext)]
  BY <1>2, <1>7 DEF EntryList
<1>9. \A i \in 1..n : s[i] = EntryPut(v, fs[i])
  BY <1>5, <1>7, <1>8 DEF EntryPut
<1>10. \A i \in 1..n : s[i].at = a + i - 1
  <2> TAKE i \in 1..n
  <2>1. s[i].at = EntryAtOf(v, fs[i])
    <3>1. s[i] = EntryPut(v, fs[i])
      BY <1>9
    <3>2. \A f : EntryPut(v, f).at = EntryAtOf(v, f)
      BY DEF EntryPut, RelFe, Put
    <3>3. QED
      BY ONLY <3>1, <3>2
  <2>2. EntryAtOf(v, fs[i]) = a + (i - 1)
    BY <1>6, <1>7
  <2> HIDE DEF a
  <2>3. QED
    BY ONLY <1>4, <1>7, <2>1, <2>2
<1>11. s = [i \in 1..n |-> s[i]]
  BY <1>8
<1>12. {s[i] : i \in 1..n} = {EntryPut(v, f) : f \in S}
  <2>1. \A f \in S : \E i \in 1..n : s[i] = EntryPut(v, f)
    BY <1>7, <1>9
  <2>2. \A i \in 1..n : \E f \in S : s[i] = EntryPut(v, f)
    BY <1>7, <1>9
  <2> HIDE DEF s, n
  <2>3. QED
    BY ONLY <2>1, <2>2
<1> HIDE DEF s, a, n
<1>13. PutsIn(s, {s[i] : i \in 1..n}, a..(a + n - 1))
  <2>1. n \in Nat
    BY <1>7
  <2>2. QED
    BY ONLY <1>4, <2>1, <1>10, <1>11, PutsListed
<1>14. QED
  BY ONLY <1>12, <1>13 DEF s, a, n, S

FeList(v) == IF v.catalog THEN <<RelFe(RootAt + 2, 1, 0, CatalogAt(v))>> ELSE <<>>
FeSet(v) == IF v.catalog THEN {RelFe(RootAt + 2, 1, 0, CatalogAt(v))} ELSE {}
UdfSet(v) ==
  IF ~v.udf THEN {}
  ELSE {DescPut(v.set[1]), DescPut(v.setEnd[1])} \cup {RelFe(RootAt, 1, 0, RootAt + 1), IdentsPut(v)}
         \cup FeSet(v) \cup {EntryPut(v, f) : f \in InTree(v, "udf")}
UdfPlaces(v) == IF ~v.udf THEN {} ELSE PartStart..(TreeStart(v) - 1)
LEMMA UdfListIs ==
  ASSUME NEW v, Laid(v), v.udf
  PROVE  UdfPuts(v) = <<DescPut(v.set[1]), DescPut(v.setEnd[1])>> \o <<RelFe(RootAt, 1, 0, RootAt + 1), IdentsPut(v)>>
                        \o FeList(v) \o EntryList(v)
<1>1. /\ v.set = <<v.set[1]>> /\ v.setEnd = <<v.setEnd[1]>> /\ v.set[1].extent = PartStart
      /\ v.at.root = RootAt /\ v.at.idents = RootAt + 1 /\ (v.catalog => v.at.catalogFe = RootAt + 2)
  BY LaidUdf2
<1>2. v.catalog => v.at.catalog = CatalogAt(v)
  BY DEF Laid, Placed
<1>3. DescPuts(v.set \o v.setEnd) = <<DescPut(v.set[1]), DescPut(v.setEnd[1])>>
  <2> DEFINE x == v.set[1]
             y == v.setEnd[1]
  <2>1. v.set \o v.setEnd = <<x>> \o <<y>>
    BY <1>1
  <2> HIDE DEF x, y
  <2>2. <<x>> \o <<y>> = <<x, y>>
    <3>1. ConcatHas({x, y}, <<x>>, <<y>>)
      <4> DEFINE p == <<x>>
                 f == <<y>>
      <4>1. p \in Seq({x, y}) /\ f \in Seq({x, y})
        OBVIOUS
      <4> HIDE DEF p, f
      <4>2. ConcatHas({x, y}, p, f)
        BY ONLY <4>1, Concats
      <4>3. QED
        BY <4>2 DEF p, f
    <3> DEFINE t == <<x>> \o <<y>>
               u == <<x, y>>
    <3>2. Len(<<x>>) = 1 /\ Len(<<y>>) = 1 /\ <<x>>[1] = x /\ <<y>>[1] = y /\ 1 \in 1..1
      OBVIOUS
    <3>3. Len(u) = 2 /\ u[1] = x /\ u[2] = y /\ u \in Seq({x, y})
      OBVIOUS
    <3>4. t \in Seq({x, y}) /\ Len(t) = 1 + 1 /\ t[1] = x /\ t[1 + 1] = y
      <4> DEFINE p == <<x>>
                 f == <<y>>
      <4> HIDE DEF p, f
      <4>1. Len(p) = 1 /\ Len(f) = 1 /\ p[1] = x /\ f[1] = y /\ ConcatHas({x, y}, p, f)
        BY <3>1, <3>2 DEF p, f
      <4>2. p \o f \in Seq({x, y}) /\ Len(p \o f) = 1 + 1 /\ (p \o f)[1] = x /\ (p \o f)[1 + 1] = y
        BY ONLY <3>2, <4>1 DEF ConcatHas
      <4>3. QED
        BY <4>2 DEF p, f
    <3> HIDE DEF t, u
    <3>5. \A i \in 1..2 : t[i] = u[i]
      BY <3>3, <3>4
    <3>6. t = u
      BY <3>3, <3>4, <3>5, SeqEqual
    <3>7. QED
      BY ONLY <3>6 DEF t, u
  <2>3. DescPuts(<<x, y>>) = <<DescPut(x), DescPut(y)>>
    BY DescPutsTwo
  <2>4. QED
    BY ONLY <2>1, <2>2, <2>3 DEF x, y
<1> DEFINE start == v.set[1].extent
           rel(e) == e - start
           fe(e, len, n, at) == Put(e, FileEntry(rel(e), len, n, IF at = 0 THEN 0 ELSE rel(at)))
           files == InOrderOf(EntryFiles(v))
<1>4. UdfPuts(v) =
        DescPuts(v.set \o v.setEnd)
          \o <<fe(v.at.root, 1, 0, v.at.idents),
               Put(v.at.idents,
                   [k |-> "idents", catalog |-> IF v.catalog THEN rel(v.at.catalogFe) ELSE 0,
                    recs |-> [f \in InTree(v, "udf") |-> rel(v.files[f].fe)]])>>
          \o (IF v.catalog THEN <<fe(v.at.catalogFe, 1, 0, v.at.catalog)>> ELSE <<>>)
          \o [i \in 1..Len(files) |-> fe(v.files[files[i]].fe, v.files[files[i]].len, v.files[files[i]].bytes["udf"], v.files[files[i]].ext)]
  BY DEF UdfPuts
<1>5. \A e, len, n, at : fe(e, len, n, at) = RelFe(e, len, n, at)
  BY <1>1 DEF RelFe
<1>6. Put(v.at.idents,
          [k |-> "idents", catalog |-> IF v.catalog THEN rel(v.at.catalogFe) ELSE 0,
           recs |-> [f \in InTree(v, "udf") |-> rel(v.files[f].fe)]]) = IdentsPut(v)
  <2>1. (IF v.catalog THEN rel(v.at.catalogFe) ELSE 0) = IF v.catalog THEN RootAt + 2 - PartStart ELSE 0
    <3>3. start = PartStart
      BY <1>1
    <3>1. ASSUME v.catalog PROVE rel(v.at.catalogFe) = RootAt + 2 - PartStart
      <4>1. v.at.catalogFe = RootAt + 2
        BY <1>1, <3>1
      <4> HIDE DEF start
      <4>2. v.at.catalogFe - start = RootAt + 2 - PartStart
        BY ONLY <3>3, <4>1 DEF RootAt, PartStart
      <4>3. QED
        BY <4>2
    <3> HIDE DEF rel
    <3>2. QED
      BY ONLY <3>1
  <2>2. \A e : rel(e) = e - PartStart
    BY <1>1
  <2> HIDE DEF rel
  <2>3. [f \in InTree(v, "udf") |-> rel(v.files[f].fe)] = [f \in InTree(v, "udf") |-> v.files[f].fe - PartStart]
    BY ONLY <2>2
  <2>4. QED
    BY ONLY <1>1, <2>1, <2>3 DEF IdentsPut
<1>7. [i \in 1..Len(files) |-> fe(v.files[files[i]].fe, v.files[files[i]].len, v.files[files[i]].bytes["udf"], v.files[files[i]].ext)] = EntryList(v)
  <2> HIDE DEF fe
  <2>1. QED
    BY <1>5 DEF EntryList
<1> HIDE DEF fe, rel, files
<1>8. fe(v.at.root, 1, 0, v.at.idents) = RelFe(RootAt, 1, 0, RootAt + 1)
  BY ONLY <1>1, <1>5
<1>9. (IF v.catalog THEN <<fe(v.at.catalogFe, 1, 0, v.at.catalog)>> ELSE <<>>) = FeList(v)
  BY ONLY <1>1, <1>2, <1>5 DEF FeList
<1>10. QED
  BY ONLY <1>3, <1>4, <1>6, <1>7, <1>8, <1>9
LEMMA UdfPutsAre ==
  ASSUME NEW v, Laid(v)
  PROVE  PutsIn(UdfPuts(v), UdfSet(v), UdfPlaces(v))
<1>1. Own(v) /\ v.udf \in BOOLEAN
  BY OwnHas DEF Laid
<1>2. CASE ~v.udf
  BY <1>2, NoPuts DEF UdfPuts, UdfSet, UdfPlaces
<1>3. CASE v.udf
  <2> DEFINE x == DescPut(v.set[1])
             y == DescPut(v.setEnd[1])
             r == RelFe(RootAt, 1, 0, RootAt + 1)
             q == IdentsPut(v)
             c == RelFe(RootAt + 2, 1, 0, CatalogAt(v))
             E == {EntryPut(v, f) : f \in InTree(v, "udf")}
             a == EntriesAt(v)
             m == One(v.catalog)
  <2>1. x.at = 257 /\ y.at = 258 /\ r.at = 259 /\ q.at = 260 /\ c.at = 261
    BY <1>3, LaidUdf2 DEF DescPut, RelFe, IdentsPut, Put, PartStart, RootAt
  <2>2. a = 261 + m /\ m \in 0..1 /\ TreeStart(v) = a + Cardinality(InTree(v, "udf")) /\ TreeStart(v) \in Nat
    <3>1. Places(v)
      BY <1>1, OwnPlaces
    <3>2. QED
      BY <1>3, <3>1 DEF Places
  <2>3. PutsIn(EntryList(v), E, a..(TreeStart(v) - 1))
    <3>1. PutsIn(EntryList(v), E, a..(a + Cardinality(InTree(v, "udf")) - 1))
      BY EntryPutsAre
    <3> DEFINE n == Cardinality(InTree(v, "udf"))
    <3>2. n \in Nat
      BY <1>1, <1>3, OwnPlaces DEF Places
    <3> HIDE DEF E, a, n, m
    <3>3. a + n - 1 = TreeStart(v) - 1
      BY ONLY <2>2, <3>2 DEF n
    <3>4. QED
      BY ONLY <3>1, <3>3 DEF n
  <2>4. UdfPuts(v) = <<x, y>> \o <<r, q>> \o FeList(v) \o EntryList(v)
    BY <1>3, UdfListIs
  <2>5. UdfSet(v) = {x, y} \cup {r, q} \cup FeSet(v) \cup E
    BY <1>3 DEF UdfSet
  <2>6. PutsIn(FeList(v), FeSet(v), 261..(a - 1))
    <3>1. CASE v.catalog
      <4>1. m = 1
        BY <3>1 DEF One
      <4>2. 261 \in 261..(a - 1)
        BY ONLY <2>2, <4>1
      <4>3. FeList(v) = <<c>> /\ FeSet(v) = {c}
        BY <3>1 DEF FeList, FeSet
      <4> HIDE DEF c
      <4> DEFINE A == 261..(a - 1)
      <4>4. c.at \in A
        BY ONLY <2>1, <4>2
      <4> HIDE DEF A
      <4>5. PutsIn(<<c>>, {c}, A)
        BY ONLY <4>4, OnePut
      <4>6. QED
        BY ONLY <4>3, <4>5 DEF A
    <3>2. CASE ~v.catalog
      <4>1. PutsIn(FeList(v), FeSet(v), {})
        BY <3>2, NoPuts DEF FeList, FeSet
      <4>2. QED
        BY ONLY <4>1, PutsWithin
    <3>3. QED
      BY <3>1, <3>2
  <2> HIDE DEF x, y, r, q, c, E, a, m
  <2> DEFINE k0 == 257
             k1 == 259
             k2 == 261
  <2>7. PutsIn(<<x, y>>, {x, y}, k0..(k1 - 1)) /\ PutsIn(<<r, q>>, {r, q}, k1..(k2 - 1))
    <3>1. 257 \in k0..(k1 - 1) /\ 258 \in k0..(k1 - 1) /\ 259 \in k1..(k2 - 1) /\ 260 \in k1..(k2 - 1)
      OBVIOUS
    <3> DEFINE A == k0..(k1 - 1)
               B == k1..(k2 - 1)
    <3>2. x.at \in A /\ y.at \in A /\ x.at # y.at /\ r.at \in B /\ q.at \in B /\ r.at # q.at
      BY ONLY <2>1, <3>1
    <3> HIDE DEF A, B
    <3>3. PutsIn(<<x, y>>, {x, y}, A) /\ PutsIn(<<r, q>>, {r, q}, B)
      BY ONLY <3>2, TwoPuts
    <3>4. QED
      BY ONLY <3>3 DEF A, B
  <2>14. /\ k0 \in Int /\ k1 \in Int /\ k2 \in Int /\ k0 <= k1 /\ k1 <= k2 /\ k0 <= k2
         /\ a \in Int /\ k2 <= a /\ k0 <= a /\ TreeStart(v) \in Int /\ a <= TreeStart(v)
    <3>1. Cardinality(InTree(v, "udf")) \in Nat
      BY <1>1, <1>3, OwnPlaces DEF Places
    <3>2. QED
      BY ONLY <2>2, <3>1
  <2>15. PutsIn(FeList(v), FeSet(v), k2..(a - 1))
    BY <2>6
  <2> HIDE DEF k0, k1, k2
  <2> DEFINE s2 == <<x, y>> \o <<r, q>>
             t2 == {x, y} \cup {r, q}
             s3 == s2 \o FeList(v)
             t3 == t2 \cup FeSet(v)
  <2>8. PutsIn(s2, t2, k0..(k2 - 1))
    BY ONLY <2>7, <2>14, JoinedNext
  <2> HIDE DEF s2, t2
  <2>9. PutsIn(s3, t3, k0..(a - 1))
    BY ONLY <2>15, <2>8, <2>14, JoinedNext
  <2> HIDE DEF s3, t3
  <2>10. PutsIn(s3 \o EntryList(v), t3 \cup E, k0..(TreeStart(v) - 1))
    BY ONLY <2>3, <2>9, <2>14, JoinedNext
  <2>11. UdfPuts(v) = s3 \o EntryList(v) /\ UdfSet(v) = t3 \cup E
    BY ONLY <2>4, <2>5 DEF s3, s2, t3, t2
  <2>12. UdfPlaces(v) = k0..(TreeStart(v) - 1)
    BY <1>3 DEF UdfPlaces, PartStart, k0
  <2>13. QED
    BY ONLY <2>10, <2>11, <2>12
<1>4. QED
  BY <1>1, <1>2, <1>3
\* The data of all files.
FileSet(v, f) == {Put(DataAtOf(v, f) + i - 1, v.files[f].data[i]) : i \in 1..v.files[f].len}
DataSet(v) == UNION {FileSet(v, f) : f \in Present(v)}
FileList(v, f) == [i \in 1..v.files[f].len |-> Put(v.files[f].ext + i - 1, v.files[f].data[i])]
LEMMA FileListPuts ==
  ASSUME NEW v, Laid(v), NEW f \in Present(v)
  PROVE  PutsIn(FileList(v, f), FileSet(v, f), DataOf(v, f))
<1>1. Own(v) /\ Placed(v) /\ OwnFiles(v)
  BY OwnHas DEF Laid
<1> DEFINE n == v.files[f].len
           a == DataAtOf(v, f)
           s == FileList(v, f)
<1>2. f \in Files /\ v.files[f].ext = a
  BY <1>1 DEF Placed, Present
<1>3. n \in Nat
  BY <1>1, <1>2, OwnFilesHave DEF HasLens
<1>4. a \in Int
  BY <1>1, <1>2, FilePlaces
<1>5. s = [i \in 1..n |-> s[i]] /\ \A i \in 1..n : s[i] = Put(a + i - 1, v.files[f].data[i])
  BY <1>2 DEF FileList
<1>6. \A i \in 1..n : s[i].at = a + i - 1
  <2>1. \A x, y : Put(x, y).at = x
    BY DEF Put
  <2> HIDE DEF s, n, a
  <2>2. QED
    BY ONLY <1>5, <2>1
<1>7. {s[i] : i \in 1..n} = FileSet(v, f)
  <2> HIDE DEF s
  <2>1. QED
    BY ONLY <1>5 DEF FileSet
<1>8. DataOf(v, f) = a..(a + n - 1)
  BY DEF DataOf
<1> HIDE DEF s, n, a
<1>9. PutsIn(s, {s[i] : i \in 1..n}, a..(a + n - 1))
  BY ONLY <1>3, <1>4, <1>5, <1>6, PutsListed
<1>10. QED
  BY ONLY <1>7, <1>8, <1>9 DEF s
LEMMA DataPutsAre ==
  ASSUME NEW v, Laid(v)
  PROVE  PutsIn(DataPuts(v, InOrderOf(Present(v))), DataSet(v), DataAt(v)..(EndAt(v) - 1))
<1>1. Own(v) /\ OwnFiles(v) /\ Sound(v)
  BY OwnHas, OwnSound DEF Laid
<1> DEFINE S == Present(v)
           fs == InOrderOf(S)
           n == Cardinality(S)
           ss == [j \in 1..n |-> FileList(v, fs[j])]
           Ps == [j \in 1..n |-> FileSet(v, fs[j])]
           As == [j \in 1..n |-> DataOf(v, fs[j])]
           X == {FileList(v, f) : f \in S}
<1>2. S \in SUBSET Files /\ IsFiniteSet(S) /\ S \in SUBSET Int
  BY <1>1, OwnFilesHave, FilesFinite
<1>3. \A f \in S : PutsIn(FileList(v, f), FileSet(v, f), DataOf(v, f))
  BY FileListPuts
<1> HIDE DEF S
<1>4. /\ fs \in Seq(S) /\ Len(fs) = n /\ n \in Nat
      /\ \A i \in 1..n : fs[i] \in S /\ Rank(S, fs[i]) = i
      /\ \A f \in S : Rank(S, f) \in 1..n /\ fs[Rank(S, f)] = f
  BY <1>2, Ordered
<1>5. DataPuts(v, fs) = FlattenSeq(ss)
  <2>1. DataPuts(v, fs) = FlattenSeq([j \in 1..Len(fs) |-> FileList(v, fs[j])])
    BY DEF DataPuts, FileList
  <2>2. QED
    BY <1>4, <2>1
<1>6. \A f, g \in Files : f # g => DataOf(v, f) \cap DataOf(v, g) = {}
  BY <1>1, DataApart
<1> HIDE DEF fs, n
<1>7. ss \in Seq(X) /\ Len(ss) = n
  <2>1. \A j \in 1..n : FileList(v, fs[j]) \in X
    BY <1>4
  <2>2. n \in Nat
    BY <1>4
  <2> HIDE DEF X
  <2>3. QED
    BY <2>1, <2>2
<1>8. Lists(ss, Ps, As)
  <2>1. \A j \in 1..n : PutsIn(ss[j], Ps[j], As[j])
    BY <1>3, <1>4
  <2>2. ASSUME NEW i \in 1..n, NEW j \in 1..n, i # j PROVE As[i] \cap As[j] = {}
    <3>1. fs[i] \in Files /\ fs[j] \in Files
      BY <1>2, <1>4
    <3>2. fs[i] # fs[j]
      BY <1>4, <2>2
    <3>3. QED
      BY <1>6, <3>1, <3>2
  <2>3. n \in Nat
    BY <1>4
  <2> HIDE DEF Ps, As, ss
  <2>4. QED
    BY ONLY <1>7, <2>1, <2>2, <2>3 DEF Lists
<1>9. UNION {Ps[j] : j \in 1..n} = DataSet(v)
  <2>1. \A x : x \in DataSet(v) <=> \E f \in S : x \in FileSet(v, f)
    BY DEF DataSet, S
  <2>2. \A x : x \in UNION {Ps[j] : j \in 1..n} <=> \E j \in 1..n : x \in FileSet(v, fs[j])
    OBVIOUS
  <2>3. \A x : (\E j \in 1..n : x \in FileSet(v, fs[j])) <=> \E f \in S : x \in FileSet(v, f)
    BY <1>4
  <2> HIDE DEF Ps
  <2>4. QED
    BY ONLY <2>1, <2>2, <2>3
<1>10. UNION {As[j] : j \in 1..n} \subseteq DataAt(v)..(EndAt(v) - 1)
  <2>1. \A f \in Files : DataOf(v, f) \subseteq DataAt(v)..(EndAt(v) - 1)
    BY <1>1, DataApart
  <2>2. \A j \in 1..n : fs[j] \in Files
    BY <1>2, <1>4
  <2>3. \A j \in 1..n : As[j] \subseteq DataAt(v)..(EndAt(v) - 1)
    BY <2>1, <2>2
  <2> HIDE DEF As
  <2>4. QED
    BY <2>3
<1> HIDE DEF ss, Ps, As, X
<1>11. PutsIn(FlattenSeq(ss), UNION {Ps[j] : j \in 1..Len(ss)}, UNION {As[j] : j \in 1..Len(ss)})
  <2>1. ss \in Seq(X)
    BY <1>7
  <2>2. QED
    BY ONLY <1>8, <2>1, FlattenPuts
<1>12. PutsIn(DataPuts(v, fs), DataSet(v), UNION {As[j] : j \in 1..n})
  BY ONLY <1>5, <1>7, <1>9, <1>11
<1>13. PutsIn(DataPuts(v, fs), DataSet(v), DataAt(v)..(EndAt(v) - 1))
  BY ONLY <1>10, <1>12, PutsWithin
<1>14. QED
  BY ONLY <1>13 DEF fs, S

-----------------------------------------------------------------------------
(* All of it.                                                               *)

PutsOf(v) ==
  HeadSet(v) \cup DescSet(v) \cup CatalogSet(v) \cup IsoSet(v) \cup JolietSet(v) \cup UdfSet(v) \cup DataSet(v)
\* Where the parts are, as numbers.
Regions(h, t, i, j, e, c, d, n, udf, joliet, rr, catalog, uses) ==
  /\ h \in Nat /\ t \in Nat /\ i \in Nat /\ j \in Nat /\ e \in Nat /\ c \in Nat /\ d \in Nat /\ n \in Nat
  /\ {udf, joliet, rr, catalog, uses} \subseteq BOOLEAN
  /\ 16 <= h /\ (udf => h <= 24 /\ t >= 261) /\ (~udf => t = h)
  /\ (joliet => i >= t + 8) /\ i >= t + 4 /\ j >= i + 1 /\ (uses => j >= i + 2)
  /\ e >= j /\ (joliet => e >= j + 1) /\ c >= e /\ (rr => c >= e + 1)
  /\ d >= c /\ (catalog => d >= c + 1) /\ n >= d
RegionsOf(v) ==
  Regions(HeaderEnd(v), TreeStart(v), IsoAt(v), JolietAt(v), ErAt(v), CatalogAt(v), DataAt(v), EndAt(v),
          v.udf, v.joliet, v.rr, v.catalog, UsesBlock(v))
LEMMA OwnRegions ==
  ASSUME NEW v, Own(v)
  PROVE  RegionsOf(v)
<1>1. Places(v) /\ v.udf \in BOOLEAN /\ v.joliet \in BOOLEAN /\ v.rr \in BOOLEAN /\ v.catalog \in BOOLEAN
  BY OwnPlaces, OwnHas
<1>2. UsesBlock(v) \in BOOLEAN /\ Cardinality(UsedBlocks(v)) = IF UsesBlock(v) THEN 1 ELSE 0
  BY <1>1 DEF Places, UsesBlock
<1>3. 16 <= HeaderEnd(v)
  <2>1. PICK p, b, s, u : HeadStands(v, p, b, s, u) /\ HeadHolds(v, p, b, s, u)
    BY HeadStandsAt
  <2>2. QED
    BY ONLY <2>1 DEF HeadStands, HeadHolds
<1>4. /\ v.joliet => One(v.joliet) = 1
      /\ v.rr => One(v.rr) = 1
      /\ v.catalog => One(v.catalog) = 1
  BY DEF One
<1>5. QED
  BY ONLY <1>1, <1>2, <1>3, <1>4 DEF Places, RegionsOf, Regions
\* All puts are to different blocks of the volume.
LEMMA AllPutsAre ==
  ASSUME NEW v, Laid(v)
  PROVE  PutsIn(AllPuts(v), PutsOf(v), 0..(v.space - 1))
<1> DEFINE h == HeaderEnd(v)
           t == TreeStart(v)
           i == IsoAt(v)
           j == JolietAt(v)
           e == ErAt(v)
           c == CatalogAt(v)
           d == DataAt(v)
           n == EndAt(v)
           udf == v.udf
           joliet == v.joliet
           rr == v.rr
           catalog == v.catalog
           uses == UsesBlock(v)
           A1 == 16..(h - 1)
           A2 == DescPlaces(v)
           A3 == IF v.catalog THEN {CatalogAt(v)} ELSE {}
           A4 == IsoPlaces(v)
           A5 == JolietPlaces(v)
           A6 == UdfPlaces(v)
           A7 == d..(n - 1)
<1>1. Own(v) /\ v.space = EndAt(v) + One(v.udf)
  BY OwnHas DEF Laid
<1>2. Regions(h, t, i, j, e, c, d, n, udf, joliet, rr, catalog, uses)
  BY <1>1, OwnRegions DEF RegionsOf
<1>3. /\ A2 = IF ~udf THEN {} ELSE 32..(32 + 5) \cup 48..(48 + 5) \cup {64} \cup {65} \cup {256, n}
      /\ A3 = IF catalog THEN {c} ELSE {}
      /\ A4 = {t, t + 2, i} \cup (IF rr THEN {e} ELSE {}) \cup (IF uses THEN {i + 1} ELSE {})
      /\ A5 = IF ~joliet THEN {} ELSE {t + 4, t + 6, j}
      /\ A6 = IF ~udf THEN {} ELSE 257..(t - 1)
  BY DEF DescPlaces, IsoPlaces, JolietPlaces, UdfPlaces, PartStart
<1>4. v.space = n + IF udf THEN 1 ELSE 0
  BY <1>1 DEF One
<1>5. /\ PutsIn(HeaderPuts(v), HeadSet(v), A1) /\ PutsIn(DescPuts(DescLists(v)), DescSet(v), A2)
      /\ PutsIn(CatalogList(v), CatalogSet(v), A3) /\ PutsIn(IsoPuts(v), IsoSet(v), A4)
      /\ PutsIn(JolietPuts(v), JolietSet(v), A5) /\ PutsIn(UdfPuts(v), UdfSet(v), A6)
      /\ PutsIn(DataPuts(v, InOrderOf(Present(v))), DataSet(v), A7)
  BY HeaderPutsAre, DescPutsAre, CatalogPutsAre, IsoPutsAre, JolietPutsAre, UdfPutsAre, DataPutsAre
<1>6. AllPuts(v) = HeaderPuts(v) \o DescPuts(DescLists(v)) \o CatalogList(v) \o IsoPuts(v) \o JolietPuts(v)
                     \o UdfPuts(v) \o DataPuts(v, InOrderOf(Present(v)))
  BY DEF AllPuts, DescLists, CatalogList
<1> HIDE DEF h, t, i, j, e, c, d, n, udf, joliet, rr, catalog, uses, A2, A3, A4, A5, A6
<1> DEFINE m == v.space - 1
           I1(x) == 16 <= x /\ x < h
           I2(x) == udf /\ ((32 <= x /\ x <= 65) \/ x = 256 \/ x = n)
           I3(x) == catalog /\ x = c
           I4(x) == x = t \/ x = t + 2 \/ x = i \/ (rr /\ x = e) \/ (uses /\ x = i + 1)
           I5(x) == joliet /\ (x = t + 4 \/ x = t + 6 \/ x = j)
           I6(x) == udf /\ 257 <= x /\ x < t
           I7(x) == d <= x /\ x < n
           I(x) == 0 <= x /\ x <= m
<1>30. /\ \A x \in A1 : x \in Int /\ I1(x)
       /\ \A x \in A7 : x \in Int /\ I7(x)
  BY ONLY <1>2 DEF Regions
<1>31. \A x \in A2 : x \in Int /\ I2(x)
  <2>1. n \in Int
    BY <1>2 DEF Regions
  <2>2. QED
    BY ONLY <1>3, <2>1
<1>32. /\ \A x \in A3 : x \in Int /\ I3(x)
       /\ \A x \in A4 : x \in Int /\ I4(x)
  <2>1. c \in Int /\ t \in Int /\ i \in Int /\ e \in Int
    BY <1>2 DEF Regions
  <2>2. \A x \in A3 : x \in Int /\ I3(x)
    BY ONLY <1>3, <2>1
  <2>3. \A x \in A4 : x \in Int /\ I4(x)
    BY ONLY <1>3, <2>1
  <2>4. QED
    BY ONLY <2>2, <2>3
<1>33. /\ \A x \in A5 : x \in Int /\ I5(x)
       /\ \A x \in A6 : x \in Int /\ I6(x)
  <2>1. t \in Int /\ j \in Int
    BY <1>2 DEF Regions
  <2>2. QED
    BY ONLY <1>3, <2>1
<1>34. m = IF udf THEN n ELSE n - 1
  <2>1. n \in Int
    BY <1>2 DEF Regions
  <2>2. QED
    BY ONLY <1>4, <2>1
<1> HIDE DEF m, A1, A7
<1>36. m \in Int
  <2>1. n \in Int /\ udf \in BOOLEAN
    BY <1>2 DEF Regions
  <2>2. QED
    BY ONLY <1>34, <2>1
<1> DEFINE J1 == {x \in Int : I1(x)}
           J2 == {x \in Int : I2(x)}
           J3 == {x \in Int : I3(x)}
           J4 == {x \in Int : I4(x)}
           J5 == {x \in Int : I5(x)}
           J6 == {x \in Int : I6(x)}
           J7 == {x \in Int : I7(x)}
           J == 0..m
<1>35. \A x \in Int : /\ x \in J1 => x \in J /\ x \notin J2 /\ x \notin J3 /\ x \notin J4 /\ x \notin J5 /\ x \notin J6 /\ x \notin J7
                      /\ x \in J2 => x \in J /\ x \notin J3 /\ x \notin J4 /\ x \notin J5 /\ x \notin J6 /\ x \notin J7
                      /\ x \in J3 => x \in J /\ x \notin J4 /\ x \notin J5 /\ x \notin J6 /\ x \notin J7
                      /\ x \in J4 => x \in J /\ x \notin J5 /\ x \notin J6 /\ x \notin J7
                      /\ x \in J5 => x \in J /\ x \notin J6 /\ x \notin J7
                      /\ x \in J6 => x \in J /\ x \notin J7
                      /\ x \in J7 => x \in J
  <2> TAKE x \in Int
  <2>1. /\ h \in Int /\ t \in Int /\ i \in Int /\ j \in Int /\ e \in Int /\ c \in Int /\ d \in Int /\ n \in Int
        /\ udf \in BOOLEAN /\ joliet \in BOOLEAN /\ rr \in BOOLEAN /\ catalog \in BOOLEAN /\ uses \in BOOLEAN
        /\ 0 <= n /\ 0 <= t
        /\ 16 <= h /\ (udf => h <= 24 /\ t >= 261) /\ (~udf => t = h)
        /\ (joliet => i >= t + 8) /\ i >= t + 4 /\ j >= i + 1 /\ (uses => j >= i + 2)
        /\ e >= j /\ (joliet => e >= j + 1) /\ c >= e /\ (rr => c >= e + 1)
        /\ d >= c /\ (catalog => d >= c + 1) /\ n >= d
    BY ONLY <1>2 DEF Regions
  <2>2. I1(x) => I(x) /\ ~I2(x) /\ ~I3(x) /\ ~I4(x) /\ ~I5(x) /\ ~I6(x) /\ ~I7(x)
    BY ONLY <1>34, <2>1, x \in Int
  <2>3. I2(x) => I(x) /\ ~I3(x) /\ ~I4(x) /\ ~I5(x) /\ ~I6(x) /\ ~I7(x)
    BY ONLY <1>34, <2>1, x \in Int
  <2>4. I3(x) => I(x) /\ ~I4(x) /\ ~I5(x) /\ ~I6(x) /\ ~I7(x)
    BY ONLY <1>34, <2>1, x \in Int
  <2>5. I4(x) => I(x) /\ ~I5(x) /\ ~I6(x) /\ ~I7(x)
    BY ONLY <1>34, <2>1, x \in Int
  <2>6. I5(x) => I(x) /\ ~I6(x) /\ ~I7(x)
    BY ONLY <1>34, <2>1, x \in Int
  <2>7. (I6(x) => I(x) /\ ~I7(x)) /\ (I7(x) => I(x))
    BY ONLY <1>34, <2>1, x \in Int
  <2>8. I(x) <=> x \in J
    BY ONLY <1>36, x \in Int
  <2> HIDE DEF I1, I2, I3, I4, I5, I6, I7, I, J
  <2>9. /\ x \in J1 <=> I1(x)
        /\ x \in J2 <=> I2(x)
        /\ x \in J3 <=> I3(x)
        /\ x \in J4 <=> I4(x)
        /\ x \in J5 <=> I5(x)
        /\ x \in J6 <=> I6(x)
        /\ x \in J7 <=> I7(x)
    BY ONLY x \in Int
  <2> HIDE DEF J1, J2, J3, J4, J5, J6, J7
  <2>10. QED
    BY ONLY <2>2, <2>3, <2>4, <2>5, <2>6, <2>7, <2>8, <2>9
<1> HIDE DEF I1, I2, I3, I4, I5, I6, I7, I
<1>38. /\ A1 \subseteq J1 /\ A2 \subseteq J2 /\ A3 \subseteq J3 /\ A4 \subseteq J4 /\ A5 \subseteq J5 /\ A6 \subseteq J6
       /\ A7 \subseteq J7
  BY ONLY <1>30, <1>31, <1>32, <1>33
<1>39. J1 \subseteq Int /\ J2 \subseteq Int /\ J3 \subseteq Int /\ J4 \subseteq Int /\ J5 \subseteq Int /\ J6 \subseteq Int /\ J7 \subseteq Int
  OBVIOUS
<1> HIDE DEF J1, J2, J3, J4, J5, J6, J7, J
<1> DEFINE Alone(x) ==
             /\ x \in J1 => x \in J /\ x \notin J2 /\ x \notin J3 /\ x \notin J4 /\ x \notin J5 /\ x \notin J6 /\ x \notin J7
             /\ x \in J2 => x \in J /\ x \notin J3 /\ x \notin J4 /\ x \notin J5 /\ x \notin J6 /\ x \notin J7
             /\ x \in J3 => x \in J /\ x \notin J4 /\ x \notin J5 /\ x \notin J6 /\ x \notin J7
             /\ x \in J4 => x \in J /\ x \notin J5 /\ x \notin J6 /\ x \notin J7
             /\ x \in J5 => x \in J /\ x \notin J6 /\ x \notin J7
             /\ x \in J6 => x \in J /\ x \notin J7
             /\ x \in J7 => x \in J
<1>40. ASSUME NEW x PROVE Alone(x)
  <2>1. CASE x \in Int
    BY ONLY <1>35, <2>1
  <2>2. CASE x \notin Int
    BY ONLY <1>39, <2>2
  <2>3. QED
    BY ONLY <2>1, <2>2
<1>42. /\ J1 \cap J2 = {} /\ J1 \cap J3 = {} /\ J1 \cap J4 = {} /\ J1 \cap J5 = {} /\ J1 \cap J6 = {} /\ J1 \cap J7 = {}
       /\ J2 \cap J3 = {} /\ J2 \cap J4 = {} /\ J2 \cap J5 = {} /\ J2 \cap J6 = {} /\ J2 \cap J7 = {}
       /\ J3 \cap J4 = {} /\ J3 \cap J5 = {} /\ J3 \cap J6 = {} /\ J3 \cap J7 = {}
       /\ J4 \cap J5 = {} /\ J4 \cap J6 = {} /\ J4 \cap J7 = {}
       /\ J5 \cap J6 = {} /\ J5 \cap J7 = {} /\ J6 \cap J7 = {}
       /\ J1 \subseteq J /\ J2 \subseteq J /\ J3 \subseteq J /\ J4 \subseteq J /\ J5 \subseteq J /\ J6 \subseteq J /\ J7 \subseteq J
  BY ONLY <1>40
<1>7. A1 \cap A2 = {} /\ A1 \subseteq J /\ A2 \subseteq J
  BY ONLY <1>38, <1>42
<1>8. A1 \cap A3 = {} /\ A2 \cap A3 = {} /\ A3 \subseteq J
  BY ONLY <1>38, <1>42
<1>9. A1 \cap A4 = {} /\ A2 \cap A4 = {} /\ A3 \cap A4 = {} /\ A4 \subseteq J
  BY ONLY <1>38, <1>42
<1>10. /\ A1 \cap A5 = {} /\ A2 \cap A5 = {} /\ A3 \cap A5 = {} /\ A4 \cap A5 = {}
       /\ A5 \subseteq J
  BY ONLY <1>38, <1>42
<1>11. /\ A1 \cap A6 = {} /\ A2 \cap A6 = {} /\ A3 \cap A6 = {} /\ A4 \cap A6 = {} /\ A5 \cap A6 = {}
       /\ A6 \subseteq J
  BY ONLY <1>38, <1>42
<1>12. /\ A1 \cap A7 = {} /\ A2 \cap A7 = {} /\ A3 \cap A7 = {} /\ A4 \cap A7 = {} /\ A5 \cap A7 = {}
       /\ A6 \cap A7 = {} /\ A7 \subseteq J
  BY ONLY <1>38, <1>42
<1> DEFINE p1 == HeaderPuts(v)
           p2 == DescPuts(DescLists(v))
           p3 == CatalogList(v)
           p4 == IsoPuts(v)
           p5 == JolietPuts(v)
           p6 == UdfPuts(v)
           p7 == DataPuts(v, InOrderOf(Present(v)))
           P1 == HeadSet(v)
           P2 == DescSet(v)
           P3 == CatalogSet(v)
           P4 == IsoSet(v)
           P5 == JolietSet(v)
           P6 == UdfSet(v)
           P7 == DataSet(v)
<1>13. PutsIn(p1 \o p2, P1 \cup P2, A1 \cup A2)
  BY ONLY <1>5, <1>7, Joined
<1> HIDE DEF p1, p2, p3, p4, p5, p6, p7, P1, P2, P3, P4, P5, P6, P7, A1, A7
<1>14. PutsIn(p1 \o p2 \o p3, P1 \cup P2 \cup P3, A1 \cup A2 \cup A3)
  <2>1. (A1 \cup A2) \cap A3 = {} /\ PutsIn(p3, P3, A3)
    BY ONLY <1>5, <1>8 DEF p3, P3
  <2>2. QED
    BY ONLY <1>13, <2>1, Joined
<1>15. PutsIn(p1 \o p2 \o p3 \o p4, P1 \cup P2 \cup P3 \cup P4, A1 \cup A2 \cup A3 \cup A4)
  <2>1. (A1 \cup A2 \cup A3) \cap A4 = {} /\ PutsIn(p4, P4, A4)
    BY ONLY <1>5, <1>9 DEF p4, P4
  <2>2. QED
    BY ONLY <1>14, <2>1, Joined
<1>16. PutsIn(p1 \o p2 \o p3 \o p4 \o p5, P1 \cup P2 \cup P3 \cup P4 \cup P5, A1 \cup A2 \cup A3 \cup A4 \cup A5)
  <2>1. (A1 \cup A2 \cup A3 \cup A4) \cap A5 = {} /\ PutsIn(p5, P5, A5)
    BY ONLY <1>5, <1>10 DEF p5, P5
  <2>2. QED
    BY ONLY <1>15, <2>1, Joined
<1>17. PutsIn(p1 \o p2 \o p3 \o p4 \o p5 \o p6, P1 \cup P2 \cup P3 \cup P4 \cup P5 \cup P6,
              A1 \cup A2 \cup A3 \cup A4 \cup A5 \cup A6)
  <2>1. (A1 \cup A2 \cup A3 \cup A4 \cup A5) \cap A6 = {} /\ PutsIn(p6, P6, A6)
    BY ONLY <1>5, <1>11 DEF p6, P6
  <2>2. QED
    BY ONLY <1>16, <2>1, Joined
<1>18. PutsIn(p1 \o p2 \o p3 \o p4 \o p5 \o p6 \o p7, P1 \cup P2 \cup P3 \cup P4 \cup P5 \cup P6 \cup P7,
              A1 \cup A2 \cup A3 \cup A4 \cup A5 \cup A6 \cup A7)
  <2>1. (A1 \cup A2 \cup A3 \cup A4 \cup A5 \cup A6) \cap A7 = {} /\ PutsIn(p7, P7, A7)
    BY ONLY <1>5, <1>12 DEF p7, P7
  <2>2. QED
    BY ONLY <1>17, <2>1, Joined
<1>19. A1 \cup A2 \cup A3 \cup A4 \cup A5 \cup A6 \cup A7 \subseteq J
  BY ONLY <1>7, <1>8, <1>9, <1>10, <1>11, <1>12
<1>20. AllPuts(v) = p1 \o p2 \o p3 \o p4 \o p5 \o p6 \o p7
  BY ONLY <1>6 DEF p1, p2, p3, p4, p5, p6, p7
<1>21. PutsOf(v) = P1 \cup P2 \cup P3 \cup P4 \cup P5 \cup P6 \cup P7
  BY DEF PutsOf, P1, P2, P3, P4, P5, P6, P7
<1> DEFINE p == p1 \o p2 \o p3 \o p4 \o p5 \o p6 \o p7
           P == P1 \cup P2 \cup P3 \cup P4 \cup P5 \cup P6 \cup P7
           A == A1 \cup A2 \cup A3 \cup A4 \cup A5 \cup A6 \cup A7
           B == J
<1>22. PutsIn(p, P, A) /\ A \subseteq B
  BY ONLY <1>18, <1>19
<1>23. AllPuts(v) = p /\ PutsOf(v) = P
  BY ONLY <1>20, <1>21
<1> HIDE DEF p, P, A, B
<1>24. PutsIn(p, P, B)
  BY ONLY <1>22, PutsWithin
<1>25. QED
  BY ONLY <1>23, <1>24 DEF B, J, m
-----------------------------------------------------------------------------
(* What the file is then.                                                   *)

LEMMA MaxIs ==
  ASSUME NEW S \in SUBSET Int, NEW m \in S, \A x \in S : x <= m
  PROVE  Max(S) = m
<1>1. m \in S /\ \A y \in S : m >= y
  OBVIOUS
<1>2. \A x \in S : (\A y \in S : x >= y) => x = m
  OBVIOUS
<1>3. QED
  BY <1>1, <1>2 DEF Max
LEMMA MaxIn ==
  ASSUME NEW S \in SUBSET Nat, S # {}, NEW b \in Nat, \A x \in S : x <= b
  PROVE  Max(S) \in S /\ \A x \in S : x <= Max(S)
<1> DEFINE T == {b - x : x \in S}
<1>0. \A x \in S : x \in Nat /\ x \in Int
  OBVIOUS
<1>1. T \in SUBSET Nat /\ T # {}
  <2>1. \A x \in S : b - x \in Nat
    BY <1>0
  <2>2. QED
    BY <2>1
<1>2. PICK m \in T : \A q \in T : m <= q
  BY <1>1, LeastNatural
<1>3. PICK y \in S : m = b - y
  BY <1>2
<1>4. \A x \in S : x <= y
  <2> TAKE x \in S
  <2>1. b - y <= b - x
    BY <1>2, <1>3
  <2>2. x \in Int /\ y \in Int
    BY <1>0
  <2>3. QED
    BY ONLY <2>1, <2>2, b \in Nat
<1>5. Max(S) = y
  BY <1>4, MaxIs
<1>6. QED
  BY <1>4, <1>5

\* What lies over other things.
OnePer(P) == \A p, q \in P : p.at = q.at => p = q
LEMMA LastPut ==
  ASSUME NEW P, NEW s \in Seq(P), NEW e, NEW i \in 1..Len(s), s[i].at = e
  PROVE  \E k \in 1..Len(s) : s[k].at = e /\ \A j \in (k + 1)..Len(s) : s[j].at # e
<1> DEFINE n == Len(s)
           T == {n - k : k \in {k \in 1..n : s[k].at = e}}
<1>1. n \in Nat
  OBVIOUS
<1> HIDE DEF n
<1>2. T \in SUBSET Nat /\ n - i \in T
  BY <1>1 DEF n
<1>3. PICK m \in T : \A q \in T : m <= q
  BY <1>2, LeastNatural
<1>4. PICK k \in 1..n : s[k].at = e /\ m = n - k
  BY <1>3
<1>5. ASSUME NEW j \in (k + 1)..n, s[j].at = e PROVE FALSE
  <2>1. k \in Nat /\ j \in 1..n
    BY <1>1
  <2>2. n - j \in T
    BY <1>5, <2>1
  <2>3. n - k <= n - j
    BY <1>3, <1>4, <2>2
  <2>4. QED
    BY ONLY <1>1, <2>1, <2>3, j \in (k + 1)..n
<1>6. QED
  BY <1>4, <1>5 DEF n
Overlaid(b, s, o) ==
  /\ DOMAIN o = DOMAIN b \cup {p.at : p \in Ran(s)}
  /\ \A p \in Ran(s) : o[p.at] = p.is
  /\ \A e \in DOMAIN b : (\A p \in Ran(s) : p.at # e) => o[e] = b[e]
LEMMA OverlayHas ==
  ASSUME NEW P, OnePer(P), NEW s \in Seq(P), NEW b
  PROVE  Overlaid(b, s, Overlay(b, s))
<1> DEFINE to == {s[i].at : i \in 1..Len(s)}
           last(e) == CHOOSE i \in 1..Len(s) : s[i].at = e /\ \A j \in (i + 1)..Len(s) : s[j].at # e
           o == [e \in DOMAIN b \cup to |-> IF e \in to THEN s[last(e)].is ELSE b[e]]
<1>1. Overlay(b, s) = o
  BY DEF Overlay
<1>2. to = {p.at : p \in Ran(s)}
  BY DEF Ran
<1>3. \A i \in 1..Len(s) : s[i] \in P
  OBVIOUS
<1>4. ASSUME NEW p \in Ran(s) PROVE s[last(p.at)].is = p.is /\ p.at \in to
  <2>1. PICK i \in 1..Len(s) : p = s[i]
    BY DEF Ran
  <2>2. \E k \in 1..Len(s) : s[k].at = p.at /\ \A j \in (k + 1)..Len(s) : s[j].at # p.at
    BY <2>1, LastPut
  <2> DEFINE k == last(p.at)
  <2>3. k \in 1..Len(s) /\ s[k].at = p.at
    BY <2>2
  <2> HIDE DEF k
  <2>4. s[k] = p
    BY <1>3, <2>1, <2>3 DEF OnePer
  <2>5. QED
    BY <2>1, <2>4 DEF k
<1> HIDE DEF last
<1>5. DOMAIN o = DOMAIN b \cup {p.at : p \in Ran(s)}
  BY <1>2
<1>6. \A p \in Ran(s) : o[p.at] = p.is
  BY <1>4
<1>7. \A e \in DOMAIN b : (\A p \in Ran(s) : p.at # e) => o[e] = b[e]
  BY <1>2
<1>8. QED
  BY ONLY <1>1, <1>5, <1>6, <1>7 DEF Overlaid

\* A file that has what is to be written, and nothing else.
Shows(img, w) ==
  /\ img = [size |-> img.size, blocks |-> img.blocks] /\ img.size = w.space
  /\ \A p \in PutsOf(w) : At0(img, p.at) = p.is
  /\ \A e : At0(img, e) = Zero \/ \E p \in PutsOf(w) : p.at = e
LEMMA PutsOnePer ==
  ASSUME NEW w, Laid(w)
  PROVE  OnePer(PutsOf(w))
<1>1. PutsIn(AllPuts(w), PutsOf(w), 0..(w.space - 1))
  BY AllPutsAre
<1>2. QED
  BY <1>1 DEF PutsIn, OnePer, Ran
LEMMA WrittenShows ==
  ASSUME NEW w, Laid(w)
  PROVE  Shows(Written(w), w)
<1> DEFINE puts == AllPuts(w)
           P == PutsOf(w)
           ats == {0} \cup {puts[i].at : i \in 1..Len(puts)}
           end == 1 + Max(ats)
           damage == IF end > w.space THEN <<Put(w.space - 1, [k |-> "damaged"])>> ELSE <<>>
<1>1. PutsIn(puts, P, 0..(w.space - 1))
  BY AllPutsAre
<1>2. w.space \in Nat /\ w.space >= 1
  <2>1. Own(w) /\ w.space = EndAt(w) + One(w.udf)
    BY OwnHas DEF Laid
  <2>2. Places(w) /\ RegionsOf(w)
    BY <2>1, OwnPlaces, OwnRegions
  <2>3. One(w.udf) \in 0..1 /\ EndAt(w) \in Nat /\ EndAt(w) >= 16
    BY ONLY <2>2 DEF Places, RegionsOf, Regions
  <2>4. QED
    BY ONLY <2>1, <2>3
<1>3. Written(w) = [size |-> Max({end, w.space}), blocks |-> Overlay(<<>>, puts \o damage)]
  BY DEF Written
<1>4. puts \in Seq(P) /\ P = Ran(puts) /\ \A p \in P : p.at \in 0..(w.space - 1)
  BY <1>1 DEF PutsIn
<1>5. ats \in SUBSET Nat /\ ats # {} /\ \A x \in ats : x <= w.space - 1
  <2>1. \A i \in 1..Len(puts) : puts[i].at \in 0..(w.space - 1)
    BY <1>4 DEF Ran
  <2> HIDE DEF puts
  <2>2. QED
    BY ONLY <1>2, <2>1
<1> HIDE DEF ats
<1>6. Max(ats) \in 0..(w.space - 1)
  <2>1. w.space - 1 \in Nat
    BY <1>2
  <2>2. Max(ats) \in ats
    BY ONLY <1>5, <2>1, MaxIn
  <2>3. Max(ats) \in Nat /\ Max(ats) <= w.space - 1
    BY ONLY <1>5, <2>2
  <2> HIDE DEF ats
  <2>4. QED
    BY ONLY <2>1, <2>3
<1>7. end \in Int /\ end <= w.space
  BY ONLY <1>2, <1>6
<1> HIDE DEF end
<1>8. damage = <<>>
  BY <1>2, <1>7
<1> HIDE DEF damage
<1>9. Max({end, w.space}) = w.space
  <2>1. {end, w.space} \in SUBSET Int /\ w.space \in {end, w.space} /\ \A x \in {end, w.space} : x <= w.space
    BY ONLY <1>2, <1>7
  <2>2. QED
    BY ONLY <2>1, MaxIs
<1>10. puts \o damage = puts
  BY <1>4, <1>8, ConcatEmptySeq
<1> DEFINE o == Overlay(<<>>, puts)
           img == Written(w)
<1>11. img.size = w.space /\ img.blocks = o /\ img = [size |-> img.size, blocks |-> img.blocks]
  BY ONLY <1>3, <1>9, <1>10
<1>12. Overlaid(<<>>, puts, o)
  BY <1>4, PutsOnePer, OverlayHas
<1>13. DOMAIN o = {p.at : p \in P} /\ \A p \in P : o[p.at] = p.is
  <2>1. DOMAIN <<>> = {}
    OBVIOUS
  <2> HIDE DEF o, P, puts
  <2>2. QED
    BY ONLY <1>4, <1>12, <2>1 DEF Overlaid
<1> HIDE DEF o, img, P
<1>14. \A e : At0(img, e) = IF e \in DOMAIN o THEN o[e] ELSE Zero
  BY <1>11 DEF At0
<1>15. \A p \in P : At0(img, p.at) = p.is
  BY ONLY <1>13, <1>14
<1>16. \A e : At0(img, e) = Zero \/ \E p \in P : p.at = e
  BY ONLY <1>13, <1>14
<1>17. QED
  BY ONLY <1>11, <1>15, <1>16 DEF Shows, img, P
-----------------------------------------------------------------------------
(* What is read from such a file: the header.                               *)

Reads(img, w, t) == Laid(w) /\ Says(w, t) /\ Shows(img, w)

LEMMA ShowsPut ==
  ASSUME NEW img, NEW w, Shows(img, w), NEW p \in PutsOf(w)
  PROVE  At0(img, p.at) = p.is
BY DEF Shows
LEMMA ShowsIs ==
  ASSUME NEW img, NEW w, Shows(img, w), NEW e, NEW is, Put(e, is) \in PutsOf(w)
  PROVE  At0(img, e) = is
<1>1. Put(e, is).at = e /\ Put(e, is).is = is
  BY DEF Put
<1>2. QED
  BY ONLY <1>1, ShowsPut, Shows(img, w), Put(e, is) \in PutsOf(w)

LEMMA ShowsHeader ==
  ASSUME NEW img, NEW w, Shows(img, w)
  PROVE  \A k \in HeaderNames : \A i \in 1..Len(w.head[k]) : At0(img, HeaderAt(w, k) + i - 1) = HeaderBlock(w, k, i)
<1> TAKE k \in HeaderNames
<1> TAKE i \in 1..Len(w.head[k])
<1>1. Put(HeaderAt(w, k) + i - 1, HeaderBlock(w, k, i)) \in HeaderSet(w, k)
  BY DEF HeaderSet
<1>2. Put(HeaderAt(w, k) + i - 1, HeaderBlock(w, k, i)) \in PutsOf(w)
  BY <1>1 DEF PutsOf, HeadSet
<1>3. QED
  BY <1>2, ShowsIs

LEMMA KindsNamed ==
  /\ HeaderKinds = {"pvd", "br", "svd", "vdst", "bea", "boot", "nsr", "tea"}
  /\ HeaderKinds \subseteq HeaderNames /\ "version" \in HeaderNames /\ "version" \notin HeaderKinds
BY Names DEF HeaderKinds
LEMMA HeaderBlockKinds ==
  ASSUME NEW w, Own(w)
  PROVE  /\ \A k \in HeaderKinds : \A i \in 1..Len(w.head[k]) : /\ KindOf(HeaderBlock(w, k, i)) = k
                                                               /\ k # "boot"
         /\ HeaderBlock(w, "version", 1) = Zero
<1>1. OwnHead(w)
  BY OwnHas
<1>2. HeadHolds(w, Len(w.head["pvd"]), One(w.catalog), One(w.joliet), One(w.udf))
  BY HeadStandsAt
<1>3. ASSUME NEW k \in HeaderKinds, NEW i \in 1..Len(w.head[k]) PROVE KindOf(HeaderBlock(w, k, i)) = k /\ k # "boot"
  <2>1. k = "pvd" \/ k = "br" \/ k = "svd" \/ k = "vdst" \/ k = "bea" \/ k = "boot" \/ k = "nsr" \/ k = "tea"
    BY KindsNamed
  <2>2. CASE k = "pvd"
    BY <2>2 DEF HeaderBlock, KindOf, PvdBlock
  <2>3. CASE k = "br"
    BY <2>3 DEF HeaderBlock, KindOf
  <2>4. CASE k = "svd"
    BY <2>4 DEF HeaderBlock, KindOf, SvdBlock
  <2>5. CASE k = "vdst"
    BY <2>5 DEF HeaderBlock, KindOf
  <2>6. CASE k = "boot"
    BY <1>2, <2>6 DEF HeadHolds
  <2>7. CASE k \in {"bea", "nsr", "tea"}
    <3>1. Len(w.head[k]) = One(w.udf)
      BY <1>2, <2>7 DEF HeadHolds
    <3>2. w.udf /\ i = 1
      BY <3>1 DEF One
    <3>3. HeaderBlock(w, k, i) = w.head[k][1].is
      BY <2>7, <3>2 DEF HeaderBlock
    <3>4. CASE k = "bea"
      BY <1>1, <3>2, <3>3, <3>4 DEF OwnHead, KindOf, NewBEA
    <3>5. CASE k = "nsr"
      BY <1>1, <3>2, <3>3, <3>5 DEF OwnHead, KindOf, NewNSR
    <3>6. CASE k = "tea"
      BY <1>1, <3>2, <3>3, <3>6 DEF OwnHead, KindOf, NewTEA
    <3>7. QED
      BY <2>7, <3>4, <3>5, <3>6
  <2>8. QED
    BY <2>1, <2>2, <2>3, <2>4, <2>5, <2>6, <2>7
<1>4. HeaderBlock(w, "version", 1) = Zero
  BY <1>1 DEF HeaderBlock, OwnHead
<1>5. QED
  BY <1>3, <1>4

\* Every block of the header is one of its parts.
InPart(w, k, e) == \E i \in 1..Len(w.head[k]) : e = HeaderAt(w, k) + i - 1
LEMMA HeaderCovered ==
  ASSUME NEW w, Own(w)
  PROVE  /\ \A e \in 16..(HeaderAt(w, "version") - 1) : \E k \in HeaderKinds : InPart(w, k, e)
         /\ \A k \in HeaderKinds : \A e : InPart(w, k, e) => e \in 16..(HeaderAt(w, "version") - 1)
         /\ HeaderAt(w, "version") \in Int /\ HeaderAt(w, "version") >= 16
<1> DEFINE p == Len(w.head["pvd"])
           b == One(w.catalog)
           s == One(w.joliet)
           u == One(w.udf)
<1>1. HeadStands(w, p, b, s, u) /\ HeadHolds(w, p, b, s, u)
  BY HeadStandsAt
<1> HIDE DEF p, b, s, u
<1> DEFINE ve == 16 + (p + b + s + 1 + 3 * u)
<1>2. p \in Nat /\ b \in 0..1 /\ s \in 0..1 /\ u \in 0..1 /\ p >= 1
  BY <1>1 DEF HeadHolds
<1>3. HeaderAt(w, "version") = ve
  BY <1>1 DEF HeadStands
<1>4. ASSUME NEW e \in 16..(ve - 1) PROVE \E k \in HeaderKinds : InPart(w, k, e)
  <2>0. /\ e \in Int
        /\ \/ 16 <= e /\ e < 16 + p
           \/ b = 1 /\ e = 16 + p
           \/ s = 1 /\ e = 16 + (p + b)
           \/ e = 16 + (p + b + s)
           \/ u = 1 /\ e = 16 + (p + b + s + 1)
           \/ u = 1 /\ e = 16 + (p + b + s + 1 + u)
           \/ u = 1 /\ e = 16 + (p + b + s + 1 + 2 * u)
    BY ONLY <1>2, e \in 16..(ve - 1)
  <2>1. ASSUME NEW k, NEW a \in Int, HeaderAt(w, k) = a, Len(w.head[k]) = 1, e = a PROVE InPart(w, k, e)
    <3>1. 1 \in 1..Len(w.head[k]) /\ e = HeaderAt(w, k) + 1 - 1
      BY <2>1
    <3>2. QED
      BY <3>1 DEF InPart
  <2>2. CASE 16 <= e /\ e < 16 + p
    <3>1. e - 15 \in 1..p /\ e = 16 + (e - 15) - 1
      BY ONLY <1>2, <2>0, <2>2
    <3>2. HeaderAt(w, "pvd") = 16 /\ Len(w.head["pvd"]) = p
      BY <1>1 DEF HeadStands, HeadHolds
    <3>3. InPart(w, "pvd", e)
      BY <3>1, <3>2 DEF InPart
    <3>4. QED
      BY <3>3, KindsNamed
  <2>3. CASE b = 1 /\ e = 16 + p
    <3>1. HeaderAt(w, "br") = e /\ Len(w.head["br"]) = 1
      BY ONLY <1>1, <2>3 DEF HeadStands, HeadHolds
    <3>2. InPart(w, "br", e)
      BY <2>0, <2>1, <3>1
    <3>3. QED
      BY <3>2, KindsNamed
  <2>4. CASE s = 1 /\ e = 16 + (p + b)
    <3>1. HeaderAt(w, "svd") = e /\ Len(w.head["svd"]) = 1
      BY ONLY <1>1, <2>4 DEF HeadStands, HeadHolds
    <3>2. InPart(w, "svd", e)
      BY <2>0, <2>1, <3>1
    <3>3. QED
      BY <3>2, KindsNamed
  <2>5. CASE e = 16 + (p + b + s)
    <3>1. HeaderAt(w, "vdst") = e /\ Len(w.head["vdst"]) = 1
      BY ONLY <1>1, <2>5 DEF HeadStands, HeadHolds
    <3>2. InPart(w, "vdst", e)
      BY <2>0, <2>1, <3>1
    <3>3. QED
      BY <3>2, KindsNamed
  <2>6. CASE u = 1 /\ e = 16 + (p + b + s + 1)
    <3>1. HeaderAt(w, "bea") = e /\ Len(w.head["bea"]) = 1
      BY ONLY <1>1, <2>6 DEF HeadStands, HeadHolds
    <3>2. InPart(w, "bea", e)
      BY <2>0, <2>1, <3>1
    <3>3. QED
      BY <3>2, KindsNamed
  <2>7. CASE u = 1 /\ e = 16 + (p + b + s + 1 + u)
    <3>1. HeaderAt(w, "nsr") = e /\ Len(w.head["nsr"]) = 1
      BY ONLY <1>1, <2>7 DEF HeadStands, HeadHolds
    <3>2. InPart(w, "nsr", e)
      BY <2>0, <2>1, <3>1
    <3>3. QED
      BY <3>2, KindsNamed
  <2>8. CASE u = 1 /\ e = 16 + (p + b + s + 1 + 2 * u)
    <3>1. HeaderAt(w, "tea") = e /\ Len(w.head["tea"]) = 1
      BY ONLY <1>1, <2>8 DEF HeadStands, HeadHolds
    <3>2. InPart(w, "tea", e)
      BY <2>0, <2>1, <3>1
    <3>3. QED
      BY <3>2, KindsNamed
  <2>9. QED
    BY ONLY <2>0, <2>2, <2>3, <2>4, <2>5, <2>6, <2>7, <2>8
<1>5. ASSUME NEW k \in HeaderKinds, NEW e, InPart(w, k, e) PROVE e \in 16..(ve - 1)
  <2>1. PICK i \in 1..Len(w.head[k]) : e = HeaderAt(w, k) + i - 1
    BY <1>5 DEF InPart
  <2>2. k = "pvd" \/ k = "br" \/ k = "svd" \/ k = "vdst" \/ k = "bea" \/ k = "boot" \/ k = "nsr" \/ k = "tea"
    BY KindsNamed
  <2> DEFINE a == HeaderAt(w, k)
             n == Len(w.head[k])
  <2>3. /\ a \in Int /\ n \in Nat /\ a >= 16 /\ a + n <= ve
    <3> HIDE DEF ve
    <3>1. /\ 16 \in Int /\ 16 + p <= ve /\ 16 + (p + b) + s <= ve /\ 16 + (p + b + s) + 1 <= ve
          /\ 16 + (p + b + s + 1) + u <= ve /\ 16 + (p + b + s + 1 + u) + u <= ve
          /\ 16 + (p + b + s + 1 + 2 * u) + u <= ve /\ 16 + p + b <= ve /\ 16 + (p + b + s + 1) + 0 <= ve
      BY ONLY <1>2 DEF ve
    <3>2. /\ p \in Int /\ b \in Int /\ s \in Int /\ u \in Int
          /\ p >= 0 /\ b >= 0 /\ s >= 0 /\ u >= 0
      BY ONLY <1>2
    <3> DEFINE Good(x, y) == x \in Int /\ y \in Nat /\ x >= 16 /\ x + y <= ve
    <3>3. CASE k = "pvd"
      <4>1. HeaderAt(w, "pvd") = 16 /\ Len(w.head["pvd"]) = p
        BY ONLY <1>1 DEF HeadStands, HeadHolds
      <4>2. Good(16, p)
        BY ONLY <1>2, <3>1, <3>2
      <4>3. QED
        BY ONLY <3>3, <4>1, <4>2
    <3>4. CASE k = "br"
      <4>1. HeaderAt(w, "br") = 16 + p /\ Len(w.head["br"]) = b
        BY ONLY <1>1 DEF HeadStands, HeadHolds
      <4>2. Good(16 + p, b)
        BY ONLY <1>2, <3>1, <3>2
      <4>3. QED
        BY ONLY <3>4, <4>1, <4>2
    <3>5. CASE k = "svd"
      <4>1. HeaderAt(w, "svd") = 16 + (p + b) /\ Len(w.head["svd"]) = s
        BY ONLY <1>1 DEF HeadStands, HeadHolds
      <4>2. Good(16 + (p + b), s)
        BY ONLY <1>2, <3>1, <3>2
      <4>3. QED
        BY ONLY <3>5, <4>1, <4>2
    <3>6. CASE k = "vdst"
      <4>1. HeaderAt(w, "vdst") = 16 + (p + b + s) /\ Len(w.head["vdst"]) = 1
        BY ONLY <1>1 DEF HeadStands, HeadHolds
      <4>2. Good(16 + (p + b + s), 1)
        BY ONLY <1>2, <3>1, <3>2
      <4>3. QED
        BY ONLY <3>6, <4>1, <4>2
    <3>7. CASE k = "bea"
      <4>1. HeaderAt(w, "bea") = 16 + (p + b + s + 1) /\ Len(w.head["bea"]) = u
        BY ONLY <1>1 DEF HeadStands, HeadHolds
      <4>2. Good(16 + (p + b + s + 1), u)
        BY ONLY <1>2, <3>1, <3>2
      <4>3. QED
        BY ONLY <3>7, <4>1, <4>2
    <3>8. CASE k = "boot"
      <4>1. HeaderAt(w, "boot") = 16 + (p + b + s + 1) /\ Len(w.head["boot"]) = 0
        BY ONLY <1>1 DEF HeadStands, HeadHolds
      <4>2. Good(16 + (p + b + s + 1), 0)
        BY ONLY <1>2, <3>1, <3>2
      <4>3. QED
        BY ONLY <3>8, <4>1, <4>2
    <3>9. CASE k = "nsr"
      <4>1. HeaderAt(w, "nsr") = 16 + (p + b + s + 1 + u) /\ Len(w.head["nsr"]) = u
        BY ONLY <1>1 DEF HeadStands, HeadHolds
      <4>2. Good(16 + (p + b + s + 1 + u), u)
        BY ONLY <1>2, <3>1, <3>2
      <4>3. QED
        BY ONLY <3>9, <4>1, <4>2
    <3>10. CASE k = "tea"
      <4>1. HeaderAt(w, "tea") = 16 + (p + b + s + 1 + 2 * u) /\ Len(w.head["tea"]) = u
        BY ONLY <1>1 DEF HeadStands, HeadHolds
      <4>2. Good(16 + (p + b + s + 1 + 2 * u), u)
        BY ONLY <1>2, <3>1, <3>2
      <4>3. QED
        BY ONLY <3>10, <4>1, <4>2
    <3>11. QED
      BY ONLY <2>2, <3>3, <3>4, <3>5, <3>6, <3>7, <3>8, <3>9, <3>10
  <2> HIDE DEF a, n, ve
  <2>4. i \in 1..n /\ e = a + i - 1
    BY <2>1 DEF a, n
  <2>5. ve \in Int
    BY ONLY <1>2 DEF ve
  <2>6. QED
    BY ONLY <2>3, <2>4, <2>5
<1>6. ve \in Int /\ ve >= 16
  BY ONLY <1>2
<1>7. QED
  BY <1>3, <1>4, <1>5, <1>6
LEMMA HeaderExtentsAre ==
  ASSUME NEW img, NEW w, NEW t, Reads(img, w, t)
  PROVE  HeaderExtents(img) = 16..(HeaderAt(w, "version") - 1)
<1> DEFINE ve == HeaderAt(w, "version")
           header(e) == KindOf(At0(img, e)) \in HeaderKinds
           H == {e \in Int : header(e)}
<1>1. Own(w) /\ Shows(img, w)
  BY DEF Reads, Laid
<1>2. ve \in Int /\ ve >= 16
  BY <1>1, HeaderCovered
<1>3. \A e \in 16..(ve - 1) : header(e)
  <2> TAKE e \in 16..(ve - 1)
  <2>1. PICK k \in HeaderKinds : InPart(w, k, e)
    BY <1>1, HeaderCovered
  <2>2. PICK i \in 1..Len(w.head[k]) : e = HeaderAt(w, k) + i - 1
    BY <2>1 DEF InPart
  <2>3. At0(img, e) = HeaderBlock(w, k, i)
    BY <1>1, <2>2, ShowsHeader, KindsNamed
  <2>4. KindOf(HeaderBlock(w, k, i)) = k
    BY <1>1, HeaderBlockKinds
  <2>5. QED
    BY <2>3, <2>4
<1>4. ~header(ve)
  <2>1. Len(w.head["version"]) = 1
    BY <1>1, HeadStandsAt DEF HeadHolds
  <2>2. At0(img, ve + 1 - 1) = HeaderBlock(w, "version", 1)
    BY <1>1, <2>1, ShowsHeader, KindsNamed
  <2>3. ve + 1 - 1 = ve
    BY <1>2
  <2>4. At0(img, ve) = Zero
    BY <1>1, <2>2, <2>3, HeaderBlockKinds
  <2>5. KindOf(Zero) = "zero"
    BY DEF KindOf, Zero
  <2>6. QED
    BY <2>4, <2>5, KindsNamed
<1>5. ve <= img.size /\ img.size \in Int
  <2>1. img.size = w.space /\ w.space = EndAt(w) + One(w.udf)
    BY <1>1, OwnHas DEF Shows
  <2>2. HeaderEnd(w) = ve + 1 /\ RegionsOf(w) /\ Places(w)
    BY <1>1, OwnHeadPlaces, OwnRegions, OwnPlaces
  <2>3. One(w.udf) \in 0..1
    BY ONLY <2>2 DEF Places
  <2>4. w.udf \in BOOLEAN
    BY <1>1, OwnHas
  <2> HIDE DEF ve
  <2>5. HeaderEnd(w) <= EndAt(w) /\ EndAt(w) \in Int
    BY ONLY <2>2, <2>4 DEF RegionsOf, Regions
  <2>6. QED
    BY ONLY <1>2, <2>1, <2>2, <2>3, <2>5
<1> DEFINE good(e) == ~header(e) /\ \A x \in 16..(e - 1) : header(x)
<1>6. HeaderExtents(img) = 16..((CHOOSE e \in 16..img.size : good(e)) - 1)
  BY DEF HeaderExtents
<1> HIDE DEF ve, header
<1>7. ve \in 16..img.size /\ good(ve)
  BY <1>2, <1>3, <1>4, <1>5
<1>8. ASSUME NEW e \in 16..img.size, good(e) PROVE e = ve
  <2>1. CASE e < ve
    <3>1. e \in 16..(ve - 1)
      BY <1>2, <1>5, <2>1
    <3>2. QED
      BY <1>3, <1>8, <3>1
  <2>2. CASE e > ve
    <3>1. ve \in 16..(e - 1)
      BY <1>2, <1>5, <2>2
    <3>2. QED
      BY <1>4, <1>8, <3>1
  <2>3. QED
    BY <1>2, <1>5, <2>1, <2>2
<1> HIDE DEF good
<1>9. (CHOOSE e \in 16..img.size : good(e)) = ve
  BY <1>7, <1>8
<1>10. QED
  BY ONLY <1>6, <1>9 DEF ve

LEMMA HeaderOfKind ==
  ASSUME NEW img, NEW w, NEW t, Reads(img, w, t), NEW k \in HeaderKinds
  PROVE  /\ {e \in HeaderExtents(img) : KindOf(At0(img, e)) = k} = HeaderAt(w, k)..(HeaderAt(w, k) + Len(w.head[k]) - 1)
         /\ HeaderAt(w, k) \in Int /\ Len(w.head[k]) \in Nat
<1>1. Own(w) /\ Shows(img, w) /\ Laid(w)
  BY DEF Reads, Laid
<1>2. HeaderAt(w, k) \in Int /\ Len(w.head[k]) \in Nat
  BY <1>1, HeaderListPuts, KindsNamed
<1>3. HeaderExtents(img) = 16..(HeaderAt(w, "version") - 1)
  BY HeaderExtentsAre
<1>4. ASSUME NEW e, InPart(w, k, e) PROVE e \in HeaderExtents(img) /\ KindOf(At0(img, e)) = k
  <2>1. PICK i \in 1..Len(w.head[k]) : e = HeaderAt(w, k) + i - 1
    BY <1>4 DEF InPart
  <2>2. At0(img, e) = HeaderBlock(w, k, i)
    BY <1>1, <2>1, ShowsHeader, KindsNamed
  <2>3. KindOf(HeaderBlock(w, k, i)) = k
    BY <1>1, HeaderBlockKinds
  <2>4. e \in 16..(HeaderAt(w, "version") - 1)
    BY <1>1, <1>4, HeaderCovered
  <2>5. QED
    BY <1>3, <2>2, <2>3, <2>4
<1>5. ASSUME NEW e \in HeaderExtents(img), KindOf(At0(img, e)) = k PROVE InPart(w, k, e)
  <2>1. PICK l \in HeaderKinds : InPart(w, l, e)
    BY <1>1, <1>3, HeaderCovered
  <2>2. PICK i \in 1..Len(w.head[l]) : e = HeaderAt(w, l) + i - 1
    BY <2>1 DEF InPart
  <2>3. At0(img, e) = HeaderBlock(w, l, i)
    BY <1>1, <2>2, ShowsHeader, KindsNamed
  <2>4. KindOf(HeaderBlock(w, l, i)) = l
    BY <1>1, HeaderBlockKinds
  <2>5. QED
    BY <1>5, <2>1, <2>3, <2>4
<1>6. \A e : InPart(w, k, e) <=> e \in HeaderAt(w, k)..(HeaderAt(w, k) + Len(w.head[k]) - 1)
  <2> DEFINE a == HeaderAt(w, k)
             n == Len(w.head[k])
  <2>1. a \in Int /\ n \in Nat
    BY <1>2
  <2>2. \A e : InPart(w, k, e) <=> \E i \in 1..n : e = a + i - 1
    BY DEF InPart
  <2> HIDE DEF a, n
  <2>3. \A e : (\E i \in 1..n : e = a + i - 1) <=> e \in a..(a + n - 1)
    <3>1. ASSUME NEW e \in a..(a + n - 1) PROVE \E i \in 1..n : e = a + i - 1
      <4>1. e - a + 1 \in 1..n /\ e = a + (e - a + 1) - 1
        BY ONLY <2>1, e \in a..(a + n - 1)
      <4>2. QED
        BY ONLY <4>1
    <3>2. \A i \in 1..n : a + i - 1 \in a..(a + n - 1)
      BY ONLY <2>1
    <3>3. QED
      BY ONLY <3>1, <3>2
  <2>4. QED
    BY ONLY <2>2, <2>3 DEF a, n
<1>7. QED
  BY <1>2, <1>4, <1>5, <1>6

HeaderRead(w) ==
  [k \in HeaderNames |->
     [i \in 1..(IF k = "version" THEN 0 ELSE Len(w.head[k])) |->
        [extent |-> HeaderAt(w, k) + i - 1, is |-> HeaderBlock(w, k, i)]]]
LEMMA ReadHeaderIs ==
  ASSUME NEW img, NEW w, NEW t, Reads(img, w, t)
  PROVE  ReadHeader(img) = HeaderRead(w)
<1> DEFINE is(b) == IF KindOf(b) = "boot" THEN [b EXCEPT !.s = ParseBoot(@)] ELSE b
           of(k) == InOrderOf({e \in HeaderExtents(img) : KindOf(At0(img, e)) = k})
           row(k) == [i \in 1..Len(of(k)) |-> [extent |-> of(k)[i], is |-> is(At0(img, of(k)[i]))]]
           new(k) == [i \in 1..(IF k = "version" THEN 0 ELSE Len(w.head[k])) |->
                        [extent |-> HeaderAt(w, k) + i - 1, is |-> HeaderBlock(w, k, i)]]
<1>1. Own(w) /\ Shows(img, w)
  BY DEF Reads, Laid
<1>2. ReadHeader(img) = [k \in HeaderNames |-> row(k)]
  BY DEF ReadHeader
<1>3. ASSUME NEW k \in HeaderKinds PROVE row(k) = new(k)
  <2> DEFINE a == HeaderAt(w, k)
             n == Len(w.head[k])
             s == of(k)
  <2>1. a \in Int /\ n \in Nat /\ {e \in HeaderExtents(img) : KindOf(At0(img, e)) = k} = a..(a + n - 1)
    BY <1>3, HeaderOfKind
  <2>2. s = [i \in 1..n |-> a + i - 1]
    <3> HIDE DEF a, n
    <3>1. InOrderOf(a..(a + n - 1)) = [i \in 1..n |-> a + i - 1]
      BY ONLY <2>1, InOrderInterval
    <3>2. QED
      BY ONLY <2>1, <3>1
  <2>3. \A i \in 1..n : At0(img, a + i - 1) = HeaderBlock(w, k, i) /\ KindOf(HeaderBlock(w, k, i)) = k /\ k # "boot"
    BY <1>1, <1>3, ShowsHeader, HeaderBlockKinds, KindsNamed
  <2>4. k # "version"
    BY KindsNamed
  <2>5. \A i \in 1..n : is(At0(img, a + i - 1)) = HeaderBlock(w, k, i)
    BY <2>3
  <2> HIDE DEF is
  <2>6. new(k) = [i \in 1..n |-> [extent |-> a + i - 1, is |-> HeaderBlock(w, k, i)]]
    BY <2>4
  <2> HIDE DEF new, a, n
  <2>7. Len(s) = n /\ \A i \in 1..n : s[i] = a + i - 1
    <3> HIDE DEF s
    <3>1. QED
      BY ONLY <2>1, <2>2
  <2>8. row(k) = [i \in 1..Len(s) |-> [extent |-> s[i], is |-> is(At0(img, s[i]))]]
    OBVIOUS
  <2> HIDE DEF s, row
  <2>9. \A i \in 1..n : is(At0(img, s[i])) = HeaderBlock(w, k, i) /\ s[i] = a + i - 1
    BY <2>5, <2>7
  <2>10. QED
    BY <2>6, <2>7, <2>8, <2>9
<1>4. row("version") = new("version")
  <2>1. \A e \in HeaderExtents(img) : KindOf(At0(img, e)) # "version"
    <3> TAKE e \in HeaderExtents(img)
    <3>1. HeaderExtents(img) = 16..(HeaderAt(w, "version") - 1)
      BY HeaderExtentsAre
    <3>2. PICK k \in HeaderKinds : InPart(w, k, e)
      BY <1>1, <3>1, HeaderCovered
    <3>3. PICK i \in 1..Len(w.head[k]) : e = HeaderAt(w, k) + i - 1
      BY <3>2 DEF InPart
    <3>4. At0(img, e) = HeaderBlock(w, k, i) /\ KindOf(HeaderBlock(w, k, i)) = k
      BY <1>1, <3>3, ShowsHeader, HeaderBlockKinds, KindsNamed
    <3>5. QED
      BY <3>4, KindsNamed
  <2>2. {e \in HeaderExtents(img) : KindOf(At0(img, e)) = "version"} = {}
    BY <2>1
  <2>3. of("version") = <<>>
    BY <2>2, InOrderNone
  <2>4. row("version") = <<>> /\ new("version") = <<>>
    <3>1. new("version") = <<>>
      OBVIOUS
    <3> HIDE DEF of, is, new
    <3>2. Len(of("version")) = 0
      BY <2>3
    <3>3. QED
      BY <3>1, <3>2
  <2>5. QED
    BY <2>4
<1>5. HeaderRead(w) = [k \in HeaderNames |-> new(k)]
  BY DEF HeaderRead
<1> HIDE DEF row, new
<1>6. \A k \in HeaderNames : k \in HeaderKinds \/ k = "version"
  BY Names, KindsNamed
<1>7. \A k \in HeaderNames : row(k) = new(k)
  BY <1>3, <1>4, <1>6
<1>8. QED
  BY ONLY <1>2, <1>5, <1>7
\* What the header that is read says.
HeaderSays(w, h) ==
  /\ DOMAIN h = HeaderNames
  /\ \A k \in HeaderKinds : /\ Len(h[k]) = Len(w.head[k])
                            /\ \A i \in 1..Len(w.head[k]) :
                                 /\ h[k][i].extent = HeaderAt(w, k) + i - 1
                                 /\ h[k][i].is = HeaderBlock(w, k, i)
  /\ h["version"] = <<>>
  /\ \A k \in HeaderNames : h[k] = [i \in 1..Len(h[k]) |-> h[k][i]]
LEMMA HeaderReadSays ==
  ASSUME NEW w, Own(w)
  PROVE  HeaderSays(w, HeaderRead(w))
<1> DEFINE n(k) == IF k = "version" THEN 0 ELSE Len(w.head[k])
           row(k) == [i \in 1..n(k) |-> [extent |-> HeaderAt(w, k) + i - 1, is |-> HeaderBlock(w, k, i)]]
           h == HeaderRead(w)
<1>1. h = [k \in HeaderNames |-> row(k)]
  BY DEF HeaderRead
<1>2. \A k \in HeaderNames : n(k) \in Nat
  BY OwnHas DEF OwnHead
<1>3. ASSUME NEW k \in HeaderNames
      PROVE  /\ Len(row(k)) = n(k) /\ row(k) = [i \in 1..Len(row(k)) |-> row(k)[i]]
             /\ \A i \in 1..n(k) : /\ row(k)[i].extent = HeaderAt(w, k) + i - 1
                                     /\ row(k)[i].is = HeaderBlock(w, k, i)
  <2> DEFINE m == n(k)
             g(i) == [extent |-> HeaderAt(w, k) + i - 1, is |-> HeaderBlock(w, k, i)]
             s == [i \in 1..m |-> g(i)]
  <2>1. m \in Nat
    BY <1>2
  <2> HIDE DEF m, g
  <2>2. Len(s) = m /\ s = [i \in 1..Len(s) |-> s[i]] /\ \A i \in 1..m : s[i] = g(i)
    BY ONLY <2>1
  <2>3. row(k) = s
    BY DEF m, g
  <2> HIDE DEF s, row
  <2>4. \A i \in 1..m : s[i].extent = HeaderAt(w, k) + i - 1 /\ s[i].is = HeaderBlock(w, k, i)
    BY <2>2 DEF g
  <2>5. QED
    BY ONLY <2>2, <2>3, <2>4 DEF m
<1>4. row("version") = <<>>
  OBVIOUS
<1>5. \A k \in HeaderKinds : k \in HeaderNames /\ n(k) = Len(w.head[k])
  BY KindsNamed
<1> HIDE DEF row, n, h
<1>6. DOMAIN h = HeaderNames /\ \A k \in HeaderNames : h[k] = row(k)
  BY ONLY <1>1
<1>7. "version" \in HeaderNames
  BY KindsNamed
<1>8. QED
  BY ONLY <1>3, <1>4, <1>5, <1>6, <1>7 DEF HeaderSays, h

HeaderTells(w, h) ==
  /\ Len(h["pvd"]) = Len(w.head["pvd"]) /\ Len(h["pvd"]) >= 1 /\ Len(h["pvd"]) \in Nat
  /\ \A i \in 1..Len(h["pvd"]) : h["pvd"][i].is = PvdBlock(w)
  /\ h["pvd"] # <<>> /\ h["pvd"][1].is = PvdBlock(w)
  /\ Len(h["br"]) = One(w.catalog) /\ (w.catalog => h["br"][1].is = [k |-> "br", catalog |-> w.at.catalog])
  /\ Len(h["svd"]) = One(w.joliet) /\ (w.joliet => h["svd"][1].is = SvdBlock(w))
  /\ Len(h["vdst"]) = 1 /\ h["vdst"][1].extent = HeaderAt(w, "vdst")
  /\ Len(h["boot"]) = 0
  /\ Len(h["bea"]) = One(w.udf) /\ Len(h["nsr"]) = One(w.udf) /\ Len(h["tea"]) = One(w.udf)
  /\ w.udf => h["tea"][1].extent = HeaderAt(w, "tea")
  /\ (h["br"] = <<>> <=> ~w.catalog) /\ (h["svd"] = <<>> <=> ~w.joliet) /\ (h["bea"] = <<>> <=> ~w.udf)
  /\ h["vdst"] # <<>> /\ (h["tea"] = <<>> <=> ~w.udf)
LEMMA EmptyList ==
  ASSUME NEW s, s = [i \in 1..Len(s) |-> s[i]], Len(s) \in Nat
  PROVE  s = <<>> <=> Len(s) = 0
  OBVIOUS
LEMMA HeaderReadTells ==
  ASSUME NEW w, Own(w), NEW h, HeaderSays(w, h)
  PROVE  HeaderTells(w, h)
<1> DEFINE p == Len(w.head["pvd"])
           b == One(w.catalog)
           s == One(w.joliet)
           u == One(w.udf)
<1>1. HeadStands(w, p, b, s, u) /\ HeadHolds(w, p, b, s, u)
  BY HeadStandsAt
<1>2. w.udf \in BOOLEAN /\ w.joliet \in BOOLEAN /\ w.catalog \in BOOLEAN
  BY OwnHas
<1>3. \A k \in HeaderKinds : Len(h[k]) = Len(w.head[k]) /\ h[k] = [i \in 1..Len(h[k]) |-> h[k][i]]
  BY KindsNamed DEF HeaderSays
<1>4. \A k \in HeaderKinds : \A i \in 1..Len(w.head[k]) :
        h[k][i].extent = HeaderAt(w, k) + i - 1 /\ h[k][i].is = HeaderBlock(w, k, i)
  BY DEF HeaderSays
<1>5. /\ Len(h["pvd"]) = p /\ Len(h["br"]) = One(w.catalog) /\ Len(h["svd"]) = One(w.joliet)
      /\ Len(h["vdst"]) = 1 /\ Len(h["boot"]) = 0 /\ Len(h["bea"]) = One(w.udf)
      /\ Len(h["nsr"]) = One(w.udf) /\ Len(h["tea"]) = One(w.udf) /\ p >= 1 /\ p \in Nat
  BY <1>1, <1>3, KindsNamed DEF HeadHolds
<1>6. \A k \in HeaderKinds : Len(h[k]) \in Nat
  <2>1. \A k \in HeaderNames : Len(w.head[k]) \in Nat
    BY OwnHas DEF OwnHead
  <2>2. QED
    BY <1>3, <2>1, KindsNamed
<1>7. \A k \in HeaderKinds : h[k] = <<>> <=> Len(h[k]) = 0
  BY <1>3, <1>6, EmptyList
<1>8. /\ (h["br"] = <<>> <=> ~w.catalog) /\ (h["svd"] = <<>> <=> ~w.joliet) /\ (h["bea"] = <<>> <=> ~w.udf)
      /\ h["vdst"] # <<>> /\ h["pvd"] # <<>> /\ (h["tea"] = <<>> <=> ~w.udf)
  <2>1. /\ (Len(h["br"]) = 0 <=> ~w.catalog) /\ (Len(h["svd"]) = 0 <=> ~w.joliet) /\ (Len(h["bea"]) = 0 <=> ~w.udf)
        /\ Len(h["vdst"]) # 0 /\ Len(h["pvd"]) # 0 /\ (Len(h["tea"]) = 0 <=> ~w.udf)
    BY <1>2, <1>5 DEF One
  <2>2. /\ (h["br"] = <<>> <=> Len(h["br"]) = 0) /\ (h["svd"] = <<>> <=> Len(h["svd"]) = 0)
        /\ (h["bea"] = <<>> <=> Len(h["bea"]) = 0) /\ (h["vdst"] = <<>> <=> Len(h["vdst"]) = 0)
        /\ (h["pvd"] = <<>> <=> Len(h["pvd"]) = 0) /\ (h["tea"] = <<>> <=> Len(h["tea"]) = 0)
    BY <1>7, KindsNamed
  <2>3. QED
    BY ONLY <2>1, <2>2
<1>9. \A i \in 1..Len(h["pvd"]) : h["pvd"][i].is = PvdBlock(w)
  BY <1>3, <1>4, KindsNamed DEF HeaderBlock
<1>10. h["pvd"][1].is = PvdBlock(w)
  BY <1>5, <1>9
<1>11. w.catalog => h["br"][1].is = [k |-> "br", catalog |-> w.at.catalog]
  <2>1. ASSUME w.catalog PROVE 1 \in 1..Len(w.head["br"])
    <3>1. Len(w.head["br"]) = 1
      BY <1>3, <1>5, <2>1, KindsNamed DEF One
    <3>2. QED
      BY <3>1
  <2>2. w.catalog => h["br"][1].is = HeaderBlock(w, "br", 1)
    BY <1>4, <2>1, KindsNamed
  <2>3. QED
    BY <2>2 DEF HeaderBlock
<1>12. w.joliet => h["svd"][1].is = SvdBlock(w)
  <2>1. ASSUME w.joliet PROVE 1 \in 1..Len(w.head["svd"])
    <3>1. Len(w.head["svd"]) = 1
      BY <1>3, <1>5, <2>1, KindsNamed DEF One
    <3>2. QED
      BY <3>1
  <2>2. w.joliet => h["svd"][1].is = HeaderBlock(w, "svd", 1)
    BY <1>4, <2>1, KindsNamed
  <2>3. QED
    BY <2>2 DEF HeaderBlock
<1>13. h["vdst"][1].extent = HeaderAt(w, "vdst")
  <2>1. 1 \in 1..Len(w.head["vdst"])
    BY <1>1 DEF HeadHolds
  <2>2. h["vdst"][1].extent = HeaderAt(w, "vdst") + 1 - 1
    BY <1>4, <2>1, KindsNamed
  <2> HIDE DEF p, b, s, u
  <2>3. HeaderAt(w, "vdst") = 16 + (p + b + s) /\ p \in Nat /\ b \in 0..1 /\ s \in 0..1
    BY ONLY <1>1 DEF HeadStands, HeadHolds
  <2>4. QED
    BY ONLY <2>2, <2>3
<1>14. w.udf => h["tea"][1].extent = HeaderAt(w, "tea")
  <2>1. ASSUME w.udf PROVE 1 \in 1..Len(w.head["tea"])
    BY <1>1, <2>1 DEF HeadHolds, One
  <2>2. w.udf => h["tea"][1].extent = HeaderAt(w, "tea") + 1 - 1
    BY <1>4, <2>1, KindsNamed
  <2> HIDE DEF p, b, s, u
  <2>3. HeaderAt(w, "tea") = 16 + (p + b + s + 1 + 2 * u) /\ p \in Nat /\ b \in 0..1 /\ s \in 0..1 /\ u \in 0..1
    BY ONLY <1>1 DEF HeadStands, HeadHolds
  <2>4. QED
    BY ONLY <2>2, <2>3
<1> HIDE DEF p
<1>15. QED
  BY <1>5, <1>8, <1>9, <1>10, <1>11, <1>12, <1>13, <1>14 DEF HeaderTells, p

LEMMA ReadVersionIs ==
  ASSUME NEW img, NEW w, NEW t, Reads(img, w, t)
  PROVE  ReadVersion(img, HeaderRead(w)) = <<[extent |-> HeaderAt(w, "version"), is |-> Zero]>>
<1> DEFINE h == HeaderRead(w)
           p == Len(w.head["pvd"])
           b == One(w.catalog)
           s == One(w.joliet)
           u == One(w.udf)
<1>1. Own(w) /\ Shows(img, w)
  BY DEF Reads, Laid
<1>2. HeaderTells(w, h)
  BY <1>1, HeaderReadSays, HeaderReadTells
<1>3. HeadStands(w, p, b, s, u) /\ HeadHolds(w, p, b, s, u)
  BY <1>1, HeadStandsAt
<1>4. w.udf \in BOOLEAN
  BY <1>1, OwnHas
<1>5. 1 + h[IF h["bea"] # <<>> THEN "tea" ELSE "vdst"][1].extent = HeaderAt(w, "version")
  <2>1. CASE w.udf
    <3>1. h[IF h["bea"] # <<>> THEN "tea" ELSE "vdst"][1].extent = HeaderAt(w, "tea") /\ One(w.udf) = 1
      BY <1>2, <2>1 DEF HeaderTells, One
    <3>2. HeaderAt(w, "version") = 1 + HeaderAt(w, "tea")
      <4>1. u = 1
        BY <3>1
      <4> HIDE DEF p, b, s, u
      <4>2. QED
        BY ONLY <1>3, <4>1 DEF HeadStands, HeadHolds
    <3>3. QED
      BY <3>1, <3>2
  <2>2. CASE ~w.udf
    <3>1. h[IF h["bea"] # <<>> THEN "tea" ELSE "vdst"][1].extent = HeaderAt(w, "vdst") /\ One(w.udf) = 0
      BY <1>2, <2>2 DEF HeaderTells, One
    <3>2. HeaderAt(w, "version") = 1 + HeaderAt(w, "vdst")
      <4>1. u = 0
        BY <3>1
      <4> HIDE DEF p, b, s, u
      <4>2. QED
        BY ONLY <1>3, <4>1 DEF HeadStands, HeadHolds
    <3>3. QED
      BY <3>1, <3>2
  <2>3. QED
    BY <1>4, <2>1, <2>2
<1>6. At0(img, HeaderAt(w, "version")) = Zero
  <2>1. At0(img, HeaderAt(w, "version") + 1 - 1) = HeaderBlock(w, "version", 1)
    <3>1. 1 \in 1..Len(w.head["version"])
      BY <1>3 DEF HeadHolds
    <3>2. QED
      BY <1>1, <3>1, ShowsHeader, KindsNamed
  <2>2. HeaderAt(w, "version") \in Nat
    BY <1>1, OwnHeadPlaces
  <2>3. HeaderAt(w, "version") + 1 - 1 = HeaderAt(w, "version")
    BY <2>2
  <2>4. QED
    BY <1>1, <2>1, <2>3, HeaderBlockKinds
<1>7. At0(img, HeaderAt(w, "version")).k \in {"mki", "zero"}
  BY <1>6 DEF Zero
<1> HIDE DEF h
<1>8. QED
  BY <1>5, <1>6, <1>7 DEF ReadVersion, h

LEMMA HeaderReadOpens ==
  ASSUME NEW img, NEW w, NEW t, Reads(img, w, t)
  PROVE  HeaderOpens(img, HeaderRead(w))
<1> DEFINE h == HeaderRead(w)
<1>1. Own(w) /\ Shows(img, w) /\ OwnHead(w)
  BY OwnHas DEF Reads, Laid
<1>2. HeaderTells(w, h) /\ HeaderSays(w, h)
  BY <1>1, HeaderReadSays, HeaderReadTells
<1>3. w.udf \in BOOLEAN
  BY <1>1, OwnHas
<1>4. ASSUME NEW k \in {"bea", "nsr", "tea"}, NEW i \in 1..Len(h[k])
      PROVE  w.udf /\ At0(img, h[k][i].extent).s = w.head[k][1].is.s
  <2>1. Len(h[k]) = One(w.udf) /\ k \in HeaderKinds /\ k \in HeaderNames /\ Len(w.head[k]) = Len(h[k])
    BY <1>2, KindsNamed DEF HeaderTells, HeaderSays
  <2>2. w.udf /\ i = 1
    BY <2>1 DEF One
  <2>3. h[k][i].extent = HeaderAt(w, k) + i - 1
    BY <1>2, <2>1 DEF HeaderSays
  <2>4. At0(img, HeaderAt(w, k) + i - 1) = HeaderBlock(w, k, i)
    BY <1>1, <2>1, ShowsHeader
  <2>5. HeaderBlock(w, k, i) = w.head[k][1].is
    BY <2>2 DEF HeaderBlock
  <2>6. QED
    BY <2>2, <2>3, <2>4, <2>5
<1>5. w.udf => w.head["bea"][1].is.s = NewBEA /\ w.head["nsr"][1].is.s = NewNSR /\ w.head["tea"][1].is.s = NewTEA
  BY <1>1 DEF OwnHead
<1>6. BEAValid(NewBEA) /\ NSRValid(NewNSR) /\ TEAValid(NewTEA)
  BY DEF BEAValid, NSRValid, TEAValid, StructureValid, NewBEA, NewNSR, NewTEA
<1> HIDE DEF h
<1>7. /\ \A i \in 1..Len(h["bea"]) : BEAValid(At0(img, h["bea"][i].extent).s)
      /\ \A i \in 1..Len(h["nsr"]) : NSRValid(At0(img, h["nsr"][i].extent).s)
      /\ \A i \in 1..Len(h["tea"]) : TEAValid(At0(img, h["tea"][i].extent).s)
  BY <1>4, <1>5, <1>6
<1>8. \A i \in 1..Len(h["boot"]) : BootValid(At0(img, h["boot"][i].extent).s)
  BY <1>2 DEF HeaderTells
<1>9. Len(h["nsr"]) <= 1 /\ Len(h["svd"]) <= 1
  BY <1>2 DEF HeaderTells, One
<1>10. /\ h["pvd"] # <<>> /\ h["vdst"] # <<>> /\ (h["bea"] # <<>> => h["tea"] # <<>>)
       /\ \A i \in 1..Len(h["pvd"]) : h["pvd"][i].is = h["pvd"][1].is
  BY <1>2 DEF HeaderTells
<1>11. QED
  BY <1>7, <1>8, <1>9, <1>10 DEF HeaderOpens, h
-----------------------------------------------------------------------------
(* The blocks of a file, by what is there.                                  *)

ShowsTrees(img, w) ==
  /\ At0(img, TreeStart(w)) = Table("le", IsoAt(w)) /\ At0(img, TreeStart(w) + 2) = Table("be", IsoAt(w))
  /\ At0(img, IsoAt(w)) = DirBlock(w, "iso")
  /\ w.rr => At0(img, ErAt(w)) = [k |-> "er"]
  /\ UsesBlock(w) => At0(img, IsoAt(w) + 1) = [k |-> "ce"]
  /\ w.joliet => /\ At0(img, TreeStart(w) + 4) = Table("le", JolietAt(w))
                 /\ At0(img, TreeStart(w) + 6) = Table("be", JolietAt(w))
                 /\ At0(img, JolietAt(w)) = DirBlock(w, "joliet")
  /\ w.catalog => At0(img, CatalogAt(w)) = [k |-> "catalog", boot |-> {w.files[f].ext : f \in w.boot}]
ShowsDesc(img, m) == At0(img, m.extent) = Desc(RecordDesc(m))
ShowsUdf(img, w) ==
  /\ \A s \in {w.main, w.reserve} : \A k \in Singles : ShowsDesc(img, s[k][1])
  /\ ShowsDesc(img, w.lvid[1]) /\ ShowsDesc(img, w.lvidEnd[1])
  /\ ShowsDesc(img, w.anchors[1]) /\ ShowsDesc(img, w.anchors[2])
  /\ ShowsDesc(img, w.set[1]) /\ ShowsDesc(img, w.setEnd[1])
ShowsEntries(img, w) ==
  /\ At0(img, RootAt) = RelFe(RootAt, 1, 0, RootAt + 1).is
  /\ At0(img, RootAt + 1) = IdentsPut(w).is
  /\ w.catalog => At0(img, RootAt + 2) = RelFe(RootAt + 2, 1, 0, CatalogAt(w)).is
  /\ \A f \in InTree(w, "udf") : At0(img, EntryAtOf(w, f)) = EntryPut(w, f).is
ShowsData(img, w) ==
  \A f \in Present(w) : \A i \in 1..w.files[f].len : At0(img, DataAtOf(w, f) + i - 1) = w.files[f].data[i]

LEMMA ShowsAll ==
  ASSUME NEW img, NEW w, Shows(img, w)
  PROVE  /\ ShowsTrees(img, w) /\ (w.udf => ShowsUdf(img, w) /\ ShowsEntries(img, w)) /\ ShowsData(img, w)
<1>1. ASSUME NEW p, NEW P, p \in P, P \subseteq PutsOf(w) PROVE At0(img, p.at) = p.is
  BY <1>1, ShowsPut
<1>2. ASSUME NEW e, NEW is, NEW P, Put(e, is) \in P, P \subseteq PutsOf(w) PROVE At0(img, e) = is
  BY <1>2, ShowsIs
<1>3. /\ CatalogSet(w) \subseteq PutsOf(w) /\ IsoSet(w) \subseteq PutsOf(w) /\ JolietSet(w) \subseteq PutsOf(w)
      /\ DescSet(w) \subseteq PutsOf(w) /\ UdfSet(w) \subseteq PutsOf(w) /\ DataSet(w) \subseteq PutsOf(w)
  BY DEF PutsOf
<1>4. ASSUME NEW le, NEW be, NEW root, NEW dir, TreeSet(le, be, root, dir) \subseteq PutsOf(w)
      PROVE  At0(img, le) = Table("le", root) /\ At0(img, be) = Table("be", root) /\ At0(img, root) = dir
  <2>1. /\ Put(le, Table("le", root)) \in TreeSet(le, be, root, dir)
        /\ Put(be, Table("be", root)) \in TreeSet(le, be, root, dir)
        /\ Put(root, dir) \in TreeSet(le, be, root, dir)
    BY DEF TreeSet
  <2>2. QED
    BY ONLY <1>2, <1>4, <2>1
<1>5. ShowsTrees(img, w)
  <2>1. TreeSet(TreeStart(w), TreeStart(w) + 2, IsoAt(w), DirBlock(w, "iso")) \subseteq PutsOf(w)
    BY <1>3 DEF IsoSet
  <2>2. w.joliet => TreeSet(TreeStart(w) + 4, TreeStart(w) + 6, JolietAt(w), DirBlock(w, "joliet")) \subseteq PutsOf(w)
    BY <1>3 DEF JolietSet
  <2>3. w.rr => Put(ErAt(w), [k |-> "er"]) \in IsoSet(w)
    BY DEF IsoSet
  <2>4. UsesBlock(w) => Put(IsoAt(w) + 1, [k |-> "ce"]) \in IsoSet(w)
    BY DEF IsoSet
  <2>5. w.catalog => Put(CatalogAt(w), [k |-> "catalog", boot |-> {w.files[f].ext : f \in w.boot}]) \in CatalogSet(w)
    BY DEF CatalogSet, CatalogPut
  <2>6. w.rr => At0(img, ErAt(w)) = [k |-> "er"]
    BY ONLY <1>2, <1>3, <2>3
  <2>7. UsesBlock(w) => At0(img, IsoAt(w) + 1) = [k |-> "ce"]
    BY ONLY <1>2, <1>3, <2>4
  <2>8. w.catalog => At0(img, CatalogAt(w)) = [k |-> "catalog", boot |-> {w.files[f].ext : f \in w.boot}]
    BY ONLY <1>2, <1>3, <2>5
  <2>9. /\ At0(img, TreeStart(w)) = Table("le", IsoAt(w)) /\ At0(img, TreeStart(w) + 2) = Table("be", IsoAt(w))
        /\ At0(img, IsoAt(w)) = DirBlock(w, "iso")
    BY ONLY <1>4, <2>1
  <2>10. w.joliet => /\ At0(img, TreeStart(w) + 4) = Table("le", JolietAt(w))
                     /\ At0(img, TreeStart(w) + 6) = Table("be", JolietAt(w))
                     /\ At0(img, JolietAt(w)) = DirBlock(w, "joliet")
    BY ONLY <1>4, <2>2
  <2>11. QED
    BY ONLY <2>6, <2>7, <2>8, <2>9, <2>10 DEF ShowsTrees
<1>6. ASSUME NEW m, NEW P, DescPut(m) \in P, P \subseteq PutsOf(w) PROVE ShowsDesc(img, m)
  <2>1. Put(m.extent, Desc(RecordDesc(m))) \in P
    BY <1>6 DEF DescPut
  <2>2. QED
    BY ONLY <1>2, <1>6, <2>1 DEF ShowsDesc
<1>7. ASSUME w.udf PROVE ShowsUdf(img, w)
  <2>1. \A k \in Singles : DescPut(w.main[k][1]) \in DescSet(w) /\ DescPut(w.reserve[k][1]) \in DescSet(w)
    BY <1>7 DEF DescSet, SequenceSet
  <2>2. /\ DescPut(w.lvid[1]) \in DescSet(w) /\ DescPut(w.lvidEnd[1]) \in DescSet(w)
        /\ DescPut(w.anchors[1]) \in DescSet(w) /\ DescPut(w.anchors[2]) \in DescSet(w)
    BY <1>7 DEF DescSet
  <2>3. DescPut(w.set[1]) \in UdfSet(w) /\ DescPut(w.setEnd[1]) \in UdfSet(w)
    BY <1>7 DEF UdfSet
  <2>4. \A k \in Singles : ShowsDesc(img, w.main[k][1]) /\ ShowsDesc(img, w.reserve[k][1])
    BY ONLY <1>3, <1>6, <2>1
  <2>5. /\ ShowsDesc(img, w.lvid[1]) /\ ShowsDesc(img, w.lvidEnd[1])
        /\ ShowsDesc(img, w.anchors[1]) /\ ShowsDesc(img, w.anchors[2])
        /\ ShowsDesc(img, w.set[1]) /\ ShowsDesc(img, w.setEnd[1])
    BY ONLY <1>3, <1>6, <2>2, <2>3
  <2>6. QED
    BY ONLY <2>4, <2>5 DEF ShowsUdf
<1>8. ASSUME w.udf PROVE ShowsEntries(img, w)
  <2>1. /\ RelFe(RootAt, 1, 0, RootAt + 1) \in UdfSet(w) /\ IdentsPut(w) \in UdfSet(w)
        /\ \A f \in InTree(w, "udf") : EntryPut(w, f) \in UdfSet(w)
    BY <1>8 DEF UdfSet
  <2>2. w.catalog => RelFe(RootAt + 2, 1, 0, CatalogAt(w)) \in UdfSet(w)
    BY <1>8 DEF UdfSet, FeSet
  <2>3. RelFe(RootAt, 1, 0, RootAt + 1).at = RootAt /\ IdentsPut(w).at = RootAt + 1
    BY DEF RelFe, IdentsPut, Put
  <2>4. RelFe(RootAt + 2, 1, 0, CatalogAt(w)).at = RootAt + 2 /\ \A f \in Files : EntryPut(w, f).at = EntryAtOf(w, f)
    BY DEF RelFe, EntryPut, Put
  <2>5. At0(img, RootAt) = RelFe(RootAt, 1, 0, RootAt + 1).is /\ At0(img, RootAt + 1) = IdentsPut(w).is
    BY ONLY <1>1, <1>3, <2>1, <2>3
  <2>6. w.catalog => At0(img, RootAt + 2) = RelFe(RootAt + 2, 1, 0, CatalogAt(w)).is
    BY ONLY <1>1, <1>3, <2>2, <2>4
  <2>7. ASSUME NEW f \in InTree(w, "udf") PROVE At0(img, EntryAtOf(w, f)) = EntryPut(w, f).is
    <3>1. EntryPut(w, f).at = EntryAtOf(w, f)
      BY <2>4 DEF InTree
    <3>2. QED
      BY ONLY <1>1, <1>3, <2>1, <3>1, f \in InTree(w, "udf")
  <2>8. QED
    BY ONLY <2>5, <2>6, <2>7 DEF ShowsEntries
<1>9. ShowsData(img, w)
  <2>1. ASSUME NEW f \in Present(w), NEW i \in 1..w.files[f].len
        PROVE  At0(img, DataAtOf(w, f) + i - 1) = w.files[f].data[i]
    <3>1. Put(DataAtOf(w, f) + i - 1, w.files[f].data[i]) \in FileSet(w, f)
      BY DEF FileSet
    <3>2. Put(DataAtOf(w, f) + i - 1, w.files[f].data[i]) \in DataSet(w)
      BY <3>1 DEF DataSet
    <3>3. QED
      BY ONLY <1>2, <1>3, <3>2
  <2>2. QED
    BY <2>1 DEF ShowsData
<1>10. QED
  BY <1>5, <1>7, <1>8, <1>9

\* What the descriptors say of the trees.
TreesAt(w) ==
  /\ PvdBlock(w) = [k |-> "pvd", space |-> w.space, le |-> TreeStart(w), be |-> TreeStart(w) + 2, root |-> IsoAt(w)]
  /\ w.joliet => SvdBlock(w) = [k |-> "svd", space |-> w.space, le |-> TreeStart(w) + 4, be |-> TreeStart(w) + 6,
                                root |-> JolietAt(w)]
  /\ w.catalog => w.at.catalog = CatalogAt(w)
  /\ w.rr => w.at.er = ErAt(w)
  /\ UsesBlock(w) => w.at.ce = IsoAt(w) + 1
  /\ \A f \in Present(w) : w.files[f].ext = DataAtOf(w, f)
  /\ \A f \in InTree(w, "udf") : w.files[f].fe = EntryAtOf(w, f)
LEMMA LaidTreesAt ==
  ASSUME NEW w, Laid(w)
  PROVE  TreesAt(w)
BY DEF Laid, Placed, TreesAt, PvdBlock, SvdBlock, UsesBlock

\* The records of a directory.
RecOf(w, t, f) ==
  [ext |-> DataAtOf(w, f), len |-> w.files[f].len, bytes |-> w.files[f].bytes[t],
   ce |-> IF t = "iso" /\ w.files[f].ce # "none" THEN IsoAt(w) + 1 ELSE 0]
LEMMA DirBlockIs ==
  ASSUME NEW w, Laid(w), NEW t
  PROVE  DirBlock(w, t) = [k |-> "dir", tree |-> t,
                           er |-> IF t = "iso" /\ w.rr THEN ErAt(w) ELSE 0,
                           catalog |-> IF w.catalog THEN CatalogAt(w) ELSE 0,
                           recs |-> [f \in InTree(w, t) |-> RecOf(w, t, f)]]
<1>1. TreesAt(w) /\ Own(w)
  BY LaidTreesAt DEF Laid
<1>2. InTree(w, t) \subseteq Present(w)
  BY <1>1, OwnHas, OwnFilesHave
<1>3. ASSUME NEW f \in InTree(w, t), t = "iso", w.files[f].ce # "none" PROVE UsesBlock(w)
  BY <1>3 DEF UsesBlock, UsedBlocks
<1>4. ASSUME NEW f \in InTree(w, t)
      PROVE  [ext |-> w.files[f].ext, len |-> w.files[f].len, bytes |-> w.files[f].bytes[t],
              ce |-> IF t = "iso" /\ w.files[f].ce # "none" THEN w.at.ce ELSE 0] = RecOf(w, t, f)
  BY <1>1, <1>2, <1>3 DEF RecOf, TreesAt
<1>5. [f \in InTree(w, t) |-> [ext |-> w.files[f].ext, len |-> w.files[f].len, bytes |-> w.files[f].bytes[t],
              ce |-> IF t = "iso" /\ w.files[f].ce # "none" THEN w.at.ce ELSE 0]]
        = [f \in InTree(w, t) |-> RecOf(w, t, f)]
  BY <1>4
<1>6. QED
  BY <1>1, <1>5 DEF DirBlock, TreesAt

\* The trees of directory records are found.
LEMMA TreesOpen ==
  ASSUME NEW img, NEW w, NEW t, Reads(img, w, t)
  PROVE  TreeOpens(img, PvdBlock(w)) /\ (w.joliet => TreeOpens(img, SvdBlock(w)))
<1>1. Own(w) /\ Shows(img, w) /\ Laid(w) /\ ShowsTrees(img, w) /\ TreesAt(w)
  BY ShowsAll, LaidTreesAt DEF Reads, Laid
<1>2. \A u \in {"iso", "joliet"} :
        /\ DirBlock(w, u).k = "dir" /\ DirBlock(w, u).er = (IF u = "iso" /\ w.rr THEN ErAt(w) ELSE 0)
        /\ DirBlock(w, u).recs = [f \in InTree(w, u) |-> RecOf(w, u, f)]
  BY <1>1, DirBlockIs
<1>3. TreeOpens(img, PvdBlock(w))
  <2>1. TablesOpen(img, PvdBlock(w)) /\ At0(img, PvdBlock(w).root) = DirBlock(w, "iso")
    BY <1>1, <1>2 DEF TablesOpen, ShowsTrees, TreesAt
  <2>2. DirBlock(w, "iso").er # 0 => At0(img, DirBlock(w, "iso").er).k = "er"
    BY <1>1, <1>2 DEF ShowsTrees
  <2>3. ASSUME NEW f \in DOMAIN DirBlock(w, "iso").recs, DirBlock(w, "iso").recs[f].ce # 0
        PROVE  At0(img, DirBlock(w, "iso").recs[f].ce).k = "ce"
    <3>1. f \in InTree(w, "iso") /\ DirBlock(w, "iso").recs[f] = RecOf(w, "iso", f)
      BY <1>2
    <3>2. w.files[f].ce # "none" /\ DirBlock(w, "iso").recs[f].ce = IsoAt(w) + 1
      BY <2>3, <3>1 DEF RecOf
    <3>3. UsesBlock(w)
      BY <3>1, <3>2 DEF UsesBlock, UsedBlocks
    <3>4. QED
      BY <1>1, <3>2, <3>3 DEF ShowsTrees
  <2>4. QED
    BY <2>1, <2>2, <2>3 DEF TreeOpens
<1>4. ASSUME w.joliet PROVE TreeOpens(img, SvdBlock(w))
  <2>1. TablesOpen(img, SvdBlock(w)) /\ At0(img, SvdBlock(w).root) = DirBlock(w, "joliet")
    BY <1>1, <1>2, <1>4 DEF TablesOpen, ShowsTrees, TreesAt
  <2>2. DirBlock(w, "joliet").er = 0 /\ \A f \in InTree(w, "joliet") : RecOf(w, "joliet", f).ce = 0
    BY <1>2 DEF RecOf
  <2>3. \A f \in DOMAIN DirBlock(w, "joliet").recs : DirBlock(w, "joliet").recs[f].ce = 0
    BY <1>2, <2>2
  <2>4. QED
    BY <2>1, <2>2, <2>3 DEF TreeOpens
<1>5. QED
  BY <1>3, <1>4

\* The size that is read is the one that was written.
LEMMA SpaceOfIs ==
  ASSUME NEW img, NEW w, NEW t, Reads(img, w, t)
  PROVE  SpaceOf(img, PvdBlock(w)) = w.space /\ w.space \in Nat /\ img.size = w.space
<1>1. Own(w) /\ Shows(img, w) /\ Laid(w) /\ ShowsTrees(img, w) /\ TreesAt(w) /\ OwnFiles(w)
  BY ShowsAll, LaidTreesAt, OwnHas DEF Reads, Laid
<1> DEFINE recs == At0(img, PvdBlock(w).root).recs
           S == {PvdBlock(w).space} \cup {recs[f].ext + recs[f].len : f \in DOMAIN recs}
<1>2. recs = [f \in InTree(w, "iso") |-> RecOf(w, "iso", f)]
  <2>1. At0(img, PvdBlock(w).root) = DirBlock(w, "iso")
    BY <1>1 DEF ShowsTrees, TreesAt
  <2>2. QED
    BY <1>1, <2>1, DirBlockIs
<1>3. PvdBlock(w).space = w.space /\ w.space \in Nat /\ EndAt(w) <= w.space /\ EndAt(w) \in Nat
  <2>1. w.space = EndAt(w) + One(w.udf) /\ Places(w) /\ PvdBlock(w).space = w.space
    BY <1>1, OwnHas, OwnPlaces DEF TreesAt
  <2>2. EndAt(w) \in Nat /\ One(w.udf) \in 0..1
    BY <2>1 DEF Places
  <2>3. QED
    BY <2>1, <2>2
<1>4. ASSUME NEW f \in InTree(w, "iso") PROVE DataAtOf(w, f) + w.files[f].len \in Int /\ DataAtOf(w, f) + w.files[f].len <= w.space
  <2>1. f \in Present(w) /\ f \in Files /\ w.files[f].len \in Nat
    BY <1>1, OwnFilesHave DEF InTree, HasLens
  <2>2. CASE f \in Stored(w)
    <3>1. DataAtOf(w, f) + w.files[f].len <= EndAt(w) /\ DataAtOf(w, f) \in Nat
      BY <1>1, <2>1, <2>2, DataFollows, OwnSound, FilePlaces
    <3>2. QED
      BY <1>3, <2>1, <3>1
  <2>3. CASE f \notin Stored(w)
    <3>1. DataAtOf(w, f) = 0 /\ w.files[f].len = 0
      BY <2>1, <2>3 DEF DataAtOf, Stored
    <3>2. QED
      BY <1>3, <3>1
  <2>4. QED
    BY <2>2, <2>3
<1>5. S = {w.space} \cup {DataAtOf(w, f) + w.files[f].len : f \in InTree(w, "iso")}
  <2>1. \A f \in InTree(w, "iso") : recs[f].ext + recs[f].len = DataAtOf(w, f) + w.files[f].len
    BY <1>2 DEF RecOf
  <2>2. DOMAIN recs = InTree(w, "iso")
    BY <1>2
  <2> HIDE DEF recs
  <2>3. QED
    BY <1>3, <2>1, <2>2
<1>6. SpaceOf(img, PvdBlock(w)) = Max(S)
  BY DEF SpaceOf
<1> HIDE DEF S
<1>7. S \in SUBSET Int /\ w.space \in S /\ \A x \in S : x <= w.space
  BY <1>3, <1>4, <1>5
<1>8. Max(S) = w.space
  BY ONLY <1>7, MaxIs
<1>9. img.size = w.space
  BY <1>1 DEF Shows
<1>10. QED
  BY <1>3, <1>6, <1>8, <1>9
-----------------------------------------------------------------------------
(* Descriptors that are written and read again.                             *)

RoundTrip(ident, body) ==
  ParseBody(ident, RecordBody(ident, body)) = body /\ BodyValid(ident, RecordBody(ident, body))
LEMMA NowTrips ==
  /\ RecordTimestamp(Now) = Now /\ ParseTimestamp(Now) = Now /\ TimestampValid(Now)
<1>1. Now.tz = 0 /\ 0 % 4096 = 0 /\ Signed(0) = 0
  BY DEF Now, Signed
<1>2. RecordTimestamp(Now) = Now
  BY <1>1 DEF RecordTimestamp, Now
<1>3. ParseTimestamp(Now) = Now
  BY <1>1 DEF ParseTimestamp, Now
<1>4. TimestampValid(Now)
  BY <1>1 DEF TimestampValid, Now
<1>5. QED
  BY <1>2, <1>3, <1>4

LEMMA TripPVD == RoundTrip(1, NewPVD)
<1>1. NewPVD = [seq |-> 0, num |-> 0, volSeq |-> 1, maxVolSeq |-> 1, level |-> 2, maxLevel |-> 2,
                charSets |-> 1, maxCharSets |-> 1, flags |-> 0, reserved |-> 0,
                chars |-> <<0, 0>>, extents |-> <<ExtentAD(0, 0), ExtentAD(0, 0)>>,
                ids |-> <<EntityID(0, "none"), EntityID(0, "pycdlib")>>, date |-> Now]
  BY DEF NewPVD
<1>2. /\ NewPVD.date = Now /\ NewPVD.volSeq = 1 /\ NewPVD.maxVolSeq = 1 /\ NewPVD.charSets = 1
      /\ NewPVD.maxCharSets = 1 /\ NewPVD.reserved = 0 /\ NewPVD.level = 2 /\ NewPVD.flags = 0
      /\ NewPVD.chars = <<0, 0>> /\ NewPVD.extents = <<ExtentAD(0, 0), ExtentAD(0, 0)>>
      /\ NewPVD.ids = <<EntityID(0, "none"), EntityID(0, "pycdlib")>>
  BY ONLY <1>1
<1>3. NewPVD = [x \in DOMAIN NewPVD |-> NewPVD[x]]
  BY ONLY <1>1
<1>4. RecordPVD(NewPVD) = NewPVD
  BY ONLY <1>2, <1>3, NowTrips DEF RecordPVD
<1>5. ParsePVD(NewPVD) = NewPVD
  BY ONLY <1>2, <1>3, NowTrips DEF ParsePVD
<1>6. PVDValid(NewPVD)
  <2>1. /\ NewPVD.chars[1] = 0 /\ NewPVD.chars[2] = 0
        /\ NewPVD.extents[1] = ExtentAD(0, 0) /\ NewPVD.extents[2] = ExtentAD(0, 0)
        /\ NewPVD.ids[1] = EntityID(0, "none") /\ NewPVD.ids[2] = EntityID(0, "pycdlib")
    BY ONLY <1>2
  <2>2. CharspecValid(0) /\ ExtentADValid(ExtentAD(0, 0)) /\ EntityValid(EntityID(0, "none"))
        /\ EntityValid(EntityID(0, "pycdlib"))
    BY ONLY TRUE DEF CharspecValid, ExtentADValid, EntityValid, ExtentAD, EntityID
  <2>3. ASSUME NEW i \in 1..2
        PROVE  CharspecValid(NewPVD.chars[i]) /\ ExtentADValid(NewPVD.extents[i]) /\ EntityValid(NewPVD.ids[i])
    <3>1. i = 1 \/ i = 2
      OBVIOUS
    <3>2. CASE i = 1
      BY ONLY <2>1, <2>2, <3>2
    <3>3. CASE i = 2
      BY ONLY <2>1, <2>2, <3>3
    <3>4. QED
      BY ONLY <3>1, <3>2, <3>3
  <2>4. /\ NewPVD.level \in {2, 3} /\ NewPVD.flags \in {0, 1} /\ NewPVD.reserved = 0
        /\ NewPVD.volSeq = 1 /\ NewPVD.maxVolSeq = 1 /\ NewPVD.charSets = 1 /\ NewPVD.maxCharSets = 1
        /\ TimestampValid(NewPVD.date)
    BY ONLY <1>2, NowTrips
  <2>5. QED
    BY ONLY <2>3, <2>4 DEF PVDValid
<1>7. RecordBody(1, NewPVD) = NewPVD
  BY ONLY <1>4 DEF RecordBody
<1>8. ParseBody(1, NewPVD) = NewPVD
  BY ONLY <1>5 DEF ParseBody
<1>9. BodyValid(1, NewPVD)
  BY ONLY <1>6 DEF BodyValid
<1>10. QED
  BY ONLY <1>7, <1>8, <1>9 DEF RoundTrip
LEMMA TripAnchor ==
  ASSUME NEW a, NEW b
  PROVE  RoundTrip(2, Anchor(a, b))
BY AnchorIs DEF RoundTrip, ParseBody, RecordBody, BodyValid, AnchorValid, ExtentADValid, ExtentAD
LEMMA TripImplUse == RoundTrip(4, NewImplUse)
<1>1. ImplUseValid(NewImplUse)
  BY DEF ImplUseValid, ImplUseContentValid, NewImplUse, EntityValid, CharspecValid, EntityID
<1>2. RecordBody(4, NewImplUse) = NewImplUse
  BY ONLY TRUE DEF RecordBody
<1>3. ParseBody(4, NewImplUse) = NewImplUse
  BY ONLY TRUE DEF ParseBody
<1>4. BodyValid(4, NewImplUse)
  BY ONLY <1>1 DEF BodyValid
<1>5. QED
  BY ONLY <1>2, <1>3, <1>4 DEF RoundTrip
LEMMA TripPartition ==
  ASSUME NEW start, NEW length
  PROVE  RoundTrip(5, [NewPartition EXCEPT !.start = start, !.length = length])
<1> DEFINE b == [NewPartition EXCEPT !.start = start, !.length = length]
<1>0. /\ NewPartition.flags = 1 /\ NewPartition.access = 1 /\ NewPartition.header = NewPartitionHeader
      /\ NewPartition.contents = EntityID(2, "NSR02") /\ NewPartition.impl = EntityID(0, "pycdlib")
      /\ {"flags", "access", "header", "contents", "impl"} \subseteq DOMAIN NewPartition
  BY ONLY TRUE DEF NewPartition
<1>1. /\ b = [x \in DOMAIN b |-> b[x]]
      /\ b.flags = 1 /\ b.access = 1 /\ b.header = NewPartitionHeader
      /\ b.contents = EntityID(2, "NSR02") /\ b.impl = EntityID(0, "pycdlib")
  BY ONLY <1>0
<1>2. RecordPartitionHeader(NewPartitionHeader) = NewPartitionHeader
  BY DEF RecordPartitionHeader, NewPartitionHeader, RecordShortAD
<1>3. ParsePartitionHeader(NewPartitionHeader) = NewPartitionHeader
  <2>1. ParseShortAD(ShortAD(0)) = ShortAD(0)
    BY DEF ParseShortAD, ShortAD
  <2>2. QED
    BY <2>1 DEF ParsePartitionHeader, NewPartitionHeader
<1> HIDE DEF b
<1>4. PartitionValid(b)
  BY ONLY <1>1 DEF PartitionValid, EntityValid, EntityID
<1>5. RecordPartition(b) = b
  BY ONLY <1>1, <1>2 DEF RecordPartition
<1>6. ParsePartition(b) = b
  BY ONLY <1>1, <1>3 DEF ParsePartition
<1>7. RecordBody(5, b) = b
  BY ONLY <1>5 DEF RecordBody
<1>8. ParseBody(5, b) = b
  BY ONLY <1>6 DEF ParseBody
<1>9. BodyValid(5, b)
  BY ONLY <1>4 DEF BodyValid
<1>10. QED
  BY ONLY <1>7, <1>8, <1>9 DEF RoundTrip, b
LEMMA OneMap == MapBytes(<<Map(1)>>) = 6 /\ Map(1) = [type |-> 1, len |-> 6]
<1>1. Map(1) = [type |-> 1, len |-> 6]
  BY DEF Map
<1>2. Total(Append(<<>>, 6)) = Total(<<>>) + 6
  <2>1. <<>> \in Seq(Nat)
    OBVIOUS
  <2>2. QED
    BY ONLY <2>1, 6 \in Nat, TotalAppend
<1>3. Append(<<>>, 6) = <<6>>
  OBVIOUS
<1>4. Total(<<6>>) = 6
  BY <1>2, <1>3, TotalEmpty
<1>5. [i \in 1..Len(<<Map(1)>>) |-> <<Map(1)>>[i].len] = <<6>>
  BY <1>1
<1>6. QED
  BY <1>1, <1>4, <1>5 DEF MapBytes
LEMMA TripLogicalVolume ==
  ASSUME NEW location
  PROVE  RoundTrip(6, [NewLogicalVolume EXCEPT !.integrity.location = location])
<1> DEFINE b == [NewLogicalVolume EXCEPT !.integrity.location = location]
<1>0. /\ NewLogicalVolume.char = 0 /\ NewLogicalVolume.blockSize = 2048
      /\ NewLogicalVolume.domain = EntityID(0, "OSTA_UDF_Compliant")
      /\ NewLogicalVolume.tableLength = 6 /\ NewLogicalVolume.maps = <<Map(1)>>
      /\ NewLogicalVolume.impl = EntityID(0, "pycdlib") /\ NewLogicalVolume.integrity = ExtentAD(4096, 0)
      /\ "integrity" \in DOMAIN NewLogicalVolume
  BY ONLY TRUE DEF NewLogicalVolume
<1>1. /\ b = [x \in DOMAIN b |-> b[x]]
      /\ b.char = 0 /\ b.blockSize = 2048 /\ b.domain = EntityID(0, "OSTA_UDF_Compliant")
      /\ b.tableLength = 6 /\ b.maps = <<Map(1)>> /\ b.impl = EntityID(0, "pycdlib")
      /\ b.integrity = ExtentAD(4096, location)
  BY ONLY <1>0 DEF ExtentAD
<1> HIDE DEF b
<1>2. RecordLogicalVolume(b) = b
  <2>1. MapBytes(b.maps) = b.tableLength /\ b.blockSize = 2048
    BY ONLY <1>1, OneMap
  <2>2. [b EXCEPT !.tableLength = b.tableLength, !.blockSize = 2048] = b
    <3>1. b = [x \in DOMAIN b |-> b[x]] /\ b["blockSize"] = 2048
      BY ONLY <1>1
    <3> DEFINE c == [b EXCEPT !.tableLength = b.tableLength]
    <3>2. c = b
      BY ONLY <3>1
    <3> HIDE DEF c
    <3>3. [c EXCEPT !.blockSize = 2048] = b
      BY ONLY <3>1, <3>2
    <3>4. QED
      BY ONLY <3>3 DEF c
  <2>3. QED
    BY ONLY <2>1, <2>2 DEF RecordLogicalVolume
<1>3. SubSeq(<<Map(1)>>, 1, 1) = <<Map(1)>>
  <2> DEFINE s == <<Map(1)>>
  <2>1. s \in Seq({Map(1)}) /\ Len(s) = 1
    OBVIOUS
  <2> HIDE DEF s
  <2>2. SubSeq(s, 1, Len(s)) = s
    BY ONLY <2>1, SubSeqFull
  <2>3. QED
    BY ONLY <2>1, <2>2 DEF s
<1>4. MapTableValid(b)
  <2>1. b.maps = <<Map(1)>> /\ b.tableLength = 6
    BY <1>1
  <2>2. MapValid(Map(1))
    BY OneMap DEF MapValid
  <2>3. ASSUME NEW i \in 1..Len(b.maps) PROVE i = 1 /\ b.maps[i] = Map(1)
    BY <2>1
  <2>4. QED
    <3>1. ASSUME NEW i \in 1..Len(b.maps)
          PROVE  MapValid(b.maps[i]) /\ MapBytes(SubSeq(b.maps, 1, i)) <= b.tableLength
      <4>1. i = 1 /\ b.maps[i] = Map(1)
        BY ONLY <2>3
      <4>2. SubSeq(b.maps, 1, i) = <<Map(1)>>
        BY ONLY <1>3, <2>1, <4>1
      <4>3. MapBytes(SubSeq(b.maps, 1, i)) = 6
        BY ONLY <4>2, OneMap
      <4>4. QED
        BY ONLY <2>1, <2>2, <4>1, <4>3
    <3>2. QED
      BY ONLY <2>1, <3>1 DEF MapTableValid
<1>5. LogicalVolumeValid(b)
  <2>1. /\ b.char = 0 /\ b.blockSize = 2048 /\ b.domain = EntityID(0, "OSTA_UDF_Compliant")
        /\ b.impl = EntityID(0, "pycdlib") /\ b.integrity = ExtentAD(4096, location)
    BY ONLY <1>1
  <2>2. CharspecValid(0) /\ ExtentADValid(ExtentAD(4096, location))
        /\ EntityValid(EntityID(0, "pycdlib")) /\ EntityValid(EntityID(0, "OSTA_UDF_Compliant"))
    BY ONLY TRUE DEF CharspecValid, ExtentADValid, EntityValid, ExtentAD, EntityID
  <2>3. EntityID(0, "OSTA_UDF_Compliant").ident = "OSTA_UDF_Compliant"
    BY ONLY TRUE DEF EntityID
  <2>4. QED
    BY ONLY <1>4, <2>1, <2>2, <2>3 DEF LogicalVolumeValid
<1>6. RecordBody(6, b) = b
  BY ONLY <1>2 DEF RecordBody
<1>7. ParseBody(6, b) = b
  BY ONLY TRUE DEF ParseBody
<1>8. BodyValid(6, b)
  BY ONLY <1>5 DEF BodyValid
<1>9. QED
  BY ONLY <1>6, <1>7, <1>8 DEF RoundTrip, b
LEMMA TripUnallocated == RoundTrip(7, NewUnallocated)
BY DEF RoundTrip, ParseBody, RecordBody, BodyValid, UnallocatedValid, NewUnallocated
LEMMA TripTerminator == RoundTrip(8, NewTerminator)
BY DEF RoundTrip, ParseBody, RecordBody, BodyValid
LEMMA TripIntegrity ==
  ASSUME NEW unique, NEW size, NEW files
  PROVE  RoundTrip(9, Integrity(unique, size, files))
<1> DEFINE b == Integrity(unique, size, files)
<1>1. b = [date |-> Now, type |-> 1, next |-> ExtentAD(0, 0), unique |-> unique, free |-> <<0>>,
           sizes |-> <<size>>, useLength |-> 46,
           use |-> [impl |-> EntityID(0, "pycdlib"), files |-> files, dirs |-> 1, revision |-> 258]]
  BY IntegrityIs
<1> HIDE DEF b
<1>2. RecordIntegrity(b) = b /\ ParseIntegrity(b) = b
  BY <1>1, NowTrips DEF RecordIntegrity, ParseIntegrity
<1>3. IntegrityValid(b)
  BY <1>1, NowTrips DEF IntegrityValid, ExtentADValid, IntegrityUseValid, EntityValid, EntityID, ExtentAD
<1>4. RecordBody(9, b) = b
  BY ONLY <1>2 DEF RecordBody
<1>5. ParseBody(9, b) = b
  BY ONLY <1>2 DEF ParseBody
<1>6. BodyValid(9, b)
  BY ONLY <1>3 DEF BodyValid
<1>7. QED
  BY ONLY <1>4, <1>5, <1>6 DEF RoundTrip, b
LEMMA TripFileSet == RoundTrip(256, NewFileSet)
<1>1. NewFileSet = [date |-> Now, level |-> 3, maxLevel |-> 3, charSets |-> 1, maxCharSets |-> 1, num |-> 0,
                    chars |-> <<0, 0>>, domain |-> EntityID(0, "OSTA_UDF_Compliant"),
                    root |-> LongAD(2048, 2), next |-> LongAD(0, 0), stream |-> LongAD(0, 0)]
  BY DEF NewFileSet
<1>2. /\ NewFileSet.date = Now /\ NewFileSet.level = 3 /\ NewFileSet.maxLevel = 3 /\ NewFileSet.charSets = 1
      /\ NewFileSet.maxCharSets = 1 /\ NewFileSet.num = 0 /\ NewFileSet.chars = <<0, 0>>
      /\ NewFileSet.domain = EntityID(0, "OSTA_UDF_Compliant")
  BY ONLY <1>1
<1>3. NewFileSet = [x \in DOMAIN NewFileSet |-> NewFileSet[x]]
  BY ONLY <1>1
<1>4. RecordFileSet(NewFileSet) = NewFileSet
  BY ONLY <1>2, <1>3, NowTrips DEF RecordFileSet
<1>5. ParseFileSet(NewFileSet) = NewFileSet
  BY ONLY <1>2, <1>3, NowTrips DEF ParseFileSet
<1>6. FileSetValid(NewFileSet)
  BY ONLY <1>2, NowTrips DEF FileSetValid, CharspecValid, EntityValid, EntityID
<1>7. RecordBody(256, NewFileSet) = NewFileSet
  BY ONLY <1>4 DEF RecordBody
<1>8. ParseBody(256, NewFileSet) = NewFileSet
  BY ONLY <1>5 DEF ParseBody
<1>9. BodyValid(256, NewFileSet)
  BY ONLY <1>6 DEF BodyValid
<1>10. QED
  BY ONLY <1>7, <1>8, <1>9 DEF RoundTrip
LEMMA TripOwnBody ==
  ASSUME NEW k \in Singles, NEW start, NEW length, NEW integrity
  PROVE  RoundTrip(k, OwnBody(k, start, length, integrity))
<1>1. k = 1 \/ k = 4 \/ k = 5 \/ k = 6 \/ k = 7 \/ k = 8
  BY DEF Singles
<1>2. CASE k = 1
  BY <1>2, TripPVD DEF OwnBody
<1>3. CASE k = 4
  BY <1>3, TripImplUse DEF OwnBody
<1>4. CASE k = 5
  <2>1. OwnBody(5, start, length, integrity) = [NewPartition EXCEPT !.start = start, !.length = length]
    BY DEF OwnBody
  <2>2. RoundTrip(5, [NewPartition EXCEPT !.start = start, !.length = length])
    BY ONLY TripPartition
  <2>3. QED
    BY ONLY <1>4, <2>1, <2>2
<1>5. CASE k = 6
  <2>1. OwnBody(6, start, length, integrity) = [NewLogicalVolume EXCEPT !.integrity.location = integrity]
    BY DEF OwnBody
  <2>2. QED
    BY <1>5, <2>1, TripLogicalVolume
<1>6. CASE k = 7
  BY <1>6, TripUnallocated DEF OwnBody
<1>7. CASE k = 8
  BY <1>7, TripTerminator DEF OwnBody
<1>8. QED
  BY <1>1, <1>2, <1>3, <1>4, <1>5, <1>6, <1>7

\* The block of an own descriptor, and what is read from it.
DescBlock(d, ident, body) ==
  /\ d.tag.ident = ident /\ DescValid(d) /\ TagValid(d.tag, 2032) /\ d.body = RecordBody(ident, body)
  /\ \A e \in Int, loc \in Int : /\ ParseDesc(d, e, loc) = Made(ident, loc, BodyLength, body, e)
                                 /\ OwnDesc(ParseDesc(d, e, loc), ident, body)
                                 /\ PlacedAt(ParseDesc(d, e, loc), e, loc)
LEMMA RecordedBlock ==
  ASSUME NEW m, NEW ident, NEW body, OwnDesc(m, ident, body), RoundTrip(ident, body)
  PROVE  DescBlock(RecordDesc(m), ident, body)
<1> DEFINE d == RecordDesc(m)
<1>1. /\ m.tag = [ident |-> ident, version |-> 2, serial |-> 0, loc |-> m.tag.loc, crcLen |-> m.tag.crcLen]
      /\ m.body = body /\ m.tag.crcLen \in {-1, BodyLength}
  <2>1. OwnTag(m.tag, ident) /\ m = [tag |-> m.tag, body |-> body, extent |-> m.extent]
    BY DEF OwnDesc
  <2>2. m.body = body
    BY <2>1
  <2>3. QED
    BY <2>1, <2>2 DEF OwnTag
<1>2. RecordTag(m.tag) = [ident |-> ident, version |-> 2, serial |-> 0, loc |-> m.tag.loc, crcLen |-> BodyLength,
                          reserved |-> 0, sums |-> TRUE]
  <2> DEFINE t == m.tag
  <2>1. t.ident = ident /\ t.version = 2 /\ t.serial = 0 /\ t.crcLen \in {-1, BodyLength}
    BY <1>1
  <2> HIDE DEF t
  <2>2. (IF t.crcLen >= 0 THEN t.crcLen ELSE BodyLength) = BodyLength
    BY ONLY <2>1 DEF BodyLength
  <2>3. RecordTag(t) = [ident |-> ident, version |-> 2, serial |-> 0, loc |-> t.loc, crcLen |-> BodyLength,
                        reserved |-> 0, sums |-> TRUE]
    BY ONLY <2>1, <2>2 DEF RecordTag
  <2>4. QED
    BY ONLY <2>3 DEF t
<1>3. m.tag.ident = ident
  BY <1>1
<1>4. d.tag = RecordTag(m.tag) /\ d.body = RecordBody(ident, body)
  BY <1>1, <1>3 DEF RecordDesc
<1> HIDE DEF d
<1>5. d.tag.ident = ident /\ TagValid(d.tag, 2032)
  BY <1>2, <1>4 DEF TagValid, BodyLength
<1>6. DescValid(d)
  BY <1>4, <1>5 DEF DescValid, RoundTrip
<1>7. ASSUME NEW e \in Int, NEW loc \in Int PROVE ParseDesc(d, e, loc) = Made(ident, loc, BodyLength, body, e)
  <2>1. ParseTag(d.tag, loc) = [ident |-> ident, version |-> 2, serial |-> 0, loc |-> loc, crcLen |-> BodyLength]
    BY <1>2, <1>4 DEF ParseTag
  <2>2. ParseBody(d.tag.ident, d.body) = body
    BY <1>4, <1>5 DEF RoundTrip
  <2>3. QED
    BY <2>1, <2>2 DEF ParseDesc, Made
<1>8. ASSUME NEW e \in Int, NEW loc \in Int
      PROVE  OwnDesc(Made(ident, loc, BodyLength, body, e), ident, body) /\ PlacedAt(Made(ident, loc, BodyLength, body, e), e, loc)
  <2>1. BodyLength \in {-1, BodyLength}
    OBVIOUS
  <2>2. PlacedAt(Made(ident, loc, BodyLength, body, e), e, loc)
    BY DEF Made, PlacedAt
  <2>3. QED
    BY <2>1, <2>2, MadeOwn
<1>9. QED
  BY <1>4, <1>5, <1>6, <1>7, <1>8 DEF DescBlock, d
-----------------------------------------------------------------------------
(* The descriptor sequences, read again.                                    *)

Slot(k) == IF k = 1 THEN 1 ELSE k - 2
Six(blocks, length) ==
  /\ blocks = [i \in 1..6 |-> blocks[i]] /\ Len(blocks) = 6
  /\ \A k \in Singles : DescBlock(blocks[Slot(k)], k, OwnBody(k, PartStart, length, 64))
LEMMA Slots ==
  /\ \A k \in Singles : Slot(k) \in 1..6 /\ k \in Nat
  /\ \A k, l \in Singles : Slot(k) = Slot(l) => k = l
  /\ \A i \in 1..6 : \E k \in Singles : Slot(k) = i
<1>1. /\ Slot(1) = 1 /\ Slot(4) = 2 /\ Slot(5) = 3 /\ Slot(6) = 4 /\ Slot(7) = 5 /\ Slot(8) = 6
  BY DEF Slot
<1>2. \A k \in Singles : k = 1 \/ k = 4 \/ k = 5 \/ k = 6 \/ k = 7 \/ k = 8
  BY DEF Singles
<1>3. \A k \in Singles : Slot(k) \in 1..6 /\ k \in Nat
  BY <1>1, <1>2
<1>4. \A k, l \in Singles : Slot(k) = Slot(l) => k = l
  BY ONLY <1>1, <1>2
<1>5. \A i \in 1..6 : i = 1 \/ i = 2 \/ i = 3 \/ i = 4 \/ i = 5 \/ i = 6
  OBVIOUS
<1>6. \A i \in 1..6 : \E k \in Singles : Slot(k) = i
  BY <1>1, <1>5 DEF Singles
<1>7. QED
  BY <1>3, <1>4, <1>6
LEMMA SixIdents ==
  ASSUME NEW blocks, NEW length, Six(blocks, length)
  PROVE  /\ \A k \in Singles : blocks[Slot(k)].tag.ident = k
         /\ \A i \in 1..6 : \E k \in Singles : i = Slot(k) /\ blocks[i].tag.ident = k /\ DescValid(blocks[i])
<1>1. \A k \in Singles : blocks[Slot(k)].tag.ident = k /\ DescValid(blocks[Slot(k)])
  <2> TAKE k \in Singles
  <2>1. DescBlock(blocks[Slot(k)], k, OwnBody(k, PartStart, length, 64))
    BY DEF Six
  <2>2. QED
    BY <2>1 DEF DescBlock
<1>2. QED
  BY <1>1, Slots
LEMMA SixLast ==
  ASSUME NEW blocks, NEW length, Six(blocks, length)
  PROVE  LastBlock(blocks) = 6
<1> DEFINE ends == {i \in 1..Len(blocks) : blocks[i].tag.ident \in {0, 3, 8}}
<1>1. Len(blocks) = 6
  BY DEF Six
<1>2. \A i \in 1..6 : blocks[i].tag.ident \in {0, 3, 8} <=> i = 6
  <2> TAKE i \in 1..6
  <2>1. PICK k \in Singles : i = Slot(k) /\ blocks[i].tag.ident = k
    BY SixIdents
  <2>2. k \in {0, 3, 8} <=> k = 8
    BY DEF Singles
  <2>3. Slot(8) = 6 /\ 8 \in Singles
    BY DEF Slot, Singles
  <2>4. k = 8 <=> i = 6
    BY <2>1, <2>3, Slots
  <2>5. QED
    BY <2>1, <2>2, <2>4
<1>3. ends = {6}
  BY <1>1, <1>2
<1>4. LastBlock(blocks) = IF ends = {} THEN 0 ELSE CHOOSE i \in ends : \A j \in ends : i <= j
  BY DEF LastBlock
<1> HIDE DEF ends
<1>5. (CHOOSE i \in ends : \A j \in ends : i <= j) = 6
  BY ONLY <1>3
<1>6. QED
  BY ONLY <1>3, <1>4, <1>5
LEMMA SixParsed ==
  ASSUME NEW blocks, NEW length, Six(blocks, length), NEW from \in Int
  PROVE  ParseSequence(blocks, from)
           = [k \in Singles \cup {3} |->
                IF k = 3 THEN <<>>
                ELSE <<ParseDesc(blocks[Slot(k)], from + Slot(k) - 1, from + Slot(k) - 1)>>]
<1> DEFINE at(k) == InOrderOf({i \in 1..LastBlock(blocks) : blocks[i].tag.ident = k})
           new(k) == IF k = 3 THEN <<>> ELSE <<ParseDesc(blocks[Slot(k)], from + Slot(k) - 1, from + Slot(k) - 1)>>
           row(k) == [j \in 1..Len(at(k)) |-> ParseDesc(blocks[at(k)[j]], from + at(k)[j] - 1, from + at(k)[j] - 1)]
<1>1. LastBlock(blocks) = 6
  BY SixLast
<1>2. ASSUME NEW k \in Singles PROVE row(k) = new(k)
  <2>1. {i \in 1..6 : blocks[i].tag.ident = k} = {Slot(k)}
    <3>1. \A i \in 1..6 : blocks[i].tag.ident = k => i = Slot(k)
      BY SixIdents
    <3>2. blocks[Slot(k)].tag.ident = k /\ Slot(k) \in 1..6
      BY SixIdents, Slots
    <3>3. QED
      BY <3>1, <3>2
  <2>2. Slot(k) \in Int
    BY Slots
  <2>3. at(k) = <<Slot(k)>>
    BY <1>1, <2>1, <2>2, InOrderOne
  <2>4. k # 3
    BY DEF Singles
  <2> HIDE DEF at
  <2>5. Len(at(k)) = 1 /\ at(k)[1] = Slot(k)
    BY <2>3
  <2>6. row(k) = [j \in 1..1 |-> ParseDesc(blocks[Slot(k)], from + Slot(k) - 1, from + Slot(k) - 1)]
    BY <2>5
  <2>7. QED
    BY <2>4, <2>6
<1>3. row(3) = new(3)
  <2>1. \A i \in 1..6 : blocks[i].tag.ident # 3
    <3> TAKE i \in 1..6
    <3>1. PICK k \in Singles : blocks[i].tag.ident = k
      BY SixIdents
    <3>2. QED
      BY <3>1 DEF Singles
  <2>2. {i \in 1..LastBlock(blocks) : blocks[i].tag.ident = 3} = {}
    BY <1>1, <2>1
  <2>3. at(3) = <<>>
    BY <2>2, InOrderNone
  <2> HIDE DEF at
  <2>4. QED
    BY <2>3
<1>4. ParseSequence(blocks, from) = [k \in {1, 3, 4, 5, 6, 7, 8} |-> row(k)]
  BY DEF ParseSequence
<1>5. Singles \cup {3} = {1, 3, 4, 5, 6, 7, 8}
  BY DEF Singles
<1> HIDE DEF row, at, new
<1>6. \A k \in {1, 3, 4, 5, 6, 7, 8} : row(k) = new(k)
  BY ONLY <1>2, <1>3, <1>5
<1>7. ParseSequence(blocks, from) = [k \in Singles \cup {3} |-> new(k)]
  BY ONLY <1>4, <1>5, <1>6
<1>8. QED
  BY ONLY <1>7 DEF new
LEMMA SixSequence ==
  ASSUME NEW blocks, NEW length, Six(blocks, length), NEW from \in Int
  PROVE  SequenceAt(ParseSequence(blocks, from), from, length) /\ SequenceValid(blocks, from)
<1> DEFINE s == ParseSequence(blocks, from)
<1>1. /\ DOMAIN s = Singles \cup {3} /\ s[3] = <<>> /\ s = [k \in Singles \cup {3} |-> s[k]]
      /\ \A k \in Singles : s[k] = <<ParseDesc(blocks[Slot(k)], from + Slot(k) - 1, from + Slot(k) - 1)>>
  <2>1. 3 \notin Singles
    BY DEF Singles
  <2> DEFINE g(k) == <<ParseDesc(blocks[Slot(k)], from + Slot(k) - 1, from + Slot(k) - 1)>>
  <2>2. s = [k \in Singles \cup {3} |-> IF k = 3 THEN <<>> ELSE g(k)]
    BY SixParsed
  <2> HIDE DEF g, s
  <2>3. /\ DOMAIN s = Singles \cup {3} /\ s[3] = <<>> /\ s = [k \in Singles \cup {3} |-> s[k]]
        /\ \A k \in Singles : s[k] = g(k)
    BY ONLY <2>1, <2>2
  <2>4. QED
    BY <2>3 DEF g
<1> HIDE DEF s
<1>2. \A k \in Singles : s[k] = <<s[k][1]>> /\ s[k][1] = ParseDesc(blocks[Slot(k)], from + Slot(k) - 1, from + Slot(k) - 1)
  BY <1>1
<1>3. ASSUME NEW k \in Singles
      PROVE  /\ OwnDesc(s[k][1], k, OwnBody(k, PartStart, length, 64))
             /\ LET e == from + IF k = 1 THEN 0 ELSE k - 3 IN PlacedAt(s[k][1], e, e)
  <2> DEFINE e == from + IF k = 1 THEN 0 ELSE k - 3
  <2>1. e = from + Slot(k) - 1 /\ e \in Int
    BY Slots DEF Slot
  <2>2. DescBlock(blocks[Slot(k)], k, OwnBody(k, PartStart, length, 64))
    BY DEF Six
  <2> HIDE DEF e
  <2>3. s[k][1] = ParseDesc(blocks[Slot(k)], e, e)
    BY <1>2, <2>1
  <2>4. OwnDesc(s[k][1], k, OwnBody(k, PartStart, length, 64)) /\ PlacedAt(s[k][1], e, e)
    BY ONLY <2>1, <2>2, <2>3 DEF DescBlock
  <2>5. QED
    BY <2>4 DEF e
<1>4. s = [k \in Singles \cup {3} |-> IF k = 3 THEN <<>> ELSE <<s[k][1]>>]
  BY <1>1, <1>2
<1>5. OwnSequence(s, PartStart, length, 64)
  BY <1>3, <1>4 DEF OwnSequence
<1>6. SequenceAt(s, from, length)
  BY <1>3, <1>5 DEF SequenceAt
<1>7. LastBlock(blocks) = 6
  BY SixLast
<1>8. \A i \in 1..6 : DescValid(blocks[i]) /\ blocks[i].tag.ident \in {0, 1, 3, 4, 5, 6, 7, 8}
  BY SixIdents DEF Singles
<1>9. \A k \in Singles : s[k] # <<>> /\ Len(s[k]) = 1
  BY <1>2, Single
<1>10. \A k \in {1, 4, 5, 6, 7} : \A i, j \in 1..Len(s[k]) : i = j
  <2>1. {1, 4, 5, 6, 7} \subseteq Singles
    BY DEF Singles
  <2>2. QED
    <3> TAKE k \in {1, 4, 5, 6, 7}
    <3> TAKE i, j \in 1..Len(s[k])
    <3>1. Len(s[k]) = 1
      BY <1>9, <2>1
    <3>2. QED
      BY <3>1
<1>11. SequenceValid(blocks, from)
  <2>1. s[1] # <<>> /\ \A i, j \in 1..Len(s[1]) : i = j
    BY <1>9, <1>10 DEF Singles
  <2>2. \A k \in {1, 4, 5, 6, 7} : \A i, j \in 1..Len(s[k]) : s[k][i].body.seq = s[k][j].body.seq => i = j
    BY ONLY <1>10
  <2>3. \A i, j \in 1..Len(s[1]) : s[1][i].body.num = 0 /\ s[1][j].body.num = 0 => i = j
    BY ONLY <2>1
  <2>4. LastBlock(blocks) > 0 /\ \A i \in 1..LastBlock(blocks) : DescValid(blocks[i]) /\ blocks[i].tag.ident \in {0, 1, 3, 4, 5, 6, 7, 8}
    BY ONLY <1>7, <1>8
  <2>5. QED
    BY ONLY <2>1, <2>2, <2>3, <2>4 DEF SequenceValid, s
<1>12. QED
  BY <1>6, <1>11 DEF s

\* The descriptors found one after the other.
StandAt(img, e, m) == (\A j \in 0..(m - 1) : IsDesc(img, e + j)) /\ ~IsDesc(img, e + m)
FoundAt(img, e, n, m) == DescsFrom(img, e, n) = [i \in 1..m |-> At0(img, e + i - 1).d]
LEMMA DescsFound ==
  ASSUME NEW img, NEW e \in Int, NEW n \in Nat, NEW m \in Nat, m < n, StandAt(img, e, m)
  PROVE  FoundAt(img, e, n, m)
<1> DEFINE good(i) == (i = n \/ ~IsDesc(img, e + i)) /\ \A j \in 0..(i - 1) : IsDesc(img, e + j)
<1>0. (\A j \in 0..(m - 1) : IsDesc(img, e + j)) /\ ~IsDesc(img, e + m)
  BY DEF StandAt
<1>1. m \in 0..n /\ good(m)
  BY <1>0
<1>2. ASSUME NEW i \in 0..n, good(i) PROVE i = m
  <2>1. CASE i < m
    <3>1. i \in 0..(m - 1) /\ i # n
      BY <2>1
    <3>2. QED
      BY <1>0, <1>2, <3>1
  <2>2. CASE m < i
    <3>1. m \in 0..(i - 1)
      BY <2>2
    <3>2. QED
      BY <1>0, <1>2, <3>1
  <2>3. QED
    BY <2>1, <2>2
<1>3. DescsFrom(img, e, n) = LET found == CHOOSE i \in 0..n : good(i) IN [i \in 1..found |-> At0(img, e + i - 1).d]
  BY DEF DescsFrom
<1> HIDE DEF good
<1>4. (CHOOSE i \in 0..n : good(i)) = m
  BY <1>1, <1>2
<1>5. QED
  BY <1>3, <1>4 DEF FoundAt
\* Nothing is written behind a sequence.
LEMMA PutsPlaced ==
  ASSUME NEW w, Laid(w)
  PROVE  /\ \A p \in HeadSet(w) : p.at \in 16..(HeaderEnd(w) - 1)
         /\ \A p \in DescSet(w) : p.at \in DescPlaces(w)
         /\ \A p \in CatalogSet(w) : w.catalog /\ p.at = CatalogAt(w)
         /\ \A p \in IsoSet(w) : p.at \in IsoPlaces(w)
         /\ \A p \in JolietSet(w) : p.at \in JolietPlaces(w)
         /\ \A p \in UdfSet(w) : p.at \in UdfPlaces(w)
         /\ \A p \in DataSet(w) : p.at \in DataAt(w)..(EndAt(w) - 1)
<1>1. \A p \in CatalogSet(w) : w.catalog /\ p.at = CatalogAt(w)
  BY DEF CatalogSet, CatalogPut, Put
<1>2. ASSUME NEW s, NEW P, NEW A, PutsIn(s, P, A) PROVE \A p \in P : p.at \in A
  BY <1>2 DEF PutsIn
<1>3. \A p \in HeadSet(w) : p.at \in 16..(HeaderEnd(w) - 1)
  <2>1. PutsIn(HeaderPuts(w), HeadSet(w), 16..(HeaderEnd(w) - 1))
    BY HeaderPutsAre
  <2>2. QED
    BY ONLY <2>1 DEF PutsIn
<1>4. \A p \in DescSet(w) : p.at \in DescPlaces(w)
  BY ONLY <1>2, Laid(w), DescPutsAre
<1>5. \A p \in IsoSet(w) : p.at \in IsoPlaces(w)
  BY ONLY <1>2, Laid(w), IsoPutsAre
<1>6. \A p \in JolietSet(w) : p.at \in JolietPlaces(w)
  BY ONLY <1>2, Laid(w), JolietPutsAre
<1>7. \A p \in UdfSet(w) : p.at \in UdfPlaces(w)
  BY ONLY <1>2, Laid(w), UdfPutsAre
<1>8. \A p \in DataSet(w) : p.at \in DataAt(w)..(EndAt(w) - 1)
  <2>1. PutsIn(DataPuts(w, InOrderOf(Present(w))), DataSet(w), DataAt(w)..(EndAt(w) - 1))
    BY DataPutsAre
  <2>2. QED
    BY ONLY <2>1 DEF PutsIn
<1>9. QED
  BY ONLY <1>1, <1>3, <1>4, <1>5, <1>6, <1>7, <1>8
LEMMA BehindSequences ==
  ASSUME NEW w, Laid(w), w.udf, NEW e \in {38, 54}
  PROVE  \A p \in PutsOf(w) : p.at # e
<1>1. RegionsOf(w) /\ w.udf \in BOOLEAN
  BY OwnRegions, OwnHas DEF Laid
<1>2. /\ HeaderEnd(w) \in Nat /\ HeaderEnd(w) <= 24 /\ TreeStart(w) \in Nat /\ TreeStart(w) >= 261
      /\ IsoAt(w) \in Nat /\ IsoAt(w) >= 261 /\ JolietAt(w) \in Nat /\ JolietAt(w) >= 261
      /\ ErAt(w) \in Nat /\ ErAt(w) >= 261 /\ CatalogAt(w) \in Nat /\ CatalogAt(w) >= 261
      /\ DataAt(w) \in Nat /\ DataAt(w) >= 261 /\ EndAt(w) \in Nat /\ EndAt(w) >= 261
  BY ONLY <1>1, w.udf DEF RegionsOf, Regions
<1>3. e \in Int /\ e >= 38 /\ e <= 54 /\ (e = 38 \/ e = 54)
  BY ONLY e \in {38, 54}
<1>4. /\ \A x \in 16..(HeaderEnd(w) - 1) : x # e
      /\ \A x \in DataAt(w)..(EndAt(w) - 1) : x # e
      /\ CatalogAt(w) # e
  BY ONLY <1>2, <1>3
<1>5. \A x \in DescPlaces(w) : x # e
  <2>1. DescPlaces(w) = 32..(32 + 5) \cup 48..(48 + 5) \cup {64} \cup {65} \cup {256, EndAt(w)}
    BY DEF DescPlaces
  <2>2. QED
    BY ONLY <1>2, <1>3, <2>1
<1>6. \A x \in IsoPlaces(w) : x # e
  <2>1. \A x \in IsoPlaces(w) : x = TreeStart(w) \/ x = TreeStart(w) + 2 \/ x = IsoAt(w) \/ x = ErAt(w) \/ x = IsoAt(w) + 1
    BY DEF IsoPlaces
  <2>2. QED
    BY ONLY <1>2, <1>3, <2>1
<1>7. \A x \in JolietPlaces(w) : x # e
  <2>1. \A x \in JolietPlaces(w) : x = TreeStart(w) + 4 \/ x = TreeStart(w) + 6 \/ x = JolietAt(w)
    BY DEF JolietPlaces
  <2>2. QED
    BY ONLY <1>2, <1>3, <2>1
<1>8. \A x \in UdfPlaces(w) : x # e
  <2>1. UdfPlaces(w) = 257..(TreeStart(w) - 1)
    BY DEF UdfPlaces, PartStart
  <2>2. QED
    BY ONLY <1>2, <1>3, <2>1
<1>9. \A p \in PutsOf(w) : \/ p \in HeadSet(w) \/ p \in DescSet(w) \/ p \in CatalogSet(w) \/ p \in IsoSet(w)
                           \/ p \in JolietSet(w) \/ p \in UdfSet(w) \/ p \in DataSet(w)
  BY DEF PutsOf
<1>10. QED
  BY ONLY <1>4, <1>5, <1>6, <1>7, <1>8, <1>9, Laid(w), PutsPlaced

SequenceRead(img, s, from, w) ==
  /\ Sequence(img, ExtentAD(32768, from)) = [i \in 1..6 |-> At0(img, from + i - 1).d]
  /\ Six(Sequence(img, ExtentAD(32768, from)), EndAt(w) - PartStart)
LEMMA SequenceReads ==
  ASSUME NEW img, NEW w, NEW t, Reads(img, w, t), w.udf, NEW s, NEW from,
         (s = w.main /\ from = 32) \/ (s = w.reserve /\ from = 48)
  PROVE  SequenceRead(img, s, from, w)
<1> DEFINE length == EndAt(w) - PartStart
<1>1. Laid(w) /\ Shows(img, w) /\ ShowsUdf(img, w)
  BY ShowsAll DEF Reads
<1>2. SequenceAt(s, from, length) /\ \A k \in Singles : ShowsDesc(img, s[k][1])
  BY <1>1, LaidUdf2 DEF ShowsUdf
<1>3. from \in Int /\ from + 6 \in {38, 54}
  OBVIOUS
<1>4. ASSUME NEW k \in Singles
      PROVE  /\ At0(img, from + Slot(k) - 1) = Desc(RecordDesc(s[k][1]))
             /\ DescBlock(RecordDesc(s[k][1]), k, OwnBody(k, PartStart, length, 64))
  <2>1. OwnDesc(s[k][1], k, OwnBody(k, PartStart, length, 64))
    BY <1>2 DEF SequenceAt, OwnSequence
  <2>2. s[k][1].extent = from + Slot(k) - 1
    <3>1. s[k][1].extent = from + IF k = 1 THEN 0 ELSE k - 3
      BY <1>2 DEF SequenceAt, PlacedAt
    <3>2. Slot(k) = (IF k = 1 THEN 1 ELSE k - 2) /\ k \in Nat
      BY Slots DEF Slot
    <3>3. QED
      BY ONLY <1>3, <3>1, <3>2
  <2>3. QED
    BY <1>2, <2>1, <2>2, TripOwnBody, RecordedBlock DEF ShowsDesc
<1>5. \A i \in 1..6 : \E k \in Singles : i = Slot(k)
  BY Slots
<1>6. \A i \in 1..6 : IsDesc(img, from + i - 1)
  <2> TAKE i \in 1..6
  <2>1. PICK k \in Singles : i = Slot(k)
    BY <1>5
  <2>2. At0(img, from + i - 1) = Desc(RecordDesc(s[k][1]))
    BY <1>4, <2>1
  <2>3. QED
    BY ONLY <2>2 DEF IsDesc, Desc
<1>7. \A j \in 0..(6 - 1) : IsDesc(img, from + j)
  <2> TAKE j \in 0..(6 - 1)
  <2>1. j + 1 \in 1..6 /\ from + (j + 1) - 1 = from + j
    BY <1>3
  <2>2. IsDesc(img, from + (j + 1) - 1)
    BY <1>6, <2>1
  <2>3. QED
    BY ONLY <2>1, <2>2
<1>8. ~IsDesc(img, from + 6)
  <2>1. \A p \in PutsOf(w) : p.at # from + 6
    BY <1>1, <1>3, BehindSequences
  <2>2. At0(img, from + 6) = Zero
    BY <1>1, <2>1 DEF Shows
  <2>3. QED
    BY <2>2 DEF IsDesc, Zero
<1>9. DescsFrom(img, from, 16) = [i \in 1..6 |-> At0(img, from + i - 1).d]
  <2> DEFINE m == 6
             n == 16

  <2>1. m \in Nat /\ n \in Nat /\ m < n
    OBVIOUS
  <2>2. StandAt(img, from, m)
    BY <1>7, <1>8 DEF StandAt
  <2> HIDE DEF m, n
  <2>3. FoundAt(img, from, n, m)
    BY ONLY <1>3, <2>1, <2>2, DescsFound
  <2>4. QED
    BY <2>3 DEF m, n, FoundAt
<1>10. Sequence(img, ExtentAD(32768, from)) = DescsFrom(img, from, 16)
  <2>1. 32768 \div 2048 = 16
    OBVIOUS
  <2>2. QED
    BY <2>1 DEF Sequence, ExtentAD
<1> DEFINE blocks == [i \in 1..6 |-> At0(img, from + i - 1).d]
<1>11. \A k \in Singles : blocks[Slot(k)] = RecordDesc(s[k][1])
  <2> TAKE k \in Singles
  <2>1. At0(img, from + Slot(k) - 1) = Desc(RecordDesc(s[k][1])) /\ Slot(k) \in 1..6
    BY <1>4, Slots
  <2>2. blocks[Slot(k)] = At0(img, from + Slot(k) - 1).d
    BY <2>1
  <2> HIDE DEF blocks
  <2>3. QED
    BY ONLY <2>1, <2>2 DEF Desc
<1>12. Six(blocks, length)
  <2>1. blocks = [i \in 1..6 |-> blocks[i]] /\ Len(blocks) = 6
    OBVIOUS
  <2>2. \A k \in Singles : DescBlock(blocks[Slot(k)], k, OwnBody(k, PartStart, length, 64))
    BY <1>4, <1>11
  <2> HIDE DEF blocks, length
  <2>3. QED
    BY <2>1, <2>2 DEF Six
<1>13. QED
  BY <1>9, <1>10, <1>12 DEF SequenceRead
-----------------------------------------------------------------------------
(* The anchors, read again.                                                 *)

IsAnchor(b) == b.k = "desc" /\ b.d.tag.ident = 2
LEMMA OwnDescBlock ==
  ASSUME NEW m, NEW ident, NEW body, OwnDesc(m, ident, body)
  PROVE  DescPut(m).is = Desc(RecordDesc(m)) /\ DescPut(m).at = m.extent /\ RecordDesc(m).tag.ident = ident
<1>1. m.tag.ident = ident
  BY OwnMade
<1>2. QED
  BY <1>1 DEF DescPut, Put, RecordDesc, RecordTag
LEMMA DescSetAnchors ==
  ASSUME NEW w, Laid(w), NEW p \in DescSet(w), IsAnchor(p.is)
  PROVE  p.at = 256 \/ p.at = EndAt(w)
<1>1. w.udf
  BY DEF DescSet
<1>2. OwnUdf(w)
  BY <1>1, OwnHas DEF Laid
<1>3. ASSUME NEW m, NEW ident, NEW body, OwnDesc(m, ident, body), p = DescPut(m) PROVE ident = 2
  <2>1. DescPut(m).is = Desc(RecordDesc(m)) /\ RecordDesc(m).tag.ident = ident
    BY ONLY <1>3, OwnDescBlock
  <2>2. Desc(RecordDesc(m)).d.tag.ident = 2
    BY <1>3, <2>1 DEF IsAnchor
  <2>3. Desc(RecordDesc(m)).d = RecordDesc(m)
    BY DEF Desc
  <2>4. QED
    BY <2>1, <2>2, <2>3
<1>4. ASSUME NEW s, p \in SequenceSet(s), OwnSequence(s, PartStart, EndAt(w) - PartStart, 64) PROVE FALSE
  <2>1. PICK k \in Singles : p = DescPut(s[k][1])
    BY <1>4 DEF SequenceSet
  <2>2. OwnDesc(s[k][1], k, OwnBody(k, PartStart, EndAt(w) - PartStart, 64))
    BY <1>4 DEF OwnSequence
  <2>3. k = 2
    BY <1>3, <2>1, <2>2
  <2>4. QED
    BY <2>3 DEF Singles
<1>5. OwnSequence(w.main, PartStart, EndAt(w) - PartStart, 64) /\ OwnSequence(w.reserve, PartStart, EndAt(w) - PartStart, 64)
  BY <1>1, LaidUdf2 DEF SequenceAt
<1>6. p # DescPut(w.lvid[1]) /\ p # DescPut(w.lvidEnd[1])
  <2>1. PICK unique, files \in Int : OwnDesc(w.lvid[1], 9, Integrity(unique, EndAt(w) - PartStart, files))
    BY <1>2 DEF OwnUdf
  <2>2. OwnDesc(w.lvidEnd[1], 8, NewTerminator)
    BY <1>2 DEF OwnUdf
  <2>3. p = DescPut(w.lvid[1]) => 9 = 2
    BY ONLY <1>3, <2>1
  <2>4. p = DescPut(w.lvidEnd[1]) => 8 = 2
    BY ONLY <1>3, <2>2
  <2>5. QED
    BY <2>3, <2>4
<1>7. p = DescPut(w.anchors[1]) \/ p = DescPut(w.anchors[2])
  <2>1. \/ p \in SequenceSet(w.main) \/ p \in SequenceSet(w.reserve) \/ p = DescPut(w.lvid[1]) \/ p = DescPut(w.lvidEnd[1])
        \/ p = DescPut(w.anchors[1]) \/ p = DescPut(w.anchors[2])
    BY <1>1 DEF DescSet
  <2>2. QED
    BY ONLY <1>4, <1>5, <1>6, <2>1
<1>8. w.anchors[1].extent = 256 /\ w.anchors[2].extent = EndAt(w)
  BY <1>1, LaidUdf2
<1>9. QED
  BY <1>7, <1>8 DEF DescPut, Put
LEMMA UdfSetAnchors ==
  ASSUME NEW w, Laid(w), NEW p \in UdfSet(w)
  PROVE  ~IsAnchor(p.is)
<1>1. w.udf
  BY DEF UdfSet
<1>2. OwnUdf(w)
  BY <1>1, OwnHas DEF Laid
<1>3. ASSUME NEW m, NEW ident, NEW body, OwnDesc(m, ident, body), p = DescPut(m), IsAnchor(p.is) PROVE ident = 2
  <2>1. DescPut(m).is = Desc(RecordDesc(m)) /\ RecordDesc(m).tag.ident = ident
    BY ONLY <1>3, OwnDescBlock
  <2>2. Desc(RecordDesc(m)).d.tag.ident = 2
    BY <1>3, <2>1 DEF IsAnchor
  <2>3. Desc(RecordDesc(m)).d = RecordDesc(m)
    BY DEF Desc
  <2>4. QED
    BY <2>1, <2>2, <2>3
<1>4. OwnDesc(w.set[1], 256, NewFileSet) /\ OwnDesc(w.setEnd[1], 8, NewTerminator)
  BY <1>2 DEF OwnUdf
<1>5. \A e, len, n, at : ~IsAnchor(RelFe(e, len, n, at).is)
  BY DEF RelFe, Put, FileEntry, IsAnchor
<1>6. ~IsAnchor(IdentsPut(w).is)
  BY DEF IdentsPut, Put, IsAnchor
<1>7. \/ p = DescPut(w.set[1]) \/ p = DescPut(w.setEnd[1]) \/ p = IdentsPut(w)
      \/ \E e, len, n, at : p = RelFe(e, len, n, at)
  <2>1. \/ p = DescPut(w.set[1]) \/ p = DescPut(w.setEnd[1]) \/ p = RelFe(RootAt, 1, 0, RootAt + 1) \/ p = IdentsPut(w)
        \/ p \in FeSet(w) \/ \E f \in InTree(w, "udf") : p = EntryPut(w, f)
    BY <1>1 DEF UdfSet
  <2>2. p \in FeSet(w) => p = RelFe(RootAt + 2, 1, 0, CatalogAt(w))
    BY DEF FeSet
  <2>3. \A f : EntryPut(w, f) = RelFe(EntryAtOf(w, f), w.files[f].len, w.files[f].bytes["udf"], w.files[f].ext)
    BY DEF EntryPut
  <2>4. QED
    BY ONLY <2>1, <2>2, <2>3
<1>8. p = DescPut(w.set[1]) /\ IsAnchor(p.is) => 256 = 2
  BY ONLY <1>3, <1>4
<1>9. p = DescPut(w.setEnd[1]) /\ IsAnchor(p.is) => 8 = 2
  BY ONLY <1>3, <1>4
<1>10. QED
  BY <1>5, <1>6, <1>7, <1>8, <1>9
LEMMA OtherSetsAnchors ==
  ASSUME NEW w, NEW t, Laid(w), Says(w, t), NEW p,
         p \in HeadSet(w) \/ p \in CatalogSet(w) \/ p \in IsoSet(w) \/ p \in JolietSet(w) \/ p \in DataSet(w)
  PROVE  ~IsAnchor(p.is)
<1>1. Own(w)
  BY DEF Laid
<1>2. CASE p \in HeadSet(w)
  <2>1. PICK k \in HeaderNames : p \in HeaderSet(w, k)
    BY <1>2 DEF HeadSet
  <2>2. PICK i \in 1..Len(w.head[k]) : p = Put(HeaderAt(w, k) + i - 1, HeaderBlock(w, k, i))
    BY <2>1 DEF HeaderSet
  <2>3. p.is = HeaderBlock(w, k, i)
    BY <2>2 DEF Put
  <2>4. CASE k = "version"
    <3>1. i = 1
      <4>1. Len(w.head["version"]) = 1
        BY <1>1, HeadStandsAt DEF HeadHolds
      <4>2. QED
        BY <2>4, <4>1
    <3>2. p.is = Zero
      BY <1>1, <2>3, <2>4, <3>1, HeaderBlockKinds
    <3>3. QED
      BY <3>2 DEF Zero, IsAnchor
  <2>5. CASE k # "version"
    <3>1. k \in HeaderKinds
      BY <2>5, Names, KindsNamed
    <3>2. KindOf(p.is) = k
      BY <1>1, <2>3, <3>1, HeaderBlockKinds
    <3>3. p.is.k = "desc" => KindOf(p.is) = "desc"
      BY DEF KindOf
    <3>4. k # "desc"
      BY <3>1, KindsNamed
    <3>5. QED
      BY <3>2, <3>3, <3>4 DEF IsAnchor
  <2>6. QED
    BY <2>4, <2>5
<1>3. CASE p \in CatalogSet(w)
  BY <1>3 DEF CatalogSet, CatalogPut, Put, IsAnchor
<1>4. ASSUME NEW le, NEW be, NEW root, NEW u, p \in TreeSet(le, be, root, DirBlock(w, u)) PROVE ~IsAnchor(p.is)
  BY <1>4 DEF TreeSet, Put, Table, DirBlock, IsAnchor
<1>5. CASE p \in IsoSet(w)
  <2>1. \/ p \in TreeSet(TreeStart(w), TreeStart(w) + 2, IsoAt(w), DirBlock(w, "iso"))
        \/ p = Put(ErAt(w), [k |-> "er"]) \/ p = Put(IsoAt(w) + 1, [k |-> "ce"])
    BY <1>5 DEF IsoSet
  <2>2. ~IsAnchor(Put(ErAt(w), [k |-> "er"]).is) /\ ~IsAnchor(Put(IsoAt(w) + 1, [k |-> "ce"]).is)
    BY DEF Put, IsAnchor
  <2>3. QED
    BY ONLY <1>4, <2>1, <2>2
<1>6. CASE p \in JolietSet(w)
  <2>1. p \in TreeSet(TreeStart(w) + 4, TreeStart(w) + 6, JolietAt(w), DirBlock(w, "joliet"))
    BY <1>6 DEF JolietSet
  <2>2. QED
    BY ONLY <1>4, <2>1
<1>7. CASE p \in DataSet(w)
  <2>1. PICK f \in Present(w) : p \in FileSet(w, f)
    BY <1>7 DEF DataSet
  <2>2. PICK i \in 1..w.files[f].len : p.is = w.files[f].data[i]
    BY <2>1 DEF FileSet, Put
  <2>3. f \in Files
    BY DEF Present
  <2>4. w.files[f].len = t[f].len /\ w.files[f].data = [j \in 1..t[f].len |-> Data(f, t[f].ver, j)]
    BY <2>3 DEF Says
  <2>5. p.is = Data(f, t[f].ver, i)
    BY <2>2, <2>4
  <2>6. QED
    BY <2>5 DEF Data, IsAnchor
<1>8. QED
  BY <1>2, <1>3, <1>5, <1>6, <1>7
LEMMA AnchorFound ==
  ASSUME NEW img, NEW w, NEW t, Reads(img, w, t), NEW e, IsAnchor(At0(img, e))
  PROVE  e = 256 \/ e = EndAt(w)
<1>1. Laid(w) /\ Says(w, t) /\ Shows(img, w)
  BY DEF Reads
<1>2. At0(img, e) # Zero
  BY DEF Zero, IsAnchor
<1>3. PICK p \in PutsOf(w) : p.at = e
  BY <1>1, <1>2 DEF Shows
<1>4. IsAnchor(p.is)
  BY <1>1, <1>3, ShowsPut
<1>5. p \in DescSet(w) \/ p \in UdfSet(w)
        \/ (p \in HeadSet(w) \/ p \in CatalogSet(w) \/ p \in IsoSet(w) \/ p \in JolietSet(w) \/ p \in DataSet(w))
  BY DEF PutsOf
<1>6. p \in DescSet(w)
  BY ONLY <1>1, <1>4, <1>5, UdfSetAnchors, OtherSetsAnchors
<1>7. QED
  BY ONLY <1>1, <1>3, <1>4, <1>6, DescSetAnchors

\* The two anchors are what is found.
AnchorsRead(w, ms) ==
  /\ ms = <<ms[1], ms[2]>>
  /\ \A i \in 1..2 : OwnDesc(ms[i], 2, Anchor(32, 48))
  /\ PlacedAt(ms[1], 256, 256) /\ PlacedAt(ms[2], EndAt(w), EndAt(w))
LEMMA AnchorBlocks ==
  ASSUME NEW img, NEW w, NEW t, Reads(img, w, t), w.udf
  PROVE  \A e \in {256, EndAt(w)} : /\ IsDesc(img, e)
                                    /\ DescBlock(At0(img, e).d, 2, Anchor(32, 48))
<1>1. Laid(w) /\ Shows(img, w) /\ ShowsUdf(img, w) /\ OwnUdf(w) /\ Placed(w) /\ UdfPlaced(w)
  BY ShowsAll, OwnHas DEF Reads, Laid, Placed
<1>2. ASSUME NEW i \in 1..2
      PROVE  /\ At0(img, w.anchors[i].extent) = Desc(RecordDesc(w.anchors[i]))
             /\ DescBlock(RecordDesc(w.anchors[i]), 2, Anchor(32, 48))
  <2>1. PICK a, b \in Int : OwnDesc(w.anchors[i], 2, Anchor(a, b))
    BY <1>1 DEF OwnUdf
  <2>2. w.anchors[i].body = Anchor(32, 48)
    BY <1>1 DEF UdfPlaced
  <2>3. Anchor(a, b) = Anchor(32, 48)
    BY <2>1, <2>2, OwnMade
  <2>4. OwnDesc(w.anchors[i], 2, Anchor(32, 48))
    BY <2>1, <2>3
  <2>5. At0(img, w.anchors[i].extent) = Desc(RecordDesc(w.anchors[i]))
    BY <1>1 DEF ShowsUdf, ShowsDesc
  <2>6. QED
    BY <2>4, <2>5, TripAnchor, RecordedBlock
<1>3. w.anchors[1].extent = 256 /\ w.anchors[2].extent = EndAt(w)
  BY <1>1, LaidUdf2
<1>4. \A e \in {256, EndAt(w)} : \E i \in 1..2 : e = w.anchors[i].extent
  BY <1>3
<1>5. QED
  BY <1>2, <1>4 DEF IsDesc, Desc
LEMMA AnchorsAre ==
  ASSUME NEW img, NEW w, NEW t, Reads(img, w, t), w.udf
  PROVE  AnchorsRead(w, ReadAnchors(img, w.space)) /\ AnchorsOpen(ReadAnchors(img, w.space))
<1> DEFINE n == EndAt(w)
           ms == ReadAnchors(img, w.space)
<1>1. Laid(w) /\ Shows(img, w) /\ Own(w)
  BY DEF Reads, Laid
<1>2. n \in Int /\ n > 256 /\ w.space = n + 1 /\ img.size = n + 1
  <2>1. RegionsOf(w) /\ w.space = n + One(w.udf) /\ img.size = w.space
    BY <1>1, OwnRegions, OwnHas DEF Shows
  <2>2. n \in Int /\ n > 256
    <3> HIDE DEF n
    <3>1. QED
      BY ONLY <2>1, w.udf DEF RegionsOf, Regions, n
  <2>3. One(w.udf) = 1
    BY DEF One
  <2>4. QED
    BY <2>1, <2>2, <2>3
<1>3. \A e \in {256, n} : IsDesc(img, e) /\ DescBlock(At0(img, e).d, 2, Anchor(32, 48))
  BY AnchorBlocks
<1>4. \A e \in AnchorExtents(img, w.space) : e = 256 \/ e = n
  <2>1. \A e \in AnchorExtents(img, w.space) : IsAnchor(At0(img, e))
    BY DEF AnchorExtents, IsDesc, IsAnchor
  <2>2. QED
    BY <2>1, AnchorFound
<1>5. 256 \in AnchorExtents(img, w.space) /\ n \in AnchorExtents(img, w.space)
  <2>1. 256 \in AnchorPlaces(img, w.space) /\ n \in AnchorPlaces(img, w.space)
    BY <1>2 DEF AnchorPlaces
  <2>2. \A e \in {256, n} : At0(img, e).d.tag.ident = 2 /\ TagValid(At0(img, e).d.tag, 2032)
    BY <1>3 DEF DescBlock
  <2>3. QED
    BY <1>3, <2>1, <2>2 DEF AnchorExtents
<1>6. AnchorExtents(img, w.space) = {256, n}
  BY <1>4, <1>5
<1> HIDE DEF n
<1>7. InOrderOf(AnchorExtents(img, w.space)) = <<256, n>>
  <2> DEFINE a == 256
  <2>1. a \in Int /\ n \in Int /\ a < n
    BY <1>2
  <2> HIDE DEF a
  <2>2. InOrderOf({a, n}) = <<a, n>>
    BY ONLY <2>1, InOrderTwo
  <2>3. QED
    BY <1>6, <2>2 DEF a
<1>8. ms = <<ParseDesc(At0(img, 256).d, 256, 256), ParseDesc(At0(img, n).d, n, n)>>
  <2>1. ms = [i \in 1..Len(<<256, n>>) |-> ParseDesc(At0(img, <<256, n>>[i]).d, <<256, n>>[i], <<256, n>>[i])]
    BY <1>7 DEF ReadAnchors
  <2> HIDE DEF ms
  <2>2. QED
    BY <2>1
<1>9. /\ OwnDesc(ParseDesc(At0(img, 256).d, 256, 256), 2, Anchor(32, 48))
      /\ PlacedAt(ParseDesc(At0(img, 256).d, 256, 256), 256, 256)
      /\ OwnDesc(ParseDesc(At0(img, n).d, n, n), 2, Anchor(32, 48))
      /\ PlacedAt(ParseDesc(At0(img, n).d, n, n), n, n)
  BY <1>2, <1>3 DEF DescBlock
<1> HIDE DEF ms
<1>10. /\ ms = <<ms[1], ms[2]>> /\ Len(ms) = 2
       /\ ms[1] = ParseDesc(At0(img, 256).d, 256, 256) /\ ms[2] = ParseDesc(At0(img, n).d, n, n)
  BY <1>8
<1>11. \A i \in 1..2 : OwnDesc(ms[i], 2, Anchor(32, 48))
  BY <1>9, <1>10
<1>12. AnchorsRead(w, ms)
  BY <1>9, <1>10, <1>11 DEF AnchorsRead, n
<1>13. AnchorsOpen(ms)
  <2>1. ms[1].body = Anchor(32, 48) /\ ms[2].body = Anchor(32, 48)
    BY <1>11, OwnMade
  <2>2. AnchorValid(Anchor(32, 48))
    BY TripAnchor, AnchorIs DEF AnchorValid, ExtentADValid, ExtentAD
  <2>3. \A i \in 1..2 : SameAnchor(ms[i], ms[1])
    BY <2>1 DEF SameAnchor
  <2>4. QED
    BY <1>10, <2>1, <2>2, <2>3 DEF AnchorsOpen
<1>14. QED
  BY <1>12, <1>13 DEF ms
-----------------------------------------------------------------------------
(* The UDF part, read again.                                                *)

MainAd == ExtentAD(32768, 32)
ReserveAd == ExtentAD(32768, 48)
LEMMA SequencesAre ==
  ASSUME NEW img, NEW w, NEW t, Reads(img, w, t), w.udf
  PROVE  /\ SequenceAt(ReadSequence(img, MainAd), 32, EndAt(w) - PartStart) /\ SequenceOpens(img, MainAd)
         /\ SequenceAt(ReadSequence(img, ReserveAd), 48, EndAt(w) - PartStart) /\ SequenceOpens(img, ReserveAd)
<1>1. ASSUME NEW s, NEW from \in Int, SequenceRead(img, s, from, w)
      PROVE  /\ SequenceAt(ReadSequence(img, ExtentAD(32768, from)), from, EndAt(w) - PartStart)
             /\ SequenceOpens(img, ExtentAD(32768, from))
  <2>1. ExtentAD(32768, from).length > 0 /\ ExtentAD(32768, from).location = from
    BY DEF ExtentAD
  <2>2. ReadSequence(img, ExtentAD(32768, from)) = ParseSequence(Sequence(img, ExtentAD(32768, from)), from)
    BY <2>1 DEF ReadSequence
  <2>3. Six(Sequence(img, ExtentAD(32768, from)), EndAt(w) - PartStart)
    BY <1>1 DEF SequenceRead
  <2> DEFINE blocks == Sequence(img, ExtentAD(32768, from))
             length == EndAt(w) - PartStart
  <2> HIDE DEF blocks, length
  <2>4. SequenceAt(ParseSequence(blocks, from), from, length) /\ SequenceValid(blocks, from)
    <3>1. Six(blocks, length)
      BY <2>3 DEF blocks, length
    <3>2. QED
      BY ONLY <3>1, from \in Int, SixSequence
  <2>5. QED
    BY <2>1, <2>2, <2>4 DEF SequenceOpens, blocks, length
<1>2. SequenceRead(img, w.main, 32, w) /\ SequenceRead(img, w.reserve, 48, w)
  BY SequenceReads
<1>3. QED
  BY <1>1, <1>2 DEF MainAd, ReserveAd

\* The integrity sequence, the file set, and the entries of the partition.
OwnBlock(img, e, ident, body) == IsDesc(img, e) /\ DescBlock(At0(img, e).d, ident, body)
LEMMA OwnBlockShown ==
  ASSUME NEW img, NEW m, NEW ident, NEW body, ShowsDesc(img, m), OwnDesc(m, ident, body), RoundTrip(ident, body)
  PROVE  OwnBlock(img, m.extent, ident, body)
<1>1. At0(img, m.extent) = Desc(RecordDesc(m))
  BY DEF ShowsDesc
<1>2. DescBlock(RecordDesc(m), ident, body)
  BY RecordedBlock
<1>3. Desc(RecordDesc(m)).d = RecordDesc(m) /\ Desc(RecordDesc(m)).k = "desc"
  BY DEF Desc
<1>4. QED
  BY ONLY <1>1, <1>2, <1>3 DEF OwnBlock, IsDesc
UdfBlocks(img, w, unique, files) ==
  /\ unique \in Int /\ files \in Int
  /\ OwnBlock(img, 64, 9, Integrity(unique, EndAt(w) - PartStart, files))
  /\ OwnBlock(img, 65, 8, NewTerminator)
  /\ OwnBlock(img, PartStart, 256, NewFileSet)
  /\ OwnBlock(img, PartStart + 1, 8, NewTerminator)
LEMMA UdfBlocksAre ==
  ASSUME NEW img, NEW w, NEW t, Reads(img, w, t), w.udf
  PROVE  \E unique, files : UdfBlocks(img, w, unique, files)
<1>1. Laid(w) /\ ShowsUdf(img, w) /\ OwnUdf(w)
  BY ShowsAll, OwnHas DEF Reads, Laid
<1>2. PICK unique, files \in Int : OwnDesc(w.lvid[1], 9, Integrity(unique, EndAt(w) - PartStart, files))
  BY <1>1 DEF OwnUdf
<1>3. /\ w.lvid[1].extent = 64 /\ w.lvidEnd[1].extent = 65
      /\ w.set[1].extent = PartStart /\ w.setEnd[1].extent = PartStart + 1
  BY <1>1, LaidUdf2
<1>4. OwnDesc(w.lvidEnd[1], 8, NewTerminator) /\ OwnDesc(w.set[1], 256, NewFileSet) /\ OwnDesc(w.setEnd[1], 8, NewTerminator)
  BY <1>1 DEF OwnUdf
<1>5. ShowsDesc(img, w.lvid[1]) /\ ShowsDesc(img, w.lvidEnd[1]) /\ ShowsDesc(img, w.set[1]) /\ ShowsDesc(img, w.setEnd[1])
  BY <1>1 DEF ShowsUdf
<1>6. OwnBlock(img, w.lvid[1].extent, 9, Integrity(unique, EndAt(w) - PartStart, files))
  BY <1>2, <1>5, TripIntegrity, OwnBlockShown
<1>7. OwnBlock(img, w.lvidEnd[1].extent, 8, NewTerminator)
  BY <1>4, <1>5, TripTerminator, OwnBlockShown
<1>8. OwnBlock(img, w.set[1].extent, 256, NewFileSet)
  BY <1>4, <1>5, TripFileSet, OwnBlockShown
<1>9. OwnBlock(img, w.setEnd[1].extent, 8, NewTerminator)
  BY <1>4, <1>5, TripTerminator, OwnBlockShown
<1>10. UdfBlocks(img, w, unique, files)
  BY ONLY <1>2, <1>3, <1>6, <1>7, <1>8, <1>9 DEF UdfBlocks
<1>11. QED
  BY <1>10

\* Where the file set says that the root is, and the root its identifiers.
PartitionSays(img, w) ==
  /\ At0(img, PartStart).d.body.root.block = 2
  /\ At0(img, PartStart + 2).k = "fe" /\ At0(img, PartStart + 2).block = 3
  /\ At0(img, PartStart + 3) = IdentsPut(w).is /\ IdentsPut(w).is.k = "idents"
  /\ IdentsPut(w).is.catalog = (IF w.catalog THEN 4 ELSE 0)
  /\ IdentsPut(w).is.recs = [f \in InTree(w, "udf") |-> w.files[f].fe - PartStart]
  /\ w.catalog => At0(img, PartStart + 4).k = "fe"
  /\ \A f \in InTree(w, "udf") :
       /\ PartStart + (w.files[f].fe - PartStart) = w.files[f].fe /\ w.files[f].fe = EntryAtOf(w, f)
       /\ w.files[f].fe \in Int
       /\ At0(img, w.files[f].fe) = EntryPut(w, f).is
LEMMA PartitionIs ==
  ASSUME NEW img, NEW w, NEW t, Reads(img, w, t), w.udf
  PROVE  PartitionSays(img, w)
<1>1. Laid(w) /\ Own(w) /\ ShowsEntries(img, w) /\ TreesAt(w)
  BY ShowsAll, LaidTreesAt DEF Reads, Laid
<1>2. PICK unique, files : UdfBlocks(img, w, unique, files)
  BY UdfBlocksAre
<1>3. At0(img, PartStart).d.body = RecordBody(256, NewFileSet)
  BY <1>2 DEF UdfBlocks, OwnBlock, DescBlock
<1>4. RecordBody(256, NewFileSet).root.block = 2
  <2>1. RecordBody(256, NewFileSet) = RecordFileSet(NewFileSet)
    BY DEF RecordBody
  <2>2. RecordFileSet(NewFileSet).root = NewFileSet.root
    BY DEF RecordFileSet, NewFileSet
  <2>3. NewFileSet.root = LongAD(2048, 2)
    BY DEF NewFileSet
  <2>4. QED
    BY <2>1, <2>2, <2>3 DEF LongAD
<1>5. PartStart = 257 /\ RootAt = 259 /\ PartStart + 2 = RootAt /\ PartStart + 3 = RootAt + 1 /\ PartStart + 4 = RootAt + 2
      /\ RootAt + 2 - PartStart = 4 /\ RootAt + 1 - PartStart = 3 /\ RootAt + 1 # 0
  BY DEF PartStart, RootAt
<1>6. RelFe(RootAt, 1, 0, RootAt + 1).is.k = "fe" /\ RelFe(RootAt, 1, 0, RootAt + 1).is.block = 3
      /\ RelFe(RootAt + 2, 1, 0, CatalogAt(w)).is.k = "fe"
  BY <1>5 DEF RelFe, Put, FileEntry
<1>7. /\ IdentsPut(w).is.k = "idents" /\ IdentsPut(w).is.catalog = (IF w.catalog THEN 4 ELSE 0)
      /\ IdentsPut(w).is.recs = [f \in InTree(w, "udf") |-> w.files[f].fe - PartStart]
  BY <1>5 DEF IdentsPut, Put
<1>8. ASSUME NEW f \in InTree(w, "udf")
      PROVE  /\ PartStart + (w.files[f].fe - PartStart) = w.files[f].fe /\ w.files[f].fe = EntryAtOf(w, f)
             /\ w.files[f].fe \in Int /\ At0(img, w.files[f].fe) = EntryPut(w, f).is
  <2>1. w.files[f].fe = EntryAtOf(w, f) /\ At0(img, w.files[f].fe) = EntryPut(w, f).is
    BY <1>1 DEF TreesAt, ShowsEntries
  <2>2. w.files[f].fe \in Int
    <3>1. f \in Files
      BY DEF InTree
    <3>2. QED
      BY <1>1, <2>1, <3>1, FilePlaces
  <2>3. QED
    BY <1>5, <2>1, <2>2
<1>9. At0(img, PartStart + 2).k = "fe" /\ At0(img, PartStart + 2).block = 3 /\ At0(img, PartStart + 3) = IdentsPut(w).is
      /\ (w.catalog => At0(img, PartStart + 4).k = "fe")
  <2>1. /\ At0(img, RootAt) = RelFe(RootAt, 1, 0, RootAt + 1).is /\ At0(img, RootAt + 1) = IdentsPut(w).is
        /\ w.catalog => At0(img, RootAt + 2) = RelFe(RootAt + 2, 1, 0, CatalogAt(w)).is
    BY <1>1 DEF ShowsEntries
  <2>2. PartStart + 2 = RootAt /\ PartStart + 3 = RootAt + 1 /\ PartStart + 4 = RootAt + 2
    BY ONLY <1>5
  <2>3. QED
    BY ONLY <1>6, <2>1, <2>2
<1>10. QED
  BY ONLY <1>3, <1>4, <1>7, <1>8, <1>9 DEF PartitionSays

\* The partition, the sequences and all of it opens.
LEMMA PartitionReads ==
  ASSUME NEW img, NEW w, NEW t, Reads(img, w, t), w.udf
  PROVE  PartitionOpens(img, PartStart)
<1>1. PartitionSays(img, w)
  BY PartitionIs
<1>2. PICK unique, files : UdfBlocks(img, w, unique, files)
  BY UdfBlocksAre
<1>3. FileSetOpens(img, PartStart)
  <2>1. IsDesc(img, PartStart) /\ At0(img, PartStart).d.tag.ident = 256 /\ DescValid(At0(img, PartStart).d)
    BY <1>2 DEF UdfBlocks, OwnBlock, DescBlock
  <2>2. DescValid(At0(img, PartStart + 1).d)
    BY <1>2 DEF UdfBlocks, OwnBlock, DescBlock
  <2>3. QED
    BY <2>1, <2>2 DEF FileSetOpens
<1>4. At0(img, PartStart + At0(img, PartStart + 2).block) = IdentsPut(w).is
  BY <1>1 DEF PartitionSays
<1>5. ASSUME NEW f \in DOMAIN IdentsPut(w).is.recs PROVE At0(img, PartStart + IdentsPut(w).is.recs[f]).k = "fe"
  <2>1. f \in InTree(w, "udf") /\ IdentsPut(w).is.recs[f] = w.files[f].fe - PartStart
    BY <1>1 DEF PartitionSays
  <2>2. At0(img, PartStart + IdentsPut(w).is.recs[f]) = EntryPut(w, f).is
    BY <1>1, <2>1 DEF PartitionSays
  <2>3. EntryPut(w, f).is.k = "fe"
    BY DEF EntryPut, RelFe, Put, FileEntry
  <2>4. QED
    BY <2>2, <2>3
<1>6. IdentsPut(w).is.catalog # 0 => At0(img, PartStart + IdentsPut(w).is.catalog).k = "fe"
  BY <1>1 DEF PartitionSays
<1>7. UdfTreeOpens(img, PartStart, 2)
  BY <1>1, <1>4, <1>5, <1>6 DEF UdfTreeOpens, PartitionSays
<1>8. QED
  BY <1>1, <1>3, <1>7 DEF PartitionOpens, PartitionSays
LEMMA IntegrityReads ==
  ASSUME NEW img, NEW w, NEW t, Reads(img, w, t), w.udf
  PROVE  IntegrityOpens(img, ExtentAD(4096, 64))
<1>1. PICK unique, files : UdfBlocks(img, w, unique, files)
  BY UdfBlocksAre
<1>2. /\ IsDesc(img, 64) /\ At0(img, 64).d.tag.ident = 9 /\ DescValid(At0(img, 64).d)
      /\ IsDesc(img, 65) /\ At0(img, 65).d.tag.ident = 8 /\ DescValid(At0(img, 65).d)
  BY <1>1 DEF UdfBlocks, OwnBlock, DescBlock
<1>3. ExtentAD(4096, 64).location = 64 /\ ExtentAD(4096, 64).location + 1 = 65
  BY DEF ExtentAD
<1>4. QED
  BY <1>2, <1>3 DEF IntegrityOpens
MainSays(main) ==
  /\ main[5] = <<main[5][1]>> /\ main[6] = <<main[6][1]>>
  /\ main[5] # <<>> /\ main[6] # <<>>
  /\ main[5][1].body.start = PartStart /\ main[6][1].body.integrity = ExtentAD(4096, 64)
LEMMA MainIs ==
  ASSUME NEW main, NEW from, NEW length, SequenceAt(main, from, length)
  PROVE  MainSays(main)
<1>1. OwnSequence(main, PartStart, length, 64)
  BY DEF SequenceAt
<1>2. 5 \in Singles /\ 6 \in Singles
  BY DEF Singles
<1>3. /\ main[5] = <<main[5][1]>> /\ OwnDesc(main[5][1], 5, OwnBody(5, PartStart, length, 64))
      /\ main[6] = <<main[6][1]>> /\ OwnDesc(main[6][1], 6, OwnBody(6, PartStart, length, 64))
  BY <1>1, <1>2, OwnSequenceLens
<1>4. main[5] # <<>> /\ main[6] # <<>>
  BY <1>3, Single
<1>5. main[5][1].body = OwnBody(5, PartStart, length, 64) /\ main[6][1].body = OwnBody(6, PartStart, length, 64)
  BY <1>3, OwnMade
<1>6. OwnBody(5, PartStart, length, 64).start = PartStart
  <2>1. OwnBody(5, PartStart, length, 64) = [NewPartition EXCEPT !.start = PartStart, !.length = length]
    BY DEF OwnBody
  <2>2. DOMAIN NewPartition = {"seq", "flags", "num", "contents", "header", "access", "start", "length", "impl"}
    BY DEF NewPartition
  <2>3. QED
    BY <2>1, <2>2
<1>7. OwnBody(6, PartStart, length, 64).integrity = ExtentAD(4096, 64)
  <2> DEFINE b == [NewLogicalVolume EXCEPT !.integrity.location = 64]
  <2>1. OwnBody(6, PartStart, length, 64) = b
    BY DEF OwnBody
  <2>2. b.integrity = [NewLogicalVolume.integrity EXCEPT !.location = 64]
    BY DEF NewLogicalVolume
  <2> HIDE DEF b
  <2>3. NewLogicalVolume.integrity = ExtentAD(4096, 0)
    BY DEF NewLogicalVolume
  <2>4. [ExtentAD(4096, 0) EXCEPT !.location = 64] = ExtentAD(4096, 64)
    BY DEF ExtentAD
  <2>5. QED
    BY ONLY <2>1, <2>2, <2>3, <2>4
<1>8. QED
  BY <1>3, <1>4, <1>5, <1>6, <1>7 DEF MainSays
LEMMA UdfReads ==
  ASSUME NEW img, NEW w, NEW t, Reads(img, w, t), w.udf
  PROVE  /\ UdfOpens(img, ReadAnchors(img, w.space))
         /\ ReadAnchors(img, w.space)[1].body.main = MainAd /\ ReadAnchors(img, w.space)[1].body.reserve = ReserveAd
<1> DEFINE ms == ReadAnchors(img, w.space)
<1>1. AnchorsRead(w, ms) /\ AnchorsOpen(ms)
  BY AnchorsAre
<1> HIDE DEF ms
<1>2. ms[1].body = Anchor(32, 48)
  <2>1. \A i \in 1..2 : OwnDesc(ms[i], 2, Anchor(32, 48))
    BY <1>1 DEF AnchorsRead
  <2>2. \A i \in 1..2 : ms[i].body = Anchor(32, 48)
    BY ONLY <2>1, OwnMade
  <2>3. QED
    BY ONLY <2>2
<1>3. ms[1].body.main = MainAd /\ ms[1].body.reserve = ReserveAd
  BY <1>2, AnchorIs DEF MainAd, ReserveAd
<1> DEFINE main == ReadSequence(img, MainAd)
<1>4. /\ SequenceAt(main, 32, EndAt(w) - PartStart) /\ SequenceOpens(img, MainAd) /\ SequenceOpens(img, ReserveAd)
  BY SequencesAre
<1> HIDE DEF main
<1>5. MainSays(main)
  BY <1>4, MainIs
<1>6. IntegrityOpens(img, main[6][1].body.integrity) /\ PartitionOpens(img, main[5][1].body.start)
  BY <1>5, IntegrityReads, PartitionReads DEF MainSays
<1>7. SequencesOpen(img, ms[1].body, main)
  BY <1>3, <1>4, <1>5, <1>6 DEF SequencesOpen, MainSays
<1>8. UdfOpens(img, ms)
  BY <1>1, <1>3, <1>7 DEF UdfOpens, main
<1>9. QED
  BY <1>3, <1>8 DEF ms
-----------------------------------------------------------------------------
(* The file opens, and the records of its trees are those of the volume.    *)

LEMMA ReadsOpen ==
  ASSUME NEW img, NEW w, NEW t, Reads(img, w, t)
  PROVE  Opens(img)
<1> DEFINE h == HeaderRead(w)
<1>1. Laid(w) /\ Own(w) /\ ShowsTrees(img, w) /\ TreesAt(w)
  BY ShowsAll, LaidTreesAt DEF Reads, Laid
<1>2. ReadHeader(img) = h /\ HeaderTells(w, h) /\ HeaderOpens(img, h)
  BY <1>1, ReadHeaderIs, HeaderReadSays, HeaderReadTells, HeaderReadOpens
<1> HIDE DEF h
<1>3. ASSUME NEW i \in 1..Len(h["br"]) PROVE At0(img, h["br"][i].is.catalog).k = "catalog"
  <2>1. w.catalog /\ i = 1
    BY <1>2 DEF HeaderTells, One
  <2>2. h["br"][i].is.catalog = CatalogAt(w)
    BY <1>1, <1>2, <2>1 DEF HeaderTells, TreesAt
  <2>3. QED
    BY <1>1, <2>1, <2>2 DEF ShowsTrees
<1>4. TreeOpens(img, h["pvd"][1].is) /\ h["pvd"][1].is = PvdBlock(w)
  <2>1. h["pvd"][1].is = PvdBlock(w)
    BY <1>2 DEF HeaderTells
  <2>2. QED
    BY <2>1, TreesOpen
<1>5. h["svd"] # <<>> => TreeOpens(img, h["svd"][1].is)
  <2>1. h["svd"] # <<>> => w.joliet /\ h["svd"][1].is = SvdBlock(w)
    BY <1>2 DEF HeaderTells
  <2>2. QED
    BY <2>1, TreesOpen
<1>6. h["bea"] # <<>> => UdfOpens(img, ReadAnchors(img, SpaceOf(img, h["pvd"][1].is)))
  <2>1. h["bea"] # <<>> => w.udf
    BY <1>2 DEF HeaderTells
  <2>2. SpaceOf(img, h["pvd"][1].is) = w.space
    BY <1>4, SpaceOfIs
  <2>3. QED
    BY <2>1, <2>2, UdfReads
<1>7. QED
  BY <1>2, <1>3, <1>4, <1>5, <1>6 DEF Opens, OpensFrom

RecordsOf(w, u, recs) ==
  /\ DOMAIN recs = InTree(w, u)
  /\ \A f \in InTree(w, u) :
       /\ recs[f].ext = DataAtOf(w, f) /\ recs[f].len = w.files[f].len
       /\ recs[f].bytes = w.files[f].bytes[u]
       /\ u = "iso" => recs[f].ce = IF w.files[f].ce # "none" THEN IsoAt(w) + 1 ELSE 0
       /\ u = "udf" => recs[f].fe = w.files[f].fe
LEMMA DirRecords ==
  ASSUME NEW w, Laid(w), NEW u \in {"iso", "joliet"}
  PROVE  RecordsOf(w, u, DirBlock(w, u).recs)
<1>1. DirBlock(w, u).recs = [f \in InTree(w, u) |-> RecOf(w, u, f)]
  BY DirBlockIs
<1>2. \A f \in InTree(w, u) : /\ RecOf(w, u, f).ext = DataAtOf(w, f) /\ RecOf(w, u, f).len = w.files[f].len
                              /\ RecOf(w, u, f).bytes = w.files[f].bytes[u]
                              /\ u = "iso" => RecOf(w, u, f).ce = IF w.files[f].ce # "none" THEN IsoAt(w) + 1 ELSE 0
  BY DEF RecOf
<1>3. u # "udf"
  OBVIOUS
<1>4. QED
  BY <1>1, <1>2, <1>3 DEF RecordsOf
LEMMA NoneIn ==
  ASSUME NEW w, Own(w), NEW u \in {"joliet", "udf"}, IF u = "udf" THEN ~w.udf ELSE ~w.joliet
  PROVE  InTree(w, u) = {} /\ \A recs : DOMAIN recs = {} => RecordsOf(w, u, recs)
<1>1. u \notin TreesOf(w)
  BY DEF TreesOf
<1>2. \A f \in Files : w.files[f].in \subseteq TreesOf(w)
  BY OwnHas DEF OwnFiles, OwnFile
<1>3. InTree(w, u) = {}
  BY <1>1, <1>2 DEF InTree
<1>4. QED
  BY <1>3 DEF RecordsOf
\* The file entry of a file, and what it says.
LEMMA EntrySays ==
  ASSUME NEW w, Laid(w), w.udf, NEW f \in InTree(w, "udf")
  PROVE  /\ EntryPut(w, f).is.len = w.files[f].len /\ EntryPut(w, f).is.bytes = w.files[f].bytes["udf"]
         /\ (IF EntryPut(w, f).is.len > 0 THEN PartStart + EntryPut(w, f).is.block ELSE 0) = DataAtOf(w, f)
<1> DEFINE n == w.files[f].len
           e == DataAtOf(w, f)
           b == EntryPut(w, f).is
<1>1. Own(w) /\ Sound(w) /\ TreesAt(w) /\ OwnFiles(w)
  BY OwnSound, LaidTreesAt, OwnHas DEF Laid
<1>2. f \in Files /\ f \in Present(w) /\ n \in Nat /\ e \in Nat /\ w.files[f].ext = e
  BY <1>1, OwnFilesHave, FilePlaces DEF InTree, HasLens, TreesAt
<1>3. b.len = n /\ b.bytes = w.files[f].bytes["udf"] /\ b.block = IF e = 0 THEN 0 ELSE e - PartStart
  BY <1>2 DEF EntryPut, RelFe, Put, FileEntry
<1>4. n > 0 => e > 0
  <2>1. ASSUME n > 0 PROVE f \in Stored(w)
    BY <1>2, <2>1 DEF Stored
  <2>2. ASSUME n > 0 PROVE e = DataAt(w) + DataBlocks(w, Earlier(w, f)) /\ DataBlocks(w, Earlier(w, f)) \in Nat
    BY <1>1, <2>1, <2>2, DataFollows
  <2>3. DataAt(w) \in Nat /\ DataAt(w) >= 261
    <3>1. RegionsOf(w)
      BY <1>1, OwnRegions
    <3>2. QED
      BY ONLY <3>1, w.udf DEF RegionsOf, Regions
  <2> HIDE DEF n, e
  <2>4. QED
    BY ONLY <2>2, <2>3
<1>5. ~(n > 0) => e = 0
  BY DEF DataAtOf, Stored
<1>6. PartStart \in Int
  BY DEF PartStart
<1> HIDE DEF n, e, b
<1>7. (IF b.len > 0 THEN PartStart + b.block ELSE 0) = e
  BY ONLY <1>2, <1>3, <1>4, <1>5, <1>6
<1>8. QED
  BY <1>3, <1>7 DEF n, e, b
LEMMA UdfRecordsAre ==
  ASSUME NEW img, NEW w, NEW t, Reads(img, w, t), w.udf
  PROVE  RecordsOf(w, "udf", UdfRecords(img, PartStart))
<1>1. Laid(w) /\ PartitionSays(img, w)
  BY PartitionIs DEF Reads
<1> DEFINE idents == IdentsPut(w).is.recs
           record(f, fe) == [len |-> fe.len, bytes |-> fe.bytes, fe |-> PartStart + idents[f],
                             ext |-> IF fe.len > 0 THEN PartStart + fe.block ELSE 0]
<1>2. UdfRecords(img, PartStart) = [f \in DOMAIN idents |-> record(f, At0(img, PartStart + idents[f]))]
  <2>1. At0(img, PartStart + At0(img, PartStart + At0(img, PartStart).d.body.root.block).block).recs = idents
    BY <1>1 DEF PartitionSays
  <2>2. QED
    BY <2>1 DEF UdfRecords
<1>3. idents = [f \in InTree(w, "udf") |-> w.files[f].fe - PartStart]
  BY <1>1 DEF PartitionSays
<1>4. ASSUME NEW f \in InTree(w, "udf")
      PROVE  /\ record(f, At0(img, PartStart + idents[f])).ext = DataAtOf(w, f)
             /\ record(f, At0(img, PartStart + idents[f])).len = w.files[f].len
             /\ record(f, At0(img, PartStart + idents[f])).bytes = w.files[f].bytes["udf"]
             /\ record(f, At0(img, PartStart + idents[f])).fe = w.files[f].fe
  <2>1. PartStart + idents[f] = w.files[f].fe
    BY <1>1, <1>3 DEF PartitionSays
  <2>2. At0(img, PartStart + idents[f]) = EntryPut(w, f).is
    BY <1>1, <2>1 DEF PartitionSays
  <2>3. /\ record(f, EntryPut(w, f).is).ext = DataAtOf(w, f) /\ record(f, EntryPut(w, f).is).len = w.files[f].len
        /\ record(f, EntryPut(w, f).is).bytes = w.files[f].bytes["udf"]
    BY <1>1, EntrySays
  <2>4. record(f, EntryPut(w, f).is).fe = w.files[f].fe
    BY <2>1
  <2> HIDE DEF record, idents
  <2>5. QED
    BY ONLY <2>2, <2>3, <2>4
<1>5. DOMAIN idents = InTree(w, "udf")
  BY <1>3
<1> HIDE DEF record, idents
<1>6. QED
  BY <1>2, <1>4, <1>5 DEF RecordsOf
LEMMA TreeRecordsAre ==
  ASSUME NEW img, NEW w, NEW t, Reads(img, w, t), NEW u \in Trees
  PROVE  RecordsOf(w, u, TreeRecords(img, HeaderRead(w), u))
<1> DEFINE h == HeaderRead(w)
<1>1. Laid(w) /\ Own(w) /\ ShowsTrees(img, w) /\ TreesAt(w)
  BY ShowsAll, LaidTreesAt DEF Reads, Laid
<1>2. HeaderTells(w, h)
  BY <1>1, HeaderReadSays, HeaderReadTells
<1> HIDE DEF h
<1>3. CASE u = "iso"
  <2>1. TreeRecords(img, h, "iso") = At0(img, PvdBlock(w).root).recs
    BY <1>2 DEF TreeRecords, HeaderTells
  <2>2. TreeRecords(img, h, "iso") = DirBlock(w, "iso").recs
    BY <1>1, <2>1 DEF ShowsTrees, TreesAt
  <2>3. QED
    BY <1>1, <1>3, <2>2, DirRecords DEF h
<1>4. CASE u = "joliet"
  <2>1. CASE w.joliet
    <3>1. TreeRecords(img, h, "joliet") = At0(img, SvdBlock(w).root).recs
      BY <1>2, <2>1 DEF TreeRecords, HeaderTells
    <3>2. TreeRecords(img, h, "joliet") = DirBlock(w, "joliet").recs
      BY <1>1, <2>1, <3>1 DEF ShowsTrees, TreesAt
    <3>3. QED
      BY <1>1, <1>4, <3>2, DirRecords DEF h
  <2>2. CASE ~w.joliet
    <3>1. TreeRecords(img, h, "joliet") = <<>>
      BY <1>2, <2>2 DEF TreeRecords, HeaderTells
    <3>2. DOMAIN <<>> = {}
      OBVIOUS
    <3>3. QED
      BY <1>1, <1>4, <2>2, <3>1, <3>2, NoneIn DEF h
  <2>3. QED
    BY <2>1, <2>2
<1>5. CASE u = "udf"
  <2>1. CASE w.udf
    <3>1. SpaceOf(img, h["pvd"][1].is) = w.space
      BY <1>2, SpaceOfIs DEF HeaderTells
    <3>2. PartitionStart(img, ReadAnchors(img, w.space)[1].body) = PartStart
      <4>1. ReadAnchors(img, w.space)[1].body.main = MainAd
        BY <2>1, UdfReads
      <4>2. MainSays(ReadSequence(img, MainAd))
        BY <2>1, SequencesAre, MainIs
      <4>3. QED
        BY <4>1, <4>2 DEF PartitionStart, MainSays
    <3>3. h["bea"] # <<>>
      BY <1>2, <2>1 DEF HeaderTells
    <3>4. TreeRecords(img, h, "udf") = UdfRecords(img, PartStart)
      BY <3>1, <3>2, <3>3 DEF TreeRecords
    <3>5. QED
      BY <1>5, <2>1, <3>4, UdfRecordsAre DEF h
  <2>2. CASE ~w.udf
    <3>1. TreeRecords(img, h, "udf") = <<>>
      BY <1>2, <2>2 DEF TreeRecords, HeaderTells
    <3>2. DOMAIN <<>> = {}
      OBVIOUS
    <3>3. QED
      BY <1>1, <1>5, <2>2, <3>1, <3>2, NoneIn DEF h
  <2>3. QED
    BY <2>1, <2>2
<1>6. QED
  BY <1>3, <1>4, <1>5 DEF Trees, h
-----------------------------------------------------------------------------
(* The files that are read.                                                 *)

LEMMA ContentsAre ==
  ASSUME NEW img, NEW w, NEW t, Reads(img, w, t), NEW f \in Present(w), NEW rec,
         rec.ext = DataAtOf(w, f), rec.len = w.files[f].len
  PROVE  Contents(img, rec) = w.files[f].data
<1>1. Own(w) /\ ShowsData(img, w)
  BY ShowsAll DEF Reads, Laid
<1>2. f \in Files /\ OwnFile(w, f)
  BY <1>1, OwnHas DEF OwnFiles, Present
<1>3. w.files[f].data = [i \in 1..w.files[f].len |-> w.files[f].data[i]]
  BY <1>2 DEF OwnFile
<1>4. \A i \in 1..w.files[f].len : At0(img, DataAtOf(w, f) + i - 1) = w.files[f].data[i]
  BY <1>1 DEF ShowsData
<1>5. Contents(img, rec) = [i \in 1..w.files[f].len |-> At0(img, DataAtOf(w, f) + i - 1)]
  BY DEF Contents
<1>6. [i \in 1..w.files[f].len |-> At0(img, DataAtOf(w, f) + i - 1)] = [i \in 1..w.files[f].len |-> w.files[f].data[i]]
  BY <1>4
<1>7. QED
  BY <1>3, <1>5, <1>6
FileRead(w, f, x) ==
  /\ DOMAIN x = DOMAIN NoFile /\ x.in = w.files[f].in /\ x.len = w.files[f].len /\ x.ce = w.files[f].ce
  /\ x.data = w.files[f].data /\ x.bytes = w.files[f].bytes /\ x.ext = DataAtOf(w, f) /\ x.fe \in Int
  /\ f \in InTree(w, "udf") => x.fe = w.files[f].fe
LEMMA NoFileRead ==
  ASSUME NEW w, Own(w), NEW f \in Files, w.files[f].in = {}
  PROVE  FileRead(w, f, NoFile)
<1>1. OwnFile(w, f)
  BY OwnHas DEF OwnFiles
<1>2. w.files[f].len = 0 /\ w.files[f].ce = "none"
  BY <1>1 DEF OwnFile
<1>3. w.files[f].data = <<>>
  <2>1. w.files[f].data = [i \in 1..0 |-> w.files[f].data[i]]
    BY <1>1, <1>2 DEF OwnFile
  <2>2. QED
    BY <2>1
<1>6. w.files[f].bytes = <<>>
  <2>1. w.files[f].bytes = [u \in {} |-> w.files[f].bytes[u]]
    BY <1>1 DEF OwnFile
  <2>2. QED
    BY <2>1
<1>4. f \notin Stored(w) /\ f \notin InTree(w, "udf")
  BY DEF Stored, Present, InTree
<1>5. QED
  BY <1>2, <1>3, <1>4, <1>6 DEF FileRead, NoFile, DataAtOf
LEMMA FileReadIs ==
  ASSUME NEW img, NEW w, NEW t, Reads(img, w, t), NEW f \in Files, NEW recs,
         \A u \in Trees : RecordsOf(w, u, recs[u])
  PROVE  FileRead(w, f, ReadFile(img, recs, w.files[f].in, f))
<1> DEFINE in == w.files[f].in
           u == CHOOSE u \in in : u = "iso" \/ "iso" \notin in
           rec == recs[u][f]
           x == ReadFile(img, recs, in, f)
<1>1. Laid(w) /\ Own(w) /\ OwnFile(w, f) /\ TreesAt(w)
  BY OwnHas, LaidTreesAt DEF Reads, Laid, OwnFiles
<1>2. in \subseteq Trees
  BY <1>1 DEF OwnFile, TreesOf, Trees
<1>3. CASE in = {}
  <2>1. x = NoFile
    BY <1>3 DEF ReadFile
  <2>2. QED
    BY <1>1, <1>3, <2>1, NoFileRead
<1>4. CASE in # {}
  <2>1. u \in in /\ (u = "iso" \/ "iso" \notin in)
    BY <1>4
  <2>2. u \in Trees /\ f \in InTree(w, u) /\ f \in Present(w)
    BY <1>2, <2>1 DEF InTree, Present
  <2>3. rec.ext = DataAtOf(w, f) /\ rec.len = w.files[f].len
        /\ (u = "iso" => rec.ce = IF w.files[f].ce # "none" THEN IsoAt(w) + 1 ELSE 0)
    BY <2>2 DEF RecordsOf
  <2>4. Contents(img, rec) = w.files[f].data
    <3>1. f \in Present(w) /\ rec.ext = DataAtOf(w, f) /\ rec.len = w.files[f].len
      BY <2>2, <2>3
    <3> HIDE DEF rec
    <3>2. QED
      BY <3>1, ContentsAre
  <2>5. "udf" \in in => recs["udf"][f].fe = w.files[f].fe
    <3>1. RecordsOf(w, "udf", recs["udf"])
      BY DEF Trees
    <3>2. "udf" \in in => f \in InTree(w, "udf")
      BY DEF InTree
    <3>3. QED
      BY <3>1, <3>2 DEF RecordsOf
  <2>6. x = [in |-> in, len |-> rec.len, bytes |-> [y \in in |-> recs[y][f].bytes],
             ext |-> rec.ext, numUdf |-> 0,
             fe |-> IF "udf" \in in THEN recs["udf"][f].fe ELSE 0,
             ce |-> IF "iso" \in in /\ rec.ce # 0 THEN "own" ELSE "none",
             data |-> Contents(img, rec)]
    BY <1>4 DEF ReadFile
  <2>7. IsoAt(w) + 1 # 0
    <3>1. IsoAt(w) \in Nat
      BY <1>1, OwnPlaces DEF Places
    <3>2. QED
      BY <3>1
  <2>8. w.files[f].ce \in {"none", "own"} /\ (w.files[f].ce = "own" => "iso" \in in) /\ w.files[f].fe \in Int
    BY <1>1 DEF OwnFile
  <2>16. [y \in in |-> recs[y][f].bytes] = w.files[f].bytes
    <3>1. \A y \in in : y \in Trees /\ f \in InTree(w, y)
      BY <1>2 DEF InTree
    <3>2. \A y \in in : recs[y][f].bytes = w.files[f].bytes[y]
      BY <3>1 DEF RecordsOf
    <3>3. w.files[f].bytes = [y \in in |-> w.files[f].bytes[y]]
      BY <1>1 DEF OwnFile
    <3> HIDE DEF in
    <3>4. QED
      BY ONLY <3>2, <3>3
  <2>12. f \in InTree(w, "udf") => "udf" \in in
    BY DEF InTree
  <2>13. in = w.files[f].in
    OBVIOUS
  <2> HIDE DEF rec, u, in, x
  <2>9. x.ce = w.files[f].ce
    <3>1. x.ce = IF "iso" \in in /\ rec.ce # 0 THEN "own" ELSE "none"
      BY ONLY <2>6
    <3>2. CASE "iso" \in in
      BY <3>1, <3>2, <2>1, <2>3, <2>7, <2>8
    <3>3. CASE "iso" \notin in
      BY <3>1, <3>3, <2>8
    <3>4. QED
      BY <3>2, <3>3
  <2>10. DOMAIN x = DOMAIN NoFile
    BY <2>6 DEF NoFile
  <2>11. x.in = in /\ x.len = rec.len /\ x.ext = rec.ext /\ x.data = Contents(img, rec)
         /\ x.bytes = [y \in in |-> recs[y][f].bytes]
         /\ x.fe = IF "udf" \in in THEN recs["udf"][f].fe ELSE 0
    BY ONLY <2>6
  <2>14. FileRead(w, f, x)
    BY <2>3, <2>4, <2>5, <2>8, <2>9, <2>10, <2>11, <2>12, <2>13, <2>16 DEF FileRead
  <2>15. QED
    BY <2>14 DEF x, in
<1>5. QED
  BY <1>3, <1>4
FilesAsRead(img, h) == ReadFiles(img, [u \in Trees |-> TreeRecords(img, h, u)])
LEMMA FilesReadAre ==
  ASSUME NEW img, NEW w, NEW t, Reads(img, w, t)
  PROVE  /\ DOMAIN FilesAsRead(img, HeaderRead(w)) = Files
         /\ \A f \in Files : FileRead(w, f, FilesAsRead(img, HeaderRead(w))[f])
<1> DEFINE recs == [u \in Trees |-> TreeRecords(img, HeaderRead(w), u)]
<1>1. \A u \in Trees : RecordsOf(w, u, recs[u])
  BY TreeRecordsAre
<1>2. FilesAsRead(img, HeaderRead(w)) = [f \in Files |-> ReadFile(img, recs, {u \in Trees : f \in DOMAIN recs[u]}, f)]
  BY DEF FilesAsRead, ReadFiles
<1> HIDE DEF recs
<1>3. Own(w)
  BY DEF Reads, Laid
<1>4. ASSUME NEW f \in Files PROVE {u \in Trees : f \in DOMAIN recs[u]} = w.files[f].in
  <2>1. w.files[f].in \subseteq Trees
    <3>1. OwnFile(w, f)
      BY <1>3, OwnHas DEF OwnFiles
    <3>2. QED
      BY <3>1 DEF OwnFile, TreesOf, Trees
  <2>2. \A u \in Trees : f \in DOMAIN recs[u] <=> u \in w.files[f].in
    BY <1>1 DEF RecordsOf, InTree
  <2>3. QED
    BY <2>1, <2>2
<1>5. \A f \in Files : FilesAsRead(img, HeaderRead(w))[f] = ReadFile(img, recs, w.files[f].in, f)
  BY <1>2, <1>4
<1>6. \A f \in Files : FileRead(w, f, ReadFile(img, recs, w.files[f].in, f))
  BY <1>1, FileReadIs
<1>7. QED
  BY <1>2, <1>5, <1>6
-----------------------------------------------------------------------------
(* The volume that is read, but for its UDF part.                           *)

Tracked(files) == {files[f].ce : f \in Files} \ {"none"}
VolumeFields(img, h, files, b) ==
  /\ DOMAIN b = DOMAIN NoVolume
  /\ b.udf = FALSE /\ b.joliet = (h["svd"] # <<>>) /\ b.rr = (At0(img, h["pvd"][1].is.root).er # 0)
  /\ b.head = [h EXCEPT !["version"] = ReadVersion(img, h)]
  /\ b.main = NoSequence /\ b.reserve = NoSequence /\ b.lvid = <<>> /\ b.lvidEnd = <<>>
  /\ b.anchors = <<>> /\ b.set = <<>> /\ b.setEnd = <<>>
  /\ DOMAIN b.at = DOMAIN NoPlaces
  /\ b.at.le = h["pvd"][1].is.le /\ b.at.be = h["pvd"][1].is.be /\ b.at.iso = h["pvd"][1].is.root
  /\ b.at.jle = (IF h["svd"] # <<>> THEN h["svd"][1].is.le ELSE 0)
  /\ b.at.jbe = (IF h["svd"] # <<>> THEN h["svd"][1].is.be ELSE 0)
  /\ b.at.joliet = (IF h["svd"] # <<>> THEN h["svd"][1].is.root ELSE 0)
  /\ b.at.er = At0(img, h["pvd"][1].is.root).er
  /\ b.at.ce = (IF \A f \in Files : files[f].ce = "none" THEN 0
                ELSE At0(img, h["pvd"][1].is.root).recs[
                       CHOOSE f \in DOMAIN At0(img, h["pvd"][1].is.root).recs :
                         At0(img, h["pvd"][1].is.root).recs[f].ce # 0].ce)
  /\ b.at.catalog = (IF h["br"] # <<>> THEN h["br"][1].is.catalog ELSE 0)
  /\ b.tables = h["pvd"][1].is.be - h["pvd"][1].is.le
  /\ b.jtables = (IF h["svd"] # <<>> THEN h["svd"][1].is.be - h["svd"][1].is.le ELSE 0)
  /\ b.blocks = Tracked(files) \cup (IF At0(img, h["pvd"][1].is.root).er # 0 THEN {"er"} ELSE {})
  /\ b.files = files /\ b.catalog = (h["br"] # <<>>)
  /\ b.boot = (IF h["br"] # <<>>
               THEN {f \in Files : files[f].in # {} /\ files[f].len > 0
                                    /\ files[f].ext \in At0(img, h["br"][1].is.catalog).boot}
               ELSE {})
  /\ b.shared = {f \in Files : files[f].in # {} /\ files[f].len = 0}
  /\ b.space = SpaceOf(img, h["pvd"][1].is) /\ b.pending = FALSE
LEMMA ReadVolumeFields ==
  ASSUME NEW img, NEW h, NEW files
  PROVE  VolumeFields(img, h, files, ReadVolume(img, h, files))
<1> DEFINE b == ReadVolume(img, h, files)
           pvd == h["pvd"][1].is
           dir == At0(img, pvd.root)
           svd == h["svd"][1].is
           at == ReadPlaces(img, h, files)
           head == [h EXCEPT !["version"] = ReadVersion(img, h)]
           boot == IF h["br"] # <<>>
                   THEN {f \in Files : files[f].in # {} /\ files[f].len > 0
                                    /\ files[f].ext \in At0(img, h["br"][1].is.catalog).boot}
                   ELSE {}
           shared == {f \in Files : files[f].in # {} /\ files[f].len = 0}
           blocks == Tracked(files) \cup (IF dir.er # 0 THEN {"er"} ELSE {})
<1>1. b = [NoVolume EXCEPT
             !.joliet = (h["svd"] # <<>>), !.rr = (dir.er # 0), !.head = head, !.at = at,
             !.tables = pvd.be - pvd.le, !.jtables = IF h["svd"] # <<>> THEN svd.be - svd.le ELSE 0,
             !.blocks = blocks, !.files = files, !.catalog = (h["br"] # <<>>), !.boot = boot,
             !.shared = shared, !.space = SpaceOf(img, pvd)]
  BY DEF ReadVolume, Tracked
<1>2. /\ DOMAIN at = DOMAIN NoPlaces
      /\ at.le = pvd.le /\ at.be = pvd.be /\ at.iso = pvd.root
      /\ at.jle = (IF h["svd"] # <<>> THEN svd.le ELSE 0)
      /\ at.jbe = (IF h["svd"] # <<>> THEN svd.be ELSE 0)
      /\ at.joliet = (IF h["svd"] # <<>> THEN svd.root ELSE 0)
      /\ at.er = dir.er
      /\ at.ce = (IF \A f \in Files : files[f].ce = "none" THEN 0
                  ELSE dir.recs[CHOOSE f \in DOMAIN dir.recs : dir.recs[f].ce # 0].ce)
      /\ at.catalog = (IF h["br"] # <<>> THEN h["br"][1].is.catalog ELSE 0)
  BY DEF ReadPlaces, NoPlaces
<1> DEFINE joliet == h["svd"] # <<>>
           catalog == h["br"] # <<>>
           rr == dir.er # 0
           tables == pvd.be - pvd.le
           jtables == IF h["svd"] # <<>> THEN svd.be - svd.le ELSE 0
           space == SpaceOf(img, pvd)
<1>3. b = [NoVolume EXCEPT
             !.joliet = joliet, !.rr = rr, !.head = head, !.at = at, !.tables = tables, !.jtables = jtables,
             !.blocks = blocks, !.files = files, !.catalog = catalog, !.boot = boot,
             !.shared = shared, !.space = space]
  BY <1>1
<1> HIDE DEF b, pvd, dir, svd, at, head, boot, shared, blocks, joliet, catalog, rr, tables, jtables, space
<1>4. /\ DOMAIN b = DOMAIN NoVolume
      /\ b.udf = FALSE /\ b.joliet = joliet /\ b.rr = rr /\ b.head = head
      /\ b.main = NoSequence /\ b.reserve = NoSequence /\ b.lvid = <<>> /\ b.lvidEnd = <<>>
      /\ b.anchors = <<>> /\ b.set = <<>> /\ b.setEnd = <<>> /\ b.at = at
      /\ b.tables = tables /\ b.jtables = jtables
      /\ b.blocks = blocks /\ b.files = files /\ b.catalog = catalog /\ b.boot = boot
      /\ b.shared = shared /\ b.space = space /\ b.pending = FALSE
  <2> DEFINE n == NoVolume
             K == {"joliet", "rr", "head", "at", "tables", "jtables", "blocks", "files", "catalog", "boot", "shared",
                   "space"}
  <2>1. /\ DOMAIN n = DOMAIN NoVolume /\ n.udf = FALSE /\ n.pending = FALSE
        /\ n.main = NoSequence /\ n.reserve = NoSequence /\ n.lvid = <<>> /\ n.lvidEnd = <<>>
        /\ n.anchors = <<>> /\ n.set = <<>> /\ n.setEnd = <<>>
    BY DEF NoVolume
  <2>2. DOMAIN n = {"udf", "joliet", "rr", "head", "main", "reserve", "lvid", "lvidEnd", "anchors", "set", "setEnd",
                    "at", "tables", "jtables", "blocks", "files", "catalog", "boot", "shared", "space", "pending"}
    BY Fields
  <2>3. b = [n EXCEPT
             !.joliet = joliet, !.rr = rr, !.head = head, !.at = at, !.tables = tables, !.jtables = jtables,
             !.blocks = blocks, !.files = files, !.catalog = catalog, !.boot = boot,
             !.shared = shared, !.space = space]
    BY <1>3
  <2> HIDE DEF n
  <2>4. DOMAIN b = DOMAIN n /\ \A x \in DOMAIN n \ K : b[x] = n[x]
    BY ONLY <2>3
  <2>5. /\ b.joliet = joliet /\ b.rr = rr /\ b.head = head /\ b.at = at
        /\ b.tables = tables /\ b.jtables = jtables
        /\ b.blocks = blocks /\ b.files = files /\ b.catalog = catalog /\ b.boot = boot
        /\ b.shared = shared /\ b.space = space
    BY ONLY <2>2, <2>3
  <2>6. /\ b.udf = n.udf /\ b.main = n.main /\ b.reserve = n.reserve /\ b.lvid = n.lvid /\ b.lvidEnd = n.lvidEnd
        /\ b.anchors = n.anchors /\ b.set = n.set /\ b.setEnd = n.setEnd /\ b.pending = n.pending
    BY ONLY <2>2, <2>4 DEF K
  <2>7. QED
    BY ONLY <2>1, <2>4, <2>5, <2>6
<1>5. VolumeFields(img, h, files, b)
  BY ONLY <1>2, <1>4 DEF VolumeFields, pvd, dir, svd, head, boot, shared, blocks, joliet, catalog, rr, tables, jtables, space
<1>6. QED
  BY <1>5 DEF b
\* The header of the volume that is read.
HeadRead(w) == [HeaderRead(w) EXCEPT !["version"] = <<[extent |-> HeaderAt(w, "version"), is |-> Zero]>>]
LEMMA HeadReadOwn ==
  ASSUME NEW w, Laid(w), NEW r, r.head = HeadRead(w), r.catalog = w.catalog, r.joliet = w.joliet, r.udf = w.udf
  PROVE  /\ OwnHead(r)
         /\ \A k \in HeaderNames : /\ Len(r.head[k]) = Len(w.head[k])
                                   /\ \A i \in 1..Len(r.head[k]) : r.head[k][i].extent = HeaderAt(w, k) + i - 1
<1> DEFINE h == HeaderRead(w)
           last == <<[extent |-> HeaderAt(w, "version"), is |-> Zero]>>
           entry(k, i) == [extent |-> HeaderAt(w, k) + i - 1, is |-> HeaderBlock(w, k, i)]
<1>1. OwnHead(w) /\ w.udf \in BOOLEAN
  BY OwnHas DEF Laid
<1>2. /\ DOMAIN w.head = HeaderNames
      /\ \A k \in HeaderNames : Len(w.head[k]) \in Nat /\ (k # "pvd" => Len(w.head[k]) = HeaderCount(w, k))
      /\ Len(w.head["pvd"]) >= 1 /\ (w.udf => Len(w.head["pvd"]) = 1)
  BY <1>1 DEF OwnHead
<1>3. \A k \in HeaderKinds : h[k] = [i \in 1..Len(w.head[k]) |-> entry(k, i)]
  BY KindsNamed DEF HeaderRead
<1>4. DOMAIN h = HeaderNames
  BY DEF HeaderRead
<1>5. r.head = [h EXCEPT !["version"] = last]
  BY DEF HeadRead
<1> HIDE DEF h
<1>6. /\ DOMAIN r.head = HeaderNames
      /\ \A k \in HeaderKinds : r.head[k] = [i \in 1..Len(w.head[k]) |-> entry(k, i)]
      /\ r.head["version"] = last
  BY <1>3, <1>4, <1>5, KindsNamed
<1>7. \A k \in HeaderNames : k \in HeaderKinds \/ k = "version"
  BY DEF HeaderKinds
<1>8. Len(w.head["version"]) = 1
  BY <1>2, KindsNamed DEF HeaderCount
<1>9. ASSUME NEW k \in HeaderNames
      PROVE  /\ Len(r.head[k]) = Len(w.head[k])
             /\ \A i \in 1..Len(r.head[k]) : r.head[k][i].extent = HeaderAt(w, k) + i - 1
             /\ r.head[k] = [i \in 1..Len(r.head[k]) |->
                              [extent |-> r.head[k][i].extent, is |-> r.head[k][i].is]]
             /\ HeaderAt(w, k) \in Int
  <2>1. HeaderAt(w, k) \in Int
    BY HeaderListPuts
  <2>2. CASE k = "version"
    <3>1. r.head[k] = last /\ Len(w.head[k]) = 1
      BY <1>6, <1>8, <2>2
    <3>2. Len(last) = 1 /\ last = [i \in 1..1 |-> [extent |-> last[i].extent, is |-> last[i].is]]
          /\ last[1].extent = HeaderAt(w, k)
      BY <2>2
    <3>3. HeaderAt(w, k) + 1 - 1 = HeaderAt(w, k)
      BY <2>1
    <3>4. \A i \in 1..1 : i = 1
      OBVIOUS
    <3> HIDE DEF last
    <3>5. QED
      BY <2>1, <3>1, <3>2, <3>3, <3>4
  <2>3. CASE k \in HeaderKinds
    <3> DEFINE n == Len(w.head[k])
    <3>1. r.head[k] = [i \in 1..n |-> entry(k, i)] /\ n \in Nat
      BY <1>2, <1>6, <2>3
    <3> HIDE DEF n
    <3>2. Len(r.head[k]) = n /\ \A i \in 1..n : r.head[k][i] = entry(k, i)
      BY <3>1
    <3>3. \A i \in 1..n : entry(k, i).extent = HeaderAt(w, k) + i - 1
                          /\ entry(k, i) = [extent |-> entry(k, i).extent, is |-> entry(k, i).is]
      OBVIOUS
    <3>4. \A i \in 1..n : r.head[k][i] = [extent |-> r.head[k][i].extent, is |-> r.head[k][i].is]
      BY <3>2, <3>3
    <3>5. r.head[k] = [i \in 1..n |-> [extent |-> r.head[k][i].extent, is |-> r.head[k][i].is]]
      <4>1. r.head[k] = [i \in 1..n |-> r.head[k][i]]
        BY <3>1, <3>2
      <4>2. QED
        BY <3>4, <4>1
    <3>6. QED
      BY <2>1, <3>2, <3>3, <3>5 DEF n
  <2>4. QED
    BY <1>7, <2>2, <2>3
<1>10. \A k \in HeaderNames : k # "pvd" => Len(r.head[k]) = HeaderCount(r, k)
  BY <1>2, <1>9 DEF HeaderCount
<1>11. \A k \in HeaderNames : \A i \in 1..Len(r.head[k]) : r.head[k][i].extent \in Int
  <2>1. TAKE k \in HeaderNames
  <2>2. TAKE i \in 1..Len(r.head[k])
  <2>3. r.head[k][i].extent = HeaderAt(w, k) + i - 1 /\ HeaderAt(w, k) \in Int
    BY <1>9
  <2>4. QED
    BY ONLY <2>3, i \in 1..Len(r.head[k])
<1>12. ASSUME w.udf
       PROVE  /\ r.head["bea"][1].is = [k |-> "vs", s |-> NewBEA]
              /\ r.head["nsr"][1].is = [k |-> "vs", s |-> NewNSR]
              /\ r.head["tea"][1].is = [k |-> "vs", s |-> NewTEA]
  <2>1. /\ w.head["bea"][1].is = [k |-> "vs", s |-> NewBEA]
        /\ w.head["nsr"][1].is = [k |-> "vs", s |-> NewNSR]
        /\ w.head["tea"][1].is = [k |-> "vs", s |-> NewTEA]
    BY <1>1, <1>12 DEF OwnHead
  <2>2. ASSUME NEW k \in {"bea", "nsr", "tea"} PROVE r.head[k][1].is = w.head[k][1].is
    <3>1. k \in HeaderKinds /\ Len(w.head[k]) = 1
      BY <1>2, <1>12, KindsNamed DEF HeaderCount, One
    <3>2. r.head[k][1].is = HeaderBlock(w, k, 1)
      <4>1. r.head[k] = [i \in 1..1 |-> entry(k, i)]
        BY <1>6, <3>1
      <4>2. r.head[k][1] = entry(k, 1)
        BY ONLY <4>1
      <4>3. QED
        BY <4>2
    <3>3. HeaderBlock(w, k, 1) = w.head[k][1].is
      BY DEF HeaderBlock
    <3>4. QED
      BY <3>2, <3>3
  <2>3. QED
    BY <2>1, <2>2
<1>13. r.head["version"][1].is = Zero
  BY <1>6
<1>14. /\ \A k \in HeaderNames :
            /\ Len(r.head[k]) \in Nat
            /\ k # "pvd" => Len(r.head[k]) = HeaderCount(r, k)
            /\ r.head[k] = [i \in 1..Len(r.head[k]) |->
                        [extent |-> r.head[k][i].extent, is |-> r.head[k][i].is]]
            /\ \A i \in 1..Len(r.head[k]) : r.head[k][i].extent \in Int
       /\ Len(r.head["pvd"]) >= 1 /\ (r.udf => Len(r.head["pvd"]) = 1)
  BY <1>2, <1>9, <1>10, <1>11, KindsNamed
<1>15. OwnHead(r)
  BY <1>6, <1>12, <1>13, <1>14 DEF OwnHead
<1>16. QED
  BY <1>9, <1>15
\* The boot files are known by the blocks that they are in.
LEMMA BootRead ==
  ASSUME NEW w, Own(w), \A f \in Present(w) : w.files[f].ext = DataAtOf(w, f), NEW files,
         \A f \in Files : FileRead(w, f, files[f])
  PROVE  {f \in Files : files[f].in # {} /\ files[f].len > 0 /\ files[f].ext \in {w.files[g].ext : g \in w.boot}} = w.boot
<1>1. w.boot \in SUBSET Stored(w) /\ Present(w) \in SUBSET Files /\ Stored(w) \in SUBSET Present(w) /\ Sound(w)
  BY OwnHas, OwnFilesHave, OwnSound
<1>2. ASSUME NEW f \in Files PROVE (files[f].in # {} /\ files[f].len > 0) <=> f \in Stored(w)
  BY DEF FileRead, Stored, Present
<1>3. ASSUME NEW f \in Stored(w), NEW g \in Stored(w), f # g PROVE DataAtOf(w, f) # DataAtOf(w, g)
  <2>1. f \in Files /\ g \in Files /\ DataOf(w, f) \cap DataOf(w, g) = {}
    BY <1>1, <1>3, DataApart
  <2>2. /\ DataAtOf(w, f) \in Nat /\ w.files[f].len \in Nat /\ w.files[f].len > 0
        /\ DataAtOf(w, g) \in Nat /\ w.files[g].len \in Nat /\ w.files[g].len > 0
    BY <1>1, <2>1, DataFollows, FilePlaces
  <2>3. DataAtOf(w, f) \in DataOf(w, f) /\ DataAtOf(w, g) \in DataOf(w, g)
    BY <2>2 DEF DataOf
  <2>4. QED
    BY <2>1, <2>3
<1>4. ASSUME NEW f \in Stored(w) PROVE files[f].ext \in {w.files[g].ext : g \in w.boot} <=> f \in w.boot
  <2>1. files[f].ext = DataAtOf(w, f) /\ w.files[f].ext = DataAtOf(w, f)
    BY <1>1 DEF FileRead
  <2>2. \A g \in w.boot : g \in Stored(w) /\ w.files[g].ext = DataAtOf(w, g)
    BY <1>1
  <2>3. QED
    BY <1>3, <2>1, <2>2
<1>5. QED
  BY <1>1, <1>2, <1>4
\* The blocks of continuation entries.
LEMMA TrackedRead ==
  ASSUME NEW w, Own(w), NEW files, \A f \in Files : FileRead(w, f, files[f])
  PROVE  /\ Tracked(files) = UsedBlocks(w) /\ UsedBlocks(w) \in SUBSET {"own"}
         /\ (\A f \in Files : files[f].ce = "none") <=> UsedBlocks(w) = {}
<1>1. UsedBlocks(w) \in SUBSET {"own"}
  BY OwnHas, OwnFilesHave
<1>2. \A f \in Files : files[f].ce = w.files[f].ce
  BY DEF FileRead
<1>3. \A f \in Files : w.files[f].ce # "none" => f \in InTree(w, "iso")
  <2>1. \A f \in Files : OwnFile(w, f)
    BY OwnHas DEF OwnFiles
  <2>2. QED
    BY <2>1 DEF OwnFile, InTree
<1>4. InTree(w, "iso") \subseteq Files
  BY DEF InTree
<1>5. QED
  BY <1>1, <1>2, <1>3, <1>4 DEF Tracked, UsedBlocks
\* What is read of a volume of the library, whether it has a UDF part or not.
PlacesRead(w, r) ==
  /\ DOMAIN r.at = DOMAIN NoPlaces
  /\ r.at.le = TreeStart(w) /\ r.at.be = TreeStart(w) + 2 /\ r.at.iso = IsoAt(w)
  /\ w.joliet => /\ r.at.jle = TreeStart(w) + 4 /\ r.at.jbe = TreeStart(w) + 6
                 /\ r.at.joliet = JolietAt(w)
  /\ w.rr => r.at.er = ErAt(w)
  /\ w.catalog => r.at.catalog = CatalogAt(w)
  /\ UsedBlocks(w) # {} => r.at.ce = IsoAt(w) + 1
FilesRead(w, r) ==
  /\ r.files = [f \in Files |-> r.files[f]] /\ \A f \in Files : FileRead(w, f, r.files[f])
  /\ r.boot = w.boot /\ r.shared = {f \in Files : r.files[f].in # {} /\ r.files[f].len = 0}
  /\ r.blocks = UsedBlocks(w) \cup (IF w.rr THEN {"er"} ELSE {})
RestRead(w, r) ==
  /\ DOMAIN r = DOMAIN NoVolume
  /\ r.joliet = w.joliet /\ r.rr = w.rr /\ r.catalog = w.catalog /\ r.pending = FALSE
  /\ r.tables = 2 /\ r.jtables = (IF w.joliet THEN 2 ELSE 0) /\ r.space = w.space
  /\ r.head = HeadRead(w) /\ FilesRead(w, r)
BaseRead(w, r) == RestRead(w, r) /\ PlacesRead(w, r) /\ r.udf = FALSE /\ NoUdf(r)
\* The root directory, and the descriptors that say where things are.
RootSays(img, w, h) ==
  /\ h["pvd"][1].is = PvdBlock(w)
  /\ h["pvd"][1].is.root = IsoAt(w) /\ h["pvd"][1].is.le = TreeStart(w) /\ h["pvd"][1].is.be = TreeStart(w) + 2
  /\ (h["svd"] # <<>>) = w.joliet
  /\ w.joliet => /\ h["svd"][1].is.root = JolietAt(w) /\ h["svd"][1].is.le = TreeStart(w) + 4
                 /\ h["svd"][1].is.be = TreeStart(w) + 6
  /\ (h["br"] # <<>>) = w.catalog
  /\ w.catalog => /\ h["br"][1].is.catalog = CatalogAt(w)
                  /\ At0(img, CatalogAt(w)).boot = {w.files[f].ext : f \in w.boot}
  /\ (At0(img, IsoAt(w)).er # 0) = w.rr
  /\ w.rr => At0(img, IsoAt(w)).er = ErAt(w)
  /\ At0(img, IsoAt(w)).recs = [f \in InTree(w, "iso") |-> RecOf(w, "iso", f)]
LEMMA RootIs ==
  ASSUME NEW img, NEW w, NEW t, Reads(img, w, t)
  PROVE  RootSays(img, w, HeaderRead(w))
<1> DEFINE h == HeaderRead(w)
           dir == DirBlock(w, "iso")
<1>1. Laid(w) /\ Own(w) /\ ShowsTrees(img, w) /\ TreesAt(w) /\ Places(w)
  BY ShowsAll, LaidTreesAt, OwnPlaces DEF Reads, Laid
<1>2. HeaderTells(w, h)
  BY <1>1, HeaderReadSays, HeaderReadTells
<1>3. w.joliet \in BOOLEAN /\ w.catalog \in BOOLEAN /\ w.rr \in BOOLEAN
  BY <1>1, OwnHas
<1> HIDE DEF h
<1>4. /\ h["pvd"][1].is = PvdBlock(w)
      /\ h["pvd"][1].is.root = IsoAt(w) /\ h["pvd"][1].is.le = TreeStart(w) /\ h["pvd"][1].is.be = TreeStart(w) + 2
  BY <1>1, <1>2 DEF HeaderTells, TreesAt
<1>5. w.joliet => /\ h["svd"][1].is.root = JolietAt(w) /\ h["svd"][1].is.le = TreeStart(w) + 4
                  /\ h["svd"][1].is.be = TreeStart(w) + 6
  BY <1>1, <1>2 DEF HeaderTells, TreesAt
<1>6. w.catalog => /\ h["br"][1].is.catalog = CatalogAt(w)
                   /\ At0(img, CatalogAt(w)).boot = {w.files[f].ext : f \in w.boot}
  <2>1. w.catalog => h["br"][1].is.catalog = CatalogAt(w)
    BY <1>1, <1>2 DEF HeaderTells, TreesAt
  <2>2. ASSUME w.catalog PROVE At0(img, CatalogAt(w)).boot = {w.files[f].ext : f \in w.boot}
    <3> DEFINE B == {w.files[f].ext : f \in w.boot}
    <3>1. At0(img, CatalogAt(w)) = [k |-> "catalog", boot |-> B]
      BY <1>1, <2>2 DEF ShowsTrees
    <3> HIDE DEF B
    <3>2. At0(img, CatalogAt(w)).boot = B
      BY <3>1
    <3>3. QED
      BY <3>2 DEF B
  <2>3. QED
    BY <2>1, <2>2
<1>7. /\ dir.er = (IF w.rr THEN ErAt(w) ELSE 0)
      /\ dir.recs = [f \in InTree(w, "iso") |-> RecOf(w, "iso", f)]
  BY <1>1, DirBlockIs
<1>8. At0(img, IsoAt(w)) = dir
  BY <1>1 DEF ShowsTrees
<1>9. ErAt(w) # 0
  <2>1. /\ ErAt(w) = JolietAt(w) + One(w.joliet) /\ JolietAt(w) = IsoAt(w) + 1 + Cardinality(UsedBlocks(w))
        /\ IsoAt(w) \in Nat /\ One(w.joliet) \in 0..1 /\ Cardinality(UsedBlocks(w)) \in 0..1
    BY <1>1 DEF Places
  <2>2. QED
    BY ONLY <2>1
<1>10. (h["svd"] # <<>>) = w.joliet /\ (h["br"] # <<>>) = w.catalog
  BY <1>2, <1>3 DEF HeaderTells
<1>11. (dir.er # 0) = w.rr /\ (w.rr => dir.er = ErAt(w))
  BY <1>3, <1>7, <1>9
<1> HIDE DEF dir
<1>12. RootSays(img, w, h)
  BY ONLY <1>4, <1>5, <1>6, <1>7, <1>8, <1>10, <1>11 DEF RootSays
<1>13. QED
  BY <1>12 DEF h
LEMMA CeRead ==
  ASSUME NEW img, NEW w, NEW t, Reads(img, w, t), UsedBlocks(w) # {}, NEW recs,
         recs = [f \in InTree(w, "iso") |-> RecOf(w, "iso", f)]
  PROVE  recs[CHOOSE f \in DOMAIN recs : recs[f].ce # 0].ce = IsoAt(w) + 1
<1> DEFINE g == CHOOSE f \in DOMAIN recs : recs[f].ce # 0
<1>1. IsoAt(w) \in Nat
  BY OwnPlaces DEF Reads, Laid, Places
<1>2. PICK f \in InTree(w, "iso") : w.files[f].ce # "none"
  BY DEF UsedBlocks
<1>3. \A x \in InTree(w, "iso") : recs[x].ce = IF w.files[x].ce # "none" THEN IsoAt(w) + 1 ELSE 0
  BY DEF RecOf
<1>4. DOMAIN recs = InTree(w, "iso")
  OBVIOUS
<1>5. \E x \in DOMAIN recs : recs[x].ce # 0
  BY <1>1, <1>2, <1>3, <1>4
<1>6. g \in DOMAIN recs /\ recs[g].ce # 0
  BY ONLY <1>5
<1> HIDE DEF g
<1>7. recs[g].ce = IsoAt(w) + 1
  BY <1>3, <1>4, <1>6
<1>8. QED
  BY <1>7 DEF g
LEMMA BaseReadIs ==
  ASSUME NEW img, NEW w, NEW t, Reads(img, w, t)
  PROVE  BaseRead(w, ReadVolume(img, HeaderRead(w), FilesAsRead(img, HeaderRead(w))))
<1> DEFINE h == HeaderRead(w)
           files == FilesAsRead(img, h)
           b == ReadVolume(img, h, files)
<1>1. Laid(w) /\ Own(w) /\ TreesAt(w)
  BY LaidTreesAt DEF Reads, Laid
<1>2. VolumeFields(img, h, files, b)
  BY ReadVolumeFields
<1>3. RootSays(img, w, h)
  BY RootIs
<1>4. /\ DOMAIN files = Files /\ \A f \in Files : FileRead(w, f, files[f])
  BY FilesReadAre
<1>5. files = [f \in Files |-> files[f]]
  <2>1. \E F : files = [f \in Files |-> F[f]]
    <3>1. files = [f \in Files |-> ReadFile(img, [u \in Trees |-> TreeRecords(img, h, u)],
              {u \in Trees : f \in DOMAIN [v \in Trees |-> TreeRecords(img, h, v)][u]}, f)]
      BY DEF FilesAsRead, ReadFiles
    <3> HIDE DEF h
    <3>2. QED
      BY <3>1
  <2> HIDE DEF files
  <2>2. QED
    BY <2>1
<1>6. [h EXCEPT !["version"] = ReadVersion(img, h)] = HeadRead(w)
  BY ReadVersionIs DEF HeadRead
<1>7. SpaceOf(img, PvdBlock(w)) = w.space
  BY SpaceOfIs
<1>8. /\ Tracked(files) = UsedBlocks(w)
      /\ (\A f \in Files : files[f].ce = "none") <=> UsedBlocks(w) = {}
  <2> HIDE DEF files
  <2>1. QED
    BY <1>1, <1>4, TrackedRead
<1>9. {f \in Files : files[f].in # {} /\ files[f].len > 0 /\ files[f].ext \in {w.files[g].ext : g \in w.boot}} = w.boot
  <2> HIDE DEF files
  <2>1. \A f \in Present(w) : w.files[f].ext = DataAtOf(w, f)
    BY <1>1 DEF TreesAt
  <2>2. QED
    BY <1>1, <1>4, <2>1, BootRead
<1>10. w.boot # {} => w.catalog
  BY <1>1, OwnHas DEF OwnFiles
<1>11. w.tables = 2 /\ w.jtables = (IF w.joliet THEN 2 ELSE 0) /\ w.joliet \in BOOLEAN /\ w.catalog \in BOOLEAN
       /\ TreeStart(w) \in Nat
  BY <1>1, OwnHas, OwnPlaces DEF Places
<1> HIDE DEF h, files, b
<1>12. FilesRead(w, b)
  <2>1. b.files = files /\ b.shared = {f \in Files : files[f].in # {} /\ files[f].len = 0}
    BY <1>2 DEF VolumeFields
  <2>2. b.blocks = UsedBlocks(w) \cup (IF w.rr THEN {"er"} ELSE {})
    <3>1. b.blocks = Tracked(files) \cup (IF At0(img, IsoAt(w)).er # 0 THEN {"er"} ELSE {})
      BY <1>2, <1>3 DEF VolumeFields, RootSays
    <3>2. (At0(img, IsoAt(w)).er # 0) = w.rr
      BY <1>3 DEF RootSays
    <3>3. QED
      BY <1>8, <3>1, <3>2
  <2>3. b.boot = w.boot
    <3>1. CASE w.catalog
      <4>1. /\ h["br"] # <<>> /\ h["br"][1].is.catalog = CatalogAt(w)
            /\ At0(img, CatalogAt(w)).boot = {w.files[f].ext : f \in w.boot}
        BY <1>3, <3>1 DEF RootSays
      <4>2. b.boot = (IF h["br"] # <<>>
               THEN {f \in Files : files[f].in # {} /\ files[f].len > 0
                                    /\ files[f].ext \in At0(img, h["br"][1].is.catalog).boot}
               ELSE {})
        BY <1>2 DEF VolumeFields
      <4>3. QED
        BY <1>9, <4>1, <4>2
    <3>2. CASE ~w.catalog
      <4>1. h["br"] = <<>>
        BY <1>3, <3>2 DEF RootSays
      <4>2. b.boot = {}
        BY <1>2, <4>1 DEF VolumeFields
      <4>3. QED
        BY <1>10, <3>2, <4>2
    <3>3. QED
      BY <1>11, <3>1, <3>2
  <2>4. QED
    BY <1>4, <1>5, <2>1, <2>2, <2>3 DEF FilesRead
<1>13. /\ DOMAIN b = DOMAIN NoVolume
       /\ b.joliet = w.joliet /\ b.rr = w.rr /\ b.catalog = w.catalog /\ b.pending = FALSE
       /\ b.udf = FALSE /\ b.space = w.space /\ b.head = HeadRead(w)
  BY <1>2, <1>3, <1>6, <1>7 DEF VolumeFields, RootSays
<1>14. b.tables = 2 /\ b.jtables = (IF w.joliet THEN 2 ELSE 0)
  <2>1. /\ b.tables = h["pvd"][1].is.be - h["pvd"][1].is.le
        /\ b.jtables = (IF h["svd"] # <<>> THEN h["svd"][1].is.be - h["svd"][1].is.le ELSE 0)
    BY ONLY <1>2 DEF VolumeFields
  <2>2. /\ h["pvd"][1].is.le = TreeStart(w) /\ h["pvd"][1].is.be = TreeStart(w) + 2
        /\ (h["svd"] # <<>>) = w.joliet
        /\ w.joliet => /\ h["svd"][1].is.le = TreeStart(w) + 4 /\ h["svd"][1].is.be = TreeStart(w) + 6
    BY ONLY <1>3 DEF RootSays
  <2>3. b.tables = 2
    BY ONLY <1>11, <2>1, <2>2
  <2>4. CASE w.joliet
    <3>1. b.jtables = h["svd"][1].is.be - h["svd"][1].is.le
      BY ONLY <2>1, <2>2, <2>4
    <3>2. QED
      BY ONLY <1>11, <2>2, <2>3, <2>4, <3>1
  <2>5. CASE ~w.joliet
    BY ONLY <2>1, <2>2, <2>3, <2>5
  <2>6. QED
    BY ONLY <1>11, <2>4, <2>5
<1>15. NoUdf(b)
  BY <1>2 DEF VolumeFields, NoUdf
<1>16. PlacesRead(w, b)
  <2>1. /\ DOMAIN b.at = DOMAIN NoPlaces
        /\ b.at.le = TreeStart(w) /\ b.at.be = TreeStart(w) + 2 /\ b.at.iso = IsoAt(w)
        /\ w.joliet => /\ b.at.jle = TreeStart(w) + 4 /\ b.at.jbe = TreeStart(w) + 6
                       /\ b.at.joliet = JolietAt(w)
        /\ w.rr => b.at.er = ErAt(w)
        /\ w.catalog => b.at.catalog = CatalogAt(w)
    BY <1>2, <1>3 DEF VolumeFields, RootSays
  <2>2. ASSUME UsedBlocks(w) # {} PROVE b.at.ce = IsoAt(w) + 1
    <3> DEFINE recs == At0(img, IsoAt(w)).recs
    <3>1. b.at.ce = recs[CHOOSE f \in DOMAIN recs : recs[f].ce # 0].ce
      <4>1. b.at.ce = (IF \A f \in Files : files[f].ce = "none" THEN 0
                       ELSE At0(img, h["pvd"][1].is.root).recs[
                       CHOOSE f \in DOMAIN At0(img, h["pvd"][1].is.root).recs :
                         At0(img, h["pvd"][1].is.root).recs[f].ce # 0].ce)
        BY <1>2 DEF VolumeFields
      <4>2. h["pvd"][1].is.root = IsoAt(w)
        BY <1>3 DEF RootSays
      <4>3. ~\A f \in Files : files[f].ce = "none"
        BY <1>8, <2>2
      <4>4. QED
        BY <4>1, <4>2, <4>3
    <3>2. recs = [f \in InTree(w, "iso") |-> RecOf(w, "iso", f)]
      BY <1>3 DEF RootSays
    <3> HIDE DEF recs
    <3>3. QED
      BY <2>2, <3>1, <3>2, CeRead
  <2>3. QED
    BY <2>1, <2>2 DEF PlacesRead
<1>17. BaseRead(w, b)
  BY <1>12, <1>13, <1>14, <1>15, <1>16 DEF BaseRead, RestRead
<1>18. QED
  BY <1>17 DEF b, files, h
LEMMA FilesReadOwn ==
  ASSUME NEW w, Own(w), NEW r, FilesRead(w, r), r.udf = w.udf, r.joliet = w.joliet, r.rr = w.rr, r.catalog = w.catalog
  PROVE  OwnFiles(r) /\ AlikeFiles(w, r) /\ SameData(w, r) /\ OneShared(r)
<1>1. OwnFiles(w)
  BY OwnHas
<1>2. /\ r.files = [f \in Files |-> r.files[f]]
      /\ \A f \in Files : FileRead(w, f, r.files[f])
      /\ r.boot = w.boot /\ r.shared = {f \in Files : r.files[f].in # {} /\ r.files[f].len = 0}
      /\ r.blocks = UsedBlocks(w) \cup (IF w.rr THEN {"er"} ELSE {})
  BY DEF FilesRead
<1>3. AlikeFiles(w, r) /\ SameData(w, r)
  BY <1>2 DEF AlikeFiles, SameData, FileRead
<1>4. \A f \in Files : r.files[f].in = w.files[f].in /\ r.files[f].len = w.files[f].len
  BY <1>2 DEF FileRead
<1>5. \A f, g \in Present(w) : w.files[f].len = 0 /\ w.files[g].len = 0 => f = g
  BY <1>1 DEF OwnFiles
<1>6. OneShared(r)
  BY <1>2, <1>4, <1>5 DEF OneShared, Present
<1>7. Present(r) = Present(w) /\ \A t : InTree(r, t) = InTree(w, t)
  BY <1>4 DEF Present, InTree
<1>8. UsedBlocks(r) = UsedBlocks(w)
  <2>1. \A f \in Files : r.files[f].ce = w.files[f].ce
    BY <1>2 DEF FileRead
  <2>2. InTree(w, "iso") \subseteq Files
    BY DEF InTree
  <2>3. QED
    BY <1>7, <2>1, <2>2 DEF UsedBlocks
<1>9. ASSUME NEW f \in Files PROVE OwnFile(r, f)
  <2>1. OwnFile(w, f) /\ FileRead(w, f, r.files[f]) /\ DataAtOf(w, f) \in Nat
    BY <1>1, <1>2, FilePlaces DEF OwnFiles
  <2>2. TreesOf(r) = TreesOf(w)
    BY DEF TreesOf
  <2>3. QED
    BY ONLY <2>1, <2>2, r.rr = w.rr DEF OwnFile, FileRead
<1>10. r.boot \subseteq {f \in InTree(r, "iso") : r.files[f].len > 0} /\ (r.boot # {} => r.catalog)
  <2>1. w.boot \subseteq {f \in InTree(w, "iso") : w.files[f].len > 0} /\ (w.boot # {} => w.catalog)
    BY <1>1 DEF OwnFiles
  <2>2. InTree(w, "iso") \subseteq Files
    BY DEF InTree
  <2>3. QED
    BY <1>2, <1>4, <1>7, <2>1, <2>2
<1>11. r.shared \subseteq {f \in Present(r) : r.files[f].len = 0}
  BY <1>2 DEF Present
<1>12. r.blocks \ {"er"} = UsedBlocks(r) /\ ("er" \in r.blocks => r.rr)
  <2>1. UsedBlocks(w) \in SUBSET {"own"}
    BY <1>1, OwnFilesHave
  <2>2. QED
    BY <1>2, <1>8, <2>1
<1>13. \A f, g \in Present(r) : r.files[f].len = 0 /\ r.files[g].len = 0 => f = g
  <2>1. Present(w) \subseteq Files
    BY DEF Present
  <2>2. QED
    BY <1>4, <1>5, <1>7, <2>1
<1>14. OwnFiles(r)
  BY <1>2, <1>9, <1>10, <1>11, <1>12, <1>13 DEF OwnFiles
<1>15. QED
  BY <1>3, <1>6, <1>14
LEMMA RestReadAlike ==
  ASSUME NEW w, Laid(w), NEW r, RestRead(w, r), r.udf = w.udf, Len(r.setEnd) = Len(w.setEnd)
  PROVE  Alike(w, r) /\ AlikePlaces(w, r)
<1>1. Own(w) /\ OwnFiles(w) /\ w.tables = 2 /\ w.jtables = (IF w.joliet THEN 2 ELSE 0)
  BY OwnHas DEF Laid
<1>2. /\ r.joliet = w.joliet /\ r.rr = w.rr /\ r.catalog = w.catalog
      /\ r.tables = 2 /\ r.jtables = (IF w.joliet THEN 2 ELSE 0)
      /\ r.head = HeadRead(w) /\ FilesRead(w, r)
  BY DEF RestRead
<1>3. AlikeFiles(w, r) /\ OneShared(r)
  BY <1>1, <1>2, FilesReadOwn
<1>4. \A k \in HeaderNames : Len(r.head[k]) = Len(w.head[k])
  BY <1>2, HeadReadOwn
<1>5. Alike(w, r)
  BY <1>1, <1>2, <1>3, <1>4 DEF Alike
<1>6. QED
  BY <1>1, <1>3, <1>5, AlikeSame
LEMMA RestReadOwn ==
  ASSUME NEW w, Laid(w), NEW r, RestRead(w, r), PlacesRead(w, r), r.udf = w.udf, Len(r.setEnd) = Len(w.setEnd),
         IF r.udf THEN OwnUdf(r) /\ UdfPlaced(r) ELSE NoUdf(r)
  PROVE  Laid(r) /\ Alike(w, r) /\ SameData(w, r)
<1>1. /\ Own(w) /\ Placed(w) /\ OwnFiles(w) /\ TreesAt(w) /\ w.tables = 2 /\ w.jtables = (IF w.joliet THEN 2 ELSE 0)
      /\ w.udf \in BOOLEAN /\ w.joliet \in BOOLEAN /\ w.rr \in BOOLEAN /\ w.catalog \in BOOLEAN
      /\ w.space = EndAt(w) + One(w.udf)
  BY OwnHas, LaidTreesAt DEF Laid
<1>2. /\ DOMAIN r = DOMAIN NoVolume
      /\ r.joliet = w.joliet /\ r.rr = w.rr /\ r.catalog = w.catalog /\ r.pending = FALSE
      /\ r.tables = 2 /\ r.jtables = (IF w.joliet THEN 2 ELSE 0) /\ r.space = w.space
      /\ r.head = HeadRead(w) /\ FilesRead(w, r)
  BY DEF RestRead
<1>3. OwnFiles(r) /\ AlikeFiles(w, r) /\ SameData(w, r) /\ OneShared(r)
  BY <1>1, <1>2, FilesReadOwn
<1>4. /\ OwnHead(r)
      /\ \A k \in HeaderNames : /\ Len(r.head[k]) = Len(w.head[k])
                                /\ \A i \in 1..Len(r.head[k]) : r.head[k][i].extent = HeaderAt(w, k) + i - 1
  BY <1>2, HeadReadOwn
<1>5. Alike(w, r)
  BY <1>1, <1>2, <1>3, <1>4 DEF Alike
<1>6. AlikePlaces(w, r)
  BY <1>1, <1>3, <1>5, AlikeSame
<1>7. /\ TreeStart(r) = TreeStart(w) /\ IsoAt(r) = IsoAt(w)
      /\ JolietAt(r) = JolietAt(w) /\ ErAt(r) = ErAt(w) /\ CatalogAt(r) = CatalogAt(w)
      /\ EndAt(r) = EndAt(w)
      /\ \A k \in HeaderNames : HeaderAt(r, k) = HeaderAt(w, k)
      /\ \A f \in Files : DataAtOf(r, f) = DataAtOf(w, f)
      /\ \A f \in InTree(w, "udf") : EntryAtOf(r, f) = EntryAtOf(w, f)
  BY <1>6 DEF AlikePlaces
<1>8. /\ Present(r) = Present(w) /\ \A u : InTree(r, u) = InTree(w, u)
      /\ UsedBlocks(r) = UsedBlocks(w)
  BY <1>1, <1>3, AlikeFilesSame
<1>9. Own(r)
  <2>1. r.space = EndAt(r) + One(r.udf)
    BY <1>1, <1>2, <1>7
  <2>2. {r.udf, r.joliet, r.rr, r.catalog, r.pending} \subseteq BOOLEAN
    BY <1>1, <1>2
  <2>3. DOMAIN r.at = DOMAIN NoPlaces
    BY DEF PlacesRead
  <2>4. r.jtables = IF r.joliet THEN 2 ELSE 0
    BY <1>2
  <2>5. IF r.udf THEN OwnUdf(r) ELSE NoUdf(r)
    OBVIOUS
  <2>6. QED
    BY ONLY <1>2, <1>3, <1>4, <2>1, <2>2, <2>3, <2>4, <2>5 DEF Own
<1>10. Placed(r)
  <2>1. \A k \in HeaderNames : \A i \in 1..Len(r.head[k]) : r.head[k][i].extent = HeaderAt(r, k) + i - 1
    BY <1>4, <1>7
  <2>2. r.udf => UdfPlaced(r)
    OBVIOUS
  <2>3. r.at.le = TreeStart(r) /\ r.at.be = TreeStart(r) + 2 /\ r.at.iso = IsoAt(r)
    BY <1>7 DEF PlacesRead
  <2>4. r.joliet => /\ r.at.jle = TreeStart(r) + 4 /\ r.at.jbe = TreeStart(r) + 6
                    /\ r.at.joliet = JolietAt(r)
    BY <1>2, <1>7 DEF PlacesRead
  <2>5. /\ r.rr => r.at.er = ErAt(r)
        /\ r.catalog => r.at.catalog = CatalogAt(r)
        /\ UsedBlocks(r) # {} => r.at.ce = IsoAt(r) + 1
    BY <1>2, <1>7, <1>8 DEF PlacesRead
  <2>6. \A f \in Files : FileRead(w, f, r.files[f])
    BY <1>2 DEF FilesRead
  <2>7. \A f \in Present(r) : r.files[f].ext = DataAtOf(r, f)
    BY <1>7, <2>6 DEF FileRead, Present
  <2>8. \A f \in InTree(r, "udf") : r.files[f].fe = EntryAtOf(r, f)
    <3>1. \A f \in InTree(w, "udf") : r.files[f].fe = w.files[f].fe
      BY <2>6 DEF FileRead, InTree
    <3>2. \A f \in InTree(w, "udf") : w.files[f].fe = EntryAtOf(w, f)
      BY <1>1 DEF Placed
    <3>3. QED
      BY <1>7, <1>8, <3>1, <3>2
  <2>9. QED
    BY ONLY <2>1, <2>2, <2>3, <2>4, <2>5, <2>7, <2>8 DEF Placed
<1>11. QED
  BY <1>3, <1>5, <1>9, <1>10 DEF Laid
\* What is read of the partition, and of the rest of the UDF part.
PartitionRead(img, b, p) ==
  /\ DOMAIN p = DOMAIN b
  /\ \A x \in DOMAIN b \ {"set", "setEnd", "at"} : p[x] = b[x]
  /\ p.set = <<ParseDesc(At0(img, PartStart).d, PartStart, 0)>>
  /\ p.setEnd = <<ParseDesc(At0(img, PartStart + 1).d, PartStart + 1, 1)>>
  /\ p.at = [b.at EXCEPT !.root = RootAt, !.idents = RootAt + 1,
                         !.catalogFe = IF b.catalog THEN RootAt + 2 ELSE 0]
LEMMA ReadPartitionIs ==
  ASSUME NEW img, NEW w, NEW t, Reads(img, w, t), w.udf, NEW b, DOMAIN b = DOMAIN NoVolume, b.catalog = w.catalog
  PROVE  PartitionRead(img, b, ReadPartition(img, b, PartStart))
<1> DEFINE p == ReadPartition(img, b, PartStart)
           root == PartStart + At0(img, PartStart).d.body.root.block
           idents == PartStart + At0(img, root).block
           fe == IF b.catalog THEN PartStart + At0(img, idents).catalog ELSE 0
           at == [b.at EXCEPT !.root = root, !.idents = idents, !.catalogFe = fe]
           set == ReadDescAt(img, PartStart, 0)
           setEnd == ReadSetEnd(img, PartStart)
<1>1. PartitionSays(img, w)
  BY PartitionIs
<1>2. root = RootAt /\ idents = RootAt + 1 /\ fe = IF b.catalog THEN RootAt + 2 ELSE 0
  <2>1. root = PartStart + 2
    BY <1>1 DEF PartitionSays
  <2>2. idents = PartStart + 3
    BY <1>1, <2>1 DEF PartitionSays
  <2>3. At0(img, PartStart + 3).catalog = IF w.catalog THEN 4 ELSE 0
    BY <1>1 DEF PartitionSays
  <2>4. fe = IF b.catalog THEN PartStart + (IF w.catalog THEN 4 ELSE 0) ELSE 0
    BY <2>2, <2>3
  <2>5. RootAt = 259 /\ PartStart = 257
    BY DEF RootAt, PartStart
  <2> HIDE DEF root, idents, fe
  <2>6. QED
    BY <2>1, <2>2, <2>4, <2>5
<1>3. set = <<ParseDesc(At0(img, PartStart).d, PartStart, 0)>>
  BY DEF ReadDescAt
<1>4. setEnd = <<ParseDesc(At0(img, PartStart + 1).d, PartStart + 1, 1)>>
  <2>1. PICK unique, files : UdfBlocks(img, w, unique, files)
    BY UdfBlocksAre
  <2>2. IsDesc(img, PartStart + 1) /\ At0(img, PartStart + 1).d.tag.ident = 8
    BY <2>1 DEF UdfBlocks, OwnBlock, DescBlock
  <2>3. QED
    BY <2>2 DEF ReadSetEnd, ReadDescAt
<1>5. p = [b EXCEPT !.set = set, !.setEnd = setEnd, !.at = at]
  BY DEF ReadPartition
<1>6. DOMAIN b = {"udf", "joliet", "rr", "head", "main", "reserve", "lvid", "lvidEnd", "anchors", "set", "setEnd",
                  "at", "tables", "jtables", "blocks", "files", "catalog", "boot", "shared", "space", "pending"}
  BY Fields
<1>7. at = [b.at EXCEPT !.root = RootAt, !.idents = RootAt + 1, !.catalogFe = IF b.catalog THEN RootAt + 2 ELSE 0]
  BY <1>2
<1> HIDE DEF p, root, idents, fe, at, set, setEnd
<1>8. DOMAIN p = DOMAIN b /\ \A x \in DOMAIN b \ {"set", "setEnd", "at"} : p[x] = b[x]
  BY ONLY <1>5
<1>9. p.set = set /\ p.setEnd = setEnd /\ p.at = at
  BY ONLY <1>5, <1>6
<1>10. PartitionRead(img, b, p)
  BY ONLY <1>3, <1>4, <1>7, <1>8, <1>9 DEF PartitionRead
<1>11. QED
  BY <1>10 DEF p
UdfRead(img, w, b, r) ==
  /\ DOMAIN r = DOMAIN b
  /\ \A x \in DOMAIN b \ {"set", "setEnd", "at", "udf", "anchors", "main", "reserve", "lvid", "lvidEnd"} : r[x] = b[x]
  /\ r.udf = TRUE /\ r.anchors = ReadAnchors(img, w.space) /\ r.main = ReadSequence(img, MainAd)
  /\ r.reserve = ReadSequence(img, ReserveAd)
  /\ r.set = <<ParseDesc(At0(img, PartStart).d, PartStart, 0)>>
  /\ r.setEnd = <<ParseDesc(At0(img, PartStart + 1).d, PartStart + 1, 1)>>
  /\ r.at = [b.at EXCEPT !.root = RootAt, !.idents = RootAt + 1,
                         !.catalogFe = IF b.catalog THEN RootAt + 2 ELSE 0]
  /\ r.lvid = <<ParseDesc(At0(img, 64).d, 64, 64)>> /\ r.lvidEnd = <<ParseDesc(At0(img, 65).d, 65, 65)>>
LEMMA ReadUdfIs ==
  ASSUME NEW img, NEW w, NEW t, Reads(img, w, t), w.udf, NEW b, BaseRead(w, b)
  PROVE  UdfRead(img, w, b, WithUdf(img, b))
<1> DEFINE anchors == ReadAnchors(img, w.space)
           main == ReadSequence(img, MainAd)
           reserve == ReadSequence(img, ReserveAd)
           p == ReadPartition(img, b, PartStart)
           lvid == <<ParseDesc(At0(img, 64).d, 64, 64)>>
           lvidEnd == <<ParseDesc(At0(img, 65).d, 65, 65)>>
           r == WithUdf(img, b)
<1>1. /\ DOMAIN b = DOMAIN NoVolume /\ b.catalog = w.catalog /\ b.space = w.space /\ b.head = HeadRead(w)
  BY DEF BaseRead, RestRead
<1>2. b.head["bea"] # <<>>
  <2>1. b.head["bea"] = HeaderRead(w)["bea"]
    <3> DEFINE h == HeaderRead(w)
    <3>1. DOMAIN h = HeaderNames
      BY DEF HeaderRead
    <3>2. b.head = [h EXCEPT !["version"] = <<[extent |-> HeaderAt(w, "version"), is |-> Zero]>>]
      BY <1>1 DEF HeadRead
    <3> HIDE DEF h
    <3>3. b.head["bea"] = h["bea"]
      BY <3>1, <3>2, KindsNamed
    <3>4. QED
      BY <3>3 DEF h
  <2>2. HeaderTells(w, HeaderRead(w))
    BY HeaderReadSays, HeaderReadTells DEF Reads, Laid
  <2>3. QED
    BY <2>1, <2>2 DEF HeaderTells
<1>3. PartitionRead(img, b, p)
  BY <1>1, ReadPartitionIs
<1>4. anchors[1].body.main = MainAd /\ anchors[1].body.reserve = ReserveAd
  BY UdfReads
<1>5. main[5][1].body.start = PartStart /\ main[6][1].body.integrity = ExtentAD(4096, 64)
  <2>1. SequenceAt(main, 32, EndAt(w) - PartStart)
    BY SequencesAre
  <2> HIDE DEF main
  <2>2. MainSays(main)
    BY <2>1, MainIs
  <2>3. QED
    BY <2>2 DEF MainSays
<1> HIDE DEF anchors, main, reserve, p, lvid, lvidEnd
<1>6. r = ReadUdf(img, b, anchors, main)
  <2>1. r = ReadUdf(img, b, anchors, ReadSequence(img, anchors[1].body.main))
    BY <1>1, <1>2 DEF WithUdf, anchors
  <2>2. QED
    BY <1>4, <2>1 DEF main
<1>7. r = [p EXCEPT
        !.udf = TRUE, !.anchors = anchors, !.main = main, !.reserve = reserve, !.lvid = lvid, !.lvidEnd = lvidEnd]
  <2> DEFINE integrity == main[6][1].body.integrity
             last == integrity.location + 1
  <2>1. integrity.length = 4096 /\ integrity.location = 64 /\ last = 65
    BY <1>5 DEF ExtentAD
  <2> DEFINE read == IF integrity.length = 0 THEN <<>>
                     ELSE ReadDescAt(img, integrity.location, integrity.location)
             readEnd == IF integrity.length < 4096 THEN <<>> ELSE ReadDescAt(img, last, last)
  <2>2. read = lvid /\ readEnd = lvidEnd
    <3>1. read = ReadDescAt(img, 64, 64)
      BY <2>1
    <3>2. readEnd = ReadDescAt(img, 65, 65)
      BY <2>1
    <3> HIDE DEF read, readEnd
    <3>3. QED
      BY <3>1, <3>2 DEF ReadDescAt, lvid, lvidEnd
  <2>3. r = [p EXCEPT
        !.udf = TRUE, !.anchors = anchors, !.main = main, !.reserve = reserve, !.lvid = read, !.lvidEnd = readEnd]
    <3>1. ReadSequence(img, anchors[1].body.reserve) = reserve
      BY <1>4 DEF reserve
    <3>2. ReadPartition(img, b, main[5][1].body.start) = p
      BY <1>5 DEF p
    <3>3. ReadUdf(img, b, anchors, main)
            = [ReadPartition(img, b, main[5][1].body.start) EXCEPT
                 !.udf = TRUE, !.anchors = anchors, !.main = main,
                 !.reserve = ReadSequence(img, anchors[1].body.reserve), !.lvid = read, !.lvidEnd = readEnd]
      BY DEF ReadUdf
    <3> HIDE DEF read, readEnd
    <3>4. QED
      BY ONLY <1>6, <3>1, <3>2, <3>3
  <2> HIDE DEF read, readEnd, r
  <2>4. QED
    BY ONLY <2>2, <2>3
<1> HIDE DEF r
<1>8. DOMAIN b = {"udf", "joliet", "rr", "head", "main", "reserve", "lvid", "lvidEnd", "anchors", "set", "setEnd",
                  "at", "tables", "jtables", "blocks", "files", "catalog", "boot", "shared", "space", "pending"}
  BY <1>1, Fields
<1>9. DOMAIN p = DOMAIN b /\ \A x \in DOMAIN b \ {"set", "setEnd", "at"} : p[x] = b[x]
  BY ONLY <1>3 DEF PartitionRead
<1>10. DOMAIN r = DOMAIN p /\ \A x \in DOMAIN p \ {"udf", "anchors", "main", "reserve", "lvid", "lvidEnd"} : r[x] = p[x]
  BY ONLY <1>7
<1>11. /\ r.udf = TRUE /\ r.anchors = anchors /\ r.main = main /\ r.reserve = reserve
       /\ r.lvid = lvid /\ r.lvidEnd = lvidEnd
  BY ONLY <1>7, <1>8, <1>9
<1>12. r.set = p.set /\ r.setEnd = p.setEnd /\ r.at = p.at
  BY ONLY <1>8, <1>9, <1>10
<1>13. \A x \in DOMAIN b \ {"set", "setEnd", "at", "udf", "anchors", "main", "reserve", "lvid", "lvidEnd"} : r[x] = b[x]
  BY ONLY <1>9, <1>10
<1>14. UdfRead(img, w, b, r)
  BY ONLY <1>3, <1>9, <1>10, <1>11, <1>12, <1>13 DEF PartitionRead, UdfRead, anchors, main, reserve, lvid, lvidEnd
<1>15. QED
  BY <1>14 DEF r
LEMMA UdfReadOwn ==
  ASSUME NEW img, NEW w, NEW t, Reads(img, w, t), w.udf, NEW b, BaseRead(w, b), NEW r, UdfRead(img, w, b, r)
  PROVE  /\ RestRead(w, r) /\ PlacesRead(w, r) /\ r.udf = w.udf /\ Len(r.setEnd) = Len(w.setEnd)
         /\ OwnUdf(r) /\ UdfPlaced(r)
<1>1. Laid(w) /\ Own(w) /\ OwnUdf(w)
  BY OwnHas DEF Reads, Laid
<1>2. /\ RestRead(w, b) /\ PlacesRead(w, b) /\ DOMAIN b = DOMAIN NoVolume
  BY DEF BaseRead, RestRead
<1>3. DOMAIN b = {"udf", "joliet", "rr", "head", "main", "reserve", "lvid", "lvidEnd", "anchors", "set", "setEnd",
                  "at", "tables", "jtables", "blocks", "files", "catalog", "boot", "shared", "space", "pending"}
  BY <1>2, Fields
<1>4. DOMAIN r = DOMAIN b
      /\ \A x \in DOMAIN b \ {"set", "setEnd", "at", "udf", "anchors", "main", "reserve", "lvid", "lvidEnd"} : r[x] = b[x]
  BY DEF UdfRead
<1>5. /\ r.joliet = b.joliet /\ r.rr = b.rr /\ r.catalog = b.catalog /\ r.pending = b.pending
      /\ r.tables = b.tables /\ r.jtables = b.jtables /\ r.space = b.space /\ r.head = b.head
      /\ r.files = b.files /\ r.boot = b.boot /\ r.shared = b.shared /\ r.blocks = b.blocks
  BY ONLY <1>3, <1>4
<1>6. RestRead(w, r)
  <2>1. FilesRead(w, r)
    BY <1>2, <1>5 DEF RestRead, FilesRead
  <2>2. QED
    BY <1>2, <1>4, <1>5, <2>1 DEF RestRead
<1>7. r.udf = w.udf
  <2>1. r.udf = TRUE
    BY DEF UdfRead
  <2>2. w.udf = TRUE
    BY <1>1, OwnHas
  <2>3. QED
    BY <2>1, <2>2
<1>8. r.at = [b.at EXCEPT !.root = RootAt, !.idents = RootAt + 1,
                         !.catalogFe = IF b.catalog THEN RootAt + 2 ELSE 0]
  BY DEF UdfRead
<1>9. DOMAIN b.at = {"le", "be", "jle", "jbe", "iso", "joliet", "er", "ce", "root", "idents", "catalog", "catalogFe"}
  BY <1>2 DEF PlacesRead, NoPlaces
<1>10. /\ DOMAIN r.at = DOMAIN b.at /\ r.at.le = b.at.le /\ r.at.be = b.at.be /\ r.at.iso = b.at.iso /\ r.at.jle = b.at.jle
       /\ r.at.jbe = b.at.jbe /\ r.at.joliet = b.at.joliet /\ r.at.er = b.at.er /\ r.at.catalog = b.at.catalog
       /\ r.at.ce = b.at.ce /\ r.at.root = RootAt /\ r.at.idents = RootAt + 1
       /\ r.at.catalogFe = IF b.catalog THEN RootAt + 2 ELSE 0
  <2> DEFINE at == b.at
             fe == IF b.catalog THEN RootAt + 2 ELSE 0
             root == RootAt
             idents == RootAt + 1
  <2>1. r.at = [at EXCEPT !.root = root, !.idents = idents, !.catalogFe = fe]
    BY <1>8
  <2>2. DOMAIN at = {"le", "be", "jle", "jbe", "iso", "joliet", "er", "ce", "root", "idents", "catalog", "catalogFe"}
    BY <1>9
  <2> HIDE DEF at, fe, root, idents
  <2>3. /\ DOMAIN r.at = DOMAIN at /\ r.at.le = at.le /\ r.at.be = at.be /\ r.at.iso = at.iso /\ r.at.jle = at.jle
        /\ r.at.jbe = at.jbe /\ r.at.joliet = at.joliet /\ r.at.er = at.er /\ r.at.catalog = at.catalog
        /\ r.at.ce = at.ce /\ r.at.root = root /\ r.at.idents = idents /\ r.at.catalogFe = fe
    BY ONLY <2>1, <2>2
  <2>4. QED
    BY <2>3 DEF at, fe, root, idents
<1>11. PlacesRead(w, r)
  BY ONLY <1>2, <1>10 DEF PlacesRead
<1>12. PICK unique, files : UdfBlocks(img, w, unique, files)
  BY UdfBlocksAre
<1> DEFINE lvid == ParseDesc(At0(img, 64).d, 64, 64)
           lvidEnd == ParseDesc(At0(img, 65).d, 65, 65)
           set == ParseDesc(At0(img, PartStart).d, PartStart, 0)
           setEnd == ParseDesc(At0(img, PartStart + 1).d, PartStart + 1, 1)
<1>13. /\ r.lvid = <<lvid>> /\ r.lvidEnd = <<lvidEnd>> /\ r.set = <<set>> /\ r.setEnd = <<setEnd>>
       /\ r.anchors = ReadAnchors(img, w.space) /\ r.main = ReadSequence(img, MainAd)
       /\ r.reserve = ReadSequence(img, ReserveAd)
  BY DEF UdfRead
<1>14. /\ OwnDesc(lvid, 9, Integrity(unique, EndAt(w) - PartStart, files)) /\ PlacedAt(lvid, 64, 64)
       /\ OwnDesc(lvidEnd, 8, NewTerminator) /\ PlacedAt(lvidEnd, 65, 65)
       /\ OwnDesc(set, 256, NewFileSet) /\ PlacedAt(set, PartStart, 0)
       /\ OwnDesc(setEnd, 8, NewTerminator) /\ PlacedAt(setEnd, PartStart + 1, 1)
  <2>1. /\ DescBlock(At0(img, 64).d, 9, Integrity(unique, EndAt(w) - PartStart, files))
        /\ DescBlock(At0(img, 65).d, 8, NewTerminator)
        /\ DescBlock(At0(img, PartStart).d, 256, NewFileSet)
        /\ DescBlock(At0(img, PartStart + 1).d, 8, NewTerminator)
    BY <1>12 DEF UdfBlocks, OwnBlock
  <2>2. PartStart \in Int /\ PartStart + 1 \in Int /\ 64 \in Int /\ 65 \in Int /\ 0 \in Int /\ 1 \in Int
    BY DEF PartStart
  <2>3. OwnDesc(lvid, 9, Integrity(unique, EndAt(w) - PartStart, files)) /\ PlacedAt(lvid, 64, 64)
    BY ONLY <2>1, <2>2 DEF DescBlock
  <2>4. OwnDesc(lvidEnd, 8, NewTerminator) /\ PlacedAt(lvidEnd, 65, 65)
    BY ONLY <2>1, <2>2 DEF DescBlock
  <2>5. OwnDesc(set, 256, NewFileSet) /\ PlacedAt(set, PartStart, 0)
    BY ONLY <2>1, <2>2 DEF DescBlock
  <2>6. OwnDesc(setEnd, 8, NewTerminator) /\ PlacedAt(setEnd, PartStart + 1, 1)
    BY ONLY <2>1, <2>2 DEF DescBlock
  <2>7. QED
    BY <2>3, <2>4, <2>5, <2>6
<1> HIDE DEF lvid, lvidEnd, set, setEnd
<1>15. /\ r.lvid = <<r.lvid[1]>> /\ r.lvidEnd = <<r.lvidEnd[1]>> /\ r.set = <<r.set[1]>> /\ r.setEnd = <<r.setEnd[1]>>
       /\ r.lvid[1] = lvid /\ r.lvidEnd[1] = lvidEnd /\ r.set[1] = set /\ r.setEnd[1] = setEnd
  BY <1>13
<1>16. Len(r.setEnd) = 1 /\ Len(w.setEnd) = 1
  <2>1. w.setEnd = <<w.setEnd[1]>>
    BY <1>1 DEF OwnUdf
  <2>2. QED
    BY <1>15, <2>1, Single
<1>17. EndAt(r) = EndAt(w)
  BY <1>1, <1>6, <1>7, <1>16, RestReadAlike DEF AlikePlaces
<1>18. /\ SequenceAt(r.main, 32, EndAt(r) - PartStart) /\ SequenceAt(r.reserve, 48, EndAt(r) - PartStart)
  BY <1>13, <1>17, SequencesAre
<1>19. AnchorsRead(w, r.anchors)
  BY <1>13, AnchorsAre
<1>20. OwnUdf(r)
  <2>1. \E start, integrity \in Int :
          \A s \in {r.main, r.reserve} : OwnSequence(s, start, EndAt(r) - PartStart, integrity)
    <3>1. \A s \in {r.main, r.reserve} : OwnSequence(s, PartStart, EndAt(r) - PartStart, 64)
      BY <1>18 DEF SequenceAt
    <3>2. PartStart \in Int /\ 64 \in Int
      BY DEF PartStart
    <3>3. QED
      BY <3>1, <3>2
  <2>2. \E u, n \in Int : OwnDesc(r.lvid[1], 9, Integrity(u, EndAt(r) - PartStart, n))
    <3>1. unique \in Int /\ files \in Int
      BY <1>12 DEF UdfBlocks
    <3>2. OwnDesc(r.lvid[1], 9, Integrity(unique, EndAt(r) - PartStart, files))
      BY <1>14, <1>15, <1>17
    <3>3. QED
      BY <3>1, <3>2
  <2>3. /\ r.anchors = <<r.anchors[1], r.anchors[2]>>
        /\ \A i \in 1..2 : \E main, reserve \in Int : OwnDesc(r.anchors[i], 2, Anchor(main, reserve))
    <3>1. \A i \in 1..2 : OwnDesc(r.anchors[i], 2, Anchor(32, 48))
      BY <1>19 DEF AnchorsRead
    <3>2. \A i \in 1..2 : \E main, reserve \in Int : OwnDesc(r.anchors[i], 2, Anchor(main, reserve))
      BY <3>1, 32 \in Int, 48 \in Int
    <3>3. QED
      BY <1>19, <3>2 DEF AnchorsRead
  <2>4. OwnDesc(r.set[1], 256, NewFileSet) /\ r.set[1].tag.loc = 0 /\ OwnDesc(r.setEnd[1], 8, NewTerminator)
        /\ OwnDesc(r.lvidEnd[1], 8, NewTerminator)
    BY <1>14, <1>15 DEF PlacedAt
  <2>5. QED
    BY ONLY <1>15, <2>1, <2>2, <2>3, <2>4 DEF OwnUdf
<1>21. UdfPlaced(r)
  <2>1. SequenceIs(r.main, 32, r) /\ SequenceIs(r.reserve, 48, r)
    BY <1>18 DEF SequenceIs, SequenceAt
  <2>2. /\ PlacedAt(r.lvid[1], 64, 64) /\ PlacedAt(r.lvidEnd[1], 65, 65)
        /\ PlacedAt(r.set[1], PartStart, 0) /\ PlacedAt(r.setEnd[1], PartStart + 1, 1)
    BY <1>14, <1>15
  <2>3. /\ PlacedAt(r.anchors[1], 256, 256) /\ PlacedAt(r.anchors[2], EndAt(r), EndAt(r))
    BY <1>17, <1>19 DEF AnchorsRead
  <2>4. r.anchors[1].body = Anchor(32, 48) /\ r.anchors[2].body = Anchor(32, 48)
    <3>1. \A i \in 1..2 : OwnDesc(r.anchors[i], 2, Anchor(32, 48))
      BY <1>19 DEF AnchorsRead
    <3>2. \A i \in 1..2 : r.anchors[i].body = Anchor(32, 48)
      BY ONLY <3>1, OwnMade
    <3>3. QED
      BY ONLY <3>2
  <2>5. r.at.root = RootAt /\ r.at.idents = RootAt + 1 /\ (r.catalog => r.at.catalogFe = RootAt + 2)
    BY ONLY <1>5, <1>10
  <2>6. QED
    BY ONLY <2>1, <2>2, <2>3, <2>4, <2>5 DEF UdfPlaced
<1>22. QED
  BY <1>6, <1>7, <1>11, <1>16, <1>20, <1>21
\* A volume that is read is the volume that was written, where it was.
LEMMA ReadIs ==
  ASSUME NEW img, NEW w, NEW t, Reads(img, w, t)
  PROVE  Laid(Read(img)) /\ Alike(w, Read(img)) /\ SameData(w, Read(img)) /\ Read(img).pending = FALSE
<1> DEFINE h == HeaderRead(w)
           b == ReadVolume(img, h, FilesAsRead(img, h))
           r == WithUdf(img, b)
<1>1. Read(img) = r
  <2>1. ReadHeader(img) = h
    BY ReadHeaderIs
  <2>2. QED
    BY <2>1 DEF Read, ReadFrom, FilesAsRead
<1>2. BaseRead(w, b)
  BY BaseReadIs
<1>3. Laid(w) /\ w.udf \in BOOLEAN
  BY OwnHas DEF Reads, Laid
<1> HIDE DEF b
<1>4. CASE w.udf
  <2>1. UdfRead(img, w, b, r)
    BY <1>2, <1>4, ReadUdfIs
  <2> HIDE DEF r
  <2>2. /\ RestRead(w, r) /\ PlacesRead(w, r) /\ r.udf = w.udf /\ Len(r.setEnd) = Len(w.setEnd)
        /\ OwnUdf(r) /\ UdfPlaced(r)
    BY <1>2, <1>4, <2>1, UdfReadOwn
  <2>3. Laid(r) /\ Alike(w, r) /\ SameData(w, r)
    BY <1>3, <1>4, <2>2, RestReadOwn
  <2>4. r.pending = FALSE
    BY <2>2 DEF RestRead
  <2>5. QED
    BY <1>1, <2>3, <2>4
<1>5. CASE ~w.udf
  <2>1. b.head["bea"] = <<>>
    <3>1. h["bea"] = <<>>
      <4>1. HeaderTells(w, h)
        BY <1>3, HeaderReadSays, HeaderReadTells DEF Laid
      <4>2. QED
        BY <1>5, <4>1 DEF HeaderTells
    <3>2. DOMAIN h = HeaderNames
      BY DEF HeaderRead
    <3>3. b.head = [h EXCEPT !["version"] = <<[extent |-> HeaderAt(w, "version"), is |-> Zero]>>]
      BY <1>2 DEF BaseRead, RestRead, HeadRead
    <3> HIDE DEF h
    <3>4. QED
      BY <3>1, <3>2, <3>3, KindsNamed
  <2>2. r = b
    BY <2>1 DEF WithUdf
  <2>3. RestRead(w, b) /\ PlacesRead(w, b) /\ b.udf = FALSE /\ NoUdf(b)
    BY <1>2 DEF BaseRead
  <2>4. b.udf = w.udf /\ Len(b.setEnd) = Len(w.setEnd)
    <3>1. NoUdf(w)
      BY <1>3, <1>5, OwnHas DEF Laid
    <3>2. QED
      BY <1>3, <1>5, <2>3, <3>1 DEF NoUdf
  <2>5. Laid(b) /\ Alike(w, b) /\ SameData(w, b)
    BY <1>3, <1>5, <2>3, <2>4, RestReadOwn
  <2>6. b.pending = FALSE
    BY <2>3 DEF RestRead
  <2>7. QED
    BY <1>1, <2>2, <2>5, <2>6
<1>6. QED
  BY <1>3, <1>4, <1>5
-----------------------------------------------------------------------------
(* The invariant, and what it promises.                                     *)

\* A closed object asks for nothing; a file has all that a volume with what it
\* is to hold would be written as; an object that is as it was read holds just
\* that, at the same blocks.
HoldsKept == holds = [f \in Files |-> holds[f]]
Asked(t) == \A f \in Files : DOMAIN t[f] = {"in", "len", "ver"}
AskedKept == Asked(truth) /\ Asked(holds)
ClosedKept == vol = NoVolume => truth = [f \in Files |-> Nothing]
ImageKept == image # NoImage => \E w : Reads(image, w, holds)
AsRead(w) == Reads(image, w, holds) /\ Alike(w, vol) /\ SameData(w, vol)
AttachedKept ==
  attached => /\ vol # NoVolume /\ vol.pending = FALSE /\ holds = truth /\ image # NoImage
              /\ \E w : AsRead(w)
IInv ==
  /\ Kept /\ TruthKept /\ HoldsKept /\ AskedKept /\ ClosedKept /\ ImageKept /\ AttachedKept
  /\ source = NoImage /\ calls \in 0..MaxCalls /\ attached \in BOOLEAN /\ raised \in {"none", "invalid"}

LEMMA TypeHolds ==
  ASSUME IInv
  PROVE  TypeOK
<1>1. Kept /\ calls \in 0..MaxCalls /\ attached \in BOOLEAN /\ raised \in {"none", "invalid"}
  BY DEF IInv
<1>2. CASE vol = NoVolume
  <2>1. \A f \in Files : vol.files[f] = NoFile
    BY <1>2 DEF NoVolume
  <2>2. NoFile.in = {} /\ NoFile.len = 0 /\ NoFile.data = <<>>
    BY DEF NoFile
  <2>3. \A f \in Files : vol.files[f].in \subseteq TreesOf(vol) /\ Len(vol.files[f].data) = vol.files[f].len
    BY <2>1, <2>2
  <2>4. vol.space = 0 /\ vol.boot = {} /\ vol.blocks = {}
    BY <1>2 DEF NoVolume
  <2>5. QED
    BY <1>1, <1>2, <2>3, <2>4 DEF TypeOK
<1>3. CASE vol # NoVolume
  <2>1. Own(vol)
    BY <1>1, <1>3 DEF Kept
  <2>2. /\ DOMAIN vol = DOMAIN NoVolume /\ OwnFiles(vol) /\ vol.udf \in BOOLEAN
        /\ vol.space = EndAt(vol) + One(vol.udf) /\ EndAt(vol) \in Nat
    BY <2>1, OwnHas, OwnPlaces DEF Places
  <2>3. vol.space \in Nat
    BY <2>2 DEF One
  <2>4. vol.boot \subseteq Present(vol) /\ vol.blocks \subseteq {"er", "own"}
    <3>1. vol.boot \in SUBSET Stored(vol) /\ Stored(vol) \in SUBSET Present(vol) /\ UsedBlocks(vol) \in SUBSET {"own"}
      BY <2>2, OwnFilesHave
    <3>2. vol.blocks \ {"er"} = UsedBlocks(vol)
      BY <2>2 DEF OwnFiles
    <3>3. QED
      BY <3>1, <3>2
  <2>5. ASSUME NEW f \in Files
        PROVE  vol.files[f].in \subseteq TreesOf(vol) /\ Len(vol.files[f].data) = vol.files[f].len
    <3>1. OwnFile(vol, f)
      BY <2>2 DEF OwnFiles
    <3>2. /\ vol.files[f].in \subseteq TreesOf(vol) /\ vol.files[f].len \in Nat
          /\ vol.files[f].data = [i \in 1..vol.files[f].len |-> vol.files[f].data[i]]
      BY <3>1 DEF OwnFile
    <3>3. QED
      BY <3>2
  <2>6. QED
    BY <1>1, <2>2, <2>3, <2>4, <2>5 DEF TypeOK
<1>4. QED
  BY <1>2, <1>3
LEMMA SpaceHolds ==
  ASSUME IInv
  PROVE  SpaceExact
<1> SUFFICES ASSUME vol # NoVolume
             PROVE  EndsAt(LaidOut(vol).end) /\ PutApart(AllPuts(LaidOut(vol).vol))
  BY DEF SpaceExact
<1>1. Own(vol)
  BY DEF IInv, Kept
<1>2. LaidOut(vol).end = EndAt(vol) /\ Laid(LaidOut(vol).vol)
  BY <1>1, LaidOutLaid DEF WalkKeeps, Laid
<1>3. PutApart(AllPuts(LaidOut(vol).vol))
  BY <1>2, AllPutsAre, PutsApart
<1>4. vol.space = EndAt(vol) + (IF vol.udf THEN 1 ELSE 0)
  BY <1>1, OwnHas DEF One
<1>5. ASSUME vol.udf
      PROVE  /\ \A s \in {vol.main, vol.reserve} : s[5][1].body.length = EndAt(vol) - PartStart
             /\ vol.lvid[1].body.sizes[1] = EndAt(vol) - PartStart
  <2> DEFINE length == EndAt(vol) - PartStart
  <2>1. OwnUdf(vol)
    BY <1>1, <1>5, OwnHas
  <2>2. PICK start, integrity \in Int :
          \A s \in {vol.main, vol.reserve} : OwnSequence(s, start, length, integrity)
    BY <2>1 DEF OwnUdf
  <2>3. PICK unique, files \in Int : OwnDesc(vol.lvid[1], 9, Integrity(unique, length, files))
    BY <2>1 DEF OwnUdf
  <2> HIDE DEF length
  <2>4. ASSUME NEW s \in {vol.main, vol.reserve} PROVE s[5][1].body.length = length
    <3>1. OwnDesc(s[5][1], 5, OwnBody(5, start, length, integrity))
      BY <2>2, OwnSequenceLens DEF Singles
    <3>2. s[5][1].body = OwnBody(5, start, length, integrity)
      BY <3>1, OwnMade
    <3>3. OwnBody(5, start, length, integrity) = [NewPartition EXCEPT !.start = start, !.length = length]
      BY DEF OwnBody
    <3>4. [NewPartition EXCEPT !.start = start, !.length = length].length = length
      BY DEF NewPartition
    <3>5. QED
      BY <3>2, <3>3, <3>4
  <2>5. vol.lvid[1].body.sizes[1] = length
    <3>1. vol.lvid[1].body = Integrity(unique, length, files)
      BY <2>3, OwnMade
    <3>2. Integrity(unique, length, files).sizes = <<length>>
      BY DEF Integrity, NewIntegrity
    <3>3. QED
      BY <3>1, <3>2
  <2>6. QED
    BY <2>4, <2>5 DEF length
<1>6. QED
  BY <1>2, <1>3, <1>4, <1>5 DEF EndsAt
LEMMA OpensHolds ==
  ASSUME IInv
  PROVE  WrittenOpens
<1>1. image # NoImage => Opens(image)
  BY ReadsOpen DEF IInv, ImageKept
<1>2. QED
  BY <1>1 DEF IInv, WrittenOpens
LEMMA IntactHolds ==
  ASSUME IInv
  PROVE  FilesIntact
<1> SUFFICES ASSUME image # NoImage, NEW t \in Trees, NEW f \in Files
             PROVE  /\ f \in DOMAIN RecordsIn(image, t) <=> t \in holds[f].in
                    /\ f \in DOMAIN RecordsIn(image, t) =>
                         /\ Contents(image, RecordsIn(image, t)[f]) = [i \in 1..holds[f].len |-> Data(f, holds[f].ver, i)]
                         /\ RecordsIn(image, t)[f].bytes = Bytes(holds[f].len, holds[f].ver)
  BY DEF FilesIntact
<1>1. PICK w : Reads(image, w, holds)
  BY DEF IInv, ImageKept
<1> DEFINE recs == RecordsIn(image, t)
<1>2. recs = TreeRecords(image, HeaderRead(w), t)
  BY <1>1, ReadHeaderIs DEF RecordsIn
<1>3. RecordsOf(w, t, recs)
  BY <1>1, <1>2, TreeRecordsAre
<1> HIDE DEF recs
<1>4. /\ w.files[f].in = holds[f].in /\ w.files[f].len = holds[f].len
      /\ w.files[f].data = [i \in 1..holds[f].len |-> Data(f, holds[f].ver, i)]
      /\ w.files[f].bytes = [u \in holds[f].in |-> Bytes(holds[f].len, holds[f].ver)]
  BY <1>1 DEF Reads, Says
<1>5. f \in DOMAIN recs <=> t \in holds[f].in
  BY <1>3, <1>4 DEF RecordsOf, InTree
<1>6. ASSUME f \in DOMAIN recs
      PROVE  /\ Contents(image, recs[f]) = [i \in 1..holds[f].len |-> Data(f, holds[f].ver, i)]
             /\ recs[f].bytes = Bytes(holds[f].len, holds[f].ver)
  <2>1. f \in InTree(w, t)
    BY <1>3, <1>6 DEF RecordsOf
  <2>2. f \in Present(w)
    BY <2>1 DEF InTree, Present
  <2>3. recs[f].ext = DataAtOf(w, f) /\ recs[f].len = w.files[f].len /\ recs[f].bytes = w.files[f].bytes[t]
    BY <1>3, <2>1 DEF RecordsOf
  <2>4. Contents(image, recs[f]) = w.files[f].data
    BY <1>1, <2>2, <2>3, ContentsAre
  <2>5. recs[f].bytes = Bytes(holds[f].len, holds[f].ver)
    BY <1>4, <1>5, <1>6, <2>3
  <2>6. QED
    BY <1>4, <2>4, <2>5
<1>7. QED
  BY <1>5, <1>6 DEF recs
-----------------------------------------------------------------------------
(* The calls.                                                               *)

LEMMA OwnNot ==
  ASSUME NEW v, Own(v)
  PROVE  v # NoVolume
<1>1. v.tables = 2
  BY OwnHas
<1>2. NoVolume.tables = 0
  BY DEF NoVolume
<1>3. QED
  BY <1>1, <1>2
LEMMA NothingAsked == Asked([f \in Files |-> Nothing])
BY DEF Asked, Nothing
LEMMA Starts ==
  ASSUME Init
  PROVE  IInv
<1>1. MaxCalls \in Nat
  BY ConstantsAssumption DEF ConstantsAssumption
<1>2. calls \in 0..MaxCalls
  BY <1>1 DEF Init
<1>3. Kept /\ ClosedKept /\ ImageKept /\ AttachedKept
  BY DEF Init, Kept, ClosedKept, ImageKept, AttachedKept
<1>4. TruthKept /\ HoldsKept /\ AskedKept
  BY NothingAsked DEF Init, TruthKept, HoldsKept, AskedKept
<1>5. QED
  BY <1>2, <1>3, <1>4 DEF Init, IInv
\* What a change leaves.
LEMMA ChangeKeeps ==
  ASSUME IInv, NEW v, NEW t, ChangedTo(v, t), Change(v, t), t = [f \in Files |-> t[f]], Asked(t)
  PROVE  IInv'
<1>1. Own(v) /\ v.pending = TRUE /\ Says(v, t) /\ v # NoVolume
  BY OwnNot DEF ChangedTo
<1>2. /\ calls < MaxCalls /\ calls' = calls + 1 /\ vol' = v /\ truth' = t /\ attached' = FALSE /\ raised' = "none"
      /\ image' = image /\ holds' = holds /\ source' = source
  BY DEF Change
<1>3. Kept'
  BY <1>1, <1>2 DEF Kept
<1>4. TruthKept' /\ HoldsKept' /\ AskedKept'
  BY <1>2 DEF TruthKept, HoldsKept, AskedKept, IInv
<1>5. ClosedKept' /\ AttachedKept'
  BY <1>1, <1>2 DEF ClosedKept, AttachedKept
<1>6. ImageKept'
  BY <1>2 DEF ImageKept, IInv
<1>7. calls' \in 0..MaxCalls
  <2>1. MaxCalls \in Nat /\ calls \in 0..MaxCalls
    BY ConstantsAssumption DEF IInv, ConstantsAssumption
  <2>2. QED
    BY <1>2, <2>1
<1>8. QED
  BY <1>2, <1>3, <1>4, <1>5, <1>6, <1>7 DEF IInv
LEMMA ChangesKeep ==
  ASSUME Faults = {}, IInv,
         \/ \E f \in Files, len \in Lengths, in \in Placements, long \in BOOLEAN : AddFile(f, len, in, long)
         \/ \E f \in Files : RmFile(f) \/ AddElTorito(f)
         \/ RmElTorito \/ DuplicatePvd
  PROVE  IInv'
<1>1. Kept /\ TruthKept /\ Asked(truth)
  BY DEF IInv, AskedKept
<1>2. ASSUME NEW f \in Files, NEW len \in Lengths, NEW in \in Placements, NEW long \in BOOLEAN, AddFile(f, len, in, long)
      PROVE  IInv'
  <2>1. PICK v, t : ChangedTo(v, t) /\ Change(v, t) /\ t = [truth EXCEPT ![f] = [in |-> in, len |-> len, ver |-> calls + 1]]
    BY <1>1, <1>2, AddFileChanges
  <2> DEFINE x == [in |-> in, len |-> len, ver |-> calls + 1]
  <2>2. t = [truth EXCEPT ![f] = x] /\ DOMAIN x = {"in", "len", "ver"}
    BY <2>1 DEF Nothing
  <2> HIDE DEF x
  <2>3. t = [g \in Files |-> t[g]]
    <3>1. truth = [g \in Files |-> truth[g]]
      BY <1>1 DEF TruthKept
    <3>2. QED
      BY ONLY <2>2, <3>1
  <2>4. Asked(t)
    BY <1>1, <2>2 DEF Asked, TruthKept
  <2>5. QED
    BY <2>1, <2>3, <2>4, ChangeKeeps
<1>3. ASSUME NEW f \in Files, RmFile(f) PROVE IInv'
  <2>1. PICK v, t : ChangedTo(v, t) /\ Change(v, t) /\ t = [truth EXCEPT ![f] = Nothing]
    BY <1>1, <1>3, RmFileChanges
  <2> DEFINE x == Nothing
  <2>2. t = [truth EXCEPT ![f] = x] /\ DOMAIN x = {"in", "len", "ver"}
    BY <2>1 DEF Nothing
  <2> HIDE DEF x
  <2>3. t = [g \in Files |-> t[g]]
    <3>1. truth = [g \in Files |-> truth[g]]
      BY <1>1 DEF TruthKept
    <3>2. QED
      BY ONLY <2>2, <3>1
  <2>4. Asked(t)
    BY <1>1, <2>2 DEF Asked, TruthKept
  <2>5. QED
    BY <2>1, <2>3, <2>4, ChangeKeeps
<1>4. ASSUME NEW v, ChangedTo(v, truth), Change(v, truth) PROVE IInv'
  <2>1. truth = [g \in Files |-> truth[g]]
    BY <1>1 DEF TruthKept
  <2>2. QED
    BY <1>1, <1>4, <2>1, ChangeKeeps
<1>5. ASSUME NEW f \in Files, AddElTorito(f) PROVE IInv'
  BY <1>1, <1>4, <1>5, AddElToritoChanges
<1>6. ASSUME RmElTorito PROVE IInv'
  BY <1>1, <1>4, <1>6, RmElToritoChanges
<1>7. ASSUME DuplicatePvd PROVE IInv'
  BY <1>1, <1>4, <1>7, DuplicatePvdChanges
<1>8. QED
  BY <1>2, <1>3, <1>5, <1>6, <1>7
LEMMA NewKeeps ==
  ASSUME IInv, NEW k \in Kinds, New(k.udf, k.joliet, k.rr)
  PROVE  IInv'
<1>1. k.udf \in BOOLEAN /\ k.joliet \in BOOLEAN /\ k.rr \in BOOLEAN
  BY ConstantsAssumption DEF ConstantsAssumption
<1> DEFINE v == NewVolume(k.udf, k.joliet, k.rr)
<1>2. /\ vol = NoVolume /\ vol' = v /\ raised' = "none" /\ truth' = truth /\ image' = image /\ holds' = holds
      /\ source' = source /\ attached' = attached /\ calls' = calls
  BY DEF New
<1>3. ChangedTo(v, [f \in Files |-> Nothing])
  BY <1>1, NewVolumeOwn
<1> HIDE DEF v
<1>4. truth = [f \in Files |-> Nothing]
  BY <1>2 DEF IInv, ClosedKept
<1>5. Own(v) /\ v.pending = TRUE /\ Says(v, truth) /\ v # NoVolume
  BY <1>3, <1>4, OwnNot DEF ChangedTo
<1>6. Kept' /\ ClosedKept'
  BY <1>2, <1>5 DEF Kept, ClosedKept
<1>7. TruthKept' /\ HoldsKept' /\ AskedKept' /\ ImageKept'
  BY <1>2 DEF TruthKept, HoldsKept, AskedKept, ImageKept, IInv
<1>8. AttachedKept'
  BY <1>2 DEF AttachedKept, IInv
<1>9. QED
  BY <1>2, <1>6, <1>7, <1>8 DEF IInv
LEMMA CloseKeeps ==
  ASSUME IInv, Close
  PROVE  IInv'
<1>1. /\ vol' = NoVolume /\ truth' = [f \in Files |-> Nothing] /\ attached' = FALSE /\ raised' = "none"
      /\ image' = image /\ holds' = holds /\ source' = source /\ calls' = calls
  BY DEF Close
<1>2. Kept' /\ ClosedKept' /\ AttachedKept'
  BY <1>1 DEF Kept, ClosedKept, AttachedKept
<1>3. TruthKept' /\ HoldsKept' /\ AskedKept' /\ ImageKept'
  BY <1>1, NothingAsked DEF TruthKept, HoldsKept, AskedKept, ImageKept, IInv
<1>4. QED
  BY <1>1, <1>2, <1>3 DEF IInv
\* Laying out, which ends without an exception.
LEMMA WalkedKept ==
  ASSUME NEW v, NEW t, Own(v), Says(v, t)
  PROVE  /\ LayoutRaises(v) = "none" /\ Laid(LaidOut(v).vol) /\ Says(LaidOut(v).vol, t)
         /\ LaidOut(v).vol.pending = FALSE /\ LaidOut(v).vol # NoVolume
<1> DEFINE w == LaidOut(v).vol
<1>1. WalkKeeps(v, w)
  BY LaidOutLaid
<1> HIDE DEF w
<1>2. Laid(w) /\ SameData(v, w) /\ w.pending = FALSE /\ w # NoVolume
  BY <1>1, OwnNot DEF WalkKeeps, Laid
<1>3. Says(w, t)
  BY <1>2, SaysSame
<1>4. QED
  BY <1>2, <1>3, LayoutEnds DEF w
LEMMA ForceKeeps ==
  ASSUME IInv, ForceConsistency
  PROVE  IInv'
<1>1. vol # NoVolume /\ Own(vol) /\ Says(vol, truth)
  BY DEF ForceConsistency, IInv, Kept
<1> DEFINE w == LaidOut(vol).vol
<1>2. /\ LayoutRaises(vol) = "none" /\ Laid(w) /\ Says(w, truth) /\ w.pending = FALSE /\ w # NoVolume
  BY <1>1, WalkedKept
<1> HIDE DEF w
<1>3. /\ raised' = "none" /\ vol' = w /\ attached' = FALSE /\ truth' = truth /\ image' = image /\ holds' = holds
      /\ source' = source /\ calls' = calls
  BY <1>2 DEF ForceConsistency, w
<1>4. Kept' /\ ClosedKept' /\ AttachedKept'
  BY <1>2, <1>3 DEF Kept, ClosedKept, AttachedKept, Laid
<1>5. TruthKept' /\ HoldsKept' /\ AskedKept' /\ ImageKept'
  BY <1>3 DEF TruthKept, HoldsKept, AskedKept, ImageKept, IInv
<1>6. QED
  BY <1>3, <1>4, <1>5 DEF IInv
LEMMA WriteKeeps ==
  ASSUME IInv, Write
  PROVE  IInv'
<1>1. /\ vol # NoVolume /\ Own(vol) /\ Says(vol, truth) /\ (~vol.pending => Placed(vol))
  BY DEF Write, IInv, Kept
<1>2. vol.pending \in BOOLEAN
  BY <1>1, OwnHas
<1> DEFINE w == LaidOut(vol).vol
           v == IF vol.pending THEN w ELSE vol
           raises == IF vol.pending THEN LayoutRaises(vol) ELSE "none"
<1>3. /\ LayoutRaises(vol) = "none" /\ Laid(w) /\ Says(w, truth) /\ w.pending = FALSE /\ w # NoVolume
  BY <1>1, WalkedKept
<1>4. WriteAs(raises, v)
  BY DEF Write
<1> HIDE DEF w
<1>5. raises = "none" /\ Laid(v) /\ Says(v, truth) /\ v # NoVolume
  BY <1>1, <1>2, <1>3 DEF Laid
<1> HIDE DEF v, raises
<1>6. /\ raised' = "none" /\ attached' = FALSE /\ vol' = v /\ image' = Written(v) /\ holds' = truth
      /\ truth' = truth /\ source' = source /\ calls' = calls
  BY <1>4, <1>5 DEF WriteAs
<1>7. Reads(image', v, holds')
  BY <1>5, <1>6, WrittenShows DEF Reads
<1>8. ImageKept'
  BY <1>7 DEF ImageKept
<1>9. Kept' /\ ClosedKept' /\ AttachedKept'
  BY <1>5, <1>6 DEF Kept, ClosedKept, AttachedKept, Laid
<1>10. TruthKept' /\ HoldsKept' /\ AskedKept'
  BY <1>6 DEF TruthKept, HoldsKept, AskedKept, IInv
<1>11. QED
  BY <1>6, <1>8, <1>9, <1>10 DEF IInv
LEMMA OpenKeeps ==
  ASSUME IInv, Open
  PROVE  IInv'
<1>1. vol = NoVolume /\ image # NoImage
  BY DEF Open
<1>2. PICK w : Reads(image, w, holds)
  BY <1>1 DEF IInv, ImageKept
<1> DEFINE r == Read(image)
<1>3. Laid(r) /\ Alike(w, r) /\ SameData(w, r) /\ r.pending = FALSE /\ Opens(image)
  BY <1>2, ReadIs, ReadsOpen
<1> HIDE DEF r
<1>4. Says(r, holds) /\ r # NoVolume
  BY <1>2, <1>3, SaysSame, OwnNot DEF Reads, Laid
<1>5. /\ vol' = r /\ truth' = holds /\ attached' = TRUE /\ raised' = "none"
      /\ image' = image /\ holds' = holds /\ source' = source /\ calls' = calls
  BY <1>3 DEF Open, r
<1>6. Kept' /\ ClosedKept'
  BY <1>3, <1>4, <1>5 DEF Kept, ClosedKept, Laid
<1>7. TruthKept' /\ HoldsKept' /\ AskedKept' /\ ImageKept'
  BY <1>5 DEF TruthKept, HoldsKept, AskedKept, ImageKept, IInv
<1>8. AttachedKept'
  <2>1. AsRead(w)'
    BY <1>2, <1>3, <1>5 DEF AsRead
  <2>2. QED
    BY <1>1, <1>3, <1>4, <1>5, <2>1 DEF AttachedKept
<1>9. QED
  BY <1>5, <1>6, <1>7, <1>8 DEF IInv
-----------------------------------------------------------------------------
(* modify_file_in_place.                                                    *)

\* A volume with other data in one file.
NewData(v, f, ver) == [i \in 1..v.files[f].len |-> Data(f, ver, i)]
NewBytes(v, f, ver) == [u \in v.files[f].in |-> Bytes(v.files[f].len, ver)]
RenewedFile(v, f, ver) == [v.files[f] EXCEPT !.data = NewData(v, f, ver), !.bytes = NewBytes(v, f, ver)]
Renewed(v, f, ver) ==
  [x \in DOMAIN v |->
     IF x = "files"
     THEN [g \in Files |-> IF g = f THEN RenewedFile(v, f, ver) ELSE v.files[g]]
     ELSE v[x]]
RenewedRest(v, x) ==
  /\ DOMAIN x = DOMAIN NoVolume
  /\ x.udf = v.udf /\ x.joliet = v.joliet /\ x.rr = v.rr /\ x.catalog = v.catalog /\ x.tables = v.tables
  /\ x.jtables = v.jtables /\ x.at = v.at /\ x.head = v.head /\ x.boot = v.boot
  /\ x.shared = v.shared /\ x.blocks = v.blocks /\ x.anchors = v.anchors /\ x.set = v.set
  /\ x.setEnd = v.setEnd /\ x.lvidEnd = v.lvidEnd
  /\ x.main = v.main /\ x.reserve = v.reserve /\ x.lvid = v.lvid /\ x.space = v.space /\ x.pending = v.pending
RenewedFiles(v, x, f, ver) ==
  /\ x.files = [g \in Files |-> x.files[g]]
  /\ \A g \in Files : g # f => x.files[g] = v.files[g]
  /\ DOMAIN x.files[f] = DOMAIN v.files[f]
  /\ x.files[f].data = NewData(v, f, ver) /\ x.files[f].bytes = NewBytes(v, f, ver)
  /\ \A n \in DOMAIN v.files[f] \ {"data", "bytes"} : x.files[f][n] = v.files[f][n]
RenewedTo(v, x, f, ver) == RenewedRest(v, x) /\ RenewedFiles(v, x, f, ver)
LEMMA RenewedHas ==
  ASSUME NEW v, DOMAIN v = DOMAIN NoVolume, NEW f \in Files, DOMAIN v.files[f] = DOMAIN NoFile, NEW ver
  PROVE  RenewedTo(v, Renewed(v, f, ver), f, ver)
<1> DEFINE x == Renewed(v, f, ver)
           K == {"udf", "joliet", "rr", "catalog", "tables", "jtables", "at", "head", "boot", "shared",
                 "blocks", "anchors", "set", "setEnd", "lvidEnd", "main", "reserve", "lvid", "space", "pending"}
<1>1. (\A n \in K : n \in DOMAIN v /\ n # "files") /\ "files" \in DOMAIN v
  BY Fields
<1>2. DOMAIN x = DOMAIN v
  BY DEF Renewed
<1>3. x.files = [g \in Files |-> IF g = f THEN RenewedFile(v, f, ver) ELSE v.files[g]]
  BY <1>1 DEF Renewed
<1>4. \A n \in K : x[n] = v[n]
  <2> HIDE DEF K
  <2>1. QED
    BY <1>1 DEF Renewed
<1> HIDE DEF x
<1>5. RenewedRest(v, x)
  BY ONLY <1>2, <1>4, DOMAIN v = DOMAIN NoVolume DEF RenewedRest
<1>6. RenewedFiles(v, x, f, ver)
  <2> DEFINE D == NewData(v, f, ver)
             B == NewBytes(v, f, ver)
             y == RenewedFile(v, f, ver)
  <2>1. x.files = [g \in Files |-> IF g = f THEN y ELSE v.files[g]]
    BY <1>3
  <2>2. y = [v.files[f] EXCEPT !.data = D, !.bytes = B]
    BY DEF RenewedFile
  <2> HIDE DEF y, D, B
  <2>3. DOMAIN y = DOMAIN v.files[f] /\ \A n \in DOMAIN v.files[f] \ {"data", "bytes"} : y[n] = v.files[f][n]
    BY <2>2
  <2>4. y.data = D /\ y.bytes = B
    BY <2>2 DEF NoFile
  <2>5. x.files[f] = y /\ (\A g \in Files : g # f => x.files[g] = v.files[g]) /\ x.files = [g \in Files |-> x.files[g]]
    BY ONLY <2>1, f \in Files
  <2>6. QED
    BY ONLY <2>3, <2>4, <2>5 DEF RenewedFiles, D, B
<1>7. QED
  BY <1>5, <1>6 DEF RenewedTo, x

FileLike(x, y) ==
  /\ DOMAIN x = DOMAIN y /\ x.in = y.in /\ x.len = y.len /\ x.ext = y.ext /\ x.fe = y.fe /\ x.ce = y.ce
HasBlocks(x, n, in) == x.data = [i \in 1..n |-> x.data[i]] /\ x.bytes = [u \in in |-> x.bytes[u]]
LEMMA RenewedLike ==
  ASSUME NEW v, Own(v), NEW x, NEW f \in Files, NEW ver, RenewedTo(v, x, f, ver)
  PROVE  /\ \A g \in Files : FileLike(x.files[g], v.files[g])
         /\ \A g \in Files : g # f => x.files[g] = v.files[g]
         /\ \A g \in Files : HasBlocks(x.files[g], v.files[g].len, v.files[g].in)
         /\ x.files[f].data = NewData(v, f, ver) /\ x.files[f].bytes = NewBytes(v, f, ver)
<1>1. OwnFiles(v)
  BY OwnHas
<1>2. \A g \in Files : DOMAIN v.files[g] = DOMAIN NoFile /\ HasBlocks(v.files[g], v.files[g].len, v.files[g].in)
  BY <1>1 DEF OwnFiles, OwnFile, HasBlocks
<1>3. RenewedFiles(v, x, f, ver)
  BY DEF RenewedTo
<1>4. \A g \in Files : g # f => x.files[g] = v.files[g]
  BY <1>3 DEF RenewedFiles
<1>5. x.files[f].data = NewData(v, f, ver) /\ x.files[f].bytes = NewBytes(v, f, ver)
  BY <1>3 DEF RenewedFiles
<1>6. FileLike(x.files[f], v.files[f])
  <2> DEFINE K == {"in", "len", "ext", "fe", "ce"}
  <2>1. \A n \in K : n \in DOMAIN v.files[f] \ {"data", "bytes"}
    BY <1>2 DEF NoFile
  <2> HIDE DEF K
  <2>2. \A n \in K : x.files[f][n] = v.files[f][n]
    BY <1>3, <2>1 DEF RenewedFiles
  <2> USE DEF K
  <2>3. DOMAIN x.files[f] = DOMAIN v.files[f]
    BY <1>3 DEF RenewedFiles
  <2>4. QED
    BY ONLY <2>2, <2>3 DEF FileLike
<1>7. \A g \in Files : FileLike(x.files[g], v.files[g])
  BY ONLY <1>4, <1>6 DEF FileLike
<1>8. HasBlocks(x.files[f], v.files[f].len, v.files[f].in)
  <2> DEFINE z == x.files[f]
             n == v.files[f].len
             in == v.files[f].in
  <2>1. z.data = [i \in 1..n |-> Data(f, ver, i)] /\ z.bytes = [u \in in |-> Bytes(n, ver)]
    BY <1>5 DEF NewData, NewBytes
  <2> HIDE DEF z, n, in
  <2>2. z.data = [i \in 1..n |-> z.data[i]] /\ z.bytes = [u \in in |-> z.bytes[u]]
    BY ONLY <2>1
  <2>3. QED
    BY <2>2 DEF HasBlocks, z, n, in
<1>9. \A g \in Files : g # f => HasBlocks(x.files[g], v.files[g].len, v.files[g].in)
  BY <1>2, <1>4
<1>10. QED
  BY <1>4, <1>5, <1>7, <1>8, <1>9
LEMMA RenewedAlike ==
  ASSUME NEW v, Own(v), NEW x, NEW f \in Files, NEW ver, RenewedTo(v, x, f, ver)
  PROVE  /\ Alike(v, x) /\ Own(x) /\ AlikePlaces(v, x) /\ (Placed(v) => Placed(x))
         /\ Present(x) = Present(v) /\ UsedBlocks(x) = UsedBlocks(v) /\ \A t : InTree(x, t) = InTree(v, t)
<1>1. OwnFiles(v) /\ OwnHead(v) /\ (v.udf => OwnUdf(v)) /\ (~v.udf => NoUdf(v)) /\ v.udf \in BOOLEAN
  BY OwnHas
<1>2. RenewedRest(v, x) /\ x.files = [g \in Files |-> x.files[g]]
  BY DEF RenewedTo, RenewedFiles
<1>3. /\ \A g \in Files : FileLike(x.files[g], v.files[g])
      /\ \A g \in Files : HasBlocks(x.files[g], v.files[g].len, v.files[g].in)
  BY RenewedLike
<1>4. AlikeFiles(v, x)
  BY <1>2, <1>3 DEF AlikeFiles, RenewedRest, FileLike
<1>5. Alike(v, x)
  BY <1>2, <1>4 DEF Alike, RenewedRest
<1>6. /\ Present(x) = Present(v) /\ UsedBlocks(x) = UsedBlocks(v) /\ \A t : InTree(x, t) = InTree(v, t)
  <2>1. \A g \in Files : x.files[g].in = v.files[g].in /\ x.files[g].ce = v.files[g].ce
    BY <1>3 DEF FileLike
  <2>2. Present(x) = Present(v) /\ \A t : InTree(x, t) = InTree(v, t)
    BY <2>1 DEF Present, InTree
  <2>3. InTree(v, "iso") \in SUBSET Files
    BY DEF InTree
  <2>4. QED
    BY <2>1, <2>2, <2>3 DEF UsedBlocks
<1>7. OwnFiles(x)
  <2>1. \A g \in Files : OwnFile(x, g)
    <3> SUFFICES ASSUME NEW g \in Files PROVE OwnFile(x, g)
      OBVIOUS
    <3>1. OwnFile(v, g) /\ FileLike(x.files[g], v.files[g]) /\ TreesOf(x) = TreesOf(v) /\ x.rr = v.rr
      BY <1>1, <1>2, <1>3 DEF OwnFiles, TreesOf, RenewedRest
    <3>2. /\ x.files[g].data = [i \in 1..x.files[g].len |-> x.files[g].data[i]]
          /\ x.files[g].bytes = [u \in x.files[g].in |-> x.files[g].bytes[u]]
      BY <1>3, <3>1 DEF FileLike, HasBlocks
    <3>3. QED
      BY ONLY <3>1, <3>2 DEF OwnFile, FileLike
  <2>2. \A g \in Files : x.files[g].len = v.files[g].len
    BY <1>3 DEF FileLike
  <2>3. \A g, h \in Present(x) : x.files[g].len = 0 /\ x.files[h].len = 0 => g = h
    BY <1>1, <1>6, <2>2 DEF OwnFiles, Present
  <2>4. {g \in InTree(x, "iso") : x.files[g].len > 0} = {g \in InTree(v, "iso") : v.files[g].len > 0}
    BY <1>6, <2>2 DEF InTree
  <2>5. {g \in Present(x) : x.files[g].len = 0} = {g \in Present(v) : v.files[g].len = 0}
    BY <1>6, <2>2 DEF Present
  <2>6. x.boot = v.boot /\ x.shared = v.shared /\ x.blocks = v.blocks /\ x.rr = v.rr /\ x.catalog = v.catalog
    BY <1>2 DEF RenewedRest
  <2>7. QED
    BY ONLY <1>1, <1>2, <1>6, <2>1, <2>3, <2>4, <2>5, <2>6 DEF OwnFiles
<1>8. AlikePlaces(v, x)
  BY <1>1, <1>5, <1>7, OwnFilesHave, AlikeSame
<1>9. EndAt(x) = EndAt(v) /\ TreeStart(x) = TreeStart(v) /\ IsoAt(x) = IsoAt(v)
  BY <1>8 DEF AlikePlaces
<1>10. Own(x)
  <2>1. OwnHead(x)
    <3>1. \A k : HeaderCount(x, k) = HeaderCount(v, k)
      BY <1>2 DEF HeaderCount, RenewedRest
    <3>2. x.head = v.head /\ x.udf = v.udf
      BY <1>2 DEF RenewedRest
    <3>3. QED
      BY ONLY <1>1, <3>1, <3>2 DEF OwnHead
  <2>2. IF x.udf THEN OwnUdf(x) ELSE NoUdf(x)
    <3>1. /\ x.udf = v.udf /\ x.main = v.main /\ x.reserve = v.reserve /\ x.lvid = v.lvid /\ x.lvidEnd = v.lvidEnd
          /\ x.anchors = v.anchors /\ x.set = v.set /\ x.setEnd = v.setEnd
      BY <1>2 DEF RenewedRest
    <3>2. v.udf => OwnUdf(x)
      BY ONLY <1>1, <1>9, <3>1 DEF OwnUdf
    <3>3. ~v.udf => NoUdf(x)
      BY ONLY <1>1, <3>1 DEF NoUdf
    <3>4. QED
      BY <3>1, <3>2, <3>3
  <2>3. x.space = EndAt(x) + One(x.udf)
    BY <1>2, <1>9, OwnHas DEF RenewedRest
  <2>4. /\ DOMAIN x = DOMAIN NoVolume /\ {x.udf, x.joliet, x.rr, x.catalog, x.pending} \subseteq BOOLEAN
        /\ x.tables = 2 /\ x.jtables = (IF x.joliet THEN 2 ELSE 0) /\ DOMAIN x.at = DOMAIN NoPlaces
    BY <1>2 DEF RenewedRest, Own
  <2>5. QED
    BY ONLY <1>7, <2>1, <2>2, <2>3, <2>4 DEF Own
<1>11. ASSUME Placed(v) PROVE Placed(x)
  <2>1. /\ x.head = v.head /\ x.udf = v.udf /\ x.at = v.at /\ x.joliet = v.joliet /\ x.rr = v.rr /\ x.catalog = v.catalog
    BY <1>2 DEF RenewedRest
  <2>2. \A k \in HeaderNames : \A i \in 1..Len(x.head[k]) : x.head[k][i].extent = HeaderAt(x, k) + i - 1
    BY <1>8, <1>11, <2>1 DEF Placed, AlikePlaces
  <2>3. x.udf => UdfPlaced(x)
    <3>1. /\ x.main = v.main /\ x.reserve = v.reserve /\ x.lvid = v.lvid /\ x.lvidEnd = v.lvidEnd
          /\ x.anchors = v.anchors /\ x.set = v.set /\ x.setEnd = v.setEnd
      BY <1>2 DEF RenewedRest
    <3>2. v.udf => UdfPlaced(v)
      BY <1>11 DEF Placed
    <3>3. SequenceIs(v.main, 32, v) => SequenceIs(v.main, 32, x)
      BY <1>9 DEF SequenceIs
    <3>4. SequenceIs(v.reserve, 48, v) => SequenceIs(v.reserve, 48, x)
      BY <1>9 DEF SequenceIs
    <3>5. QED
      BY ONLY <1>9, <2>1, <3>1, <3>2, <3>3, <3>4 DEF UdfPlaced
  <2>4. /\ x.at.le = TreeStart(x) /\ x.at.be = TreeStart(x) + 2 /\ x.at.iso = IsoAt(x)
        /\ x.joliet => x.at.jle = TreeStart(x) + 4 /\ x.at.jbe = TreeStart(x) + 6 /\ x.at.joliet = JolietAt(x)
        /\ x.rr => x.at.er = ErAt(x)
        /\ x.catalog => x.at.catalog = CatalogAt(x)
        /\ UsedBlocks(x) # {} => x.at.ce = IsoAt(x) + 1
    BY <1>6, <1>8, <1>11, <2>1 DEF Placed, AlikePlaces
  <2>5. \A g \in Files : x.files[g].ext = v.files[g].ext /\ x.files[g].fe = v.files[g].fe
    BY <1>3 DEF FileLike
  <2>6. \A g \in Present(x) : x.files[g].ext = DataAtOf(x, g)
    BY <1>6, <1>8, <1>11, <2>5 DEF Placed, AlikePlaces, Present
  <2>7. \A g \in InTree(x, "udf") : x.files[g].fe = EntryAtOf(x, g)
    BY <1>6, <1>8, <1>11, <2>5 DEF Placed, AlikePlaces, InTree
  <2>8. QED
    BY ONLY <2>2, <2>3, <2>4, <2>6, <2>7 DEF Placed
<1>12. QED
  BY <1>5, <1>6, <1>8, <1>10, <1>11
LEMMA RenewedSays ==
  ASSUME NEW v, Own(v), NEW x, NEW f \in Files, NEW ver, RenewedTo(v, x, f, ver),
         NEW t, NEW s, Says(v, t), \A g \in Files : g # f => s[g] = t[g],
         s[f].in = t[f].in, s[f].len = t[f].len, s[f].ver = ver
  PROVE  Says(x, s)
<1>1. /\ \A g \in Files : FileLike(x.files[g], v.files[g])
      /\ \A g \in Files : g # f => x.files[g] = v.files[g]
      /\ x.files[f].data = NewData(v, f, ver) /\ x.files[f].bytes = NewBytes(v, f, ver)
  BY RenewedLike
<1>2. ASSUME NEW g \in Files
      PROVE  /\ v.files[g].in = t[g].in /\ v.files[g].len = t[g].len
             /\ v.files[g].data = [i \in 1..t[g].len |-> Data(g, t[g].ver, i)]
             /\ v.files[g].bytes = [u \in t[g].in |-> Bytes(t[g].len, t[g].ver)]
  BY DEF Says
<1>3. x.files[f].in = v.files[f].in /\ x.files[f].len = v.files[f].len
  BY <1>1 DEF FileLike
<1>4. /\ x.files[f].data = [i \in 1..s[f].len |-> Data(f, ver, i)]
      /\ x.files[f].bytes = [u \in s[f].in |-> Bytes(s[f].len, ver)]
  <2>1. v.files[f].in = s[f].in /\ v.files[f].len = s[f].len
    BY <1>2
  <2>2. QED
    BY ONLY <1>1, <2>1 DEF NewData, NewBytes
<1>5. \A g \in Files : g # f => x.files[g] = v.files[g] /\ s[g] = t[g]
  BY <1>1
<1> SUFFICES ASSUME NEW g \in Files
             PROVE  /\ x.files[g].in = s[g].in /\ x.files[g].len = s[g].len
                    /\ x.files[g].data = [i \in 1..s[g].len |-> Data(g, s[g].ver, i)]
                    /\ x.files[g].bytes = [u \in s[g].in |-> Bytes(s[g].len, s[g].ver)]
  BY DEF Says
<1>6. CASE g # f
  BY <1>2, <1>5, <1>6
<1>7. CASE g = f
  BY <1>2, <1>3, <1>4, <1>7
<1>8. QED
  BY <1>6, <1>7
\* What is written for the one, is so for the other or is new, and in the
\* same places.
Covers(P, Q) == \A p \in P : \E q \in Q : q.at = p.at
Carries(P, Q, N) == (\A p \in P : p \in Q \/ p \in N) /\ Covers(Q, P)
LEMMA CarriesSame ==
  ASSUME NEW P, NEW N
  PROVE  Carries(P, P, N)
BY DEF Carries, Covers
LEMMA CarriesJoin ==
  ASSUME NEW P, NEW Q, NEW A, NEW B, NEW N, Carries(P, Q, N), Carries(A, B, N)
  PROVE  Carries(P \cup A, Q \cup B, N)
BY DEF Carries, Covers
LEMMA TreeCarries ==
  ASSUME NEW le, NEW be, NEW root, NEW d, NEW e, NEW N, d = e \/ Put(root, d) \in N
  PROVE  Carries(TreeSet(le, be, root, d), TreeSet(le, be, root, e), N)
<1> DEFINE A == {Put(le, Table("le", root)), Put(be, Table("be", root))}
<1>1. TreeSet(le, be, root, d) = A \cup {Put(root, d)} /\ TreeSet(le, be, root, e) = A \cup {Put(root, e)}
  BY DEF TreeSet
<1>2. Carries(A, A, N)
  BY CarriesSame
<1>3. Put(root, d).at = Put(root, e).at
  BY DEF Put
<1>4. Carries({Put(root, d)}, {Put(root, e)}, N)
  BY <1>3 DEF Carries, Covers
<1> HIDE DEF A
<1>5. QED
  BY ONLY <1>1, <1>2, <1>4, CarriesJoin
\* What modify_file_in_place is to write of the file.
NewPuts(x, f) ==
  FileSet(x, f) \cup {Put(IsoAt(x), DirBlock(x, "iso"))}
    \cup (IF "joliet" \in x.files[f].in THEN {Put(JolietAt(x), DirBlock(x, "joliet"))} ELSE {})
    \cup (IF "udf" \in x.files[f].in THEN {EntryPut(x, f)} ELSE {})
LEMMA RenewedDirBlock ==
  ASSUME NEW v, Own(v), NEW x, NEW f \in Files, NEW ver, RenewedTo(v, x, f, ver), NEW t, f \notin InTree(v, t)
  PROVE  DirBlock(x, t) = DirBlock(v, t)
<1>1. RenewedRest(v, x)
  BY DEF RenewedTo
<1>2. InTree(x, t) = InTree(v, t)
  BY RenewedAlike
<1> DEFINE S == InTree(v, t)
           R(v_, g) == [ext |-> v_.files[g].ext, len |-> v_.files[g].len, bytes |-> v_.files[g].bytes[t],
                        ce |-> IF t = "iso" /\ v_.files[g].ce # "none" THEN v.at.ce ELSE 0]
<1>3. \A g \in S : x.files[g] = v.files[g]
  BY RenewedLike DEF InTree
<1>4. \A g \in S : R(x, g) = R(v, g)
  BY <1>3
<1>5. x.at = v.at /\ x.rr = v.rr /\ x.catalog = v.catalog
  BY <1>1 DEF RenewedRest
<1>6. DirBlock(v, t).recs = [g \in S |-> R(v, g)] /\ DirBlock(x, t).recs = [g \in S |-> R(x, g)]
  BY <1>2, <1>5 DEF DirBlock
<1>7. DirBlock(v, t).recs = DirBlock(x, t).recs
  <2> DEFINE A == [g \in S |-> R(x, g)]
             B == [g \in S |-> R(v, g)]
  <2>1. A = B
    <3> HIDE DEF R, S
    <3>1. QED
      BY <1>4
  <2>2. QED
    BY <1>6, <2>1
<1>8. \A y : DirBlock(y, t) = [k |-> "dir", tree |-> t, er |-> IF t = "iso" /\ y.rr THEN y.at.er ELSE 0,
                               catalog |-> IF y.catalog THEN y.at.catalog ELSE 0, recs |-> DirBlock(y, t).recs]
  BY DEF DirBlock
<1>9. QED
  BY ONLY <1>5, <1>7, <1>8
LEMMA RenewedData ==
  ASSUME NEW v, Own(v), NEW x, NEW f \in Files, NEW ver, RenewedTo(v, x, f, ver)
  PROVE  /\ \A g \in Files : g # f => FileSet(x, g) = FileSet(v, g)
         /\ Covers(FileSet(v, f), FileSet(x, f))
<1>1. \A g \in Files : FileLike(x.files[g], v.files[g])
  BY RenewedLike
<1>0. \A g \in Files : g # f => x.files[g].data = v.files[g].data
  BY RenewedLike
<1>2. \A g \in Files : DataAtOf(x, g) = DataAtOf(v, g)
  BY RenewedAlike DEF AlikePlaces
<1>3. \A g \in Files : x.files[g].len = v.files[g].len
  BY <1>1 DEF FileLike
<1>4. \A g \in Files : g # f => FileSet(x, g) = FileSet(v, g)
  BY ONLY <1>0, <1>2, <1>3 DEF FileSet
<1>5. ASSUME NEW p \in FileSet(v, f) PROVE \E q \in FileSet(x, f) : q.at = p.at
  <2>1. PICK i \in 1..v.files[f].len : p = Put(DataAtOf(v, f) + i - 1, v.files[f].data[i])
    BY DEF FileSet
  <2> DEFINE q == Put(DataAtOf(x, f) + i - 1, x.files[f].data[i])
  <2>2. q \in FileSet(x, f)
    BY <1>3 DEF FileSet
  <2>3. q.at = p.at
    BY <1>2, <2>1 DEF Put
  <2>4. QED
    BY <2>2, <2>3
<1>6. QED
  BY <1>4, <1>5 DEF Covers
LEMMA RenewedCarries ==
  ASSUME NEW v, Own(v), NEW x, NEW f \in Files, NEW ver, RenewedTo(v, x, f, ver), "iso" \in v.files[f].in
  PROVE  Carries(PutsOf(x), PutsOf(v), NewPuts(x, f))
<1> DEFINE N == NewPuts(x, f)
<1>1. RenewedRest(v, x)
  BY DEF RenewedTo
<1>2. /\ \A g \in Files : FileLike(x.files[g], v.files[g])
  BY RenewedLike
<1>3. AlikePlaces(v, x) /\ UsedBlocks(x) = UsedBlocks(v) /\ (\A t : InTree(x, t) = InTree(v, t))
  BY RenewedAlike
<1>4. HeadSet(x) = HeadSet(v)
  <2>1. x.head = v.head /\ x.space = v.space /\ x.at = v.at
    BY <1>1 DEF RenewedRest
  <2>2. \A k, i : HeaderBlock(x, k, i) = HeaderBlock(v, k, i)
    BY <2>1 DEF HeaderBlock, PvdBlock, SvdBlock
  <2>3. \A k \in HeaderNames : HeaderAt(x, k) = HeaderAt(v, k)
    BY <1>3 DEF AlikePlaces
  <2>4. \A k \in HeaderNames : HeaderSet(x, k) = HeaderSet(v, k)
    BY ONLY <2>1, <2>2, <2>3 DEF HeaderSet
  <2>5. QED
    BY ONLY <2>4 DEF HeadSet
<1>5. DescSet(x) = DescSet(v)
  BY <1>1 DEF DescSet, RenewedRest
<1>6. CatalogSet(x) = CatalogSet(v)
  <2>1. v.boot \subseteq Files
    BY OwnHas DEF OwnFiles, InTree
  <2>2. {x.files[g].ext : g \in v.boot} = {v.files[g].ext : g \in v.boot}
    BY <1>2, <2>1 DEF FileLike
  <2>3. x.catalog = v.catalog /\ x.boot = v.boot /\ CatalogAt(x) = CatalogAt(v)
    BY <1>1, <1>3 DEF RenewedRest, AlikePlaces
  <2>4. CatalogPut(x) = CatalogPut(v)
    BY <2>2, <2>3 DEF CatalogPut
  <2>5. QED
    BY <2>3, <2>4 DEF CatalogSet
<1>7. x.files[f].in = v.files[f].in
  BY <1>2 DEF FileLike
<1>8. Carries(IsoSet(x), IsoSet(v), N)
  <2>1. Put(IsoAt(x), DirBlock(x, "iso")) \in N
    BY DEF NewPuts
  <2>2. TreeStart(x) = TreeStart(v) /\ IsoAt(x) = IsoAt(v) /\ ErAt(x) = ErAt(v)
    BY <1>3 DEF AlikePlaces
  <2>3. x.rr = v.rr /\ (UsesBlock(x) <=> UsesBlock(v))
    BY <1>1, <1>3 DEF RenewedRest, UsesBlock
  <2> DEFINE P == TreeSet(TreeStart(v), TreeStart(v) + 2, IsoAt(v), DirBlock(x, "iso"))
             Q == TreeSet(TreeStart(v), TreeStart(v) + 2, IsoAt(v), DirBlock(v, "iso"))
             A == (IF v.rr THEN {Put(ErAt(v), [k |-> "er"])} ELSE {})
                    \cup (IF UsesBlock(v) THEN {Put(IsoAt(v) + 1, [k |-> "ce"])} ELSE {})
  <2>4. Carries(P, Q, N)
    <3>1. Put(IsoAt(v), DirBlock(x, "iso")) \in N
      BY <2>1, <2>2
    <3> HIDE DEF N
    <3>2. QED
      BY <3>1, TreeCarries
  <2>5. IsoSet(x) = P \cup A /\ IsoSet(v) = Q \cup A
    BY <2>2, <2>3 DEF IsoSet
  <2> HIDE DEF P, Q, A, N
  <2>6. QED
    BY ONLY <2>4, <2>5, CarriesSame, CarriesJoin
<1>9. Carries(JolietSet(x), JolietSet(v), N)
  <2>1. x.joliet = v.joliet /\ TreeStart(x) = TreeStart(v) /\ JolietAt(x) = JolietAt(v)
    BY <1>1, <1>3 DEF RenewedRest, AlikePlaces
  <2>2. f \notin InTree(v, "joliet") => DirBlock(x, "joliet") = DirBlock(v, "joliet")
    BY RenewedDirBlock
  <2>3. f \in InTree(v, "joliet") => Put(JolietAt(v), DirBlock(x, "joliet")) \in N
    BY <1>7, <2>1 DEF InTree, NewPuts
  <2> HIDE DEF N
  <2>4. Carries(TreeSet(TreeStart(v) + 4, TreeStart(v) + 6, JolietAt(v), DirBlock(x, "joliet")),
                TreeSet(TreeStart(v) + 4, TreeStart(v) + 6, JolietAt(v), DirBlock(v, "joliet")), N)
    BY <2>2, <2>3, TreeCarries
  <2>5. CASE v.joliet
    BY <2>1, <2>4, <2>5 DEF JolietSet
  <2>6. CASE ~v.joliet
    BY <2>1, <2>6, CarriesSame DEF JolietSet
  <2>7. QED
    BY <2>5, <2>6
<1>10. Carries(UdfSet(x), UdfSet(v), N)
  <2>1. x.udf = v.udf /\ x.catalog = v.catalog /\ x.set = v.set /\ x.setEnd = v.setEnd /\ CatalogAt(x) = CatalogAt(v)
    BY <1>1, <1>3 DEF RenewedRest, AlikePlaces
  <2>2. \A g \in InTree(v, "udf") : g # f => EntryPut(x, g) = EntryPut(v, g)
    <3>1. \A g \in Files : g # f => x.files[g] = v.files[g]
      BY RenewedLike
    <3>2. QED
      BY <1>3, <3>1 DEF EntryPut, AlikePlaces, InTree
  <2>7. f \in InTree(v, "udf") => EntryPut(x, f) \in N /\ EntryPut(x, f).at = EntryPut(v, f).at
    BY <1>3, <1>7 DEF EntryPut, AlikePlaces, RelFe, Put, InTree, NewPuts
  <2>3. IdentsPut(x) = IdentsPut(v)
    <3> DEFINE S == InTree(v, "udf")
               A == [g \in S |-> x.files[g].fe - PartStart]
               B == [g \in S |-> v.files[g].fe - PartStart]
    <3>1. \A g \in S : x.files[g].fe = v.files[g].fe
      BY <1>2 DEF FileLike, InTree
    <3>2. A = B
      <4> HIDE DEF S
      <4>1. QED
        BY <3>1
    <3>3. InTree(x, "udf") = S
      BY <1>3
    <3> HIDE DEF S
    <3>4. IdentsPut(x) = Put(RootAt + 1, [k |-> "idents", catalog |-> IF v.catalog THEN RootAt + 2 - PartStart ELSE 0, recs |-> A])
      BY ONLY <2>1, <3>3 DEF IdentsPut
    <3>5. IdentsPut(v) = Put(RootAt + 1, [k |-> "idents", catalog |-> IF v.catalog THEN RootAt + 2 - PartStart ELSE 0, recs |-> B])
      BY ONLY TRUE DEF IdentsPut, S
    <3> HIDE DEF A, B
    <3>6. QED
      BY ONLY <3>2, <3>4, <3>5
  <2>4. FeSet(x) = FeSet(v)
    BY <2>1 DEF FeSet
  <2> DEFINE P == {EntryPut(x, g) : g \in InTree(x, "udf")}
             Q == {EntryPut(v, g) : g \in InTree(v, "udf")}
             A == {DescPut(v.set[1]), DescPut(v.setEnd[1])} \cup {RelFe(RootAt, 1, 0, RootAt + 1), IdentsPut(v)} \cup FeSet(v)
  <2>5. Carries(P, Q, N)
    <3>1. InTree(x, "udf") = InTree(v, "udf")
      BY <1>3
    <3> HIDE DEF N
    <3>2. \A g \in InTree(v, "udf") : (EntryPut(x, g) = EntryPut(v, g) \/ EntryPut(x, g) \in N) /\ EntryPut(x, g).at = EntryPut(v, g).at
      BY <2>2, <2>7
    <3>3. \A p \in P : p \in Q \/ p \in N
      BY ONLY <3>1, <3>2
    <3>4. \A q \in Q : \E p \in P : p.at = q.at
      BY ONLY <3>1, <3>2
    <3>5. QED
      BY ONLY <3>3, <3>4 DEF Carries, Covers
  <2>6. CASE v.udf
    <3>1. UdfSet(x) = A \cup P /\ UdfSet(v) = A \cup Q
      BY <2>1, <2>3, <2>4, <2>6 DEF UdfSet
    <3> HIDE DEF A, P, Q, N
    <3>2. QED
      BY ONLY <2>5, <3>1, CarriesSame, CarriesJoin
  <2>8. CASE ~v.udf
    BY <2>1, <2>8, CarriesSame DEF UdfSet
  <2>9. QED
    BY <2>6, <2>8
<1>11. Carries(DataSet(x), DataSet(v), N)
  <2>1. \A g \in Files : g # f => FileSet(x, g) = FileSet(v, g)
    BY RenewedData
  <2>2. Covers(FileSet(v, f), FileSet(x, f))
    BY RenewedData
  <2>3. Present(x) = Present(v) /\ Present(v) \subseteq Files
    BY RenewedAlike DEF Present
  <2>4. FileSet(x, f) \subseteq N
    BY DEF NewPuts
  <2> HIDE DEF N
  <2>5. ASSUME NEW p \in DataSet(x) PROVE p \in DataSet(v) \/ p \in N
    <3>1. PICK g \in Present(x) : p \in FileSet(x, g)
      BY DEF DataSet
    <3>2. g = f \/ (g \in Present(v) /\ p \in FileSet(v, g))
      BY <2>1, <2>3, <3>1
    <3>3. QED
      BY <2>4, <3>1, <3>2 DEF DataSet
  <2>6. ASSUME NEW p \in DataSet(v) PROVE \E q \in DataSet(x) : q.at = p.at
    <3>1. PICK g \in Present(v) : p \in FileSet(v, g)
      BY DEF DataSet
    <3>2. \E q \in FileSet(x, g) : q.at = p.at
      BY <2>1, <2>2, <2>3, <3>1 DEF Covers
    <3>3. g \in Present(x)
      BY <2>3
    <3>4. QED
      BY <3>2, <3>3 DEF DataSet
  <2>7. QED
    BY <2>5, <2>6 DEF Carries, Covers
<1>12. /\ Carries(HeadSet(x), HeadSet(v), N) /\ Carries(DescSet(x), DescSet(v), N)
       /\ Carries(CatalogSet(x), CatalogSet(v), N)
  <2> HIDE DEF N
  <2>1. QED
    BY <1>4, <1>5, <1>6, CarriesSame
<1> HIDE DEF N
<1>13. QED
  <2> DEFINE a == HeadSet(x)  b == HeadSet(v)  c == DescSet(x)  d == DescSet(v)
             e == CatalogSet(x)  g == CatalogSet(v)  h == IsoSet(x)  i == IsoSet(v)
             j == JolietSet(x)  k == JolietSet(v)  l == UdfSet(x)  m == UdfSet(v)
             o == DataSet(x)  q == DataSet(v)
  <2>1. /\ Carries(a, b, N) /\ Carries(c, d, N) /\ Carries(e, g, N) /\ Carries(h, i, N)
        /\ Carries(j, k, N) /\ Carries(l, m, N) /\ Carries(o, q, N)
    BY <1>8, <1>9, <1>10, <1>11, <1>12
  <2>2. /\ PutsOf(x) = a \cup c \cup e \cup h \cup j \cup l \cup o
        /\ PutsOf(v) = b \cup d \cup g \cup i \cup k \cup m \cup q
    BY DEF PutsOf
  <2> HIDE DEF a, b, c, d, e, g, h, i, j, k, l, m, o, q
  <2>3. Carries(a \cup c \cup e, b \cup d \cup g, N)
    BY ONLY <2>1, CarriesJoin
  <2>4. Carries(a \cup c \cup e \cup h, b \cup d \cup g \cup i, N)
    BY ONLY <2>1, <2>3, CarriesJoin
  <2>5. Carries(a \cup c \cup e \cup h \cup j, b \cup d \cup g \cup i \cup k, N)
    BY ONLY <2>1, <2>4, CarriesJoin
  <2>6. Carries(a \cup c \cup e \cup h \cup j \cup l, b \cup d \cup g \cup i \cup k \cup m, N)
    BY ONLY <2>1, <2>5, CarriesJoin
  <2>7. Carries(a \cup c \cup e \cup h \cup j \cup l \cup o, b \cup d \cup g \cup i \cup k \cup m \cup q, N)
    BY ONLY <2>1, <2>6, CarriesJoin
  <2>8. QED
    BY <2>2, <2>7 DEF N
\* The file shows the volume with the new data, when those are put over it and
\* nothing else that it does not show.
LEMMA ShowsRenewed ==
  ASSUME NEW img, NEW w, Shows(img, w), NEW x, Laid(x), x.space = w.space, NEW N,
         Carries(PutsOf(x), PutsOf(w), N), NEW s \in Seq(PutsOf(x)), N \subseteq Ran(s)
  PROVE  Shows([img EXCEPT !.blocks = Overlay(@, s)], x)
<1> DEFINE o == Overlay(img.blocks, s)
           new == [img EXCEPT !.blocks = Overlay(@, s)]
           P == PutsOf(x)
<1>2. OnePer(P)
  BY PutsOnePer
<1>3. Overlaid(img.blocks, s, o)
  <2>1. s \in Seq(P)
    OBVIOUS
  <2> HIDE DEF P
  <2>2. QED
    BY <1>2, <2>1, OverlayHas
<1>4. img = [size |-> img.size, blocks |-> img.blocks] /\ img.size = w.space
  BY DEF Shows
<1>5. new = [size |-> img.size, blocks |-> o]
  <2> HIDE DEF o
  <2>1. new = [img EXCEPT !.blocks = o]
    BY DEF o
  <2>2. QED
    BY ONLY <1>4, <2>1
<1> HIDE DEF o, new
<1>6. new = [size |-> new.size, blocks |-> new.blocks] /\ new.size = img.size /\ new.blocks = o
  BY ONLY <1>5
<1>8. \A p \in Ran(s) : p \in P /\ At0(new, p.at) = p.is
  <2> SUFFICES ASSUME NEW p \in Ran(s) PROVE p \in P /\ At0(new, p.at) = p.is
    OBVIOUS
  <2>1. PICK i \in 1..Len(s) : p = s[i]
    BY DEF Ran
  <2>2. p \in P
    <3>1. s \in Seq(P)
      OBVIOUS
    <3> HIDE DEF P
    <3>2. QED
      BY <2>1, <3>1
  <2>3. p.at \in DOMAIN o /\ o[p.at] = p.is
    BY <1>3 DEF Overlaid
  <2>4. QED
    BY <1>6, <2>2, <2>3 DEF At0
<1>9. \A e : (\A p \in Ran(s) : p.at # e) => At0(new, e) = At0(img, e)
  <2> SUFFICES ASSUME NEW e, \A p \in Ran(s) : p.at # e PROVE At0(new, e) = At0(img, e)
    OBVIOUS
  <2>1. e \in DOMAIN o <=> e \in DOMAIN img.blocks
    BY <1>3 DEF Overlaid
  <2>2. e \in DOMAIN img.blocks => o[e] = img.blocks[e]
    BY <1>3 DEF Overlaid
  <2>3. QED
    BY <1>6, <2>1, <2>2 DEF At0
<1>10. \A p \in P : p \in N \/ p \in PutsOf(w)
  BY DEF Carries
<1>11. \A p \in PutsOf(w) : (\E q \in P : q.at = p.at)
  BY DEF Carries, Covers
<1> HIDE DEF P
<1>12. \A p \in P : At0(new, p.at) = p.is
  <2> SUFFICES ASSUME NEW p \in P PROVE At0(new, p.at) = p.is
    OBVIOUS
  <2>1. CASE \E q \in Ran(s) : q.at = p.at
    <3>1. PICK q \in Ran(s) : q.at = p.at
      BY <2>1
    <3>2. p = q
      BY <1>2, <1>8, <3>1 DEF OnePer
    <3>3. QED
      BY <1>8, <3>1, <3>2
  <2>2. CASE \A q \in Ran(s) : q.at # p.at
    <3>1. p \notin N
      BY <2>2
    <3>2. p \in PutsOf(w)
      BY <1>10, <3>1
    <3>3. At0(img, p.at) = p.is
      BY <3>2, ShowsPut
    <3>4. QED
      BY <1>9, <2>2, <3>3
  <2>3. QED
    BY <2>1, <2>2
<1>13. \A e : At0(new, e) = Zero \/ \E p \in P : p.at = e
  <2> SUFFICES ASSUME NEW e PROVE At0(new, e) = Zero \/ \E p \in P : p.at = e
    OBVIOUS
  <2>1. At0(img, e) = Zero \/ \E p \in PutsOf(w) : p.at = e
    BY DEF Shows
  <2>2. CASE \E q \in Ran(s) : q.at = e
    BY <1>8, <2>2
  <2>3. CASE \A q \in Ran(s) : q.at # e
    BY <1>9, <1>11, <2>1, <2>3
  <2>4. QED
    BY <2>2, <2>3
<1>14. Shows(new, x)
  BY ONLY <1>4, <1>6, x.space = w.space, <1>12, <1>13 DEF Shows, P
<1>15. QED
  BY <1>14 DEF new
\* What is put, is part of what there is to be.
Among(s, P) == s \in Seq(P)
LEMMA AmongJoined ==
  ASSUME NEW P, NEW s, NEW t, Among(s, P), Among(t, P)
  PROVE  Among(s \o t, P) /\ Ran(s) \subseteq Ran(s \o t) /\ Ran(t) \subseteq Ran(s \o t)
<1>1. ConcatHas(P, s, t)
  BY Concats DEF Among
<1>2. Among(s \o t, P)
  BY <1>1 DEF ConcatHas, Among
<1>3. ASSUME NEW p \in Ran(s) PROVE p \in Ran(s \o t)
  <2>1. PICK i \in 1..Len(s) : p = s[i]
    BY DEF Ran
  <2>2. i \in 1..Len(s \o t) /\ (s \o t)[i] = p
    BY <1>1, <2>1 DEF ConcatHas
  <2>3. QED
    BY <2>2 DEF Ran
<1>4. ASSUME NEW p \in Ran(t) PROVE p \in Ran(s \o t)
  <2>1. PICK i \in 1..Len(t) : p = t[i]
    BY DEF Ran
  <2>2. Len(s) + i \in 1..Len(s \o t) /\ (s \o t)[Len(s) + i] = p
    BY <1>1, <2>1 DEF ConcatHas
  <2>3. QED
    BY <2>2 DEF Ran
<1>5. QED
  BY <1>2, <1>3, <1>4
LEMMA AmongOne ==
  ASSUME NEW P, NEW p \in P
  PROVE  Among(<<p>>, P)
BY DEF Among
LEMMA RanOne ==
  ASSUME NEW p
  PROVE  p \in Ran(<<p>>)
BY DEF Ran
LEMMA AmongNone ==
  ASSUME NEW P
  PROVE  Among(<<>>, P)
BY DEF Among
\* The data of one file.
LEMMA OneFilePuts ==
  ASSUME NEW v, Laid(v), NEW f \in Present(v)
  PROVE  PutsIn(DataPuts(v, <<f>>), FileSet(v, f), DataOf(v, f))
<1> DEFINE s == FileList(v, f)
           A == FileSet(v, f)
           B == DataOf(v, f)
           ss == <<s>>
           X == {s}
           Ps == <<A>>
           As == <<B>>
<1>1. PutsIn(s, A, B)
  BY FileListPuts
<1>2. DataPuts(v, <<f>>) = FlattenSeq(ss)
  <2> DEFINE fs == <<f>>
  <2>1. Len(fs) = 1 /\ fs[1] = f
    OBVIOUS
  <2>2. DataPuts(v, fs) = FlattenSeq([j \in 1..Len(fs) |-> FileList(v, fs[j])])
    BY DEF DataPuts, FileList
  <2>3. [j \in 1..Len(fs) |-> FileList(v, fs[j])] = ss
    <3> HIDE DEF s
    <3>1. \A j \in 1..1 : j = 1
      OBVIOUS
    <3>2. [j \in 1..Len(fs) |-> FileList(v, fs[j])] = [j \in 1..1 |-> s]
      BY <2>1, <3>1 DEF s
    <3>3. [j \in 1..1 |-> s] = <<s>>
      OBVIOUS
    <3>4. QED
      BY <3>2, <3>3
  <2>4. QED
    BY <2>2, <2>3
<1> HIDE DEF s, A, B
<1>3. ss \in Seq(X) /\ Len(ss) = 1 /\ ss[1] = s /\ Ps[1] = A /\ As[1] = B
  OBVIOUS
<1>4. \A i \in 1..1 : i = 1
  OBVIOUS
<1>5. UNION {Ps[j] : j \in 1..Len(ss)} = A /\ UNION {As[j] : j \in 1..Len(ss)} = B
  <2> HIDE DEF Ps, As, ss
  <2>1. QED
    BY ONLY <1>3, <1>4
<1>6. Lists(ss, Ps, As)
  <2> HIDE DEF Ps, As, ss
  <2>1. QED
    BY ONLY <1>1, <1>3, <1>4 DEF Lists
<1> HIDE DEF Ps, As, ss, X
<1>7. PutsIn(FlattenSeq(ss), UNION {Ps[j] : j \in 1..Len(ss)}, UNION {As[j] : j \in 1..Len(ss)})
  <2>1. ss \in Seq(X)
    BY <1>3
  <2>2. QED
    BY ONLY <1>6, <2>1, FlattenPuts
<1>8. PutsIn(FlattenSeq(ss), A, B)
  BY ONLY <1>5, <1>7
<1>9. QED
  BY <1>2, <1>8 DEF A, B

\* A record that is set to what another block has.
LEMMA SetAgain ==
  ASSUME NEW b, NEW c, NEW f \in DOMAIN b.recs,
         b = [k |-> b.k, tree |-> b.tree, er |-> b.er, catalog |-> b.catalog, recs |-> b.recs],
         c = [k |-> b.k, tree |-> b.tree, er |-> b.er, catalog |-> b.catalog, recs |-> c.recs],
         b.recs = [g \in DOMAIN b.recs |-> b.recs[g]], c.recs = [g \in DOMAIN b.recs |-> c.recs[g]],
         \A g \in DOMAIN b.recs : g # f => c.recs[g] = b.recs[g]
  PROVE  [b EXCEPT !.recs[f] = c.recs[f]] = c
<1> DEFINE d == [b.recs EXCEPT ![f] = c.recs[f]]
<1>1. d = c.recs
  <2> DEFINE B == b.recs
             C == c.recs
             D == DOMAIN b.recs
  <2>1. B = [g \in D |-> B[g]] /\ C = [g \in D |-> C[g]] /\ f \in D /\ \A g \in D : g # f => C[g] = B[g]
    OBVIOUS
  <2> HIDE DEF B, C, D
  <2>2. [B EXCEPT ![f] = C[f]] = C
    BY ONLY <2>1
  <2>3. QED
    BY <2>2 DEF B, C
<1>2. [b EXCEPT !.recs[f] = c.recs[f]] = [b EXCEPT !.recs = d]
  OBVIOUS
<1> HIDE DEF d
<1>3. [b EXCEPT !.recs = d] = [k |-> b.k, tree |-> b.tree, er |-> b.er, catalog |-> b.catalog, recs |-> d]
  BY ONLY b = [k |-> b.k, tree |-> b.tree, er |-> b.er, catalog |-> b.catalog, recs |-> b.recs]
<1>4. QED
  BY ONLY <1>1, <1>2, <1>3, c = [k |-> b.k, tree |-> b.tree, er |-> b.er, catalog |-> b.catalog, recs |-> c.recs]
\* The directory that the file is to have: the one it has, with the record of
\* one file as another volume that is laid out in the same way has it.
LEMMA DirBlockAgain ==
  ASSUME NEW w, Laid(w), NEW t, NEW f \in InTree(w, t), NEW ver, NEW y, Laid(y), RenewedTo(w, y, f, ver),
         NEW x, Laid(x), Alike(y, x), SameData(y, x)
  PROVE  [DirBlock(w, t) EXCEPT !.recs[f] = DirBlock(x, t).recs[f]] = DirBlock(y, t)
<1> DEFINE b == DirBlock(w, t)
           c == DirBlock(y, t)
           S == InTree(w, t)
<1>0. f \in Files /\ Own(w)
  BY DEF InTree, Laid
<1>1. /\ InTree(y, t) = S /\ InTree(x, t) = S /\ Alike(w, y) /\ AlikePlaces(w, y) /\ AlikePlaces(y, x)
  <2>1. OwnFiles(y) /\ OwnFiles(x) /\ OneShared(x)
    BY OwnHas, OwnFilesHave DEF Laid
  <2>2. AlikePlaces(y, x) /\ InTree(x, t) = InTree(y, t)
    BY <2>1, AlikeSame, AlikeFilesSame DEF Alike
  <2>3. QED
    BY <1>0, <2>2, RenewedAlike
<1>2. /\ b.recs = [g \in S |-> RecOf(w, t, g)] /\ b.k = "dir" /\ b.tree = t
      /\ b.er = (IF t = "iso" /\ w.rr THEN ErAt(w) ELSE 0)
      /\ b.catalog = (IF w.catalog THEN CatalogAt(w) ELSE 0)
      /\ b = [k |-> b.k, tree |-> b.tree, er |-> b.er, catalog |-> b.catalog, recs |-> b.recs]
  BY DirBlockIs
<1>3. /\ c.recs = [g \in S |-> RecOf(y, t, g)] /\ c.k = "dir" /\ c.tree = t
      /\ c.er = (IF t = "iso" /\ y.rr THEN ErAt(y) ELSE 0)
      /\ c.catalog = (IF y.catalog THEN CatalogAt(y) ELSE 0)
      /\ c = [k |-> c.k, tree |-> c.tree, er |-> c.er, catalog |-> c.catalog, recs |-> c.recs]
  BY <1>1, DirBlockIs
<1>4. DirBlock(x, t).recs[f] = RecOf(x, t, f)
  <2>1. DirBlock(x, t).recs = [g \in InTree(x, t) |-> RecOf(x, t, g)]
    BY DirBlockIs
  <2>2. QED
    BY <1>1, <2>1
<1>5. RecOf(x, t, f) = RecOf(y, t, f)
  <2>1. x.files[f].len = y.files[f].len /\ x.files[f].ce = y.files[f].ce /\ x.files[f].bytes = y.files[f].bytes
    BY <1>0 DEF Alike, AlikeFiles, SameData
  <2>2. DataAtOf(x, f) = DataAtOf(y, f) /\ IsoAt(x) = IsoAt(y)
    BY <1>0, <1>1 DEF AlikePlaces
  <2>3. QED
    BY ONLY <2>1, <2>2 DEF RecOf
<1>6. \A g \in S : g # f => RecOf(y, t, g) = RecOf(w, t, g)
  <2>1. \A g \in Files : g # f => y.files[g] = w.files[g]
    BY <1>0, RenewedLike
  <2>2. (\A g \in Files : DataAtOf(y, g) = DataAtOf(w, g)) /\ IsoAt(y) = IsoAt(w)
    BY <1>1 DEF AlikePlaces
  <2>3. S \subseteq Files
    BY DEF InTree
  <2> HIDE DEF S
  <2>4. QED
    BY ONLY <2>1, <2>2, <2>3 DEF RecOf
<1>7. y.rr = w.rr /\ y.catalog = w.catalog /\ ErAt(y) = ErAt(w) /\ CatalogAt(y) = CatalogAt(w)
  BY <1>1 DEF Alike, AlikePlaces
<1>8. DirBlock(x, t).recs[f] = c.recs[f]
  BY <1>3, <1>4, <1>5
<1>9. f \in S
  OBVIOUS
<1> HIDE DEF b, c, S
<1>10. b.k = c.k /\ b.tree = c.tree /\ b.er = c.er /\ b.catalog = c.catalog
  BY ONLY <1>2, <1>3, <1>7
<1>11. DOMAIN b.recs = S /\ (\A g \in S : b.recs[g] = RecOf(w, t, g)) /\ b.recs = [g \in S |-> b.recs[g]]
  BY ONLY <1>2
<1>12. (\A g \in S : c.recs[g] = RecOf(y, t, g)) /\ c.recs = [g \in S |-> c.recs[g]]
  BY ONLY <1>3
<1>13. [b EXCEPT !.recs[f] = c.recs[f]] = c
  <2>1. c = [k |-> b.k, tree |-> b.tree, er |-> b.er, catalog |-> b.catalog, recs |-> c.recs]
    BY ONLY <1>3, <1>10
  <2>2. \A g \in DOMAIN b.recs : g # f => c.recs[g] = b.recs[g]
    BY ONLY <1>6, <1>11, <1>12
  <2>3. c.recs = [g \in DOMAIN b.recs |-> c.recs[g]] /\ b.recs = [g \in DOMAIN b.recs |-> b.recs[g]] /\ f \in DOMAIN b.recs
    BY ONLY <1>9, <1>11, <1>12
  <2>4. QED
    BY ONLY <1>2, <2>1, <2>2, <2>3, SetAgain
<1>14. QED
  BY <1>8, <1>13 DEF b, c
\* What modify_file_in_place puts where.
PvdPart(x) == <<Put(x.head["pvd"][1].extent, PvdBlock(x))>>
SvdPart(x) == IF x.joliet THEN <<Put(x.head["svd"][1].extent, SvdBlock(x))>> ELSE <<>>
RecPart(x, f, t, at) ==
  IF t \in x.files[f].in
  THEN <<Put(at, [At0(image, at) EXCEPT !.recs[f] = DirBlock(x, t).recs[f]])>> ELSE <<>>
EntryPart(x, f) ==
  IF "udf" \notin x.files[f].in THEN <<>>
  ELSE <<Put(x.files[f].fe,
             FileEntry(x.files[f].fe - x.set[1].extent, x.files[f].len, x.files[f].bytes["udf"],
                       IF x.files[f].len > 0 THEN x.files[f].ext - x.set[1].extent ELSE 0))>>
LEMMA InPlaceParts ==
  ASSUME NEW x, NEW f, f \notin x.boot
  PROVE  InPlacePuts(x, f) = PvdPart(x) \o SvdPart(x) \o DataPuts(x, <<f>>) \o RecPart(x, f, "iso", x.at.iso)
                               \o RecPart(x, f, "joliet", x.at.joliet) \o EntryPart(x, f)
BY DEF InPlacePuts, Rewritten, PvdPart, SvdPart, RecPart, EntryPart
LEMMA BothLaid ==
  ASSUME NEW y, Laid(y), NEW x, Laid(x), Alike(y, x)
  PROVE  /\ AlikePlaces(y, x) /\ PvdBlock(x) = PvdBlock(y) /\ (y.joliet => SvdBlock(x) = SvdBlock(y))
         /\ Present(x) = Present(y) /\ \A t : InTree(x, t) = InTree(y, t)
<1>1. OwnFiles(y) /\ OwnFiles(x) /\ OneShared(x)
  BY OwnHas, OwnFilesHave DEF Laid
<1>2. AlikePlaces(y, x)
  BY <1>1, AlikeSame
<1>3. Present(x) = Present(y) /\ \A t : InTree(x, t) = InTree(y, t)
  BY <1>1, AlikeFilesSame DEF Alike
<1>4. TreesAt(x) /\ TreesAt(y)
  BY LaidTreesAt
<1>5. x.udf = y.udf /\ x.joliet = y.joliet
  BY DEF Alike
<1>6. x.space = y.space
  <2>1. x.space = EndAt(x) + One(x.udf) /\ y.space = EndAt(y) + One(y.udf)
    BY OwnHas DEF Laid
  <2>2. QED
    BY <1>2, <1>5, <2>1 DEF AlikePlaces
<1>7. TreeStart(x) = TreeStart(y) /\ IsoAt(x) = IsoAt(y) /\ JolietAt(x) = JolietAt(y)
  BY <1>2 DEF AlikePlaces
<1>8. PvdBlock(x) = PvdBlock(y)
  BY ONLY <1>4, <1>6, <1>7 DEF TreesAt
<1>9. y.joliet => SvdBlock(x) = SvdBlock(y)
  BY ONLY <1>4, <1>5, <1>6, <1>7 DEF TreesAt
<1>10. QED
  BY <1>2, <1>3, <1>8, <1>9
LEMMA HeaderPartIs ==
  ASSUME NEW y, Laid(y), NEW x, Laid(x), Alike(y, x)
  PROVE  Among(PvdPart(x), PutsOf(y)) /\ Among(SvdPart(x), PutsOf(y))
<1>1. AlikePlaces(y, x) /\ PvdBlock(x) = PvdBlock(y) /\ (y.joliet => SvdBlock(x) = SvdBlock(y))
  BY BothLaid
<1>2. \A k \in HeaderNames : Len(x.head[k]) = Len(y.head[k]) /\ HeaderAt(x, k) = HeaderAt(y, k)
  BY <1>1 DEF Alike, AlikePlaces
<1>3. OwnHead(y) /\ x.joliet = y.joliet
  BY OwnHas DEF Laid, Alike
<1>4. "pvd" \in HeaderNames /\ "svd" \in HeaderNames
  BY Names
<1>5. Len(y.head["pvd"]) \in Nat /\ Len(y.head["pvd"]) >= 1 /\ Len(y.head["svd"]) = One(y.joliet)
  <2>1. HeaderCount(y, "svd") = One(y.joliet)
    BY DEF HeaderCount
  <2>2. QED
    BY <1>3, <1>4, <2>1 DEF OwnHead
<1>6. \A k \in HeaderNames : \A i \in 1..Len(x.head[k]) : x.head[k][i].extent = HeaderAt(x, k) + i - 1
  BY DEF Laid, Placed
<1>7. \A k \in HeaderNames : \A i \in 1..Len(y.head[k]) : Put(HeaderAt(y, k) + i - 1, HeaderBlock(y, k, i)) \in PutsOf(y)
  BY DEF PutsOf, HeadSet, HeaderSet
<1>8. HeaderBlock(y, "pvd", 1) = PvdBlock(y) /\ HeaderBlock(y, "svd", 1) = SvdBlock(y)
  BY DEF HeaderBlock
<1>9. Among(PvdPart(x), PutsOf(y))
  <2> DEFINE p == Put(x.head["pvd"][1].extent, PvdBlock(x))
  <2>1. 1 \in 1..Len(y.head["pvd"])
    BY <1>5
  <2>2. p = Put(HeaderAt(y, "pvd") + 1 - 1, HeaderBlock(y, "pvd", 1))
    BY <1>1, <1>2, <1>4, <1>6, <1>8, <2>1
  <2>3. p \in PutsOf(y)
    BY <1>4, <1>7, <2>1, <2>2
  <2> HIDE DEF p
  <2>4. Among(<<p>>, PutsOf(y))
    BY <2>3, AmongOne
  <2>5. QED
    BY <2>4 DEF p, PvdPart
<1>10. ASSUME y.joliet PROVE Among(SvdPart(x), PutsOf(y))
  <2> DEFINE p == Put(x.head["svd"][1].extent, SvdBlock(x))
  <2>1. 1 \in 1..Len(y.head["svd"])
    BY <1>5, <1>10 DEF One
  <2>2. p = Put(HeaderAt(y, "svd") + 1 - 1, HeaderBlock(y, "svd", 1))
    BY <1>1, <1>2, <1>4, <1>6, <1>8, <1>10, <2>1
  <2>3. p \in PutsOf(y)
    BY <1>4, <1>7, <2>1, <2>2
  <2> HIDE DEF p
  <2>4. Among(<<p>>, PutsOf(y))
    BY <2>3, AmongOne
  <2>5. QED
    BY <1>3, <1>10, <2>4 DEF p, SvdPart
<1>11. ASSUME ~y.joliet PROVE Among(SvdPart(x), PutsOf(y))
  BY <1>3, <1>11, AmongNone DEF SvdPart
<1>12. QED
  BY <1>9, <1>10, <1>11
LEMMA DataPartIs ==
  ASSUME NEW y, Laid(y), NEW x, Laid(x), Alike(y, x), SameData(y, x), NEW f \in Present(y)
  PROVE  Among(DataPuts(x, <<f>>), PutsOf(y)) /\ FileSet(y, f) = Ran(DataPuts(x, <<f>>))
<1>1. AlikePlaces(y, x) /\ Present(x) = Present(y) /\ f \in Files
  BY BothLaid DEF Present
<1>2. FileSet(x, f) = FileSet(y, f)
  BY <1>1 DEF FileSet, AlikePlaces, SameData
<1>3. PutsIn(DataPuts(x, <<f>>), FileSet(x, f), DataOf(x, f))
  BY <1>1, OneFilePuts
<1> DEFINE s == DataPuts(x, <<f>>)
<1> HIDE DEF s
<1>4. s \in Seq(FileSet(y, f)) /\ FileSet(y, f) = Ran(s)
  BY <1>2, <1>3 DEF PutsIn, s
<1>5. FileSet(y, f) \subseteq PutsOf(y)
  BY DEF PutsOf, DataSet
<1>6. s \in Seq(PutsOf(y))
  BY <1>4, <1>5, SeqWithin
<1>7. QED
  BY <1>4, <1>6 DEF Among, s
LEMMA RecPartIs ==
  ASSUME NEW w, Laid(w), NEW f \in Files, NEW ver, NEW y, Laid(y), RenewedTo(w, y, f, ver),
         NEW x, Laid(x), Alike(y, x), SameData(y, x), NEW t, NEW at,
         f \in InTree(y, t) => Put(at, DirBlock(y, t)) \in PutsOf(y) /\ At0(image, at) = DirBlock(w, t)
  PROVE  /\ Among(RecPart(x, f, t, at), PutsOf(y))
         /\ f \in InTree(y, t) => Put(at, DirBlock(y, t)) \in Ran(RecPart(x, f, t, at))
<1>1. t \in x.files[f].in <=> f \in InTree(y, t)
  BY BothLaid DEF InTree
<1>2. CASE f \in InTree(y, t)
  <2> DEFINE p == Put(at, [At0(image, at) EXCEPT !.recs[f] = DirBlock(x, t).recs[f]])
  <2>0. f \in InTree(w, t)
    BY <1>2, RenewedAlike DEF Laid
  <2>1. p = Put(at, DirBlock(y, t))
    BY <1>2, <2>0, DirBlockAgain
  <2>2. p \in PutsOf(y)
    BY <1>2, <2>1
  <2>3. RecPart(x, f, t, at) = <<p>>
    BY <1>1, <1>2 DEF RecPart
  <2> HIDE DEF p
  <2>4. QED
    BY <2>1, <2>2, <2>3, AmongOne, RanOne
<1>3. CASE f \notin InTree(y, t)
  BY <1>1, <1>3, AmongNone DEF RecPart
<1>4. QED
  BY <1>2, <1>3
LEMMA EntryPartIs ==
  ASSUME NEW y, Laid(y), NEW x, Laid(x), Alike(y, x), SameData(y, x), NEW f \in Files
  PROVE  /\ Among(EntryPart(x, f), PutsOf(y))
         /\ f \in InTree(y, "udf") => EntryPut(y, f) \in Ran(EntryPart(x, f))
<1>1. AlikePlaces(y, x) /\ (\A t : InTree(x, t) = InTree(y, t))
  BY BothLaid
<1>2. x.udf = y.udf /\ x.files[f].len = y.files[f].len /\ x.files[f].bytes = y.files[f].bytes
  BY DEF Alike, AlikeFiles, SameData
<1>3. "udf" \in x.files[f].in <=> f \in InTree(y, "udf")
  BY <1>1 DEF InTree
<1>4. CASE f \in InTree(y, "udf")
  <2>1. y.udf
    <3>1. y.files[f].in \subseteq TreesOf(y)
      BY OwnHas DEF Laid, OwnFiles, OwnFile
    <3>2. "udf" \in TreesOf(y)
      BY <1>4, <3>1 DEF InTree
    <3>3. QED
      BY <3>2 DEF TreesOf
  <2>2. x.set[1].extent = PartStart
    BY <1>2, <2>1, LaidUdf2
  <2>3. x.files[f].fe = EntryAtOf(y, f)
    BY <1>1, <1>4, LaidTreesAt DEF TreesAt, AlikePlaces
  <2>4. x.files[f].ext = DataAtOf(y, f) /\ y.files[f].ext = DataAtOf(y, f)
    <3>1. f \in Present(x) /\ f \in Present(y)
      BY <1>1, <1>4 DEF Present, InTree
    <3>2. QED
      BY <1>1, <3>1, LaidTreesAt DEF TreesAt, AlikePlaces
  <2> DEFINE n == y.files[f].len
             e == DataAtOf(y, f)
             c == y.files[f].bytes["udf"]
             p == Put(x.files[f].fe,
                      FileEntry(x.files[f].fe - x.set[1].extent, x.files[f].len, x.files[f].bytes["udf"],
                                IF x.files[f].len > 0 THEN x.files[f].ext - x.set[1].extent ELSE 0))
  <2>5. IF n > 0 THEN e > 0 ELSE e = 0
    <3>1. /\ EntryPut(y, f).is.len = n
          /\ (IF EntryPut(y, f).is.len > 0 THEN PartStart + EntryPut(y, f).is.block ELSE 0) = e
      BY <1>4, <2>1, EntrySays
    <3>2. EntryPut(y, f).is.block = IF e = 0 THEN 0 ELSE e - PartStart
      BY <2>4 DEF EntryPut, RelFe, Put, FileEntry
    <3>3. e \in Nat
      BY FilePlaces DEF Laid
    <3> HIDE DEF n, e
    <3>4. QED
      BY ONLY <3>1, <3>2, <3>3 DEF PartStart
  <2>6. (IF n > 0 THEN e - PartStart ELSE 0) = (IF e = 0 THEN 0 ELSE e - PartStart)
    <3>1. e \in Nat
      BY FilePlaces DEF Laid
    <3> HIDE DEF n, e
    <3>2. QED
      BY ONLY <2>5, <3>1
  <2>7. p = Put(EntryAtOf(y, f), FileEntry(EntryAtOf(y, f) - PartStart, n, c, IF n > 0 THEN e - PartStart ELSE 0))
    BY <1>2, <2>2, <2>3, <2>4
  <2>8. EntryPut(y, f) = Put(EntryAtOf(y, f), FileEntry(EntryAtOf(y, f) - PartStart, n, c, IF e = 0 THEN 0 ELSE e - PartStart))
    BY <2>4 DEF EntryPut, RelFe
  <2>9. p = EntryPut(y, f)
    <3> HIDE DEF p, n, e, c
    <3>1. QED
      BY ONLY <2>6, <2>7, <2>8
  <2>10. EntryPut(y, f) \in PutsOf(y)
    BY <1>4, <2>1 DEF PutsOf, UdfSet
  <2>11. EntryPart(x, f) = <<p>>
    BY <1>3, <1>4 DEF EntryPart
  <2> HIDE DEF p
  <2>12. QED
    BY <2>9, <2>10, <2>11, AmongOne, RanOne
<1>5. CASE f \notin InTree(y, "udf")
  BY <1>3, <1>5, AmongNone DEF EntryPart
<1>6. QED
  BY <1>4, <1>5
LEMMA InPlaceAmong ==
  ASSUME NEW w, Laid(w), NEW f \in Files, NEW ver, NEW y, Laid(y), RenewedTo(w, y, f, ver),
         NEW x, Laid(x), Alike(y, x), SameData(y, x), f \in InTree(y, "iso"), f \notin x.boot,
         At0(image, IsoAt(y)) = DirBlock(w, "iso"), y.joliet => At0(image, JolietAt(y)) = DirBlock(w, "joliet")
  PROVE  Among(InPlacePuts(x, f), PutsOf(y)) /\ NewPuts(y, f) \subseteq Ran(InPlacePuts(x, f))
<1>1. f \in Present(y)
  BY DEF InTree, Present
<1>2. Among(PvdPart(x), PutsOf(y)) /\ Among(SvdPart(x), PutsOf(y))
  BY HeaderPartIs
<1>3. Among(DataPuts(x, <<f>>), PutsOf(y)) /\ FileSet(y, f) = Ran(DataPuts(x, <<f>>))
  BY <1>1, DataPartIs
<1>4. x.at.iso = IsoAt(y) /\ x.joliet = y.joliet /\ (y.joliet => x.at.joliet = JolietAt(y))
  <2>1. AlikePlaces(y, x) /\ x.joliet = y.joliet
    BY BothLaid DEF Alike
  <2>2. QED
    BY <2>1 DEF Laid, Placed, AlikePlaces
<1>5. /\ Among(RecPart(x, f, "iso", x.at.iso), PutsOf(y))
      /\ Put(IsoAt(y), DirBlock(y, "iso")) \in Ran(RecPart(x, f, "iso", x.at.iso))
  <2>1. Put(IsoAt(y), DirBlock(y, "iso")) \in PutsOf(y)
    BY DEF PutsOf, IsoSet, TreeSet
  <2>2. QED
    BY <1>1, <1>4, <2>1, RecPartIs
<1>6. /\ Among(RecPart(x, f, "joliet", x.at.joliet), PutsOf(y))
      /\ f \in InTree(y, "joliet") => Put(JolietAt(y), DirBlock(y, "joliet")) \in Ran(RecPart(x, f, "joliet", x.at.joliet))
  <2>1. ASSUME f \in InTree(y, "joliet") PROVE y.joliet
    <3>1. y.files[f].in \subseteq TreesOf(y)
      BY <1>1, OwnHas DEF Laid, OwnFiles, OwnFile
    <3>2. "joliet" \in TreesOf(y)
      BY <2>1, <3>1 DEF InTree
    <3>3. QED
      BY <3>2 DEF TreesOf
  <2>2. y.joliet => Put(JolietAt(y), DirBlock(y, "joliet")) \in PutsOf(y)
    BY DEF PutsOf, JolietSet, TreeSet
  <2>3. QED
    BY <1>1, <1>4, <2>1, <2>2, RecPartIs
<1>7. /\ Among(EntryPart(x, f), PutsOf(y))
      /\ f \in InTree(y, "udf") => EntryPut(y, f) \in Ran(EntryPart(x, f))
  BY <1>1, EntryPartIs
<1> DEFINE P == PutsOf(y)
           a == PvdPart(x)
           b == SvdPart(x)
           c == DataPuts(x, <<f>>)
           d == RecPart(x, f, "iso", x.at.iso)
           e == RecPart(x, f, "joliet", x.at.joliet)
           g == EntryPart(x, f)
<1>8. Among(a, P) /\ Among(b, P) /\ Among(c, P) /\ Among(d, P) /\ Among(e, P) /\ Among(g, P)
  BY <1>2, <1>3, <1>5, <1>6, <1>7
<1>9. InPlacePuts(x, f) = a \o b \o c \o d \o e \o g
  BY InPlaceParts
<1>10. /\ FileSet(y, f) = Ran(c) /\ Put(IsoAt(y), DirBlock(y, "iso")) \in Ran(d)
       /\ f \in InTree(y, "joliet") => Put(JolietAt(y), DirBlock(y, "joliet")) \in Ran(e)
       /\ f \in InTree(y, "udf") => EntryPut(y, f) \in Ran(g)
  BY <1>3, <1>5, <1>6, <1>7
<1> HIDE DEF P, a, b, c, d, e, g
<1>11. Among(a \o b, P)
  BY ONLY <1>8, AmongJoined
<1>12. Among(a \o b \o c, P) /\ Ran(c) \subseteq Ran(a \o b \o c)
  BY ONLY <1>8, <1>11, AmongJoined
<1>13. Among(a \o b \o c \o d, P) /\ Ran(a \o b \o c) \cup Ran(d) \subseteq Ran(a \o b \o c \o d)
  BY ONLY <1>8, <1>12, AmongJoined
<1>14. Among(a \o b \o c \o d \o e, P) /\ Ran(a \o b \o c \o d) \cup Ran(e) \subseteq Ran(a \o b \o c \o d \o e)
  BY ONLY <1>8, <1>13, AmongJoined
<1>15. /\ Among(a \o b \o c \o d \o e \o g, P)
       /\ Ran(a \o b \o c \o d \o e) \cup Ran(g) \subseteq Ran(a \o b \o c \o d \o e \o g)
  BY ONLY <1>8, <1>14, AmongJoined
<1>16. Ran(c) \cup Ran(d) \cup Ran(e) \cup Ran(g) \subseteq Ran(a \o b \o c \o d \o e \o g)
  BY ONLY <1>12, <1>13, <1>14, <1>15
<1>17. \A p \in NewPuts(y, f) : p \in Ran(c) \cup Ran(d) \cup Ran(e) \cup Ran(g)
  <2>1. (f \in InTree(y, "joliet") <=> "joliet" \in y.files[f].in) /\ (f \in InTree(y, "udf") <=> "udf" \in y.files[f].in)
    BY DEF InTree
  <2>2. QED
    BY ONLY <1>10, <2>1 DEF NewPuts
<1>18. QED
  BY <1>9, <1>15, <1>16, <1>17 DEF P
\* The volume that modify_file_in_place leaves.
LEMMA InPlaceRenews ==
  ASSUME NEW v, Own(v), NEW f \in Files, f \notin v.boot, NEW ver
  PROVE  RenewedTo(v, Modified(v, f, ver), f, ver)
<1> DEFINE D == NewData(v, f, ver)
           B == NewBytes(v, f, ver)
           y == [v.files[f] EXCEPT !.data = D, !.bytes = B]
           F == [v.files EXCEPT ![f] = y]
           x == [v EXCEPT !.files = F]
<1>1. Modified(v, f, ver) = x
  <2>1. \A t \in v.files[f].in : t \in Rewritten(v, f)
    BY DEF Rewritten
  <2> DEFINE C == [t \in v.files[f].in |->
                     IF t \in Rewritten(v, f) THEN Bytes(v.files[f].len, ver) ELSE v.files[f].bytes[t]]
             z == [v.files[f] EXCEPT !.data = D, !.bytes = C]
  <2>2. C = B
    BY <2>1 DEF NewBytes
  <2>3. Modified(v, f, ver) = [v EXCEPT !.files[f] = z]
    BY DEF Modified, NewData
  <2> HIDE DEF C, D, B
  <2>4. QED
    BY ONLY <2>2, <2>3
<1>2. DOMAIN v = DOMAIN NoVolume /\ OwnFiles(v)
  BY OwnHas
<1>3. DOMAIN v.files[f] = DOMAIN NoFile /\ v.files = [g \in Files |-> v.files[g]]
  BY <1>2 DEF OwnFiles, OwnFile
<1> HIDE DEF D, B
<1>6. /\ y.data = D /\ y.bytes = B /\ DOMAIN y = DOMAIN v.files[f]
      /\ \A n \in DOMAIN v.files[f] \ {"data", "bytes"} : y[n] = v.files[f][n]
  BY <1>3 DEF NoFile
<1> HIDE DEF y
<1>7. F = [g \in Files |-> F[g]] /\ F[f] = y /\ \A g \in Files : g # f => F[g] = v.files[g]
  BY <1>3
<1> HIDE DEF F
<1> DEFINE K == {"udf", "joliet", "rr", "catalog", "tables", "jtables", "at", "head", "boot", "shared",
                 "blocks", "anchors", "set", "setEnd", "lvidEnd", "main", "reserve", "lvid", "space", "pending"}
<1>8. (\A n \in K : n \in DOMAIN v /\ n # "files") /\ "files" \in DOMAIN v
  BY <1>2, Fields
<1>9. x.files = F /\ DOMAIN x = DOMAIN v
  BY <1>8
<1>10. \A n \in K : x[n] = v[n]
  <2> HIDE DEF K
  <2>1. QED
    BY <1>8
<1> HIDE DEF x
<1>11. RenewedRest(v, x)
  BY ONLY <1>2, <1>9, <1>10 DEF RenewedRest
<1>12. RenewedFiles(v, x, f, ver)
  BY ONLY <1>6, <1>7, <1>9 DEF RenewedFiles, D, B
<1>13. QED
  BY <1>1, <1>11, <1>12 DEF RenewedTo
LEMMA RenewedBoth ==
  ASSUME NEW w, Own(w), NEW v, Own(v), Alike(w, v), SameData(w, v), NEW f \in Files, NEW ver,
         NEW y, RenewedTo(w, y, f, ver), NEW x, RenewedTo(v, x, f, ver)
  PROVE  Alike(y, x) /\ SameData(y, x)
<1>1. Alike(w, y) /\ Alike(v, x)
  BY RenewedAlike
<1>2. Alike(y, x)
  BY <1>1 DEF Alike, AlikeFiles
<1>3. \A g \in Files : g # f => x.files[g] = v.files[g] /\ y.files[g] = w.files[g]
  BY RenewedLike
<1>4. /\ x.files[f].data = NewData(v, f, ver) /\ x.files[f].bytes = NewBytes(v, f, ver)
      /\ y.files[f].data = NewData(w, f, ver) /\ y.files[f].bytes = NewBytes(w, f, ver)
  BY RenewedLike
<1>5. v.files[f].len = w.files[f].len /\ v.files[f].in = w.files[f].in
  BY DEF SameData
<1>6. \A g \in Files : x.files[g].data = y.files[g].data /\ x.files[g].bytes = y.files[g].bytes
  <2> SUFFICES ASSUME NEW g \in Files PROVE x.files[g].data = y.files[g].data /\ x.files[g].bytes = y.files[g].bytes
    OBVIOUS
  <2>1. CASE g = f
    BY <1>4, <1>5, <2>1 DEF NewData, NewBytes
  <2>2. CASE g # f
    BY <1>3, <2>2 DEF SameData
  <2>3. QED
    BY <2>1, <2>2
<1>7. \A g \in Files : x.files[g].in = y.files[g].in /\ x.files[g].len = y.files[g].len
  BY <1>2 DEF Alike, AlikeFiles
<1>8. QED
  BY <1>2, <1>6, <1>7 DEF SameData
\* Another version of one file is asked for.
NewVersion(t, s, f, ver) ==
  /\ s = [g \in Files |-> s[g]] /\ Asked(s)
  /\ \A g \in Files : g # f => s[g] = t[g]
  /\ s[f].in = t[f].in /\ s[f].len = t[f].len /\ s[f].ver = ver
LEMMA VersionAsked ==
  ASSUME NEW t, t = [g \in Files |-> t[g]], Asked(t), NEW f \in Files, NEW ver
  PROVE  NewVersion(t, [t EXCEPT ![f].ver = ver], f, ver)
<1> DEFINE y == [t[f] EXCEPT !.ver = ver]
           s == [t EXCEPT ![f] = y]
<1>1. [t EXCEPT ![f].ver = ver] = s
  OBVIOUS
<1>2. DOMAIN t[f] = {"in", "len", "ver"}
  BY DEF Asked
<1>3. DOMAIN y = {"in", "len", "ver"} /\ y.in = t[f].in /\ y.len = t[f].len /\ y.ver = ver
  BY <1>2
<1> HIDE DEF y
<1>4. s = [g \in Files |-> s[g]] /\ (\A g \in Files : g # f => s[g] = t[g]) /\ s[f] = y
  OBVIOUS
<1> HIDE DEF s
<1>5. Asked(s)
  BY <1>3, <1>4 DEF Asked
<1>6. QED
  BY <1>1, <1>3, <1>4, <1>5 DEF NewVersion
LEMMA ModifyInPlaceKeeps ==
  ASSUME Faults = {}, IInv, NEW f \in Files, ModifyInPlace(f)
  PROVE  IInv'
<1> DEFINE ver == calls + 1
           x == Modified(vol, f, calls + 1)
           t == [truth EXCEPT ![f].ver = calls + 1]
<1>1. /\ vol # NoVolume /\ "iso" \in vol.files[f].in /\ attached /\ f \notin vol.boot
      /\ calls < MaxCalls /\ calls' = ver /\ vol' = x /\ truth' = t
      /\ image' = [image EXCEPT !.blocks = Overlay(@, InPlacePuts(x, f))]
      /\ holds' = [holds EXCEPT ![f].ver = calls + 1]
      /\ raised' = "none" /\ source' = source /\ attached' = attached /\ cdfp' = cdfp
  BY DEF ModifyInPlace
<1>2. Own(vol) /\ Says(vol, truth) /\ vol.pending = FALSE /\ Laid(vol) /\ holds = truth
  BY <1>1 DEF IInv, Kept, AttachedKept, Laid
<1>3. PICK w : AsRead(w)
  BY <1>1 DEF IInv, AttachedKept
<1>4. Laid(w) /\ Own(w) /\ Says(w, truth) /\ Shows(image, w) /\ Alike(w, vol) /\ SameData(w, vol)
  BY <1>2, <1>3 DEF AsRead, Reads, Laid
<1>5. RenewedTo(vol, x, f, ver)
  BY <1>1, <1>2, InPlaceRenews
<1>6. truth = [g \in Files |-> truth[g]] /\ Asked(truth)
  BY DEF IInv, TruthKept, AskedKept
<1>7. NewVersion(truth, t, f, ver) /\ holds' = t
  BY <1>1, <1>2, <1>6, VersionAsked
<1>8. calls' \in 0..MaxCalls
  <2>1. MaxCalls \in Nat /\ calls \in 0..MaxCalls
    BY ConstantsAssumption DEF IInv, ConstantsAssumption
  <2>2. QED
    BY <1>1, <2>1
<1> DEFINE y == Renewed(w, f, ver)
<1>9. RenewedTo(w, y, f, ver)
  <2>1. DOMAIN w = DOMAIN NoVolume /\ OwnFiles(w)
    BY <1>4, OwnHas
  <2>2. DOMAIN w.files[f] = DOMAIN NoFile
    BY <2>1 DEF OwnFiles, OwnFile
  <2>3. QED
    BY <2>1, <2>2, RenewedHas
<1> HIDE DEF x, y, t, ver
<1>10. Laid(x) /\ Laid(y) /\ f \notin x.boot /\ "iso" \in w.files[f].in
  <2>1. Laid(x) /\ Laid(y) /\ x.boot = vol.boot
    BY <1>2, <1>4, <1>5, <1>9, RenewedAlike DEF Laid, RenewedTo, RenewedRest
  <2>2. QED
    BY <1>1, <1>4, <2>1 DEF SameData
<1>11. Alike(y, x) /\ SameData(y, x)
  BY <1>2, <1>4, <1>5, <1>9, RenewedBoth
<1>12. Says(x, t) /\ Says(y, t)
  BY <1>2, <1>4, <1>5, <1>7, <1>9, RenewedSays DEF NewVersion
<1>13. f \in Present(w) /\ f \in InTree(y, "iso")
  <2>1. "iso" \in w.files[f].in
    BY <1>1, <1>4 DEF SameData
  <2>2. f \in InTree(w, "iso") /\ f \in Present(w)
    BY <2>1 DEF InTree, Present
  <2>3. InTree(y, "iso") = InTree(w, "iso")
    BY <1>4, <1>9, RenewedAlike
  <2>4. QED
    BY <2>2, <2>3
<1>14. At0(image, IsoAt(y)) = DirBlock(w, "iso") /\ (y.joliet => At0(image, JolietAt(y)) = DirBlock(w, "joliet"))
  <2>1. ShowsTrees(image, w)
    BY <1>4, ShowsAll
  <2>2. AlikePlaces(w, y)
    BY <1>4, <1>9, RenewedAlike
  <2>3. y.joliet = w.joliet /\ IsoAt(y) = IsoAt(w) /\ JolietAt(y) = JolietAt(w)
    BY <1>9, <2>2 DEF RenewedTo, RenewedRest, AlikePlaces
  <2>4. QED
    BY <2>1, <2>3 DEF ShowsTrees
<1> DEFINE s == InPlacePuts(x, f)
<1>15. s \in Seq(PutsOf(y)) /\ NewPuts(y, f) \subseteq Ran(s)
  BY <1>4, <1>9, <1>10, <1>11, <1>13, <1>14, InPlaceAmong DEF Among
<1>16. image' = [image EXCEPT !.blocks = Overlay(@, s)]
  BY <1>1
<1> HIDE DEF s
<1>17. Shows(image', y)
  <2>1. Carries(PutsOf(y), PutsOf(w), NewPuts(y, f))
    BY <1>4, <1>9, <1>10, RenewedCarries
  <2>2. y.space = w.space
    BY <1>9 DEF RenewedTo, RenewedRest
  <2>3. QED
    BY <1>4, <1>10, <1>15, <1>16, <2>1, <2>2, ShowsRenewed
<1>18. Reads(image', y, holds')
  BY <1>7, <1>10, <1>12, <1>17 DEF Reads
<1>19. x.pending = FALSE /\ x # NoVolume
  BY <1>2, <1>5, <1>10, OwnNot DEF RenewedTo, RenewedRest, Laid
<1>20. image' # NoImage
  <2>1. image'.size = y.space
    BY <1>17 DEF Shows
  <2>2. y.space = EndAt(y) + One(y.udf) /\ EndAt(y) \in Nat /\ EndAt(y) > 0
    <3>1. y.space = EndAt(y) + One(y.udf) /\ RegionsOf(y)
      BY <1>10, OwnHas, OwnRegions DEF Laid
    <3>2. QED
      BY ONLY <3>1 DEF RegionsOf, Regions
  <2>3. y.space # 0
    BY ONLY <2>2 DEF One
  <2>4. QED
    BY <2>1, <2>3 DEF NoImage
<1>21. Kept' /\ ClosedKept'
  BY <1>1, <1>10, <1>12, <1>19 DEF Kept, ClosedKept, Laid
<1>22. TruthKept' /\ HoldsKept' /\ AskedKept'
  BY <1>1, <1>7 DEF TruthKept, HoldsKept, AskedKept, NewVersion
<1>23. ImageKept'
  BY <1>18 DEF ImageKept
<1>24. AttachedKept'
  <2>0. PICK c : c = y
    OBVIOUS
  <2>1. AsRead(c)'
    BY <1>1, <1>11, <1>18, <2>0 DEF AsRead
  <2>2. QED
    BY <1>1, <1>7, <1>19, <1>20, <2>1 DEF AttachedKept
<1>25. attached' \in BOOLEAN /\ raised' = "none" /\ source' = NoImage
  BY <1>1 DEF IInv
<1>26. QED
  BY <1>8, <1>21, <1>22, <1>23, <1>24, <1>25 DEF IInv
-----------------------------------------------------------------------------
(* The theorems, for the volumes that the library makes and writes itself:  *)
(* as long as no image of another tool was opened.                          *)

SourceKept == source' = source
LEMMA ForeignSource ==
  ASSUME NEW z \in Foreign, OpenForeign(z), source' = NoImage
  PROVE  /\ vol' = vol /\ truth' = truth /\ image' = image /\ holds' = holds /\ source' = source
         /\ attached' = attached /\ calls' = calls /\ raised' = "invalid"
<1>1. ~Opens(z.image)
  BY ForeignAssumption DEF OpenForeign
<1>2. QED
  BY <1>1 DEF OpenForeign
LEMMA SameKeeps ==
  ASSUME IInv, vol' = vol, truth' = truth, image' = image, holds' = holds, source' = source,
         attached' = attached, calls' = calls, raised' \in {"none", "invalid"}
  PROVE  IInv'
<1>1. Kept' /\ TruthKept' /\ HoldsKept' /\ AskedKept' /\ ClosedKept'
  BY DEF IInv, Kept, TruthKept, HoldsKept, AskedKept, ClosedKept
<1>2. ImageKept'
  BY DEF IInv, ImageKept
<1>3. AttachedKept'
  BY DEF IInv, AttachedKept, AsRead
<1>4. QED
  BY <1>1, <1>2, <1>3 DEF IInv
LEMMA CallsKeepSource ==
  ASSUME [Next]_vars, \A z \in Foreign : ~OpenForeign(z)
  PROVE  SourceKept
<1>1. CASE UNCHANGED vars
  BY <1>1 DEF vars, SourceKept
<1>2. ASSUME NEW k \in Kinds, New(k.udf, k.joliet, k.rr) PROVE SourceKept
  BY <1>2 DEF New, SourceKept
<1>3. ASSUME NEW v, NEW t, Change(v, t) PROVE SourceKept
  BY <1>3 DEF Change, SourceKept
<1>4. ASSUME NEW f \in Files, NEW len \in Lengths, NEW in \in Placements, NEW long \in BOOLEAN, AddFile(f, len, in, long)
      PROVE  SourceKept
  <2>1. \E v, t : Change(v, t)
    BY <1>4 DEF AddFile
  <2>2. QED
    BY <1>3, <2>1
<1>5. ASSUME NEW f \in Files, RmFile(f) PROVE SourceKept
  <2>1. \E v, t : Change(v, t)
    BY <1>5 DEF RmFile
  <2>2. QED
    BY <1>3, <2>1
<1>6. ASSUME NEW f \in Files, AddElTorito(f) PROVE SourceKept
  <2>1. \E v, t : Change(v, t)
    BY <1>6 DEF AddElTorito
  <2>2. QED
    BY <1>3, <2>1
<1>7. ASSUME RmElTorito PROVE SourceKept
  <2>1. \E v, t : Change(v, t)
    BY <1>7 DEF RmElTorito
  <2>2. QED
    BY <1>3, <2>1
<1>8. ASSUME DuplicatePvd PROVE SourceKept
  <2>1. \E v, t : Change(v, t)
    BY <1>8 DEF DuplicatePvd
  <2>2. QED
    BY <1>3, <2>1
<1>9. ASSUME NEW f \in Files, ModifyInPlace(f) PROVE SourceKept
  BY <1>9 DEF ModifyInPlace, SourceKept
<1>10. CASE ForceConsistency
  BY <1>10 DEF ForceConsistency, SourceKept
<1>11. CASE Write
  BY <1>11 DEF Write, WriteAs, SourceKept
<1>12. CASE Close
  BY <1>12 DEF Close, SourceKept
<1>13. CASE Open
  BY <1>13 DEF Open, SourceKept
<1>14. QED
  BY <1>1, <1>2, <1>4, <1>5, <1>6, <1>7, <1>8, <1>9, <1>10, <1>11, <1>12, <1>13 DEF Next
LEMMA CallsKeep ==
  ASSUME Faults = {}, IInv, [Next]_vars, \A z \in Foreign : ~OpenForeign(z)
  PROVE  IInv'
<1>1. CASE UNCHANGED vars
  <2>1. /\ vol' = vol /\ truth' = truth /\ image' = image /\ holds' = holds /\ source' = source
        /\ attached' = attached /\ calls' = calls /\ raised' = raised
    BY <1>1 DEF vars
  <2>2. raised \in {"none", "invalid"}
    BY DEF IInv
  <2>3. QED
    BY <2>1, <2>2, SameKeeps
<1>2. ASSUME NEW k \in Kinds, New(k.udf, k.joliet, k.rr) PROVE IInv'
  BY <1>2, NewKeeps
<1>3. CASE \/ \E f \in Files, len \in Lengths, in \in Placements, long \in BOOLEAN : AddFile(f, len, in, long)
           \/ \E f \in Files : RmFile(f) \/ AddElTorito(f)
           \/ RmElTorito \/ DuplicatePvd
  BY <1>3, ChangesKeep
<1>4. ASSUME NEW f \in Files, ModifyInPlace(f) PROVE IInv'
  BY <1>4, ModifyInPlaceKeeps
<1>5. CASE ForceConsistency
  BY <1>5, ForceKeeps
<1>6. CASE Write
  BY <1>6, WriteKeeps
<1>7. CASE Close
  BY <1>7, CloseKeeps
<1>8. CASE Open
  BY <1>8, OpenKeeps
<1>9. QED
  BY <1>1, <1>2, <1>3, <1>4, <1>5, <1>6, <1>7, <1>8 DEF Next

\* The invariant: the promises of a volume that no other tool has made.
OwnInv == source = NoImage => IInv
LEMMA StepKeeps ==
  ASSUME Faults = {}, OwnInv, [Next]_vars
  PROVE  OwnInv'
<1> SUFFICES ASSUME source' = NoImage PROVE IInv'
  BY DEF OwnInv
<1>1. ASSUME NEW z \in Foreign, OpenForeign(z) PROVE IInv'
  <2>1. /\ vol' = vol /\ truth' = truth /\ image' = image /\ holds' = holds /\ source' = source
        /\ attached' = attached /\ calls' = calls /\ raised' = "invalid"
    BY <1>1, ForeignSource
  <2>2. IInv
    BY <2>1 DEF OwnInv
  <2>3. QED
    BY <2>1, <2>2, SameKeeps
<1>2. ASSUME \A z \in Foreign : ~OpenForeign(z) PROVE IInv'
  <2>1. source = NoImage
    BY <1>2, CallsKeepSource DEF SourceKept
  <2>2. IInv
    BY <2>1 DEF OwnInv
  <2>3. QED
    BY <1>2, <2>2, CallsKeep
<1>3. QED
  BY <1>1, <1>2

\* Every reachable state of a volume that was made by new() obeys the
\* invariant: what the object holds is what was asked for, laid out or yet to
\* be, and the file is a volume with what it is to hold, each at its place, as
\* it was written.
THEOREM VolumesKept == Faults = {} /\ Spec => []OwnInv
<1> SUFFICES ASSUME Faults = {} PROVE Spec => []OwnInv
  OBVIOUS
<1>1. Init => OwnInv
  BY Starts DEF OwnInv
<1>2. OwnInv /\ [Next]_vars => OwnInv'
  BY StepKeeps
<1>3. QED
  BY <1>1, <1>2, PTL DEF Spec

\* new(), add_fp, rm_file, add_eltorito, open() and the other calls leave an
\* object with the fields they are to have, sizes that are not negative, boot
\* files that are there and data as long as the files say.
THEOREM VolumeTyped == Faults = {} /\ Spec => [](source = NoImage => TypeOK)
<1>1. OwnInv => (source = NoImage => TypeOK)
  BY TypeHolds DEF OwnInv
<1>2. QED
  BY <1>1, VolumesKept, PTL

\* The size that the calls have added up is, after any number of them, just
\* what _reshuffle_extents comes to: of the volume, of the UDF partition and in
\* the integrity descriptor; and _write_fp writes no block twice.
THEOREM SpaceIsExact == Faults = {} /\ Spec => []SpaceExact
<1>1. OwnInv => SpaceExact
  BY SpaceHolds DEF OwnInv, SpaceExact
<1>2. QED
  BY <1>1, VolumesKept, PTL

\* Laying a volume out ends without an exception, and open() accepts every file
\* that write_fp or modify_file_in_place leaves.
THEOREM WrittenIsOpened == Faults = {} /\ Spec => [](source = NoImage => WrittenOpens)
<1>1. OwnInv => (source = NoImage => WrittenOpens)
  BY OpensHolds DEF OwnInv
<1>2. QED
  BY <1>1, VolumesKept, PTL

\* In every file that is left, each tree leads to just the files that the client
\* put there, and to their last contents, however often the volume was changed,
\* written, closed, opened and modified in place.
THEOREM FilesAreIntact == Faults = {} /\ Spec => [](source = NoImage => FilesIntact)
<1>1. OwnInv => (source = NoImage => FilesIntact)
  BY IntactHolds DEF OwnInv
<1>2. QED
  BY <1>1, VolumesKept, PTL

=============================================================================
