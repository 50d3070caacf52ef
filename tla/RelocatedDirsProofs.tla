------------------------ MODULE RelocatedDirsProofs ------------------------
(***************************************************************************)
(* Proofs about RelocatedDirs, for every set of names, every depth and     *)
(* every level at which directories are relocated.                         *)
(***************************************************************************)
EXTENDS RelocatedDirs, FiniteSetTheorems, WellFoundedInduction, TLAPS

LEMMA LeastNatural ==
  ASSUME NEW S \in SUBSET Nat, S # {}
  PROVE  \E m \in S : \A q \in S : m <= q
<1>1. PICK m \in S : \A q \in S : ~(<<q, m>> \in OpToRel(<, Nat))
  BY NatLessThanWellFounded, WFMin, Zenon
<1>2. \A q \in S : ~(q < m)
  BY <1>1, Zenon DEF OpToRel
<1>3. QED
  BY <1>2

\* Induction up to n.
LEMMA UpTo ==
  ASSUME NEW T, NEW n \in Nat, 0 \in T, \A j \in 0..(n - 1) : j \in T => j + 1 \in T
  PROVE  \A j \in 0..n : j \in T
<1> SUFFICES ASSUME (0..n) \ T # {} PROVE FALSE
  OBVIOUS
<1>1. (0..n) \ T \subseteq Nat
  OBVIOUS
<1>2. PICK x \in (0..n) \ T : \A y \in (0..n) \ T : x <= y
  BY <1>1, LeastNatural
<1>3. x # 0 /\ x - 1 \in 0..(n - 1) /\ x - 1 \in 0..n /\ ~(x <= x - 1)
  BY <1>2
<1>4. x - 1 \in T
  BY <1>2, <1>3
<1>5. (x - 1) + 1 \in T
  BY <1>3, <1>4
<1>6. (x - 1) + 1 = x
  BY <1>2
<1>7. QED
  BY <1>2, <1>5, <1>6

-----------------------------------------------------------------------------
(* What is reached from a set of objects is the least set that has them    *)
(* and, with each object, those it leads to.                               *)

Onward(S, to) == UNION {{r} \cup to[r] : r \in S}
StepsOf(g, R, to, k) == g = [n \in 0..k |-> IF n = 0 THEN R ELSE Onward(g[n - 1], to)]

LEMMA StepsExist ==
  ASSUME NEW R, NEW to, NEW k \in Nat
  PROVE  \E g : StepsOf(g, R, to, k)
<1> DEFINE F(g, j) == IF j = 0 THEN R ELSE Onward(g[j - 1], to)
           T == {n \in 0..k : \E g : g = [j \in 0..n |-> F(g, j)]}
<1>1. 0 \in T
  <2> DEFINE g == [j \in 0..0 |-> R]
  <2>1. g = [j \in 0..0 |-> F(g, j)]
    OBVIOUS
  <2> HIDE DEF g
  <2>2. QED
    BY <2>1
<1>2. ASSUME NEW n \in 0..(k - 1), n \in T PROVE n + 1 \in T
  <2>1. PICK g : g = [j \in 0..n |-> F(g, j)]
    BY <1>2
  <2> DEFINE h == [j \in 0..(n + 1) |-> IF j = n + 1 THEN F(g, n + 1) ELSE g[j]]
  <2>2. ASSUME NEW j \in 0..(n + 1) PROVE h[j] = F(h, j)
    <3>1. CASE j = n + 1
      <4>1. j # 0 /\ j - 1 = n /\ h[j - 1] = g[j - 1] /\ h[j] = F(g, j)
        BY <3>1
      <4> HIDE DEF h
      <4>2. QED
        BY <4>1
    <3>2. CASE j # n + 1
      <4>1. j \in 0..n /\ h[j] = g[j] /\ (j # 0 => h[j - 1] = g[j - 1])
        BY <3>2
      <4>2. g[j] = F(g, j)
        BY <2>1, <4>1
      <4> HIDE DEF h
      <4>3. QED
        BY <4>1, <4>2
    <3>3. QED
      BY <3>1, <3>2
  <2>3. h = [j \in 0..(n + 1) |-> h[j]]
    OBVIOUS
  <2> HIDE DEF h
  <2>4. h = [j \in 0..(n + 1) |-> F(h, j)]
    <3> HIDE DEF F
    <3>1. QED
      BY <2>2, <2>3
  <2>5. n + 1 \in 0..k
    OBVIOUS
  <2>6. QED
    BY <2>4, <2>5
<1> HIDE DEF T
<1>3. k \in T
  <2>1. \A n \in 0..(k - 1) : n \in T => n + 1 \in T
    BY <1>2
  <2>2. k \in Nat
    OBVIOUS
  <2>3. \A n \in 0..k : n \in T
    BY ONLY <1>1, <2>1, <2>2, UpTo
  <2>4. QED
    BY <2>3
<1>4. PICK g : g = [j \in 0..k |-> F(g, j)]
  <2> HIDE DEF F
  <2>1. QED
    BY <1>3 DEF T
<1>5. StepsOf(g, R, to, k) <=> g = [j \in 0..k |-> F(g, j)]
  BY Zenon DEF StepsOf
<1>6. QED
  BY <1>4, <1>5, Zenon

\* The recursive function is what its definition says.
LEMMA StepsAre ==
  ASSUME NEW R, NEW to, NEW k \in Nat
  PROVE  /\ Steps(R, to, k)[0] = R
         /\ \A n \in 1..k : Steps(R, to, k)[n] = Onward(Steps(R, to, k)[n - 1], to)
<1>1. \E g : StepsOf(g, R, to, k)
  BY StepsExist
<1>2. Steps(R, to, k) = CHOOSE g : StepsOf(g, R, to, k)
  BY Zenon DEF Steps, StepsOf, Onward
<1>3. StepsOf(Steps(R, to, k), R, to, k)
  BY <1>1, <1>2
<1> DEFINE e == Steps(R, to, k)
<1> HIDE DEF e
<1>4. \A n \in 0..k : e[n] = IF n = 0 THEN R ELSE Onward(e[n - 1], to)
  BY <1>3 DEF StepsOf, e
<1>5. 0 \in 0..k /\ \A n \in 1..k : n \in 0..k /\ n # 0
  OBVIOUS
<1>6. e[0] = R /\ \A n \in 1..k : e[n] = Onward(e[n - 1], to)
  BY <1>4, <1>5
<1>7. QED
  BY <1>6 DEF e

Graph(to) ==
  /\ IsFiniteSet(DOMAIN to)
  /\ \A r \in DOMAIN to : to[r] \subseteq DOMAIN to
Closed(S, to) == \A r \in S : to[r] \subseteq S

\* n steps either reach all there is, or more than n objects.
LEMMA Reaching ==
  ASSUME NEW to, Graph(to), NEW R \in SUBSET DOMAIN to, R # {}, NEW k \in Nat
  PROVE  \A n \in 0..k :
           LET S == Steps(R, to, k)[n]
           IN  /\ R \subseteq S /\ S \subseteq DOMAIN to
               /\ Closed(S, to) \/ Cardinality(S) > n
<1> DEFINE e == Steps(R, to, k)
           D == DOMAIN to
           T == {n \in 0..k : /\ R \subseteq e[n] /\ e[n] \subseteq D
                              /\ Closed(e[n], to) \/ Cardinality(e[n]) > n}
<1>1. e[0] = R /\ \A n \in 1..k : e[n] = Onward(e[n - 1], to)
  BY StepsAre
<1> HIDE DEF e
<1>2. 0 \in T
  <2>1. IsFiniteSet(R)
    BY FS_Subset DEF Graph
  <2>2. Cardinality(R) \in Nat /\ Cardinality(R) # 0
    BY <2>1, FS_CardinalityType, FS_EmptySet
  <2>3. QED
    BY <1>1, <2>2
<1>3. ASSUME NEW n \in 0..(k - 1), n \in T PROVE n + 1 \in T
  <2>1. e[n + 1] = Onward(e[n], to)
    <3>1. n + 1 \in 1..k /\ (n + 1) - 1 = n
      OBVIOUS
    <3>2. QED
      BY <1>1, <3>1
  <2>2. e[n] \subseteq e[n + 1] /\ e[n + 1] \subseteq D
    BY <1>3, <2>1 DEF Onward, Graph
  <2>3. n + 1 \in 0..k /\ n \in Nat
    OBVIOUS
  <2>4. CASE Closed(e[n], to)
    <3>1. e[n + 1] = e[n]
      BY <2>1, <2>4 DEF Onward, Closed
    <3>2. QED
      BY <1>3, <2>3, <2>4, <3>1
  <2>5. CASE ~Closed(e[n], to)
    <3>1. PICK x \in e[n + 1] : x \notin e[n]
      BY <2>1, <2>5 DEF Onward, Closed
    <3>2. IsFiniteSet(e[n]) /\ IsFiniteSet(e[n + 1])
      BY <1>3, <2>2, FS_Subset DEF Graph
    <3>3. IsFiniteSet(e[n] \cup {x}) /\ Cardinality(e[n] \cup {x}) = Cardinality(e[n]) + 1
      BY <3>1, <3>2, FS_AddElement
    <3>4. e[n] \cup {x} \subseteq e[n + 1]
      BY <2>2, <3>1
    <3>5. Cardinality(e[n] \cup {x}) <= Cardinality(e[n + 1])
      BY <3>2, <3>4, FS_Subset
    <3>6. Cardinality(e[n]) \in Nat /\ Cardinality(e[n + 1]) \in Nat
      BY <3>2, FS_CardinalityType
    <3>7. Cardinality(e[n + 1]) > n + 1
      BY <1>3, <2>3, <2>5, <3>3, <3>5, <3>6
    <3>8. QED
      BY <1>3, <2>2, <2>3, <3>7
  <2>6. QED
    BY <2>4, <2>5
<1> HIDE DEF T
<1>4. \A n \in 0..k : n \in T
  <2>1. \A n \in 0..(k - 1) : n \in T => n + 1 \in T
    BY <1>3
  <2>2. k \in Nat
    OBVIOUS
  <2>3. QED
    BY ONLY <1>2, <2>1, <2>2, UpTo
<1>5. QED
  BY <1>4 DEF T, e

\* What is reached has what it leads to,
LEMMA ReachedIs ==
  ASSUME NEW to, Graph(to), NEW R \in SUBSET DOMAIN to, R # {}
  PROVE  /\ R \subseteq Reached(R, to) /\ Reached(R, to) \subseteq DOMAIN to
         /\ Closed(Reached(R, to), to)
<1> DEFINE k == Cardinality(DOMAIN to)
           S == Steps(R, to, k)[k]
<1>1. k \in Nat /\ k \in 0..k
  BY FS_CardinalityType DEF Graph
<1>2. R \subseteq S /\ S \subseteq DOMAIN to /\ (Closed(S, to) \/ Cardinality(S) > k)
  <2> HIDE DEF k
  <2>1. QED
    BY <1>1, Reaching
<1>3. Cardinality(S) <= k
  BY <1>2, FS_Subset DEF Graph
<1>4. IsFiniteSet(S)
  BY <1>2, FS_Subset DEF Graph
<1>5. Cardinality(S) \in Nat
  BY <1>4, FS_CardinalityType
<1>6. Closed(S, to)
  <2> HIDE DEF S, k
  <2>1. QED
    BY <1>1, <1>2, <1>3, <1>5
<1>7. Reached(R, to) = S
  BY DEF Reached
<1>8. QED
  BY <1>2, <1>6, <1>7

\* and is the least set of that kind.
LEMMA ReachedLeast ==
  ASSUME NEW to, Graph(to), NEW R \in SUBSET DOMAIN to, NEW A, R \subseteq A,
         \A r \in A \cap DOMAIN to : to[r] \subseteq A
  PROVE  Reached(R, to) \subseteq A
<1> DEFINE k == Cardinality(DOMAIN to)
           e == Steps(R, to, k)
           D == DOMAIN to
           T == {n \in 0..k : e[n] \subseteq A \cap D}
<1>1. k \in Nat
  BY FS_CardinalityType DEF Graph
<1>2. e[0] = R /\ \A n \in 1..k : e[n] = Onward(e[n - 1], to)
  <2> HIDE DEF k
  <2>1. QED
    BY <1>1, StepsAre
<1>3. Reached(R, to) = e[k]
  BY DEF Reached
<1> HIDE DEF e, k
<1>4. 0 \in T
  BY <1>1, <1>2
<1>5. ASSUME NEW n \in 0..(k - 1), n \in T PROVE n + 1 \in T
  <2>1. n + 1 \in 1..k /\ n + 1 \in 0..k /\ (n + 1) - 1 = n
    BY <1>1
  <2>2. e[n + 1] = Onward(e[n], to)
    BY <1>2, <2>1
  <2>3. QED
    BY <1>5, <2>1, <2>2 DEF Onward, Graph
<1> HIDE DEF T
<1>6. \A n \in 0..k : n \in T
  <2>1. \A n \in 0..(k - 1) : n \in T => n + 1 \in T
    BY <1>5
  <2>2. QED
    BY ONLY <1>1, <1>4, <2>1, UpTo
<1>7. QED
  BY <1>1, <1>3, <1>6 DEF T

-----------------------------------------------------------------------------
(***************************************************************************)
(* The objects, by what they were made for.  That much holds whatever the  *)
(* client does and wherever an operation stops.                            *)
(***************************************************************************)
Relocates(p) == Len(p) % Levels = 0
\* What _find_or_create_rr_moved may take for RR_MOVED.
Holders == {RrMovedRec} \cup {DirRec(p) : p \in {q \in Path : Relocates(q)}}

Object == [kids : SUBSET Rec, parent : Rec \cup {None}, ident : Ident \cup {None},
           target : Rec \cup {None}, link : Rec \cup {None}]

RootKind(v) == v.parent = None /\ v.ident = None /\ v.target = None /\ v.link = None
RrMovedKind(v) ==
  v.parent = Root /\ v.ident = <<RrMoved, 0>> /\ v.target = None /\ v.link = None
PlainKind(p, v) ==
  v.parent # None /\ v.ident = <<Last(p), 0>> /\ v.target = None /\ v.link = None
MovedKind(p, v) ==
  /\ v.parent \in Holders /\ v.ident \in {Last(p)} \X Nat
  /\ v.target = None /\ v.link = LinkRec(p)
LinkKind(p, v) ==
  /\ v.parent # None /\ v.ident = <<Last(p), 0>>
  /\ v.target = DirRec(p) /\ v.link = None /\ v.kids = {}
Kind(r, v) ==
  /\ v \in Object
  /\ r = Root => RootKind(v)
  /\ r = RrMovedRec => RrMovedKind(v)
  /\ \A p \in Path : r = DirRec(p) => IF Relocates(p) THEN MovedKind(p, v) ELSE PlainKind(p, v)
  /\ \A p \in Path : r = LinkRec(p) => Relocates(p) /\ LinkKind(p, v)

\* Everything an object refers to exists or is among the objects X, which are
\* about to be made.
RefersIn(o, X) ==
  \A r \in DOMAIN o :
    /\ o[r].kids \subseteq DOMAIN o \ {Root}
    /\ {o[r].parent, o[r].target, o[r].link} \subseteq DOMAIN o \cup X \cup {None}
AtHome(o) == \A d \in DOMAIN o : \A c \in o[d].kids : o[c].parent = d
Apart(o) ==
  \A d \in DOMAIN o : \A c, e \in o[d].kids : o[c].ident = o[e].ident => c = e
Tree(o, X) ==
  /\ Root \in DOMAIN o /\ DOMAIN o \subseteq Rec /\ IsFiniteSet(DOMAIN o)
  /\ \A r \in DOMAIN o : Kind(r, o[r])
  /\ RefersIn(o, X) /\ AtHome(o) /\ Apart(o)
TreeInv == Tree(obj, {}) /\ rrMoved \in {None} \cup (Holders \cap DOMAIN obj)

-----------------------------------------------------------------------------
(* Paths and records. *)

LEMMA PathFacts ==
  ASSUME NEW p \in Path
  PROVE  /\ p \in Seq(Name) /\ Len(p) \in Nat /\ Len(p) >= 1 /\ Len(p) <= MaxDepth
         /\ Last(p) \in Name /\ Last(p) = p[Len(p)]
         /\ Front(p) = SubSeq(p, 1, Len(p) - 1)
         /\ p # <<>>
<1>1. PICK n \in 1..MaxDepth : p \in [1..n -> Name]
  BY DEF Path
<1>2. n \in Nat /\ n >= 1 /\ n <= MaxDepth
  BY RelocatedDirsAssumption
<1>3. p \in Seq(Name) /\ Len(p) = n
  BY <1>1, <1>2
<1>4. Front(p) = SubSeq(p, 1, Len(p) - 1) /\ Last(p) = p[Len(p)]
  BY DEF Front, Last
<1>5. QED
  BY <1>2, <1>3, <1>4

LEMMA RecFacts ==
  /\ Root \in Rec /\ RrMovedRec \in Rec /\ Root # RrMovedRec
  /\ \A p \in Path : DirRec(p) \in Rec /\ LinkRec(p) \in Rec
  /\ \A p \in Path : /\ DirRec(p) # Root /\ DirRec(p) # RrMovedRec
                     /\ LinkRec(p) # Root /\ LinkRec(p) # RrMovedRec
  /\ \A p, q \in Path : /\ DirRec(p) # LinkRec(q)
                        /\ DirRec(p) = DirRec(q) => p = q
                        /\ LinkRec(p) = LinkRec(q) => p = q
  /\ \A r \in Rec : \/ r = Root \/ r = RrMovedRec
                    \/ \E p \in Path : r = DirRec(p) \/ r = LinkRec(p)
  /\ \A r \in Rec : r # None
  /\ Holders \subseteq Rec \ {Root}
<1>1. \A p \in Path : p # <<>>
  BY PathFacts
<1>2. \A p \in Path : DirRec(p) # Root /\ DirRec(p) # RrMovedRec /\ LinkRec(p) # Root /\ LinkRec(p) # RrMovedRec
  BY <1>1 DEF DirRec, LinkRec, Root, RrMovedRec
<1>3. \A p, q \in Path : /\ DirRec(p) # LinkRec(q)
                         /\ DirRec(p) = DirRec(q) => p = q
                         /\ LinkRec(p) = LinkRec(q) => p = q
  BY DEF DirRec, LinkRec
<1>4. Root # RrMovedRec
  BY DEF Root, RrMovedRec
<1>5. \A r \in Rec : \/ r = Root \/ r = RrMovedRec
                     \/ \E p \in Path : r = DirRec(p) \/ r = LinkRec(p)
  BY DEF Rec
<1>6. Root \in Rec /\ RrMovedRec \in Rec /\ \A p \in Path : DirRec(p) \in Rec /\ LinkRec(p) \in Rec
  BY DEF Rec
<1>7. Holders \subseteq Rec \ {Root}
  BY <1>2, <1>4, <1>6 DEF Holders
<1>8. \A r \in Rec : r # None
  BY NoneAssumption
<1>9. QED
  BY <1>2, <1>3, <1>4, <1>5, <1>6, <1>7, <1>8

LEMMA TreeFacts ==
  ASSUME NEW o, NEW X, Tree(o, X), NEW r \in DOMAIN o
  PROVE  /\ o[r] \in Object /\ r \in Rec
         /\ r # Root => o[r].parent \in Rec /\ o[r].ident \in Ident
         /\ o[r].target # None =>
              \E p \in Path : r = LinkRec(p) /\ Relocates(p) /\ LinkKind(p, o[r])
         /\ o[r].link # None =>
              \E p \in Path : r = DirRec(p) /\ Relocates(p) /\ MovedKind(p, o[r])
         /\ o[r].ident = <<RrMoved, 0>> => r = RrMovedRec
<1>1. Kind(r, o[r]) /\ r \in Rec
  BY DEF Tree
<1>2. o[r] \in Object
  BY <1>1 DEF Kind
<1>3. CASE r = Root
  <2>1. RootKind(o[r])
    BY <1>1, <1>3 DEF Kind
  <2>2. <<RrMoved, 0>> # None
    BY NoneAssumption DEF Ident
  <2>3. QED
    BY <1>1, <1>2, <1>3, <2>1, <2>2 DEF RootKind
<1>4. CASE r = RrMovedRec
  <2>1. RrMovedKind(o[r]) /\ r # Root
    BY <1>1, <1>4, RecFacts DEF Kind
  <2>2. <<RrMoved, 0>> \in Ident
    BY DEF Ident
  <2>3. QED
    BY <1>1, <1>2, <1>4, <2>1, <2>2, RecFacts DEF RrMovedKind
<1>5. ASSUME NEW p \in Path, r = DirRec(p)
      PROVE  /\ o[r].parent # None /\ o[r].ident \in Ident /\ o[r].target = None
             /\ o[r].link # None => Relocates(p) /\ MovedKind(p, o[r])
             /\ o[r].ident # <<RrMoved, 0>>
  <2>1. Last(p) \in Name /\ RrMoved # Last(p)
    BY PathFacts, RelocatedDirsAssumption
  <2>2. CASE Relocates(p)
    <3>1. MovedKind(p, o[r])
      BY <1>1, <1>5, <2>2 DEF Kind
    <3>2. o[r].parent # None
      BY <3>1, RecFacts DEF MovedKind
    <3>3. PICK k \in Nat : o[r].ident = <<Last(p), k>>
      BY <3>1 DEF MovedKind
    <3>4. QED
      BY <2>1, <2>2, <3>1, <3>2, <3>3 DEF Ident, MovedKind
  <2>3. CASE ~Relocates(p)
    <3>1. PlainKind(p, o[r])
      BY <1>1, <1>5, <2>3 DEF Kind
    <3>2. QED
      BY <2>1, <3>1 DEF Ident, PlainKind
  <2>4. QED
    BY <2>2, <2>3
<1>6. ASSUME NEW p \in Path, r = LinkRec(p)
      PROVE  /\ o[r].parent # None /\ o[r].ident \in Ident /\ o[r].link = None
             /\ Relocates(p) /\ LinkKind(p, o[r])
             /\ o[r].ident # <<RrMoved, 0>>
  <2>1. Last(p) \in Name /\ RrMoved # Last(p)
    BY PathFacts, RelocatedDirsAssumption
  <2>2. Relocates(p) /\ LinkKind(p, o[r])
    BY <1>1, <1>6 DEF Kind
  <2>3. QED
    BY <2>1, <2>2 DEF Ident, LinkKind
<1>7. r # Root => o[r].parent \in Rec \cup {None}
  BY <1>2 DEF Object
<1>8. CASE \E p \in Path : r = DirRec(p)
  <2>1. PICK p \in Path : r = DirRec(p)
    BY <1>8
  <2>2. QED
    BY <1>1, <1>2, <1>5, <1>7, <2>1
<1>9. CASE \E p \in Path : r = LinkRec(p)
  <2>1. PICK p \in Path : r = LinkRec(p)
    BY <1>9
  <2>2. QED
    BY <1>1, <1>2, <1>6, <1>7, <2>1
<1>10. QED
  BY <1>1, <1>3, <1>4, <1>8, <1>9, RecFacts

-----------------------------------------------------------------------------
(* What happens to the objects: one more, fewer children, fewer objects. *)

\* A new record in a directory that has no record of its name.
LEMMA InsertTree ==
  ASSUME NEW o, NEW X, Tree(o, X), NEW d \in DOMAIN o, o[d].target = None,
         NEW c \in Rec \ DOMAIN o, NEW v, Kind(c, v), v.kids = {}, v.parent = d,
         {v.target, v.link} \subseteq DOMAIN o \cup X \cup {None, c},
         Named(o, d, v.ident) = {}
  PROVE  Tree(Insert(o, d, c, v), X)
<1> DEFINE n == Insert(o, d, c, v)
<1>1. /\ DOMAIN n = DOMAIN o \cup {c} /\ n[c] = v /\ c # d
      /\ n[d] = [o[d] EXCEPT !.kids = @ \cup {c}]
      /\ \A r \in DOMAIN o \ {d} : n[r] = o[r]
  BY DEF Insert
<1>2. /\ Root \in DOMAIN o /\ DOMAIN o \subseteq Rec /\ IsFiniteSet(DOMAIN o)
      /\ \A r \in DOMAIN o : Kind(r, o[r])
  BY DEF Tree
<1>3. o[d] \in Object /\ v \in Object
  BY TreeFacts DEF Kind
<1>4. /\ n[d].kids = o[d].kids \cup {c} /\ n[d].parent = o[d].parent /\ n[d].ident = o[d].ident
      /\ n[d].target = o[d].target /\ n[d].link = o[d].link /\ n[d] \in Object
  <2>1. o[d].kids \cup {c} \in SUBSET Rec
    BY <1>3 DEF Object
  <2>2. QED
    BY <1>1, <1>3, <2>1 DEF Object
<1>5. \A r \in DOMAIN o : /\ n[r].parent = o[r].parent /\ n[r].ident = o[r].ident
                          /\ n[r].target = o[r].target /\ n[r].link = o[r].link
  BY <1>1, <1>4
<1> HIDE DEF n
<1>6. ASSUME NEW r \in DOMAIN n PROVE Kind(r, n[r])
  <2>1. CASE r = c
    BY <1>1, <2>1
  <2>2. CASE r = d
    <3>1. Kind(d, o[d])
      BY <1>2
    <3>2. \A p \in Path : d # LinkRec(p)
      BY <3>1, RecFacts DEF Kind, LinkKind
    <3>3. QED
      BY <1>4, <2>2, <3>1, <3>2 DEF Kind, RootKind, RrMovedKind, PlainKind, MovedKind
  <2>3. CASE r # c /\ r # d
    BY <1>1, <1>2, <2>3
  <2>4. QED
    BY <2>1, <2>2, <2>3
<1>7. RefersIn(n, X)
  <2>1. c # Root
    BY <1>2
  <2>2. RefersIn(o, X)
    BY DEF Tree
  <2>3. ASSUME NEW r \in DOMAIN n
        PROVE  /\ n[r].kids \subseteq DOMAIN n \ {Root}
               /\ {n[r].parent, n[r].target, n[r].link} \subseteq DOMAIN n \cup X \cup {None}
    <3>1. CASE r = c
      BY <1>1, <3>1
    <3>2. CASE r = d
      <4>1. /\ o[d].kids \subseteq DOMAIN o \ {Root}
            /\ {o[d].parent, o[d].target, o[d].link} \subseteq DOMAIN o \cup X \cup {None}
        BY <2>2 DEF RefersIn
      <4>2. n[r].kids \subseteq DOMAIN n \ {Root}
        BY <1>1, <1>4, <2>1, <3>2, <4>1
      <4>3. {n[r].parent, n[r].target, n[r].link} \subseteq DOMAIN n \cup X \cup {None}
        <5>1. {n[r].parent, n[r].target, n[r].link} = {o[d].parent, o[d].target, o[d].link}
          BY <1>4, <3>2
        <5>2. DOMAIN n = DOMAIN o \cup {c}
          BY <1>1
        <5>3. QED
          BY ONLY <4>1, <5>1, <5>2
      <4>4. QED
        BY <4>2, <4>3
    <3>3. CASE r # c /\ r # d
      BY <1>1, <2>2, <3>3 DEF RefersIn
    <3>4. QED
      BY <3>1, <3>2, <3>3
  <2>4. QED
    BY <2>3 DEF RefersIn
<1>8. \A r \in DOMAIN o : o[r].kids \subseteq DOMAIN o
  BY DEF Tree, RefersIn
<1>9. AtHome(n)
  <2>1. AtHome(o)
    BY DEF Tree
  <2>2. ASSUME NEW r \in DOMAIN n, NEW e \in n[r].kids PROVE n[e].parent = r
    <3>1. CASE r = c
      BY <1>1, <2>2, <3>1
    <3>2. CASE r = d
      <4>1. CASE e = c
        BY <1>1, <3>2, <4>1
      <4>2. CASE e # c
        BY <1>4, <1>5, <1>8, <2>1, <2>2, <3>2, <4>2 DEF AtHome
      <4>3. QED
        BY <4>1, <4>2
    <3>3. CASE r # c /\ r # d
      BY <1>1, <1>5, <1>8, <2>1, <2>2, <3>3 DEF AtHome
    <3>4. QED
      BY <3>1, <3>2, <3>3
  <2>3. QED
    BY <2>2 DEF AtHome
<1>10. Apart(n)
  <2>1. Apart(o)
    BY DEF Tree
  <2>2. \A e \in o[d].kids : n[e].ident # v.ident
    BY <1>5, <1>8 DEF Named
  <2>3. ASSUME NEW r \in DOMAIN n, NEW e \in n[r].kids, NEW f \in n[r].kids,
               n[e].ident = n[f].ident
        PROVE  e = f
    <3>1. CASE r = c
      BY <1>1, <2>3, <3>1
    <3>2. CASE r = d
      <4>1. n[r].kids = o[d].kids \cup {c} /\ n[c] = v
        BY <1>1, <1>4, <3>2
      <4>2. CASE e = c
        BY <2>2, <2>3, <4>1, <4>2
      <4>3. CASE f = c
        BY <2>2, <2>3, <4>1, <4>3
      <4>4. CASE e # c /\ f # c
        <5>1. e \in o[d].kids /\ f \in o[d].kids /\ o[e].ident = o[f].ident
          BY <1>5, <1>8, <2>3, <4>1, <4>4
        <5>2. QED
          BY <2>1, <5>1 DEF Apart
      <4>5. QED
        BY <4>2, <4>3, <4>4
    <3>3. CASE r # c /\ r # d
      <4>1. r \in DOMAIN o /\ e \in o[r].kids /\ f \in o[r].kids
        BY <1>1, <2>3, <3>3
      <4>2. o[e].ident = o[f].ident
        BY <1>5, <1>8, <2>3, <4>1
      <4>3. QED
        BY <2>1, <4>1, <4>2 DEF Apart
    <3>4. QED
      BY <3>1, <3>2, <3>3
  <2>4. QED
    BY <2>3 DEF Apart
<1>11. Root \in DOMAIN n /\ DOMAIN n \subseteq Rec /\ IsFiniteSet(DOMAIN n)
  BY <1>1, <1>2, FS_AddElement
<1>12. QED
  BY <1>6, <1>7, <1>9, <1>10, <1>11 DEF Tree, n

\* Objects that have lost children, all else being the same.
Fewer(o, n) ==
  /\ DOMAIN n = DOMAIN o
  /\ \A r \in DOMAIN o : /\ n[r].kids \subseteq o[r].kids
                         /\ n[r] = [o[r] EXCEPT !.kids = n[r].kids]

\* Directories that lose children.
LEMMA FewerTree ==
  ASSUME NEW o, Tree(o, {}), NEW n, Fewer(o, n)
  PROVE  Tree(n, {})
<1>1. DOMAIN n = DOMAIN o /\ \A r \in DOMAIN o : o[r] \in Object
  BY TreeFacts DEF Fewer
<1>2. ASSUME NEW r \in DOMAIN o
      PROVE  /\ n[r].kids \subseteq o[r].kids /\ n[r].parent = o[r].parent
             /\ n[r].ident = o[r].ident /\ n[r].target = o[r].target
             /\ n[r].link = o[r].link /\ n[r] \in Object
  <2>1. n[r].kids \subseteq o[r].kids /\ n[r] = [o[r] EXCEPT !.kids = n[r].kids]
    BY DEF Fewer
  <2>2. o[r] \in Object /\ n[r].kids \in SUBSET Rec
    BY <1>1, <2>1 DEF Object
  <2> DEFINE k == n[r].kids
  <2> HIDE DEF k
  <2>3. n[r] = [o[r] EXCEPT !.kids = k] /\ k \in SUBSET Rec
    BY <2>1, <2>2 DEF k
  <2>4. /\ n[r].parent = o[r].parent /\ n[r].ident = o[r].ident
        /\ n[r].target = o[r].target /\ n[r].link = o[r].link /\ n[r] \in Object
    BY <2>2, <2>3 DEF Object
  <2>5. QED
    BY <2>1, <2>4
<1>3. ASSUME NEW r \in DOMAIN o PROVE Kind(r, n[r])
  <2>1. Kind(r, o[r])
    BY DEF Tree
  <2>2. QED
    BY <1>2, <2>1 DEF Kind, RootKind, RrMovedKind, PlainKind, MovedKind, LinkKind
<1>4. RefersIn(n, {})
  <2>1. RefersIn(o, {})
    BY DEF Tree
  <2>2. ASSUME NEW r \in DOMAIN n
        PROVE  /\ n[r].kids \subseteq DOMAIN n \ {Root}
               /\ {n[r].parent, n[r].target, n[r].link} \subseteq DOMAIN n \cup {} \cup {None}
    BY <1>1, <1>2, <2>1 DEF RefersIn
  <2>3. QED
    BY <2>2 DEF RefersIn
<1>5. \A r \in DOMAIN o : o[r].kids \subseteq DOMAIN o
  BY DEF Tree, RefersIn
<1>6. AtHome(n)
  <2>1. AtHome(o)
    BY DEF Tree
  <2>2. QED
    BY <1>1, <1>2, <1>5, <2>1 DEF AtHome
<1>7. Apart(n)
  <2>1. Apart(o)
    BY DEF Tree
  <2>2. ASSUME NEW r \in DOMAIN o, NEW e \in n[r].kids, NEW f \in n[r].kids,
               n[e].ident = n[f].ident
        PROVE  e = f
    <3>1. e \in o[r].kids /\ f \in o[r].kids
      BY <1>2
    <3>2. o[e].ident = o[f].ident
      BY <1>2, <1>5, <2>2, <3>1
    <3>3. QED
      BY <2>1, <3>1, <3>2 DEF Apart
  <2>3. QED
    BY <1>1, <2>2 DEF Apart
<1>8. QED
  BY <1>1, <1>3, <1>4, <1>6, <1>7 DEF Tree

LEMMA RefersGraph ==
  ASSUME NEW o, Tree(o, {})
  PROVE  /\ DOMAIN Refers(o) = DOMAIN o /\ Graph(Refers(o))
         /\ \A r \in DOMAIN o :
              Refers(o)[r] = o[r].kids \cup ({o[r].parent, o[r].target, o[r].link} \ {None})
<1>1. /\ DOMAIN Refers(o) = DOMAIN o
      /\ \A r \in DOMAIN o :
              Refers(o)[r] = o[r].kids \cup ({o[r].parent, o[r].target, o[r].link} \ {None})
  BY DEF Refers
<1>2. RefersIn(o, {}) /\ IsFiniteSet(DOMAIN o)
  BY DEF Tree
<1>3. \A r \in DOMAIN o : Refers(o)[r] \subseteq DOMAIN o
  BY <1>1, <1>2 DEF RefersIn
<1>4. QED
  BY <1>1, <1>2, <1>3 DEF Graph

\* What nothing refers to is forgotten, and nothing refers to it.
LEMMA CollectTree ==
  ASSUME NEW o, Tree(o, {}), NEW m \in DOMAIN o \cup {None}
  PROVE  LET n == Collect(o, m)
         IN  /\ DOMAIN n \subseteq DOMAIN o /\ m \in DOMAIN n \cup {None}
             /\ \A r \in DOMAIN n : n[r] = o[r]
             /\ Tree(n, {})
<1> DEFINE R == {Root} \cup ({m} \ {None})
           C == Reached(R, Refers(o))
           n == Collect(o, m)
<1>1. Root \in DOMAIN o /\ R \in SUBSET DOMAIN o /\ R # {}
  BY DEF Tree
<1>2. R \subseteq C /\ C \subseteq DOMAIN o /\ Closed(C, Refers(o))
  <2> HIDE DEF R
  <2>1. DOMAIN Refers(o) = DOMAIN o /\ Graph(Refers(o))
    BY RefersGraph
  <2>2. R \in SUBSET DOMAIN Refers(o)
    BY <1>1, <2>1
  <2>3. QED
    BY <1>1, <2>1, <2>2, ReachedIs
<1>3. DOMAIN n = C /\ \A r \in C : n[r] = o[r]
  BY DEF Collect, Restrict
<1> HIDE DEF C, n
<1>4. \A r \in C : /\ o[r].kids \subseteq C
                   /\ {o[r].parent, o[r].target, o[r].link} \subseteq C \cup {None}
  BY <1>2, RefersGraph DEF Closed
<1>5. RefersIn(n, {})
  <2>1. RefersIn(o, {})
    BY DEF Tree
  <2>2. QED
    BY <1>2, <1>3, <1>4, <2>1 DEF RefersIn
<1>6. AtHome(n) /\ Apart(n)
  <2>1. AtHome(o) /\ Apart(o)
    BY DEF Tree
  <2>2. ASSUME NEW r \in C, NEW e \in n[r].kids PROVE e \in o[r].kids /\ n[e] = o[e] /\ r \in DOMAIN o
    BY <1>2, <1>3, <1>4
  <2>3. AtHome(n)
    BY <1>3, <2>1, <2>2 DEF AtHome
  <2>4. ASSUME NEW r \in C, NEW e \in n[r].kids, NEW f \in n[r].kids,
               n[e].ident = n[f].ident
        PROVE  e = f
    <3>1. e \in o[r].kids /\ f \in o[r].kids /\ o[e].ident = o[f].ident /\ r \in DOMAIN o
      BY <2>2, <2>4
    <3>2. QED
      BY <2>1, <3>1 DEF Apart
  <2>5. Apart(n)
    BY <1>3, <2>4 DEF Apart
  <2>6. QED
    BY <2>3, <2>5
<1>7. /\ Root \in C /\ C \subseteq Rec /\ IsFiniteSet(C)
      /\ \A r \in C : Kind(r, n[r])
  BY <1>2, <1>3, FS_Subset DEF Tree
<1>8. QED
  BY <1>2, <1>3, <1>5, <1>6, <1>7 DEF Tree, n

-----------------------------------------------------------------------------
(* Lookups. *)

WalkOf(g, o, p) == g = [n \in 0..Len(p) |-> IF n = 0 THEN Root ELSE Below(o, g[n - 1], p[n])]

LEMMA WalkExists ==
  ASSUME NEW o, NEW p, Len(p) \in Nat
  PROVE  \E g : WalkOf(g, o, p)
<1> DEFINE F(g, j) == IF j = 0 THEN Root ELSE Below(o, g[j - 1], p[j])
           k == Len(p)
           T == {n \in 0..k : \E g : g = [j \in 0..n |-> F(g, j)]}
<1>1. k \in Nat
  OBVIOUS
<1>2. 0 \in T
  <2> DEFINE g == [j \in 0..0 |-> Root]
  <2>1. g = [j \in 0..0 |-> F(g, j)]
    OBVIOUS
  <2> HIDE DEF g
  <2>2. QED
    BY <1>1, <2>1
<1>3. ASSUME NEW n \in 0..(k - 1), n \in T PROVE n + 1 \in T
  <2>1. PICK g : g = [j \in 0..n |-> F(g, j)]
    BY <1>3
  <2> DEFINE h == [j \in 0..(n + 1) |-> IF j = n + 1 THEN F(g, n + 1) ELSE g[j]]
  <2>2. ASSUME NEW j \in 0..(n + 1) PROVE h[j] = F(h, j)
    <3>1. CASE j = n + 1
      <4>1. j # 0 /\ j - 1 = n /\ h[j - 1] = g[j - 1] /\ h[j] = F(g, j)
        BY <3>1
      <4> HIDE DEF h
      <4>2. QED
        BY <4>1
    <3>2. CASE j # n + 1
      <4>1. j \in 0..n /\ h[j] = g[j] /\ (j # 0 => h[j - 1] = g[j - 1])
        BY <3>2
      <4>2. g[j] = F(g, j)
        BY <2>1, <4>1
      <4> HIDE DEF h
      <4>3. QED
        BY <4>1, <4>2
    <3>3. QED
      BY <3>1, <3>2
  <2>3. h = [j \in 0..(n + 1) |-> h[j]]
    OBVIOUS
  <2> HIDE DEF h
  <2>4. h = [j \in 0..(n + 1) |-> F(h, j)]
    <3> HIDE DEF F
    <3>1. QED
      BY <2>2, <2>3
  <2>5. n + 1 \in 0..k
    BY <1>1
  <2>6. QED
    BY <2>4, <2>5
<1> HIDE DEF T
<1>4. k \in T
  <2> HIDE DEF k
  <2>1. \A n \in 0..(k - 1) : n \in T => n + 1 \in T
    BY <1>3
  <2>2. \A n \in 0..k : n \in T
    BY ONLY <1>1, <1>2, <2>1, UpTo
  <2>3. QED
    BY <1>1, <2>2
<1>5. PICK g : g = [j \in 0..k |-> F(g, j)]
  <2> HIDE DEF F, k
  <2>1. QED
    BY <1>4 DEF T
<1>6. WalkOf(g, o, p) <=> g = [j \in 0..k |-> F(g, j)]
  BY Zenon DEF WalkOf
<1>7. QED
  BY <1>5, <1>6, Zenon

\* A lookup goes from name to name.
LEMMA WalkIs ==
  ASSUME NEW o, NEW p, Len(p) \in Nat
  PROVE  /\ Walk(o, p)[0] = Root
         /\ \A n \in 1..Len(p) : Walk(o, p)[n] = Below(o, Walk(o, p)[n - 1], p[n])
<1>1. \E g : WalkOf(g, o, p)
  BY WalkExists
<1>2. Walk(o, p) = CHOOSE g : WalkOf(g, o, p)
  BY Zenon DEF Walk, WalkOf
<1>3. WalkOf(Walk(o, p), o, p)
  BY <1>1, <1>2
<1> DEFINE e == Walk(o, p)
<1> HIDE DEF e
<1>4. \A n \in 0..Len(p) : e[n] = IF n = 0 THEN Root ELSE Below(o, e[n - 1], p[n])
  BY <1>3 DEF WalkOf, e
<1>5. 0 \in 0..Len(p) /\ \A n \in 1..Len(p) : n \in 0..Len(p) /\ n # 0
  OBVIOUS
<1>6. e[0] = Root /\ \A n \in 1..Len(p) : e[n] = Below(o, e[n - 1], p[n])
  BY <1>4, <1>5
<1>7. QED
  BY <1>6 DEF e

\* A directory, or nothing.
IsDirOf(o, r) == r \in DOMAIN o /\ o[r].target = None

LEMMA BelowIs ==
  ASSUME NEW o, Tree(o, {}), NEW d, d # None => d \in DOMAIN o, NEW x
  PROVE  Below(o, d, x) # None => IsDirOf(o, Below(o, d, x)) /\ Below(o, d, x) # Root
<1> DEFINE cs == IF d = None THEN {} ELSE Named(o, d, <<x, 0>>)
           c == CHOOSE c \in cs : TRUE
<1>1. CASE cs = {}
  <2>1. Below(o, d, x) = None
    BY <1>1, Zenon DEF Below
  <2>2. QED
    BY <2>1
<1>2. CASE cs # {}
  <2>1. Below(o, d, x) = IF IsLink(o, c) THEN o[c].target ELSE c
    BY <1>2, Zenon DEF Below
  <2>2. c \in cs
    BY <1>2
  <2>3. d \in DOMAIN o /\ c \in o[d].kids
    BY <1>2, <2>2 DEF Named
  <2> HIDE DEF c, cs
  <2>4. c \in DOMAIN o /\ c # Root /\ {o[c].target} \subseteq DOMAIN o \cup {None}
    BY <2>3 DEF Tree, RefersIn
  <2>5. CASE o[c].target = None
    BY <2>1, <2>4, <2>5 DEF IsLink, IsDirOf
  <2>6. CASE o[c].target # None
    <3>1. PICK p \in Path : Relocates(p) /\ LinkKind(p, o[c])
      BY <2>4, <2>6, TreeFacts
    <3>2. o[c].target = DirRec(p) /\ DirRec(p) \in DOMAIN o /\ DirRec(p) # Root
      BY <2>4, <2>6, <3>1, RecFacts DEF LinkKind
    <3>3. MovedKind(p, o[DirRec(p)])
      BY <3>1, <3>2 DEF Tree, Kind
    <3>4. QED
      BY <2>1, <2>6, <3>2, <3>3 DEF IsLink, IsDirOf, MovedKind
  <2>7. QED
    BY <2>5, <2>6
<1>3. QED
  BY <1>1, <1>2

\* A lookup ends at a directory or at nothing, never at a child link.
LEMMA FindIs ==
  ASSUME NEW o, Tree(o, {}), NEW p, Len(p) \in Nat
  PROVE  /\ Find(o, p) # None => IsDirOf(o, Find(o, p))
         /\ Len(p) # 0 => Find(o, p) # Root
<1> DEFINE e == Walk(o, p)
           k == Len(p)
           T == {n \in 0..k : e[n] # None => IsDirOf(o, e[n])}
<1>1. e[0] = Root /\ \A n \in 1..k : e[n] = Below(o, e[n - 1], p[n])
  BY WalkIs
<1>2. Find(o, p) = e[k]
  BY DEF Find
<1>3. k \in Nat
  OBVIOUS
<1> HIDE DEF e, k
<1>4. 0 \in T
  <2>1. Root \in DOMAIN o /\ Kind(Root, o[Root])
    BY DEF Tree
  <2>2. QED
    BY <1>1, <1>3, <2>1 DEF Kind, RootKind, IsDirOf
<1>5. ASSUME NEW n \in 0..(k - 1), n \in T PROVE n + 1 \in T
  <2>1. n + 1 \in 1..k /\ n + 1 \in 0..k /\ (n + 1) - 1 = n
    BY <1>3
  <2>2. e[n + 1] = Below(o, e[n], p[n + 1])
    BY <1>1, <2>1
  <2>3. e[n] # None => e[n] \in DOMAIN o
    BY <1>5 DEF IsDirOf
  <2>4. QED
    BY <2>1, <2>2, <2>3, BelowIs
<1> HIDE DEF T
<1>6. \A n \in 0..k : n \in T
  <2>1. \A n \in 0..(k - 1) : n \in T => n + 1 \in T
    BY <1>5
  <2>2. QED
    BY ONLY <1>3, <1>4, <2>1, UpTo
<1>7. e[k] # None => IsDirOf(o, e[k])
  BY <1>3, <1>6 DEF T
<1>8. ASSUME k # 0 PROVE e[k] # Root
  <2>1. k \in 1..k /\ k - 1 \in 0..k
    BY <1>3, <1>8
  <2>2. e[k] = Below(o, e[k - 1], p[k])
    BY <1>1, <2>1
  <2>3. e[k - 1] # None => e[k - 1] \in DOMAIN o
    BY <1>6, <2>1 DEF T, IsDirOf
  <2>4. e[k] # None => e[k] # Root
    BY <2>2, <2>3, BelowIs
  <2>5. QED
    BY <2>4, RecFacts
<1>9. QED
  BY <1>2, <1>7, <1>8 DEF k

LEMMA FrontLength ==
  ASSUME NEW p \in Path
  PROVE  Len(Front(p)) \in Nat /\ Len(Front(p)) = Len(p) - 1
BY PathFacts

\* A name with a number that no record below d has: there are fewer records
\* than numbers to try.
LEMMA FreeIdentIsFree ==
  ASSUME NEW o, NEW X, Tree(o, X), NEW d \in DOMAIN o, NEW x
  PROVE  FreeIdent(o, d, x) \in {x} \X Nat /\ Named(o, d, FreeIdent(o, d, x)) = {}
<1> DEFINE kids == o[d].kids
           n == Cardinality(kids)
           K == {k \in 0..n : Named(o, d, <<x, k>>) = {}}
<1>1. IsFiniteSet(kids) /\ n \in Nat
  <2>1. kids \subseteq DOMAIN o /\ IsFiniteSet(DOMAIN o)
    BY DEF Tree, RefersIn
  <2>2. QED
    BY <2>1, FS_Subset, FS_CardinalityType
<1>2. K # {}
  <2> SUFFICES ASSUME K = {} PROVE FALSE
    OBVIOUS
  <2> DEFINE f == [k \in 0..n |-> CHOOSE c \in Named(o, d, <<x, k>>) : TRUE]
  <2>1. ASSUME NEW k \in 0..n PROVE f[k] \in kids /\ o[f[k]].ident = <<x, k>>
    <3>1. Named(o, d, <<x, k>>) # {}
      BY <2>1
    <3>2. f[k] \in Named(o, d, <<x, k>>)
      BY <3>1
    <3>3. QED
      BY <3>2 DEF Named
  <2>2. f \in [0..n -> kids]
    BY <2>1
  <2> HIDE DEF f, n, kids
  <2>3. IsFiniteSet(0..n) /\ Cardinality(0..n) = n + 1
    BY <1>1, FS_Interval
  <2>4. n + 1 > n
    BY <1>1
  <2>5. PICK i \in 0..n, j \in 0..n : i # j /\ f[i] = f[j]
    <3>1. IsFiniteSet(kids) /\ Cardinality(kids) = n
      BY <1>1 DEF n
    <3> DEFINE S == 0..n
    <3>2. /\ IsFiniteSet(S) /\ IsFiniteSet(kids)
          /\ Cardinality(kids) < Cardinality(S) /\ f \in [S -> kids]
      BY <2>2, <2>3, <2>4, <3>1
    <3> HIDE DEF S
    <3>3. \E i, j \in S : i # j /\ f[i] = f[j]
      BY ONLY <3>2, FS_PigeonHole
    <3>4. QED
      BY <3>3 DEF S
  <2>6. QED
    BY <2>1, <2>5
<1>3. K \subseteq Nat
  BY <1>1
<1>4. \E k \in K : \A q \in K : k <= q
  BY <1>2, <1>3, LeastNatural
<1>5. Min(K) \in K
  BY <1>4 DEF Min
<1>6. FreeIdent(o, d, x) = <<x, Min(K)>>
  BY DEF FreeIdent
<1>7. QED
  BY <1>3, <1>5, <1>6

\* What becomes of the objects that were there: nothing but new children.
Same(o, n) ==
  \A r \in DOMAIN o : /\ n[r].parent = o[r].parent /\ n[r].ident = o[r].ident
                      /\ n[r].target = o[r].target /\ n[r].link = o[r].link
Inserted(o, n, d, c, v) ==
  /\ DOMAIN n = DOMAIN o \cup {c} /\ n[c] = v
  /\ n[d].kids = o[d].kids \cup {c}
  /\ \A r \in DOMAIN o \ {d} : n[r] = o[r]
  /\ Same(o, n)

LEMMA InsertIs ==
  ASSUME NEW o, NEW d \in DOMAIN o, o[d] \in Object, NEW c \in Rec \ DOMAIN o, NEW v
  PROVE  Inserted(o, Insert(o, d, c, v), d, c, v)
<1> DEFINE n == Insert(o, d, c, v)
<1>1. /\ DOMAIN n = DOMAIN o \cup {c} /\ n[c] = v /\ c # d
      /\ n[d] = [o[d] EXCEPT !.kids = @ \cup {c}]
      /\ \A r \in DOMAIN o \ {d} : n[r] = o[r]
  BY DEF Insert
<1>2. /\ n[d].kids = o[d].kids \cup {c} /\ n[d].parent = o[d].parent /\ n[d].ident = o[d].ident
      /\ n[d].target = o[d].target /\ n[d].link = o[d].link
  BY <1>1 DEF Object
<1> HIDE DEF n
<1>3. QED
  BY <1>1, <1>2 DEF n, Inserted, Same

LEMMA DirectoryIs ==
  ASSUME NEW d \in Rec \cup {None}, NEW id \in Ident \cup {None}
  PROVE  LET v == Directory(d, id)
         IN  /\ v \in Object /\ v.kids = {} /\ v.parent = d /\ v.ident = id
             /\ v.target = None /\ v.link = None
BY DEF Directory, Object

LEMMA ChildLinkIs ==
  ASSUME NEW d \in Rec, NEW id \in Ident, NEW r \in Rec
  PROVE  LET v == ChildLink(d, id, r)
         IN  /\ v \in Object /\ v.kids = {} /\ v.parent = d /\ v.ident = id
             /\ v.target = r /\ v.link = None
BY DEF ChildLink, Directory, Object

LEMMA RelocatedIs ==
  ASSUME NEW d \in Rec, NEW id \in Ident, NEW c \in Rec
  PROVE  LET v == Relocated(d, id, c)
         IN  /\ v \in Object /\ v.kids = {} /\ v.parent = d /\ v.ident = id
             /\ v.target = None /\ v.link = c
BY DEF Relocated, Directory, Object

LEMMA NewKinds ==
  ASSUME NEW v \in Object
  PROVE  /\ RootKind(v) => Kind(Root, v)
         /\ RrMovedKind(v) => Kind(RrMovedRec, v)
         /\ \A p \in Path : ~Relocates(p) /\ PlainKind(p, v) => Kind(DirRec(p), v)
         /\ \A p \in Path : Relocates(p) /\ MovedKind(p, v) => Kind(DirRec(p), v)
         /\ \A p \in Path : Relocates(p) /\ LinkKind(p, v) => Kind(LinkRec(p), v)
<1>1. RootKind(v) => Kind(Root, v)
  BY RecFacts DEF Kind
<1>2. RrMovedKind(v) => Kind(RrMovedRec, v)
  BY RecFacts DEF Kind
<1>3. ASSUME NEW p \in Path
      PROVE  /\ DirRec(p) # Root /\ DirRec(p) # RrMovedRec
             /\ LinkRec(p) # Root /\ LinkRec(p) # RrMovedRec
             /\ \A q \in Path : DirRec(p) = DirRec(q) => p = q
             /\ \A q \in Path : LinkRec(p) = LinkRec(q) => p = q
             /\ \A q \in Path : DirRec(p) # LinkRec(q)
             /\ \A q \in Path : LinkRec(p) # DirRec(q)
  BY RecFacts
<1>4. ASSUME NEW p \in Path, ~Relocates(p), PlainKind(p, v) PROVE Kind(DirRec(p), v)
  BY <1>3, <1>4 DEF Kind
<1>5. ASSUME NEW p \in Path, Relocates(p), MovedKind(p, v) PROVE Kind(DirRec(p), v)
  BY <1>3, <1>5 DEF Kind
<1>6. ASSUME NEW p \in Path, Relocates(p), LinkKind(p, v) PROVE Kind(LinkRec(p), v)
  BY <1>3, <1>6 DEF Kind
<1>7. QED
  BY <1>1, <1>2, <1>4, <1>5, <1>6

LEMMA TreeWider ==
  ASSUME NEW o, NEW X, Tree(o, {})
  PROVE  Tree(o, X)
<1>1. RefersIn(o, X)
  BY DEF Tree, RefersIn
<1>2. QED
  BY <1>1 DEF Tree

LEMMA TreeMade ==
  ASSUME NEW o, NEW X, Tree(o, X), X \subseteq DOMAIN o
  PROVE  Tree(o, {})
<1>1. RefersIn(o, {})
  BY DEF Tree, RefersIn
<1>2. QED
  BY <1>1 DEF Tree

LEMMA ParentIs ==
  ASSUME NEW o, Tree(o, {}), NEW r \in DOMAIN o, r # Root
  PROVE  o[r].parent \in DOMAIN o
<1>1. o[r].parent \in Rec
  BY TreeFacts
<1>2. o[r].parent \in DOMAIN o \cup {None}
  BY DEF Tree, RefersIn
<1>3. QED
  BY <1>1, <1>2, RecFacts

LEMMA FewerKids ==
  ASSUME NEW o, Tree(o, {}), NEW d \in DOMAIN o, NEW S
  PROVE  LET n == [o EXCEPT ![d].kids = @ \ S]
         IN  /\ Fewer(o, n) /\ n[d].kids = o[d].kids \ S
             /\ \A r \in DOMAIN o \ {d} : n[r] = o[r]
             /\ \A r \in DOMAIN o : /\ n[r].parent = o[r].parent /\ n[r].ident = o[r].ident
                                    /\ n[r].target = o[r].target /\ n[r].link = o[r].link
<1> DEFINE n == [o EXCEPT ![d].kids = @ \ S]
<1>1. DOMAIN n = DOMAIN o /\ \A r \in DOMAIN o : o[r] \in Object
  BY TreeFacts
<1>2. n[d] = [o[d] EXCEPT !.kids = o[d].kids \ S] /\ \A r \in DOMAIN o \ {d} : n[r] = o[r]
  OBVIOUS
<1> HIDE DEF n
<1>3. /\ n[d].kids = o[d].kids \ S /\ n[d].parent = o[d].parent /\ n[d].ident = o[d].ident
      /\ n[d].target = o[d].target /\ n[d].link = o[d].link
  BY <1>1, <1>2 DEF Object
<1>4. ASSUME NEW r \in DOMAIN o
      PROVE  /\ n[r].kids \subseteq o[r].kids
             /\ n[r] = [o[r] EXCEPT !.kids = n[r].kids]
  <2>1. CASE r = d
    BY <1>2, <1>3, <2>1
  <2>2. CASE r # d
    <3>1. n[r] = o[r] /\ o[r] \in Object
      BY <1>1, <1>2, <2>2
    <3>2. o[r] = [o[r] EXCEPT !.kids = o[r].kids]
      BY <3>1 DEF Object
    <3>3. QED
      BY <3>1, <3>2
  <2>3. QED
    BY <2>1, <2>2
<1>5. Fewer(o, n)
  BY <1>1, <1>4 DEF Fewer
<1>6. QED
  BY <1>2, <1>3, <1>5 DEF n

-----------------------------------------------------------------------------
(* The operations. *)

LEMMA InitTree == Init => TreeInv
<1> SUFFICES ASSUME Init PROVE TreeInv
  OBVIOUS
<1>1. DOMAIN obj = {Root} /\ obj[Root] = Directory(None, None)
  BY DEF Init
<1>2. /\ obj[Root] \in Object /\ obj[Root].kids = {} /\ obj[Root].parent = None
      /\ obj[Root].ident = None /\ obj[Root].target = None /\ obj[Root].link = None
  BY <1>1, DirectoryIs
<1>3. Kind(Root, obj[Root])
  BY <1>2, NewKinds DEF RootKind
<1>4. IsFiniteSet({Root}) /\ {Root} \subseteq Rec
  BY FS_Singleton, RecFacts
<1>5. RefersIn(obj, {}) /\ AtHome(obj) /\ Apart(obj)
  BY <1>1, <1>2 DEF RefersIn, AtHome, Apart
<1>6. rrMoved = None
  BY DEF Init
<1>7. QED
  BY <1>1, <1>3, <1>4, <1>5, <1>6 DEF TreeInv, Tree

\* A new directory at a level that ISO9660 has.
AddedPlain(o, n, d, p) ==
  /\ IsDirOf(o, d) /\ DirRec(p) \notin DOMAIN o
  /\ DOMAIN n = DOMAIN o \cup {DirRec(p)} /\ Same(o, n)
  /\ \A r \in DOMAIN o :
       n[r].kids = o[r].kids \cup (IF r = d THEN {DirRec(p)} ELSE {})
  /\ n[DirRec(p)].kids = {} /\ n[DirRec(p)].parent = d
  /\ n[DirRec(p)].ident = <<Last(p), 0>> /\ n[DirRec(p)].target = None

\* What each operation does to the objects, whatever the circumstances.
LEMMA AddDirectoryIs ==
  ASSUME TreeInv, NEW p \in Path, AddDirectory(p)
  PROVE  /\ TreeInv'
         /\ AddedPlain(obj, obj', Find(obj, Front(p)), p)
<1> DEFINE d == Find(obj, Front(p))
           v == Directory(d, <<Last(p), 0>>)
<1>1. Tree(obj, {}) /\ rrMoved \in {None} \cup (Holders \cap DOMAIN obj)
  BY DEF TreeInv
<1>2. /\ ~Relocates(p) /\ d # None /\ Named(obj, d, <<Last(p), 0>>) = {}
      /\ DirRec(p) \notin DOMAIN obj
      /\ obj' = Insert(obj, d, DirRec(p), v) /\ rrMoved' = rrMoved
  BY DEF AddDirectory, Addable, Unused, Relocates
<1>3. IsDirOf(obj, d)
  BY <1>1, <1>2, FrontLength, FindIs
<1> HIDE DEF d
<1>4. d \in DOMAIN obj /\ d \in Rec /\ obj[d].target = None /\ obj[d] \in Object
  BY <1>1, <1>3, TreeFacts DEF IsDirOf
<1>5. <<Last(p), 0>> \in Ident
  BY PathFacts DEF Ident
<1>6. /\ v \in Object /\ v.kids = {} /\ v.parent = d /\ v.ident = <<Last(p), 0>>
      /\ v.target = None /\ v.link = None
  BY <1>4, <1>5, DirectoryIs
<1> HIDE DEF v
<1>7. DirRec(p) \in Rec \ DOMAIN obj /\ d # None
  BY <1>2, RecFacts
<1>8. Kind(DirRec(p), v)
  BY <1>2, <1>6, <1>7, NewKinds DEF PlainKind
<1>9. {v.target, v.link} \subseteq DOMAIN obj \cup {} \cup {None, DirRec(p)}
  BY <1>6
<1>10. Tree(obj', {})
  BY <1>1, <1>2, <1>4, <1>6, <1>7, <1>8, <1>9, InsertTree
<1>11. /\ DOMAIN obj' = DOMAIN obj \cup {DirRec(p)} /\ obj'[DirRec(p)] = v
       /\ obj'[d].kids = obj[d].kids \cup {DirRec(p)}
       /\ \A r \in DOMAIN obj \ {d} : obj'[r] = obj[r]
       /\ Same(obj, obj')
  <2>1. Inserted(obj, Insert(obj, d, DirRec(p), v), d, DirRec(p), v)
    BY ONLY <1>4, <1>7, InsertIs
  <2>2. QED
    BY <1>2, <2>1 DEF Inserted
<1>12. TreeInv'
  BY <1>1, <1>2, <1>10, <1>11 DEF TreeInv
<1>13. AddedPlain(obj, obj', d, p)
  BY <1>2, <1>3, <1>6, <1>11 DEF AddedPlain
<1>14. QED
  BY <1>12, <1>13 DEF d

\* The record that _find_or_create_rr_moved gives.
Holder == IF rrMoved = None THEN RrMovedRec ELSE rrMoved

LEMMA WithRrMovedIs ==
  ASSUME TreeInv, rrMoved = None => RrMovedRec \notin DOMAIN obj
  PROVE  /\ Tree(WithRrMoved, {}) /\ Same(obj, WithRrMoved)
         /\ DOMAIN WithRrMoved = DOMAIN obj \cup {Holder} /\ Holder \in Holders
         /\ WithRrMoved[Holder].target = None
         /\ rrMoved = None => WithRrMoved[Holder].kids = {} /\ WithRrMoved[Holder].parent = Root
         /\ \A r \in DOMAIN obj :
              WithRrMoved[r].kids =
                obj[r].kids \cup (IF rrMoved = None /\ r = Root THEN {Holder} ELSE {})
         /\ rrMoved = None => WithRrMoved[Holder].ident = <<RrMoved, 0>>
<1> DEFINE n == WithRrMoved
<1>1. Tree(obj, {}) /\ rrMoved \in {None} \cup (Holders \cap DOMAIN obj)
  BY DEF TreeInv
<1>2. CASE rrMoved # None
  <2>1. n = obj /\ Holder = rrMoved /\ Holder \in Holders /\ Holder \in DOMAIN obj
    BY <1>1, <1>2 DEF Holder, WithRrMoved
  <2>2. Kind(Holder, obj[Holder])
    BY <1>1, <2>1 DEF Tree
  <2>3. obj[Holder].target = None
    <3>1. CASE Holder = RrMovedRec
      BY <2>2, <3>1 DEF Kind, RrMovedKind
    <3>2. CASE \E p \in Path : Relocates(p) /\ Holder = DirRec(p)
      BY <2>2, <3>2 DEF Kind, MovedKind
    <3>3. QED
      BY <2>1, <3>1, <3>2 DEF Holders
  <2>4. Same(obj, obj)
    BY DEF Same
  <2>5. QED
    BY <1>1, <1>2, <2>1, <2>3, <2>4
<1>3. CASE rrMoved = None
  <2> DEFINE v == Directory(Root, <<RrMoved, 0>>)
  <2>1. n = Insert(obj, Root, RrMovedRec, v) /\ Holder = RrMovedRec
    BY <1>3 DEF WithRrMoved, Holder
  <2>2. Root \in DOMAIN obj /\ Kind(Root, obj[Root])
    BY <1>1 DEF Tree
  <2>3. obj[Root].target = None /\ obj[Root] \in Object
    BY <2>2 DEF Kind, RootKind
  <2>4. RrMovedRec \in Rec \ DOMAIN obj /\ Root \in Rec
    BY <1>3, RecFacts
  <2>5. <<RrMoved, 0>> \in Ident
    BY DEF Ident
  <2>6. /\ v \in Object /\ v.kids = {} /\ v.parent = Root /\ v.ident = <<RrMoved, 0>>
        /\ v.target = None /\ v.link = None
    BY <2>4, <2>5, DirectoryIs
  <2> HIDE DEF v
  <2>7. Kind(RrMovedRec, v)
    BY <2>6, NewKinds DEF RrMovedKind
  <2>8. Named(obj, Root, <<RrMoved, 0>>) = {}
    <3>1. ASSUME NEW c \in obj[Root].kids, obj[c].ident = <<RrMoved, 0>> PROVE FALSE
      <4>1. c \in DOMAIN obj
        BY <1>1, <2>2 DEF Tree, RefersIn
      <4>2. c = RrMovedRec
        BY <1>1, <3>1, <4>1, TreeFacts
      <4>3. QED
        BY <2>4, <4>1, <4>2
    <3>2. QED
      BY <3>1 DEF Named
  <2>9. Tree(n, {})
    <3>1. {v.target, v.link} \subseteq DOMAIN obj \cup {} \cup {None, RrMovedRec}
      BY <2>6
    <3>2. QED
      BY <1>1, <2>1, <2>2, <2>3, <2>4, <2>6, <2>7, <2>8, <3>1, InsertTree
  <2>10. /\ DOMAIN n = DOMAIN obj \cup {RrMovedRec} /\ n[RrMovedRec] = v
         /\ n[Root].kids = obj[Root].kids \cup {RrMovedRec}
         /\ \A r \in DOMAIN obj \ {Root} : n[r] = obj[r]
         /\ Same(obj, n)
    <3>1. Inserted(obj, Insert(obj, Root, RrMovedRec, v), Root, RrMovedRec, v)
      BY ONLY <2>2, <2>3, <2>4, InsertIs
    <3>2. QED
      BY <2>1, <3>1 DEF Inserted
  <2> HIDE DEF n
  <2>11. RrMovedRec \in Holders
    BY DEF Holders
  <2>12. \A r \in DOMAIN obj :
           n[r].kids = obj[r].kids \cup (IF rrMoved = None /\ r = Root THEN {Holder} ELSE {})
    BY <1>3, <2>1, <2>10
  <2>13. QED
    BY <1>3, <2>1, <2>6, <2>9, <2>10, <2>11, <2>12 DEF n
<1>4. QED
  BY <1>2, <1>3

\* A new directory below the record m, with its child link in d, and m itself
\* when it is new.
AddedRelocated(o, n, fresh, m, d, p) ==
  /\ IsDirOf(o, d) /\ DirRec(p) \notin DOMAIN o /\ LinkRec(p) \notin DOMAIN o
  /\ m \in Holders /\ (IF fresh THEN m \notin DOMAIN o ELSE m \in DOMAIN o)
  /\ DOMAIN n = DOMAIN o \cup {m, DirRec(p), LinkRec(p)} /\ Same(o, n)
  /\ \A r \in DOMAIN o :
       n[r].kids = o[r].kids \cup (IF fresh /\ r = Root THEN {m} ELSE {})
                             \cup (IF r = d THEN {LinkRec(p)} ELSE {})
                             \cup (IF r = m THEN {DirRec(p)} ELSE {})
  /\ fresh => n[m].kids = {DirRec(p)} /\ n[m].parent = Root /\ n[m].target = None
  /\ n[DirRec(p)].kids = {} /\ n[DirRec(p)].parent = m
  /\ n[DirRec(p)].target = None /\ n[DirRec(p)].link = LinkRec(p)
  /\ n[LinkRec(p)].kids = {} /\ n[LinkRec(p)].parent = d
  /\ n[LinkRec(p)].target = DirRec(p)
  /\ n[LinkRec(p)].ident = <<Last(p), 0>>

LEMMA AddRelocatedIs ==
  ASSUME TreeInv, NEW p \in Path, AddRelocated(p)
  PROVE  /\ TreeInv' /\ rrMoved' = Holder
         /\ AddedRelocated(obj, obj', rrMoved = None, Holder, Find(obj, Front(p)), p)
<1> DEFINE d == Find(obj, Front(p))
           m == Holder
           o1 == WithRrMoved
           v2 == ChildLink(d, <<Last(p), 0>>, DirRec(p))
           o2 == Insert(o1, d, LinkRec(p), v2)
           id == FreeIdent(o2, m, Last(p))
           v3 == Relocated(m, id, LinkRec(p))
           X == {DirRec(p)}
<1>1. Tree(obj, {}) /\ rrMoved \in {None} \cup (Holders \cap DOMAIN obj)
  BY DEF TreeInv
<1>2. /\ Relocates(p) /\ d # None /\ Named(obj, d, <<Last(p), 0>>) = {}
      /\ DirRec(p) \notin DOMAIN obj /\ LinkRec(p) \notin DOMAIN obj
      /\ rrMoved = None => RrMovedRec \notin DOMAIN obj
      /\ obj' = Insert(o2, m, DirRec(p), v3) /\ rrMoved' = m
  BY DEF AddRelocated, Addable, Unused, Relocates, Holder
<1>3. IsDirOf(obj, d)
  BY <1>1, <1>2, FrontLength, FindIs
<1>4. /\ Tree(o1, {}) /\ Same(obj, o1)
      /\ DOMAIN o1 = DOMAIN obj \cup {m} /\ m \in Holders
      /\ o1[m].target = None
      /\ rrMoved = None => o1[m].kids = {} /\ o1[m].parent = Root
      /\ \A r \in DOMAIN obj :
           o1[r].kids = obj[r].kids \cup (IF rrMoved = None /\ r = Root THEN {m} ELSE {})
      /\ rrMoved = None => o1[m].ident = <<RrMoved, 0>>
  BY <1>2, WithRrMovedIs
<1>5. IF rrMoved = None THEN m \notin DOMAIN obj ELSE m \in DOMAIN obj
  BY <1>1, <1>2 DEF Holder
<1> HIDE DEF d, m, o1
<1>6. /\ d \in DOMAIN obj /\ d \in DOMAIN o1 /\ d \in Rec /\ o1[d].target = None
      /\ o1[d] \in Object
  BY <1>1, <1>3, <1>4, TreeFacts DEF IsDirOf, Same
<1>7. <<Last(p), 0>> \in Ident /\ Last(p) \in Name /\ Last(p) # RrMoved
  BY PathFacts, RelocatedDirsAssumption DEF Ident
<1>8. /\ v2 \in Object /\ v2.kids = {} /\ v2.parent = d /\ v2.ident = <<Last(p), 0>>
      /\ v2.target = DirRec(p) /\ v2.link = None
  BY <1>6, <1>7, RecFacts, ChildLinkIs
<1> HIDE DEF v2
<1>9. m \in Rec /\ m # Root /\ m # LinkRec(p)
  BY <1>4, RecFacts DEF Holders
<1>10. LinkRec(p) \in Rec \ DOMAIN o1 /\ DirRec(p) # LinkRec(p) /\ DirRec(p) \in Rec
  BY <1>2, <1>4, <1>9, RecFacts
<1>11. Kind(LinkRec(p), v2)
  <2>1. d # None
    BY <1>6, RecFacts
  <2>2. QED
    BY <1>2, <1>8, <2>1, NewKinds DEF LinkKind
<1>12. Named(o1, d, <<Last(p), 0>>) = {}
  <2>1. ASSUME NEW c \in o1[d].kids, o1[c].ident = <<Last(p), 0>> PROVE FALSE
    <3>1. CASE c \in obj[d].kids
      <4>1. c \in DOMAIN obj
        BY <1>1, <1>6, <3>1 DEF Tree, RefersIn
      <4>2. obj[c].ident = <<Last(p), 0>>
        BY <1>4, <2>1, <4>1 DEF Same
      <4>3. QED
        BY <1>2, <3>1, <4>2 DEF Named
    <3>2. CASE c \notin obj[d].kids
      <4>1. rrMoved = None /\ c = m
        BY <1>4, <1>6, <2>1, <3>2
      <4>2. QED
        BY <1>4, <1>7, <2>1, <4>1
    <3>3. QED
      BY <3>1, <3>2
  <2>2. QED
    BY <2>1 DEF Named
<1>13. Tree(o2, X)
  <2>1. Tree(o1, X)
    BY <1>4, TreeWider
  <2>2. {v2.target, v2.link} \subseteq DOMAIN o1 \cup X \cup {None, LinkRec(p)}
    BY <1>8
  <2> HIDE DEF X
  <2>3. QED
    BY <1>6, <1>8, <1>10, <1>11, <1>12, <2>1, <2>2, InsertTree
<1>14. /\ DOMAIN o2 = DOMAIN o1 \cup {LinkRec(p)} /\ o2[LinkRec(p)] = v2
       /\ o2[d].kids = o1[d].kids \cup {LinkRec(p)}
       /\ \A r \in DOMAIN o1 \ {d} : o2[r] = o1[r]
       /\ Same(o1, o2)
  BY <1>6, <1>10, InsertIs DEF Inserted
<1> HIDE DEF o2
<1>15. m \in DOMAIN o2 /\ o2[m].target = None
  BY <1>4, <1>14 DEF Same
<1>16. o2[m] \in Object
  BY <1>13, <1>15, TreeFacts
<1>17. id \in {Last(p)} \X Nat /\ Named(o2, m, id) = {}
  BY <1>13, <1>15, FreeIdentIsFree
<1> HIDE DEF id
<1>18. id \in Ident
  BY <1>7, <1>17 DEF Ident
<1>19. /\ v3 \in Object /\ v3.kids = {} /\ v3.parent = m /\ v3.ident = id
       /\ v3.target = None /\ v3.link = LinkRec(p)
  BY <1>9, <1>10, <1>18, RelocatedIs
<1> HIDE DEF v3
<1>20. DirRec(p) \in Rec \ DOMAIN o1 /\ DirRec(p) \in Rec \ DOMAIN o2
  <2>1. DirRec(p) # m
    <3>1. CASE rrMoved = None
      BY <3>1, RecFacts DEF m, Holder
    <3>2. CASE rrMoved # None
      BY <1>2, <1>5, <3>2
    <3>3. QED
      BY <3>1, <3>2
  <2>2. DirRec(p) \notin DOMAIN obj /\ DirRec(p) # LinkRec(p) /\ DirRec(p) \in Rec
    BY <1>2, <1>10
  <2>3. DOMAIN o1 = DOMAIN obj \cup {m} /\ DOMAIN o2 = DOMAIN o1 \cup {LinkRec(p)}
    BY <1>4, <1>14
  <2>4. QED
    BY ONLY <2>1, <2>2, <2>3
<1>21. Kind(DirRec(p), v3)
  BY <1>2, <1>4, <1>17, <1>19, NewKinds DEF MovedKind
<1>22. Tree(obj', X)
  <2>1. {v3.target, v3.link} \subseteq DOMAIN o2 \cup X \cup {None, DirRec(p)}
    BY <1>14, <1>19
  <2> HIDE DEF X
  <2>2. QED
    BY <1>2, <1>13, <1>15, <1>17, <1>19, <1>20, <1>21, <2>1, InsertTree
<1>23. /\ DOMAIN obj' = DOMAIN o2 \cup {DirRec(p)} /\ obj'[DirRec(p)] = v3
       /\ obj'[m].kids = o2[m].kids \cup {DirRec(p)}
       /\ \A r \in DOMAIN o2 \ {m} : obj'[r] = o2[r]
       /\ Same(o2, obj')
  <2>1. m \in DOMAIN o2 /\ o2[m] \in Object /\ DirRec(p) \in Rec \ DOMAIN o2
    BY <1>15, <1>16, <1>20
  <2>2. obj' = Insert(o2, m, DirRec(p), v3)
    BY <1>2
  <2>3. Inserted(o2, Insert(o2, m, DirRec(p), v3), m, DirRec(p), v3)
    BY ONLY <2>1, InsertIs
  <2>4. QED
    BY <2>2, <2>3 DEF Inserted
<1>24. TreeInv'
  <2>1. Tree(obj', {})
    BY <1>22, <1>23, TreeMade
  <2>2. rrMoved' \in Holders \cap DOMAIN obj'
    BY <1>2, <1>4, <1>15, <1>23
  <2>3. QED
    BY <2>1, <2>2 DEF TreeInv
<1>25. \A r \in DOMAIN obj :
         obj'[r].kids = obj[r].kids \cup (IF rrMoved = None /\ r = Root THEN {m} ELSE {})
                             \cup (IF r = d THEN {LinkRec(p)} ELSE {})
                             \cup (IF r = m THEN {DirRec(p)} ELSE {})
  <2>1. ASSUME NEW r \in DOMAIN obj
        PROVE  obj'[r].kids = o2[r].kids \cup (IF r = m THEN {DirRec(p)} ELSE {})
    BY <1>4, <1>14, <1>23, <2>1
  <2>2. ASSUME NEW r \in DOMAIN obj
        PROVE  o2[r].kids = o1[r].kids \cup (IF r = d THEN {LinkRec(p)} ELSE {})
    BY <1>4, <1>14, <2>2
  <2>3. QED
    BY ONLY <1>4, <2>1, <2>2
<1>26. Same(obj, obj')
  BY <1>4, <1>14, <1>23 DEF Same
<1>27. DOMAIN obj' = DOMAIN obj \cup {m, DirRec(p), LinkRec(p)}
  BY <1>4, <1>14, <1>23
<1>28. rrMoved = None => m # d
  BY <1>5, <1>6
<1>29. rrMoved = None =>
         obj'[m].kids = {DirRec(p)} /\ obj'[m].parent = Root /\ obj'[m].target = None
  BY <1>4, <1>14, <1>15, <1>23, <1>28 DEF Same
<1>30. obj'[LinkRec(p)] = v2
  BY <1>9, <1>14, <1>23
<1>31. AddedRelocated(obj, obj', rrMoved = None, m, d, p)
  BY <1>2, <1>3, <1>4, <1>5, <1>8, <1>19, <1>23, <1>25, <1>26, <1>27, <1>29, <1>30
     DEF AddedRelocated
<1>32. QED
  BY <1>2, <1>24, <1>31 DEF d, m

\* The record that a removal is about.
Removed(o, r) ==
  /\ r \in DOMAIN o /\ r # Root /\ o[r].target = None /\ o[r].kids = {}
  /\ o[r].parent \in DOMAIN o /\ r \in o[o[r].parent].kids

\* rm_directory takes an empty directory that is listed.
LEMMA RemovableIs ==
  ASSUME TreeInv, NEW p \in Path, Removable(p)
  PROVE  Removed(obj, Find(obj, p))
<1> DEFINE r == Find(obj, p)
<1>1. Tree(obj, {})
  BY DEF TreeInv
<1>2. r # None /\ obj[r].kids = {} /\ r \in obj[obj[r].parent].kids
  BY DEF Removable
<1>3. Len(p) \in Nat /\ Len(p) # 0
  BY PathFacts
<1>4. IsDirOf(obj, r) /\ r # Root
  BY <1>1, <1>2, <1>3, FindIs
<1> HIDE DEF r
<1>5. obj[r].parent \in DOMAIN obj
  BY <1>1, <1>4, ParentIs DEF IsDirOf
<1>6. QED
  BY <1>2, <1>4, <1>5 DEF Removed, IsDirOf, r

\* d has lost the children S.
KidsLost(o, n, d, S) ==
  /\ Fewer(o, n) /\ n[d].kids = o[d].kids \ S
  /\ \A r \in DOMAIN o \ {d} : n[r] = o[r]
  /\ Same(o, n)

LEMMA KidsLostTree ==
  ASSUME NEW o, Tree(o, {}), NEW d \in DOMAIN o, NEW S
  PROVE  LET n == [o EXCEPT ![d].kids = @ \ S] IN KidsLost(o, n, d, S) /\ Tree(n, {})
<1> DEFINE n == [o EXCEPT ![d].kids = @ \ S]
<1>1. KidsLost(o, n, d, S)
  <2>1. /\ Fewer(o, n) /\ n[d].kids = o[d].kids \ S
        /\ \A r \in DOMAIN o \ {d} : n[r] = o[r]
        /\ \A r \in DOMAIN o : /\ n[r].parent = o[r].parent /\ n[r].ident = o[r].ident
                               /\ n[r].target = o[r].target /\ n[r].link = o[r].link
    BY FewerKids
  <2> HIDE DEF n
  <2>2. QED
    BY <2>1 DEF KidsLost, Same
<1>2. Fewer(o, n)
  BY <1>1 DEF KidsLost
<1> HIDE DEF n
<1>3. Tree(n, {})
  BY <1>2, FewerTree
<1>4. QED
  BY <1>1, <1>3 DEF n

LEMMA UnlistedIs ==
  ASSUME Tree(obj, {}), NEW r, Removed(obj, r)
  PROVE  KidsLost(obj, Unlisted(r), obj[r].parent, {r}) /\ Tree(Unlisted(r), {})
<1>1. obj[r].parent \in DOMAIN obj
  BY DEF Removed
<1>2. Unlisted(r) = [obj EXCEPT ![obj[r].parent].kids = @ \ {r}]
  BY DEF Unlisted
<1> DEFINE d == obj[r].parent
           S == {r}
<1> HIDE DEF d, S
<1>3. LET n == [obj EXCEPT ![d].kids = @ \ S] IN KidsLost(obj, n, d, S) /\ Tree(n, {})
  BY <1>1, KidsLostTree DEF d
<1>4. QED
  BY <1>2, <1>3 DEF d, S

\* What is left of the objects o, m being the RR_MOVED to keep.
Collected(o, m, n) ==
  /\ n = Collect(o, m) /\ Tree(n, {}) /\ m \in DOMAIN n \cup {None}
  /\ DOMAIN n \subseteq DOMAIN o /\ \A r \in DOMAIN n : n[r] = o[r]

LEMMA CollectedIs ==
  ASSUME NEW o, Tree(o, {}), NEW m \in DOMAIN o \cup {None}
  PROVE  Collected(o, m, Collect(o, m))
<1> DEFINE n == Collect(o, m)
<1>1. /\ DOMAIN n \subseteq DOMAIN o /\ m \in DOMAIN n \cup {None}
      /\ \A r \in DOMAIN n : n[r] = o[r]
      /\ Tree(n, {})
  BY CollectTree
<1> HIDE DEF n
<1>2. n = Collect(o, m)
  BY DEF n
<1>3. Collected(o, m, n)
  BY <1>1, <1>2 DEF Collected
<1>4. QED
  BY <1>3 DEF n

\* A removal that leaves the objects w and what they refer to.
LEMMA CollectedTree ==
  ASSUME TreeInv, NEW w, Tree(w, {}), DOMAIN w = DOMAIN obj,
         obj' = Collect(w, rrMoved), rrMoved' = rrMoved
  PROVE  TreeInv' /\ Collected(w, rrMoved, obj')
<1>1. rrMoved \in {None} \cup (Holders \cap DOMAIN w)
  BY DEF TreeInv
<1>2. rrMoved \in DOMAIN w \cup {None}
  BY <1>1
<1>3. Collected(w, rrMoved, Collect(w, rrMoved))
  BY <1>2, CollectedIs
<1>4. Collected(w, rrMoved, obj')
  BY <1>3
<1>5. Tree(obj', {}) /\ rrMoved \in DOMAIN obj' \cup {None}
  BY <1>4 DEF Collected
<1>6. QED
  BY <1>1, <1>4, <1>5 DEF TreeInv

LEMMA RmDirectoryIs ==
  ASSUME TreeInv, NEW p \in Path, RmDirectory(p) \/ RmDirectoryRaises(p)
  PROVE  LET r == Find(obj, p)
         IN  /\ TreeInv' /\ Removed(obj, r) /\ Collected(Unlisted(r), rrMoved, obj')
             /\ KidsLost(obj, Unlisted(r), obj[r].parent, {r}) /\ Tree(Unlisted(r), {})
<1> DEFINE r == Find(obj, p)
           w == Unlisted(r)
<1>1. Removable(p) /\ obj' = Collect(w, rrMoved) /\ rrMoved' = rrMoved
  BY DEF RmDirectory, RmDirectoryRaises
<1>2. Removed(obj, r)
  BY <1>1, RemovableIs
<1> HIDE DEF r
<1>3. Tree(obj, {})
  BY DEF TreeInv
<1>4. KidsLost(obj, w, obj[r].parent, {r}) /\ Tree(w, {})
  BY <1>2, <1>3, UnlistedIs
<1>5. DOMAIN w = DOMAIN obj
  BY <1>4 DEF KidsLost, Fewer
<1> HIDE DEF w
<1>6. TreeInv' /\ Collected(w, rrMoved, obj')
  BY <1>1, <1>4, <1>5, CollectedTree
<1>7. QED
  BY <1>2, <1>4, <1>6 DEF r, w

\* A relocated directory that is about to be removed, its link and RR_MOVED.
RelocatedAs(o, r, q) ==
  /\ Removed(o, r) /\ q \in Path /\ Relocates(q) /\ r = DirRec(q)
  /\ o[r].link = LinkRec(q) /\ LinkRec(q) \in DOMAIN o /\ o[LinkRec(q)].parent \in DOMAIN o
  /\ o[r].parent \in Holders /\ o[o[r].parent].parent \in DOMAIN o

LEMMA RelocatedAsIs ==
  ASSUME TreeInv, NEW p \in Path, Removable(p), IsRelocated(obj, Find(obj, p))
  PROVE  \E q \in Path : RelocatedAs(obj, Find(obj, p), q)
<1> DEFINE r == Find(obj, p)
<1>1. Tree(obj, {})
  BY DEF TreeInv
<1>2. Removed(obj, r) /\ obj[r].link # None
  BY RemovableIs DEF IsRelocated
<1> HIDE DEF r
<1>3. r \in DOMAIN obj
  BY <1>2 DEF Removed
<1>4. PICK q \in Path : r = DirRec(q) /\ Relocates(q) /\ MovedKind(q, obj[r])
  BY <1>1, <1>2, <1>3, TreeFacts
<1>5. obj[r].link = LinkRec(q) /\ obj[r].parent \in Holders
  BY <1>4 DEF MovedKind
<1>6. LinkRec(q) \in DOMAIN obj /\ obj[r].parent \in DOMAIN obj /\ obj[r].parent # Root
  <2>1. obj[r].link \in DOMAIN obj \cup {None}
    BY <1>1, <1>3 DEF Tree, RefersIn
  <2>2. QED
    BY <1>2, <1>5, <2>1, RecFacts DEF Removed
<1>7. obj[LinkRec(q)].parent \in DOMAIN obj /\ obj[obj[r].parent].parent \in DOMAIN obj
  BY <1>1, <1>6, RecFacts, ParentIs
<1>8. RelocatedAs(obj, r, q)
  BY <1>2, <1>4, <1>5, <1>6, <1>7 DEF RelocatedAs
<1>9. QED
  BY <1>8 DEF r

\* The objects w that are left when the relocated directory r went with its link
\* c and, if e, the records h went from the parent of its RR_MOVED m.
LostThree(o, w, r, c, m, e, h) ==
  /\ Tree(w, {}) /\ Fewer(o, w) /\ Same(o, w)
  /\ \A x \in DOMAIN o :
       w[x].kids = ((o[x].kids \ (IF x = m THEN {r} ELSE {}))
                       \ (IF e /\ x = o[m].parent THEN h ELSE {}))
                       \ (IF x = o[c].parent THEN {c} ELSE {})

LEMMA FewerTwice ==
  ASSUME NEW o, NEW w, NEW v, Fewer(o, w), Fewer(w, v), \A r \in DOMAIN o : o[r] \in Object
  PROVE  Fewer(o, v)
<1>1. DOMAIN v = DOMAIN o /\ DOMAIN w = DOMAIN o
  BY DEF Fewer
<1>2. ASSUME NEW r \in DOMAIN o
      PROVE  v[r].kids \subseteq o[r].kids /\ v[r] = [o[r] EXCEPT !.kids = v[r].kids]
  <2>1. v[r].kids \subseteq w[r].kids /\ w[r].kids \subseteq o[r].kids
    BY <1>1 DEF Fewer
  <2>2. w[r] = [o[r] EXCEPT !.kids = w[r].kids] /\ v[r] = [w[r] EXCEPT !.kids = v[r].kids]
    BY <1>1 DEF Fewer
  <2> DEFINE k == w[r].kids
             l == v[r].kids
  <2> HIDE DEF k, l
  <2>3. w[r] = [o[r] EXCEPT !.kids = k] /\ v[r] = [w[r] EXCEPT !.kids = l]
    BY <2>2 DEF k, l
  <2>4. v[r] = [o[r] EXCEPT !.kids = l]
    BY <2>3 DEF Object
  <2>5. QED
    BY <2>1, <2>4 DEF l
<1>3. QED
  BY <1>1, <1>2 DEF Fewer

LEMMA RmRelocatedIs ==
  ASSUME TreeInv, NEW p \in Path, RmRelocated(p)
  PROVE  LET r == Find(obj, p)
             c == obj[r].link
             m == obj[r].parent
             e == Emptied(Unlisted(r), m)
             h == Named(Unlisted(r), Unlisted(r)[m].parent, Unlisted(r)[m].ident)
         IN  /\ TreeInv' /\ (\E q \in Path : RelocatedAs(obj, r, q))
             /\ \E w : LostThree(obj, w, r, c, m, e, h) /\ Collected(w, rrMoved, obj')
<1> DEFINE r == Find(obj, p)
           m == obj[r].parent
           c == obj[r].link
           o == Unlisted(r)
           e == Emptied(o, m)
           h == Named(o, o[m].parent, o[m].ident)
           o2 == IF e THEN [o EXCEPT ![o[m].parent].kids = @ \ h] ELSE o
           w == WithoutLink(o2, c)
<1>1. Removable(p) /\ IsRelocated(obj, r) /\ obj' = Collect(w, rrMoved) /\ rrMoved' = rrMoved
  BY DEF RmRelocated
<1>2. PICK q \in Path : RelocatedAs(obj, r, q)
  BY <1>1, RelocatedAsIs
<1>3. Tree(obj, {}) /\ Removed(obj, r)
  BY <1>2 DEF TreeInv, RelocatedAs
<1>4. KidsLost(obj, o, m, {r}) /\ Tree(o, {})
  BY <1>3, UnlistedIs
<1>5. /\ c = LinkRec(q) /\ c \in DOMAIN obj /\ obj[c].parent \in DOMAIN obj
      /\ m \in DOMAIN obj /\ obj[m].parent \in DOMAIN obj /\ r \in DOMAIN obj
  BY <1>2 DEF RelocatedAs, Removed
<1> HIDE DEF o, h, e
<1>6. DOMAIN o = DOMAIN obj /\ Same(obj, o) /\ o[m].parent = obj[m].parent
  BY <1>4, <1>5 DEF KidsLost, Fewer, Same
<1> DEFINE d == obj[m].parent
<1>7. /\ Tree(o2, {}) /\ DOMAIN o2 = DOMAIN o /\ Same(o, o2) /\ Fewer(o, o2)
      /\ \A x \in DOMAIN o : o2[x].kids = o[x].kids \ (IF e /\ x = d THEN h ELSE {})
  <2>1. CASE ~e
    <3>1. o2 = o
      BY <2>1
    <3>2. Fewer(o, o)
      <4>1. \A x \in DOMAIN o : o[x] \in Object
        BY <1>4, TreeFacts
      <4>2. \A x \in DOMAIN o : o[x] = [o[x] EXCEPT !.kids = o[x].kids]
        BY <4>1 DEF Object
      <4>3. QED
        BY <4>2 DEF Fewer
    <3>3. Same(o, o)
      BY DEF Same
    <3>4. QED
      BY <1>4, <2>1, <3>1, <3>2, <3>3
  <2>2. CASE e
    <3> HIDE DEF m
    <3>1. o2 = [o EXCEPT ![d].kids = @ \ h]
      BY <1>6, <2>2
    <3>2. d \in DOMAIN o
      BY <1>5, <1>6
    <3> HIDE DEF d, o2
    <3>3. KidsLost(o, o2, d, h) /\ Tree(o2, {})
      BY <1>4, <3>1, <3>2, KidsLostTree
    <3>4. DOMAIN o2 = DOMAIN o /\ Same(o, o2) /\ Fewer(o, o2)
      BY <3>3 DEF KidsLost, Fewer
    <3>5. \A x \in DOMAIN o : o2[x].kids = o[x].kids \ (IF e /\ x = d THEN h ELSE {})
      BY <2>2, <3>3 DEF KidsLost
    <3>6. QED
      BY <3>3, <3>4, <3>5
  <2>3. QED
    BY <2>1, <2>2
<1> HIDE DEF o2
<1> DEFINE b == obj[c].parent
<1>8. w = [o2 EXCEPT ![b].kids = @ \ {c}] /\ b \in DOMAIN o2
  <2>1. o2[c].parent = b
    BY <1>5, <1>6, <1>7 DEF Same
  <2>2. QED
    BY <1>5, <1>6, <1>7, <2>1 DEF WithoutLink
<1> HIDE DEF w, c, b, d, m, r
<1>9. KidsLost(o2, w, b, {c}) /\ Tree(w, {})
  <2> DEFINE S == {c}
  <2> HIDE DEF S
  <2>1. LET n == [o2 EXCEPT ![b].kids = @ \ S] IN KidsLost(o2, n, b, S) /\ Tree(n, {})
    BY <1>7, <1>8, KidsLostTree
  <2>2. QED
    BY <1>8, <2>1 DEF S
<1>10. DOMAIN w = DOMAIN obj /\ Same(obj, w)
  BY <1>6, <1>7, <1>9 DEF KidsLost, Fewer, Same
<1>11. Fewer(obj, w)
  <2>1. Fewer(obj, o) /\ Fewer(o, o2) /\ Fewer(o2, w)
    BY <1>4, <1>7, <1>9 DEF KidsLost
  <2>2. (\A x \in DOMAIN obj : obj[x] \in Object) /\ (\A x \in DOMAIN o : o[x] \in Object)
    BY <1>3, <1>4, TreeFacts
  <2>3. Fewer(o, w)
    BY <2>1, <2>2, FewerTwice
  <2>4. QED
    BY <2>1, <2>2, <2>3, FewerTwice
<1>12. \A x \in DOMAIN obj :
         w[x].kids = ((obj[x].kids \ (IF x = m THEN {r} ELSE {}))
                         \ (IF e /\ x = d THEN h ELSE {}))
                         \ (IF x = b THEN {c} ELSE {})
  <2>1. \A x \in DOMAIN obj : o[x].kids = obj[x].kids \ (IF x = m THEN {r} ELSE {})
    BY <1>4 DEF KidsLost
  <2>2. \A x \in DOMAIN obj : w[x].kids = o2[x].kids \ (IF x = b THEN {c} ELSE {})
    BY <1>6, <1>7, <1>9 DEF KidsLost
  <2>3. QED
    BY <1>6, <1>7, <2>1, <2>2
<1>13. LostThree(obj, w, r, c, m, e, h)
  BY <1>9, <1>10, <1>11, <1>12 DEF LostThree, b, d
<1>14. TreeInv' /\ Collected(w, rrMoved, obj')
  BY <1>1, <1>9, <1>10, CollectedTree
<1>15. TreeInv' /\ (\E x \in Path : RelocatedAs(obj, r, x))
       /\ \E x : LostThree(obj, x, r, c, m, e, h) /\ Collected(x, rrMoved, obj')
  BY <1>2, <1>13, <1>14
<1>16. QED
  BY <1>15 DEF r, c, m, e, h, o

LEMMA RmRelocatedRaisesIs ==
  ASSUME TreeInv, NEW p \in Path, RmRelocatedRaises(p)
  PROVE  TreeInv'
<1> DEFINE r == Find(obj, p)
           w == Unlisted(r)
<1>1. Removable(p) /\ obj' = Collect(w, rrMoved) /\ rrMoved' = rrMoved
  BY DEF RmRelocatedRaises
<1>2. Removed(obj, r)
  BY <1>1, RemovableIs
<1> HIDE DEF r
<1>3. Tree(obj, {})
  BY DEF TreeInv
<1>4. KidsLost(obj, w, obj[r].parent, {r}) /\ Tree(w, {})
  BY <1>2, <1>3, UnlistedIs
<1>5. DOMAIN w = DOMAIN obj
  BY <1>4 DEF KidsLost, Fewer
<1> HIDE DEF w
<1>6. QED
  BY <1>1, <1>4, <1>5, CollectedTree

LEMMA InTreeIs ==
  ASSUME NEW o, Tree(o, {})
  PROVE  /\ Root \in InTree(o) /\ InTree(o) \subseteq DOMAIN o
         /\ \A r \in InTree(o) : o[r].kids \subseteq InTree(o)
<1> DEFINE to == [r \in DOMAIN o |-> o[r].kids]
           R == {Root}
<1>1. DOMAIN to = DOMAIN o /\ \A r \in DOMAIN o : to[r] = o[r].kids
  OBVIOUS
<1>2. Root \in DOMAIN o /\ IsFiniteSet(DOMAIN o) /\ \A r \in DOMAIN o : o[r].kids \subseteq DOMAIN o
  BY DEF Tree, RefersIn
<1>3. InTree(o) = Reached(R, to)
  BY DEF InTree
<1>4. R \in SUBSET DOMAIN to /\ R # {} /\ Root \in R
  BY <1>1, <1>2
<1> HIDE DEF to, R
<1>5. Graph(to)
  BY <1>1, <1>2 DEF Graph
<1>6. /\ R \subseteq Reached(R, to) /\ Reached(R, to) \subseteq DOMAIN to
      /\ Closed(Reached(R, to), to)
  BY <1>4, <1>5, ReachedIs
<1>7. QED
  BY <1>1, <1>3, <1>4, <1>6 DEF Closed

LEMMA ReopenIs ==
  ASSUME TreeInv, Reopen
  PROVE  TreeInv' /\ Collected(obj, rrMoved', obj')
<1>1. Tree(obj, {})
  BY DEF TreeInv
<1>2. /\ rrMoved' \in {None} \cup {r \in InTree(obj) : IsRelocated(obj, r)}
      /\ obj' = Collect(obj, rrMoved')
  BY DEF Reopen
<1>3. rrMoved' \in {None} \cup (Holders \cap DOMAIN obj)
  <2>1. ASSUME NEW r \in InTree(obj), IsRelocated(obj, r) PROVE r \in Holders \cap DOMAIN obj
    <3>1. r \in DOMAIN obj /\ obj[r].link # None
      BY <1>1, <2>1, InTreeIs DEF IsRelocated
    <3>2. \E p \in Path : r = DirRec(p) /\ Relocates(p)
      BY <1>1, <3>1, TreeFacts
    <3>3. QED
      BY <3>1, <3>2 DEF Holders
  <2>2. QED
    BY <1>2, <2>1
<1> DEFINE m == rrMoved'
<1> HIDE DEF m
<1>4. m \in DOMAIN obj \cup {None} /\ obj' = Collect(obj, m)
  BY <1>2, <1>3 DEF m
<1>5. Collected(obj, m, obj')
  BY <1>1, <1>4, CollectedIs
<1>6. Tree(obj', {}) /\ m \in DOMAIN obj' \cup {None}
  BY <1>5 DEF Collected
<1>7. TreeInv'
  BY <1>3, <1>6 DEF TreeInv, m
<1>8. QED
  BY <1>5, <1>7 DEF m

\* Whatever the circumstances, and wherever an operation stops.
LEMMA NextTree == TreeInv /\ [Next]_vars => TreeInv'
<1> SUFFICES ASSUME TreeInv, [Next]_vars PROVE TreeInv'
  OBVIOUS
<1>1. CASE \E p \in Path : AddDirectory(p)
  BY <1>1, AddDirectoryIs
<1>2. CASE \E p \in Path : AddRelocated(p)
  BY <1>2, AddRelocatedIs
<1>3. CASE \E p \in Path : RmDirectory(p) \/ RmDirectoryRaises(p)
  BY <1>3, RmDirectoryIs
<1>4. CASE \E p \in Path : RmRelocated(p)
  BY <1>4, RmRelocatedIs
<1>5. CASE \E p \in Path : RmRelocatedRaises(p)
  BY <1>5, RmRelocatedRaisesIs
<1>6. CASE DuplicatePvd
  BY <1>6 DEF DuplicatePvd, TreeInv
<1>7. CASE Reopen
  BY <1>7, ReopenIs
<1>8. CASE UNCHANGED vars
  BY <1>8 DEF vars, TreeInv
<1>9. QED
  BY <1>1, <1>2, <1>3, <1>4, <1>5, <1>6, <1>7, <1>8 DEF Next

\* Every object stays what it was made for, refers to objects that exist, and
\* lists children of different names, whatever the client does and wherever an
\* operation stops (pycdlib.py:4744-4830, 4925-4990).
THEOREM TreeAlways == Spec => []TreeInv
<1>1. QED
  BY InitTree, NextTree, PTL DEF Spec

LEMMA TreeLinks == TreeInv => LinksMutual
<1> SUFFICES ASSUME TreeInv, NEW r \in DOMAIN obj
             PROVE  /\ IsLink(obj, r) => obj[obj[r].target].link = r /\ obj[r].kids = {}
                    /\ IsRelocated(obj, r) => obj[obj[r].link].target = r
  BY DEF LinksMutual
<1>1. Tree(obj, {})
  BY DEF TreeInv
<1>2. {obj[r].target, obj[r].link} \subseteq DOMAIN obj \cup {None}
  BY <1>1 DEF Tree, RefersIn
<1>3. ASSUME IsLink(obj, r) PROVE obj[obj[r].target].link = r /\ obj[r].kids = {}
  <2>1. PICK p \in Path : r = LinkRec(p) /\ Relocates(p) /\ LinkKind(p, obj[r])
    BY <1>1, <1>3, TreeFacts DEF IsLink
  <2>2. obj[r].target = DirRec(p) /\ obj[r].kids = {} /\ DirRec(p) \in DOMAIN obj
    BY <1>2, <1>3, <2>1 DEF LinkKind, IsLink
  <2>3. MovedKind(p, obj[DirRec(p)])
    BY <1>1, <2>1, <2>2 DEF Tree, Kind
  <2>4. QED
    BY <2>1, <2>2, <2>3 DEF MovedKind
<1>4. ASSUME IsRelocated(obj, r) PROVE obj[obj[r].link].target = r
  <2>1. PICK p \in Path : r = DirRec(p) /\ Relocates(p) /\ MovedKind(p, obj[r])
    BY <1>1, <1>4, TreeFacts DEF IsRelocated
  <2>2. obj[r].link = LinkRec(p) /\ LinkRec(p) \in DOMAIN obj
    BY <1>2, <1>4, <2>1 DEF MovedKind, IsRelocated
  <2>3. LinkKind(p, obj[LinkRec(p)])
    BY <1>1, <2>2 DEF Tree, Kind
  <2>4. QED
    BY <2>1, <2>2, <2>3 DEF LinkKind
<1>5. QED
  BY <1>3, <1>4

\* A child link and its relocated directory know each other as long as one of
\* them is there, also after RR_MOVED was mistaken and after an operation that
\* raised half-way (pycdlib.py:4790, 1184 and 4967).
THEOREM LinksAlwaysMutual == Spec => []LinksMutual
<1>1. QED
  BY TreeAlways, TreeLinks, PTL

LEMMA TreeNames == TreeInv => NamesApart
<1> SUFFICES ASSUME TreeInv PROVE NamesApart
  OBVIOUS
<1>1. Tree(obj, {}) /\ Apart(obj)
  BY DEF TreeInv, Tree
<1>2. InTree(obj) \subseteq DOMAIN obj
  BY <1>1, InTreeIs
<1>3. QED
  BY <1>1, <1>2 DEF Apart, NamesApart

\* No directory lists two records of one identifier: the number that a
\* relocated directory gets is free below RR_MOVED, because there are more
\* numbers to try than records (pycdlib.py:4765-4779).
THEOREM NamesAlwaysApart == Spec => []NamesApart
<1>1. QED
  BY TreeAlways, TreeNames, PTL

-----------------------------------------------------------------------------
(***************************************************************************)
(* The tree of a client that meets none of the circumstances.  The record  *)
(* of a path is below that of the path without its last name, or below     *)
(* RR_MOVED with its child link in its place.                              *)
(***************************************************************************)
Careful == Faults = {}

Listed(o) == UNION {o[d].kids : d \in DOMAIN o}
InPlace(o) ==
  /\ \A p \in Path : DirRec(p) \in DOMAIN o =>
       o[DirRec(p)].parent = IF Relocates(p) THEN RrMovedRec ELSE DirRec(Front(p))
  /\ \A p \in Path : LinkRec(p) \in DOMAIN o => o[LinkRec(p)].parent = DirRec(Front(p))
LinksListed(o) ==
  \A p \in Path : Relocates(p) => (DirRec(p) \in Listed(o) <=> LinkRec(p) \in Listed(o))
\* What was removed is empty, and RR_MOVED was removed when it was.
NothingLost(o) ==
  /\ \A r \in DOMAIN o \ (Listed(o) \cup {Root}) : o[r].kids = {}
  /\ RrMovedRec \in Listed(o) => o[RrMovedRec].kids # {}
CarefulTree(o) == Tree(o, {}) /\ InPlace(o) /\ LinksListed(o) /\ NothingLost(o)

\* The directories, and what is charged for them.
Kept(o) == {Root} \cup {r \in Listed(o) : o[r].target = None}
Tables(n) == [size |-> n, tables |-> TablesFor(n)]
CountsAre(n, vds, blocks) == vds = <<Tables(n)>> /\ blocks = n + 4 * TablesFor(n)
Counts == CountsAre(Cardinality(Kept(obj)), pvds, space)
CarefulInv == TreeInv /\ CarefulTree(obj) /\ Counts /\ raised = "none"

LEMMA Beginning ==
  ASSUME NEW s \in Seq(Name), NEW n \in Nat, n <= Len(s)
  PROVE  /\ SubSeq(s, 1, n) \in Seq(Name) /\ Len(SubSeq(s, 1, n)) = n
         /\ \A i \in 1..n : SubSeq(s, 1, n)[i] = s[i]
<1>1. SubSeq(s, 1, n) = [i \in 1..n |-> s[i]]
  BY DEF SubSeq
<1>2. \A i \in 1..n : s[i] \in Name
  OBVIOUS
<1>3. QED
  BY <1>1, <1>2

LEMMA FrontPath ==
  ASSUME NEW p \in Path
  PROVE  /\ Len(Front(p)) \in Nat /\ Len(Front(p)) = Len(p) - 1
         /\ IF Len(p) = 1 THEN Front(p) = <<>> ELSE Front(p) \in Path
         /\ \A i \in 1..(Len(p) - 1) : Front(p)[i] = p[i]
<1>1. /\ p \in Seq(Name) /\ Len(p) \in Nat /\ Len(p) >= 1 /\ Len(p) <= MaxDepth
      /\ Front(p) = SubSeq(p, 1, Len(p) - 1)
  BY PathFacts
<1> DEFINE n == Len(p) - 1
           f == Front(p)
<1>2. n \in Nat /\ n < Len(p) /\ n <= MaxDepth /\ MaxDepth \in Nat
  BY <1>1, RelocatedDirsAssumption
<1>3. f \in Seq(Name) /\ Len(f) = n /\ \A i \in 1..n : f[i] = p[i]
  <2>1. f = SubSeq(p, 1, n)
    BY <1>1
  <2> HIDE DEF n, f
  <2>2. QED
    BY <1>1, <1>2, <2>1, Beginning
<1>4. CASE Len(p) = 1
  BY <1>3, <1>4
<1>5. CASE Len(p) # 1
  <2>1. n \in 1..MaxDepth
    <3> DEFINE k == Len(p)
    <3>1. k \in Nat /\ k >= 1 /\ k <= MaxDepth /\ k # 1 /\ MaxDepth \in Nat /\ n = k - 1
      BY <1>1, <1>2, <1>5
    <3> HIDE DEF k, n
    <3>2. QED
      BY <3>1
  <2>2. f \in [1..n -> Name]
    BY <1>3
  <2> HIDE DEF n, f
  <2>3. f \in Path
    BY <2>1, <2>2 DEF Path
  <2>4. QED
    BY <1>2, <1>3, <1>5, <2>3 DEF n, f
<1>6. QED
  BY <1>2, <1>3, <1>4, <1>5

\* A path is its directory and its last name.
LEMMA SamePath ==
  ASSUME NEW p \in Path, NEW q \in Path, Front(p) = Front(q), Last(p) = Last(q)
  PROVE  p = q
<1>1. p \in Seq(Name) /\ q \in Seq(Name) /\ Len(p) \in Nat /\ Len(q) \in Nat /\ Len(p) >= 1
  BY PathFacts
<1>2. Len(p) = Len(q)
  BY <1>1, FrontPath
<1>3. \A i \in 1..(Len(p) - 1) : p[i] = q[i]
  BY <1>2, FrontPath
<1>4. p[Len(p)] = q[Len(p)]
  BY <1>2, PathFacts
<1>5. \A i \in 1..Len(p) : p[i] = q[i]
  BY <1>1, <1>3, <1>4
<1>6. QED
  BY <1>1, <1>2, <1>5

LEMMA SameRecord ==
  /\ DirRec(<<>>) = Root
  /\ \A f, g : DirRec(f) = DirRec(g) => f = g
  /\ \A f : DirRec(f) # RrMovedRec
BY DEF DirRec, Root, RrMovedRec

LEMMA ListedIs ==
  ASSUME NEW o, Tree(o, {}), NothingLost(o), NEW r \in Listed(o)
  PROVE  /\ r \in DOMAIN o /\ r # Root /\ o[r].parent \in DOMAIN o
         /\ r \in o[o[r].parent].kids /\ o[r].parent \in Listed(o) \cup {Root}
<1>1. PICK d \in DOMAIN o : r \in o[d].kids
  BY DEF Listed
<1>2. r \in DOMAIN o /\ r # Root
  BY <1>1 DEF Tree, RefersIn
<1>3. o[r].parent = d
  BY <1>1 DEF Tree, AtHome
<1>4. d \in Listed(o) \cup {Root}
  BY <1>1 DEF NothingLost
<1>5. QED
  BY <1>1, <1>2, <1>3, <1>4

LEMMA RrMovedIs ==
  ASSUME NEW o, Tree(o, {}), RrMovedRec \in DOMAIN o
  PROVE  /\ o[RrMovedRec].parent = Root /\ o[RrMovedRec].ident = <<RrMoved, 0>>
         /\ o[RrMovedRec].target = None /\ o[RrMovedRec].link = None
<1>1. Kind(RrMovedRec, o[RrMovedRec])
  BY DEF Tree
<1>2. QED
  BY <1>1 DEF Kind, RrMovedKind

\* Everything listed is below the root.
LEMMA ListedReached ==
  ASSUME NEW o, CarefulTree(o), NEW A, Root \in A, \A r \in A \cap DOMAIN o : o[r].kids \subseteq A
  PROVE  Listed(o) \subseteq A
<1>1. Tree(o, {}) /\ InPlace(o) /\ NothingLost(o)
  BY DEF CarefulTree
<1>2. ASSUME NEW r \in Listed(o), o[r].parent \in A PROVE r \in A
  BY <1>1, <1>2, ListedIs
<1>3. RrMovedRec \in Listed(o) => RrMovedRec \in A
  BY <1>1, <1>2, ListedIs, RrMovedIs
<1>4. ASSUME NEW p \in Path, Relocates(p), DirRec(p) \in Listed(o) PROVE DirRec(p) \in A
  <2>1. o[DirRec(p)].parent = RrMovedRec /\ RrMovedRec \in Listed(o)
    BY <1>1, <1>4, ListedIs, RecFacts DEF InPlace
  <2>2. QED
    BY <1>2, <1>3, <1>4, <2>1
<1> DEFINE T == {n \in 0..MaxDepth :
                   \A p \in Path : Len(p) <= n /\ DirRec(p) \in Listed(o) => DirRec(p) \in A}
<1>5. MaxDepth \in Nat
  BY RelocatedDirsAssumption
<1>6. 0 \in T
  <2>1. \A p \in Path : ~(Len(p) <= 0)
    BY PathFacts
  <2>2. QED
    BY <1>5, <2>1
<1>7. ASSUME NEW n \in 0..(MaxDepth - 1), n \in T PROVE n + 1 \in T
  <2>1. ASSUME NEW p \in Path, Len(p) <= n + 1, DirRec(p) \in Listed(o) PROVE DirRec(p) \in A
    <3>1. CASE Relocates(p)
      BY <1>4, <2>1, <3>1
    <3>2. CASE ~Relocates(p)
      <4>1. o[DirRec(p)].parent = DirRec(Front(p)) /\ DirRec(Front(p)) \in Listed(o) \cup {Root}
        BY <1>1, <2>1, <3>2, ListedIs DEF InPlace
      <4>2. CASE Len(p) = 1
        <5>1. DirRec(Front(p)) = Root
          BY <4>2, FrontPath, SameRecord
        <5>2. QED
          BY <1>2, <2>1, <4>1, <5>1
      <4>3. CASE Len(p) # 1
        <5>1. Front(p) \in Path /\ Len(Front(p)) = Len(p) - 1 /\ Len(p) \in Nat
          BY <4>3, FrontPath, PathFacts
        <5>2. DirRec(Front(p)) \in Listed(o)
          BY <4>1, <5>1, RecFacts
        <5>3. Len(Front(p)) <= n
          BY <2>1, <5>1
        <5>4. DirRec(Front(p)) \in A
          BY <1>7, <5>1, <5>2, <5>3
        <5>5. QED
          BY <1>2, <2>1, <4>1, <5>4
      <4>4. QED
        BY <4>2, <4>3
    <3>3. QED
      BY <3>1, <3>2
  <2>2. n + 1 \in 0..MaxDepth
    BY <1>5
  <2>3. QED
    BY <2>1, <2>2
<1> HIDE DEF T
<1>8. \A n \in 0..MaxDepth : n \in T
  <2>1. \A n \in 0..(MaxDepth - 1) : n \in T => n + 1 \in T
    BY <1>7
  <2>2. QED
    BY ONLY <1>5, <1>6, <2>1, UpTo
<1>9. ASSUME NEW p \in Path, DirRec(p) \in Listed(o) PROVE DirRec(p) \in A
  BY <1>5, <1>8, <1>9, PathFacts DEF T
<1>10. ASSUME NEW p \in Path, LinkRec(p) \in Listed(o) PROVE LinkRec(p) \in A
  <2>1. o[LinkRec(p)].parent = DirRec(Front(p)) /\ DirRec(Front(p)) \in Listed(o) \cup {Root}
    BY <1>1, <1>10, ListedIs DEF InPlace
  <2>2. CASE Len(p) = 1
    BY <1>2, <1>10, <2>1, <2>2, FrontPath, SameRecord
  <2>3. CASE Len(p) # 1
    <3>1. Front(p) \in Path
      BY <2>3, FrontPath
    <3>2. DirRec(Front(p)) \in Listed(o)
      BY <2>1, <3>1, RecFacts
    <3>3. QED
      BY <1>2, <1>9, <1>10, <2>1, <3>1, <3>2
  <2>4. QED
    BY <2>2, <2>3
<1>11. ASSUME NEW r \in Listed(o) PROVE r \in A
  <2>1. r \in Rec
    BY <1>1, ListedIs DEF Tree
  <2>2. r # Root
    BY <1>1, ListedIs
  <2>3. QED
    BY <1>3, <1>9, <1>10, <2>1, <2>2, RecFacts
<1>12. QED
  BY <1>11

\* The walk of the tree meets what is listed.
LEMMA InTreeCareful ==
  ASSUME NEW o, CarefulTree(o)
  PROVE  InTree(o) = {Root} \cup Listed(o)
<1>1. Tree(o, {})
  BY DEF CarefulTree
<1>2. Root \in InTree(o) /\ \A r \in InTree(o) : o[r].kids \subseteq InTree(o)
  BY <1>1, InTreeIs
<1>3. Listed(o) \subseteq InTree(o)
  BY <1>2, ListedReached
<1> DEFINE to == [r \in DOMAIN o |-> o[r].kids]
           R == {Root}
           A == {Root} \cup Listed(o)
<1>4. InTree(o) = Reached(R, to)
  BY DEF InTree
<1>5. /\ IsFiniteSet(DOMAIN to) /\ R \in SUBSET DOMAIN to
      /\ \A r \in DOMAIN to : to[r] \subseteq DOMAIN to
  BY <1>1 DEF Tree, RefersIn
<1>6. R \subseteq A /\ \A r \in A \cap DOMAIN to : to[r] \subseteq A
  BY DEF Listed
<1> HIDE DEF to, R, A
<1>7. Reached(R, to) \subseteq A
  BY <1>5, <1>6, ReachedLeast DEF Graph
<1>8. QED
  BY <1>2, <1>3, <1>4, <1>7 DEF A

\* Nothing that is listed is lost with what nothing refers to.
LEMMA CollectedCareful ==
  ASSUME NEW o, CarefulTree(o), NEW m \in DOMAIN o \cup {None}, NEW n, Collected(o, m, n)
  PROVE  CarefulTree(n) /\ Listed(n) = Listed(o) /\ Kept(n) = Kept(o)
<1>1. Tree(o, {}) /\ InPlace(o) /\ LinksListed(o) /\ NothingLost(o)
  BY DEF CarefulTree
<1>2. /\ n = Collect(o, m) /\ Tree(n, {}) /\ DOMAIN n \subseteq DOMAIN o
      /\ \A r \in DOMAIN n : n[r] = o[r]
  BY DEF Collected
<1>3. Root \in DOMAIN n /\ \A r \in DOMAIN n : n[r].kids \subseteq DOMAIN n
  BY <1>2 DEF Tree, RefersIn
<1>4. Listed(o) \subseteq DOMAIN n
  BY <1>2, <1>3, ListedReached
<1>5. Listed(n) = Listed(o)
  <2>1. Listed(n) \subseteq Listed(o)
    BY <1>2 DEF Listed
  <2>2. ASSUME NEW r \in Listed(o) PROVE r \in Listed(n)
    <3>1. o[r].parent \in Listed(o) \cup {Root} /\ r \in o[o[r].parent].kids
      BY <1>1, ListedIs
    <3>2. o[r].parent \in DOMAIN n
      BY <1>3, <1>4, <3>1
    <3>3. QED
      BY <1>2, <3>1, <3>2 DEF Listed
  <2>3. QED
    BY <2>1, <2>2
<1>6. InPlace(n)
  BY <1>1, <1>2 DEF InPlace
<1>7. LinksListed(n)
  BY <1>1, <1>5 DEF LinksListed
<1>8. NothingLost(n)
  BY <1>1, <1>2, <1>4, <1>5 DEF NothingLost
<1>9. Kept(n) = Kept(o)
  BY <1>2, <1>4, <1>5 DEF Kept
<1>10. QED
  BY <1>2, <1>5, <1>6, <1>7, <1>8, <1>9 DEF CarefulTree

-----------------------------------------------------------------------------
(* Where a path leads in such a tree: to its directory, as long as that is *)
(* listed, and nowhere else.                                               *)

LEMMA PrefixPath ==
  ASSUME NEW p \in Path, NEW n \in 1..Len(p)
  PROVE  LET q == SubSeq(p, 1, n)
         IN  q \in Path /\ Last(q) = p[n] /\ Front(q) = SubSeq(p, 1, n - 1)
<1> DEFINE q == SubSeq(p, 1, n)
<1>1. /\ p \in Seq(Name) /\ Len(p) \in Nat /\ Len(p) <= MaxDepth /\ MaxDepth \in Nat
  BY PathFacts, RelocatedDirsAssumption
<1>2. n \in Nat /\ n >= 1 /\ n <= Len(p) /\ n - 1 \in Nat /\ n - 1 <= Len(p)
  <2> DEFINE k == Len(p)
  <2>1. k \in Nat /\ n \in 1..k
    BY <1>1
  <2> HIDE DEF k
  <2>2. n \in Nat /\ n >= 1 /\ n <= k /\ n - 1 \in Nat /\ n - 1 <= k
    BY <2>1
  <2>3. QED
    BY <2>2 DEF k
<1>3. q \in Seq(Name) /\ Len(q) = n /\ \A i \in 1..n : q[i] = p[i]
  BY <1>1, <1>2, Beginning
<1>4. q \in Path
  <2>1. n \in 1..MaxDepth
    <3> DEFINE k == Len(p)
    <3>1. k \in Nat /\ n \in Nat /\ n >= 1 /\ n <= k /\ k <= MaxDepth
      BY <1>1, <1>2
    <3> HIDE DEF k
    <3>2. QED
      BY <1>1, <3>1
  <2> HIDE DEF q
  <2>2. q \in [1..n -> Name]
    BY <1>3
  <2>3. QED
    BY <2>1, <2>2 DEF Path
<1>5. Last(q) = p[n]
  <2>1. Last(q) = q[Len(q)]
    BY DEF Last
  <2> HIDE DEF q
  <2>2. QED
    BY <1>2, <1>3, <2>1
<1>6. Front(q) = SubSeq(p, 1, n - 1)
  <2> DEFINE m == n - 1
             f == Front(q)
             s == SubSeq(p, 1, m)
  <2>1. f = SubSeq(q, 1, m)
    <3>1. f = SubSeq(q, 1, Len(q) - 1)
      BY DEF Front
    <3> HIDE DEF f, q
    <3>2. QED
      BY <1>3, <3>1
  <2>2. m \in Nat /\ m <= Len(q) /\ m <= Len(p) /\ \A i \in 1..m : i \in 1..n
    <3> HIDE DEF q
    <3>1. QED
      BY <1>2, <1>3
  <2> HIDE DEF q, m, f
  <2>3. f \in Seq(Name) /\ Len(f) = m /\ \A i \in 1..m : f[i] = q[i]
    BY <1>3, <2>1, <2>2, Beginning
  <2>4. s \in Seq(Name) /\ Len(s) = m /\ \A i \in 1..m : s[i] = p[i]
    BY <1>1, <2>2, Beginning
  <2>5. \A i \in 1..m : f[i] = s[i]
    BY <1>3, <2>2, <2>3, <2>4
  <2> HIDE DEF s
  <2>6. f = s
    BY <2>3, <2>4, <2>5
  <2>7. QED
    BY <2>6 DEF f, s, m
<1>7. QED
  BY <1>4, <1>5, <1>6

\* What stands in the place of a directory.
Here(p) == IF Relocates(p) THEN LinkRec(p) ELSE DirRec(p)

LEMMA HereListed ==
  ASSUME NEW o, CarefulTree(o), NEW p \in Path, DirRec(p) \in Listed(o)
  PROVE  /\ DirRec(Front(p)) \in Listed(o) \cup {Root}
         /\ Here(p) \in Named(o, DirRec(Front(p)), <<Last(p), 0>>)
         /\ Here(p) \in Listed(o)
<1>1. Tree(o, {}) /\ InPlace(o) /\ LinksListed(o) /\ NothingLost(o)
  BY DEF CarefulTree
<1>2. Here(p) \in Listed(o)
  BY <1>1 DEF Here, LinksListed
<1>3. /\ Here(p) \in DOMAIN o /\ Here(p) \in o[o[Here(p)].parent].kids
      /\ o[Here(p)].parent \in Listed(o) \cup {Root}
  BY <1>1, <1>2, ListedIs
<1>4. o[Here(p)].parent = DirRec(Front(p))
  BY <1>1, <1>3 DEF Here, InPlace
<1>5. Kind(Here(p), o[Here(p)])
  BY <1>1, <1>3 DEF Tree
<1>6. o[Here(p)].ident = <<Last(p), 0>>
  BY <1>5 DEF Kind, Here, PlainKind, LinkKind
<1>7. QED
  BY <1>2, <1>3, <1>4, <1>6 DEF Named

LEMMA OnlyHere ==
  ASSUME NEW o, CarefulTree(o), NEW p \in Path, DirRec(Front(p)) \in DOMAIN o,
         NEW c \in Named(o, DirRec(Front(p)), <<Last(p), 0>>)
  PROVE  c = Here(p) /\ DirRec(p) \in Listed(o)
<1> DEFINE d == DirRec(Front(p))
<1>1. Tree(o, {}) /\ InPlace(o) /\ LinksListed(o) /\ NothingLost(o)
  BY DEF CarefulTree
<1>2. c \in o[d].kids /\ o[c].ident = <<Last(p), 0>>
  BY DEF Named
<1>3. c \in DOMAIN o /\ c # Root /\ c \in Listed(o) /\ o[c].parent = d
  <2> HIDE DEF d
  <2>1. d \in DOMAIN o
    BY DEF d
  <2>2. QED
    BY <1>1, <1>2, <2>1 DEF Tree, RefersIn, AtHome, Listed
<1>4. Kind(c, o[c]) /\ c \in Rec
  BY <1>1, <1>3 DEF Tree
<1>5. c # RrMovedRec
  <2>1. Last(p) # RrMoved
    BY PathFacts, RelocatedDirsAssumption
  <2>2. QED
    BY <1>1, <1>2, <1>3, <2>1, RrMovedIs
<1>6. ASSUME NEW q \in Path, c = DirRec(q) PROVE q = p /\ ~Relocates(p)
  <2>1. ~Relocates(q) /\ DirRec(Front(q)) = DirRec(Front(p))
    BY <1>1, <1>3, <1>6, SameRecord DEF InPlace
  <2>2. Front(q) = Front(p)
    BY <2>1, SameRecord
  <2>3. Last(q) = Last(p)
    BY <1>2, <1>4, <1>6, <2>1 DEF Kind, PlainKind
  <2>4. q = p
    BY <2>2, <2>3, SamePath
  <2>5. QED
    BY <2>1, <2>4
<1>7. ASSUME NEW q \in Path, c = LinkRec(q) PROVE q = p /\ Relocates(p)
  <2>1. Relocates(q) /\ LinkKind(q, o[c])
    BY <1>4, <1>7 DEF Kind
  <2>2. DirRec(Front(q)) = DirRec(Front(p))
    BY <1>1, <1>3, <1>7 DEF InPlace
  <2>3. Front(q) = Front(p) /\ Last(q) = Last(p)
    BY <1>2, <2>1, <2>2, SameRecord DEF LinkKind
  <2>4. q = p
    BY <2>3, SamePath
  <2>5. QED
    BY <2>1, <2>4
<1>8. c = Here(p)
  BY <1>3, <1>4, <1>5, <1>6, <1>7, RecFacts DEF Here
<1>9. QED
  BY <1>1, <1>3, <1>8 DEF Here, LinksListed

LEMMA BelowFrom ==
  ASSUME NEW o, NEW d, d # None, NEW x
  PROVE  \/ Named(o, d, <<x, 0>>) = {} /\ Below(o, d, x) = None
         \/ \E c \in Named(o, d, <<x, 0>>) :
              Below(o, d, x) = IF IsLink(o, c) THEN o[c].target ELSE c
<1> DEFINE cs == IF d = None THEN {} ELSE Named(o, d, <<x, 0>>)
           c == CHOOSE c \in cs : TRUE
<1>1. cs = Named(o, d, <<x, 0>>)
  OBVIOUS
<1>2. CASE cs = {}
  <2>1. Below(o, d, x) = None
    BY <1>2, Zenon DEF Below
  <2>2. QED
    BY <1>1, <1>2, <2>1
<1>3. CASE cs # {}
  <2>1. Below(o, d, x) = IF IsLink(o, c) THEN o[c].target ELSE c
    BY <1>3, Zenon DEF Below
  <2>2. c \in cs
    BY <1>3
  <2> HIDE DEF c, cs
  <2>3. QED
    BY <1>1, <2>1, <2>2
<1>4. QED
  BY <1>2, <1>3

LEMMA BelowCareful ==
  ASSUME NEW o, CarefulTree(o), NEW p \in Path, DirRec(Front(p)) \in Listed(o) \cup {Root}
  PROVE  Below(o, DirRec(Front(p)), Last(p)) =
           IF DirRec(p) \in Listed(o) THEN DirRec(p) ELSE None
<1> DEFINE d == DirRec(Front(p))
           x == Last(p)
           cs == Named(o, d, <<x, 0>>)
<1>1. Tree(o, {}) /\ NothingLost(o)
  BY DEF CarefulTree
<1>2. d \in DOMAIN o
  BY <1>1, ListedIs DEF Tree
<1>3. d # None
  BY <1>1, <1>2, RecFacts DEF Tree
<1>4. \/ cs = {} /\ Below(o, d, x) = None
      \/ \E c \in cs : Below(o, d, x) = IF IsLink(o, c) THEN o[c].target ELSE c
  <2> HIDE DEF d, x
  <2>1. QED
    BY <1>3, BelowFrom
<1>5. CASE DirRec(p) \notin Listed(o)
  <2>1. cs = {}
    BY <1>2, <1>5, OnlyHere
  <2> HIDE DEF cs, d, x
  <2>2. Below(o, d, x) = None
    BY <1>4, <2>1
  <2>3. QED
    BY <1>5, <2>2 DEF d, x
<1>6. CASE DirRec(p) \in Listed(o)
  <2>1. cs # {}
    BY <1>6, HereListed
  <2>2. PICK c \in cs : Below(o, d, x) = IF IsLink(o, c) THEN o[c].target ELSE c
    <3> HIDE DEF cs, d, x
    <3>1. QED
      BY <1>4, <2>1
  <2>3. c = Here(p) /\ c \in o[d].kids
    BY <1>2, <2>2, OnlyHere DEF Named
  <2> HIDE DEF cs, d, x
  <2>4. c \in DOMAIN o /\ Kind(c, o[c])
    BY <1>1, <1>2, <2>3 DEF Tree, RefersIn
  <2>5. CASE Relocates(p)
    <3>1. LinkKind(p, o[c])
      BY <2>3, <2>4, <2>5 DEF Kind, Here
    <3>2. o[c].target = DirRec(p) /\ DirRec(p) # None
      BY <3>1, RecFacts DEF LinkKind
    <3>3. Below(o, d, x) = DirRec(p)
      BY <2>2, <3>2 DEF IsLink
    <3>4. QED
      BY <1>6, <3>3 DEF d, x
  <2>6. CASE ~Relocates(p)
    <3>1. PlainKind(p, o[c]) /\ c = DirRec(p)
      BY <2>3, <2>4, <2>6 DEF Kind, Here
    <3>2. Below(o, d, x) = DirRec(p)
      BY <2>2, <3>1 DEF IsLink, PlainKind
    <3>3. QED
      BY <1>6, <3>2 DEF d, x
  <2>7. QED
    BY <2>5, <2>6
<1>7. QED
  BY <1>5, <1>6

LeadsTo(o, p) == IF p = <<>> \/ DirRec(p) \in Listed(o) THEN DirRec(p) ELSE None

\* A path leads to its own record if that is listed, and nowhere otherwise.
LEMMA FindCareful ==
  ASSUME NEW o, CarefulTree(o), NEW p \in Path
  PROVE  Find(o, p) = LeadsTo(o, p)
<1> DEFINE e == Walk(o, p)
           k == Len(p)
           B(n) == SubSeq(p, 1, n)
           T == {n \in 0..k : e[n] = LeadsTo(o, B(n))}
<1>1. k \in Nat /\ k >= 1 /\ p \in Seq(Name)
  BY PathFacts
<1>2. e[0] = Root /\ \A n \in 1..k : e[n] = Below(o, e[n - 1], p[n])
  BY <1>1, WalkIs
<1>3. Find(o, p) = e[k]
  BY DEF Find
<1>4. B(0) = <<>> /\ B(k) = p
  <2>1. B(0) = <<>>
    BY <1>1
  <2>2. B(k) = p
    BY <1>1
  <2>3. QED
    BY <2>1, <2>2
<1>5. ASSUME NEW n \in 1..k
      PROVE  B(n) \in Path /\ Last(B(n)) = p[n] /\ Front(B(n)) = B(n - 1) /\ B(n) # <<>>
  <2>1. B(n) \in Path /\ Last(B(n)) = p[n] /\ Front(B(n)) = B(n - 1)
    BY PrefixPath
  <2> HIDE DEF B
  <2>2. QED
    BY <2>1, PathFacts
<1> HIDE DEF e, k, B
<1>6. 0 \in T
  <2>1. LeadsTo(o, <<>>) = Root
    BY SameRecord DEF LeadsTo
  <2>2. QED
    BY <1>1, <1>2, <1>4, <2>1
<1>7. ASSUME NEW n \in 0..(k - 1), n \in T PROVE n + 1 \in T
  <2>1. n + 1 \in 1..k /\ n + 1 \in 0..k /\ (n + 1) - 1 = n
    BY <1>1
  <2> DEFINE q == B(n + 1)
  <2>2. q \in Path /\ Last(q) = p[n + 1] /\ Front(q) = B(n) /\ q # <<>>
    BY <1>5, <2>1
  <2>3. e[n + 1] = Below(o, e[n], p[n + 1]) /\ e[n] = LeadsTo(o, B(n))
    BY <1>2, <1>7, <2>1
  <2> HIDE DEF q
  <2>4. e[n + 1] = LeadsTo(o, q)
    <3>1. CASE DirRec(B(n)) \in Listed(o) \cup {Root}
      <4>1. e[n] = DirRec(Front(q))
        <5>1. B(n) = <<>> \/ DirRec(B(n)) \in Listed(o)
          BY <3>1, SameRecord
        <5>2. QED
          BY <2>2, <2>3, <5>1 DEF LeadsTo
      <4>2. DirRec(Front(q)) \in Listed(o) \cup {Root}
        BY <2>2, <3>1
      <4>3. Below(o, DirRec(Front(q)), Last(q)) =
              IF DirRec(q) \in Listed(o) THEN DirRec(q) ELSE None
        BY <2>2, <4>2, BelowCareful
      <4>4. QED
        BY <2>2, <2>3, <4>1, <4>3 DEF LeadsTo
    <3>2. CASE DirRec(B(n)) \notin Listed(o) \cup {Root}
      <4>1. e[n] = None
        BY <2>3, <3>2, SameRecord DEF LeadsTo
      <4>2. DirRec(q) \notin Listed(o)
        BY <2>2, <3>2, HereListed
      <4>3. \A x : Below(o, None, x) = None
        BY Zenon DEF Below
      <4>4. QED
        BY <2>2, <2>3, <4>1, <4>2, <4>3 DEF LeadsTo
    <3>3. QED
      BY <3>1, <3>2
  <2>5. QED
    BY <2>1, <2>4 DEF q
<1> HIDE DEF T
<1>8. \A n \in 0..k : n \in T
  <2>1. \A n \in 0..(k - 1) : n \in T => n + 1 \in T
    BY <1>7
  <2>2. k \in Nat
    BY <1>1
  <2>3. QED
    BY ONLY <1>6, <2>1, <2>2, UpTo
<1>9. e[k] = LeadsTo(o, B(k))
  BY <1>1, <1>8 DEF T
<1>10. QED
  BY <1>3, <1>4, <1>9

LEMMA FindRoot ==
  ASSUME NEW o
  PROVE  Find(o, <<>>) = Root
<1>1. Len(<<>>) = 0
  OBVIOUS
<1>2. Walk(o, <<>>)[0] = Root
  BY <1>1, WalkIs
<1>3. QED
  BY <1>1, <1>2 DEF Find

LEMMA FindFront ==
  ASSUME NEW o, CarefulTree(o), NEW p \in Path
  PROVE  LET d == Find(o, Front(p))
         IN  /\ d # None => d = DirRec(Front(p)) /\ d \in Listed(o) \cup {Root}
             /\ d = None <=> Front(p) # <<>> /\ DirRec(Front(p)) \notin Listed(o)
<1>1. CASE Front(p) = <<>>
  <2>1. Find(o, Front(p)) = Root /\ DirRec(Front(p)) = Root /\ Root # None
    BY <1>1, FindRoot, SameRecord, RecFacts
  <2>2. QED
    BY <1>1, <2>1
<1>2. CASE Front(p) # <<>>
  <2>1. Front(p) \in Path
    BY <1>2, FrontPath
  <2>2. Find(o, Front(p)) = LeadsTo(o, Front(p)) /\ DirRec(Front(p)) # None
    BY <2>1, FindCareful, RecFacts
  <2> DEFINE d == Find(o, Front(p))
             x == DirRec(Front(p))
  <2>3. /\ d = IF x \in Listed(o) THEN x ELSE None
        /\ x # None
    BY <1>2, <2>2, Zenon DEF LeadsTo
  <2> HIDE DEF d, x
  <2>4. /\ d # None => d = x /\ d \in Listed(o) \cup {Root}
        /\ d = None <=> Front(p) # <<>> /\ x \notin Listed(o)
    BY <1>2, <2>3
  <2>5. QED
    BY <2>4 DEF d, x
<1>3. QED
  BY <1>1, <1>2

-----------------------------------------------------------------------------
(* Path tables of one descriptor, and what they are charged. *)

LEMMA Division ==
  ASSUME NEW a \in Nat, NEW t \in Nat \ {0}
  PROVE  /\ a \div t \in Nat /\ a % t \in 0..(t - 1) /\ a = t * (a \div t) + (a % t)
OBVIOUS

LEMMA Quotient ==
  ASSUME NEW q \in Nat, NEW t \in Nat \ {0}, NEW r \in 0..(t - 1)
  PROVE  (t * q + r) \div t = q
OBVIOUS

\* One directory more needs at most one table more.
LEMMA TablesGrow ==
  ASSUME NEW n \in Nat
  PROVE  /\ TablesFor(n) \in Nat
         /\ TablesFor(n + 1) = TablesFor(n) \/ TablesFor(n + 1) = TablesFor(n) + 1
         /\ TablesFor(1) = 1
<1> DEFINE t == TableFit
           a == n + t - 1
           q == a \div t
           r == a % t
<1>1. t \in Nat \ {0}
  BY RelocatedDirsAssumption
<1>2. a \in Nat
  BY <1>1
<1> HIDE DEF t, a
<1>3. q \in Nat /\ r \in 0..(t - 1) /\ a = t * q + r
  BY <1>1, <1>2, Division
<1>4. TablesFor(n) = q
  BY DEF TablesFor, t, a
<1>5. TablesFor(n + 1) = (a + 1) \div t
  <2>1. (n + 1) + t - 1 = a + 1
    BY <1>1 DEF a
  <2>2. QED
    BY <2>1 DEF TablesFor, t
<1>6. TablesFor(1) = 1
  <2>1. TablesFor(1) = (1 + t - 1) \div t
    BY DEF TablesFor, t
  <2>2. 1 + t - 1 = t * 1 + 0 /\ 0 \in 0..(t - 1) /\ 1 \in Nat
    BY <1>1
  <2>3. (t * 1 + 0) \div t = 1
    BY ONLY <1>1, <2>2, Quotient
  <2>4. QED
    BY <2>1, <2>2, <2>3
<1> HIDE DEF q, r
<1> DEFINE m == t * q
<1>7. m \in Nat /\ a = m + r /\ t * (q + 1) = m + t /\ q + 1 \in Nat
  BY <1>1, <1>3
<1>8. CASE r = t - 1
  <2>1. t * (q + 1) + 0 = a + 1 /\ 0 \in 0..(t - 1)
    <3> HIDE DEF m
    <3>1. QED
      BY <1>1, <1>3, <1>7, <1>8
  <2>2. (t * (q + 1) + 0) \div t = q + 1
    BY ONLY <1>1, <1>7, <2>1, Quotient
  <2>3. QED
    BY <1>3, <1>4, <1>5, <1>6, <2>1, <2>2
<1>9. CASE r # t - 1
  <2>1. t * q + (r + 1) = a + 1 /\ r + 1 \in 0..(t - 1)
    <3>1. m + (r + 1) = a + 1 /\ r + 1 \in 0..(t - 1)
      <4> HIDE DEF m
      <4>1. QED
        BY <1>1, <1>3, <1>7, <1>9
    <3>2. QED
      BY <3>1
  <2>2. (t * q + (r + 1)) \div t = q
    BY ONLY <1>1, <1>3, <2>1, Quotient
  <2>3. QED
    BY <1>3, <1>4, <1>5, <1>6, <2>1, <2>2
<1>10. QED
  BY <1>8, <1>9

SumOf(g, v) == g = [i \in 0..Len(<<v>>) |-> IF i = 0 THEN 0 ELSE g[i - 1] + 4 * <<v>>[i].tables]

LEMMA OneBlocks ==
  ASSUME NEW v, v.tables \in Nat
  PROVE  TableBlocks(<<v>>) = 4 * v.tables
<1> DEFINE h == [i \in 0..1 |-> IF i = 0 THEN 0 ELSE 4 * v.tables]
           g == CHOOSE x : SumOf(x, v)
<1>1. Len(<<v>>) = 1 /\ <<v>>[1] = v
  OBVIOUS
<1>2. SumOf(h, v)
  <2>1. \A i \in 0..1 : i = 0 \/ i = 1
    OBVIOUS
  <2>2. \A i \in 0..1 : h[i] = IF i = 0 THEN 0 ELSE h[i - 1] + 4 * <<v>>[i].tables
    BY <1>1, <2>1
  <2>3. h = [i \in 0..1 |-> h[i]]
    OBVIOUS
  <2> HIDE DEF h
  <2>4. h = [i \in 0..1 |-> IF i = 0 THEN 0 ELSE h[i - 1] + 4 * <<v>>[i].tables]
    BY <2>2, <2>3
  <2>5. QED
    BY <1>1, <2>4 DEF SumOf
<1>3. SumOf(g, v)
  <2> HIDE DEF h
  <2>1. QED
    BY <1>2
<1>4. TableBlocks(<<v>>) = g[Len(<<v>>)]
  BY Zenon DEF TableBlocks, SumOf
<1> HIDE DEF g
<1>5. g[1] = g[0] + 4 * v.tables /\ g[0] = 0
  BY <1>1, <1>3 DEF SumOf
<1>6. QED
  BY <1>1, <1>4, <1>5

\* A descriptor with the tables it needs keeps them so, both ways.
LEMMA OneDescriptor ==
  ASSUME NEW n \in Nat
  PROVE  /\ GrowAll(<<Tables(n)>>) = <<Tables(n + 1)>>
         /\ ShrinkAll(<<Tables(n + 1)>>) = <<Tables(n)>>
         /\ ~Stuck(Tables(n + 1))
         /\ TableBlocks(<<Tables(n)>>) = 4 * TablesFor(n)
<1>1. /\ TablesFor(n) \in Nat /\ TablesFor(n + 1) \in Nat
      /\ TablesFor(n + 1) = TablesFor(n) \/ TablesFor(n + 1) = TablesFor(n) + 1
  BY TablesGrow
<1> DEFINE a == TablesFor(n)
           b == TablesFor(n + 1)
<1>2. /\ Tables(n).size = n /\ Tables(n).tables = a
      /\ Tables(n + 1).size = n + 1 /\ Tables(n + 1).tables = b
      /\ (n + 1) - 1 = n
  BY DEF Tables
<1>3. Grown(Tables(n)) = Tables(n + 1)
  <2>1. Grown(Tables(n)) = [size |-> n + 1, tables |-> IF b > a THEN a + 1 ELSE a]
    BY <1>2 DEF Grown
  <2>2. b = IF b > a THEN a + 1 ELSE a
    <3> HIDE DEF a, b
    <3>1. a \in Nat /\ b \in Nat /\ (b = a \/ b = a + 1)
      BY <1>1 DEF a, b
    <3>2. QED
      BY <3>1
  <2>3. QED
    BY <2>1, <2>2 DEF Tables
<1>4. Shrunk(Tables(n + 1)) = Tables(n)
  <2>1. Shrunk(Tables(n + 1)) = [size |-> n, tables |-> IF a < b THEN b - 1 ELSE b]
    BY <1>2 DEF Shrunk
  <2>2. a = IF a < b THEN b - 1 ELSE b
    <3> HIDE DEF a, b
    <3>1. a \in Nat /\ b \in Nat /\ (b = a \/ b = a + 1)
      BY <1>1 DEF a, b
    <3>2. QED
      BY <3>1
  <2>3. QED
    BY <2>1, <2>2 DEF Tables
<1>5. ~Stuck(Tables(n + 1))
  <2>1. Stuck(Tables(n + 1)) <=> a > b
    BY <1>2 DEF Stuck
  <2>2. ~(a > b)
    <3> HIDE DEF a, b
    <3>1. a \in Nat /\ b \in Nat /\ (b = a \/ b = a + 1)
      BY <1>1 DEF a, b
    <3>2. QED
      BY <3>1
  <2>3. QED
    BY <2>1, <2>2
<1>6. GrowAll(<<Tables(n)>>) = <<Tables(n + 1)>> /\ ShrinkAll(<<Tables(n + 1)>>) = <<Tables(n)>>
  <2>1. \A v : DOMAIN <<v>> = {1} /\ <<v>>[1] = v
    OBVIOUS
  <2>2. ASSUME NEW v, NEW w, NEW f, f = [i \in {1} |-> w] PROVE f = <<w>>
    BY <2>2
  <2>3. GrowAll(<<Tables(n)>>) = [i \in {1} |-> Tables(n + 1)]
    BY <1>3, <2>1 DEF GrowAll
  <2>4. ShrinkAll(<<Tables(n + 1)>>) = [i \in {1} |-> Tables(n)]
    BY <1>4, <2>1 DEF ShrinkAll
  <2>5. QED
    BY <2>2, <2>3, <2>4
<1>7. TableBlocks(<<Tables(n)>>) = 4 * TablesFor(n)
  <2>1. Tables(n).tables \in Nat
    BY <1>1, <1>2
  <2> DEFINE v == Tables(n)
  <2> HIDE DEF v
  <2>2. TableBlocks(<<v>>) = 4 * v.tables
    BY <2>1, OneBlocks DEF v
  <2>3. QED
    BY <1>2, <2>2 DEF v
<1>8. QED
  BY <1>3, <1>4, <1>5, <1>6, <1>7

LEMMA CountsGrow ==
  ASSUME NEW n \in Nat, NEW vds, NEW blocks, CountsAre(n, vds, blocks)
  PROVE  CountsAre(n + 1, GrowAll(vds), blocks + 1 + Charge(vds, GrowAll(vds)))
<1>1. vds = <<Tables(n)>> /\ blocks = n + 4 * TablesFor(n)
  BY DEF CountsAre
<1>2. GrowAll(vds) = <<Tables(n + 1)>>
  BY <1>1, OneDescriptor
<1>3. TableBlocks(vds) = 4 * TablesFor(n) /\ TablesFor(n) \in Nat
  BY <1>1, OneDescriptor, TablesGrow
<1>4. n + 1 \in Nat
  OBVIOUS
<1>5. TableBlocks(GrowAll(vds)) = 4 * TablesFor(n + 1) /\ TablesFor(n + 1) \in Nat
  BY <1>2, <1>4, OneDescriptor, TablesGrow
<1>6. blocks + 1 + Charge(vds, GrowAll(vds)) = n + 1 + 4 * TablesFor(n + 1)
  BY <1>1, <1>3, <1>5 DEF Charge
<1>7. QED
  BY <1>2, <1>6 DEF CountsAre

LEMMA CountsShrink ==
  ASSUME NEW n \in Nat, NEW vds, NEW blocks, CountsAre(n + 1, vds, blocks)
  PROVE  CountsAre(n, ShrinkAll(vds), blocks - 1 + Charge(vds, ShrinkAll(vds)))
<1>1. vds = <<Tables(n + 1)>> /\ blocks = n + 1 + 4 * TablesFor(n + 1)
  BY DEF CountsAre
<1>2. ShrinkAll(vds) = <<Tables(n)>>
  BY <1>1, OneDescriptor
<1>3. n + 1 \in Nat
  OBVIOUS
<1>4. TableBlocks(vds) = 4 * TablesFor(n + 1) /\ TablesFor(n + 1) \in Nat
  BY <1>1, <1>3, OneDescriptor, TablesGrow
<1>5. TableBlocks(ShrinkAll(vds)) = 4 * TablesFor(n) /\ TablesFor(n) \in Nat
  BY <1>2, OneDescriptor, TablesGrow
<1>6. blocks - 1 + Charge(vds, ShrinkAll(vds)) = n + 4 * TablesFor(n)
  BY <1>1, <1>4, <1>5 DEF Charge
<1>7. QED
  BY <1>2, <1>6 DEF CountsAre

\* Twice, what is charged at once is what each change would be charged.
LEMMA CountsTwice ==
  ASSUME NEW n \in Nat, NEW vds, NEW blocks
  PROVE  /\ CountsAre(n, vds, blocks) =>
              LET new == GrowAll(GrowAll(vds))
              IN  CountsAre(n + 2, new, blocks + 2 + Charge(vds, new))
         /\ CountsAre(n + 2, vds, blocks) =>
              LET new == ShrinkAll(ShrinkAll(vds))
              IN  CountsAre(n, new, blocks - 2 + Charge(vds, new))
<1> DEFINE one == GrowAll(<<Tables(n)>>)
<1>1. /\ n + 1 \in Nat /\ n + 2 \in Nat /\ (n + 1) + 1 = n + 2
      /\ TablesFor(n) \in Nat /\ TablesFor(n + 2) \in Nat
  BY TablesGrow
<1>2. /\ GrowAll(<<Tables(n)>>) = <<Tables(n + 1)>>
      /\ GrowAll(<<Tables(n + 1)>>) = <<Tables(n + 2)>>
      /\ ShrinkAll(<<Tables(n + 2)>>) = <<Tables(n + 1)>>
      /\ ShrinkAll(<<Tables(n + 1)>>) = <<Tables(n)>>
  <2> DEFINE k == n + 1
  <2>1. k \in Nat
    OBVIOUS
  <2> HIDE DEF k
  <2>2. GrowAll(<<Tables(k)>>) = <<Tables(k + 1)>> /\ ShrinkAll(<<Tables(k + 1)>>) = <<Tables(k)>>
    BY <2>1, OneDescriptor
  <2>3. GrowAll(<<Tables(n)>>) = <<Tables(n + 1)>> /\ ShrinkAll(<<Tables(n + 1)>>) = <<Tables(n)>>
    BY OneDescriptor
  <2>4. k + 1 = n + 2
    BY <1>1 DEF k
  <2>5. QED
    BY <2>2, <2>3, <2>4 DEF k
<1>3. /\ TableBlocks(<<Tables(n)>>) = 4 * TablesFor(n)
      /\ TableBlocks(<<Tables(n + 2)>>) = 4 * TablesFor(n + 2)
  BY <1>1, OneDescriptor
<1>4. CountsAre(n, vds, blocks) =>
        LET new == GrowAll(GrowAll(vds))
        IN  CountsAre(n + 2, new, blocks + 2 + Charge(vds, new))
  <2> SUFFICES ASSUME CountsAre(n, vds, blocks)
               PROVE  LET new == GrowAll(GrowAll(vds))
                      IN  CountsAre(n + 2, new, blocks + 2 + Charge(vds, new))
    OBVIOUS
  <2>1. vds = <<Tables(n)>> /\ blocks = n + 4 * TablesFor(n)
    BY DEF CountsAre
  <2>2. GrowAll(GrowAll(vds)) = <<Tables(n + 2)>>
    BY <1>2, <2>1
  <2>3. blocks + 2 + Charge(vds, <<Tables(n + 2)>>) = (n + 2) + 4 * TablesFor(n + 2)
    BY <1>1, <1>3, <2>1 DEF Charge
  <2>4. QED
    BY <2>2, <2>3 DEF CountsAre
<1>5. CountsAre(n + 2, vds, blocks) =>
        LET new == ShrinkAll(ShrinkAll(vds))
        IN  CountsAre(n, new, blocks - 2 + Charge(vds, new))
  <2> SUFFICES ASSUME CountsAre(n + 2, vds, blocks)
               PROVE  LET new == ShrinkAll(ShrinkAll(vds))
                      IN  CountsAre(n, new, blocks - 2 + Charge(vds, new))
    OBVIOUS
  <2>1. vds = <<Tables(n + 2)>> /\ blocks = (n + 2) + 4 * TablesFor(n + 2)
    BY DEF CountsAre
  <2>2. ShrinkAll(ShrinkAll(vds)) = <<Tables(n)>>
    BY <1>2, <2>1
  <2>3. blocks - 2 + Charge(vds, <<Tables(n)>>) = n + 4 * TablesFor(n)
    BY <1>1, <1>3, <2>1 DEF Charge
  <2>4. QED
    BY <2>2, <2>3 DEF CountsAre
<1>6. QED
  BY <1>4, <1>5

-----------------------------------------------------------------------------
(* Every operation keeps the tree careful. *)

\* A new directory at a level that ISO9660 has.
LEMMA PlainCareful ==
  ASSUME NEW o, CarefulTree(o), NEW p \in Path, ~Relocates(p), NEW n, Tree(n, {}),
         AddedPlain(o, n, DirRec(Front(p)), p), DirRec(Front(p)) \in Listed(o) \cup {Root}
  PROVE  /\ CarefulTree(n) /\ Listed(n) = Listed(o) \cup {DirRec(p)}
         /\ Kept(n) = Kept(o) \cup {DirRec(p)} /\ DirRec(p) \notin Kept(o)
<1> DEFINE d == DirRec(Front(p))
           c == DirRec(p)
<1>1. Tree(o, {}) /\ InPlace(o) /\ LinksListed(o) /\ NothingLost(o)
  BY DEF CarefulTree
<1>2. /\ d \in DOMAIN o /\ c \notin DOMAIN o
      /\ DOMAIN n = DOMAIN o \cup {c} /\ Same(o, n)
      /\ \A r \in DOMAIN o : n[r].kids = o[r].kids \cup (IF r = d THEN {c} ELSE {})
      /\ n[c].kids = {} /\ n[c].parent = d /\ n[c].target = None
  BY DEF AddedPlain, IsDirOf
<1>3. c \in Rec /\ c # Root /\ c # RrMovedRec /\ d \in Listed(o) \cup {Root}
  BY RecFacts
<1>4. \A q \in Path : /\ LinkRec(q) # c
                      /\ DirRec(q) = c => q = p
  BY RecFacts
<1>5. Listed(o) \subseteq DOMAIN o /\ Root \in DOMAIN o
  BY <1>1, ListedIs DEF Tree
<1>6. InPlace(n)
  <2>1. ASSUME NEW q \in Path, DirRec(q) \in DOMAIN n
        PROVE  n[DirRec(q)].parent = IF Relocates(q) THEN RrMovedRec ELSE DirRec(Front(q))
    <3>1. CASE q = p
      BY <1>2, <3>1
    <3>2. CASE q # p
      <4>1. DirRec(q) \in DOMAIN o
        BY <1>2, <1>4, <2>1, <3>2
      <4>2. QED
        BY <1>1, <1>2, <4>1 DEF InPlace, Same
    <3>3. QED
      BY <3>1, <3>2
  <2>2. ASSUME NEW q \in Path, LinkRec(q) \in DOMAIN n
        PROVE  n[LinkRec(q)].parent = DirRec(Front(q))
    <3>1. LinkRec(q) \in DOMAIN o
      BY <1>2, <1>4, <2>2
    <3>2. QED
      BY <1>1, <1>2, <3>1 DEF InPlace, Same
  <2>3. QED
    BY <2>1, <2>2 DEF InPlace
<1> HIDE DEF c, d
<1>7. Listed(n) = Listed(o) \cup {c}
  <2>1. ASSUME NEW x \in Listed(n) PROVE x \in Listed(o) \cup {c}
    <3>1. PICK y \in DOMAIN n : x \in n[y].kids
      BY <2>1 DEF Listed
    <3>2. y \in DOMAIN o
      BY <1>2, <3>1
    <3>3. x \in o[y].kids \cup {c}
      BY <1>2, <3>1, <3>2
    <3>4. QED
      BY <3>2, <3>3 DEF Listed
  <2>2. \A y \in DOMAIN o : y \in DOMAIN n /\ o[y].kids \subseteq n[y].kids
    BY <1>2
  <2>3. Listed(o) \subseteq Listed(n)
    BY <2>2 DEF Listed
  <2>4. c \in Listed(n)
    BY <1>2, <2>2 DEF Listed
  <2>5. QED
    BY <2>1, <2>3, <2>4
<1>8. LinksListed(n)
  <2>1. \A q \in Path : Relocates(q) => DirRec(q) # c /\ LinkRec(q) # c
    BY <1>4
  <2>2. QED
    BY <1>1, <1>7, <2>1 DEF LinksListed
<1>9. NothingLost(n)
  <2>1. ASSUME NEW r \in DOMAIN n \ (Listed(n) \cup {Root}) PROVE n[r].kids = {}
    BY <1>1, <1>2, <1>3, <1>7, <2>1 DEF NothingLost
  <2>2. ASSUME RrMovedRec \in Listed(n) PROVE n[RrMovedRec].kids # {}
    <3>1. RrMovedRec \in Listed(o) /\ RrMovedRec \in DOMAIN o
      BY <1>3, <1>5, <1>7, <2>2
    <3>2. QED
      BY <1>1, <1>2, <3>1 DEF NothingLost
  <2>3. QED
    BY <2>1, <2>2 DEF NothingLost
<1>10. Kept(n) = Kept(o) \cup {c} /\ c \notin Kept(o)
  <2>1. \A r \in Listed(o) : n[r].target = o[r].target
    BY <1>2, <1>5 DEF Same
  <2>2. QED
    BY <1>2, <1>3, <1>5, <1>7, <2>1 DEF Kept
<1>11. CarefulTree(n)
  BY <1>6, <1>8, <1>9 DEF CarefulTree
<1>12. QED
  BY <1>7, <1>10, <1>11 DEF c

\* A new directory below RR_MOVED, with its link and, if need be, RR_MOVED itself.
LEMMA RelocatedCareful ==
  ASSUME NEW o, CarefulTree(o), NEW p \in Path, Relocates(p), NEW n, Tree(n, {}),
         NEW fresh \in BOOLEAN, AddedRelocated(o, n, fresh, RrMovedRec, DirRec(Front(p)), p),
         DirRec(Front(p)) \in Listed(o) \cup {Root}, ~fresh => RrMovedRec \in Listed(o)
  PROVE  /\ CarefulTree(n)
         /\ Listed(n) = Listed(o) \cup {DirRec(p), LinkRec(p), RrMovedRec}
         /\ Kept(n) = Kept(o) \cup {DirRec(p), RrMovedRec}
         /\ DirRec(p) \notin Kept(o) /\ (fresh <=> RrMovedRec \notin Kept(o))
<1> DEFINE d == DirRec(Front(p))
           c == DirRec(p)
           l == LinkRec(p)
           m == RrMovedRec
<1>1. Tree(o, {}) /\ InPlace(o) /\ LinksListed(o) /\ NothingLost(o)
  BY DEF CarefulTree
<1>2. /\ d \in DOMAIN o /\ c \notin DOMAIN o /\ l \notin DOMAIN o
      /\ IF fresh THEN m \notin DOMAIN o ELSE m \in DOMAIN o
      /\ DOMAIN n = DOMAIN o \cup {m, c, l} /\ Same(o, n)
      /\ \A r \in DOMAIN o :
           n[r].kids = o[r].kids \cup (IF fresh /\ r = Root THEN {m} ELSE {})
                                 \cup (IF r = d THEN {l} ELSE {})
                                 \cup (IF r = m THEN {c} ELSE {})
      /\ fresh => n[m].kids = {c} /\ n[m].parent = Root /\ n[m].target = None
      /\ n[c].kids = {} /\ n[c].parent = m /\ n[c].target = None
      /\ n[l].kids = {} /\ n[l].parent = d /\ n[l].target = c
  BY DEF AddedRelocated, IsDirOf
<1>3. /\ c \in Rec /\ c # Root /\ c # m /\ l # Root /\ l # m /\ c # l /\ m # Root /\ c # None
      /\ d \in Listed(o) \cup {Root}
  BY RecFacts
<1>4. \A q \in Path : /\ LinkRec(q) # c /\ LinkRec(q) # m /\ DirRec(q) # m /\ DirRec(q) # l
                      /\ DirRec(q) = c => q = p
                      /\ LinkRec(q) = l => q = p
  BY RecFacts
<1>5. Listed(o) \subseteq DOMAIN o /\ Root \in DOMAIN o
  BY <1>1, ListedIs DEF Tree
<1>6. InPlace(n)
  <2>1. ASSUME NEW q \in Path, DirRec(q) \in DOMAIN n
        PROVE  n[DirRec(q)].parent = IF Relocates(q) THEN RrMovedRec ELSE DirRec(Front(q))
    <3>1. CASE q = p
      BY <1>2, <3>1
    <3>2. CASE q # p
      <4>1. DirRec(q) \in DOMAIN o
        BY <1>2, <1>4, <2>1, <3>2
      <4>2. QED
        BY <1>1, <1>2, <4>1 DEF InPlace, Same
    <3>3. QED
      BY <3>1, <3>2
  <2>2. ASSUME NEW q \in Path, LinkRec(q) \in DOMAIN n
        PROVE  n[LinkRec(q)].parent = DirRec(Front(q))
    <3>1. CASE q = p
      BY <1>2, <3>1
    <3>2. CASE q # p
      <4>1. LinkRec(q) \in DOMAIN o
        BY <1>2, <1>4, <2>2, <3>2
      <4>2. QED
        BY <1>1, <1>2, <4>1 DEF InPlace, Same
    <3>3. QED
      BY <3>1, <3>2
  <2>3. QED
    BY <2>1, <2>2 DEF InPlace
<1>7. Listed(n) = Listed(o) \cup {c, l, m}
  <2> HIDE DEF c, d, l, m
  <2>1. ASSUME NEW x \in Listed(n) PROVE x \in Listed(o) \cup {c, l, m}
    <3>1. PICK y \in DOMAIN n : x \in n[y].kids
      BY <2>1 DEF Listed
    <3>2. CASE y \in DOMAIN o
      <4>1. x \in o[y].kids \cup {c, l, m}
        BY <1>2, <3>1, <3>2
      <4>2. QED
        BY <3>2, <4>1 DEF Listed
    <3>3. CASE y \notin DOMAIN o
      BY <1>2, <3>1, <3>3
    <3>4. QED
      BY <3>2, <3>3
  <2>2. \A y \in DOMAIN o : y \in DOMAIN n /\ o[y].kids \subseteq n[y].kids
    BY <1>2
  <2>3. Listed(o) \subseteq Listed(n)
    BY <2>2 DEF Listed
  <2>4. l \in n[d].kids /\ d \in DOMAIN n
    BY <1>2, <2>2
  <2>5. c \in n[m].kids /\ m \in DOMAIN n
    BY <1>2, <2>2
  <2>6. m \in Listed(n)
    <3>1. CASE fresh
      <4>1. m \in n[Root].kids /\ Root \in DOMAIN n
        BY <1>2, <1>5, <2>2, <3>1
      <4>2. QED
        BY <4>1 DEF Listed
    <3>2. CASE ~fresh
      BY <2>3, <3>2 DEF m
    <3>3. QED
      BY <3>1, <3>2
  <2>7. c \in Listed(n) /\ l \in Listed(n)
    BY <2>4, <2>5 DEF Listed
  <2>8. QED
    BY <2>1, <2>3, <2>6, <2>7
<1>8. LinksListed(n)
  <2>1. ASSUME NEW q \in Path, Relocates(q)
        PROVE  DirRec(q) \in Listed(n) <=> LinkRec(q) \in Listed(n)
    <3>1. CASE q = p
      BY <1>7, <3>1
    <3>2. CASE q # p
      <4>1. /\ DirRec(q) \in Listed(n) <=> DirRec(q) \in Listed(o)
            /\ LinkRec(q) \in Listed(n) <=> LinkRec(q) \in Listed(o)
        BY <1>4, <1>7, <3>2
      <4>2. QED
        BY <1>1, <2>1, <4>1 DEF LinksListed
    <3>3. QED
      BY <3>1, <3>2
  <2>2. QED
    BY <2>1 DEF LinksListed
<1>9. NothingLost(n)
  <2>1. ASSUME NEW r \in DOMAIN n \ (Listed(n) \cup {Root}) PROVE n[r].kids = {}
    <3>1. r \in DOMAIN o /\ r \notin Listed(o) /\ r # Root /\ r # d /\ r # m
      BY <1>2, <1>3, <1>7, <2>1
    <3>2. QED
      BY <1>1, <1>2, <3>1 DEF NothingLost
  <2>2. n[RrMovedRec].kids # {}
    BY <1>2
  <2>3. QED
    BY <2>1, <2>2 DEF NothingLost
<1>10. \A r \in Listed(o) : n[r].target = o[r].target
  BY <1>2, <1>5 DEF Same
<1>11. n[m].target = None
  <2>1. Tree(n, {}) /\ m \in DOMAIN n
    BY <1>2
  <2>2. QED
    BY <2>1, RrMovedIs
<1>12. Kept(n) = Kept(o) \cup {c, m}
  <2> HIDE DEF c, d, l, m
  <2>1. \A r : r \in Listed(n) <=> r \in Listed(o) \/ r \in {c, l, m}
    BY <1>7
  <2>2. \A r : r \in Listed(n) /\ n[r].target = None <=>
                 (r \in Listed(o) /\ o[r].target = None) \/ r = c \/ r = m
    BY <1>2, <1>3, <1>5, <1>10, <1>11, <2>1
  <2>3. QED
    BY <2>2 DEF Kept
<1>13. c \notin Kept(o) /\ (fresh <=> m \notin Kept(o))
  <2>1. c \notin Listed(o) /\ c # Root
    BY <1>2, <1>3, <1>5
  <2>2. fresh => m \notin Listed(o)
    BY <1>2, <1>5
  <2>3. ~fresh => m \in Kept(o)
    <3>1. ASSUME ~fresh PROVE m \in Listed(o) /\ o[m].target = None
      BY <1>1, <1>5, <3>1, RrMovedIs
    <3>2. QED
      BY <3>1 DEF Kept
  <2>4. QED
    BY <1>3, <2>1, <2>2, <2>3 DEF Kept
<1>14. CarefulTree(n)
  BY <1>6, <1>8, <1>9 DEF CarefulTree
<1>15. QED
  BY <1>7, <1>12, <1>13, <1>14

\* A directory that was not relocated and is empty goes alone.
LEMMA RemovedCareful ==
  ASSUME NEW o, CarefulTree(o), NEW r, Removed(o, r), o[r].link = None, NEW w,
         KidsLost(o, w, o[r].parent, {r}), Tree(w, {})
  PROVE  /\ CarefulTree(w) /\ Listed(w) = Listed(o) \ {r}
         /\ Kept(w) = Kept(o) \ {r} /\ r \in Kept(o)
<1> DEFINE d == o[r].parent
<1>1. Tree(o, {}) /\ InPlace(o) /\ LinksListed(o) /\ NothingLost(o)
  BY DEF CarefulTree
<1>2. /\ r \in DOMAIN o /\ r # Root /\ o[r].target = None /\ o[r].kids = {}
      /\ d \in DOMAIN o /\ r \in o[d].kids
  BY DEF Removed
<1>3. r \in Listed(o)
  BY <1>2 DEF Listed
<1>4. /\ DOMAIN w = DOMAIN o /\ Same(o, w)
      /\ \A x \in DOMAIN o : w[x].kids = IF x = d THEN o[x].kids \ {r} ELSE o[x].kids
  BY <1>2 DEF KidsLost, Fewer
<1>5. r # RrMovedRec
  BY <1>1, <1>2, <1>3 DEF NothingLost
<1>6. Kind(r, o[r]) /\ r \in Rec
  BY <1>1, <1>2 DEF Tree
<1>7. PICK p \in Path : r = DirRec(p)
  <2>1. \A q \in Path : r # LinkRec(q)
    BY <1>2, <1>6, RecFacts DEF Kind, LinkKind
  <2>2. QED
    BY <1>2, <1>5, <1>6, <2>1, RecFacts
<1>8. ~Relocates(p)
  <2>1. Relocates(p) => o[r].link = LinkRec(p)
    BY <1>6, <1>7 DEF Kind, MovedKind
  <2>2. QED
    BY <2>1, RecFacts
<1>9. d = DirRec(Front(p)) /\ d # RrMovedRec
  BY <1>1, <1>2, <1>7, <1>8, SameRecord DEF InPlace
<1> HIDE DEF d
<1>10. Listed(w) = Listed(o) \ {r}
  <2>1. ASSUME NEW x \in Listed(w) PROVE x \in Listed(o) \ {r}
    <3>1. PICK y \in DOMAIN o : x \in w[y].kids
      BY <1>4, <2>1 DEF Listed
    <3>2. x \in o[y].kids
      BY <1>4, <3>1
    <3>3. x \in Listed(o)
      BY <3>2 DEF Listed
    <3>4. x # r
      <4>1. x = r => y = d
        BY <1>1, <3>2 DEF Tree, AtHome, d
      <4>2. QED
        BY <1>4, <3>1, <4>1
    <3>5. QED
      BY <3>3, <3>4
  <2>2. ASSUME NEW x \in Listed(o), x # r PROVE x \in Listed(w)
    <3>1. PICK y \in DOMAIN o : x \in o[y].kids
      BY DEF Listed
    <3>2. x \in w[y].kids
      BY <1>4, <2>2, <3>1
    <3>3. QED
      BY <1>4, <3>1, <3>2 DEF Listed
  <2>3. QED
    BY <2>1, <2>2
<1>11. InPlace(w)
  BY <1>1, <1>4 DEF InPlace, Same
<1>12. LinksListed(w)
  <2>1. \A q \in Path : Relocates(q) => DirRec(q) # r /\ LinkRec(q) # r
    BY <1>7, <1>8, RecFacts
  <2>2. QED
    BY <1>1, <1>10, <2>1 DEF LinksListed
<1>13. NothingLost(w)
  <2>1. ASSUME NEW x \in DOMAIN w \ (Listed(w) \cup {Root}) PROVE w[x].kids = {}
    <3>1. o[x].kids = {}
      <4>1. CASE x = r
        BY <1>2, <4>1
      <4>2. CASE x # r
        <5>1. x \in DOMAIN o \ (Listed(o) \cup {Root})
          BY <1>4, <1>10, <2>1, <4>2
        <5>2. QED
          BY <1>1, <5>1 DEF NothingLost
      <4>3. QED
        BY <4>1, <4>2
    <3>2. QED
      BY <1>4, <2>1, <3>1
  <2>2. ASSUME RrMovedRec \in Listed(w) PROVE w[RrMovedRec].kids # {}
    <3>1. RrMovedRec \in Listed(o) /\ RrMovedRec \in DOMAIN o
      BY <1>1, <1>10, <2>2, ListedIs
    <3>2. w[RrMovedRec].kids = o[RrMovedRec].kids
      BY <1>4, <1>9, <3>1
    <3>3. QED
      BY <1>1, <3>1, <3>2 DEF NothingLost
  <2>3. QED
    BY <2>1, <2>2 DEF NothingLost
<1>14. Kept(w) = Kept(o) \ {r} /\ r \in Kept(o)
  <2>1. \A x \in Listed(o) : x \in DOMAIN o
    BY <1>1, ListedIs
  <2>2. \A x \in Listed(o) : w[x].target = o[x].target
    BY <1>4, <2>1 DEF Same
  <2>3. QED
    BY <1>2, <1>3, <1>10, <2>2 DEF Kept
<1>15. CarefulTree(w)
  BY <1>11, <1>12, <1>13 DEF CarefulTree
<1>16. QED
  BY <1>10, <1>14, <1>15

\* A relocated directory goes with its link, and RR_MOVED with the last of them.
LEMMA RemovedRelocatedCareful ==
  ASSUME NEW o, CarefulTree(o), NEW p \in Path, RelocatedAs(o, DirRec(p), p),
         NEW e \in BOOLEAN, e <=> o[RrMovedRec].kids = {DirRec(p)},
         NEW w, LostThree(o, w, DirRec(p), LinkRec(p), RrMovedRec, e, {RrMovedRec})
  PROVE  LET gone == {DirRec(p)} \cup (IF e THEN {RrMovedRec} ELSE {})
         IN  /\ CarefulTree(w) /\ Listed(w) = Listed(o) \ (gone \cup {LinkRec(p)})
             /\ Kept(w) = Kept(o) \ gone /\ gone \subseteq Kept(o)
<1> DEFINE r == DirRec(p)
           c == LinkRec(p)
           m == RrMovedRec
           b == o[c].parent
           gone == {r} \cup (IF e THEN {m} ELSE {})
<1>1. Tree(o, {}) /\ InPlace(o) /\ LinksListed(o) /\ NothingLost(o)
  BY DEF CarefulTree
<1>2. /\ r \in DOMAIN o /\ r # Root /\ o[r].target = None /\ o[r].kids = {}
      /\ o[r].parent \in DOMAIN o /\ r \in o[o[r].parent].kids
      /\ Relocates(p) /\ c \in DOMAIN o /\ b \in DOMAIN o
  BY DEF RelocatedAs, Removed
<1>3. o[r].parent = m /\ b = DirRec(Front(p)) /\ b # m
  BY <1>1, <1>2, SameRecord DEF InPlace
<1>4. m \in DOMAIN o /\ r \in o[m].kids
  BY <1>2, <1>3
<1>5. r \in Listed(o) /\ c \in Listed(o) /\ m \in Listed(o)
  <2>1. r \in Listed(o)
    BY <1>4 DEF Listed
  <2>2. c \in Listed(o)
    BY <1>1, <1>2, <2>1 DEF LinksListed
  <2>3. m \in Listed(o)
    BY <1>1, <1>4, RecFacts DEF NothingLost
  <2>4. QED
    BY <2>1, <2>2, <2>3
<1>6. o[m].parent = Root /\ o[m].target = None /\ m # Root /\ m # r /\ m # c /\ r # c /\ c # Root
  BY <1>1, <1>4, RrMovedIs, RecFacts
<1>7. /\ DOMAIN w = DOMAIN o /\ Same(o, w) /\ Tree(w, {})
      /\ \A x \in DOMAIN o :
           w[x].kids = ((o[x].kids \ (IF x = m THEN {r} ELSE {}))
                           \ (IF e /\ x = o[m].parent THEN {m} ELSE {}))
                           \ (IF x = o[c].parent THEN {c} ELSE {})
  BY DEF LostThree, Fewer
<1>8. \A x \in DOMAIN o :
        w[x].kids = ((o[x].kids \ (IF x = m THEN {r} ELSE {}))
                        \ (IF e /\ x = Root THEN {m} ELSE {}))
                        \ (IF x = b THEN {c} ELSE {})
  BY <1>6, <1>7
<1>9. LinkKind(p, o[c])
  BY <1>1, <1>2 DEF Tree, Kind
<1>10. \A x \in DOMAIN o : \A y \in o[x].kids : o[y].parent = x
  BY <1>1 DEF Tree, AtHome
<1>11. o[c].kids = {} /\ o[c].target # None
  BY <1>9, RecFacts DEF LinkKind
<1>12. InPlace(w)
  BY <1>1, <1>7 DEF InPlace, Same
<1>13. \A q \in Path : /\ DirRec(q) # m /\ LinkRec(q) # m /\ DirRec(q) # c /\ LinkRec(q) # r
                       /\ DirRec(q) = r => q = p
                       /\ LinkRec(q) = c => q = p
  BY RecFacts
<1> DEFINE E == o[m].kids
<1>14. e <=> E = {r}
  OBVIOUS
<1> HIDE DEF r, c, m, b, E
<1>15. Listed(w) = Listed(o) \ (gone \cup {c})
  <2>1. ASSUME NEW x \in Listed(w) PROVE x \in Listed(o) \ (gone \cup {c})
    <3>1. PICK y \in DOMAIN o : x \in w[y].kids
      BY <1>7, <2>1 DEF Listed
    <3>2. x \in o[y].kids /\ o[x].parent = y
      BY <1>8, <1>10, <3>1
    <3>3. x \in Listed(o)
      BY <3>2 DEF Listed
    <3>4. x # r
      BY <1>3, <1>8, <3>1, <3>2
    <3>5. x # c
      <4>1. x = c => y = b
        BY <3>2 DEF b
      <4>2. QED
        BY <1>8, <3>1, <4>1
    <3>6. e => x # m
      BY <1>6, <1>8, <3>1, <3>2
    <3>7. QED
      BY <3>3, <3>4, <3>5, <3>6
  <2>2. ASSUME NEW x \in Listed(o), x \notin gone \cup {c} PROVE x \in Listed(w)
    <3>1. PICK y \in DOMAIN o : x \in o[y].kids
      BY DEF Listed
    <3>2. x # r /\ x # c /\ (e => x # m)
      BY <2>2
    <3>3. x \in w[y].kids
      BY <1>8, <3>1, <3>2
    <3>4. QED
      BY <1>7, <3>1, <3>3 DEF Listed
  <2> HIDE DEF gone
  <2>3. QED
    BY <2>1, <2>2
<1>16. LinksListed(w)
  <2>1. ASSUME NEW q \in Path, Relocates(q)
        PROVE  DirRec(q) \in Listed(w) <=> LinkRec(q) \in Listed(w)
    <3>1. CASE q = p
      <4>1. DirRec(q) = r /\ LinkRec(q) = c
        BY <3>1 DEF r, c
      <4>2. QED
        BY <1>15, <4>1
    <3>2. CASE q # p
      <4>1. DirRec(q) \notin gone \cup {c} /\ LinkRec(q) \notin gone \cup {c}
        BY <1>13, <3>2
      <4>2. QED
        BY <1>1, <1>15, <2>1, <4>1 DEF LinksListed
    <3>3. QED
      BY <3>1, <3>2
  <2>2. QED
    BY <2>1 DEF LinksListed
<1>17. NothingLost(w)
  <2>1. ASSUME NEW x \in DOMAIN w \ (Listed(w) \cup {Root}) PROVE w[x].kids = {}
    <3>1. x \in DOMAIN o /\ x # Root /\ (x \notin Listed(o) \/ x = r \/ x = c \/ (e /\ x = m))
      BY <1>7, <1>15, <2>1
    <3>2. CASE x \notin Listed(o)
      <4>1. o[x].kids = {}
        BY <1>1, <3>1, <3>2 DEF NothingLost
      <4>2. QED
        BY <1>8, <3>1, <4>1
    <3>3. CASE x = r \/ x = c
      BY <1>2, <1>8, <1>11, <3>1, <3>3
    <3>4. CASE e /\ x = m
      <4>1. o[x].kids = {r}
        BY <1>14, <3>4 DEF E
      <4>2. QED
        BY <1>8, <3>1, <3>4, <4>1
    <3>5. QED
      BY <3>1, <3>2, <3>3, <3>4
  <2>2. ASSUME m \in Listed(w) PROVE w[m].kids # {}
    <3>1. ~e
      BY <1>15, <2>2
    <3>2. o[m].kids # {r} /\ r \in o[m].kids
      BY <1>4, <1>14, <3>1 DEF E
    <3>3. w[m].kids = o[m].kids \ {r}
      BY <1>3, <1>4, <1>6, <1>8, <3>1
    <3>4. QED
      BY <3>2, <3>3
  <2>3. QED
    BY <2>1, <2>2 DEF NothingLost, m
<1>18. Kept(w) = Kept(o) \ gone /\ gone \subseteq Kept(o)
  <2>1. \A x \in Listed(o) : x \in DOMAIN o
    BY <1>1, ListedIs
  <2>2. \A x \in Listed(o) : w[x].target = o[x].target
    BY <1>7, <2>1 DEF Same
  <2>3. gone \subseteq Kept(o) /\ Root \notin gone
    BY <1>2, <1>5, <1>6 DEF Kept
  <2>4. \A x : x \in Listed(w) /\ w[x].target = None <=>
                 x \in Listed(o) /\ o[x].target = None /\ x \notin gone
    BY <1>11, <1>15, <2>2
  <2> HIDE DEF gone
  <2>5. QED
    BY <2>3, <2>4 DEF Kept
<1>19. CarefulTree(w)
  BY <1>7, <1>12, <1>16, <1>17 DEF CarefulTree
<1>20. QED
  BY <1>15, <1>18, <1>19 DEF r, c, m

-----------------------------------------------------------------------------
(* The operations of a careful client. *)

Has(o, p) == DirRec(p) \in Listed(o)
Makes(p) ==
  /\ ~Has(obj, p) /\ (Front(p) = <<>> \/ Has(obj, Front(p)))
  /\ \A q \in Path : Has(obj', q) <=> q = p \/ Has(obj, q)
Removes(p) ==
  /\ Has(obj, p) /\ \A q \in Path : Has(obj, q) => Front(q) # p
  /\ \A q \in Path : Has(obj', q) <=> q # p /\ Has(obj, q)

LEMMA KeptFinite ==
  ASSUME NEW o, CarefulTree(o)
  PROVE  IsFiniteSet(Kept(o)) /\ Cardinality(Kept(o)) \in Nat
<1>1. Tree(o, {}) /\ NothingLost(o)
  BY DEF CarefulTree
<1>2. Kept(o) \subseteq DOMAIN o /\ IsFiniteSet(DOMAIN o)
  BY <1>1, ListedIs DEF Kept, Tree
<1>3. QED
  BY <1>2, FS_Subset, FS_CardinalityType

LEMMA FewRecords ==
  ASSUME NEW p \in Path
  PROVE  /\ Cardinality({DirRec(p), LinkRec(p)}) = 2
         /\ Cardinality({DirRec(p), LinkRec(p)} \cup {RrMovedRec}) = 3
<1> DEFINE a == DirRec(p)
           b == LinkRec(p)
           c == RrMovedRec
           S == {a, b}
<1>1. a # b /\ a # c /\ b # c
  BY RecFacts
<1> HIDE DEF a, b, c
<1>2. IsFiniteSet({a}) /\ Cardinality({a}) = 1
  BY FS_Singleton
<1>3. b \notin {a}
  BY <1>1
<1>4. IsFiniteSet({a} \cup {b}) /\ Cardinality({a} \cup {b}) = 1 + 1
  BY <1>2, <1>3, FS_AddElement
<1>5. {a} \cup {b} = S
  OBVIOUS
<1>6. IsFiniteSet(S) /\ Cardinality(S) = 2 /\ c \notin S
  BY <1>1, <1>4, <1>5
<1> HIDE DEF S
<1>7. Cardinality(S \cup {c}) = 3
  BY <1>6, FS_AddElement
<1>8. QED
  BY <1>6, <1>7 DEF S, a, b, c

LEMMA KeptMore ==
  ASSUME NEW S, IsFiniteSet(S), NEW x, x \notin S
  PROVE  Cardinality(S \cup {x}) = Cardinality(S) + 1 /\ IsFiniteSet(S \cup {x})
BY FS_AddElement

LEMMA AddDirectoryCareful ==
  ASSUME CarefulInv, NEW p \in Path, AddDirectory(p)
  PROVE  CarefulInv' /\ Makes(p)
<1> DEFINE d == Find(obj, Front(p))
           c == DirRec(p)
           n == Cardinality(Kept(obj))
<1>1. TreeInv /\ CarefulTree(obj) /\ Counts
  BY DEF CarefulInv
<1>2. /\ ~Relocates(p) /\ d # None
      /\ pvds' = GrowAll(pvds) /\ space' = space + 1 + Charge(pvds, pvds')
      /\ raised' = "none"
  BY DEF AddDirectory, Addable, Relocates
<1>3. TreeInv' /\ AddedPlain(obj, obj', d, p)
  BY <1>1, AddDirectoryIs
<1>4. /\ d = DirRec(Front(p)) /\ DirRec(Front(p)) \in Listed(obj) \cup {Root}
      /\ Front(p) = <<>> \/ Has(obj, Front(p))
  <2>1. d # None => d = DirRec(Front(p)) /\ d \in Listed(obj) \cup {Root}
    BY <1>1, FindFront
  <2>2. d = None <=> Front(p) # <<>> /\ DirRec(Front(p)) \notin Listed(obj)
    BY <1>1, FindFront
  <2> HIDE DEF d
  <2>3. QED
    BY <1>2, <2>1, <2>2 DEF Has
<1>5. Tree(obj', {})
  BY <1>3 DEF TreeInv
<1> HIDE DEF d
<1>6. /\ CarefulTree(obj') /\ Listed(obj') = Listed(obj) \cup {c}
      /\ Kept(obj') = Kept(obj) \cup {c} /\ c \notin Kept(obj)
  BY <1>1, <1>2, <1>3, <1>4, <1>5, PlainCareful
<1>7. IsFiniteSet(Kept(obj)) /\ n \in Nat
  BY <1>1, KeptFinite
<1>8. Cardinality(Kept(obj')) = n + 1
  BY <1>6, <1>7, KeptMore
<1> HIDE DEF n
<1>9. Counts'
  <2>1. CountsAre(n, pvds, space)
    BY <1>1 DEF Counts, n
  <2>2. CountsAre(n + 1, GrowAll(pvds), space + 1 + Charge(pvds, GrowAll(pvds)))
    BY <1>7, <2>1, CountsGrow
  <2>3. QED
    BY <1>2, <1>8, <2>2 DEF Counts
<1>10. Makes(p)
  <2>1. c \notin Listed(obj)
    <3>1. c \notin DOMAIN obj
      BY <1>3 DEF AddedPlain
    <3>2. QED
      BY <1>1, <3>1, ListedIs DEF CarefulTree
  <2>2. \A q \in Path : DirRec(q) = c <=> q = p
    BY RecFacts
  <2>3. QED
    BY <1>4, <1>6, <2>1, <2>2 DEF Makes, Has
<1>11. CarefulInv'
  BY <1>2, <1>3, <1>6, <1>9 DEF CarefulInv
<1>12. QED
  BY <1>10, <1>11

LEMMA AddRelocatedCareful ==
  ASSUME Careful, CarefulInv, NEW p \in Path, AddRelocated(p)
  PROVE  CarefulInv' /\ Makes(p)
<1> DEFINE d == Find(obj, Front(p))
           c == DirRec(p)
           m == RrMovedRec
           n == Cardinality(Kept(obj))
           fresh == rrMoved = None
           new == {DirRec(p), LinkRec(p)} \cup (IF rrMoved = None THEN {RrMovedRec} ELSE {})
<1>1. TreeInv /\ CarefulTree(obj) /\ Counts
  BY DEF CarefulInv
<1>2. /\ Relocates(p) /\ d # None
      /\ rrMoved = None \/ IsRrMoved(rrMoved)
      /\ pvds' = IF rrMoved = None THEN GrowAll(GrowAll(pvds)) ELSE GrowAll(pvds)
      /\ space' = space + Cardinality(new) - 1 + Charge(pvds, pvds')
      /\ raised' = "none"
  BY DEF AddRelocated, Addable, Relocates, Careful
<1>3. TreeInv' /\ AddedRelocated(obj, obj', fresh, Holder, d, p)
  BY <1>1, AddRelocatedIs
<1>4. /\ d = DirRec(Front(p)) /\ DirRec(Front(p)) \in Listed(obj) \cup {Root}
      /\ Front(p) = <<>> \/ Has(obj, Front(p))
  <2>1. d # None => d = DirRec(Front(p)) /\ d \in Listed(obj) \cup {Root}
    BY <1>1, FindFront
  <2>2. d = None <=> Front(p) # <<>> /\ DirRec(Front(p)) \notin Listed(obj)
    BY <1>1, FindFront
  <2> HIDE DEF d
  <2>3. QED
    BY <1>2, <2>1, <2>2 DEF Has
<1> HIDE DEF d
<1>5. Tree(obj', {})
  BY <1>3 DEF TreeInv
<1>6. Holder = m /\ (~fresh => m \in Listed(obj))
  <2>1. CASE rrMoved = None
    BY <2>1 DEF Holder
  <2>2. CASE rrMoved # None
    <3>1. rrMoved \in obj[Root].kids /\ obj[rrMoved].ident = <<RrMoved, 0>>
      BY <1>2, <2>2 DEF IsRrMoved
    <3>2. Tree(obj, {}) /\ rrMoved \in DOMAIN obj /\ Root \in DOMAIN obj
      BY <1>1, <2>2 DEF TreeInv, Tree
    <3>3. rrMoved = RrMovedRec
      BY <3>1, <3>2, TreeFacts
    <3>4. rrMoved \in Listed(obj)
      BY <3>1, <3>2 DEF Listed
    <3>5. QED
      BY <2>2, <3>3, <3>4 DEF Holder
  <2>3. QED
    BY <2>1, <2>2
<1>7. /\ CarefulTree(obj')
      /\ Listed(obj') = Listed(obj) \cup {DirRec(p), LinkRec(p), RrMovedRec}
      /\ Kept(obj') = Kept(obj) \cup {DirRec(p), RrMovedRec}
      /\ DirRec(p) \notin Kept(obj) /\ (fresh <=> RrMovedRec \notin Kept(obj))
  <2> DEFINE f == fresh
  <2>1. f \in BOOLEAN
    OBVIOUS
  <2>2. AddedRelocated(obj, obj', f, RrMovedRec, DirRec(Front(p)), p)
    BY <1>3, <1>4, <1>6
  <2>3. ~f => RrMovedRec \in Listed(obj)
    BY <1>6
  <2> HIDE DEF f
  <2>4. /\ CarefulTree(obj')
        /\ Listed(obj') = Listed(obj) \cup {DirRec(p), LinkRec(p), RrMovedRec}
        /\ Kept(obj') = Kept(obj) \cup {DirRec(p), RrMovedRec}
        /\ DirRec(p) \notin Kept(obj) /\ (f <=> RrMovedRec \notin Kept(obj))
    BY <1>1, <1>2, <1>4, <1>5, <2>1, <2>2, <2>3, RelocatedCareful
  <2>5. QED
    BY <2>4 DEF f
<1>8. IsFiniteSet(Kept(obj)) /\ n \in Nat
  BY <1>1, KeptFinite
<1>9. Counts'
  <2>1. CountsAre(n, pvds, space)
    BY <1>1 DEF Counts
  <2>2. DirRec(p) # RrMovedRec
    BY RecFacts
  <2>3. /\ Cardinality({DirRec(p), LinkRec(p)}) = 2
        /\ Cardinality({DirRec(p), LinkRec(p)} \cup {RrMovedRec}) = 3
    BY FewRecords
  <2>4. CASE rrMoved = None
    <3>1. new = {DirRec(p), LinkRec(p)} \cup {RrMovedRec}
      BY <2>4
    <3> HIDE DEF n, new
    <3>2. pvds' = GrowAll(GrowAll(pvds)) /\ space' = space + 3 - 1 + Charge(pvds, pvds')
      BY <1>2, <2>3, <2>4, <3>1
    <3> DEFINE S == Kept(obj)
    <3>3. IsFiniteSet(S) /\ DirRec(p) \notin S /\ RrMovedRec \notin S
      BY <1>7, <1>8, <2>4
    <3> HIDE DEF S
    <3>4. Cardinality(S \cup {DirRec(p)}) = Cardinality(S) + 1 /\ IsFiniteSet(S \cup {DirRec(p)})
      BY <3>3, KeptMore
    <3> DEFINE S1 == S \cup {DirRec(p)}
    <3>5. RrMovedRec \notin S1 /\ IsFiniteSet(S1) /\ Cardinality(S1) = Cardinality(S) + 1
      BY <2>2, <3>3, <3>4
    <3>6. Kept(obj') = S1 \cup {RrMovedRec}
      BY <1>7 DEF S
    <3> HIDE DEF S1
    <3>7. Cardinality(S1 \cup {RrMovedRec}) = Cardinality(S1) + 1
      BY <3>5, KeptMore
    <3>8. Cardinality(S) = n
      BY DEF S, n
    <3>9. Cardinality(Kept(obj')) = n + 2
      BY <1>8, <3>5, <3>6, <3>7, <3>8
    <3>10. CountsAre(n + 2, GrowAll(GrowAll(pvds)),
                     space + 2 + Charge(pvds, GrowAll(GrowAll(pvds))))
      BY <1>8, <2>1, CountsTwice DEF n
    <3>11. space' = space + 2 + Charge(pvds, GrowAll(GrowAll(pvds)))
      <4>1. space \in Int
        BY <1>8, <2>1, TablesGrow DEF CountsAre, n
      <4>2. QED
        BY <3>2, <4>1
    <3>12. QED
      BY <3>2, <3>9, <3>10, <3>11 DEF Counts
  <2>5. CASE rrMoved # None
    <3>1. new = {DirRec(p), LinkRec(p)}
      BY <2>5
    <3> HIDE DEF new
    <3>2. pvds' = GrowAll(pvds) /\ space' = space + 2 - 1 + Charge(pvds, pvds')
      BY <1>2, <2>3, <2>5, <3>1
    <3>3. Kept(obj') = Kept(obj) \cup {DirRec(p)} /\ DirRec(p) \notin Kept(obj)
      BY <1>7, <2>5
    <3>4. Cardinality(Kept(obj')) = n + 1
      BY <1>8, <3>3, KeptMore
    <3>5. CountsAre(n + 1, GrowAll(pvds), space + 1 + Charge(pvds, GrowAll(pvds)))
      BY <1>8, <2>1, CountsGrow
    <3>6. space' = space + 1 + Charge(pvds, GrowAll(pvds))
      <4>1. space \in Int
        BY <1>8, <2>1, TablesGrow DEF CountsAre
      <4>2. QED
        BY <3>2, <4>1
    <3>7. QED
      BY <3>2, <3>4, <3>5, <3>6 DEF Counts
  <2>6. QED
    BY <2>4, <2>5
<1>10. Makes(p)
  <2>1. c \notin Listed(obj)
    <3>1. c \notin DOMAIN obj
      BY <1>3 DEF AddedRelocated
    <3>2. QED
      BY <1>1, <3>1, ListedIs DEF CarefulTree
  <2>2. \A q \in Path : (DirRec(q) = c <=> q = p) /\ DirRec(q) # LinkRec(p) /\ DirRec(q) # RrMovedRec
    BY RecFacts
  <2>3. QED
    BY <1>4, <1>7, <2>1, <2>2 DEF Makes, Has
<1>11. CarefulInv'
  BY <1>2, <1>3, <1>7, <1>9 DEF CarefulInv
<1>12. QED
  BY <1>10, <1>11

\* The record that a removal finds.
LEMMA RemovesFound ==
  ASSUME CarefulTree(obj), NEW p \in Path, Removed(obj, Find(obj, p))
  PROVE  /\ Find(obj, p) = DirRec(p) /\ Has(obj, p)
         /\ \A q \in Path : Has(obj, q) => Front(q) # p
<1> DEFINE r == Find(obj, p)
<1>1. Tree(obj, {}) /\ NothingLost(obj)
  BY DEF CarefulTree
<1>2. r \in DOMAIN obj /\ obj[r].kids = {}
  BY DEF Removed
<1>3. r # None
  BY <1>1, <1>2, RecFacts DEF Tree
<1>4. r = LeadsTo(obj, p) /\ p # <<>>
  BY FindCareful, PathFacts
<1> HIDE DEF r
<1>5. r = DirRec(p) /\ DirRec(p) \in Listed(obj)
  BY <1>3, <1>4 DEF LeadsTo
<1>6. ASSUME NEW q \in Path, Has(obj, q), Front(q) = p PROVE FALSE
  <2>1. Here(q) \in Named(obj, DirRec(p), <<Last(q), 0>>)
    BY <1>6, HereListed DEF Has
  <2>2. Here(q) \in obj[DirRec(p)].kids
    BY <2>1 DEF Named
  <2>3. QED
    BY <1>2, <1>5, <2>2
<1>7. QED
  BY <1>5, <1>6 DEF Has, r

\* One directory less, and a block less.
LEMMA KeptLess ==
  ASSUME NEW S, IsFiniteSet(S), NEW x \in S
  PROVE  IsFiniteSet(S \ {x}) /\ Cardinality(S \ {x}) \in Nat
         /\ Cardinality(S) = Cardinality(S \ {x}) + 1
<1> DEFINE T == S \ {x}
<1>1. IsFiniteSet(T)
  BY FS_Subset
<1>2. Cardinality(T) \in Nat
  BY <1>1, FS_CardinalityType
<1>3. x \notin T /\ T \cup {x} = S
  OBVIOUS
<1> HIDE DEF T
<1>4. Cardinality(T \cup {x}) = Cardinality(T) + 1
  BY <1>1, <1>3, FS_AddElement
<1>5. QED
  BY <1>1, <1>2, <1>3, <1>4 DEF T

LEMMA CollectedDomain ==
  ASSUME NEW o, NEW m, NEW n, Collected(o, m, n)
  PROVE  m \in DOMAIN o \cup {None}
BY DEF Collected

LEMMA RmDirectoryCareful ==
  ASSUME CarefulInv, NEW p \in Path, RmDirectory(p)
  PROVE  CarefulInv' /\ Removes(p)
<1> DEFINE f == Find(obj, p)
           r == DirRec(p)
           w == Unlisted(r)
           n == Cardinality(Kept(w))
<1>1. TreeInv /\ CarefulTree(obj) /\ Counts
  BY DEF CarefulInv
<1>2. /\ TreeInv' /\ Removed(obj, f) /\ Collected(Unlisted(f), rrMoved, obj')
      /\ KidsLost(obj, Unlisted(f), obj[f].parent, {f}) /\ Tree(Unlisted(f), {})
  BY <1>1, RmDirectoryIs
<1>3. f = r /\ Has(obj, p) /\ \A q \in Path : Has(obj, q) => Front(q) # p
  BY <1>1, <1>2, RemovesFound
<1>4. /\ obj[f].link = None
      /\ pvds' = ShrinkAll(pvds) /\ space' = space - 1 + Charge(pvds, pvds')
      /\ raised' = "none"
  BY DEF RmDirectory, IsRelocated
<1> HIDE DEF f, w
<1>5. /\ Removed(obj, r) /\ Collected(w, rrMoved, obj') /\ obj[r].link = None
      /\ KidsLost(obj, w, obj[r].parent, {r}) /\ Tree(w, {})
  BY <1>2, <1>3, <1>4 DEF w
<1>6. /\ CarefulTree(w) /\ Listed(w) = Listed(obj) \ {r}
      /\ Kept(w) = Kept(obj) \ {r} /\ r \in Kept(obj)
  BY <1>1, <1>5, RemovedCareful
<1>7. rrMoved \in DOMAIN w \cup {None}
  BY <1>5, CollectedDomain
<1>8. CarefulTree(obj') /\ Listed(obj') = Listed(w) /\ Kept(obj') = Kept(w)
  BY <1>5, <1>6, <1>7, CollectedCareful
<1>9. n \in Nat /\ Cardinality(Kept(obj)) = n + 1
  <2>1. IsFiniteSet(Kept(obj))
    BY <1>1, KeptFinite
  <2>2. QED
    BY <1>6, <2>1, KeptLess
<1> HIDE DEF n
<1>10. Counts'
  <2>1. CountsAre(n + 1, pvds, space)
    BY <1>1, <1>9 DEF Counts
  <2>2. CountsAre(n, ShrinkAll(pvds), space - 1 + Charge(pvds, ShrinkAll(pvds)))
    BY <1>9, <2>1, CountsShrink
  <2>3. QED
    BY <1>4, <1>8, <2>2 DEF Counts, n
<1>11. Removes(p)
  <2>1. \A q \in Path : DirRec(q) = r <=> q = p
    BY RecFacts
  <2>2. QED
    BY <1>3, <1>6, <1>8, <2>1 DEF Removes, Has
<1>12. CarefulInv'
  BY <1>2, <1>4, <1>8, <1>10 DEF CarefulInv
<1>13. QED
  BY <1>11, <1>12

\* RR_MOVED is found where it is listed.
LEMMA HomeIs ==
  ASSUME CarefulTree(obj), NEW p \in Path, RelocatedAs(obj, DirRec(p), p)
  PROVE  LET o == Unlisted(DirRec(p))
             m == obj[DirRec(p)].parent
         IN  /\ m = RrMovedRec /\ obj[DirRec(p)].link = LinkRec(p)
             /\ Emptied(o, m) <=> obj[RrMovedRec].kids = {DirRec(p)}
             /\ Named(o, o[m].parent, o[m].ident) = {RrMovedRec}
<1> DEFINE r == DirRec(p)
           o == Unlisted(r)
           m == obj[r].parent
<1>1. Tree(obj, {}) /\ InPlace(obj) /\ NothingLost(obj)
  BY DEF CarefulTree
<1>2. /\ Removed(obj, r) /\ Relocates(p) /\ obj[r].link = LinkRec(p)
      /\ r \in DOMAIN obj /\ m \in DOMAIN obj /\ r \in obj[m].kids
  BY DEF RelocatedAs, Removed
<1>3. m = RrMovedRec
  BY <1>1, <1>2 DEF InPlace
<1>4. KidsLost(obj, o, m, {r}) /\ Tree(o, {})
  BY <1>1, <1>2, UnlistedIs
<1> HIDE DEF r, o, m
<1>5. /\ o[m].kids = obj[m].kids \ {r} /\ Same(obj, o) /\ DOMAIN o = DOMAIN obj
      /\ \A x \in DOMAIN obj \ {m} : o[x] = obj[x]
  BY <1>4 DEF KidsLost, Fewer
<1>6. Emptied(o, m) <=> obj[RrMovedRec].kids = {r}
  <2>1. obj[m].kids \ {r} = {} <=> obj[m].kids = {r}
    BY <1>2
  <2>2. QED
    BY <1>3, <1>5, <2>1 DEF Emptied
<1>7. /\ obj[m].parent = Root /\ obj[m].ident = <<RrMoved, 0>> /\ m # Root
      /\ o[m].parent = Root /\ o[m].ident = <<RrMoved, 0>>
  BY <1>1, <1>2, <1>3, <1>5, RrMovedIs, RecFacts DEF Same
<1>8. m \in obj[Root].kids
  <2>1. m \in Listed(obj)
    BY <1>1, <1>2, <1>7 DEF NothingLost
  <2>2. QED
    BY <1>1, <1>7, <2>1, ListedIs
<1>9. o[Root].kids = obj[Root].kids /\ Root \in DOMAIN obj
  BY <1>1, <1>5, <1>7 DEF Tree
<1>10. \A x \in o[Root].kids : x \in DOMAIN o
  BY <1>4, <1>5, <1>9 DEF Tree, RefersIn
<1>11. \A x \in DOMAIN o : o[x].ident = <<RrMoved, 0>> => x = RrMovedRec
  BY <1>4, TreeFacts
<1>12. Named(o, Root, <<RrMoved, 0>>) = {RrMovedRec}
  <2>1. RrMovedRec \in o[Root].kids /\ o[RrMovedRec].ident = <<RrMoved, 0>>
    BY <1>3, <1>7, <1>8, <1>9
  <2>2. QED
    BY <1>10, <1>11, <2>1 DEF Named
<1>13. QED
  BY <1>2, <1>3, <1>6, <1>7, <1>12 DEF r, o, m

LEMMA RmRelocatedCareful ==
  ASSUME CarefulInv, NEW p \in Path, RmRelocated(p)
  PROVE  CarefulInv' /\ Removes(p)
<1> DEFINE f == Find(obj, p)
           r == DirRec(p)
           o == Unlisted(r)
           m == obj[r].parent
           e == Emptied(o, m)
           h == Named(o, o[m].parent, o[m].ident)
           n == Cardinality(Kept(obj'))
           gone == {r} \cup (IF e THEN {RrMovedRec} ELSE {})
<1>1. TreeInv /\ CarefulTree(obj) /\ Counts
  BY DEF CarefulInv
<1>2. TreeInv' /\ \E q \in Path : RelocatedAs(obj, f, q)
  BY <1>1, RmRelocatedIs
<1>3. PICK q \in Path : RelocatedAs(obj, f, q)
  BY <1>2
<1>4. Removed(obj, f) /\ f = DirRec(q)
  BY <1>3 DEF RelocatedAs
<1>5. f = r /\ Has(obj, p) /\ \A x \in Path : Has(obj, x) => Front(x) # p
  BY <1>1, <1>4, RemovesFound
<1>6. RelocatedAs(obj, r, p)
  <2>1. q = p
    BY <1>4, <1>5, RecFacts
  <2>2. QED
    BY <1>3, <1>5, <2>1
<1>7. /\ m = RrMovedRec /\ obj[r].link = LinkRec(p)
      /\ e <=> obj[RrMovedRec].kids = {r}
      /\ h = {RrMovedRec}
  BY <1>1, <1>6, HomeIs
<1>8. \E w : LostThree(obj, w, r, LinkRec(p), RrMovedRec, e, {RrMovedRec})
             /\ Collected(w, rrMoved, obj')
  <2>1. \E w : LostThree(obj, w, f, obj[f].link, obj[f].parent,
                         Emptied(Unlisted(f), obj[f].parent),
                         Named(Unlisted(f), Unlisted(f)[obj[f].parent].parent,
                               Unlisted(f)[obj[f].parent].ident))
                /\ Collected(w, rrMoved, obj')
    BY <1>1, RmRelocatedIs
  <2> HIDE DEF f, r
  <2>2. \E w : LostThree(obj, w, r, obj[r].link, m, e, h) /\ Collected(w, rrMoved, obj')
    BY <1>5, <2>1
  <2> HIDE DEF e, h, m
  <2>3. QED
    BY <1>7, <2>2
<1>9. PICK w : LostThree(obj, w, r, LinkRec(p), RrMovedRec, e, {RrMovedRec})
               /\ Collected(w, rrMoved, obj')
  <2> HIDE DEF e, r
  <2>1. QED
    BY <1>8
<1>10. e \in BOOLEAN
  BY DEF Emptied
<1>11. /\ pvds' = IF e THEN ShrinkAll(ShrinkAll(pvds)) ELSE ShrinkAll(pvds)
       /\ space' = space - (IF e THEN 2 ELSE 1) + Charge(pvds, pvds')
       /\ raised' = "none"
  <2> HIDE DEF f, r
  <2>1. /\ pvds' = IF Emptied(Unlisted(f), obj[f].parent)
                   THEN ShrinkAll(ShrinkAll(pvds)) ELSE ShrinkAll(pvds)
        /\ space' = space - (IF Emptied(Unlisted(f), obj[f].parent) THEN 2 ELSE 1)
                      + Charge(pvds, pvds')
        /\ raised' = "none"
    BY DEF RmRelocated, f
  <2>2. QED
    BY <1>5, <2>1
<1> HIDE DEF f, o, m, e, h
<1>12. /\ CarefulTree(w) /\ Listed(w) = Listed(obj) \ (gone \cup {LinkRec(p)})
       /\ Kept(w) = Kept(obj) \ gone /\ gone \subseteq Kept(obj)
  BY <1>1, <1>6, <1>7, <1>9, <1>10, RemovedRelocatedCareful
<1>13. rrMoved \in DOMAIN w \cup {None}
  BY <1>9, CollectedDomain
<1>14. CarefulTree(obj') /\ Listed(obj') = Listed(w) /\ Kept(obj') = Kept(w)
  BY <1>9, <1>12, <1>13, CollectedCareful
<1>15. IsFiniteSet(Kept(obj))
  BY <1>1, KeptFinite
<1>16. Counts'
  <2> DEFINE S == Kept(obj)
  <2>1. CountsAre(Cardinality(S), pvds, space)
    BY <1>1 DEF Counts
  <2>2. CASE e
    <3> DEFINE T == S \ {r}
    <3>1. r \in S /\ RrMovedRec \in S /\ r # RrMovedRec /\ IsFiniteSet(S)
      BY <1>12, <1>15, <2>2, RecFacts
    <3>2. Kept(obj') = T \ {RrMovedRec}
      BY <1>12, <1>14, <2>2
    <3> HIDE DEF S
    <3>3. IsFiniteSet(T) /\ Cardinality(T) \in Nat /\ Cardinality(S) = Cardinality(T) + 1
      BY <3>1, KeptLess
    <3>4. RrMovedRec \in T
      BY <3>1
    <3> HIDE DEF T
    <3>5. n \in Nat /\ Cardinality(T) = n + 1
      BY <3>2, <3>3, <3>4, KeptLess
    <3> HIDE DEF n
    <3>6. Cardinality(S) = n + 2
      BY <3>3, <3>5
    <3>7. CountsAre(n, ShrinkAll(ShrinkAll(pvds)),
                    space - 2 + Charge(pvds, ShrinkAll(ShrinkAll(pvds))))
      BY <2>1, <3>5, <3>6, CountsTwice
    <3>8. QED
      BY <1>11, <2>2, <3>7 DEF Counts, n
  <2>3. CASE ~e
    <3>1. Kept(obj') = S \ {r} /\ r \in S
      BY <1>12, <1>14, <2>3
    <3> HIDE DEF S
    <3>2. n \in Nat /\ Cardinality(S) = n + 1
      BY <1>15, <3>1, KeptLess DEF S
    <3> HIDE DEF n
    <3>3. CountsAre(n, ShrinkAll(pvds), space - 1 + Charge(pvds, ShrinkAll(pvds)))
      BY <2>1, <3>2, CountsShrink
    <3>4. QED
      BY <1>11, <2>3, <3>3 DEF Counts, n
  <2>4. QED
    BY <2>2, <2>3
<1>17. Removes(p)
  <2>1. \A x \in Path : DirRec(x) \in gone \cup {LinkRec(p)} <=> x = p
    BY RecFacts
  <2> HIDE DEF gone
  <2>2. QED
    BY <1>5, <1>12, <1>14, <2>1 DEF Removes, Has
<1>18. CarefulInv'
  BY <1>2, <1>11, <1>14, <1>16 DEF CarefulInv
<1>19. QED
  BY <1>17, <1>18

\* The exceptions are out of reach.
LEMMA NeverRaises ==
  ASSUME CarefulInv, NEW p \in Path
  PROVE  ~RmDirectoryRaises(p) /\ ~RmRelocatedRaises(p)
<1>1. TreeInv /\ CarefulTree(obj) /\ Counts
  BY DEF CarefulInv
<1>2. ~RmDirectoryRaises(p)
  <2> DEFINE S == Kept(obj)
             n == Cardinality(S \ {Root})
  <2>1. Root \in S /\ IsFiniteSet(S)
    BY <1>1, KeptFinite DEF Kept
  <2>2. n \in Nat /\ Cardinality(S) = n + 1
    <3> HIDE DEF S
    <3>1. QED
      BY <2>1, KeptLess
  <2>3. pvds = <<Tables(Cardinality(S))>>
    BY <1>1 DEF Counts, CountsAre
  <2> HIDE DEF n, S
  <2>4. pvds = <<Tables(n + 1)>> /\ ~Stuck(Tables(n + 1))
    BY <2>2, <2>3, OneDescriptor
  <2> DEFINE v == Tables(n + 1)
  <2> HIDE DEF v
  <2>5. pvds = <<v>> /\ ~Stuck(v)
    BY <2>4 DEF v
  <2>6. \A i \in DOMAIN pvds : ~Stuck(pvds[i])
    BY <2>5
  <2>7. QED
    BY <2>6 DEF RmDirectoryRaises
<1>3. ASSUME RmRelocatedRaises(p) PROVE FALSE
  <2> DEFINE f == Find(obj, p)
             r == DirRec(p)
  <2>1. /\ Removable(p) /\ IsRelocated(obj, f)
        /\ Named(Unlisted(f), Unlisted(f)[obj[f].parent].parent,
                 Unlisted(f)[obj[f].parent].ident) = {}
    BY <1>3 DEF RmRelocatedRaises
  <2>2. PICK q \in Path : RelocatedAs(obj, f, q)
    BY <1>1, <2>1, RelocatedAsIs
  <2>3. Removed(obj, f) /\ f = DirRec(q)
    BY <2>2 DEF RelocatedAs
  <2>4. f = r
    BY <1>1, <2>3, RemovesFound
  <2>5. RelocatedAs(obj, r, p)
    <3>1. q = p
      BY <2>3, <2>4, RecFacts
    <3>2. QED
      BY <2>2, <2>4, <3>1
  <2>6. Named(Unlisted(r), Unlisted(r)[obj[r].parent].parent,
              Unlisted(r)[obj[r].parent].ident) = {RrMovedRec}
    BY <1>1, <2>5, HomeIs
  <2> HIDE DEF f, r
  <2>7. QED
    BY <2>1, <2>4, <2>6
<1>4. QED
  BY <1>2, <1>3

LEMMA ReopenCareful ==
  ASSUME CarefulInv, Reopen
  PROVE  CarefulInv' /\ Listed(obj') = Listed(obj)
<1>1. TreeInv /\ CarefulTree(obj) /\ Counts
  BY DEF CarefulInv
<1>2. TreeInv' /\ Collected(obj, rrMoved', obj')
  BY <1>1, ReopenIs
<1>3. rrMoved' \in DOMAIN obj \cup {None}
  BY <1>2, CollectedDomain
<1>4. CarefulTree(obj') /\ Listed(obj') = Listed(obj) /\ Kept(obj') = Kept(obj)
  BY <1>1, <1>2, <1>3, CollectedCareful
<1>5. pvds' = pvds /\ space' = space /\ raised' = "none"
  <2>1. /\ pvds' = [i \in DOMAIN pvds |-> pvds[1]] /\ space' = space /\ raised' = "none"
    BY DEF Reopen
  <2> DEFINE v == Tables(Cardinality(Kept(obj)))
  <2>2. pvds = <<v>>
    BY <1>1 DEF Counts, CountsAre
  <2> HIDE DEF v
  <2>3. DOMAIN pvds = {1} /\ pvds[1] = v
    BY <2>2
  <2>4. pvds' = [i \in {1} |-> v]
    BY <2>1, <2>3
  <2>5. [i \in {1} |-> v] = <<v>>
    OBVIOUS
  <2>6. QED
    BY <2>1, <2>2, <2>4, <2>5
<1>6. Counts'
  BY <1>1, <1>4, <1>5 DEF Counts
<1>7. QED
  BY <1>2, <1>4, <1>5, <1>6 DEF CarefulInv

LEMMA InitCareful == Init => CarefulInv
<1> SUFFICES ASSUME Init PROVE CarefulInv
  OBVIOUS
<1>1. TreeInv
  BY InitTree
<1>2. DOMAIN obj = {Root} /\ obj[Root] = Directory(None, None)
  BY DEF Init
<1>3. obj[Root].kids = {}
  BY <1>2, DirectoryIs
<1>4. Listed(obj) = {}
  BY <1>2, <1>3 DEF Listed
<1>5. Kept(obj) = {Root}
  BY <1>4 DEF Kept
<1>6. InPlace(obj) /\ LinksListed(obj) /\ NothingLost(obj)
  BY <1>2, <1>4, RecFacts DEF InPlace, LinksListed, NothingLost
<1>7. Counts
  <2>1. Cardinality(Kept(obj)) = 1
    BY <1>5, FS_Singleton
  <2>2. TablesFor(1) = 1
    BY TablesGrow
  <2>3. pvds = <<[size |-> 1, tables |-> 1]>> /\ space = 5
    BY DEF Init
  <2>4. CountsAre(1, pvds, space)
    BY <2>2, <2>3 DEF CountsAre, Tables
  <2>5. QED
    BY <2>1, <2>4 DEF Counts
<1>8. QED
  BY <1>1, <1>6, <1>7 DEF CarefulInv, CarefulTree, TreeInv, Init

LEMMA NextCareful ==
  ASSUME Careful, CarefulInv, [Next]_vars
  PROVE  /\ CarefulInv'
         /\ (\E p \in Path : Makes(p) \/ Removes(p)) \/ Listed(obj') = Listed(obj)
<1>1. CASE \E p \in Path : AddDirectory(p)
  BY <1>1, AddDirectoryCareful
<1>2. CASE \E p \in Path : AddRelocated(p)
  BY <1>2, AddRelocatedCareful
<1>3. CASE \E p \in Path : RmDirectory(p)
  BY <1>3, RmDirectoryCareful
<1>4. CASE \E p \in Path : RmRelocated(p)
  BY <1>4, RmRelocatedCareful
<1>5. CASE \E p \in Path : RmDirectoryRaises(p) \/ RmRelocatedRaises(p)
  BY <1>5, NeverRaises
<1>6. CASE DuplicatePvd
  BY <1>6 DEF DuplicatePvd, Careful
<1>7. CASE Reopen
  BY <1>7, ReopenCareful
<1>8. CASE UNCHANGED vars
  <2>1. obj' = obj /\ rrMoved' = rrMoved /\ pvds' = pvds /\ space' = space /\ raised' = raised
    BY <1>8 DEF vars
  <2>2. TreeInv' /\ CarefulTree(obj') /\ Counts'
    BY <2>1 DEF CarefulInv, TreeInv, Counts
  <2>3. QED
    BY <2>1, <2>2 DEF CarefulInv
<1>9. QED
  BY <1>1, <1>2, <1>3, <1>4, <1>5, <1>6, <1>7, <1>8 DEF Next

\* For a client that meets none of the circumstances, the record of every path
\* is in its place, what was removed is empty, and the descriptor counts what is
\* there, between any two operations (pycdlib.py:4744-4830, 4925-4990,
\* headervd.py:624-680).
THEOREM CarefulAlways ==
  ASSUME Careful
  PROVE  Spec => []CarefulInv
<1>1. Init => CarefulInv
  BY InitCareful
<1>2. CarefulInv /\ [Next]_vars => CarefulInv'
  BY NextCareful
<1>3. QED
  BY <1>1, <1>2, PTL DEF Spec

\* What the invariant of a careful client says of each property.
LEMMA CarefulType == CarefulInv => TypeOK
<1> SUFFICES ASSUME CarefulInv PROVE TypeOK
  OBVIOUS
<1>1. TreeInv /\ CarefulTree(obj) /\ Counts /\ raised = "none" /\ Tree(obj, {})
  BY DEF CarefulInv, TreeInv
<1>2. /\ Root \in DOMAIN obj /\ DOMAIN obj \subseteq Rec
      /\ rrMoved \in DOMAIN obj \cup {None}
  BY <1>1 DEF TreeInv, Tree
<1>3. ASSUME NEW r \in DOMAIN obj
      PROVE  obj[r] \in [kids : SUBSET (DOMAIN obj \ {Root}), parent : DOMAIN obj \cup {None},
                         ident : Ident \cup {None}, target : DOMAIN obj \cup {None},
                         link : DOMAIN obj \cup {None}]
  <2>1. obj[r] \in Object
    BY <1>1, TreeFacts
  <2>2. /\ obj[r].kids \subseteq DOMAIN obj \ {Root}
        /\ {obj[r].parent, obj[r].target, obj[r].link} \subseteq DOMAIN obj \cup {} \cup {None}
    BY <1>1 DEF Tree, RefersIn
  <2>3. /\ obj[r].parent \in DOMAIN obj \cup {None} /\ obj[r].target \in DOMAIN obj \cup {None}
        /\ obj[r].link \in DOMAIN obj \cup {None}
    BY <2>2
  <2>4. QED
    BY <2>1, <2>2, <2>3 DEF Object
<1> DEFINE n == Cardinality(Kept(obj))
           v == Tables(n)
<1>4. pvds = <<v>> /\ space = n + 4 * TablesFor(n)
  BY <1>1 DEF Counts, CountsAre
<1>5. n \in Nat /\ TablesFor(n) \in Nat
  BY <1>1, KeptFinite, TablesGrow
<1> HIDE DEF n
<1>6. v \in [size : Nat, tables : Nat] /\ space \in Nat
  BY <1>4, <1>5 DEF Tables
<1> HIDE DEF v
<1>7. Len(pvds) = 1 /\ \A i \in DOMAIN pvds : pvds[i] \in [size : Nat, tables : Nat]
  BY <1>4, <1>6
<1>8. 1 \in 1..MaxPvds
  BY RelocatedDirsAssumption
<1>9. Len(pvds) \in 1..MaxPvds
  BY <1>7, <1>8
<1>10. QED
  BY <1>1, <1>2, <1>3, <1>6, <1>7, <1>9 DEF TypeOK

\* Everything has its type, and whatever an object refers to exists.
THEOREM TypeCorrect ==
  ASSUME Careful
  PROVE  Spec => []TypeOK
<1>1. QED
  BY CarefulAlways, CarefulType, PTL

LEMMA CarefulLinks == CarefulInv => LinksResolve
<1> SUFFICES ASSUME CarefulInv, NEW r \in InTree(obj)
             PROVE  /\ IsLink(obj, r) => obj[r].target \in InTree(obj)
                    /\ IsRelocated(obj, r) => obj[r].link \in InTree(obj)
  BY DEF LinksResolve
<1>1. CarefulTree(obj) /\ Tree(obj, {}) /\ LinksListed(obj) /\ NothingLost(obj)
  BY DEF CarefulInv, CarefulTree
<1>2. InTree(obj) = {Root} \cup Listed(obj)
  BY <1>1, InTreeCareful
<1>3. r \in DOMAIN obj
  BY <1>1, InTreeIs
<1>4. ASSUME IsLink(obj, r) PROVE obj[r].target \in InTree(obj)
  <2>1. PICK p \in Path : r = LinkRec(p) /\ Relocates(p) /\ LinkKind(p, obj[r])
    BY <1>1, <1>3, <1>4, TreeFacts DEF IsLink
  <2>2. r \in Listed(obj)
    BY <1>2, <2>1, RecFacts
  <2>3. DirRec(p) \in Listed(obj) /\ obj[r].target = DirRec(p)
    BY <1>1, <2>1, <2>2 DEF LinksListed, LinkKind
  <2>4. QED
    BY <1>2, <2>3
<1>5. ASSUME IsRelocated(obj, r) PROVE obj[r].link \in InTree(obj)
  <2>1. PICK p \in Path : r = DirRec(p) /\ Relocates(p) /\ MovedKind(p, obj[r])
    BY <1>1, <1>3, <1>5, TreeFacts DEF IsRelocated
  <2>2. r \in Listed(obj)
    BY <1>2, <2>1, RecFacts
  <2>3. LinkRec(p) \in Listed(obj) /\ obj[r].link = LinkRec(p)
    BY <1>1, <2>1, <2>2 DEF LinksListed, MovedKind
  <2>4. QED
    BY <1>2, <2>3
<1>6. QED
  BY <1>4, <1>5

\* A child link and its relocated directory are both in the image or neither
\* is, so that what is written opens again (pycdlib.py:1182-1186, 4967-4982).
THEOREM LinksAlwaysResolve ==
  ASSUME Careful
  PROVE  Spec => []LinksResolve
<1>1. QED
  BY CarefulAlways, CarefulLinks, PTL

LEMMA CarefulBelow == CarefulInv => BelowRrMoved
<1> SUFFICES ASSUME CarefulInv PROVE BelowRrMoved
  OBVIOUS
<1>1. CarefulTree(obj) /\ Tree(obj, {}) /\ InPlace(obj) /\ NothingLost(obj)
  BY DEF CarefulInv, CarefulTree
<1>2. InTree(obj) = {Root} \cup Listed(obj) /\ InTree(obj) \subseteq DOMAIN obj /\ Root \in DOMAIN obj
  BY <1>1, InTreeCareful, InTreeIs DEF Tree
<1>3. ASSUME NEW r \in InTree(obj), IsRelocated(obj, r)
      PROVE  \E m \in obj[Root].kids : obj[m].ident = <<RrMoved, 0>> /\ r \in obj[m].kids
  <2>1. PICK p \in Path : r = DirRec(p) /\ Relocates(p)
    BY <1>1, <1>2, <1>3, TreeFacts DEF IsRelocated
  <2>2. r \in Listed(obj)
    BY <1>2, <2>1, RecFacts
  <2>3. r \in DOMAIN obj /\ obj[r].parent \in DOMAIN obj /\ r \in obj[obj[r].parent].kids
    BY <1>1, <2>2, ListedIs
  <2>4. obj[r].parent = RrMovedRec
    BY <1>1, <2>1, <2>3 DEF InPlace
  <2>5. RrMovedRec \in Listed(obj)
    BY <1>1, <2>3, <2>4, RecFacts DEF NothingLost
  <2>6. obj[RrMovedRec].parent = Root /\ obj[RrMovedRec].ident = <<RrMoved, 0>>
    BY <1>1, <2>3, <2>4, RrMovedIs
  <2>7. RrMovedRec \in obj[Root].kids
    BY <1>1, <2>5, <2>6, ListedIs
  <2>8. QED
    BY <2>3, <2>4, <2>6, <2>7
<1>4. ASSUME NEW m \in obj[Root].kids, obj[m].ident = <<RrMoved, 0>>
      PROVE  m = RrMovedRec /\ m \in Listed(obj) /\ m \in DOMAIN obj
  <2>1. m \in DOMAIN obj /\ m \in Listed(obj)
    BY <1>1, <1>2 DEF Tree, RefersIn, Listed
  <2>2. QED
    BY <1>1, <1>4, <2>1, TreeFacts
<1>5. ASSUME NEW r \in InTree(obj), NEW m \in obj[Root].kids,
             obj[m].ident = <<RrMoved, 0>>, r \in obj[m].kids
      PROVE  IsRelocated(obj, r)
  <2>1. m = RrMovedRec /\ m \in DOMAIN obj
    BY <1>4, <1>5
  <2>2. obj[r].parent = RrMovedRec /\ r \in DOMAIN obj /\ r # Root
    BY <1>1, <1>5, <2>1 DEF Tree, AtHome, RefersIn
  <2>3. r # RrMovedRec
    BY <1>1, <2>2, RrMovedIs, RecFacts
  <2>4. \A p \in Path : r # LinkRec(p)
    BY <1>1, <2>2, SameRecord DEF InPlace
  <2>5. r \in Rec /\ Kind(r, obj[r])
    BY <1>1, <2>2 DEF Tree
  <2>6. PICK p \in Path : r = DirRec(p)
    BY <2>2, <2>3, <2>4, <2>5, RecFacts
  <2>7. Relocates(p)
    BY <1>1, <2>2, <2>6, SameRecord DEF InPlace
  <2>8. obj[r].link = LinkRec(p) /\ LinkRec(p) # None
    BY <2>5, <2>6, <2>7, RecFacts DEF Kind, MovedKind
  <2>9. QED
    BY <2>8 DEF IsRelocated
<1>6. \A m \in Named(obj, Root, <<RrMoved, 0>>) : obj[m].kids # {}
  BY <1>1, <1>4 DEF Named, NothingLost
<1>7. QED
  BY <1>3, <1>5, <1>6 DEF BelowRrMoved

\* Relocated directories are below RR_MOVED, nothing else is, and RR_MOVED is
\* there only while it is used (pycdlib.py:4766, 4925-4990).
THEOREM AlwaysBelowRrMoved ==
  ASSUME Careful
  PROVE  Spec => []BelowRrMoved
<1>1. QED
  BY CarefulAlways, CarefulBelow, PTL

LEMMA CarefulSpace == CarefulInv => SpaceExact
<1> SUFFICES ASSUME CarefulInv PROVE SpaceExact
  OBVIOUS
<1>1. CarefulTree(obj) /\ Tree(obj, {}) /\ Counts
  BY DEF CarefulInv, CarefulTree
<1>2. InTree(obj) = {Root} \cup Listed(obj)
  BY <1>1, InTreeCareful
<1>3. obj[Root].target = None
  <2>1. Root \in DOMAIN obj /\ Kind(Root, obj[Root])
    BY <1>1 DEF Tree
  <2>2. QED
    BY <2>1 DEF Kind, RootKind
<1>4. Directories = Kept(obj)
  BY <1>2, <1>3 DEF Directories, Kept, IsLink
<1> DEFINE n == Cardinality(Kept(obj))
           v == Tables(n)
<1>5. pvds = <<v>> /\ space = n + 4 * TablesFor(n) /\ v.size = n /\ v.tables = TablesFor(n)
  BY <1>1 DEF Counts, CountsAre, Tables
<1>6. n \in Nat /\ TablesFor(n) \in Nat /\ Cardinality(Directories) = n
  BY <1>1, <1>4, KeptFinite, TablesGrow
<1> HIDE DEF n, v
<1>7. Len(pvds) = 1 /\ pvds[1] = v /\ DOMAIN pvds = {1}
  BY <1>5
<1>8. space = Needed
  BY <1>5, <1>6, <1>7 DEF Needed
<1>9. \A i \in DOMAIN pvds :
        pvds[i].size = Cardinality(Directories) /\ pvds[i].tables = TablesFor(pvds[i].size)
  BY <1>5, <1>6, <1>7
<1>10. QED
  BY <1>8, <1>9 DEF SpaceExact

\* The path tables count the directories and not the child links, there are
\* exactly as many as hold the entries, and what is charged is what the layout
\* needs, after any additions and removals in any order (headervd.py:624-680,
\* pycdlib.py:3117-3160).
THEOREM SpaceAlwaysExact ==
  ASSUME Careful
  PROVE  Spec => []SpaceExact
<1>1. QED
  BY CarefulAlways, CarefulSpace, PTL

-----------------------------------------------------------------------------
(* What a client sees. *)

LEMMA FoundIffListed ==
  ASSUME CarefulTree(obj)
  PROVE  {p \in Path : Find(obj, p) # None} = {p \in Path : Has(obj, p)}
<1>1. ASSUME NEW p \in Path PROVE Find(obj, p) # None <=> Has(obj, p)
  <2>1. Find(obj, p) = LeadsTo(obj, p) /\ p # <<>> /\ DirRec(p) # None
    BY FindCareful, PathFacts, RecFacts
  <2>2. QED
    BY <2>1 DEF LeadsTo, Has
<1>2. QED
  BY <1>1

Seen == {p \in Path : Find(obj, p) # None}

LEMMA CarefulSeen == CarefulInv => Seen = {p \in Path : Has(obj, p)}
<1> SUFFICES ASSUME CarefulInv PROVE Seen = {p \in Path : Has(obj, p)}
  OBVIOUS
<1>1. CarefulTree(obj)
  BY DEF CarefulInv
<1>2. QED
  BY <1>1, FoundIffListed DEF Seen

SeenIs == Seen = {p \in Path : Has(obj, p)}

LEMMA SameFront == \A s : DirTree!Front(s) = Front(s)
<1>1. QED
  BY DEF DirTree!Front, Front

\* A client sees the directories it made and no others: RelocatedDirs
\* implements DirTree.  Adding a directory makes one, removing one removes one
\* that is empty, and nothing else shows, least of all that some are below
\* RR_MOVED (pycdlib.py:4744-4830, 4925-4990, _find_dr_record_by_name at 463).
THEOREM ImplementsDirTree ==
  ASSUME Careful
  PROVE  Spec => DirTreeSpec
<1>1. CarefulInv => SeenIs
  BY CarefulSeen DEF SeenIs
<1>2. Init => DirTree!Init
  <2> SUFFICES ASSUME Init PROVE DirTree!Init
    OBVIOUS
  <2>1. Seen = {p \in Path : Has(obj, p)}
    BY InitCareful, CarefulSeen
  <2>2. DOMAIN obj = {Root} /\ obj[Root].kids = {}
    <3>1. DOMAIN obj = {Root} /\ obj[Root] = Directory(None, None)
      BY DEF Init
    <3>2. QED
      BY <3>1, DirectoryIs
  <2>3. Seen = {}
    BY <2>1, <2>2 DEF Has, Listed
  <2>4. QED
    BY <2>3 DEF DirTree!Init, Seen
<1>3. CarefulInv /\ CarefulInv' /\ SeenIs /\ SeenIs' /\ [Next]_vars
        => [DirTree!Next]_Seen
  <2> SUFFICES ASSUME CarefulInv, SeenIs, SeenIs', [Next]_vars
               PROVE  DirTree!Next \/ Seen' = Seen
    OBVIOUS
  <2>1. Seen = {p \in Path : Has(obj, p)} /\ Seen' = {p \in Path : Has(obj', p)}
    BY DEF SeenIs
  <2>2. (\E p \in Path : Makes(p) \/ Removes(p)) \/ Listed(obj') = Listed(obj)
    BY NextCareful
  <2>3. CASE Listed(obj') = Listed(obj)
    BY <2>1, <2>3 DEF Has
  <2>4. ASSUME NEW p \in Path, Makes(p) PROVE DirTree!Next
    <3>1. p \notin Seen /\ Seen' = Seen \cup {p}
      BY <2>1, <2>4 DEF Makes
    <3>2. Front(p) = <<>> \/ Front(p) \in Seen
      <4>1. Front(p) = <<>> \/ Has(obj, Front(p))
        BY <2>4 DEF Makes
      <4>2. Front(p) = <<>> \/ Front(p) \in Path
        BY FrontPath
      <4>3. QED
        BY <2>1, <4>1, <4>2
    <3>3. DirTree!Make(p)
      BY <3>1, <3>2, SameFront DEF DirTree!Make, Seen
    <3>4. QED
      BY <3>3 DEF DirTree!Next
  <2>5. ASSUME NEW p \in Path, Removes(p) PROVE DirTree!Next
    <3>1. p \in Seen /\ Seen' = Seen \ {p} /\ \A q \in Seen : Front(q) # p
      BY <2>1, <2>5 DEF Removes
    <3>2. DirTree!RemoveEmpty(p)
      BY <3>1, SameFront DEF DirTree!RemoveEmpty, Seen
    <3>3. QED
      BY <3>1, <3>2 DEF DirTree!Next, Seen
  <2>6. QED
    BY <2>2, <2>3, <2>4, <2>5
<1>4. Spec => []CarefulInv
  BY CarefulAlways
<1>5. QED
  BY <1>1, <1>2, <1>3, <1>4, PTL DEF Spec, DirTreeSpec, DirTree!Spec, Seen
=============================================================================
