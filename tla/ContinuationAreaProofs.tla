----------------------- MODULE ContinuationAreaProofs -----------------------
(***************************************************************************)
(* Proofs about ContinuationArea, for every set of records, every block    *)
(* size and every set of circumstances.                                    *)
(***************************************************************************)
EXTENDS ContinuationArea, FiniteSetTheorems, WellFoundedInduction, TLAPS

-----------------------------------------------------------------------------
(* The least element of a set of natural numbers. *)

LEMMA LeastNatural ==
  ASSUME NEW S \in SUBSET Nat, S # {}
  PROVE  \E m \in S : \A q \in S : m <= q
<1>1. PICK m \in S : \A q \in S : ~(<<q, m>> \in OpToRel(<, Nat))
  BY NatLessThanWellFounded, WFMin, Zenon
<1>2. \A q \in S : ~(q < m)
  BY <1>1, Zenon DEF OpToRel
<1>3. QED
  BY <1>2

\* First-fit returns an offset where nothing is, or -1.
LEMMA FirstFitFits ==
  ASSUME NEW b \in SUBSET Entry, NEW n \in Nat, FirstFit(b, n) # -1,
         \A e \in b : Fits(e)
  PROVE  /\ FirstFit(b, n) \in Nat
         /\ Fits([offset |-> FirstFit(b, n), length |-> n])
         /\ \A e \in b : ~Overlap([offset |-> FirstFit(b, n), length |-> n], e)
<1>1. Gaps(b, n) \subseteq Nat
  BY ContinuationAssumption DEF Gaps, Fits, Entry
<1>2. Gaps(b, n) # {}
  BY DEF FirstFit
<1>3. \E m \in Gaps(b, n) : \A q \in Gaps(b, n) : m <= q
  BY <1>1, <1>2, LeastNatural
<1>4. FirstFit(b, n) \in Gaps(b, n)
  BY <1>2, <1>3 DEF FirstFit
<1>5. QED
  BY <1>1, <1>4 DEF Gaps

LEMMA FirstFitType ==
  ASSUME NEW b \in SUBSET Entry, NEW n \in Nat, \A e \in b : Fits(e)
  PROVE  FirstFit(b, n) \in Int
<1>1. CASE FirstFit(b, n) = -1
  BY <1>1
<1>2. CASE FirstFit(b, n) # -1
  <2>1. FirstFit(b, n) \in Nat
    BY <1>2, FirstFitFits
  <2>2. QED
    BY <2>1
<1>3. QED
  BY <1>1, <1>2

LEMMA SeqOfFunction ==
  ASSUME NEW T, NEW m \in Nat, NEW s \in [1..m -> T]
  PROVE  s \in Seq(T) /\ Len(s) = m
OBVIOUS

\* There are finitely many records.
LEMMA RecFinite == IsFiniteSet(Rec)
<1>1. IsFiniteSet(Fake)
  <2> DEFINE f == [d \in Dir |-> Cl(d)]
  <2>1. f \in Surjection(Dir, Fake)
    BY DEF Fake, Surjection
  <2>2. QED
    BY <2>1, FS_Surjection, ContinuationAssumption
<1>2. IsFiniteSet({Er})
  BY FS_Singleton
<1>3. QED
  BY <1>1, <1>2, FS_Union, ContinuationAssumption DEF Rec

-----------------------------------------------------------------------------
(***************************************************************************)
(* The inductive invariant.  That the places of the records are apart is   *)
(* not inductive: a new entry is kept apart from the entries of its block, *)
(* so every place must be one of them.  Two records may not share one      *)
(* entry either, or removing one would untrack the other.                  *)
(***************************************************************************)
Apart(b) ==
  \A e \in b : /\ Fits(e) /\ e.length > 0
               /\ \A f \in b \ {e} : ~Overlap(e, f)
HasPlace(p) == p # NoCe /\ p.block # 0 /\ p.offset # -1
Sound(b, p) ==
  /\ \A k \in 1..Len(b) : Apart(b[k])
  /\ \A r \in Rec : p[r] # NoCe => p[r].length > 0
  /\ \A r \in Dir \cup File : p[r] # NoCe => p[r].block \in 1..Len(b)
  /\ \A r \in Rec : HasPlace(p[r]) => /\ p[r].block \in 1..Len(b)
                                      /\ EntryOf(p[r]) \in b[p[r].block]
  /\ \A r, s \in Rec : /\ r # s /\ HasPlace(p[r]) /\ HasPlace(p[s])
                       /\ p[r].block = p[s].block
                       => EntryOf(p[r]) # EntryOf(p[s])

PlacesInv == TypeOK /\ Sound(blocks, ce)

\* Whatever parses is tracked soundly: Init and Reopen.
LEMMA ParseSound ==
  ASSUME NEW c \in [Rec -> Place], NEW o \in Parse(c), Parses(c),
         \A r \in Rec : c[r] # NoCe => c[r].length > 0
  PROVE  /\ Tracked(c, o) \in Seq(SUBSET Entry)
         /\ Renumbered(c, o) \in [Rec -> Place]
         /\ Sound(Tracked(c, o), Renumbered(c, o))
<1> DEFINE live == {r \in Rec : c[r] # NoCe}
           used == {c[r].block : r \in live}
           n == Cardinality(used)
           b == Tracked(c, o)
           p == Renumbered(c, o)
<1>1. n \in Nat
  <2>1. IsFiniteSet(live)
    BY RecFinite, FS_Subset
  <2>2. [r \in live |-> c[r].block] \in Surjection(live, used)
    BY DEF Surjection
  <2>3. IsFiniteSet(used)
    BY <2>1, <2>2, FS_Surjection
  <2>4. QED
    BY <2>3, FS_CardinalityType
<1>2. o \in [1..n -> used] /\ \A u \in used : \E k \in 1..n : o[k] = u
  BY DEF Parse
<1>3. b \in Seq(SUBSET Entry) /\ Len(b) = n
  <2>1. \A r \in Rec : EntryOf(c[r]) \in Entry
    BY DEF EntryOf, Entry, Place
  <2>2. b \in [1..n -> SUBSET Entry]
    BY <1>2, <2>1 DEF Tracked
  <2>3. QED
    BY <1>1, <2>2, SeqOfFunction
<1>4. ASSUME NEW r \in live
      PROVE  /\ p[r] \in Place /\ p[r].block \in 1..n /\ o[p[r].block] = c[r].block
             /\ p[r].offset = c[r].offset /\ p[r].length = c[r].length
  <2> DEFINE k == CHOOSE k \in DOMAIN o : o[k] = c[r].block
  <2>1. \E j \in 1..n : o[j] = c[r].block
    BY <1>2
  <2>2. k \in 1..n /\ o[k] = c[r].block
    BY <1>2, <2>1
  <2>3. p[r] = [c[r] EXCEPT !.block = k]
    BY DEF Renumbered
  <2>4. c[r] \in Place /\ k \in Nat
    BY <1>1, <2>2
  <2>5. QED
    <3> HIDE DEF k
    <3> QED BY <2>2, <2>3, <2>4 DEF Place
<1>5. \A r \in Rec \ live : p[r] = NoCe
  BY DEF Renumbered
<1>6. p \in [Rec -> Place]
  <2>1. NoCe \in Place
    BY DEF NoCe, Place
  <2>2. \A r \in Rec : p[r] \in Place
    BY <1>4, <1>5, <2>1
  <2>3. QED
    BY <2>2 DEF Renumbered
<1>7. Sound(b, p)
  <2>1. \A k \in 1..Len(b) : Apart(b[k])
    <3>1. SUFFICES ASSUME NEW k \in 1..n, NEW e \in b[k]
                   PROVE  Fits(e) /\ e.length > 0 /\ \A f \in b[k] \ {e} : ~Overlap(e, f)
      BY <1>3 DEF Apart
    <3>2. b[k] = {EntryOf(c[r]) : r \in {q \in Rec : c[q] # NoCe /\ c[q].block = o[k]}}
      BY <1>2 DEF Tracked
    <3>3. PICK r \in Rec : c[r] # NoCe /\ c[r].block = o[k] /\ e = EntryOf(c[r])
      BY <3>2
    <3>4. ASSUME NEW f \in b[k], f # e PROVE ~Overlap(e, f)
      <4>1. PICK s \in Rec : c[s] # NoCe /\ c[s].block = o[k] /\ f = EntryOf(c[s])
        BY <3>2
      <4>2. ~Overlap(c[r], c[s])
        BY <3>3, <3>4, <4>1 DEF Parses
      <4>3. QED
        BY <3>3, <4>1, <4>2 DEF Overlap, EntryOf
    <3>5. Fits(e) /\ e.length > 0
      BY <3>3 DEF Parses, Fits, EntryOf
    <3>6. QED
      BY <3>4, <3>5
  <2>2. \A r \in Rec : p[r] # NoCe => p[r].length > 0
    BY <1>4, <1>5
  <2>3. \A r \in Dir \cup File : p[r] # NoCe => p[r].block \in 1..Len(b)
    BY <1>3, <1>4, <1>5 DEF Rec
  <2>4. ASSUME NEW r \in Rec, HasPlace(p[r])
        PROVE  p[r].block \in 1..Len(b) /\ EntryOf(p[r]) \in b[p[r].block]
    <3>1. r \in live
      BY <1>5, <2>4 DEF HasPlace
    <3>2. EntryOf(p[r]) = EntryOf(c[r])
      BY <1>4, <3>1 DEF EntryOf
    <3>3. QED
      BY <1>2, <1>3, <1>4, <3>1, <3>2 DEF Tracked
  <2>5. ASSUME NEW r \in Rec, NEW s \in Rec, r # s, HasPlace(p[r]), HasPlace(p[s]),
               p[r].block = p[s].block
        PROVE  EntryOf(p[r]) # EntryOf(p[s])
    <3>1. r \in live /\ s \in live
      BY <1>5, <2>5 DEF HasPlace
    <3>2. c[r].block = c[s].block
      BY <1>4, <2>5, <3>1
    <3>3. ~Overlap(c[r], c[s])
      BY <2>5, <3>1, <3>2 DEF Parses
    <3>4. /\ c[r].offset \in Int /\ c[r].length \in Nat /\ c[r].length > 0
          /\ c[s].offset \in Int /\ c[s].length \in Nat /\ c[s].length > 0
      BY <3>1 DEF Place
    <3>5. c[r].offset # c[s].offset \/ c[r].length # c[s].length
      BY <3>3, <3>4 DEF Overlap
    <3>6. QED
      BY <1>4, <3>1, <3>5 DEF EntryOf
  <2>6. QED
    BY <2>1, <2>2, <2>3, <2>4, <2>5 DEF Sound
<1>8. QED
  BY <1>3, <1>6, <1>7

-----------------------------------------------------------------------------
LEMMA PlaceTypes == NoCe \in Place /\ \A n \in Nat : [NoCe EXCEPT !.length = n] \in Place
BY DEF NoCe, Place

LEMMA ForeignPlaces ==
  ASSUME NEW q \in ForeignPlace
  PROVE  q \in Place /\ q.length > 0
<1>1. q \in [block : 1..ForeignBlocks, offset : 0..BlockSize, length : Lengths]
  BY DEF ForeignPlace
<1>2. q.block \in 1..ForeignBlocks /\ q.offset \in 0..BlockSize /\ q.length \in Lengths
  BY <1>1
<1>3. q.block \in Nat
  BY <1>2, ContinuationAssumption
<1>4. q.offset \in Int
  BY <1>2, ContinuationAssumption
<1>5. q.length \in Nat /\ q.length > 0
  <2>1. \A n \in Lengths : n \in Nat /\ n > 0
    BY ContinuationAssumption
  <2>2. QED
    BY <1>2, <2>1, Zenon
<1>6. q = [block |-> q.block, offset |-> q.offset, length |-> q.length]
  BY <1>1
<1>7. QED
  BY <1>3, <1>4, <1>5, <1>6 DEF Place

LEMMA InitInv == Init => PlacesInv
<1> SUFFICES ASSUME Init PROVE PlacesInv
  OBVIOUS
<1> USE ContinuationAssumption
<1>1. CASE /\ blocks = <<>>
           /\ ce = [r \in Rec |-> IF r = Er THEN [NoCe EXCEPT !.length = ErLength] ELSE NoCe]
           /\ charged = 1
  <2>1. TypeOK
    <3>1. ce \in [Rec -> Place]
      BY <1>1, PlaceTypes
    <3>2. blocks \in Seq(SUBSET Entry)
      BY <1>1
    <3>3. QED
      BY <1>1, <3>1, <3>2 DEF TypeOK, Init
  <2>2. \A r \in Rec : r # Er => ce[r] = NoCe
    BY <1>1
  <2>3. ce[Er].block = 0 /\ ce[Er].length = ErLength
    BY <1>1 DEF NoCe, Rec
  <2>4. \A r \in Rec : ~HasPlace(ce[r])
    BY <2>2, <2>3 DEF HasPlace
  <2>5. Len(blocks) = 0 /\ ErLength > 0 /\ \A r \in Dir \cup File : r \in Rec /\ r # Er
    BY <1>1 DEF Rec
  <2>6. Sound(blocks, ce)
    BY <2>2, <2>3, <2>4, <2>5 DEF Sound
  <2>7. QED
    BY <2>1, <2>6 DEF PlacesInv
<1>2. ASSUME NEW p \in [Dir \cup File -> {NoCe} \cup ForeignPlace],
             NEW at \in 0..(BlockSize - ErLength),
             Parses(ForeignTree(p, at)),
             NEW o \in Parse(ForeignTree(p, at)),
             blocks = Tracked(ForeignTree(p, at), o),
             ce = Renumbered(ForeignTree(p, at), o),
             charged = Len(blocks)
      PROVE  PlacesInv
  <2> DEFINE c == ForeignTree(p, at)
  <2>1. ASSUME NEW r \in Rec
        PROVE  c[r] \in Place /\ (c[r] # NoCe => c[r].length > 0)
    <3>1. CASE r = Er
      BY <3>1 DEF ForeignTree, Place, NoCe
    <3>2. CASE r \in Fake /\ r # Er
      BY <3>2, PlaceTypes DEF ForeignTree
    <3>3. CASE r \in Dir \cup File
      <4>1. c[r] = p[r]
        BY <3>3 DEF ForeignTree
      <4>2. p[r] = NoCe \/ p[r] \in ForeignPlace
        BY <3>3
      <4>3. \A q \in ForeignPlace : q \in Place /\ q.length > 0
        BY ForeignPlaces
      <4>4. CASE p[r] = NoCe
        BY <4>1, <4>4, PlaceTypes
      <4>5. CASE p[r] \in ForeignPlace
        BY <4>1, <4>3, <4>5
      <4>6. QED
        BY <4>2, <4>4, <4>5
    <3>4. QED
      BY <3>1, <3>2, <3>3 DEF Rec
  <2>2. c \in [Rec -> Place]
    BY <2>1 DEF ForeignTree
  <2>3. /\ blocks \in Seq(SUBSET Entry) /\ ce \in [Rec -> Place] /\ Sound(blocks, ce)
    <3> HIDE DEF c
    <3> QED BY <1>2, <2>1, <2>2, ParseSound DEF c
  <2>4. QED
    BY <1>2, <2>3 DEF PlacesInv, TypeOK, Init
<1>3. QED
  BY <1>1, <1>2 DEF Init

-----------------------------------------------------------------------------
(* The operations. *)

\* _update_rr_ce_entry: a new entry in the first block, or none.
LEMMA AddedSound ==
  ASSUME PlacesInv, NEW n \in Lengths
  PROVE  LET b == IF blocks = <<>> THEN <<{}>> ELSE blocks
             e == EntryOf(PlaceOf(n))
         IN /\ PlaceOf(n) \in Place /\ PlaceOf(n).block = 1 /\ PlaceOf(n).length = n
            /\ Len(b) > 0 /\ Len(blocks) <= Len(b)
            /\ Added(n) \in Seq(SUBSET Entry) /\ Len(Added(n)) = Len(b)
            /\ \A k \in 1..Len(b) : Apart(Added(n)[k])
            /\ \A k \in 1..Len(blocks) : blocks[k] \subseteq Added(n)[k]
            /\ PlaceOf(n).offset # -1 => e \in Added(n)[1]
            /\ PlaceOf(n).offset # -1 /\ Len(blocks) > 0 => e \notin blocks[1]
<1> DEFINE b == IF blocks = <<>> THEN <<{}>> ELSE blocks
           o == FirstFit(b[1], n)
           p == PlaceOf(n)
           e == EntryOf(p)
<1>1. n \in Nat /\ n > 0
  BY ContinuationAssumption
<1>2. /\ b \in Seq(SUBSET Entry) /\ Len(b) > 0 /\ Len(blocks) <= Len(b)
      /\ \A k \in 1..Len(b) : Apart(b[k])
      /\ \A k \in 1..Len(blocks) : b[k] = blocks[k]
  <2>1. CASE blocks = <<>>
    BY <2>1 DEF Apart
  <2>2. CASE blocks # <<>>
    BY <2>2 DEF PlacesInv, TypeOK, Sound
  <2>3. QED
    BY <2>1, <2>2
<1>3. b[1] \in SUBSET Entry /\ \A f \in b[1] : Fits(f) /\ f.length > 0
  BY <1>2 DEF Apart
<1>4. o \in Int
  BY <1>1, <1>3, FirstFitType
<1>5. p = [block |-> 1, offset |-> o, length |-> n]
  BY DEF PlaceOf
<1>6. e = [offset |-> o, length |-> n] /\ e \in Entry
  BY <1>1, <1>4, <1>5 DEF EntryOf, Entry
<1>7. p \in Place /\ p.block = 1 /\ p.length = n /\ p.offset = o
  BY <1>1, <1>4, <1>5 DEF Place
<1>8. CASE o = -1
  <2>1. Added(n) = b
    BY <1>8 DEF Added
  <2>2. QED
    BY <1>2, <1>7, <1>8, <2>1
<1>9. CASE o # -1
  <2>1. Added(n) = [b EXCEPT ![1] = @ \cup {e}]
    BY <1>6, <1>9 DEF Added
  <2>2. /\ o \in Nat /\ Fits(e) /\ \A f \in b[1] : ~Overlap(e, f)
    BY <1>1, <1>3, <1>6, <1>9, FirstFitFits
  <2>3. \A f \in b[1] : ~Overlap(f, e)
    BY <2>2 DEF Overlap
  <2>4. Apart(b[1] \cup {e})
    BY <1>1, <1>2, <1>3, <1>6, <2>2, <2>3 DEF Apart
  <2>5. e \notin b[1]
    <3>1. Overlap(e, e)
      BY <1>1, <1>4, <1>6 DEF Overlap
    <3>2. QED
      BY <2>2, <3>1
  <2>6. Added(n) \in Seq(SUBSET Entry) /\ Len(Added(n)) = Len(b)
    BY <1>2, <1>6, <2>1
  <2>7. /\ Added(n)[1] = b[1] \cup {e}
        /\ \A k \in 1..Len(b) : k # 1 => Added(n)[k] = b[k]
    BY <1>2, <2>1
  <2>8. \A k \in 1..Len(b) : Apart(Added(n)[k]) /\ b[k] \subseteq Added(n)[k]
    BY <1>2, <2>4, <2>7
  <2>9. e \in Added(n)[1] /\ (Len(blocks) > 0 => e \notin blocks[1])
    BY <1>2, <2>5, <2>7
  <2>10. \A k \in 1..Len(blocks) : blocks[k] \subseteq Added(n)[k]
    <3>1. Len(blocks) \in Nat /\ Len(b) \in Nat
      BY <1>2 DEF PlacesInv, TypeOK
    <3>2. QED
      BY <1>2, <2>8, <3>1
  <2>11. QED
    <3> HIDE DEF b, e, p, o
    <3> QED BY <1>2, <1>7, <2>6, <2>8, <2>9, <2>10 DEF b, e, p
<1>10. QED
  BY <1>8, <1>9

\* A record is added, and possibly the CL record without a place.
LEMMA AddKeepsSound ==
  ASSUME PlacesInv, NEW n \in Lengths, NEW r \in Dir \cup File,
         NEW c \in [Rec -> Place], c[r] = PlaceOf(n),
         \A s \in Rec \ {r} : \/ c[s] = ce[s]
                              \/ s \in Fake /\ c[s] = [NoCe EXCEPT !.length = n]
  PROVE  Sound(Added(n), c)
<1> DEFINE e == EntryOf(PlaceOf(n))
           b == Added(n)
<1>1. /\ PlaceOf(n) \in Place /\ PlaceOf(n).block = 1 /\ PlaceOf(n).length = n
      /\ Len(b) > 0 /\ Len(blocks) <= Len(b)
      /\ b \in Seq(SUBSET Entry)
      /\ \A k \in 1..Len(b) : Apart(b[k])
      /\ \A k \in 1..Len(blocks) : blocks[k] \subseteq b[k]
      /\ PlaceOf(n).offset # -1 => e \in b[1]
      /\ PlaceOf(n).offset # -1 /\ Len(blocks) > 0 => e \notin blocks[1]
  BY AddedSound
<1>2. /\ blocks \in Seq(SUBSET Entry)
      /\ \A s \in Rec : ce[s] # NoCe => ce[s].length > 0
      /\ \A s \in Dir \cup File : ce[s] # NoCe => ce[s].block \in 1..Len(blocks)
      /\ \A s \in Rec : HasPlace(ce[s]) => /\ ce[s].block \in 1..Len(blocks)
                                           /\ EntryOf(ce[s]) \in blocks[ce[s].block]
      /\ \A s, t \in Rec : /\ s # t /\ HasPlace(ce[s]) /\ HasPlace(ce[t])
                           /\ ce[s].block = ce[t].block
                           => EntryOf(ce[s]) # EntryOf(ce[t])
  BY DEF PlacesInv, TypeOK, Sound
<1>3. 1..Len(blocks) \subseteq 1..Len(b)
  BY <1>1, <1>2
<1>4. ASSUME NEW s \in Rec \ {r}, HasPlace(c[s])
      PROVE  c[s] = ce[s]
  BY <1>4 DEF HasPlace, NoCe
<1>5. \A s \in Rec : c[s] # NoCe => c[s].length > 0
  <2>1. n > 0
    BY ContinuationAssumption
  <2>2. [NoCe EXCEPT !.length = n].length = n
    BY DEF NoCe
  <2>3. QED
    BY <1>1, <1>2, <2>1, <2>2
<1>6. \A s \in Dir \cup File : c[s] # NoCe => c[s].block \in 1..Len(b)
  <2>1. 1 \in 1..Len(b)
    BY <1>1
  <2>2. \A s \in Dir \cup File : s \in Rec /\ s \notin Fake
    BY ContinuationAssumption DEF Rec
  <2>3. QED
    BY <1>1, <1>2, <1>3, <2>1, <2>2
<1>7. ASSUME NEW s \in Rec, HasPlace(c[s])
      PROVE  c[s].block \in 1..Len(b) /\ EntryOf(c[s]) \in b[c[s].block]
  <2>1. CASE s = r
    <3>1. 1 \in 1..Len(b)
      BY <1>1
    <3>2. QED
      BY <1>1, <1>7, <2>1, <3>1 DEF HasPlace
  <2>2. CASE s # r
    BY <1>1, <1>2, <1>3, <1>4, <1>7, <2>2
  <2>3. QED
    BY <2>1, <2>2
<1>8. ASSUME NEW s \in Rec \ {r}, HasPlace(c[s]), HasPlace(c[r]), c[s].block = c[r].block
      PROVE  EntryOf(c[s]) # EntryOf(c[r])
  <2>1. EntryOf(c[s]) \in blocks[1] /\ Len(blocks) > 0
    BY <1>1, <1>2, <1>4, <1>8
  <2>2. QED
    BY <1>1, <1>8, <2>1 DEF HasPlace
<1>9. ASSUME NEW s \in Rec, NEW t \in Rec, s # t, HasPlace(c[s]), HasPlace(c[t]),
             c[s].block = c[t].block
      PROVE  EntryOf(c[s]) # EntryOf(c[t])
  <2>1. CASE s = r
    BY <1>8, <1>9, <2>1
  <2>2. CASE t = r
    BY <1>8, <1>9, <2>2
  <2>3. CASE s # r /\ t # r
    BY <1>2, <1>4, <1>9, <2>3
  <2>4. QED
    BY <2>1, <2>2, <2>3
<1>10. QED
  BY <1>1, <1>5, <1>6, <1>7, <1>9 DEF Sound

LEMMA ChargeType == ASSUME TypeOK PROVE Charge \in Nat
BY DEF Charge, TypeOK

LEMMA AddInv ==
  ASSUME PlacesInv, NEW r \in Rec, NEW n \in Lengths, Add(r, n)
  PROVE  PlacesInv'
<1>1. r \in Dir \cup File /\ ce' = [ce EXCEPT ![r] = PlaceOf(n)] /\ blocks' = Added(n)
  BY DEF Add
<1>2. ce \in [Rec -> Place] /\ PlaceOf(n) \in Place /\ Added(n) \in Seq(SUBSET Entry)
  BY AddedSound DEF PlacesInv, TypeOK
<1>3. ce' \in [Rec -> Place] /\ ce'[r] = PlaceOf(n) /\ \A s \in Rec \ {r} : ce'[s] = ce[s]
  BY <1>1, <1>2
<1>4. Sound(blocks', ce')
  BY <1>1, <1>3, AddKeepsSound
<1>5. TypeOK'
  BY <1>1, <1>2, <1>3, ChargeType DEF PlacesInv, TypeOK, Add
<1>6. QED
  BY <1>4, <1>5 DEF PlacesInv

LEMMA AddRelocatedInv ==
  ASSUME PlacesInv, NEW d \in Dir, NEW n \in Lengths, AddRelocated(d, n)
  PROVE  PlacesInv'
<1> DEFINE p == [NoCe EXCEPT !.length = n]
<1>1. /\ ce' = [ce EXCEPT ![d] = PlaceOf(n), ![Cl(d)] = p]
      /\ blocks' = Added(n)
  BY DEF AddRelocated
<1>2. /\ ce \in [Rec -> Place] /\ PlaceOf(n) \in Place /\ p \in Place
      /\ Added(n) \in Seq(SUBSET Entry)
  <2>1. n \in Nat
    BY ContinuationAssumption
  <2>2. QED
    BY <2>1, AddedSound, PlaceTypes DEF PlacesInv, TypeOK
<1>3. d \in Rec /\ Cl(d) \in Rec /\ Cl(d) \in Fake /\ d # Cl(d)
  BY ContinuationAssumption DEF Rec, Fake
<1>4. /\ ce' \in [Rec -> Place] /\ ce'[d] = PlaceOf(n) /\ ce'[Cl(d)] = p
      /\ \A s \in Rec \ {d, Cl(d)} : ce'[s] = ce[s]
  <2> HIDE DEF p
  <2> QED BY <1>1, <1>2, <1>3
<1>5. Sound(blocks', ce')
  <2>1. \A s \in Rec \ {d} : ce'[s] = ce[s] \/ (s \in Fake /\ ce'[s] = p)
    <3> SUFFICES ASSUME NEW s \in Rec \ {d} PROVE ce'[s] = ce[s] \/ (s \in Fake /\ ce'[s] = p)
      OBVIOUS
    <3>1. CASE s = Cl(d)
      BY <1>3, <1>4, <3>1
    <3>2. CASE s # Cl(d)
      BY <1>4, <3>2
    <3>3. QED
      BY <3>1, <3>2
  <2>2. d \in Dir \cup File
    OBVIOUS
  <2>3. Sound(Added(n), ce')
    BY <1>4, <2>1, <2>2, AddKeepsSound
  <2>4. QED
    BY <1>1, <2>3
<1>6. TypeOK'
  BY <1>1, <1>2, <1>4, ChargeType DEF PlacesInv, TypeOK, AddRelocated
<1>7. QED
  BY <1>5, <1>6 DEF PlacesInv

LEMMA RmDirectoryInv ==
  ASSUME PlacesInv, NEW d \in Dir, RmDirectory(d)
  PROVE  PlacesInv'
<1> DEFINE b == ce[d].block
           e == EntryOf(ce[d])
<1>1. d \in Rec /\ Cl(d) \in Rec /\ Cl(d) \notin Dir \cup File
  BY ContinuationAssumption DEF Rec, Fake
<1>2. /\ ce \in [Rec -> Place] /\ blocks \in Seq(SUBSET Entry)
      /\ ce[d] # NoCe /\ b \in 1..Len(blocks)
      /\ ce' = [ce EXCEPT ![d] = NoCe, ![Cl(d)] = NoCe]
  BY DEF PlacesInv, TypeOK, Sound, RmDirectory, Live
<1>3. /\ ce' \in [Rec -> Place]
      /\ ce'[d] = NoCe
      /\ \A s \in Rec : ce'[s] = ce[s] \/ ce'[s] = NoCe
  BY <1>1, <1>2, PlaceTypes
<1>4. \A s \in Rec : HasPlace(ce'[s]) => ce'[s] = ce[s] /\ s # d
  BY <1>3 DEF HasPlace
<1>5. \/ blocks' = [blocks EXCEPT ![b] = @ \ {e}] /\ e \in blocks[b]
      \/ blocks' = blocks
  BY DEF RmDirectory
<1>6. TypeOK'
  <2>1. blocks' \in Seq(SUBSET Entry)
    BY <1>2, <1>5
  <2>2. QED
    BY <1>3, <2>1 DEF PlacesInv, TypeOK, RmDirectory
<1>7. /\ Len(blocks') = Len(blocks)
      /\ \A k \in 1..Len(blocks) :
           \/ blocks'[k] = blocks[k]
           \/ k = b /\ e \in blocks[b] /\ blocks'[k] = blocks[k] \ {e}
  <2>1. CASE blocks' = blocks
    BY <2>1
  <2>2. CASE blocks' = [blocks EXCEPT ![b] = @ \ {e}] /\ e \in blocks[b]
    <3> HIDE DEF b, e
    <3> QED BY <1>2, <2>2
  <2>3. QED
    BY <1>5, <2>1, <2>2
<1>8. \A k \in 1..Len(blocks') : Apart(blocks'[k])
  BY <1>7 DEF PlacesInv, Sound, Apart
<1>9. ASSUME NEW s \in Rec, HasPlace(ce'[s])
      PROVE  ce'[s].block \in 1..Len(blocks') /\ EntryOf(ce'[s]) \in blocks'[ce'[s].block]
  <2>1. /\ HasPlace(ce[s]) /\ ce'[s] = ce[s] /\ s # d
        /\ ce[s].block \in 1..Len(blocks) /\ EntryOf(ce[s]) \in blocks[ce[s].block]
    BY <1>4, <1>9 DEF PlacesInv, Sound
  <2>2. CASE EntryOf(ce[s]) \in blocks'[ce[s].block]
    BY <1>7, <2>1, <2>2
  <2>3. CASE ce[s].block = b /\ EntryOf(ce[s]) = e /\ e \in blocks[b]
    <3>1. ce[d].offset # -1
      <4>1. Fits(e)
        BY <1>2, <2>3 DEF PlacesInv, Sound, Apart
      <4>2. QED
        BY <4>1 DEF Fits, EntryOf
    <3>2. HasPlace(ce[d])
      BY <1>2, <3>1 DEF HasPlace
    <3>3. EntryOf(ce[s]) # EntryOf(ce[d])
      BY <1>1, <2>1, <2>3, <3>2 DEF PlacesInv, Sound
    <3>4. QED
      BY <2>3, <3>3
  <2>4. QED
    BY <1>7, <2>1, <2>2, <2>3
<1>10. Sound(blocks', ce')
  <2>1. \A s \in Rec : ce'[s] # NoCe => ce'[s].length > 0
    BY <1>3 DEF PlacesInv, Sound
  <2>2. \A s \in Dir \cup File : ce'[s] # NoCe => ce'[s].block \in 1..Len(blocks')
    BY <1>3, <1>7 DEF PlacesInv, Sound, Rec
  <2>3. \A s, t \in Rec : /\ s # t /\ HasPlace(ce'[s]) /\ HasPlace(ce'[t])
                          /\ ce'[s].block = ce'[t].block
                          => EntryOf(ce'[s]) # EntryOf(ce'[t])
    BY <1>4 DEF PlacesInv, Sound
  <2>4. QED
    BY <1>8, <1>9, <2>1, <2>2, <2>3 DEF Sound
<1>11. QED
  BY <1>6, <1>10 DEF PlacesInv

LEMMA RmFileInv ==
  ASSUME PlacesInv, NEW f \in File, RmFile(f)
  PROVE  PlacesInv'
<1>1. blocks' = blocks /\ ce' = [ce EXCEPT ![f] = NoCe]
  BY DEF RmFile
<1>2. /\ ce' \in [Rec -> Place]
      /\ \A s \in Rec : ce'[s] = ce[s] \/ ce'[s] = NoCe
  BY <1>1, PlaceTypes DEF PlacesInv, TypeOK
<1>3. \A s \in Rec : HasPlace(ce'[s]) => ce'[s] = ce[s]
  BY <1>2 DEF HasPlace
<1>4. Sound(blocks', ce')
  BY <1>1, <1>2, <1>3 DEF PlacesInv, Sound, Rec
<1>5. TypeOK'
  BY <1>1, <1>2 DEF PlacesInv, TypeOK, RmFile
<1>6. QED
  BY <1>4, <1>5 DEF PlacesInv

\* Either nothing but the exception changes, or the new places were parsed.
LEMMA ReopenInv == ASSUME PlacesInv, Reopen PROVE PlacesInv'
<1> DEFINE c == [r \in Rec |-> IF r \in Live THEN OnImage(r) ELSE NoCe]
<1>1. ce \in [Rec -> Place] /\ blocks \in Seq(SUBSET Entry)
  BY DEF PlacesInv, TypeOK
<1>2. ASSUME NEW r \in Rec
      PROVE  c[r] \in Place /\ (c[r] # NoCe => c[r].length > 0)
  <2>1. ce[r] \in Place /\ (ce[r] # NoCe => ce[r].length > 0)
    BY <1>1 DEF PlacesInv, Sound
  <2>2. Len(blocks) + 1 \in Nat
    BY <1>1
  <2>3. [ce[r] EXCEPT !.block = Len(blocks) + 1] \in Place
        /\ [ce[r] EXCEPT !.block = Len(blocks) + 1].length = ce[r].length
    BY <2>1, <2>2 DEF Place
  <2>4. QED
    BY <2>1, <2>3, PlaceTypes DEF Live, OnImage, ErBlock
<1>3. c \in [Rec -> Place]
  BY <1>2
<1>4. opens' \in 0..MaxOpens
  BY ContinuationAssumption DEF Reopen, PlacesInv, TypeOK
<1>5. charged' = charged /\ raised' \in {"none", "no_place", "no_space", "overlap", "no_entry"}
  BY DEF Reopen
<1>6. CASE UNCHANGED <<blocks, ce>>
  BY <1>4, <1>5, <1>6 DEF PlacesInv, TypeOK, Sound
<1>7. ASSUME Parses(c), NEW o \in Parse(c), blocks' = Tracked(c, o), ce' = Renumbered(c, o)
      PROVE  PlacesInv'
  <2>1. blocks' \in Seq(SUBSET Entry) /\ ce' \in [Rec -> Place] /\ Sound(blocks', ce')
    <3> HIDE DEF c
    <3> QED BY <1>2, <1>3, <1>7, ParseSound
  <2>2. QED
    BY <1>4, <1>5, <2>1 DEF PlacesInv, TypeOK
<1>8. \/ UNCHANGED <<blocks, ce>>
      \/ Parses(c) /\ \E o \in Parse(c) : blocks' = Tracked(c, o) /\ ce' = Renumbered(c, o)
  BY DEF Reopen
<1>9. QED
  BY <1>6, <1>7, <1>8

-----------------------------------------------------------------------------
LEMMA PlacesStep == ASSUME PlacesInv, [Next]_vars PROVE PlacesInv'
<1>1. ASSUME NEW r \in Rec, NEW n \in Lengths, Add(r, n) PROVE PlacesInv'
  BY <1>1, AddInv
<1>2. ASSUME NEW d \in Dir, NEW n \in Lengths, AddRelocated(d, n) PROVE PlacesInv'
  BY <1>2, AddRelocatedInv
<1>3. ASSUME NEW d \in Dir, RmDirectory(d) PROVE PlacesInv'
  BY <1>3, RmDirectoryInv
<1>4. ASSUME NEW f \in File, RmFile(f) PROVE PlacesInv'
  BY <1>4, RmFileInv
<1>5. CASE Reopen
  BY <1>5, ReopenInv
<1>6. CASE UNCHANGED vars
  BY <1>6 DEF PlacesInv, TypeOK, Sound, vars
<1>7. QED
  BY <1>1, <1>2, <1>3, <1>4, <1>5, <1>6 DEF Next

\* The entries of every block are apart, and every place in use is the entry
\* of its record alone, whatever is added, removed, parsed and relocated.
THEOREM PlacesInvariant == Spec => []PlacesInv
BY InitInv, PlacesStep, PTL DEF Spec

\* Every variable of the continuation area keeps its type.
THEOREM TypeCorrect == Spec => []TypeOK
<1>1. PlacesInv => TypeOK
  BY DEF PlacesInv
<1>2. QED
  BY <1>1, PlacesInvariant, PTL

\* No continuation of a record in the tree overwrites another one of its block
\* or runs out of the block, in any history of additions, removals, writing
\* and opening again, whatever image was parsed first.
THEOREM ContinuationsApart == Spec => []PlacesApart
<1>1. PlacesInv => PlacesApart
  <2> SUFFICES ASSUME PlacesInv, NEW r \in Placed
               PROVE  /\ Fits(ce[r])
                      /\ \A s \in Placed \ {r} :
                           ce[r].block = ce[s].block => ~Overlap(ce[r], ce[s])
    BY DEF PlacesApart
  <2>1. ASSUME NEW s \in Placed
        PROVE  /\ s \in Rec /\ HasPlace(ce[s])
               /\ ce[s].block \in 1..Len(blocks) /\ EntryOf(ce[s]) \in blocks[ce[s].block]
               /\ Apart(blocks[ce[s].block])
    BY DEF PlacesInv, Sound, Placed, Live, HasPlace
  <2>2. Fits(ce[r])
    BY <2>1 DEF Apart, Fits, EntryOf
  <2>3. ASSUME NEW s \in Placed \ {r}, ce[r].block = ce[s].block
        PROVE  ~Overlap(ce[r], ce[s])
    <3>1. EntryOf(ce[r]) # EntryOf(ce[s])
      BY <2>1, <2>3 DEF PlacesInv, Sound
    <3>2. ~Overlap(EntryOf(ce[r]), EntryOf(ce[s]))
      BY <2>1, <2>3, <3>1 DEF Apart
    <3>3. QED
      BY <3>2 DEF Overlap, EntryOf
  <2>4. QED
    BY <2>2, <2>3
<1>2. QED
  BY <1>1, PlacesInvariant, PTL

\* Every place in use is tracked in the list of continuation blocks.
THEOREM ContinuationsTracked == Spec => []PlacesTracked
<1>1. PlacesInv => PlacesTracked
  BY DEF PlacesInv, Sound, PlacesTracked, Placed, Live, HasPlace
<1>2. QED
  BY <1>1, PlacesInvariant, PTL


-----------------------------------------------------------------------------
(***************************************************************************)
(* What was written can be opened again.  A record without a block lies in *)
(* the system area of the image, at offset 0; only the "." record of the   *)
(* root, which the layout moves, and the CL records left behind by         *)
(* relocated directories are without one.                                  *)
(***************************************************************************)
InSystemArea(p) == \A r \in Rec : p[r].block = 0 => p[r].offset = 0 /\ p[r].length <= BlockSize
ShortContinuations == \A n \in Lengths : n <= BlockSize

ReadInv == PlacesInv /\ InSystemArea(ce) /\ ReadsBack

\* Whatever was parsed has a block.
LEMMA ParsedInArea ==
  ASSUME NEW c \in [Rec -> Place], NEW o \in Parse(c)
  PROVE  InSystemArea(Renumbered(c, o))
<1> DEFINE used == {c[q].block : q \in {r \in Rec : c[r] # NoCe}}
<1>1. PICK n \in Nat : n = Cardinality(used)
  <2>1. IsFiniteSet({r \in Rec : c[r] # NoCe})
    BY RecFinite, FS_Subset
  <2>2. [r \in {r \in Rec : c[r] # NoCe} |-> c[r].block]
          \in Surjection({r \in Rec : c[r] # NoCe}, used)
    BY DEF Surjection
  <2>3. IsFiniteSet(used)
    BY <2>1, <2>2, FS_Surjection
  <2>4. QED
    BY <2>3, FS_CardinalityType
<1>2. o \in [1..n -> used] /\ \A u \in used : \E k \in 1..n : o[k] = u
  BY <1>1 DEF Parse
<1>3. ASSUME NEW r \in Rec, Renumbered(c, o)[r].block = 0
      PROVE  Renumbered(c, o)[r].offset = 0 /\ Renumbered(c, o)[r].length <= BlockSize
  <2>1. CASE c[r] = NoCe
    BY <2>1, ContinuationAssumption DEF Renumbered, NoCe
  <2>2. CASE c[r] # NoCe
    <3> DEFINE k == CHOOSE k \in DOMAIN o : o[k] = c[r].block
    <3>1. \E j \in 1..n : o[j] = c[r].block
      BY <1>2, <2>2
    <3>2. k \in 1..n
      BY <1>2, <3>1
    <3>3. Renumbered(c, o)[r] = [c[r] EXCEPT !.block = k]
      BY <2>2 DEF Renumbered
    <3>4. Renumbered(c, o)[r].block = k
      <4> HIDE DEF k
      <4> QED BY <3>3 DEF Place
    <3>5. QED
      <4> HIDE DEF k
      <4> QED BY <1>3, <3>2, <3>4
  <2>3. QED
    BY <2>1, <2>2
<1>4. QED
  BY <1>3 DEF InSystemArea

LEMMA ReadInit == Init => ReadInv
<1> SUFFICES ASSUME Init PROVE InSystemArea(ce) /\ ReadsBack
  BY InitInv DEF ReadInv
<1>1. ReadsBack
  BY DEF Init, ReadsBack
<1>2. CASE ce = [r \in Rec |-> IF r = Er THEN [NoCe EXCEPT !.length = ErLength] ELSE NoCe]
  <2>1. ASSUME NEW r \in Rec PROVE ce[r].offset = 0 /\ ce[r].length <= BlockSize
    BY <1>2, ContinuationAssumption DEF NoCe
  <2>2. QED
    BY <1>1, <2>1 DEF InSystemArea
<1>3. ASSUME NEW p \in [Dir \cup File -> {NoCe} \cup ForeignPlace],
             NEW at \in 0..(BlockSize - ErLength),
             NEW o \in Parse(ForeignTree(p, at)),
             ce = Renumbered(ForeignTree(p, at), o)
      PROVE  InSystemArea(ce)
  <2>1. ForeignTree(p, at) \in [Rec -> Place]
    <3>1. ASSUME NEW r \in Rec PROVE ForeignTree(p, at)[r] \in Place
      <4>1. CASE r = Er
        BY <4>1, ContinuationAssumption DEF ForeignTree, Place
      <4>2. CASE r \in Fake /\ r # Er
        BY <4>2, PlaceTypes DEF ForeignTree
      <4>3. CASE r \in Dir \cup File
        <5>1. ForeignTree(p, at)[r] = p[r]
          BY <4>3, ContinuationAssumption DEF ForeignTree
        <5>2. p[r] = NoCe \/ p[r] \in ForeignPlace
          BY <4>3
        <5>3. \A q \in ForeignPlace : q \in Place
          BY ForeignPlaces
        <5>4. QED
          BY <5>1, <5>2, <5>3, PlaceTypes
      <4>4. QED
        BY <4>1, <4>2, <4>3 DEF Rec
    <3>2. QED
      BY <3>1 DEF ForeignTree
  <2>2. QED
    BY <1>3, <2>1, ParsedInArea
<1>4. QED
  BY <1>1, <1>2, <1>3 DEF Init

\* An image that does not parse has two records in the system area.
LEMMA OnlyCopiesOverlap ==
  ASSUME PlacesInv, InSystemArea(ce), \A r \in Live : ce[r].offset # -1,
         NEW c, c = [r \in Rec |-> IF r \in Live THEN OnImage(r) ELSE NoCe], ~Parses(c)
  PROVE  Cardinality({d \in Dir : Cl(d) \in Live /\ ce[Cl(d)].block = 0}) > 1
<1>1. ce \in [Rec -> Place] /\ blocks \in Seq(SUBSET Entry)
  BY DEF PlacesInv, TypeOK
<1>2. ASSUME NEW r \in Live, ce[r].block # 0
      PROVE  /\ HasPlace(ce[r]) /\ ce[r].block \in 1..Len(blocks)
             /\ EntryOf(ce[r]) \in blocks[ce[r].block] /\ Apart(blocks[ce[r].block])
  <2>1. r \in Rec /\ HasPlace(ce[r])
    BY <1>2 DEF Live, HasPlace
  <2>2. QED
    BY <2>1 DEF PlacesInv, Sound
<1>3. ASSUME NEW r \in Live PROVE Fits(ce[r])
  <2>1. CASE ce[r].block = 0
    BY <1>1, <2>1 DEF InSystemArea, Fits, Live, Place
  <2>2. CASE ce[r].block # 0
    BY <1>2, <2>2 DEF Apart, Fits, EntryOf
  <2>3. QED
    BY <2>1, <2>2
<1>4. /\ \A r \in Rec : r \notin Live => c[r] = NoCe
      /\ \A r \in Live : c[r].offset = ce[r].offset /\ c[r].length = ce[r].length
      /\ \A r \in Live \ {Er} : c[r].block = ce[r].block
      /\ Er \in Live => c[Er].block = Len(blocks) + 1
  BY <1>1 DEF Live, OnImage, ErBlock, Place
<1>5. \A r \in Rec : c[r] # NoCe => Fits(c[r])
  BY <1>3, <1>4 DEF Fits
<1>6. PICK r \in Live, s \in Live : r # s /\ c[r].block = c[s].block /\ Overlap(c[r], c[s])
  BY <1>4, <1>5 DEF Parses, Live
<1>7. ASSUME NEW q \in Live \ {Er} PROVE c[q].block # Len(blocks) + 1
  <2>1. Len(blocks) \in Nat
    BY <1>1
  <2>2. QED
    BY <1>2, <1>4, <2>1
<1>8. r # Er /\ s # Er
  BY <1>4, <1>6, <1>7
<1>9. ce[r].block = ce[s].block /\ Overlap(ce[r], ce[s])
  BY <1>4, <1>6, <1>8 DEF Overlap
<1>10. ce[r].block = 0
  <2> SUFFICES ASSUME ce[r].block # 0 PROVE FALSE
    OBVIOUS
  <2>1. EntryOf(ce[r]) # EntryOf(ce[s])
    BY <1>2, <1>6, <1>9 DEF PlacesInv, Sound, Live
  <2>2. ~Overlap(EntryOf(ce[r]), EntryOf(ce[s]))
    BY <1>2, <1>9, <2>1 DEF Apart
  <2>3. QED
    BY <1>9, <2>2 DEF Overlap, EntryOf
<1>11. ASSUME NEW q \in Live \ {Er}, ce[q].block = 0 PROVE \E d \in Dir : q = Cl(d)
  <2>1. q \notin Dir \cup File
    BY <1>1, <1>11 DEF PlacesInv, Sound, Live
  <2>2. QED
    BY <1>11, <2>1 DEF Live, Rec, Fake
<1>12. PICK d \in Dir, e \in Dir : r = Cl(d) /\ s = Cl(e)
  BY <1>8, <1>9, <1>10, <1>11
<1> DEFINE S == {q \in Dir : Cl(q) \in Live /\ ce[Cl(q)].block = 0}
<1>13. d \in S /\ e \in S /\ d # e
  BY <1>6, <1>9, <1>10, <1>12
<1>14. IsFiniteSet(S)
  BY FS_Subset, ContinuationAssumption
<1>15. Cardinality({d, e}) = 2
  <2>1. IsFiniteSet({d}) /\ Cardinality({d}) = 1
    BY FS_Singleton
  <2>2. Cardinality({d} \cup {e}) = IF e \in {d} THEN Cardinality({d}) ELSE Cardinality({d}) + 1
    BY ONLY <2>1, FS_AddElement, Zenon
  <2>3. {d} \cup {e} = {d, e}
    OBVIOUS
  <2>4. QED
    BY <1>13, <2>1, <2>2, <2>3
<1>16. Cardinality({d, e}) <= Cardinality(S) /\ Cardinality(S) \in Nat
  BY <1>13, <1>14, FS_Subset, FS_CardinalityType
<1>17. QED
  BY <1>15, <1>16

LEMMA ReadReopen ==
  ASSUME ReadInv, Reopen
  PROVE  InSystemArea(ce)' /\ ReadsBack'
<1> DEFINE c == [r \in Rec |-> IF r \in Live THEN OnImage(r) ELSE NoCe]
<1>1. c \in [Rec -> Place]
  <2>1. ce \in [Rec -> Place] /\ blocks \in Seq(SUBSET Entry)
    BY DEF ReadInv, PlacesInv, TypeOK
  <2>2. Len(blocks) + 1 \in Nat
    BY <2>1
  <2>3. ASSUME NEW r \in Rec PROVE c[r] \in Place
    <3>1. ce[r] \in Place
      BY <2>1
    <3>2. [ce[r] EXCEPT !.block = Len(blocks) + 1] \in Place
      BY <2>2, <3>1 DEF Place
    <3>3. QED
      BY <3>1, <3>2, PlaceTypes DEF OnImage, ErBlock
  <2>4. QED
    BY <2>3
<1>2. InSystemArea(ce')
  <2>1. CASE UNCHANGED ce
    BY <2>1 DEF ReadInv
  <2>2. ASSUME NEW o \in Parse(c), ce' = Renumbered(c, o) PROVE InSystemArea(ce')
    <3> HIDE DEF c
    <3> QED BY <1>1, <2>2, ParsedInArea
  <2>3. UNCHANGED ce \/ \E o \in Parse(c) : ce' = Renumbered(c, o)
    BY DEF Reopen
  <2>4. QED
    BY <2>1, <2>2, <2>3
<1>3. ReadsBack'
  <2>1. SUFFICES ASSUME raised' = "overlap"
                 PROVE  Cardinality({d \in Dir : Cl(d) \in Live /\ ce[Cl(d)].block = 0})' > 1
    BY DEF ReadsBack
  <2>2. (\A r \in Live : ce[r].offset # -1) /\ ~Parses(c) /\ UNCHANGED ce
    BY <2>1 DEF Reopen
  <2>3. Cardinality({d \in Dir : Cl(d) \in Live /\ ce[Cl(d)].block = 0}) > 1
    <3> HIDE DEF c
    <3>1. c = [r \in Rec |-> IF r \in Live THEN OnImage(r) ELSE NoCe]
      BY DEF c
    <3> QED BY <2>2, <3>1, OnlyCopiesOverlap DEF ReadInv
  <2>4. Live' = Live
    BY <2>2 DEF Live
  <2>5. QED
    BY <2>2, <2>3, <2>4
<1>4. QED
  BY <1>2, <1>3 DEF InSystemArea

\* What is written can be opened again, whatever was added, removed and
\* relocated before: pycdlib refuses its own image only when two relocated
\* directories left CL records without a place.  A continuation is taken to
\* be no longer than a block.
THEOREM ReadsBackAlways == ASSUME ShortContinuations PROVE Spec => []ReadsBack
<1>1. ASSUME ReadInv, [Next]_vars PROVE ReadInv'
  <2>1. PlacesInv'
    BY <1>1, PlacesStep DEF ReadInv
  <2>2. InSystemArea(ce)' /\ ReadsBack'
    <3>1. ce \in [Rec -> Place] /\ InSystemArea(ce)
      BY <1>1 DEF ReadInv, PlacesInv, TypeOK
    <3>2. ASSUME NEW r \in Rec, NEW n \in Lengths, Add(r, n)
          PROVE  InSystemArea(ce)' /\ ReadsBack'
      <4>1. ce' = [ce EXCEPT ![r] = PlaceOf(n)] /\ PlaceOf(n).block = 1 /\ raised' = "none"
        BY <3>2 DEF Add, PlaceOf
      <4>2. QED
        BY <3>1, <4>1 DEF InSystemArea, ReadsBack
    <3>3. ASSUME NEW d \in Dir, NEW n \in Lengths, AddRelocated(d, n)
          PROVE  InSystemArea(ce)' /\ ReadsBack'
      <4> DEFINE p == [NoCe EXCEPT !.length = n]
      <4>1. /\ ce' = [ce EXCEPT ![d] = PlaceOf(n), ![Cl(d)] = p]
            /\ PlaceOf(n).block = 1 /\ raised' = "none"
        BY <3>3 DEF AddRelocated, PlaceOf
      <4>2. p.offset = 0 /\ p.length <= BlockSize
        BY DEF NoCe, ShortContinuations
      <4>3. QED
        <5> HIDE DEF p
        <5> QED BY <3>1, <4>1, <4>2 DEF InSystemArea, ReadsBack
    <3>4. ASSUME NEW d \in Dir, RmDirectory(d) PROVE InSystemArea(ce)' /\ ReadsBack'
      <4>1. ce' = [ce EXCEPT ![d] = NoCe, ![Cl(d)] = NoCe] /\ raised' # "overlap"
        BY <3>4 DEF RmDirectory
      <4>2. NoCe.offset = 0 /\ NoCe.length <= BlockSize
        BY ContinuationAssumption DEF NoCe
      <4>3. QED
        BY <3>1, <4>1, <4>2 DEF InSystemArea, ReadsBack
    <3>5. ASSUME NEW f \in File, RmFile(f) PROVE InSystemArea(ce)' /\ ReadsBack'
      <4>1. ce' = [ce EXCEPT ![f] = NoCe] /\ raised' = "none"
        BY <3>5 DEF RmFile
      <4>2. NoCe.offset = 0 /\ NoCe.length <= BlockSize
        BY ContinuationAssumption DEF NoCe
      <4>3. QED
        BY <3>1, <4>1, <4>2 DEF InSystemArea, ReadsBack
    <3>6. CASE Reopen
      BY <1>1, <3>6, ReadReopen
    <3>7. CASE UNCHANGED vars
      BY <1>1, <3>7 DEF ReadInv, InSystemArea, ReadsBack, Live, vars
    <3>8. QED
      BY <1>1, <3>2, <3>3, <3>4, <3>5, <3>6, <3>7 DEF Next
  <2>3. QED
    BY <2>1, <2>2 DEF ReadInv
<1>2. ReadInv => ReadsBack
  BY DEF ReadInv
<1>3. QED
  BY <1>1, <1>2, ReadInit, PTL DEF Spec
=============================================================================
