-------------------------- MODULE HardLinksProofs --------------------------
(***************************************************************************)
(* Proofs about HardLinks, for every set of inodes, records and paths and  *)
(* every set of circumstances; and the invariant for a careful client, one *)
(* that avoids all the circumstances and adds no file of several segments  *)
(* to an image with UDF.  It holds at every step of a call, not only       *)
(* between calls; every step of a careful client keeps it, and between     *)
(* calls it implies that the links match the listings, that the data on    *)
(* the image is the data that is named, and that the space charged is the  *)
(* space needed: what the library promises such a client.                  *)
(***************************************************************************)
EXTENDS HardLinks, FiniteSetTheorems, SequenceTheorems, TLAPS

\* How the objects hang together, whatever the client does.
ListedAtHome == \A p \in Path : \A r \in Elements(listing[p]) : home[r] = p
ChainsHaveHomes == \A r \in Rec : cont[r] # None => cont[r] # r /\ home[cont[r]] # None
LinksHaveHomes == \A i \in Data : \A r \in linked[i] : ino[r] = i /\ home[r] # None
CatalogHasHomes == \A r \in Elements(boot.recs) : home[r] # None /\ ino[r] = None
CurHasHome == call.cur # None => home[call.cur] # None
QueueIsCatalog == Elements(call.queue) \subseteq Elements(boot.recs)
CatalogItems ==
  call.cat => /\ call.segs = <<>>
              /\ \A k \in 1..Len(call.todo) : call.todo[k].ino = None

Hangs ==
  /\ ListedAtHome /\ ChainsHaveHomes /\ LinksHaveHomes /\ CatalogHasHomes
  /\ CurHasHome /\ QueueIsCatalog /\ CatalogItems

TypeInv == TypeOK /\ Hangs

-----------------------------------------------------------------------------
(* The sequences a call is made of. *)

PathOrNone == Path \cup {None}
InoOrNone == Data \cup {None}

LEMMA GivenType ==
  ASSUME NEW p \in PathOrNone
  PROVE  Given(p) \in Seq(Path) /\ Given(p) \in Seq(PathOrNone)
<1>1. p # None => p \in Path
  BY DEF PathOrNone
<1>2. /\ <<>> \in Seq(Path) /\ <<>> \in Seq(PathOrNone)
      /\ p # None => <<p>> \in Seq(Path) /\ <<p>> \in Seq(PathOrNone)
  BY <1>1
<1>3. QED
  BY <1>2 DEF Given

LEMMA ItemsType ==
  ASSUME NEW ps \in Seq(PathOrNone), NEW i \in InoOrNone, i # None \/ ps \in Seq(Path)
  PROVE  /\ Items(ps, i) \in Seq(Item)
         /\ Len(Items(ps, i)) = Len(ps)
         /\ \A k \in 1..Len(Items(ps, i)) :
              Items(ps, i)[k].path = ps[k] /\ Items(ps, i)[k].ino = i
<1>1. \A k \in 1..Len(ps) : ps[k] \in PathOrNone /\ (i # None \/ ps[k] # None)
  BY HardLinksAssumption DEF PathOrNone
<1>2. \A k \in 1..Len(ps) : [path |-> ps[k], ino |-> i] \in Item
  BY <1>1 DEF Item, PathOrNone, InoOrNone
<1>3. Items(ps, i) \in [1..Len(ps) -> Item]
  BY <1>2 DEF Items
<1>4. QED
  BY <1>3 DEF Items

LEMMA TripleType ==
  ASSUME NEW s \in PathTriple
  PROVE  s[1] \in PathOrNone /\ s[2] \in PathOrNone /\ s[3] \in PathOrNone
BY DEF PathTriple, PathOrNone, Path

LEMMA TargetsType == Targets \subseteq PathTriple
BY DEF Targets

LEMMA NamesType ==
  ASSUME NEW s \in Targets
  PROVE  Names(s) \in Seq(Path) /\ Names(s) \in Seq(PathOrNone)
<1>1. /\ Given(s[1]) \in Seq(Path) /\ Given(s[2]) \in Seq(Path)
      /\ Given(s[3]) \in Seq(Path)
  BY TargetsType, TripleType, GivenType
<1>2. Names(s) \in Seq(Path)
  BY <1>1, ConcatProperties DEF Names
<1>3. QED
  BY <1>2, SeqMonotonic DEF PathOrNone

LEMMA WorkType ==
  ASSUME NEW f \in Seq(Data), f # <<>>, NEW s \in PathTriple
  PROVE  Work(f, s) \in Seq(Item)
<1>1. /\ Given(s[1]) \in Seq(PathOrNone) /\ Given(s[2]) \in Seq(PathOrNone)
      /\ Given(s[3]) \in Seq(PathOrNone)
  BY TripleType, GivenType
<1>2. <<None>> \in Seq(PathOrNone) /\ <<>> \in Seq(PathOrNone)
  BY DEF PathOrNone
<1>3. Head(f) \in InoOrNone
  BY HeadTailProperties DEF InoOrNone
<1> DEFINE last == IF Len(f) = 1 THEN Given(s[3]) ELSE <<>>
<1>4. last \in Seq(PathOrNone)
  BY <1>1, <1>2
<1>5. Given(s[1]) \o Given(s[2]) \o <<None>> \o last \in Seq(PathOrNone)
  <2> HIDE DEF last
  <2>1. QED
    BY <1>1, <1>2, <1>4, ConcatProperties
<1>6. Head(f) # None
  BY HeadTailProperties, HardLinksAssumption
<1>7. QED
  BY <1>3, <1>5, <1>6, ItemsType DEF Work

LEMMA ContentsType ==
  ASSUME NEW f \in Contents
  PROVE  /\ f \in Seq(Data) /\ f # <<>> /\ Tail(f) \in Seq(Data)
         /\ Elements(f) \subseteq Data
<1>1. f \in Seq(Data) /\ f # <<>>
  <2>1. f \in BigFiles => f \in Seq(Data) /\ Len(f) > 1
    BY HardLinksAssumption
  <2>2. f \in BigFiles \/ \E i \in Data : f = <<i>>
    BY DEF Contents
  <2>3. CASE f \in BigFiles
    BY <2>1, <2>3
  <2>4. ASSUME NEW i \in Data, f = <<i>> PROVE f \in Seq(Data) /\ f # <<>>
    BY <2>4
  <2>5. QED
    BY <2>2, <2>3, <2>4
<1>2. QED
  BY <1>1, HeadTailProperties DEF Elements

LEMMA InsertType ==
  ASSUME NEW s \in Seq(Rec), NEW r \in Rec, NEW p \in Path
  PROVE  Insert(s, r, p) \in Seq(Rec) /\ Elements(Insert(s, r, p)) = Elements(s) \cup {r}
<1>1. CASE Insert(s, r, p) = Append(s, r)
  BY <1>1 DEF Elements
<1>2. CASE s # <<>> /\ Insert(s, r, p) = <<Head(s), r>> \o Tail(s)
  <2>1. /\ Head(s) = s[1] /\ Tail(s) \in Seq(Rec) /\ Len(Tail(s)) = Len(s) - 1
        /\ \A k \in 1..Len(Tail(s)) : Tail(s)[k] = s[k + 1]
        /\ Len(s) \in Nat \ {0} /\ s[1] \in Rec
    BY <1>2, HeadTailProperties, EmptySeq
  <2>2. <<Head(s), r>> \in Seq(Rec) /\ Len(<<Head(s), r>>) = 2
    BY <2>1
  <2> DEFINE t == <<Head(s), r>> \o Tail(s)
  <2>3. /\ t \in Seq(Rec) /\ Len(t) = Len(s) + 1
        /\ t[1] = s[1] /\ t[2] = r /\ \A k \in 3..(Len(s) + 1) : t[k] = s[k - 1]
    BY <2>1, <2>2, ConcatProperties
  <2>4. Elements(t) = Elements(s) \cup {r}
    <3> HIDE DEF t
    <3>1. ASSUME NEW k \in 1..Len(t) PROVE t[k] \in Elements(s) \cup {r}
      BY <2>1, <2>3 DEF Elements
    <3>2. ASSUME NEW k \in 1..Len(s) PROVE s[k] \in Elements(t)
      <4>1. CASE k = 1
        BY <2>1, <2>3, <4>1 DEF Elements
      <4>2. CASE k # 1
        <5>1. k + 1 \in 3..(Len(s) + 1) /\ k + 1 \in 1..Len(t)
          BY <2>1, <2>3, <4>2
        <5>2. t[k + 1] = s[k]
          BY <2>3, <5>1
        <5>3. QED
          BY <5>1, <5>2 DEF Elements
      <4>3. QED
        BY <4>1, <4>2
    <3>3. r \in Elements(t)
      BY <2>1, <2>3 DEF Elements
    <3>4. QED
      BY <3>1, <3>2, <3>3 DEF Elements
  <2>5. QED
    BY <1>2, <2>3, <2>4
<1>3. QED
  BY <1>1, <1>2 DEF Insert

LEMMA WithoutType ==
  ASSUME NEW s \in Seq(Rec), NEW x \in Elements(s)
  PROVE  Without(s, x) \in Seq(Rec) /\ Elements(Without(s, x)) \subseteq Elements(s)
<1> DEFINE k == CHOOSE n \in 1..Len(s) : s[n] = x
<1>1. k \in 1..Len(s) /\ s[k] = x /\ Len(s) \in Nat
  BY DEF Elements
<1> HIDE DEF k
<1> DEFINE a == SubSeq(s, 1, k - 1)
           b == SubSeq(s, k + 1, Len(s))
<1>2. /\ a \in Seq(Elements(s)) /\ b \in Seq(Elements(s))
  <2>1. \A i \in 1..(k - 1) : s[i] \in Elements(s)
    BY <1>1 DEF Elements
  <2>2. \A i \in (k + 1)..Len(s) : s[i] \in Elements(s)
    BY <1>1 DEF Elements
  <2>3. QED
    BY <1>1, <2>1, <2>2, SubSeqProperties
<1> HIDE DEF a, b
<1>3. a \o b \in Seq(Elements(s))
  BY <1>2, ConcatProperties
<1>4. Without(s, x) = a \o b
  BY DEF Without, a, b, k
<1>5. Elements(s) \subseteq Rec
  BY DEF Elements
<1>6. Without(s, x) \in Seq(Rec)
  BY <1>3, <1>4, <1>5, SeqMonotonic, Zenon
<1>7. Without(s, x) \in Seq(Elements(s))
  BY <1>3, <1>4
<1>8. \A i \in 1..Len(Without(s, x)) : Without(s, x)[i] \in Elements(s)
  BY <1>7, ElementOfSeq
<1>9. QED
  BY <1>6, <1>8 DEF Elements

-----------------------------------------------------------------------------
(* The ledger and the idle call. *)

LEMMA LedgerTypes ==
  /\ NoCharge \in Ledger
  /\ \A a, b \in Ledger : Merge(a, b) \in Ledger
BY DEF NoCharge, Ledger, Merge

LEMMA IdleType ==
  /\ Idle \in Call /\ Idle.op = "idle" /\ Idle.cur = None /\ Idle.queue = <<>>
  /\ Idle.cat = FALSE /\ Idle.todo = <<>>
<1>1. NoPaths \in PathTriple
  BY DEF NoPaths, PathTriple
<1>2. QED
  BY <1>1, LedgerTypes DEF Idle, Call

\* The parts of TypeOK a request can disturb, and those it cannot.
LEMMA RequestKeeps ==
  ASSUME TypeInv, UNCHANGED <<tree, links>>,
         call' \in Call, boot' \in Catalog, brs' \in Int, space' \in Ledger,
         raised' \in {"none", "invalid", "internal"},
         Elements(boot'.recs) \subseteq Elements(boot.recs),
         CurHasHome', QueueIsCatalog', CatalogItems'
  PROVE  TypeInv'
<1>1. TypeOK'
  BY DEF TypeInv, TypeOK, tree, links
<1>2. ListedAtHome' /\ ChainsHaveHomes' /\ LinksHaveHomes'
  BY DEF TypeInv, Hangs, ListedAtHome, ChainsHaveHomes, LinksHaveHomes, tree, links
<1>3. CatalogHasHomes'
  BY DEF TypeInv, Hangs, CatalogHasHomes, tree, links
<1>4. QED
  BY <1>1, <1>2, <1>3 DEF TypeInv, Hangs

\* A call that has no record in hand and none queued.
LEMMA NoRecordInHand ==
  ASSUME call'.cur = None, call'.queue = <<>>,
         call'.cat => /\ call'.segs = <<>>
                      /\ \A k \in 1..Len(call'.todo) : call'.todo[k].ino = None
  PROVE  CurHasHome' /\ QueueIsCatalog' /\ CatalogItems'
BY DEF CurHasHome, QueueIsCatalog, CatalogItems, Elements

LEMMA LookupType ==
  ASSUME TypeOK, NEW p \in Path, Exists(p)
  PROVE  Lookup(p) \in Rec /\ Lookup(p) \in Elements(listing[p])
<1>1. listing[p] \in Seq(Rec) /\ listing[p] # <<>>
  BY DEF TypeOK, Exists
<1>2. Lookup(p) = listing[p][1] /\ 1 \in 1..Len(listing[p])
  BY <1>1, EmptySeq DEF Lookup
<1>3. QED
  BY <1>1, <1>2, ElementOfSeq DEF Elements

LEMMA AddFpType ==
  ASSUME TypeInv, NEW f \in Contents, NEW s \in Targets, AddFp(f, s)
  PROVE  TypeInv'
<1>1. /\ Work(f, s) \in Seq(Item) /\ Tail(f) \in Seq(Data) /\ Elements(f) \in SUBSET Data
      /\ s \in PathTriple
  BY ContentsType, TargetsType, WorkType
<1> DEFINE data == [i \in Data |-> IF i \in Elements(f) THEN 1 ELSE 0]
<1>2. [NoCharge EXCEPT !.data = data] \in Ledger
  BY LedgerTypes DEF Ledger, NoCharge
<1> HIDE DEF data
<1>3. call' = [Idle EXCEPT !.op = "add", !.new = Elements(f), !.paths = s,
                 !.todo = Work(f, s), !.segs = Tail(f),
                 !.acc = [NoCharge EXCEPT !.data = data]]
  BY DEF AddFp, Start, Idle, data
<1>4. call' \in Call /\ call'.cur = None /\ call'.queue = <<>> /\ ~call'.cat
  BY <1>1, <1>2, <1>3, IdleType DEF Call, Idle
<1>5. UNCHANGED <<tree, links, boot, brs, space>> /\ raised' = "none"
  BY DEF AddFp, Start
<1>6. boot' \in Catalog /\ brs' \in Int /\ space' \in Ledger
  BY <1>5 DEF TypeInv, TypeOK
<1>7. QED
  BY <1>4, <1>5, <1>6, NoRecordInHand, RequestKeeps

LEMMA OneItem ==
  ASSUME NEW p \in Path, NEW i \in InoOrNone
  PROVE  /\ Items(<<p>>, i) \in Seq(Item)
         /\ \A k \in 1..Len(Items(<<p>>, i)) : Items(<<p>>, i)[k].ino = i
<1>1. <<p>> \in Seq(PathOrNone) /\ <<p>> \in Seq(Path)
  BY DEF PathOrNone
<1>2. QED
  BY <1>1, ItemsType, Zenon

LEMMA AddHardLinkType ==
  ASSUME TypeInv, NEW old \in Path, NEW new \in Path, AddHardLink(old, new)
  PROVE  TypeInv'
<1>1. ino[Lookup(old)] \in InoOrNone
  BY LookupType DEF AddHardLink, TypeInv, TypeOK, InoOrNone
<1>2. Items(<<new>>, ino[Lookup(old)]) \in Seq(Item)
  BY <1>1, OneItem
<1>3. call' \in Call /\ call'.cur = None /\ call'.queue = <<>> /\ ~call'.cat
  BY <1>2, IdleType DEF AddHardLink, Start, Call, Idle
<1>4. QED
  BY <1>3, NoRecordInHand, RequestKeeps DEF AddHardLink, Start, TypeInv, TypeOK

LEMMA LinkBootCatalogType ==
  ASSUME TypeInv, NEW new \in Path, LinkBootCatalog(new)
  PROVE  TypeInv'
<1>1. /\ Items(<<new>>, None) \in Seq(Item)
      /\ \A k \in 1..Len(Items(<<new>>, None)) : Items(<<new>>, None)[k].ino = None
  BY OneItem DEF InoOrNone
<1>2. /\ call' \in Call /\ call'.cur = None /\ call'.queue = <<>>
      /\ call'.todo = Items(<<new>>, None) /\ call'.segs = <<>>
  BY <1>1, IdleType DEF LinkBootCatalog, Start, Call, Idle
<1>3. CurHasHome' /\ QueueIsCatalog' /\ CatalogItems'
  BY <1>1, <1>2, NoRecordInHand
<1>4. UNCHANGED <<tree, links, boot, brs, space>> /\ raised' = "none"
  BY DEF LinkBootCatalog, Start
<1>5. boot' \in Catalog /\ brs' \in Int /\ space' \in Ledger
  BY <1>4 DEF TypeInv, TypeOK
<1>6. QED
  BY <1>2, <1>3, <1>4, <1>5, RequestKeeps

LEMMA AddEltoritoType ==
  ASSUME TypeInv, NEW old \in IsoPath, NEW s \in Targets, AddEltorito(old, s)
  PROVE  TypeInv'
<1>1. ino[Lookup(old)] \in Data
  BY LookupType DEF AddEltorito, TypeInv, TypeOK, Path
<1>2. boot' \in Catalog /\ Elements(boot'.recs) = {}
  BY <1>1 DEF AddEltorito, Catalog, Elements
<1>3. /\ Items(Names(s), None) \in Seq(Item)
      /\ \A k \in 1..Len(Items(Names(s), None)) : Items(Names(s), None)[k].ino = None
  <2>1. None \in InoOrNone
    BY DEF InoOrNone
  <2>2. QED
    BY <2>1, NamesType, ItemsType, Zenon
<1> DEFINE n == IF HasUdf THEN 1 ELSE 2
<1>4. [NoCharge EXCEPT !.misc = n] \in Ledger
  BY LedgerTypes DEF Ledger, NoCharge
<1> HIDE DEF n
<1>5. call' = [Idle EXCEPT !.op = "add", !.cat = TRUE, !.dirty = TRUE,
                 !.todo = Items(Names(s), None), !.acc = [NoCharge EXCEPT !.misc = n]]
  BY DEF AddEltorito, Start, Idle, n
<1>6. /\ call' \in Call /\ call'.cur = None /\ call'.queue = <<>>
      /\ call'.todo = Items(Names(s), None) /\ call'.segs = <<>>
  BY <1>3, <1>4, <1>5, IdleType DEF Call, Idle
<1>7. CurHasHome' /\ QueueIsCatalog' /\ CatalogItems'
  BY <1>3, <1>6, NoRecordInHand
<1>8. QED
  BY <1>2, <1>6, <1>7, RequestKeeps DEF AddEltorito, Start, TypeInv, TypeOK

LEMMA AddSectionType ==
  ASSUME TypeInv, NEW old \in IsoPath, AddSection(old)
  PROVE  TypeInv'
<1>1. ino[Lookup(old)] \in Data
  BY LookupType DEF AddSection, TypeInv, TypeOK, Path
<1>2. boot' \in Catalog /\ boot'.recs = boot.recs
  <2>1. boot \in Catalog /\ boot.entries \in Seq(Data)
    BY DEF TypeInv, TypeOK, Catalog
  <2>2. Append(boot.entries, ino[Lookup(old)]) \in Seq(Data)
    BY <1>1, <2>1
  <2>3. boot' = [boot EXCEPT !.entries = Append(boot.entries, ino[Lookup(old)])]
    BY DEF AddSection
  <2>4. QED
    BY <2>1, <2>2, <2>3 DEF Catalog
<1>3. call' \in Call /\ call'.cur = None /\ call'.queue = <<>> /\ ~call'.cat
  BY IdleType DEF AddSection, Start, Call, Idle
<1>4. UNCHANGED <<tree, links, brs, space>> /\ raised' = "none"
  BY DEF AddSection, Start
<1>5. brs' \in Int /\ space' \in Ledger
  BY <1>4 DEF TypeInv, TypeOK
<1>6. QED
  BY <1>2, <1>3, <1>4, <1>5, NoRecordInHand, RequestKeeps

\* A listed record has a home.
LEMMA ListedHasHome ==
  ASSUME TypeInv, NEW p \in Path, Exists(p)
  PROVE  Lookup(p) \in Rec /\ home[Lookup(p)] = p /\ p # None
BY LookupType, HardLinksAssumption DEF TypeInv, Hangs, ListedAtHome

LEMMA RmHardLinkType ==
  ASSUME TypeInv, NEW p \in Path, RmHardLink(p)
  PROVE  TypeInv'
<1>1. Lookup(p) \in Rec /\ home[Lookup(p)] # None
  BY ListedHasHome DEF RmHardLink
<1>2. /\ call' \in Call /\ call'.cur = Lookup(p) /\ call'.queue = <<>> /\ ~call'.cat
  BY <1>1, IdleType DEF RmHardLink, Start, Call, Idle, Removing
<1>3. UNCHANGED <<tree, links, boot, brs, space>> /\ raised' = "none"
  BY DEF RmHardLink, Start
<1>4. boot' \in Catalog /\ brs' \in Int /\ space' \in Ledger
  BY <1>3 DEF TypeInv, TypeOK
<1>5. CurHasHome' /\ QueueIsCatalog' /\ CatalogItems'
  BY <1>1, <1>2, <1>3 DEF CurHasHome, QueueIsCatalog, CatalogItems, Elements, tree
<1>6. QED
  BY <1>2, <1>3, <1>4, <1>5, RequestKeeps

LEMMA RmFileType ==
  ASSUME TypeInv, NEW p \in Path, RmFile(p)
  PROVE  TypeInv'
<1>1. Lookup(p) \in Rec /\ home[Lookup(p)] # None
  BY ListedHasHome DEF RmFile
<1>2. ino[Lookup(p)] \in InoOrNone
  BY <1>1 DEF TypeInv, TypeOK, InoOrNone
<1>3. /\ call' \in Call /\ call'.cur \in {Lookup(p), None} /\ call'.queue = <<>> /\ ~call'.cat
  BY <1>1, <1>2, IdleType DEF RmFile, Start, Call, Idle, Removing, InoOrNone
<1>4. UNCHANGED <<tree, links, boot, brs, space>> /\ raised' = "none"
  BY DEF RmFile, Start
<1>5. boot' \in Catalog /\ brs' \in Int /\ space' \in Ledger
  BY <1>4 DEF TypeInv, TypeOK
<1>6. CurHasHome' /\ QueueIsCatalog' /\ CatalogItems'
  BY <1>1, <1>3, <1>4 DEF CurHasHome, QueueIsCatalog, CatalogItems, Elements, tree
<1>7. QED
  BY <1>3, <1>4, <1>5, <1>6, RequestKeeps

LEMMA RmEltoritoType ==
  ASSUME TypeInv, RmEltorito
  PROVE  TypeInv'
<1>1. UNCHANGED <<tree, links, boot, space>>
  BY DEF RmEltorito, Raise, Start
<1>2. boot' \in Catalog /\ space' \in Ledger /\ boot.recs \in Seq(Rec)
  BY <1>1 DEF TypeInv, TypeOK, Catalog
<1>3. brs' \in Int /\ raised' \in {"none", "invalid", "internal"}
  BY DEF RmEltorito, Raise, Start, TypeInv, TypeOK
<1> DEFINE n == IF HasUdf THEN 0 ELSE -1
<1>4. [NoCharge EXCEPT !.misc = n] \in Ledger
  BY LedgerTypes DEF Ledger, NoCharge
<1> HIDE DEF n
<1>5. \/ call' = Idle
      \/ call' = [Idle EXCEPT !.op = "rm_eltorito", !.queue = boot.recs,
                             !.acc = [NoCharge EXCEPT !.misc = n]]
  BY DEF RmEltorito, Raise, Start, Idle, n
<1>6. /\ call' \in Call /\ call'.cur = None /\ ~call'.cat
      /\ call'.queue = <<>> \/ call'.queue = boot.recs
  <2>1. CASE call' = Idle
    BY <2>1, IdleType
  <2>2. CASE call' = [Idle EXCEPT !.op = "rm_eltorito", !.queue = boot.recs,
                                !.acc = [NoCharge EXCEPT !.misc = n]]
    BY <1>2, <1>4, <2>2, IdleType DEF Call, Idle, Removing
  <2>3. QED
    BY <1>5, <2>1, <2>2
<1>7. CurHasHome' /\ QueueIsCatalog' /\ CatalogItems'
  BY <1>1, <1>6 DEF CurHasHome, QueueIsCatalog, CatalogItems, Elements
<1>8. QED
  BY <1>1, <1>2, <1>3, <1>6, <1>7, RequestKeeps

-----------------------------------------------------------------------------
(* The steps of adding. *)

\* An object that is not in use is nowhere.
LEMMA FreshRecord ==
  ASSUME TypeInv, NEW r \in Rec, ~InUse(r)
  PROVE  /\ \A q \in Path : r \notin Elements(listing[q])
         /\ \A q \in Rec : q # r => cont[q] # r
         /\ \A i \in Data : r \notin linked[i]
         /\ r \notin Elements(boot.recs) /\ call.cur # r
<1>1. ASSUME NEW q \in Path, r \in Elements(listing[q]) PROVE FALSE
  <2>1. home[r] = q /\ q # None
    BY <1>1, HardLinksAssumption DEF TypeInv, Hangs, ListedAtHome
  <2>2. QED
    BY <1>1, <2>1 DEF InUse, Listed
<1>2. QED
  BY <1>1 DEF InUse, Held, Chained

LEMMA TodoType ==
  ASSUME TypeInv, call.todo # <<>>
  PROVE  /\ Head(call.todo).path \in PathOrNone /\ Head(call.todo).ino \in InoOrNone
         /\ Head(call.todo).path = None => Head(call.todo).ino \in Data
         /\ Tail(call.todo) \in Seq(Item)
         /\ call.cat => /\ Head(call.todo).ino = None
                       /\ \A k \in 1..Len(Tail(call.todo)) : Tail(call.todo)[k].ino = None
<1>1. call.todo \in Seq(Item)
  BY DEF TypeInv, TypeOK, Call
<1>2. /\ Head(call.todo) \in Item /\ Tail(call.todo) \in Seq(Item)
      /\ Head(call.todo) = call.todo[1] /\ 1 \in 1..Len(call.todo)
      /\ Len(Tail(call.todo)) = Len(call.todo) - 1
      /\ \A k \in 1..Len(Tail(call.todo)) : Tail(call.todo)[k] = call.todo[k + 1]
      /\ Len(call.todo) \in Nat
  BY <1>1, HeadTailProperties, EmptySeq
<1>3. \A k \in 1..Len(Tail(call.todo)) : k + 1 \in 1..Len(call.todo)
  BY <1>2
<1>4. /\ Head(call.todo).path \in PathOrNone /\ Head(call.todo).ino \in InoOrNone
      /\ Head(call.todo).path = None => Head(call.todo).ino \in Data
  BY <1>2 DEF Item, PathOrNone, InoOrNone
<1>5. QED
  BY <1>2, <1>3, <1>4 DEF TypeInv, Hangs, CatalogItems

LEMMA ChargeTypes ==
  ASSUME NEW c \in Ledger
  PROVE  /\ \A n \in Int : [c EXCEPT !.misc = @ + n] \in Ledger
         /\ \A i \in Data : [c EXCEPT !.fe[i] = @ + 1] \in Ledger
         /\ \A i \in Data : [c EXCEPT !.fe[i] = @ - 1] \in Ledger
         /\ \A i \in Data : [c EXCEPT !.data[i] = @ - 1] \in Ledger
BY DEF Ledger

LEMMA LinkType ==
  ASSUME TypeInv, NEW r \in Rec, Link(r)
  PROVE  TypeInv'
<1> DEFINE p == Head(call.todo).path
           i == Head(call.todo).ino
           udf == p \in UdfPath
           charge == IF ~udf THEN call.acc
                     ELSE IF i = None THEN [call.acc EXCEPT !.misc = @ + 1]
                     ELSE IF numUdf[i] = 0 THEN [call.acc EXCEPT !.fe[i] = @ + 1]
                     ELSE call.acc
<1>1. /\ call.todo # <<>> /\ p # None
      /\ ~InUse(r)
      /\ listing' = [listing EXCEPT ![p] = Insert(@, r, p)]
      /\ home' = [home EXCEPT ![r] = p]
      /\ ino' = [ino EXCEPT ![r] = i]
      /\ cont' = [q \in Rec |-> IF ~udf /\ Exists(p) /\ q = Lookup(p) THEN r
                               ELSE IF q = r THEN None ELSE cont[q]]
      /\ linked' = IF i = None THEN linked ELSE [linked EXCEPT ![i] = @ \cup {r}]
      /\ numUdf' = IF i = None \/ ~udf THEN numUdf ELSE [numUdf EXCEPT ![i] = @ + 1]
      /\ numFiles' = IF udf THEN numFiles + 1 ELSE numFiles
      /\ boot' = IF call.cat THEN [boot EXCEPT !.recs = Append(@, r)] ELSE boot
      /\ call' = [call EXCEPT !.todo = Tail(@), !.dirty = TRUE, !.acc = charge]
      /\ UNCHANGED <<inodes, brs, space, raised>>
  BY Zenon DEF Link
<1>2. p \in Path /\ i \in InoOrNone /\ Tail(call.todo) \in Seq(Item)
  BY <1>1, TodoType DEF PathOrNone
<1>3. TypeOK /\ call \in Call /\ call.acc \in Ledger /\ boot \in Catalog
  BY DEF TypeInv, TypeOK, Call
<1>4. charge \in Ledger
  <2>1. [call.acc EXCEPT !.misc = @ + 1] \in Ledger
    BY <1>3 DEF Ledger
  <2>2. ASSUME i # None PROVE [call.acc EXCEPT !.fe[i] = @ + 1] \in Ledger
    <3>1. i \in Data
      BY <1>2, <2>2 DEF InoOrNone
    <3>2. QED
      BY <1>3, <3>1, ChargeTypes, Zenon
  <2>3. QED
    BY <1>3, <2>1, <2>2
<1> HIDE DEF p, i, udf, charge
<1>5. /\ call' \in Call /\ call'.cur = call.cur /\ call'.queue = call.queue
      /\ call'.cat = call.cat /\ call'.todo = Tail(call.todo) /\ call'.segs = call.segs
  BY <1>1, <1>2, <1>3, <1>4 DEF Call
<1>6. /\ boot' \in Catalog
      /\ Elements(boot'.recs) = IF call.cat THEN Elements(boot.recs) \cup {r}
                               ELSE Elements(boot.recs)
  <2>1. boot.recs \in Seq(Rec)
    BY <1>3 DEF Catalog
  <2>2. Append(boot.recs, r) \in Seq(Rec)
        /\ Elements(Append(boot.recs, r)) = Elements(boot.recs) \cup {r}
    BY <2>1 DEF Elements
  <2>3. QED
    BY <1>1, <1>3, <2>1, <2>2 DEF Catalog
<1>7. /\ listing' \in [Path -> Seq(Rec)]
      /\ \A q \in Path : Elements(listing'[q]) =
           IF q = p THEN Elements(listing[q]) \cup {r} ELSE Elements(listing[q])
  <2>1. listing \in [Path -> Seq(Rec)]
    BY <1>3 DEF TypeOK
  <2>2. /\ Insert(listing[p], r, p) \in Seq(Rec)
        /\ Elements(Insert(listing[p], r, p)) = Elements(listing[p]) \cup {r}
    BY <1>2, <2>1, InsertType
  <2>3. QED
    BY <1>1, <1>2, <2>1, <2>2
<1>8. Exists(p) => Lookup(p) \in Rec /\ Lookup(p) # r
  BY <1>1, <1>2, <1>3, LookupType, FreshRecord
<1>9. TypeOK'
  <2>1. home' \in [Rec -> Path \cup {None}] /\ ino' \in [Rec -> Data \cup {None}]
    BY <1>1, <1>2, <1>3 DEF TypeOK, InoOrNone
  <2>2. cont' \in [Rec -> Rec \cup {None}]
    BY <1>1, <1>3 DEF TypeOK
  <2>3. linked' \in [Data -> SUBSET Rec] /\ numUdf' \in [Data -> Int] /\ numFiles' \in Int
    BY <1>1, <1>2, <1>3 DEF TypeOK, InoOrNone
  <2>4. QED
    BY <1>1, <1>3, <1>5, <1>6, <1>7, <2>1, <2>2, <2>3 DEF TypeOK
<1>10. ListedAtHome'
  <2>1. ASSUME NEW q \in Path, NEW x \in Elements(listing'[q])
        PROVE  home'[x] = q
    <3>1. CASE x = r
      <4>1. q = p
        BY <1>1, <1>7, <2>1, <3>1, FreshRecord
      <4>2. QED
        BY <1>1, <1>3, <3>1, <4>1 DEF TypeOK
    <3>2. CASE x # r
      <4>1. x \in Elements(listing[q])
        BY <1>7, <2>1, <3>2
      <4>2. home[x] = q /\ x \in Rec
        BY <1>3, <4>1 DEF TypeInv, Hangs, ListedAtHome, TypeOK, Elements
      <4>3. QED
        BY <1>1, <1>3, <3>2, <4>2 DEF TypeOK
    <3>3. QED
      BY <3>1, <3>2
  <2>2. QED
    BY <2>1 DEF ListedAtHome
<1>11. ChainsHaveHomes'
  BY <1>1, <1>3, <1>8, FreshRecord DEF ChainsHaveHomes, TypeInv, Hangs, TypeOK
<1>12. LinksHaveHomes'
  <2>1. ASSUME NEW j \in Data, NEW x \in linked'[j]
        PROVE  x \in linked[j] \/ (x = r /\ j = i)
    BY <1>1, <1>2, <1>3, <2>1 DEF TypeOK, InoOrNone
  <2>2. ASSUME NEW j \in Data, NEW x \in linked'[j]
        PROVE  ino'[x] = j /\ home'[x] # None
    <3>1. CASE x = r /\ j = i
      BY <1>1, <1>3, <3>1 DEF TypeOK
    <3>2. CASE x \in linked[j]
      BY <1>1, <1>3, <3>2, FreshRecord DEF TypeOK, TypeInv, Hangs, LinksHaveHomes
    <3>3. QED
      BY <2>1, <2>2, <3>1, <3>2
  <2>3. QED
    BY <2>2 DEF LinksHaveHomes
<1>13. CatalogHasHomes'
  <2>1. call.cat => i = None
    BY <1>1, TodoType DEF i
  <2>2. \A x \in Elements(boot.recs) : x # r /\ home[x] # None /\ ino[x] = None /\ x \in Rec
    BY <1>1, <1>3, FreshRecord DEF TypeInv, Hangs, CatalogHasHomes, Elements, Catalog
  <2>3. QED
    BY <1>1, <1>3, <1>6, <2>1, <2>2 DEF CatalogHasHomes, TypeOK
<1>14. CurHasHome' /\ QueueIsCatalog' /\ CatalogItems'
  <2>1. call.cur # r /\ call.cur \in Rec \cup {None}
    BY <1>1, <1>3, FreshRecord DEF Call
  <2>2. CurHasHome'
    BY <1>1, <1>3, <1>5, <2>1 DEF TypeInv, Hangs, CurHasHome, TypeOK
  <2>3. QueueIsCatalog'
    BY <1>5, <1>6 DEF TypeInv, Hangs, QueueIsCatalog
  <2>4. CatalogItems'
    BY <1>1, <1>5, TodoType DEF CatalogItems, TypeInv, Hangs
  <2>5. QED
    BY <2>2, <2>3, <2>4
<1>15. QED
  BY <1>9, <1>10, <1>11, <1>12, <1>13, <1>14 DEF TypeInv, Hangs

\* The steps that change nothing but the call and, at its end, the ledger.
LEMMA CallKeeps ==
  ASSUME TypeInv, UNCHANGED <<tree, ino, linked, numUdf, boot, brs>>, inodes' \subseteq Data,
         call' \in Call, space' \in Ledger, raised' \in {"none", "invalid", "internal"},
         CurHasHome', QueueIsCatalog', CatalogItems'
  PROVE  TypeInv'
<1>1. TypeOK'
  BY DEF TypeInv, TypeOK, tree
<1>2. ListedAtHome' /\ ChainsHaveHomes' /\ LinksHaveHomes' /\ CatalogHasHomes'
  BY DEF TypeInv, Hangs, ListedAtHome, ChainsHaveHomes, LinksHaveHomes, CatalogHasHomes, tree
<1>3. QED
  BY <1>1, <1>2 DEF TypeInv, Hangs

LEMMA EndKeeps ==
  ASSUME TypeInv, UNCHANGED <<tree, links, boot, brs>>, call' = Idle, space' \in Ledger,
         raised' \in {"none", "invalid", "internal"}
  PROVE  TypeInv'
<1>1. call' \in Call /\ CurHasHome' /\ QueueIsCatalog' /\ CatalogItems'
  BY IdleType, NoRecordInHand
<1>2. UNCHANGED <<tree, ino, linked, numUdf, boot, brs>> /\ inodes' \subseteq Data
  BY DEF links, TypeInv, TypeOK
<1>3. QED
  BY <1>1, <1>2, CallKeeps

LEMMA TrackType == ASSUME TypeInv, Track PROVE TypeInv'
<1>1. /\ call.todo # <<>> /\ Head(call.todo).path = None
      /\ inodes' = inodes \cup {Head(call.todo).ino}
      /\ call' = [call EXCEPT !.todo = Tail(@), !.dirty = TRUE]
      /\ UNCHANGED <<tree, ino, linked, numUdf, boot, brs, space, raised>>
  BY DEF Track
<1>2. inodes' \subseteq Data /\ Tail(call.todo) \in Seq(Item)
  BY <1>1, TodoType DEF TypeInv, TypeOK
<1>3. /\ call' \in Call /\ call'.cur = call.cur /\ call'.queue = call.queue
      /\ call'.cat = call.cat /\ call'.todo = Tail(call.todo) /\ call'.segs = call.segs
  BY <1>1, <1>2 DEF TypeInv, TypeOK, Call
<1>4. CurHasHome' /\ QueueIsCatalog' /\ CatalogItems'
  BY <1>1, <1>3, TodoType DEF TypeInv, Hangs, CurHasHome, QueueIsCatalog, CatalogItems, tree
<1>5. space' \in Ledger /\ raised' \in {"none", "invalid", "internal"}
  BY <1>1 DEF TypeInv, TypeOK
<1>6. QED
  BY <1>1, <1>2, <1>3, <1>4, <1>5, CallKeeps

LEMMA NextSegmentType == ASSUME TypeInv, NextSegment PROVE TypeInv'
<1>1. call \in Call /\ call.segs \in Seq(Data) /\ call.segs # <<>> /\ call.paths \in PathTriple
  BY DEF TypeInv, TypeOK, Call, NextSegment
<1>2. Work(call.segs, call.paths) \in Seq(Item) /\ Tail(call.segs) \in Seq(Data)
  BY <1>1, WorkType, HeadTailProperties
<1>3. call' = [call EXCEPT !.todo = Work(call.segs, call.paths), !.segs = Tail(@)]
  BY DEF NextSegment
<1>4. /\ call' \in Call /\ call'.cur = call.cur /\ call'.queue = call.queue
      /\ call'.cat = call.cat
  BY <1>1, <1>2, <1>3 DEF Call
<1>5. UNCHANGED <<tree, links, boot, brs, space, raised>>
  BY DEF NextSegment
<1>6. CurHasHome' /\ QueueIsCatalog' /\ CatalogItems'
  BY <1>1, <1>4, <1>5 DEF TypeInv, Hangs, CurHasHome, QueueIsCatalog, CatalogItems, tree
<1>7. /\ UNCHANGED <<tree, ino, linked, numUdf, boot, brs>> /\ inodes' \subseteq Data
      /\ space' \in Ledger /\ raised' \in {"none", "invalid", "internal"}
  BY <1>5 DEF TypeInv, TypeOK, links
<1>8. QED
  BY <1>4, <1>6, <1>7, CallKeeps

LEMMA FinishType ==
  ASSUME TypeInv, FinishAdd \/ FinishRemove \/ Refuse \/ RmDrLinkFails
  PROVE  TypeInv'
<1>1. space \in Ledger /\ call.acc \in Ledger
  BY DEF TypeInv, TypeOK, Call
<1>2. space' \in Ledger /\ raised' \in {"none", "invalid", "internal"} /\ call' = Idle
  BY <1>1, LedgerTypes DEF FinishAdd, FinishRemove, Refuse, RmDrLinkFails, Return, Raise
<1>3. UNCHANGED <<tree, links, boot, brs>>
  BY DEF FinishAdd, FinishRemove, Refuse, RmDrLinkFails
<1>4. QED
  BY <1>2, <1>3, EndKeeps

-----------------------------------------------------------------------------
(* The steps of removing. *)

LEMMA DeleteType ==
  ASSUME TypeInv, NEW r \in Rec, home[r] \in Path \ UdfPath, listing' \in Delete(r)
  PROVE  /\ listing' \in [Path -> Seq(Rec)]
         /\ \A q \in Path : Elements(listing'[q]) \subseteq Elements(listing[q])
<1>1. listing \in [Path -> Seq(Rec)]
  BY DEF TypeInv, TypeOK
<1> DEFINE dir == CHOOSE t \in Trees : home[r] \in t
           victims == IF Listed(r) THEN {r} ELSE UNION {Elements(listing[p]) : p \in dir}
<1>2. dir \subseteq Path
  <2>1. \E t \in Trees : home[r] \in t
    BY DEF Path, Trees
  <2>2. dir \in Trees
    BY <2>1
  <2>3. QED
    BY <2>2 DEF Trees, Path
<1>3. \E v \in victims : listing' = [listing EXCEPT ![home[v]] = Without(@, v)]
  BY DEF Delete
<1>4. \A v \in victims : \E p \in Path : v \in Elements(listing[p])
  <2> HIDE DEF dir
  <2>1. CASE Listed(r)
    BY <2>1 DEF Listed
  <2>2. CASE ~Listed(r)
    BY <1>2, <2>2
  <2>3. QED
    BY <2>1, <2>2
<1> HIDE DEF victims
<1>5. PICK v \in victims : listing' = [listing EXCEPT ![home[v]] = Without(@, v)]
  BY <1>3
<1>6. PICK p \in Path : v \in Elements(listing[p])
  BY <1>4
<1>7. home[v] = p
  BY <1>6 DEF TypeInv, Hangs, ListedAtHome
<1>8. /\ Without(listing[p], v) \in Seq(Rec)
      /\ Elements(Without(listing[p], v)) \subseteq Elements(listing[p])
  BY <1>1, <1>6, WithoutType
<1>9. QED
  BY <1>1, <1>5, <1>7, <1>8

LEMMA ElementsType == \A s \in Seq(Rec) : Elements(s) \subseteq Rec
BY DEF Elements

\* What the removal of a link leaves in place.
LEMMA RemovalKeeps ==
  ASSUME TypeInv, NEW r \in Rec, home[r] # None,
         listing' \in [Path -> Seq(Rec)],
         \A q \in Path : Elements(listing'[q]) \subseteq Elements(listing[q]),
         Unlink(r), Forget(r) \/ UNCHANGED <<home, ino, cont>>,
         numUdf' \in [Data -> Int], numFiles' \in Int, UNCHANGED <<boot, brs>>,
         call' \in Call, space' \in Ledger, raised' \in {"none", "invalid", "internal"},
         call'.cur = None \/ call'.cur = cont[r],
         Elements(call'.queue) \subseteq Elements(boot.recs), CatalogItems'
  PROVE  TypeInv'
<1>1. TypeOK
  BY DEF TypeInv
<1>2. \/ UNCHANGED <<home, ino, cont>>
      \/ /\ r \notin Elements(boot.recs) /\ ~Chained(r)
         /\ r \notin Elements(listing'[home[r]])
         /\ home' = [home EXCEPT ![r] = None]
         /\ ino' = [ino EXCEPT ![r] = None]
         /\ cont' = [cont EXCEPT ![r] = None]
  BY Zenon DEF Forget, Held
<1>3. /\ home' \in [Rec -> Path \cup {None}] /\ ino' \in [Rec -> Data \cup {None}]
      /\ cont' \in [Rec -> Rec \cup {None}]
      /\ \A q \in Rec \ {r} : home'[q] = home[q] /\ ino'[q] = ino[q] /\ cont'[q] = cont[q]
  BY <1>1, <1>2 DEF TypeOK
<1>4. /\ linked' \in [Data -> SUBSET Rec] /\ inodes' \subseteq Data
      /\ \A i \in Data : linked'[i] \subseteq linked[i] \ {r}
  <2>1. \A i \in Data : r \in linked[i] => ino[r] = i
    BY DEF TypeInv, Hangs, LinksHaveHomes
  <2>2. ino[r] \in Data \cup {None}
    BY <1>1 DEF TypeOK
  <2>3. CASE ino[r] = None
    BY <1>1, <2>1, <2>3, HardLinksAssumption DEF Unlink, TypeOK
  <2>4. CASE ino[r] # None
    <3>1. linked' = [linked EXCEPT ![ino[r]] = @ \ {r}] /\ inodes' \subseteq inodes
      BY <2>4 DEF Unlink
    <3>2. QED
      BY <1>1, <2>1, <2>2, <2>4, <3>1 DEF TypeOK
  <2>5. QED
    BY <2>3, <2>4
<1>5. TypeOK'
  BY <1>1, <1>3, <1>4 DEF TypeOK
<1>6. ListedAtHome'
  <2>1. ASSUME NEW q \in Path, NEW x \in Elements(listing'[q]) PROVE home'[x] = q
    <3>1. x \in Elements(listing[q]) /\ listing[q] \in Seq(Rec)
      BY <1>1, <2>1 DEF TypeOK
    <3>2. x \in Rec /\ home[x] = q
      BY <3>1, ElementsType DEF TypeInv, Hangs, ListedAtHome
    <3>3. QED
      BY <1>2, <1>3, <2>1, <3>2
  <2>2. QED
    BY <2>1 DEF ListedAtHome
<1>7. ChainsHaveHomes'
  <2>1. ASSUME NEW q \in Rec, cont'[q] # None PROVE cont'[q] # q /\ home'[cont'[q]] # None
    <3>1. cont'[q] = cont[q]
      BY <1>1, <1>2, <1>3, <2>1 DEF TypeOK
    <3>2. cont[q] # q /\ home[cont[q]] # None /\ cont[q] \in Rec
      BY <1>1, <2>1, <3>1 DEF TypeOK, TypeInv, Hangs, ChainsHaveHomes
    <3>3. CASE UNCHANGED <<home, ino, cont>>
      BY <3>1, <3>2, <3>3
    <3>4. CASE ~Chained(r) /\ cont' = [cont EXCEPT ![r] = None]
      <4>1. q # r
        BY <1>1, <2>1, <3>4 DEF TypeOK
      <4>2. cont[q] # r
        BY <3>4, <4>1 DEF Chained
      <4>3. QED
        BY <1>3, <3>1, <3>2, <4>2
    <3>5. QED
      BY <1>2, <3>3, <3>4
  <2>2. QED
    BY <2>1 DEF ChainsHaveHomes
<1>8. LinksHaveHomes'
  <2>1. ASSUME NEW i \in Data, NEW x \in linked'[i] PROVE ino'[x] = i /\ home'[x] # None
    <3>1. x \in linked[i] /\ x # r /\ x \in Rec
      BY <1>1, <1>4, <2>1 DEF TypeOK
    <3>2. QED
      BY <1>3, <3>1 DEF TypeInv, Hangs, LinksHaveHomes
  <2>2. QED
    BY <2>1 DEF LinksHaveHomes
<1>9. CatalogHasHomes'
  <2>1. boot.recs \in Seq(Rec)
    BY <1>1 DEF TypeOK, Catalog
  <2>2. \A x \in Elements(boot.recs) : x \in Rec /\ home[x] # None /\ ino[x] = None
    BY <2>1, ElementsType DEF TypeInv, Hangs, CatalogHasHomes
  <2>3. \A x \in Elements(boot.recs) : home'[x] = home[x] /\ ino'[x] = ino[x]
    BY <1>2, <1>3, <2>2
  <2>4. QED
    BY <2>2, <2>3 DEF CatalogHasHomes
<1>10. CurHasHome'
  <2>1. CASE call'.cur = None
    BY <2>1 DEF CurHasHome
  <2>2. CASE call'.cur = cont[r] /\ cont[r] # None
    <3>1. cont[r] # r /\ home[cont[r]] # None /\ cont[r] \in Rec
      BY <1>1, <2>2 DEF TypeOK, TypeInv, Hangs, ChainsHaveHomes
    <3>2. QED
      BY <1>3, <2>2, <3>1 DEF CurHasHome
  <2>3. QED
    BY <2>1, <2>2
<1>11. QueueIsCatalog'
  BY DEF QueueIsCatalog
<1>12. QED
  BY <1>5, <1>6, <1>7, <1>8, <1>9, <1>10, <1>11 DEF TypeInv, Hangs

LEMMA RefundType ==
  ASSUME TypeInv, NEW r \in Rec
  PROVE  Refund(r) \in Ledger
<1>1. call.acc \in Ledger /\ ino[r] \in Data \cup {None}
  BY DEF TypeInv, TypeOK, Call
<1>2. CASE Orphans(r)
  <2>1. ino[r] \in Data
    BY <1>1, <1>2 DEF Orphans
  <2>2. [call.acc EXCEPT !.data[ino[r]] = @ - 1] \in Ledger
    BY <1>1, <2>1, ChargeTypes, Zenon
  <2>3. QED
    BY <1>2, <2>2 DEF Refund
<1>3. CASE ~Orphans(r)
  BY <1>1, <1>3 DEF Refund
<1>4. QED
  BY <1>2, <1>3

\* The record in hand.
LEMMA CurType ==
  ASSUME TypeInv, call.cur # None
  PROVE  call.cur \in Rec /\ home[call.cur] \in Path
BY DEF TypeInv, TypeOK, Call, Hangs, CurHasHome

LEMMA RmDrLinkType == ASSUME TypeInv, RmDrLink PROVE TypeInv'
<1> DEFINE r == call.cur
           next == IF call.op = "rm_file" /\ call.ino = None THEN None ELSE cont[r]
<1>1. /\ call.cur # None /\ home[r] \notin UdfPath
      /\ listing' \in Delete(r) /\ Forget(r) /\ Unlink(r)
      /\ IF Dangling(r) THEN Raise("internal")
         ELSE /\ call' = [call EXCEPT !.acc = Refund(r), !.cur = next]
              /\ UNCHANGED <<space, raised>>
      /\ UNCHANGED <<numUdf, numFiles, boot, brs>>
  BY DEF RmDrLink
<1>2. r \in Rec /\ home[r] \in Path /\ home[r] # None
  BY <1>1, CurType, HardLinksAssumption
<1>3. TypeOK /\ call \in Call /\ space \in Ledger /\ cont[r] \in Rec \cup {None}
      /\ raised \in {"none", "invalid", "internal"}
  BY <1>2 DEF TypeInv, TypeOK
<1>4. /\ listing' \in [Path -> Seq(Rec)]
      /\ \A q \in Path : Elements(listing'[q]) \subseteq Elements(listing[q])
  BY <1>1, <1>2, DeleteType
<1>5. Refund(r) \in Ledger
  BY <1>2, RefundType
<1>6. next \in Rec \cup {None} /\ (next = None \/ next = cont[r])
  BY <1>3
<1> HIDE DEF r, next
<1>7. /\ call' \in Call /\ (call'.cur = None \/ call'.cur = cont[r])
      /\ Elements(call'.queue) \subseteq Elements(boot.recs) /\ CatalogItems'
      /\ space' \in Ledger /\ raised' \in {"none", "invalid", "internal"}
  <2>1. CASE Dangling(r)
    <3>1. call' = Idle /\ raised' = "internal" /\ space' = space
      BY <1>1, <2>1 DEF Raise
    <3>2. QED
      BY <1>3, <3>1, IdleType, NoRecordInHand DEF Elements
  <2>2. CASE ~Dangling(r)
    <3>1. call' = [call EXCEPT !.acc = Refund(r), !.cur = next] /\ UNCHANGED <<space, raised>>
      BY <1>1, <2>2
    <3>2. /\ call' \in Call /\ call'.cur = next /\ call'.queue = call.queue
          /\ call'.cat = call.cat /\ call'.todo = call.todo /\ call'.segs = call.segs
      BY <1>3, <1>5, <1>6, <3>1 DEF Call
    <3>3. QED
      BY <1>3, <1>6, <3>1, <3>2 DEF TypeInv, Hangs, QueueIsCatalog, CatalogItems
  <2>3. QED
    BY <2>1, <2>2
<1>8. numUdf' \in [Data -> Int] /\ numFiles' \in Int
  BY <1>1, <1>3 DEF TypeOK
<1>9. Unlink(r) /\ (Forget(r) \/ UNCHANGED <<home, ino, cont>>) /\ UNCHANGED <<boot, brs>>
  BY <1>1
<1>10. QED
  BY <1>2, <1>4, <1>7, <1>8, <1>9, RemovalKeeps, Zenon

LEMMA RmUdfLinkType == ASSUME TypeInv, RmUdfLink PROVE TypeInv'
<1> DEFINE r == call.cur
           i == ino[r]
           p == home[r]
           charge == IF i = None THEN [Refund(r) EXCEPT !.misc = @ - 1]
                     ELSE IF numUdf[i] = 1 THEN [Refund(r) EXCEPT !.fe[i] = @ - 1]
                     ELSE Refund(r)
           fails == Dangling(r) \/ ~Exists(p)
<1>1. /\ call.cur # None /\ Unlink(r) /\ Uncount(r)
      /\ IF fails
           THEN /\ Raise(IF Dangling(r) THEN "internal" ELSE "invalid")
                /\ UNCHANGED <<tree, ino>>
           ELSE /\ RmUdfFileIdent(p)
                /\ Forget(r)
                /\ call' = [call EXCEPT !.cur = None, !.acc = charge]
                /\ UNCHANGED <<space, raised>>
      /\ UNCHANGED <<boot, brs>>
  BY Zenon DEF RmUdfLink
<1>2. r \in Rec /\ p \in Path /\ p # None
  BY <1>1, CurType, HardLinksAssumption
<1>3. /\ TypeOK /\ call \in Call /\ space \in Ledger /\ i \in Data \cup {None}
      /\ raised \in {"none", "invalid", "internal"}
  BY <1>2 DEF TypeInv, TypeOK
<1>4. charge \in Ledger
  <2>1. Refund(r) \in Ledger
    BY <1>2, RefundType
  <2>2. [Refund(r) EXCEPT !.misc = @ - 1] \in Ledger
    <3> HIDE DEF r
    <3>1. QED
      BY <2>1 DEF Ledger
  <2>3. i # None => [Refund(r) EXCEPT !.fe[i] = @ - 1] \in Ledger
    <3>1. i # None => i \in Data
      BY <1>3
    <3>2. QED
      BY <2>1, <3>1, ChargeTypes, Zenon
  <2>4. QED
    BY <2>1, <2>2, <2>3
<1> HIDE DEF r, i, p, charge, fails
<1>5. numUdf' \in [Data -> Int]
  <2>1. numUdf \in [Data -> Int] /\ ino[r] \in Data \cup {None}
    BY <1>3 DEF TypeOK, i
  <2>2. numUdf' = numUdf \/ (ino[r] # None /\ numUdf' = [numUdf EXCEPT ![ino[r]] = @ - 1])
    BY <1>1 DEF Uncount
  <2>3. QED
    BY <2>1, <2>2
<1>6. CASE fails
  <2>1. /\ UNCHANGED <<tree, ino, boot, brs>> /\ call' = Idle /\ space' = space
        /\ raised' \in {"internal", "invalid"} /\ Unlink(r)
    BY <1>1, <1>6 DEF Raise
  <2>2. UNCHANGED <<listing, home, ino, cont, numFiles, boot, brs>>
    BY <2>1 DEF tree
  <2>3. /\ listing' \in [Path -> Seq(Rec)] /\ numFiles' \in Int
        /\ \A q \in Path : Elements(listing'[q]) \subseteq Elements(listing[q])
    BY <1>3, <2>2 DEF TypeOK
  <2>4. /\ call' \in Call /\ call'.cur = None /\ CatalogItems'
        /\ Elements(call'.queue) \subseteq Elements(boot.recs)
        /\ space' \in Ledger /\ raised' \in {"none", "invalid", "internal"}
    BY <1>3, <2>1, IdleType, NoRecordInHand DEF Elements
  <2>5. UNCHANGED <<home, ino, cont>> /\ UNCHANGED <<boot, brs>> /\ home[r] # None
    BY <1>2, <2>2 DEF p
  <2>6. QED
    BY <1>2, <1>5, <2>1, <2>3, <2>4, <2>5, RemovalKeeps, Zenon
<1>7. CASE ~fails
  <2>1. /\ listing' = [listing EXCEPT ![p] = Tail(@)] /\ numFiles' = numFiles - 1
        /\ Forget(r) /\ call' = [call EXCEPT !.cur = None, !.acc = charge]
        /\ UNCHANGED <<space, raised, boot, brs>> /\ Unlink(r)
    BY <1>1, <1>7 DEF RmUdfFileIdent
  <2>2. listing \in [Path -> Seq(Rec)] /\ listing[p] \in Seq(Rec) /\ listing[p] # <<>>
    BY <1>2, <1>3, <1>7 DEF TypeOK, fails, Exists
  <2>3. Tail(listing[p]) \in Seq(Rec) /\ Elements(Tail(listing[p])) \subseteq Elements(listing[p])
    <3>1. /\ Tail(listing[p]) \in Seq(Rec) /\ Len(Tail(listing[p])) = Len(listing[p]) - 1
          /\ \A k \in 1..Len(Tail(listing[p])) : Tail(listing[p])[k] = listing[p][k + 1]
          /\ Len(listing[p]) \in Nat
      BY <2>2, HeadTailProperties
    <3>2. \A k \in 1..Len(Tail(listing[p])) : k + 1 \in 1..Len(listing[p])
      BY <3>1
    <3>3. QED
      BY <3>1, <3>2 DEF Elements
  <2>4. /\ listing' \in [Path -> Seq(Rec)] /\ numFiles' \in Int
        /\ \A q \in Path : Elements(listing'[q]) \subseteq Elements(listing[q])
    BY <1>2, <1>3, <2>1, <2>2, <2>3 DEF TypeOK
  <2>5. /\ call' \in Call /\ call'.cur = None /\ call'.queue = call.queue
        /\ call'.cat = call.cat /\ call'.todo = call.todo /\ call'.segs = call.segs
    BY <1>3, <1>4, <2>1 DEF Call
  <2>6. /\ CatalogItems' /\ Elements(call'.queue) \subseteq Elements(boot.recs)
        /\ space' \in Ledger /\ raised' \in {"none", "invalid", "internal"}
    BY <1>3, <2>1, <2>5 DEF TypeInv, Hangs, QueueIsCatalog, CatalogItems
  <2>7. UNCHANGED <<boot, brs>> /\ home[r] # None
    BY <1>2, <2>1 DEF p
  <2>8. QED
    BY <1>2, <1>5, <2>1, <2>4, <2>5, <2>6, <2>7, RemovalKeeps, Zenon
<1>8. QED
  BY <1>6, <1>7

LEMMA NextLinkType == ASSUME TypeInv, NextLink PROVE TypeInv'
<1>1. /\ call.ino # None /\ UNCHANGED <<tree, links, boot, brs, space, raised>>
      /\ \E r \in linked[call.ino] : call' = [call EXCEPT !.cur = r]
  BY DEF NextLink
<1>2. PICK r \in linked[call.ino] : call' = [call EXCEPT !.cur = r]
  BY <1>1
<1>3. call \in Call /\ call.ino \in Data /\ r \in Rec /\ home[r] # None
  BY <1>1 DEF TypeInv, TypeOK, Call, Hangs, LinksHaveHomes
<1>4. /\ call' \in Call /\ call'.cur = r /\ call'.queue = call.queue
      /\ call'.cat = call.cat /\ call'.todo = call.todo /\ call'.segs = call.segs
  BY <1>2, <1>3 DEF Call
<1>5. CurHasHome' /\ QueueIsCatalog' /\ CatalogItems'
  BY <1>1, <1>3, <1>4 DEF TypeInv, Hangs, CurHasHome, QueueIsCatalog, CatalogItems, tree
<1>6. /\ UNCHANGED <<tree, ino, linked, numUdf, boot, brs>> /\ inodes' \subseteq Data
      /\ space' \in Ledger /\ raised' \in {"none", "invalid", "internal"}
  BY <1>1 DEF TypeInv, TypeOK, links
<1>7. QED
  BY <1>4, <1>5, <1>6, CallKeeps

LEMMA NextCatalogRecordType == ASSUME TypeInv, NextCatalogRecord PROVE TypeInv'
<1>1. /\ call.queue # <<>> /\ UNCHANGED <<tree, links, boot, brs, space, raised>>
      /\ call' = [call EXCEPT !.cur = Head(call.queue), !.queue = Tail(@)]
  BY DEF NextCatalogRecord
<1>2. call \in Call /\ call.queue \in Seq(Rec)
  BY DEF TypeInv, TypeOK, Call
<1>3. /\ Head(call.queue) \in Rec /\ Tail(call.queue) \in Seq(Rec)
      /\ Head(call.queue) \in Elements(call.queue)
      /\ Elements(Tail(call.queue)) \subseteq Elements(call.queue)
  <2>1. /\ Head(call.queue) \in Rec /\ Tail(call.queue) \in Seq(Rec)
        /\ Head(call.queue) = call.queue[1] /\ 1 \in 1..Len(call.queue)
        /\ Len(Tail(call.queue)) = Len(call.queue) - 1
        /\ \A k \in 1..Len(Tail(call.queue)) : Tail(call.queue)[k] = call.queue[k + 1]
        /\ Len(call.queue) \in Nat
    BY <1>1, <1>2, HeadTailProperties, EmptySeq
  <2>2. \A k \in 1..Len(Tail(call.queue)) : k + 1 \in 1..Len(call.queue)
    BY <2>1
  <2>3. QED
    BY <2>1, <2>2 DEF Elements
<1>4. /\ call' \in Call /\ call'.cur = Head(call.queue) /\ call'.queue = Tail(call.queue)
      /\ call'.cat = call.cat /\ call'.todo = call.todo /\ call'.segs = call.segs
  BY <1>1, <1>2, <1>3 DEF Call
<1>5. home[Head(call.queue)] # None
  BY <1>3 DEF TypeInv, Hangs, QueueIsCatalog, CatalogHasHomes
<1>6. CurHasHome' /\ QueueIsCatalog' /\ CatalogItems'
  BY <1>1, <1>3, <1>4, <1>5 DEF TypeInv, Hangs, CurHasHome, QueueIsCatalog, CatalogItems, tree
<1>7. /\ UNCHANGED <<tree, ino, linked, numUdf, boot, brs>> /\ inodes' \subseteq Data
      /\ space' \in Ledger /\ raised' \in {"none", "invalid", "internal"}
  BY <1>1 DEF TypeInv, TypeOK, links
<1>8. QED
  BY <1>4, <1>6, <1>7, CallKeeps

LEMMA FinishRmEltoritoType == ASSUME TypeInv, FinishRmEltorito PROVE TypeInv'
<1> DEFINE gone == {r \in Elements(boot.recs) : ~Listed(r) /\ ~Chained(r)}
<1>1. /\ boot' = NoCatalog /\ call' = Idle /\ raised' = "none"
      /\ home' = [r \in Rec |-> IF r \in gone THEN None ELSE home[r]]
      /\ space' = [Merge(space, call.acc) EXCEPT !.misc = @ - 1]
      /\ UNCHANGED <<listing, cont, numFiles, ino, linked, inodes, numUdf, brs>>
  BY DEF FinishRmEltorito, links
<1>2. /\ TypeOK /\ Merge(space, call.acc) \in Ledger
      /\ boot' \in Catalog /\ Elements(boot'.recs) = {}
  <2>1. TypeOK /\ space \in Ledger /\ call.acc \in Ledger
    BY DEF TypeInv, TypeOK, Call
  <2>2. NoCatalog \in Catalog /\ Elements(NoCatalog.recs) = {}
    BY DEF NoCatalog, Catalog, Elements
  <2>3. QED
    BY <1>1, <2>1, <2>2, LedgerTypes
<1>3. space' \in Ledger
  BY <1>1, <1>2 DEF Ledger
<1>4. \A r \in gone : /\ ~Chained(r) /\ ino[r] = None /\ r \in Rec
                      /\ \A q \in Path : r \notin Elements(listing[q])
  <2>1. ASSUME NEW r \in gone, NEW q \in Path, r \in Elements(listing[q]) PROVE FALSE
    <3>1. home[r] = q /\ q # None
      BY <2>1, HardLinksAssumption DEF TypeInv, Hangs, ListedAtHome
    <3>2. QED
      BY <2>1, <3>1 DEF Listed
  <2>2. boot.recs \in Seq(Rec)
    BY <1>2 DEF TypeOK, Catalog
  <2>3. QED
    BY <2>1, <2>2, ElementsType DEF TypeInv, Hangs, CatalogHasHomes
<1> HIDE DEF gone
<1>5. /\ call' \in Call /\ CurHasHome' /\ QueueIsCatalog' /\ CatalogItems'
  BY <1>1, IdleType, NoRecordInHand
<1>6. TypeOK'
  <2>1. home' \in [Rec -> Path \cup {None}]
    BY <1>1, <1>2 DEF TypeOK
  <2>2. QED
    BY <1>1, <1>2, <1>3, <1>5, <2>1 DEF TypeOK
<1>7. ListedAtHome'
  <2>1. \A q \in Path : listing[q] \in Seq(Rec)
    BY <1>2 DEF TypeOK
  <2>2. \A q \in Path : \A x \in Elements(listing[q]) : x \in Rec \ gone /\ home[x] = q
    BY <1>4, <2>1, ElementsType DEF TypeInv, Hangs, ListedAtHome
  <2>3. QED
    BY <1>1, <2>2 DEF ListedAtHome
<1>8. ChainsHaveHomes'
  <2>1. ASSUME NEW q \in Rec, cont[q] # None
        PROVE  cont[q] # q /\ cont[q] \in Rec \ gone /\ home[cont[q]] # None
    <3>1. cont[q] # q /\ home[cont[q]] # None /\ cont[q] \in Rec
      BY <1>2, <2>1 DEF TypeOK, TypeInv, Hangs, ChainsHaveHomes
    <3>2. Chained(cont[q])
      BY <3>1 DEF Chained
    <3>3. QED
      BY <1>4, <3>1, <3>2
  <2>2. QED
    BY <1>1, <2>1 DEF ChainsHaveHomes
<1>9. LinksHaveHomes'
  <2>1. ASSUME NEW j \in Data, NEW x \in linked[j]
        PROVE  x \in Rec \ gone /\ ino[x] = j /\ home[x] # None
    <3>1. x \in Rec /\ ino[x] = j /\ home[x] # None
      BY <1>2 DEF TypeOK, TypeInv, Hangs, LinksHaveHomes
    <3>2. QED
      BY <1>4, <3>1, HardLinksAssumption
  <2>2. QED
    BY <1>1, <2>1 DEF LinksHaveHomes
<1>10. CatalogHasHomes'
  BY <1>2 DEF CatalogHasHomes
<1>11. QED
  BY <1>5, <1>6, <1>7, <1>8, <1>9, <1>10 DEF TypeInv, Hangs

-----------------------------------------------------------------------------
LEMMA InitType == Init => TypeInv
<1> SUFFICES ASSUME Init PROVE TypeInv
  OBVIOUS
<1>1. boot \in Catalog /\ space \in Ledger /\ call \in Call /\ call = Idle
  BY IdleType, LedgerTypes DEF Init, NoCatalog, Catalog
<1>2. TypeOK
  BY <1>1 DEF Init, TypeOK
<1>3. ListedAtHome /\ ChainsHaveHomes /\ LinksHaveHomes
  BY DEF Init, ListedAtHome, ChainsHaveHomes, LinksHaveHomes, Elements
<1>4. CatalogHasHomes
  BY DEF Init, NoCatalog, CatalogHasHomes, Elements
<1>5. CurHasHome /\ QueueIsCatalog /\ CatalogItems
  BY <1>1, IdleType DEF CurHasHome, QueueIsCatalog, CatalogItems, Elements
<1>6. QED
  BY <1>2, <1>3, <1>4, <1>5 DEF TypeInv, Hangs

\* Every step keeps the type invariant, a client that respects nothing included.
LEMMA StepType == TypeInv /\ [Next]_vars => TypeInv'
<1> SUFFICES ASSUME TypeInv, [Next]_vars PROVE TypeInv'
  OBVIOUS
<1>1. CASE Request
  BY <1>1, AddFpType, AddHardLinkType, LinkBootCatalogType, AddEltoritoType,
     AddSectionType, RmHardLinkType, RmFileType, RmEltoritoType DEF Request
<1>2. CASE Step
  BY <1>2, LinkType, TrackType, NextSegmentType, FinishType, RmDrLinkType,
     RmUdfLinkType, NextLinkType, NextCatalogRecordType, FinishRmEltoritoType DEF Step
<1>3. CASE UNCHANGED vars
  <2>1. TypeOK'
    BY <1>3 DEF TypeInv, TypeOK, vars
  <2>2. Hangs'
    BY <1>3 DEF TypeInv, Hangs, ListedAtHome, ChainsHaveHomes, LinksHaveHomes,
       CatalogHasHomes, CurHasHome, QueueIsCatalog, CatalogItems, vars
  <2>3. QED
    BY <2>1, <2>2 DEF TypeInv
<1>4. QED
  BY <1>1, <1>2, <1>3 DEF Next

\* The objects stay well formed and hang together as the code needs: listed
\* records are children of the directory they were created for, the records of
\* linked_records, data_continuation and the boot catalog are live objects, and
\* a record of the boot catalog never gets an inode.
THEOREM HangsTogether == Spec => []TypeInv
<1>1. Init => TypeInv
  BY InitType
<1>2. TypeInv /\ [Next]_vars => TypeInv'
  BY StepType
<1>3. QED
  BY <1>1, <1>2, PTL DEF Spec

\* Type correctness of the links, whatever the client does.
THEOREM TypeCorrect == Spec => []TypeOK
<1>1. TypeInv => TypeOK
  BY DEF TypeInv
<1>2. QED
  BY <1>1, HangsTogether, PTL

-----------------------------------------------------------------------------
(* For every client: no record is listed twice, and the number of files    *)
(* kept for UDF is right.  The lemmas about single steps serve the careful *)
(* client too.                                                             *)

Injective(s) == \A j, k \in 1..Len(s) : s[j] = s[k] => j = k

\* No record is listed twice under one name (ListedAtHome: nor under two).
Distinct == \A p \in Path : Injective(listing[p])

Entries == {r \in Rec : Listed(r)}
UdfEntries == {r \in Rec : Listed(r) /\ home[r] \in UdfPath}
UdfCounted == numFiles = Cardinality(UdfEntries)

ListingInv == TypeInv /\ Distinct /\ UdfCounted

-----------------------------------------------------------------------------
(* What the three operations on a listing do to its records. *)

LEMMA AppendDistinct ==
  ASSUME NEW s \in Seq(Rec), NEW r \in Rec, r \notin Elements(s), Injective(s)
  PROVE  Injective(Append(s, r))
<1>1. /\ Len(Append(s, r)) = Len(s) + 1 /\ Len(s) \in Nat
      /\ Append(s, r)[Len(s) + 1] = r
      /\ \A k \in 1..Len(s) : Append(s, r)[k] = s[k] /\ s[k] # r
  BY DEF Elements
<1>2. QED
  BY <1>1 DEF Injective

LEMMA InsertDistinct ==
  ASSUME NEW s \in Seq(Rec), NEW r \in Rec, NEW p \in Path, r \notin Elements(s), Injective(s)
  PROVE  Injective(Insert(s, r, p))
<1>1. CASE Insert(s, r, p) = Append(s, r)
  BY <1>1, AppendDistinct
<1>2. CASE s # <<>> /\ Insert(s, r, p) = <<Head(s), r>> \o Tail(s)
  <2>1. /\ Head(s) = s[1] /\ Tail(s) \in Seq(Rec) /\ Len(Tail(s)) = Len(s) - 1
        /\ \A k \in 1..Len(Tail(s)) : Tail(s)[k] = s[k + 1]
        /\ Len(s) \in Nat \ {0} /\ s[1] \in Rec
    BY <1>2, HeadTailProperties, EmptySeq
  <2>2. <<Head(s), r>> \in Seq(Rec) /\ Len(<<Head(s), r>>) = 2
    BY <2>1
  <2> DEFINE t == <<Head(s), r>> \o Tail(s)
  <2>3. /\ t \in Seq(Rec) /\ Len(t) = Len(s) + 1
        /\ t[1] = s[1] /\ t[2] = r /\ \A k \in 3..(Len(s) + 1) : t[k] = s[k - 1]
    BY <2>1, <2>2, ConcatProperties
  <2>4. \A k \in 1..Len(s) : s[k] # r
    BY DEF Elements
  <2> HIDE DEF t
  <2>5. \A j, k \in 1..Len(t) : t[j] = t[k] => j = k
    BY <2>1, <2>3, <2>4 DEF Injective
  <2>6. QED
    BY <1>2, <2>5 DEF Injective, t
<1>3. QED
  BY <1>1, <1>2 DEF Insert

LEMMA TailExact ==
  ASSUME NEW s \in Seq(Rec), s # <<>>, Injective(s)
  PROVE  /\ Tail(s) \in Seq(Rec) /\ Injective(Tail(s)) /\ Len(Tail(s)) = Len(s) - 1
         /\ Head(s) \in Elements(s) /\ Elements(Tail(s)) = Elements(s) \ {Head(s)}
<1>1. /\ Head(s) = s[1] /\ Tail(s) \in Seq(Rec) /\ Len(Tail(s)) = Len(s) - 1
      /\ \A k \in 1..Len(Tail(s)) : Tail(s)[k] = s[k + 1]
      /\ Len(s) \in Nat \ {0}
  BY HeadTailProperties, EmptySeq
<1>2. Injective(Tail(s))
  BY <1>1 DEF Injective
<1>3. \A k \in 1..Len(Tail(s)) : k + 1 \in 1..Len(s) /\ s[k + 1] # s[1]
  BY <1>1 DEF Injective
<1>4. \A k \in 1..Len(s) : s[k] # s[1] => k - 1 \in 1..Len(Tail(s)) /\ Tail(s)[k - 1] = s[k]
  BY <1>1
<1>5. Elements(Tail(s)) = Elements(s) \ {Head(s)}
  <2>1. \A x \in Elements(Tail(s)) : x \in Elements(s) \ {Head(s)}
    BY <1>1, <1>3 DEF Elements
  <2>2. \A x \in Elements(s) \ {Head(s)} : x \in Elements(Tail(s))
    BY <1>1, <1>4 DEF Elements
  <2>3. QED
    BY <2>1, <2>2
<1>6. Head(s) \in Elements(s)
  BY <1>1 DEF Elements
<1>7. QED
  BY <1>1, <1>2, <1>5, <1>6

\* Without(s, x) is s with one element left out.
LEMMA WithoutIndex ==
  ASSUME NEW s \in Seq(Rec), NEW x \in Elements(s)
  PROVE  \E n \in 1..Len(s) :
           /\ s[n] = x
           /\ Without(s, x) \in Seq(Rec) /\ Len(Without(s, x)) = Len(s) - 1
           /\ \A k \in 1..(Len(s) - 1) :
                Without(s, x)[k] = IF k < n THEN s[k] ELSE s[k + 1]
<1> DEFINE n == CHOOSE m \in 1..Len(s) : s[m] = x
<1>1. n \in 1..Len(s) /\ s[n] = x /\ Len(s) \in Nat
  BY DEF Elements
<1> HIDE DEF n
<1> DEFINE a == SubSeq(s, 1, n - 1)
           b == SubSeq(s, n + 1, Len(s))
<1>2. /\ a \in Seq(Rec) /\ Len(a) = n - 1 /\ \A k \in 1..(n - 1) : a[k] = s[k]
  BY <1>1, SubSeqProperties
<1>3. /\ b \in Seq(Rec) /\ Len(b) = Len(s) - n
      /\ \A k \in 1..(Len(s) - n) : b[k] = s[n + k]
  <2>1. n + 1 \in 1..(Len(s) + 1) /\ Len(s) \in n..Len(s)
    BY <1>1
  <2>2. \A k \in (n + 1)..Len(s) : s[k] \in Rec
    BY <1>1
  <2>3. QED
    BY <1>1, <2>1, <2>2, SubSeqProperties
<1> HIDE DEF a, b
<1>4. /\ a \o b \in Seq(Rec) /\ Len(a \o b) = Len(s) - 1
      /\ \A k \in 1..(Len(s) - 1) : (a \o b)[k] = IF k < n THEN s[k] ELSE s[k + 1]
  <2>1. /\ a \o b \in Seq(Rec) /\ Len(a \o b) = Len(a) + Len(b)
        /\ \A k \in 1..(Len(a) + Len(b)) :
             (a \o b)[k] = IF k <= Len(a) THEN a[k] ELSE b[k - Len(a)]
    BY <1>2, <1>3, ConcatProperties
  <2>2. ASSUME NEW k \in 1..(Len(s) - 1), k >= n PROVE b[k - Len(a)] = s[k + 1]
    <3>1. k - Len(a) \in 1..(Len(s) - n) /\ n + (k - Len(a)) = k + 1
      BY <1>1, <1>2, <2>2
    <3>2. QED
      BY <1>3, <3>1
  <2>3. Len(a) = n - 1 /\ Len(a) + Len(b) = Len(s) - 1
    BY <1>1, <1>2, <1>3
  <2>4. ASSUME NEW k \in 1..(Len(s) - 1), k < n PROVE k <= Len(a) /\ a[k] = s[k]
    BY <1>1, <1>2, <2>4
  <2>5. ASSUME NEW k \in 1..(Len(s) - 1), k >= n PROVE ~(k <= Len(a))
    BY <1>1, <1>2, <2>5
  <2>6. ASSUME NEW k \in 1..(Len(s) - 1)
        PROVE  (a \o b)[k] = IF k < n THEN s[k] ELSE s[k + 1]
    <3>1. (a \o b)[k] = IF k <= Len(a) THEN a[k] ELSE b[k - Len(a)]
      BY <2>1, <2>3
    <3>2. CASE k < n
      BY <2>4, <3>1, <3>2
    <3>3. CASE ~(k < n)
      <4>1. k >= n
        BY <1>1, <3>3
      <4>2. QED
        BY <2>2, <2>5, <3>1, <3>3, <4>1
    <3>4. QED
      BY <3>2, <3>3
  <2>7. QED
    BY <2>1, <2>3, <2>6
<1>5. Without(s, x) = a \o b
  BY DEF Without, a, b, n
<1>6. QED
  BY <1>1, <1>4, <1>5

LEMMA WithoutExact ==
  ASSUME NEW s \in Seq(Rec), NEW x \in Elements(s), Injective(s)
  PROVE  /\ Without(s, x) \in Seq(Rec) /\ Injective(Without(s, x))
         /\ Len(Without(s, x)) = Len(s) - 1
         /\ Elements(Without(s, x)) = Elements(s) \ {x}
         /\ x # s[1] => Without(s, x) # <<>> /\ Without(s, x)[1] = s[1]
<1> DEFINE t == Without(s, x)
<1>1. PICK n \in 1..Len(s) :
        /\ s[n] = x /\ t \in Seq(Rec) /\ Len(t) = Len(s) - 1
        /\ \A k \in 1..(Len(s) - 1) : t[k] = IF k < n THEN s[k] ELSE s[k + 1]
  BY WithoutIndex
<1> HIDE DEF t
<1>2. Len(s) \in Nat \ {0}
  BY <1>1
<1>3. Injective(t)
  BY <1>1, <1>2 DEF Injective
<1>4. Elements(t) = Elements(s) \ {x}
  <2>1. \A k \in 1..Len(t) : t[k] \in Elements(s) /\ t[k] # x
    BY <1>1, <1>2 DEF Injective, Elements
  <2>2. ASSUME NEW k \in 1..Len(s), s[k] # x PROVE s[k] \in Elements(t)
    <3>1. CASE k < n
      <4>1. k \in 1..Len(t) /\ t[k] = s[k]
        BY <1>1, <1>2, <3>1
      <4>2. QED
        BY <4>1 DEF Elements
    <3>2. CASE k > n
      <4>1. k - 1 \in 1..Len(t) /\ t[k - 1] = s[k]
        BY <1>1, <1>2, <3>2
      <4>2. QED
        BY <4>1 DEF Elements
    <3>3. QED
      BY <1>1, <2>2, <3>1, <3>2
  <2>3. QED
    BY <2>1, <2>2 DEF Elements
<1>5. x # s[1] => t # <<>> /\ t[1] = s[1]
  <2>1. x # s[1] => n > 1 /\ Len(s) > 1
    BY <1>1, <1>2
  <2>2. x # s[1] => Len(t) # 0 /\ t[1] = s[1]
    BY <1>1, <1>2, <2>1
  <2>3. QED
    BY <1>1, <2>2
<1>6. QED
  BY <1>1, <1>3, <1>4, <1>5 DEF t

-----------------------------------------------------------------------------
(* Which records are listed. *)

\* A record is listed exactly if some path lists it, and then that is its home.
LEMMA ListedSomewhere ==
  ASSUME TypeInv
  PROVE  /\ \A r \in Rec : r \in Entries <=> \E p \in Path : r \in Elements(listing[p])
         /\ \A r \in Rec : \A p \in Path : r \in Elements(listing[p]) => home[r] = p
<1>1. ASSUME NEW r \in Rec, NEW p \in Path, r \in Elements(listing[p])
      PROVE  home[r] = p /\ r \in Entries
  BY <1>1, HardLinksAssumption DEF TypeInv, Hangs, ListedAtHome, Listed, Entries
<1>2. \A r \in Entries : home[r] \in Path /\ r \in Elements(listing[home[r]])
  BY DEF Listed, Entries, TypeInv, TypeOK
<1>3. QED
  BY <1>1, <1>2

LEMMA ListedSomewhereNext ==
  ASSUME TypeInv'
  PROVE  /\ \A r \in Rec : r \in Entries' <=> \E p \in Path : r \in Elements(listing'[p])
         /\ \A r \in Rec : \A p \in Path : r \in Elements(listing'[p]) => home'[r] = p
<1>1. ASSUME NEW r \in Rec, NEW p \in Path, r \in Elements(listing'[p])
      PROVE  home'[r] = p /\ r \in Entries'
  BY <1>1, HardLinksAssumption DEF TypeInv, Hangs, ListedAtHome, Listed, Entries
<1>2. \A r \in Entries' : home'[r] \in Path /\ r \in Elements(listing'[home'[r]])
  BY DEF Listed, Entries, TypeInv, TypeOK
<1>3. QED
  BY <1>1, <1>2

\* A step that leaves the listings alone leaves their records where they are.
LEMMA SameListings ==
  ASSUME TypeInv, TypeInv', UNCHANGED listing
  PROVE  /\ Entries' = Entries
         /\ \A r \in Entries : home'[r] = home[r]
<1>1. Entries \subseteq Rec /\ Entries' \subseteq Rec
  BY DEF Entries
<1>2. QED
  BY <1>1, ListedSomewhere, ListedSomewhereNext

LEMMA NextItem ==
  ASSUME TypeInv, NEW r \in Rec, Link(r)
  PROVE  /\ call.todo # <<>> /\ Head(call.todo).path \in Path
         /\ Head(call.todo).ino \in InoOrNone
<1>1. call.todo # <<>> /\ Head(call.todo).path # None
  BY DEF Link
<1>2. QED
  BY <1>1, TodoType DEF PathOrNone

\* Link(r) lists r, which was not listed, and nothing else.
LEMMA LinkLists ==
  ASSUME TypeInv, TypeInv', NEW r \in Rec, Link(r),
         NEW p, p = Head(call.todo).path
  PROVE  /\ p \in Path /\ r \notin Entries /\ Entries' = Entries \cup {r}
         /\ home'[r] = p /\ ino'[r] = Head(call.todo).ino
         /\ listing'[p] = Insert(listing[p], r, p) /\ r \notin Elements(listing[p])
         /\ Elements(listing'[p]) = Elements(listing[p]) \cup {r}
         /\ \A q \in Path \ {p} : listing'[q] = listing[q]
         /\ \A q \in Rec \ {r} : home'[q] = home[q] /\ ino'[q] = ino[q]
<1>1. /\ ~InUse(r) /\ listing' = [listing EXCEPT ![p] = Insert(@, r, p)]
      /\ home' = [home EXCEPT ![r] = p]
      /\ ino' = [ino EXCEPT ![r] = Head(call.todo).ino]
  BY Zenon DEF Link
<1>2. p \in Path /\ TypeOK /\ \A q \in Path : r \notin Elements(listing[q])
  BY <1>1, NextItem, FreshRecord DEF TypeInv
<1>3. /\ listing'[p] = Insert(listing[p], r, p) /\ \A q \in Path \ {p} : listing'[q] = listing[q]
      /\ listing[p] \in Seq(Rec)
  BY <1>1, <1>2 DEF TypeOK
<1>4. Elements(listing'[p]) = Elements(listing[p]) \cup {r}
  BY <1>2, <1>3, InsertType
<1>5. /\ home'[r] = p /\ ino'[r] = Head(call.todo).ino
      /\ \A q \in Rec \ {r} : home'[q] = home[q] /\ ino'[q] = ino[q]
  BY <1>1, <1>2 DEF TypeOK
<1>6. r \notin Entries /\ r \in Entries' /\ Entries \subseteq Rec /\ Entries' \subseteq Rec
  BY <1>2, <1>4, ListedSomewhere, ListedSomewhereNext DEF Entries
<1>7. \A q \in Rec \ {r} : q \in Entries' <=> q \in Entries
  BY <1>2, <1>3, <1>4, ListedSomewhere, ListedSomewhereNext
<1>8. QED
  BY <1>2, <1>3, <1>4, <1>5, <1>6, <1>7

\* The step takes record v, and nothing else, out of the listing of p.
Drops(p, v) ==
  /\ v \in Elements(listing[p])
  /\ \A q \in Path \ {p} : listing'[q] = listing[q]
  /\ listing'[p] \in Seq(Rec) /\ Injective(listing'[p])
  /\ Len(listing'[p]) = Len(listing[p]) - 1
  /\ Elements(listing'[p]) = Elements(listing[p]) \ {v}
  /\ v # listing[p][1] => listing'[p] # <<>> /\ listing'[p][1] = listing[p][1]

LEMMA DeleteDrops ==
  ASSUME TypeInv, Distinct, NEW r \in Rec, home[r] \in Path \ UdfPath, listing' \in Delete(r)
  PROVE  \E p \in Path \ UdfPath, v \in Rec :
           Drops(p, v) /\ (Listed(r) => v = r /\ p = home[r])
<1>1. listing \in [Path -> Seq(Rec)]
  BY DEF TypeInv, TypeOK
<1> DEFINE dir == CHOOSE t \in Trees : home[r] \in t
           victims == IF Listed(r) THEN {r} ELSE UNION {Elements(listing[p]) : p \in dir}
<1>2. dir \subseteq Path \ UdfPath
  <2>1. \E t \in Trees : home[r] \in t
    BY DEF Path, Trees
  <2>2. dir \in Trees
    BY <2>1
  <2>3. QED
    BY <2>2, HardLinksAssumption DEF Trees, Path
<1>3. \E v \in victims : listing' = [listing EXCEPT ![home[v]] = Without(@, v)]
  BY DEF Delete
<1>4. \A v \in victims : \E p \in Path \ UdfPath : v \in Elements(listing[p])
  <2> HIDE DEF dir
  <2>1. CASE Listed(r)
    BY <2>1 DEF Listed
  <2>2. CASE ~Listed(r)
    BY <1>2, <2>2
  <2>3. QED
    BY <2>1, <2>2
<1>5. Listed(r) => \A v \in victims : v = r
  OBVIOUS
<1> HIDE DEF victims
<1>6. PICK v \in victims : listing' = [listing EXCEPT ![home[v]] = Without(@, v)]
  BY <1>3
<1>7. PICK p \in Path \ UdfPath : v \in Elements(listing[p])
  BY <1>4
<1>8. home[v] = p /\ listing[p] \in Seq(Rec) /\ v \in Rec
  BY <1>1, <1>7, ElementsType DEF TypeInv, Hangs, ListedAtHome
<1>9. /\ listing'[p] = Without(listing[p], v)
      /\ \A q \in Path \ {p} : listing'[q] = listing[q]
  BY <1>1, <1>6, <1>8
<1>10. Drops(p, v)
  BY <1>7, <1>8, <1>9, WithoutExact DEF Drops, Distinct
<1>11. QED
  BY <1>5, <1>8, <1>10

LEMMA TailDrops ==
  ASSUME TypeInv, Distinct, NEW p \in Path, Exists(p), RmUdfFileIdent(p)
  PROVE  Drops(p, Lookup(p)) /\ Lookup(p) \in Rec
<1>1. listing \in [Path -> Seq(Rec)] /\ listing[p] \in Seq(Rec) /\ listing[p] # <<>>
  BY DEF TypeInv, TypeOK, Exists
<1>2. listing'[p] = Tail(listing[p]) /\ \A q \in Path \ {p} : listing'[q] = listing[q]
  BY <1>1 DEF RmUdfFileIdent
<1>3. Lookup(p) = listing[p][1] /\ Lookup(p) \in Rec
  BY <1>1, HeadTailProperties DEF Lookup
<1>4. Drops(p, Lookup(p))
  BY <1>1, <1>2, <1>3, TailExact DEF Drops, Lookup, Distinct
<1>5. QED
  BY <1>3, <1>4

\* The records listed after v is dropped.
LEMMA DropUnlists ==
  ASSUME TypeInv, TypeInv', NEW p \in Path, NEW v \in Rec, Drops(p, v)
  PROVE  /\ v \in Entries /\ home[v] = p /\ Entries' = Entries \ {v}
         /\ \A r \in Entries \ {v} : home'[r] = home[r]
<1>1. v \in Entries /\ home[v] = p /\ Entries \subseteq Rec /\ Entries' \subseteq Rec
  BY ListedSomewhere DEF Drops, Entries
<1>2. \A q \in Path : v \notin Elements(listing'[q])
  BY <1>1, ListedSomewhere DEF Drops
<1>3. v \notin Entries'
  BY <1>1, <1>2, ListedSomewhereNext
<1>4. \A q \in Path : \A r \in Rec \ {v} : r \in Elements(listing'[q]) <=> r \in Elements(listing[q])
  BY DEF Drops
<1>5. \A r \in Rec \ {v} : r \in Entries' <=> r \in Entries
  BY <1>4, ListedSomewhere, ListedSomewhereNext
<1>6. \A r \in Entries \ {v} : home'[r] = home[r]
  BY <1>1, <1>4, ListedSomewhere, ListedSomewhereNext
<1>7. QED
  BY <1>1, <1>3, <1>5, <1>6

LEMMA DropDistinct ==
  ASSUME Distinct, NEW p \in Path, NEW v \in Rec, Drops(p, v)
  PROVE  Distinct'
BY DEF Distinct, Drops

-----------------------------------------------------------------------------
(* Every step keeps the listings free of repetitions and the count right.  *)

LEMMA SetOfRecords ==
  ASSUME NEW S, S \subseteq Rec
  PROVE  /\ IsFiniteSet(S) /\ Cardinality(S) \in Nat
         /\ Cardinality(S) = 0 <=> S = {}
         /\ \A r \in Rec \ S : Cardinality(S \cup {r}) = Cardinality(S) + 1
         /\ \A r \in S : Cardinality(S \ {r}) = Cardinality(S) - 1
<1>1. IsFiniteSet(S)
  BY HardLinksAssumption, FS_Subset
<1>2. QED
  BY <1>1, FS_CardinalityType, FS_EmptySet, FS_AddElement, FS_RemoveElement

LEMMA UdfEntriesDef ==
  /\ UdfEntries = {r \in Entries : home[r] \in UdfPath}
  /\ UdfEntries' = {r \in Entries' : home'[r] \in UdfPath}
BY DEF UdfEntries, Entries

LEMMA SameListingsKeep ==
  ASSUME ListingInv, TypeInv', UNCHANGED <<listing, numFiles>>
  PROVE  ListingInv'
<1>1. Distinct'
  BY DEF ListingInv, Distinct
<1>2. UdfEntries' = UdfEntries
  BY SameListings, UdfEntriesDef DEF ListingInv
<1>3. QED
  BY <1>1, <1>2 DEF ListingInv, UdfCounted

LEMMA LinkKeepsListings ==
  ASSUME ListingInv, TypeInv', NEW r \in Rec, Link(r)
  PROVE  ListingInv'
<1> DEFINE p == Head(call.todo).path
<1>1. /\ p \in Path /\ r \notin Entries /\ Entries' = Entries \cup {r} /\ home'[r] = p
      /\ listing'[p] = Insert(listing[p], r, p) /\ r \notin Elements(listing[p])
      /\ \A q \in Path \ {p} : listing'[q] = listing[q]
      /\ \A q \in Rec \ {r} : home'[q] = home[q]
  BY LinkLists DEF ListingInv
<1>2. numFiles' = IF p \in UdfPath THEN numFiles + 1 ELSE numFiles
  BY Zenon DEF Link
<1> HIDE DEF p
<1>3. Distinct'
  <2>1. listing[p] \in Seq(Rec) /\ Injective(listing[p])
    BY <1>1 DEF ListingInv, TypeInv, TypeOK, Distinct
  <2>2. Injective(listing'[p])
    BY <1>1, <2>1, InsertDistinct
  <2>3. QED
    BY <1>1, <2>2 DEF ListingInv, Distinct
<1>4. UdfEntries' = IF p \in UdfPath THEN UdfEntries \cup {r} ELSE UdfEntries
  <2>1. Entries \subseteq Rec
    BY DEF Entries
  <2>2. QED
    BY <1>1, <2>1, UdfEntriesDef
<1>5. UdfEntries \subseteq Rec /\ r \notin UdfEntries
  BY <1>1 DEF UdfEntries, Entries
<1>6. QED
  BY <1>2, <1>3, <1>4, <1>5, SetOfRecords DEF ListingInv, UdfCounted

LEMMA DropKeepsListings ==
  ASSUME ListingInv, TypeInv', NEW p \in Path, NEW v \in Rec, Drops(p, v),
         numFiles' = IF p \in UdfPath THEN numFiles - 1 ELSE numFiles
  PROVE  ListingInv'
<1>1. /\ v \in Entries /\ home[v] = p /\ Entries' = Entries \ {v}
      /\ \A r \in Entries \ {v} : home'[r] = home[r]
  BY DropUnlists DEF ListingInv
<1>2. Distinct'
  BY DropDistinct DEF ListingInv
<1>3. UdfEntries' = IF p \in UdfPath THEN UdfEntries \ {v} ELSE UdfEntries
  BY <1>1, UdfEntriesDef
<1>4. UdfEntries \subseteq Rec /\ (p \in UdfPath => v \in UdfEntries)
  BY <1>1, UdfEntriesDef DEF UdfEntries
<1>5. QED
  BY <1>2, <1>3, <1>4, SetOfRecords DEF ListingInv, UdfCounted

LEMMA RmDrLinkKeepsListings ==
  ASSUME ListingInv, TypeInv', RmDrLink
  PROVE  ListingInv'
<1>1. /\ call.cur # None /\ home[call.cur] \notin UdfPath
      /\ listing' \in Delete(call.cur) /\ numFiles' = numFiles
  BY DEF RmDrLink
<1>2. call.cur \in Rec /\ home[call.cur] \in Path \ UdfPath
  BY <1>1, CurType DEF ListingInv
<1>3. PICK p \in Path \ UdfPath, v \in Rec : Drops(p, v)
  BY <1>1, <1>2, DeleteDrops DEF ListingInv
<1>4. QED
  BY <1>1, <1>3, DropKeepsListings

LEMMA RmUdfLinkKeepsListings ==
  ASSUME ListingInv, TypeInv', RmUdfLink
  PROVE  ListingInv'
<1> DEFINE p == home[call.cur]
<1>1. /\ call.cur # None /\ p \in UdfPath
      /\ UNCHANGED tree \/ (Exists(p) /\ RmUdfFileIdent(p))
  BY DEF RmUdfLink
<1>2. p \in Path
  BY <1>1, CurType DEF ListingInv
<1>3. CASE UNCHANGED tree
  BY <1>3, SameListingsKeep DEF tree
<1>4. CASE Exists(p) /\ RmUdfFileIdent(p)
  <2>1. Drops(p, Lookup(p)) /\ Lookup(p) \in Rec /\ numFiles' = numFiles - 1
    BY <1>2, <1>4, TailDrops DEF ListingInv, RmUdfFileIdent
  <2>2. QED
    BY <1>1, <1>2, <2>1, DropKeepsListings
<1>5. QED
  BY <1>1, <1>3, <1>4

LEMMA RequestKeepsTree ==
  ASSUME Request
  PROVE  UNCHANGED <<tree, links>>
<1>1. ASSUME NEW f \in Contents, NEW s \in Targets, AddFp(f, s) PROVE UNCHANGED <<tree, links>>
  BY <1>1 DEF AddFp
<1>2. ASSUME NEW old \in Path, NEW new \in Path, AddHardLink(old, new)
      PROVE  UNCHANGED <<tree, links>>
  BY <1>2 DEF AddHardLink
<1>3. ASSUME NEW new \in Path, LinkBootCatalog(new) PROVE UNCHANGED <<tree, links>>
  BY <1>3 DEF LinkBootCatalog
<1>4. ASSUME NEW old \in IsoPath, NEW s \in Targets, AddEltorito(old, s)
      PROVE  UNCHANGED <<tree, links>>
  BY <1>4 DEF AddEltorito
<1>5. ASSUME NEW old \in IsoPath, AddSection(old) PROVE UNCHANGED <<tree, links>>
  BY <1>5 DEF AddSection
<1>6. ASSUME NEW p \in Path, RmHardLink(p) \/ RmFile(p) PROVE UNCHANGED <<tree, links>>
  BY <1>6 DEF RmHardLink, RmFile
<1>7. CASE RmEltorito
  BY <1>7 DEF RmEltorito
<1>8. QED
  BY <1>1, <1>2, <1>3, <1>4, <1>5, <1>6, <1>7 DEF Request

LEMMA StepKeepsListings == ListingInv /\ [Next]_vars => ListingInv'
<1> SUFFICES ASSUME ListingInv, [Next]_vars PROVE ListingInv'
  OBVIOUS
<1>1. TypeInv'
  BY StepType DEF ListingInv
<1>2. CASE Request
  BY <1>1, <1>2, RequestKeepsTree, SameListingsKeep DEF tree
<1>3. ASSUME NEW r \in Rec, Link(r) PROVE ListingInv'
  BY <1>1, <1>3, LinkKeepsListings
<1>4. CASE \/ Track \/ NextSegment \/ FinishAdd \/ Refuse \/ RmDrLinkFails \/ NextLink
           \/ NextCatalogRecord \/ FinishRemove \/ FinishRmEltorito
  <2>1. UNCHANGED <<listing, numFiles>>
    BY <1>4 DEF Track, NextSegment, FinishAdd, Refuse, RmDrLinkFails, NextLink,
       NextCatalogRecord, FinishRemove, FinishRmEltorito, tree
  <2>2. QED
    BY <1>1, <2>1, SameListingsKeep
<1>5. CASE RmDrLink \/ RmUdfLink
  BY <1>1, <1>5, RmDrLinkKeepsListings, RmUdfLinkKeepsListings
<1>6. CASE UNCHANGED vars
  BY <1>1, <1>6, SameListingsKeep DEF vars
<1>7. QED
  BY <1>2, <1>3, <1>4, <1>5, <1>6 DEF Next, Step

LEMMA InitListings == Init => ListingInv
<1> SUFFICES ASSUME Init PROVE ListingInv
  OBVIOUS
<1>1. TypeInv
  BY InitType
<1>2. \A p \in Path : listing[p] = <<>>
  BY DEF Init
<1>3. Distinct
  BY <1>2 DEF Distinct, Injective
<1>4. UdfEntries = {}
  <2>1. \A r \in Rec : home[r] = None
    BY DEF Init
  <2>2. QED
    BY <2>1 DEF UdfEntries, Listed
<1>5. numFiles = 0
  BY DEF Init
<1>6. QED
  BY <1>1, <1>3, <1>4, <1>5, FS_EmptySet DEF ListingInv, UdfCounted

\* No directory record is ever listed twice, however the client uses the
\* library: remove_child and _rm_udf_file_ident take out one entry each.
THEOREM NothingListedTwice == Spec => []ListingInv
<1>1. Init => ListingInv
  BY InitListings
<1>2. ListingInv /\ [Next]_vars => ListingInv'
  BY StepKeepsListings
<1>3. QED
  BY <1>1, <1>2, PTL DEF Spec

\* The number of files in the UDF Logical Volume Integrity Descriptor is the
\* number of UDF file names, whatever the client does and whatever fails.
THEOREM FileCountRight == Spec => []UdfFileCount
<1>1. ListingInv => UdfFileCount
  BY DEF ListingInv, UdfCounted, UdfEntries, UdfFileCount
<1>2. QED
  BY <1>1, NothingListedTwice, PTL

-----------------------------------------------------------------------------
(* A careful client.                                                        *)

Careful == Faults = {} /\ (BigFiles = {} \/ UdfPath = {})

\* A listing has several records only for the segments of a file.
FewNames == \A p \in Path : p \in UdfPath \/ BigFiles = {} => Len(listing[p]) <= 1
LinksExact == \A i \in Data : linked[i] = {r \in Entries : ino[r] = i}
CountsExact == \A i \in Data : numUdf[i] = Cardinality({r \in UdfEntries : ino[r] = i})
TreeExact == FewNames /\ LinksExact /\ CountsExact

-----------------------------------------------------------------------------
(* The call in progress. *)

Pending == Elements(call.todo)
PathsOnce(todo) ==
  \A j, k \in 1..Len(todo) : todo[j].path = todo[k].path /\ todo[j].path # None => j = k

CallShape ==
  /\ call.op = "idle" => call = Idle
  /\ call.op # "add" => call.todo = <<>> /\ call.segs = <<>> /\ call.new = {} /\ ~call.cat
  /\ call.op \notin Removing => call.cur = None
  /\ call.op # "rm_eltorito" => call.queue = <<>>

\* All the data goes to names that are free.
OneFile ==
  /\ call.segs = <<>>
  /\ call.new \cap Segments = {}
  /\ \A m \in Pending : m.ino \notin Segments /\ (m.path # None => listing[m.path] = <<>>)

\* Segment n of file f is being added, the ones before are in place.
SegmentPaths == {call.paths[1], call.paths[2]} \ {None}
InSegments(f, n) ==
  /\ call.new = Elements(f) /\ ~call.cat
  /\ call.segs = SubSeq(f, n + 1, Len(f)) /\ SegmentPaths # {}
  /\ \A i \in Elements(call.segs) : linked[i] = {}
  /\ \A m \in Pending : m.ino = f[n] /\ m.path \in SegmentPaths \cup {None}
  /\ \A m \in Pending : m.path # None => \A r \in Elements(listing[m.path]) : ino[r] # f[n]
  /\ \A p \in SegmentPaths :
       /\ listing[p] # <<>> \/ (n = 1 /\ \E m \in Pending : m.path = p)
       /\ \A r \in Elements(listing[p]) : ino[r] \in Elements(f)
InFile == OneFile \/ \E f \in BigFiles : \E n \in 1..Len(f) : InSegments(f, n)

\* What is appended to self.inodes has or gets a path, and the other way round.
TodoShape ==
  /\ PathsOnce(call.todo)
  /\ \A m \in Pending : m.path = None =>
       /\ m.ino \in call.new
       /\ linked[m.ino] # {} \/ \E o \in Pending : o.path # None /\ o.ino = m.ino
  /\ \A m \in Pending : m.path # None =>
       /\ m.ino = None <=> call.cat
       /\ m.ino \in inodes \cup {None} \/ \E o \in Pending : o.path = None /\ o.ino = m.ino

NewData ==
  /\ call.new \cap Elements(boot.entries) = {}
  /\ ~call.dirty => \A i \in call.new : i \notin inodes /\ linked[i] = {}

Adding == call.op = "add" => InFile /\ TodoShape /\ NewData

-----------------------------------------------------------------------------
(* The chains of segments, and what is being removed. *)

LastSegments == {f[Len(f)] : f \in BigFiles}
Continuations == {r \in Rec : \E q \in Rec \ {r} : cont[q] = r}

\* The paths whose file does not have its last segment yet.
Growing ==
  IF call.op = "add" /\ call.dirty
    THEN {m.path : m \in Pending} \cup (IF call.segs = <<>> THEN {} ELSE SegmentPaths)
    ELSE {}

\* Only the first record of a file continues, in one of its other segments,
\* and in the end that is the last one.
Chains ==
  \A q \in Rec : cont[q] # None =>
    /\ q \in Entries /\ cont[q] \in Entries
    /\ home[cont[q]] = home[q] /\ home[q] \notin UdfPath /\ q = listing[home[q]][1]
    /\ ino[q] \in Segments /\ ino[cont[q]] \in Segments
    /\ ino[cont[q]] \in LastSegments \/ home[q] \in Growing
LastsChained ==
  \A r \in Entries : ino[r] \in LastSegments => r = call.cur \/ r \in Continuations
ChainsExact == Chains /\ LastsChained

InHand ==
  /\ call.cur # None => call.cur \in Entries \ Continuations
  /\ call.op = "rm_hard_link" /\ call.cur # None => ino[call.cur] # None
  /\ call.op = "rm_file" =>
       /\ call.ino \in Data \ Elements(boot.entries)
       /\ linked[call.ino] \cap Continuations = {}
       /\ call.cur # None => ino[call.cur] \in {call.ino} \cup Segments
  /\ call.op = "rm_eltorito" =>
       /\ boot.on /\ \A i \in Elements(boot.entries) : linked[i] # {}
       /\ call.cur \in Elements(boot.recs) \cup {None}
       /\ call.cur \notin Elements(call.queue) /\ Injective(call.queue)

\* The records without data are those of the boot catalog, which go one by one.
CatalogExact ==
  /\ Injective(boot.recs)
  /\ \A r \in Entries : ino[r] = None => r \in Elements(boot.recs)
  /\ \A r \in Elements(boot.recs) :
       r \in Entries <=> call.op # "rm_eltorito" \/ r \in {call.cur} \cup Elements(call.queue)
  /\ ~boot.on => boot = NoCatalog
  /\ brs = IF boot.on /\ call.op # "rm_eltorito" THEN 1 ELSE 0
  /\ call.cat => boot.on

-----------------------------------------------------------------------------
(* What is stored and what is charged. *)

NamedData == {i \in Data : linked[i] # {}} \cup Elements(boot.entries)
Untracked == {m.ino : m \in {o \in Pending : o.path = None}}
PendingData == {m.ino : m \in Pending}

StoredExact ==
  /\ \A i \in NamedData : i \in inodes \/ (call.dirty /\ i \in Untracked)
  /\ \A i \in inodes : i \in NamedData \/ (call.dirty /\ i \in PendingData \cap call.new)

ExpectedData == NamedData \cup PendingData \cup Elements(call.segs)
Charged == Merge(space, call.acc)
BootMisc == IF ~boot.on THEN 0 ELSE IF call.op = "rm_eltorito" \/ HasUdf THEN 1 ELSE 2

DataCharged == \A i \in Data : Charged.data[i] = IF i \in ExpectedData THEN 1 ELSE 0
EntriesCharged ==
  \A i \in Data : Charged.fe[i] = IF \E r \in UdfEntries : ino[r] = i THEN 1 ELSE 0
MiscCharged == Charged.misc = BootMisc + Cardinality({r \in UdfEntries : ino[r] = None})
SpaceCharged ==
  /\ call.new \subseteq ExpectedData
  /\ DataCharged /\ EntriesCharged /\ MiscCharged
  /\ call.op = "add" /\ ~call.dirty => space = Needed

CarefulInv ==
  /\ ListingInv /\ TreeExact /\ CallShape /\ Adding /\ ChainsExact /\ InHand
  /\ CatalogExact /\ StoredExact /\ SpaceCharged /\ NoInternalError

-----------------------------------------------------------------------------
(* The links: what a step does to the records of a piece of data. *)

LEMMA NoneApart == None \notin Data /\ None \notin Rec /\ None \notin Path
BY HardLinksAssumption

LEMMA EntriesType ==
  ASSUME TypeInv
  PROVE  /\ Entries \subseteq Rec /\ UdfEntries \subseteq Entries
         /\ UdfEntries = {r \in Entries : home[r] \in UdfPath}
         /\ \A r \in Entries : home[r] \in Path /\ r \in Elements(listing[home[r]])
<1>1. Entries \subseteq Rec
  BY DEF Entries
<1>2. UdfEntries = {r \in Entries : home[r] \in UdfPath}
  BY UdfEntriesDef
<1>3. \A r \in Entries : home[r] \in Path /\ r \in Elements(listing[home[r]])
  BY <1>1, ListedSomewhere
<1>4. QED
  BY <1>1, <1>2, <1>3

\* A step that changes no listing and no link.
Quiet == UNCHANGED <<listing, cont, numFiles, ino, linked, numUdf>>

LEMMA QuietKeeps ==
  ASSUME TypeInv, TypeInv', Quiet
  PROVE  /\ Entries' = Entries /\ UdfEntries' = UdfEntries /\ Continuations' = Continuations
         /\ \A r \in Entries : home'[r] = home[r]
         /\ TreeExact => TreeExact'
<1>1. Entries' = Entries /\ \A r \in Entries : home'[r] = home[r]
  BY SameListings DEF Quiet
<1>2. UdfEntries' = UdfEntries
  BY <1>1, UdfEntriesDef
<1>3. Continuations' = Continuations
  BY DEF Quiet, Continuations
<1>4. FewNames => FewNames'
  BY DEF Quiet, FewNames
<1>5. LinksExact => LinksExact'
  BY <1>1 DEF Quiet, LinksExact
<1>6. CountsExact => CountsExact'
  BY <1>2 DEF Quiet, CountsExact
<1>7. QED
  BY <1>1, <1>2, <1>3, <1>4, <1>5, <1>6 DEF TreeExact

LEMMA HeadAndTail ==
  ASSUME NEW S, NEW s \in Seq(S), s # <<>>
  PROVE  /\ Head(s) \in Elements(s) /\ Elements(s) = Elements(Tail(s)) \cup {Head(s)}
         /\ Elements(s) \subseteq S
<1>1. /\ Head(s) = s[1] /\ Tail(s) \in Seq(S)
      /\ Len(Tail(s)) = Len(s) - 1 /\ Len(s) \in Nat \ {0}
      /\ \A k \in 1..Len(Tail(s)) : Tail(s)[k] = s[k + 1]
  BY HeadTailProperties, EmptySeq
<1>2. ASSUME NEW k \in 1..Len(s), k # 1 PROVE s[k] \in Elements(Tail(s))
  <2>1. k - 1 \in 1..Len(Tail(s)) /\ Tail(s)[k - 1] = s[k]
    BY <1>1, <1>2
  <2>2. QED
    BY <2>1 DEF Elements
<1>3. ASSUME NEW k \in 1..Len(Tail(s)) PROVE Tail(s)[k] \in Elements(s)
  <2>1. k + 1 \in 1..Len(s) /\ Tail(s)[k] = s[k + 1]
    BY <1>1, <1>3
  <2>2. QED
    BY <2>1 DEF Elements
<1>4. Head(s) \in Elements(s)
  BY <1>1 DEF Elements
<1>5. Elements(s) \subseteq S
  BY DEF Elements
<1>6. ASSUME NEW x \in Elements(s) PROVE x \in Elements(Tail(s)) \cup {Head(s)}
  BY <1>1, <1>2 DEF Elements
<1>7. ASSUME NEW x \in Elements(Tail(s)) PROVE x \in Elements(s)
  BY <1>3 DEF Elements
<1>8. QED
  BY <1>4, <1>5, <1>6, <1>7

\* The next item, and the ones after it.
LEMMA HeadIsPending ==
  ASSUME TypeInv, call.todo # <<>>
  PROVE  /\ Head(call.todo) \in Pending
         /\ Pending = Elements(Tail(call.todo)) \cup {Head(call.todo)}
         /\ PathsOnce(call.todo) =>
              /\ PathsOnce(Tail(call.todo))
              /\ \A m \in Elements(Tail(call.todo)) : m.path # None => m.path # Head(call.todo).path
<1>1. call.todo \in Seq(Item)
  BY DEF TypeInv, TypeOK, Call
<1>2. /\ Head(call.todo) = call.todo[1] /\ Tail(call.todo) \in Seq(Item)
      /\ Len(Tail(call.todo)) = Len(call.todo) - 1 /\ Len(call.todo) \in Nat \ {0}
      /\ \A k \in 1..Len(Tail(call.todo)) : Tail(call.todo)[k] = call.todo[k + 1]
  BY <1>1, HeadTailProperties, EmptySeq
<1>3. /\ 1 \in 1..Len(call.todo)
      /\ \A k \in 1..Len(Tail(call.todo)) : k + 1 \in 1..Len(call.todo) /\ k + 1 # 1
  BY <1>2
<1>4. /\ Head(call.todo) \in Pending
      /\ Pending = Elements(Tail(call.todo)) \cup {Head(call.todo)}
  BY <1>1, HeadAndTail DEF Pending
<1>5. PathsOnce(call.todo) => PathsOnce(Tail(call.todo))
  BY <1>2, <1>3 DEF PathsOnce
<1>6. ASSUME PathsOnce(call.todo), NEW m \in Elements(Tail(call.todo)), m.path # None
      PROVE  m.path # Head(call.todo).path
  <2>1. PICK k \in 1..Len(Tail(call.todo)) : m = Tail(call.todo)[k]
    BY <1>6 DEF Elements
  <2>2. m = call.todo[k + 1] /\ k + 1 \in 1..Len(call.todo) /\ k + 1 # 1
    BY <1>2, <1>3, <2>1
  <2>3. QED
    BY <1>2, <1>3, <1>6, <2>2 DEF PathsOnce
<1>7. QED
  BY <1>4, <1>5, <1>6

-----------------------------------------------------------------------------
(* Link, as the other proofs see it. *)

Adds(r, p, i) ==
  /\ r \in Rec \ Entries /\ p \in Path /\ i \in InoOrNone
  /\ Entries' = Entries \cup {r} /\ home'[r] = p /\ ino'[r] = i
  /\ \A q \in Rec \ {r} : home'[q] = home[q] /\ ino'[q] = ino[q]
  /\ listing'[p] = Insert(listing[p], r, p) /\ r \notin Elements(listing[p])
  /\ Elements(listing'[p]) = Elements(listing[p]) \cup {r}
  /\ \A q \in Path \ {p} : listing'[q] = listing[q]
  /\ linked' = IF i = None THEN linked ELSE [linked EXCEPT ![i] = @ \cup {r}]
  /\ numUdf' = IF i = None \/ p \notin UdfPath THEN numUdf ELSE [numUdf EXCEPT ![i] = @ + 1]
  /\ cont' = [q \in Rec |-> IF p \notin UdfPath /\ listing[p] # <<>> /\ q = listing[p][1] THEN r
                            ELSE IF q = r THEN None ELSE cont[q]]

LEMMA LinkAdds ==
  ASSUME ListingInv, ListingInv', NEW r \in Rec, Link(r)
  PROVE  Adds(r, Head(call.todo).path, Head(call.todo).ino)
<1> DEFINE p == Head(call.todo).path
           i == Head(call.todo).ino
<1>1. /\ linked' = IF i = None THEN linked ELSE [linked EXCEPT ![i] = @ \cup {r}]
      /\ numUdf' = IF i = None \/ p \notin UdfPath THEN numUdf ELSE [numUdf EXCEPT ![i] = @ + 1]
      /\ cont' = [q \in Rec |-> IF p \notin UdfPath /\ Exists(p) /\ q = Lookup(p) THEN r
                               ELSE IF q = r THEN None ELSE cont[q]]
  BY Zenon DEF Link
<1>2. p \in Path /\ i \in InoOrNone /\ listing[p] \in Seq(Rec)
  BY NextItem DEF ListingInv, TypeInv, TypeOK
<1> HIDE DEF p, i
<1>3. Exists(p) => Lookup(p) = listing[p][1]
  BY <1>2 DEF Exists, Lookup
<1>4. \A q : Exists(p) /\ q = Lookup(p) <=> listing[p] # <<>> /\ q = listing[p][1]
  BY <1>3 DEF Exists
<1>5. cont' = [q \in Rec |-> IF p \notin UdfPath /\ listing[p] # <<>> /\ q = listing[p][1] THEN r
                             ELSE IF q = r THEN None ELSE cont[q]]
  BY <1>1, <1>4
<1>6. /\ r \notin Entries /\ Entries' = Entries \cup {r}
      /\ home'[r] = p /\ ino'[r] = i
      /\ listing'[p] = Insert(listing[p], r, p) /\ r \notin Elements(listing[p])
      /\ Elements(listing'[p]) = Elements(listing[p]) \cup {r}
      /\ \A q \in Path \ {p} : listing'[q] = listing[q]
      /\ \A q \in Rec \ {r} : home'[q] = home[q] /\ ino'[q] = ino[q]
  BY LinkLists DEF ListingInv, p, i
<1>7. Adds(r, p, i)
  BY <1>1, <1>2, <1>5, <1>6 DEF Adds
<1>8. QED
  BY <1>7 DEF p, i

\* A name in UDF, and any name if all files have one segment, is free.
LEMMA NameIsFree ==
  ASSUME Careful, InFile, NEW m \in Pending, m.path # None, m.path \in UdfPath \/ BigFiles = {}
  PROVE  listing[m.path] = <<>>
<1>1. CASE OneFile
  BY <1>1 DEF OneFile
<1>2. CASE \E f \in BigFiles : \E n \in 1..Len(f) : InSegments(f, n)
  BY <1>2 DEF Careful
<1>3. QED
  BY <1>1, <1>2 DEF InFile

LEMMA AddsKeepsTree ==
  ASSUME ListingInv, ListingInv', TreeExact, NEW r, NEW p, NEW i, Adds(r, p, i),
         p \in UdfPath \/ BigFiles = {} => listing[p] = <<>>
  PROVE  TreeExact'
<1>1. /\ TypeOK /\ Entries \subseteq Rec /\ UdfEntries = {q \in Entries : home[q] \in UdfPath}
      /\ UdfEntries \subseteq Rec
  BY EntriesType DEF ListingInv, TypeInv
<1>2. /\ r \in Rec \ Entries /\ p \in Path /\ i \in Data \cup {None}
      /\ Entries' = Entries \cup {r} /\ home'[r] = p /\ ino'[r] = i
      /\ \A q \in Rec \ {r} : home'[q] = home[q] /\ ino'[q] = ino[q]
      /\ linked' = IF i = None THEN linked ELSE [linked EXCEPT ![i] = @ \cup {r}]
      /\ numUdf' = IF i = None \/ p \notin UdfPath THEN numUdf ELSE [numUdf EXCEPT ![i] = @ + 1]
  BY DEF Adds, InoOrNone
<1>3. FewNames'
  <2>1. p \in UdfPath \/ BigFiles = {} => Len(listing'[p]) = 1
    <3> SUFFICES ASSUME p \in UdfPath \/ BigFiles = {} PROVE Len(listing'[p]) = 1
      OBVIOUS
    <3>1. listing'[p] = Append(<<>>, r)
      BY DEF Adds, Insert
    <3>2. QED
      BY <3>1
  <2>2. \A q \in Path \ {p} : listing'[q] = listing[q]
    BY DEF Adds
  <2>3. FewNames
    BY DEF TreeExact
  <2>4. ASSUME NEW q \in Path, q \in UdfPath \/ BigFiles = {} PROVE Len(listing'[q]) <= 1
    <3>1. CASE q = p
      <4>1. Len(listing'[q]) = 1
        BY <2>1, <2>4, <3>1
      <4>2. QED
        BY <4>1
    <3>2. CASE q # p
      <4>1. listing'[q] = listing[q]
        BY <2>2, <3>2
      <4>2. QED
        BY <2>3, <2>4, <4>1 DEF FewNames
    <3>3. QED
      BY <3>1, <3>2
  <2>5. QED
    BY <2>4 DEF FewNames
<1>4. LinksExact'
  <2>1. ASSUME NEW j \in Data PROVE linked'[j] = {q \in Entries' : ino'[q] = j}
    <3>1. linked[j] = {q \in Entries : ino[q] = j}
      BY DEF TreeExact, LinksExact
    <3>2. linked'[j] = IF i = j THEN linked[j] \cup {r} ELSE linked[j]
      BY <1>1, <1>2, NoneApart DEF TypeOK
    <3>3. QED
      BY <1>1, <1>2, <3>1, <3>2
  <2>2. QED
    BY <2>1 DEF LinksExact
<1>5. UdfEntries' = IF p \in UdfPath THEN UdfEntries \cup {r} ELSE UdfEntries
  BY <1>1, <1>2, UdfEntriesDef
<1>6. CountsExact'
  <2>1. ASSUME NEW j \in Data
        PROVE  numUdf'[j] = Cardinality({q \in UdfEntries' : ino'[q] = j})
    <3> DEFINE S == {q \in UdfEntries : ino[q] = j}
    <3>1. numUdf[j] = Cardinality(S) /\ numUdf \in [Data -> Int]
      BY <1>1 DEF TreeExact, CountsExact, TypeOK
    <3>2. {q \in UdfEntries' : ino'[q] = j} = IF p \in UdfPath /\ i = j THEN S \cup {r} ELSE S
      BY <1>1, <1>2, <1>5
    <3>3. S \subseteq Rec /\ r \in Rec \ S
      BY <1>1, <1>2
    <3> HIDE DEF S
    <3>4. Cardinality(S \cup {r}) = Cardinality(S) + 1
      BY <3>3, SetOfRecords
    <3>5. numUdf'[j] = IF p \in UdfPath /\ i = j THEN numUdf[j] + 1 ELSE numUdf[j]
      BY <1>2, <3>1, NoneApart
    <3>6. QED
      BY <3>1, <3>2, <3>4, <3>5
  <2>2. QED
    BY <2>1 DEF CountsExact
<1>7. QED
  BY <1>3, <1>4, <1>6 DEF TreeExact

-----------------------------------------------------------------------------
(* The removal of a link, as the other proofs see it. *)

LEMMA SegmentsType ==
  /\ Segments \subseteq Data /\ LastSegments \subseteq Segments
  /\ BigFiles = {} => Segments = {}
  /\ \A f \in BigFiles : /\ f \in Seq(Data) /\ Len(f) \in Nat /\ Len(f) > 1
                         /\ Elements(f) \subseteq Segments
                         /\ \A n \in 1..Len(f) : f[n] \in Data /\ f[n] \in Segments
<1>1. \A f \in BigFiles : f \in Seq(Data) /\ Len(f) > 1
  BY HardLinksAssumption
<1>2. ASSUME NEW f \in BigFiles
      PROVE  /\ Len(f) \in Nat /\ \A n \in 1..Len(f) : f[n] \in Data /\ f[n] \in Elements(f)
             /\ Elements(f) \subseteq Data
  BY <1>1 DEF Elements
<1>3. \A f \in BigFiles : Elements(f) \subseteq Segments
  BY DEF Segments
<1>4. \A f \in BigFiles : Len(f) \in 1..Len(f)
  BY <1>1, <1>2
<1>5. LastSegments \subseteq Segments
  BY <1>2, <1>3, <1>4 DEF LastSegments
<1>6. Segments \subseteq Data
  BY <1>2 DEF Segments
<1>7. BigFiles = {} => Segments = {}
  BY DEF Segments
<1>8. \A f \in BigFiles : \A n \in 1..Len(f) : f[n] \in Data /\ f[n] \in Segments
  BY <1>2, <1>3
<1>9. QED
  BY <1>1, <1>2, <1>3, <1>5, <1>6, <1>7, <1>8

Refunded(r) ==
  IF home[r] \notin UdfPath THEN Refund(r)
  ELSE IF ino[r] = None THEN [Refund(r) EXCEPT !.misc = @ - 1]
  ELSE IF numUdf[ino[r]] = 1 THEN [Refund(r) EXCEPT !.fe[ino[r]] = @ - 1]
  ELSE Refund(r)

Removes(r) ==
  /\ r \in Entries /\ Drops(home[r], r) /\ Entries' = Entries \ {r}
  /\ \A q \in Rec \ {r} : home'[q] = home[q] /\ ino'[q] = ino[q]
  /\ cont' = [cont EXCEPT ![r] = None]
  /\ Unlink(r)
  /\ numUdf' = IF ino[r] = None \/ home[r] \notin UdfPath THEN numUdf
               ELSE [numUdf EXCEPT ![ino[r]] = @ - 1]
  /\ call.op \in Removing
  /\ call' = [call EXCEPT !.acc = Refunded(r), !.cur = cont[r]]
  /\ UNCHANGED <<boot, brs, space, raised>>

\* The record in hand is linked, and its inode is where the code looks for it.
LEMMA InHandNotDangling ==
  ASSUME CarefulInv, call.cur # None
  PROVE  /\ call.cur \in Entries /\ call.cur \in Rec /\ home[call.cur] \in Path
         /\ call.op \in Removing /\ ~Dangling(call.cur) /\ ~Chained(call.cur)
         /\ ino[call.cur] = None => cont[call.cur] = None
         /\ ino[call.cur] \in Data \cup {None}
<1> DEFINE r == call.cur
           i == ino[r]
<1>1. r \in Entries /\ r \in Rec /\ home[r] \in Path /\ r \notin Continuations /\ TypeOK
  BY EntriesType DEF CarefulInv, InHand, ListingInv, TypeInv
<1>2. call.op \in Removing /\ call.op # "add"
  BY DEF CarefulInv, CallShape, Removing
<1>3. i \in Data \cup {None}
  BY <1>1 DEF TypeOK
<1>4. i # None => r \in linked[i]
  BY <1>1, <1>3 DEF CarefulInv, TreeExact, LinksExact
<1>5. call.todo = <<>> /\ Untracked = {}
  <2>1. call.todo = <<>>
    BY <1>2 DEF CarefulInv, CallShape
  <2>2. QED
    BY <2>1 DEF Untracked, Pending, Elements
<1>6. i # None => i \in inodes
  <2>1. i # None => i \in NamedData
    BY <1>3, <1>4 DEF NamedData
  <2>2. QED
    BY <1>5, <2>1 DEF CarefulInv, StoredExact
<1> HIDE DEF r, i
<1>7. ~Dangling(r)
  BY <1>4, <1>6 DEF Dangling, i
<1>8. ~Chained(r)
  BY <1>1 DEF Chained, Continuations
<1>9. i = None => cont[r] = None
  <2>1. cont[r] # None => ino[r] \in Segments
    BY <1>1 DEF CarefulInv, ChainsExact, Chains
  <2>2. QED
    BY <2>1, SegmentsType, NoneApart DEF i
<1>10. QED
  BY <1>1, <1>2, <1>3, <1>7, <1>8, <1>9 DEF r, i

LEMMA ForgetsCont ==
  ASSUME CarefulInv, call.cur # None, Forget(call.cur), Drops(home[call.cur], call.cur)
  PROVE  /\ \A q \in Rec \ {call.cur} : home'[q] = home[q] /\ ino'[q] = ino[q]
         /\ cont' = [cont EXCEPT ![call.cur] = None]
<1> DEFINE r == call.cur
<1>1. r \in Rec /\ home[r] \in Path /\ ~Chained(r) /\ (ino[r] = None => cont[r] = None)
  BY InHandNotDangling
<1>2. TypeOK
  BY DEF CarefulInv, ListingInv, TypeInv
<1>3. r \notin Elements(listing'[home[r]])
  BY DEF Drops
<1> HIDE DEF r
<1>4. CASE r \in Elements(boot.recs)
  <2>1. UNCHANGED <<home, ino, cont>>
    BY <1>4 DEF Forget, Held, r
  <2>2. cont[r] = None
    BY <1>1, <1>4 DEF CarefulInv, ListingInv, TypeInv, Hangs, CatalogHasHomes
  <2>3. cont = [cont EXCEPT ![r] = None]
    BY <1>1, <1>2, <2>2 DEF TypeOK
  <2>4. QED
    BY <2>1, <2>3 DEF r
<1>5. CASE r \notin Elements(boot.recs)
  <2>1. ~Held(r)
    BY <1>1, <1>5 DEF Held
  <2>2. /\ home' = [home EXCEPT ![r] = None]
        /\ ino' = [ino EXCEPT ![r] = None]
        /\ cont' = [cont EXCEPT ![r] = None]
    BY <1>3, <2>1 DEF Forget, r
  <2>3. QED
    BY <1>1, <1>2, <2>2 DEF TypeOK, r
<1>6. QED
  BY <1>4, <1>5

LEMMA DrLinkRemoves ==
  ASSUME CarefulInv, ListingInv', RmDrLink
  PROVE  Removes(call.cur)
<1> DEFINE r == call.cur
           next == IF call.op = "rm_file" /\ call.ino = None THEN None ELSE cont[r]
<1>1. /\ call.cur # None /\ home[r] \notin UdfPath
      /\ listing' \in Delete(r) /\ Forget(r) /\ Unlink(r)
      /\ IF Dangling(r) THEN Raise("internal")
         ELSE /\ call' = [call EXCEPT !.acc = Refund(r), !.cur = next]
              /\ UNCHANGED <<space, raised>>
      /\ UNCHANGED <<numUdf, numFiles, boot, brs>>
  BY DEF RmDrLink
<1>2. /\ r \in Entries /\ r \in Rec /\ home[r] \in Path /\ Listed(r)
      /\ call.op \in Removing /\ ~Dangling(r)
  BY <1>1, InHandNotDangling DEF Entries
<1>3. /\ call' = [call EXCEPT !.acc = Refund(r), !.cur = next]
      /\ UNCHANGED <<space, raised>>
  BY <1>1, <1>2
<1>4. next = cont[r]
  <2>1. call.op = "rm_file" => call.ino # None
    BY NoneApart DEF CarefulInv, InHand
  <2>2. QED
    BY <2>1
<1>5. Drops(home[r], r)
  <2>1. \E p \in Path \ UdfPath, v \in Rec : Drops(p, v) /\ (Listed(r) => v = r /\ p = home[r])
    BY <1>1, <1>2, DeleteDrops DEF CarefulInv, ListingInv
  <2>2. QED
    BY <1>2, <2>1
<1>6. Entries' = Entries \ {r}
  BY <1>2, <1>5, DropUnlists DEF CarefulInv, ListingInv
<1>7. /\ \A q \in Rec \ {r} : home'[q] = home[q] /\ ino'[q] = ino[q]
      /\ cont' = [cont EXCEPT ![r] = None]
  BY <1>1, <1>5, ForgetsCont
<1>8. Refunded(r) = Refund(r)
  BY <1>1 DEF Refunded
<1> HIDE DEF r, next
<1>9. Removes(r)
  BY <1>1, <1>2, <1>3, <1>4, <1>5, <1>6, <1>7, <1>8 DEF Removes
<1>10. QED
  BY <1>9 DEF r

LEMMA UdfLinkRemoves ==
  ASSUME CarefulInv, ListingInv', RmUdfLink
  PROVE  Removes(call.cur)
<1> DEFINE r == call.cur
           i == ino[r]
           p == home[r]
           charge == IF i = None THEN [Refund(r) EXCEPT !.misc = @ - 1]
                     ELSE IF numUdf[i] = 1 THEN [Refund(r) EXCEPT !.fe[i] = @ - 1]
                     ELSE Refund(r)
           fails == Dangling(r) \/ ~Exists(p)
<1>1. /\ call.cur # None /\ p \in UdfPath /\ Unlink(r) /\ Uncount(r)
      /\ IF fails
           THEN /\ Raise(IF Dangling(r) THEN "internal" ELSE "invalid")
                /\ UNCHANGED <<tree, ino>>
           ELSE /\ RmUdfFileIdent(p)
                /\ Forget(r)
                /\ call' = [call EXCEPT !.cur = None, !.acc = charge]
                /\ UNCHANGED <<space, raised>>
      /\ UNCHANGED <<boot, brs>>
  BY Zenon DEF RmUdfLink
<1>2. /\ r \in Entries /\ r \in Rec /\ p \in Path /\ i \in Data \cup {None}
      /\ call.op \in Removing /\ ~Dangling(r) /\ (i # None => r \in linked[i])
  BY <1>1, InHandNotDangling DEF Dangling
<1>3. r \in Elements(listing[p]) /\ listing[p] \in Seq(Rec)
  BY <1>2, EntriesType DEF CarefulInv, ListingInv, TypeInv, TypeOK
<1>4. Len(listing[p]) <= 1
  BY <1>1, <1>2 DEF CarefulInv, TreeExact, FewNames
<1>5. Exists(p) /\ Lookup(p) = r
  <2>1. PICK k \in 1..Len(listing[p]) : listing[p][k] = r
    BY <1>3 DEF Elements
  <2>2. k = 1
    BY <1>3, <1>4, <2>1
  <2>3. listing[p] # <<>>
    BY <1>3, <2>1
  <2>4. Lookup(p) = listing[p][1]
    BY <1>3, <2>3 DEF Lookup
  <2>5. QED
    BY <2>1, <2>2, <2>3, <2>4 DEF Exists
<1>6. ~fails
  BY <1>2, <1>5
<1>7. /\ RmUdfFileIdent(p) /\ Forget(r)
      /\ call' = [call EXCEPT !.cur = None, !.acc = charge]
      /\ UNCHANGED <<space, raised>>
  BY <1>1, <1>6
<1>8. Drops(p, r)
  BY <1>2, <1>5, <1>7, TailDrops DEF CarefulInv, ListingInv
<1>9. Entries' = Entries \ {r}
  BY <1>2, <1>8, DropUnlists DEF CarefulInv, ListingInv
<1>10. /\ \A q \in Rec \ {r} : home'[q] = home[q] /\ ino'[q] = ino[q]
       /\ cont' = [cont EXCEPT ![r] = None]
  BY <1>1, <1>7, <1>8, ForgetsCont
<1>11. cont[r] = None
  BY <1>1, <1>2 DEF CarefulInv, ChainsExact, Chains
<1>12. numUdf' = IF i = None THEN numUdf ELSE [numUdf EXCEPT ![i] = @ - 1]
  BY <1>1, <1>2 DEF Uncount
<1>13. Refunded(r) = charge
  BY <1>1 DEF Refunded
<1> HIDE DEF r, i, p, charge, fails
<1>14. call' = [call EXCEPT !.acc = Refunded(r), !.cur = cont[r]]
  BY <1>7, <1>11, <1>13
<1>15. numUdf' = IF ino[r] = None \/ home[r] \notin UdfPath THEN numUdf
                ELSE [numUdf EXCEPT ![ino[r]] = @ - 1]
  BY <1>1, <1>12 DEF i, p
<1>16. Removes(r)
  BY <1>1, <1>2, <1>7, <1>8, <1>9, <1>10, <1>14, <1>15 DEF Removes, p
<1>17. QED
  BY <1>16 DEF r

\* What Removes(r) leaves of the links.
LEMMA RemovesLinks ==
  ASSUME ListingInv, ListingInv', TreeExact, NEW r, Removes(r)
  PROVE  /\ r \in Rec /\ home[r] \in Path /\ ino[r] \in Data \cup {None}
         /\ \A q \in Entries' : q \in Entries /\ q # r /\ home'[q] = home[q] /\ ino'[q] = ino[q]
         /\ \A j \in Data : linked'[j] = linked[j] \ {r}
         /\ UdfEntries' = UdfEntries \ {r} /\ UdfEntries \subseteq Entries
         /\ Entries \subseteq Rec
<1>1. /\ TypeOK /\ Entries \subseteq Rec /\ UdfEntries = {q \in Entries : home[q] \in UdfPath}
      /\ UdfEntries' = {q \in Entries' : home'[q] \in UdfPath}
      /\ \A q \in Entries : home[q] \in Path
  BY EntriesType, UdfEntriesDef DEF ListingInv, TypeInv
<1>2. /\ r \in Entries /\ Entries' = Entries \ {r}
      /\ \A q \in Rec \ {r} : home'[q] = home[q] /\ ino'[q] = ino[q]
      /\ linked' = IF ino[r] = None THEN linked ELSE [linked EXCEPT ![ino[r]] = @ \ {r}]
  BY DEF Removes, Unlink
<1>3. r \in Rec /\ home[r] \in Path /\ ino[r] \in Data \cup {None}
  BY <1>1, <1>2 DEF TypeOK
<1>4. \A q \in Entries' : q \in Entries /\ q # r /\ home'[q] = home[q] /\ ino'[q] = ino[q]
  BY <1>1, <1>2
<1>5. ASSUME NEW j \in Data PROVE linked'[j] = linked[j] \ {r}
  <2>1. j # ino[r] => r \notin linked[j]
    BY DEF TreeExact, LinksExact
  <2>2. CASE ino[r] = j
    BY <1>1, <1>2, <2>2, NoneApart DEF TypeOK
  <2>3. CASE ino[r] # j
    BY <1>1, <1>2, <2>1, <2>3 DEF TypeOK
  <2>4. QED
    BY <2>2, <2>3
<1>6. UdfEntries' = UdfEntries \ {r}
  BY <1>1, <1>2, <1>4
<1>7. QED
  BY <1>1, <1>3, <1>4, <1>5, <1>6

LEMMA RemovesKeepsTree ==
  ASSUME ListingInv, ListingInv', TreeExact, NEW r, Removes(r)
  PROVE  TreeExact'
<1>1. /\ r \in Rec /\ home[r] \in Path /\ ino[r] \in Data \cup {None}
      /\ \A q \in Entries' : q \in Entries /\ q # r /\ home'[q] = home[q] /\ ino'[q] = ino[q]
      /\ \A j \in Data : linked'[j] = linked[j] \ {r}
      /\ UdfEntries' = UdfEntries \ {r} /\ UdfEntries \subseteq Entries
      /\ Entries \subseteq Rec
  BY RemovesLinks
<1>2. r \in Entries /\ Entries' = Entries \ {r} /\ TypeOK
  BY DEF Removes, ListingInv, TypeInv
<1>3. FewNames'
  <2>1. ASSUME NEW q \in Path, q \in UdfPath \/ BigFiles = {} PROVE Len(listing'[q]) <= 1
    <3>1. Len(listing[q]) <= 1 /\ Len(listing[q]) \in Nat
      BY <1>2, <2>1 DEF TreeExact, FewNames, TypeOK
    <3>2. CASE q = home[r]
      <4>1. Len(listing'[q]) = Len(listing[q]) - 1
        BY <3>2 DEF Removes, Drops
      <4>2. QED
        BY <3>1, <4>1
    <3>3. CASE q # home[r]
      <4>1. listing'[q] = listing[q]
        BY <3>3 DEF Removes, Drops
      <4>2. QED
        BY <3>1, <4>1
    <3>4. QED
      BY <3>2, <3>3
  <2>2. QED
    BY <2>1 DEF FewNames
<1>4. LinksExact'
  <2>1. ASSUME NEW j \in Data PROVE linked'[j] = {q \in Entries' : ino'[q] = j}
    <3>1. linked[j] = {q \in Entries : ino[q] = j}
      BY DEF TreeExact, LinksExact
    <3>2. QED
      BY <1>1, <1>2, <3>1
  <2>2. QED
    BY <2>1 DEF LinksExact
<1>5. CountsExact'
  <2>1. ASSUME NEW j \in Data
        PROVE  numUdf'[j] = Cardinality({q \in UdfEntries' : ino'[q] = j})
    <3> DEFINE S == {q \in UdfEntries : ino[q] = j}
    <3>1. numUdf[j] = Cardinality(S) /\ numUdf \in [Data -> Int]
      BY <1>2 DEF TreeExact, CountsExact, TypeOK
    <3>2. {q \in UdfEntries' : ino'[q] = j} = S \ {r}
      <4>1. \A q \in UdfEntries \ {r} : ino'[q] = ino[q]
        BY <1>1, <1>2
      <4>2. QED
        BY <1>1, <4>1
    <3>3. S \subseteq Rec
      BY <1>1
    <3>4. r \in S <=> home[r] \in UdfPath /\ ino[r] = j
      BY <1>1, <1>2, UdfEntriesDef
    <3> HIDE DEF S
    <3>5. Cardinality(S \ {r}) = IF home[r] \in UdfPath /\ ino[r] = j
                                 THEN Cardinality(S) - 1 ELSE Cardinality(S)
      <4>1. CASE r \in S
        BY <3>3, <3>4, <4>1, SetOfRecords
      <4>2. CASE r \notin S
        <5>1. S \ {r} = S
          BY <4>2
        <5>2. QED
          BY <3>4, <4>2, <5>1
      <4>3. QED
        BY <4>1, <4>2
    <3>6. numUdf'[j] = IF home[r] \in UdfPath /\ ino[r] = j THEN numUdf[j] - 1 ELSE numUdf[j]
      <4>1. numUdf' = IF ino[r] = None \/ home[r] \notin UdfPath THEN numUdf
                      ELSE [numUdf EXCEPT ![ino[r]] = @ - 1]
        BY DEF Removes
      <4>2. QED
        BY <1>1, <3>1, <4>1, NoneApart
    <3>7. QED
      BY <3>1, <3>2, <3>5, <3>6
  <2>2. QED
    BY <2>1 DEF CountsExact
<1>6. QED
  BY <1>3, <1>4, <1>5 DEF TreeExact

-----------------------------------------------------------------------------
(* The chains of segments. *)

\* The segments of a file are inodes of its own, each at one place.
LEMMA SegmentsApart ==
  ASSUME NEW f \in BigFiles, NEW n \in 1..Len(f)
  PROVE  /\ f[n] \in LastSegments <=> n = Len(f)
         /\ \A i \in Elements(f) : i \in LastSegments => i = f[Len(f)]
         /\ \A k \in 1..Len(f) : f[k] = f[n] => k = n
<1>1. /\ \A j, k \in 1..Len(f) : f[j] = f[k] => j = k
      /\ \A g \in BigFiles : \A j \in 1..Len(f), k \in 1..Len(g) : f[j] = g[k] => f = g
  BY HardLinksAssumption
<1>2. \A g \in BigFiles : Len(g) \in 1..Len(g)
  BY SegmentsType
<1>3. ASSUME NEW j \in 1..Len(f), f[j] \in LastSegments PROVE f[j] = f[Len(f)]
  <2>1. PICK g \in BigFiles : f[j] = g[Len(g)]
    BY <1>3 DEF LastSegments
  <2>2. f = g
    BY <1>1, <1>2, <2>1
  <2>3. QED
    BY <2>1, <2>2
<1>4. f[Len(f)] \in LastSegments
  BY DEF LastSegments
<1>5. QED
  BY <1>1, <1>2, <1>3, <1>4 DEF Elements

LEMMA SegmentsLeft ==
  ASSUME NEW f \in BigFiles, NEW n \in 1..Len(f)
  PROVE  /\ SubSeq(f, n + 1, Len(f)) \in Seq(Data)
         /\ Elements(SubSeq(f, n + 1, Len(f))) = {f[k] : k \in (n + 1)..Len(f)}
         /\ SubSeq(f, n + 1, Len(f)) = <<>> <=> n = Len(f)
<1> DEFINE s == SubSeq(f, n + 1, Len(f))
<1>1. Len(f) \in Nat /\ n \in Nat /\ \A k \in (n + 1)..Len(f) : f[k] \in Data
  BY SegmentsType
<1>2. n + 1 \in Int /\ Len(f) \in Int
  BY <1>1
<1>3. /\ s \in Seq(Data)
      /\ Len(s) = IF n + 1 <= Len(f) THEN Len(f) - (n + 1) + 1 ELSE 0
      /\ \A k \in 1..(Len(f) - (n + 1) + 1) : s[k] = f[n + 1 + k - 1]
  BY <1>1, <1>2, SubSeqProperties
<1> HIDE DEF s
<1>4. Len(s) = Len(f) - n /\ \A k \in 1..(Len(f) - n) : s[k] = f[n + k]
  BY <1>1, <1>3
<1>5. ASSUME NEW x \in Elements(s) PROVE x \in {f[k] : k \in (n + 1)..Len(f)}
  <2>1. PICK k \in 1..(Len(f) - n) : x = s[k]
    BY <1>4 DEF Elements
  <2>2. n + k \in (n + 1)..Len(f) /\ x = f[n + k]
    BY <1>1, <1>4, <2>1
  <2>3. QED
    BY <2>2
<1>6. ASSUME NEW k \in (n + 1)..Len(f) PROVE f[k] \in Elements(s)
  <2>1. k - n \in 1..(Len(f) - n) /\ n + (k - n) = k
    BY <1>1
  <2>2. s[k - n] = f[k] /\ k - n \in 1..Len(s)
    BY <1>4, <2>1
  <2>3. QED
    BY <2>2 DEF Elements
<1>7. s = <<>> <=> n = Len(f)
  BY <1>1, <1>3, <1>4
<1>8. Elements(s) = {f[k] : k \in (n + 1)..Len(f)}
  BY <1>5, <1>6
<1>9. QED
  BY <1>3, <1>7, <1>8 DEF s

LEMMA QuietKeepsChains ==
  ASSUME TypeInv, TypeInv', Quiet, ChainsExact, call.cur = None \/ call'.cur = call.cur,
         \A p \in Path : p \in Growing => p \in Growing'
  PROVE  ChainsExact'
<1>1. /\ Entries' = Entries /\ Continuations' = Continuations
      /\ \A r \in Entries : home'[r] = home[r] /\ home[r] \in Path
      /\ listing' = listing /\ cont' = cont /\ ino' = ino
  BY QuietKeeps, EntriesType DEF Quiet
<1>2. Chains'
  BY <1>1 DEF ChainsExact, Chains
<1>3. LastsChained'
  BY <1>1, EntriesType, NoneApart DEF ChainsExact, LastsChained
<1>4. QED
  BY <1>2, <1>3 DEF ChainsExact

LEMMA RemovesKeepsChains ==
  ASSUME CarefulInv, ListingInv', Removes(call.cur), call.cur # None
  PROVE  ChainsExact'
<1> DEFINE r == call.cur
<1>1. /\ r \in Rec /\ r \notin Continuations /\ call.op # "add" /\ Entries \subseteq Rec
      /\ \A q \in Entries' : q \in Entries /\ q # r /\ home'[q] = home[q] /\ ino'[q] = ino[q]
  BY RemovesLinks DEF CarefulInv, InHand, Removes, Removing
<1>2. /\ Entries' = Entries \ {r} /\ cont' = [cont EXCEPT ![r] = None]
      /\ Drops(home[r], r) /\ call'.cur = cont[r] /\ call'.op = call.op
      /\ TypeOK /\ call \in Call
  BY DEF Removes, CarefulInv, ListingInv, TypeInv, TypeOK, Call
<1> HIDE DEF r
<1>3. \A q \in Rec \ {r} : cont'[q] = cont[q]
  BY <1>1, <1>2 DEF TypeOK
<1>4. cont'[r] = None
  BY <1>1, <1>2 DEF TypeOK
<1>5. ASSUME NEW q \in Rec, cont'[q] # None
      PROVE  /\ q \in Entries' /\ cont'[q] \in Entries'
             /\ home'[cont'[q]] = home'[q] /\ home'[q] \notin UdfPath
             /\ q = listing'[home'[q]][1]
             /\ ino'[q] \in Segments /\ ino'[cont'[q]] \in Segments
             /\ ino'[cont'[q]] \in LastSegments \/ home'[q] \in Growing'
  <2>1. q # r /\ cont'[q] = cont[q]
    BY <1>3, <1>4, <1>5
  <2>2. /\ q \in Entries /\ cont[q] \in Entries
        /\ home[cont[q]] = home[q] /\ home[q] \notin UdfPath /\ q = listing[home[q]][1]
        /\ ino[q] \in Segments /\ ino[cont[q]] \in Segments
        /\ ino[cont[q]] \in LastSegments \/ home[q] \in Growing
    BY <1>5, <2>1 DEF CarefulInv, ChainsExact, Chains
  <2>3. Growing = {}
    BY <1>1 DEF Growing
  <2>4. cont[q] # r
    BY <1>1, <2>1, <2>2 DEF Continuations
  <2>5. q \in Entries' /\ cont[q] \in Entries'
    BY <1>2, <2>1, <2>2, <2>4
  <2>6. q = listing'[home[q]][1]
    <3>1. CASE home[q] = home[r]
      BY <1>2, <2>1, <2>2, <3>1 DEF Drops
    <3>2. CASE home[q] # home[r]
      <4>1. home[q] \in Path
        BY <2>2, EntriesType DEF CarefulInv, ListingInv
      <4>2. QED
        BY <1>2, <2>2, <3>2, <4>1 DEF Drops
    <3>3. QED
      BY <3>1, <3>2
  <2>7. QED
    BY <1>1, <2>1, <2>2, <2>3, <2>5, <2>6
<1>6. ASSUME NEW x \in Entries', ino'[x] \in LastSegments
      PROVE  x = call'.cur \/ x \in Continuations'
  <2>1. x \in Entries /\ x # r /\ ino[x] \in LastSegments /\ x \in Rec
    BY <1>1, <1>6
  <2>2. x \in Continuations
    BY <2>1 DEF CarefulInv, ChainsExact, LastsChained, r
  <2>3. PICK q \in Rec \ {x} : cont[q] = x
    BY <2>2 DEF Continuations
  <2>4. CASE q = r
    BY <1>2, <2>3, <2>4
  <2>5. CASE q # r
    <3>1. cont'[q] = x
      BY <1>3, <2>3, <2>5
    <3>2. QED
      BY <2>1, <3>1 DEF Continuations
  <2>6. QED
    BY <2>4, <2>5
<1>7. Chains'
  BY <1>5 DEF Chains
<1>8. LastsChained'
  BY <1>6 DEF LastsChained
<1>9. QED
  BY <1>7, <1>8 DEF ChainsExact

\* The call after Link and Track, its charges aside.
NextItemDone ==
  /\ call.op = "add" /\ call'.op = "add" /\ call'.dirty = TRUE
  /\ call.todo # <<>> /\ call'.todo = Tail(call.todo)
  /\ call'.segs = call.segs /\ call'.paths = call.paths /\ call'.new = call.new
  /\ call'.cat = call.cat /\ call'.cur = call.cur /\ call'.queue = call.queue

LEMMA LinkCall ==
  ASSUME TypeInv, NEW r \in Rec, Link(r)
  PROVE  NextItemDone
<1>1. call \in Call
  BY DEF TypeInv, TypeOK
<1>2. /\ call.op = "add" /\ call.todo # <<>>
      /\ \E c : call' = [call EXCEPT !.todo = Tail(@), !.dirty = TRUE, !.acc = c]
  BY Zenon DEF Link
<1>3. PICK c : call' = [call EXCEPT !.todo = Tail(@), !.dirty = TRUE, !.acc = c]
  BY <1>2
<1>4. QED
  BY <1>1, <1>2, <1>3 DEF Call, NextItemDone

LEMMA InsertKeepsHead ==
  ASSUME NEW s \in Seq(Rec), NEW r \in Rec, NEW p \in Path, s # <<>>
  PROVE  Insert(s, r, p)[1] = s[1]
<1>1. Len(s) \in Nat \ {0} /\ 1 \in 1..Len(s)
  BY EmptySeq
<1>2. Append(s, r)[1] = s[1]
  BY <1>1
<1>3. Tail(s) \in Seq(Rec) /\ Head(s) = s[1] /\ s[1] \in Rec
  BY <1>1, HeadTailProperties
<1>4. <<Head(s), r>> \in Seq(Rec) /\ Len(<<Head(s), r>>) = 2 /\ <<Head(s), r>>[1] = s[1]
  BY <1>3
<1>5. (<<Head(s), r>> \o Tail(s))[1] = s[1]
  <2>1. 1 \in 1..(Len(<<Head(s), r>>) + Len(Tail(s)))
    BY <1>3, <1>4, LenProperties
  <2>2. QED
    BY <1>3, <1>4, <2>1, ConcatProperties
<1>6. QED
  BY <1>2, <1>5 DEF Insert

\* A path at which the file being added has a record already.
LEMMA AddsToFile ==
  ASSUME CarefulInv, call.op = "add", NEW m \in Pending, m.path # None, listing[m.path] # <<>>
  PROVE  \E f \in BigFiles : \E n \in 1..Len(f) : InSegments(f, n)
<1>1. InFile
  BY DEF CarefulInv, Adding
<1>2. ~OneFile
  BY DEF OneFile
<1>3. QED
  BY <1>1, <1>2 DEF InFile

\* The first segment only goes where no segment is, and it is not the last.
LEMMA LastGoesBehind ==
  ASSUME CarefulInv, call.op = "add", NEW m \in Pending, m.path # None, m.ino \in LastSegments
  PROVE  listing[m.path] # <<>>
<1>1. InFile
  BY DEF CarefulInv, Adding
<1>2. ~OneFile
  BY SegmentsType DEF OneFile
<1>3. PICK f \in BigFiles : \E n \in 1..Len(f) : InSegments(f, n)
  BY <1>1, <1>2 DEF InFile
<1>4. PICK n \in 1..Len(f) : InSegments(f, n)
  BY <1>3
<1>5. m.ino = f[n] /\ m.path \in SegmentPaths
  BY <1>4 DEF InSegments
<1>6. n = Len(f) /\ n # 1
  BY <1>5, SegmentsApart, SegmentsType
<1>7. QED
  BY <1>4, <1>5, <1>6 DEF InSegments

LEMMA AddsKeepsChains ==
  ASSUME CarefulInv, ListingInv', NEW r, NEW p, NEW i, Adds(r, p, i), NextItemDone,
         p = Head(call.todo).path, i = Head(call.todo).ino,
         p \in UdfPath => listing[p] = <<>>
  PROVE  ChainsExact'
<1> DEFINE h == listing[p][1]
<1>1. /\ r \in Rec \ Entries /\ p \in Path /\ p # None
      /\ Entries' = Entries \cup {r} /\ home'[r] = p /\ ino'[r] = i
      /\ \A q \in Rec \ {r} : home'[q] = home[q] /\ ino'[q] = ino[q]
      /\ listing'[p] = Insert(listing[p], r, p)
      /\ \A q \in Path \ {p} : listing'[q] = listing[q]
      /\ cont' = [q \in Rec |-> IF p \notin UdfPath /\ listing[p] # <<>> /\ q = h THEN r
                                ELSE IF q = r THEN None ELSE cont[q]]
  BY NoneApart DEF Adds
<1>2. /\ Entries \subseteq Rec /\ listing[p] \in Seq(Rec)
      /\ \A q \in Entries : home[q] \in Path /\ q \in Elements(listing[home[q]])
      /\ TypeInv
  BY <1>1, EntriesType DEF CarefulInv, ListingInv, TypeInv, TypeOK
<1>3. /\ Head(call.todo) \in Pending /\ call.op = "add" /\ call'.op = "add" /\ call'.dirty
      /\ Pending = Pending' \cup {Head(call.todo)}
      /\ call'.segs = call.segs /\ SegmentPaths' = SegmentPaths /\ call.cur = None
      /\ call'.cur = None
  BY <1>2, HeadIsPending DEF NextItemDone, Pending, SegmentPaths, CarefulInv, CallShape, Removing
<1>4. \A q : q \in Growing /\ q # p => q \in Growing'
  BY <1>3 DEF Growing
<1>5. CASE listing[p] = <<>>
  <2>1. \A q \in Rec \ {r} : cont'[q] = cont[q]
    BY <1>1, <1>5
  <2>2. cont'[r] = None
    BY <1>1, <1>5
  <2>3. ASSUME NEW q \in Rec, cont'[q] # None
        PROVE  /\ q \in Entries' /\ cont'[q] \in Entries'
               /\ home'[cont'[q]] = home'[q] /\ home'[q] \notin UdfPath
               /\ q = listing'[home'[q]][1]
               /\ ino'[q] \in Segments /\ ino'[cont'[q]] \in Segments
               /\ ino'[cont'[q]] \in LastSegments \/ home'[q] \in Growing'
    <3>1. q # r /\ cont'[q] = cont[q]
      BY <2>1, <2>2, <2>3
    <3>2. /\ q \in Entries /\ cont[q] \in Entries
          /\ home[cont[q]] = home[q] /\ home[q] \notin UdfPath /\ q = listing[home[q]][1]
          /\ ino[q] \in Segments /\ ino[cont[q]] \in Segments
          /\ ino[cont[q]] \in LastSegments \/ home[q] \in Growing
      BY <2>3, <3>1 DEF CarefulInv, ChainsExact, Chains
    <3>3. home[q] # p /\ home[q] \in Path
      BY <1>2, <1>5, <3>2 DEF Elements
    <3>4. listing'[home[q]] = listing[home[q]]
      BY <1>1, <3>3
    <3>5. cont[q] # r
      BY <1>1, <3>2
    <3>6. QED
      BY <1>1, <1>2, <1>4, <3>1, <3>2, <3>3, <3>4, <3>5
  <2>4. ASSUME NEW x \in Entries', ino'[x] \in LastSegments PROVE x \in Continuations'
    <3>1. x # r
      BY <1>1, <1>3, <1>5, <2>4, LastGoesBehind
    <3>2. x \in Entries /\ ino[x] \in LastSegments /\ x \in Rec
      BY <1>1, <1>2, <2>4, <3>1
    <3>3. x \in Continuations
      BY <1>3, <3>2, NoneApart DEF CarefulInv, ChainsExact, LastsChained
    <3>4. PICK q \in Rec \ {x} : cont[q] = x
      BY <3>3 DEF Continuations
    <3>5. q \in Entries
      BY <3>2, <3>4, NoneApart DEF CarefulInv, ChainsExact, Chains
    <3>6. cont'[q] = x
      BY <1>1, <2>1, <3>4, <3>5
    <3>7. QED
      BY <3>2, <3>4, <3>6 DEF Continuations
  <2>5. QED
    BY <2>3, <2>4 DEF ChainsExact, Chains, LastsChained
<1>6. CASE listing[p] # <<>>
  <2>1. PICK f \in BigFiles : \E n \in 1..Len(f) : InSegments(f, n)
    BY <1>1, <1>3, <1>6, AddsToFile
  <2>2. PICK n \in 1..Len(f) : InSegments(f, n)
    BY <2>1
  <2>3. /\ i = f[n] /\ p \in SegmentPaths /\ p \notin UdfPath
        /\ \A x \in Elements(listing[p]) : ino[x] \in Elements(f) /\ ino[x] # f[n]
        /\ call.segs = SubSeq(f, n + 1, Len(f)) /\ \A j \in Elements(call.segs) : linked[j] = {}
    BY <1>1, <1>3, <1>6, <2>2 DEF InSegments
  <2>4. h \in Elements(listing[p]) /\ h \in Rec
    BY <1>2, <1>6, EmptySeq, ElementOfSeq DEF Elements
  <2>5. h \in Entries /\ home[h] = p /\ h # r
    BY <1>1, <1>2, <2>4, ListedSomewhere
  <2>6. /\ cont'[h] = r /\ cont'[r] = None
        /\ \A q \in Rec \ {r, h} : cont'[q] = cont[q]
    BY <1>1, <1>6, <2>3, <2>4, <2>5
  <2>7. listing'[p][1] = h
    BY <1>1, <1>2, <1>6, InsertKeepsHead
  <2>8. f[n] \in LastSegments \/ p \in Growing'
    <3>1. CASE n = Len(f)
      BY <3>1 DEF LastSegments
    <3>2. CASE n # Len(f)
      <4>1. call.segs # <<>>
        BY <2>3, <3>2, SegmentsLeft
      <4>2. QED
        BY <1>3, <2>3, <4>1 DEF Growing
    <3>3. QED
      BY <3>1, <3>2
  <2> HIDE DEF h
  <2>9. ASSUME NEW q \in Rec, cont'[q] # None
        PROVE  /\ q \in Entries' /\ cont'[q] \in Entries'
               /\ home'[cont'[q]] = home'[q] /\ home'[q] \notin UdfPath
               /\ q = listing'[home'[q]][1]
               /\ ino'[q] \in Segments /\ ino'[cont'[q]] \in Segments
               /\ ino'[cont'[q]] \in LastSegments \/ home'[q] \in Growing'
    <3>1. CASE q = h
      <4>1. ino[h] \in Segments /\ f[n] \in Segments
        BY <2>3, <2>4, SegmentsType
      <4>2. QED
        BY <1>1, <2>3, <2>4, <2>5, <2>6, <2>7, <2>8, <3>1, <4>1
    <3>2. CASE q # h
      <4>1. q # r /\ cont'[q] = cont[q]
        BY <2>6, <2>9, <3>2
      <4>2. /\ q \in Entries /\ cont[q] \in Entries
            /\ home[cont[q]] = home[q] /\ home[q] \notin UdfPath /\ q = listing[home[q]][1]
            /\ ino[q] \in Segments /\ ino[cont[q]] \in Segments
            /\ ino[cont[q]] \in LastSegments \/ home[q] \in Growing
        BY <2>9, <4>1 DEF CarefulInv, ChainsExact, Chains
      <4>3. home[q] # p /\ home[q] \in Path
        BY <1>2, <3>2, <4>2 DEF h
      <4>4. listing'[home[q]] = listing[home[q]]
        BY <1>1, <4>3
      <4>5. cont[q] # r
        BY <1>1, <4>2
      <4>6. QED
        BY <1>1, <1>2, <1>4, <4>1, <4>2, <4>3, <4>4, <4>5
    <3>3. QED
      BY <3>1, <3>2
  <2>10. ASSUME NEW x \in Entries', ino'[x] \in LastSegments PROVE x \in Continuations'
    <3>1. CASE x = r
      BY <1>1, <2>4, <2>5, <2>6, <3>1 DEF Continuations
    <3>2. CASE x # r
      <4>1. x \in Entries /\ ino[x] \in LastSegments /\ x \in Rec
        BY <1>1, <1>2, <2>10, <3>2
      <4>2. x \in Continuations
        BY <1>3, <4>1, NoneApart DEF CarefulInv, ChainsExact, LastsChained
      <4>3. PICK q \in Rec \ {x} : cont[q] = x
        BY <4>2 DEF Continuations
      <4>4. q \in Entries /\ home[x] = home[q]
        BY <4>1, <4>3, NoneApart DEF CarefulInv, ChainsExact, Chains
      <4>5. q # h
        <5> SUFFICES ASSUME q = h PROVE FALSE
          OBVIOUS
        <5>1. x \in Elements(listing[p])
          BY <1>2, <2>5, <4>1, <4>4
        <5>2. ino[x] = f[Len(f)] /\ f[Len(f)] # f[n]
          BY <2>3, <4>1, <5>1, SegmentsApart
        <5>3. n # Len(f) /\ Len(f) \in (n + 1)..Len(f)
          BY <5>2, SegmentsType
        <5>4. f[Len(f)] \in Elements(call.segs)
          BY <2>3, <5>3, SegmentsLeft
        <5>5. linked[ino[x]] = {} /\ ino[x] \in Data
          BY <2>3, <4>1, <5>2, <5>4, SegmentsType
        <5>6. QED
          BY <4>1, <5>5 DEF CarefulInv, TreeExact, LinksExact
      <4>6. cont'[q] = x
        BY <1>1, <2>6, <4>3, <4>4, <4>5
      <4>7. QED
        BY <4>1, <4>3, <4>6 DEF Continuations
    <3>3. QED
      BY <3>1, <3>2
  <2>11. QED
    BY <2>9, <2>10 DEF ChainsExact, Chains, LastsChained
<1>7. QED
  BY <1>5, <1>6

-----------------------------------------------------------------------------
(* Adding: the call. *)

LEMMA ItemsLeft ==
  ASSUME TypeInv, PathsOnce(call.todo), NextItemDone
  PROVE  /\ Head(call.todo) \in Pending /\ Pending = Pending' \cup {Head(call.todo)}
         /\ PathsOnce(call'.todo)
         /\ \A m \in Pending' : m.path # None => m.path # Head(call.todo).path
         /\ \A m \in Pending : m \in Item
<1>1. call.todo \in Seq(Item) /\ call.todo # <<>>
  BY DEF NextItemDone, TypeInv, TypeOK, Call
<1>2. Pending \subseteq Item
  BY <1>1, HeadAndTail DEF Pending
<1>3. Pending' = Elements(Tail(call.todo)) /\ call'.todo = Tail(call.todo)
  BY DEF NextItemDone, Pending
<1>4. /\ Head(call.todo) \in Pending
      /\ Pending = Elements(Tail(call.todo)) \cup {Head(call.todo)}
      /\ PathsOnce(Tail(call.todo))
      /\ \A m \in Elements(Tail(call.todo)) : m.path # None => m.path # Head(call.todo).path
  BY <1>1, HeadIsPending
<1>5. QED
  BY <1>2, <1>3, <1>4

\* Adds leaves the other listings, and the inodes of their records, alone.
LEMMA AddsElsewhere ==
  ASSUME ListingInv, NEW r, NEW p, NEW i, Adds(r, p, i)
  PROVE  /\ \A q \in Path \ {p} : listing'[q] = listing[q]
         /\ \A q \in Path : \A x \in Elements(listing[q]) : ino'[x] = ino[x]
         /\ listing'[p] # <<>>
         /\ \A x \in Elements(listing'[p]) : x = r \/ x \in Elements(listing[p])
<1>1. /\ r \in Rec \ Entries /\ p \in Path
      /\ \A q \in Rec \ {r} : ino'[q] = ino[q]
      /\ \A q \in Path \ {p} : listing'[q] = listing[q]
      /\ Elements(listing'[p]) = Elements(listing[p]) \cup {r}
  BY DEF Adds
<1>2. TypeInv /\ TypeOK
  BY DEF ListingInv, TypeInv
<1>3. \A q \in Path : Elements(listing[q]) \subseteq Rec
  BY <1>2, ElementsType DEF TypeOK
<1>4. \A q \in Path : \A x \in Elements(listing[q]) : x \in Rec /\ x # r
  BY <1>1, <1>2, <1>3, ListedSomewhere
<1>5. listing'[p] # <<>>
  <2>1. r \in Elements(listing'[p])
    BY <1>1
  <2>2. QED
    BY <2>1 DEF Elements
<1>6. \A q \in Path : \A x \in Elements(listing[q]) : ino'[x] = ino[x]
  BY <1>1, <1>4
<1>7. \A x \in Elements(listing'[p]) : x = r \/ x \in Elements(listing[p])
  BY <1>1
<1>8. QED
  BY <1>1, <1>5, <1>6, <1>7

LEMMA AddsLinks ==
  ASSUME ListingInv, NEW r, NEW p, NEW i, Adds(r, p, i)
  PROVE  \A j \in Data : linked'[j] = (IF j = i THEN linked[j] \cup {r} ELSE linked[j])
<1>1. linked' = IF i = None THEN linked ELSE [linked EXCEPT ![i] = @ \cup {r}]
  BY DEF Adds
<1>2. linked \in [Data -> SUBSET Rec]
  BY DEF ListingInv, TypeInv, TypeOK
<1>3. QED
  BY <1>1, <1>2, NoneApart

LEMMA AddsKeepsFile ==
  ASSUME CarefulInv, NEW r, NEW p, NEW i, Adds(r, p, i), NextItemDone,
         p = Head(call.todo).path, i = Head(call.todo).ino
  PROVE  InFile'
<1>1. TypeInv /\ ListingInv /\ InFile /\ PathsOnce(call.todo) /\ p \in Path /\ p # None
  BY NoneApart DEF CarefulInv, ListingInv, NextItemDone, Adding, TodoShape, Adds
<1>2. /\ Head(call.todo) \in Pending /\ Pending = Pending' \cup {Head(call.todo)}
      /\ \A m \in Pending' : m.path # None => m.path # p
      /\ \A m \in Pending' : m.path # None => m.path \in Path
  BY <1>1, ItemsLeft DEF Item
<1>3. /\ call'.new = call.new /\ call'.segs = call.segs /\ call'.cat = call.cat
      /\ SegmentPaths' = SegmentPaths
  BY DEF NextItemDone, SegmentPaths
<1>4. ListingInv /\ Adds(r, p, i)
  BY <1>1
<1>5. /\ \A q \in Path \ {p} : listing'[q] = listing[q]
      /\ \A q \in Path : \A x \in Elements(listing[q]) : ino'[x] = ino[x]
      /\ listing'[p] # <<>>
      /\ \A x \in Elements(listing'[p]) : x = r \/ x \in Elements(listing[p])
  BY ONLY <1>4, AddsElsewhere
<1>6. \A j \in Data : linked'[j] = (IF j = i THEN linked[j] \cup {r} ELSE linked[j])
  BY ONLY <1>4, AddsLinks
<1>7. ino'[r] = i
  BY ONLY <1>4 DEF Adds
<1>8. CASE OneFile
  <2>1. OneFile'
    BY <1>2, <1>3, <1>5, <1>6, <1>7, <1>8 DEF OneFile
  <2>2. QED
    BY <2>1 DEF InFile
<1>9. ASSUME NEW f \in BigFiles, NEW n \in 1..Len(f), InSegments(f, n)
      PROVE  InFile'
  <2>1. /\ call.new = Elements(f) /\ ~call.cat
        /\ call.segs = SubSeq(f, n + 1, Len(f)) /\ SegmentPaths # {}
        /\ \A j \in Elements(call.segs) : linked[j] = {}
        /\ \A m \in Pending : m.ino = f[n] /\ m.path \in SegmentPaths \cup {None}
        /\ \A m \in Pending : m.path # None => \A x \in Elements(listing[m.path]) : ino[x] # f[n]
        /\ \A q \in SegmentPaths : /\ listing[q] # <<>> \/ (n = 1 /\ \E m \in Pending : m.path = q)
                                   /\ \A x \in Elements(listing[q]) : ino[x] \in Elements(f)
    BY <1>9 DEF InSegments
  <2>2. i = f[n] /\ f[n] \in Elements(f) /\ f[n] \in Data
    BY <1>2, <2>1, SegmentsType DEF Elements
  <2>3. \A j \in Elements(call.segs) : j # f[n] /\ j \in Data
    <3>1. \A k \in (n + 1)..Len(f) : k \in 1..Len(f) /\ k # n
      BY SegmentsType
    <3>2. \A k \in (n + 1)..Len(f) : f[k] # f[n] /\ f[k] \in Data
      BY <3>1, SegmentsApart, SegmentsType
    <3>3. Elements(call.segs) = {f[k] : k \in (n + 1)..Len(f)}
      BY <2>1, SegmentsLeft
    <3>4. QED
      BY <3>2, <3>3
  <2>4. \A j \in Elements(call.segs) : linked'[j] = {}
    BY <1>5, <1>6, <1>7, <2>1, <2>2, <2>3
  <2>5. \A m \in Pending' : m.path # None => \A x \in Elements(listing'[m.path]) : ino'[x] # f[n]
    BY <1>2, <1>5, <1>6, <1>7, <2>1
  <2>6. SegmentPaths \subseteq Path
    <3>1. call.paths \in PathTriple
      BY <1>1 DEF TypeInv, TypeOK, Call
    <3>2. QED
      BY <3>1, TripleType DEF SegmentPaths, PathOrNone
  <2>7. ASSUME NEW q \in SegmentPaths
        PROVE  /\ listing'[q] # <<>> \/ (n = 1 /\ \E m \in Pending' : m.path = q)
               /\ \A x \in Elements(listing'[q]) : ino'[x] \in Elements(f)
    <3>1. CASE q = p
      <4>1. \A x \in Elements(listing[p]) : ino'[x] = ino[x] /\ ino[x] \in Elements(f)
        BY <1>1, <1>5, <1>6, <1>7, <2>1, <3>1
      <4>2. QED
        BY <1>5, <1>6, <1>7, <2>2, <3>1, <4>1
    <3>2. CASE q # p
      BY <1>1, <1>2, <1>5, <1>6, <1>7, <2>1, <2>6, <3>2
    <3>3. QED
      BY <3>1, <3>2
  <2>8. InSegments(f, n)'
    BY <1>2, <1>3, <2>1, <2>4, <2>5, <2>7 DEF InSegments
  <2>9. QED
    BY <2>8 DEF InFile, InSegments
<1>10. QED
  BY <1>1, <1>8, <1>9 DEF InFile

LEMMA AddsKeepsTodo ==
  ASSUME CarefulInv, NEW r, NEW p, NEW i, Adds(r, p, i), NextItemDone,
         p = Head(call.todo).path, i = Head(call.todo).ino,
         UNCHANGED inodes, boot'.entries = boot.entries
  PROVE  TodoShape' /\ NewData'
<1>1. TypeInv /\ ListingInv /\ TodoShape /\ NewData /\ p \in Path /\ p # None
  BY NoneApart DEF CarefulInv, ListingInv, NextItemDone, Adding, Adds
<1>2. /\ Head(call.todo) \in Pending /\ Pending = Pending' \cup {Head(call.todo)}
      /\ PathsOnce(call'.todo) /\ \A m \in Pending : m \in Item
  BY <1>1, ItemsLeft DEF TodoShape
<1>3. call'.new = call.new /\ call'.cat = call.cat /\ call'.dirty
  BY DEF NextItemDone
<1>4. \A j \in Data : linked'[j] = (IF j = i THEN linked[j] \cup {r} ELSE linked[j])
  <2>1. ListingInv /\ Adds(r, p, i)
    BY <1>1
  <2>2. QED
    BY ONLY <2>1, AddsLinks
<1>5. ASSUME NEW m \in Pending', m.path = None
      PROVE  /\ m.ino \in call.new
             /\ linked'[m.ino] # {} \/ \E o \in Pending' : o.path # None /\ o.ino = m.ino
  <2>1. m \in Pending /\ m.ino \in Data
    BY <1>2, <1>5 DEF Item
  <2>2. /\ m.ino \in call.new
        /\ linked[m.ino] # {} \/ \E o \in Pending : o.path # None /\ o.ino = m.ino
    BY <1>1, <1>5, <2>1 DEF TodoShape
  <2>3. CASE m.ino = i
    BY <1>4, <2>1, <2>2, <2>3
  <2>4. CASE m.ino # i
    BY <1>2, <1>4, <2>1, <2>2, <2>4
  <2>5. QED
    BY <2>3, <2>4
<1>6. ASSUME NEW m \in Pending', m.path # None
      PROVE  /\ m.ino = None <=> call.cat
             /\ m.ino \in inodes \cup {None} \/ \E o \in Pending' : o.path = None /\ o.ino = m.ino
  <2>1. /\ m.ino = None <=> call.cat
        /\ m.ino \in inodes \cup {None} \/ \E o \in Pending : o.path = None /\ o.ino = m.ino
    BY <1>1, <1>2, <1>6 DEF TodoShape
  <2>2. QED
    BY <1>1, <1>2, <2>1
<1>7. TodoShape'
  BY <1>2, <1>3, <1>5, <1>6 DEF TodoShape
<1>8. NewData'
  BY <1>1, <1>3 DEF NewData
<1>9. QED
  BY <1>7, <1>8

-----------------------------------------------------------------------------
(* Link: the catalog, the data and the charges. *)

\* What Link does besides Adds.
LinkRest(r, p, i) ==
  /\ boot' = IF call.cat THEN [boot EXCEPT !.recs = Append(@, r)] ELSE boot
  /\ call'.acc = IF p \notin UdfPath THEN call.acc
                 ELSE IF i = None THEN [call.acc EXCEPT !.misc = @ + 1]
                 ELSE IF numUdf[i] = 0 THEN [call.acc EXCEPT !.fe[i] = @ + 1]
                 ELSE call.acc
  /\ r \notin Elements(boot.recs)
  /\ UNCHANGED <<inodes, brs, space, raised>>

LEMMA LinkDoesRest ==
  ASSUME TypeInv, NEW r \in Rec, Link(r)
  PROVE  LinkRest(r, Head(call.todo).path, Head(call.todo).ino)
<1> DEFINE p == Head(call.todo).path
           i == Head(call.todo).ino
           charge == IF p \notin UdfPath THEN call.acc
                     ELSE IF i = None THEN [call.acc EXCEPT !.misc = @ + 1]
                     ELSE IF numUdf[i] = 0 THEN [call.acc EXCEPT !.fe[i] = @ + 1]
                     ELSE call.acc
<1>1. /\ boot' = IF call.cat THEN [boot EXCEPT !.recs = Append(@, r)] ELSE boot
      /\ call' = [call EXCEPT !.todo = Tail(@), !.dirty = TRUE, !.acc = charge]
      /\ UNCHANGED <<inodes, brs, space, raised>>
      /\ ~InUse(r)
  BY Zenon DEF Link
<1>2. call \in Call
  BY DEF TypeInv, TypeOK
<1> HIDE DEF charge
<1>3. call'.acc = charge
  BY <1>1, <1>2 DEF Call
<1>4. r \notin Elements(boot.recs)
  BY <1>1 DEF InUse, Held
<1>5. QED
  BY <1>1, <1>3, <1>4 DEF LinkRest, charge, p, i

LEMMA AddsKeepsCatalog ==
  ASSUME CarefulInv, NEW r, NEW p, NEW i, Adds(r, p, i), NextItemDone, LinkRest(r, p, i),
         p = Head(call.todo).path, i = Head(call.todo).ino
  PROVE  CatalogExact'
<1>1. /\ TypeInv /\ TodoShape /\ CatalogExact /\ p # None /\ boot.recs \in Seq(Rec)
      /\ boot \in Catalog
  BY NoneApart DEF CarefulInv, ListingInv, NextItemDone, Adding, Adds, TypeInv, TypeOK, Catalog
<1>2. Head(call.todo) \in Pending
  BY <1>1, ItemsLeft DEF TodoShape
<1>3. i = None => call.cat
  BY <1>1, <1>2 DEF TodoShape
<1>4. /\ boot' = IF call.cat THEN [boot EXCEPT !.recs = Append(@, r)] ELSE boot
      /\ r \notin Elements(boot.recs) /\ brs' = brs
  BY DEF LinkRest
<1>5. /\ call.op = "add" /\ call'.op = "add" /\ call'.cat = call.cat
  BY DEF NextItemDone
<1>6. /\ r \in Rec \ Entries /\ Entries' = Entries \cup {r} /\ ino'[r] = i
      /\ \A q \in Rec \ {r} : ino'[q] = ino[q]
  BY DEF Adds
<1>7. Entries \subseteq Rec
  BY DEF Entries
<1>8. boot'.recs = IF call.cat THEN Append(boot.recs, r) ELSE boot.recs
  BY <1>1, <1>4 DEF Catalog
<1>9. boot'.on = boot.on /\ boot'.entries = boot.entries
  BY <1>1, <1>4 DEF Catalog
<1>10. Elements(boot'.recs) = IF call.cat THEN Elements(boot.recs) \cup {r} ELSE Elements(boot.recs)
  <2>1. Elements(Append(boot.recs, r)) = Elements(boot.recs) \cup {r}
    BY <1>1, <1>6 DEF Elements
  <2>2. QED
    BY <1>8, <2>1
<1>11. Injective(boot'.recs)
  <2>1. Injective(boot.recs)
    BY <1>1 DEF CatalogExact
  <2>2. Injective(Append(boot.recs, r))
    BY <1>1, <1>4, <1>6, <2>1, AppendDistinct
  <2>3. QED
    BY <1>8, <2>1, <2>2
<1>12. \A q \in Entries' : ino'[q] = None => q \in Elements(boot'.recs)
  BY <1>1, <1>3, <1>6, <1>7, <1>10 DEF CatalogExact
<1>13. \A q \in Elements(boot'.recs) : q \in Entries'
  BY <1>1, <1>5, <1>6, <1>10 DEF CatalogExact
<1>14. ~boot'.on => boot' = NoCatalog
  BY <1>1, <1>4, <1>9 DEF CatalogExact
<1>15. QED
  BY <1>1, <1>4, <1>5, <1>9, <1>11, <1>12, <1>13, <1>14 DEF CatalogExact

\* The data with a name, or with one to come: a new link makes a pending one
\* a named one.
LEMMA AddsNames ==
  ASSUME CarefulInv, NEW r, NEW p, NEW i, Adds(r, p, i), NextItemDone, LinkRest(r, p, i),
         p = Head(call.todo).path, i = Head(call.todo).ino
  PROVE  /\ NamedData' = NamedData \cup ({i} \ {None})
         /\ PendingData = PendingData' \cup {i}
         /\ Untracked' = Untracked
         /\ NamedData \subseteq Data
<1>1. TypeInv /\ TodoShape /\ p # None /\ boot \in Catalog
  BY NoneApart DEF CarefulInv, ListingInv, NextItemDone, Adding, Adds, TypeInv, TypeOK
<1>2. Head(call.todo) \in Pending /\ Pending = Pending' \cup {Head(call.todo)}
  BY <1>1, ItemsLeft DEF TodoShape
<1>3. \A j \in Data : linked'[j] = (IF j = i THEN linked[j] \cup {r} ELSE linked[j])
  <2>1. ListingInv /\ Adds(r, p, i)
    BY DEF CarefulInv
  <2>2. QED
    BY ONLY <2>1, AddsLinks
<1>4. boot'.entries = boot.entries
  BY <1>1 DEF LinkRest, Catalog
<1>5. i \in Data \cup {None} /\ Elements(boot.entries) \subseteq Data
  BY <1>1 DEF Adds, InoOrNone, Catalog, Elements
<1>6. NamedData' = NamedData \cup ({i} \ {None})
  BY <1>3, <1>4, <1>5, NoneApart DEF NamedData
<1>7. PendingData = PendingData' \cup {i}
  BY <1>2 DEF PendingData
<1>8. Untracked' = Untracked
  BY <1>1, <1>2 DEF Untracked
<1>9. QED
  BY <1>5, <1>6, <1>7, <1>8 DEF NamedData

LEMMA AddsKeepsStored ==
  ASSUME CarefulInv, NEW r, NEW p, NEW i, Adds(r, p, i), NextItemDone, LinkRest(r, p, i),
         p = Head(call.todo).path, i = Head(call.todo).ino
  PROVE  StoredExact'
<1>1. TypeInv /\ TodoShape /\ StoredExact /\ p # None
  BY NoneApart DEF CarefulInv, ListingInv, NextItemDone, Adding, Adds
<1>2. /\ NamedData' = NamedData \cup ({i} \ {None})
      /\ PendingData = PendingData' \cup {i}
      /\ Untracked' = Untracked
  BY AddsNames
<1>3. inodes' = inodes /\ call'.dirty = TRUE /\ inodes \subseteq Data /\ call'.new = call.new
  BY <1>1 DEF LinkRest, NextItemDone, TypeInv, TypeOK
<1>4. i # None => i \in inodes \/ i \in Untracked
  <2>1. Head(call.todo) \in Pending
    BY <1>1, ItemsLeft DEF TodoShape
  <2>2. i \in inodes \cup {None} \/ \E o \in Pending : o.path = None /\ o.ino = i
    BY <1>1, <2>1 DEF TodoShape
  <2>3. QED
    BY <2>2 DEF Untracked
<1>5. \A j \in NamedData' : j \in inodes' \/ (call'.dirty /\ j \in Untracked')
  BY <1>1, <1>2, <1>3, <1>4 DEF StoredExact
<1>6. \A j \in inodes' : j \in NamedData' \/ (call'.dirty /\ j \in PendingData' \cap call'.new)
  BY <1>1, <1>2, <1>3, NoneApart DEF StoredExact
<1>7. QED
  BY <1>5, <1>6 DEF StoredExact

\* The parts of a sum of ledgers.
LEMMA MergeParts ==
  ASSUME NEW a \in Ledger, NEW b \in Ledger
  PROVE  /\ \A i \in Data : Merge(a, b).data[i] = a.data[i] + b.data[i]
         /\ \A i \in Data : Merge(a, b).fe[i] = a.fe[i] + b.fe[i]
         /\ Merge(a, b).misc = a.misc + b.misc
         /\ \A i \in Data : a.data[i] \in Int /\ a.fe[i] \in Int
         /\ a.misc \in Int
BY DEF Merge, Ledger

\* Nothing to be said of the whole ledger when only its parts are compared.
LEMMA ChargedParts ==
  ASSUME TypeInv, TypeInv', space' = space
  PROVE  /\ \A i \in Data : Charged'.data[i] = Charged.data[i] + call'.acc.data[i] - call.acc.data[i]
         /\ \A i \in Data : Charged'.fe[i] = Charged.fe[i] + call'.acc.fe[i] - call.acc.fe[i]
         /\ Charged'.misc = Charged.misc + call'.acc.misc - call.acc.misc
         /\ \A i \in Data : Charged.data[i] \in Int /\ Charged.fe[i] \in Int
         /\ Charged.misc \in Int
<1>1. space \in Ledger /\ call.acc \in Ledger /\ call'.acc \in Ledger
  BY DEF TypeInv, TypeOK, Call
<1>2. /\ \A i \in Data : Charged.data[i] = space.data[i] + call.acc.data[i]
      /\ \A i \in Data : Charged.fe[i] = space.fe[i] + call.acc.fe[i]
      /\ Charged.misc = space.misc + call.acc.misc
  BY <1>1, MergeParts DEF Charged
<1>3. /\ \A i \in Data : Charged'.data[i] = space.data[i] + call'.acc.data[i]
      /\ \A i \in Data : Charged'.fe[i] = space.fe[i] + call'.acc.fe[i]
      /\ Charged'.misc = space.misc + call'.acc.misc
  BY <1>1, MergeParts DEF Charged
<1>4. /\ \A i \in Data : /\ space.data[i] \in Int /\ call.acc.data[i] \in Int
                         /\ call'.acc.data[i] \in Int
                         /\ space.fe[i] \in Int /\ call.acc.fe[i] \in Int /\ call'.acc.fe[i] \in Int
      /\ space.misc \in Int /\ call.acc.misc \in Int /\ call'.acc.misc \in Int
  BY <1>1, MergeParts
<1>5. QED
  BY <1>2, <1>3, <1>4

LEMMA AddsKeepsCharges ==
  ASSUME CarefulInv, ListingInv', NEW r, NEW p, NEW i, Adds(r, p, i), NextItemDone,
         LinkRest(r, p, i), p = Head(call.todo).path, i = Head(call.todo).ino
  PROVE  SpaceCharged'
<1>1. /\ TypeInv /\ TypeInv' /\ p \in Path /\ i \in Data \cup {None} /\ SpaceCharged
      /\ space' = space /\ boot \in Catalog /\ CountsExact
  BY DEF CarefulInv, ListingInv, Adds, InoOrNone, LinkRest, TypeInv, TypeOK, TreeExact
<1>2. /\ NamedData' = NamedData \cup ({i} \ {None})
      /\ PendingData = PendingData' \cup {i}
      /\ NamedData \subseteq Data
  BY AddsNames
<1>3. call'.new = call.new /\ call'.segs = call.segs /\ call'.op = call.op /\ call'.dirty = TRUE
  BY DEF NextItemDone
<1>4. call.new \subseteq Data
  BY <1>1 DEF TypeInv, TypeOK, Call
<1>5. \A j \in Data : j \in ExpectedData' <=> j \in ExpectedData
  BY <1>1, <1>2, <1>3, NoneApart DEF ExpectedData
<1>6. call'.new \subseteq ExpectedData'
  BY <1>1, <1>3, <1>4, <1>5 DEF SpaceCharged
<1>7. call.acc \in Ledger
  BY <1>1 DEF TypeInv, TypeOK, Call
<1>8. call'.acc = IF p \notin UdfPath THEN call.acc
                  ELSE IF i = None THEN [call.acc EXCEPT !.misc = @ + 1]
                  ELSE IF numUdf[i] = 0 THEN [call.acc EXCEPT !.fe[i] = @ + 1]
                  ELSE call.acc
  BY DEF LinkRest
<1>9. /\ call'.acc.data = call.acc.data
      /\ \A j \in Data : call'.acc.fe[j] = IF p \in UdfPath /\ j = i /\ numUdf[i] = 0
                                           THEN call.acc.fe[j] + 1 ELSE call.acc.fe[j]
      /\ call'.acc.misc = IF p \in UdfPath /\ i = None THEN call.acc.misc + 1 ELSE call.acc.misc
  BY <1>1, <1>7, <1>8, NoneApart DEF Ledger
<1>10. /\ \A j \in Data : Charged'.data[j] = Charged.data[j] + call'.acc.data[j] - call.acc.data[j]
       /\ \A j \in Data : Charged'.fe[j] = Charged.fe[j] + call'.acc.fe[j] - call.acc.fe[j]
       /\ Charged'.misc = Charged.misc + call'.acc.misc - call.acc.misc
       /\ \A j \in Data : Charged.data[j] \in Int /\ Charged.fe[j] \in Int
       /\ Charged.misc \in Int
       /\ \A j \in Data : call.acc.data[j] \in Int /\ call.acc.fe[j] \in Int
       /\ call.acc.misc \in Int
  BY <1>1, <1>7, ChargedParts, MergeParts
<1>11. /\ r \in Rec \ Entries /\ ino'[r] = i /\ UdfEntries \subseteq Rec /\ r \notin UdfEntries
       /\ UdfEntries' = IF p \in UdfPath THEN UdfEntries \cup {r} ELSE UdfEntries
       /\ \A q \in UdfEntries : ino'[q] = ino[q]
  <2>1. /\ Entries' = Entries \cup {r} /\ home'[r] = p /\ ino'[r] = i /\ r \in Rec \ Entries
        /\ \A q \in Rec \ {r} : home'[q] = home[q] /\ ino'[q] = ino[q]
    BY DEF Adds
  <2>2. Entries \subseteq Rec /\ UdfEntries \subseteq Entries
    BY <1>1, EntriesType
  <2>3. UdfEntries' = IF p \in UdfPath THEN UdfEntries \cup {r} ELSE UdfEntries
    BY <2>1, <2>2, UdfEntriesDef
  <2>4. QED
    BY <2>1, <2>2, <2>3
<1>12. DataCharged'
  <2>1. \A j \in Data : Charged'.data[j] = Charged.data[j]
    BY <1>9, <1>10
  <2>2. QED
    BY <1>1, <1>5, <2>1 DEF SpaceCharged, DataCharged
<1>13. EntriesCharged'
  <2>1. ASSUME NEW j \in Data
        PROVE  Charged'.fe[j] = IF \E q \in UdfEntries' : ino'[q] = j THEN 1 ELSE 0
    <3>1. Charged.fe[j] = IF \E q \in UdfEntries : ino[q] = j THEN 1 ELSE 0
      BY <1>1 DEF SpaceCharged, EntriesCharged
    <3>2. numUdf[j] = 0 <=> ~\E q \in UdfEntries : ino[q] = j
      <4> DEFINE S == {q \in UdfEntries : ino[q] = j}
      <4>1. numUdf[j] = Cardinality(S)
        BY <1>1 DEF CountsExact
      <4>2. Cardinality(S) = 0 <=> S = {}
        BY <1>11, SetOfRecords
      <4>3. QED
        BY <4>1, <4>2
    <3>3. (\E q \in UdfEntries' : ino'[q] = j)
             <=> (\E q \in UdfEntries : ino[q] = j) \/ (p \in UdfPath /\ j = i)
      BY <1>11
    <3>4. Charged'.fe[j] = IF p \in UdfPath /\ j = i /\ numUdf[i] = 0
                           THEN Charged.fe[j] + 1 ELSE Charged.fe[j]
      BY <1>9, <1>10
    <3>5. QED
      BY <3>1, <3>2, <3>3, <3>4
  <2>2. QED
    BY <2>1 DEF EntriesCharged
<1>14. MiscCharged'
  <2> DEFINE S == {q \in UdfEntries : ino[q] = None}
  <2>1. S \subseteq Rec /\ r \in Rec \ S
    BY <1>11
  <2>2. {q \in UdfEntries' : ino'[q] = None} = IF p \in UdfPath /\ i = None THEN S \cup {r} ELSE S
    BY <1>11
  <2>3. Charged.misc = BootMisc + Cardinality(S)
    BY <1>1 DEF SpaceCharged, MiscCharged
  <2>4. BootMisc' = BootMisc /\ BootMisc \in Int
    BY <1>1, <1>3 DEF BootMisc, LinkRest, Catalog
  <2>5. Charged'.misc = IF p \in UdfPath /\ i = None THEN Charged.misc + 1 ELSE Charged.misc
    BY <1>9, <1>10
  <2> HIDE DEF S
  <2>6. Cardinality(S \cup {r}) = Cardinality(S) + 1 /\ Cardinality(S) \in Nat
    BY <2>1, SetOfRecords
  <2>7. Charged'.misc = BootMisc' + Cardinality({q \in UdfEntries' : ino'[q] = None})
    BY <2>2, <2>3, <2>4, <2>5, <2>6
  <2>8. QED
    BY <2>7 DEF MiscCharged
<1>15. QED
  BY <1>3, <1>6, <1>12, <1>13, <1>14 DEF SpaceCharged

LEMMA LinkKeepsCareful ==
  ASSUME Careful, CarefulInv, ListingInv', NEW r \in Rec, Link(r)
  PROVE  CarefulInv'
<1> DEFINE p == Head(call.todo).path
           i == Head(call.todo).ino
<1>1. ListingInv /\ TypeInv /\ TreeExact
  BY DEF CarefulInv, ListingInv
<1>2. Adds(r, p, i)
  BY <1>1, LinkAdds
<1>3. NextItemDone /\ LinkRest(r, p, i)
  BY <1>1, LinkCall, LinkDoesRest
<1>4. call.todo # <<>> /\ p \in Path /\ p # None /\ Head(call.todo) \in Pending
  BY <1>1, NextItem, HeadIsPending, NoneApart
<1>5. call.op = "add" /\ call'.op = "add" /\ call.cur = None /\ call'.cur = None
  BY <1>3 DEF NextItemDone, CarefulInv, CallShape, Removing
<1>6. p \in UdfPath \/ BigFiles = {} => listing[p] = <<>>
  BY <1>4, <1>5, NameIsFree DEF CarefulInv, Adding
<1>7. TreeExact'
  BY <1>1, <1>2, <1>6, AddsKeepsTree
<1>8. ChainsExact'
  BY <1>2, <1>3, <1>6, AddsKeepsChains
<1>9. InFile'
  BY <1>2, <1>3, AddsKeepsFile
<1>10. TodoShape' /\ NewData'
  <2>1. UNCHANGED inodes /\ boot'.entries = boot.entries
    BY <1>1, <1>3 DEF LinkRest, TypeInv, TypeOK, Catalog
  <2>2. QED
    BY <1>2, <1>3, <2>1, AddsKeepsTodo
<1>11. CatalogExact'
  BY <1>2, <1>3, AddsKeepsCatalog
<1>12. StoredExact'
  BY <1>2, <1>3, AddsKeepsStored
<1>13. SpaceCharged'
  BY <1>2, <1>3, AddsKeepsCharges
<1>14. CallShape'
  BY <1>3, <1>5 DEF CarefulInv, CallShape, NextItemDone
<1>15. InHand'
  BY <1>5 DEF InHand
<1>16. NoInternalError'
  BY <1>3 DEF CarefulInv, NoInternalError, LinkRest
<1>17. Adding'
  BY <1>9, <1>10 DEF Adding
<1>18. QED
  BY <1>7, <1>8, <1>11, <1>12, <1>13, <1>14, <1>15, <1>16, <1>17 DEF CarefulInv

-----------------------------------------------------------------------------
(* The steps that change no listing and no link. *)

LEMMA QuietKeepsCatalog ==
  ASSUME TypeInv, TypeInv', Quiet, CatalogExact, UNCHANGED <<boot, brs>>,
         call.op # "rm_eltorito", call'.op # "rm_eltorito", call'.cat => boot.on
  PROVE  CatalogExact'
<1>1. Entries' = Entries /\ ino' = ino
  BY QuietKeeps DEF Quiet
<1>2. QED
  BY <1>1 DEF CatalogExact

LEMMA QuietKeepsCharges ==
  ASSUME TypeInv, TypeInv', Quiet, SpaceCharged, Charged' = Charged, BootMisc' = BootMisc,
         \A i \in Data : i \in ExpectedData' <=> i \in ExpectedData
  PROVE  DataCharged' /\ EntriesCharged' /\ MiscCharged'
<1>1. UdfEntries' = UdfEntries /\ ino' = ino
  BY QuietKeeps DEF Quiet
<1>2. DataCharged'
  BY DEF SpaceCharged, DataCharged
<1>3. EntriesCharged'
  BY <1>1 DEF SpaceCharged, EntriesCharged
<1>4. MiscCharged'
  BY <1>1 DEF SpaceCharged, MiscCharged
<1>5. QED
  BY <1>2, <1>3, <1>4

\* Needed, in terms of the sets the invariant uses.
LEMMA NeededParts ==
  ASSUME TypeInv, LinksExact
  PROVE  /\ \A i \in Data : Needed.data[i] = IF i \in NamedData THEN 1 ELSE 0
         /\ \A i \in Data : Needed.fe[i] = IF \E r \in UdfEntries : ino[r] = i THEN 1 ELSE 0
         /\ Needed.misc = (IF boot.on THEN IF HasUdf THEN 1 ELSE 2 ELSE 0)
                            + Cardinality({r \in UdfEntries : ino[r] = None})
         /\ Needed \in Ledger
<1>1. ASSUME NEW i \in Data PROVE LaidOut(i) <=> i \in NamedData
  <2>1. linked[i] = {r \in Entries : ino[r] = i}
    BY DEF LinksExact
  <2>2. QED
    BY <2>1 DEF LaidOut, NamedData, Booted, Entries
<1>2. ASSUME NEW i PROVE UdfListed(i) = {r \in UdfEntries : ino[r] = i}
  BY DEF UdfListed, UdfEntries
<1>3. \A i \in Data : UdfListed(i) # {} <=> \E r \in UdfEntries : ino[r] = i
  BY <1>2
<1>4. Cardinality({r \in UdfEntries : ino[r] = None}) \in Nat
  <2>1. {r \in UdfEntries : ino[r] = None} \subseteq Rec
    BY EntriesType
  <2>2. QED
    BY <2>1, SetOfRecords
<1>5. UdfListed(None) = {r \in UdfEntries : ino[r] = None}
  BY <1>2
<1>6. QED
  BY <1>1, <1>3, <1>4, <1>5 DEF Needed, Ledger

LEMMA QuietNeeded ==
  ASSUME TypeInv, TypeInv', Quiet, LinksExact, boot'.on = boot.on, NamedData' = NamedData
  PROVE  Needed' = Needed
<1>1. Entries' = Entries /\ UdfEntries' = UdfEntries /\ ino' = ino /\ linked' = linked
  BY QuietKeeps DEF Quiet
<1>2. \A i : UdfListed(i) = {r \in UdfEntries : ino[r] = i}
  BY DEF UdfListed, UdfEntries
<1>3. \A i : UdfListed(i)' = {r \in UdfEntries' : ino'[r] = i}
  BY DEF UdfListed, UdfEntries
<1>4. \A i \in Data : linked[i] = {r \in Entries : ino[r] = i}
  BY DEF LinksExact
<1>5. \A i \in Data : LaidOut(i) <=> i \in NamedData
  <2>1. \A i : LaidOut(i) <=> i \in Elements(boot.entries) \/ \E r \in Entries : ino[r] = i
    BY DEF LaidOut, Booted, Entries
  <2>2. QED
    BY <1>4, <2>1 DEF NamedData
<1>6. \A i \in Data : LaidOut(i)' <=> i \in NamedData'
  <2>1. \A i : LaidOut(i)' <=> i \in Elements(boot'.entries) \/ \E r \in Entries' : ino'[r] = i
    BY DEF LaidOut, Booted, Entries
  <2>2. QED
    BY <1>1, <1>4, <2>1 DEF NamedData
<1>7. QED
  BY <1>1, <1>2, <1>3, <1>5, <1>6 DEF Needed

LEMMA MergeNothing ==
  ASSUME NEW a \in Ledger
  PROVE  Merge(a, NoCharge) = a
BY DEF Merge, NoCharge, Ledger

\* Between calls nothing is pending: the ledger and the stored data are exact.
LEMMA IdleExact ==
  ASSUME CarefulInv, call.op = "idle"
  PROVE  /\ call = Idle /\ Pending = {} /\ NamedData = inodes /\ Growing = {}
         /\ ExpectedData = NamedData /\ Charged = space /\ space = Needed
<1>1. call = Idle /\ TypeInv /\ LinksExact /\ space \in Ledger
  BY DEF CarefulInv, CallShape, ListingInv, TypeInv, TypeOK, TreeExact
<1>2. Pending = {} /\ call.segs = <<>> /\ call.acc = NoCharge /\ call.op = "idle"
      /\ ~call.dirty
  BY <1>1 DEF Pending, Idle, Elements
<1>3. PendingData = {} /\ Elements(call.segs) = {} /\ Growing = {}
  BY <1>2 DEF PendingData, Elements, Growing
<1>4. NamedData = inodes
  BY <1>2 DEF CarefulInv, StoredExact
<1>5. ExpectedData = NamedData
  BY <1>3 DEF ExpectedData
<1>6. Charged = space
  BY <1>1, <1>2, MergeNothing DEF Charged
<1>7. /\ \A i \in Data : Needed.data[i] = IF i \in NamedData THEN 1 ELSE 0
      /\ \A i \in Data : Needed.fe[i] = IF \E r \in UdfEntries : ino[r] = i THEN 1 ELSE 0
      /\ Needed.misc = (IF boot.on THEN IF HasUdf THEN 1 ELSE 2 ELSE 0)
                         + Cardinality({r \in UdfEntries : ino[r] = None})
      /\ Needed \in Ledger
  BY <1>1, NeededParts
<1>8. /\ \A i \in Data : space.data[i] = Needed.data[i] /\ space.fe[i] = Needed.fe[i]
      /\ space.misc = Needed.misc
  BY <1>2, <1>5, <1>6, <1>7
     DEF CarefulInv, SpaceCharged, DataCharged, EntriesCharged, MiscCharged, BootMisc
<1>9. space = Needed
  BY <1>1, <1>7, <1>8 DEF Ledger
<1>10. QED
  BY <1>1, <1>2, <1>3, <1>4, <1>5, <1>6, <1>9

LEMMA TrackCall ==
  ASSUME TypeInv, Track
  PROVE  /\ NextItemDone /\ Quiet /\ call'.acc = call.acc
         /\ Head(call.todo).path = None /\ Head(call.todo).ino \in Data
         /\ inodes' = inodes \cup {Head(call.todo).ino}
         /\ UNCHANGED <<boot, brs, space, raised>>
<1>1. call \in Call /\ call.todo \in Seq(Item)
  BY DEF TypeInv, TypeOK, Call
<1>2. /\ call.op = "add" /\ call.todo # <<>> /\ Head(call.todo).path = None
      /\ inodes' = inodes \cup {Head(call.todo).ino}
      /\ call' = [call EXCEPT !.todo = Tail(@), !.dirty = TRUE]
      /\ UNCHANGED <<tree, ino, linked, numUdf, boot, brs, space, raised>>
  BY DEF Track
<1>3. NextItemDone /\ call'.acc = call.acc
  BY <1>1, <1>2 DEF NextItemDone, Call
<1>4. Head(call.todo) \in Item
  BY <1>1, <1>2, HeadTailProperties
<1>5. QED
  BY <1>2, <1>3, <1>4 DEF Item, Quiet, tree

LEMMA TrackKeepsAdding ==
  ASSUME CarefulInv, TypeInv', Track
  PROVE  Adding'
<1> DEFINE i == Head(call.todo).ino
<1>1. /\ NextItemDone /\ Quiet /\ Head(call.todo).path = None /\ i \in Data
      /\ inodes' = inodes \cup {i} /\ boot' = boot
  BY TrackCall DEF CarefulInv, ListingInv
<1>2. /\ TypeInv /\ call.op = "add" /\ InFile /\ TodoShape /\ NewData /\ call'.dirty
      /\ call'.new = call.new /\ call'.segs = call.segs /\ call'.cat = call.cat
      /\ SegmentPaths' = SegmentPaths
  BY <1>1 DEF CarefulInv, ListingInv, Adding, NextItemDone, SegmentPaths
<1>3. /\ Pending = Pending' \cup {Head(call.todo)} /\ PathsOnce(call'.todo)
  BY <1>1, <1>2, ItemsLeft DEF TodoShape
<1>4. /\ listing' = listing /\ ino' = ino /\ linked' = linked
  BY <1>1 DEF Quiet
<1>5. ASSUME OneFile PROVE InFile'
  <2>1. OneFile'
    BY <1>2, <1>3, <1>4, <1>5 DEF OneFile
  <2>2. QED
    BY <2>1 DEF InFile
<1>6. ASSUME NEW f \in BigFiles, NEW n \in 1..Len(f), InSegments(f, n) PROVE InFile'
  <2>1. \A q \in SegmentPaths : (\E m \in Pending : m.path = q) => \E m \in Pending' : m.path = q
    BY <1>1, <1>3 DEF SegmentPaths
  <2>2. InSegments(f, n)'
    BY <1>2, <1>3, <1>4, <1>6, <2>1 DEF InSegments
  <2>3. QED
    BY <2>2 DEF InFile
<1>7. InFile'
  BY <1>2, <1>5, <1>6 DEF InFile
<1>8. TodoShape'
  BY <1>1, <1>2, <1>3, <1>4 DEF TodoShape
<1>9. NewData'
  BY <1>1, <1>2 DEF NewData
<1>10. QED
  BY <1>7, <1>8, <1>9 DEF Adding

LEMMA TrackKeepsCareful ==
  ASSUME CarefulInv, ListingInv', Track
  PROVE  CarefulInv'
<1> DEFINE i == Head(call.todo).ino
<1>1. /\ NextItemDone /\ Quiet /\ Head(call.todo).path = None /\ i \in Data
      /\ inodes' = inodes \cup {i} /\ UNCHANGED <<boot, brs, space, raised>>
      /\ call'.acc = call.acc
  BY TrackCall DEF CarefulInv, ListingInv
<1>2. /\ TypeInv /\ TypeInv' /\ call.op = "add" /\ TodoShape /\ call.cur = None
      /\ call'.op = "add" /\ call'.dirty /\ call'.cur = None /\ call'.new = call.new
      /\ call'.segs = call.segs /\ call'.cat = call.cat /\ SegmentPaths' = SegmentPaths
  BY <1>1 DEF CarefulInv, ListingInv, Adding, NextItemDone, CallShape, Removing, SegmentPaths
<1>3. Head(call.todo) \in Pending /\ Pending = Pending' \cup {Head(call.todo)}
  BY <1>1, <1>2, ItemsLeft DEF TodoShape
<1>4. TreeExact'
  BY <1>1, <1>2, QuietKeeps DEF CarefulInv
<1>5. NamedData' = NamedData /\ PendingData = PendingData' \cup {i}
      /\ Untracked = Untracked' \cup {i}
  BY <1>1, <1>3 DEF NamedData, PendingData, Untracked, Quiet
<1>6. i \in call.new /\ (i \in NamedData \/ i \in PendingData')
  BY <1>1, <1>2, <1>3 DEF TodoShape, NamedData, PendingData
<1>7. ChainsExact'
  <2>1. \A p \in Path : p \in Growing => p \in Growing'
    BY <1>1, <1>2, <1>3, NoneApart DEF Growing
  <2>2. QED
    BY <1>1, <1>2, <2>1, QuietKeepsChains DEF CarefulInv
<1>8. Adding'
  BY <1>2, TrackKeepsAdding
<1>9. CatalogExact'
  <2>1. call'.cat => boot.on
    BY <1>2 DEF CarefulInv, CatalogExact
  <2>2. QED
    BY <1>1, <1>2, <2>1, QuietKeepsCatalog DEF CarefulInv
<1>10. StoredExact'
  BY <1>1, <1>2, <1>5, <1>6 DEF CarefulInv, StoredExact
<1>11. SpaceCharged'
  <2>1. \A j \in Data : j \in ExpectedData' <=> j \in ExpectedData
    BY <1>2, <1>5, <1>6 DEF ExpectedData
  <2>2. Charged' = Charged /\ BootMisc' = BootMisc
    BY <1>1, <1>2 DEF Charged, BootMisc
  <2>3. DataCharged' /\ EntriesCharged' /\ MiscCharged'
    BY <1>1, <1>2, <2>1, <2>2, QuietKeepsCharges DEF CarefulInv
  <2>4. call'.new \subseteq ExpectedData'
    BY <1>2, <2>1 DEF CarefulInv, SpaceCharged, TypeInv, TypeOK, Call
  <2>5. QED
    BY <1>2, <2>3, <2>4 DEF SpaceCharged
<1>12. CallShape'
  BY <1>1, <1>2 DEF CarefulInv, CallShape, NextItemDone
<1>13. InHand' /\ NoInternalError'
  BY <1>1, <1>2 DEF InHand, CarefulInv, NoInternalError
<1>14. QED
  BY <1>4, <1>7, <1>8, <1>9, <1>10, <1>11, <1>12, <1>13 DEF CarefulInv

-----------------------------------------------------------------------------
(* The items of a request. *)

\* No path twice.
Once(ps) == \A j, k \in 1..Len(ps) : ps[j] = ps[k] /\ ps[j] # None => j = k

LEMMA ConcatOnce ==
  ASSUME NEW s \in Seq(PathOrNone), NEW t \in Seq(PathOrNone), Once(s), Once(t),
         Elements(s) \cap Elements(t) \subseteq {None}
  PROVE  /\ s \o t \in Seq(PathOrNone) /\ Once(s \o t)
         /\ Elements(s \o t) = Elements(s) \cup Elements(t)
<1> DEFINE u == s \o t
<1>1. /\ u \in Seq(PathOrNone) /\ Len(u) = Len(s) + Len(t)
      /\ \A k \in 1..(Len(s) + Len(t)) : u[k] = IF k <= Len(s) THEN s[k] ELSE t[k - Len(s)]
      /\ Len(s) \in Nat /\ Len(t) \in Nat
  BY ConcatProperties, LenProperties
<1> HIDE DEF u
<1>2. ASSUME NEW k \in 1..Len(u)
      PROVE  \/ k \in 1..Len(s) /\ u[k] = s[k] /\ u[k] \in Elements(s)
             \/ k - Len(s) \in 1..Len(t) /\ u[k] = t[k - Len(s)] /\ u[k] \in Elements(t)
  <2>1. CASE k <= Len(s)
    <3>1. k \in 1..Len(s) /\ u[k] = s[k]
      BY <1>1, <2>1
    <3>2. QED
      BY <3>1 DEF Elements
  <2>2. CASE k > Len(s)
    <3>1. k - Len(s) \in 1..Len(t) /\ u[k] = t[k - Len(s)]
      BY <1>1, <2>2
    <3>2. QED
      BY <3>1 DEF Elements
  <2>3. QED
    BY <1>1, <2>1, <2>2
<1>3. Once(u)
  <2>1. ASSUME NEW j \in 1..Len(u), NEW k \in 1..Len(u), u[j] = u[k], u[j] # None PROVE j = k
    <3>1. CASE j \in 1..Len(s) /\ u[j] = s[j] /\ u[j] \in Elements(s)
      <4>1. u[k] \notin Elements(t)
        BY <2>1, <3>1
      <4>2. QED
        BY <1>2, <2>1, <3>1, <4>1 DEF Once
    <3>2. CASE j - Len(s) \in 1..Len(t) /\ u[j] = t[j - Len(s)] /\ u[j] \in Elements(t)
      <4>1. u[k] \notin Elements(s)
        BY <2>1, <3>2
      <4>2. j - Len(s) = k - Len(s)
        BY <1>2, <2>1, <3>2, <4>1 DEF Once
      <4>3. QED
        BY <1>1, <4>2
    <3>3. QED
      BY <1>2, <3>1, <3>2
  <2>2. QED
    BY <2>1 DEF Once
<1>4. \A x \in Elements(u) : x \in Elements(s) \cup Elements(t)
  BY <1>2 DEF Elements
<1>5. ASSUME NEW k \in 1..Len(s) PROVE s[k] \in Elements(u)
  <2>1. k \in 1..Len(u) /\ u[k] = s[k]
    BY <1>1
  <2>2. QED
    BY <2>1 DEF Elements
<1>6. ASSUME NEW k \in 1..Len(t) PROVE t[k] \in Elements(u)
  <2> DEFINE m == Len(s) + k
  <2>1. m \in 1..(Len(s) + Len(t)) /\ ~(m <= Len(s)) /\ m - Len(s) = k
    BY <1>1
  <2> HIDE DEF m
  <2>2. u[m] = t[k] /\ m \in 1..Len(u)
    BY <1>1, <2>1
  <2>3. QED
    BY <2>2 DEF Elements
<1>7. Elements(u) = Elements(s) \cup Elements(t)
  BY <1>4, <1>5, <1>6 DEF Elements
<1>8. QED
  BY <1>1, <1>3, <1>7 DEF u

LEMMA GivenOnce ==
  ASSUME NEW p \in PathOrNone
  PROVE  Given(p) \in Seq(PathOrNone) /\ Once(Given(p)) /\ Elements(Given(p)) = {p} \ {None}
<1>1. CASE p = None
  BY <1>1, GivenType DEF Given, Once, Elements
<1>2. CASE p # None
  <2>1. Given(p) = <<p>> /\ Len(<<p>>) = 1 /\ <<p>>[1] = p
    BY <1>2 DEF Given
  <2>2. Once(<<p>>) /\ Elements(<<p>>) = {p}
    BY <2>1 DEF Once, Elements
  <2>3. QED
    BY <1>2, <2>1, <2>2, GivenType
<1>3. QED
  BY <1>1, <1>2

LEMMA ItemsOnce ==
  ASSUME NEW ps \in Seq(PathOrNone), NEW i \in InoOrNone, Once(ps), i # None \/ ps \in Seq(Path)
  PROVE  /\ PathsOnce(Items(ps, i))
         /\ Elements(Items(ps, i)) = {[path |-> p, ino |-> i] : p \in Elements(ps)}
<1>1. /\ Items(ps, i) \in Seq(Item) /\ Len(Items(ps, i)) = Len(ps)
      /\ \A k \in 1..Len(Items(ps, i)) : Items(ps, i)[k].path = ps[k]
  BY ItemsType
<1>2. \A k \in 1..Len(ps) : Items(ps, i)[k] = [path |-> ps[k], ino |-> i]
  BY DEF Items
<1>3. PathsOnce(Items(ps, i))
  BY <1>1 DEF PathsOnce, Once
<1>4. Elements(Items(ps, i)) = {[path |-> p, ino |-> i] : p \in Elements(ps)}
  BY <1>1, <1>2 DEF Elements
<1>5. QED
  BY <1>3, <1>4

\* The paths of the items _add_fp makes for one segment.
WorkPaths(f, s) ==
  ({s[1], s[2]} \ {None}) \cup {None} \cup (IF Len(f) = 1 THEN {s[3]} \ {None} ELSE {})

LEMMA TripleApart ==
  ASSUME NEW s \in PathTriple
  PROVE  /\ s[1] # None => s[1] \in IsoPath
         /\ s[2] # None => s[2] \in JolietPath
         /\ s[3] # None => s[3] \in UdfPath
         /\ s[1] = s[2] => s[1] = None
         /\ s[1] = s[3] => s[1] = None
         /\ s[2] = s[3] => s[2] = None
<1>1. s[1] \in IsoPath \cup {None} /\ s[2] \in JolietPath \cup {None} /\ s[3] \in UdfPath \cup {None}
  BY DEF PathTriple
<1>2. IsoPath \cap JolietPath = {} /\ UdfPath \cap (IsoPath \cup JolietPath) = {}
  BY HardLinksAssumption
<1>3. QED
  BY <1>1, <1>2

LEMMA WorkItems ==
  ASSUME NEW f \in Seq(Data), f # <<>>, NEW s \in PathTriple
  PROVE  /\ PathsOnce(Work(f, s))
         /\ Elements(Work(f, s)) = {[path |-> p, ino |-> Head(f)] : p \in WorkPaths(f, s)}
<1> DEFINE last == IF Len(f) = 1 THEN Given(s[3]) ELSE <<>>
           a == Given(s[1]) \o Given(s[2])
           b == a \o <<None>>
           c == b \o last
           l == IF Len(f) = 1 THEN {s[3]} \ {None} ELSE {}
<1>1. /\ s[1] \in PathOrNone /\ s[2] \in PathOrNone /\ s[3] \in PathOrNone
  BY TripleType
<1>2. /\ s[1] = s[2] => s[1] = None
      /\ s[1] = s[3] => s[1] = None
      /\ s[2] = s[3] => s[2] = None
  BY TripleApart
<1>3. \A p \in {s[1], s[2], s[3]} :
        Given(p) \in Seq(PathOrNone) /\ Once(Given(p)) /\ Elements(Given(p)) = {p} \ {None}
  BY <1>1, GivenOnce
<1>4. a \in Seq(PathOrNone) /\ Once(a) /\ Elements(a) = {s[1], s[2]} \ {None}
  <2>1. Elements(Given(s[1])) \cap Elements(Given(s[2])) \subseteq {None}
    BY <1>2, <1>3
  <2>2. a \in Seq(PathOrNone) /\ Once(a)
        /\ Elements(a) = Elements(Given(s[1])) \cup Elements(Given(s[2]))
    BY <1>3, <2>1, ConcatOnce
  <2>3. QED
    BY <1>3, <2>2
<1>5. <<None>> \in Seq(PathOrNone) /\ Once(<<None>>) /\ Elements(<<None>>) = {None}
  BY DEF PathOrNone, Once, Elements
<1> HIDE DEF a
<1>6. b \in Seq(PathOrNone) /\ Once(b) /\ Elements(b) = ({s[1], s[2]} \ {None}) \cup {None}
  <2>1. Elements(a) \cap Elements(<<None>>) \subseteq {None}
    BY <1>5
  <2>2. b \in Seq(PathOrNone) /\ Once(b) /\ Elements(b) = Elements(a) \cup Elements(<<None>>)
    BY <1>4, <1>5, <2>1, ConcatOnce
  <2>3. QED
    BY <1>4, <1>5, <2>2
<1>7. last \in Seq(PathOrNone) /\ Once(last) /\ Elements(last) = l
  <2>1. <<>> \in Seq(PathOrNone) /\ Once(<<>>) /\ Elements(<<>>) = {}
    BY DEF Once, Elements
  <2>2. QED
    BY <1>3, <2>1
<1> HIDE DEF b, last
<1>8. c \in Seq(PathOrNone) /\ Once(c) /\ Elements(c) = WorkPaths(f, s)
  <2>1. Elements(b) \cap Elements(last) \subseteq {None}
    BY <1>2, <1>6, <1>7
  <2>2. c \in Seq(PathOrNone) /\ Once(c) /\ Elements(c) = Elements(b) \cup Elements(last)
    BY <1>6, <1>7, <2>1, ConcatOnce
  <2>3. QED
    BY <1>6, <1>7, <2>2 DEF WorkPaths
<1>9. Head(f) \in InoOrNone /\ Head(f) # None
  BY HeadTailProperties, NoneApart DEF InoOrNone
<1>10. Work(f, s) = Items(c, Head(f))
  BY DEF Work, a, b, c, last
<1> HIDE DEF c
<1>11. QED
  BY <1>8, <1>9, <1>10, ItemsOnce

LEMMA WorkPending ==
  ASSUME NEW f \in Seq(Data), f # <<>>, NEW s \in PathTriple, call'.todo = Work(f, s)
  PROVE  /\ PathsOnce(call'.todo)
         /\ \A m \in Pending' : m.path \in WorkPaths(f, s) /\ m.ino = Head(f)
         /\ \A p \in WorkPaths(f, s) : \E m \in Pending' : m.path = p /\ m.ino = Head(f)
         /\ PendingData' = {Head(f)}
<1>1. /\ PathsOnce(Work(f, s))
      /\ Pending' = {[path |-> p, ino |-> Head(f)] : p \in WorkPaths(f, s)}
  BY WorkItems DEF Pending
<1>2. None \in WorkPaths(f, s)
  BY DEF WorkPaths
<1>3. \A m \in Pending' : m.path \in WorkPaths(f, s) /\ m.ino = Head(f)
  BY <1>1
<1>4. ASSUME NEW p \in WorkPaths(f, s) PROVE \E m \in Pending' : m.path = p /\ m.ino = Head(f)
  <2>1. [path |-> p, ino |-> Head(f)] \in Pending'
    BY <1>1
  <2>2. QED
    BY <2>1
<1>5. PendingData' = {Head(f)}
  BY <1>2, <1>3, <1>4 DEF PendingData
<1>6. QED
  BY <1>1, <1>3, <1>4, <1>5

\* The next segment of a file: the call so far, and what it becomes.
LEMMA NextSegmentCall ==
  ASSUME TypeInv, NextSegment
  PROVE  /\ call.op = "add" /\ call'.op = "add" /\ call.segs # <<>> /\ Pending = {}
         /\ call.paths \in PathTriple /\ call.segs \in Seq(Data)
         /\ call'.todo = Work(call.segs, call.paths) /\ call'.segs = Tail(call.segs)
         /\ call'.new = call.new /\ call'.cat = call.cat /\ call'.dirty = call.dirty
         /\ SegmentPaths' = SegmentPaths /\ call'.cur = call.cur /\ call'.queue = call.queue
         /\ call'.acc = call.acc /\ Quiet
         /\ UNCHANGED <<inodes, boot, brs, space, raised>>
<1>1. call \in Call
  BY DEF TypeInv, TypeOK
<1>2. /\ call.op = "add" /\ call.todo = <<>> /\ call.segs # <<>>
      /\ call' = [call EXCEPT !.todo = Work(call.segs, call.paths), !.segs = Tail(@)]
      /\ UNCHANGED <<tree, links, boot, brs, space, raised>>
  BY DEF NextSegment
<1>3. /\ call'.op = "add" /\ call.paths \in PathTriple /\ call.segs \in Seq(Data)
      /\ call'.todo = Work(call.segs, call.paths) /\ call'.segs = Tail(call.segs)
      /\ call'.new = call.new /\ call'.cat = call.cat /\ call'.dirty = call.dirty
      /\ call'.paths = call.paths /\ call'.cur = call.cur /\ call'.queue = call.queue
      /\ call'.acc = call.acc
  BY <1>1, <1>2 DEF Call
<1>4. Pending = {} /\ SegmentPaths' = SegmentPaths
  BY <1>2, <1>3 DEF Pending, Elements, SegmentPaths
<1>5. Quiet /\ UNCHANGED <<inodes, boot, brs, space, raised>>
  BY <1>2 DEF Quiet, tree, links
<1>6. QED
  BY <1>2, <1>3, <1>4, <1>5

LEMMA NextSegmentKeepsAdding ==
  ASSUME Careful, CarefulInv, NextSegment
  PROVE  /\ Adding'
         /\ \A p \in SegmentPaths : \E m \in Pending' : m.path = p
<1>1. /\ call.op = "add" /\ call'.op = "add" /\ call.segs # <<>> /\ Pending = {}
      /\ call.paths \in PathTriple /\ call.segs \in Seq(Data)
      /\ call'.todo = Work(call.segs, call.paths) /\ call'.segs = Tail(call.segs)
      /\ call'.new = call.new /\ call'.cat = call.cat /\ call'.dirty = call.dirty
      /\ SegmentPaths' = SegmentPaths
      /\ listing' = listing /\ ino' = ino /\ linked' = linked /\ inodes' = inodes /\ boot' = boot
  BY NextSegmentCall DEF CarefulInv, ListingInv, Quiet
<1>2. InFile /\ TodoShape /\ NewData /\ ListingInv /\ TypeInv /\ LinksExact
  BY <1>1 DEF CarefulInv, Adding, ListingInv, TreeExact
<1>3. ~OneFile
  BY <1>1 DEF OneFile
<1>4. PICK f \in BigFiles : \E n \in 1..Len(f) : InSegments(f, n)
  BY <1>2, <1>3 DEF InFile
<1>5. PICK n \in 1..Len(f) : InSegments(f, n)
  BY <1>4
<1>6. /\ call.new = Elements(f) /\ ~call.cat
      /\ call.segs = SubSeq(f, n + 1, Len(f)) /\ SegmentPaths # {}
      /\ \A i \in Elements(call.segs) : linked[i] = {}
      /\ \A p \in SegmentPaths : listing[p] # <<>> /\ \A r \in Elements(listing[p]) : ino[r] \in Elements(f)
  BY <1>1, <1>5 DEF InSegments
<1>7. n + 1 \in 1..Len(f) /\ n \in Nat /\ Len(f) \in Nat
  BY <1>1, <1>6, SegmentsLeft, SegmentsType
<1>8. /\ Head(call.segs) = f[n + 1] /\ Tail(call.segs) = SubSeq(f, (n + 1) + 1, Len(f))
      /\ f[n + 1] \in Elements(f) /\ f[n + 1] \in Data /\ f[n + 1] # None
      /\ Elements(call.segs) = Elements(Tail(call.segs)) \cup {f[n + 1]}
  <2>1. f \in Seq(Data) /\ f[n + 1] \in Data /\ f[n + 1] \in Elements(f)
    BY <1>7, SegmentsType DEF Elements
  <2>2. /\ Len(call.segs) = Len(f) - n
        /\ \A k \in 1..(Len(f) - n) : call.segs[k] = f[n + k]
    <3>1. n + 1 \in Int /\ Len(f) \in Int /\ \A k \in (n + 1)..Len(f) : f[k] \in Data
      BY <1>7, SegmentsType
    <3>2. /\ Len(SubSeq(f, n + 1, Len(f))) = IF n + 1 <= Len(f) THEN Len(f) - (n + 1) + 1 ELSE 0
          /\ \A k \in 1..(Len(f) - (n + 1) + 1) : SubSeq(f, n + 1, Len(f))[k] = f[n + 1 + k - 1]
      BY <3>1, SubSeqProperties
    <3>3. QED
      BY <1>6, <1>7, <3>2
  <2>3. /\ Head(call.segs) = call.segs[1] /\ Tail(call.segs) \in Seq(Data)
        /\ Len(Tail(call.segs)) = Len(call.segs) - 1
        /\ \A k \in 1..Len(Tail(call.segs)) : Tail(call.segs)[k] = call.segs[k + 1]
    BY <1>1, HeadTailProperties
  <2>4. Head(call.segs) = f[n + 1]
    BY <1>7, <2>2, <2>3
  <2> DEFINE t == SubSeq(f, (n + 1) + 1, Len(f))
  <2>5. /\ t \in Seq(Data) /\ Len(t) = Len(f) - (n + 1)
        /\ \A k \in 1..(Len(f) - (n + 1)) : t[k] = f[n + 1 + k]
    <3>1. (n + 1) + 1 \in Int /\ Len(f) \in Int /\ \A k \in ((n + 1) + 1)..Len(f) : f[k] \in Data
      BY <1>7, SegmentsType
    <3>2. /\ t \in Seq(Data)
          /\ Len(t) = IF (n + 1) + 1 <= Len(f) THEN Len(f) - ((n + 1) + 1) + 1 ELSE 0
          /\ \A k \in 1..(Len(f) - ((n + 1) + 1) + 1) : t[k] = f[(n + 1) + 1 + k - 1]
      BY <3>1, SubSeqProperties
    <3> HIDE DEF t
    <3>3. QED
      BY <1>7, <3>2
  <2> HIDE DEF t
  <2>6. Tail(call.segs) = t
    <3>1. Len(Tail(call.segs)) = Len(t)
      BY <1>7, <2>2, <2>3, <2>5
    <3>2. ASSUME NEW k \in 1..Len(t) PROVE Tail(call.segs)[k] = t[k]
      <4>1. k + 1 \in 1..(Len(f) - n) /\ n + (k + 1) = n + 1 + k
        BY <1>7, <2>5
      <4>2. Tail(call.segs)[k] = call.segs[k + 1]
        BY <2>3, <3>1
      <4>3. QED
        BY <2>2, <2>5, <4>1, <4>2
    <3>3. QED
      BY <2>3, <2>5, <3>1, <3>2, SeqEqual
  <2>7. Elements(call.segs) = Elements(Tail(call.segs)) \cup {f[n + 1]}
    BY <1>1, <2>4, HeadAndTail
  <2>8. QED
    BY <2>1, <2>4, <2>6, <2>7, NoneApart DEF t
<1>9. /\ PathsOnce(call'.todo)
      /\ \A m \in Pending' : m.path \in WorkPaths(call.segs, call.paths) /\ m.ino = f[n + 1]
      /\ \A p \in WorkPaths(call.segs, call.paths) : \E m \in Pending' : m.path = p /\ m.ino = f[n + 1]
  BY <1>1, <1>8, WorkPending
<1>10. WorkPaths(call.segs, call.paths) = SegmentPaths \cup {None}
  <2>1. call.paths[3] = None
    BY <1>1, TripleApart DEF Careful
  <2>2. QED
    BY <2>1 DEF WorkPaths, SegmentPaths
<1>11. SegmentPaths \subseteq Path
  BY <1>1, TripleType DEF SegmentPaths, PathOrNone
<1>12. linked[f[n + 1]] = {}
  BY <1>6, <1>8
<1>13. \A p \in Path : \A r \in Elements(listing[p]) : ino[r] # f[n + 1]
  <2>1. \A p \in Path : \A r \in Elements(listing[p]) : r \in Entries
    <3>1. \A p \in Path : Elements(listing[p]) \subseteq Rec
      BY <1>2, ElementsType DEF TypeInv, TypeOK
    <3>2. QED
      BY <1>2, <3>1, ListedSomewhere
  <2>2. QED
    BY <1>2, <1>8, <1>12, <2>1 DEF LinksExact
<1>14. InSegments(f, n + 1)'
  <2>1. \A i \in Elements(call'.segs) : linked'[i] = {}
    BY <1>1, <1>6, <1>8
  <2>2. call'.segs = SubSeq(f, (n + 1) + 1, Len(f))
    BY <1>1, <1>8
  <2>3. \A m \in Pending' : m.ino = f[n + 1] /\ m.path \in SegmentPaths' \cup {None}
    BY <1>1, <1>9, <1>10
  <2>4. \A m \in Pending' : m.path # None => \A r \in Elements(listing'[m.path]) : ino'[r] # f[n + 1]
    BY <1>1, <1>11, <1>13, <2>3
  <2>5. QED
    BY <1>1, <1>6, <2>1, <2>2, <2>3, <2>4 DEF InSegments
<1>15. InFile'
  BY <1>7, <1>14 DEF InFile
<1>16. \A p \in SegmentPaths : \E m \in Pending' : m.path = p /\ m.ino = f[n + 1]
  BY <1>9, <1>10
<1>17. \E m \in Pending' : m.path = None /\ m.ino = f[n + 1]
  BY <1>9, <1>10
<1>18. TodoShape'
  <2>1. PICK o \in Pending' : o.path # None /\ o.ino = f[n + 1]
    <3>1. PICK p \in SegmentPaths : p # None
      BY <1>6 DEF SegmentPaths
    <3>2. QED
      BY <1>16, <3>1
  <2>2. ASSUME NEW m \in Pending', m.path = None
        PROVE  /\ m.ino \in call'.new
               /\ linked'[m.ino] # {} \/ \E x \in Pending' : x.path # None /\ x.ino = m.ino
    <3>1. m.ino = f[n + 1] /\ m.ino \in call'.new
      BY <1>1, <1>6, <1>8, <1>9
    <3>2. QED
      BY <2>1, <3>1
  <2>3. \A m \in Pending' : m.path # None =>
          /\ m.ino = None <=> call'.cat
          /\ m.ino \in inodes' \cup {None} \/ \E x \in Pending' : x.path = None /\ x.ino = m.ino
    BY <1>1, <1>6, <1>8, <1>9, <1>17
  <2>4. QED
    BY <1>9, <2>2, <2>3 DEF TodoShape
<1>19. NewData'
  BY <1>1, <1>2 DEF NewData
<1>20. QED
  BY <1>15, <1>16, <1>18, <1>19 DEF Adding

LEMMA NextSegmentKeepsCareful ==
  ASSUME Careful, CarefulInv, ListingInv', NextSegment
  PROVE  CarefulInv'
<1>1. /\ call.op = "add" /\ call'.op = "add" /\ call.segs # <<>> /\ Pending = {}
      /\ call.paths \in PathTriple /\ call.segs \in Seq(Data)
      /\ call'.todo = Work(call.segs, call.paths) /\ call'.segs = Tail(call.segs)
      /\ call'.new = call.new /\ call'.cat = call.cat /\ call'.dirty = call.dirty
      /\ call'.cur = call.cur /\ call'.queue = call.queue
      /\ call'.acc = call.acc /\ Quiet
      /\ UNCHANGED <<inodes, boot, brs, space, raised>>
  BY NextSegmentCall DEF CarefulInv, ListingInv
<1>2. TypeInv /\ TypeInv' /\ call.cur = None /\ LinksExact
  BY <1>1 DEF CarefulInv, ListingInv, CallShape, Removing, TreeExact
<1>3. Adding' /\ \A p \in SegmentPaths : \E m \in Pending' : m.path = p
  BY NextSegmentKeepsAdding
<1>4. TreeExact'
  BY <1>1, <1>2, QuietKeeps DEF CarefulInv
<1>5. PendingData' = {Head(call.segs)} /\ Untracked = {} /\ PendingData = {}
  BY <1>1, WorkPending DEF Untracked, PendingData
<1>6. NamedData' = NamedData
  BY <1>1 DEF NamedData, Quiet
<1>7. Elements(call.segs) = Elements(call'.segs) \cup {Head(call.segs)}
  BY <1>1, HeadAndTail
<1>8. ChainsExact'
  <2>1. \A p \in Path : p \in Growing => p \in Growing'
    BY <1>1, <1>3 DEF Growing
  <2>2. QED
    BY <1>1, <1>2, <2>1, QuietKeepsChains DEF CarefulInv
<1>9. CatalogExact'
  <2>1. call'.cat => boot.on
    BY <1>1 DEF CarefulInv, CatalogExact
  <2>2. QED
    BY <1>1, <1>2, <2>1, QuietKeepsCatalog DEF CarefulInv
<1>10. StoredExact'
  BY <1>1, <1>5, <1>6 DEF CarefulInv, StoredExact
<1>11. SpaceCharged'
  <2>1. ExpectedData' = ExpectedData
    BY <1>5, <1>6, <1>7 DEF ExpectedData
  <2>2. Charged' = Charged /\ BootMisc' = BootMisc
    BY <1>1 DEF Charged, BootMisc
  <2>3. DataCharged' /\ EntriesCharged' /\ MiscCharged'
    BY <1>1, <1>2, <2>1, <2>2, QuietKeepsCharges DEF CarefulInv
  <2>4. Needed' = Needed
    BY <1>1, <1>2, <1>6, QuietNeeded
  <2>5. QED
    BY <1>1, <2>1, <2>3, <2>4 DEF CarefulInv, SpaceCharged
<1>12. CallShape'
  BY <1>1 DEF CarefulInv, CallShape
<1>13. InHand' /\ NoInternalError'
  BY <1>1, <1>2 DEF InHand, CarefulInv, NoInternalError
<1>14. QED
  BY <1>3, <1>4, <1>8, <1>9, <1>10, <1>11, <1>12, <1>13 DEF CarefulInv

-----------------------------------------------------------------------------
(* The ends of a call. *)

LEMMA IdleShape ==
  ASSUME call' = Idle
  PROVE  /\ CallShape' /\ Adding' /\ InHand' /\ Pending' = {} /\ Growing' = {}
         /\ Untracked' = {} /\ PendingData' = {} /\ call'.op = "idle" /\ call'.acc = NoCharge
         /\ call'.segs = <<>> /\ call'.new = {} /\ ~call'.cat /\ call'.cur = None
         /\ call'.dirty = FALSE
<1>1. /\ call'.op = "idle" /\ call'.todo = <<>> /\ call'.segs = <<>> /\ call'.new = {}
      /\ ~call'.cat /\ call'.dirty = FALSE /\ call'.cur = None /\ call'.queue = <<>>
      /\ call'.acc = NoCharge
  BY DEF Idle
<1>2. Pending' = {} /\ Growing' = {}
  BY <1>1 DEF Pending, Elements, Growing
<1>3. Untracked' = {} /\ PendingData' = {}
  BY <1>2 DEF Untracked, PendingData
<1>4. CallShape' /\ Adding' /\ InHand'
  BY <1>1 DEF CallShape, Adding, InHand
<1>5. QED
  BY <1>1, <1>2, <1>3, <1>4

\* A call that ends without a change of links, listings or catalog.
LEMMA QuietEnd ==
  ASSUME CarefulInv, ListingInv', Quiet, UNCHANGED <<inodes, boot, brs>>, call' = Idle,
         NamedData = inodes, Growing = {}, call.cur = None, call.op # "rm_eltorito",
         raised' # "internal", space' = Charged \/ space' = Needed,
         space' = Charged => \A i \in Data : i \in ExpectedData => i \in NamedData
  PROVE  CarefulInv'
<1>1. /\ TypeInv /\ TypeInv' /\ LinksExact /\ NamedData' = NamedData
      /\ space' \in Ledger /\ inodes \subseteq Data
  BY DEF CarefulInv, ListingInv, TypeInv, TypeOK, TreeExact, NamedData, Quiet
<1>2. /\ CallShape' /\ Adding' /\ InHand' /\ PendingData' = {} /\ Untracked' = {}
      /\ call'.op = "idle" /\ call'.acc = NoCharge /\ call'.segs = <<>> /\ call'.new = {}
      /\ ~call'.cat /\ call'.cur = None
  BY IdleShape
<1>3. TreeExact'
  BY <1>1, QuietKeeps DEF CarefulInv
<1>4. ChainsExact'
  BY <1>1, QuietKeepsChains DEF CarefulInv
<1>5. CatalogExact'
  BY <1>1, <1>2, QuietKeepsCatalog DEF CarefulInv
<1>6. StoredExact'
  BY <1>1, <1>2 DEF StoredExact
<1>7. ExpectedData' = NamedData
  BY <1>1, <1>2 DEF ExpectedData, Elements
<1>8. Charged' = space'
  BY <1>1, <1>2, MergeNothing DEF Charged
<1>9. BootMisc' = IF boot.on THEN IF HasUdf THEN 1 ELSE 2 ELSE 0
  BY <1>2 DEF BootMisc
<1>10. UdfEntries' = UdfEntries /\ ino' = ino
  BY <1>1, QuietKeeps DEF Quiet
<1>11. DataCharged' /\ EntriesCharged' /\ MiscCharged'
  <2>1. CASE space' = Charged
    <3>1. \A i \in Data : i \in ExpectedData' <=> i \in ExpectedData
      BY <1>7, <2>1 DEF ExpectedData
    <3>2. BootMisc' = BootMisc
      BY <1>9 DEF BootMisc
    <3>3. QED
      BY <1>1, <1>8, <2>1, <3>1, <3>2, QuietKeepsCharges DEF CarefulInv
  <2>2. CASE space' = Needed
    <3>1. /\ \A i \in Data : Needed.data[i] = IF i \in NamedData THEN 1 ELSE 0
          /\ \A i \in Data : Needed.fe[i] = IF \E r \in UdfEntries : ino[r] = i THEN 1 ELSE 0
          /\ Needed.misc = (IF boot.on THEN IF HasUdf THEN 1 ELSE 2 ELSE 0)
                             + Cardinality({r \in UdfEntries : ino[r] = None})
      BY <1>1, NeededParts
    <3>2. DataCharged'
      BY <1>7, <1>8, <2>2, <3>1 DEF DataCharged
    <3>3. EntriesCharged'
      BY <1>8, <1>10, <2>2, <3>1 DEF EntriesCharged
    <3>4. MiscCharged'
      BY <1>8, <1>9, <1>10, <2>2, <3>1 DEF MiscCharged
    <3>5. QED
      BY <3>2, <3>3, <3>4
  <2>3. QED
    BY <2>1, <2>2
<1>12. SpaceCharged'
  BY <1>2, <1>11 DEF SpaceCharged
<1>13. NoInternalError'
  BY DEF NoInternalError
<1>14. QED
  BY <1>2, <1>3, <1>4, <1>5, <1>6, <1>12, <1>13 DEF CarefulInv

LEMMA FinishAddKeepsCareful ==
  ASSUME CarefulInv, ListingInv', FinishAdd
  PROVE  CarefulInv'
<1>1. /\ call.op = "add" /\ call.todo = <<>> /\ call.segs = <<>> /\ call' = Idle
      /\ raised' = "none" /\ space' = Charged /\ Quiet /\ UNCHANGED <<inodes, boot, brs>>
  BY DEF FinishAdd, Return, Charged, Quiet, tree, links
<1>2. Pending = {} /\ Elements(call.segs) = {} /\ call.cur = None
  BY <1>1 DEF Pending, Elements, CarefulInv, CallShape, Removing
<1>3. PendingData = {} /\ Untracked = {} /\ Growing = {}
  BY <1>1, <1>2 DEF PendingData, Untracked, Growing
<1>4. NamedData = inodes
  BY <1>3 DEF CarefulInv, StoredExact
<1>5. ExpectedData = NamedData
  BY <1>2, <1>3 DEF ExpectedData
<1>6. QED
  BY <1>1, <1>2, <1>3, <1>4, <1>5, QuietEnd

LEMMA RefuseKeepsCareful ==
  ASSUME Careful, CarefulInv, ListingInv', Refuse
  PROVE  CarefulInv'
<1>1. /\ call.op = "add" /\ ~call.dirty /\ call' = Idle
      /\ raised' = "invalid" /\ space' = space /\ Quiet /\ UNCHANGED <<inodes, boot, brs>>
  BY DEF Refuse, Raise, Quiet, tree, links, Careful
<1>2. call.cur = None /\ space = Needed /\ NamedData = inodes /\ Growing = {}
  BY <1>1 DEF CarefulInv, CallShape, Removing, SpaceCharged, StoredExact, Growing
<1>3. space' = Needed
  BY <1>1, <1>2
<1>4. CASE space' # Charged
  BY <1>1, <1>2, <1>3, <1>4, QuietEnd
<1>5. CASE space' = Charged
  <2>1. TypeInv /\ LinksExact
    BY DEF CarefulInv, ListingInv, TreeExact
  <2>2. \A i \in Data : Needed.data[i] = IF i \in NamedData THEN 1 ELSE 0
    BY <2>1, NeededParts
  <2>3. \A i \in Data : i \in ExpectedData => i \in NamedData
    BY <1>3, <1>5, <2>2 DEF CarefulInv, SpaceCharged, DataCharged
  <2>4. QED
    BY <1>1, <1>2, <1>5, <2>3, QuietEnd
<1>6. QED
  BY <1>4, <1>5

-----------------------------------------------------------------------------
(* Removing. *)

\* A removal adds nothing: what is stored is what has a name.
LEMMA RemovalShape ==
  ASSUME CarefulInv, call.op # "add"
  PROVE  /\ call.todo = <<>> /\ call.segs = <<>> /\ call.new = {} /\ ~call.cat
         /\ Pending = {} /\ PendingData = {} /\ Untracked = {} /\ Growing = {}
         /\ NamedData = inodes /\ ExpectedData = NamedData
<1>1. call.todo = <<>> /\ call.segs = <<>> /\ call.new = {} /\ ~call.cat
  BY DEF CarefulInv, CallShape
<1>2. Pending = {} /\ Growing = {} /\ Elements(call.segs) = {}
  BY <1>1 DEF Pending, Elements, Growing
<1>3. PendingData = {} /\ Untracked = {}
  BY <1>2 DEF PendingData, Untracked
<1>4. NamedData = inodes
  BY <1>3 DEF CarefulInv, StoredExact
<1>5. ExpectedData = NamedData
  BY <1>2, <1>3 DEF ExpectedData
<1>6. QED
  BY <1>1, <1>2, <1>3, <1>4, <1>5

LEMMA RemovesCall ==
  ASSUME CarefulInv, Removes(call.cur), call.cur # None
  PROVE  /\ call'.op = call.op /\ call.op \in Removing /\ call.op # "add"
         /\ call'.todo = <<>> /\ call'.segs = <<>> /\ call'.new = {} /\ ~call'.cat
         /\ call'.ino = call.ino /\ call'.queue = call.queue
         /\ call'.cur = cont[call.cur] /\ call'.acc = Refunded(call.cur)
         /\ Pending' = {} /\ PendingData' = {} /\ Untracked' = {} /\ ExpectedData' = NamedData'
<1>1. call \in Call
  BY DEF CarefulInv, ListingInv, TypeInv, TypeOK
<1>2. /\ call.op \in Removing
      /\ call' = [call EXCEPT !.acc = Refunded(call.cur), !.cur = cont[call.cur]]
  BY DEF Removes
<1>3. call.op # "add"
  BY <1>2 DEF Removing
<1>4. call.todo = <<>> /\ call.segs = <<>> /\ call.new = {} /\ ~call.cat
  BY <1>3, RemovalShape
<1>5. /\ call'.op = call.op /\ call'.todo = <<>> /\ call'.segs = <<>> /\ call'.new = {}
      /\ ~call'.cat /\ call'.ino = call.ino /\ call'.queue = call.queue
      /\ call'.cur = cont[call.cur] /\ call'.acc = Refunded(call.cur)
  BY <1>1, <1>2, <1>4 DEF Call
<1>6. Pending' = {} /\ Elements(call'.segs) = {}
  BY <1>5 DEF Pending, Elements
<1>7. PendingData' = {} /\ Untracked' = {}
  BY <1>6 DEF PendingData, Untracked
<1>8. ExpectedData' = NamedData'
  BY <1>6, <1>7 DEF ExpectedData
<1>9. QED
  BY <1>2, <1>3, <1>5, <1>6, <1>7, <1>8

\* The continuation of the record in hand is the next one in hand.
LEMMA RemovesKeepsHand ==
  ASSUME CarefulInv, ListingInv', Removes(call.cur), call.cur # None
  PROVE  InHand'
<1> DEFINE r == call.cur
           c == cont[r]
<1>1. /\ r \in Rec /\ ino[r] \in Data \cup {None} /\ Entries \subseteq Rec
      /\ \A q \in Entries' : q \in Entries /\ q # r /\ home'[q] = home[q] /\ ino'[q] = ino[q]
      /\ \A j \in Data : linked'[j] = linked[j] \ {r}
  BY RemovesLinks DEF CarefulInv
<1>2. /\ Entries' = Entries \ {r} /\ cont' = [cont EXCEPT ![r] = None] /\ boot' = boot
      /\ TypeOK /\ Chains /\ InHand
  BY DEF Removes, CarefulInv, ListingInv, TypeInv, ChainsExact
<1>3. /\ call'.op = call.op /\ call'.ino = call.ino /\ call'.queue = call.queue
      /\ call'.cur = c /\ call.op # "add"
  BY RemovesCall
<1>4. ino[r] = None => c = None
  BY InHandNotDangling
<1> HIDE DEF r
<1>5. \A q \in Rec : cont'[q] = IF q = r THEN None ELSE cont[q]
  BY <1>1, <1>2 DEF TypeOK
<1>6. c # None => /\ c \in Entries' /\ ino'[c] \in Segments /\ ino'[c] # None
  <2> SUFFICES ASSUME c # None PROVE c \in Entries' /\ ino'[c] \in Segments /\ ino'[c] # None
    OBVIOUS
  <2>1. c \in Entries /\ ino[c] \in Segments
    BY <1>1, <1>2 DEF Chains
  <2>2. c # r
    BY <1>1 DEF CarefulInv, ListingInv, TypeInv, Hangs, ChainsHaveHomes
  <2>3. c \in Entries' /\ ino'[c] \in Segments
    BY <1>1, <1>2, <2>1, <2>2
  <2>4. QED
    BY <2>3, SegmentsType, NoneApart
<1>7. c # None => c \notin Continuations'
  <2> SUFFICES ASSUME c # None, c \in Continuations' PROVE FALSE
    OBVIOUS
  <2>1. PICK q \in Rec \ {c} : cont'[q] = c
    BY DEF Continuations
  <2>2. q # r /\ cont[q] = c
    BY <1>5, <2>1
  <2>3. q = listing[home[c]][1] /\ r = listing[home[c]][1]
    BY <1>1, <1>2, <2>1, <2>2 DEF Chains
  <2>4. QED
    BY <2>2, <2>3
<1>8. Continuations' \subseteq Continuations
  <2>1. ASSUME NEW x \in Continuations' PROVE x \in Continuations
    <3>1. PICK q \in Rec \ {x} : cont'[q] = x
      BY DEF Continuations
    <3>2. x \in Rec
      BY DEF Continuations
    <3>3. cont[q] = x
      BY <1>5, <3>1, <3>2, NoneApart
    <3>4. QED
      BY <3>1, <3>2, <3>3 DEF Continuations
  <2>2. QED
    BY <2>1
<1> HIDE DEF c
<1>9. call'.cur # None => call'.cur \in Entries' \ Continuations'
  BY <1>3, <1>6, <1>7
<1>10. call'.op = "rm_hard_link" /\ call'.cur # None => ino'[call'.cur] # None
  BY <1>3, <1>6
<1>11. call'.op = "rm_file" =>
         /\ call'.ino \in Data \ Elements(boot'.entries)
         /\ linked'[call'.ino] \cap Continuations' = {}
         /\ call'.cur # None => ino'[call'.cur] \in {call'.ino} \cup Segments
  BY <1>1, <1>2, <1>3, <1>6, <1>8 DEF InHand
<1>12. call'.op = "rm_eltorito" =>
         /\ boot'.on /\ \A i \in Elements(boot'.entries) : linked'[i] # {}
         /\ call'.cur \in Elements(boot'.recs) \cup {None}
         /\ call'.cur \notin Elements(call'.queue) /\ Injective(call'.queue)
  <2> SUFFICES ASSUME call.op = "rm_eltorito"
               PROVE  /\ boot.on /\ \A i \in Elements(boot.entries) : linked'[i] # {}
                      /\ c = None /\ None \notin Elements(call.queue) /\ Injective(call.queue)
    BY <1>2, <1>3
  <2>1. /\ boot.on /\ \A i \in Elements(boot.entries) : linked[i] # {}
        /\ r \in Elements(boot.recs) /\ Injective(call.queue)
    BY <1>2, NoneApart DEF InHand, r
  <2>2. ino[r] = None
    BY <2>1 DEF CarefulInv, ListingInv, TypeInv, Hangs, CatalogHasHomes
  <2>3. Elements(boot.entries) \subseteq Data /\ Elements(call.queue) \subseteq Rec
    BY <1>2 DEF TypeOK, Catalog, Call, Elements
  <2>4. \A i \in Data : linked'[i] = linked[i]
    <3>1. \A i \in Data : i # None
      BY NoneApart
    <3>2. \A i \in Data : r \notin linked[i]
      BY <2>2, <3>1 DEF CarefulInv, TreeExact, LinksExact
    <3>3. \A i \in Data : linked[i] \ {r} = linked[i]
      BY <3>2
    <3>4. QED
      BY <1>1, <3>3
  <2>5. QED
    BY <1>4, <2>1, <2>2, <2>3, <2>4, NoneApart
<1>13. QED
  BY <1>9, <1>10, <1>11, <1>12 DEF InHand

LEMMA RemovesKeepsCatalog ==
  ASSUME CarefulInv, ListingInv', Removes(call.cur), call.cur # None
  PROVE  CatalogExact'
<1> DEFINE r == call.cur
<1>1. /\ r \in Rec /\ Entries \subseteq Rec
      /\ \A q \in Entries' : q \in Entries /\ q # r /\ ino'[q] = ino[q]
  BY RemovesLinks DEF CarefulInv
<1>2. Entries' = Entries \ {r} /\ boot' = boot /\ brs' = brs /\ CatalogExact /\ InHand
  BY DEF Removes, CarefulInv
<1>3. /\ call'.op = call.op /\ call.op \in Removing /\ call'.queue = call.queue
      /\ call'.cur = cont[r] /\ ~call'.cat
  BY RemovesCall
<1>4. \A q \in Entries' : ino'[q] = None => q \in Elements(boot.recs)
  BY <1>1, <1>2 DEF CatalogExact
<1>5. r \in Elements(boot.recs) => ino[r] = None
  BY DEF CarefulInv, ListingInv, TypeInv, Hangs, CatalogHasHomes
<1>6. \A q \in Elements(boot.recs) :
        q \in Entries' <=> call'.op # "rm_eltorito" \/ q \in {call'.cur} \cup Elements(call'.queue)
  <2>1. CASE call.op # "rm_eltorito"
    <3>1. ino[r] # None
      BY <1>2, <1>3, <2>1, SegmentsType, NoneApart DEF InHand, Removing
    <3>2. QED
      BY <1>2, <1>3, <1>5, <2>1, <3>1 DEF CatalogExact
  <2>2. CASE call.op = "rm_eltorito"
    <3>1. r \in Elements(boot.recs) /\ r \notin Elements(call.queue)
      BY <1>2, <2>2 DEF InHand
    <3>2. cont[r] = None
      BY <1>5, <3>1, InHandNotDangling
    <3>3. \A q \in Elements(boot.recs) : q # None
      BY NoneApart DEF CarefulInv, ListingInv, TypeInv, TypeOK, Catalog, Elements
    <3>4. QED
      BY <1>2, <1>3, <2>2, <3>1, <3>2, <3>3 DEF CatalogExact
  <2>3. QED
    BY <2>1, <2>2
<1>7. QED
  BY <1>2, <1>3, <1>4, <1>6 DEF CatalogExact

LEMMA RemovesKeepsStored ==
  ASSUME CarefulInv, ListingInv', Removes(call.cur), call.cur # None
  PROVE  /\ StoredExact'
         /\ \A i \in Data : i \in NamedData' <=> i \in NamedData /\ ~(i = ino[call.cur] /\ Orphans(call.cur))
<1> DEFINE r == call.cur
<1>1. /\ r \in Rec /\ ino[r] \in Data \cup {None} /\ r \in Entries
      /\ \A j \in Data : linked'[j] = linked[j] \ {r}
  BY RemovesLinks DEF CarefulInv, Removes
<1>2. /\ inodes' = (IF Orphans(r) THEN inodes \ {ino[r]} ELSE inodes) /\ boot' = boot
      /\ TypeOK /\ LinksExact
  BY DEF Removes, Unlink, CarefulInv, ListingInv, TypeInv, TreeExact
<1>3. NamedData = inodes /\ inodes \subseteq Data
  BY <1>2, RemovesCall, RemovalShape DEF TypeOK
<1>4. ASSUME NEW i \in Data
      PROVE  i \in NamedData' <=> i \in NamedData /\ ~(i = ino[r] /\ Orphans(r))
  <2>1. linked[i] = {q \in Entries : ino[q] = i} /\ linked'[i] = linked[i] \ {r}
    BY <1>1, <1>2 DEF LinksExact
  <2>2. i \in NamedData <=> linked[i] # {} \/ i \in Elements(boot.entries)
    BY DEF NamedData
  <2>3. i \in NamedData' <=> linked'[i] # {} \/ i \in Elements(boot.entries)
    BY <1>2 DEF NamedData
  <2>4. i = ino[r] => (Orphans(r) <=> linked[i] \ {r} = {} /\ i \notin Elements(boot.entries))
    BY <1>1, <2>1, NoneApart DEF Orphans, LastLink, Booted
  <2>5. i = ino[r] => r \in linked[i]
    BY <1>1, <2>1
  <2>6. i # ino[r] => r \notin linked[i]
    BY <2>1
  <2>7. QED
    BY <2>1, <2>2, <2>3, <2>4, <2>5, <2>6
<1>5. NamedData' \subseteq Data
  BY <1>2 DEF NamedData, TypeOK, Catalog, Elements
<1>6. NamedData' = inodes'
  BY <1>2, <1>3, <1>4, <1>5
<1>7. QED
  BY <1>4, <1>6 DEF StoredExact

LEMMA RemovesKeepsCharges ==
  ASSUME CarefulInv, ListingInv', Removes(call.cur), call.cur # None
  PROVE  SpaceCharged'
<1> DEFINE r == call.cur
           i == ino[r]
           u == home[r] \in UdfPath
           o == Orphans(r)
<1>1. /\ r \in Rec /\ i \in Data \cup {None} /\ r \in Entries
      /\ UdfEntries' = UdfEntries \ {r} /\ UdfEntries \subseteq Entries /\ Entries \subseteq Rec
      /\ \A q \in Entries' : ino'[q] = ino[q] /\ q # r
      /\ Entries' = Entries \ {r}
  BY RemovesLinks DEF CarefulInv, Removes
<1>2. /\ space' = space /\ boot' = boot /\ TypeInv /\ TypeInv' /\ CountsExact /\ SpaceCharged
      /\ call.acc \in Ledger /\ TypeOK
  BY DEF Removes, CarefulInv, ListingInv, TypeInv, TypeOK, Call, TreeExact
<1>3. /\ call'.op = call.op /\ call.op # "add" /\ call'.acc = Refunded(r) /\ call'.new = {}
      /\ ExpectedData' = NamedData'
  BY RemovesCall
<1>4. ExpectedData = NamedData
  BY <1>3, RemovalShape
<1>5. u <=> r \in UdfEntries
  BY <1>1, UdfEntriesDef
<1>6. o => i \in Data
  BY <1>1 DEF Orphans
<1>7. /\ \A j \in Data : /\ Refunded(r).data[j] = IF o /\ j = i THEN call.acc.data[j] - 1
                                                  ELSE call.acc.data[j]
                         /\ Refunded(r).fe[j] = IF u /\ j = i /\ numUdf[i] = 1 THEN call.acc.fe[j] - 1
                                                ELSE call.acc.fe[j]
      /\ Refunded(r).misc = IF u /\ i = None THEN call.acc.misc - 1 ELSE call.acc.misc
  <2> DEFINE a == Refund(r)
  <2>1. /\ a \in [data : [Data -> Int], fe : [Data -> Int], misc : Int]
        /\ \A j \in Data : /\ a.data[j] = IF o /\ j = i THEN call.acc.data[j] - 1 ELSE call.acc.data[j]
                           /\ a.fe[j] = call.acc.fe[j]
        /\ a.misc = call.acc.misc
    <3> HIDE DEF o, i
    <3>1. Orphans(r) = o /\ ino[r] = i
      BY DEF o, i
    <3>2. QED
      BY <1>2, <1>6, <3>1 DEF Refund, Ledger
  <2> HIDE DEF a
  <2>2. Refunded(r) = IF ~u THEN a
                      ELSE IF i = None THEN [a EXCEPT !.misc = @ - 1]
                      ELSE IF numUdf[i] = 1 THEN [a EXCEPT !.fe[i] = @ - 1]
                      ELSE a
    BY DEF Refunded, a
  <2> HIDE DEF u, i, o
  <2>3. QED
    BY <1>1, <2>1, <2>2, NoneApart
<1>8. /\ \A j \in Data : Charged'.data[j] = Charged.data[j] + call'.acc.data[j] - call.acc.data[j]
      /\ \A j \in Data : Charged'.fe[j] = Charged.fe[j] + call'.acc.fe[j] - call.acc.fe[j]
      /\ Charged'.misc = Charged.misc + call'.acc.misc - call.acc.misc
      /\ \A j \in Data : Charged.data[j] \in Int /\ Charged.fe[j] \in Int
      /\ Charged.misc \in Int
      /\ \A j \in Data : call.acc.data[j] \in Int /\ call.acc.fe[j] \in Int
      /\ call.acc.misc \in Int
  BY <1>2, ChargedParts, MergeParts
<1>9. \A j \in Data : j \in NamedData' <=> j \in NamedData /\ ~(j = i /\ o)
  BY RemovesKeepsStored
<1>10. o => i \in NamedData
  BY <1>6 DEF Orphans, NamedData
<1> HIDE DEF r, i, u, o
<1>11. DataCharged'
  <2>1. ASSUME NEW j \in Data PROVE Charged'.data[j] = IF j \in ExpectedData' THEN 1 ELSE 0
    <3>1. Charged.data[j] = IF j \in ExpectedData THEN 1 ELSE 0
      BY <1>2 DEF SpaceCharged, DataCharged
    <3>2. Charged'.data[j] = IF o /\ j = i THEN Charged.data[j] - 1 ELSE Charged.data[j]
      BY <1>3, <1>7, <1>8
    <3>3. QED
      BY <1>3, <1>4, <1>9, <1>10, <3>1, <3>2
  <2>2. QED
    BY <2>1 DEF DataCharged
<1>12. EntriesCharged'
  <2>1. ASSUME NEW j \in Data
        PROVE  Charged'.fe[j] = IF \E q \in UdfEntries' : ino'[q] = j THEN 1 ELSE 0
    <3>1. Charged.fe[j] = IF \E q \in UdfEntries : ino[q] = j THEN 1 ELSE 0
      BY <1>2 DEF SpaceCharged, EntriesCharged
    <3>2. Charged'.fe[j] = IF u /\ j = i /\ numUdf[i] = 1 THEN Charged.fe[j] - 1 ELSE Charged.fe[j]
      BY <1>3, <1>7, <1>8
    <3> DEFINE S == {q \in UdfEntries : ino[q] = j}
    <3>3. S \subseteq Rec /\ numUdf[j] = Cardinality(S)
      BY <1>1, <1>2 DEF CountsExact
    <3>4. r \in S <=> u /\ j = i
      BY <1>5 DEF i
    <3>5. (\E q \in UdfEntries' : ino'[q] = j) <=> S \ {r} # {}
      <4>1. \A q \in UdfEntries \ {r} : ino'[q] = ino[q]
        BY <1>1
      <4>2. QED
        BY <1>1, <4>1
    <3>6. (\E q \in UdfEntries : ino[q] = j) <=> S # {}
      OBVIOUS
    <3> HIDE DEF S
    <3>7. r \in S => (Cardinality(S) = 1 <=> S \ {r} = {})
      <4> SUFFICES ASSUME r \in S PROVE Cardinality(S) = 1 <=> S \ {r} = {}
        OBVIOUS
      <4>1. Cardinality(S \ {r}) = Cardinality(S) - 1 /\ Cardinality(S) \in Nat
        BY <3>3, SetOfRecords
      <4>2. S \ {r} \subseteq Rec
        BY <3>3
      <4>3. Cardinality(S \ {r}) = 0 <=> S \ {r} = {}
        BY <4>2, SetOfRecords
      <4>4. QED
        BY <4>1, <4>3
    <3>8. CASE u /\ j = i
      <4>1. r \in S /\ numUdf[i] = Cardinality(S)
        BY <3>3, <3>4, <3>8
      <4>2. QED
        BY <3>1, <3>2, <3>5, <3>6, <3>7, <3>8, <4>1
    <3>9. CASE ~(u /\ j = i)
      <4>1. S \ {r} = S
        BY <3>4, <3>9
      <4>2. QED
        BY <3>1, <3>2, <3>5, <3>6, <3>9, <4>1
    <3>10. QED
      BY <3>8, <3>9
  <2>2. QED
    BY <2>1 DEF EntriesCharged
<1>13. MiscCharged'
  <2> DEFINE S == {q \in UdfEntries : ino[q] = None}
  <2>1. S \subseteq Rec
    BY <1>1
  <2>2. {q \in UdfEntries' : ino'[q] = None} = S \ {r}
    <3>1. \A q \in UdfEntries \ {r} : ino'[q] = ino[q]
      BY <1>1
    <3>2. QED
      BY <1>1, <3>1
  <2>3. r \in S <=> u /\ i = None
    BY <1>5 DEF i
  <2>4. Charged.misc = BootMisc + Cardinality(S)
    BY <1>2 DEF SpaceCharged, MiscCharged
  <2>5. BootMisc' = BootMisc /\ BootMisc \in Int
    BY <1>2, <1>3 DEF BootMisc
  <2>6. Charged'.misc = IF u /\ i = None THEN Charged.misc - 1 ELSE Charged.misc
    BY <1>3, <1>7, <1>8
  <2> HIDE DEF S
  <2>7. Cardinality(S) \in Nat /\ (r \in S => Cardinality(S \ {r}) = Cardinality(S) - 1)
    BY <2>1, SetOfRecords
  <2>8. r \notin S => S \ {r} = S
    OBVIOUS
  <2>9. Charged'.misc = BootMisc' + Cardinality(S \ {r})
    <3>1. CASE r \in S
      BY <2>3, <2>4, <2>5, <2>6, <2>7, <3>1
    <3>2. CASE r \notin S
      BY <2>3, <2>4, <2>5, <2>6, <2>7, <2>8, <3>2
    <3>3. QED
      BY <3>1, <3>2
  <2>10. QED
    BY <2>2, <2>9 DEF MiscCharged
<1>14. QED
  BY <1>3, <1>11, <1>12, <1>13 DEF SpaceCharged

LEMMA RemovesKeepsCareful ==
  ASSUME CarefulInv, ListingInv', Removes(call.cur), call.cur # None
  PROVE  CarefulInv'
<1>1. /\ call'.op = call.op /\ call.op \in Removing /\ call.op # "add"
      /\ call'.todo = <<>> /\ call'.segs = <<>> /\ call'.new = {} /\ ~call'.cat
      /\ call'.queue = call.queue /\ raised' = raised
  BY RemovesCall DEF Removes
<1>2. TreeExact' /\ ChainsExact'
  BY RemovesKeepsTree, RemovesKeepsChains DEF CarefulInv
<1>3. InHand' /\ CatalogExact' /\ StoredExact' /\ SpaceCharged'
  BY RemovesKeepsHand, RemovesKeepsCatalog, RemovesKeepsStored, RemovesKeepsCharges
<1>4. CallShape' /\ Adding' /\ NoInternalError'
  BY <1>1 DEF CarefulInv, CallShape, Adding, NoInternalError, Removing
<1>5. QED
  BY <1>2, <1>3, <1>4 DEF CarefulInv

\* A removal goes on with another record: the one with a link less in hand.
LEMMA QuietRemoval ==
  ASSUME CarefulInv, ListingInv', Quiet, UNCHANGED <<inodes, boot, brs, space, raised>>,
         call.cur = None, call'.op = call.op, call.op \in Removing, call'.acc = call.acc,
         call'.todo = call.todo, call'.segs = call.segs, call'.new = call.new,
         call'.cat = call.cat, call.op # "rm_eltorito" => call'.queue = call.queue,
         InHand', CatalogExact'
  PROVE  CarefulInv'
<1>1. TypeInv /\ TypeInv' /\ call.op # "add"
  BY DEF CarefulInv, ListingInv, Removing
<1>2. /\ call.todo = <<>> /\ call.segs = <<>> /\ call.new = {} /\ ~call.cat
      /\ Pending = {} /\ PendingData = {} /\ Untracked = {} /\ Growing = {}
      /\ NamedData = inodes /\ ExpectedData = NamedData
  BY <1>1, RemovalShape
<1>3. TreeExact'
  BY <1>1, QuietKeeps DEF CarefulInv
<1>4. ChainsExact'
  BY <1>1, <1>2, QuietKeepsChains DEF CarefulInv
<1>5. CallShape' /\ Adding' /\ NoInternalError'
  BY <1>1 DEF CarefulInv, CallShape, Adding, NoInternalError, Removing
<1>6. NamedData' = NamedData
  BY DEF NamedData, Quiet
<1>7. StoredExact'
  BY <1>2, <1>6 DEF StoredExact
<1>8. Pending' = {} /\ Elements(call'.segs) = {}
  BY <1>2 DEF Pending, Elements
<1>9. PendingData' = {}
  BY <1>8 DEF PendingData
<1>10. ExpectedData' = ExpectedData
  BY <1>2, <1>6, <1>8, <1>9 DEF ExpectedData
<1>11. Charged' = Charged /\ BootMisc' = BootMisc
  BY DEF Charged, BootMisc
<1>12. DataCharged' /\ EntriesCharged' /\ MiscCharged'
  BY <1>1, <1>10, <1>11, QuietKeepsCharges DEF CarefulInv
<1>13. SpaceCharged'
  BY <1>1, <1>2, <1>12 DEF SpaceCharged
<1>14. QED
  BY <1>3, <1>4, <1>5, <1>7, <1>13 DEF CarefulInv

LEMMA NextLinkKeepsCareful ==
  ASSUME CarefulInv, ListingInv', NextLink
  PROVE  CarefulInv'
<1>1. PICK r \in linked[call.ino] :
        /\ call.op = "rm_file" /\ call.cur = None /\ call.ino # None
        /\ call' = [call EXCEPT !.cur = r]
        /\ UNCHANGED <<tree, links, boot, brs, space, raised>>
  BY DEF NextLink
<1>2. TypeInv /\ TypeInv' /\ call \in Call
  BY DEF CarefulInv, ListingInv, TypeInv, TypeOK
<1>3. /\ call'.op = call.op /\ call'.acc = call.acc /\ call'.ino = call.ino /\ call'.cur = r
      /\ call'.todo = call.todo /\ call'.segs = call.segs /\ call'.new = call.new
      /\ call'.cat = call.cat /\ call'.queue = call.queue
  BY <1>1, <1>2 DEF Call
<1>4. Quiet /\ UNCHANGED <<inodes, boot, brs, space, raised>>
  BY <1>1 DEF Quiet, tree, links
<1>5. /\ call.ino \in Data \ Elements(boot.entries)
      /\ linked[call.ino] \cap Continuations = {}
  BY <1>1 DEF CarefulInv, InHand
<1>6. r \in Entries /\ ino[r] = call.ino
  BY <1>1, <1>5 DEF CarefulInv, TreeExact, LinksExact
<1>7. Entries' = Entries /\ Continuations' = Continuations /\ ino' = ino /\ linked' = linked
  BY <1>2, <1>4, QuietKeeps DEF Quiet
<1>8. InHand'
  BY <1>1, <1>3, <1>4, <1>5, <1>6, <1>7 DEF InHand
<1>9. CatalogExact'
  <2>1. call'.cat => boot.on
    BY <1>3 DEF CarefulInv, CatalogExact
  <2>2. QED
    BY <1>1, <1>2, <1>3, <1>4, <2>1, QuietKeepsCatalog DEF CarefulInv
<1>10. QED
  BY <1>1, <1>3, <1>4, <1>8, <1>9, QuietRemoval DEF Removing

LEMMA NextCatalogRecordKeepsCareful ==
  ASSUME CarefulInv, ListingInv', NextCatalogRecord
  PROVE  CarefulInv'
<1> DEFINE r == Head(call.queue)
<1>1. /\ call.op = "rm_eltorito" /\ call.cur = None /\ call.queue # <<>>
      /\ call' = [call EXCEPT !.cur = r, !.queue = Tail(@)]
      /\ UNCHANGED <<tree, links, boot, brs, space, raised>>
  BY DEF NextCatalogRecord
<1>2. TypeInv /\ TypeInv' /\ call \in Call /\ call.queue \in Seq(Rec)
  BY DEF CarefulInv, ListingInv, TypeInv, TypeOK, Call
<1>3. /\ call'.op = call.op /\ call'.acc = call.acc /\ call'.cur = r
      /\ call'.todo = call.todo /\ call'.segs = call.segs /\ call'.new = call.new
      /\ call'.cat = call.cat /\ call'.queue = Tail(call.queue)
  BY <1>1, <1>2 DEF Call
<1>4. Quiet /\ UNCHANGED <<inodes, boot, brs, space, raised>>
  BY <1>1 DEF Quiet, tree, links
<1>5. /\ boot.on /\ \A i \in Elements(boot.entries) : linked[i] # {}
      /\ Injective(call.queue)
  BY <1>1 DEF CarefulInv, InHand
<1>6. /\ Injective(Tail(call.queue)) /\ r \in Elements(call.queue)
      /\ Elements(Tail(call.queue)) = Elements(call.queue) \ {r}
  BY <1>1, <1>2, <1>5, TailExact
<1>7. r \in Elements(boot.recs)
  BY <1>2, <1>6 DEF TypeInv, Hangs, QueueIsCatalog
<1>8. r \in Entries /\ ino[r] = None
  BY <1>2, <1>6, <1>7 DEF CarefulInv, CatalogExact, TypeInv, Hangs, CatalogHasHomes
<1>9. r \notin Continuations
  <2> SUFFICES ASSUME r \in Continuations PROVE FALSE
    OBVIOUS
  <2>1. PICK q \in Rec \ {r} : cont[q] = r
    BY DEF Continuations
  <2>2. r # None
    BY <1>8, EntriesType, <1>2, NoneApart
  <2>3. ino[r] \in Segments
    BY <2>1, <2>2 DEF CarefulInv, ChainsExact, Chains
  <2>4. QED
    BY <1>8, <2>3, SegmentsType, NoneApart
<1>10. Entries' = Entries /\ Continuations' = Continuations /\ ino' = ino /\ linked' = linked
  BY <1>2, <1>4, QuietKeeps DEF Quiet
<1> HIDE DEF r
<1>11. InHand'
  BY <1>1, <1>3, <1>4, <1>5, <1>6, <1>7, <1>8, <1>9, <1>10 DEF InHand
<1>12. CatalogExact'
  <2>1. CatalogExact /\ \A q \in Elements(boot.recs) : q # None
    BY <1>2, NoneApart DEF CarefulInv, TypeInv, TypeOK, Catalog, Elements
  <2>2. \A q \in Elements(boot.recs) :
          q \in Entries' <=> call'.op # "rm_eltorito" \/ q \in {call'.cur} \cup Elements(call'.queue)
    BY <1>1, <1>3, <1>6, <1>10, <2>1 DEF CatalogExact
  <2>3. QED
    BY <1>3, <1>4, <1>10, <2>1, <2>2 DEF CatalogExact
<1>13. QED
  BY <1>1, <1>3, <1>4, <1>11, <1>12, QuietRemoval DEF Removing

LEMMA FinishRemoveKeepsCareful ==
  ASSUME CarefulInv, ListingInv', FinishRemove
  PROVE  CarefulInv'
<1>1. /\ call.op \in {"rm_hard_link", "rm_file"} /\ call.cur = None /\ call' = Idle
      /\ raised' = "none" /\ space' = Charged /\ Quiet /\ UNCHANGED <<inodes, boot, brs>>
  BY DEF FinishRemove, Return, Charged, Quiet, tree, links
<1>2. Growing = {} /\ NamedData = inodes /\ ExpectedData = NamedData
  BY <1>1, RemovalShape
<1>3. QED
  BY <1>1, <1>2, QuietEnd

LEMMA FinishRmEltoritoKeepsCareful ==
  ASSUME CarefulInv, ListingInv', FinishRmEltorito
  PROVE  CarefulInv'
<1>1. /\ call.op = "rm_eltorito" /\ call.cur = None /\ call.queue = <<>>
      /\ boot' = NoCatalog /\ call' = Idle /\ raised' = "none"
      /\ space' = [Charged EXCEPT !.misc = @ - 1]
      /\ UNCHANGED <<listing, cont, numFiles, links, brs>>
  BY DEF FinishRmEltorito, Charged
<1>2. /\ TypeInv /\ TypeInv' /\ LinksExact /\ Quiet /\ inodes' = inodes /\ space' \in Ledger
      /\ Charged \in Ledger
  BY <1>1, LedgerTypes
     DEF CarefulInv, ListingInv, TypeInv, TypeOK, TreeExact, Quiet, links, Call, Charged
<1>3. NamedData = inodes /\ ExpectedData = NamedData /\ Growing = {}
  BY <1>1, RemovalShape
<1>4. /\ CallShape' /\ Adding' /\ InHand' /\ PendingData' = {} /\ Untracked' = {}
      /\ call'.op = "idle" /\ call'.acc = NoCharge /\ call'.segs = <<>> /\ call'.new = {}
      /\ ~call'.cat /\ call'.cur = None
  BY <1>1, IdleShape
<1>5. boot'.recs = <<>> /\ boot'.entries = <<>> /\ boot'.on = FALSE
  BY <1>1 DEF NoCatalog
<1>6. NamedData' = NamedData
  <2>1. boot.on /\ \A i \in Elements(boot.entries) : linked[i] # {}
    BY <1>1 DEF CarefulInv, InHand
  <2>2. Elements(boot.entries) \subseteq Data
    BY <1>2 DEF TypeInv, TypeOK, Catalog, Elements
  <2>3. Elements(boot'.entries) = {}
    BY <1>5 DEF Elements
  <2>4. QED
    BY <1>2, <2>1, <2>2, <2>3 DEF NamedData, Quiet
<1>7. TreeExact' /\ ChainsExact'
  BY <1>1, <1>2, <1>3, QuietKeeps, QuietKeepsChains DEF CarefulInv
<1>8. StoredExact'
  BY <1>2, <1>3, <1>6 DEF StoredExact
<1>9. CatalogExact'
  <2>1. Entries' = Entries /\ ino' = ino
    BY <1>2, QuietKeeps DEF Quiet
  <2>2. Elements(<<>>) = {} /\ Injective(<<>>)
    BY DEF Elements, Injective
  <2>3. \A q \in Entries' : q # None
    BY <1>2, EntriesType, <2>1, NoneApart
  <2>4. \A q \in Entries' : ino'[q] # None
    BY <1>1, <2>1, <2>2, <2>3 DEF CarefulInv, CatalogExact
  <2>5. brs' = 0
    BY <1>1 DEF CarefulInv, CatalogExact, links
  <2>6. QED
    BY <1>1, <1>4, <1>5, <2>2, <2>4, <2>5 DEF CatalogExact
<1>10. SpaceCharged'
  <2>1. Charged' = space'
    BY <1>2, <1>4, MergeNothing DEF Charged
  <2>2. /\ Charged'.data = Charged.data /\ Charged'.fe = Charged.fe
        /\ Charged'.misc = Charged.misc - 1 /\ Charged.misc \in Int
    BY <1>1, <1>2, <2>1 DEF Ledger
  <2>3. ExpectedData' = NamedData
    BY <1>4, <1>6 DEF ExpectedData, Elements
  <2>4. UdfEntries' = UdfEntries /\ ino' = ino
    BY <1>2, QuietKeeps DEF Quiet
  <2>5. DataCharged'
    BY <1>3, <2>2, <2>3 DEF CarefulInv, SpaceCharged, DataCharged
  <2>6. EntriesCharged'
    BY <2>2, <2>4 DEF CarefulInv, SpaceCharged, EntriesCharged
  <2>7. BootMisc = 1 /\ BootMisc' = 0
    BY <1>1, <1>4, <1>5 DEF BootMisc, CarefulInv, InHand
  <2>8. Cardinality({q \in UdfEntries : ino[q] = None}) \in Nat
    <3>1. {q \in UdfEntries : ino[q] = None} \subseteq Rec
      BY <1>2, EntriesType
    <3>2. QED
      BY <3>1, SetOfRecords
  <2>9. MiscCharged'
    BY <2>2, <2>4, <2>7, <2>8 DEF CarefulInv, SpaceCharged, MiscCharged
  <2>10. QED
    BY <1>4, <2>5, <2>6, <2>9 DEF SpaceCharged
<1>11. NoInternalError'
  BY <1>1 DEF NoInternalError
<1>12. QED
  BY <1>4, <1>7, <1>8, <1>9, <1>10, <1>11 DEF CarefulInv

-----------------------------------------------------------------------------
(* The requests. *)

\* A request changes no link and no listing: it only says what is to be done.
LEMMA StartKeeps ==
  ASSUME CarefulInv, ListingInv', Quiet, UNCHANGED <<inodes, space>>, call.op = "idle",
         raised' = "none", CallShape', Adding', InHand', CatalogExact', NamedData' = NamedData,
         \A i \in Data : call'.acc.data[i] = IF /\ i \in PendingData' \cup Elements(call'.segs)
                                                /\ i \notin NamedData
                                             THEN 1 ELSE 0,
         \A i \in Data : call'.acc.fe[i] = 0, call'.acc.misc = BootMisc' - BootMisc,
         call'.new \subseteq PendingData' \cup Elements(call'.segs),
         call'.op = "add" /\ ~call'.dirty => boot'.on = boot.on
  PROVE  CarefulInv'
<1>1. TypeInv /\ TypeInv' /\ LinksExact
  BY DEF CarefulInv, ListingInv, TreeExact
<1>2. /\ call = Idle /\ NamedData = inodes /\ Growing = {}
      /\ ExpectedData = NamedData /\ Charged = space /\ space = Needed
  BY IdleExact
<1>3. call.acc = NoCharge /\ call.cur = None
  BY <1>2 DEF Idle
<1>4. TreeExact' /\ ChainsExact'
  BY <1>1, <1>2, <1>3, QuietKeeps, QuietKeepsChains DEF CarefulInv
<1>5. StoredExact'
  BY <1>2 DEF StoredExact
<1>6. /\ \A i \in Data : Charged'.data[i] = Charged.data[i] + call'.acc.data[i] - call.acc.data[i]
      /\ \A i \in Data : Charged'.fe[i] = Charged.fe[i] + call'.acc.fe[i] - call.acc.fe[i]
      /\ Charged'.misc = Charged.misc + call'.acc.misc - call.acc.misc
      /\ \A i \in Data : Charged.data[i] \in Int /\ Charged.fe[i] \in Int
      /\ Charged.misc \in Int
  BY <1>1, ChargedParts
<1>7. /\ \A i \in Data : call.acc.data[i] = 0 /\ call.acc.fe[i] = 0
      /\ call.acc.misc = 0
  BY <1>3 DEF NoCharge
<1>8. UdfEntries' = UdfEntries /\ ino' = ino
  BY <1>1, QuietKeeps DEF Quiet
<1>9. ExpectedData' = NamedData \cup PendingData' \cup Elements(call'.segs)
  BY DEF ExpectedData
<1>10. DataCharged'
  <2>1. \A i \in Data : Charged.data[i] = IF i \in NamedData THEN 1 ELSE 0
    BY <1>2 DEF CarefulInv, SpaceCharged, DataCharged
  <2>2. \A i \in Data : Charged'.data[i] = IF i \in ExpectedData' THEN 1 ELSE 0
    BY <1>6, <1>7, <1>9, <2>1
  <2>3. QED
    BY <2>2 DEF DataCharged
<1>11. EntriesCharged'
  <2>1. \A i \in Data : Charged'.fe[i] = Charged.fe[i]
    BY <1>6, <1>7
  <2>2. QED
    BY <1>8, <2>1 DEF CarefulInv, SpaceCharged, EntriesCharged
<1>12. MiscCharged'
  <2>1. Charged.misc = BootMisc + Cardinality({q \in UdfEntries : ino[q] = None})
    BY DEF CarefulInv, SpaceCharged, MiscCharged
  <2>2. BootMisc \in Int /\ BootMisc' \in Int
    BY DEF BootMisc
  <2>3. Charged'.misc = Charged.misc + (BootMisc' - BootMisc)
    BY <1>6, <1>7, <2>2
  <2>4. Cardinality({q \in UdfEntries : ino[q] = None}) \in Nat
    <3>1. {q \in UdfEntries : ino[q] = None} \subseteq Rec
      BY <1>1, EntriesType
    <3>2. QED
      BY <3>1, SetOfRecords
  <2>5. QED
    BY <1>8, <2>1, <2>2, <2>3, <2>4 DEF MiscCharged
<1>13. call'.op = "add" /\ ~call'.dirty => space' = Needed'
  BY <1>1, <1>2, QuietNeeded
<1>14. SpaceCharged'
  BY <1>9, <1>10, <1>11, <1>12, <1>13 DEF SpaceCharged
<1>15. NoInternalError'
  BY DEF NoInternalError
<1>16. QED
  BY <1>4, <1>5, <1>14, <1>15 DEF CarefulInv

\* The record a path lookup returns between calls.
LEMMA LookupExact ==
  ASSUME CarefulInv, call.op = "idle", NEW p \in Path, Exists(p)
  PROVE  /\ Lookup(p) \in Entries \ Continuations /\ Lookup(p) # None
         /\ ino[Lookup(p)] \in Data \cup {None}
         /\ ino[Lookup(p)] # None =>
              /\ linked[ino[Lookup(p)]] # {} /\ ino[Lookup(p)] \in inodes
              /\ linked[ino[Lookup(p)]] \cap Continuations = {}
         /\ Lookup(p) \notin Elements(boot.recs) => ino[Lookup(p)] # None
<1> DEFINE r == Lookup(p)
<1>1. TypeInv /\ TypeOK /\ Chains /\ LastsChained
  BY DEF CarefulInv, ListingInv, TypeInv, ChainsExact
<1>2. /\ r \in Rec /\ r \in Elements(listing[p]) /\ r = listing[p][1] /\ r # None
  BY <1>1, LookupType, HeadTailProperties, NoneApart DEF Lookup, Exists, TypeOK
<1>3. r \in Entries /\ home[r] = p
  BY <1>1, <1>2, ListedSomewhere
<1>4. r \notin Continuations
  <2> SUFFICES ASSUME r \in Continuations PROVE FALSE
    OBVIOUS
  <2>1. PICK q \in Rec \ {r} : cont[q] = r
    BY DEF Continuations
  <2>2. home[q] = p /\ q = listing[p][1]
    BY <1>1, <1>2, <1>3, <2>1 DEF Chains
  <2>3. QED
    BY <1>2, <2>1, <2>2
<1>5. ino[r] \in Data \cup {None}
  BY <1>1, <1>2 DEF TypeOK
<1>6. /\ call.cur = None /\ NamedData = inodes /\ Growing = {}
  BY IdleExact DEF Idle
<1> HIDE DEF r
<1>7. ASSUME ino[r] # None
      PROVE  linked[ino[r]] # {} /\ ino[r] \in inodes /\ linked[ino[r]] \cap Continuations = {}
  <2>1. r \in linked[ino[r]] /\ linked[ino[r]] = {q \in Entries : ino[q] = ino[r]}
    BY <1>3, <1>5, <1>7 DEF CarefulInv, TreeExact, LinksExact
  <2>2. ino[r] \in inodes
    BY <1>5, <1>6, <1>7, <2>1 DEF NamedData
  <2>3. ASSUME NEW x \in linked[ino[r]], x \in Continuations PROVE FALSE
    <3>1. PICK q \in Rec \ {x} : cont[q] = x
      BY <2>3 DEF Continuations
    <3>2. x \in Entries /\ ino[x] = ino[r] /\ x # None
      BY <1>1, <2>1, EntriesType, NoneApart
    <3>3. ino[x] \in LastSegments
      BY <1>1, <1>6, <3>1, <3>2 DEF Chains
    <3>4. QED
      BY <1>1, <1>2, <1>3, <1>4, <1>6, <3>2, <3>3 DEF LastsChained, r
  <2>4. QED
    BY <2>1, <2>2, <2>3
<1>8. r \notin Elements(boot.recs) => ino[r] # None
  BY <1>3 DEF CarefulInv, CatalogExact
<1>9. QED
  BY <1>2, <1>3, <1>4, <1>5, <1>7, <1>8 DEF r

-----------------------------------------------------------------------------
(* The requests. *)

LEMMA NamesOnce ==
  ASSUME NEW s \in PathTriple
  PROVE  /\ Names(s) \in Seq(PathOrNone) /\ Once(Names(s))
         /\ Elements(Names(s)) = {s[1], s[2], s[3]} \ {None}
<1> DEFINE a == Given(s[1]) \o Given(s[2])
<1>1. /\ s[1] \in PathOrNone /\ s[2] \in PathOrNone /\ s[3] \in PathOrNone
  BY TripleType
<1>2. /\ s[1] = s[2] => s[1] = None
      /\ s[1] = s[3] => s[1] = None
      /\ s[2] = s[3] => s[2] = None
  BY TripleApart
<1>3. \A p \in {s[1], s[2], s[3]} :
        Given(p) \in Seq(PathOrNone) /\ Once(Given(p)) /\ Elements(Given(p)) = {p} \ {None}
  BY <1>1, GivenOnce
<1>4. a \in Seq(PathOrNone) /\ Once(a) /\ Elements(a) = {s[1], s[2]} \ {None}
  <2>1. Elements(Given(s[1])) \cap Elements(Given(s[2])) \subseteq {None}
    BY <1>2, <1>3
  <2>2. a \in Seq(PathOrNone) /\ Once(a)
        /\ Elements(a) = Elements(Given(s[1])) \cup Elements(Given(s[2]))
    BY <1>3, <2>1, ConcatOnce
  <2>3. QED
    BY <1>3, <2>2
<1>5. Names(s) = a \o Given(s[3])
  BY DEF Names, a
<1> HIDE DEF a
<1>6. Elements(a) \cap Elements(Given(s[3])) \subseteq {None}
  BY <1>2, <1>3, <1>4
<1>7. /\ a \o Given(s[3]) \in Seq(PathOrNone) /\ Once(a \o Given(s[3]))
      /\ Elements(a \o Given(s[3])) = Elements(a) \cup Elements(Given(s[3]))
  BY <1>3, <1>4, <1>6, ConcatOnce
<1>8. QED
  BY <1>3, <1>4, <1>5, <1>7

\* The names of a request are free.
LEMMA NamesFree ==
  ASSUME Careful, NEW s \in PathTriple, NEW n, MayName(Names(s), n)
  PROVE  \A p \in {s[1], s[2], s[3]} \ {None} : listing[p] = <<>>
BY NamesOnce DEF MayName, Exists, Careful

LEMMA TailIsRest ==
  ASSUME NEW f \in BigFiles
  PROVE  Tail(f) = SubSeq(f, 2, Len(f)) /\ Head(f) = f[1] /\ 1 \in 1..Len(f)
<1> DEFINE t == SubSeq(f, 2, Len(f))
<1>1. f \in Seq(Data) /\ Len(f) \in Nat /\ Len(f) > 1 /\ \A k \in 2..Len(f) : f[k] \in Data
  BY SegmentsType
<1>2. f # <<>>
  BY <1>1
<1>3. /\ Tail(f) \in Seq(Data) /\ Len(Tail(f)) = Len(f) - 1 /\ Head(f) = f[1]
      /\ \A k \in 1..Len(Tail(f)) : Tail(f)[k] = f[k + 1]
  BY <1>1, <1>2, HeadTailProperties
<1>4. /\ t \in Seq(Data)
      /\ Len(t) = IF 2 <= Len(f) THEN Len(f) - 2 + 1 ELSE 0
      /\ \A k \in 1..(Len(f) - 2 + 1) : t[k] = f[2 + k - 1]
  BY <1>1, SubSeqProperties
<1> HIDE DEF t
<1>5. Len(t) = Len(f) - 1 /\ Len(t) = Len(Tail(f))
  <2>1. 2 <= Len(f)
    BY <1>1
  <2>2. Len(t) = Len(f) - 2 + 1
    BY <1>4, <2>1
  <2>3. Len(f) - 2 + 1 = Len(f) - 1
    BY <1>1
  <2>4. QED
    BY <1>3, <2>2, <2>3
<1>6. ASSUME NEW k \in 1..Len(t) PROVE t[k] = Tail(f)[k]
  <2>1. k \in 1..(Len(f) - 2 + 1) /\ 2 + k - 1 = k + 1 /\ k \in 1..Len(Tail(f))
    BY <1>1, <1>5
  <2>2. t[k] = f[2 + k - 1] /\ Tail(f)[k] = f[k + 1]
    BY <1>3, <1>4, <2>1
  <2>3. QED
    BY <2>1, <2>2
<1>7. t = Tail(f)
  BY <1>3, <1>4, <1>5, <1>6, SeqEqual
<1>8. QED
  BY <1>1, <1>3, <1>7 DEF t

\* What a request that adds a file makes of the call.
LEMMA AddFpCall ==
  ASSUME Careful, CarefulInv, NEW f \in Contents, NEW s \in Targets, AddFp(f, s)
  PROVE  /\ call.op = "idle" /\ call'.op = "add" /\ call'.new = Elements(f) /\ call'.paths = s
         /\ call'.todo = Work(f, s) /\ call'.segs = Tail(f) /\ call'.cur = None
         /\ call'.queue = <<>> /\ ~call'.cat /\ ~call'.dirty
         /\ call'.acc = [NoCharge EXCEPT !.data = [i \in Data |-> IF i \in Elements(f) THEN 1 ELSE 0]]
         /\ raised' = "none" /\ Quiet /\ UNCHANGED <<inodes, boot, brs, space>>
         /\ f \in Seq(Data) /\ f # <<>> /\ s \in PathTriple
         /\ \A i \in Elements(f) : i \in Data /\ i \notin inodes /\ linked[i] = {} /\ i \notin NamedData
         /\ \A p \in {s[1], s[2], s[3]} \ {None} : listing[p] = <<>>
         /\ {s[1], s[2], s[3]} \ {None} # {}
<1>1. /\ \A k \in 1..Len(f) : Unused(f[k])
      /\ MayName(Names(s), Len(f))
      /\ Start([Idle EXCEPT !.op = "add", !.new = Elements(f), !.paths = s,
                  !.todo = Work(f, s), !.segs = Tail(f),
                  !.acc.data = [i \in Data |-> IF i \in Elements(f) THEN 1 ELSE 0]])
      /\ UNCHANGED <<tree, links, boot, brs>>
  BY DEF AddFp
<1>2. /\ call.op = "idle" /\ call'.op = "add" /\ call'.new = Elements(f) /\ call'.paths = s
      /\ call'.todo = Work(f, s) /\ call'.segs = Tail(f) /\ call'.cur = None
      /\ call'.queue = <<>> /\ ~call'.cat /\ ~call'.dirty
      /\ call'.acc = [NoCharge EXCEPT !.data = [i \in Data |-> IF i \in Elements(f) THEN 1 ELSE 0]]
      /\ raised' = "none" /\ space' = space
  BY <1>1 DEF Start, Idle
<1>3. Quiet /\ UNCHANGED <<inodes, boot, brs, space>>
  BY <1>1, <1>2 DEF tree, links, Quiet
<1>4. f \in Seq(Data) /\ f # <<>> /\ s \in PathTriple
  BY ContentsType, TargetsType
<1>5. \A i \in Elements(f) : i \in Data /\ i \notin inodes /\ linked[i] = {} /\ i \notin NamedData
  BY <1>1, <1>4 DEF Elements, Unused, Booted, NamedData
<1>6. \A p \in {s[1], s[2], s[3]} \ {None} : listing[p] = <<>>
  BY <1>1, <1>4, NamesFree
<1>7. {s[1], s[2], s[3]} \ {None} # {}
  BY <1>4 DEF Targets, PathTriple, NoPaths
<1>8. QED
  BY <1>2, <1>3, <1>4, <1>5, <1>6, <1>7

LEMMA AddFpStartsFile ==
  ASSUME Careful, CarefulInv, NEW f \in Contents, NEW s \in Targets, AddFp(f, s)
  PROVE  InFile' /\ \E p \in WorkPaths(f, s) : p # None
<1>1. /\ call'.new = Elements(f) /\ call'.paths = s
      /\ call'.todo = Work(f, s) /\ call'.segs = Tail(f) /\ ~call'.cat
      /\ f \in Seq(Data) /\ f # <<>> /\ s \in PathTriple
      /\ \A i \in Elements(f) : i \in Data /\ linked[i] = {}
      /\ \A p \in {s[1], s[2], s[3]} \ {None} : listing[p] = <<>>
      /\ {s[1], s[2], s[3]} \ {None} # {}
      /\ listing' = listing /\ linked' = linked /\ ino' = ino
  BY AddFpCall DEF Quiet
<1>2. \A m \in Pending' : m.path \in WorkPaths(f, s) /\ m.ino = Head(f)
  BY <1>1, WorkPending
<1>3. \A p \in WorkPaths(f, s) : \E m \in Pending' : m.path = p /\ m.ino = Head(f)
  BY <1>1, WorkPending
<1>4. \A p \in WorkPaths(f, s) : p # None => listing[p] = <<>>
  BY <1>1 DEF WorkPaths
<1>5. ASSUME NEW i \in Data \ Segments, f = <<i>>
      PROVE  OneFile' /\ \E p \in WorkPaths(f, s) : p # None
  <2>1. Len(f) = 1 /\ Tail(f) = <<>> /\ Head(f) = i /\ Elements(f) = {i}
    BY <1>5 DEF Elements
  <2>2. OneFile'
    BY <1>1, <1>2, <1>4, <1>5, <2>1 DEF OneFile
  <2>3. QED
    BY <1>1, <2>1, <2>2 DEF WorkPaths
<1>6. ASSUME f \in BigFiles
      PROVE  InSegments(f, 1)' /\ 1 \in 1..Len(f) /\ \E p \in WorkPaths(f, s) : p # None
  <2>1. /\ Tail(f) = SubSeq(f, 1 + 1, Len(f)) /\ Head(f) = f[1] /\ 1 \in 1..Len(f)
        /\ Len(f) # 1 /\ f[1] \in Elements(f)
    BY <1>6, TailIsRest, SegmentsType DEF Elements
  <2>2. s[3] = None
    BY <1>1, <1>6, TripleApart DEF Careful
  <2>3. SegmentPaths' = {s[1], s[2]} \ {None} /\ SegmentPaths' # {}
    BY <1>1, <2>2 DEF SegmentPaths
  <2>4. WorkPaths(f, s) = SegmentPaths' \cup {None}
    BY <2>1, <2>3 DEF WorkPaths
  <2>5. \A i \in Elements(call'.segs) : linked'[i] = {}
    BY <1>1, HeadAndTail
  <2>6. \A p \in SegmentPaths' : listing'[p] = <<>> /\ p \in WorkPaths(f, s) /\ Elements(listing'[p]) = {}
    BY <1>1, <1>4, <2>3, <2>4 DEF Elements
  <2>7. \A m \in Pending' : m.ino = f[1] /\ m.path \in SegmentPaths' \cup {None}
    BY <1>2, <2>1, <2>4
  <2>8. \A m \in Pending' : m.path # None => \A r \in Elements(listing'[m.path]) : ino'[r] # f[1]
    BY <2>6, <2>7
  <2>9. \A p \in SegmentPaths' : \E m \in Pending' : m.path = p
    BY <1>3, <2>6
  <2>10. InSegments(f, 1)'
    BY <1>1, <2>1, <2>3, <2>5, <2>6, <2>7, <2>8, <2>9 DEF InSegments
  <2>11. QED
    BY <2>1, <2>3, <2>4, <2>10
<1>7. f \in BigFiles \/ \E i \in Data \ Segments : f = <<i>>
  BY DEF Contents
<1>8. InFile' <=> OneFile' \/ \E g \in BigFiles : \E n \in 1..Len(g) : InSegments(g, n)'
  BY DEF InFile
<1>9. QED
  BY <1>5, <1>6, <1>7, <1>8

LEMMA AddFpKeepsCareful ==
  ASSUME Careful, CarefulInv, ListingInv', NEW f \in Contents, NEW s \in Targets, AddFp(f, s)
  PROVE  CarefulInv'
<1>1. /\ call.op = "idle" /\ call'.op = "add" /\ call'.new = Elements(f)
      /\ call'.todo = Work(f, s) /\ call'.segs = Tail(f) /\ call'.cur = None
      /\ call'.queue = <<>> /\ ~call'.cat /\ ~call'.dirty
      /\ call'.acc = [NoCharge EXCEPT !.data = [i \in Data |-> IF i \in Elements(f) THEN 1 ELSE 0]]
      /\ raised' = "none" /\ Quiet /\ UNCHANGED <<inodes, boot, brs, space>>
      /\ f \in Seq(Data) /\ f # <<>> /\ s \in PathTriple
      /\ \A i \in Elements(f) : i \in Data /\ i \notin inodes /\ linked[i] = {} /\ i \notin NamedData
  BY AddFpCall
<1>2. InFile' /\ \E p \in WorkPaths(f, s) : p # None
  BY AddFpStartsFile
<1>3. PathsOnce(call'.todo) /\ PendingData' = {Head(f)}
  BY <1>1, WorkPending
<1>4. \A m \in Pending' : m.path \in WorkPaths(f, s) /\ m.ino = Head(f)
  BY <1>1, WorkPending
<1>5. \A p \in WorkPaths(f, s) : \E m \in Pending' : m.path = p /\ m.ino = Head(f)
  BY <1>1, WorkPending
<1>6. Head(f) \in Elements(f) /\ Elements(f) = Elements(Tail(f)) \cup {Head(f)} /\ Head(f) # None
  BY <1>1, HeadAndTail, NoneApart
<1>7. TodoShape'
  <2>1. \E o \in Pending' : o.path # None /\ o.ino = Head(f)
    BY <1>2, <1>5
  <2>2. \E o \in Pending' : o.path = None /\ o.ino = Head(f)
    <3>1. None \in WorkPaths(f, s)
      BY DEF WorkPaths
    <3>2. QED
      BY <1>5, <3>1
  <2>3. QED
    BY <1>1, <1>3, <1>4, <1>6, <2>1, <2>2 DEF TodoShape
<1>8. NewData'
  BY <1>1 DEF NewData, NamedData, Quiet
<1>9. NamedData' = NamedData
  BY <1>1 DEF NamedData, Quiet
<1>10. CallShape' /\ Adding' /\ InHand'
  BY <1>1, <1>2, <1>7, <1>8 DEF CallShape, Adding, InHand
<1>11. CatalogExact'
  BY <1>1, QuietKeepsCatalog DEF CarefulInv, ListingInv
<1>12. PendingData' \cup Elements(call'.segs) = Elements(f)
  BY <1>1, <1>3, <1>6
<1>13. \A i \in Data : call'.acc.data[i] = IF /\ i \in PendingData' \cup Elements(call'.segs)
                                              /\ i \notin NamedData
                                           THEN 1 ELSE 0
  BY <1>1, <1>12 DEF NoCharge
<1>14. (\A i \in Data : call'.acc.fe[i] = 0) /\ call'.acc.misc = 0
  BY <1>1 DEF NoCharge
<1>15. BootMisc' = BootMisc /\ BootMisc \in Int
  BY <1>1 DEF BootMisc
<1>16. call'.acc.misc = BootMisc' - BootMisc
  BY <1>14, <1>15
<1>17. QED
  BY <1>1, <1>9, <1>10, <1>11, <1>12, <1>13, <1>14, <1>16, StartKeeps

\* The items of a request that links some names to one piece of data.
LEMMA ItemsPending ==
  ASSUME NEW ps \in Seq(PathOrNone), ps \in Seq(Path), NEW i \in InoOrNone, Once(ps),
         call'.todo = Items(ps, i)
  PROVE  /\ PathsOnce(call'.todo)
         /\ \A m \in Pending' : m.path \in Elements(ps) /\ m.path # None /\ m.ino = i
<1>1. /\ PathsOnce(Items(ps, i))
      /\ Pending' = {[path |-> p, ino |-> i] : p \in Elements(ps)}
  BY ItemsOnce DEF Pending
<1>2. \A p \in Elements(ps) : p # None
  BY NoneApart DEF Elements
<1>3. QED
  BY <1>1, <1>2

LEMMA OneNameOnce ==
  ASSUME NEW p \in Path
  PROVE  /\ <<p>> \in Seq(PathOrNone) /\ <<p>> \in Seq(Path) /\ Once(<<p>>)
         /\ Elements(<<p>>) = {p}
<1>1. Len(<<p>>) = 1 /\ <<p>>[1] = p
  OBVIOUS
<1>2. QED
  BY <1>1 DEF PathOrNone, Once, Elements

\* A request that links more names to data that is already there.
LEMMA NamesKeepCareful ==
  ASSUME CarefulInv, ListingInv', call.op = "idle", call'.op = "add", Quiet,
         UNCHANGED <<inodes, space>>, raised' = "none",
         call'.segs = <<>>, call'.new = {}, call'.cur = None, call'.queue = <<>>,
         PathsOnce(call'.todo),
         \A m \in Pending' : m.path # None /\ listing[m.path] = <<>> /\ m.ino \notin Segments,
         \A m \in Pending' : m.ino \in inodes \cup {None} /\ (m.ino = None <=> call'.cat),
         CatalogExact', NamedData' = NamedData,
         \A i \in Data : call'.acc.data[i] = 0 /\ call'.acc.fe[i] = 0,
         call'.acc.misc = BootMisc' - BootMisc, ~call'.dirty => boot'.on = boot.on
  PROVE  CarefulInv'
<1>1. OneFile'
  BY DEF OneFile, Quiet
<1>2. InFile' <=> OneFile' \/ \E g \in BigFiles : \E n \in 1..Len(g) : InSegments(g, n)'
  BY DEF InFile
<1>3. TodoShape'
  BY DEF TodoShape
<1>4. NewData'
  BY DEF NewData
<1>5. CallShape' /\ Adding' /\ InHand'
  BY <1>1, <1>2, <1>3, <1>4 DEF CallShape, Adding, InHand
<1>6. NamedData = inodes
  BY IdleExact
<1>7. Elements(call'.segs) = {}
  BY DEF Elements
<1>8. PendingData' \subseteq NamedData \cup {None}
  BY <1>6 DEF PendingData
<1>9. \A i \in Data : i \in PendingData' \cup Elements(call'.segs) => i \in NamedData
  BY <1>7, <1>8, NoneApart
<1>10. \A i \in Data : call'.acc.data[i] = IF /\ i \in PendingData' \cup Elements(call'.segs)
                                              /\ i \notin NamedData
                                           THEN 1 ELSE 0
  BY <1>9
<1>11. QED
  BY <1>5, <1>10, StartKeeps

LEMMA AddHardLinkKeepsCareful ==
  ASSUME Careful, CarefulInv, ListingInv', NEW old \in Path, NEW new \in Path,
         AddHardLink(old, new)
  PROVE  CarefulInv'
<1> DEFINE i == ino[Lookup(old)]
<1>1. /\ Exists(old) /\ (i = None => "link_catalog" \in Faults) /\ MayLink(i)
      /\ MayName(<<new>>, 1)
      /\ Start([Idle EXCEPT !.op = "add", !.todo = Items(<<new>>, i)])
      /\ UNCHANGED <<tree, links, boot, brs>>
  BY DEF AddHardLink
<1>2. call.op = "idle"
  BY <1>1 DEF Start
<1>3. i \in Data /\ i # None /\ i \in inodes /\ i \notin Segments
  BY <1>1, <1>2, LookupExact, NoneApart DEF Careful, MayLink
<1> HIDE DEF i
<1>4. /\ call'.op = "add" /\ call'.todo = Items(<<new>>, i) /\ call'.segs = <<>>
      /\ call'.new = {} /\ call'.cur = None /\ call'.queue = <<>> /\ ~call'.cat
      /\ call'.acc = NoCharge /\ raised' = "none" /\ space' = space
  BY <1>1 DEF Start, Idle
<1>5. Quiet /\ UNCHANGED <<inodes, boot, brs, space>>
  BY <1>1, <1>4 DEF Quiet, tree, links
<1>6. /\ PathsOnce(call'.todo)
      /\ \A m \in Pending' : m.path \in Elements(<<new>>) /\ m.path # None /\ m.ino = i
  BY <1>3, <1>4, OneNameOnce, ItemsPending DEF InoOrNone
<1>7. \A p \in Elements(<<new>>) : listing[p] = <<>>
  BY <1>1 DEF MayName, Exists, Careful
<1>8. NamedData' = NamedData /\ BootMisc' = BootMisc /\ BootMisc \in Int
  BY <1>2, <1>4, <1>5 DEF NamedData, Quiet, BootMisc
<1>9. CatalogExact'
  BY <1>2, <1>4, <1>5, QuietKeepsCatalog DEF CarefulInv, ListingInv
<1>10. (\A j \in Data : call'.acc.data[j] = 0 /\ call'.acc.fe[j] = 0) /\ call'.acc.misc = 0
  BY <1>4 DEF NoCharge
<1>11. call'.acc.misc = BootMisc' - BootMisc
  BY <1>8, <1>10
<1>12. QED
  BY <1>2, <1>3, <1>4, <1>5, <1>6, <1>7, <1>8, <1>9, <1>10, <1>11, NamesKeepCareful

LEMMA LinkBootCatalogKeepsCareful ==
  ASSUME Careful, CarefulInv, ListingInv', NEW new \in Path, LinkBootCatalog(new)
  PROVE  CarefulInv'
<1>1. /\ boot.on /\ MayName(<<new>>, 1)
      /\ Start([Idle EXCEPT !.op = "add", !.cat = TRUE, !.todo = Items(<<new>>, None)])
      /\ UNCHANGED <<tree, links, boot, brs>>
  BY DEF LinkBootCatalog
<1>2. /\ call.op = "idle"
      /\ call'.op = "add" /\ call'.todo = Items(<<new>>, None) /\ call'.segs = <<>>
      /\ call'.new = {} /\ call'.cur = None /\ call'.queue = <<>> /\ call'.cat
      /\ call'.acc = NoCharge /\ raised' = "none" /\ space' = space
  BY <1>1 DEF Start, Idle
<1>3. Quiet /\ UNCHANGED <<inodes, boot, brs, space>>
  BY <1>1, <1>2 DEF Quiet, tree, links
<1>4. /\ PathsOnce(call'.todo)
      /\ \A m \in Pending' : m.path \in Elements(<<new>>) /\ m.path # None /\ m.ino = None
  <2>1. None \in InoOrNone
    BY DEF InoOrNone
  <2>2. QED
    BY <1>2, <2>1, OneNameOnce, ItemsPending
<1>5. \A p \in Elements(<<new>>) : listing[p] = <<>>
  BY <1>1 DEF MayName, Exists, Careful
<1>6. NamedData' = NamedData /\ BootMisc' = BootMisc /\ BootMisc \in Int
  BY <1>2, <1>3 DEF NamedData, Quiet, BootMisc
<1>7. CatalogExact'
  BY <1>1, <1>2, <1>3, QuietKeepsCatalog DEF CarefulInv, ListingInv
<1>8. (\A j \in Data : call'.acc.data[j] = 0 /\ call'.acc.fe[j] = 0) /\ call'.acc.misc = 0
  BY <1>2 DEF NoCharge
<1>9. call'.acc.misc = BootMisc' - BootMisc
  BY <1>6, <1>8
<1>10. None \notin Segments
  BY SegmentsType, NoneApart
<1>11. QED
  BY <1>1, <1>2, <1>3, <1>4, <1>5, <1>6, <1>7, <1>8, <1>9, <1>10, NamesKeepCareful

LEMMA AddEltoritoKeepsCareful ==
  ASSUME Careful, CarefulInv, ListingInv', NEW old \in IsoPath, NEW s \in Targets,
         AddEltorito(old, s)
  PROVE  CarefulInv'
<1> DEFINE i == ino[Lookup(old)]
           n == IF HasUdf THEN 1 ELSE 2
<1>1. /\ Exists(old) /\ ~boot.on /\ i # None /\ MayName(Names(s), 1)
      /\ brs' = brs + 1 /\ boot' = [on |-> TRUE, recs |-> <<>>, entries |-> <<i>>]
      /\ Start([Idle EXCEPT !.op = "add", !.cat = TRUE, !.dirty = TRUE,
                        !.todo = Items(Names(s), None), !.acc.misc = n])
      /\ UNCHANGED <<tree, links>>
  BY DEF AddEltorito
<1>2. call.op = "idle" /\ old \in Path /\ s \in PathTriple
  BY <1>1, TargetsType DEF Start, Path
<1>3. i \in Data /\ i # None /\ i \in inodes
  BY <1>1, <1>2, LookupExact, NoneApart
<1> HIDE DEF i, n
<1>4. /\ call'.op = "add" /\ call'.todo = Items(Names(s), None) /\ call'.segs = <<>>
      /\ call'.new = {} /\ call'.cur = None /\ call'.queue = <<>> /\ call'.cat /\ call'.dirty
      /\ call'.acc = [NoCharge EXCEPT !.misc = n] /\ raised' = "none" /\ space' = space
  BY <1>1 DEF Start, Idle
<1>5. Quiet /\ UNCHANGED <<inodes, space>>
  BY <1>1, <1>4 DEF Quiet, tree, links
<1>6. /\ PathsOnce(call'.todo)
      /\ \A m \in Pending' : m.path \in Elements(Names(s)) /\ m.path # None /\ m.ino = None
  BY <1>2, <1>4, NamesOnce, NamesType, ItemsPending DEF InoOrNone
<1>7. \A p \in Elements(Names(s)) : listing[p] = <<>>
  BY <1>1 DEF MayName, Exists, Careful
<1>8. boot = NoCatalog /\ brs = 0
  BY <1>1, <1>2 DEF CarefulInv, CatalogExact
<1>9. NamedData = inodes
  BY <1>2, IdleExact
<1>10. Elements(boot'.entries) = {i} /\ Elements(boot'.recs) = {} /\ Injective(boot'.recs)
       /\ Elements(boot.entries) = {} /\ Elements(boot.recs) = {} /\ boot'.on /\ ~boot.on
  BY <1>1, <1>8 DEF Elements, Injective, NoCatalog
<1>11. NamedData' = NamedData
  <2>1. linked' = linked
    BY <1>5 DEF Quiet
  <2>2. i \in NamedData
    BY <1>3, <1>9
  <2>3. QED
    BY <1>10, <2>1, <2>2 DEF NamedData
<1>12. CatalogExact'
  <2>1. Entries' = Entries /\ ino' = ino
    BY <1>5, QuietKeeps DEF CarefulInv, ListingInv, Quiet
  <2>2. brs' = 1
    BY <1>1, <1>8
  <2>3. QED
    BY <1>4, <1>10, <2>1, <2>2 DEF CarefulInv, CatalogExact
<1>13. BootMisc' = n /\ BootMisc = 0 /\ n \in Int
  BY <1>4, <1>10 DEF BootMisc, n
<1>14. (\A j \in Data : call'.acc.data[j] = 0 /\ call'.acc.fe[j] = 0) /\ call'.acc.misc = n
  BY <1>4 DEF NoCharge
<1>15. call'.acc.misc = BootMisc' - BootMisc
  BY <1>13, <1>14
<1>16. None \notin Segments
  BY SegmentsType, NoneApart
<1>17. QED
  BY <1>2, <1>4, <1>5, <1>6, <1>7, <1>11, <1>12, <1>14, <1>15, <1>16, NamesKeepCareful

LEMMA AppendElements ==
  ASSUME NEW S, NEW s \in Seq(S), NEW x \in S
  PROVE  Elements(Append(s, x)) = Elements(s) \cup {x}
<1> DEFINE t == Append(s, x)
<1>1. /\ Len(s) \in Nat /\ Len(t) = Len(s) + 1 /\ t[Len(s) + 1] = x
      /\ \A k \in 1..Len(s) : t[k] = s[k]
  BY AppendProperties, LenProperties
<1> HIDE DEF t
<1>2. /\ 1..Len(t) = (1..Len(s)) \cup {Len(s) + 1}
  BY <1>1
<1>3. Elements(t) = Elements(s) \cup {x}
  BY <1>1, <1>2 DEF Elements
<1>4. QED
  BY <1>3 DEF t

LEMMA AddSectionKeepsCareful ==
  ASSUME CarefulInv, ListingInv', NEW old \in IsoPath, AddSection(old)
  PROVE  CarefulInv'
<1> DEFINE i == ino[Lookup(old)]
<1>1. /\ Exists(old) /\ boot.on /\ i # None
      /\ boot' = [boot EXCEPT !.entries = Append(@, i)]
      /\ Start([Idle EXCEPT !.op = "add"])
      /\ UNCHANGED <<tree, links, brs>>
  BY DEF AddSection
<1>2. call.op = "idle" /\ old \in Path /\ boot \in Catalog
  BY <1>1 DEF Start, Path, CarefulInv, ListingInv, TypeInv, TypeOK
<1>3. i \in Data /\ i \in inodes
  BY <1>1, <1>2, LookupExact, NoneApart
<1> HIDE DEF i
<1>4. /\ call'.op = "add" /\ call'.todo = <<>> /\ call'.segs = <<>>
      /\ call'.new = {} /\ call'.cur = None /\ call'.queue = <<>> /\ ~call'.cat
      /\ call'.acc = NoCharge /\ raised' = "none" /\ space' = space
  BY <1>1 DEF Start, Idle
<1>5. Quiet /\ UNCHANGED <<inodes, brs, space>>
  BY <1>1, <1>4 DEF Quiet, tree, links
<1>6. Pending' = {} /\ PathsOnce(call'.todo)
  BY <1>4 DEF Pending, Elements, PathsOnce
<1>7. boot'.on = boot.on /\ boot'.recs = boot.recs /\ boot'.entries = Append(boot.entries, i)
  BY <1>1, <1>2 DEF Catalog
<1>8. Elements(boot'.entries) = Elements(boot.entries) \cup {i}
  BY <1>2, <1>3, <1>7, AppendElements DEF Catalog
<1>9. NamedData = inodes
  BY <1>2, IdleExact
<1>10. NamedData' = NamedData
  BY <1>3, <1>5, <1>8, <1>9 DEF NamedData, Quiet
<1>11. CatalogExact'
  <2>1. Entries' = Entries /\ ino' = ino
    BY <1>5, QuietKeeps DEF CarefulInv, ListingInv, Quiet
  <2>2. QED
    BY <1>1, <1>2, <1>4, <1>5, <1>7, <2>1 DEF CarefulInv, CatalogExact
<1>12. BootMisc' = BootMisc /\ BootMisc \in Int
  BY <1>2, <1>4, <1>7 DEF BootMisc
<1>13. (\A j \in Data : call'.acc.data[j] = 0 /\ call'.acc.fe[j] = 0) /\ call'.acc.misc = 0
  BY <1>4 DEF NoCharge
<1>14. call'.acc.misc = BootMisc' - BootMisc
  BY <1>12, <1>13
<1>15. QED
  BY <1>2, <1>4, <1>5, <1>6, <1>7, <1>10, <1>11, <1>13, <1>14, NamesKeepCareful

\* A request that removes something.
LEMMA RemovalStarts ==
  ASSUME CarefulInv, ListingInv', call.op = "idle", call'.op \in Removing, Quiet,
         UNCHANGED <<inodes, space>>, boot' = boot, raised' = "none",
         call'.todo = <<>>, call'.segs = <<>>, call'.new = {}, ~call'.cat,
         call'.op # "rm_eltorito" => call'.queue = <<>>,
         InHand', CatalogExact',
         \A i \in Data : call'.acc.data[i] = 0 /\ call'.acc.fe[i] = 0,
         call'.acc.misc = BootMisc' - BootMisc
  PROVE  CarefulInv'
<1>1. call'.op # "add" /\ call'.op # "idle"
  BY DEF Removing
<1>2. CallShape' /\ Adding'
  BY <1>1 DEF CallShape, Adding
<1>3. Pending' = {} /\ Elements(call'.segs) = {}
  BY DEF Pending, Elements
<1>4. PendingData' = {}
  BY <1>3 DEF PendingData
<1>5. NamedData' = NamedData
  BY DEF NamedData, Quiet
<1>6. \A i \in Data : call'.acc.data[i] = IF /\ i \in PendingData' \cup Elements(call'.segs)
                                             /\ i \notin NamedData
                                          THEN 1 ELSE 0
  BY <1>3, <1>4
<1>7. QED
  BY <1>1, <1>2, <1>5, <1>6, StartKeeps

LEMMA RmHardLinkKeepsCareful ==
  ASSUME Careful, CarefulInv, ListingInv', NEW p \in Path, RmHardLink(p)
  PROVE  CarefulInv'
<1>1. /\ Exists(p) /\ Lookup(p) \notin Elements(boot.recs)
      /\ Start([Idle EXCEPT !.op = "rm_hard_link", !.cur = Lookup(p)])
      /\ UNCHANGED <<tree, links, boot, brs>>
  BY DEF RmHardLink, Careful
<1>2. /\ call.op = "idle"
      /\ call'.op = "rm_hard_link" /\ call'.todo = <<>> /\ call'.segs = <<>>
      /\ call'.new = {} /\ call'.cur = Lookup(p) /\ call'.queue = <<>> /\ ~call'.cat
      /\ call'.acc = NoCharge /\ raised' = "none" /\ space' = space
  BY <1>1 DEF Start, Idle
<1>3. Quiet /\ UNCHANGED <<inodes, boot, brs, space>>
  BY <1>1, <1>2 DEF Quiet, tree, links
<1>4. Lookup(p) \in Entries \ Continuations /\ ino[Lookup(p)] # None
  BY <1>1, <1>2, LookupExact
<1>5. InHand'
  <2>1. Entries' = Entries /\ Continuations' = Continuations /\ ino' = ino
    BY <1>3, QuietKeeps DEF CarefulInv, ListingInv, Quiet
  <2>2. QED
    BY <1>2, <1>4, <2>1 DEF InHand
<1>6. CatalogExact'
  BY <1>2, <1>3, QuietKeepsCatalog DEF CarefulInv, ListingInv
<1>7. BootMisc' = BootMisc /\ BootMisc \in Int
  BY <1>2, <1>3 DEF BootMisc
<1>8. (\A j \in Data : call'.acc.data[j] = 0 /\ call'.acc.fe[j] = 0) /\ call'.acc.misc = 0
  BY <1>2 DEF NoCharge
<1>9. call'.acc.misc = BootMisc' - BootMisc /\ call'.op \in Removing
  BY <1>2, <1>7, <1>8 DEF Removing
<1>10. QED
  BY <1>2, <1>3, <1>5, <1>6, <1>8, <1>9, RemovalStarts

LEMMA RmFileKeepsCareful ==
  ASSUME CarefulInv, ListingInv', NEW p \in Path, RmFile(p)
  PROVE  CarefulInv'
<1> DEFINE i == ino[Lookup(p)]
           r == IF i = None /\ p \notin UdfPath THEN Lookup(p) ELSE None
<1>1. /\ Exists(p) /\ Lookup(p) \notin Elements(boot.recs) /\ (i # None => ~Booted(i))
      /\ Start([Idle EXCEPT !.op = "rm_file", !.ino = i, !.cur = r])
      /\ UNCHANGED <<tree, links, boot, brs>>
  BY DEF RmFile
<1>2. call.op = "idle"
  BY <1>1 DEF Start
<1>3. i \in Data /\ i # None /\ linked[i] \cap Continuations = {} /\ r = None
  BY <1>1, <1>2, LookupExact, NoneApart
<1> HIDE DEF i, r
<1>4. /\ call'.op = "rm_file" /\ call'.todo = <<>> /\ call'.segs = <<>>
      /\ call'.new = {} /\ call'.cur = None /\ call'.queue = <<>> /\ ~call'.cat /\ call'.ino = i
      /\ call'.acc = NoCharge /\ raised' = "none" /\ space' = space
  BY <1>1, <1>3 DEF Start, Idle
<1>5. Quiet /\ UNCHANGED <<inodes, boot, brs, space>>
  BY <1>1, <1>4 DEF Quiet, tree, links
<1>6. InHand'
  <2>1. Continuations' = Continuations /\ linked' = linked
    BY <1>5, QuietKeeps DEF CarefulInv, ListingInv, Quiet
  <2>2. QED
    BY <1>1, <1>3, <1>4, <1>5, <2>1 DEF InHand, Booted
<1>7. CatalogExact'
  BY <1>2, <1>4, <1>5, QuietKeepsCatalog DEF CarefulInv, ListingInv
<1>8. BootMisc' = BootMisc /\ BootMisc \in Int
  BY <1>2, <1>4, <1>5 DEF BootMisc
<1>9. (\A j \in Data : call'.acc.data[j] = 0 /\ call'.acc.fe[j] = 0) /\ call'.acc.misc = 0
  BY <1>4 DEF NoCharge
<1>10. call'.acc.misc = BootMisc' - BootMisc /\ call'.op \in Removing
  BY <1>4, <1>8, <1>9 DEF Removing
<1>11. QED
  BY <1>2, <1>4, <1>5, <1>6, <1>7, <1>9, <1>10, RemovalStarts

LEMMA RmEltoritoKeepsCareful ==
  ASSUME Careful, CarefulInv, ListingInv', RmEltorito
  PROVE  CarefulInv'
<1> DEFINE n == IF HasUdf THEN 0 ELSE -1
<1>1. /\ boot.on /\ (\A i \in Elements(boot.entries) : linked[i] # {}) /\ call.op = "idle"
      /\ UNCHANGED <<tree, links, boot>>
      /\ IF brs = 0
           THEN Raise("internal")
           ELSE /\ Start([Idle EXCEPT !.op = "rm_eltorito", !.queue = boot.recs, !.acc.misc = n])
                /\ brs' = brs - 1
  BY DEF RmEltorito, Careful, Start
<1>2. brs = 1 /\ boot \in Catalog
  BY <1>1 DEF CarefulInv, CatalogExact, ListingInv, TypeInv, TypeOK
<1> HIDE DEF n
<1>3. Start([Idle EXCEPT !.op = "rm_eltorito", !.queue = boot.recs, !.acc.misc = n]) /\ brs' = 0
  BY <1>1, <1>2
<1>4. /\ call'.op = "rm_eltorito" /\ call'.todo = <<>> /\ call'.segs = <<>>
      /\ call'.new = {} /\ call'.cur = None /\ call'.queue = boot.recs /\ ~call'.cat
      /\ call'.acc = [NoCharge EXCEPT !.misc = n] /\ raised' = "none" /\ space' = space
  BY <1>3 DEF Start, Idle
<1>5. Quiet /\ UNCHANGED <<inodes, boot, space>>
  BY <1>1, <1>4 DEF Quiet, tree, links
<1>6. None \notin Elements(boot.recs)
  BY <1>2, NoneApart, ElementsType DEF Catalog
<1>7. Entries' = Entries /\ ino' = ino /\ linked' = linked
  BY <1>5, QuietKeeps DEF CarefulInv, ListingInv, Quiet
<1>8. InHand'
  BY <1>1, <1>4, <1>5, <1>6, <1>7 DEF InHand, CarefulInv, CatalogExact
<1>9. CatalogExact'
  BY <1>1, <1>3, <1>4, <1>5, <1>7 DEF CarefulInv, CatalogExact
<1>10. /\ BootMisc' = 1 /\ BootMisc = IF HasUdf THEN 1 ELSE 2
  BY <1>1, <1>4, <1>5 DEF BootMisc
<1>11. (\A j \in Data : call'.acc.data[j] = 0 /\ call'.acc.fe[j] = 0) /\ call'.acc.misc = n
  BY <1>4 DEF NoCharge
<1>12. call'.acc.misc = BootMisc' - BootMisc /\ call'.op \in Removing
  BY <1>4, <1>10, <1>11 DEF Removing, n
<1>13. QED
  BY <1>1, <1>4, <1>5, <1>8, <1>9, <1>11, <1>12, RemovalStarts

-----------------------------------------------------------------------------
(* The inductive invariant. *)

LEMMA RmDrLinkKeepsCareful ==
  ASSUME CarefulInv, ListingInv', RmDrLink \/ RmUdfLink
  PROVE  CarefulInv'
<1>1. call.cur # None
  BY DEF RmDrLink, RmUdfLink
<1>2. Removes(call.cur)
  BY DrLinkRemoves, UdfLinkRemoves
<1>3. QED
  BY <1>1, <1>2, RemovesKeepsCareful

\* The record in hand is always listed: remove_child never meets a stale index.
LEMMA NoStaleIndex == CarefulInv => ~RmDrLinkFails
<1> SUFFICES ASSUME CarefulInv, RmDrLinkFails PROVE FALSE
  OBVIOUS
<1>1. call.cur # None /\ ~Listed(call.cur)
  BY DEF RmDrLinkFails
<1>2. call.cur \in Entries
  BY <1>1, InHandNotDangling
<1>3. QED
  BY <1>1, <1>2 DEF Entries

LEMMA RequestKeepsCareful ==
  ASSUME Careful, CarefulInv, ListingInv', Request
  PROVE  CarefulInv'
<1>1. ASSUME NEW f \in Contents, NEW s \in Targets, AddFp(f, s) PROVE CarefulInv'
  BY <1>1, AddFpKeepsCareful
<1>2. ASSUME NEW old \in Path, NEW new \in Path, AddHardLink(old, new) PROVE CarefulInv'
  BY <1>2, AddHardLinkKeepsCareful
<1>3. ASSUME NEW new \in Path, LinkBootCatalog(new) PROVE CarefulInv'
  BY <1>3, LinkBootCatalogKeepsCareful
<1>4. ASSUME NEW old \in IsoPath, NEW s \in Targets, AddEltorito(old, s) PROVE CarefulInv'
  BY <1>4, AddEltoritoKeepsCareful
<1>5. ASSUME NEW old \in IsoPath, AddSection(old) PROVE CarefulInv'
  BY <1>5, AddSectionKeepsCareful
<1>6. ASSUME NEW p \in Path, RmHardLink(p) PROVE CarefulInv'
  BY <1>6, RmHardLinkKeepsCareful
<1>7. ASSUME NEW p \in Path, RmFile(p) PROVE CarefulInv'
  BY <1>7, RmFileKeepsCareful
<1>8. CASE RmEltorito
  BY <1>8, RmEltoritoKeepsCareful
<1>9. QED
  BY <1>1, <1>2, <1>3, <1>4, <1>5, <1>6, <1>7, <1>8 DEF Request

LEMMA UnchangedKeepsCareful ==
  ASSUME CarefulInv, ListingInv', UNCHANGED vars
  PROVE  CarefulInv'
<1>1. Quiet /\ UNCHANGED <<inodes, boot, brs, space, call, raised>>
  BY DEF vars, Quiet
<1>2. Entries' = Entries /\ UdfEntries' = UdfEntries /\ Continuations' = Continuations
      /\ TreeExact' /\ TypeInv /\ TypeInv' /\ LinksExact
  BY <1>1, QuietKeeps DEF CarefulInv, ListingInv, TreeExact
<1>3. /\ Pending' = Pending /\ SegmentPaths' = SegmentPaths /\ Growing' = Growing
      /\ PendingData' = PendingData /\ Untracked' = Untracked /\ NamedData' = NamedData
      /\ BootMisc' = BootMisc /\ Charged' = Charged
  BY <1>1 DEF Pending, SegmentPaths, Growing, PendingData, Untracked, NamedData, BootMisc,
     Charged, Quiet
<1>4. ExpectedData' = ExpectedData
  BY <1>1, <1>3 DEF ExpectedData
<1>5. CallShape' /\ StoredExact' /\ NoInternalError'
  BY <1>1, <1>3 DEF CarefulInv, CallShape, StoredExact, NoInternalError
<1>6. ChainsExact'
  BY <1>1, <1>2, <1>3, QuietKeepsChains DEF CarefulInv
<1>7. InHand' /\ CatalogExact'
  BY <1>1, <1>2 DEF CarefulInv, InHand, CatalogExact, Quiet
<1>8. Adding'
  <2>1. OneFile => OneFile'
    BY <1>1, <1>3 DEF OneFile, Quiet
  <2>2. \A f \in BigFiles : \A n \in 1..Len(f) : InSegments(f, n) => InSegments(f, n)'
    BY <1>1, <1>3 DEF InSegments, Quiet
  <2>3. InFile' <=> OneFile' \/ \E f \in BigFiles : \E n \in 1..Len(f) : InSegments(f, n)'
    BY DEF InFile
  <2>4. InFile => InFile'
    BY <2>1, <2>2, <2>3 DEF InFile
  <2>5. TodoShape => TodoShape'
    BY <1>1, <1>3 DEF TodoShape, Quiet
  <2>6. NewData => NewData'
    BY <1>1 DEF NewData, Quiet
  <2>7. QED
    BY <1>1, <2>4, <2>5, <2>6 DEF CarefulInv, Adding
<1>9. SpaceCharged'
  <2>1. DataCharged' /\ EntriesCharged' /\ MiscCharged'
    BY <1>2, <1>1, <1>3, <1>4, QuietKeepsCharges DEF CarefulInv
  <2>2. Needed' = Needed
    BY <1>1, <1>2, <1>3, QuietNeeded
  <2>3. QED
    BY <1>1, <1>4, <2>1, <2>2 DEF CarefulInv, SpaceCharged
<1>10. QED
  BY <1>2, <1>5, <1>6, <1>7, <1>8, <1>9 DEF CarefulInv

LEMMA StepKeepsCareful ==
  ASSUME Careful, CarefulInv, [Next]_vars
  PROVE  CarefulInv'
<1>1. ListingInv'
  BY StepKeepsListings DEF CarefulInv
<1>2. CASE Request
  BY <1>1, <1>2, RequestKeepsCareful
<1>3. ASSUME NEW r \in Rec, Link(r) PROVE CarefulInv'
  BY <1>1, <1>3, LinkKeepsCareful
<1>4. CASE Track \/ NextSegment \/ FinishAdd \/ Refuse
  BY <1>1, <1>4, TrackKeepsCareful, NextSegmentKeepsCareful, FinishAddKeepsCareful,
     RefuseKeepsCareful
<1>5. CASE RmDrLink \/ RmUdfLink \/ RmDrLinkFails
  BY <1>1, <1>5, RmDrLinkKeepsCareful, NoStaleIndex
<1>6. CASE NextLink \/ NextCatalogRecord \/ FinishRemove \/ FinishRmEltorito
  BY <1>1, <1>6, NextLinkKeepsCareful, NextCatalogRecordKeepsCareful, FinishRemoveKeepsCareful,
     FinishRmEltoritoKeepsCareful
<1>7. CASE UNCHANGED vars
  BY <1>1, <1>7, UnchangedKeepsCareful
<1>8. QED
  BY <1>2, <1>3, <1>4, <1>5, <1>6, <1>7 DEF Next, Step

LEMMA InitCareful == Init => CarefulInv
<1> SUFFICES ASSUME Init PROVE CarefulInv
  OBVIOUS
<1>1. /\ listing = [p \in Path |-> <<>>] /\ home = [r \in Rec |-> None]
      /\ cont = [r \in Rec |-> None] /\ linked = [i \in Data |-> {}] /\ inodes = {}
      /\ numUdf = [i \in Data |-> 0] /\ boot = NoCatalog /\ brs = 0 /\ space = NoCharge
      /\ call = Idle /\ raised = "none"
  BY DEF Init
<1>2. ListingInv
  BY InitListings
<1>3. Entries = {} /\ UdfEntries = {}
  BY <1>1 DEF Entries, UdfEntries, Listed
<1>4. /\ call.op = "idle" /\ call.todo = <<>> /\ call.segs = <<>> /\ call.new = {}
      /\ ~call.cat /\ call.cur = None /\ call.acc = NoCharge /\ call.queue = <<>>
  BY <1>1 DEF Idle
<1>5. Elements(boot.recs) = {} /\ Elements(boot.entries) = {} /\ ~boot.on /\ Injective(boot.recs)
  BY <1>1 DEF NoCatalog, Elements, Injective
<1>6. NamedData = {}
  BY <1>1, <1>5 DEF NamedData
<1>7. TreeExact
  <2>1. FewNames /\ LinksExact
    BY <1>1, <1>3 DEF FewNames, LinksExact
  <2>2. CountsExact
    <3>1. \A i \in Data : numUdf[i] = 0 /\ {r \in UdfEntries : ino[r] = i} = {}
      BY <1>1, <1>3
    <3>2. QED
      BY <3>1, FS_EmptySet DEF CountsExact
  <2>3. QED
    BY <2>1, <2>2 DEF TreeExact
<1>8. CallShape /\ Adding /\ InHand /\ NoInternalError
  BY <1>1, <1>4 DEF CallShape, Adding, InHand, NoInternalError, Removing
<1>9. ChainsExact
  BY <1>1, <1>3 DEF ChainsExact, Chains, LastsChained
<1>10. CatalogExact
  BY <1>1, <1>3, <1>4, <1>5 DEF CatalogExact
<1>11. StoredExact
  BY <1>1, <1>6 DEF StoredExact
<1>12. SpaceCharged
  <2>1. Pending = {} /\ Elements(call.segs) = {}
    BY <1>4 DEF Pending, Elements
  <2>2. PendingData = {}
    BY <2>1 DEF PendingData
  <2>3. ExpectedData = {}
    BY <1>6, <2>1, <2>2 DEF ExpectedData
  <2>4. /\ \A i \in Data : Charged.data[i] = 0 /\ Charged.fe[i] = 0
        /\ Charged.misc = 0
    BY <1>1, <1>4 DEF Charged, Merge, NoCharge
  <2>5. DataCharged /\ EntriesCharged
    BY <1>3, <2>3, <2>4 DEF DataCharged, EntriesCharged
  <2>6. MiscCharged
    <3>1. {r \in UdfEntries : ino[r] = None} = {} /\ BootMisc = 0
      BY <1>3, <1>5 DEF BootMisc
    <3>2. QED
      BY <2>4, <3>1, FS_EmptySet DEF MiscCharged
  <2>7. QED
    BY <1>4, <2>5, <2>6 DEF SpaceCharged
<1>13. QED
  BY <1>2, <1>7, <1>8, <1>9, <1>10, <1>11, <1>12 DEF CarefulInv

-----------------------------------------------------------------------------
(* The theorems. *)

\* For a careful client, the invariant holds at every step of every call: links
\* in both directions, the catalog's records, the segments of big files, the
\* stored data and the ledger of the volume.
THEOREM CarefulClient ==
  ASSUME Careful
  PROVE  Spec => []CarefulInv
<1>1. Init => CarefulInv
  BY InitCareful
<1>2. CarefulInv /\ [Next]_vars => CarefulInv'
  BY StepKeepsCareful
<1>3. QED
  BY <1>1, <1>2, PTL DEF Spec

\* Between calls inode.linked_records, inode.num_udf and the catalog's records
\* are exactly what the listings say, for a careful client.
THEOREM LinksAlwaysMatch ==
  ASSUME Careful
  PROVE  Spec => []LinksMatch
<1>1. ASSUME CarefulInv, call.op = "idle"
      PROVE  /\ \A i \in Data :
                  /\ linked[i] = {r \in Rec : Listed(r) /\ ino[r] = i}
                  /\ numUdf[i] = Cardinality(UdfListed(i))
             /\ Elements(boot.recs) = {r \in Rec : Listed(r) /\ ino[r] = None}
  <2>1. TypeInv /\ LinksExact /\ CountsExact
    BY <1>1 DEF CarefulInv, ListingInv, TreeExact
  <2>2. \A i : UdfListed(i) = {r \in UdfEntries : ino[r] = i}
    BY DEF UdfListed, UdfEntries
  <2>3. \A i \in Data : linked[i] = {r \in Rec : Listed(r) /\ ino[r] = i}
    BY <2>1 DEF LinksExact, Entries
  <2>4. \A r \in Elements(boot.recs) : r \in Entries /\ ino[r] = None
    BY <1>1, <2>1 DEF CarefulInv, CatalogExact, TypeInv, Hangs, CatalogHasHomes
  <2>5. \A r \in Entries : ino[r] = None => r \in Elements(boot.recs)
    BY <1>1 DEF CarefulInv, CatalogExact
  <2>6. Elements(boot.recs) = {r \in Rec : Listed(r) /\ ino[r] = None}
    BY <2>4, <2>5 DEF Entries
  <2>7. QED
    BY <2>1, <2>2, <2>3, <2>6 DEF CountsExact
<1>2. CarefulInv => LinksMatch
  BY <1>1 DEF LinksMatch
<1>3. QED
  BY <1>2, CarefulClient, PTL

\* Between calls self.inodes is the data that a path or an El Torito entry
\* names, for a careful client: none is lost early, none stays behind.
THEOREM DataAlwaysNamed ==
  ASSUME Careful
  PROVE  Spec => []DataIffNamed
<1>1. ASSUME CarefulInv, call.op = "idle"
      PROVE  inodes = {i \in Data : linked[i] # {} \/ Booted(i)}
  <2>1. NamedData = inodes
    BY <1>1, IdleExact
  <2>2. TypeOK
    BY <1>1 DEF CarefulInv, ListingInv, TypeInv
  <2>3. QED
    BY <2>1, <2>2 DEF NamedData, Booted, TypeOK
<1>2. CarefulInv => DataIffNamed
  BY <1>1 DEF DataIffNamed
<1>3. QED
  BY <1>2, CarefulClient, PTL

\* No place marked "This should never happen" is reached by a careful client.
THEOREM NeverInternalError ==
  ASSUME Careful
  PROVE  Spec => []NoInternalError
<1>1. CarefulInv => NoInternalError
  BY DEF CarefulInv
<1>2. QED
  BY <1>1, CarefulClient, PTL

\* Between calls the space charged to the volume is what _reshuffle_extents
\* lays out, for a careful client.
THEOREM SpaceAlwaysExact ==
  ASSUME Careful
  PROVE  Spec => []SpaceExact
<1>1. ASSUME CarefulInv, call.op = "idle" PROVE space = Needed
  BY <1>1, IdleExact
<1>2. CarefulInv => SpaceExact
  BY <1>1 DEF SpaceExact
<1>3. QED
  BY <1>2, CarefulClient, PTL

-----------------------------------------------------------------------------
(* What a removal takes along. *)

\* The only record that a step unlists is the one in hand.
LEMMA OnlyTheOneInHand ==
  ASSUME Careful, CarefulInv, [Next]_vars
  PROVE  Entries \subseteq Entries' \cup {call.cur}
<1>1. ListingInv /\ ListingInv' /\ TypeInv /\ TypeInv'
  BY StepKeepsListings DEF CarefulInv, ListingInv
<1>2. ASSUME UNCHANGED listing PROVE Entries \subseteq Entries'
  BY <1>1, <1>2, SameListings
<1>3. CASE Request
  BY <1>2, <1>3, RequestKeepsTree DEF tree
<1>4. ASSUME NEW r \in Rec, Link(r) PROVE Entries \subseteq Entries'
  BY <1>1, <1>4, LinkAdds DEF Adds
<1>5. CASE \/ Track \/ NextSegment \/ FinishAdd \/ Refuse \/ RmDrLinkFails \/ NextLink
           \/ NextCatalogRecord \/ FinishRemove \/ FinishRmEltorito \/ UNCHANGED vars
  BY <1>2, <1>5 DEF Track, NextSegment, FinishAdd, Refuse, RmDrLinkFails, NextLink,
     NextCatalogRecord, FinishRemove, FinishRmEltorito, tree, vars
<1>6. CASE RmDrLink \/ RmUdfLink
  BY <1>1, <1>6, DrLinkRemoves, UdfLinkRemoves DEF Removes
<1>7. QED
  BY <1>3, <1>4, <1>5, <1>6 DEF Next, Step

\* A removal takes no other file along, for a careful client and files of one
\* segment each: what goes is the record asked for, a name of the same data or
\* a record of the boot catalog.
THEOREM RemovalAlwaysSelective ==
  ASSUME Careful, BigFiles = {}
  PROVE  Spec => RemovalIsSelective
<1> DEFINE A == \A r \in Rec : Listed(r) /\ ~Listed(r)' =>
                  \/ call.op = "rm_hard_link" /\ call.cur = r
                  \/ call.op = "rm_file" /\ (call.cur = r \/ call.ino # None) /\ ino[r] = call.ino
                  \/ call.op = "rm_eltorito" /\ r \in Elements(boot.recs)
<1>1. ASSUME CarefulInv, [Next]_vars, NEW r \in Rec, Listed(r), ~Listed(r)'
      PROVE  \/ call.op = "rm_hard_link" /\ call.cur = r
             \/ call.op = "rm_file" /\ (call.cur = r \/ call.ino # None) /\ ino[r] = call.ino
             \/ call.op = "rm_eltorito" /\ r \in Elements(boot.recs)
  <2>1. r \in Entries /\ r \notin Entries'
    BY <1>1 DEF Entries, Listed
  <2>2. Entries \subseteq Entries' \cup {call.cur}
    BY <1>1, OnlyTheOneInHand
  <2>3. r = call.cur /\ call.cur # None /\ call.op \in Removing
    BY <1>1, <2>1, <2>2, NoneApart DEF CarefulInv, CallShape
  <2>4. Segments = {}
    BY SegmentsType
  <2>5. QED
    BY <1>1, <2>3, <2>4 DEF CarefulInv, InHand, Removing
<1>2. CarefulInv /\ [Next]_vars => A
  BY <1>1
<1> HIDE DEF A
<1>3. Spec => [][A]_vars
  BY <1>2, CarefulClient, PTL DEF Spec
<1>4. [][A]_vars <=> RemovalIsSelective
  BY DEF A, RemovalIsSelective
<1>5. QED
  BY <1>3, <1>4, PTL

-----------------------------------------------------------------------------
(* The refinement: files of one segment are the data of the file store. *)

\* What counts as stored is the data that has a name, and a path names what
\* the record of its listing names.
StoreView ==
  /\ Stored = NamedData
  /\ \A i \in Data : (\E p \in Path : Content[p] = i) <=> linked[i] # {}

LEMMA StoredNamed ==
  ASSUME CarefulInv
  PROVE  Stored = NamedData
<1>1. StoredExact /\ NamedData \subseteq Data /\ inodes \subseteq Data /\ call.new \subseteq Data
  BY DEF CarefulInv, NamedData, ListingInv, TypeInv, TypeOK, Catalog, Elements, Call
<1>2. call.op # "add" => call.new = {} /\ Pending = {}
  BY DEF CarefulInv, CallShape, Pending, Elements
<1>3. call.op = "add" => TodoShape /\ NewData
  BY DEF CarefulInv, Adding
<1>4. Untracked \subseteq call.new
  BY <1>2, <1>3 DEF Untracked, TodoShape
<1>5. \A i \in call.new : i \in NamedData => linked[i] # {}
  BY <1>1, <1>2, <1>3 DEF NewData, NamedData
<1>6. ASSUME NEW i \in NamedData PROVE i \in Stored
  BY <1>1, <1>4, <1>5, <1>6 DEF StoredExact, Stored
<1>7. ASSUME NEW i \in Stored PROVE i \in NamedData
  BY <1>1, <1>7 DEF StoredExact, Stored, NamedData
<1>8. QED
  BY <1>6, <1>7

\* The one record listed under a name.
LEMMA OneRecord ==
  ASSUME CarefulInv, BigFiles = {}
  PROVE  /\ \A p \in Path : Exists(p) =>
              /\ Lookup(p) = listing[p][1] /\ Lookup(p) \in Entries /\ home[Lookup(p)] = p
              /\ Elements(listing[p]) = {Lookup(p)} /\ Len(listing[p]) = 1
         /\ \A r \in Entries : home[r] \in Path /\ Exists(home[r]) /\ Lookup(home[r]) = r
<1>1. TypeInv /\ TypeOK /\ \A p \in Path : listing[p] \in Seq(Rec) /\ Len(listing[p]) <= 1
  BY DEF CarefulInv, ListingInv, TypeInv, TypeOK, TreeExact, FewNames
<1>2. ASSUME NEW p \in Path, Exists(p)
      PROVE  /\ Lookup(p) = listing[p][1] /\ Lookup(p) \in Entries /\ home[Lookup(p)] = p
             /\ Elements(listing[p]) = {Lookup(p)} /\ Len(listing[p]) = 1
  <2>1. Len(listing[p]) = 1
    <3>1. Len(listing[p]) \in Nat /\ Len(listing[p]) # 0
      BY <1>1, <1>2, EmptySeq DEF Exists
    <3>2. Len(listing[p]) <= 1
      BY <1>1
    <3>3. \A n \in Nat : n # 0 /\ n <= 1 => n = 1
      OBVIOUS
    <3>4. QED
      BY ONLY <3>1, <3>2, <3>3
  <2>2. Lookup(p) = listing[p][1]
    BY <1>1, <2>1 DEF Lookup
  <2>3. Elements(listing[p]) = {Lookup(p)}
    BY <2>1, <2>2 DEF Elements
  <2>4. QED
    BY <1>1, <2>1, <2>2, <2>3, ListedSomewhere
<1>3. ASSUME NEW r \in Entries PROVE home[r] \in Path /\ Exists(home[r]) /\ Lookup(home[r]) = r
  <2>1. home[r] \in Path /\ r \in Elements(listing[home[r]])
    BY <1>1, EntriesType
  <2>2. Exists(home[r])
    BY <2>1 DEF Exists, Elements
  <2>3. QED
    BY <1>2, <2>1, <2>2
<1>4. QED
  BY <1>2, <1>3

LEMMA ViewHolds ==
  ASSUME BigFiles = {}
  PROVE  CarefulInv => StoreView
<1> SUFFICES ASSUME CarefulInv PROVE StoreView
  OBVIOUS
<1>1. Stored = NamedData
  BY StoredNamed
<1>2. \A i \in Data : linked[i] = {r \in Entries : ino[r] = i}
  BY DEF CarefulInv, TreeExact, LinksExact
<1>3. \A p \in Path : Content[p] = IF Exists(p) THEN ino[Lookup(p)] ELSE None
  BY DEF Content
<1>4. ASSUME NEW i \in Data, NEW p \in Path, Content[p] = i PROVE linked[i] # {}
  <2>1. Exists(p) /\ ino[Lookup(p)] = i
    BY <1>3, <1>4, NoneApart
  <2>2. QED
    BY <1>2, <2>1, OneRecord
<1>5. ASSUME NEW i \in Data, linked[i] # {} PROVE \E p \in Path : Content[p] = i
  <2>1. PICK r \in Entries : ino[r] = i
    BY <1>2, <1>5
  <2>2. Content[home[r]] = i
    BY <1>3, <2>1, OneRecord
  <2>3. QED
    BY <2>1, <2>2, OneRecord
<1>6. QED
  BY <1>1, <1>4, <1>5 DEF StoreView

LEMMA StillExact ==
  ASSUME Careful, BigFiles = {}
  PROVE  CarefulInv /\ [Next]_vars => CarefulInv' /\ StoreView /\ StoreView'
<1>1. CarefulInv => StoreView
  BY ViewHolds
<1>2. CarefulInv /\ [Next]_vars => CarefulInv'
  BY StepKeepsCareful
<1>3. QED
  BY <1>1, <1>2, PTL

\* The data that names, or El Torito entries in b, keep.
LEMMA NamedIs ==
  ASSUME StoreView, NEW b
  PROVE  FS!Named(Content, b) = {i \in Data : i \in b \/ linked[i] # {}}
BY DEF StoreView, FS!Named

LEMMA NamedIsNext ==
  ASSUME StoreView', NEW b
  PROVE  FS!Named(Content', b) = {i \in Data : i \in b \/ linked'[i] # {}}
BY DEF StoreView, FS!Named

LEMMA QuietContent ==
  ASSUME UNCHANGED <<listing, ino>>
  PROVE  Content' = Content
BY DEF Content, Exists, Lookup

LEMMA LinkContent ==
  ASSUME CarefulInv, ListingInv', BigFiles = {}, NEW r, NEW p, NEW i, Adds(r, p, i),
         listing[p] = <<>>
  PROVE  Content[p] = None /\ Content' = [Content EXCEPT ![p] = i]
<1>1. /\ r \in Rec \ Entries /\ p \in Path /\ ino'[r] = i
      /\ \A q \in Rec \ {r} : ino'[q] = ino[q]
      /\ listing'[p] = Insert(listing[p], r, p)
      /\ \A q \in Path \ {p} : listing'[q] = listing[q]
  BY DEF Adds
<1>2. Content[p] = None
  BY <1>1 DEF Content, Exists
<1>3. listing'[p] = <<r>>
  BY <1>1 DEF Insert
<1>4. \A q \in Path \ {p} : Exists(q) => Lookup(q) \in Rec \ {r}
  <2>1. Entries \subseteq Rec
    BY DEF Entries
  <2>2. QED
    BY <1>1, <2>1, OneRecord
<1>5. Content' = [q \in Path |-> IF listing'[q] # <<>> THEN ino'[Head(listing'[q])] ELSE None]
  BY DEF Content, Exists, Lookup
<1>6. Content = [q \in Path |-> IF listing[q] # <<>> THEN ino[Head(listing[q])] ELSE None]
  BY DEF Content, Exists, Lookup
<1>7. listing'[p] # <<>> /\ Head(listing'[p]) = r
  BY <1>3
<1>8. ASSUME NEW q \in Path \ {p} PROVE Content'[q] = Content[q]
  BY <1>1, <1>4, <1>5, <1>6, <1>8 DEF Exists, Lookup
<1>9. Content'[p] = i
  BY <1>1, <1>5, <1>7
<1>10. QED
  BY <1>1, <1>2, <1>5, <1>6, <1>8, <1>9

LEMMA RemovalContent ==
  ASSUME CarefulInv, ListingInv', BigFiles = {}, NEW r, Removes(r)
  PROVE  /\ home[r] \in Path /\ Content[home[r]] = ino[r]
         /\ Content' = [Content EXCEPT ![home[r]] = None]
<1> DEFINE p == home[r]
<1>1. /\ r \in Entries /\ Drops(p, r) /\ r \in Rec
      /\ \A q \in Rec \ {r} : home'[q] = home[q] /\ ino'[q] = ino[q]
  BY DEF Removes, Entries
<1>2. /\ p \in Path /\ Exists(p) /\ Lookup(p) = r /\ Len(listing[p]) = 1
  BY <1>1, OneRecord
<1>3. /\ listing'[p] \in Seq(Rec) /\ Len(listing'[p]) = 0
      /\ \A q \in Path \ {p} : listing'[q] = listing[q]
  BY <1>1, <1>2 DEF Drops
<1>4. listing'[p] = <<>>
  BY <1>3
<1>5. \A q \in Path \ {p} : Exists(q) => Lookup(q) \in Rec \ {r}
  <2>1. Entries \subseteq Rec
    BY DEF Entries
  <2>2. QED
    BY <2>1, OneRecord
<1> HIDE DEF p
<1>6. Content' = [q \in Path |-> IF listing'[q] # <<>> THEN ino'[Head(listing'[q])] ELSE None]
  BY DEF Content, Exists, Lookup
<1>7. Content = [q \in Path |-> IF listing[q] # <<>> THEN ino[Head(listing[q])] ELSE None]
  BY DEF Content, Exists, Lookup
<1>8. ASSUME NEW q \in Path \ {p} PROVE Content'[q] = Content[q]
  BY <1>1, <1>3, <1>5, <1>6, <1>7, <1>8 DEF Exists, Lookup
<1>9. Content'[p] = None /\ Content[p] = ino[r]
  BY <1>2, <1>4, <1>6, <1>7 DEF Exists, Lookup
<1>10. Content' = [Content EXCEPT ![p] = None]
  BY <1>2, <1>6, <1>7, <1>8, <1>9
<1>11. QED
  BY <1>2, <1>9, <1>10 DEF p

\* A new link is a new name, unless it is a record of the boot catalog.
LEMMA LinkRefines ==
  ASSUME Careful, BigFiles = {}, CarefulInv, ListingInv', StoreView, StoreView',
         NEW r \in Rec, Link(r)
  PROVE  [FS!Next]_FS!vars
<1> DEFINE p == Head(call.todo).path
           i == Head(call.todo).ino
<1>1. /\ TypeInv /\ NextItemDone /\ Adds(r, p, i) /\ LinkRest(r, p, i)
      /\ Head(call.todo) \in Pending /\ InFile /\ p # None
  <2>1. TypeInv /\ ListingInv
    BY DEF CarefulInv, ListingInv
  <2>2. NextItemDone /\ p # None
    BY <2>1, LinkCall DEF Link
  <2>3. Head(call.todo) \in Pending /\ InFile
    BY <2>1, <2>2, HeadIsPending DEF NextItemDone, CarefulInv, Adding
  <2>4. Adds(r, p, i) /\ LinkRest(r, p, i)
    BY <2>1, LinkAdds, LinkDoesRest
  <2>5. QED
    BY <2>1, <2>2, <2>3, <2>4
<1>2. listing[p] = <<>>
  BY <1>1, NameIsFree
<1>3. NamedData' = NamedData \cup ({i} \ {None})
  BY <1>1, AddsNames
<1>4. p \in Path /\ i \in Data \cup {None}
  BY <1>1 DEF Adds, InoOrNone
<1>5. Elements(boot'.entries) = Elements(boot.entries)
  <2>1. boot \in Catalog
    BY <1>1 DEF TypeInv, TypeOK
  <2>2. QED
    BY <1>1, <2>1 DEF LinkRest, Catalog
<1> HIDE DEF p, i
<1>6. Content[p] = None /\ Content' = [Content EXCEPT ![p] = i]
  BY <1>1, <1>2, LinkContent
<1>7. Stored' = Stored \cup ({i} \ {None})
  BY <1>3 DEF StoreView
<1>8. CASE i = None
  <2>1. Content' = Content
    BY <1>4, <1>6, <1>8 DEF Content
  <2>2. QED
    BY <1>5, <1>7, <1>8, <2>1 DEF FS!vars
<1>9. CASE i # None
  <2>1. FS!Bind(p, i)
    BY <1>5, <1>6, <1>7, <1>9 DEF FS!Bind
  <2>2. QED
    BY <1>4, <1>9, <2>1 DEF FS!Next
<1>10. QED
  BY <1>8, <1>9

\* A link that goes is a name that goes, and its data with it if it was the last.
LEMMA RemovalRefines ==
  ASSUME BigFiles = {}, CarefulInv, ListingInv', StoreView, StoreView', NEW r, Removes(r)
  PROVE  [FS!Next]_FS!vars
<1>1. /\ home[r] \in Path /\ Content[home[r]] = ino[r]
      /\ Content' = [Content EXCEPT ![home[r]] = None]
  BY RemovalContent
<1>2. /\ ino[r] \in Data \cup {None} /\ \A j \in Data : linked'[j] = linked[j] \ {r}
      /\ boot' = boot
  BY RemovesLinks DEF CarefulInv, Removes
<1>3. CASE ino[r] = None
  <2>1. Content' = Content
    BY <1>1, <1>3 DEF Content
  <2>2. linked' = linked
    BY <1>3 DEF Removes, Unlink
  <2>3. NamedData' = NamedData
    BY <1>2, <2>2 DEF NamedData
  <2>4. QED
    BY <1>2, <2>1, <2>3 DEF FS!vars, StoreView
<1>4. CASE ino[r] # None
  <2>1. FS!Named(Content', Elements(boot.entries)) =
          {j \in Data : j \in Elements(boot.entries) \/ linked'[j] # {}}
    BY NamedIsNext
  <2>2. Elements(boot.entries) \subseteq Data
    BY DEF CarefulInv, ListingInv, TypeInv, TypeOK, Catalog, Elements
  <2>3. /\ NamedData = {j \in Data : j \in Elements(boot.entries) \/ linked[j] # {}}
        /\ NamedData' = {j \in Data : j \in Elements(boot.entries) \/ linked'[j] # {}}
    BY <1>2, <2>2 DEF NamedData
  <2>4. NamedData' = NamedData \cap FS!Named(Content', Elements(boot.entries))
    BY <1>2, <2>1, <2>3
  <2>5. FS!Unbind(home[r])
    BY <1>1, <1>2, <1>4, <2>4 DEF FS!Unbind, StoreView
  <2>6. QED
    BY <1>1, <2>5 DEF FS!Next
<1>5. QED
  BY <1>3, <1>4

\* A step that changes no name and no entry of El Torito.
LEMMA QuietRefines ==
  ASSUME StoreView, StoreView', UNCHANGED <<listing, ino, linked>>,
         Elements(boot'.entries) = Elements(boot.entries)
  PROVE  [FS!Next]_FS!vars
<1>1. Content' = Content
  BY QuietContent
<1>2. Stored' = Stored
  BY DEF StoreView, NamedData
<1>3. QED
  BY <1>1, <1>2 DEF FS!vars

LEMMA BootRefines ==
  ASSUME CarefulInv, StoreView, StoreView', UNCHANGED <<listing, ino, linked>>,
         NEW p \in Path, Exists(p), call.op = "idle", ino[Lookup(p)] # None,
         Elements(boot'.entries) = Elements(boot.entries) \cup {ino[Lookup(p)]}
  PROVE  [FS!Next]_FS!vars
<1> DEFINE i == ino[Lookup(p)]
<1>1. i \in Data /\ linked[i] # {} /\ Content[p] = i
  BY LookupExact DEF Content
<1>2. NamedData' = NamedData
  BY <1>1 DEF NamedData
<1>3. Content' = Content /\ Stored' = Stored
  BY <1>2, QuietContent DEF StoreView
<1> HIDE DEF i
<1>4. Elements(boot'.entries) = Elements(boot.entries) \cup {i}
  BY DEF i
<1>5. FS!Boot(i)
  BY <1>1, <1>3, <1>4 DEF FS!Boot
<1>6. QED
  BY <1>1, <1>5 DEF FS!Next

LEMMA RequestRefines ==
  ASSUME CarefulInv, StoreView, StoreView', Request
  PROVE  [FS!Next]_FS!vars
<1>1. UNCHANGED <<listing, ino, linked>>
  BY RequestKeepsTree DEF tree, links
<1>2. boot \in Catalog
  BY DEF CarefulInv, ListingInv, TypeInv, TypeOK
<1>3. ASSUME boot' = boot PROVE [FS!Next]_FS!vars
  BY <1>1, <1>3, QuietRefines
<1>4. ASSUME NEW f \in Contents, NEW s \in Targets, AddFp(f, s) PROVE [FS!Next]_FS!vars
  BY <1>3, <1>4 DEF AddFp
<1>5. ASSUME NEW old \in Path, NEW new \in Path, AddHardLink(old, new) PROVE [FS!Next]_FS!vars
  BY <1>3, <1>5 DEF AddHardLink
<1>6. ASSUME NEW new \in Path, LinkBootCatalog(new) PROVE [FS!Next]_FS!vars
  BY <1>3, <1>6 DEF LinkBootCatalog
<1>7. ASSUME NEW old \in IsoPath, NEW s \in Targets, AddEltorito(old, s)
      PROVE  [FS!Next]_FS!vars
  <2> DEFINE i == ino[Lookup(old)]
  <2>1. /\ Exists(old) /\ ~boot.on /\ i # None /\ call.op = "idle" /\ old \in Path
        /\ boot' = [on |-> TRUE, recs |-> <<>>, entries |-> <<i>>]
    BY <1>7 DEF AddEltorito, Start, Path
  <2>2. boot = NoCatalog
    BY <2>1 DEF CarefulInv, CatalogExact
  <2> HIDE DEF i
  <2>3. Elements(boot'.entries) = {i} /\ Elements(boot.entries) = {}
    BY <2>1, <2>2 DEF Elements, NoCatalog
  <2>4. Elements(boot'.entries) = Elements(boot.entries) \cup {i}
    BY <2>3
  <2>5. QED
    BY <1>1, <2>1, <2>4, BootRefines DEF i
<1>8. ASSUME NEW old \in IsoPath, AddSection(old) PROVE [FS!Next]_FS!vars
  <2> DEFINE i == ino[Lookup(old)]
  <2>1. /\ Exists(old) /\ i # None /\ call.op = "idle" /\ old \in Path
        /\ boot' = [boot EXCEPT !.entries = Append(@, i)]
    BY <1>8 DEF AddSection, Start, Path
  <2>2. i \in Data
    BY <2>1, LookupExact
  <2> HIDE DEF i
  <2>3. boot'.entries = Append(boot.entries, i)
    BY <1>2, <2>1 DEF Catalog
  <2>4. Elements(boot'.entries) = Elements(boot.entries) \cup {i}
    BY <1>2, <2>2, <2>3, AppendElements DEF Catalog
  <2>5. QED
    BY <1>1, <2>1, <2>4, BootRefines DEF i
<1>9. ASSUME NEW p \in Path, RmHardLink(p) \/ RmFile(p) PROVE [FS!Next]_FS!vars
  BY <1>3, <1>9 DEF RmHardLink, RmFile
<1>10. CASE RmEltorito
  BY <1>3, <1>10 DEF RmEltorito
<1>11. QED
  BY <1>4, <1>5, <1>6, <1>7, <1>8, <1>9, <1>10 DEF Request

LEMMA UnbootRefines ==
  ASSUME StoreView, StoreView', FinishRmEltorito
  PROVE  [FS!Next]_FS!vars
<1>1. /\ UNCHANGED <<listing, ino, linked>> /\ boot' = NoCatalog
  BY DEF FinishRmEltorito, links
<1>2. Content' = Content
  BY <1>1, QuietContent
<1>3. Elements(boot'.entries) = {}
  BY <1>1 DEF NoCatalog, Elements
<1>4. FS!Named(Content, {}) = {i \in Data : linked[i] # {}}
  BY NamedIs
<1>5. NamedData' = NamedData \cap FS!Named(Content, {})
  BY <1>1, <1>3, <1>4 DEF NamedData
<1>6. FS!Unboot
  BY <1>2, <1>3, <1>5 DEF FS!Unboot, StoreView
<1>7. QED
  BY <1>6 DEF FS!Next

LEMMA StepRefines ==
  ASSUME Careful, BigFiles = {}, CarefulInv, ListingInv', StoreView, StoreView', [Next]_vars
  PROVE  [FS!Next]_FS!vars
<1>1. CASE Request
  BY <1>1, RequestRefines
<1>2. ASSUME NEW r \in Rec, Link(r) PROVE [FS!Next]_FS!vars
  BY <1>2, LinkRefines
<1>3. CASE \/ Track \/ NextSegment \/ FinishAdd \/ Refuse \/ RmDrLinkFails \/ NextLink
           \/ NextCatalogRecord \/ FinishRemove \/ UNCHANGED vars
  <2>1. UNCHANGED <<listing, ino, linked, boot>>
    BY <1>3 DEF Track, NextSegment, FinishAdd, Refuse, RmDrLinkFails, NextLink,
       NextCatalogRecord, FinishRemove, tree, links, vars
  <2>2. QED
    BY <2>1, QuietRefines
<1>4. CASE RmDrLink \/ RmUdfLink
  BY <1>4, DrLinkRemoves, UdfLinkRemoves, RemovalRefines
<1>5. CASE FinishRmEltorito
  BY <1>5, UnbootRefines
<1>6. QED
  BY <1>1, <1>2, <1>3, <1>4, <1>5 DEF Next, Step

LEMMA InitRefines == Init => FS!Init
<1> SUFFICES ASSUME Init PROVE FS!Init
  OBVIOUS
<1>1. Content = [p \in Path |-> None]
  BY DEF Init, Content, Exists
<1>2. Elements(boot.entries) = {}
  BY DEF Init, NoCatalog, Elements
<1>3. Stored = {}
  BY DEF Init, Stored, Idle
<1>4. QED
  BY <1>1, <1>2, <1>3 DEF FS!Init

\* For a careful client and files of one segment, every step of every call is a
\* step of the abstract file store, or none: a path names one piece of data, and
\* data is on the image exactly as long as a path or an El Torito entry names it.
THEOREM ImplementsFileStore ==
  ASSUME Careful, BigFiles = {}
  PROVE  Spec => FileStoreSpec
<1>1. CarefulInv /\ [Next]_vars => [FS!Next]_FS!vars
  <2>1. CarefulInv /\ [Next]_vars => StoreView /\ StoreView'
    BY StillExact
  <2>2. CarefulInv /\ [Next]_vars => ListingInv'
    BY StepKeepsListings DEF CarefulInv
  <2>3. QED
    BY <2>1, <2>2, StepRefines
<1>2. Spec => []CarefulInv
  BY CarefulClient
<1>3. QED
  BY <1>1, <1>2, InitRefines, PTL DEF Spec, FileStoreSpec, FS!Spec

-----------------------------------------------------------------------------
(* Files of two segments, for a careful client: a name lists both segments *)
(* in order, and the data of both is on the image or that of neither.      *)
(* With three segments the code itself breaks this: see the README.        *)

TwoSegmentFiles == \A f \in BigFiles : Len(f) = 2

\* The records of l, whose inodes n gives, are the names of one whole file.
Whole(l, n) ==
  \/ l = <<>>
  \/ Len(l) = 1 /\ n[l[1]] \in (Data \ Segments) \cup {None}
  \/ Len(l) = 2 /\ \E f \in BigFiles : n[l[1]] = f[1] /\ n[l[2]] = f[2]
Single(l, n, k) == Len(l) = 1 /\ \E f \in BigFiles : n[l[1]] = f[k]

\* The last segment is still to come, or the first has just been removed.
FirstAlone(p) == p \in Growing /\ Single(listing[p], ino, 1)
LastAlone(p) == call.cur = listing[p][1] /\ Single(listing[p], ino, 2)

FilesInv ==
  /\ Elements(boot.entries) \cap Segments = {}
  /\ \A p \in Path \ UdfPath : Whole(listing[p], ino) \/ FirstAlone(p) \/ LastAlone(p)
  /\ call.cur # None => call.cur = listing[home[call.cur]][1]

-----------------------------------------------------------------------------
LEMMA SegmentIndex ==
  ASSUME NEW f \in BigFiles, NEW g \in BigFiles, NEW j \in 1..Len(f), NEW k \in 1..Len(g),
         f[j] = g[k]
  PROVE  f = g /\ j = k
BY HardLinksAssumption

LEMMA SegmentsOfTwo ==
  ASSUME TwoSegmentFiles, NEW f \in BigFiles
  PROVE  /\ Len(f) = 2 /\ 1 \in 1..Len(f) /\ 2 \in 1..Len(f) /\ f[1] # f[2]
         /\ f[1] \in Segments /\ f[2] \in Segments /\ f[1] \in Data /\ f[2] \in Data
         /\ f[2] \in LastSegments /\ Elements(f) = {f[1], f[2]}
<1>1. Len(f) = 2 /\ 1 \in 1..Len(f) /\ 2 \in 1..Len(f)
  BY DEF TwoSegmentFiles
<1>2. f[1] # f[2]
  BY <1>1, SegmentIndex
<1>3. Elements(f) = {f[1], f[2]}
  BY <1>1 DEF Elements
<1>4. QED
  BY <1>1, <1>2, <1>3, SegmentsType DEF LastSegments

LEMMA ShortSeq ==
  ASSUME NEW l \in Seq(Rec)
  PROVE  /\ Len(l) = 1 => l[1] \in Rec /\ Elements(l) = {l[1]}
         /\ Len(l) = 2 => l[1] \in Rec /\ l[2] \in Rec /\ Elements(l) = {l[1], l[2]}
<1>1. Len(l) = 1 => l[1] \in Rec /\ Elements(l) = {l[1]}
  BY DEF Elements
<1>2. Len(l) = 2 => l[1] \in Rec /\ l[2] \in Rec /\ Elements(l) = {l[1], l[2]}
  BY DEF Elements
<1>3. QED
  BY <1>1, <1>2

\* Only the inodes of the records that are listed count.
LEMMA SameFiles ==
  ASSUME NEW l \in Seq(Rec), NEW n, NEW m, \A x \in Elements(l) : n[x] = m[x]
  PROVE  /\ Whole(l, n) => Whole(l, m)
         /\ \A k : Single(l, n, k) => Single(l, m, k)
<1>1. /\ Len(l) = 1 => n[l[1]] = m[l[1]]
      /\ Len(l) = 2 => n[l[1]] = m[l[1]] /\ n[l[2]] = m[l[2]]
  BY ShortSeq
<1>2. QED
  BY <1>1 DEF Whole, Single

\* With no record in hand, no name lists the last segment alone.
LEMMA NotLastAlone ==
  ASSUME CarefulInv, FilesInv, call.cur = None, NEW p \in Path \ UdfPath
  PROVE  Whole(listing[p], ino) \/ FirstAlone(p)
<1>1. listing[p] \in Seq(Rec)
  BY DEF CarefulInv, ListingInv, TypeInv, TypeOK
<1>2. ~LastAlone(p)
  BY <1>1, ShortSeq, NoneApart DEF LastAlone, Single
<1>3. QED
  BY <1>2 DEF FilesInv

\* Between two removals the records that continue no other come first.
LEMMA FirstOfList ==
  ASSUME TwoSegmentFiles, CarefulInv, FilesInv, call.cur = None, Growing = {},
         NEW r \in Entries \ Continuations
  PROVE  r = listing[home[r]][1]
<1> DEFINE l == listing[home[r]]
<1>1. /\ TypeInv /\ TypeOK /\ r \in Rec /\ home[r] \in Path /\ r \in Elements(l) /\ l \in Seq(Rec)
      /\ FewNames /\ LastsChained
  BY EntriesType DEF CarefulInv, ListingInv, TypeInv, TypeOK, TreeExact, ChainsExact
<1>2. ASSUME Len(l) = 1 PROVE r = l[1]
  BY <1>1, <1>2, ShortSeq
<1>3. l # <<>>
  BY <1>1 DEF Elements
<1>4. CASE home[r] \in UdfPath
  <2>1. Len(l) <= 1
    BY <1>1, <1>4 DEF FewNames
  <2>2. Len(l) \in Nat /\ Len(l) # 0
    BY <1>1, <1>3, EmptySeq
  <2>3. \A n \in Nat : n # 0 /\ n <= 1 => n = 1
    OBVIOUS
  <2>4. Len(l) = 1
    BY ONLY <2>1, <2>2, <2>3
  <2>5. QED
    BY <1>2, <2>4
<1>5. CASE home[r] \notin UdfPath
  <2>1. Whole(l, ino)
    BY <1>1, <1>5, NotLastAlone DEF FirstAlone
  <2> HIDE DEF l
  <2>2. ASSUME Len(l) = 2, NEW f \in BigFiles, ino[l[1]] = f[1], ino[l[2]] = f[2] PROVE r = l[1]
    <3>1. ino[r] # f[2] \/ r = None
      BY <1>1, <2>2, SegmentsOfTwo, NoneApart DEF LastsChained
    <3>2. QED
      BY <1>1, <2>2, <3>1, ShortSeq, NoneApart
  <2>3. QED
    BY <1>2, <1>3, <2>1, <2>2 DEF Whole, l
<1>6. QED
  BY <1>4, <1>5

\* A step that changes no listing and no link, with no record in hand before.
LEMMA QuietFiles ==
  ASSUME TwoSegmentFiles, CarefulInv, CarefulInv', FilesInv, Quiet, call.cur = None,
         Elements(boot'.entries) \cap Segments = {},
         \A p \in Path : p \in Growing => p \in Growing',
         call'.cur # None => Growing = {}
  PROVE  FilesInv'
<1>1. TypeInv /\ TypeInv' /\ listing' = listing /\ ino' = ino
  BY DEF CarefulInv, ListingInv, Quiet
<1>2. /\ Entries' = Entries /\ Continuations' = Continuations
      /\ \A r \in Entries : home'[r] = home[r]
  BY <1>1, QuietKeeps
<1>3. ASSUME NEW p \in Path \ UdfPath
      PROVE  Whole(listing'[p], ino') \/ (p \in Growing' /\ Single(listing'[p], ino', 1))
  BY <1>1, <1>3, NotLastAlone DEF FirstAlone
<1>4. ASSUME call'.cur # None PROVE call'.cur = listing'[home'[call'.cur]][1]
  <2>1. call'.cur \in Entries \ Continuations
    BY <1>2, <1>4 DEF CarefulInv, InHand
  <2>2. call'.cur = listing[home[call'.cur]][1]
    BY <1>4, <2>1, FirstOfList
  <2>3. QED
    BY <1>1, <1>2, <2>1, <2>2
<1>5. QED
  BY <1>3, <1>4 DEF FilesInv, FirstAlone, LastAlone

-----------------------------------------------------------------------------
(* Link. *)

LEMMA InsertShort ==
  ASSUME NEW l \in Seq(Rec), NEW r \in Rec, NEW p \in Path \ UdfPath
  PROVE  /\ l = <<>> => Len(Insert(l, r, p)) = 1 /\ Insert(l, r, p)[1] = r
         /\ Len(l) = 1 => /\ Len(Insert(l, r, p)) = 2
                          /\ Insert(l, r, p)[1] = l[1] /\ Insert(l, r, p)[2] = r
<1>1. ASSUME l = <<>> PROVE Len(Insert(l, r, p)) = 1 /\ Insert(l, r, p)[1] = r
  <2>1. Insert(l, r, p) = Append(<<>>, r)
    BY <1>1 DEF Insert
  <2>2. QED
    BY <2>1
<1>2. ASSUME Len(l) = 1
      PROVE  Len(Insert(l, r, p)) = 2 /\ Insert(l, r, p)[1] = l[1] /\ Insert(l, r, p)[2] = r
  <2>1. l # <<>> /\ l[1] \in Rec /\ Head(l) = l[1]
    BY <1>2
  <2>2. Tail(l) \in Seq(Rec) /\ Len(Tail(l)) = 0
    BY <1>2, <2>1, HeadTailProperties
  <2>3. Tail(l) = <<>>
    BY <2>2, EmptySeq
  <2>4. Insert(l, r, p) = <<l[1], r>> \o <<>>
    BY <2>1, <2>3 DEF Insert
  <2>5. <<l[1], r>> \in Seq(Rec)
    BY <2>1
  <2>6. Insert(l, r, p) = <<l[1], r>>
    BY <2>4, <2>5, ConcatEmptySeq
  <2>7. QED
    BY <2>1, <2>6
<1>3. QED
  BY <1>1, <1>2

\* A name that lists segment k of f only has its first segment, or nothing.
LEMMA OneSegment ==
  ASSUME TwoSegmentFiles, NEW f \in BigFiles, NEW l \in Seq(Rec), NEW n, NEW k \in 1..2,
         \A x \in Elements(l) : n[x] = f[k], Whole(l, n) \/ Single(l, n, 1)
  PROVE  l = <<>> \/ (k = 1 /\ Len(l) = 1 /\ n[l[1]] = f[1])
<1>1. f[k] \in Segments /\ f[k] \in Data /\ k \in 1..Len(f)
  BY SegmentsOfTwo
<1>2. ASSUME Len(l) = 1, n[l[1]] \in (Data \ Segments) \cup {None} PROVE FALSE
  BY <1>1, <1>2, ShortSeq, NoneApart
<1>3. ASSUME Len(l) = 2, NEW g \in BigFiles, n[l[1]] = g[1], n[l[2]] = g[2] PROVE FALSE
  <2>1. n[l[1]] = f[k] /\ n[l[2]] = f[k]
    BY <1>3, ShortSeq
  <2>2. g[1] # g[2]
    BY SegmentsOfTwo
  <2>3. QED
    BY <1>3, <2>1, <2>2
<1>4. ASSUME Len(l) = 1, NEW g \in BigFiles, n[l[1]] = g[1] PROVE k = 1
  <2>1. g[1] = f[k]
    BY <1>4, ShortSeq
  <2>2. 1 \in 1..Len(g)
    BY SegmentsOfTwo
  <2>3. QED
    BY <1>1, <2>1, <2>2, SegmentIndex
<1>5. ASSUME Single(l, n, 1) PROVE k = 1 /\ Len(l) = 1 /\ n[l[1]] = f[1]
  <2>1. PICK g \in BigFiles : Len(l) = 1 /\ n[l[1]] = g[1]
    BY <1>5 DEF Single
  <2>2. k = 1
    BY <1>4, <2>1
  <2>3. QED
    BY <2>1, <2>2, ShortSeq
<1>6. Whole(l, n) => l = <<>>
  BY <1>2, <1>3 DEF Whole
<1>7. QED
  BY <1>5, <1>6

LEMMA LinkKeepsFiles ==
  ASSUME Careful, TwoSegmentFiles, CarefulInv, CarefulInv', FilesInv, NEW r \in Rec, Link(r)
  PROVE  FilesInv'
<1> DEFINE p == Head(call.todo).path
           i == Head(call.todo).ino
<1>1. ListingInv /\ ListingInv' /\ TypeInv /\ InFile /\ PathsOnce(call.todo)
  BY DEF CarefulInv, ListingInv, Adding, TodoShape, Link
<1>2. Adds(r, p, i) /\ NextItemDone /\ LinkRest(r, p, i)
  BY <1>1, LinkAdds, LinkCall, LinkDoesRest
<1>3. p \in Path /\ p # None /\ i \in Data \cup {None} /\ Head(call.todo) \in Pending
      /\ Pending = Pending' \cup {Head(call.todo)}
  BY <1>1, <1>2, NextItem, ItemsLeft, NoneApart DEF InoOrNone
<1>4. /\ call.op = "add" /\ call'.op = "add" /\ call'.dirty /\ call.cur = None /\ call'.cur = None
      /\ call'.segs = call.segs /\ SegmentPaths' = SegmentPaths
  BY <1>2 DEF NextItemDone, CarefulInv, CallShape, Removing, SegmentPaths
<1>5. boot'.entries = boot.entries
  BY <1>1, <1>2 DEF LinkRest, TypeInv, TypeOK, Catalog
<1>6. /\ \A q \in Path \ {p} : listing'[q] = listing[q]
      /\ \A q \in Path : \A x \in Elements(listing[q]) : ino'[x] = ino[x]
      /\ listing'[p] # <<>>
      /\ \A x \in Elements(listing'[p]) : x = r \/ x \in Elements(listing[p])
  <2>1. ListingInv /\ Adds(r, p, i)
    BY <1>1, <1>2
  <2>2. QED
    BY ONLY <2>1, AddsElsewhere
<1>7. listing'[p] = Insert(listing[p], r, p) /\ ino'[r] = i
  BY <1>2 DEF Adds
<1>8. \A q \in Path : listing[q] \in Seq(Rec)
  BY <1>1 DEF TypeInv, TypeOK
<1>9. ASSUME NEW q \in Path \ UdfPath, q # p
      PROVE  Whole(listing'[q], ino') \/ (q \in Growing' /\ Single(listing'[q], ino', 1))
  <2>1. listing'[q] = listing[q] /\ \A x \in Elements(listing[q]) : ino[x] = ino'[x]
    BY <1>6, <1>9
  <2>2. CASE Whole(listing[q], ino)
    BY <1>8, <2>1, <2>2, SameFiles
  <2>3. CASE FirstAlone(q)
    <3>1. q \in Growing'
      BY <1>3, <1>4, <1>9, <2>3 DEF FirstAlone, Growing
    <3>2. Single(listing'[q], ino', 1)
      BY <1>8, <2>1, <2>3, SameFiles DEF FirstAlone
    <3>3. QED
      BY <3>1, <3>2
  <2>4. QED
    BY <1>4, <2>2, <2>3, NotLastAlone
<1> DEFINE l == listing[p]
<1>10. ASSUME p \notin UdfPath, OneFile PROVE Whole(listing'[p], ino')
  <2>1. i \notin Segments /\ l = <<>>
    BY <1>3, <1>10 DEF OneFile
  <2>2. Len(listing'[p]) = 1 /\ listing'[p][1] = r
    BY <1>3, <1>7, <1>8, <1>10, <2>1, InsertShort
  <2>3. QED
    BY <1>3, <1>7, <2>1, <2>2 DEF Whole
<1>11. ASSUME p \notin UdfPath, NEW f \in BigFiles, NEW n \in 1..Len(f), InSegments(f, n)
       PROVE  Whole(listing'[p], ino') \/ (p \in Growing' /\ Single(listing'[p], ino', 1))
  <2>1. /\ i = f[n] /\ p \in SegmentPaths /\ call.segs = SubSeq(f, n + 1, Len(f))
        /\ \A x \in Elements(l) : ino[x] # f[n] /\ ino[x] \in Elements(f)
        /\ l # <<>> \/ n = 1
    BY <1>3, <1>11 DEF InSegments
  <2>2. Len(f) = 2 /\ Elements(f) = {f[1], f[2]} /\ n \in 1..2
    BY <1>11, SegmentsOfTwo
  <2>3. Whole(l, ino) \/ Single(l, ino, 1)
    BY <1>3, <1>4, <1>11, NotLastAlone DEF FirstAlone
  <2>4. CASE n = 1
    <3>1. \A x \in Elements(l) : ino[x] = f[2]
      BY <2>1, <2>2, <2>4
    <3>2. l = <<>>
      BY <1>3, <1>8, <2>3, <3>1, OneSegment
    <3>3. Len(listing'[p]) = 1 /\ listing'[p][1] = r
      BY <1>3, <1>7, <1>8, <1>11, <3>2, InsertShort
    <3>4. call.segs # <<>>
      BY <2>1, <2>2, <2>4, SegmentsLeft
    <3>5. p \in Growing'
      BY <1>4, <2>1, <3>4 DEF Growing
    <3>6. Single(listing'[p], ino', 1)
      BY <1>7, <2>1, <2>4, <3>3 DEF Single
    <3>7. QED
      BY <3>5, <3>6
  <2>5. CASE n = 2
    <3>1. \A x \in Elements(l) : ino[x] = f[1]
      BY <2>1, <2>2, <2>5
    <3>2. Len(l) = 1 /\ ino[l[1]] = f[1]
      BY <1>3, <1>8, <2>1, <2>3, <2>5, <3>1, OneSegment
    <3>3. Len(listing'[p]) = 2 /\ listing'[p][1] = l[1] /\ listing'[p][2] = r
      BY <1>3, <1>7, <1>8, <1>11, <3>2, InsertShort
    <3>4. ino'[l[1]] = ino[l[1]]
      BY <1>3, <1>6, <1>8, <3>2, ShortSeq
    <3>5. QED
      BY <1>7, <2>1, <2>5, <3>2, <3>3, <3>4 DEF Whole
  <2>6. QED
    BY <2>2, <2>4, <2>5
<1>12. ASSUME NEW q \in Path \ UdfPath
       PROVE  Whole(listing'[q], ino') \/ (q \in Growing' /\ Single(listing'[q], ino', 1))
  <2>1. CASE q = p
    BY <1>1, <1>10, <1>11, <1>12, <2>1 DEF InFile
  <2>2. CASE q # p
    BY <1>9, <2>2
  <2>3. QED
    BY <2>1, <2>2
<1>13. QED
  BY <1>4, <1>5, <1>12 DEF FilesInv, FirstAlone

-----------------------------------------------------------------------------
(* Removing. *)

\* The first of the two segments of a file goes on in the other one.
LEMMA GoesOn ==
  ASSUME TwoSegmentFiles, CarefulInv, NEW p \in Path \ UdfPath, Len(listing[p]) = 2,
         NEW f \in BigFiles, ino[listing[p][1]] = f[1], ino[listing[p][2]] = f[2],
         call.cur = listing[p][1]
  PROVE  cont[call.cur] = listing[p][2] /\ listing[p][2] # call.cur
<1> DEFINE a == listing[p][1]
           b == listing[p][2]
<1>1. /\ TypeInv /\ listing[p] \in Seq(Rec) /\ Entries \subseteq Rec
      /\ \A q \in Entries : home[q] \in Path
  BY EntriesType DEF CarefulInv, ListingInv, TypeInv, TypeOK
<1>2. a \in Rec /\ b \in Rec /\ b \in Elements(listing[p])
  BY <1>1, ShortSeq
<1>3. b \in Entries /\ home[b] = p
  BY <1>1, <1>2, ListedSomewhere
<1>4. b # a /\ f[2] \in LastSegments
  BY SegmentsOfTwo
<1>5. b \in Continuations
  BY <1>3, <1>4 DEF CarefulInv, ChainsExact, LastsChained
<1>6. PICK q \in Rec \ {b} : cont[q] = b
  BY <1>5 DEF Continuations
<1>7. q = a
  BY <1>2, <1>3, <1>6, NoneApart DEF CarefulInv, ChainsExact, Chains
<1>8. QED
  BY <1>4, <1>6, <1>7

LEMMA RemovesKeepsFiles ==
  ASSUME TwoSegmentFiles, CarefulInv, CarefulInv', FilesInv, Removes(call.cur), call.cur # None
  PROVE  FilesInv'
<1> DEFINE r == call.cur
           p == home[r]
           l == listing[p]
           t == listing'[p]
<1>1. /\ TypeInv /\ ListingInv' /\ Growing = {} /\ call'.cur = cont[r]
      /\ ListingInv /\ TreeExact
  BY RemovesCall, RemovalShape DEF CarefulInv, ListingInv
<1>2. /\ r \in Rec /\ r \in Entries /\ p \in Path /\ l \in Seq(Rec)
      /\ \A q \in Entries' : q \in Entries /\ q # r /\ home'[q] = home[q] /\ ino'[q] = ino[q]
      /\ Entries \subseteq Rec
  <2>1. /\ r \in Rec /\ r \in Entries /\ p \in Path /\ Entries \subseteq Rec
        /\ \A q \in Entries' : q \in Entries /\ q # r /\ home'[q] = home[q] /\ ino'[q] = ino[q]
    BY <1>1, RemovesLinks DEF Removes
  <2>2. QED
    BY <1>1, <2>1 DEF TypeInv, TypeOK
<1>3. Drops(p, r) /\ Entries' = Entries \ {r} /\ UNCHANGED boot /\ r = l[1]
  BY DEF Removes, FilesInv
<1>4. /\ \A q \in Path \ {p} : listing'[q] = listing[q]
      /\ t \in Seq(Rec) /\ Len(t) = Len(l) - 1 /\ Elements(t) = Elements(l) \ {r}
  BY <1>3 DEF Drops
<1>5. \A q \in Rec \ {r} : ino'[q] = ino[q] /\ home'[q] = home[q]
  BY DEF Removes
<1>6. ASSUME NEW q \in Path \ UdfPath, q # p PROVE Whole(listing'[q], ino')
  <2>1. r \notin Elements(listing[q]) /\ listing[q] \in Seq(Rec) /\ Elements(listing[q]) \subseteq Rec
    BY <1>1, <1>2, <1>6, ListedSomewhere, ElementsType DEF TypeInv, TypeOK
  <2>2. ~LastAlone(q)
    BY <2>1, ShortSeq DEF LastAlone, Single
  <2>3. Whole(listing[q], ino)
    BY <1>1, <1>6, <2>2 DEF FilesInv, FirstAlone
  <2>4. listing'[q] = listing[q] /\ \A x \in Elements(listing[q]) : ino[x] = ino'[x]
    BY <1>4, <1>5, <1>6, <2>1
  <2>5. QED
    BY <2>1, <2>3, <2>4, SameFiles
\* What follows a record in hand is alone.
<1>7. ASSUME p \notin UdfPath, Len(l) = 2
      PROVE  /\ Len(t) = 1 /\ t[1] = cont[r] /\ home'[t[1]] = p
             /\ Single(t, ino', 2)
  <2>1. ~LastAlone(p)
    BY <1>7 DEF LastAlone, Single
  <2>2. Whole(l, ino)
    BY <1>1, <1>2, <1>7, <2>1 DEF FilesInv, FirstAlone
  <2>3. PICK f \in BigFiles : ino[l[1]] = f[1] /\ ino[l[2]] = f[2]
    BY <1>7, <2>2, EmptySeq DEF Whole
  <2>4. cont[r] = l[2] /\ l[2] # r
    BY <1>2, <1>3, <1>7, <2>3, GoesOn
  <2>5. Elements(l) = {r, l[2]} /\ l[2] \in Rec
    BY <1>2, <1>3, <1>7, ShortSeq
  <2>6. Len(t) = 1 /\ Elements(t) = {l[2]}
    BY <1>4, <1>7, <2>4, <2>5
  <2>7. t[1] = l[2]
    BY <1>4, <2>6, ShortSeq
  <2>8. home[l[2]] = p
    BY <1>1, <1>2, <2>5, ListedSomewhere
  <2>9. ino'[l[2]] = f[2] /\ home'[l[2]] = p
    BY <1>5, <2>3, <2>4, <2>5, <2>8
  <2>10. QED
    BY <2>4, <2>6, <2>7, <2>9 DEF Single
<1>8. ASSUME p \notin UdfPath, Len(l) # 2 PROVE t = <<>> /\ Len(l) = 1
  <2>1. l # <<>>
    BY <1>3 DEF Drops, Elements
  <2>2. Len(l) = 1
    BY <1>1, <1>2, <1>8, <2>1 DEF FilesInv, Whole, FirstAlone, LastAlone, Single
  <2>3. Len(t) = 0
    BY <1>4, <2>2
  <2>4. QED
    BY <1>4, <2>2, <2>3, EmptySeq
<1>9. ASSUME cont[r] # None PROVE p \notin UdfPath /\ Len(l) = 2
  <2>1. cont[r] \in Entries /\ home[cont[r]] = p /\ p \notin UdfPath
    BY <1>2, <1>9 DEF CarefulInv, ChainsExact, Chains
  <2>2. cont[r] # r
    <3>1. r \notin Continuations
      BY DEF CarefulInv, InHand
    <3>2. call'.cur \in Entries'
      BY <1>1, <1>9 DEF CarefulInv, InHand
    <3>3. QED
      BY <1>1, <1>3, <3>2
  <2>3. cont[r] \in Elements(l)
    BY <1>1, <2>1, EntriesType
  <2>4. Len(l) # 1
    BY <1>2, <1>3, <2>2, <2>3, ShortSeq
  <2>5. QED
    BY <1>8, <2>1, <2>4
<1>10. ASSUME NEW q \in Path \ UdfPath
       PROVE  \/ Whole(listing'[q], ino')
              \/ call'.cur = listing'[q][1] /\ Single(listing'[q], ino', 2)
  <2>1. CASE q = p /\ Len(l) = 2
    BY <1>1, <1>7, <1>10, <2>1
  <2>2. CASE q = p /\ Len(l) # 2
    BY <1>8, <1>10, <2>2 DEF Whole
  <2>3. CASE q # p
    BY <1>6, <2>3
  <2>4. QED
    BY <2>1, <2>2, <2>3
<1>11. ASSUME call'.cur # None PROVE call'.cur = listing'[home'[call'.cur]][1]
  BY <1>1, <1>7, <1>9, <1>11
<1>12. QED
  BY <1>3, <1>10, <1>11 DEF FilesInv, LastAlone

-----------------------------------------------------------------------------
(* The inductive invariant. *)

LEMMA RequestKeepsFiles ==
  ASSUME Careful, TwoSegmentFiles, CarefulInv, CarefulInv', FilesInv, Request
  PROVE  FilesInv'
<1>1. Quiet
  BY RequestKeepsTree DEF tree, links, Quiet
<1>2. ASSUME call.op = "idle", Elements(boot'.entries) \cap Segments = {} PROVE FilesInv'
  <2>1. call.cur = None /\ Growing = {}
    BY <1>2, IdleExact DEF Idle
  <2>2. QED
    BY <1>1, <1>2, <2>1, QuietFiles
<1>3. ASSUME call.op = "idle", boot' = boot PROVE FilesInv'
  BY <1>2, <1>3 DEF FilesInv
<1>4. ASSUME NEW f \in Contents, NEW s \in Targets, AddFp(f, s) PROVE FilesInv'
  BY <1>3, <1>4 DEF AddFp, Start
<1>5. ASSUME NEW old \in Path, NEW new \in Path, AddHardLink(old, new) PROVE FilesInv'
  BY <1>3, <1>5 DEF AddHardLink, Start
<1>6. ASSUME NEW new \in Path, LinkBootCatalog(new) PROVE FilesInv'
  BY <1>3, <1>6 DEF LinkBootCatalog, Start
<1>7. ASSUME NEW old \in IsoPath, NEW s \in Targets, AddEltorito(old, s) PROVE FilesInv'
  <2> DEFINE i == ino[Lookup(old)]
  <2>1. call.op = "idle" /\ boot' = [on |-> TRUE, recs |-> <<>>, entries |-> <<i>>]
    BY <1>7 DEF AddEltorito, Start
  <2>2. i \notin Segments
    BY <1>7 DEF AddEltorito, MayLink, Careful
  <2> HIDE DEF i
  <2>3. Elements(boot'.entries) = {i}
    BY <2>1 DEF Elements
  <2>4. QED
    BY <1>2, <2>1, <2>2, <2>3
<1>8. ASSUME NEW old \in IsoPath, AddSection(old) PROVE FilesInv'
  <2> DEFINE i == ino[Lookup(old)]
  <2>1. /\ Exists(old) /\ i # None /\ call.op = "idle" /\ old \in Path
        /\ boot' = [boot EXCEPT !.entries = Append(@, i)]
    BY <1>8 DEF AddSection, Start, Path
  <2>2. i \notin Segments
    BY <1>8 DEF AddSection, MayLink, Careful
  <2>3. i \in Data /\ boot \in Catalog
    BY <2>1, LookupExact DEF CarefulInv, ListingInv, TypeInv, TypeOK
  <2> HIDE DEF i
  <2>4. boot'.entries = Append(boot.entries, i)
    BY <2>1, <2>3 DEF Catalog
  <2>5. Elements(boot'.entries) = Elements(boot.entries) \cup {i}
    BY <2>3, <2>4, AppendElements DEF Catalog
  <2>6. QED
    BY <1>2, <2>1, <2>2, <2>5 DEF FilesInv
<1>9. ASSUME NEW p \in Path, RmHardLink(p) \/ RmFile(p) PROVE FilesInv'
  BY <1>3, <1>9 DEF RmHardLink, RmFile, Start
<1>10. CASE RmEltorito
  BY <1>3, <1>10 DEF RmEltorito, Start
<1>11. QED
  BY <1>4, <1>5, <1>6, <1>7, <1>8, <1>9, <1>10 DEF Request

LEMMA AddingKeepsFiles ==
  ASSUME Careful, TwoSegmentFiles, CarefulInv, CarefulInv', FilesInv,
         Track \/ NextSegment \/ FinishAdd \/ Refuse
  PROVE  FilesInv'
<1>1. /\ call.op = "add" /\ Quiet /\ boot' = boot /\ TypeInv /\ PathsOnce(call.todo)
  BY DEF Track, NextSegment, FinishAdd, Refuse, Quiet, tree, links, CarefulInv, ListingInv,
     Adding, TodoShape
<1>2. call.cur = None
  BY <1>1 DEF CarefulInv, CallShape, Removing
<1>3. ASSUME call'.cur = None, \A p \in Path : p \in Growing => p \in Growing' PROVE FilesInv'
  BY <1>1, <1>2, <1>3, QuietFiles DEF FilesInv
<1>4. CASE Track
  <2>1. NextItemDone /\ Head(call.todo).path = None
    BY <1>1, <1>4, TrackCall
  <2>2. Pending = Pending' \cup {Head(call.todo)}
    BY <1>1, <2>1, ItemsLeft
  <2>3. \A p \in Path : p \in Growing => p \in Growing'
    BY <2>1, <2>2, NoneApart DEF Growing, NextItemDone, SegmentPaths
  <2>4. QED
    BY <1>2, <1>3, <2>1, <2>3 DEF NextItemDone
<1>5. CASE NextSegment
  <2>1. /\ call'.op = "add" /\ Pending = {} /\ call'.dirty = call.dirty /\ call'.cur = None
        /\ \A p \in SegmentPaths : \E m \in Pending' : m.path = p
    BY <1>1, <1>2, <1>5, NextSegmentCall, NextSegmentKeepsAdding
  <2>2. \A p \in Path : p \in Growing => p \in Growing'
    BY <1>1, <2>1 DEF Growing
  <2>3. QED
    BY <1>3, <2>1, <2>2
<1>6. CASE FinishAdd
  <2>1. call.todo = <<>> /\ call.segs = <<>> /\ call'.cur = None
    BY <1>6 DEF FinishAdd, Return, Idle
  <2>2. Growing = {}
    BY <2>1 DEF Growing, Pending, Elements
  <2>3. QED
    BY <1>3, <2>1, <2>2
<1>7. CASE Refuse
  <2>1. ~call.dirty /\ call'.cur = None
    BY <1>7 DEF Refuse, Raise, Idle, Careful
  <2>2. QED
    BY <1>3, <2>1 DEF Growing
<1>8. QED
  BY <1>4, <1>5, <1>6, <1>7

LEMMA RemovalKeepsFiles ==
  ASSUME TwoSegmentFiles, CarefulInv, CarefulInv', FilesInv,
         NextLink \/ NextCatalogRecord \/ FinishRemove \/ FinishRmEltorito
  PROVE  FilesInv'
<1>1. /\ call.op \in Removing /\ call.cur = None /\ Quiet /\ boot' \in {boot, NoCatalog}
  BY DEF NextLink, NextCatalogRecord, FinishRemove, FinishRmEltorito, Quiet, tree, links, Removing
<1>2. Growing = {}
  BY <1>1, RemovalShape DEF Removing
<1>3. Elements(boot'.entries) \cap Segments = {}
  <2>1. Elements(NoCatalog.entries) = {}
    BY DEF NoCatalog, Elements
  <2>2. QED
    BY <1>1, <2>1 DEF FilesInv
<1>4. QED
  BY <1>1, <1>2, <1>3, QuietFiles

LEMMA UnchangedKeepsFiles ==
  ASSUME FilesInv, UNCHANGED vars
  PROVE  FilesInv'
<1>1. UNCHANGED <<listing, home, ino, boot, call>> /\ Growing' = Growing
  BY DEF vars, Growing, Pending, SegmentPaths
<1>2. QED
  BY <1>1 DEF FilesInv, FirstAlone, LastAlone

LEMMA StepKeepsFiles ==
  ASSUME Careful, TwoSegmentFiles, CarefulInv, FilesInv, [Next]_vars
  PROVE  FilesInv'
<1>1. CarefulInv'
  BY StepKeepsCareful
<1>2. ListingInv'
  BY <1>1 DEF CarefulInv
<1>3. CASE Request
  BY <1>1, <1>3, RequestKeepsFiles
<1>4. ASSUME NEW r \in Rec, Link(r) PROVE FilesInv'
  BY <1>1, <1>4, LinkKeepsFiles
<1>5. CASE Track \/ NextSegment \/ FinishAdd \/ Refuse
  BY <1>1, <1>5, AddingKeepsFiles
<1>6. CASE RmDrLink \/ RmUdfLink
  <2>1. call.cur # None
    BY <1>6 DEF RmDrLink, RmUdfLink
  <2>2. Removes(call.cur)
    BY <1>2, <1>6, DrLinkRemoves, UdfLinkRemoves
  <2>3. QED
    BY <1>1, <2>1, <2>2, RemovesKeepsFiles
<1>7. CASE RmDrLinkFails
  BY <1>7, NoStaleIndex
<1>8. CASE NextLink \/ NextCatalogRecord \/ FinishRemove \/ FinishRmEltorito
  BY <1>1, <1>8, RemovalKeepsFiles
<1>9. CASE UNCHANGED vars
  BY <1>9, UnchangedKeepsFiles
<1>10. QED
  BY <1>3, <1>4, <1>5, <1>6, <1>7, <1>8, <1>9 DEF Next, Step

LEMMA InitFiles == Init => FilesInv
<1> SUFFICES ASSUME Init PROVE FilesInv
  OBVIOUS
<1>1. boot = NoCatalog /\ call.cur = None /\ \A p \in Path : listing[p] = <<>>
  BY DEF Init, Idle
<1>2. Elements(boot.entries) = {}
  BY <1>1 DEF NoCatalog, Elements
<1>3. QED
  BY <1>1, <1>2 DEF FilesInv, Whole

-----------------------------------------------------------------------------
(* The theorems. *)

\* The two segments of a file stay in order under every name, and both or
\* neither are there, except while one call adds or removes them.
THEOREM FilesStayWhole ==
  ASSUME Careful, TwoSegmentFiles
  PROVE  Spec => []FilesInv
<1>1. Init => FilesInv
  BY InitFiles
<1>2. CarefulInv /\ FilesInv /\ [Next]_vars => FilesInv'
  BY StepKeepsFiles
<1>3. QED
  BY <1>1, <1>2, CarefulClient, PTL DEF Spec

\* Between calls every listing is that of one file.
LEMMA WholeWhenIdle ==
  ASSUME CarefulInv, FilesInv, call.op = "idle", NEW p \in Path \ UdfPath
  PROVE  Whole(listing[p], ino) /\ listing[p] \in Seq(Rec)
<1>1. call.cur = None /\ Growing = {}
  BY IdleExact DEF Idle
<1>2. QED
  BY <1>1, NotLastAlone DEF FirstAlone, CarefulInv, ListingInv, TypeInv, TypeOK

\* Between calls the records under one ISO9660 or Joliet name are the segments
\* of one file, all of them and in order, or one catalog record.
THEOREM NamesAlwaysFiles ==
  ASSUME Careful, TwoSegmentFiles
  PROVE  Spec => []NamesAreFiles
<1>1. ASSUME CarefulInv, FilesInv, call.op = "idle", NEW p \in Path \ UdfPath
      PROVE  [k \in 1..Len(listing[p]) |-> ino[listing[p][k]]] \in Contents \cup {<<>>, <<None>>}
  <2> DEFINE l == listing[p]
             s == [k \in 1..Len(l) |-> ino[l[k]]]
  <2>1. Whole(l, ino) /\ l \in Seq(Rec)
    BY <1>1, WholeWhenIdle
  <2> HIDE DEF l
  <2>2. CASE l = <<>>
    <3>1. s = <<>>
      BY <2>2
    <3>2. QED
      BY <3>1 DEF l
  <2>3. CASE Len(l) = 1 /\ ino[l[1]] \in (Data \ Segments) \cup {None}
    <3>1. s = <<ino[l[1]]>>
      BY <2>3
    <3>2. QED
      BY <2>3, <3>1 DEF l, Contents
  <2>4. ASSUME Len(l) = 2, NEW f \in BigFiles, ino[l[1]] = f[1], ino[l[2]] = f[2]
        PROVE  s \in BigFiles
    <3>1. f \in Seq(Data) /\ Len(f) = 2
      BY SegmentsOfTwo, SegmentsType
    <3>2. f = [k \in 1..2 |-> f[k]]
      BY <3>1
    <3>3. \A k \in 1..2 : ino[l[k]] = f[k]
      BY <2>4
    <3>4. s = f
      BY <2>4, <3>2, <3>3
    <3>5. QED
      BY <3>4
  <2>5. QED
    BY <2>1, <2>2, <2>3, <2>4 DEF Whole, Contents, l
<1>2. CarefulInv /\ FilesInv => NamesAreFiles
  BY <1>1 DEF NamesAreFiles
<1>3. QED
  BY <1>2, CarefulClient, FilesStayWhole, PTL

\* Between calls both segments of a file are on the image or neither is.
THEOREM WholeFilesStored ==
  ASSUME Careful, TwoSegmentFiles
  PROVE  Spec => []WholeFiles
<1>1. ASSUME CarefulInv, FilesInv, call.op = "idle", NEW f \in BigFiles
      PROVE  Elements(f) \subseteq inodes \/ Elements(f) \cap inodes = {}
  <2>1. /\ TypeInv /\ LinksExact /\ NamedData = inodes /\ UdfPath = {}
        /\ Elements(boot.entries) \cap Segments = {}
    BY <1>1, IdleExact DEF CarefulInv, ListingInv, TreeExact, Careful, FilesInv
  <2>2. \A i \in Segments : i \in inodes <=> linked[i] # {}
    BY <2>1, SegmentsType DEF NamedData
  <2>3. \A i \in Segments : i \in inodes <=> \E r \in Entries : ino[r] = i
    BY <2>1, <2>2, SegmentsType DEF LinksExact
  <2>4. Elements(f) = {f[1], f[2]} /\ f[1] \in Segments /\ f[2] \in Segments
    BY SegmentsOfTwo
  <2>5. ASSUME NEW r \in Entries, ino[r] \in Elements(f)
        PROVE  \A i \in Elements(f) : \E x \in Entries : ino[x] = i
    <3> DEFINE l == listing[home[r]]
    <3>1. r \in Rec /\ home[r] \in Path \ UdfPath /\ r \in Elements(l)
      BY <2>1, EntriesType
    <3>2. Whole(l, ino) /\ l \in Seq(Rec)
      BY <1>1, <3>1, WholeWhenIdle
    <3>3. \A x \in Elements(l) : x \in Entries
      BY <2>1, <3>1, <3>2, ListedSomewhere, ElementsType
    <3> HIDE DEF l
    <3>4. l # <<>>
      BY <3>1 DEF Elements
    <3>5. ASSUME Len(l) = 1, ino[l[1]] \in (Data \ Segments) \cup {None} PROVE FALSE
      BY <2>4, <2>5, <3>1, <3>2, <3>5, ShortSeq, SegmentsType, NoneApart
    <3>6. PICK g \in BigFiles : Len(l) = 2 /\ ino[l[1]] = g[1] /\ ino[l[2]] = g[2]
      BY <3>2, <3>4, <3>5 DEF Whole
    <3>7. l[1] \in Entries /\ l[2] \in Entries /\ (r = l[1] \/ r = l[2])
      BY <3>1, <3>2, <3>3, <3>6, ShortSeq
    <3>8. ino[r] \in Elements(g)
      BY <3>6, <3>7, SegmentsOfTwo
    <3>9. f = g
      BY <2>5, <3>8, SegmentIndex DEF Elements
    <3>10. QED
      BY <2>4, <3>6, <3>7, <3>9
  <2>6. QED
    BY <2>3, <2>4, <2>5
<1>2. CarefulInv /\ FilesInv => WholeFiles
  BY <1>1 DEF WholeFiles
<1>3. QED
  BY <1>2, CarefulClient, FilesStayWhole, PTL

=============================================================================
