--------------------------- MODULE RelocatedDirs ---------------------------
(***************************************************************************)
(* The directories of the ISO9660 tree of a Rock Ridge image: add_directory *)
(* and rm_directory with the relocation of deep directories, the path      *)
(* tables, and what both charge to the volume.                             *)
(*                                                                         *)
(* A directory at every Levels-th level is made below RR_MOVED in the root *)
(* (the "relocated" record) and a file with a CL entry stands in its place *)
(* (the "child link").  A lookup follows the link.                         *)
(*                                                                         *)
(* Abstractions: a directory takes one block (DirRecord has their lengths) *)
(* and one unit of a path table; the client leaves RR_MOVED itself alone;  *)
(* files are HardLinks'.                                                   *)
(***************************************************************************)
EXTENDS Integers, SequencesExt, FiniteSetsExt, Functions

CONSTANTS
  Name,      \* the names a client gives directories
  RrMoved,   \* the name RR_MOVED
  None,
  Levels,    \* 8 in the code
  TableFit,  \* how many directories a path table of 4096 bytes has room for
  MaxDepth,  \* bound on the length of a path
  MaxRecs,   \* bound on the number of DirectoryRecord objects
  MaxPvds,   \* bound on the number of primary volume descriptors
  Faults     \* the circumstances below that a configuration allows

Circumstances == {
  "stale_rr_moved",  \* a deep directory when the cached RR_MOVED is not RR_MOVED
  "duplicate_pvd" }  \* a second primary volume descriptor

ASSUME RelocatedDirsAssumption ==
  /\ RrMoved \notin Name
  /\ Levels \in Nat \ {0, 1} /\ TableFit \in Nat \ {0}
  /\ MaxDepth \in Nat /\ MaxRecs \in Nat /\ MaxPvds \in Nat \ {0}
  /\ Faults \subseteq Circumstances

VARIABLES
  obj,      \* the DirectoryRecord objects
  rrMoved,  \* the cached _rr_moved_record, or None
  pvds,     \* per volume descriptor: path_tbl_size, path_table_num_extents / 2
  space,    \* the blocks charged for directories, path tables and descriptors
  raised    \* the exception that ended the last operation, or "none"

vars == <<obj, rrMoved, pvds, space, raised>>

Path == UNION {[1..n -> Name] : n \in 1..MaxDepth}

-----------------------------------------------------------------------------
(* Records and lookups *)

\* An object is called after what add_directory makes it for: the directory or
\* the child link of a path, or RR_MOVED.
Root == <<"dir", <<>>>>
RrMovedRec == <<"rr_moved", <<>>>>
DirRec(p) == <<"dir", p>>
LinkRec(p) == <<"link", p>>
Rec == {Root, RrMovedRec} \cup {DirRec(p) : p \in Path} \cup {LinkRec(p) : p \in Path}

Ident == (Name \cup {RrMoved}) \X Nat  \* a name and the number put after it, 0 for none

ASSUME NoneAssumption == None \notin Rec /\ None \notin Ident

\* kids is the list children without "." and "..", target is cl_to_moved_dr of
\* a child link and link is moved_to_cl_dr of a relocated record.
Directory(d, id) == [kids |-> {}, parent |-> d, ident |-> id, target |-> None, link |-> None]
ChildLink(d, id, r) == [Directory(d, id) EXCEPT !.target = r]
Relocated_one_way(d, id, c) == Directory(d, id)
Relocated(d, id, c) == [Directory(d, id) EXCEPT !.link = c]

IsLink(o, r) == o[r].target # None
IsRelocated(o, r) == o[r].link # None

\* What is reached from R in n steps, each to the objects that to gives; no
\* object is further away than there are objects.
Steps(R, to, k) ==
  LET step[n \in 0..k] ==
        IF n = 0 THEN R ELSE UNION {{r} \cup to[r] : r \in step[n - 1]}
  IN  step
Reached(R, to) == LET k == Cardinality(DOMAIN to) IN Steps(R, to, k)[k]

\* The records of the image, the links included.
InTree(o) == Reached({Root}, [r \in DOMAIN o |-> o[r].kids])

\* Objects that nothing refers to are gone.
Refers(o) ==
  [r \in DOMAIN o |-> o[r].kids \cup ({o[r].parent, o[r].target, o[r].link} \ {None})]
Collect(o, m) == Restrict(o, Reached({Root} \cup ({m} \ {None}), Refers(o)))

\* d gets the new child c, which is the object r.
Insert(o, d, c, r) ==
  [x \in DOMAIN o \cup {c} |->
     IF x = c THEN r ELSE IF x = d THEN [o[d] EXCEPT !.kids = @ \cup {c}] ELSE o[x]]

\* There is room for new objects rs.
Unused(rs) ==
  /\ rs \cap DOMAIN obj = {}
  /\ Cardinality(DOMAIN obj) + Cardinality(rs) <= MaxRecs

Named(o, d, id) == {c \in o[d].kids : o[c].ident = id}

\* The directory that the name x leads to from d, or None.
Below(o, d, x) ==
  LET cs == IF d = None THEN {} ELSE Named(o, d, <<x, 0>>)
  IN  IF cs = {} THEN None
      ELSE LET c == CHOOSE c \in cs : TRUE IN IF IsLink(o, c) THEN o[c].target ELSE c

\* _find_dr_record_by_name: the record a path leads to, or None.
Walk(o, p) ==
  LET at[n \in 0..Len(p)] == IF n = 0 THEN Root ELSE Below(o, at[n - 1], p[n]) IN at
Find(o, p) == Walk(o, p)[Len(p)]

\* The name of a relocated directory: the first that is not taken below d.
FreeIdent_plain(o, d, x) == <<x, 0>>
FreeIdent(o, d, x) ==
  <<x, Min({k \in 0..Cardinality(o[d].kids) : Named(o, d, <<x, k>>) = {}})>>

-----------------------------------------------------------------------------
(* Path tables *)

TablesFor(size) == (size + TableFit - 1) \div TableFit

\* add_to_ptr_size of one descriptor, and what _add_to_ptr_size charges for all.
Grown(vd) ==
  [size   |-> vd.size + 1,
   tables |-> IF TablesFor(vd.size + 1) > vd.tables THEN vd.tables + 1 ELSE vd.tables]
GrowAll(vds) == [i \in DOMAIN vds |-> Grown(vds[i])]

\* remove_from_ptr_size, which raises when it finds fewer tables than it needs.
Stuck(vd) == TablesFor(vd.size - 1) > vd.tables
Shrunk_twice(vd) ==
  [size   |-> vd.size - 2,
   tables |-> IF TablesFor(vd.size - 2) < vd.tables THEN vd.tables - 1 ELSE vd.tables]
Shrunk(vd) ==
  [size   |-> vd.size - 1,
   tables |-> IF TablesFor(vd.size - 1) < vd.tables THEN vd.tables - 1 ELSE vd.tables]
ShrinkAll(vds) == [i \in DOMAIN vds |-> Shrunk(vds[i])]

\* The blocks two states of the descriptors differ by: two tables, two blocks each.
TableBlocks_one_order(vds) ==
  LET sum[i \in 0..Len(vds)] == IF i = 0 THEN 0 ELSE sum[i - 1] + 2 * vds[i].tables
  IN  sum[Len(vds)]
TableBlocks(vds) ==
  LET sum[i \in 0..Len(vds)] == IF i = 0 THEN 0 ELSE sum[i - 1] + 4 * vds[i].tables
  IN  sum[Len(vds)]
Charge(old, new) == TableBlocks(new) - TableBlocks(old)

-----------------------------------------------------------------------------
(* The operations *)

Init ==
  /\ obj = [r \in {Root} |-> Directory(None, None)]
  /\ rrMoved = None
  /\ pvds = <<[size |-> 1, tables |-> 1]>>
  /\ space = 5  \* the root directory and its path tables
  /\ raised = "none"

\* The client's part: a new name below a directory that exists.
Addable(p) ==
  /\ Find(obj, Front(p)) # None
  /\ Named(obj, Find(obj, Front(p)), <<Last(p), 0>>) = {}

\* add_directory at a level that ISO9660 has.
AddDirectory(p) ==
  LET d == Find(obj, Front(p))
  IN  /\ Len(p) % Levels # 0
      /\ Addable(p) /\ Unused({DirRec(p)})
      /\ obj' = Insert(obj, d, DirRec(p), Directory(d, <<Last(p), 0>>))
      /\ pvds' = GrowAll(pvds)
      /\ space' = space + 1 + Charge(pvds, pvds')
      /\ raised' = "none"
      /\ UNCHANGED rrMoved

IsRrMoved(r) == r \in obj[Root].kids /\ obj[r].ident = <<RrMoved, 0>>

\* _find_or_create_rr_moved
WithRrMoved ==
  IF rrMoved = None
  THEN Insert(obj, Root, RrMovedRec, Directory(Root, <<RrMoved, 0>>))
  ELSE obj

\* add_directory one level deeper: RR_MOVED if there is none, a child link in the
\* place of the directory and the directory itself below RR_MOVED.
AddRelocated(p) ==
  LET d == Find(obj, Front(p))
      m == IF rrMoved = None THEN RrMovedRec ELSE rrMoved
      linked == Insert(WithRrMoved, d, LinkRec(p), ChildLink(d, <<Last(p), 0>>, DirRec(p)))
      id == FreeIdent(linked, m, Last(p))
      new == {DirRec(p), LinkRec(p)} \cup (IF rrMoved = None THEN {RrMovedRec} ELSE {})
  IN  /\ Len(p) % Levels = 0
      /\ Addable(p) /\ Unused(new)
      /\ rrMoved = None \/ IsRrMoved(rrMoved) \/ "stale_rr_moved" \in Faults
      /\ obj' = Insert(linked, m, DirRec(p), Relocated(m, id, LinkRec(p)))
      /\ rrMoved' = m
      /\ pvds' = IF rrMoved = None THEN GrowAll(GrowAll(pvds)) ELSE GrowAll(pvds)
      /\ space' = space + Cardinality(new) - 1 + Charge(pvds, pvds')
      /\ raised' = "none"

\* rm_directory of an empty directory up to the charge for its path table entry.
Unlisted(r) == [obj EXCEPT ![obj[r].parent].kids = @ \ {r}]

\* A directory that is listed where it says it is: after a stale RR_MOVED there
\* are others, which are removed by an index that means nothing.
Removable_unchecked(p) ==
  LET r == Find(obj, p)
  IN  r # None /\ r \in obj[obj[r].parent].kids
Removable(p) ==
  LET r == Find(obj, p)
  IN  r # None /\ obj[r].kids = {} /\ r \in obj[obj[r].parent].kids

\* The descriptors are changed one by one, up to the one that raises.
RmDirectoryRaises(p) ==
  \E i \in DOMAIN pvds :
    /\ Removable(p)
    /\ Stuck(pvds[i]) /\ \A j \in 1..(i - 1) : ~Stuck(pvds[j])
    /\ obj' = Collect(Unlisted(Find(obj, p)), rrMoved)
    /\ pvds' = [j \in DOMAIN pvds |->
                  IF j < i THEN Shrunk(pvds[j])
                  ELSE IF j = i THEN [pvds[j] EXCEPT !.size = @ - 1] ELSE pvds[j]]
    /\ raised' = "never"
    /\ UNCHANGED <<rrMoved, space>>

RmDirectory(p) ==
  LET r == Find(obj, p)
  IN  /\ Removable(p) /\ ~IsRelocated(obj, r)
      /\ \A i \in DOMAIN pvds : ~Stuck(pvds[i])
      /\ obj' = Collect(Unlisted(r), rrMoved)
      /\ pvds' = ShrinkAll(pvds)
      /\ space' = space - 1 + Charge(pvds, pvds')
      /\ raised' = "none"
      /\ UNCHANGED rrMoved

Emptied_never(o, m) == FALSE
Emptied(o, m) == o[m].kids = {}

WithoutLink_forgotten(o, c) == o
WithoutLink(o, c) == [o EXCEPT ![o[c].parent].kids = @ \ {c}]

\* A relocated directory goes with its child link, and RR_MOVED with the last
\* of them; the cached record of RR_MOVED stays.
RmRelocated(p) ==
  LET r == Find(obj, p)
      m == obj[r].parent
      c == obj[r].link
      o == Unlisted(r)
      empty == Emptied(o, m)
      home == Named(o, o[m].parent, o[m].ident)
  IN  /\ Removable(p) /\ IsRelocated(obj, r)
      /\ \A i \in DOMAIN pvds : ~Stuck(pvds[i])
      /\ empty => home # {}
      /\ obj' = LET o2 == IF empty THEN [o EXCEPT ![o[m].parent].kids = @ \ home] ELSE o
                IN  Collect(WithoutLink(o2, c), rrMoved)
      /\ pvds' = IF empty THEN ShrinkAll(ShrinkAll(pvds)) ELSE ShrinkAll(pvds)
      /\ space' = space - (IF empty THEN 2 ELSE 1) + Charge(pvds, pvds')
      /\ raised' = "none"
      /\ UNCHANGED rrMoved

\* A detached RR_MOVED is not found in the root: what was done so far stays.
RmRelocatedRaises(p) ==
  LET r == Find(obj, p)
      m == obj[r].parent
      o == Unlisted(r)
  IN  /\ Removable(p) /\ IsRelocated(obj, r)
      /\ \A i \in DOMAIN pvds : ~Stuck(pvds[i])
      /\ Emptied(o, m) /\ Named(o, o[m].parent, o[m].ident) = {}
      /\ obj' = Collect(o, rrMoved)
      /\ pvds' = ShrinkAll(pvds)
      /\ raised' = "lost"
      /\ UNCHANGED <<rrMoved, space>>

\* PrimaryOrSupplementaryVD.copy leaves path_table_num_extents at 0.
DuplicatePvd ==
  /\ "duplicate_pvd" \in Faults
  /\ Len(pvds) < MaxPvds
  /\ pvds' = Append(pvds, [size |-> pvds[1].size, tables |-> 0])
  /\ space' = space + 1
  /\ raised' = "none"
  /\ UNCHANGED <<obj, rrMoved>>

\* What the layout needs of space: every directory once, the path tables of
\* the first descriptor, and the descriptors that were added.
Directories == {r \in InTree(obj) : ~IsLink(obj, r)}
Needed == Cardinality(Directories) + 4 * pvds[1].tables + Len(pvds) - 1

\* Writing the image and opening it: the walk takes the last relocated record
\* it meets for RR_MOVED.
Reopen ==
  LET relocated == {r \in InTree(obj) : IsRelocated(obj, r)}
  IN  /\ \A c \in InTree(obj) : IsLink(obj, c) => obj[c].target \in InTree(obj)
      /\ Needed <= space
      /\ rrMoved' \in IF relocated = {} THEN {None} ELSE relocated
      /\ obj' = Collect(obj, rrMoved')
      /\ pvds' = [i \in DOMAIN pvds |-> pvds[1]]
      /\ raised' = "none"
      /\ UNCHANGED space

Next ==
  \/ \E p \in Path :
       \/ AddDirectory(p) \/ AddRelocated(p)
       \/ RmDirectory(p) \/ RmDirectoryRaises(p)
       \/ RmRelocated(p) \/ RmRelocatedRaises(p)
  \/ DuplicatePvd
  \/ Reopen

Spec == Init /\ [][Next]_vars

-----------------------------------------------------------------------------
(* Properties *)

\* Everything has its type, and whatever an object refers to exists.
TypeOK ==
  /\ Root \in DOMAIN obj /\ DOMAIN obj \subseteq Rec
  /\ \A r \in DOMAIN obj :
       obj[r] \in [kids : SUBSET (DOMAIN obj \ {Root}), parent : DOMAIN obj \cup {None},
                  ident : Ident \cup {None}, target : DOMAIN obj \cup {None},
                  link : DOMAIN obj \cup {None}]
  /\ rrMoved \in DOMAIN obj \cup {None}
  /\ \A i \in DOMAIN pvds : pvds[i] \in [size : Nat, tables : Nat]
  /\ Len(pvds) \in 1..MaxPvds
  /\ space \in Nat
  /\ raised \in {"none", "never", "lost"}

\* A child link and its relocated directory know each other as long as one of
\* them is there, also in a tree that an operation left half-changed
\* (pycdlib.py:4790, 1184 and 4967).
LinksMutual ==
  \A r \in DOMAIN obj :
    /\ IsLink(obj, r) => obj[obj[r].target].link = r /\ obj[r].kids = {}
    /\ IsRelocated(obj, r) => obj[obj[r].link].target = r

\* Both are in the image or neither is: what is written opens again
\* (pycdlib.py:1182-1186; removed together, 4967-4982).
LinksResolve ==
  \A r \in InTree(obj) :
    /\ IsLink(obj, r) => obj[r].target \in InTree(obj)
    /\ IsRelocated(obj, r) => obj[r].link \in InTree(obj)

\* Relocated directories are below RR_MOVED, nothing else is, and RR_MOVED is
\* there only while it is used ("we are moving the entry underneath the RR_MOVED
\* directory", pycdlib.py:4766).
BelowRrMoved ==
  /\ \A r \in InTree(obj) : IsRelocated(obj, r) <=>
       \E m \in obj[Root].kids : obj[m].ident = <<RrMoved, 0>> /\ r \in obj[m].kids
  /\ \A m \in Named(obj, Root, <<RrMoved, 0>>) : obj[m].kids # {}

\* No directory lists two records of one identifier, the renamed ones below
\* RR_MOVED included (pycdlib.py:4765-4779).
NamesApart ==
  \A d \in InTree(obj) : \A c, e \in obj[d].kids :
    obj[c].ident = obj[e].ident => c = e

\* The path tables have an entry for each directory, child links have none, the
\* descriptors have exactly the tables that hold the entries (headervd.py:640
\* and 671), and what was charged, RR_MOVED and the tables included, is what the
\* layout needs, after any additions and removals in any order.
SpaceExact ==
  /\ \A i \in DOMAIN pvds :
       /\ pvds[i].size = Cardinality(Directories)
       /\ pvds[i].tables = TablesFor(pvds[i].size)
  /\ space = Needed

\* The test in remove_from_ptr_size: "This should never happen."
\* (headervd.py:668).
NoInternalError == raised # "never"

\* A client sees the directories it made and no others, wherever they are.
DirTree == INSTANCE DirTree WITH dirs <- {p \in Path : Find(obj, p) # None}
DirTreeSpec == DirTree!Spec
=============================================================================
