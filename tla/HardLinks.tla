----------------------------- MODULE HardLinks -----------------------------
(***************************************************************************)
(* The link bookkeeping of class PyCdlib: which directory records and UDF  *)
(* file entries name which piece of data, when the data itself is on the   *)
(* image, and what each operation charges to the size of the image.        *)
(*                                                                         *)
(* A piece of data is an Inode.  It is named by DirectoryRecord objects    *)
(* (ISO9660 and Joliet paths) and UDFFileEntry objects (UDF paths), and by *)
(* the entries of the El Torito boot catalog.  Every public operation is a *)
(* call that runs as a sequence of steps, one per internal helper, because *)
(* a helper that raises leaves behind what the earlier ones have done.     *)
(*                                                                         *)
(* Abstractions: one directory per file system; a path is a model value;   *)
(* sizes are counted per inode ("was the data of i charged?"), as all the  *)
(* data of one inode is charged and refunded as a whole.                   *)
(***************************************************************************)
EXTENDS Integers, Sequences, FiniteSets

CONSTANTS
  Data,        \* the inodes
  Rec,         \* DirectoryRecord and UDFFileEntry objects
  IsoPath, JolietPath, UdfPath,
  BigFiles,    \* content longer than one directory record can describe:
               \* the sequences of its segments' inodes
  MaxEntries,  \* bound on El Torito entries (32 in the code)
  Faults,      \* the circumstances below that a configuration allows
  None         \* Python's None

(***************************************************************************)
(* Uses of the interface the code accepts but does not handle.  A          *)
(* configuration with Faults = {} is a client that avoids them all.        *)
(***************************************************************************)
Circumstances == {
  "partial_add",     \* add_fp or add_eltorito raises after its first link
  "duplicate",       \* a file is added under a name that is already taken
  "hide_catalog",    \* rm_hard_link of a boot catalog record
  "link_catalog",    \* add_hard_link whose old path is a boot catalog record
  "link_big_file",   \* add_hard_link or add_eltorito of a path with several segments
  "rm_hidden_boot" } \* rm_eltorito when a boot file has no path left

Path == IsoPath \cup JolietPath \cup UdfPath
Trees == {IsoPath, JolietPath}
HasUdf == UdfPath # {}

ASSUME HardLinksAssumption ==
  /\ IsoPath \cap JolietPath = {}
  /\ UdfPath \cap (IsoPath \cup JolietPath) = {}
  /\ None \notin Data \cup Rec \cup Path
  /\ IsFiniteSet(Rec)
  /\ BigFiles \subseteq Seq(Data) /\ \A f \in BigFiles : Len(f) > 1
  \* _add_fp makes a new Inode for every segment of every file.
  /\ \A f \in BigFiles : \A j, k \in 1..Len(f) : f[j] = f[k] => j = k
  /\ \A f, g \in BigFiles : \A j \in 1..Len(f), k \in 1..Len(g) : f[j] = g[k] => f = g
  /\ MaxEntries \in Nat
  /\ Faults \subseteq Circumstances

VARIABLES
  listing,   \* Path -> the records listed under that name, in directory order
  home,      \* Rec  -> the path it was created for; None: not in use
  ino,       \* Rec  -> rec.inode
  cont,      \* Rec  -> rec.data_continuation
  linked,    \* Data -> the records of inode.linked_records
  inodes,    \* self.inodes
  numUdf,    \* Data -> inode.num_udf
  numFiles,  \* logical_volume_impl_use.num_files
  boot,      \* self.eltorito_boot_catalog: [on, recs, entries]
  brs,       \* number of El Torito boot records in self.brs
  space,     \* what was charged to the volume: a ledger
  call,      \* the operation in progress
  raised     \* the exception the last operation ended with, or "none"

vars == <<listing, home, ino, cont, linked, inodes, numUdf, numFiles, boot,
          brs, space, call, raised>>
tree == <<listing, home, cont, numFiles>>
links == <<ino, linked, inodes, numUdf>>

-----------------------------------------------------------------------------
Ledger == [data : [Data -> Int], fe : [Data -> Int], misc : Int]
NoCharge == [data |-> [i \in Data |-> 0], fe |-> [i \in Data |-> 0], misc |-> 0]
Merge(a, b) == [data |-> [i \in Data |-> a.data[i] + b.data[i]],
                fe   |-> [i \in Data |-> a.fe[i] + b.fe[i]],
                misc |-> a.misc + b.misc]

\* The fields of a call.  Adding: todo, the items left to do for this segment;
\* segs, the segments left; paths, where it goes; new, the inodes it creates;
\* cat, whether it adds records of the boot catalog; dirty, whether it has
\* changed anything yet.  Removing: ino, the inode whose links go; cur, the
\* record in hand; queue, the records left.  acc is what it has to charge.
NoPaths == <<None, None, None>>
Idle == [op |-> "idle", todo |-> <<>>, segs |-> <<>>, paths |-> NoPaths,
         new |-> {}, cat |-> FALSE, dirty |-> FALSE,
         ino |-> None, cur |-> None, queue |-> <<>>, acc |-> NoCharge]
NoCatalog == [on |-> FALSE, recs |-> <<>>, entries |-> <<>>]

Elements(s) == {s[k] : k \in 1..Len(s)}
Listed(r) == home[r] # None /\ r \in Elements(listing[home[r]])
\* Something other than a listing still refers to the object r.
Chained(r) == \E q \in Rec \ {r} : cont[q] = r
Held(r) == r \in Elements(boot.recs) \/ Chained(r)
InUse(r) == \/ Listed(r) \/ Held(r) \/ call.cur = r
            \/ \E i \in Data : r \in linked[i]
Booted(i) == i \in Elements(boot.entries)
Lookup_last(p) == listing[p][Len(listing[p])]
\* The record a path lookup returns: the leftmost one of that name.
Lookup(p) == Head(listing[p])
Exists(p) == listing[p] # <<>>
LastLink_unbooted(i, r) == linked[i] \ {r} = {}
\* inode.linked_records would be empty without record r.
LastLink(i, r) == linked[i] \ {r} = {} /\ ~Booted(i)

(***************************************************************************)
(* A raise ends the call: what it has charged so far is lost, what it has  *)
(* changed so far stays.  FinishAdd and FinishRemove are the normal ends.  *)
(***************************************************************************)
Raise(kind) == call' = Idle /\ raised' = kind /\ UNCHANGED space
Return == call' = Idle /\ raised' = "none" /\ space' = Merge(space, call.acc)

Init ==
  /\ listing = [p \in Path |-> <<>>]
  /\ home = [r \in Rec |-> None]
  /\ ino = [r \in Rec |-> None]
  /\ cont = [r \in Rec |-> None]
  /\ linked = [i \in Data |-> {}]
  /\ inodes = {}
  /\ numUdf = [i \in Data |-> 0]
  /\ numFiles = 0
  /\ boot = NoCatalog
  /\ brs = 0
  /\ space = NoCharge
  /\ call = Idle
  /\ raised = "none"

-----------------------------------------------------------------------------
(* Adding. *)

Start(c) == call.op = "idle" /\ call' = c /\ raised' = "none" /\ UNCHANGED space

\* One new path per file system at most, in the order the code links them.
PathTriple == (IsoPath \cup {None}) \X (JolietPath \cup {None}) \X (UdfPath \cup {None})
Targets == PathTriple \ {NoPaths}
Segments == UNION {Elements(f) : f \in BigFiles}
Contents == {<<i>> : i \in Data \ Segments} \cup BigFiles
Given(p) == IF p = None THEN <<>> ELSE <<p>>
Names(s) == Given(s[1]) \o Given(s[2]) \o Given(s[3])
\* The client gives names that are free, and there are objects left (a bound).
MayName(ps, times) ==
  /\ \A p \in Elements(ps) : Exists(p) => "duplicate" \in Faults
  /\ Cardinality({r \in Rec : ~InUse(r)}) >= times * Len(ps)
\* Linking to a segment links to nothing else of its file.
MayLink(i) == i \in Segments => "link_big_file" \in Faults
Unused(i) == i \notin inodes /\ linked[i] = {} /\ ~Booted(i) /\ \A r \in Rec : ino[r] # i
\* An item: link a path to an inode (None for a record of the boot catalog),
\* or, with path None, append the inode to self.inodes.
Item == {m \in [path : Path \cup {None}, ino : Data \cup {None}] :
           m.path # None \/ m.ino # None}
Items(ps, i) == [k \in 1..Len(ps) |-> [path |-> ps[k], ino |-> i]]

Work_untracked(f, s) ==
  Items(Given(s[1]) \o Given(s[2]) \o (IF Len(f) = 1 THEN Given(s[3]) ELSE <<>>), Head(f))
\* The loop body of _add_fp for the first of the segments f: its ISO9660 and
\* Joliet links, then the append to self.inodes; after the last segment the
\* UDF link, to that segment's inode.
Work(f, s) ==
  Items(Given(s[1]) \o Given(s[2]) \o <<None>> \o (IF Len(f) = 1 THEN Given(s[3]) ELSE <<>>),
        Head(f))

\* add_fp of new content with segments f under the paths of s.
AddFp(f, s) ==
  /\ \A k \in 1..Len(f) : Unused(f[k])
  /\ MayName(Names(s), Len(f))
  /\ Start([Idle EXCEPT !.op = "add", !.new = Elements(f), !.paths = s,
              !.todo = Work(f, s), !.segs = Tail(f),
              !.acc.data = [i \in Data |-> IF i \in Elements(f) THEN 1 ELSE 0]])
  /\ UNCHANGED <<tree, links, boot, brs>>

AddHardLink_record(old, new) ==
  /\ Exists(old)
  /\ MayName(<<new>>, 1)
  /\ Start([Idle EXCEPT !.op = "add", !.todo = Items(<<new>>, Lookup(old))])
  /\ UNCHANGED <<tree, links, boot, brs>>
\* add_hard_link from an existing path; the record's inode may be None.
AddHardLink(old, new) ==
  /\ Exists(old)
  /\ ino[Lookup(old)] = None => "link_catalog" \in Faults
  /\ MayLink(ino[Lookup(old)])
  /\ MayName(<<new>>, 1)
  /\ Start([Idle EXCEPT !.op = "add", !.todo = Items(<<new>>, ino[Lookup(old)])])
  /\ UNCHANGED <<tree, links, boot, brs>>

\* add_hard_link with boot_catalog_old: one more record for the boot catalog.
LinkBootCatalog(new) ==
  /\ boot.on /\ boot.recs # <<>> /\ MayName(<<new>>, 1)
  /\ Start([Idle EXCEPT !.op = "add", !.cat = TRUE, !.todo = Items(<<new>>, None)])
  /\ UNCHANGED <<tree, links, boot, brs>>

\* add_eltorito on an image without El Torito: boot record, catalog with its
\* initial entry, then _add_fp of the catalog's own records.
AddEltorito(old, s) ==
  /\ Exists(old) /\ ~boot.on
  /\ ino[Lookup(old)] # None /\ MayLink(ino[Lookup(old)])
  /\ s[1] # None
  /\ (JolietPath # {}) <=> (s[2] # None)
  /\ HasUdf <=> (s[3] # None)
  /\ MayName(Names(s), 1)
  /\ brs' = brs + 1
  /\ boot' = [on |-> TRUE, recs |-> <<>>, entries |-> <<ino[Lookup(old)]>>]
  /\ Start([Idle EXCEPT !.op = "add", !.cat = TRUE, !.dirty = TRUE,
                        !.todo = Items(Names(s), None),
                        !.acc.misc = IF HasUdf THEN 1 ELSE 2])
  /\ UNCHANGED <<tree, links>>

\* add_eltorito on an image that has El Torito: one more section.
AddSection(old) ==
  /\ Exists(old) /\ boot.on
  /\ ino[Lookup(old)] # None /\ MayLink(ino[Lookup(old)])
  /\ Len(boot.entries) < MaxEntries
  /\ boot' = [boot EXCEPT !.entries = Append(@, ino[Lookup(old)])]
  /\ Start([Idle EXCEPT !.op = "add"])
  /\ UNCHANGED <<tree, links, brs>>

Insert_left(s, r, p) == IF p \in UdfPath THEN Append(s, r) ELSE <<r>> \o s
\* Where a record with a name already listed goes: right after the leftmost
\* one, whose data_continuation it becomes.  UDF identifiers are appended.
Insert(s, r, p) ==
  IF p \in UdfPath \/ s = <<>> THEN Append(s, r)
  ELSE <<Head(s), r>> \o Tail(s)

\* _add_hard_link_to_inode for the next path of the call.
Link(r) ==
  LET p == Head(call.todo).path
      i == Head(call.todo).ino
      udf == p \in UdfPath
      charge == IF ~udf THEN call.acc
                ELSE IF i = None THEN [call.acc EXCEPT !.misc = @ + 1]
                ELSE IF numUdf[i] = 0 THEN [call.acc EXCEPT !.fe[i] = @ + 1]
                ELSE call.acc
  IN /\ call.op = "add" /\ call.todo # <<>> /\ p # None
     /\ ~InUse(r)
     /\ listing' = [listing EXCEPT ![p] = Insert(@, r, p)]
     /\ home' = [home EXCEPT ![r] = p]
     /\ ino' = [ino EXCEPT ![r] = i]
     /\ cont' = [q \in Rec |-> IF ~udf /\ Exists(p) /\ q = Lookup(p) THEN r
                               ELSE IF q = r THEN None ELSE cont[q]]
     /\ linked' = IF i = None THEN linked ELSE [linked EXCEPT ![i] = @ \cup {r}]
     /\ numUdf' = IF i = None \/ ~udf THEN numUdf ELSE [numUdf EXCEPT ![i] = @ + 1]
     /\ numFiles' = IF udf THEN numFiles + 1 ELSE numFiles
     /\ boot' = IF call.cat THEN [boot EXCEPT !.recs = Append(@, r)] ELSE boot
     /\ call' = [call EXCEPT !.todo = Tail(@), !.dirty = TRUE, !.acc = charge]
     /\ UNCHANGED <<inodes, brs, space, raised>>

\* self.inodes.append, once the records of a segment are in place.
Track ==
  /\ call.op = "add" /\ call.todo # <<>> /\ Head(call.todo).path = None
  /\ inodes' = inodes \cup {Head(call.todo).ino}
  /\ call' = [call EXCEPT !.todo = Tail(@), !.dirty = TRUE]
  /\ UNCHANGED <<tree, ino, linked, numUdf, boot, brs, space, raised>>

NextSegment ==
  /\ call.op = "add" /\ call.todo = <<>> /\ call.segs # <<>>
  /\ call' = [call EXCEPT !.todo = Work(call.segs, call.paths), !.segs = Tail(@)]
  /\ UNCHANGED <<tree, links, boot, brs, space, raised>>

FinishAdd ==
  /\ call.op = "add" /\ call.todo = <<>> /\ call.segs = <<>>
  /\ Return
  /\ UNCHANGED <<tree, links, boot, brs>>

\* The next path is refused (no such parent, illegal name, ...).
Refuse ==
  /\ call.op = "add" /\ call.todo # <<>> /\ Head(call.todo).path # None
  /\ call.dirty => "partial_add" \in Faults
  /\ Raise("invalid")
  /\ UNCHANGED <<tree, links, boot, brs>>

-----------------------------------------------------------------------------
(* Removing. *)

\* rm_hard_link of path p.
RmHardLink(p) ==
  /\ Exists(p)
  /\ Lookup(p) \in Elements(boot.recs) => "hide_catalog" \in Faults
  /\ Start([Idle EXCEPT !.op = "rm_hard_link", !.cur = Lookup(p)])
  /\ UNCHANGED <<tree, links, boot, brs>>

\* rm_file of path p.  Refused if El Torito refers to the record or its inode;
\* otherwise every link of the inode goes, or the one record without inode
\* (of a UDF file entry without inode nothing is removed).
RmFile(p) ==
  /\ Exists(p)
  /\ Lookup(p) \notin Elements(boot.recs)
  /\ ino[Lookup(p)] # None => ~Booted(ino[Lookup(p)])
  /\ Start([Idle EXCEPT !.op = "rm_file", !.ino = ino[Lookup(p)],
              !.cur = IF ino[Lookup(p)] = None /\ p \notin UdfPath THEN Lookup(p) ELSE None])
  /\ UNCHANGED <<tree, links, boot, brs>>

\* rm_eltorito: the boot record goes first, then the catalog's records.
RmEltorito ==
  /\ boot.on
  /\ (\A i \in Elements(boot.entries) : linked[i] # {}) \/ "rm_hidden_boot" \in Faults
  /\ IF brs = 0
       THEN /\ call.op = "idle" /\ Raise("internal") /\ UNCHANGED brs
       ELSE /\ Start([Idle EXCEPT !.op = "rm_eltorito", !.queue = boot.recs,
                                  !.acc.misc = IF HasUdf THEN 0 ELSE -1])
            /\ brs' = brs - 1
  /\ UNCHANGED <<tree, links, boot>>

Removing == {"rm_hard_link", "rm_file", "rm_eltorito"}
Without(s, x) ==
  LET k == CHOOSE n \in 1..Len(s) : s[n] = x
  IN SubSeq(s, 1, k - 1) \o SubSeq(s, k + 1, Len(s))

Delete_stale(r) ==
  LET dir == CHOOSE t \in Trees : home[r] \in t
  IN {[listing EXCEPT ![home[v]] = Without(@, v)] :
        v \in UNION {Elements(listing[p]) : p \in dir}}
\* remove_child at the record's index_in_parent: the possible listings after.
\* The index of a record that is not listed is stale and hits another child.
Delete(r) ==
  LET dir == CHOOSE t \in Trees : home[r] \in t
      victims == IF Listed(r) THEN {r}
                 ELSE UNION {Elements(listing[p]) : p \in dir}
  IN {[listing EXCEPT ![home[v]] = Without(@, v)] : v \in victims}

\* An unlisted record is garbage once nothing refers to it.
Forget(r) ==
  IF Held(r) \/ r \in Elements(listing'[home[r]]) THEN UNCHANGED <<home, ino, cont>>
  ELSE /\ home' = [home EXCEPT ![r] = None]
       /\ ino' = [ino EXCEPT ![r] = None]
       /\ cont' = [cont EXCEPT ![r] = None]

\* The inode of r loses its last link / is not where the helpers look for it.
Orphans(r) == ino[r] # None /\ r \in linked[ino[r]] /\ LastLink(ino[r], r)
Dangling(r) == /\ ino[r] # None
               /\ \/ r \notin linked[ino[r]]
                  \/ Orphans(r) /\ ino[r] \notin inodes

Unlink_kept(r) ==
  /\ linked' = IF ino[r] = None THEN linked ELSE [linked EXCEPT ![ino[r]] = @ \ {r}]
  /\ UNCHANGED inodes
\* Steps common to both link removals: inode.linked_records, self.inodes.
Unlink(r) ==
  /\ linked' = IF ino[r] = None THEN linked ELSE [linked EXCEPT ![ino[r]] = @ \ {r}]
  /\ inodes' = IF Orphans(r) THEN inodes \ {ino[r]} ELSE inodes

Refund_each(r) == IF ino[r] # None THEN [call.acc EXCEPT !.data[ino[r]] = @ - 1] ELSE call.acc
Refund(r) == IF Orphans(r) THEN [call.acc EXCEPT !.data[ino[r]] = @ - 1] ELSE call.acc

\* One iteration of _rm_dr_link, which goes on with data_continuation (except
\* in rm_file of a record without inode, which calls remove_child only).
RmDrLink ==
  LET r == call.cur
  IN /\ call.op \in Removing /\ r # None /\ home[r] \notin UdfPath
     /\ listing' \in Delete(r)
     /\ Forget(r)
     /\ Unlink(r)
     /\ IF Dangling(r) THEN Raise("internal")
        ELSE /\ call' = [call EXCEPT
                           !.acc = Refund(r),
                           !.cur = IF call.op = "rm_file" /\ call.ino = None THEN None
                                   ELSE cont[r]]
             /\ UNCHANGED <<space, raised>>
     /\ UNCHANGED <<numUdf, numFiles, boot, brs>>

\* The stale index is past the end of the directory.
RmDrLinkFails ==
  LET r == call.cur
  IN /\ call.op \in Removing /\ r # None /\ home[r] \notin UdfPath
     /\ ~Listed(r)
     /\ Raise("internal")
     /\ UNCHANGED <<tree, links, boot, brs>>

\* The link of UDF record r no longer counts for its inode.
Uncount_never(r) == UNCHANGED numUdf
Uncount(r) ==
  numUdf' = IF ino[r] = None \/ r \notin linked[ino[r]] THEN numUdf
            ELSE [numUdf EXCEPT ![ino[r]] = @ - 1]
\* _rm_udf_file_ident: the first identifier of path p goes.
RmUdfFileIdent_uncounted(p) == listing' = [listing EXCEPT ![p] = Tail(@)] /\ UNCHANGED numFiles
RmUdfFileIdent(p) == listing' = [listing EXCEPT ![p] = Tail(@)] /\ numFiles' = numFiles - 1

\* _rm_udf_link: the inode first, then the first identifier of that name.
RmUdfLink ==
  LET r == call.cur
      i == ino[r]
      p == home[r]
      left == [call EXCEPT
                 !.cur = None,
                 !.acc = IF i = None THEN [Refund(r) EXCEPT !.misc = @ - 1]
                         ELSE IF numUdf[i] = 1 THEN [Refund(r) EXCEPT !.fe[i] = @ - 1]
                         ELSE Refund(r)]
  IN /\ call.op \in Removing /\ r # None /\ p \in UdfPath
     /\ Unlink(r)
     /\ Uncount(r)
     /\ IF Dangling(r) \/ ~Exists(p)
          THEN /\ Raise(IF Dangling(r) THEN "internal" ELSE "invalid")
               /\ UNCHANGED <<tree, ino>>
          ELSE /\ RmUdfFileIdent(p)
               /\ Forget(r)
               /\ call' = left
               /\ UNCHANGED <<space, raised>>
     /\ UNCHANGED <<boot, brs>>

NextLink_no_udf ==
  /\ call.op = "rm_file" /\ call.cur = None /\ call.ino # None
  /\ \E r \in linked[call.ino] : home[r] \notin UdfPath /\ call' = [call EXCEPT !.cur = r]
  /\ UNCHANGED <<tree, links, boot, brs, space, raised>>
\* rm_file: the loop over the links of the inode.
NextLink ==
  /\ call.op = "rm_file" /\ call.cur = None /\ call.ino # None
  /\ \E r \in linked[call.ino] : call' = [call EXCEPT !.cur = r]
  /\ UNCHANGED <<tree, links, boot, brs, space, raised>>

\* rm_eltorito: the loop over the catalog's records.
NextCatalogRecord ==
  /\ call.op = "rm_eltorito" /\ call.cur = None /\ call.queue # <<>>
  /\ call' = [call EXCEPT !.cur = Head(call.queue), !.queue = Tail(@)]
  /\ UNCHANGED <<tree, links, boot, brs, space, raised>>

FinishRemove ==
  /\ call.op \in {"rm_hard_link", "rm_file"} /\ call.cur = None
  /\ call.op = "rm_file" /\ call.ino # None => linked[call.ino] = {}
  /\ Return
  /\ UNCHANGED <<tree, links, boot, brs>>

\* The end of rm_eltorito: the entries unlink from their inodes, which are
\* not removed, and the catalog's own block is refunded.
FinishRmEltorito ==
  /\ call.op = "rm_eltorito" /\ call.cur = None /\ call.queue = <<>>
  /\ boot' = NoCatalog
  /\ home' = [r \in Rec |->
                IF r \in Elements(boot.recs) /\ ~Listed(r) /\ ~Chained(r) THEN None ELSE home[r]]
  /\ call' = Idle /\ raised' = "none"
  /\ space' = [Merge(space, call.acc) EXCEPT !.misc = @ - 1]
  /\ UNCHANGED <<listing, cont, numFiles, links, brs>>

-----------------------------------------------------------------------------
Request ==
  \/ \E f \in Contents, s \in Targets : AddFp(f, s)
  \/ \E old, new \in Path : AddHardLink(old, new)
  \/ \E new \in Path : LinkBootCatalog(new)
  \/ \E old \in IsoPath, s \in Targets : AddEltorito(old, s)
  \/ \E old \in IsoPath : AddSection(old)
  \/ \E p \in Path : RmHardLink(p)
  \/ \E p \in Path : RmFile(p)
  \/ RmEltorito

Step ==
  \/ \E r \in Rec : Link(r)
  \/ Track \/ NextSegment \/ FinishAdd \/ Refuse
  \/ RmDrLink \/ RmDrLinkFails \/ RmUdfLink \/ NextLink \/ NextCatalogRecord
  \/ FinishRemove \/ FinishRmEltorito

Next == Request \/ Step

\* A call runs to its end: the program is sequential.
Spec == Init /\ [][Next]_vars /\ WF_vars(Step)

-----------------------------------------------------------------------------
(* Properties. *)

Call ==
  [op : {"idle", "add"} \cup Removing, todo : Seq(Item), segs : Seq(Data),
   paths : PathTriple, new : SUBSET Data, cat : BOOLEAN, dirty : BOOLEAN,
   ino : Data \cup {None}, cur : Rec \cup {None}, queue : Seq(Rec), acc : Ledger]
Catalog == [on : BOOLEAN, recs : Seq(Rec), entries : Seq(Data)]

TypeOK ==
  /\ listing \in [Path -> Seq(Rec)]
  /\ home \in [Rec -> Path \cup {None}]
  /\ ino \in [Rec -> Data \cup {None}]
  /\ cont \in [Rec -> Rec \cup {None}]
  /\ linked \in [Data -> SUBSET Rec]
  /\ inodes \subseteq Data
  /\ numUdf \in [Data -> Int]
  /\ numFiles \in Int
  /\ boot \in Catalog
  /\ brs \in Int
  /\ space \in Ledger
  /\ call \in Call
  /\ raised \in {"none", "invalid", "internal"}

UdfListed(i) == {r \in Rec : Listed(r) /\ home[r] \in UdfPath /\ ino[r] = i}

\* Between calls, inode.linked_records is exactly the set of listed records
\* that point at the inode, inode.num_udf, which decides when the UDF file
\* entry block is refunded, the number of those in UDF, and the records
\* without an inode are the boot catalog's, which the layout gives its
\* location: the two directions are updated by different code.
LinksMatch ==
  call.op = "idle" =>
    /\ \A i \in Data :
         /\ linked[i] = {r \in Rec : Listed(r) /\ ino[r] = i}
         /\ numUdf[i] = Cardinality(UdfListed(i))
    /\ Elements(boot.recs) = {r \in Rec : Listed(r) /\ ino[r] = None}

\* Between calls, self.inodes holds exactly the data that a path or an El
\* Torito entry names: no data is lost early and none stays behind.
DataIffNamed ==
  call.op = "idle" => inodes = {i \in Data : linked[i] # {} \/ Booted(i)}

\* The places marked "This should never happen" are never reached.
NoInternalError == raised # "internal"

\* Data _reshuffle_extents lays out: reached from a listed record or from an
\* El Torito entry.  One UDF file entry block per inode with a UDF record, and
\* one per UDF record without inode.
LaidOut(i) == Booted(i) \/ \E r \in Rec : Listed(r) /\ ino[r] = i
Needed ==
  [data |-> [i \in Data |-> IF LaidOut(i) THEN 1 ELSE 0],
   fe   |-> [i \in Data |-> IF UdfListed(i) # {} THEN 1 ELSE 0],
   misc |-> (IF boot.on THEN IF HasUdf THEN 1 ELSE 2 ELSE 0)
              + Cardinality(UdfListed(None))]

\* Between calls, the space charged to the volume is what the layout needs:
\* less makes _reshuffle_extents fail, more leaves dead space on the image.
SpaceExact == call.op = "idle" => space = Needed

\* Between calls, the segments of one file are on the image together.
WholeFiles ==
  call.op = "idle" =>
    \A f \in BigFiles : Elements(f) \subseteq inodes \/ Elements(f) \cap inodes = {}

\* Between calls, the records listed under one ISO9660 or Joliet name are the
\* segments of one file, all of them and in order, or one catalog record.
NamesAreFiles ==
  call.op = "idle" =>
    \A p \in Path \ UdfPath :
      [k \in 1..Len(listing[p]) |-> ino[listing[p][k]]] \in Contents \cup {<<>>, <<None>>}

\* Between calls, the number of files in the UDF Logical Volume Integrity
\* Descriptor is the number of UDF file names on the image.
UdfFileCount ==
  call.op = "idle" => numFiles = Cardinality({r \in Rec : Listed(r) /\ home[r] \in UdfPath})

\* A removal takes no other file along: rm_hard_link unlists one record,
\* rm_file only names of the same data, rm_eltorito only the catalog's records.
RemovalIsSelective ==
  [][\A r \in Rec : Listed(r) /\ ~Listed(r)' =>
       \/ call.op = "rm_hard_link" /\ call.cur = r
       \/ call.op = "rm_file" /\ (call.cur = r \/ call.ino # None) /\ ino[r] = call.ino
       \/ call.op = "rm_eltorito" /\ r \in Elements(boot.recs)]_vars

\* Every call returns: the loops over linked_records and data_continuation end.
CallsReturn == call.op # "idle" ~> call.op = "idle"

(***************************************************************************)
(* The refinement: a new inode counts as stored from its first link on,    *)
(* whether or not self.inodes has it already.                              *)
(***************************************************************************)
Content == [p \in Path |-> IF Exists(p) THEN ino[Lookup(p)] ELSE None]
Stored ==
  (inodes \ call.new) \cup {i \in call.new : linked[i] # {}}

FS == INSTANCE FileStore
        WITH content <- Content, booted <- Elements(boot.entries), stored <- Stored

\* Every step of a call is one step of the abstract file store, or none.
FileStoreSpec == FS!Spec
=============================================================================
