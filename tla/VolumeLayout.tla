---------------------------- MODULE VolumeLayout ----------------------------
(***************************************************************************)
(* A volume from new() or open() to write_fp(): which block everything is  *)
(* given, what is charged to the size of the volume, what is written, and  *)
(* what open() makes of a file.  The size is kept by adding and removing   *)
(* what each call is thought to take; the blocks are given out at the end, *)
(* by a walk over everything there is.  The two must agree, as a UDF       *)
(* volume is found by the anchor in its last block.                        *)
(*                                                                         *)
(* Abstractions: all files are in the root directory of a tree, and a      *)
(* directory takes one block (directories: RelocatedDirs, DirRecord and    *)
(* UdfDirectory); the records of a file in several trees are one (links:   *)
(* HardLinks); all continuation entries fit in a block (ContinuationArea); *)
(* there is no enhanced volume descriptor and no isohybrid; boot files are *)
(* not empty.  Lengths are in blocks; of those in bytes it only matters    *)
(* which version of a file they are of.                                    *)
(***************************************************************************)
EXTENDS UdfDescriptors, SequencesExt, FiniteSetsExt

CONSTANTS
  Kinds,      \* the volumes a client makes: [udf, joliet, rr]
  NFiles,     \* the files are 1..NFiles, in the order of their names
  Lengths,    \* their lengths, in blocks
  Placements, \* the sets of trees that a client puts a file in
  Foreign,    \* images of other tools: [image, holds, needs]
  MaxCalls,   \* bound on the calls that change the volume
  Faults      \* the circumstances below that a configuration allows

Circumstances == {
  "duplicate_pvd_udf", \* duplicate_pvd on a UDF volume
  "er_block",          \* a long Rock Ridge name on a volume that was opened
  "long_removed",      \* the last long name of a volume removed
  "reopened_udf",      \* a UDF file of a volume that was opened is removed
  "empty_files",       \* two empty files
  "late_in_place",     \* modify_file_in_place after a change
  "boot_in_place",     \* modify_file_in_place of a boot file
  "no_reserve",        \* foreign volumes: no reserve sequence
  "many_anchors",      \* three anchors
  "long_sequence",     \* a volume descriptor sequence of more than 16
  "root_elsewhere",    \* the root file entry is not in block 2 of the partition
  "short_ad",          \* an extent of a type other than recorded
  "slack",             \* blocks before the last anchor that nothing uses
  "pointer",           \* a sequence that ends with a pointer
  "table_gap" }        \* path tables not next to each other

VARIABLES
  vol,      \* the PyCdlib object, or NoVolume
  truth,    \* what the client has asked the volume to hold
  image,    \* the file last written or opened
  holds,    \* what it is to hold
  source,   \* the image of another tool that the volume comes from, or NoImage
  cdfp,     \* the file that vol was read from, _cdfp, is image
  attached, \* the volume is as it was read from image
  calls,    \* the changes made so far
  raised    \* the exception the last call ended with, or "none"

vars == <<vol, truth, image, holds, source, cdfp, attached, calls, raised>>

Files == 1..NFiles
Trees == {"iso", "joliet", "udf"}

ASSUME ConstantsAssumption ==
  /\ Kinds \subseteq [udf: BOOLEAN, joliet: BOOLEAN, rr: BOOLEAN]
  /\ NFiles \in Nat /\ Lengths \subseteq Nat /\ MaxCalls \in Nat
  /\ Placements \subseteq (SUBSET Trees) \ {{}}

NoImage == [size |-> 0, blocks |-> <<>>]
ASSUME ForeignAssumption == \A x \in Foreign : x.image # NoImage
Nothing == [in |-> {}, len |-> 0, ver |-> 0]

\* What a block can hold, besides UDF descriptors.
Zero == [k |-> "zero"]
Desc(d) == [k |-> "desc", d |-> d]
Data(f, ver, i) == [k |-> "data", file |-> f, ver |-> ver, part |-> i]
TreesOf(v) == {"iso"} \cup (IF v.joliet THEN {"joliet"} ELSE {}) \cup (IF v.udf THEN {"udf"} ELSE {})

-----------------------------------------------------------------------------
(* The object.                                                              *)

\* The volume descriptors by kind, each an extent and, for those of the UDF
\* recognition sequence and the version, what it says.
HeaderOrder == <<"pvd", "br", "svd", "vdst", "bea", "boot", "nsr", "tea", "version">>
HeaderNames == ToSet(HeaderOrder)
Entry(is) == [extent |-> -1, is |-> is]
NoEntry == Entry(Zero)

\* ce is the block of the continuation entry of the file's record: one that
\* was made for such entries, the one of the ER record, or none.
\* bytes is the length in bytes that the record of each tree has: every version
\* of a file that is not empty has one of its own.
NoFile == [in |-> {}, len |-> 0, bytes |-> <<>>, ext |-> 0, fe |-> 0, numUdf |-> 0,
           ce |-> "none", data |-> <<>>]
Bytes(len, ver) == IF len = 0 THEN 0 ELSE 1 + ver
Present(v) == {f \in Files : v.files[f].in # {}}
InTree(v, t) == {f \in Files : t \in v.files[f].in}

NoPlaces ==
  [le |-> 0, be |-> 0, jle |-> 0, jbe |-> 0, iso |-> 0, joliet |-> 0, er |-> 0, ce |-> 0,
   root |-> 0, idents |-> 0, catalog |-> 0, catalogFe |-> 0]
NoSequence == [k \in DOMAIN NewSequence |-> <<>>]
NoVolume ==
  [udf |-> FALSE, joliet |-> FALSE, rr |-> FALSE, head |-> [k \in HeaderNames |-> <<>>],
   main |-> NoSequence, reserve |-> NoSequence, lvid |-> <<>>, lvidEnd |-> <<>>,
   anchors |-> <<>>, set |-> <<>>, setEnd |-> <<>>, at |-> NoPlaces,
   tables |-> 0, jtables |-> 0, blocks |-> {}, files |-> [f \in Files |-> NoFile],
   catalog |-> FALSE, boot |-> {}, shared |-> {}, space |-> 0, pending |-> FALSE]

\* add_to_space_size, remove_from_space_size and what UDF keeps besides: the
\* length of the partition, twice, and of the integrity descriptor.
LongerPartition(ms, n) == IF ms = <<>> THEN ms ELSE [ms EXCEPT ![1].body.length = @ + n]
LongerIntegrity(ms, n) == IF ms = <<>> THEN ms ELSE [ms EXCEPT ![1].body.sizes[1] = @ + n]
AddPartition(v, n) ==
  IF ~v.udf THEN v
  ELSE [v EXCEPT !.main[5][1].body.length = @ + n,
                 !.reserve[5] = LongerPartition(v.reserve[5], n),
                 !.lvid = LongerIntegrity(v.lvid, n)]
FinishAdd(v, n, partition) ==
  [AddPartition(v, partition) EXCEPT !.space = @ + n + partition, !.pending = TRUE]
FinishRemove_space_only(v, n) == [v EXCEPT !.space = @ - n, !.pending = TRUE]
FinishRemove(v, n) == [AddPartition(v, -n) EXCEPT !.space = @ - n, !.pending = TRUE]

\* new(): the descriptors up to 32, two sequences of 16, 192 for the integrity
\* sequence, an anchor, the file set and its terminator, the root and its
\* identifiers; then path tables, root directories, the ER block and an anchor.
NewVolume(udf, joliet, rr) ==
  LET one(b) == IF b THEN <<NoEntry>> ELSE <<>>
      head == [k \in HeaderNames |->
                 CASE k \in {"pvd", "vdst", "version"} -> <<NoEntry>>
                   [] k = "svd" -> one(joliet)
                   [] k = "bea" /\ udf -> <<Entry([k |-> "vs", s |-> NewBEA])>>
                   [] k = "nsr" /\ udf -> <<Entry([k |-> "vs", s |-> NewNSR])>>
                   [] k = "tea" /\ udf -> <<Entry([k |-> "vs", s |-> NewTEA])>>
                   [] OTHER -> <<>>]
      base == [NoVolume EXCEPT
                 !.udf = udf, !.joliet = joliet, !.rr = rr, !.head = head,
                 !.tables = 2, !.jtables = IF joliet THEN 2 ELSE 0, !.space = 17]
      full == IF ~udf THEN base
              ELSE [base EXCEPT
                      !.main = NewSequence, !.reserve = NewSequence,
                      !.lvid = <<NewDesc(9, NewIntegrity)>>, !.lvidEnd = <<NewDesc(8, NewTerminator)>>,
                      !.anchors = <<NewDesc(2, NewAnchor), NewDesc(2, NewAnchor)>>,
                      !.set = <<NewDesc(256, NewFileSet)>>,
                      !.setEnd = <<NewDesc(8, NewTerminator)>>]
      few == 2 + (IF joliet THEN 1 ELSE 0) + (IF udf THEN 3 ELSE 0)
      fixed == IF udf THEN (32 - 17) + 16 + 16 + 192 + 1 + 2 + 1 + 1 ELSE few
  IN FinishAdd(full, fixed,
               4 + 1 + (IF joliet THEN 4 + 1 ELSE 0) + (IF rr THEN 1 ELSE 0) + (IF udf THEN 1 ELSE 0))

-----------------------------------------------------------------------------
(* _reshuffle_extents: the blocks given out.                                *)

\* The inodes are given blocks in this order: those of the boot files, then
\* those met in each of the three trees, by name.
Stored(v) == {f \in Present(v) : v.files[f].len > 0}
MetIn(v, f) ==
  IF f \in v.boot THEN 0
  ELSE IF "iso" \in v.files[f].in THEN 1 ELSE IF "joliet" \in v.files[f].in THEN 2 ELSE 3
Earlier(v, f) ==
  {g \in Stored(v) : MetIn(v, g) < MetIn(v, f) \/ (MetIn(v, g) = MetIn(v, f) /\ g < f)}
DataBlocks(v, S) == Total([f \in Files |-> IF f \in S THEN v.files[f].len ELSE 0])

\* A file entry for each inode: after parsing, the empty files have one inode.
EntryFiles(v) ==
  {f \in InTree(v, "udf") : f \in v.shared => \A g \in InTree(v, "udf") \cap v.shared : f <= g}
EntryOf(v, f) == CHOOSE g \in EntryFiles(v) : g = f \/ {f, g} \subseteq v.shared

HeaderEnd(v) == 16 + Count(v.head, HeaderOrder, Len(HeaderOrder))
LaidHeader(v) ==
  [k \in DOMAIN v.head |->
     [i \in 1..Len(v.head[k]) |->
        [v.head[k][i] EXCEPT !.extent = 16 + Before(v.head, HeaderOrder, k) + i - 1]]]

\* The UDF part: the sequences from 32 and 48, the integrity sequence from 64,
\* the partition from 257 with file set, root, its identifiers and the file
\* entries.  That of the catalog is put first here, whatever its name.
PartStart == 257
AnchorAt(m, extent) ==
  [At(m, extent) EXCEPT !.body.main.location = 32, !.body.reserve.location = 48]
LaidUdf(v) ==
  LET told(k, j, m) ==
        CASE k = 5 /\ j = 1 -> [m EXCEPT !.body.start = PartStart]
          [] k = 6 /\ j = 1 /\ v.lvid # <<>> -> [m EXCEPT !.body.integrity.location = 64]
          [] OTHER -> m
      seq(s, start) ==
        LET placed == AssignDescExtents(s, start)
        IN [k \in DOMAIN s |-> [j \in 1..Len(s[k]) |-> told(k, j, placed[k][j])]]
      setEnd == IF v.setEnd = <<>> THEN <<>>
                ELSE <<[v.setEnd[1] EXCEPT !.extent = PartStart + 1, !.tag.loc = 1]>>
      root == PartStart + 1 + Len(setEnd)
      entries == root + 2 + (IF v.catalog THEN 1 ELSE 0)
      fe(f) == entries + Cardinality({g \in EntryFiles(v) : g < EntryOf(v, f)})
      end == entries + Cardinality(EntryFiles(v))
  IN [v EXCEPT
        !.main = seq(v.main, 32), !.reserve = seq(v.reserve, 48),
        !.lvid = IF @ = <<>> THEN @ ELSE <<[At(@[1], 64) EXCEPT !.body.unique = end]>>,
        !.lvidEnd = IF @ = <<>> THEN @ ELSE <<At(@[1], 64 + Len(v.lvid))>>,
        !.set = <<[@[1] EXCEPT !.extent = PartStart]>>, !.setEnd = setEnd,
        !.at = [@ EXCEPT !.root = root, !.idents = root + 1, !.catalogFe = root + 2],
        !.files = [f \in Files |->
                     IF f \in InTree(v, "udf")
                     THEN [v.files[f] EXCEPT !.fe = fe(f)]
                     ELSE v.files[f]]]
UdfEnd(v) ==
  PartStart + 3 + Len(v.setEnd) + (IF v.catalog THEN 1 ELSE 0) + Cardinality(EntryFiles(v))

\* The rest of the walk: [vol, end], where end is the extent of the last anchor.
LaidOut(v) ==
  LET u == IF v.udf THEN LaidUdf(v) ELSE v
      start == IF v.udf THEN UdfEnd(v) ELSE HeaderEnd(v)
      le == start
      be == le + v.tables
      jle == be + v.tables
      jbe == jle + v.jtables
      iso == jbe + v.jtables
      used == {v.files[f].ce : f \in InTree(v, "iso")} \ {"none"}
      joliet == iso + 1 + Cardinality(used)
      er == joliet + (IF v.joliet THEN 1 ELSE 0)
      catalog == er + (IF v.rr THEN 1 ELSE 0)
      data == catalog + (IF v.catalog THEN 1 ELSE 0)
      ext(f) == IF f \in Stored(v) THEN data + DataBlocks(v, Earlier(v, f)) ELSE 0
      end == data + DataBlocks(v, Stored(v))
  IN [end |-> end,
      vol |-> [u EXCEPT
        !.head = LaidHeader(v),
        !.at = [@ EXCEPT !.le = le, !.be = be, !.jle = jle, !.jbe = jbe, !.iso = iso,
                         !.ce = iso + 1, !.joliet = joliet, !.er = er, !.catalog = catalog],
        !.files = [f \in Files |-> [u.files[f] EXCEPT !.ext = ext(f)]],
        !.anchors = IF v.udf THEN <<AnchorAt(@[1], 256), AnchorAt(@[Len(@)], end)>> ELSE @,
        !.pending = FALSE]]

\* The exceptions on the way.  The last anchor itself is not looked at.
LayoutRaises(v) ==
  IF v.udf /\ (HeaderEnd(v) > 32 \/ Len(v.anchors) # 2) THEN "internal"
  ELSE IF v.udf /\ v.reserve[1] = <<>> THEN "index"
  ELSE IF LaidOut(v).end > v.space THEN "internal" ELSE "none"

-----------------------------------------------------------------------------
(* _write_fp: what is written where, in order.                              *)

Put(at, is) == [at |-> at, is |-> is]
PvdBlock(v) == [k |-> "pvd", space |-> v.space, le |-> v.at.le, be |-> v.at.be, root |-> v.at.iso]
SvdBlock(v) == [k |-> "svd", space |-> v.space, le |-> v.at.jle, be |-> v.at.jbe, root |-> v.at.joliet]
HeaderBlock(v, k, i) ==
  CASE k = "pvd" -> PvdBlock(v) [] k = "svd" -> SvdBlock(v)
    [] k = "br" -> [k |-> "br", catalog |-> v.at.catalog]
    [] k = "vdst" -> [k |-> "vdst"]
    [] k \in {"bea", "nsr", "tea"} -> v.head[k][i].is
    [] k = "boot" -> [k |-> "vs", s |-> RecordBoot(v.head[k][i].is.s)]
    [] k = "version" -> v.head[k][i].is
\* The primary descriptors are written one after the other.
HeaderPuts(v) ==
  LET at(k, i) == IF k = "pvd" THEN v.head[k][1].extent + i - 1 ELSE v.head[k][i].extent
      of(k) == [i \in 1..Len(v.head[k]) |-> Put(at(k, i), HeaderBlock(v, k, i))]
  IN of("pvd") \o of("br") \o of("svd") \o of("vdst")
       \o of("bea") \o of("boot") \o of("nsr") \o of("tea") \o of("version")
DescPuts(ms) == [i \in 1..Len(ms) |-> Put(ms[i].extent, Desc(RecordDesc(ms[i])))]

\* _write_directory_records
DirBlock(v, t) ==
  [k |-> "dir", tree |-> t,
   er |-> IF t = "iso" /\ v.rr THEN v.at.er ELSE 0,
   catalog |-> IF v.catalog THEN v.at.catalog ELSE 0,
   recs |-> [f \in InTree(v, t) |->
               [ext |-> v.files[f].ext, len |-> v.files[f].len, bytes |-> v.files[f].bytes[t],
                ce |-> IF t = "iso" /\ v.files[f].ce # "none" THEN v.at.ce ELSE 0]]]
Table(order, root) == [k |-> "table", order |-> order, root |-> root]
IsoPuts(v) ==
  <<Put(v.at.le, Table("le", v.at.iso)), Put(v.at.be, Table("be", v.at.iso)),
    Put(v.at.iso, DirBlock(v, "iso"))>>
  \o (IF v.rr THEN <<Put(v.at.er, [k |-> "er"])>> ELSE <<>>)
  \o (IF \E f \in InTree(v, "iso") : v.files[f].ce # "none"
      THEN <<Put(v.at.ce, [k |-> "ce"])>> ELSE <<>>)
JolietPuts(v) ==
  IF ~v.joliet THEN <<>>
  ELSE <<Put(v.at.jle, Table("le", v.at.joliet)), Put(v.at.jbe, Table("be", v.at.joliet)),
         Put(v.at.joliet, DirBlock(v, "joliet"))>>

FileEntry(tag, len, bytes, block) ==
  [k |-> "fe", tag |-> tag, len |-> len, bytes |-> bytes, block |-> block]
UdfPuts(v) ==
  LET start == v.set[1].extent
      rel(e) == e - start
      fe(e, len, bytes, at) ==
        Put(e, FileEntry(rel(e), len, bytes, IF at = 0 THEN 0 ELSE rel(at)))
      files == InOrderOf(EntryFiles(v))
      file(f) == v.files[f]
  IN IF ~v.udf THEN <<>>
     ELSE DescPuts(v.set \o v.setEnd)
          \o <<fe(v.at.root, 1, 0, v.at.idents),
               Put(v.at.idents,
                   [k |-> "idents", catalog |-> IF v.catalog THEN rel(v.at.catalogFe) ELSE 0,
                    recs |-> [f \in InTree(v, "udf") |-> rel(file(f).fe)]])>>
          \o (IF v.catalog THEN <<fe(v.at.catalogFe, 1, 0, v.at.catalog)>> ELSE <<>>)
          \o [i \in 1..Len(files) |->
                LET f == file(files[i]) IN fe(f.fe, f.len, f.bytes["udf"], f.ext)]

\* _output_file_data, of every inode
DataPuts(v, fs) ==
  FlattenSeq([j \in 1..Len(fs) |->
    LET f == v.files[fs[j]] IN [i \in 1..f.len |-> Put(f.ext + i - 1, f.data[i])]])

AllPuts(v) ==
  HeaderPuts(v) \o DescPuts(InOrder(v.main) \o InOrder(v.reserve) \o v.lvid \o v.lvidEnd \o v.anchors)
  \o (IF v.catalog THEN <<Put(v.at.catalog, [k |-> "catalog", boot |-> {v.files[f].ext : f \in v.boot}])>>
      ELSE <<>>)
  \o IsoPuts(v) \o JolietPuts(v) \o UdfPuts(v) \o DataPuts(v, InOrderOf(Present(v)))

\* What is written last stays.
Overlay(blocks, puts) ==
  LET to == {puts[i].at : i \in 1..Len(puts)}
      last(e) == CHOOSE i \in 1..Len(puts) :
                   puts[i].at = e /\ \A j \in (i + 1)..Len(puts) : puts[j].at # e
  IN [e \in DOMAIN blocks \cup to |-> IF e \in to THEN puts[last(e)].is ELSE blocks[e]]
\* What ends at another block than the last has the last byte of that block
\* set to zero.
Written(v) ==
  LET puts == AllPuts(v)
      end == 1 + Max({0} \cup {puts[i].at : i \in 1..Len(puts)})
      damage == IF end > v.space THEN <<Put(v.space - 1, [k |-> "damaged"])>> ELSE <<>>
  IN [size |-> Max({end, v.space}), blocks |-> Overlay(<<>>, puts \o damage)]

-----------------------------------------------------------------------------
(* open(): what is made of the blocks of a file, and what is refused.       *)

At0(img, e) == IF e \in DOMAIN img.blocks THEN img.blocks[e] ELSE Zero
IsDesc(img, e) == At0(img, e).k = "desc"
\* The descriptors one after the other from e, n at most.
DescsFrom(img, e, n) ==
  LET found == CHOOSE i \in 0..n : /\ i = n \/ ~IsDesc(img, e + i)
                                   /\ \A j \in 0..(i - 1) : IsDesc(img, e + j)
  IN [i \in 1..found |-> At0(img, e + i - 1).d]

\* _parse_volume_descriptors: the blocks from 16 up to one of another kind.
KindOf(b) ==
  IF b.k # "vs" THEN b.k
  ELSE CASE b.s.ident = "BEA01" -> "bea" [] b.s.ident \in {"NSR02", "NSR03"} -> "nsr"
         [] b.s.ident = "TEA01" -> "tea" [] b.s.ident = "BOOT2" -> "boot" [] OTHER -> "other"
HeaderKinds == HeaderNames \ {"version"}
HeaderExtents(img) ==
  LET header(e) == KindOf(At0(img, e)) \in HeaderKinds
  IN 16..((CHOOSE e \in 16..img.size : ~header(e) /\ \A x \in 16..(e - 1) : header(x)) - 1)
ReadHeader(img) ==
  LET is(b) == IF KindOf(b) = "boot" THEN [b EXCEPT !.s = ParseBoot(@)] ELSE b
      of(k) == InOrderOf({e \in HeaderExtents(img) : KindOf(At0(img, e)) = k})
  IN [k \in HeaderNames |->
        [i \in 1..Len(of(k)) |-> [extent |-> of(k)[i], is |-> is(At0(img, of(k)[i]))]]]
HeaderOpens(img, h) ==
  LET all(k, valid(_)) == \A i \in 1..Len(h[k]) : valid(At0(img, h[k][i].extent).s)
  IN /\ h["pvd"] # <<>> /\ h["vdst"] # <<>>
     /\ \A i \in 1..Len(h["pvd"]) : h["pvd"][i].is = h["pvd"][1].is
     /\ all("bea", BEAValid) /\ all("nsr", NSRValid) /\ all("tea", TEAValid) /\ all("boot", BootValid)
     /\ Len(h["nsr"]) <= 1 /\ Len(h["svd"]) <= 1
     /\ h["bea"] # <<>> => h["tea"] # <<>>

\* The version descriptor is the block after the terminator, or after TEA01,
\* when that begins with "MKI" or has only zeros.
ReadVersion(img, h) ==
  LET e == 1 + h[IF h["bea"] # <<>> THEN "tea" ELSE "vdst"][1].extent
  IN IF At0(img, e).k \in {"mki", "zero"} THEN <<[extent |-> e, is |-> At0(img, e)]>> ELSE <<>>

\* The two trees of directory records.
TablesOpen(img, d) ==
  /\ At0(img, d.le) = Table("le", d.root) /\ At0(img, d.be) = Table("be", d.root)
  /\ At0(img, d.root).k = "dir"
TreeOpens(img, d) ==
  /\ TablesOpen(img, d)
  /\ LET dir == At0(img, d.root)
     IN /\ dir.er # 0 => At0(img, dir.er).k = "er"
        /\ \A f \in DOMAIN dir.recs : dir.recs[f].ce # 0 => At0(img, dir.recs[f].ce).k = "ce"

\* The anchors: the places are tried in no particular order.
AnchorPlaces(img, space) ==
  {256, space - 257, space - 1, img.size - 1, img.size - 257}
AnchorExtents(img, space) ==
  {e \in AnchorPlaces(img, space) :
     IsDesc(img, e) /\ At0(img, e).d.tag.ident = 2 /\ TagValid(At0(img, e).d.tag, 2032)}
ReadAnchors(img, space) ==
  LET es == InOrderOf(AnchorExtents(img, space))
  IN [i \in 1..Len(es) |-> ParseDesc(At0(img, es[i]).d, es[i], es[i])]
AnchorsOpen(ms) ==
  /\ Len(ms) >= 2
  /\ \A i \in 1..Len(ms) : AnchorValid(ms[i].body) /\ SameAnchor(ms[i], ms[1])

Sequence(img, ad) == DescsFrom(img, ad.location, ad.length \div 2048)
SequenceOpens(img, ad) == SequenceValid(Sequence(img, ad), ad.location)
ReadSequence(img, ad) ==
  IF ad.length > 0 THEN ParseSequence(Sequence(img, ad), ad.location) ELSE NoSequence

IntegrityOpens(img, ad) ==
  ad.length > 0 =>
    /\ IsDesc(img, ad.location)
    /\ LET d == At0(img, ad.location).d IN d.tag.ident = 9 /\ DescValid(d)
    /\ ad.length >= 4096 =>
         /\ IsDesc(img, ad.location + 1)
         /\ LET d == At0(img, ad.location + 1).d IN d.tag.ident = 8 /\ DescValid(d)
ReadDescAt(img, e, loc) == <<ParseDesc(At0(img, e).d, e, loc)>>

\* parse_file_set: a terminator that is missing is made up.
FileSetOpens(img, e) ==
  /\ IsDesc(img, e)
  /\ LET d == At0(img, e).d IN d.tag.ident = 256 /\ DescValid(d)
  /\ IsDesc(img, e + 1) /\ At0(img, e + 1).d.tag.ident = 8 => DescValid(At0(img, e + 1).d)
ReadSetEnd(img, e) ==
  IF IsDesc(img, e + 1) /\ At0(img, e + 1).d.tag.ident = 8 THEN ReadDescAt(img, e + 1, 1)
  ELSE <<[NewDesc(8, NewTerminator) EXCEPT !.extent = e + 1, !.tag.loc = 1]>>

\* _walk_udf_directories
UdfTreeOpens(img, start, root) ==
  LET fe(b) == At0(img, start + b).k = "fe"
      idents == At0(img, start + At0(img, start + root).block)
  IN /\ fe(root) /\ idents.k = "idents"
     /\ \A f \in DOMAIN idents.recs : fe(idents.recs[f])
     /\ idents.catalog # 0 => fe(idents.catalog)

PartitionOpens(img, start) ==
  /\ FileSetOpens(img, start)
  /\ UdfTreeOpens(img, start, At0(img, start).d.body.root.block)
SequencesOpen(img, anchor, main) ==
  /\ SequenceOpens(img, anchor.main)
  /\ anchor.reserve.length > 0 => SequenceOpens(img, anchor.reserve)
  /\ main[5] # <<>> /\ main[6] # <<>>
  /\ IntegrityOpens(img, main[6][1].body.integrity)
  /\ PartitionOpens(img, main[5][1].body.start)
UdfOpens(img, anchors) ==
  /\ AnchorsOpen(anchors)
  /\ SequencesOpen(img, anchors[1].body, ReadSequence(img, anchors[1].body.main))

\* A volume that is smaller than its files has its size put right.
SpaceOf(img, pvd) ==
  LET recs == At0(img, pvd.root).recs
  IN Max({pvd.space} \cup {recs[f].ext + recs[f].len : f \in DOMAIN recs})

OpensFrom(img, h) ==
  /\ HeaderOpens(img, h)
  /\ \A i \in 1..Len(h["br"]) : At0(img, h["br"][i].is.catalog).k = "catalog"
  /\ TreeOpens(img, h["pvd"][1].is)
  /\ h["svd"] # <<>> => TreeOpens(img, h["svd"][1].is)
  /\ h["bea"] # <<>> => UdfOpens(img, ReadAnchors(img, SpaceOf(img, h["pvd"][1].is)))
Opens(img) == OpensFrom(img, ReadHeader(img))

\* Where a tree says that a file is, and how long: what a client that reads it
\* by that path is given.
PartitionStart(img, anchor) == ReadSequence(img, anchor.main)[5][1].body.start
UdfRecords(img, start) ==
  LET root == At0(img, start).d.body.root.block
      idents == At0(img, start + At0(img, start + root).block).recs
      record(f, fe) == [len |-> fe.len, bytes |-> fe.bytes, fe |-> start + idents[f],
                        ext |-> IF fe.len > 0 THEN start + fe.block ELSE 0]
  IN [f \in DOMAIN idents |-> record(f, At0(img, start + idents[f]))]
TreeRecords(img, h, t) ==
  LET dir(d) == At0(img, d.root).recs
  IN CASE t = "iso" -> dir(h["pvd"][1].is)
       [] t = "joliet" -> IF h["svd"] = <<>> THEN <<>> ELSE dir(h["svd"][1].is)
       [] t = "udf" ->
            IF h["bea"] = <<>> THEN <<>>
            ELSE UdfRecords(img, PartitionStart(img, ReadAnchors(img, SpaceOf(img, h["pvd"][1].is))[1].body))
RecordsIn(img, t) == TreeRecords(img, ReadHeader(img), t)
Contents(img, rec) == [i \in 1..rec.len |-> At0(img, rec.ext + i - 1)]

\* The numbers of UDF records of inodes are not counted again.
ReadFile(img, recs, in, f) ==
  LET rec == recs[CHOOSE t \in in : t = "iso" \/ "iso" \notin in][f]
  IN IF in = {} THEN NoFile
     ELSE [in |-> in, len |-> rec.len, bytes |-> [t \in in |-> recs[t][f].bytes],
           ext |-> rec.ext, numUdf |-> 0,
           fe |-> IF "udf" \in in THEN recs["udf"][f].fe ELSE 0,
           ce |-> IF "iso" \in in /\ rec.ce # 0 THEN "own" ELSE "none",
           data |-> Contents(img, rec)]
ReadFiles(img, recs) ==
  [f \in Files |-> ReadFile(img, recs, {t \in Trees : f \in DOMAIN recs[t]}, f)]

ReadPartition(img, v, start) ==
  LET root == start + At0(img, start).d.body.root.block
      idents == start + At0(img, root).block
  IN [v EXCEPT
        !.set = ReadDescAt(img, start, 0), !.setEnd = ReadSetEnd(img, start),
        !.at = [v.at EXCEPT
                  !.root = root, !.idents = idents,
                  !.catalogFe = IF v.catalog THEN start + At0(img, idents).catalog ELSE 0]]
ReadUdf(img, v, anchors, main) ==
  LET integrity == main[6][1].body.integrity
      last == integrity.location + 1
  IN [ReadPartition(img, v, main[5][1].body.start) EXCEPT
        !.udf = TRUE, !.anchors = anchors, !.main = main,
        !.reserve = ReadSequence(img, anchors[1].body.reserve),
        !.lvid = IF integrity.length = 0 THEN <<>>
                 ELSE ReadDescAt(img, integrity.location, integrity.location),
        !.lvidEnd = IF integrity.length < 4096 THEN <<>> ELSE ReadDescAt(img, last, last)]

\* _open_fp
ReadPlaces(img, h, files) ==
  LET pvd == h["pvd"][1].is
      dir == At0(img, pvd.root)
      joliet == h["svd"] # <<>>
      svd == h["svd"][1].is
  IN [NoPlaces EXCEPT
        !.le = pvd.le, !.be = pvd.be, !.iso = pvd.root,
        !.jle = IF joliet THEN svd.le ELSE 0, !.jbe = IF joliet THEN svd.be ELSE 0,
        !.joliet = IF joliet THEN svd.root ELSE 0,
        !.er = dir.er,
        !.ce = IF \A f \in Files : files[f].ce = "none" THEN 0
               ELSE dir.recs[CHOOSE f \in DOMAIN dir.recs : dir.recs[f].ce # 0].ce,
        !.catalog = IF h["br"] # <<>> THEN h["br"][1].is.catalog ELSE 0]
ReadVolume(img, h, files) ==
  LET pvd == h["pvd"][1].is
      svd == h["svd"][1].is
      catalog == h["br"] # <<>>
      joliet == h["svd"] # <<>>
      rr == At0(img, pvd.root).er # 0
  IN [NoVolume EXCEPT
        !.joliet = joliet, !.rr = rr, !.head = [h EXCEPT !["version"] = ReadVersion(img, h)],
        !.at = ReadPlaces(img, h, files),
        !.tables = pvd.be - pvd.le, !.jtables = IF joliet THEN svd.be - svd.le ELSE 0,
        !.blocks = ({files[f].ce : f \in Files} \ {"none"}) \cup (IF rr THEN {"er"} ELSE {}),
        !.files = files, !.catalog = catalog,
        !.boot = IF catalog THEN {f \in Files : files[f].in # {} /\ files[f].len > 0
                                    /\ files[f].ext \in At0(img, h["br"][1].is.catalog).boot}
                 ELSE {},
        !.shared = {f \in Files : files[f].in # {} /\ files[f].len = 0},
        !.space = SpaceOf(img, pvd)]
WithUdf(img, v) ==
  LET anchors == ReadAnchors(img, v.space)
  IN IF v.head["bea"] = <<>> THEN v
     ELSE ReadUdf(img, v, anchors, ReadSequence(img, anchors[1].body.main))
ReadFrom(img, h) ==
  WithUdf(img, ReadVolume(img, h, ReadFiles(img, [t \in Trees |-> TreeRecords(img, h, t)])))
Read(img) == ReadFrom(img, ReadHeader(img))

-----------------------------------------------------------------------------
(* The calls.                                                               *)

Init ==
  /\ vol = NoVolume /\ truth = [f \in Files |-> Nothing]
  /\ image = NoImage /\ holds = [f \in Files |-> Nothing] /\ source = NoImage
  /\ cdfp = FALSE /\ attached = FALSE /\ calls = 0 /\ raised = "none"

\* A change to the volume: it is laid out when that is asked for.
Change(v, t) ==
  /\ calls < MaxCalls /\ calls' = calls + 1
  /\ vol' = v /\ truth' = t /\ attached' = FALSE /\ raised' = "none"
  /\ UNCHANGED <<image, holds, source, cdfp>>
UdfFiles(v, n) ==
  IF v.lvid = <<>> THEN v ELSE [v EXCEPT !.lvid[1].body.use.files = @ + n]

\* What a volume was before leaves nothing behind (_initialize), so one life
\* is enough.
New(udf, joliet, rr) ==
  /\ vol = NoVolume /\ image = NoImage
  /\ vol' = NewVolume(udf, joliet, rr)
  /\ raised' = "none"
  /\ UNCHANGED <<truth, image, holds, source, cdfp, attached, calls>>

\* add_fp.  The continuation of a long name goes to the first block there is.
ContinuationBlock(v) ==
  IF "er" \in v.blocks THEN "er" ELSE "own"
AddFile(f, len, in, long) ==
  LET udf == "udf" \in in
      ce == IF long THEN ContinuationBlock(vol) ELSE "none"
      file == [in |-> in, len |-> len, bytes |-> [t \in in |-> Bytes(len, calls + 1)],
               ext |-> 0, fe |-> 0, numUdf |-> IF udf THEN 1 ELSE 0, ce |-> ce,
               data |-> [i \in 1..len |-> Data(f, calls + 1, i)]]
      v == [UdfFiles(vol, IF udf THEN 1 ELSE 0) EXCEPT
              !.files[f] = file, !.blocks = IF long THEN @ \cup {ce} ELSE @]
  IN /\ vol # NoVolume /\ vol.files[f].in = {} /\ in \subseteq TreesOf(vol)
     /\ long => vol.rr /\ "iso" \in in
     /\ ce = "er" => "er_block" \in Faults
     /\ len = 0 /\ (\E g \in Present(vol) : vol.files[g].len = 0) => "empty_files" \in Faults
     /\ Change(FinishAdd(v, 0, len + (IF udf THEN 1 ELSE 0)
                              + (IF long /\ vol.blocks = {} THEN 1 ELSE 0)),
               [truth EXCEPT ![f] = [in |-> in, len |-> len, ver |-> calls + 1]])

\* rm_file, of all records of the inode.  The continuation entry is not given
\* back, nor its block.
CanRemove_any(f) == f \in Present(vol)
CanRemove(f) == f \in Present(vol) \ vol.boot
RmFile(f) ==
  LET file == vol.files[f]
      udf == "udf" \in file.in
      gone == IF f \in vol.shared THEN vol.shared ELSE {f}
      v == [UdfFiles(vol, -Cardinality(gone \cap InTree(vol, "udf"))) EXCEPT
              !.files = [g \in Files |-> IF g \in gone THEN NoFile ELSE vol.files[g]],
              !.shared = @ \ gone]
  IN /\ CanRemove(f)
     /\ udf /\ file.numUdf # 1 => "reopened_udf" \in Faults
     /\ (file.ce # "none" /\ \A g \in Present(vol) \ {f} : vol.files[g].ce # file.ce)
          => "long_removed" \in Faults
     /\ Change(FinishRemove(v, file.len + (IF udf /\ file.numUdf = 1 THEN 1 ELSE 0)),
               [truth EXCEPT ![f] = Nothing])

\* add_eltorito and rm_eltorito.  On a UDF volume the boot record is in the
\* blocks that are there anyway.
BootRecordBlocks_always(v) == 1
BootRecordBlocks(v) == IF v.udf THEN 0 ELSE 1
CatalogBlocks(v) == 1 + (IF v.udf THEN 1 ELSE 0)
AddElTorito(f) ==
  LET listed == [vol EXCEPT !.boot = @ \cup {f}]
      first == [UdfFiles(listed, IF vol.udf THEN 1 ELSE 0) EXCEPT
                  !.catalog = TRUE, !.head["br"] = Append(@, NoEntry)]
  IN /\ vol # NoVolume /\ "iso" \in vol.files[f].in /\ f \notin vol.boot
     /\ vol.files[f].len > 0
     /\ Change(IF vol.catalog THEN FinishAdd(listed, 0, 0)
               ELSE FinishAdd(first, 0, BootRecordBlocks(vol) + CatalogBlocks(vol)), truth)
RmElTorito ==
  LET v == [UdfFiles(vol, IF vol.udf THEN -1 ELSE 0) EXCEPT
              !.catalog = FALSE, !.boot = {}, !.head["br"] = Tail(@)]
  IN /\ vol.catalog
     /\ Change(FinishRemove(v, BootRecordBlocks(vol) + CatalogBlocks(vol)), truth)

DuplicatePvd ==
  /\ vol # NoVolume
  /\ vol.udf => "duplicate_pvd_udf" \in Faults
  /\ Change(FinishAdd([vol EXCEPT !.head["pvd"] = Append(@, NoEntry)], 1, 0), truth)

\* force_consistency; with always_consistent every change ends with it.
ForceConsistency ==
  /\ vol # NoVolume
  /\ raised' = LayoutRaises(vol)
  /\ vol' = IF raised' = "none" THEN LaidOut(vol).vol ELSE vol
  /\ attached' = FALSE
  /\ UNCHANGED <<truth, image, holds, source, cdfp, calls>>

\* write_fp, to a new file: the one that was read is left as it is, and is not
\* looked at again.
WriteAs(raises, v) ==
  /\ raised' = raises /\ attached' = FALSE
  /\ IF raises = "none" THEN vol' = v /\ image' = Written(v) /\ holds' = truth /\ cdfp' = FALSE
                         ELSE UNCHANGED <<vol, image, holds, cdfp>>
  /\ UNCHANGED <<truth, source, calls>>
Write ==
  /\ vol # NoVolume
  /\ WriteAs(IF vol.pending THEN LayoutRaises(vol) ELSE "none",
             IF vol.pending THEN LaidOut(vol).vol ELSE vol)

Close ==
  /\ vol # NoVolume
  /\ vol' = NoVolume /\ truth' = [f \in Files |-> Nothing]
  /\ cdfp' = FALSE /\ attached' = FALSE /\ raised' = "none"
  /\ UNCHANGED <<image, holds, source, calls>>

\* open, of a file that was written or of one of another tool
Open ==
  /\ vol = NoVolume /\ image # NoImage
  /\ IF Opens(image)
     THEN /\ vol' = Read(image) /\ truth' = holds
          /\ cdfp' = TRUE /\ attached' = TRUE /\ raised' = "none"
     ELSE raised' = "invalid" /\ UNCHANGED <<vol, truth, cdfp, attached>>
  /\ UNCHANGED <<image, holds, source, calls>>
OpenForeign(x) ==
  /\ vol = NoVolume /\ image = NoImage /\ x.needs \subseteq Faults
  /\ IF Opens(x.image)
     THEN /\ vol' = Read(x.image) /\ truth' = x.holds
          /\ cdfp' = TRUE /\ attached' = TRUE /\ raised' = "none"
          /\ image' = x.image /\ holds' = x.holds /\ source' = x.image
     ELSE /\ raised' = "invalid"
          /\ UNCHANGED <<vol, truth, cdfp, attached, image, holds, source>>
  /\ UNCHANGED calls

\* modify_file_in_place, of the file that was read: the descriptors, the data,
\* and the records of the inode at the places that the volume knows them by.
\* open() links the record of the ISO9660 tree, then the El Torito entry, then
\* the records of Joliet and of UDF; at an entry the loop over them raises.
Rewritten_iso(v, f) == {"iso"}
Rewritten(v, f) == IF f \in v.boot THEN {"iso"} ELSE v.files[f].in
Modified(v, f, ver) ==
  LET file == v.files[f]
  IN [v EXCEPT !.files[f] = [file EXCEPT
        !.data = [i \in 1..file.len |-> Data(f, ver, i)],
        !.bytes = [t \in file.in |->
                     IF t \in Rewritten(v, f) THEN Bytes(file.len, ver) ELSE file.bytes[t]]]]
InPlacePuts(v, f) ==
  LET file == v.files[f]
      rec(t, at) == IF t \in Rewritten(v, f)
                    THEN <<Put(at, [At0(image, at) EXCEPT !.recs[f] = DirBlock(v, t).recs[f]])>>
                    ELSE <<>>
      start == v.set[1].extent
  IN <<Put(v.head["pvd"][1].extent, PvdBlock(v))>>
     \o (IF v.joliet THEN <<Put(v.head["svd"][1].extent, SvdBlock(v))>> ELSE <<>>)
     \o DataPuts(v, <<f>>) \o rec("iso", v.at.iso) \o rec("joliet", v.at.joliet)
     \o (IF "udf" \notin Rewritten(v, f) THEN <<>>
         ELSE <<Put(file.fe, FileEntry(file.fe - start, file.len, file.bytes["udf"],
                                       IF file.len > 0 THEN file.ext - start ELSE 0))>>)
ModifyInPlace(f) ==
  LET v == Modified(vol, f, calls + 1)
  IN /\ vol # NoVolume /\ cdfp /\ "iso" \in vol.files[f].in
     /\ ~attached => "late_in_place" \in Faults /\ truth[f] = holds[f]
     /\ f \in vol.boot => "boot_in_place" \in Faults /\ attached
     /\ calls < MaxCalls /\ calls' = calls + 1
     /\ vol' = v /\ truth' = [truth EXCEPT ![f].ver = calls + 1]
     /\ image' = [image EXCEPT !.blocks = Overlay(@, InPlacePuts(v, f))]
     /\ holds' = [holds EXCEPT ![f].ver = calls + 1]
     /\ raised' = IF f \in vol.boot THEN "internal" ELSE "none"
     /\ UNCHANGED <<source, cdfp, attached>>

Next ==
  \/ \E k \in Kinds : New(k.udf, k.joliet, k.rr)
  \/ \E f \in Files, len \in Lengths, in \in Placements, long \in BOOLEAN : AddFile(f, len, in, long)
  \/ \E f \in Files : RmFile(f) \/ AddElTorito(f) \/ ModifyInPlace(f)
  \/ RmElTorito \/ DuplicatePvd \/ ForceConsistency \/ Write \/ Close \/ Open
  \/ \E x \in Foreign : OpenForeign(x)

Spec == Init /\ [][Next]_vars

-----------------------------------------------------------------------------
(* Properties.                                                              *)

TypeOK ==
  /\ DOMAIN vol = DOMAIN NoVolume
  /\ vol.space \in Nat /\ vol.boot \subseteq Present(vol) /\ vol.blocks \subseteq {"er", "own"}
  /\ \A f \in Files : /\ vol.files[f].in \subseteq TreesOf(vol)
                       /\ Len(vol.files[f].data) = vol.files[f].len
  /\ calls \in 0..MaxCalls /\ attached \in BOOLEAN
  /\ raised \in {"none", "internal", "index", "invalid"}

\* Whatever is done to a volume, the walk over it ends without an exception,
\* and open() takes what write_fp() or modify_file_in_place() left: the
\* anchors are where it looks for them, every descriptor and directory is
\* where another says it is.
WrittenOpens ==
  /\ raised \notin {"internal", "index"}
  /\ image # NoImage => Opens(image)

\* A file that is read through any of its paths is what the client last put
\* there, in its whole length, and a path that the client has not asked for
\* leads nowhere.
FilesIntact ==
  image # NoImage /\ Opens(image) =>
    \A t \in Trees :
      LET recs == RecordsIn(image, t)
      IN \A f \in Files :
           /\ f \in DOMAIN recs <=> t \in holds[f].in
           /\ f \in DOMAIN recs =>
                /\ Contents(image, recs[f]) = [i \in 1..holds[f].len |-> Data(f, holds[f].ver, i)]
                /\ recs[f].bytes = Bytes(holds[f].len, holds[f].ver)

\* The size that was added up call by call is what the walk needs, in the
\* volume descriptors as in the UDF partition and in the integrity descriptor,
\* and nothing is written over anything else.
EndsAt(end) ==
  /\ vol.space = end + (IF vol.udf THEN 1 ELSE 0)
  /\ vol.udf => /\ \A s \in {vol.main, vol.reserve} : s[5][1].body.length = end - PartStart
                /\ vol.lvid[1].body.sizes[1] = end - PartStart
PutApart(puts) == Cardinality({puts[i].at : i \in 1..Len(puts)}) = Len(puts)
SpaceExact ==
  vol # NoVolume /\ source = NoImage =>
    EndsAt(LaidOut(vol).end) /\ PutApart(AllPuts(LaidOut(vol).vol))

\* A rewritten image of another tool has the UDF descriptors it had, but for
\* where things are and how much there is of them.
Lasting(d) ==
  LET b == d.body
  IN [tag |-> [d.tag EXCEPT !.loc = 0],
      body |-> CASE d.tag.ident = 5 -> [b EXCEPT !.start = 0, !.length = 0]
                 [] d.tag.ident = 6 -> [b EXCEPT !.integrity.location = 0]
                 [] d.tag.ident = 9 -> [b EXCEPT !.unique = 0, !.sizes = <<>>, !.use.files = 0]
                 [] OTHER -> b]
RawDescriptors(img) ==
  LET h == ReadHeader(img)
      anchor == ReadAnchors(img, SpaceOf(img, h["pvd"][1].is))[1].body
      kinds(ad) ==
        LET ds == Sequence(img, ad)
            read == SubSeq(ds, 1, LastBlock(ds))
        IN [k \in DOMAIN NewSequence |->
              LET of == SelectSeq(read, LAMBDA d : d.tag.ident = k)
              IN [i \in 1..Len(of) |-> Lasting(of[i])]]
      main == ReadSequence(img, anchor.main)
      integrity == main[6][1].body.integrity
  IN [main |-> kinds(anchor.main),
      reserve |-> IF anchor.reserve.length > 0 THEN kinds(anchor.reserve) ELSE NoSequence,
      integrity |-> IF integrity.length = 0 THEN {} ELSE {Lasting(At0(img, integrity.location).d)},
      set |-> Lasting(At0(img, main[5][1].body.start).d),
      structures |-> [k \in {"bea", "boot", "nsr", "tea"} |->
                        [i \in 1..Len(h[k]) |-> At0(img, h[k][i].extent)]]]
DescriptorsKept ==
  source # NoImage /\ ReadHeader(source)["bea"] # <<>> /\ Opens(image) =>
    RawDescriptors(image) = RawDescriptors(source)
=============================================================================
