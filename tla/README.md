# A TLA+ model of pycdlib

pycdlib reads, changes and writes ISO9660 images (with Rock Ridge, Joliet, El
Torito and UDF).  It is a single-threaded Python library.  It keeps the whole
image as objects in memory; every operation changes several of them and a count
of the blocks the image will have, and the positions of things on the image are
worked out later, when it is written (or at once with `always_consistent`).  What is
hard here is therefore not concurrency but redundancy: the same fact is kept in
several objects, each updated by other code, and an operation that raises in the
middle leaves what it has done so far.  Sequences of legal calls are what the
models enumerate.

## The parts of the system

| Part | State | Operations | Must hold | Module |
|---|---|---|---|---|
| Link bookkeeping (`pycdlib.py`, `inode.py`) | `self.inodes`; `inode.linked_records`, `num_udf`; `rec.inode`, `rec.data_continuation`; the listings; UDF `num_files`; the volume size | `add_fp`, `add_hard_link`, `rm_hard_link`, `rm_file` | both directions of a link agree; data stays exactly as long as something names it; every block charged is refunded once; no "should never happen" | `HardLinks`, `FileStore` |
| El Torito (`pycdlib.py`, `eltorito.py`) | boot records, catalog, its directory records, its entries | `add_eltorito` (first and further), `rm_eltorito`, links to the catalog, `_parse_el_torito` | the catalog's records are those of the listing; boot data stays; boot files are found again | `HardLinks`, `VolumeLayout` |
| Directory records (`dr.py`) | sorted children, Rock Ridge children, position and index of each child, length, copies of the length in `.` and `..`, link counts | `_add_child`, `remove_child`, the lookups | sorted, packed, long enough, found | `DirRecord` |
| Rock Ridge entries (`rockridge.py`) | the entries of a record and of its continuation, its name and version, `dr_len` | `new`, `parse`, `record`, link counts, CL and PL updates | what is written is as long as announced and reads back, however names and targets are split | `RockRidgeEntries` |
| Continuation area (`rockridge.py`, `headervd.py`) | `rr_ce_blocks` and the entries in each; each record's `ce_block` and offset | `add_rr_ce_entry`, `track_rr_ce_entry`, `remove_entry`, layout | continuations do not overlap, the places are tracked, what is written reads back | `ContinuationArea` |
| Deep directories and path tables | the tree, the cached `RR_MOVED` record, CL and RE records; `path_tbl_size` and `path_table_num_extents` of each volume descriptor | `add_directory`, `rm_directory`, `duplicate_pvd`, writing and opening | the client sees a plain tree; links resolve; tables and volume size exact | `RelocatedDirs`, `DirTree` |
| Volume layout, writing, opening (`pycdlib.py`, `headervd.py`) | extents of everything; `space_size`; the UDF partition's and the integrity descriptor's sizes; `_needs_reshuffle` | `new`, `open`, `_reshuffle_extents`, `_finish_add`, `_finish_remove`, `write_fp`, `modify_file_in_place`, `close` | areas apart; the size charged is the size needed; what is written opens and has the files | `VolumeLayout` |
| UDF descriptors (`udf.py`) | the volume descriptor sequences, anchors, integrity and file set descriptors | `new`, `parse`, `record` of each | an image keeps the descriptors it came with | `UdfDescriptors` (operators), `VolumeLayout` |
| UDF tree (`udf.py`, `pycdlib.py`) | file entries, file identifiers that span blocks, link counts, unique ids | add and remove identifiers, `_udf_assign_extents`, lookup, walking an image | identifiers contiguous, counts right, names found, the tree reads back | `UdfDirectory` |
| Streams and reading (`pycdlibio.py`, `inode.py`, `utils.py`) | offset and length of a stream; the position of a file object that all share | `open_file_from_iso`, `read`, `readinto`, `seek`, `close`; `get_file_from_iso`; the copying of `write_fp` | each reader gets the bytes of its own file | `FileAccess` |
| Lookup caches; isohybrid; names, facades, dates, exceptions; command line tools | | | | not modelled, see below |

The parts meet in class `PyCdlib`: an operation finds a record (directory
records, caches), changes the links (link bookkeeping), inserts or removes the
record (directory records), places its overflow (continuation area), adds up what
it took and hands the sum to the volume size; writing runs the layout first.

## Module `HardLinks` and its abstract specification `FileStore`

`FileStore` is the promise: a path names at most one piece of data, El Torito
names data too, and data is stored exactly as long as it is named.

`HardLinks` is the code.  `Rec` are the `DirectoryRecord` and `UDFFileEntry`
objects and `Data` the `Inode` objects; `listing` is what the directories list
under a path, in order, `ino`, `cont` and `linked` are `rec.inode`,
`rec.data_continuation` and `inode.linked_records`.  `space` is a ledger of what
was charged to the volume: for the data of an inode, for the UDF File Entry
block its UDF names share, and for everything else.  A public operation is a
*call*: `AddFp`, `AddHardLink`, `LinkBootCatalog`, `AddEltorito`, `AddSection`,
`RmHardLink`, `RmFile` and `RmEltorito` start one, and the helpers are its steps.

| Action | Code |
|---|---|
| `Link` | `_add_hard_link_to_inode` for one path |
| `Track`, `NextSegment` | the rest of the loop of `_add_fp`: `self.inodes.append`, the next 4 GiB segment |
| `FinishAdd`, `FinishRemove` | `_finish_add`, `_finish_remove`: the charges reach the volume |
| `Refuse` | an exception for the path in hand: no such directory, bad name, ... |
| `RmDrLink`, `RmDrLinkFails` | one iteration of `_rm_dr_link`, `remove_child` included |
| `RmUdfLink` | `_rm_udf_link` |
| `NextLink` | the loop of `_rm_file_inodes` over the links |
| `NextCatalogRecord`, `FinishRmEltorito` | the loop and the end of `rm_eltorito` |

A step that raises ends the call and leaves what it has changed; what was charged
so far is lost, as `num_bytes_to_add` is a local variable.

Abstractions: one directory per file system, so that an index that is stale
after a removal may hit any child of it (`Delete` is a set of outcomes); names
and sizes are model values; the bytes of directories (see `DirRecord`) and of
continuation entries (see `ContinuationArea`) are not charged here; which
directory a path is in does not matter to the links.  Symbolic links and the
boot info table are left out.  `add_eltorito` of the boot catalog's own path is a
precondition of `AddEltorito` and `AddSection`: the code raises an internal error, before it
changes anything.

The *circumstances* are uses of the interface that the code accepts and does not
handle.  A configuration allows some of them through `Faults`:

| Circumstance | What happens | Breaks |
|---|---|---|
| `partial_add` | a path refused after an earlier one was linked: the inode is not in `self.inodes` | `NoInternalError` |
| `duplicate` | any file under a taken name becomes a continuation of the first | `NamesAreFiles` |
| `hide_catalog` | `rm_hard_link` of a catalog record, then `rm_eltorito`: another file goes | `RemovalIsSelective` |
| `link_catalog` | `add_hard_link` from the catalog's path: a record without data that is never placed | `LinksMatch` |
| `link_big_file` | `add_hard_link` or `add_eltorito` of a file of several records: the first part only | `NamesAreFiles` |
| `rm_hidden_boot` | `rm_eltorito` when a boot file has no path left: the data stays for ever | `DataIffNamed` |

Two more need no circumstance: a file of several segments removed through its
UDF path, which removes one segment (breaks `WholeFiles`), and files of three segments
(`BigFiles <- ThreeSegments`), which the directory lists as 1, 3, 2.

To see one of them, put its name into `Faults` of the configuration named after
the module and run TLC; the same goes for the other modules.

## Module `ContinuationArea`

`blocks` is `pvd.rr_ce_blocks`, `ce` the CE record of every record in the tree:
which block, offset and length.  `Add` is `_update_rr_ce_entry` with
`add_rr_ce_entry` and the first-fit of `RockRidgeContinuationBlock.add_entry`,
`AddRelocated` is `add_directory` at depth 8, which leaves a CL record behind,
`RmDirectory` is `rm_directory`, which gives the entry back, `RmFile` the removals
that do not, and `Reopen` is writing the image (layout included) and opening the
result: the blocks are numbered anew, in the order the tree is walked.  `Init` is
a new image or any image whose places parse.  `charged` counts the blocks of the
volume size meant for the area.  `Reopen` fails with `no_place` (an offset of -1
cannot be written), `no_space` (the layout is longer than the volume, when
nothing else left slack) or `overlap` (`track_entry` refuses).

The order in which a tree is walked is any order with the root's `.` record,
which has the ER record, first.

Deviations of the code that the model shows: a full first block
(`ContinuationArea_full`), a block that is never charged after reopening (the ER
record's, when it shares one with other records: breaks `EnoughSpace`), and the CL record whose continuation is never
placed; the last is why `ReadsBack` has its exception.

## Module `DirRecord`

One directory: `children` and `rrChildren` are the two sorted lists, `pos` the
attributes `extents_to_here`, `offset_to_here` and `index_in_parent` of each
child, `dataLength`, `dot` and `dotdots` its length and the copies of it in its `.`
and in the `..` of the directories below, `links` its Rock Ridge link count and
`charged` what callers charged to the volume.  `AddFile`, `AddDirectory`,
`AddDirectoryFails` and `Remove` are `add_child` and `remove_child` with the
parts of their callers that touch the directory.  `Repack` is
`_recalculate_extents_and_offsets` from an index on: it trusts the places before
that index, as the code does.  Names are numbers in the library's own sorting
order.

`CountsFit` relates the five counts of a directory: the blocks its records need,
its length, the copies of that, the charge and the links.

Deviations: `remove_child` leaves `rr_children` alone, so a removed record is
still found by its Rock Ridge name, which is why `LookupFinds` only speaks of names
that are there;
a directory that is refused as a duplicate has already been counted in `links`,
which is why `CountsFit` has an inequality for them; a new directory's `..` has a
length of one block, whatever its parent's, until that changes, which
`CountsFit` allows; and `_find_rr_record` reads `rr_children` at the end
of its search before it looks whether that place exists, so a name that sorts
last is an `IndexError`, which changes no state and is not modelled.

## Module `RelocatedDirs` and its abstract specification `DirTree`

`DirTree` is the promise: a client adds directories below existing ones and
removes empty ones, and sees the tree it made.

`RelocatedDirs` is what the code does for it.  `obj` are the `DirectoryRecord`
objects with their `children`, `parent`, identifier and the two attributes that
join a child link and the directory it stands for; `rrMoved` is the cached
`_rr_moved_record`; `pvds` has the path table sizes of every primary volume
descriptor and `space` the blocks charged.  `AddDirectory` and `AddRelocated` are the two
ways through `add_directory`, `RmDirectory` and `RmRelocated` those through
`rm_directory`, and the two actions that end in `Raises` stop where the code
does and leave what it has done.  `Reopen` is writing and opening the image.
Objects that nothing refers to are forgotten (`Collect`), as Python does; a
removed `RR_MOVED` is still referred to by the cache.

Left out: Rock Ridge is always on and `enhanced_vd` is not (without Rock Ridge a
path has at most seven names, with an enhanced descriptor nothing is
relocated); the Joliet and UDF parts of the two calls; clients that put things
into `RR_MOVED` themselves; and the removal of a directory that a dangling link
leads to, which deletes by a stale index.

| Circumstance | What happens | Breaks |
|---|---|---|
| `stale_rr_moved` | after `RR_MOVED` was removed, or an image with relocated directories opened, the cache has another record, and the next deep directory goes there | `BelowRrMoved`, `LinksResolve`, `DirTreeSpec` |
| `duplicate_pvd` | the duplicate starts with `path_table_num_extents` 0: the first `rm_directory` raises "Extent number should never grow" after the directory is out of its parent; each table grown is charged once per descriptor, and refunded so after reopening | `NoInternalError`, `SpaceExact` |

The run `RelocatedDirs_careless` has both: `NamesApart` and `LinksMutual` survive them.

## Module `RockRidgeEntries`

One directory record.  `Create` is `RockRidge.new` with everything it decides: first
without a CE entry, then, if `dr_len` is beyond 254, with one; how a name is split
over NM entries (`NamePieces`) and a target over SL entries and, in them, over components
(`PlaceComponent` is one turn of the loops of `_new_symlink`); the
estimate of what a target takes, which need not be what it then takes.  `Write` is
`record_dr_entries` and `record_ce_entries`, `Open` both calls of `parse` and what
they conclude about the version, `AddToFileLinks`, `RemoveFromFileLinks`, `ChildLinkUpdate` and
`ParentLinkUpdate` the changes that are made later, `OpenForeign` the entries of
another tool, of every kind that the parser knows.  A name or a component is an
interval of the text it was sliced from, so that a piece that is lost, doubled or
out of order shows.  `AreasExact` says that the two areas are as long as
`dr_len` and the CE entry announce; `ReadsBack` that name and target are whole;
`ForeignKept` that entries of other tools are written again.

| Circumstance | What happens | Breaks |
|---|---|---|
| `many_components` | a target of many components takes more than was estimated, and the rest is put into a continuation that no CE entry points to | `AreasExact`, `ReadsBack` |
| `new_version` | a record of Rock Ridge 1.12 whose areas differ in what they tell of it: the version is inferred for each area, the one read last counts, and it decides how long PX is when it is written again | `WrittenOpens`, `AreasExact`, `ForeignKept` |
| `device` | the PN entry of another tool's device is parsed and never written, so that the record is shorter than it says | `AreasExact`, `ForeignKept`, `WrittenOpens` |

Left out besides dates, modes and owners: names of more than 193 bytes at interchange level 4, which raise.  The AL
entry is only ever parsed.

## Modules `UdfDescriptors` and `VolumeLayout`

`UdfDescriptors` has no state: for each kind of UDF descriptor what `new` makes, what
`parse` refuses, what it keeps and what `record` writes.

`VolumeLayout` is a volume from `new` or `open` to `write_fp`.  `vol` is the `PyCdlib`
object: the volume descriptors in their lists, the UDF sequences, the files with the
trees they are in, the boot catalog, the continuation blocks and the size; `LaidOut` is
`_reshuffle_extents` in its order, `AllPuts` what `_write_fp` writes where,
`Opens`, `ReadHeader`, `ReadSequence`, `ReadAnchors` and `ReadVolume` are `open` with what it
refuses.  `AddFile`, `RmFile`, `AddElTorito`, `RmElTorito`, `DuplicatePvd` charge and
refund what the code does; `ForceConsistency`, `Write`, `ModifyInPlace`, `Close` and `Open`
are the rest of a session.  `OpenForeign` takes an image of another tool.

`SpaceExact` compares the two ways in which the size comes about, in all the places it is
kept.  That matters most for UDF: open looks for an anchor in the last block, and the
layout puts one behind the last thing it lays out.  `WrittenOpens` and `FilesIntact` read
the image: it opens, and each file has its last contents under each of its paths and no
other.  `DescriptorsKept` compares the UDF descriptors of a rewritten image with those it
came with.

Lengths are in blocks.  The lengths in bytes, which each tree has in a record of its own, may change within the
blocks when a file is modified in place; of those (`bytes`) the model tells only the versions of a file apart, and
`FilesIntact` asks that every record has the length of the last one.  `ModifyInPlace` writes to the file that was opened
(`_cdfp`; `cdfp` says that it is `image`): the volume descriptors, the data, then the records that hang on the
inode, in their order, up to the first that is neither a directory record nor a UDF file entry (`Rewritten`).
After `write_fp`, which writes to another file, the one in hand is that no more, and `modify_file_in_place` would
change the old one; this is not modelled.

`MCVolumeLayout` has the foreign images: `Accepted` are volumes with richer descriptors than
the library writes (an offset from UTC, two partitions, tables of free space, tags with a
short CRC or a wrong location, no integrity descriptor, small path tables, padding), `Refused` are
volumes with one thing wrong each, and `Apart` those that need a circumstance:

| Circumstance | What happens | Breaks |
|---|---|---|
| `duplicate_pvd_udf` | `duplicate_pvd` on a UDF volume is charged once and moves everything by a block | `SpaceExact` |
| `er_block` | opened, then a long Rock Ridge name added: the ER record's continuation is laid out besides the block it was read from | `SpaceExact` |
| `long_removed` | the continuation block of the last long name on a UDF volume is neither kept nor refunded | `SpaceExact` |
| `reopened_udf` | `open` does not count UDF links in `num_udf`, so a file removed then keeps the charge for its file entry; the size ends beyond the last anchor | `SpaceExact`, `WrittenOpens` |
| `empty_files` | all empty UDF files of an opened image are links of one inode | `SpaceExact` |
| `late_in_place` | `modify_file_in_place` after another change writes at extents of the object, not of the file on disk | `WrittenOpens`, `FilesIntact`, `SpaceExact` |
| `boot_in_place` | `modify_file_in_place` of a boot file: the loop over `linked_records` meets the El Torito entry and raises "Invalid record type".  Data and the ISO9660 record are on disk by then, the lengths in the Joliet record and the UDF file entry, which come after the entry, are the old ones | `WrittenOpens`, `FilesIntact` |
| `many_anchors` | three anchors: the layout knows of two | `WrittenOpens` |
| `no_reserve`, `long_sequence`, `root_elsewhere`, `pointer`, `slack`, `table_gap` | images of other tools that the layout has no place for | `WrittenOpens` |
| `short_ad` | the type of an extent is masked off and not written again | `DescriptorsKept` |

## Module `UdfDirectory`

The UDF tree.  `ents` are the `UDFFileEntry` objects with their identifiers, allocation
descriptors and counts, `inos` the inodes; `Find` is the lookup by path, which tries the encodings as
the code does; `LaidOut` is `_udf_assign_extents` with the running offset that says in which
block an identifier begins; `Written` is what is written, and `Read` is the
walk of `_walk_udf_directories`.  The calls are `add_directory`, `add_fp`, `add_symlink`,
`add_hard_link`, `rm_directory`, `rm_file` and `rm_hard_link` with UDF paths only;
`ReopenZeroed` opens an image in which one file entry is zeroed, which the code allows.
`TreeKept` is about names and contents, in memory and on the image; `LayoutExact` about
blocks, tags, counts and the size charged.

| Circumstance | What happens | Breaks |
|---|---|---|
| `duplicate_name` | a name that is taken is accepted | `TreeKept` |
| `rm_file_as_dir` | `rm_directory` of a file takes its entry and two blocks | `LayoutExact` |
| `reopened_udf`, `empty_files` | as in `VolumeLayout` | `LayoutExact` |
| `linked_symlink` | a hard link to a symbolic link has no target | `TreeKept` |
| `zero_entry` | a volume with a zeroed file entry is laid out as if it had a block | `LayoutExact` |

With `Ucs2 <- Clashing` names of the two encodings are the same bytes, and looking up one
finds the other: `TreeKept` breaks.  The run has `InUcs2`, where they are not; as duplicates are
excluded too, no two identifiers of a directory have the same bytes in it, and which of them a lookup
or a removal takes is not put to the test.

No property speaks of these: the link in every `..` identifier is to block 2, whatever
the parent; `log_block_recorded` is not counted down; the link count of a file entry stays 1;
a directory whose name is not in latin-1 cannot be removed (its bytes are compared in UTF-8),
so that the model refuses it too; a hard link to a directory is accepted.

## Module `FileAccess`

`pos` is the position of each file object, `stream` the attributes of each `PyCdlibIO`,
`copy` the file that `write_fp` is copying, block by block: between two blocks its progress
callback may call anything.  A byte is where it comes from, so that two readers that
disturb each other are seen to read each other's bytes.  `ahead` is no attribute of
the code: it is how far `readinto` has taken the client without moving the offset.
`Of[f].parts` are the inodes of the records of a long file, `table` says that a boot info
table is put over the second byte.

| Circumstance | What happens | Breaks |
|---|---|---|
| `interleaved` | a stream is read after something else moved the shared file object, or the callback moves the one that is copied | `ReadsOwn` |
| `readinto` | `readinto` leaves the offset: reading on to the end asks for too much, seeking from here goes elsewhere | `ReadsOwn` |
| `boot_info` | streams and UDF paths give a boot file without its table | `ReadsOwn` |
| `long_file` | streams give the first record of a long file, UDF paths the last | `ReadsOwn` |

With `Faults = {}` no stream is read after something else moved its file object.  The branch of
`get_file_from_iso` that makes up the boot catalog's data is left out.  Leaving a `with` block is taken
for `close`; the code does not mark the stream as closed then, and later calls on it are not modelled.

## The runs

`UdfDirectory`, `VolumeLayout` and `FileAccess` are checked for deadlock.  In the others the
client runs out of the objects or the calls that a bound gives it, and `CHECK_DEADLOCK` is off.

| Run | Question | Bounds |
|---|---|---|
| `HardLinks_links` | does everything agree for a careful client? Also: is it a `FileStore`? | 2 inodes, 4 records, 2 ISO9660 paths, a Joliet and a UDF path, 2 boot entries |
| `HardLinks_big_files` | do files of two segments stay whole? | 3 inodes, two of them one file; 5 records; no UDF (see above) |
| `HardLinks_careless_client` | what survives a hidden catalog? | 2 inodes, 3 records |
| `ContinuationArea_places` | do places stay apart, tracked and readable, in all circumstances? | 2 directories, a file, the ER record; blocks of 7 units, lengths 2 and 3; images parsed have one block; one reopening |
| `ContinuationArea_full` | a violation: a full first block (see above) | blocks of 8 units |
| `DirRecord_records` | packed, long enough, counted, found? | 5 names, files of up to 2 records, blocks of 8 units and records of 2 to 4, so that a directory has up to 3 blocks; 5 Rock Ridge children |
| `RelocatedDirs_trees` | is it a `DirTree`, and do links, tables and space agree, for a careful client? | 2 names, paths of up to 4, relocation at every second level, 9 objects; a path table has room for 3 |
| `RelocatedDirs_careless` | what survives both circumstances? | 8 objects, 2 descriptors |
| `RockRidgeEntries_entries` | are records as long as announced, and whole? | the real lengths: names of 1 to 440 bytes, targets of 1 to 60 components and up to 800 bytes, about each length at which something is split; three versions; twelve foreign records, some refused |
| `VolumeLayout_volumes` | does the size agree with the layout, and does the image open and have the files? | 2 files of 0 or 2 blocks, 3 changes; volumes with Joliet and Rock Ridge, and with Joliet and UDF; the foreign images |
| `UdfDirectory_trees` | does the tree read back, and are its blocks counted? | 2 names, one in each encoding; blocks of 124 bytes, so that identifiers end at, begin with or span blocks; 5 entries, 4 changes |
| `FileAccess_readers` | does each reader get its own bytes? | 5 inodes, 2 streams, reads of 1 or 2 bytes or all, seeks by -1 to 1 from three places |

Why the bounds are enough: a hazard of the links needs two names of one datum in
every pair of file systems, one other file to be hit by mistake, and an El Torito
entry for it; a fourth record lets one path be removed and made again.  In the
continuation area two entries and a third between or after them meet every case
of first-fit, and one reopening reaches every order of blocks.  In a directory,
records between a quarter and half of a block meet every case of the packing:
a block exactly full, one short by a unit, a removal that moves records back
over a block boundary, and the hysteresis between growing and shrinking.
Relocation at every second level puts a relocated directory below a relocated one
into paths of four names; nine objects are the root, `RR_MOVED`, two relocated
directories with their links and three others.  In a volume three changes are enough to
add two files, or a boot record and one, and remove one again on either side of a write and an open.
The lengths of `RockRidgeEntries` are those of the code: its arithmetic does not scale.
Two streams suffice for what one does to another, and the files of `FileAccess` lie next to each other,
so that reading a byte too many reads another's.

### Fairness

`HardLinks` has `WF_vars(Step)`: the program is sequential, and a call that has
started goes on to its end.  Nothing is assumed of the client: `Request` may never
happen.  Under this `CallsReturn` says that the loops over `linked_records`,
`data_continuation` and the catalog's records end.  The other modules have no
liveness: each of their operations is one step, but for the copying in `FileAccess`, which
goes on only if the client lets the callback return.

## What is proved

`FileAccessProofs` proves, for all files, file objects, sizes, offsets and numbers of streams:

- `ReadsOwnBytes`: `Spec => []ReadsOwn`, if `Faults = {}`
- `CopyPartIs`: what `get_file_from_iso` makes of a record, going around its boot info table, is
  what `write_fp` makes of it, putting the table over a copy

`ReadsOwn` speaks of the last call only.  The invariant (`Inv`) says for every open stream that
its file can be read as it is and, if the stream was the last to move its file object, that
this is at the place the client takes the stream to be, or both are beyond the end of the
object; and for the copying that what was copied is a prefix of the file and the object is
right behind it.  `owner`, which the code has not, is what makes it inductive: a
step of another reader leaves a stream's claim alone because it takes the ownership.  There is
one lemma per action.  `Given` is the arithmetic of a read that meets the end of the file, of the object or
of neither; `BytesFollow` joins two blocks that were copied.  The assumptions are those of
`FileAccessAssumption`; that a boot info table lies within the data is one of them.

`ContinuationAreaProofs` proves, for all names, block sizes, lengths, numbers of
reopenings and circumstances:

- `TypeCorrect`: `Spec => []TypeOK`
- `ContinuationsApart`: `Spec => []PlacesApart`
- `ContinuationsTracked`: `Spec => []PlacesTracked`
- `ReadsBackAlways`: `Spec => []ReadsBack`, if no continuation is longer than a block

`PlacesApart` is not inductive: a record placed by first-fit avoids the *tracked
entries*, not the other records, so one must know that every placed record is
tracked; that tracked entries of one block fit and do not overlap; and that no two
records share an entry, as `rm_directory` would take it from both.
`PlacesInv` is the conjunction of these with the types, and `PlacesInvariant` proves it
inductive, one lemma per action.  The two
that need work are `AddInv`, which rests on `FirstFitFits` (what first-fit returns
fits and overlaps nothing) and `ReopenInv`, which rests on `ParseSound` (a tree
whose places parse is tracked soundly in every order of its blocks).  `ReadsBack` needs
to know what has no block at all: `InSystemArea` says that it lies at offset 0, and
`OnlyCopiesOverlap` that two such records, other than the ER record, are CL records.  The
assumptions are those of `ContinuationAssumption`: finite sets of names, lengths
that are positive, an ER record that fits into a block, and names that differ.

`HardLinksProofs` proves, for all sets of inodes, records, paths, files of several
segments and circumstances, so for a client that respects nothing:

- `HangsTogether`: `Spec => []TypeInv`
- `TypeCorrect`: `Spec => []TypeOK`
- `NothingListedTwice`: `Spec => []ListingInv`
- `FileCountRight`: `Spec => []UdfFileCount`

`TypeOK` is not inductive: a step follows references (`rec.data_continuation`,
`inode.linked_records`, the catalog's records, the record in hand), and what it
finds must be a live object that has a directory.  `Hangs` says so, and also that
a listed record is a child of the directory it was created for and that the
catalog's records have no inode, which keeps `linked_records` free of objects that
the end of `rm_eltorito` lets go.  There is one lemma per action; `RemovalKeeps`
has what the link removals share.  `ListingInv` adds that no record is listed twice, without which
taking one entry out would not take one file off the count.

and for a client that keeps to the uses the code handles, what it is promised:

- `LinksAlwaysMatch`, `DataAlwaysNamed`, `NeverInternalError`, `SpaceAlwaysExact`: `Spec =>`
  `[]LinksMatch`, `[]DataIffNamed`, `[]NoInternalError` and `[]SpaceExact`, if `Careful`
- `RemovalAlwaysSelective`: `Spec => RemovalIsSelective`, and
  `ImplementsFileStore`: `Spec => FileStoreSpec`, if `Careful` and files have one segment
- `NamesAlwaysFiles` and `WholeFilesStored`: `Spec => []NamesAreFiles` and `Spec => []WholeFiles`, if
  `Careful` and files have at most two segments

`Careful` is: no circumstance (`Faults = {}`), and files of several segments on images without UDF only.
Both are needed, as TLC shows: each circumstance breaks one of the properties, `rm_file` of
a UDF path leaves segments behind, and a third segment is listed in the wrong place.
Between calls the properties say little that a step could use; the invariant must say
what they become in the middle of one.  `CarefulInv` says of every
state which links, charges, segments and catalog records are still to come or still to go,
read off the call in progress: `TreeExact` and `ChainsExact` are about the links in both directions, `CatalogExact`
about the catalog, `StoredExact` about `self.inodes`, `SpaceCharged` about the ledger
with the local sums, and `CallShape`, `Adding` and `InHand` about the call itself.  There is
one lemma per action and part, then the conclusions.  In the refinement every link that a call makes or removes is one step of the abstract store and
its other steps are none; a new inode counts as stored from its first link on, though `self.inodes`
gets it later.  `FilesInv` is about files of two segments: between the two additions and the
two removals one record stands alone, and the call in progress knows which.

The assumptions are those of `HardLinksAssumption`: the kinds of paths are disjoint, `None` is none of the
objects, records are finitely many, and the segments of big files are inodes of their own, two at least.

`DirRecordProofs` proves, for all names, record lengths up to half a block, block sizes and circumstances:

- `RecordsHangTogether`: `Spec => []RecordsInv`
- `TypeCorrect`, `PlacesAlwaysCurrent`, `CountsAlwaysFit`, `LookupAlwaysFinds`: `Spec =>` `[]TypeOK`,
  `[]PlacesCurrent`, `[]CountsFit` and `[]LookupFinds`

`RecordsInv` is that the records are distinct, sorted by both names, and at the places that
packing all of them gives.  That recalculating from an index on gives the same
(`PlacesPacked`) is by induction on the index, and so is the heart of `CountsFit`: a directory grows and shrinks
by at most one block per change, and that is enough because a packing with one record more is never
more than a block ahead: it is as far or further in the same block, or no further in the
next one, and packing one more record in both keeps it so (`Ahead`, `AheadStep`, `OneBlockMore`, `OneBlockLess`); this
is where half a block as the limit of a record is used.  `BisectIso` and `BisectRr` are the two
binary searches.

`RelocatedDirsProofs` proves, for all names, depths, levels of relocation and sizes of path tables,
whatever the client does and wherever an operation stops:

- `TreeAlways`: `Spec => []TreeInv`
- `LinksAlwaysMutual` and `NamesAlwaysApart`: `Spec => []LinksMutual` and `Spec => []NamesApart`

and for a client that meets neither circumstance (`Careful`: `Faults = {}`):

- `CarefulAlways`: `Spec => []CarefulInv`
- `TypeCorrect`, `LinksAlwaysResolve`, `AlwaysBelowRrMoved`, `SpaceAlwaysExact`: `Spec =>` `[]TypeOK`,
  `[]LinksResolve`, `[]BelowRrMoved` and `[]SpaceExact`
- `ImplementsDirTree`: `Spec => DirTreeSpec`

`LinksMutual` is not inductive: a lookup must end at a directory and never at a link, and what an
operation follows must be there.  `TreeInv` says of each object what it is from what it was made for (`Kind`:
the name, and whose link or target it is), that it is listed in its `parent` and nowhere else, that
names in a directory differ and that everything referred to exists; one lemma per action, over lemmas about
the three things that happen to objects: one more (`InsertTree`), fewer children (`FewerTree`), fewer objects
(`CollectTree`).  `FreeIdentIsFree` is that a number for a relocated name can always be found, there being
more of them to try than records.  `CarefulInv` adds where everything is: the record of a path is
below that of the path without its last name, or below `RR_MOVED` with its link in its place
(`InPlace`); the two are listed together (`LinksListed`); what was removed has no children and
`RR_MOVED` is never listed without any (`NothingLost`); and one descriptor, its tables and the
space are functions of the number of listed directories (`Counts`), which `OneDescriptor` carries
through growing and shrinking.  A lookup is a recursive function, and
`FindCareful` is by induction on the path: it leads to the record made for the path if that is listed and nowhere
otherwise, whatever is relocated on the way.  With that, each operation adds or removes one path of what
the client sees, or none, and that is the refinement.  `Reached`, by which `InTree` and `Collect` are defined, is
shown to be the least closed set (`ReachedIs`, `ReachedLeast`): after as many steps as there are objects either
nothing is new or there are more objects than there are.  The assumptions are
those of `RelocatedDirsAssumption` and `NoneAssumption`: `None` is no record and no identifier.

`RockRidgeEntriesProofs` proves, for names and targets of any length, records of every kind and
version, any set of records of other tools and any bound on the links, if `Faults = {}`:

- `RecordTyped`, `AreasAreExact`, `EntriesReadBack`, `RecordsOpen` and `ForeignEntriesKept`: `Spec =>` `[]TypeOK`,
  `[]AreasExact`, `[]ReadsBack`, `[]WrittenOpens` and `[]ForeignKept`

The runs can only try lengths about the places where something is split; here the arithmetic of the splitting is
done once for all of them.  Each circumstance breaks one of the five, so that the hypothesis is needed.
The invariant (`IInv`) says that the object is `Good` and that the image, if there is one, is what writing a good
object of this request gives (`Written`): the image may be older than the last change of the links or of a block.
`Good` is that every entry is one that its `parse` accepts, that kinds of which there may be one only are there once, that
the CE entry counts what the continuation has, that each place that tells of the version tells of the same
(`Sound`), that `dr_len` is what the entries add up to, and that the lists say what was asked for (`Says`) or hold what the
other tool wrote (`Keeps`).

The first half of the module is about areas of any number of entries: what is written is as long as the lists together
(`Weight`), and reading what was written gives the lists back, since `_record` writes the kinds one after the other and
`parse` collects by kind (`OfKind`); a link count or a block changes no length, and a record of another tool that
is opened is sound.  The second half is about `new`: `Part` says what an assignment holds after each kind, so that a kind is put once and
counted where it is put, and a second attempt with a CE entry always fits.  `NameStep` is the name: the first piece takes the
room in the record, and the others are 250 bytes each.  `Placing` is the invariant of the loops over a
target's components: what is full or under construction spells what has been placed, no entry
is longer than the area it was given (the first one's is the room in the record), and a component that is cut
is marked as continued and uses up its area.  `TurnKeeps` is one turn of the loops, and `PlacesAll` that the turns allowed
are enough: a turn finishes a component or fills 248 bytes of it, unless it starts with
what an area has left.  Gluing the components back together (`SymlinkPath`) follows the same
induction.  The assumptions are those of `RockRidgeEntriesAssumption`: requests are those `DirectoryRecord` makes (`IsRequest`), and of
the areas of another tool only their lengths and types are known (`IsForeign`).

`VolumeLayoutPlaces` and `VolumeLayoutProofs` prove, for any number of files, any lengths, any kinds of
volumes that `new` makes, any bound on the calls and any set of images of other tools to open besides, if `Faults = {}`:

- `VolumesKept`: `Spec => []OwnInv`
- `SpaceIsExact`: `Spec => []SpaceExact`
- `VolumeTyped`, `WrittenIsOpened` and `FilesAreIntact`: `Spec =>` `[](source = NoImage => P)`, with `P` one of `TypeOK`,
  `WrittenOpens` and `FilesIntact`

`source = NoImage` says that the volume in hand, and the file that was written of it, began with `new()` and not with an
image of another tool; it may have been written, opened and changed in place any number of times.
`OwnInv` is that such a state has `IInv`.  It speaks of three things:

- the object (`Own`): its header, its UDF descriptors and its files are what `new()` made and the calls changed, and the size is
  what the layout comes to (`EndAt`) whether or not the layout is pending; if it is not pending, everything is at its
  place (`Laid`).  `SpaceExact` alone is not inductive, since what a call charges has to be compared with what the walk takes for
  the object before the call and after it, and that depends on all of this.
- the file (`Shows`): each block of it is what `_write_fp` puts there for some volume that was laid out, with the files that
  `holds` names.  That volume need not be the one in hand, which may have changed since.
- the object and the file (`AttachedKept`): an object that was opened, and not changed since except in place, is the
  volume that the file shows, each record at the same block.  That is what `modify_file_in_place` relies on.

`VolumeLayoutPlaces` is the object.  `LaidOutLaid` is the walk: given its header, its UDF part, its tables, its trees, its
catalog and its data one after the other, a volume is laid out and ends where the sizes add up to; and one lemma
for each call, that what it charges or gives back is the difference of the two ends.  `VolumeLayoutProofs` is the file.  `AllPutsAre` is
that `_write_fp` writes each block once, and `ReadsOpen` that `open` finds what it looks for in each of its steps: the header
up to the version block, an anchor at 256 and in the last block, the sequences between their terminators, the trees, and
a descriptor is read as it was written (`RoundTrip`).  `ContentsAre` follows a record to the data, and what is read of the volume
is `Own` and `Laid` again (`FilesReadOwn`, `UdfReadOwn`), which closes the circle.  `InPlaceAmong` is that all that `modify_file_in_place`
writes of a file that is no boot file is part of what writing the volume with the new data would put, `RenewedCarries` that
the rest of that is there already, and `ShowsRenewed` that the file then shows the volume with the new data.
Each circumstance breaks one of the properties.  The assumptions are those of `ConstantsAssumption`, and `ForeignAssumption`: an image
of another tool is an image.

For these proofs the order in which files get their blocks is stated by what comes before each of them (`Earlier`,
`EntryOf`), and what is written to a block twice by what was written last (`Overlay`), instead of by a recursion over the files
and the writes.

Induction over data is done with what `WellFoundedInduction` proves of the natural
numbers: every set of them has a least element (`LeastNatural`), so that a property that holds at 0 and
goes from each number to the next holds up to any (`UpTo`); and a recursive function is what its definition says
because one such function exists (`EndsExist`, `StepsExist`, `WalkExists`, `TotalExists` and their like), which
`UpTo` shows too.

Only model-checked:

- the properties of `UdfDirectory`, which has recursive operators; the provers know nothing of
  those.
- what `VolumeLayout` promises for images of other tools: `DescriptorsKept`, and the rest while
  `source` is such an image.  What `open` makes of an image that another tool wrote, and what the layout
  makes of that, is tried on the images of `MCVolumeLayout`.
- liveness (`CallsReturn`), which is out of the prover's reach, as is `ENABLED`.

## Not modelled

- The four lookup caches are cleared as a whole wherever the tree changes.  That no place
  is missing can be read off the class; a model would have the same list of places twice.
- isohybrid, the checks of names by interchange level and their mangling, dates: arithmetic and
  characters without state that other parts read.
- The facades and the command line tools translate calls and paths.
- Classes of `udf.py` that nothing makes: `UDFExtendedAD`, and the space tables, terminal
  entries and extended file entries after `UDFFileEntry`.
- Sizes of directories and files that other tools got wrong and `open` repairs.
- The Joliet tree: it is a second `DirRecord` without Rock Ridge.  One check is missing there:
  `rm_directory` removes a Joliet directory that is not empty (`pycdlib.py:4992`).

Read off the code and in no model: `open` sorts records otherwise than the tool that
wrote them, so that a directory may take another number of blocks (`dr.py:1235`); a deep directory whose name
is taken leaves a record below `RR_MOVED` (`pycdlib.py:4756`); `add_eltorito` whose catalog path is
refused leaves a boot record (`pycdlib.py:3286`); the number of sectors handed to isohybrid is that of the
loop before (`pycdlib.py:1631`).

## Next

1. `UdfDirectory` with recursive functions in place of recursive operators, so that
   something can be proved of it.
2. `VolumeLayout` with directories of several blocks, as the composition of the shares of
   `HardLinks`, `ContinuationArea`, `DirRecord` and `UdfDirectory`; and the
   theorems about it for images of other tools, by what `open` requires of them.
3. Link counts and unique ids of UDF entries in other volumes than the library's own.
