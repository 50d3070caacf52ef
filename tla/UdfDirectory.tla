----------------------------- MODULE UdfDirectory -----------------------------
(***************************************************************************)
(* The UDF tree of a volume: directories of file identifiers, each with a  *)
(* file entry, from the calls that change it to what is written and what   *)
(* open() makes of that.  Identifiers are packed one after the other over  *)
(* the blocks of a directory; names are bytes in one of two encodings, and *)
(* the code compares bytes.                                                *)
(*                                                                         *)
(* Abstractions: files have UDF names only (with others: HardLinks); block *)
(* numbers are those in the partition, with the data right after the file  *)
(* entries (the rest of the volume: VolumeLayout); lengths of data are in  *)
(* blocks, those of identifiers in bytes.                                  *)
(***************************************************************************)
EXTENDS Integers, SequencesExt, FiniteSetsExt, TLC

CONSTANTS
  Name,       \* the names a client uses
  Latin,      \* the bytes of a name in latin-1, or None
  Ucs2, Utf8, \* in utf-16_be and utf-8
  ByteLength, \* the length of bytes
  None,
  Lengths,    \* of files
  MaxExtent,  \* what an allocation descriptor can describe
  BlockSize,
  Entries,    \* 1..n, the file entries there can be at a time
  MaxCalls,   \* bound on the calls that change the volume
  Faults      \* the circumstances below that a configuration allows

Circumstances == {
  "duplicate_name", \* a name that is taken is added
  "rm_file_as_dir", \* rm_directory of a file
  "reopened_udf",   \* a file of a volume that was opened is removed or linked
  "empty_files",    \* two empty files
  "linked_symlink", \* a hard link to a symbolic link
  "zero_entry" }    \* a volume with a zeroed file entry is changed otherwise
                    \* than by removing that entry

VARIABLES
  vol,    \* the UDF part of the PyCdlib object, or NoVolume
  truth,  \* what the client has asked for: a function on paths
  image,  \* what was written, or NoImage
  holds,  \* the truth then
  calls,
  raised

vars == <<vol, truth, image, holds, calls, raised>>

Root == 1
Blocks(bytes) == (bytes + BlockSize - 1) \div BlockSize
DirPaths == {p \in DOMAIN truth : truth[p].kind = "dir"}

-----------------------------------------------------------------------------
(* UDFFileIdentifierDescriptor and UDFFileEntry.                            *)

\* A name is encoded in latin-1 if it can be.
Encoded(n) ==
  IF Latin[n] # None THEN [fi |-> Latin[n], enc |-> "latin-1"]
                     ELSE [fi |-> Ucs2[n], enc |-> "utf-16_be"]
NewIdent(dir, n, entry) ==
  [parent |-> FALSE, dir |-> dir, fi |-> Encoded(n).fi, enc |-> Encoded(n).enc,
   entry |-> entry, icb |-> 2, ext |-> 0]
NewParentIdent ==
  [parent |-> TRUE, dir |-> TRUE, fi |-> None, enc |-> None, entry |-> 0, icb |-> 2, ext |-> 0]
\* 38 bytes, the encoding and the name, padded to four.
IdentLength(d) ==
  LET bytes == 38 + (IF d.fi = None THEN 0 ELSE 1 + ByteLength[d.fi])
  IN 4 * ((bytes + 3) \div 4)
NameOf(d) ==
  CHOOSE n \in Name : IF d.enc = "latin-1" THEN Latin[n] = d.fi ELSE Ucs2[n] = d.fi

\* The allocation descriptors of so many blocks.
RECURSIVE NewAllocs(_)
NewAllocs(len) ==
  IF len = 0 THEN <<>>
  ELSE <<[len |-> Min({len, MaxExtent}), block |-> 0]>> \o NewAllocs(len - Min({len, MaxExtent}))

NoEntry ==
  [kind |-> "free", parent |-> 0, info |-> 0, links |-> 0, allocs |-> <<>>, fis |-> <<>>,
   ino |-> 0, fe |-> 0]
NewEntry(kind, parent, len, ino) ==
  [NoEntry EXCEPT !.kind = kind, !.parent = parent, !.ino = ino,
                  !.info = len, !.links = IF kind = "dir" THEN 0 ELSE 1,
                  !.allocs = IF kind = "dir" THEN <<[len |-> 0, block |-> 0]>> ELSE NewAllocs(len)]

\* add_file_ident_desc: the entry with one identifier more.
WithIdent(e, d) ==
  LET info == e.info + IdentLength(d)
  IN [e EXCEPT !.fis = Append(@, d), !.info = info, !.allocs[1].len = info,
               !.links = @ + (IF d.dir THEN 1 ELSE 0)]
\* remove_file_ident_desc_by_name: the first with these bytes goes.
IndexOf(e, bytes) ==
  LET found == {i \in 1..Len(e.fis) : e.fis[i].fi = bytes}
  IN IF found = {} THEN 0 ELSE Min(found)
WithoutIdent_alloc(e, i) ==
  [e EXCEPT !.fis = RemoveAt(@, i), !.info = @ - IdentLength(e.fis[i]),
            !.links = @ - (IF e.fis[i].dir THEN 1 ELSE 0)]
WithoutIdent(e, i) ==
  LET info == e.info - IdentLength(e.fis[i])
  IN [e EXCEPT !.fis = RemoveAt(@, i), !.info = info, !.allocs[1].len = info,
               !.links = @ - (IF e.fis[i].dir THEN 1 ELSE 0)]
Grown(old, new) == Blocks(new.info) - Blocks(old.info)
Shrunk(old, new) == Blocks(old.info) - Blocks(new.info)

\* find_file_ident_desc_by_name
Matches(d, n) ==
  IF Latin[n] # None /\ d.enc = "latin-1" THEN d.fi = Latin[n] ELSE d.fi = Ucs2[n]
FindIn(e, n) ==
  LET found == {i \in 1..Len(e.fis) : Matches(e.fis[i], n)}
  IN IF found = {} THEN 0 ELSE Min(found)

-----------------------------------------------------------------------------
(* The object.                                                              *)

NoInode == [linked |-> <<>>, numUdf |-> 0, len |-> 0, data |-> 0]
NoVolume == [on |-> FALSE]
NewVolume ==
  [on |-> TRUE,
   ents |-> [e \in Entries |-> IF e = Root THEN WithIdent(NewEntry("dir", 0, 0, 0), NewParentIdent)
                               ELSE NoEntry],
   inos |-> [i \in Entries |-> NoInode],
   space |-> 4, end |-> 0, dirs |-> 1, files |-> 0, pending |-> TRUE]

\* _find_udf_record: the directory and the index of the identifier there, and
\* 0 if there is none.
RECURSIVE Lookup(_, _, _)
Lookup(v, dir, path) ==
  LET i == FindIn(v.ents[dir], path[1])
      d == v.ents[dir].fis[i]
  IN IF i = 0 THEN <<dir, 0>>
     ELSE IF Len(path) = 1 THEN <<dir, i>>
     ELSE IF d.dir THEN Lookup(v, d.entry, Tail(path)) ELSE <<dir, 0>>
Find(v, path) == Lookup(v, Root, path)
DirOf(v, path) ==
  IF path = <<>> THEN Root
  ELSE LET at == Find(v, path) IN v.ents[at[1]].fis[at[2]].entry
IdentAt(v, at) == v.ents[at[1]].fis[at[2]]

Free(v) == Min({e \in Entries : v.ents[e].kind = "free"})
HasFree(v) == \E e \in Entries : v.ents[e].kind = "free"
FreeInode(v) == Min({i \in Entries : v.inos[i].linked = <<>>})

-----------------------------------------------------------------------------
(* _udf_assign_extents, and the data after it.                              *)

\* The extents of the identifiers of a directory from block start on, as they
\* are counted, and the first block after them.
Over_late(offset) == offset > BlockSize
Over(offset) == offset >= BlockSize
IdentExtents(fis, start) ==
  LET step(acc, d) ==
        LET over == Over(acc.offset)
            extent == acc.extent + (IF over THEN 1 ELSE 0)
        IN [extent |-> extent, exts |-> Append(acc.exts, extent),
            offset |-> acc.offset + IdentLength(d) - (IF over THEN BlockSize ELSE 0)]
      end == FoldLeft(step, [extent |-> start, offset |-> 0, exts |-> <<>>], fis)
  IN [exts |-> end.exts,
      end |-> end.extent + (IF end.offset > BlockSize THEN 1 ELSE 0) + 1]

\* set_data_location, of lengths of which unit make a block
LaidAllocs(allocs, start, unit) ==
  [i \in 1..Len(allocs) |->
     [allocs[i] EXCEPT !.block =
        start + FoldLeft(LAMBDA n, j : n + (allocs[j].len + unit - 1) \div unit, 0, [j \in 1..(i - 1) |-> j])]]
SetIcb(v, at, block) == [v EXCEPT !.ents[at[1]].fis[at[2]].icb = block]

\* The directories, breadth first: each its entry and its identifiers.  What
\* has no entry stays where it was.
RECURSIVE LaidDirs(_, _, _, _)
LaidDirs(v, queue, extent, files) ==
  IF queue = <<>> THEN [vol |-> v, extent |-> extent, files |-> files]
  ELSE LET e == queue[1].entry
           w == IF e = Root THEN v ELSE SetIcb(v, queue[1].at, extent)
           ids == IdentExtents(w.ents[e].fis, extent + 1)
           fis == [i \in 1..Len(w.ents[e].fis) |-> [w.ents[e].fis[i] EXCEPT !.ext = ids.exts[i]]]
           laid == [w EXCEPT !.ents[e] =
                      [@ EXCEPT !.fe = extent, !.fis = fis,
                                !.allocs = LaidAllocs(@, extent + 1, BlockSize)]]
           below == SelectSeq([i \in 1..Len(fis) |-> [entry |-> fis[i].entry, at |-> <<e, i>>]],
                              LAMBDA x : x.entry # 0)
           isDir(x) == fis[x.at[2]].dir
       IN LaidDirs(laid, Tail(queue) \o SelectSeq(below, isDir), ids.end,
                   files \o SelectSeq(below, LAMBDA x : ~isDir(x)))

\* The files: an entry for each inode, known to all its links.
LinkIdents(v, entries) ==
  {at \in {<<e, i>> : e \in Entries, i \in 1..Cardinality(Entries)} :
     /\ v.ents[at[1]].kind = "dir" /\ at[2] <= Len(v.ents[at[1]].fis)
     /\ IdentAt(v, at).entry \in entries}
LaidFile_first(v, entries, extent) ==
  LET f == Min(entries)
  IN FoldSet(LAMBDA at, w : SetIcb(w, at, extent), [v EXCEPT !.ents[f].fe = extent],
             LinkIdents(v, {f}))
LaidFile(v, entries, extent) ==
  FoldSet(LAMBDA at, w : SetIcb(w, at, extent),
          [v EXCEPT !.ents = [f \in Entries |-> IF f \in entries THEN [@[f] EXCEPT !.fe = extent] ELSE @[f]]],
          LinkIdents(v, entries))
LaidFiles(dirs) ==
  LET step(acc, x) ==
        LET ino == acc.vol.ents[x.entry].ino
        IN IF ino \in acc.done THEN acc
           ELSE [vol |-> LaidFile(acc.vol, ToSet(acc.vol.inos[ino].linked), acc.extent),
                 extent |-> acc.extent + 1, done |-> acc.done \cup {ino},
                 order |-> IF acc.vol.inos[ino].len > 0 THEN Append(acc.order, ino) ELSE acc.order]
  IN FoldLeft(step, [vol |-> dirs.vol, extent |-> dirs.extent, done |-> {}, order |-> <<>>], dirs.files)

\* _set_inode, one after the other
LaidData(files) ==
  LET step(acc, ino) ==
        LET linked == ToSet(acc.vol.inos[ino].linked)
        IN [vol |-> [acc.vol EXCEPT !.ents =
                       [f \in Entries |-> IF f \in linked
                                          THEN [@[f] EXCEPT !.allocs = LaidAllocs(@, acc.extent, 1)]
                                          ELSE @[f]]],
            extent |-> acc.extent + acc.vol.inos[ino].len]
  IN FoldLeft(step, [vol |-> files.vol, extent |-> files.extent], files.order)

\* The file set and its terminator come first.
Walked(v) == LaidDirs(v, <<[entry |-> Root, at |-> <<0, 0>>]>>, 2, <<>>)
Settled(laid) == [laid.vol EXCEPT !.pending = FALSE, !.end = laid.extent]
LaidOut(v) == Settled(LaidData(LaidFiles(Walked(v))))

-----------------------------------------------------------------------------
(* _write_fp and _walk_udf_directories.                                     *)

OnImage(e) == [kind |-> e.kind, info |-> e.info, links |-> e.links, allocs |-> e.allocs]
IdentOnImage(d) ==
  [parent |-> d.parent, dir |-> d.dir, fi |-> d.fi, enc |-> d.enc, icb |-> d.icb, loc |-> d.ext]
Dirs(v) == {e \in Entries : v.ents[e].kind = "dir"}
NoImage == [anchored |-> FALSE]
ZeroEntry == [kind |-> "zero"]
\* The identifiers that lead to no entry.
Zeroed(v) == {at \in LinkIdents(v, {0}) : ~IdentAt(v, at).parent}
\* Of the links of an inode the first one met is written; what nothing is
\* written to is zero.  The volume opens only if the last anchor is in its
\* last block.
Written(v) ==
  LET step(acc, x) ==
        LET ino == v.ents[x.entry].ino
        IN IF ino \in acc.done THEN acc
           ELSE [fe |-> (v.ents[x.entry].fe :> OnImage(v.ents[x.entry])) @@ acc.fe,
                 done |-> acc.done \cup {ino}]
      dirs == [b \in {v.ents[e].fe : e \in Dirs(v)} |->
                 OnImage(v.ents[CHOOSE e \in Dirs(v) : v.ents[e].fe = b])]
      parts(f) == FlattenSeq([i \in 1..Len(v.ents[f].allocs) |->
                    LET a == v.ents[f].allocs[i] IN [j \in 1..a.len |-> a.block + j - 1]])
      put(b, i) == LET at == parts(v.inos[i].linked[1])
                   IN [x \in ToSet(at) |-> <<v.inos[i].data, CHOOSE j \in 1..Len(at) : at[j] = x>>] @@ b
      zeroed == [b \in {IdentAt(v, at).icb : at \in Zeroed(v)} |-> ZeroEntry]
  IN [fe |-> FoldLeft(step, [fe |-> dirs, done |-> {}], Walked(v).files).fe @@ zeroed,
      area |-> [b \in {v.ents[e].allocs[1].block : e \in Dirs(v)} |->
                  LET e == CHOOSE e \in Dirs(v) : v.ents[e].allocs[1].block = b
                  IN [i \in 1..Len(v.ents[e].fis) |-> IdentOnImage(v.ents[e].fis[i])]],
      data |-> FoldLeft(put, <<>>, SetToSortSeq({i \in Entries : v.inos[i].linked # <<>>}, <)),
      space |-> v.space, anchored |-> v.end = v.space, dirs |-> v.dirs, files |-> v.files]

\* An identifier is read for as long as its directory says, and its entry from
\* where it says, unless there are only zeros.
Length(fis) == FoldLeft(LAMBDA n, d : n + IdentLength(d), 0, fis)
IdentOpens(img, d) ==
  d.parent \/ (d.icb \in DOMAIN img.fe /\ (d.dir => img.fe[d.icb].kind = "dir"))
DirOpens(img, block) ==
  LET fe == img.fe[block]
      start == fe.allocs[1].block
  IN /\ start \in DOMAIN img.area
     /\ Length(img.area[start]) = fe.info
     /\ \A i \in 1..Len(img.area[start]) : IdentOpens(img, img.area[start][i])
Opens(img) ==
  /\ img.anchored /\ 2 \in DOMAIN img.fe
  /\ \A b \in DOMAIN img.fe : img.fe[b].kind = "dir" => DirOpens(img, b)

\* The inode of a file: the one of its first block, or of the empty files.
DataOf(img, fe) == IF fe.info = 0 THEN 0 ELSE img.data[fe.allocs[1].block][1]
ReadFile(v, img, fe, f) ==
  LET data == DataOf(img, fe)
      known == {i \in Entries : v.inos[i].linked # <<>> /\ v.inos[i].data = data}
      i == IF known # {} THEN Min(known) ELSE FreeInode(v)
  IN [v EXCEPT !.ents[f].ino = i,
               !.inos[i] = [linked |-> Append(@.linked, f), numUdf |-> 0, len |-> fe.info, data |-> data]]
ReadIdent(v, img, dir, d) ==
  LET n == v.ents[dir].fis
      ext == v.ents[dir].allocs[1].block + Length(n) \div BlockSize
      fe == img.fe[d.icb]
      f == Free(v)
      ident(entry) == [parent |-> d.parent, dir |-> d.dir, fi |-> d.fi, enc |-> d.enc,
                       entry |-> entry, icb |-> d.icb, ext |-> ext]
      read == [v EXCEPT !.ents[f] = [kind |-> fe.kind, parent |-> dir, info |-> fe.info,
                                     links |-> fe.links, allocs |-> fe.allocs, fis |-> <<>>,
                                     ino |-> 0, fe |-> d.icb],
                        !.ents[dir].fis = Append(@, ident(f))]
  IN IF d.parent \/ fe.kind = "zero" THEN [v EXCEPT !.ents[dir].fis = Append(@, ident(0))]
     ELSE IF fe.kind = "dir" THEN read ELSE ReadFile(read, img, fe, f)
RECURSIVE ReadDirs(_, _, _)
ReadDirs(v, img, queue) ==
  IF queue = <<>> THEN v
  ELSE LET dir == Head(queue)
           step(w, d) == ReadIdent(w, img, dir, d)
           w == FoldLeft(step, v, img.area[v.ents[dir].allocs[1].block])
           below == SelectSeq(w.ents[dir].fis, LAMBDA d : d.dir /\ ~d.parent)
       IN ReadDirs(w, img, Tail(queue) \o [i \in 1..Len(below) |-> below[i].entry])
Read(img) ==
  LET root == img.fe[2]
      v == [NewVolume EXCEPT
              !.ents[Root] = [NoEntry EXCEPT !.kind = "dir", !.info = root.info, !.links = root.links,
                                             !.allocs = root.allocs, !.fe = 2],
              !.space = img.space, !.end = img.space, !.dirs = img.dirs, !.files = img.files,
              !.pending = FALSE]
  IN ReadDirs(v, img, <<Root>>)

-----------------------------------------------------------------------------
(* The calls.                                                               *)

Init ==
  /\ vol = NewVolume /\ truth = <<>>
  /\ image = NoImage /\ holds = <<>> /\ calls = 0 /\ raised = "none"

Change(v, t) ==
  /\ calls < MaxCalls /\ calls' = calls + 1
  /\ vol' = [v EXCEPT !.pending = TRUE] /\ truth' = t /\ raised' = "none"
  /\ UNCHANGED <<image, holds>>
Refuse(v) ==
  /\ calls < MaxCalls /\ calls' = calls + 1
  /\ vol' = v /\ raised' = "invalid" /\ UNCHANGED <<truth, image, holds>>
NoZeroes == Zeroed(vol) # {} => "zero_entry" \in Faults
Addable(dir, n) ==
  /\ vol.on /\ HasFree(vol) /\ NoZeroes
  /\ Append(dir, n) \in DOMAIN truth => "duplicate_name" \in Faults
With(t, p, what) == (p :> what) @@ t
Without(t, ps) == [p \in DOMAIN t \ ps |-> t[p]]

\* add_directory
AddDirectory(dir, n) ==
  LET d == DirOf(vol, dir)
      f == Free(vol)
      new == WithIdent(NewEntry("dir", d, 0, 0), NewParentIdent)
      parent == WithIdent(vol.ents[d], NewIdent(TRUE, n, f))
  IN /\ Addable(dir, n)
     /\ Change([vol EXCEPT !.ents[d] = parent, !.ents[f] = new, !.dirs = @ + 1,
                           !.space = @ + Grown(vol.ents[d], parent) + 1 + Grown(NoEntry, new)],
               With(truth, Append(dir, n), [kind |-> "dir", data |-> 0, len |-> 0]))

\* _add_hard_link_to_inode, of inode i of v, with a UDF path
Linked(v, i, d, n, kind) ==
  LET f == Free(v)
      parent == WithIdent(v.ents[d], NewIdent(FALSE, n, f))
  IN [v EXCEPT !.ents[d] = parent, !.ents[f] = NewEntry(kind, d, v.inos[i].len, i),
               !.inos[i].linked = Append(@, f), !.inos[i].numUdf = @ + 1, !.files = @ + 1,
               !.space = @ + Grown(v.ents[d], parent) + (IF v.inos[i].numUdf = 0 THEN 1 ELSE 0)]

\* add_fp, and add_symlink, whose target is the data
AddFile(dir, n, kind, len) ==
  LET i == FreeInode(vol)
      v == [vol EXCEPT !.inos[i] = [NoInode EXCEPT !.len = len, !.data = IF len = 0 THEN 0 ELSE calls + 1],
                       !.space = @ + len]
  IN /\ Addable(dir, n)
     /\ len = 0 /\ (\E p \in DOMAIN truth : truth[p].kind = "file" /\ truth[p].len = 0)
          => "empty_files" \in Faults
     /\ Change(Linked(v, i, DirOf(vol, dir), n, kind),
               With(truth, Append(dir, n), [kind |-> kind, data |-> v.inos[i].data, len |-> len]))

CountKnown(i) == vol.inos[i].numUdf = Len(vol.inos[i].linked) \/ "reopened_udf" \in Faults
AddHardLink(old, dir, n) ==
  LET f == IdentAt(vol, Find(vol, old)).entry
      i == vol.ents[f].ino
  IN /\ Addable(dir, n) /\ f # 0 /\ CountKnown(i)
     /\ truth[old].kind = "symlink" => "linked_symlink" \in Faults
     /\ Change(Linked(vol, i, DirOf(vol, dir), n, "file"), With(truth, Append(dir, n), truth[old]))

\* rm_directory looks for the name in utf-8.
RmDirectory(path) ==
  LET d == DirOf(vol, Front(path))
      k == IndexOf(vol.ents[d], Utf8[Last(path)])
      ident == vol.ents[d].fis[k]
      parent == WithoutIdent(vol.ents[d], k)
      entry == vol.ents[ident.entry]
      refused == k = 0 \/ (ident.dir /\ Len(entry.fis) > 1)
  IN /\ vol.on /\ NoZeroes
     /\ truth[path].kind # "dir" => "rm_file_as_dir" \in Faults
     /\ IF refused THEN Refuse(vol)
        ELSE Change([vol EXCEPT !.ents[d] = parent, !.dirs = @ - 1,
                                !.ents[ident.entry] = IF ident.dir THEN NoEntry ELSE @,
                                !.space = @ - Shrunk(vol.ents[d], parent) - 2],
                    Without(truth, {path}))

\* _rm_udf_file_ident, of the first identifier with the bytes of d
WithoutName(v, dir, d) ==
  LET parent == WithoutIdent(v.ents[dir], IndexOf(v.ents[dir], d.fi))
  IN [v EXCEPT !.ents[dir] = parent, !.files = @ - 1, !.space = @ - Shrunk(v.ents[dir], parent)]
\* _rm_udf_link, of entry f
Unlinked(v, f) ==
  LET i == v.ents[f].ino
      ino == [v.inos[i] EXCEPT !.linked = SelectSeq(@, LAMBDA g : g # f), !.numUdf = @ - 1]
      at == CHOOSE at \in LinkIdents(v, {f}) : TRUE
      back == (IF ino.linked = <<>> THEN ino.len ELSE 0) + (IF ino.numUdf = 0 THEN 1 ELSE 0)
  IN WithoutName([v EXCEPT !.ents[f] = NoEntry, !.space = @ - back,
                           !.inos[i] = IF ino.linked = <<>> THEN NoInode ELSE ino],
                 at[1], IdentAt(v, at))

\* rm_hard_link and rm_file.  Of a zeroed entry only the name is there; what
\* rm_file is told that the directory shrinks is lost.
RmHardLink(path) ==
  LET at == Find(vol, path)
      d == IdentAt(vol, at)
  IN /\ vol.on /\ truth[path].kind # "dir"
     /\ IF d.entry = 0 THEN Change([WithoutName(vol, at[1], d) EXCEPT !.space = @ - 1], Without(truth, {path}))
        ELSE /\ NoZeroes /\ CountKnown(vol.ents[d.entry].ino)
             /\ Change(Unlinked(vol, d.entry), Without(truth, {path}))
RmFile(path) ==
  LET at == Find(vol, path)
      d == IdentAt(vol, at)
      i == vol.ents[d.entry].ino
      gone == {p \in DOMAIN truth : IdentAt(vol, Find(vol, p)).entry \in ToSet(vol.inos[i].linked)}
      unnamed == WithoutName(vol, at[1], d)
  IN /\ vol.on /\ truth[path].kind \in {"file", "zero"}
     /\ IF d.entry = 0
        THEN /\ unnamed.space # vol.space => "zero_entry" \in Faults
             /\ Change([unnamed EXCEPT !.space = vol.space - 1], Without(truth, {path}))
        ELSE /\ NoZeroes /\ CountKnown(i)
             /\ Change(FoldLeft(Unlinked, vol, vol.inos[i].linked), Without(truth, gone))

WriteAs(v) ==
  IF v.end > v.space THEN raised' = "internal" /\ UNCHANGED <<vol, image, holds>>
  ELSE vol' = v /\ image' = Written(v) /\ holds' = truth /\ raised' = "none"
Write ==
  /\ vol.on
  /\ WriteAs(IF vol.pending THEN LaidOut(vol) ELSE vol)
  /\ UNCHANGED <<truth, calls>>
Reopened(img, t) ==
  /\ IF Opens(img) THEN vol' = Read(img) /\ truth' = t /\ raised' = "none"
                   ELSE vol' = NoVolume /\ raised' = "invalid" /\ UNCHANGED truth
  /\ image' = img /\ holds' = t /\ UNCHANGED calls
Reopen == image # NoImage /\ vol.on /\ Reopened(image, holds)
\* Another tool has zeroed the entry of an empty file.
ReopenZeroed ==
  /\ image # NoImage /\ vol.on /\ image.anchored
  /\ \E b \in DOMAIN image.fe :
       LET named == {p \in DOMAIN holds : holds[p].kind = "file" /\ holds[p].len = 0}
       IN /\ image.fe[b].kind = "file" /\ image.fe[b].info = 0 /\ Cardinality(named) = 1
          /\ Reopened([image EXCEPT !.fe[b] = ZeroEntry],
                      [p \in DOMAIN holds |-> IF p \in named THEN [holds[p] EXCEPT !.kind = "zero"]
                                              ELSE holds[p]])

Places == {<<>>} \cup {p \in DirPaths : Len(p) = 1}
Next ==
  \/ \E dir \in Places, n \in Name :
       \/ AddDirectory(dir, n)
       \/ \E len \in Lengths : AddFile(dir, n, "file", len)
       \/ AddFile(dir, n, "symlink", 1)
       \/ \E old \in DOMAIN truth \ DirPaths : AddHardLink(old, dir, n)
  \/ \E p \in DOMAIN truth : RmDirectory(p) \/ RmFile(p) \/ RmHardLink(p)
  \/ Write \/ Reopen \/ ReopenZeroed

Spec == Init /\ [][Next]_vars

-----------------------------------------------------------------------------
(* Properties.                                                              *)

Types == {"free", "dir", "file", "symlink"}
TypeOK ==
  /\ vol.on =>
       /\ \A e \in Entries : LET x == vol.ents[e] IN
            /\ x.kind \in Types /\ x.info \in Nat /\ x.links \in Nat /\ x.ino \in Entries \cup {0}
            /\ x.kind = "dir" => Length(x.fis) = x.info /\ x.allocs[1].len = x.info
            /\ x.kind \notin {"free", "dir"} => e \in ToSet(vol.inos[x.ino].linked)
            /\ x.kind # "free" /\ e # Root => vol.ents[x.parent].kind = "dir"
       /\ vol.space \in Nat /\ vol.files \in Nat /\ vol.dirs \in Nat
  /\ calls \in 0..MaxCalls /\ raised \in {"none", "invalid", "internal"}

\* What there is below a directory: the path, the place of the identifier and
\* what it leads to.
What(v, d) ==
  IF d.entry = 0 THEN [kind |-> "zero", data |-> 0, len |-> 0]
  ELSE LET e == v.ents[d.entry]
       IN [kind |-> e.kind, data |-> IF e.kind = "dir" THEN 0 ELSE v.inos[e.ino].data,
           len |-> IF e.kind = "dir" THEN 0 ELSE v.inos[e.ino].len]
RECURSIVE Listing(_, _, _)
Listing(v, dir, path) ==
  LET named == {i \in 1..Len(v.ents[dir].fis) : ~v.ents[dir].fis[i].parent}
      p(i) == Append(path, NameOf(v.ents[dir].fis[i]))
      below(i) == IF v.ents[dir].fis[i].dir THEN Listing(v, v.ents[dir].fis[i].entry, p(i)) ELSE {}
  IN {[path |-> p(i), at |-> <<dir, i>>, what |-> What(v, v.ents[dir].fis[i])] : i \in named}
     \cup UNION {below(i) : i \in named}
Holds(v, t) ==
  LET l == Listing(v, Root, <<>>)
  IN /\ {x.path : x \in l} = DOMAIN t /\ Cardinality(l) = Cardinality(DOMAIN t)
     /\ \A x \in l : x.what = t[x.path] /\ Find(v, x.path) = x.at
     /\ \A d \in {<<>>} \cup {p \in DOMAIN t : t[p].kind = "dir"}, n \in Name :
          Append(d, n) \notin DOMAIN t => Find(v, Append(d, n))[2] = 0

\* Whatever names are added and removed, and in whatever encoding they are,
\* the object and the image, once opened, have the paths that the client asked
\* for with what it put there, find each of them and no other, and the parts
\* of a file are where its allocation descriptors say.
TreeKept ==
  /\ vol.on => Holds(vol, truth)
  /\ image # NoImage =>
       /\ Opens(image) /\ Holds(Read(image), holds)
       /\ \A b \in DOMAIN image.fe : image.fe[b].kind \in {"file", "symlink"} =>
            LET as == image.fe[b].allocs
                at == FlattenSeq([i \in 1..Len(as) |-> [j \in 1..as[i].len |-> as[i].block + j - 1]])
            IN /\ Len(at) = image.fe[b].info
               /\ \A j \in 1..Len(at) : image.data[at[j]] = <<DataOf(image, image.fe[b]), j>>

\* The blocks that were added up call by call are those that the walk needs,
\* and it counts the blocks of identifiers as they are written: each is where
\* its tag says, each leads to its entry, and nothing overlaps.  Directories
\* count their links, and the volume its files and directories.
Exact(v, l) ==
  LET entries == {v.ents[e].fe : e \in Dirs(v)} \cup {v.ents[IdentAt(v, x.at).entry].fe : x \in l}
      idents == UNION {v.ents[e].allocs[1].block .. (v.ents[e].allocs[1].block + Blocks(v.ents[e].info) - 1) :
                         e \in Dirs(v)}
      data == DOMAIN Written(v).data
  IN /\ v.end = v.space
     /\ entries \cup idents \cup data = 2..(v.end - 1)
     /\ entries \cap idents = {} /\ (entries \cup idents) \cap data = {}
     /\ \A e \in Dirs(v) :
          /\ \A i \in 1..Len(v.ents[e].fis) :
               v.ents[e].fis[i].ext
                 = v.ents[e].allocs[1].block + Length(SubSeq(v.ents[e].fis, 1, i - 1)) \div BlockSize
          /\ v.ents[e].links = Cardinality({i \in 1..Len(v.ents[e].fis) : v.ents[e].fis[i].dir})
     /\ \A x \in l : IdentAt(v, x.at).icb = v.ents[IdentAt(v, x.at).entry].fe
     /\ v.dirs = Cardinality(Dirs(v))
     /\ v.files = Cardinality({x \in l : x.what.kind # "dir"})
LayoutExact ==
  vol.on /\ Zeroed(vol) = {} => Exact(LaidOut(vol), Listing(vol, Root, <<>>))
=============================================================================
