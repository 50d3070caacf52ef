------------------------------ MODULE FileAccess ------------------------------
(***************************************************************************)
(* Reading the data of files: streams (PyCdlibIO), get_file_from_iso and   *)
(* the copying that write_fp does.  The data of a file that was parsed, or *)
(* added with add_fp, is read through a file object that other files and   *)
(* other readers use as well; that of add_file through one opened for each *)
(* reader.  A reader moves the file object when it starts and trusts that  *)
(* nobody else does until it ends.  Between two blocks that write_fp       *)
(* copies, its progress callback may do anything.                          *)
(*                                                                         *)
(* Abstractions: a byte is where it comes from; a boot info table is a     *)
(* byte, and so is the header that it follows.                             *)
(***************************************************************************)
EXTENDS Integers, SequencesExt, FiniteSetsExt

CONSTANTS
  File,      \* the inodes that have data
  Of,        \* each [object, at, len, managed, table, parts]: where its data
             \* is, and the inodes of the records of a file from this one on
  Size,      \* of each file object
  Streams,   \* the streams a client can have at a time
  Sizes,     \* the numbers of bytes it asks for
  Offsets,   \* the offsets it seeks to
  MaxOffset, \* bound on where it gets to
  None,
  Faults     \* the circumstances below that a configuration allows

Circumstances == {
  "interleaved",  \* a stream is read after its file object was moved
  "readinto",     \* reading on to the end, or seeking from here, after readinto
  "boot_info",    \* a boot file with its table read as a stream or by UDF path
  "long_file" }   \* a file of several records as a stream or by UDF path

Objects == {Of[f].object : f \in File}
Readers == Streams \cup {"copy", "get"}

\* A boot info table is found in the data, or made from it, so that it is there.
ASSUME FileAccessAssumption ==
  /\ None \notin File \cup Readers /\ Objects \cap Readers = {}
  /\ Streams \cap {"copy", "get"} = {}
  /\ Sizes \subseteq Nat \ {0} /\ Offsets \subseteq Int /\ MaxOffset \in Nat
  /\ Faults \subseteq Circumstances
  /\ \A f \in File :
       /\ Of[f].at \in Nat /\ Of[f].len \in Nat \ {0} /\ Size[Of[f].object] \in Nat
       /\ Of[f].managed \in BOOLEAN /\ Of[f].table \in BOOLEAN
       /\ Of[f].parts \in Seq(File) /\ Of[f].parts # <<>> /\ Of[f].parts[1] = f
       /\ \A i \in 1..Len(Of[f].parts) :
            /\ Of[Of[f].parts[i]].object = Of[f].object
            /\ Of[Of[f].parts[i]].managed = Of[f].managed
       /\ Of[f].table => Of[f].at + Of[f].len <= Size[Of[f].object]

VARIABLES
  pos,     \* the position of each file object
  stream,  \* the streams: the attributes of PyCdlibIO, and what the client knows
  copy,    \* the inode that write_fp is copying, or None
  owner,   \* who last moved each file object
  last     \* what the last call asked for and was given, if it did

vars == <<pos, stream, copy, owner, last>>

\* The bytes of a file object, its own of each reader if the library opens it.
Handle(f, reader) == IF Of[f].managed THEN reader ELSE Of[f].object
Handles == Objects \cup Streams \cup {"copy"}
Bytes(f, from, n) ==
  [i \in 1..Max({0, Min({n, Size[Of[f].object] - from})}) |-> <<Of[f].object, from + i - 1>>]

\* The data of an inode as it is on an image: the boot info table replaces
\* what the file has after its header.  Long files have several.
Raw(f) == Bytes(f, Of[f].at, Of[f].len)
Patched(f, bytes) == IF Of[f].table THEN [bytes EXCEPT ![2] = <<"table", f>>] ELSE bytes
OnImage(f) == Patched(f, Raw(f))
Whole(f) == FlattenSeq([i \in 1..Len(Of[f].parts) |-> OnImage(Of[f].parts[i])])
Part(f) == \E g \in File : \E i \in 2..Len(Of[g].parts) : Of[g].parts[i] = f

Closed == [file |-> None, offset |-> 0, open |-> FALSE, ahead |-> 0]
Nothing == [want |-> <<>>, got |-> <<>>]

Init ==
  /\ pos = [h \in Handles |-> 0] /\ stream = [s \in Streams |-> Closed]
  /\ copy = None /\ owner = [h \in Handles |-> None] /\ last = Nothing

\* While write_fp copies, whoever moves its file object is in its way.
Moves(h, who, to) ==
  /\ copy # None /\ h = Handle(copy.file, "copy") /\ who # "copy" => "interleaved" \in Faults
  /\ pos' = [pos EXCEPT ![h] = to] /\ owner' = [owner EXCEPT ![h] = who]
Plain(f) ==
  /\ Of[f].table => "boot_info" \in Faults
  /\ Len(Of[f].parts) > 1 \/ Part(f) => "long_file" \in Faults

-----------------------------------------------------------------------------
(* PyCdlibIO.                                                               *)

\* open_file_from_iso, and __enter__ of InodeOpenData
Open(s, f) ==
  /\ ~stream[s].open /\ Plain(f)
  /\ Moves(Handle(f, s), s, Of[f].at)
  /\ stream' = [stream EXCEPT ![s] = [file |-> f, offset |-> 0, open |-> TRUE, ahead |-> 0]]
  /\ last' = Nothing /\ UNCHANGED copy

\* How many bytes a read of n takes, all of them if n is negative.
Taken_any(x, n) == IF n < 0 THEN Of[x.file].len - x.offset ELSE n
Taken(x, n) ==
  LET left == Max({0, Of[x.file].len - x.offset})
  IN IF n < 0 THEN left ELSE Min({n, left})

\* Where the client takes the stream to be, and what it expects from there.
Here(x) == x.offset + x.ahead
Expected(x, n) ==
  LET left == Max({0, Len(Whole(x.file)) - Here(x)})
      size == IF n < 0 THEN left ELSE Min({n, left})
  IN SubSeq(Whole(x.file), Here(x) + 1, Here(x) + size)
Positioned(s, n) ==
  LET x == stream[s]
  IN /\ owner[Handle(x.file, s)] # s => "interleaved" \in Faults
     /\ x.ahead > 0 /\ (n < 0 \/ Here(x) + n > Of[x.file].len) => "readinto" \in Faults

\* read, with readall, and readinto, which forgets to go on.
Give(s, n, forgets) ==
  LET x == stream[s]
      h == Handle(x.file, s)
      got == Bytes(x.file, pos[h], Taken(x, n))
      step(y) == IF forgets THEN [y EXCEPT !.ahead = @ + Len(got)]
                            ELSE [y EXCEPT !.offset = @ + Taken(x, n)]
  IN /\ IF got = <<>> THEN UNCHANGED <<pos, owner>> ELSE Moves(h, s, pos[h] + Len(got))
     /\ last' = [want |-> Expected(x, n), got |-> got]
     /\ stream' = [stream EXCEPT ![s] = step(x)]
     /\ UNCHANGED copy
Read(s, n) == stream[s].open /\ Positioned(s, n) /\ Give(s, n, FALSE)
ReadInto(s, n) ==
  /\ stream[s].open /\ Positioned(s, n)
  /\ Here(stream[s]) + n <= MaxOffset /\ Give(s, n, TRUE)

\* seek.  A position at or after the end is remembered, and nothing moves; one
\* before the start is refused.
Target(x, offset, whence) ==
  CASE whence = 0 -> offset [] whence = 1 -> x.offset + offset [] whence = 2 -> Of[x.file].len + offset
MovesTo_relative(x, offset, whence) == IF whence = 1 THEN Of[x.file].at + offset
                                       ELSE Of[x.file].at + Target(x, offset, whence)
MovesTo(x, offset, whence) == Of[x.file].at + Target(x, offset, whence)
Seek(s, offset, whence) ==
  LET x == stream[s]
      h == Handle(x.file, s)
      to == Target(x, offset, whence)
  IN /\ x.open /\ (whence = 1 /\ x.ahead > 0 => "readinto" \in Faults) /\ to \in 0..MaxOffset
     /\ IF to < Of[x.file].len THEN Moves(h, s, MovesTo(x, offset, whence))
        ELSE pos' = pos /\ owner' = [owner EXCEPT ![h] = s]
     /\ stream' = [stream EXCEPT ![s].offset = to, ![s].ahead = IF whence = 1 THEN @ ELSE 0]
     /\ last' = Nothing /\ UNCHANGED copy

\* A stream that is closed refuses everything.
Close(s) ==
  /\ stream[s].open
  /\ stream' = [stream EXCEPT ![s] = Closed] /\ pos' = [pos EXCEPT ![s] = 0]
  /\ owner' = [h \in Handles |-> IF owner[h] = s THEN None ELSE owner[h]]
  /\ last' = Nothing /\ UNCHANGED copy

-----------------------------------------------------------------------------
(* get_file_from_iso.                                                       *)

\* _get_file_from_iso_fp, record by record.  A record of an inode with a boot
\* info table is copied around it.
CopyPart(f) ==
  IF ~Of[f].table THEN Raw(f)
  ELSE LET header == Bytes(f, Of[f].at, Min({1, Of[f].len}))
           rest == Of[f].len - Min({1, Of[f].len})
       IN header \o (IF rest > 0 THEN <<<<"table", f>>>> ELSE <<>>)
                 \o Bytes(f, Of[f].at + 2, Max({0, rest - 1}))
GetFile(f) ==
  LET end == Of[Last(Of[f].parts)]
  IN /\ ~Part(f)
     /\ IF Of[f].managed THEN UNCHANGED <<pos, owner>>
        ELSE Moves(end.object, "get", Min({end.at + end.len, Max({end.at, Size[end.object]})}))
     /\ last' = [want |-> Whole(f),
                got |-> FlattenSeq([i \in 1..Len(Of[f].parts) |-> CopyPart(Of[f].parts[i])])]
     /\ UNCHANGED <<stream, copy>>
\* _udf_get_file_from_iso_fp: the inode of the UDF File Entry, which is that
\* of the last record, and no table.
GetUdfFile(f) ==
  LET end == Last(Of[f].parts)
  IN /\ Plain(f) /\ ~Part(f)
     /\ IF Of[f].managed THEN UNCHANGED <<pos, owner>>
        ELSE Moves(Of[end].object, "get", Of[end].at + Len(Raw(end)))
     /\ last' = [want |-> Whole(f), got |-> Raw(end)]
     /\ UNCHANGED <<stream, copy>>

-----------------------------------------------------------------------------
(* _output_file_data, with copy_data_yield.                                 *)

StartCopy(f) ==
  /\ copy = None
  /\ copy' = [file |-> f, left |-> Of[f].len, out |-> <<>>]
  /\ pos' = [pos EXCEPT ![Handle(f, "copy")] = Of[f].at]
  /\ owner' = [owner EXCEPT ![Handle(f, "copy")] = "copy"]
  /\ last' = Nothing /\ UNCHANGED stream
\* A block of n bytes.  Less than was asked for means that the file ends here.
CopyBlock(n) ==
  LET h == Handle(copy.file, "copy")
      size == Min({n, copy.left})
      got == Bytes(copy.file, pos[h], size)
      left == IF Len(got) = size THEN copy.left - size ELSE 0
  IN /\ copy # None /\ copy.left > 0
     /\ copy' = [copy EXCEPT !.left = left, !.out = @ \o got]
     /\ Moves(h, "copy", pos[h] + Len(got))
     /\ last' = Nothing /\ UNCHANGED stream
\* The table is written over the copy.
EndCopy ==
  /\ copy # None /\ copy.left = 0
  /\ last' = [want |-> OnImage(copy.file),
              got |-> Patched(copy.file, copy.out)]
  /\ copy' = None /\ pos' = [pos EXCEPT !["copy"] = 0]
  /\ owner' = [h \in Handles |-> IF owner[h] = "copy" THEN None ELSE owner[h]]
  /\ UNCHANGED stream

Next ==
  \/ \E s \in Streams :
       \/ \E f \in File : Open(s, f)
       \/ \E n \in Sizes \cup {-1} : Read(s, n)
       \/ \E n \in Sizes : ReadInto(s, n)
       \/ \E offset \in Offsets, whence \in 0..2 : Seek(s, offset, whence)
       \/ Close(s)
  \/ \E f \in File : GetFile(f) \/ GetUdfFile(f) \/ StartCopy(f)
  \/ \E n \in Sizes : CopyBlock(n)
  \/ EndCopy

Spec == Init /\ [][Next]_vars

-----------------------------------------------------------------------------
(* Properties.                                                              *)

\* Whatever a client reads, through a stream at the place it takes it to be,
\* whole or by way of an image that is written, are the bytes of that file and
\* all that it asked for: not those of the file next to it, nor of another
\* place.  Other streams and copies may use the same file object in between, as
\* far as Faults has "interleaved".
ReadsOwn == last.got = last.want
==============================================================================
