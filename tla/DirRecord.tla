----------------------------- MODULE DirRecord -----------------------------
(***************************************************************************)
(* The records of one directory: class DirectoryRecord seen from the       *)
(* directory, with its sorted lists of children, the place of each record  *)
(* in the blocks of the directory, the length of the directory and the     *)
(* copies of that length in its "." record and in the ".." records of the  *)
(* directories below it, and its count of Rock Ridge links.                *)
(*                                                                         *)
(* Abstractions: names are numbers in the order of __lt__; "." and ".."    *)
(* always come first and are a fixed offset into the first block; records  *)
(* of one name (the segments of a long file) are numbered.                 *)
(***************************************************************************)
EXTENDS Integers, Sequences, FiniteSets

CONSTANTS
  DirName, FileName, \* the names, numbers
  Segment,           \* the records of one file name
  Length,            \* name -> dr_len of its records
  RrOrder,           \* name -> the rank of its Rock Ridge name
  DotsLength,        \* dr_len of "." and ".." together
  BlockSize,         \* the logical block size
  MaxRrChildren,     \* bound on the length of rr_children
  MaxLinks,          \* bound on the links counted
  Faults             \* the circumstances below that a configuration allows

Circumstances == {
  "duplicate_dir" }  \* add_directory of a name that is taken

Name == DirName \cup FileName

ASSUME DirRecordAssumption ==
  /\ Name \subseteq Nat /\ IsFiniteSet(Name) /\ DirName \cap FileName = {}
  /\ Segment \subseteq Nat /\ 1 \in Segment
  /\ BlockSize \in Nat /\ DotsLength \in 1..(BlockSize \div 2)
  /\ Length \in [Name -> 1..(BlockSize \div 2)]  \* 255 bytes of 2048
  /\ RrOrder \in [Name -> Nat]
  /\ MaxRrChildren \in Nat /\ MaxLinks \in Nat
  /\ Faults \subseteq Circumstances

VARIABLES
  rockRidge,  \* whether the image has Rock Ridge
  children,   \* the list children, without "." and ".."
  rrChildren, \* the list rr_children
  pos,        \* record -> extents_to_here, offset_to_here, index_in_parent
  dataLength, \* data_length of the directory, in blocks
  dot,        \* data_length of its "." record, in blocks
  dotdots,    \* directory name -> data_length of the ".." record below it
  links,      \* the Rock Ridge links of the directory
  charged,    \* the blocks of the volume size meant for the directory
  raised      \* the exception the last operation ended with, or "none"

vars == <<rockRidge, children, rrChildren, pos, dataLength, dot, dotdots, links, charged, raised>>

-----------------------------------------------------------------------------
Child == (DirName \X {1}) \cup (FileName \X Segment)
NameOf(c) == c[1]
IsDir(c) == NameOf(c) \in DirName
Elements(s) == {s[k] : k \in 1..Len(s)}
InsertAt(s, k, x) == SubSeq(s, 1, k - 1) \o <<x>> \o SubSeq(s, k, Len(s))
RemoveAt(s, k) == SubSeq(s, 1, k - 1) \o SubSeq(s, k + 1, Len(s))

\* bisect_left over a list sorted by key: the leftmost place not before v.
Bisect(s, Key(_), v) ==
  CHOOSE k \in 1..(Len(s) + 1) :
    /\ \A j \in 1..(k - 1) : Key(s[j]) < v
    /\ \A j \in k..Len(s) : Key(s[j]) >= v

RrKey_iso(c) == NameOf(c)
RrKey(c) == RrOrder[NameOf(c)]

\* Where a record of length n ends when the record before it ends at p.  No
\* record crosses from one block into the next.
After(p, n) ==
  IF p.offset + n > BlockSize THEN [extents |-> p.extents + 1, offset |-> n]
  ELSE [p EXCEPT !.offset = @ + n]
Start == [extents |-> 1, offset |-> DotsLength]

Nowhere == [extents |-> 0, offset |-> 0, index |-> 0]

\* _recalculate_extents_and_offsets of the list s from index k on: where each
\* record ends (0 stands for ".."); the records before k are where old has them.
Ends(s, k, old) ==
  LET end[j \in 0..Len(s)] ==
        IF j = 0 THEN Start
        ELSE IF j < k THEN [extents |-> old[s[j]].extents, offset |-> old[s[j]].offset]
        ELSE After(end[j - 1], Length[NameOf(s[j])])
  IN end
\* The places of the records afterwards.
Places(s, k, old) ==
  [c \in Child |->
     IF \E j \in k..Len(s) : s[j] = c
       THEN LET j == CHOOSE i \in k..Len(s) : s[i] = c
            IN [extents |-> Ends(s, k, old)[j].extents,
                offset |-> Ends(s, k, old)[j].offset, index |-> j]
       ELSE IF c \in Elements(s) THEN old[c] ELSE Nowhere]
Packed(s) == Places(s, 1, [c \in Child |-> Nowhere])
\* The end of the last record.
Last(s, places) ==
  IF s = <<>> THEN Start
  ELSE [extents |-> places[s[Len(s)]].extents, offset |-> places[s[Len(s)]].offset]
Blocks(s) == Last(s, Packed(s)).extents

\* The lengths in the ".." records of the directories of the list s: they are
\* set when the length of this directory changes.
Dotdots(s, n) == [d \in DirName |-> IF <<d, 1>> \in Elements(s) THEN n ELSE 0]
Follow(s) == IF dataLength' = dataLength THEN dotdots ELSE Dotdots(s, dataLength')

\* The lists of the records S that are sorted by the key.
Sorted(s, Key(_)) == \A j, k \in 1..Len(s) : j < k => Key(s[j]) <= Key(s[k])
Orders(S, Key(_)) ==
  {s \in [1..Cardinality(S) -> S] : Elements(s) = S /\ Sorted(s, Key)}

-----------------------------------------------------------------------------
\* new() or open(): the records of the directory are tracked one by one, at
\* their sorted places; the lengths are those found on the image.
Init ==
  /\ rockRidge \in BOOLEAN
  /\ \E S \in SUBSET (Name \X {1}) :
       /\ children \in Orders(S, NameOf)
       /\ rrChildren \in Orders(IF rockRidge THEN S ELSE {}, RrKey)
       /\ dataLength = Blocks(children)
       /\ links = IF rockRidge THEN 2 + Cardinality({c \in S : IsDir(c)}) ELSE 0
  /\ pos = Packed(children)
  /\ dot = dataLength
  /\ dotdots = Dotdots(children, dataLength)
  /\ charged = dataLength
  /\ raised = "none"

Place(n) == Bisect(children, NameOf, n)
Taken(n) == \E c \in Elements(children) : NameOf(c) = n

Repack_late(s, k) == Places(s, k + 1, pos)
\* _recalculate_extents_and_offsets from index k on, after a change there.
Repack(s, k) == Places(s, k, pos)

Overflowed_late(s, places) == Last(s, places).extents > dataLength + 1
Underflowed_early(s, places) == dataLength * BlockSize > Last(s, places).offset
\* The last record ends beyond the length of the directory / more than a whole
\* block is left over.
Overflowed(s, places) == Last(s, places).extents > dataLength
Underflowed(s, places) ==
  LET end == Last(s, places)
      total == (end.extents - 1) * BlockSize + end.offset
  IN dataLength * BlockSize - total > BlockSize

\* The directory grows (or shrinks) by n blocks: the parent's data_length, that
\* of its "." record, and what the caller charges to the volume.
Resize(n) ==
  /\ dataLength' = dataLength + n
  /\ dot' = dataLength + n
  /\ charged' = charged + n

\* _add_child of record c at index k.
Insert(c, k) ==
  LET s == InsertAt(children, k, c)
  IN /\ children' = s
     /\ IF rockRidge
          THEN /\ Len(rrChildren) < MaxRrChildren
               /\ rrChildren' = InsertAt(rrChildren, Bisect(rrChildren, RrKey, RrKey(c)), c)
          ELSE UNCHANGED rrChildren
     /\ pos' = Repack(s, k)
     /\ raised' = "none"
     /\ Resize(IF Overflowed(s, Repack(s, k)) THEN 1 ELSE 0)

\* A file, or one more segment of it, right after the leftmost record of that
\* name.
AddFile(c) ==
  /\ NameOf(c) \in FileName /\ c \notin Elements(children)
  /\ Insert(c, IF Taken(NameOf(c)) THEN Place(NameOf(c)) + 1 ELSE Place(NameOf(c)))
  /\ dotdots' = Follow(children)
  /\ UNCHANGED <<rockRidge, links>>

AddDirectory_uncounted(d) ==
  /\ ~Taken(d)
  /\ Insert(<<d, 1>>, Place(d))
  /\ dotdots' = [Follow(children) EXCEPT ![d] = 1]
  /\ UNCHANGED <<rockRidge, links>>
\* A directory: the links are counted, then it is added, then it gets its own
\* ".", and its "..", which starts with a length of one block.
AddDirectory(d) ==
  /\ ~Taken(d)
  /\ Insert(<<d, 1>>, Place(d))
  /\ dotdots' = [Follow(children) EXCEPT ![d] = 1]
  /\ links' = IF rockRidge THEN links + 1 ELSE links
  /\ UNCHANGED rockRidge
\* The same with a name that is taken: _add_child raises.
AddDirectoryFails(d) ==
  /\ "duplicate_dir" \in Faults
  /\ Taken(d)
  /\ links < MaxLinks
  /\ links' = IF rockRidge THEN links + 1 ELSE links
  /\ raised' = "invalid"
  /\ UNCHANGED <<rockRidge, children, rrChildren, pos, dataLength, dot, dotdots, charged>>

\* remove_child of the record at c's index: rr_children is left alone.
Remove(c) ==
  LET k == pos[c].index
      s == RemoveAt(children, k)
  IN /\ c \in Elements(children)
     /\ children' = s
     /\ pos' = Repack(s, k)
     /\ Resize(IF Underflowed(s, Repack(s, k)) THEN -1 ELSE 0)
     /\ dotdots' = IF IsDir(c) THEN [Follow(s) EXCEPT ![NameOf(c)] = 0] ELSE Follow(s)
     /\ links' = IF rockRidge /\ IsDir(c) THEN links - 1 ELSE links
     /\ raised' = "none"
     /\ UNCHANGED <<rockRidge, rrChildren>>

Next ==
  \/ \E c \in Child : AddFile(c)
  \/ \E d \in DirName : AddDirectory(d)
  \/ \E d \in DirName : AddDirectoryFails(d)
  \/ \E c \in Child : Remove(c)

Spec == Init /\ [][Next]_vars

-----------------------------------------------------------------------------
(* Properties. *)

TypeOK ==
  /\ rockRidge \in BOOLEAN
  /\ children \in Seq(Child)
  /\ rrChildren \in Seq(Child)
  /\ pos \in [Child -> [extents : Nat, offset : 0..BlockSize, index : Nat]]
  /\ dataLength \in Nat \ {0}
  /\ dot \in Nat
  /\ dotdots \in [DirName -> Nat]
  /\ links \in Nat
  /\ charged \in Nat
  /\ raised \in {"none", "invalid"}

\* The places kept in the records, which are recalculated only from the point
\* of a change on, are those of packing the whole list again; in particular
\* index_in_parent, by which a record is removed, is right.
PlacesCurrent == \A c \in Elements(children) : pos[c] = Packed(children)[c]

\* What the directory says of itself agrees with its records.  It is long enough
\* for them, or they would be written over what follows, and wastes one block at
\* most: adding or removing a record repacks all records after it but grows or
\* shrinks by one block only.  The "." record and the space charged to the
\* volume agree with the length; the ".." record of a directory below has it
\* too, or still the one block that a new directory's ".." starts with: never a
\* length that was before.  The Rock Ridge links count "." and ".." and every
\* directory below, and possibly refused ones: a lower count hides directories
\* from programs that stop looking after that many.
CountsFit ==
  /\ Blocks(children) <= dataLength /\ dataLength <= Blocks(children) + 1
  /\ dot = dataLength /\ charged = dataLength
  /\ \A d \in DirName : Taken(d) => dotdots[d] \in {1, dataLength}
  /\ rockRidge => links >= 2 + Cardinality({c \in Elements(children) : IsDir(c)})

\* _find_dr_record_by_name and _find_rr_record: the leftmost record found by
\* the binary search, if it has the name.
FindIso(n) ==
  LET k == Place(n)
  IN {children[j] : j \in {i \in {k} : i <= Len(children) /\ NameOf(children[i]) = n}}
FindRr(n) ==
  LET k == Bisect(rrChildren, RrKey, RrOrder[n])
  IN {rrChildren[j] : j \in {i \in {k} : i <= Len(rrChildren) /\ RrKey(rrChildren[i]) = RrOrder[n]}}

\* The two lists stay sorted in their two orders through insertions and
\* removals, so that the binary searches find: by ISO9660 name a record exactly
\* if one is listed, by Rock Ridge name whatever is listed (dr.py:763,
\* pycdlib.py:463 and 723).
LookupFinds ==
  \A n \in Name :
    /\ Taken(n) <=> FindIso(n) \cap Elements(children) # {}
    /\ rockRidge /\ Taken(n) => FindRr(n) # {}
=============================================================================
