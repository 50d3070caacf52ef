--------------------------- MODULE UdfDescriptors ---------------------------
(***************************************************************************)
(* The UDF descriptors of a volume: what new() makes, what parse() insists *)
(* on and turns a block into, and what record() turns an object into.      *)
(*                                                                         *)
(* A descriptor on the image has a tag and a body; in memory it also has   *)
(* the extent it is at.  Fields that the code only copies and no property  *)
(* is about (identifiers, abstracts, application areas) are left out.      *)
(* Identifiers that parse() compares are named without signs and blanks.   *)
(* Names of operators: NewX is X.new(), XValid what X.parse() accepts,     *)
(* ParseX and RecordX what it reads and what X.record() writes, where the  *)
(* two forms differ.                                                       *)
(***************************************************************************)
EXTENDS Integers, Sequences, FiniteSets

Total(s) ==
  LET upto[i \in 0..Len(s)] == IF i = 0 THEN 0 ELSE upto[i - 1] + s[i]
  IN upto[Len(s)]
\* A finite set of numbers as a sequence, the smallest first.
InOrderOf(S) ==
  [i \in 1..Cardinality(S) |-> CHOOSE n \in S : Cardinality({m \in S : m <= n}) = i]

-----------------------------------------------------------------------------
(* The parts of descriptors.                                                *)

\* UDFEntityID, UDFCharspec (only the set type counts), UDFExtentAD, UDFLongAD.
EntityID(flags, ident) == [flags |-> flags, ident |-> ident]
EntityValid(e) == e.flags <= 3
CharspecValid(setType) == setType <= 8
ExtentAD(length, location) == [length |-> length, location |-> location]
ExtentADValid(ad) == ad.length < 1073741823
LongAD(length, block) == [length |-> length, block |-> block, part |-> 0]

\* UDFShortAD: the upper two bits of the length are the type of the extent.
\* parse() masks them off before it looks at them.
ShortAD(length) == [length |-> length, block |-> 0]
ParseShortAD(ad) == [length |-> ad.length % 1073741824, block |-> ad.block]
RecordShortAD(ad) == ad

\* UDFTimestamp: the zone is a number of twelve bits with a sign.
Now == [tz |-> 0, type |-> 1, year |-> 2020, month |-> 1, day |-> 1,
        hour |-> 0, minute |-> 0, second |-> 0]
Signed(n) == IF n >= 2048 THEN n - 4096 ELSE n
ParseTimestamp(t) == [t EXCEPT !.tz = Signed(@)]
RecordTimestamp_unsigned(t) == [t EXCEPT !.tz = IF @ < 0 THEN -@ ELSE @]
RecordTimestamp(t) == [t EXCEPT !.tz = @ % 4096]
TimestampValid(t) ==
  /\ Signed(t.tz) \in (-1440)..1440 \cup {-2047}
  /\ t.year \in 1..9999 /\ t.month \in 1..12 /\ t.day \in 1..31
  /\ t.hour \in 0..23 /\ t.minute \in 0..59 /\ t.second \in 0..59

\* UDFTag.  A tag that was parsed keeps the length its CRC is taken over, a
\* new one covers the whole body; reserved and sums (checksum and CRC) are
\* found on the image only.
NewTag(ident) == [ident |-> ident, version |-> 2, serial |-> 0, loc |-> 0, crcLen |-> -1]
BodyLength == 496
TagValid(t, room) ==
  /\ t.reserved = 0 /\ t.sums
  /\ t.version \in {2, 3}
  /\ t.crcLen <= room
\* A tag with another location than where it is read is put right.
ParseTag(t, loc) ==
  [ident |-> t.ident, version |-> t.version, serial |-> t.serial, loc |-> loc,
   crcLen |-> t.crcLen]
RecordTag(t) ==
  [ident |-> t.ident, version |-> t.version, serial |-> t.serial, loc |-> t.loc,
   crcLen |-> IF t.crcLen >= 0 THEN t.crcLen ELSE BodyLength,
   reserved |-> 0, sums |-> TRUE]

-----------------------------------------------------------------------------
(* The volume recognition sequence: BEA01, BOOT2, NSR02 or NSR03, TEA01.    *)

NewBEA == [ident |-> "BEA01", type |-> 0, version |-> 1]
NewTEA == [ident |-> "TEA01", type |-> 0, version |-> 1]
NewNSR == [ident |-> "NSR02", type |-> 0, version |-> 1]
NewBoot ==
  [ident |-> "BOOT2", type |-> 0, version |-> 1, reserved |-> 0, flags |-> 0,
   arch |-> EntityID(0, "none"), boot |-> EntityID(0, "none"), date |-> Now]

StructureValid(s) == s.type = 0 /\ s.version = 1
BEAValid(s) == StructureValid(s) /\ s.ident = "BEA01"
NSRValid(s) == StructureValid(s) /\ s.ident \in {"NSR02", "NSR03"}
TEAValid(s) == StructureValid(s) /\ s.ident = "TEA01"
BootValid(s) ==
  /\ StructureValid(s) /\ s.ident = "BOOT2"
  /\ s.reserved = 0 /\ s.flags <= 1
  /\ EntityValid(s.arch) /\ EntityValid(s.boot) /\ TimestampValid(s.date)
ParseBoot(s) == [s EXCEPT !.date = ParseTimestamp(@)]
RecordBoot(s) == [s EXCEPT !.date = RecordTimestamp(@)]

-----------------------------------------------------------------------------
(* The descriptors of a volume descriptor sequence, by tag.                 *)

\* UDFPrimaryVolumeDescriptor, tag 1
NewPVD ==
  [seq |-> 0, num |-> 0, volSeq |-> 1, maxVolSeq |-> 1, level |-> 2, maxLevel |-> 2,
   charSets |-> 1, maxCharSets |-> 1, flags |-> 0, reserved |-> 0,
   chars |-> <<0, 0>>, extents |-> <<ExtentAD(0, 0), ExtentAD(0, 0)>>,
   ids |-> <<EntityID(0, "none"), EntityID(0, "pycdlib")>>, date |-> Now]
PVDValid(b) ==
  /\ b.volSeq = 1 /\ b.maxVolSeq = 1 /\ b.charSets = 1 /\ b.maxCharSets = 1
  /\ b.level \in {2, 3} /\ b.flags \in {0, 1} /\ b.reserved = 0
  /\ \A i \in 1..2 : /\ CharspecValid(b.chars[i]) /\ ExtentADValid(b.extents[i])
                     /\ EntityValid(b.ids[i])
  /\ TimestampValid(b.date)
ParsePVD(b) == [b EXCEPT !.date = ParseTimestamp(@)]
\* The fields that are always one are written as such.
RecordPVD(b) ==
  [b EXCEPT !.date = RecordTimestamp(@), !.volSeq = 1, !.maxVolSeq = 1,
            !.charSets = 1, !.maxCharSets = 1, !.reserved = 0]

\* UDFVolumeDescriptorPointer, tag 3; nobody calls its new()
PointerValid(b) == ExtentADValid(b.next)

\* UDFImplementationUseVolumeDescriptor, tag 4
NewImplUse ==
  [seq |-> 1, impl |-> EntityID(0, "UDF_LV_Info"), char |-> 0,
   impl2 |-> EntityID(0, "pycdlib")]
ImplUseContentValid(b) == CharspecValid(b.char) /\ EntityValid(b.impl2)
ImplUseValid(b) ==
  /\ EntityValid(b.impl) /\ b.impl.ident = "UDF_LV_Info"
  /\ ImplUseContentValid(b)

\* UDFPartitionVolumeDescriptor, tag 5, with the five extents of its header
NewPartitionHeader == [i \in 1..5 |-> ShortAD(0)]
ParsePartitionHeader(h) == [i \in 1..5 |-> ParseShortAD(h[i])]
RecordPartitionHeader(h) == [i \in 1..5 |-> RecordShortAD(h[i])]
NewPartition ==
  [seq |-> 2, flags |-> 1, num |-> 0, contents |-> EntityID(2, "NSR02"),
   header |-> NewPartitionHeader, access |-> 1, start |-> 0, length |-> 3,
   impl |-> EntityID(0, "pycdlib")]
PartitionValid(b) ==
  /\ b.flags \in {0, 1} /\ b.access <= 31
  /\ EntityValid(b.contents) /\ EntityValid(b.impl)
  /\ b.contents.ident \in {"FDC01", "CD001", "CDW02", "NSR02", "NSR03"}
ParsePartition(b) == [b EXCEPT !.header = ParsePartitionHeader(@)]
RecordPartition(b) == [b EXCEPT !.header = RecordPartitionHeader(@)]

\* The partition maps: type 0 of any length, type 1 of 6 bytes, type 2 of 64.
Map(type) == [type |-> type, len |-> CASE type = 0 -> 2 [] type = 1 -> 6 [] type = 2 -> 64]
MapValid(map) ==
  CASE map.type = 0 -> TRUE [] map.type = 1 -> map.len = 6
    [] map.type = 2 -> map.len = 64 [] OTHER -> FALSE
MapBytes(maps) == Total([i \in 1..Len(maps) |-> maps[i].len])

\* UDFLogicalVolumeDescriptor, tag 6: block size, domain, map table, and where
\* the integrity sequence is
NewLogicalVolume ==
  [seq |-> 3, char |-> 0, blockSize |-> 2048, domain |-> EntityID(0, "OSTA_UDF_Compliant"),
   contents |-> LongAD(4096, 0), tableLength |-> 6, maps |-> <<Map(1)>>,
   impl |-> EntityID(0, "pycdlib"), integrity |-> ExtentAD(4096, 0)]
MapTableValid(b) ==
  /\ b.tableLength < 72
  /\ \A i \in 1..Len(b.maps) :
       /\ MapValid(b.maps[i])
       /\ MapBytes(SubSeq(b.maps, 1, i)) <= b.tableLength
LogicalVolumeValid(b) ==
  /\ CharspecValid(b.char) /\ b.blockSize = 2048
  /\ EntityValid(b.domain) /\ b.domain.ident = "OSTA_UDF_Compliant"
  /\ EntityValid(b.impl) /\ ExtentADValid(b.integrity)
  /\ MapTableValid(b)
\* The table is as long as the maps that were read.
RecordLogicalVolume(b) == [b EXCEPT !.tableLength = MapBytes(b.maps), !.blockSize = 2048]

\* UDFUnallocatedSpaceDescriptor, tag 7: the extents that are free
NewUnallocated == [seq |-> 4, num |-> 0, free |-> <<>>]
UnallocatedValid(b) ==
  /\ b.num * 8 <= 488
  /\ \A i \in 1..b.num : ExtentADValid(b.free[i])

\* UDFTerminatingDescriptor, tag 8: the tag is all there is.
NewTerminator == [seq |-> -1]

\* UDFLogicalVolumeIntegrityDescriptor, tag 9, with its header (the next
\* unique id) and its implementation use (the files and directories counted)
NewHeader == 261
NewIntegrityUse ==
  [impl |-> EntityID(0, "pycdlib"), files |-> 0, dirs |-> 1, revision |-> 258]
NewIntegrity ==
  [date |-> Now, type |-> 1, next |-> ExtentAD(0, 0), unique |-> NewHeader,
   free |-> <<0>>, sizes |-> <<3>>, useLength |-> 46, use |-> NewIntegrityUse]
IntegrityUseValid(u) == EntityValid(u.impl)
IntegrityValid(b) ==
  /\ TimestampValid(b.date) /\ b.type \in {0, 1} /\ ExtentADValid(b.next)
  /\ b.useLength <= 432 - 4 * (Len(b.free) + Len(b.sizes))
  /\ IntegrityUseValid(b.use)
ParseIntegrity(b) == [b EXCEPT !.date = ParseTimestamp(@)]
RecordIntegrity(b) == [b EXCEPT !.date = RecordTimestamp(@)]

\* UDFFileSetDescriptor, tag 256: where the root directory is
NewFileSet ==
  [date |-> Now, level |-> 3, maxLevel |-> 3, charSets |-> 1, maxCharSets |-> 1,
   num |-> 0, chars |-> <<0, 0>>, domain |-> EntityID(0, "OSTA_UDF_Compliant"),
   root |-> LongAD(2048, 2), next |-> LongAD(0, 0), stream |-> LongAD(0, 0)]
FileSetValid(b) ==
  /\ TimestampValid(b.date) /\ b.level = 3 /\ b.maxLevel = 3
  /\ b.charSets = 1 /\ b.maxCharSets = 1 /\ b.num = 0
  /\ CharspecValid(b.chars[1]) /\ CharspecValid(b.chars[2])
  /\ EntityValid(b.domain) /\ b.domain.ident = "OSTA_UDF_Compliant"
ParseFileSet(b) == [b EXCEPT !.date = ParseTimestamp(@)]
RecordFileSet(b) ==
  [b EXCEPT !.date = RecordTimestamp(@), !.level = 3, !.maxLevel = 3,
            !.charSets = 1, !.maxCharSets = 1, !.num = 0]

\* UDFAnchorVolumeStructure, tag 2: where the two sequences are
NewAnchor == [main |-> ExtentAD(32768, 0), reserve |-> ExtentAD(32768, 0)]
AnchorValid(b) == ExtentADValid(b.main) /\ ExtentADValid(b.reserve)
SameAnchor(a, b) ==
  /\ a.body.main.location = b.body.main.location
  /\ a.body.reserve.location = b.body.reserve.location

-----------------------------------------------------------------------------
(* All of them.                                                             *)

BodyValid(ident, b) ==
  CASE ident = 1 -> PVDValid(b)       [] ident = 2 -> AnchorValid(b)
    [] ident = 3 -> PointerValid(b)   [] ident = 4 -> ImplUseValid(b)
    [] ident = 5 -> PartitionValid(b) [] ident = 6 -> LogicalVolumeValid(b)
    [] ident = 7 -> UnallocatedValid(b) [] ident = 9 -> IntegrityValid(b)
    [] ident = 256 -> FileSetValid(b) [] OTHER -> TRUE
ParseBody(ident, b) ==
  CASE ident = 1 -> ParsePVD(b)       [] ident = 5 -> ParsePartition(b)
    [] ident = 9 -> ParseIntegrity(b) [] ident = 256 -> ParseFileSet(b)
    [] OTHER -> b
RecordBody(ident, b) ==
  CASE ident = 1 -> RecordPVD(b)       [] ident = 5 -> RecordPartition(b)
    [] ident = 6 -> RecordLogicalVolume(b)
    [] ident = 9 -> RecordIntegrity(b) [] ident = 256 -> RecordFileSet(b)
    [] OTHER -> b

NewDesc(ident, body) == [tag |-> NewTag(ident), body |-> body, extent |-> -1]
\* A descriptor read at an extent whose tag should say loc.
ParseDesc(d, extent, loc) ==
  [tag |-> ParseTag(d.tag, loc), body |-> ParseBody(d.tag.ident, d.body), extent |-> extent]
DescValid(d) == TagValid(d.tag, 2032) /\ BodyValid(d.tag.ident, d.body)
RecordDesc(m) == [tag |-> RecordTag(m.tag), body |-> RecordBody(m.tag.ident, m.body)]
\* set_extent_location: of the descriptor and its tag
At(m, extent) == [m EXCEPT !.extent = extent, !.tag.loc = extent]

-----------------------------------------------------------------------------
(* UDFDescriptorSequence: lists of descriptors, by tag.                     *)

\* The order in which they are given extents and written.
SequenceOrder == <<1, 3, 4, 5, 6, 7, 8>>
NewSequence ==
  [k \in {1, 3, 4, 5, 6, 7, 8} |->
     CASE k = 1 -> <<NewDesc(1, NewPVD)>> [] k = 3 -> <<>>
       [] k = 4 -> <<NewDesc(4, NewImplUse)>>
       [] k = 5 -> <<NewDesc(5, NewPartition)>>
       [] k = 6 -> <<NewDesc(6, NewLogicalVolume)>>
       [] k = 7 -> <<NewDesc(7, NewUnallocated)>>
       [] k = 8 -> <<NewDesc(8, NewTerminator)>>]
InOrder(s) == s[1] \o s[3] \o s[4] \o s[5] \o s[6] \o s[7] \o s[8]

\* How many there are in the first n lists of an order, and before those of
\* kind k.
Count(lists, order, n) == Total([i \in 1..n |-> Len(lists[order[i]])])
Before(lists, order, k) ==
  Count(lists, order, (CHOOSE i \in 1..Len(order) : order[i] = k) - 1)

\* assign_desc_extents
AssignDescExtents(s, start) ==
  [k \in DOMAIN s |->
     [j \in 1..Len(s[k]) |-> At(s[k][j], start + Before(s, SequenceOrder, k) + j - 1)]]

\* parse_udf_vol_descs: the descriptors from extent on, up to a terminator, a
\* pointer or a tag 0.  blocks is the sequence of descriptors found there.
LastBlock(blocks) ==
  LET ends == {i \in 1..Len(blocks) : blocks[i].tag.ident \in {0, 3, 8}}
  IN IF ends = {} THEN 0 ELSE CHOOSE i \in ends : \A j \in ends : i <= j
ParseSequence(blocks, extent) ==
  [k \in {1, 3, 4, 5, 6, 7, 8} |->
     LET at == InOrderOf({i \in 1..LastBlock(blocks) : blocks[i].tag.ident = k})
     IN [j \in 1..Len(at) |-> ParseDesc(blocks[at[j]], extent + at[j] - 1, extent + at[j] - 1)]]
\* append_to_list refuses two of a kind and number unless they are equal; as
\* the extents in their tags are compared too, they never are.
SequenceValid(blocks, extent) ==
  LET n == LastBlock(blocks)
      s == ParseSequence(blocks, extent)
  IN /\ n > 0
     /\ \A i \in 1..n : DescValid(blocks[i]) /\ blocks[i].tag.ident \in {0, 1, 3, 4, 5, 6, 7, 8}
     /\ s[1] # <<>>
     /\ \A k \in {1, 4, 5, 6, 7} : \A i, j \in 1..Len(s[k]) :
          s[k][i].body.seq = s[k][j].body.seq => i = j
     /\ \A i, j \in 1..Len(s[1]) : s[1][i].body.num = 0 /\ s[1][j].body.num = 0 => i = j
=============================================================================
