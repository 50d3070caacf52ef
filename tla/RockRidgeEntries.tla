------------------------- MODULE RockRidgeEntries -------------------------
(***************************************************************************)
(* The Rock Ridge entries of one directory record: class RockRidge and the *)
(* classes of its entries.  A record has room for AllowedDrSize bytes;     *)
(* what does not fit goes to the continuation area, if the record has a CE *)
(* entry that points to it.  new() therefore tries without one first.      *)
(* Long names are split over NM entries, symbolic link targets over SL     *)
(* entries and, in them, over components.                                  *)
(*                                                                         *)
(* Abstractions: an entry has its signature, its length and what the       *)
(* parser tells apart; dates, modes and owners are left out.  A text is    *)
(* the interval of the name or component it was sliced from.  The place of *)
(* the continuation is that of module ContinuationArea.                    *)
(***************************************************************************)
EXTENDS Integers, SequencesExt

CONSTANTS
  Requests,  \* the calls of RockRidge.new (IsRequest below)
  Foreign,   \* entries that other tools wrote: [dr, ce: sequences of entries]
  MaxLinks,  \* bound on the file links counted
  Blocks,    \* the block numbers a CL or PL entry can be given
  Faults     \* the circumstances below that a configuration allows

Circumstances == {
  "many_components", \* a target of components too many for the estimate
  "new_version",     \* Rock Ridge 1.12 with a continuation, or a record of
                     \* another tool that tells of it in places only
  "device" }         \* a PN entry: it is parsed and never written

VARIABLES
  request,  \* what the record was asked to say, or read from another tool
  rr,       \* the RockRidge object: its version, its entries, its name
  drLen,    \* dr_len of the record
  image,    \* the two areas last written, or NoImage
  raised    \* the exception the last call ended with, or "none"

vars == <<request, rr, drLen, image, raised>>

AllowedDrSize == 254
Least(a, b) == IF a < b THEN a ELSE b
Total(s) ==
  LET upto[i \in 0..Len(s)] == IF i = 0 THEN 0 ELSE upto[i - 1] + s[i]
  IN upto[Len(s)]

-----------------------------------------------------------------------------
(* The classes of entries: what record() writes of each, with its length.  *)

Entry(su, len, data) == [su |-> su, len |-> len, sound |-> TRUE, data |-> data]

SP(skip) == Entry("SP", 7, skip)
RR(fields) == Entry("RR", 5, fields)
CE(cont) == Entry("CE", 28, cont)   \* len_cont_area
PXLength(version) == IF version = "1.12" THEN 44 ELSE 36
PX(version, links) == Entry("PX", PXLength(version), links)
\* The identifier, the description and the source of the version.
ER(version) ==
  IF version = "1.12" THEN Entry("ER", 8 + 10 + 72 + 93, "IEEE_P1282")
                      ELSE Entry("ER", 8 + 10 + 84 + 135, "RRIP_1991A")
ES(number) == Entry("ES", 5, number)
PN(device) == Entry("PN", 20, device)
NM(text, cont) == Entry("NM", 5 + text.len, [text |-> text, cont |-> cont])
CL(block) == Entry("CL", 12, block)
PL(block) == Entry("PL", 12, block)
\* stamps dates of seven bytes, or of 17 in the long form
TF(stamps, long) == Entry("TF", 5 + stamps * (IF long THEN 17 ELSE 7), long)
SF(size, deep) == Entry("SF", IF deep THEN 21 ELSE 12, size)
RE == Entry("RE", 4, {})
ST == Entry("ST", 4, {})
PD(pad) == Entry("PD", 4 + pad, pad)

\* A component of a target: root, dot and dotdot are flags without data.
ComponentLength(c) == 2 + (IF c.kind = "text" THEN c.len ELSE 0)
SLLength(comps) == 5 + Total([i \in 1..Len(comps) |-> ComponentLength(comps[i])])
SL(comps, cont) == Entry("SL", SLLength(comps), [comps |-> comps, cont |-> cont])
MaximumComponentArea == 255 - 5
\* Arbitrary attributes: the library copies those that it reads.
AL(attrs) == Entry("AL", 5 + Total([i \in 1..Len(attrs) |-> 2 + attrs[i]]), attrs)

Kinds == {"SP", "RR", "NM", "PX", "SL", "TF", "CL", "PL", "RE", "ES", "ER",
          "AL", "CE", "PD", "ST", "SF", "PN"}
NoEntries == [k \in Kinds |-> <<>>]
Many == {"PD", "ES", "SL", "NM", "AL"}  \* kinds a record may have several of

\* An area is the sequence of its entries: their bytes, those of one kind, and
\* the bytes that its CE entry says are in the continuation.
AreaLength(area) == Total([i \in 1..Len(area) |-> area[i].len])
OfKind(area, k) ==
  LET upto[i \in 0..Len(area)] ==
        IF i = 0 THEN <<>>
        ELSE IF area[i].su = k THEN Append(upto[i - 1], area[i]) ELSE upto[i - 1]
  IN upto[Len(area)]
Announced(area) == LET ces == OfKind(area, "CE")
                   IN IF ces = <<>> THEN 0 ELSE ces[1].data

-----------------------------------------------------------------------------
(* Assigning entries to the record or to its continuation.  An assignment   *)
(* has the entries of both, the length of the record so far (-1: it did    *)
(* not fit) and whether there is a CE entry, with the bytes added to it.    *)

Blank(start, withCe) ==
  [dr |-> NoEntries, ce |-> NoEntries, len |-> start, withCe |-> withCe, cont |-> 0]

DoesNotFit(a) == [a EXCEPT !.len = -1]
InRecord(a, e) == [a EXCEPT !.dr[e.su] = Append(@, e), !.len = @ + e.len]
\* add_record where there is a CE entry
InContinuation_uncounted(a, k, es) == [a EXCEPT !.ce[k] = @ \o es]
InContinuation(a, k, es) ==
  [a EXCEPT !.ce[k] = @ \o es, !.cont = @ + IF a.withCe THEN AreaLength(es) ELSE 0]

Put_pad_overwritten(a, e) ==
  IF a.len < 0 THEN a
  ELSE IF a.len + e.len <= AllowedDrSize + 1 THEN InRecord(a, e)
  ELSE IF a.withCe THEN InContinuation(a, e.su, <<e>>) ELSE DoesNotFit(a)
Put(a, e) ==
  IF a.len < 0 THEN a
  ELSE IF a.len + e.len <= AllowedDrSize THEN InRecord(a, e)
  ELSE IF a.withCe THEN InContinuation(a, e.su, <<e>>) ELSE DoesNotFit(a)
PutIf(wanted, a, e) == IF wanted THEN Put(a, e) ELSE a

\* _add_name: the first piece in the record, the rest 250 bytes at a time.
NamePiece(from, to) == [of |-> 0, from |-> from, len |-> to - from]
NamePieces(here, n) ==
  LET count == (n - here + 249) \div 250
  IN [k \in 1..count |->
        NM(NamePiece(here + 250 * (k - 1), Least(n, here + 250 * k)), k < count)]
AddName(a, n) ==
  LET room == AllowedDrSize - a.len - 5
      here == IF room > 0 THEN Least(n, room) ELSE 0
      begun == IF here > 0 THEN InRecord(a, NM(NamePiece(0, here), here < n)) ELSE a
  IN IF a.len < 0 \/ n = 0 THEN a
     ELSE IF room < n /\ ~a.withCe THEN DoesNotFit(a)
     ELSE InContinuation(begun, "NM", NamePieces(here, n))

\* set_continued, and set_last_component_continued in the midst of one
Continued_entry_only(e, midst) == SL(e.data.comps, TRUE)
Continued(e, midst) ==
  SL(IF midst THEN [e.data.comps EXCEPT ![Len(e.data.comps)].cont = TRUE]
              ELSE e.data.comps, TRUE)
WithComponent(e, c) == SL(Append(e.data.comps, c), e.data.cont)

\* One turn of the loops over the components of a target, of whose component
\* at the bytes up to from are placed: the entries that are full, the one under
\* construction and what is left of its component area, which is reduced by
\* the header twice when the whole component fits.
PlaceComponent(target, s) ==
  LET c == target[s.at]
      full == s.area < IF c.kind = "text" THEN 3 ELSE 2
      area == IF full THEN MaximumComponentArea ELSE s.area
      whole == 2 + c.len - s.from
      length == IF c.kind # "text" THEN 0 ELSE IF whole > area THEN area - 2 ELSE whole
      piece == [c EXCEPT !.from = s.from, !.len = Least(length, c.len - s.from)]
      done == s.from + length >= c.len
  IN IF s.at > Len(target) THEN s
     ELSE [full |-> IF full THEN Append(s.full, Continued(s.last, s.from > 0)) ELSE s.full,
           last |-> WithComponent(IF full THEN SL(<<>>, FALSE) ELSE s.last, piece),
           area |-> area - length - 2,
           at |-> IF done THEN s.at + 1 ELSE s.at,
           from |-> IF done THEN 0 ELSE s.from + length]

\* The SL entries of a target, of which the first has this component area.
\* A component takes a turn for what is left of an area, and turns of up to 248
\* bytes for the rest of it.
TurnsOf(c) == 1 + ((c.len + 246) \div 248)
Placed(target, area, turns) ==
  LET start == [full |-> <<>>, last |-> SL(<<>>, FALSE), area |-> area, at |-> 1, from |-> 0]
      upto[n \in 0..turns] == IF n = 0 THEN start ELSE PlaceComponent(target, upto[n - 1])
  IN upto[turns]
SlEntries(target, area) ==
  LET placed == Placed(target, area, Total([i \in 1..Len(target) |-> TurnsOf(target[i])]))
  IN Append(placed.full, placed.last)

\* _new_symlink: the first entry in the record if there is room for a byte
NewSymlink(a, target) ==
  LET room == AllowedDrSize - a.len - 5
      inRecord == a.len + SLLength(<<[kind |-> "text", len |-> 1]>>) < AllowedDrSize
      entries == SlEntries(target, IF inRecord THEN room ELSE MaximumComponentArea)
  IN IF a.len < 0 \/ target = <<>> THEN a
     ELSE IF a.len + SLLength(target) > AllowedDrSize /\ ~a.withCe THEN DoesNotFit(a)
     ELSE IF inRecord THEN InContinuation(InRecord(a, Head(entries)), "SL", Tail(entries))
     ELSE InContinuation(a, "SL", entries)

-----------------------------------------------------------------------------
(* RockRidge.new                                                            *)

\* What _rr_new of the record's class asks for: the kind of record, the
\* length of the record before its entries, of the name and of the target.
Component == [kind: {"root", "dot", "dotdot", "text"}, of: Nat, from: {0}, len: Nat,
              cont: {FALSE}]
Request == [kind: {"first", "dot", "dotdot", "moved_dotdot", "file", "symlink",
                   "dir", "child_link", "moved_dir"},
            version: {"1.09", "1.10", "1.12"}, start: 34..226, name: Nat,
            target: Seq(Component)]
IsRequest(q) ==
  /\ q \in Request
  /\ q.kind \in {"first", "dot", "dotdot", "moved_dotdot"} =>
       q.start = 34 /\ q.name = 0 /\ q.target = <<>>
  /\ \A i \in 1..Len(q.target) : LET c == q.target[i] IN
       (c.kind # "text" => c.len = 0) /\ (c.kind = "root" => i = 1)

\* What another tool may have written: the reader gets as many bytes of both
\* areas as the record and its CE entry say, the lengths being single bytes and
\* the link count of PX a number.
IsArea(area) ==
  /\ Len(area) \in Nat /\ area = [i \in 1..Len(area) |-> area[i]]
  /\ \A i \in 1..Len(area) : LET e == area[i] IN
       /\ e = [su |-> e.su, len |-> e.len, sound |-> e.sound, data |-> e.data]
       /\ e.sound \in BOOLEAN /\ e.len \in 0..255 /\ (e.su = "PX" => e.data \in Nat)
IsForeign(f) ==
  /\ IsArea(f.dr) /\ IsArea(f.ce) /\ f.dr # <<>>
  /\ AreaLength(f.ce) = Announced(f.dr)
  /\ 34 + AreaLength(f.dr) <= AllowedDrSize

ASSUME RockRidgeEntriesAssumption ==
  /\ \A q \in Requests : IsRequest(q)
  /\ \A f \in Foreign : IsForeign(f)
  /\ MaxLinks \in Nat \ {0} /\ Blocks \subseteq Nat /\ Faults \subseteq Circumstances

\* The fields the RR entry announces (append_field).
Fields(q) ==
  {"PX", "TF"} \cup (IF q.name > 0 THEN {"NM"} ELSE {})
    \cup (IF q.target # <<>> THEN {"SL"} ELSE {})
    \cup (IF q.kind = "child_link" THEN {"CL"} ELSE {})
    \cup (IF q.kind = "moved_dir" THEN {"RE"} ELSE {})
    \cup (IF q.kind = "moved_dotdot" THEN {"PL"} ELSE {})

\* _assign_entries: one kind after the other, until one does not fit
AssignEntries(q, withCe) ==
  LET blank == Blank(q.start + IF withCe THEN CE(0).len ELSE 0, withCe)
      sp == PutIf(q.kind = "first", blank, SP(0))
      fields == PutIf(q.version = "1.09", sp, RR(Fields(q)))
      name == AddName(fields, q.name)
      px == Put(name, PX(q.version, 1))
      target == NewSymlink(px, q.target)
      tf == Put(target, TF(3, FALSE))
      cl == PutIf(q.kind = "child_link", tf, CL(0))
      re == PutIf(q.kind = "moved_dir", cl, RE)
      pl == PutIf(q.kind = "moved_dotdot", re, PL(0))
  IN PutIf(q.kind = "first", pl, ER(q.version))

NameOf(entries, continuation) == [k \in 1..(Len(entries["NM"]) + Len(continuation["NM"])) |->
  (entries["NM"] \o continuation["NM"])[k].data.text]

\* The first assignment that works is the one that counts.
Assigned(q) ==
  LET first == AssignEntries(q, FALSE)
  IN IF first.len < 0 THEN AssignEntries(q, TRUE) ELSE first
Padded_not(len) == len
Padded(len) == len + (len % 2)
WithEntries(q, a) ==
  [object |-> [version |-> q.version,
               dr |-> IF a.withCe THEN [a.dr EXCEPT !["CE"] = <<CE(a.cont)>>] ELSE a.dr,
               ce |-> a.ce, name |-> NameOf(a.dr, a.ce)],
   len |-> Padded(a.len),
   fits |-> a.len <= AllowedDrSize]
New(q) == WithEntries(q, Assigned(q))

-----------------------------------------------------------------------------
(* What is written and read.                                                *)

\* _record: the entries in a fixed order, PX in the length of the version.
RecordOrder_no_pad == <<"SP", "RR", "NM", "PX", "SL", "TF", "CL", "PL", "RE", "ES",
                        "ER", "AL", "CE", "ST", "SF">>
RecordOrder == <<"SP", "RR", "NM", "PX", "SL", "TF", "CL", "PL", "RE", "ES",
                 "ER", "AL", "CE", "PD", "ST", "SF">>
Record(object, entries) ==
  LET written(k) == IF k = "PX" /\ entries[k] # <<>>
                    THEN <<[entries[k][1] EXCEPT !.len = PXLength(object.version)]>>
                    ELSE entries[k]
  IN FlattenSeq([i \in 1..Len(RecordOrder) |-> written(RecordOrder[i])])

\* The lengths and the copies in the other byte order that the parse methods
\* of the entries insist on.
Accepts(e) ==
  /\ e.sound
  /\ CASE e.su = "SP" -> e.len = 7
       [] e.su \in {"RR", "ES"} -> e.len = 5
       [] e.su = "CE" -> e.len = 28
       [] e.su = "PX" -> e.len \in {36, 44}
       [] e.su = "PN" -> e.len = 20
       [] e.su \in {"CL", "PL"} -> e.len = 12
       [] e.su \in {"RE", "ST"} -> e.len = 4
       [] e.su = "SF" -> e.len \in {12, 21}
       [] e.su \in {"ER", "TF", "NM", "SL", "AL", "PD"} -> e.len >= 4
       [] OTHER -> FALSE

\* One turn of the loop of parse: the entry goes to the list of its area.
Unread == [version |-> "", dr |-> NoEntries, ce |-> NoEntries, name |-> <<>>]
HasEntry(object, k) == object.dr[k] # <<>> \/ object.ce[k] # <<>>
Readable(object, area, firstOfRoot) ==
  \A i \in 1..Len(area) : LET e == area[i] IN
    /\ Accepts(e)
    /\ e.su = "SP" => firstOfRoot
    /\ e.su \in Kinds \ Many =>
         /\ ~HasEntry(object, e.su)
         /\ \A j \in 1..(i - 1) : area[j].su # e.su

\* The version is inferred from what this one area has.  The length that is
\* taken for the SF entry's is that of the rest of the area, a pad included.
TellsNewVersion(area) ==
  \E i \in 1..Len(area) : LET e == area[i] IN
    \/ e.su = "PX" /\ e.len = 44
    \/ e.su = "ES"
    \/ e.su = "ER" /\ e.data = "IEEE_P1282"
InferredVersion(area, pad) ==
  LET sparse(n) == \E i \in 1..Len(area) :
        area[i].su = "SF" /\ AreaLength(SubSeq(area, i, Len(area))) + pad = n
  IN IF TellsNewVersion(area) \/ sparse(21) THEN "1.12"
     ELSE IF sparse(12) THEN "1.10" ELSE "1.09"

Parse(object, area, continuation) ==
  LET into(old) == [k \in Kinds |-> old[k] \o OfKind(area, k)]
      dr == IF continuation THEN object.dr ELSE into(object.dr)
      ce == IF continuation THEN into(object.ce) ELSE object.ce
      pad == IF continuation THEN 0 ELSE AreaLength(area) % 2
  IN [version |-> InferredVersion(area, pad), dr |-> dr, ce |-> ce, name |-> NameOf(dr, ce)]
\* The record, and its continuation if it has a CE entry
ReadAreas(dr, ce) ==
  LET once == Parse(Unread, dr, FALSE)
  IN IF once.dr["CE"] = <<>> THEN once ELSE Parse(once, ce, TRUE)

\* symlink_path: the components of each SL entry, a continued one glued to
\* the first of the next entry.  A component is the sequence of its texts.
TextOf(c) == [kind |-> c.kind, of |-> c.of, from |-> c.from, len |-> c.len]
AddText(r, c) ==
  LET text == IF c.kind = "root" THEN <<>> ELSE <<TextOf(c)>>
      names == IF c.kind = "root" THEN <<>> ELSE r.names
  IN [names |-> IF r.cont /\ c.kind # "root"
                THEN [names EXCEPT ![Len(names)] = @ \o text]
                ELSE Append(names, text),
      cont |-> c.cont]
SlRead(comps) ==
  LET upto[i \in 0..Len(comps)] ==
        IF i = 0 THEN [names |-> <<>>, cont |-> FALSE] ELSE AddText(upto[i - 1], comps[i])
  IN upto[Len(comps)]
SlName(e) == SlRead(e.data.comps).names
Glue(s, t) == IF s = <<>> THEN t
              ELSE Front(s) \o <<Last(s) \o Head(t)>> \o Tail(t)
AddEntry(r, e) ==
  LET all == Glue(r.saved, SlName(e))
  IN IF Last(e.data.comps).cont
     THEN [out |-> r.out, saved |-> all]
     ELSE [out |-> r.out \o all, saved |-> <<>>]
PathRead(entries) ==
  LET upto[i \in 0..Len(entries)] ==
        IF i = 0 THEN [out |-> <<>>, saved |-> <<>>] ELSE AddEntry(upto[i - 1], entries[i])
  IN upto[Len(entries)]
SymlinkPath(object) == PathRead(object.dr["SL"] \o object.ce["SL"]).out

-----------------------------------------------------------------------------
NoImage == [dr |-> <<>>, ce |-> <<>>, len |-> 0]
NoRequest == [kind |-> "none"]
Made == request.kind \notin {"none", "foreign"}

Init ==
  /\ request = NoRequest /\ rr = Unread /\ drLen = 0 /\ image = NoImage
  /\ raised = "none"

\* The two circumstances: a target that is not placed in the record and has
\* no continuation either, and a new version whose areas differ in what they
\* tell of it.
Allowed(q, made) ==
  /\ (made.ce["SL"] # <<>> /\ made.dr["CE"] = <<>>) => "many_components" \in Faults
  /\ (q.version = "1.12" /\ made.dr["CE"] # <<>> /\ q.kind # "first")
       => "new_version" \in Faults

\* _rr_new of a new record
CreateAs(q, made) ==
  /\ Allowed(q, made.object)
  /\ IF made.fits
     THEN /\ request' = q /\ rr' = made.object /\ drLen' = made.len
          /\ UNCHANGED <<image, raised>>
     ELSE /\ raised' = "internal"
          /\ UNCHANGED <<request, rr, drLen, image>>
Create(q) == request = NoRequest /\ CreateAs(q, New(q))

\* The link count is in whichever list has the PX entry.
LinksOf(object) == IF object.dr["PX"] # <<>> THEN object.dr["PX"][1].data
                                             ELSE object.ce["PX"][1].data
WithLinks(object, n) ==
  IF object.dr["PX"] # <<>> THEN [object EXCEPT !.dr["PX"][1].data = n]
                            ELSE [object EXCEPT !.ce["PX"][1].data = n]
AddToFileLinks ==
  /\ HasEntry(rr, "PX") /\ LinksOf(rr) < MaxLinks
  /\ rr' = WithLinks(rr, LinksOf(rr) + 1)
  /\ UNCHANGED <<request, drLen, image, raised>>
RemoveFromFileLinks ==
  /\ HasEntry(rr, "PX") /\ LinksOf(rr) > 1
  /\ rr' = WithLinks(rr, LinksOf(rr) - 1)
  /\ UNCHANGED <<request, drLen, image, raised>>

\* child_link_update_from_dirrecord and parent_link_update_from_dirrecord
WithBlock(object, k, b) ==
  IF object.dr[k] # <<>> THEN [object EXCEPT !.dr[k][1].data = b]
                         ELSE [object EXCEPT !.ce[k][1].data = b]
ChildLinkUpdate(b) ==
  /\ HasEntry(rr, "CL")
  /\ rr' = WithBlock(rr, "CL", b)
  /\ UNCHANGED <<request, drLen, image, raised>>
ParentLinkUpdate(b) ==
  /\ HasEntry(rr, "PL")
  /\ rr' = WithBlock(rr, "PL", b)
  /\ UNCHANGED <<request, drLen, image, raised>>

\* The record and, if it has a CE entry, its continuation are written.
Write ==
  /\ request # NoRequest
  /\ image' = [dr |-> Record(rr, rr.dr),
               ce |-> IF rr.dr["CE"] # <<>> THEN Record(rr, rr.ce) ELSE <<>>,
               len |-> drLen]
  /\ UNCHANGED <<request, rr, drLen, raised>>

\* The directory is read dr_len bytes at a time and the continuation in the
\* length of the CE entry; a record that was written shorter than it says
\* runs into the next one.
WholeAreas(im, start) ==
  /\ start + AreaLength(im.dr) \in {im.len - 1, im.len}
  /\ AreaLength(im.ce) = Announced(im.dr)
\* _set_rock_ridge: all records must tell of the version that the first
\* record of the root tells of.
FirstOfRoot(version) ==
  [kind |-> "first", version |-> version, start |-> 34, name |-> 0, target |-> <<>>]
ImageVersion(version) ==
  LET first == New(FirstOfRoot(version)).object
  IN InferredVersion(Record(first, first.dr), 0)
Open ==
  /\ image # NoImage
  /\ LET first == request.kind = "first"
         once == Parse(Unread, image.dr, FALSE)
     IN IF /\ WholeAreas(image, request.start)
           /\ Readable(Unread, image.dr, first)
           /\ Readable(once, image.ce, first)
           /\ Made => once.version = ImageVersion(request.version)
        THEN /\ rr' = ReadAreas(image.dr, image.ce) /\ drLen' = image.len
             /\ raised' = "none"
             /\ UNCHANGED <<request, image>>
        ELSE /\ raised' = "invalid ISO"
             /\ UNCHANGED <<request, rr, drLen, image>>

\* The places where a record tells of its version do not agree: the version of
\* the area read last decides how long PX is when it is written.
SparseOf(object, n) ==
  \E k \in {"dr", "ce"} : \E i \in 1..Len(object[k]["SF"]) : object[k]["SF"][i].len = n
VersionsAgree(f) ==
  LET object == ReadAreas(f.dr, f.ce)
      areas == IF object.dr["CE"] = <<>> THEN {f.dr} ELSE {f.dr, f.ce}
  IN \A area \in areas : \A i \in 1..Len(area) : area[i].su = "PX" =>
       IF area[i].len = 44
       THEN \A other \in areas : TellsNewVersion(other)
       ELSE /\ object.version # "1.12" /\ ~SparseOf(object, 21)
            /\ \A other \in areas : ~TellsNewVersion(other)

\* A record of another tool, opened or refused.  One that starts with padding
\* or with a terminator is not taken for Rock Ridge.
OpenForeign(f) ==
  /\ request = NoRequest
  /\ Head(f.dr).su \notin {"PD", "ST"}
  /\ LET once == Parse(Unread, f.dr, FALSE)
         twice == ReadAreas(f.dr, f.ce)
     IN IF Readable(Unread, f.dr, FALSE) /\ Readable(once, f.ce, FALSE)
        THEN /\ HasEntry(twice, "PN") => "device" \in Faults
             /\ VersionsAgree(f) \/ "new_version" \in Faults
             /\ request' = [kind |-> "foreign", start |-> 34, dr |-> f.dr, ce |-> f.ce]
             /\ rr' = twice
             /\ drLen' = 34 + AreaLength(f.dr) + (AreaLength(f.dr) % 2)
             /\ UNCHANGED <<image, raised>>
        ELSE /\ raised' = "refused"
             /\ UNCHANGED <<request, rr, drLen, image>>

Next ==
  \/ \E q \in Requests : Create(q)
  \/ \E f \in Foreign : OpenForeign(f)
  \/ AddToFileLinks \/ RemoveFromFileLinks
  \/ \E b \in Blocks : ChildLinkUpdate(b) \/ ParentLinkUpdate(b)
  \/ Write \/ Open

Spec == Init /\ [][Next]_vars

-----------------------------------------------------------------------------
\* The record has room for what is in it, and its links are counted.
TypeOK ==
  /\ request # NoRequest => drLen \in 34..AllowedDrSize /\ drLen % 2 = 0
  /\ Made => LinksOf(rr) \in 1..MaxLinks
  /\ raised \in {"none", "internal", "refused", "invalid ISO"}

\* What record_dr_entries and record_ce_entries write is as long as dr_len
\* and the CE entry say, so that the reader, who has only those, finds the
\* end; the length of every entry fits into its byte; and nothing is left for
\* a continuation that no CE entry points to.
AreasExact ==
  request # NoRequest =>
    LET dr == Record(rr, rr.dr)
        ce == Record(rr, rr.ce)
        here == request.start + AreaLength(dr)
    IN /\ drLen = here + (here % 2)
       /\ AreaLength(ce) = Announced(dr)
       /\ \A area \in {dr, ce} : \A i \in 1..Len(area) : area[i].len \in 4..255

\* Texts spell the first n bytes of what they were sliced from.
Spells(texts, of, n) ==
  /\ \A i \in 1..Len(texts) : texts[i].of = of
  /\ \A i \in 2..Len(texts) : texts[i].from = texts[i - 1].from + texts[i - 1].len
  /\ IF texts = <<>> THEN n = 0
     ELSE texts[1].from = 0 /\ Last(texts).from + Last(texts).len = n

\* name() and symlink_path() give the name and the target that the record
\* was made with, however they were split, in memory and after reading, and
\* every other entry of the kind of record is there once.
ReadsBack ==
  Made =>
    /\ Spells(rr.name, 0, request.name)
    /\ LET path == SymlinkPath(rr) IN
         /\ Len(path) = Len(request.target)
         /\ \A i \in 1..Len(path) : LET c == request.target[i] IN
              IF c.kind = "text" THEN Spells(path[i], c.of, c.len)
              ELSE [t \in 1..Len(path[i]) |-> path[i][t].kind] =
                     IF c.kind = "root" THEN <<>> ELSE <<c.kind>>
    /\ \A k \in {"PX", "TF"} : Len(rr.dr[k] \o rr.ce[k]) = 1
    /\ HasEntry(rr, "CL") <=> request.kind = "child_link"
    /\ HasEntry(rr, "PL") <=> request.kind = "moved_dotdot"
    /\ HasEntry(rr, "RE") <=> request.kind = "moved_dir"

\* Whatever the entries, what this library writes it also opens.
WrittenOpens == raised \notin {"internal", "invalid ISO"}

\* What another tool put into the two areas is there when they are written
\* again, each kind of entry in its order; the link count and the blocks of CL
\* and PL are the library's to change.
UpToOwn(entry) == IF entry.su \in {"PX", "CL", "PL"} THEN [entry EXCEPT !.data = 0] ELSE entry
SameEntries(s, t) ==
  /\ Len(s) = Len(t)
  /\ \A i \in 1..Len(s) : UpToOwn(s[i]) = UpToOwn(t[i])
ForeignKept ==
  request.kind = "foreign" =>
    \A k \in Kinds :
      /\ SameEntries(OfKind(Record(rr, rr.dr), k), OfKind(request.dr, k))
      /\ SameEntries(OfKind(Record(rr, rr.ce), k), OfKind(request.ce, k))
=============================================================================
