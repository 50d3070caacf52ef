-------------------------- MODULE ContinuationArea --------------------------
(***************************************************************************)
(* The Rock Ridge continuation area.  The Rock Ridge fields of a directory *)
(* record that do not fit into the record go to a continuation block, a    *)
(* CE record saying where.  The Primary Volume Descriptor keeps the list   *)
(* rr_ce_blocks of the blocks and of what is taken in each; every record   *)
(* keeps its own idea of its place.  Two different pieces of code write    *)
(* them: adding a record to an image in memory, and parsing an image.      *)
(*                                                                         *)
(* A block stands for its extent: clear_rr_ce_entries and the next layout  *)
(* give every block that a record of the tree uses an extent of its own.   *)
(***************************************************************************)
EXTENDS Integers, Sequences, FiniteSets

CONSTANTS
  Dir, File,     \* directories; files and symbolic links, with a long name
  Er,            \* the "." record of the root, which holds the ER record
  ErLength,      \* the length of its continuation
  Lengths,       \* the lengths of the other continuations
  BlockSize,     \* the logical block size
  ForeignBlocks, \* bound on the blocks of an image of another program
  MaxOpens,      \* bound on the times the image is written and opened again
  Faults         \* the circumstances below that a configuration allows

Circumstances == {
  "foreign",     \* the first image parsed was written by another program
  "overflow",    \* a record is added that the first block has no room for
  "relocate" }   \* a directory with a long name is added at depth 8

\* Relocating directory d leaves a CL record with its name in its place.
Cl(d) == <<"CL", d>>
Fake == {Cl(d) : d \in Dir}
Rec == Dir \cup File \cup Fake \cup {Er}

ASSUME ContinuationAssumption ==
  /\ IsFiniteSet(Dir) /\ IsFiniteSet(File)
  /\ BlockSize \in Nat /\ ForeignBlocks \in Nat /\ MaxOpens \in Nat
  /\ Lengths \subseteq Nat \ {0}
  /\ ErLength \in 1..BlockSize
  /\ Er \notin Dir \cup File \cup Fake
  /\ Dir \cap File = {} /\ (Dir \cup File) \cap Fake = {}
  /\ Faults \subseteq Circumstances

VARIABLES
  blocks,   \* pvd.rr_ce_blocks: for each the set of its entries
  ce,       \* Rec -> the CE records of the records in the tree
  charged,  \* the blocks of the volume size meant for the continuation area
  opens,    \* how often the image was written and opened again
  raised    \* the exception the last operation ended with, or "none"

vars == <<blocks, ce, charged, opens, raised>>

-----------------------------------------------------------------------------
Entry == [offset : Int, length : Nat]
Place == [block : Nat, offset : Int, length : Nat]
\* No CE record: the record is not in the tree.  Block 0: ce_block is None.
NoCe == [block |-> 0, offset |-> 0, length |-> 0]
Live == {r \in Rec : ce[r] # NoCe}
EntryOf(p) == [offset |-> p.offset, length |-> p.length]

Overlap(a, b) == a.offset < b.offset + b.length /\ b.offset < a.offset + a.length
Fits(e) == 0 <= e.offset /\ e.offset + e.length <= BlockSize

Gaps_over(b, n) ==
  {o \in {0} \cup {e.offset + e.length : e \in b} : Fits([offset |-> o, length |-> n])}
\* RockRidgeContinuationBlock.add_entry: the first gap that is long enough,
\* before the first entry, between two, or after the last one; -1 if there
\* is none.
Gaps(b, n) ==
  {o \in {0} \cup {e.offset + e.length : e \in b} :
     LET new == [offset |-> o, length |-> n]
     IN Fits(new) /\ \A e \in b : ~Overlap(new, e)}
FirstFit(b, n) ==
  IF Gaps(b, n) = {} THEN -1
  ELSE CHOOSE o \in Gaps(b, n) : \A q \in Gaps(b, n) : o <= q

(***************************************************************************)
(* Where the written image has the continuation of a record.  The ER       *)
(* record gets an extent of its own whatever block it was parsed from; a   *)
(* record without ce_block keeps extent 0, the system area.                *)
(***************************************************************************)
ErBlock == Len(blocks) + 1
OnImage(r) == IF r = Er THEN [ce[r] EXCEPT !.block = ErBlock] ELSE ce[r]

\* The blocks the layout needs: the ER record's, and each one that another
\* record of the tree uses.
Needed == Cardinality({ce[r].block : r \in Live \ {Er}} \ {0}) + 1

\* A tree with places c, as _walk_directories finds it: the ER record first.
Parse(c) ==
  LET live == {r \in Rec : c[r] # NoCe}
      used == {c[r].block : r \in live}
      n == Cardinality(used)
  IN {o \in [1..n -> used] : /\ o[1] = c[Er].block
                             /\ \A b \in used : \E k \in 1..n : o[k] = b}
\* track_entry refuses an entry that overlaps another or leaves the block.
Parses(c) ==
  /\ \A r \in Rec : c[r] # NoCe => Fits(c[r])
  /\ \A r, s \in Rec :
       /\ r # s /\ c[r] # NoCe /\ c[s] # NoCe
       /\ c[r].block = c[s].block
       => ~Overlap(c[r], c[s])
\* rr_ce_blocks and the records' places after parsing in the order o.
Tracked(c, o) ==
  [k \in DOMAIN o |-> {EntryOf(c[r]) : r \in {q \in Rec : c[q] # NoCe /\ c[q].block = o[k]}}]
Renumbered_first(c, o) ==
  [r \in Rec |-> IF c[r] = NoCe THEN NoCe ELSE [c[r] EXCEPT !.block = 1]]
Renumbered(c, o) ==
  [r \in Rec |-> IF c[r] = NoCe THEN NoCe
                 ELSE [c[r] EXCEPT !.block = CHOOSE k \in DOMAIN o : o[k] = c[r].block]]

\* The places in an image of another program: any that parse.
ForeignPlace == {p \in [block : 1..ForeignBlocks, offset : 0..BlockSize, length : Lengths] :
                   Fits(p)}
ForeignTree(p, o) ==
  [r \in Rec |-> IF r = Er THEN [block |-> 1, offset |-> o, length |-> ErLength]
                 ELSE IF r \in Fake THEN NoCe ELSE p[r]]

Init ==
  /\ opens = 0
  /\ raised = "none"
  /\ \/ \* new(): the ER record is not tracked, its block is charged
        /\ blocks = <<>>
        /\ ce = [r \in Rec |-> IF r = Er THEN [NoCe EXCEPT !.length = ErLength] ELSE NoCe]
        /\ charged = 1
     \/ /\ "foreign" \in Faults
        /\ \E p \in [Dir \cup File -> {NoCe} \cup ForeignPlace], at \in 0..(BlockSize - ErLength) :
             /\ Parses(ForeignTree(p, at))
             /\ \E o \in Parse(ForeignTree(p, at)) :
                  /\ blocks = Tracked(ForeignTree(p, at), o)
                  /\ ce = Renumbered(ForeignTree(p, at), o)
                  /\ charged = Len(blocks)

-----------------------------------------------------------------------------
\* pvd.add_rr_ce_entry: it tries the first block only, as -1 is not None.
Added(n) ==
  LET b == IF blocks = <<>> THEN <<{}>> ELSE blocks
      o == FirstFit(b[1], n)
  IN IF o = -1 THEN b ELSE [b EXCEPT ![1] = @ \cup {[offset |-> o, length |-> n]}]
PlaceOf(n) ==
  [block |-> 1, offset |-> FirstFit(IF blocks = <<>> THEN {} ELSE blocks[1], n), length |-> n]
Charge == IF blocks = <<>> THEN charged + 1 ELSE charged

\* _update_rr_ce_entry of a new record, by add_fp, add_hard_link, add_symlink
\* or add_directory.
Add(r, n) ==
  /\ r \in Dir \cup File /\ r \notin Live
  /\ PlaceOf(n).offset = -1 => "overflow" \in Faults
  /\ blocks' = Added(n)
  /\ ce' = [ce EXCEPT ![r] = PlaceOf(n)]
  /\ charged' = Charge
  /\ raised' = "none"
  /\ UNCHANGED opens

\* add_directory at depth 8: the CL record left behind gets a CE record too,
\* but _update_rr_ce_entry is called for the relocated record only.
AddRelocated(d, n) ==
  /\ "relocate" \in Faults
  /\ d \notin Live
  /\ PlaceOf(n).offset = -1 => "overflow" \in Faults
  /\ blocks' = Added(n)
  /\ ce' = [ce EXCEPT ![d] = PlaceOf(n), ![Cl(d)] = [NoCe EXCEPT !.length = n]]
  /\ charged' = Charge
  /\ raised' = "none"
  /\ UNCHANGED opens

RmDirectory_refund(d) ==
  /\ d \in Live
  /\ ce' = [ce EXCEPT ![d] = NoCe, ![Cl(d)] = NoCe]
  /\ LET b == ce[d].block
     IN blocks' = [blocks EXCEPT ![b] = @ \ {EntryOf(ce[d])}]
  /\ charged' = charged - 1
  /\ raised' = "none"
  /\ UNCHANGED opens
\* rm_directory: the only removal that gives the entry back.  remove_entry
\* raises if there is none, after the directory has gone.
RmDirectory(d) ==
  /\ d \in Live
  /\ ce' = [ce EXCEPT ![d] = NoCe, ![Cl(d)] = NoCe]
  /\ LET b == ce[d].block
         e == EntryOf(ce[d])
     IN IF e \in blocks[b]
          THEN blocks' = [blocks EXCEPT ![b] = @ \ {e}] /\ raised' = "none"
          ELSE UNCHANGED blocks /\ raised' = "no_entry"
  /\ UNCHANGED <<charged, opens>>

\* rm_file and rm_hard_link leave the entry in the block.
RmFile(f) ==
  /\ f \in Live
  /\ ce' = [ce EXCEPT ![f] = NoCe]
  /\ raised' = "none"
  /\ UNCHANGED <<blocks, charged, opens>>

\* The image is written and opened again.  Writing fails if a record has no
\* place, or if the layout needs more blocks than were charged and the volume
\* has no slack from elsewhere; opening fails if the places do not parse.
Reopen ==
  LET c == [r \in Rec |-> IF r \in Live THEN OnImage(r) ELSE NoCe]
  IN /\ opens < MaxOpens
     /\ opens' = opens + 1
     /\ \E slack \in BOOLEAN :
          IF \E r \in Live : ce[r].offset = -1
            THEN raised' = "no_place" /\ UNCHANGED <<blocks, ce>>
          ELSE IF Needed > charged /\ ~slack
            THEN raised' = "no_space" /\ UNCHANGED <<blocks, ce>>
          ELSE IF ~Parses(c)
            THEN raised' = "overlap" /\ UNCHANGED <<blocks, ce>>
          ELSE /\ \E o \in Parse(c) : blocks' = Tracked(c, o) /\ ce' = Renumbered(c, o)
               /\ raised' = "none"
     /\ UNCHANGED charged

Next ==
  \/ \E r \in Rec, n \in Lengths : Add(r, n)
  \/ \E d \in Dir, n \in Lengths : AddRelocated(d, n)
  \/ \E d \in Dir : RmDirectory(d)
  \/ \E f \in File : RmFile(f)
  \/ Reopen

Spec == Init /\ [][Next]_vars

-----------------------------------------------------------------------------
(* Properties. *)

TypeOK ==
  /\ blocks \in Seq(SUBSET Entry)
  /\ ce \in [Rec -> Place]
  /\ charged \in Nat
  /\ opens \in 0..MaxOpens
  /\ raised \in {"none", "no_place", "no_space", "overlap", "no_entry"}

\* Records that have a place: in a block, and not the -1 of a full block.
Placed == {r \in Live : ce[r].block # 0 /\ ce[r].offset # -1}

\* No continuation overwrites another one of its block or runs out of it:
\* first-fit never hands out what a record still uses, however records come
\* and go, and whatever was parsed.
PlacesApart ==
  \A r \in Placed :
    /\ Fits(ce[r])
    /\ \A s \in Placed \ {r} : ce[r].block = ce[s].block => ~Overlap(ce[r], ce[s])

\* Every place is tracked: rm_directory finds the entry it removes, and
\* nothing is placed over it.
PlacesTracked ==
  \A r \in Placed : ce[r].block \in 1..Len(blocks) /\ EntryOf(ce[r]) \in blocks[ce[r].block]

\* Every record in the tree has a place, so that the image can be written.
EveryRecordPlaced == \A r \in Live : ce[r].offset # -1

\* What was written can be opened again, unless two relocated directories left
\* CL records without a place, which then lie on top of each other.
ReadsBack ==
  raised = "overlap" => Cardinality({d \in Dir : Cl(d) \in Live /\ ce[Cl(d)].block = 0}) > 1

\* The layout fits into the blocks charged for it, so that the image can be
\* written: an entry that is added is charged whenever it takes a new block.
EnoughSpace == Needed <= charged
=============================================================================
