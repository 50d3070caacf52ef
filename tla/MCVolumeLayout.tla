-------------------------- MODULE MCVolumeLayout --------------------------
(***************************************************************************)
(* VolumeLayout with two files, and with the images of other tools: those  *)
(* are what the library would write of a volume that it would not make     *)
(* itself, with some blocks changed.                                       *)
(***************************************************************************)
EXTENDS VolumeLayout, TLC

Plain(udf, joliet, rr) ==
  LET v == NewVolume(udf, joliet, rr)
      file == [in |-> TreesOf(v), len |-> 1, bytes |-> [t \in TreesOf(v) |-> Bytes(1, 0)],
               ext |-> 0, fe |-> 0, numUdf |-> 0, ce |-> "none", data |-> <<Data(1, 0, 1)>>]
  IN FinishAdd([v EXCEPT !.files[1] = file], 0, IF udf THEN 2 ELSE 1)
Udf == Plain(TRUE, FALSE, FALSE)
Img(v) == Written(LaidOut(v).vol)
Has(v) == [f \in Files |-> IF f = 1 THEN [in |-> TreesOf(v), len |-> 1, ver |-> 0] ELSE Nothing]
Other(v, img, needs) == [image |-> img, holds |-> Has(v), needs |-> needs]
Good(v) == Other(v, Img(v), {})
With(img, e, is) == [img EXCEPT !.blocks = (e :> is) @@ @]
Body(img, e, body) == With(img, e, [At0(img, e) EXCEPT !.d.body = body])
Tag(img, e, tag) == With(img, e, [At0(img, e) EXCEPT !.d.tag = tag])
BodyAt(e) == At0(Img(Udf), e).d.body
TagAt(e) == At0(Img(Udf), e).d.tag

\* Descriptors that say more than the library's own.
Both(v, k, body) == [v EXCEPT !.main[k][1].body = body, !.reserve[k][1].body = body]
West == [Now EXCEPT !.tz = -300]
Rich ==
  LET a == Both(Udf, 1, [NewPVD EXCEPT !.date = West, !.level = 3, !.flags = 1, !.chars = <<8, 1>>])
      b == Both(a, 6, [NewLogicalVolume EXCEPT !.maps = <<Map(1), Map(2)>>, !.tableLength = 70])
      c == Both(b, 7, [NewUnallocated EXCEPT !.num = 2, !.free = <<ExtentAD(2048, 9), ExtentAD(4096, 12)>>])
      d == [c EXCEPT !.main[5] = Append(@, NewDesc(5, [NewPartition EXCEPT !.seq = 7, !.num = 1])),
                     !.head["boot"] = <<Entry([k |-> "vs", s |-> [NewBoot EXCEPT !.date = West, !.flags = 1]])>>,
                     !.head["nsr"] = <<Entry([k |-> "vs", s |-> [NewNSR EXCEPT !.ident = "NSR03"]])>>,
                     !.lvid[1].body.date = West, !.lvid[1].body.type = 0]
  IN d
Careless(img) ==
  LET i == Tag(img, 34, [At0(img, 34).d.tag EXCEPT !.loc = 0, !.version = 3, !.crcLen = 100])
      west == Body(i, 32, [At0(img, 32).d.body EXCEPT !.date.tz = 4096 - 300])
  IN Tag(Tag(west, 256, [TagAt(256) EXCEPT !.loc = 7]), 257, [TagAt(257) EXCEPT !.loc = 257])
NoIntegrityEnd == [Both(Udf, 6, [NewLogicalVolume EXCEPT !.integrity.length = 2048]) EXCEPT !.lvidEnd = <<>>]
NoIntegrity == [Both(Udf, 6, [NewLogicalVolume EXCEPT !.integrity.length = 0]) EXCEPT !.lvid = <<>>, !.lvidEnd = <<>>]
SmallTables(joliet) ==
  [Plain(FALSE, joliet, FALSE) EXCEPT
     !.tables = 1, !.jtables = IF joliet THEN 1 ELSE 0, !.head["version"] = <<>>,
     !.space = @ - 3 - (IF joliet THEN 2 ELSE 0)]
Padded == [Plain(FALSE, TRUE, TRUE) EXCEPT !.space = @ + 3, !.head["vdst"] = @ \o @,
                                          !.head["version"] = <<Entry([k |-> "mki"])>>]
Short(img) == With(img, 16, [At0(img, 16) EXCEPT !.space = @ - 1])
Accepted == {
  Other(Udf, Careless(Img(Rich)), {}),
  Other(Udf, With(Img(NoIntegrityEnd), 258, Zero), {}), Good(NoIntegrity),
  Other(SmallTables(FALSE), Short(Img(SmallTables(FALSE))), {}), Good(SmallTables(TRUE)), Good(Padded) }

\* One reason each.
Refused ==
  LET u == Img(Udf)
      last == Udf.space - 1
      bodies == {<<32, [BodyAt(32) EXCEPT !.level = 5]>>, <<34, [BodyAt(34) EXCEPT !.contents.ident = "X"]>>,
                 <<35, [BodyAt(35) EXCEPT !.blockSize = 512]>>, <<35, [BodyAt(35) EXCEPT !.tableLength = 72]>>,
                 <<33, [BodyAt(33) EXCEPT !.impl.ident = "X"]>>, <<48, [BodyAt(48) EXCEPT !.date.month = 13]>>,
                 <<36, [BodyAt(36) EXCEPT !.num = 62]>>, <<64, [BodyAt(64) EXCEPT !.useLength = 425]>>,
                 <<257, [BodyAt(257) EXCEPT !.level = 1]>>, <<last, [BodyAt(last) EXCEPT !.main.location = 33]>>}
      tags == {<<32, [TagAt(32) EXCEPT !.sums = FALSE]>>, <<last, [TagAt(last) EXCEPT !.version = 1]>>,
               <<65, [TagAt(65) EXCEPT !.ident = 7]>>, <<258, [TagAt(258) EXCEPT !.crcLen = 2033]>>,
               <<37, [TagAt(37) EXCEPT !.ident = 6]>>}
      blocks == {<<16, Zero>>, <<17, Zero>>, <<18, [k |-> "vs", s |-> [NewBEA EXCEPT !.version = 2]]>>,
                 <<20, At0(u, 19)>>, <<48, Zero>>, <<64, Zero>>, <<257, Zero>>, <<259, Zero>>}
  IN {Other(Udf, Body(u, p[1], p[2]), {}) : p \in bodies}
     \cup {Other(Udf, Tag(u, p[1], p[2]), {}) : p \in tags}
     \cup {Other(Udf, With(u, p[1], p[2]), {}) : p \in blocks}

\* What the library does not cope with, by the circumstance it is.
Placed(img, e, descs) ==
  FoldLeft(LAMBDA i, n : With(i, e + n - 1, Desc([descs[n] EXCEPT !.tag.loc = e + n - 1])),
           img, [n \in 1..Len(descs) |-> n])
LongSequence ==
  LET part(n) == NewDesc(5, [NewPartition EXCEPT !.seq = 10 + n, !.num = n, !.start = PartStart])
      main == [LaidUdf(Udf).main EXCEPT ![5] = @ \o [n \in 1..11 |-> part(n)]]
      seq == [i \in 1..17 |-> RecordDesc(InOrder(main)[i])]
      at(img, e) == Body(img, e, [At0(img, e).d.body EXCEPT !.main = ExtentAD(17 * 2048, 80)])
  IN Placed(at(at(Img(Udf), 256), Udf.space - 1), 80, seq)
RootElsewhere ==
  LET i == Img(Udf)
      root == Body(i, 257, [BodyAt(257) EXCEPT !.root = LongAD(2048, 4)])
      idents == [At0(i, 260) EXCEPT !.recs[1] = 2]
  IN With(With(With(root, 259, At0(i, 261)), 261, At0(i, 259)), 260, idents)
TableGap ==
  LET v == [Plain(FALSE, FALSE, FALSE) EXCEPT !.tables = 6, !.space = @ + 8]
      i == Img(v)
      be == LaidOut(v).vol.at.be
  IN With(With(i, be + 4, At0(i, be)), 16, [At0(i, 16) EXCEPT !.be = be + 4])
Slack ==
  LET i == Img(Udf)
      last == Udf.space - 1
      larger == [i EXCEPT !.size = @ + 1]
  IN With(With(With(larger, last + 1, [At0(i, last) EXCEPT !.d.tag.loc = last + 1]), last, Zero),
          16, [At0(i, 16) EXCEPT !.space = @ + 1])
Apart ==
  LET last == Udf.space - 1
      pointer == Desc(RecordDesc([NewDesc(3, [seq |-> 9, next |-> ExtentAD(0, 0)]) EXCEPT !.tag.loc = 37]))
  IN {Other(Udf, Body(Body(Img(Udf), 256, [BodyAt(256) EXCEPT !.reserve.length = 0]), last,
                      [BodyAt(last) EXCEPT !.reserve.length = 0]), {"no_reserve"}),
      Other(Udf, With(Img(Udf), Udf.space - 257, At0(Img(Udf), 256)), {"many_anchors"}),
      Other(Udf, LongSequence, {"long_sequence"}),
      Other(Udf, RootElsewhere, {"root_elsewhere"}),
      Other(Udf, Body(Img(Udf), 34, [BodyAt(34) EXCEPT !.header[1] = ShortAD(1073741824 + 5)]), {"short_ad"}),
      Other(Udf, Slack, {"slack"}),
      Other(Udf, With(Img(Udf), 37, pointer), {"pointer"}),
      Other(Plain(FALSE, FALSE, FALSE), TableGap, {"table_gap"}) }
Others == Accepted \cup Refused \cup Apart

\* Joliet with Rock Ridge, and with UDF.
SomeKinds == {[udf |-> udf, joliet |-> TRUE, rr |-> ~udf] : udf \in BOOLEAN}
UdfOnly == {[udf |-> TRUE, joliet |-> FALSE, rr |-> FALSE]}
Places == {Trees, {"iso"}, {"udf"}}
=============================================================================
