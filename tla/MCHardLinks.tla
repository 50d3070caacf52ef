---------------------------- MODULE MCHardLinks ----------------------------
(***************************************************************************)
(* HardLinks on small images.  d1, d2, d3 are the inodes; the definitions  *)
(* are the files of several segments the configurations choose from.       *)
(***************************************************************************)
EXTENDS HardLinks
CONSTANTS d1, d2, d3

NoBigFiles == {}
TwoSegments == {<<d1, d2>>}
ThreeSegments == {<<d1, d2, d3>>}
=============================================================================
