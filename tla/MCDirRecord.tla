--------------------------- MODULE MCDirRecord ---------------------------
(***************************************************************************)
(* DirRecord with a handful of names and blocks of a few units.            *)
(***************************************************************************)
EXTENDS DirRecord, TLC

Dirs == {1, 4}
Files == {2, 3, 5}
\* Records of every length from a third to half of a block.
Lengths == 1 :> 3 @@ 2 :> 2 @@ 3 :> 4 @@ 4 :> 4 @@ 5 :> 3
Ranks == 1 :> 4 @@ 2 :> 5 @@ 3 :> 1 @@ 4 :> 3 @@ 5 :> 2
=============================================================================
