---------------------------- MODULE MCFileAccess ----------------------------
(***************************************************************************)
(* FileAccess with five inodes: two files next to each other on an image,  *)
(* then a file of two records, the first with a boot info table and the    *)
(* second longer than the image goes, and one that the library opens       *)
(* itself.                                                                 *)
(***************************************************************************)
EXTENDS FileAccess, TLC

CONSTANTS a, b, c1, c2, d

Inode(f, object, at, len) ==
  [object |-> object, at |-> at, len |-> len, managed |-> FALSE, table |-> FALSE, parts |-> <<f>>]
Inodes == {a, b, c1, c2, d}
Data == (a :> Inode(a, "iso", 1, 2)) @@ (b :> Inode(b, "iso", 3, 1))
        @@ (c1 :> [Inode(c1, "iso", 4, 3) EXCEPT !.table = TRUE, !.parts = <<c1, c2>>])
        @@ (c2 :> Inode(c2, "iso", 7, 2))
        @@ (d :> [Inode(d, "file", 0, 1) EXCEPT !.managed = TRUE])
ObjectSizes == [o \in {"iso", "file"} |-> IF o = "iso" THEN 8 ELSE 1]
Places == -1..1
StreamSymmetry == Permutations(Streams)
=============================================================================
