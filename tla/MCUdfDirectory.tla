---------------------------- MODULE MCUdfDirectory ----------------------------
(***************************************************************************)
(* UdfDirectory with a name that latin-1 has and a name that it has not.   *)
(* With blocks of 124 bytes the identifiers of a directory, 40 bytes for   *)
(* its parent and 84 and 44 for these names, end with a block, begin in    *)
(* one or span two, in whatever order they are added.                      *)
(***************************************************************************)
EXTENDS UdfDirectory

Names == {"ascii", "wide"}
InLatin == [n \in Names |-> IF n = "ascii" THEN "6162" ELSE "none"]
InUcs2 == [n \in Names |-> IF n = "ascii" THEN "00610062" ELSE "6163"]
InUtf8 == [n \in Names |-> IF n = "ascii" THEN "6162" ELSE "e685a3"]
Bytes == [b \in {"6162", "6163"} |-> IF b = "6162" THEN 42 ELSE 2]

\* The UTF-16 of a wide name can be the bytes of an ASCII one: with this as
\* Ucs2 either name finds the other.
Clashing == [InUcs2 EXCEPT !["wide"] = "6162"]
=============================================================================
