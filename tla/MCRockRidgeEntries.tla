------------------------ MODULE MCRockRidgeEntries ------------------------
(***************************************************************************)
(* RockRidgeEntries with names and targets about the lengths at which they *)
(* are split, and with entries of other tools.                             *)
(***************************************************************************)
EXTENDS RockRidgeEntries, TLC

Text(of, n) == [kind |-> "text", of |-> of, from |-> 0, len |-> n, cont |-> FALSE]
Special(kind) == [kind |-> kind, of |-> 0, from |-> 0, len |-> 0, cont |-> FALSE]
Texts(lens) == [i \in 1..Len(lens) |-> Text(i, lens[i])]

Targets == {
  <<Special("root"), Text(1, 0)>>,                       \* "/"
  <<Special("root"), Text(1, 3), Special("dotdot"), Text(2, 130), Special("dot")>>,
  <<Special("dotdot"), Text(1, 0), Text(2, 60), Text(3, 60)>>,
  [i \in 1..40 |-> Text(i, 1)], [i \in 1..50 |-> Text(i, 1)] }
  \cup {Texts(<<n>>) : n \in {1, 100, 105, 110, 111, 112, 113, 160, 248, 249, 400, 520, 800}}
  \cup {Texts(<<m, n, 5>>) : m \in {70, 100, 243}, n \in {1, 40, 50, 130, 245}}

Call(kind, version, start, name, target) ==
  [kind |-> kind, version |-> version, start |-> start, name |-> name, target |-> target]
Versions == {"1.09", "1.10", "1.12"}

DotCalls == {Call(k, v, 34, 0, <<>>) : k \in {"first", "dot", "dotdot", "moved_dotdot"}, v \in Versions}
NamedCalls ==
  {Call(k, v, s, n, <<>>) : k \in {"file", "dir", "child_link", "moved_dir"}, v \in Versions,
     s \in {40, 46, 64}, n \in {1, 100, 120, 128, 130, 131, 134, 135, 140, 141, 150, 172, 173, 180, 208, 250, 251, 440}}
  \cup {Call("file", v, s, n, <<>>) : v \in Versions, s \in {226}, n \in {1, 20, 255}}
SymlinkCalls ==
  {Call("symlink", v, s, n, t) : v \in Versions, s \in {40}, n \in {1, 14, 60, 200}, t \in Targets}
Calls == DotCalls \cup NamedCalls \cup SymlinkCalls

\* Sparse files, several records of padding and extensions, a device of
\* another Rock Ridge version, and entries that are refused.
OtherTools == {
  [dr |-> <<NM(NamePiece(0, 4), TRUE), PX("1.09", 1), TF(2, TRUE), SF(7, FALSE), CE(12 + 9)>>,
   ce |-> <<PD(1), NM(NamePiece(4, 6), FALSE), PD(5)>>],
  [dr |-> <<AL(<<2, 7>>), PD(3), PX("1.12", 2), ES(0), ES(1), PD(0), ST>>, ce |-> <<>>],
  [dr |-> <<RR({"PX"}), PX("1.09", 3), CE(4), TF(0, FALSE)>>, ce |-> <<RE>>],
  [dr |-> <<PX("1.09", 1), CE(36)>>, ce |-> <<PX("1.09", 2)>>],
  [dr |-> <<[CL(4) EXCEPT !.sound = FALSE]>>, ce |-> <<>>],
  [dr |-> <<SP(0)>>, ce |-> <<>>],
  [dr |-> <<CL(4), PX("1.09", 1), SF(7, FALSE), NM(NamePiece(0, 4), FALSE)>>, ce |-> <<>>],
  [dr |-> <<PN(5), PX("1.09", 1)>>, ce |-> <<>>],
  [dr |-> <<PX("1.12", 1), CE(9)>>, ce |-> <<NM(NamePiece(0, 4), FALSE)>>],
  [dr |-> <<PX("1.09", 1), CE(5)>>, ce |-> <<ES(0)>>],
  [dr |-> <<PX("1.09", 1), SF(7, TRUE)>>, ce |-> <<>>],
  [dr |-> <<CE(44 + 5), ES(0)>>, ce |-> <<PX("1.12", 1), ES(0)>>] }
=============================================================================
