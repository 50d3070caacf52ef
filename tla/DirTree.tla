------------------------------ MODULE DirTree ------------------------------
(***************************************************************************)
(* What a client of PyCdlib sees of the directories it makes: a tree of    *)
(* paths, in which a directory is added below one that exists and removed  *)
(* when nothing is below it.  That ISO9660 has at most eight levels, and   *)
(* that Rock Ridge moves the deeper ones, does not show.                   *)
(* RelocatedDirs implements this specification.                            *)
(***************************************************************************)
EXTENDS SequencesExt

CONSTANT Path  \* the paths of a client, sequences of names

VARIABLE dirs  \* the paths that are directories

Init == dirs = {}

Make(p) ==
  /\ Front(p) = <<>> \/ Front(p) \in dirs
  /\ p \notin dirs
  /\ dirs' = dirs \cup {p}

RemoveEmpty(p) ==
  /\ p \in dirs
  /\ \A q \in dirs : Front(q) # p
  /\ dirs' = dirs \ {p}

Next ==
  \/ \E p \in dirs : RemoveEmpty(p)
  \/ \E p \in Path : Make(p)

Spec == Init /\ [][Next]_dirs
=============================================================================
