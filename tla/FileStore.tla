----------------------------- MODULE FileStore -----------------------------
(***************************************************************************)
(* What the link bookkeeping of PyCdlib promises: a path names at most one *)
(* piece of data, El Torito entries name data too, and a piece of data is  *)
(* stored on the image exactly as long as something names it.              *)
(* HardLinks implements this specification (HardLinks!FileStoreSpec).      *)
(***************************************************************************)
CONSTANTS Data, Path, None

VARIABLES
  content,  \* Path -> the data the path names, or None
  booted,   \* the data El Torito entries name
  stored    \* the data that is on the image

vars == <<content, booted, stored>>

Named(c, b) == {i \in Data : i \in b \/ \E p \in Path : c[p] = i}

Init ==
  /\ content = [p \in Path |-> None]
  /\ booted = {}
  /\ stored = {}

\* A new name, for stored data or for new data.
Bind(p, i) ==
  /\ content[p] = None
  /\ content' = [content EXCEPT ![p] = i]
  /\ stored' = stored \cup {i}
  /\ UNCHANGED booted

\* A name goes; its data goes with it if that was the last name.
Unbind(p) ==
  /\ content[p] # None
  /\ content' = [content EXCEPT ![p] = None]
  /\ stored' = stored \cap Named(content', booted)
  /\ UNCHANGED booted

\* El Torito names data that has a path.
Boot(i) ==
  /\ \E p \in Path : content[p] = i
  /\ booted' = booted \cup {i}
  /\ UNCHANGED <<content, stored>>

\* All El Torito names go at once.
Unboot ==
  /\ booted' = {}
  /\ stored' = stored \cap Named(content, {})
  /\ UNCHANGED content

Next ==
  \/ \E p \in Path : Unbind(p)
  \/ \E p \in Path, i \in Data : Bind(p, i)
  \/ \E i \in Data : Boot(i)
  \/ Unboot

Spec == Init /\ [][Next]_vars
=============================================================================
