------------------------------- MODULE Archive -------------------------------
(***************************************************************************)
(* What ingestion promises of the documents: each belongs to a video that  *)
(* was posted, comes once, whole, and is never changed or dropped.         *)
(***************************************************************************)
EXTENDS Naturals, Sequences

CONSTANTS Creator, Video, Contents

VARIABLES
  posted,      \* how many videos each creator has posted
  documents    \* the Document rows of each video

vars == <<posted, documents>>

Posted(v) == v[2] <= posted[v[1]]

Init ==
  /\ posted = [c \in Creator |-> 0]
  /\ documents = [v \in Video |-> << >>]

Post(c) ==
  /\ posted' = [posted EXCEPT ![c] = @ + 1]
  /\ UNCHANGED documents

Store(v, content) ==
  /\ Posted(v)
  /\ documents[v] = << >>
  /\ documents' = [documents EXCEPT ![v] = <<content>>]
  /\ UNCHANGED posted

Next ==
  \/ \E c \in Creator : Post(c)
  \/ \E v \in Video, content \in Contents : Store(v, content)

Spec == Init /\ [][Next]_vars
=============================================================================
