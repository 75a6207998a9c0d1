--------------------------- MODULE AppendOnlyIndex ---------------------------
(***************************************************************************)
(* What the HOP experience store promises of its index: a list of recorded *)
(* artifacts that only grows, and that names no artifact id twice.         *)
(***************************************************************************)
EXTENDS Integers, Sequences

CONSTANTS Artifact, ArtifactId, History

VARIABLE recorded   \* the artifacts recorded so far, oldest first

Fresh(a) ==
    \A i \in 1..Len(recorded) : ArtifactId[recorded[i]] # ArtifactId[a]

Init == recorded = History

Record(a) ==
    /\ Fresh(a)
    /\ recorded' = Append(recorded, a)

Next == \E a \in Artifact : Record(a)

Spec == Init /\ [][Next]_recorded
==============================================================================
