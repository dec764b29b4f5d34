----------------------------- MODULE MCStorage -----------------------------
(* Storage on small sets of handles, objects and files.                    *)
EXTENDS Storage, TLC

CONSTANTS a, b, i1, i2, i3

MCHandles == {a, b}
MCIds     == {i1, i2, i3}

\* Object names are interchangeable, and so are the handles.
Symmetry == Permutations(MCIds) \cup Permutations(MCHandles)

\* The last call decides nothing that happens later: two states that differ in it
\* alone are one.
MemoryView == <<ref, heap, file>>
=============================================================================
