--------------------------- MODULE MCSessionRelay ---------------------------
(* Small instances of SessionRelay for TLC. Clients are interchangeable. *)
EXTENDS SessionRelay, TLC

Chunk(lines, notifies) == [lines |-> lines, notifies |-> notifies]

\* Output that only changes the screen; output that scrolls or notifies.
Redraws == {Chunk(0, FALSE)}
Busy    == {Chunk(1, FALSE), Chunk(0, TRUE)}

Symmetry == Permutations(Clients)
=============================================================================
