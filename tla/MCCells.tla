------------------------------- MODULE MCCells -------------------------------
(* Instance of Cells.tla for TLC. *)
EXTENDS Cells, FiniteSets

\* Bounds: a row has one mark at a time, and none with a saved cursor or under
\* the alternate screen, which do not look at marks; DECSC is sent only while a
\* wrap is pending: what else it saves comes back as a position CUP reaches.
Marked(r) == {i \in DOMAIN r : r[i].m > 0}

MCNext ==
  /\ Next
  /\ Cardinality(Marked(row')) <= IF saved' = None /\ main_autowrap' = None THEN 1 ELSE 0
  /\ saved' # saved => saved' = None \/ wrap_pending

MCSpec == Init /\ [][MCNext]_vars
=============================================================================
