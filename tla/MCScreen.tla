------------------------------ MODULE MCScreen ------------------------------
(* Instances of Screen for TLC. *)
EXTENDS Screen

\* The two regions smaller than a two-row screen, one that reaches below it and
\* one that is empty.
MCRegions == {<<1, 1>>, <<2, 2>>, <<1, 9>>, <<2, 1>>}
=============================================================================
