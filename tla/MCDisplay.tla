------------------------------ MODULE MCDisplay -----------------------------
(* Applications for TLC, each with some of the sequences. Together they use    *)
(* every one.                                                                  *)
EXTENDS Display

\* Two backgrounds, one with a byte that does not fit; a bold foreground with colons
Backgrounds == { Plain(<<0, 41>>), Plain(<<0, 48, 2, 1, 2, 300>>) }
Styles == Backgrounds \cup { << <<0>>, <<1>>, <<38, 5, 99>> >> }

\* Parameters that add up to some two thousand styles
Many ==
  { << >>, Plain(<<1, 7>>), Plain(<<2>>), Plain(<<5>>), Plain(<<9>>), Plain(<<22, 27>>),
    Plain(<<4>>), << <<4, 3>> >>, Plain(<<31>>), Plain(<<97>>), Plain(<<38, 5, 99>>),
    << <<48, 2, 0, 1, 2, 300>> >>, Plain(<<48, 2, 5, 38, 2>>),
    Plain(<<58, 5, 5>>), << <<58, 2, 4, 9, 1>> >>, Plain(<<48, 5>>) }

\* More styles than slots; a style over a whole row; styles alone; two rows in
\* margins; two rows that reach the last column; modes; lines drawn; titles.
MCSetups ==
  { [rows |-> 1, cols |-> 2, at |-> {1}, sgr |-> Styles,
     uses |-> {"print", "sgr", "alt", "ris"}],
    [rows |-> 1, cols |-> 2, at |-> {1}, sgr |-> Backgrounds \cup { << >> },
     uses |-> {"print", "sgr", "erase", "ris"}],
    [rows |-> 1, cols |-> 1, at |-> {}, sgr |-> Many, uses |-> {"sgr"}],
    [rows |-> 2, cols |-> 2, at |-> {1}, sgr |-> {},
     uses |-> {"print", "move", "margins", "scroll"}],
    [rows |-> 2, cols |-> 2, at |-> {1, 2}, sgr |-> {}, uses |-> {"print", "move", "scroll"}],
    [rows |-> 1, cols |-> 2, at |-> {1}, sgr |-> {},
     uses |-> {"print", "alt", "ris", "graphics", "focus"}],
    [rows |-> 1, cols |-> 2, at |-> {1, 2}, sgr |-> {},
     uses |-> {"print", "scroll", "graphics", "cursor"}],
    [rows |-> 1, cols |-> 1, at |-> {}, sgr |-> {},
     uses |-> {"scroll", "alt", "title", "ris", "cursor"}] }
=============================================================================
