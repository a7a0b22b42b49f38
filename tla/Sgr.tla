-------------------------------- MODULE Sgr ---------------------------------
(***************************************************************************)
(* Styles and the SGR sequences that carry them (screen/style.rs): what an *)
(* application's parameters do to the current style (apply_sgr) and what   *)
(* the renderer writes to make a terminal use a style                      *)
(* (write_sgr_with_reset_to). A parameter is the sequence of its           *)
(* colon-separated subparameters; digits and separators are left out.      *)
(***************************************************************************)
EXTENDS Integers, Sequences

U8 == 0..255

\* Option<Color>: << >> is None, <<n>> Indexed, <<r, g, b>> Rgb
Color == {c \in Seq(U8) : Len(c) \in {0, 1, 3}}

Flags == {"bold", "dim", "italic", "blink", "inverse", "hidden", "strikethrough"}

\* underline is the parameter of UnderlineStyle, 0 for none.
DefaultStyle ==
  [on |-> {}, underline |-> 0, fg |-> << >>, bg |-> << >>, underline_color |-> << >>]

IsStyle(s) ==
  /\ s.on \subseteq Flags /\ s.underline \in 0..5
  /\ s.fg \in Color /\ s.bg \in Color /\ s.underline_color \in Color

\* `as u8'
Byte(n) == n % 256

-----------------------------------------------------------------------------
(* apply_sgr *)

\* The first subparameter of parameter i
First(params, i) == IF params[i] = << >> THEN 0 ELSE params[i][1]

\* parse_extended_color at parameter i: the color, << >> if there is none, and
\* how many parameters after i belong to it.
Extended(params, i) ==
  LET sub  == params[i]
      next(k) == Byte(First(params, i + k))
      mode == IF i < Len(params) THEN First(params, i + 1) ELSE 0
      found(color, n) == [color |-> color, more |-> n]
  IN  CASE Len(sub) >= 3 /\ sub[2] = 5 -> found(<<Byte(sub[3])>>, 0)
        [] Len(sub) >= 6 /\ sub[2] = 2 -> found(<<Byte(sub[4]), Byte(sub[5]), Byte(sub[6])>>, 0)
        [] Len(sub) = 5 /\ sub[2] = 2  -> found(<<Byte(sub[3]), Byte(sub[4]), Byte(sub[5])>>, 0)
        [] Len(sub) <= 1 /\ mode = 5 /\ i + 2 <= Len(params) -> found(<<next(2)>>, 2)
        [] Len(sub) <= 1 /\ mode = 2 /\ i + 4 <= Len(params) ->
             found(<<next(2), next(3), next(4)>>, 4)
        [] OTHER -> found(<< >>, 0)

IsExtended(p) == p \in {38, 48, 58}

\* Mutant: the parameters of a color are read again.
ConsumedOne(params, i) == 1

\* Parameters that the loop consumes at i. A color that is cut short leaves what
\* there is of it to the next rounds.
Consumed(params, i) ==
  IF IsExtended(First(params, i)) THEN 1 + Extended(params, i).more ELSE 1

FlagOf == [p \in 1..9 |->
  CASE p = 1 -> "bold" [] p = 2 -> "dim" [] p = 3 -> "italic" [] p \in {4, 5, 6} -> "blink"
    [] p = 7 -> "inverse" [] p = 8 -> "hidden" [] p = 9 -> "strikethrough"]

\* What the parameter at i does to style s. A color that is not understood and
\* an unknown parameter do nothing.
Effect(s, params, i) ==
  LET p   == First(params, i)
      sub == params[i]
      ext == Extended(params, i).color
      color(old) == IF ext = << >> THEN old ELSE ext
  IN  CASE p = 0 -> DefaultStyle
        [] p = 4 -> [s EXCEPT !.underline =
                      IF Len(sub) = 1 THEN 1 ELSE IF Byte(sub[2]) <= 5 THEN Byte(sub[2]) ELSE 1]
        [] p \in (1..9) \ {4} -> [s EXCEPT !.on = @ \cup {FlagOf[p]}]
        [] p = 21 -> [s EXCEPT !.underline = 2]
        [] p = 22 -> [s EXCEPT !.on = @ \ {"bold", "dim"}]
        [] p = 24 -> [s EXCEPT !.underline = 0]
        [] p \in {23, 25, 27, 28, 29} -> [s EXCEPT !.on = @ \ {FlagOf[p - 20]}]
        [] p \in 30..37   -> [s EXCEPT !.fg = <<p - 30>>]
        [] p \in 90..97   -> [s EXCEPT !.fg = <<p - 82>>]
        [] p = 38         -> [s EXCEPT !.fg = color(@)]
        [] p = 39         -> [s EXCEPT !.fg = << >>]
        [] p \in 40..47   -> [s EXCEPT !.bg = <<p - 40>>]
        [] p \in 100..107 -> [s EXCEPT !.bg = <<p - 92>>]
        [] p = 48         -> [s EXCEPT !.bg = color(@)]
        [] p = 49         -> [s EXCEPT !.bg = << >>]
        [] p = 58         -> [s EXCEPT !.underline_color = color(@)]
        [] p = 59         -> [s EXCEPT !.underline_color = << >>]
        [] OTHER          -> s

\* What parameter i does to the loop of apply_sgr: to the style, and to the
\* number of parameters that the loop still has to skip
Round(loop, params, i) ==
  IF loop.skip > 0
    THEN [style |-> loop.style, skip |-> loop.skip - 1]
    ELSE [style |-> Effect(loop.style, params, i), skip |-> Consumed(params, i) - 1]

\* The loop after each of the parameters
Loop(style, params) ==
  LET after[i \in 0..Len(params)] ==
        IF i = 0 THEN [style |-> style, skip |-> 0] ELSE Round(after[i - 1], params, i)
  IN  after

\* Style::apply_sgr. No parameters reset the style.
ApplySgr(style, params) ==
  IF params = << >> THEN DefaultStyle ELSE Loop(style, params)[Len(params)].style

-----------------------------------------------------------------------------
(* write_sgr_with_reset_to *)

\* Parameters without subparameters
Plain(ps) == [i \in 1..Len(ps) |-> <<ps[i]>>]

FlagParam(s, p) == IF FlagOf[p] \in s.on THEN Plain(<<p>>) ELSE << >>

\* Style::write_color_to
ColorParams(c, base, bright_base, extended) ==
  CASE c = << >> -> << >>
    [] Len(c) = 1 /\ c[1] < 8 -> Plain(<<base + c[1]>>)
    [] Len(c) = 1 /\ c[1] \in 8..15 -> Plain(<<bright_base + c[1] - 8>>)
    [] Len(c) = 1 /\ c[1] >= 16 -> Plain(<<extended, 5>> \o c)
    [] Len(c) = 3 -> Plain(<<extended, 2>> \o c)

\* The color of the underline has no short form.
UnderlineColorParams(c) ==
  CASE c = << >> -> << >>
    [] Len(c) = 1 -> Plain(<<58, 5>> \o c)
    [] Len(c) = 3 -> Plain(<<58, 2>> \o c)

UnderlineParams(u) ==
  CASE u = 0 -> << >> [] u = 1 -> Plain(<<4>>) [] u > 1 -> << <<4, u>> >>

\* Style::write_sgr_to after a reset
WriteSgr(s) ==
  Plain(<<0>>) \o FlagParam(s, 1) \o FlagParam(s, 2) \o FlagParam(s, 3)
    \o UnderlineParams(s.underline)
    \o FlagParam(s, 5) \o FlagParam(s, 7) \o FlagParam(s, 8) \o FlagParam(s, 9)
    \o ColorParams(s.fg, 30, 90, 38) \o ColorParams(s.bg, 40, 100, 48)
    \o UnderlineColorParams(s.underline_color)
=============================================================================
