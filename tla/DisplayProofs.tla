---------------------------- MODULE DisplayProofs ---------------------------
(***************************************************************************)
(* Theorems about Display.tla and Sgr.tla, for every size of the screen,   *)
(* every capacity of the style table, every application and every          *)
(* sequence of SGR parameters.                                             *)
(*                                                                         *)
(* Loops are recursive functions here. What is said of all their rounds is *)
(* proved by a least counterexample (Induction below).                     *)
(***************************************************************************)
EXTENDS Display, WellFoundedInduction, SequenceTheorems, TLAPS

-----------------------------------------------------------------------------
(* Induction over numbers, with a set for the numbers that have a property. *)

LEMMA LeastNat ==
  ASSUME NEW T, T \subseteq Nat, T # {}
  PROVE  \E x \in T : \A y \in T : x <= y
<1>1. IsWellFoundedOn(OpToRel(<, Nat), Nat)
  BY NatLessThanWellFounded
<1>2. \E x \in T : \A y \in T : ~(<<y, x>> \in OpToRel(<, Nat))
  BY <1>1, WFMin
<1>3. ASSUME NEW x \in T, NEW y \in T, ~(<<y, x>> \in OpToRel(<, Nat))
      PROVE  x <= y
  BY <1>3 DEF OpToRel
<1>. QED  BY <1>2, <1>3

LEMMA Induction ==
  ASSUME NEW n \in Nat, NEW G, 0 \in G, \A i \in 0..n - 1 : i \in G => i + 1 \in G
  PROVE  0..n \subseteq G
<1>. DEFINE T == (0..n) \ G
<1>1. SUFFICES ASSUME T # {} PROVE FALSE
  OBVIOUS
<1>2. T \subseteq Nat
  OBVIOUS
<1>3. PICK x \in T : \A y \in T : x <= y
  BY <1>1, <1>2, LeastNat
<1>4. x \in 1..n
  BY <1>3
<1>5. x - 1 \in 0..n - 1 /\ x - 1 \notin T /\ (x - 1) + 1 = x
  BY <1>3, <1>4
<1>6. x - 1 \in G
  BY <1>5
<1>. QED  BY <1>3, <1>5, <1>6

-----------------------------------------------------------------------------
(* apply_sgr: the loop exists, and goes on from round to round. *)

\* f is the loop up to round n.
IsLoop(f, style, params, n) ==
  f = [i \in 0..n |-> IF i = 0 THEN [style |-> style, skip |-> 0]
                      ELSE Round(f[i - 1], params, i)]

LEMMA LoopExists ==
  ASSUME NEW style, NEW params, NEW n \in Nat
  PROVE  \E f : IsLoop(f, style, params, n)
<1>. DEFINE G == {k \in 0..n : \E f : IsLoop(f, style, params, k)}
            first == [style |-> style, skip |-> 0]
<1>1. 0 \in G
  <2>. DEFINE f == [i \in 0..0 |-> first]
  <2>1. IsLoop(f, style, params, 0)
    BY DEF IsLoop
  <2>. QED  BY <2>1
<1>2. ASSUME NEW k \in 0..n - 1, k \in G PROVE k + 1 \in G
  <2>1. PICK f : IsLoop(f, style, params, k)
    BY <1>2
  <2>. DEFINE g == [i \in 0..k + 1 |-> IF i = k + 1 THEN Round(f[k], params, k + 1) ELSE f[i]]
  <2>2. f = [i \in 0..k |-> IF i = 0 THEN first ELSE Round(f[i - 1], params, i)]
    BY <2>1 DEF IsLoop
  <2>. HIDE DEF first
  <2>3. /\ \A i \in 0..k : g[i] = f[i]
        /\ g[k + 1] = Round(f[k], params, k + 1)
    OBVIOUS
  <2>4. ASSUME NEW i \in 0..k + 1
        PROVE  g[i] = IF i = 0 THEN first ELSE Round(g[i - 1], params, i)
    <3>1. CASE i = k + 1
      <4>1. i - 1 = k /\ k \in 0..k /\ i # 0
        BY <3>1
      <4>. QED  BY <2>3, <3>1, <4>1
    <3>2. CASE i # k + 1
      <4>1. i \in 0..k /\ (i # 0 => i - 1 \in 0..k)
        BY <3>2
      <4>2. f[i] = IF i = 0 THEN first ELSE Round(f[i - 1], params, i)
        BY <2>2, <4>1
      <4>. QED  BY <2>3, <4>1, <4>2
    <3>. QED  BY <3>1, <3>2
  <2>5. g = [i \in 0..k + 1 |-> IF i = 0 THEN first ELSE Round(g[i - 1], params, i)]
    BY <2>4
  <2>6. IsLoop(g, style, params, k + 1)
    BY <2>5 DEF IsLoop, first
  <2>. QED  BY <2>6
<1>. HIDE DEF G
<1>3. 0..n \subseteq G
  BY <1>1, <1>2, Induction
<1>. QED  BY <1>3 DEF G

LEMMA LoopRounds ==
  ASSUME NEW style, NEW params, Len(params) \in Nat
  PROVE  /\ Loop(style, params)[0] = [style |-> style, skip |-> 0]
         /\ \A i \in 1..Len(params) :
              Loop(style, params)[i] = Round(Loop(style, params)[i - 1], params, i)
<1>. DEFINE f == Loop(style, params)
<1>1. f = CHOOSE g : IsLoop(g, style, params, Len(params))
  BY DEF Loop, IsLoop
<1>2. IsLoop(f, style, params, Len(params))
  BY <1>1, LoopExists
<1>. HIDE DEF f
<1>3. \A i \in 0..Len(params) :
        f[i] = IF i = 0 THEN [style |-> style, skip |-> 0] ELSE Round(f[i - 1], params, i)
  BY <1>2 DEF IsLoop
<1>. QED  BY <1>3 DEF f

-----------------------------------------------------------------------------
(* What the parameters do to a style. *)

Style == [on : SUBSET Flags, underline : 0..5, fg : Color, bg : Color, underline_color : Color]
Parameters == Seq(Seq(Nat))

LEMMA StyleIsStyle == \A s \in Style : IsStyle(s)
BY DEF Style, IsStyle

LEMMA U8Type == \A n : n \in U8 <=> n \in Nat /\ n <= 255
BY DEF U8

LEMMA ColorType ==
  /\ << >> \in Color
  /\ \A a \in U8 : <<a>> \in Color
  /\ \A a, b, c \in U8 : <<a, b, c>> \in Color
BY DEF Color

LEMMA DefaultStyleType == DefaultStyle \in Style
BY ColorType DEF DefaultStyle, Style

LEMMA ByteType ==
  /\ \A n \in Nat : Byte(n) \in U8
  /\ \A n \in U8 : Byte(n) = n
BY U8Type DEF Byte

\* A subparameter is there, or 0 is taken for it.
LEMMA FirstType ==
  ASSUME NEW params \in Parameters, NEW i \in 1..Len(params)
  PROVE  /\ params[i] \in Seq(Nat) /\ First(params, i) \in Nat
         /\ First(params, i) # 0 => Len(params[i]) >= 1
<1>1. params[i] \in Seq(Nat)
  BY DEF Parameters
<1>2. CASE params[i] = << >>
  BY <1>1, <1>2 DEF First
<1>3. CASE params[i] # << >>
  <2>1. Len(params[i]) >= 1
    BY <1>1, <1>3
  <2>2. params[i][1] \in Nat
    BY <1>1, <2>1
  <2>. QED  BY <1>1, <1>3, <2>1, <2>2 DEF First
<1>. QED  BY <1>2, <1>3

LEMMA ExtendedType ==
  ASSUME NEW params \in Parameters, NEW i \in 1..Len(params)
  PROVE  Extended(params, i).color \in Color /\ Extended(params, i).more \in 0..4
<1>. DEFINE sub == params[i]
            mode == IF i < Len(params) THEN First(params, i + 1) ELSE 0
            next(k) == Byte(First(params, i + k))
<1>1. sub \in Seq(Nat) /\ Len(sub) \in Nat /\ Len(params) \in Nat
  BY FirstType DEF Parameters
<1>2. \A k \in 1..Len(sub) : sub[k] \in Nat /\ Byte(sub[k]) \in U8
  BY <1>1, ByteType
<1>3. \A k \in 2..4 : i + k <= Len(params) => next(k) \in U8
  BY <1>1, FirstType, ByteType
<1>. HIDE DEF sub
<1>4. Extended(params, i) =
        CASE Len(sub) >= 3 /\ sub[2] = 5 -> [color |-> <<Byte(sub[3])>>, more |-> 0]
          [] Len(sub) >= 6 /\ sub[2] = 2 ->
               [color |-> <<Byte(sub[4]), Byte(sub[5]), Byte(sub[6])>>, more |-> 0]
          [] Len(sub) = 5 /\ sub[2] = 2 ->
               [color |-> <<Byte(sub[3]), Byte(sub[4]), Byte(sub[5])>>, more |-> 0]
          [] Len(sub) <= 1 /\ mode = 5 /\ i + 2 <= Len(params) ->
               [color |-> <<next(2)>>, more |-> 2]
          [] Len(sub) <= 1 /\ mode = 2 /\ i + 4 <= Len(params) ->
               [color |-> <<next(2), next(3), next(4)>>, more |-> 4]
          [] OTHER -> [color |-> << >>, more |-> 0]
  BY Zenon DEF Extended, sub
<1>. HIDE DEF mode, next
<1>5. CASE Len(sub) >= 3 /\ sub[2] = 5
  BY <1>1, <1>2, <1>4, <1>5, ColorType, SMTT(30)
<1>6. CASE ~(Len(sub) >= 3 /\ sub[2] = 5) /\ Len(sub) >= 6 /\ sub[2] = 2
  <2>1. Byte(sub[4]) \in U8 /\ Byte(sub[5]) \in U8 /\ Byte(sub[6]) \in U8
    BY <1>1, <1>2, <1>6
  <2>2. Extended(params, i) =
          [color |-> <<Byte(sub[4]), Byte(sub[5]), Byte(sub[6])>>, more |-> 0]
    BY <1>1, <1>4, <1>6, SMTT(30)
  <2>. QED  BY <2>1, <2>2, ColorType
<1>7. CASE Len(sub) = 5 /\ sub[2] = 2
  BY <1>1, <1>2, <1>4, <1>7, ColorType
<1>8. CASE Len(sub) <= 1 /\ mode = 5 /\ i + 2 <= Len(params)
  BY <1>1, <1>3, <1>4, <1>8, ColorType
<1>9. CASE Len(sub) <= 1 /\ mode = 2 /\ i + 4 <= Len(params)
  <2>1. next(2) \in U8 /\ next(3) \in U8 /\ next(4) \in U8
    BY <1>1, <1>3, <1>9
  <2>2. Extended(params, i) = [color |-> <<next(2), next(3), next(4)>>, more |-> 4]
    BY <1>1, <1>4, <1>9
  <2>. QED  BY <2>1, <2>2, ColorType
<1>10. CASE /\ ~(Len(sub) >= 3 /\ sub[2] = 5) /\ ~(Len(sub) >= 6 /\ sub[2] = 2)
            /\ ~(Len(sub) = 5 /\ sub[2] = 2)
            /\ ~(Len(sub) <= 1 /\ mode = 5 /\ i + 2 <= Len(params))
            /\ ~(Len(sub) <= 1 /\ mode = 2 /\ i + 4 <= Len(params))
  BY <1>1, <1>4, <1>10, ColorType
<1>. QED  BY <1>5, <1>6, <1>7, <1>8, <1>9, <1>10

LEMMA ConsumedType ==
  ASSUME NEW params \in Parameters, NEW i \in 1..Len(params)
  PROVE  Consumed(params, i) - 1 \in 0..4
BY ExtendedType DEF Consumed

\* A change of one field
LEMMA StyleFields ==
  ASSUME NEW s \in Style
  PROVE  /\ s.on \subseteq Flags /\ s.underline \in 0..5
         /\ s.fg \in Color /\ s.bg \in Color /\ s.underline_color \in Color
         /\ \A x \in SUBSET Flags : [s EXCEPT !.on = x] \in Style
         /\ \A x \in 0..5 : [s EXCEPT !.underline = x] \in Style
         /\ \A x \in Color : /\ [s EXCEPT !.fg = x] \in Style
                             /\ [s EXCEPT !.bg = x] \in Style
                             /\ [s EXCEPT !.underline_color = x] \in Style
BY DEF Style

LEMMA FlagOfType == \A p \in 1..9 : FlagOf[p] \in Flags
BY DEF FlagOf, Flags


\* What a subparameter of 4 asks for
UnderlineOf(sub) ==
  IF Len(sub) = 1 THEN 1 ELSE IF Byte(sub[2]) <= 5 THEN Byte(sub[2]) ELSE 1

\* The color at parameter i, or else the one there was
ColorOf(params, i, old) ==
  IF Extended(params, i).color = << >> THEN old ELSE Extended(params, i).color

WithFlag(s, flag) == [s EXCEPT !.on = s.on \cup {flag}]

\* The arms of the match in apply_sgr exclude one another.
LEMMA EffectArms ==
  ASSUME NEW s, NEW params, NEW i, NEW p \in Nat, p = First(params, i)
  PROVE  /\ p = 0 => Effect(s, params, i) = DefaultStyle
         /\ p = 4 => Effect(s, params, i) = [s EXCEPT !.underline = UnderlineOf(params[i])]
         /\ p >= 1 /\ p <= 9 /\ p # 4 =>
              Effect(s, params, i) = WithFlag(s, FlagOf[p])
         /\ p = 21 => Effect(s, params, i) = [s EXCEPT !.underline = 2]
         /\ p = 22 => Effect(s, params, i) = [s EXCEPT !.on = s.on \ {"bold", "dim"}]
         /\ p = 24 => Effect(s, params, i) = [s EXCEPT !.underline = 0]
         /\ (p = 23 \/ p = 25 \/ p = 27 \/ p = 28 \/ p = 29) =>
              Effect(s, params, i) = [s EXCEPT !.on = s.on \ {FlagOf[p - 20]}]
         /\ p >= 30 /\ p <= 37 => Effect(s, params, i) = [s EXCEPT !.fg = <<p - 30>>]
         /\ p >= 90 /\ p <= 97 => Effect(s, params, i) = [s EXCEPT !.fg = <<p - 82>>]
         /\ p = 38 => Effect(s, params, i) = [s EXCEPT !.fg = ColorOf(params, i, s.fg)]
         /\ p = 39 => Effect(s, params, i) = [s EXCEPT !.fg = << >>]
         /\ p >= 40 /\ p <= 47 => Effect(s, params, i) = [s EXCEPT !.bg = <<p - 40>>]
         /\ p >= 100 /\ p <= 107 => Effect(s, params, i) = [s EXCEPT !.bg = <<p - 92>>]
         /\ p = 48 => Effect(s, params, i) = [s EXCEPT !.bg = ColorOf(params, i, s.bg)]
         /\ p = 49 => Effect(s, params, i) = [s EXCEPT !.bg = << >>]
         /\ p = 58 =>
              Effect(s, params, i) =
                [s EXCEPT !.underline_color = ColorOf(params, i, s.underline_color)]
         /\ p = 59 => Effect(s, params, i) = [s EXCEPT !.underline_color = << >>]
         /\ \/ p = 0 \/ (p >= 1 /\ p <= 9) \/ (p >= 21 /\ p <= 25) \/ (p >= 27 /\ p <= 49)
            \/ (p >= 58 /\ p <= 59) \/ (p >= 90 /\ p <= 97) \/ (p >= 100 /\ p <= 107)
            \/ Effect(s, params, i) = s
<1>. DEFINE v0 == DefaultStyle
            v4 == [s EXCEPT !.underline = UnderlineOf(params[i])]
            v1 == WithFlag(s, FlagOf[p])
            v21 == [s EXCEPT !.underline = 2]
            v22 == [s EXCEPT !.on = s.on \ {"bold", "dim"}]
            v24 == [s EXCEPT !.underline = 0]
            v23 == [s EXCEPT !.on = s.on \ {FlagOf[p - 20]}]
            v30 == [s EXCEPT !.fg = <<p - 30>>]
            v90 == [s EXCEPT !.fg = <<p - 82>>]
            v38 == [s EXCEPT !.fg = ColorOf(params, i, s.fg)]
            v39 == [s EXCEPT !.fg = << >>]
            v40 == [s EXCEPT !.bg = <<p - 40>>]
            v100 == [s EXCEPT !.bg = <<p - 92>>]
            v48 == [s EXCEPT !.bg = ColorOf(params, i, s.bg)]
            v49 == [s EXCEPT !.bg = << >>]
            v58 == [s EXCEPT !.underline_color = ColorOf(params, i, s.underline_color)]
            v59 == [s EXCEPT !.underline_color = << >>]
<1>1. Effect(s, params, i) =
        CASE p = 0 -> v0
          [] p = 4 -> v4
          [] p \in (1..9) \ {4} -> v1
          [] p = 21 -> v21
          [] p = 22 -> v22
          [] p = 24 -> v24
          [] p \in {23, 25, 27, 28, 29} -> v23
          [] p \in 30..37 -> v30
          [] p \in 90..97 -> v90
          [] p = 38 -> v38
          [] p = 39 -> v39
          [] p \in 40..47 -> v40
          [] p \in 100..107 -> v100
          [] p = 48 -> v48
          [] p = 49 -> v49
          [] p = 58 -> v58
          [] p = 59 -> v59
          [] OTHER -> s
  BY Zenon DEF Effect, UnderlineOf, ColorOf, WithFlag
<1>. DEFINE e == Effect(s, params, i)
<1>. HIDE DEF e, v0, v4, v1, v21, v22, v24, v23, v30, v90, v38, v39, v40, v100, v48, v49,
              v58, v59
<1>2. p = 0 => e = v0
  BY <1>1 DEF e
<1>3. p = 4 => e = v4
  BY <1>1 DEF e
<1>4. p >= 1 /\ p <= 9 /\ p # 4 => e = v1
  BY <1>1 DEF e
<1>5. p = 21 => e = v21
  BY <1>1 DEF e
<1>6. p = 22 => e = v22
  BY <1>1 DEF e
<1>7. p = 24 => e = v24
  BY <1>1 DEF e
<1>8. (p = 23 \/ p = 25 \/ p = 27 \/ p = 28 \/ p = 29) => e = v23
  BY <1>1 DEF e
<1>9. p >= 30 /\ p <= 37 => e = v30
  BY <1>1 DEF e
<1>10. p >= 90 /\ p <= 97 => e = v90
  BY <1>1 DEF e
<1>11. p = 38 => e = v38
  BY <1>1 DEF e
<1>12. p = 39 => e = v39
  BY <1>1 DEF e
<1>13. p >= 40 /\ p <= 47 => e = v40
  BY <1>1 DEF e
<1>14. p >= 100 /\ p <= 107 => e = v100
  BY <1>1 DEF e
<1>15. p = 48 => e = v48
  BY <1>1 DEF e
<1>16. p = 49 => e = v49
  BY <1>1 DEF e
<1>17. p = 58 => e = v58
  BY <1>1 DEF e
<1>18. p = 59 => e = v59
  BY <1>1 DEF e
<1>19. \/ p = 0 \/ (p >= 1 /\ p <= 9) \/ (p >= 21 /\ p <= 25) \/ (p >= 27 /\ p <= 49)
       \/ (p >= 58 /\ p <= 59) \/ (p >= 90 /\ p <= 97) \/ (p >= 100 /\ p <= 107)
       \/ e = s
  BY <1>1 DEF e
<1>. QED  BY <1>2, <1>3, <1>4, <1>5, <1>6, <1>7, <1>8, <1>9, <1>10, <1>11, <1>12,
             <1>13, <1>14, <1>15, <1>16, <1>17, <1>18, <1>19, Zenon
             DEF e, v0, v4, v1, v21, v22, v24, v23, v30, v90, v38, v39, v40, v100, v48, v49,
                 v58, v59

LEMMA EffectType ==
  ASSUME NEW s \in Style, NEW params \in Parameters, NEW i \in 1..Len(params)
  PROVE  Effect(s, params, i) \in Style
<1>. DEFINE p == First(params, i)
            sub == params[i]
            e == Effect(s, params, i)
<1>1. /\ p \in Nat /\ sub \in Seq(Nat) /\ Len(sub) \in Nat /\ (p # 0 => Len(sub) >= 1)
      /\ Extended(params, i).color \in Color
  BY FirstType, ExtendedType
<1>2. p = 4 => UnderlineOf(sub) \in 0..5
  <2>. SUFFICES ASSUME p = 4, Len(sub) # 1 PROVE UnderlineOf(sub) \in 0..5
    BY DEF UnderlineOf
  <2>. HIDE DEF p, sub
  <2>1. Len(sub) >= 2
    <3>1. Len(sub) >= 1 /\ Len(sub) \in Nat
      BY FirstType DEF p, sub
    <3>2. \A k \in Nat : k >= 1 /\ k # 1 => k >= 2
      OBVIOUS
    <3>. QED  BY <3>1, <3>2, Zenon
  <2>2. sub[2] \in Nat
    BY <1>1, <2>1
  <2>3. Byte(sub[2]) \in Nat
    BY <2>2, ByteType, U8Type
  <2>. QED  BY <2>3 DEF UnderlineOf
<1>3. /\ ColorOf(params, i, s.fg) \in Color /\ ColorOf(params, i, s.bg) \in Color
      /\ ColorOf(params, i, s.underline_color) \in Color /\ << >> \in Color
  BY <1>1, StyleFields, ColorType DEF ColorOf
<1>4. /\ \A q \in 1..9 : s.on \cup {FlagOf[q]} \in SUBSET Flags
      /\ \A q \in 1..9 : s.on \ {FlagOf[q]} \in SUBSET Flags
      /\ s.on \ {"bold", "dim"} \in SUBSET Flags
  BY StyleFields, FlagOfType
<1>5. /\ \A x \in SUBSET Flags : [s EXCEPT !.on = x] \in Style
      /\ \A x \in 0..5 : [s EXCEPT !.underline = x] \in Style
      /\ \A x \in Color : /\ [s EXCEPT !.fg = x] \in Style
                          /\ [s EXCEPT !.bg = x] \in Style
                          /\ [s EXCEPT !.underline_color = x] \in Style
  BY StyleFields
<1>6. \A n \in Nat : n <= 255 => <<n>> \in Color
  BY U8Type, ColorType
<1>. HIDE DEF p, sub, e
<1>7. CASE p = 0
  <2>1. e = DefaultStyle
    BY <1>1, <1>7, EffectArms DEF p, e
  <2>. QED  BY <2>1, DefaultStyleType DEF e
<1>8. CASE p = 4
  <2>1. e = [s EXCEPT !.underline = UnderlineOf(sub)]
    BY <1>1, <1>8, EffectArms DEF p, e, sub
  <2>. QED  BY <1>2, <1>5, <1>8, <2>1 DEF e
<1>9. CASE p >= 1 /\ p <= 9 /\ p # 4
  <2>1. p \in 1..9
    BY <1>1, <1>9
  <2>2. e = WithFlag(s, FlagOf[p])
    BY <1>1, <1>9, EffectArms DEF p, e
  <2>. QED  BY <1>4, <1>5, <2>1, <2>2 DEF e, WithFlag
<1>10. CASE p = 21 \/ p = 24
  <2>1. e = [s EXCEPT !.underline = 2] \/ e = [s EXCEPT !.underline = 0]
    BY <1>1, <1>10, EffectArms DEF p, e
  <2>. QED  BY <1>5, <2>1 DEF e
<1>11. CASE p = 22
  <2>1. e = [s EXCEPT !.on = s.on \ {"bold", "dim"}]
    BY <1>1, <1>11, EffectArms DEF p, e
  <2>. QED  BY <1>4, <1>5, <2>1 DEF e
<1>12. CASE p = 23 \/ p = 25 \/ p = 27 \/ p = 28 \/ p = 29
  <2>1. e = [s EXCEPT !.on = s.on \ {FlagOf[p - 20]}]
    BY <1>1, <1>12, EffectArms DEF p, e
  <2>2. p - 20 \in 1..9
    BY <1>12
  <2>. QED  BY <1>4, <1>5, <2>1, <2>2 DEF e
<1>13. CASE p >= 30 /\ p <= 39
  <2>1. CASE p <= 37
    <3>1. e = [s EXCEPT !.fg = <<p - 30>>] /\ p - 30 \in Nat /\ p - 30 <= 255
      BY <1>1, <1>13, <2>1, EffectArms DEF p, e
    <3>. QED  BY <1>5, <1>6, <3>1 DEF e
  <2>2. CASE p = 38
    <3>1. e = [s EXCEPT !.fg = ColorOf(params, i, s.fg)]
      BY <1>1, <2>2, EffectArms DEF p, e
    <3>. QED  BY <1>3, <1>5, <3>1 DEF e
  <2>3. CASE p = 39
    <3>1. e = [s EXCEPT !.fg = << >>]
      BY <1>1, <2>3, EffectArms DEF p, e
    <3>. QED  BY <1>3, <1>5, <3>1 DEF e
  <2>. QED  BY <1>1, <1>13, <2>1, <2>2, <2>3
<1>14. CASE p >= 40 /\ p <= 49
  <2>1. CASE p <= 47
    <3>1. e = [s EXCEPT !.bg = <<p - 40>>] /\ p - 40 \in Nat /\ p - 40 <= 255
      BY <1>1, <1>14, <2>1, EffectArms DEF p, e
    <3>. QED  BY <1>5, <1>6, <3>1 DEF e
  <2>2. CASE p = 48
    <3>1. e = [s EXCEPT !.bg = ColorOf(params, i, s.bg)]
      BY <1>1, <2>2, EffectArms DEF p, e
    <3>. QED  BY <1>3, <1>5, <3>1 DEF e
  <2>3. CASE p = 49
    <3>1. e = [s EXCEPT !.bg = << >>]
      BY <1>1, <2>3, EffectArms DEF p, e
    <3>. QED  BY <1>3, <1>5, <3>1 DEF e
  <2>. QED  BY <1>1, <1>14, <2>1, <2>2, <2>3
<1>15. CASE p >= 90 /\ p <= 97
  <2>1. e = [s EXCEPT !.fg = <<p - 82>>] /\ p - 82 \in Nat /\ p - 82 <= 255
    BY <1>1, <1>15, EffectArms DEF p, e
  <2>. QED  BY <1>5, <1>6, <2>1 DEF e
<1>16. CASE p >= 100 /\ p <= 107
  <2>1. e = [s EXCEPT !.bg = <<p - 92>>] /\ p - 92 \in Nat /\ p - 92 <= 255
    BY <1>1, <1>16, EffectArms DEF p, e
  <2>. QED  BY <1>5, <1>6, <2>1 DEF e
<1>17. CASE p = 58
  <2>1. e = [s EXCEPT !.underline_color = ColorOf(params, i, s.underline_color)]
    BY <1>1, <1>17, EffectArms DEF p, e
  <2>. QED  BY <1>3, <1>5, <2>1 DEF e
<1>18. CASE p = 59
  <2>1. e = [s EXCEPT !.underline_color = << >>]
    BY <1>1, <1>18, EffectArms DEF p, e
  <2>. QED  BY <1>3, <1>5, <2>1 DEF e
<1>19. CASE e = s
  BY <1>19 DEF e
<1>20. \/ p = 0 \/ (p >= 1 /\ p <= 9) \/ (p >= 21 /\ p <= 25) \/ (p >= 27 /\ p <= 49)
       \/ (p >= 58 /\ p <= 59) \/ (p >= 90 /\ p <= 97) \/ (p >= 100 /\ p <= 107)
       \/ e = s
  BY <1>1, EffectArms DEF p, e
<1>. QED  BY <1>1, <1>7, <1>8, <1>9, <1>10, <1>11, <1>12, <1>13, <1>14, <1>15, <1>16, <1>17,
             <1>18, <1>19, <1>20

\* After every round there is a style, and at most a color is left to skip.
LEMMA LoopType ==
  ASSUME NEW s \in Style, NEW params \in Parameters
  PROVE  \A i \in 0..Len(params) :
           Loop(s, params)[i].style \in Style /\ Loop(s, params)[i].skip \in 0..4
<1>. DEFINE f == Loop(s, params)
            n == Len(params)
            G == {i \in 0..n : f[i].style \in Style /\ f[i].skip \in 0..4}
<1>1. n \in Nat
  BY DEF Parameters
<1>2. /\ f[0] = [style |-> s, skip |-> 0]
      /\ \A i \in 1..n : f[i] = Round(f[i - 1], params, i)
  BY <1>1, LoopRounds
<1>. HIDE DEF f
<1>3. 0 \in G
  BY <1>1, <1>2
<1>4. ASSUME NEW i \in 0..n - 1, i \in G PROVE i + 1 \in G
  <2>1. i + 1 \in 1..n /\ (i + 1) - 1 = i /\ f[i].style \in Style /\ f[i].skip \in 0..4
    BY <1>1, <1>4
  <2>2. f[i + 1] = Round(f[i], params, i + 1)
    BY <1>2, <2>1
  <2>3. CASE f[i].skip > 0
    <3>1. f[i + 1] = [style |-> f[i].style, skip |-> f[i].skip - 1]
      BY <2>2, <2>3 DEF Round
    <3>. QED  BY <1>1, <2>1, <2>3, <3>1
  <2>4. CASE ~(f[i].skip > 0)
    <3>1. f[i + 1] = [style |-> Effect(f[i].style, params, i + 1),
                      skip |-> Consumed(params, i + 1) - 1]
      BY <2>2, <2>4 DEF Round
    <3>2. Effect(f[i].style, params, i + 1) \in Style /\ Consumed(params, i + 1) - 1 \in 0..4
      BY <2>1, EffectType, ConsumedType
    <3>. QED  BY <1>1, <2>1, <3>1, <3>2
  <2>. QED  BY <2>3, <2>4
<1>. HIDE DEF n
<1>5. 0..n \subseteq G
  <2>. HIDE DEF G
  <2>. QED  BY <1>1, <1>3, <1>4, Induction
<1>. QED  BY <1>5 DEF f, n

\* apply_sgr makes a style of a style.
LEMMA ApplySgrType ==
  ASSUME NEW s \in Style, NEW params \in Parameters
  PROVE  ApplySgr(s, params) \in Style
<1>1. Len(params) \in 0..Len(params)
  BY DEF Parameters
<1>2. Loop(s, params)[Len(params)].style \in Style
  BY <1>1, LoopType
<1>. QED  BY <1>2, DefaultStyleType DEF ApplySgr

-----------------------------------------------------------------------------
(* What write_sgr_with_reset_to writes is read back, part by part. *)

\* The loop of apply_sgr is at parameter k with style a and nothing to skip.
Reached(b, params, k, a) == Loop(b, params)[k] = [style |-> a, skip |-> 0]

\* chunk is what params has after parameter k.
At(params, k, chunk) ==
  /\ k \in Nat /\ k + Len(chunk) <= Len(params)
  /\ \A j \in 1..Len(chunk) : params[k + j] = chunk[j]

Mk(on, underline, fg, bg, underline_color) ==
  [on |-> on, underline |-> underline, fg |-> fg, bg |-> bg,
   underline_color |-> underline_color]

LEMMA MkExcept ==
  ASSUME NEW o, NEW u, NEW f, NEW g, NEW c, NEW x
  PROVE  /\ WithFlag(Mk(o, u, f, g, c), x) = Mk(o \cup {x}, u, f, g, c)
         /\ [Mk(o, u, f, g, c) EXCEPT !.underline = x] = Mk(o, x, f, g, c)
         /\ [Mk(o, u, f, g, c) EXCEPT !.fg = x] = Mk(o, u, x, g, c)
         /\ [Mk(o, u, f, g, c) EXCEPT !.bg = x] = Mk(o, u, f, x, c)
         /\ [Mk(o, u, f, g, c) EXCEPT !.underline_color = x] = Mk(o, u, f, g, x)
BY DEF Mk, WithFlag

\* A parameter that is no color is one round.
LEMMA PlainRound ==
  ASSUME NEW b, NEW params \in Parameters, NEW k \in Nat, k + 1 <= Len(params), NEW a,
         Reached(b, params, k, a), ~IsExtended(First(params, k + 1))
  PROVE  Reached(b, params, k + 1, Effect(a, params, k + 1))
<1>1. Len(params) \in Nat /\ k + 1 \in 1..Len(params) /\ (k + 1) - 1 = k
  BY DEF Parameters
<1>2. Loop(b, params)[k + 1] = Round(Loop(b, params)[k], params, k + 1)
  BY <1>1, LoopRounds
<1>3. Loop(b, params)[k + 1] = Round([style |-> a, skip |-> 0], params, k + 1)
  BY <1>2 DEF Reached
<1>4. Consumed(params, k + 1) = 1
  BY Zenon DEF Consumed
<1>. QED  BY <1>3, <1>4 DEF Reached, Round

\* Parameters that are skipped leave the style alone.
LEMMA SkippedRounds ==
  ASSUME NEW b, NEW params \in Parameters, NEW k \in Nat, NEW n \in Nat,
         k + n <= Len(params), NEW a, Loop(b, params)[k] = [style |-> a, skip |-> n]
  PROVE  Reached(b, params, k + n, a)
<1>. DEFINE f == Loop(b, params)
            G == {j \in 0..n : f[k + j] = [style |-> a, skip |-> n - j]}
<1>1. Len(params) \in Nat
  BY DEF Parameters
<1>2. \A i \in 1..Len(params) : f[i] = Round(f[i - 1], params, i)
  BY <1>1, LoopRounds
<1>3. f[k] = [style |-> a, skip |-> n]
  OBVIOUS
<1>. HIDE DEF f
<1>4. 0 \in G
  BY <1>3
<1>5. ASSUME NEW j \in 0..n - 1, j \in G PROVE j + 1 \in G
  <2>1. k + (j + 1) \in 1..Len(params) /\ (k + (j + 1)) - 1 = k + j /\ n - j > 0
    BY <1>1
  <2>2. f[k + (j + 1)] = Round(f[k + j], params, k + (j + 1))
    BY <1>2, <2>1
  <2>3. f[k + j] = [style |-> a, skip |-> n - j]
    BY <1>5
  <2>4. f[k + (j + 1)] = [style |-> a, skip |-> (n - j) - 1]
    BY <2>1, <2>2, <2>3 DEF Round
  <2>. QED  BY <2>4
<1>6. 0..n \subseteq G
  <2>. HIDE DEF G
  <2>. QED  BY <1>4, <1>5, Induction
<1>7. n \in G /\ n - n = 0
  <2>. HIDE DEF G
  <2>. QED  BY <1>6
<1>8. f[k + n] = [style |-> a, skip |-> n - n]
  BY <1>7
<1>. QED  BY <1>7, <1>8 DEF Reached, f

\* The color of n parameters at k + 1
LEMMA ColorRounds ==
  ASSUME NEW b, NEW params \in Parameters, NEW k \in Nat, NEW n \in Nat,
         k + 1 + n <= Len(params), NEW a, Reached(b, params, k, a),
         IsExtended(First(params, k + 1)), Extended(params, k + 1).more = n
  PROVE  Reached(b, params, k + 1 + n, Effect(a, params, k + 1))
<1>1. Len(params) \in Nat /\ k + 1 \in 1..Len(params) /\ (k + 1) - 1 = k /\ k + 1 \in Nat
  BY DEF Parameters
<1>2. Loop(b, params)[k + 1] = Round(Loop(b, params)[k], params, k + 1)
  BY <1>1, LoopRounds
<1>3. Loop(b, params)[k + 1] = Round([style |-> a, skip |-> 0], params, k + 1)
  BY <1>2 DEF Reached
<1>4. Consumed(params, k + 1) - 1 = n
  BY DEF Consumed
<1>5. Loop(b, params)[k + 1] = [style |-> Effect(a, params, k + 1), skip |-> n]
  BY <1>3, <1>4 DEF Round
<1>. QED  BY <1>1, <1>5, SkippedRounds

\* Colors in parameters of their own, as write_color_to writes them
LEMMA ExtendedPlain ==
  ASSUME NEW params \in Parameters, NEW i \in Nat, i >= 1, Len(params[i]) = 1
  PROVE  /\ i + 2 <= Len(params) /\ First(params, i + 1) = 5 =>
              Extended(params, i) = [color |-> <<Byte(First(params, i + 2))>>, more |-> 2]
         /\ i + 4 <= Len(params) /\ First(params, i + 1) = 2 =>
              Extended(params, i) =
                [color |-> <<Byte(First(params, i + 2)), Byte(First(params, i + 3)),
                             Byte(First(params, i + 4))>>, more |-> 4]
<1>. DEFINE sub == params[i]
            mode == IF i < Len(params) THEN First(params, i + 1) ELSE 0
            v1 == [color |-> <<Byte(sub[3])>>, more |-> 0]
            v2 == [color |-> <<Byte(sub[4]), Byte(sub[5]), Byte(sub[6])>>, more |-> 0]
            v3 == [color |-> <<Byte(sub[3]), Byte(sub[4]), Byte(sub[5])>>, more |-> 0]
            v4 == [color |-> <<Byte(First(params, i + 2))>>, more |-> 2]
            v5 == [color |-> <<Byte(First(params, i + 2)), Byte(First(params, i + 3)),
                               Byte(First(params, i + 4))>>, more |-> 4]
            v6 == [color |-> << >>, more |-> 0]
            e == Extended(params, i)
<1>1. e = CASE Len(sub) >= 3 /\ sub[2] = 5 -> v1
            [] Len(sub) >= 6 /\ sub[2] = 2 -> v2
            [] Len(sub) = 5 /\ sub[2] = 2 -> v3
            [] Len(sub) <= 1 /\ mode = 5 /\ i + 2 <= Len(params) -> v4
            [] Len(sub) <= 1 /\ mode = 2 /\ i + 4 <= Len(params) -> v5
            [] OTHER -> v6
  BY Zenon DEF Extended
<1>2. Len(sub) = 1 /\ Len(params) \in Nat
  BY DEF Parameters
<1>3. /\ i + 2 <= Len(params) /\ First(params, i + 1) = 5 => mode = 5
      /\ i + 4 <= Len(params) /\ First(params, i + 1) = 2 => mode = 2
  BY <1>2
<1>. HIDE DEF sub, mode, v1, v2, v3, v4, v5, v6, e
<1>4. /\ mode = 5 /\ i + 2 <= Len(params) => e = v4
      /\ mode = 2 /\ i + 4 <= Len(params) => e = v5
  BY <1>1, <1>2
<1>. QED  BY <1>3, <1>4 DEF e, v4, v5

\* Flags that a parameter alone sets
PlainFlags == {1, 2, 3, 5, 7, 8, 9}

\* The parts of write_sgr_with_reset_to, each after the ones before it
LEMMA FlagChunk ==
  ASSUME NEW b, NEW params \in Parameters, NEW k, NEW s,
         NEW p \in PlainFlags, At(params, k, FlagParam(s, p)),
         NEW o, NEW u, NEW f, NEW g, NEW c, Reached(b, params, k, Mk(o, u, f, g, c))
  PROVE  Reached(b, params, k + Len(FlagParam(s, p)),
                 Mk(o \cup ({FlagOf[p]} \cap s.on), u, f, g, c))
<1>1. CASE FlagOf[p] \notin s.on
  <2>1. FlagParam(s, p) = << >> /\ k \in Nat
    BY <1>1, Zenon DEF FlagParam, At
  <2>2. o \cup ({FlagOf[p]} \cap s.on) = o
    BY <1>1
  <2>3. k + Len(FlagParam(s, p)) = k
    BY <2>1
  <2>. QED  BY <2>2, <2>3
<1>2. CASE FlagOf[p] \in s.on
  <2>1. FlagParam(s, p) = << <<p>> >>
    BY <1>2 DEF FlagParam, Plain
  <2>2. k \in Nat /\ k + 1 <= Len(params) /\ params[k + 1] = <<p>> /\ Len(params) \in Nat
    BY <2>1 DEF At, Parameters
  <2>3. First(params, k + 1) = p
    BY <2>2 DEF First
  <2>4. Effect(Mk(o, u, f, g, c), params, k + 1) = WithFlag(Mk(o, u, f, g, c), FlagOf[p])
    <3>1. p \in Nat /\ p >= 1 /\ p <= 9 /\ p # 4
      BY DEF PlainFlags
    <3>. QED  BY <2>3, <3>1, EffectArms
  <2>5. Effect(Mk(o, u, f, g, c), params, k + 1) = Mk(o \cup {FlagOf[p]}, u, f, g, c)
    BY <2>4, MkExcept
  <2>6. ~IsExtended(First(params, k + 1))
    BY <2>3 DEF IsExtended, PlainFlags
  <2>7. Reached(b, params, k + 1, Mk(o \cup {FlagOf[p]}, u, f, g, c))
    BY <2>2, <2>5, <2>6, PlainRound
  <2>8. o \cup ({FlagOf[p]} \cap s.on) = o \cup {FlagOf[p]}
    BY <1>2
  <2>9. k + Len(FlagParam(s, p)) = k + 1
    BY <2>1
  <2>. QED  BY <2>7, <2>8, <2>9
<1>. QED  BY <1>1, <1>2

LEMMA UnderlineChunk ==
  ASSUME NEW b, NEW params \in Parameters, NEW k, NEW w \in 0..5,
         At(params, k, UnderlineParams(w)),
         NEW o, NEW f, NEW g, NEW c, Reached(b, params, k, Mk(o, 0, f, g, c))
  PROVE  Reached(b, params, k + Len(UnderlineParams(w)), Mk(o, w, f, g, c))
<1>. DEFINE sub == IF w = 1 THEN <<4>> ELSE <<4, w>>
<1>1. CASE w = 0
  <2>1. UnderlineParams(w) = << >> /\ k \in Nat
    BY <1>1 DEF UnderlineParams, At
  <2>2. k + Len(UnderlineParams(w)) = k
    BY <2>1
  <2>. QED  BY <1>1, <2>2
<1>2. CASE w # 0
  <2>1. UnderlineParams(w) = <<sub>>
    BY <1>2 DEF UnderlineParams, Plain
  <2>2. sub # << >> /\ sub[1] = 4
    OBVIOUS
  <2>3. UnderlineOf(sub) = w
    <3>1. CASE w = 1
      BY <3>1 DEF UnderlineOf
    <3>2. CASE w # 1
      <4>1. Len(sub) = 2 /\ sub[2] = w
        BY <3>2
      <4>2. Byte(w) = w /\ w <= 5
        BY DEF Byte
      <4>. HIDE DEF sub
      <4>. QED  BY <4>1, <4>2 DEF UnderlineOf
    <3>. QED  BY <3>1, <3>2
  <2>. HIDE DEF sub
  <2>4. k \in Nat /\ k + 1 <= Len(params) /\ params[k + 1] = sub /\ Len(params) \in Nat
    BY <2>1 DEF At, Parameters
  <2>5. First(params, k + 1) = 4
    BY <2>2, <2>4 DEF First
  <2>6. Effect(Mk(o, 0, f, g, c), params, k + 1)
          = [Mk(o, 0, f, g, c) EXCEPT !.underline = UnderlineOf(params[k + 1])]
    BY <2>5, EffectArms
  <2>7. Effect(Mk(o, 0, f, g, c), params, k + 1) = Mk(o, w, f, g, c)
    <3>1. [Mk(o, 0, f, g, c) EXCEPT !.underline = w] = Mk(o, w, f, g, c)
      BY DEF Mk
    <3>2. UnderlineOf(params[k + 1]) = w
      BY <2>3, <2>4
    <3>. QED  BY <2>6, <3>1, <3>2
  <2>8. ~IsExtended(First(params, k + 1))
    BY <2>5 DEF IsExtended
  <2>9. Reached(b, params, k + 1, Mk(o, w, f, g, c))
    BY <2>4, <2>7, <2>8, PlainRound
  <2>10. k + Len(UnderlineParams(w)) = k + 1
    BY <2>1
  <2>. QED  BY <2>9, <2>10
<1>. QED  BY <1>1, <1>2

LEMMA PlainParts ==
  ASSUME NEW q, Len(q) \in Nat
  PROVE  Len(Plain(q)) = Len(q) /\ \A j \in 1..Len(q) : Plain(q)[j] = <<q[j]>>
BY DEF Plain

\* A color of the long form: the loop skips its parameters.
LEMMA LongColor ==
  ASSUME NEW b, NEW params \in Parameters, NEW k, NEW x \in {38, 48, 58},
         NEW color \in Color, color # << >>, NEW chunk,
         \/ Len(color) = 1 /\ chunk = Plain(<<x, 5>> \o color)
         \/ Len(color) = 3 /\ chunk = Plain(<<x, 2>> \o color),
         At(params, k, chunk), NEW a, Reached(b, params, k, a)
  PROVE  /\ k + 1 \in Nat /\ First(params, k + 1) = x
         /\ \A old : ColorOf(params, k + 1, old) = color
         /\ Reached(b, params, k + Len(chunk), Effect(a, params, k + 1))
<1>0. k \in Nat /\ Len(params) \in Nat /\ color \in Seq(U8)
  BY DEF At, Parameters, Color
<1>1. CASE Len(color) = 1 /\ chunk = Plain(<<x, 5>> \o color)
  <2>1. PICK n \in U8 : color = <<n>>
    BY <1>0, <1>1
  <2>. DEFINE q == <<x, 5>> \o <<n>>
  <2>2. Len(q) = 3 /\ q[1] = x /\ q[2] = 5 /\ q[3] = n
    OBVIOUS
  <2>3. Len(chunk) = 3 /\ chunk[1] = <<x>> /\ chunk[2] = <<5>> /\ chunk[3] = <<n>>
    <3>1. chunk = Plain(q)
      BY <1>1, <2>1
    <3>. HIDE DEF q
    <3>. QED  BY <2>2, <3>1, PlainParts
  <2>4. /\ k + 3 <= Len(params)
        /\ params[k + 1] = <<x>> /\ params[k + 2] = <<5>> /\ params[k + 3] = <<n>>
    BY <1>0, <2>3, SMTT(30) DEF At
  <2>5. /\ First(params, k + 1) = x /\ First(params, k + 2) = 5 /\ First(params, k + 3) = n
        /\ Len(params[k + 1]) = 1
    BY <2>4 DEF First
  <2>6. Byte(First(params, k + 3)) = n
    BY <2>5, ByteType
  <2>7. k + 1 \in Nat /\ k + 1 >= 1 /\ (k + 1) + 2 = k + 3 /\ (k + 1) + 1 = k + 2
    BY <1>0
  <2>8. Extended(params, k + 1) = [color |-> <<Byte(First(params, k + 3))>>, more |-> 2]
    BY <2>4, <2>5, <2>7, ExtendedPlain
  <2>9. Extended(params, k + 1).color = color /\ Extended(params, k + 1).more = 2
    BY <2>1, <2>6, <2>8
  <2>10. Reached(b, params, k + 1 + 2, Effect(a, params, k + 1))
    <3>1. IsExtended(First(params, k + 1)) /\ 2 \in Nat /\ k + 1 + 2 <= Len(params)
      BY <1>0, <2>4, <2>5, SMTT(30) DEF IsExtended
    <3>. QED  BY <1>0, <2>9, <3>1, ColorRounds
  <2>11. k + Len(chunk) = k + 1 + 2
    BY <1>0, <2>3
  <2>. QED  BY <2>5, <2>7, <2>9, <2>10, <2>11 DEF ColorOf
<1>2. CASE Len(color) = 3 /\ chunk = Plain(<<x, 2>> \o color)
  <2>1. PICK l, m, n \in U8 : color = <<l, m, n>>
    BY <1>0, <1>2, SMTT(30)
  <2>. DEFINE q == <<x, 2>> \o <<l, m, n>>
  <2>2. Len(q) = 5 /\ q[1] = x /\ q[2] = 2 /\ q[3] = l /\ q[4] = m /\ q[5] = n
    OBVIOUS
  <2>3. /\ Len(chunk) = 5 /\ chunk[1] = <<x>> /\ chunk[2] = <<2>> /\ chunk[3] = <<l>>
        /\ chunk[4] = <<m>> /\ chunk[5] = <<n>>
    <3>1. chunk = Plain(q)
      BY <1>2, <2>1
    <3>. HIDE DEF q
    <3>. QED  BY <2>2, <3>1, PlainParts
  <2>4. /\ k + 5 <= Len(params)
        /\ params[k + 1] = <<x>> /\ params[k + 2] = <<2>> /\ params[k + 3] = <<l>>
        /\ params[k + 4] = <<m>> /\ params[k + 5] = <<n>>
    <3>1. k + 5 <= Len(params) /\ \A j \in 1..5 : params[k + j] = chunk[j]
      BY <2>3, Zenon DEF At
    <3>2. 1 \in 1..5 /\ 2 \in 1..5 /\ 3 \in 1..5 /\ 4 \in 1..5 /\ 5 \in 1..5
      OBVIOUS
    <3>. QED  BY <2>3, <3>1, <3>2, Zenon
  <2>5. /\ First(params, k + 1) = x /\ First(params, k + 2) = 2 /\ First(params, k + 3) = l
        /\ First(params, k + 4) = m /\ First(params, k + 5) = n /\ Len(params[k + 1]) = 1
    BY <2>4 DEF First
  <2>6. /\ Byte(First(params, k + 3)) = l /\ Byte(First(params, k + 4)) = m
        /\ Byte(First(params, k + 5)) = n
    BY <2>5, ByteType
  <2>7. /\ k + 1 \in Nat /\ k + 1 >= 1 /\ (k + 1) + 2 = k + 3 /\ (k + 1) + 1 = k + 2
        /\ (k + 1) + 3 = k + 4 /\ (k + 1) + 4 = k + 5
    BY <1>0
  <2>8. Extended(params, k + 1) =
          [color |-> <<Byte(First(params, k + 3)), Byte(First(params, k + 4)),
                       Byte(First(params, k + 5))>>, more |-> 4]
    BY <2>4, <2>5, <2>7, ExtendedPlain, ZenonT(60)
  <2>9. Extended(params, k + 1).color = color /\ Extended(params, k + 1).more = 4
    BY <2>1, <2>6, <2>8
  <2>10. Reached(b, params, k + 1 + 4, Effect(a, params, k + 1))
    <3>1. IsExtended(First(params, k + 1)) /\ 4 \in Nat /\ k + 1 + 4 <= Len(params)
      BY <1>0, <2>4, <2>5, SMTT(30) DEF IsExtended
    <3>. QED  BY <1>0, <2>9, <3>1, ColorRounds
  <2>11. k + Len(chunk) = k + 1 + 4
    BY <1>0, <2>3
  <2>. QED  BY <2>5, <2>7, <2>9, <2>10, <2>11 DEF ColorOf
<1>. QED  BY <1>1, <1>2

\* None, one of the 16 colors, one of the others, or red, green and blue
LEMMA ColorCases ==
  ASSUME NEW color \in Color
  PROVE  \/ color = << >>
         \/ color # << >> /\ Len(color) = 1 /\ \E n \in U8 : color = <<n>> /\ color[1] = n
         \/ color # << >> /\ Len(color) = 3
<1>1. color \in Seq(U8) /\ Len(color) \in {0, 1, 3}
  BY DEF Color
<1>. QED  BY <1>1

\* Style::write_color_to, by the kinds of color
ColorForms(color, base, bright, x, chunk) ==
  /\ color = << >> => chunk = << >>
  /\ \A n \in U8 : color = <<n>> /\ n < 8 => chunk = << <<base + n>> >>
  /\ \A n \in U8 : color = <<n>> /\ n >= 8 /\ n < 16 => chunk = << <<bright + n - 8>> >>
  /\ \A n \in U8 : color = <<n>> /\ n >= 16 => chunk = Plain(<<x, 5>> \o color)
  /\ Len(color) = 3 => chunk = Plain(<<x, 2>> \o color)

LEMMA ColorParamsArms ==
  ASSUME NEW color \in Color, NEW base, NEW bright, NEW x
  PROVE  ColorForms(color, base, bright, x, ColorParams(color, base, bright, x))
<1>. DEFINE n == color[1]
            v1 == Plain(<<base + n>>)
            v2 == Plain(<<bright + n - 8>>)
            v3 == Plain(<<x, 5>> \o color)
            v4 == Plain(<<x, 2>> \o color)
            m == Len(color)
            e == ColorParams(color, base, bright, x)
<1>1. e = CASE color = << >> -> << >> [] m = 1 /\ n < 8 -> v1 [] m = 1 /\ n \in 8..15 -> v2
            [] m = 1 /\ n >= 16 -> v3 [] m = 3 -> v4
  BY Zenon DEF ColorParams
<1>2. color = << >> => e = << >>
  <2>1. color = << >> => m = 0
    OBVIOUS
  <2>. HIDE DEF v1, v2, v3, v4, m, e, n
  <2>. QED  BY <1>1, <2>1
<1>3. m = 3 => e = v4
  <2>1. m = 3 => color # << >>
    OBVIOUS
  <2>. HIDE DEF v1, v2, v3, v4, m, e, n
  <2>. QED  BY <1>1, <2>1
<1>4. ASSUME NEW y \in U8, color = <<y>>
      PROVE  /\ y < 8 => e = v1
             /\ y >= 8 /\ y < 16 => e = v2
             /\ y >= 16 => e = v3
  <2>1. n = y /\ y \in Nat /\ m = 1 /\ color # << >>
    BY <1>4, U8Type
  <2>. HIDE DEF v1, v2, v3, v4, m, e, n
  <2>. QED  BY <1>1, <2>1
<1>5. ASSUME NEW y \in U8, color = <<y>>
      PROVE  v1 = << <<base + y>> >> /\ v2 = << <<bright + y - 8>> >>
  BY <1>5 DEF Plain
<1>. QED  BY <1>2, <1>3, <1>4, <1>5 DEF ColorForms

LEMMA UnderlineColorArms ==
  ASSUME NEW color \in Color
  PROVE  /\ color = << >> => UnderlineColorParams(color) = << >>
         /\ Len(color) = 1 => UnderlineColorParams(color) = Plain(<<58, 5>> \o color)
         /\ Len(color) = 3 => UnderlineColorParams(color) = Plain(<<58, 2>> \o color)
<1>. DEFINE v1 == Plain(<<58, 5>> \o color)
            v2 == Plain(<<58, 2>> \o color)
            m == Len(color)
            d == UnderlineColorParams(color)
<1>1. d = CASE color = << >> -> << >> [] m = 1 -> v1 [] m = 3 -> v2
  BY Zenon DEF UnderlineColorParams
<1>2. m = 1 \/ m = 3 => color # << >>
  OBVIOUS
<1>. HIDE DEF v1, v2, m, d
<1>3. (color = << >> => d = << >>) /\ (m = 1 => d = v1) /\ (m = 3 => d = v2)
  BY <1>1, <1>2
<1>. QED  BY <1>3 DEF v1, v2, m, d

\* write_color_to writes what apply_sgr reads for the foreground...
LEMMA FgChunk ==
  ASSUME NEW b, NEW params \in Parameters, NEW k, NEW color \in Color,
         At(params, k, ColorParams(color, 30, 90, 38)),
         NEW o, NEW u, NEW g, NEW c, Reached(b, params, k, Mk(o, u, << >>, g, c))
  PROVE  Reached(b, params, k + Len(ColorParams(color, 30, 90, 38)), Mk(o, u, color, g, c))
<1>. DEFINE chunk == ColorParams(color, 30, 90, 38)
            a == Mk(o, u, << >>, g, c)
<1>0. k \in Nat /\ Len(params) \in Nat
  BY DEF At, Parameters
<1>a. ColorForms(color, 30, 90, 38, chunk)
  BY ColorParamsArms, Zenon
<1>b. /\ color = << >> => chunk = << >>
      /\ \A n \in U8 : color = <<n>> /\ n < 8 => chunk = << <<30 + n>> >>
      /\ \A n \in U8 : color = <<n>> /\ n >= 8 /\ n < 16 => chunk = << <<90 + n - 8>> >>
      /\ \A n \in U8 : color = <<n>> /\ n >= 16 => chunk = Plain(<<38, 5>> \o color)
      /\ Len(color) = 3 => chunk = Plain(<<38, 2>> \o color)
  BY <1>a, Zenon DEF ColorForms
<1>. HIDE DEF chunk
<1>c. At(params, k, chunk)
  BY DEF chunk
<1>1. CASE color = << >>
  <2>1. chunk = << >>
    BY <1>1, <1>b
  <2>2. k + Len(chunk) = k
    BY <1>0, <2>1
  <2>. QED  BY <1>1, <2>2 DEF chunk
<1>2. ASSUME NEW n \in U8, n < 16, color = <<n>>
      PROVE  Reached(b, params, k + Len(chunk), Mk(o, u, color, g, c))
  <2>. DEFINE x == IF n < 8 THEN 30 + n ELSE 90 + n - 8
  <2>0. n \in Nat
    BY U8Type
  <2>1. chunk = << <<x>> >>
    BY <1>2, <2>0, <1>b
  <2>2. /\ x \in Nat
        /\ (x >= 30 /\ x <= 37 /\ x - 30 = n) \/ (x >= 90 /\ x <= 97 /\ x - 82 = n)
    BY <1>2, <2>0
  <2>. HIDE DEF x
  <2>3. k + 1 <= Len(params) /\ params[k + 1] = <<x>> /\ k + Len(chunk) = k + 1
    BY <1>0, <1>c, <2>1 DEF At
  <2>4. First(params, k + 1) = x
    BY <2>3 DEF First
  <2>5. Effect(a, params, k + 1) = [a EXCEPT !.fg = <<n>>]
    BY <2>2, <2>4, EffectArms, SMTT(30)
  <2>6. Effect(a, params, k + 1) = Mk(o, u, color, g, c)
    BY <1>2, <2>5 DEF Mk
  <2>7. ~IsExtended(First(params, k + 1))
    BY <2>2, <2>4 DEF IsExtended
  <2>. QED  BY <1>0, <2>3, <2>6, <2>7, PlainRound DEF chunk
<1>3. ASSUME \/ Len(color) = 1 /\ chunk = Plain(<<38, 5>> \o color)
             \/ Len(color) = 3 /\ chunk = Plain(<<38, 2>> \o color),
             color # << >>
      PROVE  Reached(b, params, k + Len(chunk), Mk(o, u, color, g, c))
  <2>. HIDE DEF chunk, a
  <2>1. At(params, k, chunk) /\ Reached(b, params, k, a)
    BY DEF chunk, a
  <2>2. /\ k + 1 \in Nat /\ First(params, k + 1) = 38
        /\ \A old : ColorOf(params, k + 1, old) = color
        /\ Reached(b, params, k + Len(chunk), Effect(a, params, k + 1))
    BY <1>3, <2>1, LongColor, ZenonT(60)
  <2>3. Effect(a, params, k + 1) = [a EXCEPT !.fg = ColorOf(params, k + 1, a.fg)]
    BY <2>2, EffectArms
  <2>4. ColorOf(params, k + 1, a.fg) = color
    BY <2>2
  <2>5. Effect(a, params, k + 1) = Mk(o, u, color, g, c)
    BY <2>3, <2>4 DEF Mk, a
  <2>. QED  BY <2>2, <2>5 DEF chunk
<1>4. CASE Len(color) = 1
  <2>1. PICK n \in U8 : color = <<n>> /\ color # << >>
    BY <1>4, ColorCases
  <2>2. n \in Nat
    BY U8Type
  <2>3. CASE n < 16
    BY <1>2, <2>1, <2>3 DEF chunk
  <2>4. CASE n >= 16
    <3>1. chunk = Plain(<<38, 5>> \o color)
      BY <1>b, <2>1, <2>4
    <3>. QED  BY <1>3, <1>4, <2>1, <3>1 DEF chunk
  <2>. QED  BY <2>2, <2>3, <2>4
<1>5. CASE Len(color) = 3 /\ color # << >>
  BY <1>b, <1>3, <1>5 DEF chunk
<1>. QED  BY <1>1, <1>4, <1>5, ColorCases DEF chunk

\* ...and for the background.
LEMMA BgChunk ==
  ASSUME NEW b, NEW params \in Parameters, NEW k, NEW color \in Color,
         At(params, k, ColorParams(color, 40, 100, 48)),
         NEW o, NEW u, NEW f, NEW c, Reached(b, params, k, Mk(o, u, f, << >>, c))
  PROVE  Reached(b, params, k + Len(ColorParams(color, 40, 100, 48)), Mk(o, u, f, color, c))
<1>. DEFINE chunk == ColorParams(color, 40, 100, 48)
            a == Mk(o, u, f, << >>, c)
<1>0. k \in Nat /\ Len(params) \in Nat
  BY DEF At, Parameters
<1>a. ColorForms(color, 40, 100, 48, chunk)
  BY ColorParamsArms, Zenon
<1>b. /\ color = << >> => chunk = << >>
      /\ \A n \in U8 : color = <<n>> /\ n < 8 => chunk = << <<40 + n>> >>
      /\ \A n \in U8 : color = <<n>> /\ n >= 8 /\ n < 16 => chunk = << <<100 + n - 8>> >>
      /\ \A n \in U8 : color = <<n>> /\ n >= 16 => chunk = Plain(<<48, 5>> \o color)
      /\ Len(color) = 3 => chunk = Plain(<<48, 2>> \o color)
  BY <1>a, Zenon DEF ColorForms
<1>. HIDE DEF chunk
<1>c. At(params, k, chunk)
  BY DEF chunk
<1>1. CASE color = << >>
  <2>1. chunk = << >>
    BY <1>1, <1>b
  <2>2. k + Len(chunk) = k
    BY <1>0, <2>1
  <2>. QED  BY <1>1, <2>2 DEF chunk
<1>2. ASSUME NEW n \in U8, n < 16, color = <<n>>
      PROVE  Reached(b, params, k + Len(chunk), Mk(o, u, f, color, c))
  <2>. DEFINE x == IF n < 8 THEN 40 + n ELSE 100 + n - 8
  <2>0. n \in Nat
    BY U8Type
  <2>1. chunk = << <<x>> >>
    BY <1>2, <2>0, <1>b
  <2>2. /\ x \in Nat
        /\ (x >= 40 /\ x <= 47 /\ x - 40 = n) \/ (x >= 100 /\ x <= 107 /\ x - 92 = n)
    BY <1>2, <2>0
  <2>. HIDE DEF x
  <2>3. k + 1 <= Len(params) /\ params[k + 1] = <<x>> /\ k + Len(chunk) = k + 1
    BY <1>0, <1>c, <2>1 DEF At
  <2>4. First(params, k + 1) = x
    BY <2>3 DEF First
  <2>5. Effect(a, params, k + 1) = [a EXCEPT !.bg = <<n>>]
    <3>. HIDE DEF a
    <3>1. CASE x >= 40 /\ x <= 47 /\ x - 40 = n
      BY <2>2, <2>4, <3>1, EffectArms
    <3>2. CASE x >= 100 /\ x <= 107 /\ x - 92 = n
      BY <2>2, <2>4, <3>2, EffectArms, SMTT(30)
    <3>. QED  BY <2>2, <3>1, <3>2
  <2>6. Effect(a, params, k + 1) = Mk(o, u, f, color, c)
    BY <1>2, <2>5 DEF Mk
  <2>7. ~IsExtended(First(params, k + 1))
    BY <2>2, <2>4 DEF IsExtended
  <2>. QED  BY <1>0, <2>3, <2>6, <2>7, PlainRound DEF chunk
<1>3. ASSUME \/ Len(color) = 1 /\ chunk = Plain(<<48, 5>> \o color)
             \/ Len(color) = 3 /\ chunk = Plain(<<48, 2>> \o color),
             color # << >>
      PROVE  Reached(b, params, k + Len(chunk), Mk(o, u, f, color, c))
  <2>. HIDE DEF chunk, a
  <2>1. At(params, k, chunk) /\ Reached(b, params, k, a)
    BY DEF chunk, a
  <2>2. /\ k + 1 \in Nat /\ First(params, k + 1) = 48
        /\ \A old : ColorOf(params, k + 1, old) = color
        /\ Reached(b, params, k + Len(chunk), Effect(a, params, k + 1))
    BY <1>3, <2>1, LongColor, ZenonT(60)
  <2>3. Effect(a, params, k + 1) = [a EXCEPT !.bg = ColorOf(params, k + 1, a.bg)]
    BY <2>2, EffectArms
  <2>4. ColorOf(params, k + 1, a.bg) = color
    BY <2>2
  <2>5. Effect(a, params, k + 1) = Mk(o, u, f, color, c)
    BY <2>3, <2>4 DEF Mk, a
  <2>. QED  BY <2>2, <2>5 DEF chunk
<1>4. CASE Len(color) = 1
  <2>1. PICK n \in U8 : color = <<n>> /\ color # << >>
    BY <1>4, ColorCases
  <2>2. n \in Nat
    BY U8Type
  <2>3. CASE n < 16
    BY <1>2, <2>1, <2>3 DEF chunk
  <2>4. CASE n >= 16
    <3>1. chunk = Plain(<<48, 5>> \o color)
      BY <1>b, <2>1, <2>4
    <3>. QED  BY <1>3, <1>4, <2>1, <3>1 DEF chunk
  <2>. QED  BY <2>2, <2>3, <2>4
<1>5. CASE Len(color) = 3 /\ color # << >>
  BY <1>b, <1>3, <1>5 DEF chunk
<1>. QED  BY <1>1, <1>4, <1>5, ColorCases DEF chunk

LEMMA UnderlineColorChunk ==
  ASSUME NEW b, NEW params \in Parameters, NEW k, NEW color \in Color,
         At(params, k, UnderlineColorParams(color)),
         NEW o, NEW u, NEW f, NEW g, Reached(b, params, k, Mk(o, u, f, g, << >>))
  PROVE  Reached(b, params, k + Len(UnderlineColorParams(color)), Mk(o, u, f, g, color))
<1>. DEFINE chunk == UnderlineColorParams(color)
            a == Mk(o, u, f, g, << >>)
<1>0. k \in Nat /\ Len(params) \in Nat
  BY DEF At, Parameters
<1>1. CASE color = << >>
  <2>1. chunk = << >>
    BY <1>1, UnderlineColorArms, Zenon
  <2>2. k + Len(chunk) = k
    BY <1>0, <2>1
  <2>. QED  BY <1>1, <2>2
<1>2. CASE color # << >>
  <2>. HIDE DEF chunk, a
  <2>1. At(params, k, chunk) /\ Reached(b, params, k, a)
    BY DEF chunk, a
  <2>2. \/ Len(color) = 1 /\ chunk = Plain(<<58, 5>> \o color)
        \/ Len(color) = 3 /\ chunk = Plain(<<58, 2>> \o color)
    BY <1>2, UnderlineColorArms, ColorCases DEF chunk
  <2>3. /\ k + 1 \in Nat /\ First(params, k + 1) = 58
        /\ \A old : ColorOf(params, k + 1, old) = color
        /\ Reached(b, params, k + Len(chunk), Effect(a, params, k + 1))
    BY <1>2, <2>1, <2>2, LongColor, ZenonT(60)
  <2>4. Effect(a, params, k + 1)
          = [a EXCEPT !.underline_color = ColorOf(params, k + 1, a.underline_color)]
    BY <2>3, EffectArms
  <2>5. ColorOf(params, k + 1, a.underline_color) = color
    BY <2>3
  <2>6. Effect(a, params, k + 1) = Mk(o, u, f, g, color)
    BY <2>4, <2>5 DEF Mk, a
  <2>. QED  BY <2>3, <2>6 DEF chunk
<1>. QED  BY <1>1, <1>2

\* params starts with prefix.
Starts(prefix, params) ==
  /\ Len(prefix) <= Len(params)
  /\ \A j \in 1..Len(prefix) : params[j] = prefix[j]

\* A sequence put together of two parts has the first one, and then the second.
LEMMA StartsConcat ==
  ASSUME NEW params \in Parameters, NEW p \in Parameters, NEW q \in Parameters,
         Starts(p \o q, params)
  PROVE  /\ p \o q \in Parameters /\ Len(p) \in Nat
         /\ Starts(p, params) /\ At(params, Len(p), q) /\ Len(p \o q) = Len(p) + Len(q)
<1>1. /\ Len(p) \in Nat /\ Len(q) \in Nat /\ Len(params) \in Nat /\ p \o q \in Parameters
      /\ Len(p \o q) = Len(p) + Len(q)
  BY DEF Parameters
<1>2. \A j \in 1..Len(p) : (p \o q)[j] = p[j]
  BY DEF Parameters
<1>3. \A j \in 1..Len(q) : (p \o q)[Len(p) + j] = q[j]
  BY DEF Parameters
<1>. HIDE DEF Parameters
<1>4. Starts(p, params)
  <2>. SUFFICES ASSUME NEW j \in 1..Len(p) PROVE params[j] = p[j]
    BY <1>1 DEF Starts
  <2>1. j \in 1..Len(p \o q)
    BY <1>1
  <2>. QED  BY <1>2, <2>1 DEF Starts
<1>5. At(params, Len(p), q)
  <2>. SUFFICES ASSUME NEW j \in 1..Len(q) PROVE params[Len(p) + j] = q[j]
    BY <1>1 DEF Starts, At
  <2>1. Len(p) + j \in 1..Len(p \o q)
    BY <1>1
  <2>2. params[Len(p) + j] = (p \o q)[Len(p) + j]
    BY <2>1 DEF Starts
  <2>. QED  BY <1>3, <2>2
<1>. QED  BY <1>1, <1>4, <1>5

\* The chunks are parameters.
LEMMA ChunkTypes ==
  /\ Plain(<<0>>) \in Parameters
  /\ \A s : \A p \in 1..9 : FlagParam(s, p) \in Parameters
  /\ \A u \in 0..5 : UnderlineParams(u) \in Parameters
  /\ \A color \in Color : /\ ColorParams(color, 30, 90, 38) \in Parameters
                          /\ ColorParams(color, 40, 100, 48) \in Parameters
                          /\ UnderlineColorParams(color) \in Parameters
<1>1. \A n \in Nat : Plain(<<n>>) = << <<n>> >> /\ << <<n>> >> \in Parameters
  BY DEF Plain, Parameters
<1>2. << >> \in Parameters
  BY DEF Parameters
<1>3. ASSUME NEW s, NEW p \in 1..9 PROVE FlagParam(s, p) \in Parameters
  <2>1. p \in Nat
    OBVIOUS
  <2>2. Plain(<<p>>) \in Parameters
    BY <1>1, <2>1
  <2>. QED  BY <1>2, <2>2, Zenon DEF FlagParam
<1>4. ASSUME NEW u \in 0..5 PROVE UnderlineParams(u) \in Parameters
  <2>1. u \in Nat /\ << <<4, u>> >> \in Parameters
    BY DEF Parameters
  <2>2. UnderlineParams(u) \in {<< >>, Plain(<<4>>), << <<4, u>> >>}
    BY DEF UnderlineParams
  <2>. QED  BY <1>1, <1>2, <2>1, <2>2
<1>5. ASSUME NEW q \in Seq(Nat) PROVE Plain(q) \in Parameters
  BY DEF Plain, Parameters
<1>6. ASSUME NEW color \in Color
      PROVE  /\ Plain(<<38, 5>> \o color) \in Parameters
             /\ Plain(<<38, 2>> \o color) \in Parameters
             /\ Plain(<<48, 5>> \o color) \in Parameters
             /\ Plain(<<48, 2>> \o color) \in Parameters
             /\ Plain(<<58, 5>> \o color) \in Parameters
             /\ Plain(<<58, 2>> \o color) \in Parameters
  <2>1. color \in Seq(Nat)
    BY U8Type DEF Color
  <2>2. \A x, y \in Nat : <<x, y>> \o color \in Seq(Nat)
    BY <2>1
  <2>. QED  BY <1>5, <2>2
<1>7. ASSUME NEW color \in Color
      PROVE  /\ ColorParams(color, 30, 90, 38) \in Parameters
             /\ ColorParams(color, 40, 100, 48) \in Parameters
             /\ UnderlineColorParams(color) \in Parameters
  <2>0. /\ ColorForms(color, 30, 90, 38, ColorParams(color, 30, 90, 38))
        /\ ColorForms(color, 40, 100, 48, ColorParams(color, 40, 100, 48))
    BY ColorParamsArms, Zenon
  <2>1. CASE color = << >>
    BY <1>2, <2>0, <2>1, UnderlineColorArms DEF ColorForms
  <2>2. CASE Len(color) = 1
    <3>1. PICK n \in U8 : color = <<n>>
      BY <2>2, ColorCases
    <3>2. n \in Nat
      BY U8Type
    <3>3. UnderlineColorParams(color) \in Parameters
      BY <1>6, <2>2, UnderlineColorArms
    <3>4. CASE n < 8
      <4>1. /\ ColorParams(color, 30, 90, 38) = << <<30 + n>> >>
            /\ ColorParams(color, 40, 100, 48) = << <<40 + n>> >>
        BY <2>0, <3>1, <3>4 DEF ColorForms
      <4>. QED  BY <1>1, <3>2, <3>3, <4>1
    <3>5. CASE n >= 8 /\ n < 16
      <4>1. /\ ColorParams(color, 30, 90, 38) = << <<90 + n - 8>> >>
            /\ ColorParams(color, 40, 100, 48) = << <<100 + n - 8>> >>
        BY <2>0, <3>1, <3>5 DEF ColorForms
      <4>2. 90 + n - 8 \in Nat /\ 100 + n - 8 \in Nat
        BY <3>2
      <4>. QED  BY <1>1, <3>3, <4>1, <4>2
    <3>6. CASE n >= 16
      BY <1>6, <2>0, <3>1, <3>3, <3>6 DEF ColorForms
    <3>. QED  BY <3>2, <3>4, <3>5, <3>6
  <2>3. CASE Len(color) = 3
    BY <1>6, <2>0, <2>3, UnderlineColorArms DEF ColorForms
  <2>. QED  BY <2>1, <2>2, <2>3, ColorCases
<1>. QED  BY <1>1, <1>3, <1>4, <1>7

\* Whatever a style is, and whatever the terminal had before: the style that
\* write_sgr_with_reset_to writes is the one that apply_sgr makes of it. The proof
\* follows the loop through the parts of the sequence.
THEOREM RoundTrip ==
  ASSUME NEW s \in Style, NEW b
  PROVE  ApplySgr(b, WriteSgr(s)) = s
<1>. DEFINE c1 == Plain(<<0>>)
            c2 == FlagParam(s, 1)
            c3 == FlagParam(s, 2)
            c4 == FlagParam(s, 3)
            c5 == UnderlineParams(s.underline)
            c6 == FlagParam(s, 5)
            c7 == FlagParam(s, 7)
            c8 == FlagParam(s, 8)
            c9 == FlagParam(s, 9)
            c10 == ColorParams(s.fg, 30, 90, 38)
            c11 == ColorParams(s.bg, 40, 100, 48)
            c12 == UnderlineColorParams(s.underline_color)
            p1 == c1
            p2 == p1 \o c2
            p3 == p2 \o c3
            p4 == p3 \o c4
            p5 == p4 \o c5
            p6 == p5 \o c6
            p7 == p6 \o c7
            p8 == p7 \o c8
            p9 == p8 \o c9
            p10 == p9 \o c10
            p11 == p10 \o c11
            p12 == p11 \o c12
            w == WriteSgr(s)
            o2 == {} \cup ({FlagOf[1]} \cap s.on)
            o3 == o2 \cup ({FlagOf[2]} \cap s.on)
            o4 == o3 \cup ({FlagOf[3]} \cap s.on)
            o6 == o4 \cup ({FlagOf[5]} \cap s.on)
            o7 == o6 \cup ({FlagOf[7]} \cap s.on)
            o8 == o7 \cup ({FlagOf[8]} \cap s.on)
            o9 == o8 \cup ({FlagOf[9]} \cap s.on)
<1>1. w = p12
  BY DEF WriteSgr
<1>2. /\ s.on \subseteq Flags /\ s.underline \in 0..5 /\ s.fg \in Color /\ s.bg \in Color
      /\ s.underline_color \in Color
  BY StyleFields
<1>3. /\ c1 \in Parameters /\ c2 \in Parameters /\ c3 \in Parameters /\ c4 \in Parameters
      /\ c5 \in Parameters /\ c6 \in Parameters /\ c7 \in Parameters /\ c8 \in Parameters
      /\ c9 \in Parameters /\ c10 \in Parameters /\ c11 \in Parameters /\ c12 \in Parameters
  <2>1. /\ 1 \in 1..9 /\ 2 \in 1..9 /\ 3 \in 1..9 /\ 5 \in 1..9 /\ 7 \in 1..9 /\ 8 \in 1..9
        /\ 9 \in 1..9
    OBVIOUS
  <2>. QED  BY <1>2, <2>1, ChunkTypes, Zenon
<1>4. c1 = << <<0>> >> /\ Len(c1) = 1
  BY DEF Plain
<1>5. \A p, q \in Parameters : p \o q \in Parameters
  BY DEF Parameters
<1>. HIDE DEF c1, c2, c3, c4, c5, c6, c7, c8, c9, c10, c11, c12, w,
              p1, p2, p3, p4, p5, p6, p7, p8, p9, p10, p11, p12
<1>6. /\ p1 \in Parameters /\ p2 \in Parameters /\ p3 \in Parameters /\ p4 \in Parameters
      /\ p5 \in Parameters /\ p6 \in Parameters /\ p7 \in Parameters /\ p8 \in Parameters
      /\ p9 \in Parameters /\ p10 \in Parameters /\ p11 \in Parameters /\ p12 \in Parameters
      /\ w \in Parameters
  BY <1>1, <1>3, <1>5, Zenon DEF p1, p2, p3, p4, p5, p6, p7, p8, p9, p10, p11, p12
<1>7. Starts(p12, w)
  <2>1. Len(w) \in Nat
    BY <1>6 DEF Parameters
  <2>. QED  BY <1>1, <2>1 DEF Starts
<1>8. Starts(p11, w) /\ At(w, Len(p11), c12) /\ Len(p12) = Len(p11) + Len(c12)
  BY <1>3, <1>6, <1>7, StartsConcat DEF p12
<1>9. Starts(p10, w) /\ At(w, Len(p10), c11) /\ Len(p11) = Len(p10) + Len(c11)
  BY <1>3, <1>6, <1>8, StartsConcat DEF p11
<1>10. Starts(p9, w) /\ At(w, Len(p9), c10) /\ Len(p10) = Len(p9) + Len(c10)
  BY <1>3, <1>6, <1>9, StartsConcat DEF p10
<1>11. Starts(p8, w) /\ At(w, Len(p8), c9) /\ Len(p9) = Len(p8) + Len(c9)
  BY <1>3, <1>6, <1>10, StartsConcat DEF p9
<1>12. Starts(p7, w) /\ At(w, Len(p7), c8) /\ Len(p8) = Len(p7) + Len(c8)
  BY <1>3, <1>6, <1>11, StartsConcat DEF p8
<1>13. Starts(p6, w) /\ At(w, Len(p6), c7) /\ Len(p7) = Len(p6) + Len(c7)
  BY <1>3, <1>6, <1>12, StartsConcat DEF p7
<1>14. Starts(p5, w) /\ At(w, Len(p5), c6) /\ Len(p6) = Len(p5) + Len(c6)
  BY <1>3, <1>6, <1>13, StartsConcat DEF p6
<1>15. Starts(p4, w) /\ At(w, Len(p4), c5) /\ Len(p5) = Len(p4) + Len(c5)
  BY <1>3, <1>6, <1>14, StartsConcat DEF p5
<1>16. Starts(p3, w) /\ At(w, Len(p3), c4) /\ Len(p4) = Len(p3) + Len(c4)
  BY <1>3, <1>6, <1>15, StartsConcat DEF p4
<1>17. Starts(p2, w) /\ At(w, Len(p2), c3) /\ Len(p3) = Len(p2) + Len(c3)
  BY <1>3, <1>6, <1>16, StartsConcat DEF p3
<1>18. Starts(p1, w) /\ At(w, Len(p1), c2) /\ Len(p2) = Len(p1) + Len(c2)
  BY <1>3, <1>6, <1>17, StartsConcat DEF p2
<1>19. Len(w) \in Nat /\ 1 <= Len(w) /\ w[1] = <<0>>
  BY <1>4, <1>6, <1>18, SMTT(30) DEF Starts, Parameters, p1
<1>20. Reached(b, w, Len(p1), Mk({}, 0, << >>, << >>, << >>))
  <2>1. Reached(b, w, 0, b)
    BY <1>19, LoopRounds DEF Reached
  <2>2. First(w, 0 + 1) = 0
    BY <1>19 DEF First
  <2>3. Effect(b, w, 0 + 1) = DefaultStyle
    BY <2>2, EffectArms
  <2>4. Reached(b, w, 0 + 1, DefaultStyle)
    <3>1. ~IsExtended(First(w, 0 + 1)) /\ 0 \in Nat /\ 0 + 1 <= Len(w)
      BY <1>19, <2>2 DEF IsExtended
    <3>. QED  BY <1>6, <2>1, <2>3, <3>1, PlainRound
  <2>5. DefaultStyle = Mk({}, 0, << >>, << >>, << >>)
    BY DEF DefaultStyle, Mk
  <2>6. Len(p1) = 0 + 1
    BY <1>4 DEF p1
  <2>. QED  BY <2>4, <2>5, <2>6
<1>. HIDE DEF o2, o3, o4, o6, o7, o8, o9
<1>21. Reached(b, w, Len(p2), Mk(o2, 0, << >>, << >>, << >>))
  <2>1. w \in Parameters /\ At(w, Len(p1), FlagParam(s, 1))
    BY <1>6, <1>18 DEF c2
  <2>2. Reached(b, w, Len(p1) + Len(FlagParam(s, 1)),
                Mk({} \cup ({FlagOf[1]} \cap s.on), 0, << >>, << >>, << >>))
    <3>1. 1 \in PlainFlags
      BY DEF PlainFlags
    <3>. QED  BY <1>20, <2>1, <3>1, FlagChunk, Zenon
  <2>. QED  BY <1>18, <2>2 DEF c2, o2
<1>22. Reached(b, w, Len(p3), Mk(o3, 0, << >>, << >>, << >>))
  <2>1. w \in Parameters /\ At(w, Len(p2), FlagParam(s, 2))
    BY <1>6, <1>17 DEF c3
  <2>2. Reached(b, w, Len(p2) + Len(FlagParam(s, 2)),
                Mk(o2 \cup ({FlagOf[2]} \cap s.on), 0, << >>, << >>, << >>))
    <3>1. 2 \in PlainFlags
      BY DEF PlainFlags
    <3>. QED  BY <1>21, <2>1, <3>1, FlagChunk, Zenon
  <2>. QED  BY <1>17, <2>2 DEF c3, o3
<1>23. Reached(b, w, Len(p4), Mk(o4, 0, << >>, << >>, << >>))
  <2>1. w \in Parameters /\ At(w, Len(p3), FlagParam(s, 3))
    BY <1>6, <1>16 DEF c4
  <2>2. Reached(b, w, Len(p3) + Len(FlagParam(s, 3)),
                Mk(o3 \cup ({FlagOf[3]} \cap s.on), 0, << >>, << >>, << >>))
    <3>1. 3 \in PlainFlags
      BY DEF PlainFlags
    <3>. QED  BY <1>22, <2>1, <3>1, FlagChunk, Zenon
  <2>. QED  BY <1>16, <2>2 DEF c4, o4
<1>24. Reached(b, w, Len(p5), Mk(o4, s.underline, << >>, << >>, << >>))
  BY <1>6, <1>15, <1>23, <1>2, UnderlineChunk, Zenon DEF c5
<1>25. Reached(b, w, Len(p6), Mk(o6, s.underline, << >>, << >>, << >>))
  <2>1. w \in Parameters /\ At(w, Len(p5), FlagParam(s, 5))
    BY <1>6, <1>14 DEF c6
  <2>2. Reached(b, w, Len(p5) + Len(FlagParam(s, 5)),
                Mk(o4 \cup ({FlagOf[5]} \cap s.on), s.underline, << >>, << >>, << >>))
    <3>1. 5 \in PlainFlags
      BY DEF PlainFlags
    <3>. QED  BY <1>24, <2>1, <3>1, FlagChunk, Zenon
  <2>. QED  BY <1>14, <2>2 DEF c6, o6
<1>26. Reached(b, w, Len(p7), Mk(o7, s.underline, << >>, << >>, << >>))
  <2>1. w \in Parameters /\ At(w, Len(p6), FlagParam(s, 7))
    BY <1>6, <1>13 DEF c7
  <2>2. Reached(b, w, Len(p6) + Len(FlagParam(s, 7)),
                Mk(o6 \cup ({FlagOf[7]} \cap s.on), s.underline, << >>, << >>, << >>))
    <3>1. 7 \in PlainFlags
      BY DEF PlainFlags
    <3>. QED  BY <1>25, <2>1, <3>1, FlagChunk, Zenon
  <2>. QED  BY <1>13, <2>2 DEF c7, o7
<1>27. Reached(b, w, Len(p8), Mk(o8, s.underline, << >>, << >>, << >>))
  <2>1. w \in Parameters /\ At(w, Len(p7), FlagParam(s, 8))
    BY <1>6, <1>12 DEF c8
  <2>2. Reached(b, w, Len(p7) + Len(FlagParam(s, 8)),
                Mk(o7 \cup ({FlagOf[8]} \cap s.on), s.underline, << >>, << >>, << >>))
    <3>1. 8 \in PlainFlags
      BY DEF PlainFlags
    <3>. QED  BY <1>26, <2>1, <3>1, FlagChunk, Zenon
  <2>. QED  BY <1>12, <2>2 DEF c8, o8
<1>28. Reached(b, w, Len(p9), Mk(o9, s.underline, << >>, << >>, << >>))
  <2>1. w \in Parameters /\ At(w, Len(p8), FlagParam(s, 9))
    BY <1>6, <1>11 DEF c9
  <2>2. Reached(b, w, Len(p8) + Len(FlagParam(s, 9)),
                Mk(o8 \cup ({FlagOf[9]} \cap s.on), s.underline, << >>, << >>, << >>))
    <3>1. 9 \in PlainFlags
      BY DEF PlainFlags
    <3>. QED  BY <1>27, <2>1, <3>1, FlagChunk, Zenon
  <2>. QED  BY <1>11, <2>2 DEF c9, o9
<1>29. Reached(b, w, Len(p10), Mk(o9, s.underline, s.fg, << >>, << >>))
  <2>1. w \in Parameters /\ At(w, Len(p9), ColorParams(s.fg, 30, 90, 38))
    BY <1>6, <1>10 DEF c10
  <2>2. Reached(b, w, Len(p9) + Len(ColorParams(s.fg, 30, 90, 38)), Mk(o9, s.underline, s.fg, << >>, << >>))
    BY <1>2, <1>28, <2>1, FgChunk, ZenonT(60)
  <2>. QED  BY <1>10, <2>2 DEF c10
<1>30. Reached(b, w, Len(p11), Mk(o9, s.underline, s.fg, s.bg, << >>))
  <2>1. w \in Parameters /\ At(w, Len(p10), ColorParams(s.bg, 40, 100, 48))
    BY <1>6, <1>9 DEF c11
  <2>2. Reached(b, w, Len(p10) + Len(ColorParams(s.bg, 40, 100, 48)), Mk(o9, s.underline, s.fg, s.bg, << >>))
    BY <1>2, <1>29, <2>1, BgChunk, SMTT(90)
  <2>. QED  BY <1>9, <2>2 DEF c11
<1>31. Reached(b, w, Len(p12), Mk(o9, s.underline, s.fg, s.bg, s.underline_color))
  BY <1>6, <1>8, <1>30, <1>2, UnderlineColorChunk, Zenon DEF c12
<1>32. o9 = s.on
  <2>1. /\ FlagOf[1] = "bold" /\ FlagOf[2] = "dim" /\ FlagOf[3] = "italic"
        /\ FlagOf[5] = "blink" /\ FlagOf[7] = "inverse" /\ FlagOf[8] = "hidden"
        /\ FlagOf[9] = "strikethrough"
    BY DEF FlagOf
  <2>. QED  BY <1>2, <2>1 DEF o2, o3, o4, o6, o7, o8, o9, Flags
<1>33. Mk(s.on, s.underline, s.fg, s.bg, s.underline_color) = s
  BY DEF Mk, Style
<1>34. Loop(b, w)[Len(w)] = [style |-> s, skip |-> 0]
  BY <1>1, <1>31, <1>32, <1>33 DEF Reached
<1>35. w # << >>
  BY <1>19
<1>. QED  BY <1>34, <1>35 DEF ApplySgr, w

\* What the runs check of the current style, for every style
COROLLARY RoundTripBusy == current_style \in Style => SgrRoundTrip
BY RoundTrip DEF SgrRoundTrip

-----------------------------------------------------------------------------
(* The style table. *)

\* f lists the members of S, as far as n.
IsListing(f, S, n) ==
  f = [i \in 0..n |-> IF i = 0 THEN <<>>
                      ELSE IF i \in S THEN Append(f[i - 1], i) ELSE f[i - 1]]

LEMMA ListingExists ==
  ASSUME NEW S, NEW n \in Nat
  PROVE  \E f : IsListing(f, S, n)
<1>. DEFINE G == {k \in 0..n : \E f : IsListing(f, S, k)}
            next(i, old) == IF i \in S THEN Append(old, i) ELSE old
<1>1. 0 \in G
  <2>. DEFINE f == [i \in 0..0 |-> <<>>]
  <2>1. IsListing(f, S, 0)
    BY DEF IsListing
  <2>. QED  BY <2>1
<1>2. ASSUME NEW k \in 0..n - 1, k \in G PROVE k + 1 \in G
  <2>1. PICK f : IsListing(f, S, k)
    BY <1>2
  <2>. DEFINE g == [i \in 0..k + 1 |-> IF i = k + 1 THEN next(k + 1, f[k]) ELSE f[i]]
  <2>2. f = [i \in 0..k |-> IF i = 0 THEN <<>> ELSE next(i, f[i - 1])]
    BY <2>1 DEF IsListing
  <2>. HIDE DEF next
  <2>3. /\ \A i \in 0..k : g[i] = f[i]
        /\ g[k + 1] = next(k + 1, f[k])
    OBVIOUS
  <2>4. ASSUME NEW i \in 0..k + 1
        PROVE  g[i] = IF i = 0 THEN <<>> ELSE next(i, g[i - 1])
    <3>1. CASE i = k + 1
      <4>1. i - 1 = k /\ k \in 0..k /\ i # 0
        BY <3>1
      <4>. QED  BY <2>3, <3>1, <4>1
    <3>2. CASE i # k + 1
      <4>1. i \in 0..k /\ (i # 0 => i - 1 \in 0..k)
        BY <3>2
      <4>2. f[i] = IF i = 0 THEN <<>> ELSE next(i, f[i - 1])
        BY <2>2, <4>1
      <4>. QED  BY <2>3, <4>1, <4>2
    <3>. QED  BY <3>1, <3>2
  <2>5. g = [i \in 0..k + 1 |-> IF i = 0 THEN <<>> ELSE next(i, g[i - 1])]
    BY <2>4
  <2>6. IsListing(g, S, k + 1)
    BY <2>5 DEF IsListing, next
  <2>. QED  BY <2>6
<1>. HIDE DEF G
<1>3. 0..n \subseteq G
  BY <1>1, <1>2, Induction
<1>. QED  BY <1>3 DEF G

\* The slots that reclaim frees: members of S, each once, and none only if S has
\* none.
LEMMA AscendingLists ==
  ASSUME NEW S, NEW n \in Nat
  PROVE  /\ Ascending(S, n) \in Seq(1..n)
         /\ \A i \in 1..Len(Ascending(S, n)) : Ascending(S, n)[i] \in S
         /\ \A i, j \in 1..Len(Ascending(S, n)) :
              i # j => Ascending(S, n)[i] # Ascending(S, n)[j]
         /\ Ascending(S, n) = <<>> => \A i \in 1..n : i \notin S
<1>. DEFINE f == CHOOSE g : IsListing(g, S, n)
            Lists(k) == /\ f[k] \in Seq(1..k)
                        /\ \A i \in 1..Len(f[k]) : f[k][i] \in S
                        /\ \A i, j \in 1..Len(f[k]) : i # j => f[k][i] # f[k][j]
                        /\ f[k] = <<>> => \A i \in 1..k : i \notin S
            G == {k \in 0..n : Lists(k)}
<1>1. Ascending(S, n) = f[n]
  BY DEF Ascending, IsListing
<1>2. IsListing(f, S, n)
  BY ListingExists
<1>. HIDE DEF f
<1>3. \A i \in 0..n : f[i] = IF i = 0 THEN <<>>
                             ELSE IF i \in S THEN Append(f[i - 1], i) ELSE f[i - 1]
  BY <1>2 DEF IsListing
<1>4. 0 \in G
  <2>1. f[0] = <<>>
    BY <1>3
  <2>2. <<>> \in Seq(1..0) /\ Len(<<>>) = 0 /\ 1..0 = {} /\ 0 \in 0..n
    OBVIOUS
  <2>3. Lists(0)
    BY <2>1, <2>2, Zenon
  <2>. QED  BY <2>2, <2>3, Zenon
<1>5. ASSUME NEW k \in 0..n - 1, k \in G PROVE k + 1 \in G
  <2>. DEFINE old == f[k]
              new == f[k + 1]
  <2>1. new = IF k + 1 \in S THEN Append(old, k + 1) ELSE old
    <3>1. k + 1 \in 0..n /\ k + 1 # 0 /\ (k + 1) - 1 = k
      OBVIOUS
    <3>. QED  BY <1>3, <3>1
  <2>2. /\ old \in Seq(1..k) /\ \A i \in 1..Len(old) : old[i] \in S
        /\ \A i, j \in 1..Len(old) : i # j => old[i] # old[j]
        /\ old = <<>> => \A i \in 1..k : i \notin S
    BY <1>5
  <2>. HIDE DEF old, new
  <2>3. old \in Seq(1..k + 1) /\ Len(old) \in Nat
    BY <2>2
  <2>4. CASE k + 1 \notin S
    <3>1. new = old
      BY <2>1, <2>4
    <3>2. old = <<>> => \A i \in 1..k + 1 : i \notin S
      BY <2>2, <2>4
    <3>3. Lists(k + 1)
      BY <2>2, <2>3, <3>1, <3>2 DEF new
    <3>. QED  BY <3>3
  <2>5. CASE k + 1 \in S
    <3>1. new = Append(old, k + 1)
      BY <2>1, <2>5
    <3>2. /\ new \in Seq(1..k + 1) /\ Len(new) = Len(old) + 1 /\ new[Len(old) + 1] = k + 1
          /\ \A i \in 1..Len(old) : new[i] = old[i]
      BY <2>3, <3>1
    <3>3. \A i \in 1..Len(old) : old[i] # k + 1
      BY <2>2
    <3>0. \A i \in 1..Len(new) : i \in 1..Len(old) \/ i = Len(old) + 1
      BY <2>3, <3>2
    <3>4. \A i \in 1..Len(new) : new[i] \in S
      BY <2>2, <2>5, <3>0, <3>2, Zenon
    <3>5. ASSUME NEW i \in 1..Len(new), NEW j \in 1..Len(new), i # j
          PROVE  new[i] # new[j]
      <4>1. CASE i \in 1..Len(old) /\ j \in 1..Len(old)
        BY <2>2, <3>2, <3>5, <4>1, Zenon
      <4>2. CASE i \in 1..Len(old) /\ j = Len(old) + 1
        BY <3>2, <3>3, <4>2, Zenon
      <4>3. CASE i = Len(old) + 1 /\ j \in 1..Len(old)
        BY <3>2, <3>3, <4>3, Zenon
      <4>. QED  BY <3>0, <3>5, <4>1, <4>2, <4>3, Zenon
    <3>6. new # <<>>
      BY <2>3, <3>2
    <3>7. Lists(k + 1)
      BY <3>2, <3>4, <3>5, <3>6 DEF new
    <3>. QED  BY <3>7
  <2>. QED  BY <2>4, <2>5
<1>6. 0..n \subseteq G
  <2>. HIDE DEF G
  <2>. QED  BY <1>4, <1>5, Induction
<1>7. Lists(n)
  <2>1. n \in G
    <3>. HIDE DEF G
    <3>. QED  BY <1>6
  <2>. QED  BY <2>1
<1>. QED  BY <1>1, <1>7

\* StyleTable: a slot that is indexed has the style it is indexed for, and is not
\* free; no slot is free twice.
TableOK(t) ==
  /\ t = [styles |-> t.styles, index |-> t.index, free |-> t.free]
  /\ t.styles \in Seq(Style) /\ Len(t.styles) <= Cap
  /\ \A s \in DOMAIN t.index :
       t.index[s] \in 1..Len(t.styles) /\ t.styles[t.index[s]] = s
  /\ t.free \in Seq(1..Len(t.styles))
  /\ \A i, j \in 1..Len(t.free) : i # j => t.free[i] # t.free[j]
  /\ \A s \in DOMAIN t.index : \A i \in 1..Len(t.free) : t.free[i] # t.index[s]

\* The slots of L that cells use are slots of the table and not free.
InUse(t, L) ==
  \A id \in L : id # 0 => /\ id \in 1..Len(t.styles)
                          /\ \A i \in 1..Len(t.free) : t.free[i] # id

LEMMA TableTypes ==
  ASSUME NEW t, TableOK(t)
  PROVE  /\ Cap \in Nat /\ Len(t.styles) \in Nat /\ Len(t.styles) <= Cap
         /\ Len(t.free) \in Nat
         /\ \A i \in 1..Len(t.free) : t.free[i] \in 1..Len(t.styles)
         /\ \A id : StyleOf(t, id) \in Style
         /\ t.styles \in Seq(Style) /\ t.free \in Seq(1..Len(t.styles))
BY CapAssumption, DefaultStyleType DEF TableOK, StyleOf

LEMMA SeqFront ==
  ASSUME NEW S, NEW q \in Seq(S), q # <<>>
  PROVE  /\ SubSeq(q, 1, Len(q) - 1) \in Seq(S)
         /\ Len(SubSeq(q, 1, Len(q) - 1)) = Len(q) - 1
         /\ \A i \in 1..Len(q) - 1 : SubSeq(q, 1, Len(q) - 1)[i] = q[i]
<1>. DEFINE k == Len(q) - 1
            p == SubSeq(q, 1, k)
<1>1. Len(q) \in Nat /\ k \in Nat
  OBVIOUS
<1>2. 1 \in Int /\ k \in Int /\ \A i \in 1..k : q[i] \in S
  BY <1>1
<1>3. /\ p \in Seq(S) /\ Len(p) = IF 1 <= k THEN k - 1 + 1 ELSE 0
      /\ \A i \in 1..k - 1 + 1 : p[i] = q[1 + i - 1]
  <2>. HIDE DEF k
  <2>. QED  BY <1>2, SubSeqProperties
<1>. HIDE DEF p
<1>4. Len(p) = k /\ \A i \in 1..k : p[i] = q[i]
  <2>1. k \in Nat
    BY <1>1
  <2>. HIDE DEF k
  <2>2. k - 1 + 1 = k /\ \A i \in 1..k : 1 + i - 1 = i
    BY <2>1
  <2>3. \A i \in 1..k : p[i] = q[i]
    BY <1>3, <2>2
  <2>4. Len(p) = k
    BY <1>3, <2>1
  <2>. QED  BY <2>3, <2>4
<1>. QED  BY <1>3, <1>4 DEF p

LEMMA EmptyTableOK == TableOK(EmptyTable) /\ \A L : L \subseteq {0} => InUse(EmptyTable, L)
<1>1. /\ <<>> \in Seq(Style) /\ Len(<<>>) = 0 /\ \A S : <<>> \in Seq(S)
      /\ DOMAIN [s \in {} |-> 0] = {}
  OBVIOUS
<1>. QED  BY <1>1, CapAssumption DEF EmptyTable, TableOK, InUse

\* A slot that was free, or a new one, is given a style.
Reused(t, s) ==
  [styles |-> [t.styles EXCEPT ![t.free[Len(t.free)]] = s],
   index |-> Indexed(t, s, t.free[Len(t.free)]),
   free |-> SubSeq(t.free, 1, Len(t.free) - 1)]

Grown(t, s) ==
  [styles |-> Append(t.styles, s), index |-> Indexed(t, s, Len(t.styles) + 1),
   free |-> t.free]

LEMMA InternArms ==
  ASSUME NEW t, TableOK(t), NEW s
  PROVE  \/ s = DefaultStyle /\ Intern(t, s) = [table |-> t, id |-> 0]
         \/ /\ s # DefaultStyle /\ s \in DOMAIN t.index
            /\ Intern(t, s) = [table |-> t, id |-> t.index[s]]
         \/ /\ s # DefaultStyle /\ s \notin DOMAIN t.index /\ t.free # <<>>
            /\ Intern(t, s) = [table |-> Reused(t, s), id |-> t.free[Len(t.free)]]
         \/ /\ s # DefaultStyle /\ s \notin DOMAIN t.index /\ t.free = <<>>
            /\ Len(t.styles) >= Cap /\ Intern(t, s) = [table |-> t, id |-> 0]
         \/ /\ s # DefaultStyle /\ s \notin DOMAIN t.index /\ t.free = <<>>
            /\ ~(Len(t.styles) >= Cap)
            /\ Intern(t, s) = [table |-> Grown(t, s), id |-> Len(t.styles) + 1]
<1>. DEFINE v1 == [table |-> t, id |-> 0]
            v2 == [table |-> t, id |-> t.index[s]]
            v3 == [table |-> Reused(t, s), id |-> t.free[Len(t.free)]]
            w == [t EXCEPT !.styles = Append(@, s), !.index = Indexed(t, s, Len(t.styles) + 1)]
            v4 == [table |-> w, id |-> Len(t.styles) + 1]
            e == Intern(t, s)
            d == DefaultStyle
            full == Len(t.styles) >= Cap
<1>1. e = CASE s = d -> v1
            [] s # d /\ s \in DOMAIN t.index -> v2
            [] s # d /\ s \notin DOMAIN t.index /\ t.free # <<>> -> v3
            [] s # d /\ s \notin DOMAIN t.index /\ t.free = <<>> -> IF full THEN v1 ELSE v4
  BY Zenon DEF Intern, Reused
<1>2. w = Grown(t, s)
  <2>1. PICK st, ix, fr : t = [styles |-> st, index |-> ix, free |-> fr]
    BY DEF TableOK
  <2>. DEFINE x == Append(t.styles, s)
              y == Indexed(t, s, Len(t.styles) + 1)
  <2>2. t.free = fr
    BY <2>1
  <2>. HIDE DEF x, y
  <2>3. [t EXCEPT !.styles = x] = [styles |-> x, index |-> ix, free |-> fr]
    BY <2>1
  <2>4. [[styles |-> x, index |-> ix, free |-> fr] EXCEPT !.index = y]
          = [styles |-> x, index |-> y, free |-> fr]
    OBVIOUS
  <2>5. w = [[t EXCEPT !.styles = x] EXCEPT !.index = y]
    BY DEF x, y
  <2>6. w = [styles |-> x, index |-> y, free |-> t.free]
    BY <2>2, <2>3, <2>4, <2>5
  <2>. QED  BY <2>6 DEF Grown, x, y
<1>. HIDE DEF v1, v2, v3, v4, e, d, full, w
<1>3. /\ s = d => e = v1
      /\ s # d /\ s \in DOMAIN t.index => e = v2
      /\ s # d /\ s \notin DOMAIN t.index /\ t.free # <<>> => e = v3
      /\ s # d /\ s \notin DOMAIN t.index /\ t.free = <<>> /\ full => e = v1
      /\ s # d /\ s \notin DOMAIN t.index /\ t.free = <<>> /\ ~full => e = v4
  BY <1>1
<1>. QED  BY <1>2, <1>3, Zenon DEF v1, v2, v3, v4, e, d, full

\* intern keeps the table and the style of every slot in use, and the slot it
\* returns is in use from now on, with the style asked for. Slot 0 stands in for
\* another style only when there is no slot left.
Interned(t, s, L, r) ==
  /\ TableOK(r.table) /\ InUse(r.table, L \cup {r.id})
  /\ r.id \in 0..Cap
  /\ \A id \in L : StyleOf(r.table, id) = StyleOf(t, id)
  /\ r.id # 0 => StyleOf(r.table, r.id) = s
  /\ r.id = 0 /\ s # DefaultStyle => r.table = t /\ Len(t.styles) >= Cap /\ t.free = <<>>

LEMMA ReusedOK ==
  ASSUME NEW t, TableOK(t), NEW s \in Style, NEW L, InUse(t, L),
         s \notin DOMAIN t.index, t.free # <<>>
  PROVE  Interned(t, s, L, [table |-> Reused(t, s), id |-> t.free[Len(t.free)]])
<1>. DEFINE n == Len(t.styles)
            m == Len(t.free)
            id == t.free[m]
            u == Reused(t, s)
<1>1. /\ n \in Nat /\ n <= Cap /\ Cap \in Nat /\ m \in Nat /\ m >= 1
      /\ t.styles \in Seq(Style) /\ t.free \in Seq(1..n)
      /\ \A i, j \in 1..m : i # j => t.free[i] # t.free[j]
      /\ \A x \in DOMAIN t.index : t.index[x] \in 1..n /\ t.styles[t.index[x]] = x
      /\ \A x \in DOMAIN t.index : \A i \in 1..m : t.free[i] # t.index[x]
  <2>1. /\ \A i, j \in 1..m : i # j => t.free[i] # t.free[j]
        /\ \A x \in DOMAIN t.index : t.index[x] \in 1..n /\ t.styles[t.index[x]] = x
        /\ \A x \in DOMAIN t.index : \A i \in 1..m : t.free[i] # t.index[x]
    BY DEF TableOK
  <2>2. /\ n \in Nat /\ n <= Cap /\ Cap \in Nat /\ m \in Nat
        /\ t.styles \in Seq(Style) /\ t.free \in Seq(1..n)
    BY TableTypes
  <2>3. m >= 1
    BY <2>2
  <2>. QED  BY <2>1, <2>2, <2>3
<1>2. id \in 1..n /\ m \in 1..m
  BY <1>1
<1>3. /\ u.styles = [t.styles EXCEPT ![id] = s] /\ u.free = SubSeq(t.free, 1, m - 1)
      /\ u.index = [x \in DOMAIN t.index \cup {s} |-> IF x = s THEN id ELSE t.index[x]]
      /\ u = [styles |-> u.styles, index |-> u.index, free |-> u.free]
  BY DEF Reused, Indexed
<1>. HIDE DEF u, id
<1>4. /\ u.styles \in Seq(Style) /\ Len(u.styles) = n /\ u.styles[id] = s
      /\ \A k \in 1..n : k # id => u.styles[k] = t.styles[k]
  BY <1>1, <1>2, <1>3
<1>5. /\ u.free \in Seq(1..n) /\ Len(u.free) = m - 1
      /\ \A i \in 1..m - 1 : u.free[i] = t.free[i]
  <2>. DEFINE q == t.free
  <2>1. q \in Seq(1..n) /\ q # <<>> /\ u.free = SubSeq(q, 1, Len(q) - 1)
    BY <1>1, <1>3
  <2>. HIDE DEF q, n
  <2>2. /\ u.free \in Seq(1..n) /\ Len(u.free) = Len(q) - 1
        /\ \A i \in 1..Len(q) - 1 : u.free[i] = q[i]
    BY <2>1, SeqFront
  <2>. QED  BY <2>2 DEF q
<1>6. \A i \in 1..m - 1 : u.free[i] # id /\ i \in 1..m
  <2>1. \A i \in 1..m - 1 : i \in 1..m /\ i # m
    BY <1>1
  <2>2. \A i \in 1..m : i # m => t.free[i] # t.free[m]
    BY <1>1, <1>2
  <2>. QED  BY <1>5, <2>1, <2>2, Zenon DEF id
<1>7. /\ DOMAIN u.index = DOMAIN t.index \cup {s} /\ u.index[s] = id
      /\ \A x \in DOMAIN t.index : u.index[x] = t.index[x] /\ x # s
  BY <1>3
<1>8. \A x \in DOMAIN t.index : t.index[x] # id
  BY <1>1, <1>2 DEF id
<1>. HIDE DEF n, m
<1>9. \A x \in DOMAIN u.index : u.index[x] \in 1..n /\ u.styles[u.index[x]] = x
  BY <1>1, <1>2, <1>4, <1>7, <1>8, SMTT(30)
<1>10. \A i, j \in 1..m - 1 : i # j => u.free[i] # u.free[j]
  BY <1>1, <1>5, <1>6
<1>11. \A x \in DOMAIN u.index : \A i \in 1..m - 1 : u.free[i] # u.index[x]
  BY <1>1, <1>5, <1>6, <1>7
<1>12. TableOK(u)
  BY <1>1, <1>3, <1>4, <1>5, <1>9, <1>10, <1>11 DEF TableOK
<1>13. \A k \in L : k # 0 => k \in 1..n /\ k # id /\ \A i \in 1..m - 1 : u.free[i] # k
  BY <1>2, <1>5, <1>6 DEF InUse, id, n, m
<1>14. InUse(u, L \cup {id})
  BY <1>2, <1>4, <1>5, <1>6, <1>13 DEF InUse
<1>15. \A k \in L : StyleOf(u, k) = StyleOf(t, k)
  <2>1. ASSUME NEW k \in L PROVE StyleOf(u, k) = StyleOf(t, k)
    <3>1. CASE k \in 1..n
      <4>1. k # 0
        BY <3>1
      <4>. QED  BY <1>4, <1>13, <3>1, <4>1 DEF StyleOf, n
    <3>2. CASE k \notin 1..n
      BY <1>4, <3>2 DEF StyleOf, n
    <3>. QED  BY <3>1, <3>2
  <2>. QED  BY <2>1
<1>16. StyleOf(u, id) = s
  BY <1>2, <1>4 DEF StyleOf
<1>17. id \in 0..Cap /\ id # 0
  BY <1>1, <1>2
<1>. QED  BY <1>12, <1>14, <1>15, <1>16, <1>17 DEF Interned, u, id, m

LEMMA GrownOK ==
  ASSUME NEW t, TableOK(t), NEW s \in Style, NEW L, InUse(t, L),
         s \notin DOMAIN t.index, t.free = <<>>, ~(Len(t.styles) >= Cap)
  PROVE  Interned(t, s, L, [table |-> Grown(t, s), id |-> Len(t.styles) + 1])
<1>. DEFINE n == Len(t.styles)
            id == n + 1
            u == Grown(t, s)
<1>1. /\ n \in Nat /\ n < Cap /\ Cap \in Nat /\ t.styles \in Seq(Style)
      /\ \A x \in DOMAIN t.index : t.index[x] \in 1..n /\ t.styles[t.index[x]] = x
  <2>1. \A x \in DOMAIN t.index : t.index[x] \in 1..n /\ t.styles[t.index[x]] = x
    BY DEF TableOK
  <2>. QED  BY <2>1, TableTypes
<1>2. /\ u.styles = Append(t.styles, s) /\ u.free = <<>>
      /\ u.index = [x \in DOMAIN t.index \cup {s} |-> IF x = s THEN id ELSE t.index[x]]
      /\ u = [styles |-> u.styles, index |-> u.index, free |-> u.free]
  BY DEF Grown, Indexed
<1>. HIDE DEF u
<1>3. /\ u.styles \in Seq(Style) /\ Len(u.styles) = id /\ u.styles[id] = s
      /\ \A k \in 1..n : u.styles[k] = t.styles[k]
  BY <1>1, <1>2
<1>4. id \in 1..id /\ id \in 0..Cap /\ id # 0 /\ id <= Cap /\ \A k \in 1..n : k \in 1..id
  BY <1>1
<1>5. /\ DOMAIN u.index = DOMAIN t.index \cup {s} /\ u.index[s] = id
      /\ \A x \in DOMAIN t.index : u.index[x] = t.index[x]
  BY <1>2
<1>6. <<>> \in Seq(1..id) /\ \A i \in 1..Len(<<>>) : FALSE
  OBVIOUS
<1>7. \A k \in L : k # 0 => k \in 1..n
  BY DEF InUse
<1>. HIDE DEF n
<1>8. \A x \in DOMAIN u.index : u.index[x] \in 1..id /\ u.styles[u.index[x]] = x
  <2>1. ASSUME NEW x \in DOMAIN t.index
        PROVE  u.index[x] \in 1..id /\ u.styles[u.index[x]] = x
    <3>1. t.index[x] \in 1..n /\ t.styles[t.index[x]] = x
      BY <1>1
    <3>. QED  BY <1>3, <1>4, <1>5, <3>1
  <2>2. u.index[s] \in 1..id /\ u.styles[u.index[s]] = s
    BY <1>3, <1>4, <1>5
  <2>. QED  BY <1>5, <2>1, <2>2
<1>. HIDE DEF id
<1>9. TableOK(u)
  BY <1>2, <1>3, <1>4, <1>6, <1>8 DEF TableOK
<1>10. InUse(u, L \cup {id})
  BY <1>2, <1>3, <1>4, <1>6, <1>7 DEF InUse
<1>11. \A k \in L : StyleOf(u, k) = StyleOf(t, k)
  <2>1. ASSUME NEW k \in L PROVE StyleOf(u, k) = StyleOf(t, k)
    <3>1. CASE k \in 1..n
      BY <1>3, <1>4, <3>1 DEF StyleOf, n
    <3>2. CASE k \notin 1..n
      <4>1. k = 0 /\ 0 \notin 1..id
        BY <1>1, <1>7, <3>2
      <4>. QED  BY <1>3, <3>2, <4>1 DEF StyleOf, n
    <3>. QED  BY <3>1, <3>2
  <2>. QED  BY <2>1
<1>12. StyleOf(u, id) = s
  BY <1>3, <1>4 DEF StyleOf
<1>13. Interned(t, s, L, [table |-> u, id |-> id])
  BY <1>4, <1>9, <1>10, <1>11, <1>12 DEF Interned
<1>. QED  BY <1>13 DEF u, id, n

LEMMA InternOK ==
  ASSUME NEW t, TableOK(t), NEW s \in Style, NEW L, InUse(t, L)
  PROVE  Interned(t, s, L, Intern(t, s))
<1>0. Cap \in Nat
  BY CapAssumption
<1>1. ASSUME s = DefaultStyle \/ (Len(t.styles) >= Cap /\ t.free = <<>>)
      PROVE  Interned(t, s, L, [table |-> t, id |-> 0])
  <2>1. 0 \in 0..Cap
    BY <1>0
  <2>2. InUse(t, L \cup {0})
    BY DEF InUse
  <2>. QED  BY <1>1, <2>1, <2>2 DEF Interned
<1>2. ASSUME s \in DOMAIN t.index
      PROVE  Interned(t, s, L, [table |-> t, id |-> t.index[s]])
  <2>. DEFINE id == t.index[s]
  <2>1. /\ id \in 1..Len(t.styles) /\ t.styles[id] = s
        /\ \A i \in 1..Len(t.free) : t.free[i] # id
    BY <1>2 DEF TableOK
  <2>2. id \in 0..Cap /\ id # 0
    BY <2>1, TableTypes
  <2>. HIDE DEF id
  <2>3. InUse(t, L \cup {id}) /\ StyleOf(t, id) = s
    BY <2>1 DEF InUse, StyleOf
  <2>4. Interned(t, s, L, [table |-> t, id |-> id])
    BY <2>2, <2>3 DEF Interned
  <2>. QED  BY <2>4 DEF id
<1>3. CASE s = DefaultStyle /\ Intern(t, s) = [table |-> t, id |-> 0]
  BY <1>1, <1>3
<1>4. CASE s \in DOMAIN t.index /\ Intern(t, s) = [table |-> t, id |-> t.index[s]]
  BY <1>2, <1>4
<1>5. CASE /\ s \notin DOMAIN t.index /\ t.free # <<>>
           /\ Intern(t, s) = [table |-> Reused(t, s), id |-> t.free[Len(t.free)]]
  BY <1>5, ReusedOK
<1>6. CASE /\ Len(t.styles) >= Cap /\ t.free = <<>>
           /\ Intern(t, s) = [table |-> t, id |-> 0]
  BY <1>1, <1>6
<1>7. CASE /\ s \notin DOMAIN t.index /\ t.free = <<>> /\ ~(Len(t.styles) >= Cap)
           /\ Intern(t, s) = [table |-> Grown(t, s), id |-> Len(t.styles) + 1]
  BY <1>7, GrownOK
<1>. QED  BY <1>3, <1>4, <1>5, <1>6, <1>7, InternArms, Zenon

\* reclaim keeps what cells use. It frees every other slot.
LEMMA ReclaimOK ==
  ASSUME NEW t, TableOK(t), NEW L, InUse(t, L)
  PROVE  /\ TableOK(Reclaim(t, L)) /\ InUse(Reclaim(t, L), L)
         /\ Reclaim(t, L).styles = t.styles
         /\ Reclaim(t, L).free = <<>> => 1..Len(t.styles) \subseteq L
<1>. DEFINE n == Len(t.styles)
            dead == {id \in 1..n : id \notin L}
            gone == {t.styles[id] : id \in dead}
            ix == [s \in DOMAIN t.index \ gone |-> t.index[s]]
            fr == Ascending(dead, n)
            u == Reclaim(t, L)
<1>1. /\ n \in Nat /\ n <= Cap /\ t.styles \in Seq(Style)
      /\ \A x \in DOMAIN t.index : t.index[x] \in 1..n /\ t.styles[t.index[x]] = x
  <2>1. \A x \in DOMAIN t.index : t.index[x] \in 1..n /\ t.styles[t.index[x]] = x
    BY DEF TableOK
  <2>. QED  BY <2>1, TableTypes
<1>2. /\ fr \in Seq(1..n) /\ Len(fr) \in Nat
      /\ \A i \in 1..Len(fr) : fr[i] \in dead
      /\ \A i, j \in 1..Len(fr) : i # j => fr[i] # fr[j]
      /\ fr = <<>> => \A i \in 1..n : i \notin dead
  <2>1. n \in Nat
    BY <1>1
  <2>. HIDE DEF n, dead
  <2>2. /\ fr \in Seq(1..n) /\ \A i \in 1..Len(fr) : fr[i] \in dead
        /\ \A i, j \in 1..Len(fr) : i # j => fr[i] # fr[j]
        /\ fr = <<>> => \A i \in 1..n : i \notin dead
    BY <2>1, AscendingLists
  <2>. HIDE DEF fr
  <2>. QED  BY <2>2
<1>3. u = [styles |-> t.styles, index |-> ix, free |-> fr]
  <2>1. PICK st, jx, fs : t = [styles |-> st, index |-> jx, free |-> fs]
    BY DEF TableOK
  <2>2. u = [[t EXCEPT !.index = ix] EXCEPT !.free = fr]
    BY DEF Reclaim
  <2>. HIDE DEF ix, fr
  <2>3. [t EXCEPT !.index = ix] = [styles |-> st, index |-> ix, free |-> fs]
    BY <2>1
  <2>4. [[styles |-> st, index |-> ix, free |-> fs] EXCEPT !.free = fr]
          = [styles |-> st, index |-> ix, free |-> fr]
    OBVIOUS
  <2>5. t.styles = st
    BY <2>1
  <2>. HIDE DEF u
  <2>. QED  BY <2>2, <2>3, <2>4, <2>5
<1>4. /\ DOMAIN ix \subseteq DOMAIN t.index /\ \A x \in DOMAIN ix : ix[x] = t.index[x]
      /\ \A x \in DOMAIN ix : t.index[x] \notin dead
  <2>1. \A x \in DOMAIN ix : x \in DOMAIN t.index /\ ix[x] = t.index[x] /\ x \notin gone
    OBVIOUS
  <2>2. \A x \in DOMAIN t.index : t.index[x] \in dead => x \in gone
    BY <1>1
  <2>. HIDE DEF ix, dead, gone
  <2>. QED  BY <2>1, <2>2
<1>5. \A x : x \in dead <=> x \in 1..n /\ x \notin L
  OBVIOUS
<1>. HIDE DEF u, ix, fr, dead, gone, n
<1>6. u.styles = t.styles /\ u.index = ix /\ u.free = fr
  BY <1>3
<1>7. TableOK(u)
  BY <1>1, <1>2, <1>3, <1>4, <1>6 DEF TableOK, n
<1>8. InUse(u, L)
  BY <1>2, <1>5, <1>6 DEF InUse, n
<1>9. u.free = <<>> => 1..n \subseteq L
  BY <1>2, <1>5, <1>6
<1>. QED  BY <1>6, <1>7, <1>8, <1>9 DEF u, n

-----------------------------------------------------------------------------
(* What the variables hold. *)

Modes == [Mode -> BOOLEAN]
Region(n) == {r \in (1..n) \X (1..n) : r[1] <= r[2]}
Cell == [c : Char, id : 0..Cap, asked : Style]
Grid(n, m) == [1..n -> [1..m -> Cell]]
Saved(n, m) == [cells : Grid(n, m), modes : Modes, region : Region(n)]
Titles == {ti \in [now : Name, stack : Seq(Name)] : Len(ti.stack) <= MaxTitles}
Sums(m) == [1..m -> [c : Char, id : 0..Cap]]
Cache(n, m) == [rows : [1..n -> Sums(m)], modes : Modes, region : Region(n),
                cursor : (1..n) \X (1..m), visible : BOOLEAN, title : Name]

TermOf(shows, y, x, region, ms, visible, name) ==
  [rows |-> shows, y |-> y, x |-> x, region |-> region, modes |-> ms, visible |-> visible,
   title |-> name]

\* t with its cursor in row y and column x
CursorAt(t, y, x) == [t EXCEPT !.y = y, !.x = x]

\* t is a terminal of n rows and m columns.
IsTerm(t, n, m) ==
  /\ t = TermOf(t.rows, t.y, t.x, t.region, t.modes, t.visible, t.title)
  /\ t.y \in 1..n /\ t.x \in 1..m
  /\ t.region \in Region(n) /\ t.modes \in Modes /\ t.visible \in BOOLEAN

TypeInv ==
  /\ setup \in Setups
  /\ current_style \in Style
  /\ cells \in Grid(rows, cols)
  /\ saved = None \/ saved \in Saved(rows, cols)
  /\ cursor_y \in 1..rows /\ cursor_x \in 1..cols
  /\ scroll_region \in Region(rows)
  /\ modes \in Modes /\ cursor_visible \in BOOLEAN /\ title \in Titles
  /\ pending \in BOOLEAN
  /\ cache = None \/ cache \in Cache(rows, cols)
  /\ IsTerm(term, rows, cols)
  /\ flaws \subseteq Flaw /\ shown \in BOOLEAN

\* The slot of a cell is in use, and has the style the cell was written with.
SlotOK(t, cell) ==
  cell.id # 0 => /\ StyleOf(t, cell.id) = cell.asked
                 /\ cell.id \in 1..Len(t.styles)
                 /\ \A i \in 1..Len(t.free) : t.free[i] # cell.id

TableInv ==
  /\ TableOK(table)
  /\ \A y \in 1..rows : \A x \in 1..cols : SlotOK(table, cells[y][x])
  /\ saved # None => \A y \in 1..rows : \A x \in 1..cols : SlotOK(table, saved.cells[y][x])

\* A character and the style of its slot, on the terminal
Of(sum) == Glyph(sum.c, StyleOf(table, sum.id))

\* The cache c is what was sent to terminal t, but for last columns.
Sent(t, c, n, m, f) ==
  /\ t.modes = c.modes /\ t.region = c.region
  /\ t.visible = c.visible /\ t.title = c.title
  /\ "cursor" \notin f => c.cursor = <<t.y, t.x>>
  /\ f \cap {"style", "margin", "charset"} = {} =>
       \A y \in 1..n : \A x \in 1..m :
         \/ t.rows[y][x] = Of(c.rows[y][x])
         \/ "edge" \in f /\ x = m /\ t.rows[y][x] = BlankGlyph

SentInv == cache # None => Sent(term, cache, rows, cols, flaws)

\* While shown holds the cache is what the screen has.
ShownInv ==
  shown => /\ cache # None
           /\ cache.rows = [y \in 1..rows |-> HashRow(cells[y])] /\ cache.modes = modes
           /\ cache.region = scroll_region /\ cache.cursor = <<cursor_y, cursor_x>>
           /\ cache.visible = cursor_visible /\ cache.title = title.now

\* The inductive invariant
IInv == TypeInv /\ TableInv /\ SentInv /\ ShownInv /\ ShellClean

LEMMA Height ==
  ASSUME TypeInv
  PROVE  /\ rows \in Nat \ {0} /\ setup.sgr \subseteq Parameters /\ Row = 1..rows
         /\ cols \in Nat \ {0} /\ setup.at \subseteq 1..cols /\ Col = 1..cols
BY SetupsAssumption DEF TypeInv, rows, Row, cols, Col, Parameters

\* The invariant says what the runs check.
LEMMA TypeInvTypeOK == TypeInv /\ TableInv => TypeOK
<1>. SUFFICES ASSUME TypeInv, TableInv PROVE TypeOK
  OBVIOUS
<1>1. Row = 1..rows /\ rows \in Nat /\ Col = 1..cols
  BY Height
<1>2. /\ Len(table.styles) <= Cap /\ table.free \in Seq(1..Len(table.styles))
      /\ \A s \in DOMAIN table.index : table.index[s] \in 1..Len(table.styles)
  BY DEF TableInv, TableOK
<1>3. \A id \in DOMAIN table.styles : IsStyle(table.styles[id])
  <2>1. table.styles \in Seq(Style)
    BY DEF TableInv, TableOK
  <2>. QED  BY <2>1, StyleIsStyle
<1>4. IsStyle(current_style)
  BY StyleIsStyle DEF TypeInv
<1>5. \A g \in Grid(rows, cols) : Slots(g)
  <2>. SUFFICES ASSUME NEW g \in Grid(rows, cols), NEW y \in 1..rows, NEW x \in 1..cols
                PROVE  /\ g[y][x].c \in Char /\ g[y][x].id \in 0..Cap
                       /\ IsStyle(g[y][x].asked)
    BY <1>1, Zenon DEF Slots
  <2>1. g[y][x] \in Cell
    BY DEF Grid
  <2>. QED  BY <2>1, StyleIsStyle DEF Cell
<1>6. Slots(cells) /\ (saved = None \/ Slots(saved.cells))
  <2>1. saved \in Saved(rows, cols) => saved.cells \in Grid(rows, cols)
    BY DEF Saved
  <2>. QED  BY <1>5, <2>1 DEF TypeInv
<1>7. /\ cursor_y \in Row /\ term.y \in Row /\ cursor_x \in Col /\ term.x \in Col
      /\ modes \in [Mode -> BOOLEAN] /\ cursor_visible \in BOOLEAN
      /\ term.modes \in [Mode -> BOOLEAN]
      /\ flaws \subseteq Flaw /\ shown \in BOOLEAN /\ pending \in BOOLEAN
  BY <1>1 DEF TypeInv, IsTerm, Modes
<1>8. scroll_region \in Row \X Row /\ scroll_region[1] <= scroll_region[2]
  <2>1. scroll_region \in Region(rows)
    BY DEF TypeInv
  <2>. QED  BY <1>1, <2>1 DEF Region
<1>9. Len(title.stack) <= MaxTitles
  BY DEF TypeInv, Titles
<1>. QED  BY <1>2, <1>3, <1>4, <1>6, <1>7, <1>8, <1>9 DEF TypeOK

LEMMA TableInvSlotsHold == TypeInv /\ TableInv => SlotsHold
<1>. SUFFICES ASSUME TypeInv, TableInv, NEW rs \in {cells} \cup {saved.cells : x \in {saved} \ {None}},
                     NEW y \in Row, NEW x \in Col, rs[y][x].id # 0
              PROVE  StyleOf(table, rs[y][x].id) = rs[y][x].asked
  BY Zenon DEF SlotsHold
<1>1. y \in 1..rows /\ x \in 1..cols
  BY Height
<1>2. CASE rs = cells
  BY <1>1, <1>2 DEF TableInv, SlotOK
<1>3. CASE saved # None /\ rs = saved.cells
  BY <1>1, <1>3 DEF TableInv, SlotOK
<1>. QED  BY <1>2, <1>3

LEMMA ModesShownLemma == TypeInv /\ SentInv /\ ShownInv => ModesShown
BY DEF SentInv, Sent, ShownInv, ModesShown

\* What the cache has of a row says what it looks like.
LEMMA SumOf ==
  ASSUME TypeInv, NEW row, NEW x \in 1..cols
  PROVE  Of(HashRow(row)[x]) = Of(row[x])
BY Height DEF HashRow, Of

LEMMA RowsShownLemma == TypeInv /\ SentInv /\ ShownInv => RowsShown
<1>. SUFFICES ASSUME TypeInv, SentInv, ShownInv, shown,
                     flaws \cap {"style", "margin", "charset"} = {},
                     NEW y \in 1..rows, NEW x \in 1..cols
              PROVE  \/ term.rows[y][x] = Of(cells[y][x])
                     \/ "edge" \in flaws /\ x = cols /\ term.rows[y][x] = BlankGlyph
  BY Height, Zenon DEF RowsShown, Of
<1>1. \/ term.rows[y][x] = Of(cache.rows[y][x])
      \/ "edge" \in flaws /\ x = cols /\ term.rows[y][x] = BlankGlyph
  BY DEF ShownInv, SentInv, Sent
<1>2. cache.rows[y] = HashRow(cells[y])
  BY DEF ShownInv
<1>. QED  BY <1>1, <1>2, SumOf

-----------------------------------------------------------------------------
(* The application's steps. *)

\* A table in which the slots of the screen are still good
Keeps(t) ==
  /\ TableOK(t)
  /\ \A y \in 1..rows : \A x \in 1..cols : SlotOK(t, cells[y][x])
  /\ saved # None => \A y \in 1..rows : \A x \in 1..cols : SlotOK(t, saved.cells[y][x])

\* The slots in use, by cell
LEMMA LiveCells ==
  ASSUME TypeInv
  PROVE  /\ \A id : id \in LiveIds <=>
              \/ \E y \in 1..rows : \E x \in 1..cols : id = cells[y][x].id
              \/ saved # None /\ \E y \in 1..rows : \E x \in 1..cols : id = saved.cells[y][x].id
         /\ \A id : id \in SavedIds <=>
              saved # None /\ \E y \in 1..rows : \E x \in 1..cols : id = saved.cells[y][x].id
<1>1. \A rs, id : id \in Ids(rs) <=> \E y \in 1..rows : \E x \in 1..cols : id = rs[y][x].id
  BY Height DEF Ids
<1>2. ASSUME NEW id
      PROVE  id \in SavedIds <=>
               saved # None /\ \E y \in 1..rows : \E x \in 1..cols : id = saved.cells[y][x].id
  <2>1. CASE saved = None
    BY <2>1 DEF SavedIds
  <2>2. CASE saved # None
    <3>1. SavedIds = Ids(saved.cells)
      BY <2>2 DEF SavedIds
    <3>2. \A rs : id \in Ids(rs) <=> \E y \in 1..rows : \E x \in 1..cols : id = rs[y][x].id
      BY <1>1
    <3>3. id \in Ids(saved.cells) <=>
            \E y \in 1..rows : \E x \in 1..cols : id = saved.cells[y][x].id
      BY <3>2
    <3>. QED  BY <2>2, <3>1, <3>3, Zenon
  <2>. QED  BY <2>1, <2>2
<1>3. ASSUME NEW id
      PROVE  id \in LiveIds <=>
               \/ \E y \in 1..rows : \E x \in 1..cols : id = cells[y][x].id
               \/ saved # None /\ \E y \in 1..rows : \E x \in 1..cols : id = saved.cells[y][x].id
  <2>1. id \in LiveIds <=> id \in Ids(cells) \/ id \in SavedIds
    BY DEF LiveIds
  <2>2. id \in Ids(cells) <=> \E y \in 1..rows : \E x \in 1..cols : id = cells[y][x].id
    <3>1. \A rs : id \in Ids(rs) <=> \E y \in 1..rows : \E x \in 1..cols : id = rs[y][x].id
      BY <1>1
    <3>. QED  BY <3>1
  <2>. QED  BY <1>2, <2>1, <2>2, Zenon
<1>. QED  BY <1>2, <1>3

LEMMA LiveInUse == TypeInv /\ TableInv => InUse(table, LiveIds) /\ InUse(table, SavedIds)
<1>. SUFFICES ASSUME TypeInv, TableInv PROVE InUse(table, LiveIds) /\ InUse(table, SavedIds)
  OBVIOUS
<1>1. \A cell : SlotOK(table, cell) => InUse(table, {cell.id})
  BY DEF SlotOK, InUse
<1>2. \A id \in LiveIds : InUse(table, {id})
  BY <1>1, LiveCells DEF TableInv
<1>3. \A id \in SavedIds : id \in LiveIds
  BY LiveCells
<1>4. \A id \in LiveIds : id # 0 => /\ id \in 1..Len(table.styles)
                                    /\ \A i \in 1..Len(table.free) : table.free[i] # id
  BY <1>2 DEF InUse
<1>. QED  BY <1>3, <1>4 DEF InUse

\* A table that keeps the slots in use keeps the cells.
LEMMA UseKeeps ==
  ASSUME TypeInv, TableInv, NEW t, TableOK(t), InUse(t, LiveIds),
         \A id \in LiveIds : StyleOf(t, id) = StyleOf(table, id)
  PROVE  Keeps(t)
<1>1. ASSUME NEW y \in 1..rows, NEW x \in 1..cols PROVE SlotOK(t, cells[y][x])
  <2>1. cells[y][x].id \in LiveIds /\ SlotOK(table, cells[y][x])
    BY LiveCells DEF TableInv
  <2>. QED  BY <2>1 DEF SlotOK, InUse
<1>2. ASSUME saved # None, NEW y \in 1..rows, NEW x \in 1..cols PROVE SlotOK(t, saved.cells[y][x])
  <2>1. saved.cells[y][x].id \in LiveIds /\ SlotOK(table, saved.cells[y][x])
    BY <1>2, LiveCells DEF TableInv
  <2>. QED  BY <2>1 DEF SlotOK, InUse
<1>. QED  BY <1>1, <1>2 DEF Keeps

\* intern_with_gc keeps the cells of both screens; the slot it returns has the
\* style, and the default style stands in only when cells use every slot.
LEMMA InternWithGcOK ==
  ASSUME TypeInv, TableInv, NEW s \in Style
  PROVE  /\ Keeps(InternWithGc(s).table) /\ InternWithGc(s).id \in 0..Cap
         /\ \A c : SlotOK(InternWithGc(s).table, CellAt(c, InternWithGc(s).id, s))
         /\ InternWithGc(s).id = 0 /\ s # DefaultStyle => LiveIds \ {0} = 1..Cap
<1>. DEFINE first == Intern(table, s)
            t == Reclaim(table, LiveIds)
            again == Intern(t, s)
            L == LiveIds
<1>. HIDE DEF L
<1>1. TableOK(table) /\ InUse(table, L)
  BY LiveInUse DEF TableInv, L
<1>2. Interned(table, s, L, first)
  BY <1>1, InternOK
<1>3. /\ TableOK(t) /\ InUse(t, L) /\ t.styles = table.styles
      /\ t.free = <<>> => 1..Len(table.styles) \subseteq L
  BY <1>1, ReclaimOK DEF L
<1>. HIDE DEF t
<1>4. Interned(t, s, L, again)
  BY <1>3, InternOK
<1>. HIDE DEF first, again
<1>5. ASSUME NEW u, NEW r, Interned(u, s, L, r), TableOK(u), u.styles = table.styles
      PROVE  /\ Keeps(r.table) /\ r.id \in 0..Cap
             /\ \A c : SlotOK(r.table, CellAt(c, r.id, s))
  <2>1. \A id \in L : StyleOf(r.table, id) = StyleOf(table, id)
    BY <1>5 DEF Interned, StyleOf
  <2>2. TableOK(r.table) /\ InUse(r.table, L) /\ InUse(r.table, L \cup {r.id})
    BY <1>5 DEF Interned, InUse
  <2>3. Keeps(r.table)
    BY <2>1, <2>2, UseKeeps DEF L
  <2>4. ASSUME NEW c PROVE SlotOK(r.table, CellAt(c, r.id, s))
    <3>1. CellAt(c, r.id, s).id = r.id /\ CellAt(c, r.id, s).asked = s
      BY DEF CellAt
    <3>. QED  BY <1>5, <2>2, <3>1 DEF SlotOK, Interned, InUse
  <2>. QED  BY <1>5, <2>3, <2>4 DEF Interned
<1>6. CASE first.id = 0 /\ s # DefaultStyle /\ IsFull(first.table)
  <2>1. InternWithGc(s) = again
    <3>1. first.table = table
      BY <1>2, <1>6 DEF Interned
    <3>2. InternWithGc(s) = Intern(Reclaim(first.table, LiveIds), s)
      BY <1>6 DEF InternWithGc, first
    <3>. QED  BY <3>1, <3>2 DEF again, t
  <2>2. ASSUME again.id = 0 PROVE L \ {0} = 1..Cap
    <3>1. t.free = <<>> /\ Len(t.styles) >= Cap
      BY <1>4, <1>6, <2>2 DEF Interned
    <3>2. Len(table.styles) = Cap
      BY <1>1, <1>3, <3>1, TableTypes
    <3>3. 1..Cap \subseteq L
      BY <1>3, <3>1, <3>2
    <3>4. \A id \in L : id # 0 => id \in 1..Cap
      BY <1>1, <3>2 DEF InUse
    <3>5. 0 \notin 1..Cap
      BY CapAssumption
    <3>. QED  BY <3>3, <3>4, <3>5
  <2>. QED  BY <1>3, <1>4, <1>5, <2>1, <2>2 DEF L
<1>7. CASE ~(first.id = 0 /\ s # DefaultStyle /\ IsFull(first.table))
  <2>1. InternWithGc(s) = first
    BY <1>7 DEF InternWithGc, first
  <2>2. ~(first.id = 0 /\ s # DefaultStyle)
    BY <1>2, <1>7 DEF Interned, IsFull
  <2>. QED  BY <1>1, <1>2, <1>5, <2>1, <2>2
<1>. QED  BY <1>6, <1>7

LEMMA NoneFacts ==
  ASSUME TypeInv
  PROVE  /\ None \notin Cache(rows, cols) /\ None \notin Region(rows) /\ None \notin Modes
         /\ None \notin Name /\ None \notin Sums(cols)
<1>1. [c : Char, id : 0..Cap] \subseteq Hash
  BY CapAssumption DEF Hash
<1>2. Region(rows) \subseteq Nat \X Nat
  BY Height DEF Region
<1>0. rows = setup.rows /\ rows \in Nat /\ cols = setup.cols /\ cols \in Nat
  BY Height DEF rows, cols
<1>4. Sums(cols) \subseteq [1..setup.cols -> Hash]
  BY <1>0, <1>1 DEF Sums
<1>3. Cache(rows, cols) \subseteq CacheOf(setup.rows, setup.cols)
  <2>. SUFFICES ASSUME NEW c \in Cache(rows, cols) PROVE c \in CacheOf(setup.rows, setup.cols)
    OBVIOUS
  <2>2. c.rows \in [1..setup.rows -> [1..setup.cols -> Hash]]
    BY <1>0, <1>4 DEF Cache
  <2>3. c.region \in Nat \X Nat /\ c.cursor \in Nat \X Nat
    BY <1>0, <1>2 DEF Cache
  <2>. QED  BY <2>2, <2>3 DEF Cache, CacheOf, Modes
<1>. QED  BY <1>2, <1>3, <1>4, NoneAssumption DEF TypeInv, Modes

\* A step of the application writes nothing to the terminal: what was sent
\* stays what the cache says, unless a slot that was sent changed its style.
LEMMA AppStep ==
  ASSUME TypeInv, SentInv, ShellClean, NEW t, NEW ti, AppTitled(t, ti)
  PROVE  /\ SentInv' /\ ShownInv' /\ ShellClean' /\ setup' = setup
         /\ rows' = rows /\ cols' = cols
         /\ (cache = None \/ cache \in Cache(rows, cols))'
         /\ IsTerm(term, rows, cols)' /\ flaws' \subseteq Flaw /\ shown' \in BOOLEAN
         /\ table' = t /\ title' = ti
<1>1. /\ setup' = setup /\ cache' = cache /\ term' = term /\ shown' = FALSE
      /\ table' = t /\ title' = ti
      /\ flaws' = IF Reassigns(t) THEN flaws \cup {"style"} ELSE flaws
  BY DEF AppTitled
<1>2. rows' = rows /\ cols' = cols
  BY <1>1 DEF rows, cols
<1>3. (cache = None \/ cache \in Cache(rows, cols))'
  BY <1>1, <1>2 DEF TypeInv
<1>4. IsTerm(term, rows, cols)'
  BY <1>1, <1>2 DEF TypeInv
<1>5. flaws' \subseteq Flaw
  BY <1>1 DEF TypeInv, Flaw
<1>6. ShellClean'
  BY <1>1, <1>2 DEF ShellClean, FullRegion
<1>7. ShownInv'
  BY <1>1 DEF ShownInv
<1>8. ASSUME cache # None PROVE SentInv'
  <2>1. Sent(term, cache, rows, cols, flaws) /\ cache \in Cache(rows, cols)
    BY <1>8 DEF SentInv, TypeInv
  <2>2. "cursor" \notin flaws' => cache'.cursor = <<term'.y, term'.x>>
    BY <1>1, <2>1 DEF Sent
  <2>3. ASSUME flaws' \cap {"style", "margin", "charset"} = {},
               NEW y \in 1..rows, NEW x \in 1..cols
        PROVE  \/ term.rows[y][x] = Glyph(cache.rows[y][x].c, StyleOf(t, cache.rows[y][x].id))
               \/ "edge" \in flaws' /\ x = cols /\ term.rows[y][x] = BlankGlyph
    <3>1. ~Reassigns(t) /\ flaws' = flaws
      BY <1>1, <2>3
    <3>2. cache.rows[y] # None
      BY <2>1, NoneFacts DEF Cache
    <3>3. StyleOf(t, cache.rows[y][x].id) = StyleOf(table, cache.rows[y][x].id)
      BY <1>8, <3>1, <3>2, Height DEF Reassigns
    <3>4. \/ term.rows[y][x] = Of(cache.rows[y][x])
          \/ "edge" \in flaws /\ x = cols /\ term.rows[y][x] = BlankGlyph
      BY <2>1, <2>3, <3>1 DEF Sent
    <3>. QED  BY <3>1, <3>3, <3>4 DEF Of
  <2>4. Sent(term, cache, rows, cols, flaws)'
    BY <1>1, <1>2, <2>1, <2>2, <2>3 DEF Sent, Of, BlankGlyph
  <2>. QED  BY <2>4 DEF SentInv
<1>9. cache = None => SentInv'
  BY <1>1 DEF SentInv
<1>. QED  BY <1>1, <1>2, <1>3, <1>4, <1>5, <1>6, <1>7, <1>8, <1>9

\* Cells that the application writes have the slot interned for them.
LEMMA WriteStep ==
  ASSUME TypeInv, TableInv, NEW s \in Style, setup' = setup, saved' = saved,
         table' = InternWithGc(s).table,
         \A y \in 1..rows : \A x \in 1..cols :
           \/ \E z \in 1..rows : cells'[y][x] = cells[z][x]
           \/ \E c : cells'[y][x] = CellAt(c, InternWithGc(s).id, s)
  PROVE  TableInv'
<1>. DEFINE r == InternWithGc(s)
<1>1. /\ TableOK(r.table)
      /\ \A y \in 1..rows : \A x \in 1..cols : SlotOK(r.table, cells[y][x])
      /\ saved # None => \A y \in 1..rows : \A x \in 1..cols : SlotOK(r.table, saved.cells[y][x])
      /\ \A c : SlotOK(r.table, CellAt(c, r.id, s))
  BY InternWithGcOK DEF Keeps
<1>2. rows' = rows /\ cols' = cols
  BY DEF rows, cols
<1>. HIDE DEF r
<1>3. ASSUME NEW y \in 1..rows, NEW x \in 1..cols PROVE SlotOK(r.table, cells'[y][x])
  BY <1>1 DEF r
<1>. QED  BY <1>1, <1>2, <1>3 DEF TableInv, r

LEMMA SameTable ==
  ASSUME TableInv, UNCHANGED <<setup, table, cells, saved>>
  PROVE  TableInv'
BY DEF TableInv, rows, cols

LEMMA StyleTypes ==
  ASSUME TypeInv
  PROVE  BlankStyle \in Style /\ DefaultStyle \in Style /\ current_style \in Style
<1>1. current_style.bg \in Color
  BY StyleFields DEF TypeInv
<1>. QED  BY <1>1, DefaultStyleType, StyleFields DEF BlankStyle, TypeInv

LEMMA RegionType ==
  ASSUME TypeInv
  PROVE  /\ scroll_region[1] \in 1..rows /\ scroll_region[2] \in 1..rows
         /\ scroll_region[1] <= scroll_region[2]
         /\ FullRegion \in Region(rows)
         /\ \A top, bottom \in 1..rows : top <= bottom => <<top, bottom>> \in Region(rows)
<1>1. scroll_region \in Region(rows)
  BY DEF TypeInv
<1>2. rows \in Nat /\ 1 \in 1..rows /\ rows \in 1..rows
  BY Height
<1>3. \A top, bottom \in 1..rows : top <= bottom => <<top, bottom>> \in Region(rows)
  BY DEF Region
<1>4. FullRegion \in Region(rows)
  BY <1>2, <1>3 DEF FullRegion
<1>. QED  BY <1>1, <1>3, <1>4 DEF Region

LEMMA AbsoluteRowType ==
  ASSUME TypeInv, NEW y \in 1..rows
  PROVE  AbsoluteRow(y) \in 1..rows
<1>1. rows \in Nat
  BY Height
<1>. QED  BY <1>1, RegionType DEF AbsoluteRow, Least

LEMMA CellTypes ==
  ASSUME TypeInv
  PROVE  /\ \A c \in Char : \A id \in 0..Cap : \A s \in Style : CellAt(c, id, s) \in Cell
         /\ \A y \in 1..rows : cells[y] \in [1..cols -> Cell]
         /\ BlankRows \in Grid(rows, cols)
         /\ \A cell \in Cell : /\ RowOf(cell) \in [1..cols -> Cell]
                              /\ \A x \in 1..cols : RowOf(cell)[x] = cell
         /\ \A y \in 1..rows : \A x \in 1..cols :
              BlankRows[y][x].id = 0 /\ BlankRows[y][x].asked = DefaultStyle
         /\ \A t : \A y \in 1..rows : \A x \in 1..cols : SlotOK(t, BlankRows[y][x])
<1>1. \A c \in Char : \A id \in 0..Cap : \A s \in Style : CellAt(c, id, s) \in Cell
  BY DEF CellAt, Cell
<1>2. \A y \in 1..rows : cells[y] \in [1..cols -> Cell]
  BY DEF TypeInv, Grid
<1>3. 0 \in 0..Cap /\ "space" \in Char
  BY CapAssumption DEF Char
<1>4. DefaultCell \in Cell /\ DefaultCell.id = 0 /\ DefaultCell.asked = DefaultStyle
  BY <1>1, <1>3, DefaultStyleType DEF DefaultCell, CellAt
<1>5. BlankRows = [y \in 1..rows |-> RowOf(DefaultCell)]
  BY Height DEF BlankRows
<1>. HIDE DEF DefaultCell
<1>6. \A cell \in Cell : /\ RowOf(cell) \in [1..cols -> Cell]
                        /\ \A x \in 1..cols : RowOf(cell)[x] = cell
  BY Height DEF RowOf
<1>7. BlankRows \in Grid(rows, cols)
  BY <1>4, <1>5, <1>6 DEF Grid
<1>8. \A y \in 1..rows : \A x \in 1..cols : BlankRows[y][x] = DefaultCell
  BY <1>4, <1>5, <1>6
<1>9. \A t : \A y \in 1..rows : \A x \in 1..cols : SlotOK(t, BlankRows[y][x])
  BY <1>4, <1>8 DEF SlotOK
<1>. QED  BY <1>1, <1>2, <1>4, <1>6, <1>7, <1>8, <1>9

\* A step of the application keeps the invariant if it keeps the types of the
\* screen and the slots.
LEMMA AppIInv ==
  ASSUME IInv, NEW t, NEW ti \in Titles, AppTitled(t, ti), TableInv',
         current_style' \in Style, cells' \in Grid(rows, cols),
         saved' = None \/ saved' \in Saved(rows, cols),
         cursor_y' \in 1..rows, cursor_x' \in 1..cols, scroll_region' \in Region(rows), modes' \in Modes,
         cursor_visible' \in BOOLEAN, pending' \in BOOLEAN
  PROVE  IInv'
<1>1. TypeInv /\ SentInv /\ ShellClean
  BY DEF IInv
<1>2. /\ SentInv' /\ ShownInv' /\ ShellClean' /\ setup' = setup
      /\ rows' = rows /\ cols' = cols
      /\ (cache = None \/ cache \in Cache(rows, cols))'
      /\ IsTerm(term, rows, cols)' /\ flaws' \subseteq Flaw /\ shown' \in BOOLEAN
      /\ title' = ti
  BY <1>1, AppStep
<1>3. setup' \in Setups
  BY <1>1, <1>2 DEF TypeInv
<1>4. TypeInv'
  BY <1>2, <1>3 DEF TypeInv
<1>. QED  BY <1>2, <1>4 DEF IInv

LEMMA TitleTypes ==
  ASSUME TypeInv
  PROVE  /\ title \in Titles /\ NoTitle \in Titles
         /\ \A name \in Name : [title EXCEPT !.now = name] \in Titles
         /\ Len(title.stack) < MaxTitles =>
              [title EXCEPT !.stack = Append(title.stack, title.now)] \in Titles
         /\ title.stack # <<>> =>
              [now |-> Last(title.stack), stack |-> Front(title.stack)] \in Titles
<1>. DEFINE q == title.stack
            TitleOf(now, stack) == [now |-> now, stack |-> stack]
<1>1. /\ title \in Titles /\ title = TitleOf(title.now, q) /\ title.now \in Name
      /\ q \in Seq(Name) /\ Len(q) <= MaxTitles /\ Len(q) \in Nat /\ MaxTitles \in Nat
  BY CapAssumption DEF TypeInv, Titles
<1>2. \A now \in Name : \A stack \in Seq(Name) :
        Len(stack) <= MaxTitles => TitleOf(now, stack) \in Titles
  BY DEF Titles
<1>3. NoTitle \in Titles
  <2>1. "" \in Name /\ <<>> \in Seq(Name) /\ Len(<<>>) <= MaxTitles
    <3>1. Len(<<>>) = 0 /\ \A S : <<>> \in Seq(S)
      OBVIOUS
    <3>2. 0 <= MaxTitles
      BY CapAssumption
    <3>. QED  BY <3>1, <3>2 DEF Name
  <2>. QED  BY <1>2, <2>1 DEF NoTitle
<1>4. ASSUME NEW name \in Name PROVE [title EXCEPT !.now = name] \in Titles
  <2>1. [title EXCEPT !.now = name] = TitleOf(name, q)
    BY <1>1
  <2>. QED  BY <1>1, <1>2, <2>1
<1>5. ASSUME Len(q) < MaxTitles PROVE [title EXCEPT !.stack = Append(q, title.now)] \in Titles
  <2>0. \A x : [title EXCEPT !.stack = x] = TitleOf(title.now, x)
    BY <1>1
  <2>1. [title EXCEPT !.stack = Append(q, title.now)] = TitleOf(title.now, Append(q, title.now))
    BY <2>0
  <2>2. Append(q, title.now) \in Seq(Name) /\ Len(Append(q, title.now)) = Len(q) + 1
    BY <1>1
  <2>. QED  BY <1>1, <1>2, <1>5, <2>1, <2>2
<1>6. ASSUME q # <<>> PROVE TitleOf(Last(q), Front(q)) \in Titles
  <2>1. Front(q) = SubSeq(q, 1, Len(q) - 1) /\ Last(q) = q[Len(q)]
    BY DEF Front, Last
  <2>2. Front(q) \in Seq(Name) /\ Len(Front(q)) = Len(q) - 1
    BY <1>1, <1>6, <2>1, SeqFront
  <2>3. Last(q) \in Name
    BY <1>1, <1>6, <2>1
  <2>. QED  BY <1>1, <1>2, <2>2, <2>3
<1>. QED  BY <1>1, <1>3, <1>4, <1>5, <1>6

\* Cells become default in another style's place only when cells use every slot.
GivenUp ==
  Degraded(cells') /\ ~Degraded(cells) /\ ~(saved # None /\ Degraded(saved.cells))
    => LiveIds \ {0} = 1..Cap

LEMMA WriteGivenUp ==
  ASSUME TypeInv, TableInv, NEW s \in Style,
         \A y \in 1..rows : \A x \in 1..cols :
           \/ \E z \in 1..rows : cells'[y][x] = cells[z][x]
           \/ \E c : cells'[y][x] = CellAt(c, InternWithGc(s).id, s)
  PROVE  GivenUp
<1>. DEFINE r == InternWithGc(s)
<1>1. SUFFICES ASSUME Degraded(cells'), ~Degraded(cells) PROVE LiveIds \ {0} = 1..Cap
  BY DEF GivenUp
<1>2. PICK y \in 1..rows, x \in 1..cols : cells'[y][x].id = 0 /\ cells'[y][x].asked # DefaultStyle
  BY <1>1, Height DEF Degraded
<1>. HIDE DEF r
<1>3. ~\E z \in 1..rows : cells'[y][x] = cells[z][x]
  BY <1>1, <1>2, Height DEF Degraded
<1>4. PICK c : cells'[y][x] = CellAt(c, r.id, s)
  BY <1>3 DEF r
<1>5. r.id = 0 /\ s # DefaultStyle
  BY <1>2, <1>4 DEF CellAt
<1>. QED  BY <1>5, InternWithGcOK DEF r

LEMMA PrintAtStep ==
  ASSUME IInv, NEW y \in 1..rows, NEW x \in 1..cols, PrintAt(y, x)
  PROVE  IInv' /\ GivenUp
<1>. DEFINE at == AbsoluteRow(y)
            s == current_style
            r == InternWithGc(s)
            c == IF modes["graphics"] THEN "line" ELSE "letter"
<1>1. TypeInv /\ TableInv
  BY DEF IInv
<1>2. at \in 1..rows /\ s \in Style /\ r.id \in 0..Cap
  BY <1>1, AbsoluteRowType, StyleTypes, InternWithGcOK
<1>3. /\ cursor_y' = at /\ cursor_x' = Least(x + 1, cols)
      /\ cells' = [cells EXCEPT ![at][x] = CellAt(c, r.id, s)]
      /\ AppTitled(r.table, title)
      /\ UNCHANGED <<current_style, saved, scroll_region, modes, cursor_visible, pending>>
  BY DEF PrintAt, App
<1>4. c \in Char
  BY DEF Char
<1>5. table' = r.table /\ setup' = setup
  BY <1>3 DEF AppTitled
<1>. HIDE DEF at, s, r, c
<1>6. CellAt(c, r.id, s) \in Cell
  BY <1>1, <1>2, <1>4, CellTypes
<1>. DEFINE row == [cells[at] EXCEPT ![x] = CellAt(c, r.id, s)]
<1>7. cells \in [1..rows -> [1..cols -> Cell]] /\ cells[at] \in [1..cols -> Cell]
  BY <1>1, <1>2 DEF TypeInv, Grid
<1>8. /\ row \in [1..cols -> Cell] /\ row[x] = CellAt(c, r.id, s)
      /\ \A i \in 1..cols : i # x => row[i] = cells[at][i]
  BY <1>6, <1>7
<1>9. cells' = [cells EXCEPT ![at] = row]
  BY <1>3
<1>. HIDE DEF row
<1>10. cells' \in Grid(rows, cols) /\ cells'[at] = row
       /\ \A z \in 1..rows : z # at => cells'[z] = cells[z]
  BY <1>2, <1>7, <1>8, <1>9 DEF Grid
<1>11. \A z \in 1..rows : \A i \in 1..cols :
         \/ \E w \in 1..rows : cells'[z][i] = cells[w][i]
         \/ \E d : cells'[z][i] = CellAt(d, InternWithGc(s).id, s)
  BY <1>2, <1>8, <1>10 DEF r
<1>12. TableInv'
  BY <1>1, <1>2, <1>3, <1>5, <1>11, WriteStep DEF r
<1>13. cursor_x' \in 1..cols
  BY <1>1, <1>3, Height DEF Least
<1>14. IInv'
  BY <1>1, <1>2, <1>3, <1>10, <1>12, <1>13, AppIInv, TitleTypes DEF TypeInv
<1>. QED  BY <1>1, <1>2, <1>11, <1>14, WriteGivenUp

LEMMA EraseLineStep ==
  ASSUME IInv, EraseLine
  PROVE  IInv' /\ GivenUp
<1>. DEFINE s == BlankStyle
            r == InternWithGc(s)
            blank == CellAt("space", r.id, s)
<1>1. TypeInv /\ TableInv
  BY DEF IInv
<1>2. cursor_y \in 1..rows /\ s \in Style /\ r.id \in 0..Cap
  BY <1>1, StyleTypes, InternWithGcOK DEF TypeInv
<1>3. /\ cells' = [cells EXCEPT ![cursor_y] = RowOf(blank)]
      /\ AppTitled(r.table, title)
      /\ UNCHANGED <<current_style, saved, cursor_y, cursor_x, scroll_region, modes,
                     cursor_visible, pending>>
  BY DEF EraseLine, App
<1>4. "space" \in Char
  BY DEF Char
<1>5. table' = r.table /\ setup' = setup
  BY <1>3 DEF AppTitled
<1>. HIDE DEF s, r
<1>6. blank \in Cell
  BY <1>1, <1>2, <1>4, CellTypes
<1>. HIDE DEF blank
<1>7. RowOf(blank) \in [1..cols -> Cell] /\ \A x \in 1..cols : RowOf(blank)[x] = blank
  BY <1>1, <1>6, CellTypes
<1>8. cells' \in Grid(rows, cols) /\ cells'[cursor_y] = RowOf(blank)
      /\ \A z \in 1..rows : z # cursor_y => cells'[z] = cells[z]
  BY <1>1, <1>2, <1>3, <1>7 DEF TypeInv, Grid
<1>9. \A z \in 1..rows : \A x \in 1..cols :
        \/ \E w \in 1..rows : cells'[z][x] = cells[w][x]
        \/ \E d : cells'[z][x] = CellAt(d, InternWithGc(s).id, s)
  BY <1>2, <1>7, <1>8 DEF r, blank
<1>10. TableInv'
  BY <1>1, <1>2, <1>3, <1>5, <1>9, WriteStep DEF r
<1>11. IInv'
  BY <1>1, <1>2, <1>3, <1>8, <1>10, AppIInv, TitleTypes DEF TypeInv
<1>. QED  BY <1>1, <1>2, <1>9, <1>11, WriteGivenUp

LEMMA ScrollUpStep ==
  ASSUME IInv, ScrollUp
  PROVE  IInv' /\ GivenUp
<1>. DEFINE s == BlankStyle
            r == InternWithGc(s)
            top == scroll_region[1]
            bottom == scroll_region[2]
            blank == CellAt("space", r.id, s)
<1>1. TypeInv /\ TableInv
  BY DEF IInv
<1>2. /\ s \in Style /\ r.id \in 0..Cap /\ top \in 1..rows /\ bottom \in 1..rows
      /\ top <= bottom /\ rows \in Nat
  BY <1>1, StyleTypes, InternWithGcOK, RegionType, Height
<1>3. /\ cells' = [y \in 1..rows |->
                     CASE y = bottom -> RowOf(blank)
                       [] y \in top..bottom - 1 -> cells[y + 1]
                       [] y \notin top..bottom -> cells[y]]
      /\ pending' = (pending \/ (top = 1 /\ saved = None))
      /\ AppTitled(r.table, title)
      /\ UNCHANGED <<current_style, saved, cursor_y, cursor_x, scroll_region, modes, cursor_visible>>
  BY <1>1, Height DEF ScrollUp, App
<1>4. "space" \in Char
  BY DEF Char
<1>5. table' = r.table /\ setup' = setup
  BY <1>3 DEF AppTitled
<1>. HIDE DEF s, r, top, bottom
<1>6. blank \in Cell
  BY <1>1, <1>2, <1>4, CellTypes
<1>. HIDE DEF blank
<1>13. RowOf(blank) \in [1..cols -> Cell] /\ \A x \in 1..cols : RowOf(blank)[x] = blank
  BY <1>1, <1>6, CellTypes
<1>7. ASSUME NEW y \in 1..rows
      PROVE  cells'[y] = RowOf(blank) \/ \E z \in 1..rows : cells'[y] = cells[z]
  <2>1. CASE y = bottom
    BY <1>2, <1>3, <2>1
  <2>2. CASE y \in top..bottom - 1
    <3>1. y + 1 \in 1..rows /\ y # bottom /\ y \in top..bottom
      BY <1>2, <2>2
    <3>2. cells'[y] = cells[y + 1]
      BY <1>3, <2>2, <3>1
    <3>. QED  BY <3>1, <3>2
  <2>3. CASE y \notin top..bottom
    <3>1. y # bottom /\ y \notin top..bottom - 1
      BY <1>2, <2>3
    <3>2. cells'[y] = cells[y]
      BY <1>3, <2>3, <3>1
    <3>. QED  BY <3>2
  <2>. QED  BY <1>2, <2>1, <2>2, <2>3
<1>8. cells' \in Grid(rows, cols)
  <2>. DEFINE F(y) == CASE y = bottom -> RowOf(blank)
                        [] y \in top..bottom - 1 -> cells[y + 1]
                        [] y \notin top..bottom -> cells[y]
  <2>1. cells' = [y \in 1..rows |-> F(y)]
    BY <1>3
  <2>. HIDE DEF F
  <2>2. \A y \in 1..rows : cells'[y] \in [1..cols -> Cell]
    BY <1>1, <1>7, <1>13, CellTypes
  <2>3. \A y \in 1..rows : F(y) \in [1..cols -> Cell]
    BY <2>1, <2>2
  <2>. QED  BY <2>1, <2>3 DEF Grid
<1>9. \A z \in 1..rows : \A x \in 1..cols :
        \/ \E w \in 1..rows : cells'[z][x] = cells[w][x]
        \/ \E d : cells'[z][x] = CellAt(d, InternWithGc(s).id, s)
  BY <1>7, <1>13 DEF r, blank
<1>10. TableInv'
  BY <1>1, <1>2, <1>3, <1>5, <1>9, WriteStep DEF r
<1>11. pending' \in BOOLEAN
  BY <1>1, <1>3 DEF TypeInv
<1>12. IInv'
  BY <1>1, <1>2, <1>3, <1>8, <1>10, <1>11, AppIInv, TitleTypes DEF TypeInv
<1>. QED  BY <1>1, <1>2, <1>9, <1>12, WriteGivenUp

\* The sequences that write no cell
LEMMA QuietStep ==
  ASSUME IInv, NEW ti \in Titles, AppTitled(table, ti), UNCHANGED <<cells, saved>>,
         current_style' \in Style,
         cursor_y' \in 1..rows, cursor_x' \in 1..cols, scroll_region' \in Region(rows), modes' \in Modes,
         cursor_visible' \in BOOLEAN, pending' \in BOOLEAN
  PROVE  IInv' /\ GivenUp
<1>1. TypeInv /\ TableInv
  BY DEF IInv
<1>2. table' = table /\ setup' = setup
  BY DEF AppTitled
<1>3. TableInv'
  BY <1>1, <1>2, SameTable
<1>4. cells' \in Grid(rows, cols) /\ (saved' = None \/ saved' \in Saved(rows, cols))
  BY <1>1 DEF TypeInv
<1>5. IInv'
  BY <1>3, <1>4, AppIInv
<1>6. GivenUp
  BY DEF GivenUp
<1>. QED  BY <1>5, <1>6

LEMMA ModeChange ==
  ASSUME TypeInv, NEW m \in Mode, NEW enable \in BOOLEAN
  PROVE  [modes EXCEPT ![m] = enable] \in Modes
BY DEF TypeInv, Modes

LEMMA ScreenTypes ==
  ASSUME TypeInv
  PROVE  /\ current_style \in Style /\ cells \in Grid(rows, cols)
         /\ cursor_y \in 1..rows /\ cursor_x \in 1..cols /\ scroll_region \in Region(rows) /\ modes \in Modes
         /\ cursor_visible \in BOOLEAN /\ pending \in BOOLEAN /\ title \in Titles
BY DEF TypeInv

LEMMA MoveToStep ==
  ASSUME IInv, NEW y \in 1..rows, NEW x \in 1..cols, MoveTo(y, x)
  PROVE  IInv' /\ GivenUp
<1>1. TypeInv
  BY DEF IInv
<1>2. /\ AppTitled(table, title) /\ cursor_y' = AbsoluteRow(y) /\ cursor_x' = x
      /\ UNCHANGED <<current_style, cells, saved, scroll_region, modes,
                     cursor_visible, pending>>
  BY DEF MoveTo, App
<1>. QED  BY <1>1, <1>2, AbsoluteRowType, ScreenTypes, QuietStep

LEMMA SetStyleStep ==
  ASSUME IInv, NEW params \in setup.sgr, SetStyle(params)
  PROVE  IInv' /\ GivenUp
<1>1. TypeInv
  BY DEF IInv
<1>2. /\ AppTitled(table, title) /\ current_style' = ApplySgr(current_style, params)
      /\ UNCHANGED <<cells, saved, cursor_y, cursor_x, scroll_region, modes,
                     cursor_visible, pending>>
  BY DEF SetStyle, App
<1>3. current_style' \in Style
  BY <1>1, <1>2, ScreenTypes, Height, ApplySgrType
<1>. QED  BY <1>1, <1>2, <1>3, ScreenTypes, QuietStep

LEMMA SetRegionStep ==
  ASSUME IInv, NEW top \in 1..rows, NEW bottom \in 1..rows, SetRegion(top, bottom)
  PROVE  IInv' /\ GivenUp
<1>1. TypeInv
  BY DEF IInv
<1>2. /\ AppTitled(table, title) /\ top <= bottom /\ scroll_region' = <<top, bottom>>
      /\ cursor_y' = (IF modes["origin"] THEN top ELSE 1) /\ cursor_x' = 1
      /\ UNCHANGED <<current_style, cells, saved, modes, cursor_visible, pending>>
  BY DEF SetRegion, App
<1>3. scroll_region' \in Region(rows) /\ cursor_y' \in 1..rows /\ cursor_x' \in 1..cols
  BY <1>1, <1>2, RegionType, Height
<1>. QED  BY <1>1, <1>2, <1>3, ScreenTypes, QuietStep

LEMMA SetOriginStep ==
  ASSUME IInv, NEW enable \in BOOLEAN, SetOrigin(enable)
  PROVE  IInv' /\ GivenUp
<1>1. TypeInv
  BY DEF IInv
<1>2. /\ AppTitled(table, title) /\ modes' = [modes EXCEPT !["origin"] = enable]
      /\ cursor_y' = IF enable THEN scroll_region[1] ELSE cursor_y
      /\ cursor_x' = IF enable THEN 1 ELSE cursor_x
      /\ UNCHANGED <<current_style, cells, saved, scroll_region, cursor_visible, pending>>
  BY DEF SetOrigin, App
<1>3. modes' \in Modes
  BY <1>1, <1>2, ModeChange DEF Mode
<1>4. cursor_y' \in 1..rows /\ cursor_x' \in 1..cols
  BY <1>1, <1>2, RegionType, ScreenTypes, Height
<1>. QED  BY <1>1, <1>2, <1>3, <1>4, ScreenTypes, QuietStep

LEMMA SetModeStep ==
  ASSUME IInv, NEW m \in {"graphics", "focus"}, NEW enable \in BOOLEAN, SetMode(m, enable)
  PROVE  IInv' /\ GivenUp
<1>1. TypeInv
  BY DEF IInv
<1>2. /\ AppTitled(table, title) /\ modes' = [modes EXCEPT ![m] = enable]
      /\ UNCHANGED <<current_style, cells, saved, cursor_y, cursor_x, scroll_region,
                     cursor_visible, pending>>
  BY DEF SetMode, App
<1>3. modes' \in Modes
  BY <1>1, <1>2, ModeChange DEF Mode
<1>. QED  BY <1>1, <1>2, <1>3, ScreenTypes, QuietStep

LEMMA SetVisibleStep ==
  ASSUME IInv, NEW enable \in BOOLEAN, SetVisible(enable)
  PROVE  IInv' /\ GivenUp
<1>1. TypeInv
  BY DEF IInv
<1>2. /\ AppTitled(table, title) /\ cursor_visible' = enable
      /\ UNCHANGED <<current_style, cells, saved, cursor_y, cursor_x, scroll_region, modes, pending>>
  BY DEF SetVisible, App
<1>. QED  BY <1>1, <1>2, ScreenTypes, QuietStep

LEMMA SetTitleStep ==
  ASSUME IInv, NEW ti \in Titles, SetTitle(ti)
  PROVE  IInv' /\ GivenUp
<1>1. TypeInv
  BY DEF IInv
<1>2. /\ AppTitled(table, ti)
      /\ UNCHANGED <<current_style, cells, saved, cursor_y, cursor_x, scroll_region, modes,
                     cursor_visible, pending>>
  BY DEF SetTitle
<1>. QED  BY <1>1, <1>2, ScreenTypes, QuietStep

LEMMA TitleStep ==
  ASSUME IInv, (\E name \in Name : NameWindow(name)) \/ PushTitle \/ PopTitle
  PROVE  IInv' /\ GivenUp
<1>1. TypeInv
  BY DEF IInv
<1>2. ASSUME NEW name \in Name, NameWindow(name) PROVE IInv' /\ GivenUp
  BY <1>1, <1>2, TitleTypes, SetTitleStep DEF NameWindow
<1>3. CASE PushTitle
  BY <1>1, <1>3, TitleTypes, SetTitleStep DEF PushTitle
<1>4. CASE PopTitle
  BY <1>1, <1>4, TitleTypes, SetTitleStep DEF PopTitle
<1>. QED  BY <1>2, <1>3, <1>4

LEMMA EnterAltScreenStep ==
  ASSUME IInv, EnterAltScreen
  PROVE  IInv' /\ GivenUp
<1>1. TypeInv /\ TableInv
  BY DEF IInv
<1>2. /\ saved' = [cells |-> cells, modes |-> modes, region |-> scroll_region]
      /\ cells' = BlankRows /\ cursor_y' = 1 /\ cursor_x' = 1 /\ scroll_region' = FullRegion
      /\ AppTitled(table, title)
      /\ UNCHANGED <<current_style, modes, cursor_visible, pending>>
  BY DEF EnterAltScreen, App
<1>3. table' = table /\ rows' = rows /\ cols' = cols
  BY <1>2 DEF AppTitled, rows, cols
<1>4. TableInv'
  <2>1. saved'.cells = cells
    BY <1>2
  <2>2. \A y \in 1..rows : \A x \in 1..cols : SlotOK(table, BlankRows[y][x])
    BY <1>1, CellTypes
  <2>. QED  BY <1>1, <1>2, <1>3, <2>1, <2>2 DEF TableInv
<1>5. saved' \in Saved(rows, cols)
  BY <1>1, <1>2, ScreenTypes DEF Saved
<1>6. cursor_y' \in 1..rows /\ cursor_x' \in 1..cols /\ scroll_region' \in Region(rows) /\ cells' \in Grid(rows, cols)
  BY <1>1, <1>2, Height, RegionType, CellTypes
<1>7. IInv'
  BY <1>1, <1>2, <1>4, <1>5, <1>6, ScreenTypes, AppIInv
<1>8. GivenUp
  BY <1>1, <1>2, Height, CellTypes DEF GivenUp, Degraded
<1>. QED  BY <1>7, <1>8

LEMMA ExitAltScreenStep ==
  ASSUME IInv, ExitAltScreen
  PROVE  IInv' /\ GivenUp
<1>. DEFINE t == Reclaim(table, SavedIds)
<1>1. TypeInv /\ TableInv
  BY DEF IInv
<1>2. /\ saved # None /\ saved' = None /\ cells' = saved.cells /\ modes' = saved.modes
      /\ scroll_region' = saved.region /\ AppTitled(t, title)
      /\ UNCHANGED <<current_style, cursor_y, cursor_x, cursor_visible, pending>>
  BY DEF ExitAltScreen, App
<1>3. TableOK(t) /\ InUse(t, SavedIds) /\ t.styles = table.styles
  BY <1>1, LiveInUse, ReclaimOK DEF TableInv
<1>4. table' = t /\ rows' = rows /\ cols' = cols
  BY <1>2 DEF AppTitled, rows, cols
<1>. HIDE DEF t
<1>5. ASSUME NEW y \in 1..rows, NEW x \in 1..cols PROVE SlotOK(t, saved.cells[y][x])
  <2>1. saved.cells[y][x].id \in SavedIds /\ SlotOK(table, saved.cells[y][x])
    BY <1>1, <1>2, LiveCells DEF TableInv
  <2>2. StyleOf(t, saved.cells[y][x].id) = StyleOf(table, saved.cells[y][x].id)
    BY <1>3 DEF StyleOf
  <2>. QED  BY <1>3, <2>1, <2>2 DEF SlotOK, InUse
<1>6. TableInv'
  BY <1>2, <1>3, <1>4, <1>5 DEF TableInv
<1>7. cells' \in Grid(rows, cols) /\ modes' \in Modes /\ scroll_region' \in Region(rows)
  BY <1>1, <1>2 DEF TypeInv, Saved
<1>8. IInv'
  BY <1>1, <1>2, <1>6, <1>7, ScreenTypes, AppIInv
<1>9. GivenUp
  BY <1>2 DEF GivenUp
<1>. QED  BY <1>8, <1>9

LEMMA FullResetStep ==
  ASSUME IInv, FullReset
  PROVE  IInv' /\ GivenUp
<1>1. TypeInv /\ TableInv
  BY DEF IInv
<1>2. /\ current_style' = DefaultStyle /\ cells' = BlankRows /\ saved' = None
      /\ cursor_y' = 1 /\ cursor_x' = 1 /\ scroll_region' = FullRegion /\ modes' = DefaultModes
      /\ cursor_visible' = TRUE /\ pending' = FALSE /\ AppTitled(EmptyTable, NoTitle)
  BY DEF FullReset
<1>3. table' = EmptyTable /\ rows' = rows /\ cols' = cols
  BY <1>2 DEF AppTitled, rows, cols
<1>4. TableInv'
  BY <1>1, <1>2, <1>3, CellTypes, EmptyTableOK DEF TableInv
<1>5. DefaultModes \in Modes
  BY DEF DefaultModes, Modes
<1>6. /\ cursor_y' \in 1..rows /\ cursor_x' \in 1..cols /\ scroll_region' \in Region(rows) /\ cells' \in Grid(rows, cols)
      /\ current_style' \in Style /\ NoTitle \in Titles
  BY <1>1, <1>2, Height, RegionType, CellTypes, StyleTypes, TitleTypes
<1>7. IInv'
  BY <1>2, <1>4, <1>5, <1>6, AppIInv
<1>8. GivenUp
  BY <1>1, <1>2, Height, CellTypes DEF GivenUp, Degraded
<1>. QED  BY <1>7, <1>8

-----------------------------------------------------------------------------
(* An update, stage by stage. *)

LEMMA GreatestExists ==
  ASSUME NEW n \in Nat, NEW S \in SUBSET (0..n), S # {}
  PROVE  Max(S) \in S /\ \A z \in S : z <= Max(S)
<1>. DEFINE T == {n - y : y \in S}
<1>1. T \subseteq Nat /\ T # {}
  <2>1. T \subseteq Nat
    OBVIOUS
  <2>2. PICK y \in S : TRUE
    OBVIOUS
  <2>3. n - y \in T
    OBVIOUS
  <2>. QED  BY <2>1, <2>3
<1>2. PICK x \in T : \A w \in T : x <= w
  BY <1>1, LeastNat
<1>3. PICK y \in S : x = n - y
  BY <1>2
<1>4. ASSUME NEW z \in S PROVE y >= z
  <2>1. n - z \in T
    OBVIOUS
  <2>2. n - y <= n - z
    BY <1>2, <1>3, <2>1
  <2>. QED  BY <1>3, <2>2
<1>5. Max(S) \in S /\ \A z \in S : Max(S) >= z
  BY <1>4 DEF Max
<1>. QED  BY <1>5

\* The cells that are not written are blank.
LEMMA WriteLenOK ==
  ASSUME TypeInv, NEW y \in 1..rows
  PROVE  /\ WriteLen(cells[y]) \in 0..cols
         /\ \A x \in 1..cols : x > WriteLen(cells[y]) =>
              cells[y][x].c = "space" /\ cells[y][x].id = 0
<1>. DEFINE row == cells[y]
            S == {0} \cup {x \in Col : row[x].c # "space" \/ row[x].id # 0}
<1>1. cols \in Nat /\ Col = 1..cols
  BY Height
<1>2. S \in SUBSET (0..cols) /\ S # {}
  BY <1>1
<1>3. Max(S) \in S /\ \A z \in S : z <= Max(S)
  BY <1>1, <1>2, GreatestExists
<1>4. WriteLen(row) = Max(S)
  BY DEF WriteLen
<1>5. ASSUME NEW x \in 1..cols, x > Max(S) PROVE row[x].c = "space" /\ row[x].id = 0
  <2>1. x \notin S
    <3>1. Max(S) \in 0..cols
      BY <1>2, <1>3
    <3>2. \A z \in S : z <= Max(S)
      BY <1>3
    <3>. HIDE DEF S
    <3>. QED  BY <1>1, <1>5, <3>1, <3>2
  <2>. QED  BY <1>1, <2>1
<1>. QED  BY <1>2, <1>3, <1>4, <1>5

LEMMA TermFields ==
  ASSUME NEW n, NEW m, NEW shows, NEW y \in 1..n, NEW x \in 1..m, NEW region \in Region(n),
         NEW ms \in Modes, NEW visible \in BOOLEAN, NEW name
  PROVE  IsTerm(TermOf(shows, y, x, region, ms, visible, name), n, m)
BY DEF IsTerm, TermOf

LEMMA CursorMoved ==
  ASSUME NEW n, NEW m, NEW t, IsTerm(t, n, m), NEW j \in 1..n, NEW i \in 1..m
  PROVE  /\ IsTerm(CursorAt(t, j, i), n, m) /\ CursorAt(t, j, i).y = j /\ CursorAt(t, j, i).x = i
         /\ CursorAt(t, j, i).rows = t.rows /\ CursorAt(t, j, i).region = t.region
         /\ CursorAt(t, j, i).modes = t.modes /\ CursorAt(t, j, i).visible = t.visible
         /\ CursorAt(t, j, i).title = t.title
<1>. DEFINE v == TermOf(t.rows, j, i, t.region, t.modes, t.visible, t.title)
<1>1. /\ t = TermOf(t.rows, t.y, t.x, t.region, t.modes, t.visible, t.title)
      /\ t.region \in Region(n) /\ t.modes \in Modes /\ t.visible \in BOOLEAN
  BY DEF IsTerm
<1>2. CursorAt(t, j, i) = v
  <2>. DEFINE w == TermOf(t.rows, j, t.x, t.region, t.modes, t.visible, t.title)
  <2>1. [t EXCEPT !.y = j] = w
    BY <1>1 DEF TermOf
  <2>2. [w EXCEPT !.x = i] = v
    BY DEF TermOf
  <2>3. CursorAt(t, j, i) = [[t EXCEPT !.y = j] EXCEPT !.x = i]
    BY DEF CursorAt
  <2>. HIDE DEF v, w
  <2>. QED  BY <2>1, <2>2, <2>3
<1>3. IsTerm(v, n, m)
  BY <1>1, TermFields
<1>4. /\ v.y = j /\ v.x = i /\ v.rows = t.rows /\ v.region = t.region /\ v.modes = t.modes
      /\ v.visible = t.visible /\ v.title = t.title
  BY DEF TermOf
<1>. HIDE DEF v
<1>. QED  BY <1>2, <1>3, <1>4

\* Addressed rows are rows, and the ones meant unless the cursor is displaced.
LEMMA TermRowType ==
  ASSUME NEW t, TypeInv, IsTerm(t, rows, cols)
  PROVE  /\ \A y \in 1..rows : TermRow(t, y) \in 1..rows
         /\ ~Displaced(t) => \A y \in 1..rows : TermRow(t, y) = y
         /\ Home(t) \in 1..rows
<1>1. rows \in Nat \ {0}
  BY Height
<1>2. /\ t.region[1] \in 1..rows /\ t.region[2] \in 1..rows
      /\ t.region[1] <= t.region[2]
  BY DEF IsTerm, Region
<1>3. Home(t) \in 1..rows
  BY <1>1, <1>2 DEF Home
<1>4. ASSUME NEW y \in 1..rows PROVE TermRow(t, y) \in 1..rows
  BY <1>1, <1>2 DEF TermRow, Least
<1>5. ASSUME ~Displaced(t), NEW y \in 1..rows PROVE TermRow(t, y) = y
  <2>1. CASE ~t.modes["origin"]
    BY <2>1 DEF TermRow
  <2>2. CASE t.region = FullRegion
    BY <1>1, <2>2 DEF FullRegion, TermRow, Least
  <2>. QED  BY <1>5, <2>1, <2>2 DEF Displaced
<1>. QED  BY <1>3, <1>4, <1>5

\* The terminal before a full redraw
LEMMA Blanked ==
  ASSUME NEW t, TypeInv, IsTerm(t, rows, cols)
  PROVE  /\ IsTerm(Injected(t), rows, cols) /\ IsTerm(Cleared(t), rows, cols)
         /\ \A y \in 1..rows : \A x \in 1..cols : Cleared(t).rows[y][x] = BlankGlyph
<1>1. rows \in 1..rows /\ 1 \in 1..cols /\ FullRegion \in Region(rows)
  BY Height, RegionType
<1>2. IsTerm(Injected(t), rows, cols)
  <2>1. /\ t = TermOf(t.rows, t.y, t.x, t.region, t.modes, t.visible, t.title)
        /\ t.modes \in Modes
    BY DEF IsTerm
  <2>2. Injected(t) = TermOf(t.rows, rows, 1, FullRegion, t.modes, FALSE, t.title)
    <3>. DEFINE a == TermOf(t.rows, t.y, t.x, FullRegion, t.modes, t.visible, t.title)
                b == TermOf(t.rows, rows, t.x, FullRegion, t.modes, t.visible, t.title)
                c == TermOf(t.rows, rows, 1, FullRegion, t.modes, t.visible, t.title)
                d == TermOf(t.rows, rows, 1, FullRegion, t.modes, FALSE, t.title)
    <3>1. [t EXCEPT !.region = FullRegion] = a
      BY <2>1 DEF TermOf
    <3>2. \A y : [a EXCEPT !.y = y] = TermOf(t.rows, y, t.x, FullRegion, t.modes, t.visible, t.title)
      BY DEF TermOf
    <3>3. [b EXCEPT !.x = 1] = c
      BY DEF TermOf
    <3>4. [c EXCEPT !.visible = FALSE] = d
      <4>1. \A v : [c EXCEPT !.visible = v] =
                      TermOf(t.rows, rows, 1, FullRegion, t.modes, v, t.title)
        BY DEF TermOf
      <4>. QED  BY <4>1
    <3>5. [a EXCEPT !.y = rows] = b
      BY <3>2
    <3>6. Injected(t) = [[[[t EXCEPT !.region = FullRegion] EXCEPT !.y = rows] EXCEPT !.x = 1]
                          EXCEPT !.visible = FALSE]
      BY DEF Injected
    <3>. HIDE DEF a, b, c, d
    <3>7. Injected(t) = d
      BY <3>1, <3>3, <3>4, <3>5, <3>6
    <3>. QED  BY <3>7 DEF d
  <2>. QED  BY <1>1, <2>1, <2>2, TermFields
<1>3. IsTerm(Cleared(t), rows, cols) /\ Cleared(t).rows = FreshTerm.rows
  <2>. DEFINE shows == FreshTerm.rows
              home == Home(t)
              u == TermOf(shows, home, 1, t.region, t.modes, t.visible, t.title)
  <2>1. /\ t = TermOf(t.rows, t.y, t.x, t.region, t.modes, t.visible, t.title)
        /\ t.region \in Region(rows) /\ t.modes \in Modes /\ t.visible \in BOOLEAN
    BY DEF IsTerm
  <2>2. home \in 1..rows
    BY TermRowType
  <2>3. Cleared(t) = [t EXCEPT !.rows = shows, !.y = home, !.x = 1]
    BY DEF Cleared
  <2>. HIDE DEF shows, home
  <2>4. [t EXCEPT !.rows = shows, !.y = home, !.x = 1] = u
    <3>. DEFINE a == TermOf(shows, t.y, t.x, t.region, t.modes, t.visible, t.title)
                b == TermOf(shows, home, t.x, t.region, t.modes, t.visible, t.title)
    <3>1. [t EXCEPT !.rows = shows] = a
      BY <2>1 DEF TermOf
    <3>2. [a EXCEPT !.y = home] = b
      BY DEF TermOf
    <3>3. [b EXCEPT !.x = 1] = u
      BY DEF TermOf
    <3>4. [t EXCEPT !.rows = shows, !.y = home, !.x = 1] =
            [[[t EXCEPT !.rows = shows] EXCEPT !.y = home] EXCEPT !.x = 1]
      OBVIOUS
    <3>. HIDE DEF a, b, u
    <3>. QED  BY <3>1, <3>2, <3>3, <3>4
  <2>5. IsTerm(u, rows, cols)
    BY <1>1, <2>1, <2>2, TermFields
  <2>6. u.rows = shows
    BY DEF TermOf
  <2>. HIDE DEF u
  <2>. QED  BY <2>3, <2>4, <2>5, <2>6 DEF shows
<1>4. \A y \in 1..rows : \A x \in 1..cols : FreshTerm.rows[y][x] = BlankGlyph
  BY Height DEF FreshTerm, RowOf
<1>. QED  BY <1>2, <1>3, <1>4

\* Rows sent are drawn where they belong unless the cursor is displaced.
LEMMA Drawn ==
  ASSUME NEW t, NEW sent \in SUBSET (1..rows), NEW all, TypeInv, IsTerm(t, rows, cols)
  PROVE  LET d == RowsDrawn(t, sent, all)
         IN  /\ IsTerm(d, rows, cols)
             /\ d.region = t.region /\ d.modes = t.modes
             /\ d.visible = t.visible /\ d.title = t.title
             /\ sent = {} => d.y = t.y /\ d.x = t.x
             /\ sent = {} \/ ~Displaced(t) =>
                  \A r \in 1..rows : \A x \in 1..cols : d.rows[r][x] =
                    IF r \in sent /\ (all => x <= WriteLen(cells[r]))
                      THEN Puts(t, r, x, all) ELSE t.rows[r][x]
<1>. DEFINE here(r, x) == {y \in sent : TermRow(t, y) = r /\ (all => x <= WriteLen(cells[y]))}
            shows == [r \in Row |-> [x \in Col |->
                        IF here(r, x) = {} THEN t.rows[r][x] ELSE Puts(t, Max(here(r, x)), x, all)]]
            j == IF sent = {} THEN t.y ELSE TermRow(t, Max(sent))
            i == IF sent = {} THEN t.x ELSE Least(WriteLen(cells[Max(sent)]) + 1, cols)
            u == TermOf(shows, t.y, t.x, t.region, t.modes, t.visible, t.title)
            w == CursorAt(u, j, i)
<1>1. rows \in Nat /\ Row = 1..rows /\ cols \in Nat /\ cols >= 1 /\ Col = 1..cols
  BY Height
<1>2. \A S \in SUBSET sent : S # {} => Max(S) \in S
  <2>1. \A S \in SUBSET sent : S \in SUBSET (0..rows)
    BY <1>1
  <2>. QED  BY <1>1, <2>1, GreatestExists
<1>3. j \in 1..rows /\ i \in 1..cols
  <2>1. CASE sent = {}
    BY <2>1 DEF IsTerm
  <2>2. CASE sent # {}
    <3>1. Max(sent) \in 1..rows
      BY <1>2, <2>2
    <3>2. TermRow(t, Max(sent)) \in 1..rows /\ WriteLen(cells[Max(sent)]) \in 0..cols
      BY <3>1, TermRowType, WriteLenOK
    <3>3. Least(WriteLen(cells[Max(sent)]) + 1, cols) \in 1..cols
      BY <1>1, <3>2 DEF Least
    <3>. QED  BY <2>2, <3>2, <3>3
  <2>. QED  BY <2>1, <2>2
<1>4. IsTerm(u, rows, cols)
  <2>1. /\ t.y \in 1..rows /\ t.x \in 1..cols
        /\ t.region \in Region(rows) /\ t.modes \in Modes /\ t.visible \in BOOLEAN
    BY DEF IsTerm
  <2>. HIDE DEF shows
  <2>. QED  BY <2>1, TermFields
<1>5. [t EXCEPT !.rows = shows] = u
  <2>1. t = TermOf(t.rows, t.y, t.x, t.region, t.modes, t.visible, t.title)
    BY DEF IsTerm
  <2>. HIDE DEF shows
  <2>. QED  BY <2>1 DEF TermOf
<1>6. u.y = t.y /\ u.x = t.x /\ u.rows = shows /\ u.region = t.region /\ u.modes = t.modes
      /\ u.visible = t.visible /\ u.title = t.title
  BY DEF TermOf
<1>7. RowsDrawn(t, sent, all) = w
  <2>. DEFINE row == TermRow(t, Max(sent))
              col == Least(WriteLen(cells[Max(sent)]) + 1, cols)
  <2>1. RowsDrawn(t, sent, all) = [[t EXCEPT !.rows = shows] EXCEPT
          !.y = IF sent = {} THEN @ ELSE row, !.x = IF sent = {} THEN @ ELSE col]
    BY DEF RowsDrawn
  <2>. HIDE DEF u, shows, row, col
  <2>2. RowsDrawn(t, sent, all) = [u EXCEPT
          !.y = IF sent = {} THEN u.y ELSE row, !.x = IF sent = {} THEN u.x ELSE col]
    BY <1>5, <2>1
  <2>. QED  BY <1>6, <2>2 DEF row, col, CursorAt
<1>. HIDE DEF u, j, i
<1>8. /\ IsTerm(w, rows, cols) /\ w.y = j /\ w.x = i /\ w.rows = shows
      /\ w.region = t.region /\ w.modes = t.modes /\ w.visible = t.visible /\ w.title = t.title
  BY <1>3, <1>4, <1>6, CursorMoved
<1>. HIDE DEF w
<1>9. \A r \in 1..rows : \A x \in 1..cols : shows[r][x] =
        IF here(r, x) = {} THEN t.rows[r][x] ELSE Puts(t, Max(here(r, x)), x, all)
  BY <1>1
<1>. HIDE DEF shows
<1>10. ASSUME sent = {} \/ ~Displaced(t), NEW r \in 1..rows, NEW x \in 1..cols
       PROVE  shows[r][x] = IF r \in sent /\ (all => x <= WriteLen(cells[r]))
                              THEN Puts(t, r, x, all) ELSE t.rows[r][x]
  <2>1. \A y \in here(r, x) : y = r
    BY <1>10, TermRowType
  <2>2. r \in here(r, x) <=> r \in sent /\ (all => x <= WriteLen(cells[r]))
    BY <1>10, TermRowType
  <2>3. here(r, x) \in SUBSET sent
    OBVIOUS
  <2>. HIDE DEF here
  <2>4. here(r, x) # {} => Max(here(r, x)) = r /\ r \in here(r, x)
    BY <1>2, <2>1, <2>3
  <2>. QED  BY <1>9, <2>2, <2>4
<1>11. sent = {} => j = t.y /\ i = t.x
  BY DEF j, i
<1>. QED  BY <1>7, <1>8, <1>10, <1>11

LEMMA MarginSet ==
  ASSUME NEW t, TypeInv, IsTerm(t, rows, cols)
  PROVE  /\ IsTerm(RegionSet(t), rows, cols) /\ RegionSet(t).region = scroll_region
         /\ RegionSet(t).rows = t.rows /\ RegionSet(t).modes = t.modes
         /\ RegionSet(t).visible = t.visible /\ RegionSet(t).title = t.title
<1>. DEFINE u == [t EXCEPT !.region = scroll_region]
<1>1. u = TermOf(t.rows, t.y, t.x, scroll_region, t.modes, t.visible, t.title)
  BY DEF IsTerm, TermOf
<1>2. RegionSet(t) = CursorAt(u, Home(u), 1)
  BY DEF RegionSet, CursorAt
<1>. HIDE DEF u
<1>3. IsTerm(u, rows, cols)
  <2>1. /\ t.y \in 1..rows /\ t.x \in 1..cols /\ t.modes \in Modes /\ t.visible \in BOOLEAN
    BY DEF IsTerm
  <2>. QED  BY <1>1, <2>1, ScreenTypes, TermFields
<1>4. /\ u.rows = t.rows /\ u.region = scroll_region /\ u.modes = t.modes
      /\ u.visible = t.visible /\ u.title = t.title
  BY <1>1 DEF TermOf
<1>5. Home(u) \in 1..rows /\ 1 \in 1..cols
  BY <1>3, TermRowType, Height
<1>. QED  BY <1>2, <1>3, <1>4, <1>5, CursorMoved

\* The terminal gets the screen's modes if the last ones sent are those it has.
LEMMA ModesSent ==
  ASSUME NEW t, NEW all, NEW last, TypeInv, IsTerm(t, rows, cols),
         all \/ t.modes = last
  PROVE  LET s == ModesSet(t, all, last)
         IN  /\ IsTerm(s, rows, cols) /\ s.modes = modes
             /\ s.rows = t.rows /\ s.region = t.region
             /\ s.visible = t.visible /\ s.title = t.title
             /\ ~all /\ modes["origin"] = last["origin"] => s.y = t.y /\ s.x = t.x
<1>. DEFINE ms == [x \in Mode |-> IF all \/ modes[x] # last[x] THEN modes[x] ELSE t.modes[x]]
            m == [t EXCEPT !.modes = ms]
<1>1. ms = modes
  <2>1. modes \in [Mode -> BOOLEAN]
    BY DEF TypeInv, Modes
  <2>2. \A x \in Mode : ms[x] = modes[x]
    OBVIOUS
  <2>. HIDE DEF ms
  <2>3. ms = [x \in Mode |-> ms[x]]
    BY DEF ms
  <2>. QED  BY <2>1, <2>2, <2>3
<1>2. ModesSet(t, all, last) =
        IF all \/ modes["origin"] # last["origin"] THEN CursorAt(m, Home(m), 1) ELSE m
  BY DEF ModesSet, CursorAt
<1>. HIDE DEF ms
<1>3. m = TermOf(t.rows, t.y, t.x, t.region, modes, t.visible, t.title)
  <2>. HIDE DEF ms
  <2>. QED  BY <1>1 DEF IsTerm, TermOf
<1>. HIDE DEF m
<1>4. IsTerm(m, rows, cols)
  <2>1. /\ t.y \in 1..rows /\ t.x \in 1..cols /\ t.region \in Region(rows)
        /\ t.visible \in BOOLEAN
    BY DEF IsTerm
  <2>. QED  BY <1>3, <2>1, ScreenTypes, TermFields
<1>5. /\ m.rows = t.rows /\ m.region = t.region /\ m.modes = modes /\ m.y = t.y /\ m.x = t.x
      /\ m.visible = t.visible /\ m.title = t.title
  BY <1>3 DEF TermOf
<1>6. Home(m) \in 1..rows /\ 1 \in 1..cols
  BY <1>4, TermRowType, Height
<1>7. CASE all \/ modes["origin"] # last["origin"]
  BY <1>2, <1>4, <1>5, <1>6, <1>7, CursorMoved
<1>8. CASE ~(all \/ modes["origin"] # last["origin"])
  BY <1>2, <1>4, <1>5, <1>8
<1>. QED  BY <1>7, <1>8

\* What a style looks like on the terminal is that style, and a blank cell is blank.
LEMMA LooksLike ==
  ASSUME NEW t, TypeInv, TableInv, NEW cell
  PROVE  /\ ~(t.modes["graphics"] /\ cell.c = "letter") => Looks(t, cell) = Of(cell)
         /\ cell.c = "space" /\ cell.id = 0 => Of(cell) = BlankGlyph
<1>1. StyleOf(table, cell.id) \in Style
  BY TableTypes, DefaultStyleType DEF TableInv, StyleOf
<1>2. TermStyle(WriteSgr(StyleOf(table, cell.id))) = StyleOf(table, cell.id)
  BY <1>1, RoundTrip DEF TermStyle
<1>3. StyleOf(table, 0) = DefaultStyle
  BY TableTypes DEF TableInv, StyleOf
<1>. QED  BY <1>2, <1>3 DEF Looks, Of, BlankGlyph

\* An update leaves a terminal that has what the new cache says, whatever was
\* there before a full one, and if the old cache was right before a partial one.
LEMMA RenderOK ==
  ASSUME NEW t, NEW all \in BOOLEAN, NEW lines \in BOOLEAN, NEW old,
         TypeInv, TableInv, IsTerm(t, rows, cols), Render(t, all, lines, old),
         all \/ lines \/ (old \in Cache(rows, cols) /\ Sent(t, old, rows, cols, flaws))
  PROVE  /\ IsTerm(term', rows, cols) /\ flaws' \subseteq Flaw /\ shown' = TRUE
         /\ cache' = [rows |-> [y \in 1..rows |-> HashRow(cells[y])], modes |-> modes,
                      region |-> scroll_region, cursor |-> <<cursor_y, cursor_x>>,
                      visible |-> cursor_visible, title |-> title.now]
         /\ Sent(term', cache', rows, cols, flaws')
<1>. DEFINE full   == all \/ lines
            c      == IF full THEN NewCache ELSE old
            blank  == IF full THEN Cleared(IF lines THEN Injected(t) ELSE t) ELSE t
            sent   == {y \in Row : full \/ c.rows[y] # HashRow(cells[y])}
            drawn  == RowsDrawn(blank, sent, full)
            region == c.region # scroll_region
            margin == IF region THEN RegionSet(drawn) ELSE drawn
            last   == IF c.modes = None THEN DefaultModes ELSE c.modes
            moded  == ModesSet(margin, c.modes = None, last)
            due    == CursorDue(c)
            placed == IF due THEN [moded EXCEPT !.y = TermRow(moded, cursor_y), !.x = cursor_x]
                      ELSE moded
            noop   == /\ sent = {} /\ ~region /\ c.modes = modes /\ ~due
                      /\ c.visible = cursor_visible /\ c.title = title.now
            moved  == sent # {} \/ region \/ last["origin"] # modes["origin"]
            named  == IF c.title = title.now THEN placed.title ELSE title.now
            new    == [rows |-> [y \in 1..rows |-> HashRow(cells[y])], modes |-> modes,
                       region |-> scroll_region, cursor |-> <<cursor_y, cursor_x>>,
                       visible |-> cursor_visible, title |-> title.now]
            final  == TermOf(placed.rows, placed.y, placed.x, placed.region, placed.modes,
                             cursor_visible, named)
<1>1. rows \in Nat \ {0} /\ Row = 1..rows /\ cols \in Nat \ {0} /\ Col = 1..cols
  BY Height
<1>2. /\ term' = IF noop THEN t
                 ELSE [placed EXCEPT !.visible = cursor_visible,
                          !.title = IF c.title = title.now THEN @ ELSE title.now]
      /\ cache' = new /\ shown' = TRUE
  BY <1>1 DEF Render
<1>3. flaws' = (IF full THEN {} ELSE flaws \ {"cursor"})
           \cup (IF sent # {} /\ Displaced(blank) THEN {"margin"} ELSE {})
           \cup {f \in {"charset"} : /\ blank.modes["graphics"]
                                     /\ \E y \in sent, x \in Col : cells[y][x].c = "letter"}
           \cup {f \in {"edge"} : ~full /\ \E y \in sent : WriteLen(cells[y]) = cols}
           \cup (IF due THEN {f \in {"cursor"} : Displaced(moded)}
                 ELSE {f \in {"cursor"} : moved \/ f \in flaws})
  BY DEF Render
<1>4. full => /\ c.region = None /\ c.modes = None /\ c.title = None
              /\ sent = 1..rows
  BY <1>1 DEF NewCache
<1>5. ~full => /\ c = old /\ blank = t /\ old \in Cache(rows, cols)
               /\ Sent(t, old, rows, cols, flaws)
  OBVIOUS
<1>6. /\ IsTerm(blank, rows, cols)
      /\ full => \A y \in 1..rows : \A x \in 1..cols : blank.rows[y][x] = BlankGlyph
  BY Blanked
<1>7. sent \in SUBSET (1..rows)
  BY <1>1
<1>8. \A y \in 1..rows \ sent : ~full /\ c.rows[y] = HashRow(cells[y])
  BY <1>1
<1>9. full \in BOOLEAN
  OBVIOUS
<1>. HIDE DEF full, c, blank, sent
<1>10. /\ c.region # scroll_region \/ ~full
       /\ c.title # title.now \/ ~full
  BY <1>4, NoneFacts DEF TypeInv, Titles
<1>11. ~full => /\ c.modes \in Modes /\ c.modes # None /\ c.modes = t.modes
                /\ c.region = t.region /\ c.title = t.title /\ c.visible = t.visible
  <2>1. old \in Cache(rows, cols) => old.modes \in Modes
    BY DEF Cache
  <2>. QED  BY <1>5, <2>1, NoneFacts DEF Sent
<1>12. /\ IsTerm(drawn, rows, cols) /\ drawn.region = blank.region /\ drawn.modes = blank.modes
       /\ drawn.title = blank.title
       /\ sent = {} => drawn.y = blank.y /\ drawn.x = blank.x
       /\ sent = {} \/ ~Displaced(blank) =>
            \A r \in 1..rows : \A x \in 1..cols : drawn.rows[r][x] =
              IF r \in sent /\ (full => x <= WriteLen(cells[r]))
                THEN Puts(blank, r, x, full) ELSE blank.rows[r][x]
  <2>1. \A s \in SUBSET (1..rows) : \A a : LET d == RowsDrawn(blank, s, a) IN
          /\ IsTerm(d, rows, cols) /\ d.region = blank.region /\ d.modes = blank.modes
          /\ d.title = blank.title
          /\ s = {} => d.y = blank.y /\ d.x = blank.x
          /\ s = {} \/ ~Displaced(blank) =>
               \A r \in 1..rows : \A x \in 1..cols : d.rows[r][x] =
                 IF r \in s /\ (a => x <= WriteLen(cells[r]))
                   THEN Puts(blank, r, x, a) ELSE blank.rows[r][x]
    BY <1>6, Drawn
  <2>. QED  BY <1>7, <2>1
<1>. HIDE DEF drawn
<1>13. /\ IsTerm(margin, rows, cols) /\ margin.region = scroll_region
       /\ margin.rows = drawn.rows /\ margin.modes = drawn.modes
       /\ margin.title = drawn.title
       /\ ~region => margin.y = drawn.y /\ margin.x = drawn.x
  <2>1. CASE region
    BY <1>12, <2>1, MarginSet
  <2>2. CASE ~region
    <3>1. drawn.region = scroll_region
      BY <1>5, <1>10, <1>11, <1>12, <2>2
    <3>. QED  BY <1>12, <2>2, <3>1
  <2>. QED  BY <2>1, <2>2
<1>. HIDE DEF margin
<1>14. (c.modes = None) \in BOOLEAN /\ (c.modes = None \/ margin.modes = last)
  BY <1>4, <1>5, <1>11, <1>12, <1>13
<1>15. c.modes = None <=> full
  BY <1>4, <1>11
<1>. HIDE DEF last, region
<1>16. /\ IsTerm(moded, rows, cols) /\ moded.modes = modes /\ moded.rows = margin.rows
       /\ moded.region = scroll_region /\ moded.title = margin.title
       /\ ~full /\ modes["origin"] = last["origin"] =>
            moded.y = margin.y /\ moded.x = margin.x
  <2>. DEFINE first == c.modes = None
  <2>1. first \in BOOLEAN /\ (first \/ margin.modes = last) /\ (first <=> full)
    BY <1>14, <1>15
  <2>2. moded = ModesSet(margin, first, last)
    OBVIOUS
  <2>. HIDE DEF moded, first
  <2>3. ASSUME NEW b, b \/ margin.modes = last, moded = ModesSet(margin, b, last)
        PROVE  /\ IsTerm(moded, rows, cols) /\ moded.modes = modes /\ moded.rows = margin.rows
               /\ moded.region = margin.region /\ moded.title = margin.title
               /\ ~b /\ modes["origin"] = last["origin"] =>
                    moded.y = margin.y /\ moded.x = margin.x
    BY <1>13, <2>3, ModesSent
  <2>4. /\ IsTerm(moded, rows, cols) /\ moded.modes = modes /\ moded.rows = margin.rows
        /\ moded.region = margin.region /\ moded.title = margin.title
        /\ ~first /\ modes["origin"] = last["origin"] =>
             moded.y = margin.y /\ moded.x = margin.x
    BY <2>1, <2>2, <2>3, Zenon
  <2>. QED  BY <1>13, <2>1, <2>4
<1>. HIDE DEF moded
<1>17. /\ IsTerm(placed, rows, cols) /\ placed.modes = modes /\ placed.rows = margin.rows
       /\ placed.region = scroll_region /\ placed.title = margin.title
       /\ due /\ ~Displaced(moded) => placed.y = cursor_y /\ placed.x = cursor_x
       /\ ~due => placed.y = moded.y /\ placed.x = moded.x
  <2>1. CASE due
    <3>1. /\ TermRow(moded, cursor_y) \in 1..rows
          /\ ~Displaced(moded) => TermRow(moded, cursor_y) = cursor_y
      BY <1>16, ScreenTypes, TermRowType
    <3>2. placed = CursorAt(moded, TermRow(moded, cursor_y), cursor_x)
      BY <2>1 DEF CursorAt
    <3>3. cursor_x \in 1..cols
      BY DEF TypeInv
    <3>. HIDE DEF placed
    <3>. QED  BY <1>16, <2>1, <3>1, <3>2, <3>3, CursorMoved
  <2>2. CASE ~due
    BY <1>16, <2>2
  <2>. QED  BY <2>1, <2>2
<1>. HIDE DEF placed
\* What the flaws do not say
<1>18. /\ "margin" \notin flaws' => sent = {} \/ ~Displaced(blank)
       /\ "charset" \notin flaws' => \A y \in sent : \A x \in 1..cols :
            ~(blank.modes["graphics"] /\ cells[y][x].c = "letter")
       /\ "edge" \notin flaws' => full \/ \A y \in sent : WriteLen(cells[y]) # cols
       /\ ~full => flaws \ {"cursor"} \subseteq flaws'
  <2>. HIDE DEF due, moved
  <2>1. "margin" \notin flaws' => sent = {} \/ ~Displaced(blank)
    BY <1>3
  <2>2. "charset" \notin flaws' => \A y \in sent : \A x \in 1..cols :
          ~(blank.modes["graphics"] /\ cells[y][x].c = "letter")
    BY <1>3, Height
  <2>3. "edge" \notin flaws' => full \/ \A y \in sent : WriteLen(cells[y]) # cols
    BY <1>3
  <2>4. ~full => flaws \ {"cursor"} \subseteq flaws'
    BY <1>3
  <2>. QED  BY <2>1, <2>2, <2>3, <2>4
<1>19. "cursor" \notin flaws' => IF due THEN ~Displaced(moded) ELSE ~moved /\ "cursor" \notin flaws
  <2>. HIDE DEF due, moved
  <2>. QED  BY <1>3
<1>20. flaws' \subseteq Flaw
  <2>. HIDE DEF due, moved
  <2>1. flaws \subseteq Flaw
    BY DEF TypeInv
  <2>. QED  BY <1>3, <2>1 DEF Flaw
<1>21. named = title.now
  BY <1>5, <1>10, <1>11, <1>12, <1>13, <1>17 DEF named
<1>22. noop => ~full
  BY <1>10 DEF region
\* The cells the terminal shows
<1>23. ASSUME flaws' \cap {"style", "margin", "charset"} = {}, NEW y \in 1..rows, NEW x \in 1..cols
       PROVE  /\ \/ placed.rows[y][x] = Of(cells[y][x])
                 \/ "edge" \in flaws' /\ x = cols /\ placed.rows[y][x] = BlankGlyph
              /\ y \notin sent => \/ t.rows[y][x] = Of(cells[y][x])
                                  \/ "edge" \in flaws' /\ x = cols /\ t.rows[y][x] = BlankGlyph
  <2>1. placed.rows[y][x] = IF y \in sent /\ (full => x <= WriteLen(cells[y]))
                              THEN Puts(blank, y, x, full) ELSE blank.rows[y][x]
    BY <1>12, <1>13, <1>17, <1>18, <1>23
  <2>2. CASE y \in sent
    <3>1. /\ WriteLen(cells[y]) \in 0..cols
          /\ x > WriteLen(cells[y]) => Of(cells[y][x]) = BlankGlyph
      BY WriteLenOK, LooksLike
    <3>2. Looks(blank, cells[y][x]) = Of(cells[y][x])
      BY <1>18, <1>23, <2>2, LooksLike
    <3>3. CASE full
      BY <1>1, <1>6, <2>1, <2>2, <3>1, <3>2, <3>3 DEF Puts
    <3>4. CASE ~full
      <4>1. placed.rows[y][x] = Puts(blank, y, x, full)
        BY <2>1, <2>2, <3>4
      <4>2. CASE x <= WriteLen(cells[y]) /\ x < cols
        <5>1. placed.rows[y][x] = Looks(blank, cells[y][x])
          BY <4>1, <4>2 DEF Puts
        <5>. QED  BY <2>2, <3>2, <5>1
      <4>3. CASE ~(x <= WriteLen(cells[y]))
        <5>1. placed.rows[y][x] = BlankGlyph
          BY <4>1, <4>3 DEF Puts
        <5>2. x > WriteLen(cells[y])
          BY <1>1, <3>1, <4>3
        <5>. QED  BY <2>2, <3>1, <5>1, <5>2
      <4>4. CASE x <= WriteLen(cells[y]) /\ ~(x < cols)
        <5>1. x = cols /\ WriteLen(cells[y]) = cols
          BY <1>1, <3>1, <4>4
        <5>2. "edge" \in flaws'
          BY <1>18, <2>2, <3>4, <5>1
        <5>3. placed.rows[y][x] = BlankGlyph
          BY <3>4, <4>1, <4>4 DEF Puts
        <5>. QED  BY <2>2, <5>1, <5>2, <5>3
      <4>. QED  BY <2>2, <4>2, <4>3, <4>4
    <3>. QED  BY <2>2, <3>3, <3>4
  <2>3. CASE y \notin sent
    <3>1. ~full /\ c.rows[y] = HashRow(cells[y])
      BY <1>8, <2>3
    <3>2. flaws \cap {"style", "margin", "charset"} = {} /\ ("edge" \in flaws => "edge" \in flaws')
      BY <1>18, <1>23, <3>1
    <3>3. \/ t.rows[y][x] = Of(c.rows[y][x])
          \/ "edge" \in flaws /\ x = cols /\ t.rows[y][x] = BlankGlyph
      BY <1>5, <3>1, <3>2 DEF Sent
    <3>4. Of(c.rows[y][x]) = Of(cells[y][x])
      BY <3>1, SumOf
    <3>. QED  BY <1>5, <2>1, <2>3, <3>1, <3>2, <3>3, <3>4
  <2>. QED  BY <2>2, <2>3
\* The place of its cursor
<1>24. "cursor" \notin flaws' => placed.y = cursor_y /\ placed.x = cursor_x
  <2>. SUFFICES ASSUME "cursor" \notin flaws' PROVE placed.y = cursor_y /\ placed.x = cursor_x
    OBVIOUS
  <2>1. CASE due
    BY <1>17, <1>19, <2>1
  <2>2. CASE ~due
    <3>1. sent = {} /\ ~region /\ last["origin"] = modes["origin"] /\ "cursor" \notin flaws
      BY <1>19, <2>2
    <3>2. ~full
      BY <1>1, <1>4, <3>1
    <3>3. placed.y = t.y /\ placed.x = t.x
      BY <1>5, <1>12, <1>13, <1>16, <1>17, <2>2, <3>1, <3>2
    <3>4. c.cursor = <<t.y, t.x>> /\ c.cursor = <<cursor_y, cursor_x>>
      BY <1>5, <2>2, <3>1, <3>2 DEF Sent, CursorDue
    <3>. QED  BY <3>3, <3>4
  <2>. QED  BY <2>1, <2>2
<1>25. /\ new.modes = modes /\ new.region = scroll_region /\ new.cursor = <<cursor_y, cursor_x>>
       /\ new.visible = cursor_visible /\ new.title = title.now
       /\ \A y \in 1..rows : \A x \in 1..cols : Of(new.rows[y][x]) = Of(cells[y][x])
  BY SumOf
<1>. HIDE DEF new
<1>26. CASE noop
  <2>1. /\ ~full /\ sent = {} /\ ~region /\ c.modes = modes /\ ~due
        /\ c.visible = cursor_visible /\ c.title = title.now
    BY <1>22, <1>26
  <2>2. t.modes = modes /\ t.region = scroll_region /\ t.visible = cursor_visible /\ t.title = title.now
    BY <1>11, <2>1 DEF region
  <2>3. "cursor" \notin flaws' => <<cursor_y, cursor_x>> = <<t.y, t.x>>
    <3>1. "cursor" \notin flaws' => "cursor" \notin flaws
      BY <1>19, <2>1
    <3>. QED  BY <1>5, <2>1, <3>1 DEF Sent, CursorDue
  <2>4. Sent(t, new, rows, cols, flaws')
    BY <1>23, <1>25, <2>1, <2>2, <2>3 DEF Sent
  <2>. HIDE DEF noop
  <2>. QED  BY <1>2, <1>20, <1>26, <2>4 DEF new
<1>27. CASE ~noop
  <2>. HIDE DEF noop
  <2>1. term' = final
    <3>. DEFINE u == TermOf(placed.rows, placed.y, placed.x, placed.region, placed.modes,
                            cursor_visible, placed.title)
    <3>1. [placed EXCEPT !.visible = cursor_visible] = u
      BY <1>17 DEF IsTerm, TermOf
    <3>2. u.title = placed.title
      BY DEF TermOf
    <3>3. \A x : [u EXCEPT !.title = x] =
            TermOf(placed.rows, placed.y, placed.x, placed.region, placed.modes, cursor_visible, x)
      BY DEF TermOf
    <3>4. term' = [[placed EXCEPT !.visible = cursor_visible] EXCEPT
                     !.title = IF c.title = title.now THEN @ ELSE title.now]
      BY <1>2, <1>27
    <3>. HIDE DEF u
    <3>5. term' = [u EXCEPT !.title = IF c.title = title.now THEN u.title ELSE title.now]
      BY <3>1, <3>4
    <3>. QED  BY <3>2, <3>3, <3>5 DEF named, final
  <2>2. IsTerm(final, rows, cols)
    <3>1. placed.y \in 1..rows /\ placed.x \in 1..cols
      BY <1>17 DEF IsTerm
    <3>. QED  BY <1>17, <3>1, ScreenTypes, TermFields
  <2>3. /\ final.rows = placed.rows /\ final.y = placed.y /\ final.x = placed.x
        /\ final.region = scroll_region
        /\ final.modes = modes /\ final.visible = cursor_visible /\ final.title = title.now
    BY <1>17, <1>21 DEF TermOf
  <2>. HIDE DEF final
  <2>4. Sent(final, new, rows, cols, flaws')
    BY <1>23, <1>24, <1>25, <2>3 DEF Sent
  <2>. QED  BY <1>2, <1>20, <2>1, <2>2, <2>4 DEF new
<1>. QED  BY <1>26, <1>27

-----------------------------------------------------------------------------
(* Updates, clients that come and go, and the theorems. *)

LEMMA NewCacheType ==
  ASSUME TypeInv
  PROVE  [rows |-> [y \in 1..rows |-> HashRow(cells[y])], modes |-> modes,
          region |-> scroll_region, cursor |-> <<cursor_y, cursor_x>>,
          visible |-> cursor_visible, title |-> title.now] \in Cache(rows, cols)
<1>1. ASSUME NEW y \in 1..rows PROVE HashRow(cells[y]) \in Sums(cols)
  <2>1. \A x \in 1..cols : cells[y][x] \in Cell
    BY CellTypes
  <2>. QED  BY <2>1, Height DEF HashRow, Cell, Sums
<1>2. title.now \in Name
  BY DEF TypeInv, Titles
<1>. QED  BY <1>1, <1>2, ScreenTypes DEF Cache

\* A step that renders keeps the invariant.
LEMMA RenderStep ==
  ASSUME IInv, NEW t, NEW all \in BOOLEAN, NEW lines \in BOOLEAN, NEW old,
         IsTerm(t, rows, cols), Render(t, all, lines, old),
         all \/ lines \/ (old \in Cache(rows, cols) /\ Sent(t, old, rows, cols, flaws)),
         pending' \in BOOLEAN,
         UNCHANGED <<setup, table, current_style, cells, saved, cursor_y, cursor_x, scroll_region, modes, cursor_visible, title>>
  PROVE  IInv' /\ GivenUp
<1>1. TypeInv /\ TableInv
  BY DEF IInv
<1>2. rows' = rows /\ cols' = cols
  BY DEF rows, cols
<1>3. /\ IsTerm(term', rows, cols) /\ flaws' \subseteq Flaw /\ shown' = TRUE
      /\ cache' = [rows |-> [y \in 1..rows |-> HashRow(cells[y])], modes |-> modes,
                   region |-> scroll_region, cursor |-> <<cursor_y, cursor_x>>,
                   visible |-> cursor_visible, title |-> title.now]
      /\ Sent(term', cache', rows, cols, flaws')
  BY <1>1, RenderOK
<1>4. cache' \in Cache(rows, cols) /\ cache' # None
  BY <1>1, <1>3, NewCacheType, NoneFacts
<1>5. IsTerm(term, rows, cols)'
  BY <1>2, <1>3 DEF IsTerm
<1>6. TypeInv'
  <2>1. shown' \in BOOLEAN
    BY <1>3
  <2>. QED  BY <1>1, <1>2, <1>3, <1>4, <1>5, <2>1 DEF TypeInv
<1>7. TableInv'
  BY <1>1, SameTable
<1>8. Sent(term, cache, rows, cols, flaws)'
  BY <1>2, <1>3 DEF Sent, Of, StyleOf
<1>9. ShownInv'
  BY <1>2, <1>3, <1>4 DEF ShownInv, HashRow, Col
<1>10. SentInv' /\ ShellClean'
  BY <1>4, <1>8 DEF SentInv, ShellClean
<1>11. GivenUp
  BY DEF GivenUp
<1>. QED  BY <1>6, <1>7, <1>9, <1>10, <1>11 DEF IInv

LEMMA UpdateStep ==
  ASSUME IInv, Update
  PROVE  IInv' /\ GivenUp
<1>1. /\ cache # None /\ Render(term, FALSE, pending, cache) /\ pending' = FALSE
      /\ UNCHANGED <<setup, table, current_style, cells, saved, cursor_y, cursor_x, scroll_region, modes, cursor_visible, title>>
  BY DEF Update
<1>2. TypeInv /\ SentInv
  BY DEF IInv
<1>3. /\ pending \in BOOLEAN /\ IsTerm(term, rows, cols)
      /\ cache \in Cache(rows, cols) /\ Sent(term, cache, rows, cols, flaws)
  BY <1>1, <1>2 DEF TypeInv, SentInv
<1>. QED  BY <1>1, <1>3, RenderStep

LEMMA RefreshStep ==
  ASSUME IInv, Refresh
  PROVE  IInv' /\ GivenUp
<1>1. /\ Render(term, TRUE, FALSE, cache)
      /\ UNCHANGED <<setup, table, current_style, cells, saved, cursor_y, cursor_x, scroll_region, modes, cursor_visible, title, pending>>
  BY DEF Refresh
<1>2. TypeInv
  BY DEF IInv
<1>3. pending' \in BOOLEAN /\ IsTerm(term, rows, cols)
  BY <1>1, <1>2 DEF TypeInv
<1>. QED  BY <1>1, <1>3, RenderStep

\* A terminal that was never used
LEMMA FreshTermType ==
  ASSUME TypeInv
  PROVE  IsTerm(FreshTerm, rows, cols)
<1>1. 1 \in 1..rows /\ 1 \in 1..cols /\ FullRegion \in Region(rows) /\ DefaultModes \in Modes
  BY Height, RegionType DEF DefaultModes, Modes
<1>2. FreshTerm = TermOf(FreshTerm.rows, 1, 1, FullRegion, DefaultModes, TRUE, "shell")
  BY DEF FreshTerm, TermOf
<1>. QED  BY <1>1, <1>2, TermFields

\* A mode of the terminal is switched.
LEMMA TermModes ==
  ASSUME NEW t, TypeInv, IsTerm(t, rows, cols), NEW m \in Mode, NEW on \in BOOLEAN
  PROVE  /\ [t EXCEPT !.modes[m] = on] =
              TermOf(t.rows, t.y, t.x, t.region, [t.modes EXCEPT ![m] = on], t.visible, t.title)
         /\ [t.modes EXCEPT ![m] = on] \in Modes
<1>1. t = TermOf(t.rows, t.y, t.x, t.region, t.modes, t.visible, t.title) /\ t.modes \in Modes
  BY DEF IsTerm
<1>2. [t.modes EXCEPT ![m] = on] \in Modes
  BY <1>1 DEF Modes
<1>3. [t EXCEPT !.modes[m] = on] = [t EXCEPT !.modes = [t.modes EXCEPT ![m] = on]]
  BY <1>1 DEF TermOf
<1>4. [t EXCEPT !.modes = [t.modes EXCEPT ![m] = on]] =
        TermOf(t.rows, t.y, t.x, t.region, [t.modes EXCEPT ![m] = on], t.visible, t.title)
  <2>. DEFINE ms == [t.modes EXCEPT ![m] = on]
  <2>. HIDE DEF ms
  <2>1. [t EXCEPT !.modes = ms] = TermOf(t.rows, t.y, t.x, t.region, ms, t.visible, t.title)
    BY <1>1 DEF TermOf
  <2>. QED  BY <2>1 DEF ms
<1>. QED  BY <1>2, <1>3, <1>4

LEMMA AttachStep ==
  ASSUME IInv, NEW t \in {term, FreshTerm}, Attach(t)
  PROVE  IInv' /\ GivenUp
<1>. DEFINE u == [t EXCEPT !.modes["focus"] = TRUE]
<1>1. /\ Render(u, TRUE, FALSE, NewCache) /\ pending' = FALSE
      /\ UNCHANGED <<setup, table, current_style, cells, saved, cursor_y, cursor_x, scroll_region, modes, cursor_visible, title>>
  BY DEF Attach
<1>2. TypeInv
  BY DEF IInv
<1>3. IsTerm(t, rows, cols)
  BY <1>2, FreshTermType DEF TypeInv
<1>4. IsTerm(u, rows, cols)
  <2>1. /\ u = TermOf(t.rows, t.y, t.x, t.region, [t.modes EXCEPT !["focus"] = TRUE],
                      t.visible, t.title)
        /\ [t.modes EXCEPT !["focus"] = TRUE] \in Modes
    BY <1>2, <1>3, TermModes DEF Mode
  <2>2. /\ t.y \in 1..rows /\ t.x \in 1..cols /\ t.region \in Region(rows)
        /\ t.visible \in BOOLEAN
    BY <1>3 DEF IsTerm
  <2>. HIDE DEF u
  <2>. QED  BY <2>1, <2>2, TermFields
<1>. HIDE DEF u
<1>. QED  BY <1>1, <1>4, RenderStep

LEMMA LeaveStep ==
  ASSUME IInv, Leave
  PROVE  IInv' /\ GivenUp
<1>1. TypeInv /\ TableInv
  BY DEF IInv
<1>2. /\ term' = Cleanup(term) /\ cache' = None /\ flaws' = {} /\ shown' = FALSE
      /\ UNCHANGED <<setup, table, current_style, cells, saved, cursor_y, cursor_x, scroll_region, modes, cursor_visible, title, pending>>
  BY DEF Leave
<1>3. rows' = rows /\ cols' = cols /\ FullRegion' = FullRegion
  BY <1>2 DEF rows, cols, FullRegion
<1>. DEFINE ms == [term.modes EXCEPT !["focus"] = FALSE]
            left == TermOf(FreshTerm.rows, 1, 1, FullRegion, ms, TRUE, term.title)
<1>4. Cleanup(term) = left
  <2>. DEFINE with(y, x, region, on, v) == TermOf(FreshTerm.rows, y, x, region, on, v, term.title)
              a == with(term.y, term.x, term.region, term.modes, term.visible)
              b == with(term.y, term.x, FullRegion, term.modes, term.visible)
              c == with(1, 1, FullRegion, term.modes, term.visible)
              d == with(1, 1, FullRegion, term.modes, TRUE)
  <2>2. [term EXCEPT !.rows = FreshTerm.rows] = a
    <3>1. IsTerm(term, rows, cols)
      BY <1>1 DEF TypeInv
    <3>2. term = TermOf(term.rows, term.y, term.x, term.region, term.modes, term.visible, term.title)
      BY <3>1 DEF IsTerm
    <3>. DEFINE shows == FreshTerm.rows
    <3>. HIDE DEF shows
    <3>3. [term EXCEPT !.rows = shows] =
            TermOf(shows, term.y, term.x, term.region, term.modes, term.visible, term.title)
      BY <3>2 DEF TermOf
    <3>. QED  BY <3>3 DEF shows
  <2>3. [a EXCEPT !.region = FullRegion] = b /\ [[b EXCEPT !.y = 1] EXCEPT !.x = 1] = c
    <3>1. \A region : [a EXCEPT !.region = region] =
                       with(term.y, term.x, region, term.modes, term.visible)
      BY DEF TermOf
    <3>2. /\ \A y : [b EXCEPT !.y = y] =
                       with(y, term.x, FullRegion, term.modes, term.visible)
          /\ \A y, x : [with(y, term.x, FullRegion, term.modes, term.visible) EXCEPT !.x = x] =
                         with(y, x, FullRegion, term.modes, term.visible)
      BY DEF TermOf
    <3>3. [a EXCEPT !.region = FullRegion] = b
      BY <3>1
    <3>4. [[b EXCEPT !.y = 1] EXCEPT !.x = 1] = c
      BY <3>2
    <3>. QED  BY <3>3, <3>4
  <2>4. \A v : [c EXCEPT !.visible = v] = with(1, 1, FullRegion, term.modes, v)
    BY DEF TermOf
  <2>5. [c EXCEPT !.visible = TRUE] = d
    BY <2>4
  <2>6. \A v, on : /\ [with(1, 1, FullRegion, term.modes, v) EXCEPT !.modes = on] =
                       with(1, 1, FullRegion, on, v)
                  /\ with(1, 1, FullRegion, term.modes, v).modes = term.modes
    BY DEF TermOf
  <2>7. Cleanup(term) =
          [[[[[[term EXCEPT !.rows = FreshTerm.rows] EXCEPT !.region = FullRegion]
              EXCEPT !.y = 1] EXCEPT !.x = 1] EXCEPT !.visible = TRUE] EXCEPT !.modes["focus"] = FALSE]
    BY DEF Cleanup
  <2>. HIDE DEF a, b, c, d, left
  <2>8. d.modes = term.modes /\ [d EXCEPT !.modes = ms] = left
    BY <2>6, Zenon DEF d, left
  <2>9. [d EXCEPT !.modes["focus"] = FALSE] = left
    BY <2>8
  <2>. QED  BY <2>2, <2>3, <2>5, <2>7, <2>9
<1>5. ms \in Modes /\ ~ms["focus"]
  <2>1. term.modes \in Modes
    BY <1>1 DEF TypeInv, IsTerm
  <2>. QED  BY <2>1 DEF Modes, Mode
<1>6. 1 \in 1..rows /\ 1 \in 1..cols /\ FullRegion \in Region(rows)
  BY <1>1, Height, RegionType
<1>7. left.region = FullRegion /\ left.visible = TRUE /\ left.modes = ms
  BY DEF TermOf
<1>. HIDE DEF ms
<1>8. IsTerm(left, rows, cols)
  BY <1>5, <1>6, TermFields
<1>. HIDE DEF left
<1>9. IsTerm(term, rows, cols)'
  BY <1>2, <1>3, <1>4, <1>8
<1>10. TypeInv'
  <2>1. {} \subseteq Flaw /\ FALSE \in BOOLEAN
    OBVIOUS
  <2>. QED  BY <1>1, <1>2, <1>3, <1>9, <2>1 DEF TypeInv
<1>11. TableInv'
  BY <1>1, <1>2, SameTable
<1>12. SentInv' /\ ShownInv'
  BY <1>2 DEF SentInv, ShownInv
<1>13. ShellClean'
  <2>1. \A m \in Mode \ {"origin", "graphics"} : ~ms[m]
    BY <1>5 DEF Mode
  <2>. QED  BY <1>2, <1>3, <1>4, <1>7, <2>1 DEF ShellClean
<1>14. GivenUp
  BY <1>2 DEF GivenUp
<1>. QED  BY <1>10, <1>11, <1>12, <1>13, <1>14 DEF IInv

LEMMA InitIInv == Init => IInv
<1>. SUFFICES ASSUME Init PROVE IInv
  OBVIOUS
<1>1. /\ setup \in Setups /\ table = EmptyTable /\ current_style = DefaultStyle
      /\ cells = BlankRows /\ saved = None /\ cursor_y = 1 /\ cursor_x = 1
      /\ scroll_region = FullRegion
      /\ modes = DefaultModes /\ cursor_visible = TRUE /\ title = NoTitle
      /\ pending = FALSE /\ cache = None /\ term = FreshTerm /\ flaws = {} /\ shown = FALSE
  BY DEF Init
<1>2. /\ rows \in Nat \ {0} /\ Row = 1..rows
      /\ cols \in Nat \ {0} /\ Col = 1..cols
  BY <1>1, SetupsAssumption DEF rows, Row, cols, Col
<1>3. 1 \in 1..rows /\ 1 \in 1..cols /\ FullRegion \in Region(rows) /\ DefaultModes \in Modes
  BY <1>2 DEF FullRegion, Region, DefaultModes, Modes
<1>4. BlankRows \in Grid(rows, cols) /\ \A y \in 1..rows : \A x \in 1..cols : BlankRows[y][x].id = 0
  <2>1. 0 \in 0..Cap /\ "space" \in Char
    BY CapAssumption DEF Char
  <2>2. DefaultCell \in Cell /\ DefaultCell.id = 0
    BY <2>1, DefaultStyleType DEF DefaultCell, CellAt, Cell
  <2>. HIDE DEF DefaultCell
  <2>3. RowOf(DefaultCell) \in [1..cols -> Cell] /\ \A x \in 1..cols : RowOf(DefaultCell)[x] = DefaultCell
    BY <1>2, <2>2 DEF RowOf
  <2>. QED  BY <1>2, <2>2, <2>3 DEF BlankRows, Grid
<1>5. NoTitle \in Titles
  <2>1. "" \in Name /\ <<>> \in Seq(Name) /\ Len(<<>>) = 0 /\ 0 <= MaxTitles
    BY CapAssumption DEF Name
  <2>. QED  BY <2>1 DEF NoTitle, Titles
<1>6. IsTerm(FreshTerm, rows, cols)
  <2>1. FreshTerm = TermOf(FreshTerm.rows, 1, 1, FullRegion, DefaultModes, TRUE, "shell")
    BY DEF FreshTerm, TermOf
  <2>. QED  BY <1>3, <2>1, TermFields
<1>7. TypeInv
  BY <1>1, <1>3, <1>4, <1>5, <1>6, DefaultStyleType DEF TypeInv
<1>8. TableInv
  BY <1>1, <1>4, EmptyTableOK DEF TableInv, SlotOK
<1>9. SentInv /\ ShownInv
  BY <1>1 DEF SentInv, ShownInv
<1>10. ShellClean
  <2>1. FreshTerm.region = FullRegion /\ FreshTerm.visible /\ FreshTerm.modes = DefaultModes
    BY DEF FreshTerm
  <2>. QED  BY <1>1, <2>1 DEF ShellClean, DefaultModes
<1>. QED  BY <1>7, <1>8, <1>9, <1>10 DEF IInv

\* Every step keeps the invariant, and gives up styles only when it has to.
LEMMA NextIInv == IInv /\ Next => IInv' /\ GivenUp
<1>. SUFFICES ASSUME IInv, Next PROVE IInv' /\ GivenUp
  OBVIOUS
<1>1. Row = 1..rows /\ setup.at \subseteq 1..cols
  BY Height DEF IInv
<1>2. ASSUME NEW y \in Row, NEW x \in setup.at, PrintAt(y, x) PROVE IInv' /\ GivenUp
  BY <1>1, <1>2, PrintAtStep
<1>3. ASSUME NEW y \in Row, NEW x \in setup.at, MoveTo(y, x) PROVE IInv' /\ GivenUp
  BY <1>1, <1>3, MoveToStep
<1>4. CASE EraseLine
  BY <1>4, EraseLineStep
<1>5. CASE ScrollUp
  BY <1>5, ScrollUpStep
<1>6. ASSUME NEW params \in setup.sgr, SetStyle(params) PROVE IInv' /\ GivenUp
  BY <1>6, SetStyleStep
<1>7. ASSUME NEW top \in Row, NEW bottom \in Row, SetRegion(top, bottom)
      PROVE  IInv' /\ GivenUp
  BY <1>1, <1>7, SetRegionStep
<1>8. ASSUME NEW enable \in BOOLEAN, SetOrigin(enable) PROVE IInv' /\ GivenUp
  BY <1>8, SetOriginStep
<1>9. ASSUME NEW m \in {"graphics", "focus"}, NEW enable \in BOOLEAN, SetMode(m, enable)
      PROVE  IInv' /\ GivenUp
  BY <1>9, SetModeStep
<1>10. ASSUME NEW enable \in BOOLEAN, SetVisible(enable) PROVE IInv' /\ GivenUp
  BY <1>10, SetVisibleStep
<1>11. CASE (\E name \in Name : NameWindow(name)) \/ PushTitle \/ PopTitle
  BY <1>11, TitleStep
<1>12. CASE EnterAltScreen
  BY <1>12, EnterAltScreenStep
<1>13. CASE ExitAltScreen
  BY <1>13, ExitAltScreenStep
<1>14. CASE FullReset
  BY <1>14, FullResetStep
<1>15. CASE Update
  BY <1>15, UpdateStep
<1>16. CASE Refresh
  BY <1>16, RefreshStep
<1>17. ASSUME NEW t \in {term, FreshTerm}, Attach(t) PROVE IInv' /\ GivenUp
  BY <1>17, AttachStep
<1>18. CASE Leave
  BY <1>18, LeaveStep
<1>. QED  BY <1>2, <1>3, <1>4, <1>5, <1>6, <1>7, <1>8, <1>9, <1>10, <1>11, <1>12,
             <1>13, <1>14, <1>15, <1>16, <1>17, <1>18, Zenon DEF Next

LEMMA StutterIInv == IInv /\ UNCHANGED vars => IInv'
BY DEF IInv, TypeInv, TableInv, SentInv, Sent, ShownInv, ShellClean, vars, rows, cols,
       FullRegion, Row, Col, IsTerm, StyleOf, Of, HashRow

\* What is on the terminal and in the cache agrees with what the screen's
\* history makes of it: the types, the slots of the style table that cells use,
\* what was sent, and what the next update may rely on.
THEOREM Invariance == Spec => []IInv
<1>1. IInv /\ [Next]_vars => IInv'
  BY NextIInv, StutterIInv, Zenon
<1>. QED  BY InitIInv, <1>1, PTL DEF Spec

\* StyleTable: cells keep the style they were written with through interning,
\* reclaiming and reuse of slots, and a style is given up for the default one
\* only when the cells of both screens use every slot (intern_with_gc).
THEOREM StylesKeptHolds == Spec => StylesKept
<1>1. IInv => TypeOK /\ SlotsHold
  BY TypeInvTypeOK, TableInvSlotsHold DEF IInv
<1>2. IInv /\ [Next]_vars =>
        [Degraded(cells') /\ ~Degraded(cells) /\ ~(saved # None /\ Degraded(saved.cells))
           => LiveIds \ {0} = 1..Cap]_vars
  BY NextIInv, Zenon DEF GivenUp
<1>. QED  BY Invariance, <1>1, <1>2, PTL DEF Spec, StylesKept

\* render: after an update every row of the terminal shows its row of the screen,
\* whatever was sent before, but for the known flaws.
THEOREM RowsShownHolds == Spec => []RowsShown
<1>1. IInv => RowsShown
  BY RowsShownLemma DEF IInv
<1>. QED  BY Invariance, <1>1, PTL

\* emit_mode_delta and the rest of the cache: after an update the terminal has the
\* screen's modes, margins, title and cursor, whoever used it before.
THEOREM ModesShownHolds == Spec => []ModesShown
<1>1. IInv => ModesShown
  BY ModesShownLemma DEF IInv
<1>. QED  BY Invariance, <1>1, PTL

\* cleanup_terminal: a client that leaves hands back all rows, a visible cursor
\* and every mode that is reset.
THEOREM ShellCleanHolds == Spec => []ShellClean
<1>1. IInv => ShellClean
  BY DEF IInv
<1>. QED  BY Invariance, <1>1, PTL

\* write_sgr_with_reset_to and apply_sgr: the current style, whatever sequences
\* made it, survives being written and read.
THEOREM SgrRoundTripHolds == Spec => []SgrRoundTrip
<1>1. IInv => SgrRoundTrip
  BY RoundTripBusy DEF IInv, TypeInv
<1>. QED  BY Invariance, <1>1, PTL
=============================================================================
