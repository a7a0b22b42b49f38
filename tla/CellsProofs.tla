----------------------------- MODULE CellsProofs ----------------------------
(***************************************************************************)
(* Theorems about Cells.tla, for every width of the screen, every          *)
(* parameter and every set of characters.                                  *)
(***************************************************************************)
EXTENDS Cells, TLAPS

-----------------------------------------------------------------------------
(* A row of n columns that is whole. *)

RowOK(r, n) ==
  /\ r \in [1..n -> Cell]
  /\ \A i \in 1..n : r[i].w = 2 => i < n /\ r[i + 1].w = 0
  /\ \A i \in 1..n : r[i].w = 0 => i > 1 /\ r[i - 1].w = 2 /\ r[i].m = 0 /\ r[i].c = Nul

LEMMA RowLen ==
  ASSUME NEW n \in Nat, NEW r \in [1..n -> Cell]
  PROVE  r \in Seq(Cell) /\ Len(r) = n
OBVIOUS

LEMMA RowFun ==
  ASSUME NEW r \in Seq(Cell)
  PROVE  Len(r) \in Nat /\ r \in [1..Len(r) -> Cell]
OBVIOUS

\* The cells the code writes
LEMMA CellTypes ==
  /\ BlankCell \in Cell /\ BlankCell.w = 1
  /\ \A cell \in Cell :
       /\ Blanked(cell) \in Cell /\ Blanked(cell).w = 1
       /\ cell.w \in {0, 1, 2} /\ cell.m \in 0..MaxCombining
<1>1. BlankCell \in Cell /\ BlankCell.w = 1
  BY CombiningAssumption DEF BlankCell, Cell
<1>2. ASSUME NEW cell \in Cell
      PROVE  /\ Blanked(cell) \in Cell /\ Blanked(cell).w = 1
             /\ cell.w \in {0, 1, 2} /\ cell.m \in 0..MaxCombining
  BY <1>2 DEF Blanked, Cell
<1>. QED  BY <1>1, <1>2

\* A character in its first cell, and a continuation
LEMMA NewCell ==
  ASSUME NEW c \in Narrow \cup Wide \cup {Space, Nul}, NEW w \in 0..2
  PROVE  /\ [c |-> c, w |-> w, m |-> 0] \in Cell
         /\ [c |-> c, w |-> w, m |-> 0].w = w /\ [c |-> c, w |-> w, m |-> 0].m = 0
         /\ [c |-> c, w |-> w, m |-> 0].c = c
BY CombiningAssumption DEF Cell

\* The columns of the wide character at x, if there is one
LEMMA PairColumns ==
  ASSUME NEW r, NEW x \in Nat
  PROVE  \A i : i \in PairAt(r, x) <=> \/ r[x].w = 2 /\ (i = x \/ i = x + 1)
                                       \/ r[x].w = 0 /\ x > 1 /\ (i = x - 1 \/ i = x)
<1>1. CASE r[x].w = 2
  <2>1. PairAt(r, x) = {x, x + 1}
    BY <1>1 DEF PairAt
  <2>. QED  BY <1>1, <2>1
<1>2. CASE r[x].w = 0 /\ x > 1
  <2>1. PairAt(r, x) = {x - 1, x}
    BY <1>2 DEF PairAt
  <2>. QED  BY <1>2, <2>1
<1>3. CASE r[x].w # 2 /\ ~(r[x].w = 0 /\ x > 1)
  <2>1. PairAt(r, x) = {}
    BY <1>3 DEF PairAt
  <2>. QED  BY <1>3, <2>1
<1>. QED  BY <1>1, <1>2, <1>3

LEMMA BlankRowOK ==
  ASSUME NEW n \in Nat PROVE RowOK(BlankRow(n), n)
BY CellTypes DEF BlankRow, RowOK

\* fixup_wide_char_at leaves a single cell at x, and elsewhere what was there or
\* a single cell.
LEMMA FixupOK ==
  ASSUME NEW n \in Nat, NEW r, RowOK(r, n), NEW x \in 1..n
  PROVE  /\ RowOK(Fixup(r, x), n)
         /\ Fixup(r, x)[x].w = 1
         /\ \A i \in 1..n : Fixup(r, x)[i] = r[i] \/ Fixup(r, x)[i].w = 1
<1>. DEFINE f == Fixup(r, x)
<1>1. \A i \in 1..n : r[i] \in Cell
  BY DEF RowOK
<1>2. Len(r) = n
  BY RowLen DEF RowOK
<1>3. \A i : i \in PairAt(r, x) <=> \/ r[x].w = 2 /\ (i = x \/ i = x + 1)
                                    \/ r[x].w = 0 /\ x > 1 /\ (i = x - 1 \/ i = x)
  BY PairColumns
<1>4. /\ f \in [1..n -> Cell]
      /\ \A i \in 1..n : f[i] = IF i \in PairAt(r, x) THEN Blanked(r[i]) ELSE r[i]
  BY <1>1, <1>2, CellTypes DEF Fixup
<1>5. \A i \in 1..n : (i \in PairAt(r, x) => f[i].w = 1) /\ (i \notin PairAt(r, x) => f[i] = r[i])
  BY <1>1, <1>4, CellTypes
<1>. HIDE DEF f
<1>6. f[x].w = 1
  BY <1>1, <1>3, <1>5, CellTypes DEF RowOK
<1>7. ASSUME NEW i \in 1..n, f[i].w = 2 PROVE i < n /\ f[i + 1].w = 0
  <2>1. i \notin PairAt(r, x) /\ r[i].w = 2 /\ i < n /\ r[i + 1].w = 0
    BY <1>5, <1>7 DEF RowOK
  <2>2. i + 1 \notin PairAt(r, x)
    BY <1>3, <2>1 DEF RowOK
  <2>. QED  BY <1>5, <2>1, <2>2
<1>8. ASSUME NEW i \in 1..n, f[i].w = 0 PROVE i > 1 /\ f[i - 1].w = 2 /\ f[i].m = 0 /\ f[i].c = Nul
  <2>1. i \notin PairAt(r, x) /\ r[i].w = 0 /\ i > 1 /\ r[i - 1].w = 2 /\ f[i].m = 0 /\ f[i].c = Nul
    BY <1>5, <1>8 DEF RowOK
  <2>2. i - 1 \notin PairAt(r, x)
    BY <1>3, <2>1 DEF RowOK
  <2>. QED  BY <1>5, <2>1, <2>2
<1>9. RowOK(f, n)
  BY <1>4, <1>7, <1>8 DEF RowOK
<1>. QED  BY <1>5, <1>6, <1>9 DEF f

\* set_cell of a character of one column
LEMMA SetNarrowOK ==
  ASSUME NEW n \in Nat, NEW r, RowOK(r, n), NEW x \in 1..n, NEW c \in Narrow
  PROVE  RowOK(SetCell(r, x, c, 1), n)
<1>. DEFINE f == Fixup(r, x)
            new == [c |-> c, w |-> 1, m |-> 0]
            g == [f EXCEPT ![x] = new]
<1>1. RowOK(f, n) /\ f[x].w = 1
  BY FixupOK
<1>2. SetCell(r, x, c, 1) = g
  BY DEF SetCell
<1>3. new \in Cell /\ new.w = 1
  <2>1. c \in Narrow \cup Wide \cup {Space, Nul} /\ 1 \in 0..2
    OBVIOUS
  <2>. QED  BY <2>1, NewCell
<1>. HIDE DEF f, new
<1>4. g \in [1..n -> Cell] /\ g[x].w = 1 /\ \A i \in 1..n : i # x => g[i] = f[i]
  BY <1>1, <1>3 DEF RowOK
<1>. HIDE DEF g
<1>5. ASSUME NEW i \in 1..n, g[i].w = 2 PROVE i < n /\ g[i + 1].w = 0
  BY <1>1, <1>4, <1>5 DEF RowOK
<1>6. ASSUME NEW i \in 1..n, g[i].w = 0 PROVE i > 1 /\ g[i - 1].w = 2 /\ g[i].m = 0 /\ g[i].c = Nul
  BY <1>1, <1>4, <1>6 DEF RowOK
<1>. QED  BY <1>2, <1>4, <1>5, <1>6 DEF RowOK

\* set_cell of a wide character that has room
LEMMA SetWideOK ==
  ASSUME NEW n \in Nat, NEW r, RowOK(r, n), NEW x \in 1..n, x < n, NEW c \in Wide
  PROVE  RowOK(SetCell(r, x, c, 2), n)
<1>. DEFINE f == Fixup(r, x)
            base == [c |-> c, w |-> 2, m |-> 0]
            g == [f EXCEPT ![x] = base]
            h == Fixup(g, x + 1)
            cont == [c |-> Nul, w |-> 0, m |-> 0]
            k == [h EXCEPT ![x + 1] = cont]
<1>1. RowOK(f, n) /\ f[x].w = 1
  BY FixupOK
<1>2. Len(r) = n
  BY RowLen DEF RowOK
<1>3. SetCell(r, x, c, 2) = k
  BY <1>2 DEF SetCell
<1>0. base \in Cell /\ base.w = 2 /\ cont \in Cell /\ cont.w = 0 /\ cont.m = 0 /\ cont.c = Nul
  <2>1. c \in Narrow \cup Wide \cup {Space, Nul} /\ Nul \in Narrow \cup Wide \cup {Space, Nul}
    OBVIOUS
  <2>2. 2 \in 0..2 /\ 0 \in 0..2
    OBVIOUS
  <2>3. base \in Cell /\ base.w = 2
    BY <2>1, <2>2, NewCell
  <2>4. cont \in Cell /\ cont.w = 0 /\ cont.m = 0 /\ cont.c = Nul
    BY <2>1, <2>2, NewCell
  <2>. QED  BY <2>3, <2>4
<1>. HIDE DEF f, base, cont
<1>4. g \in [1..n -> Cell] /\ g[x].w = 2 /\ \A i \in 1..n : i # x => g[i] = f[i]
  BY <1>0, <1>1 DEF RowOK
<1>. HIDE DEF g
<1>5. x + 1 \in 1..n /\ g[x + 1] = f[x + 1] /\ f[x + 1] \in Cell /\ f[x + 1].w \in {1, 2}
  <2>1. x + 1 \in 1..n /\ x + 1 # x /\ (x + 1) - 1 = x
    OBVIOUS
  <2>2. f[x + 1] \in Cell /\ g[x + 1] = f[x + 1]
    BY <1>1, <1>4, <2>1 DEF RowOK
  <2>3. f[x + 1].w # 0
    BY <1>1, <2>1 DEF RowOK
  <2>. QED  BY <2>1, <2>2, <2>3, CellTypes
<1>6. Len(g) = n
  BY <1>4, RowLen
<1>7. \A i : i \in PairAt(g, x + 1) <=> f[x + 1].w = 2 /\ (i = x + 1 \/ i = x + 2)
  BY <1>5 DEF PairAt
<1>8. /\ h \in [1..n -> Cell]
      /\ \A i \in 1..n : i \in PairAt(g, x + 1) => h[i].w = 1
      /\ \A i \in 1..n : i \notin PairAt(g, x + 1) => h[i] = g[i]
  BY <1>4, <1>6, CellTypes DEF Fixup
<1>. HIDE DEF h
<1>9. /\ k \in [1..n -> Cell] /\ k[x + 1].w = 0 /\ k[x + 1].m = 0 /\ k[x + 1].c = Nul
      /\ \A i \in 1..n : i # x + 1 => k[i] = h[i]
  BY <1>0, <1>5, <1>8
<1>. HIDE DEF k
<1>10. k[x].w = 2
  BY <1>4, <1>7, <1>8, <1>9
\* Elsewhere a cell is as after the first fixup, or a single one if the wide
\* character right of x was cut.
<1>11. ASSUME NEW i \in 1..n, i # x, i # x + 1
       PROVE  k[i] = f[i] \/ (k[i].w = 1 /\ i = x + 2 /\ f[x + 1].w = 2)
  BY <1>4, <1>7, <1>8, <1>9, <1>11
<1>12. ASSUME NEW i \in 1..n, k[i].w = 2 PROVE i < n /\ k[i + 1].w = 0
  <2>1. CASE i = x
    BY <1>9, <2>1
  <2>2. CASE i # x
    <3>1. i # x + 1 /\ k[i] = f[i]
      BY <1>9, <1>11, <1>12, <2>2
    <3>2. i < n /\ f[i + 1].w = 0
      BY <1>1, <1>12, <3>1 DEF RowOK
    <3>3. i + 1 # x /\ i + 1 # x + 1
      BY <1>1, <2>2, <3>2 DEF RowOK
    <3>4. ~(i + 1 = x + 2 /\ f[x + 1].w = 2)
      BY <3>1
    <3>. QED  BY <1>11, <3>2, <3>3, <3>4
  <2>. QED  BY <2>1, <2>2
<1>13. ASSUME NEW i \in 1..n, k[i].w = 0 PROVE i > 1 /\ k[i - 1].w = 2 /\ k[i].m = 0 /\ k[i].c = Nul
  <2>1. CASE i = x + 1
    BY <1>9, <1>10, <2>1
  <2>2. CASE i # x + 1
    <3>1. i # x /\ k[i] = f[i]
      BY <1>10, <1>11, <1>13, <2>2
    <3>2. i > 1 /\ f[i - 1].w = 2 /\ f[i].m = 0 /\ f[i].c = Nul
      BY <1>1, <1>13, <3>1 DEF RowOK
    <3>3. i - 1 # x
      BY <2>2
    <3>4. i - 1 # x + 1
      <4>1. CASE i = x + 2
        <5>1. f[x + 1].w = 2 /\ i \in PairAt(g, x + 1)
          BY <1>7, <3>2, <4>1
        <5>2. h[i].w = 1 /\ k[i] = h[i]
          BY <1>8, <1>9, <2>2, <5>1
        <5>. QED  BY <1>13, <5>2
      <4>. QED  BY <4>1
    <3>5. i - 1 # x + 2 \/ f[x + 1].w # 2
      <4>. SUFFICES ASSUME i - 1 = x + 2, f[x + 1].w = 2 PROVE FALSE
        OBVIOUS
      <4>1. x + 1 \in 1..n
        OBVIOUS
      <4>2. f[x + 1 + 1].w = 0
        BY <1>1, <4>1 DEF RowOK
      <4>3. x + 1 + 1 = i - 1
        OBVIOUS
      <4>. QED  BY <3>2, <4>2, <4>3
    <3>. QED  BY <1>11, <3>1, <3>2, <3>3, <3>4, <3>5
  <2>. QED  BY <2>1, <2>2
<1>. QED  BY <1>3, <1>9, <1>12, <1>13 DEF RowOK

\* erase_cells
LEMMA EraseCellsOK ==
  ASSUME NEW n \in Nat, NEW r, RowOK(r, n), NEW from \in 1..n, NEW to \in Nat, from < to
  PROVE  RowOK(EraseCells(r, from, to), n)
<1>. DEFINE end == Least(to, n + 1)
            left == Fixup(r, from)
            fixed == IF end <= n THEN Fixup(left, end) ELSE left
            e == [i \in 1..n |-> IF i \in from..end - 1 THEN BlankCell ELSE fixed[i]]
<1>1. Len(r) = n
  BY RowLen DEF RowOK
<1>2. EraseCells(r, from, to) = e
  BY <1>1 DEF EraseCells
<1>3. end \in Nat /\ from < end /\ end <= n + 1
  BY DEF Least
<1>4. RowOK(left, n) /\ left[from].w = 1
  BY FixupOK
<1>. HIDE DEF end, left
<1>5. /\ RowOK(fixed, n) /\ fixed[from].w = 1
      /\ end <= n => fixed[end].w = 1
  <2>1. CASE end <= n
    <3>1. end \in 1..n
      BY <1>3, <2>1
    <3>. QED  BY <1>4, <2>1, <3>1, FixupOK
  <2>2. CASE ~(end <= n)
    BY <1>4, <2>2
  <2>. QED  BY <2>1, <2>2
<1>. HIDE DEF fixed
<1>6. /\ e \in [1..n -> Cell]
      /\ \A i \in 1..n : i \in from..end - 1 => e[i].w = 1
      /\ \A i \in 1..n : i \notin from..end - 1 => e[i] = fixed[i]
  BY <1>5, CellTypes DEF RowOK
<1>. HIDE DEF e
<1>7. ASSUME NEW i \in 1..n, e[i].w = 2 PROVE i < n /\ e[i + 1].w = 0
  <2>1. i \notin from..end - 1 /\ i < n /\ fixed[i + 1].w = 0
    BY <1>5, <1>6, <1>7 DEF RowOK
  <2>2. i + 1 # from
    BY <1>5, <2>1
  <2>3. i + 1 \notin from..end - 1
    BY <1>3, <2>1, <2>2
  <2>. QED  BY <1>6, <2>1, <2>3
<1>8. ASSUME NEW i \in 1..n, e[i].w = 0 PROVE i > 1 /\ e[i - 1].w = 2 /\ e[i].m = 0 /\ e[i].c = Nul
  <2>1. /\ i \notin from..end - 1 /\ e[i] = fixed[i] /\ i > 1 /\ fixed[i - 1].w = 2
        /\ e[i].m = 0 /\ e[i].c = Nul
    BY <1>5, <1>6, <1>8 DEF RowOK
  <2>2. i # end
    BY <1>5, <1>8, <2>1
  <2>3. i - 1 \notin from..end - 1
    BY <1>3, <2>1, <2>2
  <2>. QED  BY <1>6, <2>1, <2>3
<1>. QED  BY <1>2, <1>6, <1>7, <1>8 DEF RowOK

\* csi_delete_character
LEMMA DeleteCellsOK ==
  ASSUME NEW n \in Nat, NEW r, RowOK(r, n), NEW x \in 1..n, NEW p \in Nat \ {0}
  PROVE  RowOK(DeleteCells(r, x, p), n)
<1>. DEFINE f == Fixup(r, x)
            k == Rounds(r, x, p)
            rem == Removed(f, x, k)
            orphans == {i \in {x - 1, x} : rem[x].w = 0 /\ (i = x \/ (i >= 1 /\ rem[i].w = 2))}
            d == [i \in 1..n |-> IF i \in orphans THEN Blanked(rem[i]) ELSE rem[i]]
<1>1. Len(r) = n
  BY RowLen DEF RowOK
<1>2. RowOK(f, n) /\ f[x].w = 1
  BY FixupOK
<1>3. Len(f) = n
  BY <1>2, RowLen DEF RowOK
<1>4. k \in Nat /\ k >= 1 /\ x + k <= n + 1
  BY <1>1 DEF Rounds, Least
<1>5. DeleteCells(r, x, p) = d
  BY <1>1 DEF DeleteCells
<1>. HIDE DEF f, k
<1>6. /\ rem \in [1..n -> Cell]
      /\ \A i \in 1..n : i < x => rem[i] = f[i]
      /\ \A i \in 1..n : i >= x /\ i + k <= n => rem[i] = f[i + k]
      /\ \A i \in 1..n : i >= x /\ i + k > n => rem[i].w = 1
  BY <1>2, <1>3, <1>4, CellTypes DEF Removed, RowOK
<1>. HIDE DEF rem
<1>7. ASSUME NEW i \in 1..n, i < x, f[i].w = 2 PROVE i + 1 < x /\ rem[i + 1].w = 0
  <2>1. i + 1 \in 1..n /\ f[i + 1].w = 0
    BY <1>2, <1>7 DEF RowOK
  <2>2. i + 1 # x
    BY <1>2, <2>1
  <2>. QED  BY <1>6, <1>7, <2>1, <2>2
<1>8. \A i : i \in orphans <=> i = x /\ rem[x].w = 0
  BY <1>6, <1>7
<1>. HIDE DEF orphans
<1>9. /\ d \in [1..n -> Cell]
      /\ rem[x].w = 0 => d[x].w = 1
      /\ \A i \in 1..n : i # x \/ rem[x].w # 0 => d[i] = rem[i]
  BY <1>6, <1>8, CellTypes
<1>. HIDE DEF d
<1>10. ASSUME NEW i \in 1..n, d[i].w = 2 PROVE i < n /\ d[i + 1].w = 0
  <2>1. d[i] = rem[i]
    BY <1>9, <1>10
  <2>2. CASE i < x
    BY <1>6, <1>7, <1>9, <1>10, <2>1, <2>2
  <2>3. CASE i >= x
    <3>1. i + k <= n /\ rem[i] = f[i + k] /\ i + k \in 1..n
      BY <1>4, <1>6, <1>10, <2>1, <2>3
    <3>2. i + k < n /\ f[i + k + 1].w = 0
      BY <1>2, <1>10, <2>1, <3>1 DEF RowOK
    <3>3. i + 1 \in 1..n /\ i + 1 >= x /\ (i + 1) + k <= n /\ (i + 1) + k = i + k + 1
      BY <1>4, <2>3, <3>2
    <3>. QED  BY <1>6, <1>9, <2>3, <3>2, <3>3
  <2>. QED  BY <2>2, <2>3
<1>11. ASSUME NEW i \in 1..n, d[i].w = 0 PROVE i > 1 /\ d[i - 1].w = 2 /\ d[i].m = 0 /\ d[i].c = Nul
  <2>1. d[i] = rem[i] /\ ~(i = x)
    BY <1>9, <1>11
  <2>2. CASE i < x
    <3>1. i > 1 /\ f[i - 1].w = 2 /\ f[i].m = 0 /\ f[i].c = Nul /\ rem[i] = f[i]
      BY <1>2, <1>6, <1>11, <2>1, <2>2 DEF RowOK
    <3>. QED  BY <1>6, <1>9, <2>1, <2>2, <3>1
  <2>3. CASE i > x
    <3>1. i + k <= n /\ rem[i] = f[i + k] /\ i + k \in 1..n
      BY <1>4, <1>6, <1>11, <2>1, <2>3
    <3>2. f[i + k - 1].w = 2 /\ f[i + k].m = 0 /\ f[i + k].c = Nul
      <4>1. f[i + k].w = 0
        BY <1>11, <2>1, <3>1
      <4>2. \A j \in 1..n : f[j].w = 0 => f[j - 1].w = 2 /\ f[j].m = 0 /\ f[j].c = Nul
        BY <1>2 DEF RowOK
      <4>3. (i + k) - 1 = i + k - 1
        BY <1>4
      <4>. QED  BY <3>1, <4>1, <4>2, <4>3
    <3>3. i - 1 \in 1..n /\ i - 1 >= x /\ (i - 1) + k <= n /\ (i - 1) + k = i + k - 1
      BY <1>4, <2>3, <3>1
    <3>4. rem[i - 1].w = 2
      BY <1>6, <3>2, <3>3
    <3>. QED  BY <1>9, <2>1, <2>3, <3>1, <3>2, <3>3, <3>4
  <2>. QED  BY <2>1, <2>2, <2>3
<1>. QED  BY <1>5, <1>9, <1>10, <1>11 DEF RowOK

\* csi_insert_character
LEMMA InsertCellsOK ==
  ASSUME NEW n \in Nat, NEW r, RowOK(r, n), NEW x \in 1..n, NEW p \in Nat \ {0}
  PROVE  RowOK(InsertCells(r, x, p), n)
<1>. DEFINE f == Fixup(r, x)
            k == Rounds(r, x, p)
            ins == Inserted(f, x, k)
            orphans == {i \in {n - 1, n} : ins[n].w \in {0, 2} /\
                          (i = n \/ (i >= 1 /\ ins[n].w = 0 /\ ins[i].w = 2))}
            d == [i \in 1..n |-> IF i \in orphans THEN Blanked(ins[i]) ELSE ins[i]]
<1>1. Len(r) = n
  BY RowLen DEF RowOK
<1>2. RowOK(f, n) /\ f[x].w = 1
  BY FixupOK
<1>3. Len(f) = n
  BY <1>2, RowLen DEF RowOK
<1>4. k \in Nat /\ k >= 1 /\ x + k <= n + 1
  BY <1>1 DEF Rounds, Least
<1>5. InsertCells(r, x, p) = d
  BY <1>1 DEF InsertCells
<1>. HIDE DEF f, k
<1>6. /\ ins \in [1..n -> Cell]
      /\ \A i \in 1..n : i < x => ins[i] = f[i]
      /\ \A i \in 1..n : i >= x /\ i < x + k => ins[i].w = 1
      /\ \A i \in 1..n : i >= x + k => i - k \in x..n /\ ins[i] = f[i - k]
  BY <1>2, <1>3, <1>4, CellTypes DEF Inserted, RowOK
<1>. HIDE DEF ins
\* Before the margin is looked at, only the last column can be half.
<1>7. ASSUME NEW i \in 1..n, ins[i].w = 2 PROVE i = n \/ (i < n /\ ins[i + 1].w = 0)
  <2>1. CASE i < x
    <3>1. i + 1 \in 1..n /\ f[i + 1].w = 0
      BY <1>2, <1>6, <1>7, <2>1 DEF RowOK
    <3>2. i + 1 < x
      BY <1>2, <2>1, <3>1
    <3>. QED  BY <1>6, <3>1, <3>2
  <2>2. CASE i >= x + k /\ i < n
    <3>1. i - k \in 1..n /\ f[i - k].w = 2
      BY <1>6, <1>7, <2>2
    <3>2. f[(i - k) + 1].w = 0
      BY <1>2, <3>1 DEF RowOK
    <3>3. i + 1 \in 1..n /\ i + 1 >= x + k /\ (i + 1) - k = (i - k) + 1
      BY <1>4, <2>2
    <3>. QED  BY <1>6, <2>2, <3>2, <3>3
  <2>. QED  BY <1>4, <1>6, <1>7, <2>1, <2>2
<1>8. ASSUME NEW i \in 1..n, ins[i].w = 0
      PROVE  i > 1 /\ ins[i - 1].w = 2 /\ ins[i].m = 0 /\ ins[i].c = Nul
  <2>1. CASE i < x
    BY <1>2, <1>6, <1>8, <2>1 DEF RowOK
  <2>2. CASE i >= x + k
    <3>1. i - k \in 1..n /\ i - k >= x /\ ins[i] = f[i - k]
      BY <1>6, <2>2
    <3>2. i - k > 1 /\ f[(i - k) - 1].w = 2 /\ ins[i].m = 0 /\ ins[i].c = Nul
      BY <1>2, <1>8, <3>1 DEF RowOK
    <3>3. i - k # x
      BY <1>2, <1>8, <3>1
    <3>4. i - 1 \in 1..n /\ i - 1 >= x + k /\ (i - 1) - k = (i - k) - 1
      BY <1>4, <3>1, <3>2, <3>3
    <3>. QED  BY <1>4, <1>6, <3>2, <3>4
  <2>. QED  BY <1>4, <1>6, <1>8, <2>1, <2>2
<1>9. \A i \in 1..n : i \in orphans <=> \/ i = n /\ ins[n].w \in {0, 2}
                                        \/ i = n - 1 /\ ins[n].w = 0
  BY <1>8
<1>. HIDE DEF orphans
<1>10. /\ d \in [1..n -> Cell]
       /\ \A i \in 1..n : i \in orphans => d[i].w = 1
       /\ \A i \in 1..n : i \notin orphans => d[i] = ins[i]
  BY <1>6, CellTypes
<1>. HIDE DEF d
<1>11. ASSUME NEW i \in 1..n, d[i].w = 2 PROVE i < n /\ d[i + 1].w = 0
  <2>1. i \notin orphans /\ ins[i].w = 2
    BY <1>10, <1>11
  <2>2. i # n
    BY <1>9, <2>1
  <2>3. i < n /\ ins[i + 1].w = 0 /\ i + 1 \in 1..n
    BY <1>7, <2>1, <2>2
  <2>4. i + 1 \notin orphans
    BY <1>6, <1>8, <1>9, <2>1, <2>3
  <2>. QED  BY <1>10, <2>3, <2>4
<1>12. ASSUME NEW i \in 1..n, d[i].w = 0 PROVE i > 1 /\ d[i - 1].w = 2 /\ d[i].m = 0 /\ d[i].c = Nul
  <2>1. i \notin orphans /\ d[i] = ins[i] /\ ins[i].w = 0
    BY <1>10, <1>12
  <2>2. i # n /\ i > 1 /\ ins[i - 1].w = 2 /\ ins[i].m = 0 /\ ins[i].c = Nul
    BY <1>8, <1>9, <2>1
  <2>3. i - 1 \in 1..n /\ i - 1 \notin orphans
    BY <1>9, <2>2
  <2>. QED  BY <1>10, <2>1, <2>2, <2>3
<1>. QED  BY <1>5, <1>10, <1>11, <1>12 DEF RowOK

\* Row::resize, after fix_wide_char_orphan_at_boundary
LEMMA FitRowOK ==
  ASSUME NEW n \in Nat, NEW r, RowOK(r, n), NEW m \in Nat \ {0}
  PROVE  RowOK(FitRow(r, m), m)
<1>. DEFINE d == FitRow(r, m)
<1>1. Len(r) = n
  BY RowLen DEF RowOK
<1>2. \A i : i \in PairAt(r, m) <=> \/ r[m].w = 2 /\ (i = m \/ i = m + 1)
                                    \/ r[m].w = 0 /\ m > 1 /\ (i = m - 1 \/ i = m)
  BY PairColumns
<1>3. /\ d \in [1..m -> Cell]
      /\ \A i \in 1..m : n > m /\ i \in PairAt(r, m) => d[i].w = 1
      /\ \A i \in 1..m : ~(n > m /\ i \in PairAt(r, m)) /\ i <= n => d[i] = r[i]
      /\ \A i \in 1..m : i > n => d[i].w = 1
  BY <1>1, <1>2, CellTypes DEF FitRow, RowOK
<1>. HIDE DEF d
<1>4. ASSUME NEW i \in 1..m, d[i].w = 2 PROVE i < m /\ d[i + 1].w = 0
  <2>1. ~(n > m /\ i \in PairAt(r, m)) /\ i <= n /\ i \in 1..n /\ r[i].w = 2
    BY <1>3, <1>4
  <2>2. i < n /\ r[i + 1].w = 0
    BY <2>1 DEF RowOK
  <2>3. i # m
    <3>1. ASSUME i = m PROVE FALSE
      <4>1. n > m /\ r[m].w = 2
        BY <2>1, <2>2, <3>1
      <4>2. m \in PairAt(r, m)
        BY <1>2, <4>1
      <4>. QED  BY <2>1, <3>1, <4>1, <4>2
    <3>. QED  BY <3>1
  <2>4. ~(n > m /\ i + 1 \in PairAt(r, m))
    BY <1>2, <2>1, <2>2, <2>3 DEF RowOK
  <2>. QED  BY <1>3, <2>2, <2>3, <2>4
<1>5. ASSUME NEW i \in 1..m, d[i].w = 0 PROVE i > 1 /\ d[i - 1].w = 2 /\ d[i].m = 0 /\ d[i].c = Nul
  <2>1. ~(n > m /\ i \in PairAt(r, m)) /\ i <= n /\ i \in 1..n /\ r[i].w = 0 /\ d[i] = r[i]
    BY <1>3, <1>5
  <2>2. i > 1 /\ r[i - 1].w = 2 /\ r[i].m = 0 /\ r[i].c = Nul
    BY <2>1 DEF RowOK
  <2>3. ~(n > m /\ i - 1 \in PairAt(r, m))
    BY <1>2, <2>1, <2>2 DEF RowOK
  <2>. QED  BY <1>3, <2>1, <2>2, <2>3
<1>. QED  BY <1>3, <1>4, <1>5 DEF RowOK, d

\* RowOK is Whole, for a row of known width.
LEMMA RowOKWhole ==
  ASSUME NEW n \in Nat, NEW r
  PROVE  RowOK(r, n) <=> r \in Seq(Cell) /\ Len(r) = n /\ Whole(r)
<1>1. ASSUME RowOK(r, n) PROVE r \in Seq(Cell) /\ Len(r) = n /\ Whole(r)
  <2>1. r \in Seq(Cell) /\ Len(r) = n
    BY <1>1, RowLen DEF RowOK
  <2>. QED  BY <1>1, <2>1 DEF RowOK, Whole
<1>2. ASSUME r \in Seq(Cell), Len(r) = n, Whole(r) PROVE RowOK(r, n)
  <2>1. r \in [1..n -> Cell]
    BY <1>2, RowFun
  <2>. QED  BY <1>2, <2>1 DEF RowOK, Whole
<1>. QED  BY <1>1, <1>2

-----------------------------------------------------------------------------
(* Edits of any row, torn or not: what they write, and how far they reach. *)

LEMMA FixupNear ==
  ASSUME NEW n \in Nat, NEW r \in [1..n -> Cell], NEW x \in Nat
  PROVE  /\ Fixup(r, x) \in [1..n -> Cell]
         /\ \A i \in 1..n : i < x - 1 \/ i > x + 1 => Fixup(r, x)[i] = r[i]
<1>1. Len(r) = n
  BY RowLen
<1>2. \A i : i \in PairAt(r, x) => i = x - 1 \/ i = x \/ i = x + 1
  BY PairColumns
<1>3. \A i \in 1..n : r[i] \in Cell /\ Blanked(r[i]) \in Cell
  BY CellTypes
<1>. QED  BY <1>1, <1>2, <1>3 DEF Fixup

LEMMA SetCellNear ==
  ASSUME NEW n \in Nat, NEW r \in [1..n -> Cell], NEW x \in 1..n,
         NEW c \in Narrow \cup Wide, NEW w \in {1, 2}
  PROVE  /\ SetCell(r, x, c, w) \in [1..n -> Cell]
         /\ \A i \in 1..n : i < x - 1 \/ i > x + w => SetCell(r, x, c, w)[i] = r[i]
<1>. DEFINE f == Fixup(r, x)
            base == [c |-> c, w |-> w, m |-> 0]
            g == [f EXCEPT ![x] = base]
            h == Fixup(g, x + 1)
            cont == [c |-> Nul, w |-> 0, m |-> 0]
            k == [h EXCEPT ![x + 1] = cont]
<1>1. /\ f \in [1..n -> Cell]
      /\ \A i \in 1..n : i < x - 1 \/ i > x + 1 => f[i] = r[i]
  BY FixupNear
<1>2. base \in Cell /\ cont \in Cell
  <2>1. c \in Narrow \cup Wide \cup {Space, Nul} /\ w \in 0..2
    OBVIOUS
  <2>2. Nul \in Narrow \cup Wide \cup {Space, Nul} /\ 0 \in 0..2
    OBVIOUS
  <2>. QED  BY <2>1, <2>2, NewCell
<1>3. SetCell(r, x, c, w) = IF w = 2 /\ x < n THEN k ELSE g
  <2>1. Len(r) = n
    BY RowLen
  <2>. QED  BY <2>1 DEF SetCell
<1>. HIDE DEF f, base, cont
<1>4. g \in [1..n -> Cell] /\ \A i \in 1..n : i # x => g[i] = f[i]
  BY <1>1, <1>2
<1>. HIDE DEF g
<1>5. x + 1 \in Nat
  OBVIOUS
<1>6. h \in [1..n -> Cell] /\ \A i \in 1..n : i < x \/ i > x + 2 => h[i] = g[i]
  BY <1>4, <1>5, FixupNear
<1>. HIDE DEF h
<1>7. k \in [1..n -> Cell] /\ \A i \in 1..n : i # x + 1 => k[i] = h[i]
  BY <1>2, <1>6
<1>. HIDE DEF k
<1>8. CASE w = 2 /\ x < n
  <2>1. ASSUME NEW i \in 1..n, i < x - 1 \/ i > x + w PROVE k[i] = r[i]
    <3>1. k[i] = h[i] /\ h[i] = g[i] /\ g[i] = f[i] /\ f[i] = r[i]
      BY <1>1, <1>4, <1>6, <1>7, <1>8, <2>1
    <3>. QED  BY <3>1
  <2>. QED  BY <1>3, <1>7, <1>8, <2>1
<1>9. CASE ~(w = 2 /\ x < n)
  <2>1. ASSUME NEW i \in 1..n, i < x - 1 \/ i > x + w PROVE g[i] = r[i]
    <3>1. g[i] = f[i] /\ f[i] = r[i]
      BY <1>1, <1>4, <1>9, <2>1
    <3>. QED  BY <3>1
  <2>. QED  BY <1>3, <1>4, <1>9, <2>1
<1>. QED  BY <1>8, <1>9

LEMMA EraseCellsNear ==
  ASSUME NEW n \in Nat, NEW r \in [1..n -> Cell], NEW from \in 1..n, NEW to \in Nat, from < to
  PROVE  /\ EraseCells(r, from, to) \in [1..n -> Cell]
         /\ \A i \in 1..n : i < from - 1 \/ i > to + 1 => EraseCells(r, from, to)[i] = r[i]
<1>. DEFINE end == Least(to, n + 1)
            left == Fixup(r, from)
            fixed == IF end <= n THEN Fixup(left, end) ELSE left
            e == [i \in 1..n |-> IF i \in from..end - 1 THEN BlankCell ELSE fixed[i]]
<1>1. EraseCells(r, from, to) = e
  <2>1. Len(r) = n
    BY RowLen
  <2>. QED  BY <2>1 DEF EraseCells
<1>2. end \in Nat /\ from < end /\ end <= to
  BY DEF Least
<1>3. /\ left \in [1..n -> Cell]
      /\ \A i \in 1..n : i < from - 1 \/ i > from + 1 => left[i] = r[i]
  BY FixupNear
<1>. HIDE DEF left
<1>4. /\ Fixup(left, end) \in [1..n -> Cell]
      /\ \A i \in 1..n : i < end - 1 \/ i > end + 1 => Fixup(left, end)[i] = left[i]
  BY <1>2, <1>3, FixupNear
<1>5. end <= n \/ end = n + 1
  BY DEF Least
<1>. HIDE DEF end
<1>6. /\ fixed \in [1..n -> Cell]
      /\ \A i \in 1..n : i < end - 1 \/ i > end + 1 => fixed[i] = left[i]
  BY <1>3, <1>4
<1>. HIDE DEF fixed
<1>7. e \in [1..n -> Cell] /\ \A i \in 1..n : i \notin from..end - 1 => e[i] = fixed[i]
  BY <1>6, CellTypes
<1>. HIDE DEF e
<1>8. ASSUME NEW i \in 1..n, i < from - 1 \/ i > to + 1 PROVE e[i] = r[i]
  <2>1. CASE i < from - 1
    BY <1>2, <1>3, <1>6, <1>7, <2>1
  <2>2. CASE i > to + 1
    <3>1. end <= to /\ i > end + 1
      BY <1>2, <2>2
    <3>2. e[i] = fixed[i] /\ fixed[i] = left[i]
      BY <1>2, <1>6, <1>7, <3>1
    <3>3. i > from + 1
      BY <1>2, <3>1
    <3>. QED  BY <1>3, <3>2, <3>3
  <2>. QED  BY <1>8, <2>1, <2>2
<1>. QED  BY <1>1, <1>7, <1>8

LEMMA DeleteCellsNear ==
  ASSUME NEW n \in Nat, NEW r \in [1..n -> Cell], NEW x \in 1..n, NEW p \in Nat \ {0}
  PROVE  /\ DeleteCells(r, x, p) \in [1..n -> Cell]
         /\ \A i \in 1..n : i < x - 1 => DeleteCells(r, x, p)[i] = r[i]
         /\ \A i \in 1..n : i > x /\ i + p <= n => DeleteCells(r, x, p)[i] = r[i + p]
<1>. DEFINE f == Fixup(r, x)
            k == Rounds(r, x, p)
            rem == Removed(f, x, k)
            orphans == {i \in {x - 1, x} : rem[x].w = 0 /\ (i = x \/ (i >= 1 /\ rem[i].w = 2))}
            d == [i \in 1..n |-> IF i \in orphans THEN Blanked(rem[i]) ELSE rem[i]]
<1>1. Len(r) = n
  BY RowLen
<1>2. /\ f \in [1..n -> Cell]
      /\ \A i \in 1..n : i < x - 1 \/ i > x + 1 => f[i] = r[i]
  BY FixupNear
<1>3. Len(f) = n
  BY <1>2, RowLen
<1>4. k \in Nat /\ k >= 1 /\ (x + p <= n => k = p)
  BY <1>1 DEF Rounds, Least
<1>5. DeleteCells(r, x, p) = d
  BY <1>1 DEF DeleteCells
<1>. HIDE DEF f, k
<1>6. /\ rem \in [1..n -> Cell]
      /\ \A i \in 1..n : i < x => rem[i] = f[i]
      /\ \A i \in 1..n : i >= x /\ i + k <= n => rem[i] = f[i + k]
  BY <1>2, <1>3, <1>4, CellTypes DEF Removed
<1>. HIDE DEF rem
<1>7. d \in [1..n -> Cell] /\ \A i \in 1..n : i # x - 1 /\ i # x => d[i] = rem[i]
  BY <1>6, CellTypes
<1>. HIDE DEF d
<1>8. ASSUME NEW i \in 1..n, i < x - 1 PROVE d[i] = r[i]
  BY <1>2, <1>6, <1>7, <1>8
<1>9. ASSUME NEW i \in 1..n, i > x, i + p <= n PROVE d[i] = r[i + p]
  <2>1. k = p /\ i + p \in 1..n /\ i + p > x + 1
    BY <1>4, <1>9
  <2>2. d[i] = rem[i] /\ rem[i] = f[i + p]
    BY <1>6, <1>7, <1>9, <2>1
  <2>. QED  BY <1>2, <2>1, <2>2
<1>. QED  BY <1>5, <1>7, <1>8, <1>9

LEMMA InsertCellsNear ==
  ASSUME NEW n \in Nat, NEW r \in [1..n -> Cell], NEW x \in 1..n, NEW p \in Nat \ {0}
  PROVE  /\ InsertCells(r, x, p) \in [1..n -> Cell]
         /\ \A i \in 1..n : i < x - 1 /\ i < n - 1 => InsertCells(r, x, p)[i] = r[i]
         /\ \A i \in 1..n : i > x + p + 1 /\ i < n - 1 => InsertCells(r, x, p)[i] = r[i - p]
<1>. DEFINE f == Fixup(r, x)
            k == Rounds(r, x, p)
            ins == Inserted(f, x, k)
            orphans == {i \in {n - 1, n} : ins[n].w \in {0, 2} /\
                          (i = n \/ (i >= 1 /\ ins[n].w = 0 /\ ins[i].w = 2))}
            d == [i \in 1..n |-> IF i \in orphans THEN Blanked(ins[i]) ELSE ins[i]]
<1>1. Len(r) = n
  BY RowLen
<1>2. /\ f \in [1..n -> Cell]
      /\ \A i \in 1..n : i < x - 1 \/ i > x + 1 => f[i] = r[i]
  BY FixupNear
<1>3. Len(f) = n
  BY <1>2, RowLen
<1>4. k \in Nat /\ k >= 1 /\ (x + p <= n => k = p)
  BY <1>1 DEF Rounds, Least
<1>0. Len(ins) = n
  BY <1>3 DEF Inserted
<1>5. InsertCells(r, x, p) = d
  BY <1>1 DEF InsertCells
<1>. HIDE DEF f, k
<1>6. /\ ins \in [1..n -> Cell]
      /\ \A i \in 1..n : i < x => ins[i] = f[i]
      /\ \A i \in 1..n : i >= x + k => ins[i] = f[i - k]
  BY <1>2, <1>3, <1>4, CellTypes DEF Inserted
<1>. HIDE DEF ins
<1>7. d \in [1..n -> Cell] /\ \A i \in 1..n : i < n - 1 => d[i] = ins[i]
  BY <1>6, CellTypes
<1>. HIDE DEF d
<1>8. ASSUME NEW i \in 1..n, i < x - 1, i < n - 1 PROVE d[i] = r[i]
  BY <1>2, <1>6, <1>7, <1>8
<1>9. ASSUME NEW i \in 1..n, i > x + p + 1, i < n - 1 PROVE d[i] = r[i - p]
  <2>1. k = p /\ i - p \in 1..n /\ i - p > x + 1 /\ i >= x + k
    BY <1>4, <1>9
  <2>2. d[i] = ins[i] /\ ins[i] = f[i - p]
    BY <1>6, <1>7, <1>9, <2>1
  <2>. QED  BY <1>2, <2>1, <2>2
<1>. QED  BY <1>5, <1>7, <1>8, <1>9

LEMMA FitRowType ==
  ASSUME NEW n \in Nat, NEW r \in [1..n -> Cell], NEW m \in Nat
  PROVE  FitRow(r, m) \in [1..m -> Cell]
<1>1. Len(r) = n
  BY RowLen
<1>2. \A i \in 1..n : r[i] \in Cell /\ Blanked(r[i]) \in Cell
  BY CellTypes
<1>. QED  BY <1>1, <1>2, CellTypes DEF FitRow

\* DECALN leaves single cells only.
LEMMA AlignedOK ==
  ASSUME NEW n \in Nat, NEW r, Len(r) = n, NEW c \in Narrow
  PROVE  RowOK(Aligned(r, c), n)
<1>. DEFINE full == [c |-> c, w |-> 1, m |-> 0]
<1>1. full \in Cell /\ full.w = 1
  <2>1. c \in Narrow \cup Wide \cup {Space, Nul} /\ 1 \in 0..2
    OBVIOUS
  <2>. QED  BY <2>1, NewCell
<1>. HIDE DEF full
<1>2. /\ Aligned(r, c) \in [1..n -> Cell]
      /\ \A i \in 1..n : Aligned(r, c)[i] = full \/ Aligned(r, c)[i] = BlankCell
  BY <1>1, CellTypes DEF Aligned, full
<1>. QED  BY <1>1, <1>2, CellTypes DEF RowOK

-----------------------------------------------------------------------------
(* Where the row goes. *)

\* What Follow may take up on a screen of k columns
AtOK(at, k) ==
  /\ at.row \in Seq(Cell) /\ at.place \in Places
  /\ at.place \in Visible => Len(at.row) = k
  /\ at.place = "saved" => ~OnMain

\* The cells of at are no more torn than those of r.
AsWhole(at, r) == Whole(r) => Whole(at.row)

\* A step that keeps the types, and a whole row whole.
Kept == TypeOK' /\ (Whole(row) => Whole(row'))

LEMMA AtFields ==
  ASSUME NEW r, NEW p
  PROVE  [row |-> r, place |-> p].row = r /\ [row |-> r, place |-> p].place = p
OBVIOUS

LEMMA GoneOK ==
  ASSUME NEW k, NEW r PROVE AtOK(Gone, k) /\ AsWhole(Gone, r)
<1>1. Gone.row = <<>> /\ Gone.place = "gone"
  BY DEF Gone
<1>2. <<>> \in Seq(Cell) /\ Len(<<>>) = 0
  OBVIOUS
<1>. QED  BY <1>1, <1>2 DEF AtOK, AsWhole, Whole, Places, Visible

LEMMA HereOK ==
  ASSUME TypeOK PROVE AtOK(Here, cols) /\ AsWhole(Here, row)
<1>1. Here.row = row /\ Here.place = place
  BY DEF Here
<1>. QED  BY <1>1 DEF AtOK, AsWhole, TypeOK

\* Rows of the screen's width, on the screen or in the scrollback
LEMMA RowsOK ==
  ASSUME NEW k \in Nat, NEW r \in [1..k -> Cell], NEW ps \in SUBSET (Visible \cup {"scrollback"}),
         NEW to \in Rows(r, ps)
  PROVE  AtOK(to, k) /\ to.row = r /\ to.place \in ps
<1>1. PICK p \in ps : to = [row |-> r, place |-> p]
  BY DEF Rows
<1>2. to.row = r /\ to.place = p
  BY <1>1, AtFields
<1>3. r \in Seq(Cell) /\ Len(r) = k
  BY RowLen
<1>4. p \in Visible \cup {"scrollback"} /\ p # "saved"
  BY DEF Visible
<1>. QED  BY <1>1, <1>2, <1>3, <1>4 DEF AtOK, Places

LEMMA BlankOK ==
  ASSUME NEW k \in Nat, NEW ps \in SUBSET (Visible \cup {"scrollback"}),
         NEW to \in Rows(BlankRow(k), ps), NEW r
  PROVE  AtOK(to, k) /\ AsWhole(to, r)
<1>1. RowOK(BlankRow(k), k)
  BY BlankRowOK
<1>2. BlankRow(k) \in [1..k -> Cell] /\ Whole(BlankRow(k))
  BY <1>1, RowOKWhole DEF RowOK
<1>. QED  BY <1>2, RowsOK DEF AsWhole

LEMMA VisibleRow ==
  ASSUME NEW k \in Nat, NEW at, AtOK(at, k), at.place \in Visible
  PROVE  at.row \in [1..k -> Cell]
<1>1. at.row \in Seq(Cell) /\ Len(at.row) = k
  BY DEF AtOK
<1>. QED  BY <1>1, RowFun

LEMMA ScrolledOK ==
  ASSUME cols \in Nat \ {0}, NEW at, AtOK(at, cols),
         NEW ps \in SUBSET (Visible \cup {"scrollback"}), NEW to \in Scrolled(at, ps)
  PROVE  AtOK(to, cols) /\ AsWhole(to, at.row)
<1>1. CASE at.place \in Visible
  <2>1. to \in Rows(at.row, ps) \/ to = Gone
    <3>1. at.place # "gone"
      BY <1>1 DEF Visible
    <3>2. Scrolled(at, ps) = Rows(at.row, ps) \cup {Gone}
      BY <1>1, <3>1 DEF Scrolled
    <3>. QED  BY <3>2
  <2>2. at.row \in [1..cols -> Cell]
    BY <1>1, VisibleRow
  <2>3. CASE to \in Rows(at.row, ps)
    <3>1. AtOK(to, cols) /\ to.row = at.row
      BY <2>2, <2>3, RowsOK
    <3>. QED  BY <3>1 DEF AsWhole
  <2>. QED  BY <2>1, <2>3, GoneOK
<1>2. CASE at.place = "gone"
  <2>1. at.place \notin Visible
    BY <1>2 DEF Visible
  <2>2. to \in Rows(BlankRow(cols), ps) \/ to = Gone
    BY <1>2, <2>1 DEF Scrolled
  <2>. QED  BY <2>2, BlankOK, GoneOK
<1>3. CASE at.place \notin Visible /\ at.place # "gone"
  <2>1. to = at
    BY <1>3 DEF Scrolled
  <2>. QED  BY <2>1 DEF AsWhole
<1>. QED  BY <1>1, <1>2, <1>3

LEMMA UpwardsOK ==
  ASSUME cols \in Nat \ {0}, NEW at, AtOK(at, cols), NEW to \in Upwards(at)
  PROVE  AtOK(to, cols) /\ AsWhole(to, at.row)
<1>1. \/ to = Gone
      \/ to \in Scrolled(at, Visible)
      \/ to \in Scrolled(at, Visible \cup {"scrollback"})
  BY DEF Upwards
<1>2. /\ Visible \in SUBSET (Visible \cup {"scrollback"})
      /\ Visible \cup {"scrollback"} \in SUBSET (Visible \cup {"scrollback"})
  OBVIOUS
<1>. QED  BY <1>1, <1>2, GoneOK, ScrolledOK

LEMMA ElsewhereOK ==
  ASSUME cols \in Nat \ {0}, NEW at, AtOK(at, cols), NEW to \in Elsewhere(at)
  PROVE  /\ AtOK(to, cols) /\ to.row = at.row
         /\ at.place \in Visible => to.place \in Visible
         /\ at.place \notin Visible => to = at
<1>1. CASE at.place \in Visible
  <2>1. to \in Rows(at.row, Visible) /\ at.row \in [1..cols -> Cell]
    BY <1>1, VisibleRow DEF Elsewhere
  <2>. QED  BY <1>1, <2>1, RowsOK
<1>2. CASE at.place \notin Visible
  BY <1>2 DEF Elsewhere
<1>. QED  BY <1>1, <1>2

\* What a step has to show.
LEMMA FollowKept ==
  ASSUME TypeOK, NEW k \in Nat \ {0}, cols' = k, NEW at, AtOK(at, k), AsWhole(at, row),
         Follow(at), cursor_x' \in 1..k, wrap_pending' \in BOOLEAN,
         autowrap_mode' \in BOOLEAN, saved' \in SavedCursor \cup {None},
         main_autowrap' \in BOOLEAN \cup {None},
         main_autowrap' = main_autowrap \/ at.place # "saved"
  PROVE  Kept
<1>1. row' = at.row /\ place' = at.place
  BY DEF Follow
<1>. QED  BY <1>1 DEF AtOK, AsWhole, Kept, TypeOK, OnMain

\* The same row with other cells, or a step that leaves it alone
LEMMA EditKept ==
  ASSUME TypeOK, place \in Visible => row' \in [1..cols -> Cell],
         place \notin Visible => row' = row,
         Whole(row) => Whole(row'),
         place' = place \/ (place \in Visible /\ place' \in Visible),
         cols' = cols, cursor_x' \in 1..cols, wrap_pending' \in BOOLEAN,
         autowrap_mode' \in BOOLEAN, saved' \in SavedCursor \cup {None},
         main_autowrap' = main_autowrap
  PROVE  Kept
<1>1. place' \in Places /\ (place' \in Visible <=> place \in Visible) /\ (place' = "saved" => place = "saved")
  BY DEF TypeOK, Places, Visible
<1>2. cols \in Nat
  BY DEF TypeOK
<1>3. row' \in Seq(Cell) /\ (place \in Visible => Len(row') = cols)
  BY <1>2, RowLen DEF TypeOK
<1>. QED  BY <1>1, <1>3 DEF Kept, TypeOK, OnMain

LEMMA CursorRow ==
  ASSUME TypeOK, place \in Visible
  PROVE  cols \in Nat \ {0} /\ row \in [1..cols -> Cell] /\ (Whole(row) <=> RowOK(row, cols))
<1>1. cols \in Nat \ {0} /\ row \in Seq(Cell) /\ Len(row) = cols
  BY DEF TypeOK
<1>. QED  BY <1>1, RowFun, RowOKWhole

LEMMA CursorVisible == "cursor" \in Visible /\ "screen" \in Visible
BY DEF Visible

-----------------------------------------------------------------------------
(* The actions. *)

\* print: the character is put into the row that is under the cursor then.
LEMMA PutKept ==
  ASSUME TypeOK, NEW at, AtOK(at, cols), NEW x \in 1..cols, NEW c, NEW w \in {1, 2},
         w = 1 => c \in Narrow, w = 2 => c \in Wide /\ x < cols,
         NEW pending \in BOOLEAN, Put(at, x, c, w, pending)
  PROVE  TypeOK' /\ (Whole(at.row) => Whole(row'))
<1>1. cols \in Nat \ {0}
  BY DEF TypeOK
<1>2. /\ place' = at.place /\ cols' = cols /\ autowrap_mode' = autowrap_mode /\ saved' = saved
      /\ main_autowrap' = main_autowrap
      /\ cursor_x' = Least(x + w, cols)
      /\ row' = IF at.place = "cursor" THEN SetCell(at.row, x, c, w) ELSE at.row
  BY DEF Put, modeVars
<1>3. cursor_x' \in 1..cols
  BY <1>1, <1>2 DEF Least
<1>4. wrap_pending' \in BOOLEAN
  BY DEF Put
<1>5. CASE at.place = "cursor"
  <2>1. at.row \in [1..cols -> Cell] /\ c \in Narrow \cup Wide
    BY <1>1, <1>5, VisibleRow, CursorVisible
  <2>2. row' = SetCell(at.row, x, c, w) /\ row' \in [1..cols -> Cell]
    BY <1>1, <1>2, <1>5, <2>1, SetCellNear
  <2>3. at.row \in Seq(Cell) /\ Len(at.row) = cols /\ row' \in Seq(Cell) /\ Len(row') = cols
    BY <1>1, <2>1, <2>2, RowLen
  <2>4. ASSUME Whole(at.row) PROVE Whole(row')
    <3>1. RowOK(at.row, cols)
      BY <1>1, <2>3, <2>4, RowOKWhole
    <3>2. RowOK(row', cols)
      BY <1>1, <2>2, <3>1, SetNarrowOK, SetWideOK
    <3>. QED  BY <1>1, <3>2, RowOKWhole
  <2>5. place' \in Places /\ (place' \in Visible => Len(row') = cols) /\ place' # "saved"
    BY <1>2, <1>5, <2>3 DEF Places, Visible
  <2>. QED  BY <1>1, <1>2, <1>3, <1>4, <2>3, <2>4, <2>5 DEF TypeOK
<1>6. CASE at.place # "cursor"
  <2>1. row' = at.row
    BY <1>2, <1>6
  <2>. QED  BY <1>1, <1>2, <1>3, <1>4, <2>1 DEF TypeOK, AtOK, OnMain
<1>. QED  BY <1>5, <1>6

LEMMA PrintFitsKept ==
  ASSUME TypeOK, NEW c, NEW w \in {1, 2}, w = 1 => c \in Narrow, w = 2 => c \in Wide,
         PrintFits(c, w)
  PROVE  Kept
<1>1. cols \in Nat \ {0} /\ cursor_x \in 1..cols /\ 1 \in 1..cols /\ wrap_pending \in BOOLEAN
  BY DEF TypeOK
<1>2. CASE Wraps
  <2>1. PICK at \in Upwards(Here) : Put(at, 1, c, w, FALSE)
    BY <1>2 DEF PrintFits
  <2>2. w = 2 => 1 < cols
    BY <1>2 DEF PrintFits
  <2>3. AtOK(at, cols) /\ AsWhole(at, Here.row) /\ Here.row = row
    BY <1>1, HereOK, UpwardsOK DEF Here
  <2>4. FALSE \in BOOLEAN
    OBVIOUS
  <2>. QED  BY <1>1, <2>1, <2>2, <2>3, <2>4, PutKept DEF Kept, AsWhole
<1>3. CASE ~Wraps
  <2>1. Put(Here, cursor_x, c, w, wrap_pending) /\ (w = 2 => cursor_x < cols)
    BY <1>3 DEF PrintFits
  <2>2. AtOK(Here, cols) /\ AsWhole(Here, row)
    BY HereOK
  <2>. QED  BY <1>1, <2>1, <2>2, PutKept DEF Kept, AsWhole
<1>. QED  BY <1>2, <1>3

\* The margin that is blanked: nothing is cut unless a second half was there.
LEMMA MarginOK ==
  ASSUME TypeOK
  PROVE  /\ AtOK(MarginBlanked, cols) /\ MarginBlanked.place = place
         /\ ~(place = "cursor" /\ row[cols].w = 0) => AsWhole(MarginBlanked, row)
<1>1. CASE place = "cursor"
  <2>. DEFINE r == [row EXCEPT ![cols] = Blanked(row[cols])]
  <2>1. MarginBlanked = [row |-> r, place |-> place]
    BY <1>1 DEF MarginBlanked, Here
  <2>2. cols \in Nat \ {0} /\ row \in [1..cols -> Cell] /\ (Whole(row) <=> RowOK(row, cols))
    BY <1>1, CursorRow, CursorVisible
  <2>3. cols \in 1..cols /\ Blanked(row[cols]) \in Cell /\ Blanked(row[cols]).w = 1
    BY <2>2, CellTypes
  <2>4. /\ r \in [1..cols -> Cell] /\ r[cols].w = 1
        /\ \A i \in 1..cols : i # cols => r[i] = row[i]
    BY <2>2, <2>3
  <2>. HIDE DEF r
  <2>5. MarginBlanked.row = r /\ MarginBlanked.place = place
    BY <2>1, AtFields
  <2>6. AtOK(MarginBlanked, cols)
    BY <1>1, <2>2, <2>4, <2>5, RowLen DEF AtOK, Places, Visible
  <2>7. ASSUME Whole(row), row[cols].w # 0 PROVE Whole(r)
    <3>1. RowOK(row, cols)
      BY <2>2, <2>7
    <3>2. ASSUME NEW i \in 1..cols, r[i].w = 2 PROVE i < cols /\ r[i + 1].w = 0
      <4>1. i # cols /\ r[i] = row[i]
        BY <2>4, <3>2
      <4>2. i < cols /\ row[i + 1].w = 0
        BY <3>1, <3>2, <4>1 DEF RowOK
      <4>3. ASSUME i + 1 = cols PROVE FALSE
        <5>1. row[i + 1] = row[cols]
          BY <4>3
        <5>. QED  BY <2>7, <4>2, <5>1
      <4>4. i + 1 \in 1..cols
        BY <2>2, <4>2
      <4>. QED  BY <2>4, <4>2, <4>3, <4>4
    <3>3. ASSUME NEW i \in 1..cols, r[i].w = 0
          PROVE  i > 1 /\ r[i - 1].w = 2 /\ r[i].m = 0 /\ r[i].c = Nul
      <4>1. i # cols /\ r[i] = row[i]
        BY <2>4, <3>3
      <4>2. i > 1 /\ row[i - 1].w = 2 /\ row[i].m = 0 /\ row[i].c = Nul
        BY <3>1, <3>3, <4>1 DEF RowOK
      <4>3. i - 1 \in 1..cols /\ i - 1 # cols
        BY <2>2, <4>2
      <4>. QED  BY <2>4, <4>1, <4>2, <4>3
    <3>4. RowOK(r, cols)
      BY <2>4, <3>2, <3>3 DEF RowOK
    <3>. QED  BY <2>2, <3>4, RowOKWhole
  <2>. QED  BY <1>1, <2>5, <2>6, <2>7 DEF AsWhole
<1>2. CASE place # "cursor"
  <2>1. MarginBlanked = Here
    BY <1>2 DEF MarginBlanked
  <2>. QED  BY <1>2, <2>1, HereOK DEF Here
<1>. QED  BY <1>1, <1>2

LEMMA PrintWrapsKept ==
  ASSUME TypeOK, NEW c \in Wide, PrintWraps(c)
  PROVE  TypeOK' /\ (~(place = "cursor" /\ row[cols].w = 0) => Kept)
<1>1. cols \in Nat \ {0} /\ cols >= 2
  BY DEF TypeOK, PrintWraps
<1>2. PICK at \in Upwards(MarginBlanked) : Put(at, 1, c, 2, FALSE)
  BY DEF PrintWraps
<1>3. AtOK(at, cols) /\ AsWhole(at, MarginBlanked.row)
  BY <1>1, <1>2, MarginOK, UpwardsOK
<1>4. 1 \in 1..cols /\ 1 < cols /\ 2 \in {1, 2} /\ 2 # 1 /\ FALSE \in BOOLEAN
  BY <1>1
<1>5. TypeOK' /\ (Whole(at.row) => Whole(row'))
  BY <1>2, <1>3, <1>4, PutKept
<1>. QED  BY <1>3, <1>5, MarginOK DEF AsWhole, Kept

LEMMA PrintDroppedKept ==
  ASSUME TypeOK, NEW c \in Wide, PrintDropped(c) PROVE Kept
<1>1. cols \in Nat \ {0} /\ cursor_x \in 1..cols /\ 1 \in 1..cols
  BY DEF TypeOK
<1>2. UNCHANGED <<cols, autowrap_mode, saved, main_autowrap>>
  BY DEF PrintDropped, modeVars
<1>3. CASE Wraps
  <2>1. (\E at \in Upwards(Here) : Follow(at)) /\ cursor_x' = 1
    BY <1>3 DEF PrintDropped
  <2>2. wrap_pending' \in BOOLEAN
    BY <1>3, Zenon DEF PrintDropped
  <2>3. PICK at \in Upwards(Here) : Follow(at)
    BY <2>1
  <2>4. AtOK(at, cols) /\ AsWhole(at, row)
    BY <1>1, HereOK, UpwardsOK DEF Here
  <2>. QED  BY <1>1, <1>2, <2>1, <2>2, <2>3, <2>4, FollowKept DEF TypeOK
<1>4. CASE ~Wraps
  <2>1. UNCHANGED <<row, place, cursor_x, wrap_pending>>
    BY <1>4 DEF PrintDropped, cursorVars
  <2>. QED  BY <1>2, <2>1 DEF Kept, TypeOK, OnMain
<1>. QED  BY <1>3, <1>4

\* A combining mark goes to the first cell of a character.
LEMMA CombiningKept == ASSUME TypeOK, CombiningMark PROVE Kept
<1>. DEFINE before == IF wrap_pending THEN cursor_x ELSE cursor_x - 1
            x == IF before > 1 /\ row[before].w = 0 THEN before - 1 ELSE before
            marked == [c |-> row[x].c, w |-> row[x].w, m |-> row[x].m + 1]
<1>1. /\ place = "cursor" /\ before >= 1 /\ row[x].m < MaxCombining
      /\ row' = [row EXCEPT ![x].m = @ + 1]
      /\ UNCHANGED <<place, cols, cursor_x, wrap_pending, autowrap_mode, saved, main_autowrap>>
  BY DEF CombiningMark, cursorVars, modeVars
<1>2. /\ cols \in Nat \ {0} /\ row \in [1..cols -> Cell] /\ (Whole(row) <=> RowOK(row, cols))
      /\ cursor_x \in 1..cols
  BY <1>1, CursorRow, CursorVisible DEF TypeOK
<1>3. before \in 1..cols
  BY <1>1, <1>2
<1>. HIDE DEF before
<1>4. x \in 1..cols /\ (RowOK(row, cols) => row[x].w # 0)
  BY <1>2, <1>3 DEF RowOK
<1>. HIDE DEF x
<1>5. marked \in Cell /\ marked.w = row[x].w
  BY <1>1, <1>2, <1>4, CombiningAssumption DEF Cell
<1>6. row' = [row EXCEPT ![x] = marked]
  <2>1. row' = [row EXCEPT ![x] = [row[x] EXCEPT !.m = row[x].m + 1]]
    BY <1>1
  <2>2. row[x] \in Cell
    BY <1>2, <1>4
  <2>3. [row[x] EXCEPT !.m = row[x].m + 1] = marked
    BY <2>2 DEF Cell
  <2>. QED  BY <2>1, <2>3
<1>. HIDE DEF marked
<1>7. /\ row' \in [1..cols -> Cell]
      /\ \A i \in 1..cols : row'[i].w = row[i].w /\ (i # x => row'[i] = row[i])
  BY <1>2, <1>4, <1>5, <1>6
<1>8. ASSUME RowOK(row, cols) PROVE Whole(row')
  <2>1. ASSUME NEW i \in 1..cols, row'[i].w = 2 PROVE i < cols /\ row'[i + 1].w = 0
    BY <1>2, <1>7, <1>8, <2>1 DEF RowOK
  <2>2. ASSUME NEW i \in 1..cols, row'[i].w = 0
        PROVE  i > 1 /\ row'[i - 1].w = 2 /\ row'[i].m = 0 /\ row'[i].c = Nul
    BY <1>2, <1>4, <1>7, <1>8, <2>2 DEF RowOK
  <2>3. RowOK(row', cols)
    BY <1>7, <2>1, <2>2 DEF RowOK
  <2>. QED  BY <1>2, <2>3, RowOKWhole
<1>9. place \in Visible
  BY <1>1, CursorVisible
<1>. QED  BY <1>1, <1>2, <1>7, <1>8, <1>9, EditKept DEF TypeOK

\* The sequences that edit the cursor's row, or erase others
LEMMA ErasedKept ==
  ASSUME TypeOK, NEW from \in 1..cols, NEW to \in Nat, from < to, place = "cursor"
  PROVE  /\ EraseCells(row, from, to) \in [1..cols -> Cell]
         /\ Whole(row) => Whole(EraseCells(row, from, to))
<1>1. cols \in Nat /\ row \in [1..cols -> Cell] /\ (Whole(row) <=> RowOK(row, cols))
  BY CursorRow, CursorVisible
<1>. QED  BY <1>1, EraseCellsNear, EraseCellsOK, RowOKWhole

LEMMA LineErasedKept ==
  ASSUME TypeOK, NEW mode \in 0..2, place = "cursor"
  PROVE  LineErased(mode) \in [1..cols -> Cell] /\ (Whole(row) => Whole(LineErased(mode)))
<1>1. cols \in Nat \ {0} /\ cursor_x \in 1..cols
  BY DEF TypeOK
<1>2. /\ 1 \in 1..cols /\ cols + 1 \in Nat /\ cursor_x < cols + 1 /\ 1 < cols + 1
      /\ cursor_x + 1 \in Nat /\ 1 < cursor_x + 1
  BY <1>1
<1>3. \E from \in 1..cols, to \in Nat : from < to /\ LineErased(mode) = EraseCells(row, from, to)
  <2>1. mode = 0 \/ mode = 1 \/ mode = 2
    OBVIOUS
  <2>. QED  BY <1>1, <1>2, <2>1 DEF LineErased
<1>. QED  BY <1>3, ErasedKept

LEMMA EditOK ==
  ASSUME TypeOK, NEW r, Edit(r),
         place = "cursor" => r \in [1..cols -> Cell] /\ (Whole(row) => Whole(r))
  PROVE  Kept
<1>1. /\ row' = IF place = "cursor" THEN r ELSE row
      /\ UNCHANGED <<place, cols, cursor_x, wrap_pending, autowrap_mode, saved, main_autowrap>>
  BY DEF Edit, cursorVars, modeVars
<1>2. CASE place = "cursor"
  <2>1. row' = r /\ place \in Visible
    BY <1>1, <1>2, CursorVisible
  <2>. QED  BY <1>1, <1>2, <2>1, EditKept DEF TypeOK
<1>3. CASE place # "cursor"
  <2>1. UNCHANGED row
    BY <1>1, <1>3
  <2>. QED  BY <1>1, <2>1 DEF Kept, TypeOK, OnMain
<1>. QED  BY <1>2, <1>3

LEMMA EditsKept ==
  ASSUME TypeOK,
         \/ \E mode \in 0..2 : EraseLine(mode)
         \/ \E n \in Params : EraseCharacter(n) \/ DeleteCharacter(n) \/ InsertCharacter(n)
  PROVE  Kept
<1>1. cols \in Nat \ {0} /\ cursor_x \in 1..cols
  BY DEF TypeOK
<1>2. CASE \E mode \in 0..2 : EraseLine(mode)
  <2>1. PICK mode \in 0..2 : Edit(LineErased(mode))
    BY <1>2 DEF EraseLine
  <2>. QED  BY <2>1, LineErasedKept, EditOK
<1>3. CASE \E n \in Params : EraseCharacter(n) \/ DeleteCharacter(n) \/ InsertCharacter(n)
  <2>1. PICK n \in Params : EraseCharacter(n) \/ DeleteCharacter(n) \/ InsertCharacter(n)
    BY <1>3
  <2>2. n \in Nat \ {0} /\ cursor_x + n \in Nat /\ cursor_x < cursor_x + n
    BY <1>1, ParamsAssumption
  <2>3. CASE EraseCharacter(n)
    BY <1>1, <2>2, <2>3, ErasedKept, EditOK DEF EraseCharacter
  <2>4. ASSUME place = "cursor"
        PROVE  /\ DeleteCells(row, cursor_x, n) \in [1..cols -> Cell]
               /\ Whole(row) => Whole(DeleteCells(row, cursor_x, n))
               /\ InsertCells(row, cursor_x, n) \in [1..cols -> Cell]
               /\ Whole(row) => Whole(InsertCells(row, cursor_x, n))
    <3>1. row \in [1..cols -> Cell] /\ (Whole(row) <=> RowOK(row, cols))
      BY <2>4, CursorRow, CursorVisible
    <3>2. DeleteCells(row, cursor_x, n) \in [1..cols -> Cell]
      BY <1>1, <2>2, <3>1, DeleteCellsNear
    <3>3. InsertCells(row, cursor_x, n) \in [1..cols -> Cell]
      BY <1>1, <2>2, <3>1, InsertCellsNear
    <3>4. ASSUME Whole(row)
          PROVE  Whole(DeleteCells(row, cursor_x, n)) /\ Whole(InsertCells(row, cursor_x, n))
      <4>1. /\ RowOK(DeleteCells(row, cursor_x, n), cols)
            /\ RowOK(InsertCells(row, cursor_x, n), cols)
        BY <1>1, <2>2, <3>1, <3>4, DeleteCellsOK, InsertCellsOK
      <4>. QED  BY <1>1, <4>1, RowOKWhole
    <3>. QED  BY <3>2, <3>3, <3>4
  <2>5. CASE DeleteCharacter(n)
    BY <2>4, <2>5, EditOK DEF DeleteCharacter
  <2>6. CASE InsertCharacter(n)
    BY <2>4, <2>6, EditOK DEF InsertCharacter
  <2>. QED  BY <2>1, <2>3, <2>5, <2>6
<1>. QED  BY <1>2, <1>3

LEMMA ScreenEditsKept ==
  ASSUME TypeOK,
         \/ \E mode \in 0..2 : EraseDisplay(mode)
         \/ \E c \in Narrow : ScreenAlignment(c)
  PROVE  Kept
<1>1. cols \in Nat \ {0} /\ cursor_x \in 1..cols /\ 1 \in 1..cols
  BY DEF TypeOK
<1>2. BlankRow(cols) \in [1..cols -> Cell] /\ Whole(BlankRow(cols))
  BY <1>1, BlankRowOK, RowOKWhole DEF RowOK
<1>3. CASE \E mode \in 0..2 : EraseDisplay(mode)
  <2>1. PICK mode \in 0..2 : EraseDisplay(mode)
    BY <1>3
  <2>2. UNCHANGED <<place, cols, cursor_x, wrap_pending, autowrap_mode, saved, main_autowrap>>
    BY <2>1 DEF EraseDisplay, cursorVars, modeVars
  <2>3. \/ row' = row
        \/ row' = BlankRow(cols) /\ place \in Visible
        \/ row' = LineErased(mode) /\ place = "cursor"
    BY <2>1, CursorVisible DEF EraseDisplay
  <2>4. CASE row' = row
    BY <2>2, <2>4 DEF Kept, TypeOK, OnMain
  <2>5. CASE row' = BlankRow(cols) /\ place \in Visible
    BY <1>1, <1>2, <2>2, <2>5, EditKept DEF TypeOK
  <2>6. CASE row' = LineErased(mode) /\ place = "cursor"
    BY <1>1, <2>2, <2>6, LineErasedKept, EditKept, CursorVisible DEF TypeOK
  <2>. QED  BY <2>3, <2>4, <2>5, <2>6
<1>4. CASE \E c \in Narrow : ScreenAlignment(c)
  <2>1. PICK c \in Narrow : ScreenAlignment(c)
    BY <1>4
  <2>2. PICK at \in Elsewhere(Here) : /\ row' = IF place \in Visible THEN Aligned(row, c) ELSE row
                                      /\ place' = at.place
    BY <2>1 DEF ScreenAlignment
  <2>3. cursor_x' = 1 /\ UNCHANGED <<cols, autowrap_mode, saved, main_autowrap>>
    BY <2>1 DEF ScreenAlignment, modeVars
  <2>4. wrap_pending' \in BOOLEAN
    BY <2>1, Zenon DEF ScreenAlignment
  <2>5. place' = place \/ (place \in Visible /\ place' \in Visible)
    BY <1>1, <2>2, HereOK, ElsewhereOK DEF Here
  <2>6. CASE place \in Visible
    <3>1. row' = Aligned(row, c) /\ Len(row) = cols
      BY <2>2, <2>6 DEF TypeOK
    <3>2. RowOK(row', cols)
      BY <1>1, <3>1, AlignedOK
    <3>3. row' \in [1..cols -> Cell] /\ Whole(row')
      BY <1>1, <3>2, RowOKWhole DEF RowOK
    <3>. QED  BY <1>1, <2>3, <2>4, <2>5, <2>6, <3>3, EditKept DEF TypeOK
  <2>7. CASE place \notin Visible
    <3>1. row' = row
      BY <2>2, <2>7
    <3>. QED  BY <1>1, <2>3, <2>4, <2>5, <2>7, <3>1, EditKept DEF TypeOK
  <2>. QED  BY <2>6, <2>7
<1>. QED  BY <1>3, <1>4

\* The sequences that move the cursor in its row, or set modes
LEMMA CursorKept ==
  ASSUME TypeOK,
         \/ \E n \in Params : CursorForward(n) \/ CursorBack(n) \/ CursorAbsolute(n)
         \/ Tab \/ CarriageReturn \/ SaveCursor
         \/ \E enable \in BOOLEAN : SetAutowrap(enable)
  PROVE  Kept
<1>1. /\ cols \in Nat \ {0} /\ cursor_x \in 1..cols /\ 1 \in 1..cols
      /\ wrap_pending \in BOOLEAN /\ autowrap_mode \in BOOLEAN
  BY DEF TypeOK
<1>2. ASSUME NEW x \in 1..cols, MoveTo(x) PROVE Kept
  <2>1. cursor_x' = x /\ UNCHANGED <<row, place, cols, autowrap_mode, saved, main_autowrap>>
    BY <1>2 DEF MoveTo, modeVars
  <2>2. wrap_pending' \in BOOLEAN
    BY <1>2, Zenon DEF MoveTo
  <2>. QED  BY <2>1, <2>2 DEF Kept, TypeOK, OnMain
<1>3. CASE \E n \in Params : CursorForward(n) \/ CursorBack(n) \/ CursorAbsolute(n)
  <2>0. PICK n \in Params : CursorForward(n) \/ CursorBack(n) \/ CursorAbsolute(n)
    BY <1>3
  <2>1. n \in Nat /\ n >= 1
    BY ParamsAssumption
  <2>2. /\ Least(cursor_x + n, cols) \in 1..cols /\ Least(n, cols) \in 1..cols
        /\ (IF cursor_x > n THEN cursor_x - n ELSE 1) \in 1..cols
    BY <1>1, <2>1 DEF Least
  <2>. QED  BY <1>2, <2>0, <2>2 DEF CursorForward, CursorBack, CursorAbsolute
<1>4. CASE Tab
  <2>1. PICK x \in (cursor_x + 1)..cols \cup {cols} : MoveTo(x)
    BY <1>4 DEF Tab
  <2>2. x \in 1..cols
    BY <1>1
  <2>. QED  BY <1>2, <2>1, <2>2
<1>5. CASE CarriageReturn
  BY <1>1, <1>2, <1>5 DEF CarriageReturn
<1>6. CASE SaveCursor
  <2>1. UNCHANGED <<row, place, cols, cursor_x, wrap_pending, autowrap_mode, main_autowrap>>
    BY <1>6 DEF SaveCursor, cursorVars
  <2>2. saved' \in SavedCursor
    BY <1>1, <1>6 DEF SaveCursor, SavedNow, SavedCursor
  <2>. QED  BY <2>1, <2>2 DEF Kept, TypeOK, OnMain
<1>7. CASE \E enable \in BOOLEAN : SetAutowrap(enable)
  <2>1. PICK enable \in BOOLEAN : SetAutowrap(enable)
    BY <1>7
  <2>2. /\ autowrap_mode' = enable
        /\ UNCHANGED <<row, place, cols, cursor_x, wrap_pending, saved, main_autowrap>>
    BY <2>1 DEF SetAutowrap, cursorVars
  <2>. QED  BY <2>2 DEF Kept, TypeOK, OnMain
<1>. QED  BY <1>3, <1>4, <1>5, <1>6, <1>7

\* The sequences that move the cursor to another row, or rows about
LEMMA MovesKept ==
  ASSUME TypeOK,
         \/ CursorVertical \/ CursorToLine \/ \E n \in Params : CursorPosition(n)
         \/ LineFeed \/ NextLine \/ ScrollUpN \/ ScrollDownN \/ DeleteLines \/ InsertLines
         \/ EraseSavedLines
  PROVE  Kept
<1>1. /\ cols \in Nat \ {0} /\ cursor_x \in 1..cols /\ 1 \in 1..cols
      /\ wrap_pending \in BOOLEAN /\ autowrap_mode \in BOOLEAN
      /\ saved \in SavedCursor \cup {None} /\ main_autowrap \in BOOLEAN \cup {None}
  BY DEF TypeOK
<1>2. AtOK(Here, cols) /\ AsWhole(Here, row) /\ Here.row = row /\ Here.place = place
  BY HereOK DEF Here
<1>3. ASSUME NEW at, AtOK(at, cols), AsWhole(at, row), Follow(at), cursor_x' \in 1..cols,
             wrap_pending' \in BOOLEAN,
             UNCHANGED <<cols, autowrap_mode, saved, main_autowrap>>
      PROVE  Kept
  BY <1>1, <1>3, FollowKept
<1>4. \A at \in Upwards(Here) : AtOK(at, cols) /\ AsWhole(at, row)
  BY <1>1, <1>2, UpwardsOK
<1>5. ASSUME NEW ps \in SUBSET (Visible \cup {"scrollback"})
      PROVE  \A at \in Scrolled(Here, ps) : AtOK(at, cols) /\ AsWhole(at, row)
  BY <1>1, <1>2, ScrolledOK
<1>6. Visible \in SUBSET (Visible \cup {"scrollback"}) /\ {"screen"} \in SUBSET (Visible \cup {"scrollback"})
  BY CursorVisible
<1>7. ASSUME NEW x \in 1..cols, MoveToRow(x) PROVE Kept
  <2>1. PICK at \in Elsewhere(Here) : Follow(at)
    BY <1>7 DEF MoveToRow
  <2>2. AtOK(at, cols) /\ AsWhole(at, row)
    BY <1>1, <1>2, ElsewhereOK DEF AsWhole
  <2>3. cursor_x' = x /\ UNCHANGED <<cols, autowrap_mode, saved, main_autowrap>>
    BY <1>7 DEF MoveToRow, modeVars
  <2>4. wrap_pending' \in BOOLEAN
    BY <1>7, Zenon DEF MoveToRow
  <2>. QED  BY <1>3, <2>1, <2>2, <2>3, <2>4
<1>8. CASE CursorVertical \/ CursorToLine
  BY <1>1, <1>7, <1>8 DEF CursorVertical, CursorToLine
<1>9. CASE \E n \in Params : CursorPosition(n)
  <2>1. PICK n \in Params : MoveToRow(Least(n, cols))
    BY <1>9 DEF CursorPosition
  <2>2. Least(n, cols) \in 1..cols
    BY <1>1, ParamsAssumption DEF Least
  <2>. QED  BY <1>7, <2>1, <2>2
<1>10. CASE LineFeed
  <2>1. PICK at \in Upwards(Here) : Follow(at)
    BY <1>10 DEF LineFeed
  <2>2. UNCHANGED <<cols, cursor_x, autowrap_mode, saved, main_autowrap>>
    BY <1>10 DEF LineFeed, modeVars
  <2>3. wrap_pending' \in BOOLEAN
    BY <1>10, Zenon DEF LineFeed
  <2>. QED  BY <1>1, <1>3, <1>4, <2>1, <2>2, <2>3
<1>11. CASE NextLine
  <2>1. PICK at \in Upwards(Here) : Follow(at)
    BY <1>11 DEF NextLine
  <2>2. cursor_x' = 1 /\ UNCHANGED <<cols, autowrap_mode, saved, main_autowrap>>
    BY <1>11 DEF NextLine, modeVars
  <2>3. wrap_pending' \in BOOLEAN
    BY <1>11, Zenon DEF NextLine
  <2>. QED  BY <1>1, <1>3, <1>4, <2>1, <2>2, <2>3
<1>12. CASE ScrollUpN \/ ScrollDownN
  <2>1. PICK at \in Upwards(Here) \cup Scrolled(Here, Visible) : Follow(at)
    BY <1>12 DEF ScrollUpN, ScrollDownN, Downwards
  <2>2. UNCHANGED <<cols, cursor_x, wrap_pending, autowrap_mode, saved, main_autowrap>>
    BY <1>12 DEF ScrollUpN, ScrollDownN, cursorVars, modeVars
  <2>. QED  BY <1>1, <1>3, <1>4, <1>5, <1>6, <2>1, <2>2
<1>13. CASE DeleteLines
  <2>1. PICK at \in {Gone} \cup Scrolled(Here, Visible) : Follow(at)
    BY <1>13 DEF DeleteLines
  <2>2. UNCHANGED <<cols, cursor_x, autowrap_mode, saved, main_autowrap>>
    BY <1>13 DEF DeleteLines, modeVars
  <2>3. wrap_pending' \in BOOLEAN
    BY <1>13, Zenon DEF DeleteLines
  <2>4. AtOK(at, cols) /\ AsWhole(at, row)
    BY <1>5, <1>6, GoneOK
  <2>. QED  BY <1>1, <1>3, <2>1, <2>2, <2>3, <2>4
<1>14. CASE InsertLines
  <2>1. PICK at \in Scrolled(Here, IF place = "gone" THEN Visible ELSE {"screen"}) : Follow(at)
    BY <1>14 DEF InsertLines
  <2>2. UNCHANGED <<cols, cursor_x, autowrap_mode, saved, main_autowrap>>
    BY <1>14 DEF InsertLines, modeVars
  <2>3. wrap_pending' \in BOOLEAN
    BY <1>14, Zenon DEF InsertLines
  <2>4. AtOK(at, cols) /\ AsWhole(at, row)
    BY <1>5, <1>6
  <2>. QED  BY <1>1, <1>3, <2>1, <2>2, <2>3, <2>4
<1>15. CASE EraseSavedLines
  <2>1. Follow(Gone) \/ Follow(Here)
    BY <1>15 DEF EraseSavedLines
  <2>2. UNCHANGED <<cols, cursor_x, wrap_pending, autowrap_mode, saved, main_autowrap>>
    BY <1>15 DEF EraseSavedLines, cursorVars, modeVars
  <2>. QED  BY <1>1, <1>2, <1>3, <2>1, <2>2, GoneOK
<1>. QED  BY <1>8, <1>9, <1>10, <1>11, <1>12, <1>13, <1>14, <1>15

\* restore_cursor clamps the column.
LEMMA RestoredType ==
  ASSUME TypeOK, saved # None, Restored
  PROVE  cursor_x' \in 1..cols /\ wrap_pending' \in BOOLEAN /\ autowrap_mode' \in BOOLEAN
<1>1. saved \in SavedCursor /\ cols \in Nat \ {0}
  BY DEF TypeOK
<1>2. saved.x \in Nat \ {0} /\ saved.wrap \in BOOLEAN /\ saved.autowrap \in BOOLEAN
  BY <1>1 DEF SavedCursor
<1>3. /\ cursor_x' = Least(saved.x, cols) /\ wrap_pending' = saved.wrap
      /\ autowrap_mode' = saved.autowrap
  BY DEF Restored
<1>. QED  BY <1>1, <1>2, <1>3 DEF Least

\* Saved states come back; both screens; RIS
LEMMA ScreensKept ==
  ASSUME TypeOK,
         \/ RestoreCursor \/ FullReset
         \/ \E save \in BOOLEAN : EnterAltScreen(save)
         \/ \E restore \in BOOLEAN : ExitAltScreen(restore)
  PROVE  Kept
<1>1. /\ cols \in Nat \ {0} /\ cursor_x \in 1..cols /\ 1 \in 1..cols
      /\ wrap_pending \in BOOLEAN /\ autowrap_mode \in BOOLEAN
      /\ saved \in SavedCursor \cup {None} /\ main_autowrap \in BOOLEAN \cup {None}
  BY DEF TypeOK
<1>2. AtOK(Here, cols) /\ AsWhole(Here, row) /\ Here.row = row /\ Here.place = place
  BY HereOK DEF Here
<1>3. Visible \in SUBSET (Visible \cup {"scrollback"}) /\ "saved" \notin Visible
  BY DEF Visible
<1>4. \A at \in Rows(BlankRow(cols), Visible) :
         AtOK(at, cols) /\ AsWhole(at, row) /\ at.place # "saved"
  <2>1. ASSUME NEW at \in Rows(BlankRow(cols), Visible)
        PROVE  AtOK(at, cols) /\ AsWhole(at, row) /\ at.place \in Visible
    BY <1>1, <1>3, BlankOK, BlankRowOK, RowsOK DEF RowOK
  <2>. QED  BY <1>3, <2>1
<1>5. AtOK(Gone, cols) /\ AsWhole(Gone, row) /\ Gone.place # "saved"
  BY GoneOK DEF Gone
<1>6. CASE RestoreCursor
  <2>1. PICK at \in Elsewhere(Here) : Follow(at)
    BY <1>6 DEF RestoreCursor
  <2>2. AtOK(at, cols) /\ AsWhole(at, row)
    BY <1>1, <1>2, ElsewhereOK DEF AsWhole
  <2>3. cursor_x' \in 1..cols /\ wrap_pending' \in BOOLEAN /\ autowrap_mode' \in BOOLEAN
    BY <1>6, RestoredType DEF RestoreCursor
  <2>4. UNCHANGED <<cols, saved, main_autowrap>>
    BY <1>6 DEF RestoreCursor
  <2>. QED  BY <1>1, <2>1, <2>2, <2>3, <2>4, FollowKept
<1>7. CASE FullReset
  <2>1. PICK at \in Rows(BlankRow(cols), Visible) \cup {Gone} : Follow(at)
    BY <1>7 DEF FullReset
  <2>2. cursor_x' = 1 /\ saved' = None /\ main_autowrap' = None /\ cols' = cols
    BY <1>7 DEF FullReset
  <2>3. wrap_pending' \in BOOLEAN /\ autowrap_mode' \in BOOLEAN
    BY <1>7, Zenon DEF FullReset
  <2>4. AtOK(at, cols) /\ AsWhole(at, row) /\ at.place # "saved"
    BY <1>4, <1>5
  <2>. QED  BY <1>1, <2>1, <2>2, <2>3, <2>4, FollowKept
<1>8. CASE \E save \in BOOLEAN : EnterAltScreen(save)
  <2>1. PICK save \in BOOLEAN : EnterAltScreen(save)
    BY <1>8
  <2>2. SavedNow \in SavedCursor
    BY <1>1 DEF SavedNow, SavedCursor
  <2>3. /\ OnMain /\ main_autowrap' = autowrap_mode /\ cursor_x' = 1
        /\ cols' = cols /\ autowrap_mode' = autowrap_mode
        /\ saved' = IF save THEN SavedNow ELSE saved
    BY <2>1 DEF EnterAltScreen
  <2>4. wrap_pending' \in BOOLEAN
    BY <2>1, Zenon DEF EnterAltScreen
  <2>5. main_autowrap' \in BOOLEAN /\ main_autowrap' # None /\ saved' \in SavedCursor \cup {None}
    BY <1>1, <2>2, <2>3, NoneAssumption
  <2>6. CASE place \in Visible
    <3>1. PICK at \in Rows(row, {"saved"}) : Follow(at)
      BY <2>1, <2>6 DEF EnterAltScreen
    <3>2. at = [row |-> row, place |-> "saved"]
      BY <3>1 DEF Rows
    <3>3. row' = row /\ place' = "saved"
      BY <3>1, <3>2 DEF Follow
    <3>. QED  BY <1>1, <1>3, <2>3, <2>4, <2>5, <3>3 DEF Kept, TypeOK, Places, OnMain
  <2>7. CASE place \notin Visible
    <3>1. PICK at \in Scrolled(Here, Visible) : Follow(at)
      BY <2>1, <2>7 DEF EnterAltScreen
    <3>2. AtOK(at, cols) /\ AsWhole(at, row)
      BY <1>1, <1>2, <1>3, <3>1, ScrolledOK
    <3>3. at.place # "saved"
      BY <2>3, <3>2 DEF AtOK
    <3>4. main_autowrap' \in BOOLEAN \cup {None} /\ autowrap_mode' \in BOOLEAN /\ cursor_x' \in 1..cols
      BY <1>1, <2>3, <2>5
    <3>. QED  BY <1>1, <2>3, <2>4, <2>5, <3>1, <3>2, <3>3, <3>4, FollowKept
  <2>. QED  BY <2>6, <2>7
<1>9. CASE \E restore \in BOOLEAN : ExitAltScreen(restore)
  <2>1. PICK restore \in BOOLEAN : ExitAltScreen(restore)
    BY <1>9
  <2>2. /\ ~OnMain /\ main_autowrap' = None /\ UNCHANGED <<cols, saved>>
        /\ IF restore /\ saved # None THEN Restored
           ELSE autowrap_mode' = main_autowrap /\ UNCHANGED <<cursor_x, wrap_pending>>
    BY <2>1 DEF ExitAltScreen, cursorVars
  <2>3. cursor_x' \in 1..cols /\ wrap_pending' \in BOOLEAN /\ autowrap_mode' \in BOOLEAN
    <3>1. CASE restore /\ saved # None
      BY <2>2, <3>1, RestoredType
    <3>2. CASE ~(restore /\ saved # None)
      <4>1. autowrap_mode' = main_autowrap /\ UNCHANGED <<cursor_x, wrap_pending>>
        BY <2>2, <3>2
      <4>. QED  BY <1>1, <2>2, <4>1 DEF OnMain
    <3>. QED  BY <3>1, <3>2
  <2>4. PICK at \in CASE place = "saved"      -> Rows(FitRow(row, cols), Visible) \cup {Gone}
                      [] place = "scrollback" -> {Here}
                      [] OTHER                -> Rows(BlankRow(cols), Visible) \cup {Gone} :
          Follow(at)
    BY <2>1 DEF ExitAltScreen
  <2>5. AtOK(at, cols) /\ AsWhole(at, row) /\ at.place # "saved"
    <3>1. CASE place = "saved"
      <4>1. at \in Rows(FitRow(row, cols), Visible) \/ at = Gone
        BY <2>4, <3>1
      <4>2. row \in [1..Len(row) -> Cell] /\ Len(row) \in Nat
        BY RowFun DEF TypeOK
      <4>3. FitRow(row, cols) \in [1..cols -> Cell]
        BY <1>1, <4>2, FitRowType
      <4>4. ASSUME Whole(row) PROVE Whole(FitRow(row, cols))
        <5>1. RowOK(row, Len(row))
          BY <4>2, <4>4, RowOKWhole DEF TypeOK
        <5>. QED  BY <1>1, <4>2, <5>1, FitRowOK, RowOKWhole
      <4>5. CASE at \in Rows(FitRow(row, cols), Visible)
        <5>1. AtOK(at, cols) /\ at.row = FitRow(row, cols) /\ at.place \in Visible
          BY <1>1, <1>3, <4>3, <4>5, RowsOK
        <5>. QED  BY <1>3, <4>4, <5>1 DEF AsWhole
      <4>. QED  BY <1>5, <4>1, <4>5
    <3>2. CASE place = "scrollback"
      <4>1. at = Here
        BY <2>4, <3>2
      <4>. QED  BY <1>2, <3>2, <4>1
    <3>3. CASE place # "saved" /\ place # "scrollback"
      <4>1. at \in Rows(BlankRow(cols), Visible) \/ at = Gone
        BY <2>4, <3>3
      <4>. QED  BY <1>4, <1>5, <4>1
    <3>. QED  BY <3>1, <3>2, <3>3
  <2>. QED  BY <1>1, <2>2, <2>3, <2>4, <2>5, FollowKept
<1>. QED  BY <1>6, <1>7, <1>8, <1>9

\* Grid::resize and Screen::resize
LEMMA ResizeKept ==
  ASSUME TypeOK, NEW n \in Widths, Resize(n) PROVE Kept
<1>. DEFINE k == Sanitize(n)
<1>1. k \in Nat \ {0}
  BY WidthsAssumption DEF Sanitize
<1>. HIDE DEF k
<1>2. PICK at \in Resized(k) : Follow(at)
  BY DEF Resize, k
<1>3. /\ cols' = k /\ cursor_x' = Least(cursor_x, k)
      /\ UNCHANGED <<autowrap_mode, saved, main_autowrap>>
  BY DEF Resize, modeVars, k
<1>4. wrap_pending' \in BOOLEAN
  BY Zenon DEF Resize
<1>5. cursor_x' \in 1..k
  BY <1>1, <1>3 DEF Least, TypeOK
<1>6. row \in Seq(Cell) /\ row \in [1..Len(row) -> Cell] /\ Len(row) \in Nat
  BY RowFun DEF TypeOK
<1>7. FitRow(row, k) \in [1..k -> Cell]
  BY <1>1, <1>6, FitRowType
<1>8. ASSUME Whole(row) PROVE Whole(FitRow(row, k))
  <2>1. RowOK(row, Len(row))
    BY <1>6, <1>8, RowOKWhole
  <2>. QED  BY <1>1, <1>6, <2>1, FitRowOK, RowOKWhole
<1>9. {"cursor"} \subseteq Visible /\ {"screen"} \subseteq Visible
  BY CursorVisible
<1>10. \/ at = Gone
       \/ at = Here /\ place \notin Visible
       \/ \E ps \in SUBSET Visible : at \in Rows(FitRow(row, k), ps)
       \/ at \in Rows(BlankRow(k), {"screen"})
  BY <1>2, <1>9 DEF Resized, Visible
<1>11. AtOK(at, k) /\ AsWhole(at, row)
  <2>1. CASE at = Gone
    BY <2>1, GoneOK
  <2>2. CASE at = Here /\ place \notin Visible
    <3>1. at.row = row /\ at.place = place
      BY <2>2 DEF Here
    <3>. QED  BY <2>2, <3>1 DEF AtOK, AsWhole, TypeOK
  <2>3. CASE \E ps \in SUBSET Visible : at \in Rows(FitRow(row, k), ps)
    <3>1. AtOK(at, k) /\ at.row = FitRow(row, k)
      BY <1>1, <1>7, <2>3, RowsOK
    <3>. QED  BY <1>8, <3>1 DEF AsWhole
  <2>4. CASE at \in Rows(BlankRow(k), {"screen"})
    BY <1>1, <1>9, <2>4, BlankOK
  <2>. QED  BY <1>10, <2>1, <2>2, <2>3, <2>4
<1>. QED  BY <1>1, <1>2, <1>3, <1>4, <1>5, <1>11, FollowKept DEF TypeOK

\* A step tears a whole row only if it is the wide character at the margin.
LEMMA StepKept ==
  ASSUME TypeOK, Next
  PROVE  \/ Kept
         \/ /\ TypeOK' /\ place = "cursor" /\ row[cols].w = 0
            /\ \E c \in Wide : PrintWraps(c)
<1>1. ASSUME NEW c \in Narrow, PrintFits(c, 1) PROVE Kept
  <2>1. 1 \in {1, 2} /\ 1 # 2
    OBVIOUS
  <2>. QED  BY <1>1, <2>1, PrintFitsKept
<1>2. ASSUME NEW c \in Wide, PrintFits(c, 2) PROVE Kept
  <2>1. 2 \in {1, 2} /\ 1 # 2
    OBVIOUS
  <2>. QED  BY <1>2, <2>1, PrintFitsKept
<1>. QED  BY <1>1, <1>2, PrintWrapsKept, PrintDroppedKept, CombiningKept, EditsKept,
             ScreenEditsKept, CursorKept, MovesKept, ScreensKept, ResizeKept
          DEF Next

-----------------------------------------------------------------------------
\* Every variable keeps its type: the cursor is on the screen and the row has
\* its width, through every resize and both screens.
THEOREM TypeCorrect == Spec => []TypeOK
<1>1. ASSUME Init PROVE TypeOK
  <2>1. PICK n \in Widths : cols = Sanitize(n)
    BY <1>1 DEF Init
  <2>2. cols \in Nat \ {0}
    BY <2>1, WidthsAssumption DEF Sanitize
  <2>3. row = BlankRow(cols) /\ place \in Visible /\ cursor_x = 1 /\ saved = None /\ main_autowrap = None
    BY <1>1 DEF Init
  <2>4. row \in Seq(Cell) /\ Len(row) = cols
    BY <2>2, <2>3, BlankRowOK, RowLen DEF RowOK
  <2>5. wrap_pending \in BOOLEAN /\ autowrap_mode \in BOOLEAN
    BY <1>1, Zenon DEF Init
  <2>6. place \in Places /\ place # "saved"
    BY <2>3 DEF Visible, Places
  <2>. QED  BY <2>2, <2>3, <2>4, <2>5, <2>6 DEF TypeOK
<1>2. TypeOK /\ [Next]_vars => TypeOK'
  <2>. SUFFICES ASSUME TypeOK, [Next]_vars PROVE TypeOK'
    OBVIOUS
  <2>1. CASE UNCHANGED vars
    BY <2>1 DEF vars, TypeOK, OnMain
  <2>2. CASE Next
    BY <2>2, StepKept DEF Kept
  <2>. QED  BY <2>1, <2>2
<1>. QED  BY <1>1, <1>2, PTL DEF Spec

\* set_cell, erase_cells, DCH, ICH, DECALN, Row::resize and the moves between
\* screen, scrollback and saved rows leave a whole row whole; only a wide
\* character that print wraps at the margin cuts the one that ends there.
THEOREM TornOnlyAtMarginHolds == Spec => TornOnlyAtMargin
<1>1. ASSUME TypeOK, [Next]_vars
      PROVE  [Whole(row) /\ ~Whole(row') => /\ \E c \in Wide : PrintWraps(c)
                                            /\ place = "cursor" /\ row[cols].w = 0]_vars
  BY <1>1, StepKept DEF Kept
<1>. QED  BY <1>1, TypeCorrect, PTL DEF Spec, TornOnlyAtMargin

\* A character that is put leaves a wrap pending at the margin only.
LEMMA PutAtMargin ==
  ASSUME TypeOK, NEW at, NEW x \in 1..cols, NEW c, NEW w \in {1, 2},
         NEW pending \in BOOLEAN, pending => x = cols,
         Put(at, x, c, w, pending), wrap_pending'
  PROVE  cursor_x' = cols'
<1>1. cols \in Nat \ {0} /\ cols' = cols
  BY DEF TypeOK, Put
<1>2. x + w > cols
  <2>1. CASE x + w > cols /\ autowrap_mode
    BY <2>1
  <2>2. CASE ~(x + w > cols /\ autowrap_mode)
    <3>1. pending
      BY <2>2, Zenon DEF Put
    <3>. QED  BY <1>1, <3>1
  <2>. QED  BY <2>1, <2>2
<1>3. cursor_x' = cols
  BY <1>1, <1>2 DEF Put, Least
<1>. QED  BY <1>1, <1>3

\* perform_deferred_wrap and Grid::resize: a wrap is pending at the margin only,
\* until DECRC brings back one that was saved on a narrower screen.
THEOREM WrapAtMarginHolds == Spec => WrapAtMargin
<1>1. ASSUME TypeOK, [Next]_vars
      PROVE  [(wrap_pending => cursor_x = cols) /\ ~RestoreCursor /\ ~ExitAltScreen(TRUE)
                => (wrap_pending' => cursor_x' = cols')]_vars
  <2>. SUFFICES ASSUME Next, wrap_pending => cursor_x = cols, ~RestoreCursor,
                       ~ExitAltScreen(TRUE), wrap_pending'
                PROVE  cursor_x' = cols'
    BY <1>1
  <2>1. /\ cols \in Nat \ {0} /\ cursor_x \in 1..cols /\ 1 \in 1..cols
        /\ wrap_pending \in BOOLEAN /\ FALSE \in BOOLEAN
    BY <1>1 DEF TypeOK
  \* steps that leave the pending wrap alone
  <2>2. ASSUME cols' = cols, cursor_x' = cursor_x, wrap_pending' = wrap_pending
        PROVE  cursor_x' = cols'
    BY <2>2, Zenon
  <2>3. ASSUME NEW c, NEW w \in {1, 2}, PrintFits(c, w) PROVE cursor_x' = cols'
    <3>1. CASE Wraps
      <4>1. PICK at \in Upwards(Here) : Put(at, 1, c, w, FALSE)
        BY <2>3, <3>1 DEF PrintFits
      <4>. QED  BY <1>1, <2>1, <4>1, PutAtMargin
    <3>2. CASE ~Wraps
      <4>1. Put(Here, cursor_x, c, w, wrap_pending)
        BY <2>3, <3>2 DEF PrintFits
      <4>. QED  BY <1>1, <2>1, <4>1, PutAtMargin
    <3>. QED  BY <3>1, <3>2
  <2>4. ASSUME NEW c \in Wide, PrintWraps(c) PROVE cursor_x' = cols'
    <3>1. PICK at \in Upwards(MarginBlanked) : Put(at, 1, c, 2, FALSE)
      BY <2>4 DEF PrintWraps
    <3>2. 2 \in {1, 2}
      OBVIOUS
    <3>. QED  BY <1>1, <2>1, <3>1, <3>2, PutAtMargin
  <2>5. ASSUME NEW c \in Wide, PrintDropped(c) PROVE cursor_x' = cols'
    <3>1. ~Wraps
      BY <2>5, Zenon DEF PrintDropped
    <3>2. UNCHANGED <<cols, cursor_x, wrap_pending>>
      BY <2>5, <3>1 DEF PrintDropped, cursorVars
    <3>. QED  BY <2>2, <3>2
  <2>6. CASE \/ CombiningMark \/ \E mode \in 0..2 : EraseLine(mode) \/ EraseDisplay(mode)
             \/ \E n \in Params : EraseCharacter(n) \/ DeleteCharacter(n) \/ InsertCharacter(n)
             \/ ScrollUpN \/ ScrollDownN \/ EraseSavedLines \/ SaveCursor
             \/ \E enable \in BOOLEAN : SetAutowrap(enable)
    <3>1. UNCHANGED <<cols, cursor_x, wrap_pending>>
      BY <2>6
         DEF CombiningMark, EraseLine, EraseDisplay, EraseCharacter, DeleteCharacter,
             InsertCharacter, Edit, ScrollUpN, ScrollDownN, EraseSavedLines, SaveCursor,
             SetAutowrap, cursorVars
    <3>. QED  BY <2>2, <3>1
  \* steps that drop the pending wrap
  <2>7. CASE \/ \E c \in Narrow : ScreenAlignment(c)
             \/ \E n \in Params : \/ CursorForward(n) \/ CursorBack(n) \/ CursorAbsolute(n)
                                  \/ CursorPosition(n)
             \/ Tab \/ CarriageReturn \/ CursorVertical \/ CursorToLine \/ LineFeed \/ NextLine
             \/ DeleteLines \/ InsertLines \/ FullReset
             \/ \E save \in BOOLEAN : EnterAltScreen(save)
             \/ \E n \in Widths : Resize(n)
    <3>1. ~wrap_pending'
      BY <2>7, Zenon
         DEF ScreenAlignment, CursorForward, CursorBack, CursorAbsolute, CursorPosition, Tab,
             CarriageReturn, CursorVertical, CursorToLine, MoveTo, MoveToRow, LineFeed, NextLine,
             DeleteLines, InsertLines, FullReset, EnterAltScreen, Resize
    <3>. QED  BY <3>1, Zenon
  \* leaving the alternate screen without the saved cursor
  <2>8. ASSUME NEW restore \in BOOLEAN, ExitAltScreen(restore) PROVE cursor_x' = cols'
    <3>1. restore = FALSE
      BY <2>8
    <3>2. UNCHANGED <<cols, cursor_x, wrap_pending>>
      BY <2>8, <3>1 DEF ExitAltScreen, cursorVars
    <3>. QED  BY <2>2, <3>2
  <2>9. 1 \in {1, 2} /\ 2 \in {1, 2}
    OBVIOUS
  <2>. QED  BY <2>3, <2>4, <2>5, <2>6, <2>7, <2>8, <2>9 DEF Next
<1>. QED  BY <1>1, TypeCorrect, PTL DEF Spec, WrapAtMargin

-----------------------------------------------------------------------------
(* The characters of a row, column by column: what each edit keeps. *)

\* The cell shows a character.
Shows(cell) == cell.c \in Narrow \cup Wide

\* The last column of the character that starts in column i
LastOf(r, i) == IF r[i].w = 2 THEN i + 1 ELSE i

Glyph(r, i) == [c |-> r[i].c, from |-> i, to |-> LastOf(r, i)]

LEMMA TextMember ==
  ASSUME NEW n \in Nat, NEW r, Len(r) = n
  PROVE  /\ \A t \in Text(r) : \E i \in 1..n : Shows(r[i]) /\ t = Glyph(r, i)
         /\ \A i \in 1..n : Shows(r[i]) => Glyph(r, i) \in Text(r)
BY DEF Text, Shows, Glyph, LastOf

LEMMA GlyphFields ==
  ASSUME NEW r, NEW i
  PROVE  Glyph(r, i).c = r[i].c /\ Glyph(r, i).from = i /\ Glyph(r, i).to = LastOf(r, i)
BY DEF Glyph

\* Blank cells and second halves show nothing.
LEMMA NotShown ==
  /\ ~Shows(BlankCell)
  /\ \A cell : ~Shows(Blanked(cell))
  /\ \A cell : cell.c = Nul => ~Shows(cell)
<1>1. Space \notin Narrow \cup Wide /\ Nul \notin Narrow \cup Wide
  BY CharsAssumption
<1>2. BlankCell.c = Space /\ \A cell : Blanked(cell).c = Space
  BY DEF BlankCell, Blanked
<1>. QED  BY <1>1, <1>2 DEF Shows

\* A character starts in a cell of width 1 or 2.
LEMMA ShownWidth ==
  ASSUME NEW n \in Nat, NEW r, RowOK(r, n), NEW i \in 1..n, Shows(r[i])
  PROVE  r[i].w \in {1, 2}
<1>1. r[i] \in Cell
  BY DEF RowOK
<1>2. r[i].w # 0
  BY NotShown DEF RowOK
<1>. QED  BY <1>1, <1>2, CellTypes

\* fixup_wide_char_at removes the wide character that covers x, and no other.
LEMMA FixupShows ==
  ASSUME NEW n \in Nat, NEW r, RowOK(r, n), NEW x \in 1..n, NEW i \in 1..n
  PROVE  /\ Shows(Fixup(r, x)[i]) => Fixup(r, x)[i] = r[i]
         /\ Shows(Fixup(r, x)[i]) <=> Shows(r[i]) /\ ~(r[i].w = 2 /\ (x = i \/ x = i + 1))
<1>. DEFINE f == Fixup(r, x)
<1>1. Len(r) = n
  BY RowLen DEF RowOK
<1>2. \A j : j \in PairAt(r, x) <=> \/ r[x].w = 2 /\ (j = x \/ j = x + 1)
                                    \/ r[x].w = 0 /\ x > 1 /\ (j = x - 1 \/ j = x)
  BY PairColumns
<1>3. f[i] = IF i \in PairAt(r, x) THEN Blanked(r[i]) ELSE r[i]
  BY <1>1 DEF Fixup
<1>. HIDE DEF f
<1>4. CASE i \in PairAt(r, x)
  <2>1. ~Shows(f[i])
    BY <1>3, <1>4, NotShown
  <2>2. CASE r[x].w = 2 /\ i = x
    BY <2>1, <2>2 DEF f
  <2>3. CASE r[x].w = 2 /\ i = x + 1
    <3>1. r[i].w = 0
      BY <2>3 DEF RowOK
    <3>2. r[i].c = Nul
      BY <3>1 DEF RowOK
    <3>. QED  BY <2>1, <3>2, NotShown DEF f
  <2>4. CASE r[x].w = 0 /\ x > 1 /\ i = x - 1
    <3>1. r[i].w = 2 /\ x = i + 1
      BY <2>4 DEF RowOK
    <3>. QED  BY <2>1, <3>1 DEF f
  <2>5. CASE r[x].w = 0 /\ i = x
    <3>1. r[i].c = Nul
      BY <2>5 DEF RowOK
    <3>. QED  BY <2>1, <3>1, NotShown DEF f
  <2>. QED  BY <1>2, <1>4, <2>2, <2>3, <2>4, <2>5
<1>5. CASE i \notin PairAt(r, x)
  <2>1. f[i] = r[i]
    BY <1>3, <1>5
  <2>2. ASSUME r[i].w = 2, x = i \/ x = i + 1 PROVE FALSE
    <3>1. CASE x = i
      BY <1>2, <1>5, <2>2, <3>1
    <3>2. CASE x = i + 1
      <4>1. r[i + 1].w = 0
        BY <2>2 DEF RowOK
      <4>2. r[x].w = 0 /\ x > 1 /\ i = x - 1
        BY <3>2, <4>1
      <4>. QED  BY <1>2, <1>5, <4>2
    <3>. QED  BY <2>2, <3>1, <3>2
  <2>. QED  BY <2>1, <2>2 DEF f
<1>. QED  BY <1>4, <1>5

\* set_cell of a character of one column
LEMMA SetNarrowShows ==
  ASSUME NEW n \in Nat, NEW r, RowOK(r, n), NEW x \in 1..n, NEW c \in Narrow,
         NEW s, s = SetCell(r, x, c, 1)
  PROVE  /\ s[x].c = c /\ s[x].w = 1
         /\ \A i \in 1..n : i # x =>
              /\ Shows(s[i]) => s[i] = r[i]
              /\ Shows(s[i]) <=> Shows(r[i]) /\ (LastOf(r, i) < x \/ i > x)
<1>. DEFINE f == Fixup(r, x)
            new == [c |-> c, w |-> 1, m |-> 0]
<1>1. f \in [1..n -> Cell]
  BY FixupOK DEF RowOK
<1>2. s = [f EXCEPT ![x] = new]
  BY DEF SetCell
<1>3. s[x] = new /\ \A i \in 1..n : i # x => s[i] = f[i]
  BY <1>1, <1>2
<1>4. ASSUME NEW i \in 1..n, i # x
      PROVE  ~(r[i].w = 2 /\ (x = i \/ x = i + 1)) <=> (LastOf(r, i) < x \/ i > x)
  BY <1>4 DEF LastOf
<1>5. ASSUME NEW i \in 1..n, i # x
      PROVE  /\ Shows(s[i]) => s[i] = r[i]
             /\ Shows(s[i]) <=> Shows(r[i]) /\ (LastOf(r, i) < x \/ i > x)
  <2>1. s[i] = Fixup(r, x)[i]
    BY <1>3, <1>5
  <2>. HIDE DEF f
  <2>. QED  BY <1>4, <1>5, <2>1, FixupShows
<1>. QED  BY <1>3, <1>5

\* set_cell of a wide character that has room
LEMMA SetWideShows ==
  ASSUME NEW n \in Nat, NEW r, RowOK(r, n), NEW x \in 1..n, x < n, NEW c \in Wide,
         NEW s, s = SetCell(r, x, c, 2)
  PROVE  /\ s[x].c = c /\ s[x].w = 2 /\ ~Shows(s[x + 1])
         /\ \A i \in 1..n : i # x /\ i # x + 1 =>
              /\ Shows(s[i]) => s[i] = r[i]
              /\ Shows(s[i]) <=> Shows(r[i]) /\ (LastOf(r, i) < x \/ i > x + 1)
<1>. DEFINE f == Fixup(r, x)
            base == [c |-> c, w |-> 2, m |-> 0]
            g == [f EXCEPT ![x] = base]
            h == Fixup(g, x + 1)
            cont == [c |-> Nul, w |-> 0, m |-> 0]
<1>1. RowOK(f, n) /\ f[x].w = 1
  BY FixupOK
<1>2. Len(r) = n
  BY RowLen DEF RowOK
<1>3. s = [h EXCEPT ![x + 1] = cont]
  BY <1>2 DEF SetCell
<1>4. base \in Cell /\ base.w = 2 /\ base.c = c /\ cont.c = Nul
  <2>1. c \in Narrow \cup Wide \cup {Space, Nul} /\ 2 \in 0..2
    OBVIOUS
  <2>. QED  BY <2>1, NewCell
<1>. HIDE DEF f, base, cont
<1>5. g \in [1..n -> Cell] /\ g[x] = base /\ \A i \in 1..n : i # x => g[i] = f[i]
  BY <1>1, <1>4 DEF RowOK
<1>. HIDE DEF g
<1>6. Len(g) = n
  BY <1>5, RowLen
<1>7. x + 1 \in 1..n /\ g[x + 1] = f[x + 1] /\ f[x + 1].w # 0
  <2>1. x + 1 \in 1..n /\ x + 1 # x /\ (x + 1) - 1 = x
    OBVIOUS
  <2>. QED  BY <1>1, <1>5, <2>1 DEF RowOK
<1>8. \A i : i \in PairAt(g, x + 1) <=> f[x + 1].w = 2 /\ (i = x + 1 \/ i = x + 2)
  BY <1>7 DEF PairAt
<1>9. \A i \in 1..n : h[i] = IF i \in PairAt(g, x + 1) THEN Blanked(g[i]) ELSE g[i]
  BY <1>6 DEF Fixup
<1>10. DOMAIN h = 1..n
  BY <1>6 DEF Fixup
<1>. HIDE DEF h
<1>11. s[x + 1] = cont /\ \A i \in 1..n : i # x + 1 => s[i] = h[i]
  BY <1>3, <1>7, <1>10
<1>12. s[x] = base
  BY <1>5, <1>8, <1>9, <1>11
<1>13. ASSUME NEW i \in 1..n, i # x, i # x + 1
       PROVE  (Shows(s[i]) => s[i] = f[i]) /\ (Shows(s[i]) <=> Shows(f[i]))
  <2>1. CASE i \in PairAt(g, x + 1)
    <3>1. ~Shows(s[i])
      BY <1>9, <1>11, <1>13, <2>1, NotShown
    <3>2. f[x + 1].w = 2 /\ i = (x + 1) + 1
      BY <1>8, <1>13, <2>1
    <3>3. f[i].w = 0
      BY <1>1, <1>7, <3>2 DEF RowOK
    <3>4. f[i].c = Nul
      BY <1>1, <3>3 DEF RowOK
    <3>. QED  BY <3>1, <3>4, NotShown
  <2>2. CASE i \notin PairAt(g, x + 1)
    BY <1>5, <1>9, <1>11, <1>13, <2>2
  <2>. QED  BY <2>1, <2>2
<1>14. ASSUME NEW i \in 1..n, i # x, i # x + 1
       PROVE  ~(r[i].w = 2 /\ (x = i \/ x = i + 1)) <=> (LastOf(r, i) < x \/ i > x + 1)
  BY <1>14 DEF LastOf
<1>15. ASSUME NEW i \in 1..n, i # x, i # x + 1
       PROVE  /\ Shows(s[i]) => s[i] = r[i]
              /\ Shows(s[i]) <=> Shows(r[i]) /\ (LastOf(r, i) < x \/ i > x + 1)
  BY <1>13, <1>14, <1>15, FixupShows DEF f
<1>. QED  BY <1>4, <1>11, <1>12, <1>15, NotShown

\* erase_cells: a wide character that starts right after the columns goes too.
LEMMA EraseCellsShows ==
  ASSUME NEW n \in Nat, NEW r, RowOK(r, n), NEW x \in 1..n, NEW p \in Nat \ {0},
         NEW s, s = EraseCells(r, x, x + p)
  PROVE  \A i \in 1..n :
           /\ Shows(s[i]) => s[i] = r[i]
           /\ Shows(s[i]) <=> /\ Shows(r[i])
                              /\ LastOf(r, i) < x \/ i > x + p - 1
                              /\ i = x + p => LastOf(r, i) = i
<1>. DEFINE end == Least(x + p, n + 1)
            left == Fixup(r, x)
            fixed == IF end <= n THEN Fixup(left, end) ELSE left
<1>1. Len(r) = n
  BY RowLen DEF RowOK
<1>2. \A i \in 1..n : s[i] = IF i \in x..end - 1 THEN BlankCell ELSE fixed[i]
  BY <1>1 DEF EraseCells
<1>3. /\ end \in Nat /\ x < end /\ end <= n + 1
      /\ end <= n => end = x + p
      /\ end > n => x + p > n
  BY DEF Least
<1>4. RowOK(left, n)
  BY FixupOK
<1>5. ASSUME NEW i \in 1..n
      PROVE  /\ Shows(left[i]) => left[i] = r[i]
             /\ Shows(left[i]) <=> Shows(r[i]) /\ ~(r[i].w = 2 /\ (x = i \/ x = i + 1))
  BY FixupShows
<1>. HIDE DEF end, left
<1>6. ASSUME NEW i \in 1..n
      PROVE  /\ Shows(fixed[i]) => fixed[i] = left[i]
             /\ Shows(fixed[i]) <=> /\ Shows(left[i])
                                    /\ ~(end <= n /\ left[i].w = 2 /\ (end = i \/ end = i + 1))
  <2>1. CASE end <= n
    <3>1. end \in 1..n /\ fixed = Fixup(left, end)
      BY <1>3, <2>1
    <3>. HIDE DEF fixed
    <3>. QED  BY <1>4, <2>1, <3>1, FixupShows
  <2>2. CASE ~(end <= n)
    BY <2>2
  <2>. QED  BY <2>1, <2>2
<1>. HIDE DEF fixed
<1>. SUFFICES ASSUME NEW i \in 1..n
              PROVE  /\ Shows(s[i]) => s[i] = r[i]
                     /\ Shows(s[i]) <=> /\ Shows(r[i])
                                        /\ LastOf(r, i) < x \/ i > x + p - 1
                                        /\ i = x + p => LastOf(r, i) = i
  OBVIOUS
<1>7. CASE i \in x..end - 1
  <2>1. ~Shows(s[i])
    BY <1>2, <1>7, NotShown
  <2>2. ~(LastOf(r, i) < x) /\ ~(i > x + p - 1)
    BY <1>3, <1>7 DEF LastOf
  <2>. QED  BY <2>1, <2>2
<1>8. CASE i < x
  <2>1. s[i] = fixed[i]
    BY <1>2, <1>8
  <2>2. end # i /\ end # i + 1
    BY <1>3, <1>8
  <2>3. ~(r[i].w = 2 /\ (x = i \/ x = i + 1)) <=> LastOf(r, i) < x
    BY <1>8 DEF LastOf
  <2>4. ~(i > x + p - 1) /\ i # x + p
    BY <1>8
  <2>. QED  BY <1>5, <1>6, <2>1, <2>2, <2>3, <2>4
<1>9. CASE i >= end
  <2>1. s[i] = fixed[i]
    BY <1>2, <1>3, <1>9
  <2>2. end <= n /\ end = x + p /\ i > x + p - 1 /\ i > x
    BY <1>3, <1>9
  <2>3. (r[i].w = 2 /\ (end = i \/ end = i + 1)) <=> (i = x + p /\ LastOf(r, i) # i)
    BY <1>3, <1>9, <2>2 DEF LastOf
  <2>4. ~(x = i \/ x = i + 1)
    BY <2>2
  <2>5. Shows(left[i]) <=> Shows(r[i])
    BY <1>5, <2>4
  <2>6. Shows(fixed[i]) <=> Shows(r[i]) /\ ~(i = x + p /\ LastOf(r, i) # i)
    BY <1>5, <1>6, <2>2, <2>3, <2>5
  <2>7. Shows(s[i]) => s[i] = r[i]
    BY <1>5, <1>6, <2>1
  <2>. QED  BY <2>1, <2>2, <2>6, <2>7
<1>. QED  BY <1>3, <1>7, <1>8, <1>9

\* DCH: left of x a column keeps its character, from x on it gets the one p
\* columns to the right.
LEMMA DeleteCellsShows ==
  ASSUME NEW n \in Nat, NEW r, RowOK(r, n), NEW x \in 1..n, NEW p \in Nat \ {0},
         NEW s, s = DeleteCells(r, x, p), NEW i \in 1..n
  PROVE  /\ i < x => /\ Shows(s[i]) => s[i] = r[i]
                     /\ Shows(s[i]) <=> Shows(r[i]) /\ LastOf(r, i) < x
         /\ i >= x => /\ Shows(s[i]) => i + p <= n /\ s[i] = r[i + p]
                      /\ Shows(s[i]) <=> i + p <= n /\ Shows(r[i + p])
<1>. DEFINE f == Fixup(r, x)
            k == Rounds(r, x, p)
            rem == Removed(f, x, k)
            orphans == {j \in {x - 1, x} : rem[x].w = 0 /\ (j = x \/ (j >= 1 /\ rem[j].w = 2))}
            d == [j \in 1..n |-> IF j \in orphans THEN Blanked(rem[j]) ELSE rem[j]]
<1>1. Len(r) = n
  BY RowLen DEF RowOK
<1>2. RowOK(f, n) /\ f[x].w = 1
  BY FixupOK
<1>3. Len(f) = n
  BY <1>2, RowLen DEF RowOK
<1>4. k \in Nat /\ k >= 1 /\ x + k <= n + 1 /\ (k = p \/ (x + k = n + 1 /\ p >= k))
  BY <1>1 DEF Rounds, Least
<1>5. s = d
  BY <1>1 DEF DeleteCells
<1>. HIDE DEF k
<1>6. ASSUME NEW j \in 1..n
      PROVE  /\ Shows(f[j]) => f[j] = r[j]
             /\ Shows(f[j]) <=> Shows(r[j]) /\ ~(r[j].w = 2 /\ (x = j \/ x = j + 1))
  BY FixupShows
<1>. HIDE DEF f
<1>7. /\ \A j \in 1..n : j < x => rem[j] = f[j]
      /\ \A j \in 1..n : j >= x /\ j + k <= n => rem[j] = f[j + k]
      /\ \A j \in 1..n : j >= x /\ j + k > n => rem[j] = BlankCell
  BY <1>3, <1>4 DEF Removed
<1>. HIDE DEF rem
<1>8. ASSUME i < x PROVE i \notin orphans
  <2>1. ASSUME i = x - 1, rem[i].w = 2 PROVE FALSE
    <3>1. f[i].w = 2
      BY <1>7, <1>8, <2>1
    <3>2. f[i + 1].w = 0 /\ i + 1 = x
      BY <1>2, <2>1, <3>1 DEF RowOK
    <3>. QED  BY <1>2, <3>2
  <2>. QED  BY <1>8, <2>1
<1>9. i \in orphans => i >= x /\ rem[i].w = 0
  BY <1>8
<1>10. s[i] = IF i \in orphans THEN Blanked(rem[i]) ELSE rem[i]
  BY <1>5
<1>. HIDE DEF orphans, d
<1>11. CASE i < x
  <2>1. s[i] = f[i]
    BY <1>7, <1>8, <1>10, <1>11
  <2>2. ~(r[i].w = 2 /\ (x = i \/ x = i + 1)) <=> LastOf(r, i) < x
    BY <1>11 DEF LastOf
  <2>. QED  BY <1>6, <1>11, <2>1, <2>2
<1>12. CASE i >= x /\ i + k <= n
  <2>1. k = p /\ i + k \in 1..n /\ rem[i] = f[i + k]
    BY <1>4, <1>7, <1>12
  <2>2. i + k > x
    BY <1>4, <1>12
  <2>3. ~(x = i + k \/ x = i + k + 1)
    BY <1>4, <1>12
  <2>4. (Shows(f[i + k]) => f[i + k] = r[i + k]) /\ (Shows(f[i + k]) <=> Shows(r[i + k]))
    BY <1>6, <2>1, <2>3
  <2>5. CASE i \in orphans
    <3>1. f[i + k].w = 0
      BY <1>9, <2>1, <2>5
    <3>2. f[i + k].c = Nul
      BY <1>2, <2>1, <3>1 DEF RowOK
    <3>3. ~Shows(f[i + k]) /\ ~Shows(s[i])
      BY <1>10, <2>5, <3>2, NotShown
    <3>. QED  BY <1>12, <2>1, <2>4, <3>3
  <2>6. CASE i \notin orphans
    <3>1. s[i] = f[i + k]
      BY <1>10, <2>1, <2>6
    <3>. QED  BY <1>12, <2>1, <2>4, <3>1
  <2>. QED  BY <2>5, <2>6
<1>13. CASE i >= x /\ i + k > n
  <2>1. ~Shows(s[i])
    BY <1>7, <1>10, <1>13, NotShown
  <2>2. ~(i + p <= n)
    BY <1>4, <1>13
  <2>. QED  BY <1>13, <2>1, <2>2
<1>. QED  BY <1>4, <1>11, <1>12, <1>13

\* ICH: what p columns to the right of column i's place is on the screen, and
\* does not come to end in the last column as a wide character, is there.
LEMMA InsertCellsShows ==
  ASSUME NEW n \in Nat, NEW r, RowOK(r, n), NEW x \in 1..n, NEW p \in Nat \ {0},
         NEW s, s = InsertCells(r, x, p),
         NEW j \in 1..n, Shows(r[j]), j > x \/ (j = x /\ LastOf(r, j) = x),
         LastOf(r, j) + p < n \/ (j + p = n /\ LastOf(r, j) + p = n)
  PROVE  j + p \in 1..n /\ s[j + p] = r[j]
<1>. DEFINE f == Fixup(r, x)
            k == Rounds(r, x, p)
            ins == Inserted(f, x, k)
            orphans == {i \in {n - 1, n} : ins[n].w \in {0, 2} /\
                          (i = n \/ (i >= 1 /\ ins[n].w = 0 /\ ins[i].w = 2))}
            d == [i \in 1..n |-> IF i \in orphans THEN Blanked(ins[i]) ELSE ins[i]]
<1>1. Len(r) = n
  BY RowLen DEF RowOK
<1>2. f \in [1..n -> Cell]
  BY FixupOK DEF RowOK
<1>3. Len(f) = n
  BY <1>2, RowLen
<1>4. s = d
  BY <1>1 DEF InsertCells
<1>5. j + p \in 1..n
  BY DEF LastOf
<1>6. k = p
  BY <1>1, <1>5 DEF Rounds, Least
<1>7. f[j] = r[j]
  <2>1. ~(r[j].w = 2 /\ (x = j \/ x = j + 1))
    BY DEF LastOf
  <2>. QED  BY <2>1, FixupShows
<1>8. ins[j + p] = f[j]
  <2>1. j + p >= x + p /\ (j + p) - p = j /\ ~(j + p < x) /\ ~(j + p < x + p)
    OBVIOUS
  <2>. QED  BY <1>3, <1>5, <1>6, <2>1 DEF Inserted
<1>. HIDE DEF f, k, ins
<1>9. ins[j + p].w \in {1, 2}
  BY <1>7, <1>8, ShownWidth
<1>10. j + p \notin orphans
  <2>1. CASE j + p = n
    <3>1. r[j].w # 2
      BY <2>1 DEF LastOf
    <3>2. ins[n].w = 1
      BY <1>7, <1>8, <1>9, <2>1, <3>1
    <3>. QED  BY <3>2
  <2>2. CASE j + p # n
    <3>1. ASSUME j + p = n - 1, r[j].w = 2 PROVE FALSE
      BY <3>1 DEF LastOf
    <3>. QED  BY <1>7, <1>8, <2>2, <3>1
  <2>. QED  BY <2>1, <2>2
<1>. HIDE DEF orphans
<1>. QED  BY <1>4, <1>5, <1>7, <1>8, <1>10

\* Row::resize
LEMMA FitRowShows ==
  ASSUME NEW n \in Nat, NEW r, RowOK(r, n), NEW m \in Nat \ {0},
         NEW s, s = FitRow(r, m), NEW j \in 1..n, Shows(r[j]),
         LastOf(r, j) < m \/ (j = m /\ LastOf(r, j) = m)
  PROVE  j \in 1..m /\ s[j] = r[j]
<1>1. Len(r) = n
  BY RowLen DEF RowOK
<1>2. j \in 1..m
  BY DEF LastOf
<1>3. r[j].w \in {1, 2}
  BY ShownWidth
<1>4. \A i : i \in PairAt(r, m) <=> \/ r[m].w = 2 /\ (i = m \/ i = m + 1)
                                    \/ r[m].w = 0 /\ m > 1 /\ (i = m - 1 \/ i = m)
  BY PairColumns
<1>5. ASSUME n > m, j \in PairAt(r, m) PROVE FALSE
  <2>1. CASE j = m
    <3>1. r[m].w # 2 /\ r[m].w # 0
      BY <1>3, <2>1 DEF LastOf
    <3>. QED  BY <1>4, <1>5, <3>1
  <2>2. CASE j # m
    <3>1. r[m].w = 0 /\ m > 1 /\ j = m - 1
      BY <1>2, <1>4, <1>5, <2>2
    <3>2. m \in 1..n
      BY <1>5
    <3>3. r[m - 1].w = 2
      BY <3>1, <3>2 DEF RowOK
    <3>. QED  BY <3>1, <3>3 DEF LastOf
  <2>. QED  BY <2>1, <2>2
<1>6. s[j] = IF n > m /\ j \in PairAt(r, m) THEN Blanked(r[j])
             ELSE IF j <= n THEN r[j] ELSE BlankCell
  BY <1>1, <1>2 DEF FitRow
<1>. QED  BY <1>2, <1>5, <1>6

\* Two rows that agree on a column agree on the character there.
LEMMA SameGlyph ==
  ASSUME NEW r, NEW s, NEW i, s[i] = r[i]
  PROVE  Glyph(s, i) = Glyph(r, i)
BY DEF Glyph, LastOf

\* A character that moves by d columns
Moved(t, d) == [t EXCEPT !.from = @ + d, !.to = @ + d]

LEMMA ShiftedMoves ==
  ASSUME NEW T, NEW d PROVE Shifted(T, d) = {Moved(t, d) : t \in T}
BY DEF Shifted, Moved

LEMMA MovedFields ==
  ASSUME NEW ch, NEW a \in Int, NEW b \in Int, NEW d \in Int
  PROVE  Moved([c |-> ch, from |-> a, to |-> b], d) =
           [c |-> ch, from |-> a + d, to |-> b + d]
<1>. DEFINE g == [c |-> ch, from |-> a, to |-> b]
            h == [c |-> ch, from |-> a + d, to |-> b]
<1>1. g.from = a /\ g.to = b
  OBVIOUS
<1>2. Moved(g, d) = [[g EXCEPT !.from = a + d] EXCEPT !.to = b + d]
  BY <1>1, Zenon DEF Moved
<1>3. [g EXCEPT !.from = a + d] = h
  OBVIOUS
<1>4. [h EXCEPT !.to = b + d] = [c |-> ch, from |-> a + d, to |-> b + d]
  OBVIOUS
<1>. QED  BY <1>2, <1>3, <1>4

LEMMA MovedColumns ==
  ASSUME NEW r, NEW j \in Int, NEW d \in Int
  PROVE  Moved(Glyph(r, j), d) = [c |-> r[j].c, from |-> j + d, to |-> LastOf(r, j) + d]
<1>. DEFINE to == LastOf(r, j)
<1>1. to \in Int
  BY DEF LastOf
<1>2. Glyph(r, j) = [c |-> r[j].c, from |-> j, to |-> to]
  BY Zenon DEF Glyph
<1>. HIDE DEF to
<1>3. Moved([c |-> r[j].c, from |-> j, to |-> to], d) =
        [c |-> r[j].c, from |-> j + d, to |-> to + d]
  BY <1>1, MovedFields
<1>4. Moved(Glyph(r, j), d) = [c |-> r[j].c, from |-> j + d, to |-> to + d]
  BY <1>2, <1>3, Zenon
<1>. QED  BY <1>4 DEF to

LEMMA MovedGlyph ==
  ASSUME NEW r, NEW s, NEW j \in Int, NEW d \in Int, NEW i \in Int, i = j + d, s[i] = r[j]
  PROVE  Moved(Glyph(r, j), d) = Glyph(s, i)
<1>1. Moved(Glyph(r, j), d) = [c |-> r[j].c, from |-> j + d, to |-> LastOf(r, j) + d]
  BY MovedColumns
<1>2. LastOf(s, i) = LastOf(r, j) + d
  BY DEF LastOf
<1>. QED  BY <1>1, <1>2 DEF Glyph

LEMMA SetNarrowText ==
  ASSUME NEW n \in Nat, NEW r, RowOK(r, n), NEW x \in 1..n, NEW c \in Narrow
  PROVE  Text(SetCell(r, x, c, 1)) =
           Untouched(Text(r), x, x) \cup {[c |-> c, from |-> x, to |-> x]}
<1>. DEFINE s == SetCell(r, x, c, 1)
            new == [c |-> c, from |-> x, to |-> x]
<1>1. Len(r) = n /\ Len(s) = n
  BY RowOKWhole, SetNarrowOK
<1>2. /\ s[x].c = c /\ s[x].w = 1
      /\ \A i \in 1..n : i # x =>
           /\ Shows(s[i]) => s[i] = r[i]
           /\ Shows(s[i]) <=> Shows(r[i]) /\ (LastOf(r, i) < x \/ i > x)
  BY SetNarrowShows
<1>. HIDE DEF s
<1>3. Shows(s[x]) /\ Glyph(s, x) = new
  BY <1>2 DEF Shows, Glyph, LastOf
<1>. HIDE DEF new
<1>4. ASSUME NEW t \in Text(s) PROVE t \in Untouched(Text(r), x, x) \cup {new}
  <2>1. PICK i \in 1..n : Shows(s[i]) /\ t = Glyph(s, i)
    BY <1>1, <1>4, TextMember
  <2>2. CASE i = x
    BY <1>3, <2>1, <2>2
  <2>3. CASE i # x
    <3>1. s[i] = r[i] /\ Shows(r[i]) /\ (LastOf(r, i) < x \/ i > x)
      BY <1>2, <2>1, <2>3
    <3>2. t = Glyph(r, i) /\ t \in Text(r)
      BY <1>1, <2>1, <3>1, SameGlyph, TextMember
    <3>. QED  BY <3>1, <3>2, GlyphFields DEF Untouched
  <2>. QED  BY <2>2, <2>3
<1>5. ASSUME NEW t \in Untouched(Text(r), x, x) PROVE t \in Text(s)
  <2>1. t \in Text(r) /\ (t.to < x \/ t.from > x)
    BY <1>5 DEF Untouched
  <2>2. PICK i \in 1..n : Shows(r[i]) /\ t = Glyph(r, i)
    BY <1>1, <2>1, TextMember
  <2>3. (LastOf(r, i) < x \/ i > x) /\ i # x
    BY <2>1, <2>2, GlyphFields DEF LastOf
  <2>4. Shows(s[i]) /\ s[i] = r[i]
    BY <1>2, <2>2, <2>3
  <2>. QED  BY <1>1, <2>2, <2>4, SameGlyph, TextMember
<1>6. new \in Text(s)
  BY <1>1, <1>3, TextMember
<1>7. Text(s) = Untouched(Text(r), x, x) \cup {new}
  BY <1>4, <1>5, <1>6
<1>. QED  BY <1>7 DEF s, new

LEMMA SetWideText ==
  ASSUME NEW n \in Nat, NEW r, RowOK(r, n), NEW x \in 1..n, x < n, NEW c \in Wide
  PROVE  Text(SetCell(r, x, c, 2)) =
           Untouched(Text(r), x, x + 1) \cup {[c |-> c, from |-> x, to |-> x + 1]}
<1>. DEFINE s == SetCell(r, x, c, 2)
            new == [c |-> c, from |-> x, to |-> x + 1]
<1>1. Len(r) = n /\ Len(s) = n
  BY RowOKWhole, SetWideOK
<1>2. /\ s[x].c = c /\ s[x].w = 2 /\ ~Shows(s[x + 1])
      /\ \A i \in 1..n : i # x /\ i # x + 1 =>
           /\ Shows(s[i]) => s[i] = r[i]
           /\ Shows(s[i]) <=> Shows(r[i]) /\ (LastOf(r, i) < x \/ i > x + 1)
  BY SetWideShows
<1>. HIDE DEF s
<1>3. Shows(s[x]) /\ Glyph(s, x) = new
  BY <1>2 DEF Shows, Glyph, LastOf
<1>. HIDE DEF new
<1>4. ASSUME NEW t \in Text(s) PROVE t \in Untouched(Text(r), x, x + 1) \cup {new}
  <2>1. PICK i \in 1..n : Shows(s[i]) /\ t = Glyph(s, i)
    BY <1>1, <1>4, TextMember
  <2>2. CASE i = x
    BY <1>3, <2>1, <2>2
  <2>3. CASE i # x
    <3>1. i # x + 1
      BY <1>2, <2>1
    <3>2. s[i] = r[i] /\ Shows(r[i]) /\ (LastOf(r, i) < x \/ i > x + 1)
      BY <1>2, <2>1, <2>3, <3>1
    <3>3. t = Glyph(r, i) /\ t \in Text(r)
      BY <1>1, <2>1, <3>2, SameGlyph, TextMember
    <3>. QED  BY <3>2, <3>3, GlyphFields DEF Untouched
  <2>. QED  BY <2>2, <2>3
<1>5. ASSUME NEW t \in Untouched(Text(r), x, x + 1) PROVE t \in Text(s)
  <2>1. t \in Text(r) /\ (t.to < x \/ t.from > x + 1)
    BY <1>5 DEF Untouched
  <2>2. PICK i \in 1..n : Shows(r[i]) /\ t = Glyph(r, i)
    BY <1>1, <2>1, TextMember
  <2>3. (LastOf(r, i) < x \/ i > x + 1) /\ i # x /\ i # x + 1
    BY <2>1, <2>2, GlyphFields DEF LastOf
  <2>4. Shows(s[i]) /\ s[i] = r[i]
    BY <1>2, <2>2, <2>3
  <2>. QED  BY <1>1, <2>2, <2>4, SameGlyph, TextMember
<1>6. new \in Text(s)
  BY <1>1, <1>3, TextMember
<1>7. Text(s) = Untouched(Text(r), x, x + 1) \cup {new}
  BY <1>4, <1>5, <1>6
<1>. QED  BY <1>7 DEF s, new

\* What ECH leaves of a text
Spared(text, x, p) ==
  {t \in Untouched(text, x, x + p - 1) : t.from = x + p => t.to = t.from}

LEMMA EraseCellsText ==
  ASSUME NEW n \in Nat, NEW r, RowOK(r, n), NEW x \in 1..n, NEW p \in Nat \ {0}
  PROVE  Text(EraseCells(r, x, x + p)) = Spared(Text(r), x, p)
<1>. DEFINE s == EraseCells(r, x, x + p)
            kept == {t \in Untouched(Text(r), x, x + p - 1) : t.from = x + p => t.to = t.from}
<1>1. Len(r) = n /\ Len(s) = n
  <2>1. x + p \in Nat /\ x < x + p
    OBVIOUS
  <2>. QED  BY <2>1, RowOKWhole, EraseCellsOK
<1>2. \A i \in 1..n :
        /\ Shows(s[i]) => s[i] = r[i]
        /\ Shows(s[i]) <=> /\ Shows(r[i])
                           /\ LastOf(r, i) < x \/ i > x + p - 1
                           /\ i = x + p => LastOf(r, i) = i
  BY EraseCellsShows
<1>. HIDE DEF s
<1>3. ASSUME NEW t \in Text(s) PROVE t \in kept
  <2>1. PICK i \in 1..n : Shows(s[i]) /\ t = Glyph(s, i)
    BY <1>1, <1>3, TextMember
  <2>2. /\ s[i] = r[i] /\ Shows(r[i])
        /\ LastOf(r, i) < x \/ i > x + p - 1
        /\ i = x + p => LastOf(r, i) = i
    BY <1>2, <2>1
  <2>3. t = Glyph(r, i) /\ t \in Text(r)
    BY <1>1, <2>1, <2>2, SameGlyph, TextMember
  <2>. QED  BY <2>2, <2>3, GlyphFields DEF Untouched
<1>4. ASSUME NEW t \in kept PROVE t \in Text(s)
  <2>1. /\ t \in Text(r) /\ (t.to < x \/ t.from > x + p - 1)
        /\ t.from = x + p => t.to = t.from
    BY <1>4 DEF Untouched
  <2>2. PICK i \in 1..n : Shows(r[i]) /\ t = Glyph(r, i)
    BY <1>1, <2>1, TextMember
  <2>3. t.from = i /\ t.to = LastOf(r, i)
    BY <2>2, GlyphFields
  <2>5. (LastOf(r, i) < x \/ i > x + p - 1) /\ (i = x + p => LastOf(r, i) = i)
    BY <2>1, <2>3
  <2>4. Shows(s[i]) /\ s[i] = r[i]
    BY <1>2, <2>2, <2>5
  <2>. QED  BY <1>1, <2>2, <2>4, SameGlyph, TextMember
<1>. HIDE DEF kept
<1>5. Text(s) = kept
  BY <1>3, <1>4
<1>. QED  BY <1>5 DEF s, kept, Spared

LEMMA DeleteCellsText ==
  ASSUME NEW n \in Nat, NEW r, RowOK(r, n), NEW x \in 1..n, NEW p \in Nat \ {0}
  PROVE  Text(DeleteCells(r, x, p)) =
           {t \in Text(r) : t.to < x} \cup Shifted({t \in Text(r) : t.from >= x + p}, -p)
<1>. DEFINE s == DeleteCells(r, x, p)
            left == {t \in Text(r) : t.to < x}
            right == {t \in Text(r) : t.from >= x + p}
<1>1. Len(r) = n /\ Len(s) = n
  BY RowOKWhole, DeleteCellsOK
<1>2. ASSUME NEW i \in 1..n
      PROVE  /\ i < x => /\ Shows(s[i]) => s[i] = r[i]
                         /\ Shows(s[i]) <=> Shows(r[i]) /\ LastOf(r, i) < x
             /\ i >= x => /\ Shows(s[i]) => i + p <= n /\ s[i] = r[i + p]
                          /\ Shows(s[i]) <=> i + p <= n /\ Shows(r[i + p])
  BY DeleteCellsShows
<1>. HIDE DEF s
<1>3. ASSUME NEW t \in Text(s) PROVE t \in left \cup Shifted(right, -p)
  <2>1. PICK i \in 1..n : Shows(s[i]) /\ t = Glyph(s, i)
    BY <1>1, <1>3, TextMember
  <2>2. CASE i < x
    <3>1. s[i] = r[i] /\ Shows(r[i]) /\ LastOf(r, i) < x
      BY <1>2, <2>1, <2>2
    <3>2. t = Glyph(r, i) /\ t \in Text(r)
      BY <1>1, <2>1, <3>1, SameGlyph, TextMember
    <3>. QED  BY <3>1, <3>2, GlyphFields
  <2>3. CASE i >= x
    <3>1. i + p <= n /\ s[i] = r[i + p] /\ Shows(r[i + p])
      BY <1>2, <2>1, <2>3
    <3>2. i + p \in 1..n /\ i + p \in Int /\ i \in Int /\ -p \in Int /\ i = (i + p) + (-p)
      BY <3>1
    <3>3. Moved(Glyph(r, i + p), -p) = t
      BY <2>1, <3>1, <3>2, MovedGlyph
    <3>4. Glyph(r, i + p) \in Text(r)
      BY <1>1, <3>1, <3>2, TextMember
    <3>5. Glyph(r, i + p) \in right
      BY <2>3, <3>4, GlyphFields
    <3>. HIDE DEF right
    <3>. QED  BY <3>3, <3>5, ShiftedMoves
  <2>. QED  BY <2>2, <2>3
<1>4. ASSUME NEW t \in left PROVE t \in Text(s)
  <2>1. PICK i \in 1..n : Shows(r[i]) /\ t = Glyph(r, i)
    BY <1>1, <1>4, TextMember
  <2>2. LastOf(r, i) < x /\ i < x
    BY <1>4, <2>1, GlyphFields DEF LastOf
  <2>3. Shows(s[i]) /\ s[i] = r[i]
    BY <1>2, <2>1, <2>2
  <2>. QED  BY <1>1, <2>1, <2>3, SameGlyph, TextMember
<1>5. ASSUME NEW t \in Shifted(right, -p) PROVE t \in Text(s)
  <2>1. PICK u \in right : t = Moved(u, -p)
    BY <1>5, ShiftedMoves
  <2>2. PICK j \in 1..n : Shows(r[j]) /\ u = Glyph(r, j)
    BY <1>1, <2>1, TextMember
  <2>3. j >= x + p
    BY <2>1, <2>2, GlyphFields
  <2>4. /\ j - p \in 1..n /\ j - p >= x /\ (j - p) + p = j /\ j - p = j + (-p)
        /\ -p \in Int /\ j - p \in Int /\ j \in Int
    BY <2>3
  <2>5. Shows(s[j - p]) /\ s[j - p] = r[j]
    BY <1>2, <2>2, <2>4
  <2>6. t = Glyph(s, j - p)
    BY <2>1, <2>2, <2>4, <2>5, MovedGlyph
  <2>. QED  BY <1>1, <2>4, <2>5, <2>6, TextMember
<1>. HIDE DEF left, right
<1>6. Text(s) = left \cup Shifted(right, -p)
  BY <1>3, <1>4, <1>5
<1>. QED  BY <1>6 DEF s, left, right

LEMMA InsertCellsText ==
  ASSUME NEW n \in Nat, NEW r, RowOK(r, n), NEW x \in 1..n, NEW p \in Nat \ {0}
  PROVE  Before(Shifted({t \in Text(r) : t.from > x \/ (t.from = x /\ t.to = x)}, p), n)
           \subseteq Text(InsertCells(r, x, p))
<1>. DEFINE s == InsertCells(r, x, p)
            moved == {t \in Text(r) : t.from > x \/ (t.from = x /\ t.to = x)}
<1>1. Len(r) = n /\ Len(s) = n
  BY RowOKWhole, InsertCellsOK
<1>2. ASSUME NEW t \in Before(Shifted(moved, p), n) PROVE t \in Text(s)
  <2>0. t \in Shifted(moved, p)
    BY <1>2 DEF Before
  <2>1. PICK u \in moved : t = Moved(u, p)
    BY <2>0, ShiftedMoves
  <2>2. t.to < n \/ (t.from = n /\ t.to = n)
    BY <1>2 DEF Before
  <2>3. PICK j \in 1..n : Shows(r[j]) /\ u = Glyph(r, j)
    BY <1>1, <2>1, TextMember
  <2>4. j > x \/ (j = x /\ LastOf(r, j) = x)
    BY <2>1, <2>3, GlyphFields
  <2>5. t.from = j + p /\ t.to = LastOf(r, j) + p
    <3>1. j \in Int /\ p \in Int
      OBVIOUS
    <3>2. t = [c |-> r[j].c, from |-> j + p, to |-> LastOf(r, j) + p]
      BY <2>1, <2>3, <3>1, MovedColumns
    <3>. QED  BY <3>2
  <2>6. j + p \in 1..n /\ s[j + p] = r[j]
    BY <2>2, <2>3, <2>4, <2>5, InsertCellsShows
  <2>7. t = Glyph(s, j + p)
    <3>1. j \in Int /\ p \in Int /\ j + p \in Int
      OBVIOUS
    <3>. QED  BY <2>1, <2>3, <2>6, <3>1, MovedGlyph
  <2>. QED  BY <1>1, <2>3, <2>6, <2>7, TextMember
<1>. QED  BY <1>2

LEMMA FitRowText ==
  ASSUME NEW n \in Nat, NEW r, RowOK(r, n), NEW m \in Nat \ {0}
  PROVE  Before(Text(r), m) \subseteq Text(FitRow(r, m))
<1>. DEFINE s == FitRow(r, m)
<1>1. Len(r) = n /\ Len(s) = m
  BY RowOKWhole, FitRowOK
<1>2. ASSUME NEW t \in Before(Text(r), m) PROVE t \in Text(s)
  <2>1. t \in Text(r) /\ (t.to < m \/ (t.from = m /\ t.to = m))
    BY <1>2 DEF Before
  <2>2. PICK j \in 1..n : Shows(r[j]) /\ t = Glyph(r, j)
    BY <1>1, <2>1, TextMember
  <2>3. LastOf(r, j) < m \/ (j = m /\ LastOf(r, j) = m)
    BY <2>1, <2>2, GlyphFields
  <2>4. j \in 1..m /\ s[j] = r[j]
    BY <2>2, <2>3, FitRowShows
  <2>. QED  BY <1>1, <2>2, <2>4, SameGlyph, TextMember
<1>. QED  BY <1>2

\* set_cell, erase_cells and DCH: in a row that is whole, an edit changes the
\* characters that overlap the columns it names and no other, at every width,
\* cursor column and parameter.
THEOREM EditsLocalHolds == Spec => []EditsLocal
<1>1. ASSUME TypeOK, place = "cursor", Whole(row)
      PROVE  /\ \A c \in Narrow :
                  Text(SetCell(row, cursor_x, c, 1)) =
                    Untouched(Text(row), cursor_x, cursor_x)
                      \cup {[c |-> c, from |-> cursor_x, to |-> cursor_x]}
             /\ \A c \in Wide : cursor_x < cols =>
                  Text(SetCell(row, cursor_x, c, 2)) =
                    Untouched(Text(row), cursor_x, cursor_x + 1)
                      \cup {[c |-> c, from |-> cursor_x, to |-> cursor_x + 1]}
             /\ \A n \in Params :
                  Text(EraseCells(row, cursor_x, cursor_x + n)) =
                    {t \in Untouched(Text(row), cursor_x, cursor_x + n - 1) :
                       t.from = cursor_x + n => t.to = t.from}
             /\ \A n \in Params :
                  Text(DeleteCells(row, cursor_x, n)) =
                    {t \in Text(row) : t.to < cursor_x} \cup
                    Shifted({t \in Text(row) : t.from >= cursor_x + n}, -n)
  <2>1. cols \in Nat /\ RowOK(row, cols) /\ cursor_x \in 1..cols
    BY <1>1, CursorRow, CursorVisible DEF TypeOK
  <2>2. Params \subseteq Nat \ {0}
    BY ParamsAssumption
  <2>3. ASSUME NEW n \in Params
        PROVE  Text(EraseCells(row, cursor_x, cursor_x + n)) = Spared(Text(row), cursor_x, n)
    BY <2>1, <2>2, EraseCellsText
  <2>4. \A n \in Params :
          Text(EraseCells(row, cursor_x, cursor_x + n)) =
            {t \in Untouched(Text(row), cursor_x, cursor_x + n - 1) :
               t.from = cursor_x + n => t.to = t.from}
    BY <2>3, Zenon DEF Spared
  <2>5. \A c \in Narrow :
          Text(SetCell(row, cursor_x, c, 1)) =
            Untouched(Text(row), cursor_x, cursor_x)
              \cup {[c |-> c, from |-> cursor_x, to |-> cursor_x]}
    BY <2>1, SetNarrowText
  <2>6. \A c \in Wide : cursor_x < cols =>
          Text(SetCell(row, cursor_x, c, 2)) =
            Untouched(Text(row), cursor_x, cursor_x + 1)
              \cup {[c |-> c, from |-> cursor_x, to |-> cursor_x + 1]}
    BY <2>1, SetWideText
  <2>7. \A n \in Params :
          Text(DeleteCells(row, cursor_x, n)) =
            {t \in Text(row) : t.to < cursor_x} \cup
            Shifted({t \in Text(row) : t.from >= cursor_x + n}, -n)
    BY <2>1, <2>2, DeleteCellsText
  <2>. QED  BY <2>4, <2>5, <2>6, <2>7
<1>2. ASSUME TypeOK PROVE EditsLocal
  BY <1>1, <1>2 DEF EditsLocal
<1>. QED  BY <1>2, TypeCorrect, PTL

\* fixup_wide_char_at blanks one column more than the code that calls it names,
\* and what a torn row can lose to an edit is next to the cells it names.
THEOREM EditsNearHolds == Spec => []EditsNear
<1>1. ASSUME TypeOK, place = "cursor"
      PROVE  LET x == cursor_x
                 Keeps(r, from, to) ==
                   \A i \in 1..cols : i < from - 1 \/ i > to + 1 => r[i] = row[i]
             IN  /\ \A c \in Narrow : Keeps(SetCell(row, x, c, 1), x, x)
                 /\ \A c \in Wide : x < cols => Keeps(SetCell(row, x, c, 2), x, x + 1)
                 /\ \A n \in Params :
                      /\ Keeps(EraseCells(row, x, x + n), x, x + n)
                      /\ \A i \in 1..cols :
                           /\ i < x - 1 => DeleteCells(row, x, n)[i] = row[i]
                           /\ i > x /\ i + n <= cols => DeleteCells(row, x, n)[i] = row[i + n]
                           /\ i < x - 1 /\ i < cols - 1 => InsertCells(row, x, n)[i] = row[i]
                           /\ i > x + n + 1 /\ i < cols - 1
                                => InsertCells(row, x, n)[i] = row[i - n]
  <2>1. cols \in Nat /\ row \in [1..cols -> Cell] /\ cursor_x \in 1..cols
    BY <1>1, CursorRow, CursorVisible DEF TypeOK
  <2>2. ASSUME NEW c \in Narrow, NEW i \in 1..cols, i < cursor_x - 1 \/ i > cursor_x + 1
        PROVE  SetCell(row, cursor_x, c, 1)[i] = row[i]
    <3>1. c \in Narrow \cup Wide /\ 1 \in {1, 2}
      OBVIOUS
    <3>. QED  BY <2>1, <2>2, <3>1, SetCellNear
  <2>3. ASSUME NEW c \in Wide, NEW i \in 1..cols, i < cursor_x - 1 \/ i > cursor_x + 1 + 1
        PROVE  SetCell(row, cursor_x, c, 2)[i] = row[i]
    <3>1. c \in Narrow \cup Wide /\ 2 \in {1, 2} /\ cursor_x + 1 + 1 = cursor_x + 2
      BY <2>1
    <3>. QED  BY <2>1, <2>3, <3>1, SetCellNear
  <2>4. ASSUME NEW n \in Params, NEW i \in 1..cols
        PROVE  /\ i < cursor_x - 1 \/ i > cursor_x + n + 1
                    => EraseCells(row, cursor_x, cursor_x + n)[i] = row[i]
               /\ i < cursor_x - 1 => DeleteCells(row, cursor_x, n)[i] = row[i]
               /\ i > cursor_x /\ i + n <= cols
                    => DeleteCells(row, cursor_x, n)[i] = row[i + n]
               /\ i < cursor_x - 1 /\ i < cols - 1 => InsertCells(row, cursor_x, n)[i] = row[i]
               /\ i > cursor_x + n + 1 /\ i < cols - 1
                    => InsertCells(row, cursor_x, n)[i] = row[i - n]
    <3>1. n \in Nat \ {0} /\ cursor_x + n \in Nat /\ cursor_x < cursor_x + n
      BY <2>1, ParamsAssumption
    <3>2. i < cursor_x - 1 \/ i > cursor_x + n + 1
            => EraseCells(row, cursor_x, cursor_x + n)[i] = row[i]
      BY <2>1, <3>1, EraseCellsNear
    <3>3. /\ i < cursor_x - 1 => DeleteCells(row, cursor_x, n)[i] = row[i]
          /\ i > cursor_x /\ i + n <= cols
               => DeleteCells(row, cursor_x, n)[i] = row[i + n]
      BY <2>1, <3>1, DeleteCellsNear
    <3>4. /\ i < cursor_x - 1 /\ i < cols - 1 => InsertCells(row, cursor_x, n)[i] = row[i]
          /\ i > cursor_x + n + 1 /\ i < cols - 1
               => InsertCells(row, cursor_x, n)[i] = row[i - n]
      BY <2>1, <3>1, InsertCellsNear
    <3>. QED  BY <3>2, <3>3, <3>4
  <2>. QED  BY <2>2, <2>3, <2>4
<1>2. ASSUME TypeOK PROVE EditsNear
  BY <1>1, <1>2 DEF EditsNear
<1>. QED  BY <1>2, TypeCorrect, PTL

\* ICH and Row::resize: in a row that is whole, text that still has room stays,
\* but for a wide character that comes to end in the last column.
THEOREM RoomKeepsHolds == Spec => []RoomKeeps
<1>1. ASSUME TypeOK, Whole(row), place = "cursor"
      PROVE  \A n \in Params :
               Before(Shifted({t \in Text(row) : t.from > cursor_x
                                                   \/ (t.from = cursor_x /\ t.to = cursor_x)}, n),
                      cols)
                 \subseteq Text(InsertCells(row, cursor_x, n))
  <2>1. cols \in Nat \ {0} /\ RowOK(row, cols) /\ cursor_x \in 1..cols
    BY <1>1, CursorRow, CursorVisible DEF TypeOK
  <2>. QED  BY <2>1, ParamsAssumption, InsertCellsText
<1>2. ASSUME TypeOK, Whole(row)
      PROVE  \A n \in Widths :
               Before(Text(row), Sanitize(n)) \subseteq Text(FitRow(row, Sanitize(n)))
  <2>1. row \in Seq(Cell) /\ Len(row) \in Nat
    BY <1>2, RowFun DEF TypeOK
  <2>2. RowOK(row, Len(row))
    BY <1>2, <2>1, RowOKWhole
  <2>3. ASSUME NEW n \in Widths PROVE Sanitize(n) \in Nat \ {0}
    BY WidthsAssumption DEF Sanitize
  <2>. QED  BY <2>1, <2>2, <2>3, FitRowText
<1>3. ASSUME TypeOK PROVE RoomKeeps
  BY <1>1, <1>2, <1>3 DEF RoomKeeps
<1>. QED  BY <1>3, TypeCorrect, PTL
=============================================================================
