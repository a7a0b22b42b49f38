------------------------------- MODULE Cells --------------------------------
(***************************************************************************)
(* The columns of a row: screen/cell.rs (Row), the cell operations of      *)
(* screen/grid.rs (set_cell, erase_cells, fixup_wide_char_at, resize) and  *)
(* the handlers of screen/performer.rs that edit inside a row. A wide      *)
(* character fills two cells, its base (width 2) and a continuation        *)
(* (width 0), and every edit may cut between them.                         *)
(*                                                                         *)
(* One row is followed through the session: under the cursor, elsewhere on *)
(* the screen, in the scrollback, among the rows saved under the alternate *)
(* screen, or gone, after which a new blank row may be the one followed.   *)
(* Where the others are, and with them what a scroll does to this one, is  *)
(* left open (Screen.tla has the rows): every outcome is tried. Columns    *)
(* count from 1 (the code counts from 0). Style ids are left out:          *)
(* Display.tla has them. Combining marks are kept with their column, as    *)
(* the number of marks on it: Row moves them along with the cells.         *)
(***************************************************************************)
EXTENDS Integers, Sequences

CONSTANTS
  Narrow,         \* characters of width 1, the space not included
  Wide,           \* characters of width 2
  Space,          \* ' '
  Nul,            \* '\0', the character of a continuation cell
  None,           \* Option::None
  Widths,         \* column counts a client's terminal can have (0 included)
  Params,         \* numeric parameters the application passes
  MaxCombining    \* MAX_COMBINING: marks a character can carry

ASSUME CharsAssumption ==
  /\ Space \notin Narrow \cup Wide
  /\ Nul \notin Narrow \cup Wide \cup {Space}
  /\ Narrow \cap Wide = {}
ASSUME WidthsAssumption == Widths \subseteq Nat /\ Widths # {}
ASSUME ParamsAssumption == Params \subseteq Nat \ {0}
ASSUME CombiningAssumption == MaxCombining \in Nat

VARIABLES
  row,            \* the cells of the row that is followed, with their marks
  place,          \* where that row is
  cols,           \* columns of the screen
  cursor_x,       \* cursor column
  wrap_pending,   \* the next character wraps first
  autowrap_mode,  \* DECAWM
  saved,          \* saved_cursor_state: column, wrap_pending, autowrap_mode
  main_autowrap   \* the autowrap_mode of saved_modes: Some iff in_alt_screen

cursorVars == <<cursor_x, wrap_pending>>
modeVars == <<autowrap_mode, saved, main_autowrap>>
vars == <<row, place, cols, cursor_x, wrap_pending, autowrap_mode, saved, main_autowrap>>

Cell == [c : Narrow \cup Wide \cup {Space, Nul}, w : 0..2, m : 0..MaxCombining]
SavedCursor == [x : Nat \ {0}, wrap : BOOLEAN, autowrap : BOOLEAN]

ASSUME NoneAssumption == None \notin SavedCursor \cup BOOLEAN

Visible == {"cursor", "screen"}
Places == Visible \cup {"scrollback", "saved", "gone"}

OnMain == main_autowrap = None

Least(a, b) == IF a < b THEN a ELSE b

\* Cell::default, without marks
BlankCell == [c |-> Space, w |-> 1, m |-> 0]

BlankRow(n) == [i \in 1..n |-> BlankCell]

\* A cell that becomes blank while the marks of its column stay.
Blanked(cell) == [c |-> Space, w |-> 1, m |-> cell.m]

-----------------------------------------------------------------------------
(* Row and Grid: edits of a row r. *)

\* Columns of the wide character that column x of r is part of.
PairAt(r, x) ==
  CASE r[x].w = 2 -> {x, x + 1}
    [] r[x].w = 0 /\ x > 1 -> {x - 1, x}
    [] OTHER -> {}

\* Grid::fixup_wide_char_at: what is left of a wide character that is about to
\* be cut is blanked, both halves of it.
Fixup(r, x) ==
  [i \in 1..Len(r) |-> IF i \in PairAt(r, x) THEN Blanked(r[i]) ELSE r[i]]

\* Grid::set_cell
SetCell(r, x, c, w) ==
  LET first  == [Fixup(r, x) EXCEPT ![x] = [c |-> c, w |-> w, m |-> 0]]
      second == Fixup(first, x + 1)
  IN  IF w = 2 /\ x < Len(r)
        THEN [second EXCEPT ![x + 1] = [c |-> Nul, w |-> 0, m |-> 0]]
        ELSE first

\* Mutant: one column too many.
EraseCellsThrough(r, from, to) ==
  LET end   == Least(to + 1, Len(r) + 1)
      left  == Fixup(r, from)
      fixed == IF end <= Len(r) THEN Fixup(left, end) ELSE left
  IN  [i \in 1..Len(r) |-> IF i \in from..end - 1 THEN BlankCell ELSE fixed[i]]

\* Grid::erase_cells: the columns from, ..., to - 1 become blank.
EraseCells(r, from, to) ==
  LET end   == Least(to, Len(r) + 1)
      left  == Fixup(r, from)
      fixed == IF end <= Len(r) THEN Fixup(left, end) ELSE left
  IN  [i \in 1..Len(r) |-> IF i \in from..end - 1 THEN BlankCell ELSE fixed[i]]

\* Row::remove and Row::push, n times at column x
Removed(r, x, n) ==
  [i \in 1..Len(r) |->
     IF i < x THEN r[i] ELSE IF i + n <= Len(r) THEN r[i + n] ELSE BlankCell]

\* Row::pop and Row::insert, n times at column x
Inserted(r, x, n) ==
  [i \in 1..Len(r) |->
     IF i < x THEN r[i] ELSE IF i < x + n THEN BlankCell ELSE r[i - n]]

\* Mutant: one round short at the margin.
RoundsShort(r, x, n) == Least(n, Len(r) - x)

\* Rounds of the loops of DCH and ICH
Rounds(r, x, n) == Least(n, Len(r) - x + 1)

\* DCH: a second half that comes to column x has lost its first half.
DeleteCells(r, x, n) ==
  LET rem == Removed(Fixup(r, x), x, Rounds(r, x, n))
      orphans == {i \in {x - 1, x} : rem[x].w = 0 /\
                    (i = x \/ (i >= 1 /\ rem[i].w = 2))}
  IN  [i \in 1..Len(r) |-> IF i \in orphans THEN Blanked(rem[i]) ELSE rem[i]]

\* ICH: what ends up in the last column is blanked if it belongs to a wide
\* character, and so is the base left of it.
InsertCells(r, x, n) ==
  LET ins  == Inserted(Fixup(r, x), x, Rounds(r, x, n))
      last == Len(r)
      orphans == {i \in {last - 1, last} : ins[last].w \in {0, 2} /\
                    (i = last \/ (i >= 1 /\ ins[last].w = 0 /\ ins[i].w = 2))}
  IN  [i \in 1..Len(r) |-> IF i \in orphans THEN Blanked(ins[i]) ELSE ins[i]]

\* Mutant: the last column that remains is blanked whatever is in it.
FitRowBlanks(r, n) ==
  [i \in 1..n |-> IF Len(r) > n /\ i \in PairAt(r, n) \cup {n} THEN Blanked(r[i])
                  ELSE IF i <= Len(r) THEN r[i] ELSE BlankCell]

\* Row::fix_wide_char_orphan_at_boundary, then Row::resize to n columns. A wide
\* character in the last two columns that remain is blanked as well.
FitRow(r, n) ==
  [i \in 1..n |-> IF Len(r) > n /\ i \in PairAt(r, n) THEN Blanked(r[i])
                  ELSE IF i <= Len(r) THEN r[i] ELSE BlankCell]

\* Columns that DECALN finds blank: right of an odd number of bases in a row,
\* of which every other one has taken the next with it.
Overtaken(r, x) ==
  \E first \in 1..x - 1 :
    /\ (x - first) % 2 = 1
    /\ \A i \in first..x - 1 : r[i].w = 2
    /\ first = 1 \/ r[first - 1].w # 2

\* DECALN: set_cell for every column from the left. A second half without its
\* first blanks what was just put left of it.
Aligned(r, c) ==
  [i \in 1..Len(r) |->
     IF i < Len(r) /\ r[i + 1].w = 0 /\ ~Overtaken(r, i + 1) THEN BlankCell
     ELSE [c |-> c, w |-> 1, m |-> 0]]

\* Every base has its continuation; every continuation has its base, and no
\* marks, which the renderer would skip.
Whole(r) ==
  \A i \in 1..Len(r) :
    /\ r[i].w = 2 => i < Len(r) /\ r[i + 1].w = 0
    /\ r[i].w = 0 => i > 1 /\ r[i - 1].w = 2 /\ r[i].m = 0 /\ r[i].c = Nul

-----------------------------------------------------------------------------
(* Where the row goes. *)

\* sanitize_dimensions
Sanitize(n) == IF n = 0 THEN 1 ELSE n

Init ==
  /\ \E n \in Widths : cols = Sanitize(n)
  /\ row = BlankRow(cols)
  /\ place \in Visible
  /\ cursor_x = 1
  /\ wrap_pending = FALSE
  /\ autowrap_mode = TRUE
  /\ saved = None
  /\ main_autowrap = None

Here == [row |-> row, place |-> place]
Gone == [row |-> <<>>, place |-> "gone"]

\* The row with the cells r in one of the places ps
Rows(r, ps) == {[row |-> r, place |-> p] : p \in ps}

\* What becomes of a row when blank rows come and visible ones go to ps or away
Scrolled(at, ps) ==
  CASE at.place \in Visible -> Rows(at.row, ps) \cup {Gone}
    [] at.place = "gone"    -> Rows(BlankRow(cols), ps) \cup {Gone}
    [] OTHER                -> {at}

\* Grid::scroll_up, and the cursor one row down where nothing scrolls. Only the
\* main screen fills the scrollback, and its limit evicts.
Upwards(at) ==
  IF OnMain
    THEN Scrolled(at, Visible \cup {"scrollback"}) \cup
           (IF at.place = "scrollback" THEN {Gone} ELSE {})
    ELSE Scrolled(at, Visible)

\* Grid::scroll_down, and the cursor one row up
Downwards(at) == Scrolled(at, Visible)

\* The cursor goes to any row of the screen.
Elsewhere(at) == IF at.place \in Visible THEN Rows(at.row, Visible) ELSE {at}

Follow(at) == row' = at.row /\ place' = at.place

-----------------------------------------------------------------------------
(* Characters. *)

\* perform_deferred_wrap comes first.
Wraps == wrap_pending /\ autowrap_mode

\* The end of print: the character goes to column x of the row under the cursor.
Put(at, x, c, w, pending) ==
  /\ row' = IF at.place = "cursor" THEN SetCell(at.row, x, c, w) ELSE at.row
  /\ place' = at.place
  /\ cursor_x' = Least(x + w, cols)
  /\ wrap_pending' = IF x + w > cols /\ autowrap_mode THEN TRUE ELSE pending
  /\ UNCHANGED <<cols, modeVars>>

\* The row once the last column of the cursor's row is blanked
MarginBlanked ==
  IF place = "cursor" THEN [Here EXCEPT !.row[cols] = Blanked(@)] ELSE Here

\* Mutant: the margin is blanked before a pending wrap is looked at.
PrintFitsFillsMargin(c, w) ==
  /\ w = 1 \/ (IF Wraps THEN 1 ELSE cursor_x) < cols
  /\ IF Wraps
       THEN \E at \in Upwards(MarginBlanked) : Put(at, 1, c, w, FALSE)
       ELSE Put(Here, cursor_x, c, w, wrap_pending)

\* print of a character that fits
PrintFits(c, w) ==
  /\ w = 1 \/ (IF Wraps THEN 1 ELSE cursor_x) < cols
  /\ IF Wraps
       THEN \E at \in Upwards(Here) : Put(at, 1, c, w, FALSE)
       ELSE Put(Here, cursor_x, c, w, wrap_pending)

\* print of a wide character in the last column: the column is blanked, and it
\* alone, and the character wraps.
PrintWraps(c) ==
  /\ ~Wraps /\ autowrap_mode
  /\ cursor_x >= cols /\ cols >= 2
  /\ \E at \in Upwards(MarginBlanked) : Put(at, 1, c, 2, FALSE)

\* print of a wide character that has no room: without autowrap, or on a screen
\* of one column. A pending wrap has been performed all the same.
PrintDropped(c) ==
  /\ (IF Wraps THEN 1 ELSE cursor_x) >= cols
  /\ ~autowrap_mode \/ cols < 2
  /\ IF Wraps
       THEN /\ \E at \in Upwards(Here) : Follow(at)
            /\ cursor_x' = 1 /\ wrap_pending' = FALSE
       ELSE UNCHANGED <<row, place, cursorVars>>
  /\ UNCHANGED <<cols, modeVars>>

\* handle_combining_mark: the mark joins the character before the cursor.
CombiningMark ==
  LET before == IF wrap_pending THEN cursor_x ELSE cursor_x - 1
      x      == IF before > 1 /\ row[before].w = 0 THEN before - 1 ELSE before
  IN  /\ place = "cursor" /\ before >= 1
      /\ row[x].m < MaxCombining
      /\ row' = [row EXCEPT ![x].m = @ + 1]
      /\ UNCHANGED <<place, cols, cursorVars, modeVars>>

-----------------------------------------------------------------------------
(* Sequences that edit rows. *)

\* The cursor's row becomes r.
Edit(r) ==
  /\ row' = IF place = "cursor" THEN r ELSE row
  /\ UNCHANGED <<place, cols, cursorVars, modeVars>>

LineErased(mode) ==
  CASE mode = 0 -> EraseCells(row, cursor_x, cols + 1)
    [] mode = 1 -> EraseCells(row, 1, cursor_x + 1)
    [] mode = 2 -> EraseCells(row, 1, cols + 1)

\* csi_erase_line
EraseLine(mode) == Edit(LineErased(mode))

\* csi_erase_display: as EL in the cursor's row; rows above, below or all of
\* them become blank.
EraseDisplay(mode) ==
  /\ row' \in CASE place \in Visible /\ mode = 2 -> {BlankRow(cols)}
                [] place = "cursor" /\ mode # 2  -> {LineErased(mode)}
                [] place = "screen" /\ mode # 2  -> {row, BlankRow(cols)}
                [] OTHER                         -> {row}
  /\ UNCHANGED <<place, cols, cursorVars, modeVars>>

\* csi_erase_character
EraseCharacter(n) == Edit(EraseCells(row, cursor_x, cursor_x + n))

\* csi_delete_character, csi_insert_character
DeleteCharacter(n) == Edit(DeleteCells(row, cursor_x, n))
InsertCharacter(n) == Edit(InsertCells(row, cursor_x, n))

\* DECALN fills the screen with 'E'.
ScreenAlignment(c) ==
  /\ \E at \in Elsewhere(Here) :
       /\ row' = IF place \in Visible THEN Aligned(row, c) ELSE row
       /\ place' = at.place
  /\ cursor_x' = 1
  /\ wrap_pending' = FALSE
  /\ UNCHANGED <<cols, modeVars>>

-----------------------------------------------------------------------------
(* Sequences that move the cursor or the row. *)

\* The cursor moves to column x of the row it is in.
MoveTo(x) ==
  /\ cursor_x' = x
  /\ wrap_pending' = FALSE
  /\ UNCHANGED <<row, place, cols, modeVars>>

\* The cursor moves to column x of some row.
MoveToRow(x) ==
  /\ \E at \in Elsewhere(Here) : Follow(at)
  /\ cursor_x' = x
  /\ wrap_pending' = FALSE
  /\ UNCHANGED <<cols, modeVars>>

\* CUF; CUB and BS; CHA; a tab goes to some stop or to the margin; CR
CursorForward(n)  == MoveTo(Least(cursor_x + n, cols))
CursorBack(n)     == MoveTo(IF cursor_x > n THEN cursor_x - n ELSE 1)
CursorAbsolute(n) == MoveTo(Least(n, cols))
Tab               == \E x \in (cursor_x + 1)..cols \cup {cols} : MoveTo(x)
CarriageReturn    == MoveTo(1)

\* CUU, CUD and VPA; CUP; CNL, CPL, DECSTBM and DECOM
CursorVertical    == MoveToRow(cursor_x)
CursorPosition(n) == MoveToRow(Least(n, cols))
CursorToLine      == MoveToRow(1)

\* LF and IND
LineFeed ==
  /\ \E at \in Upwards(Here) : Follow(at)
  /\ wrap_pending' = FALSE
  /\ UNCHANGED <<cols, cursor_x, modeVars>>

\* NEL
NextLine ==
  /\ \E at \in Upwards(Here) : Follow(at)
  /\ cursor_x' = 1
  /\ wrap_pending' = FALSE
  /\ UNCHANGED <<cols, modeVars>>

\* SU; SD and RI. They leave a pending wrap alone.
ScrollUpN ==
  /\ \E at \in Upwards(Here) : Follow(at)
  /\ UNCHANGED <<cols, cursorVars, modeVars>>

ScrollDownN ==
  /\ \E at \in Downwards(Here) : Follow(at)
  /\ UNCHANGED <<cols, cursorVars, modeVars>>

\* DL with the cursor in the region: its row goes, others may come up to it.
DeleteLines ==
  /\ \E at \in IF place = "cursor" THEN {Gone} ELSE Scrolled(Here, Visible) : Follow(at)
  /\ wrap_pending' = FALSE
  /\ UNCHANGED <<cols, cursor_x, modeVars>>

\* IL with the cursor in the region: its row and those below go down.
InsertLines ==
  /\ \E at \in Scrolled(Here, IF place = "gone" THEN Visible ELSE {"screen"}) : Follow(at)
  /\ wrap_pending' = FALSE
  /\ UNCHANGED <<cols, cursor_x, modeVars>>

\* ED 3
EraseSavedLines ==
  /\ Follow(IF place = "scrollback" THEN Gone ELSE Here)
  /\ UNCHANGED <<cols, cursorVars, modeVars>>

SetAutowrap(enable) ==
  /\ autowrap_mode' = enable
  /\ UNCHANGED <<row, place, cols, cursorVars, saved, main_autowrap>>

SavedNow == [x |-> cursor_x, wrap |-> wrap_pending, autowrap |-> autowrap_mode]

SaveCursor ==
  /\ saved' = SavedNow
  /\ UNCHANGED <<row, place, cols, cursorVars, autowrap_mode, main_autowrap>>

\* restore_cursor: the column is clamped to the screen; the pending wrap comes
\* back as it was.
Restored ==
  /\ cursor_x' = Least(saved.x, cols)
  /\ wrap_pending' = saved.wrap
  /\ autowrap_mode' = saved.autowrap

RestoreCursor ==
  /\ saved # None
  /\ Restored
  /\ \E at \in Elsewhere(Here) : Follow(at)
  /\ UNCHANGED <<cols, saved, main_autowrap>>

\* RIS, from either screen
FullReset ==
  /\ \E at \in IF place \in Visible THEN Rows(BlankRow(cols), Visible) ELSE {Gone} : Follow(at)
  /\ cursor_x' = 1
  /\ wrap_pending' = FALSE
  /\ autowrap_mode' = TRUE
  /\ saved' = None
  /\ main_autowrap' = None
  /\ UNCHANGED cols

\* enter_alt_screen: the screen's rows are saved, and blank ones come.
EnterAltScreen(save) ==
  /\ OnMain
  /\ \E at \in IF place \in Visible THEN Rows(row, {"saved"})
               ELSE Scrolled(Here, Visible) : Follow(at)
  /\ saved' = IF save THEN SavedNow ELSE saved
  /\ main_autowrap' = autowrap_mode
  /\ cursor_x' = 1
  /\ wrap_pending' = FALSE
  /\ UNCHANGED <<cols, autowrap_mode>>

\* exit_alt_screen: the saved rows come back and are fitted to the screen.
ExitAltScreen(restore) ==
  /\ ~OnMain
  /\ \E at \in CASE place = "saved"      -> Rows(FitRow(row, cols), Visible) \cup {Gone}
                 [] place = "scrollback" -> {Here}
                 [] OTHER                -> Rows(BlankRow(cols), Visible) \cup {Gone} :
       Follow(at)
  /\ IF restore /\ saved # None
       THEN Restored
       ELSE autowrap_mode' = main_autowrap /\ UNCHANGED cursorVars
  /\ main_autowrap' = None
  /\ UNCHANGED <<cols, saved>>

\* The row on a screen that is now n columns wide. On a lower screen the last
\* rows go; on a higher main screen rows come back from the scrollback. The
\* other rows off the screen keep their width.
Resized(n) ==
  CASE place = "cursor"                 -> Rows(FitRow(row, n), {"cursor"}) \cup {Gone}
    [] place = "screen"                 -> Rows(FitRow(row, n), Visible) \cup {Gone}
    [] place = "gone"                   -> Rows(BlankRow(n), {"screen"}) \cup {Gone}
    [] place = "scrollback" /\ OnMain   -> Rows(FitRow(row, n), {"screen"}) \cup {Here}
    [] OTHER                            -> {Here}

\* Mutant: a pending wrap survives.
ResizeKeepsWrap(n) ==
  /\ \E at \in Resized(Sanitize(n)) : Follow(at)
  /\ cols' = Sanitize(n)
  /\ cursor_x' = Least(cursor_x, Sanitize(n))
  /\ UNCHANGED <<wrap_pending, modeVars>>

\* Screen::resize and Grid::resize
Resize(n) ==
  /\ \E at \in Resized(Sanitize(n)) : Follow(at)
  /\ cols' = Sanitize(n)
  /\ cursor_x' = Least(cursor_x, Sanitize(n))
  /\ wrap_pending' = FALSE
  /\ UNCHANGED modeVars

Next ==
  \/ \E c \in Narrow : PrintFits(c, 1)
  \/ \E c \in Wide : PrintFits(c, 2)
  \/ \E c \in Wide : PrintWraps(c)
  \/ \E c \in Wide : PrintDropped(c)
  \/ CombiningMark
  \/ \E mode \in 0..2 : EraseLine(mode)
  \/ \E mode \in 0..2 : EraseDisplay(mode)
  \/ \E n \in Params : EraseCharacter(n)
  \/ \E n \in Params : DeleteCharacter(n)
  \/ \E n \in Params : InsertCharacter(n)
  \/ \E c \in Narrow : ScreenAlignment(c)
  \/ \E n \in Params : CursorForward(n)
  \/ \E n \in Params : CursorBack(n)
  \/ \E n \in Params : CursorAbsolute(n)
  \/ Tab
  \/ CarriageReturn
  \/ CursorVertical
  \/ \E n \in Params : CursorPosition(n)
  \/ CursorToLine
  \/ LineFeed
  \/ NextLine
  \/ ScrollUpN
  \/ ScrollDownN
  \/ DeleteLines
  \/ InsertLines
  \/ EraseSavedLines
  \/ \E enable \in BOOLEAN : SetAutowrap(enable)
  \/ SaveCursor
  \/ RestoreCursor
  \/ FullReset
  \/ \E save \in BOOLEAN : EnterAltScreen(save)
  \/ \E restore \in BOOLEAN : ExitAltScreen(restore)
  \/ \E n \in Widths : Resize(n)

Spec == Init /\ [][Next]_vars

-----------------------------------------------------------------------------
(* Properties. *)

\* Every variable has the type of its Rust counterpart, the cursor is on the
\* screen, rows on the screen have its width, and rows are saved only under the
\* alternate screen.
TypeOK ==
  /\ row \in Seq(Cell)
  /\ place \in Places
  /\ cols \in Nat \ {0}
  /\ place \in Visible => Len(row) = cols
  /\ place = "saved" => ~OnMain
  /\ cursor_x \in 1..cols
  /\ wrap_pending \in BOOLEAN
  /\ autowrap_mode \in BOOLEAN
  /\ saved \in SavedCursor \cup {None}
  /\ main_autowrap \in BOOLEAN \cup {None}

\* A wide character is cut in two in one way only: another one, printed in the
\* last column, wraps, and print blanks the second half of the one that ends
\* there. Nothing else overwritten, erased, deleted, inserted, scrolled, saved
\* under the alternate screen or cut off by a narrower terminal leaves half a
\* character in a row that had none.
TornOnlyAtMargin ==
  [][Whole(row) /\ ~Whole(row') => /\ \E c \in Wide : PrintWraps(c)
                                   /\ place = "cursor" /\ row[cols].w = 0]_vars

\* Only DECRC, or leaving the alternate screen with it, can leave a wrap pending
\* left of the margin (after the terminal became wider), where the next
\* character would start a new line too early.
WrapAtMargin ==
  [][(wrap_pending => cursor_x = cols) /\ ~RestoreCursor /\ ~ExitAltScreen(TRUE)
       => (wrap_pending' => cursor_x' = cols')]_vars

\* The characters of a row, with the first and the last column of each.
Text(r) ==
  {[c |-> r[i].c, from |-> i, to |-> IF r[i].w = 2 THEN i + 1 ELSE i] :
     i \in {j \in 1..Len(r) : r[j].c \in Narrow \cup Wide}}

Untouched(text, from, to) == {t \in text : t.to < from \/ t.from > to}
Shifted(text, n) == {[t EXCEPT !.from = @ + n, !.to = @ + n] : t \in text}

\* In a row that is whole, an edit at the cursor changes the characters that
\* overlap the columns it names, and no other: what is printed over, erased or
\* deleted goes as a whole, its neighbours stay, and those right of a deletion
\* move left together. The one exception is a wide character that starts right
\* after the columns ECH erases: erase_cells takes it for one that was cut.
EditsLocal ==
  place = "cursor" /\ Whole(row) =>
  LET x == cursor_x
  IN  /\ \A c \in Narrow :
           Text(SetCell(row, x, c, 1)) =
             Untouched(Text(row), x, x) \cup {[c |-> c, from |-> x, to |-> x]}
      /\ \A c \in Wide : x < cols =>
           Text(SetCell(row, x, c, 2)) =
             Untouched(Text(row), x, x + 1) \cup {[c |-> c, from |-> x, to |-> x + 1]}
      /\ \A n \in Params :
           /\ Text(EraseCells(row, x, x + n)) =
                {t \in Untouched(Text(row), x, x + n - 1) :
                   t.from = x + n => t.to = t.from}
           /\ Text(DeleteCells(row, x, n)) =
                {t \in Text(row) : t.to < x} \cup
                Shifted({t \in Text(row) : t.from >= x + n}, -n)

\* In a row that is torn, fixup_wide_char_at blanks a neighbour without looking
\* whether it belongs to the half it found. Whatever the row holds, the damage
\* ends there: an edit leaves every cell as it was (DCH and ICH: moves it
\* unchanged) that is more than one column away from those it names, from the
\* column after those ECH erases, or from the margin ICH pushes cells over.
EditsNear ==
  LET x == cursor_x
      Keeps(r, from, to) == \A i \in 1..cols : i < from - 1 \/ i > to + 1 => r[i] = row[i]
  IN  place = "cursor" =>
        /\ \A c \in Narrow : Keeps(SetCell(row, x, c, 1), x, x)
        /\ \A c \in Wide : x < cols => Keeps(SetCell(row, x, c, 2), x, x + 1)
        /\ \A n \in Params :
             /\ Keeps(EraseCells(row, x, x + n), x, x + n)
             /\ \A i \in 1..cols :
                  /\ i < x - 1 => DeleteCells(row, x, n)[i] = row[i]
                  /\ i > x /\ i + n <= cols => DeleteCells(row, x, n)[i] = row[i + n]
                  /\ i < x - 1 /\ i < cols - 1 => InsertCells(row, x, n)[i] = row[i]
                  /\ i > x + n + 1 /\ i < cols - 1 => InsertCells(row, x, n)[i] = row[i - n]

\* The characters of text that end left of column x, or are x alone
Before(text, x) == {t \in text : t.to < x \/ (t.from = x /\ t.to = x)}

\* In a row that is whole, text that ICH moves, or that a narrower terminal
\* still has room for, stays, but for two kinds of wide character: the one ICH
\* finds under the cursor, and one that comes to end in the last column, which
\* is taken for an orphan.
RoomKeeps ==
  Whole(row) =>
  /\ \A n \in Params : place = "cursor" =>
       LET moved == {t \in Text(row) : t.from > cursor_x
                                         \/ (t.from = cursor_x /\ t.to = cursor_x)}
       IN  Before(Shifted(moved, n), cols) \subseteq
             Text(InsertCells(row, cursor_x, n))
  /\ \A n \in Widths :
       Before(Text(row), Sanitize(n)) \subseteq Text(FitRow(row, Sanitize(n)))
=============================================================================
