------------------------------- MODULE Screen -------------------------------
(***************************************************************************)
(* The virtual screen of one session: screen/grid.rs (unified buffer of    *)
(* scrollback and visible rows, scroll region, cursor row),                *)
(* screen/performer.rs (the escape sequences that move rows) and           *)
(* screen/mod.rs (resize, taking pending scrollback).                      *)
(*                                                                         *)
(* The rows are the model's data: a row is Blank or one of Lines, and      *)
(* everything that happens inside a row (columns, wide characters, styles) *)
(* is a nondeterministic change of its content. Whether a printed          *)
(* character wraps first, which the columns decide, is nondeterministic.   *)
(* u16 arithmetic saturates in the code and every result is clamped to     *)
(* rows - 1 afterwards, so it is written with plain minima and maxima.     *)
(*                                                                         *)
(* All operations run under the screen mutex. A CSI sequence that repeats  *)
(* a step n times (SU, SD, DL, IL) is one loop iteration per step of the   *)
(* model, `repeat' holding what is left; nothing else runs in between.     *)
(***************************************************************************)
EXTENDS Integers, Sequences, SequencesExt

CONSTANTS
  Lines,    \* contents the application can give a row
  Blank,    \* an empty row
  None,     \* Option::None
  Limit,    \* scrollback_limit the session was created with (--history)
  Sizes,    \* row counts a client's terminal can have (0 included)
  Params,   \* numeric parameters the application passes in CSI sequences
  Regions   \* <<top, bottom>> parameters of DECSTBM, 1-based

ASSUME LimitAssumption   == Limit \in Nat
ASSUME SizesAssumption   == Sizes \subseteq Nat /\ Sizes # {}
ASSUME ParamsAssumption  == Params \subseteq Nat \ {0}
ASSUME RegionsAssumption == Regions \subseteq (Nat \ {0}) \X (Nat \ {0})
ASSUME RowAssumption     == Blank \notin Lines

Row == Lines \cup {Blank}

VARIABLES
  rows,              \* visible rows
  cells,             \* unified buffer: scrollback, then visible rows
  scrollback_len,    \* number of scrollback rows at the front of cells
  pending_start,     \* index in the scrollback where unsent rows begin
  scrollback_limit,  \* 0 while the alternate screen is shown
  cursor_y,          \* cursor row, 0-based
  scroll_top,        \* scroll region, 0-based and inclusive
  scroll_bottom,
  origin_mode,       \* DECOM
  in_alt_screen,
  saved_grid,           \* Option: main screen rows and limit, in alt screen
  saved_modes,          \* Option: origin_mode of the main screen
  saved_scroll_region,  \* Option: scroll region of the main screen
  saved_cursor_state,   \* Option: [y, origin] saved by DECSC
  clear_native,      \* pending_passthrough holds an ED 3 for the client
  repeat             \* loop of a CSI sequence: operation and rounds left

buffer  == <<cells, scrollback_len, pending_start>>
region  == <<scroll_top, scroll_bottom>>
altVars == <<in_alt_screen, saved_grid, saved_modes, saved_scroll_region>>
vars == <<rows, buffer, scrollback_limit, cursor_y, region, origin_mode,
          altVars, saved_cursor_state, clear_native, repeat>>

SavedGrid == [visible : Seq(Row), limit : Nat]
SavedCursor == [y : Nat, origin : BOOLEAN]
RepeatOps == {"none", "scroll_up", "scroll_down", "delete_lines", "insert_lines"}

\* Option::None is different from every Some.
ASSUME NoneAssumption ==
  /\ None \notin SavedGrid
  /\ None \notin SavedCursor
  /\ None \notin [origin : BOOLEAN]
  /\ None \notin Nat \X Nat

Smaller(a, b) == IF a < b THEN a ELSE b
Larger(a, b)  == IF a > b THEN a ELSE b

\* Grid::sanitize_dimensions
Sanitize(n) == Larger(n, 1)

\* n rows as Row::new makes them
BlankRows(n) == [i \in 1..n |-> Blank]

Idle == repeat.n = 0

-----------------------------------------------------------------------------
(* Grid: the unified buffer. *)

VisibleLen == Len(cells) - scrollback_len

\* Position in cells of visible row y.
VisibleIndex(y) == scrollback_len + y + 1

Visible == SubSeq(cells, scrollback_len + 1, Len(cells))
History == SubSeq(cells, 1, scrollback_len)
Pending == SubSeq(cells, pending_start + 1, scrollback_len)

\* Grid::scroll_up moves the top row into the scrollback.
Captures == ~in_alt_screen /\ scroll_top = 0 /\ scrollback_limit > 0

\* ... and then forgets the oldest scrollback row.
Overflows == scrollback_len + 1 > scrollback_limit

\* Remove visible row `from' and insert a blank row as visible row `to'.
Rotate(from, to) ==
  InsertAt(RemoveAt(cells, VisibleIndex(from)), VisibleIndex(to), Blank)

ScrollUpLen ==
  IF Captures /\ ~Overflows THEN scrollback_len + 1 ELSE scrollback_len

\* Mutant: the start of the unsent rows does not follow the forgotten row.
ScrollUpPendingKept == pending_start

ScrollUpPending ==
  IF Captures /\ Overflows /\ pending_start > 0
    THEN pending_start - 1 ELSE pending_start

\* Mutant: the new row always goes to the bottom of the screen.
ScrollUpToBottom ==
  IF Captures THEN Append(IF Overflows THEN Tail(cells) ELSE cells, Blank) ELSE cells

ScrollUpCells ==
  IF Captures
    THEN LET kept == IF Overflows THEN Tail(cells) ELSE cells
         IN  IF scroll_bottom >= VisibleLen - 1
               THEN Append(kept, Blank)
               ELSE InsertAt(kept, ScrollUpLen + scroll_bottom + 1, Blank)
    ELSE IF scroll_top <= scroll_bottom /\ scroll_bottom < VisibleLen
           THEN Rotate(scroll_top, scroll_bottom)
           ELSE cells

\* Grid::scroll_up
ScrollUp ==
  /\ cells' = ScrollUpCells
  /\ scrollback_len' = ScrollUpLen
  /\ pending_start' = ScrollUpPending

\* Grid::scroll_down
ScrollDown ==
  /\ cells' = IF scroll_top <= scroll_bottom /\ scroll_bottom < VisibleLen
                THEN Rotate(scroll_bottom, scroll_top) ELSE cells
  /\ UNCHANGED <<scrollback_len, pending_start>>

\* Grid::clear_scrollback, after the visible rows became `visible'.
ClearScrollback(visible) ==
  /\ cells' = visible
  /\ scrollback_len' = 0
  /\ pending_start' = 0

\* Mutant: rows are cut and never added.
FitRowsCutOnly(buf, len, n) == SubSeq(buf, 1, Smaller(Len(buf), len + n))

\* Grid::adjust_visible_to_fit and the row part of Grid::resize: rows are
\* cut or blank rows added at the bottom until n are visible.
FitRows(buf, len, n) ==
  IF Len(buf) > len + n
    THEN SubSeq(buf, 1, len + n)
    ELSE buf \o BlankRows(len + n - Len(buf))

\* Grid::reset_scroll_region
ResetScrollRegion == scroll_top' = 0 /\ scroll_bottom' = rows - 1

-----------------------------------------------------------------------------
(* Screen::new *)
Init ==
  /\ rows \in {Sanitize(n) : n \in Sizes}
  /\ cells = BlankRows(rows)
  /\ scrollback_len = 0
  /\ pending_start = 0
  /\ scrollback_limit = Limit
  /\ cursor_y = 0
  /\ scroll_top = 0
  /\ scroll_bottom = rows - 1
  /\ origin_mode = FALSE
  /\ in_alt_screen = FALSE
  /\ saved_grid = None
  /\ saved_modes = None
  /\ saved_scroll_region = None
  /\ saved_cursor_state = None
  /\ clear_native = FALSE
  /\ repeat = [op |-> "none", n |-> 0]

-----------------------------------------------------------------------------
(* Printing and control characters. *)

\* print: a deferred wrap first (perform_deferred_wrap) if the columns ask
\* for it, then the row under the cursor changes. The margin cell that a wide
\* character blanks before it wraps is a PrintChar of its own, REP is as many
\* of them as it repeats, a combining mark is one without a wrap. A wide one on a
\* one-column screen wraps and is then dropped, leaving the row as it is.
PrintChar(wrap, line) ==
  LET scrolls == wrap /\ cursor_y = scroll_bottom
      moves   == wrap /\ ~scrolls /\ cursor_y < rows - 1
      base    == IF scrolls THEN ScrollUpCells ELSE cells
      len     == IF scrolls THEN ScrollUpLen ELSE scrollback_len
      y       == IF moves THEN cursor_y + 1 ELSE cursor_y
  IN  /\ Idle
      /\ cells' = [base EXCEPT ![len + y + 1] = line]
      /\ scrollback_len' = len
      /\ pending_start' = IF scrolls THEN ScrollUpPending ELSE pending_start
      /\ cursor_y' = y
      /\ UNCHANGED <<rows, scrollback_limit, region, origin_mode, altVars,
                     saved_cursor_state, clear_native, repeat>>

\* LF, VT, FF; IND and NEL do the same to the rows.
LineFeed ==
  /\ Idle
  /\ IF cursor_y = scroll_bottom
       THEN ScrollUp /\ UNCHANGED cursor_y
       ELSE /\ cursor_y' = IF cursor_y < rows - 1 THEN cursor_y + 1 ELSE cursor_y
            /\ UNCHANGED buffer
  /\ UNCHANGED <<rows, scrollback_limit, region, origin_mode, altVars,
                 saved_cursor_state, clear_native, repeat>>

\* RI
ReverseIndex ==
  /\ Idle
  /\ IF cursor_y = scroll_top
       THEN ScrollDown /\ UNCHANGED cursor_y
       ELSE /\ cursor_y' = Larger(cursor_y - 1, 0)
            /\ UNCHANGED buffer
  /\ UNCHANGED <<rows, scrollback_limit, region, origin_mode, altVars,
                 saved_cursor_state, clear_native, repeat>>

-----------------------------------------------------------------------------
(* Cursor movement. *)

MoveCursor(y) ==
  /\ Idle
  /\ cursor_y' = y
  /\ UNCHANGED <<rows, buffer, scrollback_limit, region, origin_mode, altVars,
                 saved_cursor_state, clear_native, repeat>>

\* CUU, and CPL which also returns to column 0
CursorUp(n) ==
  LET top == IF cursor_y >= scroll_top THEN scroll_top ELSE 0
  IN  MoveCursor(Larger(cursor_y - n, top))

\* CUD, and CNL
CursorDown(n) ==
  LET bottom == IF cursor_y <= scroll_bottom THEN scroll_bottom ELSE rows - 1
  IN  MoveCursor(Smaller(cursor_y + n, bottom))

\* Mutant: no clamp in origin mode.
AbsoluteRowUnclamped(n) ==
  IF origin_mode THEN scroll_top + n - 1 ELSE Smaller(n - 1, rows - 1)

\* Row reached by a 1-based row parameter
AbsoluteRow(n) ==
  IF origin_mode THEN Smaller(scroll_top + n - 1, scroll_bottom)
                 ELSE Smaller(n - 1, rows - 1)

\* CUP, HVP and VPA
CursorPosition(n) == MoveCursor(AbsoluteRow(n))

\* DECSC, CSI s, mode 1048 set
SaveCursor ==
  /\ Idle
  /\ saved_cursor_state' = [y |-> cursor_y, origin |-> origin_mode]
  /\ UNCHANGED <<rows, buffer, scrollback_limit, cursor_y, region, origin_mode,
                 altVars, clear_native, repeat>>

\* DECRC, CSI u, mode 1048 reset
RestoreCursor ==
  /\ Idle
  /\ saved_cursor_state # None
  /\ cursor_y' = Smaller(saved_cursor_state.y, rows - 1)
  /\ origin_mode' = saved_cursor_state.origin
  /\ UNCHANGED <<rows, buffer, scrollback_limit, region, altVars,
                 saved_cursor_state, clear_native, repeat>>

\* DECOM
SetOriginMode(enable) ==
  /\ Idle
  /\ origin_mode' = enable
  /\ cursor_y' = IF enable THEN scroll_top ELSE cursor_y
  /\ UNCHANGED <<rows, buffer, scrollback_limit, region, altVars,
                 saved_cursor_state, clear_native, repeat>>

\* DECSTBM
SetScrollingRegion(top, bottom) ==
  LET t == top - 1
      b == Smaller(bottom - 1, rows - 1)
  IN  /\ Idle
      /\ t <= b
      /\ scroll_top' = t
      /\ scroll_bottom' = b
      /\ cursor_y' = IF origin_mode THEN t ELSE 0
      /\ UNCHANGED <<rows, buffer, scrollback_limit, origin_mode, altVars,
                     saved_cursor_state, clear_native, repeat>>

-----------------------------------------------------------------------------
(* Sequences that repeat one step. *)

StartRepeat(op, n) ==
  /\ Idle
  /\ n > 0
  /\ repeat' = [op |-> op, n |-> n]
  /\ UNCHANGED <<rows, buffer, scrollback_limit, cursor_y, region, origin_mode,
                 altVars, saved_cursor_state, clear_native>>

\* SU and SD are capped at one screen of rounds.
ScrollUpN(n)   == StartRepeat("scroll_up", Smaller(n, rows))
ScrollDownN(n) == StartRepeat("scroll_down", Smaller(n, rows))

CursorInRegion == scroll_top <= cursor_y /\ cursor_y <= scroll_bottom

\* DL and IL do nothing outside the scroll region.
DeleteLines(n) ==
  /\ CursorInRegion
  /\ StartRepeat("delete_lines", Smaller(n, scroll_bottom - cursor_y + 1))

InsertLines(n) ==
  /\ CursorInRegion
  /\ StartRepeat("insert_lines", Smaller(n, scroll_bottom - cursor_y + 1))

\* Rows in the loop bodies of DL and IL are moved only if both are visible.
MoveRow(from, to) ==
  /\ cells' = IF cursor_y <= scroll_bottom /\ scroll_bottom < VisibleLen
                THEN Rotate(from, to) ELSE cells
  /\ UNCHANGED <<scrollback_len, pending_start>>

Round ==
  \/ repeat.op = "scroll_up" /\ ScrollUp
  \/ repeat.op = "scroll_down" /\ ScrollDown
  \/ repeat.op = "delete_lines" /\ MoveRow(cursor_y, scroll_bottom)
  \/ repeat.op = "insert_lines" /\ MoveRow(scroll_bottom, cursor_y)

RepeatStep ==
  /\ ~Idle
  /\ Round
  /\ repeat' = IF repeat.n = 1 THEN [op |-> "none", n |-> 0]
                               ELSE [repeat EXCEPT !.n = @ - 1]
  /\ UNCHANGED <<rows, scrollback_limit, cursor_y, region, origin_mode,
                 altVars, saved_cursor_state, clear_native>>

-----------------------------------------------------------------------------
(* Erasing. *)

\* The buffer with visible rows from..to blank and the cursor's row `line'.
Erased(from, to, line) ==
  [i \in 1..Len(cells) |->
     CASE i = VisibleIndex(cursor_y) -> line
       [] i >= VisibleIndex(from) /\ i <= VisibleIndex(to)
          /\ i # VisibleIndex(cursor_y) -> Blank
       [] OTHER -> cells[i]]

\* ED 0, 1 and 2. EL, ECH, ICH and DCH change the cursor's row only and are
\* instances of PrintChar without a wrap.
EraseDisplay(mode, line) ==
  /\ Idle
  /\ mode = 2 => line = Blank
  /\ cells' = CASE mode = 0 -> Erased(cursor_y, rows - 1, line)
                [] mode = 1 -> Erased(0, cursor_y, line)
                [] mode = 2 -> Erased(0, rows - 1, line)
  /\ UNCHANGED <<rows, scrollback_len, pending_start, scrollback_limit, cursor_y,
                 region, origin_mode, altVars, saved_cursor_state,
                 clear_native, repeat>>

\* ED 3: the saved lines go, here and (through passthrough) at the client.
EraseSavedLines ==
  /\ Idle
  /\ ClearScrollback(Visible)
  /\ clear_native' = TRUE
  /\ UNCHANGED <<rows, scrollback_limit, cursor_y, region, origin_mode, altVars,
                 saved_cursor_state, repeat>>

\* DECALN
ScreenAlignment(line) ==
  /\ Idle
  /\ ResetScrollRegion
  /\ cursor_y' = 0
  /\ cells' = History \o [i \in 1..rows |-> line]
  /\ UNCHANGED <<rows, scrollback_len, pending_start, scrollback_limit,
                 origin_mode, altVars, saved_cursor_state, clear_native, repeat>>

-----------------------------------------------------------------------------
(* Alternate screen, full reset. *)

\* Mutant: the limit put aside by the alternate screen is forgotten.
RestoredLimitLost == scrollback_limit

\* The main screen's scrollback limit, wherever it is kept.
RestoredLimit == IF saved_grid # None THEN saved_grid.limit ELSE scrollback_limit

\* Modes 47, 1047 and (with save) 1049 set
EnterAltScreen(save) ==
  /\ Idle
  /\ ~in_alt_screen
  /\ saved_cursor_state' = IF save THEN [y |-> cursor_y, origin |-> origin_mode]
                                   ELSE saved_cursor_state
  /\ saved_scroll_region' = region
  /\ saved_grid' = [visible |-> Visible, limit |-> scrollback_limit]
  /\ saved_modes' = [origin |-> origin_mode]
  /\ cells' = History \o BlankRows(rows)
  /\ scrollback_limit' = 0
  /\ in_alt_screen' = TRUE
  /\ cursor_y' = 0
  /\ ResetScrollRegion
  /\ UNCHANGED <<rows, scrollback_len, pending_start, origin_mode,
                 clear_native, repeat>>

\* The same modes reset. The main screen's rows and limit, its modes, then
\* the saved cursor (whose modes win) and the saved region come back, each
\* clamped to the rows of the moment; no Option is empty in practice.
ExitAltScreen(restore) ==
  LET restores == restore /\ saved_cursor_state # None
      last     == rows - 1
      top      == Smaller(saved_scroll_region[1], last)
  IN  /\ Idle
      /\ in_alt_screen
      /\ in_alt_screen' = FALSE
      /\ cells' = IF saved_grid # None
                    THEN FitRows(History \o saved_grid.visible, scrollback_len, rows)
                    ELSE cells
      /\ scrollback_limit' = RestoredLimit
      /\ saved_grid' = None
      /\ saved_modes' = None
      /\ origin_mode' = CASE restores -> saved_cursor_state.origin
                          [] ~restores /\ saved_modes # None -> saved_modes.origin
                          [] OTHER -> origin_mode
      /\ cursor_y' = IF restores THEN Smaller(saved_cursor_state.y, last) ELSE cursor_y
      /\ IF saved_scroll_region # None
           THEN /\ scroll_top' = top
                /\ scroll_bottom' = Larger(Smaller(saved_scroll_region[2], last), top)
           ELSE ResetScrollRegion
      /\ saved_scroll_region' = None
      /\ UNCHANGED <<rows, scrollback_len, pending_start, saved_cursor_state,
                     clear_native, repeat>>

\* RIS. The limit comes back from the saved grid before that is dropped.
FullReset ==
  /\ Idle
  /\ cursor_y' = 0
  /\ ResetScrollRegion
  /\ origin_mode' = FALSE
  /\ scrollback_limit' = RestoredLimit
  /\ in_alt_screen' = FALSE
  /\ saved_grid' = None
  /\ saved_modes' = None
  /\ saved_cursor_state' = None
  /\ saved_scroll_region' = None
  /\ ClearScrollback(BlankRows(VisibleLen))
  /\ clear_native' = TRUE
  /\ UNCHANGED <<rows, repeat>>

-----------------------------------------------------------------------------
(* Operations of the server's other threads, under the same mutex. *)

\* Mutant: in the alternate screen too.
TakenBackAlways(r) == IF r > rows THEN Smaller(r - rows, scrollback_len) ELSE 0

\* Rows a taller main screen takes back (Grid::restore_scrollback).
TakenBack(r) ==
  IF ~in_alt_screen /\ r > rows THEN Smaller(r - rows, scrollback_len) ELSE 0

\* Screen::resize: rows are taken back before Grid::resize.
Resize(n) ==
  LET r     == Sanitize(n)
      count == TakenBack(r)
      len   == scrollback_len - count
  IN  /\ Idle
      /\ rows' = r
      /\ scrollback_len' = len
      /\ pending_start' = Smaller(pending_start, len)
      /\ cells' = FitRows(cells, len, r)
      /\ cursor_y' = Smaller(cursor_y + count, r - 1)
      /\ scroll_top' = 0
      /\ scroll_bottom' = r - 1
      /\ UNCHANGED <<scrollback_limit, origin_mode, altVars, saved_cursor_state,
                     clear_native, repeat>>

\* take_and_render by a client's relay, and the reader's drain when nobody
\* is attached: the unsent lines and the passthrough leave the screen.
TakeAndRender ==
  /\ Idle
  /\ pending_start' = scrollback_len
  /\ clear_native' = FALSE
  /\ UNCHANGED <<rows, cells, scrollback_len, scrollback_limit, cursor_y, region,
                 origin_mode, altVars, saved_cursor_state, repeat>>

-----------------------------------------------------------------------------
Application ==
  \/ \E wrap \in BOOLEAN, line \in Row : PrintChar(wrap, line)
  \/ LineFeed
  \/ ReverseIndex
  \/ \E n \in Params : CursorUp(n)
  \/ \E n \in Params : CursorDown(n)
  \/ \E n \in Params : CursorPosition(n)
  \/ SaveCursor
  \/ RestoreCursor
  \/ \E enable \in BOOLEAN : SetOriginMode(enable)
  \/ \E r \in Regions : SetScrollingRegion(r[1], r[2])
  \/ \E n \in Params : ScrollUpN(n)
  \/ \E n \in Params : ScrollDownN(n)
  \/ \E n \in Params : DeleteLines(n)
  \/ \E n \in Params : InsertLines(n)
  \/ RepeatStep
  \/ \E mode \in 0..2, line \in Row : EraseDisplay(mode, line)
  \/ EraseSavedLines
  \/ \E line \in Lines : ScreenAlignment(line)
  \/ \E save \in BOOLEAN : EnterAltScreen(save)
  \/ \E restore \in BOOLEAN : ExitAltScreen(restore)
  \/ FullReset

Next ==
  \/ Application
  \/ \E n \in Sizes : Resize(n)
  \/ TakeAndRender

Spec == Init /\ [][Next]_vars

-----------------------------------------------------------------------------
(* Properties. *)

\* Every variable has the type of its Rust counterpart.
TypeOK ==
  /\ rows \in Nat \ {0}
  /\ cells \in Seq(Row)
  /\ scrollback_len \in Nat
  /\ pending_start \in Nat
  /\ scrollback_limit \in Nat
  /\ cursor_y \in Nat
  /\ scroll_top \in Nat
  /\ scroll_bottom \in Nat
  /\ origin_mode \in BOOLEAN
  /\ in_alt_screen \in BOOLEAN
  /\ saved_grid \in SavedGrid \cup {None}
  /\ saved_modes \in [origin : BOOLEAN] \cup {None}
  /\ saved_scroll_region \in (Nat \X Nat) \cup {None}
  /\ saved_cursor_state \in SavedCursor \cup {None}
  /\ clear_native \in BOOLEAN
  /\ repeat \in [op : RepeatOps, n : Nat]

\* Grid::check_invariants, asserted after every mutation in debug builds:
\* the unsent scrollback lies inside the scrollback, and what is left of the
\* unified buffer is exactly the visible rows.
GridInvariant ==
  /\ pending_start <= scrollback_len
  /\ Len(cells) = scrollback_len + rows

\* The cursor and the scroll region stay on the screen ("caller must ensure
\* top <= bottom < rows", set_scroll_region), whatever mixture of resizes,
\* alternate screen switches and cursor restores has happened. Every index
\* into the visible rows and every rows - 1 relies on it.
OnScreen ==
  /\ cursor_y < rows
  /\ scroll_top <= scroll_bottom
  /\ scroll_bottom < rows

\* The alternate screen and what was put aside for the main screen agree:
\* each saved Option is full exactly while the alternate screen is shown, and
\* the session's scrollback limit is never lost, so scrollback is captured
\* again after any way back to the main screen (the comment in RIS).
AltConsistent ==
  IF in_alt_screen
    THEN /\ saved_grid # None /\ saved_modes # None /\ saved_scroll_region # None
         /\ scrollback_limit = 0 /\ saved_grid.limit = Limit
    ELSE /\ saved_grid = None /\ saved_modes = None /\ saved_scroll_region = None
         /\ scrollback_limit = Limit

\* The history never outgrows the limit the session was created with.
HistoryBounded == scrollback_len <= Limit

\* The row moved by a DL or IL loop is under the cursor, inside the region,
\* for all its rounds: the guard inside the loop body never fires.
LoopInRegion ==
  repeat.op \in {"delete_lines", "insert_lines"} => CursorInRegion

\* What the code relies on wherever it indexes rows: cursor and region are on
\* the screen, a DL or IL loop stays in its region, the history in its limit.
InBounds == OnScreen /\ LoopInRegion /\ HistoryBounded

\* Scrollback passthrough is paused in the alternate screen: no line enters or
\* leaves the history there, unless the application erases it all.
AltFreezesHistory ==
  [][in_alt_screen /\ in_alt_screen' => History' \in {History, << >>}]_vars

\* Scrolling, by whichever of the three ways Grid moves rows, leaves every row
\* outside the scroll region where the client sees it, even when the buffer
\* boundary or the whole buffer shifts ("partial scroll region must not shift
\* rows below", scroll_up).
RegionContained ==
  [][LineFeed \/ ReverseIndex \/ RepeatStep =>
       \A y \in 0..rows - 1 :
         y < scroll_top \/ y > scroll_bottom => Visible'[y + 1] = Visible[y + 1]]_vars

\* The unified buffer implements the abstract history of Scrollback.tla.
Abstract == INSTANCE Scrollback WITH
              history <- History,
              unsent  <- scrollback_len - pending_start

\* Every step of the screen is a step of the abstract scrollback or leaves it
\* alone: lines enter in the order they leave the screen, are handed over
\* once, and leave only by the limit, by ED 3 or RIS, or by a taller screen.
ImplementsScrollback == Abstract!Spec
=============================================================================
