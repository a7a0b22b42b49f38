------------------------------ MODULE Display -------------------------------
(***************************************************************************)
(* From the cells to the client's terminal: the style table of             *)
(* screen/style.rs, which cells refer to by slot (Sgr.tla has the styles), *)
(* the renderer and its cache of what was sent (screen/render.rs), the     *)
(* modes the performer sets and saves, and what client/mod.rs writes when  *)
(* it attaches and leaves.                                                 *)
(*                                                                         *)
(* Characters are one column wide; Cells.tla has the others and Screen.tla *)
(* how rows move. The application addresses the place before it prints, so *)
(* no wrap is due. A behaviour has one of Setups: a size, the sequences    *)
(* its application sends and the columns it sends them to.                 *)
(*                                                                         *)
(* The terminal is not part of the repository: it obeys the sequences it   *)
(* is sent. DECSTBM and DECOM move its cursor home, in origin mode the     *)
(* rows of CUP count from the top margin, and when the last column has     *)
(* been printed its cursor stays on it (as retach's own emulator does).    *)
(***************************************************************************)
EXTENDS Integers, Sequences, FiniteSets, SequencesExt, Sgr

CONSTANTS
  Cap,            \* slots of the style table besides slot 0 (65535)
  Setups,         \* [rows, cols, at, uses, sgr]: a size, the columns addressed,
                  \*   the sequences sent, and the parameters of those for SGR
  MaxTitles,      \* titles the title stack holds (16)
  None            \* Option::None

ASSUME CapAssumption == Cap \in Nat /\ MaxTitles \in Nat
ASSUME SetupsAssumption ==
  \A s \in Setups : /\ s.rows \in Nat \ {0} /\ s.cols \in Nat \ {0}
                    /\ s.at \subseteq 1..s.cols /\ s.sgr \subseteq Seq(Seq(Nat))

VARIABLES
  setup,          \* size and application of this behaviour, constant
  table,          \* StyleTable: styles, index, free_slots
  current_style,  \* current_style
  cells,          \* the visible rows
  saved,          \* saved_grid, saved_modes, saved_scroll_region, or None
  cursor_y,       \* cursor row
  cursor_x,       \* cursor column
  scroll_region,  \* <<top, bottom>>
  modes,          \* TerminalModes, those that matter here
  cursor_visible, \* DECTCEM
  title,          \* the window title, now, and title_stack
  pending,        \* lines wait to be put into the terminal's scrollback
  cache,          \* RenderCache of the attached client, or None
  term,           \* the client's terminal
  flaws,          \* why the terminal may show something else (see Flaw)
  shown           \* nothing happened since the last update

screen == <<table, current_style, cells, saved, cursor_y, cursor_x, scroll_region,
            modes, cursor_visible, title, pending>>
vars == <<setup, table, current_style, cells, saved, cursor_y, cursor_x,
          scroll_region, modes, cursor_visible, title, pending, cache, term,
          flaws, shown>>

\* Known ways in which the terminal can differ from the screen:
\*   style    the slot of a cell that was sent got another style
\*   margin   rows or the cursor were addressed in origin mode
\*   charset  text was sent while the terminal draws lines
\*   edge     EL followed a row that reaches the last column
\*   cursor   the terminal's cursor moved and was not put back
Flaw == {"style", "margin", "charset", "edge", "cursor"}

\* origin: DECOM. graphics: the active character set draws lines. focus: focus
\* reporting, and with it every mode that is switched and diffed the same way.
Mode == {"origin", "graphics", "focus"}
DefaultModes == [m \in Mode |-> FALSE]

rows == setup.rows
cols == setup.cols
Row == 1..rows
Col == 1..cols
FullRegion == <<1, rows>>

\* A letter that the line drawing set turns into a line, and that line
Char == {"space", "letter", "line"}

\* asked is the style in force when the cell was written.
CellAt(c, id, s) == [c |-> c, id |-> id, asked |-> s]

\* What hash_row is about in a cell, and the titles an application sets
Hash == [c : Char, id : Nat]
Name == {"", "a", "b"}

\* A cache with every part filled in, for n rows of m columns
CacheOf(n, m) ==
  [rows : [1..n -> [1..m -> Hash]], modes : [Mode -> BOOLEAN], region : Nat \X Nat,
   cursor : Nat \X Nat, visible : BOOLEAN, title : Name]

ASSUME NoneAssumption ==
  /\ None \notin [Mode -> BOOLEAN] /\ None \notin Nat \X Nat /\ None \notin Name
  /\ \A s \in Setups : /\ None \notin [1..s.cols -> Hash]
                        /\ None \notin CacheOf(s.rows, s.cols)
DefaultCell == CellAt("space", 0, DefaultStyle)
RowOf(cell) == [x \in Col |-> cell]
BlankRows == [y \in Row |-> RowOf(DefaultCell)]

NoTitle == [now |-> "", stack |-> <<>>]

Uses(what) == what \in setup.uses

-----------------------------------------------------------------------------
(* StyleTable. Slot 0 is the default style and is not stored. *)

EmptyTable == [styles |-> <<>>, index |-> [s \in {} |-> 0], free |-> <<>>]

\* StyleTable::get
StyleOf(t, id) == IF id \in 1..Len(t.styles) THEN t.styles[id] ELSE DefaultStyle

Indexed(t, s, id) == [x \in DOMAIN t.index \cup {s} |-> IF x = s THEN id ELSE t.index[x]]

\* StyleTable::intern
Intern(t, s) ==
  CASE s = DefaultStyle -> [table |-> t, id |-> 0]
    [] s # DefaultStyle /\ s \in DOMAIN t.index -> [table |-> t, id |-> t.index[s]]
    [] s # DefaultStyle /\ s \notin DOMAIN t.index /\ t.free # <<>> ->
         LET id == t.free[Len(t.free)]
         IN  [table |-> [styles |-> [t.styles EXCEPT ![id] = s],
                         index |-> Indexed(t, s, id),
                         free |-> SubSeq(t.free, 1, Len(t.free) - 1)],
              id |-> id]
    [] s # DefaultStyle /\ s \notin DOMAIN t.index /\ t.free = <<>> ->
         IF Len(t.styles) >= Cap
           THEN [table |-> t, id |-> 0]
           ELSE [table |-> [t EXCEPT !.styles = Append(@, s),
                                     !.index = Indexed(t, s, Len(t.styles) + 1)],
                 id |-> Len(t.styles) + 1]

IsFull(t) == Len(t.styles) >= Cap /\ t.free = <<>>

\* The members of S up to n, lowest first
Ascending(S, n) ==
  LET upto[i \in 0..n] ==
        IF i = 0 THEN <<>> ELSE IF i \in S THEN Append(upto[i - 1], i) ELSE upto[i - 1]
  IN  upto[n]

\* StyleTable::reclaim
Reclaim(t, live) ==
  LET dead == {id \in 1..Len(t.styles) : id \notin live}
  IN  [t EXCEPT
        !.index = [s \in DOMAIN t.index \ {t.styles[id] : id \in dead} |-> t.index[s]],
        !.free = Ascending(dead, Len(t.styles))]

Ids(rs) == {rs[y][x].id : y \in Row, x \in Col}
SavedIds == IF saved = None THEN {} ELSE Ids(saved.cells)

\* Mutant: the main screen is forgotten while the alternate one is shown.
LiveIdsVisible == Ids(cells)

\* The slots compact_styles finds in use
LiveIds == Ids(cells) \cup SavedIds

\* intern_with_gc
InternWithGc(s) ==
  LET first == Intern(table, s)
  IN  IF first.id = 0 /\ s # DefaultStyle /\ IsFull(first.table)
        THEN Intern(Reclaim(first.table, LiveIds), s)
        ELSE first

-----------------------------------------------------------------------------
(* The terminal, and what an update writes to it. *)

Least(a, b) == IF a < b THEN a ELSE b

\* A character and its style on the terminal
Glyph(c, s) == [c |-> c, style |-> s]
BlankGlyph == Glyph("space", DefaultStyle)

FreshTerm ==
  [rows |-> [y \in Row |-> RowOf(BlankGlyph)], y |-> 1, x |-> 1,
   region |-> FullRegion, modes |-> DefaultModes, visible |-> TRUE, title |-> "shell"]

\* The terminal's row that CUP y means
TermRow(t, y) ==
  IF t.modes["origin"] THEN Least(t.region[1] + y - 1, t.region[2]) ELSE y

Home(t) == IF t.modes["origin"] THEN t.region[1] ELSE 1

\* CUP may miss the row it is meant for.
Displaced(t) == t.modes["origin"] /\ t.region # FullRegion

\* The style the terminal has after an SGR sequence that starts with a reset. It
\* reads SGR the way retach does: it may be retach.
TermStyle(params) == ApplySgr(DefaultStyle, params)

\* What a cell looks like on t: the line drawing set turns letters into lines.
Looks(t, cell) ==
  Glyph(IF t.modes["graphics"] /\ cell.c = "letter" THEN "line" ELSE cell.c,
        TermStyle(WriteSgr(StyleOf(table, cell.id))))

\* Mutant: the hash is about the text alone.
HashRowText(row) == [x \in Col |-> [c |-> row[x].c, id |-> 0]]

\* hash_row: the characters and the slots of a row. Equal hashes are taken for
\* equal rows.
HashRow(row) == [x \in Col |-> [c |-> row[x].c, id |-> row[x].id]]

NewCache == [rows |-> [y \in Row |-> None], modes |-> None, region |-> None,
             cursor |-> None, visible |-> None, title |-> None]

\* render_scrollback resets the margins and leaves the cursor in the last row.
Injected(t) == [t EXCEPT !.region = FullRegion, !.y = rows, !.x = 1, !.visible = FALSE]

\* ED 2 and CUP before a full redraw
Cleared(t) == [t EXCEPT !.rows = FreshTerm.rows, !.y = Home(t), !.x = 1]

\* last_content_position, plus 1: how many cells of a row are written
WriteLen(row) == Max({0} \cup {x \in Col : row[x].c # "space" \/ row[x].id # 0})

\* What row y puts into column x, after ED 2 (all) or followed by EL: EL starts on
\* the cursor, which is still on the last column when that was the last written.
Puts(t, y, x, all) ==
  IF x <= WriteLen(cells[y]) /\ (all \/ x < cols) THEN Looks(t, cells[y][x]) ELSE BlankGlyph

\* The rows sent are addressed and written from top to bottom. What the last
\* one at r does not reach is left as it is, unless EL erases it.
RowsDrawn(t, sent, all) ==
  LET here(r, x) == {y \in sent : TermRow(t, y) = r /\ (all => x <= WriteLen(cells[y]))}
  IN  [t EXCEPT
        !.rows = [r \in Row |-> [x \in Col |->
                    IF here(r, x) = {} THEN t.rows[r][x]
                                       ELSE Puts(t, Max(here(r, x)), x, all)]],
        !.y = IF sent = {} THEN @ ELSE TermRow(t, Max(sent)),
        !.x = IF sent = {} THEN @ ELSE Least(WriteLen(cells[Max(sent)]) + 1, cols)]

RegionSet(t) ==
  LET r == [t EXCEPT !.region = scroll_region] IN [r EXCEPT !.y = Home(r), !.x = 1]

\* Mutant: a change of the character set is not sent.
ModesSetNoCharset(t, all, last) ==
  LET m == [t EXCEPT !.modes = [x \in Mode |->
              IF all \/ (modes[x] # last[x] /\ x # "graphics") THEN modes[x] ELSE @[x]]]
  IN  IF all \/ modes["origin"] # last["origin"]
        THEN [m EXCEPT !.y = Home(m), !.x = 1]
        ELSE m

\* emit_mode and emit_mode_delta: a mode is written in full or when it differs
\* from the one written last; DECOM moves the cursor home.
ModesSet(t, all, last) ==
  LET m == [t EXCEPT !.modes = [x \in Mode |->
              IF all \/ modes[x] # last[x] THEN modes[x] ELSE @[x]]]
  IN  IF all \/ modes["origin"] # last["origin"]
        THEN [m EXCEPT !.y = Home(m), !.x = 1]
        ELSE m

-----------------------------------------------------------------------------
(* The application. *)

Init ==
  /\ setup \in Setups
  /\ table = EmptyTable
  /\ current_style = DefaultStyle
  /\ cells = BlankRows
  /\ saved = None
  /\ cursor_y = 1 /\ cursor_x = 1
  /\ scroll_region = FullRegion
  /\ modes = DefaultModes
  /\ cursor_visible = TRUE
  /\ title = NoTitle
  /\ pending = FALSE
  /\ cache = None
  /\ term = FreshTerm
  /\ flaws = {}
  /\ shown = FALSE

\* Whether the table t gives a slot of a row that was sent another style
Reassigns(t) ==
  cache # None /\
  \E y \in Row, x \in Col : cache.rows[y] # None /\
    StyleOf(t, cache.rows[y][x].id) # StyleOf(table, cache.rows[y][x].id)

\* A step of the application, with the style table and the titles it leaves
AppTitled(t, ti) ==
  /\ table' = t
  /\ title' = ti
  /\ shown' = FALSE
  /\ flaws' = IF Reassigns(t) THEN flaws \cup {"style"} ELSE flaws
  /\ UNCHANGED <<setup, cache, term>>

App(t) == AppTitled(t, title)

\* csi_cursor_position: in origin mode rows count from the top of the region.
AbsoluteRow(y) ==
  IF modes["origin"]
    THEN Least(scroll_region[1] + y - 1, scroll_region[2])
    ELSE y

\* CUP and print: the cursor stays on the last column.
PrintAt(y, x) ==
  LET at == AbsoluteRow(y)
      slot == InternWithGc(current_style)
      c == IF modes["graphics"] THEN "line" ELSE "letter"
  IN  /\ Uses("print")
      /\ cursor_y' = at /\ cursor_x' = Least(x + 1, cols)
      /\ cells' = [cells EXCEPT ![at][x] = CellAt(c, slot.id, current_style)]
      /\ App(slot.table)
      /\ UNCHANGED <<current_style, saved, scroll_region, modes, cursor_visible, pending>>

\* CUP alone
MoveTo(y, x) ==
  /\ Uses("move")
  /\ cursor_y' = AbsoluteRow(y) /\ cursor_x' = x
  /\ App(table)
  /\ UNCHANGED <<current_style, cells, saved, scroll_region, modes,
                 cursor_visible, pending>>

\* The style of blank_cell: the current background and nothing else
BlankStyle == [DefaultStyle EXCEPT !.bg = current_style.bg]

\* EL 2: the row is filled with blank_cell.
EraseLine ==
  LET slot == InternWithGc(BlankStyle)
  IN  /\ Uses("erase")
      /\ cells' = [cells EXCEPT ![cursor_y] = RowOf(CellAt("space", slot.id, BlankStyle))]
      /\ App(slot.table)
      /\ UNCHANGED <<current_style, saved, cursor_y, cursor_x, scroll_region, modes,
                     cursor_visible, pending>>

\* SU 1: a row that leaves the top of the main screen is pending.
ScrollUp ==
  LET slot == InternWithGc(BlankStyle)
      top == scroll_region[1]
      bottom == scroll_region[2]
  IN  /\ Uses("scroll")
      /\ cells' = [y \in Row |->
                     CASE y = bottom -> RowOf(CellAt("space", slot.id, BlankStyle))
                       [] y \in top..bottom - 1 -> cells[y + 1]
                       [] y \notin top..bottom -> cells[y]]
      /\ pending' = (pending \/ (top = 1 /\ saved = None))
      /\ App(slot.table)
      /\ UNCHANGED <<current_style, saved, cursor_y, cursor_x, scroll_region,
                     modes, cursor_visible>>

\* SGR
SetStyle(params) ==
  /\ Uses("sgr")
  /\ current_style' = ApplySgr(current_style, params)
  /\ App(table)
  /\ UNCHANGED <<cells, saved, cursor_y, cursor_x, scroll_region, modes,
                 cursor_visible, pending>>

\* csi_set_scrolling_region
SetRegion(top, bottom) ==
  /\ Uses("margins")
  /\ top <= bottom
  /\ scroll_region' = <<top, bottom>>
  /\ cursor_y' = (IF modes["origin"] THEN top ELSE 1) /\ cursor_x' = 1
  /\ App(table)
  /\ UNCHANGED <<current_style, cells, saved, modes, cursor_visible, pending>>

\* DECOM: only setting it moves the cursor.
SetOrigin(enable) ==
  /\ Uses("margins")
  /\ modes' = [modes EXCEPT !["origin"] = enable]
  /\ cursor_y' = IF enable THEN scroll_region[1] ELSE cursor_y
  /\ cursor_x' = IF enable THEN 1 ELSE cursor_x
  /\ App(table)
  /\ UNCHANGED <<current_style, cells, saved, scroll_region, cursor_visible, pending>>

\* SI, SO and charset designations; the other private modes
SetMode(m, enable) ==
  /\ Uses(m)
  /\ modes' = [modes EXCEPT ![m] = enable]
  /\ App(table)
  /\ UNCHANGED <<current_style, cells, saved, cursor_y, cursor_x, scroll_region,
                 cursor_visible, pending>>

SetVisible(enable) ==
  /\ Uses("cursor")
  /\ cursor_visible' = enable
  /\ App(table)
  /\ UNCHANGED <<current_style, cells, saved, cursor_y, cursor_x,
                 scroll_region, modes, pending>>

\* OSC 0 and 2; CSI 22 t, which a full stack ignores, and CSI 23 t
SetTitle(ti) ==
  /\ Uses("title")
  /\ AppTitled(table, ti)
  /\ UNCHANGED <<current_style, cells, saved, cursor_y, cursor_x, scroll_region, modes,
                 cursor_visible, pending>>

NameWindow(name) == SetTitle([title EXCEPT !.now = name])
PushTitle ==
  /\ Len(title.stack) < MaxTitles
  /\ SetTitle([title EXCEPT !.stack = Append(@, title.now)])
PopTitle ==
  /\ title.stack # <<>>
  /\ SetTitle([now |-> Last(title.stack), stack |-> Front(title.stack)])

\* Mode 1047. What was saved is the main screen.
EnterAltScreen ==
  /\ Uses("alt")
  /\ saved = None
  /\ saved' = [cells |-> cells, modes |-> modes, region |-> scroll_region]
  /\ cells' = BlankRows
  /\ cursor_y' = 1 /\ cursor_x' = 1
  /\ scroll_region' = FullRegion
  /\ App(table)
  /\ UNCHANGED <<current_style, modes, cursor_visible, pending>>

\* The cursor stays; slots that only the alternate screen used become free.
ExitAltScreen ==
  /\ Uses("alt")
  /\ saved # None
  /\ saved' = None
  /\ cells' = saved.cells
  /\ modes' = saved.modes
  /\ scroll_region' = saved.region
  /\ App(Reclaim(table, SavedIds))
  /\ UNCHANGED <<current_style, cursor_y, cursor_x, cursor_visible, pending>>

\* RIS: the style table starts over.
FullReset ==
  /\ Uses("ris")
  /\ current_style' = DefaultStyle
  /\ cells' = BlankRows
  /\ saved' = None
  /\ cursor_y' = 1 /\ cursor_x' = 1
  /\ scroll_region' = FullRegion
  /\ modes' = DefaultModes
  /\ cursor_visible' = TRUE
  /\ pending' = FALSE
  /\ AppTitled(EmptyTable, NoTitle)

-----------------------------------------------------------------------------
(* Updates. *)

CursorDue(c) == c.cursor # <<cursor_y, cursor_x>>

\* render_screen_impl on terminal t: scrollback lines if it has any, rows,
\* region, modes, cursor, title, and visibility unless there was nothing to write.
Render(t, all, lines, old) ==
  LET full   == all \/ lines
      c      == IF full THEN NewCache ELSE old
      blank  == IF full THEN Cleared(IF lines THEN Injected(t) ELSE t) ELSE t
      sent   == {y \in Row : full \/ c.rows[y] # HashRow(cells[y])}
      drawn  == RowsDrawn(blank, sent, full)
      region == c.region # scroll_region
      margin == IF region THEN RegionSet(drawn) ELSE drawn
      last   == IF c.modes = None THEN DefaultModes ELSE c.modes
      moded  == ModesSet(margin, c.modes = None, last)
      cursor == CursorDue(c)
      placed == IF cursor THEN [moded EXCEPT !.y = TermRow(moded, cursor_y), !.x = cursor_x]
                ELSE moded
      noop   == /\ sent = {} /\ ~region /\ c.modes = modes /\ ~cursor
                /\ c.visible = cursor_visible /\ c.title = title.now
      moved  == sent # {} \/ region \/ last["origin"] # modes["origin"]
  IN  /\ term' = IF noop THEN t
                  ELSE [placed EXCEPT !.visible = cursor_visible,
                          !.title = IF c.title = title.now THEN @ ELSE title.now]
      /\ cache' = [rows |-> [y \in Row |-> HashRow(cells[y])], modes |-> modes,
                   region |-> scroll_region, cursor |-> <<cursor_y, cursor_x>>,
                   visible |-> cursor_visible, title |-> title.now]
      /\ flaws' = (IF full THEN {} ELSE flaws \ {"cursor"})
           \cup (IF sent # {} /\ Displaced(blank) THEN {"margin"} ELSE {})
           \cup {f \in {"charset"} : /\ blank.modes["graphics"]
                                     /\ \E y \in sent, x \in Col : cells[y][x].c = "letter"}
           \cup {f \in {"edge"} : ~full /\ \E y \in sent : WriteLen(cells[y]) = cols}
           \cup (IF cursor THEN {f \in {"cursor"} : Displaced(moded)}
                 ELSE {f \in {"cursor"} : moved \/ f \in flaws})
      /\ shown' = TRUE

\* take_and_render for the attached client
Update ==
  /\ cache # None
  /\ Render(term, FALSE, pending, cache)
  /\ pending' = FALSE
  /\ UNCHANGED <<setup, table, current_style, cells, saved, cursor_y, cursor_x,
                 scroll_region, modes, cursor_visible, title>>

\* A Refresh: pending lines stay for the next update.
Refresh ==
  /\ cache # None
  /\ Render(term, TRUE, FALSE, cache)
  /\ UNCHANGED <<setup, table, current_style, cells, saved, cursor_y, cursor_x,
                 scroll_region, modes, cursor_visible, title, pending>>

\* The client asks its terminal for focus events, then the initial state comes
\* with a full render, and lines that were pending are dropped. The terminal is
\* a new one or that of the last client.
Attach(t) ==
  /\ cache = None
  /\ Render([t EXCEPT !.modes["focus"] = TRUE], TRUE, FALSE, NewCache)
  /\ pending' = FALSE
  /\ UNCHANGED <<setup, table, current_style, cells, saved, cursor_y, cursor_x,
                 scroll_region, modes, cursor_visible, title>>

\* Mutant: focus reporting stays on.
CleanupFocus(t) ==
  [t EXCEPT !.rows = FreshTerm.rows, !.region = FullRegion, !.y = 1, !.x = 1,
            !.visible = TRUE]

\* cleanup_terminal
Cleanup(t) ==
  [t EXCEPT !.rows = FreshTerm.rows, !.region = FullRegion, !.y = 1, !.x = 1,
            !.visible = TRUE, !.modes["focus"] = FALSE]

Leave ==
  /\ cache # None
  /\ term' = Cleanup(term)
  /\ cache' = None
  /\ flaws' = {}
  /\ shown' = FALSE
  /\ UNCHANGED <<setup, table, current_style, cells, saved, cursor_y, cursor_x,
                 scroll_region, modes, cursor_visible, title, pending>>

Next ==
  \/ \E y \in Row, x \in setup.at : PrintAt(y, x)
  \/ \E y \in Row, x \in setup.at : MoveTo(y, x)
  \/ EraseLine
  \/ ScrollUp
  \/ \E params \in setup.sgr : SetStyle(params)
  \/ \E top, bottom \in Row : SetRegion(top, bottom)
  \/ \E enable \in BOOLEAN : SetOrigin(enable)
  \/ \E m \in {"graphics", "focus"}, enable \in BOOLEAN : SetMode(m, enable)
  \/ \E enable \in BOOLEAN : SetVisible(enable)
  \/ \E name \in Name : NameWindow(name)
  \/ PushTitle
  \/ PopTitle
  \/ EnterAltScreen
  \/ ExitAltScreen
  \/ FullReset
  \/ Update
  \/ Refresh
  \/ \E t \in {term, FreshTerm} : Attach(t)
  \/ Leave

Spec == Init /\ [][Next]_vars

-----------------------------------------------------------------------------
(* Properties. *)

Slots(rs) == \A y \in Row, x \in Col :
  rs[y][x].c \in Char /\ rs[y][x].id \in 0..Cap /\ IsStyle(rs[y][x].asked)

\* Every variable has the type of its Rust counterpart; the table has its
\* capacity, free slots are slots of the table, and the cursor is on the screen.
TypeOK ==
  /\ Len(table.styles) <= Cap /\ \A id \in DOMAIN table.styles : IsStyle(table.styles[id])
  /\ \A s \in DOMAIN table.index : table.index[s] \in 1..Len(table.styles)
  /\ table.free \in Seq(1..Len(table.styles))
  /\ IsStyle(current_style)
  /\ Slots(cells)
  /\ saved = None \/ Slots(saved.cells)
  /\ cursor_y \in Row /\ cursor_x \in Col
  /\ scroll_region \in Row \X Row /\ scroll_region[1] <= scroll_region[2]
  /\ modes \in [Mode -> BOOLEAN] /\ cursor_visible \in BOOLEAN
  /\ term.y \in Row /\ term.x \in Col /\ term.modes \in [Mode -> BOOLEAN]
  /\ Len(title.stack) <= MaxTitles
  /\ flaws \subseteq Flaw /\ shown \in BOOLEAN /\ pending \in BOOLEAN

\* A slot in use has the style its cell was written with.
SlotsHold ==
  \A rs \in {cells} \cup {saved.cells : x \in {saved} \ {None}} :
    \A y \in Row, x \in Col :
      rs[y][x].id # 0 => StyleOf(table, rs[y][x].id) = rs[y][x].asked

\* Cells that became default although a style was asked for
Degraded(rs) == \E y \in Row, x \in Col : rs[y][x].id = 0 /\ rs[y][x].asked # DefaultStyle

\* Every cell of the screen and of the saved main screen keeps the style it
\* was written with, through reclaimed and reused slots; a style is given up for
\* the default one only when cells use every slot there is.
StylesKept ==
  /\ [](TypeOK /\ SlotsHold)
  /\ [][Degraded(cells') /\ ~Degraded(cells) /\ ~(saved # None /\ Degraded(saved.cells))
          => LiveIds \ {0} = 1..Cap]_vars

\* After an update every row of the terminal shows its row of the screen, text
\* and style, but for four known flaws: a slot that got another style after
\* its row was sent, rows sent while the terminal was in origin mode with
\* margins set, letters sent while it drew lines, and the last column of rows,
\* which may be blank when a row that reaches it was sent in an update that does
\* not draw everything.
RowsShown ==
  shown /\ flaws \cap {"style", "margin", "charset"} = {} =>
    \A y \in Row, x \in Col :
      \/ term.rows[y][x] = Glyph(cells[y][x].c, StyleOf(table, cells[y][x].id))
      \/ "edge" \in flaws /\ x = cols /\ term.rows[y][x] = BlankGlyph

\* After an update the terminal has the screen's modes, margins, title and cursor
\* visibility, whatever was sent before and whoever used the terminal. Its
\* cursor is where the screen's is, but for two known flaws: it is not put
\* back if it had not moved on the screen while rows, margins or DECOM were
\* sent, and it is displaced in origin mode.
ModesShown ==
  shown => /\ term.modes = modes
           /\ term.region = scroll_region
           /\ term.visible = cursor_visible
           /\ term.title = title.now
           /\ "cursor" \notin flaws => term.y = cursor_y /\ term.x = cursor_x

\* Whatever style an application has put together, written to a terminal with
\* everything on it comes out as that style: the parameters that
\* write_sgr_with_reset_to makes are the ones that apply_sgr reads, colors
\* between other parameters included, and nothing of before is left.
SgrRoundTrip ==
  LET busy == [on |-> Flags, underline |-> 2, fg |-> <<1>>, bg |-> <<2, 2, 2>>,
               underline_color |-> <<3>>]
  IN  ApplySgr(busy, WriteSgr(current_style)) = current_style

\* A client that has left leaves a terminal with all rows, a visible cursor and
\* every mode off that the session or the client had turned on; the exceptions
\* are origin mode and the character set, which are not reset. Nor is the title.
ShellClean ==
  cache = None => /\ term.region = FullRegion
                  /\ term.visible
                  /\ \A m \in Mode \ {"origin", "graphics"} : ~term.modes[m]
=============================================================================
