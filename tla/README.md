# A TLA+ model of retach

retach keeps terminal sessions alive: a daemon owns the PTYs, parses their
output into a virtual screen, and shows that screen to whichever client is
attached, so that lines that scroll off land in the client terminal's own
scrollback. This directory holds TLA+ modules translated from the Rust sources
under `src/src/`, TLC configurations that check them on small instances, and
TLAPS proofs. `PROJECT.json` maps every definition to the lines it models.

## 1. Inventory

| Part | Source | State | Operations | What makes it correct |
|---|---|---|---|---|
| Grid | `screen/grid.rs` | one `VecDeque` of scrollback and visible rows with two indices, scroll region, cursor | scroll up/down, resize, clear, restore | the indices describe the buffer; rows outside the region do not move; the history is bounded, ordered, delivered once |
| Performer | `screen/performer.rs` | saved cursor, grid, modes and region of the main screen | one handler per escape sequence | everything stays on the screen after any mixture of resizes and screen switches; the scrollback limit survives the alternate screen |
| Screen | `screen/mod.rs` | queues of responses, passthrough, notifications | process, resize, take_and_render | queues are bounded; what is taken is taken once |
| Renderer | `screen/render.rs` | row hashes, modes, margins, cursor, title last sent | full and incremental render | the client's terminal shows the screen after every update |
| Rows | `screen/cell.rs` | cells with width and combining marks | edit, cut, fill | a wide character is cut in the known way only; an edit changes what it names, and its damage in a torn row is bounded |
| Styles | `screen/style.rs` | style table with index and free slots | apply and write SGR, intern, reclaim | a slot in use keeps its style; what is written is read back |
| Session, reader thread | `session.rs` | has_client, evict_tx, reader_alive, Notify, deferred responses | read loop, answers to DA/DSR, connect, disconnect, Drop, ClientGuard | one owner; death is noticed; answers are kept in order; the reader never waits for the writer's lock |
| Registry | `session.rs` | name -> session | create, get, remove, list, take_dead | one session per name |
| Setup | `server/session_setup.rs` | dims, screen and PTY size | connect modes, resize_or_sigwinch | the three sizes agree |
| Bridge | `server/session_bridge.rs` | per connection | initial state, spawn and end of relays | no line lost or doubled while attaching |
| Relays | `server/session_relay.rs` | pending_render, throttle sleep | wake, render, refresh, evict; client messages | output is shown, rate-limited, and the end is told |
| Dispatcher, daemon | `server/client_handler.rs`, `server/mod.rs` | listener, cleanup timer | first message, list, kill, cleanup, shutdown | every request is answered; dead sessions go |
| Codec | `protocol/codec.rs` | read buffer, offset | fill, decode, leftover | every message once, in order |
| Client | `client/mod.rs` | input filter's carry, the terminal's modes | handshake, relays, filter, SIGWINCH, clean-up | messages are dispatched, input is passed on whole, sizes reported, the terminal is left clean |
| Launcher, socket | `client/server_launcher.rs`, `server/mod.rs` | socket file, lock file | probe, remove, bind, unlink; lock, re-check, spawn, poll | a running daemon keeps its socket; the lock comes free |

How they interact: the reader thread, the Tokio tasks of each connection and
the cleanup task share the screen (a mutex), `has_client` and `reader_alive`
(atomics), one `Notify` and one eviction channel per session. Client and server
exchange frames over a Unix socket. Blocking jobs (input, resize) run on threads
of their own and survive the task that awaits them.

What is hard: critical sections with socket writes between them (attaching),
check-then-store on atomics (the guard), a single-permit wakeup with several
waiters, sizes compared before an await and used after it, a timer restarted by
every event, a buffer whose two indices move together, saved state that is
restored after a resize, characters of two cells that an edit may cut, a render
cache that compares slots whose meaning changes, a terminal that still has the
modes of the last update, a PTY with two bounded buffers and two writers, and
processes that meet only at the file system. `PROJECT.json` lists these as hazards, line by line.

## 2. Modules

| Module | Models | Proofs | Notes |
|---|---|---|---|
| `Scrollback` | what the screen promises about scrollback | | abstract: a bounded history and how much of it is unsent |
| `Screen` | grid, performer, resize, take_and_render: rows | `ScreenProofs` | one action per escape sequence; `ImplementsScrollback` is the refinement to `Scrollback` |
| `NativeScrollback` | `Screen` plus the outer terminal's scrollback | `ScreenProofs` | composes the screen with what an update does to the terminal |
| `Cells` | the same handlers and `Row`: columns | `CellsProofs` | one row, followed over screen, scrollback and alternate screen; wide characters, marks, pending wrap |
| `Sgr` | reading and writing of SGR parameters | `DisplayProofs` | operators; used by `Display` |
| `Display` | style table, renderer with its cache, modes, title, the client's terminal | `DisplayProofs` | composes the screen's contents with what each update writes |
| `InputPath` | stdin to PTY: filter, Input jobs, writer lock, reader's answers | `InputPathProofs` | composes client, server and application |
| `SessionRelay` | session, reader thread, attach, relay, eviction, removal | `RelayProofs` | steps end at every lock, await and atomic access |
| `RenderThrottle` | timing of the relay's select loop | `RelayProofs` | milliseconds; time passes only when no task is ready |
| `Frames` | one connection: codec and the two loops at each end | `FramesProofs` | bytes are positions in the stream |
| `SessionSize` | dims, screen and PTY size, clients' terminals, connect modes | `SizeProofs` | blocking jobs as steps of their own |
| `Startup` | run_server and ensure_server_running | `StartupProofs` | every system call is a step; processes may die anywhere |
| `MCScreen`, `MCNativeScrollback`, `MCCells`, `MCDisplay`, `MCInputPath`, `MCSessionRelay` | constants for TLC | | |

### How the models correspond to the code

*Screen.* The variables are the fields of `Grid` and `ScreenState` that decide
where rows are. A row is `Blank` or one of `Lines`; what happens inside it is a
nondeterministic change of the row (`Cells` has it), and whether a character
wraps first is nondeterministic. The repeating sequences (SU, SD, DL, IL) take
one step per round, with `repeat` holding what is left and nothing else enabled
in between, because the screen lock is held.

*NativeScrollback.* `native` holds the lines of the history that are in the
terminal's own scrollback and what else stands behind each of them.
`SendInitialState` counts line feeds as `send_initial_state` sends them: the
lines, from wherever the cursor of that terminal is, then `rows - 1` line feeds
in its last row. Rows of the terminal that are scrolled in behind a short
history are marked `below`; lines that a taller screen took back after they were
handed over stay in the terminal's scrollback and are marked `again`.

*Cells.* A cell is its character, its width (2 for a base, 0 for its
continuation) and how many marks it carries. `Fixup`, `SetCell`, `EraseCells`,
`FitRow` are the functions of `Grid` and `Row` with the loops of DCH and ICH as
`Removed` and `Inserted`. Columns do not depend on other rows, so one row is
enough: `place` says where it is (under the cursor, elsewhere on the screen, in
the scrollback, saved under the alternate screen, or gone), and every scroll,
line feed or cursor move leaves it in any place the screen could put it. In
particular the row that a wide character wraps away from may stay on the screen,
be edited there, resized, and enter the scrollback later, or scroll off at once.

*Display.* A cell holds a character, its slot in the style table and, as a
ghost, the style that was asked for; characters are one column wide. `Render` is `render_screen_impl` in its
order: scrollback lines, clear, rows whose hash differs, margins, modes, cursor,
title, visibility. A row is written up to `WriteLen` cells and, in an update that
does not draw everything, followed by EL. The terminal obeys what it is sent (it
is external): CUP counts from the margin in origin mode, the line drawing set
changes letters, DECSTBM and DECOM move its cursor, and after the last column
has been printed the cursor stays on it with a wrap pending, where EL erases it
(retach's own emulator does the same, `performer.rs:301`). Because the row hash,
the slots, that EL and the renderer's order let the terminal differ from the
screen in five ways, `flaws`
records which of them has happened since the last full render; the properties
hold without exception as long as it is empty.

*Sgr.* A parameter is the sequence of its subparameters; digits are left out.
`Loop` is the loop of `apply_sgr` as a recursive function on its rounds.
Bytes are taken modulo 256 where the code casts to `u8`.

*InputPath.* `Filter` is the loop of `InputFilter::process`: `Round` takes a
byte or more and `Flushed` turns what was let through into an Input message. A
read may return any number of typed bytes. A byte on the PTY knows the write it belongs to, so
that mixing is visible. The PTY's two buffers are bounded, and a write into a
full one does not happen until the other side reads.

`Display` and `InputPath` start in one of several *setups*, each with the
sequences (or bytes) that its application (or user) sends. A behaviour keeps its
setup. This checks the combinations that can interact and leaves out the
product of those that cannot.

*SessionRelay.* A chunk of output either scrolls a line off, raises a
notification, or only redraws; lines are numbered, so losing, doubling and
reordering are visible. `got` and `rung` are what was taken from the screen for
a client; a write that fails afterwards is a `Leave`. `Session::connect` is one
step (it runs under the manager lock; only a guard could look in between, and
the guard's check and store are two steps). The three removals (cleanup,
shutdown, kill) differ in what the client's channel says. A Refresh is the
request and its render in one step.

*RenderThrottle.* Its names begin with `Timed` where `SessionRelay` has the same
handler without a clock; `render_due` is the code's `pending_render`. The clocks
stop one past the longest delay. One read per
millisecond is enough: further reads only set flags that are set already.

*Frames.* A frame is its kind, start and length; a reader that lost its place
finds no frame there and refuses. Kinds are merged where no loop tells them
apart (Input, Resize and RefreshScreen; ScreenUpdate, History and Passthrough;
SessionEnded and Error). A write to a closed peer ends the writer.

*SessionSize.* Columns and rows are treated alike by the code, so a size is one
number; 0 stands for a terminal that reports nothing useful. Removal also
forgets the session's jobs: they hold the old session's handles and can change
nothing a later session of that name sees.

*Startup.* `file` is the server whose socket has the path; `remove_file` removes
whatever is there by then. A server listens from bind until its listener is
dropped, also while it drains and after its file has gone. `overlapped` and
`loose` are ghosts that say whether servers were starting at once and whether
anything happened that the launcher's lock does not cover.

Definitions marked "Mutant" are plausible bugs (a dropped guard, a missing
reset, an off-by-one). They are used by no specification; each is swapped in for
the definition below it to confirm that a property would notice.

## 3. Runs

| Run | States | Shows |
|---|---|---|
| `screen` | 1.1 M | buffer invariant; cursor, region, loops and history in bounds; saved state consistent; rows outside the region stay; the alternate screen freezes the history; refinement of `Scrollback` |
| `native` | 1.4 M | the outer terminal's scrollback ends with the delivered history, in order, through ED 3, alternate screen, resizes and new terminals with the cursor in any row; only a history two lines or more short of the screen gets rows of the terminal's own in between |
| `cells` | 256 k | the one way in which a whole row is torn; in a whole row edits change what they name, and making room or cutting keeps what has room; in any row, torn or not, an edit reaches at most one column further; the one way a wrap is pending left of the margin |
| `display` | 244 k | after an update the terminal shows rows, styles, modes, margins, title and cursor, but for the known flaws; slots keep their styles; SGR is read back as written; a client that leaves leaves a clean terminal |
| `input` | 316 k | the filter removes focus reports and nothing else however reads are cut; input and answers reach the application whole, in order, once; output drains while input is stuck; deferred answers are written |
| `relay_safety` | 1.7 M | no line twice, each notification once, one owner, flag cleared when all have gone, last frame shown before "session ended" |
| `relay_liveness` | 0.1 M | evicted clients leave; death reaches every client even without EOF; a sole client's output is always shown |
| `throttle` | 1 063 | at least 16 ms between renders; current 16 ms after output pauses |
| `frames` | 73 k | messages handled once and in order for every way of cutting the stream; legal frames never refused; nothing stranded in a leftover |
| `size` | 62 k | one size unless two clients resize at once; a noticed terminal change is applied |
| `startup` | 178 k | a running server keeps its socket file unless servers start at once; the launcher's lock rules that out but for named exceptions, and always comes free |
| `wakeup` | violation | the comment at `session_bridge.rs:169` says that the relay does not miss notifications; an evicted relay can take the new relay's wakeup |

### Bounds

- `screen`: one and two rows (a one-row screen makes top, bottom and cursor
  coincide; two rows give every partial region), limit 2 (below, at and above
  the limit), one line content besides blank, scroll regions above, below, out
  of range and empty, repeat counts 1 and 2.
- `native`: one and three rows (two rows can be filled by a history of one
  line, so the short history needs three), limit 2, row 1 as the only
  region. `MCSpec` leaves out DECSC and DECOM, which only move the cursor.
- `cells`: one to four columns (two wide characters side by side, or one with a
  neighbour on each side), one narrow and one wide character, parameters 1 and 2
  (half and all of a wide character). `MCSpec` keeps marks to one column at a
  time, and to none while a cursor is saved or the alternate screen is shown;
  DECSC is sent only while a wrap is pending.
- `display`: two slots and three styles that need one, so that the table is
  full, reclaimed and reused; a title stack of two; one row for styles and
  modes, two for margins, the cursor and an update that sends one row of two;
  two columns, so that a row ends before the last column or reaches it. The setup that only puts styles
  together reaches about two thousand of them.
- `input`: five bytes of any kind through the filter (a focus report with a byte
  on each side, or cut anywhere); in the setup with a server three typed bytes,
  PTY buffers of two, two queries and one deferred answer, so that every buffer
  can be full.
- `relay_*`: two clients (the evicted and the evicting one), two chunks, a
  notification queue of one. `relay_safety` uses the symmetry of clients and
  checks no liveness; `relay_liveness` does without it and lets chunks only
  redraw.
- `frames`: header of 4 bytes as in the code, payload 2 = MAX_FRAME_SIZE, reads
  of 1 to 7 bytes, the largest for which the overflow check is safe at that
  frame size; four frames each way, so that one read can end a frame, contain
  one and begin another.
- `size`: two clients, sizes 0, 2 and 3, two changes of terminal size.
- `startup`: three servers, two clients, two polls: a server that died, one that
  runs and one that starts; a client that spawns and one that waits.

`input` and `startup` do not check for deadlock: the user may stop typing, and
every process may have ended.

### Fairness

Safety runs need none. In `SessionRelay` the reader thread after a read, and
every ready branch of a task, is weakly fair: threads are scheduled, and
`select!` picks among ready branches at random. Nothing is assumed of the shell,
of users or of EOF. The cleanup timer (30 s) gives `RemoveDead`. In
`RenderThrottle`, `Tick` is strongly fair because it is disabled whenever a task
is ready. In `Frames` each end keeps reading and handling; in `SessionSize` the
signal handler, the relay and the jobs run. In `InputPath` threads and jobs that
can run do, and nothing is assumed of user and application; `DeferredAnswered`
states what it needs of the application in its own hypothesis. In `Startup`
processes run; signals, crashes and users are free.

## 4. What the models show of the code

Behaviour that the models contain and the properties name as exceptions; each
was met while the properties were being stated.

- *Lines lost while attaching* (`session_bridge.rs:142`): what scrolls off
  while the initial state is being written is dropped with the stale lines
  (README.md:85 says that it is in the next update).
- *Dense output* (`session_relay.rs:54`): each wakeup restarts the 16 ms sleep,
  so output without a pause postpones the render.
- *Two resizes at once* (`session_setup.rs:69`): an attach that reads the dims
  while another client's resize is half-way can resize the PTY alone.
- *Wakeups* (`session_relay.rs:41`): see run `wakeup`.
- *Region after the alternate screen* (`performer.rs:165`): the comment at :136
  speaks of a reset; the saved region is restored, clamped, also after the
  screen has become taller.
- *Short history on attach* (`session_bridge.rs:92`): the flush moves to the
  last row and sends `rows - 1` line feeds, and its comment takes the cursor to
  be there already. On a terminal whose cursor is in row `c`, a history of
  `h` lines leaves `rows - (c + h)` rows between its last line and the bottom (if
  that is positive); they are scrolled into the terminal's scrollback behind the
  history, which then does not end the scrollback. Nothing is lost or reordered:
  later lines come behind those rows.
- *Lines twice*: a taller screen takes lines back that the terminal has in its
  scrollback already (`screen/mod.rs:261`), and they come again.
- *Wide characters.* A wide character that wraps from the last column blanks
  that column alone (`performer.rs:553`), so that the row keeps the base of the
  one that ended there. The row stays on the screen unless the line feed scrolls
  it off, and it can be edited: `fixup_wide_char_at` takes whatever is right of
  such a base for its other half and blanks it (`grid.rs:702`). On two columns: a
  wide character, CUP 1;2, another one (row 1 is now a base and a blank), CUP
  1;2 and `a`, CUP 1;1 and `b`, and the `a` is gone. `EditsLocal` and
  `RoomKeeps` are therefore about rows that are whole, and `EditsNear` says for
  all others how far the damage goes. ICH and a narrower terminal blank a complete wide
  character that ends in the last column (`performer.rs:374`, `cell.rs:172`);
  ICH blanks one under the cursor; erasing blanks one that starts right behind
  the range (`grid.rs:672`).
- *DECRC* (`performer.rs:96`) restores a pending wrap after the screen has
  become wider, and the next character wraps too early.
- *The terminal may differ from the screen* until the next full render: in
  style, when the slot of a row that was sent is given another style (hashes are
  about slots, `render.rs:361`); in rows, when rows are addressed while the
  terminal is in origin mode with margins, or letters sent while it draws lines,
  because modes follow the rows (`render.rs:366`); in the last column, which the
  EL behind a row that reaches it erases on a terminal that keeps its cursor
  there (`render.rs:390`), so that it stays blank until the next full render; in
  the cursor, which is not
  put back if it did not move on the screen (`render.rs:296`) and is displaced
  in origin mode.
- *Leaving* (`client/mod.rs:472`) does not reset origin mode, character sets or
  the title.
- *SGR*: `38;5` cut short leaves the 5 to be read as blink; the bytes of colors
  and of `4:n` are cut to eight bits (300 is 44, `4:256` no underline).
- *Detach*: bytes before the detach key in the same read are sent unfiltered,
  focus reports included (`client/mod.rs:125`).
- *Answers*: the reader does not wait for the writer's lock, but once it has it,
  it does block on a full PTY.
- *Sockets*: two servers that start at once can both find the file stale, and
  the second removes the new socket of the first (the comment at
  `server/mod.rs:46` says that the probe prevents it, the one at :50 admits a race); a
  draining server still accepts; a client that dies or gives up while its server
  is on the way releases the lock early.

## 5. Proofs

All theorems hold for every value of the constants that the modules' named
assumptions allow. Each proof module states an inductive invariant `IInv`, has
one lemma per action or group of actions, and derives the rest from `Invariance`.

`ScreenProofs`: `TypeCorrect`, `GridInvariantHolds` (the debug assertion of
`Grid::check_invariants`), `InBoundsHolds`, `AltConsistentHolds`. None of these
is inductive alone. The buffer invariant needs the region on the screen, because
`scroll_up` removes and inserts rows at its ends; the region after leaving the
alternate screen needs the saved Options to be full exactly while it is shown;
the bound on the history needs the limit saved there; the DL and IL loops need
the cursor inside the region in every round. `IInv` is their conjunction plus
`RepeatOK` (a loop that is running has rounds left). Assumed: naturals where the
code has unsigned integers, parameters of at least one (the parser turns 0 into
1), `None` distinct from every value.

From the same invariant follow the action properties `RegionContainedHolds` and
`AltFreezesHistoryHolds`, and `Refinement`: what an action does to the buffer is
said once, as the history and the unsent count it leaves, and each of these
effects is a step of `Scrollback` or a stutter. The outer terminal is proved
over the same effects. `NativeIInv` adds that what has been handed over ends the
terminal's scrollback line by line (`Follows`, unless an ED 3 is on its way or
the terminal never got the history) and that while an ED 3 is on its way nothing
of the history counts as handed over, so that the update which carries it
carries all of it. For a new terminal the lines that the feeds push out are
counted for every cursor row (`Flushed`): it is always the whole history, and
the gap behind it needs a history two lines or more short of the screen.
`NativeFollowsHistoryHolds` follows.

`CellsProofs`: the inductive invariant is `TypeOK` alone, since the row may be
torn at any time. `TornOnlyAtMarginHolds` takes the operations on rows one by
one: each turns a whole row (`RowOK`, which says what `Whole` says) into a whole
row, and since all handlers are made of them, only the blanked margin is left.
`EditsLocalHolds` and `RoomKeepsHolds` have a whole row as their hypothesis, in
the property as in the proof; they compare the text before and after an edit,
which are sets of characters with their first and last columns: a character is
in the set if and only if its columns hold it, so that a lemma for each
operation says what a column holds afterwards, and the sets follow column by
column. `EditsNearHolds` assumes nothing of the row but its type.
`WrapAtMarginHolds` needs only where each handler leaves the cursor.

`DisplayProofs` has two parts. `RoundTrip` is about data: for every style and
every style the terminal had before, `apply_sgr` of what
`write_sgr_with_reset_to` writes is that style. The rounds of the loop are
reached one after another (`LoopExists`, `LoopRounds`), and each stretch of the
written sequence, the reset, a flag, the underline or one of the three colors,
brings the loop from one partial style to the next (`FlagChunk`, `FgChunk` and
the like); the parameters of a color are skipped in the rounds after it. The
library's induction theorems cannot be used, as their hypotheses have operators
for parameters, so `Induction` is proved with sets instead: a set of numbers
that lacks one has a least number it lacks.

The other part is the inductive invariant of `Display`. `TableInv` says that the
index and the styles agree, that no slot is free twice or both free and indexed,
and that every slot a cell of either screen uses is in the table, not free, and
has the style the cell was written with; interning, reclaiming and the reuse of
slots keep this (`InternOK`, `ReclaimOK`, `InternWithGcOK`), whatever the
capacity. `SentInv` says of terminal and cache alone, while the application
goes on, that the terminal has what the cache says was sent: without it nothing
could be said of an incremental update, which writes only what differs from the
cache. `ShownInv` says that `shown` means that the cache is what the screen has.
`SentInv` allows for the one blank column that an EL leaves, and a row that is
not sent again keeps it. `RenderOK` goes through an update stage by stage (clear,
rows, margins, modes, cursor, the rest) and restores both, from any terminal if
the update is full.
Then `StylesKeptHolds`, `RowsShownHolds`, `ModesShownHolds`, `ShellCleanHolds`
and `SgrRoundTripHolds` are consequences. Assumed: at least one row and
one column, SGR parameters that are numbers, and `None` distinct from what the
Options hold.

`RelayProofs`: `SingleOwnerHolds`, `NobodyNoClientHolds`, `NoLineTwiceHolds`,
`NotificationOnceHolds`, `FinalFrameHolds`, for any number of clients and chunks.
`Owner` says that the session's sender belongs to the one client whose receiver
is open; without it neither ownership nor the guard's check can be argued.
`Flag` says that has_client is set on behalf of an owner that has not gone.
`Lines` says that once the initial state is complete nothing a client has
received is pending any more, which is what the second critical section of
`send_initial_state` is for. `Final` ties "ended" to the reader's death.

`SizeProofs`: `AgreedIfSerialHolds`. The invariant says that a job belongs to a
task that awaits it or was aborted, and that nobody is connected to a removed
session. `Serial`, which holds as long as no two clients resize at once, says what
the one that resizes leaves half-way.

`CatchesUpHolds` and the action property `MinIntervalHolds` are about the same
loop as `RenderThrottle` times it, for every interval; they are in
`RelayProofs` too, which extends both modules, and rest on `ThrottleIInv`.
`Scheduled` bounds the sleep that is left by the time since the last output,
`Spaced` from below by that since the last render.

`StartupProofs`: `OwnsSocketHolds`, for any number of servers, clients and polls.
`Alone` says that servers that did not overlap cannot meet on the path;
`Guarded` says that, as long as the lock covers every start, a server that is
starting has a client that waits for it with the lock.

`FramesProofs`: `TypeCorrect`, `InSyncHolds`, `NeverRefusedHolds`,
`NoneStrandedHolds`, for every frame size, read size and number of frames. The
assumption that counts is that one read (`READ_BUF_SIZE`) is at most
`MAX_FRAME_SIZE + 5` bytes, which the constants of the code satisfy by far; a
larger read could meet the overflow limit with legal frames only. The inductive
invariant says of each end that the frames in its stream follow each other
without a gap, that its reader stands at the end of the last frame it handled,
and that no complete frame is in its buffer whenever its next step is a read. For
the server this last part needs the handshake: until the server has answered, the
stream to it holds at most the request, so the leftover that goes to
`client_to_pty` is empty. The order of any two frames is part of the invariant,
so that no induction over the stream is needed.

`InputPathProofs`: `TypeCorrect`, `FilterExactHolds`, `InputKeptHolds` and
`AnswersKeptHolds`, for every alphabet, every number of bytes typed, every way
of cutting them into reads and every size of the buffers. Assumed are only the
types of the constants: a setup is a set of keys, a number and a flag, the PTY
holds at least a byte each way, `MAX_DEFERRED` is at least one. The argument
has four parts.

1. *Data.* `Select`, `Data` and the loop of `Filter` are recursive functions.
   That such a function exists and what it does to one more element is proved
   once for all (`Recursion`, with `Induction` over sets of numbers); from it
   come lemmas on appending and concatenating (`SelectAppend`, `DataConcat`).
2. *The filter.* A focus report is defined on all that was ever read
   (`Begins`, `Report`), the loop sees one read. `Clean` says of a position
   that no report goes on there, whatever comes later; the loop always stands
   at a clean position and has let through what is kept before it (`LoopOK`, one
   lemma for each branch of `Round`). It stops with nothing left or with an ESC
   or ESC [, since every round takes a byte (`RoundsExist`, by induction on the
   rounds). `On` is what that leaves from one read to the next: the carry is the
   end of what was read, it begins at a clean position, and what was forwarded
   is what is kept before it. The detach key ends it with the read as it is.
3. *The stream.* `InputKept` is not inductive: a byte may join the stream only
   behind bytes of the same write. `Line` is the stream as it will be when
   the write that holds pty_writer is done, so that no write of a byte changes
   it; of `Line` the invariant says that writes lie together (`WholeIn`), that
   answers are in order (`OrderedIn`), that its bytes and those waiting are what
   was forwarded (`BytesOK`), and that a job which waits for the lock is of a
   write that is not in it yet (`JobOK`). A new write is appended as a whole when it
   gets the lock.
4. *The answers.* `QueriesOK` orders all queries there are: those written before
   those deferred, those before the ones not read yet. Then `Due` is ascending,
   what the limit forgets is older than what it keeps (`NewestOK`), and
   `LosesOnlyOldest` goes through the actions: only the reader's read can lose
   a query, and only through the limit.

`IInv` was checked by TLC on the instance of run `input` before it was proved.

Model-checked only are the liveness properties, since fairness and ENABLED are
outside the prover's reach: `DeathReachesClients`, `EvictedLeaves` and
`OutputShown` of the relay, `OutputDrains` and `DeferredAnswered` of the input
path, `Dispatched` of the frames, `ResizeApplied` of the sizes and `LockFreed` of
the launcher. Every safety and action property of the passing runs is a
theorem.

## 6. Not modelled

- Raw mode and the command line: operating-system calls and argument parsing
  without state that another part reads.
- `server/socket.rs`: choice and permissions of the socket's directory.
- Which OSC sequences are forwarded to the terminal, single tab stops, and the
  listing of sessions.
- bincode, vte and portable-pty: libraries, used through their results.
- Mutex poisoning: a panic under a lock ends the session's usefulness and is
  reported as an error everywhere.
- More than 1024 queued responses or passthrough sequences in one read.
- Resizing in `Display`: its screen keeps its size, so a resize while a client has
  a render cache is not covered. The client answers SIGWINCH with Resize and
  RefreshScreen (`client/mod.rs:262`), so a full render follows; updates in
  between may be drawn on a terminal of another size.
- Wide characters in `Display`: a row that `Cells` shows to be torn is sent with
  its lone base, and the terminal shows what follows one column too far right.
- In `NativeScrollback`, what a terminal does with its own scrollback when its
  size changes (it is taken to keep it), and the last column of a line of the
  history that fills the terminal's width, which `\x1b[K` may erase there as it
  does in an update (`render.rs:245`): its rows have no columns.

What some properties leave out by their hypotheses, though the model has it:
`NobodyNoClient` is about the flag once everybody has gone, so it does not
exclude that a guard clears has_client under a client that has just connected
(`session.rs:26`); `AgreedIfSerial` excludes two resizes at once, and the sizes
may stay apart then (`session_setup.rs:69`). `Dispatched` assumes that the server's
loop keeps handling messages: an Input job on a full PTY can block it for as long
as the application does not read (`InputPath` has that). `OutputShown` is checked
for finitely many chunks; output without a pause postpones the render.

About two thirds of the lines under `src/src` are tests (`tests_*.rs`, and the
`mod tests` of most files); the map covers about 60 % of the others. What is
left of those is mostly logging, error texts, trait declarations and escape
sequence formatting.

## 7. Plan

1. *Done*: the modules and runs above, and a theorem for every safety and
   action property that a passing run checks.
2. OSC forwarding and tab stops in `Display` and `Cells`.
