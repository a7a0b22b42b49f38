-------------------------- MODULE NativeScrollback --------------------------
(***************************************************************************)
(* The screen of a session together with the native scrollback of the      *)
(* terminal that shows it: what retach is for is that the second follows   *)
(* the first. A client is attached throughout; a new terminal may take     *)
(* over at any time.                                                       *)
(*                                                                         *)
(* Delivery is atomic here: take_and_render under the screen lock and the  *)
(* ScreenUpdate it yields are one step. SessionRelay.tla takes it apart.   *)
(*                                                                         *)
(* The terminal is not part of the repository: a line feed in its last row *)
(* moves its first row into its scrollback, ED 3 forgets those rows, and   *)
(* they stay there when its size changes.                                  *)
(***************************************************************************)
EXTENDS Screen

VARIABLE
  native   \* the newest Limit lines of the history in the terminal's own
           \* scrollback, each with the kinds of other rows right behind it;
           \* None if the terminal did not get the history when it attached

nativeVars == <<vars, native>>

\* Rows that stand between the lines of the history:
\*   below   what was on the terminal's screen below the lines sent first
\*   again   lines that the screen took back; they will come once more
Foreign == {"below", "again"}

Entries(lines) == [i \in 1..Len(lines) |-> [line |-> lines[i], behind |-> {}]]

Newest(s) == SubSeq(s, Larger(1, Len(s) - Limit + 1), Len(s))

\* Rows of some kind come behind the last line of s.
Followed(s, kind) ==
  [i \in 1..Len(s) |-> IF i = Len(s) THEN [s[i] EXCEPT !.behind = @ \cup {kind}]
                       ELSE s[i]]

\* Mutant: the queued ED 3 follows the update and erases its lines.
SendUpdateClearsLast ==
  /\ TakeAndRender
  /\ native' = CASE clear_native -> << >>
                 [] ~clear_native /\ native = None -> None
                 [] ~clear_native /\ native # None -> Newest(native \o Entries(Pending))

\* screen_to_client: a queued ED 3 is prepended to the update, so the terminal
\* erases its saved lines before the pending ones are scrolled into them.
SendUpdate ==
  /\ TakeAndRender
  /\ native' = CASE clear_native -> Entries(Pending)
                 [] ~clear_native /\ native = None -> None
                 [] ~clear_native /\ native # None -> Newest(native \o Entries(Pending))

\* The line feeds that are to flush the history out of the terminal's screen
Flushes == IF scrollback_len = 0 THEN 0 ELSE rows - 1

\* What becomes of the history on a terminal whose cursor is in row c: line i is
\* written into row c - 1 + i, counted from the first row of the screen as it
\* was. The lines themselves scroll what has no room below them; the flushing
\* starts in the last row, wherever the last line is.
Flushed(c) ==
  LET gone  == Larger(0, c + scrollback_len - rows) + Flushes
      lines == Entries(SubSeq(History, 1, Smaller(scrollback_len, Larger(0, gone - (c - 1)))))
  IN  IF gone > c - 1 + scrollback_len THEN Followed(lines, "below") ELSE lines

\* send_initial_state to a new terminal: the whole history, unless the
\* alternate screen is shown; then what is pending is dropped. Where the cursor
\* of that terminal is, nobody knows.
SendInitialState ==
  /\ TakeAndRender
  /\ \E c \in 1..rows : native' = IF in_alt_screen THEN None ELSE Flushed(c)

\* Lines that were handed over are among those that a taller screen takes back,
\* once those that were not are taken.
TakenBackHanded(n) == Larger(0, TakenBack(n) - (scrollback_len - pending_start))

ResizeTerminal(n) ==
  /\ Resize(n)
  /\ LET again == TakenBackHanded(Sanitize(n))
     IN  native' = IF native = None \/ again = 0 THEN native
                   ELSE Followed(SubSeq(native, 1, Len(native) - again), "again")

NativeInit == Init /\ native = << >>

NativeNext ==
  \/ Application /\ UNCHANGED native
  \/ \E n \in Sizes : ResizeTerminal(n)
  \/ SendUpdate
  \/ SendInitialState

NativeSpec == NativeInit /\ [][NativeNext]_nativeVars

-----------------------------------------------------------------------------
\* The lines handed over are the newest lines of the terminal's scrollback.
Follows ==
  /\ pending_start <= Len(native)
  /\ \A i \in 1..pending_start :
       native[Len(native) - pending_start + i].line = cells[i]

Gap == native # None /\ \E i \in 1..Len(native) : "below" \in native[i].behind

\* The lines of the history that were handed over are, in this order, the newest
\* lines of the terminal's scrollback: nothing is lost or reordered on the way
\* from the screen to the terminal, and a line comes twice only if a taller
\* screen took it back after it was handed over ("no duplication/loss",
\* tests_live_scrollback.rs). Rows of the terminal's own get between them only
\* when it attaches while the history is two lines or more short of filling the
\* screen.
NativeFollowsHistory ==
  /\ [](native # None /\ ~clear_native => Follows)
  /\ [][Gap' /\ ~Gap => ~in_alt_screen /\ scrollback_len < rows - 1]_nativeVars
=============================================================================
