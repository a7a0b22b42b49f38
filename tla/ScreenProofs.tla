---------------------------- MODULE ScreenProofs ----------------------------
(***************************************************************************)
(* Proofs about Screen, its refinement of Scrollback, and the terminal of  *)
(* NativeScrollback, for every scrollback limit, every set of terminal     *)
(* sizes, CSI parameters and scroll regions, and every row content.        *)
(***************************************************************************)
EXTENDS NativeScrollback, SequenceTheorems, TLAPS

-----------------------------------------------------------------------------
(* Sequences: what the operations on the unified buffer do to its length.  *)

\* A prefix of a sequence.
LEMMA PrefixOf ==
  ASSUME NEW S, NEW s \in Seq(S), NEW n \in 0..Len(s)
  PROVE  SubSeq(s, 1, n) \in Seq(S) /\ Len(SubSeq(s, 1, n)) = n
<1>1. \A i \in 1..n : s[i] \in S
  BY ElementOfSeq, LenProperties
<1>. QED  BY <1>1, SubSeqProperties, LenProperties

\* A suffix of a sequence.
LEMMA SuffixOf ==
  ASSUME NEW S, NEW s \in Seq(S), NEW n \in 1..Len(s) + 1
  PROVE  /\ SubSeq(s, n, Len(s)) \in Seq(S)
         /\ Len(SubSeq(s, n, Len(s))) = Len(s) - n + 1
<1>1. \A i \in n..Len(s) : s[i] \in S
  BY ElementOfSeq, LenProperties
<1>. QED  BY <1>1, SubSeqProperties, LenProperties

\* VecDeque::insert grows the buffer by one row.
LEMMA InsertAtLen ==
  ASSUME NEW S, NEW s \in Seq(S), NEW e \in S, NEW i \in 1..Len(s) + 1
  PROVE  InsertAt(s, i, e) \in Seq(S) /\ Len(InsertAt(s, i, e)) = Len(s) + 1
<1>1. Len(s) \in Nat
  BY LenProperties
<1>2. SubSeq(s, 1, i - 1) \in Seq(S) /\ Len(SubSeq(s, 1, i - 1)) = i - 1
  BY <1>1, PrefixOf
<1>3. /\ SubSeq(s, i, Len(s)) \in Seq(S)
      /\ Len(SubSeq(s, i, Len(s))) = Len(s) - i + 1
  BY <1>1, SuffixOf
<1>4. <<e>> \in Seq(S) /\ Len(<<e>>) = 1
  OBVIOUS
<1>5. /\ SubSeq(s, 1, i - 1) \o <<e>> \in Seq(S)
      /\ Len(SubSeq(s, 1, i - 1) \o <<e>>) = i
  BY <1>1, <1>2, <1>4, ConcatProperties
<1>. QED  BY <1>1, <1>3, <1>5, ConcatProperties DEF InsertAt

\* VecDeque::remove shrinks it by one row.
LEMMA RemoveAtLen ==
  ASSUME NEW S, NEW s \in Seq(S), NEW i \in 1..Len(s)
  PROVE  RemoveAt(s, i) \in Seq(S) /\ Len(RemoveAt(s, i)) = Len(s) - 1
<1>1. Len(s) \in Nat
  BY LenProperties
<1>2. SubSeq(s, 1, i - 1) \in Seq(S) /\ Len(SubSeq(s, 1, i - 1)) = i - 1
  BY <1>1, PrefixOf
<1>3. /\ SubSeq(s, i + 1, Len(s)) \in Seq(S)
      /\ Len(SubSeq(s, i + 1, Len(s))) = Len(s) - i
  BY <1>1, SuffixOf
<1>. QED  BY <1>1, <1>2, <1>3, ConcatProperties, SMTT(30) DEF RemoveAt

\* Rows made by Row::new.
LEMMA BlankRowsLen ==
  ASSUME NEW n \in Nat
  PROVE  BlankRows(n) \in Seq(Row) /\ Len(BlankRows(n)) = n
BY DEF BlankRows, Row

\* Cutting or padding the buffer leaves len + n rows.
LEMMA FitRowsLen ==
  ASSUME NEW buf \in Seq(Row), NEW len \in Nat, NEW n \in Nat
  PROVE  FitRows(buf, len, n) \in Seq(Row) /\ Len(FitRows(buf, len, n)) = len + n
<1>1. Len(buf) \in Nat
  BY LenProperties
<1>2. CASE Len(buf) > len + n
  BY <1>1, <1>2, PrefixOf DEF FitRows
<1>3. CASE ~(Len(buf) > len + n)
  <2>1. len + n - Len(buf) \in Nat
    BY <1>1, <1>3
  <2>. QED  BY <1>1, <1>3, <2>1, BlankRowsLen, ConcatProperties DEF FitRows
<1>. QED  BY <1>2, <1>3

-----------------------------------------------------------------------------
(* The inductive invariant. The properties need each other: GridInvariant  *)
(* needs the region on the screen (Grid indexes the buffer with it) and    *)
(* the limit of the main screen; HistoryBounded needs the limit saved for  *)
(* the alternate screen; the DL and IL loops need the cursor's place.      *)
RepeatOK == repeat.n = 0 <=> repeat.op = "none"

IInv ==
  /\ TypeOK
  /\ GridInvariant
  /\ OnScreen
  /\ AltConsistent
  /\ HistoryBounded
  /\ LoopInRegion
  /\ RepeatOK

\* The part of IInv about the buffer, for a buffer of r rows.
BufferOK(buf, len, start, r) ==
  /\ buf \in Seq(Row)
  /\ len \in Nat
  /\ start \in Nat
  /\ start <= len
  /\ len <= Limit
  /\ Len(buf) = len + r

\* Moving a row within the screen keeps the buffer.
LEMMA RotateLen ==
  ASSUME IInv, NEW from \in 0..rows - 1, NEW to \in 0..rows - 1
  PROVE  Rotate(from, to) \in Seq(Row) /\ Len(Rotate(from, to)) = Len(cells)
<1>1. /\ cells \in Seq(Row) /\ scrollback_len \in Nat /\ rows \in Nat \ {0}
      /\ Len(cells) = scrollback_len + rows
  BY DEF IInv, TypeOK, GridInvariant
<1>2. VisibleIndex(from) \in 1..Len(cells) /\ VisibleIndex(to) \in 1..Len(cells)
  BY <1>1 DEF VisibleIndex
<1>3. /\ RemoveAt(cells, VisibleIndex(from)) \in Seq(Row)
      /\ Len(RemoveAt(cells, VisibleIndex(from))) = Len(cells) - 1
  BY <1>1, <1>2, RemoveAtLen
<1>4. Blank \in Row
  BY DEF Row
<1>5. VisibleIndex(to) \in 1..Len(RemoveAt(cells, VisibleIndex(from))) + 1
  BY <1>1, <1>2, <1>3
<1>. QED  BY <1>1, <1>3, <1>4, <1>5, InsertAtLen DEF Rotate

\* Grid::scroll_up keeps the buffer, at the limit and below it, with a full
\* and with a partial scroll region.
LEMMA ScrollUpOK ==
  ASSUME IInv
  PROVE  BufferOK(ScrollUpCells, ScrollUpLen, ScrollUpPending, rows)
<1>1. /\ cells \in Seq(Row) /\ scrollback_len \in Nat /\ rows \in Nat \ {0}
      /\ Len(cells) = scrollback_len + rows
      /\ pending_start \in Nat /\ pending_start <= scrollback_len
      /\ scrollback_len <= Limit /\ Limit \in Nat
      /\ scroll_top \in Nat /\ scroll_bottom \in Nat
      /\ scroll_top <= scroll_bottom /\ scroll_bottom < rows
      /\ VisibleLen = rows
  BY LimitAssumption
     DEF IInv, TypeOK, GridInvariant, OnScreen, HistoryBounded, VisibleLen
<1>2. Blank \in Row
  BY DEF Row
<1>3. CASE Captures
  <2>1. scrollback_limit = Limit /\ Limit > 0
    BY <1>3 DEF Captures, IInv, AltConsistent
  <2>2. /\ ScrollUpLen \in Nat /\ ScrollUpPending \in Nat
        /\ ScrollUpPending <= ScrollUpLen /\ ScrollUpLen <= Limit
    BY <1>1, <1>3, <2>1 DEF ScrollUpLen, ScrollUpPending, Overflows
  <2>. DEFINE kept == IF Overflows THEN Tail(cells) ELSE cells
  <2>3. kept \in Seq(Row) /\ Len(kept) = ScrollUpLen + rows - 1
    <3>1. cells # << >>
      BY <1>1, EmptySeq
    <3>2. Tail(cells) \in Seq(Row) /\ Len(Tail(cells)) = Len(cells) - 1
      BY <1>1, <3>1, HeadTailProperties
    <3>. QED  BY <1>1, <1>3, <3>2 DEF ScrollUpLen
  <2>4. CASE scroll_bottom >= VisibleLen - 1
    <3>1. ScrollUpCells = Append(kept, Blank)
      BY <1>3, <2>4 DEF ScrollUpCells
    <3>. HIDE DEF kept
    <3>2. Append(kept, Blank) \in Seq(Row) /\ Len(Append(kept, Blank)) = Len(kept) + 1
      BY <1>2, <2>3, AppendProperties
    <3>. QED  BY <1>1, <2>2, <2>3, <3>1, <3>2 DEF BufferOK
  <2>5. CASE ~(scroll_bottom >= VisibleLen - 1)
    <3>1. ScrollUpCells = InsertAt(kept, ScrollUpLen + scroll_bottom + 1, Blank)
      BY <1>3, <2>5 DEF ScrollUpCells
    <3>. HIDE DEF kept
    <3>2. ScrollUpLen + scroll_bottom + 1 \in 1..Len(kept) + 1
      BY <1>1, <2>2, <2>3, <2>5
    <3>3. /\ InsertAt(kept, ScrollUpLen + scroll_bottom + 1, Blank) \in Seq(Row)
          /\ Len(InsertAt(kept, ScrollUpLen + scroll_bottom + 1, Blank)) = Len(kept) + 1
      BY <1>2, <2>3, <3>2, InsertAtLen, ZenonT(30)
    <3>. QED  BY <1>1, <2>2, <2>3, <3>1, <3>3 DEF BufferOK
  <2>. QED  BY <2>4, <2>5
<1>4. CASE ~Captures
  <2>1. ScrollUpLen = scrollback_len /\ ScrollUpPending = pending_start
    BY <1>4 DEF ScrollUpLen, ScrollUpPending
  <2>2. ScrollUpCells = Rotate(scroll_top, scroll_bottom)
    BY <1>1, <1>4 DEF ScrollUpCells
  <2>3. scroll_top \in 0..rows - 1 /\ scroll_bottom \in 0..rows - 1
    BY <1>1
  <2>. QED  BY <1>1, <2>1, <2>2, <2>3, RotateLen DEF BufferOK
<1>. QED  BY <1>3, <1>4

-----------------------------------------------------------------------------
(* Each action preserves the inductive invariant.                          *)

\* Actions that move only the cursor.
LEMMA MoveCursorOK ==
  ASSUME IInv, NEW y \in Nat, y < rows, MoveCursor(y)
  PROVE  IInv'
BY DEF IInv, TypeOK, GridInvariant, OnScreen, AltConsistent, HistoryBounded,
       LoopInRegion, RepeatOK, CursorInRegion, MoveCursor, Idle, buffer, region, altVars

\* Printing, with or without a wrap that scrolls first.
LEMMA PrintCharOK ==
  ASSUME IInv, NEW wrap \in BOOLEAN, NEW line \in Row, PrintChar(wrap, line)
  PROVE  IInv'
<1>. DEFINE scrolls == wrap /\ cursor_y = scroll_bottom
            moves   == wrap /\ ~scrolls /\ cursor_y < rows - 1
            base    == IF scrolls THEN ScrollUpCells ELSE cells
            len     == IF scrolls THEN ScrollUpLen ELSE scrollback_len
            start   == IF scrolls THEN ScrollUpPending ELSE pending_start
            y       == IF moves THEN cursor_y + 1 ELSE cursor_y
<1>1. BufferOK(base, len, start, rows)
  <2>1. BufferOK(cells, scrollback_len, pending_start, rows)
    BY DEF IInv, TypeOK, GridInvariant, HistoryBounded, BufferOK
  <2>. QED  BY <2>1, ScrollUpOK
<1>2. y \in Nat /\ y < rows
  BY DEF IInv, TypeOK, OnScreen
<1>3. /\ cells' = [base EXCEPT ![len + y + 1] = line]
      /\ scrollback_len' = len /\ pending_start' = start /\ cursor_y' = y
  BY DEF PrintChar
<1>. HIDE DEF base, len, start, y
<1>4. /\ cells' \in Seq(Row) /\ Len(cells') = Len(base)
  <2>1. len + y + 1 \in 1..Len(base)
    BY <1>1, <1>2 DEF BufferOK, IInv, TypeOK
  <2>. QED  BY <1>1, <1>3, <2>1, ExceptSeq DEF BufferOK
<1>. QED
  BY <1>1, <1>2, <1>3, <1>4
     DEF PrintChar, IInv, TypeOK, GridInvariant, OnScreen, AltConsistent, HistoryBounded,
         LoopInRegion, RepeatOK, BufferOK, Idle, buffer, region, altVars

\* LF, at the bottom of the region and elsewhere.
LEMMA LineFeedOK ==
  ASSUME IInv, LineFeed
  PROVE  IInv'
<1>1. CASE cursor_y = scroll_bottom
  BY <1>1, ScrollUpOK
     DEF LineFeed, ScrollUp, IInv, TypeOK, GridInvariant, OnScreen, AltConsistent,
         HistoryBounded, LoopInRegion, RepeatOK, BufferOK, Idle, region, altVars
<1>2. CASE cursor_y # scroll_bottom
  BY <1>2
     DEF LineFeed, IInv, TypeOK, GridInvariant, OnScreen, AltConsistent,
         HistoryBounded, LoopInRegion, RepeatOK, Idle, buffer, region, altVars
<1>. QED  BY <1>1, <1>2

\* Grid::scroll_down keeps the buffer.
LEMMA ScrollDownOK ==
  ASSUME IInv, ScrollDown
  PROVE  BufferOK(cells', scrollback_len', pending_start', rows)
<1>1. scroll_top \in 0..rows - 1 /\ scroll_bottom \in 0..rows - 1
  BY DEF IInv, TypeOK, OnScreen
<1>. QED
  BY <1>1, RotateLen DEF ScrollDown, BufferOK, IInv, TypeOK, GridInvariant, HistoryBounded

\* RI, at the top of the region and elsewhere.
LEMMA ReverseIndexOK ==
  ASSUME IInv, ReverseIndex
  PROVE  IInv'
<1>1. CASE cursor_y = scroll_top
  <2>1. ScrollDown /\ UNCHANGED cursor_y
    BY <1>1 DEF ReverseIndex
  <2>. QED
    BY <2>1, ScrollDownOK
       DEF ReverseIndex, IInv, TypeOK, GridInvariant, OnScreen, AltConsistent,
           HistoryBounded, LoopInRegion, RepeatOK, BufferOK, Idle, region, altVars
<1>2. CASE cursor_y # scroll_top
  BY <1>2
     DEF ReverseIndex, Larger, IInv, TypeOK, GridInvariant, OnScreen, AltConsistent,
         HistoryBounded, LoopInRegion, RepeatOK, Idle, buffer, region, altVars
<1>. QED  BY <1>1, <1>2

\* CUU, CPL, CUD, CNL, CUP, HVP, VPA: the target row is on the screen.
LEMMA CursorOK ==
  ASSUME IInv, NEW n \in Params, CursorUp(n) \/ CursorDown(n) \/ CursorPosition(n)
  PROVE  IInv'
<1>1. n \in Nat \ {0}
  BY ParamsAssumption
<1>2. /\ rows \in Nat \ {0} /\ cursor_y \in Nat /\ scroll_top \in Nat /\ scroll_bottom \in Nat
      /\ cursor_y < rows /\ scroll_top <= scroll_bottom /\ scroll_bottom < rows
  BY DEF IInv, TypeOK, OnScreen
<1>3. CASE CursorUp(n)
  <2>. DEFINE y == Larger(cursor_y - n, IF cursor_y >= scroll_top THEN scroll_top ELSE 0)
  <2>1. y \in Nat /\ y < rows
    BY <1>1, <1>2 DEF Larger
  <2>2. MoveCursor(y)
    BY <1>3 DEF CursorUp
  <2>. QED  BY <2>1, <2>2, MoveCursorOK
<1>4. CASE CursorDown(n)
  <2>. DEFINE y == Smaller(cursor_y + n,
                           IF cursor_y <= scroll_bottom THEN scroll_bottom ELSE rows - 1)
  <2>1. y \in Nat /\ y < rows
    BY <1>1, <1>2 DEF Smaller
  <2>2. MoveCursor(y)
    BY <1>4 DEF CursorDown
  <2>. QED  BY <2>1, <2>2, MoveCursorOK
<1>5. CASE CursorPosition(n)
  <2>1. AbsoluteRow(n) \in Nat /\ AbsoluteRow(n) < rows
    BY <1>1, <1>2 DEF AbsoluteRow, Smaller
  <2>. QED  BY <1>5, <2>1, MoveCursorOK DEF CursorPosition
<1>. QED  BY <1>3, <1>4, <1>5

\* DECSC and DECRC: a row saved on a taller screen is clamped.
LEMMA SavedCursorOK ==
  ASSUME IInv, SaveCursor \/ RestoreCursor
  PROVE  IInv'
<1>1. CASE SaveCursor
  BY <1>1 DEF SaveCursor, SavedCursor, IInv, TypeOK, GridInvariant, OnScreen, AltConsistent,
     HistoryBounded, LoopInRegion, RepeatOK, CursorInRegion, Idle, buffer, region, altVars
<1>2. CASE RestoreCursor
  <2>1. saved_cursor_state.y \in Nat /\ saved_cursor_state.origin \in BOOLEAN
    BY <1>2 DEF RestoreCursor, SavedCursor, IInv, TypeOK
  <2>. QED
    BY <1>2, <2>1, SMTT(30) DEF RestoreCursor, Smaller, IInv, TypeOK, GridInvariant, OnScreen,
       AltConsistent, HistoryBounded, LoopInRegion, RepeatOK, Idle, buffer, region, altVars
<1>. QED  BY <1>1, <1>2

\* DECOM and DECSTBM.
LEMMA RegionOK ==
  ASSUME IInv,
         \/ \E enable \in BOOLEAN : SetOriginMode(enable)
         \/ \E r \in Regions : SetScrollingRegion(r[1], r[2])
  PROVE  IInv'
<1>1. ASSUME NEW enable \in BOOLEAN, SetOriginMode(enable)
      PROVE  IInv'
  BY <1>1 DEF SetOriginMode, IInv, TypeOK, GridInvariant, OnScreen, AltConsistent,
     HistoryBounded, LoopInRegion, RepeatOK, Idle, buffer, region, altVars
<1>2. ASSUME NEW r \in Regions, SetScrollingRegion(r[1], r[2])
      PROVE  IInv'
  <2>1. r[1] \in Nat \ {0} /\ r[2] \in Nat \ {0}
    BY RegionsAssumption
  <2>2. /\ scroll_top' \in Nat /\ scroll_bottom' \in Nat /\ cursor_y' \in Nat
        /\ cursor_y' < rows /\ scroll_top' <= scroll_bottom' /\ scroll_bottom' < rows
    <3>1. rows \in Nat \ {0}
      BY DEF IInv, TypeOK
    <3>2. /\ scroll_top' = r[1] - 1 /\ scroll_bottom' = Smaller(r[2] - 1, rows - 1)
          /\ r[1] - 1 <= Smaller(r[2] - 1, rows - 1) /\ cursor_y' \in {r[1] - 1, 0}
      BY <1>2 DEF SetScrollingRegion
    <3>. QED  BY <2>1, <3>1, <3>2 DEF Smaller
  <2>. QED
    BY <1>2, <2>2 DEF SetScrollingRegion, IInv, TypeOK, GridInvariant, OnScreen,
       AltConsistent, HistoryBounded, LoopInRegion, RepeatOK, Idle, buffer, altVars
<1>. QED  BY <1>1, <1>2

\* Starting SU, SD, DL or IL.
LEMMA StartOK ==
  ASSUME IInv, NEW n \in Params,
         ScrollUpN(n) \/ ScrollDownN(n) \/ DeleteLines(n) \/ InsertLines(n)
  PROVE  IInv'
<1>1. n \in Nat \ {0}
  BY ParamsAssumption
<1>2. /\ rows \in Nat \ {0} /\ cursor_y \in Nat /\ scroll_bottom \in Nat /\ scroll_top \in Nat
  BY DEF IInv, TypeOK
<1>3. ASSUME NEW op \in RepeatOps \ {"none"}, NEW k \in Int, StartRepeat(op, k),
             op \in {"delete_lines", "insert_lines"} => CursorInRegion
      PROVE  IInv'
  BY <1>3 DEF StartRepeat, CursorInRegion, IInv, TypeOK, GridInvariant, OnScreen,
     AltConsistent, HistoryBounded, LoopInRegion, RepeatOK, Idle, buffer, region, altVars
<1>4. Smaller(n, rows) \in Int /\ Smaller(n, scroll_bottom - cursor_y + 1) \in Int
  BY <1>1, <1>2 DEF Smaller
<1>. QED
  BY <1>3, <1>4 DEF ScrollUpN, ScrollDownN, DeleteLines, InsertLines, RepeatOps

\* One round of such a loop.
LEMMA RepeatStepOK ==
  ASSUME IInv, RepeatStep
  PROVE  IInv'
<1>1. BufferOK(cells', scrollback_len', pending_start', rows)
  <2>1. CASE repeat.op = "scroll_up" /\ ScrollUp
    BY <2>1, ScrollUpOK DEF ScrollUp
  <2>2. CASE repeat.op = "scroll_down" /\ ScrollDown
    BY <2>2, ScrollDownOK
  <2>3. ASSUME repeat.op \in {"delete_lines", "insert_lines"},
               MoveRow(cursor_y, scroll_bottom) \/ MoveRow(scroll_bottom, cursor_y)
        PROVE  BufferOK(cells', scrollback_len', pending_start', rows)
    <3>1. cursor_y \in 0..rows - 1 /\ scroll_bottom \in 0..rows - 1
      BY DEF IInv, TypeOK, OnScreen
    <3>. QED
      BY <2>3, <3>1, RotateLen, SMTT(30)
         DEF MoveRow, BufferOK, IInv, TypeOK, GridInvariant, HistoryBounded
  <2>. QED  BY <2>1, <2>2, <2>3 DEF RepeatStep, Round
<1>2. repeat' \in [op : RepeatOps, n : Nat] /\ RepeatOK'
  BY DEF RepeatStep, Round, IInv, TypeOK, RepeatOK, RepeatOps, Idle
<1>3. LoopInRegion'
  BY DEF RepeatStep, LoopInRegion, CursorInRegion, IInv, TypeOK, region
<1>. QED
  BY <1>1, <1>2, <1>3 DEF RepeatStep, IInv, TypeOK, GridInvariant, OnScreen, AltConsistent,
     HistoryBounded, BufferOK, region, altVars

\* The visible rows and the history as sequences.
LEMMA PartsOK ==
  ASSUME IInv
  PROVE  /\ History \in Seq(Row) /\ Len(History) = scrollback_len
         /\ Visible \in Seq(Row) /\ Len(Visible) = rows
         /\ VisibleLen = rows
<1>1. /\ cells \in Seq(Row) /\ scrollback_len \in Nat /\ rows \in Nat \ {0}
      /\ Len(cells) = scrollback_len + rows
  BY DEF IInv, TypeOK, GridInvariant
<1>2. scrollback_len \in 0..Len(cells) /\ scrollback_len + 1 \in 1..Len(cells) + 1
  BY <1>1
<1>. QED  BY <1>1, <1>2, PrefixOf, SuffixOf DEF History, Visible, VisibleLen

\* ED 0, 1, 2, ED 3 and DECALN.
LEMMA EraseOK ==
  ASSUME IInv,
         \/ \E mode \in 0..2, line \in Row : EraseDisplay(mode, line)
         \/ EraseSavedLines
         \/ \E line \in Lines : ScreenAlignment(line)
  PROVE  IInv'
<1>1. ASSUME NEW mode \in 0..2, NEW line \in Row, EraseDisplay(mode, line)
      PROVE  IInv'
  <2>1. ASSUME NEW from \in Int, NEW to \in Int
        PROVE  Erased(from, to, line) \in Seq(Row) /\ Len(Erased(from, to, line)) = Len(cells)
    <3>1. Len(cells) \in Nat /\ \A i \in 1..Len(cells) : cells[i] \in Row
      BY ElementOfSeq, LenProperties DEF IInv, TypeOK
    <3>2. Blank \in Row
      BY DEF Row
    <3>3. \A i \in 1..Len(cells) :
            (CASE i = VisibleIndex(cursor_y) -> line
               [] i >= VisibleIndex(from) /\ i <= VisibleIndex(to)
                  /\ i # VisibleIndex(cursor_y) -> Blank
               [] OTHER -> cells[i]) \in Row
      BY <3>1, <3>2
    <3>. QED  BY <3>1, <3>3 DEF Erased
  <2>2. cells' \in Seq(Row) /\ Len(cells') = Len(cells)
    <3>1. 0 \in Int /\ cursor_y \in Int /\ rows - 1 \in Int
      BY DEF IInv, TypeOK
    <3>. QED  BY <1>1, <2>1, <3>1 DEF EraseDisplay
  <2>. QED
    BY <1>1, <2>2 DEF EraseDisplay, IInv, TypeOK, GridInvariant, OnScreen, AltConsistent,
       HistoryBounded, LoopInRegion, RepeatOK, CursorInRegion, region, altVars
<1>2. CASE EraseSavedLines
  BY <1>2, PartsOK, LimitAssumption
     DEF EraseSavedLines, ClearScrollback, IInv, TypeOK, GridInvariant, OnScreen, AltConsistent,
         HistoryBounded, LoopInRegion, RepeatOK, CursorInRegion, region, altVars
<1>3. ASSUME NEW line \in Lines, ScreenAlignment(line)
      PROVE  IInv'
  <2>1. [i \in 1..rows |-> line] \in Seq(Row) /\ Len([i \in 1..rows |-> line]) = rows
    BY DEF Row, IInv, TypeOK
  <2>2. cells' \in Seq(Row) /\ Len(cells') = scrollback_len + rows
    BY <1>3, <2>1, PartsOK, ConcatProperties DEF ScreenAlignment
  <2>3. /\ scrollback_len' = scrollback_len /\ pending_start' = pending_start /\ rows' = rows
        /\ cursor_y' = 0 /\ scroll_top' = 0 /\ scroll_bottom' = rows - 1
    BY <1>3 DEF ScreenAlignment, ResetScrollRegion
  <2>4. UNCHANGED <<scrollback_limit, origin_mode, altVars, saved_cursor_state, clear_native, repeat>>
    BY <1>3 DEF ScreenAlignment
  <2>5. TypeOK'
    <3>1. cursor_y' \in Nat /\ scroll_top' \in Nat /\ scroll_bottom' \in Nat
      BY <2>3 DEF IInv, TypeOK
    <3>. QED  BY <2>2, <2>3, <2>4, <3>1 DEF IInv, TypeOK, altVars
  <2>6. GridInvariant' /\ OnScreen' /\ HistoryBounded'
    BY <2>2, <2>3 DEF IInv, TypeOK, GridInvariant, OnScreen, HistoryBounded
  <2>7. AltConsistent' /\ LoopInRegion' /\ RepeatOK'
    BY <1>3 DEF ScreenAlignment, IInv, AltConsistent, LoopInRegion, RepeatOK, Idle, altVars
  <2>. QED  BY <2>5, <2>6, <2>7 DEF IInv
<1>. QED  BY <1>1, <1>2, <1>3

\* Entering the alternate screen: the limit is put aside with the rows.
LEMMA EnterAltScreenOK ==
  ASSUME IInv, NEW save \in BOOLEAN, EnterAltScreen(save)
  PROVE  IInv'
<1>1. cells' \in Seq(Row) /\ Len(cells') = scrollback_len + rows
  <2>1. rows \in Nat
    BY DEF IInv, TypeOK
  <2>2. BlankRows(rows) \in Seq(Row) /\ Len(BlankRows(rows)) = rows
    BY <2>1, BlankRowsLen
  <2>3. cells' = History \o BlankRows(rows)
    BY DEF EnterAltScreen
  <2>4. History \in Seq(Row) /\ Len(History) = scrollback_len
    BY PartsOK
  <2>. QED  BY <2>2, <2>3, <2>4, ConcatProperties
<1>2. /\ saved_grid' \in SavedGrid /\ saved_grid'.limit = Limit
      /\ saved_modes' \in [origin : BOOLEAN]
      /\ saved_scroll_region' \in Nat \X Nat
      /\ saved_cursor_state' \in SavedCursor \cup {None}
  BY PartsOK DEF EnterAltScreen, SavedGrid, SavedCursor, IInv, TypeOK, AltConsistent, region
<1>3. saved_grid' # None /\ saved_modes' # None /\ saved_scroll_region' # None
  BY <1>2, NoneAssumption
<1>4. /\ cursor_y' = 0 /\ scroll_top' = 0 /\ scroll_bottom' = rows - 1
      /\ scrollback_limit' = 0 /\ in_alt_screen'
      /\ UNCHANGED <<rows, scrollback_len, pending_start, origin_mode, clear_native, repeat>>
  BY DEF EnterAltScreen, ResetScrollRegion
<1>5. TypeOK'
  <2>1. cursor_y' \in Nat /\ scroll_top' \in Nat /\ scroll_bottom' \in Nat
    BY <1>4 DEF IInv, TypeOK
  <2>2. in_alt_screen' \in BOOLEAN
    BY DEF EnterAltScreen
  <2>. QED  BY <1>1, <1>2, <1>4, <2>1, <2>2 DEF IInv, TypeOK
<1>6. GridInvariant' /\ OnScreen' /\ HistoryBounded'
  BY <1>1, <1>4 DEF IInv, TypeOK, GridInvariant, OnScreen, HistoryBounded
<1>7. AltConsistent'
  BY <1>2, <1>3, <1>4 DEF AltConsistent
<1>8. LoopInRegion' /\ RepeatOK'
  BY <1>4 DEF EnterAltScreen, Idle, IInv, LoopInRegion, RepeatOK
<1>. QED  BY <1>5, <1>6, <1>7, <1>8 DEF IInv

\* Leaving it: rows saved on a screen of another size are fitted, the limit,
\* the cursor and the region come back clamped.
LEMMA ExitAltScreenOK ==
  ASSUME IInv, NEW restore \in BOOLEAN, ExitAltScreen(restore)
  PROVE  IInv'
<1>1. /\ saved_grid \in SavedGrid /\ saved_grid.limit = Limit
      /\ saved_scroll_region \in Nat \X Nat /\ saved_modes \in [origin : BOOLEAN]
      /\ saved_grid # None /\ saved_modes # None /\ saved_scroll_region # None
  BY DEF ExitAltScreen, IInv, TypeOK, AltConsistent
<1>2. cells' \in Seq(Row) /\ Len(cells') = scrollback_len + rows
  <2>1. rows \in Nat /\ scrollback_len \in Nat /\ saved_grid.visible \in Seq(Row)
    BY <1>1 DEF IInv, TypeOK, SavedGrid
  <2>2. History \o saved_grid.visible \in Seq(Row)
    BY <2>1, PartsOK, ConcatProperties
  <2>3. cells' = FitRows(History \o saved_grid.visible, scrollback_len, rows)
    BY <1>1 DEF ExitAltScreen
  <2>. QED  BY <2>1, <2>2, <2>3, FitRowsLen
<1>3. /\ scroll_top' \in Nat /\ scroll_bottom' \in Nat
      /\ scroll_top' <= scroll_bottom' /\ scroll_bottom' < rows
  <2>1. saved_scroll_region[1] \in Nat /\ saved_scroll_region[2] \in Nat
    BY <1>1
  <2>. QED  BY <1>1, <2>1, SMTT(30) DEF ExitAltScreen, Smaller, Larger, IInv, TypeOK
<1>4. saved_cursor_state # None =>
        saved_cursor_state.y \in Nat /\ saved_cursor_state.origin \in BOOLEAN
  BY DEF IInv, TypeOK, SavedCursor
<1>5. cursor_y' \in Nat /\ cursor_y' < rows
  BY <1>4 DEF ExitAltScreen, Smaller, IInv, TypeOK, OnScreen
<1>6. origin_mode' \in BOOLEAN
  BY <1>1, <1>4, Zenon DEF ExitAltScreen, IInv, TypeOK
<1>7. scrollback_limit' = Limit
  BY <1>1 DEF ExitAltScreen, RestoredLimit
<1>. QED
  BY <1>2, <1>3, <1>5, <1>6, <1>7, LimitAssumption DEF ExitAltScreen, IInv, TypeOK,
     GridInvariant, OnScreen, AltConsistent, HistoryBounded, LoopInRegion, RepeatOK, Idle

\* RIS, in and out of the alternate screen.
LEMMA FullResetOK ==
  ASSUME IInv, FullReset
  PROVE  IInv'
<1>1. scrollback_limit' = Limit
  BY DEF FullReset, RestoredLimit, IInv, AltConsistent
<1>2. cells' \in Seq(Row) /\ Len(cells') = rows
  <2>1. rows \in Nat
    BY DEF IInv, TypeOK
  <2>. QED  BY <2>1, PartsOK, BlankRowsLen DEF FullReset, ClearScrollback
<1>3. /\ scrollback_len' = 0 /\ pending_start' = 0 /\ cursor_y' = 0 /\ rows' = rows
      /\ scroll_top' = 0 /\ scroll_bottom' = rows - 1
  BY DEF FullReset, ClearScrollback, ResetScrollRegion
<1>4. origin_mode' = FALSE /\ in_alt_screen' = FALSE /\ clear_native' = TRUE
  BY DEF FullReset
<1>5. TypeOK'
  <2>1. /\ origin_mode' \in BOOLEAN /\ in_alt_screen' \in BOOLEAN /\ clear_native' \in BOOLEAN
        /\ saved_grid' \in SavedGrid \cup {None}
        /\ saved_modes' \in [origin : BOOLEAN] \cup {None}
        /\ saved_scroll_region' \in (Nat \X Nat) \cup {None}
        /\ saved_cursor_state' \in SavedCursor \cup {None}
    BY Zenon DEF FullReset
  <2>2. repeat' \in [op : RepeatOps, n : Nat] /\ rows' \in Nat \ {0}
    BY DEF FullReset, IInv, TypeOK
  <2>. QED  BY <1>1, <1>2, <1>3, <2>1, <2>2, LimitAssumption DEF TypeOK
<1>6. GridInvariant' /\ OnScreen' /\ HistoryBounded'
  BY <1>2, <1>3, LimitAssumption DEF IInv, TypeOK, GridInvariant, OnScreen, HistoryBounded
<1>7. AltConsistent' /\ LoopInRegion' /\ RepeatOK'
  BY <1>1, <1>4 DEF FullReset, IInv, AltConsistent, LoopInRegion, RepeatOK, Idle
<1>. QED  BY <1>5, <1>6, <1>7 DEF IInv

\* Screen::resize, in and out of the alternate screen.
LEMMA ResizeOK ==
  ASSUME IInv, NEW n \in Sizes, Resize(n)
  PROVE  IInv'
<1>. DEFINE r     == Sanitize(n)
            count == TakenBack(r)
            len   == scrollback_len - count
<1>1. r \in Nat \ {0}
  BY SizesAssumption DEF Sanitize, Larger
<1>2. /\ cells \in Seq(Row) /\ scrollback_len \in Nat /\ rows \in Nat \ {0}
      /\ pending_start \in Nat /\ cursor_y \in Nat /\ scrollback_len <= Limit
  BY DEF IInv, TypeOK, HistoryBounded
<1>3. count \in Nat /\ len \in Nat /\ len <= scrollback_len
  BY <1>1, <1>2 DEF TakenBack, Smaller
<1>4. /\ rows' = r /\ scrollback_len' = len /\ cells' = FitRows(cells, len, r)
      /\ pending_start' = Smaller(pending_start, len)
      /\ cursor_y' = Smaller(cursor_y + count, r - 1)
      /\ scroll_top' = 0 /\ scroll_bottom' = r - 1
  BY DEF Resize
<1>. HIDE DEF r, count, len
<1>5. cells' \in Seq(Row) /\ Len(cells') = len + r
  BY <1>1, <1>2, <1>3, <1>4, FitRowsLen
<1>6. /\ pending_start' \in Nat /\ pending_start' <= len
      /\ cursor_y' \in Nat /\ cursor_y' < r
  BY <1>1, <1>2, <1>3, <1>4 DEF Smaller
<1>7. TypeOK'
  BY <1>1, <1>3, <1>4, <1>5, <1>6 DEF Resize, IInv, TypeOK, altVars
<1>8. GridInvariant' /\ OnScreen' /\ HistoryBounded'
  BY <1>1, <1>2, <1>3, <1>4, <1>5, <1>6, LimitAssumption
     DEF GridInvariant, OnScreen, HistoryBounded
<1>9. AltConsistent' /\ LoopInRegion' /\ RepeatOK'
  BY DEF Resize, IInv, AltConsistent, LoopInRegion, RepeatOK, Idle, altVars
<1>. QED  BY <1>7, <1>8, <1>9 DEF IInv

-----------------------------------------------------------------------------
\* IInv is an invariant of the screen.
THEOREM Invariance == Spec => []IInv
<1>1. Init => IInv
  <2>. SUFFICES ASSUME Init PROVE IInv
    OBVIOUS
  <2>1. rows \in Nat \ {0}
    BY SizesAssumption DEF Init, Sanitize, Larger
  <2>2. cells \in Seq(Row) /\ Len(cells) = rows
    BY <2>1, BlankRowsLen DEF Init
  <2>3. TypeOK
    <3>1. /\ origin_mode \in BOOLEAN /\ in_alt_screen \in BOOLEAN /\ clear_native \in BOOLEAN
          /\ saved_grid \in SavedGrid \cup {None}
          /\ saved_modes \in [origin : BOOLEAN] \cup {None}
          /\ saved_scroll_region \in (Nat \X Nat) \cup {None}
          /\ saved_cursor_state \in SavedCursor \cup {None}
      BY Zenon DEF Init
    <3>2. repeat \in [op : RepeatOps, n : Nat]
      BY DEF Init, RepeatOps
    <3>3. /\ scrollback_len \in Nat /\ pending_start \in Nat /\ scrollback_limit \in Nat
          /\ cursor_y \in Nat /\ scroll_top \in Nat /\ scroll_bottom \in Nat
      BY <2>1, LimitAssumption DEF Init
    <3>. QED  BY <2>1, <2>2, <3>1, <3>2, <3>3 DEF TypeOK
  <2>. QED
    BY <2>1, <2>2, <2>3, LimitAssumption DEF Init, IInv, GridInvariant, OnScreen,
       AltConsistent, HistoryBounded, LoopInRegion, RepeatOK
<1>2. IInv /\ [Next]_vars => IInv'
  <2>. SUFFICES ASSUME IInv, [Next]_vars PROVE IInv'
    OBVIOUS
  <2>1. CASE Application
    BY <2>1, PrintCharOK, LineFeedOK, ReverseIndexOK, CursorOK, SavedCursorOK, RegionOK,
       StartOK, RepeatStepOK, EraseOK, EnterAltScreenOK, ExitAltScreenOK, FullResetOK
       DEF Application
  <2>2. CASE \E n \in Sizes : Resize(n)
    BY <2>2, ResizeOK
  <2>3. CASE TakeAndRender
    <3>1. TypeOK'
      BY <2>3 DEF TakeAndRender, IInv, TypeOK, region, altVars
    <3>. QED
      BY <2>3, <3>1 DEF TakeAndRender, IInv, TypeOK, GridInvariant, OnScreen, AltConsistent,
         HistoryBounded, LoopInRegion, RepeatOK, CursorInRegion, region, altVars
  <2>4. CASE UNCHANGED vars
    BY <2>4 DEF vars, buffer, region, altVars, IInv, TypeOK, GridInvariant, OnScreen,
       AltConsistent, HistoryBounded, LoopInRegion, RepeatOK, CursorInRegion
  <2>. QED  BY <2>1, <2>2, <2>3, <2>4 DEF Next
<1>. QED  BY <1>1, <1>2, PTL DEF Spec

\* Grid::check_invariants never fails: the assertions of the debug builds hold
\* after every sequence of escape codes, resizes and reads.
THEOREM GridInvariantHolds == Spec => []GridInvariant
BY Invariance, PTL DEF IInv

\* The main screen's limit survives every visit to the alternate screen.
THEOREM AltConsistentHolds == Spec => []AltConsistent
BY Invariance, PTL DEF IInv

\* Every variable keeps its type: no index goes below zero, no screen has zero
\* rows.
THEOREM TypeCorrect == Spec => []TypeOK
BY Invariance, PTL DEF IInv

\* Every index into the rows is in range: the cursor and the region are on the
\* screen, the row that a DL or IL loop moves is inside the region, and the
\* scrollback is inside its limit.
THEOREM InBoundsHolds == Spec => []InBounds
BY Invariance, PTL DEF IInv, InBounds

-----------------------------------------------------------------------------
(* Sequences: which element the operations on the unified buffer put where. *)

\* The elements of a prefix.
LEMMA PrefixElem ==
  ASSUME NEW S, NEW s \in Seq(S), NEW n \in 0..Len(s)
  PROVE  \A i \in 1..n : SubSeq(s, 1, n)[i] = s[i]
<1>1. \A i \in 1..n : s[i] \in S
  BY ElementOfSeq, LenProperties
<1>2. \A i \in 1..n - 1 + 1 : SubSeq(s, 1, n)[i] = s[1 + i - 1]
  BY <1>1, SubSeqProperties, LenProperties
<1>. QED  BY <1>2, LenProperties

\* The elements of a suffix.
LEMMA SuffixElem ==
  ASSUME NEW S, NEW s \in Seq(S), NEW n \in 1..Len(s) + 1
  PROVE  \A i \in 1..Len(s) - n + 1 : SubSeq(s, n, Len(s))[i] = s[n + i - 1]
<1>1. \A i \in n..Len(s) : s[i] \in S
  BY ElementOfSeq, LenProperties
<1>. QED  BY <1>1, SubSeqProperties, LenProperties

\* Two sequences that agree up to n have the same prefix of length n.
LEMMA SamePrefix ==
  ASSUME NEW S, NEW s \in Seq(S), NEW t \in Seq(S), NEW n \in Nat,
         n <= Len(s), n <= Len(t), \A i \in 1..n : s[i] = t[i]
  PROVE  SubSeq(s, 1, n) = SubSeq(t, 1, n)
<1>1. Len(s) \in Nat /\ Len(t) \in Nat
  BY LenProperties
<1>2. n \in 0..Len(s) /\ n \in 0..Len(t)
  BY <1>1
<1>3. /\ SubSeq(s, 1, n) \in Seq(S) /\ Len(SubSeq(s, 1, n)) = n
      /\ SubSeq(t, 1, n) \in Seq(S) /\ Len(SubSeq(t, 1, n)) = n
  BY <1>2, PrefixOf
<1>4. \A i \in 1..n : SubSeq(s, 1, n)[i] = SubSeq(t, 1, n)[i]
  BY <1>2, PrefixElem
<1>. QED  BY <1>3, <1>4, SeqEqual

\* Insertion moves what is behind the position one place back.
LEMMA InsertAtElem ==
  ASSUME NEW S, NEW s \in Seq(S), NEW e \in S, NEW i \in 1..Len(s) + 1,
         NEW j \in 1..Len(s) + 1
  PROVE  InsertAt(s, i, e)[j] = IF j < i THEN s[j] ELSE IF j = i THEN e ELSE s[j - 1]
<1>1. Len(s) \in Nat /\ i - 1 \in 0..Len(s)
  BY LenProperties
<1>. DEFINE a == SubSeq(s, 1, i - 1)
            b == a \o <<e>>
            c == SubSeq(s, i, Len(s))
<1>2. a \in Seq(S) /\ Len(a) = i - 1 /\ \A k \in 1..i - 1 : a[k] = s[k]
  BY <1>1, PrefixOf, PrefixElem
<1>3. c \in Seq(S) /\ Len(c) = Len(s) - i + 1 /\ \A k \in 1..Len(s) - i + 1 : c[k] = s[i + k - 1]
  BY <1>1, SuffixOf, SuffixElem
<1>4. <<e>> \in Seq(S) /\ Len(<<e>>) = 1 /\ <<e>>[1] = e
  OBVIOUS
<1>5. /\ b \in Seq(S) /\ Len(b) = i
      /\ \A k \in 1..i : b[k] = IF k < i THEN s[k] ELSE e
  <2>. HIDE DEF a
  <2>1. /\ a \o <<e>> \in Seq(S) /\ Len(a \o <<e>>) = i
        /\ \A k \in 1..i : (a \o <<e>>)[k] = IF k <= i - 1 THEN a[k] ELSE <<e>>[k - (i - 1)]
    BY <1>1, <1>2, <1>4, ConcatProperties
  <2>. QED  BY <1>1, <1>2, <1>4, <2>1
<1>6. InsertAt(s, i, e) = b \o c
  BY DEF InsertAt
<1>. HIDE DEF a, b, c
<1>7. (b \o c)[j] = IF j <= i THEN b[j] ELSE c[j - i]
  <2>1. j \in 1..Len(b) + Len(c)
    BY <1>1, <1>3, <1>5
  <2>. QED  BY <1>3, <1>5, <2>1, ConcatProperties
<1>8. InsertAt(s, i, e)[j] = IF j <= i THEN b[j] ELSE c[j - i]
  BY <1>6, <1>7
<1>9. CASE j <= i
  BY <1>1, <1>5, <1>8, <1>9
<1>10. CASE j > i
  <2>1. j - i \in 1..Len(s) - i + 1 /\ i + (j - i) - 1 = j - 1
    BY <1>1, <1>10
  <2>2. c[j - i] = s[j - 1]
    BY <1>3, <2>1
  <2>. QED  BY <1>1, <1>8, <1>10, <2>2
<1>. QED  BY <1>1, <1>9, <1>10

\* Removal moves what is behind the position one place forward.
LEMMA RemoveAtElem ==
  ASSUME NEW S, NEW s \in Seq(S), NEW i \in 1..Len(s), NEW j \in 1..Len(s) - 1
  PROVE  RemoveAt(s, i)[j] = IF j < i THEN s[j] ELSE s[j + 1]
<1>1. Len(s) \in Nat /\ i - 1 \in 0..Len(s) /\ i + 1 \in 1..Len(s) + 1
  BY LenProperties
<1>. DEFINE a == SubSeq(s, 1, i - 1)
            c == SubSeq(s, i + 1, Len(s))
<1>2. a \in Seq(S) /\ Len(a) = i - 1 /\ \A k \in 1..i - 1 : a[k] = s[k]
  BY <1>1, PrefixOf, PrefixElem
<1>3. c \in Seq(S) /\ Len(c) = Len(s) - i /\ \A k \in 1..Len(s) - i : c[k] = s[i + k]
  BY <1>1, SuffixOf, SuffixElem
<1>4. RemoveAt(s, i) = a \o c
  BY DEF RemoveAt
<1>. HIDE DEF a, c
<1>5. (a \o c)[j] = IF j <= i - 1 THEN a[j] ELSE c[j - (i - 1)]
  <2>1. j \in 1..Len(a) + Len(c)
    BY <1>1, <1>2, <1>3
  <2>. QED  BY <1>2, <1>3, <2>1, ConcatProperties
<1>. QED  BY <1>1, <1>2, <1>3, <1>4, <1>5

\* Cutting or padding leaves the rows that stay where they are.
LEMMA FitRowsElem ==
  ASSUME NEW buf \in Seq(Row), NEW len \in Nat, NEW n \in Nat, len <= Len(buf)
  PROVE  \A i \in 1..len : FitRows(buf, len, n)[i] = buf[i]
<1>1. Len(buf) \in Nat
  BY LenProperties
<1>2. CASE Len(buf) > len + n
  <2>1. len + n \in 0..Len(buf)
    BY <1>1, <1>2
  <2>. QED  BY <1>1, <1>2, <2>1, PrefixElem DEF FitRows
<1>3. CASE ~(Len(buf) > len + n)
  <2>1. len + n - Len(buf) \in Nat
    BY <1>1, <1>3
  <2>2. /\ BlankRows(len + n - Len(buf)) \in Seq(Row)
        /\ Len(BlankRows(len + n - Len(buf))) \in Nat
    BY <2>1, BlankRowsLen
  <2>3. \A i \in 1..Len(buf) : (buf \o BlankRows(len + n - Len(buf)))[i] = buf[i]
    BY <1>1, <2>2, ConcatProperties
  <2>. QED  BY <1>1, <1>3, <2>3 DEF FitRows
<1>. QED  BY <1>2, <1>3

-----------------------------------------------------------------------------
(* What one step does to the history and to the rows outside the region.   *)

\* What IInv says about the buffer and the region.
LEMMA BufferFacts ==
  ASSUME IInv
  PROVE  /\ cells \in Seq(Row) /\ scrollback_len \in Nat /\ rows \in Nat \ {0}
         /\ Len(cells) = scrollback_len + rows /\ VisibleLen = rows
         /\ pending_start \in Nat /\ pending_start <= scrollback_len
         /\ scrollback_len <= Limit /\ Limit \in Nat
         /\ cursor_y \in Nat /\ cursor_y < rows
         /\ scroll_top \in Nat /\ scroll_bottom \in Nat
         /\ scroll_top <= scroll_bottom /\ scroll_bottom < rows
BY LimitAssumption
   DEF IInv, TypeOK, GridInvariant, OnScreen, HistoryBounded, VisibleLen

\* The same of the buffer after a step.
LEMMA NextBufferFacts ==
  ASSUME IInv'
  PROVE  /\ cells' \in Seq(Row) /\ scrollback_len' \in Nat /\ Len(cells') \in Nat
         /\ scrollback_len' <= Len(cells') /\ rows' \in Nat \ {0}
         /\ Len(cells') = scrollback_len' + rows'
         /\ pending_start' \in Nat /\ pending_start' <= scrollback_len'
<1>1. /\ cells' \in Seq(Row) /\ scrollback_len' \in Nat /\ rows' \in Nat \ {0}
      /\ pending_start' \in Nat
  BY DEF IInv, TypeOK
<1>2. Len(cells') = scrollback_len' + rows' /\ pending_start' <= scrollback_len'
  BY DEF IInv, GridInvariant
<1>3. Len(cells') \in Nat
  BY <1>1, LenProperties
<1>4. \A a, b \in Nat : a <= a + b
  OBVIOUS
<1>5. scrollback_len' <= Len(cells')
  BY <1>1, <1>2, <1>4, Zenon
<1>. QED  BY <1>1, <1>2, <1>3, <1>5, Zenon

\* Moving a row leaves the rows before and behind the two places alone.
LEMMA RotateElem ==
  ASSUME IInv, NEW from \in 0..rows - 1, NEW to \in 0..rows - 1,
         NEW j \in 1..Len(cells),
         \/ j < VisibleIndex(from) /\ j < VisibleIndex(to)
         \/ j > VisibleIndex(from) /\ j > VisibleIndex(to)
  PROVE  Rotate(from, to)[j] = cells[j]
<1>1. /\ cells \in Seq(Row) /\ scrollback_len \in Nat /\ rows \in Nat \ {0}
      /\ Len(cells) = scrollback_len + rows
  BY BufferFacts
<1>2. VisibleIndex(from) \in 1..Len(cells) /\ VisibleIndex(to) \in 1..Len(cells)
  BY <1>1 DEF VisibleIndex
<1>. DEFINE rest == RemoveAt(cells, VisibleIndex(from))
<1>3. rest \in Seq(Row) /\ Len(rest) = Len(cells) - 1
  BY <1>1, <1>2, RemoveAtLen
<1>4. \A k \in 1..Len(cells) - 1 :
        rest[k] = IF k < VisibleIndex(from) THEN cells[k] ELSE cells[k + 1]
  BY <1>1, <1>2, RemoveAtElem
<1>5. Blank \in Row
  BY DEF Row
<1>6. Rotate(from, to) = InsertAt(rest, VisibleIndex(to), Blank)
  BY DEF Rotate
<1>. HIDE DEF rest
<1>7. Rotate(from, to)[j] = IF j < VisibleIndex(to) THEN rest[j]
                            ELSE IF j = VisibleIndex(to) THEN Blank ELSE rest[j - 1]
  <2>1. /\ VisibleIndex(to) \in 1..Len(rest) + 1
        /\ j \in 1..Len(rest) + 1
    BY <1>1, <1>2, <1>3
  <2>. QED  BY <1>3, <1>5, <1>6, <2>1, InsertAtElem
<1>. QED  BY <1>1, <1>2, <1>4, <1>7

\* Grid::scroll_up that captures: the history is what was there and the top
\* row, without the oldest line at the limit; the rows under the region stay.
LEMMA ScrollUpCaptured ==
  ASSUME IInv, Captures
  PROVE  LET forgotten == IF Overflows THEN 1 ELSE 0
         IN  /\ \A j \in 1..ScrollUpLen : ScrollUpCells[j] = cells[j + forgotten]
             /\ \A y \in scroll_bottom + 1..rows - 1 :
                  ScrollUpCells[ScrollUpLen + y + 1] = cells[VisibleIndex(y)]
<1>1. /\ cells \in Seq(Row) /\ scrollback_len \in Nat /\ rows \in Nat \ {0}
      /\ Len(cells) = scrollback_len + rows /\ VisibleLen = rows
      /\ scroll_bottom \in Nat /\ scroll_bottom < rows
  BY BufferFacts
<1>. DEFINE forgotten == IF Overflows THEN 1 ELSE 0
            kept == IF Overflows THEN Tail(cells) ELSE cells
<1>2. /\ ScrollUpLen \in Nat /\ ScrollUpLen + forgotten = scrollback_len + 1
      /\ forgotten \in Nat
  BY <1>1 DEF ScrollUpLen
<1>3. /\ kept \in Seq(Row) /\ Len(kept) = ScrollUpLen + rows - 1
      /\ \A k \in 1..Len(kept) : kept[k] = cells[k + forgotten]
  <2>1. cells # << >>
    BY <1>1, EmptySeq
  <2>2. /\ Tail(cells) \in Seq(Row) /\ Len(Tail(cells)) = Len(cells) - 1
        /\ \A k \in 1..Len(Tail(cells)) : Tail(cells)[k] = cells[k + 1]
    BY <1>1, <2>1, HeadTailProperties
  <2>3. CASE Overflows
    BY <1>1, <2>2, <2>3 DEF ScrollUpLen
  <2>4. CASE ~Overflows
    BY <1>1, <2>4 DEF ScrollUpLen
  <2>. QED  BY <2>3, <2>4
<1>4. Blank \in Row
  BY DEF Row
<1>5. CASE scroll_bottom >= VisibleLen - 1
  <2>1. ScrollUpCells = Append(kept, Blank)
    BY <1>5 DEF ScrollUpCells
  <2>2. \A k \in 1..Len(kept) : Append(kept, Blank)[k] = kept[k]
    BY <1>3, <1>4, AppendProperties
  <2>. HIDE DEF kept, forgotten
  <2>3. ASSUME NEW j \in 1..ScrollUpLen
        PROVE  ScrollUpCells[j] = cells[j + forgotten]
    <3>1. j \in 1..Len(kept)
      <4>1. Len(kept) = ScrollUpLen + rows - 1
        BY <1>3
      <4>. QED  BY <1>1, <1>2, <4>1
    <3>2. Append(kept, Blank)[j] = kept[j]
      BY <2>2, <3>1
    <3>3. kept[j] = cells[j + forgotten]
      BY <1>3, <3>1
    <3>. QED  BY <2>1, <3>2, <3>3
  <2>4. ~ \E y \in scroll_bottom + 1..rows - 1 : TRUE
    BY <1>1, <1>5
  <2>. QED  BY <2>3, <2>4 DEF forgotten
<1>6. CASE ~(scroll_bottom >= VisibleLen - 1)
  <2>. DEFINE at == ScrollUpLen + scroll_bottom + 1
  <2>1. ScrollUpCells = InsertAt(kept, at, Blank)
    BY <1>6 DEF ScrollUpCells
  <2>. HIDE DEF kept, forgotten
  <2>2. at \in 1..Len(kept) + 1
    BY <1>1, <1>2, <1>3, <1>6
  <2>3. \A k \in 1..Len(kept) + 1 :
          ScrollUpCells[k] = IF k < at THEN kept[k] ELSE IF k = at THEN Blank ELSE kept[k - 1]
    <3>. HIDE DEF at
    <3>. QED  BY <1>3, <1>4, <2>1, <2>2, InsertAtElem
  <2>4. ASSUME NEW j \in 1..ScrollUpLen
        PROVE  ScrollUpCells[j] = cells[j + forgotten]
    <3>1. j \in 1..Len(kept) /\ j \in 1..Len(kept) + 1 /\ j < at
      <4>1. Len(kept) = ScrollUpLen + rows - 1
        BY <1>3
      <4>. QED  BY <1>1, <1>2, <4>1
    <3>2. ScrollUpCells[j] = kept[j]
      BY <2>3, <3>1
    <3>3. kept[j] = cells[j + forgotten]
      BY <1>3, <3>1
    <3>. QED  BY <3>2, <3>3
  <2>5. ASSUME NEW y \in scroll_bottom + 1..rows - 1
        PROVE  ScrollUpCells[ScrollUpLen + y + 1] = cells[VisibleIndex(y)]
    <3>1. /\ ScrollUpLen + y + 1 \in 1..Len(kept) + 1 /\ ScrollUpLen + y + 1 > at
          /\ ScrollUpLen + y \in 1..Len(kept)
      <4>1. Len(kept) = ScrollUpLen + rows - 1
        BY <1>3
      <4>2. y \in Nat /\ y > scroll_bottom /\ y < rows
        BY <1>1
      <4>. QED  BY <1>1, <1>2, <4>1, <4>2
    <3>2. ScrollUpCells[ScrollUpLen + y + 1] = kept[ScrollUpLen + y]
      <4>. HIDE DEF at
      <4>1. at \in Nat /\ ~(ScrollUpLen + y + 1 < at) /\ ScrollUpLen + y + 1 # at
        BY <1>3, <2>2, <3>1
      <4>2. (ScrollUpLen + y + 1) - 1 = ScrollUpLen + y
        BY <1>1, <1>2
      <4>. QED  BY <2>3, <3>1, <4>1, <4>2
    <3>3. kept[ScrollUpLen + y] = cells[ScrollUpLen + y + forgotten]
      BY <1>3, <3>1
    <3>4. ScrollUpLen + y + forgotten = VisibleIndex(y)
      BY <1>1, <1>2 DEF VisibleIndex
    <3>. QED  BY <3>2, <3>3, <3>4
  <2>. QED  BY <2>4, <2>5 DEF forgotten
<1>. QED  BY <1>5, <1>6

\* Grid::scroll_up that does not capture moves rows within the region.
LEMMA ScrollUpInside ==
  ASSUME IInv, ~Captures
  PROVE  /\ ScrollUpLen = scrollback_len /\ ScrollUpPending = pending_start
         /\ ScrollUpCells = Rotate(scroll_top, scroll_bottom)
BY BufferFacts DEF ScrollUpLen, ScrollUpPending, ScrollUpCells

\* The lines of the history and the ones not handed over yet stay.
HistoryKept ==
  /\ History' = History
  /\ (scrollback_len - pending_start)' = scrollback_len - pending_start

\* ... which is so when the boundary and the rows before it stay.
LEMMA KeepsHistory ==
  ASSUME IInv, IInv', scrollback_len' = scrollback_len, pending_start' = pending_start,
         \A j \in 1..scrollback_len : cells'[j] = cells[j]
  PROVE  HistoryKept
<1>1. /\ cells \in Seq(Row) /\ scrollback_len \in Nat /\ scrollback_len <= Len(cells)
      /\ cells' \in Seq(Row) /\ scrollback_len <= Len(cells')
  <2>1. /\ cells' \in Seq(Row) /\ scrollback_len' <= Len(cells')
    BY NextBufferFacts
  <2>. QED  BY <2>1, BufferFacts
<1>2. SubSeq(cells', 1, scrollback_len) = SubSeq(cells, 1, scrollback_len)
  BY <1>1, SamePrefix
<1>. QED  BY <1>2 DEF HistoryKept, History

\* A step whose history is the one scroll_up leaves is the abstract ScrollOff
\* of the top row if scroll_up captures, and keeps the history if not.
LEMMA ScrollUpHistory ==
  ASSUME IInv, IInv', scrollback_len' = ScrollUpLen, pending_start' = ScrollUpPending,
         \A j \in 1..ScrollUpLen : cells'[j] = ScrollUpCells[j]
  PROVE  \/ HistoryKept
         \/ ~in_alt_screen /\ \E line \in Row : Abstract!ScrollOff(line)
<1>1. /\ cells \in Seq(Row) /\ scrollback_len \in Nat /\ rows \in Nat \ {0}
      /\ Len(cells) = scrollback_len + rows
      /\ pending_start \in Nat /\ pending_start <= scrollback_len
      /\ scrollback_len <= Limit /\ Limit \in Nat
      /\ scroll_top \in Nat /\ scroll_bottom \in Nat
      /\ scroll_top <= scroll_bottom /\ scroll_bottom < rows
  BY BufferFacts
<1>2. CASE ~Captures
  <2>1. scroll_top \in 0..rows - 1 /\ scroll_bottom \in 0..rows - 1
    BY <1>1
  <2>2. \A j \in 1..scrollback_len : Rotate(scroll_top, scroll_bottom)[j] = cells[j]
    <3>. TAKE j \in 1..scrollback_len
    <3>1. /\ j \in 1..Len(cells)
          /\ j < VisibleIndex(scroll_top) /\ j < VisibleIndex(scroll_bottom)
      BY <1>1 DEF VisibleIndex
    <3>. QED  BY <2>1, <3>1, RotateElem
  <2>. QED  BY <1>2, <2>2, ScrollUpInside, KeepsHistory
<1>3. CASE Captures
  <2>. DEFINE line == cells[scrollback_len + 1]
              forgotten == IF Overflows THEN 1 ELSE 0
  <2>1. scrollback_limit = Limit /\ Limit > 0 /\ ~in_alt_screen
    BY <1>3 DEF Captures, IInv, AltConsistent
  <2>2. line \in Row
    BY <1>1, ElementOfSeq
  <2>3. \A j \in 1..ScrollUpLen : cells'[j] = cells[j + forgotten]
    BY <1>3, ScrollUpCaptured
  <2>4. /\ cells' \in Seq(Row) /\ scrollback_len' \in Nat /\ scrollback_len' \in 0..Len(cells')
    BY NextBufferFacts
  <2>5. /\ History' \in Seq(Row) /\ Len(History') = ScrollUpLen
        /\ \A j \in 1..ScrollUpLen : History'[j] = cells[j + forgotten]
    <3>1. History' = SubSeq(cells', 1, scrollback_len')
      BY DEF History
    <3>. QED  BY <2>3, <2>4, <3>1, PrefixOf, PrefixElem
  <2>6. /\ History \in Seq(Row) /\ Len(History) = scrollback_len
        /\ \A j \in 1..scrollback_len : History[j] = cells[j]
    <3>1. scrollback_len \in 0..Len(cells)
      BY <1>1
    <3>. QED  BY <1>1, <3>1, PrefixOf, PrefixElem DEF History
  <2>7. CASE ~Overflows
    <3>1. ScrollUpLen = scrollback_len + 1 /\ scrollback_len < Limit
      BY <1>1, <1>3, <2>1, <2>7 DEF ScrollUpLen, Overflows
    <3>2. /\ Append(History, line) \in Seq(Row) /\ Len(Append(History, line)) = scrollback_len + 1
          /\ \A j \in 1..scrollback_len : Append(History, line)[j] = History[j]
          /\ Append(History, line)[scrollback_len + 1] = line
      BY <2>2, <2>6, AppendProperties
    <3>3. \A j \in 1..ScrollUpLen : History'[j] = Append(History, line)[j]
      BY <1>1, <2>5, <2>6, <2>7, <3>1, <3>2
    <3>4. History' = Append(History, line)
      BY <2>5, <3>1, <3>2, <3>3, SeqEqual
    <3>5. (scrollback_len - pending_start)' = (scrollback_len - pending_start) + 1
      BY <1>1, <2>7, <3>1 DEF ScrollUpPending
    <3>6. Abstract!ScrollOff(line)
      BY <2>1, <2>6, <3>1, <3>4, <3>5 DEF Abstract!ScrollOff
    <3>. QED  BY <2>1, <2>2, <3>6
  <2>8. CASE Overflows
    <3>1. ScrollUpLen = scrollback_len /\ scrollback_len = Limit
      BY <1>1, <1>3, <2>1, <2>8 DEF ScrollUpLen, Overflows
    <3>2. /\ Tail(History) \in Seq(Row) /\ Len(Tail(History)) = scrollback_len - 1
          /\ \A j \in 1..scrollback_len - 1 : Tail(History)[j] = History[j + 1]
      <4>1. History # << >>
        BY <2>1, <2>6, <3>1, EmptySeq
      <4>. QED  BY <2>6, <4>1, HeadTailProperties
    <3>3. /\ Append(Tail(History), line) \in Seq(Row)
          /\ Len(Append(Tail(History), line)) = scrollback_len
          /\ \A j \in 1..scrollback_len - 1 : Append(Tail(History), line)[j] = Tail(History)[j]
          /\ Append(Tail(History), line)[scrollback_len] = line
      <4>1. Len(Tail(History)) + 1 = scrollback_len
        BY <1>1, <3>2
      <4>. QED  BY <2>2, <3>2, <4>1, AppendProperties
    <3>4. \A j \in 1..ScrollUpLen : History'[j] = Append(Tail(History), line)[j]
      BY <1>1, <2>5, <2>6, <2>8, <3>1, <3>2, <3>3
    <3>5. History' = Append(Tail(History), line)
      BY <2>5, <3>1, <3>3, <3>4, SeqEqual
    <3>6. (scrollback_len - pending_start)' =
            IF scrollback_len - pending_start < Limit
              THEN (scrollback_len - pending_start) + 1 ELSE scrollback_len - pending_start
      BY <1>1, <1>3, <2>8, <3>1 DEF ScrollUpPending
    <3>7. Abstract!ScrollOff(line)
      BY <1>1, <2>1, <2>6, <3>1, <3>5, <3>6 DEF Abstract!ScrollOff
    <3>. QED  BY <2>1, <2>2, <3>7
  <2>. QED  BY <2>7, <2>8
<1>. QED  BY <1>2, <1>3

\* Moving a row within the screen keeps the history.
LEMMA RotateHistory ==
  ASSUME IInv, IInv', NEW from \in 0..rows - 1, NEW to \in 0..rows - 1,
         cells' \in {cells, Rotate(from, to)}, UNCHANGED <<scrollback_len, pending_start>>
  PROVE  HistoryKept
<1>1. \A j \in 1..scrollback_len : Rotate(from, to)[j] = cells[j]
  <2>. TAKE j \in 1..scrollback_len
  <2>1. j \in 1..Len(cells) /\ j < VisibleIndex(from) /\ j < VisibleIndex(to)
    <3>1. scrollback_len \in Nat /\ Len(cells) \in Nat /\ scrollback_len <= Len(cells)
      BY BufferFacts
    <3>. QED  BY <3>1 DEF VisibleIndex
  <2>. QED  BY <2>1, RotateElem
<1>2. ASSUME NEW j \in 1..scrollback_len PROVE cells'[j] = cells[j]
  BY <1>1
<1>. QED  BY <1>2, KeepsHistory

\* print: the row that changes is behind the history.
LEMMA PrintCharHistory ==
  ASSUME IInv, IInv', NEW wrap \in BOOLEAN, NEW line \in Row, PrintChar(wrap, line)
  PROVE  \/ HistoryKept
         \/ ~in_alt_screen /\ \E l \in Row : Abstract!ScrollOff(l)
<1>. DEFINE scrolls == wrap /\ cursor_y = scroll_bottom
            moves   == wrap /\ ~scrolls /\ cursor_y < rows - 1
            base    == IF scrolls THEN ScrollUpCells ELSE cells
            len     == IF scrolls THEN ScrollUpLen ELSE scrollback_len
            start   == IF scrolls THEN ScrollUpPending ELSE pending_start
            y       == IF moves THEN cursor_y + 1 ELSE cursor_y
<1>1. BufferOK(base, len, start, rows)
  <2>1. BufferOK(cells, scrollback_len, pending_start, rows)
    BY BufferFacts DEF BufferOK
  <2>. QED  BY <2>1, ScrollUpOK
<1>2. y \in Nat /\ y < rows
  BY BufferFacts
<1>3. /\ cells' = [base EXCEPT ![len + y + 1] = line]
      /\ scrollback_len' = len /\ pending_start' = start
  BY DEF PrintChar
<1>4. \A j \in 1..len : cells'[j] = base[j]
  <2>. HIDE DEF base, len, start, y
  <2>1. len + y + 1 \in 1..Len(base) /\ 1..len \subseteq 1..Len(base) /\ len + y + 1 \notin 1..len
    BY <1>1, <1>2, BufferFacts DEF BufferOK
  <2>2. base \in Seq(Row)
    BY <1>1 DEF BufferOK
  <2>3. \A j \in 1..Len(base) : cells'[j] = IF j = len + y + 1 THEN line ELSE base[j]
    BY <1>3, <2>1, <2>2, ExceptSeq
  <2>. QED  BY <2>1, <2>3
<1>5. CASE scrolls
  BY <1>3, <1>4, <1>5, ScrollUpHistory
<1>6. CASE ~scrolls
  BY <1>3, <1>4, <1>6, KeepsHistory
<1>. QED  BY <1>5, <1>6

\* The sequences that scroll: LF, RI and the rounds of SU, SD, DL and IL.
LEMMA ScrollingHistory ==
  ASSUME IInv, IInv', LineFeed \/ ReverseIndex \/ RepeatStep
  PROVE  \/ HistoryKept
         \/ ~in_alt_screen /\ \E line \in Row : Abstract!ScrollOff(line)
<1>1. /\ scroll_top \in 0..rows - 1 /\ scroll_bottom \in 0..rows - 1
      /\ cursor_y \in 0..rows - 1
  BY BufferFacts
<1>2. CASE ScrollUp
  BY <1>2, ScrollUpHistory DEF ScrollUp
<1>3. CASE ScrollDown
  BY <1>1, <1>3, RotateHistory DEF ScrollDown
<1>4. CASE MoveRow(cursor_y, scroll_bottom) \/ MoveRow(scroll_bottom, cursor_y)
  BY <1>1, <1>4, RotateHistory DEF MoveRow
<1>5. CASE UNCHANGED buffer
  BY <1>5 DEF buffer, HistoryKept, History
<1>. QED
  BY <1>2, <1>3, <1>4, <1>5 DEF LineFeed, ReverseIndex, RepeatStep, Round

\* Actions of the application that replace visible rows only.
LEMMA VisibleOnlyHistory ==
  ASSUME IInv, IInv',
         \/ \E mode \in 0..2, line \in Row : EraseDisplay(mode, line)
         \/ \E line \in Lines : ScreenAlignment(line)
         \/ \E save \in BOOLEAN : EnterAltScreen(save)
         \/ \E restore \in BOOLEAN : ExitAltScreen(restore)
  PROVE  HistoryKept
<1>1. /\ History \in Seq(Row) /\ Len(History) = scrollback_len
      /\ \A j \in 1..scrollback_len : History[j] = cells[j]
  <2>1. scrollback_len \in 0..Len(cells)
    BY BufferFacts
  <2>. QED  BY <2>1, BufferFacts, PartsOK, PrefixElem DEF History
<1>2. ASSUME NEW visible \in Seq(Row)
      PROVE  /\ History \o visible \in Seq(Row) /\ Len(History \o visible) >= scrollback_len
             /\ \A j \in 1..scrollback_len : (History \o visible)[j] = cells[j]
  <2>1. Len(visible) \in Nat
    BY LenProperties
  <2>2. /\ History \o visible \in Seq(Row)
        /\ Len(History \o visible) = scrollback_len + Len(visible)
        /\ \A j \in 1..scrollback_len + Len(visible) :
             (History \o visible)[j] =
               IF j <= scrollback_len THEN History[j] ELSE visible[j - scrollback_len]
    BY <1>1, ConcatProperties
  <2>. QED  BY <1>1, <2>1, <2>2, BufferFacts
<1>3. ASSUME NEW mode \in 0..2, NEW line \in Row, EraseDisplay(mode, line)
      PROVE  HistoryKept
  <2>1. ASSUME NEW from \in Nat, NEW to \in Int, NEW j \in 1..scrollback_len
        PROVE  Erased(from, to, line)[j] = cells[j]
    <3>1. /\ j \in 1..Len(cells) /\ j # VisibleIndex(cursor_y)
          /\ ~(j >= VisibleIndex(from))
      BY BufferFacts DEF VisibleIndex
    <3>. QED  BY <3>1 DEF Erased
  <2>2. 0 \in Nat /\ cursor_y \in Nat /\ cursor_y \in Int /\ rows - 1 \in Int
    BY BufferFacts
  <2>3. \A j \in 1..scrollback_len : cells'[j] = cells[j]
    BY <1>3, <2>1, <2>2 DEF EraseDisplay
  <2>. QED  BY <1>3, <2>3, KeepsHistory DEF EraseDisplay
<1>4. ASSUME NEW line \in Lines, ScreenAlignment(line)
      PROVE  HistoryKept
  <2>1. [i \in 1..rows |-> line] \in Seq(Row)
    BY BufferFacts DEF Row
  <2>. QED  BY <1>2, <1>4, <2>1, KeepsHistory DEF ScreenAlignment
<1>5. ASSUME NEW save \in BOOLEAN, EnterAltScreen(save)
      PROVE  HistoryKept
  <2>1. BlankRows(rows) \in Seq(Row)
    BY BufferFacts, BlankRowsLen
  <2>. QED  BY <1>2, <1>5, <2>1, KeepsHistory DEF EnterAltScreen
<1>6. ASSUME NEW restore \in BOOLEAN, ExitAltScreen(restore)
      PROVE  HistoryKept
  <2>1. saved_grid # None /\ saved_grid.visible \in Seq(Row)
    BY <1>6 DEF ExitAltScreen, IInv, TypeOK, AltConsistent, SavedGrid
  <2>. DEFINE all == History \o saved_grid.visible
  <2>2. cells' = FitRows(all, scrollback_len, rows)
    BY <1>6, <2>1 DEF ExitAltScreen
  <2>3. /\ all \in Seq(Row) /\ Len(all) >= scrollback_len
        /\ \A j \in 1..scrollback_len : all[j] = cells[j]
    BY <1>2, <2>1
  <2>. HIDE DEF all
  <2>4. scrollback_len <= Len(all) /\ rows \in Nat /\ scrollback_len \in Nat
    BY <2>3, BufferFacts, LenProperties
  <2>5. \A j \in 1..scrollback_len : cells'[j] = cells[j]
    BY <2>2, <2>3, <2>4, FitRowsElem
  <2>. QED  BY <1>6, <2>5, KeepsHistory DEF ExitAltScreen
<1>. QED  BY <1>3, <1>4, <1>5, <1>6

\* ED 3 and RIS are the abstract Clear.
LEMMA ClearHistory ==
  ASSUME IInv, EraseSavedLines \/ FullReset
  PROVE  Abstract!Clear
<1>1. scrollback_len' = 0 /\ pending_start' = 0
  BY DEF EraseSavedLines, FullReset, ClearScrollback
<1>2. SubSeq(cells', 1, 0) = << >>
  BY SubSeqEmpty
<1>3. (scrollback_len - pending_start)' = 0
  BY <1>1
<1>. QED  BY <1>1, <1>2, <1>3 DEF Abstract!Clear, History

\* Screen::resize takes the newest lines back, never in the alternate screen.
LEMMA ResizeHistory ==
  ASSUME IInv, IInv', NEW n \in Sizes, Resize(n)
  PROVE  IF TakenBack(Sanitize(n)) > 0
           THEN ~in_alt_screen /\ \E k \in 1..Len(History) : Abstract!TakeBack(k)
           ELSE HistoryKept
<1>. DEFINE r     == Sanitize(n)
            count == TakenBack(r)
            len   == scrollback_len - count
<1>1. r \in Nat \ {0}
  BY SizesAssumption DEF Sanitize, Larger
<1>2. count \in 0..scrollback_len /\ (in_alt_screen => count = 0)
  BY <1>1, BufferFacts DEF TakenBack, Smaller
<1>3. /\ scrollback_len' = len /\ pending_start' = Smaller(pending_start, len)
      /\ cells' = FitRows(cells, len, r)
  BY DEF Resize
<1>. HIDE DEF r, count
<1>4. len \in Nat /\ len <= scrollback_len /\ len <= Len(cells)
  BY <1>2, BufferFacts
<1>5. \A j \in 1..len : cells'[j] = cells[j]
  BY <1>1, <1>3, <1>4, BufferFacts, FitRowsElem
<1>6. CASE count = 0
  <2>1. len = scrollback_len /\ Smaller(pending_start, len) = pending_start
    BY <1>6, BufferFacts DEF Smaller
  <2>2. HistoryKept
    BY <1>3, <1>5, <2>1, KeepsHistory
  <2>. QED  BY <1>6, <2>2 DEF r, count
<1>7. CASE count # 0
  <2>1. ~in_alt_screen /\ count \in 1..Len(History) /\ Len(History) = scrollback_len
    BY <1>2, <1>7, PartsOK, BufferFacts
  <2>2. History' = SubSeq(cells, 1, len)
    <3>1. cells' \in Seq(Row) /\ len <= Len(cells')
      BY <1>3, NextBufferFacts
    <3>2. SubSeq(cells', 1, len) = SubSeq(cells, 1, len)
      BY <1>4, <1>5, <3>1, BufferFacts, SamePrefix
    <3>. QED  BY <1>3, <3>2 DEF History
  <2>3. SubSeq(History, 1, len) = SubSeq(cells, 1, len)
    <3>1. scrollback_len \in 0..Len(cells)
      BY BufferFacts
    <3>2. /\ History \in Seq(Row) /\ \A j \in 1..scrollback_len : History[j] = cells[j]
      BY <3>1, PartsOK, PrefixElem, BufferFacts DEF History
    <3>3. \A j \in 1..len : History[j] = cells[j]
      BY <1>4, <3>2, BufferFacts, SMTT(30)
    <3>. QED  BY <1>4, <2>1, <3>2, <3>3, BufferFacts, SamePrefix, SMTT(30)
  <2>4. (scrollback_len - pending_start)' =
          IF count < scrollback_len - pending_start
            THEN scrollback_len - pending_start - count ELSE 0
    BY <1>2, <1>3, BufferFacts DEF Smaller
  <2>5. Abstract!TakeBack(count)
    BY <2>1, <2>2, <2>3, <2>4 DEF Abstract!TakeBack
  <2>6. count > 0
    BY <2>1
  <2>. QED  BY <2>1, <2>5, <2>6 DEF r, count
<1>. QED  BY <1>6, <1>7

\* What the application does to the history.
LEMMA ApplicationHistory ==
  ASSUME IInv, IInv', Application
  PROVE  \/ HistoryKept
         \/ ~in_alt_screen /\ \E line \in Row : Abstract!ScrollOff(line)
         \/ Abstract!Clear
<1>1. CASE UNCHANGED buffer
  BY <1>1 DEF buffer, HistoryKept, History
<1>2. ASSUME NEW n \in Params,
             \/ CursorUp(n) \/ CursorDown(n) \/ CursorPosition(n)
             \/ ScrollUpN(n) \/ ScrollDownN(n) \/ DeleteLines(n) \/ InsertLines(n)
      PROVE  UNCHANGED buffer
  BY <1>2 DEF CursorUp, CursorDown, CursorPosition, MoveCursor, ScrollUpN, ScrollDownN,
     DeleteLines, InsertLines, StartRepeat
<1>3. ASSUME \/ SaveCursor
             \/ RestoreCursor
             \/ \E enable \in BOOLEAN : SetOriginMode(enable)
             \/ \E r \in Regions : SetScrollingRegion(r[1], r[2])
      PROVE  UNCHANGED buffer
  BY <1>3 DEF SaveCursor, RestoreCursor, SetOriginMode, SetScrollingRegion
<1>. QED
  BY <1>1, <1>2, <1>3, PrintCharHistory, ScrollingHistory, VisibleOnlyHistory,
     ClearHistory, ZenonT(30) DEF Application

\* What any step does to the history: the abstract actions, and the two that
\* move single lines only while the main screen is shown.
LEMMA StepHistory ==
  ASSUME IInv, IInv', [Next]_vars
  PROVE  \/ HistoryKept
         \/ ~in_alt_screen /\ \E line \in Row : Abstract!ScrollOff(line)
         \/ Abstract!Deliver
         \/ Abstract!Clear
         \/ ~in_alt_screen /\ \E k \in 1..Len(History) : Abstract!TakeBack(k)
<1>1. CASE UNCHANGED buffer
  BY <1>1 DEF buffer, HistoryKept, History
<1>2. CASE TakeAndRender
  <2>1. (scrollback_len - pending_start)' = 0
    BY <1>2, BufferFacts DEF TakeAndRender
  <2>. QED  BY <1>2, <2>1 DEF TakeAndRender, Abstract!Deliver, History
<1>3. CASE \E n \in Sizes : Resize(n)
  BY <1>3, ResizeHistory
<1>4. CASE Application
  BY <1>4, ApplicationHistory
<1>5. CASE UNCHANGED vars
  BY <1>1, <1>5 DEF vars
<1>. QED  BY <1>2, <1>3, <1>4, <1>5 DEF Next

-----------------------------------------------------------------------------
\* The unified buffer of Grid with its two indices implements the abstract
\* scrollback: every step is a step of it or leaves it alone. Lines enter the
\* history in the order they leave the screen, are handed over once, and leave
\* only by the limit, by ED 3 or RIS, or back onto a taller screen.
THEOREM Refinement == Spec => ImplementsScrollback
<1>1. Init => Abstract!Init
  <2>. SUFFICES ASSUME Init PROVE Abstract!Init
    OBVIOUS
  <2>1. SubSeq(cells, 1, 0) = << >>
    BY SubSeqEmpty
  <2>. QED  BY <2>1 DEF Init, Abstract!Init, History
<1>2. IInv /\ IInv' /\ [Next]_vars => [Abstract!Next]_Abstract!vars
  BY StepHistory, Zenon DEF HistoryKept, Abstract!Next, Abstract!vars
<1>. QED  BY <1>1, <1>2, Invariance, PTL DEF Spec, ImplementsScrollback, Abstract!Spec

\* Scrollback passthrough is paused in the alternate screen: a step taken there
\* keeps every line of the history, or erases them all.
THEOREM AltFreezesHistoryHolds == Spec => AltFreezesHistory
<1>1. IInv /\ IInv' /\ [Next]_vars =>
        [in_alt_screen /\ in_alt_screen' => History' \in {History, << >>}]_vars
  BY StepHistory DEF HistoryKept, Abstract!Deliver, Abstract!Clear
<1>. QED  BY <1>1, Invariance, PTL DEF Spec, AltFreezesHistory

-----------------------------------------------------------------------------
(* The rows outside the scroll region.                                     *)

\* The row the client sees at y.
LEMMA VisibleElem ==
  ASSUME NEW buf \in Seq(Row), NEW len \in Nat, NEW r \in Nat, Len(buf) = len + r,
         NEW y \in 0..r - 1
  PROVE  SubSeq(buf, len + 1, Len(buf))[y + 1] = buf[len + y + 1]
<1>1. len + 1 \in 1..Len(buf) + 1 /\ y + 1 \in 1..Len(buf) - (len + 1) + 1
  OBVIOUS
<1>2. (len + 1) + (y + 1) - 1 = len + y + 1
  OBVIOUS
<1>. QED  BY <1>1, <1>2, SuffixElem

\* Moving a row between two places of the region leaves the others.
LEMMA RotateOutside ==
  ASSUME IInv, NEW from \in scroll_top..scroll_bottom, NEW to \in scroll_top..scroll_bottom,
         NEW y \in 0..rows - 1, y < scroll_top \/ y > scroll_bottom
  PROVE  Rotate(from, to)[VisibleIndex(y)] = cells[VisibleIndex(y)]
<1>1. from \in 0..rows - 1 /\ to \in 0..rows - 1 /\ VisibleIndex(y) \in 1..Len(cells)
  BY BufferFacts DEF VisibleIndex
<1>2. \/ VisibleIndex(y) < VisibleIndex(from) /\ VisibleIndex(y) < VisibleIndex(to)
      \/ VisibleIndex(y) > VisibleIndex(from) /\ VisibleIndex(y) > VisibleIndex(to)
  <2>1. /\ scrollback_len \in Nat /\ scroll_top \in Nat /\ scroll_bottom \in Nat
        /\ from \in Nat /\ to \in Nat /\ y \in Nat
        /\ scroll_top <= from /\ from <= scroll_bottom
        /\ scroll_top <= to /\ to <= scroll_bottom
    BY BufferFacts
  <2>2. CASE y < scroll_top
    BY <2>1, <2>2 DEF VisibleIndex
  <2>3. CASE y > scroll_bottom
    BY <2>1, <2>3 DEF VisibleIndex
  <2>. QED  BY <2>2, <2>3
<1>. QED  BY <1>1, <1>2, RotateElem

\* Grid::scroll_up, by whichever of its ways, leaves the rows outside.
LEMMA ScrollUpOutside ==
  ASSUME IInv, NEW y \in 0..rows - 1, y < scroll_top \/ y > scroll_bottom
  PROVE  ScrollUpCells[ScrollUpLen + y + 1] = cells[VisibleIndex(y)]
<1>1. CASE Captures
  <2>1. y \in scroll_bottom + 1..rows - 1
    BY <1>1, BufferFacts DEF Captures
  <2>. QED  BY <1>1, <2>1, ScrollUpCaptured
<1>2. CASE ~Captures
  <2>1. scroll_top \in scroll_top..scroll_bottom /\ scroll_bottom \in scroll_top..scroll_bottom
    BY BufferFacts
  <2>2. ScrollUpLen + y + 1 = VisibleIndex(y)
    BY <1>2, ScrollUpInside DEF VisibleIndex
  <2>. QED  BY <1>2, <2>1, <2>2, ScrollUpInside, RotateOutside
<1>. QED  BY <1>1, <1>2

\* A scrolling step leaves every visible row outside the region.
LEMMA StepOutside ==
  ASSUME IInv, IInv', LineFeed \/ ReverseIndex \/ RepeatStep,
         NEW y \in 0..rows - 1, y < scroll_top \/ y > scroll_bottom
  PROVE  Visible'[y + 1] = Visible[y + 1]
<1>1. rows' = rows
  BY DEF LineFeed, ReverseIndex, RepeatStep
<1>2. scroll_top \in scroll_top..scroll_bottom /\ scroll_bottom \in scroll_top..scroll_bottom
  BY BufferFacts
<1>3. cells'[scrollback_len' + y + 1] = cells[VisibleIndex(y)]
  <2>1. CASE ScrollUp
    BY <2>1, ScrollUpOutside DEF ScrollUp
  <2>2. CASE ScrollDown
    BY <1>2, <2>2, RotateOutside DEF ScrollDown, VisibleIndex
  <2>3. CASE repeat.op = "delete_lines" /\ MoveRow(cursor_y, scroll_bottom)
    <3>1. cursor_y \in scroll_top..scroll_bottom
      BY <2>3, BufferFacts DEF IInv, LoopInRegion, CursorInRegion
    <3>. QED  BY <1>2, <2>3, <3>1, RotateOutside DEF MoveRow, VisibleIndex
  <2>4. CASE repeat.op = "insert_lines" /\ MoveRow(scroll_bottom, cursor_y)
    <3>1. cursor_y \in scroll_top..scroll_bottom
      BY <2>4, BufferFacts DEF IInv, LoopInRegion, CursorInRegion
    <3>. QED  BY <1>2, <2>4, <3>1, RotateOutside DEF MoveRow, VisibleIndex
  <2>5. CASE UNCHANGED buffer
    BY <2>5 DEF buffer, VisibleIndex
  <2>. QED
    BY <2>1, <2>2, <2>3, <2>4, <2>5 DEF LineFeed, ReverseIndex, RepeatStep, Round
<1>4. Visible[y + 1] = cells[VisibleIndex(y)]
  <2>1. rows \in Nat
    BY BufferFacts
  <2>. QED  BY <2>1, BufferFacts, VisibleElem DEF Visible, VisibleIndex
<1>5. Visible'[y + 1] = cells'[scrollback_len' + y + 1]
  <2>1. /\ cells' \in Seq(Row) /\ scrollback_len' \in Nat /\ rows' \in Nat
        /\ Len(cells') = scrollback_len' + rows' /\ y \in 0..rows' - 1
    BY <1>1, NextBufferFacts
  <2>2. SubSeq(cells', scrollback_len' + 1, Len(cells'))[y + 1] = cells'[scrollback_len' + y + 1]
    BY <2>1, VisibleElem
  <2>. QED  BY <2>2 DEF Visible
<1>. QED  BY <1>3, <1>4, <1>5

\* Scrolling, by whichever of the three ways Grid moves rows, leaves every row
\* outside the scroll region where the client sees it, also when the boundary
\* of the history or the whole buffer shifts under it.
THEOREM RegionContainedHolds == Spec => RegionContained
<1>1. IInv /\ IInv' /\ [Next]_vars =>
        [LineFeed \/ ReverseIndex \/ RepeatStep =>
           \A y \in 0..rows - 1 :
             y < scroll_top \/ y > scroll_bottom => Visible'[y + 1] = Visible[y + 1]]_vars
  BY StepOutside
<1>. QED  BY <1>1, Invariance, PTL DEF Spec, RegionContained

-----------------------------------------------------------------------------
(* The native scrollback of the terminal. *)

Entry == [line : Row, behind : SUBSET Foreign]

Following == native # None /\ ~clear_native => Follows

(* The inductive invariant of the screen with its terminal. While an ED 3  *)
(* is on its way nothing of the history has been handed over, so that the  *)
(* update which carries it carries the whole history too.                  *)
NativeIInv ==
  /\ IInv
  /\ native # None => native \in Seq(Entry)
  /\ clear_native => pending_start = 0
  /\ Following

\* Lines as a terminal gets them.
LEMMA EntriesOK ==
  ASSUME NEW s \in Seq(Row)
  PROVE  /\ Entries(s) \in Seq(Entry) /\ Len(Entries(s)) = Len(s)
         /\ \A i \in 1..Len(s) :
              Entries(s)[i].line = s[i] /\ Entries(s)[i].behind = {}
<1>1. Len(s) \in Nat /\ \A i \in 1..Len(s) : s[i] \in Row
  BY LenProperties, ElementOfSeq
<1>2. \A i \in 1..Len(s) : [line |-> s[i], behind |-> {}] \in Entry
  BY <1>1 DEF Entry
<1>3. Entries(s) \in Seq(Entry) /\ Len(Entries(s)) = Len(s)
  BY <1>1, <1>2 DEF Entries
<1>4. ASSUME NEW i \in 1..Len(s)
      PROVE  Entries(s)[i].line = s[i] /\ Entries(s)[i].behind = {}
  <2>1. Entries(s)[i] = [line |-> s[i], behind |-> {}]
    BY DEF Entries
  <2>. QED  BY <2>1
<1>. QED  BY <1>3, <1>4

\* Rows of another kind leave the lines as they are.
LEMMA FollowedOK ==
  ASSUME NEW s \in Seq(Entry), NEW kind \in Foreign
  PROVE  /\ Followed(s, kind) \in Seq(Entry) /\ Len(Followed(s, kind)) = Len(s)
         /\ \A i \in 1..Len(s) :
              /\ Followed(s, kind)[i].line = s[i].line
              /\ Followed(s, kind)[i].behind \subseteq s[i].behind \cup {kind}
<1>1. Len(s) \in Nat /\ \A i \in 1..Len(s) : s[i] \in Entry
  BY LenProperties, ElementOfSeq
<1>. DEFINE more(i) == [s[i] EXCEPT !.behind = @ \cup {kind}]
            one(i) == IF i = Len(s) THEN more(i) ELSE s[i]
<1>2. ASSUME NEW i \in 1..Len(s)
      PROVE  /\ more(i) \in Entry /\ more(i).line = s[i].line
             /\ more(i).behind = s[i].behind \cup {kind}
  BY <1>1 DEF Entry
<1>3. ASSUME NEW i \in 1..Len(s)
      PROVE  /\ one(i) \in Entry /\ one(i).line = s[i].line
             /\ one(i).behind \subseteq s[i].behind \cup {kind}
  BY <1>1, <1>2
<1>. HIDE DEF one
<1>4. Followed(s, kind) = [i \in 1..Len(s) |-> one(i)]
  BY DEF Followed, one
<1>5. Followed(s, kind) \in Seq(Entry) /\ Len(Followed(s, kind)) = Len(s)
  BY <1>1, <1>3, <1>4
<1>. QED  BY <1>3, <1>4, <1>5

\* A terminal keeps its newest Limit lines, in their places from the end.
LEMMA NewestOK ==
  ASSUME NEW s \in Seq(Entry)
  PROVE  /\ Newest(s) \in Seq(Entry)
         /\ Len(Newest(s)) = Smaller(Len(s), Limit)
         /\ \A i \in 1..Len(Newest(s)) : Newest(s)[i] = s[Len(s) - Len(Newest(s)) + i]
<1>1. Len(s) \in Nat /\ Limit \in Nat
  BY LenProperties, LimitAssumption
<1>. DEFINE m == Larger(1, Len(s) - Limit + 1)
            u == SubSeq(s, m, Len(s))
<1>2. m \in 1..Len(s) + 1 /\ Len(s) - m + 1 = Smaller(Len(s), Limit)
  <2>1. CASE Len(s) > Limit
    <3>1. m = Len(s) - Limit + 1
      BY <1>1, <2>1 DEF Larger
    <3>. QED  BY <1>1, <2>1, <3>1 DEF Smaller
  <2>2. CASE ~(Len(s) > Limit)
    <3>1. m = 1
      BY <1>1, <2>2 DEF Larger
    <3>. QED  BY <1>1, <2>2, <3>1 DEF Smaller
  <2>. QED  BY <2>1, <2>2
<1>. HIDE DEF m
<1>3. /\ u \in Seq(Entry) /\ Len(u) = Len(s) - m + 1
      /\ \A i \in 1..Len(s) - m + 1 : u[i] = s[m + i - 1]
  BY <1>2, SuffixOf, SuffixElem
<1>4. Newest(s) = u
  BY DEF Newest, m
<1>5. \A i \in 1..Len(u) : m + i - 1 = Len(s) - Len(u) + i
  BY <1>1, <1>2, <1>3
<1>. HIDE DEF u
<1>. QED  BY <1>2, <1>3, <1>4, <1>5

\* The application, and a resize that takes nothing back, can only forget the
\* oldest of the lines handed over: through the abstract scrollback.
LEMMA HandedStep ==
  ASSUME IInv, IInv',
         \/ HistoryKept
         \/ \E line \in Row : Abstract!ScrollOff(line)
         \/ Abstract!Clear
  PROVE  \E d \in 0..pending_start :
           /\ pending_start' = pending_start - d
           /\ \A j \in 1..pending_start' : cells'[j] = cells[j + d]
<1>1. /\ scrollback_len \in Nat /\ pending_start \in Nat /\ pending_start <= scrollback_len
      /\ scrollback_len <= Limit /\ Limit \in Nat
  BY BufferFacts
<1>2. /\ History \in Seq(Row) /\ Len(History) = scrollback_len
      /\ \A j \in 1..scrollback_len : History[j] = cells[j]
  <2>1. scrollback_len \in 0..Len(cells)
    BY BufferFacts
  <2>. QED  BY <2>1, BufferFacts, PartsOK, PrefixElem DEF History
<1>3. PICK len \in Nat, start \in Nat :
        len = scrollback_len' /\ start = pending_start' /\ start <= len
  BY NextBufferFacts, Zenon
<1>4. /\ History' \in Seq(Row) /\ Len(History') = len
      /\ \A j \in 1..len : History'[j] = cells'[j]
  <2>1. cells' \in Seq(Row) /\ len \in 0..Len(cells')
    BY <1>3, NextBufferFacts
  <2>2. History' = SubSeq(cells', 1, len)
    BY <1>3 DEF History
  <2>. QED  BY <2>1, <2>2, PrefixOf, PrefixElem
<1>. DEFINE Forgets(d) == start = pending_start - d /\ \A j \in 1..start : cells'[j] = cells[j + d]
<1>. SUFFICES \E d \in 0..pending_start : Forgets(d)
  BY <1>3
<1>5. CASE HistoryKept
  <2>1. History' = History /\ len - start = scrollback_len - pending_start
    BY <1>3, <1>5 DEF HistoryKept
  <2>2. len = scrollback_len
    BY <1>2, <1>4, <2>1
  <2>3. start = pending_start
    BY <1>1, <2>1, <2>2
  <2>4. \A j \in 1..start : cells'[j] = cells[j + 0]
    BY <1>1, <1>2, <1>4, <2>1, <2>2, <2>3
  <2>. QED  BY <1>1, <2>3, <2>4
<1>6. ASSUME NEW line \in Row, Abstract!ScrollOff(line)
      PROVE  \E d \in 0..pending_start : Forgets(d)
  <2>1. CASE scrollback_len < Limit
    <3>1. /\ History' = Append(History, line)
          /\ len - start = scrollback_len - pending_start + 1
      BY <1>2, <1>3, <1>6, <2>1 DEF Abstract!ScrollOff
    <3>2. /\ Len(Append(History, line)) = scrollback_len + 1
          /\ \A j \in 1..scrollback_len : Append(History, line)[j] = History[j]
      BY <1>2, AppendProperties
    <3>3. len = scrollback_len + 1 /\ start = pending_start
      BY <1>1, <1>4, <3>1, <3>2
    <3>4. \A j \in 1..start : cells'[j] = cells[j + 0]
      BY <1>1, <1>2, <1>4, <3>1, <3>2, <3>3
    <3>. QED  BY <1>1, <3>3, <3>4
  <2>2. CASE ~(scrollback_len < Limit)
    <3>1. /\ Limit > 0 /\ scrollback_len = Limit
          /\ History' = Append(Tail(History), line)
          /\ len - start = IF scrollback_len - pending_start < Limit
                             THEN scrollback_len - pending_start + 1
                             ELSE scrollback_len - pending_start
      <4>1. scrollback_len = Limit
        BY <1>1, <2>2
      <4>2. (scrollback_len - pending_start)' = len - start
        BY <1>3
      <4>3. Len(History) = scrollback_len
        BY <1>2
      <4>. QED  BY <1>6, <2>2, <4>1, <4>2, <4>3, Zenon DEF Abstract!ScrollOff
    <3>2. /\ Tail(History) \in Seq(Row) /\ Len(Tail(History)) = scrollback_len - 1
          /\ \A j \in 1..scrollback_len - 1 : Tail(History)[j] = History[j + 1]
      <4>1. History # << >>
        BY <1>2, <3>1, EmptySeq
      <4>. QED  BY <1>2, <4>1, HeadTailProperties
    <3>3. /\ Len(History') = scrollback_len
          /\ \A j \in 1..scrollback_len - 1 : History'[j] = Tail(History)[j]
      <4>1. Len(Tail(History)) + 1 = scrollback_len
        BY <1>1, <3>2
      <4>. QED  BY <3>1, <3>2, <4>1, AppendProperties
    <3>4. len = scrollback_len
      BY <1>4, <3>3
    <3>5. CASE pending_start = 0
      <4>1. start = 0
        BY <1>1, <3>1, <3>4, <3>5
      <4>2. 0 \in 0..pending_start /\ Forgets(0)
        BY <3>5, <4>1
      <4>. QED  BY <4>2
    <3>6. CASE pending_start # 0
      <4>1. start = pending_start - 1
        BY <1>1, <3>1, <3>4, <3>6
      <4>2. \A j \in 1..start : cells'[j] = cells[j + 1]
        <5>. TAKE j \in 1..start
        <5>1. j \in 1..scrollback_len - 1 /\ j \in 1..len /\ j + 1 \in 1..scrollback_len
          BY <1>1, <3>4, <4>1
        <5>. QED  BY <1>2, <1>4, <3>2, <3>3, <5>1
      <4>3. 1 \in 0..pending_start
        BY <1>1, <3>6
      <4>. QED  BY <4>1, <4>2, <4>3
    <3>. QED  BY <3>5, <3>6
  <2>. QED  BY <2>1, <2>2
<1>7. CASE Abstract!Clear
  <2>1. History' = << >> /\ len - start = 0
    BY <1>3, <1>7 DEF Abstract!Clear
  <2>2. start = 0
    BY <1>4, <2>1
  <2>3. pending_start \in 0..pending_start /\ Forgets(pending_start)
    BY <1>1, <2>2
  <2>. QED  BY <2>3
<1>. QED  BY <1>5, <1>6, <1>7

\* A terminal that nothing is sent to still follows.
LEMMA NativeKept ==
  ASSUME NativeIInv, IInv', UNCHANGED native, clear_native => clear_native',
         clear_native' /\ ~clear_native => pending_start' = 0,
         \/ HistoryKept
         \/ \E line \in Row : Abstract!ScrollOff(line)
         \/ Abstract!Clear
  PROVE  NativeIInv'
<1>0. IInv
  BY DEF NativeIInv
<1>1. PICK d \in 0..pending_start :
        /\ pending_start' = pending_start - d
        /\ \A j \in 1..pending_start' : cells'[j] = cells[j + d]
  BY <1>0, HandedStep
<1>2. pending_start \in Nat /\ pending_start' \in Nat
  BY <1>0, BufferFacts, NextBufferFacts
<1>3. clear_native' => pending_start' = 0
  BY <1>1, <1>2 DEF NativeIInv
<1>4. ASSUME native # None, ~clear_native'
      PROVE  /\ pending_start' <= Len(native)
             /\ \A i \in 1..pending_start' :
                  native[Len(native) - pending_start' + i].line = cells'[i]
  <2>1. ~clear_native /\ native \in Seq(Entry) /\ Len(native) \in Nat
    BY <1>4, LenProperties, Zenon DEF NativeIInv
  <2>2. /\ pending_start <= Len(native)
        /\ \A i \in 1..pending_start :
             native[Len(native) - pending_start + i].line = cells[i]
    BY <1>4, <2>1 DEF NativeIInv, Following, Follows
  <2>3. \A i \in 1..pending_start' :
          native[Len(native) - pending_start' + i].line = cells'[i]
    <3>. TAKE i \in 1..pending_start'
    <3>1. /\ i + d \in 1..pending_start
          /\ Len(native) - pending_start + (i + d) = Len(native) - pending_start' + i
      BY <1>1, <1>2, <2>1
    <3>2. native[Len(native) - pending_start + (i + d)].line = cells[i + d]
      BY <2>2, <3>1
    <3>. QED  BY <1>1, <3>1, <3>2
  <2>. QED  BY <1>1, <1>2, <2>1, <2>2, <2>3
<1>5. Following'
  BY <1>4 DEF Following, Follows
<1>. QED  BY <1>3, <1>5 DEF NativeIInv

\* The lines that are not handed over yet.
LEMMA PendingOK ==
  ASSUME IInv
  PROVE  /\ Pending \in Seq(Row) /\ Len(Pending) = scrollback_len - pending_start
         /\ \A i \in 1..scrollback_len - pending_start : Pending[i] = cells[pending_start + i]
<1>1. /\ cells \in Seq(Row) /\ scrollback_len \in Nat /\ pending_start \in Nat
      /\ pending_start <= scrollback_len /\ scrollback_len <= Len(cells) /\ Len(cells) \in Nat
  BY BufferFacts
<1>2. \A i \in pending_start + 1..scrollback_len : cells[i] \in Row
  BY <1>1, ElementOfSeq
<1>. QED  BY <1>1, <1>2, SubSeqProperties DEF Pending

\* Sending makes the whole history handed over.
LEMMA SentOK ==
  ASSUME NativeIInv, IInv', TakeAndRender,
         native' # None =>
           /\ native' \in Seq(Entry) /\ scrollback_len <= Len(native')
           /\ \A i \in 1..scrollback_len :
                native'[Len(native') - scrollback_len + i].line = cells[i]
  PROVE  NativeIInv'
<1>1. pending_start' = scrollback_len /\ cells' = cells
  BY DEF TakeAndRender
<1>2. ~clear_native'
  BY DEF TakeAndRender
<1>3. Following'
  BY <1>1 DEF Following, Follows
<1>. QED  BY <1>2, <1>3 DEF NativeIInv

\* screen_to_client, with and without a queued ED 3.
LEMMA SendUpdateOK ==
  ASSUME NativeIInv, IInv', SendUpdate
  PROVE  NativeIInv' /\ (Gap' => Gap)
<1>0. IInv
  BY DEF NativeIInv
<1>1. /\ scrollback_len \in Nat /\ pending_start \in Nat /\ pending_start <= scrollback_len
      /\ scrollback_len <= Limit /\ Limit \in Nat
  BY <1>0, BufferFacts
<1>. DEFINE sent == Entries(Pending)
<1>2. /\ sent \in Seq(Entry) /\ Len(sent) = scrollback_len - pending_start
      /\ \A i \in 1..scrollback_len - pending_start :
           sent[i].line = cells[pending_start + i] /\ sent[i].behind = {}
  <2>1. /\ Pending \in Seq(Row) /\ Len(Pending) = scrollback_len - pending_start
        /\ \A i \in 1..scrollback_len - pending_start : Pending[i] = cells[pending_start + i]
    BY <1>0, PendingOK
  <2>2. /\ sent \in Seq(Entry) /\ Len(sent) = Len(Pending)
        /\ \A i \in 1..Len(Pending) : sent[i].line = Pending[i] /\ sent[i].behind = {}
    BY <2>1, EntriesOK
  <2>. HIDE DEF sent
  <2>. QED  BY <2>1, <2>2
<1>. HIDE DEF sent
<1>3. CASE clear_native
  <2>1. native' = sent /\ pending_start = 0
    BY <1>3 DEF SendUpdate, NativeIInv, sent
  <2>2. /\ Len(sent) = scrollback_len
        /\ \A i \in 1..scrollback_len : sent[Len(sent) - scrollback_len + i].line = cells[i]
    BY <1>1, <1>2, <2>1
  <2>3. TakeAndRender /\ scrollback_len <= Len(native')
    BY <1>1, <2>1, <2>2 DEF SendUpdate
  <2>5. NativeIInv'
    BY <1>2, <2>1, <2>2, <2>3, SentOK
  <2>4. ~Gap'
    BY <1>1, <1>2, <2>1 DEF Gap
  <2>. QED  BY <2>4, <2>5
<1>4. CASE ~clear_native /\ native = None
  <2>1. native' = None
    BY <1>4 DEF SendUpdate
  <2>. QED  BY <2>1, SentOK DEF SendUpdate, Gap
<1>5. CASE ~clear_native /\ native # None
  <2>. DEFINE both == native \o sent
              n == Len(native)
  <2>1. /\ native \in Seq(Entry) /\ n \in Nat /\ pending_start <= n
        /\ \A i \in 1..pending_start : native[n - pending_start + i].line = cells[i]
    BY <1>5, LenProperties DEF NativeIInv, Following, Follows
  <2>2. /\ both \in Seq(Entry) /\ Len(both) = n + (scrollback_len - pending_start)
        /\ \A i \in 1..Len(both) : both[i] = IF i <= n THEN native[i] ELSE sent[i - n]
    <3>1. Len(native) + Len(sent) = n + (scrollback_len - pending_start)
      BY <1>2
    <3>2. /\ both \in Seq(Entry) /\ Len(both) = Len(native) + Len(sent)
          /\ \A i \in 1..Len(native) + Len(sent) :
               both[i] = IF i <= Len(native) THEN native[i] ELSE sent[i - Len(native)]
      BY <1>2, <2>1, ConcatProperties
    <3>. HIDE DEF both
    <3>. QED  BY <3>1, <3>2
  <2>3. native' = Newest(both)
    BY <1>5 DEF SendUpdate, sent
  <2>. HIDE DEF both, n
  <2>4. \A i \in 1..scrollback_len : both[Len(both) - scrollback_len + i].line = cells[i]
    <3>. TAKE i \in 1..scrollback_len
    <3>. DEFINE k == Len(both) - scrollback_len + i
    <3>1. k \in 1..Len(both) /\ k = n - pending_start + i
      BY <1>1, <2>1, <2>2
    <3>2. CASE i <= pending_start
      <4>1. k <= n /\ i \in 1..pending_start
        BY <1>1, <2>1, <3>1, <3>2
      <4>2. both[k] = native[n - pending_start + i]
        BY <2>2, <3>1, <4>1
      <4>. QED  BY <2>1, <4>1, <4>2
    <3>3. CASE ~(i <= pending_start)
      <4>1. /\ ~(k <= n) /\ k - n \in 1..scrollback_len - pending_start
            /\ pending_start + (k - n) = i
        BY <1>1, <2>1, <3>1, <3>3
      <4>2. both[k] = sent[k - n]
        BY <2>2, <3>1, <4>1
      <4>. QED  BY <1>2, <4>1, <4>2
    <3>. QED  BY <3>2, <3>3
  <2>. DEFINE new == Newest(both)
  <2>5. /\ new \in Seq(Entry) /\ Len(new) = Smaller(Len(both), Limit)
        /\ \A i \in 1..Len(new) : new[i] = both[Len(both) - Len(new) + i]
    BY <2>2, NewestOK
  <2>6. Len(new) \in Nat /\ scrollback_len <= Len(new) /\ Len(new) <= Len(both)
        /\ Len(both) \in Nat
    BY <1>1, <2>1, <2>2, <2>5 DEF Smaller
  <2>. HIDE DEF new
  <2>7. \A i \in 1..scrollback_len : new[Len(new) - scrollback_len + i].line = cells[i]
    <3>. TAKE i \in 1..scrollback_len
    <3>1. /\ Len(new) - scrollback_len + i \in 1..Len(new)
          /\ Len(both) - Len(new) + (Len(new) - scrollback_len + i) =
               Len(both) - scrollback_len + i
      BY <1>1, <2>6
    <3>2. new[Len(new) - scrollback_len + i] = both[Len(both) - scrollback_len + i]
      BY <2>5, <3>1
    <3>. QED  BY <2>4, <3>2
  <2>8. native' = new
    BY <2>3 DEF new
  <2>9. NativeIInv'
    BY <2>5, <2>6, <2>7, <2>8, SentOK DEF SendUpdate
  <2>10. ASSUME NEW i \in 1..Len(new), "below" \in new[i].behind
         PROVE  Gap
    <3>. DEFINE k == Len(both) - Len(new) + i
    <3>1. k \in 1..Len(both) /\ new[i] = both[k]
      BY <2>5, <2>6
    <3>2. CASE k <= n
      <4>1. both[k] = native[k] /\ k \in 1..Len(native)
        BY <2>1, <2>2, <3>1, <3>2 DEF n
      <4>. QED  BY <1>5, <2>10, <3>1, <4>1 DEF Gap
    <3>3. CASE ~(k <= n)
      <4>1. both[k] = sent[k - n] /\ k - n \in 1..scrollback_len - pending_start
        BY <1>1, <2>1, <2>2, <3>1, <3>3
      <4>. QED  BY <1>2, <2>10, <3>1, <4>1
    <3>. QED  BY <3>2, <3>3
  <2>. QED  BY <2>8, <2>9, <2>10 DEF Gap
<1>. QED  BY <1>3, <1>4, <1>5

\* send_initial_state: wherever the cursor of the terminal is, the whole history
\* leaves its screen, and rows below it do only if it is too short.
LEMMA SendInitialStateOK ==
  ASSUME NativeIInv, IInv', SendInitialState
  PROVE  NativeIInv' /\ (Gap' => ~in_alt_screen /\ scrollback_len < rows - 1)
<1>0. IInv
  BY DEF NativeIInv
<1>1. scrollback_len \in Nat /\ rows \in Nat \ {0} /\ cells \in Seq(Row)
      /\ scrollback_len \in 0..Len(cells)
  BY <1>0, BufferFacts
<1>2. PICK c \in 1..rows : native' = IF in_alt_screen THEN None ELSE Flushed(c)
  BY DEF SendInitialState
<1>3. CASE in_alt_screen
  BY <1>2, <1>3, SentOK DEF SendInitialState, Gap
<1>4. CASE ~in_alt_screen
  <2>. DEFINE gone == Larger(0, c + scrollback_len - rows) + Flushes
              kept == Smaller(scrollback_len, Larger(0, gone - (c - 1)))
              lines == Entries(SubSeq(History, 1, kept))
              more == gone > c - 1 + scrollback_len
  <2>1. kept = scrollback_len /\ (more => scrollback_len < rows - 1)
    <3>1. CASE scrollback_len = 0
      BY <1>1, <3>1 DEF Flushes, Larger, Smaller
    <3>2. CASE scrollback_len # 0
      <4>1. gone = Larger(0, c + scrollback_len - rows) + (rows - 1)
        BY <3>2 DEF Flushes
      <4>. QED  BY <1>1, <3>2, <4>1 DEF Larger, Smaller
    <3>. QED  BY <3>1, <3>2
  <2>2. native' = IF more THEN Followed(lines, "below") ELSE lines
    BY <1>2, <1>4 DEF Flushed
  <2>. HIDE DEF kept, more
  <2>3. /\ History \in Seq(Row) /\ Len(History) = scrollback_len
        /\ \A i \in 1..scrollback_len : History[i] = cells[i]
    BY <1>0, <1>1, PartsOK, PrefixElem DEF History
  <2>4. SubSeq(History, 1, kept) = History
    <3>1. scrollback_len \in 0..Len(History)
      BY <1>1, <2>3
    <3>2. /\ SubSeq(History, 1, kept) \in Seq(Row) /\ Len(SubSeq(History, 1, kept)) = scrollback_len
          /\ \A i \in 1..scrollback_len : SubSeq(History, 1, kept)[i] = History[i]
      BY <2>1, <2>3, <3>1, PrefixOf, PrefixElem
    <3>. QED  BY <2>3, <3>2, SeqEqual
  <2>5. /\ lines \in Seq(Entry) /\ Len(lines) = scrollback_len
        /\ \A i \in 1..scrollback_len : lines[i].line = cells[i] /\ lines[i].behind = {}
    <3>1. /\ lines \in Seq(Entry) /\ Len(lines) = Len(History)
          /\ \A i \in 1..Len(History) : lines[i].line = History[i] /\ lines[i].behind = {}
      BY <2>3, <2>4, EntriesOK
    <3>. HIDE DEF lines
    <3>. QED  BY <2>3, <3>1
  <2>. HIDE DEF lines
  <2>6. /\ native' \in Seq(Entry) /\ Len(native') = scrollback_len
        /\ \A i \in 1..scrollback_len : native'[i].line = cells[i]
    BY <2>2, <2>5, FollowedOK DEF Foreign
  <2>7. \A i \in 1..scrollback_len : Len(native') - scrollback_len + i = i
    BY <1>1, <2>6
  <2>8. NativeIInv'
    BY <1>1, <2>6, <2>7, SentOK DEF SendInitialState
  <2>9. Gap' => more
    BY <2>2, <2>5 DEF Gap
  <2>. QED  BY <1>4, <2>1, <2>8, <2>9
<1>. QED  BY <1>3, <1>4

\* Screen::resize with lines taken back: those of them that were handed over are
\* the terminal's newest.
LEMMA TakeBackOK ==
  ASSUME NativeIInv, IInv', NEW n \in Sizes, ResizeTerminal(n), TakenBack(Sanitize(n)) > 0
  PROVE  NativeIInv' /\ (Gap' => Gap)
<1>0. IInv
  BY DEF NativeIInv
<1>1. Sanitize(n) \in Nat \ {0}
  BY SizesAssumption DEF Sanitize, Larger
<1>. DEFINE count == TakenBack(Sanitize(n))
            len   == scrollback_len - count
            again == TakenBackHanded(Sanitize(n))
<1>2. /\ scrollback_len \in Nat /\ pending_start \in Nat /\ pending_start <= scrollback_len
      /\ rows \in Nat \ {0} /\ cells \in Seq(Row) /\ scrollback_len <= Len(cells)
  BY <1>0, BufferFacts
<1>3. count \in 0..scrollback_len
  BY <1>1, <1>2 DEF TakenBack, Smaller
<1>4. /\ pending_start' = Smaller(pending_start, len) /\ clear_native' = clear_native
      /\ cells' = FitRows(cells, len, Sanitize(n))
  BY DEF ResizeTerminal, Resize
<1>5. again = Larger(0, count - (scrollback_len - pending_start))
  BY DEF TakenBackHanded
<1>6. /\ native' = IF native = None \/ again = 0 THEN native
                   ELSE Followed(SubSeq(native, 1, Len(native) - again), "again")
  BY DEF ResizeTerminal
<1>. HIDE DEF count, again
<1>7. /\ again \in 0..pending_start /\ pending_start' = pending_start - again
      /\ len \in Nat /\ len <= Len(cells) /\ pending_start' <= len
  BY <1>2, <1>3, <1>4, <1>5 DEF Larger, Smaller
<1>8. \A i \in 1..pending_start' : cells'[i] = cells[i]
  BY <1>1, <1>2, <1>4, <1>7, FitRowsElem
<1>9. clear_native' => pending_start' = 0
  BY <1>4, <1>7 DEF NativeIInv
<1>10. CASE native = None
  BY <1>6, <1>9, <1>10 DEF NativeIInv, Following, Follows, Gap
<1>11. CASE native # None /\ again = 0
  <2>1. native' = native /\ pending_start' = pending_start
    BY <1>2, <1>6, <1>7, <1>11
  <2>2. Following'
    BY <1>4, <1>8, <2>1 DEF NativeIInv, Following, Follows
  <2>. QED  BY <1>9, <2>1, <2>2 DEF NativeIInv, Gap
<1>12. CASE native # None /\ again # 0
  <2>. DEFINE cut == SubSeq(native, 1, Len(native) - again)
  <2>1. ~clear_native
    BY <1>7, <1>12 DEF NativeIInv
  <2>2. /\ native \in Seq(Entry) /\ Len(native) \in Nat /\ pending_start <= Len(native)
        /\ \A i \in 1..pending_start :
             native[Len(native) - pending_start + i].line = cells[i]
    BY <1>12, <2>1, LenProperties DEF NativeIInv, Following, Follows
  <2>3. Len(native) - again \in 0..Len(native)
    BY <1>2, <1>7, <2>2
  <2>4. /\ cut \in Seq(Entry) /\ Len(cut) = Len(native) - again
        /\ \A i \in 1..Len(native) - again : cut[i] = native[i]
    BY <2>2, <2>3, PrefixOf, PrefixElem
  <2>. HIDE DEF cut
  <2>5. native' = Followed(cut, "again")
    BY <1>6, <1>12 DEF cut
  <2>6. /\ native' \in Seq(Entry) /\ Len(native') = Len(native) - again
        /\ \A i \in 1..Len(native) - again :
             native'[i].line = native[i].line
             /\ native'[i].behind \subseteq native[i].behind \cup {"again"}
    BY <2>4, <2>5, FollowedOK DEF Foreign
  <2>7. \A i \in 1..pending_start' :
          native'[Len(native') - pending_start' + i].line = cells'[i]
    <3>. TAKE i \in 1..pending_start'
    <3>1. /\ Len(native') - pending_start' + i \in 1..Len(native) - again
          /\ Len(native') - pending_start' + i = Len(native) - pending_start + i
          /\ i \in 1..pending_start
      BY <1>2, <1>7, <2>2, <2>6
    <3>. QED  BY <1>8, <2>2, <2>6, <3>1
  <2>8. Following'
    BY <1>2, <1>7, <2>2, <2>6, <2>7 DEF Following, Follows
  <2>9. Gap' => Gap
    <3>1. ASSUME NEW i \in 1..Len(native'), "below" \in native'[i].behind
          PROVE  i \in 1..Len(native) /\ "below" \in native[i].behind
      BY <1>7, <2>2, <2>6, <3>1
    <3>. QED  BY <1>12, <3>1 DEF Gap
  <2>. QED  BY <1>9, <2>6, <2>8, <2>9 DEF NativeIInv
<1>. QED  BY <1>10, <1>11, <1>12

\* The queued ED 3 is set by the application only, with an empty history.
LEMMA ApplicationClear ==
  ASSUME IInv, Application
  PROVE  /\ clear_native => clear_native'
         /\ clear_native' /\ ~clear_native => pending_start' = 0
<1>1. CASE EraseSavedLines \/ FullReset
  BY <1>1 DEF EraseSavedLines, FullReset, ClearScrollback
<1>2. CASE ~(EraseSavedLines \/ FullReset)
  <2>1. clear_native' = clear_native
    BY <1>2 DEF Application, PrintChar, LineFeed, ReverseIndex, CursorUp, CursorDown,
       CursorPosition, MoveCursor, SaveCursor, RestoreCursor, SetOriginMode,
       SetScrollingRegion, ScrollUpN, ScrollDownN, DeleteLines, InsertLines, StartRepeat,
       RepeatStep, EraseDisplay, ScreenAlignment, EnterAltScreen, ExitAltScreen
  <2>. QED  BY <2>1
<1>. QED  BY <1>1, <1>2

\* Every step of the screen with its terminal is a step of the screen.
LEMMA NativeStepIsStep ==
  ASSUME [NativeNext]_nativeVars
  PROVE  [Next]_vars
BY DEF NativeNext, nativeVars, ResizeTerminal, SendUpdate, SendInitialState, Next

\* What every step does to the lines of the terminal and to what is between them.
LEMMA NativeStep ==
  ASSUME NativeIInv, IInv', [NativeNext]_nativeVars
  PROVE  /\ NativeIInv'
         /\ Gap' /\ ~Gap => ~in_alt_screen /\ scrollback_len < rows - 1
<1>0. IInv
  BY DEF NativeIInv
<1>1. CASE Application /\ UNCHANGED native
  <2>1. NativeIInv'
    BY <1>0, <1>1, ApplicationHistory, ApplicationClear, NativeKept
  <2>. QED  BY <1>1, <2>1 DEF Gap
<1>2. ASSUME NEW n \in Sizes, ResizeTerminal(n)
      PROVE  NativeIInv' /\ (Gap' => Gap)
  <2>1. CASE TakenBack(Sanitize(n)) > 0
    BY <1>2, <2>1, TakeBackOK
  <2>2. CASE ~(TakenBack(Sanitize(n)) > 0)
    <3>1. clear_native' = clear_native /\ Resize(n)
      BY <1>2 DEF ResizeTerminal, Resize
    <3>2. UNCHANGED native
      <4>1. Sanitize(n) \in Nat \ {0} /\ scrollback_len \in Nat /\ rows \in Nat \ {0}
            /\ pending_start \in Nat /\ pending_start <= scrollback_len
        BY <1>0, SizesAssumption, BufferFacts DEF Sanitize, Larger
      <4>2. TakenBackHanded(Sanitize(n)) = 0
        BY <2>2, <4>1 DEF TakenBackHanded, TakenBack, Larger, Smaller
      <4>. QED  BY <1>2, <4>2 DEF ResizeTerminal
    <3>3. HistoryKept
      BY <1>0, <2>2, <3>1, ResizeHistory
    <3>4. NativeIInv'
      BY <3>1, <3>2, <3>3, NativeKept
    <3>. QED  BY <3>2, <3>4 DEF Gap
  <2>. QED  BY <2>1, <2>2
<1>3. CASE SendUpdate
  BY <1>3, SendUpdateOK
<1>4. CASE SendInitialState
  BY <1>4, SendInitialStateOK
<1>5. CASE UNCHANGED nativeVars
  BY <1>5 DEF nativeVars, vars, buffer, NativeIInv, Following, Follows, Gap
<1>. QED  BY <1>1, <1>2, <1>3, <1>4, <1>5 DEF NativeNext

\* IInv with its terminal part is an invariant: for every limit, every size and
\* wherever the cursor of a new terminal is.
THEOREM NativeInvariance == NativeSpec => []NativeIInv
<1>1. NativeSpec => []IInv
  <2>1. NativeInit => Init
    BY DEF NativeInit
  <2>2. [NativeNext]_nativeVars => [Next]_vars
    BY NativeStepIsStep
  <2>. QED  BY <2>1, <2>2, Invariance, PTL DEF NativeSpec, Spec
<1>2. NativeInit /\ IInv => NativeIInv
  <2>. SUFFICES ASSUME NativeInit, IInv PROVE NativeIInv
    OBVIOUS
  <2>1. native = << >> /\ native \in Seq(Entry) /\ Len(native) = 0 /\ pending_start = 0
        /\ clear_native = FALSE
    BY DEF NativeInit, Init
  <2>2. Following
    BY <2>1 DEF Following, Follows
  <2>. QED  BY <2>1, <2>2 DEF NativeIInv
<1>3. NativeIInv /\ IInv' /\ [NativeNext]_nativeVars => NativeIInv'
  BY NativeStep
<1>. QED  BY <1>1, <1>2, <1>3, PTL DEF NativeSpec

\* The lines that screen_to_client and send_initial_state handed over are the
\* newest of the terminal's scrollback, in order, once each but for those a taller
\* screen took back, through every ED 3, RIS, alternate screen and reattach; and
\* rows of the terminal's own come between them only behind a short history.
THEOREM NativeFollowsHistoryHolds == NativeSpec => NativeFollowsHistory
<1>1. NativeIInv => (native # None /\ ~clear_native => Follows)
  BY DEF NativeIInv, Following
<1>2. NativeIInv => IInv
  BY DEF NativeIInv
<1>3. NativeIInv /\ NativeIInv' /\ [NativeNext]_nativeVars =>
        [Gap' /\ ~Gap => ~in_alt_screen /\ scrollback_len < rows - 1]_nativeVars
  <2>1. NativeIInv' => IInv'
    BY DEF NativeIInv
  <2>. QED  BY <2>1, NativeStep
<1>. QED  BY <1>1, <1>3, NativeInvariance, PTL DEF NativeSpec, NativeFollowsHistory
=============================================================================
