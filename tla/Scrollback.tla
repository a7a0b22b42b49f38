----------------------------- MODULE Scrollback -----------------------------
(***************************************************************************)
(* What the screen promises about scrollback, free of the unified buffer:  *)
(* a bounded history of the lines that left the top of the main screen,    *)
(* of which the newest `unsent' have not been handed to a client yet.      *)
(*                                                                         *)
(* Screen.tla implements this specification (Grid keeps the history and    *)
(* the visible rows in one VecDeque and moves two indices over it).        *)
(***************************************************************************)
EXTENDS Integers, Sequences

CONSTANTS
  Row,    \* contents a line can have
  Limit   \* scrollback_limit the session was created with

VARIABLES
  history,  \* retained lines, oldest first
  unsent    \* how many of the newest are still to be sent

vars == <<history, unsent>>

Init == history = << >> /\ unsent = 0

(* A line leaves the screen. At the limit the oldest line is forgotten,    *)
(* and with it the debt to send it.                                        *)
ScrollOff(line) ==
  /\ Limit > 0
  /\ IF Len(history) < Limit
       THEN /\ history' = Append(history, line)
            /\ unsent' = unsent + 1
       ELSE /\ history' = Append(Tail(history), line)
            /\ unsent' = IF unsent < Limit THEN unsent + 1 ELSE unsent

(* Everything unsent is handed over, once. *)
Deliver == unsent' = 0 /\ UNCHANGED history

(* The application erases the saved lines (ED 3, RIS). *)
Clear == history' = << >> /\ unsent' = 0

(* A taller screen takes the newest k lines back. *)
TakeBack(k) ==
  /\ history' = SubSeq(history, 1, Len(history) - k)
  /\ unsent' = IF k < unsent THEN unsent - k ELSE 0

Next ==
  \/ \E line \in Row : ScrollOff(line)
  \/ Deliver
  \/ Clear
  \/ \E k \in 1..Len(history) : TakeBack(k)

Spec == Init /\ [][Next]_vars
=============================================================================
