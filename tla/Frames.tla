------------------------------- MODULE Frames -------------------------------
(***************************************************************************)
(* One connection between a client and the server: length-prefixed frames  *)
(* (codec.rs) over a byte stream that may be cut anywhere, the FrameReader *)
(* at each end, and the two loops each end runs over it: the server's      *)
(* handle_client, then client_to_pty; the client's connect, then           *)
(* run_socket_to_stdout. The bytes read beyond the first message are handed*)
(* from the first loop to the second.                                      *)
(*                                                                         *)
(* A byte is its position in the stream, a frame the positions it takes,   *)
(* so that a reader that has lost its place finds no frame where it looks. *)
(***************************************************************************)
EXTENDS Integers, Sequences

CONSTANTS
  MAX_FRAME_SIZE,
  READ_BUF_SIZE,
  Sizes,        \* payload sizes; encode refuses one above MAX_FRAME_SIZE
  MaxFrames     \* bound: frames written in each direction

\* The u32 before each payload.
HEADER == 4

ASSUME FramesAssumption ==
  /\ MAX_FRAME_SIZE \in Nat /\ READ_BUF_SIZE \in Nat \ {0} /\ MaxFrames \in Nat
  /\ Sizes \subseteq 1..MAX_FRAME_SIZE
  /\ READ_BUF_SIZE <= MAX_FRAME_SIZE + HEADER + 1

Ends == {"client", "server"}

Peer(e) == IF e = "client" THEN "server" ELSE "client"

VARIABLES
  wire,      \* per end: the frames written to it, in order
  buf,       \* per end: its FrameReader: stream position of read_buf[0], offset, length
  handled,   \* per end: messages decoded and acted upon
  pc,        \* per end: where its task is
  refused    \* per end: stopped by a ProtocolError

vars == <<wire, buf, handled, pc, refused>>

\* Input: also Resize and RefreshScreen. Request: ListSessions, KillSession.
\* Reply: SessionList, SessionKilled. Screen: ScreenUpdate, History and
\* Passthrough. Ended: SessionEnded and Error, after which a client stops.
Kinds == {"Connect", "Request", "Input", "Detach", "Connected", "Reply", "Screen", "Ended"}

\* "first_" is the loop that waits for the first message.
PCs == {"idle", "first_fill", "first_decode", "setup", "initial", "fill", "decode", "closed"}

Init ==
  /\ wire = [e \in Ends |-> << >>]
  /\ buf = [e \in Ends |-> [base |-> 0, offset |-> 0, len |-> 0]]
  /\ handled = [e \in Ends |-> 0]
  /\ pc = [client |-> "idle", server |-> "first_fill"]
  /\ refused = [e \in Ends |-> FALSE]

-----------------------------------------------------------------------------
(* Writing. *)

End(f) == f.start + HEADER + f.len

\* Bytes written to e so far.
Written(e) == IF wire[e] = << >> THEN 0 ELSE End(wire[e][Len(wire[e])])

\* encode and write_all to the end e.
Write(e, kind, len) ==
  wire' = [wire EXCEPT ![e] = Append(@, [kind |-> kind, start |-> Written(e), len |-> len])]

Closed(e) == pc[e] = "closed"

Goto(e, label) == pc' = [pc EXCEPT ![e] = label]

\* The end e writes a message and goes on at `label'; a write to a closed socket
\* fails and ends the task.
Send(e, kind, label) ==
  IF Closed(Peer(e))
    THEN Goto(e, "closed") /\ UNCHANGED wire
    ELSE /\ Len(wire[Peer(e)]) < MaxFrames
         /\ \E len \in Sizes : Write(Peer(e), kind, len)
         /\ Goto(e, label)

-----------------------------------------------------------------------------
(* FrameReader. *)

\* Mutant: what was consumed comes back.
CompactedNot(b) == [b EXCEPT !.offset = 0]

\* The consumed bytes leave the buffer: fill_from's drain, and into_leftover
\* followed by with_leftover.
Compacted(b) == [base |-> b.base + b.offset, offset |-> 0, len |-> b.len - b.offset]

\* read_buf after a read of n bytes.
Extended(b, n) == [b EXCEPT !.len = @ + n]

\* Mutant: room for what one frame leaves over, but not for a read after it.
OverflowsEarly(b) == b.len > MAX_FRAME_SIZE + HEADER

Overflows(b) == b.len > MAX_FRAME_SIZE * 2 + 8

\* fill_from returns Ok(true), or the overflow error.
Fill(e) ==
  /\ pc[e] \in {"first_fill", "fill"}
  /\ \E n \in 1..READ_BUF_SIZE :
       LET b == Extended(Compacted(buf[e]), n)
       IN /\ buf[e].base + buf[e].len + n <= Written(e)
          /\ buf' = [buf EXCEPT ![e] = b]
          /\ refused' = [refused EXCEPT ![e] = Overflows(b)]
          /\ Goto(e, CASE Overflows(b) -> "closed"
                       [] ~Overflows(b) /\ pc[e] = "first_fill" -> "first_decode"
                       [] ~Overflows(b) /\ pc[e] = "fill" -> "decode")
  /\ UNCHANGED <<wire, handled>>

\* fill_from returns Ok(false): the peer has closed and nothing is left to read.
FillEof(e) ==
  /\ pc[e] \in {"first_fill", "fill"}
  /\ Closed(Peer(e))
  /\ buf[e].base + buf[e].len = Written(e)
  /\ Goto(e, "closed")
  /\ UNCHANGED <<wire, buf, handled, refused>>

Available(b) == b.len - b.offset

\* The frames that begin at the reader's place.
FramesHere(e) ==
  {f \in {wire[e][i] : i \in DOMAIN wire[e]} : f.start = buf[e].base + buf[e].offset}

\* decode_frame finds this frame complete.
Complete(e, f) ==
  /\ f \in FramesHere(e)
  /\ Available(buf[e]) >= HEADER
  /\ f.len <= MAX_FRAME_SIZE
  /\ Available(buf[e]) >= HEADER + f.len

\* decode_frame finds no complete frame.
Incomplete(e) ==
  \/ Available(buf[e]) < HEADER
  \/ \E f \in FramesHere(e) : f.len <= MAX_FRAME_SIZE /\ Available(buf[e]) < HEADER + f.len

\* decode_next yields f.
Take(e, f) ==
  /\ Complete(e, f)
  /\ handled' = [handled EXCEPT ![e] = @ + 1]

Consumed(b, f) == [b EXCEPT !.offset = @ + HEADER + f.len]

\* decode_next returns Ok(None) and the loop goes back to fill_from; or an error,
\* for a length above the maximum or bytes that are no message.
DecodeNone(e) ==
  /\ pc[e] \in {"first_decode", "decode"}
  /\ \A f \in FramesHere(e) : ~Complete(e, f)
  /\ refused' = [refused EXCEPT ![e] = ~Incomplete(e)]
  /\ Goto(e, CASE ~Incomplete(e) -> "closed"
               [] Incomplete(e) /\ pc[e] = "first_decode" -> "first_fill"
               [] Incomplete(e) /\ pc[e] = "decode" -> "fill")
  /\ UNCHANGED <<wire, buf, handled>>

-----------------------------------------------------------------------------
(* The server. *)

\* handle_client: Connect goes on to handle_session with the leftover.
ServerConnect ==
  /\ pc["server"] = "first_decode"
  /\ \E f \in FramesHere("server") :
       /\ Take("server", f)
       /\ f.kind = "Connect"
       /\ buf' = [buf EXCEPT !["server"] = Compacted(Consumed(@, f))]
  /\ Goto("server", "setup")
  /\ UNCHANGED <<wire, refused>>

\* Any other request, or a Connect with an invalid name: one answer.
ServerAnswer ==
  /\ pc["server"] = "first_decode"
  /\ \E f \in FramesHere("server") :
       /\ Take("server", f)
       /\ buf' = [buf EXCEPT !["server"] = Consumed(@, f)]
       /\ \/ f.kind = "Request" /\ Send("server", "Reply", "closed")
          \/ Send("server", "Ended", "closed")
  /\ UNCHANGED refused

\* INITIAL_MSG_TIMEOUT
ServerTimeout ==
  /\ pc["server"] = "first_fill"
  /\ Goto("server", "closed")
  /\ UNCHANGED <<wire, buf, handled, refused>>

\* setup_session reports why the session cannot be had, or send_initial_state
\* begins.
ServerSetup ==
  /\ pc["server"] = "setup"
  /\ \/ Send("server", "Ended", "closed")
     \/ Send("server", "Connected", "initial")
  /\ UNCHANGED <<buf, handled, refused>>

\* The rest of send_initial_state (its messages are one here), then the relays.
ServerInitial ==
  /\ pc["server"] = "initial"
  /\ Send("server", "Screen", "fill")
  /\ UNCHANGED <<buf, handled, refused>>

\* client_to_pty acts on a message; Detach ends the connection.
ServerHandle ==
  /\ pc["server"] = "decode"
  /\ \E f \in FramesHere("server") :
       /\ Take("server", f)
       /\ buf' = [buf EXCEPT !["server"] = Consumed(@, f)]
       /\ Goto("server", IF f.kind = "Detach" THEN "closed" ELSE "decode")
  /\ UNCHANGED <<wire, refused>>

\* screen_to_client, next to client_to_pty: an update, or the last word.
ServerSend ==
  /\ pc["server"] \in {"fill", "decode"}
  /\ \/ Send("server", "Screen", pc["server"])
     \/ Send("server", "Ended", "closed")
  /\ UNCHANGED <<buf, handled, refused>>

-----------------------------------------------------------------------------
(* The client. *)

\* connect, list_sessions or kill_session: the request, then read_one_message
\* or the loop that waits for Connected.
ClientRequest ==
  /\ pc["client"] = "idle"
  /\ \/ Send("client", "Connect", "first_fill")
     \/ Send("client", "Request", "first_fill")
  /\ UNCHANGED <<buf, handled, refused>>

\* Mutant: the leftover waits for the next read.
RelayStartFill == "fill"

\* run_socket_to_stdout decodes what the leftover holds before it reads.
RelayStart == "decode"

ClientConnected ==
  /\ pc["client"] = "first_decode"
  /\ \E f \in FramesHere("client") :
       /\ Take("client", f)
       /\ f.kind = "Connected"
       /\ buf' = [buf EXCEPT !["client"] = Compacted(Consumed(@, f))]
  /\ Goto("client", RelayStart)
  /\ UNCHANGED <<wire, refused>>

\* The answer to a one-shot request, or an Error: the client ends.
ClientAnswered ==
  /\ pc["client"] = "first_decode"
  /\ \E f \in FramesHere("client") :
       /\ Take("client", f)
       /\ f.kind # "Connected"
       /\ buf' = [buf EXCEPT !["client"] = Consumed(@, f)]
  /\ Goto("client", "closed")
  /\ UNCHANGED <<wire, refused>>

\* dispatch_server_msg
ClientDispatch ==
  /\ pc["client"] = "decode"
  /\ \E f \in FramesHere("client") :
       /\ Take("client", f)
       /\ buf' = [buf EXCEPT !["client"] = Consumed(@, f)]
       /\ Goto("client", IF f.kind = "Ended" THEN "closed" ELSE "decode")
  /\ UNCHANGED <<wire, refused>>

\* Mutant: input is sent before the server has answered Connect.
ClientMaySendEarly == pc["client"] \in {"first_fill", "fill", "decode"}

\* stdin, SIGWINCH and the signals are served once Connected has come.
ClientMaySend == pc["client"] \in {"fill", "decode"}

\* Input, Resize or RefreshScreen; or Detach, after which the client ends.
ClientSend ==
  /\ ClientMaySend
  /\ \/ Send("client", "Input", pc["client"])
     \/ Send("client", "Detach", "closed")
  /\ UNCHANGED <<buf, handled, refused>>

\* The client goes without a word: end of stdin, or killed.
ClientGone ==
  /\ pc["client"] # "closed"
  /\ Goto("client", "closed")
  /\ UNCHANGED <<wire, buf, handled, refused>>

-----------------------------------------------------------------------------
\* Both ends have closed.
Over == (\A e \in Ends : Closed(e)) /\ UNCHANGED vars

Read(e) == Fill(e) \/ FillEof(e) \/ DecodeNone(e)

Server == \/ ServerConnect \/ ServerAnswer \/ ServerSetup \/ ServerInitial \/ ServerHandle

Client == ClientConnected \/ ClientAnswered \/ ClientDispatch

Next == \/ \E e \in Ends : Read(e)
        \/ Server \/ ServerTimeout \/ ServerSend
        \/ Client \/ ClientRequest \/ ClientSend \/ ClientGone
        \/ Over

(* Each end goes on reading and acting on what it has read; nothing is     *)
(* assumed of the user, of the screen or of the timeout.                   *)
Fairness == WF_vars(Read("client") \/ Client) /\ WF_vars(Read("server") \/ Server)

Spec == Init /\ [][Next]_vars /\ Fairness

-----------------------------------------------------------------------------
(* Properties. *)

\* Types; a buffer holds bytes that were written.
TypeOK ==
  /\ \A e \in Ends : \A i \in DOMAIN wire[e] :
       wire[e][i].kind \in Kinds /\ wire[e][i].start \in Nat /\ wire[e][i].len \in 1..MAX_FRAME_SIZE
  /\ \A e \in Ends :
       /\ buf[e].base \in Nat /\ buf[e].len \in Nat /\ buf[e].offset \in 0..buf[e].len
       /\ buf[e].base + buf[e].len <= Written(e)
       /\ handled[e] \in 0..Len(wire[e])
  /\ pc \in [Ends -> PCs] /\ refused \in [Ends -> BOOLEAN]

\* However the stream is cut into reads, and across the hand-over of the
\* leftover, the messages handled are the ones written, in order and once: the
\* reader's place is the end of the last message it handled.
InSync ==
  \A e \in Ends :
    buf[e].base + buf[e].offset = IF handled[e] = 0 THEN 0 ELSE End(wire[e][handled[e]])

\* Frames that encode accepts are never refused: not by the overflow check,
\* although a read may add to an almost complete frame of the largest size, and
\* not as too large or undecodable.
NeverRefused == \A e \in Ends : ~refused[e]

\* A relay that waits for the socket has acted on every message it holds. The
\* client decodes its leftover before it reads; client_to_pty does not, and
\* depends on clients that send nothing before they are Connected.
NoneStranded ==
  \A e \in Ends : pc[e] = "fill" => \A f \in FramesHere(e) : ~Complete(e, f)

\* Every message written to an end is handled in time, unless that end closes.
Dispatched ==
  \A e \in Ends : \A n \in 1..MaxFrames :
    (Len(wire[e]) >= n /\ pc[e] \in {"fill", "decode"}) ~> (handled[e] >= n \/ Closed(e))
=============================================================================
