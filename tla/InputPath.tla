----------------------------- MODULE InputPath ------------------------------
(***************************************************************************)
(* From the keyboard to the application and back: the client's input       *)
(* filter and stdin loop (client/mod.rs), the Input jobs of client_to_pty  *)
(* (server/session_relay.rs), the PTY with its two bounded buffers, and    *)
(* the answers to DA and DSR that the reader thread writes (session.rs).   *)
(*                                                                         *)
(* Jobs and the reader share pty_writer; a write to a full PTY blocks with *)
(* the lock held. The application is not part of the repository: it reads, *)
(* prints and asks whenever it likes. A behaviour runs in one of Setups,   *)
(* which says what is typed and whether the server's side takes part.      *)
(***************************************************************************)
EXTENDS Integers, Sequences, FiniteSets, SequencesExt

CONSTANTS
  Setups,         \* [keys, max, server]: keys typed, how many, server runs
  InSize,         \* bytes the PTY holds for the application
  OutSize,        \* chunks the PTY holds for the reader
  MaxQueries,     \* bound: queries of the application
  MaxDeferred     \* MAX_DEFERRED

\* A byte, by name
Key == STRING

ASSUME SetupsAssumption == Setups \subseteq [keys : SUBSET Key, max : Nat, server : BOOLEAN]

ASSUME SizesAssumption ==
  /\ InSize \in Nat \ {0} /\ OutSize \in Nat \ {0}
  /\ MaxQueries \in Nat /\ MaxDeferred \in Nat \ {0}

VARIABLES
  setup,          \* one of Setups, constant
  typed,          \* everything typed so far
  read,           \* how much of it the client has read
  carry,          \* InputFilter::carry
  client,         \* "on", "detached" (by its key) or "eof"
  whole,          \* ghost: how much was read before the last read
  forwarded,      \* ghost: bytes of all Input messages written
  refreshes,      \* ghost: RefreshScreen messages written
  socket,         \* messages on their way to the server
  served,         \* ghost: Input messages taken from the socket
  job,            \* bytes the Input job still has to write
  lock,           \* holder of pty_writer: "free", "job", "reader"
  ptyin,          \* bytes the application can read
  received,       \* ghost: bytes it has read
  asked,          \* ghost: queries so far
  ptyout,         \* output the reader can read: queries, 0 for other output
  answer,         \* bytes of answers the reader still has to write
  deferred        \* deferred_responses

vars == <<setup, typed, read, carry, client, whole, forwarded, refreshes, socket,
          served, job, lock, ptyin, received, asked, ptyout, answer, deferred>>
clientVars == <<typed, read, carry, client, whole, forwarded, refreshes>>
serverVars == <<served, job, lock, ptyin, received, asked, ptyout, answer, deferred>>

\* Input, RefreshScreen and Detach
Input(data) == [kind |-> "input", data |-> data]
Refresh     == [kind |-> "refresh", data |-> <<>>]
Detach      == [kind |-> "detach", data |-> <<>>]

Init ==
  /\ setup \in Setups
  /\ typed = <<>> /\ read = 0 /\ carry = <<>> /\ client = "on" /\ whole = 0
  /\ forwarded = <<>> /\ refreshes = 0 /\ socket = <<>>
  /\ served = 0 /\ job = <<>> /\ lock = "free" /\ ptyin = <<>> /\ received = <<>>
  /\ asked = 0 /\ ptyout = <<>> /\ answer = <<>> /\ deferred = <<>>

\* The elements of s at positions, in order
Select(s, positions) ==
  LET upto[n \in 0..Len(s)] ==
        IF n = 0 THEN <<>>
        ELSE IF n \in positions THEN Append(upto[n - 1], s[n]) ELSE upto[n - 1]
  IN  upto[Len(s)]

-----------------------------------------------------------------------------
(* The filter. *)

IsFocus(b) == b \in {"I", "O"}

\* What the filter keeps for the next read if it is the rest of this one
Withheld(s) == s \in {<<"esc">>, <<"esc", "[">>}

\* flush_filtered: what was let through becomes an Input.
Flushed(loop) ==
  IF loop.filtered = <<>> THEN loop.messages ELSE Append(loop.messages, Input(loop.filtered))

\* n bytes of the rest are let through.
Pass(loop, rest, n) ==
  [at |-> loop.at + n, filtered |-> loop.filtered \o SubSeq(rest, 1, n),
   messages |-> loop.messages]

\* A round of the loop over raw in InputFilter::process. It stops where nothing
\* is left, or what is left is withheld.
Round(raw, loop) ==
  LET rest == SubSeq(raw, loop.at, Len(raw))
  IN  IF rest = <<>> \/ Withheld(rest) THEN loop
      ELSE IF rest[1] # "esc" THEN Pass(loop, rest, 1)
      ELSE IF rest[2] # "[" THEN Pass(loop, rest, 2)
      ELSE IF rest[3] = "I"
             THEN [at |-> loop.at + 3, filtered |-> <<>>,
                   messages |-> Append(Flushed(loop), Refresh)]
      ELSE IF rest[3] = "O"
             THEN [at |-> loop.at + 3, filtered |-> loop.filtered, messages |-> loop.messages]
      ELSE Pass(loop, rest, 1)

\* The loop when it has stopped: every round before takes a byte or more.
Filter(raw) ==
  LET after[n \in 0..Len(raw)] ==
        IF n = 0 THEN [at |-> 1, filtered |-> <<>>, messages |-> <<>>]
        ELSE Round(raw, after[n - 1])
  IN  after[Len(raw)]

\* The bytes of the Input messages among ms
Data(ms) ==
  LET upto[n \in 0..Len(ms)] == IF n = 0 THEN <<>> ELSE upto[n - 1] \o ms[n].data
  IN  upto[Len(ms)]

Refreshes(ms) == Cardinality({i \in 1..Len(ms) : ms[i].kind = "refresh"})

HasDetach(s) == "detach" \in Range(s)

\* Where the first detach key is
DetachAt(s) ==
  CHOOSE i \in 1..Len(s) : s[i] = "detach" /\ \A j \in 1..i - 1 : s[j] # "detach"

\* What InputFilter::process makes of raw: the detach key is looked for first,
\* and what comes before it in raw is sent as it is.
Process(raw) ==
  IF HasDetach(raw)
    THEN LET before == SubSeq(raw, 1, DetachAt(raw) - 1)
         IN  [messages |-> (IF before = <<>> THEN <<>> ELSE <<Input(before)>>) \o <<Detach>>,
              carry |-> <<>>]
    ELSE [messages |-> Flushed(Filter(raw)), carry |-> SubSeq(raw, Filter(raw).at, Len(raw))]

-----------------------------------------------------------------------------
(* The client: run_stdin_to_socket. *)

Type(k) ==
  /\ client = "on"
  /\ Len(typed) < setup.max
  /\ typed' = Append(typed, k)
  /\ UNCHANGED <<setup, read, carry, client, whole, forwarded, refreshes, socket>>
  /\ UNCHANGED serverVars

Send(ms) ==
  /\ socket' = socket \o ms
  /\ forwarded' = forwarded \o Data(ms)
  /\ refreshes' = refreshes + Refreshes(ms)

\* Mutant: what was withheld is not put in front of what is read.
ReadStdinForgets(n) ==
  LET result == Process(SubSeq(typed, read + 1, read + n))
  IN  /\ client = "on"
      /\ read + n <= Len(typed)
      /\ Send(result.messages)
      /\ carry' = result.carry
      /\ read' = read + n
      /\ whole' = read
      /\ client' = IF Detach \in Range(result.messages) THEN "detached" ELSE "on"
      /\ UNCHANGED <<setup, typed>>
      /\ UNCHANGED serverVars

\* One read of stdin returns n bytes.
ReadStdin(n) ==
  LET result == Process(carry \o SubSeq(typed, read + 1, read + n))
  IN  /\ client = "on"
      /\ read + n <= Len(typed)
      /\ Send(result.messages)
      /\ carry' = result.carry
      /\ read' = read + n
      /\ whole' = read
      /\ client' = IF Detach \in Range(result.messages) THEN "detached" ELSE "on"
      /\ UNCHANGED <<setup, typed>>
      /\ UNCHANGED serverVars

\* End of file: InputFilter::flush sends what was withheld.
EndOfInput ==
  /\ client = "on"
  /\ read = Len(typed)
  /\ Send(IF carry = <<>> THEN <<>> ELSE <<Input(carry)>>)
  /\ carry' = <<>>
  /\ client' = "eof"
  /\ UNCHANGED <<setup, typed, read, whole>>
  /\ UNCHANGED serverVars

-----------------------------------------------------------------------------
(* The server and the application. A byte on the PTY is known by the write it *)
(* belongs to: Input messages count up from 1, answers down from -1.          *)

Bytes(by, data) == [i \in 1..Len(data) |-> [by |-> by, key |-> data[i]]]

\* The answers to qs, two bytes each
Answers(qs) ==
  [i \in 1..2 * Len(qs) |->
     [by |-> -qs[(i + 1) \div 2], key |-> IF i % 2 = 1 THEN "csi" ELSE "final"]]

\* client_to_pty takes the next message when the last job is done. An Input
\* becomes a blocking job; a refresh or a detach does not touch the PTY.
Serve ==
  /\ setup.server
  /\ job = <<>>
  /\ socket # <<>>
  /\ socket' = Tail(socket)
  /\ IF Head(socket).kind = "input"
       THEN served' = served + 1 /\ job' = Bytes(served + 1, Head(socket).data)
       ELSE UNCHANGED <<served, job>>
  /\ UNCHANGED <<setup, lock, ptyin, received, asked, ptyout, answer, deferred>>
  /\ UNCHANGED clientVars

JobLock ==
  /\ job # <<>>
  /\ lock = "free"
  /\ lock' = "job"
  /\ UNCHANGED <<setup, socket, served, job, ptyin, received, asked, ptyout, answer, deferred>>
  /\ UNCHANGED clientVars

\* Mutant: the lock is given up after every byte.
JobWriteUnlocks ==
  /\ job # <<>>
  /\ lock = "job"
  /\ Len(ptyin) < InSize
  /\ ptyin' = Append(ptyin, Head(job))
  /\ job' = Tail(job)
  /\ lock' = "free"
  /\ UNCHANGED <<setup, socket, served, received, asked, ptyout, answer, deferred>>
  /\ UNCHANGED clientVars

\* write_all, a byte at a time; the lock goes with the last one.
JobWrite ==
  /\ job # <<>>
  /\ lock = "job"
  /\ Len(ptyin) < InSize
  /\ ptyin' = Append(ptyin, Head(job))
  /\ job' = Tail(job)
  /\ lock' = IF Tail(job) = <<>> THEN "free" ELSE "job"
  /\ UNCHANGED <<setup, socket, served, received, asked, ptyout, answer, deferred>>
  /\ UNCHANGED clientVars

\* The application reads a byte, asks for a report, prints.
AppRead ==
  /\ ptyin # <<>>
  /\ received' = Append(received, Head(ptyin))
  /\ ptyin' = Tail(ptyin)
  /\ UNCHANGED <<setup, socket, served, job, lock, asked, ptyout, answer, deferred>>
  /\ UNCHANGED clientVars

AppAsk ==
  /\ setup.server
  /\ asked < MaxQueries
  /\ Len(ptyout) < OutSize
  /\ asked' = asked + 1
  /\ ptyout' = Append(ptyout, asked + 1)
  /\ UNCHANGED <<setup, socket, served, job, lock, ptyin, received, answer, deferred>>
  /\ UNCHANGED clientVars

AppPrint ==
  /\ setup.server
  /\ Len(ptyout) < OutSize
  /\ ptyout' = Append(ptyout, 0)
  /\ UNCHANGED <<setup, socket, served, job, lock, ptyin, received, asked, answer, deferred>>
  /\ UNCHANGED clientVars

\* The last n of s
Newest(s, n) == IF Len(s) > n THEN SubSeq(s, Len(s) - n + 1, Len(s)) ELSE s

\* Mutant: a full queue refuses the newest answers.
DeferOldest(qs) == IF Len(qs) > MaxDeferred THEN SubSeq(qs, 1, MaxDeferred) ELSE qs

\* A full queue forgets its oldest answers.
Defer(qs) == Newest(qs, MaxDeferred)

\* The queries in the first n chunks
Asked(n) == Select(SubSeq(ptyout, 1, n), {i \in 1..n : ptyout[i] # 0})

\* Mutant: deferred answers wait for the next query.
DueWithNew(n) == IF Asked(n) = <<>> THEN <<>> ELSE deferred \o Asked(n)

\* The answers a read of n chunks has to write: those deferred, then its own
Due(n) == deferred \o Asked(n)

\* Mutant: the reader waits for the lock.
ReaderReadWaits(n) ==
  LET qs == Due(n)
  IN  /\ answer = <<>>
      /\ n <= Len(ptyout)
      /\ qs # <<>> => lock = "free"
      /\ ptyout' = SubSeq(ptyout, n + 1, Len(ptyout))
      /\ IF qs = <<>> THEN UNCHANGED <<answer, lock, deferred>>
         ELSE answer' = Answers(qs) /\ lock' = "reader" /\ deferred' = <<>>
      /\ UNCHANGED <<setup, socket, served, job, ptyin, received, asked>>
      /\ UNCHANGED clientVars

\* persistent_reader_loop: one read; try_lock decides whether its answers are
\* written now.
ReaderRead(n) ==
  LET qs == Due(n)
  IN  /\ answer = <<>>
      /\ n <= Len(ptyout)
      /\ ptyout' = SubSeq(ptyout, n + 1, Len(ptyout))
      /\ CASE qs = <<>> -> UNCHANGED <<answer, lock, deferred>>
           [] qs # <<>> /\ lock = "free" ->
                answer' = Answers(qs) /\ lock' = "reader" /\ deferred' = <<>>
           [] qs # <<>> /\ lock # "free" ->
                deferred' = Defer(qs) /\ UNCHANGED <<answer, lock>>
      /\ UNCHANGED <<setup, socket, served, job, ptyin, received, asked>>
      /\ UNCHANGED clientVars

ReaderWrite ==
  /\ answer # <<>>
  /\ Len(ptyin) < InSize
  /\ ptyin' = Append(ptyin, Head(answer))
  /\ answer' = Tail(answer)
  /\ lock' = IF Tail(answer) = <<>> THEN "free" ELSE "reader"
  /\ UNCHANGED <<setup, socket, served, job, received, asked, ptyout, deferred>>
  /\ UNCHANGED clientVars

Next ==
  \/ \E k \in setup.keys : Type(k)
  \/ \E n \in 1..setup.max : ReadStdin(n)
  \/ EndOfInput
  \/ Serve
  \/ JobLock
  \/ JobWrite
  \/ AppRead
  \/ AppAsk
  \/ AppPrint
  \/ \E n \in 1..OutSize : ReaderRead(n)
  \/ ReaderWrite

\* Threads and jobs that can run do. Nothing is assumed of the user and of the
\* application.
Spec ==
  /\ Init /\ [][Next]_vars
  /\ WF_vars(Serve) /\ WF_vars(JobLock) /\ WF_vars(JobWrite)
  /\ WF_vars(\E n \in 1..OutSize : ReaderRead(n)) /\ WF_vars(ReaderWrite)

-----------------------------------------------------------------------------
(* Properties. *)

\* What is on the PTY: keys, and the two halves of an answer
Char == Key \cup {"csi", "final"}
Byte == [by : Int, key : Char]
Message == [kind : {"input"}, data : Seq(Key)] \cup {Refresh, Detach}

\* Every variable has the type of its Rust counterpart; the buffers of the PTY
\* and the queue of deferred answers keep within their bounds, and whoever
\* writes holds the lock.
TypeOK ==
  /\ setup \in Setups
  /\ typed \in Seq(Key) /\ read \in 0..Len(typed) /\ whole \in 0..read
  /\ carry = <<>> \/ Withheld(carry)
  /\ client \in {"on", "detached", "eof"}
  /\ forwarded \in Seq(Key) /\ refreshes \in Nat
  /\ socket \in Seq(Message) /\ served \in Nat
  /\ job \in Seq(Byte) /\ answer \in Seq(Byte)
  /\ ptyin \in Seq(Byte) /\ received \in Seq(Byte) /\ Len(ptyin) <= InSize
  /\ asked \in 0..MaxQueries
  /\ ptyout \in Seq(0..asked) /\ Len(ptyout) <= OutSize
  /\ deferred \in Seq(1..asked) /\ Len(deferred) <= MaxDeferred
  /\ lock \in {"free", "job", "reader"}
  /\ lock = "job" => job # <<>>
  /\ lock = "reader" <=> answer # <<>>

\* The ESC at position i of s is not itself the second of two.
Begins(s, i) ==
  \E first \in 1..i : /\ \A j \in first..i : s[j] = "esc"
                      /\ first = 1 \/ s[first - 1] # "esc"
                      /\ (i - first) % 2 = 0

\* A focus report begins at position i of s: such an ESC, then [ and I or O.
Report(s, i) ==
  i + 2 <= Len(s) /\ Begins(s, i) /\ s[i + 1] = "[" /\ IsFocus(s[i + 2])

\* Position n of s belongs to a focus report.
Reported(s, n) == \E i \in 1..n : n <= i + 2 /\ Report(s, i)

\* s without its focus reports
Kept(s) == Select(s, {n \in 1..Len(s) : ~Reported(s, n)})

FocusIns(s) == Cardinality({i \in 1..Len(s) : Report(s, i) /\ s[i + 2] = "I"})

\* However the terminal cuts what is typed into reads, the server gets it
\* without the focus reports, in order and once, with one refresh per focus-in,
\* and only an ESC or ESC [ is held back, until more comes or the input ends.
\* The detach key ends it; the read that has it is not filtered.
FilterExact ==
  LET seen == SubSeq(typed, 1, read)
  IN  CASE client # "detached" -> /\ forwarded \o carry = Kept(seen)
                                  /\ refreshes = FocusIns(seen)
        [] client = "detached" ->
             /\ whole < DetachAt(seen)
             /\ forwarded = Kept(SubSeq(typed, 1, whole))
                              \o SubSeq(typed, whole + 1, DetachAt(seen) - 1)

\* What the application has read or can read, in order
Stream == received \o ptyin

\* The bytes of a message, without who wrote them
Keys(s) == [i \in 1..Len(s) |-> s[i].key]
Typed(s) == Select(s, {i \in 1..Len(s) : s[i].by > 0})

\* The bytes of one write lie together in the stream.
WritesWhole ==
  \A i, l \in 1..Len(Stream) : \A j \in i..l :
    Stream[i].by = Stream[l].by => Stream[j].by = Stream[i].by

\* What the client wrote reaches the application in order and once, whatever
\* the reader writes in between, and no write is cut by another: an escape
\* sequence the user sends and an answer of the terminal never mix.
InputKept ==
  /\ TypeOK
  /\ WritesWhole
  /\ Keys(Typed(Stream)) \o Keys(job) \o Data(socket) = forwarded

\* Queries whose answer is not lost: not read yet, deferred, being written, or
\* written
Alive == Range(ptyout) \cup Range(deferred) \cup
         {-b.by : b \in Range(Stream \o answer)}

\* Answers are in the order of the queries and there is one of each.
InOrder ==
  /\ \A i, j \in 1..Len(Stream) :
       i < j /\ Stream[i].by < 0 /\ Stream[j].by < 0 =>
         \/ Stream[i].by > Stream[j].by
         \/ Stream[i].by = Stream[j].by /\ Stream[i].key # Stream[j].key
  /\ \A i, j \in 1..Len(deferred) : i < j => deferred[i] < deferred[j]

\* Answers to DA and DSR reach the application in the order of the queries and
\* once each, whether they were written at once or deferred; one is lost only
\* by the limit of deferred_responses, and then the queue is full of later ones.
AnswersKept ==
  /\ []InOrder
  /\ [][\A q \in 1..asked : q \in Alive /\ q \notin Alive' =>
          Len(deferred') = MaxDeferred /\ \A i \in 1..MaxDeferred : deferred'[i] > q]_vars

\* Output is read, so the application is never stuck in a write while its input
\* is full of what a client typed; the one way to get stuck is an answer that
\* finds the input full.
OutputDrains ==
  (Len(ptyout) = OutSize) ~> (Len(ptyout) < OutSize \/ (answer # <<>> /\ Len(ptyin) = InSize))

\* An application that goes on reading and printing gets the deferred answers.
DeferredAnswered ==
  ([]<><<AppPrint>>_vars /\ WF_vars(AppRead)) => ((deferred # <<>>) ~> (deferred = <<>>))
=============================================================================
