---------------------------- MODULE SessionRelay ----------------------------
(***************************************************************************)
(* One session and the client connections that come and go: the persistent *)
(* PTY reader thread, Session::connect and eviction, ClientGuard           *)
(* (session.rs), send_initial_state and handle_session (session_bridge.rs),*)
(* screen_to_client (session_relay.rs) and the three ways a session is     *)
(* removed (client_handler.rs, server/mod.rs).                             *)
(*                                                                         *)
(* Each action is what one task does between two points where another task *)
(* can interleave: an await, a lock or an atomic access. The screen is     *)
(* reduced to what travels: how many chunks it has processed, which lines  *)
(* have left its top (numbered in that order) and which of them are        *)
(* pending, and the queued notifications. Lines are never forgotten here   *)
(* (the scrollback limit is Screen.tla's subject).                         *)
(***************************************************************************)
EXTENDS Integers, Sequences, FiniteSets

CONSTANTS
  Clients,     \* connections; each attaches at most once
  Nobody,      \* evict_tx is None
  MaxChunks,   \* bound: reads from the PTY that return output
  Chunks,      \* what a read may do: [lines |-> scrolled off, notifies |-> BOOLEAN]
  QueueCap     \* MAX_QUEUED_NOTIFICATIONS

ASSUME RelayAssumption ==
  /\ Nobody \notin Clients
  /\ MaxChunks \in Nat
  /\ Chunks \subseteq [lines : 0..1, notifies : BOOLEAN]
  /\ QueueCap \in Nat \ {0}

VARIABLES
  \* the screen, behind its mutex
  version,        \* chunks processed
  produced,       \* lines that have left the top of the screen: 1..produced
  pending_start,  \* lines up to here are not pending any more
  raised,         \* notifications raised by the application: 1..raised
  queued,         \* those still in queued_notifications
  \* the session
  child,          \* the shell runs
  reader,         \* reader thread: "read", "notify", "eof", "dead"
  reader_alive,
  has_client,
  evict_tx,       \* the client whose eviction channel the session holds
  permit,         \* screen_notify holds a wakeup
  session,        \* "listed", "removed", "killed", "evicted", "dropped"
  \* the connections
  pc,
  evict_rx,       \* "open", "evicted" (false was sent), "closed" (sender dropped)
  pending_render, \* a throttled render is due
  got,            \* lines received, in order
  seen,           \* version of the screen last shown
  rung,           \* notifications received
  told            \* last word to the client: "none", "evicted", "ended"

screenVars  == <<version, produced, pending_start, raised, queued>>
sessionVars == <<child, reader, reader_alive, has_client, evict_tx, permit, session>>
clientVars  == <<pc, evict_rx, pending_render, got, seen, rung, told>>
vars == <<screenVars, sessionVars, clientVars>>

PCs == {"new", "hello", "sending", "spawn", "start", "relay",
        "closing", "clearing", "gone"}

-----------------------------------------------------------------------------
(* Session::new: a fresh session nobody has attached to. *)
Init ==
  /\ version = 0 /\ produced = 0 /\ pending_start = 0 /\ raised = 0 /\ queued = << >>
  /\ child = TRUE /\ reader = "read" /\ reader_alive = TRUE
  /\ has_client = FALSE /\ evict_tx = Nobody /\ permit = FALSE
  /\ session = "listed"
  /\ pc = [c \in Clients |-> "new"]
  /\ evict_rx = [c \in Clients |-> "open"]
  /\ pending_render = [c \in Clients |-> FALSE]
  /\ got = [c \in Clients |-> << >>]
  /\ seen = [c \in Clients |-> -1]
  /\ rung = [c \in Clients |-> {}]
  /\ told = [c \in Clients |-> "none"]

Goto(c, label) == pc' = [pc EXCEPT ![c] = label]

\* Lines from + 1 .. to, oldest first.
LinesAfter(from, to) == [i \in 1..to - from |-> from + i]

\* Mutant: no wakeup.
NotifyOneNot == UNCHANGED permit

\* screen_notify.notify_one
NotifyOne == permit' = TRUE

\* Mutant: a client is left with the screen it has.
FullRenderNot(c) == UNCHANGED seen

\* The current screen is shown to c; what is pending stays where it is.
FullRender(c) == seen' = [seen EXCEPT ![c] = version]

-----------------------------------------------------------------------------
(* The persistent reader thread. *)

\* Mutant: a full queue drops the newest.
PushNotificationLate(q, n) == IF Len(q) >= QueueCap THEN q ELSE Append(q, n)

\* push_notification drops the oldest of a full queue.
PushNotification(q, n) ==
  Append(IF Len(q) >= QueueCap THEN Tail(q) ELSE q, n)

\* The reader's drain when nobody is attached: pending lines and passthrough
\* go, notifications stay for the next client.
DrainedTo(lines) == IF has_client THEN pending_start ELSE lines

\* One read: the chunk is processed, and drained or not, under the screen lock.
\* It scrolls some lines off and may raise a notification.
ReadChunk(chunk) ==
  /\ reader = "read"
  /\ version < MaxChunks
  /\ version' = version + 1
  /\ produced' = produced + chunk.lines
  /\ pending_start' = DrainedTo(produced + chunk.lines)
  /\ raised' = IF chunk.notifies THEN raised + 1 ELSE raised
  /\ queued' = IF chunk.notifies THEN PushNotification(queued, raised + 1) ELSE queued
  /\ reader' = "notify"
  /\ UNCHANGED <<child, reader_alive, has_client, evict_tx, permit, session, clientVars>>

\* notify_one, after the screen lock and the responses to the PTY.
NotifyClient ==
  /\ reader = "notify"
  /\ NotifyOne
  /\ reader' = "read"
  /\ UNCHANGED <<screenVars, child, reader_alive, has_client, evict_tx, session, clientVars>>

\* EOF or a read error once the child is gone.
ReadEof ==
  /\ reader = "read"
  /\ ~child
  /\ reader_alive' = FALSE
  /\ reader' = "eof"
  /\ UNCHANGED <<screenVars, child, has_client, evict_tx, permit, session, clientVars>>

NotifyDeath ==
  /\ reader = "eof"
  /\ NotifyOne
  /\ reader' = "dead"
  /\ UNCHANGED <<screenVars, child, reader_alive, has_client, evict_tx, session, clientVars>>

ChildExits ==
  /\ child
  /\ child' = FALSE
  /\ UNCHANGED <<screenVars, reader, reader_alive, has_client, evict_tx, permit, session,
                 clientVars>>

-----------------------------------------------------------------------------
(* Attaching. *)

\* Mutant: the previous client hears nothing.
SignalledNot(word) == evict_rx

\* The receivers after the session's sender says `word' and is dropped.
Signalled(word) ==
  IF evict_tx = Nobody THEN evict_rx ELSE [evict_rx EXCEPT ![evict_tx] = word]

\* Session::connect, under the manager lock. The store to has_client and the
\* eviction are one step: the only task that could tell them apart is the guard
\* of the previous client, and GuardCheck and GuardClear are steps of their own.
Connect(c) ==
  /\ pc[c] = "new"
  /\ session = "listed"
  /\ has_client' = TRUE
  /\ evict_rx' = Signalled("evicted")
  /\ evict_tx' = c
  /\ Goto(c, "hello")
  /\ UNCHANGED <<screenVars, child, reader, reader_alive, permit, session,
                 pending_render, got, seen, rung, told>>

\* send_initial_state, first lock: history, notifications and a full render.
\* They are sent after the lock is released.
Snapshot(c) ==
  /\ pc[c] = "hello"
  /\ got' = [got EXCEPT ![c] = LinesAfter(0, produced)]
  /\ rung' = [rung EXCEPT ![c] = @ \cup {queued[i] : i \in DOMAIN queued}]
  /\ queued' = << >>
  /\ FullRender(c)
  /\ Goto(c, "sending")
  /\ UNCHANGED <<version, produced, pending_start, raised, sessionVars,
                 evict_rx, pending_render, told>>

\* Mutant: what was pending at the snapshot is kept.
DrainStaleNot(c) ==
  /\ pc[c] = "sending"
  /\ Goto(c, "spawn")
  /\ UNCHANGED <<screenVars, sessionVars, evict_rx, pending_render, got, seen,
                 rung, told>>

\* send_initial_state, second lock: what is pending now counts as stale.
DrainStale(c) ==
  /\ pc[c] = "sending"
  /\ pending_start' = produced
  /\ Goto(c, "spawn")
  /\ UNCHANGED <<version, produced, raised, queued, sessionVars,
                 evict_rx, pending_render, got, seen, rung, told>>

\* handle_session wakes the relay it is about to spawn.
SpawnRelay(c) ==
  /\ pc[c] = "spawn"
  /\ NotifyOne
  /\ Goto(c, "start")
  /\ UNCHANGED <<screenVars, child, reader, reader_alive, has_client, evict_tx, session,
                 evict_rx, pending_render, got, seen, rung, told>>

-----------------------------------------------------------------------------
(* screen_to_client. *)

\* take_and_render and the update it yields.
TakeAndRender(c) ==
  /\ got' = [got EXCEPT ![c] = @ \o LinesAfter(pending_start, produced)]
  /\ pending_start' = produced
  /\ rung' = [rung EXCEPT ![c] = @ \cup {queued[i] : i \in DOMAIN queued}]
  /\ queued' = << >>
  /\ FullRender(c)
  /\ UNCHANGED <<version, produced, raised>>

\* The reader may be dead before the loop starts: a full render, which takes
\* nothing that is pending, and the end.
StartRelay(c) ==
  /\ pc[c] = "start"
  /\ IF reader_alive
       THEN Goto(c, "relay") /\ UNCHANGED <<seen, told>>
       ELSE /\ FullRender(c)
            /\ told' = [told EXCEPT ![c] = "ended"]
            /\ Goto(c, "closing")
  /\ UNCHANGED <<screenVars, sessionVars, evict_rx, pending_render, got, rung>>

\* select!, screen_notify: a render is scheduled, or the last one made.
Notified(c) ==
  /\ pc[c] = "relay"
  /\ permit
  /\ permit' = FALSE
  /\ IF reader_alive
       THEN /\ pending_render' = [pending_render EXCEPT ![c] = TRUE]
            /\ UNCHANGED <<screenVars, got, seen, rung, told, pc>>
       ELSE /\ TakeAndRender(c)
            /\ told' = [told EXCEPT ![c] = "ended"]
            /\ Goto(c, "closing")
            /\ UNCHANGED pending_render
  /\ UNCHANGED <<child, reader, reader_alive, has_client, evict_tx, session,
                 evict_rx>>

\* select!, throttle_sleep
Throttled(c) ==
  /\ pc[c] = "relay"
  /\ pending_render[c]
  /\ TakeAndRender(c)
  /\ pending_render' = [pending_render EXCEPT ![c] = FALSE]
  /\ UNCHANGED <<sessionVars, pc, evict_rx, told>>

\* client_to_pty receives RefreshScreen and wakes the relay; select!,
\* refresh_notify: a full render of the screen, the pending lines left where
\* they are. Nothing depends on the time between the two.
Refreshed(c) ==
  /\ pc[c] = "relay"
  /\ FullRender(c)
  /\ UNCHANGED <<screenVars, sessionVars, pc, evict_rx, pending_render, got, rung, told>>

\* Mutant: the loop goes on.
EvictedStays(c) ==
  /\ pc[c] = "relay"
  /\ evict_rx[c] # "open"
  /\ told' = [told EXCEPT ![c] = "evicted"]
  /\ UNCHANGED <<screenVars, sessionVars, pc, evict_rx, pending_render, got,
                 seen, rung>>

\* select!, evict_rx.changed()
Evicted(c) ==
  /\ pc[c] = "relay"
  /\ evict_rx[c] # "open"
  /\ told' = [told EXCEPT ![c] = IF evict_rx[c] = "evicted" THEN "evicted" ELSE "ended"]
  /\ Goto(c, "closing")
  /\ UNCHANGED <<screenVars, sessionVars, evict_rx, pending_render, got, seen, rung>>

-----------------------------------------------------------------------------
(* Leaving. *)

\* Detach, a closed socket, or a failed write while the state is sent: both
\* relays end and handle_session returns.
Leave(c) ==
  /\ pc[c] \in {"hello", "sending", "start", "relay"}
  /\ Goto(c, "closing")
  /\ UNCHANGED <<screenVars, sessionVars, evict_rx, pending_render, got, seen,
                 rung, told>>

\* Mutant: the value on the channel is read the wrong way round.
GuardKeepsInverted(c) == evict_rx[c] # "evicted"

\* ClientGuard::drop leaves has_client to the client that evicted this one.
GuardKeeps(c) == evict_rx[c] = "evicted"

\* The tasks and their locals are gone. ClientGuard::drop first looks at its
\* eviction channel, ...
GuardCheck(c) ==
  /\ pc[c] = "closing"
  /\ Goto(c, IF GuardKeeps(c) THEN "gone" ELSE "clearing")
  /\ pending_render' = [pending_render EXCEPT ![c] = FALSE]
  /\ UNCHANGED <<screenVars, sessionVars, evict_rx, got, seen, rung, told>>

\* ... then stores to has_client.
GuardClear(c) ==
  /\ pc[c] = "clearing"
  /\ has_client' = FALSE
  /\ Goto(c, "gone")
  /\ UNCHANGED <<screenVars, child, reader, reader_alive, evict_tx, permit, session,
                 evict_rx, pending_render, got, seen, rung, told>>

-----------------------------------------------------------------------------
(* The session goes. *)

\* Mutant: only the reader counts.
IsAliveReader == reader_alive

IsAlive == reader_alive /\ child

\* take_dead_sessions by the cleanup task
RemoveDead ==
  /\ session = "listed"
  /\ ~IsAlive
  /\ session' = "removed"
  /\ UNCHANGED <<screenVars, child, reader, reader_alive, has_client, evict_tx, permit,
                 clientVars>>

\* drain_all at SIGTERM or SIGINT
Shutdown ==
  /\ session = "listed"
  /\ session' = "removed"
  /\ UNCHANGED <<screenVars, child, reader, reader_alive, has_client, evict_tx, permit,
                 clientVars>>

\* KillSession: remove, then disconnect drops the eviction channel.
KillSession ==
  /\ session = "listed"
  /\ session' = "removed"
  /\ evict_rx' = Signalled("closed")
  /\ evict_tx' = Nobody
  /\ UNCHANGED <<screenVars, child, reader, reader_alive, has_client, permit, pc,
                 pending_render, got, seen, rung, told>>

\* Drop for Session kills the child, ...
DropKills ==
  /\ session = "removed"
  /\ child' = FALSE
  /\ session' = "killed"
  /\ UNCHANGED <<screenVars, reader, reader_alive, has_client, evict_tx, permit, clientVars>>

\* ... evicts a client that is still connected, ...
DropEvicts ==
  /\ session = "killed"
  /\ evict_rx' = Signalled("evicted")
  /\ evict_tx' = Nobody
  /\ session' = "evicted"
  /\ UNCHANGED <<screenVars, child, reader, reader_alive, has_client, permit, pc,
                 pending_render, got, seen, rung, told>>

\* ... and joins the reader.
DropJoins ==
  /\ session = "evicted"
  /\ reader = "dead"
  /\ session' = "dropped"
  /\ UNCHANGED <<screenVars, child, reader, reader_alive, has_client, evict_tx, permit,
                 clientVars>>

-----------------------------------------------------------------------------
ReaderStep == \/ \E chunk \in Chunks : ReadChunk(chunk)
              \/ NotifyClient \/ ReadEof \/ NotifyDeath

Relay(c) == \/ Snapshot(c) \/ DrainStale(c) \/ SpawnRelay(c) \/ StartRelay(c)
            \/ Notified(c) \/ Throttled(c) \/ Evicted(c)
            \/ GuardCheck(c) \/ GuardClear(c)

DropSession == DropKills \/ DropEvicts \/ DropJoins

\* Nothing can happen any more: the session and its clients are gone.
Over ==
  /\ session = "dropped"
  /\ \A c \in Clients : pc[c] \in {"new", "gone"}
  /\ UNCHANGED vars

Next ==
  \/ ReaderStep
  \/ ChildExits
  \/ \E c \in Clients : Connect(c) \/ Relay(c) \/ Refreshed(c) \/ Leave(c)
  \/ RemoveDead \/ Shutdown \/ KillSession
  \/ DropSession
  \/ Over

(* Every thread and task that can go on does so: the reader thread and the *)
(* Tokio runtime are not starved, select! polls every branch that is       *)
(* ready, a client reads what it is sent, the 30 s cleanup timer fires.    *)
(* Nothing is assumed of the shell, nor that the reader ever sees EOF: a   *)
(* background process may keep the PTY open after the shell has gone.      *)
Fairness ==
  /\ WF_vars(NotifyClient) /\ WF_vars(NotifyDeath)
  /\ \A c \in Clients :
       /\ WF_vars(Snapshot(c) \/ DrainStale(c) \/ SpawnRelay(c) \/ StartRelay(c))
       /\ WF_vars(Notified(c)) /\ WF_vars(Throttled(c))
       /\ WF_vars(Evicted(c)) /\ WF_vars(GuardCheck(c) \/ GuardClear(c))
  /\ WF_vars(RemoveDead) /\ WF_vars(DropSession)

Spec == Init /\ [][Next]_vars /\ Fairness

-----------------------------------------------------------------------------
(* Properties. *)

\* Types.
TypeOK ==
  /\ version \in 0..MaxChunks /\ produced \in 0..version /\ pending_start \in 0..produced
  /\ raised \in 0..version /\ queued \in Seq(1..raised) /\ Len(queued) <= QueueCap
  /\ reader \in {"read", "notify", "eof", "dead"}
  /\ child \in BOOLEAN /\ reader_alive \in BOOLEAN
  /\ has_client \in BOOLEAN /\ permit \in BOOLEAN
  /\ evict_tx \in Clients \cup {Nobody}
  /\ session \in {"listed", "removed", "killed", "evicted", "dropped"}
  /\ pc \in [Clients -> PCs]
  /\ evict_rx \in [Clients -> {"open", "evicted", "closed"}]
  /\ pending_render \in [Clients -> BOOLEAN]
  /\ got \in [Clients -> Seq(1..produced)]
  /\ seen \in [Clients -> -1..version]
  /\ rung \in [Clients -> SUBSET (1..raised)]
  /\ told \in [Clients -> {"none", "evicted", "ended"}]

\* No client is sent a line twice or out of order, although the history, the
\* lines that were pending when it attached and the relay's updates overlap.
NoLineTwice ==
  \A c \in Clients : \A i \in 1..Len(got[c]) - 1 : got[c][i] < got[c][i + 1]

\* A notification goes to one client or waits for one: two relays of one screen
\* never both deliver it, and the newest one is never the one that is dropped.
NotificationOnce ==
  LET waiting == {queued[i] : i \in DOMAIN queued}
  IN /\ \A c \in Clients : rung[c] \cap waiting = {}
     /\ \A c, d \in Clients : c # d => rung[c] \cap rung[d] = {}
     /\ raised > 0 => raised \in waiting \cup UNION {rung[c] : c \in Clients}

\* However many connections are open, at most one has not been told to go, and
\* the session can still reach it (Session::connect, KillSession and Drop).
SingleOwner ==
  /\ \A c, d \in Clients :
       (pc[c] # "new" /\ pc[d] # "new" /\ evict_rx[c] = "open" /\ evict_rx[d] = "open") => c = d
  /\ \A c \in Clients : (pc[c] # "new" /\ evict_rx[c] = "open") => evict_tx = c

\* Once every client has gone the reader drains again: has_client never stays
\* set by a guard that took itself for evicted.
NobodyNoClient ==
  (session = "listed" /\ \A c \in Clients : pc[c] \in {"new", "gone"}) => ~has_client

\* A client told that its shell has ended has been shown the shell's last
\* output first (a kill closes the channel and makes no such promise).
FinalFrame ==
  \A c \in Clients : (told[c] = "ended" /\ evict_rx[c] # "closed") => seen[c] = version

\* A client that has been evicted leaves, whatever the shell and the relays of
\* other clients do.
EvictedLeaves ==
  \A c \in Clients : evict_rx[c] = "evicted" ~> pc[c] = "gone"

\* When the shell dies every attached client is let go, even if the reader never
\* sees EOF: the cleanup task finds the dead child and Drop evicts.
DeathReachesClients ==
  ~child ~> \A c \in Clients : pc[c] \in {"new", "gone"}

\* The output of a session that only one client ever attaches to is always
\* shown to it eventually: no wakeup between the reader, the initial state and
\* the relay loop is lost.
OutputShown ==
  \A c \in Clients :
    [](\A d \in Clients \ {c} : pc[d] = "new") =>
      ((pc[c] = "relay" /\ seen[c] # version) ~> (seen[c] = version \/ pc[c] # "relay"))

-----------------------------------------------------------------------------
(* What a comment says and the code does not do. *)

\* OutputShown, for the client that owns the session, when an evicted relay is
\* still in its loop: it waits on the same Notify and can take the wakeup.
OwnerSeesOutput ==
  \A c \in Clients :
    (pc[c] = "relay" /\ evict_rx[c] = "open" /\ seen[c] # version)
      ~> (seen[c] = version \/ pc[c] # "relay" \/ evict_rx[c] # "open")
=============================================================================
