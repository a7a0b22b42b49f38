------------------------------- MODULE Startup ------------------------------
(***************************************************************************)
(* Who owns the socket file: run_server (server/mod.rs) finds, probes,     *)
(* removes and binds it and removes it again when it ends, and             *)
(* ensure_server_running (client/server_launcher.rs) starts a server under *)
(* a lock file when it finds none. Every system call is a step: the file   *)
(* system and flock are the shared state of processes that know nothing of *)
(* each other. Servers can be stopped, and servers and clients can die at  *)
(* any point; the file of a server that died stays.                        *)
(***************************************************************************)
EXTENDS Naturals, FiniteSets

CONSTANTS
  Servers,        \* server processes, each of which runs once
  Launchers,      \* clients, each of which calls ensure_server_running once
  MaxPolls,       \* SERVER_POLL_MAX
  None            \* nobody, nothing

ASSUME PollsAssumption == MaxPolls \in Nat \ {0}
ASSUME NoneAssumption == None \notin Servers \cup Launchers

VARIABLES
  srv,            \* where each server is
  file,           \* the server whose socket has the path, or None
  pc,             \* where each launcher is
  polls,          \* polls each launcher has made
  lock,           \* the launcher that holds the lock file, or None
  overlapped,     \* ghost: two servers have been starting at the same time
  loose           \* ghost: a server was started by hand, or a client died or
                  \*        gave up while the server it started was on its way

vars == <<srv, file, pc, polls, lock, overlapped, loose>>
serverVars == <<srv, file, overlapped>>
launcherVars == <<pc, polls, lock, loose>>

Starting == {"exists", "probe", "remove", "bind"}

\* A socket accepts connections from bind until its listener is dropped, also
\* while the sessions are cleaned up and after its file has gone.
Listening(s) == srv[s] \in {"serving", "draining", "unlinked"}

\* UnixStream::connect
Connects == file # None /\ Listening(file)

Init ==
  /\ srv = [s \in Servers |-> "off"]
  /\ file = None
  /\ pc = [l \in Launchers |-> "idle"]
  /\ polls = [l \in Launchers |-> 0]
  /\ lock = None
  /\ overlapped = FALSE
  /\ loose = FALSE

-----------------------------------------------------------------------------
(* run_server *)

Goes(s, from, to) == srv[s] = from /\ srv' = [srv EXCEPT ![s] = to]

Started(s) ==
  /\ Goes(s, "off", "exists")
  /\ overlapped' = (overlapped \/ \E t \in Servers : srv[t] \in Starting)

\* path.exists()
Exists(s) ==
  /\ Goes(s, "exists", IF file = None THEN "bind" ELSE "probe")
  /\ UNCHANGED <<file, overlapped, launcherVars>>

\* "another server is already running", or the file is stale
Probe(s) ==
  /\ Goes(s, "probe", IF Connects THEN "ended" ELSE "remove")
  /\ UNCHANGED <<file, overlapped, launcherVars>>

\* remove_file, whatever is at the path by now
Remove(s) ==
  /\ Goes(s, "remove", "bind")
  /\ file' = None
  /\ UNCHANGED <<overlapped, launcherVars>>

\* UnixListener::bind fails if there is a file.
Bind(s) ==
  /\ IF file = None
       THEN Goes(s, "bind", "serving") /\ file' = s
       ELSE Goes(s, "bind", "ended") /\ UNCHANGED file
  /\ UNCHANGED <<overlapped, launcherVars>>

\* SIGTERM or SIGINT: the accept loop ends and the sessions are dropped.
Stop(s) ==
  /\ Goes(s, "serving", "draining")
  /\ UNCHANGED <<file, overlapped, launcherVars>>

\* SocketGuard::drop, then the listener is dropped.
Unlink(s) ==
  /\ Goes(s, "draining", "unlinked")
  /\ file' = None
  /\ UNCHANGED <<overlapped, launcherVars>>

Close(s) ==
  /\ Goes(s, "unlinked", "ended")
  /\ UNCHANGED <<file, overlapped, launcherVars>>

Crash(s) ==
  /\ srv[s] \in Starting \cup {"serving", "draining", "unlinked"}
  /\ srv' = [srv EXCEPT ![s] = "ended"]
  /\ UNCHANGED <<file, overlapped, launcherVars>>

\* `retach server` on the command line
StartByHand(s) ==
  /\ Started(s)
  /\ loose' = TRUE
  /\ UNCHANGED <<file, pc, polls, lock>>

-----------------------------------------------------------------------------
(* ensure_server_running *)

Moves(l, from, to) == pc[l] = from /\ pc' = [pc EXCEPT ![l] = to]

Release(l) == lock' = IF lock = l THEN None ELSE lock

FirstConnect(l) ==
  /\ Moves(l, "idle", IF Connects THEN "ok" ELSE "lock")
  /\ UNCHANGED <<polls, lock, loose, serverVars>>

\* flock without waiting: whoever does not get it waits for a server.
Lock(l) ==
  /\ IF lock = None
       THEN Moves(l, "lock", "recheck") /\ lock' = l
       ELSE Moves(l, "lock", "wait") /\ UNCHANGED lock
  /\ UNCHANGED <<polls, loose, serverVars>>

Recheck(l) ==
  /\ Moves(l, "recheck", IF Connects THEN "ok" ELSE "spawn")
  /\ IF Connects THEN Release(l) ELSE UNCHANGED lock
  /\ UNCHANGED <<polls, loose, serverVars>>

\* Mutant: the lock is given back once the server is spawned.
SpawnReleases(l) ==
  /\ Moves(l, "spawn", "poll")
  /\ \E s \in Servers : Started(s)
  /\ Release(l)
  /\ UNCHANGED <<file, polls, loose>>

Spawn(l) ==
  /\ Moves(l, "spawn", "poll")
  /\ \E s \in Servers : Started(s)
  /\ UNCHANGED <<file, polls, lock, loose>>

\* The log file, the null device or the process cannot be had: `?` returns, and
\* the guard of the lock is dropped. It is the only way once every server of
\* the model has run.
SpawnFails(l) ==
  /\ Moves(l, "spawn", "failed")
  /\ Release(l)
  /\ UNCHANGED <<polls, loose, serverVars>>

\* The last poll of the loop
GivesUp(l) == polls[l] + 1 = MaxPolls

\* Mutant: it polls until there is a server.
PollForever(l) ==
  /\ pc[l] \in {"wait", "poll"}
  /\ Connects
  /\ pc' = [pc EXCEPT ![l] = "ok"]
  /\ Release(l)
  /\ UNCHANGED <<polls, loose, serverVars>>

\* A sleep and a connect, at most MaxPolls times; then it gives up, and the
\* lock goes with the guard.
Poll(l) ==
  /\ pc[l] \in {"wait", "poll"}
  /\ polls' = [polls EXCEPT ![l] = @ + 1]
  /\ pc' = [pc EXCEPT ![l] = IF Connects THEN "ok"
                             ELSE IF GivesUp(l) THEN "failed" ELSE @]
  /\ IF pc'[l] = pc[l] THEN UNCHANGED lock ELSE Release(l)
  /\ loose' = (loose \/ (pc[l] = "poll" /\ pc'[l] = "failed"))
  /\ UNCHANGED serverVars

\* The client is interrupted, and the kernel releases its lock.
Die(l) ==
  /\ pc[l] \notin {"ok", "failed"}
  /\ pc' = [pc EXCEPT ![l] = "failed"]
  /\ Release(l)
  /\ loose' = (loose \/ pc[l] = "poll")
  /\ UNCHANGED <<polls, serverVars>>

Next ==
  \/ \E s \in Servers : Exists(s)
  \/ \E s \in Servers : Probe(s)
  \/ \E s \in Servers : Remove(s)
  \/ \E s \in Servers : Bind(s)
  \/ \E s \in Servers : Stop(s)
  \/ \E s \in Servers : Unlink(s)
  \/ \E s \in Servers : Close(s)
  \/ \E s \in Servers : Crash(s)
  \/ \E s \in Servers : StartByHand(s)
  \/ \E l \in Launchers : FirstConnect(l)
  \/ \E l \in Launchers : Lock(l)
  \/ \E l \in Launchers : Recheck(l)
  \/ \E l \in Launchers : Spawn(l)
  \/ \E l \in Launchers : SpawnFails(l)
  \/ \E l \in Launchers : Poll(l)
  \/ \E l \in Launchers : Die(l)

\* Processes run. Signals, crashes and users are free.
Spec ==
  /\ Init /\ [][Next]_vars
  /\ \A s \in Servers :
       WF_vars(Exists(s) \/ Probe(s) \/ Remove(s) \/ Bind(s) \/ Unlink(s) \/ Close(s))
  /\ \A l \in Launchers :
       WF_vars(FirstConnect(l) \/ Lock(l) \/ Recheck(l) \/ Spawn(l) \/ SpawnFails(l) \/ Poll(l))

-----------------------------------------------------------------------------
(* Properties. *)

\* Every variable has its type, and the file and the lock have owners that know.
TypeOK ==
  /\ srv \in [Servers -> Starting \cup {"off", "serving", "draining", "unlinked", "ended"}]
  /\ file \in Servers \cup {None}
  /\ pc \in [Launchers -> {"idle", "lock", "wait", "recheck", "spawn", "poll", "ok", "failed"}]
  /\ polls \in [Launchers -> 0..MaxPolls]
  /\ lock \in Launchers \cup {None}
  /\ overlapped \in BOOLEAN /\ loose \in BOOLEAN

\* Unless two servers were starting at the same time, the socket file is that
\* of the one server that takes clients, until it removes the file itself:
\* nobody yanks the socket of a running server, and no server is running that
\* clients cannot reach. The lock of the launchers sees to that, except when a
\* server is started by hand, or when a client dies or gives up with its server
\* still on the way.
OwnsSocket ==
  (overlapped => loose) /\
  (~overlapped => \A s \in Servers : srv[s] \in {"serving", "draining"} => file = s)

\* The lock is never kept: its holder returns or gives up, whatever becomes of
\* the server.
LockFreed == \A l \in Launchers : (lock = l) ~> (lock # l)
=============================================================================
