---------------------------- MODULE StartupProofs ---------------------------
(***************************************************************************)
(* Theorems about Startup.tla, for any number of servers, clients and      *)
(* polls.                                                                  *)
(***************************************************************************)
EXTENDS Startup, TLAPS

-----------------------------------------------------------------------------
(* The inductive invariant. *)

InUse(s) == srv[s] \in {"serving", "draining"}

\* A file is that of a server that has bound it and not removed it, and a client
\* stops polling in time.
Basics ==
  /\ \A s \in Servers : srv[s] \in Starting \cup {"off", "unlinked"} => file # s
  /\ \A l \in Launchers : pc[l] \notin {"ok", "failed"} => polls[l] < MaxPolls

\* Servers that do not start at the same time: one that has found the path free
\* or stale will not meet another on it.
Alone ==
  ~overlapped =>
    /\ \A s, t \in Servers : srv[s] \in Starting /\ srv[t] \in Starting => s = t
    /\ \A s, t \in Servers : srv[s] \in {"remove", "bind"} => ~InUse(t)
    /\ \A s \in Servers : InUse(s) => file = s

\* The lock is with the client that starts a server.
Locked == \A l \in Launchers : pc[l] \in {"recheck", "spawn", "poll"} => lock = l

\* As long as every server that is starting has its client waiting for it with
\* the lock, no other client gets as far as spawning one.
Guarded ==
  ~loose =>
    /\ ~overlapped
    /\ \A s \in Servers : srv[s] \in Starting => \E l \in Launchers : pc[l] = "poll"
    /\ \A s, t \in Servers : srv[s] \in Starting => ~InUse(t)
    /\ \A l \in Launchers, t \in Servers : pc[l] = "spawn" => ~InUse(t)

IInv == TypeOK /\ Basics /\ Alone /\ Locked /\ Guarded

-----------------------------------------------------------------------------
\* A connection is taken by a server that has not yet removed its file.
LEMMA ConnectsInUse == IInv /\ Connects => file \in Servers /\ InUse(file)
BY DEF IInv, TypeOK, Basics, Connects, Listening, InUse

\* A server in use is reached, if it started alone.
LEMMA InUseConnects ==
  ASSUME IInv, ~overlapped, NEW s \in Servers, InUse(s)
  PROVE  Connects
BY NoneAssumption DEF IInv, Alone, Connects, Listening, InUse

\* The steps of a server before it binds
LEMMA ProbeOK ==
  ASSUME IInv, NEW s \in Servers, Exists(s) \/ Probe(s) \/ Remove(s)
  PROVE  IInv'
<1>. USE NoneAssumption, PollsAssumption DEF Goes, serverVars, launcherVars
<1>1. TypeOK' /\ Basics' /\ Locked'
  BY DEF Exists, Probe, Remove, IInv, TypeOK, Starting, Basics, Locked
<1>2. ASSUME NEW t \in Servers, ~overlapped, srv'[s] \in {"remove", "bind"} PROVE ~InUse(t)
  <2>1. CASE Exists(s)
    BY <1>2, <2>1 DEF Exists, IInv, TypeOK, Alone
  <2>2. CASE Probe(s)
    BY <1>2, <2>2, InUseConnects DEF Probe, IInv, TypeOK
  <2>3. CASE Remove(s)
    BY <1>2, <2>3 DEF Remove, IInv, Alone
  <2>. QED  BY <2>1, <2>2, <2>3
<1>3. \A t \in Servers : InUse(t)' <=> InUse(t)
  BY DEF Exists, Probe, Remove, InUse, IInv, TypeOK
<1>4. \A t \in Servers : srv'[t] \in Starting => srv[t] \in Starting
  BY DEF Exists, Probe, Remove, IInv, TypeOK, Starting
<1>5. \A t \in Servers : t # s => srv'[t] = srv[t]
  BY DEF Exists, Probe, Remove, IInv, TypeOK
<1>6. overlapped' = overlapped /\ loose' = loose /\ pc' = pc
  BY DEF Exists, Probe, Remove
<1>7. Alone'
  <2>1. ASSUME ~overlapped, NEW t \in Servers, InUse(t) PROVE file' = t
    <3>1. file = t
      BY <2>1 DEF IInv, Alone
    <3>2. ~Remove(s)
      BY <2>1 DEF Remove, IInv, Alone
    <3>. QED  BY <3>1, <3>2 DEF Exists, Probe
  <2>2. ASSUME ~overlapped, NEW t \in Servers, NEW u \in Servers, srv'[t] \in {"remove", "bind"}
        PROVE  ~InUse(u)
    <3>1. CASE t = s
      BY <2>2, <3>1, <1>2
    <3>2. CASE t # s
      BY <2>2, <3>2, <1>5 DEF IInv, Alone
    <3>. QED  BY <3>1, <3>2
  <2>. QED  BY <2>1, <2>2, <1>3, <1>4, <1>6 DEF IInv, Alone
<1>8. Guarded'
  BY <1>3, <1>4, <1>6 DEF IInv, Guarded
<1>. QED  BY <1>1, <1>7, <1>8 DEF IInv

\* UnixListener::bind
LEMMA BindOK ==
  ASSUME IInv, NEW s \in Servers, Bind(s)
  PROVE  IInv'
<1>. USE NoneAssumption, PollsAssumption DEF Goes, launcherVars
<1>1. TypeOK' /\ Basics' /\ Locked'
  BY DEF Bind, IInv, TypeOK, Starting, Basics, Locked
<1>2. Alone'
  BY DEF Bind, IInv, TypeOK, Alone, Starting, InUse
<1>3. Guarded'
  BY DEF Bind, IInv, TypeOK, Alone, Guarded, Locked, Starting, InUse
<1>. QED  BY <1>1, <1>2, <1>3 DEF IInv

\* A server stops, in order or not.
LEMMA StopOK ==
  ASSUME IInv, NEW s \in Servers, Stop(s) \/ Unlink(s) \/ Close(s) \/ Crash(s)
  PROVE  IInv'
<1>. USE NoneAssumption, PollsAssumption DEF Goes, launcherVars
<1>1. TypeOK' /\ Basics' /\ Locked'
  BY DEF Stop, Unlink, Close, Crash, IInv, TypeOK, Starting, Basics, Locked
<1>2. \A t \in Servers : /\ InUse(t)' => InUse(t)
                         /\ srv'[t] \in Starting => srv'[t] = srv[t]
  BY DEF Stop, Unlink, Close, Crash, InUse, IInv, TypeOK, Starting
<1>3. overlapped' = overlapped /\ loose' = loose /\ pc' = pc
  BY DEF Stop, Unlink, Close, Crash
<1>4. ASSUME ~overlapped, NEW t \in Servers, InUse(t)' PROVE file' = t
  <2>1. file = t
    BY <1>2, <1>4 DEF IInv, Alone
  <2>2. ~Unlink(s)
    BY <1>4, <2>1 DEF Unlink, IInv, TypeOK, Alone, InUse
  <2>. QED  BY <2>1, <2>2 DEF Stop, Close, Crash
<1>5. Alone'
  BY <1>2, <1>3, <1>4 DEF IInv, Alone, Starting
<1>6. Guarded'
  BY <1>2, <1>3 DEF IInv, Guarded
<1>. QED  BY <1>1, <1>5, <1>6 DEF IInv

\* A server is started, by a client or by hand.
LEMMA StartedOK ==
  ASSUME IInv, NEW s \in Servers, Started(s), file' = file
  PROVE  /\ srv' \in [Servers -> Starting \cup {"off", "serving", "draining", "unlinked", "ended"}]
         /\ overlapped' \in BOOLEAN
         /\ Alone'
         /\ \A t \in Servers : srv'[t] \in Starting \cup {"off", "unlinked"} => file # t
         /\ \A t \in Servers : InUse(t)' <=> InUse(t)
         /\ (\A t \in Servers : srv[t] \notin Starting) => overlapped' = overlapped
<1>. USE DEF Started, Goes
<1>1. srv' = [srv EXCEPT ![s] = "exists"] /\ srv[s] = "off"
  OBVIOUS
<1>2. srv' \in [Servers -> Starting \cup {"off", "serving", "draining", "unlinked", "ended"}]
  BY <1>1 DEF IInv, TypeOK, Starting
<1>3. overlapped' \in BOOLEAN
  BY Zenon DEF IInv, TypeOK
<1>4. \A t \in Servers : InUse(t)' <=> InUse(t)
  BY <1>1 DEF InUse, IInv, TypeOK
<1>5. \A t \in Servers : srv'[t] \in Starting \cup {"off", "unlinked"} => file # t
  BY <1>1 DEF IInv, TypeOK, Basics
<1>6. (\A t \in Servers : srv[t] \notin Starting) => overlapped' = overlapped
  BY DEF IInv, TypeOK
<1>7. Alone'
  <2>. SUFFICES ASSUME ~overlapped' PROVE Alone'
    BY DEF Alone
  <2>1. ~overlapped /\ \A t \in Servers : srv[t] \notin Starting
    OBVIOUS
  <2>. QED  BY <1>1, <1>4, <2>1 DEF IInv, TypeOK, Alone, Starting
<1>. QED  BY <1>2, <1>3, <1>4, <1>5, <1>6, <1>7

\* `retach server' on the command line
LEMMA StartByHandOK ==
  ASSUME IInv, NEW s \in Servers, StartByHand(s)
  PROVE  IInv'
<1>1. Started(s) /\ file' = file /\ pc' = pc /\ polls' = polls /\ lock' = lock /\ loose'
  BY DEF StartByHand
<1>2. loose' \in BOOLEAN
  BY Zenon DEF StartByHand
<1>3. TypeOK' /\ Basics' /\ Locked'
  BY <1>1, <1>2, StartedOK DEF IInv, TypeOK, Basics, Locked
<1>. QED  BY <1>1, <1>3, StartedOK DEF IInv, Guarded

\* A client before it spawns: FirstConnect, Lock, Recheck
LEMMA LockOK ==
  ASSUME IInv, NEW l \in Launchers, FirstConnect(l) \/ Lock(l) \/ Recheck(l)
  PROVE  IInv'
<1>. USE NoneAssumption DEF Moves, Release, serverVars
<1>1. TypeOK' /\ Basics' /\ Locked'
  BY DEF FirstConnect, Lock, Recheck, IInv, TypeOK, Basics, Locked
<1>2. Alone'
  BY DEF FirstConnect, Lock, Recheck, IInv, Alone, InUse
<1>3. \A t \in Servers : InUse(t)' <=> InUse(t)
  BY DEF FirstConnect, Lock, Recheck, InUse
<1>4. ASSUME ~loose, NEW k \in Launchers, NEW t \in Servers, pc'[k] = "spawn" PROVE ~InUse(t)
  <2>1. CASE pc[k] = "spawn"
    BY <1>4, <2>1 DEF IInv, Guarded
  <2>2. CASE pc[k] # "spawn"
    <3>1. ~Connects
      BY <1>4, <2>2 DEF FirstConnect, Lock, Recheck, IInv, TypeOK
    <3>. QED  BY <1>4, <3>1, InUseConnects DEF IInv, Guarded
  <2>. QED  BY <2>1, <2>2
<1>5. \A k \in Launchers : pc[k] = "poll" => pc'[k] = "poll"
  BY DEF FirstConnect, Lock, Recheck, IInv, TypeOK
<1>6. loose' = loose /\ overlapped' = overlapped /\ srv' = srv
  BY DEF FirstConnect, Lock, Recheck
<1>7. Guarded'
  BY <1>3, <1>4, <1>5, <1>6 DEF IInv, Guarded
<1>. QED  BY <1>1, <1>2, <1>7 DEF IInv

\* The holder of the lock spawns a server, or fails to.
LEMMA SpawnOK ==
  ASSUME IInv, NEW l \in Launchers, Spawn(l) \/ SpawnFails(l)
  PROVE  IInv'
<1>. USE NoneAssumption DEF Moves, Release, serverVars
<1>1. CASE Spawn(l)
  <2>1. PICK s \in Servers : Started(s)
    BY <1>1 DEF Spawn
  <2>2. file' = file /\ polls' = polls /\ lock' = lock /\ loose' = loose
        /\ pc[l] = "spawn" /\ pc' = [pc EXCEPT ![l] = "poll"]
    BY <1>1 DEF Spawn
  <2>3. TypeOK' /\ Basics' /\ Locked' /\ Alone'
    BY <2>1, <2>2, StartedOK DEF IInv, TypeOK, Basics, Locked
  <2>4. Guarded'
    <3>. SUFFICES ASSUME ~loose PROVE Guarded'
      BY <2>2 DEF Guarded
    <3>1. \A t \in Servers : srv[t] \notin Starting
      BY <2>2, NoneAssumption DEF IInv, Guarded, Locked
    <3>2. ~overlapped'
      BY <2>1, <2>2, <3>1, StartedOK DEF IInv, Guarded
    <3>3. \A t \in Servers : ~InUse(t)'
      BY <2>1, <2>2, StartedOK DEF IInv, Guarded
    <3>4. pc'[l] = "poll"
      BY <2>2 DEF IInv, TypeOK
    <3>. QED  BY <3>2, <3>3, <3>4 DEF Guarded
  <2>. QED  BY <2>3, <2>4 DEF IInv
<1>2. CASE SpawnFails(l)
  <2>1. TypeOK' /\ Basics' /\ Locked'
    BY <1>2 DEF SpawnFails, IInv, TypeOK, Basics, Locked
  <2>2. Alone' /\ Guarded'
    BY <1>2 DEF SpawnFails, IInv, TypeOK, Alone, Guarded, InUse
  <2>. QED  BY <2>1, <2>2 DEF IInv
<1>. QED  BY <1>1, <1>2

\* A client polls, and gives up in time, or dies.
LEMMA PollOK ==
  ASSUME IInv, NEW l \in Launchers, Poll(l) \/ Die(l)
  PROVE  IInv'
<1>. USE NoneAssumption, PollsAssumption DEF Release, serverVars
<1>1. srv' = srv /\ file' = file /\ overlapped' = overlapped
  BY DEF Poll, Die
<1>2. loose' \in BOOLEAN
  <2>1. CASE Poll(l)
    BY <2>1, Zenon DEF Poll, IInv, TypeOK
  <2>2. CASE Die(l)
    BY <2>2, Zenon DEF Die, IInv, TypeOK
  <2>. QED  BY <2>1, <2>2
<1>3. TypeOK' /\ Basics' /\ Locked'
  <2>1. CASE Poll(l)
    BY <1>1, <1>2, <2>1 DEF Poll, GivesUp, IInv, TypeOK, Basics, Locked
  <2>2. CASE Die(l)
    BY <1>1, <1>2, <2>2 DEF Die, IInv, TypeOK, Basics, Locked
  <2>. QED  BY <2>1, <2>2
<1>4. Alone'
  BY <1>1 DEF IInv, Alone, InUse
<1>5. Guarded'
  <2>. SUFFICES ASSUME ~loose' PROVE Guarded'
    BY DEF Guarded
  <2>1. ~loose
    BY DEF Poll, Die
  <2>2. ASSUME NEW s \in Servers, srv[s] \in Starting PROVE \E k \in Launchers : pc'[k] = "poll"
    <3>1. PICK k \in Launchers : pc[k] = "poll"
      BY <2>1, <2>2 DEF IInv, Guarded
    <3>2. ~Connects
      BY <2>1, <2>2, ConnectsInUse DEF IInv, Guarded
    <3>3. pc'[k] = "poll"
      BY <2>1, <3>1, <3>2 DEF Poll, Die, IInv, TypeOK
    <3>. QED  BY <3>3
  <2>3. \A k \in Launchers : pc'[k] = "spawn" => pc[k] = "spawn"
    BY DEF Poll, Die, IInv, TypeOK
  <2>. QED  BY <1>1, <2>1, <2>2, <2>3 DEF IInv, Guarded, InUse
<1>. QED  BY <1>3, <1>4, <1>5 DEF IInv

-----------------------------------------------------------------------------
\* IInv is an invariant of servers and clients.
THEOREM Invariance == Spec => []IInv
<1>1. ASSUME Init PROVE IInv
  <2>1. overlapped \in BOOLEAN /\ loose \in BOOLEAN
    BY <1>1, Zenon DEF Init
  <2>2. TypeOK
    BY <1>1, <2>1, PollsAssumption DEF Init, TypeOK
  <2>3. \A s \in Servers : srv[s] = "off"
    BY <1>1 DEF Init
  <2>4. \A l \in Launchers : pc[l] = "idle" /\ polls[l] = 0
    BY <1>1 DEF Init
  <2>5. file = None /\ ~overlapped
    BY <1>1 DEF Init
  <2>6. Basics
    BY <2>3, <2>4, <2>5, NoneAssumption, PollsAssumption DEF Basics, Starting
  <2>7. Alone /\ Locked /\ Guarded
    BY <2>3, <2>4, <2>5 DEF Alone, Locked, Guarded, InUse, Starting
  <2>. QED  BY <2>2, <2>6, <2>7 DEF IInv
<1>2. IInv /\ [Next]_vars => IInv'
  <2>. SUFFICES ASSUME IInv, [Next]_vars PROVE IInv'
    OBVIOUS
  <2>1. CASE UNCHANGED vars
    BY <2>1 DEF vars, IInv, TypeOK, Basics, Alone, Locked, Guarded, InUse
  <2>. QED
    BY <2>1, ProbeOK, BindOK, StopOK, StartByHandOK, LockOK, SpawnOK, PollOK DEF Next
<1>. QED  BY <1>1, <1>2, PTL DEF Spec

\* Every variable keeps its type: no client polls more than SERVER_POLL_MAX
\* times.
THEOREM TypeCorrect == Spec => []TypeOK
BY Invariance, PTL DEF IInv

\* run_server and ensure_server_running: the file of a server that takes clients
\* is its own until it removes it, unless servers started at the same time, and
\* the lock allows that only after a start by hand or a client that gave up.
THEOREM OwnsSocketHolds == Spec => []OwnsSocket
<1>1. IInv => OwnsSocket
  BY DEF IInv, Alone, Guarded, InUse, OwnsSocket
<1>. QED  BY <1>1, Invariance, PTL
=============================================================================
