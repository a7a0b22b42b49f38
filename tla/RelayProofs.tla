---------------------------- MODULE RelayProofs -----------------------------
(***************************************************************************)
(* Theorems about SessionRelay.tla, for any number of clients and chunks   *)
(* and any length of the notification queue, and about the timing of the   *)
(* same loop, RenderThrottle.tla, for every RENDER_THROTTLE: renders are   *)
(* spaced, and a client is never behind for longer than one interval after *)
(* the output pauses.                                                      *)
(***************************************************************************)
EXTENDS SessionRelay, RenderThrottle, SequenceTheorems, TLAPS

-----------------------------------------------------------------------------
(* The inductive invariant: TypeOK and one part for each property. *)

\* What waits in the queue
Waiting == {queued[i] : i \in DOMAIN queued}

\* The session holds the channel of exactly the client that has not been told
\* to go.
Owner ==
  \A c \in Clients :
    /\ evict_tx = c <=> (pc[c] # "new" /\ evict_rx[c] = "open")
    /\ pc[c] = "new" => evict_rx[c] = "open"

\* While the session is listed, has_client is set on behalf of its owner.
Flag ==
  (session = "listed" /\ has_client) =>
    \E c \in Clients : evict_tx = c /\ pc[c] # "gone"

\* What a client has received is in order, and once its initial state is
\* complete nothing of it is pending any more.
Lines ==
  \A c \in Clients :
    /\ \A i, j \in 1..Len(got[c]) : i < j => got[c][i] < got[c][j]
    /\ pc[c] \in {"spawn", "start", "relay"} =>
         \A i \in 1..Len(got[c]) : got[c][i] <= pending_start

\* A client is told that the shell has ended after the reader has.
Final ==
  /\ ~reader_alive => reader \in {"eof", "dead"}
  /\ \A c \in Clients :
       (told[c] = "ended" /\ evict_rx[c] # "closed") => ~reader_alive /\ seen[c] = version

IInv == TypeOK /\ Owner /\ Flag /\ Lines /\ NotificationOnce /\ Final

-----------------------------------------------------------------------------
(* Sequences and flags. *)

\* The lines between two points are a sequence of lines.
LEMMA LinesAfterType ==
  ASSUME NEW from \in Nat, NEW to \in Nat, from <= to
  PROVE  /\ LinesAfter(from, to) \in Seq(1..to)
         /\ Len(LinesAfter(from, to)) = to - from
         /\ \A i \in 1..to - from : LinesAfter(from, to)[i] = from + i
<1>1. to - from \in Nat
  OBVIOUS
<1>2. \A i \in 1..to - from : from + i \in 1..to
  OBVIOUS
<1>. QED  BY <1>1, <1>2 DEF LinesAfter

\* A sequence of lines is one of more lines.
LEMMA SeqWider ==
  ASSUME NEW m \in Nat, NEW n \in Nat, m <= n, NEW s \in Seq(1..m)
  PROVE  s \in Seq(1..n)
OBVIOUS

\* Every client's flag is a flag.
LEMMA FlagUpdate ==
  ASSUME NEW f \in [Clients -> BOOLEAN], NEW c \in Clients, NEW b \in BOOLEAN
  PROVE  [f EXCEPT ![c] = b] \in [Clients -> BOOLEAN]
OBVIOUS

\* push_notification keeps the queue within its limit, keeps the newest and
\* invents nothing.
LEMMA Pushed ==
  ASSUME NEW n \in Nat, NEW q \in Seq(1..n), Len(q) <= QueueCap
  PROVE  /\ PushNotification(q, n + 1) \in Seq(1..n + 1)
         /\ Len(PushNotification(q, n + 1)) \in 1..QueueCap
         /\ PushNotification(q, n + 1)[Len(PushNotification(q, n + 1))] = n + 1
         /\ \A i \in DOMAIN PushNotification(q, n + 1) :
              PushNotification(q, n + 1)[i] = n + 1
                \/ \E j \in DOMAIN q : PushNotification(q, n + 1)[i] = q[j]
<1>. DEFINE base == IF Len(q) >= QueueCap THEN Tail(q) ELSE q
<1>1. /\ base \in Seq(1..n) /\ Len(base) < QueueCap
      /\ \A i \in DOMAIN base : \E j \in DOMAIN q : base[i] = q[j]
  <2>1. CASE Len(q) >= QueueCap
    <3>1. q # << >>
      BY <2>1, RelayAssumption
    <3>2. Tail(q) \in Seq(1..n) /\ Len(Tail(q)) = Len(q) - 1
      BY <3>1
    <3>3. \A i \in DOMAIN Tail(q) : i + 1 \in DOMAIN q /\ Tail(q)[i] = q[i + 1]
      BY <3>1
    <3>. QED  BY <2>1, <3>2, <3>3, RelayAssumption
  <2>2. CASE ~(Len(q) >= QueueCap)
    BY <2>2, RelayAssumption
  <2>. QED  BY <2>1, <2>2
<1>2. base \in Seq(1..n + 1)
  BY <1>1, SeqWider
<1>. HIDE DEF base
<1>3. /\ Append(base, n + 1) \in Seq(1..n + 1)
      /\ Len(Append(base, n + 1)) = Len(base) + 1
      /\ Append(base, n + 1)[Len(base) + 1] = n + 1
      /\ \A i \in DOMAIN base : Append(base, n + 1)[i] = base[i]
      /\ \A i \in DOMAIN Append(base, n + 1) : i \in DOMAIN base \/ i = Len(base) + 1
  BY <1>2
<1>4. Len(base) \in Nat
  BY <1>2
<1>5. PushNotification(q, n + 1) = Append(base, n + 1)
  BY DEF PushNotification, base
<1>6. Len(base) + 1 \in 1..QueueCap
  BY <1>1, <1>4, RelayAssumption
<1>7. ASSUME NEW i \in DOMAIN Append(base, n + 1)
      PROVE  Append(base, n + 1)[i] = n + 1 \/ \E j \in DOMAIN q : Append(base, n + 1)[i] = q[j]
  BY <1>1, <1>3, <1>7
<1>. QED  BY <1>3, <1>5, <1>6, <1>7

-----------------------------------------------------------------------------
(* Type correctness, one lemma per group of actions. *)

\* The reader thread
LEMMA ReaderType ==
  ASSUME TypeOK, ReaderStep \/ ChildExits PROVE TypeOK'
<1>. USE DEF TypeOK, clientVars, screenVars
<1>1. ASSUME NEW chunk \in Chunks, ReadChunk(chunk) PROVE TypeOK'
  <2>1. chunk.lines \in 0..1 /\ chunk.notifies \in BOOLEAN
    BY RelayAssumption
  <2>2. /\ version' \in 0..MaxChunks /\ produced' \in 0..version' /\ raised' \in 0..version'
        /\ produced <= produced' /\ raised <= raised' /\ version <= version'
    BY <1>1, <2>1, RelayAssumption DEF ReadChunk
  <2>3. pending_start' \in 0..produced'
    BY <1>1, <2>1, <2>2 DEF ReadChunk, DrainedTo
  <2>4. queued' \in Seq(1..raised') /\ Len(queued') <= QueueCap
    <3>. DEFINE n == raised
                more == PushNotification(queued, n + 1)
    <3>1. n \in Nat /\ queued \in Seq(1..n) /\ Len(queued) <= QueueCap /\ QueueCap \in Nat
      BY RelayAssumption
    <3>2. \/ queued' = more /\ raised' = n + 1
          \/ queued' = queued /\ raised' = n
      BY <1>1 DEF ReadChunk
    <3>. HIDE DEF n
    <3>3. more \in Seq(1..n + 1) /\ Len(more) \in 1..QueueCap
      BY <3>1, Pushed
    <3>. HIDE DEF more
    <3>. QED  BY <3>1, <3>2, <3>3
  <2>5. got' \in [Clients -> Seq(1..produced')]
    <3>. DEFINE m == produced
                n == produced'
    <3>1. /\ m \in Nat /\ n \in Nat /\ m <= n
          /\ got' = got /\ got \in [Clients -> Seq(1..m)]
      BY <1>1, <2>1, <2>2, RelayAssumption DEF ReadChunk
    <3>. HIDE DEF m, n
    <3>2. ASSUME NEW c \in Clients PROVE got[c] \in Seq(1..n)
      <4>1. got[c] \in Seq(1..m)
        BY <3>1
      <4>. QED  BY <3>1, <4>1, SeqWider
    <3>3. got' \in [Clients -> Seq(1..n)]
      BY <3>1, <3>2
    <3>. QED  BY <3>3 DEF n
  <2>6. seen' \in [Clients -> -1..version'] /\ rung' \in [Clients -> SUBSET (1..raised')]
    BY <1>1, <2>2 DEF ReadChunk
  <2>. QED  BY <1>1, <2>2, <2>3, <2>4, <2>5, <2>6 DEF ReadChunk
<1>2. CASE NotifyClient \/ NotifyDeath
  <2>1. permit' \in BOOLEAN
    BY <1>2, Zenon DEF NotifyClient, NotifyDeath, NotifyOne
  <2>. QED  BY <1>2, <2>1 DEF NotifyClient, NotifyDeath
<1>3. CASE ReadEof
  <2>1. reader_alive' \in BOOLEAN
    BY <1>3, Zenon DEF ReadEof
  <2>. QED  BY <1>3, <2>1 DEF ReadEof
<1>4. CASE ChildExits
  <2>1. child' \in BOOLEAN
    BY <1>4, Zenon DEF ChildExits
  <2>. QED  BY <1>4, <2>1 DEF ChildExits
<1>. QED  BY <1>1, <1>2, <1>3, <1>4 DEF ReaderStep

\* The channels stay channels.
LEMMA SignalledType ==
  ASSUME TypeOK, NEW word \in {"open", "evicted", "closed"}
  PROVE  Signalled(word) \in [Clients -> {"open", "evicted", "closed"}]
BY DEF TypeOK, Signalled

\* take_and_render
LEMMA TakeAndRenderType ==
  ASSUME TypeOK, NEW c \in Clients, TakeAndRender(c)
  PROVE  /\ version' = version /\ produced' = produced /\ raised' = raised
         /\ pending_start' = produced /\ queued' = << >>
         /\ got' \in [Clients -> Seq(1..produced)]
         /\ rung' \in [Clients -> SUBSET (1..raised)]
         /\ seen' \in [Clients -> -1..version]
<1>. USE DEF TypeOK
<1>1. Waiting \subseteq 1..raised
  BY DEF Waiting
<1>2. LinesAfter(pending_start, produced) \in Seq(1..produced)
  BY LinesAfterType
<1>3. got[c] \o LinesAfter(pending_start, produced) \in Seq(1..produced)
  BY <1>2
<1>4. got' \in [Clients -> Seq(1..produced)]
  BY <1>3 DEF TakeAndRender
<1>5. rung' = [rung EXCEPT ![c] = rung[c] \cup Waiting]
  BY DEF TakeAndRender, Waiting
<1>6. rung' \in [Clients -> SUBSET (1..raised)]
  BY <1>1, <1>5
<1>. QED  BY <1>4, <1>6, RelayAssumption, SMTT(30) DEF TakeAndRender, FullRender

\* Attaching
LEMMA AttachType ==
  ASSUME TypeOK, NEW c \in Clients,
         Connect(c) \/ Snapshot(c) \/ DrainStale(c) \/ SpawnRelay(c) \/ StartRelay(c)
  PROVE  TypeOK'
<1>. USE DEF TypeOK, screenVars, sessionVars, Goto, PCs
<1>1. CASE Connect(c)
  <2>1. has_client' \in BOOLEAN
    BY <1>1, Zenon DEF Connect
  <2>. QED  BY <1>1, <2>1, SignalledType DEF Connect
<1>2. CASE Snapshot(c)
  <2>1. LinesAfter(0, produced) \in Seq(1..produced)
    BY LinesAfterType
  <2>2. Waiting \subseteq 1..raised
    BY DEF Waiting
  <2>3. rung' = [rung EXCEPT ![c] = rung[c] \cup Waiting]
    BY <1>2 DEF Snapshot, Waiting
  <2>4. rung' \in [Clients -> SUBSET (1..raised)]
    BY <2>2, <2>3
  <2>. QED  BY <1>2, <2>1, <2>4, RelayAssumption, SMTT(30) DEF Snapshot, FullRender
<1>3. CASE DrainStale(c)
  BY <1>3 DEF DrainStale
<1>4. CASE SpawnRelay(c)
  <2>1. permit' \in BOOLEAN
    BY <1>4, Zenon DEF SpawnRelay, NotifyOne
  <2>. QED  BY <1>4, <2>1 DEF SpawnRelay
<1>5. CASE StartRelay(c)
  <2>1. CASE reader_alive
    BY <1>5, <2>1 DEF StartRelay
  <2>2. CASE ~reader_alive
    <3>1. pc' \in [Clients -> PCs] /\ told' \in [Clients -> {"none", "evicted", "ended"}]
      BY <1>5, <2>2 DEF StartRelay
    <3>2. seen' \in [Clients -> -1..version]
      BY <1>5, <2>2, RelayAssumption DEF StartRelay, FullRender
    <3>. QED  BY <1>5, <3>1, <3>2 DEF StartRelay
  <2>. QED  BY <2>1, <2>2
<1>. QED  BY <1>1, <1>2, <1>3, <1>4, <1>5

\* The relay loop and its end
LEMMA LoopType ==
  ASSUME TypeOK, NEW c \in Clients,
         Notified(c) \/ Throttled(c) \/ Refreshed(c) \/ Evicted(c) \/ Leave(c)
           \/ GuardCheck(c) \/ GuardClear(c)
  PROVE  TypeOK'
<1>. USE DEF TypeOK, screenVars, sessionVars, Goto, PCs
<1>1. CASE Notified(c)
  <2>1. permit' \in BOOLEAN
    BY <1>1, Zenon DEF Notified
  <2>2. CASE reader_alive
    <3>1. pending_render' \in [Clients -> BOOLEAN]
      BY <1>1, <2>2, FlagUpdate DEF Notified
    <3>. QED  BY <1>1, <2>1, <2>2, <3>1 DEF Notified
  <2>3. CASE ~reader_alive
    <3>1. TakeAndRender(c)
      BY <1>1, <2>3 DEF Notified
    <3>2. produced \in 0..produced /\ << >> \in Seq(1..raised) /\ Len(<< >>) <= QueueCap
      BY RelayAssumption
    <3>. QED  BY <1>1, <2>1, <2>3, <3>1, <3>2, TakeAndRenderType DEF Notified
  <2>. QED  BY <2>2, <2>3
<1>2. CASE Throttled(c)
  <2>1. pending_render' \in [Clients -> BOOLEAN]
    BY <1>2, FlagUpdate DEF Throttled
  <2>2. produced \in 0..produced /\ << >> \in Seq(1..raised) /\ Len(<< >>) <= QueueCap
    BY RelayAssumption
  <2>3. TakeAndRender(c)
    BY <1>2 DEF Throttled
  <2>4. /\ version' = version /\ produced' = produced /\ raised' = raised
        /\ pending_start' = produced /\ queued' = << >>
        /\ got' \in [Clients -> Seq(1..produced)]
        /\ rung' \in [Clients -> SUBSET (1..raised)]
        /\ seen' \in [Clients -> -1..version]
    BY <2>3, TakeAndRenderType
  <2>5. UNCHANGED <<sessionVars, pc, evict_rx, told>>
    BY <1>2 DEF Throttled
  <2>6. /\ version' \in 0..MaxChunks /\ produced' \in 0..version' /\ pending_start' \in 0..produced'
        /\ raised' \in 0..version' /\ queued' \in Seq(1..raised') /\ Len(queued') <= QueueCap
    BY <2>2, <2>4
  <2>7. /\ got' \in [Clients -> Seq(1..produced')] /\ rung' \in [Clients -> SUBSET (1..raised')]
        /\ seen' \in [Clients -> -1..version']
    BY <2>4
  <2>. QED  BY <2>1, <2>5, <2>6, <2>7
<1>3. CASE Refreshed(c)
  BY <1>3, RelayAssumption DEF Refreshed, FullRender
<1>4. CASE Evicted(c) \/ Leave(c)
  <2>1. /\ UNCHANGED <<screenVars, sessionVars, evict_rx, pending_render, got, seen, rung>>
        /\ pc' = [pc EXCEPT ![c] = "closing"]
    BY <1>4 DEF Evicted, Leave
  <2>2. pc' \in [Clients -> PCs]
    BY <2>1
  <2>3. told' \in [Clients -> {"none", "evicted", "ended"}]
    BY <1>4 DEF Evicted, Leave
  <2>. QED  BY <2>1, <2>2, <2>3
<1>5. CASE GuardCheck(c)
  <2>1. pending_render' \in [Clients -> BOOLEAN]
    BY <1>5, FlagUpdate DEF GuardCheck
  <2>. QED  BY <1>5, <2>1 DEF GuardCheck
<1>6. CASE GuardClear(c)
  <2>1. has_client' \in BOOLEAN
    BY <1>6, Zenon DEF GuardClear
  <2>. QED  BY <1>6, <2>1 DEF GuardClear
<1>. QED  BY <1>1, <1>2, <1>3, <1>4, <1>5, <1>6

\* The session goes.
LEMMA EndType ==
  ASSUME TypeOK, RemoveDead \/ Shutdown \/ KillSession \/ DropSession
  PROVE  TypeOK'
<1>. USE DEF TypeOK, screenVars, clientVars
<1>1. CASE RemoveDead \/ Shutdown \/ DropJoins
  BY <1>1 DEF RemoveDead, Shutdown, DropJoins
<1>2. CASE KillSession \/ DropEvicts
  BY <1>2, SignalledType DEF KillSession, DropEvicts
<1>3. CASE DropKills
  <2>1. child' \in BOOLEAN
    BY <1>3, Zenon DEF DropKills
  <2>. QED  BY <1>3, <2>1 DEF DropKills
<1>. QED  BY <1>1, <1>2, <1>3 DEF DropSession

\* Every step keeps the types.
LEMMA TypeStep == ASSUME TypeOK, [Next]_vars PROVE TypeOK'
<1>1. CASE UNCHANGED vars
  BY <1>1 DEF vars, screenVars, sessionVars, clientVars, TypeOK
<1>. QED
  BY <1>1, ReaderType, AttachType, LoopType, EndType DEF Next, Relay, Over

-----------------------------------------------------------------------------
(* The other parts. *)

\* The steps that touch no channel: nobody becomes or stops being new.
LEMMA OwnerStep == ASSUME TypeOK, Owner, [Next]_vars PROVE Owner'
<1>. USE DEF TypeOK, Goto
<1>1. CASE UNCHANGED <<evict_tx, evict_rx, pc>>
  BY <1>1 DEF Owner
<1>2. ASSUME NEW c \in Clients, Connect(c) PROVE Owner'
  <2>1. /\ evict_tx' = c /\ pc[c] = "new" /\ pc' = [pc EXCEPT ![c] = "hello"]
        /\ evict_rx' = Signalled("evicted")
    BY <1>2 DEF Connect
  <2>2. evict_tx # c /\ evict_rx[c] = "open"
    BY <2>1 DEF Owner
  <2>. QED  BY <2>1, <2>2, RelayAssumption DEF Owner, Signalled
<1>3. CASE KillSession \/ DropEvicts
  BY <1>3, RelayAssumption DEF KillSession, DropEvicts, Owner, Signalled
<1>4. ASSUME NEW c \in Clients, Relay(c) \/ Refreshed(c) \/ Leave(c) PROVE Owner'
  <2>1. /\ evict_tx' = evict_tx /\ evict_rx' = evict_rx
        /\ \A d \in Clients : pc'[d] = "new" <=> pc[d] = "new"
    <3>1. CASE Snapshot(c) \/ DrainStale(c) \/ SpawnRelay(c) \/ StartRelay(c)
      BY <3>1 DEF Snapshot, DrainStale, SpawnRelay, StartRelay, sessionVars
    <3>2. CASE Notified(c) \/ Throttled(c)
      BY <3>2 DEF Notified, Throttled, sessionVars
    <3>3. CASE Evicted(c) \/ GuardCheck(c) \/ GuardClear(c) \/ Refreshed(c) \/ Leave(c)
      BY <3>3 DEF Evicted, GuardCheck, GuardClear, Refreshed, Leave, sessionVars
    <3>. QED  BY <1>4, <3>1, <3>2, <3>3 DEF Relay
  <2>. QED  BY <2>1 DEF Owner
<1>5. CASE ReaderStep \/ ChildExits \/ RemoveDead \/ Shutdown \/ DropKills \/ DropJoins
  BY <1>1, <1>5
     DEF ReaderStep, ReadChunk, NotifyClient, ReadEof, NotifyDeath, ChildExits, RemoveDead,
         Shutdown, DropKills, DropJoins, clientVars
<1>. QED
  BY <1>1, <1>2, <1>3, <1>4, <1>5 DEF Next, Over, DropSession, vars, sessionVars, clientVars

\* ClientGuard: the flag is cleared with its owner, and only an evicted client's
\* guard leaves it alone.
LEMMA FlagStep == ASSUME TypeOK, Owner, Flag, [Next]_vars PROVE Flag'
<1>. USE DEF TypeOK, Goto
<1>1. CASE UNCHANGED <<evict_tx, pc, has_client>> /\ (session' = "listed" => session = "listed")
  BY <1>1 DEF Flag
<1>2. ASSUME NEW c \in Clients, Connect(c) PROVE Flag'
  BY <1>2 DEF Connect, Flag
<1>3. ASSUME NEW c \in Clients, GuardCheck(c) PROVE Flag'
  BY <1>3 DEF GuardCheck, GuardKeeps, sessionVars, Flag, Owner
<1>4. ASSUME NEW c \in Clients, GuardClear(c) PROVE Flag'
  BY <1>4 DEF GuardClear, Flag
<1>5. ASSUME NEW c \in Clients,
             Snapshot(c) \/ DrainStale(c) \/ SpawnRelay(c) \/ StartRelay(c) \/ Notified(c)
               \/ Throttled(c) \/ Evicted(c) \/ Refreshed(c) \/ Leave(c)
      PROVE  Flag'
  <2>1. /\ evict_tx' = evict_tx /\ has_client' = has_client /\ session' = session
        /\ \A d \in Clients : pc'[d] = "gone" => pc[d] = "gone"
    <3>1. CASE Snapshot(c) \/ DrainStale(c) \/ SpawnRelay(c) \/ StartRelay(c)
      BY <3>1 DEF Snapshot, DrainStale, SpawnRelay, StartRelay, sessionVars
    <3>2. CASE Notified(c) \/ Throttled(c) \/ Evicted(c) \/ Refreshed(c) \/ Leave(c)
      BY <3>2 DEF Notified, Throttled, Evicted, Refreshed, Leave, sessionVars
    <3>. QED  BY <1>5, <3>1, <3>2
  <2>. QED  BY <2>1 DEF Flag
<1>6. CASE KillSession \/ RemoveDead \/ Shutdown \/ DropSession
  BY <1>6 DEF KillSession, RemoveDead, Shutdown, DropSession, DropKills, DropEvicts, DropJoins,
              Flag
<1>7. CASE ReaderStep \/ ChildExits
  BY <1>1, <1>7
     DEF ReaderStep, ReadChunk, NotifyClient, ReadEof, NotifyDeath, ChildExits, clientVars
<1>. QED
  BY <1>1, <1>2, <1>3, <1>4, <1>5, <1>6, <1>7
     DEF Next, Relay, Over, vars, sessionVars, clientVars

\* The lines an update brings come after those that are not pending any more.
LEMMA MoreLines ==
  ASSUME NEW n \in Nat, NEW p \in Nat, p <= n, NEW old \in Seq(1..n),
         \A i, j \in 1..Len(old) : i < j => old[i] < old[j],
         \A i \in 1..Len(old) : old[i] <= p,
         NEW all, all = old \o LinesAfter(p, n)
  PROVE  /\ \A i, j \in 1..Len(all) : i < j => all[i] < all[j]
         /\ \A i \in 1..Len(all) : all[i] \in 1..n
<1>. DEFINE new == LinesAfter(p, n)
<1>1. /\ new \in Seq(1..n) /\ Len(new) = n - p
      /\ \A i \in 1..n - p : new[i] = p + i
  BY LinesAfterType
<1>. HIDE DEF new
<1>2. Len(old) \in Nat /\ \A i \in 1..Len(old) : old[i] \in 1..n
  OBVIOUS
<1>3. /\ all \in Seq(1..n) /\ Len(all) = Len(old) + Len(new)
      /\ \A i \in 1..Len(all) : all[i] = IF i <= Len(old) THEN old[i] ELSE new[i - Len(old)]
  <2>1. all = old \o new
    BY DEF new
  <2>2. /\ old \o new \in Seq(1..n) /\ Len(old \o new) = Len(old) + Len(new)
        /\ \A i \in 1..Len(old) + Len(new) :
             (old \o new)[i] = IF i <= Len(old) THEN old[i] ELSE new[i - Len(old)]
    BY <1>1, ConcatProperties
  <2>. QED  BY <2>1, <2>2
<1>4. ASSUME NEW i \in 1..Len(all), i > Len(old) PROVE all[i] = p + (i - Len(old))
  <2>1. i - Len(old) \in 1..n - p
    BY <1>1, <1>2, <1>3, <1>4
  <2>. QED  BY <1>1, <1>2, <1>3, <1>4, <2>1
<1>5. ASSUME NEW i \in 1..Len(all), i <= Len(old) PROVE all[i] = old[i] /\ i \in 1..Len(old)
  BY <1>2, <1>3, <1>5
<1>6. \A i \in 1..Len(all) : all[i] \in 1..n
  BY <1>3
<1>7. ASSUME NEW i \in 1..Len(all), NEW j \in 1..Len(all), i < j PROVE all[i] < all[j]
  <2>1. i \in Int /\ j \in Int
    OBVIOUS
  <2>2. CASE j <= Len(old)
    BY <1>2, <1>5, <1>7, <2>1, <2>2
  <2>3. CASE i <= Len(old) /\ j > Len(old)
    <3>1. all[i] <= p /\ all[i] \in Int
      BY <1>2, <1>5, <2>3
    <3>2. all[j] = p + (j - Len(old))
      BY <1>4, <2>3
    <3>. QED  BY <1>2, <2>1, <2>3, <3>1, <3>2
  <2>4. CASE i > Len(old)
    <3>1. all[i] = p + (i - Len(old))
      BY <1>4, <2>4
    <3>2. j > Len(old)
      BY <1>2, <1>7, <2>1, <2>4
    <3>3. all[j] = p + (j - Len(old))
      BY <1>4, <3>2
    <3>. QED  BY <1>2, <1>7, <2>1, <3>1, <3>3
  <2>. QED  BY <1>2, <2>1, <2>2, <2>3, <2>4
<1>. QED  BY <1>6, <1>7

\* The history, the pending lines and the updates never overlap.
LEMMA LinesStep == ASSUME TypeOK, Lines, [Next]_vars PROVE Lines'
<1>. USE DEF Goto
<1>0. /\ pending_start \in Nat /\ produced \in Nat /\ pending_start <= produced
      /\ got \in [Clients -> Seq(1..produced)] /\ pc \in [Clients -> PCs]
      /\ \A d \in Clients : \A i \in 1..Len(got[d]) : got[d][i] \in 1..produced
  BY DEF TypeOK
\* Most steps bring no lines, complete no initial state, and make no line pending
\* again.
<1>1. ASSUME got' = got, pending_start <= pending_start', pending_start' \in Nat,
             \A d \in Clients : pc'[d] \in {"spawn", "start", "relay"} =>
                                  pc[d] \in {"spawn", "start", "relay"}
      PROVE  Lines'
  BY <1>0, <1>1 DEF Lines
<1>2. ASSUME NEW chunk \in Chunks, ReadChunk(chunk) PROVE Lines'
  <2>1. chunk.lines \in {0, 1}
    BY RelayAssumption
  <2>2. pending_start' \in {pending_start, produced + chunk.lines}
    BY <1>2 DEF ReadChunk, DrainedTo
  <2>3. pending_start' \in Nat /\ pending_start <= pending_start'
    BY <1>0, <2>1, <2>2
  <2>. QED  BY <1>1, <1>2, <2>3 DEF ReadChunk, clientVars
<1>3. ASSUME NEW c \in Clients, Snapshot(c) PROVE Lines'
  <2>1. /\ got'[c] = LinesAfter(0, produced) /\ pc'[c] = "sending"
        /\ pending_start' = pending_start
        /\ \A d \in Clients \ {c} : got'[d] = got[d] /\ pc'[d] = pc[d]
    BY <1>0, <1>3 DEF Snapshot
  <2>2. Len(got'[c]) = produced /\ \A i \in 1..produced : got'[c][i] = i
    <3>1. 0 \in Nat /\ 0 <= produced /\ produced \in Nat
      BY <1>0
    <3>. DEFINE s == LinesAfter(0, produced)
    <3>2. Len(s) = produced - 0 /\ \A i \in 1..produced - 0 : s[i] = 0 + i
      BY <3>1, LinesAfterType
    <3>. HIDE DEF s
    <3>3. Len(s) = produced /\ \A i \in 1..produced : s[i] = i
      BY <3>1, <3>2
    <3>4. got'[c] = s
      BY <2>1 DEF s
    <3>. QED  BY <3>3, <3>4
  <2>3. \A i, j \in 1..Len(got'[c]) : i < j => got'[c][i] < got'[c][j]
    BY <1>0, <2>2
  <2>. QED  BY <2>1, <2>3 DEF Lines
<1>4. ASSUME NEW c \in Clients, DrainStale(c) PROVE Lines'
  <2>1. /\ got' = got /\ pending_start' = produced
        /\ \A d \in Clients \ {c} : pc'[d] = pc[d]
    BY <1>0, <1>4 DEF DrainStale
  <2>. QED  BY <1>0, <2>1 DEF Lines
<1>5. ASSUME NEW c \in Clients, pc[c] = "relay", TakeAndRender(c),
             \A d \in Clients \ {c} : pc'[d] = pc[d]
      PROVE  Lines'
  <2>1. /\ got'[c] = got[c] \o LinesAfter(pending_start, produced)
        /\ \A d \in Clients \ {c} : got'[d] = got[d]
        /\ pending_start' = produced
    BY <1>0, <1>5 DEF TakeAndRender
  <2>2. /\ \A i, j \in 1..Len(got[c]) : i < j => got[c][i] < got[c][j]
        /\ \A i \in 1..Len(got[c]) : got[c][i] <= pending_start
    BY <1>5 DEF Lines
  <2>3. /\ \A i, j \in 1..Len(got'[c]) : i < j => got'[c][i] < got'[c][j]
        /\ \A i \in 1..Len(got'[c]) : got'[c][i] \in 1..produced
    BY <1>0, <2>1, <2>2, MoreLines
  <2>4. ASSUME NEW d \in Clients \ {c}
        PROVE  /\ \A i, j \in 1..Len(got'[d]) : i < j => got'[d][i] < got'[d][j]
               /\ \A i \in 1..Len(got'[d]) : got'[d][i] \in 1..produced
    BY <1>0, <2>1 DEF Lines
  <2>5. \A d \in Clients :
          /\ \A i, j \in 1..Len(got'[d]) : i < j => got'[d][i] < got'[d][j]
          /\ \A i \in 1..Len(got'[d]) : got'[d][i] <= produced
    BY <1>0, <2>3, <2>4
  <2>. QED  BY <2>1, <2>5 DEF Lines
<1>6. ASSUME NEW c \in Clients, Notified(c) PROVE Lines'
  <2>1. CASE reader_alive
    BY <1>0, <1>1, <1>6, <2>1 DEF Notified, screenVars
  <2>2. CASE ~reader_alive
    BY <1>0, <1>5, <1>6, <2>2 DEF Notified
  <2>. QED  BY <2>1, <2>2
<1>7. ASSUME NEW c \in Clients, Throttled(c) PROVE Lines'
  BY <1>0, <1>5, <1>7 DEF Throttled
<1>8. ASSUME NEW c \in Clients,
             Connect(c) \/ SpawnRelay(c) \/ StartRelay(c) \/ Refreshed(c) \/ Evicted(c)
               \/ Leave(c) \/ GuardCheck(c) \/ GuardClear(c)
      PROVE  Lines'
  <2>1. CASE Connect(c) \/ SpawnRelay(c) \/ StartRelay(c)
    BY <1>0, <1>1, <2>1 DEF Connect, SpawnRelay, StartRelay, screenVars
  <2>2. CASE Refreshed(c) \/ Evicted(c) \/ Leave(c)
    BY <1>0, <1>1, <2>2 DEF Refreshed, Evicted, Leave, screenVars
  <2>3. CASE GuardCheck(c) \/ GuardClear(c)
    BY <1>0, <1>1, <2>3 DEF GuardCheck, GuardClear, screenVars
  <2>. QED  BY <1>8, <2>1, <2>2, <2>3
<1>9. CASE NotifyClient \/ ReadEof \/ NotifyDeath \/ ChildExits \/ RemoveDead \/ Shutdown
             \/ KillSession \/ DropSession
  BY <1>0, <1>1, <1>9
     DEF NotifyClient, ReadEof, NotifyDeath, ChildExits, RemoveDead, Shutdown, KillSession,
         DropSession, DropKills, DropEvicts, DropJoins, clientVars, screenVars
<1>10. CASE UNCHANGED vars
  BY <1>0, <1>1, <1>10 DEF vars, screenVars, clientVars
<1>. QED
  BY <1>2, <1>3, <1>4, <1>6, <1>7, <1>8, <1>9, <1>10 DEF Next, ReaderStep, Relay, Over

\* A notification that is taken is taken once.
LEMMA RungStep ==
  ASSUME TypeOK, NotificationOnce, NEW c \in Clients,
         rung' = [rung EXCEPT ![c] = rung[c] \cup Waiting], queued' = << >>, raised' = raised
  PROVE  NotificationOnce'
<1>1. rung \in [Clients -> SUBSET (1..raised)]
  BY DEF TypeOK
<1>2. Waiting' = {}
  BY DEF Waiting
<1>3. /\ \A d \in Clients : rung[d] \cap Waiting = {}
      /\ \A d, e \in Clients : d # e => rung[d] \cap rung[e] = {}
      /\ raised > 0 => raised \in Waiting \cup UNION {rung[d] : d \in Clients}
  BY DEF NotificationOnce, Waiting
<1>4. /\ rung'[c] = rung[c] \cup Waiting
      /\ \A d \in Clients \ {c} : rung'[d] = rung[d]
  BY <1>1
<1>5. \A d, e \in Clients : d # e => rung'[d] \cap rung'[e] = {}
  BY <1>3, <1>4
<1>6. ASSUME raised > 0 PROVE raised \in UNION {rung'[d] : d \in Clients}
  <2>1. \A d \in Clients : rung[d] \subseteq rung'[d]
    BY <1>4
  <2>. QED  BY <1>3, <1>4, <1>6, <2>1
<1>. QED  BY <1>2, <1>5, <1>6 DEF NotificationOnce, Waiting

\* Notifications that are raised while others wait or have been taken are new.
LEMMA NotificationStep == ASSUME TypeOK, NotificationOnce, [Next]_vars PROVE NotificationOnce'
<1>1. CASE UNCHANGED <<rung, queued, raised>>
  BY <1>1 DEF NotificationOnce
<1>2. ASSUME NEW chunk \in Chunks, ReadChunk(chunk) PROVE NotificationOnce'
  <2>1. CASE ~chunk.notifies
    BY <1>1, <1>2, <2>1 DEF ReadChunk, clientVars
  <2>2. CASE chunk.notifies
    <3>1. raised' = raised + 1 /\ queued' = PushNotification(queued, raised + 1) /\ rung' = rung
      BY <1>2, <2>2 DEF ReadChunk, clientVars
    <3>2. /\ raised \in Nat /\ queued \in Seq(1..raised) /\ Len(queued) <= QueueCap
          /\ \A d \in Clients : rung[d] \subseteq 1..raised
      BY DEF TypeOK
    <3>3. /\ raised + 1 \in Waiting'
          /\ Waiting' \subseteq Waiting \cup {raised + 1}
      <4>1. /\ queued' \in Seq(1..raised + 1) /\ Len(queued') \in 1..QueueCap
            /\ queued'[Len(queued')] = raised + 1
            /\ \A i \in DOMAIN queued' :
                 queued'[i] = raised + 1 \/ \E j \in DOMAIN queued : queued'[i] = queued[j]
        BY <3>1, <3>2, Pushed
      <4>2. Len(queued') \in DOMAIN queued'
        BY <4>1
      <4>. QED  BY <4>1, <4>2 DEF Waiting
    <3>4. \A d \in Clients : rung[d] \cap Waiting = {} /\ raised + 1 \notin rung[d]
      BY <3>2 DEF NotificationOnce, Waiting
    <3>5. \A d, e \in Clients : d # e => rung[d] \cap rung[e] = {}
      BY DEF NotificationOnce
    <3>. QED  BY <3>1, <3>3, <3>4, <3>5 DEF NotificationOnce, Waiting
  <2>. QED  BY <2>1, <2>2
<1>3. ASSUME NEW c \in Clients, Snapshot(c) \/ TakeAndRender(c) PROVE NotificationOnce'
  <2>1. /\ rung' = [rung EXCEPT ![c] = rung[c] \cup Waiting] /\ queued' = << >>
        /\ raised' = raised
    BY <1>3 DEF Snapshot, TakeAndRender, Waiting
  <2>. QED  BY <2>1, RungStep
<1>4. ASSUME NEW c \in Clients, Notified(c) PROVE NotificationOnce'
  BY <1>1, <1>3, <1>4 DEF Notified, screenVars
<1>5. ASSUME NEW c \in Clients, Throttled(c) PROVE NotificationOnce'
  BY <1>3, <1>5 DEF Throttled
<1>6. ASSUME NEW c \in Clients,
             Connect(c) \/ DrainStale(c) \/ SpawnRelay(c) \/ StartRelay(c) \/ Refreshed(c)
               \/ Evicted(c) \/ Leave(c) \/ GuardCheck(c) \/ GuardClear(c)
      PROVE  NotificationOnce'
  BY <1>1, <1>6
     DEF Connect, DrainStale, SpawnRelay, StartRelay, Refreshed, Evicted, Leave, GuardCheck,
         GuardClear, screenVars
<1>7. CASE NotifyClient \/ ReadEof \/ NotifyDeath \/ ChildExits \/ RemoveDead \/ Shutdown
             \/ KillSession \/ DropSession
  BY <1>1, <1>7
     DEF NotifyClient, ReadEof, NotifyDeath, ChildExits, RemoveDead, Shutdown, KillSession,
         DropSession, DropKills, DropEvicts, DropJoins, clientVars, screenVars
<1>8. CASE UNCHANGED vars
  BY <1>1, <1>8 DEF vars, screenVars, clientVars
<1>. QED
  BY <1>2, <1>3, <1>4, <1>5, <1>6, <1>7, <1>8 DEF Next, ReaderStep, Relay, Over

\* Nothing is read once a client has been told that the shell has ended.
LEMMA FinalStep == ASSUME TypeOK, Owner, Final, [Next]_vars PROVE Final'
<1>. USE DEF TypeOK, Goto
<1>1. CASE UNCHANGED <<reader_alive, reader, told, evict_rx, seen, version>>
  BY <1>1 DEF Final
<1>2. CASE ReaderStep
  <2>1. ASSUME NEW chunk \in Chunks, ReadChunk(chunk) PROVE Final'
    BY <2>1 DEF ReadChunk, clientVars, Final
  <2>2. CASE NotifyClient \/ NotifyDeath
    BY <2>2 DEF NotifyClient, NotifyDeath, clientVars, screenVars, Final
  <2>3. CASE ReadEof
    BY <2>3 DEF ReadEof, clientVars, screenVars, Final
  <2>. QED  BY <1>2, <2>1, <2>2, <2>3 DEF ReaderStep
\* A channel that is closed has no sender any more.
<1>3. ASSUME NEW word \in {"evicted", "closed"}, evict_rx' = Signalled(word),
             UNCHANGED <<reader_alive, reader, told, seen, version>>
      PROVE  Final'
  <2>1. \A c \in Clients : evict_rx[c] = "closed" => evict_rx'[c] = "closed"
    BY <1>3 DEF Signalled, Owner
  <2>. QED  BY <1>3, <2>1 DEF Final
<1>4. CASE KillSession \/ DropEvicts
  BY <1>3, <1>4 DEF KillSession, DropEvicts, screenVars
<1>5. ASSUME NEW c \in Clients, Connect(c) PROVE Final'
  BY <1>3, <1>5 DEF Connect, screenVars
\* Whoever is shown the screen is shown its last version.
<1>6. ASSUME NEW c \in Clients, FullRender(c), version' = version, evict_rx' = evict_rx,
             reader_alive' = reader_alive, reader' = reader,
             told' = told \/ (~reader_alive /\ told' = [told EXCEPT ![c] = "ended"])
      PROVE  Final'
  BY <1>6 DEF Final, FullRender
<1>7. ASSUME NEW c \in Clients, Snapshot(c) \/ Refreshed(c) \/ Throttled(c) PROVE Final'
  BY <1>6, <1>7 DEF Snapshot, Refreshed, Throttled, TakeAndRender, sessionVars, screenVars
<1>8. ASSUME NEW c \in Clients, StartRelay(c) PROVE Final'
  BY <1>1, <1>6, <1>8 DEF StartRelay, sessionVars, screenVars
<1>9. ASSUME NEW c \in Clients, Notified(c) PROVE Final'
  BY <1>1, <1>6, <1>9 DEF Notified, TakeAndRender, screenVars
<1>10. ASSUME NEW c \in Clients, Evicted(c) PROVE Final'
  BY <1>10 DEF Evicted, sessionVars, screenVars, Final
<1>11. ASSUME NEW c \in Clients,
              DrainStale(c) \/ SpawnRelay(c) \/ Leave(c) \/ GuardCheck(c) \/ GuardClear(c)
       PROVE  Final'
  BY <1>1, <1>11
     DEF DrainStale, SpawnRelay, Leave, GuardCheck, GuardClear, screenVars, sessionVars
<1>12. CASE ChildExits \/ RemoveDead \/ Shutdown \/ DropKills \/ DropJoins
  BY <1>1, <1>12
     DEF ChildExits, RemoveDead, Shutdown, DropKills, DropJoins, clientVars, screenVars
<1>13. CASE UNCHANGED vars
  BY <1>1, <1>13 DEF vars, screenVars, sessionVars, clientVars
<1>. QED
  BY <1>2, <1>4, <1>5, <1>7, <1>8, <1>9, <1>10, <1>11, <1>12, <1>13
     DEF Next, Relay, DropSession, Over

-----------------------------------------------------------------------------
\* IInv is an invariant of every session.
THEOREM Invariance == Spec => []IInv
<1>1. ASSUME Init PROVE IInv
  <2>1. TypeOK
    <3>1. /\ child \in BOOLEAN /\ reader_alive \in BOOLEAN
          /\ has_client \in BOOLEAN /\ permit \in BOOLEAN
      BY <1>1, Zenon DEF Init
    <3>2. pending_render \in [Clients -> BOOLEAN]
      BY <1>1 DEF Init
    <3>. QED  BY <1>1, <3>1, <3>2, RelayAssumption DEF Init, TypeOK, PCs
  <2>2. Owner /\ Lines /\ NotificationOnce
    BY <1>1, RelayAssumption DEF Init, Owner, Lines, NotificationOnce
  <2>3. Flag
    BY <1>1 DEF Init, Flag
  <2>4. Final
    BY <1>1 DEF Init, Final
  <2>. QED  BY <2>1, <2>2, <2>3, <2>4 DEF IInv
<1>2. IInv /\ [Next]_vars => IInv'
  BY TypeStep, OwnerStep, FlagStep, LinesStep, NotificationStep, FinalStep DEF IInv
<1>. QED  BY <1>1, <1>2, PTL DEF Spec

\* Every variable keeps its type: no line is pending that has not been produced,
\* and the notification queue keeps to its limit.
THEOREM TypeCorrect == Spec => []TypeOK
BY Invariance, PTL DEF IInv

\* Session::connect, disconnect and Drop: at most one connection has not been
\* told to go, and the session can reach it.
THEOREM SingleOwnerHolds == Spec => []SingleOwner
<1>1. IInv => SingleOwner
  BY DEF IInv, Owner, SingleOwner
<1>. QED  BY <1>1, Invariance, PTL

\* ClientGuard: once every client has gone, has_client is clear.
THEOREM NobodyNoClientHolds == Spec => []NobodyNoClient
<1>1. IInv => NobodyNoClient
  BY DEF IInv, Owner, Flag, NobodyNoClient
<1>. QED  BY <1>1, Invariance, PTL

\* send_initial_state and take_and_render: no client is sent a line twice or out
\* of order.
THEOREM NoLineTwiceHolds == Spec => []NoLineTwice
<1>1. ASSUME IInv PROVE NoLineTwice
  <2>. SUFFICES ASSUME NEW c \in Clients, NEW i \in 1..Len(got[c]) - 1
                PROVE  got[c][i] < got[c][i + 1]
    BY DEF NoLineTwice
  <2>1. Len(got[c]) \in Nat
    BY <1>1 DEF IInv, TypeOK
  <2>2. i \in 1..Len(got[c]) /\ i + 1 \in 1..Len(got[c]) /\ i < i + 1
    BY <2>1
  <2>. QED  BY <1>1, <2>2 DEF IInv, Lines
<1>. QED  BY <1>1, Invariance, PTL

\* push_notification and its takers: a notification reaches one client at most,
\* and the newest is never lost.
THEOREM NotificationOnceHolds == Spec => []NotificationOnce
BY Invariance, PTL DEF IInv

\* screen_to_client: "session ended" comes after the last frame.
THEOREM FinalFrameHolds == Spec => []FinalFrame
<1>1. IInv => FinalFrame
  BY DEF IInv, Final, FinalFrame
<1>. QED  BY <1>1, Invariance, PTL

-----------------------------------------------------------------------------
(* The timing of screen_to_client, with the clocks of RenderThrottle.tla. *)

\* Time stands still between a read and the wakeup it causes.
AtOnce ==
  /\ reading = "notify" => quiet = 0
  /\ wakeup /\ stale => quiet = 0

\* A change that no wakeup is on its way for has a render scheduled, and the
\* sleep ends RENDER_THROTTLE after the last output.
Scheduled ==
  stale /\ ~wakeup /\ reading = "read" =>
    render_due /\ throttle_sleep + quiet <= RENDER_THROTTLE

\* The sleep that is left and the time since the last render add up.
Spaced == render_due => since_render + throttle_sleep >= RENDER_THROTTLE

ThrottleIInv == TimedTypeOK /\ AtOnce /\ Scheduled /\ Spaced

\* The schedule of screen_to_client, its timer, flag and clocks, fits together in
\* every reachable state.
THEOREM ThrottleInvariance == TimedSpec => []ThrottleIInv
<1>1. TimedInit => ThrottleIInv
  <2>. SUFFICES ASSUME TimedInit PROVE ThrottleIInv
    OBVIOUS
  <2>1. wakeup \in BOOLEAN /\ render_due \in BOOLEAN /\ stale \in BOOLEAN /\ wakeup /\ ~stale
    BY Zenon DEF TimedInit
  <2>. QED
    BY <2>1, ThrottleAssumption DEF TimedInit, ThrottleIInv, TimedTypeOK, AtOnce, Scheduled, Spaced, Cap
<1>2. ThrottleIInv /\ [TimedNext]_timedVars => ThrottleIInv'
  <2>. SUFFICES ASSUME ThrottleIInv, [TimedNext]_timedVars PROVE ThrottleIInv'
    OBVIOUS
  <2>. USE ThrottleAssumption DEF ThrottleIInv, TimedTypeOK, AtOnce, Scheduled, Spaced, Cap
  <2>1. CASE TimedRead
    <3>1. stale' \in BOOLEAN
      BY <2>1, Zenon DEF TimedRead
    <3>. QED  BY <2>1, <3>1 DEF TimedRead
  <2>2. CASE TimedNotify
    <3>1. wakeup' \in BOOLEAN /\ wakeup'
      BY <2>2, Zenon DEF TimedNotify
    <3>. QED  BY <2>2, <3>1 DEF TimedNotify
  <2>3. CASE TimedNotified
    <3>1. render_due' \in BOOLEAN /\ render_due' /\ wakeup' \in BOOLEAN
      BY <2>3, Zenon DEF TimedNotified
    <3>. QED  BY <2>3, <3>1 DEF TimedNotified, SleepAfterWakeup
  <2>4. CASE TimedThrottled
    <3>1. render_due' \in BOOLEAN /\ ~render_due' /\ stale' \in BOOLEAN /\ ~stale'
      BY <2>4, Zenon DEF TimedThrottled
    <3>. QED  BY <2>4, <3>1 DEF TimedThrottled
  <2>5. CASE TimedRefreshed
    BY <2>5 DEF TimedRefreshed
  <2>6. CASE Tick
    BY <2>6 DEF Tick, Ready, Advance
  <2>7. CASE UNCHANGED timedVars
    BY <2>7 DEF timedVars
  <2>. QED  BY <2>1, <2>2, <2>3, <2>4, <2>5, <2>6, <2>7 DEF TimedNext
<1>. QED  BY <1>1, <1>2, PTL DEF TimedSpec

\* The clocks stay below their caps, and the sleep within RENDER_THROTTLE.
THEOREM ThrottleTypeCorrect == TimedSpec => []TimedTypeOK
<1>1. ThrottleIInv => TimedTypeOK
  BY DEF ThrottleIInv
<1>. QED  BY <1>1, ThrottleInvariance, PTL

\* screen_to_client: a client is behind for at most RENDER_THROTTLE after the
\* last output.
THEOREM CatchesUpHolds == TimedSpec => []CatchesUp
<1>1. ThrottleIInv => CatchesUp
  BY ThrottleAssumption DEF ThrottleIInv, TimedTypeOK, AtOnce, Scheduled, CatchesUp
<1>. QED  BY <1>1, ThrottleInvariance, PTL

\* screen_to_client: two throttled renders are RENDER_THROTTLE apart.
THEOREM MinIntervalHolds == TimedSpec => MinInterval
<1>1. ThrottleIInv => (TimedThrottled => since_render >= RENDER_THROTTLE)
  BY ThrottleAssumption DEF ThrottleIInv, TimedTypeOK, Spaced, TimedThrottled
<1>2. ThrottleIInv => [TimedThrottled => since_render >= RENDER_THROTTLE]_timedVars
  BY <1>1
<1>. QED  BY <1>2, ThrottleInvariance, PTL DEF MinInterval
=============================================================================
