----------------------------- MODULE SizeProofs -----------------------------
(***************************************************************************)
(* Theorems about SessionSize.tla, for any number of clients, any sizes    *)
(* their terminals may report, zero included, and any number of changes.   *)
(***************************************************************************)
EXTENDS SessionSize, FiniteSetTheorems, TLAPS

-----------------------------------------------------------------------------
(* The inductive invariant. *)

\* A job belongs to a task that awaits it, or to one that was aborted.
JobAwaited == \A c \in Clients :
  job[c] # NoJob => job[c].op # "none" /\ pc[c] \in {"setup", "handling", "gone"}

\* Nobody is connected to a session that has been removed.
Detached == ~listed =>
  \A c \in Clients : pc[c] \in {"new", "asking", "gone"} /\ job[c] = NoJob

IInv == TypeOK /\ JobAwaited /\ Detached

\* What the one client that resizes leaves half-way: nothing before resize_pty,
\* and after it the dims alone are old.
HalfWay(c) ==
  /\ job[c].op = "store" => screen = Sanitize(job[c].size) /\ pty = Sanitize(job[c].size)
  /\ job[c].op # "store" => Agreed
  /\ job[c].op = "sigwinch" => dims = job[c].size

\* The sizes agree up to what that client is doing.
Serial == listed => (Resizing = {} => Agreed) /\ \A c \in Resizing : HalfWay(c)

-----------------------------------------------------------------------------
(* Lemmas. *)

Allowed == (Sizes \cup {1}) \ {0}

\* sanitize_dimensions and SessionManager::create make a legal size of anything
\* a client can send.
LEMMA LegalSizes ==
  /\ \A size \in Sizes \cup {0} : Sanitize(size) \in Allowed
  /\ \A size \in Sizes : Created(size) \in Allowed /\ Sanitize(Created(size)) \in Allowed
  /\ DEFAULT_SIZE \in Allowed
BY SizeAssumption DEF Sanitize, Created, Allowed

\* A flag per client stays a flag per client.
LEMMA FlagUpdate ==
  ASSUME NEW f \in [Clients -> BOOLEAN], NEW c \in Clients, NEW b \in BOOLEAN
  PROVE  [f EXCEPT ![c] = b] \in [Clients -> BOOLEAN]
OBVIOUS

\* The handler is installed or not.
LEMMA HandlerFlag ==
  ASSUME NEW c \in Clients PROVE HandlerInstalled(c) \in BOOLEAN
<1>1. CASE ~HandlerInstalled(c)
  BY <1>1, SMT DEF HandlerInstalled
<1>. QED  BY <1>1, Zenon DEF HandlerInstalled

\* The steps of the client and of client_to_pty
LEMMA ClientOK ==
  ASSUME IInv, NEW c \in Clients,
         Ask(c) \/ TerminalResized(c) \/ SendResize(c) \/ ReadDims(c) \/ Connected(c)
           \/ HandleResize(c) \/ Leave(c)
  PROVE  IInv'
<1>. USE SizeAssumption
     DEF IInv, TypeOK, JobAwaited, Detached, PCs, Jobs, sessionVars, Goto
<1>1. CASE Ask(c)
  BY <1>1 DEF Ask
<1>2. CASE TerminalResized(c)
  <2>1. winch' \in [Clients -> BOOLEAN]
    BY <1>2, HandlerFlag, FlagUpdate DEF TerminalResized
  <2>. QED  BY <1>2, <2>1 DEF TerminalResized
<1>3. CASE SendResize(c)
  <2>1. winch' \in [Clients -> BOOLEAN]
    BY <1>3, FlagUpdate DEF SendResize
  <2>. QED  BY <1>3, <2>1 DEF SendResize, Reported
<1>4. CASE ReadDims(c)
  BY <1>4 DEF ReadDims
<1>5. CASE Connected(c)
  BY <1>5 DEF Connected
<1>6. CASE HandleResize(c)
  BY <1>6 DEF HandleResize, NoJob
<1>7. CASE Leave(c)
  BY <1>7 DEF Leave
<1>. QED  BY <1>1, <1>2, <1>3, <1>4, <1>5, <1>6, <1>7

\* setup_session
LEMMA SetupOK ==
  ASSUME IInv, NEW c \in Clients, NEW mode \in ConnectModes,
         SetupCreates(c, mode) \/ SetupAttaches(c, mode) \/ SetupRefused(c, mode)
  PROVE  IInv'
<1>. USE SizeAssumption DEF IInv, TypeOK, JobAwaited, Detached, PCs, sessionVars, Goto
<1>1. CASE SetupCreates(c, mode)
  <2>1. {dims', screen', pty'} \subseteq Allowed
    <3>1. asked[c] \in Sizes
      OBVIOUS
    <3>. QED  BY <1>1, <3>1, LegalSizes DEF SetupCreates
  <2>2. owner' = c /\ listed'
    BY <1>1 DEF SetupCreates
  <2>3. listed' \in BOOLEAN
    BY <1>1, Zenon DEF SetupCreates
  <2>. QED  BY <1>1, <2>1, <2>2, <2>3 DEF SetupCreates, Allowed
<1>2. CASE SetupAttaches(c, mode)
  BY <1>2 DEF SetupAttaches
<1>3. CASE SetupRefused(c, mode)
  BY <1>3 DEF SetupRefused
<1>. QED  BY <1>1, <1>2, <1>3

\* The blocking jobs
LEMMA JobOK ==
  ASSUME IInv, NEW c \in Clients, Job(c) \/ JobFails(c)
  PROVE  IInv'
<1>. USE SizeAssumption DEF IInv, TypeOK, JobAwaited, Detached, Jobs
<1>1. Sanitize(job[c].size) \in Allowed
  BY LegalSizes
<1>2. CASE ResizePty(c)
  <2>1. job[c] # NoJob /\ listed
    BY <1>2 DEF ResizePty, NoJob
  <2>2. job'[c] # NoJob /\ job'[c].op = "store"
    BY <1>2 DEF ResizePty, NoJob
  <2>3. JobAwaited' /\ Detached'
    BY <1>2, <2>1, <2>2 DEF ResizePty
  <2>4. job' \in [Clients -> [op : Jobs, size : Sizes \cup {0}]]
    <3>1. job[c] \in [op : Jobs, size : Sizes \cup {0}] /\ "store" \in Jobs
      OBVIOUS
    <3>2. [job[c] EXCEPT !.op = "store"] \in [op : Jobs, size : Sizes \cup {0}]
      BY <3>1
    <3>3. job' = [job EXCEPT ![c] = [job[c] EXCEPT !.op = "store"]]
      BY <1>2 DEF ResizePty
    <3>. QED  BY <3>2, <3>3
  <2>5. {dims', screen', pty'} \subseteq (Sizes \cup {1}) \ {0}
    BY <1>1, <1>2 DEF ResizePty, Allowed
  <2>. QED  BY <1>2, <2>3, <2>4, <2>5 DEF ResizePty
<1>3. ASSUME NEW ok \in BOOLEAN, EndJob(c, ok), job[c].op # "none"
      PROVE  /\ job' = [job EXCEPT ![c] = NoJob]
             /\ pc' \in [Clients -> PCs]
             /\ \A d \in Clients : d # c => pc'[d] = pc[d]
             /\ job' \in [Clients -> [op : Jobs, size : Sizes \cup {0}]]
             /\ JobAwaited' /\ listed
  <2>1. job[c] # NoJob /\ listed /\ pc[c] \in {"setup", "handling", "gone"}
    BY <1>3 DEF NoJob
  <2>2. AfterJob(c, ok) \in {"gone", "connected", "relay"}
    BY <1>3, <2>1 DEF AfterJob
  <2>3. job' = [job EXCEPT ![c] = NoJob] /\ pc' \in [Clients -> PCs]
    BY <1>3, <2>2 DEF EndJob, Goto, PCs
  <2>4. \A d \in Clients : d # c => pc'[d] = pc[d]
    BY <1>3 DEF EndJob, Goto
  <2>5. NoJob \in [op : Jobs, size : Sizes \cup {0}] /\ NoJob.op = "none"
    BY DEF NoJob
  <2>. QED  BY <2>1, <2>3, <2>4, <2>5
<1>4. CASE StoreDims(c)
  <2>1. EndJob(c, TRUE) /\ job[c].op # "none"
    BY <1>4 DEF StoreDims
  <2>. QED  BY <1>1, <1>3, <1>4, <2>1 DEF StoreDims, Allowed
<1>5. CASE Sigwinch(c)
  <2>1. EndJob(c, TRUE) /\ job[c].op # "none"
    BY <1>5 DEF Sigwinch
  <2>. QED  BY <1>1, <1>3, <1>5, <2>1 DEF Sigwinch, Allowed
<1>6. CASE JobFails(c)
  <2>1. EndJob(c, FALSE) /\ job[c].op # "none"
    BY <1>6 DEF JobFails
  <2>. QED  BY <1>1, <1>3, <1>6, <2>1 DEF JobFails, ScreenAfterFailure
<1>. QED  BY <1>2, <1>4, <1>5, <1>6 DEF Job

\* KillSession and the cleanup task
LEMMA RemoveOK == ASSUME IInv, Remove PROVE IInv'
BY SizeAssumption DEF IInv, TypeOK, JobAwaited, Detached, Jobs, PCs, NoJob, Remove

-----------------------------------------------------------------------------
\* IInv is an invariant of every session.
THEOREM Invariance == Spec => []IInv
<1>1. ASSUME Init PROVE IInv
  <2>1. listed \in BOOLEAN /\ (listed <=> owner # Nobody) /\ winch \in [Clients -> BOOLEAN]
    BY <1>1 DEF Init
  <2>. QED
    BY <1>1, <2>1, SizeAssumption, LegalSizes
       DEF Init, IInv, TypeOK, JobAwaited, Detached, Jobs, PCs, NoJob, Allowed
<1>2. IInv /\ [Next]_vars => IInv'
  <2>. SUFFICES ASSUME IInv, [Next]_vars PROVE IInv'
    OBVIOUS
  <2>1. CASE UNCHANGED vars
    BY <2>1 DEF vars, sessionVars, clientVars, IInv, TypeOK, JobAwaited, Detached
  <2>. QED
    BY <2>1, ClientOK, SetupOK, JobOK, RemoveOK DEF Next, Over
<1>. QED  BY <1>1, <1>2, PTL DEF Spec

\* Every variable keeps its type: no session, screen or PTY ever has a size of
\* zero, whatever the clients' terminals report.
THEOREM TypeCorrect == Spec => []TypeOK
BY Invariance, PTL DEF IInv

-----------------------------------------------------------------------------
(* AgreedIfSerial. *)

\* A set of at most one element has no two.
LEMMA AtMostOne ==
  ASSUME NEW S, IsFiniteSet(S), Cardinality(S) <= 1
  PROVE  \A a, b \in S : a = b
<1>1. Cardinality(S) \in Nat
  BY FS_CardinalityType
<1>2. CASE Cardinality(S) = 0
  BY <1>2, FS_EmptySet
<1>3. CASE Cardinality(S) = 1
  <2>1. \E x : S = {x}
    BY <1>3, FS_Singleton
  <2>. QED  BY <2>1
<1>. QED  BY <1>1, <1>2, <1>3

One == Cardinality(Resizing) <= 1

\* A step that changes no size and nobody's job, and starts no resize
LEMMA SerialKept ==
  ASSUME Serial, listed' = listed, dims' = dims, screen' = screen, pty' = pty, job' = job,
         Resizing' = Resizing
  PROVE  Serial'
BY DEF Serial, HalfWay, Agreed

\* The sizes agree, up to what the resizing client does, as long as there is one.
LEMMA SerialStep ==
  ASSUME IInv, One, One', Serial, [Next]_vars
  PROVE  Serial'
<1>. USE DEF IInv, TypeOK, sessionVars, Goto
<1>1. \A c, d \in Resizing : c = d
  <2>1. IsFiniteSet(Resizing)
    BY SizeAssumption, FS_Subset DEF Resizing
  <2>. QED  BY <2>1, AtMostOne DEF One
<1>2. \A c, d \in Resizing' : c = d
  <2>1. IsFiniteSet(Resizing')
    BY SizeAssumption, FS_Subset DEF Resizing
  <2>. QED  BY <2>1, AtMostOne DEF One
<1>3. CASE UNCHANGED vars
  BY <1>3, SerialKept DEF vars, clientVars, Resizing
<1>4. ASSUME NEW c \in Clients,
             Ask(c) \/ TerminalResized(c) \/ SendResize(c) \/ Connected(c) \/ Leave(c)
               \/ \E mode \in ConnectModes : SetupRefused(c, mode)
      PROVE  Serial'
  <2>1. Resizing' = Resizing
    BY <1>4 DEF Ask, TerminalResized, SendResize, Connected, Leave, SetupRefused, Resizing
  <2>. QED
    BY <1>4, <2>1, SerialKept
       DEF Ask, TerminalResized, SendResize, Connected, Leave, SetupRefused
<1>5. ASSUME NEW c \in Clients, NEW mode \in ConnectModes, SetupCreates(c, mode)
      PROVE  Serial'
  <2>1. Resizing' = {} /\ listed'
    BY <1>5 DEF SetupCreates, Detached, Resizing
  <2>2. Agreed'
    BY <1>5, SizeAssumption DEF SetupCreates, Agreed, Created, Sanitize
  <2>. QED  BY <2>1, <2>2 DEF Serial
\* A client that starts to resize is the only one, so the sizes agree.
<1>6. ASSUME NEW c \in Clients, c \notin Resizing, c \in Resizing', listed, listed' = listed,
             Resizing \subseteq Resizing',
             dims' = dims, screen' = screen, pty' = pty, job'[c].op \in {"none", "resize"}
      PROVE  Serial'
  <2>1. Resizing' = {c} /\ Resizing = {}
    BY <1>2, <1>6
  <2>2. Agreed
    BY <1>6, <2>1 DEF Serial
  <2>. QED  BY <1>6, <2>1, <2>2 DEF Serial, HalfWay, Agreed
<1>7. ASSUME NEW c \in Clients, NEW mode \in ConnectModes, SetupAttaches(c, mode)
      PROVE  Serial'
  <2>1. job' = job /\ job[c] = NoJob
    BY <1>7 DEF SetupAttaches, JobAwaited
  <2>2. c \notin Resizing /\ c \in Resizing' /\ Resizing \subseteq Resizing'
    BY <1>7, <2>1 DEF SetupAttaches, Resizing
  <2>. QED  BY <1>6, <1>7, <2>1, <2>2 DEF SetupAttaches, NoJob
<1>8. ASSUME NEW c \in Clients, HandleResize(c)
      PROVE  Serial'
  <2>1. /\ listed' = listed /\ dims' = dims /\ screen' = screen /\ pty' = pty
        /\ job' = [job EXCEPT ![c] = [op |-> "resize", size |-> Head(resizes[c])]]
        /\ job[c] = NoJob /\ pc[c] = "relay" /\ pc' = [pc EXCEPT ![c] = "handling"]
    BY <1>8 DEF HandleResize
  <2>2. job'[c].op = "resize" /\ job'[c] # NoJob
    BY <2>1 DEF NoJob
  <2>3. c \notin Resizing /\ c \in Resizing' /\ Resizing \subseteq Resizing'
    BY <2>1, <2>2 DEF Resizing
  <2>4. listed
    BY <2>1 DEF Detached
  <2>. QED  BY <1>6, <2>1, <2>2, <2>3, <2>4
<1>9. ASSUME NEW c \in Clients, ReadDims(c)
      PROVE  Serial'
  <2>1. c \in Resizing /\ listed /\ job[c] = NoJob
    BY <1>9 DEF ReadDims, Resizing, JobAwaited, Detached
  <2>2. Agreed
    BY <2>1 DEF Serial, HalfWay, NoJob
  <2>3. /\ job'[c].op \in {"resize", "sigwinch"} /\ job'[c].size = asked[c]
        /\ job'[c].op = "sigwinch" => dims = asked[c]
        /\ Resizing' = Resizing
    BY <1>9, <2>1 DEF ReadDims, NeedsResize, Resizing, NoJob
  <2>4. Resizing' = {c}
    BY <1>1, <2>1, <2>3
  <2>. QED  BY <1>9, <2>2, <2>3, <2>4 DEF ReadDims, Serial, HalfWay, Agreed
<1>10. ASSUME NEW c \in Clients, job[c].op # "none"
       PROVE  listed /\ Resizing = {c} /\ HalfWay(c)
  <2>1. c \in Resizing /\ listed
    BY <1>10 DEF Resizing, NoJob, Detached
  <2>. QED  BY <1>1, <2>1 DEF Serial
<1>11. ASSUME NEW c \in Clients, ResizePty(c)
       PROVE  Serial'
  <2>1. job[c].op = "resize"
    BY <1>11 DEF ResizePty
  <2>2. job'[c].op = "store" /\ job'[c].size = job[c].size
    BY <1>11 DEF ResizePty
  <2>3. Resizing' = {c}
    BY <1>10, <1>11, <2>1, <2>2 DEF ResizePty, Resizing, NoJob
  <2>. QED  BY <1>11, <2>2, <2>3 DEF ResizePty, Serial, HalfWay
\* A job that ends leaves nobody resizing.
<1>12. ASSUME NEW c \in Clients, NEW ok \in BOOLEAN, job[c].op # "none", EndJob(c, ok)
       PROVE  Resizing' = {}
  <2>1. pc[c] \in {"setup", "handling", "gone"} /\ Resizing = {c}
    BY <1>10, <1>12 DEF JobAwaited, NoJob
  <2>2. pc'[c] \in {"gone", "connected", "relay"} /\ job'[c] = NoJob
    BY <1>12, <2>1 DEF EndJob, AfterJob
  <2>3. \A d \in Clients \ {c} : pc'[d] = pc[d] /\ job'[d] = job[d]
    BY <1>12 DEF EndJob
  <2>. QED  BY <2>1, <2>2, <2>3 DEF Resizing
<1>13. ASSUME NEW c \in Clients, StoreDims(c)
       PROVE  Serial'
  <2>1. job[c].op = "store" /\ EndJob(c, TRUE)
    BY <1>13 DEF StoreDims
  <2>2. Resizing' = {} /\ HalfWay(c)
    BY <1>10, <1>12, <2>1
  <2>. QED  BY <1>13, <2>1, <2>2 DEF StoreDims, Serial, HalfWay, Agreed
<1>14. ASSUME NEW c \in Clients, Sigwinch(c)
       PROVE  Serial'
  <2>1. job[c].op = "sigwinch" /\ EndJob(c, TRUE)
    BY <1>14 DEF Sigwinch
  <2>2. Resizing' = {} /\ HalfWay(c)
    BY <1>10, <1>12, <2>1
  <2>3. dims = job[c].size /\ Agreed
    BY <2>1, <2>2 DEF HalfWay
  <2>4. dims \in Nat /\ dims # 0
    <3>1. dims \in Sizes \cup {1} /\ dims # 0
      BY DEF IInv, TypeOK
    <3>. QED  BY <3>1, SizeAssumption
  <2>. QED  BY <1>14, <2>2, <2>3, <2>4 DEF Sigwinch, Serial, Sanitize, Agreed
<1>15. ASSUME NEW c \in Clients, JobFails(c)
       PROVE  Serial'
  <2>1. job[c].op \in {"resize", "sigwinch"} /\ EndJob(c, FALSE)
    BY <1>15 DEF JobFails
  <2>2. Resizing' = {} /\ HalfWay(c)
    BY <1>10, <1>12, <2>1
  <2>. QED
    BY <1>15, <2>1, <2>2 DEF JobFails, ScreenAfterFailure, Serial, HalfWay, Agreed
<1>16. ASSUME Remove PROVE Serial'
  BY <1>16 DEF Remove, Serial
<1>. QED
  BY <1>3, <1>4, <1>5, <1>7, <1>8, <1>9, <1>11, <1>13, <1>14, <1>15, <1>16 DEF Next, Job, Over

\* resize_or_sigwinch: as long as no two clients resize at the same time, dims,
\* screen and PTY agree whenever nobody does, whatever fails on the way.
THEOREM AgreedIfSerialHolds == Spec => AgreedIfSerial
<1>1. ASSUME Init PROVE Serial
  BY <1>1 DEF Init, Serial
<1>2. IInv /\ One /\ One' /\ Serial /\ [Next]_vars => Serial'
  BY SerialStep
<1>3. Serial => (listed /\ Resizing = {} => Agreed)
  BY DEF Serial
<1>. QED  BY <1>1, <1>2, <1>3, Invariance, PTL DEF Spec, AgreedIfSerial, One
=============================================================================
