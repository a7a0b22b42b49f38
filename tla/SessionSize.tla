---------------------------- MODULE SessionSize -----------------------------
(***************************************************************************)
(* The three sizes of a session: the stored dims, the screen and the PTY   *)
(* (session.rs, session_setup.rs), and the terminals of the clients that   *)
(* set them: setup_session and the registry it looks the session up in,    *)
(* the blocking jobs of resize_or_sigwinch, the client's SIGWINCH handler  *)
(* and the Resize messages that client_to_pty handles.                     *)
(*                                                                         *)
(* A job runs on a thread of its own and goes on when the task that waits  *)
(* for it is aborted. A size is one number: columns and rows are treated   *)
(* alike.                                                                  *)
(***************************************************************************)
EXTENDS Integers, Sequences, FiniteSets

CONSTANTS
  Clients,      \* each attaches at most once
  Nobody,
  Sizes,        \* what a terminal may report; 0 is possible
  DEFAULT_SIZE, \* DEFAULT_COLS, DEFAULT_ROWS
  MaxChanges    \* bound: how often terminals are resized

ASSUME SizeAssumption ==
  /\ IsFiniteSet(Clients) /\ Nobody \notin Clients
  /\ Sizes \subseteq Nat /\ DEFAULT_SIZE \in Sizes \ {0} /\ MaxChanges \in Nat

VARIABLES
  \* the session of one name
  listed,       \* it is in the SessionManager
  dims, screen, pty,
  owner,        \* the client that connected last
  \* per client
  pc,
  term,         \* size of its terminal
  asked,        \* size in its Connect message
  winch,        \* a SIGWINCH its handler has not served
  resizes,      \* Resize messages sent and not yet handled
  job,          \* its blocking job
  \* bound
  changes

sessionVars == <<listed, dims, screen, pty, owner>>
clientVars  == <<pc, term, asked, winch, resizes, job>>
vars == <<sessionVars, clientVars, changes>>

\* "asking": Connect is sent; "attached": connect() has returned; "setup": the
\* job of resize_or_sigwinch is awaited; "connected": send_initial_state is due;
\* "handling": client_to_pty awaits the job of a Resize.
PCs == {"new", "asking", "attached", "setup", "connected", "relay", "handling", "gone"}

Jobs == {"none", "resize", "store", "sigwinch"}

NoJob == [op |-> "none", size |-> 0]

Sanitize(size) == IF size > 0 THEN size ELSE 1

Init ==
  /\ listed = FALSE /\ owner = Nobody
  /\ dims = DEFAULT_SIZE /\ screen = DEFAULT_SIZE /\ pty = DEFAULT_SIZE
  /\ pc = [c \in Clients |-> "new"]
  /\ term \in [Clients -> Sizes]
  /\ asked = term
  /\ winch = [c \in Clients |-> FALSE]
  /\ resizes = [c \in Clients |-> << >>]
  /\ job = [c \in Clients |-> NoJob]
  /\ changes = 0

Goto(c, label) == pc' = [pc EXCEPT ![c] = label]

-----------------------------------------------------------------------------
(* The client. *)

\* connect reads the terminal's size and sends it.
Ask(c) ==
  /\ pc[c] = "new"
  /\ asked' = [asked EXCEPT ![c] = term[c]]
  /\ Goto(c, "asking")
  /\ UNCHANGED <<sessionVars, term, winch, resizes, job, changes>>

\* The signal handler is installed once Connected has come; before that, a
\* change of size goes unnoticed.
HandlerInstalled(c) == pc[c] \in {"relay", "handling"}

TerminalResized(c) ==
  /\ pc[c] # "gone"
  /\ changes < MaxChanges
  /\ changes' = changes + 1
  /\ \E size \in Sizes \ {term[c]} : term' = [term EXCEPT ![c] = size]
  /\ winch' = [winch EXCEPT ![c] = HandlerInstalled(c)]
  /\ UNCHANGED <<sessionVars, pc, asked, resizes, job>>

\* Mutant: the handler sends the size it connected with.
ReportedStale(c) == asked[c]

\* get_terminal_size when the signal is served: signals that came together are
\* one.
Reported(c) == term[c]

SendResize(c) ==
  /\ winch[c] /\ pc[c] # "gone"
  /\ winch' = [winch EXCEPT ![c] = FALSE]
  /\ resizes' = [resizes EXCEPT ![c] = Append(@, Reported(c))]
  /\ UNCHANGED <<sessionVars, pc, term, asked, job, changes>>

-----------------------------------------------------------------------------
(* setup_session. *)

\* SessionManager::create and get_or_create: zero becomes the default.
Created(size) == IF size > 0 THEN size ELSE DEFAULT_SIZE

ConnectModes == {"CreateOrAttach", "CreateOnly", "AttachOnly"}

\* No session of that name: Session::new gives all three the same size, and
\* nothing is resized.
SetupCreates(c, mode) ==
  /\ pc[c] = "asking"
  /\ ~listed /\ mode # "AttachOnly"
  /\ listed' = TRUE /\ owner' = c
  /\ dims' = Created(asked[c]) /\ pty' = Created(asked[c])
  /\ screen' = Sanitize(Created(asked[c]))
  /\ Goto(c, "connected")
  /\ UNCHANGED <<term, asked, winch, resizes, job, changes>>

\* The session exists: Session::connect, and the manager lock is released.
SetupAttaches(c, mode) ==
  /\ pc[c] = "asking"
  /\ listed /\ mode # "CreateOnly"
  /\ owner' = c
  /\ Goto(c, "attached")
  /\ UNCHANGED <<listed, dims, screen, pty, term, asked, winch, resizes, job, changes>>

\* An Error is sent: the session exists and should not, or does not and should,
\* or its PTY cannot be had.
SetupRefused(c, mode) ==
  /\ pc[c] = "asking"
  /\ listed => mode = "CreateOnly"
  /\ Goto(c, "gone")
  /\ UNCHANGED <<sessionVars, term, asked, winch, resizes, job, changes>>

\* The sizes are compared as they were sent, not sanitized.
NeedsResize(c) == dims # asked[c]

\* The dims are read, and the job is spawned.
ReadDims(c) ==
  /\ pc[c] = "attached"
  /\ job' = [job EXCEPT ![c] = [op |-> IF NeedsResize(c) THEN "resize" ELSE "sigwinch",
                                size |-> asked[c]]]
  /\ Goto(c, "setup")
  /\ UNCHANGED <<sessionVars, term, asked, winch, resizes, changes>>

\* Connected reaches the client, and the relays start.
Connected(c) ==
  /\ pc[c] = "connected"
  /\ Goto(c, "relay")
  /\ UNCHANGED <<sessionVars, term, asked, winch, resizes, job, changes>>

\* client_to_pty decodes a Resize and spawns its job.
HandleResize(c) ==
  /\ pc[c] = "relay"
  /\ resizes[c] # << >>
  /\ job[c] = NoJob
  /\ job' = [job EXCEPT ![c] = [op |-> "resize", size |-> Head(resizes[c])]]
  /\ resizes' = [resizes EXCEPT ![c] = Tail(@)]
  /\ Goto(c, "handling")
  /\ UNCHANGED <<sessionVars, term, asked, winch, changes>>

-----------------------------------------------------------------------------
(* The blocking jobs. *)

\* Where the task that awaits the job is once the job has ended.
AfterJob(c, ok) ==
  CASE pc[c] = "gone" -> "gone"
    [] pc[c] # "gone" /\ ~ok -> "gone"
    [] pc[c] = "setup" /\ ok -> "connected"
    [] pc[c] = "handling" /\ ok -> "relay"

EndJob(c, ok) ==
  /\ job' = [job EXCEPT ![c] = NoJob]
  /\ Goto(c, AfterJob(c, ok))

\* resize_pty, under the locks of the screen and of the master.
ResizePty(c) ==
  /\ job[c].op = "resize"
  /\ pty' = Sanitize(job[c].size)
  /\ screen' = Sanitize(job[c].size)
  /\ job' = [job EXCEPT ![c].op = "store"]
  /\ UNCHANGED <<listed, dims, owner, pc, term, asked, winch, resizes, changes>>

\* Mutant: the screen is resized before the PTY refuses.
ScreenAfterFailureResized(c) == IF job[c].op = "resize" THEN Sanitize(job[c].size) ELSE screen

ScreenAfterFailure(c) == screen

\* The PTY refuses: the screen and the dims stay.
JobFails(c) ==
  /\ job[c].op \in {"resize", "sigwinch"}
  /\ screen' = ScreenAfterFailure(c)
  /\ EndJob(c, FALSE)
  /\ UNCHANGED <<listed, dims, pty, owner, term, asked, winch, resizes, changes>>

\* The dims are stored under their own lock, after the others are released.
StoreDims(c) ==
  /\ job[c].op = "store"
  /\ dims' = Sanitize(job[c].size)
  /\ EndJob(c, TRUE)
  /\ UNCHANGED <<listed, screen, pty, owner, term, asked, winch, resizes, changes>>

\* The same size again, only to make the kernel signal the application.
Sigwinch(c) ==
  /\ job[c].op = "sigwinch"
  /\ pty' = Sanitize(job[c].size)
  /\ EndJob(c, TRUE)
  /\ UNCHANGED <<listed, dims, screen, owner, term, asked, winch, resizes, changes>>

-----------------------------------------------------------------------------
\* Detach, a closed socket or eviction: the tasks are aborted, a job is not.
\* While the session is being set up nobody watches the socket.
Leave(c) ==
  /\ pc[c] \in {"connected", "relay", "handling"}
  /\ Goto(c, "gone")
  /\ UNCHANGED <<sessionVars, term, asked, winch, resizes, job, changes>>

\* KillSession, or the cleanup task: the session leaves the registry and its
\* clients go. Jobs still running can only change what nobody sees any more.
Remove ==
  /\ listed
  /\ listed' = FALSE /\ owner' = Nobody
  /\ pc' = [c \in Clients |-> IF pc[c] \in {"new", "asking"} THEN pc[c] ELSE "gone"]
  /\ job' = [c \in Clients |-> NoJob]
  /\ UNCHANGED <<dims, screen, pty, term, asked, winch, resizes, changes>>

Over == (~listed /\ \A c \in Clients : pc[c] = "gone") /\ UNCHANGED vars

Job(c) == ResizePty(c) \/ StoreDims(c) \/ Sigwinch(c)

Next ==
  \/ \E c \in Clients :
       \/ Ask(c) \/ TerminalResized(c) \/ SendResize(c)
       \/ \E mode \in ConnectModes :
            SetupCreates(c, mode) \/ SetupAttaches(c, mode) \/ SetupRefused(c, mode)
       \/ ReadDims(c) \/ Connected(c) \/ HandleResize(c)
       \/ Job(c) \/ JobFails(c) \/ Leave(c)
  \/ Remove
  \/ Over

(* The signal handler, the relay and the blocking threads run when they    *)
(* can.                                                                    *)
Fairness == \A c \in Clients :
  WF_vars(SendResize(c)) /\ WF_vars(HandleResize(c)) /\ WF_vars(Job(c) \/ JobFails(c))

Spec == Init /\ [][Next]_vars /\ Fairness

-----------------------------------------------------------------------------
(* Properties. *)

\* Types; no part of the session ever has a size of zero.
TypeOK ==
  /\ {dims, screen, pty} \subseteq (Sizes \cup {1}) \ {0}
  /\ owner \in Clients \cup {Nobody}
  /\ listed \in BOOLEAN /\ (listed <=> owner # Nobody)
  /\ pc \in [Clients -> PCs] /\ winch \in [Clients -> BOOLEAN]
  /\ term \in [Clients -> Sizes] /\ asked \in [Clients -> Sizes]
  /\ resizes \in [Clients -> Seq(Sizes)]
  /\ job \in [Clients -> [op : Jobs, size : Sizes \cup {0}]]
  /\ changes \in 0..MaxChanges

\* The clients that are changing the session's size, from the read of the dims on.
Resizing == {c \in Clients : pc[c] \in {"attached", "setup"} \/ job[c] # NoJob}

Agreed == dims = screen /\ screen = pty

\* As long as no two clients resize the session at the same time, it has one
\* size whenever nobody does, also after a job has failed half-way.
AgreedIfSerial ==
  [](Cardinality(Resizing) <= 1) => [](listed /\ Resizing = {} => Agreed)

\* A change of the terminal that the handler has noticed is applied to screen
\* and PTY, unless the client goes; signals may be merged, messages queued, and
\* the jobs of other clients in the way.
ResizeApplied ==
  \A c \in Clients :
    (HandlerInstalled(c) /\ (winch[c] \/ resizes[c] # << >>))
      ~> ((screen = Sanitize(term[c]) /\ pty = Sanitize(term[c])) \/ pc[c] = "gone")
=============================================================================
