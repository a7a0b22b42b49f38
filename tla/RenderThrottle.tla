--------------------------- MODULE RenderThrottle ---------------------------
(***************************************************************************)
(* The timing of screen_to_client (session_relay.rs): the reader's wakeups *)
(* and the sleep that spaces the renders. Time passes in milliseconds and  *)
(* only when no task is ready to run, so that the delays below are the     *)
(* code's own. Eviction, death and content are SessionRelay's subject,     *)
(* whose names this module does not use, so that both can be extended.     *)
(***************************************************************************)
EXTENDS Integers

CONSTANT RENDER_THROTTLE

ASSUME ThrottleAssumption == RENDER_THROTTLE \in Nat \ {0}

VARIABLES
  reading,         \* reader thread: "read", "notify"
  wakeup,          \* screen_notify holds a permit
  render_due,      \* pending_render
  throttle_sleep,  \* milliseconds left of the sleep
  stale,           \* the screen has changed since the client was last sent it
  since_render,    \* milliseconds since the last throttled render, capped
  quiet            \* milliseconds since the last output, capped

timedVars == <<reading, wakeup, render_due, throttle_sleep, stale, since_render, quiet>>

\* Bound: a clock that has run past every delay of the loop stops counting.
Cap == RENDER_THROTTLE + 1

Advance(clock) == IF clock < Cap THEN clock + 1 ELSE clock

\* The loop is entered with a sleep of zero and nothing scheduled; the wakeup
\* is the one handle_session leaves.
TimedInit ==
  /\ reading = "read" /\ wakeup = TRUE
  /\ render_due = FALSE /\ throttle_sleep = 0
  /\ stale = FALSE /\ since_render = Cap /\ quiet = Cap

\* Bound: one read in a millisecond (more of them change nothing here).
TimedRead ==
  /\ reading = "read"
  /\ quiet > 0
  /\ stale' = TRUE
  /\ quiet' = 0
  /\ reading' = "notify"
  /\ UNCHANGED <<wakeup, render_due, throttle_sleep, since_render>>

TimedNotify ==
  /\ reading = "notify"
  /\ wakeup' = TRUE
  /\ reading' = "read"
  /\ UNCHANGED <<render_due, throttle_sleep, stale, since_render, quiet>>

\* Mutants: the sleep is left alone, or prolonged from its own deadline.
SleepAfterWakeupKept  == throttle_sleep

SleepAfterWakeupLater == throttle_sleep + RENDER_THROTTLE

\* throttle_sleep.reset(now + RENDER_THROTTLE)
SleepAfterWakeup == RENDER_THROTTLE

\* Every wakeup resets the sleep, also one that is already running.
TimedNotified ==
  /\ wakeup
  /\ wakeup' = FALSE
  /\ render_due' = TRUE
  /\ throttle_sleep' = SleepAfterWakeup
  /\ UNCHANGED <<reading, stale, since_render, quiet>>

TimedThrottled ==
  /\ render_due
  /\ throttle_sleep = 0
  /\ render_due' = FALSE
  /\ stale' = FALSE
  /\ since_render' = 0
  /\ UNCHANGED <<reading, wakeup, throttle_sleep, quiet>>

\* RefreshScreen: a full render of the screen; the schedule is left as it is.
TimedRefreshed ==
  /\ stale' = FALSE
  /\ UNCHANGED <<reading, wakeup, render_due, throttle_sleep, since_render, quiet>>

Ready == reading = "notify" \/ wakeup \/ (render_due /\ throttle_sleep = 0)

Tick ==
  /\ ~Ready
  /\ throttle_sleep' = IF throttle_sleep > 0 THEN throttle_sleep - 1 ELSE 0
  /\ since_render' = Advance(since_render)
  /\ quiet' = Advance(quiet)
  /\ UNCHANGED <<reading, wakeup, render_due, stale>>

TimedNext == \/ TimedRead \/ TimedNotify \/ TimedNotified \/ TimedThrottled
        \/ TimedRefreshed \/ Tick

(* The reader and the relay run when they are ready, and time goes on.     *)
(* Strong fairness of Tick: it is disabled whenever a task is ready.       *)
TimedFairness == /\ WF_timedVars(TimedNotify) /\ WF_timedVars(TimedNotified) /\ WF_timedVars(TimedThrottled)
            /\ SF_timedVars(Tick)

TimedSpec == TimedInit /\ [][TimedNext]_timedVars /\ TimedFairness

-----------------------------------------------------------------------------
\* Types.
TimedTypeOK ==
  /\ reading \in {"read", "notify"}
  /\ wakeup \in BOOLEAN /\ render_due \in BOOLEAN /\ stale \in BOOLEAN
  /\ throttle_sleep \in 0..RENDER_THROTTLE
  /\ since_render \in 0..Cap /\ quiet \in 0..Cap

\* Two throttled renders are never closer than RENDER_THROTTLE, however the
\* wakeups fall ("60 FPS cap").
MinInterval ==
  [][TimedThrottled => since_render >= RENDER_THROTTLE]_timedVars

\* Once output pauses, the client is behind for at most RENDER_THROTTLE: the
\* last wakeup always leads to a render of everything before it.
CatchesUp == stale => quiet <= RENDER_THROTTLE
=============================================================================
