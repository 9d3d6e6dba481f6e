------------------------------ MODULE Visualizer ------------------------------
(***************************************************************************)
(* The two threads of the visualizer (visualizer/core.py): the GUI thread, *)
(* which runs the GTK main loop, and SimulationThread, which runs the      *)
(* simulation up to target_time whenever the GUI thread sets `go'.  The    *)
(* simulator is only touched with `lock' held.                             *)
(*                                                                         *)
(* update_view_timeout does not wait for the lock but dispatches events    *)
(* until it gets it, so it may be entered again: `frames' is the stack of  *)
(* its calls.  Simulated times are relative to the last update_view.  A    *)
(* critical section of the GUI thread is one step; what either thread does *)
(* without the lock to `go' and `quit' is one step for each statement.     *)
(*                                                                         *)
(* Operators whose comment begins with "Fault:" are single mistakes in the *)
(* definition that follows; no specification uses them.                    *)
(***************************************************************************)
EXTENDS Naturals, Sequences, SequencesExt

CONSTANTS
  Periods,    \* the values sample_period takes
  MaxClicks   \* bound on what the user does besides closing the window

ASSUME PeriodAssumption == Periods # {} /\ Periods \subseteq Nat \ {0}
ASSUME ClickAssumption  == MaxClicks \in Nat

NoTimer == 0

VARIABLES
  gui,         \* what the GUI thread is at
  frames,      \* the timers whose update_view_timeout calls are under way
  live,        \* timers that exist in the main context
  timeoutId,   \* _update_timeout_id
  started,     \* timers started so far
  play,        \* the play button is active
  period,      \* sample_period
  clicks,      \* user actions so far
  sim,         \* what the simulation thread is at
  locked,      \* the simulation thread holds the lock
  go,          \* the event it waits for
  quit,
  ahead,       \* simulated time since the last update_view
  target,      \* target_time, from the same origin
  samples,     \* the samples of the last run: "none", "fresh" or "read"
  messages,    \* pause_messages is not empty
  updates      \* update_model callbacks pending in the main context

vars == <<gui, frames, live, timeoutId, started, play, period, clicks, sim,
          locked, go, quit, ahead, target, samples, messages, updates>>

\* create_gui has started a timer; the play button is not active yet.
Init ==
  /\ gui = "loop" /\ frames = <<>>
  /\ live = {1} /\ timeoutId = 1 /\ started = 1
  /\ play = FALSE /\ period \in Periods /\ clicks = 0
  /\ sim = "top" /\ locked = FALSE /\ go = FALSE /\ quit = FALSE
  /\ ahead = 0 /\ target = 0
  /\ samples = "none" /\ messages = FALSE /\ updates = 0

-----------------------------------------------------------------------------
(***************************************************************************)
(* SimulationThread.run().                                                 *)
(***************************************************************************)
simVars   == <<sim, locked, go, ahead, target, samples, messages, updates>>
timerVars == <<live, timeoutId, started>>
guiVars   == <<gui, frames, timerVars, play, period, clicks, quit>>

\* while not self.quit
LoopTest ==
  /\ sim = "top"
  /\ sim' = IF quit THEN "exit" ELSE "wait"
  /\ UNCHANGED <<guiVars, locked, go, ahead, target, samples, messages, updates>>

Wake ==
  /\ sim = "wait" /\ go
  /\ sim' = "clear"
  /\ UNCHANGED <<guiVars, locked, go, ahead, target, samples, messages, updates>>

Clear ==
  /\ sim = "clear"
  /\ go' = FALSE /\ sim' = "check"
  /\ UNCHANGED <<guiVars, locked, ahead, target, samples, messages, updates>>

CheckQuit ==
  /\ sim = "check"
  /\ sim' = IF quit THEN "exit" ELSE "lock"
  /\ UNCHANGED <<guiVars, locked, go, ahead, target, samples, messages, updates>>

Acquire ==
  /\ sim = "lock" /\ ~locked
  /\ locked' = TRUE /\ sim' = "run"
  /\ UNCHANGED <<guiVars, go, ahead, target, samples, messages, updates>>

\* SimulatorRunUntil, GetPauseMessages and idle_add(update_model).  The run may
\* stop early; what the previous one sampled is cleared in any case.
RunUntil ==
  /\ sim = "run"
  /\ sim' = "release"
  /\ IF ahead >= target
     THEN samples' = "none" /\ UNCHANGED <<ahead, messages>>
     ELSE /\ samples' = "fresh"
          /\ ahead' \in ahead .. target
          /\ \E message \in BOOLEAN : messages' = (messages \/ message)
  /\ updates' = updates + 1
  /\ UNCHANGED <<guiVars, locked, go, target>>

Release ==
  /\ sim = "release"
  /\ locked' = FALSE
  /\ sim' = "top"
  /\ UNCHANGED <<guiVars, go, ahead, target, samples, messages, updates>>

Simulation == LoopTest \/ Wake \/ Clear \/ CheckQuit \/ Acquire \/ RunUntil \/ Release

-----------------------------------------------------------------------------
(***************************************************************************)
(* The GUI thread.  While update_model callbacks are pending nothing of    *)
(* lower priority is dispatched.                                           *)
(***************************************************************************)
Dispatches == gui = "loop" /\ updates = 0 /\ (quit => frames # <<>>)

\* A timer fires, but not while its own callback is running.
UpdateViewTimeout(t) ==
  /\ Dispatches
  /\ t \in live /\ ~Contains(frames, t)
  /\ frames' = Append(frames, t)
  /\ gui' = "try"
  /\ UNCHANGED <<simVars, timerVars, play, period, clicks, quit>>

\* The lock is taken: dispatch what is pending, then try again.
Busy ==
  /\ gui = "try" /\ locked
  /\ gui' = "loop"
  /\ UNCHANGED <<simVars, frames, timerVars, play, period, clicks, quit>>

TryAgain ==
  /\ gui = "loop" /\ updates = 0 /\ frames # <<>>
  /\ gui' = "try"
  /\ UNCHANGED <<simVars, frames, timerVars, play, period, clicks, quit>>

\* update_view and what follows it up to go.set(), with `time' the target_time.
\* Pause messages release the play button, whose handler removes the timer;
\* without the button active the timer that called ends.
UpdateViewTo(time) ==
  /\ gui = "try" /\ ~locked
  /\ ahead' = 0 /\ target' = time
  /\ messages' = FALSE
  /\ play' = (play /\ ~messages)
  /\ IF play' THEN gui' = "set" /\ UNCHANGED <<frames, live, timeoutId>>
     ELSE /\ live' = live \ ({Last(frames)} \cup IF play THEN {timeoutId} ELSE {})
          /\ timeoutId' = NoTimer
          /\ frames' = Front(frames) /\ gui' = "loop"
  /\ UNCHANGED <<started, period, clicks, sim, locked, go, quit, samples, updates>>

\* Fault: a period is added to target_time instead of to the current time.
UpdateViewAccumulates ==
  UpdateViewTo((IF target > ahead THEN target - ahead ELSE 0) + period)

\* Fault: the simulation is let go on, and the timer kept, also when paused.
UpdateViewUnpaused ==
  /\ gui = "try" /\ ~locked
  /\ ahead' = 0 /\ target' = period
  /\ messages' = FALSE
  /\ play' = (play /\ ~messages)
  /\ gui' = "set"
  /\ UNCHANGED <<frames, timerVars, period, clicks, sim, locked, go, quit, samples, updates>>

UpdateView == UpdateViewTo(period)

\* Fault: nothing sets `go' again.
SetGoMissed ==
  /\ gui = "set"
  /\ frames' = Front(frames) /\ gui' = "loop"
  /\ UNCHANGED <<simVars, timerVars, play, period, clicks, quit>>

\* The end of update_view_timeout when the button is active, without the lock.
SetGo ==
  /\ gui = "set"
  /\ go' = TRUE
  /\ frames' = Front(frames) /\ gui' = "loop"
  /\ UNCHANGED <<sim, locked, ahead, target, samples, messages, updates, timerVars,
                 play, period, clicks, quit>>

\* Fault: the callback stays in the main context and is called again.
UpdateModelAgain ==
  /\ gui = "loop" /\ (quit => frames # <<>>)
  /\ updates' = updates - 1
  /\ gui' = "model"
  /\ UNCHANGED <<frames, timerVars, play, period, clicks, quit, sim, locked, go,
                 ahead, target, samples, messages>>

\* The idle callback update_model: it waits for the lock, then reads the samples.
UpdateModel ==
  /\ gui = "loop" /\ updates > 0 /\ (quit => frames # <<>>)
  /\ updates' = updates - 1
  /\ gui' = "model"
  /\ UNCHANGED <<frames, timerVars, play, period, clicks, quit, sim, locked, go,
                 ahead, target, samples, messages>>

PeriodicUpdate ==
  /\ gui = "model" /\ ~locked
  /\ samples' = IF samples = "fresh" THEN "read" ELSE samples
  /\ gui' = "loop"
  /\ UNCHANGED <<frames, timerVars, play, period, clicks, quit, sim, locked, go,
                 ahead, target, messages, updates>>

Click ==
  /\ Dispatches /\ ~quit
  /\ clicks < MaxClicks /\ clicks' = clicks + 1

StartUpdateTimer ==
  /\ started' = started + 1
  /\ timeoutId' = started'
  /\ live' = (live \ {timeoutId}) \cup {timeoutId'}

\* Fault: the timer is started only when no id is kept.
TogglePlayOnce ==
  /\ Click
  /\ play' = ~play
  /\ IF play' /\ timeoutId = NoTimer THEN StartUpdateTimer
     ELSE /\ live' = IF play' THEN live ELSE live \ {timeoutId}
          /\ UNCHANGED <<timeoutId, started>>
  /\ UNCHANGED <<simVars, gui, frames, period, quit>>

\* Pausing removes the timer but keeps its id.
TogglePlay ==
  /\ Click
  /\ play' = ~play
  /\ IF play' THEN StartUpdateTimer
     ELSE live' = live \ {timeoutId} /\ UNCHANGED <<timeoutId, started>>
  /\ UNCHANGED <<simVars, gui, frames, period, quit>>

\* _speed_changed starts the timer, also while the simulation is paused.
ChangeSpeed ==
  /\ Click
  /\ period' \in Periods
  /\ StartUpdateTimer
  /\ UNCHANGED <<simVars, gui, frames, play, quit>>

\* Tooltips, node selection, dragging: handlers that wait for the lock.
Inspect ==
  /\ Click
  /\ gui' = "inspect"
  /\ UNCHANGED <<simVars, frames, timerVars, play, period, quit>>

Inspected ==
  /\ gui = "inspect" /\ ~locked
  /\ gui' = "loop"
  /\ UNCHANGED <<simVars, frames, timerVars, play, period, clicks, quit>>

\* Fault: the event is set before `quit'.
QuitWriteSwapped(step) ==
  IF step = 1 THEN go' = TRUE /\ UNCHANGED quit ELSE quit' = TRUE /\ UNCHANGED go

\* The two writes of _quit, in their order, neither with the lock held.
QuitWrite(step) ==
  IF step = 1 THEN quit' = TRUE /\ UNCHANGED go ELSE go' = TRUE /\ UNCHANGED quit

\* _quit, up to its first write.
Quit ==
  /\ Dispatches /\ ~quit
  /\ live' = live \ {timeoutId} /\ timeoutId' = NoTimer
  /\ QuitWrite(1)
  /\ gui' = "wake"
  /\ UNCHANGED <<frames, started, play, period, clicks, sim, locked, ahead, target,
                 samples, messages, updates>>

WakeForQuit ==
  /\ gui = "wake"
  /\ QuitWrite(2)
  /\ gui' = "join"
  /\ UNCHANGED <<frames, timerVars, play, period, clicks, sim, locked, ahead, target,
                 samples, messages, updates>>

Joined ==
  /\ gui = "join" /\ sim = "exit"
  /\ gui' = "loop"
  /\ UNCHANGED <<simVars, frames, timerVars, play, period, clicks, quit>>

\* After main_quit the main loop returns.
MainReturns ==
  /\ gui = "loop" /\ quit /\ frames = <<>>
  /\ gui' = "ended"
  /\ UNCHANGED <<simVars, frames, timerVars, play, period, clicks, quit>>

Timer == \E t \in live : UpdateViewTimeout(t)

Loop == Busy \/ TryAgain \/ UpdateView \/ SetGo \/ UpdateModel \/ PeriodicUpdate
          \/ Inspected \/ WakeForQuit \/ Joined \/ MainReturns

User == TogglePlay \/ ChangeSpeed \/ Inspect \/ Quit

Next == Simulation \/ Timer \/ Loop \/ User

Spec == Init /\ [][Next]_vars

\* Both threads run and the timers that exist fire; the user need do nothing.
\* Between two ticks of a timer no event is pending, so the lock is tried again.
FairSpec == Spec /\ WF_vars(Simulation) /\ WF_vars(Timer) /\ WF_vars(Loop) /\ SF_vars(TryAgain)

-----------------------------------------------------------------------------
(***************************************************************************)
(* Properties.                                                             *)
(***************************************************************************)
TypeOK ==
  /\ gui \in {"loop", "try", "set", "model", "inspect", "wake", "join", "ended"}
  /\ frames \in Seq(Nat) /\ live \subseteq 1 .. started
  /\ timeoutId \in 0 .. started /\ started \in 0 .. MaxClicks + 1
  /\ play \in BOOLEAN /\ period \in Periods /\ clicks \in 0 .. MaxClicks
  /\ sim \in {"top", "wait", "clear", "check", "lock", "run", "release", "exit"}
  /\ locked \in BOOLEAN /\ go \in BOOLEAN /\ quit \in BOOLEAN /\ messages \in BOOLEAN
  /\ ahead \in Nat /\ target \in Nat /\ updates \in Nat
  /\ samples \in {"none", "fresh", "read"}

\* The simulation runs at most one sample period past what the view shows,
\* however many calls of update_view_timeout are under way at once.
OnePeriodAhead == \E p \in Periods : ahead <= p

\* As long as the play button is active its timer exists, and is the one that
\* a pause removes.
PlayHasTimer == play /\ ~quit => timeoutId \in live

\* The simulation thread never waits for an event nobody will set after the
\* window is closed: run() clears `go' before it reads `quit', and _quit writes
\* `quit' before it sets `go'.  Between its two writes the thread may wait, for
\* a wake-up that is still to come.
WakeNotLost == quit /\ sim = "wait" => go \/ gui = "wake"

\* Closing the window ends both threads, whatever they are at and however the
\* two writes of _quit fall between the steps of run().
Closes == quit ~> gui = "ended" /\ sim = "exit"

\* While the play button stays active the simulation is run again and again.
PlayAdvances == []<>(sim = "run" \/ ~play \/ quit)

\* Once the play button is released, by the user or by a pause message, the
\* simulation comes to rest and waits without a pending wake-up.
PauseStops == ~play ~> play \/ sim = "exit" \/ (sim = "wait" /\ ~go)
==============================================================================
