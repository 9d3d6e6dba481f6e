--------------------------- MODULE VisualizerProofs ---------------------------
(***************************************************************************)
(* Theorems about Visualizer, for every set of sample periods and every    *)
(* number of user actions.                                                 *)
(***************************************************************************)
EXTENDS Visualizer, SequenceTheorems, TLAPS

-----------------------------------------------------------------------------
(***************************************************************************)
(* The inductive invariant.                                                *)
(***************************************************************************)
\* The GUI thread tries the lock, and sets `go', inside a call of
\* update_view_timeout.
CallUnderWay == gui \in {"try", "set"} => frames # <<>>

\* Every timer but the first was started by a user action.
TimersCounted == started <= clicks + 1

\* The simulation never passes the target of the last update_view.
WithinTarget == ahead <= target /\ target \in {0} \cup Periods

Inv ==
  /\ TypeOK /\ CallUnderWay /\ TimersCounted
  /\ WithinTarget
  /\ PlayHasTimer
  /\ WakeNotLost

-----------------------------------------------------------------------------
\* Returning from the innermost call leaves a stack of timers.
LEMMA FrontOfStack ==
  ASSUME NEW S, NEW s \in Seq(S), s # <<>>
  PROVE  Front(s) \in Seq(S)
<1>1. Len(s) \in Nat /\ Len(s) > 0
  BY EmptySeq, LenProperties
<1>2. SubSeq(s, 1, Len(s) - 1) \in Seq(S)
  BY <1>1, SubSeqProperties
<1> QED BY <1>2 DEF Front

LEMMA InitInv == Init => Inv
<1> SUFFICES ASSUME Init PROVE Inv
  OBVIOUS
<1>1. <<>> \in Seq(Nat)
  BY EmptySeq
<1>2. TypeOK
  <2>1. live \subseteq 1 .. started /\ timeoutId \in 0 .. started /\ started \in 0 .. MaxClicks + 1
    BY ClickAssumption DEF Init, NoTimer
  <2>2. clicks \in 0 .. MaxClicks /\ period \in Periods
    BY ClickAssumption DEF Init
  <2> QED BY <1>1, <2>1, <2>2 DEF Init, TypeOK
<1> QED BY <1>2 DEF Init, Inv, CallUnderWay, TimersCounted, WithinTarget, PlayHasTimer, WakeNotLost

LEMMA SimulationInv == Inv /\ Simulation => Inv'
<1> SUFFICES ASSUME Inv, Simulation PROVE Inv'
  OBVIOUS
<1> USE DEF Inv, guiVars, timerVars
<1>0. CASE LoopTest
  BY <1>0 DEF LoopTest, TypeOK, CallUnderWay, TimersCounted, WithinTarget, PlayHasTimer, WakeNotLost
<1>1. CASE Wake
  BY <1>1 DEF Wake, TypeOK, CallUnderWay, TimersCounted, WithinTarget, PlayHasTimer, WakeNotLost
<1>2. CASE Clear
  BY <1>2 DEF Clear, TypeOK, CallUnderWay, TimersCounted, WithinTarget, PlayHasTimer, WakeNotLost
<1>3. CASE CheckQuit
  BY <1>3 DEF CheckQuit, TypeOK, CallUnderWay, TimersCounted, WithinTarget, PlayHasTimer, WakeNotLost
<1>4. CASE Acquire
  BY <1>4 DEF Acquire, TypeOK, CallUnderWay, TimersCounted, WithinTarget, PlayHasTimer, WakeNotLost
<1>5. CASE RunUntil
  <2>1. ahead \in Nat /\ target \in Nat /\ ahead <= target /\ updates \in Nat /\ messages \in BOOLEAN
    BY DEF TypeOK, WithinTarget
  <2>2. /\ updates' = updates + 1 /\ sim' = "release"
        /\ UNCHANGED <<gui, frames, live, timeoutId, started, play, period, clicks, quit,
                       locked, go, target>>
    BY <1>5 DEF RunUntil
  <2>3. ahead' \in Nat /\ ahead' <= target /\ samples' \in {"none", "fresh", "read"}
    BY <1>5, <2>1 DEF RunUntil
  <2>4. messages' \in BOOLEAN
    BY <1>5, <2>1 DEF RunUntil
  <2> QED BY <2>1, <2>2, <2>3, <2>4
      DEF TypeOK, CallUnderWay, TimersCounted, WithinTarget, PlayHasTimer, WakeNotLost
<1>6. CASE Release
  BY <1>6 DEF Release, TypeOK, CallUnderWay, TimersCounted, WithinTarget, PlayHasTimer, WakeNotLost
<1> QED BY <1>0, <1>1, <1>2, <1>3, <1>4, <1>5, <1>6 DEF Simulation

LEMMA TimerInv ==
  ASSUME Inv, NEW t \in live, UpdateViewTimeout(t)
  PROVE  Inv'
<1> USE DEF Inv, simVars, timerVars
<1>1. t \in Nat
  BY DEF TypeOK
<1>2. Append(frames, t) \in Seq(Nat) /\ Append(frames, t) # <<>>
  BY <1>1, AppendProperties DEF TypeOK
<1>3. /\ frames' \in Seq(Nat) /\ frames' # <<>> /\ gui = "loop" /\ gui' = "try"
      /\ UNCHANGED <<simVars, timerVars, play, period, clicks, quit>>
  BY <1>2 DEF UpdateViewTimeout, Dispatches
<1> QED BY <1>3 DEF TypeOK, CallUnderWay, TimersCounted, WithinTarget, PlayHasTimer, WakeNotLost

LEMMA LoopInv == Inv /\ Loop => Inv'
<1> SUFFICES ASSUME Inv, Loop PROVE Inv'
  OBVIOUS
<1> USE DEF Inv, simVars, timerVars
<1>1. CASE Busy \/ TryAgain \/ Inspected \/ Joined \/ MainReturns
  <2>1. /\ UNCHANGED <<simVars, frames, timerVars, play, period, clicks, quit>>
        /\ gui # "wake"
        /\ gui' \in {"loop", "try", "ended"} /\ (gui' = "try" => frames # <<>>)
    BY <1>1 DEF Busy, TryAgain, Inspected, Joined, MainReturns
  <2> QED BY <2>1 DEF TypeOK, CallUnderWay, TimersCounted, WithinTarget, PlayHasTimer, WakeNotLost
<1>2. CASE UpdateModel \/ PeriodicUpdate
  <2>1. /\ UNCHANGED <<frames, timerVars, play, period, clicks, quit, sim, locked, go,
                       ahead, target, messages>>
        /\ gui \in {"loop", "model"} /\ gui' \in {"loop", "model"}
        /\ samples' \in {"none", "fresh", "read"} /\ updates' \in Nat
    BY <1>2 DEF UpdateModel, PeriodicUpdate, TypeOK
  <2> QED BY <2>1 DEF TypeOK, CallUnderWay, TimersCounted, WithinTarget, PlayHasTimer, WakeNotLost
<1>3. CASE UpdateView
  <2>0. frames \in Seq(Nat) /\ frames # <<>>
    BY <1>3 DEF UpdateView, UpdateViewTo, TypeOK, CallUnderWay
  <2>1. /\ frames' \in Seq(Nat) /\ gui' \in {"loop", "set"}
        /\ gui' = "set" => frames' # <<>>
    BY <1>3, <2>0, FrontOfStack DEF UpdateView, UpdateViewTo
  <2>2. /\ ahead' = 0 /\ target' = period /\ messages' = FALSE
        /\ UNCHANGED <<started, period, clicks, sim, locked, go, quit, samples, updates>>
    BY <1>3 DEF UpdateView, UpdateViewTo
  <2>3. /\ play' = (play /\ ~messages) /\ live' \subseteq live
        /\ play' => live' = live /\ timeoutId' = timeoutId
        /\ ~play' => timeoutId' = NoTimer
    BY <1>3 DEF UpdateView, UpdateViewTo
  <2>4. play' \in BOOLEAN /\ live' \subseteq 1 .. started /\ timeoutId' \in 0 .. started
    BY <2>3 DEF TypeOK, NoTimer
  <2>5. ahead' \in Nat /\ target' \in Nat /\ WithinTarget'
    BY <2>2, PeriodAssumption DEF TypeOK, WithinTarget
  <2>6. TypeOK'
    BY <2>1, <2>2, <2>4, <2>5 DEF TypeOK
  <2>7. PlayHasTimer'
    BY <2>2, <2>3 DEF PlayHasTimer, TypeOK
  <2>8. WakeNotLost'
    BY <1>3, <2>2 DEF WakeNotLost, UpdateView, UpdateViewTo
  <2> QED BY <2>1, <2>2, <2>5, <2>6, <2>7, <2>8 DEF CallUnderWay, TimersCounted
<1>4. CASE SetGo
  <2>1. frames' \in Seq(Nat) /\ gui' = "loop"
    BY <1>4, FrontOfStack DEF SetGo, TypeOK, CallUnderWay
  <2>2. /\ go' = TRUE
        /\ UNCHANGED <<sim, locked, ahead, target, samples, messages, updates, timerVars,
                       play, period, clicks, quit>>
    BY <1>4 DEF SetGo
  <2> QED BY <2>1, <2>2 DEF TypeOK, CallUnderWay, TimersCounted, WithinTarget, PlayHasTimer, WakeNotLost
\* The second write of _quit: from here on the event is set.
<1>5. CASE WakeForQuit
  <2>1. /\ go' = TRUE /\ gui' = "join"
        /\ UNCHANGED <<frames, timerVars, play, period, clicks, sim, locked, ahead, target,
                       quit, samples, messages, updates>>
    BY <1>5 DEF WakeForQuit, QuitWrite
  <2> QED BY <2>1 DEF TypeOK, CallUnderWay, TimersCounted, WithinTarget, PlayHasTimer, WakeNotLost
<1> QED BY <1>1, <1>2, <1>3, <1>4, <1>5 DEF Loop

LEMMA UserInv == Inv /\ User => Inv'
<1> SUFFICES ASSUME Inv, User PROVE Inv'
  OBVIOUS
<1> USE DEF Inv, simVars, timerVars
<1>1. CASE TogglePlay \/ ChangeSpeed
  <2>1. /\ UNCHANGED <<simVars, gui, frames, quit>>
        /\ clicks < MaxClicks /\ clicks' = clicks + 1
        /\ play' \in BOOLEAN /\ period' \in Periods
        /\ StartUpdateTimer \/ (~play' /\ live' = live \ {timeoutId} /\ UNCHANGED <<timeoutId, started>>)
    BY <1>1 DEF TogglePlay, ChangeSpeed, Click, TypeOK
  <2>a. /\ started \in Nat /\ clicks \in Nat /\ started <= clicks + 1 /\ MaxClicks \in Nat
        /\ live \subseteq 1 .. started /\ timeoutId \in 0 .. started
    BY ClickAssumption DEF TypeOK, TimersCounted
  <2>2. /\ live' \subseteq 1 .. started' /\ timeoutId' \in 0 .. started'
        /\ started' \in Nat /\ started' <= clicks' + 1 /\ clicks' \in 0 .. MaxClicks
        /\ play' => timeoutId' \in live'
    <3>1. CASE StartUpdateTimer
      <4>1. started' = started + 1 /\ timeoutId' = started + 1
            /\ live' = (live \ {timeoutId}) \cup {started + 1}
        BY <3>1 DEF StartUpdateTimer
      <4>2. live' \subseteq 1 .. started'
        BY <2>a, <4>1
      <4> QED BY <2>a, <2>1, <4>1, <4>2
    <3>2. CASE ~play' /\ live' = live \ {timeoutId} /\ UNCHANGED <<timeoutId, started>>
      BY <2>a, <2>1, <3>2
    <3> QED BY <2>1, <3>1, <3>2
  <2>3. TypeOK'
    BY <2>1, <2>2, ClickAssumption DEF TypeOK
  <2> QED BY <2>1, <2>2, <2>3 DEF CallUnderWay, TimersCounted, WithinTarget, PlayHasTimer, WakeNotLost
<1>2. CASE Inspect
  BY <1>2, ClickAssumption
  DEF Inspect, Click, TypeOK, CallUnderWay, TimersCounted, WithinTarget, PlayHasTimer, WakeNotLost
<1>3. CASE Quit
  <2>1. /\ gui' = "wake" /\ quit' = TRUE /\ live' \subseteq live /\ timeoutId' = NoTimer
        /\ UNCHANGED <<frames, started, play, period, clicks, sim, locked, go, ahead, target,
                       samples, messages, updates>>
    BY <1>3 DEF Quit, QuitWrite
  <2>2. live' \subseteq 1 .. started /\ timeoutId' \in 0 .. started
    BY <2>1 DEF NoTimer, TypeOK
  <2> QED BY <2>1, <2>2
      DEF TypeOK, CallUnderWay, TimersCounted, WithinTarget, PlayHasTimer, WakeNotLost
<1> QED BY <1>1, <1>2, <1>3 DEF User

LEMMA NextInv == Inv /\ [Next]_vars => Inv'
<1> SUFFICES ASSUME Inv, [Next]_vars PROVE Inv'
  OBVIOUS
<1>1. CASE UNCHANGED vars
  BY <1>1 DEF vars, Inv, TypeOK, CallUnderWay, TimersCounted, WithinTarget, PlayHasTimer, WakeNotLost
<1>2. CASE Next
  BY <1>2, SimulationInv, TimerInv, LoopInv, UserInv DEF Next, Timer
<1> QED BY <1>1, <1>2

-----------------------------------------------------------------------------
(***************************************************************************)
(* The theorems.                                                           *)
(***************************************************************************)
\* The inductive invariant holds however the two threads and the nested calls
\* of update_view_timeout are interleaved.
THEOREM Invariant == Spec => []Inv
<1>1. Init => Inv
  BY InitInv
<1>2. Inv /\ [Next]_vars => Inv'
  BY NextInv
<1> QED BY <1>1, <1>2, PTL DEF Spec

\* The variables of core.py keep their types; there are never more timers than
\* the first one and those the user's actions started.
THEOREM TypeCorrect == Spec => []TypeOK
<1>1. Inv => TypeOK
  BY DEF Inv
<1> QED BY <1>1, Invariant, PTL

\* SimulatorRunUntil never takes the simulation further than one sample period
\* past the last update_view, whatever the nesting of its callers.
THEOREM NeverFarAhead == Spec => []OnePeriodAhead
<1>1. Inv => OnePeriodAhead
  <2> SUFFICES ASSUME Inv PROVE \E p \in Periods : ahead <= p
    BY DEF OnePeriodAhead
  <2>1. ahead \in Nat /\ ahead <= target /\ target \in {0} \cup Periods
    BY DEF Inv, TypeOK, WithinTarget
  <2>2. CASE target \in Periods
    BY <2>1, <2>2
  <2>3. CASE target = 0
    <3>1. PICK p \in Periods : p \in Nat
      BY PeriodAssumption
    <3> QED BY <2>1, <2>3, <3>1
  <2> QED BY <2>1, <2>2, <2>3
<1> QED BY <1>1, Invariant, PTL

\* While the play button is active its update timer exists.
THEOREM PlayKeepsTimer == Spec => []PlayHasTimer
<1>1. Inv => PlayHasTimer
  BY DEF Inv
<1> QED BY <1>1, Invariant, PTL

\* Once _quit has written `quit', SimulationThread.run() never waits for `go'
\* unless it is set or _quit has yet to set it, wherever run() is between the
\* two writes.
THEOREM QuitWakes == Spec => []WakeNotLost
<1>1. Inv => WakeNotLost
  BY DEF Inv
<1> QED BY <1>1, Invariant, PTL
==============================================================================
