--------------------------- MODULE SchedulerProofs ---------------------------
(***************************************************************************)
(* The safety properties of Scheduler, for any number of goroutines, any   *)
(* intervals and any number of calls in flight.                            *)
(*                                                                         *)
(* They rest on one invariant.  Live says which goroutine may be inside    *)
(* Run: the one ControlService holds, while it is running or being         *)
(* stopped.  Drained says what Stop has reached once it reset the          *)
(* scheduler.  Signals says what waits in the channels, and Lateness why a *)
(* cycle that begins while paused was decided on before.                   *)
(***************************************************************************)
EXTENDS Scheduler, SequenceTheorems, TLAPS

Busy == RunSteps \cup {"returned"}

Live ==
  /\ \A l \in Loops : pc[l] \in Busy => l = current /\ (running \/ stopping)
  /\ inCycle <=> \E l \in Loops : pc[l] = "inCycle"

Drained ==
  /\ stopping <=> stopper # "idle"
  /\ ~ (running /\ stopping)
  /\ stopper = "reset" =>
       /\ \A l \in Loops : pc[l] \notin Busy
       /\ activeOps = 0
       /\ ~ paused /\ ~ trigger /\ pauseCh = <<>>
       /\ nextEstimate = NoInterval

Signals ==
  /\ SignalIsCurrent
  /\ TimerIsCurrent
  /\ \A l \in Loops : pc[l] = "afterCycle" => nextEstimate = Estimate

Lateness ==
  /\ late <= 1
  /\ late > 0 => paused
  /\ \A l \in Loops : pc[l] \in {"spawned", "toCycle"} => late = 0

IInv == TypeOK /\ Live /\ Drained /\ Signals /\ Lateness

USE DEF vars, controlVars, loopVars, schedVars, configVars

-----------------------------------------------------------------------------
(* Types.  A channel of one slot stays one.                                *)
LEMMA SentIsFull ==
  ASSUME NEW S, NEW v \in S, NEW ch \in Seq(S), Len(ch) <= 1
  PROVE  /\ Sent(ch, v) \in Seq(S)
         /\ Len(Sent(ch, v)) <= 1
         /\ Sent(ch, v) # <<>>
         /\ Head(Sent(ch, v)) = v
<1> DEFINE drained == IF ch = <<>> THEN ch ELSE Tail(ch)
<1>1. drained \in Seq(S) /\ Len(drained) = 0
  <2>1. CASE ch = <<>>
    BY <2>1, EmptySeq
  <2>2. CASE ch # <<>>
    <3>1. Len(ch) = 1
      BY <2>2, EmptySeq
    <3>2. QED
      BY <2>2, <3>1, HeadTailProperties
  <2>3. QED
    BY <2>1, <2>2
<1>2. /\ Append(drained, v) \in Seq(S)
      /\ Len(Append(drained, v)) <= 1
      /\ Append(drained, v) # <<>>
      /\ Head(Append(drained, v)) = v
  <2> HIDE DEF drained
  <2>1. QED
    BY <1>1, AppendProperties
<1>3. QED
  BY <1>2 DEF Sent

LEMMA NoSignal ==
  /\ <<>> \in Seq(PauseSignals)
  /\ <<>> \in Seq(Intervals)
  /\ Len(<<>>) <= 1
BY EmptySeq

LEMMA TypeInitially == Init => TypeOK
<1> SUFFICES ASSUME Init PROVE TypeOK
  OBVIOUS
<1>1. /\ pauseCh \in Seq(PauseSignals) /\ Len(pauseCh) <= 1
      /\ intervalCh \in Seq(Intervals) /\ Len(intervalCh) <= 1
      /\ inbox \in [Loops -> Seq(Intervals)]
  BY NoSignal DEF Init
<1>2. activeOps \in 0 .. MaxOps /\ updates \in 0 .. MaxUpdates
  BY SchedulerAssumption DEF Init
<1>3. QED
  BY <1>1, <1>2 DEF Init, TypeOK, Steps, RunSteps

LEMMA TypeCall ==
  ASSUME TypeOK, Call
  PROVE  TypeOK'
<1> USE SchedulerAssumption DEF TypeOK, Steps, RunSteps
<1>1. ASSUME NEW l \in Loops, Start(l) PROVE TypeOK'
  <2>1. pauseCh' \in Seq(PauseSignals) /\ Len(pauseCh') <= 1
    BY <1>1, NoSignal DEF Start
  <2>2. QED
    BY <1>1, <2>1 DEF Start
<1>2. CASE StopBegin
  BY <1>2 DEF StopBegin
<1>3. CASE StopReset
  <2>1. pauseCh' \in Seq(PauseSignals) /\ Len(pauseCh') <= 1
    BY <1>3, NoSignal DEF StopReset, ResetControlState
  <2>2. QED
    BY <1>3, <2>1 DEF StopReset, ResetControlState
<1>4. CASE StopEnd
  BY <1>4 DEF StopEnd
<1>5. CASE Pause
  <2>1. pauseCh' \in Seq(PauseSignals) /\ Len(pauseCh') <= 1
    <3>1. "pause" \in PauseSignals /\ pauseCh \in Seq(PauseSignals) /\ Len(pauseCh) <= 1
      BY DEF PauseSignals
    <3>2. pauseCh' = Sent(pauseCh, "pause")
      BY <1>5 DEF Pause
    <3>3. QED
      BY ONLY <3>1, <3>2, SentIsFull
  <2>2. QED
    BY <1>5, <2>1 DEF Pause
<1>6. CASE Resume
  <2>1. pauseCh' \in Seq(PauseSignals) /\ Len(pauseCh') <= 1
    <3>1. "resume" \in PauseSignals /\ pauseCh \in Seq(PauseSignals) /\ Len(pauseCh) <= 1
      BY DEF PauseSignals
    <3>2. pauseCh' = Sent(pauseCh, "resume")
      BY <1>6 DEF Resume
    <3>3. QED
      BY ONLY <3>1, <3>2, SentIsFull
  <2>2. activeOps' \in 0 .. MaxOps
    BY <1>6 DEF Resume
  <2>3. QED
    BY <1>6, <2>1, <2>2 DEF Resume
<1>7. CASE OpDone
  BY <1>7 DEF OpDone
<1>8. CASE Trigger
  BY <1>8 DEF Trigger
<1>9. ASSUME NEW l \in Loops, CancelParent(l) PROVE TypeOK'
  BY <1>9 DEF CancelParent
<1>10. ASSUME NEW i \in Intervals, ConfigUpdated(i) PROVE TypeOK'
  BY <1>10 DEF ConfigUpdated
<1>11. CASE Configure
  <2>1. intervalCh' \in Seq(Intervals) /\ Len(intervalCh') <= 1
    <3>1. wanted \in Intervals /\ intervalCh \in Seq(Intervals) /\ Len(intervalCh) <= 1
      OBVIOUS
    <3>2. intervalCh' = Sent(intervalCh, wanted)
      BY <1>11 DEF Configure, UpdateConfig
    <3>3. QED
      BY ONLY <3>1, <3>2, SentIsFull
  <2>2. QED
    BY <1>11, <2>1 DEF Configure, UpdateConfig
<1>12. QED
  BY <1>1, <1>2, <1>3, <1>4, <1>5, <1>6, <1>7, <1>8, <1>9, <1>10, <1>11 DEF Call

LEMMA TypeStep ==
  ASSUME TypeOK, NEW l \in Loops, Step(l)
  PROVE  TypeOK'
<1> USE SchedulerAssumption DEF TypeOK, Steps, RunSteps
<1>1. CASE Enter(l)
  BY <1>1 DEF Enter, Estimate
<1>2. CASE BeginCycle(l)
  BY <1>2 DEF BeginCycle, Min2
<1>3. CASE EndCycle(l)
  BY <1>3 DEF EndCycle, Estimate
<1>4. CASE ResetTicker(l)
  BY <1>4, NoSignal DEF ResetTicker
<1>5. CASE Tick(l)
  BY <1>5 DEF Tick, CycleUnlessPaused
<1>6. CASE ReceiveTrigger(l)
  BY <1>6 DEF ReceiveTrigger, CycleUnlessPaused
<1>7. CASE ReceivePause(l)
  BY <1>7 DEF ReceivePause
<1>8. CASE ReceiveConfig(l)
  <2> DEFINE i == Head(inbox[l])
  <2>1. i \in Intervals /\ Tail(inbox[l]) \in Seq(Intervals)
    BY <1>8 DEF ReceiveConfig
  <2>2. intervalCh' \in Seq(Intervals) /\ Len(intervalCh') <= 1
    <3>1. intervalCh \in Seq(Intervals) /\ Len(intervalCh) <= 1
      OBVIOUS
    <3>2. intervalCh' = intervalCh \/ intervalCh' = Sent(intervalCh, i)
      BY <1>8 DEF ReceiveConfig, UpdateConfig
    <3>3. QED
      BY ONLY <2>1, <3>1, <3>2, SentIsFull
  <2>3. QED
    BY <1>8, <2>1, <2>2 DEF ReceiveConfig, UpdateConfig
<1>9. CASE ReceiveInterval(l)
  BY <1>9 DEF ReceiveInterval, Estimate
<1>10. CASE Return(l)
  <2>1. /\ pauseCh' \in Seq(PauseSignals) /\ Len(pauseCh') <= 1
        /\ inbox' \in [Loops -> Seq(Intervals)]
    BY <1>10, NoSignal DEF Return, ResetControlState
  <2>2. QED
    BY <1>10, <2>1 DEF Return, ResetControlState
<1>11. CASE MarkStopped(l)
  BY <1>11 DEF MarkStopped
<1>12. CASE CloseDone(l)
  BY <1>12 DEF CloseDone
<1>13. QED
  BY <1>1, <1>2, <1>3, <1>4, <1>5, <1>6, <1>7, <1>8, <1>9, <1>10, <1>11, <1>12
     DEF Step, Advance
-----------------------------------------------------------------------------
(* Where the loops are, and what Stop has reached.                         *)
LEMMA LiveCall ==
  ASSUME TypeOK, Live, Drained, Call
  PROVE  Live' /\ Drained'
<1> USE DEF TypeOK, Live, Drained, Busy, Steps, RunSteps
<1>1. ASSUME NEW l \in Loops, Start(l) PROVE Live' /\ Drained'
  BY <1>1 DEF Start, CanStart
<1>2. CASE StopBegin
  BY <1>2 DEF StopBegin
<1>3. CASE StopReset
  BY <1>3 DEF StopReset, ResetControlState, StopMayProceed
<1>4. CASE StopEnd
  BY <1>4 DEF StopEnd
<1>5. CASE Pause
  BY <1>5 DEF Pause
<1>6. CASE Resume
  BY <1>6 DEF Resume
<1>7. CASE OpDone
  BY <1>7 DEF OpDone
<1>8. CASE Trigger
  BY <1>8 DEF Trigger
<1>9. ASSUME NEW l \in Loops, CancelParent(l) PROVE Live' /\ Drained'
  BY <1>9 DEF CancelParent
<1>10. ASSUME NEW i \in Intervals, ConfigUpdated(i) PROVE Live' /\ Drained'
  BY <1>10 DEF ConfigUpdated
<1>11. CASE Configure
  BY <1>11 DEF Configure, UpdateConfig, CanStart
<1>12. QED
  BY <1>1, <1>2, <1>3, <1>4, <1>5, <1>6, <1>7, <1>8, <1>9, <1>10, <1>11 DEF Call

LEMMA LiveStep ==
  ASSUME TypeOK, Live, Drained, NEW l \in Loops, Step(l)
  PROVE  Live' /\ Drained'
<1> USE DEF TypeOK, Live, Drained, Busy, Steps, RunSteps
<1>1. CASE Enter(l)
  BY <1>1 DEF Enter
<1>2. CASE BeginCycle(l)
  BY <1>2 DEF BeginCycle
<1>3. CASE EndCycle(l)
  BY <1>3 DEF EndCycle
<1>4. CASE ResetTicker(l)
  BY <1>4 DEF ResetTicker
<1>5. CASE Tick(l)
  BY <1>5 DEF Tick, CycleUnlessPaused
<1>6. CASE ReceiveTrigger(l)
  BY <1>6 DEF ReceiveTrigger, CycleUnlessPaused
<1>7. CASE ReceivePause(l)
  BY <1>7 DEF ReceivePause
<1>8. CASE ReceiveConfig(l)
  BY <1>8 DEF ReceiveConfig, UpdateConfig
<1>9. CASE ReceiveInterval(l)
  BY <1>9 DEF ReceiveInterval
<1>10. CASE Return(l)
  BY <1>10 DEF Return, ResetControlState
<1>11. CASE MarkStopped(l)
  BY <1>11 DEF MarkStopped
<1>12. CASE CloseDone(l)
  BY <1>12 DEF CloseDone
<1>13. QED
  BY <1>1, <1>2, <1>3, <1>4, <1>5, <1>6, <1>7, <1>8, <1>9, <1>10, <1>11, <1>12 DEF Step, Advance

-----------------------------------------------------------------------------
(* What waits in the channels, and what the timer is set to.               *)
LEMMA SignalsCall ==
  ASSUME TypeOK, Live, Drained, Signals, Call
  PROVE  Signals'
<1> USE DEF TypeOK, Live, Drained, Signals, Busy, Steps, RunSteps, SignalIsCurrent, TimerIsCurrent, Estimate
<1>1. ASSUME NEW l \in Loops, Start(l) PROVE Signals'
  BY <1>1 DEF Start, CanStart
<1>2. CASE StopBegin
  BY <1>2 DEF StopBegin
<1>3. CASE StopReset
  BY <1>3 DEF StopReset, ResetControlState, StopMayProceed
<1>4. CASE StopEnd
  BY <1>4 DEF StopEnd
<1>5. CASE Pause
  <2>1. Head(pauseCh') = "pause"
    <3>1. pauseCh' = Sent(pauseCh, "pause")
      BY <1>5 DEF Pause
    <3>2. "pause" \in PauseSignals
      BY DEF PauseSignals
    <3>3. pauseCh \in Seq(PauseSignals) /\ Len(pauseCh) <= 1
      OBVIOUS
    <3>4. QED
      BY ONLY <3>1, <3>2, <3>3, SentIsFull
  <2>2. QED
    BY <1>5, <2>1 DEF Pause
<1>6. CASE Resume
  <2>1. Head(pauseCh') = "resume"
    <3>1. pauseCh' = Sent(pauseCh, "resume")
      BY <1>6 DEF Resume
    <3>2. "resume" \in PauseSignals
      BY DEF PauseSignals
    <3>3. pauseCh \in Seq(PauseSignals) /\ Len(pauseCh) <= 1
      OBVIOUS
    <3>4. QED
      BY ONLY <3>1, <3>2, <3>3, SentIsFull
  <2>2. QED
    BY <1>6, <2>1 DEF Resume
<1>7. CASE OpDone
  BY <1>7 DEF OpDone
<1>8. CASE Trigger
  BY <1>8 DEF Trigger
<1>9. ASSUME NEW l \in Loops, CancelParent(l) PROVE Signals'
  BY <1>9 DEF CancelParent
<1>10. ASSUME NEW i \in Intervals, ConfigUpdated(i) PROVE Signals'
  BY <1>10 DEF ConfigUpdated
<1>11. CASE Configure
  BY <1>11, SentIsFull DEF Configure, UpdateConfig, CanStart
<1>12. QED
  BY <1>1, <1>2, <1>3, <1>4, <1>5, <1>6, <1>7, <1>8, <1>9, <1>10, <1>11 DEF Call

LEMMA SignalsStep ==
  ASSUME TypeOK, Live, Drained, Signals, NEW l \in Loops, Step(l)
  PROVE  Signals'
<1> USE DEF TypeOK, Live, Drained, Signals, Busy, Steps, RunSteps, SignalIsCurrent, TimerIsCurrent, Estimate
<1>1. CASE Enter(l)
  BY <1>1 DEF Enter
<1>2. CASE BeginCycle(l)
  BY <1>2 DEF BeginCycle
<1>3. CASE EndCycle(l)
  BY <1>3 DEF EndCycle
<1>4. CASE ResetTicker(l)
  BY <1>4 DEF ResetTicker
<1>5. CASE Tick(l)
  BY <1>5 DEF Tick, CycleUnlessPaused
<1>6. CASE ReceiveTrigger(l)
  BY <1>6 DEF ReceiveTrigger, CycleUnlessPaused
<1>7. CASE ReceivePause(l)
  BY <1>7 DEF ReceivePause
<1>8. CASE ReceiveConfig(l)
  BY <1>8, SentIsFull DEF ReceiveConfig, UpdateConfig
<1>9. CASE ReceiveInterval(l)
  BY <1>9 DEF ReceiveInterval
<1>10. CASE Return(l)
  BY <1>10 DEF Return, ResetControlState
<1>11. CASE MarkStopped(l)
  BY <1>11 DEF MarkStopped
<1>12. CASE CloseDone(l)
  BY <1>12 DEF CloseDone
<1>13. QED
  BY <1>1, <1>2, <1>3, <1>4, <1>5, <1>6, <1>7, <1>8, <1>9, <1>10, <1>11, <1>12 DEF Step, Advance

-----------------------------------------------------------------------------
(* Cycles that begin while paused.                                         *)
LEMMA LatenessCall ==
  ASSUME TypeOK, Live, Drained, Lateness, Call
  PROVE  Lateness'
<1> USE DEF TypeOK, Live, Drained, Lateness, Busy, Steps, RunSteps, Min2
<1>1. ASSUME NEW l \in Loops, Start(l) PROVE Lateness'
  BY <1>1 DEF Start, CanStart
<1>2. CASE StopBegin
  BY <1>2 DEF StopBegin
<1>3. CASE StopReset
  BY <1>3 DEF StopReset, ResetControlState, StopMayProceed
<1>4. CASE StopEnd
  BY <1>4 DEF StopEnd
<1>5. CASE Pause
  BY <1>5 DEF Pause
<1>6. CASE Resume
  BY <1>6 DEF Resume
<1>7. CASE OpDone
  BY <1>7 DEF OpDone
<1>8. CASE Trigger
  BY <1>8 DEF Trigger
<1>9. ASSUME NEW l \in Loops, CancelParent(l) PROVE Lateness'
  BY <1>9 DEF CancelParent
<1>10. ASSUME NEW i \in Intervals, ConfigUpdated(i) PROVE Lateness'
  BY <1>10 DEF ConfigUpdated
<1>11. CASE Configure
  BY <1>11 DEF Configure, UpdateConfig, CanStart
<1>12. QED
  BY <1>1, <1>2, <1>3, <1>4, <1>5, <1>6, <1>7, <1>8, <1>9, <1>10, <1>11 DEF Call

LEMMA LatenessStep ==
  ASSUME TypeOK, Live, Drained, Lateness, NEW l \in Loops, Step(l)
  PROVE  Lateness'
<1> USE DEF TypeOK, Live, Drained, Lateness, Busy, Steps, RunSteps, Min2
<1>1. CASE Enter(l)
  BY <1>1 DEF Enter
<1>2. CASE BeginCycle(l)
  BY <1>2 DEF BeginCycle
<1>3. CASE EndCycle(l)
  BY <1>3 DEF EndCycle
<1>4. CASE ResetTicker(l)
  BY <1>4 DEF ResetTicker
<1>5. CASE Tick(l)
  BY <1>5 DEF Tick, CycleUnlessPaused
<1>6. CASE ReceiveTrigger(l)
  BY <1>6 DEF ReceiveTrigger, CycleUnlessPaused
<1>7. CASE ReceivePause(l)
  BY <1>7 DEF ReceivePause
<1>8. CASE ReceiveConfig(l)
  BY <1>8 DEF ReceiveConfig, UpdateConfig
<1>9. CASE ReceiveInterval(l)
  BY <1>9 DEF ReceiveInterval
<1>10. CASE Return(l)
  BY <1>10 DEF Return, ResetControlState
<1>11. CASE MarkStopped(l)
  BY <1>11 DEF MarkStopped
<1>12. CASE CloseDone(l)
  BY <1>12 DEF CloseDone
<1>13. QED
  BY <1>1, <1>2, <1>3, <1>4, <1>5, <1>6, <1>7, <1>8, <1>9, <1>10, <1>11, <1>12 DEF Step, Advance

-----------------------------------------------------------------------------
(* The invariant.                                                          *)

LEMMA Initially == Init => IInv
<1> SUFFICES ASSUME Init PROVE IInv
  OBVIOUS
<1>1. TypeOK
  BY TypeInitially
<1>2. Live /\ Drained
  BY DEF Init, Live, Drained, Busy, RunSteps
<1>3. Signals
  BY DEF Init, Signals, SignalIsCurrent, TimerIsCurrent
<1>4. Lateness
  BY DEF Init, Lateness
<1>5. QED
  BY <1>1, <1>2, <1>3, <1>4 DEF IInv

LEMMA Unchanging == IInv /\ UNCHANGED vars => IInv'
<1> SUFFICES ASSUME IInv, UNCHANGED vars PROVE IInv'
  OBVIOUS
<1>1. TypeOK'
  BY DEF IInv, TypeOK
<1>2. Live' /\ Drained'
  BY DEF IInv, Live, Drained
<1>3. Signals'
  BY DEF IInv, Signals, SignalIsCurrent, TimerIsCurrent, Estimate
<1>4. Lateness'
  BY DEF IInv, Lateness
<1>5. QED
  BY <1>1, <1>2, <1>3, <1>4 DEF IInv

LEMMA Inductive == IInv /\ [Next]_vars => IInv'
<1> SUFFICES ASSUME IInv, [Next]_vars PROVE IInv'
  OBVIOUS
<1> USE DEF IInv
<1>1. CASE Call
  BY <1>1, TypeCall, LiveCall, SignalsCall, LatenessCall
<1>2. ASSUME NEW l \in Loops, Step(l) PROVE IInv'
  BY <1>2, TypeStep, LiveStep, SignalsStep, LatenessStep
<1>3. CASE UNCHANGED vars
  BY <1>3, Unchanging
<1>4. QED
  BY <1>1, <1>2, <1>3 DEF Next

LEMMA Invariant == Spec => []IInv
BY Initially, Inductive, PTL DEF Spec

(* The types of the scheduler's state, one slot to a channel.              *)
THEOREM SchedulerTypeOK == Spec => []TypeOK
<1>1. IInv => TypeOK
  BY DEF IInv
<1>2. QED
  BY <1>1, Invariant, PTL

(* At most one goroutine is inside Run, and none while the service is idle *)
(* (Start, Stop and the deferred calls, control.go 99-179).                *)
THEOREM AtMostOneLoop == Spec => []OneLoop
<1>1. IInv => OneLoop
  BY DEF IInv, Live, OneLoop, Busy, CanStart
<1>2. QED
  BY <1>1, Invariant, PTL

(* The signal waiting in pauseCh is the newest (Pause, Resume).            *)
THEOREM NewestSignal == Spec => []SignalIsCurrent
<1>1. IInv => SignalIsCurrent
  BY DEF IInv, Signals
<1>2. QED
  BY <1>1, Invariant, PTL

(* The ticker and the estimate follow the configuration (UpdateConfig and  *)
(* the select of Run).                                                     *)
THEOREM TimerFollowsConfig == Spec => []TimerIsCurrent
<1>1. IInv => TimerIsCurrent
  BY DEF IInv, Signals
<1>2. QED
  BY <1>1, Invariant, PTL

(* A paused scheduler begins at most the cycle already decided on.         *)
THEOREM AtMostOneLateCycle == Spec => []PausedRunsAtMostOne
<1>1. IInv => PausedRunsAtMostOne
  BY DEF IInv, Lateness, PausedRunsAtMostOne
<1>2. QED
  BY <1>1, Invariant, PTL

(* Stop leaves nothing behind: only its last step ends stopping, and what  *)
(* it waited for has not come back since it reset the scheduler.           *)
THEOREM StopLeavesNothing == Spec => StopIsClean
<1> DEFINE Clean ==
      /\ \A l \in Loops : pc[l] \notin RunSteps
      /\ activeOps = 0
      /\ ~ paused /\ ~ trigger /\ pauseCh = <<>>
      /\ nextEstimate = NoInterval
<1>1. IInv /\ [Next]_vars => [stopping /\ ~ stopping' => Clean]_vars
  <2> SUFFICES ASSUME IInv, Next, stopping, ~ stopping' PROVE Clean
    OBVIOUS
  <2>1. ASSUME NEW l \in Loops, Step(l) PROVE FALSE
    BY <2>1 DEF Step, Advance, Enter, BeginCycle, EndCycle, ResetTicker, Tick,
       ReceiveTrigger, ReceivePause, ReceiveConfig, ReceiveInterval, Return,
       MarkStopped, CloseDone
  <2>2. CASE Call
    <3>1. StopEnd
      BY <2>2 DEF Call, Start, StopBegin, StopReset, Pause, Resume, OpDone,
         Trigger, CancelParent, ConfigUpdated, Configure
    <3>2. QED
      BY <3>1 DEF StopEnd, IInv, Drained, Busy
  <2>3. QED
    BY <2>1, <2>2 DEF Next
<1>2. QED
  BY <1>1, Invariant, PTL DEF Spec, StopIsClean

=============================================================================
