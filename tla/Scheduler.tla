------------------------------ MODULE Scheduler ------------------------------
(***************************************************************************)
(* The scheduler's event loop (internal/scheduler/scheduler.go) and the    *)
(* ControlService in front of it (control.go).  Start spawns a goroutine   *)
(* that runs Run; Pause, Resume and Trigger signal it through channels of  *)
(* one slot; Stop cancels it and waits for its end; its context may also   *)
(* be cancelled from above.  Between two locks anything may interleave.    *)
(*                                                                         *)
(* A time.Duration is one of Intervals; an estimate is the interval it was *)
(* computed from; pauseCh carries "pause" for true and "resume" for false. *)
(* What a cycle does to the store is module Store's.       *)
(***************************************************************************)
EXTENDS Integers, Sequences, FiniteSets

CONSTANTS
  Loops,        (* the goroutines Start may spawn, each reused once it ended *)
  Intervals,    (* the values of FetchInterval *)
  NoInterval,   (* no estimate, no ticker *)
  MaxOps,       (* bound on Pause and Resume calls publishing their event *)
  MaxUpdates    (* bound on configuration updates *)

ASSUME SchedulerAssumption ==
  /\ NoInterval \notin Intervals
  /\ MaxOps \in Nat
  /\ MaxUpdates \in Nat

VARIABLES
  running,      (* ControlService: running, stopping, *)
  stopping,
  current,      (* the loop whose cancel and done it holds, *)
  activeOps,    (* the Pause and Resume calls it let through, *)
  stopper,      (* and where the call to Stop is *)
  pc,           (* where each loop is *)
  cancelled,    (* the loops whose context is cancelled *)
  ticker,       (* the interval of each loop's ticker *)
  inbox,        (* the ConfigUpdated events each loop has not received *)
  paused,       (* Scheduler: paused, pauseCh, Trigger, intervalCh, *)
  pauseCh,
  trigger,
  intervalCh,
  interval,     (* cfg.FetchInterval *)
  nextEstimate,
  inCycle,
  wanted,       (* the interval of the newest ConfigUpdated *)
  updates,      (* how many there were *)
  late          (* history variable: cycles begun while paused, up to 2 *)

controlVars == <<running, stopping, current, activeOps, stopper>>
loopVars    == <<pc, cancelled, ticker, inbox>>
schedVars   == <<paused, pauseCh, trigger, nextEstimate>>
configVars  == <<wanted, updates>>
vars == <<controlVars, loopVars, schedVars, intervalCh, interval, inCycle,
          configVars, late>>

(* The steps of a loop.  "returned": Run is over; "closing": running is    *)
(* reset; "ended": done is closed.                                         *)
RunSteps == {"spawned", "toCycle", "inCycle", "afterCycle", "select"}
Steps    == RunSteps \cup {"returned", "closing", "ended"}

PauseSignals == {"pause", "resume"}

Init ==
  /\ running = FALSE /\ stopping = FALSE
  /\ current \in Loops
  /\ activeOps = 0
  /\ stopper = "idle"
  /\ pc = [l \in Loops |-> "ended"]
  /\ cancelled = {}
  /\ ticker = [l \in Loops |-> NoInterval]
  /\ inbox = [l \in Loops |-> <<>>]
  /\ paused = FALSE /\ pauseCh = <<>> /\ trigger = FALSE
  /\ intervalCh = <<>>
  /\ interval \in Intervals
  /\ nextEstimate = NoInterval
  /\ inCycle = FALSE
  /\ wanted = interval /\ updates = 0
  /\ late = 0

Min2(n) == IF n < 2 THEN n ELSE 2

(* updateNextEstimateLocked *)
Estimate == IF paused THEN NoInterval ELSE interval

(* Bug: a full channel keeps its old signal. *)
SentIfEmpty(ch, v) == IF ch = <<>> THEN <<v>> ELSE ch

(* A send on a channel of one slot that first drops what a full slot held. *)
Sent(ch, v) == Append(IF ch = <<>> THEN ch ELSE Tail(ch), v)

ResetControlState ==
  /\ paused' = FALSE
  /\ nextEstimate' = NoInterval
  /\ pauseCh' = <<>>
  /\ trigger' = FALSE
  /\ late' = 0

(* Bug: the running timer is not told. *)
UpdateConfigSilently(i) ==
  /\ interval' = i
  /\ UNCHANGED intervalCh

(* UpdateConfig *)
UpdateConfig(i) ==
  /\ interval' = i
  /\ intervalCh' = IF i # interval THEN Sent(intervalCh, i) ELSE intervalCh

-----------------------------------------------------------------------------
(* ControlService: each call holds its mutex, so it is one step, except    *)
(* Stop, which releases it to wait.                                        *)

(* Bug: a loop that is being stopped does not count. *)
CanStartIfNotRunning == ~ running

CanStart == ~ running /\ ~ stopping

(* ResetControlState, InitNextEstimate, and the goroutine. *)
Start(l) ==
  /\ CanStart
  /\ pc[l] = "ended"
  /\ running' = TRUE
  /\ current' = l
  /\ pc' = [pc EXCEPT ![l] = "spawned"]
  /\ cancelled' = cancelled \ {l}
  /\ paused' = FALSE
  /\ pauseCh' = <<>>
  /\ trigger' = FALSE
  /\ nextEstimate' = interval
  /\ late' = 0
  /\ UNCHANGED <<stopping, activeOps, stopper, ticker, inbox, intervalCh,
                 interval, inCycle, configVars>>

(* Stop up to its wait.  A call that finds nothing to stop returns. *)
StopBegin ==
  /\ running /\ ~ stopping
  /\ stopping' = TRUE
  /\ running' = FALSE
  /\ stopper' = "waiting"
  /\ cancelled' = cancelled \cup {current}
  /\ UNCHANGED <<current, activeOps, pc, ticker, inbox, schedVars, intervalCh,
                 interval, inCycle, configVars, late>>

(* Bug: only done is waited for. *)
StopIgnoresOps == pc[current] = "ended"

(* What Stop waits for: done is closed, and activeOps.Wait returns. *)
StopMayProceed == pc[current] = "ended" /\ activeOps = 0

StopReset ==
  /\ stopper = "waiting"
  /\ StopMayProceed
  /\ stopper' = "reset"
  /\ ResetControlState
  /\ UNCHANGED <<running, stopping, current, activeOps, loopVars, intervalCh,
                 interval, inCycle, configVars>>

StopEnd ==
  /\ stopper = "reset"
  /\ stopper' = "idle"
  /\ stopping' = FALSE
  /\ UNCHANGED <<running, current, activeOps, loopVars, schedVars, intervalCh,
                 interval, inCycle, configVars, late>>

(* Pause and Resume: Scheduler.Pause or Resume, then the event, published  *)
(* once the mutex is released (OpDone).                                    *)
Pause ==
  /\ running /\ ~ stopping
  /\ ~ paused
  /\ activeOps < MaxOps
  /\ paused' = TRUE
  /\ nextEstimate' = NoInterval
  /\ pauseCh' = Sent(pauseCh, "pause")
  /\ activeOps' = activeOps + 1
  /\ late' = 0
  /\ UNCHANGED <<running, stopping, current, stopper, loopVars, trigger,
                 intervalCh, interval, inCycle, configVars>>

Resume ==
  /\ running /\ ~ stopping
  /\ paused
  /\ activeOps < MaxOps
  /\ paused' = FALSE
  /\ nextEstimate' = interval
  /\ pauseCh' = Sent(pauseCh, "resume")
  /\ activeOps' = activeOps + 1
  /\ late' = 0
  /\ UNCHANGED <<running, stopping, current, stopper, loopVars, trigger,
                 intervalCh, interval, inCycle, configVars>>

OpDone ==
  /\ activeOps > 0
  /\ activeOps' = activeOps - 1
  /\ UNCHANGED <<running, stopping, current, stopper, loopVars, schedVars,
                 intervalCh, interval, inCycle, configVars, late>>

Trigger ==
  /\ running /\ ~ stopping
  /\ ~ paused
  /\ trigger' = TRUE
  /\ UNCHANGED <<controlVars, loopVars, paused, pauseCh, nextEstimate,
                 intervalCh, interval, inCycle, configVars, late>>

(* The context given to Start is cancelled.  Only Run looks at it. *)
CancelParent(l) ==
  /\ pc[l] \in RunSteps
  /\ cancelled' = cancelled \cup {l}
  /\ UNCHANGED <<controlVars, pc, ticker, inbox, schedVars, intervalCh,
                 interval, inCycle, configVars, late>>

-----------------------------------------------------------------------------
(* The configuration service.                                              *)

(* It publishes ConfigUpdated to the loops that have subscribed. *)
ConfigUpdated(i) ==
  /\ updates < MaxUpdates
  /\ updates' = updates + 1
  /\ wanted' = i
  /\ inbox' = [l \in Loops |->
                 IF pc[l] \in RunSteps \ {"spawned"} THEN Append(inbox[l], i)
                 ELSE inbox[l]]
  /\ UNCHANGED <<controlVars, pc, cancelled, ticker, schedVars, intervalCh,
                 interval, inCycle, late>>

(* main calls UpdateConfig before it calls Start. *)
Configure ==
  /\ CanStart
  /\ interval # wanted
  /\ UpdateConfig(wanted)
  /\ UNCHANGED <<controlVars, loopVars, schedVars, inCycle, configVars, late>>

-----------------------------------------------------------------------------
(* Run.                                                                    *)

(* Subscribe, then InitNextEstimate; the first cycle asks for no pause. *)
Enter(l) ==
  /\ pc[l] = "spawned"
  /\ pc' = [pc EXCEPT ![l] = "toCycle"]
  /\ nextEstimate' = Estimate
  /\ UNCHANGED <<controlVars, cancelled, ticker, inbox, paused, pauseCh,
                 trigger, intervalCh, interval, inCycle, configVars, late>>

(* runCycle: publishCycleStarted. *)
BeginCycle(l) ==
  /\ pc[l] = "toCycle"
  /\ pc' = [pc EXCEPT ![l] = "inCycle"]
  /\ inCycle' = TRUE
  /\ late' = IF paused THEN Min2(late + 1) ELSE late
  /\ UNCHANGED <<controlVars, cancelled, ticker, inbox, schedVars, intervalCh,
                 interval, configVars>>

(* publishCycleFinished, on each of runCycle's four ways out. *)
EndCycle(l) ==
  /\ pc[l] = "inCycle"
  /\ pc' = [pc EXCEPT ![l] = "afterCycle"]
  /\ inCycle' = FALSE
  /\ nextEstimate' = Estimate
  /\ UNCHANGED <<controlVars, cancelled, ticker, inbox, paused, pauseCh,
                 trigger, intervalCh, interval, configVars, late>>

(* Bug: the drain of intervalCh blocks when there is nothing to drain. *)
ResetTickerBlocks(l) ==
  /\ pc[l] = "afterCycle"
  /\ intervalCh # <<>>
  /\ pc' = [pc EXCEPT ![l] = "select"]
  /\ ticker' = [ticker EXCEPT ![l] = interval]
  /\ intervalCh' = <<>>
  /\ UNCHANGED <<controlVars, cancelled, inbox, schedVars, interval, inCycle,
                 configVars, late>>

(* Publishing is over: the ticker starts again with the interval of the    *)
(* moment, and a signal that announced it is dropped.                      *)
ResetTicker(l) ==
  /\ pc[l] = "afterCycle"
  /\ pc' = [pc EXCEPT ![l] = "select"]
  /\ ticker' = [ticker EXCEPT ![l] = interval]
  /\ intervalCh' = <<>>
  /\ UNCHANGED <<controlVars, cancelled, inbox, schedVars, interval, inCycle,
                 configVars, late>>

(* Bug: the pause flag is not read. *)
CycleAlways == "toCycle"

(* The branches of select.  A tick or a trigger is dropped when paused. *)
CycleUnlessPaused == IF paused THEN "select" ELSE "toCycle"

Tick(l) ==
  /\ pc[l] = "select"
  /\ pc' = [pc EXCEPT ![l] = CycleUnlessPaused]
  /\ UNCHANGED <<controlVars, cancelled, ticker, inbox, schedVars, intervalCh,
                 interval, inCycle, configVars, late>>

ReceiveTrigger(l) ==
  /\ pc[l] = "select"
  /\ trigger
  /\ trigger' = FALSE
  /\ pc' = [pc EXCEPT ![l] = CycleUnlessPaused]
  /\ UNCHANGED <<controlVars, cancelled, ticker, inbox, paused, pauseCh,
                 nextEstimate, intervalCh, interval, inCycle, configVars, late>>

ReceivePause(l) ==
  /\ pc[l] = "select"
  /\ pauseCh # <<>>
  /\ pauseCh' = <<>>
  /\ ticker' = IF Head(pauseCh) = "pause" THEN ticker
               ELSE [ticker EXCEPT ![l] = interval]
  /\ UNCHANGED <<controlVars, pc, cancelled, inbox, paused, trigger,
                 nextEstimate, intervalCh, interval, inCycle, configVars, late>>

ReceiveConfig(l) ==
  /\ pc[l] = "select"
  /\ inbox[l] # <<>>
  /\ inbox' = [inbox EXCEPT ![l] = Tail(@)]
  /\ UpdateConfig(Head(inbox[l]))
  /\ UNCHANGED <<controlVars, pc, cancelled, ticker, schedVars, inCycle,
                 configVars, late>>

ReceiveInterval(l) ==
  /\ pc[l] = "select"
  /\ intervalCh # <<>>
  /\ intervalCh' = <<>>
  /\ ticker' = [ticker EXCEPT ![l] = Head(intervalCh)]
  /\ nextEstimate' = Estimate
  /\ UNCHANGED <<controlVars, pc, cancelled, inbox, paused, pauseCh, trigger,
                 interval, inCycle, configVars, late>>

(* Bug: a paused loop waits for its resume and nothing else. *)
ReturnUnlessPaused(l) ==
  /\ pc[l] = "select"
  /\ l \in cancelled
  /\ ~ paused
  /\ pc' = [pc EXCEPT ![l] = "returned"]
  /\ ticker' = [ticker EXCEPT ![l] = NoInterval]
  /\ inbox' = [inbox EXCEPT ![l] = <<>>]
  /\ ResetControlState
  /\ UNCHANGED <<controlVars, cancelled, intervalCh, interval, inCycle,
                 configVars>>

(* ctx.Done, with Run's deferred calls. *)
Return(l) ==
  /\ pc[l] = "select"
  /\ l \in cancelled
  /\ pc' = [pc EXCEPT ![l] = "returned"]
  /\ ticker' = [ticker EXCEPT ![l] = NoInterval]
  /\ inbox' = [inbox EXCEPT ![l] = <<>>]
  /\ ResetControlState
  /\ UNCHANGED <<controlVars, cancelled, intervalCh, interval, inCycle,
                 configVars>>

(* The deferred calls of the goroutine. *)
MarkStopped(l) ==
  /\ pc[l] = "returned"
  /\ pc' = [pc EXCEPT ![l] = "closing"]
  /\ running' = FALSE
  /\ UNCHANGED <<stopping, current, activeOps, stopper, cancelled, ticker,
                 inbox, schedVars, intervalCh, interval, inCycle, configVars, late>>

CloseDone(l) ==
  /\ pc[l] = "closing"
  /\ pc' = [pc EXCEPT ![l] = "ended"]
  /\ cancelled' = cancelled \ {l}
  /\ UNCHANGED <<controlVars, ticker, inbox, schedVars, intervalCh, interval,
                 inCycle, configVars, late>>

(* The steps of a loop that has nothing to wait for. *)
Advance(l) ==
  \/ Enter(l)
  \/ BeginCycle(l)
  \/ EndCycle(l)
  \/ ResetTicker(l)
  \/ MarkStopped(l)
  \/ CloseDone(l)

Step(l) ==
  \/ Advance(l)
  \/ Tick(l)
  \/ ReceiveTrigger(l)
  \/ ReceivePause(l)
  \/ ReceiveConfig(l)
  \/ ReceiveInterval(l)
  \/ Return(l)

Call ==
  \/ \E l \in Loops : Start(l)
  \/ StopBegin
  \/ StopReset
  \/ StopEnd
  \/ Pause
  \/ Resume
  \/ OpDone
  \/ Trigger
  \/ \E l \in Loops : CancelParent(l)
  \/ \E i \in Intervals : ConfigUpdated(i)
  \/ Configure

Next == Call \/ \E l \in Loops : Step(l)

Spec == Init /\ [][Next]_vars

(* A goroutine that can move does, and so does a call that holds or waits  *)
(* for no lock another keeps; a cycle ends, since each probe has a         *)
(* timeout and git is assumed to end, which publishes before the loop goes *)
(* on.  The ticker fires: what resets it (a resume, a new interval)        *)
(* does so finitely often while the scheduler stays unpaused.  select      *)
(* chooses among the ready branches at random, so one that is ready again  *)
(* and again is taken: ctx.Done is ready at every select once cancelled,   *)
(* and the channels once they hold a signal.                               *)
Fairness ==
  /\ WF_vars(StopReset) /\ WF_vars(StopEnd) /\ WF_vars(OpDone)
  /\ \A l \in Loops :
       /\ WF_vars(Advance(l)) /\ WF_vars(Tick(l))
       /\ SF_vars(ReceiveConfig(l)) /\ SF_vars(ReceiveInterval(l))
       /\ SF_vars(Return(l))

LiveSpec == Spec /\ Fairness

-----------------------------------------------------------------------------
(* The slots of the channels hold at most one signal. *)
TypeOK ==
  /\ running \in BOOLEAN /\ stopping \in BOOLEAN
  /\ current \in Loops
  /\ activeOps \in 0 .. MaxOps
  /\ stopper \in {"idle", "waiting", "reset"}
  /\ pc \in [Loops -> Steps]
  /\ cancelled \subseteq Loops
  /\ ticker \in [Loops -> Intervals \cup {NoInterval}]
  /\ inbox \in [Loops -> Seq(Intervals)]
  /\ paused \in BOOLEAN /\ trigger \in BOOLEAN /\ inCycle \in BOOLEAN
  /\ pauseCh \in Seq(PauseSignals) /\ Len(pauseCh) <= 1
  /\ intervalCh \in Seq(Intervals) /\ Len(intervalCh) <= 1
  /\ interval \in Intervals
  /\ nextEstimate \in Intervals \cup {NoInterval}
  /\ wanted \in Intervals
  /\ updates \in 0 .. MaxUpdates
  /\ late \in {0, 1, 2}

(* One loop at a time is inside Run, and none while the service is idle:   *)
(* after Stop, main saves the store and closes the bus with nobody left to *)
(* probe into the one or publish to the other (control.go 99-179).         *)
OneLoop ==
  /\ \A l, m \in Loops : pc[l] \in RunSteps /\ pc[m] \in RunSteps => l = m
  /\ CanStart => \A l \in Loops : pc[l] \notin RunSteps
  /\ inCycle <=> \E l \in Loops : pc[l] = "inCycle"

(* The signal that waits in pauseCh is the newest: Pause and Resume drain  *)
(* the slot while the loop may be receiving from it (scheduler.go 187-233).*)
SignalIsCurrent == pauseCh # <<>> => (Head(pauseCh) = "pause" <=> paused)

(* In select the ticker runs at the configured interval, or the signal to  *)
(* change it is waiting; and the estimate shown is the ticker's, or none   *)
(* when paused.  Seven places set the one or the other                    *)
(* (scheduler.go 154-233, 294-432).                                        *)
TimerIsCurrent ==
  \A l \in Loops : pc[l] = "select" =>
    \/ intervalCh = <<interval>>
    \/ /\ intervalCh = <<>>
       /\ ticker[l] = interval
       /\ nextEstimate = Estimate

(* Pause does not interrupt a cycle, and one that was decided on before    *)
(* may still begin: the flag is read, then the cycle starts (scheduler.go  *)
(* 362-368).  No second one does.                                          *)
PausedRunsAtMostOne == late <= 1

(* When Stop returns nothing is left of the run: no loop, no Pause or      *)
(* Resume about to publish, no pause, no signal and no trigger for the     *)
(* next Start to find (control.go 160-178).                                *)
StopIsClean ==
  [][stopping /\ ~ stopping' =>
       /\ \A l \in Loops : pc[l] \notin RunSteps
       /\ activeOps = 0
       /\ ~ paused /\ ~ trigger /\ pauseCh = <<>>
       /\ nextEstimate = NoInterval]_vars

(* Stop returns: it waits for a loop that may be in a cycle, about to      *)
(* begin one, paused or at a select with every branch ready, and for the   *)
(* calls in flight (control.go 141-179).                                   *)
StopReturns == stopper = "waiting" ~> stopper = "idle"

(* An unpaused scheduler keeps cycling, whatever pauses, resumes, triggers *)
(* and changes of interval came before, and the newest configuration, once *)
(* on its way to the loop, gets to its ticker (scheduler.go 359-432).      *)
CyclesGoOn ==
  /\ running /\ ~ paused ~> inCycle \/ paused \/ ~ running
  /\ (\E l \in Loops : inbox[l] # <<>>)
       ~> (\E l \in Loops : ticker[l] = wanted /\ interval = wanted) \/ ~ running

=============================================================================
