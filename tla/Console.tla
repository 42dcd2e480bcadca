------------------------------- MODULE Console -------------------------------
(***************************************************************************)
(* What the terminal interface (internal/tui) knows of the rest and does   *)
(* to it: the adapter's event loop, the first-run wizard, the              *)
(* configuration center, and the commands that the TUI runs beside its own *)
(* thread, publication among them (internal/publisher/service.go).         *)
(*                                                                         *)
(* Of the store there is the count of completed cycles, of the             *)
(* configuration whether it was saved and whether publishing is enabled.   *)
(* The candidate view is in Dashboard, git in Publication, the             *)
(* configuration service in ControlPlane.                                  *)
(***************************************************************************)
EXTENDS Integers, Sequences, FiniteSets

CONSTANTS
  MaxCycles,  (* bound on the cycles that complete *)
  MaxQueue    (* cycles, changes and publications begin when fewer events than this wait *)

ASSUME ConsoleAssumption == MaxCycles \in Nat /\ MaxQueue \in Nat \ {0}

VARIABLES
  saved,      (* the configuration file was written, *)
  commits,    (* how often the wizard wrote it, *)
  workers,    (* and how often the workers were started *)
  cycle,      (* where the scheduler is in a cycle, *)
  cycleCount, (* and Store.CycleCount() *)
  enabled,    (* publishing.enabled *)
  publishing, (* Service.publishing, *)
  calls,      (* and where each caller of Publish is *)
  queue,      (* what the event loop is to receive *)
  adapter,    (* cycleStatus, lastCompletedCycleCount, pubRunning and dirty *)
  command,    (* the TUI's other commands: where each is *)
  wizard,     (* WizardState *)
  view,       (* activeView, *)
  modal,      (* what captures the keys of the configuration center, *)
  category,   (* configCategory, *)
  center,     (* configCenter: whether a publication runs, as last queried, *)
  busy        (* pubPublishing and pubTesting *)

processVars == <<saved, commits, workers, cycle, cycleCount, enabled>>
serviceVars == <<publishing, calls, queue>>
modelVars   == <<wizard, view, modal, category, center, busy>>
vars == <<processVars, serviceVars, adapter, command, modelVars>>

Steps      == <<"welcome", "source", "subserver", "testing", "review">>
Categories == {"sources", "publishing"}
Modals     == {"none", "confirm", "setting", "source", "delete"}
Callers    == {"cycle", "tui"}

newWizardState == [step |-> 1, saving |-> FALSE, committed |-> FALSE]

(* A first run begins with the wizard; otherwise the workers are started   *)
(* before the TUI is.                                                      *)
Init ==
  /\ saved \in BOOLEAN /\ commits = 0
  /\ workers = IF saved THEN 1 ELSE 0
  /\ cycle = "idle" /\ cycleCount = 0
  /\ enabled \in BOOLEAN /\ (enabled => saved)
  /\ publishing = FALSE /\ calls = [c \in Callers |-> "out"]
  /\ queue = <<>>
  /\ adapter = [status |-> "Idle", lastCompleted |-> 0, pubRunning |-> FALSE, dirty |-> TRUE]
  /\ command = [onboard |-> "none", test |-> "none"]
  /\ wizard = newWizardState
  /\ view = IF saved THEN "candidates" ELSE "wizard"
  /\ modal = "none" /\ category = "sources" /\ center = FALSE
  /\ busy = [publish |-> FALSE, test |-> FALSE]

-----------------------------------------------------------------------------
(* A cycle of the scheduler, which publishes once the cycle is announced   *)
(* as finished.                                                            *)

Emit(event) == queue' = Append(queue, event)

BeginCycle ==
  /\ cycle = "idle" /\ workers > 0
  /\ cycleCount < MaxCycles /\ Len(queue) < MaxQueue
  /\ cycle' = "running"
  /\ Emit("CycleStarted")
  /\ UNCHANGED <<saved, commits, workers, cycleCount, enabled, publishing, calls, adapter,
                 command, modelVars>>

(* Store.FinishCycle counts the cycle before its end is announced.         *)
CountCycle ==
  /\ cycle = "running"
  /\ cycle' = "counted" /\ cycleCount' = cycleCount + 1
  /\ UNCHANGED <<saved, commits, workers, enabled, serviceVars, adapter, command, modelVars>>

(* A cancelled one is announced uncounted, and does not publish.           *)
CancelCycle ==
  /\ cycle = "running"
  /\ cycle' = "idle"
  /\ Emit("CycleFinished")
  /\ UNCHANGED <<saved, commits, workers, cycleCount, enabled, publishing, calls, adapter,
                 command, modelVars>>

FinishCycle ==
  /\ cycle = "counted"
  /\ cycle' = "publishing"
  /\ Emit("CycleFinished")
  /\ calls' = [calls EXCEPT !["cycle"] = "called"]
  /\ UNCHANGED <<saved, commits, workers, cycleCount, enabled, publishing, adapter, command,
                 modelVars>>

EndCycle ==
  /\ cycle = "publishing" /\ calls["cycle"] \in {"ok", "failed"}
  /\ cycle' = "idle"
  /\ calls' = [calls EXCEPT !["cycle"] = "out"]
  /\ UNCHANGED <<saved, commits, workers, cycleCount, enabled, publishing, queue, adapter,
                 command, modelVars>>

-----------------------------------------------------------------------------
(* Service.Publish: what a caller is told is "ok" or "failed".             *)

restOfPublish == <<processVars, adapter, command, modelVars>>

At(c, step) == calls' = [calls EXCEPT ![c] = step]

(* Whether publishing is enabled is asked before the lock is taken.        *)
CheckEnabled(c) ==
  /\ calls[c] = "called"
  /\ At(c, IF enabled THEN "checked" ELSE "ok")
  /\ UNCHANGED <<publishing, queue, restOfPublish>>

(* Only one publication runs; the second is refused.                       *)
Enter(c) ==
  /\ calls[c] = "checked"
  /\ At(c, IF publishing THEN "failed" ELSE "entered")
  /\ publishing' = TRUE
  /\ UNCHANGED <<queue, restOfPublish>>

AnnounceStart(c) ==
  /\ calls[c] = "entered"
  /\ Emit("PublishingStarted")
  /\ At(c, "backend")
  /\ UNCHANGED <<publishing, restOfPublish>>

(* PublishingFinished or PublishingFailed.                                 *)
AnnounceEnd(c) ==
  /\ calls[c] = "backend"
  /\ Emit("PublishingEnded")
  /\ At(c, "announced")
  /\ UNCHANGED <<publishing, restOfPublish>>

(* The deferred reset comes after the event.                               *)
Release(c, result) ==
  /\ calls[c] = "announced"
  /\ publishing' = FALSE
  /\ At(c, result)
  /\ UNCHANGED <<queue, restOfPublish>>

Results == {"ok", "failed"}

Publish(c) ==
  \/ CheckEnabled(c) \/ Enter(c) \/ AnnounceStart(c) \/ AnnounceEnd(c)
  \/ \E result \in Results : Release(c, result)

-----------------------------------------------------------------------------
(* The adapter's event loop.                                               *)

(* Bug: the end of a cycle leaves the count of completed cycles alone.     *)
HandleUncounted(event) ==
  [adapter EXCEPT
     !.dirty = TRUE,
     !.status = CASE event = "CycleStarted" -> "Running" [] event = "CycleFinished" -> "Idle"
                  [] OTHER -> @,
     !.pubRunning = CASE event = "PublishingStarted" -> TRUE
                      [] event = "PublishingEnded" -> FALSE [] OTHER -> @]

(* handleEvent.                                                            *)
Handle(event) ==
  [adapter EXCEPT
     !.dirty = TRUE,
     !.status = CASE event = "CycleStarted" -> "Running" [] event = "CycleFinished" -> "Idle"
                  [] OTHER -> @,
     !.lastCompleted = IF event = "CycleFinished" THEN cycleCount ELSE @,
     !.pubRunning = CASE event = "PublishingStarted" -> TRUE
                      [] event = "PublishingEnded" -> FALSE [] OTHER -> @]

HandleEvent ==
  /\ queue # <<>>
  /\ queue' = Tail(queue)
  /\ adapter' = Handle(Head(queue))
  /\ UNCHANGED <<processVars, publishing, calls, command, modelVars>>

(* reconcileCycleStateLocked: the end of a cycle is seen in the store      *)
(* before its event arrives.                                               *)
Reconciled(a) ==
  IF a.status = "Running" /\ cycleCount > a.lastCompleted
  THEN [a EXCEPT !.status = "Idle", !.lastCompleted = cycleCount] ELSE a

-----------------------------------------------------------------------------
(* What the TUI's thread does: ticks, keys and the answers of commands,    *)
(* each a step; what a handler reads that changes meanwhile is marked as   *)
(* new for the next tick.                                                  *)

restOfModel == <<processVars, serviceVars, adapter, command>>

(* refreshConfigCenter: a publication runs if the service or the adapter   *)
(* says so.                                                                *)
Queried == publishing \/ adapter.pubRunning

Refreshed == IF view = "config" THEN Queried ELSE center

(* TickMsg.  Unless something is marked as new, the service's state is not *)
(* asked for; moved is whether the candidates changed (Dashboard).         *)
Tick(moved) ==
  /\ adapter' = [Reconciled(adapter) EXCEPT !.dirty = FALSE]
  /\ LET isNew == adapter.dirty \/ moved \/ Reconciled(adapter) # adapter
     IN  center' = IF isNew THEN Refreshed ELSE center
  /\ UNCHANGED <<processVars, serviceVars, command, wizard, view, modal, category, busy>>

(* A key of the configuration center is its own while a modal is open.     *)
InCenter == view = "config" /\ modal = "none"

(* Key c, from the candidates or the logs.                                 *)
OpenCenter ==
  /\ view = "candidates"
  /\ view' = "config"
  /\ center' = Queried
  /\ UNCHANGED <<restOfModel, wizard, modal, category, busy>>

LeaveCenter ==
  /\ InCenter
  /\ view' = "candidates"
  /\ UNCHANGED <<restOfModel, wizard, modal, category, center, busy>>

SwitchCategory(to) ==
  /\ InCenter /\ to # category
  /\ category' = to
  /\ UNCHANGED <<restOfModel, wizard, view, modal, center, busy>>

Capture(which) ==
  /\ InCenter
  /\ modal' = which
  /\ UNCHANGED <<restOfModel, wizard, view, category, center, busy>>

(* Keys r, e and enter on a setting.                                       *)
OpenSetting == category # "sources" /\ Capture("setting")

(* Enter or a, to edit or add a source, and d, to delete one.              *)
OpenSource(which) == category = "sources" /\ which \in {"source", "delete"} /\ Capture(which)

CancelModal ==
  /\ modal # "none"
  /\ modal' = "none"
  /\ UNCHANGED <<restOfModel, wizard, view, category, center, busy>>

(* What is changed is saved and announced (ControlPlane), and marked and   *)
(* shown by hand.                                                          *)
Announced ==
  /\ Len(queue) < MaxQueue
  /\ Emit("ConfigUpdated")
  /\ adapter' = [adapter EXCEPT !.dirty = TRUE]

Commit(accepted) ==
  /\ IF accepted THEN Announced /\ center' = Queried
                 ELSE UNCHANGED <<queue, adapter, center>>
  /\ UNCHANGED <<processVars, publishing, calls, command, wizard, view, category, busy>>

(* A value, a source that is refused stays in its editor.                  *)
CommitSetting(accepted) ==
  /\ modal = "setting"
  /\ modal' = IF accepted THEN "none" ELSE modal
  /\ Commit(accepted)

CommitSource(accepted) ==
  /\ modal = "source"
  /\ modal' = IF accepted THEN "none" ELSE modal
  /\ Commit(accepted)

DeleteSource(accepted) ==
  /\ modal = "delete"
  /\ modal' = "none"
  /\ Commit(accepted)

(* Keys e, space and enter on a switch or a source, p and r on the         *)
(* scheduler.                                                              *)
ChangeAtOnce ==
  /\ InCenter
  /\ Announced
  /\ center' = Queried
  /\ UNCHANGED <<processVars, publishing, calls, command, wizard, view, modal, category, busy>>

(* Key e of the publishing pane: what is shown is inverted, and it is what *)
(* is set, for only the TUI's thread sets it.                              *)
ToggleEnabled ==
  /\ InCenter /\ category = "publishing"
  /\ enabled' = ~enabled
  /\ Announced
  /\ center' = Queried
  /\ UNCHANGED <<saved, commits, workers, cycle, cycleCount, publishing, calls, command,
                 wizard, view, modal, category, busy>>

-----------------------------------------------------------------------------
(* Commands run beside the TUI's thread, which handles their answer.       *)

(* Bug: the guard on the publication of one's own is lost.                 *)
AskPublishAgain ==
  /\ InCenter /\ category = "publishing"
  /\ ~center /\ ~busy.test
  /\ modal' = "confirm"
  /\ UNCHANGED <<restOfModel, wizard, view, category, center, busy>>

(* Key p: publish now?                                                     *)
AskPublish ==
  /\ InCenter /\ category = "publishing"
  /\ ~center /\ ~busy.publish /\ ~busy.test
  /\ modal' = "confirm"
  /\ UNCHANGED <<restOfModel, wizard, view, category, center, busy>>

ConfirmPublish ==
  /\ modal = "confirm" /\ Len(queue) < MaxQueue
  /\ modal' = "none"
  /\ busy' = [busy EXCEPT !.publish = TRUE]
  /\ At("tui", "called")
  /\ UNCHANGED <<processVars, publishing, queue, adapter, command, wizard, view, category,
                 center>>

(* The adapter marks what a publication without an error changed.          *)
PublishReturns ==
  /\ calls["tui"] \in Results
  /\ At("tui", "answered")
  /\ adapter' = [adapter EXCEPT !.dirty = @ \/ calls["tui"] = "ok"]
  /\ UNCHANGED <<processVars, publishing, queue, command, modelVars>>

(* Bug: the answer is left to the view that asked.                         *)
AnswerPublishThere ==
  /\ calls["tui"] = "answered"
  /\ At("tui", "out")
  /\ busy' = [busy EXCEPT !.publish = view # "config"]
  /\ center' = Refreshed
  /\ UNCHANGED <<processVars, publishing, queue, adapter, command, wizard, view, modal, category>>

(* publishingRunResultMsg.                                                 *)
AnswerPublish ==
  /\ calls["tui"] = "answered"
  /\ At("tui", "out")
  /\ busy' = [busy EXCEPT !.publish = FALSE]
  /\ center' = Refreshed
  /\ UNCHANGED <<processVars, publishing, queue, adapter, command, wizard, view, modal, category>>

(* Key t: test the connection.                                             *)
AskTest ==
  /\ InCenter /\ category = "publishing"
  /\ ~busy.test /\ ~busy.publish
  /\ busy' = [busy EXCEPT !.test = TRUE]
  /\ command' = [command EXCEPT !.test = "running"]
  /\ UNCHANGED <<processVars, serviceVars, adapter, wizard, view, modal, category, center>>

TestReturns ==
  /\ command.test = "running"
  /\ command' = [command EXCEPT !.test = "answered"]
  /\ UNCHANGED <<processVars, serviceVars, adapter, modelVars>>

(* publishingTestResultMsg.                                                *)
AnswerTest ==
  /\ command.test = "answered"
  /\ command' = [command EXCEPT !.test = "none"]
  /\ busy' = [busy EXCEPT !.test = FALSE]
  /\ center' = Refreshed
  /\ UNCHANGED <<processVars, serviceVars, adapter, wizard, view, modal, category>>

-----------------------------------------------------------------------------
(* The wizard.                                                             *)

Reviewing == view = "wizard" /\ wizard.step = Len(Steps) /\ ~wizard.saving

(* Enter with valid input goes on, esc goes back.                          *)
TurnPage(to) ==
  /\ view = "wizard"
  /\ to \in {wizard.step - 1, wizard.step + 1} \cap (1..Len(Steps))
  /\ wizard.step = Len(Steps) => Reviewing /\ ~wizard.committed
  /\ wizard' = [wizard EXCEPT !.step = to]
  /\ UNCHANGED <<restOfModel, view, modal, category, center, busy>>

(* Enter on the last page.                                                 *)
SaveOnboarding ==
  /\ Reviewing /\ ~wizard.committed
  /\ wizard' = [wizard EXCEPT !.saving = TRUE]
  /\ command' = [command EXCEPT !.onboard = "saving"]
  /\ UNCHANGED <<processVars, serviceVars, adapter, view, modal, category, center, busy>>

(* A configuration that is saved is not saved again.                       *)
RetryRuntime ==
  /\ Reviewing /\ wizard.committed
  /\ wizard' = [wizard EXCEPT !.saving = TRUE]
  /\ command' = [command EXCEPT !.onboard = "starting"]
  /\ UNCHANGED <<processVars, serviceVars, adapter, view, modal, category, center, busy>>

(* CompleteOnboarding: the file is written, or refused, as a whole.        *)
CompleteOnboarding(accepted) ==
  /\ command.onboard = "saving"
  /\ command' = [command EXCEPT !.onboard = IF accepted THEN "starting" ELSE "refused"]
  /\ IF accepted THEN saved' = TRUE /\ commits' = commits + 1 /\ Announced
                 ELSE UNCHANGED <<saved, commits, queue, adapter>>
  /\ UNCHANGED <<workers, cycle, cycleCount, enabled, publishing, calls, modelVars>>

(* StartRuntime.  Workers that were started are left alone; the mark of a  *)
(* start that fails is taken back.                                         *)
StartRuntime(starts) ==
  /\ command.onboard = "starting"
  /\ (workers > 0) => starts
  /\ workers' = IF starts /\ workers = 0 THEN 1 ELSE workers
  /\ command' = [command EXCEPT !.onboard = IF starts THEN "started" ELSE "down"]
  /\ adapter' = [adapter EXCEPT !.dirty = @ \/ starts]
  /\ UNCHANGED <<saved, commits, cycle, cycleCount, enabled, serviceVars, modelVars>>

(* Bug: what was saved counts only once the workers run.                   *)
AnswerOnboardingStarted ==
  /\ command.onboard \in {"refused", "started", "down"}
  /\ command' = [command EXCEPT !.onboard = "none"]
  /\ wizard' = [wizard EXCEPT !.saving = FALSE,
                              !.committed = @ \/ command.onboard = "started"]
  /\ view' = IF command.onboard = "started" THEN "candidates" ELSE view
  /\ UNCHANGED <<processVars, serviceVars, adapter, modal, category, center, busy>>

(* onboardingSavedMsg.                                                     *)
AnswerOnboarding ==
  /\ command.onboard \in {"refused", "started", "down"}
  /\ command' = [command EXCEPT !.onboard = "none"]
  /\ wizard' = [wizard EXCEPT !.saving = FALSE,
                              !.committed = @ \/ command.onboard # "refused"]
  /\ view' = IF command.onboard = "started" THEN "candidates" ELSE view
  /\ UNCHANGED <<processVars, serviceVars, adapter, modal, category, center, busy>>

(* Once the configuration is saved the wizard may be left without workers, *)
(* by esc or by c.                                                         *)
LeaveWizard(to) ==
  /\ Reviewing /\ wizard.committed
  /\ view' = to
  /\ center' = IF to = "config" THEN Queried ELSE center
  /\ UNCHANGED <<restOfModel, wizard, modal, category, busy>>

-----------------------------------------------------------------------------
Scheduling == BeginCycle \/ CountCycle \/ CancelCycle \/ FinishCycle \/ EndCycle

Key ==
  \/ OpenCenter \/ LeaveCenter \/ OpenSetting \/ CancelModal \/ ChangeAtOnce \/ ToggleEnabled
  \/ AskPublish \/ ConfirmPublish \/ AskTest \/ SaveOnboarding \/ RetryRuntime
  \/ \E to \in Categories : SwitchCategory(to)
  \/ \E which \in Modals : OpenSource(which)
  \/ \E accepted \in BOOLEAN :
       CommitSetting(accepted) \/ CommitSource(accepted) \/ DeleteSource(accepted)
  \/ \E to \in DOMAIN Steps : TurnPage(to)
  \/ \E to \in {"candidates", "config"} : LeaveWizard(to)

Command ==
  \/ TestReturns \/ PublishReturns
  \/ \E accepted \in BOOLEAN : CompleteOnboarding(accepted)
  \/ \E starts \in BOOLEAN : StartRuntime(starts)

Answer == AnswerPublish \/ AnswerTest \/ AnswerOnboarding

Next ==
  \/ Scheduling
  \/ \E c \in Callers : Publish(c)
  \/ HandleEvent
  \/ \E moved \in BOOLEAN : Tick(moved)
  \/ Key \/ Command \/ Answer

(* The event loop and the TUI's thread go on; what a command waits for has *)
(* a deadline, 60 s for a publication and 15 s for a test.                 *)
Fairness ==
  /\ WF_vars(HandleEvent) /\ WF_vars(Publish("tui"))
  /\ WF_vars(TestReturns) /\ WF_vars(PublishReturns)
  /\ WF_vars(\E accepted \in BOOLEAN : CompleteOnboarding(accepted))
  /\ WF_vars(\E starts \in BOOLEAN : StartRuntime(starts))
  /\ WF_vars(AnswerPublish) /\ WF_vars(AnswerTest) /\ WF_vars(AnswerOnboarding)

Spec == Init /\ [][Next]_vars /\ Fairness

-----------------------------------------------------------------------------
(* Properties.                                                             *)

(* The variables have their types; the TUI is busy with a publication or a *)
(* test exactly while the command is under way, with one of them at a      *)
(* time, asks for no other meanwhile, and is saving exactly while the      *)
(* wizard's command is.                                                    *)
TypeOK ==
  /\ commits \in Nat /\ workers \in {0, 1} /\ cycleCount \in 0..MaxCycles
  /\ cycle \in {"idle", "running", "counted", "publishing"}
  /\ {saved, enabled, publishing} \subseteq BOOLEAN
  /\ calls \in [Callers -> {"out", "called", "checked", "entered", "backend", "announced",
                            "ok", "failed", "answered"}]
  /\ adapter.status \in {"Idle", "Running"} /\ adapter.lastCompleted \in 0..cycleCount
  /\ wizard.step \in DOMAIN Steps
  /\ view \in {"wizard", "candidates", "config"} /\ category \in Categories
  /\ modal \in Modals /\ (modal # "none" => view = "config")
  /\ busy.publish <=> calls["tui"] # "out"
  /\ busy.test <=> command.test # "none"
  /\ wizard.saving <=> command.onboard # "none"
  /\ ~(busy.publish /\ busy.test)
  /\ modal = "confirm" => ~busy.publish /\ ~busy.test

(* Once it has received every event, the adapter knows whether a cycle     *)
(* runs and whether a publication does: what it found out by itself, in    *)
(* reconcileCycleStateLocked, never contradicts a later cycle.  Between    *)
(* the count of a cycle and its event, both answers are right.             *)
StatusIsCurrent ==
  queue = <<>> =>
    /\ cycle = "running" => adapter.status = "Running"
    /\ cycle \in {"idle", "publishing"} => adapter.status = "Idle"
    /\ adapter.pubRunning <=> \E c \in Callers : calls[c] = "backend"

(* Whatever fails and is retried, the wizard writes the configuration      *)
(* once, the workers are not started before it is saved, and a             *)
(* configuration that was saved is never taken for one that was not.       *)
OnboardedOnce ==
  /\ commits <= 1
  /\ workers > 0 => saved
  /\ wizard.committed => saved
  /\ (view # "wizard") => saved

(* The TUI is told of the end of what it started, wherever the user went   *)
(* meanwhile.                                                              *)
AnswersArrive ==
  /\ busy.publish ~> ~busy.publish
  /\ busy.test ~> ~busy.test
  /\ wizard.saving ~> ~wizard.saving
=============================================================================
