---------------------------- MODULE ConsoleProofs ----------------------------
(***************************************************************************)
(* What the terminal interface knows and does, for any number of cycles    *)
(* and of events that wait.                                                *)
(*                                                                         *)
(* Commanded ties what the TUI is busy with to where its commands are,     *)
(* Onboarding what the wizard remembers to what was saved, and Alone the   *)
(* service's flag to the one publication that runs.  What the adapter      *)
(* knows is in CycleTold and PublicationTold: of the events of a kind that *)
(* still wait the last one tells how things are, and when none waits the   *)
(* adapter has been told.                                                  *)
(* EventsAlternate, at the end, rests on the same: what is emitted is      *)
(* never the last news again.                                              *)
(***************************************************************************)
EXTENDS Console, SequenceTheorems, TLAPS

-----------------------------------------------------------------------------
(* Waiting events of a kind.                                               *)

Absent(q, kind) == \A i \in DOMAIN q : q[i] \notin kind

LastIs(q, kind, e) ==
  \A i \in DOMAIN q :
    q[i] \in kind /\ (\A j \in DOMAIN q : j > i => q[j] \notin kind) => q[i] = e

(* An event that is emitted goes to the end of the queue.                  *)
LEMMA EmittedIsLast ==
  ASSUME NEW T, NEW q \in Seq(T), NEW x \in T, NEW kind, x \in kind
  PROVE  LastIs(Append(q, x), kind, x) /\ ~ Absent(Append(q, x), kind)
<1> DEFINE a == Append(q, x)
<1>1. /\ DOMAIN a = 1 .. Len(q) + 1 /\ Len(q) \in Nat
      /\ \A i \in 1 .. Len(q) : a[i] = q[i]
      /\ a[Len(q) + 1] = x
  BY AppendProperties, LenProperties
<1> HIDE DEF a
<1>2. \A i \in 1 .. Len(q) + 1 : i = Len(q) + 1 \/ Len(q) + 1 > i
  BY <1>1
<1>3. LastIs(a, kind, x) /\ ~ Absent(a, kind)
  BY <1>1, <1>2 DEF LastIs, Absent
<1>4. QED
  BY <1>3 DEF a

(* One of another kind changes nothing for this one.                       *)
LEMMA EmittedOfOtherKind ==
  ASSUME NEW T, NEW q \in Seq(T), NEW x \in T, NEW kind, NEW e, x \notin kind
  PROVE  /\ LastIs(q, kind, e) => LastIs(Append(q, x), kind, e)
         /\ Absent(Append(q, x), kind) => Absent(q, kind)
<1> DEFINE a == Append(q, x)
<1>1. /\ DOMAIN a = 1 .. Len(q) + 1 /\ Len(q) \in Nat /\ DOMAIN q = 1 .. Len(q)
      /\ \A i \in 1 .. Len(q) : a[i] = q[i]
      /\ a[Len(q) + 1] = x
  BY AppendProperties, LenProperties
<1> HIDE DEF a
<1>2. /\ LastIs(q, kind, e) => LastIs(a, kind, e)
      /\ Absent(a, kind) => Absent(q, kind)
  BY <1>1 DEF LastIs, Absent
<1>3. QED
  BY <1>2 DEF a

(* The loop receives from the front: if no other of the kind waits, what   *)
(* it received was the last.                                               *)
LEMMA ReceivedOrNot ==
  ASSUME NEW T, NEW q \in Seq(T), q # <<>>, NEW kind, NEW e, LastIs(q, kind, e)
  PROVE  /\ Tail(q) \in Seq(T) /\ Head(q) \in T
         /\ LastIs(Tail(q), kind, e)
         /\ Absent(Tail(q), kind) =>
              IF Head(q) \in kind THEN Head(q) = e ELSE Absent(q, kind)
<1> DEFINE t == Tail(q)
<1>1. /\ t \in Seq(T) /\ Head(q) \in T
      /\ Len(q) \in Nat \ {0} /\ Head(q) = q[1]
      /\ DOMAIN q = 1 .. Len(q) /\ DOMAIN t = 1 .. Len(q) - 1
      /\ \A i \in 1 .. Len(q) - 1 : t[i] = q[i + 1]
  BY HeadTailProperties, LenProperties, EmptySeq
<1> HIDE DEF t
<1>2. ASSUME NEW j \in 1 .. Len(q), j # 1
      PROVE  j - 1 \in 1 .. Len(q) - 1 /\ t[j - 1] = q[j]
  <2>1. j - 1 \in 1 .. Len(q) - 1 /\ j - 1 + 1 = j
    BY <1>1, <1>2
  <2>2. QED
    BY <1>1, <2>1
<1>3. ASSUME NEW i \in DOMAIN t, t[i] \in kind,
             \A j \in DOMAIN t : j > i => t[j] \notin kind
      PROVE  t[i] = e
  <2>1. i + 1 \in DOMAIN q /\ q[i + 1] = t[i]
    BY <1>1
  <2>2. ASSUME NEW j \in DOMAIN q, j > i + 1
        PROVE  q[j] \notin kind
    <3>1. j - 1 \in DOMAIN t /\ j - 1 > i /\ t[j - 1] = q[j]
      BY <1>1, <1>2, <2>2
    <3>2. QED
      BY <1>3, <3>1
  <2>3. QED
    BY <1>3, <2>1, <2>2 DEF LastIs
<1>4. ASSUME Absent(t, kind)
      PROVE  \A j \in DOMAIN q : j # 1 => q[j] \notin kind
  BY <1>1, <1>2, <1>4 DEF Absent
<1>5. ASSUME Absent(t, kind)
      PROVE  IF Head(q) \in kind THEN Head(q) = e ELSE Absent(q, kind)
  <2>1. 1 \in DOMAIN q /\ \A j \in DOMAIN q : j > 1 => j # 1
    BY <1>1
  <2>2. QED
    BY <1>1, <1>4, <1>5, <2>1 DEF LastIs, Absent
<1>6. LastIs(t, kind, e)
  BY <1>3 DEF LastIs
<1>7. QED
  BY <1>1, <1>5, <1>6 DEF t

-----------------------------------------------------------------------------
(* The inductive invariant.                                                *)

CycleEvents      == {"CycleStarted", "CycleFinished"}
PublishingEvents == {"PublishingStarted", "PublishingEnded"}
Events           == CycleEvents \cup PublishingEvents \cup {"ConfigUpdated"}

(* Where a caller of Publish holds the service's flag, and whether one is  *)
(* between the event that announces the start and the one for the end.     *)
Publishing == {"entered", "backend", "announced"}
Backend    == \E c \in Callers : calls[c] = "backend"

Typed ==
  /\ saved \in BOOLEAN /\ commits \in Nat /\ workers \in {0, 1}
  /\ cycle \in {"idle", "running", "counted", "publishing"}
  /\ cycleCount \in 0 .. MaxCycles /\ (cycle = "running" => cycleCount < MaxCycles)
  /\ enabled \in BOOLEAN /\ publishing \in BOOLEAN
  /\ calls \in [Callers -> {"out", "called", "checked", "ok", "failed", "answered"} \cup Publishing]
  /\ queue \in Seq(Events)
  /\ adapter \in [status : {"Idle", "Running"}, lastCompleted : 0 .. cycleCount,
                  pubRunning : BOOLEAN, dirty : BOOLEAN]
  /\ command \in [onboard : {"none", "saving", "refused", "starting", "started", "down"},
                  test : {"none", "running", "answered"}]
  /\ wizard \in [step : 1 .. 5, saving : BOOLEAN, committed : BOOLEAN]
  /\ view \in {"wizard", "candidates", "config"}
  /\ modal \in Modals /\ category \in Categories
  /\ busy \in [publish : BOOLEAN, test : BOOLEAN]

(* pubPublishing and pubTesting say where the commands are, and the modal  *)
(* that asks for a publication is open only while neither runs.            *)
Commanded ==
  /\ busy.publish <=> calls["tui"] # "out"
  /\ busy.test <=> command.test # "none"
  /\ wizard.saving <=> command.onboard # "none"
  /\ ~ (busy.publish /\ busy.test)
  /\ modal # "none" => view = "config"
  /\ modal = "confirm" => ~ busy.publish /\ ~ busy.test
  /\ command.onboard # "none" => view = "wizard"

(* The configuration is on disk once the wizard's command got so far, and  *)
(* a wizard that may still write it has not done so.                       *)
Onboarding ==
  /\ commits <= 1
  /\ (workers > 0 \/ wizard.committed \/ view # "wizard") => saved
  /\ command.onboard \in {"starting", "started", "down"} => saved
  /\ command.onboard \in {"saving", "refused"} => ~ wizard.committed
  /\ commits = 0 \/ wizard.committed \/ command.onboard \in {"starting", "started", "down"}

(* One publication runs, and the scheduler's call of Publish lasts as long *)
(* as its cycle publishes.                                                 *)
Alone ==
  /\ publishing <=> \E c \in Callers : calls[c] \in Publishing
  /\ \A c, d \in Callers : calls[c] \in Publishing /\ calls[d] \in Publishing => c = d
  /\ calls["cycle"] # "out" <=> cycle = "publishing"
  /\ calls["cycle"] # "answered"

CycleNews == IF cycle \in {"running", "counted"} THEN "CycleStarted" ELSE "CycleFinished"

CycleTold ==
  /\ LastIs(queue, CycleEvents, CycleNews)
  /\ Absent(queue, CycleEvents) =>
       /\ cycle = "running" => adapter.status = "Running"
       /\ cycle \in {"idle", "publishing"} => adapter.status = "Idle"
  /\ Absent(queue, {"CycleFinished"}) /\ cycle # "counted" => adapter.lastCompleted = cycleCount

PublishingNews == IF Backend THEN "PublishingStarted" ELSE "PublishingEnded"

PublicationTold ==
  /\ LastIs(queue, PublishingEvents, PublishingNews)
  /\ Absent(queue, PublishingEvents) => (adapter.pubRunning <=> Backend)

Settled == Typed /\ Commanded /\ Onboarding /\ Alone

IInv == Settled /\ CycleTold /\ PublicationTold

LEMMA StepsFacts == Len(Steps) = 5 /\ DOMAIN Steps = 1 .. 5
BY DEF Steps

LEMMA ConsoleInitially == Init => IInv
<1> SUFFICES ASSUME Init
             PROVE  IInv
  OBVIOUS
<1>1. Typed
  <2>1. /\ queue \in Seq(Events)
        /\ calls \in [Callers -> {"out", "called", "checked", "ok", "failed", "answered"}
                                 \cup Publishing]
    BY DEF Init
  <2>2. /\ command \in [onboard : {"none", "saving", "refused", "starting", "started", "down"},
                        test : {"none", "running", "answered"}]
        /\ wizard \in [step : 1 .. 5, saving : BOOLEAN, committed : BOOLEAN]
        /\ busy \in [publish : BOOLEAN, test : BOOLEAN]
    BY DEF Init, newWizardState
  <2>3. adapter \in [status : {"Idle", "Running"}, lastCompleted : 0 .. cycleCount,
                     pubRunning : BOOLEAN, dirty : BOOLEAN]
    BY DEF Init
  <2>4. cycleCount \in 0 .. MaxCycles /\ commits \in Nat /\ workers \in {0, 1}
    BY ConsoleAssumption DEF Init
  <2>5. /\ saved \in BOOLEAN /\ enabled \in BOOLEAN /\ publishing \in BOOLEAN
        /\ cycle \in {"idle", "running", "counted", "publishing"}
        /\ cycle # "running"
        /\ view \in {"wizard", "candidates", "config"}
        /\ modal \in Modals /\ category \in Categories
    BY DEF Init, Modals, Categories
  <2>6. QED
    BY <2>1, <2>2, <2>3, <2>4, <2>5 DEF Typed
<1>2. Commanded /\ Onboarding /\ Alone
  BY DEF Init, Commanded, Onboarding, Alone, newWizardState, Callers, Publishing
<1>3. CycleTold /\ PublicationTold
  BY DEF Init, CycleTold, PublicationTold, Backend, LastIs, Absent, Callers
<1>4. QED
  BY <1>1, <1>2, <1>3 DEF IInv, Settled

-----------------------------------------------------------------------------
(* What the steps do to the parts of the invariant that are no matter of   *)
(* what waits.                                                             *)

LEMMA CycleSettled ==
  ASSUME Settled, Scheduling
  PROVE  Settled'
<1> USE DEF Settled
<1>1. CASE BeginCycle
  BY <1>1 DEF BeginCycle, Emit, Typed, Commanded, Onboarding, Alone, modelVars, Events,
    CycleEvents
<1>2. CASE CountCycle
  <2>1. cycleCount' \in 0 .. MaxCycles /\ cycleCount' = cycleCount + 1
    BY <1>2, ConsoleAssumption DEF CountCycle, Typed
  <2>2. adapter' \in [status : {"Idle", "Running"}, lastCompleted : 0 .. cycleCount',
                      pubRunning : BOOLEAN, dirty : BOOLEAN]
    BY <1>2, <2>1 DEF CountCycle, Typed
  <2>3. Typed'
    BY <1>2, <2>1, <2>2 DEF CountCycle, Typed, modelVars, serviceVars
  <2>4. Commanded' /\ Onboarding' /\ Alone'
    BY <1>2 DEF CountCycle, Commanded, Onboarding, Alone, modelVars, serviceVars
  <2>5. QED
    BY <2>3, <2>4
<1>3. CASE CancelCycle
  BY <1>3 DEF CancelCycle, Emit, Typed, Commanded, Onboarding, Alone, modelVars, Events,
    CycleEvents
<1>4. CASE FinishCycle
  BY <1>4 DEF FinishCycle, Emit, Typed, Commanded, Onboarding, Alone, modelVars, Events,
    CycleEvents, Callers, Publishing
<1>5. CASE EndCycle
  BY <1>5 DEF EndCycle, Typed, Commanded, Onboarding, Alone, modelVars, Callers, Publishing
<1>6. QED
  BY <1>1, <1>2, <1>3, <1>4, <1>5 DEF Scheduling

LEMMA PublishSettled ==
  ASSUME Settled, NEW c \in Callers, Publish(c)
  PROVE  Settled'
<1> USE DEF Settled
<1>1. PICK to \in {"checked", "ok", "failed"} \cup Publishing :
        calls' = [calls EXCEPT ![c] = to]
  BY DEF Publish, CheckEnabled, Enter, AnnounceStart, AnnounceEnd, Release, At, Results,
    Publishing
<1>2. calls[c] \in {"called", "checked"} \cup Publishing
  BY DEF Publish, CheckEnabled, Enter, AnnounceStart, AnnounceEnd, Release, Publishing
<1>3. UNCHANGED restOfPublish
  BY DEF Publish, CheckEnabled, Enter, AnnounceStart, AnnounceEnd, Release
<1>4. calls' \in [Callers -> {"out", "called", "checked", "ok", "failed", "answered"}
                             \cup Publishing]
  BY <1>1 DEF Typed
<1>5. \A d \in Callers : calls'[d] = IF d = c THEN to ELSE calls[d]
  BY <1>1 DEF Typed
<1>6. queue' \in Seq(Events) /\ publishing' \in BOOLEAN
  <2>1. queue' = queue \/ \E x \in PublishingEvents : queue' = Append(queue, x)
    BY DEF Publish, CheckEnabled, Enter, AnnounceStart, AnnounceEnd, Release, Emit,
      PublishingEvents
  <2>2. queue' \in Seq(Events)
    BY <2>1 DEF Typed, Events
  <2>3. publishing' \in BOOLEAN
    BY DEF Publish, CheckEnabled, Enter, AnnounceStart, AnnounceEnd, Release, Typed
  <2>4. QED
    BY <2>2, <2>3
<1>7. Typed'
  BY <1>3, <1>4, <1>6 DEF Typed, restOfPublish, processVars, modelVars
<1>8. Commanded' /\ Onboarding'
  BY <1>2, <1>3, <1>5 DEF Commanded, Onboarding, restOfPublish, processVars, modelVars,
    Callers, Publishing
<1>9. /\ calls'["cycle"] # "out" <=> cycle' = "publishing"
      /\ calls'["cycle"] # "answered"
  BY <1>2, <1>3, <1>5 DEF Alone, restOfPublish, processVars, Callers, Publishing
<1>10. /\ publishing' <=> \E d \in Callers : calls'[d] \in Publishing
       /\ \A d, e \in Callers : calls'[d] \in Publishing /\ calls'[e] \in Publishing => d = e
  <2>1. CASE CheckEnabled(c)
    <3>1. to \in {"checked", "ok"} /\ publishing' = publishing /\ calls[c] = "called"
      BY <2>1, <1>1, <1>4 DEF CheckEnabled, At, Typed
    <3>2. QED
      BY <3>1, <1>5 DEF Alone, Publishing
  <2>2. CASE Enter(c)
    <3>1. /\ to = IF publishing THEN "failed" ELSE "entered"
          /\ publishing' = TRUE /\ calls[c] = "checked"
      BY <2>2, <1>5 DEF Enter, At, Typed
    <3>2. QED
      BY <3>1, <1>5 DEF Alone, Publishing
  <2>3. CASE AnnounceStart(c) \/ AnnounceEnd(c)
    <3>1. to \in Publishing /\ publishing' = publishing /\ calls[c] \in Publishing
      BY <2>3, <1>5 DEF AnnounceStart, AnnounceEnd, At, Typed, Publishing
    <3>2. QED
      BY <3>1, <1>5 DEF Alone
  <2>4. CASE \E result \in Results : Release(c, result)
    <3>1. to \in Results /\ publishing' = FALSE /\ calls[c] = "announced"
      BY <2>4, <1>5 DEF Release, At, Typed
    <3>2. QED
      BY <3>1, <1>5 DEF Alone, Publishing, Results
  <2>5. QED
    BY <2>1, <2>2, <2>3, <2>4 DEF Publish
<1>11. QED
  BY <1>7, <1>8, <1>9, <1>10 DEF Alone

LEMMA ReceivingSettled ==
  ASSUME Settled, HandleEvent
  PROVE  Settled'
<1> USE DEF Settled
<1>1. queue' \in Seq(Events)
  BY HeadTailProperties DEF HandleEvent, Typed
<1>2. adapter' \in [status : {"Idle", "Running"}, lastCompleted : 0 .. cycleCount,
                    pubRunning : BOOLEAN, dirty : BOOLEAN]
  <2> DEFINE event  == Head(queue)
             status == CASE event = "CycleStarted" -> "Running"
                         [] event = "CycleFinished" -> "Idle" [] OTHER -> adapter.status
             count  == IF event = "CycleFinished" THEN cycleCount ELSE adapter.lastCompleted
             runs   == CASE event = "PublishingStarted" -> TRUE
                         [] event = "PublishingEnded" -> FALSE [] OTHER -> adapter.pubRunning
  <2>1. adapter' = [adapter EXCEPT !.dirty = TRUE, !.status = status, !.lastCompleted = count,
                                   !.pubRunning = runs]
    BY DEF HandleEvent, Handle
  <2>2. status \in {"Idle", "Running"}
    BY DEF Typed
  <2>3. count \in 0 .. cycleCount
    BY DEF Typed
  <2>4. runs \in BOOLEAN
    BY DEF Typed
  <2> HIDE DEF status, count, runs
  <2>5. QED
    BY <2>1, <2>2, <2>3, <2>4 DEF Typed
<1>3. Typed'
  BY <1>1, <1>2 DEF HandleEvent, Typed, processVars, modelVars
<1>4. Commanded' /\ Onboarding' /\ Alone'
  BY DEF HandleEvent, Commanded, Onboarding, Alone, processVars, modelVars
<1>5. QED
  BY <1>3, <1>4

LEMMA TickSettled ==
  ASSUME Settled, NEW moved \in BOOLEAN, Tick(moved)
  PROVE  Settled'
<1> USE DEF Settled
<1>1. Reconciled(adapter) \in [status : {"Idle", "Running"}, lastCompleted : 0 .. cycleCount,
                               pubRunning : BOOLEAN, dirty : BOOLEAN]
  <2>1. cycleCount \in 0 .. cycleCount
    BY DEF Typed
  <2>2. [adapter EXCEPT !.status = "Idle", !.lastCompleted = cycleCount]
          \in [status : {"Idle", "Running"}, lastCompleted : 0 .. cycleCount,
              pubRunning : BOOLEAN, dirty : BOOLEAN]
    BY <2>1 DEF Typed
  <2>3. QED
    BY <2>2 DEF Reconciled, Typed
<1>2. adapter' \in [status : {"Idle", "Running"}, lastCompleted : 0 .. cycleCount,
                    pubRunning : BOOLEAN, dirty : BOOLEAN]
  BY <1>1 DEF Tick
<1>3. Typed'
  BY <1>2 DEF Tick, Typed, processVars, serviceVars
<1>4. Commanded' /\ Onboarding' /\ Alone'
  BY DEF Tick, Commanded, Onboarding, Alone, processVars, serviceVars
<1>5. QED
  BY <1>3, <1>4

(* Keys.  Most of them leave alone what the commands and the wizard are    *)
(* doing.                                                                  *)
LEMMA BrowsingSettled ==
  ASSUME Settled,
         \/ OpenCenter \/ LeaveCenter \/ OpenSetting \/ CancelModal
         \/ \E to \in Categories : SwitchCategory(to)
         \/ \E which \in Modals : OpenSource(which)
  PROVE  Settled'
<1> USE DEF Settled
<1>1. UNCHANGED <<processVars, serviceVars, adapter, command, wizard, busy>>
  BY DEF OpenCenter, LeaveCenter, OpenSetting, CancelModal, SwitchCategory, OpenSource, Capture,
    restOfModel
<1>2. /\ view' \in {"wizard", "candidates", "config"}
      /\ modal' \in Modals /\ category' \in Categories
      /\ view = "wizard" <=> view' = "wizard"
  BY DEF OpenCenter, LeaveCenter, OpenSetting, CancelModal, SwitchCategory, OpenSource, Capture,
    InCenter, Typed, Modals
<1>3. /\ modal' # "none" => view' = "config"
      /\ modal' = "confirm" => modal = "confirm"
  BY DEF OpenCenter, LeaveCenter, OpenSetting, CancelModal, SwitchCategory, OpenSource, Capture,
    InCenter, Commanded
<1>4. Typed'
  BY <1>1, <1>2 DEF Typed, processVars, serviceVars
<1>5. Commanded' /\ Onboarding'
  BY <1>1, <1>2, <1>3 DEF Commanded, Onboarding, processVars, serviceVars
<1>6. Alone'
  BY <1>1 DEF Alone, processVars, serviceVars
<1>7. QED
  BY <1>4, <1>5, <1>6

(* What a change of the configuration announces, and marks by hand.        *)
LEMMA AnnouncedTyped ==
  ASSUME Typed, Announced
  PROVE  /\ queue' = Append(queue, "ConfigUpdated") /\ queue' \in Seq(Events)
         /\ adapter' = [adapter EXCEPT !.dirty = TRUE]
         /\ adapter' \in [status : {"Idle", "Running"}, lastCompleted : 0 .. cycleCount,
                          pubRunning : BOOLEAN, dirty : BOOLEAN]
<1>1. queue' = Append(queue, "ConfigUpdated") /\ adapter' = [adapter EXCEPT !.dirty = TRUE]
  BY DEF Announced, Emit
<1>2. queue' \in Seq(Events)
  BY <1>1 DEF Typed, Events
<1>3. adapter' \in [status : {"Idle", "Running"}, lastCompleted : 0 .. cycleCount,
                    pubRunning : BOOLEAN, dirty : BOOLEAN]
  BY <1>1 DEF Typed
<1>4. QED
  BY <1>1, <1>2, <1>3

LEMMA ChangingSettled ==
  ASSUME Settled,
         \/ ChangeAtOnce \/ ToggleEnabled
         \/ \E accepted \in BOOLEAN :
              CommitSetting(accepted) \/ CommitSource(accepted) \/ DeleteSource(accepted)
  PROVE  Settled'
<1> USE DEF Settled
<1>1. UNCHANGED <<saved, commits, workers, cycle, cycleCount, publishing, calls, command,
                  wizard, view, category, busy>>
  BY DEF ChangeAtOnce, ToggleEnabled, CommitSetting, CommitSource, DeleteSource, Commit,
    processVars
<1>2. \/ Announced
      \/ UNCHANGED <<queue, adapter>>
  BY DEF ChangeAtOnce, ToggleEnabled, CommitSetting, CommitSource, DeleteSource, Commit
<1>3. /\ queue' \in Seq(Events)
      /\ adapter' \in [status : {"Idle", "Running"}, lastCompleted : 0 .. cycleCount,
                       pubRunning : BOOLEAN, dirty : BOOLEAN]
  BY <1>2, AnnouncedTyped DEF Typed
<1>4. modal' = modal \/ modal' = "none"
  BY DEF ChangeAtOnce, ToggleEnabled, CommitSetting, CommitSource, DeleteSource
<1>5. enabled' \in BOOLEAN
  BY DEF ChangeAtOnce, ToggleEnabled, CommitSetting, CommitSource, DeleteSource, Commit,
    processVars, Typed
<1>6. Typed'
  BY <1>1, <1>3, <1>4, <1>5 DEF Typed, Modals
<1>7. Commanded' /\ Onboarding' /\ Alone'
  BY <1>1, <1>4 DEF Commanded, Onboarding, Alone
<1>8. QED
  BY <1>6, <1>7

LEMMA AskingSettled ==
  ASSUME Settled, AskPublish \/ ConfirmPublish \/ AskTest
  PROVE  Settled'
<1> USE DEF Settled
<1>1. CASE AskPublish
  BY <1>1 DEF AskPublish, InCenter, Typed, Commanded, Onboarding, Alone, restOfModel,
    processVars, serviceVars, Modals
<1>2. CASE ConfirmPublish
  <2>1. calls["tui"] = "out"
    BY <1>2 DEF ConfirmPublish, Commanded
  <2>2. \A c \in Callers : calls'[c] = IF c = "tui" THEN "called" ELSE calls[c]
    BY <1>2 DEF ConfirmPublish, At, Typed
  <2>3. Typed'
    <3>1. busy' \in [publish : BOOLEAN, test : BOOLEAN]
      BY <1>2 DEF ConfirmPublish, Typed
    <3>2. calls' \in [Callers -> {"out", "called", "checked", "ok", "failed", "answered"}
                                 \cup Publishing]
      BY <1>2 DEF ConfirmPublish, At, Typed
    <3>3. QED
      BY <1>2, <3>1, <3>2 DEF ConfirmPublish, Typed, processVars, Modals
  <2>4. Commanded' /\ Onboarding'
    BY <1>2, <2>2 DEF ConfirmPublish, Typed, Commanded, Onboarding, processVars, Callers
  <2>5. Alone'
    BY <1>2, <2>1, <2>2 DEF ConfirmPublish, Alone, processVars, Callers, Publishing
  <2>6. QED
    BY <2>3, <2>4, <2>5
<1>3. CASE AskTest
  <2>1. /\ busy.publish = FALSE /\ busy.test = FALSE /\ view = "config" /\ modal = "none"
        /\ busy' = [busy EXCEPT !.test = TRUE]
        /\ command' = [command EXCEPT !.test = "running"]
        /\ UNCHANGED <<processVars, serviceVars, adapter, wizard, view, modal, category>>
    BY <1>3 DEF AskTest, InCenter, Typed
  <2>2. /\ busy' \in [publish : BOOLEAN, test : BOOLEAN]
        /\ command' \in [onboard : {"none", "saving", "refused", "starting", "started", "down"},
                         test : {"none", "running", "answered"}]
    BY <2>1 DEF Typed
  <2>3. /\ busy'.publish = FALSE /\ busy'.test = TRUE
        /\ command'.test = "running" /\ command'.onboard = command.onboard
    BY <2>1 DEF Typed
  <2>4. Typed'
    BY <2>1, <2>2 DEF Typed, processVars, serviceVars
  <2>5. Commanded'
    BY <2>1, <2>3 DEF Commanded, processVars, serviceVars
  <2>6. Onboarding' /\ Alone'
    BY <2>1, <2>3 DEF Onboarding, Alone, processVars, serviceVars
  <2>7. QED
    BY <2>4, <2>5, <2>6
<1>4. QED
  BY <1>1, <1>2, <1>3

(* The commands, and the TUI's thread taking their answers.                *)
LEMMA CommandSettled ==
  ASSUME Settled, Command
  PROVE  Settled'
<1> USE DEF Settled
<1>1. CASE TestReturns
  <2>1. command' \in [onboard : {"none", "saving", "refused", "starting", "started", "down"},
                      test : {"none", "running", "answered"}]
    BY <1>1 DEF TestReturns, Typed
  <2>2. command'.onboard = command.onboard /\ command'.test = "answered"
    BY <1>1 DEF TestReturns, Typed
  <2>3. Typed'
    BY <1>1, <2>1 DEF TestReturns, Typed, processVars, serviceVars, modelVars
  <2>4. Commanded' /\ Onboarding' /\ Alone'
    BY <1>1, <2>2 DEF TestReturns, Commanded, Onboarding, Alone, processVars, serviceVars,
      modelVars
  <2>5. QED
    BY <2>3, <2>4
<1>2. CASE PublishReturns
  <2>1. \A c \in Callers : calls'[c] = IF c = "tui" THEN "answered" ELSE calls[c]
    BY <1>2 DEF PublishReturns, At, Typed
  <2>2. calls' \in [Callers -> {"out", "called", "checked", "ok", "failed", "answered"}
                               \cup Publishing]
    BY <1>2 DEF PublishReturns, At, Typed
  <2>3. adapter' \in [status : {"Idle", "Running"}, lastCompleted : 0 .. cycleCount,
                      pubRunning : BOOLEAN, dirty : BOOLEAN]
    <3>1. PICK dirty \in BOOLEAN : adapter' = [adapter EXCEPT !.dirty = dirty]
      BY <1>2 DEF PublishReturns, Typed
    <3>2. QED
      BY <3>1 DEF Typed
  <2>4. Typed'
    BY <1>2, <2>2, <2>3 DEF PublishReturns, Typed, processVars, modelVars
  <2>5. Commanded' /\ Onboarding'
    BY <1>2, <2>1 DEF PublishReturns, Results, Commanded, Onboarding, processVars, modelVars,
      Callers
  <2>6. Alone'
    BY <1>2, <2>1 DEF PublishReturns, Results, Alone, processVars, Callers, Publishing
  <2>7. QED
    BY <2>4, <2>5, <2>6
<1>3. ASSUME NEW accepted \in BOOLEAN, CompleteOnboarding(accepted)
      PROVE  Settled'
  <2>1. command' \in [onboard : {"none", "saving", "refused", "starting", "started", "down"},
                      test : {"none", "running", "answered"}]
    BY <1>3 DEF CompleteOnboarding, Typed
  <2>2. /\ command'.onboard = IF accepted THEN "starting" ELSE "refused"
        /\ command'.test = command.test
    BY <1>3 DEF CompleteOnboarding, Typed
  <2>3. saved' \in BOOLEAN /\ commits' \in Nat
    <3>1. CASE accepted
      BY <1>3, <3>1 DEF CompleteOnboarding, Typed
    <3>2. CASE ~ accepted
      BY <1>3, <3>2 DEF CompleteOnboarding, Typed
    <3>3. QED
      BY <3>1, <3>2
  <2>4. /\ queue' \in Seq(Events)
        /\ adapter' \in [status : {"Idle", "Running"}, lastCompleted : 0 .. cycleCount,
                         pubRunning : BOOLEAN, dirty : BOOLEAN]
    BY <1>3, AnnouncedTyped DEF CompleteOnboarding, Typed
  <2>5. Typed'
    BY <1>3, <2>1, <2>3, <2>4 DEF CompleteOnboarding, Typed, modelVars
  <2>6. commits = 0 /\ commits + 1 = 1
    BY <1>3 DEF CompleteOnboarding, Onboarding, Typed
  <2>7. Commanded' /\ Onboarding'
    BY <1>3, <2>2, <2>6 DEF CompleteOnboarding, Commanded, Onboarding, modelVars
  <2>8. Alone'
    BY <1>3 DEF CompleteOnboarding, Alone
  <2>9. QED
    BY <2>5, <2>7, <2>8
<1>4. ASSUME NEW starts \in BOOLEAN, StartRuntime(starts)
      PROVE  Settled'
  <2>1. command' \in [onboard : {"none", "saving", "refused", "starting", "started", "down"},
                      test : {"none", "running", "answered"}]
    BY <1>4 DEF StartRuntime, Typed
  <2>2. /\ command'.onboard = IF starts THEN "started" ELSE "down"
        /\ command'.test = command.test
    BY <1>4 DEF StartRuntime, Typed
  <2>3. adapter' \in [status : {"Idle", "Running"}, lastCompleted : 0 .. cycleCount,
                      pubRunning : BOOLEAN, dirty : BOOLEAN]
    <3>1. PICK dirty \in BOOLEAN : adapter' = [adapter EXCEPT !.dirty = dirty]
      BY <1>4 DEF StartRuntime, Typed
    <3>2. QED
      BY <3>1 DEF Typed
  <2>4. workers' \in {0, 1}
    BY <1>4 DEF StartRuntime, Typed
  <2>5. Typed'
    BY <1>4, <2>1, <2>3, <2>4 DEF StartRuntime, Typed, serviceVars, modelVars
  <2>6. Commanded' /\ Onboarding' /\ Alone'
    BY <1>4, <2>2 DEF StartRuntime, Commanded, Onboarding, Alone, serviceVars, modelVars
  <2>7. QED
    BY <2>5, <2>6
<1>5. QED
  BY <1>1, <1>2, <1>3, <1>4 DEF Command

LEMMA AnswerSettled ==
  ASSUME Settled, Answer
  PROVE  Settled'
<1> USE DEF Settled
<1>1. CASE AnswerPublish
  <2>1. \A c \in Callers : calls'[c] = IF c = "tui" THEN "out" ELSE calls[c]
    BY <1>1 DEF AnswerPublish, At, Typed
  <2>2. /\ calls' \in [Callers -> {"out", "called", "checked", "ok", "failed", "answered"}
                                  \cup Publishing]
        /\ busy' \in [publish : BOOLEAN, test : BOOLEAN]
    BY <1>1 DEF AnswerPublish, At, Typed
  <2>3. ~ busy'.publish /\ busy'.test = busy.test
    BY <1>1 DEF AnswerPublish, Typed
  <2>4. Typed'
    BY <1>1, <2>2 DEF AnswerPublish, Typed, processVars
  <2>5. Commanded' /\ Onboarding'
    BY <1>1, <2>1, <2>3 DEF AnswerPublish, Commanded, Onboarding, processVars, Callers
  <2>6. Alone'
    BY <1>1, <2>1 DEF AnswerPublish, Alone, processVars, Callers, Publishing
  <2>7. QED
    BY <2>4, <2>5, <2>6
<1>2. CASE AnswerTest
  <2>1. /\ command' \in [onboard : {"none", "saving", "refused", "starting", "started", "down"},
                         test : {"none", "running", "answered"}]
        /\ busy' \in [publish : BOOLEAN, test : BOOLEAN]
    BY <1>2 DEF AnswerTest, Typed
  <2>2. /\ command'.onboard = command.onboard /\ command'.test = "none"
        /\ busy'.publish = busy.publish /\ ~ busy'.test
    BY <1>2 DEF AnswerTest, Typed
  <2>3. Typed'
    BY <1>2, <2>1 DEF AnswerTest, Typed, processVars, serviceVars
  <2>4. Commanded' /\ Onboarding' /\ Alone'
    BY <1>2, <2>2 DEF AnswerTest, Commanded, Onboarding, Alone, processVars, serviceVars
  <2>5. QED
    BY <2>3, <2>4
<1>3. CASE AnswerOnboarding
  <2>1. command' \in [onboard : {"none", "saving", "refused", "starting", "started", "down"},
                      test : {"none", "running", "answered"}]
    BY <1>3 DEF AnswerOnboarding, Typed
  <2>2. command'.onboard = "none" /\ command'.test = command.test
    BY <1>3 DEF AnswerOnboarding, Typed
  <2>3. PICK committed \in BOOLEAN :
          /\ committed <=> wizard.committed \/ command.onboard # "refused"
          /\ wizard' = [wizard EXCEPT !.saving = FALSE, !.committed = committed]
    BY <1>3 DEF AnswerOnboarding, Typed
  <2>4. wizard' \in [step : 1 .. 5, saving : BOOLEAN, committed : BOOLEAN]
    BY <2>3 DEF Typed
  <2>5. ~ wizard'.saving /\ (wizard'.committed <=> committed)
    BY <2>3 DEF Typed
  <2>6. /\ view' \in {"wizard", "candidates", "config"}
        /\ command.onboard # "none"
        /\ view' # "wizard" => command.onboard = "started" \/ view # "wizard"
    BY <1>3 DEF AnswerOnboarding, Typed
  <2>7. Typed'
    BY <1>3, <2>1, <2>4, <2>6 DEF AnswerOnboarding, Typed, processVars, serviceVars
  <2>8. view = "wizard" /\ modal = "none"
    BY <2>6 DEF Commanded
  <2>9. Commanded'
    BY <1>3, <2>2, <2>5, <2>8 DEF AnswerOnboarding, Commanded, processVars, serviceVars
  <2>10. Onboarding'
    BY <1>3, <2>2, <2>3, <2>5, <2>6
    DEF AnswerOnboarding, Onboarding, processVars, serviceVars
  <2>11. Alone'
    BY <1>3 DEF AnswerOnboarding, Alone, processVars, serviceVars
  <2>12. QED
    BY <2>7, <2>9, <2>10, <2>11
<1>4. QED
  BY <1>1, <1>2, <1>3 DEF Answer

LEMMA WizardSettled ==
  ASSUME Settled,
         \/ SaveOnboarding \/ RetryRuntime
         \/ \E to \in DOMAIN Steps : TurnPage(to)
         \/ \E to \in {"candidates", "config"} : LeaveWizard(to)
  PROVE  Settled'
<1> USE DEF Settled
<1>1. ASSUME SaveOnboarding \/ RetryRuntime
      PROVE  Settled'
  <2>1. PICK where \in {"saving", "starting"} :
          /\ command' = [command EXCEPT !.onboard = where]
          /\ where = "saving" => ~ wizard.committed
          /\ where = "starting" => wizard.committed
    BY <1>1 DEF SaveOnboarding, RetryRuntime
  <2>2. /\ command' \in [onboard : {"none", "saving", "refused", "starting", "started", "down"},
                         test : {"none", "running", "answered"}]
        /\ command'.onboard = where /\ command'.test = command.test
    BY <2>1 DEF Typed
  <2>3. /\ wizard' \in [step : 1 .. 5, saving : BOOLEAN, committed : BOOLEAN]
        /\ wizard'.saving /\ (wizard'.committed <=> wizard.committed)
    BY <1>1 DEF SaveOnboarding, RetryRuntime, Typed
  <2>4. /\ view = "wizard" /\ ~ wizard.saving
        /\ UNCHANGED <<processVars, serviceVars, adapter, view, modal, category, center, busy>>
    BY <1>1 DEF SaveOnboarding, RetryRuntime, Reviewing
  <2>5. Typed'
    BY <2>2, <2>3, <2>4 DEF Typed, processVars, serviceVars
  <2>6. Commanded' /\ Alone'
    BY <2>1, <2>2, <2>3, <2>4 DEF Commanded, Alone, processVars, serviceVars
  <2>7. Onboarding'
    BY <2>1, <2>2, <2>3, <2>4 DEF Onboarding, Commanded, processVars, serviceVars
  <2>8. QED
    BY <2>5, <2>6, <2>7
<1>2. ASSUME NEW to \in DOMAIN Steps, TurnPage(to)
      PROVE  Settled'
  <2>1. /\ wizard' \in [step : 1 .. 5, saving : BOOLEAN, committed : BOOLEAN]
        /\ wizard'.saving = wizard.saving /\ wizard'.committed = wizard.committed
    BY <1>2, StepsFacts DEF TurnPage, Typed
  <2>2. Typed'
    BY <1>2, <2>1 DEF TurnPage, Typed, restOfModel, processVars, serviceVars
  <2>3. Commanded' /\ Onboarding' /\ Alone'
    BY <1>2, <2>1 DEF TurnPage, Commanded, Onboarding, Alone, restOfModel, processVars,
      serviceVars
  <2>4. QED
    BY <2>2, <2>3
<1>3. ASSUME NEW to \in {"candidates", "config"}, LeaveWizard(to)
      PROVE  Settled'
  <2>1. /\ view = "wizard" /\ ~ wizard.saving /\ wizard.committed /\ view' = to
        /\ UNCHANGED <<restOfModel, wizard, modal, category, busy>>
    BY <1>3 DEF LeaveWizard, Reviewing
  <2>2. Typed'
    BY <2>1 DEF Typed, restOfModel, processVars, serviceVars
  <2>3. Commanded' /\ Onboarding' /\ Alone'
    BY <2>1 DEF Commanded, Onboarding, Alone, restOfModel, processVars, serviceVars
  <2>4. QED
    BY <2>2, <2>3
<1>4. QED
  BY <1>1, <1>2, <1>3

LEMMA SettledKeeps ==
  ASSUME Settled, Next
  PROVE  Settled'
<1>1. CASE Key
  BY <1>1, BrowsingSettled, ChangingSettled, AskingSettled, WizardSettled DEF Key
<1>2. CASE ~ Key
  BY <1>2, CycleSettled, PublishSettled, ReceivingSettled, TickSettled, CommandSettled,
    AnswerSettled
  DEF Next
<1>3. QED
  BY <1>1, <1>2

-----------------------------------------------------------------------------
(* What the adapter has been told of the cycles.  Most steps leave it      *)
(* alone, for they emit nothing, or events of another kind.                *)

CycleQuiet ==
  /\ queue' = queue \/ \E x \in Events \ CycleEvents : queue' = Append(queue, x)
  /\ UNCHANGED <<cycle, cycleCount>>
  /\ adapter'.status = adapter.status /\ adapter'.lastCompleted = adapter.lastCompleted

LEMMA CycleQuietKeeps ==
  ASSUME Typed, CycleTold, CycleQuiet
  PROVE  CycleTold'
<1>1. CycleNews' = CycleNews
  BY DEF CycleQuiet, CycleNews
<1>2. /\ LastIs(queue', CycleEvents, CycleNews)
      /\ Absent(queue', CycleEvents) => Absent(queue, CycleEvents)
      /\ Absent(queue', {"CycleFinished"}) => Absent(queue, {"CycleFinished"})
  <2>1. CASE queue' = queue
    BY <2>1 DEF CycleTold
  <2>2. CASE \E x \in Events \ CycleEvents : queue' = Append(queue, x)
    <3>1. PICK x \in Events \ CycleEvents : queue' = Append(queue, x)
      BY <2>2
    <3>2. queue \in Seq(Events) /\ x \notin CycleEvents /\ x \notin {"CycleFinished"}
      BY <3>1 DEF Typed, CycleEvents
    <3>3. /\ LastIs(Append(queue, x), CycleEvents, CycleNews)
          /\ Absent(Append(queue, x), CycleEvents) => Absent(queue, CycleEvents)
      BY <3>2, EmittedOfOtherKind DEF CycleTold
    <3>4. Absent(Append(queue, x), {"CycleFinished"}) => Absent(queue, {"CycleFinished"})
      BY <3>2, EmittedOfOtherKind
    <3>5. QED
      BY <3>1, <3>3, <3>4
  <2>3. QED
    BY <2>1, <2>2 DEF CycleQuiet
<1>3. QED
  BY <1>1, <1>2 DEF CycleTold, CycleQuiet

LEMMA CycleStepTold ==
  ASSUME Settled, CycleTold, Scheduling
  PROVE  CycleTold'
<1>1. queue \in Seq(Events) /\ {"CycleStarted", "CycleFinished"} \subseteq Events
  BY DEF Settled, Typed, Events, CycleEvents
<1>2. CASE BeginCycle
  <2>1. /\ queue' = Append(queue, "CycleStarted") /\ CycleNews' = "CycleStarted"
        /\ cycle = "idle" /\ UNCHANGED <<adapter, cycleCount>>
    BY <1>2 DEF BeginCycle, Emit, CycleNews
  <2>2. /\ LastIs(queue', CycleEvents, "CycleStarted")
        /\ ~ Absent(queue', CycleEvents)
    BY <1>1, <2>1, EmittedIsLast DEF CycleEvents
  <2>3. Absent(queue', {"CycleFinished"}) => Absent(queue, {"CycleFinished"})
    BY <1>1, <2>1, EmittedOfOtherKind
  <2>4. QED
    BY <2>1, <2>2, <2>3 DEF CycleTold
<1>3. CASE CountCycle
  BY <1>3 DEF CountCycle, serviceVars, CycleNews, CycleTold
<1>4. CASE CancelCycle \/ FinishCycle
  <2>1. /\ queue' = Append(queue, "CycleFinished") /\ CycleNews' = "CycleFinished"
    BY <1>4 DEF CancelCycle, FinishCycle, Emit, CycleNews
  <2>2. /\ LastIs(queue', CycleEvents, "CycleFinished")
        /\ ~ Absent(queue', CycleEvents)
    BY <1>1, <2>1, EmittedIsLast DEF CycleEvents
  <2>3. ~ Absent(queue', {"CycleFinished"})
    BY <1>1, <2>1, EmittedIsLast
  <2>4. QED
    BY <2>1, <2>2, <2>3 DEF CycleTold
<1>5. CASE EndCycle
  BY <1>5 DEF EndCycle, CycleNews, CycleTold
<1>6. QED
  BY <1>2, <1>3, <1>4, <1>5 DEF Scheduling

LEMMA ReceivedFields ==
  ASSUME Typed, HandleEvent
  PROVE  /\ adapter'.status = IF Head(queue) = "CycleStarted" THEN "Running"
                              ELSE IF Head(queue) = "CycleFinished" THEN "Idle"
                              ELSE adapter.status
         /\ adapter'.lastCompleted = IF Head(queue) = "CycleFinished" THEN cycleCount
                                     ELSE adapter.lastCompleted
         /\ adapter'.pubRunning <=> \/ Head(queue) = "PublishingStarted"
                                    \/ Head(queue) # "PublishingEnded" /\ adapter.pubRunning
<1>1. /\ adapter'.status = IF Head(queue) = "CycleStarted" THEN "Running"
                           ELSE IF Head(queue) = "CycleFinished" THEN "Idle"
                           ELSE adapter.status
      /\ adapter'.lastCompleted = IF Head(queue) = "CycleFinished" THEN cycleCount
                                  ELSE adapter.lastCompleted
  BY DEF Typed, HandleEvent, Handle
<1>2. adapter'.pubRunning = CASE Head(queue) = "PublishingStarted" -> TRUE
                              [] Head(queue) = "PublishingEnded" -> FALSE
                              [] OTHER -> adapter.pubRunning
  BY DEF Typed, HandleEvent, Handle
<1>3. QED
  BY <1>1, <1>2 DEF Typed

LEMMA ReceivingToldCycle ==
  ASSUME Typed, CycleTold, HandleEvent
  PROVE  CycleTold'
<1>1. /\ queue \in Seq(Events) /\ queue # <<>> /\ queue' = Tail(queue)
      /\ UNCHANGED <<cycle, cycleCount>> /\ CycleNews' = CycleNews
  BY DEF Typed, HandleEvent, processVars, CycleNews
<1>2. /\ LastIs(Tail(queue), CycleEvents, CycleNews)
      /\ Absent(Tail(queue), CycleEvents) =>
           IF Head(queue) \in CycleEvents THEN Head(queue) = CycleNews
           ELSE Absent(queue, CycleEvents)
  BY <1>1, ReceivedOrNot DEF CycleTold
<1>3. Absent(Tail(queue), {"CycleFinished"}) =>
        Head(queue) = "CycleFinished" \/ Absent(queue, {"CycleFinished"})
  <2>1. LastIs(queue, {"CycleFinished"}, "CycleFinished")
    BY DEF LastIs
  <2>2. QED
    BY <1>1, <2>1, ReceivedOrNot
<1>4. ASSUME Absent(queue', CycleEvents)
      PROVE  /\ cycle = "running" => adapter'.status = "Running"
             /\ cycle \in {"idle", "publishing"} => adapter'.status = "Idle"
  BY <1>1, <1>2, <1>4, ReceivedFields DEF CycleTold, CycleEvents, CycleNews
<1>5. Absent(queue', {"CycleFinished"}) /\ cycle # "counted" =>
        adapter'.lastCompleted = cycleCount
  BY <1>1, <1>3, ReceivedFields DEF CycleTold
<1>6. QED
  BY <1>1, <1>2, <1>4, <1>5 DEF CycleTold

(* reconcileCycleStateLocked finds nothing to do while a cycle runs of     *)
(* which the adapter has been told: the earlier ones have been, too.       *)
LEMMA TickTold ==
  ASSUME Typed, CycleTold, NEW moved \in BOOLEAN, Tick(moved)
  PROVE  CycleTold'
<1>1. /\ UNCHANGED <<queue, cycle, cycleCount>> /\ CycleNews' = CycleNews
  BY DEF Tick, processVars, serviceVars, CycleNews
<1>2. Absent(queue, CycleEvents) => Absent(queue, {"CycleFinished"})
  BY DEF Absent, CycleEvents
<1>3. CASE adapter.status = "Running" /\ cycleCount > adapter.lastCompleted
  <2>1. adapter'.status = "Idle" /\ adapter'.lastCompleted = cycleCount
    BY <1>3 DEF Tick, Reconciled, Typed
  <2>2. ~ (Absent(queue, CycleEvents) /\ cycle = "running")
    BY <1>2, <1>3 DEF CycleTold, Typed
  <2>3. QED
    BY <1>1, <2>1, <2>2 DEF CycleTold
<1>4. CASE ~ (adapter.status = "Running" /\ cycleCount > adapter.lastCompleted)
  <2>1. adapter'.status = adapter.status /\ adapter'.lastCompleted = adapter.lastCompleted
    BY <1>4 DEF Tick, Reconciled, Typed
  <2>2. QED
    BY <1>1, <2>1 DEF CycleTold
<1>5. QED
  BY <1>3, <1>4

-----------------------------------------------------------------------------
(* The same of publications.                                               *)

PublicationQuiet ==
  /\ queue' = queue \/ \E x \in Events \ PublishingEvents : queue' = Append(queue, x)
  /\ \A c \in Callers : calls'[c] = "backend" <=> calls[c] = "backend"
  /\ adapter'.pubRunning = adapter.pubRunning

LEMMA PublicationQuietKeeps ==
  ASSUME Typed, PublicationTold, PublicationQuiet
  PROVE  PublicationTold'
<1>1. PublishingNews' = PublishingNews /\ (Backend' <=> Backend)
  BY DEF PublicationQuiet, PublishingNews, Backend
<1>2. /\ LastIs(queue', PublishingEvents, PublishingNews)
      /\ Absent(queue', PublishingEvents) => Absent(queue, PublishingEvents)
  <2>1. CASE queue' = queue
    BY <2>1 DEF PublicationTold
  <2>2. CASE \E x \in Events \ PublishingEvents : queue' = Append(queue, x)
    <3>1. PICK x \in Events \ PublishingEvents : queue' = Append(queue, x)
      BY <2>2
    <3>2. queue \in Seq(Events) /\ x \notin PublishingEvents
      BY <3>1 DEF Typed
    <3>3. /\ LastIs(Append(queue, x), PublishingEvents, PublishingNews)
          /\ Absent(Append(queue, x), PublishingEvents) => Absent(queue, PublishingEvents)
      BY <3>1, <3>2, EmittedOfOtherKind DEF PublicationTold
    <3>4. QED
      BY <3>1, <3>3
  <2>3. QED
    BY <2>1, <2>2 DEF PublicationQuiet
<1>3. QED
  BY <1>1, <1>2 DEF PublicationTold, PublicationQuiet

LEMMA PublishTold ==
  ASSUME Settled, PublicationTold, NEW c \in Callers, Publish(c)
  PROVE  PublicationTold'
<1>1. queue \in Seq(Events) /\ {"PublishingStarted", "PublishingEnded"} \subseteq Events
  BY DEF Settled, Typed, Events, PublishingEvents
<1>2. CASE CheckEnabled(c) \/ Enter(c) \/ \E result \in Results : Release(c, result)
  <2>1. PublicationQuiet
    BY <1>2 DEF CheckEnabled, Enter, Release, At, Results, PublicationQuiet, Settled, Typed,
      restOfPublish
  <2>2. QED
    BY <2>1, PublicationQuietKeeps DEF Settled
<1>3. CASE AnnounceStart(c)
  <2>1. queue' = Append(queue, "PublishingStarted") /\ Backend'
    BY <1>3 DEF AnnounceStart, Emit, At, Settled, Typed, Backend
  <2>2. LastIs(queue', PublishingEvents, "PublishingStarted") /\ ~ Absent(queue', PublishingEvents)
    BY <1>1, <2>1, EmittedIsLast DEF PublishingEvents
  <2>3. QED
    BY <2>1, <2>2 DEF PublicationTold, PublishingNews
<1>4. CASE AnnounceEnd(c)
  <2>1. queue' = Append(queue, "PublishingEnded") /\ ~ Backend'
    <3>1. \A d \in Callers : calls[d] = "backend" => d = c
      BY <1>4 DEF AnnounceEnd, Settled, Alone, Publishing
    <3>2. QED
      BY <1>4, <3>1 DEF AnnounceEnd, Emit, At, Settled, Typed, Backend
  <2>2. LastIs(queue', PublishingEvents, "PublishingEnded") /\ ~ Absent(queue', PublishingEvents)
    BY <1>1, <2>1, EmittedIsLast DEF PublishingEvents
  <2>3. QED
    BY <2>1, <2>2 DEF PublicationTold, PublishingNews
<1>5. QED
  BY <1>2, <1>3, <1>4 DEF Publish

LEMMA ReceivingToldPublication ==
  ASSUME Typed, PublicationTold, HandleEvent
  PROVE  PublicationTold'
<1>1. /\ queue \in Seq(Events) /\ queue # <<>> /\ queue' = Tail(queue)
      /\ (Backend' <=> Backend) /\ PublishingNews' = PublishingNews
  BY DEF Typed, HandleEvent, PublishingNews, Backend
<1>2. /\ LastIs(Tail(queue), PublishingEvents, PublishingNews)
      /\ Absent(Tail(queue), PublishingEvents) =>
           IF Head(queue) \in PublishingEvents THEN Head(queue) = PublishingNews
           ELSE Absent(queue, PublishingEvents)
  BY <1>1, ReceivedOrNot DEF PublicationTold
<1>3. ASSUME Absent(queue', PublishingEvents)
      PROVE  adapter'.pubRunning <=> Backend
  BY <1>1, <1>2, <1>3, ReceivedFields DEF PublicationTold, PublishingEvents, PublishingNews
<1>4. QED
  BY <1>1, <1>2, <1>3 DEF PublicationTold

(* What is left emits at most that the configuration was updated.          *)
LEMMA SchedulingQuiet ==
  ASSUME Settled, Scheduling
  PROVE  PublicationQuiet
<1>1. queue' = queue \/ \E x \in Events \ PublishingEvents : queue' = Append(queue, x)
  BY DEF Scheduling, BeginCycle, CountCycle, CancelCycle, FinishCycle, EndCycle, Emit, serviceVars,
    Events, CycleEvents, PublishingEvents
<1>2. UNCHANGED adapter
  BY DEF Scheduling, BeginCycle, CountCycle, CancelCycle, FinishCycle, EndCycle
<1>3. \A c \in Callers : calls'[c] = "backend" <=> calls[c] = "backend"
  <2>1. CASE BeginCycle \/ CountCycle \/ CancelCycle
    BY <2>1 DEF BeginCycle, CountCycle, CancelCycle, serviceVars
  <2>2. CASE FinishCycle
    BY <2>2 DEF FinishCycle, Settled, Typed, Alone
  <2>3. CASE EndCycle
    BY <2>3 DEF EndCycle, Settled, Typed
  <2>4. QED
    BY <2>1, <2>2, <2>3 DEF Scheduling
<1>4. QED
  BY <1>1, <1>2, <1>3 DEF PublicationQuiet

LEMMA PublishQuiet ==
  ASSUME NEW c \in Callers, Publish(c)
  PROVE  CycleQuiet
<1>1. queue' = queue \/ \E x \in Events \ CycleEvents : queue' = Append(queue, x)
  BY DEF Publish, CheckEnabled, Enter, AnnounceStart, AnnounceEnd, Release, Emit,
    Events, CycleEvents, PublishingEvents
<1>2. QED
  BY <1>1 DEF Publish, CheckEnabled, Enter, AnnounceStart, AnnounceEnd, Release, restOfPublish,
    processVars, CycleQuiet

LEMMA TickQuiet ==
  ASSUME Typed, NEW moved \in BOOLEAN, Tick(moved)
  PROVE  PublicationQuiet
BY DEF Tick, Reconciled, Typed, serviceVars, PublicationQuiet

AdapterQuiet ==
  /\ adapter'.status = adapter.status /\ adapter'.lastCompleted = adapter.lastCompleted
  /\ adapter'.pubRunning = adapter.pubRunning

UserQuiet ==
  /\ queue' = queue \/ queue' = Append(queue, "ConfigUpdated")
  /\ UNCHANGED <<cycle, cycleCount>>
  /\ \A c \in Callers : calls'[c] = "backend" <=> calls[c] = "backend"
  /\ AdapterQuiet

LEMMA UserIsQuiet ==
  ASSUME UserQuiet
  PROVE  CycleQuiet /\ PublicationQuiet
<1>1. "ConfigUpdated" \in Events \ CycleEvents /\ "ConfigUpdated" \in Events \ PublishingEvents
  BY DEF Events, CycleEvents, PublishingEvents
<1>2. QED
  BY <1>1 DEF UserQuiet, AdapterQuiet, CycleQuiet, PublicationQuiet

LEMMA MarkedIsQuiet ==
  ASSUME Typed, NEW dirty, adapter' = [adapter EXCEPT !.dirty = dirty]
  PROVE  AdapterQuiet
BY DEF Typed, AdapterQuiet

LEMMA KeyQuiet ==
  ASSUME Settled, Key
  PROVE  UserQuiet
<1>1. CASE \/ OpenCenter \/ LeaveCenter \/ OpenSetting \/ CancelModal \/ AskPublish
           \/ AskTest \/ SaveOnboarding \/ RetryRuntime
           \/ \E to \in Categories : SwitchCategory(to)
           \/ \E which \in Modals : OpenSource(which)
           \/ \E to \in DOMAIN Steps : TurnPage(to)
           \/ \E to \in {"candidates", "config"} : LeaveWizard(to)
  <2>1. UNCHANGED <<queue, cycle, cycleCount, calls, adapter>>
    BY <1>1 DEF OpenCenter, LeaveCenter, OpenSetting, CancelModal, AskPublish, AskTest,
      SaveOnboarding, RetryRuntime, SwitchCategory, OpenSource, TurnPage, LeaveWizard, Capture,
      restOfModel, processVars, serviceVars
  <2>2. QED
    BY <2>1 DEF UserQuiet, AdapterQuiet
<1>2. CASE \/ ChangeAtOnce \/ ToggleEnabled
           \/ \E accepted \in BOOLEAN :
                CommitSetting(accepted) \/ CommitSource(accepted) \/ DeleteSource(accepted)
  <2>1. UNCHANGED <<cycle, cycleCount, calls>>
    BY <1>2 DEF ChangeAtOnce, ToggleEnabled, CommitSetting, CommitSource, DeleteSource, Commit,
      processVars
  <2>2. Announced \/ UNCHANGED <<queue, adapter>>
    BY <1>2 DEF ChangeAtOnce, ToggleEnabled, CommitSetting, CommitSource, DeleteSource, Commit
  <2>3. AdapterQuiet /\ (queue' = queue \/ queue' = Append(queue, "ConfigUpdated"))
    BY <2>2, AnnouncedTyped, MarkedIsQuiet DEF Settled, AdapterQuiet
  <2>4. QED
    BY <2>1, <2>3 DEF UserQuiet
<1>3. CASE ConfirmPublish
  BY <1>3 DEF ConfirmPublish, At, Settled, Typed, Commanded, UserQuiet, AdapterQuiet, processVars
<1>4. QED
  BY <1>1, <1>2, <1>3 DEF Key

LEMMA CommandQuiet ==
  ASSUME Settled, Command \/ Answer
  PROVE  UserQuiet
<1>1. CASE \/ TestReturns \/ AnswerTest \/ AnswerOnboarding
  <2>1. UNCHANGED <<queue, cycle, cycleCount, calls, adapter>>
    BY <1>1 DEF TestReturns, AnswerTest, AnswerOnboarding, processVars, serviceVars
  <2>2. QED
    BY <2>1 DEF UserQuiet, AdapterQuiet
<1>2. CASE PublishReturns
  <2>1. AdapterQuiet
    BY <1>2, MarkedIsQuiet DEF PublishReturns, Settled
  <2>2. QED
    BY <1>2, <2>1 DEF PublishReturns, At, Results, Settled, Typed, processVars, UserQuiet
<1>3. CASE AnswerPublish
  BY <1>3 DEF AnswerPublish, At, Settled, Typed, processVars, UserQuiet, AdapterQuiet
<1>4. CASE \E accepted \in BOOLEAN : CompleteOnboarding(accepted)
  <2>1. UNCHANGED <<cycle, cycleCount, calls>>
    BY <1>4 DEF CompleteOnboarding
  <2>2. Announced \/ UNCHANGED <<queue, adapter>>
    BY <1>4 DEF CompleteOnboarding
  <2>3. AdapterQuiet /\ (queue' = queue \/ queue' = Append(queue, "ConfigUpdated"))
    BY <2>2, AnnouncedTyped, MarkedIsQuiet DEF Settled, AdapterQuiet
  <2>4. QED
    BY <2>1, <2>3 DEF UserQuiet
<1>5. CASE \E starts \in BOOLEAN : StartRuntime(starts)
  <2>1. AdapterQuiet
    BY <1>5, MarkedIsQuiet DEF StartRuntime, Settled
  <2>2. QED
    BY <1>5, <2>1 DEF StartRuntime, serviceVars, UserQuiet
<1>6. QED
  BY <1>1, <1>2, <1>3, <1>4, <1>5 DEF Command, Answer

-----------------------------------------------------------------------------
LEMMA ConsoleStep == IInv /\ [Next]_vars => IInv'
<1> SUFFICES ASSUME IInv, [Next]_vars
             PROVE  IInv'
  OBVIOUS
<1>1. Settled /\ Typed /\ CycleTold /\ PublicationTold
  BY DEF IInv, Settled
<1>2. CASE UNCHANGED vars
  <2>1. UNCHANGED <<saved, commits, workers, cycle, cycleCount, enabled, publishing, calls, queue,
                    adapter, command, wizard, view, modal, category, center, busy>>
    BY <1>2 DEF vars, processVars, serviceVars, modelVars
  <2>2. Typed' /\ Commanded' /\ Onboarding' /\ Alone'
    BY <1>1, <2>1 DEF Settled, Typed, Commanded, Onboarding, Alone
  <2>3. CycleQuiet /\ PublicationQuiet
    BY <2>1 DEF CycleQuiet, PublicationQuiet
  <2>4. QED
    BY <1>1, <2>2, <2>3, CycleQuietKeeps, PublicationQuietKeeps DEF IInv, Settled
<1>3. CASE Next
  <2>1. Settled'
    BY <1>1, <1>3, SettledKeeps
  <2>2. CASE Scheduling
    BY <1>1, <2>1, <2>2, CycleStepTold, SchedulingQuiet, PublicationQuietKeeps DEF IInv
  <2>3. CASE \E c \in Callers : Publish(c)
    BY <1>1, <2>1, <2>3, PublishTold, PublishQuiet, CycleQuietKeeps DEF IInv
  <2>4. CASE HandleEvent
    BY <1>1, <2>1, <2>4, ReceivingToldCycle, ReceivingToldPublication DEF IInv
  <2>5. CASE \E moved \in BOOLEAN : Tick(moved)
    BY <1>1, <2>1, <2>5, TickTold, TickQuiet, PublicationQuietKeeps DEF IInv
  <2>6. CASE Key \/ Command \/ Answer
    BY <1>1, <2>1, <2>6, KeyQuiet, CommandQuiet, UserIsQuiet, CycleQuietKeeps,
      PublicationQuietKeeps
    DEF IInv
  <2>7. QED
    BY <1>3, <2>2, <2>3, <2>4, <2>5, <2>6 DEF Next
<1>4. QED
  BY <1>2, <1>3

LEMMA ConsoleInvariant == Spec => []IInv
BY ConsoleInitially, ConsoleStep, PTL DEF Spec

(* The types, and what the flags that gate the keys p and t, the modals    *)
(* and the wizard say of the commands (model.go:628).                      *)
THEOREM ConsoleTypeCorrect == Spec => []TypeOK
<1>1. IInv => TypeOK
  <2> SUFFICES ASSUME Typed, Commanded
               PROVE  TypeOK
    BY DEF IInv, Settled
  <2>1. adapter.status \in {"Idle", "Running"} /\ adapter.lastCompleted \in 0 .. cycleCount
    BY DEF Typed
  <2>2. wizard.step \in DOMAIN Steps
    BY StepsFacts DEF Typed
  <2>3. calls \in [Callers -> {"out", "called", "checked", "entered", "backend", "announced",
                               "ok", "failed", "answered"}]
    BY DEF Typed, Publishing
  <2>4. {saved, enabled, publishing} \subseteq BOOLEAN
    BY DEF Typed
  <2>5. QED
    BY <2>1, <2>2, <2>3, <2>4 DEF Typed, Commanded, TypeOK
<1>2. QED
  BY <1>1, ConsoleInvariant, PTL

(* A queue that is drained leaves the adapter with what is true, though    *)
(* the ticks reconcile its state beside the event loop (adapter.go:252).   *)
THEOREM ConsoleStatusIsCurrent == Spec => []StatusIsCurrent
<1>1. IInv => StatusIsCurrent
  <2> SUFFICES ASSUME CycleTold, PublicationTold, queue = <<>>
               PROVE  /\ cycle = "running" => adapter.status = "Running"
                      /\ cycle \in {"idle", "publishing"} => adapter.status = "Idle"
                      /\ adapter.pubRunning <=> Backend
    BY DEF IInv, StatusIsCurrent, Backend
  <2>1. Absent(queue, CycleEvents) /\ Absent(queue, PublishingEvents)
    BY DEF Absent
  <2>2. QED
    BY <2>1 DEF CycleTold, PublicationTold
<1>2. QED
  BY <1>1, ConsoleInvariant, PTL

(* However often the wizard is refused, retried and left (wizard.go:170).  *)
THEOREM ConsoleOnboardedOnce == Spec => []OnboardedOnce
<1>1. IInv => OnboardedOnce
  BY DEF IInv, Settled, Onboarding, OnboardedOnce
<1>2. QED
  BY <1>1, ConsoleInvariant, PTL

-----------------------------------------------------------------------------
(* What waits is a history without gaps: of the events of a kind, no two   *)
(* in a row are the same.                                                  *)

Alternating(q, kind) ==
  \A i, j \in DOMAIN q :
    /\ i < j /\ q[i] \in kind /\ q[j] \in kind
    /\ \A k \in DOMAIN q : i < k /\ k < j => q[k] \notin kind
    => q[i] # q[j]

EventsAlternate == Alternating(queue, CycleEvents) /\ Alternating(queue, PublishingEvents)

LEMMA EmittedAlternates ==
  ASSUME NEW T, NEW q \in Seq(T), NEW x \in T, NEW kind, NEW e,
         LastIs(q, kind, e), x \in kind => e # x, Alternating(q, kind)
  PROVE  Alternating(Append(q, x), kind)
<1> DEFINE a == Append(q, x)
<1>1. /\ DOMAIN a = 1 .. Len(q) + 1 /\ Len(q) \in Nat /\ DOMAIN q = 1 .. Len(q)
      /\ \A i \in 1 .. Len(q) : a[i] = q[i]
      /\ a[Len(q) + 1] = x
  BY AppendProperties, LenProperties
<1> HIDE DEF a
<1>2. ASSUME NEW i \in DOMAIN a, NEW j \in DOMAIN a, i < j, a[i] \in kind, a[j] \in kind,
             \A k \in DOMAIN a : i < k /\ k < j => a[k] \notin kind
      PROVE  a[i] # a[j]
  <2>1. i \in DOMAIN q /\ a[i] = q[i] /\ \A k \in DOMAIN q : k \in DOMAIN a /\ a[k] = q[k]
    BY <1>1, <1>2
  <2>2. CASE j \in DOMAIN q
    BY <1>2, <2>1, <2>2 DEF Alternating
  <2>3. CASE j \notin DOMAIN q
    <3>1. j = Len(q) + 1 /\ a[j] = x /\ \A k \in DOMAIN q : k < j
      BY <1>1, <2>3
    <3>2. \A k \in DOMAIN q : k > i => q[k] \notin kind
      BY <1>1, <1>2, <2>1, <3>1
    <3>3. QED
      BY <1>2, <2>1, <3>1, <3>2 DEF LastIs
  <2>4. QED
    BY <2>2, <2>3
<1>3. Alternating(a, kind)
  BY <1>2 DEF Alternating
<1>4. QED
  BY <1>3 DEF a

LEMMA ReceivedAlternates ==
  ASSUME NEW T, NEW q \in Seq(T), q # <<>>, NEW kind, Alternating(q, kind)
  PROVE  Alternating(Tail(q), kind)
<1> DEFINE t == Tail(q)
<1>1. /\ Len(q) \in Nat \ {0}
      /\ DOMAIN q = 1 .. Len(q) /\ DOMAIN t = 1 .. Len(q) - 1
      /\ \A i \in 1 .. Len(q) - 1 : t[i] = q[i + 1]
  BY HeadTailProperties, LenProperties, EmptySeq
<1> HIDE DEF t
<1>2. ASSUME NEW i \in DOMAIN t, NEW j \in DOMAIN t, i < j, t[i] \in kind, t[j] \in kind,
             \A k \in DOMAIN t : i < k /\ k < j => t[k] \notin kind
      PROVE  t[i] # t[j]
  <2>1. /\ i + 1 \in DOMAIN q /\ j + 1 \in DOMAIN q /\ i + 1 < j + 1
        /\ q[i + 1] = t[i] /\ q[j + 1] = t[j]
    BY <1>1, <1>2
  <2>2. ASSUME NEW k \in DOMAIN q, i + 1 < k, k < j + 1
        PROVE  q[k] \notin kind
    <3>1. k - 1 \in DOMAIN t /\ i < k - 1 /\ k - 1 < j /\ k - 1 + 1 = k
      BY <1>1, <2>2
    <3>2. t[k - 1] = q[k]
      BY <1>1, <3>1
    <3>3. QED
      BY <1>2, <3>1, <3>2
  <2>3. QED
    BY <1>2, <2>1, <2>2 DEF Alternating
<1>3. Alternating(t, kind)
  BY <1>2 DEF Alternating
<1>4. QED
  BY <1>3 DEF t

(* A cycle announces its start when the last news was an end, and its end  *)
(* when it was a start; so does a publication, for only one runs.          *)
LEMMA StepAlternates ==
  ASSUME IInv, EventsAlternate, [Next]_vars
  PROVE  EventsAlternate'
<1>1. Settled /\ Typed /\ queue \in Seq(Events)
  BY DEF IInv, Settled, Typed
<1>2. /\ LastIs(queue, CycleEvents, CycleNews) /\ LastIs(queue, PublishingEvents, PublishingNews)
      /\ Alternating(queue, CycleEvents) /\ Alternating(queue, PublishingEvents)
  BY DEF IInv, CycleTold, PublicationTold, EventsAlternate
<1>3. ASSUME NEW x \in Events, queue' = Append(queue, x),
             x \in CycleEvents => CycleNews # x, x \in PublishingEvents => PublishingNews # x
      PROVE  EventsAlternate'
  <2>1. Alternating(Append(queue, x), CycleEvents)
    BY <1>1, <1>2, <1>3, EmittedAlternates
  <2>2. Alternating(Append(queue, x), PublishingEvents)
    BY <1>1, <1>2, <1>3, EmittedAlternates
  <2>3. QED
    BY <1>3, <2>1, <2>2 DEF EventsAlternate
<1>4. ASSUME queue' = queue
      PROVE  EventsAlternate'
  BY <1>2, <1>4 DEF EventsAlternate
<1>5. CASE UNCHANGED vars
  BY <1>4, <1>5 DEF vars, serviceVars
<1>6. CASE Scheduling
  <2>1. CASE BeginCycle
    BY <2>1, <1>3 DEF BeginCycle, Emit, CycleNews, Events, CycleEvents, PublishingEvents
  <2>2. CASE CancelCycle \/ FinishCycle
    BY <2>2, <1>3 DEF CancelCycle, FinishCycle, Emit, CycleNews, Events, CycleEvents,
      PublishingEvents
  <2>3. CASE CountCycle \/ EndCycle
    BY <2>3, <1>4 DEF CountCycle, EndCycle, serviceVars
  <2>4. QED
    BY <1>6, <2>1, <2>2, <2>3 DEF Scheduling
<1>7. CASE \E c \in Callers : Publish(c)
  <2>1. PICK c \in Callers : Publish(c)
    BY <1>7
  <2>2. CASE CheckEnabled(c) \/ Enter(c) \/ \E result \in Results : Release(c, result)
    BY <2>2, <1>4 DEF CheckEnabled, Enter, Release
  <2>3. CASE AnnounceStart(c)
    <3>1. ~ Backend /\ queue' = Append(queue, "PublishingStarted")
      BY <1>1, <2>3 DEF AnnounceStart, Emit, Settled, Alone, Publishing, Backend
    <3>2. QED
      BY <3>1, <1>3 DEF PublishingNews, Events, CycleEvents, PublishingEvents
  <2>4. CASE AnnounceEnd(c)
    <3>1. Backend /\ queue' = Append(queue, "PublishingEnded")
      BY <2>4 DEF AnnounceEnd, Emit, Backend
    <3>2. QED
      BY <3>1, <1>3 DEF PublishingNews, Events, CycleEvents, PublishingEvents
  <2>5. QED
    BY <2>1, <2>2, <2>3, <2>4 DEF Publish
<1>8. CASE HandleEvent
  <2>1. queue # <<>> /\ queue' = Tail(queue)
    BY <1>8 DEF HandleEvent
  <2>2. QED
    BY <1>1, <1>2, <2>1, ReceivedAlternates DEF EventsAlternate
<1>9. CASE \E moved \in BOOLEAN : Tick(moved)
  BY <1>9, <1>4 DEF Tick, serviceVars
<1>10. CASE Key \/ Command \/ Answer
  <2>1. queue' = queue \/ queue' = Append(queue, "ConfigUpdated")
    BY <1>1, <1>10, KeyQuiet, CommandQuiet DEF UserQuiet
  <2>2. QED
    BY <2>1, <1>3, <1>4 DEF Events, CycleEvents, PublishingEvents
<1>11. QED
  BY <1>5, <1>6, <1>7, <1>8, <1>9, <1>10 DEF Next

(* However many events wait (scheduler.go:397, service.go:122), the start  *)
(* and the end of cycles alternate among them, and so do those of          *)
(* publications, whoever asks for them.                                    *)
THEOREM ConsoleEventsAlternate == Spec => []EventsAlternate
<1>1. Init => EventsAlternate
  BY DEF Init, EventsAlternate, Alternating
<1>2. IInv /\ EventsAlternate /\ [Next]_vars => EventsAlternate'
  BY StepAlternates
<1>3. QED
  BY <1>1, <1>2, ConsoleInvariant, PTL DEF Spec
=============================================================================
