----------------------------- MODULE ControlPlane -----------------------------
(***************************************************************************)
(* How a setting reaches the running process: the configuration service    *)
(* (internal/config/service.go), the source service on top of it           *)
(* (internal/source/service.go), the start-up of cmd/gemsub/main.go, and   *)
(* the scheduler's loop and the subscription server as subscribers of the  *)
(* event bus.                                                              *)
(*                                                                         *)
(* Settings are changed by the TUI alone, one after the other; a cycle     *)
(* publishes its own events beside it.  A process may be killed at any     *)
(* step, and is started again with the same flags.                         *)
(*                                                                         *)
(* Of the configuration there is a hot setting (format), one that needs a  *)
(* restart (listen) and the sources; v counts the updates, so that older   *)
(* and newer can be told apart.  The flags are not given.                  *)
(***************************************************************************)
EXTENDS EventBus

CONSTANTS
  Default,     (* the configuration of a first run, *)
  Configured,  (* and one that was saved before *)
  Listens, Formats, SourceIDs,
  NoFile,
  MaxUpdates,  (* bound on v *)
  MaxQueue     (* a cycle publishes when fewer events than this wait for each subscriber *)

Configs ==
  [v : Nat, format : Formats, listen : Listens,
   sources : SUBSET [id : SourceIDs, enabled : BOOLEAN]]

(* The events: ConfigUpdated carries the new configuration.                *)
CycleEvent == [Default EXCEPT !.v = -1]

ASSUME ControlAssumption ==
  /\ Subscribers = {"scheduler", "subserver"}
  /\ Publishers = {"tui", "cycle"}
  /\ Default \in Configs /\ Default.v = 0 /\ Default.sources = {}
  /\ Configured \in Configs /\ Configured.v = 0 /\ Configured.sources # {}
  /\ NoFile \notin Configs
  /\ NoEvent \notin Configs \cup {CycleEvent}
  /\ MaxUpdates \in Nat

VARIABLES
  disk,       (* the configuration file, *)
  cfg,        (* Service.cfg, *)
  initialCfg, (* initialCfg *)
  firstRun,   (* and isFirstRun *)
  update,     (* the Update under way: its phase and its candidate *)
  main,       (* where startWorkers and runLifecycle are *)
  snapshot,   (* the configuration startWorkers read *)
  sched,      (* where the scheduler's loop is, *)
  schedCfg,   (* and its configuration *)
  srv,        (* where the server is, *)
  srvCfg,     (* and its configuration *)
  onboarded   (* history: this process began without a file *)

cfgVars   == <<disk, cfg, initialCfg, firstRun, update>>
mainVars  == <<main, snapshot, onboarded>>
schedVars == <<sched, schedCfg>>
srvVars   == <<srv, srvCfg>>
vars == <<busVars, cfgVars, mainVars, schedVars, srvVars>>

NoUpdate == [phase |-> "none", new |-> Default]

Valid(c) == c.sources # {}

-----------------------------------------------------------------------------
(* Start-up.                                                               *)

(* bootstrapConfig and setupRuntime, with what is on disk.                 *)
SavedConfig == IF disk = NoFile THEN Default ELSE disk

Bootstrapped ==
  /\ InitBus
  /\ cfg = SavedConfig /\ initialCfg = SavedConfig /\ firstRun = (disk = NoFile)
  /\ update = NoUpdate
  /\ main = IF disk = NoFile THEN "onboarding" ELSE "starting"
  /\ snapshot = SavedConfig
  /\ onboarded = (disk = NoFile)
  /\ sched = "off" /\ schedCfg = SavedConfig
  /\ srv = "off" /\ srvCfg = SavedConfig

Init == disk \in {NoFile, Configured} /\ Bootstrapped

(* The process is killed, or was shut down; it is started again.           *)
Restart ==
  /\ RestartBus
  /\ cfg' = SavedConfig /\ initialCfg' = SavedConfig /\ firstRun' = (disk = NoFile)
  /\ update' = NoUpdate
  /\ main' = IF disk = NoFile THEN "onboarding" ELSE "starting"
  /\ snapshot' = SavedConfig
  /\ onboarded' = (disk = NoFile)
  /\ sched' = "off" /\ schedCfg' = SavedConfig
  /\ srv' = "off" /\ srvCfg' = SavedConfig
  /\ UNCHANGED disk

(* startWorkers: the scheduler is given the service's configuration, its   *)
(* loop is started, then the server with what was read first.              *)
ConfigureScheduler ==
  /\ main = "starting"
  /\ main' = "starting loop"
  /\ snapshot' = cfg
  /\ schedCfg' = cfg
  /\ UNCHANGED <<busVars, cfgVars, onboarded, sched, srvVars>>

StartLoop ==
  /\ main = "starting loop"
  /\ main' = "starting server"
  /\ sched' = "subscribing"
  /\ UNCHANGED <<busVars, cfgVars, snapshot, onboarded, schedCfg, srvVars>>

StartServer ==
  /\ main = "starting server"
  /\ main' = "running"
  /\ srv' = "subscribing" /\ srvCfg' = snapshot
  /\ snapshot' = Default
  /\ UNCHANGED <<busVars, cfgVars, onboarded, schedVars>>

-----------------------------------------------------------------------------
(* The configuration service.                                              *)

IDs(c) == {s.id : s \in c.sources}

(* UpdateSetting: one field of the configuration.                          *)
ChangeSetting(c) ==
       {[c EXCEPT !.format = f] : f \in Formats}
  \cup {[c EXCEPT !.listen = l] : l \in Listens}

(* Add: a source that is not there yet, enabled.                           *)
AddSource(c) ==
  {[c EXCEPT !.sources = @ \cup {[id |-> i, enabled |-> TRUE]}] : i \in SourceIDs \ IDs(c)}

(* SetEnabled.                                                             *)
ToggleSource(c) ==
  {[c EXCEPT !.sources = (@ \ {s}) \cup {[s EXCEPT !.enabled = ~@]}] : s \in c.sources}

(* Remove keeps the last source.                                           *)
RemoveSource(c) ==
  {[c EXCEPT !.sources = @ \ {s}] : s \in {t \in c.sources : Cardinality(c.sources) > 1}}

Mutations(c) == ChangeSetting(c) \cup AddSource(c) \cup ToggleSource(c) \cup RemoveSource(c)

(* CompleteOnboarding is one update: a source, and the server's address.   *)
Onboardings(c) ==
  UNION {{[c EXCEPT !.sources = {[id |-> i, enabled |-> TRUE]}, !.listen = l] :
            l \in Listens} : i \in SourceIDs}

(* An update that is refused changes nothing.  The wizard's comes before   *)
(* the runtime is started, all others when it is.                          *)
BeginUpdate ==
  /\ update.phase = "none" /\ rest["tui"] = <<>>
  /\ cfg.v < MaxUpdates
  /\ \E c \in IF main = "onboarding" /\ firstRun THEN Onboardings(cfg)
              ELSE IF main = "running" THEN Mutations(cfg) ELSE {} :
       /\ Valid(c)
       /\ update' = [phase |-> "writing", new |-> [c EXCEPT !.v = cfg.v + 1]]
  /\ UNCHANGED <<busVars, disk, cfg, initialCfg, firstRun, mainVars, schedVars, srvVars>>

(* Bug: the configuration in memory is replaced before it is persisted.    *)
SwapBeforePersisting ==
  /\ update.phase = "writing"
  /\ cfg' = update.new /\ firstRun' = FALSE
  /\ update' = NoUpdate
  /\ Publish("tui", update.new)
  /\ UNCHANGED <<disk, initialCfg, mainVars, schedVars, srvVars>>

(* AtomicWriteFile: the rename makes the new file, or nothing does.        *)
Persist ==
  /\ update.phase = "writing"
  /\ disk' = update.new
  /\ update' = [update EXCEPT !.phase = "renamed"]
  /\ UNCHANGED <<busVars, cfg, initialCfg, firstRun, mainVars, schedVars, srvVars>>

PersistFails ==
  /\ update.phase = "writing"
  /\ update' = NoUpdate
  /\ UNCHANGED <<busVars, disk, cfg, initialCfg, firstRun, mainVars, schedVars, srvVars>>

(* The candidate becomes the configuration; the lock is given back.        *)
Swap ==
  /\ update.phase = "renamed"
  /\ cfg' = update.new /\ firstRun' = FALSE
  /\ update' = [update EXCEPT !.phase = "swapped"]
  /\ UNCHANGED <<busVars, disk, initialCfg, mainVars, schedVars, srvVars>>

(* It is announced after that.                                             *)
Announce ==
  /\ update.phase = "swapped"
  /\ Publish("tui", update.new)
  /\ update' = NoUpdate
  /\ UNCHANGED <<disk, cfg, initialCfg, firstRun, mainVars, schedVars, srvVars>>

(* The wizard, once the configuration is saved, starts the runtime.        *)
StartRuntime ==
  /\ main = "onboarding" /\ ~firstRun
  /\ update.phase = "none" /\ rest["tui"] = <<>>
  /\ main' = "starting"
  /\ UNCHANGED <<busVars, cfgVars, snapshot, onboarded, schedVars, srvVars>>

(* The fields that are read once, when the process begins.                 *)
RequiresRestart(old, new) == {f \in {"listen"} : old.listen # new.listen}

PendingRestartFields == RequiresRestart(initialCfg, cfg)

-----------------------------------------------------------------------------
(* The scheduler's loop.  It receives between cycles only.                 *)

BeginCycle ==
  /\ sched' = "cycle"
  /\ UNCHANGED <<cfgVars, mainVars, schedCfg, srvVars>>

SchedulerSubscribes ==
  /\ sched = "subscribing"
  /\ Subscribe("scheduler")
  /\ BeginCycle

NextCycle ==
  /\ sched = "idle" /\ main = "running"
  /\ BeginCycle
  /\ UNCHANGED busVars

CyclePublishes ==
  /\ sched = "cycle"
  /\ \A s \in Subscribers : Len(Pending(s)) < MaxQueue
  /\ Publish("cycle", CycleEvent)
  /\ UNCHANGED <<cfgVars, mainVars, schedVars, srvVars>>

EndCycle ==
  /\ sched = "cycle" /\ rest["cycle"] = <<>>
  /\ sched' = "idle"
  /\ UNCHANGED <<busVars, cfgVars, mainVars, schedCfg, srvVars>>

SchedulerReceives ==
  /\ sched = "idle"
  /\ Receive("scheduler")
  /\ schedCfg' = IF Head(channel["scheduler"]) = CycleEvent THEN schedCfg
                 ELSE Head(channel["scheduler"])
  /\ UNCHANGED <<cfgVars, mainVars, sched, srvVars>>

SchedulerStops ==
  /\ main = "stopping" /\ sched \in {"idle", "off"}
  /\ Unsubscribe("scheduler")
  /\ sched' = "over"
  /\ UNCHANGED <<cfgVars, mainVars, schedCfg, srvVars>>

(* The subscription server.                                                *)

ServerSubscribes ==
  /\ srv = "subscribing"
  /\ Subscribe("subserver")
  /\ srv' = "serving"
  /\ UNCHANGED <<cfgVars, mainVars, schedVars, srvCfg>>

(* Bug: everything is taken over, as if the listener had been moved.       *)
UpdateConfigWhole(c) == c

(* Server.UpdateConfig takes over the format.                              *)
UpdateConfig(c) == [srvCfg EXCEPT !.format = c.format, !.v = c.v]

ServerReceives ==
  /\ srv = "serving"
  /\ Receive("subserver")
  /\ srvCfg' = IF Head(channel["subserver"]) = CycleEvent THEN srvCfg
               ELSE UpdateConfig(Head(channel["subserver"]))
  /\ UNCHANGED <<cfgVars, mainVars, schedVars, srv>>

(* Bug: the server does not unsubscribe when it ends.                      *)
ServerStopsSubscribed ==
  /\ srv = "serving" \/ (srv = "off" /\ main = "stopping")
  /\ srv' = "over"
  /\ UNCHANGED <<busVars, cfgVars, mainVars, schedVars, srvCfg>>

(* The server is told to stop, or cannot listen: Run returns an error and  *)
(* main shuts down.                                                        *)
ServerStops ==
  /\ srv = "serving" \/ (srv = "off" /\ main = "stopping")
  /\ Unsubscribe("subserver")
  /\ srv' = "over"
  /\ UNCHANGED <<cfgVars, mainVars, schedVars, srvCfg>>

-----------------------------------------------------------------------------
(* Shutdown: the context is cancelled, the workers end, the bus is closed. *)
Shutdown ==
  /\ main \in {"running", "onboarding"} /\ update.phase = "none"
  /\ main' = "stopping"
  /\ UNCHANGED <<busVars, cfgVars, snapshot, onboarded, schedVars, srvVars>>

CloseBus ==
  /\ main = "stopping" /\ sched = "over" /\ srv = "over"
  /\ Close
  /\ main' = "down"
  /\ UNCHANGED <<cfgVars, snapshot, onboarded, schedVars, srvVars>>

restOfPlane == <<cfgVars, mainVars, schedVars, srvVars>>

Moves(s) == Move(s) /\ UNCHANGED restOfPlane

Publishes(p) == PublishTo(p) /\ UNCHANGED restOfPlane

Starting == ConfigureScheduler \/ StartLoop \/ StartServer

Updating == BeginUpdate \/ Persist \/ PersistFails \/ Swap \/ Announce \/ StartRuntime

Scheduling ==
  SchedulerSubscribes \/ NextCycle \/ CyclePublishes \/ EndCycle
  \/ SchedulerReceives \/ SchedulerStops

Serving == ServerSubscribes \/ ServerReceives \/ ServerStops

Next ==
  \/ Restart \/ Starting \/ Updating \/ Scheduling \/ Serving
  \/ \E s \in Subscribers : Moves(s)
  \/ \E p \in Publishers : Publishes(p)
  \/ Shutdown \/ CloseBus

(* The goroutines run; a cycle ends; select takes a ready case at random,  *)
(* so that a tick cannot shut out a configuration for ever.                *)
Fairness ==
  /\ \A p \in Publishers : WF_vars(Publishes(p))
  /\ WF_vars(Moves("scheduler"))
  /\ WF_vars(Moves("subserver") \/ ServerReceives)
  /\ WF_vars(EndCycle)
  /\ SF_vars(SchedulerReceives)

Spec == Init /\ [][Next]_vars /\ Fairness

-----------------------------------------------------------------------------
(* Properties.                                                             *)

TypeOK ==
  /\ BusTypeOK
  /\ update.phase \in {"none", "writing", "renamed", "swapped"}
  /\ main \in {"onboarding", "starting", "starting loop", "starting server",
               "running", "stopping", "down"}
  /\ sched \in {"off", "subscribing", "cycle", "idle", "over"}
  /\ srv \in {"off", "subscribing", "serving", "over"}
  /\ firstRun = (cfg = Default)
  /\ firstRun \/ Valid(cfg)
  /\ "scheduler" \in Listening => sched \in {"cycle", "idle"}
  /\ "subserver" \in Listening => srv = "serving"

(* The bus gives every subscriber what is published while it listens, once *)
(* and in each publisher's order, and loses nothing but the rest of one    *)
(* that left (bus.go:33-53, 125-142).                                      *)
Bus == INSTANCE OrderedBus WITH
  listening <- Listening, left <- closed, pending <- Pendings, due <- Dues

ImplementsOrderedBus == Bus!Spec

(* Update persists, then swaps, then announces (service.go:236-266): no    *)
(* subsystem runs with a configuration that a restart would not find on    *)
(* disk, or a newer one there, wherever the process is killed.             *)
NothingUnsavedIsApplied ==
  LET saved == IF disk = NoFile THEN 0 ELSE disk.v
  IN  /\ cfg.v <= saved /\ schedCfg.v <= saved /\ srvCfg.v <= saved
      /\ update.phase \in {"none", "writing"} => cfg.v = saved

(* In a process that began with a file, the fields listed as waiting for a *)
(* restart are those in which the running server differs from the          *)
(* configuration (service.go:151, server.go:51-61).                        *)
PendingRestartIsTruthful ==
  srv = "serving" /\ ~onboarded =>
    ("listen" \in PendingRestartFields) = (srvCfg.listen # cfg.listen)

(* A setting that was announced is received, by the scheduler and by the   *)
(* server, unless they leave first: neither a full channel nor a running   *)
(* cycle holds it up for ever (bus.go:33-53, scheduler.go:414).            *)
Awaits(s, v) == \E i \in DOMAIN Pending(s) : Pending(s)[i].v = v

HotSettingsArrive ==
  \A v \in 1..MaxUpdates :
    (\E s \in Listening : Awaits(s, v)) ~> (\A s \in Listening : ~Awaits(s, v))

=============================================================================
