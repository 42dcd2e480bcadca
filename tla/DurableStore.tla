---------------------------- MODULE DurableStore ----------------------------
(***************************************************************************)
(* The candidate store across restarts of the daemon.  runCycle saves the  *)
(* store at the end of every cycle, completed or cancelled, and the        *)
(* shutdown path saves it once more; a crash loses whatever was observed   *)
(* since.  The state file is one whole snapshot (SnapshotFile shows that   *)
(* it is never torn), so saving and loading are one step each.             *)
(***************************************************************************)
EXTENDS Store

VARIABLES
  disk,      (* the snapshot in the state file *)
  saveDue    (* has the cycle ended, and its Save not been attempted? *)

durableVars == <<vars, disk, saveDue>>

(* The subscriptions record rec would be in, were it present in the        *)
(* sources.                                                                *)
Serves(rec) ==
  {service \in Services : PassesGates(rec, service)}
  \cup {service \in {"generic"} :
          \/ PassesGates(rec, "gemini")
          \/ /\ Len(rec.history) >= MinObservationsForServing
             /\ TransportHealthy(rec)}

(* Who is served once no cycle has marked anything: the history variable   *)
(* a snapshot carries.                                                     *)
ServedAtRest(recs) ==
  {p \in Links \X (Services \cup {"generic"}) :
     /\ recs[p[1]] # NoRecord
     /\ recs[p[1]].absentCycles = 0
     /\ p[2] \in Serves(recs[p[1]])}

Snapshot(version) ==
  [version |-> version, records |-> records, rejected |-> rejected,
   served |-> ServedAtRest(records)]

DurableInit ==
  /\ Init
  /\ disk = Snapshot(1)
  /\ saveDue = FALSE

(* The cycle's own steps; the end of a cycle makes a Save due. *)
CycleStep ==
  /\ ~ saveDue
  /\ Next
  /\ saveDue' = (running /\ ~ running')
  /\ UNCHANGED disk

(* Save of the whole store, by runCycle or by the shutdown path. *)
Save ==
  /\ ~ running
  /\ disk' = Snapshot(2)
  /\ saveDue' = FALSE
  /\ UNCHANGED vars

(* An error anywhere in Save leaves the old file, and runCycle only logs it. *)
SaveFails ==
  /\ saveDue
  /\ saveDue' = FALSE
  /\ UNCHANGED <<vars, disk>>

(* Bug: a loaded record starts afresh, as a migrated one does. *)
ReloadedAsPresent(rec) ==
  [history |-> rec.history, absentCycles |-> 0,
   previouslyPassed |-> PreviouslyPassed(rec.history),
   consecutiveInconclusive |-> ConsecutiveInconclusive(rec.history),
   claude |-> rec.claude]

(* Load of a version 2 record: what derives from the history is computed   *)
(* again, and the Claude entry taken from its newest sample.               *)
Reloaded(rec) ==
  LET claude == Last(rec.history).claude
  IN  [history |-> rec.history,
       absentCycles |-> rec.absentCycles,
       previouslyPassed |-> PreviouslyPassed(rec.history),
       consecutiveInconclusive |-> ConsecutiveInconclusive(rec.history),
       claude |-> IF claude # NoVerdict THEN claude ELSE rec.claude]

Loaded(snapshot) ==
  [l \in Links |->
     IF snapshot.version = 1 \/ snapshot.records[l] = NoRecord
     THEN snapshot.records[l]
     ELSE Reloaded(snapshot.records[l])]

(* The process ends, at whatever point, and a new one loads the file. *)
Restart ==
  /\ records' = Loaded(disk)
  /\ pendingAbsent' = {}
  /\ pendingPresent' = {}
  /\ running' = FALSE
  /\ listed' = Links
  /\ rejected' = disk.rejected
  /\ saveDue' = FALSE
  /\ UNCHANGED disk

DurableNext == CycleStep \/ Save \/ SaveFails \/ Restart

DurableSpec == DurableInit /\ [][DurableNext]_durableVars

-----------------------------------------------------------------------------
(* What the three subscriptions hold. *)
Serving ==
  {p \in Links \X (Services \cup {"generic"}) :
     IF p[2] = "generic" THEN p[1] \in NetworkPassing ELSE Servable(p[1], p[2])}

(* A restart serves nobody whom the saved store would not have served, and *)
(* loses at most the candidates that only the grace of a version 1 record  *)
(* kept: Load recomputes every derived field, and no other may come out    *)
(* differently (store.go 498-560).                                         *)
RestartLosesOnlyGrace ==
  [][Restart => /\ Serving' \subseteq disk.served
                /\ \A p \in disk.served \ Serving' :
                     InGrace(disk.records[p[1]])]_durableVars

(* Where there is no such record, a restart serves what the saved store    *)
(* would have served, exactly.                                             *)
RestartServesAsSaved ==
  [][Restart => Serving' = disk.served]_durableVars

=============================================================================
