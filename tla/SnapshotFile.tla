---------------------------- MODULE SnapshotFile ----------------------------
(***************************************************************************)
(* Store.Save and Store.Load on the file system, one system call to a      *)
(* step: the snapshot is written to <path>.gz.tmp, synced, closed and      *)
(* renamed over <path>.gz.  Every call may fail, the process may be killed *)
(* between any two of them, and the power may fail.                        *)
(*                                                                         *)
(* The file system is the one POSIX promises: what a call did is seen by   *)
(* every later one, but survives a power failure only once it is durable.  *)
(* The data of a file become durable at Sync, or earlier when the kernel   *)
(* writes them back; the directory becomes durable when the kernel commits *)
(* it, for Save never syncs the directory.  A rename is atomic on disk.    *)
(***************************************************************************)
EXTENDS Integers

CONSTANTS
  Inodes,       (* the files the directory may name *)
  NoFile,       (* a name that names nothing *)
  MaxVersion    (* bound: how often the store changes *)

(* A version stands for the state of the whole store; 0 is the state a     *)
(* store has when there is no compressed file: what the file of the legacy *)
(* path holds, or an empty store.                                          *)
Versions == 0 .. MaxVersion

(* The content of a file that was truncated, or written only in part. *)
Torn == -1

ASSUME FileAssumption == MaxVersion \in Nat /\ NoFile \notin Inodes

Names == {"primary", "tmp"}

VARIABLES
  mem,       (* the state of the store in memory *)
  pc,        (* where the process is: in Save, outside it, or not running *)
  snap,      (* the snapshot Save is writing *)
  dir,       (* the directory as calls see it *)
  durDir,    (* the directory a power failure would leave *)
  data,      (* the files as calls see them *)
  durData,   (* the files a power failure would leave *)
  past       (* history variable: every version the primary file has held *)

saveVars == <<mem, pc, snap, dir, durDir, data, durData, past>>

fileVars == <<dir, durDir, data, durData>>

(* What Load would read: the compressed file, or else the legacy path. *)
Readable(directory, files) ==
  IF directory["primary"] = NoFile THEN 0 ELSE files[directory["primary"]]

FileInit ==
  /\ mem = 0
  /\ pc = "idle"
  /\ snap = 0
  /\ dir = [n \in Names |-> NoFile]
  /\ durDir = dir
  /\ data = [i \in Inodes |-> Torn]
  /\ durData = data
  /\ past = {0}

(* Probes and cycles change the store while no Save runs. *)
ChangeStore ==
  /\ pc = "idle"
  /\ mem < MaxVersion
  /\ mem' = mem + 1
  /\ UNCHANGED <<pc, snap, fileVars, past>>

(* The snapshot is taken, and the temporary file created or truncated.     *)
(* When the directory, the stat or the open fails, Save returns at once:   *)
(* no step.                                                                *)
OpenTmp ==
  /\ pc = "idle"
  /\ pc' = "opened"
  /\ snap' = mem
  /\ \/ /\ dir["tmp"] # NoFile
        /\ data' = [data EXCEPT ![dir["tmp"]] = Torn]
        /\ UNCHANGED <<dir, durData>>
     \/ /\ dir["tmp"] = NoFile
        /\ \E i \in {f \in Inodes : \A n \in Names : dir[n] # f /\ durDir[n] # f} :
             /\ dir' = [dir EXCEPT !["tmp"] = i]
             /\ data' = [data EXCEPT ![i] = Torn]
             /\ durData' = [durData EXCEPT ![i] = Torn]
  /\ UNCHANGED <<mem, durDir, past>>

(* JSON, gzip trailer and buffer have all reached the file. *)
Write ==
  /\ pc = "opened"
  /\ pc' = "written"
  /\ data' = [data EXCEPT ![dir["tmp"]] = snap]
  /\ UNCHANGED <<mem, snap, dir, durDir, durData, past>>

(* Bug: the result of the sync is never waited for. *)
SyncSkipped ==
  /\ pc = "written"
  /\ pc' = "synced"
  /\ UNCHANGED <<mem, snap, fileVars, past>>

Sync ==
  /\ pc = "written"
  /\ pc' = "synced"
  /\ durData' = [durData EXCEPT ![dir["tmp"]] = data[dir["tmp"]]]
  /\ UNCHANGED <<mem, snap, dir, durDir, data, past>>

Close ==
  /\ pc = "synced"
  /\ pc' = "closed"
  /\ UNCHANGED <<mem, snap, fileVars, past>>

(* Bug: the old file is removed before the new one takes its name. *)
RenameAfterRemove ==
  /\ pc = "closed"
  /\ IF dir["primary"] # NoFile
     THEN /\ dir' = [dir EXCEPT !["primary"] = NoFile]
          /\ UNCHANGED <<pc, past>>
     ELSE /\ pc' = "idle"
          /\ dir' = [n \in Names |-> IF n = "primary" THEN dir["tmp"] ELSE NoFile]
          /\ past' = past \cup {snap}
  /\ UNCHANGED <<mem, snap, durDir, data, durData>>

Rename ==
  /\ pc = "closed"
  /\ pc' = "idle"
  /\ dir' = [n \in Names |-> IF n = "primary" THEN dir["tmp"] ELSE NoFile]
  /\ past' = past \cup {snap}
  /\ UNCHANGED <<mem, snap, durDir, data, durData>>

(* A call of Save fails: Save returns the error and removes the temporary  *)
(* file; an error of that removal is ignored.                              *)
SaveAborts ==
  /\ pc \in {"opened", "written", "synced", "closed"}
  /\ pc' = "idle"
  /\ \/ dir' = [dir EXCEPT !["tmp"] = NoFile]
     \/ UNCHANGED dir
  /\ UNCHANGED <<mem, snap, durDir, data, durData, past>>

(* The process is killed; what it wrote stays with the kernel. *)
Kill ==
  /\ pc # "down"
  /\ pc' = "down"
  /\ mem' = 0
  /\ snap' = 0
  /\ UNCHANGED <<fileVars, past>>

(* The machine loses power; what was not durable is gone. *)
PowerLoss ==
  /\ pc' = "down"
  /\ mem' = 0
  /\ snap' = 0
  /\ dir' = durDir
  /\ data' = durData
  /\ UNCHANGED <<durDir, durData, past>>

(* The kernel makes a file, or the directory, durable of its own accord. *)
WriteBack(i) ==
  /\ durData' = [durData EXCEPT ![i] = data[i]]
  /\ UNCHANGED <<mem, pc, snap, dir, durDir, data, past>>

CommitDirectory ==
  /\ durDir' = dir
  /\ UNCHANGED <<mem, pc, snap, dir, data, durData, past>>

(* The daemon starts and loads the file. *)
Load ==
  /\ pc = "down"
  /\ Readable(dir, data) # Torn
  /\ pc' = "idle"
  /\ mem' = Readable(dir, data)
  /\ UNCHANGED <<snap, fileVars, past>>

(* Load returns an error, on a torn file or a failing read: the daemon     *)
(* logs it and goes on with an empty store.                                *)
LoadFails ==
  /\ pc = "down"
  /\ pc' = "idle"
  /\ mem' = 0
  /\ UNCHANGED <<snap, fileVars, past>>

FileNext ==
  \/ ChangeStore
  \/ OpenTmp \/ Write \/ Sync \/ Close \/ Rename \/ SaveAborts
  \/ Kill \/ PowerLoss \/ CommitDirectory
  \/ \E i \in Inodes : WriteBack(i)
  \/ Load \/ LoadFails

FileSpec == FileInit /\ [][FileNext]_saveVars

-----------------------------------------------------------------------------
Contents == Versions \cup {Torn}

FileTypeOK ==
  /\ mem \in Versions
  /\ pc \in {"idle", "opened", "written", "synced", "closed", "down"}
  /\ snap \in Versions
  /\ dir \in [Names -> Inodes \cup {NoFile}]
  /\ durDir \in [Names -> Inodes \cup {NoFile}]
  /\ data \in [Inodes -> Contents]
  /\ durData \in [Inodes -> Contents]
  /\ past \subseteq Versions

(* Neither a kill nor a power failure, between whichever two calls of      *)
(* Save, leaves a state file that Load would reject: the primary name      *)
(* always names a complete snapshot, now and after a power failure         *)
(* (store.go 748-805; README 617: "preventing file corruption across power *)
(* loss or crashes").                                                      *)
PrimaryIntact ==
  /\ Readable(dir, data) # Torn
  /\ Readable(durDir, durData) # Torn

(* The file is an atomic cell: a Save replaces its snapshot in one step,   *)
(* no failed Save changes it, and a power failure brings back at worst a   *)
(* snapshot that was saved before.                                         *)
Cell == INSTANCE AtomicSnapshot
  WITH stored <- Readable(dir, data), saving <- snap, up <- pc # "down"

ImplementsAtomicSnapshot == Cell!Spec

=============================================================================
