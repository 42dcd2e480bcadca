---------------------------- MODULE AtomicSnapshot ----------------------------
(***************************************************************************)
(* What the state file promises the daemon: it holds one whole snapshot at *)
(* any time, a Save replaces it by the snapshot being saved in one step or *)
(* leaves it alone, the end of the process leaves it alone, and a power    *)
(* failure can at worst bring back a snapshot that was once saved.         *)
(*                                                                         *)
(* SnapshotFile (Store.Save and Store.Load) implements this module with a  *)
(* temporary file, fsync and rename.                                       *)
(***************************************************************************)
CONSTANT Versions    (* the states of the store a snapshot can hold *)

VARIABLES
  stored,   (* the snapshot a Load would return now *)
  past,     (* every snapshot the file has held *)
  saving,   (* the snapshot the newest Save took *)
  up        (* is the daemon running? *)

vars == <<stored, past, saving, up>>

Init ==
  /\ stored \in Versions
  /\ past = {stored}
  /\ saving \in Versions
  /\ up \in BOOLEAN

Begin(v) ==
  /\ up
  /\ saving' = v
  /\ UNCHANGED <<stored, past, up>>

Replace ==
  /\ up
  /\ stored' = saving
  /\ past' = past \cup {saving}
  /\ UNCHANGED <<saving, up>>

Stop ==
  /\ up' = FALSE
  /\ saving' \in Versions
  /\ UNCHANGED <<stored, past>>

PowerLoss(v) ==
  /\ v \in past
  /\ stored' = v
  /\ up' = FALSE
  /\ saving' \in Versions
  /\ UNCHANGED past

Start ==
  /\ ~ up
  /\ up' = TRUE
  /\ UNCHANGED <<stored, past, saving>>

Next ==
  \/ \E v \in Versions : Begin(v) \/ PowerLoss(v)
  \/ Replace
  \/ Stop
  \/ Start

Spec == Init /\ [][Next]_vars

=============================================================================
