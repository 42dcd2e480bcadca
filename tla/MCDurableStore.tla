---------------------------- MODULE MCDurableStore ----------------------------
(***************************************************************************)
(* The durable store over the results of MCStore's cycles.                 *)
(***************************************************************************)
EXTENDS DurableStore, MCStore

=============================================================================
