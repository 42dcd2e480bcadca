---------------------------- MODULE SlidingWindow ----------------------------
(***************************************************************************)
(* What a candidate's probe history promises its readers: the most recent  *)
(* `depth` observations, oldest first.  A new observation displaces the    *)
(* oldest one when the window is full, and reading the history back from   *)
(* disk with a smaller configured depth keeps the newest observations.     *)
(*                                                                         *)
(* BoundedHistory (internal/store/history.go) implements this module with  *)
(* a ring of fixed capacity.                                               *)
(***************************************************************************)
EXTENDS Integers, Sequences

CONSTANTS
  Sample,      (* the observations *)
  Capacities   (* the window depths a store may be configured with *)

VARIABLES
  window,      (* the observations kept, oldest first *)
  depth        (* how many observations the window may hold *)

vars == <<window, depth>>

(* The newest n elements of a sequence (all of it when it is shorter). *)
Newest(seq, n) ==
  IF Len(seq) <= n THEN seq ELSE SubSeq(seq, Len(seq) - n + 1, Len(seq))

(* A record comes into being with its first observation. *)
Init ==
  /\ depth \in Capacities
  /\ \E s \in Sample : window = <<s>>

Observe(s) ==
  /\ window' = Newest(Append(window, s), depth)
  /\ UNCHANGED depth

(* The record is written to disk and read back by a store of depth max. *)
Reopen(max) ==
  /\ depth'  = IF depth > max THEN max ELSE depth
  /\ window' = Newest(window, depth')

(* A file that tells nothing of the depth: it is as deep as it is long.    *)
ReopenBare(max) ==
  /\ depth'  = IF Len(window) > max THEN max ELSE Len(window)
  /\ window' = Newest(window, depth')

Next ==
  \/ \E s \in Sample : Observe(s)
  \/ \E max \in Capacities : Reopen(max) \/ ReopenBare(max)

Spec == Init /\ [][Next]_vars

=============================================================================
