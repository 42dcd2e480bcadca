-------------------------- MODULE AtomicPublication --------------------------
(***************************************************************************)
(* What the publisher promises of a repository and its remote: each holds  *)
(* nothing of the publisher's or one whole publication, the subscriptions  *)
(* with a meta.json that counts exactly them; the repository moves from    *)
(* one to another in a single step, and the remote only ever gets what the *)
(* repository holds.                                                       *)
(*                                                                         *)
(* Publication (internal/publisher/publisher.go) implements this module    *)
(* with a working tree, an index and a history.                            *)
(***************************************************************************)
EXTENDS Integers

CONSTANTS
  Subs,       (* the subscription files *)
  Values,     (* what a subscription may hold *)
  MaxCycle,   (* bound on the store's cycle number *)
  Nothing     (* no publication yet *)

VARIABLES
  published,  (* what HEAD holds *)
  mirrored    (* what the remote holds *)

vars == <<published, mirrored>>

Init == published = Nothing /\ mirrored = Nothing

Publish ==
  /\ \E lists \in [Subs -> Values], cycle \in 0 .. MaxCycle :
       published' = [lists |-> lists, meta |-> [counts |-> lists, cycle |-> cycle]]
  /\ UNCHANGED mirrored

Mirror ==
  /\ mirrored' = published
  /\ UNCHANGED published

Spec == Init /\ [][Publish \/ Mirror]_vars

=============================================================================
