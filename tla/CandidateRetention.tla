------------------------- MODULE CandidateRetention -------------------------
(***************************************************************************)
(* What the candidate store promises about remembering candidates: a       *)
(* candidate is remembered from its first probe until it has been missing  *)
(* from the sources for more than MaxAbsentCycles completed cycles in a    *)
(* row.  A cycle that is cut short leaves no trace: it neither counts as   *)
(* an absence nor forgives earlier ones.                                   *)
(*                                                                         *)
(* Store (internal/store/store.go) implements this module with two sets    *)
(* of pending marks that FinishCycle commits.                              *)
(***************************************************************************)
EXTENDS Integers

CONSTANTS
  Links,             (* the candidates, by canonical link *)
  MaxAbsentCycles    (* absences in a row a candidate survives *)

VARIABLES
  missed,   (* completed cycles in a row each candidate has been missing *)
  open,     (* is a cycle running? *)
  listing   (* the candidates the sources listed when it began *)

vars == <<missed, open, listing>>

Forgotten == MaxAbsentCycles + 1

Init ==
  /\ missed \in [Links -> {0, Forgotten}]
  /\ open = FALSE
  /\ listing = Links

Begin(links) ==
  /\ ~ open
  /\ open' = TRUE
  /\ listing' = links
  /\ UNCHANGED missed

(* A listed candidate is probed: from now on it is remembered. *)
Observe(l) ==
  /\ open
  /\ l \in listing
  /\ missed' = [missed EXCEPT ![l] = IF @ = Forgotten THEN 0 ELSE @]
  /\ UNCHANGED <<open, listing>>

Complete ==
  /\ open
  /\ open' = FALSE
  /\ missed' = [l \in Links |->
                  IF missed[l] = Forgotten THEN Forgotten
                  ELSE IF l \in listing THEN 0 ELSE missed[l] + 1]
  /\ UNCHANGED listing

Abandon ==
  /\ open
  /\ open' = FALSE
  /\ UNCHANGED <<missed, listing>>

Next ==
  \/ \E links \in SUBSET Links : Begin(links)
  \/ \E l \in Links : Observe(l)
  \/ Complete
  \/ Abandon

Spec == Init /\ [][Next]_vars

=============================================================================
