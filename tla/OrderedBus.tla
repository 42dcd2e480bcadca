------------------------------ MODULE OrderedBus ------------------------------
(***************************************************************************)
(* What internal/events/bus.go promises: a subscriber gets every event     *)
(* whose publication begins while it listens, once, and the events of a    *)
(* publisher in their order.  Two publishers' events may come in another   *)
(* order to another subscriber.  A subscriber that has left may lose the   *)
(* rest, from some event on.                                               *)
(***************************************************************************)
EXTENDS Sequences, Integers

CONSTANTS Subscribers, Publishers, NoEvent

VARIABLES
  listening,  (* the subscribers, *)
  left,       (* those that have left, *)
  pending,    (* what each of them is still to receive, *)
  event,      (* what each publisher is publishing *)
  due         (* and who is still to be given it *)

abstractVars == <<listening, left, pending, event, due>>

Nobody == [s \in Subscribers |-> <<>>]

Init ==
  /\ listening = {} /\ left = {}
  /\ pending = Nobody
  /\ event = [p \in Publishers |-> NoEvent]
  /\ due = [p \in Publishers |-> {}]

Listen(s) ==
  /\ s \notin listening \cup left
  /\ \/ listening' = listening \cup {s} /\ UNCHANGED left
     \/ left' = left \cup {s} /\ UNCHANGED listening   (* the bus is closed *)
  /\ UNCHANGED <<pending, event, due>>

(* Any event.                                                              *)
Announce(p) ==
  /\ due[p] = {}
  /\ event' = [event EXCEPT ![p] = event'[p]]
  /\ due' = [due EXCEPT ![p] = listening]
  /\ UNCHANGED <<listening, left, pending>>

Give(p, s) ==
  /\ s \in due[p]
  /\ pending' = [pending EXCEPT ![s] = Append(@, event[p])]
  /\ due' = [due EXCEPT ![p] = @ \ {s}]
  /\ event' = [event EXCEPT ![p] = IF due[p] = {s} THEN NoEvent ELSE @]
  /\ UNCHANGED <<listening, left>>

Receive(s) ==
  /\ pending[s] # <<>>
  /\ pending' = [pending EXCEPT ![s] = Tail(@)]
  /\ UNCHANGED <<listening, left, event, due>>

(* One leaves, or all of them.                                             *)
Leave(S) ==
  /\ S \subseteq listening
  /\ \A p \in Publishers : due[p] = {}
  /\ listening' = listening \ S
  /\ left' = left \cup S
  /\ UNCHANGED <<pending, event, due>>

Lose(s) ==
  /\ s \in left
  /\ \E n \in 0..Len(pending[s]) :
       pending' = [pending EXCEPT ![s] = SubSeq(@, 1, n)]
  /\ UNCHANGED <<listening, left, event, due>>

(* The process ends, and begins again.                                     *)
Restart ==
  /\ listening' = {} /\ left' = {}
  /\ pending' = Nobody
  /\ event' = [p \in Publishers |-> NoEvent]
  /\ due' = [p \in Publishers |-> {}]

Next ==
  \/ \E s \in Subscribers : Listen(s) \/ Receive(s) \/ Lose(s)
  \/ \E p \in Publishers : Announce(p)
  \/ \E p \in Publishers, s \in Subscribers : Give(p, s)
  \/ \E S \in SUBSET listening : Leave(S)
  \/ Restart

Spec == Init /\ [][Next]_abstractVars
=============================================================================
