------------------------------- MODULE EventBus -------------------------------
(***************************************************************************)
(* internal/events/bus.go.  Publish never blocks: it appends the event to  *)
(* the queue of each subscriber in turn, under the bus's read lock and     *)
(* that subscriber's own lock, so that two publishers run beside each      *)
(* other.  A goroutine of each subscriber, the mover, takes the events one *)
(* by one out of the queue and sends them on the subscriber's channel.     *)
(* Subscribing, unsubscribing and closing take the write lock.             *)
(***************************************************************************)
EXTENDS Integers, Sequences, FiniteSets, SequencesExt

CONSTANTS
  Subscribers,  (* subscriptions; each is made once in a run of the process *)
  Publishers,   (* the goroutines that publish *)
  NoEvent,
  BufSize       (* capacity of a subscriber's channel *)

ASSUME BusAssumption == BufSize \in Nat \ {0}

VARIABLES
  busClosed,
  order,    (* the bus's list of subscribers *)
  closed,   (* the subscribers whose closed flag and done channel are set *)
  queue,    (* a subscriber's queue, *)
  mover,    (* where its mover is: "none", "waiting", "sending", "ended", *)
  hand,     (* the event the mover is sending, *)
  channel,  (* and what is in the channel's buffer *)
  event,    (* what a publisher is publishing, *)
  rest      (* and the subscribers it has still to come to *)

busVars == <<busClosed, order, closed, queue, mover, hand, channel, event, rest>>

InitBus ==
  /\ busClosed = FALSE /\ order = <<>> /\ closed = {}
  /\ queue = [s \in Subscribers |-> <<>>]
  /\ mover = [s \in Subscribers |-> "none"]
  /\ hand = [s \in Subscribers |-> NoEvent]
  /\ channel = [s \in Subscribers |-> <<>>]
  /\ event = [p \in Publishers |-> NoEvent]
  /\ rest = [p \in Publishers |-> <<>>]

(* The process begins anew.                                                *)
RestartBus ==
  /\ busClosed' = FALSE /\ order' = <<>> /\ closed' = {}
  /\ queue' = [s \in Subscribers |-> <<>>]
  /\ mover' = [s \in Subscribers |-> "none"]
  /\ hand' = [s \in Subscribers |-> NoEvent]
  /\ channel' = [s \in Subscribers |-> <<>>]
  /\ event' = [p \in Publishers |-> NoEvent]
  /\ rest' = [p \in Publishers |-> <<>>]

NobodyPublishes == \A p \in Publishers : rest[p] = <<>>

Listening == Range(order)

(* On a closed bus the subscriber gets a channel that is closed.           *)
Subscribe(s) ==
  /\ NobodyPublishes
  /\ mover[s] = "none"
  /\ IF busClosed
     THEN /\ mover' = [mover EXCEPT ![s] = "ended"]
          /\ closed' = closed \cup {s}
          /\ UNCHANGED order
     ELSE /\ mover' = [mover EXCEPT ![s] = "waiting"]
          /\ order' = Append(order, s)
          /\ UNCHANGED closed
  /\ UNCHANGED <<busClosed, queue, hand, channel, event, rest>>

Unsubscribe(s) ==
  /\ NobodyPublishes
  /\ closed' = closed \cup (Listening \cap {s})
  /\ IF s \in Listening
     THEN \E i \in DOMAIN order : order[i] = s /\ order' = RemoveAt(order, i)
     ELSE UNCHANGED order
  /\ UNCHANGED <<busClosed, queue, mover, hand, channel, event, rest>>

(* A publication begins: nothing on a closed bus.                          *)
Publish(p, e) ==
  /\ rest[p] = <<>>
  /\ rest' = [rest EXCEPT ![p] = order]
  /\ event' = [event EXCEPT ![p] = IF order = <<>> THEN NoEvent ELSE e]
  /\ UNCHANGED <<busClosed, order, closed, queue, mover, hand, channel>>

PublishTo(p) ==
  /\ rest[p] # <<>>
  /\ queue' = [queue EXCEPT ![Head(rest[p])] = Append(@, event[p])]
  /\ rest' = [rest EXCEPT ![p] = Tail(@)]
  /\ event' = [event EXCEPT ![p] = IF Tail(rest[p]) = <<>> THEN NoEvent ELSE @]
  /\ UNCHANGED <<busClosed, order, closed, mover, hand, channel>>

Close ==
  /\ NobodyPublishes
  /\ busClosed' = TRUE
  /\ closed' = closed \cup Listening
  /\ order' = <<>>
  /\ UNCHANGED <<queue, mover, hand, channel, event, rest>>

(* Bug: an event that comes while the mover is busy does not wake it.      *)
TakeWhenWoken(s) ==
  /\ mover[s] = "waiting" /\ Len(queue[s]) > 1
  /\ hand' = [hand EXCEPT ![s] = Head(queue[s])]
  /\ queue' = [queue EXCEPT ![s] = Tail(@)]
  /\ mover' = [mover EXCEPT ![s] = "sending"]
  /\ UNCHANGED <<busClosed, order, closed, channel, event, rest>>

(* The mover takes what is in the queue, also after the subscriber is      *)
(* closed; it ends when the queue of a closed subscriber is empty.         *)
Take(s) ==
  /\ mover[s] = "waiting" /\ queue[s] # <<>>
  /\ hand' = [hand EXCEPT ![s] = Head(queue[s])]
  /\ queue' = [queue EXCEPT ![s] = Tail(@)]
  /\ mover' = [mover EXCEPT ![s] = "sending"]
  /\ UNCHANGED <<busClosed, order, closed, channel, event, rest>>

End(s) ==
  /\ mover[s] = "waiting" /\ queue[s] = <<>> /\ s \in closed
  /\ mover' = [mover EXCEPT ![s] = "ended"]
  /\ UNCHANGED <<busClosed, order, closed, queue, hand, channel, event, rest>>

(* Bug: a channel that is full is not waited for.                          *)
SendOrDrop(s) ==
  /\ mover[s] = "sending"
  /\ channel' = [channel EXCEPT ![s] =
                   IF Len(@) < BufSize THEN Append(@, hand[s]) ELSE @]
  /\ hand' = [hand EXCEPT ![s] = NoEvent]
  /\ mover' = [mover EXCEPT ![s] = "waiting"]
  /\ UNCHANGED <<busClosed, order, closed, queue, event, rest>>

Send(s) ==
  /\ mover[s] = "sending" /\ Len(channel[s]) < BufSize
  /\ channel' = [channel EXCEPT ![s] = Append(@, hand[s])]
  /\ hand' = [hand EXCEPT ![s] = NoEvent]
  /\ mover' = [mover EXCEPT ![s] = "waiting"]
  /\ UNCHANGED <<busClosed, order, closed, queue, event, rest>>

(* The subscriber is closed: the mover gives up, with all that is queued.  *)
GiveUp(s) ==
  /\ mover[s] = "sending" /\ s \in closed
  /\ mover' = [mover EXCEPT ![s] = "ended"]
  /\ hand' = [hand EXCEPT ![s] = NoEvent]
  /\ queue' = [queue EXCEPT ![s] = <<>>]
  /\ UNCHANGED <<busClosed, order, closed, channel, event, rest>>

Move(s) == Take(s) \/ Send(s) \/ GiveUp(s) \/ End(s)

(* A subscriber receives.                                                  *)
Receive(s) ==
  /\ channel[s] # <<>>
  /\ channel' = [channel EXCEPT ![s] = Tail(@)]
  /\ UNCHANGED <<busClosed, order, closed, queue, mover, hand, event, rest>>

(* What a subscriber has still to receive.                                 *)
Pending(s) ==
  channel[s] \o (IF mover[s] = "sending" THEN <<hand[s]>> ELSE <<>>) \o queue[s]

Pendings == [s \in Subscribers |-> Pending(s)]

(* Those a publisher has still to come to.                                 *)
Dues == [p \in Publishers |-> Range(rest[p])]

BusTypeOK ==
  /\ busClosed \in BOOLEAN
  /\ Listening \subseteq Subscribers
  /\ Len(order) = Cardinality(Listening)
  /\ closed \subseteq Subscribers
  /\ \A s \in Subscribers : /\ Len(channel[s]) <= BufSize
                            /\ (mover[s] = "sending") = (hand[s] # NoEvent)
                            /\ s \in Listening => s \notin closed
  /\ \A p \in Publishers : (rest[p] = <<>>) = (event[p] = NoEvent)
=============================================================================
