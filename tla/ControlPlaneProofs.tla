-------------------------- MODULE ControlPlaneProofs --------------------------
(***************************************************************************)
(* The safety of the control plane and what the event bus promises, for    *)
(* every set of settings and sources, any number of updates and channels   *)
(* of any size.                                                            *)
(*                                                                         *)
(* The bus is treated first, with the set S of what is published left      *)
(* open: Delivery is what its steps preserve, and each of them is a step   *)
(* of OrderedBus or none.  The rest is a chain: Persisted relates memory,  *)
(* disk and the update under way, and Booted the configurations handed     *)
(* out at start-up; with S the configurations that are on disk or were,    *)
(* what a subscriber takes over is never newer than the file.              *)
(***************************************************************************)
EXTENDS ControlPlane, SequenceTheorems, FiniteSetTheorems, TLAPS

-----------------------------------------------------------------------------
(* Sequences without repetition.                                           *)

Injective(q) == \A i, j \in DOMAIN q : q[i] = q[j] => i = j

(* Listening and the set of those a publisher has still to come to.        *)
LEMMA RangeFacts ==
  ASSUME NEW T, NEW q \in Seq(T)
  PROVE  /\ Range(q) \subseteq T
         /\ Range(q) = {} <=> q = <<>>
         /\ \A x : x \in Range(q) <=> \E i \in 1 .. Len(q) : q[i] = x
BY EmptySeq, ElementOfSeq, LenProperties DEF Range

(* Subscribe appends a newcomer (bus.go:96).                               *)
LEMMA AppendNew ==
  ASSUME NEW T, NEW q \in Seq(T), Injective(q), NEW x \in T, x \notin Range(q)
  PROVE  /\ Append(q, x) \in Seq(T)
         /\ Injective(Append(q, x))
         /\ Range(Append(q, x)) = Range(q) \cup {x}
<1> DEFINE a == Append(q, x)
<1>1. /\ a \in Seq(T) /\ Len(a) = Len(q) + 1 /\ DOMAIN a = 1 .. Len(q) + 1
      /\ \A i \in 1 .. Len(q) : a[i] = q[i]
      /\ a[Len(q) + 1] = x
      /\ Len(q) \in Nat /\ DOMAIN q = 1 .. Len(q)
  BY AppendProperties, LenProperties
<1> HIDE DEF a
<1>2. \A i \in 1 .. Len(q) : a[i] \in Range(q) /\ a[i] # x
  BY <1>1 DEF Range
<1>3. Injective(a)
  BY <1>1, <1>2 DEF Injective
<1>4. ASSUME NEW y
      PROVE  y \in Range(a) <=> y \in Range(q) \cup {x}
  BY <1>1 DEF Range
<1>5. QED
  BY <1>1, <1>3, <1>4 DEF a

(* Publish goes through the list once, and gives everyone his copy of the  *)
(* event: who has been given it is no more due (bus.go:133).               *)
LEMMA TailOfInjective ==
  ASSUME NEW T, NEW q \in Seq(T), Injective(q), q # <<>>
  PROVE  /\ Tail(q) \in Seq(T)
         /\ Injective(Tail(q))
         /\ Head(q) \in Range(q)
         /\ Range(Tail(q)) = Range(q) \ {Head(q)}
<1>1. /\ Tail(q) \in Seq(T)
      /\ Len(q) \in Nat \ {0} /\ Len(Tail(q)) = Len(q) - 1
      /\ DOMAIN q = 1 .. Len(q) /\ DOMAIN Tail(q) = 1 .. Len(q) - 1
      /\ \A i \in 1 .. Len(q) - 1 : Tail(q)[i] = q[i + 1]
      /\ Head(q) = q[1]
  BY HeadTailProperties, LenProperties, EmptySeq
<1>2. Injective(Tail(q))
  BY <1>1 DEF Injective
<1>3. ASSUME NEW y
      PROVE  y \in Range(Tail(q)) <=> y \in Range(q) \ {Head(q)}
  <2>1. ASSUME y \in Range(Tail(q))
        PROVE  y \in Range(q) \ {Head(q)}
    <3>1. PICK i \in 1 .. Len(q) - 1 : y = q[i + 1]
      BY <1>1, <2>1 DEF Range
    <3>2. QED
      BY <1>1, <3>1 DEF Range, Injective
  <2>2. ASSUME y \in Range(q), y # Head(q)
        PROVE  y \in Range(Tail(q))
    <3>1. PICK i \in 1 .. Len(q) : y = q[i]
      BY <1>1, <2>2 DEF Range
    <3>2. i - 1 \in 1 .. Len(q) - 1 /\ Tail(q)[i - 1] = y
      BY <1>1, <2>2, <3>1
    <3>3. QED
      BY <1>1, <3>2 DEF Range
  <2>3. QED
    BY <2>1, <2>2
<1>4. Head(q) \in Range(q)
  BY <1>1 DEF Range
<1>5. QED
  BY <1>1, <1>2, <1>3, <1>4

(* Unsubscribe cuts one out of the list (bus.go:113).                      *)
LEMMA RemovedFromInjective ==
  ASSUME NEW T, NEW q \in Seq(T), Injective(q), NEW k \in DOMAIN q
  PROVE  /\ RemoveAt(q, k) \in Seq(T)
         /\ Injective(RemoveAt(q, k))
         /\ Range(RemoveAt(q, k)) = Range(q) \ {q[k]}
<1> DEFINE left == SubSeq(q, 1, k - 1)
           right == SubSeq(q, k + 1, Len(q))
           r == left \o right
<1>1. Len(q) \in Nat /\ DOMAIN q = 1 .. Len(q) /\ k \in 1 .. Len(q)
  BY LenProperties
<1>2. \A i \in 1 .. Len(q) : q[i] \in T
  BY ElementOfSeq
<1>3. /\ left \in Seq(T) /\ Len(left) = k - 1
      /\ \A i \in 1 .. k - 1 : left[i] = q[i]
  <2>1. /\ left \in Seq(T) /\ Len(left) = IF 1 <= k - 1 THEN k - 1 - 1 + 1 ELSE 0
        /\ \A i \in 1 .. k - 1 - 1 + 1 : left[i] = q[1 + i - 1]
    BY <1>1, <1>2, SubSeqProperties
  <2>2. QED
    BY <1>1, <2>1
<1>4. /\ right \in Seq(T) /\ Len(right) = Len(q) - k
      /\ \A i \in 1 .. Len(q) - k : right[i] = q[k + i]
  <2>1. /\ right \in Seq(T)
        /\ Len(right) = IF k + 1 <= Len(q) THEN Len(q) - (k + 1) + 1 ELSE 0
        /\ \A i \in 1 .. Len(q) - (k + 1) + 1 : right[i] = q[k + 1 + i - 1]
    BY <1>1, <1>2, SubSeqProperties
  <2>2. QED
    BY <1>1, <2>1
<1> HIDE DEF left, right
<1>5. /\ r \in Seq(T) /\ DOMAIN r = 1 .. Len(q) - 1
      /\ \A i \in 1 .. Len(q) - 1 : r[i] = IF i < k THEN q[i] ELSE q[i + 1]
  <2>1. /\ r \in Seq(T) /\ Len(r) = Len(left) + Len(right)
        /\ \A i \in 1 .. Len(left) + Len(right) :
             r[i] = IF i <= Len(left) THEN left[i] ELSE right[i - Len(left)]
    BY <1>3, <1>4, ConcatProperties
  <2> HIDE DEF r
  <2>2. Len(r) = Len(q) - 1 /\ DOMAIN r = 1 .. Len(q) - 1
    BY <1>1, <1>3, <1>4, <2>1, LenProperties
  <2>3. ASSUME NEW i \in 1 .. Len(q) - 1
        PROVE  r[i] = IF i < k THEN q[i] ELSE q[i + 1]
    <3>1. CASE i < k
      BY <1>1, <1>3, <1>4, <2>1, <3>1
    <3>2. CASE i >= k
      <4>1. i - Len(left) \in 1 .. Len(q) - k /\ k + (i - Len(left)) = i + 1
        BY <1>1, <1>3, <3>2
      <4>2. right[i - Len(left)] = q[i + 1]
        BY <1>4, <4>1
      <4>3. QED
        BY <1>1, <1>3, <1>4, <2>1, <3>2, <4>2
    <3>3. QED
      BY <1>1, <3>1, <3>2
  <2>4. QED
    BY <2>1, <2>2, <2>3
<1> HIDE DEF r
<1>6. Injective(r)
  <2>1. ASSUME NEW i \in 1 .. Len(q) - 1, NEW j \in 1 .. Len(q) - 1, r[i] = r[j]
        PROVE  i = j
    <3> DEFINE at(x) == IF x < k THEN x ELSE x + 1
    <3>1. /\ at(i) \in 1 .. Len(q) /\ at(j) \in 1 .. Len(q)
          /\ at(i) = at(j) => i = j
      BY <1>1
    <3>2. r[i] = q[at(i)] /\ r[j] = q[at(j)]
      BY <1>5
    <3> HIDE DEF at
    <3>3. at(i) = at(j)
      BY <1>1, <2>1, <3>1, <3>2 DEF Injective
    <3>4. QED
      BY <3>1, <3>3
  <2>2. QED
    BY <1>5, <2>1 DEF Injective
<1>7. ASSUME NEW y
      PROVE  y \in Range(r) <=> y \in Range(q) \ {q[k]}
  <2>1. ASSUME y \in Range(r)
        PROVE  y \in Range(q) \ {q[k]}
    <3>1. PICK i \in 1 .. Len(q) - 1 : y = IF i < k THEN q[i] ELSE q[i + 1]
      BY <1>5, <2>1 DEF Range
    <3>2. QED
      BY <1>1, <3>1 DEF Range, Injective
  <2>2. ASSUME y \in Range(q), y # q[k]
        PROVE  y \in Range(r)
    <3>1. PICK i \in 1 .. Len(q) : y = q[i] /\ i # k
      BY <1>1, <2>2 DEF Range
    <3>2. CASE i < k
      BY <1>1, <1>5, <3>1, <3>2 DEF Range
    <3>3. CASE i > k
      <4>1. i - 1 \in 1 .. Len(q) - 1 /\ r[i - 1] = y
        BY <1>1, <1>5, <3>1, <3>3
      <4>2. QED
        BY <1>5, <4>1 DEF Range
    <3>4. QED
      BY <1>1, <3>1, <3>2, <3>3
  <2>3. QED
    BY <2>1, <2>2
<1>8. RemoveAt(q, k) = r
  BY DEF RemoveAt, r, left, right
<1>9. QED
  BY <1>5, <1>6, <1>7, <1>8

(* Such a list is as long as the set of its members is large.              *)
LEMMA InjectiveCounts ==
  ASSUME NEW T, NEW q \in Seq(T), Injective(q)
  PROVE  Cardinality(Range(q)) = Len(q)
<1>1. Len(q) \in Nat /\ DOMAIN q = 1 .. Len(q) /\ q \in [1 .. Len(q) -> T]
  BY LenProperties
<1>2. q \in Bijection(1 .. Len(q), Range(q))
  BY <1>1 DEF Bijection, Injection, Surjection, IsInjective, Range, Injective
<1>3. ExistsBijection(1 .. Len(q), Range(q))
  BY <1>2 DEF ExistsBijection
<1>4. QED
  BY <1>1, <1>3, FS_CountingElements

-----------------------------------------------------------------------------
(* The bus, when what is published is in S.                                *)

Movers == {"none", "waiting", "sending", "ended"}

BusTyped(S) ==
  /\ busClosed \in BOOLEAN
  /\ order \in Seq(Subscribers)
  /\ closed \subseteq Subscribers
  /\ mover \in [Subscribers -> Movers]
  /\ queue \in [Subscribers -> Seq(S)]
  /\ channel \in [Subscribers -> Seq(S)]
  /\ hand \in [Subscribers -> S \cup {NoEvent}]
  /\ event \in [Publishers -> S \cup {NoEvent}]
  /\ rest \in [Publishers -> Seq(Subscribers)]

(* A subscriber is in the list once, and after its mover was started and   *)
(* before it is closed; what the mover holds is an event.                  *)
Delivery(S) ==
  /\ BusTyped(S)
  /\ Injective(order)
  /\ \A s \in Subscribers :
       /\ Len(channel[s]) <= BufSize
       /\ (mover[s] = "sending") = (hand[s] # NoEvent)
       /\ s \in Listening => mover[s] # "none" /\ s \notin closed
       /\ s \in closed => mover[s] # "none"
  /\ \A p \in Publishers :
       /\ Injective(rest[p])
       /\ (rest[p] = <<>>) = (event[p] = NoEvent)

(* What the bus and those who call it do.                                  *)
BusStep(S) ==
  \/ UNCHANGED busVars
  \/ RestartBus
  \/ Close
  \/ \E s \in Subscribers : Subscribe(s) \/ Unsubscribe(s) \/ Receive(s)
  \/ \E s \in Subscribers : Take(s) \/ Send(s) \/ GiveUp(s) \/ End(s)
  \/ \E p \in Publishers : PublishTo(p) \/ \E e \in S : Publish(p, e)

LEMMA EmptyBus ==
  ASSUME NEW T
  PROVE  <<>> \in Seq(T) /\ Injective(<<>>) /\ Range(<<>>) = {} /\ Len(<<>>) = 0
BY EmptySeq DEF Injective, Range

(* The bus of a new process (bus.go:75).                                   *)
LEMMA DeliveryInitially ==
  ASSUME NEW S, InitBus
  PROVE  Delivery(S)
<1>1. BusTyped(S)
  BY EmptyBus DEF InitBus, BusTyped, Movers
<1>2. Listening = {}
  BY DEF InitBus, Listening, Range
<1>3. QED
  BY <1>1, <1>2, EmptyBus, BusAssumption DEF InitBus, Delivery

(* Subscribing puts a newcomer at the end of the list, and leaving or      *)
(* closing the bus takes out those it closes (bus.go:78-98, 101-118, 146). *)
LEMMA DeliveryMembership ==
  ASSUME NEW S, Delivery(S),
         Close \/ \E s \in Subscribers : Subscribe(s) \/ Unsubscribe(s)
  PROVE  Delivery(S)'
<1> USE DEF Delivery, BusTyped
<1>1. Listening = Range(order) /\ Listening' = Range(order')
  BY DEF Listening
<1>2. Listening \subseteq Subscribers
  BY <1>1, RangeFacts
<1>3. ASSUME NEW s \in Subscribers, Subscribe(s)
      PROVE  Delivery(S)'
  <2> USE <1>3 DEF Subscribe
  <2>1. CASE busClosed
    <3>1. /\ mover' = [mover EXCEPT ![s] = "ended"] /\ closed' = closed \cup {s}
          /\ UNCHANGED <<busClosed, order, queue, channel, hand, event, rest>>
      BY <2>1
    <3>2. mover' \in [Subscribers -> Movers] /\ closed' \subseteq Subscribers
      BY <3>1 DEF Movers
    <3>3. s \notin Listening
      BY <1>3
    <3>4. Listening' = Listening
      BY <1>1, <3>1
    <3>5. BusTyped(S)'
      BY <3>1, <3>2
    <3>6. ASSUME NEW t \in Subscribers
          PROVE  /\ Len(channel'[t]) <= BufSize
                 /\ (mover'[t] = "sending") = (hand'[t] # NoEvent)
                 /\ t \in Listening' => mover'[t] # "none" /\ t \notin closed'
                 /\ t \in closed' => mover'[t] # "none"
      BY <3>1, <3>3, <3>4
    <3>7. QED
      BY <3>1, <3>5, <3>6
  <2>2. CASE ~ busClosed
    <3>1. s \notin Range(order)
      BY <1>1
    <3>2. order' = Append(order, s)
      BY <2>2
    <3>3. /\ order' \in Seq(Subscribers) /\ Injective(order')
          /\ Listening' = Listening \cup {s}
      BY <1>1, <3>1, <3>2, AppendNew
    <3>4. mover' = [mover EXCEPT ![s] = "waiting"] /\ closed' = closed
      BY <2>2
    <3>5. BusTyped(S)'
      BY <3>3, <3>4 DEF Movers
    <3>6. QED
      BY <3>3, <3>4, <3>5
  <2>3. QED
    BY <2>1, <2>2
<1>4. ASSUME NEW s \in Subscribers, Unsubscribe(s)
      PROVE  Delivery(S)'
  <2> USE <1>4 DEF Unsubscribe
  <2>1. CASE s \notin Listening
    BY <1>1, <2>1
  <2>2. CASE s \in Listening
    <3>1. PICK i \in DOMAIN order : order[i] = s /\ order' = RemoveAt(order, i)
      BY <2>2
    <3>2. /\ order' \in Seq(Subscribers) /\ Injective(order')
          /\ Listening' = Listening \ {s}
      BY <1>1, <3>1, RemovedFromInjective
    <3>3. closed' = closed \cup {s}
      BY <2>2
    <3>4. QED
      BY <2>2, <3>2, <3>3
  <2>3. QED
    BY <2>1, <2>2
<1>5. CASE Close
  <2> USE <1>5 DEF Close
  <2>1. order' = <<>> /\ order' \in Seq(Subscribers) /\ Injective(order') /\ Listening' = {}
    BY <1>1, EmptyBus
  <2>2. QED
    BY <1>2, <2>1
<1>6. QED
  BY <1>3, <1>4, <1>5

(* Publishing, and what the mover and the subscriber do with a queue       *)
(* (bus.go:33-53, 125-142).                                                *)
LEMMA DeliveryTransport ==
  ASSUME NEW S, NoEvent \notin S, Delivery(S),
         \/ \E s \in Subscribers : Receive(s) \/ Take(s) \/ Send(s) \/ GiveUp(s) \/ End(s)
         \/ \E p \in Publishers : PublishTo(p) \/ \E e \in S : Publish(p, e)
  PROVE  Delivery(S)'
<1> USE DEF Delivery, BusTyped
<1>1. order' = order => Listening' = Listening
  BY DEF Listening
<1>2. ASSUME NEW s \in Subscribers, Receive(s)
      PROVE  Delivery(S)'
  <2>1. channel[s] \in Seq(S) /\ channel[s] # <<>>
    BY <1>2 DEF Receive
  <2>2. Tail(channel[s]) \in Seq(S) /\ Len(Tail(channel[s])) <= BufSize
    <3>1. Tail(channel[s]) \in Seq(S) /\ Len(Tail(channel[s])) = Len(channel[s]) - 1
      BY <2>1, HeadTailProperties
    <3>2. Len(channel[s]) \in Nat /\ Len(channel[s]) <= BufSize /\ BufSize \in Nat
      BY <2>1, LenProperties, BusAssumption
    <3>3. QED
      BY <3>1, <3>2
  <2>3. QED
    BY <1>1, <1>2, <2>2 DEF Receive
<1>3. ASSUME NEW s \in Subscribers, Take(s)
      PROVE  Delivery(S)'
  <2>1. Head(queue[s]) \in S /\ Tail(queue[s]) \in Seq(S)
    BY <1>3, HeadTailProperties DEF Take
  <2>2. QED
    BY <1>1, <1>3, <2>1 DEF Take, Movers
<1>4. ASSUME NEW s \in Subscribers, Send(s)
      PROVE  Delivery(S)'
  <2>1. channel[s] \in Seq(S) /\ hand[s] \in S
    BY <1>4 DEF Send
  <2>2. Append(channel[s], hand[s]) \in Seq(S) /\ Len(Append(channel[s], hand[s])) <= BufSize
    <3>1. /\ Append(channel[s], hand[s]) \in Seq(S)
          /\ Len(Append(channel[s], hand[s])) = Len(channel[s]) + 1
      BY <2>1, AppendProperties
    <3>2. Len(channel[s]) \in Nat /\ Len(channel[s]) < BufSize /\ BufSize \in Nat
      BY <1>4, <2>1, LenProperties, BusAssumption DEF Send
    <3>3. QED
      BY <3>1, <3>2
  <2>3. QED
    BY <1>1, <1>4, <2>2 DEF Send, Movers
<1>5. ASSUME NEW s \in Subscribers, GiveUp(s)
      PROVE  Delivery(S)'
  BY <1>1, <1>5, EmptyBus DEF GiveUp, Movers
<1>6. ASSUME NEW s \in Subscribers, End(s)
      PROVE  Delivery(S)'
  BY <1>1, <1>6 DEF End, Movers
<1>7. ASSUME NEW p \in Publishers, PublishTo(p)
      PROVE  Delivery(S)'
  <2> USE <1>7 DEF PublishTo
  <2>1. /\ Tail(rest[p]) \in Seq(Subscribers) /\ Injective(Tail(rest[p]))
        /\ Head(rest[p]) \in Subscribers
    BY TailOfInjective, RangeFacts
  <2>2. event[p] \in S
    OBVIOUS
  <2>3. Append(queue[Head(rest[p])], event[p]) \in Seq(S)
    BY <2>1, <2>2, AppendProperties
  <2>4. BusTyped(S)'
    BY <2>1, <2>2, <2>3
  <2>5. QED
    BY <1>1, <2>1, <2>2, <2>4
<1>8. ASSUME NEW p \in Publishers, NEW e \in S, Publish(p, e)
      PROVE  Delivery(S)'
  <2>1. BusTyped(S)'
    BY <1>8 DEF Publish
  <2>2. \A r \in Publishers : Injective(rest'[r]) /\ (rest'[r] = <<>>) = (event'[r] = NoEvent)
    BY <1>8 DEF Publish
  <2>3. QED
    BY <1>1, <1>8, <2>1, <2>2 DEF Publish
<1>9. QED
  BY <1>2, <1>3, <1>4, <1>5, <1>6, <1>7, <1>8

(* No step of the bus puts anything but what is published in a queue, or   *)
(* anyone twice in the list.                                               *)
LEMMA DeliveryPreserved ==
  ASSUME NEW S, NoEvent \notin S, Delivery(S), BusStep(S)
  PROVE  Delivery(S)'
<1>1. CASE UNCHANGED busVars
  BY <1>1 DEF busVars, Delivery, BusTyped, Listening
<1>2. CASE RestartBus
  <2>1. BusTyped(S)'
    BY <1>2, EmptyBus DEF RestartBus, BusTyped, Movers
  <2>2. Listening' = {}
    BY <1>2 DEF RestartBus, Listening, Range
  <2>3. QED
    BY <1>2, <2>1, <2>2, EmptyBus, BusAssumption DEF RestartBus, Delivery
<1>3. QED
  BY <1>1, <1>2, DeliveryMembership, DeliveryTransport DEF BusStep

-----------------------------------------------------------------------------
(* The bus implements OrderedBus.                                          *)

(* What a subscriber has still to receive is what is in its channel (ch),  *)
(* in the mover's hand (m) and in its queue (q), in this order: the        *)
(* channel's comes first.                                                  *)
LEMMA ChannelIsAPrefix ==
  ASSUME NEW S, NEW ch \in Seq(S), NEW m \in Seq(S), NEW q \in Seq(S)
  PROVE  /\ Len(ch) \in 0 .. Len(ch \o m \o q)
         /\ SubSeq(ch \o m \o q, 1, Len(ch)) = ch
<1> DEFINE r == m \o q
           a == ch \o r
           b == SubSeq(a, 1, Len(ch))
<1>1. r \in Seq(S) /\ a = ch \o m \o q
  BY ConcatProperties, ConcatAssociative, SMTT(30)
<1> HIDE DEF r
<1>2. Len(ch) \in Nat /\ Len(r) \in Nat
  BY <1>1, LenProperties
<1>3. /\ Len(a) = Len(ch) + Len(r)
      /\ \A i \in 1 .. Len(ch) + Len(r) :
           a[i] = IF i <= Len(ch) THEN ch[i] ELSE r[i - Len(ch)]
  BY <1>1, ConcatProperties
<1> HIDE DEF a
<1>4. \A i \in 1 .. Len(ch) : a[i] = ch[i] /\ a[i] \in S
  BY <1>2, <1>3, ElementOfSeq
<1>5. /\ b \in Seq(S)
      /\ Len(b) = IF 1 <= Len(ch) THEN Len(ch) - 1 + 1 ELSE 0
      /\ \A i \in 1 .. Len(ch) - 1 + 1 : b[i] = a[1 + i - 1]
  BY <1>2, <1>4, SubSeqProperties
<1> HIDE DEF b
<1>6. Len(b) = Len(ch)
  BY <1>2, <1>5
<1>7. \A i \in 1 .. Len(b) : b[i] = ch[i]
  BY <1>2, <1>4, <1>5, <1>6
<1>8. b = ch
  BY <1>5, <1>6, <1>7, SeqEqual
<1>9. Len(ch) \in 0 .. Len(a)
  BY <1>2, <1>3
<1>10. QED
  BY <1>1, <1>8, <1>9 DEF b

(* Taking an event out of the queue, and putting it in the channel, leaves *)
(* what is pending as it was (bus.go:42-49).                               *)
LEMMA MovingKeeps ==
  ASSUME NEW S, NEW ch \in Seq(S), NEW q \in Seq(S)
  PROVE  /\ q # <<>> => ch \o <<Head(q)>> \o Tail(q) = ch \o <<>> \o q
         /\ \A e \in S : Append(ch, e) \o <<>> \o q = ch \o <<e>> \o q
<1>1. ch \o <<>> = ch
  BY ConcatEmptySeq
<1>2. ASSUME q # <<>>
      PROVE  ch \o <<Head(q)>> \o Tail(q) = ch \o <<>> \o q
  <2>1. /\ Head(q) \in S /\ Tail(q) \in Seq(S) /\ Len(Tail(q)) = Len(q) - 1
        /\ \A i \in 1 .. Len(Tail(q)) : Tail(q)[i] = q[i + 1]
        /\ Head(q) = q[1] /\ Len(q) \in Nat \ {0}
    BY <1>2, HeadTailProperties, EmptySeq
  <2>2. <<Head(q)>> \in Seq(S) /\ Len(<<Head(q)>>) = 1 /\ <<Head(q)>>[1] = Head(q)
    BY <2>1
  <2>3. q = <<Head(q)>> \o Tail(q)
    <3> DEFINE c == <<Head(q)>> \o Tail(q)
    <3>1. /\ c \in Seq(S) /\ Len(c) = 1 + Len(Tail(q))
          /\ \A i \in 1 .. 1 + Len(Tail(q)) :
               c[i] = IF i <= 1 THEN <<Head(q)>>[i] ELSE Tail(q)[i - 1]
      BY <2>1, <2>2, ConcatProperties
    <3> HIDE DEF c
    <3>2. ASSUME NEW i \in 1 .. Len(q) PROVE q[i] = c[i]
      <4>1. CASE i = 1
        BY <2>1, <2>2, <3>1, <4>1
      <4>2. CASE i # 1
        <5>1. i - 1 \in 1 .. Len(Tail(q)) /\ (i - 1) + 1 = i
          BY <2>1, <4>2
        <5>2. QED
          BY <2>1, <3>1, <4>2, <5>1
      <4>3. QED
        BY <4>1, <4>2
    <3>3. Len(c) = Len(q)
      BY <2>1, <3>1
    <3>4. q = c
      BY <3>1, <3>2, <3>3, SeqEqual
    <3>5. QED
      BY <3>4 DEF c
  <2>4. ch \o <<Head(q)>> \o Tail(q) = ch \o (<<Head(q)>> \o Tail(q))
    BY <2>1, <2>2, ConcatAssociative
  <2>5. QED
    BY <1>1, <2>3, <2>4
<1>3. ASSUME NEW e \in S
      PROVE  Append(ch, e) \o <<>> \o q = ch \o <<e>> \o q
  <2>1. Append(ch, e) = ch \o <<e>> /\ Append(ch, e) \in Seq(S)
    BY AppendIsConcat, AppendProperties
  <2>2. Append(ch, e) \o <<>> = Append(ch, e)
    BY <2>1, ConcatEmptySeq
  <2>3. QED
    BY <2>1, <2>2
<1>4. QED
  BY <1>2, <1>3

(* An event is pending last when it is appended to the queue (bus.go:138). *)
LEMMA QueuedIsLast ==
  ASSUME NEW S, NEW ch \in Seq(S), NEW m \in Seq(S), NEW q \in Seq(S), NEW e \in S
  PROVE  ch \o m \o Append(q, e) = Append(ch \o m \o q, e)
<1>1. ch \o m \in Seq(S) /\ m \o q \in Seq(S) /\ ch \o m \o q \in Seq(S)
  BY ConcatProperties
<1>2. Append(q, e) = q \o <<e>> /\ Append(ch \o m \o q, e) = (ch \o m \o q) \o <<e>>
  BY <1>1, AppendIsConcat
<1>3. (ch \o m \o q) \o <<e>> = (ch \o m) \o (q \o <<e>>)
  BY <1>1, ConcatAssociative
<1>4. QED
  BY <1>2, <1>3

(* What the subscriber receives was pending first (bus.go:48).             *)
LEMMA TailOfConcat ==
  ASSUME NEW S, NEW u \in Seq(S), NEW w \in Seq(S), u # <<>>
  PROVE  Tail(u) \o w = Tail(u \o w) /\ u \o w # <<>> /\ u \o w \in Seq(S)
<1> DEFINE a == u \o w
           b == Tail(u) \o w
<1>1. /\ Tail(u) \in Seq(S) /\ Len(Tail(u)) = Len(u) - 1
      /\ \A i \in 1 .. Len(u) - 1 : Tail(u)[i] = u[i + 1]
      /\ Len(u) \in Nat \ {0} /\ Len(w) \in Nat
  BY HeadTailProperties, EmptySeq, LenProperties
<1>2. /\ a \in Seq(S) /\ Len(a) = Len(u) + Len(w)
      /\ \A i \in 1 .. Len(u) + Len(w) : a[i] = IF i <= Len(u) THEN u[i] ELSE w[i - Len(u)]
  BY ConcatProperties
<1>3. /\ b \in Seq(S) /\ Len(b) = Len(Tail(u)) + Len(w)
      /\ \A i \in 1 .. Len(Tail(u)) + Len(w) :
           b[i] = IF i <= Len(Tail(u)) THEN Tail(u)[i] ELSE w[i - Len(Tail(u))]
  BY <1>1, ConcatProperties
<1> HIDE DEF a, b
<1>4. a # <<>>
  BY <1>1, <1>2, EmptySeq
<1>5. /\ Tail(a) \in Seq(S) /\ Len(Tail(a)) = Len(a) - 1
      /\ \A i \in 1 .. Len(Tail(a)) : Tail(a)[i] = a[i + 1]
  BY <1>2, <1>4, HeadTailProperties
<1>6. Len(b) = Len(Tail(a))
  BY <1>1, <1>2, <1>3, <1>5
<1>7. ASSUME NEW i \in 1 .. Len(b)
      PROVE  b[i] = Tail(a)[i]
  <2>1. Tail(a)[i] = a[i + 1] /\ i + 1 \in 1 .. Len(u) + Len(w) /\ i \in Int
    BY <1>1, <1>2, <1>3, <1>5, <1>6
  <2>2. CASE i + 1 <= Len(u)
    BY <1>1, <1>2, <1>3, <2>1, <2>2
  <2>3. CASE ~ i + 1 <= Len(u)
    <3>1. a[i + 1] = w[i + 1 - Len(u)]
      BY <1>2, <2>1, <2>3
    <3>2. b[i] = w[i - Len(Tail(u))]
      BY <1>1, <1>3, <2>1, <2>3
    <3>3. i + 1 - Len(u) = i - Len(Tail(u))
      BY <1>1, <2>1
    <3>4. QED
      BY <2>1, <3>1, <3>2, <3>3
  <2>4. QED
    BY <2>2, <2>3
<1>8. b = Tail(a)
  BY <1>3, <1>5, <1>6, <1>7, SeqEqual
<1>9. QED
  BY <1>2, <1>4, <1>8 DEF a, b

LEMMA ReceivedIsFirst ==
  ASSUME NEW S, NEW ch \in Seq(S), NEW m \in Seq(S), NEW q \in Seq(S), ch # <<>>
  PROVE  ch \o m \o q # <<>> /\ Tail(ch) \o m \o q = Tail(ch \o m \o q)
<1>1. Tail(ch) \o m = Tail(ch \o m) /\ ch \o m # <<>> /\ ch \o m \in Seq(S)
  BY TailOfConcat
<1>2. Tail(ch \o m) \o q = Tail(ch \o m \o q) /\ ch \o m \o q # <<>>
  BY <1>1, TailOfConcat
<1>3. QED
  BY <1>1, <1>2

(* What is pending for a subscriber is made of sequences of events.        *)
Hand(s) == IF mover[s] = "sending" THEN <<hand[s]>> ELSE <<>>

LEMMA PendingParts ==
  ASSUME NEW S, Delivery(S), NEW s \in Subscribers
  PROVE  /\ channel[s] \in Seq(S) /\ Hand(s) \in Seq(S) /\ queue[s] \in Seq(S)
         /\ Pending(s) = channel[s] \o Hand(s) \o queue[s]
<1>1. Hand(s) \in Seq(S)
  <2>1. CASE mover[s] = "sending"
    <3>1. hand[s] \in S
      BY <2>1 DEF Delivery, BusTyped
    <3>2. QED
      BY <2>1, <3>1 DEF Hand
  <2>2. CASE mover[s] # "sending"
    BY <2>2, EmptySeq DEF Hand
  <2>3. QED
    BY <2>1, <2>2
<1>2. QED
  BY <1>1 DEF Delivery, BusTyped, Pending, Hand

(* A subscriber's queue, channel and mover are its own.                    *)
LEMMA OthersPendTheSame ==
  ASSUME NEW s \in Subscribers,
         \A t \in Subscribers \ {s} :
           queue'[t] = queue[t] /\ channel'[t] = channel[t]
           /\ mover'[t] = mover[t] /\ hand'[t] = hand[t]
  PROVE  Pendings' = [Pendings EXCEPT ![s] = Pending(s)']
<1>1. \A t \in Subscribers \ {s} : Pending(t)' = Pending(t)
  BY DEF Pending
<1>2. QED
  BY <1>1 DEF Pendings

(* The mover hands on what it found, or drops the rest of a subscriber     *)
(* that was closed (bus.go:42-52).                                         *)
LEMMA MoverRefines ==
  ASSUME NEW S, NoEvent \notin S, Delivery(S), NEW s \in Subscribers,
         Take(s) \/ Send(s) \/ GiveUp(s) \/ End(s)
  PROVE  UNCHANGED Bus!abstractVars \/ Bus!Lose(s)
<1>1. /\ mover \in [Subscribers -> Movers] /\ hand \in [Subscribers -> S \cup {NoEvent}]
      /\ queue \in [Subscribers -> Seq(S)] /\ channel \in [Subscribers -> Seq(S)]
  BY DEF Delivery, BusTyped
<1>2. /\ UNCHANGED <<order, closed, event, rest>>
      /\ Listening' = Listening
      /\ Pendings' = [Pendings EXCEPT ![s] = Pending(s)']
  <2>1. UNCHANGED <<order, closed, event, rest>>
    BY DEF Take, Send, GiveUp, End
  <2>2. Listening' = Listening
    BY <2>1 DEF Listening
  <2>3. Pendings' = [Pendings EXCEPT ![s] = Pending(s)']
    BY <1>1, OthersPendTheSame DEF Take, Send, GiveUp, End
  <2>4. QED
    BY <2>1, <2>2, <2>3
<1>3. channel[s] \in Seq(S) /\ queue[s] \in Seq(S)
  BY <1>1
<1>4. ASSUME Pending(s)' = Pending(s)
      PROVE  UNCHANGED Bus!abstractVars
  <2>1. Pendings' = Pendings
    BY <1>2, <1>4 DEF Pendings
  <2>2. QED
    BY <1>2, <2>1 DEF Dues, Bus!abstractVars
<1>5. CASE Take(s)
  <2>1. Pending(s) = channel[s] \o <<>> \o queue[s]
    BY <1>5 DEF Take, Pending
  <2>2. Pending(s)' = channel[s] \o <<Head(queue[s])>> \o Tail(queue[s])
    BY <1>1, <1>5 DEF Take, Pending
  <2>3. Pending(s)' = Pending(s)
    <3>1. queue[s] # <<>>
      BY <1>5 DEF Take
    <3>2. QED
      BY <1>3, <2>1, <2>2, <3>1, MovingKeeps
  <2>4. QED
    BY <1>4, <2>3
<1>6. CASE Send(s)
  <2>1. hand[s] \in S
    BY <1>1, <1>6 DEF Send, Delivery
  <2>2. Pending(s) = channel[s] \o <<hand[s]>> \o queue[s]
    BY <1>6 DEF Send, Pending
  <2>3. Pending(s)' = Append(channel[s], hand[s]) \o <<>> \o queue[s]
    BY <1>1, <1>6 DEF Send, Pending
  <2>4. Append(channel[s], hand[s]) \o <<>> \o queue[s] = channel[s] \o <<hand[s]>> \o queue[s]
    <3> DEFINE e == hand[s]
    <3>1. e \in S
      BY <2>1
    <3> HIDE DEF e
    <3> DEFINE ch == channel[s]
               q == queue[s]
    <3>2. ch \in Seq(S) /\ q \in Seq(S)
      BY <1>3
    <3> HIDE DEF ch, q
    <3>3. Append(ch, e) \o <<>> \o q = ch \o <<e>> \o q
      BY <3>1, <3>2, MovingKeeps
    <3>4. QED
      BY <3>3 DEF e, ch, q
  <2>5. Pending(s)' = Pending(s)
    BY <2>2, <2>3, <2>4
  <2>6. QED
    BY <1>4, <2>5
<1>7. CASE End(s)
  BY <1>1, <1>4, <1>7 DEF End, Pending
<1>8. CASE GiveUp(s)
  <2>1. Pending(s) = channel[s] \o Hand(s) \o queue[s] /\ Hand(s) \in Seq(S)
    BY PendingParts
  <2>2. Pending(s)' = channel[s] \o <<>> \o <<>>
    BY <1>1, <1>8 DEF GiveUp, Pending
  <2>3. Pending(s)' = channel[s]
    BY <1>3, <2>2, ConcatEmptySeq
  <2>4. /\ Len(channel[s]) \in 0 .. Len(Pending(s))
        /\ SubSeq(Pending(s), 1, Len(channel[s])) = channel[s]
    <3> DEFINE ch == channel[s]
               m == Hand(s)
               q == queue[s]
    <3>1. ch \in Seq(S) /\ m \in Seq(S) /\ q \in Seq(S)
      BY <1>3, <2>1
    <3> HIDE DEF ch, m, q
    <3>2. Len(ch) \in 0 .. Len(ch \o m \o q) /\ SubSeq(ch \o m \o q, 1, Len(ch)) = ch
      BY <3>1, ChannelIsAPrefix
    <3>3. QED
      BY <2>1, <3>2 DEF ch, m, q
  <2>6. Pendings[s] = Pending(s) /\ Pendings' = [Pendings EXCEPT ![s] = channel[s]]
    BY <1>2, <2>3 DEF Pendings
  <2>7. \E n \in 0 .. Len(Pendings[s]) :
          Pendings' = [Pendings EXCEPT ![s] = SubSeq(@, 1, n)]
    BY <2>4, <2>6
  <2>8. s \in closed
    BY <1>8 DEF GiveUp
  <2>9. Bus!Lose(s)
    BY <1>2, <2>7, <2>8 DEF Bus!Lose, Dues
  <2>10. QED
    BY <2>9
<1>9. QED
  BY <1>5, <1>6, <1>7, <1>8

(* Joining and leaving wait until nobody is publishing (bus.go:86, 106).   *)
LEMMA MembershipRefines ==
  ASSUME NEW S, Delivery(S), NEW s \in Subscribers, Subscribe(s) \/ Unsubscribe(s)
  PROVE  Bus!Listen(s) \/ \E T \in SUBSET Listening : Bus!Leave(T)
                      \/ UNCHANGED Bus!abstractVars
<1> USE DEF Delivery, BusTyped
<1>1. UNCHANGED <<event, rest, Pendings, Dues>>
  <2>1. UNCHANGED <<queue, hand, channel, event, rest>>
    BY DEF Subscribe, Unsubscribe
  <2>2. \A t \in Subscribers : mover'[t] = "sending" <=> mover[t] = "sending"
    BY DEF Subscribe, Unsubscribe
  <2>3. \A t \in Subscribers : Pending(t)' = Pending(t)
    BY <2>1, <2>2 DEF Pending
  <2>4. QED
    BY <2>1, <2>3 DEF Pendings, Dues
<1>2. CASE Subscribe(s)
  <2>1. s \notin Listening \cup closed
    BY <1>2 DEF Subscribe
  <2>2. \/ closed' = closed \cup {s} /\ UNCHANGED Listening
        \/ Listening' = Listening \cup {s} /\ UNCHANGED closed
    <3>1. CASE busClosed
      BY <1>2, <3>1 DEF Subscribe, Listening
    <3>2. CASE ~ busClosed
      <4>1. order' = Append(order, s) /\ closed' = closed
        BY <1>2, <3>2 DEF Subscribe
      <4>2. s \notin Range(order)
        BY <2>1 DEF Listening
      <4>3. Range(Append(order, s)) = Range(order) \cup {s}
        BY <4>2, AppendNew
      <4>4. QED
        BY <4>1, <4>3 DEF Listening
    <3>3. QED
      BY <3>1, <3>2
  <2>3. QED
    BY <1>1, <2>1, <2>2 DEF Bus!Listen
<1>3. CASE Unsubscribe(s)
  <2>1. CASE s \notin Listening
    BY <1>1, <1>3, <2>1 DEF Unsubscribe, Listening, Bus!abstractVars
  <2>2. CASE s \in Listening
    <3>1. PICK i \in DOMAIN order : order[i] = s /\ order' = RemoveAt(order, i)
      BY <1>3, <2>2 DEF Unsubscribe
    <3>2. Listening' = Listening \ {s}
      BY <3>1, RemovedFromInjective DEF Listening
    <3>3. closed' = closed \cup {s}
      BY <1>3, <2>2 DEF Unsubscribe
    <3>4. \A p \in Publishers : Dues[p] = {}
      BY <1>3, RangeFacts DEF Unsubscribe, NobodyPublishes, Dues
    <3>5. Bus!Leave({s})
      BY <1>1, <2>2, <3>2, <3>3, <3>4 DEF Bus!Leave
    <3>6. QED
      BY <2>2, <3>5
  <2>3. QED
    BY <2>1, <2>2
<1>4. QED
  BY <1>2, <1>3

(* Closing the bus is leaving it for all (bus.go:146-163).                 *)
LEMMA CloseRefines ==
  ASSUME NEW S, Delivery(S), Close
  PROVE  Bus!Leave(Listening)
<1>1. UNCHANGED <<event, Pendings, Dues>>
  BY DEF Close, Pendings, Pending, Dues
<1>2. Listening' = {} /\ closed' = closed \cup Listening
  BY DEF Close, Listening, Range
<1>3. \A p \in Publishers : Dues[p] = {}
  BY RangeFacts DEF Close, NobodyPublishes, Dues, Delivery, BusTyped
<1>4. QED
  BY <1>1, <1>2, <1>3 DEF Bus!Leave

(* Publish, which owes the event to those on the list, and gives it to one *)
(* after the other (bus.go:125-142).                                       *)
LEMMA PublishRefines ==
  ASSUME NEW S, NoEvent \notin S, Delivery(S), NEW p \in Publishers
  PROVE  /\ \A e \in S : Publish(p, e) => Bus!Announce(p)
         /\ PublishTo(p) => \E s \in Subscribers : Bus!Give(p, s)
<1> USE DEF Delivery, BusTyped
<1>1. \A r \in Publishers : rest[r] = <<>> <=> Dues[r] = {}
  BY RangeFacts DEF Dues
<1>2. ASSUME NEW e \in S, Publish(p, e)
      PROVE  Bus!Announce(p)
  <2>1. UNCHANGED <<Listening, closed, Pendings>>
    BY <1>2 DEF Publish, Listening, Pendings, Pending
  <2>2. Dues[p] = {}
    BY <1>1, <1>2 DEF Publish
  <2>3. event' = [event EXCEPT ![p] = event'[p]]
    BY <1>2 DEF Publish
  <2>4. Dues' = [Dues EXCEPT ![p] = Listening]
    BY <1>2 DEF Publish, Dues, Listening
  <2>5. QED
    BY <2>1, <2>2, <2>3, <2>4 DEF Bus!Announce
<1>3. ASSUME PublishTo(p)
      PROVE  \E s \in Subscribers : Bus!Give(p, s)
  <2>0. PICK s : s = Head(rest[p])
    OBVIOUS
  <2>1. /\ rest[p] # <<>> /\ rest' = [rest EXCEPT ![p] = Tail(rest[p])]
        /\ queue' = [queue EXCEPT ![s] = Append(queue[s], event[p])]
        /\ event' = [event EXCEPT ![p] = IF Tail(rest[p]) = <<>> THEN NoEvent ELSE event[p]]
        /\ UNCHANGED <<order, closed, mover, hand, channel>>
    BY <1>3, <2>0 DEF PublishTo
  <2>2. /\ s \in Dues[p] /\ s \in Subscribers
        /\ Range(Tail(rest[p])) = Dues[p] \ {s}
        /\ Tail(rest[p]) \in Seq(Subscribers)
    <3> DEFINE q == rest[p]
    <3>1. q \in Seq(Subscribers) /\ Injective(q) /\ q # <<>> /\ s = Head(q)
      BY <2>0, <2>1
    <3>2. Dues[p] = Range(q)
      BY DEF Dues
    <3> HIDE DEF q
    <3>3. /\ Tail(q) \in Seq(Subscribers) /\ s \in Range(q)
          /\ Range(Tail(q)) = Range(q) \ {s}
      BY ONLY <3>1, TailOfInjective
    <3>4. s \in Subscribers
      BY ONLY <3>1, <3>3, RangeFacts
    <3>5. QED
      BY <3>2, <3>3, <3>4 DEF q
  <2>3. Tail(rest[p]) = <<>> <=> Dues[p] = {s}
    <3> DEFINE q == Tail(rest[p])
    <3>1. q \in Seq(Subscribers) /\ Range(q) = Dues[p] \ {s} /\ s \in Dues[p]
      BY <2>2
    <3> HIDE DEF q
    <3>2. Range(q) = {} <=> q = <<>>
      BY ONLY <3>1, RangeFacts
    <3>3. q = <<>> <=> Dues[p] = {s}
      BY ONLY <3>1, <3>2
    <3>4. QED
      BY <3>3 DEF q
  <2>4. event[p] \in S
    BY <2>1
  <2>5. Dues' = [Dues EXCEPT ![p] = Dues[p] \ {s}]
    BY <2>1, <2>2 DEF Dues
  <2>6. UNCHANGED Listening
    BY <2>1 DEF Listening
  <2>7. Pending(s)' = Append(Pending(s), event[p])
    <3> DEFINE ch == channel[s]
               m == Hand(s)
               q == queue[s]
               e == event[p]
    <3>1. ch \in Seq(S) /\ m \in Seq(S) /\ q \in Seq(S) /\ e \in S
      BY <2>2, <2>4, PendingParts
    <3>2. Pending(s) = ch \o m \o q
      BY <2>2, PendingParts
    <3>3. Pending(s)' = ch \o m \o Append(q, e)
      <4>1. /\ queue'[s] = Append(queue[s], event[p])
            /\ channel'[s] = channel[s] /\ mover'[s] = mover[s] /\ hand'[s] = hand[s]
        BY <2>1, <2>2
      <4>2. Pending(s)' = channel'[s] \o Hand(s)' \o queue'[s] /\ Hand(s)' = Hand(s)
        BY <4>1 DEF Pending, Hand
      <4>3. QED
        BY <4>1, <4>2
    <3> HIDE DEF ch, m, q, e
    <3>4. ch \o m \o Append(q, e) = Append(ch \o m \o q, e)
      BY ONLY <3>1, QueuedIsLast, SMTT(30)
    <3>5. QED
      BY <3>2, <3>3, <3>4 DEF e
  <2>8. Pendings' = [Pendings EXCEPT ![s] = Append(Pendings[s], event[p])]
    <3>1. Pendings' = [Pendings EXCEPT ![s] = Pending(s)']
      <4>1. \A t \in Subscribers \ {s} : queue'[t] = queue[t]
        BY <2>1
      <4>2. \A t \in Subscribers \ {s} :
              queue'[t] = queue[t] /\ channel'[t] = channel[t]
              /\ mover'[t] = mover[t] /\ hand'[t] = hand[t]
        BY <2>1, <4>1
      <4>3. s \in Subscribers
        BY <2>2
      <4>4. QED
        BY ONLY <4>2, <4>3, OthersPendTheSame
    <3>2. QED
      BY <2>2, <2>7, <3>1 DEF Pendings
  <2>9. Bus!Give(p, s)
    BY <2>1, <2>2, <2>3, <2>5, <2>6, <2>8 DEF Bus!Give
  <2>10. QED
    BY <2>2, <2>9
<1>4. QED
  BY <1>2, <1>3

(* A subscriber receives what was pending first.                           *)
LEMMA ReceiveRefines ==
  ASSUME NEW S, Delivery(S), NEW s \in Subscribers, Receive(s)
  PROVE  Bus!Receive(s)
<1> DEFINE ch == channel[s]
           m == Hand(s)
           q == queue[s]
<1>1. /\ ch \in Seq(S) /\ m \in Seq(S) /\ q \in Seq(S)
      /\ Pending(s) = ch \o m \o q
  BY PendingParts
<1>2. /\ ch # <<>> /\ channel' = [channel EXCEPT ![s] = Tail(ch)]
      /\ UNCHANGED <<order, closed, queue, mover, hand, event, rest>>
  BY DEF Receive
<1>3. Pending(s)' = Tail(ch) \o m \o q
  BY <1>2 DEF Pending, Hand, Delivery, BusTyped
<1>4. UNCHANGED <<Listening, Dues>>
  BY <1>2 DEF Listening, Dues
<1> HIDE DEF ch, m, q
<1>5. Pending(s)' = Tail(Pending(s)) /\ Pending(s) # <<>>
  <2>1. ch \o m \o q # <<>> /\ Tail(ch) \o m \o q = Tail(ch \o m \o q)
    <3>1. ch \in Seq(S) /\ m \in Seq(S) /\ q \in Seq(S) /\ ch # <<>>
      BY <1>1, <1>2
    <3>2. QED
      BY ONLY <3>1, ReceivedIsFirst, SMTT(30)
  <2>2. QED
    BY <1>1, <1>3, <2>1
<1>6. Pendings' = [Pendings EXCEPT ![s] = Pending(s)']
  BY <1>2, OthersPendTheSame DEF Delivery, BusTyped
<1>7. Pendings[s] # <<>> /\ Pendings' = [Pendings EXCEPT ![s] = Tail(Pendings[s])]
  BY <1>5, <1>6 DEF Pendings
<1>8. QED
  BY <1>2, <1>4, <1>7 DEF Bus!Receive

(* The bus of a new process is a new one.                                  *)
LEMMA NewBusRefines ==
  /\ InitBus => Bus!Init
  /\ RestartBus => Bus!Restart
<1>1. ASSUME InitBus
      PROVE  Bus!Init
  <2>1. Listening = {} /\ Dues = [p \in Publishers |-> {}]
    BY <1>1 DEF InitBus, Listening, Dues, Range
  <2>2. Pendings = [s \in Subscribers |-> <<>>]
    <3>1. \A s \in Subscribers : Pending(s) = <<>> \o <<>> \o <<>>
      BY <1>1 DEF InitBus, Pending
    <3>2. <<>> \o <<>> \o <<>> = <<>>
      BY EmptySeq, ConcatEmptySeq
    <3>3. QED
      BY <3>1, <3>2 DEF Pendings
  <2>3. QED
    BY <1>1, <2>1, <2>2 DEF InitBus, Bus!Init, Bus!Nobody
<1>2. ASSUME RestartBus
      PROVE  Bus!Restart
  <2>1. Listening' = {} /\ Dues' = [p \in Publishers |-> {}]
    BY <1>2 DEF RestartBus, Listening, Dues, Range
  <2>2. Pendings' = [s \in Subscribers |-> <<>>]
    <3>1. \A s \in Subscribers : Pending(s)' = <<>> \o <<>> \o <<>>
      BY <1>2 DEF RestartBus, Pending
    <3>2. <<>> \o <<>> \o <<>> = <<>>
      BY EmptySeq, ConcatEmptySeq
    <3>3. QED
      BY <3>1, <3>2 DEF Pendings
  <2>3. QED
    BY <1>2, <2>1, <2>2 DEF RestartBus, Bus!Restart, Bus!Nobody
<1>3. QED
  BY <1>1, <1>2

(* Every step of the bus is one of OrderedBus, or none.                    *)
LEMMA BusStepRefines ==
  ASSUME NEW S, NoEvent \notin S, Delivery(S), BusStep(S)
  PROVE  [Bus!Next]_(Bus!abstractVars)
<1>1. CASE UNCHANGED busVars
  BY <1>1 DEF busVars, Bus!abstractVars, Listening, Pendings, Pending, Dues
<1>2. CASE RestartBus
  BY <1>2, NewBusRefines DEF Bus!Next
<1>3. CASE Close
  BY <1>3, CloseRefines DEF Bus!Next
<1>4. ASSUME NEW s \in Subscribers, Subscribe(s) \/ Unsubscribe(s)
      PROVE  [Bus!Next]_(Bus!abstractVars)
  BY <1>4, MembershipRefines DEF Bus!Next
<1>5. ASSUME NEW s \in Subscribers, Receive(s)
      PROVE  [Bus!Next]_(Bus!abstractVars)
  BY <1>5, ReceiveRefines DEF Bus!Next
<1>6. ASSUME NEW s \in Subscribers, Take(s) \/ Send(s) \/ GiveUp(s) \/ End(s)
      PROVE  [Bus!Next]_(Bus!abstractVars)
  BY <1>6, MoverRefines DEF Bus!Next
<1>7. ASSUME NEW p \in Publishers, PublishTo(p) \/ \E e \in S : Publish(p, e)
      PROVE  [Bus!Next]_(Bus!abstractVars)
  BY <1>7, PublishRefines DEF Bus!Next
<1>8. QED
  BY <1>1, <1>2, <1>3, <1>4, <1>5, <1>6, <1>7 DEF BusStep

-----------------------------------------------------------------------------
(* The configuration, on disk and in memory.                               *)

Phases == {"none", "writing", "renamed", "swapped"}

Booting == {"starting", "starting loop", "starting server"}

PlaneTyped ==
  /\ disk \in Configs \cup {NoFile}
  /\ cfg \in Configs /\ initialCfg \in Configs /\ snapshot \in Configs
  /\ schedCfg \in Configs /\ srvCfg \in Configs
  /\ update \in [phase : Phases, new : Configs]
  /\ main \in Booting \cup {"onboarding", "running", "stopping", "down"}
  /\ sched \in {"off", "subscribing", "cycle", "idle", "over"}
  /\ srv \in {"off", "subscribing", "serving", "over"}
  /\ firstRun \in BOOLEAN /\ onboarded \in BOOLEAN

(* Where an update is, and what that says of memory and disk: they agree   *)
(* but between the rename and the swap.                                    *)
Persisted ==
  /\ disk # NoFile => Valid(disk)
  /\ update.phase # "none" => Valid(update.new)
  /\ update.phase \in {"writing", "renamed"} => update.new.v = cfg.v + 1
  /\ update.phase # "renamed" => cfg = SavedConfig
  /\ update.phase \in {"renamed", "swapped"} => disk = update.new
  /\ cfg = Default \/ Valid(cfg)
  /\ firstRun = (cfg = Default)
  /\ cfg.v <= SavedConfig.v /\ snapshot.v <= SavedConfig.v
  /\ schedCfg.v <= SavedConfig.v /\ srvCfg.v <= SavedConfig.v

(* What a process that began with a file hands to the server is what it    *)
(* began with: no update comes before the server is started.               *)
Booted ==
  /\ main = "onboarding" => onboarded /\ srv = "off"
  /\ main \in {"onboarding", "starting", "starting loop"} => sched = "off"
  /\ main \in Booting => srv = "off" /\ update.phase = "none"
  /\ ~ onboarded =>
       /\ main \in Booting => cfg.listen = initialCfg.listen
       /\ main \in {"starting loop", "starting server"} => snapshot.listen = initialCfg.listen
       /\ srv \in {"subscribing", "serving"} => srvCfg.listen = initialCfg.listen

(* Who is in the bus's list is receiving.                                  *)
Subscribed ==
  /\ "scheduler" \in Listening => sched \in {"cycle", "idle"}
  /\ "subserver" \in Listening => srv = "serving"

(* What may be announced: nothing that is newer than the file.             *)
Announced == {c \in Configs : c.v <= SavedConfig.v} \cup {CycleEvent}

IInv ==
  /\ PlaneTyped
  /\ Persisted
  /\ Booted
  /\ Subscribed
  /\ Delivery(Announced)

(* Each change of a setting or of a source gives a configuration, with the *)
(* same count of updates (service.go:236, source/service.go).              *)
LEMMA ChangedConfigs ==
  ASSUME NEW c \in Configs, NEW d \in Mutations(c) \cup Onboardings(c)
  PROVE  d \in Configs
<1> USE DEF Configs
<1>1. CASE d \in ChangeSetting(c)
  BY <1>1 DEF ChangeSetting
<1>2. CASE d \in AddSource(c)
  <2>1. PICK i \in SourceIDs :
          d = [c EXCEPT !.sources = c.sources \cup {[id |-> i, enabled |-> TRUE]}]
    BY <1>2 DEF AddSource
  <2>2. [id |-> i, enabled |-> TRUE] \in [id : SourceIDs, enabled : BOOLEAN]
    OBVIOUS
  <2>3. QED
    BY <2>1, <2>2
<1>3. CASE d \in ToggleSource(c)
  <2>1. PICK s \in c.sources :
          d = [c EXCEPT !.sources = (c.sources \ {s}) \cup {[s EXCEPT !.enabled = ~ s.enabled]}]
    BY <1>3 DEF ToggleSource
  <2>2. [s EXCEPT !.enabled = ~ s.enabled] \in [id : SourceIDs, enabled : BOOLEAN]
    OBVIOUS
  <2>3. QED
    BY <2>1, <2>2
<1>4. CASE d \in RemoveSource(c)
  BY <1>4 DEF RemoveSource
<1>5. CASE d \in Onboardings(c)
  <2>1. PICK i \in SourceIDs, l \in Listens :
          d = [c EXCEPT !.sources = {[id |-> i, enabled |-> TRUE]}, !.listen = l]
    BY <1>5 DEF Onboardings
  <2> DEFINE added == {[id |-> i, enabled |-> TRUE]}
  <2>2. added \in SUBSET [id : SourceIDs, enabled : BOOLEAN]
    OBVIOUS
  <2>3. d = [c EXCEPT !.sources = added, !.listen = l]
    BY <2>1
  <2> HIDE DEF added
  <2>4. QED
    BY <2>2, <2>3
<1>6. QED
  BY <1>1, <1>2, <1>3, <1>4, <1>5 DEF Mutations

LEMMA SavedFacts ==
  PlaneTyped => /\ SavedConfig \in Configs /\ SavedConfig.v \in Nat
                /\ NoUpdate \in [phase : Phases, new : Configs]
                /\ NoEvent \notin Announced /\ Announced \subseteq Configs \cup {CycleEvent}
BY ControlAssumption DEF PlaneTyped, SavedConfig, NoUpdate, Phases, Configs, Announced

(* What a subscriber receives that is not a cycle's event is a             *)
(* configuration.                                                          *)
LEMMA ReceivedConfig ==
  ASSUME Delivery(Announced), NEW s \in Subscribers, Receive(s),
         Head(channel[s]) # CycleEvent
  PROVE  Head(channel[s]) \in Configs /\ Head(channel[s]).v <= SavedConfig.v
<1>1. channel[s] \in Seq(Announced) /\ channel[s] # <<>>
  BY DEF Delivery, BusTyped, Receive
<1>2. Head(channel[s]) \in Announced
  BY <1>1, HeadTailProperties
<1>3. QED
  BY <1>2 DEF Announced

LEMMA UpdatedConfig ==
  ASSUME NEW c \in Configs, srvCfg \in Configs
  PROVE  /\ UpdateConfig(c) \in Configs
         /\ UpdateConfig(c).v = c.v /\ UpdateConfig(c).listen = srvCfg.listen
BY DEF UpdateConfig, Configs

-----------------------------------------------------------------------------
(* The steps of the control plane.                                         *)

LEMMA PlaneInitially == Init => IInv
<1> SUFFICES ASSUME Init PROVE IInv
  OBVIOUS
<1> USE ControlAssumption DEF Init, Bootstrapped
<1>1. /\ PlaneTyped
      /\ SavedConfig.v = 0
  BY DEF PlaneTyped, SavedConfig, NoUpdate, Phases, Booting
<1>2. Persisted
  BY <1>1 DEF Persisted, SavedConfig, NoUpdate, Valid
<1>3. Booted
  BY DEF Booted, Booting, NoUpdate
<1>4. Listening = {}
  BY EmptyBus DEF InitBus, Listening
<1>5. Delivery(Announced)
  BY DeliveryInitially
<1>6. QED
  BY <1>1, <1>2, <1>3, <1>4, <1>5 DEF IInv, Subscribed

(* Start-up, and the end (main.go).                                        *)
LEMMA StartingKeeps ==
  ASSUME PlaneTyped, Persisted, Booted,
         Restart \/ Starting \/ StartRuntime \/ Shutdown \/ CloseBus
  PROVE  PlaneTyped' /\ Persisted' /\ Booted' /\ SavedConfig' = SavedConfig
<1> USE ControlAssumption DEF Booting, Phases
<1>1. SavedConfig' = SavedConfig
  BY DEF Restart, Starting, ConfigureScheduler, StartLoop, StartServer, StartRuntime,
         Shutdown, CloseBus, cfgVars, SavedConfig
<1>2. SavedConfig \in Configs /\ SavedConfig.v \in Nat /\ Default.v <= SavedConfig.v
  <2>1. SavedConfig \in Configs
    BY DEF SavedConfig, PlaneTyped
  <2>2. \A c \in Configs : c.v \in Nat
    BY DEF Configs
  <2>3. QED
    BY <2>1, <2>2
<1>3. CASE Restart
  <2>1. PlaneTyped'
    BY <1>2, <1>3 DEF Restart, NoUpdate, PlaneTyped
  <2>2. Persisted'
    <3>1. /\ SavedConfig = Default \/ Valid(SavedConfig)
          /\ (disk = NoFile) = (SavedConfig = Default)
      BY DEF SavedConfig, Persisted, Valid
    <3>2. /\ cfg' = SavedConfig /\ firstRun' = (disk = NoFile) /\ update'.phase = "none"
          /\ snapshot' = SavedConfig /\ schedCfg' = SavedConfig /\ srvCfg' = SavedConfig
          /\ disk' = disk
      BY <1>3 DEF Restart, NoUpdate
    <3>3. QED
      BY <1>1, <1>2, <3>1, <3>2 DEF Persisted, Valid
  <2>3. Booted'
    BY <1>3 DEF Restart, NoUpdate, Booted
  <2>4. QED
    BY <1>1, <2>1, <2>2, <2>3
<1>4. CASE ConfigureScheduler
  BY <1>1, <1>4 DEF ConfigureScheduler, cfgVars, srvVars, PlaneTyped, Persisted, Booted, Valid
<1>5. CASE StartLoop
  BY <1>1, <1>5 DEF StartLoop, cfgVars, srvVars, PlaneTyped, Persisted, Booted, Valid
<1>6. CASE StartServer
  <2>1. QED
    BY <1>1, <1>2, <1>6 DEF StartServer, cfgVars, schedVars, PlaneTyped, Persisted, Booted, Valid
<1>7. CASE StartRuntime
  BY <1>1, <1>7 DEF StartRuntime, cfgVars, schedVars, srvVars, PlaneTyped, Persisted, Booted, Valid
<1>8. CASE Shutdown
  BY <1>1, <1>8 DEF Shutdown, cfgVars, schedVars, srvVars, PlaneTyped, Persisted, Booted, Valid
<1>9. CASE CloseBus
  BY <1>1, <1>9 DEF CloseBus, cfgVars, schedVars, srvVars, PlaneTyped, Persisted, Booted, Valid
<1>10. QED
  BY <1>3, <1>4, <1>5, <1>6, <1>7, <1>8, <1>9 DEF Starting

(* An update persists its candidate, swaps it in and announces it          *)
(* (service.go:236-266).                                                   *)
LEMMA UpdatingKeeps ==
  ASSUME PlaneTyped, Persisted, Booted,
         BeginUpdate \/ Persist \/ PersistFails \/ Swap \/ Announce
  PROVE  PlaneTyped' /\ Persisted' /\ Booted' /\ SavedConfig.v <= SavedConfig'.v
<1> USE ControlAssumption DEF Booting, Phases
<1>1. SavedConfig \in Configs /\ SavedConfig.v \in Nat
  <2>1. SavedConfig \in Configs
    BY DEF SavedConfig, PlaneTyped
  <2>2. QED
    BY <2>1 DEF Configs
<1>2. CASE BeginUpdate
  <2>1. PICK c \in Mutations(cfg) \cup Onboardings(cfg) :
          /\ Valid(c) /\ update.phase = "none"
          /\ update' = [phase |-> "writing", new |-> [c EXCEPT !.v = cfg.v + 1]]
          /\ main = "onboarding" \/ main = "running"
    BY <1>2 DEF BeginUpdate
  <2>2. c \in Configs /\ cfg \in Configs
    BY <2>1, ChangedConfigs DEF PlaneTyped
  <2>3. /\ update'.new \in Configs /\ update'.new.v = cfg.v + 1 /\ Valid(update'.new)
        /\ update'.phase = "writing" /\ update' \in [phase : Phases, new : Configs]
    <3>1. cfg.v + 1 \in Nat
      BY <2>2 DEF Configs
    <3>2. /\ [c EXCEPT !.v = cfg.v + 1] \in Configs
          /\ [c EXCEPT !.v = cfg.v + 1].v = cfg.v + 1
          /\ [c EXCEPT !.v = cfg.v + 1].sources = c.sources
      BY <2>2, <3>1 DEF Configs
    <3>3. QED
      BY <2>1, <3>2 DEF Valid
  <2>4. UNCHANGED <<disk, cfg, initialCfg, firstRun, mainVars, schedVars, srvVars>>
    BY <1>2 DEF BeginUpdate
  <2>5. PlaneTyped'
    BY <2>3, <2>4 DEF PlaneTyped, mainVars, schedVars, srvVars
  <2>6. SavedConfig' = SavedConfig
    BY <2>4 DEF SavedConfig
  <2>7. Persisted'
    BY <2>1, <2>3, <2>4, <2>6 DEF Persisted, mainVars, schedVars, srvVars, Valid
  <2>8. Booted'
    BY <2>1, <2>4 DEF Booted, mainVars, schedVars, srvVars
  <2>9. QED
    BY <1>1, <2>5, <2>6, <2>7, <2>8
<1>3. CASE Persist
  <2>1. /\ disk' = update.new /\ update' = [update EXCEPT !.phase = "renamed"]
        /\ UNCHANGED <<cfg, initialCfg, firstRun, mainVars, schedVars, srvVars>>
        /\ update.phase = "writing" /\ update.new \in Configs
    BY <1>3 DEF Persist, PlaneTyped
  <2>2. /\ update'.phase = "renamed" /\ update'.new = update.new
        /\ update' \in [phase : Phases, new : Configs]
    BY <2>1 DEF PlaneTyped
  <2>3. SavedConfig' = update.new /\ cfg = SavedConfig /\ update.new.v = SavedConfig.v + 1
    BY <2>1 DEF SavedConfig, Persisted
  <2>4. PlaneTyped'
    BY <2>1, <2>2 DEF PlaneTyped, mainVars, schedVars, srvVars
  <2>5. Persisted'
    <3>1. cfg.v \in Nat /\ snapshot.v \in Nat /\ schedCfg.v \in Nat /\ srvCfg.v \in Nat
      BY DEF Configs, PlaneTyped
    <3>2. /\ cfg.v <= SavedConfig.v + 1 /\ snapshot.v <= SavedConfig.v + 1
          /\ schedCfg.v <= SavedConfig.v + 1 /\ srvCfg.v <= SavedConfig.v + 1
      BY <1>1, <3>1 DEF Persisted
    <3>3. QED
      BY <2>1, <2>2, <2>3, <3>2 DEF Persisted, mainVars, schedVars, srvVars, Valid
  <2>6. Booted'
    BY <2>1 DEF Booted, mainVars, schedVars, srvVars
  <2>7. QED
    BY <1>1, <2>3, <2>4, <2>5, <2>6
<1>4. CASE PersistFails
  <2>1. /\ update' = NoUpdate /\ update.phase = "writing"
        /\ UNCHANGED <<disk, cfg, initialCfg, firstRun, mainVars, schedVars, srvVars>>
    BY <1>4 DEF PersistFails
  <2>2. SavedConfig' = SavedConfig
    BY <2>1 DEF SavedConfig
  <2>3. /\ update'.phase = "none" /\ update' \in [phase : Phases, new : Configs]
        /\ cfg = SavedConfig
    BY <1>1, <2>1 DEF NoUpdate, Persisted, PlaneTyped
  <2>4. PlaneTyped'
    BY <2>1, <2>3 DEF PlaneTyped, mainVars, schedVars, srvVars
  <2>5. Persisted'
    BY <1>1, <2>1, <2>2, <2>3 DEF Persisted, mainVars, schedVars, srvVars, Valid
  <2>6. Booted'
    BY <2>1, <2>3 DEF Booted, mainVars, schedVars, srvVars
  <2>7. QED
    BY <1>1, <2>2, <2>4, <2>5, <2>6
<1>5. CASE Swap
  <2>1. /\ cfg' = update.new /\ firstRun' = FALSE
        /\ update' = [update EXCEPT !.phase = "swapped"]
        /\ update.phase = "renamed" /\ disk = update.new
        /\ UNCHANGED <<disk, initialCfg, mainVars, schedVars, srvVars>>
    BY <1>5 DEF Swap, Persisted
  <2>2. /\ update'.phase = "swapped" /\ update'.new = update.new
        /\ update' \in [phase : Phases, new : Configs]
    BY <2>1 DEF PlaneTyped
  <2>3. SavedConfig' = SavedConfig /\ SavedConfig = update.new
    BY <2>1 DEF SavedConfig, PlaneTyped
  <2>4. Valid(update.new) /\ update.new # Default
    BY <2>1 DEF Persisted, Valid
  <2>5. Persisted'
    <3>1. cfg' = SavedConfig' /\ cfg'.v <= SavedConfig'.v
      BY <1>1, <2>1, <2>3
    <3>2. QED
      BY <2>1, <2>2, <2>3, <2>4, <3>1 DEF Persisted, mainVars, schedVars, srvVars, Valid
  <2>6. PlaneTyped'
    BY <2>1, <2>2 DEF PlaneTyped, mainVars, schedVars, srvVars
  <2>7. Booted'
    BY <2>1 DEF Booted, mainVars, schedVars, srvVars
  <2>8. QED
    BY <1>1, <2>3, <2>5, <2>6, <2>7
<1>6. CASE Announce
  <2>1. /\ update' = NoUpdate /\ update.phase = "swapped"
        /\ UNCHANGED <<disk, cfg, initialCfg, firstRun, mainVars, schedVars, srvVars>>
    BY <1>6 DEF Announce
  <2>2. SavedConfig' = SavedConfig
    BY <2>1 DEF SavedConfig
  <2>3. /\ update'.phase = "none" /\ update' \in [phase : Phases, new : Configs]
        /\ cfg = SavedConfig
    BY <1>1, <2>1 DEF NoUpdate, Persisted, PlaneTyped
  <2>4. PlaneTyped'
    BY <2>1, <2>3 DEF PlaneTyped, mainVars, schedVars, srvVars
  <2>5. Persisted'
    BY <1>1, <2>1, <2>2, <2>3 DEF Persisted, mainVars, schedVars, srvVars, Valid
  <2>6. Booted'
    BY <2>1, <2>3 DEF Booted, mainVars, schedVars, srvVars
  <2>7. QED
    BY <1>1, <2>2, <2>4, <2>5, <2>6
<1>7. QED
  BY <1>2, <1>3, <1>4, <1>5, <1>6

(* What the loop, the server and the bus may change: they take over what   *)
(* they received, the server not the address it listens on                 *)
(* (scheduler.go:414, server.go:51-61).                                    *)
Working ==
  \/ Scheduling \/ Serving
  \/ \E s \in Subscribers : Moves(s)
  \/ \E p \in Publishers : Publishes(p)

Worked ==
  /\ UNCHANGED <<cfgVars, mainVars>>
  /\ schedCfg' \in Configs /\ schedCfg'.v <= SavedConfig.v
  /\ srvCfg' \in Configs /\ srvCfg'.v <= SavedConfig.v /\ srvCfg'.listen = srvCfg.listen
  /\ sched' \in {"off", "subscribing", "cycle", "idle", "over"}
  /\ sched = "off" => sched' = "off" \/ main = "stopping"
  /\ srv' \in {"off", "subscribing", "serving", "over"}
  /\ srv = "off" => srv' = "off" \/ main = "stopping"
  /\ srv' \in {"subscribing", "serving"} => srv \in {"subscribing", "serving"}

LEMMA WorkingIsWorked ==
  ASSUME PlaneTyped, Persisted, Delivery(Announced), Working
  PROVE  Worked
<1>1. /\ schedCfg \in Configs /\ schedCfg.v <= SavedConfig.v
      /\ srvCfg \in Configs /\ srvCfg.v <= SavedConfig.v
      /\ sched \in {"off", "subscribing", "cycle", "idle", "over"}
      /\ srv \in {"off", "subscribing", "serving", "over"}
  BY DEF PlaneTyped, Persisted
<1>2. "scheduler" \in Subscribers /\ "subserver" \in Subscribers
  BY ControlAssumption
<1>3. CASE SchedulerReceives
  <2>1. schedCfg' \in Configs /\ schedCfg'.v <= SavedConfig.v
    <3>1. CASE Head(channel["scheduler"]) = CycleEvent
      BY <1>1, <1>3, <3>1 DEF SchedulerReceives
    <3>2. CASE Head(channel["scheduler"]) # CycleEvent
      BY <1>2, <1>3, <3>2, ReceivedConfig DEF SchedulerReceives
    <3>3. QED
      BY <3>1, <3>2
  <2>2. QED
    BY <1>1, <1>3, <2>1 DEF SchedulerReceives, srvVars, Worked
<1>4. CASE ServerReceives
  <2>1. srvCfg' \in Configs /\ srvCfg'.v <= SavedConfig.v /\ srvCfg'.listen = srvCfg.listen
    <3>1. CASE Head(channel["subserver"]) = CycleEvent
      BY <1>1, <1>4, <3>1 DEF ServerReceives
    <3>2. CASE Head(channel["subserver"]) # CycleEvent
      <4>1. /\ Head(channel["subserver"]) \in Configs
            /\ Head(channel["subserver"]).v <= SavedConfig.v
        BY <1>2, <1>4, <3>2, ReceivedConfig DEF ServerReceives
      <4>2. srvCfg' = UpdateConfig(Head(channel["subserver"]))
        BY <1>4, <3>2 DEF ServerReceives
      <4>3. QED
        BY <1>1, <4>1, <4>2, UpdatedConfig
    <3>3. QED
      BY <3>1, <3>2
  <2>2. QED
    BY <1>1, <1>4, <2>1 DEF ServerReceives, schedVars, Worked
<1>5. CASE SchedulerSubscribes \/ NextCycle \/ CyclePublishes \/ EndCycle \/ SchedulerStops
  BY <1>1, <1>5 DEF SchedulerSubscribes, NextCycle, BeginCycle, CyclePublishes, EndCycle,
                    SchedulerStops, schedVars, srvVars, Worked
<1>6. CASE ServerSubscribes \/ ServerStops
  BY <1>1, <1>6 DEF ServerSubscribes, ServerStops, schedVars, Worked
<1>7. CASE (\E s \in Subscribers : Moves(s)) \/ (\E p \in Publishers : Publishes(p))
  BY <1>1, <1>7 DEF Moves, Publishes, restOfPlane, schedVars, srvVars, Worked
<1>8. QED
  BY <1>3, <1>4, <1>5, <1>6, <1>7 DEF Working, Scheduling, Serving

LEMMA WorkedKeeps ==
  ASSUME PlaneTyped, Persisted, Booted, Worked
  PROVE  PlaneTyped' /\ Persisted' /\ Booted' /\ SavedConfig' = SavedConfig
<1>1. UNCHANGED <<disk, cfg, initialCfg, firstRun, update, main, snapshot, onboarded>>
  BY DEF Worked, cfgVars, mainVars
<1>2. SavedConfig' = SavedConfig
  BY <1>1 DEF SavedConfig
<1>3. PlaneTyped'
  BY <1>1 DEF Worked, PlaneTyped
<1>4. Persisted'
  BY <1>1, <1>2 DEF Worked, Persisted, Valid
<1>5. Booted'
  BY <1>1 DEF Worked, Booted, Booting
<1>6. QED
  BY <1>2, <1>3, <1>4, <1>5

(* What a step does to the bus.                                            *)
LEMMA PlaneIsBusStep ==
  ASSUME PlaneTyped, Persisted, Next,
         NEW S, Announced \subseteq S
  PROVE  BusStep(S)
<1>1. "scheduler" \in Subscribers /\ "subserver" \in Subscribers
      /\ "tui" \in Publishers /\ "cycle" \in Publishers
  BY ControlAssumption
<1>2. CASE Restart
  BY <1>2 DEF Restart, BusStep
<1>3. CASE Starting \/ StartRuntime \/ Shutdown
  BY <1>3 DEF Starting, ConfigureScheduler, StartLoop, StartServer, StartRuntime, Shutdown,
              BusStep
<1>4. CASE CloseBus
  BY <1>4 DEF CloseBus, BusStep
<1>5. CASE BeginUpdate \/ Persist \/ PersistFails \/ Swap
  BY <1>5 DEF BeginUpdate, Persist, PersistFails, Swap, BusStep
<1>6. CASE Announce
  <2>1. Publish("tui", update.new) /\ update.phase = "swapped"
    BY <1>6 DEF Announce
  <2>2. update.new \in Configs /\ update.new = SavedConfig
    BY <2>1, ControlAssumption DEF PlaneTyped, Persisted, SavedConfig
  <2>3. update.new \in Announced
    BY <2>2 DEF Announced, Configs
  <2>4. QED
    BY <1>1, <2>1, <2>3 DEF BusStep
<1>7. CASE SchedulerSubscribes \/ SchedulerReceives \/ SchedulerStops
  BY <1>1, <1>7 DEF SchedulerSubscribes, SchedulerReceives, SchedulerStops, BusStep
<1>8. CASE NextCycle \/ EndCycle
  BY <1>8 DEF NextCycle, EndCycle, BusStep
<1>9. CASE CyclePublishes
  BY <1>1, <1>9 DEF CyclePublishes, Announced, BusStep
<1>10. CASE Serving
  BY <1>1, <1>10 DEF Serving, ServerSubscribes, ServerReceives, ServerStops, BusStep
<1>11. CASE \E s \in Subscribers : Moves(s)
  BY <1>11 DEF Moves, Move, BusStep
<1>12. CASE \E p \in Publishers : Publishes(p)
  BY <1>12 DEF Publishes, BusStep
<1>13. QED
  BY <1>2, <1>3, <1>4, <1>5, <1>6, <1>7, <1>8, <1>9, <1>10, <1>11, <1>12
     DEF Next, Updating, Scheduling

LEMMA AnnouncedGrows ==
  ASSUME PlaneTyped, PlaneTyped', SavedConfig.v <= SavedConfig'.v
  PROVE  Announced \subseteq Announced'
<1>1. /\ SavedConfig.v \in Nat /\ SavedConfig'.v \in Nat
      /\ \A c \in Configs : c.v \in Nat
  <2>1. SavedConfig \in Configs /\ SavedConfig' \in Configs
    BY ControlAssumption DEF PlaneTyped, SavedConfig
  <2>2. \A c \in Configs : c.v \in Nat
    BY DEF Configs
  <2>3. QED
    BY <2>1, <2>2
<1>2. \A c \in Configs : c.v <= SavedConfig.v => c.v <= SavedConfig'.v
  BY <1>1
<1>3. QED
  BY <1>2 DEF Announced

LEMMA DeliveryOfMore ==
  ASSUME NEW S, NEW T, S \subseteq T, Delivery(S)
  PROVE  Delivery(T)
<1>1. Seq(S) \subseteq Seq(T)
  BY SeqMonotonic
<1>2. QED
  BY <1>1 DEF Delivery, BusTyped

(* Whom the list loses and gains (bus.go:78-163).                          *)
LEMMA ListeningChanges ==
  ASSUME NEW S, Delivery(S)
  PROVE  /\ \A s \in Subscribers : Subscribe(s) => Listening' \subseteq Listening \cup {s}
         /\ \A s \in Subscribers : Unsubscribe(s) => Listening' = Listening \ {s}
         /\ RestartBus \/ Close => Listening' = {}
         /\ order' = order => Listening' = Listening
<1>1. order \in Seq(Subscribers) /\ Injective(order)
  BY DEF Delivery, BusTyped
<1>2. order' = order => Listening' = Listening
  BY DEF Listening
<1>3. ASSUME NEW s \in Subscribers, Subscribe(s)
      PROVE  Listening' \subseteq Listening \cup {s}
  <2>1. CASE busClosed
    BY <1>2, <1>3, <2>1 DEF Subscribe
  <2>2. CASE ~ busClosed
    <3>1. order' = Append(order, s) /\ s \notin Range(order)
      BY <1>3, <2>2 DEF Subscribe, Delivery, Listening
    <3>2. Range(order') = Range(order) \cup {s}
      BY <1>1, <3>1, AppendNew
    <3>3. QED
      BY <3>2 DEF Listening
  <2>3. QED
    BY <2>1, <2>2
<1>4. ASSUME NEW s \in Subscribers, Unsubscribe(s)
      PROVE  Listening' = Listening \ {s}
  <2>1. CASE s \notin Listening
    BY <1>2, <1>4, <2>1 DEF Unsubscribe
  <2>2. CASE s \in Listening
    <3>1. PICK i \in DOMAIN order : order[i] = s /\ order' = RemoveAt(order, i)
      BY <1>4, <2>2 DEF Unsubscribe
    <3>2. QED
      BY <1>1, <3>1, RemovedFromInjective DEF Listening
  <2>3. QED
    BY <2>1, <2>2
<1>5. ASSUME RestartBus \/ Close
      PROVE  Listening' = {}
  BY <1>5, EmptyBus DEF RestartBus, Close, Listening
<1>6. QED
  BY <1>2, <1>3, <1>4, <1>5

(* A subscriber unsubscribes before it is over, and is not in the list     *)
(* before it runs.                                                         *)
LEMMA SubscribedKeeps ==
  ASSUME Booted, Subscribed, NEW S, Delivery(S), Next
  PROVE  Subscribed'
<1> USE DEF Subscribed
<1>1. "scheduler" \in Subscribers /\ "subserver" \in Subscribers
  BY ControlAssumption
<1>2. CASE Restart \/ CloseBus
  BY <1>2, ListeningChanges DEF Restart, CloseBus
<1>3. CASE StartLoop \/ StartServer
  <2>1. Listening' = Listening
    BY <1>3, ListeningChanges DEF StartLoop, StartServer, busVars
  <2>2. QED
    BY <1>3, <2>1 DEF StartLoop, StartServer, schedVars, srvVars, Booted, Booting
<1>4. CASE ConfigureScheduler \/ BeginUpdate \/ Persist \/ PersistFails \/ Swap
           \/ Announce \/ StartRuntime \/ Shutdown \/ CyclePublishes
           \/ (\E s \in Subscribers : Moves(s)) \/ (\E p \in Publishers : Publishes(p))
  <2>1. UNCHANGED <<sched, srv, order>>
    BY <1>4 DEF ConfigureScheduler, BeginUpdate, Persist, PersistFails, Swap, Announce,
                StartRuntime, Shutdown, CyclePublishes, Publish, Moves, Move, Take, Send,
                GiveUp, End, Publishes, PublishTo, restOfPlane, busVars, schedVars, srvVars
  <2>2. QED
    BY <2>1, ListeningChanges
<1>5. CASE NextCycle \/ EndCycle \/ SchedulerReceives \/ ServerReceives
  <2>1. order' = order
    BY <1>5 DEF NextCycle, EndCycle, SchedulerReceives, ServerReceives, Receive, busVars
  <2>2. Listening' = Listening
    BY <2>1, ListeningChanges
  <2>3. QED
    BY <1>5, <2>2 DEF NextCycle, BeginCycle, EndCycle, SchedulerReceives, ServerReceives,
                      schedVars, srvVars
<1>6. CASE SchedulerSubscribes \/ SchedulerStops
  <2>1. /\ srv' = srv
        /\ \/ Listening' \subseteq Listening \cup {"scheduler"} /\ sched' = "cycle"
           \/ Listening' = Listening \ {"scheduler"}
    BY <1>1, <1>6, ListeningChanges DEF SchedulerSubscribes, BeginCycle, SchedulerStops, srvVars
  <2>2. QED
    BY <2>1
<1>7. CASE ServerSubscribes \/ ServerStops
  <2>1. /\ sched' = sched
        /\ \/ Listening' \subseteq Listening \cup {"subserver"} /\ srv' = "serving"
           \/ Listening' = Listening \ {"subserver"}
    BY <1>1, <1>7, ListeningChanges DEF ServerSubscribes, ServerStops, schedVars
  <2>2. QED
    BY <2>1
<1>8. QED
  BY <1>2, <1>3, <1>4, <1>5, <1>6, <1>7 DEF Next, Starting, Updating, Scheduling, Serving

(* The invariant is inductive.                                             *)
LEMMA PlaneStep ==
  ASSUME IInv, [Next]_vars
  PROVE  IInv' /\ SavedConfig.v <= SavedConfig'.v
<1> USE DEF IInv
<1>1. CASE UNCHANGED vars
  <2>1. /\ UNCHANGED <<disk, cfg, initialCfg, firstRun, update, main, snapshot, onboarded,
                       sched, schedCfg, srv, srvCfg>>
        /\ UNCHANGED busVars
    BY <1>1 DEF vars, cfgVars, mainVars, schedVars, srvVars
  <2>2. SavedConfig' = SavedConfig
    BY <2>1 DEF SavedConfig
  <2>3. SavedConfig.v <= SavedConfig'.v /\ Announced' = Announced
    BY <2>2, SavedFacts DEF Announced
  <2>4. Subscribed' /\ Delivery(Announced)'
    BY <2>1, <2>3 DEF Subscribed, Delivery, BusTyped, Listening, busVars
  <2>5. PlaneTyped'
    BY <2>1 DEF PlaneTyped
  <2>6. Persisted'
    BY <2>1, <2>2 DEF Persisted, Valid
  <2>7. Booted'
    BY <2>1 DEF Booted
  <2>8. QED
    BY <2>3, <2>4, <2>5, <2>6, <2>7
<1>2. CASE Next
  <2>1. /\ PlaneTyped' /\ Persisted' /\ Booted' /\ SavedConfig.v <= SavedConfig'.v
    <3>1. SavedConfig' = SavedConfig => SavedConfig.v <= SavedConfig'.v
      BY SavedFacts
    <3>2. CASE Working
      BY <3>1, <3>2, WorkingIsWorked, WorkedKeeps
    <3>3. CASE Restart \/ Starting \/ StartRuntime \/ Shutdown \/ CloseBus
      BY <3>1, <3>3, StartingKeeps
    <3>4. CASE BeginUpdate \/ Persist \/ PersistFails \/ Swap \/ Announce
      BY <3>4, UpdatingKeeps
    <3>5. QED
      BY <1>2, <3>2, <3>3, <3>4 DEF Next, Updating, Working
  <2>2. Subscribed'
    BY <1>2, SubscribedKeeps
  <2>3. PICK T : T = Announced'
    OBVIOUS
  <2>4. Announced \subseteq T /\ NoEvent \notin T
    <3>1. Announced' \subseteq Configs \cup {CycleEvent}
      BY DEF Announced
    <3>2. QED
      BY <2>1, <2>3, <3>1, AnnouncedGrows, ControlAssumption
  <2>5. Delivery(T) /\ BusStep(T)
    BY <1>2, <2>4, DeliveryOfMore, PlaneIsBusStep
  <2>6. Delivery(T)'
    BY <2>4, <2>5, DeliveryPreserved
  <2>7. Delivery(Announced)'
    BY <2>3, <2>6 DEF Delivery, BusTyped
  <2>8. QED
    BY <2>1, <2>2, <2>7
<1>3. QED
  BY <1>1, <1>2

-----------------------------------------------------------------------------
(* What follows.                                                           *)

LEMMA PlaneInvariant == Spec => []IInv
<1>1. IInv /\ [Next]_vars => IInv'
  BY PlaneStep
<1>2. QED
  BY PlaneInitially, <1>1, PTL DEF Spec

(* The bus and the control plane are in one of their states: a channel     *)
(* holds no more than its capacity, who listens is listed once, and a      *)
(* publisher has an event in hand while there is anyone to give it to.     *)
THEOREM PlaneTypeCorrect == Spec => []TypeOK
<1>1. IInv => TypeOK
  <2> SUFFICES ASSUME IInv PROVE TypeOK
    OBVIOUS
  <2> USE DEF IInv
  <2>1. order \in Seq(Subscribers) /\ Injective(order) /\ Listening = Range(order)
    BY DEF Delivery, BusTyped, Listening
  <2>2. Listening \subseteq Subscribers /\ Len(order) = Cardinality(Listening)
    BY <2>1, RangeFacts, InjectiveCounts
  <2>3. BusTypeOK
    BY <2>2 DEF BusTypeOK, Delivery, BusTyped
  <2>4. firstRun \/ Valid(cfg)
    BY DEF Persisted
  <2>5. QED
    BY <2>3, <2>4 DEF TypeOK, PlaneTyped, Phases, Booting, Persisted, Subscribed
<1>2. QED
  BY <1>1, PlaneInvariant, PTL

(* Update persists, then swaps, then announces: wherever the process is    *)
(* killed, the loop and the server run with nothing that is newer than     *)
(* what a restart finds on disk (service.go:236-266).                      *)
THEOREM NothingUnsaved == Spec => []NothingUnsavedIsApplied
<1>1. IInv => NothingUnsavedIsApplied
  <2>1. ASSUME PlaneTyped
        PROVE  SavedConfig.v = IF disk = NoFile THEN 0 ELSE disk.v
    BY ControlAssumption DEF SavedConfig
  <2>2. QED
    BY <2>1 DEF IInv, Persisted, NothingUnsavedIsApplied
<1>2. QED
  BY <1>1, PlaneInvariant, PTL

(* In a process that began with a file, what the TUI lists as waiting for  *)
(* a restart is what the running server does not do yet (service.go:151,   *)
(* server.go:51-61).                                                       *)
THEOREM PendingRestartTruthful == Spec => []PendingRestartIsTruthful
<1>1. IInv => PendingRestartIsTruthful
  <2>1. "listen" \in PendingRestartFields <=> initialCfg.listen # cfg.listen
    BY DEF PendingRestartFields, RequiresRestart
  <2>2. ASSUME IInv, srv = "serving", ~ onboarded
        PROVE  srvCfg.listen = initialCfg.listen
    BY <2>2 DEF IInv, Booted
  <2>3. ASSUME IInv, srv = "serving", ~ onboarded
        PROVE  ("listen" \in PendingRestartFields) = (srvCfg.listen # cfg.listen)
    BY <2>1, <2>2, <2>3
  <2>4. QED
    BY <2>3 DEF PendingRestartIsTruthful
<1>2. QED
  BY <1>1, PlaneInvariant, PTL

(* The count of updates on disk never goes back, through restarts and      *)
(* updates that fail (service.go:236, io.go).                              *)
SavedOnlyGrows == [][SavedConfig.v <= SavedConfig'.v]_vars

THEOREM SavedNeverGoesBack == Spec => SavedOnlyGrows
<1>1. IInv /\ [Next]_vars => [SavedConfig.v <= SavedConfig'.v]_vars
  BY PlaneStep
<1>2. QED
  BY <1>1, PlaneInvariant, PTL DEF Spec, SavedOnlyGrows

(* Every step of the system is one of OrderedBus: while it listens, a      *)
(* subscriber gets every event once and each publisher's in order, and it  *)
(* loses nothing but the rest after it left (bus.go:33-53, 125-142).       *)
THEOREM BusIsOrdered == Spec => ImplementsOrderedBus
<1>1. Init => Bus!Init
  BY NewBusRefines DEF Init, Bootstrapped
<1>2. ASSUME IInv, [Next]_vars
      PROVE  [Bus!Next]_(Bus!abstractVars)
  <2>1. BusStep(Announced)
    BY <1>2, PlaneIsBusStep DEF IInv, BusStep, vars
  <2>2. PICK S : S = Announced
    OBVIOUS
  <2>3. BusStep(S) /\ Delivery(S) /\ NoEvent \notin S
    BY <1>2, <2>1, <2>2, SavedFacts DEF IInv
  <2>4. QED
    BY <2>3, BusStepRefines
<1>3. QED
  BY <1>1, <1>2, PlaneInvariant, PTL DEF Spec, ImplementsOrderedBus, Bus!Spec

=============================================================================
