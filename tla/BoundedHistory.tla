---------------------------- MODULE BoundedHistory ----------------------------
(***************************************************************************)
(* The circular buffer of probe samples every candidate record carries     *)
(* (internal/store/history.go), as the struct it is: a capacity, a count,  *)
(* a start index and a slice of samples.  The variable h is one such       *)
(* buffer over the life of its record: samples are pushed into it, and it  *)
(* is written to the state file and read back when the daemon restarts,    *)
(* possibly by a store configured with another capacity, possibly from a   *)
(* file in an older format, which stored the whole ring, or nothing but an *)
(* array of the samples.                                                   *)
(*                                                                         *)
(* Go slices are indexed from 0 and TLA+ sequences from 1: slot idx of the *)
(* code is h.samples[idx + 1] here.                                        *)
(***************************************************************************)
EXTENDS Integers, Sequences

CONSTANTS
  Sample,       (* the probe samples *)
  NoSample,     (* the zero ProbeSample a fresh slice is filled with *)
  Capacities    (* the values ScoringConfig.HistoryCapacity may have *)

ASSUME CapacitiesAssumption == Capacities \subseteq Nat \ {0}
ASSUME NoSampleAssumption == NoSample \notin Sample

VARIABLE h

vars == h

-----------------------------------------------------------------------------
(* The struct and its well-formedness, the comment of NormalizeAndValidate. *)

Buffer == [capacity : Nat, count : Nat, start : Nat,
           samples : Seq(Sample \cup {NoSample})]

(* The slot of the i-th oldest sample, i from 0. *)
Slot(b, i) == ((b.start + i) % b.capacity) + 1

WellFormed(b) ==
  /\ b.capacity > 0
  /\ Len(b.samples) = b.capacity
  /\ b.count \in 1 .. b.capacity
  /\ b.start < b.capacity
  /\ \A i \in 0 .. b.count - 1 : b.samples[Slot(b, i)] \in Sample

-----------------------------------------------------------------------------
(* The methods of BoundedHistory. *)

Blank(n) == [i \in 1 .. n |-> NoSample]

NewBoundedHistory(capacity) ==
  [capacity |-> capacity, count |-> 0, start |-> 0, samples |-> Blank(capacity)]

ChronologicalSamples(b) == [i \in 1 .. b.count |-> b.samples[Slot(b, i - 1)]]

(* Bug: the newest sample replaces the one after the oldest. *)
PushMovesStartFirst(b, sample) ==
  IF b.count < b.capacity
  THEN [capacity |-> b.capacity, count |-> b.count + 1, start |-> b.start,
        samples  |-> [b.samples EXCEPT ![Slot(b, b.count)] = sample]]
  ELSE [capacity |-> b.capacity, count |-> b.count,
        start    |-> (b.start + 1) % b.capacity,
        samples  |-> [b.samples EXCEPT ![Slot(b, 1)] = sample]]

(* A full ring overwrites its oldest sample and moves its start past it. *)
Push(b, sample) ==
  IF b.count < b.capacity
  THEN [capacity |-> b.capacity, count |-> b.count + 1, start |-> b.start,
        samples  |-> [b.samples EXCEPT ![Slot(b, b.count)] = sample]]
  ELSE [capacity |-> b.capacity, count |-> b.count,
        start    |-> (b.start + 1) % b.capacity,
        samples  |-> [b.samples EXCEPT ![b.start + 1] = sample]]

(* MarshalJSON writes the valid samples only, in order, with no start.     *)
(* UnmarshalJSON reads that, and the whole ring of the older format: a     *)
(* count of 0 beside samples means the count was left out of the file.     *)
MarshalJSON(b) ==
  [capacity |-> b.capacity, count |-> b.count, start |-> 0,
   samples |-> ChronologicalSamples(b)]

UnmarshalJSON(raw) ==
  [capacity |-> raw.capacity, start |-> raw.start, samples |-> raw.samples,
   count    |-> IF raw.count = 0 /\ raw.samples # <<>>
                THEN Len(raw.samples) ELSE raw.count]

(* A bare array is taken for a full ring of that many samples.             *)
UnmarshalArray(samples) ==
  [capacity |-> Len(samples), count |-> Len(samples), start |-> 0, samples |-> samples]

(* Bug: the samples left behind are still counted. *)
RecopiedKeepsCount(b, capacity) ==
  LET held  == IF b.count > Len(b.samples) THEN Len(b.samples) ELSE b.count
      skip  == IF held > capacity THEN held - capacity ELSE 0
      slot(i) == ((b.start + skip + i - 1) % Len(b.samples)) + 1
  IN  [capacity |-> capacity, count |-> held, start |-> 0,
       samples |-> [i \in 1 .. capacity |->
                      IF i <= held - skip THEN b.samples[slot(i)] ELSE NoSample]]

(* The copy loop of NormalizeAndValidate: the samples of b from the        *)
(* skip-th oldest on, at most capacity of them, moved to the front of a    *)
(* slice of that capacity.                                                 *)
Recopied(b, capacity) ==
  LET held  == IF b.count > Len(b.samples) THEN Len(b.samples) ELSE b.count
      skip  == IF held > capacity THEN held - capacity ELSE 0
      first == IF b.start \in 0 .. Len(b.samples) - 1 THEN b.start ELSE 0
      slot(i) == ((first + skip + i - 1) % Len(b.samples)) + 1
  IN  [capacity |-> capacity, count |-> held - skip, start |-> 0,
       samples |-> [i \in 1 .. capacity |->
                      IF i <= held - skip THEN b.samples[slot(i)] ELSE NoSample]]

NormalizeAndValidate(b, maxCapacity) ==
  LET capacity == IF b.capacity \in 1 .. maxCapacity
                  THEN b.capacity ELSE maxCapacity
  IN  IF Len(b.samples) # capacity
      THEN IF b.count > 0 /\ b.samples # <<>>
           THEN Recopied(b, capacity)
           ELSE NewBoundedHistory(capacity)
      ELSE [capacity |-> capacity,
            count    |-> IF b.count < 0 THEN 0
                         ELSE IF b.count > capacity THEN capacity ELSE b.count,
            start    |-> IF b.start \in 0 .. capacity - 1 THEN b.start ELSE 0,
            samples  |-> b.samples]

-----------------------------------------------------------------------------
(* The life of one record's history. *)

(* PutWithTransition creates the record and pushes its first sample. *)
Init ==
  \E capacity \in Capacities, s \in Sample :
    h = Push(NewBoundedHistory(capacity), s)

PushSample(s) == h' = Push(h, s)

(* Save, then Load by a store whose HistoryCapacity is maxCapacity. *)
SaveAndLoad(maxCapacity) ==
  h' = NormalizeAndValidate(UnmarshalJSON(MarshalJSON(h)), maxCapacity)

(* Load of a file in the older format, which held the ring as it was, *)
LoadWholeRing(maxCapacity) ==
  h' = NormalizeAndValidate(UnmarshalJSON(h), maxCapacity)

(* or of one that held the samples alone.                              *)
LoadArray(maxCapacity) ==
  h' = NormalizeAndValidate(UnmarshalArray(ChronologicalSamples(h)), maxCapacity)

Next ==
  \/ \E s \in Sample : PushSample(s)
  \/ \E maxCapacity \in Capacities : SaveAndLoad(maxCapacity)
  \/ \E maxCapacity \in Capacities : LoadWholeRing(maxCapacity)
  \/ \E maxCapacity \in Capacities : LoadArray(maxCapacity)

Spec == Init /\ [][Next]_vars

-----------------------------------------------------------------------------
(* Every history a reader meets satisfies what NormalizeAndValidate's      *)
(* comment promises (history.go 53-57), and holds at least one sample      *)
(* and no zero sample among those it counts.                               *)
TypeOK == h \in Buffer /\ WellFormed(h)

Window == INSTANCE SlidingWindow
            WITH window <- ChronologicalSamples(h), depth <- h.capacity

(* The ring is a sliding window: read in order, it always holds exactly    *)
(* the newest observations, through wrap-around, restarts, all three file  *)
(* formats and a change of the configured capacity.                        *)
RefinesWindow == Window!Spec

=============================================================================
