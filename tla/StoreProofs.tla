----------------------------- MODULE StoreProofs -----------------------------
(***************************************************************************)
(* What holds of the candidate store, in one process and across restarts,  *)
(* for every set of links, every set of probe results that the tester can  *)
(* report, and every capacity, or every capacity up to a stated one.       *)
(*                                                                         *)
(* TypeOK alone is not inductive: that the pending marks agree with the    *)
(* listing while a cycle runs is what makes FinishCycle count the right    *)
(* absences, and that an unlisted candidate keeps a trace of its absence,  *)
(* either a mark or a count, is what keeps it from being served after the  *)
(* cycle has ended or was cancelled.                                       *)
(*                                                                         *)
(* What the score gate promises rests on what the histories hold: reported *)
(* samples, and for every rejection the program must remember a place in   *)
(* the history after which nothing passed.  The score is a recursive       *)
(* function over the samples, and each sample's effect on its distance     *)
(* from the threshold is bounded; an induction over the positions, stated  *)
(* with a set of numbers, carries the bounds to the end of the history.    *)
(***************************************************************************)
EXTENDS DurableStore, SnapshotFile, FiniteSetTheorems, WellFoundedInduction, TLAPS

(* While a cycle runs the marks say exactly what was listed. *)
MarksAgree ==
  running => /\ pendingPresent = listed
             /\ pendingAbsent = Known \ listed

(* An absence leaves a mark or a count, and only listed links are present. *)
AbsenceTraced ==
  /\ pendingPresent \subseteq listed
  /\ \A l \in Known \ listed : l \in pendingAbsent \/ records[l].absentCycles > 0

IInv == TypeOK /\ MarksAgree /\ AbsenceTraced

-----------------------------------------------------------------------------
(* A probe result leaves a sample: the Claude outcome the store fills in   *)
(* for a dead transport is an outcome like any other.                      *)
LEMMA SampleOfType ==
  ASSUME NEW r \in Samples
  PROVE  SampleOf(r) \in Samples
BY DEF SampleOf, Samples, GeminiVerdict, Verdicts

(* Push keeps at least the new sample and at most HistoryCapacity.         *)
LEMMA PushType ==
  ASSUME NEW h \in Seq(Samples), Len(h) <= HistoryCapacity,
         NEW s \in Samples
  PROVE  /\ Push(h, s) \in Seq(Samples)
         /\ Len(Push(h, s)) \in 1 .. HistoryCapacity
<1> DEFINE longer == Append(h, s)
<1>1. HistoryCapacity \in Nat \ {0}
  BY StoreAssumption
<1>2. longer \in Seq(Samples) /\ Len(longer) = Len(h) + 1 /\ Len(h) \in Nat
  OBVIOUS
<1>3. CASE Len(longer) <= HistoryCapacity
  <2>1. Push(h, s) = longer
    BY <1>3 DEF Push
  <2> QED
    BY <1>1, <1>2, <1>3, <2>1
<1>4. CASE ~ (Len(longer) <= HistoryCapacity)
  <2>1. Push(h, s) = SubSeq(longer, 2, HistoryCapacity + 1)
    BY <1>4 DEF Push
  <2>2. Len(longer) = HistoryCapacity + 1
    BY <1>1, <1>2, <1>4
  <2> HIDE DEF longer
  <2>3. SubSeq(longer, 2, HistoryCapacity + 1) \in Seq(Samples)
    BY <1>1, <1>2, <2>2
  <2>4. Len(SubSeq(longer, 2, HistoryCapacity + 1)) = HistoryCapacity
    BY <1>1, <1>2, <2>2
  <2> QED
    BY <1>1, <2>1, <2>3, <2>4
<1> QED
  BY <1>3, <1>4

(* The number of trailing inconclusive samples is a natural number: the    *)
(* positions it counts are finitely many.                                  *)
LEMMA ConsecutiveInconclusiveType ==
  ASSUME NEW h \in Seq(Samples)
  PROVE  ConsecutiveInconclusive(h) \in Nat
<1> DEFINE at == {i \in DOMAIN h :
                    \A j \in i .. Len(h) : h[j].status = "inconclusive"}
<1>1. Len(h) \in Nat /\ DOMAIN h = 1 .. Len(h)
  OBVIOUS
<1>2. IsFiniteSet(1 .. Len(h))
  BY <1>1, FS_Interval
<1>3. at \subseteq 1 .. Len(h)
  BY <1>1
<1>4. IsFiniteSet(at)
  <2> HIDE DEF at
  <2> QED BY <1>2, <1>3, FS_Subset
<1>5. Cardinality(at) \in Nat
  <2> HIDE DEF at
  <2> QED BY <1>4, FS_CardinalityType
<1> QED
  BY <1>5 DEF ConsecutiveInconclusive

(* A record with an absence count that is in range.                        *)
LEMMA WithAbsencesOK ==
  ASSUME NEW rec, RecordOK(rec), NEW n \in 0 .. MaxAbsentCycles
  PROVE  /\ RecordOK(WithAbsences(rec, n))
         /\ WithAbsences(rec, n) # NoRecord
         /\ WithAbsences(rec, n).absentCycles = n
<1>1. WithAbsences(rec, n) \in Records
  BY StoreAssumption DEF WithAbsences, RecordOK, Records
<1> QED
  BY <1>1, NoRecordAssumption DEF WithAbsences, RecordOK

(* The record a probe leaves is well formed and keeps the absence count.   *)
LEMMA ObservedOK ==
  ASSUME NEW rec, NEW r \in Results,
         rec.history \in Seq(Samples), Len(rec.history) <= HistoryCapacity,
         rec.absentCycles \in 0 .. MaxAbsentCycles,
         rec.claude \in Verdicts \cup {NoVerdict}
  PROVE  /\ RecordOK(Observed(rec, r))
         /\ Observed(rec, r) # NoRecord
         /\ Observed(rec, r).absentCycles = rec.absentCycles
<1> DEFINE h == Push(rec.history, SampleOf(r))
           claude == IF r.claude # NoVerdict THEN r.claude ELSE rec.claude
<1>1. r \in Samples
  BY StoreAssumption
<1>2. SampleOf(r) \in Samples
  BY <1>1, SampleOfType
<1>3. h \in Seq(Samples) /\ Len(h) \in 1 .. HistoryCapacity
  BY <1>2, PushType
<1>4. claude \in Verdicts \cup {NoVerdict}
  BY <1>1 DEF Samples
<1> HIDE DEF h, claude
<1>5. ConsecutiveInconclusive(h) \in Nat
  BY <1>3, ConsecutiveInconclusiveType
<1>6. PreviouslyPassed(h) \in BOOLEAN
  BY DEF PreviouslyPassed
<1>7. Observed(rec, r) =
        [history |-> h, absentCycles |-> rec.absentCycles,
         previouslyPassed |-> PreviouslyPassed(h),
         consecutiveInconclusive |-> ConsecutiveInconclusive(h),
         claude |-> claude]
  BY DEF Observed, h, claude
<1>8. rec.absentCycles \in Nat
  BY StoreAssumption
<1>9. Observed(rec, r) \in Records
  BY <1>3, <1>4, <1>5, <1>6, <1>7, <1>8 DEF Records
<1>10. RecordOK(Observed(rec, r))
  BY <1>3, <1>4, <1>5, <1>6, <1>7 DEF RecordOK
<1> QED
  BY <1>7, <1>9, <1>10, NoRecordAssumption

(* A record migrated from a version 1 file is well formed.                 *)
LEMMA MigratedOK ==
  ASSUME NEW f \in LegacyResults
  PROVE  /\ RecordOK(Migrated(f))
         /\ Migrated(f) # NoRecord
<1>1. f \in Legacies /\ f.result \in Samples
  BY StoreAssumption DEF Legacies
<1>2. f.previouslyPassed \in BOOLEAN /\ f.consecutiveInconclusive \in Nat
  BY <1>1 DEF Legacies
<1>3. <<f.result>> \in Seq(Samples) /\ Len(<<f.result>>) = 1
  BY <1>1
<1>4. 1 \in 1 .. HistoryCapacity /\ 0 \in 0 .. MaxAbsentCycles
  BY StoreAssumption
<1>5. Migrated(f) \in Records
  BY <1>2, <1>3 DEF Migrated, Records
<1>6. RecordOK(Migrated(f))
  BY <1>2, <1>3, <1>4 DEF Migrated, RecordOK
<1> QED
  BY <1>5, <1>6, NoRecordAssumption

-----------------------------------------------------------------------------
(* The invariant, one lemma for each operation.                            *)

LEMMA InitIInv == Init => IInv
<1> SUFFICES ASSUME Init PROVE IInv
  OBVIOUS
<1>1. DOMAIN records = Links
  BY DEF Init
<1>2. \A l \in Known : RecordOK(records[l])
  BY MigratedOK DEF Init, Known
<1>3. rejected \subseteq Known \X Services
  BY DEF Init, Services
<1>4. TypeOK
  BY <1>1, <1>2, <1>3 DEF Init, TypeOK
<1> QED
  BY <1>4 DEF Init, IInv, MarksAgree, AbsenceTraced, Known

LEMMA StartCycleIInv ==
  ASSUME IInv, NEW links \in SUBSET Links, StartCycle(links)
  PROVE  IInv'
<1>1. Known' = Known
  BY DEF StartCycle, Known
<1>2. TypeOK'
  BY <1>1 DEF StartCycle, IInv, TypeOK, RecordOK
<1>3. MarksAgree' /\ AbsenceTraced'
  BY <1>1 DEF StartCycle, MarksAgree, AbsenceTraced
<1> QED
  BY <1>2, <1>3 DEF IInv

(* What a result does to the records: its own link is known afterwards, if *)
(* it was not before, and no count of absences changes.                    *)
LEMMA PutRecords ==
  ASSUME IInv, NEW l \in Links, NEW r \in Results, PutWithTransition(l, r)
  PROVE  /\ DOMAIN records' = Links
         /\ Known' = Known \cup {l}
         /\ \A k \in Known' : RecordOK(records'[k])
         /\ \A k \in Known : records'[k].absentCycles = records[k].absentCycles
         /\ l \notin Known => records'[l].absentCycles = 0
<1> DEFINE old == IF records[l] = NoRecord THEN NewRecord ELSE records[l]
<1>1. /\ DOMAIN records' = Links
      /\ records'[l] = Observed(old, r)
      /\ \A k \in Links \ {l} : records'[k] = records[k]
  BY DEF PutWithTransition, IInv, TypeOK
<1>2. /\ old.history \in Seq(Samples)
      /\ Len(old.history) <= HistoryCapacity
      /\ old.absentCycles \in 0 .. MaxAbsentCycles
      /\ old.claude \in Verdicts \cup {NoVerdict}
  <2>1. CASE records[l] = NoRecord
    BY <2>1, StoreAssumption DEF NewRecord
  <2>2. CASE records[l] # NoRecord
    <3>1. RecordOK(records[l])
      BY <2>2 DEF IInv, TypeOK, Known
    <3> QED
      BY <2>2, <3>1 DEF RecordOK
  <2> QED
    BY <2>1, <2>2
<1>3. l \in Known => old = records[l]
  BY DEF Known
<1>4. l \notin Known => old.absentCycles = 0
  BY DEF Known, NewRecord
<1> HIDE DEF old
<1>5. /\ RecordOK(Observed(old, r))
      /\ Observed(old, r) # NoRecord
      /\ Observed(old, r).absentCycles = old.absentCycles
  BY <1>2, ObservedOK
<1>6. Known' = Known \cup {l}
  BY <1>1, <1>5 DEF Known
<1>7. \A k \in Known' : RecordOK(records'[k])
  BY <1>1, <1>5, <1>6 DEF IInv, TypeOK, Known
<1>8. \A k \in Known : records'[k].absentCycles = records[k].absentCycles
  BY <1>1, <1>3, <1>5 DEF Known
<1> QED
  BY <1>1, <1>4, <1>5, <1>6, <1>7, <1>8

LEMMA PutIInv ==
  ASSUME IInv, NEW l \in Links, NEW r \in Results, PutWithTransition(l, r)
  PROVE  IInv'
<1>1. /\ DOMAIN records' = Links
      /\ Known' = Known \cup {l}
      /\ \A k \in Known' : RecordOK(records'[k])
      /\ \A k \in Known : records'[k].absentCycles = records[k].absentCycles
  BY PutRecords
<1>2. /\ running /\ running' = running
      /\ listed' = listed /\ l \in listed
      /\ pendingAbsent' = pendingAbsent \ {l}
      /\ pendingPresent' = pendingPresent \cup {l}
      /\ rejected' = RejectedAfter(l, r)
  BY DEF PutWithTransition
<1>3. rejected' \subseteq Known' \X Services
  BY <1>1, <1>2 DEF RejectedAfter, IInv, TypeOK
<1>4. TypeOK'
  BY <1>1, <1>2, <1>3 DEF IInv, TypeOK
<1>5. MarksAgree'
  BY <1>1, <1>2 DEF IInv, MarksAgree
<1>6. AbsenceTraced'
  BY <1>1, <1>2 DEF IInv, AbsenceTraced
<1> QED
  BY <1>4, <1>5, <1>6 DEF IInv

(* What FinishCycle makes of each known record.                            *)
LEMMA CommittedRecords ==
  ASSUME IInv, running, NEW l \in Known
  PROVE  /\ l \in listed => /\ Committed(l) # NoRecord
                            /\ RecordOK(Committed(l))
                            /\ Committed(l).absentCycles = 0
         /\ l \notin listed /\ records[l].absentCycles = MaxAbsentCycles
              => Committed(l) = NoRecord
         /\ l \notin listed /\ records[l].absentCycles # MaxAbsentCycles
              => /\ Committed(l) # NoRecord
                 /\ RecordOK(Committed(l))
                 /\ Committed(l).absentCycles = records[l].absentCycles + 1
<1> DEFINE n == records[l].absentCycles
<1>1. /\ records[l] # NoRecord
      /\ RecordOK(records[l])
      /\ pendingPresent = listed
      /\ pendingAbsent = Known \ listed
  BY DEF IInv, TypeOK, MarksAgree, Known
<1>2. n \in 0 .. MaxAbsentCycles /\ MaxAbsentCycles \in Nat
  BY <1>1, StoreAssumption DEF RecordOK
<1> HIDE DEF n
<1>3. CASE l \in listed
  <2>1. Committed(l) = WithAbsences(records[l], 0)
    BY <1>1, <1>3 DEF Committed
  <2>2. 0 \in 0 .. MaxAbsentCycles
    BY <1>2
  <2> QED
    BY <1>1, <1>3, <2>1, <2>2, WithAbsencesOK
<1>4. CASE l \notin listed /\ n = MaxAbsentCycles
  <2>1. n + 1 > MaxAbsentCycles
    BY <1>2, <1>4
  <2>2. Committed(l) = NoRecord
    BY <1>1, <1>4, <2>1 DEF Committed, n
  <2> QED
    BY <1>4, <2>2 DEF n
<1>5. CASE l \notin listed /\ n # MaxAbsentCycles
  <2>1. ~ (n + 1 > MaxAbsentCycles) /\ n + 1 \in 0 .. MaxAbsentCycles
    BY <1>2, <1>5
  <2>2. Committed(l) = WithAbsences(records[l], n + 1)
    BY <1>1, <1>5, <2>1 DEF Committed, n
  <2> QED
    BY <1>1, <1>5, <2>1, <2>2, WithAbsencesOK DEF n
<1> QED
  BY <1>3, <1>4, <1>5 DEF n

LEMMA FinishCycleIInv ==
  ASSUME IInv, FinishCycle
  PROVE  IInv'
<1>1. /\ running /\ running' = FALSE
      /\ records' = [l \in Links |-> Committed(l)]
      /\ pendingAbsent' = {} /\ pendingPresent' = {}
      /\ rejected' = {p \in rejected : Committed(p[1]) # NoRecord}
      /\ listed' = listed
  BY DEF FinishCycle
<1>2. Known' = {l \in Known : Committed(l) # NoRecord}
  BY <1>1 DEF Known, Committed
<1>3. \A l \in Known' : RecordOK(records'[l])
  BY <1>1, <1>2, CommittedRecords DEF Known
<1>4. rejected' \subseteq Known' \X Services
  BY <1>1, <1>2 DEF IInv, TypeOK
<1>5. TypeOK'
  BY <1>1, <1>3, <1>4 DEF IInv, TypeOK
<1>6. ASSUME NEW l \in Known' \ listed
      PROVE  records'[l].absentCycles > 0
  <2>1. l \in Known /\ l \in Links /\ records'[l] = Committed(l) /\ Committed(l) # NoRecord
    BY <1>1, <1>2, <1>6 DEF Known
  <2>2. Committed(l).absentCycles = records[l].absentCycles + 1
    BY <1>1, <1>6, <2>1, CommittedRecords
  <2>3. records[l].absentCycles \in Nat
    BY <2>1, StoreAssumption DEF IInv, TypeOK, RecordOK
  <2> QED
    BY <2>1, <2>2, <2>3
<1>7. MarksAgree' /\ AbsenceTraced'
  BY <1>1, <1>6 DEF MarksAgree, AbsenceTraced
<1> QED
  BY <1>5, <1>7 DEF IInv

(* The inductive step: one case for each disjunct of Next. *)
LEMMA NextIInv == IInv /\ [Next]_vars => IInv'
<1> SUFFICES ASSUME IInv, [Next]_vars PROVE IInv'
  OBVIOUS
<1>1. CASE \E links \in SUBSET Links : StartCycle(links)
  BY <1>1, StartCycleIInv
<1>2. CASE \E l \in Links, r \in Results : PutWithTransition(l, r)
  BY <1>2, PutIInv
<1>3. CASE FinishCycle
  BY <1>3, FinishCycleIInv
<1>4. CASE CancelCycle
  BY <1>4 DEF CancelCycle, IInv, TypeOK, RecordOK, MarksAgree, AbsenceTraced, Known
<1>5. CASE UNCHANGED vars
  BY <1>5 DEF vars, IInv, TypeOK, RecordOK, MarksAgree, AbsenceTraced, Known
<1> QED
  BY <1>1, <1>2, <1>3, <1>4, <1>5 DEF Next

LEMMA Inductive == Spec => []IInv
BY InitIInv, NextIInv, PTL DEF Spec

(* Every record the store holds is well formed, whatever cycles ran, were  *)
(* cut short or overlapped an absence (store.go 1898-2121).                *)
THEOREM StoreTypeOK == Spec => []TypeOK
<1>1. IInv => TypeOK
  BY DEF IInv
<1> QED
  BY <1>1, Inductive, PTL

-----------------------------------------------------------------------------
(* Presence. *)

(* In a state of the invariant the presence gate lets no unlisted          *)
(* candidate through.                                                      *)
LEMMA PresenceGate ==
  ASSUME IInv, NEW l \in Known, ~ IsAbsent(l)
  PROVE  l \in listed
BY DEF IsAbsent, IInv, AbsenceTraced

LEMMA ListedServed == IInv => ServedIsListed
<1> SUFFICES ASSUME IInv PROVE ServedIsListed
  OBVIOUS
<1>1. ASSUME NEW l \in Links, NEW service, Servable(l, service)
      PROVE  l \in listed
  BY <1>1, PresenceGate DEF Servable
<1>2. ASSUME NEW l \in Links, NetworkHealthy(l)
      PROVE  l \in listed
  BY <1>1, <1>2, PresenceGate DEF NetworkHealthy
<1> QED
  BY <1>1, <1>2 DEF ServedIsListed, PassingFor, NetworkPassing

(* A subscription never holds a candidate that the newest StartCycle did   *)
(* not list: not during the cycle, not after it, not when it was cancelled *)
(* (isAbsentLocked, store.go 189-203).                                     *)
THEOREM NothingUnlistedServed == Spec => []ServedIsListed
BY Inductive, ListedServed, PTL

-----------------------------------------------------------------------------
(* Retention. *)

(* The abstract count of link l: its absences, or what a forgotten         *)
(* candidate has. *)
Missed(l) == IF l \in Known THEN records[l].absentCycles ELSE MaxAbsentCycles + 1

(* A known candidate is never one that should have been forgotten.         *)
LEMMA MissedKnown ==
  ASSUME IInv, NEW l \in Known
  PROVE  Missed(l) = records[l].absentCycles /\ Missed(l) # MaxAbsentCycles + 1
<1>1. records[l].absentCycles \in 0 .. MaxAbsentCycles /\ MaxAbsentCycles \in Nat
  BY StoreAssumption DEF IInv, TypeOK, RecordOK
<1> QED
  BY <1>1 DEF Missed

LEMMA RetentionInit == Init => Retention!Init
<1> SUFFICES ASSUME Init PROVE Retention!Init
  OBVIOUS
<1>1. \A l \in Links : Missed(l) \in {0, MaxAbsentCycles + 1}
  BY DEF Init, Known, Missed, Migrated
<1> QED
  BY <1>1 DEF Init, Missed, Retention!Init, Retention!Forgotten

LEMMA RetentionPut ==
  ASSUME IInv, NEW l \in Links, NEW r \in Results, PutWithTransition(l, r)
  PROVE  Retention!Observe(l)
<1>1. /\ Known' = Known \cup {l}
      /\ \A k \in Known : records'[k].absentCycles = records[k].absentCycles
      /\ l \notin Known => records'[l].absentCycles = 0
  BY PutRecords
<1>2. \A k \in Links \ {l} : Missed(k)' = Missed(k)
  BY <1>1 DEF Missed
<1>3. Missed(l)' = IF Missed(l) = MaxAbsentCycles + 1 THEN 0 ELSE Missed(l)
  BY <1>1, MissedKnown DEF Missed
<1>4. [k \in Links |-> Missed(k)]' =
        [[k \in Links |-> Missed(k)] EXCEPT
           ![l] = IF @ = MaxAbsentCycles + 1 THEN 0 ELSE @]
  BY <1>2, <1>3
<1>5. running /\ l \in listed /\ UNCHANGED <<running, listed>>
  BY DEF PutWithTransition
<1> QED
  BY <1>4, <1>5 DEF Retention!Observe, Retention!Forgotten, Missed

LEMMA RetentionFinish ==
  ASSUME IInv, FinishCycle
  PROVE  Retention!Complete
<1>1. /\ running /\ running' = FALSE
      /\ records' = [l \in Links |-> Committed(l)]
      /\ listed' = listed
  BY DEF FinishCycle
<1>2. ASSUME NEW l \in Links
      PROVE  Missed(l)' = IF Missed(l) = MaxAbsentCycles + 1
                          THEN MaxAbsentCycles + 1
                          ELSE IF l \in listed THEN 0 ELSE Missed(l) + 1
  <2>1. l \in Known' <=> Committed(l) # NoRecord
    BY <1>1, <1>2 DEF Known
  <2>2. records'[l] = Committed(l)
    BY <1>1, <1>2
  <2>3. CASE l \notin Known
    <3>1. Committed(l) = NoRecord
      BY <1>2, <2>3 DEF Committed, Known
    <3> QED
      BY <2>1, <2>3, <3>1 DEF Missed
  <2>4. CASE l \in Known
    <3>1. Missed(l) = records[l].absentCycles /\ Missed(l) # MaxAbsentCycles + 1
      BY <2>4, MissedKnown
    <3>2. CASE l \in listed
      <4>1. Committed(l) # NoRecord /\ Committed(l).absentCycles = 0
        BY <1>1, <2>4, <3>2, CommittedRecords
      <4> QED
        BY <2>1, <2>2, <3>1, <3>2, <4>1 DEF Missed
    <3>3. CASE l \notin listed /\ records[l].absentCycles = MaxAbsentCycles
      <4>1. Committed(l) = NoRecord
        BY <1>1, <2>4, <3>3, CommittedRecords
      <4>2. Missed(l)' = MaxAbsentCycles + 1
        BY <2>1, <4>1 DEF Missed
      <4> QED
        BY <3>1, <3>3, <4>2
    <3>4. CASE l \notin listed /\ records[l].absentCycles # MaxAbsentCycles
      <4>1. /\ Committed(l) # NoRecord
            /\ Committed(l).absentCycles = records[l].absentCycles + 1
        BY <1>1, <2>4, <3>4, CommittedRecords
      <4>2. Missed(l)' = records[l].absentCycles + 1
        BY <2>1, <2>2, <4>1 DEF Missed
      <4> QED
        BY <3>1, <3>4, <4>2
    <3> QED
      BY <3>2, <3>3, <3>4
  <2> QED
    BY <2>3, <2>4
<1>3. [l \in Links |-> Missed(l)]' =
        [l \in Links |-> IF [k \in Links |-> Missed(k)][l] = MaxAbsentCycles + 1
                         THEN MaxAbsentCycles + 1
                         ELSE IF l \in listed THEN 0
                         ELSE [k \in Links |-> Missed(k)][l] + 1]
  BY <1>2
<1> QED
  BY <1>1, <1>3 DEF Retention!Complete, Retention!Forgotten, Missed

(* The store remembers a candidate exactly as long, and with exactly the   *)
(* count of absences, that CandidateRetention says: a cycle cut short      *)
(* neither counts an absence nor forgives one (store.go 2045-2121).        *)
THEOREM StoreRetains == Spec => ImplementsRetention
<1>1. Init => Retention!Init
  BY RetentionInit
<1>2. IInv /\ [Next]_vars => [Retention!Next]_(Retention!vars)
  <2> SUFFICES ASSUME IInv, [Next]_vars PROVE [Retention!Next]_(Retention!vars)
    OBVIOUS
  <2>1. CASE \E links \in SUBSET Links : StartCycle(links)
    <3>1. PICK links \in SUBSET Links : StartCycle(links)
      BY <2>1
    <3>2. Retention!Begin(links)
      BY <3>1 DEF StartCycle, Known, Retention!Begin
    <3> QED
      BY <3>2 DEF Retention!Next
  <2>2. CASE \E l \in Links, r \in Results : PutWithTransition(l, r)
    BY <2>2, RetentionPut DEF Retention!Next
  <2>3. CASE FinishCycle
    BY <2>3, RetentionFinish DEF Retention!Next
  <2>4. CASE CancelCycle
    <3>1. Retention!Abandon
      BY <2>4 DEF CancelCycle, Known, Retention!Abandon
    <3> QED
      BY <3>1 DEF Retention!Next
  <2>5. CASE UNCHANGED vars
    BY <2>5 DEF vars, Known, Retention!vars
  <2> QED
    BY <2>1, <2>2, <2>3, <2>4, <2>5 DEF Next
<1> QED
  BY <1>1, <1>2, Inductive, PTL DEF Spec, ImplementsRetention, Retention!Spec

-----------------------------------------------------------------------------
(* Restarts. *)

(* What a loaded record must agree on with the saved one: its newest       *)
(* sample's Claude outcome is the stored one, unless Put filled it in for  *)
(* a failure that counts against every service.                            *)
ClaudeAgrees(rec) ==
  LET s == Last(rec.history)
  IN  s.claude # NoVerdict /\ ~ FailsEveryService(s) => rec.claude = s.claude

(* Only a migrated record that was never probed is in the grace.           *)
Graceful(rec) ==
  InGrace(rec) => \E f \in LegacyResults :
                    /\ InGrace(Migrated(f))
                    /\ rec.history = <<f.result>>

(* The records of the store or of a snapshot.                              *)
RecordsOK(recs) ==
  /\ DOMAIN recs = Links
  /\ \A l \in Links : recs[l] # NoRecord =>
       /\ RecordOK(recs[l])
       /\ ClaudeAgrees(recs[l])
       /\ Graceful(recs[l])

(* The snapshot on disk is the store as it was when it was saved.          *)
SnapshotOK ==
  /\ RecordsOK(disk.records)
  /\ disk.rejected \subseteq {l \in Links : disk.records[l] # NoRecord} \X Services
  /\ disk.served = ServedAtRest(disk.records)

DurableIInv == IInv /\ RecordsOK(records) /\ SnapshotOK

(* The newest sample of a window that takes one more is that sample.       *)
LEMMA LastPushed ==
  ASSUME NEW h \in Seq(Samples), Len(h) <= HistoryCapacity,
         NEW s \in Samples
  PROVE  Last(Push(h, s)) = s
<1> DEFINE longer == Append(h, s)
<1>1. HistoryCapacity \in Nat \ {0}
  BY StoreAssumption
<1>2. /\ longer \in Seq(Samples) /\ Len(longer) = Len(h) + 1 /\ Len(h) \in Nat
      /\ longer[Len(h) + 1] = s
  OBVIOUS
<1>3. CASE Len(longer) <= HistoryCapacity
  <2>1. Push(h, s) = longer
    BY <1>3 DEF Push
  <2> QED
    BY <1>2, <2>1 DEF Last
<1>4. CASE ~ (Len(longer) <= HistoryCapacity)
  <2>1. Push(h, s) = SubSeq(longer, 2, HistoryCapacity + 1)
    BY <1>4 DEF Push
  <2>2. Len(longer) = HistoryCapacity + 1 /\ longer[HistoryCapacity + 1] = s
    BY <1>1, <1>2, <1>4
  <2> HIDE DEF longer
  <2>3. /\ Len(SubSeq(longer, 2, HistoryCapacity + 1)) = HistoryCapacity
        /\ SubSeq(longer, 2, HistoryCapacity + 1)[HistoryCapacity]
             = longer[HistoryCapacity + 1]
    BY <1>1, <1>2, <2>2
  <2> QED
    BY <2>1, <2>2, <2>3 DEF Last
<1> QED
  BY <1>3, <1>4

(* What Put and Load compute from the history is never the grace: it needs *)
(* a single sample, inconclusive, and a conclusive one before it.          *)
LEMMA ComputedHasNoGrace ==
  ASSUME NEW rec, rec.history \in Seq(Samples),
         rec.previouslyPassed <=> PreviouslyPassed(rec.history)
  PROVE  ~ InGrace(rec)
<1> SUFFICES ASSUME InGrace(rec) PROVE FALSE
  OBVIOUS
<1>1. /\ Len(rec.history) = 1
      /\ rec.history[1].status = "inconclusive"
      /\ PreviouslyPassed(rec.history)
  BY DEF InGrace, Last
<1>2. DOMAIN rec.history = {1}
  BY <1>1
<1>3. ConclusiveFor(rec.history, "gemini") = {}
  BY <1>1, <1>2 DEF ConclusiveFor
<1> QED
  BY <1>1, <1>3 DEF PreviouslyPassed

LEMMA ObservedAgrees ==
  ASSUME NEW rec, NEW r \in Results,
         rec.history \in Seq(Samples), Len(rec.history) <= HistoryCapacity
  PROVE  ClaudeAgrees(Observed(rec, r)) /\ Graceful(Observed(rec, r))
<1> DEFINE h == Push(rec.history, SampleOf(r))
<1>1. r \in Samples /\ SampleOf(r) \in Samples
  BY StoreAssumption, SampleOfType
<1>2. h \in Seq(Samples) /\ Last(h) = SampleOf(r)
  BY <1>1, PushType, LastPushed
<1>3. /\ Observed(rec, r).history = h
      /\ Observed(rec, r).previouslyPassed = PreviouslyPassed(h)
      /\ Observed(rec, r).claude = IF r.claude # NoVerdict THEN r.claude ELSE rec.claude
  BY DEF Observed
<1> HIDE DEF h
<1>4. ~ InGrace(Observed(rec, r))
  BY <1>2, <1>3, ComputedHasNoGrace
<1>5. SampleOf(r).claude # NoVerdict /\ ~ FailsEveryService(SampleOf(r))
        => SampleOf(r).claude = r.claude /\ r.claude # NoVerdict
  BY DEF SampleOf, FailsEveryService
<1> QED
  BY <1>2, <1>3, <1>4, <1>5 DEF ClaudeAgrees, Graceful

LEMMA MigratedAgrees ==
  ASSUME NEW f \in LegacyResults
  PROVE  ClaudeAgrees(Migrated(f)) /\ Graceful(Migrated(f))
<1>1. f.result.claude = NoVerdict
  BY StoreAssumption DEF Legacies
<1>2. Migrated(f).history = <<f.result>> /\ Last(Migrated(f).history) = f.result
  BY DEF Migrated, Last
<1> QED
  BY <1>1, <1>2 DEF ClaudeAgrees, Graceful

LEMMA WithAbsencesAgrees ==
  ASSUME NEW rec, NEW n, ClaudeAgrees(rec), Graceful(rec)
  PROVE  ClaudeAgrees(WithAbsences(rec, n)) /\ Graceful(WithAbsences(rec, n))
<1>1. /\ WithAbsences(rec, n).history = rec.history
      /\ WithAbsences(rec, n).claude = rec.claude
      /\ WithAbsences(rec, n).previouslyPassed = rec.previouslyPassed
      /\ WithAbsences(rec, n).consecutiveInconclusive = rec.consecutiveInconclusive
  BY DEF WithAbsences
<1>2. InGrace(WithAbsences(rec, n)) <=> InGrace(rec)
  BY <1>1 DEF InGrace
<1> QED
  BY <1>1, <1>2 DEF ClaudeAgrees, Graceful

(* A loaded record: well formed, without grace, and known.                 *)
LEMMA ReloadedOK ==
  ASSUME NEW rec, RecordOK(rec)
  PROVE  /\ RecordOK(Reloaded(rec))
         /\ Reloaded(rec) # NoRecord
         /\ ClaudeAgrees(Reloaded(rec))
         /\ ~ InGrace(Reloaded(rec))
<1> DEFINE h == rec.history
           newest == Last(h).claude
           claude == IF newest # NoVerdict THEN newest ELSE rec.claude
<1>1. /\ h \in Seq(Samples) /\ Len(h) \in 1 .. HistoryCapacity
      /\ rec.absentCycles \in 0 .. MaxAbsentCycles
      /\ rec.claude \in Verdicts \cup {NoVerdict}
  BY DEF RecordOK
<1>2. Last(h) \in Samples
  <2>1. Len(h) \in 1 .. Len(h)
    BY <1>1, StoreAssumption
  <2> QED
    BY <1>1, <2>1 DEF Last
<1>3. claude \in Verdicts \cup {NoVerdict}
  BY <1>1, <1>2 DEF Samples
<1>4. PreviouslyPassed(h) \in BOOLEAN /\ ConsecutiveInconclusive(h) \in Nat
  BY <1>1, ConsecutiveInconclusiveType DEF PreviouslyPassed
<1>5. Reloaded(rec) =
        [history |-> h, absentCycles |-> rec.absentCycles,
         previouslyPassed |-> PreviouslyPassed(h),
         consecutiveInconclusive |-> ConsecutiveInconclusive(h),
         claude |-> claude]
  BY DEF Reloaded
<1>6. newest # NoVerdict => claude = newest
  OBVIOUS
<1> HIDE DEF h, claude
<1>7. rec.absentCycles \in Nat
  BY <1>1, StoreAssumption
<1>8. Reloaded(rec) \in Records
  BY <1>1, <1>3, <1>4, <1>5, <1>7 DEF Records
<1>9. RecordOK(Reloaded(rec))
  BY <1>1, <1>3, <1>4, <1>5 DEF RecordOK
<1>10. ~ InGrace(Reloaded(rec))
  BY <1>1, <1>5, ComputedHasNoGrace
<1>11. ClaudeAgrees(Reloaded(rec))
  BY <1>5, <1>6 DEF ClaudeAgrees
<1> QED
  BY <1>8, <1>9, <1>10, <1>11, NoRecordAssumption

(* The same gates let a record through before and after it was saved and   *)
(* loaded, but for the grace.                                              *)
LEMMA ReloadedGates ==
  ASSUME NEW rec, RecordOK(rec), ClaudeAgrees(rec), NEW service \in Services
  PROVE  /\ PassesGates(Reloaded(rec), service) => PassesGates(rec, service)
         /\ ~ InGrace(rec) /\ PassesGates(rec, service)
              => PassesGates(Reloaded(rec), service)
<1> DEFINE new == Reloaded(rec)
<1>1. new.history = rec.history
  BY DEF Reloaded
<1>2. new.claude = IF Last(rec.history).claude # NoVerdict
                   THEN Last(rec.history).claude ELSE rec.claude
  BY DEF Reloaded
<1>3. ~ InGrace(new)
  BY ReloadedOK
<1> HIDE DEF new
<1>4. PolicyRejects(new, service) <=> PolicyRejects(rec, service)
  <2>1. CASE ConclusiveFor(rec.history, service) # {}
    BY <1>1, <2>1 DEF PolicyRejects
  <2>2. CASE ConclusiveFor(rec.history, service) = {} /\ service = "gemini"
    BY <1>1, <2>2 DEF PolicyRejects
  <2>3. CASE ConclusiveFor(rec.history, service) = {} /\ service = "claude"
    <3>1. Len(rec.history) \in DOMAIN rec.history
      BY StoreAssumption DEF RecordOK
    <3>2. ~ FailsEveryService(Last(rec.history))
      BY <2>3, <3>1 DEF ConclusiveFor, Last
    <3>3. new.claude = rec.claude
      BY <1>2, <3>2 DEF ClaudeAgrees
    <3> QED
      BY <1>1, <2>3, <3>3 DEF PolicyRejects
  <2> QED
    BY <2>1, <2>2, <2>3 DEF Services
<1> QED
  BY <1>1, <1>3, <1>4 DEF PassesGates, new

(* So a loaded record is in no subscription the saved one was not in, and  *)
(* out of none unless the saved one was in the grace.                      *)
LEMMA ReloadedServes ==
  ASSUME NEW rec, RecordOK(rec), ClaudeAgrees(rec)
  PROVE  /\ Serves(Reloaded(rec)) \subseteq Serves(rec)
         /\ ~ InGrace(rec) => Serves(Reloaded(rec)) = Serves(rec)
<1>1. Reloaded(rec).history = rec.history
  BY DEF Reloaded
<1>2. TransportHealthy(Reloaded(rec)) <=> TransportHealthy(rec)
  BY <1>1 DEF TransportHealthy
<1>3. \A service \in Services :
        /\ PassesGates(Reloaded(rec), service) => PassesGates(rec, service)
        /\ ~ InGrace(rec) /\ PassesGates(rec, service)
             => PassesGates(Reloaded(rec), service)
  BY ReloadedGates
<1>4. "gemini" \in Services
  BY DEF Services
<1> QED
  BY <1>1, <1>2, <1>3, <1>4 DEF Serves

(* No cycle has left a mark. *)
AtRest == /\ pendingAbsent = {} /\ pendingPresent = {}
          /\ \A l \in Known : RecordOK(records[l])

(* Then the subscriptions hold what the records say.                       *)
LEMMA ServingAtRest == AtRest => Serving = ServedAtRest(records)
<1> SUFFICES ASSUME AtRest PROVE Serving = ServedAtRest(records)
  OBVIOUS
<1>1. ASSUME NEW l \in Links, records[l] # NoRecord
      PROVE  ~ IsAbsent(l) <=> records[l].absentCycles = 0
  <2>1. records[l].absentCycles \in Nat
    BY <1>1, StoreAssumption DEF AtRest, Known, RecordOK
  <2> QED
    BY <2>1 DEF AtRest, IsAbsent
<1>2. ASSUME NEW l \in Links, NEW service \in Services
      PROVE  Servable(l, service) <=>
               /\ records[l] # NoRecord
               /\ records[l].absentCycles = 0
               /\ PassesGates(records[l], service)
  BY <1>1, <1>2 DEF Servable, Known
<1>3. \A l \in Links : \A service \in Services :
        service \in Serves(records[l]) <=> PassesGates(records[l], service)
  BY DEF Serves, Services
<1>4. ASSUME NEW l \in Links
      PROVE  l \in NetworkPassing <=>
               /\ records[l] # NoRecord
               /\ records[l].absentCycles = 0
               /\ "generic" \in Serves(records[l])
  <2>1. Servable(l, "gemini") <=>
               /\ records[l] # NoRecord
               /\ records[l].absentCycles = 0
               /\ PassesGates(records[l], "gemini")
    BY <1>2 DEF Services
  <2>2. "generic" \in Serves(records[l]) <=>
          \/ PassesGates(records[l], "gemini")
          \/ /\ Len(records[l].history) >= MinObservationsForServing
             /\ TransportHealthy(records[l])
    BY DEF Serves, Services
  <2> QED
    BY <1>1, <2>1, <2>2 DEF NetworkPassing, NetworkHealthy, Known
<1>5. ASSUME NEW p \in Links \X (Services \cup {"generic"})
      PROVE  p \in Serving <=> p \in ServedAtRest(records)
  <2>1. p[1] \in Links
    OBVIOUS
  <2>2. CASE p[2] = "generic"
    BY <1>4, <2>1, <2>2 DEF Serving, ServedAtRest
  <2>3. CASE p[2] \in Services /\ p[2] # "generic"
    <3>1. Servable(p[1], p[2]) <=> /\ records[p[1]] # NoRecord
                                   /\ records[p[1]].absentCycles = 0
                                   /\ p[2] \in Serves(records[p[1]])
      BY <1>2, <1>3, <2>1, <2>3
    <3> QED
      BY <2>3, <3>1 DEF Serving, ServedAtRest
  <2> QED
    BY <2>2, <2>3
<1>6. Serving \subseteq Links \X (Services \cup {"generic"})
  BY DEF Serving
<1>7. ServedAtRest(records) \subseteq Links \X (Services \cup {"generic"})
  BY DEF ServedAtRest
<1> QED
  BY <1>5, <1>6, <1>7

-----------------------------------------------------------------------------
(* The invariant of the durable store.                                     *)

LEMMA InitDurable == DurableInit => DurableIInv
<1> SUFFICES ASSUME DurableInit PROVE DurableIInv
  OBVIOUS
<1>1. Init /\ disk = Snapshot(1)
  BY DEF DurableInit
<1>2. IInv
  BY <1>1, InitIInv
<1>3. RecordsOK(records)
  BY <1>1, MigratedOK, MigratedAgrees DEF Init, RecordsOK
<1>4. SnapshotOK
  BY <1>1, <1>2, <1>3 DEF Snapshot, SnapshotOK, IInv, TypeOK, Known
<1> QED
  BY <1>2, <1>3, <1>4 DEF DurableIInv

(* A cycle's operations keep what Load relies on.                          *)
LEMMA NextRecords ==
  ASSUME IInv, RecordsOK(records), Next, IInv'
  PROVE  RecordsOK(records')
<1>1. \A l \in Links : records'[l] # NoRecord => RecordOK(records'[l])
  BY DEF IInv, TypeOK, Known
<1>2. DOMAIN records' = Links
  BY DEF IInv, TypeOK
<1>3. ASSUME NEW l \in Links, records'[l] # NoRecord
      PROVE  ClaudeAgrees(records'[l]) /\ Graceful(records'[l])
  <2>1. CASE records' = records
    BY <1>3, <2>1 DEF RecordsOK
  <2>2. ASSUME NEW k \in Links, NEW r \in Results, PutWithTransition(k, r)
        PROVE  ClaudeAgrees(records'[l]) /\ Graceful(records'[l])
    <3> DEFINE old == IF records[k] = NoRecord THEN NewRecord ELSE records[k]
    <3>1. /\ records'[k] = Observed(old, r)
          /\ l # k => records'[l] = records[l]
      BY <2>2 DEF PutWithTransition, IInv, TypeOK
    <3>2. old.history \in Seq(Samples) /\ Len(old.history) <= HistoryCapacity
      <4>1. CASE records[k] = NoRecord
        BY <4>1, StoreAssumption DEF NewRecord
      <4>2. CASE records[k] # NoRecord
        <5>1. RecordOK(records[k])
          BY <4>2 DEF RecordsOK
        <5> QED
          BY <4>2, <5>1, StoreAssumption DEF RecordOK
      <4> QED
        BY <4>1, <4>2
    <3> HIDE DEF old
    <3> QED
      BY <1>3, <3>1, <3>2, ObservedAgrees DEF RecordsOK
  <2>3. CASE FinishCycle
    <3>1. records'[l] = Committed(l)
      BY <1>3, <2>3 DEF FinishCycle
    <3>2. records[l] # NoRecord
      BY <1>3, <3>1 DEF Committed
    <3>3. \/ records'[l] = records[l]
          \/ \E n \in {0, records[l].absentCycles + 1} :
               records'[l] = WithAbsences(records[l], n)
      BY <1>3, <3>1, <3>2 DEF Committed
    <3>4. ClaudeAgrees(records[l]) /\ Graceful(records[l])
      BY <1>3, <3>2 DEF RecordsOK
    <3> QED
      BY <3>3, <3>4, WithAbsencesAgrees
  <2> QED
    BY <2>1, <2>2, <2>3 DEF Next, StartCycle, CancelCycle
<1> QED
  BY <1>1, <1>2, <1>3 DEF RecordsOK

(* What Load makes of the snapshot on disk.                                *)
LEMMA LoadedRecords ==
  ASSUME SnapshotOK
  PROVE  /\ RecordsOK(Loaded(disk))
         /\ \A l \in Links : Loaded(disk)[l] # NoRecord <=> disk.records[l] # NoRecord
<1>1. ASSUME NEW l \in Links
      PROVE  \/ Loaded(disk)[l] = disk.records[l]
             \/ /\ disk.records[l] # NoRecord
                /\ Loaded(disk)[l] = Reloaded(disk.records[l])
  BY DEF Loaded
<1>2. DOMAIN Loaded(disk) = Links
  BY DEF Loaded
<1>3. ASSUME NEW l \in Links, disk.records[l] # NoRecord
      PROVE  /\ Loaded(disk)[l] # NoRecord
             /\ RecordOK(Loaded(disk)[l])
             /\ ClaudeAgrees(Loaded(disk)[l])
             /\ Graceful(Loaded(disk)[l])
  <2>1. /\ RecordOK(disk.records[l])
        /\ ClaudeAgrees(disk.records[l])
        /\ Graceful(disk.records[l])
    BY <1>3 DEF SnapshotOK, RecordsOK
  <2>2. /\ Reloaded(disk.records[l]) # NoRecord
        /\ RecordOK(Reloaded(disk.records[l]))
        /\ ClaudeAgrees(Reloaded(disk.records[l]))
        /\ Graceful(Reloaded(disk.records[l]))
    BY <2>1, ReloadedOK DEF Graceful
  <2> QED
    BY <1>1, <1>3, <2>1, <2>2
<1> QED
  BY <1>1, <1>2, <1>3 DEF RecordsOK

LEMMA RestartDurable ==
  ASSUME DurableIInv, Restart
  PROVE  DurableIInv'
<1>1. /\ records' = Loaded(disk)
      /\ pendingAbsent' = {} /\ pendingPresent' = {}
      /\ running' = FALSE /\ listed' = Links
      /\ rejected' = disk.rejected
      /\ disk' = disk
  BY DEF Restart
<1>2. SnapshotOK
  BY DEF DurableIInv
<1>3. RecordsOK(records')
  BY <1>1, <1>2, LoadedRecords
<1>4. Known' = {l \in Links : disk.records[l] # NoRecord}
  BY <1>1, <1>2, LoadedRecords DEF Known
<1>5. rejected' \subseteq Known' \X Services
  BY <1>1, <1>2, <1>4 DEF SnapshotOK
<1>6. TypeOK'
  BY <1>1, <1>3, <1>5 DEF TypeOK, RecordsOK, Known
<1>7. MarksAgree' /\ AbsenceTraced'
  BY <1>1 DEF MarksAgree, AbsenceTraced, Known
<1>8. SnapshotOK'
  BY <1>1, <1>2 DEF SnapshotOK
<1> QED
  BY <1>3, <1>6, <1>7, <1>8 DEF DurableIInv, IInv

LEMMA NextDurable == DurableIInv /\ [DurableNext]_durableVars => DurableIInv'
<1> SUFFICES ASSUME DurableIInv, [DurableNext]_durableVars PROVE DurableIInv'
  OBVIOUS
<1>1. CASE CycleStep
  <2>1. IInv'
    BY <1>1, NextIInv DEF CycleStep, DurableIInv
  <2>2. RecordsOK(records')
    BY <1>1, <2>1, NextRecords DEF CycleStep, DurableIInv
  <2>3. SnapshotOK'
    BY <1>1 DEF CycleStep, DurableIInv, SnapshotOK
  <2> QED
    BY <2>1, <2>2, <2>3 DEF DurableIInv
<1>2. CASE Save
  <2>1. UNCHANGED vars /\ disk' = Snapshot(2)
    BY <1>2 DEF Save
  <2>2. IInv'
    BY <2>1, NextIInv DEF DurableIInv
  <2>3. records' = records
    BY <2>1 DEF vars
  <2>4. SnapshotOK'
    BY <2>1 DEF DurableIInv, SnapshotOK, Snapshot, IInv, TypeOK, Known
  <2> QED
    BY <2>2, <2>3, <2>4 DEF DurableIInv
<1>3. CASE SaveFails \/ UNCHANGED durableVars
  <2>1. UNCHANGED vars /\ disk' = disk
    BY <1>3 DEF SaveFails, durableVars
  <2>2. IInv'
    BY <2>1, NextIInv DEF DurableIInv
  <2>3. records' = records
    BY <2>1 DEF vars
  <2> QED
    BY <2>1, <2>2, <2>3 DEF DurableIInv, SnapshotOK
<1>4. CASE Restart
  BY <1>4, RestartDurable
<1> QED
  BY <1>1, <1>2, <1>3, <1>4 DEF DurableNext

LEMMA DurableInductive == DurableSpec => []DurableIInv
BY InitDurable, NextDurable, PTL DEF DurableSpec

(* A restarted process serves what its records say. *)
LEMMA ServingAfterRestart ==
  ASSUME DurableIInv, Restart
  PROVE  Serving' = ServedAtRest(Loaded(disk))
<1>1. AtRest' => (Serving = ServedAtRest(records))'
  BY ServingAtRest, PTL
<1>2. DurableIInv'
  BY RestartDurable
<1>3. AtRest'
  BY <1>2 DEF AtRest, Restart, DurableIInv, IInv, TypeOK
<1>4. records' = Loaded(disk)
  BY DEF Restart
<1> QED
  BY <1>1, <1>3, <1>4

(* What a restart serves, link by link.                                    *)
LEMMA RestartServes ==
  ASSUME DurableIInv, Restart
  PROVE  /\ Serving' \subseteq disk.served
         /\ \A p \in disk.served : p \in Serving' \/ InGrace(disk.records[p[1]])
<1> DEFINE all == Links \X (Services \cup {"generic"})
<1>1. SnapshotOK /\ disk.served = ServedAtRest(disk.records)
  BY DEF DurableIInv, SnapshotOK
<1>2. Serving' = ServedAtRest(Loaded(disk))
  BY ServingAfterRestart
<1>3. ASSUME NEW l \in Links
      PROVE  /\ Loaded(disk)[l] # NoRecord <=> disk.records[l] # NoRecord
             /\ disk.records[l] # NoRecord =>
                  /\ Loaded(disk)[l].absentCycles = disk.records[l].absentCycles
                  /\ Serves(Loaded(disk)[l]) \subseteq Serves(disk.records[l])
                  /\ ~ InGrace(disk.records[l])
                       => Serves(Loaded(disk)[l]) = Serves(disk.records[l])
  <2>1. Loaded(disk)[l] # NoRecord <=> disk.records[l] # NoRecord
    BY <1>1, LoadedRecords
  <2>2. \/ Loaded(disk)[l] = disk.records[l]
        \/ Loaded(disk)[l] = Reloaded(disk.records[l])
    BY DEF Loaded
  <2>3. Reloaded(disk.records[l]).absentCycles = disk.records[l].absentCycles
    BY DEF Reloaded
  <2>4. disk.records[l] # NoRecord =>
          /\ Serves(Reloaded(disk.records[l])) \subseteq Serves(disk.records[l])
          /\ ~ InGrace(disk.records[l])
               => Serves(Reloaded(disk.records[l])) = Serves(disk.records[l])
    BY <1>1, ReloadedServes DEF SnapshotOK, RecordsOK
  <2> QED
    BY <2>1, <2>2, <2>3, <2>4
<1>4. ASSUME NEW p \in all
      PROVE  /\ p \in ServedAtRest(Loaded(disk)) => p \in ServedAtRest(disk.records)
             /\ p \in ServedAtRest(disk.records) =>
                  p \in ServedAtRest(Loaded(disk)) \/ InGrace(disk.records[p[1]])
  <2>1. p[1] \in Links
    OBVIOUS
  <2> QED
    BY <1>3, <2>1 DEF ServedAtRest
<1>5. /\ ServedAtRest(Loaded(disk)) \subseteq all
      /\ ServedAtRest(disk.records) \subseteq all
  BY DEF ServedAtRest
<1> HIDE DEF all
<1> QED
  BY <1>1, <1>2, <1>4, <1>5

(* A restart, at whatever point the process ended, admits nobody to a      *)
(* subscription whom the saved store kept out, and loses nobody but        *)
(* candidates in the grace of a version 1 record, whatever the state file  *)
(* held and whatever the probes reported (store.go 498-560).               *)
THEOREM RestartLosesNobodyElse == DurableSpec => RestartLosesOnlyGrace
<1>1. DurableIInv /\ [DurableNext]_durableVars =>
        [Restart => /\ Serving' \subseteq disk.served
                    /\ \A p \in disk.served \ Serving' :
                         InGrace(disk.records[p[1]])]_durableVars
  BY RestartServes
<1> QED
  BY <1>1, DurableInductive, PTL DEF DurableSpec, RestartLosesOnlyGrace

(* Does no version 1 record depend on the grace? *)
NoneInGrace == \A f \in LegacyResults : ~ InGrace(Migrated(f))

(* Unless the daemon ever migrated a version 1 record in the grace, a      *)
(* restart serves exactly what the saved store would have served.          *)
THEOREM RestartsServeAsSaved == NoneInGrace /\ DurableSpec => RestartServesAsSaved
<1>1. NoneInGrace /\ DurableInit => NoneInGrace /\ DurableIInv
  BY InitDurable
<1>2. NoneInGrace /\ DurableIInv /\ [DurableNext]_durableVars
        => (NoneInGrace /\ DurableIInv)'
  <2>1. NoneInGrace => NoneInGrace'
    BY DEF NoneInGrace
  <2> QED
    BY <2>1, NextDurable
<1>3. NoneInGrace /\ DurableIInv /\ [DurableNext]_durableVars =>
        [Restart => Serving' = disk.served]_durableVars
  <2> SUFFICES ASSUME NoneInGrace, DurableIInv, Restart
               PROVE  Serving' = disk.served
    OBVIOUS
  <2>1. /\ Serving' \subseteq disk.served
        /\ \A p \in disk.served : p \in Serving' \/ InGrace(disk.records[p[1]])
    BY RestartServes
  <2>2. ASSUME NEW p \in disk.served PROVE ~ InGrace(disk.records[p[1]])
    <3>1. p[1] \in Links /\ disk.records[p[1]] # NoRecord
      BY <2>2 DEF DurableIInv, SnapshotOK, ServedAtRest
    <3>2. Graceful(disk.records[p[1]])
      BY <3>1 DEF DurableIInv, SnapshotOK, RecordsOK
    <3> QED
      BY <3>2 DEF NoneInGrace, Graceful
  <2> QED
    BY <2>1, <2>2
<1> QED
  BY <1>1, <1>2, <1>3, PTL DEF DurableSpec, RestartServesAsSaved

(* Across crashes and restarts, too, every record is well formed, and no   *)
(* subscription holds a candidate that the newest listing left out; a new  *)
(* process has no listing yet and trusts the counts the file holds.        *)
THEOREM DurableTypeOK == DurableSpec => [](TypeOK /\ ServedIsListed)
<1>1. DurableIInv => TypeOK /\ ServedIsListed
  BY ListedServed DEF DurableIInv, IInv
<1> QED
  BY <1>1, DurableInductive, PTL

-----------------------------------------------------------------------------
(* Scores.  Induction over the samples of a history is stated with sets:   *)
(* a set that holds 0 and with each number the next one holds them all.    *)

LEMMA LessThanIsWellFounded ==
  \E R : /\ IsWellFoundedOn(R, Nat)
         /\ \A m, n \in Nat : m < n => <<m, n>> \in R
<1>1. IsWellFoundedOn({p \in Nat \X Nat : p[1] < p[2]}, Nat)
  BY NatLessThanWellFounded DEF OpToRel
<1> QED
  BY <1>1

LEMMA SetInduction ==
  ASSUME NEW S, 0 \in S, \A n \in Nat : n \in S => n + 1 \in S
  PROVE  Nat \subseteq S
<1> SUFFICES ASSUME Nat \ S # {} PROVE FALSE
  OBVIOUS
<1> DEFINE T == Nat \ S
<1>1. PICK R : /\ IsWellFoundedOn(R, Nat)
               /\ \A m, n \in Nat : m < n => <<m, n>> \in R
  BY LessThanIsWellFounded
<1>2. T \subseteq Nat /\ T # {}
  OBVIOUS
<1>3. IsWellFoundedOn(R, Nat)
  BY <1>1
<1> HIDE DEF T
<1>4. \E x \in T : \A y \in T : ~ (<<y, x>> \in R)
  BY <1>2, <1>3, WFMin, Zenon
<1>5. PICK x \in T : \A y \in T : ~ (<<y, x>> \in R)
  BY <1>4
<1> USE DEF T
<1>6. x # 0 /\ x \in Nat
  BY <1>5
<1>7. x - 1 \in Nat /\ x - 1 < x
  BY <1>6
<1>8. x - 1 \in S
  BY <1>1, <1>5, <1>6, <1>7
<1> QED
  BY <1>5, <1>6, <1>7, <1>8

(* f is the scores of the prefixes of history h, up to its first n samples. *)
IsScoring(f, h, service, n) ==
  f = [i \in 0 .. n |->
         IF i = 0 THEN NoSamples
         ELSE WithSample(f[i - 1], SampleServiceOutcome(h[i], service))]

LEMMA ScoringExists ==
  ASSUME NEW h, NEW service
  PROVE  \A n \in Nat : \E f : IsScoring(f, h, service, n)
<1> DEFINE S == {n \in Nat : \E f : IsScoring(f, h, service, n)}
<1>1. 0 \in S
  <2> DEFINE f == [i \in 0 .. 0 |-> NoSamples]
  <2>1. f = [i \in 0 .. 0 |->
               IF i = 0 THEN NoSamples
               ELSE WithSample(f[i - 1], SampleServiceOutcome(h[i], service))]
    OBVIOUS
  <2> HIDE DEF f
  <2> QED
    BY <2>1 DEF IsScoring
<1>2. ASSUME NEW n \in Nat, n \in S PROVE n + 1 \in S
  <2>1. PICK f : IsScoring(f, h, service, n)
    BY <1>2
  <2> DEFINE next == WithSample(f[n], SampleServiceOutcome(h[n + 1], service))
             g == [i \in 0 .. n + 1 |-> IF i = n + 1 THEN next ELSE f[i]]
             value(i) == IF i = 0 THEN NoSamples
                         ELSE WithSample(g[i - 1], SampleServiceOutcome(h[i], service))
  <2>2. ASSUME NEW i \in 0 .. n + 1 PROVE g[i] = value(i)
    <3>1. CASE i = n + 1
      BY <3>1
    <3>2. CASE i \in 1 .. n
      <4>1. g[i] = f[i] /\ g[i - 1] = f[i - 1]
        BY <3>2
      <4>2. f[i] = WithSample(f[i - 1], SampleServiceOutcome(h[i], service))
        BY <2>1, <3>2 DEF IsScoring
      <4> QED
        BY <3>2, <4>1, <4>2
    <3>3. CASE i = 0
      <4>1. f[0] = NoSamples
        BY <2>1 DEF IsScoring
      <4> QED
        BY <3>3, <4>1
    <3> QED
      BY <3>1, <3>2, <3>3
  <2>3. g = [i \in 0 .. n + 1 |-> g[i]]
    OBVIOUS
  <2> HIDE DEF g
  <2>4. g = [i \in 0 .. n + 1 |-> value(i)]
    BY <2>2, <2>3
  <2>5. IsScoring(g, h, service, n + 1)
    BY <2>4 DEF IsScoring
  <2> QED
    BY <2>5
<1> HIDE DEF S
<1>3. Nat \subseteq S
  BY <1>1, <1>2, SetInduction
<1> QED
  BY <1>3 DEF S

(* The score of a history is the last of them.                             *)
LEMMA ScoreForIs ==
  ASSUME NEW h, NEW service, Len(h) \in Nat
  PROVE  \E f : /\ IsScoring(f, h, service, Len(h))
                /\ ScoreFor(h, service) = f[Len(h)]
<1> DEFINE f == CHOOSE f : IsScoring(f, h, service, Len(h))
<1>1. IsScoring(f, h, service, Len(h))
  BY ScoringExists
<1>2. ScoreFor(h, service) = f[Len(h)]
  BY DEF ScoreFor, IsScoring
<1> QED
  BY <1>1, <1>2

-----------------------------------------------------------------------------
(* What outcomes weigh.                                                    *)

(* The service's own verdict in a sample, and whether it is a pass.        *)
OwnVerdict(s, service) == IF service = "gemini" THEN GeminiVerdict(s) ELSE s.claude

PassedIn(s, service) == OwnVerdict(s, service).status = "passed"

(* A sample as ProbeAssumption says it is, in a version 1 file or not.     *)
Reported(s) ==
  /\ s \in Samples
  /\ s.transport = "failed" => s.status # "passed"
  /\ \A v \in {GeminiVerdict(s), s.claude} : v.category = "none" => v.status = "passed"

(* One that a probe of now left, with the Claude outcome Put fills in.     *)
Probed(s) ==
  /\ \A v \in {GeminiVerdict(s), s.claude} :
       v.status = "failed" =>
         v.category \notin {"target_rate_limited", "proxy_rate_limited", "target_error"}
  /\ FailsEveryService(s) => s.claude # NoVerdict

(* Without a pass no outcome weighs more than 5, a failure reported by a   *)
(* probe no more than 4, and a rejection nothing.                          *)
LEMMA OutcomeWeights ==
  ASSUME NEW s, Reported(s), NEW service \in Services
  PROVE  LET v == SampleServiceOutcome(s, service)
         IN  /\ Weight(v) \in 0 .. 10
             /\ ~ PassedIn(s, service) => Weight(v) <= 5
             /\ v.status = "failed" => Weight(v) <= 5
             /\ Probed(s) /\ v.status = "failed" => Weight(v) <= 4
             /\ IsRejection(OwnVerdict(s, service)) => Weight(v) = 0
<1> DEFINE v == SampleServiceOutcome(s, service)
<1>1. /\ s.status \in Statuses /\ s.category \in Categories
      /\ s.claude \in Verdicts \cup {NoVerdict}
      /\ GeminiVerdict(s).status = s.status /\ GeminiVerdict(s).category = s.category
  BY DEF Reported, Samples, GeminiVerdict
<1>2. \/ /\ v = GeminiVerdict(s)
         /\ service = "gemini" \/ FailsEveryService(s)
      \/ /\ v = s.claude
         /\ service # "gemini" /\ s.claude # NoVerdict
      \/ /\ v = [status |-> "inconclusive", category |-> "timeout"]
         /\ service # "gemini" /\ s.claude = NoVerdict
  <2>1. CASE service = "gemini"
    BY <2>1 DEF SampleServiceOutcome
  <2>2. CASE service # "gemini" /\ s.claude # NoVerdict
    BY <2>2 DEF SampleServiceOutcome
  <2>3. CASE service # "gemini" /\ s.claude = NoVerdict
    BY <2>3, Zenon DEF SampleServiceOutcome
  <2> QED
    BY <2>1, <2>2, <2>3
<1>3. v \in Verdicts
  <2>1. GeminiVerdict(s) \in Verdicts
    BY <1>1 DEF GeminiVerdict, Verdicts
  <2>2. [status |-> "inconclusive", category |-> "timeout"] \in Verdicts
    BY DEF Verdicts, Statuses, Categories
  <2>3. s.claude # NoVerdict => s.claude \in Verdicts
    BY <1>1
  <2> HIDE DEF v
  <2> QED
    BY <1>2, <2>1, <2>2, <2>3
<1>4. v.category = "none" => v.status = "passed"
  BY <1>2 DEF Reported
<1>5. v.status = "passed" => PassedIn(s, service)
  BY <1>1 DEF SampleServiceOutcome, PassedIn, OwnVerdict, Reported, FailsEveryService,
     Services, Statuses
<1>6. Probed(s) /\ v.status = "failed" =>
        v.category \notin {"target_rate_limited", "proxy_rate_limited", "target_error"}
  BY <1>2 DEF Probed
<1>7. IsRejection(OwnVerdict(s, service)) => v = OwnVerdict(s, service)
  <2>1. NoVerdict.status # "failed"
    BY DEF NoVerdict
  <2> QED
    BY <1>2, <2>1 DEF IsRejection, OwnVerdict, SampleServiceOutcome
<1> HIDE DEF v
<1>8. /\ Weight(v) \in 0 .. 10
      /\ v.status # "passed" => Weight(v) <= 5
      /\ v.status = "failed" /\ v.category \notin
           {"target_rate_limited", "proxy_rate_limited", "target_error"}
           => Weight(v) <= 4
      /\ IsRejection(v) => Weight(v) = 0
  BY <1>3, <1>4 DEF Weight, Verdicts, Categories, Statuses, IsRejection, IsTargetSpecific
<1> QED
  BY <1>5, <1>6, <1>7, <1>8 DEF v

-----------------------------------------------------------------------------
(* What the scores come to.                                                *)

LEMMA Times ==
  ASSUME NEW p \in Nat, NEW w \in 0 .. 10
  PROVE  /\ p * w \in Nat /\ p * w <= 10 * p
         /\ w <= 5 => p * w <= 5 * p
         /\ w <= 4 => p * w <= 4 * p
         /\ w = 0 => p * w = 0
<1>1. w \in {0, 1, 2, 3, 4, 5, 6, 7, 8, 9, 10}
  OBVIOUS
<1> QED
  BY <1>1

ScoreOK(score) ==
  /\ score.num \in Nat /\ score.den \in Nat /\ score.decay \in Nat
  /\ score.den < score.decay
  /\ score.num <= 10 * score.den

(* How far a score is above the threshold of 0.65.                         *)
Excess(score) == 2 * score.num - 13 * score.den

LEMMA ExcessBounds ==
  ASSUME NEW num \in Nat, NEW den \in Nat, num <= 10 * den
  PROVE  2 * num - 13 * den \in Int /\ 2 * num - 13 * den <= 7 * den
OBVIOUS

LEMMA ScoreFacts ==
  ASSUME NEW score, ScoreOK(score)
  PROVE  /\ score.num \in Nat /\ score.den \in Nat /\ score.decay \in Nat
         /\ score.den < score.decay /\ 0 < score.decay
         /\ Excess(score) \in Int /\ Excess(score) <= 7 * score.den
<1>1. /\ score.num \in Nat /\ score.den \in Nat /\ score.decay \in Nat
      /\ score.den < score.decay /\ score.num <= 10 * score.den
  BY DEF ScoreOK
<1>2. 0 < score.decay
  BY <1>1
<1>3. Excess(score) \in Int /\ Excess(score) <= 7 * score.den
  BY <1>1, ExcessBounds DEF Excess
<1> QED
  BY <1>1, <1>2, <1>3

LEMMA BelowZero ==
  ASSUME NEW x \in Int, NEW y \in Int, NEW p \in Nat, x < p, y <= 3 * x - 3 * p
  PROVE  y < 0
OBVIOUS

(* What one more sample does to it.                                        *)
LEMMA SampleScored ==
  ASSUME NEW score, ScoreOK(score), NEW v, Weight(v) \in 0 .. 10
  PROVE  LET new == WithSample(score, v)
         IN  /\ ScoreOK(new)
             /\ new.den = 3 * score.den + score.decay
             /\ new.decay = 4 * score.decay
             /\ Excess(new) \in Int
             /\ Excess(new) <= 3 * Excess(score) + 7 * score.decay
             /\ Weight(v) <= 5 => Excess(new) <= 3 * Excess(score) - 3 * score.decay
             /\ Weight(v) <= 4 => Excess(new) <= 3 * Excess(score) - 5 * score.decay
             /\ Weight(v) = 0 => Excess(new) = 3 * Excess(score) - 13 * score.decay
<1> DEFINE new == WithSample(score, v)
           x == score.decay * Weight(v)
<1>1. /\ score.num \in Nat /\ score.den \in Nat /\ score.decay \in Nat
      /\ score.den < score.decay /\ score.num <= 10 * score.den
  BY DEF ScoreOK
<1>2. /\ x \in Nat /\ x <= 10 * score.decay
      /\ Weight(v) <= 5 => x <= 5 * score.decay
      /\ Weight(v) <= 4 => x <= 4 * score.decay
      /\ Weight(v) = 0 => x = 0
  BY <1>1, Times
<1>3. /\ new.num = 3 * score.num + x
      /\ new.den = 3 * score.den + score.decay
      /\ new.decay = 4 * score.decay
  BY DEF WithSample
<1> HIDE DEF new, x
<1>4. ScoreOK(new)
  BY <1>1, <1>2, <1>3 DEF ScoreOK
<1> QED
  BY <1>1, <1>2, <1>3, <1>4 DEF Excess, new

AllReported(h) == \A i \in 1 .. Len(h) : Reported(h[i])

(* The scores of the prefixes, one from the other.                         *)
LEMMA ScoringSteps ==
  ASSUME NEW h \in Seq(Samples), AllReported(h), NEW service \in Services,
         NEW f, IsScoring(f, h, service, Len(h))
  PROVE  /\ f[0] = NoSamples
         /\ \A i \in 0 .. Len(h) : ScoreOK(f[i])
         /\ \A i \in 1 .. Len(h) :
              /\ f[i] = WithSample(f[i - 1], SampleServiceOutcome(h[i], service))
              /\ Weight(SampleServiceOutcome(h[i], service)) \in 0 .. 10
<1> DEFINE n == Len(h)
           S == {i \in Nat : i <= n => ScoreOK(f[i])}
<1>1. n \in Nat
  OBVIOUS
<1>2. f[0] = NoSamples
  BY <1>1 DEF IsScoring
<1>3. \A i \in 1 .. n : f[i] = WithSample(f[i - 1], SampleServiceOutcome(h[i], service))
  BY <1>1 DEF IsScoring
<1>4. \A i \in 1 .. n : Weight(SampleServiceOutcome(h[i], service)) \in 0 .. 10
  BY OutcomeWeights DEF AllReported
<1> HIDE DEF n
<1>5. 0 \in S
  BY <1>2 DEF ScoreOK, NoSamples
<1>6. ASSUME NEW i \in Nat, i \in S PROVE i + 1 \in S
  <2>1. SUFFICES ASSUME i + 1 <= n PROVE ScoreOK(f[i + 1])
    OBVIOUS
  <2>2. ScoreOK(f[i]) /\ i + 1 \in 1 .. n /\ (i + 1) - 1 = i
    BY <1>1, <1>6, <2>1
  <2>3. /\ f[i + 1] = WithSample(f[i], SampleServiceOutcome(h[i + 1], service))
        /\ Weight(SampleServiceOutcome(h[i + 1], service)) \in 0 .. 10
    BY <1>3, <1>4, <2>2
  <2> QED
    BY <2>2, <2>3, SampleScored
<1> HIDE DEF S
<1>7. Nat \subseteq S
  BY <1>5, <1>6, SetInduction
<1>8. \A i \in 0 .. n : ScoreOK(f[i])
  BY <1>1, <1>7 DEF S
<1> QED
  BY <1>2, <1>3, <1>4, <1>8 DEF n

(* Once a score is below the threshold, or not far above it, samples that  *)
(* are not passes keep it below.                                           *)
LEMMA StaysBelow ==
  ASSUME NEW h \in Seq(Samples), AllReported(h), NEW service \in Services,
         NEW f, IsScoring(f, h, service, Len(h)),
         NEW m \in 0 .. Len(h), m < Len(h),
         Excess(f[m]) < f[m].decay,
         \A i \in m + 1 .. Len(h) : Weight(SampleServiceOutcome(h[i], service)) <= 5
  PROVE  Excess(f[Len(h)]) < 0
<1> DEFINE n == Len(h)
           S == {i \in Nat : m + i + 1 <= n => Excess(f[m + i + 1]) < 0}
<1>1. n \in Nat /\ m \in Nat /\ m < n
  OBVIOUS
<1> HIDE DEF n
<1>2. ASSUME NEW i \in m + 1 .. n, Excess(f[i - 1]) < f[i - 1].decay
      PROVE  Excess(f[i]) < 0
  <2>1. i \in 1 .. n /\ i - 1 \in 0 .. n
    BY <1>1
  <2>2. /\ ScoreOK(f[i - 1])
        /\ f[i] = WithSample(f[i - 1], SampleServiceOutcome(h[i], service))
        /\ Weight(SampleServiceOutcome(h[i], service)) \in 0 .. 10
        /\ Weight(SampleServiceOutcome(h[i], service)) <= 5
    BY <2>1, ScoringSteps DEF n
  <2>3. Excess(f[i]) \in Int /\ Excess(f[i]) <= 3 * Excess(f[i - 1]) - 3 * f[i - 1].decay
    BY <2>2, SampleScored
  <2>4. Excess(f[i - 1]) \in Int /\ f[i - 1].decay \in Nat
    BY <2>2, ScoreFacts
  <2> QED
    BY <1>2, <2>3, <2>4, BelowZero
<1>3. 0 \in S
  <2>1. m + 1 \in m + 1 .. n /\ (m + 1) - 1 = m
    BY <1>1
  <2>2. Excess(f[m + 1]) < 0
    BY <1>2, <2>1
  <2>3. m + 0 + 1 = m + 1
    BY <1>1
  <2> QED
    BY <2>2, <2>3
<1>4. ASSUME NEW i \in Nat, i \in S PROVE i + 1 \in S
  <2>1. SUFFICES ASSUME m + (i + 1) + 1 <= n PROVE Excess(f[m + (i + 1) + 1]) < 0
    OBVIOUS
  <2>2. /\ m + (i + 1) + 1 \in m + 1 .. n
        /\ (m + (i + 1) + 1) - 1 = m + i + 1
        /\ m + i + 1 \in 0 .. n
    BY <1>1, <2>1
  <2>3. Excess(f[m + i + 1]) < 0
    BY <1>4, <2>2
  <2>4. ScoreOK(f[m + i + 1])
    BY <2>2, ScoringSteps DEF n
  <2>5. Excess(f[m + i + 1]) < f[m + i + 1].decay
    <3> DEFINE score == f[m + i + 1]
    <3>1. Excess(score) < 0 /\ Excess(score) \in Int /\ score.decay \in Nat
      BY <2>3, <2>4, ScoreFacts
    <3> HIDE DEF score
    <3>2. Excess(score) < score.decay
      BY <3>1
    <3> QED
      BY <3>2 DEF score
  <2> QED
    BY <1>2, <2>2, <2>5
<1> HIDE DEF S
<1>5. Nat \subseteq S
  BY <1>3, <1>4, SetInduction
<1>6. n - m - 1 \in S /\ m + (n - m - 1) + 1 = n
  BY <1>1, <1>5
<1> QED
  BY <1>1, <1>6 DEF S, n

(* In a history that is not too long the oldest samples have not decayed   *)
(* to nothing, and what the threshold can tell apart depends on it.        *)
LEMMA OldestStillWeigh ==
  ASSUME NEW h \in Seq(Samples), AllReported(h), NEW service \in Services,
         NEW f, IsScoring(f, h, service, Len(h)), NEW m \in 0 .. Len(h)
  PROVE  /\ m <= 13 => 189 * f[m].den < 185 * f[m].decay
         /\ m <= 9 => 63 * f[m].den < 59 * f[m].decay
<1> DEFINE n == Len(h)
           Is(i, den, decay) == i <= n => f[i].den = den /\ f[i].decay = decay
<1>1. n \in Nat
  OBVIOUS
<1>2. ASSUME NEW i \in 0 .. 13, NEW den \in Nat, NEW decay \in Nat, Is(i, den, decay)
      PROVE  Is(i + 1, 3 * den + decay, 4 * decay)
  <2>1. SUFFICES ASSUME i + 1 <= n
                 PROVE  f[i + 1].den = 3 * den + decay /\ f[i + 1].decay = 4 * decay
    OBVIOUS
  <2> DEFINE score == f[i]
  <2>2. i \in 0 .. n /\ i + 1 \in 1 .. n /\ (i + 1) - 1 = i /\ i <= n
    BY <1>1, <2>1
  <2>3. score.den = den /\ score.decay = decay
    BY <1>2, <2>2
  <2>4. /\ ScoreOK(score)
        /\ f[i + 1] = WithSample(score, SampleServiceOutcome(h[i + 1], service))
        /\ Weight(SampleServiceOutcome(h[i + 1], service)) \in 0 .. 10
    BY <2>2, ScoringSteps
  <2> HIDE DEF score
  <2>5. f[i + 1].den = 3 * score.den + score.decay /\ f[i + 1].decay = 4 * score.decay
    BY ONLY <2>4, SampleScored
  <2> QED
    BY <2>3, <2>5
<1> HIDE DEF n
<1>3. Is(0, 0, 1)
  BY ScoringSteps DEF NoSamples
<1> HIDE DEF Is
<1>4. Is(1, 1, 4)
  <2>1. Is(0 + 1, 3 * 0 + 1, 4 * 1)
    BY ONLY <1>2, <1>3
  <2> QED
    BY ONLY <2>1
<1>5. Is(2, 7, 16)
  <2>1. Is(1 + 1, 3 * 1 + 4, 4 * 4)
    BY ONLY <1>2, <1>4
  <2> QED
    BY ONLY <2>1
<1>6. Is(3, 37, 64)
  <2>1. Is(2 + 1, 3 * 7 + 16, 4 * 16)
    BY ONLY <1>2, <1>5
  <2> QED
    BY ONLY <2>1
<1>7. Is(4, 175, 256)
  <2>1. Is(3 + 1, 3 * 37 + 64, 4 * 64)
    BY ONLY <1>2, <1>6
  <2> QED
    BY ONLY <2>1
<1>8. Is(5, 781, 1024)
  <2>1. Is(4 + 1, 3 * 175 + 256, 4 * 256)
    BY ONLY <1>2, <1>7
  <2> QED
    BY ONLY <2>1
<1>9. Is(6, 3367, 4096)
  <2>1. Is(5 + 1, 3 * 781 + 1024, 4 * 1024)
    BY ONLY <1>2, <1>8
  <2> QED
    BY ONLY <2>1
<1>10. Is(7, 14197, 16384)
  <2>1. Is(6 + 1, 3 * 3367 + 4096, 4 * 4096)
    BY ONLY <1>2, <1>9
  <2> QED
    BY ONLY <2>1
<1>11. Is(8, 58975, 65536)
  <2>1. Is(7 + 1, 3 * 14197 + 16384, 4 * 16384)
    BY ONLY <1>2, <1>10
  <2> QED
    BY ONLY <2>1
<1>12. Is(9, 242461, 262144)
  <2>1. Is(8 + 1, 3 * 58975 + 65536, 4 * 65536)
    BY ONLY <1>2, <1>11
  <2> QED
    BY ONLY <2>1
<1>13. Is(10, 989527, 1048576)
  <2>1. Is(9 + 1, 3 * 242461 + 262144, 4 * 262144)
    BY ONLY <1>2, <1>12
  <2> QED
    BY ONLY <2>1
<1>14. Is(11, 4017157, 4194304)
  <2>1. Is(10 + 1, 3 * 989527 + 1048576, 4 * 1048576)
    BY ONLY <1>2, <1>13
  <2> QED
    BY ONLY <2>1
<1>15. Is(12, 16245775, 16777216)
  <2>1. Is(11 + 1, 3 * 4017157 + 4194304, 4 * 4194304)
    BY ONLY <1>2, <1>14
  <2> QED
    BY ONLY <2>1
<1>16. Is(13, 65514541, 67108864)
  <2>1. Is(12 + 1, 3 * 16245775 + 16777216, 4 * 16777216)
    BY ONLY <1>2, <1>15
  <2> QED
    BY ONLY <2>1
<1> USE DEF Is
<1>17. m \in Nat /\ m <= n
  BY <1>1 DEF n
<1>18. m <= 13 => m \in {0, 1, 2, 3, 4, 5, 6, 7, 8, 9, 10, 11, 12, 13}
  BY <1>17
<1> QED
  <2>1. CASE m = 0
    BY <1>3, <1>17, <2>1
  <2>2. CASE m = 1
    BY <1>4, <1>17, <2>2
  <2>3. CASE m = 2
    BY <1>5, <1>17, <2>3
  <2>4. CASE m = 3
    BY <1>6, <1>17, <2>4
  <2>5. CASE m = 4
    BY <1>7, <1>17, <2>5
  <2>6. CASE m = 5
    BY <1>8, <1>17, <2>6
  <2>7. CASE m = 6
    BY <1>9, <1>17, <2>7
  <2>8. CASE m = 7
    BY <1>10, <1>17, <2>8
  <2>9. CASE m = 8
    BY <1>11, <1>17, <2>9
  <2>10. CASE m = 9
    BY <1>12, <1>17, <2>10
  <2>11. CASE m = 10
    BY <1>13, <1>17, <2>11
  <2>12. CASE m = 11
    BY <1>14, <1>17, <2>12
  <2>13. CASE m = 12
    BY <1>15, <1>17, <2>13
  <2>14. CASE m = 13
    BY <1>16, <1>17, <2>14
  <2>15. CASE m > 13
    BY <1>17, <2>15
  <2> QED
    BY <1>17, <1>18, <2>1, <2>2, <2>3, <2>4, <2>5, <2>6, <2>7, <2>8,
       <2>9, <2>10, <2>11, <2>12, <2>13, <2>14, <2>15

-----------------------------------------------------------------------------
(* Which histories reach the threshold.                                    *)

(* Samples as they are reported; only the oldest can be one of version 1.  *)
WellReported(h) ==
  /\ AllReported(h)
  /\ \A i \in 2 .. Len(h) : Probed(h[i])

LEMMA ScoreReachedIs ==
  ASSUME NEW h \in Seq(Samples), AllReported(h), NEW service \in Services
  PROVE  \E f : /\ IsScoring(f, h, service, Len(h))
                /\ ScoreReached(h, service) <=> Excess(f[Len(h)]) >= 0
<1>1. Len(h) \in Nat
  OBVIOUS
<1>2. PICK f : /\ IsScoring(f, h, service, Len(h))
               /\ ScoreFor(h, service) = f[Len(h)]
  BY <1>1, ScoreForIs
<1> DEFINE score == f[Len(h)]
<1>3. score.num \in Nat /\ score.den \in Nat
  BY <1>1, <1>2, ScoringSteps DEF ScoreOK
<1>4. ScoreReached(h, service) <=> 2 * score.num >= 13 * score.den
  BY <1>2 DEF ScoreReached
<1>5. Excess(score) = 2 * score.num - 13 * score.den
  BY DEF Excess
<1> HIDE DEF score
<1>6. 2 * score.num >= 13 * score.den <=> Excess(score) >= 0
  BY <1>3, <1>5
<1> QED
  BY <1>2, <1>4, <1>6 DEF score

(* No mixture of failures and inconclusive outcomes does.                  *)
LEMMA NoPassNoScore ==
  ASSUME NEW h \in Seq(Samples), Len(h) > 0, AllReported(h),
         NEW service \in Services,
         \A i \in 1 .. Len(h) : Weight(SampleServiceOutcome(h[i], service)) <= 5
  PROVE  ~ ScoreReached(h, service)
<1>1. PICK f : /\ IsScoring(f, h, service, Len(h))
               /\ ScoreReached(h, service) <=> Excess(f[Len(h)]) >= 0
  BY ScoreReachedIs
<1>2. f[0] = NoSamples
  BY <1>1, ScoringSteps
<1>3. Excess(f[0]) < f[0].decay
  BY <1>2 DEF NoSamples, Excess
<1>4. Len(h) \in Nat /\ 0 \in 0 .. Len(h) /\ 0 < Len(h)
  OBVIOUS
<1>5. \A i \in 0 + 1 .. Len(h) : Weight(SampleServiceOutcome(h[i], service)) <= 5
  OBVIOUS
<1>6. Excess(f[Len(h)]) < 0
  BY <1>1, <1>3, <1>4, <1>5, StaysBelow
<1>7. Excess(f[Len(h)]) \in Int
  BY <1>1, <1>4, ScoringSteps, ScoreFacts
<1> DEFINE excess == Excess(f[Len(h)])
<1> HIDE DEF excess
<1>8. ~ (excess >= 0)
  BY <1>6, <1>7 DEF excess
<1> QED
  BY <1>1, <1>8 DEF excess

LEMMA ThreeSteps ==
  ASSUME NEW a \in Int, NEW b \in Int, NEW c \in Int, NEW d \in Int,
         NEW p \in Nat, NEW q \in Nat, NEW r \in Nat, NEW den \in Nat,
         b <= 3 * a - 5 * p, q = 4 * p,
         c <= 3 * b - 5 * q, r = 4 * q,
         d <= 3 * c - 5 * r,
         a <= 7 * den, 189 * den < 185 * p
  PROVE  d < 0
<1>1. c <= 9 * a - 35 * p
  OBVIOUS
<1>2. d <= 27 * a - 185 * p
  BY <1>1
<1> QED
  BY <1>2

(* Three failures outweigh any record of passes.                           *)
LEMMA ThreeFailuresNoScore ==
  ASSUME NEW h \in Seq(Samples), Len(h) \in 1 .. 16, WellReported(h),
         NEW service \in Services,
         \A i \in 1 .. Len(h) : i > Len(h) - 3 =>
           SampleServiceOutcome(h[i], service).status = "failed"
  PROVE  ~ ScoreReached(h, service)
<1> DEFINE n == Len(h)
           w(i) == Weight(SampleServiceOutcome(h[i], service))
<1>1. n \in 1 .. 16 /\ AllReported(h)
  BY DEF WellReported
<1>2. ASSUME NEW i \in 1 .. n, i > n - 3
      PROVE  w(i) \in 0 .. 10 /\ w(i) <= 5 /\ (i > 1 => w(i) <= 4)
  <2>1. Reported(h[i]) /\ (i > 1 => Probed(h[i]))
    BY <1>1, <1>2 DEF WellReported, AllReported
  <2> QED
    BY <1>2, <2>1, OutcomeWeights
<1>3. CASE n <= 3
  BY <1>1, <1>2, <1>3, NoPassNoScore
<1>4. CASE n > 3
  <2>1. PICK f : /\ IsScoring(f, h, service, n)
                 /\ ScoreReached(h, service) <=> Excess(f[n]) >= 0
    BY <1>1, ScoreReachedIs
  <2>2. ASSUME NEW i \in {n - 2, n - 1, n}
        PROVE  /\ ScoreOK(f[i - 1]) /\ Excess(f[i]) \in Int
               /\ Excess(f[i]) <= 3 * Excess(f[i - 1]) - 5 * f[i - 1].decay
               /\ f[i].decay = 4 * f[i - 1].decay
    <3>1. i \in 1 .. n /\ i - 1 \in 0 .. n /\ i > n - 3 /\ i > 1
      BY <1>1, <1>4
    <3>2. w(i) <= 4
      BY <1>2, <3>1
    <3>3. /\ ScoreOK(f[i - 1])
          /\ f[i] = WithSample(f[i - 1], SampleServiceOutcome(h[i], service))
          /\ w(i) \in 0 .. 10
      BY <1>1, <2>1, <3>1, ScoringSteps
    <3> DEFINE old == f[i - 1]  new == f[i]  v == SampleServiceOutcome(h[i], service)
    <3>4. ScoreOK(old) /\ new = WithSample(old, v) /\ Weight(v) \in 0 .. 10 /\ Weight(v) <= 4
      BY <3>2, <3>3
    <3> HIDE DEF old, new, v
    <3>5. /\ Excess(new) \in Int /\ Excess(new) <= 3 * Excess(old) - 5 * old.decay
          /\ new.decay = 4 * old.decay
      BY ONLY <3>4, SampleScored
    <3> QED
      BY <3>3, <3>5 DEF old, new
  <2> DEFINE a == f[n - 3]  b == f[n - 2]  c == f[n - 1]  d == f[n]
  <2>3. (n - 2) - 1 = n - 3 /\ (n - 1) - 1 = n - 2
    BY <1>1
  <2>4. /\ ScoreOK(a) /\ ScoreOK(b) /\ ScoreOK(c)
        /\ Excess(b) <= 3 * Excess(a) - 5 * a.decay /\ b.decay = 4 * a.decay
        /\ Excess(c) <= 3 * Excess(b) - 5 * b.decay /\ c.decay = 4 * b.decay
        /\ Excess(d) <= 3 * Excess(c) - 5 * c.decay /\ Excess(d) \in Int
    BY <2>2, <2>3
  <2>5. 189 * a.den < 185 * a.decay
    <3>1. n - 3 \in 0 .. n /\ n - 3 <= 13
      <4> HIDE DEF n
      <4> QED
        BY <1>1, <1>4
    <3> QED
      BY <1>1, <2>1, <3>1, OldestStillWeigh
  <2> HIDE DEF a, b, c, d
  <2>6. /\ a.den \in Nat /\ a.decay \in Nat /\ b.decay \in Nat /\ c.decay \in Nat
        /\ Excess(a) \in Int /\ Excess(b) \in Int /\ Excess(c) \in Int
    BY <2>4, ScoreFacts
  <2>7. Excess(a) <= 7 * a.den
    BY <2>4, ScoreFacts
  <2>8. Excess(d) < 0
    BY <2>4, <2>5, <2>6, <2>7, ThreeSteps
  <2> QED
    BY <2>1, <2>4, <2>8 DEF d
<1> QED
  BY <1>1, <1>3, <1>4

-----------------------------------------------------------------------------
(* What a rejection by policy leaves of a score.                           *)

(* A service rejected the candidate and has not passed since: in sample j, *)
(* or, for j = 0, in one that has left the window.                         *)
SinceRejection(h, service) ==
  \E j \in 0 .. Len(h) :
    /\ j > 0 => IsRejection(OwnVerdict(h[j], service))
    /\ \A i \in j + 1 .. Len(h) : ~ PassedIn(h[i], service)

(* Gate 2 stands on the newest conclusive sample.                          *)
LEMMA LatestRejection ==
  ASSUME NEW rec, rec.history \in Seq(Samples), NEW service \in Services,
         NEW j \in 1 .. Len(rec.history),
         IsRejection(OwnVerdict(rec.history[j], service)),
         \A i \in j + 1 .. Len(rec.history) : i \notin ConclusiveFor(rec.history, service)
  PROVE  PolicyRejects(rec, service)
<1> DEFINE h == rec.history
           at == ConclusiveFor(h, service)
           newest == CHOOSE i \in at : \A k \in at : k <= i
<1>1. Len(h) \in Nat /\ DOMAIN h = 1 .. Len(h) /\ at \subseteq DOMAIN h
  BY DEF ConclusiveFor
<1>2. OwnVerdict(h[j], service).status = "failed"
  BY DEF IsRejection
<1>3. j \in at
  BY <1>1, <1>2 DEF ConclusiveFor, OwnVerdict, GeminiVerdict
<1>4. \A k \in at : k <= j
  BY <1>1
<1>5. \A i \in at : (\A k \in at : k <= i) => i = j
  BY <1>1, <1>3, <1>4
<1> HIDE DEF at
<1>6. newest \in at /\ \A k \in at : k <= newest
  BY <1>3, <1>4
<1>7. newest = j
  BY <1>5, <1>6
<1>8. LatestConclusiveFor(h, service) = OwnVerdict(h[j], service)
  <2>1. LatestConclusiveFor(h, service) =
          IF service = "claude" /\ h[newest].claude.status \in {"passed", "failed"}
          THEN h[newest].claude ELSE GeminiVerdict(h[newest])
    BY DEF LatestConclusiveFor, at
  <2>2. service # "gemini" => service = "claude"
    BY DEF Services
  <2> QED
    BY <1>2, <1>7, <2>1, <2>2 DEF OwnVerdict
<1> QED
  BY <1>3, <1>8 DEF PolicyRejects, at

LEMMA TwoSteps ==
  ASSUME NEW a \in Int, NEW b \in Int, NEW c \in Int,
         NEW p \in Nat, NEW q \in Nat, NEW r, NEW den \in Nat,
         b = 3 * a - 13 * p, q = 4 * p, r = 4 * q,
         a <= 7 * den, den < p
  PROVE  /\ c <= 3 * b - 3 * q => c < r
         /\ c <= 3 * b - 5 * q /\ 63 * den < 59 * p => c < 0
<1>1. 3 * b = 9 * a - 39 * p
  OBVIOUS
<1>2. 3 * b <= 63 * den - 39 * p
  BY <1>1
<1>3. r = 16 * p
  OBVIOUS
<1> QED
  BY <1>2, <1>3

(* A rejection and one more sample that is no pass.                        *)
LEMMA RejectionWeighs ==
  ASSUME NEW h \in Seq(Samples), AllReported(h), NEW service \in Services,
         NEW f, IsScoring(f, h, service, Len(h)),
         NEW j \in 1 .. Len(h), j + 1 <= Len(h),
         IsRejection(OwnVerdict(h[j], service)),
         ~ PassedIn(h[j + 1], service)
  PROVE  /\ Excess(f[j + 1]) < f[j + 1].decay
         /\ /\ j <= 10
            /\ Weight(SampleServiceOutcome(h[j + 1], service)) <= 4
            => Excess(f[j + 1]) < 0
<1> DEFINE a == f[j - 1]  b == f[j]  c == f[j + 1]
           w(i) == Weight(SampleServiceOutcome(h[i], service))
<1>1. /\ j \in 1 .. Len(h) /\ j + 1 \in 1 .. Len(h)
      /\ j - 1 \in 0 .. Len(h) /\ j \in 0 .. Len(h) /\ (j + 1) - 1 = j
  OBVIOUS
<1>2. w(j) = 0 /\ w(j + 1) <= 5
  <2>1. Reported(h[j]) /\ Reported(h[j + 1])
    BY <1>1 DEF AllReported
  <2> QED
    BY <2>1, OutcomeWeights
<1>3. /\ ScoreOK(a) /\ ScoreOK(b)
      /\ b = WithSample(a, SampleServiceOutcome(h[j], service))
      /\ c = WithSample(b, SampleServiceOutcome(h[j + 1], service))
      /\ w(j) \in 0 .. 10 /\ w(j + 1) \in 0 .. 10
  BY <1>1, ScoringSteps
<1>4. /\ Excess(b) = 3 * Excess(a) - 13 * a.decay /\ b.decay = 4 * a.decay
      /\ Excess(c) \in Int /\ c.decay = 4 * b.decay
      /\ Excess(c) <= 3 * Excess(b) - 3 * b.decay
      /\ w(j + 1) <= 4 => Excess(c) <= 3 * Excess(b) - 5 * b.decay
  <2>1. Excess(b) = 3 * Excess(a) - 13 * a.decay /\ b.decay = 4 * a.decay
    <3> HIDE DEF a, b
    <3> QED
      BY <1>2, <1>3, SampleScored
  <2>2. /\ Excess(c) \in Int /\ c.decay = 4 * b.decay
        /\ Excess(c) <= 3 * Excess(b) - 3 * b.decay
        /\ w(j + 1) <= 4 => Excess(c) <= 3 * Excess(b) - 5 * b.decay
    <3> HIDE DEF b, c
    <3> QED
      BY <1>2, <1>3, SampleScored
  <2> QED
    BY <2>1, <2>2
<1>5. j <= 10 => 63 * a.den < 59 * a.decay
  <2>1. j <= 10 => j - 1 <= 9
    BY <1>1
  <2> QED
    BY <1>1, <2>1, OldestStillWeigh
<1> HIDE DEF a, b, c, w
<1>6. /\ a.den \in Nat /\ a.decay \in Nat /\ a.den < a.decay
      /\ Excess(a) \in Int /\ Excess(a) <= 7 * a.den
      /\ Excess(b) \in Int /\ b.decay \in Nat
  BY <1>3, ScoreFacts
<1>7. Excess(c) < c.decay
  BY <1>4, <1>6, TwoSteps
<1>8. j <= 10 /\ w(j + 1) <= 4 => Excess(c) < 0
  BY <1>4, <1>5, <1>6, TwoSteps
<1> QED
  BY <1>7, <1>8 DEF c, w

(* Who was rejected is served again only past the one gap of gate 2.       *)
LEMMA RejectedNoScore ==
  ASSUME NEW rec, rec.history \in Seq(Samples), Len(rec.history) \in 1 .. 11,
         WellReported(rec.history), NEW service \in Services,
         SinceRejection(rec.history, service),
         ~ PolicyRejects(rec, service), ScoreReached(rec.history, service)
  PROVE  LET newest == Last(rec.history)
         IN  /\ service = "claude"
             /\ newest.claude.status = "inconclusive"
             /\ FailsEveryService(newest)
<1> DEFINE h == rec.history
           n == Len(h)
           w(i) == Weight(SampleServiceOutcome(h[i], service))
<1>1. n \in 1 .. 11 /\ AllReported(h) /\ \A i \in 2 .. n : Probed(h[i])
  BY DEF WellReported
<1>2. PICK j \in 0 .. n :
        /\ j > 0 => IsRejection(OwnVerdict(h[j], service))
        /\ \A i \in j + 1 .. n : ~ PassedIn(h[i], service)
  BY DEF SinceRejection
<1>3. \A i \in 1 .. n : ~ PassedIn(h[i], service) => w(i) <= 5
  BY <1>1, OutcomeWeights DEF AllReported
<1>4. j \in 1 .. n
  <2>1. SUFFICES ASSUME j = 0 PROVE FALSE
    BY <1>1
  <2>2. \A i \in 1 .. n : w(i) <= 5
    BY <1>2, <1>3, <2>1
  <2>3. n > 0
    <3> HIDE DEF n
    <3> QED
      BY <1>1
  <2> QED
    BY <1>1, <2>2, <2>3, NoPassNoScore
<1>5. IsRejection(OwnVerdict(h[j], service))
  BY <1>2, <1>4
<1>6. j # n
  <2>1. SUFFICES ASSUME j = n PROVE PolicyRejects(rec, service)
    OBVIOUS
  <2>2. \A i \in j + 1 .. n : i \notin ConclusiveFor(h, service)
    BY <1>1, <2>1
  <2> QED
    BY <1>4, <1>5, <2>2, LatestRejection
<1>7. /\ j + 1 \in 1 .. n /\ j + 1 \in 2 .. n /\ j + 1 \in 0 .. n
      /\ j <= 10 /\ j + 1 <= n
  <2> HIDE DEF n
  <2> QED
    BY <1>1, <1>4, <1>6
<1>8. PICK f : /\ IsScoring(f, h, service, n)
               /\ ScoreReached(h, service) <=> Excess(f[n]) >= 0
  BY <1>1, ScoreReachedIs
<1>9. ~ PassedIn(h[j + 1], service)
  BY <1>2, <1>7
<1>10. /\ Excess(f[j + 1]) < f[j + 1].decay
       /\ w(j + 1) <= 4 => Excess(f[j + 1]) < 0
  BY <1>1, <1>4, <1>5, <1>7, <1>8, <1>9, RejectionWeighs
<1>11. ScoreOK(f[n])
  BY <1>1, <1>8, ScoringSteps
<1>12. ~ (Excess(f[n]) < 0)
  <2>1. Excess(f[n]) >= 0 /\ Excess(f[n]) \in Int
    BY <1>8, <1>11, ScoreFacts
  <2> QED
    BY <2>1
<1>13. j + 1 = n
  <2>1. SUFFICES ASSUME j + 1 < n PROVE FALSE
    BY <1>1, <1>7
  <2>2. \A i \in (j + 1) + 1 .. n : w(i) <= 5
    BY <1>2, <1>3, <1>7
  <2>3. Excess(f[n]) < 0
    BY <1>1, <1>7, <1>8, <1>10, <2>1, <2>2, StaysBelow
  <2> QED
    BY <1>12, <2>3
<1> DEFINE s == h[n]
<1>14. Last(h) = s /\ Reported(s) /\ Probed(s)
  BY <1>1, <1>7, <1>13 DEF Last, AllReported
<1>15. SampleServiceOutcome(s, service).status # "failed"
  <2>1. SUFFICES ASSUME SampleServiceOutcome(s, service).status = "failed" PROVE FALSE
    OBVIOUS
  <2>2. w(n) <= 4
    BY <1>14, <2>1, OutcomeWeights
  <2> QED
    BY <1>10, <1>12, <1>13, <2>2
<1>16. n \in ConclusiveFor(h, service)
  <2>1. SUFFICES ASSUME n \notin ConclusiveFor(h, service) PROVE PolicyRejects(rec, service)
    OBVIOUS
  <2>2. \A i \in j + 1 .. n : i \notin ConclusiveFor(h, service)
    BY <1>1, <1>13, <2>1
  <2> QED
    BY <1>4, <1>5, <2>2, LatestRejection
<1>17. ~ PassedIn(s, service)
  BY <1>9, <1>13
<1>18. s \in Samples
  BY <1>14 DEF Reported
<1> HIDE DEF s
<1>19. CASE service = "gemini"
  <2>1. s.status = "inconclusive"
    BY <1>15, <1>17, <1>18, <1>19
       DEF SampleServiceOutcome, PassedIn, OwnVerdict, GeminiVerdict, Samples, Statuses
  <2> QED
    BY <1>16, <1>19, <2>1 DEF ConclusiveFor, s
<1>20. CASE service = "claude"
  <2>1. s.claude.status \in {"passed", "failed"} \/ FailsEveryService(s)
    BY <1>16, <1>20 DEF ConclusiveFor, s
  <2>2. s.claude.status # "passed"
    BY <1>17, <1>20 DEF PassedIn, OwnVerdict
  <2>3. s.claude # NoVerdict => SampleServiceOutcome(s, service) = s.claude
    BY <1>20 DEF SampleServiceOutcome
  <2>4. FailsEveryService(s) => s.claude # NoVerdict
    BY <1>14 DEF Probed
  <2>5. NoVerdict.status \notin {"passed", "failed"}
    BY DEF NoVerdict
  <2>6. FailsEveryService(s) /\ s.claude # NoVerdict /\ s.claude.status # "failed"
    BY <1>15, <2>1, <2>2, <2>3, <2>4, <2>5
  <2>7. s.claude.status = "inconclusive"
    BY <1>18, <2>2, <2>6 DEF Samples, Verdicts, Statuses
  <2> QED
    BY <1>14, <1>20, <2>6, <2>7
<1> QED
  BY <1>19, <1>20 DEF Services

-----------------------------------------------------------------------------
(* What the histories of the store's records hold.                         *)

(* A full window loses its oldest sample to the new one.                   *)
LEMMA PushIndex ==
  ASSUME NEW h \in Seq(Samples), Len(h) <= HistoryCapacity,
         NEW s \in Samples
  PROVE  \E d \in {0, 1} :
           LET new == Push(h, s)
           IN  /\ Len(new) + d = Len(h) + 1
               /\ new[Len(new)] = s
               /\ \A i \in 1 .. Len(new) - 1 : new[i] = h[i + d]
<1> DEFINE longer == Append(h, s)
<1>1. HistoryCapacity \in Nat \ {0}
  BY StoreAssumption
<1>2. /\ longer \in Seq(Samples) /\ Len(longer) = Len(h) + 1 /\ Len(h) \in Nat
      /\ longer[Len(h) + 1] = s
      /\ \A i \in 1 .. Len(h) : longer[i] = h[i]
  OBVIOUS
<1>3. CASE Len(longer) <= HistoryCapacity
  <2>1. Push(h, s) = longer
    BY <1>3 DEF Push
  <2>2. /\ Len(longer) + 0 = Len(h) + 1
        /\ longer[Len(longer)] = s
        /\ \A i \in 1 .. Len(longer) - 1 : longer[i] = h[i + 0]
    <3> HIDE DEF longer
    <3> QED
      BY <1>2
  <2> QED
    BY <2>1, <2>2
<1>4. CASE ~ (Len(longer) <= HistoryCapacity)
  <2> DEFINE new == SubSeq(longer, 2, HistoryCapacity + 1)
  <2>1. Push(h, s) = new
    BY <1>4 DEF Push
  <2>2. Len(h) = HistoryCapacity
    BY <1>1, <1>2, <1>4
  <2>3. /\ Len(new) = HistoryCapacity
        /\ \A i \in 1 .. HistoryCapacity : new[i] = longer[i + 1]
    <3> HIDE DEF longer
    <3> QED
      BY <1>1, <1>2, <2>2
  <2> HIDE DEF new, longer
  <2>4. /\ Len(new) + 1 = Len(h) + 1
        /\ new[Len(new)] = s
        /\ \A i \in 1 .. Len(new) - 1 : new[i] = h[i + 1]
    BY <1>1, <1>2, <2>2, <2>3
  <2> QED
    BY <2>1, <2>4
<1> QED
  BY <1>3, <1>4

LEMMA PushReported ==
  ASSUME NEW h \in Seq(Samples), Len(h) <= HistoryCapacity, WellReported(h),
         NEW s \in Samples, Reported(s), Probed(s)
  PROVE  WellReported(Push(h, s))
<1> DEFINE new == Push(h, s)
<1>1. Len(new) \in Nat /\ Len(h) \in Nat
  <2>1. new \in Seq(Samples)
    BY PushType
  <2> HIDE DEF new
  <2> QED
    BY <2>1
<1>2. PICK d \in {0, 1} :
        /\ Len(new) + d = Len(h) + 1
        /\ new[Len(new)] = s
        /\ \A i \in 1 .. Len(new) - 1 : new[i] = h[i + d]
  BY PushIndex
<1> HIDE DEF new
<1>3. ASSUME NEW i \in 1 .. Len(new)
      PROVE  Reported(new[i]) /\ (i >= 2 => Probed(new[i]))
  <2>1. CASE i = Len(new)
    BY <1>2, <2>1
  <2>2. CASE i # Len(new)
    <3>1. /\ i \in 1 .. Len(new) - 1 /\ i + d \in 1 .. Len(h)
          /\ i >= 2 => i + d \in 2 .. Len(h)
      BY <1>1, <1>2, <2>2
    <3> QED
      BY <1>2, <3>1 DEF WellReported, AllReported
  <2> QED
    BY <2>1, <2>2
<1> QED
  BY <1>1, <1>3 DEF WellReported, AllReported, new

(* A rejection stands while samples that are no pass follow, even when it  *)
(* has left the window; and a new one stands.                              *)
LEMMA PushRejection ==
  ASSUME NEW h \in Seq(Samples), Len(h) <= HistoryCapacity,
         NEW s \in Samples, NEW service,
         \/ SinceRejection(h, service) /\ ~ PassedIn(s, service)
         \/ IsRejection(OwnVerdict(s, service))
  PROVE  SinceRejection(Push(h, s), service)
<1> DEFINE new == Push(h, s)
<1>1. Len(new) \in Nat \ {0} /\ Len(h) \in Nat
  <2>1. new \in Seq(Samples) /\ Len(new) \in 1 .. HistoryCapacity
    BY PushType
  <2> HIDE DEF new
  <2> QED
    BY <2>1
<1>2. PICK d \in {0, 1} :
        /\ Len(new) + d = Len(h) + 1
        /\ new[Len(new)] = s
        /\ \A i \in 1 .. Len(new) - 1 : new[i] = h[i + d]
  BY PushIndex
<1> HIDE DEF new
<1>3. CASE IsRejection(OwnVerdict(s, service))
  <2>1. Len(new) \in 0 .. Len(new) /\ Len(new) + 1 .. Len(new) = {}
    BY <1>1
  <2> QED
    BY <1>2, <1>3, <2>1 DEF SinceRejection, new
<1>4. CASE SinceRejection(h, service) /\ ~ PassedIn(s, service)
  <2>1. PICK j \in 0 .. Len(h) :
          /\ j > 0 => IsRejection(OwnVerdict(h[j], service))
          /\ \A i \in j + 1 .. Len(h) : ~ PassedIn(h[i], service)
    BY <1>4 DEF SinceRejection
  <2>2. PICK k \in 0 .. Len(new) - 1 : k = IF j > d THEN j - d ELSE 0
    <3>1. CASE j > d
      <4>1. j - d \in 0 .. Len(new) - 1
        BY <1>1, <1>2, <3>1
      <4> QED
        BY <3>1, <4>1
    <3>2. CASE ~ (j > d)
      <4>1. 0 \in 0 .. Len(new) - 1
        BY <1>1
      <4> QED
        BY <3>2, <4>1
    <3> QED
      BY <3>1, <3>2
  <2>3. k > 0 => IsRejection(OwnVerdict(new[k], service))
    <3>1. k > 0 => k \in 1 .. Len(new) - 1 /\ k + d = j /\ j > 0
      BY <1>1, <2>2
    <3> QED
      BY <1>2, <2>1, <3>1
  <2>4. ASSUME NEW i \in k + 1 .. Len(new)
        PROVE  ~ PassedIn(new[i], service)
    <3>1. CASE i = Len(new)
      BY <1>2, <1>4, <3>1
    <3>2. CASE i # Len(new)
      <4>1. i \in 1 .. Len(new) - 1 /\ i + d \in j + 1 .. Len(h)
        BY <1>1, <1>2, <2>2, <3>2
      <4> QED
        BY <1>2, <2>1, <4>1
    <3> QED
      BY <3>1, <3>2
  <2>5. k \in 0 .. Len(new)
    BY <1>1, <2>2
  <2> QED
    BY <2>3, <2>4, <2>5 DEF SinceRejection, new
<1> QED
  BY <1>3, <1>4

(* What a probe result leaves in the history, and what a version 1 file    *)
(* left there.                                                             *)
LEMMA SampleProbed ==
  ASSUME NEW r \in Results
  PROVE  /\ Reported(SampleOf(r)) /\ Probed(SampleOf(r))
         /\ \A service \in Services :
              /\ PassedIn(SampleOf(r), service) => PassedIn(r, service)
              /\ IsRejection(OwnVerdict(r, service))
                   => IsRejection(OwnVerdict(SampleOf(r), service))
<1> DEFINE s == SampleOf(r)
<1>1. r \in Samples /\ s \in Samples
  BY StoreAssumption, SampleOfType
<1>2. /\ r.transport = "failed" => r.status # "passed"
      /\ \A v \in {GeminiVerdict(r), r.claude} :
           /\ v.category = "none" => v.status = "passed"
           /\ v.status = "failed" =>
                v.category \notin {"target_rate_limited", "proxy_rate_limited", "target_error"}
  BY ProbeAssumption
<1>3. /\ s.status = r.status /\ s.transport = r.transport
      /\ GeminiVerdict(s) = GeminiVerdict(r)
      /\ FailsEveryService(s) <=> FailsEveryService(r)
  BY DEF SampleOf, GeminiVerdict, FailsEveryService
<1>4. \/ s.claude = r.claude /\ (r.claude = NoVerdict => ~ FailsEveryService(r))
      \/ s.claude = GeminiVerdict(r) /\ r.claude = NoVerdict /\ FailsEveryService(r)
  BY DEF SampleOf
<1>5. GeminiVerdict(r) # NoVerdict
  BY <1>1 DEF GeminiVerdict, NoVerdict, Samples, Statuses
<1>6. FailsEveryService(r) => GeminiVerdict(r).status # "passed"
  BY <1>2 DEF FailsEveryService, GeminiVerdict
<1> HIDE DEF s
<1>7. Reported(s)
  BY <1>1, <1>2, <1>3, <1>4 DEF Reported
<1>8. Probed(s)
  BY <1>2, <1>3, <1>4, <1>5 DEF Probed
<1>9. ASSUME NEW service \in Services, PassedIn(s, service) PROVE PassedIn(r, service)
  BY <1>3, <1>4, <1>6, <1>9 DEF PassedIn, OwnVerdict
<1>10. ASSUME NEW service \in Services, IsRejection(OwnVerdict(r, service))
       PROVE  IsRejection(OwnVerdict(s, service))
  <2>1. ~ IsRejection(NoVerdict)
    BY DEF IsRejection, NoVerdict
  <2> QED
    BY <1>3, <1>4, <1>10, <2>1 DEF OwnVerdict
<1> QED
  BY <1>7, <1>8, <1>9, <1>10 DEF s

LEMMA MigratedReported ==
  ASSUME NEW f \in LegacyResults
  PROVE  /\ WellReported(Migrated(f).history)
         /\ IsRejection(GeminiVerdict(Last(Migrated(f).history))) =>
              /\ SinceRejection(Migrated(f).history, "gemini")
              /\ ~ InGrace(Migrated(f))
<1> DEFINE h == Migrated(f).history
<1>1. h = <<f.result>> /\ f.result \in Samples /\ f.result.claude = NoVerdict
  BY StoreAssumption DEF Migrated, Legacies
<1>2. Reported(f.result)
  BY <1>1, ProbeAssumption DEF Reported
<1>3. Len(h) = 1 /\ h[1] = f.result /\ Last(h) = f.result
  BY <1>1 DEF Last
<1> HIDE DEF h
<1>4. WellReported(h)
  BY <1>2, <1>3 DEF WellReported, AllReported
<1>5. ASSUME IsRejection(GeminiVerdict(f.result))
      PROVE  SinceRejection(h, "gemini") /\ ~ InGrace(Migrated(f))
  <2>1. 1 \in 0 .. Len(h) /\ 1 + 1 .. Len(h) = {}
    BY <1>3
  <2>2. SinceRejection(h, "gemini")
    BY <1>3, <1>5, <2>1 DEF SinceRejection, OwnVerdict
  <2>3. f.result.status # "inconclusive"
    BY <1>5 DEF IsRejection, GeminiVerdict
  <2> QED
    BY <1>3, <2>2, <2>3 DEF InGrace, h
<1> QED
  BY <1>3, <1>4, <1>5 DEF h

(* Every record's samples are reported ones, and a rejection the program   *)
(* must still remember stands in the record's history.  The grace, which   *)
(* lets Gemini's threshold be missed, is not for who was rejected.         *)
EvidenceOK(recs, rej) ==
  /\ \A l \in Links : recs[l] # NoRecord => WellReported(recs[l].history)
  /\ \A p \in rej : /\ SinceRejection(recs[p[1]].history, p[2])
                    /\ p[2] = "gemini" => ~ InGrace(recs[p[1]])

LEMMA InitEvidence == Init => EvidenceOK(records, rejected)
<1> SUFFICES ASSUME Init PROVE EvidenceOK(records, rejected)
  OBVIOUS
<1>1. \A l \in Known : \E f \in LegacyResults : records[l] = Migrated(f)
  BY DEF Init, Known
<1>2. \A l \in Links : records[l] # NoRecord => WellReported(records[l].history)
  BY <1>1, MigratedReported DEF Known
<1>3. ASSUME NEW p \in rejected
      PROVE  /\ SinceRejection(records[p[1]].history, p[2])
             /\ ~ InGrace(records[p[1]])
  <2>1. /\ p[1] \in Known /\ p[2] = "gemini"
        /\ IsRejection(GeminiVerdict(Last(records[p[1]].history)))
    BY DEF Init
  <2>2. PICK f \in LegacyResults : records[p[1]] = Migrated(f)
    BY <1>1, <2>1
  <2> QED
    BY <2>1, <2>2, MigratedReported
<1> QED
  BY <1>2, <1>3 DEF EvidenceOK

LEMMA PutEvidence ==
  ASSUME IInv, EvidenceOK(records, rejected),
         NEW l \in Links, NEW r \in Results, PutWithTransition(l, r)
  PROVE  EvidenceOK(records', rejected')
<1> DEFINE old == IF records[l] = NoRecord THEN NewRecord ELSE records[l]
<1>1. /\ records'[l] = Observed(old, r)
      /\ \A k \in Links \ {l} : records'[k] = records[k]
      /\ rejected' = RejectedAfter(l, r)
  BY DEF PutWithTransition, IInv, TypeOK
<1>2. /\ old.history \in Seq(Samples)
      /\ Len(old.history) <= HistoryCapacity
      /\ WellReported(old.history)
  <2>1. CASE records[l] = NoRecord
    BY <2>1, StoreAssumption DEF NewRecord, WellReported, AllReported
  <2>2. CASE records[l] # NoRecord
    <3>1. RecordOK(records[l]) /\ WellReported(records[l].history)
      BY <2>2 DEF IInv, TypeOK, Known, EvidenceOK
    <3> QED
      BY <2>2, <3>1, StoreAssumption DEF RecordOK
  <2> QED
    BY <2>1, <2>2
<1>3. l \in Known => old = records[l]
  BY DEF Known
<1> HIDE DEF old
<1> DEFINE s == SampleOf(r)
           new == Push(old.history, s)
<1>4. s \in Samples /\ r \in Samples
  BY StoreAssumption, SampleOfType
<1>5. /\ records'[l].history = new
      /\ records'[l].previouslyPassed = PreviouslyPassed(new)
  BY <1>1 DEF Observed
<1>6. new \in Seq(Samples) /\ WellReported(new)
  BY <1>2, <1>4, PushType, PushReported, SampleProbed
<1> HIDE DEF new, s
<1>7. ~ InGrace(records'[l])
  BY <1>5, <1>6, ComputedHasNoGrace
<1>8. ASSUME NEW p \in rejected'
      PROVE  /\ SinceRejection(records'[p[1]].history, p[2])
             /\ p[2] = "gemini" => ~ InGrace(records'[p[1]])
  <2>1. \/ p \in rejected /\ (p[1] = l => ~ PassedIn(r, p[2]))
        \/ p[1] = l /\ p[2] \in Services /\ IsRejection(OwnVerdict(r, p[2]))
    <3>1. p \in RejectedAfter(l, r)
      BY <1>1
    <3>2. \/ /\ p \in rejected
             /\ p \notin {<<l, service>> : service \in
                    {v \in Services : OwnVerdict(r, v).status = "passed"}}
          \/ p \in {<<l, service>> : service \in
                    {v \in Services : IsRejection(OwnVerdict(r, v))}}
      BY <3>1 DEF RejectedAfter, OwnVerdict
    <3>3. p \in rejected => p = <<p[1], p[2]>> /\ p[2] \in Services
      BY DEF IInv, TypeOK
    <3> QED
      BY <3>2, <3>3 DEF PassedIn
  <2>2. p \in rejected => p[1] \in Known /\ p[2] \in Services
    BY DEF IInv, TypeOK
  <2>3. CASE p[1] # l
    <3>1. p \in rejected /\ p[1] \in Links \ {l}
      BY <2>1, <2>2, <2>3 DEF Known
    <3> QED
      BY <1>1, <3>1 DEF EvidenceOK
  <2>4. CASE p[1] = l
    <3>1. \/ SinceRejection(old.history, p[2]) /\ ~ PassedIn(s, p[2])
          \/ IsRejection(OwnVerdict(s, p[2]))
      <4>1. CASE p \in rejected /\ ~ PassedIn(r, p[2])
        <5>1. SinceRejection(old.history, p[2])
          BY <1>3, <2>2, <2>4, <4>1 DEF EvidenceOK
        <5> QED
          BY <2>2, <4>1, <5>1, SampleProbed DEF s
      <4>2. CASE p[2] \in Services /\ IsRejection(OwnVerdict(r, p[2]))
        BY <4>2, SampleProbed DEF s
      <4> QED
        BY <2>1, <2>4, <4>1, <4>2
    <3>2. SinceRejection(new, p[2])
      BY <1>2, <1>4, <3>1, PushRejection DEF new
    <3> QED
      BY <1>5, <1>7, <2>4, <3>2
  <2> QED
    BY <2>3, <2>4
<1>9. \A k \in Links : records'[k] # NoRecord => WellReported(records'[k].history)
  BY <1>1, <1>5, <1>6 DEF EvidenceOK
<1> QED
  BY <1>8, <1>9 DEF EvidenceOK

(* Absences change no history. *)
LEMMA FinishEvidence ==
  ASSUME IInv, EvidenceOK(records, rejected), FinishCycle
  PROVE  EvidenceOK(records', rejected')
<1>1. /\ \A l \in Links : records'[l] = Committed(l)
      /\ \A p \in rejected' : p \in rejected /\ Committed(p[1]) # NoRecord
  BY DEF FinishCycle
<1>2. ASSUME NEW l \in Links, Committed(l) # NoRecord
      PROVE  /\ records[l] # NoRecord
             /\ Committed(l).history = records[l].history
             /\ InGrace(Committed(l)) <=> InGrace(records[l])
  <2>1. records[l] # NoRecord
    BY <1>2 DEF Committed
  <2>2. \/ Committed(l) = records[l]
        \/ \E n \in {0, records[l].absentCycles + 1} :
             Committed(l) = WithAbsences(records[l], n)
    BY <1>2, <2>1 DEF Committed
  <2>3. ASSUME NEW n
        PROVE  /\ WithAbsences(records[l], n).history = records[l].history
               /\ InGrace(WithAbsences(records[l], n)) <=> InGrace(records[l])
    BY DEF WithAbsences, InGrace
  <2> QED
    BY <2>1, <2>2, <2>3
<1>3. \A p \in rejected : p[1] \in Links
  BY DEF IInv, TypeOK, Known
<1> QED
  BY <1>1, <1>2, <1>3 DEF EvidenceOK

LEMMA NextEvidence ==
  ASSUME IInv, EvidenceOK(records, rejected), [Next]_vars
  PROVE  EvidenceOK(records', rejected')
<1>1. CASE records' = records /\ rejected' = rejected
  BY <1>1
<1>2. ASSUME NEW l \in Links, NEW r \in Results, PutWithTransition(l, r)
      PROVE  EvidenceOK(records', rejected')
  BY <1>2, PutEvidence
<1>3. CASE FinishCycle
  BY <1>3, FinishEvidence
<1> QED
  BY <1>1, <1>2, <1>3 DEF Next, StartCycle, CancelCycle, vars

-----------------------------------------------------------------------------
(* What the score gate rests on, in one process and across restarts.       *)

LEMMA Served ==
  ASSUME IInv, EvidenceOK(records, rejected),
         NEW service \in Services, NEW l \in PassingFor(service)
  PROVE  /\ records[l].history \in Seq(Samples)
         /\ Len(records[l].history) \in 1 .. HistoryCapacity
         /\ WellReported(records[l].history)
         /\ ~ PolicyRejects(records[l], service)
         /\ \/ ScoreReached(records[l].history, service)
            \/ service = "gemini" /\ InGrace(records[l])
<1>1. l \in Links /\ l \in Known /\ PassesGates(records[l], service)
  BY DEF PassingFor, Servable
<1>2. RecordOK(records[l]) /\ WellReported(records[l].history)
  BY <1>1 DEF IInv, TypeOK, Known, EvidenceOK
<1> QED
  BY <1>1, <1>2 DEF RecordOK, PassesGates

LEMMA PassGate == IInv /\ EvidenceOK(records, rejected) => ServedHasPassed
<1> SUFFICES ASSUME IInv, EvidenceOK(records, rejected),
                    NEW service \in Services, NEW l \in PassingFor(service),
                    ~ (service = "gemini" /\ InGrace(records[l])),
                    \A i \in DOMAIN records[l].history :
                      ~ PassedIn(records[l].history[i], service)
             PROVE  FALSE
  BY DEF ServedHasPassed, PassedIn, OwnVerdict, GeminiVerdict
<1> DEFINE h == records[l].history
<1>1. /\ h \in Seq(Samples) /\ Len(h) \in 1 .. HistoryCapacity
      /\ WellReported(h) /\ ScoreReached(h, service)
  BY Served
<1>2. AllReported(h) /\ \A i \in 1 .. Len(h) : ~ PassedIn(h[i], service)
  BY <1>1 DEF WellReported
<1> HIDE DEF h
<1>3. \A i \in 1 .. Len(h) : Weight(SampleServiceOutcome(h[i], service)) <= 5
  BY <1>2, OutcomeWeights DEF AllReported
<1>4. Len(h) > 0
  BY <1>1
<1> QED
  BY <1>1, <1>2, <1>3, <1>4, NoPassNoScore

LEMMA InLonger ==
  ASSUME NEW n, NEW c \in Nat, n \in 1 .. c, NEW m \in Nat, c <= m
  PROVE  n \in 1 .. m /\ n \in 1 .. n /\ n > n - 3
OBVIOUS

LEMMA FailureGate ==
  IInv /\ EvidenceOK(records, rejected) =>
    (HistoryCapacity <= 16 => ThreeFailuresUnserve)
<1> SUFFICES ASSUME IInv, EvidenceOK(records, rejected), HistoryCapacity <= 16,
                    NEW service \in Services, NEW l \in PassingFor(service),
                    \A i \in DOMAIN records[l].history :
                      i > Len(records[l].history) - 3 =>
                        SampleServiceOutcome(records[l].history[i], service).status = "failed"
             PROVE  FALSE
  BY DEF ThreeFailuresUnserve
<1> DEFINE h == records[l].history
<1>1. /\ h \in Seq(Samples) /\ Len(h) \in 1 .. HistoryCapacity
      /\ WellReported(h)
      /\ ScoreReached(h, service) \/ (service = "gemini" /\ InGrace(records[l]))
  BY Served
<1>2. \A i \in 1 .. Len(h) : i > Len(h) - 3 =>
        SampleServiceOutcome(h[i], service).status = "failed"
  BY <1>1
<1>3. Last(h) = h[Len(h)]
  BY DEF Last
<1>4. InGrace(records[l]) => Last(h).status = "inconclusive"
  BY DEF InGrace
<1> HIDE DEF h
<1>5. Len(h) \in 1 .. 16 /\ Len(h) \in 1 .. Len(h) /\ Len(h) > Len(h) - 3
  <2>1. HistoryCapacity \in Nat /\ Len(h) \in 1 .. HistoryCapacity
    BY <1>1, StoreAssumption
  <2> QED
    BY <2>1, InLonger
<1>6. ~ ScoreReached(h, service)
  BY <1>1, <1>2, <1>5, ThreeFailuresNoScore
<1>7. ~ (service = "gemini" /\ InGrace(records[l]))
  <2>1. service = "gemini" => h[Len(h)].status = "failed"
    BY <1>2, <1>5 DEF SampleServiceOutcome, GeminiVerdict
  <2> QED
    BY <1>3, <1>4, <2>1
<1> QED
  BY <1>1, <1>6, <1>7

LEMMA RejectionGate ==
  IInv /\ EvidenceOK(records, rejected) =>
    (HistoryCapacity <= 11 => RejectedUntilPass)
<1> SUFFICES ASSUME IInv, EvidenceOK(records, rejected), HistoryCapacity <= 11,
                    NEW service \in Services, NEW l \in PassingFor(service),
                    <<l, service>> \in rejected
             PROVE  LET newest == Last(records[l].history)
                    IN  /\ service = "claude"
                        /\ newest.claude.status = "inconclusive"
                        /\ FailsEveryService(newest)
  BY DEF RejectedUntilPass
<1> DEFINE h == records[l].history
<1>1. /\ h \in Seq(Samples) /\ Len(h) \in 1 .. HistoryCapacity
      /\ WellReported(h) /\ ~ PolicyRejects(records[l], service)
      /\ ScoreReached(h, service) \/ (service = "gemini" /\ InGrace(records[l]))
  BY Served
<1>2. /\ SinceRejection(h, service)
      /\ service = "gemini" => ~ InGrace(records[l])
  BY DEF EvidenceOK
<1>3. Len(h) \in 1 .. 11
  <2> HIDE DEF h
  <2>1. HistoryCapacity \in Nat /\ Len(h) \in 1 .. HistoryCapacity
    BY <1>1, StoreAssumption
  <2> QED
    BY <2>1, InLonger
<1> QED
  BY <1>1, <1>2, <1>3, RejectedNoScore

LEMMA EvidenceInductive == Spec => [](IInv /\ EvidenceOK(records, rejected))
<1>1. IInv /\ EvidenceOK(records, rejected) /\ [Next]_vars
        => (IInv /\ EvidenceOK(records, rejected))'
  BY NextIInv, NextEvidence
<1> QED
  BY <1>1, InitIInv, InitEvidence, PTL DEF Spec

(* The file holds what the store held. *)
DurableEvidence ==
  /\ DurableIInv
  /\ EvidenceOK(records, rejected)
  /\ EvidenceOK(disk.records, disk.rejected)

LEMMA RestartEvidence ==
  ASSUME DurableEvidence, Restart
  PROVE  EvidenceOK(records', rejected')
<1>1. records' = Loaded(disk) /\ rejected' = disk.rejected
  BY DEF Restart
<1>2. /\ SnapshotOK /\ EvidenceOK(disk.records, disk.rejected)
      /\ \A p \in disk.rejected : p[1] \in Links /\ disk.records[p[1]] # NoRecord
  BY DEF DurableEvidence, DurableIInv, SnapshotOK
<1>3. ASSUME NEW l \in Links, disk.records[l] # NoRecord
      PROVE  /\ Loaded(disk)[l].history = disk.records[l].history
             /\ InGrace(Loaded(disk)[l]) => InGrace(disk.records[l])
  <2>1. RecordOK(disk.records[l])
    BY <1>2, <1>3 DEF SnapshotOK, RecordsOK
  <2>2. /\ Reloaded(disk.records[l]).history = disk.records[l].history
        /\ ~ InGrace(Reloaded(disk.records[l]))
    BY <2>1, ReloadedOK DEF Reloaded
  <2> QED
    BY <1>3, <2>2 DEF Loaded
<1>4. \A l \in Links : Loaded(disk)[l] # NoRecord <=> disk.records[l] # NoRecord
  BY <1>2, LoadedRecords
<1> QED
  BY <1>1, <1>2, <1>3, <1>4 DEF EvidenceOK

LEMMA DurableEvidenceInductive == DurableSpec => []DurableEvidence
<1>1. DurableInit => DurableEvidence
  BY InitDurable, InitEvidence DEF DurableInit, DurableEvidence, Snapshot
<1>2. DurableEvidence /\ [DurableNext]_durableVars => DurableEvidence'
  <2> SUFFICES ASSUME DurableEvidence, [DurableNext]_durableVars
               PROVE  DurableEvidence'
    OBVIOUS
  <2>1. DurableIInv'
    BY NextDurable DEF DurableEvidence
  <2>2. CASE Restart
    BY <2>1, <2>2, RestartEvidence DEF DurableEvidence, Restart
  <2>3. CASE ~ Restart
    <3>1. /\ [Next]_vars
          /\ \/ disk' = disk
             \/ disk' = Snapshot(2) /\ records' = records /\ rejected' = rejected
      <4>1. CASE CycleStep
        BY <4>1 DEF CycleStep
      <4>2. CASE Save
        BY <4>2 DEF Save, vars
      <4>3. CASE SaveFails \/ UNCHANGED durableVars
        BY <4>3 DEF SaveFails, durableVars
      <4> QED
        BY <2>3, <4>1, <4>2, <4>3 DEF DurableNext
    <3>2. EvidenceOK(records', rejected')
      BY <3>1, NextEvidence DEF DurableEvidence, DurableIInv
    <3>3. EvidenceOK(disk'.records, disk'.rejected)
      BY <3>1 DEF DurableEvidence, Snapshot
    <3> QED
      BY <2>1, <3>2, <3>3 DEF DurableEvidence
  <2> QED
    BY <2>2, <2>3
<1> QED
  BY <1>1, <1>2, PTL DEF DurableSpec

(* A candidate is in a target's subscription only on the strength of a     *)
(* pass of that target in its window, or of the grace of a version 1       *)
(* record: whatever failed or inconclusive outcomes the probes report, in  *)
(* whatever order and number, they do not add up to the threshold, before  *)
(* a restart or after (store.go 114-186, 338-375).                         *)
THEOREM ServedOnAPass == Spec \/ DurableSpec => []ServedHasPassed
<1>1. DurableEvidence => IInv /\ EvidenceOK(records, rejected)
  BY DEF DurableEvidence, DurableIInv
<1> QED
  BY <1>1, EvidenceInductive, DurableEvidenceInductive, PassGate, PTL

(* Three failures in a row unserve a candidate whatever it did before, if  *)
(* the window holds at most sixteen samples (it holds ten); of seventeen,  *)
(* fourteen passes would outweigh three timeouts (store.go 338-375).       *)
THEOREM FailuresUnserve ==
  Spec \/ DurableSpec => [](HistoryCapacity <= 16 => ThreeFailuresUnserve)
<1>1. DurableEvidence => IInv /\ EvidenceOK(records, rejected)
  BY DEF DurableEvidence, DurableIInv
<1> QED
  BY <1>1, EvidenceInductive, DurableEvidenceInductive, FailureGate, PTL

(* Whom a target rejected by policy it does not get back before a pass,    *)
(* if the window holds at most eleven samples, but for the one gap of the  *)
(* override that RejectedUntilPass names (store.go 114-186).               *)
THEOREM RejectionsStand ==
  Spec \/ DurableSpec => [](HistoryCapacity <= 11 => RejectedUntilPass)
<1>1. DurableEvidence => IInv /\ EvidenceOK(records, rejected)
  BY DEF DurableEvidence, DurableIInv
<1> QED
  BY <1>1, EvidenceInductive, DurableEvidenceInductive, RejectionGate, PTL

-----------------------------------------------------------------------------
(* Gate 2 for Gemini, which has no gap.                                    *)

LEMMA NewestExists ==
  \A n \in Nat : \A S \in SUBSET (1 .. n) :
    S # {} => \E m \in S : \A k \in S : k <= m
<1> DEFINE Has == {n \in Nat : \A S \in SUBSET (1 .. n) :
                     S # {} => \E m \in S : \A k \in S : k <= m}
<1>1. 0 \in Has
  <2>1. \A S \in SUBSET (1 .. 0) : S = {}
    OBVIOUS
  <2> QED
    BY <2>1
<1>2. ASSUME NEW n \in Nat, n \in Has PROVE n + 1 \in Has
  <2> SUFFICES ASSUME NEW S \in SUBSET (1 .. n + 1), S # {}
               PROVE  \E m \in S : \A k \in S : k <= m
    OBVIOUS
  <2>1. CASE n + 1 \in S
    BY <2>1
  <2>2. CASE n + 1 \notin S
    <3>1. S \in SUBSET (1 .. n)
      BY <2>2
    <3> QED
      BY <1>2, <3>1
  <2> QED
    BY <2>1, <2>2
<1> HIDE DEF Has
<1>3. Nat \subseteq Has
  BY <1>1, <1>2, SetInduction
<1> QED
  BY <1>3 DEF Has

(* No rejection in the window of a candidate that Gemini is served is the  *)
(* newest word.                                                            *)
GeminiOverrideHolds ==
  \A l \in PassingFor("gemini") :
    LET history == records[l].history
    IN  \A i \in DOMAIN history :
          IsRejection(GeminiVerdict(history[i])) =>
            \E j \in i .. Len(history) :
              /\ history[j].status \in {"passed", "failed"}
              /\ ~ IsRejection(GeminiVerdict(history[j]))

LEMMA GeminiGate == IInv /\ EvidenceOK(records, rejected) => GeminiOverrideHolds
<1> SUFFICES ASSUME IInv, EvidenceOK(records, rejected),
                    NEW l \in PassingFor("gemini"),
                    NEW i \in DOMAIN records[l].history,
                    IsRejection(GeminiVerdict(records[l].history[i])),
                    \A j \in i .. Len(records[l].history) :
                      records[l].history[j].status \in {"passed", "failed"} =>
                        IsRejection(GeminiVerdict(records[l].history[j]))
             PROVE  FALSE
  BY DEF GeminiOverrideHolds
<1> DEFINE rec == records[l]
           h == rec.history
           at == ConclusiveFor(h, "gemini")
<1>1. "gemini" \in Services
  BY DEF Services
<1>2. h \in Seq(Samples) /\ ~ PolicyRejects(rec, "gemini")
  BY <1>1, Served
<1>3. /\ Len(h) \in Nat /\ DOMAIN h = 1 .. Len(h) /\ i \in 1 .. Len(h)
      /\ \A k \in 1 .. Len(h) : h[k].status \in Statuses
  <2>1. Len(h) \in Nat /\ DOMAIN h = 1 .. Len(h)
    BY <1>2
  <2>2. ASSUME NEW k \in 1 .. Len(h) PROVE h[k].status \in Statuses
    <3>1. h[k] \in Samples
      BY <1>2
    <3> QED
      BY <3>1 DEF Samples
  <2> QED
    BY <2>1, <2>2
<1>4. at = {k \in 1 .. Len(h) : h[k].status # "inconclusive"}
  BY <1>3 DEF ConclusiveFor
<1>5. i \in at
  BY <1>3, <1>4 DEF IsRejection, GeminiVerdict
<1>6. PICK m \in at : \A k \in at : k <= m
  <2>1. at \in SUBSET (1 .. Len(h)) /\ at # {}
    BY <1>4, <1>5
  <2> HIDE DEF at, h
  <2> QED
    BY <1>3, <2>1, NewestExists
<1>7. m \in i .. Len(h) /\ m \in 1 .. Len(h) /\ h[m].status \in {"passed", "failed"}
  BY <1>3, <1>4, <1>5, <1>6 DEF Statuses
<1>8. IsRejection(OwnVerdict(h[m], "gemini"))
  BY <1>7 DEF OwnVerdict
<1>9. \A k \in m + 1 .. Len(h) : k \notin at
  <2> HIDE DEF at, h
  <2> QED
    BY <1>3, <1>6, <1>7
<1> HIDE DEF rec
<1> QED
  BY <1>1, <1>2, <1>7, <1>8, <1>9, LatestRejection

(* For Gemini the override is what ticket 09 says it is, whatever the      *)
(* score: a candidate is in its subscription only if every region block    *)
(* and denial in its window has been followed by another conclusive        *)
(* outcome (store.go 221-229, history.go 323-336).                         *)
THEOREM GeminiOverride == Spec \/ DurableSpec => []GeminiOverrideHolds
<1>1. DurableEvidence => IInv /\ EvidenceOK(records, rejected)
  BY DEF DurableEvidence, DurableIInv
<1> QED
  BY <1>1, EvidenceInductive, DurableEvidenceInductive, GeminiGate, PTL

-----------------------------------------------------------------------------
(* The file a saved state goes to, whatever the number of its versions.    *)

(* A file that the primary name names, or would name after a power         *)
(* failure, is one that was synced whole before it got the name and that   *)
(* nothing has written since: the temporary file is always another one.    *)
NamedWhole(directory) ==
  directory["primary"] # NoFile =>
    /\ data[directory["primary"]] \in past
    /\ durData[directory["primary"]] = data[directory["primary"]]
    /\ directory["tmp"] # directory["primary"]
    /\ dir["tmp"] # directory["primary"]

(* How far the file being saved has got. *)
TmpProgress ==
  /\ pc \in {"opened", "written", "synced", "closed"} => dir["tmp"] # NoFile
  /\ pc \in {"written", "synced", "closed"} => data[dir["tmp"]] = snap
  /\ pc \in {"synced", "closed"} => durData[dir["tmp"]] = snap

FileIInv ==
  /\ FileTypeOK
  /\ 0 \in past
  /\ NamedWhole(dir)
  /\ NamedWhole(durDir)
  /\ TmpProgress

LEMMA FileInitIInv == FileInit => FileIInv
BY FileAssumption DEF FileInit, FileIInv, FileTypeOK, NamedWhole, TmpProgress, Versions, Contents, Names, Torn

LEMMA FileStepIInv == FileIInv /\ [FileNext]_saveVars => FileIInv'
<1> SUFFICES ASSUME FileIInv, [FileNext]_saveVars PROVE FileIInv'
  OBVIOUS
<1> USE FileAssumption DEF FileIInv, FileTypeOK, NamedWhole, TmpProgress, Versions, Contents, Names
<1>1. CASE ChangeStore
  BY <1>1 DEF ChangeStore, fileVars
<1>2. CASE OpenTmp
  <2>1. CASE dir["tmp"] # NoFile
    BY <1>2, <2>1 DEF OpenTmp
  <2>2. CASE dir["tmp"] = NoFile
    <3>1. PICK i \in {f \in Inodes : \A n \in Names : dir[n] # f /\ durDir[n] # f} :
            /\ dir' = [dir EXCEPT !["tmp"] = i]
            /\ data' = [data EXCEPT ![i] = Torn]
            /\ durData' = [durData EXCEPT ![i] = Torn]
      BY <1>2, <2>2 DEF OpenTmp
    <3>2. /\ pc' = "opened" /\ snap' = mem /\ UNCHANGED <<mem, durDir, past>>
      BY <1>2 DEF OpenTmp
    <3> QED
      BY <2>2, <3>1, <3>2 DEF Torn
  <2> QED
    BY <2>1, <2>2
<1>3. CASE Write
  BY <1>3 DEF Write
<1>4. CASE Sync
  BY <1>4 DEF Sync
<1>5. CASE Close
  BY <1>5 DEF Close, fileVars
<1>6. CASE Rename
  BY <1>6 DEF Rename
<1>7. CASE SaveAborts
  BY <1>7 DEF SaveAborts
<1>8. CASE Kill
  BY <1>8 DEF Kill, fileVars
<1>9. CASE PowerLoss
  BY <1>9 DEF PowerLoss
<1>10. ASSUME NEW i \in Inodes, WriteBack(i) PROVE FileIInv'
  BY <1>10 DEF WriteBack
<1>11. CASE CommitDirectory
  BY <1>11 DEF CommitDirectory
<1>12. CASE Load
  BY <1>12 DEF Load, fileVars, Readable, Torn
<1>13. CASE LoadFails
  BY <1>13 DEF LoadFails, fileVars
<1>14. CASE UNCHANGED saveVars
  BY <1>14 DEF saveVars
<1>15. QED
  BY <1>1, <1>2, <1>3, <1>4, <1>5, <1>6, <1>7, <1>8, <1>9, <1>10, <1>11, <1>12,
     <1>13, <1>14 DEF FileNext

(* Types hold in every reachable state. *)
THEOREM SnapshotFileTypeOK == FileSpec => []FileTypeOK
<1>1. FileIInv => FileTypeOK
  BY DEF FileIInv
<1>2. QED
  BY <1>1, FileInitIInv, FileStepIInv, PTL DEF FileSpec

LEMMA FileIInvIntact == FileIInv => PrimaryIntact
BY FileAssumption DEF FileIInv, FileTypeOK, NamedWhole, PrimaryIntact, Readable, Versions, Torn

(* No kill and no power failure between any two calls of Save leaves a     *)
(* state file that Load would reject.                                      *)
THEOREM SnapshotFileIntact == FileSpec => []PrimaryIntact
<1>1. QED
  BY FileInitIInv, FileStepIInv, FileIInvIntact, PTL DEF FileSpec

LEMMA FileStepImplements ==
  FileIInv /\ [FileNext]_saveVars => [Cell!Next]_(Cell!vars)
<1> SUFFICES ASSUME FileIInv, [FileNext]_saveVars PROVE [Cell!Next]_(Cell!vars)
  OBVIOUS
<1> USE FileAssumption DEF FileIInv, FileTypeOK, Cell!vars, Readable
<1>1. CASE ChangeStore
  BY <1>1 DEF ChangeStore, fileVars
<1>2. CASE OpenTmp
  <2>1. Readable(dir, data)' = Readable(dir, data)
    BY <1>2 DEF OpenTmp, NamedWhole, Names
  <2>2. Cell!Begin(mem)
    BY <1>2, <2>1 DEF OpenTmp, Cell!Begin
  <2> QED
    BY <2>2 DEF Cell!Next
<1>3. CASE Write
  BY <1>3 DEF Write, NamedWhole, TmpProgress
<1>4. CASE Sync
  BY <1>4 DEF Sync
<1>5. CASE Close
  BY <1>5 DEF Close, fileVars
<1>6. CASE Rename
  <2>1. Readable(dir, data)' = snap
    BY <1>6 DEF Rename, TmpProgress, Names
  <2>2. Cell!Replace
    BY <1>6, <2>1 DEF Rename, Cell!Replace
  <2> QED
    BY <2>2 DEF Cell!Next
<1>7. CASE SaveAborts
  BY <1>7 DEF SaveAborts, Names
<1>8. CASE Kill
  <2>1. Cell!Stop
    BY <1>8 DEF Kill, fileVars, Cell!Stop, Versions
  <2> QED
    BY <2>1 DEF Cell!Next
<1>9. CASE PowerLoss
  <2>1. Readable(dir, data)' \in past
    BY <1>9 DEF PowerLoss, NamedWhole
  <2>2. Cell!PowerLoss(Readable(dir, data)')
    BY <1>9, <2>1 DEF PowerLoss, Cell!PowerLoss, Versions
  <2>3. Readable(dir, data)' \in Versions
    BY <2>1
  <2> QED
    BY <2>2, <2>3 DEF Cell!Next
<1>10. ASSUME NEW i \in Inodes, WriteBack(i) PROVE UNCHANGED Cell!vars
  BY <1>10 DEF WriteBack
<1>11. CASE CommitDirectory
  BY <1>11 DEF CommitDirectory
<1>12. CASE Load \/ LoadFails
  <2>1. Cell!Start
    BY <1>12 DEF Load, LoadFails, fileVars, Cell!Start
  <2> QED
    BY <2>1 DEF Cell!Next
<1>13. CASE UNCHANGED saveVars
  BY <1>13 DEF saveVars
<1>14. QED
  BY <1>1, <1>2, <1>3, <1>4, <1>5, <1>6, <1>7, <1>8, <1>9, <1>10, <1>11, <1>12,
     <1>13 DEF FileNext

(* The file is an atomic cell: see AtomicSnapshot. *)
THEOREM SnapshotFileIsAtomic == FileSpec => ImplementsAtomicSnapshot
<1>1. FileInit => Cell!Init
  BY FileAssumption DEF FileInit, Cell!Init, Readable, Versions, Names
<1>2. QED
  BY <1>1, FileInitIInv, FileStepIInv, FileStepImplements, PTL
  DEF FileSpec, ImplementsAtomicSnapshot, Cell!Spec

=============================================================================
