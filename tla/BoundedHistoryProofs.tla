------------------------ MODULE BoundedHistoryProofs ------------------------
(***************************************************************************)
(* For every capacity and every set of samples: the ring of probe samples  *)
(* stays well formed and implements the sliding window.                    *)
(***************************************************************************)
EXTENDS BoundedHistory, SequenceTheorems, TLAPS

(* Reducing a sum of two ring offsets modulo the capacity wraps once.      *)
LEMMA ModWrap ==
  ASSUME NEW c \in Nat, c > 0, NEW a \in Nat, a < 2 * c
  PROVE  a % c = IF a < c THEN a ELSE a - c
OBVIOUS

(* Moving the start one further shifts every offset by one, the last onto  *)
(* the slot just vacated.                                                  *)
LEMMA ModShift ==
  ASSUME NEW c \in Nat, c > 0, NEW start \in 0 .. c - 1, NEW i \in 0 .. c - 1
  PROVE  /\ start % c = start
         /\ (start + 0) % c = start
         /\ (((start + 1) % c) + i) % c =
              IF i = c - 1 THEN start ELSE (start + (i + 1)) % c
<1>1. (start + 1) % c = IF start + 1 < c THEN start + 1 ELSE 0
  BY ModWrap
<1>2. start % c = start /\ (start + 0) % c = start
  BY ModWrap
<1>3. (start + (i + 1)) % c = IF start + i + 1 < c THEN start + i + 1 ELSE start + i + 1 - c
  BY ModWrap
<1>4. CASE start + 1 < c
  <2>1. (start + 1 + i) % c = IF start + 1 + i < c THEN start + 1 + i ELSE start + 1 + i - c
    BY ModWrap
  <2>2. QED
    BY <1>1, <1>2, <1>3, <1>4, <2>1
<1>5. CASE start + 1 = c
  <2>1. (0 + i) % c = i
    BY ModWrap
  <2>2. QED
    BY <1>1, <1>2, <1>3, <1>5, <2>1
<1>6. QED
  BY <1>2, <1>4, <1>5

(* A slot is a position of the slice, and distinct offsets below the       *)
(* capacity occupy distinct slots.                                         *)
LEMMA SlotProperties ==
  ASSUME NEW b, b \in Buffer, b.capacity > 0, b.start < b.capacity
  PROVE  /\ \A i \in 0 .. b.capacity :
              Slot(b, i) = IF b.start + i < b.capacity THEN b.start + i + 1
                           ELSE b.start + i + 1 - b.capacity
         /\ \A i \in 0 .. b.capacity : Slot(b, i) \in 1 .. b.capacity
         /\ \A i, j \in 0 .. b.capacity - 1 :
              Slot(b, i) = Slot(b, j) => i = j
<1>1. b.capacity \in Nat /\ b.start \in Nat
  BY DEF Buffer
<1>2. ASSUME NEW i \in 0 .. b.capacity
      PROVE  Slot(b, i) = IF b.start + i < b.capacity THEN b.start + i + 1
                          ELSE b.start + i + 1 - b.capacity
  BY <1>1, ModWrap DEF Slot
<1>3. QED
  BY <1>1, <1>2

(* What NormalizeAndValidate promises for any struct read from a file,     *)
(* however damaged: capacity within the configured maximum, a slice of     *)
(* exactly that capacity, count and start within it (history.go 53-57).    *)
THEOREM NormalizeRepairs ==
  ASSUME NEW b \in [capacity : Int, count : Int, start : Int,
                    samples : Seq(Sample \cup {NoSample})],
         NEW maxCapacity \in Nat \ {0}
  PROVE  LET n == NormalizeAndValidate(b, maxCapacity)
         IN  /\ n \in Buffer
             /\ n.capacity \in 1 .. maxCapacity
             /\ Len(n.samples) = n.capacity
             /\ n.count \in 0 .. n.capacity
             /\ n.start \in 0 .. n.capacity - 1
<1> DEFINE capacity == IF b.capacity \in 1 .. maxCapacity THEN b.capacity ELSE maxCapacity
<1>1. capacity \in 1 .. maxCapacity /\ capacity \in Nat /\ Len(b.samples) \in Nat
  OBVIOUS
<1>2. CASE Len(b.samples) = capacity
  BY <1>1, <1>2 DEF NormalizeAndValidate, Buffer
<1>3. CASE Len(b.samples) # capacity /\ b.count > 0 /\ b.samples # <<>>
  <2>1. NormalizeAndValidate(b, maxCapacity) = Recopied(b, capacity)
    BY <1>3 DEF NormalizeAndValidate
  <2> HIDE DEF capacity
  <2>2. Len(b.samples) > 0
    BY <1>3, EmptySeq
  <2> DEFINE held  == IF b.count > Len(b.samples) THEN Len(b.samples) ELSE b.count
             skip  == IF held > capacity THEN held - capacity ELSE 0
             first == IF b.start \in 0 .. Len(b.samples) - 1 THEN b.start ELSE 0
             slot(i) == ((first + skip + i - 1) % Len(b.samples)) + 1
             copy  == [i \in 1 .. capacity |->
                         IF i <= held - skip THEN b.samples[slot(i)] ELSE NoSample]
  <2>3. held \in 1 .. Len(b.samples) /\ skip \in 0 .. held /\ held - skip \in 1 .. capacity
    BY <1>1, <1>3, <2>2
  <2>4. first \in Nat
    OBVIOUS
  <2>5. \A i \in 1 .. capacity : slot(i) \in 1 .. Len(b.samples)
    <3> HIDE DEF held, skip, first
    <3> SUFFICES ASSUME NEW i \in 1 .. capacity PROVE slot(i) \in 1 .. Len(b.samples)
      OBVIOUS
    <3>1. first + skip + i - 1 \in Int
      BY <1>1, <2>3, <2>4
    <3>2. (first + skip + i - 1) % Len(b.samples) \in 0 .. Len(b.samples) - 1
      BY <3>1, <1>1, <2>2
    <3> QED
      BY <3>2
  <2>6. \A i \in 1 .. capacity : copy[i] \in Sample \cup {NoSample}
    BY <2>5
  <2>7. copy \in Seq(Sample \cup {NoSample}) /\ Len(copy) = capacity
    <3> HIDE DEF held, skip, first, slot
    <3>1. copy \in [1 .. capacity -> Sample \cup {NoSample}]
      BY <2>6
    <3>2. QED
      BY <3>1, <1>1
  <2>8. Recopied(b, capacity) = [capacity |-> capacity, count |-> held - skip,
                                 start |-> 0, samples |-> copy]
    BY DEF Recopied
  <2> HIDE DEF held, skip, first, slot, copy
  <2>9. QED
    BY <1>1, <2>1, <2>3, <2>7, <2>8 DEF capacity, Buffer
<1>4. CASE Len(b.samples) # capacity /\ ~(b.count > 0 /\ b.samples # <<>>)
  <2>1. NormalizeAndValidate(b, maxCapacity) = NewBoundedHistory(capacity)
    BY <1>4 DEF NormalizeAndValidate
  <2>2. Blank(capacity) \in Seq(Sample \cup {NoSample}) /\ Len(Blank(capacity)) = capacity
    BY <1>1 DEF Blank
  <2> QED
    BY <1>1, <2>1, <2>2 DEF NewBoundedHistory, Buffer
<1>5. QED
  BY <1>2, <1>3, <1>4

-----------------------------------------------------------------------------
(* A ring that may still be empty: WellFormed without its lower bound on   *)
(* the count, the shape NewBoundedHistory returns.                         *)
Sound(b) ==
  /\ b \in Buffer
  /\ b.capacity > 0
  /\ Len(b.samples) = b.capacity
  /\ b.count \in 0 .. b.capacity
  /\ b.start < b.capacity
  /\ \A i \in 0 .. b.count - 1 : b.samples[Slot(b, i)] \in Sample

LEMMA NewIsSound ==
  ASSUME NEW capacity \in Nat \ {0}
  PROVE  /\ Sound(NewBoundedHistory(capacity))
         /\ NewBoundedHistory(capacity).count = 0
         /\ NewBoundedHistory(capacity).capacity = capacity
<1>1. Blank(capacity) \in Seq(Sample \cup {NoSample}) /\ Len(Blank(capacity)) = capacity
  BY DEF Blank
<1>2. QED
  BY <1>1 DEF NewBoundedHistory, Sound, Buffer

LEMMA ChronologicalType ==
  ASSUME NEW b, Sound(b)
  PROVE  /\ ChronologicalSamples(b) \in Seq(Sample)
         /\ Len(ChronologicalSamples(b)) = b.count
         /\ \A i \in 1 .. b.count : ChronologicalSamples(b)[i] = b.samples[Slot(b, i - 1)]
<1> DEFINE w == ChronologicalSamples(b)
<1>1. b.count \in Nat
  BY DEF Sound, Buffer
<1>2. \A i \in 1 .. b.count : b.samples[Slot(b, i - 1)] \in Sample
  BY <1>1 DEF Sound
<1>3. w = [i \in 1 .. b.count |-> b.samples[Slot(b, i - 1)]]
  BY DEF ChronologicalSamples
<1>4. w \in [1 .. b.count -> Sample] /\ \A i \in 1 .. b.count : w[i] = b.samples[Slot(b, i - 1)]
  BY <1>2, <1>3
<1> HIDE DEF w
<1>5. w \in Seq(Sample) /\ Len(w) = b.count
  BY <1>1, <1>4
<1>6. QED
  BY <1>4, <1>5 DEF w

(* Pushing into a ring slides its window by one sample.                    *)
LEMMA PushSlides ==
  ASSUME NEW b, Sound(b), NEW s \in Sample
  PROVE  /\ Sound(Push(b, s))
         /\ Push(b, s).count > 0
         /\ Push(b, s).capacity = b.capacity
         /\ ChronologicalSamples(Push(b, s)) =
              Window!Newest(Append(ChronologicalSamples(b), s), b.capacity)
<1> DEFINE c == b.capacity
           p == Push(b, s)
           old == ChronologicalSamples(b)
           new == Window!Newest(Append(old, s), c)
<1>1. /\ c \in Nat /\ c > 0 /\ b.start \in 0 .. c - 1 /\ b.count \in 0 .. c
      /\ b.samples \in Seq(Sample \cup {NoSample}) /\ Len(b.samples) = c
  BY DEF Sound, Buffer
<1>2. /\ \A i \in 0 .. c : Slot(b, i) = IF b.start + i < c THEN b.start + i + 1
                                        ELSE b.start + i + 1 - c
      /\ \A i \in 0 .. c : Slot(b, i) \in 1 .. c
      /\ \A i, j \in 0 .. c - 1 : Slot(b, i) = Slot(b, j) => i = j
  BY <1>1, SlotProperties DEF Sound
<1>3. b.count \in Nat /\ old \in Seq(Sample) /\ Len(old) = b.count
      /\ \A i \in 1 .. b.count : old[i] = b.samples[Slot(b, i - 1)]
  BY ChronologicalType DEF Sound, Buffer
<1>4. Append(old, s) \in Seq(Sample) /\ Len(Append(old, s)) = b.count + 1
      /\ \A i \in 1 .. b.count : Append(old, s)[i] = old[i]
      /\ Append(old, s)[b.count + 1] = s
  BY <1>1, <1>3
<1>5. \A i \in 0 .. b.count - 1 : b.samples[Slot(b, i)] \in Sample
  BY DEF Sound
<1> HIDE DEF c, old
<1>6. CASE b.count < b.capacity
  <2> DEFINE k == Slot(b, b.count)
             filled == [b.samples EXCEPT ![k] = s]
  <2>1. p = [capacity |-> b.capacity, count |-> b.count + 1, start |-> b.start,
             samples |-> filled]
    BY <1>6 DEF Push
  <2> HIDE DEF p, new
  <2>2. k \in 1 .. c
    BY <1>1, <1>2
  <2>3. filled \in Seq(Sample \cup {NoSample}) /\ Len(filled) = c
    BY <1>1, <2>2, ExceptSeq
  <2>4. p \in Buffer /\ p.capacity = c /\ p.count = b.count + 1 /\ p.start = b.start
        /\ p.samples = filled
    <3> HIDE DEF filled
    <3> QED
      BY <1>1, <2>1, <2>3 DEF Buffer, c
  <2> HIDE DEF k
  <2>5. \A i \in 0 .. c : Slot(p, i) = Slot(b, i)
    BY <2>4 DEF Slot, c
  <2>6. \A i \in 0 .. b.count - 1 : p.samples[Slot(p, i)] = b.samples[Slot(b, i)]
    <3> SUFFICES ASSUME NEW i \in 0 .. b.count - 1
                 PROVE  p.samples[Slot(p, i)] = b.samples[Slot(b, i)]
      OBVIOUS
    <3>1. i \in 0 .. c - 1 /\ b.count \in 0 .. c - 1 /\ i # b.count
      BY <1>1, <1>6 DEF c
    <3>2. Slot(b, i) # k /\ Slot(b, i) \in 1 .. c
      <4>1. Slot(b, i) \in 1 .. c
        <5>1. i \in 0 .. c
          BY <1>1, <3>1
        <5> QED
          BY ONLY <1>2, <5>1
      <4>2. Slot(b, i) # Slot(b, b.count)
        BY ONLY <1>2, <3>1
      <4> QED
        BY <4>1, <4>2 DEF k
    <3>3. Slot(p, i) = Slot(b, i)
      BY <1>1, <2>5, <3>1
    <3> QED
      BY <1>1, <2>4, <3>2, <3>3
  <2>7. p.samples[Slot(p, b.count)] = s
    BY <1>1, <2>2, <2>4, <2>5 DEF k
  <2>8. Sound(p)
    BY <1>1, <1>5, <1>6, <2>3, <2>4, <2>6, <2>7, SMTT(30) DEF Sound, c
  <2>9. new = Append(old, s)
    BY <1>1, <1>4, <1>6 DEF Window!Newest, c, new
  <2>10. ChronologicalSamples(p) = Append(old, s)
    <3>1. ChronologicalSamples(p) \in Seq(Sample) /\ Len(ChronologicalSamples(p)) = b.count + 1
          /\ \A i \in 1 .. b.count + 1 :
               ChronologicalSamples(p)[i] = p.samples[Slot(p, i - 1)]
      BY <2>8, <2>4, ChronologicalType
    <3>2. \A i \in 1 .. b.count + 1 : ChronologicalSamples(p)[i] = Append(old, s)[i]
      <4> SUFFICES ASSUME NEW i \in 1 .. b.count + 1
                   PROVE  ChronologicalSamples(p)[i] = Append(old, s)[i]
        OBVIOUS
      <4>1. CASE i = b.count + 1
        BY <1>1, <1>4, <2>7, <3>1, <4>1
      <4>2. CASE i \in 1 .. b.count
        BY <1>1, <1>3, <1>4, <2>6, <3>1, <4>2
      <4> QED
        BY <1>3, <4>1, <4>2
    <3> QED
      BY <1>4, <3>1, <3>2, SeqEqual
  <2> QED
    BY <1>1, <2>4, <2>8, <2>9, <2>10 DEF c, old, new, p
<1>7. CASE b.count = b.capacity
  <2> DEFINE k == b.start + 1
             filled == [b.samples EXCEPT ![k] = s]
  <2>1. p = [capacity |-> b.capacity, count |-> b.count,
             start |-> (b.start + 1) % b.capacity, samples |-> filled]
    BY <1>7, <1>1 DEF Push
  <2> HIDE DEF p, new
  <2>2. k \in 1 .. c /\ (b.start + 1) % c \in 0 .. c - 1
    BY <1>1, ModWrap
  <2>3. filled \in Seq(Sample \cup {NoSample}) /\ Len(filled) = c
    BY <1>1, <2>2, ExceptSeq
  <2>4. p \in Buffer /\ p.capacity = c /\ p.count = c /\ p.start = (b.start + 1) % c
        /\ p.samples = filled
    <3> HIDE DEF filled
    <3> QED
      BY <1>1, <1>7, <2>1, <2>2, <2>3 DEF Buffer, c
  <2> HIDE DEF k
  <2>5. \A i \in 0 .. c - 1 : Slot(p, i) = IF i = c - 1 THEN k ELSE Slot(b, i + 1)
    <3> SUFFICES ASSUME NEW i \in 0 .. c - 1
                 PROVE  Slot(p, i) = IF i = c - 1 THEN k ELSE Slot(b, i + 1)
      OBVIOUS
    <3>1. Slot(p, i) = ((((b.start + 1) % c) + i) % c) + 1
      BY <2>4 DEF Slot
    <3>2. Slot(b, i + 1) = ((b.start + (i + 1)) % c) + 1
      BY DEF Slot, c
    <3>3. (((b.start + 1) % c) + i) % c =
            IF i = c - 1 THEN b.start ELSE (b.start + (i + 1)) % c
      BY <1>1, ModShift, ZenonT(30)
    <3> QED
      BY <3>1, <3>2, <3>3 DEF k
  <2>6. \A i \in 0 .. c - 2 : p.samples[Slot(p, i)] = b.samples[Slot(b, i + 1)]
    <3> SUFFICES ASSUME NEW i \in 0 .. c - 2
                 PROVE  p.samples[Slot(p, i)] = b.samples[Slot(b, i + 1)]
      OBVIOUS
    <3>1. i + 1 \in 0 .. c - 1 /\ i \in 0 .. c - 1 /\ i # c - 1
      BY <1>1
    <3> DEFINE m == Slot(b, i + 1)
    <3>2. m \in 1 .. c /\ m # k
      <4>1. 0 \in 0 .. c - 1 /\ i + 1 # 0 /\ i + 1 \in 0 .. c
        BY <1>1, <3>1
      <4>2. Slot(b, 0) = k
        BY <1>1, <4>1, ModShift DEF Slot, c, k
      <4>3. Slot(b, i + 1) # Slot(b, 0)
        BY <1>2, <3>1, <4>1
      <4> QED
        BY <1>2, <4>1, <4>2, <4>3
    <3>3. Slot(p, i) = m
      BY <2>5, <3>1
    <3> HIDE DEF m
    <3> QED
      BY <1>1, <2>2, <2>4, <3>2, <3>3 DEF m
  <2>7. p.samples[Slot(p, c - 1)] = s
    BY <1>1, <2>2, <2>4, <2>5
  <2>8. \A i \in 0 .. p.count - 1 : p.samples[Slot(p, i)] \in Sample
    <3> SUFFICES ASSUME NEW i \in 0 .. c - 1 PROVE p.samples[Slot(p, i)] \in Sample
      BY <2>4
    <3>1. CASE i = c - 1
      BY <2>7, <3>1
    <3>2. CASE i \in 0 .. c - 2
      BY <1>1, <1>5, <1>7, <2>6, <3>2, SMTT(30) DEF c
    <3> QED
      BY <1>1, <3>1, <3>2
  <2>9. Sound(p)
    BY <1>1, <2>2, <2>3, <2>4, <2>8 DEF Sound, c
  <2>10. new = SubSeq(Append(old, s), 2, c + 1)
    <3>1. Len(Append(old, s)) = c + 1
      BY <1>4, <1>7 DEF c
    <3>2. ~ (Len(Append(old, s)) <= c) /\ (c + 1) - c + 1 = 2
      BY <1>1, <3>1
    <3> QED
      BY <3>1, <3>2 DEF Window!Newest, new
  <2>11. /\ new \in Seq(Sample) /\ Len(new) = c
         /\ \A i \in 1 .. c : new[i] = Append(old, s)[i + 1]
    BY <1>1, <1>4, <1>7, <2>10, SMTT(30) DEF c
  <2>12. /\ ChronologicalSamples(p) \in Seq(Sample) /\ Len(ChronologicalSamples(p)) = c
         /\ \A i \in 1 .. c : ChronologicalSamples(p)[i] = p.samples[Slot(p, i - 1)]
    BY <2>4, <2>9, ChronologicalType
  <2>13. \A i \in 1 .. c : ChronologicalSamples(p)[i] = new[i]
    <3> SUFFICES ASSUME NEW i \in 1 .. c PROVE ChronologicalSamples(p)[i] = new[i]
      OBVIOUS
    <3>1. CASE i = c
      BY <1>1, <1>4, <1>7, <2>7, <2>11, <2>12, <3>1 DEF c
    <3>2. CASE i \in 1 .. c - 1
      <4>1. i - 1 \in 0 .. c - 2 /\ i + 1 \in 1 .. b.count /\ (i + 1) - 1 = (i - 1) + 1
        BY <1>1, <1>7, <3>2 DEF c
      <4>2. ChronologicalSamples(p)[i] = b.samples[Slot(b, (i - 1) + 1)]
        BY <2>6, <2>12, <4>1
      <4>3. new[i] = b.samples[Slot(b, (i + 1) - 1)]
        BY <1>3, <1>4, <2>11, <4>1
      <4> QED
        BY <4>1, <4>2, <4>3
    <3> QED
      BY <1>1, <3>1, <3>2
  <2>14. ChronologicalSamples(p) = new
    BY <2>11, <2>12, <2>13, SeqEqual
  <2> QED
    BY <1>1, <2>4, <2>9, <2>14 DEF c, old, new, p
<1>8. QED
  BY <1>1, <1>6, <1>7 DEF c

(* The newest elements of a window, by position.                           *)
LEMMA NewestByPosition ==
  ASSUME NEW w \in Seq(Sample), NEW cap \in Nat \ {0}
  PROVE  LET skip == IF Len(w) > cap THEN Len(w) - cap ELSE 0
             keep == Window!Newest(w, cap)
         IN  /\ keep \in Seq(Sample)
             /\ Len(keep) = Len(w) - skip
             /\ \A i \in 1 .. Len(w) - skip : keep[i] = w[skip + i]
<1> DEFINE keep == Window!Newest(w, cap)
<1>1. CASE Len(w) <= cap
  BY <1>1 DEF Window!Newest
<1>2. CASE Len(w) > cap
  <2> DEFINE m == Len(w) - cap + 1
  <2>1. keep = SubSeq(w, m, Len(w))
    BY <1>2 DEF Window!Newest
  <2>2. m \in 1 .. Len(w) /\ Len(w) \in Nat /\ Len(w) - m + 1 = cap
    BY <1>2
  <2> HIDE DEF m, keep
  <2>3. keep \in Seq(Sample)
    BY <2>1, <2>2
  <2>4. Len(keep) = cap
    BY <2>1, <2>2
  <2>5. \A i \in 1 .. cap : keep[i] = w[m + i - 1]
    BY <2>1, <2>2
  <2> QED
    BY <1>2, <2>3, <2>4, <2>5 DEF m, keep
<1>3. QED
  BY <1>1, <1>2

(* Copying a ring whose samples read, in order, as the window w keeps the  *)
(* newest of w that the new capacity has room for.                         *)
LEMMA RecopyKeepsNewest ==
  ASSUME NEW raw, NEW w \in Seq(Sample), NEW cap \in Nat \ {0},
         raw.samples \in Seq(Sample \cup {NoSample}), Len(raw.samples) > 0,
         raw.count \in 1 .. Len(raw.samples),
         raw.start \in 0 .. Len(raw.samples) - 1,
         Len(w) = raw.count,
         \A i \in 1 .. raw.count :
           w[i] = raw.samples[((raw.start + (i - 1)) % Len(raw.samples)) + 1]
  PROVE  LET r == Recopied(raw, cap)
         IN  /\ Sound(r) /\ r.count > 0 /\ r.capacity = cap
             /\ ChronologicalSamples(r) = Window!Newest(w, cap)
<1> DEFINE L == Len(raw.samples)
           n == raw.count
           held == IF n > L THEN L ELSE n
           skip == IF held > cap THEN held - cap ELSE 0
           first == IF raw.start \in 0 .. L - 1 THEN raw.start ELSE 0
           slot(i) == ((first + skip + i - 1) % L) + 1
           copy == [i \in 1 .. cap |->
                      IF i <= held - skip THEN raw.samples[slot(i)] ELSE NoSample]
           r == Recopied(raw, cap)
           keep == Window!Newest(w, cap)
<1>2. r = [capacity |-> cap, count |-> held - skip, start |-> 0, samples |-> copy]
  BY DEF Recopied
<1> HIDE DEF r, keep
<1>1. /\ L \in Nat \ {0} /\ n \in 1 .. L /\ skip \in 0 .. n /\ n - skip \in 1 .. cap
      /\ held = n /\ first = raw.start /\ first \in Nat
      /\ skip = IF Len(w) > cap THEN Len(w) - cap ELSE 0
  OBVIOUS
<1> HIDE DEF L, n, held, skip, first
<1>3. \A i \in 1 .. n - skip : copy[i] = w[skip + i] /\ copy[i] \in Sample
  <2> SUFFICES ASSUME NEW i \in 1 .. n - skip
               PROVE  copy[i] = w[skip + i] /\ copy[i] \in Sample
    OBVIOUS
  <2>1. i \in 1 .. cap /\ skip + i \in 1 .. n
        /\ first + skip + i - 1 = raw.start + ((skip + i) - 1)
    <3>1. n \in Nat /\ skip \in Nat /\ i \in Nat /\ i <= n - skip
          /\ n - skip <= cap /\ i >= 1
      BY <1>1
    <3>2. first + skip + i - 1 = first + ((skip + i) - 1)
      BY <1>1, <3>1, SMTT(30)
    <3>3. cap \in Nat
      OBVIOUS
    <3>4. i \in 1 .. cap /\ skip + i \in 1 .. n
      BY <3>1, <3>3
    <3> QED
      BY <1>1, <3>2, <3>4
  <2>2. copy[i] = raw.samples[slot(i)]
    BY <1>1, <2>1
  <2>3. w[skip + i] = raw.samples[((raw.start + ((skip + i) - 1)) % L) + 1]
    BY <2>1 DEF n, L
  <2>4. w[skip + i] \in Sample
    BY <2>1 DEF n
  <2> QED
    BY <2>1, <2>2, <2>3, <2>4
<1>4. copy \in Seq(Sample \cup {NoSample}) /\ Len(copy) = cap
  <2>1. \A i \in 1 .. cap : copy[i] \in Sample \cup {NoSample}
    <3> SUFFICES ASSUME NEW i \in 1 .. cap PROVE copy[i] \in Sample \cup {NoSample}
      OBVIOUS
    <3>1. CASE i \in 1 .. n - skip
      BY <1>3, <3>1
    <3>2. CASE ~ (i <= n - skip)
      BY <1>1, <3>2
    <3> QED
      BY <1>1, <3>1, <3>2
  <2>2. copy \in [1 .. cap -> Sample \cup {NoSample}]
    BY <2>1
  <2> QED
    BY <2>2
<1> HIDE DEF copy, slot
<1>5. \A i \in 0 .. cap - 1 : Slot(r, i) = i + 1
  <2> SUFFICES ASSUME NEW i \in 0 .. cap - 1 PROVE Slot(r, i) = i + 1
    OBVIOUS
  <2>1. cap \in Nat /\ cap > 0 /\ i \in Nat /\ i < cap /\ i < 2 * cap
    OBVIOUS
  <2>2. i % cap = i
    BY <2>1, ModWrap
  <2>3. (0 + i) % cap = i
    BY <2>1, <2>2
  <2> QED
    BY <1>2, <2>3 DEF Slot
<1>6. Sound(r)
  <2>1. \A i \in 0 .. r.count - 1 : r.samples[Slot(r, i)] \in Sample
    <3> SUFFICES ASSUME NEW i \in 0 .. n - skip - 1 PROVE r.samples[Slot(r, i)] \in Sample
      BY <1>1, <1>2
    <3>1. i \in 0 .. cap - 1 /\ i + 1 \in 1 .. n - skip
      <4> DEFINE d == n - skip
      <4>1. d \in 1 .. cap /\ cap \in Nat
        BY ONLY <1>1, cap \in Nat \ {0}
      <4>2. i \in 0 .. d - 1
        OBVIOUS
      <4> HIDE DEF d
      <4>3. i \in 0 .. cap - 1 /\ i + 1 \in 1 .. d
        BY ONLY <4>1, <4>2
      <4> QED
        BY ONLY <4>3 DEF d
    <3> QED
      <4>1. Slot(r, i) = i + 1 /\ copy[i + 1] \in Sample
        BY ONLY <1>3, <1>5, <3>1
      <4>2. r.samples = copy
        BY ONLY <1>2
      <4> QED
        BY ONLY <4>1, <4>2
  <2>2. /\ r.capacity = cap /\ r.count = held - skip /\ r.start = 0 /\ r.samples = copy
        /\ DOMAIN r = {"capacity", "count", "start", "samples"}
    BY ONLY <1>2
  <2>3. held - skip \in Nat /\ held - skip \in 0 .. cap /\ cap \in Nat /\ cap > 0
    BY <1>1
  <2>4. r \in Buffer
    BY ONLY <1>2, <1>4, <2>3 DEF Buffer
  <2>5. QED
    BY ONLY <1>4, <2>1, <2>2, <2>3, <2>4 DEF Sound
<1>7. Len(keep) = n - skip /\ keep \in Seq(Sample)
      /\ \A i \in 1 .. n - skip : keep[i] = w[skip + i]
  <2>1. Len(w) = n
    BY DEF n
  <2> QED
    BY <1>1, <2>1, NewestByPosition DEF keep
<1>8. /\ ChronologicalSamples(r) \in Seq(Sample) /\ Len(ChronologicalSamples(r)) = n - skip
      /\ \A i \in 1 .. n - skip : ChronologicalSamples(r)[i] = r.samples[Slot(r, i - 1)]
  <2>1. r.count = n - skip
    BY <1>1, <1>2
  <2> HIDE DEF r, n, skip
  <2> QED
    BY <1>6, <2>1, ChronologicalType
<1>9. \A i \in 1 .. n - skip : ChronologicalSamples(r)[i] = keep[i]
  <2> SUFFICES ASSUME NEW i \in 1 .. n - skip PROVE ChronologicalSamples(r)[i] = keep[i]
    OBVIOUS
  <2>1. i - 1 \in 0 .. cap - 1 /\ (i - 1) + 1 = i
    BY <1>1
  <2>2. r.samples[Slot(r, i - 1)] = copy[i]
    BY <1>2, <1>5, <2>1
  <2> QED
    BY <1>1, <1>3, <1>7, <1>8, <2>2
<1>10. ChronologicalSamples(r) = keep
  <2> QED
    BY <1>1, <1>7, <1>8, <1>9, SeqEqual
<1>11. QED
  BY <1>1, <1>2, <1>6, <1>10 DEF r, keep

(* The depth the window has once a store of depth max has read it.         *)
LEMMA LoadedCapacity ==
  ASSUME NEW c \in Nat \ {0}, NEW max \in Nat \ {0}
  PROVE  (IF c \in 1 .. max THEN c ELSE max) = IF c > max THEN max ELSE c
OBVIOUS

(* Neither the format of today nor the whole ring loses or reorders an     *)
(* observation.                                                            *)
LEMMA RoundTripKeepsNewest ==
  ASSUME NEW b, Sound(b), b.count > 0, NEW max \in Nat \ {0}
  PROVE  LET cap == IF b.capacity > max THEN max ELSE b.capacity
             n == NormalizeAndValidate(UnmarshalJSON(MarshalJSON(b)), max)
         IN  /\ Sound(n) /\ n.count > 0 /\ n.capacity = cap
             /\ ChronologicalSamples(n) = Window!Newest(ChronologicalSamples(b), cap)
<1> DEFINE w == ChronologicalSamples(b)
           cap == IF b.capacity > max THEN max ELSE b.capacity
           raw == [capacity |-> b.capacity, count |-> b.count, start |-> 0, samples |-> w]
           n == NormalizeAndValidate(raw, max)
<1>1. /\ b.capacity \in Nat \ {0} /\ b.count \in 1 .. b.capacity
      /\ w \in Seq(Sample) /\ Len(w) = b.count /\ cap \in Nat \ {0}
  BY ChronologicalType DEF Sound, Buffer
<1>2. UnmarshalJSON(MarshalJSON(b)) = raw
  BY <1>1 DEF UnmarshalJSON, MarshalJSON
<1> HIDE DEF w
<1>3. (IF raw.capacity \in 1 .. max THEN raw.capacity ELSE max) = cap
  BY <1>1
<1>4. w \in Seq(Sample \cup {NoSample}) /\ w # <<>>
  BY <1>1
<1>5. CASE b.count # cap
  <2>1. n = Recopied(raw, cap)
    BY <1>1, <1>3, <1>4, <1>5 DEF NormalizeAndValidate
  <2>2. \A i \in 1 .. raw.count :
          w[i] = raw.samples[((raw.start + (i - 1)) % Len(raw.samples)) + 1]
    <3> SUFFICES ASSUME NEW i \in 1 .. b.count PROVE w[i] = w[((0 + (i - 1)) % Len(w)) + 1]
      OBVIOUS
    <3>1. (0 + (i - 1)) % Len(w) = i - 1
      BY <1>1, ModWrap
    <3> QED
      BY <1>1, <3>1
  <2> HIDE DEF cap
  <2>3. /\ raw.samples \in Seq(Sample \cup {NoSample}) /\ Len(raw.samples) > 0
        /\ raw.count \in 1 .. Len(raw.samples)
        /\ raw.start \in 0 .. Len(raw.samples) - 1 /\ Len(w) = raw.count
    BY <1>1, <1>4
  <2> HIDE DEF raw, n
  <2>4. /\ Sound(n) /\ n.count > 0 /\ n.capacity = cap
        /\ ChronologicalSamples(n) = Window!Newest(w, cap)
    BY <1>1, <2>1, <2>2, <2>3, RecopyKeepsNewest
  <2> QED
    BY <1>2, <2>4 DEF cap, n, w
<1>6. CASE b.count = cap
  <2>1. n = [capacity |-> cap, count |-> b.count, start |-> 0, samples |-> w]
    BY <1>1, <1>3, <1>6 DEF NormalizeAndValidate
  <2> HIDE DEF n, cap, raw
  <2>2. \A i \in 0 .. cap - 1 : Slot(n, i) = i + 1
    BY <1>1, <2>1, ModWrap DEF Slot
  <2>3. Sound(n)
    BY <1>1, <1>4, <1>6, <2>1, <2>2 DEF Sound, Buffer
  <2>4. /\ ChronologicalSamples(n) \in Seq(Sample) /\ Len(ChronologicalSamples(n)) = b.count
        /\ \A i \in 1 .. b.count : ChronologicalSamples(n)[i] = w[Slot(n, i - 1)]
    BY <2>1, <2>3, ChronologicalType
  <2>5. \A i \in 1 .. b.count : ChronologicalSamples(n)[i] = w[i]
    <3> SUFFICES ASSUME NEW i \in 1 .. b.count PROVE ChronologicalSamples(n)[i] = w[i]
      OBVIOUS
    <3>1. i - 1 \in 0 .. cap - 1 /\ (i - 1) + 1 = i
      BY <1>1, <1>6
    <3> QED
      BY <2>2, <2>4, <3>1
  <2>6. ChronologicalSamples(n) = w
    BY <1>1, <2>4, <2>5, SeqEqual
  <2>7. Window!Newest(w, cap) = w
    BY <1>1, <1>6 DEF Window!Newest
  <2> QED
    BY <1>1, <1>2, <2>1, <2>3, <2>6, <2>7 DEF cap, n, w
<1>7. QED
  BY <1>5, <1>6

LEMMA WholeRingKeepsNewest ==
  ASSUME NEW b, Sound(b), b.count > 0, NEW max \in Nat \ {0}
  PROVE  LET cap == IF b.capacity > max THEN max ELSE b.capacity
             n == NormalizeAndValidate(UnmarshalJSON(b), max)
         IN  /\ Sound(n) /\ n.count > 0 /\ n.capacity = cap
             /\ ChronologicalSamples(n) = Window!Newest(ChronologicalSamples(b), cap)
<1> DEFINE w == ChronologicalSamples(b)
           cap == IF b.capacity > max THEN max ELSE b.capacity
           n == NormalizeAndValidate(b, max)
<1>1. /\ b.capacity \in Nat \ {0} /\ b.count \in 1 .. b.capacity
      /\ b.start \in 0 .. b.capacity - 1
      /\ b.samples \in Seq(Sample \cup {NoSample}) /\ Len(b.samples) = b.capacity
      /\ w \in Seq(Sample) /\ Len(w) = b.count
      /\ \A i \in 1 .. b.count : w[i] = b.samples[Slot(b, i - 1)]
  BY ChronologicalType, SMTT(30) DEF Sound, Buffer
<1>2. UnmarshalJSON(b) = b
  BY <1>1 DEF UnmarshalJSON, Sound, Buffer
<1> HIDE DEF w
<1>3. (IF b.capacity \in 1 .. max THEN b.capacity ELSE max) = cap /\ cap \in Nat \ {0}
  BY <1>1
<1>4. CASE b.capacity # cap
  <2>1. n = Recopied(b, cap)
    BY <1>1, <1>3, <1>4, EmptySeq DEF NormalizeAndValidate
  <2>2. \A i \in 1 .. b.count :
          w[i] = b.samples[((b.start + (i - 1)) % Len(b.samples)) + 1]
    BY <1>1 DEF Slot
  <2> HIDE DEF n, cap
  <2>3. /\ Sound(n) /\ n.count > 0 /\ n.capacity = cap
        /\ ChronologicalSamples(n) = Window!Newest(w, cap)
    <3>1. Len(b.samples) > 0 /\ b.count \in 1 .. Len(b.samples)
          /\ b.start \in 0 .. Len(b.samples) - 1
      BY <1>1
    <3> QED
      BY <1>1, <1>3, <2>1, <2>2, <3>1, RecopyKeepsNewest, ZenonT(30)
  <2> QED
    BY <1>2, <2>3 DEF cap, n, w
<1>5. CASE b.capacity = cap
  <2>1. n = b
    BY <1>1, <1>3, <1>5 DEF NormalizeAndValidate, Sound, Buffer
  <2>2. Window!Newest(w, cap) = w
    BY <1>1, <1>5 DEF Window!Newest
  <2> HIDE DEF n, cap
  <2> QED
    BY <1>1, <1>2, <1>5, <2>1, <2>2 DEF cap, n, w
<1>6. QED
  BY <1>4, <1>5

(* Nor does a bare array, though the ring is then as small as it is long.  *)
LEMMA ArrayKeepsNewest ==
  ASSUME NEW b, Sound(b), b.count > 0, NEW max \in Nat \ {0}
  PROVE  LET w == ChronologicalSamples(b)
             cap == IF Len(w) > max THEN max ELSE Len(w)
             n == NormalizeAndValidate(UnmarshalArray(w), max)
         IN  /\ Sound(n) /\ n.count > 0 /\ n.capacity = cap
             /\ ChronologicalSamples(n) = Window!Newest(w, cap)
<1> DEFINE w == ChronologicalSamples(b)
           raw == UnmarshalArray(w)
<1>1. w \in Seq(Sample) /\ Len(w) = b.count /\ b.count \in Nat \ {0}
  BY ChronologicalType DEF Sound, Buffer
<1> HIDE DEF w
<1>2. /\ raw = [capacity |-> Len(w), count |-> Len(w), start |-> 0, samples |-> w]
      /\ w \in Seq(Sample \cup {NoSample})
  BY <1>1 DEF UnmarshalArray
<1> HIDE DEF raw
<1>3. \A i \in 0 .. Len(w) - 1 : Slot(raw, i) = i + 1
  BY <1>1, <1>2, ModWrap DEF Slot
<1>4. Sound(raw) /\ raw.count > 0 /\ raw.capacity = Len(w)
  BY <1>1, <1>2, <1>3 DEF Sound, Buffer
<1>5. /\ ChronologicalSamples(raw) \in Seq(Sample) /\ Len(ChronologicalSamples(raw)) = Len(w)
      /\ \A i \in 1 .. Len(w) : ChronologicalSamples(raw)[i] = w[Slot(raw, i - 1)]
  BY <1>2, <1>4, ChronologicalType
<1>6. ChronologicalSamples(raw) = w
  <2>1. \A i \in 1 .. Len(w) : i - 1 \in 0 .. Len(w) - 1 /\ (i - 1) + 1 = i
    BY <1>1
  <2>2. \A i \in 1 .. Len(w) : ChronologicalSamples(raw)[i] = w[i]
    BY <1>3, <1>5, <2>1
  <2> QED
    BY <1>1, <1>5, <2>2, SeqEqual
<1>7. UnmarshalJSON(raw) = raw
  BY <1>1, <1>2 DEF UnmarshalJSON
<1>8. QED
  BY <1>4, <1>6, <1>7, WholeRingKeepsNewest DEF w, raw

-----------------------------------------------------------------------------
(* Every step the ring takes keeps it well formed and is a step of the     *)
(* sliding window.                                                         *)
LEMMA SoundMatchesTypeOK == TypeOK <=> Sound(h) /\ h.count > 0
<1>1. ASSUME h \in Buffer PROVE h.count \in Nat /\ h.capacity \in Nat
  BY <1>1 DEF Buffer
<1>2. QED
  BY <1>1 DEF TypeOK, WellFormed, Sound

LEMMA InitIsOneObservation ==
  Init => TypeOK /\ Window!Init
<1> SUFFICES ASSUME NEW capacity \in Capacities, NEW s \in Sample,
                    h = Push(NewBoundedHistory(capacity), s)
             PROVE  TypeOK /\ Window!Init
  BY DEF Init
<1> DEFINE b == NewBoundedHistory(capacity)
<1>1. capacity \in Nat \ {0}
  BY CapacitiesAssumption
<1>2. Sound(b) /\ b.count = 0 /\ b.capacity = capacity
  BY <1>1, NewIsSound
<1>3. ChronologicalSamples(b) = <<>>
  BY <1>2, ChronologicalType
<1> HIDE DEF b
<1>4. /\ Sound(h) /\ h.count > 0 /\ h.capacity = capacity
      /\ ChronologicalSamples(h) = Window!Newest(Append(<<>>, s), capacity)
  BY <1>2, <1>3, PushSlides DEF b
<1>5. Window!Newest(Append(<<>>, s), capacity) = <<s>>
  BY <1>1 DEF Window!Newest
<1>6. QED
  BY <1>4, <1>5, SoundMatchesTypeOK DEF Window!Init

LEMMA StepSlides ==
  TypeOK /\ [Next]_vars => TypeOK' /\ [Window!Next]_(Window!vars)
<1> SUFFICES ASSUME TypeOK, [Next]_vars
             PROVE  TypeOK' /\ [Window!Next]_(Window!vars)
  OBVIOUS
<1>1. Sound(h) /\ h.count > 0
  BY SoundMatchesTypeOK
<1>2. Sound(h') /\ h'.count > 0 => TypeOK'
  <2>1. ASSUME h' \in Buffer PROVE h'.count \in Nat /\ h'.capacity \in Nat
    BY <2>1 DEF Buffer
  <2> QED
    BY <2>1 DEF TypeOK, WellFormed, Sound, Buffer, Slot
<1>3. ASSUME NEW s \in Sample, PushSample(s)
      PROVE  TypeOK' /\ Window!Observe(s)
  <2>1. h' = Push(h, s)
    BY <1>3 DEF PushSample
  <2> QED
    BY <1>1, <1>2, <2>1, PushSlides DEF Window!Observe
<1>4. ASSUME NEW max \in Capacities, SaveAndLoad(max) \/ LoadWholeRing(max)
      PROVE  TypeOK' /\ Window!Reopen(max)
  <2>1. max \in Nat \ {0}
    BY CapacitiesAssumption
  <2>2. CASE SaveAndLoad(max)
    <3>1. h' = NormalizeAndValidate(UnmarshalJSON(MarshalJSON(h)), max)
      BY <2>2 DEF SaveAndLoad
    <3> QED
      BY <1>1, <1>2, <2>1, <3>1, RoundTripKeepsNewest DEF Window!Reopen
  <2>3. CASE LoadWholeRing(max)
    <3>1. h' = NormalizeAndValidate(UnmarshalJSON(h), max)
      BY <2>3 DEF LoadWholeRing
    <3> QED
      BY <1>1, <1>2, <2>1, <3>1, WholeRingKeepsNewest DEF Window!Reopen
  <2> QED
    BY <1>4, <2>2, <2>3
<1>5. ASSUME NEW max \in Capacities, LoadArray(max)
      PROVE  TypeOK' /\ Window!ReopenBare(max)
  <2>1. max \in Nat \ {0}
    BY CapacitiesAssumption
  <2>2. h' = NormalizeAndValidate(UnmarshalArray(ChronologicalSamples(h)), max)
    BY <1>5 DEF LoadArray
  <2> QED
    BY <1>1, <1>2, <2>1, <2>2, ArrayKeepsNewest DEF Window!ReopenBare
<1>6. CASE UNCHANGED vars
  BY <1>6 DEF vars, TypeOK, WellFormed, Buffer, Slot, Window!vars, ChronologicalSamples
<1>7. QED
  BY <1>3, <1>4, <1>5, <1>6 DEF Next, Window!Next

(* The ring a reader meets is always well formed, whatever the pushes,     *)
(* restarts, formats and configured capacities it has been through.        *)
THEOREM HistoryWellFormed == Spec => []TypeOK
<1>1. QED
  BY InitIsOneObservation, StepSlides, PTL DEF Spec

(* BoundedHistory implements the sliding window of the newest samples.     *)
THEOREM HistoryIsWindow == Spec => RefinesWindow
<1>1. QED
  BY InitIsOneObservation, StepSlides, PTL DEF Spec, RefinesWindow, Window!Spec

=============================================================================
