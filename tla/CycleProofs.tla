----------------------------- MODULE CycleProofs -----------------------------
(***************************************************************************)
(* For every set of workers, sources, links, probe limit and number of     *)
(* retries: the cycle keeps its types, records only evidence, accounts for *)
(* every candidate of a cycle that counts as complete, and starves none of *)
(* a population that stays the same.                                       *)
(***************************************************************************)
EXTENDS Cycle, FiniteSetTheorems, FunctionTheorems, SequenceTheorems, TLAPS

-----------------------------------------------------------------------------
(* Sets in an order.                                                       *)

StrictOrder(R, S) ==
  /\ \A x \in S : <<x, x>> \notin R
  /\ \A x, y, z \in S : <<x, y>> \in R /\ <<y, z>> \in R => <<x, z>> \in R
  /\ \A x, y \in S : x = y \/ <<x, y>> \in R \/ <<y, x>> \in R

Below(i, S, R) == {j \in S : <<j, i>> \in R}

(* The rank of a member is the number of those before it: there are as     *)
(* many ranks as members, and the order is that of the ranks.              *)
LEMMA Ranks ==
  ASSUME NEW S, IsFiniteSet(S), NEW R, StrictOrder(R, S)
  PROVE  /\ Cardinality(S) \in Nat
         /\ \A x \in S : Cardinality(Below(x, S, R)) \in 0..Cardinality(S) - 1
         /\ \A x, y \in S : <<x, y>> \in R =>
              Cardinality(Below(x, S, R)) < Cardinality(Below(y, S, R))
<1>1. Cardinality(S) \in Nat
  BY FS_CardinalityType
<1>2. ASSUME NEW x \in S
      PROVE  /\ IsFiniteSet(Below(x, S, R))
             /\ Cardinality(Below(x, S, R)) \in Nat
             /\ Cardinality(Below(x, S, R)) <= Cardinality(S) - 1
  <2>1. Below(x, S, R) \in SUBSET (S \ {x})
    BY DEF Below, StrictOrder
  <2>2. IsFiniteSet(S \ {x}) /\ Cardinality(S \ {x}) = Cardinality(S) - 1
    BY FS_RemoveElement
  <2>3. QED
    BY <2>1, <2>2, FS_Subset, FS_CardinalityType
<1>3. ASSUME NEW x \in S, NEW y \in S, <<x, y>> \in R
      PROVE  Cardinality(Below(x, S, R)) < Cardinality(Below(y, S, R))
  <2>1. Below(x, S, R) \in SUBSET (Below(y, S, R) \ {x})
    BY <1>3 DEF Below, StrictOrder
  <2>2. x \in Below(y, S, R)
    BY <1>3 DEF Below
  <2>3. /\ IsFiniteSet(Below(y, S, R) \ {x})
        /\ Cardinality(Below(y, S, R) \ {x}) = Cardinality(Below(y, S, R)) - 1
    BY <1>2, <2>2, FS_RemoveElement
  <2>4. Cardinality(Below(x, S, R)) <= Cardinality(Below(y, S, R)) - 1
    BY <2>1, <2>3, FS_Subset
  <2>5. Cardinality(Below(x, S, R)) \in Nat /\ Cardinality(Below(y, S, R)) \in Nat
    BY <1>2
  <2>6. QED
    BY <2>4, <2>5
<1>4. QED
  BY <1>1, <1>2, <1>3

(* Enumerated lists each member once, in the order.                        *)
LEMMA EnumeratedIsInOrder ==
  ASSUME NEW S, IsFiniteSet(S), NEW R, StrictOrder(R, S)
  PROVE  /\ Cardinality(S) \in Nat
         /\ Enumerated(S, R) \in [1..Cardinality(S) -> S]
         /\ \A m, n \in 1..Cardinality(S) :
              m < n <=> <<Enumerated(S, R)[m], Enumerated(S, R)[n]>> \in R
         /\ \A x \in S : \E n \in 1..Cardinality(S) : Enumerated(S, R)[n] = x
<1> DEFINE N == Cardinality(S)
           o == Enumerated(S, R)
           rank == [x \in S |-> Cardinality(Below(x, S, R))]
<1>1. /\ N \in Nat
      /\ rank \in [S -> 0..N - 1]
      /\ \A x, y \in S : <<x, y>> \in R => rank[x] < rank[y]
  BY Ranks
<1>2. ASSUME NEW x \in S, NEW y \in S, rank[x] = rank[y]
      PROVE  x = y
  <2>1. rank[x] \in Int /\ rank[y] \in Int
    BY <1>1
  <2>2. ~(rank[x] < rank[y]) /\ ~(rank[y] < rank[x])
    BY <1>2, <2>1
  <2>3. <<x, y>> \notin R /\ <<y, x>> \notin R
    BY <1>1, <2>2
  <2>4. QED
    BY <2>3 DEF StrictOrder
<1> HIDE DEF rank
<1>3. rank \in Injection(S, 0..N - 1)
  BY <1>1, <1>2, Fun_IsInj
<1>4. IsFiniteSet(0..N - 1) /\ Cardinality(0..N - 1) = N
  <2>1. IsFiniteSet(0..N - 1) /\ Cardinality(0..N - 1) = IF 0 > N - 1 THEN 0 ELSE (N - 1) - 0 + 1
    BY <1>1, FS_Interval, SMTT(30)
  <2>2. QED
    BY <1>1, <2>1
<1>5. rank \in Surjection(S, 0..N - 1)
  BY <1>3, <1>4, FS_Injection
<1>6. \A k \in 0..N - 1 : \E x \in S : rank[x] = k
  <2> DEFINE T == 0..N - 1
  <2> HIDE DEF T
  <2>1. rank \in Surjection(S, T)
    BY <1>5 DEF T
  <2>2. \A k \in T : \E x \in S : rank[x] = k
    BY ONLY <2>1, Fun_SurjectionProperties
  <2>3. QED
    BY <2>2 DEF T
<1> USE DEF rank
<1>7. /\ DOMAIN o = 1..N
      /\ \A n \in 1..N : o[n] = CHOOSE x \in S : Cardinality({j \in S : <<j, x>> \in R}) = n - 1
  BY DEF Enumerated
<1>8. ASSUME NEW n \in 1..N
      PROVE  o[n] \in S /\ rank[o[n]] = n - 1
  <2>1. n - 1 \in 0..N - 1
    BY <1>1
  <2>2. \E x \in S : Cardinality({j \in S : <<j, x>> \in R}) = n - 1
    BY <1>6, <2>1 DEF Below
  <2>3. o[n] \in S /\ Cardinality({j \in S : <<j, o[n]>> \in R}) = n - 1
    BY <1>7, <2>2
  <2>4. QED
    BY <2>3 DEF Below
<1>9. o \in [1..N -> S]
  BY <1>7, <1>8 DEF Enumerated
<1>10. ASSUME NEW m \in 1..N, NEW n \in 1..N
       PROVE  m < n <=> <<o[m], o[n]>> \in R
  <2>1. m - 1 < n - 1 <=> m < n
    BY <1>1
  <2>2. CASE <<o[m], o[n]>> \in R
    <3>1. rank[o[m]] < rank[o[n]]
      BY <1>1, <1>8, <2>2
    <3>2. QED
      BY <1>8, <2>1, <2>2, <3>1
  <2>3. CASE <<o[n], o[m]>> \in R
    <3>1. rank[o[n]] < rank[o[m]]
      BY <1>1, <1>8, <2>3
    <3>2. n - 1 < m - 1
      BY <1>8, <3>1
    <3>3. ~(m < n)
      BY <1>1, <3>2
    <3>4. <<o[m], o[n]>> \notin R
      BY <1>8, <2>3 DEF StrictOrder
    <3>5. QED
      BY <3>3, <3>4
  <2>4. CASE o[m] = o[n]
    <3>1. m - 1 = n - 1
      BY <1>8, <2>4
    <3>2. ~(m < n)
      BY <1>1, <3>1
    <3>3. <<o[m], o[n]>> \notin R
      BY <1>8, <2>4 DEF StrictOrder
    <3>4. QED
      BY <3>2, <3>3
  <2>5. QED
    BY <1>8, <2>2, <2>3, <2>4 DEF StrictOrder
<1>11. ASSUME NEW x \in S
       PROVE  \E n \in 1..N : o[n] = x
  <2>1. rank[x] \in 0..N - 1
    BY <1>1
  <2>2. rank[x] + 1 \in 1..N /\ (rank[x] + 1) - 1 = rank[x]
    BY <1>1, <2>1
  <2>3. rank[o[rank[x] + 1]] = rank[x] /\ o[rank[x] + 1] \in S
    BY <1>8, <2>2
  <2>4. o[rank[x] + 1] = x
    BY <1>2, <2>3
  <2>5. QED
    BY <2>2, <2>4
<1>12. QED
  BY <1>1, <1>9, <1>10, <1>11

-----------------------------------------------------------------------------
(* Fetched links, and the candidates among them.                           *)

(* A subsequence has what the sequence has at the positions, each once.    *)
LEMMA SubsequenceFacts ==
  ASSUME NEW T, NEW seq \in Seq(T), NEW P \in SUBSET (DOMAIN seq)
  PROVE  /\ Subsequence(seq, P) \in Seq(T)
         /\ Len(Subsequence(seq, P)) = Cardinality(P)
         /\ DOMAIN Subsequence(seq, P) = 1..Cardinality(P)
         /\ ToSet(Subsequence(seq, P)) = {seq[i] : i \in P}
         /\ (\A i, j \in P : seq[i] = seq[j] => i = j) => IsInjective(Subsequence(seq, P))
<1> DEFINE R == {p \in P \X P : p[1] < p[2]}
           order == Enumerated(P, R)
           sub == Subsequence(seq, P)
           N == Cardinality(P)
<1>1. P \subseteq 1..Len(seq) /\ Len(seq) \in Nat
  BY LenProperties
<1>2. IsFiniteSet(P)
  BY <1>1, FS_Interval, FS_Subset
<1>3. StrictOrder(R, P)
  <2>1. \A x, y \in P : <<x, y>> \in R <=> x < y
    OBVIOUS
  <2>2. P \subseteq Int
    BY <1>1
  <2>3. QED
    BY <2>1, <2>2 DEF StrictOrder
<1>4. /\ N \in Nat
      /\ order \in [1..N -> P]
      /\ \A m, n \in 1..N : m < n <=> <<order[m], order[n]>> \in R
      /\ \A x \in P : \E n \in 1..N : order[n] = x
  BY <1>2, <1>3, EnumeratedIsInOrder
<1>5. sub = [n \in 1..N |-> seq[order[n]]]
  BY DEF Subsequence
<1> HIDE DEF order, sub, R, N
<1>6. \A n \in 1..N : seq[order[n]] \in T
  BY <1>1, <1>4, ElementOfSeq
<1>7. sub \in Seq(T) /\ DOMAIN sub = 1..N
  BY <1>4, <1>5, <1>6, IsASeq
<1>8. Len(sub) = N
  BY <1>4, <1>7, LenProperties
<1>9. ToSet(sub) = {seq[i] : i \in P}
  BY <1>4, <1>5 DEF ToSet
<1>10. ASSUME \A i, j \in P : seq[i] = seq[j] => i = j
       PROVE  IsInjective(sub)
  <2>1. SUFFICES ASSUME NEW m \in 1..N, NEW n \in 1..N, sub[m] = sub[n]
                 PROVE  m = n
    BY <1>7 DEF IsInjective
  <2>2. order[m] = order[n]
    BY <1>4, <1>5, <1>10, <2>1
  <2>3. <<order[m], order[n]>> \notin R /\ <<order[n], order[m]>> \notin R
    BY <1>3, <1>4, <2>2 DEF StrictOrder
  <2>4. ~(m < n) /\ ~(n < m)
    BY <1>4, <2>3
  <2>5. QED
    BY <1>4, <2>4
<1>11. QED
  BY <1>7, <1>8, <1>9, <1>10 DEF sub, N

(* What is left of the assumption for a raw link.                          *)
LEMMA LinkFacts ==
  /\ IsFiniteSet(Raw) /\ Parsable \subseteq Raw
  /\ \A r \in Raw : Canonical[r] \in Links
  /\ Links \subseteq Nat /\ IsFiniteSet(Links)
<1>1. /\ IsFiniteSet(Raw) /\ Parsable \subseteq Raw /\ Links \subseteq Nat
  BY CycleAssumption
<1>2. \A r \in Raw : Canonical[r] \in Links
  BY DEF Links
<1> DEFINE f == [r \in Raw |-> Canonical[r]]
<1>3. f \in Surjection(Raw, Links)
  <2>1. f \in [Raw -> Links] /\ \A l \in Links : \E r \in Raw : f[r] = l
    BY <1>2 DEF Links
  <2> HIDE DEF f
  <2>2. QED
    BY <2>1, Fun_IsSurj
<1> HIDE DEF f
<1>4. IsFiniteSet(Links)
  BY <1>1, <1>3, FS_Surjection
<1>5. QED
  BY <1>1, <1>2, <1>4

Cans(P) == {Canonical[r] : r \in P}

(* The rotation passes over a link only for a full cycle of candidates     *)
(* that were not tested after it.                                          *)
LEMMA SelectionFacts ==
  ASSUME NEW candidates \in Seq(Parsable), IsInjective(candidates),
         NEW tested \in [Links -> Nat]
  PROVE  /\ SelectCandidates(candidates, tested) \in Seq(Parsable)
         /\ ToSet(SelectCandidates(candidates, tested)) \subseteq ToSet(candidates)
         /\ IsInjective(SelectCandidates(candidates, tested))
         /\ \A c \in ToSet(candidates) :
              Canonical[c] \notin Cans(ToSet(SelectCandidates(candidates, tested))) =>
                /\ ProbeLimit > 0
                /\ Len(SelectCandidates(candidates, tested)) = ProbeLimit
                /\ \A s \in ToSet(SelectCandidates(candidates, tested)) :
                     tested[Canonical[s]] <= tested[Canonical[c]]
<1> DEFINE key(i) == tested[Canonical[candidates[i]]]
           link(i) == Canonical[candidates[i]]
           before(i, j) == \/ key(i) < key(j)
                           \/ key(i) = key(j) /\ link(i) < link(j)
                           \/ key(i) = key(j) /\ link(i) = link(j) /\ i < j
           at == DOMAIN candidates
           R == {p \in at \X at : before(p[1], p[2])}
           order == Enumerated(at, R)
           N == Len(candidates)
           limit == IF ProbeLimit > 0 /\ ProbeLimit < N THEN ProbeLimit ELSE N
           sel == SelectCandidates(candidates, tested)
<1>1. N \in Nat /\ at = 1..N /\ ProbeLimit \in Nat /\ \A i \in at : candidates[i] \in Parsable
  BY LenProperties, ElementOfSeq, CycleAssumption
<1>2. limit \in Nat /\ limit <= N
  BY <1>1
<1>3. \A i \in at : key(i) \in Nat /\ link(i) \in Nat
  BY <1>1, LinkFacts
<1>4. IsFiniteSet(at) /\ Cardinality(at) = N
  <2>1. /\ IsFiniteSet(1..N)
        /\ Cardinality(1..N) = IF 1 > N THEN 0 ELSE N - 1 + 1
    BY <1>1, FS_Interval
  <2>2. QED
    BY <1>1, <2>1
<1>5. sel = [n \in 1..limit |-> candidates[order[n]]]
  BY DEF SelectCandidates
<1>6. \A x, y \in at : <<x, y>> \in R <=> before(x, y)
  OBVIOUS
<1> HIDE DEF R, sel
<1>7. StrictOrder(R, at)
  <2>1. \A x \in at : ~before(x, x)
    BY <1>1, <1>3
  <2>2. ASSUME NEW x \in at, NEW y \in at, NEW z \in at, before(x, y), before(y, z)
        PROVE  before(x, z)
    <3>1. x \in Nat /\ y \in Nat /\ z \in Nat
      BY <1>1
    <3>2. /\ key(x) \in Nat /\ key(y) \in Nat /\ key(z) \in Nat
          /\ link(x) \in Nat /\ link(y) \in Nat /\ link(z) \in Nat
      BY <1>3
    <3> HIDE DEF key, link
    <3>3. QED
      BY <2>2, <3>1, <3>2
  <2>3. ASSUME NEW x \in at, NEW y \in at
        PROVE  x = y \/ before(x, y) \/ before(y, x)
    <3>1. x \in Nat /\ y \in Nat
      BY <1>1
    <3>2. /\ key(x) \in Nat /\ key(y) \in Nat
          /\ link(x) \in Nat /\ link(y) \in Nat
      BY <1>3
    <3> HIDE DEF key, link
    <3>3. QED
      BY <3>1, <3>2
  <2> HIDE DEF before
  <2>4. QED
    BY <1>6, <2>1, <2>2, <2>3 DEF StrictOrder
<1>8. /\ order \in [1..N -> at]
      /\ \A m, n \in 1..N : m < n <=> <<order[m], order[n]>> \in R
      /\ \A x \in at : \E n \in 1..N : order[n] = x
  BY <1>4, <1>7, EnumeratedIsInOrder
<1> HIDE DEF order, limit
<1>9. 1..limit \subseteq 1..N
  BY <1>1, <1>2
<1>10. \A n \in 1..limit : order[n] \in at /\ sel[n] = candidates[order[n]]
  BY <1>5, <1>8, <1>9
<1>11. sel \in Seq(Parsable) /\ DOMAIN sel = 1..limit
  BY <1>1, <1>2, <1>5, <1>10, IsASeq
<1>12. Len(sel) = limit
  BY <1>2, <1>11, LenProperties
<1>13. ToSet(sel) = {candidates[order[n]] : n \in 1..limit}
  BY <1>10, <1>11 DEF ToSet
<1>14. ToSet(sel) \subseteq ToSet(candidates)
  BY <1>10, <1>13 DEF ToSet
<1>15. IsInjective(sel)
  <2>1. SUFFICES ASSUME NEW m \in 1..limit, NEW n \in 1..limit, sel[m] = sel[n]
                 PROVE  m = n
    BY <1>11 DEF IsInjective
  <2>2. order[m] = order[n]
    BY <1>10, <2>1 DEF IsInjective
  <2>3. <<order[m], order[n]>> \notin R /\ <<order[n], order[m]>> \notin R
    BY <1>7, <1>10, <2>2 DEF StrictOrder
  <2>4. ~(m < n) /\ ~(n < m)
    BY <1>8, <1>9, <2>3
  <2>5. m \in Nat /\ n \in Nat
    BY <1>2
  <2>6. QED
    BY <2>4, <2>5
<1>16. ASSUME NEW c \in ToSet(candidates), Canonical[c] \notin Cans(ToSet(sel))
       PROVE  /\ ProbeLimit > 0 /\ Len(sel) = ProbeLimit
              /\ \A s \in ToSet(sel) : tested[Canonical[s]] <= tested[Canonical[c]]
  <2>1. PICK i \in at : candidates[i] = c
    BY DEF ToSet
  <2>2. PICK n \in 1..N : order[n] = i
    BY <1>8
  <2>3. n \notin 1..limit
    BY <1>13, <1>16, <2>1, <2>2 DEF Cans
  <2>4. limit < n /\ n <= N
    BY <1>1, <1>2, <2>3
  <2>5. ProbeLimit > 0 /\ Len(sel) = ProbeLimit
    <3>1. limit < N
      BY <1>1, <1>2, <2>4
    <3> HIDE DEF N
    <3>2. limit # N
      <4>1. N \in Nat /\ limit \in Nat
        BY <1>1, <1>2
      <4>2. QED
        BY <3>1, <4>1
    <3>3. ProbeLimit > 0 /\ limit = ProbeLimit
      BY <3>2 DEF limit
    <3>4. QED
      BY <1>12, <3>3
  <2>6. ASSUME NEW s \in ToSet(sel)
        PROVE  tested[Canonical[s]] <= tested[Canonical[c]]
    <3>1. PICK m \in 1..limit : candidates[order[m]] = s
      BY <1>13
    <3>2. m < n /\ m \in 1..N
      BY <1>1, <1>2, <2>4
    <3>3. <<order[m], order[n]>> \in R
      BY <1>8, <3>2
    <3>4. before(order[m], order[n])
      BY <1>6, <1>8, <3>2, <3>3
    <3>5. key(order[m]) <= key(order[n])
      BY <1>3, <1>8, <3>2, <3>4, SMTT(30)
    <3>6. QED
      BY <2>1, <2>2, <3>1, <3>5
  <2>7. QED
    BY <2>5, <2>6
<1>17. QED
  BY <1>11, <1>14, <1>15, <1>16 DEF sel

(* Numbering the instants anew keeps their order, and the clock at the     *)
(* last of them.                                                           *)
LEMMA RenumberedFacts ==
  ASSUME NEW instants \in [Links -> Nat], NEW c,
         c = Cardinality({Renumbered(instants)[l] : l \in Links} \ {0})
  PROVE  /\ c \in Nat
         /\ Renumbered(instants) \in [Links -> 0..c]
         /\ \A l, m \in Links : instants[l] < instants[m] =>
              Renumbered(instants)[l] < Renumbered(instants)[m]
<1> DEFINE V == {instants[m] : m \in Links}
           upTo(v) == V \cap 1..v
           rank(v) == Cardinality(upTo(v))
           kept == Renumbered(instants)
           K == {kept[l] : l \in Links} \ {0}
<1>1. kept = [l \in Links |-> rank(instants[l])]
  BY DEF Renumbered
<1>2. V \subseteq Nat
  OBVIOUS
<1> HIDE DEF kept
<1>3. IsFiniteSet(V)
  <2>1. instants \in Surjection(Links, V)
    <3>1. instants \in [Links -> V] /\ \A v \in V : \E l \in Links : instants[l] = v
      OBVIOUS
    <3>2. QED
      BY <3>1, Fun_IsSurj
  <2>2. QED
    BY <2>1, LinkFacts, FS_Surjection
<1>4. ASSUME NEW v
      PROVE  IsFiniteSet(upTo(v)) /\ rank(v) \in Nat
  BY <1>3, FS_Subset, FS_CardinalityType
<1>5. ASSUME NEW v \in Nat, NEW w \in V, v < w
      PROVE  rank(v) < rank(w)
  <2>1. upTo(v) \in SUBSET (upTo(w) \ {w}) /\ w \in upTo(w)
    BY <1>2, <1>5
  <2>2. /\ IsFiniteSet(upTo(w) \ {w})
        /\ Cardinality(upTo(w) \ {w}) = rank(w) - 1
    BY <1>4, <2>1, FS_RemoveElement, ZenonT(30)
  <2>3. rank(v) <= rank(w) - 1
    BY <2>1, <2>2, FS_Subset
  <2>4. rank(v) \in Nat /\ rank(w) \in Nat
    BY <1>4
  <2> HIDE DEF rank
  <2>5. QED
    BY <2>3, <2>4
<1>6. IsFiniteSet(K) /\ c \in Nat
  <2>1. kept \in Surjection(Links, {kept[l] : l \in Links})
    <3>1. /\ kept \in [Links -> {kept[l] : l \in Links}]
          /\ \A v \in {kept[l] : l \in Links} : \E l \in Links : kept[l] = v
      BY <1>1
    <3>2. QED
      BY <3>1, Fun_IsSurj
  <2>2. IsFiniteSet({kept[l] : l \in Links})
    BY <2>1, LinkFacts, FS_Surjection
  <2>3. IsFiniteSet(K)
    BY <2>2, FS_RemoveElement
  <2>4. QED
    BY <2>3, FS_CardinalityType DEF kept
<1>7. ASSUME NEW l \in Links
      PROVE  kept[l] \in 0..c
  <2> DEFINE g == [v \in upTo(instants[l]) |-> rank(v)]
  <2>1. ASSUME NEW v \in upTo(instants[l])
        PROVE  rank(v) \in K
    <3>1. PICK m \in Links : instants[m] = v
      OBVIOUS
    <3>2. v \in upTo(v)
      BY <1>2
    <3>3. rank(v) # 0
      BY <1>4, <3>2, FS_EmptySet
    <3>4. kept[m] = rank(v)
      BY <1>1, <3>1
    <3> HIDE DEF rank
    <3>5. QED
      BY <3>3, <3>4
  <2>2. ASSUME NEW v \in upTo(instants[l]), NEW w \in upTo(instants[l]), rank(v) = rank(w)
        PROVE  v = w
    <3>1. v \in V /\ w \in V /\ v \in Nat /\ w \in Nat
      BY <1>2
    <3>2. v < w => rank(v) < rank(w)
      BY <1>5, <3>1
    <3>3. w < v => rank(w) < rank(v)
      BY <1>5, <3>1
    <3>4. rank(v) \in Nat /\ rank(w) \in Nat
      BY <1>4
    <3> HIDE DEF rank
    <3>5. QED
      BY <2>2, <3>1, <3>2, <3>3, <3>4
  <2>3. g \in Injection(upTo(instants[l]), K)
    <3>1. g \in [upTo(instants[l]) -> K]
      BY <2>1
    <3>2. \A v, w \in upTo(instants[l]) : g[v] = g[w] => v = w
      BY <2>2
    <3> HIDE DEF g, upTo, K
    <3>3. QED
      BY <3>1, <3>2, Fun_IsInj
  <2>4. rank(instants[l]) <= Cardinality(K)
    BY <1>6, <2>3, FS_Injection
  <2>5. Cardinality(K) = c
    BY DEF kept
  <2>6. rank(instants[l]) \in Nat /\ kept[l] = rank(instants[l])
    BY <1>1, <1>4
  <2> HIDE DEF rank, K
  <2>7. QED
    BY <1>6, <2>4, <2>5, <2>6
<1>8. ASSUME NEW l \in Links, NEW m \in Links, instants[l] < instants[m]
      PROVE  kept[l] < kept[m]
  BY <1>1, <1>5, <1>8
<1>9. kept \in [Links -> 0..c]
  BY <1>1, <1>7
<1>10. QED
  BY <1>6, <1>8, <1>9 DEF kept

(* A wait of w cycles of k probes, all of them of others.                  *)
LEMMA WaitBound ==
  ASSUME NEW k \in Nat, k > 0, NEW n \in Nat, NEW w \in Nat, k * w < n
  PROVE  w < (n + k - 1) \div k
<1> DEFINE q == (n + k - 1) \div k
<1>1. q \in Int /\ n + k - 1 < k * q + k
  OBVIOUS
<1>2. QED
  BY <1>1

-----------------------------------------------------------------------------
(* What an attempt can come to.                                            *)

(* A verdict that is to be retried settles nothing.                        *)
IsVerdict(v) ==
  /\ DOMAIN v = {"status", "category", "retryable"}
  /\ v.status \in Statuses /\ v.retryable \in BOOLEAN
  /\ v.retryable = TRUE => v.status = Inconclusive

IsRefusal(v) == IsVerdict(v) /\ v.status # Passed

LEMMA MadeVerdict ==
  ASSUME NEW status \in Statuses, NEW category, NEW retryable \in BOOLEAN,
         retryable = TRUE => status = Inconclusive
  PROVE  /\ IsVerdict(Verdict(status, category, retryable))
         /\ Verdict(status, category, retryable).status = status
BY DEF IsVerdict, Verdict

LEMMA SimpleVerdicts ==
  /\ IsVerdict(Passes)
  /\ \A category : /\ IsRefusal(Fails(category))
                   /\ IsRefusal(Unsure(category))
                   /\ IsRefusal(Transient(category))
<1>1. IsVerdict(Passes)
  BY MadeVerdict DEF Passes, Statuses
<1>2. ASSUME NEW category
      PROVE  /\ IsRefusal(Fails(category))
             /\ IsRefusal(Unsure(category))
             /\ IsRefusal(Transient(category))
  BY MadeVerdict DEF Fails, Unsure, Transient, IsRefusal, Statuses, Passed, Failed,
                     Inconclusive
<1>3. QED
  BY <1>1, <1>2

LEMMA Least ==
  ASSUME NEW S \in SUBSET Nat, IsFiniteSet(S), S # {}
  PROVE  \E i \in S : \A j \in S : i <= j
<1> DEFINE R == {p \in S \X S : p[1] < p[2]}
           order == Enumerated(S, R)
<1>1. \A x, y \in S : <<x, y>> \in R <=> x < y
  OBVIOUS
<1> HIDE DEF R
<1>2. StrictOrder(R, S)
  BY <1>1 DEF StrictOrder
<1>3. /\ Cardinality(S) \in Nat
      /\ order \in [1..Cardinality(S) -> S]
      /\ \A k, m \in 1..Cardinality(S) : k < m <=> <<order[k], order[m]>> \in R
      /\ \A x \in S : \E k \in 1..Cardinality(S) : order[k] = x
  BY <1>2, EnumeratedIsInOrder
<1>4. 1 \in 1..Cardinality(S)
  BY <1>3, FS_EmptySet
<1> HIDE DEF order
<1>5. ASSUME NEW x \in S
      PROVE  order[1] <= x
  <2>1. PICK k \in 1..Cardinality(S) : order[k] = x
    BY <1>3
  <2>2. order[1] \in Nat /\ x \in Nat
    BY <1>3, <1>4
  <2>3. CASE k = 1
    BY <2>1, <2>2, <2>3
  <2>4. CASE k # 1
    <3>1. 1 < k
      BY <1>3, <2>4
    <3>2. order[1] < order[k]
      BY <1>1, <1>3, <1>4, <3>1
    <3>3. QED
      BY <2>1, <2>2, <3>2
  <2>5. QED
    BY <2>3, <2>4
<1>6. QED
  BY <1>3, <1>4, <1>5

(* There is a first check among those that apply.                          *)
LEMMA FirstMatchFacts ==
  ASSUME NEW checks, DOMAIN checks \in SUBSET Nat, IsFiniteSet(DOMAIN checks),
         NEW facts, NEW default
  PROVE  \/ FirstMatch(checks, facts, default) = default
         \/ \E i \in DOMAIN checks : FirstMatch(checks, facts, default) = checks[i][2]
<1> DEFINE hits == {i \in DOMAIN checks : checks[i][1] \in facts}
           first == CHOOSE i \in hits : \A j \in hits : i <= j
<1>1. CASE hits = {}
  BY <1>1 DEF FirstMatch
<1>2. CASE hits # {}
  <2>1. hits \in SUBSET (DOMAIN checks) /\ hits \in SUBSET Nat
    OBVIOUS
  <2> HIDE DEF hits
  <2>2. IsFiniteSet(hits)
    BY <2>1, FS_Subset
  <2>3. \E i \in hits : \A j \in hits : i <= j
    BY <1>2, <2>1, <2>2, Least
  <2>4. first \in hits
    BY <2>3
  <2>5. FirstMatch(checks, facts, default) = checks[first][2]
    BY <1>2 DEF FirstMatch, hits
  <2>6. QED
    BY <2>1, <2>4, <2>5
<1>3. QED
  BY <1>1, <1>2

(* The errors of a dial are no verdict in favour of a candidate.           *)
LEMMA DialVerdicts ==
  ASSUME NEW facts
  PROVE  IsRefusal(ClassifyDialError(facts))
<1>1. DOMAIN DialChecks = 1..11
  BY DEF DialChecks
<1>2. ASSUME NEW i \in 1..11
      PROVE  IsRefusal(DialChecks[i][2])
  <2>1. /\ IsRefusal(DialChecks[1][2]) /\ IsRefusal(DialChecks[2][2])
        /\ IsRefusal(DialChecks[3][2]) /\ IsRefusal(DialChecks[4][2])
        /\ IsRefusal(DialChecks[5][2]) /\ IsRefusal(DialChecks[6][2])
        /\ IsRefusal(DialChecks[7][2]) /\ IsRefusal(DialChecks[8][2])
        /\ IsRefusal(DialChecks[9][2]) /\ IsRefusal(DialChecks[10][2])
        /\ IsRefusal(DialChecks[11][2])
    BY SimpleVerdicts DEF DialChecks
  <2>2. i \in {1, 2, 3, 4, 5, 6, 7, 8, 9, 10, 11}
    OBVIOUS
  <2>3. QED
    BY <2>1, <2>2
<1>3. DOMAIN DialChecks \in SUBSET Nat /\ IsFiniteSet(DOMAIN DialChecks)
  <2>1. DOMAIN DialChecks \in SUBSET Nat /\ \A i \in DOMAIN DialChecks : i <= 11
    BY <1>1
  <2>2. QED
    BY <2>1, FS_BoundedSetOfNaturals
<1>4. \/ ClassifyDialError(facts) = Fails("proxy error")
      \/ \E i \in 1..11 : ClassifyDialError(facts) = DialChecks[i][2]
  BY <1>1, <1>3, FirstMatchFacts DEF ClassifyDialError
<1>5. QED
  BY <1>2, <1>4, SimpleVerdicts

LEMMA HealthVerdicts ==
  ASSUME NEW over \in BOOLEAN, NEW v \in UnhealthyVerdicts(over)
  PROVE  IsRefusal(v)
<1>1. \A code : IsRefusal(HealthAnswer(code))
  BY SimpleVerdicts DEF HealthAnswer
<1>2. \A F, o : IsRefusal(HealthError(F, o))
  BY SimpleVerdicts, DialVerdicts DEF HealthError
<1>3. QED
  BY <1>1, <1>2 DEF UnhealthyVerdicts

LEMMA ServiceErrorVerdict ==
  ASSUME NEW facts, NEW over \in BOOLEAN
  PROVE  IsVerdict(ServiceError(facts, over))
<1> DEFINE v == ClassifyDialError(facts)
<1>1. IsVerdict(v)
  BY DialVerdicts DEF IsRefusal
<1>2. IsVerdict([v EXCEPT !.status = Inconclusive, !.category = "timeout"])
  BY <1>1 DEF IsVerdict, Statuses
<1>3. QED
  BY <1>1, <1>2 DEF ServiceError

LEMMA ServiceVerdicts ==
  ASSUME NEW over \in BOOLEAN
  PROVE  /\ \A v \in GeminiVerdicts(over) : IsVerdict(v)
         /\ \A v \in ClaudeVerdicts(over) : IsVerdict(v)
<1>1. ASSUME NEW facts
      PROVE  IsVerdict(FirstMatch(CommonChecks, facts, Passes))
  <2>1. DOMAIN CommonChecks = 1..6
    BY DEF CommonChecks
  <2>2. ASSUME NEW i \in 1..6
        PROVE  IsVerdict(CommonChecks[i][2])
    <3>1. /\ IsVerdict(CommonChecks[1][2]) /\ IsVerdict(CommonChecks[2][2])
          /\ IsVerdict(CommonChecks[3][2]) /\ IsVerdict(CommonChecks[4][2])
          /\ IsVerdict(CommonChecks[5][2]) /\ IsVerdict(CommonChecks[6][2])
      BY SimpleVerdicts DEF CommonChecks, IsRefusal
    <3>2. i \in {1, 2, 3, 4, 5, 6}
      OBVIOUS
    <3>3. QED
      BY <3>1, <3>2
  <2>3. DOMAIN CommonChecks \in SUBSET Nat /\ \A i \in DOMAIN CommonChecks : i <= 6
    BY <2>1
  <2>4. IsFiniteSet(DOMAIN CommonChecks)
    BY <2>3, FS_BoundedSetOfNaturals
  <2>5. \/ FirstMatch(CommonChecks, facts, Passes) = Passes
        \/ \E i \in 1..6 : FirstMatch(CommonChecks, facts, Passes) = CommonChecks[i][2]
    BY <2>1, <2>3, <2>4, FirstMatchFacts
  <2>6. QED
    BY <2>2, <2>5, SimpleVerdicts
<1>2. ASSUME NEW page
      PROVE  IsVerdict(GeminiPage(page))
  <2> DEFINE default == IF GeminiVerified(page) THEN Passes ELSE Fails("target other")
  <2>1. DOMAIN GeminiChecks = 1..4
    BY DEF GeminiChecks
  <2>2. ASSUME NEW i \in 1..4
        PROVE  IsVerdict(GeminiChecks[i][2])
    <3>1. /\ IsVerdict(GeminiChecks[1][2]) /\ IsVerdict(GeminiChecks[2][2])
          /\ IsVerdict(GeminiChecks[3][2]) /\ IsVerdict(GeminiChecks[4][2])
      BY SimpleVerdicts DEF GeminiChecks, IsRefusal
    <3>2. i \in {1, 2, 3, 4}
      OBVIOUS
    <3>3. QED
      BY <3>1, <3>2
  <2>3. DOMAIN GeminiChecks \in SUBSET Nat /\ \A i \in DOMAIN GeminiChecks : i <= 4
    BY <2>1
  <2>4. IsFiniteSet(DOMAIN GeminiChecks)
    BY <2>3, FS_BoundedSetOfNaturals
  <2>5. IsVerdict(default)
    BY SimpleVerdicts DEF IsRefusal
  <2>6. GeminiPage(page) = FirstMatch(GeminiChecks, page, default)
    BY DEF GeminiPage
  <2> HIDE DEF default
  <2>7. \/ FirstMatch(GeminiChecks, page, default) = default
        \/ \E i \in 1..4 : FirstMatch(GeminiChecks, page, default) = GeminiChecks[i][2]
    BY <2>1, <2>3, <2>4, FirstMatchFacts
  <2>8. QED
    BY <2>2, <2>5, <2>6, <2>7
<1>3. ASSUME NEW code, NEW page
      PROVE  IsVerdict(classifyResponsePayload(code, page))
  <2>1. CASE code \in CommonCodes
    BY <1>1, <2>1 DEF classifyResponsePayload
  <2>2. CASE code \notin CommonCodes /\ code = 200
    BY <1>2, <2>2 DEF classifyResponsePayload
  <2>3. CASE code \notin CommonCodes /\ code # 200
    BY <2>3, SimpleVerdicts DEF classifyResponsePayload, IsRefusal
  <2>4. QED
    BY <2>1, <2>2, <2>3
<1>4. \A code, page : IsVerdict(ClassifyResponse(code, page))
  BY <1>1, SimpleVerdicts DEF ClassifyResponse, IsRefusal
<1>5. QED
  BY <1>3, <1>4, ServiceErrorVerdict DEF GeminiVerdicts, ClaudeVerdicts

(* An attempt's result, and what AttemptsAreCoherent says of it.           *)
Results ==
  [status : Statuses, retryable : BOOLEAN, transport : {"unknown", "bad", "ok"},
   gemini : Statuses, claude : Statuses \cup {NotProbed}, cancelled : BOOLEAN]

Coherent(r) ==
  /\ r.retryable = TRUE => r.status = Inconclusive
  /\ r.status = Passed => r.transport = "ok"
  /\ r.transport # "ok" => r.claude # Passed
  /\ r.gemini = r.status

SoundResult(r, claude, over) ==
  /\ r \in Results
  /\ Coherent(r)
  /\ (r.claude = NotProbed) = ~claude
  /\ r.cancelled = over

LEMMA AttemptResultFacts ==
  ASSUME NEW claude \in BOOLEAN, NEW over \in BOOLEAN,
         NEW r \in AttemptResults[claude][over]
  PROVE  SoundResult(r, claude, over)
<1>1. ASSUME NEW v, IsRefusal(v), NEW transport \in {"unknown", "bad"}
      PROVE  SoundResult(SameForAll(v, transport, claude, over), claude, over)
  <2>1. /\ v.status \in Statuses /\ v.retryable \in BOOLEAN /\ v.status # Passed
        /\ v.retryable = TRUE => v.status = Inconclusive
    BY <1>1 DEF IsRefusal, IsVerdict
  <2>2. NotProbed # Passed /\ NotProbed \notin Statuses
    BY DEF NotProbed, Passed, Failed, Inconclusive, Statuses
  <2>3. SameForAll(v, transport, claude, over) =
          [status |-> v.status, retryable |-> v.retryable, transport |-> transport,
           gemini |-> v.status, claude |-> IF claude THEN v.status ELSE NotProbed,
           cancelled |-> over]
    BY DEF SameForAll, AttemptResult
  <2>4. QED
    BY <2>1, <2>2, <2>3 DEF SoundResult, Results, Coherent
<1>2. ASSUME NEW g, IsVerdict(g), NEW c,
             IF claude THEN c \in Statuses ELSE c = NotProbed
      PROVE  SoundResult(AttemptResult(g, "ok", g.status, c, over), claude, over)
  <2>1. /\ g.status \in Statuses /\ g.retryable \in BOOLEAN
        /\ g.retryable = TRUE => g.status = Inconclusive
    BY <1>2 DEF IsVerdict
  <2>2. NotProbed \notin Statuses
    BY DEF NotProbed, Passed, Failed, Inconclusive, Statuses
  <2>3. AttemptResult(g, "ok", g.status, c, over) =
          [status |-> g.status, retryable |-> g.retryable, transport |-> "ok",
           gemini |-> g.status, claude |-> c, cancelled |-> over]
    BY DEF AttemptResult
  <2>4. QED
    BY <1>2, <2>1, <2>2, <2>3 DEF SoundResult, Results, Coherent
<1>3. r \in UNION {BuildFailed(claude, over), HealthUnanswered(claude, over),
                   IF over THEN {} ELSE Unhealthy(claude, over), Healthy(claude, over)}
  BY DEF AttemptResults, executeAttempt
<1>4. CASE r \in BuildFailed(claude, over)
  BY <1>1, <1>4, DialVerdicts DEF BuildFailed
<1>5. CASE r \in HealthUnanswered(claude, over)
  BY <1>1, <1>5, SimpleVerdicts DEF HealthUnanswered
<1>6. CASE r \in Unhealthy(claude, over)
  BY <1>1, <1>6, HealthVerdicts DEF Unhealthy
<1>7. CASE r \in Healthy(claude, over)
  <2>1. PICK g \in GeminiVerdicts(over),
             c \in IF claude THEN {v.status : v \in ClaudeVerdicts(over)} ELSE {NotProbed} :
               r = AttemptResult(g, "ok", g.status, c, over)
    BY <1>7 DEF Healthy
  <2>2. IsVerdict(g)
    BY ServiceVerdicts
  <2>3. IF claude THEN c \in Statuses ELSE c = NotProbed
    BY ServiceVerdicts DEF IsVerdict
  <2>4. QED
    BY <1>2, <2>1, <2>2, <2>3
<1>8. QED
  BY <1>3, <1>4, <1>5, <1>6, <1>7

-----------------------------------------------------------------------------
(* The inductive invariant.                                                *)

Places ==
  {"free", "new", "limiter", "attempt", "backoff", "returned", "recording",
   "recorded", "completed", "passed read", "failed read"}

(* A worker has a candidate in hand until it has recorded or dropped it,   *)
(* and a probe under way from the moment it has its instant.               *)
Testing == {"limiter", "attempt", "backoff", "returned", "recording"}
Handling == Testing \cup {"new"}
InHand == {w \in Slots : pc[w] \in Handling}

(* Recorded, and not counted as completed yet.                             *)
Uncounted == {w \in Slots : pc[w] = "recorded"}

Outcomes ==
  [status : Statuses \cup {NotProbed}, retryable : BOOLEAN,
   transport : {"unknown", "bad", "ok"}, gemini : Statuses \cup {NotProbed},
   claude : Statuses \cup {NotProbed}, cancelled : BOOLEAN]
Counts == [Statuses -> Nat]
Events == [completed : Nat, passed : Nat, failed : Nat, inconclusive : Nat]

FetchTyped ==
  /\ stage \in {"idle", "fetching", "probing"}
  /\ ctxDone \in BOOLEAN /\ errs \in BOOLEAN
  /\ try \in 0..FetchAttempts - 1
  /\ left \in Seq(DOMAIN Offers)
  /\ links \in Seq(Raw) /\ IsInjective(links)

PoolTyped ==
  /\ selected \in Seq(Parsable) /\ dispatched \in BOOLEAN
  /\ next \in Nat \ {0} /\ next <= Len(selected) + 1
  /\ population \subseteq Parsable /\ probed \subseteq Links

WorkersTyped ==
  /\ pc \in [Slots -> Places]
  /\ cand \in [Slots -> Parsable \cup {NoCand}]
  /\ start \in [Slots -> Nat]
  /\ attempt \in [Slots -> 0..MaxRetries]
  /\ result \in [Slots -> Outcomes]
  /\ seen \in [Slots -> Events]

CountsTyped ==
  /\ tally \in Counts /\ progress \in Counts
  /\ completed \in Nat /\ event \in Events
  /\ finished \in [total : Nat, completed : Nat, counts : Counts, cancelled : BOOLEAN]

RotationTyped ==
  /\ clock \in Nat
  /\ lastTested \in [Links -> 0..clock]
  /\ waited \in [Links -> Nat]

(* Between two cycles nothing is left of the one before.                   *)
Quiet ==
  stage # "probing" =>
    /\ \A w \in Slots : pc[w] = "free"
    /\ selected = <<>> /\ next = 1
    /\ tally = Zero /\ progress = Zero /\ completed = 0 /\ event = NoEvent

(* What a worker holds.                                                    *)
Held(w) ==
  /\ pc[w] \in Handling => cand[w] \in ToSet(selected)
  /\ pc[w] \notin Testing => start[w] = 0
  /\ start[w] <= clock
  /\ pc[w] = "backoff" => attempt[w] < MaxRetries
  /\ pc[w] \in {"returned", "recording"} => result[w].status \in Statuses

(* Until the context is over, a result that came back is one of an attempt *)
(* nobody cancelled, and so is whatever is accepted.                       *)
Judged(w) ==
  pc[w] = "recording" \/ (pc[w] = "returned" /\ ~ctxDone) =>
    /\ result[w].cancelled = FALSE
    /\ result[w].gemini = result[w].status
    /\ (result[w].claude = NotProbed) = ~ClaudeEnabled

(* Every candidate dispatched is in hand, recorded or, once the context is *)
(* over, perhaps dropped.                                                  *)
Balanced ==
  /\ tally = progress
  /\ completed + Cardinality(Uncounted) = Total(progress)
  /\ Total(progress) + Cardinality(InHand) <= next - 1
  /\ stage = "probing" /\ ~ctxDone =>
       Total(progress) + Cardinality(InHand) = next - 1

(* The counters of an event, as far as its worker has read them.           *)
Read(w) ==
  /\ pc[w] = "completed" => seen[w].completed <= Total(progress)
  /\ pc[w] \in {"passed read", "failed read"} => seen[w].passed <= progress[Passed]
  /\ pc[w] = "failed read" => seen[w].failed <= progress[Failed]
  /\ pc[w] = "passed read" =>
       seen[w].completed <= seen[w].passed + progress[Failed] + progress[Inconclusive]
  /\ pc[w] = "failed read" =>
       seen[w].completed <= seen[w].passed + seen[w].failed + progress[Inconclusive]

Published ==
  /\ event.completed <= event.passed + event.failed + event.inconclusive
  /\ event.passed + event.failed + event.inconclusive <= Total(progress)
  /\ finished.cancelled = FALSE => finished.completed = Total(finished.counts)

(* Those of the population that were tested after a link.                  *)
Later(l) == {r \in population : lastTested[l] < lastTested[Canonical[r]]}

(* Each cycle a link waited, as many others as a cycle probes were tested  *)
(* after it.                                                               *)
Owed ==
  \A l \in Cans(population) :
    /\ ProbeLimit * waited[l] <= Cardinality(Later(l))
    /\ ProbeLimit = 0 => waited[l] = 0

(* Of a link the running cycle passes over: the others that came after it  *)
(* are none of this cycle's, and this cycle's come after it too.           *)
PassedOver ==
  stage = "probing" =>
    \A l \in Cans(population) \ Cans(ToSet(selected)) :
      /\ ProbeLimit > 0 /\ Len(selected) = ProbeLimit
      /\ ProbeLimit * waited[l] <= Cardinality(Later(l) \ ToSet(selected))
      /\ \A w \in Slots : pc[w] \in Testing => lastTested[l] < start[w]
      /\ \A p \in probed : lastTested[l] < lastTested[p]

(* This cycle's candidates: each dispatched one is probed or in hand.      *)
Covered ==
  stage = "probing" =>
    /\ IsInjective(selected)
    /\ ToSet(selected) \subseteq population
    /\ probed \subseteq Cans(ToSet(selected))
    /\ ~ctxDone =>
         \A n \in 1..next - 1 : \/ Canonical[selected[n]] \in probed
                                \/ \E w \in InHand : cand[w] = selected[n]

Typed == FetchTyped /\ PoolTyped /\ WorkersTyped /\ CountsTyped /\ RotationTyped
Working == \A w \in Slots : Held(w) /\ Judged(w) /\ Read(w)
Counted == Balanced /\ Published
Rotating == Owed /\ PassedOver /\ Covered
IInv == Typed /\ Quiet /\ Working /\ Counted /\ Rotating

LEMMA ZeroFacts == Zero \in Counts /\ Total(Zero) = 0 /\ NoEvent \in Events
BY DEF Zero, Counts, Total, NoEvent, Events, Statuses, Passed, Failed, Inconclusive

LEMMA TotalType ==
  ASSUME NEW count \in Counts
  PROVE  /\ Total(count) \in Nat
         /\ count[Passed] \in Nat /\ count[Failed] \in Nat /\ count[Inconclusive] \in Nat
BY DEF Counts, Total, Statuses

LEMMA NoResultType == NoResult \in Outcomes
BY DEF NoResult, Outcomes, NotProbed

(* Nothing is in hand where every slot is free.                            *)
LEMMA AllFree ==
  ASSUME \A w \in Slots : pc[w] = "free"
  PROVE  /\ InHand = {} /\ Cardinality(InHand) = 0
         /\ Uncounted = {} /\ Cardinality(Uncounted) = 0
<1>1. InHand = {} /\ Uncounted = {}
  BY DEF InHand, Uncounted, Handling, Testing
<1>2. QED
  BY <1>1, FS_EmptySet

LEMMA NothingFetched ==
  /\ \A S : <<>> \in Seq(S)
  /\ Len(<<>>) = 0 /\ ToSet(<<>>) = {} /\ IsInjective(<<>>)
<1>1. /\ \A S : <<>> \in Seq(S)
      /\ Len(<<>>) = 0 /\ DOMAIN <<>> = {}
  BY EmptySeq
<1>2. QED
  BY <1>1 DEF IsInjective, ToSet

LEMMA InitTyped == Init => Typed
<1> SUFFICES ASSUME Init
             PROVE  Typed
  OBVIOUS
<1>1. FetchTyped
  <2>1. left \in Seq(DOMAIN Offers) /\ links \in Seq(Raw) /\ IsInjective(links)
    BY NothingFetched DEF Init
  <2>2. ctxDone \in BOOLEAN /\ errs \in BOOLEAN
    BY DEF Init
  <2>3. stage = "idle" /\ try \in 0..FetchAttempts - 1
    BY DEF Init, FetchAttempts
  <2>4. QED
    BY <2>1, <2>2, <2>3 DEF FetchTyped
<1>2. PoolTyped
  <2>1. selected \in Seq(Parsable) /\ Len(selected) = 0
    BY NothingFetched DEF Init
  <2>2. dispatched \in BOOLEAN
    BY DEF Init
  <2>3. next = 1 /\ population = {} /\ probed = {}
    BY DEF Init
  <2>4. next \in Nat \ {0} /\ next <= Len(selected) + 1
    BY <2>1, <2>3
  <2>5. QED
    BY <2>1, <2>2, <2>3, <2>4 DEF PoolTyped
<1>3. WorkersTyped
  BY NoResultType, ZeroFacts, CycleAssumption DEF Init, WorkersTyped, Places
<1>4. CountsTyped
  BY ZeroFacts DEF Init, CountsTyped, NotFinished
<1>5. RotationTyped
  BY DEF Init, RotationTyped
<1>6. QED
  BY <1>1, <1>2, <1>3, <1>4, <1>5 DEF Typed

LEMMA InitIInv == Init => IInv
<1> SUFFICES ASSUME Init
             PROVE  IInv
  OBVIOUS
<1>1. Typed
  BY InitTyped
<1>2. Quiet
  BY DEF Init, Quiet
<1>3. Working
  BY DEF Init, Working, Held, Judged, Read, Handling, Testing
<1>4. Counted
  <2>1. /\ Cardinality(InHand) = 0 /\ Cardinality(Uncounted) = 0
    BY AllFree DEF Init
  <2>2. Balanced
    BY <2>1, ZeroFacts DEF Init, Balanced
  <2>3. Published
    BY ZeroFacts DEF Init, Published, NoEvent, NotFinished
  <2>4. QED
    BY <2>2, <2>3 DEF Counted
<1>5. Rotating
  BY DEF Init, Rotating, Owed, PassedOver, Covered, Cans
<1>6. QED
  BY <1>1, <1>2, <1>3, <1>4, <1>5 DEF IInv

-----------------------------------------------------------------------------
(* What each kind of step leaves alone.                                    *)

FetchStep ==
  \/ Start \/ StartWithoutSource \/ Abort
  \/ FetchOne \/ FetchAgain \/ FetchFails \/ FetchCancelled

EndStep == Interrupted \/ FinishCycle

LEMMA NextCases ==
  Next => \/ FetchStep \/ Cancel \/ Load \/ StopDispatching \/ EndStep
          \/ \E w \in Slots : Worker(w)
BY DEF Next, Running, FetchStep, EndStep

LEMMA FetchFrame ==
  FetchStep =>
    /\ stage # "probing" /\ stage' # "probing"
    /\ UNCHANGED <<poolVars, workerVars, clock, lastTested, countVars, historyVars>>
BY DEF FetchStep, Start, StartWithoutSource, Abort, EndEarly, FetchOne, FetchAgain,
       FetchFails, FetchCancelled, Fetched

LEMMA WorkerFrame ==
  ASSUME NEW w \in Slots, Worker(w)
  PROVE  UNCHANGED <<stage, ctxDone, fetchVars, selected, dispatched, finished, population>>
BY DEF Worker, Dispatch, Begin, Limiter, LimiterRefuses, GivesUp, Attempt, Retry,
       BackoffCancelled, Accept, Drop, Record, CompleteOne, ReadPassed, ReadFailed,
       PublishProgress, restOfWorker, poolVars, countVars, historyVars

LEMMA EndFrame ==
  EndStep =>
    /\ PoolReturned
    /\ stage' = "idle" /\ ctxDone' = FALSE
    /\ selected' = <<>> /\ next' = 1 /\ dispatched' = FALSE
    /\ tally' = Zero /\ progress' = Zero /\ completed' = 0 /\ event' = NoEvent
    /\ UNCHANGED <<fetchVars, workerVars, clock, lastTested, population, probed>>
BY DEF EndStep, Interrupted, FinishCycle, Ended

(* Fetched links stay without duplicates.                                  *)
LEMMA FetchedLinks ==
  ASSUME FetchTyped, NEW more \in Seq(Raw)
  PROVE  /\ links \o Subsequence(more, Unseen(more)) \in Seq(Raw)
         /\ IsInjective(links \o Subsequence(more, Unseen(more)))
<1> DEFINE add == Subsequence(more, Unseen(more))
           all == links \o add
<1>1. Unseen(more) \in SUBSET (DOMAIN more)
  BY DEF Unseen
<1>2. DOMAIN more \subseteq Nat
  BY LenProperties
<1>3. \A i, j \in Unseen(more) : more[i] = more[j] => i = j
  <2>1. \A i, j \in Unseen(more) : more[i] = more[j] => i <= j /\ j <= i
    BY <1>1 DEF Unseen
  <2>2. QED
    BY <1>1, <1>2, <2>1
<1>4. /\ add \in Seq(Raw) /\ IsInjective(add)
      /\ ToSet(add) = {more[i] : i \in Unseen(more)}
  BY <1>1, <1>3, SubsequenceFacts
<1>5. links \in Seq(Raw) /\ IsInjective(links)
  BY DEF FetchTyped
<1>6. \A x \in ToSet(add) : x \notin ToSet(links)
  BY <1>4 DEF Unseen
<1> HIDE DEF add
<1>7. /\ all \in Seq(Raw)
      /\ Len(all) = Len(links) + Len(add)
      /\ \A i \in 1..Len(links) + Len(add) :
           all[i] = IF i <= Len(links) THEN links[i] ELSE add[i - Len(links)]
  BY <1>4, <1>5, ConcatProperties
<1>8. /\ Len(links) \in Nat /\ DOMAIN links = 1..Len(links)
      /\ Len(add) \in Nat /\ DOMAIN add = 1..Len(add)
      /\ DOMAIN all = 1..Len(links) + Len(add)
  BY <1>4, <1>5, <1>7, LenProperties
<1> HIDE DEF all
<1>9. ASSUME NEW i \in 1..Len(links) + Len(add), NEW j \in 1..Len(links) + Len(add),
             all[i] = all[j]
      PROVE  i = j
  <2>1. CASE i <= Len(links) /\ j <= Len(links)
    BY <1>5, <1>7, <1>8, <1>9, <2>1, SMTT(30) DEF IsInjective
  <2>2. CASE i <= Len(links) /\ ~(j <= Len(links))
    <3>1. j - Len(links) \in 1..Len(add) /\ i \in 1..Len(links)
      BY <1>8, <2>2
    <3>2. all[j] \in ToSet(add) /\ all[i] \in ToSet(links)
      BY <1>7, <1>8, <2>2, <3>1 DEF ToSet
    <3>3. QED
      BY <1>6, <1>9, <3>2
  <2>3. CASE ~(i <= Len(links)) /\ j <= Len(links)
    <3>1. i - Len(links) \in 1..Len(add) /\ j \in 1..Len(links)
      BY <1>8, <2>3
    <3>2. all[i] \in ToSet(add) /\ all[j] \in ToSet(links)
      BY <1>7, <1>8, <2>3, <3>1 DEF ToSet
    <3>3. QED
      BY <1>6, <1>9, <3>2
  <2>4. CASE ~(i <= Len(links)) /\ ~(j <= Len(links))
    <3>1. i - Len(links) \in 1..Len(add) /\ j - Len(links) \in 1..Len(add)
      BY <1>8, <2>4
    <3>2. add[i - Len(links)] = add[j - Len(links)]
      BY <1>7, <1>9, <2>4
    <3>3. i - Len(links) = j - Len(links)
      BY <1>4, <1>8, <3>1, <3>2 DEF IsInjective
    <3>4. QED
      BY <1>8, <3>3
  <2>5. QED
    BY <2>1, <2>2, <2>3, <2>4
<1>10. IsInjective(all)
  BY <1>8, <1>9 DEF IsInjective
<1>11. QED
  BY <1>7, <1>10 DEF all, add

LEMMA FetchTypedNext ==
  ASSUME IInv, Next
  PROVE  FetchTyped'
<1>1. FetchTyped
  BY DEF IInv, Typed
<1>2. CASE Start
  <2>1. PICK S \in SUBSET (DOMAIN Sources) : left' = Subsequence(Sources, S)
    BY <1>2 DEF Start
  <2>2. left' \in Seq(DOMAIN Offers)
    BY <2>1, CycleAssumption, SubsequenceFacts
  <2>3. links' = <<>> /\ links' \in Seq(Raw) /\ IsInjective(links')
    BY <1>2, NothingFetched DEF Start
  <2>4. ctxDone' \in BOOLEAN /\ errs' \in BOOLEAN
    BY <1>2 DEF Start
  <2>5. stage' = "fetching" /\ try' \in 0..FetchAttempts - 1
    BY <1>2 DEF Start, FetchAttempts
  <2>6. QED
    BY <2>2, <2>3, <2>4, <2>5 DEF FetchTyped
<1>3. ASSUME NEW more \in Seq(Raw), NEW failed \in BOOLEAN, Fetched(more, failed),
             left # <<>>, left' \in {Tail(left), <<>>}
      PROVE  FetchTyped'
  <2>1. links' \in Seq(Raw) /\ IsInjective(links')
    BY <1>1, <1>3, FetchedLinks DEF Fetched
  <2>2. Tail(left) \in Seq(DOMAIN Offers) /\ <<>> \in Seq(DOMAIN Offers)
    BY <1>1, <1>3, HeadTailProperties, NothingFetched DEF FetchTyped
  <2>3. left' \in Seq(DOMAIN Offers)
    BY <1>3, <2>2
  <2>4. errs' \in BOOLEAN /\ ctxDone' \in BOOLEAN
    BY <1>1, <1>3 DEF FetchTyped, Fetched
  <2>5. stage' \in {"idle", "fetching", "probing"} /\ try' \in 0..FetchAttempts - 1
    BY <1>1, <1>3 DEF FetchTyped, Fetched, FetchAttempts
  <2>6. QED
    BY <2>1, <2>3, <2>4, <2>5 DEF FetchTyped
<1>4. CASE FetchOne
  <2>1. PICK answer \in Offers[Head(left)] : Fetched(answer, FALSE)
    BY <1>4 DEF FetchOne
  <2>2. Head(left) \in DOMAIN Offers
    BY <1>1, <1>4, HeadTailProperties DEF FetchTyped, FetchOne
  <2>3. answer \in Seq(Raw)
    BY <2>2, CycleAssumption
  <2>4. QED
    BY <1>3, <1>4, <2>1, <2>3 DEF FetchOne
<1>5. CASE FetchFails \/ FetchCancelled
  BY <1>3, <1>5, NothingFetched DEF FetchFails, FetchCancelled
<1>6. CASE FetchAgain
  <2>1. try' \in 0..FetchAttempts - 1
    BY <1>1, <1>6 DEF FetchAgain, FetchTyped, FetchAttempts
  <2>2. UNCHANGED <<stage, ctxDone, left, links, errs>>
    BY <1>6 DEF FetchAgain
  <2>3. QED
    BY <1>1, <2>1, <2>2 DEF FetchTyped
<1>7. CASE StartWithoutSource \/ Abort
  <2>1. stage' = "idle" /\ UNCHANGED <<left, try, links>>
    BY <1>7 DEF StartWithoutSource, Abort, EndEarly
  <2>2. ctxDone' \in BOOLEAN /\ errs' \in BOOLEAN
    BY <1>7 DEF StartWithoutSource, Abort, EndEarly
  <2>3. QED
    BY <1>1, <2>1, <2>2 DEF FetchTyped
<1>8. CASE Load
  <2>1. stage' = "probing" /\ links' = <<>> /\ UNCHANGED <<ctxDone, left, try>>
    BY <1>8 DEF Load
  <2>2. errs' \in BOOLEAN
    BY <1>8 DEF Load
  <2>3. QED
    BY <1>1, <2>1, <2>2, NothingFetched DEF FetchTyped
<1>9. CASE Cancel
  <2>1. ctxDone' \in BOOLEAN /\ UNCHANGED <<stage, left, try, links, errs>>
    BY <1>9 DEF Cancel, fetchVars
  <2>2. QED
    BY <1>1, <2>1 DEF FetchTyped
<1>10. CASE StopDispatching
  <2>1. UNCHANGED <<stage, ctxDone, left, try, links, errs>>
    BY <1>10 DEF StopDispatching, fetchVars
  <2>2. QED
    BY <1>1, <2>1 DEF FetchTyped
<1>11. CASE EndStep
  <2>1. stage' = "idle" /\ UNCHANGED <<left, try, links, errs>>
    BY <1>11, EndFrame DEF fetchVars
  <2>2. ctxDone' \in BOOLEAN
    BY <1>11, EndFrame
  <2>3. QED
    BY <1>1, <2>1, <2>2 DEF FetchTyped
<1>12. ASSUME NEW w \in Slots, Worker(w)
       PROVE  FetchTyped'
  <2>1. UNCHANGED <<stage, ctxDone, left, try, links, errs>>
    BY <1>12, WorkerFrame DEF fetchVars
  <2>2. QED
    BY <1>1, <2>1 DEF FetchTyped
<1>13. QED
  BY <1>2, <1>4, <1>5, <1>6, <1>7, <1>8, <1>9, <1>10, <1>11, <1>12, NextCases DEF FetchStep

-----------------------------------------------------------------------------
(* The workers.                                                            *)

(* A worker moves from where it is, and touches nothing of another.        *)
LEMMA WorkerAlone ==
  ASSUME WorkersTyped, NEW w \in Slots, Worker(w)
  PROVE  /\ pc' \in [Slots -> Places] /\ pc'[w] # pc[w]
         /\ pc[w] = "free" => Dispatch(w)
         /\ \A v \in Slots \ {w} :
              /\ pc'[v] = pc[v] /\ cand'[v] = cand[v] /\ start'[v] = start[v]
              /\ attempt'[v] = attempt[v] /\ result'[v] = result[v] /\ seen'[v] = seen[v]
<1>1. /\ pc \in [Slots -> Places]
      /\ DOMAIN cand = Slots /\ DOMAIN start = Slots /\ DOMAIN attempt = Slots
      /\ DOMAIN result = Slots /\ DOMAIN seen = Slots
  BY DEF WorkersTyped
<1>2. \E from, to \in Places :
        Goes(w, from, to) /\ from # to /\ (from = "free" => Dispatch(w))
  <2>1. CASE Dispatch(w)
    BY <2>1 DEF Dispatch, Places
  <2>2. CASE Begin(w)
    BY <2>2 DEF Begin, Places
  <2>3. CASE Limiter(w) \/ Accept(w)
    BY <2>3 DEF Limiter, Accept, Places
  <2>4. CASE LimiterRefuses(w) \/ BackoffCancelled(w)
    BY <2>4 DEF LimiterRefuses, BackoffCancelled, GivesUp, Places
  <2>5. CASE Attempt(w)
    BY <2>5 DEF Attempt, Places
  <2>6. CASE Retry(w) \/ Drop(w)
    BY <2>6 DEF Retry, Drop, Places
  <2>7. CASE Record(w) \/ CompleteOne(w)
    BY <2>7 DEF Record, CompleteOne, Places
  <2>8. CASE ReadPassed(w) \/ ReadFailed(w) \/ PublishProgress(w)
    BY <2>8 DEF ReadPassed, ReadFailed, PublishProgress, Places
  <2>9. QED
    BY <2>1, <2>2, <2>3, <2>4, <2>5, <2>6, <2>7, <2>8 DEF Worker
<1>3. PICK from \in Places, to \in Places :
        Goes(w, from, to) /\ from # to /\ (from = "free" => Dispatch(w))
  BY <1>2
<1>4. /\ pc' \in [Slots -> Places] /\ pc'[w] # pc[w]
      /\ pc[w] = "free" => Dispatch(w)
      /\ \A v \in Slots \ {w} : pc'[v] = pc[v]
  BY <1>1, <1>3 DEF Goes
<1>5. ASSUME NEW v \in Slots \ {w}
      PROVE  /\ cand'[v] = cand[v] /\ start'[v] = start[v] /\ attempt'[v] = attempt[v]
             /\ result'[v] = result[v] /\ seen'[v] = seen[v]
  <2>1. CASE Dispatch(w)
    BY <1>1, <2>1 DEF Dispatch
  <2>2. CASE Begin(w)
    BY <1>1, <2>2 DEF Begin
  <2>3. CASE Limiter(w) \/ Accept(w)
    BY <1>1, <2>3 DEF Limiter, Accept
  <2>4. CASE LimiterRefuses(w) \/ BackoffCancelled(w)
    BY <1>1, <2>4 DEF LimiterRefuses, BackoffCancelled, GivesUp
  <2>5. CASE Attempt(w)
    BY <1>1, <2>5 DEF Attempt
  <2>6. CASE Retry(w)
    BY <1>1, <2>6 DEF Retry
  <2>7. CASE Drop(w)
    BY <1>1, <2>7 DEF Drop
  <2>8. CASE Record(w)
    BY <1>1, <2>8 DEF Record
  <2>9. CASE CompleteOne(w)
    BY <1>1, <2>9 DEF CompleteOne
  <2>10. CASE ReadPassed(w) \/ ReadFailed(w)
    BY <1>1, <2>10 DEF ReadPassed, ReadFailed
  <2>11. CASE PublishProgress(w)
    BY <1>1, <2>11 DEF PublishProgress
  <2>12. QED
    BY <2>1, <2>2, <2>3, <2>4, <2>5, <2>6, <2>7, <2>8, <2>9, <2>10, <2>11 DEF Worker
<1>6. QED
  BY <1>4, <1>5

(* Only a running cycle has workers at it.                                 *)
LEMMA WorkerProbing ==
  ASSUME WorkersTyped, Quiet, NEW w \in Slots, Worker(w)
  PROVE  stage = "probing"
<1>1. CASE pc[w] = "free"
  BY <1>1, WorkerAlone DEF Dispatch
<1>2. CASE pc[w] # "free"
  BY <1>2 DEF Quiet
<1>3. QED
  BY <1>1, <1>2

LEMMA ParsedFacts ==
  ASSUME FetchTyped
  PROVE  /\ Parsed \in Seq(Parsable) /\ IsInjective(Parsed)
         /\ ToSet(Parsed) \subseteq Parsable
         /\ ToSet(Parsed) \subseteq ToSet(links)
<1> DEFINE P == {i \in DOMAIN links : links[i] \in Parsable}
<1>1. links \in Seq(Raw) /\ IsInjective(links)
  BY DEF FetchTyped
<1>2. P \in SUBSET (DOMAIN links) /\ \A i, j \in P : links[i] = links[j] => i = j
  BY <1>1 DEF IsInjective
<1>3. Parsed = Subsequence(links, P)
  BY DEF Parsed
<1>4. /\ Parsed \in Seq(Raw) /\ IsInjective(Parsed)
      /\ ToSet(Parsed) = {links[i] : i \in P}
  <2> HIDE DEF P
  <2>1. QED
    BY <1>1, <1>2, <1>3, SubsequenceFacts
<1>5. ToSet(Parsed) \subseteq Parsable /\ ToSet(Parsed) \subseteq ToSet(links)
  BY <1>4 DEF ToSet
<1>6. DOMAIN Parsed = 1..Len(Parsed) /\ Len(Parsed) \in Nat
  BY <1>4, LenProperties
<1>7. \A i \in 1..Len(Parsed) : Parsed[i] \in Parsable
  BY <1>5, <1>6 DEF ToSet
<1>8. Parsed = [i \in 1..Len(Parsed) |-> Parsed[i]]
  BY <1>4, <1>6, LenProperties
<1> HIDE DEF P
<1>9. Parsed \in Seq(Parsable)
  <2>1. \A s, n : n \in Nat /\ s = [i \in 1..n |-> s[i]] /\ (\A i \in 1..n : s[i] \in Parsable)
                    => s \in Seq(Parsable)
    BY IsASeq
  <2>2. QED
    BY <1>6, <1>7, <1>8, <2>1
<1>10. QED
  BY <1>4, <1>5, <1>9

(* What a cycle starts from.                                               *)
LEMMA LoadFacts ==
  ASSUME FetchTyped, RotationTyped, Load
  PROVE  /\ clock' \in Nat /\ lastTested' \in [Links -> 0..clock']
         /\ population' = ToSet(Parsed) /\ population' \subseteq Parsable
         /\ selected' \in Seq(Parsable) /\ IsInjective(selected')
         /\ ToSet(selected') \subseteq population'
         /\ \A c \in population' :
              Canonical[c] \notin Cans(ToSet(selected')) =>
                /\ ProbeLimit > 0 /\ Len(selected') = ProbeLimit
                /\ \A s \in ToSet(selected') :
                     lastTested'[Canonical[s]] <= lastTested'[Canonical[c]]
         /\ \A l, m \in Cans(population') :
              lastTested[l] < lastTested[m] => lastTested'[l] < lastTested'[m]
<1> DEFINE instants == PruneStale(ToSet(links))
           kept == Renumbered(instants)
           c0 == Cardinality({kept[l] : l \in Links} \ {0})
<1>1. /\ lastTested' = kept /\ clock' = c0 /\ selected' = SelectCandidates(Parsed, kept)
      /\ population' = ToSet(Parsed)
  BY DEF Load
<1>2. instants \in [Links -> Nat]
  BY DEF PruneStale, RotationTyped
<1>3. /\ c0 \in Nat /\ kept \in [Links -> 0..c0]
      /\ \A l, m \in Links : instants[l] < instants[m] => kept[l] < kept[m]
  <2> HIDE DEF instants
  <2>1. \A c : c = c0 =>
          /\ c \in Nat /\ kept \in [Links -> 0..c]
          /\ \A l, m \in Links : instants[l] < instants[m] => kept[l] < kept[m]
    BY <1>2, RenumberedFacts
  <2>2. QED
    BY <2>1
<1> HIDE DEF kept, c0
<1>4. kept \in [Links -> Nat]
  BY <1>3
<1>5. /\ Parsed \in Seq(Parsable) /\ IsInjective(Parsed)
      /\ ToSet(Parsed) \subseteq Parsable /\ ToSet(Parsed) \subseteq ToSet(links)
  BY ParsedFacts
<1>6. /\ selected' \in Seq(Parsable) /\ IsInjective(selected')
      /\ ToSet(selected') \subseteq population'
      /\ \A c \in population' :
           Canonical[c] \notin Cans(ToSet(selected')) =>
             /\ ProbeLimit > 0 /\ Len(selected') = ProbeLimit
             /\ \A s \in ToSet(selected') : kept[Canonical[s]] <= kept[Canonical[c]]
  BY <1>1, <1>4, <1>5, SelectionFacts
<1>7. ASSUME NEW l \in Cans(population'), NEW m \in Cans(population'),
             lastTested[l] < lastTested[m]
      PROVE  kept[l] < kept[m]
  <2>1. l \in Links /\ m \in Links
    BY <1>1, <1>5, LinkFacts DEF Cans
  <2>2. (\E r \in ToSet(links) : Canonical[r] = l) /\ (\E r \in ToSet(links) : Canonical[r] = m)
    BY <1>1, <1>5 DEF Cans
  <2>3. instants[l] = lastTested[l] /\ instants[m] = lastTested[m]
    BY <2>1, <2>2 DEF PruneStale
  <2>4. QED
    BY <1>3, <1>7, <2>1, <2>3
<1>8. clock' \in Nat /\ lastTested' \in [Links -> 0..clock']
  BY <1>1, <1>3
<1>9. QED
  BY <1>1, <1>5, <1>6, <1>7, <1>8

LEMMA PoolTypedNext ==
  ASSUME IInv, Next
  PROVE  PoolTyped'
<1>1. PoolTyped /\ WorkersTyped /\ FetchTyped /\ RotationTyped
  BY DEF IInv, Typed
<1>2. CASE FetchStep
  <2>1. UNCHANGED <<selected, next, dispatched, population, probed>>
    BY <1>2, FetchFrame DEF poolVars, historyVars
  <2>2. QED
    BY <1>1, <2>1 DEF PoolTyped
<1>3. CASE Cancel
  <2>1. UNCHANGED <<selected, next, dispatched, population, probed>>
    BY <1>3 DEF Cancel, poolVars, historyVars
  <2>2. QED
    BY <1>1, <2>1 DEF PoolTyped
<1>4. CASE Load
  <2>1. selected' \in Seq(Parsable) /\ population' \subseteq Parsable
    BY <1>1, <1>4, LoadFacts
  <2>2. next' = 1 /\ probed' = {}
    BY <1>4 DEF Load
  <2>3. dispatched' \in BOOLEAN
    BY <1>4 DEF Load
  <2>4. Len(selected') \in Nat
    BY <2>1, LenProperties
  <2>5. next' \in Nat \ {0} /\ next' <= Len(selected') + 1
    BY <2>2, <2>4
  <2>6. QED
    BY <2>1, <2>2, <2>3, <2>5 DEF PoolTyped
<1>5. CASE StopDispatching
  <2>1. UNCHANGED <<selected, next, population, probed>>
    BY <1>5 DEF StopDispatching, historyVars
  <2>2. dispatched' \in BOOLEAN
    BY <1>5 DEF StopDispatching
  <2>3. QED
    BY <1>1, <2>1, <2>2 DEF PoolTyped
<1>6. CASE EndStep
  <2>1. selected' = <<>> /\ next' = 1 /\ UNCHANGED <<population, probed>>
    BY <1>6, EndFrame
  <2>2. dispatched' \in BOOLEAN
    BY <1>6, EndFrame
  <2>3. selected' \in Seq(Parsable) /\ Len(selected') = 0
    BY <2>1, NothingFetched
  <2>4. next' \in Nat \ {0} /\ next' <= Len(selected') + 1
    BY <2>1, <2>3
  <2>5. QED
    BY <1>1, <2>1, <2>2, <2>3, <2>4 DEF PoolTyped
<1>7. ASSUME NEW w \in Slots, Worker(w)
      PROVE  PoolTyped'
  <2>1. UNCHANGED <<selected, dispatched, population>>
    BY <1>7, WorkerFrame
  <2>2. CASE Dispatch(w)
    <3>1. next' = next + 1 /\ next <= Len(selected) /\ probed' = probed
      BY <2>2 DEF Dispatch, historyVars
    <3>2. Len(selected) \in Nat
      BY <1>1, LenProperties DEF PoolTyped
    <3>3. next' \in Nat \ {0} /\ next' <= Len(selected) + 1
      BY <1>1, <3>1, <3>2 DEF PoolTyped
    <3>4. QED
      BY <1>1, <2>1, <3>1, <3>3 DEF PoolTyped
  <2>3. CASE Record(w)
    <3>1. next' = next /\ probed' = probed \cup {Canonical[cand[w]]}
      BY <2>3 DEF Record, poolVars
    <3>2. cand[w] \in ToSet(selected)
      BY <2>3 DEF IInv, Working, Held, Record, Goes, Handling, Testing
    <3>3. cand[w] \in Parsable
      BY <1>1, <3>2, LenProperties, ElementOfSeq DEF PoolTyped, ToSet
    <3>4. Canonical[cand[w]] \in Links
      BY <3>3, LinkFacts
    <3>5. QED
      BY <1>1, <2>1, <3>1, <3>4 DEF PoolTyped
  <2>4. CASE ~Dispatch(w) /\ ~Record(w)
    <3>1. next' = next /\ probed' = probed
      BY <1>7, <2>4 DEF Worker, Begin, Limiter, LimiterRefuses, GivesUp, Attempt, Retry,
         BackoffCancelled, Accept, Drop, CompleteOne, ReadPassed, ReadFailed,
         PublishProgress, restOfWorker, poolVars, historyVars
    <3>2. QED
      BY <1>1, <2>1, <3>1 DEF PoolTyped
  <2>5. QED
    BY <2>2, <2>3, <2>4
<1>8. QED
  BY <1>2, <1>3, <1>4, <1>5, <1>6, <1>7, NextCases

LEMMA WorkersTypedNext ==
  ASSUME IInv, Next
  PROVE  WorkersTyped'
<1>1. WorkersTyped /\ PoolTyped /\ RotationTyped
  BY DEF IInv, Typed
<1>2. CASE UNCHANGED workerVars
  BY <1>1, <1>2 DEF WorkersTyped, workerVars
<1>3. CASE FetchStep \/ Cancel \/ Load \/ StopDispatching \/ EndStep
  BY <1>2, <1>3, FetchFrame, EndFrame DEF Cancel, Load, StopDispatching
<1>4. ASSUME NEW w \in Slots, Worker(w)
      PROVE  WorkersTyped'
  <2>1. pc' \in [Slots -> Places]
    BY <1>1, <1>4, WorkerAlone
  <2>2. /\ cand \in [Slots -> Parsable \cup {NoCand}] /\ start \in [Slots -> Nat]
        /\ attempt \in [Slots -> 0..MaxRetries] /\ result \in [Slots -> Outcomes]
        /\ seen \in [Slots -> Events]
    BY <1>1 DEF WorkersTyped
  <2>3. CASE Dispatch(w)
    <3>1. selected[next] \in Parsable
      BY <1>1, <2>3, LenProperties, ElementOfSeq DEF PoolTyped, Dispatch
    <3>2. cand' \in [Slots -> Parsable \cup {NoCand}]
      BY <2>2, <2>3, <3>1 DEF Dispatch
    <3>3. UNCHANGED <<start, attempt, result, seen>>
      BY <2>3 DEF Dispatch
    <3>4. QED
      BY <2>1, <2>2, <3>2, <3>3 DEF WorkersTyped
  <2>4. CASE Begin(w)
    <3>1. start' \in [Slots -> Nat]
      BY <1>1, <2>2, <2>4 DEF Begin, RotationTyped
    <3>2. UNCHANGED <<cand, attempt, result, seen>>
      BY <2>4 DEF Begin
    <3>3. QED
      BY <2>1, <2>2, <3>1, <3>2 DEF WorkersTyped
  <2>5. CASE Limiter(w) \/ Accept(w)
    <3>1. UNCHANGED <<cand, start, attempt, result, seen>>
      BY <2>5 DEF Limiter, Accept
    <3>2. QED
      BY <2>1, <2>2, <3>1 DEF WorkersTyped
  <2>6. CASE LimiterRefuses(w) \/ BackoffCancelled(w)
    <3>1. [NoResult EXCEPT !.status = Inconclusive, !.cancelled = TRUE] \in Outcomes
      BY NoResultType DEF Outcomes, Statuses
    <3>2. result' = [result EXCEPT ![w] = [NoResult EXCEPT !.status = Inconclusive,
                                                            !.cancelled = TRUE]]
      BY <2>6 DEF LimiterRefuses, BackoffCancelled, GivesUp
    <3>3. result' \in [Slots -> Outcomes]
      BY <2>2, <3>1, <3>2
    <3>4. UNCHANGED <<cand, start, attempt, seen>>
      BY <2>6 DEF LimiterRefuses, BackoffCancelled, GivesUp
    <3>5. QED
      BY <2>1, <2>2, <3>3, <3>4 DEF WorkersTyped
  <2>7. CASE Attempt(w)
    <3>1. PICK r \in AttemptResults[ClaudeEnabled][ctxDone] :
            \/ UNCHANGED result
            \/ result' = [result EXCEPT ![w] =
                 [r EXCEPT !.status = IF r.retryable THEN Inconclusive ELSE @,
                           !.retryable = FALSE]]
      BY <2>7 DEF Attempt
    <3>2. r \in Results
      BY AttemptResultFacts, CycleAssumption DEF SoundResult, IInv, Typed, FetchTyped
    <3>3. [r EXCEPT !.status = IF r.retryable THEN Inconclusive ELSE @,
                    !.retryable = FALSE] \in Outcomes
      BY <3>2 DEF Results, Outcomes, Statuses
    <3>4. result' \in [Slots -> Outcomes]
      BY <2>2, <3>1, <3>3
    <3>5. UNCHANGED <<cand, start, attempt, seen>>
      BY <2>7 DEF Attempt
    <3>6. QED
      BY <2>1, <2>2, <3>4, <3>5 DEF WorkersTyped
  <2>8. CASE Retry(w)
    <3>1. attempt[w] < MaxRetries
      BY <2>8 DEF Retry, Goes, IInv, Working, Held
    <3>2. attempt' \in [Slots -> 0..MaxRetries]
      BY <2>2, <2>8, <3>1, CycleAssumption DEF Retry
    <3>3. UNCHANGED <<cand, start, result, seen>>
      BY <2>8 DEF Retry
    <3>4. QED
      BY <2>1, <2>2, <3>2, <3>3 DEF WorkersTyped
  <2>9. CASE Drop(w) \/ Record(w)
    <3>1. /\ cand' = [cand EXCEPT ![w] = NoCand] /\ start' = [start EXCEPT ![w] = 0]
          /\ attempt' = [attempt EXCEPT ![w] = 0] /\ seen' = seen
      BY <2>9 DEF Drop, Record
    <3>2. result' = [result EXCEPT ![w] = NoResult]
      BY <2>9 DEF Drop, Record
    <3>3. result' \in [Slots -> Outcomes]
      BY <2>2, <3>2, NoResultType
    <3>4. /\ cand' \in [Slots -> Parsable \cup {NoCand}] /\ start' \in [Slots -> Nat]
          /\ attempt' \in [Slots -> 0..MaxRetries]
      BY <2>2, <3>1, CycleAssumption
    <3>5. QED
      BY <2>1, <2>2, <3>1, <3>3, <3>4 DEF WorkersTyped
  <2>10. CASE CompleteOne(w) \/ ReadPassed(w) \/ ReadFailed(w) \/ PublishProgress(w)
    <3>1. /\ completed \in Nat /\ progress[Passed] \in Nat /\ progress[Failed] \in Nat
      BY TotalType DEF IInv, Typed, CountsTyped
    <3>2. seen[w] \in Events
      BY <2>2
    <3>3. PICK e \in Events : seen' = [seen EXCEPT ![w] = e]
      <4>1. CASE CompleteOne(w)
        <5>1. [seen[w] EXCEPT !.completed = completed + 1] \in Events
          BY <3>1, <3>2 DEF Events
        <5>2. QED
          BY <4>1, <5>1 DEF CompleteOne
      <4>2. CASE ReadPassed(w)
        <5>1. [seen[w] EXCEPT !.passed = progress[Passed]] \in Events
          BY <3>1, <3>2 DEF Events
        <5>2. QED
          BY <4>2, <5>1 DEF ReadPassed
      <4>3. CASE ReadFailed(w)
        <5>1. [seen[w] EXCEPT !.failed = progress[Failed]] \in Events
          BY <3>1, <3>2 DEF Events
        <5>2. QED
          BY <4>3, <5>1 DEF ReadFailed
      <4>4. CASE PublishProgress(w)
        BY ZeroFacts, <4>4 DEF PublishProgress
      <4>5. QED
        BY <2>10, <4>1, <4>2, <4>3, <4>4
    <3>4. seen' \in [Slots -> Events]
      BY <2>2, <3>3
    <3>5. UNCHANGED <<cand, start, attempt, result>>
      BY <2>10 DEF CompleteOne, ReadPassed, ReadFailed, PublishProgress
    <3>6. QED
      BY <2>1, <2>2, <3>4, <3>5 DEF WorkersTyped
  <2>11. QED
    BY <1>4, <2>3, <2>4, <2>5, <2>6, <2>7, <2>8, <2>9, <2>10 DEF Worker
<1>5. QED
  BY <1>3, <1>4, NextCases

(* A status that was recorded is counted, once.                            *)
LEMMA Counting ==
  ASSUME NEW count \in Counts, NEW s \in Statuses
  PROVE  /\ [count EXCEPT ![s] = @ + 1] \in Counts
         /\ Total([count EXCEPT ![s] = @ + 1]) = Total(count) + 1
         /\ \A t \in Statuses : count[t] <= [count EXCEPT ![s] = @ + 1][t]
<1>1. \A t \in Statuses : count[t] \in Nat
  BY DEF Counts
<1>2. [count EXCEPT ![s] = @ + 1] \in Counts
  BY DEF Counts
<1>3. \A t \in Statuses : [count EXCEPT ![s] = @ + 1][t] = IF t = s THEN count[t] + 1 ELSE count[t]
  BY DEF Counts
<1>4. Statuses = {Passed, Failed, Inconclusive}
      /\ Passed # Failed /\ Passed # Inconclusive /\ Failed # Inconclusive
  BY DEF Statuses, Passed, Failed, Inconclusive
<1>5. Total([count EXCEPT ![s] = @ + 1]) = Total(count) + 1
  BY <1>1, <1>3, <1>4 DEF Total
<1>6. QED
  BY <1>1, <1>2, <1>3, <1>5

LEMMA CountsTypedNext ==
  ASSUME IInv, Next
  PROVE  CountsTyped'
<1>1. CountsTyped
  BY DEF IInv, Typed
<1>2. tally \in Counts /\ progress \in Counts /\ completed \in Nat /\ event \in Events
  BY <1>1 DEF CountsTyped
<1> DEFINE Reports == [total : Nat, completed : Nat, counts : Counts, cancelled : BOOLEAN]
<1>3. finished \in Reports
  BY <1>1 DEF CountsTyped
<1>4. Len(selected) \in Nat /\ Total(tally) \in Nat
  BY <1>2, TotalType, LenProperties DEF IInv, Typed, PoolTyped
<1>5. ctxDone \in BOOLEAN
  BY DEF IInv, Typed, FetchTyped
<1>6. CASE FetchStep
  <2>1. UNCHANGED <<tally, progress, completed, event>>
    BY <1>6, FetchFrame DEF countVars
  <2>2. finished' \in Reports
    <3>1. CASE Start
      <4>1. NotFinished \in Reports
        BY ZeroFacts DEF NotFinished
      <4>2. QED
        BY <3>1, <4>1 DEF Start
    <3>2. CASE StartWithoutSource \/ Abort
      <4>1. finished' = [total |-> 0, completed |-> 0, counts |-> Zero, cancelled |-> ctxDone]
        BY <3>2 DEF StartWithoutSource, Abort, EndEarly, CycleFinished
      <4>2. QED
        BY <1>5, <4>1, ZeroFacts
    <3>3. CASE FetchOne \/ FetchAgain \/ FetchFails \/ FetchCancelled
      <4>1. finished' = finished
        BY <3>3 DEF FetchOne, FetchAgain, FetchFails, FetchCancelled, Fetched
      <4>2. QED
        BY <1>3, <4>1
    <3>4. QED
      BY <1>6, <3>1, <3>2, <3>3 DEF FetchStep
  <2>3. QED
    BY <1>2, <2>1, <2>2 DEF CountsTyped
<1>7. CASE Cancel \/ StopDispatching
  <2>1. UNCHANGED <<tally, progress, completed, event, finished>>
    BY <1>7 DEF Cancel, StopDispatching, countVars
  <2>2. QED
    BY <1>2, <1>3, <2>1 DEF CountsTyped
<1>8. CASE Load
  <2>1. /\ tally' = Zero /\ progress' = Zero /\ completed' = 0 /\ event' = NoEvent
        /\ finished' = finished
    BY <1>8 DEF Load
  <2>2. QED
    BY <1>3, <2>1, ZeroFacts DEF CountsTyped
<1>9. CASE EndStep
  <2>1. tally' = Zero /\ progress' = Zero /\ completed' = 0 /\ event' = NoEvent
    BY <1>9, EndFrame
  <2>2. finished' \in Reports
    <3>1. CASE Interrupted
      <4>1. finished' = [total |-> Len(selected), completed |-> Total(tally),
                         counts |-> tally, cancelled |-> TRUE]
        BY <3>1 DEF Interrupted, CycleFinished
      <4>2. QED
        BY <1>2, <1>4, <4>1
    <3>2. CASE FinishCycle
      <4>1. finished' = [total |-> Len(selected), completed |-> Len(selected),
                         counts |-> tally, cancelled |-> FALSE]
        BY <3>2 DEF FinishCycle, CycleFinished
      <4>2. QED
        BY <1>2, <1>4, <4>1
    <3>3. QED
      BY <1>9, <3>1, <3>2 DEF EndStep
  <2>3. QED
    BY <2>1, <2>2, ZeroFacts DEF CountsTyped
<1>10. ASSUME NEW w \in Slots, Worker(w)
       PROVE  CountsTyped'
  <2>1. finished' = finished
    BY <1>10, WorkerFrame
  <2>2. CASE Record(w)
    <3>1. /\ tally' = [tally EXCEPT ![result[w].status] = @ + 1]
          /\ progress' = [progress EXCEPT ![result[w].status] = @ + 1]
          /\ UNCHANGED <<completed, event>>
      BY <2>2 DEF Record
    <3>2. result[w].status \in Statuses
      BY <2>2 DEF Record, Goes, IInv, Working, Held
    <3>3. tally' \in Counts /\ progress' \in Counts
      BY <1>2, <3>1, <3>2, Counting
    <3>4. QED
      BY <1>2, <1>3, <2>1, <3>1, <3>3 DEF CountsTyped
  <2>3. CASE CompleteOne(w)
    <3>1. completed' = completed + 1 /\ UNCHANGED <<tally, progress, event>>
      BY <2>3 DEF CompleteOne
    <3>2. QED
      BY <1>2, <1>3, <2>1, <3>1 DEF CountsTyped
  <2>4. CASE PublishProgress(w)
    <3>1. /\ event' = [seen[w] EXCEPT !.inconclusive = progress[Inconclusive]]
          /\ UNCHANGED <<tally, progress, completed>>
      BY <2>4 DEF PublishProgress
    <3>2. seen[w] \in Events /\ progress[Inconclusive] \in Nat
      BY <1>2, TotalType DEF IInv, Typed, WorkersTyped
    <3>3. event' \in Events
      BY <3>1, <3>2 DEF Events
    <3>4. QED
      BY <1>2, <1>3, <2>1, <3>1, <3>3 DEF CountsTyped
  <2>5. CASE ~Record(w) /\ ~CompleteOne(w) /\ ~PublishProgress(w)
    <3>1. UNCHANGED <<tally, progress, completed, event>>
      BY <1>10, <2>5 DEF Worker, Dispatch, Begin, Limiter, LimiterRefuses, GivesUp, Attempt,
         Retry, BackoffCancelled, Accept, Drop, ReadPassed, ReadFailed, restOfWorker, countVars
    <3>2. QED
      BY <1>2, <1>3, <2>1, <3>1 DEF CountsTyped
  <2>6. QED
    BY <2>2, <2>3, <2>4, <2>5
<1>11. QED
  BY <1>6, <1>7, <1>8, <1>9, <1>10, NextCases

LEMMA RotationTypedNext ==
  ASSUME IInv, Next
  PROVE  RotationTyped'
<1>1. /\ clock \in Nat /\ lastTested \in [Links -> 0..clock] /\ waited \in [Links -> Nat]
      /\ FetchTyped /\ RotationTyped
  BY DEF IInv, Typed, RotationTyped
<1>2. CASE FetchStep \/ Cancel \/ StopDispatching
  <2>1. UNCHANGED <<clock, lastTested, waited>>
    BY <1>2, FetchFrame DEF Cancel, StopDispatching, historyVars
  <2>2. QED
    BY <1>1, <2>1 DEF RotationTyped
<1>3. CASE Load
  <2>1. clock' \in Nat /\ lastTested' \in [Links -> 0..clock']
    BY <1>1, <1>3, LoadFacts
  <2>2. waited' = waited \/ waited' = [l \in Links |-> 0]
    BY <1>3 DEF Load
  <2>3. QED
    BY <1>1, <2>1, <2>2 DEF RotationTyped
<1>4. CASE EndStep
  <2>1. UNCHANGED <<clock, lastTested>>
    BY <1>4, EndFrame
  <2>2. waited' \in [Links -> Nat]
    <3>1. CASE Interrupted
      BY <1>1, <3>1 DEF Interrupted
    <3>2. CASE FinishCycle
      <4>1. waited' = [l \in Links |-> IF l \in Cans(population) \ probed
                                      THEN waited[l] + 1 ELSE 0]
        BY <3>2 DEF FinishCycle, Cans
      <4>2. QED
        BY <1>1, <4>1
    <3>3. QED
      BY <1>4, <3>1, <3>2 DEF EndStep
  <2>3. QED
    BY <1>1, <2>1, <2>2 DEF RotationTyped
<1>5. ASSUME NEW w \in Slots, Worker(w)
      PROVE  RotationTyped'
  <2>1. CASE Begin(w)
    <3>1. clock' = clock + 1 /\ UNCHANGED <<lastTested, waited>>
      BY <2>1 DEF Begin, restOfWorker, historyVars
    <3>2. QED
      BY <1>1, <3>1 DEF RotationTyped
  <2>2. CASE Record(w)
    <3>1. clock' = clock
      BY <2>2 DEF Record
    <3>2. start[w] \in 0..clock
      BY <1>1, <2>2 DEF IInv, Typed, WorkersTyped, Working, Held
    <3>3. lastTested' \in [Links -> 0..clock] /\ waited' \in [Links -> Nat]
      BY <1>1, <2>2, <3>2 DEF Record, RecordTested
    <3>4. QED
      BY <1>1, <3>1, <3>3 DEF RotationTyped
  <2>3. CASE ~Begin(w) /\ ~Record(w)
    <3>1. UNCHANGED <<clock, lastTested, waited>>
      BY <1>5, <2>3 DEF Worker, Dispatch, Limiter, LimiterRefuses, GivesUp, Attempt, Retry,
         BackoffCancelled, Accept, Drop, CompleteOne, ReadPassed, ReadFailed,
         PublishProgress, restOfWorker, historyVars
    <3>2. QED
      BY <1>1, <3>1 DEF RotationTyped
  <2>4. QED
    BY <2>1, <2>2, <2>3
<1>6. QED
  BY <1>2, <1>3, <1>4, <1>5, NextCases

LEMMA QuietNext ==
  ASSUME IInv, Next
  PROVE  Quiet'
<1>1. Quiet /\ WorkersTyped
  BY DEF IInv, Typed
<1>2. CASE FetchStep
  BY <1>1, <1>2, FetchFrame DEF Quiet, poolVars, workerVars, countVars
<1>3. CASE Cancel
  BY <1>1, <1>3 DEF Cancel, Quiet, poolVars, workerVars, countVars
<1>4. CASE Load
  BY <1>4 DEF Load, Quiet
<1>5. CASE StopDispatching
  BY <1>5 DEF StopDispatching, Quiet
<1>6. CASE EndStep
  BY <1>6, EndFrame DEF PoolReturned, Quiet, workerVars
<1>7. ASSUME NEW w \in Slots, Worker(w)
      PROVE  Quiet'
  <2>1. stage' = "probing"
    BY <1>1, <1>7, WorkerProbing, WorkerFrame
  <2>2. QED
    BY <2>1 DEF Quiet
<1>8. QED
  BY <1>2, <1>3, <1>4, <1>5, <1>6, <1>7, NextCases

LEMMA HeldNext ==
  ASSUME IInv, Next, NEW v \in Slots
  PROVE  Held(v)'
<1>1. Held(v) /\ Quiet /\ WorkersTyped /\ PoolTyped
  BY DEF IInv, Typed, Working
<1>2. clock \in Nat /\ start \in [Slots -> Nat] /\ attempt \in [Slots -> 0..MaxRetries]
  BY DEF IInv, Typed, RotationTyped, WorkersTyped
<1>3. clock' \in Nat
  BY RotationTypedNext DEF RotationTyped
<1>4. CASE FetchStep \/ Cancel \/ StopDispatching
  <2>1. UNCHANGED <<selected, pc, cand, start, attempt, result, clock>>
    BY <1>4, FetchFrame DEF Cancel, StopDispatching, poolVars, workerVars
  <2>2. QED
    BY <1>1, <2>1 DEF Held
<1>5. CASE Load \/ EndStep
  <2>1. UNCHANGED <<pc, start>> /\ pc[v] = "free"
    BY <1>1, <1>5, EndFrame DEF Load, Quiet, PoolReturned, workerVars
  <2>2. start[v] = 0
    BY <1>1, <2>1 DEF Held, Testing
  <2>3. QED
    BY <1>3, <2>1, <2>2 DEF Held, Handling, Testing
<1>6. ASSUME NEW w \in Slots, Worker(w)
      PROVE  Held(v)'
  <2>1. selected' = selected
    BY <1>6, WorkerFrame
  <2>2. clock <= clock'
    <3>1. clock' = clock + 1 \/ clock' = clock
      BY <1>6 DEF Worker, Dispatch, Begin, Limiter, LimiterRefuses, GivesUp, Attempt,
         Retry, BackoffCancelled, Accept, Drop, Record, CompleteOne, ReadPassed,
         ReadFailed, PublishProgress
    <3>2. QED
      BY <1>2, <3>1
  <2>3. CASE v # w
    <3>1. /\ pc'[v] = pc[v] /\ cand'[v] = cand[v] /\ start'[v] = start[v]
          /\ attempt'[v] = attempt[v] /\ result'[v] = result[v]
      BY <1>1, <1>6, <2>3, WorkerAlone
    <3>2. QED
      BY <1>1, <1>2, <1>3, <2>1, <2>2, <3>1 DEF Held
  <2>4. CASE v = w
    <3>1. /\ pc \in [Slots -> Places] /\ cand \in [Slots -> Parsable \cup {NoCand}]
          /\ result \in [Slots -> Outcomes]
      BY <1>1 DEF WorkersTyped
    <3>2. CASE Dispatch(w)
      <4>1. pc'[w] = "new" /\ cand'[w] = selected[next] /\ start' = start /\ pc[w] = "free"
        BY <3>1, <3>2 DEF Dispatch, Goes
      <4>2. selected[next] \in ToSet(selected)
        BY <1>1, <3>2, LenProperties DEF PoolTyped, Dispatch, ToSet
      <4>3. start[w] = 0
        BY <1>1, <2>4, <4>1 DEF Held, Testing
      <4>4. QED
        BY <1>3, <2>1, <2>4, <4>1, <4>2, <4>3 DEF Held, Handling, Testing
    <3>3. CASE Begin(w)
      <4>1. /\ pc[w] = "new" /\ pc'[w] = "limiter" /\ cand' = cand
            /\ start'[w] = clock + 1 /\ clock' = clock + 1
        BY <1>2, <3>1, <3>3 DEF Begin, Goes
      <4>2. QED
        BY <1>1, <1>2, <2>1, <2>4, <4>1 DEF Held, Handling, Testing
    <3>4. CASE Limiter(w) \/ Accept(w)
      <4>1. /\ \/ pc[w] = "limiter" /\ pc'[w] = "attempt"
               \/ pc[w] = "returned" /\ pc'[w] = "recording"
            /\ UNCHANGED <<cand, start, attempt, result, clock>>
        BY <3>1, <3>4 DEF Limiter, Accept, Goes
      <4>2. QED
        BY <1>1, <2>1, <2>4, <4>1 DEF Held, Handling, Testing
    <3>5. CASE LimiterRefuses(w) \/ BackoffCancelled(w)
      <4>1. /\ pc[w] \in {"limiter", "backoff"} /\ pc'[w] = "returned"
            /\ UNCHANGED <<cand, start, clock>>
        BY <3>1, <3>5 DEF LimiterRefuses, BackoffCancelled, GivesUp, Goes
      <4>2. result'[w].status = Inconclusive
        BY <3>1, <3>5 DEF LimiterRefuses, BackoffCancelled, GivesUp, NoResult
      <4>3. QED
        BY <1>1, <2>1, <2>4, <4>1, <4>2 DEF Held, Handling, Testing, Statuses
    <3>6. CASE Attempt(w)
      <4>1. PICK r \in AttemptResults[ClaudeEnabled][ctxDone] :
              \/ attempt[w] < MaxRetries /\ pc'[w] = "backoff"
              \/ /\ pc'[w] = "returned"
                 /\ result' = [result EXCEPT ![w] =
                      [r EXCEPT !.status = IF r.retryable THEN Inconclusive ELSE @,
                                !.retryable = FALSE]]
        BY <3>1, <3>6 DEF Attempt, Goes
      <4>2. r \in Results
        BY AttemptResultFacts, CycleAssumption DEF SoundResult, IInv, Typed, FetchTyped
      <4>3. pc'[w] = "returned" => result'[w].status \in Statuses
        <5>1. r.status \in Statuses /\ Inconclusive \in Statuses
          BY <4>2 DEF Results, Statuses
        <5>2. [r EXCEPT !.status = IF r.retryable THEN Inconclusive ELSE @,
                        !.retryable = FALSE].status \in Statuses
          BY <4>2, <5>1 DEF Results
        <5>3. QED
          BY <3>1, <4>1, <5>2
      <4>4. pc[w] = "attempt" /\ UNCHANGED <<cand, start, attempt, clock>>
        BY <3>6 DEF Attempt, Goes
      <4>5. QED
        BY <1>1, <2>1, <2>4, <4>1, <4>3, <4>4 DEF Held, Handling, Testing
    <3>7. CASE Retry(w)
      <4>1. pc[w] = "backoff" /\ pc'[w] = "limiter" /\ UNCHANGED <<cand, start, clock>>
        BY <3>1, <3>7 DEF Retry, Goes
      <4>2. QED
        BY <1>1, <2>1, <2>4, <4>1 DEF Held, Handling, Testing
    <3>8. CASE Drop(w) \/ Record(w)
      <4>1. pc'[w] \in {"free", "recorded"} /\ start'[w] = 0
        BY <1>2, <3>1, <3>8 DEF Drop, Record, Goes
      <4>2. QED
        BY <1>3, <2>4, <4>1 DEF Held, Handling, Testing
    <3>9. CASE CompleteOne(w) \/ ReadPassed(w) \/ ReadFailed(w) \/ PublishProgress(w)
      <4>1. /\ pc[w] \in {"recorded", "completed", "passed read", "failed read"}
            /\ pc'[w] \in {"completed", "passed read", "failed read", "free"}
            /\ UNCHANGED <<start, clock>>
        BY <3>1, <3>9 DEF CompleteOne, ReadPassed, ReadFailed, PublishProgress, Goes
      <4>2. QED
        BY <1>1, <2>4, <4>1 DEF Held, Handling, Testing
    <3>10. QED
      BY <1>6, <3>2, <3>3, <3>4, <3>5, <3>6, <3>7, <3>8, <3>9 DEF Worker
  <2>5. QED
    BY <2>3, <2>4
<1>7. QED
  BY <1>4, <1>5, <1>6, NextCases

LEMMA JudgedNext ==
  ASSUME IInv, Next, NEW v \in Slots
  PROVE  Judged(v)'
<1>1. Judged(v) /\ Quiet /\ WorkersTyped
  BY DEF IInv, Typed, Working
<1>2. ctxDone \in BOOLEAN
  BY DEF IInv, Typed, FetchTyped
<1>3. CASE FetchStep \/ Load \/ EndStep
  <2>1. pc' = pc /\ pc[v] = "free"
    BY <1>1, <1>3, FetchFrame, EndFrame DEF Load, Quiet, PoolReturned, workerVars
  <2>2. QED
    BY <2>1 DEF Judged
<1>4. CASE Cancel \/ StopDispatching
  <2>1. UNCHANGED <<pc, result>> /\ (ctxDone => ctxDone')
    BY <1>4 DEF Cancel, StopDispatching, workerVars
  <2>2. QED
    BY <1>1, <2>1 DEF Judged
<1>5. ASSUME NEW w \in Slots, Worker(w)
      PROVE  Judged(v)'
  <2>1. ctxDone' = ctxDone
    BY <1>5, WorkerFrame
  <2>2. CASE v # w
    <3>1. pc'[v] = pc[v] /\ result'[v] = result[v]
      BY <1>1, <1>5, <2>2, WorkerAlone
    <3>2. QED
      BY <1>1, <2>1, <3>1 DEF Judged
  <2>3. CASE v = w
    <3>1. pc \in [Slots -> Places] /\ result \in [Slots -> Outcomes]
      BY <1>1 DEF WorkersTyped
    <3>2. CASE Attempt(w)
      <4>1. PICK r \in AttemptResults[ClaudeEnabled][ctxDone] :
              \/ pc'[w] = "backoff"
              \/ /\ pc'[w] = "returned"
                 /\ result' = [result EXCEPT ![w] =
                      [r EXCEPT !.status = IF r.retryable THEN Inconclusive ELSE @,
                                !.retryable = FALSE]]
        BY <3>1, <3>2 DEF Attempt, Goes
      <4>2. SoundResult(r, ClaudeEnabled, ctxDone)
        BY <1>2, AttemptResultFacts, CycleAssumption
      <4>3. CASE pc'[w] = "backoff"
        BY <2>3, <4>3 DEF Judged
      <4>4. CASE pc'[w] = "returned" /\ result' = [result EXCEPT ![w] =
                      [r EXCEPT !.status = IF r.retryable THEN Inconclusive ELSE @,
                                !.retryable = FALSE]]
        <5>1. r \in Results /\ r.gemini = r.status /\ r.cancelled = ctxDone
              /\ (r.retryable = TRUE => r.status = Inconclusive)
          BY <4>2 DEF SoundResult, Coherent
        <5>2. (r.claude = NotProbed) = ~ClaudeEnabled
          BY <4>2 DEF SoundResult
        <5>3. /\ result'[w].cancelled = r.cancelled /\ result'[w].gemini = r.gemini
              /\ result'[w].claude = r.claude
              /\ result'[w].status = IF r.retryable THEN Inconclusive ELSE r.status
          BY <3>1, <4>4, <5>1 DEF Results
        <5>4. result'[w].gemini = result'[w].status
          BY <5>1, <5>3 DEF Results
        <5>5. QED
          BY <1>2, <2>1, <2>3, <4>4, <5>1, <5>2, <5>3, <5>4 DEF Judged
      <4>5. QED
        BY <4>1, <4>3, <4>4
    <3>3. CASE LimiterRefuses(w) \/ BackoffCancelled(w)
      <4>1. pc'[w] = "returned" /\ ctxDone
        BY <3>1, <3>3 DEF LimiterRefuses, BackoffCancelled, GivesUp, Goes
      <4>2. QED
        BY <2>1, <2>3, <4>1 DEF Judged
    <3>4. CASE Accept(w)
      <4>1. pc[w] = "returned" /\ ~ctxDone /\ result' = result
        BY <3>4 DEF Accept, Goes
      <4>2. QED
        BY <1>1, <2>3, <4>1 DEF Judged
    <3>5. CASE ~Attempt(w) /\ ~LimiterRefuses(w) /\ ~BackoffCancelled(w) /\ ~Accept(w)
      <4>1. pc'[w] \notin {"returned", "recording"}
        BY <1>5, <3>1, <3>5 DEF Worker, Dispatch, Begin, Limiter, Retry, Drop, Record,
           CompleteOne, ReadPassed, ReadFailed, PublishProgress, Goes
      <4>2. QED
        BY <2>3, <4>1 DEF Judged
    <3>6. QED
      BY <3>2, <3>3, <3>4, <3>5
  <2>4. QED
    BY <2>2, <2>3
<1>6. QED
  BY <1>3, <1>4, <1>5, NextCases

LEMMA ReadNext ==
  ASSUME IInv, Next, NEW v \in Slots
  PROVE  Read(v)'
<1>1. Read(v) /\ Quiet /\ WorkersTyped
  BY DEF IInv, Typed, Working
<1>2. progress \in Counts /\ completed \in Nat
  BY DEF IInv, Typed, CountsTyped
<1>3. /\ progress[Passed] \in Nat /\ progress[Failed] \in Nat /\ progress[Inconclusive] \in Nat
      /\ Total(progress) = progress[Passed] + progress[Failed] + progress[Inconclusive]
  BY <1>2, TotalType DEF Total
<1>4. CASE FetchStep \/ Load \/ EndStep
  <2>1. pc' = pc /\ pc[v] = "free"
    BY <1>1, <1>4, FetchFrame, EndFrame DEF Load, Quiet, PoolReturned, workerVars
  <2>2. QED
    BY <2>1 DEF Read
<1>5. CASE Cancel \/ StopDispatching
  <2>1. UNCHANGED <<pc, seen, progress>>
    BY <1>5 DEF Cancel, StopDispatching, workerVars, countVars
  <2>2. QED
    BY <1>1, <2>1 DEF Read, Total
<1>6. ASSUME NEW w \in Slots, Worker(w)
      PROVE  Read(v)'
  <2>1. /\ progress' \in Counts
        /\ \A s \in Statuses : progress[s] <= progress'[s]
    <3>1. CASE Record(w)
      <4>1. result[w].status \in Statuses
        BY <3>1 DEF Record, Goes, IInv, Working, Held
      <4>2. QED
        BY <1>2, <3>1, <4>1, Counting DEF Record
    <3>2. CASE ~Record(w)
      <4>1. progress' = progress
        BY <1>6, <3>2 DEF Worker, Dispatch, Begin, Limiter, LimiterRefuses, GivesUp, Attempt,
           Retry, BackoffCancelled, Accept, Drop, CompleteOne, ReadPassed, ReadFailed,
           PublishProgress, restOfWorker, countVars
      <4>2. QED
        BY <1>2, <4>1 DEF Counts
    <3>3. QED
      BY <3>1, <3>2
  <2>2. /\ progress'[Passed] \in Nat /\ progress'[Failed] \in Nat /\ progress'[Inconclusive] \in Nat
        /\ Total(progress)' = progress'[Passed] + progress'[Failed] + progress'[Inconclusive]
        /\ progress[Passed] <= progress'[Passed] /\ progress[Failed] <= progress'[Failed]
        /\ progress[Inconclusive] <= progress'[Inconclusive]
    BY <2>1 DEF Counts, Statuses, Total
  <2>3. /\ seen[v].completed \in Nat /\ seen[v].passed \in Nat /\ seen[v].failed \in Nat
        /\ seen[v] \in Events
    BY <1>1 DEF WorkersTyped, Events
  <2>4. CASE v # w
    <3>1. pc'[v] = pc[v] /\ seen'[v] = seen[v]
      BY <1>1, <1>6, <2>4, WorkerAlone
    <3>2. Total(progress) <= Total(progress)'
      BY <1>3, <2>2
    <3>3. /\ pc[v] = "completed" => seen[v].completed <= Total(progress)'
          /\ pc[v] \in {"passed read", "failed read"} => seen[v].passed <= progress'[Passed]
          /\ pc[v] = "failed read" => seen[v].failed <= progress'[Failed]
          /\ pc[v] = "passed read" =>
               seen[v].completed <= seen[v].passed + progress'[Failed] + progress'[Inconclusive]
          /\ pc[v] = "failed read" =>
               seen[v].completed <= seen[v].passed + seen[v].failed + progress'[Inconclusive]
      <4>1. Total(progress) \in Nat /\ Total(progress)' \in Nat
        BY <1>3, <2>2
      <4>2. CASE pc[v] = "completed"
        BY <1>1, <2>3, <3>2, <4>1, <4>2 DEF Read
      <4>3. CASE pc[v] = "passed read"
        <5>1. /\ seen[v].passed <= progress[Passed]
              /\ seen[v].completed <= seen[v].passed + progress[Failed] + progress[Inconclusive]
          BY <1>1, <4>3 DEF Read
        <5>2. /\ seen[v].passed <= progress'[Passed]
              /\ seen[v].completed <= seen[v].passed + progress'[Failed] + progress'[Inconclusive]
          BY <1>3, <2>2, <2>3, <5>1
        <5>3. QED
          BY <4>3, <5>2
      <4>4. CASE pc[v] = "failed read"
        <5>1. /\ seen[v].passed <= progress[Passed] /\ seen[v].failed <= progress[Failed]
              /\ seen[v].completed <= seen[v].passed + seen[v].failed + progress[Inconclusive]
          BY <1>1, <4>4 DEF Read
        <5>2. /\ seen[v].passed <= progress'[Passed] /\ seen[v].failed <= progress'[Failed]
              /\ seen[v].completed <= seen[v].passed + seen[v].failed + progress'[Inconclusive]
          BY <1>3, <2>2, <2>3, <5>1
        <5>3. QED
          BY <4>4, <5>2
      <4>5. QED
        BY <4>2, <4>3, <4>4
    <3>4. QED
      BY <3>1, <3>3 DEF Read
  <2>5. CASE v = w
    <3>1. pc \in [Slots -> Places] /\ seen \in [Slots -> Events]
      BY <1>1 DEF WorkersTyped
    <3>2. CASE CompleteOne(w)
      <4>1. pc[w] = "recorded" /\ pc'[w] = "completed" /\ seen'[w].completed = completed + 1
            /\ progress' = progress
        BY <2>3, <2>5, <3>1, <3>2 DEF CompleteOne, Goes, Events
      <4>2. completed + Cardinality(Uncounted) = Total(progress)
        BY DEF IInv, Counted, Balanced
      <4>3. IsFiniteSet(Uncounted) /\ w \in Uncounted
        BY <4>1, CycleAssumption, FS_Subset DEF Uncounted
      <4>4. Cardinality(Uncounted) \in Nat /\ Cardinality(Uncounted) # 0
        BY <4>3, FS_CardinalityType, FS_EmptySet
      <4>5. completed + 1 <= Total(progress)
        BY <1>2, <1>3, <4>2, <4>4
      <4>6. QED
        BY <1>3, <2>2, <2>5, <4>1, <4>5 DEF Read
    <3>3. CASE ReadPassed(w)
      <4>1. pc[w] = "completed" /\ pc'[w] = "passed read" /\ progress' = progress
        BY <3>1, <3>3 DEF ReadPassed, Goes, restOfWorker, countVars
      <4>2. seen'[w] = [seen[w] EXCEPT !.passed = progress[Passed]]
        BY <3>1, <3>3 DEF ReadPassed
      <4>3. seen'[w].passed = progress[Passed] /\ seen'[w].completed = seen[w].completed
        BY <2>3, <2>5, <4>2 DEF Events
      <4>4. seen[w].completed <= Total(progress)
        BY <1>1, <2>5, <4>1 DEF Read
      <4>5. /\ seen'[w].passed <= progress'[Passed]
            /\ seen'[w].completed <= seen'[w].passed + progress'[Failed] + progress'[Inconclusive]
        <5>1. seen[w].completed \in Nat /\ seen[w].passed \in Nat
          BY <2>3, <2>5
        <5>2. progress'[Passed] = progress[Passed] /\ progress'[Failed] = progress[Failed]
              /\ progress'[Inconclusive] = progress[Inconclusive]
          BY <4>1
        <5>3. QED
          BY <1>3, <4>3, <4>4, <5>1, <5>2
      <4>6. QED
        BY <2>5, <4>1, <4>5 DEF Read
    <3>4. CASE ReadFailed(w)
      <4>1. pc[w] = "passed read" /\ pc'[w] = "failed read" /\ progress' = progress
        BY <3>1, <3>4 DEF ReadFailed, Goes, restOfWorker, countVars
      <4>2. seen'[w] = [seen[w] EXCEPT !.failed = progress[Failed]]
        BY <3>1, <3>4 DEF ReadFailed
      <4>3. /\ seen'[w].failed = progress[Failed] /\ seen'[w].completed = seen[w].completed
            /\ seen'[w].passed = seen[w].passed
        BY <2>3, <2>5, <4>2 DEF Events
      <4>4. /\ seen[w].completed <= seen[w].passed + progress[Failed] + progress[Inconclusive]
            /\ seen[w].passed <= progress[Passed]
        BY <1>1, <2>5, <4>1 DEF Read
      <4>5. /\ seen'[w].passed <= progress'[Passed] /\ seen'[w].failed <= progress'[Failed]
            /\ seen'[w].completed <= seen'[w].passed + seen'[w].failed + progress'[Inconclusive]
        <5>1. seen[w].completed \in Nat /\ seen[w].passed \in Nat
          BY <2>3, <2>5
        <5>2. progress'[Passed] = progress[Passed] /\ progress'[Failed] = progress[Failed]
              /\ progress'[Inconclusive] = progress[Inconclusive]
          BY <4>1
        <5>3. QED
          BY <1>3, <4>3, <4>4, <5>1, <5>2
      <4>6. QED
        BY <2>5, <4>1, <4>5 DEF Read
    <3>5. CASE ~CompleteOne(w) /\ ~ReadPassed(w) /\ ~ReadFailed(w)
      <4>1. pc'[w] \notin {"completed", "passed read", "failed read"}
        BY <1>6, <3>1, <3>5 DEF Worker, Dispatch, Begin, Limiter, LimiterRefuses, GivesUp,
           Attempt, Retry, BackoffCancelled, Accept, Drop, Record, PublishProgress, Goes
      <4>2. QED
        BY <2>5, <4>1 DEF Read
    <3>6. QED
      BY <3>2, <3>3, <3>4, <3>5
  <2>6. QED
    BY <2>4, <2>5
<1>7. QED
  BY <1>4, <1>5, <1>6, NextCases

LEMMA WorkingNext ==
  ASSUME IInv, Next
  PROVE  Working'
BY HeldNext, JudgedNext, ReadNext DEF Working

LEMMA OneMember ==
  ASSUME NEW S, IsFiniteSet(S), NEW x, NEW T, \A y : y # x => (y \in T <=> y \in S)
  PROVE  /\ IsFiniteSet(T) /\ Cardinality(S) \in Nat /\ Cardinality(T) \in Nat
         /\ (x \in S <=> x \in T) => Cardinality(T) = Cardinality(S)
         /\ x \in S /\ x \notin T => Cardinality(T) = Cardinality(S) - 1
         /\ x \notin S /\ x \in T => Cardinality(T) = Cardinality(S) + 1
<1>1. Cardinality(S) \in Nat
  BY FS_CardinalityType
<1>2. CASE x \in S <=> x \in T
  <2>1. T = S
    BY <1>2
  <2>2. QED
    BY <1>1, <1>2, <2>1
<1>3. CASE x \in S /\ x \notin T
  <2>1. T = S \ {x}
    BY <1>3
  <2>2. IsFiniteSet(T) /\ Cardinality(T) = Cardinality(S) - 1
    BY <1>3, <2>1, FS_RemoveElement
  <2>3. Cardinality(T) \in Nat
    BY <2>2, FS_CardinalityType
  <2>4. QED
    BY <1>1, <1>3, <2>2, <2>3
<1>4. CASE x \notin S /\ x \in T
  <2>1. T = S \cup {x}
    BY <1>4
  <2>2. IsFiniteSet(T) /\ Cardinality(T) = Cardinality(S) + 1
    BY <1>4, <2>1, FS_AddElement
  <2>3. QED
    BY <1>1, <1>4, <2>2
<1>5. QED
  BY <1>2, <1>3, <1>4

(* A step of one worker changes the two counts by what it does itself.     *)
LEMMA Moved ==
  ASSUME WorkersTyped, NEW w \in Slots, Worker(w)
  PROVE  /\ Cardinality(InHand) \in Nat /\ Cardinality(Uncounted) \in Nat
         /\ Cardinality(InHand)' =
              IF (pc[w] \in Handling <=> pc'[w] \in Handling) THEN Cardinality(InHand)
              ELSE IF pc[w] \in Handling THEN Cardinality(InHand) - 1
              ELSE Cardinality(InHand) + 1
         /\ Cardinality(Uncounted)' =
              IF pc[w] = "recorded" <=> pc'[w] = "recorded" THEN Cardinality(Uncounted)
              ELSE IF pc[w] = "recorded" THEN Cardinality(Uncounted) - 1
              ELSE Cardinality(Uncounted) + 1
<1>1. \A v \in Slots \ {w} : pc'[v] = pc[v]
  BY WorkerAlone
<1>2. IsFiniteSet(InHand) /\ IsFiniteSet(Uncounted)
  BY CycleAssumption, FS_Subset DEF InHand, Uncounted
<1>3. /\ \A y : y # w => (y \in InHand' <=> y \in InHand)
      /\ w \in InHand <=> pc[w] \in Handling
      /\ w \in InHand' <=> pc'[w] \in Handling
  BY <1>1 DEF InHand
<1>4. /\ \A y : y # w => (y \in Uncounted' <=> y \in Uncounted)
      /\ w \in Uncounted <=> pc[w] = "recorded"
      /\ w \in Uncounted' <=> pc'[w] = "recorded"
  BY <1>1 DEF Uncounted
<1>5. \A S, T : IsFiniteSet(S) /\ (\A y : y # w => (y \in T <=> y \in S)) =>
         /\ Cardinality(S) \in Nat
         /\ (w \in S <=> w \in T) => Cardinality(T) = Cardinality(S)
         /\ w \in S /\ w \notin T => Cardinality(T) = Cardinality(S) - 1
         /\ w \notin S /\ w \in T => Cardinality(T) = Cardinality(S) + 1
  BY OneMember
<1>6. PICK h, h2, u, u2 : h = InHand /\ h2 = InHand' /\ u = Uncounted /\ u2 = Uncounted'
  OBVIOUS
<1>7. /\ Cardinality(h) \in Nat
      /\ (w \in h <=> w \in h2) => Cardinality(h2) = Cardinality(h)
      /\ w \in h /\ w \notin h2 => Cardinality(h2) = Cardinality(h) - 1
      /\ w \notin h /\ w \in h2 => Cardinality(h2) = Cardinality(h) + 1
  BY <1>2, <1>3, <1>5, <1>6
<1>8. /\ Cardinality(u) \in Nat
      /\ (w \in u <=> w \in u2) => Cardinality(u2) = Cardinality(u)
      /\ w \in u /\ w \notin u2 => Cardinality(u2) = Cardinality(u) - 1
      /\ w \notin u /\ w \in u2 => Cardinality(u2) = Cardinality(u) + 1
  BY <1>2, <1>4, <1>5, <1>6
<1>9. QED
  BY <1>3, <1>4, <1>6, <1>7, <1>8

LEMMA BalancedNext ==
  ASSUME IInv, Next
  PROVE  Balanced'
<1>1. /\ WorkersTyped /\ Quiet
      /\ tally = progress
      /\ completed + Cardinality(Uncounted) = Total(progress)
      /\ Total(progress) + Cardinality(InHand) <= next - 1
      /\ stage = "probing" /\ ~ctxDone => Total(progress) + Cardinality(InHand) = next - 1
  BY DEF IInv, Typed, Counted, Balanced
<1>2. /\ progress \in Counts /\ completed \in Nat /\ next \in Nat
      /\ Total(progress) \in Nat
  BY TotalType DEF IInv, Typed, CountsTyped, PoolTyped
<1>3. CASE FetchStep
  <2>1. /\ stage' # "probing"
        /\ UNCHANGED <<pc, tally, progress, completed, next>>
    BY <1>3, FetchFrame DEF workerVars, countVars, poolVars
  <2>2. QED
    BY <1>1, <2>1 DEF Balanced, InHand, Uncounted, Total
<1>4. CASE Cancel
  <2>1. ctxDone' /\ UNCHANGED <<pc, tally, progress, completed, next>>
    BY <1>4 DEF Cancel, workerVars, countVars, poolVars
  <2>2. QED
    BY <1>1, <2>1 DEF Balanced, InHand, Uncounted, Total
<1>5. CASE StopDispatching
  <2>1. UNCHANGED <<stage, ctxDone, pc, tally, progress, completed, next>>
    BY <1>5 DEF StopDispatching, workerVars, countVars
  <2>2. QED
    BY <1>1, <2>1 DEF Balanced, InHand, Uncounted, Total
<1>6. CASE Load \/ EndStep
  <2>1. /\ pc' = pc /\ \A w \in Slots : pc[w] = "free"
        /\ tally' = Zero /\ progress' = Zero /\ completed' = 0 /\ next' = 1
    BY <1>1, <1>6, EndFrame DEF Load, Quiet, PoolReturned, workerVars
  <2>2. InHand' = {} /\ Uncounted' = {}
    BY <2>1 DEF InHand, Uncounted, Handling, Testing
  <2>3. Cardinality(InHand)' = 0 /\ Cardinality(Uncounted)' = 0
    BY <2>2, FS_EmptySet
  <2>4. Total(progress)' = 0
    BY <2>1, ZeroFacts
  <2>5. QED
    BY <2>1, <2>3, <2>4 DEF Balanced
<1>7. ASSUME NEW w \in Slots, Worker(w)
      PROVE  Balanced'
  <2>1. UNCHANGED <<stage, ctxDone>>
    BY <1>7, WorkerFrame
  <2>2. pc \in [Slots -> Places] /\ Cardinality(InHand) \in Nat /\ Cardinality(Uncounted) \in Nat
    BY <1>1, <1>7, Moved DEF WorkersTyped
  <2>3. CASE Dispatch(w)
    <3>1. /\ pc[w] = "free" /\ pc'[w] = "new" /\ next' = next + 1
          /\ UNCHANGED <<tally, progress, completed>>
      BY <2>2, <2>3 DEF Dispatch, Goes, countVars
    <3>2. /\ Cardinality(InHand)' = Cardinality(InHand) + 1
          /\ Cardinality(Uncounted)' = Cardinality(Uncounted)
      BY <1>1, <1>7, <3>1, Moved DEF Handling, Testing
    <3>3. Total(progress)' = Total(progress)
      BY <3>1 DEF Total
    <3>4. QED
      BY <1>1, <1>2, <2>1, <2>2, <3>1, <3>2, <3>3 DEF Balanced
  <2>4. CASE Drop(w)
    <3>1. /\ pc[w] = "returned" /\ pc'[w] = "free" /\ ctxDone
          /\ UNCHANGED <<tally, progress, completed, next>>
      BY <2>2, <2>4 DEF Drop, Goes, restOfWorker, countVars, poolVars
    <3>2. /\ Cardinality(InHand)' = Cardinality(InHand) - 1
          /\ Cardinality(Uncounted)' = Cardinality(Uncounted)
      BY <1>1, <1>7, <3>1, Moved DEF Handling, Testing
    <3>3. Total(progress)' = Total(progress)
      BY <3>1 DEF Total
    <3>4. QED
      BY <1>1, <1>2, <2>1, <2>2, <3>1, <3>2, <3>3 DEF Balanced
  <2>5. CASE Record(w)
    <3>1. pc[w] = "recording" /\ pc'[w] = "recorded" /\ UNCHANGED <<completed, next>>
      BY <2>2, <2>5 DEF Record, Goes, poolVars
    <3>2. /\ Cardinality(InHand)' = Cardinality(InHand) - 1
          /\ Cardinality(Uncounted)' = Cardinality(Uncounted) + 1
      BY <1>1, <1>7, <3>1, Moved DEF Handling, Testing
    <3>3. result[w].status \in Statuses
      BY <3>1 DEF IInv, Working, Held
    <3>4. /\ tally' = [tally EXCEPT ![result[w].status] = @ + 1]
          /\ progress' = [progress EXCEPT ![result[w].status] = @ + 1]
      BY <2>5 DEF Record
    <3>5. tally' = progress' /\ Total(progress)' = Total(progress) + 1
      BY <1>1, <1>2, <3>3, <3>4, Counting DEF Total
    <3>6. QED
      BY <1>1, <1>2, <2>1, <2>2, <3>1, <3>2, <3>5 DEF Balanced
  <2>6. CASE CompleteOne(w)
    <3>1. /\ pc[w] = "recorded" /\ pc'[w] = "completed" /\ completed' = completed + 1
          /\ UNCHANGED <<tally, progress, next>>
      BY <2>2, <2>6 DEF CompleteOne, Goes, poolVars
    <3>2. /\ Cardinality(InHand)' = Cardinality(InHand)
          /\ Cardinality(Uncounted)' = Cardinality(Uncounted) - 1
      BY <1>1, <1>7, <3>1, Moved DEF Handling, Testing
    <3>3. Total(progress)' = Total(progress)
      BY <3>1 DEF Total
    <3>4. QED
      BY <1>1, <1>2, <2>1, <2>2, <3>1, <3>2, <3>3 DEF Balanced
  <2>7. CASE ~Dispatch(w) /\ ~Drop(w) /\ ~Record(w) /\ ~CompleteOne(w)
    <3>1. /\ pc[w] # "recorded" /\ pc'[w] # "recorded"
          /\ (pc[w] \in Handling <=> pc'[w] \in Handling)
      <4>1. CASE Begin(w) \/ Limiter(w) \/ LimiterRefuses(w) \/ Retry(w) \/ BackoffCancelled(w)
                 \/ Accept(w)
        BY <2>2, <4>1 DEF Begin, Limiter, LimiterRefuses, GivesUp, Retry, BackoffCancelled,
           Accept, Goes, Handling, Testing
      <4>2. CASE Attempt(w)
        <5>1. pc[w] = "attempt" /\ pc'[w] \in {"backoff", "returned"}
          BY <2>2, <4>2 DEF Attempt, Goes
        <5>2. pc[w] \in Handling /\ pc'[w] \in Handling
          BY <5>1 DEF Handling, Testing
        <5>3. pc[w] # "recorded" /\ pc'[w] # "recorded"
          BY <5>1
        <5>4. QED
          BY <5>2, <5>3
      <4>3. CASE ReadPassed(w) \/ ReadFailed(w) \/ PublishProgress(w)
        BY <2>2, <4>3 DEF ReadPassed, ReadFailed, PublishProgress, Goes, Handling, Testing
      <4>4. QED
        BY <1>7, <2>7, <4>1, <4>2, <4>3 DEF Worker
    <3>2. UNCHANGED <<tally, progress, completed, next>>
      BY <1>7, <2>7 DEF Worker, Begin, Limiter, LimiterRefuses, GivesUp, Attempt, Retry,
         BackoffCancelled, Accept, ReadPassed, ReadFailed, PublishProgress, restOfWorker,
         countVars, poolVars
    <3>3. /\ Cardinality(InHand)' = Cardinality(InHand)
          /\ Cardinality(Uncounted)' = Cardinality(Uncounted)
      BY <1>1, <1>7, <3>1, Moved
    <3>4. Total(progress)' = Total(progress)
      BY <3>2 DEF Total
    <3>5. QED
      BY <1>1, <1>2, <2>1, <2>2, <3>2, <3>3, <3>4 DEF Balanced
  <2>8. QED
    BY <2>3, <2>4, <2>5, <2>6, <2>7
<1>8. QED
  BY <1>3, <1>4, <1>5, <1>6, <1>7, NextCases

LEMMA PublishedNext ==
  ASSUME IInv, Next
  PROVE  Published'
<1>1. /\ event.completed <= event.passed + event.failed + event.inconclusive
      /\ event.passed + event.failed + event.inconclusive <= Total(progress)
  BY DEF IInv, Counted, Published
<1>2. finished.cancelled = FALSE => finished.completed = Total(finished.counts)
  BY DEF IInv, Counted, Published
<1>3. /\ progress \in Counts /\ Total(progress) \in Nat /\ event \in Events
      /\ progress[Passed] \in Nat /\ progress[Failed] \in Nat /\ progress[Inconclusive] \in Nat
      /\ Total(progress) = progress[Passed] + progress[Failed] + progress[Inconclusive]
  BY TotalType DEF IInv, Typed, CountsTyped, Total
<1>4. CASE FetchStep
  <2>1. UNCHANGED <<event, progress>>
    BY <1>4, FetchFrame DEF countVars
  <2>2. finished'.cancelled = FALSE => finished'.completed = Total(finished'.counts)
    <3>1. CASE Start
      BY <3>1 DEF Start, NotFinished
    <3>2. CASE StartWithoutSource \/ Abort
      <4>1. finished' = [total |-> 0, completed |-> 0, counts |-> Zero, cancelled |-> ctxDone]
        BY <3>2 DEF StartWithoutSource, Abort, EndEarly, CycleFinished
      <4>2. QED
        BY <4>1, ZeroFacts
    <3>3. CASE FetchOne \/ FetchAgain \/ FetchFails \/ FetchCancelled
      BY <1>2, <3>3 DEF FetchOne, FetchAgain, FetchFails, FetchCancelled, Fetched
    <3>4. QED
      BY <1>4, <3>1, <3>2, <3>3 DEF FetchStep
  <2>3. QED
    BY <1>1, <2>1, <2>2 DEF Published, Total
<1>5. CASE Cancel \/ StopDispatching
  <2>1. UNCHANGED <<event, progress, finished>>
    BY <1>5 DEF Cancel, StopDispatching, countVars
  <2>2. QED
    BY <1>1, <1>2, <2>1 DEF Published, Total
<1>6. CASE Load \/ EndStep
  <2>1. event' = NoEvent /\ progress' = Zero
    BY <1>6, EndFrame DEF Load
  <2>2. Total(progress)' = 0
    BY <2>1, ZeroFacts
  <2>3. finished'.cancelled = FALSE => finished'.completed = Total(finished'.counts)
    <3>1. CASE Load
      BY <1>2, <3>1 DEF Load
    <3>2. CASE Interrupted
      BY <3>2 DEF Interrupted, CycleFinished
    <3>3. CASE FinishCycle
      <4>1. /\ finished' = [total |-> Len(selected), completed |-> Len(selected),
                            counts |-> tally, cancelled |-> FALSE]
            /\ PoolReturned /\ dispatched /\ ~ctxDone
        BY <3>3 DEF FinishCycle, CycleFinished
      <4>2. Cardinality(InHand) = 0
        BY <4>1, AllFree DEF PoolReturned
      <4>3. /\ tally = progress
            /\ Total(progress) + Cardinality(InHand) = next - 1
        BY <4>1 DEF IInv, Counted, Balanced, PoolReturned
      <4>4. next = Len(selected) + 1
        <5>1. next \in Nat /\ Len(selected) \in Nat /\ next <= Len(selected) + 1
          BY LenProperties DEF IInv, Typed, PoolTyped
        <5>2. next > Len(selected)
          BY <4>1 DEF PoolReturned
        <5>3. QED
          BY <5>1, <5>2
      <4>5. Len(selected) \in Nat
        BY LenProperties DEF IInv, Typed, PoolTyped
      <4>6. Len(selected) = Total(tally)
        BY <1>3, <4>2, <4>3, <4>4, <4>5
      <4>7. QED
        BY <4>1, <4>6
    <3>4. QED
      BY <1>6, <3>1, <3>2, <3>3 DEF EndStep
  <2>4. QED
    BY <2>1, <2>2, <2>3 DEF Published, NoEvent
<1>7. ASSUME NEW w \in Slots, Worker(w)
      PROVE  Published'
  <2>1. finished' = finished
    BY <1>7, WorkerFrame
  <2>2. CASE PublishProgress(w)
    <3>1. /\ pc[w] = "failed read" /\ progress' = progress
          /\ event' = [seen[w] EXCEPT !.inconclusive = progress[Inconclusive]]
      BY <2>2 DEF PublishProgress, Goes
    <3>2. seen[w] \in Events
      BY DEF IInv, Typed, WorkersTyped
    <3>3. /\ event'.completed = seen[w].completed /\ event'.passed = seen[w].passed
          /\ event'.failed = seen[w].failed /\ event'.inconclusive = progress[Inconclusive]
          /\ seen[w].completed \in Nat /\ seen[w].passed \in Nat /\ seen[w].failed \in Nat
      BY <3>1, <3>2 DEF Events
    <3>4. /\ seen[w].passed <= progress[Passed] /\ seen[w].failed <= progress[Failed]
          /\ seen[w].completed <= seen[w].passed + seen[w].failed + progress[Inconclusive]
      BY <3>1 DEF IInv, Working, Read
    <3>5. /\ event'.completed <= event'.passed + event'.failed + event'.inconclusive
          /\ event'.passed + event'.failed + event'.inconclusive <= Total(progress)
      BY <1>3, <3>3, <3>4
    <3>6. QED
      BY <1>2, <2>1, <3>1, <3>5 DEF Published, Total
  <2>3. CASE Record(w)
    <3>1. event' = event
      BY <2>3 DEF Record
    <3>2. result[w].status \in Statuses
      BY <2>3 DEF Record, Goes, IInv, Working, Held
    <3>3. progress' = [progress EXCEPT ![result[w].status] = @ + 1]
      BY <2>3 DEF Record
    <3>4. Total(progress)' = Total(progress) + 1
      BY <1>3, <3>2, <3>3, Counting DEF Total
    <3>5. event.passed \in Nat /\ event.failed \in Nat /\ event.inconclusive \in Nat
      BY <1>3 DEF Events
    <3>6. event.passed + event.failed + event.inconclusive <= Total(progress)'
      BY <1>1, <1>3, <3>4, <3>5
    <3>7. QED
      BY <1>1, <1>2, <2>1, <3>1, <3>6 DEF Published
  <2>4. CASE ~PublishProgress(w) /\ ~Record(w)
    <3>1. UNCHANGED <<event, progress>>
      BY <1>7, <2>4 DEF Worker, Dispatch, Begin, Limiter, LimiterRefuses, GivesUp, Attempt,
         Retry, BackoffCancelled, Accept, Drop, CompleteOne, ReadPassed, ReadFailed,
         restOfWorker, countVars
    <3>2. QED
      BY <1>1, <1>2, <2>1, <3>1 DEF Published, Total
  <2>5. QED
    BY <2>2, <2>3, <2>4
<1>8. QED
  BY <1>4, <1>5, <1>6, <1>7, NextCases

-----------------------------------------------------------------------------
(* The rotation.                                                           *)

(* A sequence without duplicates has as many members as positions.         *)
LEMMA InjectiveSize ==
  ASSUME NEW T, NEW seq \in Seq(T), IsInjective(seq)
  PROVE  IsFiniteSet(ToSet(seq)) /\ Cardinality(ToSet(seq)) = Len(seq)
<1> DEFINE n == Len(seq)
<1>1. n \in Nat /\ DOMAIN seq = 1..n
  BY LenProperties
<1>2. IsFiniteSet(1..n) /\ Cardinality(1..n) = n
  BY <1>1, FS_Interval, SMTT(30)
<1> HIDE DEF n
<1>3. seq \in [1..n -> ToSet(seq)]
  BY <1>1, LenProperties DEF ToSet, n
<1>4. /\ \A a, b \in 1..n : seq[a] = seq[b] => a = b
      /\ \A t \in ToSet(seq) : \E a \in 1..n : seq[a] = t
  BY <1>1 DEF IsInjective, ToSet
<1>5. seq \in Injection(1..n, ToSet(seq)) /\ seq \in Surjection(1..n, ToSet(seq))
  BY <1>3, <1>4, Fun_IsInj, Fun_IsSurj
<1>6. QED
  BY <1>2, <1>5, FS_Surjection DEF n

LEMMA SelectedFacts ==
  ASSUME PoolTyped
  PROVE  /\ Len(selected) \in Nat
         /\ ToSet(selected) = {selected[n] : n \in 1..Len(selected)}
         /\ ToSet(selected) \subseteq Parsable
         /\ Cans(ToSet(selected)) \subseteq Links
<1>1. selected \in Seq(Parsable)
  BY DEF PoolTyped
<1>2. /\ Len(selected) \in Nat
      /\ ToSet(selected) = {selected[n] : n \in 1..Len(selected)}
  BY <1>1, LenProperties DEF ToSet
<1>3. ToSet(selected) \subseteq Parsable
  BY <1>1, <1>2, ElementOfSeq
<1>4. QED
  BY <1>2, <1>3, LinkFacts DEF Cans

(* The population is finite, and so are those of it tested after a link.   *)
LEMMA LaterFacts ==
  ASSUME PoolTyped
  PROVE  /\ \A l : IsFiniteSet(Later(l)) /\ Cardinality(Later(l)) \in Nat
         /\ IsFiniteSet(population) /\ Cardinality(population) \in Nat
         /\ Cans(population) \subseteq Links
         /\ \A r \in population : r \in Raw /\ Canonical[r] \in Cans(population)
<1>1. population \subseteq Raw
  BY LinkFacts DEF PoolTyped
<1>2. IsFiniteSet(population) /\ Cardinality(population) \in Nat
  BY <1>1, LinkFacts, FS_Subset, FS_CardinalityType
<1>3. \A l : Later(l) \in SUBSET population
  BY DEF Later
<1>4. \A l : IsFiniteSet(Later(l))
  BY <1>2, <1>3, FS_Subset
<1>5. \A l : Cardinality(Later(l)) \in Nat
  BY <1>4, FS_CardinalityType
<1>6. QED
  BY <1>1, <1>2, <1>4, <1>5, LinkFacts DEF Cans

(* More links than before were tested after one that was not.              *)
LEMMA LaterGrows ==
  ASSUME PoolTyped, NEW l, population' = population, NEW E,
         \A r \in population :
           lastTested[l] < lastTested[Canonical[r]] => lastTested'[l] < lastTested'[Canonical[r]]
  PROVE  /\ Cardinality(Later(l)) <= Cardinality(Later(l)')
         /\ Cardinality(Later(l) \ E) <= Cardinality(Later(l)' \ E)
         /\ Cardinality(Later(l) \ E) \in Nat /\ Cardinality(Later(l)' \ E) \in Nat
         /\ Cardinality(Later(l)) \in Nat /\ Cardinality(Later(l)') \in Nat
<1>1. PICK before, after, all : before = Later(l) /\ after = Later(l)' /\ all = population
  OBVIOUS
<1>2. before \subseteq after /\ after \subseteq all
  BY <1>1 DEF Later
<1>3. IsFiniteSet(all)
  BY <1>1, LaterFacts
<1>4. IsFiniteSet(after) /\ IsFiniteSet(before) /\ Cardinality(before) <= Cardinality(after)
  BY <1>2, <1>3, FS_Subset
<1>5. before \ E \in SUBSET (after \ E) /\ IsFiniteSet(after \ E)
  BY <1>2, <1>4, FS_Difference
<1>6. IsFiniteSet(before \ E) /\ Cardinality(before \ E) <= Cardinality(after \ E)
  BY <1>5, FS_Subset
<1>7. /\ Cardinality(before) \in Nat /\ Cardinality(after) \in Nat
      /\ Cardinality(before \ E) \in Nat /\ Cardinality(after \ E) \in Nat
  BY <1>4, <1>5, <1>6, FS_CardinalityType
<1>8. QED
  BY <1>1, <1>4, <1>6, <1>7

(* A recorded test moves its link back, and no other.                      *)
LEMMA RecordFacts ==
  ASSUME IInv, NEW w \in Slots, Record(w)
  PROVE  /\ cand[w] \in ToSet(selected) /\ Canonical[cand[w]] \in Links
         /\ start[w] \in Nat /\ start[w] <= lastTested'[Canonical[cand[w]]]
         /\ \A m \in Links : /\ lastTested[m] \in Nat /\ lastTested'[m] \in Nat
                             /\ lastTested[m] <= lastTested'[m]
         /\ \A m \in Links \ {Canonical[cand[w]]} :
              lastTested'[m] = lastTested[m] /\ waited'[m] = waited[m]
         /\ waited'[Canonical[cand[w]]] = 0
         /\ probed' = probed \cup {Canonical[cand[w]]}
<1>1. PoolTyped /\ RotationTyped /\ start \in [Slots -> Nat]
  BY DEF IInv, Typed, WorkersTyped
<1>2. cand[w] \in ToSet(selected)
  BY DEF Record, Goes, IInv, Working, Held, Handling, Testing
<1>3. Canonical[cand[w]] \in Links
  BY <1>1, <1>2, SelectedFacts DEF Cans
<1>4. /\ lastTested' = [lastTested EXCEPT ![Canonical[cand[w]]] =
                          IF start[w] > @ THEN start[w] ELSE @]
      /\ waited' = [waited EXCEPT ![Canonical[cand[w]]] = 0]
      /\ probed' = probed \cup {Canonical[cand[w]]}
  BY DEF Record, RecordTested
<1>5. lastTested \in [Links -> Nat] /\ waited \in [Links -> Nat]
  BY <1>1 DEF RotationTyped
<1>6. start[w] \in Nat
  BY <1>1
<1>7. /\ start[w] <= lastTested'[Canonical[cand[w]]]
      /\ \A m \in Links : /\ lastTested[m] \in Nat /\ lastTested'[m] \in Nat
                          /\ lastTested[m] <= lastTested'[m]
      /\ \A m \in Links \ {Canonical[cand[w]]} : lastTested'[m] = lastTested[m]
  BY <1>3, <1>4, <1>5, <1>6
<1>8. /\ waited'[Canonical[cand[w]]] = 0
      /\ \A m \in Links \ {Canonical[cand[w]]} : waited'[m] = waited[m]
  BY <1>3, <1>4, <1>5
<1>9. QED
  BY <1>2, <1>3, <1>4, <1>6, <1>7, <1>8

(* Any other step of a worker leaves the rotation alone.                   *)
LEMMA RotationFrame ==
  ASSUME NEW w \in Slots, Worker(w), ~Record(w)
  PROVE  UNCHANGED <<lastTested, probed, waited>>
BY DEF Worker, Dispatch, Begin, Limiter, LimiterRefuses, GivesUp, Attempt, Retry,
   BackoffCancelled, Accept, Drop, CompleteOne, ReadPassed, ReadFailed, PublishProgress,
   restOfWorker, historyVars

LEMMA CoveredNext ==
  ASSUME IInv, Next
  PROVE  Covered'
<1>1. Covered /\ PoolTyped /\ WorkersTyped /\ FetchTyped /\ RotationTyped /\ Quiet
  BY DEF IInv, Typed, Rotating
<1>2. CASE FetchStep \/ EndStep
  <2>1. stage' # "probing"
    BY <1>2, FetchFrame, EndFrame
  <2>2. QED
    BY <2>1 DEF Covered
<1>3. CASE Cancel
  <2>1. ctxDone' /\ UNCHANGED <<stage, selected, population, probed>>
    BY <1>3 DEF Cancel, poolVars, historyVars
  <2>2. QED
    BY <1>1, <2>1 DEF Covered, Cans
<1>4. CASE StopDispatching
  <2>1. UNCHANGED <<stage, ctxDone, selected, next, population, probed, pc, cand>>
    BY <1>4 DEF StopDispatching, workerVars, historyVars
  <2>2. QED
    BY <1>1, <2>1 DEF Covered, Cans, InHand
<1>5. CASE Load
  <2>1. IsInjective(selected') /\ ToSet(selected') \subseteq population'
    BY <1>1, <1>5, LoadFacts
  <2>2. probed' = {} /\ next' = 1
    BY <1>5 DEF Load
  <2>3. \A n : n \notin 1..next' - 1
    BY <2>2
  <2>4. QED
    BY <2>1, <2>2, <2>3 DEF Covered
<1>6. ASSUME NEW w \in Slots, Worker(w)
      PROVE  Covered'
  <2>1. /\ UNCHANGED <<stage, ctxDone, selected, population>>
        /\ stage = "probing"
    BY <1>1, <1>6, WorkerFrame, WorkerProbing
  <2>2. /\ IsInjective(selected) /\ ToSet(selected) \subseteq population
        /\ probed \subseteq Cans(ToSet(selected))
        /\ ~ctxDone =>
             \A n \in 1..next - 1 : \/ Canonical[selected[n]] \in probed
                                    \/ \E v \in InHand : cand[v] = selected[n]
    BY <1>1, <2>1 DEF Covered
  <2>3. /\ pc \in [Slots -> Places] /\ pc' \in [Slots -> Places]
        /\ cand \in [Slots -> Parsable \cup {NoCand}]
        /\ \A v \in Slots \ {w} : pc'[v] = pc[v] /\ cand'[v] = cand[v]
    BY <1>1, <1>6, WorkerAlone DEF WorkersTyped
  <2>4. probed' \subseteq Cans(ToSet(selected)) /\ probed \subseteq probed'
    <3>1. CASE Record(w)
      BY <2>2, <3>1, RecordFacts DEF Cans
    <3>2. CASE ~Record(w)
      BY <1>6, <2>2, <3>2, RotationFrame
    <3>3. QED
      BY <3>1, <3>2
  <2>5. ASSUME ~ctxDone, NEW n \in 1..next' - 1
        PROVE  \/ Canonical[selected[n]] \in probed'
               \/ \E v \in InHand' : cand'[v] = selected[n]
    <3>1. next \in Nat
      BY <1>1 DEF PoolTyped
    <3>2. CASE Dispatch(w)
      <4>1. pc[w] = "free" /\ pc'[w] = "new" /\ cand'[w] = selected[next] /\ next' = next + 1
        BY <2>3, <3>2 DEF Dispatch, Goes
      <4>2. w \in InHand'
        BY <4>1 DEF InHand, Handling
      <4>3. CASE n = next
        BY <4>1, <4>2, <4>3
      <4>4. CASE n # next
        <5>1. n \in 1..next - 1
          BY <3>1, <4>1, <4>4
        <5>2. \A v \in InHand : v # w /\ v \in InHand' /\ cand'[v] = cand[v]
          BY <2>3, <4>1 DEF InHand, Handling, Testing
        <5>3. QED
          BY <2>2, <2>4, <2>5, <5>1, <5>2
      <4>5. QED
        BY <4>3, <4>4
    <3>3. CASE Record(w)
      <4>1. next' = next /\ Canonical[cand[w]] \in probed'
        BY <3>3, RecordFacts DEF Record, poolVars
      <4>2. \A v \in InHand : v = w \/ (v \in InHand' /\ cand'[v] = cand[v])
        BY <2>3 DEF InHand
      <4>3. QED
        BY <2>2, <2>4, <2>5, <4>1, <4>2
    <3>4. CASE ~Dispatch(w) /\ ~Record(w)
      <4>1. next' = next
        BY <1>6, <3>4 DEF Worker, Begin, Limiter, LimiterRefuses, GivesUp, Attempt, Retry,
           BackoffCancelled, Accept, Drop, CompleteOne, ReadPassed, ReadFailed,
           PublishProgress, restOfWorker, poolVars
      <4>2. pc[w] \in Handling => pc'[w] \in Handling /\ cand' = cand
        <5>1. CASE Begin(w) \/ Limiter(w) \/ LimiterRefuses(w) \/ Retry(w)
                   \/ BackoffCancelled(w) \/ Accept(w)
          <6>1. pc'[w] \in {"limiter", "attempt", "returned", "recording"} /\ cand' = cand
            BY <2>3, <5>1 DEF Begin, Limiter, LimiterRefuses, GivesUp, Retry,
               BackoffCancelled, Accept, Goes
          <6>2. QED
            BY <6>1 DEF Handling, Testing
        <5>2. CASE Attempt(w)
          <6>1. pc'[w] \in {"backoff", "returned"} /\ cand' = cand
            BY <2>3, <5>2 DEF Attempt, Goes
          <6>2. QED
            BY <6>1 DEF Handling, Testing
        <5>3. CASE CompleteOne(w) \/ ReadPassed(w) \/ ReadFailed(w) \/ PublishProgress(w)
          <6>1. pc[w] \in {"recorded", "completed", "passed read", "failed read"}
            BY <5>3 DEF CompleteOne, ReadPassed, ReadFailed, PublishProgress, Goes
          <6>2. QED
            BY <6>1 DEF Handling, Testing
        <5>4. CASE Drop(w)
          BY <2>5, <5>4 DEF Drop
        <5>5. QED
          BY <1>6, <3>4, <5>1, <5>2, <5>3, <5>4 DEF Worker
      <4>3. \A v \in InHand : v \in InHand' /\ cand'[v] = cand[v]
        BY <2>3, <4>2 DEF InHand
      <4>4. QED
        BY <2>2, <2>4, <2>5, <4>1, <4>3
    <3>5. QED
      BY <3>2, <3>3, <3>4
  <2>6. QED
    BY <2>1, <2>2, <2>4, <2>5 DEF Covered
<1>7. QED
  BY <1>2, <1>3, <1>4, <1>5, <1>6, NextCases

LEMMA OwedNext ==
  ASSUME IInv, Next
  PROVE  Owed'
<1>1. Owed /\ PoolTyped /\ WorkersTyped /\ FetchTyped /\ RotationTyped
  BY DEF IInv, Typed, Rotating
<1>2. /\ ProbeLimit \in Nat /\ waited \in [Links -> Nat] /\ lastTested \in [Links -> Nat]
      /\ Cans(population) \subseteq Links
  BY <1>1, CycleAssumption, LaterFacts DEF RotationTyped
<1>3. \A l \in Cans(population) : /\ ProbeLimit * waited[l] <= Cardinality(Later(l))
                                  /\ ProbeLimit = 0 => waited[l] = 0
  BY <1>1 DEF Owed
<1>4. CASE UNCHANGED <<population, lastTested, waited>>
  BY <1>1, <1>4 DEF Owed, Cans, Later
<1>5. CASE FetchStep \/ Cancel \/ StopDispatching \/ Interrupted
  <2>1. UNCHANGED <<population, lastTested, waited>>
    BY <1>5, FetchFrame DEF Cancel, StopDispatching, Interrupted, Ended, historyVars
  <2>2. QED
    BY <1>4, <2>1
<1>6. CASE Load
  <2>1. PoolTyped' /\ population' = ToSet(Parsed)
    BY <1>6, PoolTypedNext DEF Load
  <2>2. \A l, m \in Cans(population') :
          lastTested[l] < lastTested[m] => lastTested'[l] < lastTested'[m]
    BY <1>1, <1>6, LoadFacts
  <2>3. CASE population' = population
    <3>1. waited' = waited /\ Cans(population)' = Cans(population)
      BY <1>6, <2>1, <2>3 DEF Load, Cans
    <3>2. ASSUME NEW l \in Cans(population)
          PROVE  ProbeLimit * waited[l] <= Cardinality(Later(l)')
      <4>1. /\ Cardinality(Later(l)) <= Cardinality(Later(l)')
            /\ Cardinality(Later(l)) \in Nat /\ Cardinality(Later(l)') \in Nat
        BY <1>1, <2>2, <2>3, <3>1, LaterFacts, LaterGrows
      <4>2. ProbeLimit * waited[l] <= Cardinality(Later(l))
        BY <1>3
      <4>3. waited[l] \in Nat
        BY <1>2
      <4>4. ProbeLimit * waited[l] \in Nat
        BY <1>2, <4>3
      <4>5. QED
        BY <4>1, <4>2, <4>4
    <3>3. QED
      BY <1>3, <3>1, <3>2 DEF Owed
  <2>4. CASE population' # population
    <3>1. waited' = [l \in Links |-> 0]
      BY <1>6, <2>1, <2>4 DEF Load
    <3>2. Cans(population)' \subseteq Links
      BY <2>1, LinkFacts DEF PoolTyped, Cans
    <3>3. ASSUME NEW l \in Cans(population)'
          PROVE  waited'[l] = 0 /\ ProbeLimit * waited'[l] <= Cardinality(Later(l)')
      <4>1. waited'[l] = 0
        BY <3>1, <3>2
      <4>2. PICK later, all : later = Later(l)' /\ all = population'
        OBVIOUS
      <4>3. later \subseteq all /\ all \subseteq Raw
        BY <2>1, <4>2, LinkFacts DEF Later, PoolTyped
      <4>4. Cardinality(later) \in Nat
        BY <4>3, LinkFacts, FS_Subset, FS_CardinalityType
      <4>5. ProbeLimit * 0 = 0
        BY <1>2
      <4>6. QED
        BY <4>1, <4>2, <4>4, <4>5
    <3>4. QED
      BY <3>3 DEF Owed
  <2>5. QED
    BY <2>3, <2>4
<1>7. CASE FinishCycle
  <2>1. /\ population' = population /\ lastTested' = lastTested
        /\ waited' = [l \in Links |-> IF l \in Cans(population) \ probed
                                      THEN waited[l] + 1 ELSE 0]
    BY <1>7 DEF FinishCycle, Ended, Cans
  <2>2. stage = "probing" /\ ~ctxDone /\ next > Len(selected) /\ InHand = {}
    BY <1>7, AllFree DEF FinishCycle, PoolReturned
  <2>3. PassedOver /\ Covered
    BY DEF IInv, Rotating
  <2>4. Cans(ToSet(selected)) \subseteq probed
    <3>1. next - 1 = Len(selected)
      <4>1. next \in Nat /\ next <= Len(selected) + 1 /\ Len(selected) \in Nat
        BY <1>1, SelectedFacts DEF PoolTyped
      <4>2. QED
        BY <2>2, <4>1
    <3>2. \A n \in 1..Len(selected) : Canonical[selected[n]] \in probed
      BY <2>2, <2>3, <3>1 DEF Covered
    <3>3. QED
      BY <1>1, <3>2, SelectedFacts DEF Cans
  <2>5. ASSUME NEW l \in Cans(population)
        PROVE  /\ ProbeLimit * waited'[l] <= Cardinality(Later(l))
               /\ ProbeLimit = 0 => waited'[l] = 0
    <3>1. l \in Links /\ waited[l] \in Nat
      BY <1>2
    <3>2. Cardinality(Later(l)) \in Nat /\ IsFiniteSet(Later(l))
      BY <1>1, LaterFacts
    <3>3. CASE l \in probed
      <4>1. waited'[l] = 0
        BY <2>1, <3>1, <3>3
      <4>2. ProbeLimit * 0 = 0
        BY <1>2
      <4>3. QED
        BY <3>2, <4>1, <4>2
    <3>4. CASE l \notin probed
      <4>1. waited'[l] = waited[l] + 1
        BY <2>1, <3>1, <3>4
      <4>2. /\ ProbeLimit > 0 /\ Len(selected) = ProbeLimit
            /\ ProbeLimit * waited[l] <= Cardinality(Later(l) \ ToSet(selected))
            /\ \A p \in probed : lastTested[l] < lastTested[p]
        BY <2>2, <2>3, <2>4, <3>4 DEF PassedOver
      <4>3. ToSet(selected) \subseteq Later(l)
        <5>1. \A s \in ToSet(selected) : s \in population /\ Canonical[s] \in probed
          BY <2>2, <2>3, <2>4 DEF Covered, Cans
        <5>2. QED
          BY <4>2, <5>1 DEF Later
      <4>4. Cardinality(ToSet(selected)) = ProbeLimit
        BY <1>1, <2>2, <2>3, <4>2, InjectiveSize DEF Covered, PoolTyped
      <4>5. Cardinality(Later(l) \ ToSet(selected)) = Cardinality(Later(l)) - ProbeLimit
        <5>1. PICK later, sel : later = Later(l) /\ sel = ToSet(selected)
          OBVIOUS
        <5>2. later \cap sel = sel /\ IsFiniteSet(later)
          BY <3>2, <4>3, <5>1
        <5>3. Cardinality(later \ sel) = Cardinality(later) - Cardinality(sel)
          BY <5>2, FS_Difference
        <5>4. QED
          BY <4>4, <5>1, <5>3
      <4>6. ProbeLimit * (waited[l] + 1) = ProbeLimit * waited[l] + ProbeLimit
        BY <1>2, <3>1
      <4>7. ProbeLimit * waited[l] \in Nat
        BY <1>2, <3>1
      <4>8. QED
        BY <1>2, <3>2, <4>1, <4>2, <4>5, <4>6, <4>7
    <3>5. QED
      BY <3>3, <3>4
  <2>6. QED
    BY <2>1, <2>5 DEF Owed, Cans, Later
<1>8. ASSUME NEW w \in Slots, Worker(w)
      PROVE  Owed'
  <2>1. population' = population
    BY <1>8, WorkerFrame
  <2>2. CASE ~Record(w)
    BY <1>4, <1>8, <2>1, <2>2, RotationFrame
  <2>3. CASE Record(w)
    <3> DEFINE c == Canonical[cand[w]]
    <3>1. /\ \A m \in Links : /\ lastTested[m] \in Nat /\ lastTested'[m] \in Nat
                              /\ lastTested[m] <= lastTested'[m]
          /\ \A m \in Links \ {c} : lastTested'[m] = lastTested[m] /\ waited'[m] = waited[m]
          /\ waited'[c] = 0
      BY <2>3, RecordFacts
    <3> HIDE DEF c
    <3>2. ASSUME NEW l \in Cans(population)
          PROVE  /\ ProbeLimit * waited'[l] <= Cardinality(Later(l)')
                 /\ ProbeLimit = 0 => waited'[l] = 0
      <4>1. Cardinality(Later(l)') \in Nat
        <5>1. PoolTyped'
          BY PoolTypedNext
        <5>2. PICK later, all : later = Later(l)' /\ all = population'
          OBVIOUS
        <5>3. later \subseteq all /\ all \subseteq Raw
          BY <5>1, <5>2, LinkFacts DEF Later, PoolTyped
        <5>4. QED
          BY <5>2, <5>3, LinkFacts, FS_Subset, FS_CardinalityType
      <4>2. CASE l = c
        <5>1. ProbeLimit * 0 = 0
          BY <1>2
        <5>2. QED
          BY <3>1, <4>1, <4>2, <5>1
      <4>3. CASE l # c
        <5>1. l \in Links /\ lastTested'[l] = lastTested[l] /\ waited'[l] = waited[l]
          BY <1>2, <3>1, <4>3
        <5>2. \A r \in population : Canonical[r] \in Links
          BY <1>1, LaterFacts, LinkFacts
        <5>3. \A r \in population :
                lastTested[l] < lastTested[Canonical[r]] => lastTested'[l] < lastTested'[Canonical[r]]
          BY <3>1, <5>1, <5>2
        <5>4. Cardinality(Later(l)) <= Cardinality(Later(l)') /\ Cardinality(Later(l)) \in Nat
          BY <1>1, <2>1, <5>3, LaterGrows
        <5>5. ProbeLimit * waited[l] \in Nat
          BY <1>2, <5>1
        <5>6. ProbeLimit * waited[l] <= Cardinality(Later(l)) /\ (ProbeLimit = 0 => waited[l] = 0)
          BY <1>3
        <5>7. QED
          BY <4>1, <5>1, <5>4, <5>5, <5>6
      <4>4. QED
        BY <4>2, <4>3
    <3>3. QED
      BY <2>1, <3>2 DEF Owed, Cans
  <2>4. QED
    BY <2>2, <2>3
<1>9. QED
  BY <1>5, <1>6, <1>7, <1>8, NextCases DEF EndStep

LEMMA PassedOverNext ==
  ASSUME IInv, Next
  PROVE  PassedOver'
<1>1. PassedOver /\ Covered /\ PoolTyped /\ WorkersTyped /\ FetchTyped /\ RotationTyped /\ Quiet
  BY DEF IInv, Typed, Rotating
<1>2. CASE FetchStep \/ EndStep
  <2>1. stage' # "probing"
    BY <1>2, FetchFrame, EndFrame
  <2>2. QED
    BY <2>1 DEF PassedOver
<1>3. CASE Cancel \/ StopDispatching
  <2>1. UNCHANGED <<stage, selected, population, probed, waited, lastTested, pc, start>>
    BY <1>3 DEF Cancel, StopDispatching, poolVars, workerVars, historyVars
  <2>2. QED
    BY <1>1, <2>1 DEF PassedOver, Cans, Later
<1>4. CASE Load
  <2>1. Owed' /\ PoolTyped'
    BY OwedNext, PoolTypedNext
  <2>2. \A c \in population' :
          Canonical[c] \notin Cans(ToSet(selected')) =>
            /\ ProbeLimit > 0 /\ Len(selected') = ProbeLimit
            /\ \A s \in ToSet(selected') :
                 lastTested'[Canonical[s]] <= lastTested'[Canonical[c]]
    BY <1>1, <1>4, LoadFacts
  <2>3. probed' = {} /\ pc' = pc /\ \A w \in Slots : pc[w] = "free"
    BY <1>1, <1>4 DEF Load, Quiet, workerVars
  <2>4. ASSUME NEW l \in Cans(population)' \ Cans(ToSet(selected'))
        PROVE  /\ ProbeLimit > 0 /\ Len(selected') = ProbeLimit
               /\ ProbeLimit * waited'[l] <= Cardinality(Later(l)' \ ToSet(selected'))
    <3>1. PICK c \in population' : l = Canonical[c]
      BY <2>4 DEF Cans
    <3>2. /\ ProbeLimit > 0 /\ Len(selected') = ProbeLimit
          /\ \A s \in ToSet(selected') : lastTested'[Canonical[s]] <= lastTested'[l]
      BY <2>2, <2>4, <3>1
    <3>3. \A s \in Later(l)' : s \notin ToSet(selected')
      <4>1. ASSUME NEW s \in population', lastTested'[l] < lastTested'[Canonical[s]],
                   s \in ToSet(selected')
            PROVE  FALSE
        <5>1. l \in Links /\ Canonical[s] \in Links
          BY <2>1, <3>1, <4>1, LinkFacts DEF PoolTyped
        <5>2. lastTested'[l] \in Nat /\ lastTested'[Canonical[s]] \in Nat
          BY <5>1, RotationTypedNext DEF RotationTyped
        <5>3. QED
          BY <3>2, <4>1, <5>2
      <4>2. QED
        BY <4>1 DEF Later
    <3>4. Later(l)' \ ToSet(selected') = Later(l)'
      BY <3>3
    <3>5. ProbeLimit * waited'[l] <= Cardinality(Later(l)')
      BY <2>1, <2>4 DEF Owed
    <3>6. QED
      BY <3>2, <3>4, <3>5
  <2>5. QED
    BY <2>3, <2>4 DEF PassedOver, Testing
<1>5. ASSUME NEW w \in Slots, Worker(w)
      PROVE  PassedOver'
  <2>1. /\ UNCHANGED <<stage, selected, population>>
        /\ stage = "probing"
    BY <1>1, <1>5, WorkerFrame, WorkerProbing
  <2>2. \A l \in Cans(population) \ Cans(ToSet(selected)) :
          /\ ProbeLimit > 0 /\ Len(selected) = ProbeLimit
          /\ ProbeLimit * waited[l] <= Cardinality(Later(l) \ ToSet(selected))
          /\ \A v \in Slots : pc[v] \in Testing => lastTested[l] < start[v]
          /\ \A p \in probed : lastTested[l] < lastTested[p]
    BY <1>1, <2>1 DEF PassedOver
  <2>3. /\ pc \in [Slots -> Places] /\ pc' \in [Slots -> Places]
        /\ start \in [Slots -> Nat]
        /\ \A v \in Slots \ {w} : pc'[v] = pc[v] /\ start'[v] = start[v]
        /\ clock \in Nat /\ lastTested \in [Links -> 0..clock] /\ waited \in [Links -> Nat]
        /\ Cans(population) \subseteq Links /\ ProbeLimit \in Nat
        /\ probed \subseteq Links
    BY <1>1, <1>5, WorkerAlone, LaterFacts, CycleAssumption
       DEF WorkersTyped, RotationTyped, PoolTyped
  <2>4. ASSUME NEW l \in Cans(population) \ Cans(ToSet(selected))
        PROVE  /\ lastTested'[l] = lastTested[l] /\ waited'[l] = waited[l]
               /\ \A m \in Links : lastTested[m] <= lastTested'[m]
               /\ \A p \in probed' : lastTested[l] < lastTested'[p]
               /\ \A v \in Slots : pc'[v] \in Testing => lastTested[l] < start'[v]
    <3>1. l \in Links /\ lastTested[l] \in 0..clock
      BY <2>3
    <3>2. CASE Record(w)
      <4> DEFINE c == Canonical[cand[w]]
      <4>1. /\ cand[w] \in ToSet(selected) /\ c \in Links
            /\ start[w] \in Nat /\ start[w] <= lastTested'[c]
            /\ \A m \in Links : /\ lastTested[m] \in Nat /\ lastTested'[m] \in Nat
                                /\ lastTested[m] <= lastTested'[m]
            /\ \A m \in Links \ {c} :
                 lastTested'[m] = lastTested[m] /\ waited'[m] = waited[m]
            /\ probed' = probed \cup {c}
        BY <3>2, RecordFacts
      <4>2. l # c
        BY <4>1 DEF Cans
      <4> HIDE DEF c
      <4>3. pc[w] = "recording" /\ pc'[w] = "recorded"
        BY <2>3, <3>2 DEF Record, Goes
      <4>4. lastTested[l] < start[w]
        BY <2>2, <4>3 DEF Testing
      <4>5. lastTested[l] < lastTested'[c]
        BY <3>1, <4>1, <4>4
      <4>6. ASSUME NEW p \in probed
            PROVE  lastTested[l] < lastTested'[p]
        <5>1. lastTested[l] < lastTested[p] /\ p \in Links
          BY <2>2, <2>3
        <5>2. QED
          BY <3>1, <4>1, <5>1
      <4>7. \A v \in Slots : pc'[v] \in Testing => lastTested[l] < start'[v]
        BY <2>2, <2>3, <4>3 DEF Testing
      <4>8. QED
        BY <3>1, <4>1, <4>2, <4>5, <4>6, <4>7
    <3>3. CASE ~Record(w)
      <4>1. UNCHANGED <<lastTested, probed, waited>>
        BY <1>5, <3>3, RotationFrame
      <4>2. \A m \in Links : lastTested[m] <= lastTested'[m]
        BY <2>3, <4>1
      <4>3. pc'[w] \in Testing => lastTested[l] < start'[w]
        <5>1. CASE Begin(w)
          <6>1. start'[w] = clock + 1
            BY <2>3, <5>1 DEF Begin
          <6>2. QED
            BY <2>3, <3>1, <6>1
        <5>2. CASE Limiter(w) \/ LimiterRefuses(w) \/ Retry(w) \/ BackoffCancelled(w) \/ Accept(w)
          <6>1. pc[w] \in {"limiter", "backoff", "returned"} /\ start' = start
            BY <5>2 DEF Limiter, LimiterRefuses, GivesUp, Retry, BackoffCancelled, Accept, Goes
          <6>2. QED
            BY <2>2, <6>1 DEF Testing
        <5>3. CASE Attempt(w)
          <6>1. pc[w] = "attempt" /\ start' = start
            BY <5>3 DEF Attempt, Goes
          <6>2. QED
            BY <2>2, <6>1 DEF Testing
        <5>4. CASE Dispatch(w) \/ Drop(w)
          <6>1. pc'[w] \in {"new", "free"}
            BY <2>3, <5>4 DEF Dispatch, Drop, Goes
          <6>2. QED
            BY <6>1 DEF Testing
        <5>5. CASE CompleteOne(w) \/ ReadPassed(w) \/ ReadFailed(w) \/ PublishProgress(w)
          <6>1. pc'[w] \in {"completed", "passed read", "failed read", "free"}
            BY <2>3, <5>5 DEF CompleteOne, ReadPassed, ReadFailed, PublishProgress, Goes
          <6>2. QED
            BY <6>1 DEF Testing
        <5>6. QED
          BY <1>5, <3>3, <5>1, <5>2, <5>3, <5>4, <5>5 DEF Worker
      <4>4. \A v \in Slots : pc'[v] \in Testing => lastTested[l] < start'[v]
        BY <2>2, <2>3, <4>3
      <4>5. QED
        BY <2>2, <4>1, <4>2, <4>4
    <3>4. QED
      BY <3>2, <3>3
  <2>5. ASSUME NEW l \in Cans(population) \ Cans(ToSet(selected))
        PROVE  ProbeLimit * waited'[l] <= Cardinality(Later(l)' \ ToSet(selected))
    <3>1. /\ l \in Links /\ waited[l] \in Nat
          /\ \A r \in population : Canonical[r] \in Links
      BY <1>1, <2>3, LaterFacts, LinkFacts
    <3>2. \A m \in Links : lastTested[m] \in Nat /\ lastTested'[m] \in Nat
      BY <2>3, RotationTypedNext DEF RotationTyped
    <3>3. \A r \in population :
            lastTested[l] < lastTested[Canonical[r]] => lastTested'[l] < lastTested'[Canonical[r]]
      BY <2>4, <3>1, <3>2
    <3>4. \A E : E = ToSet(selected) =>
            /\ Cardinality(Later(l) \ E) <= Cardinality(Later(l)' \ E)
            /\ Cardinality(Later(l) \ E) \in Nat /\ Cardinality(Later(l)' \ E) \in Nat
      BY <1>1, <2>1, <3>3, LaterGrows
    <3>5. ProbeLimit * waited[l] \in Nat
      BY <2>3, <3>1
    <3>6. ProbeLimit * waited[l] <= Cardinality(Later(l) \ ToSet(selected))
      BY <2>2
    <3>7. waited'[l] = waited[l]
      BY <2>4
    <3>8. QED
      BY <3>4, <3>5, <3>6, <3>7
  <2>6. /\ Cans(population)' = Cans(population)
        /\ Cans(ToSet(selected))' = Cans(ToSet(selected))
    BY <2>1 DEF Cans
  <2>7. ASSUME NEW l \in Cans(population) \ Cans(ToSet(selected))
        PROVE  \A p \in probed' : lastTested'[l] < lastTested'[p]
    BY <2>4
  <2>8. ASSUME NEW l \in Cans(population) \ Cans(ToSet(selected))
        PROVE  \A v \in Slots : pc'[v] \in Testing => lastTested'[l] < start'[v]
    BY <2>4
  <2>9. QED
    BY <2>1, <2>2, <2>5, <2>6, <2>7, <2>8 DEF PassedOver
<1>6. QED
  BY <1>2, <1>3, <1>4, <1>5, NextCases

-----------------------------------------------------------------------------
(* The theorems.                                                           *)

LEMMA NextIInv == IInv /\ [Next]_vars => IInv'
<1> SUFFICES ASSUME IInv, [Next]_vars
             PROVE  IInv'
  OBVIOUS
<1>1. CASE Next
  <2>1. Typed'
    BY <1>1, FetchTypedNext, PoolTypedNext, WorkersTypedNext, CountsTypedNext,
       RotationTypedNext DEF Typed
  <2>2. Quiet' /\ Working' /\ Counted'
    BY <1>1, QuietNext, WorkingNext, BalancedNext, PublishedNext DEF Counted
  <2>3. Rotating'
    BY <1>1, OwedNext, PassedOverNext, CoveredNext DEF Rotating
  <2>4. QED
    BY <2>1, <2>2, <2>3 DEF IInv
<1>2. CASE UNCHANGED vars
  <2>1. /\ UNCHANGED <<stage, ctxDone, left, try, links, errs, selected, next, dispatched>>
        /\ UNCHANGED <<pc, cand, start, attempt, result, seen, clock, lastTested>>
        /\ UNCHANGED <<tally, progress, completed, event, finished>>
        /\ UNCHANGED <<population, probed, waited>>
    BY <1>2 DEF vars, fetchVars, poolVars, workerVars, countVars, historyVars
  <2>2. Typed'
    BY <2>1 DEF IInv, Typed, FetchTyped, PoolTyped, WorkersTyped, CountsTyped, RotationTyped
  <2>3. Quiet'
    BY <2>1 DEF IInv, Quiet
  <2>4. Working'
    BY <2>1 DEF IInv, Working, Held, Judged, Read, Total
  <2>5. Counted'
    BY <2>1 DEF IInv, Counted, Balanced, Published, Total, InHand, Uncounted
  <2>6. Rotating'
    <3>1. Owed' /\ PassedOver'
      BY <2>1, ZenonT(30) DEF IInv, Rotating, Owed, PassedOver, Later, Cans, InHand
    <3>2. Covered'
      BY <2>1 DEF IInv, Rotating, Covered, Later, Cans, InHand
    <3>3. QED
      BY <3>1, <3>2 DEF Rotating
  <2>7. QED
    BY <2>2, <2>3, <2>4, <2>5, <2>6 DEF IInv
<1>3. QED
  BY <1>1, <1>2

LEMMA Inductive == Spec => []IInv
BY InitIInv, NextIInv, PTL DEF Spec

(* Every variable of the cycle stays in its range: no more attempts than   *)
(* the retry loop of tester/probe.go allows, nothing dispatched past the   *)
(* selection, no result counted as completed before it is counted by       *)
(* status, and no worker at it outside a running pool.                     *)
THEOREM CycleTypeCorrect == Spec => []TypeOK
<1>1. IInv => TypeOK
  <2> SUFFICES ASSUME IInv
               PROVE  TypeOK
    OBVIOUS
  <2>1. FetchTyped /\ PoolTyped /\ WorkersTyped /\ CountsTyped /\ RotationTyped
    BY DEF IInv, Typed
  <2>2. stage \in {"idle", "fetching", "probing"} /\ try \in 0..FetchAttempts - 1
    BY <2>1 DEF FetchTyped
  <2>3. ctxDone \in BOOLEAN /\ errs \in BOOLEAN /\ dispatched \in BOOLEAN
    BY <2>1 DEF FetchTyped, PoolTyped
  <2>4. ToSet(links) \subseteq Raw
    BY <2>1, LenProperties, ElementOfSeq DEF FetchTyped, ToSet
  <2>5. ToSet(selected) \subseteq Parsable /\ next \in 1..Len(selected) + 1
    BY <2>1, SelectedFacts DEF PoolTyped
  <2>6. ASSUME NEW w \in Slots
        PROVE  /\ attempt[w] \in 0..MaxRetries
               /\ stage # "probing" => pc[w] = "free"
               /\ start[w] \in 0..clock
    <3>1. start[w] \in Nat /\ start[w] <= clock /\ clock \in Nat
      BY <2>1 DEF WorkersTyped, RotationTyped, IInv, Working, Held
    <3>2. attempt[w] \in 0..MaxRetries
      BY <2>1 DEF WorkersTyped
    <3>3. stage # "probing" => pc[w] = "free"
      BY DEF IInv, Quiet
    <3>4. QED
      BY <3>1, <3>2, <3>3
  <2>7. lastTested \in [Links -> 0..clock] /\ tally \in Counts /\ progress \in Counts
    BY <2>1 DEF RotationTyped, CountsTyped
  <2>8. completed \in 0..Total(progress)
    <3>1. IsFiniteSet(Uncounted)
      BY CycleAssumption, FS_Subset DEF Uncounted
    <3>2. /\ completed \in Nat /\ Total(progress) \in Nat /\ Cardinality(Uncounted) \in Nat
          /\ completed + Cardinality(Uncounted) = Total(progress)
      BY <2>1, <3>1, FS_CardinalityType, TotalType DEF CountsTyped, IInv, Counted, Balanced
    <3>3. QED
      BY <3>2
  <2>9. QED
    BY <2>2, <2>3, <2>4, <2>5, <2>6, <2>7, <2>8 DEF TypeOK, Counts
<1>2. QED
  BY <1>1, Inductive, PTL

(* What onResult is given is evidence: the pool drops what comes back when *)
(* the context is over (pool.go:60), and every attempt that ends, for      *)
(* whatever reason, is coherent (executeAttempt, probe.go:142-310).        *)
THEOREM RecordedResultsAreEvidence == Spec => []RecordedIsEvidence
<1>1. IInv => RecordedIsEvidence
  <2> SUFFICES ASSUME IInv
               PROVE  RecordedIsEvidence
    OBVIOUS
  <2>1. ASSUME NEW claude \in BOOLEAN, NEW r \in AttemptResults[claude][ctxDone]
        PROVE  /\ r.retryable => r.status = Inconclusive
               /\ r.status = Passed => r.transport = "ok"
               /\ r.transport # "ok" => r.claude # Passed
               /\ r.gemini = r.status
    <3>1. ctxDone \in BOOLEAN
      BY DEF IInv, Typed, FetchTyped
    <3>2. r \in Results /\ Coherent(r)
      BY <3>1, AttemptResultFacts DEF SoundResult
    <3>3. r.retryable \in BOOLEAN
      BY <3>2 DEF Results
    <3>4. QED
      BY <3>2, <3>3 DEF Coherent
  <2>2. AttemptsAreCoherent
    BY <2>1 DEF AttemptsAreCoherent
  <2>3. ASSUME NEW w \in Slots, pc[w] = "recording"
        PROVE  /\ ~result[w].cancelled
               /\ result[w].gemini = result[w].status
               /\ (result[w].claude = NotProbed) = ~ClaudeEnabled
    BY <2>3 DEF IInv, Working, Judged
  <2>4. QED
    BY <2>2, <2>3 DEF RecordedIsEvidence
<1>2. QED
  BY <1>1, Inductive, PTL

(* RunPool returns true once everything is dispatched, although a worker   *)
(* may still drop its result; the scheduler's second look at the context   *)
(* (scheduler.go:551) is what makes a complete cycle a recorded one.  The  *)
(* counters of an event are read one by one (pool.go:66-88).               *)
THEOREM CompleteCyclesAreAccountedFor == Spec => []CompleteCycleIsAccountedFor
<1>1. IInv => CompleteCycleIsAccountedFor
  <2> SUFFICES ASSUME IInv
               PROVE  CompleteCycleIsAccountedFor
    OBVIOUS
  <2>1. PoolTyped /\ progress \in Counts /\ event \in Events
    BY DEF IInv, Typed, CountsTyped
  <2>2. finished.cancelled \in BOOLEAN
    BY DEF IInv, Typed, CountsTyped
  <2>3. /\ event.completed <= event.passed + event.failed + event.inconclusive
        /\ event.passed + event.failed + event.inconclusive <= Total(progress)
    BY DEF IInv, Counted, Published
  <2>4. ~finished.cancelled => finished.completed = Total(finished.counts)
    BY <2>2 DEF IInv, Counted, Published
  <2>5. IsFiniteSet(InHand)
    BY CycleAssumption, FS_Subset DEF InHand
  <2>6. /\ Cardinality(InHand) \in Nat /\ Total(progress) \in Nat
        /\ Total(progress) + Cardinality(InHand) <= next - 1
    BY <2>1, <2>5, FS_CardinalityType, TotalType DEF IInv, Counted, Balanced
  <2>7. next \in Nat /\ next <= Len(selected) + 1 /\ Len(selected) \in Nat
    BY <2>1, SelectedFacts DEF PoolTyped
  <2>8. event.passed \in Nat /\ event.failed \in Nat /\ event.inconclusive \in Nat
    BY <2>1 DEF Events
  <2>9. event.passed + event.failed + event.inconclusive <= Len(selected)
    BY <2>3, <2>6, <2>7, <2>8
  <2>10. QED
    BY <2>3, <2>4, <2>9 DEF CompleteCycleIsAccountedFor
<1>2. QED
  BY <1>1, Inductive, PTL

(* SelectCandidates (rotation.go:69) starves nobody: with N candidates     *)
(* that stay the same and K probed in a cycle, each of them is probed      *)
(* again within N/K complete cycles, rounded up, whatever other cycles are *)
(* cancelled in between and wherever.                                      *)
THEOREM RotationStarvesNobody == Spec => []NoStarvation
<1>1. IInv => NoStarvation
  <2> SUFFICES ASSUME IInv, NEW r \in population
               PROVE  waited[Canonical[r]] <
                        IF ProbeLimit = 0 THEN 1
                        ELSE (Cardinality(population) + ProbeLimit - 1) \div ProbeLimit
    BY DEF NoStarvation
  <2> DEFINE l == Canonical[r]
             n == Cardinality(population)
  <2>1. PoolTyped /\ RotationTyped /\ Owed
    BY DEF IInv, Typed, Rotating
  <2>2. /\ IsFiniteSet(population) /\ n \in Nat /\ l \in Cans(population)
        /\ l \in Links /\ ProbeLimit \in Nat
    BY <2>1, LaterFacts, CycleAssumption
  <2>3. waited[l] \in Nat /\ lastTested[l] \in Nat
    BY <2>1, <2>2 DEF RotationTyped
  <2>4. /\ ProbeLimit * waited[l] <= Cardinality(Later(l))
        /\ ProbeLimit = 0 => waited[l] = 0
    BY <2>1, <2>2 DEF Owed
  <2>5. Cardinality(Later(l)) <= n - 1 /\ Cardinality(Later(l)) \in Nat
    <3>1. PICK later, all : later = Later(l) /\ all = population
      OBVIOUS
    <3>2. r \notin Later(l)
      BY <2>3 DEF Later
    <3>3. later \in SUBSET (all \ {r})
      BY <3>1, <3>2 DEF Later
    <3>4. IsFiniteSet(all \ {r}) /\ Cardinality(all \ {r}) = Cardinality(all) - 1
      BY <2>2, <3>1, FS_RemoveElement
    <3>5. Cardinality(later) <= Cardinality(all \ {r}) /\ IsFiniteSet(later)
      BY <3>3, <3>4, FS_Subset
    <3>6. Cardinality(later) \in Nat
      BY <3>5, FS_CardinalityType
    <3>7. QED
      BY <3>1, <3>4, <3>5, <3>6
  <2> HIDE DEF n
  <2>6. CASE ProbeLimit = 0
    BY <2>4, <2>6
  <2>7. CASE ProbeLimit # 0
    <3>1. ProbeLimit > 0 /\ ProbeLimit * waited[l] \in Nat
      BY <2>2, <2>3, <2>7
    <3>2. ProbeLimit * waited[l] < n
      BY <2>2, <2>4, <2>5, <3>1
    <3>3. \A w : w = waited[l] => w < (n + ProbeLimit - 1) \div ProbeLimit
      BY <2>2, <2>3, <3>1, <3>2, WaitBound
    <3>4. QED
      BY <2>7, <3>3 DEF n
  <2>8. QED
    BY <2>6, <2>7
<1>2. QED
  BY <1>1, Inductive, PTL
=============================================================================
