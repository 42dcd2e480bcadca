-------------------------- MODULE DashboardProofs --------------------------
(***************************************************************************)
(* What holds of the candidate view for every number of links, every page  *)
(* and every set of filters: the presentation IDs stay one for each link,  *)
(* the cursor stays on the page, and what y copies is what is shown.       *)
(*                                                                         *)
(* A row on the screen, in a snapshot that is not applied yet, or pinned   *)
(* as a detail, keeps an ID for as long as nobody asks.  Meanwhile the ID  *)
(* may be forgotten, and its link named anew: the rows stay honest because *)
(* the counter never goes back, so that a forgotten ID names nothing ever  *)
(* after.  That the map of IDs only loses or keeps the IDs up to an older  *)
(* count is the relation Later below, and every handler is a chain of it.  *)
(***************************************************************************)
EXTENDS Dashboard, SequenceTheorems, FiniteSetTheorems, WellFoundedInduction, TLAPS

(* A row of the index, and one that is shown.                              *)
IndexRow == [link : Links, tier : 1..3]
ShownRow == [id : Nat, link : Links, tier : 1..3]

(* linkToID and idToLink are each other's inverse, and hold no ID that the *)
(* counter has not reached.                                                *)
IDMaps(given) ==
  /\ given.counter \in Nat
  /\ \A l \in DOMAIN given.linkToID :
       /\ given.linkToID[l] \in 1..given.counter
       /\ given.linkToID[l] \in DOMAIN given.idToLink
       /\ given.idToLink[given.linkToID[l]] = l
  /\ \A i \in DOMAIN given.idToLink :
       /\ given.idToLink[i] \in DOMAIN given.linkToID
       /\ given.linkToID[given.idToLink[i]] = i

(* What was given since: an old ID is forgotten or names the same link.    *)
Later(given, new) ==
  /\ given.counter <= new.counter
  /\ \A i \in 1..given.counter :
       i \in DOMAIN new.idToLink =>
         i \in DOMAIN given.idToLink /\ new.idToLink[i] = given.idToLink[i]

(* The ID of a row names no other link.                                    *)
Honest(row, given) ==
  /\ row.id \in 1..given.counter
  /\ row.id \in DOMAIN given.idToLink => given.idToLink[row.id] = row.link

HonestRows(rows, given) == \A i \in 1..Len(rows) : Honest(rows[i], given)

-----------------------------------------------------------------------------
(* The maps.                                                               *)

LEMMA LaterHonest ==
  ASSUME NEW given, IDMaps(given), NEW new, IDMaps(new), Later(given, new),
         NEW row, Honest(row, given)
  PROVE  Honest(row, new)
<1>1. given.counter \in Nat /\ new.counter \in Nat /\ given.counter <= new.counter
  BY DEF IDMaps, Later
<1>2. row.id \in 1..given.counter /\ row.id \in 1..new.counter
  BY <1>1 DEF Honest
<1>3. QED
  BY <1>2 DEF Honest, Later

LEMMA LaterHonestRows ==
  ASSUME NEW given, IDMaps(given), NEW new, IDMaps(new), Later(given, new),
         NEW rows, HonestRows(rows, given)
  PROVE  HonestRows(rows, new)
BY LaterHonest DEF HonestRows

LEMMA LaterSelf ==
  ASSUME NEW given, IDMaps(given)
  PROVE  Later(given, given)
BY DEF IDMaps, Later

LEMMA LaterChain ==
  ASSUME NEW a, IDMaps(a), NEW b, IDMaps(b), NEW c, IDMaps(c),
         Later(a, b), Later(b, c)
  PROVE  Later(a, c)
<1>1. /\ a.counter \in Nat /\ b.counter \in Nat /\ c.counter \in Nat
      /\ a.counter <= b.counter /\ b.counter <= c.counter
  BY DEF IDMaps, Later
<1>2. ASSUME NEW i \in 1..a.counter, i \in DOMAIN c.idToLink
      PROVE  i \in DOMAIN a.idToLink /\ c.idToLink[i] = a.idToLink[i]
  <2>1. i \in 1..b.counter
    BY <1>1
  <2>2. i \in DOMAIN b.idToLink /\ c.idToLink[i] = b.idToLink[i]
    BY <1>2, <2>1 DEF Later
  <2>3. QED
    BY <2>2 DEF Later
<1>3. QED
  BY <1>1, <1>2 DEF Later

(* A new link gets an ID that no row has seen (adapter.go:697-711).        *)
LEMMA AssignedFacts ==
  ASSUME NEW given, IDMaps(given), NEW row
  PROVE  LET new == AssignID(given, row)
         IN  /\ IDMaps(new) /\ Later(given, new)
             /\ row.link \in DOMAIN new.linkToID
             /\ DOMAIN given.linkToID \subseteq DOMAIN new.linkToID
<1> DEFINE new == AssignID(given, row)
           id == given.counter + 1
<1>1. CASE row.link \in DOMAIN given.linkToID
  BY <1>1, LaterSelf DEF AssignID
<1>2. CASE row.link \notin DOMAIN given.linkToID
  <2>1. /\ new.counter = id
        /\ new.linkToID = With(given.linkToID, row.link, id)
        /\ new.idToLink = With(given.idToLink, id, row.link)
    BY <1>2 DEF AssignID
  <2>2. /\ given.counter \in Nat /\ id \in Nat /\ id \notin 1..given.counter
        /\ \A i \in 1..given.counter : i \in 1..id
    BY DEF IDMaps
  <2>3. id \notin DOMAIN given.idToLink
    BY <2>2 DEF IDMaps
  <2> HIDE DEF new, id
  <2>4. /\ DOMAIN new.linkToID = {row.link} \cup DOMAIN given.linkToID
        /\ new.linkToID[row.link] = id
        /\ \A l \in DOMAIN given.linkToID : new.linkToID[l] = given.linkToID[l]
    BY <1>2, <2>1 DEF With
  <2>5. /\ DOMAIN new.idToLink = {id} \cup DOMAIN given.idToLink
        /\ new.idToLink[id] = row.link
        /\ \A i \in DOMAIN given.idToLink : new.idToLink[i] = given.idToLink[i]
    BY <2>1, <2>3 DEF With
  <2>6. given.counter <= id /\ id \in 1..id
    BY <2>2 DEF id
  <2>7. IDMaps(new)
    BY <2>1, <2>2, <2>4, <2>5, <2>6 DEF IDMaps
  <2>8. Later(given, new)
    BY <2>1, <2>2, <2>5, <2>6 DEF Later
  <2>9. QED
    BY <2>4, <2>7, <2>8 DEF new
<1>3. QED
  BY <1>1, <1>2

(* What is forgotten is forgotten both ways (adapter.go:385-426).          *)
LEMMA PrunedFacts ==
  ASSUME IDMaps(ids)
  PROVE  IDMaps(Pruned) /\ Later(ids, Pruned)
<1> DEFINE kept == DOMAIN ids.linkToID \cap Recorded(records)
           named == {ids.linkToID[l] : l \in kept}
<1>1. /\ Pruned.counter = ids.counter
      /\ Pruned.linkToID = Restrict(ids.linkToID, kept)
      /\ Pruned.idToLink = Restrict(ids.idToLink, named)
  BY DEF Pruned
<1>2. /\ DOMAIN Pruned.linkToID = kept
      /\ \A l \in kept : Pruned.linkToID[l] = ids.linkToID[l]
      /\ DOMAIN Pruned.idToLink = named
      /\ \A i \in named : Pruned.idToLink[i] = ids.idToLink[i]
  BY <1>1 DEF Restrict
<1>3. \A i \in named : ids.idToLink[i] \in kept
  BY DEF IDMaps
<1>4. \A l \in kept : /\ ids.linkToID[l] \in 1..ids.counter
                       /\ ids.linkToID[l] \in named
                       /\ ids.idToLink[ids.linkToID[l]] = l
  BY DEF IDMaps
<1>5. \A i \in named : ids.linkToID[ids.idToLink[i]] = i /\ i \in DOMAIN ids.idToLink
  BY DEF IDMaps
<1> HIDE DEF kept, named
<1>6. IDMaps(Pruned)
  BY <1>1, <1>2, <1>3, <1>4, <1>5 DEF IDMaps
<1>7. Later(ids, Pruned)
  BY <1>1, <1>2, <1>5 DEF IDMaps, Later
<1>8. QED
  BY <1>6, <1>7

-----------------------------------------------------------------------------
(* Rows.                                                                   *)

LEMMA LessThanIsWellFounded ==
  \E R : /\ IsWellFoundedOn(R, Nat)
         /\ \A m, n \in Nat : m < n => <<m, n>> \in R
<1>1. IsWellFoundedOn({p \in Nat \X Nat : p[1] < p[2]}, Nat)
  BY NatLessThanWellFounded DEF OpToRel
<1>2. QED
  BY <1>1

LEMMA SetInduction ==
  ASSUME NEW S, 0 \in S, \A n \in Nat : n \in S => n + 1 \in S
  PROVE  Nat \subseteq S
<1> SUFFICES ASSUME Nat \ S # {} PROVE FALSE
  OBVIOUS
<1>1. PICK R : /\ IsWellFoundedOn(R, Nat)
               /\ \A m, n \in Nat : m < n => <<m, n>> \in R
  BY LessThanIsWellFounded
<1> DEFINE T == Nat \ S
<1>2. T \subseteq Nat /\ T # {} /\ IsWellFoundedOn(R, Nat)
  BY <1>1
<1> HIDE DEF T
<1>3. PICK x \in T : \A y \in T : ~ (<<y, x>> \in R)
  BY <1>2, WFMin, Zenon
<1> USE DEF T
<1>4. x # 0 /\ x \in Nat
  BY <1>3
<1>5. x - 1 \in Nat /\ x - 1 < x
  BY <1>4
<1>6. x - 1 \in S
  BY <1>1, <1>3, <1>4, <1>5
<1>7. QED
  BY <1>3, <1>4, <1>5, <1>6

(* f is the maps after each of the first n rows.                           *)
IsNaming(f, given, rows, n) ==
  f = [i \in 0..n |-> IF i = 0 THEN given ELSE AssignID(f[i - 1], rows[i])]

LEMMA NamingExists ==
  ASSUME NEW given, NEW rows
  PROVE  \A n \in Nat : \E f : IsNaming(f, given, rows, n)
<1> DEFINE S == {n \in Nat : \E f : IsNaming(f, given, rows, n)}
<1>1. 0 \in S
  <2> DEFINE f == [i \in 0..0 |-> given]
  <2>1. f = [i \in 0..0 |-> IF i = 0 THEN given ELSE AssignID(f[i - 1], rows[i])]
    OBVIOUS
  <2> HIDE DEF f
  <2>2. QED
    BY <2>1 DEF IsNaming
<1>2. ASSUME NEW n \in Nat, n \in S
      PROVE  n + 1 \in S
  <2>1. PICK f : IsNaming(f, given, rows, n)
    BY <1>2
  <2> DEFINE next == AssignID(f[n], rows[n + 1])
             g == [i \in 0..n + 1 |-> IF i = n + 1 THEN next ELSE f[i]]
             value(i) == IF i = 0 THEN given ELSE AssignID(g[i - 1], rows[i])
  <2>2. ASSUME NEW i \in 0..n + 1
        PROVE  g[i] = value(i)
    <3>1. CASE i = n + 1
      BY <3>1
    <3>2. CASE i \in 1..n
      <4>1. g[i] = f[i] /\ g[i - 1] = f[i - 1]
        BY <3>2
      <4>2. f[i] = AssignID(f[i - 1], rows[i])
        BY <2>1, <3>2 DEF IsNaming
      <4>3. QED
        BY <3>2, <4>1, <4>2
    <3>3. CASE i = 0
      <4>1. f[0] = given
        BY <2>1 DEF IsNaming
      <4>2. QED
        BY <3>3, <4>1
    <3>4. QED
      BY <3>1, <3>2, <3>3
  <2>3. g = [i \in 0..n + 1 |-> g[i]]
    OBVIOUS
  <2> HIDE DEF g
  <2>4. g = [i \in 0..n + 1 |-> value(i)]
    BY <2>2, <2>3
  <2>5. IsNaming(g, given, rows, n + 1)
    BY <2>4 DEF IsNaming
  <2>6. QED
    BY <2>5
<1> HIDE DEF S
<1>3. Nat \subseteq S
  BY <1>1, <1>2, SetInduction
<1>4. QED
  BY <1>3 DEF S

(* Fetching rows gives each of them an ID and takes none back.             *)
LEMMA NamedFacts ==
  ASSUME NEW given, IDMaps(given), NEW rows, Len(rows) \in Nat
  PROVE  LET new == Named(given, rows)
         IN  /\ IDMaps(new) /\ Later(given, new)
             /\ \A i \in 1..Len(rows) : rows[i].link \in DOMAIN new.linkToID
<1> DEFINE n == Len(rows)
           isNaming(f) == IsNaming(f, given, rows, n)
           f == CHOOSE f : isNaming(f)
<1>1. isNaming(f)
  BY NamingExists
<1>2. Named(given, rows) = f[n]
  BY DEF Named, IsNaming
<1> HIDE DEF n, f
<1>3. n \in Nat
  BY DEF n
<1>4. f[0] = given /\ \A i \in 1..n : f[i] = AssignID(f[i - 1], rows[i])
  BY <1>1, <1>3 DEF IsNaming
<1> DEFINE good(i) == /\ IDMaps(f[i]) /\ Later(given, f[i])
                      /\ \A j \in 1..i : rows[j].link \in DOMAIN f[i].linkToID
           S == {i \in Nat : i <= n => good(i)}
<1>5. 0 \in S
  BY <1>4, LaterSelf
<1>6. ASSUME NEW i \in Nat, i \in S
      PROVE  i + 1 \in S
  <2>1. SUFFICES ASSUME i + 1 <= n
                 PROVE  good(i + 1)
    OBVIOUS
  <2>2. i <= n /\ i + 1 \in 1..n /\ (i + 1) - 1 = i
    BY <1>3, <2>1
  <2>3. good(i)
    BY <1>6, <2>2
  <2> DEFINE a == f[i]
             b == f[i + 1]
  <2>4. b = AssignID(a, rows[i + 1])
    BY <1>4, <2>2
  <2>5. IDMaps(a) /\ Later(given, a) /\ \A j \in 1..i : rows[j].link \in DOMAIN a.linkToID
    BY <2>3
  <2> HIDE DEF a, b
  <2>6. /\ IDMaps(b) /\ Later(a, b)
        /\ rows[i + 1].link \in DOMAIN b.linkToID
        /\ DOMAIN a.linkToID \subseteq DOMAIN b.linkToID
    BY <2>4, <2>5, AssignedFacts
  <2>7. Later(given, b)
    BY <2>5, <2>6, LaterChain
  <2>8. ASSUME NEW j \in 1..i + 1
        PROVE  rows[j].link \in DOMAIN b.linkToID
    <3>1. j = i + 1 \/ j \in 1..i
      OBVIOUS
    <3>2. QED
      BY <2>5, <2>6, <3>1
  <2>9. QED
    BY <2>6, <2>7, <2>8 DEF b
<1> HIDE DEF S
<1>7. Nat \subseteq S
  BY <1>5, <1>6, SetInduction
<1>8. good(n)
  BY <1>3, <1>7 DEF S
<1>9. QED
  BY <1>2, <1>8 DEF n

(* f is the rows of some tiers among each of the first n rows.             *)
Extended(q, row, tiers) == IF row.tier \in tiers THEN Append(q, row) ELSE q

IsSelection(f, rows, tiers, n) ==
  f = [i \in 0..n |-> IF i = 0 THEN <<>> ELSE Extended(f[i - 1], rows[i], tiers)]

LEMMA SelectionExists ==
  ASSUME NEW rows, NEW tiers
  PROVE  \A n \in Nat : \E f : IsSelection(f, rows, tiers, n)
<1> DEFINE S == {n \in Nat : \E f : IsSelection(f, rows, tiers, n)}
           add(q, i) == Extended(q, rows[i], tiers)
<1>1. 0 \in S
  <2> DEFINE f == [i \in 0..0 |-> <<>>]
  <2>1. f = [i \in 0..0 |-> IF i = 0 THEN <<>> ELSE add(f[i - 1], i)]
    OBVIOUS
  <2> HIDE DEF f
  <2>2. QED
    BY <2>1 DEF IsSelection
<1>2. ASSUME NEW n \in Nat, n \in S
      PROVE  n + 1 \in S
  <2>1. PICK f : IsSelection(f, rows, tiers, n)
    BY <1>2
  <2> DEFINE next == add(f[n], n + 1)
             g == [i \in 0..n + 1 |-> IF i = n + 1 THEN next ELSE f[i]]
             value(i) == IF i = 0 THEN <<>> ELSE add(g[i - 1], i)
  <2>2. ASSUME NEW i \in 0..n + 1
        PROVE  g[i] = value(i)
    <3>1. CASE i = n + 1
      BY <3>1
    <3>2. CASE i \in 1..n
      <4>1. g[i] = f[i] /\ g[i - 1] = f[i - 1]
        BY <3>2
      <4>2. f[i] = add(f[i - 1], i)
        BY <2>1, <3>2 DEF IsSelection
      <4>3. QED
        BY <3>2, <4>1, <4>2
    <3>3. CASE i = 0
      <4>1. f[0] = <<>>
        BY <2>1 DEF IsSelection
      <4>2. QED
        BY <3>3, <4>1
    <3>4. QED
      BY <3>1, <3>2, <3>3
  <2>3. g = [i \in 0..n + 1 |-> g[i]]
    OBVIOUS
  <2> HIDE DEF g
  <2>4. g = [i \in 0..n + 1 |-> value(i)]
    BY <2>2, <2>3
  <2>5. IsSelection(g, rows, tiers, n + 1)
    BY <2>4 DEF IsSelection
  <2>6. QED
    BY <2>5
<1> HIDE DEF S
<1>3. Nat \subseteq S
  BY <1>1, <1>2, SetInduction
<1>4. QED
  BY <1>3 DEF S

LEMMA OfTiersType ==
  ASSUME NEW rows, Len(rows) \in Nat, NEW tiers, NEW U,
         \A i \in 1..Len(rows) : rows[i].tier \in tiers => rows[i] \in U
  PROVE  OfTiers(rows, tiers) \in Seq(U)
<1> DEFINE n == Len(rows)
           isSelection(f) == IsSelection(f, rows, tiers, n)
           f == CHOOSE f : isSelection(f)
<1>1. isSelection(f)
  BY SelectionExists
<1>2. OfTiers(rows, tiers) = f[n]
  BY DEF OfTiers, IsSelection, Extended
<1> HIDE DEF n, f
<1>3. n \in Nat
  BY DEF n
<1>4. /\ f[0] = <<>>
      /\ \A i \in 1..n : f[i] = Extended(f[i - 1], rows[i], tiers)
  BY <1>1, <1>3 DEF IsSelection
<1> DEFINE S == {i \in Nat : i <= n => f[i] \in Seq(U)}
<1>5. 0 \in S
  BY <1>4, EmptySeq
<1>6. ASSUME NEW i \in Nat, i \in S
      PROVE  i + 1 \in S
  <2>1. SUFFICES ASSUME i + 1 <= n
                 PROVE  f[i + 1] \in Seq(U)
    OBVIOUS
  <2>2. i <= n /\ i + 1 \in 1..n /\ (i + 1) - 1 = i
    BY <1>3, <2>1
  <2>3. f[i] \in Seq(U)
    BY <1>6, <2>2
  <2>4. f[i + 1] = Extended(f[i], rows[i + 1], tiers)
    BY <1>4, <2>2
  <2>5. rows[i + 1].tier \in tiers => rows[i + 1] \in U
    BY <2>2 DEF n
  <2>6. QED
    BY <2>3, <2>4, <2>5, AppendProperties DEF Extended
<1> HIDE DEF S
<1>7. Nat \subseteq S
  BY <1>5, <1>6, SetInduction
<1>8. QED
  BY <1>2, <1>3, <1>7 DEF S

LEMMA RankedType ==
  ASSUME NEW recs \in [Links -> Tiers \cup {0}]
  PROVE  Ranked(recs) \in Seq(IndexRow)
<1> DEFINE all == [l \in Links |-> [link |-> l, tier |-> recs[l]]]
<1>1. /\ Len(all) = N /\ N \in Nat
      /\ \A l \in 1..N : all[l] = [link |-> l, tier |-> recs[l]]
  BY DashboardAssumption DEF Links
<1> HIDE DEF all
<1>2. ASSUME NEW t \in 1..3
      PROVE  OfTiers(all, {t}) \in Seq(IndexRow)
  <2>1. \A l \in 1..Len(all) : all[l].tier \in {t} => all[l] \in IndexRow
    BY <1>1 DEF IndexRow, Links
  <2>2. QED
    BY <1>1, <2>1, OfTiersType
<1>3. /\ OfTiers(all, {1}) \in Seq(IndexRow) /\ OfTiers(all, {2}) \in Seq(IndexRow)
      /\ OfTiers(all, {3}) \in Seq(IndexRow)
  BY <1>2
<1>4. QED
  BY <1>3, ConcatProperties DEF Ranked, all

LEMMA FilteredType ==
  ASSUME NEW rows \in Seq(IndexRow), NEW filter
  PROVE  Filtered(rows, filter) \in Seq(IndexRow)
<1>1. Len(rows) \in Nat /\ \A i \in 1..Len(rows) : rows[i] \in IndexRow
  BY LenProperties, ElementOfSeq
<1>2. QED
  BY <1>1, OfTiersType DEF Filtered

(* A window shows rows of the list it is cut from.                         *)
LEMMA WindowFacts ==
  ASSUME NEW T, NEW rows \in Seq(T), NEW offset \in Nat, NEW limit \in Nat
  PROVE  LET window == Window(rows, offset, limit)
         IN  /\ window \in Seq(T) /\ Len(window) \in Nat
             /\ \A i \in 1..Len(window) : \E j \in 1..Len(rows) : window[i] = rows[j]
<1> DEFINE from == offset + 1
           to == IF offset + limit < Len(rows) THEN offset + limit ELSE Len(rows)
           window == SubSeq(rows, from, to)
<1>1. Len(rows) \in Nat /\ \A i \in 1..Len(rows) : rows[i] \in T
  BY LenProperties, ElementOfSeq
<1>2. from \in Nat \ {0} /\ to \in Nat /\ to <= Len(rows)
  BY <1>1
<1>3. Window(rows, offset, limit) = window
  BY DEF Window
<1> HIDE DEF from, to, window
<1>4. \A i \in from..to : i \in 1..Len(rows) /\ rows[i] \in T
  BY <1>1, <1>2
<1>5. /\ window \in Seq(T)
      /\ Len(window) = IF from <= to THEN to - from + 1 ELSE 0
      /\ \A i \in 1..to - from + 1 : window[i] = rows[from + i - 1]
  BY <1>2, <1>4, SubSeqProperties DEF window
<1>6. ASSUME NEW i \in 1..Len(window)
      PROVE  \E j \in 1..Len(rows) : window[i] = rows[j]
  <2>1. i \in 1..to - from + 1 /\ from + i - 1 \in from..to
    BY <1>2, <1>5
  <2>2. QED
    BY <1>4, <1>5, <2>1
<1>7. Len(window) \in Nat
  BY <1>2, <1>5
<1>8. QED
  BY <1>3, <1>5, <1>6, <1>7

(* The rows of a fetch carry the IDs they were given.                      *)
LEMMA ShownFacts ==
  ASSUME NEW rows \in Seq(IndexRow), NEW given, IDMaps(given),
         \A i \in 1..Len(rows) : rows[i].link \in DOMAIN given.linkToID
  PROVE  Shown(rows, given) \in Seq(ShownRow) /\ HonestRows(Shown(rows, given), given)
<1> DEFINE n == Len(rows)
           row(i) == [id |-> given.linkToID[rows[i].link], link |-> rows[i].link,
                      tier |-> rows[i].tier]
<1>1. n \in Nat /\ DOMAIN rows = 1..n /\ \A i \in 1..n : rows[i] \in IndexRow
  BY LenProperties, ElementOfSeq
<1>2. ASSUME NEW i \in 1..n
      PROVE  row(i) \in ShownRow /\ Honest(row(i), given)
  <2> DEFINE l == rows[i].link
  <2>1. /\ given.linkToID[l] \in 1..given.counter /\ given.counter \in Nat
        /\ given.idToLink[given.linkToID[l]] = l
    BY <1>2 DEF IDMaps
  <2>2. rows[i].link \in Links /\ rows[i].tier \in 1..3
    BY <1>1 DEF IndexRow
  <2>3. row(i) \in ShownRow
    BY <2>1, <2>2 DEF ShownRow
  <2>4. Honest(row(i), given)
    BY <2>1 DEF Honest
  <2>5. QED
    BY <2>3, <2>4
<1>3. Shown(rows, given) = [i \in 1..n |-> row(i)]
  BY <1>1 DEF Shown
<1> HIDE DEF n, row
<1>4. /\ Shown(rows, given) \in Seq(ShownRow) /\ Len(Shown(rows, given)) = n
      /\ \A i \in 1..n : Shown(rows, given)[i] = row(i)
  BY <1>1, <1>2, <1>3
<1>5. QED
  BY <1>2, <1>4 DEF HonestRows

(* The offset follows the cursor (model.go:1262-1281).                     *)
LEMMA ScrollFacts ==
  ASSUME NEW cursor \in Nat, NEW offset \in Nat, NEW total \in Nat,
         cursor = 0 \/ cursor < total
  PROVE  LET moved == Scroll(cursor, offset, total)
         IN  moved \in Nat /\ moved <= cursor /\ cursor < moved + Visible
<1>1. Visible \in Nat /\ Visible > 0
  BY DashboardAssumption
<1>2. CASE cursor < offset
  BY <1>1, <1>2 DEF Scroll
<1>3. CASE cursor >= offset + Visible
  BY <1>1, <1>3 DEF Scroll
<1>4. CASE cursor >= offset /\ cursor < offset + Visible
  BY <1>1, <1>4 DEF Scroll
<1>5. QED
  BY <1>1, <1>2, <1>3, <1>4

-----------------------------------------------------------------------------
(* The inductive invariant.                                                *)

FilterNo == 1..Len(Filters)

TaskType ==
  [pc : {"idle", "check", "index", "install", "apply"},
   force : BOOLEAN, reset : BOOLEAN, second : BOOLEAN, filter : FilterNo, rev : Nat,
   rows : Seq(IndexRow), total : Nat, window : Seq(ShownRow)]

(* The index is of a revision the store has had.                           *)
Stored ==
  /\ records \in [Links -> Tiers \cup {0}]
  /\ rev \in Nat /\ lastRevision \in Nat /\ lastRevision <= rev
  /\ cache \in [rows : Seq(IndexRow), rev : Nat] /\ cache.rev <= rev

Handling == task \in TaskType /\ task.rev <= rev

Showing ==
  /\ view \in [filter : FilterNo, total : Nat, cursor : Nat, offset : Nat,
               rows : Seq(ShownRow)]
  /\ view.offset <= view.cursor /\ view.cursor < view.offset + Visible
  /\ view.cursor = 0 \/ view.cursor < view.total

(* Whatever keeps an ID is honest: the snapshot that is being made, the    *)
(* page, and the pinned detail.                                            *)
Naming ==
  /\ IDMaps(ids)
  /\ HonestRows(task.window, ids) /\ HonestRows(view.rows, ids)
  /\ detail \in [id : Nat, link : Nat]
  /\ detail.link # None => Honest(detail, ids)

IInv == Stored /\ Handling /\ Showing /\ Naming

LEMMA FilterFacts ==
  /\ 1 \in FilterNo
  /\ \A filter \in FilterNo : (filter % Len(Filters)) + 1 \in FilterNo
BY DashboardAssumption DEF FilterNo

LEMMA NoRows == <<>> \in Seq(IndexRow) /\ <<>> \in Seq(ShownRow) /\ Len(<<>>) = 0
BY EmptySeq

LEMMA NoTaskFacts ==
  NoTask \in TaskType /\ NoTask.rev = 0 /\ NoTask.window = <<>> /\ NoTask.pc = "idle"
BY NoRows, FilterFacts DEF NoTask, TaskType

(* Rows fetched from the index as it is now (adapter.go:672-711).          *)
LEMMA FetchedFacts ==
  ASSUME NEW rows \in Seq(IndexRow), NEW offset \in Nat, NEW limit \in Nat,
         NEW given, IDMaps(given)
  PROVE  LET fetched == Window(rows, offset, limit)
             named == Named(given, fetched)
         IN  /\ fetched \in Seq(IndexRow)
             /\ IDMaps(named) /\ Later(given, named)
             /\ Shown(fetched, named) \in Seq(ShownRow)
             /\ HonestRows(Shown(fetched, named), named)
<1> DEFINE fetched == Window(rows, offset, limit)
           named == Named(given, fetched)
<1>1. fetched \in Seq(IndexRow) /\ Len(fetched) \in Nat
  BY WindowFacts
<1> HIDE DEF fetched
<1>2. /\ IDMaps(named) /\ Later(given, named)
      /\ \A i \in 1..Len(fetched) : fetched[i].link \in DOMAIN named.linkToID
  BY <1>1, NamedFacts
<1> HIDE DEF named
<1>3. Shown(fetched, named) \in Seq(ShownRow) /\ HonestRows(Shown(fetched, named), named)
  BY <1>1, <1>2, ShownFacts
<1>4. QED
  BY <1>1, <1>2, <1>3 DEF fetched, named

LEMMA RefreshedFacts ==
  ASSUME Stored, IDMaps(ids), NEW filter, NEW offset \in Nat
  PROVE  LET page == Refreshed(filter, offset)
         IN  /\ IDMaps(page.ids) /\ Later(ids, page.ids)
             /\ page.rows \in Seq(ShownRow) /\ HonestRows(page.rows, page.ids)
<1> DEFINE rows == Filtered(cache.rows, filter)
           fetched == Window(rows, offset, Visible)
           named == Named(ids, fetched)
<1>1. rows \in Seq(IndexRow) /\ Visible \in Nat
  BY FilteredType, DashboardAssumption DEF Stored
<1>2. Refreshed(filter, offset) = [ids |-> named, rows |-> Shown(fetched, named)]
  BY DEF Refreshed
<1> HIDE DEF rows
<1>3. /\ IDMaps(named) /\ Later(ids, named)
      /\ Shown(fetched, named) \in Seq(ShownRow)
      /\ HonestRows(Shown(fetched, named), named)
  BY <1>1, FetchedFacts
<1> HIDE DEF fetched, named
<1>4. QED
  BY <1>2, <1>3

(* A step that renames nothing.                                            *)
LEMMA NamingUnchanged ==
  ASSUME Naming, UNCHANGED <<ids, view, detail>>, task'.window \in {<<>>, task.window}
  PROVE  Naming'
<1>1. HonestRows(task'.window, ids)
  BY NoRows DEF Naming, HonestRows
<1>2. QED
  BY <1>1 DEF Naming

LEMMA NoIDsFacts == IDMaps(NoIDs)
<1>1. DOMAIN NoIDs.linkToID = {} /\ DOMAIN NoIDs.idToLink = {} /\ NoIDs.counter = 0
  BY DEF NoIDs
<1>2. QED
  BY <1>1 DEF IDMaps

LEMMA InitIInv == Init => IInv
<1> SUFFICES ASSUME Init
             PROVE  IInv
  OBVIOUS
<1> DEFINE index == Ranked(records)
           first == Window(index, 0, Fetched)
           page == Window(first, 0, Visible)
<1>1. /\ records \in [Links -> Tiers \cup {0}] /\ rev = 0 /\ lastRevision = 0
      /\ cache = [rows |-> index, rev |-> 0]
      /\ ids = Named(NoIDs, first)
      /\ view = [filter |-> 1, total |-> Len(index), cursor |-> 0, offset |-> 0,
                 rows |-> Shown(page, ids)]
      /\ task = NoTask /\ detail = [id |-> None, link |-> None]
  BY DashboardAssumption DEF Init, Links
<1>2. index \in Seq(IndexRow) /\ Len(index) \in Nat
  BY <1>1, RankedType, LenProperties
<1>3. Fetched \in Nat /\ Visible \in Nat /\ Visible > 0
  BY DashboardAssumption
<1> HIDE DEF index
<1>4. first \in Seq(IndexRow) /\ Len(first) \in Nat
  BY <1>2, <1>3, WindowFacts
<1> HIDE DEF first
<1>5. /\ IDMaps(ids)
      /\ \A i \in 1..Len(first) : first[i].link \in DOMAIN ids.linkToID
  BY <1>1, <1>4, NoIDsFacts, NamedFacts
<1>6. /\ page \in Seq(IndexRow)
      /\ \A i \in 1..Len(page) : \E j \in 1..Len(first) : page[i] = first[j]
  BY <1>3, <1>4, WindowFacts
<1> HIDE DEF page
<1>7. Shown(page, ids) \in Seq(ShownRow) /\ HonestRows(Shown(page, ids), ids)
  BY <1>5, <1>6, ShownFacts
<1>8. Stored
  BY <1>1, <1>2 DEF Stored
<1>9. Handling
  BY <1>1, NoTaskFacts DEF Handling
<1>10. Showing
  BY <1>1, <1>2, <1>3, <1>7, FilterFacts DEF Showing
<1>11. Naming
  BY <1>1, <1>5, <1>7, NoTaskFacts, NoRows DEF Naming, HonestRows, None
<1>12. QED
  BY <1>8, <1>9, <1>10, <1>11 DEF IInv

-----------------------------------------------------------------------------
(* The steps.                                                              *)

(* What is left of buildSnapshot once there is an index                    *)
(* (adapter.go:294-358).                                                   *)
LEMMA ContinueFacts ==
  ASSUME NEW index, index.rows \in Seq(IndexRow), NEW given, IDMaps(given),
         NEW next \in TaskType, HonestRows(next.window, given),
         Continue(index, given, next)
  PROVE  /\ task' \in TaskType /\ task'.rev = next.rev
         /\ IDMaps(ids') /\ Later(given, ids')
         /\ HonestRows(task'.window, ids')
<1>1. CASE task.second
  <2>1. ids' = given /\ task' = [next EXCEPT !.pc = "apply"]
    BY <1>1 DEF Continue, Header
  <2>2. task' \in TaskType /\ task'.rev = next.rev /\ task'.window = next.window
    BY <2>1 DEF TaskType
  <2>3. QED
    BY <2>1, <2>2, LaterSelf
<1>2. CASE ~task.second
  <2> DEFINE rows == Filtered(index.rows, task.filter)
             fetched == Window(rows, 0, Fetched)
             named == Named(given, fetched)
             shown == Shown(fetched, named)
  <2>1. /\ ids' = named
        /\ task' = [next EXCEPT !.pc = "check", !.second = TRUE, !.force = FALSE,
                                !.total = Len(rows), !.window = shown]
    BY <1>2 DEF Continue, TakeRows
  <2>2. rows \in Seq(IndexRow) /\ Len(rows) \in Nat /\ Fetched \in Nat
    BY FilteredType, LenProperties, DashboardAssumption
  <2> HIDE DEF rows
  <2>3. /\ IDMaps(named) /\ Later(given, named)
        /\ shown \in Seq(ShownRow) /\ HonestRows(shown, named)
    BY <2>2, FetchedFacts
  <2> HIDE DEF fetched, named, shown
  <2>4. task' \in TaskType /\ task'.rev = next.rev /\ task'.window = shown
    BY <2>1, <2>2, <2>3 DEF TaskType
  <2>5. QED
    BY <2>1, <2>3, <2>4
<1>3. QED
  BY <1>1, <1>2

(* What keeps an ID stays honest when the maps are those of a later time.  *)
LEMMA LaterNaming ==
  ASSUME Naming, IDMaps(ids'), Later(ids, ids'), UNCHANGED <<view, detail>>,
         HonestRows(task'.window, ids')
  PROVE  Naming'
<1>1. HonestRows(view.rows, ids')
  BY LaterHonestRows DEF Naming
<1>2. detail.link # None => Honest(detail, ids')
  BY LaterHonest DEF Naming
<1>3. QED
  BY <1>1, <1>2 DEF Naming

(* The scheduler's steps, and the throttle's end, touch nothing that is    *)
(* shown.                                                                  *)
LEMMA StoreStep ==
  ASSUME IInv, Scheduling \/ ThrottleExpires
  PROVE  IInv'
<1>1. /\ UNCHANGED <<lastRevision, cache, ids, task, view, detail>>
      /\ rev' \in {rev, rev + 1}
  BY DEF Scheduling, StartCycle, PutResult, FinishCycle, CancelCycle, ThrottleExpires,
         adapterVars, storeVars
<1>2. records' \in [Links -> Tiers \cup {0}]
  <2>1. CASE UNCHANGED records
    BY <2>1 DEF IInv, Stored
  <2>2. ASSUME NEW l \in Links, NEW tier \in Tiers, PutResult(l, tier)
        PROVE  records' \in [Links -> Tiers \cup {0}]
    BY <2>2 DEF IInv, Stored, PutResult
  <2>3. CASE FinishCycle
    BY <2>3 DEF IInv, Stored, FinishCycle
  <2>4. CASE StartCycle
    BY <2>4 DEF StartCycle
  <2>5. QED
    BY <2>1, <2>2, <2>3, <2>4 DEF Scheduling, CancelCycle, ThrottleExpires, storeVars
<1>3. Stored'
  BY <1>1, <1>2 DEF IInv, Stored
<1>4. Handling'
  <2>1. task.rev \in Nat /\ task.rev <= rev /\ rev \in Nat
    BY DEF IInv, Handling, Stored, TaskType
  <2>2. task.rev <= rev'
    BY <1>1, <2>1
  <2>3. QED
    BY <1>1, <2>2 DEF IInv, Handling
<1>5. Showing' /\ Naming'
  BY <1>1 DEF IInv, Showing, Naming
<1>6. QED
  BY <1>3, <1>4, <1>5 DEF IInv

(* A tick or a key begins with a fresh handler.                            *)
LEMMA BeginStep ==
  ASSUME IInv, Tick \/ TickAfterEvent \/ NextFilter
  PROVE  IInv'
<1>1. /\ UNCHANGED <<storeVars, cache, ids, view, detail>>
      /\ lastRevision' \in {lastRevision, rev}
  BY DEF Tick, TickAfterEvent, NextFilter, adapterVars
<1>2. /\ view.filter \in FilterNo /\ (view.filter % Len(Filters)) + 1 \in FilterNo
  BY FilterFacts DEF IInv, Showing
<1>3. task' \in TaskType /\ task'.rev \in {0, task.rev} /\ task'.window \in {<<>>, task.window}
  <2>1. CASE task' = task
    BY <2>1 DEF IInv, Handling
  <2>2. CASE task' = [NoTask EXCEPT !.pc = "check", !.filter = view.filter]
    BY <1>2, <2>2, NoTaskFacts DEF TaskType
  <2>3. CASE NextFilter
    <3>1. task' = [NoTask EXCEPT !.pc = "check", !.force = TRUE, !.reset = TRUE,
                                 !.filter = (view.filter % Len(Filters)) + 1]
      BY <2>3 DEF NextFilter
    <3>2. QED
      BY <1>2, <3>1, NoTaskFacts DEF TaskType
  <2>4. QED
    BY <2>1, <2>2, <2>3 DEF Tick, TickAfterEvent
<1>4. Stored'
  BY <1>1 DEF IInv, Stored, storeVars
<1>5. Handling'
  BY <1>1, <1>3 DEF IInv, Handling, Stored, storeVars
<1>6. Showing'
  BY <1>1 DEF IInv, Showing
<1>7. Naming'
  BY <1>1, <1>3, NamingUnchanged DEF IInv
<1>8. QED
  BY <1>4, <1>5, <1>6, <1>7 DEF IInv

(* rebuildIndex (adapter.go:493-575).                                      *)
LEMMA UseCacheStep ==
  ASSUME IInv, UseCache
  PROVE  IInv'
<1>1. Continue(cache, ids, task) /\ UNCHANGED <<storeVars, adapterVars, view, detail>>
  BY DEF UseCache
<1>2. /\ cache.rows \in Seq(IndexRow) /\ IDMaps(ids)
      /\ task \in TaskType /\ HonestRows(task.window, ids)
  BY DEF IInv, Stored, Handling, Naming
<1>3. /\ task' \in TaskType /\ task'.rev = task.rev
      /\ IDMaps(ids') /\ Later(ids, ids')
      /\ HonestRows(task'.window, ids')
  BY <1>1, <1>2, ContinueFacts
<1>4. Stored' /\ Showing'
  BY <1>1 DEF IInv, Stored, Showing, storeVars, adapterVars
<1>5. Handling'
  BY <1>1, <1>3 DEF IInv, Handling, storeVars
<1>6. Naming'
  BY <1>1, <1>3, LaterNaming DEF IInv
<1>7. QED
  BY <1>4, <1>5, <1>6 DEF IInv

LEMMA ReadStep ==
  ASSUME IInv, BeginRebuild \/ ReadIndex
  PROVE  IInv'
<1>1. UNCHANGED <<storeVars, adapterVars, ids, view, detail>>
  BY DEF BeginRebuild, ReadIndex
<1>2. task \in TaskType /\ task.rev <= rev /\ rev \in Nat
  BY DEF IInv, Handling, Stored
<1>3. task' \in TaskType /\ task'.rev <= rev /\ task'.window = task.window
  <2>1. CASE BeginRebuild
    <3>1. task' = [task EXCEPT !.pc = "index", !.rev = rev]
      BY <2>1 DEF BeginRebuild
    <3>2. task' \in TaskType
      BY <1>2, <3>1 DEF TaskType
    <3>3. task'.rev = rev /\ task'.window = task.window
      BY <1>2, <3>1 DEF TaskType
    <3>4. QED
      BY <1>2, <3>2, <3>3
  <2>2. CASE ReadIndex
    <3>1. task' = [task EXCEPT !.pc = "install", !.rows = Ranked(records)]
      BY <2>2 DEF ReadIndex
    <3>2. Ranked(records) \in Seq(IndexRow)
      BY RankedType DEF IInv, Stored
    <3>3. QED
      BY <1>2, <3>1, <3>2 DEF TaskType
  <2>3. QED
    BY <2>1, <2>2
<1>4. Stored' /\ Showing'
  BY <1>1 DEF IInv, Stored, Showing, storeVars, adapterVars
<1>5. Handling'
  BY <1>1, <1>3 DEF Handling, storeVars
<1>6. Naming'
  BY <1>1, <1>3, NamingUnchanged DEF IInv
<1>7. QED
  BY <1>4, <1>5, <1>6 DEF IInv

LEMMA InstallStep ==
  ASSUME IInv, Install
  PROVE  IInv'
<1> DEFINE next == [task EXCEPT !.rows = <<>>, !.rev = 0]
<1>1. /\ cache' = [rows |-> task.rows, rev |-> task.rev]
      /\ Continue(cache', Pruned, next)
      /\ UNCHANGED <<storeVars, lastRevision, view, detail>>
  BY DEF Install
<1>2. task \in TaskType /\ task.rev <= rev
  BY DEF IInv, Handling
<1>3. next \in TaskType /\ next.rev = 0 /\ next.window = task.window
  BY <1>2, NoRows DEF TaskType
<1>4. /\ IDMaps(ids) /\ IDMaps(Pruned) /\ Later(ids, Pruned)
      /\ HonestRows(next.window, Pruned)
  BY <1>3, PrunedFacts, LaterHonestRows DEF IInv, Naming
<1>5. cache' \in [rows : Seq(IndexRow), rev : Nat] /\ cache'.rev <= rev
  BY <1>1, <1>2 DEF TaskType
<1> HIDE DEF next
<1>6. /\ task' \in TaskType /\ task'.rev = 0
      /\ IDMaps(ids') /\ Later(Pruned, ids')
      /\ HonestRows(task'.window, ids')
  BY <1>1, <1>3, <1>4, <1>5, ContinueFacts
<1>7. Later(ids, ids')
  BY <1>4, <1>6, LaterChain
<1>8. Stored' /\ Showing'
  BY <1>1, <1>5 DEF IInv, Stored, Showing, storeVars
<1>9. Handling'
  BY <1>1, <1>6 DEF IInv, Stored, Handling, storeVars
<1>10. Naming'
  BY <1>1, <1>6, <1>7, LaterNaming DEF IInv
<1>11. QED
  BY <1>8, <1>9, <1>10 DEF IInv

(* Rows of a snapshot that serve the first page keep their IDs.            *)
LEMMA WindowHonest ==
  ASSUME NEW rows \in Seq(ShownRow), NEW limit \in Nat, NEW given,
         HonestRows(rows, given)
  PROVE  /\ Window(rows, 0, limit) \in Seq(ShownRow)
         /\ HonestRows(Window(rows, 0, limit), given)
<1> DEFINE window == Window(rows, 0, limit)
<1>1. /\ window \in Seq(ShownRow)
      /\ \A i \in 1..Len(window) : \E j \in 1..Len(rows) : window[i] = rows[j]
  BY WindowFacts
<1> HIDE DEF window
<1>2. HonestRows(window, given)
  BY <1>1 DEF HonestRows
<1>3. QED
  BY <1>1, <1>2 DEF window

(* applySnapshot (model.go:1183-1260).  The pinned detail is looked up     *)
(* again by its ID, which still names its link.                            *)
LEMMA ApplyStep ==
  ASSUME IInv, Apply
  PROVE  IInv' /\ (detail.link # None => detail' = detail)
<1> DEFINE total == task.total
           kept == IF task.reset THEN 0 ELSE view.cursor
           cursor == IF total = 0 THEN 0 ELSE IF kept >= total THEN total - 1 ELSE kept
           from == IF task.reset THEN 0 ELSE view.offset
           offset == Scroll(cursor, from, total)
           atHand == /\ offset = 0
                     /\ Len(task.window) >= Visible \/ Len(task.window) = total
           fetched == Refreshed(task.filter, offset)
           rows == IF atHand THEN Window(task.window, 0, Visible) ELSE fetched.rows
<1>1. /\ ids' = IF atHand THEN ids ELSE fetched.ids
      /\ view' = [filter |-> task.filter, total |-> total, cursor |-> cursor,
                  offset |-> offset, rows |-> rows]
      /\ task' = NoTask /\ UNCHANGED <<storeVars, adapterVars>>
  BY DEF Apply
<1>2. detail' = IF detail.link # None /\ Known(ids, detail.id)
                THEN [detail EXCEPT !.link = ids.idToLink[detail.id]] ELSE detail
  BY DEF Apply
<1>3. /\ total \in Nat /\ task.filter \in FilterNo /\ task.window \in Seq(ShownRow)
      /\ view.cursor \in Nat /\ view.offset \in Nat /\ Visible \in Nat
  BY DashboardAssumption DEF IInv, Handling, TaskType, Showing
<1>4. IDMaps(ids) /\ HonestRows(task.window, ids) /\ Stored
  BY DEF IInv, Naming
<1>5. cursor \in Nat /\ (cursor = 0 \/ cursor < total) /\ from \in Nat
  BY <1>3
<1> HIDE DEF cursor, total, from
<1>6. offset \in Nat /\ offset <= cursor /\ cursor < offset + Visible
  BY <1>3, <1>5, ScrollFacts
<1> HIDE DEF offset
<1>7. /\ IDMaps(fetched.ids) /\ Later(ids, fetched.ids)
      /\ fetched.rows \in Seq(ShownRow) /\ HonestRows(fetched.rows, fetched.ids)
  BY <1>4, <1>6, RefreshedFacts
<1>8. /\ Window(task.window, 0, Visible) \in Seq(ShownRow)
      /\ HonestRows(Window(task.window, 0, Visible), ids)
  BY <1>3, <1>4, WindowHonest
<1> HIDE DEF atHand, fetched
<1>9. /\ IDMaps(ids') /\ Later(ids, ids')
      /\ rows \in Seq(ShownRow) /\ HonestRows(rows, ids')
  BY <1>1, <1>4, <1>7, <1>8, LaterSelf
<1> HIDE DEF rows
<1>10. detail' = detail
  <2>1. CASE detail.link # None /\ Known(ids, detail.id)
    <3>1. ids.idToLink[detail.id] = detail.link
      BY <2>1 DEF IInv, Naming, Honest, Known
    <3>2. detail \in [id : Nat, link : Nat]
      BY DEF IInv, Naming
    <3>3. QED
      BY <1>2, <2>1, <3>1, <3>2
  <2>2. QED
    BY <1>2, <2>1
<1>11. Stored'
  BY <1>1 DEF IInv, Stored, storeVars, adapterVars
<1>12. Handling'
  BY <1>1, NoTaskFacts DEF IInv, Stored, Handling, storeVars
<1>13. Showing'
  BY <1>1, <1>3, <1>5, <1>6, <1>9 DEF Showing
<1>14. Naming'
  <2>1. HonestRows(task'.window, ids')
    BY <1>1, NoTaskFacts, NoRows DEF HonestRows
  <2>2. HonestRows(view'.rows, ids')
    BY <1>1, <1>9
  <2>3. detail.link # None => Honest(detail, ids')
    BY <1>4, <1>9, LaterHonest DEF IInv, Naming
  <2>4. QED
    BY <1>9, <1>10, <2>1, <2>2, <2>3 DEF IInv, Naming
<1>15. QED
  BY <1>10, <1>11, <1>12, <1>13, <1>14 DEF IInv

(* Arrows, pages, g and G (model.go:1262-1281).                            *)
LEMMA MoveStep ==
  ASSUME IInv, NEW cursor \in 0..(view.total - 1), MoveTo(cursor)
  PROVE  IInv'
<1> DEFINE offset == Scroll(cursor, view.offset, view.total)
           fetched == Refreshed(view.filter, offset)
           rows == IF offset = view.offset THEN view.rows ELSE fetched.rows
<1>1. /\ view' = [view EXCEPT !.cursor = cursor, !.offset = offset, !.rows = rows]
      /\ ids' = IF offset = view.offset THEN ids ELSE fetched.ids
      /\ UNCHANGED <<storeVars, adapterVars, task, detail>>
  <2>1. view \in [filter : FilterNo, total : Nat, cursor : Nat, offset : Nat,
                  rows : Seq(ShownRow)]
    BY DEF IInv, Showing
  <2>2. UNCHANGED <<storeVars, adapterVars, task, detail>>
    BY DEF MoveTo
  <2>3. CASE offset = view.offset
    BY <2>1, <2>2, <2>3 DEF MoveTo
  <2>4. CASE offset # view.offset
    BY <2>1, <2>2, <2>4 DEF MoveTo
  <2>5. QED
    BY <2>3, <2>4
<1>2. /\ view.total \in Nat /\ view.offset \in Nat /\ Visible \in Nat
      /\ view.filter \in FilterNo /\ view.rows \in Seq(ShownRow)
      /\ cursor \in Nat /\ cursor < view.total
  BY DashboardAssumption DEF IInv, Showing
<1>3. IDMaps(ids) /\ Stored /\ HonestRows(view.rows, ids) /\ HonestRows(task.window, ids)
  BY DEF IInv, Naming
<1>4. offset \in Nat /\ offset <= cursor /\ cursor < offset + Visible
  BY <1>2, ScrollFacts
<1> HIDE DEF offset
<1>5. /\ IDMaps(fetched.ids) /\ Later(ids, fetched.ids)
      /\ fetched.rows \in Seq(ShownRow) /\ HonestRows(fetched.rows, fetched.ids)
  BY <1>3, <1>4, RefreshedFacts
<1> HIDE DEF fetched
<1>6. /\ IDMaps(ids') /\ Later(ids, ids')
      /\ rows \in Seq(ShownRow) /\ HonestRows(rows, ids')
  BY <1>1, <1>2, <1>3, <1>5, LaterSelf
<1> HIDE DEF rows
<1>7. Showing'
  BY <1>1, <1>2, <1>4, <1>6 DEF IInv, Showing
<1>8. Stored' /\ Handling'
  BY <1>1 DEF IInv, Stored, Handling, storeVars, adapterVars
<1>9. Naming'
  <2>1. HonestRows(task'.window, ids') /\ (detail.link # None => Honest(detail, ids'))
    BY <1>1, <1>3, <1>6, LaterHonestRows, LaterHonest DEF IInv, Naming
  <2>2. view'.rows = rows
    BY <1>1 DEF IInv, Showing
  <2>3. QED
    BY <1>1, <1>6, <2>1, <2>2 DEF IInv, Naming
<1>10. QED
  BY <1>7, <1>8, <1>9 DEF IInv

(* Enter and esc (model.go:469-500).  What is pinned is what the maps name *)
(* at that moment.                                                         *)
LEMMA OpenStep ==
  ASSUME IInv, OpenDetail
  PROVE  IInv'
<1>1. IDMaps(ids) /\ Stored /\ HonestRows(view.rows, ids) /\ HonestRows(task.window, ids)
  BY DEF IInv, Naming
<1>2. /\ view \in [filter : FilterNo, total : Nat, cursor : Nat, offset : Nat,
                   rows : Seq(ShownRow)]
  BY DEF IInv, Showing
<1> DEFINE page == Page
<1>3. /\ IDMaps(page.ids) /\ Later(ids, page.ids)
      /\ page.rows \in Seq(ShownRow) /\ HonestRows(page.rows, page.ids)
  <2>1. CASE HasSelection
    BY <1>1, <1>2, <2>1, LaterSelf DEF Page
  <2>2. CASE ~HasSelection
    <3>1. view.offset \in Nat
      BY <1>2
    <3>2. page = Refreshed(view.filter, view.offset)
      BY <2>2 DEF Page
    <3>3. QED
      BY <1>1, <3>1, <3>2, RefreshedFacts
  <2>3. QED
    BY <2>1, <2>2
<1>4. /\ view' = [view EXCEPT !.rows = page.rows] /\ ids' = page.ids
      /\ detail' = IF Row \in DOMAIN page.rows /\ Known(page.ids, page.rows[Row].id)
                   THEN [id |-> page.rows[Row].id,
                         link |-> page.ids.idToLink[page.rows[Row].id]]
                   ELSE detail
      /\ UNCHANGED <<storeVars, adapterVars, task>> /\ detail.link = None
  BY DEF OpenDetail
<1> HIDE DEF page
<1>5. detail' \in [id : Nat, link : Nat] /\ (detail'.link # None => Honest(detail', page.ids))
  <2> DEFINE id == page.rows[Row].id
  <2>1. CASE Row \in DOMAIN page.rows /\ Known(page.ids, id)
    <3>1. detail' = [id |-> id, link |-> page.ids.idToLink[id]]
      BY <1>4, <2>1
    <3>2. Row \in 1..Len(page.rows)
      BY <1>3, <2>1, LenProperties
    <3>3. id \in 1..page.ids.counter /\ page.ids.counter \in Nat
      BY <1>3, <3>2 DEF HonestRows, Honest, IDMaps
    <3>4. page.ids.idToLink[id] \in Nat
      BY <2>1, DashboardAssumption DEF Known, Recorded, Links
    <3> HIDE DEF id
    <3>5. id \in Nat
      BY <3>3
    <3>6. detail' \in [id : Nat, link : Nat]
      BY <3>1, <3>4, <3>5
    <3>7. detail'.id = id /\ detail'.link = page.ids.idToLink[id]
      BY <3>1
    <3>8. Honest(detail', page.ids)
      BY <3>3, <3>7 DEF Honest
    <3>9. QED
      BY <3>6, <3>8
  <2>2. CASE ~ (Row \in DOMAIN page.rows /\ Known(page.ids, id))
    BY <1>4, <2>2 DEF IInv, Naming
  <2>3. QED
    BY <2>1, <2>2
<1>6. Showing'
  BY <1>2, <1>3, <1>4 DEF IInv, Showing
<1>7. Stored' /\ Handling'
  BY <1>4 DEF IInv, Stored, Handling, storeVars, adapterVars
<1>8. Naming'
  <2>1. HonestRows(task'.window, ids')
    BY <1>1, <1>3, <1>4, LaterHonestRows
  <2>2. view'.rows = page.rows
    BY <1>2, <1>4
  <2>3. QED
    BY <1>3, <1>4, <1>5, <2>1, <2>2 DEF Naming
<1>9. QED
  BY <1>6, <1>7, <1>8 DEF IInv

LEMMA CloseStep ==
  ASSUME IInv, CloseDetail \/ UNCHANGED vars
  PROVE  IInv'
<1>1. UNCHANGED <<storeVars, adapterVars, ids, task, view>>
  BY DEF CloseDetail, vars
<1>2. detail' \in [id : Nat, link : Nat] /\ (detail'.link # None => Honest(detail', ids))
  BY DEF IInv, Naming, CloseDetail, vars, None
<1>3. Stored' /\ Handling' /\ Showing'
  BY <1>1 DEF IInv, Stored, Handling, Showing, storeVars, adapterVars
<1>4. Naming'
  BY <1>1, <1>2 DEF IInv, Naming
<1>5. QED
  BY <1>3, <1>4 DEF IInv

LEMMA StepIInv == IInv /\ [Next]_vars => IInv'
<1> SUFFICES ASSUME IInv, [Next]_vars
             PROVE  IInv'
  OBVIOUS
<1>1. ASSUME NEW cursor \in 0..(view.total - 1), MoveTo(cursor)
      PROVE  IInv'
  BY <1>1, MoveStep
<1>2. QED
  BY <1>1, StoreStep, BeginStep, UseCacheStep, ReadStep, InstallStep, ApplyStep, OpenStep,
     CloseStep
     DEF Next, Rebuilding, Keys

LEMMA IInvType == IInv => TypeOK
<1> SUFFICES ASSUME IInv
             PROVE  TypeOK
  OBVIOUS
<1>1. /\ records \in [Links -> Tiers \cup {0}]
      /\ cache.rev <= rev /\ lastRevision <= rev
      /\ task.pc \in {"idle", "check", "index", "install", "apply"}
  BY DEF IInv, Stored, Handling, TaskType
<1>2. /\ \A l \in DOMAIN ids.linkToID :
           ids.linkToID[l] \in DOMAIN ids.idToLink /\ ids.idToLink[ids.linkToID[l]] = l
      /\ \A i \in DOMAIN ids.idToLink :
           ids.idToLink[i] \in DOMAIN ids.linkToID /\ ids.linkToID[ids.idToLink[i]] = i
  BY DEF IInv, Naming, IDMaps
<1>3. DOMAIN ids.idToLink = Range(ids.linkToID)
  BY <1>2 DEF Range
<1>4. /\ view.cursor >= view.offset /\ view.cursor < view.offset + Visible
      /\ view.cursor = 0 \/ view.cursor < view.total
  BY DEF IInv, Showing
<1>5. QED
  BY <1>1, <1>2, <1>3, <1>4 DEF TypeOK

(* The maps of presentation IDs are each other's inverse after every prune *)
(* and fetch, and the cursor is on the page, for every store, filter and   *)
(* screen (adapter.go:385-426, 697-711; model.go:1183-1281).               *)
THEOREM DashboardTypeCorrect == Spec => []TypeOK
<1>1. Spec => []IInv
  BY InitIInv, StepIInv, PTL DEF Spec
<1>2. QED
  BY <1>1, IInvType, PTL

-----------------------------------------------------------------------------
(* What is copied.                                                         *)

LEMMA CopyOfShown ==
  ASSUME IInv, detail.link # None \/ HasSelection, CopyLink # None
  PROVE  CopyLink = IF detail.link # None THEN detail.link ELSE Selected.link
<1>1. CopyLink = ids.idToLink[CopyID] /\ CopyID \in DOMAIN ids.idToLink
  BY DEF CopyLink, Known
<1>2. CASE detail.link # None
  BY <1>1, <1>2 DEF IInv, Naming, Honest, CopyID
<1>3. CASE detail.link = None
  <2>1. Row \in 1..Len(view.rows)
    <3>1. view.rows \in Seq(ShownRow)
      BY DEF IInv, Showing
    <3>2. QED
      BY <1>3, <3>1, LenProperties DEF HasSelection
  <2>2. Honest(Selected, ids)
    BY <2>1 DEF IInv, Naming, HonestRows, Selected
  <2>3. QED
    BY <1>1, <1>3, <2>2 DEF Honest, CopyID
<1>4. QED
  BY <1>2, <1>3

LEMMA DetailStays ==
  ASSUME IInv, [Next]_vars, detail.link # None, detail'.link # None
  PROVE  detail'.link = detail.link
<1>1. CASE Apply
  BY <1>1, ApplyStep
<1>2. CASE OpenDetail \/ CloseDetail
  BY <1>2 DEF OpenDetail, CloseDetail
<1>3. CASE Scheduling \/ ThrottleExpires
  BY <1>3 DEF Scheduling, StartCycle, PutResult, FinishCycle, CancelCycle, ThrottleExpires
<1>4. CASE Tick \/ TickAfterEvent \/ NextFilter
  BY <1>4 DEF Tick, TickAfterEvent, NextFilter
<1>5. CASE UseCache \/ BeginRebuild \/ ReadIndex \/ Install
  BY <1>5 DEF UseCache, BeginRebuild, ReadIndex, Install
<1>6. ASSUME NEW cursor \in 0..(view.total - 1), MoveTo(cursor)
      PROVE  detail' = detail
  BY <1>6 DEF MoveTo
<1>7. CASE UNCHANGED vars
  BY <1>7 DEF vars
<1>8. QED
  BY <1>1, <1>2, <1>3, <1>4, <1>5, <1>6, <1>7 DEF Next, Rebuilding, Keys

(* What y copies is the link that is shown, and a pinned detail stays with *)
(* its candidate, although IDs are forgotten and links named anew between  *)
(* the fetch of a row and its use (adapter.go:836, model.go:469, 487).     *)
THEOREM CopiedStaysShown == Spec => CopiedIsShown
<1>1. IInv /\ [Next]_vars =>
        [/\ (detail.link # None \/ HasSelection) /\ CopyLink # None =>
              CopyLink = IF detail.link # None THEN detail.link ELSE Selected.link
         /\ detail.link # None /\ detail'.link # None => detail'.link = detail.link]_vars
  BY CopyOfShown, DetailStays
<1>2. Spec => []IInv
  BY InitIInv, StepIInv, PTL DEF Spec
<1>3. QED
  BY <1>1, <1>2, PTL DEF Spec, CopiedIsShown

-----------------------------------------------------------------------------
(* What the index claims.                                                  *)

(* The revision is read before the rows, so that rows which go by the      *)
(* store's revision are the store's.                                       *)
IndexIsCurrent == cache.rev = rev => cache.rows = Ranked(records)

ReadIsCurrent ==
  task.pc = "install" /\ task.rev = rev => task.rows = Ranked(records)

LEMMA CurrentStep ==
  ASSUME IInv, [Next]_vars, IndexIsCurrent, ReadIsCurrent
  PROVE  IndexIsCurrent' /\ ReadIsCurrent'
<1>1. rev \in Nat /\ cache.rev <= rev /\ task.rev <= rev /\ cache.rev \in Nat /\ task.rev \in Nat
  BY DEF IInv, Stored, Handling, TaskType
<1>2. CASE UNCHANGED <<records, rev, cache, task>>
  BY <1>2 DEF IndexIsCurrent, ReadIsCurrent
<1>3. CASE rev' = rev + 1 /\ UNCHANGED <<cache, task>>
  BY <1>1, <1>3 DEF IndexIsCurrent, ReadIsCurrent
<1>4. CASE /\ UNCHANGED <<records, rev, cache>>
           /\ task' = task \/ task'.pc # "install"
  BY <1>4 DEF IndexIsCurrent, ReadIsCurrent
<1>5. CASE ReadIndex
  <2>1. /\ task' = [task EXCEPT !.pc = "install", !.rows = Ranked(records)]
        /\ UNCHANGED <<records, rev, cache>>
    BY <1>5 DEF ReadIndex, storeVars, adapterVars
  <2>2. task \in TaskType
    BY DEF IInv, Handling
  <2>3. task'.rows = Ranked(records)
    BY <2>1, <2>2 DEF TaskType
  <2>4. QED
    BY <2>1, <2>3 DEF IndexIsCurrent, ReadIsCurrent
<1>6. ASSUME NEW index, NEW given, NEW next \in TaskType, Continue(index, given, next)
      PROVE  task'.pc \in {"check", "apply"}
  <2>1. CASE task.second
    BY <1>6, <2>1 DEF Continue, Header, TaskType
  <2>2. CASE ~task.second
    BY <1>6, <2>2 DEF Continue, TakeRows, TaskType
  <2>3. QED
    BY <2>1, <2>2
<1>7. CASE Install
  <2> DEFINE next == [task EXCEPT !.rows = <<>>, !.rev = 0]
  <2>1. /\ task.pc = "install" /\ cache' = [rows |-> task.rows, rev |-> task.rev]
        /\ Continue(cache', Pruned, next) /\ UNCHANGED <<records, rev>>
    BY <1>7 DEF Install, storeVars
  <2>2. next \in TaskType
    BY NoRows DEF IInv, Handling, TaskType
  <2> HIDE DEF next
  <2>3. task'.pc # "install"
    BY <1>6, <2>1, <2>2
  <2>4. cache'.rows = task.rows /\ cache'.rev = task.rev
    BY <2>1
  <2>5. QED
    BY <2>1, <2>3, <2>4 DEF IndexIsCurrent, ReadIsCurrent
<1>8. CASE UseCache
  <2>1. /\ Continue(cache, ids, task) /\ UNCHANGED <<records, rev, cache>>
    BY <1>8 DEF UseCache, storeVars, adapterVars
  <2>2. task'.pc # "install"
    BY <1>6, <2>1 DEF IInv, Handling
  <2>3. QED
    BY <1>4, <2>1, <2>2
<1>9. CASE BeginRebuild \/ Apply \/ Tick \/ TickAfterEvent \/ NextFilter
  <2>1. UNCHANGED <<records, rev, cache>>
    BY <1>9 DEF BeginRebuild, Apply, Tick, TickAfterEvent, NextFilter, storeVars, adapterVars
  <2>2. task' = task \/ task'.pc # "install"
    <3>1. CASE BeginRebuild
      BY <3>1 DEF BeginRebuild, IInv, Handling, TaskType
    <3>2. CASE Apply
      BY <3>2, NoTaskFacts DEF Apply
    <3>3. CASE Tick \/ TickAfterEvent \/ NextFilter
      BY <3>3, NoTaskFacts DEF Tick, TickAfterEvent, NextFilter, TaskType
    <3>4. QED
      BY <1>9, <3>1, <3>2, <3>3
  <2>3. QED
    BY <1>4, <2>1, <2>2
<1>10. CASE Scheduling
  <2>1. \/ rev' = rev + 1 /\ UNCHANGED <<cache, task>>
        \/ UNCHANGED <<records, rev, cache, task>>
    BY <1>10 DEF Scheduling, StartCycle, PutResult, FinishCycle, CancelCycle, adapterVars
  <2>2. QED
    BY <1>2, <1>3, <2>1
<1>11. CASE ThrottleExpires \/ OpenDetail \/ CloseDetail \/ UNCHANGED vars
  BY <1>2, <1>11 DEF ThrottleExpires, OpenDetail, CloseDetail, vars, storeVars, adapterVars
<1>12. ASSUME NEW cursor \in 0..(view.total - 1), MoveTo(cursor)
       PROVE  UNCHANGED <<records, rev, cache, task>>
  BY <1>12 DEF MoveTo, storeVars, adapterVars
<1>13. QED
  BY <1>2, <1>5, <1>7, <1>8, <1>9, <1>10, <1>11, <1>12 DEF Next, Rebuilding, Keys

(* However the store changes between the two reads of a rebuild, an index  *)
(* that carries the store's revision holds the store's rows, so that the   *)
(* dashboard does not rest on an old index (adapter.go:551-575).           *)
THEOREM IndexNeverClaimsTooMuch == Spec => []IndexIsCurrent
<1>1. Init => IndexIsCurrent /\ ReadIsCurrent
  BY DEF Init, IndexIsCurrent, ReadIsCurrent, NoTask
<1>2. /\ IInv /\ [Next]_vars /\ IndexIsCurrent /\ ReadIsCurrent
      => IndexIsCurrent' /\ ReadIsCurrent'
  BY CurrentStep
<1>3. Spec => []IInv
  BY InitIInv, StepIInv, PTL DEF Spec
<1>4. QED
  BY <1>1, <1>2, <1>3, PTL DEF Spec
=============================================================================
