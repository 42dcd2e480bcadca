------------------------------ MODULE Dashboard ------------------------------
(***************************************************************************)
(* The candidate view of the terminal interface: the adapter               *)
(* (internal/tui/adapter/adapter.go) between the store, the event bus and  *)
(* the Bubble Tea model (internal/tui/model.go).                           *)
(*                                                                         *)
(* Two threads meet here: the scheduler's cycles change the store, and the *)
(* TUI handles ticks and keys, one after the other, reading the store by   *)
(* one lock-protected call at a time while the cycle goes on; a handler of *)
(* the TUI is several steps here.  Events that only make a tick refresh    *)
(* are a choice of the tick.                                               *)
(*                                                                         *)
(* A link is its place in the order of canonical links; of a record there  *)
(* is the tier by which rows are ranked and filtered.                      *)
(***************************************************************************)
EXTENDS Integers, Sequences, FiniteSets, Functions

CONSTANTS
  N,          (* how many links there are *)
  Tiers,      (* 1 Gemini-servable, 2 generic, 3 unservable *)
  Filters,    (* the tiers each filter shows, in the order of key s *)
  Visible,    (* rows that fit on the screen, *)
  Fetched,    (* and rows a snapshot brings along *)
  Loaded,     (* what the store may hold at first *)
  MaxRev      (* bound on the store's revision *)

Unservable == 3

ASSUME DashboardAssumption ==
  /\ N \in Nat \ {0} /\ Tiers \subseteq 1..3 /\ Unservable \in Tiers
  /\ Filters \in Seq(SUBSET (1..3)) /\ Len(Filters) > 0
  /\ Visible \in Nat \ {0} /\ Fetched \in Nat \ {0}
  /\ Loaded \subseteq [1..N -> Tiers \cup {0}]

Links == 1..N
None  == 0

VARIABLES
  records,       (* the store: the tier of each link, 0 without a record; *)
  rev,           (* and Revision() *)
  present,       (* the candidates of the cycle under way, or NoCycle *)
  lastRevision,  (* Adapter.lastRevision, *)
  cache,         (* cachedEntries and lastIndexRev, *)
  throttled,     (* whether they are younger than the throttle's interval *)
  ids,           (* linkToID, idToLink and idCounter *)
  task,          (* what the TUI's handler is doing *)
  view,          (* what the model shows *)
  detail         (* the pinned detail: [id, link], or no link *)

storeVars   == <<records, rev, present>>
adapterVars == <<lastRevision, cache, throttled>>
vars == <<storeVars, adapterVars, ids, task, view, detail>>

NoCycle == {None}

-----------------------------------------------------------------------------
(* What is shown of the store.                                             *)

Recorded(recs) == {l \in Links : recs[l] # 0}

OfTiers(rows, tiers) ==
  LET upTo[i \in 0..Len(rows)] ==
        IF i = 0 THEN <<>>
        ELSE IF rows[i].tier \in tiers THEN Append(upTo[i - 1], rows[i]) ELSE upTo[i - 1]
  IN  upTo[Len(rows)]

(* By tier, then by canonical link.                                        *)
Ranked(recs) ==
  LET all == [l \in Links |-> [link |-> l, tier |-> recs[l]]]
  IN  OfTiers(all, {1}) \o OfTiers(all, {2}) \o OfTiers(all, {3})

Filtered(rows, filter) == OfTiers(rows, Filters[filter])

Window(rows, offset, limit) ==
  SubSeq(rows, offset + 1, IF offset + limit < Len(rows) THEN offset + limit ELSE Len(rows))

With(map, key, value) ==
  [k \in DOMAIN map \cup {key} |-> IF k = key THEN value ELSE map[k]]

(* Bug: an ID is made from how many there are.                             *)
AssignIDBySize(given, row) ==
  IF row.link \in DOMAIN given.linkToID THEN given
  ELSE LET id == Cardinality(DOMAIN given.linkToID) + 1
       IN  [linkToID |-> With(given.linkToID, row.link, id),
            idToLink |-> With(given.idToLink, id, row.link),
            counter |-> id]

(* A row is given an opaque ID when it is first fetched.                   *)
AssignID(given, row) ==
  IF row.link \in DOMAIN given.linkToID THEN given
  ELSE LET id == given.counter + 1
       IN  [linkToID |-> With(given.linkToID, row.link, id),
            idToLink |-> With(given.idToLink, id, row.link),
            counter |-> id]

Named(given, rows) ==
  LET upTo[i \in 0..Len(rows)] == IF i = 0 THEN given ELSE AssignID(upTo[i - 1], rows[i])
  IN  upTo[Len(rows)]

NoIDs == [linkToID |-> <<>>, idToLink |-> <<>>, counter |-> 0]

Shown(rows, given) ==
  [i \in DOMAIN rows |->
     [id |-> given.linkToID[rows[i].link], link |-> rows[i].link, tier |-> rows[i].tier]]

NoTask == [pc |-> "idle", force |-> FALSE, reset |-> FALSE, second |-> FALSE,
           filter |-> 1, rev |-> 0, rows |-> <<>>,
           total |-> 0, window |-> <<>>]

(* The model and the adapter are made over a store that was loaded; the    *)
(* model takes its first snapshot then.                                    *)
Init ==
  /\ records \in Loaded
  /\ rev = 0 /\ lastRevision = 0
  /\ present = NoCycle
  /\ cache = [rows |-> Ranked(records), rev |-> 0]
  /\ throttled = TRUE
  /\ LET first == Window(Ranked(records), 0, Fetched)
     IN  /\ ids = Named(NoIDs, first)
         /\ view = [filter |-> 1, total |-> Len(Ranked(records)), cursor |-> 0, offset |-> 0,
                    rows |-> Shown(Window(first, 0, Visible), ids)]
  /\ task = NoTask
  /\ detail = [id |-> None, link |-> None]

-----------------------------------------------------------------------------
(* The scheduler.                                                          *)

(* The tiers a link may have once a cycle over listed has begun: what is   *)
(* not listed is absent, and what is may have been until then.             *)
TiersAfterStart(l, listed) ==
  IF records[l] = 0 THEN {0}
  ELSE IF l \notin listed THEN {Unservable}
  ELSE IF records[l] = Unservable THEN Tiers ELSE {records[l]}

StartCycle ==
  /\ present = NoCycle /\ rev < MaxRev
  /\ present' \in SUBSET Links
  /\ records' \in {recs \in [Links -> Tiers \cup {0}] :
                    \A l \in Links : recs[l] \in TiersAfterStart(l, present')}
  /\ rev' = rev + 1
  /\ UNCHANGED <<adapterVars, ids, task, view, detail>>

PutResult(l, tier) ==
  /\ l \in present /\ rev < MaxRev
  /\ records' = [records EXCEPT ![l] = tier]
  /\ rev' = rev + 1
  /\ UNCHANGED <<present, adapterVars, ids, task, view, detail>>

(* A cycle that is completed may evict what it did not contain.  What it   *)
(* keeps is absent as it was, by its count and no more by its mark, and    *)
(* what it contained is present.                                           *)
FinishCycle ==
  /\ present # NoCycle /\ rev < MaxRev
  /\ present' = NoCycle
  /\ rev' = rev + 1
  /\ \E evicted \in SUBSET (Recorded(records) \ present) :
       records' = [l \in Links |-> IF l \in evicted THEN 0 ELSE records[l]]
  /\ UNCHANGED <<adapterVars, ids, task, view, detail>>

(* One that is cancelled leaves the store as it is, with its marks.        *)
CancelCycle ==
  /\ present # NoCycle
  /\ present' = NoCycle
  /\ UNCHANGED <<records, rev, adapterVars, ids, task, view, detail>>

Scheduling ==
  \/ StartCycle
  \/ \E l \in Links, tier \in Tiers : PutResult(l, tier)
  \/ FinishCycle \/ CancelCycle

(* A second passes since the index was computed.                           *)
ThrottleExpires ==
  /\ throttled
  /\ throttled' = FALSE
  /\ UNCHANGED <<storeVars, lastRevision, cache, ids, task, view, detail>>

-----------------------------------------------------------------------------
(* Presentation IDs.                                                       *)

(* Bug: the ID is left behind.                                             *)
PrunedOneWay ==
  [ids EXCEPT !.linkToID = Restrict(@, DOMAIN ids.linkToID \cap Recorded(records))]

(* pruneOrphanIDs forgets the links that have no record, with their IDs.   *)
Pruned ==
  LET kept == DOMAIN ids.linkToID \cap Recorded(records)
  IN  [linkToID |-> Restrict(ids.linkToID, kept),
       idToLink |-> Restrict(ids.idToLink, {ids.linkToID[l] : l \in kept}),
       counter |-> ids.counter]

-----------------------------------------------------------------------------
(* The TUI's thread: a snapshot.                                           *)

Stale == cache.rev # rev \/ Len(cache.rows) # Cardinality(Recorded(records))

(* PollSnapshot: the view is rebuilt if the store has changed and the      *)
(* throttle allows a rebuild,                                              *)
Tick ==
  /\ task.pc = "idle"
  /\ lastRevision' = rev
  /\ task' = IF rev # lastRevision \/ (Stale /\ ~throttled)
             THEN [NoTask EXCEPT !.pc = "check", !.filter = view.filter] ELSE task
  /\ UNCHANGED <<storeVars, cache, throttled, ids, view, detail>>

(* or if an event of the bus made it dirty.                                *)
TickAfterEvent ==
  /\ task.pc = "idle"
  /\ lastRevision' = rev
  /\ task' = [NoTask EXCEPT !.pc = "check", !.filter = view.filter]
  /\ UNCHANGED <<storeVars, cache, throttled, ids, view, detail>>

(* Key s: the next filter, a snapshot that does not heed the throttle, and *)
(* the cursor on the first row.                                            *)
NextFilter ==
  /\ task.pc = "idle"
  /\ task' = [NoTask EXCEPT !.pc = "check", !.force = TRUE, !.reset = TRUE,
                            !.filter = (view.filter % Len(Filters)) + 1]
  /\ UNCHANGED <<storeVars, adapterVars, ids, view, detail>>

(* buildSnapshot takes total and rows from the index after a rebuild, and  *)
(* goes on to the header.                                                  *)
TakeRows(index, given, next) ==
  LET rows == Filtered(index.rows, task.filter)
      fetched == Window(rows, 0, Fetched)
      named == Named(given, fetched)
  IN  /\ ids' = named
      /\ task' = [next EXCEPT !.pc = "check", !.second = TRUE, !.force = FALSE,
                              !.total = Len(rows), !.window = Shown(fetched, named)]

(* Header rebuilds again, for its counts.                                  *)
Header(given, next) == ids' = given /\ task' = [next EXCEPT !.pc = "apply"]

Continue(index, given, next) ==
  IF task.second THEN Header(given, next) ELSE TakeRows(index, given, next)

(* rebuildIndex: an index of the right length is used if it is current or  *)
(* was computed less than a second ago.                                    *)
UseCache ==
  /\ task.pc = "check"
  /\ ~task.force /\ Len(cache.rows) = Cardinality(Recorded(records))
  /\ cache.rev = rev \/ throttled
  /\ Continue(cache, ids, task)
  /\ UNCHANGED <<storeVars, adapterVars, view, detail>>

(* Else it is computed, for the revision read before.                      *)
BeginRebuild ==
  /\ task.pc = "check"
  /\ \/ task.force
     \/ Len(cache.rows) # Cardinality(Recorded(records))
     \/ cache.rev # rev /\ ~throttled
  /\ task' = [task EXCEPT !.pc = "index", !.rev = rev]
  /\ UNCHANGED <<storeVars, adapterVars, ids, view, detail>>

ReadIndex ==
  /\ task.pc = "index"
  /\ task' = [task EXCEPT !.pc = "install", !.rows = Ranked(records)]
  /\ UNCHANGED <<storeVars, adapterVars, ids, view, detail>>

(* Bug: the revision is read when the index is installed.                  *)
InstallRevisionLate ==
  /\ task.pc = "install"
  /\ cache' = [rows |-> task.rows, rev |-> rev]
  /\ throttled' = TRUE
  /\ Continue(cache', Pruned, [task EXCEPT !.rows = <<>>, !.rev = 0])
  /\ UNCHANGED <<storeVars, lastRevision, view, detail>>

Install ==
  /\ task.pc = "install"
  /\ cache' = [rows |-> task.rows, rev |-> task.rev]
  /\ throttled' = TRUE
  /\ Continue(cache', Pruned, [task EXCEPT !.rows = <<>>, !.rev = 0])
  /\ UNCHANGED <<storeVars, lastRevision, view, detail>>

Scroll(cursor, offset, total) ==
  LET moved == IF cursor < offset THEN cursor
               ELSE IF cursor >= offset + Visible THEN cursor - Visible + 1 ELSE offset
  IN  IF total > 0 /\ moved >= total THEN total - 1 ELSE moved

(* refreshVisibleRows: the rows at an offset of the index as it is now.    *)
Refreshed(filter, offset) ==
  LET rows  == Window(Filtered(cache.rows, filter), offset, Visible)
      named == Named(ids, rows)
  IN  [ids |-> named, rows |-> Shown(rows, named)]

(* CandidateDetail and ActiveLink know an ID while its link has a record.  *)
Known(given, id) == id \in DOMAIN given.idToLink /\ given.idToLink[id] \in Recorded(records)

(* applySnapshot: the rows brought along serve the first page.             *)
Apply ==
  /\ task.pc = "apply"
  /\ LET total  == task.total
         kept   == IF task.reset THEN 0 ELSE view.cursor
         cursor == IF total = 0 THEN 0 ELSE IF kept >= total THEN total - 1 ELSE kept
         offset == Scroll(cursor, IF task.reset THEN 0 ELSE view.offset, total)
         atHand == /\ offset = 0
                   /\ Len(task.window) >= Visible \/ Len(task.window) = total
         fetched == Refreshed(task.filter, offset)
     IN  /\ ids' = IF atHand THEN ids ELSE fetched.ids
         /\ view' = [filter |-> task.filter, total |-> total, cursor |-> cursor,
                     offset |-> offset,
                     rows |-> IF atHand THEN Window(task.window, 0, Visible)
                              ELSE fetched.rows]
  /\ detail' = IF detail.link # None /\ Known(ids, detail.id)
               THEN [detail EXCEPT !.link = ids.idToLink[detail.id]] ELSE detail
  /\ task' = NoTask
  /\ UNCHANGED <<storeVars, adapterVars>>

Rebuilding == UseCache \/ BeginRebuild \/ ReadIndex \/ Install \/ Apply

-----------------------------------------------------------------------------
(* The TUI's thread: keys.                                                 *)

(* Arrows, pages, g and G.                                                 *)
MoveTo(cursor) ==
  /\ task.pc = "idle" /\ detail.link = None
  /\ LET offset  == Scroll(cursor, view.offset, view.total)
         fetched == Refreshed(view.filter, offset)
         moved   == [view EXCEPT !.cursor = cursor, !.offset = offset]
     IN  IF offset = view.offset THEN view' = moved /\ UNCHANGED ids
         ELSE view' = [moved EXCEPT !.rows = fetched.rows] /\ ids' = fetched.ids
  /\ UNCHANGED <<storeVars, adapterVars, task, detail>>

Row          == view.cursor - view.offset + 1
HasSelection == Row \in DOMAIN view.rows
Selected     == view.rows[Row]

(* selectedCandidateID: the page is fetched again if the cursor is below   *)
(* its last row.                                                           *)
Page == IF HasSelection THEN [ids |-> ids, rows |-> view.rows]
        ELSE Refreshed(view.filter, view.offset)

(* Enter pins the candidate under the cursor, if it still has a record;    *)
(* esc and tab let go of it.                                               *)
OpenDetail ==
  /\ task.pc = "idle" /\ detail.link = None
  /\ view.cursor < view.total
  /\ LET page == Page
     IN  /\ view' = [view EXCEPT !.rows = page.rows]
         /\ ids' = page.ids
         /\ detail' = IF Row \in DOMAIN page.rows /\ Known(page.ids, page.rows[Row].id)
                      THEN [id |-> page.rows[Row].id,
                            link |-> page.ids.idToLink[page.rows[Row].id]]
                      ELSE detail
  /\ UNCHANGED <<storeVars, adapterVars, task>>

CloseDetail ==
  /\ task.pc = "idle" /\ detail.link # None
  /\ detail' = [id |-> None, link |-> None]
  /\ UNCHANGED <<storeVars, adapterVars, ids, task, view>>

(* Key y: what is copied for the pinned candidate, or else the one under   *)
(* the cursor; nothing when the link was forgotten.                        *)
CopyID   == IF detail.link # None THEN detail.id ELSE Selected.id
CopyLink == IF Known(ids, CopyID) THEN ids.idToLink[CopyID] ELSE None

Keys ==
  \/ NextFilter
  \/ \E cursor \in 0..(view.total - 1) : MoveTo(cursor)
  \/ OpenDetail \/ CloseDetail

Next ==
  \/ Scheduling \/ ThrottleExpires \/ Tick \/ TickAfterEvent \/ Rebuilding \/ Keys

(* A handler of the TUI, once begun, ends: one of Rebuilding is enabled    *)
(* until it has, so that this is weak fairness of Rebuilding.              *)
HandlersEnd == []<>(task.pc = "idle")

(* Time passes, and a tick comes again and again between keys, but an      *)
(* event need not come.                                                    *)
Fairness == WF_vars(ThrottleExpires) /\ HandlersEnd /\ SF_vars(Tick)

Spec == Init /\ [][Next]_vars /\ Fairness

-----------------------------------------------------------------------------
(* Properties.                                                             *)

(* linkToID and idToLink stay each other's inverse through every prune and *)
(* fetch, and the cursor stays on a row of the page (adapter.go:385-426,   *)
(* 697-711; model.go:1183-1281).                                           *)
TypeOK ==
  /\ records \in [Links -> Tiers \cup {0}]
  /\ cache.rev <= rev /\ lastRevision <= rev
  /\ task.pc \in {"idle", "check", "index", "install", "apply"}
  /\ DOMAIN ids.idToLink = Range(ids.linkToID)
  /\ \A l \in DOMAIN ids.linkToID : ids.idToLink[ids.linkToID[l]] = l
  /\ view.cursor >= view.offset /\ view.cursor < view.offset + Visible
  /\ view.cursor = 0 \/ view.cursor < view.total

(* What y would copy is the link whose row is under the cursor, or whose   *)
(* detail is open, and a detail stays with its candidate, whatever was     *)
(* evicted, tested again and named again since (adapter.go:836,            *)
(* model.go:469, 487).                                                     *)
CopiedIsShown ==
  [][/\ (detail.link # None \/ HasSelection) /\ CopyLink # None =>
          CopyLink = IF detail.link # None THEN detail.link ELSE Selected.link
     /\ detail.link # None /\ detail'.link # None => detail'.link = detail.link]_vars

(* Once the store is quiet the index catches up with it, although a change *)
(* falls between the revision and the rows, and the throttle holds back    *)
(* the rebuild for the last one (adapter.go:294-327, 493-575).             *)
IndexCatchesUp == <>[](cache.rows = Ranked(records) /\ cache.rev = rev)
=============================================================================
