# gemsub in TLA+

gemsub is a daemon that fetches proxy share links from a list of sources, probes
each of them through its own proxy (stage 1: does the transport work; stage 2:
does Gemini, or Claude, answer through it), remembers the outcomes of the last
probes of every link, and serves the links that are worth using as
subscriptions, over HTTP and by committing them to a git repository. This
directory holds TLA+ models of it, the configurations that check them with TLC,
and proofs checked with TLAPS. Line numbers refer to the files under `src/`.

Contents: [inventory](#inventory), [modules](#modules), [runs](#runs-and-bounds),
[fairness](#fairness), [proofs](#what-is-proved),
[what the models found](#where-code-and-documentation-differ),
[what is left out](#what-is-not-modelled), [plan](#plan).

## Inventory

| Component | State | Operations | Interacts with | What is hard | What makes it correct |
|---|---|---|---|---|---|
| Probe history (`store/history.go`) | ring: capacity, count, start, samples | Push, NormalizeAndValidate, three JSON formats | one per candidate record, kept in the state file | index arithmetic of a ring resized between runs | it is the window of the newest samples |
| Candidate store (`store/store.go`, `record.go`, `config.go`) | records, pendingAbsent, pendingPresent, cycle count | StartCycle, PutWithTransition, FinishCycle, PassingFor, NetworkPassing, CandidateIndex, Stats | scheduler writes; subserver, publisher and TUI adapter read under the same lock | cycles cut short; gates over decayed, weighted histories | eviction after exactly the limit of absences; nothing served that is not listed or has not passed |
| Durable state (`store/store.go` Save, Load) | `<state>.json.gz`, its temporary file, the legacy file | Save, Load, migration of version 1 | called by the cycle's end, by shutdown and by start-up | kill or power failure between any two calls; derived fields recomputed on Load | a readable, complete snapshot at all times; a restart serves what was saved |
| Link canonicalisation (`store/canonical.go`) | none | CanonicalizeLink | store, rotation | pure | identity of a candidate |
| Scheduler loop (`scheduler/scheduler.go`) | paused, configuration, estimate; channels Trigger, pauseCh, intervalCh of one slot; ticker | Run, Pause, Resume, UpdateConfig, runCycle | control service, event bus, store, pool, publisher | every branch of a select against every call | one cycle at a time, no lost signal, ticker and estimate follow the configuration |
| Control service (`scheduler/control.go`) | running, stopping, cancel, done, activeOps | Start, Stop, Pause, Resume, Trigger, Status | main, TUI adapter | goroutine resets running after Stop began; Stop waits unlocked | one loop; Stop returns and leaves nothing |
| Candidate rotation (`scheduler/rotation.go`) | lastTested per link | PruneStale, SelectCandidates, RecordTested | inside a cycle | fairness when links come and go and probes are cancelled | every candidate probed within N/K cycles |
| Probe pool and prober (`tester/pool.go`, `probe.go`) | semaphore, counters; attempts of one probe | RunPool, Probe | store, event bus, sing-box | cancellation, retries, two stages, late answers | each dispatched candidate reports once or not at all; counters add up |
| Classifiers (`tester/classifier*.go`, `classifiercore/`, `gemini/`, `claude/`, `transport/`) | none | ordered checks of status codes, signals of a page, facts about an error | prober | combinations of stages nobody listed | only inconclusive is retried; a pass needs a working transport |
| Event bus (`events/`) | queue, mover, channel and closed flag per subscriber | Subscribe, Unsubscribe, Publish, Close | everyone | an event in the mover's hand while others append, leave or close | each event once, in each publisher's order; Publish never blocks |
| Configuration service (`config/`) | configuration, file, first-run flag | Update, Reload, Save, Get | scheduler, sources, publisher, adapter by ConfigUpdated | validate, write, swap, announce | nothing runs that was not saved; what waits for a restart is what differs |
| Sources (`source/`) | list in the configuration | FetchAll; Add, Remove, Enable | configuration service, scheduler | partial failure of a fetch | every readable source contributes |
| Publisher (`publisher/`) | working tree, index, HEAD, remote; service state and last result | Publish, rollback, single flight | store, git, scheduler, adapter | failure between file, index, commit and push | all projections in one commit, or the tree as it was |
| Subscription server (`subserver/`) | its part of the configuration | UpdateConfig, HTTP handlers over the store's projections | store, bus | takes over some fields of an update | serves a projection of the moment, in the format configured |
| TUI adapter (`tui/adapter/`) | cycle status, index cache with revision and time, opaque IDs, dirty flag | event handlers, snapshots, rows, detail, reconcile, commands | bus, store, services | the store changes between any two reads; events arrive late | an ID names one link; the cache catches up; the status is right once all events are in |
| TUI (`tui/`) | view, page, cursor, pinned detail, wizard, dialogues, pending commands | ticks, keys, answers of commands | adapter | answers that find the user elsewhere; retries of the wizard | what is copied is what is shown; every wait ends; onboarded once |
| Link parser (`parser/`) | none | Parse | scheduler, prober | pure | |
| Lifecycle (`cmd/gemsub/`) | workersStarted, contexts | start-up, shutdown, cleanup | all | order of shutdown | workers drained before the last Save |
| Logging, paths, clipboard, version | ring of log lines | | TUI | | |

How they meet in one cycle: the loop (`Run`) decides on a cycle; `runCycle`
fetches, calls `StartCycle` with the links found, lets the rotation choose
candidates and the pool probe them; each result goes through
`PutWithTransition`; `FinishCycle` commits absences unless the cycle was
cancelled; `Save` writes the snapshot; CycleFinished is published; the publisher
commits the projections. Readers take the store's lock at any time in between.

## Modules

| Module | Models | Rests on |
|---|---|---|
| `SlidingWindow` | specification: the newest samples, at most `capacity` | |
| `BoundedHistory` | `history.go`: the ring as the struct it is, its pushes, the three file formats, loads under other capacities | implements `SlidingWindow` |
| `CandidateRetention` | specification: how long a candidate is remembered | |
| `Store` | `store.go`: cycles, results, absences, servability gates, projections | implements `CandidateRetention` |
| `MCStore` | probe results and version 1 records for TLC | `Store` |
| `DurableStore` | what Save keeps of the store and Load makes of it | `Store` |
| `MCDurableStore` | its instance for TLC | `DurableStore`, `MCStore` |
| `AtomicSnapshot` | specification: a file that is replaced as a whole | |
| `SnapshotFile` | `Save` and `Load` call by call on a POSIX file system | implements `AtomicSnapshot` |
| `MCSnapshotFile` | its symmetry | `SnapshotFile` |
| `Scheduler` | `scheduler.go` and `control.go`: event loop and control service | |
| `Classification` | the stages of a probe attempt and their classifiers, as ordered checks | |
| `Cycle` | one cycle after another: fetch, rotation, pool, retries, counters | `Classification` |
| `MCCycle` | its sources, links and symmetry | `Cycle` |
| `OrderedBus` | specification: every event once to each listener, in each publisher's order | |
| `EventBus` | `events/bus.go`: queues, movers, channels (operators; no behaviour of its own) | |
| `ControlPlane` | configuration and source service, start-up and shutdown, scheduler and server as subscribers | `EventBus`; implements `OrderedBus` |
| `MCControlPlane` | its configurations | `ControlPlane` |
| `Dashboard` | the candidate view: adapter's index, IDs and snapshots, model's cursor, page and detail | |
| `MCDashboard` | its tiers and filters | `Dashboard` |
| `Console` | adapter's event loop, wizard, configuration center, commands, the service side of publishing | |
| `AtomicPublication` | specification: a repository that changes by whole publications, and its mirror | |
| `Publication` | `publisher.go` and `service.go`: single flight, transaction and rollback over working tree, index, HEAD and remote | implements `AtomicPublication` |
| `MCPublication` | its subscriptions and symmetry | `Publication` |
| `BoundedHistoryProofs`, `SchedulerProofs`, `CycleProofs`, `ControlPlaneProofs`, `DashboardProofs`, `ConsoleProofs`, `PublicationProofs` | the theorems about the module each is named for | that module |
| `StoreProofs` | those about the store and its file | `DurableStore`, `SnapshotFile` |

**Correspondence.** An action is a step between two points where another
goroutine may run: a method that holds its lock throughout is one action
(`PutWithTransition`, `Pause`), one that releases it is several (`StopBegin`,
`StopReset`, `StopEnd`). Definitions bear the names of the source; `PROJECT.json`
maps each to its lines. Operators that begin with a comment "Bug:" are wrong
variants of the definition that follows them; no specification uses them, and
each shows that some property notices the mistake.

*BoundedHistory* keeps slot arithmetic as it is (`(start + i) % capacity`) with
slices shifted by one. A save and a load is one action per format of the file:
the current one (samples in order, start 0), the older one (the whole ring) and
the bare array of samples, which UnmarshalJSON takes for a full ring
(`SaveAndLoad`, `LoadWholeRing`, `LoadArray`), each under any capacity. Samples are
model values.

*Store* takes the history as the sliding window that `BoundedHistory` is shown to
implement. A record's score, `HasPassed` and latency are functions of the window,
recomputed wherever the code recomputes them, so they are operators and not
state; of `rec.Latest` only the two Last-Known-Good fields are state. The score's
decayed weighted mean is compared with the threshold in exact integers (the decay
is 3/4, the weights are tenths). `WithSample` adds one sample in the order of the
history and multiplies the older ones by 3, where the code sums powers of the
decay: the same number, times a power of 4. An even number is compared with an odd
one, so there is no tie for float rounding to decide. `listed` and `rejected` are
history variables: no guard reads them. What the tester can report is any set of
samples that meets `ProbeAssumption`: only a pass has no category, a dead transport
passes nothing, and no probe calls a rate limit or an error of the target a
failure (classifiercore.go 82-110, classifier.go 36-66; `Classification` has the
stages).
Initially the store is empty or holds records of a version 1 file.

*DurableStore* adds the file as one whole snapshot: Save at the end of each cycle
and at shutdown, Save failing (which `runCycle` only logs), and a restart at any
moment, also mid-cycle. Load recomputes derived fields as `Reloaded` does. A
change of configured limits between two runs is covered for the ring
(`BoundedHistory`), not here.

*SnapshotFile* has one action per system call of Save: open and truncate, write,
fsync, close, rename, and an error at each; the process may be killed and the
power may fail between any two. A power failure leaves what is durable: data
after fsync (or earlier, if the kernel wrote them back), names once the directory
was committed by the kernel, since Save never syncs it. Assumed of the file
system: rename is atomic on disk; a directory commit writes the directory of the
moment.

*Scheduler* has two goroutine identities, so that an old loop may still be on
its way out while a new one starts. `pc` follows `Run` from its subscription through cycle
and select to its deferred calls. Pause and Resume are one step up to the point
where they publish their event, counted in `activeOps`; Stop is three steps.
A tick may arrive at any select: with Go 1.23 or later (`go.mod` says 1.25)
`Ticker.Reset` leaves no stale tick behind, so nothing else of the ticker is
state than its interval. `UpdateConfig` outside the loop is called only before
Start (main.go 172), which is `Configure`. What a cycle does is `Store`'s.
`late` is a history variable.

*Publication* has two callers, the scheduler and the TUI, and a tree (a function
from the publisher's files to their contents) for each of working tree, index,
HEAD and remote. One git command is one step. It succeeds; or fails without an
effect; or is killed with its effect done as its caller's context ends, and every
later command of the caller, those of the rollback included, then fails. A call
that has nothing to commit and cannot read HEAD, its context over or not, ends well
without a push ("unverified"). Files
are removed and written one by one, with an error possible at each, and a file
is replaced whole (`AtomicWriteFile` renames). The four link lists of each
projection are one file here, and the counts in `meta.json` stand for the
contents they count. `Kill` ends the process at any point. The operator edits
files, and puts them back to HEAD, while no publication is past its safety
check: an edit that falls between the check and the write is overwritten, in the
code as well. `unpushed` is what `origin/<branch>`, as known locally, lags behind
HEAD. Only the publisher commits.

*Classification* has no state. An error is the set of facts the code asks of it
(`errors.Is`, `errors.As`, texts), a page the set of signals searched for, and a
classifier the sequence of its checks, the first that applies deciding. Which
sets can occur together is given by `ErrorFacts` and the `...Signals` operators.
`executeAttempt` is the set of results an attempt may have with Claude enabled
or not, under a context that is over or not. That Gemini's outcome is the
candidate's status is how the code has it (probe.go 267-322).

*Cycle* follows `runCycleWithRunner`. Each worker has its own `pc` through
limiter, attempt, backoff, acceptance, recording, and the three reads of the
counters; the context may be over between any two. Dispatch takes a free slot of
the semaphore. Time is a counter that steps when a probe is stamped; stamps are
numbered anew when a cycle's candidates are selected, as only their order
matters. `lastTested` is
keyed by canonical links and pruned at the start of a cycle, as in the code.
`population`, `probed` and `waited` are history variables. What a result does to
the store is `Store`'s; here it is counted. Sorting is defined by rank
(`Enumerated`: the n-th member is the one with n - 1 members before it), which is
what `slices.SortFunc` with a strict order comes to. A link counts where it is seen first, in earlier
answers and in the same one (`Unseen`, the `seen` map of FetchAll).

*EventBus* and *ControlPlane*. Publish is one step that takes the list of
subscribers under the read lock, then one step for each of them, as two
publishers may overlap; a mover takes one event in its hand and sends it when
the channel has room. Update of the configuration service is persist, swap and
announce, with failure of the first and a kill between any two; the lock is
held up to the swap, which is why updates do not overlap, and the TUI, the only
caller, waits for the announcement. Main's start of the workers is three steps,
in which the configuration may be read at different moments. The server leaves its
subscription when it is shut down, or at once when it cannot listen
(`ServerStops`; main then stops). Restart begins the
process anew with what is on disk. Command-line flags are not given.

*Dashboard* lets a handler of the TUI be interrupted between any two calls into
the store: read the revision, read the rows, install them, look up the header,
apply the snapshot. The tier of a row depends on the marks of the cycle that runs:
its start makes what is not listed unservable and may lift what is listed again
(`StartCycle`), and an end, complete or not, leaves the others where they are: what a
complete one resets was lifted already, and what it counts as absent is
unservable before and after. A tick that finds nothing new does nothing; one after an
event may. The throttle is a flag set by a rebuild and cleared by time. Filtering
and naming the rows of a page go through them one by one (`OfTiers`, `Named`), as
recursive functions.

*Console* puts the event loop, the TUI's thread and the commands it runs beside
itself (publish, test, complete onboarding) next to the scheduler's cycles and
publications. A key whose effect stays in the form being edited is left out.

## Runs and bounds

| Run | Module | Question |
|---|---|---|
| `bounded_history` | `BoundedHistory` | Is the ring a sliding window, across formats and capacities? |
| `store_score` | `MCStore` | What do long histories do to a candidate's score and gates, and is it remembered as long as it should? |
| `store_policy` | `MCStore` | Does a policy rejection override any score? (Not always.) |
| `durable_restart` | `MCDurableStore` | Who is served, over cycles completed and cut short, and is it the same after a restart? |
| `snapshot_file` | `MCSnapshotFile` | Is the state file whole at every moment, under failures, kills and power loss? |
| `scheduler` | `Scheduler` | Do loop, channels and control service stay consistent; do stops, cycles and new intervals come to pass? |
| `cycle` | `MCCycle` | Is what a cycle records evidence, does it add up, is everyone probed in time, does it end? |
| `control_plane` | `MCControlPlane` | Does the bus deliver, and do settings take effect saved, announced and truthfully reported? |
| `dashboard` | `MCDashboard` | Does the candidate view name, show and copy the right candidate, and catch up? |
| `console` | `Console` | Does the TUI know what runs, onboard once, and hear the end of what it started? |
| `publication` | `MCPublication` | Are publications whole and edits safe, whatever fails or stops, and are failed pushes made up for? |
| `publication_rollback` | `MCPublication` | Can the next publication always proceed after a rollback without errors? (It cannot.) |

What they show, and why the bounds suffice:

* `bounded_history`: `TypeOK`, and `RefinesWindow`, that each push and load is
  one of the window's. Three samples are told apart from each other and from an
  empty slot; capacities 1 to 4 contain every way for a ring to be larger,
  smaller, full, partly full or rotated on load. Both are also proved for all
  capacities. 480 states.
* `store_score`: one link, a window of eight, one absence, and five results: both
  targets alike, with each of the weights that matter, and a rate limit met by the
  transport. One link is enough in this run and the next, as no operation of the
  store and no gate reads two records; the theorems have any number.
  `ThreeFailuresUnserve`: no record of passes outweighs three failures.
  `RejectedUntilPass`: a policy rejection keeps a link out until a pass of that
  service, but for the gap that `store_policy` shows. Seven passes and a rejection
  fit the window; what a longer one would change is known exactly from the
  [proofs](#what-is-proved). 4.9 million states.
* `store_policy`: the same instance, for `PolicyOverrideHolds`. Six passes, a
  region block and one rate limit violate it.
* `durable_restart`: one link, a window of three, two absences (so that a count
  can be reset half way), three results (Gemini alone, the two targets apart, a
  dead transport) and two version 1 records, one of them in the Last-Known-Good
  grace. `ServedIsListed` and `ServedHasPassed` are about every moment, before and
  after restarts; `RestartLosesOnlyGrace` relates every restart to the snapshot
  taken earlier. 221,042 states.
* `snapshot_file`: three files (the named one, the temporary one, and one only a
  durable directory still names) and two changes of the store. A fourth file was
  tried: 3.77 million states, same verdict. `PrimaryIntact` and the refinement of
  `AtomicSnapshot` are also proved for any number.
* `scheduler`: two loops, two intervals, two configuration updates (so that one
  is reverted, or overtaken while its signal waits), one Pause or Resume at a
  time still publishing.
  `OneLoop`, `SignalIsCurrent`, `TimerIsCurrent`, `PausedRunsAtMostOne` and
  `StopIsClean` are also proved without these bounds.
  `StopReturns` and `CyclesGoOn` are liveness, TLC's alone.
* `cycle`: two workers, three canonical links of which one has two raw forms and a
  fourth raw link that does not parse, a limit of two, one retry, a limiter; the
  second source answers fully, emptily or not at all. Three links with a limit of
  two are the least for which selection has to be fair; two workers for one to
  drop what the other records. Claude is disabled in this run, as the two stages
  differ in which results are possible and not in what a worker does with them; the
  theorems cover both. 844,397 states. `NoStarvation` counts complete
  cycles over an unchanged population, with cancelled cycles anywhere between.
* `control_plane`: two updates, so that one may still wait for a subscriber
  when the next is announced, a channel that one event fills (the code's have 64: full and not full
  are what matters). A cycle publishes only when nothing waits for any subscriber
  (`MaxQueue` is 1), so that behind another event only updates wait, which have no such
  bound; nor have the theorems. First runs and later ones. 474,251 states. `NothingUnsavedIsApplied` compares
  each subsystem's configuration with the file; `PendingRestartIsTruthful` speaks
  of processes that began with a file (see
  [below](#where-code-and-documentation-differ)).
* `dashboard`: two links, one recorded at first, two tiers, two filters, a page of
  one row and snapshots of two rows: the least for which a page is not the whole
  list and an ID is given twice. Four changes of the store, after which it is
  quiet; the TUI goes on. 1.9 million states.
* `console`: two cycles, each begun, as each change of a setting and each publication
  the user asks for is, when no event waits (`MaxQueue` is 1; the events in the course
  of a cycle and of a publication queue up, and the theorems have no such bound); all
  views, dialogues and wizard pages. A second cycle is needed for the adapter's
  guess about the first to be wrong about it. 435,943 states.
* `publication`: two subscriptions, so that the tree can be half written, one
  legacy file, two contents (interchangeable, hence the symmetry) and two cycle
  numbers, which is what it takes for a publication with nothing new but its
  number; repositories with and without a commit, with and without the legacy
  file; 1.7 million states, the deepest after 78 steps. `ImplementsAtomicPublication`: HEAD and remote change
  by whole publications whose counts are those of the files beside them.
  `RollbackRestores` speaks of rollbacks that found a HEAD and report no error,
  `ManualEditsKept` of edits up to the safety check, `SuccessIsPushed` of calls
  that ended well, but for those that had nothing to commit and could not read HEAD
  (see [below](#where-code-and-documentation-differ)).

Every property of a passing run
has a mutant in `PROJECT.json`: a plausible bug in a mapped definition for which
TLC finds the property violated under the same configuration.

## Fairness

`Scheduler` (`LiveSpec`):

* weak fairness of a loop's own steps, of Stop's and of a call about to publish:
  Go schedules a runnable goroutine, none of these steps holds or waits for a
  lock someone else keeps, and Publish never blocks;
* a cycle ends (part of the above): each probe and each fetch has a timeout, and
  the pool waits for nothing else, which is what `CycleEnds` shows. The loop then
  publishes before it resets the ticker, and the scheduler's context puts no
  timeout on git: that `git push` ends (it does when the connection breaks) is an
  assumption about the network;
* weak fairness of the tick: the ticker is reset only by a cycle, a resume or a
  new interval, and only finitely many of the latter two happen while the
  scheduler stays unpaused;
* strong fairness of three branches of the select: Go chooses among the ready
  branches uniformly at random, so a branch ready at infinitely many selects is
  taken. It is needed where other branches stay ready: for `ctx.Done`,
  for the event queue and for the interval.

`Cycle`: weak fairness of the running cycle as a whole. Each call in it ends, the
network's by their timeouts; no fairness among workers is needed, as each has
finitely many steps.

`ControlPlane`: weak fairness of publishers and movers, of the server's receive,
and of the end of a cycle; strong fairness of the scheduler's receive, again for
the select, which is not ready while a cycle runs. Start-up, updates and shutdown
need not happen.

`Dashboard`: weak fairness of time; that a handler, once begun, ends (`HandlersEnd`:
its steps wait for the store's lock only, which nobody keeps; one of them is enabled
until it has ended and it has finitely many, so that this is weak fairness of them,
in a form that TLC evaluates without ENABLED); and strong fairness of the tick, which the TUI's own timer sends again and again while keys come between.

`Console`: weak fairness of the event loop, of the TUI's publication and of its
commands (publishing has a deadline of 60 s, a test of 15 s), and of the answers.

No fairness is assumed of users: Start, Pause, Resume, Trigger, Stop, keys and
updates may come or not.

## What is proved

All proofs are of the modules as TLC runs them, for all constants that meet the
named assumptions, which TLC evaluates in the runs. Most say that sizes are
positive and model values distinct (`CapacitiesAssumption`, `NoSampleAssumption`,
`StoreAssumption`, `NoRecordAssumption`, `FileAssumption`, `SchedulerAssumption`,
`DashboardAssumption`, `ConsoleAssumption`). Four say a little more:

* `ControlAssumption`: the bus has the subscribers and publishers that main.go
  gives it; the default configuration has no source and a saved one has some; no
  event is the placeholder of an empty hand.
* `PublicationAssumption`: a legacy file is none of those the publisher writes;
  what it writes is never what stands for an edit or for no file.
* `CycleAssumption`: finitely many workers and links, links numbered from 1 (0 is
  the key of a link without an entry), sources that answer with sequences of
  links. Whether there is a limiter, Claude or a probe limit is free.
* `ProbeAssumption`: what the tester and version 1 files never say of a candidate
  (above, under *Store*). Only the three theorems about scores use it.

* **BoundedHistoryProofs.** `HistoryWellFormed`: the ring's invariant for every
  capacity. `NormalizeRepairs`: NormalizeAndValidate makes any ring a file may
  hold well formed. `HistoryIsWindow`: the ring implements the sliding window.
  The invariant is `WellFormed` itself; the work is in arithmetic modulo the
  capacity (`ModWrap`, `ModShift`, `SlotProperties`) and in three lemmas about
  which sample ends up at which position (`PushSlides`, `RecopyKeepsNewest`,
  `WholeRingKeepsNewest`).
* **StoreProofs.** `StoreTypeOK`; `NothingUnlistedServed`, that no projection holds
  a link the newest cycle did not list; `StoreRetains`, that the store implements
  `CandidateRetention`. Neither is inductive: a link served must be known, and a
  known link that is unlisted must be pending absent or carry a positive count, so
  the inductive invariant ties marks and counts to `listed`, separately for a
  running cycle and for what a completed or a cancelled one leaves.
  The same module proves three more groups of theorems.
  * Restarts: `RestartLosesNobodyElse`, `RestartsServeAsSaved`, `DurableTypeOK`. A
    restart may change who is served only where Load recomputes what Put did not
    compute, so the invariant says what Load relies on, of the records and of those
    on disk: the stored Claude outcome is that of the newest sample unless that is
    not a verdict on Claude (`ClaudeAgrees`), and only a migrated record that was
    never probed is in the grace (`Graceful`). Load then keeps every gate of a
    record but the grace (`ReloadedGates`).
  * Scores: `ServedOnAPass`, `FailuresUnserve`, `RejectionsStand`, and, for gate 2 alone,
    `GeminiOverride`, all within one process and across restarts. The score is a
    recursive function over the samples of the history; induction over them is stated with a set of numbers
    (`SetInduction`, from the well-foundedness of < on the naturals), for which no
    operator has to be instantiated. `SampleScored` bounds what one sample does to a
    score's distance from the threshold (`Excess`), `StaysBelow` carries a
    distance below it through any number of samples that are not passes, and
    `OldestStillWeigh` says how much the oldest samples still count. The invariant,
    `EvidenceOK`, says that every sample is one the tester reports and that each
    rejection to be remembered has a place in the history, or before it, after
    which nothing passed (`SinceRejection`).
  * The capacities in them are where the statements stop being true, and the
    daemon's is 10. Three failures unserve in windows of up to 16 samples; in one of
    17, fourteen passes outweigh three timeouts. A rejection followed by one failure
    stands in windows of up to 11; in one of 12, ten passes before them reach 0.65.
    `ServedOnAPass` has no such bound.
  * The file: `SnapshotFileTypeOK`, `SnapshotFileIntact`, `SnapshotFileIsAtomic`. The
    invariant (`FileIInv`) says that whatever the primary name names, now or durably,
    is whole and durable, and that the temporary file is never one of these, and is as
    far as `pc` says: what a power failure keeps must be safe already before it
    happens.
* **SchedulerProofs.** `SchedulerTypeOK`, `AtMostOneLoop`, `NewestSignal`,
  `TimerFollowsConfig`, `AtMostOneLateCycle`, `StopLeavesNothing`. The invariant has
  four parts: `Live` (only the current loop is inside Run, and the service's
  flags follow where it is), `Drained` (while Stop is between its reset and its
  end the state is clean), `Signals` (the two signal properties) and `Lateness`
  (a cycle begun late leaves the loop unable to begin another before it reads the
  flag). Each has a lemma per group of actions.

* **CycleProofs.** `CycleTypeCorrect`, `RecordedResultsAreEvidence`,
  `CompleteCyclesAreAccountedFor`, `RotationStarvesNobody`. The invariant has
  three parts beside the types and what holds between cycles (`Quiet`).
  `Working` says of each worker what it holds: a result that came back while the
  context was live is one that no cancellation decided (`Judged`), and an event's
  counters, as far as they are read, add up (`Read`). `Counted` balances
  the books: while the context is live, what is dispatched is recorded or in hand;
  a cancellation turns the equation into an inequality, which is why a cycle is
  complete only if the context is looked at again after the pool returned.
  `Rotating` is the argument of fairness: by `Owed`, a link that waited w cycles
  has w times ProbeLimit links of the population that were tested after it; there
  are at most N - 1 of those, hence the bound (`WaitBound`). A complete cycle that
  passes over a link adds ProbeLimit *new* ones, since selection takes only links
  that were tested no later (`SelectionFacts`); `PassedOver` keeps the two groups
  apart while the cycle runs and `Covered` says that it reaches all it selected.
  What a sort gives (`EnumeratedIsInOrder`, `SubsequenceFacts`), that renumbering
  keeps the order of instants (`RenumberedFacts`) and what the ordered checks of
  the classifiers can come to (`AttemptResultFacts`) are lemmas of their own.
* **ControlPlaneProofs.** `PlaneTypeCorrect`, `NothingUnsaved`,
  `PendingRestartTruthful`, `SavedNeverGoesBack`, `BusIsOrdered`. A configuration
  that a subsystem takes over came through a queue, a mover's hand and a channel,
  so the invariant says of *all* of these that they hold nothing newer than the
  file (`Delivery` over `Announced`), and relates file, service and update by the
  phase the update is in (`Persisted`). `BusIsOrdered` maps each step of the bus:
  what is pending for a subscriber is channel, hand and queue one after the other,
  so that a mover's step stutters (`BusStepRefines` and a lemma per operation).
* **DashboardProofs.** `DashboardTypeCorrect`, `CopiedStaysShown`,
  `IndexNeverClaimsTooMuch`. A row on the screen,
  one of a snapshot that is not applied yet and a pinned detail each keep an ID while
  the adapter forgets IDs and gives new ones. The invariant says of all three that
  they are `Honest`: their ID was given, and names their link if it names anything.
  That survives because the counter never goes back, so that an ID once forgotten
  names nothing ever after: of any two states of the maps, one is `Later` than the
  other (`AssignedFacts`, `PrunedFacts`, `LaterChain`), and what was honest before
  stays so (`LaterHonest`). `IDMaps` has the maps inverse to each other and below the
  counter. Naming and filtering are recursive functions over a page, whose
  properties (`NamedFacts`, `OfTiersType`) are inductions with `SetInduction`, as for
  scores; `ScrollFacts` keeps the cursor on the page. `IndexNeverClaimsTooMuch` is the
  safe half of `IndexCatchesUp`: an index that carries the store's revision holds the
  store's rows. It needs to be said of the rows read but not installed, too
  (`ReadIsCurrent`), and fails if the revision is read after the rows
  (`InstallRevisionLate`).
* **ConsoleProofs.** `ConsoleTypeCorrect`, `ConsoleStatusIsCurrent`,
  `ConsoleOnboardedOnce`, `ConsoleEventsAlternate`. An empty queue says nothing about the queue before, so
  the invariant speaks of the last event of each kind that waits: if there is one
  it tells the state of the moment, and otherwise the adapter knows it already
  (`CycleTold`, `PublicationTold`). `Onboarding` ties the wizard's page and its
  command to whether the file is written and the workers run: the file is written at
  most once, and no worker runs before it is. What waits is moreover a history without
  gaps (`EventsAlternate`): of two waiting starts or ends of cycles in a row, and
  likewise of publications, one is a start and the other an end. That is inductive
  beside the invariant, since an event is emitted exactly when it differs from the
  last news of its kind.
* **PublicationProofs.** `PublicationTypeCorrect`, `SuccessMeansPushed`,
  `EditsAreKept`, `RollbackIsComplete`, `PublicationIsAtomic`. `SingleFlight` makes
  the trees those of one call; `Own` says that while it is past its safety check
  nothing in working tree, index and HEAD is the operator's; `Progress` says by
  the place of the call what is written, staged and committed so far, `Undone`
  the same backwards for the rollback, and `Pushed` that HEAD and remote differ
  only if the next publication finds out. HEAD can then only change by a
  commit of an index that is whole.

Only model-checked, and why:

* liveness (`StopReturns`, `CyclesGoOn`, `CycleEnds`,
  `HotSettingsArrive`, `IndexCatchesUp`, `AnswersArrive`): fairness and ENABLED are
  out of the prover's reach;
* `PolicyOverrideHolds` and `RollbackHeals`, which do not hold.

## Where code and documentation differ

Two runs show a difference with a counterexample.

`store_policy`: the policy gate asks for the latest conclusive sample of a service.
For Claude, `LatestConclusiveFor` also takes a sample whose Claude outcome is
inconclusive, if the transport failed or Gemini failed on its own account
(history.go 413), though its comment says "most recent conclusive (StatusPassed or
StatusFailed) sample". When stage 1 meets a rate limit, that sample is inconclusive
altogether: it hides a region block or a denial before it, costs only half a pass,
and a candidate with six passes to its name is served to Claude again (0.653
against 0.65). Ticket 09 has the override disqualify such candidates "regardless of
historical score". `RejectedUntilPass` names this gap as its only exception, and
`RejectionsStand` proves that there is no other; for Gemini the override holds as the
ticket has it (`GeminiOverride`).

`publication_rollback`: in a repository without a
commit the rollback unstages with one `git rm --cached` over all files it is about
to remove, legacy files included. Those are not in the index, git refuses the
whole command, and the error is dropped (publisher.go 353): after a failing
`git commit` (no identity configured, a hook) the files are gone but stay staged,
and the safety check refuses every later publication. Ticket 26 asks that later
publications "are not blocked by `checkWorkingTreeSafety` following a transient
publication failure".

Met while modelling, each visible in the definition named, without a run:

* After a stage 1 timeout the code only lowers a score; a candidate with a pass
  before it stays at 0.657 and keeps being served (`ScoreFor`, store.go 252).
  Ticket 23: "Dead proxy; rejected at Stage 1, never servable".
* The Last-Known-Good grace that migration of a version 1 record preserves is
  recomputed from a one-sample history by the next Load, and gone (`Reloaded`,
  store.go 527). Ticket 28 promises that a round trip preserves 100 % of the state;
  `RestartLosesOnlyGrace` says that this is all a restart loses.
* A trigger queued during a cycle is dropped if Pause comes before the loop
  receives it, also after Resume (`ReceiveTrigger`, scheduler.go 383); the comment
  at scheduler.go 41 says it "isn't lost".
* `-limit` on the command line is applied to the configuration the scheduler is
  made with (main.go 94-122), which `startWorkers` replaces by the service's
  before the first cycle (main.go 167-173; `ConfigureScheduler`).
* An update that falls between `startWorkers`' read and a subscriber's Subscribe
  is never applied by that subscriber (stages "subscribing" of `ControlPlane`).
* In a process that began without a file, `PendingRestartFields` compares with the
  defaults and lists what the wizard chose, though the server was started with it;
  hence the condition in `PendingRestartIsTruthful`.
* The rows on screen, unlike the index, need not catch up: when the throttle
  expires between the two rebuilds of one snapshot, the rows are those of the
  first and the index that of the second, and no later tick finds it stale
  (`Continue`; the comment at adapter.go 310-312 speaks of the index only).
* The configuration center may keep showing a publication under way: the event is
  sent before `publishing` is reset (publisher/service.go 289), the tick it causes
  may come between, and nothing marks the reset as new (`Release`, `Tick`). The
  test at model_test.go 1659 expects "Idle" after the event, sent by itself.
* A publication with nothing to commit whose first `git rev-parse` fails reports
  success, for isAheadOfRemote takes any failure for a repository without commits
  (publisher.go 544; `Ahead`): what an earlier publication failed to push then waits
  for the next one.
* When the wizard's configuration is saved but the runtime cannot be started, esc
  and c leave the wizard, with no way back to it in this process (`LeaveWizard`).

## What is not modelled

* `Store`: ranking by latency, Stats, link canonicalisation: functions of the state
  that change nothing. A rank by tier and link is in `Dashboard`.
* How text becomes a signal: normalisation and phrases of the classifiers, URL
  normalisation, HTTP and decoding of a source's answer, name servers; the JSON
  formats but for what Load recomputes.
* The rule engine (`tester/ruleengine`): no code outside its tests uses it.
* `parser`: a pure function from a link to an outbound configuration; `Cycle` has
  which links it accepts.
* `Scheduler`: the order in which Pause's and Resume's events arrive (the adapter
  reads Status instead). Metrics of a cycle other than its counters.
* `config.Service.Reload` and `Save`: nothing in the daemon calls them. The rules of
  Validate field by field; flags of the command line; the legacy file's path.
* `Publication`: the publisher's configuration, which Publish reads twice (once to
  validate, once to act) and which a connection test may replace in between;
  files of others that are staged already and go with the commit; comparison and
  masking of remote URLs. `Console` has the service's flag, events and answers.
* TUI: rendering, text input, the log and diagnostics views, masking of URLs, flags
  of countries. Logging, paths, clipboard and version: they read, or draw.
* A bus queue grows without bound if its subscriber never reads; each subscriber
  of the daemon reads as long as it listens.

## Plan

The components that keep state are modelled, and every safety property of the
passing runs is a theorem. What is left, most important first:

1. `store.Stats` and the ranking by latency, for the counts `meta.json` reports.
2. That the rows on screen are rows of the index in its order: today the theorems
   say that each row names its own link, not which rows a page has.
3. The rules of the rule engine, once the daemon uses it.
