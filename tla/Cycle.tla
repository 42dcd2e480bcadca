-------------------------------- MODULE Cycle --------------------------------
(***************************************************************************)
(* One test cycle after another: runCycleWithRunner of                     *)
(* internal/scheduler/scheduler.go, the fetch of internal/source/fetch.go, *)
(* the least-recently-tested rotation of scheduler/rotation.go, the worker *)
(* pool of internal/tester/pool.go and the retry loop of tester/probe.go.  *)
(*                                                                         *)
(* The cycle's context may be cancelled at any moment (stop, or a cycle    *)
(* that is aborted).  A link is raw, as a source writes it; several raw    *)
(* links may have one canonical form.  Canonical links are numbered in     *)
(* their order.  An instant is a natural number, and only the order of     *)
(* instants is looked at.                                                  *)
(***************************************************************************)
EXTENDS Classification, FiniteSets, SequencesExt

CONSTANTS
  Slots,        (* one for each probe that may be in flight (Concurrency) *)
  Sources,      (* the subscriptions configured, in their order *)
  Offers,       (* what each of them may answer: sequences of raw links *)
  Canonical,    (* raw link -> canonical link *)
  Parsable,     (* the raw links parser.Parse accepts *)
  ProbeLimit,   (* candidates probed in a cycle, 0 for all *)
  MaxRetries,   (* retries of a probe *)
  RateLimited,  (* is there a limiter? *)
  ClaudeEnabled

Raw == DOMAIN Canonical
Links == {Canonical[r] : r \in Raw}

FetchAttempts == 3

(* The members of a set, one after the other, by a strict order on it.     *)
Enumerated(S, before) ==
  [n \in 1..Cardinality(S) |->
     CHOOSE i \in S : Cardinality({j \in S : <<j, i>> \in before}) = n - 1]

(* What a sequence has at some of its positions, in its order.             *)
Subsequence(seq, positions) ==
  LET order == Enumerated(positions,
                          {p \in positions \X positions : p[1] < p[2]})
  IN  [n \in 1..Cardinality(positions) |-> seq[order[n]]]

ASSUME CycleAssumption ==
  /\ Slots # {} /\ IsFiniteSet(Slots)
  /\ Links \subseteq Nat \ {0} /\ IsFiniteSet(Raw)
  /\ Parsable \subseteq Raw
  /\ ProbeLimit \in Nat /\ MaxRetries \in Nat
  /\ RateLimited \in BOOLEAN /\ ClaudeEnabled \in BOOLEAN
  /\ Sources \in Seq(DOMAIN Offers)
  /\ Offers \in [DOMAIN Offers -> SUBSET Seq(Raw)]

VARIABLES
  stage,       (* where the cycle is *)
  ctxDone,     (* is the cycle's context over? *)
  left,        (* the sources still to fetch, *)
  try,         (* attempts made on the first of them, *)
  links,       (* what was fetched, without duplicates, *)
  errs,        (* and whether a source failed *)
  selected,    (* the candidates of this cycle, *)
  next,        (* the first of them that is not dispatched, *)
  dispatched,  (* and what RunPool is to return *)
  pc,          (* where each worker is, *)
  cand,        (* with which candidate, *)
  start,       (* since when (Result.TestedAt), *)
  attempt,     (* its retries, *)
  result,      (* the result it has, *)
  seen,        (* and the counters it has read for its event *)
  clock,
  lastTested,  (* the rotation: canonical link -> instant, 0 for no entry *)
  tally,       (* the cycle's counters by status, *)
  progress,    (* the pool's counters by status *)
  completed,   (* and its counter of probes that completed *)
  event,       (* the last ProbeCompleted *)
  finished,    (* the last CycleFinished *)
  population,  (* history: the candidates of the last cycle that loaded some, *)
  probed,      (* the canonical links recorded in this cycle, *)
  waited       (* and since how many cycles a link of the population waits *)

fetchVars  == <<left, try, links, errs>>
poolVars   == <<selected, next, dispatched>>
workerVars == <<pc, cand, start, attempt, result, seen>>
countVars  == <<tally, progress, completed, event>>
historyVars == <<population, probed, waited>>
vars == <<stage, ctxDone, fetchVars, poolVars, workerVars, clock, lastTested,
          countVars, finished, historyVars>>

Statuses == {Passed, Failed, Inconclusive}
Zero == [s \in Statuses |-> 0]
Total(count) == count[Passed] + count[Failed] + count[Inconclusive]

NoResult == [status |-> NotProbed, retryable |-> FALSE, transport |-> "unknown",
             gemini |-> NotProbed, claude |-> NotProbed, cancelled |-> FALSE]
NoCand == "none"
NoEvent == [completed |-> 0, passed |-> 0, failed |-> 0, inconclusive |-> 0]
NotFinished == [total |-> 0, completed |-> 0, counts |-> Zero, cancelled |-> TRUE]

Init ==
  /\ stage = "idle" /\ ctxDone = FALSE
  /\ left = <<>> /\ try = 0 /\ links = <<>> /\ errs = FALSE
  /\ selected = <<>> /\ next = 1 /\ dispatched = FALSE
  /\ pc = [w \in Slots |-> "free"]
  /\ cand = [w \in Slots |-> NoCand]
  /\ start = [w \in Slots |-> 0]
  /\ attempt = [w \in Slots |-> 0]
  /\ result = [w \in Slots |-> NoResult]
  /\ seen = [w \in Slots |-> NoEvent]
  /\ clock = 0
  /\ lastTested = [l \in Links |-> 0]
  /\ tally = Zero /\ progress = Zero /\ completed = 0 /\ event = NoEvent
  /\ finished = NotFinished
  /\ population = {} /\ probed = {} /\ waited = [l \in Links |-> 0]

(* Cancelling the cycle: by stopping the scheduler, at any time.           *)
Cancel ==
  /\ stage # "idle" /\ ~ctxDone
  /\ ctxDone' = TRUE
  /\ UNCHANGED <<stage, fetchVars, poolVars, workerVars, clock, lastTested,
                 countVars, finished, historyVars>>

-----------------------------------------------------------------------------
(* Fetching.                                                               *)

(* The cycle reads its configuration once: which sources are enabled.      *)
Start ==
  /\ stage = "idle"
  /\ stage' = "fetching"
  /\ ctxDone' = FALSE
  /\ \E S \in SUBSET (DOMAIN Sources) \ {{}} :
       left' = Subsequence(Sources, S)
  /\ try' = 0 /\ links' = <<>> /\ errs' = FALSE
  /\ finished' = NotFinished
  /\ UNCHANGED <<poolVars, workerVars, clock, lastTested, countVars, historyVars>>

(* Without an enabled source, or with nothing but errors, the store is     *)
(* left as it is; a cycle whose sources answered with no link goes on.     *)
CycleFinished(total, done, counts, cancelled) ==
  finished' = [total |-> total, completed |-> done, counts |-> counts,
               cancelled |-> cancelled]

EndEarly ==
  /\ stage' = "idle"
  /\ ctxDone' = FALSE
  /\ CycleFinished(0, 0, Zero, ctxDone)
  /\ errs' = FALSE
  /\ UNCHANGED <<left, try, links, poolVars, workerVars, clock, lastTested,
                 countVars, historyVars>>

(* A link counts where it is seen first.                                   *)
Unseen(more) ==
  {i \in DOMAIN more : /\ more[i] \notin ToSet(links)
                       /\ \A j \in DOMAIN more : more[j] = more[i] => i <= j}

Fetched(more, failed) ==
  /\ links' = links \o Subsequence(more, Unseen(more))
  /\ errs' = (errs \/ failed)
  /\ try' = 0
  /\ UNCHANGED <<stage, ctxDone, poolVars, workerVars, clock, lastTested,
                 countVars, finished, historyVars>>

FetchOne ==
  /\ stage = "fetching" /\ left # <<>> /\ ~ctxDone
  /\ left' = Tail(left)
  /\ \E answer \in Offers[Head(left)] : Fetched(answer, FALSE)

(* A network error, 429 or 5xx is tried again after a second; other status *)
(* codes are not.                                                          *)
FetchAgain ==
  /\ stage = "fetching" /\ left # <<>> /\ ~ctxDone
  /\ try + 1 < FetchAttempts
  /\ try' = try + 1
  /\ UNCHANGED <<stage, ctxDone, left, links, errs, poolVars, workerVars, clock,
                 lastTested, countVars, finished, historyVars>>

FetchFails ==
  /\ stage = "fetching" /\ left # <<>> /\ ~ctxDone
  /\ left' = Tail(left)
  /\ Fetched(<<>>, TRUE)

(* A cancellation ends the fetch: with what came before it.                *)
FetchCancelled ==
  /\ stage = "fetching" /\ left # <<>> /\ ctxDone
  /\ left' = <<>>
  /\ Fetched(<<>>, TRUE)

-----------------------------------------------------------------------------
(* The rotation.                                                           *)

Parsed == Subsequence(links, {i \in DOMAIN links : links[i] \in Parsable})

(* An entry goes with its link; unparsable links count as present.         *)
PruneStale(set) ==
  [l \in Links |-> IF \E r \in set : Canonical[r] = l THEN lastTested[l] ELSE 0]

(* No probe runs now: the instants are numbered anew in their order.       *)
Renumbered(instants) ==
  [l \in Links |-> Cardinality({instants[m] : m \in Links} \cap 1..instants[l])]

(* Never tested first, then by the instant of the last test; ties by the   *)
(* canonical link, then by the position in the list.                       *)
SelectCandidates(candidates, tested) ==
  LET key(i) == tested[Canonical[candidates[i]]]
      link(i) == Canonical[candidates[i]]
      before(i, j) ==
        \/ key(i) < key(j)
        \/ key(i) = key(j) /\ link(i) < link(j)
        \/ key(i) = key(j) /\ link(i) = link(j) /\ i < j
      at == DOMAIN candidates
      order == Enumerated(at, {p \in at \X at : before(p[1], p[2])})
      limit == IF ProbeLimit > 0 /\ ProbeLimit < Len(candidates)
               THEN ProbeLimit ELSE Len(candidates)
  IN  [n \in 1..limit |-> candidates[order[n]]]

(* StartCycle on the store, the rotation, CandidatesLoaded.                *)
Load ==
  /\ stage = "fetching" /\ left = <<>>
  /\ links # <<>> \/ ~errs
  /\ stage' = "probing"
  /\ LET kept == Renumbered(PruneStale(ToSet(links)))
     IN  /\ lastTested' = kept
         /\ clock' = Cardinality({kept[l] : l \in Links} \ {0})
         /\ selected' = SelectCandidates(Parsed, kept)
  /\ next' = 1 /\ dispatched' = TRUE
  /\ tally' = Zero /\ progress' = Zero /\ completed' = 0 /\ event' = NoEvent
  /\ population' = ToSet(Parsed)
  /\ probed' = {}
  /\ waited' = IF ToSet(Parsed) = population THEN waited ELSE [l \in Links |-> 0]
  /\ links' = <<>> /\ errs' = FALSE
  /\ UNCHANGED <<ctxDone, left, try, workerVars, finished>>

Abort ==
  /\ stage = "fetching" /\ left = <<>>
  /\ links = <<>> /\ errs
  /\ EndEarly

(* No source is enabled.                                                   *)
StartWithoutSource ==
  /\ stage = "idle"
  /\ EndEarly

-----------------------------------------------------------------------------
(* The workers.                                                            *)

Goes(w, from, to) == pc[w] = from /\ pc' = [pc EXCEPT ![w] = to]

(* The dispatching loop waits for a free slot or for the context; when     *)
(* both are there it may take either.                                      *)
Dispatch(w) ==
  /\ stage = "probing" /\ dispatched /\ next <= Len(selected)
  /\ Goes(w, "free", "new")
  /\ cand' = [cand EXCEPT ![w] = selected[next]]
  /\ next' = next + 1
  /\ UNCHANGED <<stage, ctxDone, fetchVars, selected, dispatched, start, attempt,
                 result, seen, clock, lastTested, countVars, finished, historyVars>>

StopDispatching ==
  /\ stage = "probing" /\ dispatched /\ next <= Len(selected) /\ ctxDone
  /\ dispatched' = FALSE
  /\ UNCHANGED <<stage, ctxDone, fetchVars, selected, next, workerVars, clock,
                 lastTested, countVars, finished, historyVars>>

restOfWorker == <<stage, ctxDone, fetchVars, poolVars, lastTested, countVars,
                  finished, historyVars>>

Begin(w) ==
  /\ Goes(w, "new", "limiter")
  /\ clock' = clock + 1
  /\ start' = [start EXCEPT ![w] = clock + 1]
  /\ UNCHANGED <<restOfWorker, cand, attempt, result, seen>>

(* The limiter refuses when the context is over, and only then.            *)
Limiter(w) ==
  /\ ~(RateLimited /\ ctxDone)
  /\ Goes(w, "limiter", "attempt")
  /\ UNCHANGED <<restOfWorker, clock, cand, start, attempt, result, seen>>

(* A probe given up while it waits has no evidence of any service.         *)
GivesUp(w, from) ==
  /\ ctxDone
  /\ Goes(w, from, "returned")
  /\ result' = [result EXCEPT ![w] = [NoResult EXCEPT !.status = Inconclusive,
                                                     !.cancelled = TRUE]]
  /\ UNCHANGED <<restOfWorker, clock, cand, start, attempt, seen>>

LimiterRefuses(w) == RateLimited /\ GivesUp(w, "limiter")

(* Retries that are used up leave the candidate inconclusive; the result   *)
(* no longer says whether it was one to retry.                             *)
Attempt(w) ==
  \E r \in AttemptResults[ClaudeEnabled][ctxDone] :
    /\ IF r.retryable /\ attempt[w] < MaxRetries
       THEN /\ Goes(w, "attempt", "backoff")
            /\ UNCHANGED result
       ELSE /\ Goes(w, "attempt", "returned")
            /\ result' = [result EXCEPT ![w] =
                 [r EXCEPT !.status = IF r.retryable THEN Inconclusive ELSE @,
                           !.retryable = FALSE]]
    /\ UNCHANGED <<restOfWorker, clock, cand, start, attempt, seen>>

(* Bug: the retries are not counted.                                       *)
RetryUncounted(w) ==
  /\ Goes(w, "backoff", "limiter")
  /\ UNCHANGED <<restOfWorker, clock, cand, start, attempt, result, seen>>

Retry(w) ==
  /\ Goes(w, "backoff", "limiter")
  /\ attempt' = [attempt EXCEPT ![w] = @ + 1]
  /\ UNCHANGED <<restOfWorker, clock, cand, start, result, seen>>

BackoffCancelled(w) == GivesUp(w, "backoff")

(* Bug: a result is accepted whatever became of the context.               *)
AcceptAlways(w) ==
  /\ Goes(w, "returned", "recording")
  /\ UNCHANGED <<restOfWorker, clock, cand, start, attempt, result, seen>>

(* A result that comes back after the context is over is dropped.          *)
Accept(w) ==
  /\ ~ctxDone
  /\ Goes(w, "returned", "recording")
  /\ UNCHANGED <<restOfWorker, clock, cand, start, attempt, result, seen>>

Drop(w) ==
  /\ ctxDone
  /\ Goes(w, "returned", "free")
  /\ cand' = [cand EXCEPT ![w] = NoCand]
  /\ start' = [start EXCEPT ![w] = 0]
  /\ attempt' = [attempt EXCEPT ![w] = 0]
  /\ result' = [result EXCEPT ![w] = NoResult]
  /\ UNCHANGED <<restOfWorker, clock, seen>>

(* Bug: only the first test of a link is remembered.                       *)
RecordTestedOnce(link, at) ==
  lastTested' = [lastTested EXCEPT ![link] = IF @ = 0 THEN at ELSE @]

(* RecordTested keeps the latest instant a canonical link was tested at.   *)
RecordTested(link, at) ==
  lastTested' = [lastTested EXCEPT ![link] = IF at > @ THEN at ELSE @]

(* onResult (the store, the rotation, the cycle's counter), and the pool's *)
(* counter of the status.                                                  *)
Record(w) ==
  /\ Goes(w, "recording", "recorded")
  /\ RecordTested(Canonical[cand[w]], start[w])
  /\ tally' = [tally EXCEPT ![result[w].status] = @ + 1]
  /\ progress' = [progress EXCEPT ![result[w].status] = @ + 1]
  /\ probed' = probed \cup {Canonical[cand[w]]}
  /\ waited' = [waited EXCEPT ![Canonical[cand[w]]] = 0]
  /\ cand' = [cand EXCEPT ![w] = NoCand]
  /\ start' = [start EXCEPT ![w] = 0]
  /\ attempt' = [attempt EXCEPT ![w] = 0]
  /\ result' = [result EXCEPT ![w] = NoResult]
  /\ UNCHANGED <<stage, ctxDone, fetchVars, poolVars, seen, clock, completed,
                 event, finished, population>>

(* The event's counters are read one after the other, beside the others'   *)
(* additions.                                                              *)
CompleteOne(w) ==
  /\ Goes(w, "recorded", "completed")
  /\ completed' = completed + 1
  /\ seen' = [seen EXCEPT ![w].completed = completed + 1]
  /\ UNCHANGED <<stage, ctxDone, fetchVars, poolVars, cand, start, attempt, result,
                 clock, lastTested, tally, progress, event, finished, historyVars>>

ReadPassed(w) ==
  /\ Goes(w, "completed", "passed read")
  /\ seen' = [seen EXCEPT ![w].passed = progress[Passed]]
  /\ UNCHANGED <<restOfWorker, clock, cand, start, attempt, result>>

ReadFailed(w) ==
  /\ Goes(w, "passed read", "failed read")
  /\ seen' = [seen EXCEPT ![w].failed = progress[Failed]]
  /\ UNCHANGED <<restOfWorker, clock, cand, start, attempt, result>>

PublishProgress(w) ==
  /\ Goes(w, "failed read", "free")
  /\ event' = [seen[w] EXCEPT !.inconclusive = progress[Inconclusive]]
  /\ seen' = [seen EXCEPT ![w] = NoEvent]
  /\ UNCHANGED <<stage, ctxDone, fetchVars, poolVars, cand, start, attempt, result,
                 clock, lastTested, tally, progress, completed, finished, historyVars>>

-----------------------------------------------------------------------------
(* The end of the cycle.                                                   *)

(* Bug: the workers that are still at it are not waited for.               *)
PoolReturnedEarly ==
  /\ stage = "probing"
  /\ ~dispatched \/ next > Len(selected)

PoolReturned ==
  /\ stage = "probing"
  /\ ~dispatched \/ next > Len(selected)
  /\ \A w \in Slots : pc[w] = "free"

(* What the cycle leaves behind is of no more use.                         *)
Ended ==
  /\ stage' = "idle" /\ ctxDone' = FALSE
  /\ selected' = <<>> /\ next' = 1 /\ dispatched' = FALSE
  /\ tally' = Zero /\ progress' = Zero /\ completed' = 0 /\ event' = NoEvent
  /\ UNCHANGED <<fetchVars, workerVars, clock, lastTested, population, probed>>

(* Save, without counting the cycle.                                       *)
Interrupted ==
  /\ PoolReturned
  /\ ~dispatched \/ ctxDone
  /\ CycleFinished(Len(selected), Total(tally), tally, TRUE)
  /\ Ended
  /\ UNCHANGED waited

(* Bug: the context is not looked at again after the pool.                 *)
FinishCycleUnchecked ==
  /\ PoolReturned
  /\ dispatched
  /\ CycleFinished(Len(selected), Len(selected), tally, FALSE)
  /\ UNCHANGED waited
  /\ Ended

(* FinishCycle and Save; what follows, publishing, is Publication's.       *)
FinishCycle ==
  /\ PoolReturned
  /\ dispatched /\ ~ctxDone
  /\ CycleFinished(Len(selected), Len(selected), tally, FALSE)
  /\ waited' = [l \in Links |->
                  IF l \in {Canonical[r] : r \in population} \ probed
                  THEN waited[l] + 1 ELSE 0]
  /\ Ended

Worker(w) ==
  \/ Dispatch(w) \/ Begin(w)
  \/ Limiter(w) \/ LimiterRefuses(w) \/ Attempt(w) \/ Retry(w) \/ BackoffCancelled(w)
  \/ Accept(w) \/ Drop(w) \/ Record(w)
  \/ CompleteOne(w) \/ ReadPassed(w) \/ ReadFailed(w) \/ PublishProgress(w)

Running ==
  \/ FetchOne \/ FetchAgain \/ FetchFails \/ FetchCancelled
  \/ Load \/ Abort
  \/ StopDispatching
  \/ \E w \in Slots : Worker(w)
  \/ Interrupted \/ FinishCycle

Next == Start \/ StartWithoutSource \/ Cancel \/ Running

(* Every call of a running cycle ends: the network's by their timeouts.    *)
Spec == Init /\ [][Next]_vars /\ WF_vars(Running)

-----------------------------------------------------------------------------
(* Properties.                                                             *)

TypeOK ==
  /\ stage \in {"idle", "fetching", "probing"}
  /\ ctxDone \in BOOLEAN /\ errs \in BOOLEAN /\ dispatched \in BOOLEAN
  /\ try \in 0..FetchAttempts - 1
  /\ ToSet(links) \subseteq Raw
  /\ ToSet(selected) \subseteq Parsable
  /\ next \in 1..Len(selected) + 1
  /\ \A w \in Slots : /\ attempt[w] \in 0..MaxRetries
                       /\ stage # "probing" => pc[w] = "free"
                       /\ start[w] \in 0..clock
  /\ lastTested \in [Links -> 0..clock]
  /\ tally \in [Statuses -> Nat] /\ progress \in [Statuses -> Nat]
  /\ completed \in 0..Total(progress)

(* Of an attempt made now, whatever it meets (executeAttempt, probe.go:142-310):   *)
(* only an inconclusive one is retried, so that retries that run out       *)
(* (probe.go:113) overrule no verdict; a candidate passes only over a      *)
(* transport that was seen to work; and what is recorded for Gemini is     *)
(* the candidate's own status, which the store's scores rely on.           *)
AttemptsAreCoherent ==
  \A claude \in BOOLEAN : \A r \in AttemptResults[claude][ctxDone] :
    /\ r.retryable => r.status = Inconclusive
    /\ r.status = Passed => r.transport = "ok"
    /\ r.transport # "ok" => r.claude # Passed
    /\ r.gemini = r.status

(* No result owes its status to a cancellation: pool.go:60 drops what      *)
(* comes back when the context is over, so that the store and the rotation *)
(* are given evidence only, with an entry for every enabled service.       *)
RecordedIsEvidence ==
  /\ AttemptsAreCoherent
  /\ \A w \in Slots :
       pc[w] = "recording" => /\ ~result[w].cancelled
                              /\ result[w].gemini = result[w].status
                              /\ (result[w].claude = NotProbed) = ~ClaudeEnabled

(* A cycle that counts as complete has a recorded result for each of its   *)
(* candidates, although RunPool returns true as soon as all of them are    *)
(* dispatched and workers drop results (scheduler.go:551).  The counters   *)
(* of a ProbeCompleted, read one by one while other workers add to them    *)
(* (pool.go:66-88), are never less by status than completed and never      *)
(* more than the cycle has candidates.                                     *)
CompleteCycleIsAccountedFor ==
  /\ ~finished.cancelled => finished.completed = Total(finished.counts)
  /\ LET sum == event.passed + event.failed + event.inconclusive
     IN  event.completed <= sum /\ sum <= Len(selected)

(* Rotation under ProbeLimit (rotation.go:69): while the population of the *)
(* fetched candidates stays the same, no more than N/K complete cycles,    *)
(* rounded up, pass until a candidate is probed again, whatever cycles are *)
(* cancelled between them.                                                 *)
NoStarvation ==
  LET n == Cardinality(population)
      bound == IF ProbeLimit = 0 THEN 1 ELSE (n + ProbeLimit - 1) \div ProbeLimit
  IN  \A r \in population : waited[Canonical[r]] < bound

(* Every cycle ends: no worker keeps its slot, and the pool is not waited  *)
(* for in vain, whether the cycle is cancelled or not (pool.go:43-57).     *)
CycleEnds == stage # "idle" ~> stage = "idle"
=============================================================================
