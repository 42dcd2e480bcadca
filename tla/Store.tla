-------------------------------- MODULE Store --------------------------------
(***************************************************************************)
(* The candidate store (internal/store/store.go) as the scheduler drives   *)
(* it: a cycle begins with the links the sources list (StartCycle), probe  *)
(* results arrive in any order (PutWithTransition), and the cycle either   *)
(* completes (FinishCycle) or is cut short by a pause or a shutdown.  In   *)
(* between, the servability gates decide which links are served.  Every    *)
(* method takes the store's lock, so each is one step.                     *)
(*                                                                         *)
(* A record's history is the sliding window of its newest samples, which   *)
(* BoundedHistory implements with a ring.  Score, HasPassed and            *)
(* LastPassedLatency are recomputed from the window wherever it changes,   *)
(* so they are operators here and not state; rec.Latest carries the same   *)
(* outcome as the newest sample, so only its two Last-Known-Good fields    *)
(* are state.                                                              *)
(***************************************************************************)
EXTENDS Integers, Sequences, FiniteSets

CONSTANTS
  Links,              (* the candidates, by canonical link *)
  Results,            (* the probe results the tester can report *)
  LegacyResults,      (* the results a version 1 state file can hold *)
  NoRecord,           (* a link the store does not know *)
  HistoryCapacity,    (* ScoringConfig *)
  MinObservationsForServing,
  MaxAbsentCycles

Categories == {"none", "region_blocked", "target_denied", "target_rate_limited",
  "proxy_rate_limited", "target_error", "target_other", "conn_refused",
  "timeout", "conn_reset", "tls_error", "reality_error", "proxy_error",
  "config_error"}

Statuses == {"passed", "failed", "inconclusive"}

(* An outcome for one service; NoVerdict is the zero TargetResult of a     *)
(* service that was not probed.                                            *)
Verdicts  == [status : Statuses, category : Categories]
NoVerdict == [status |-> "", category |-> ""]

(* A probe result, and the sample it leaves in the history: the outcome    *)
(* for Gemini, what stage 1 said of the transport (TransportEvidenceKnown  *)
(* and TransportOK as one field), and the outcome for Claude.              *)
Samples == [status : Statuses, category : Categories,
            transport : {"unknown", "ok", "failed"},
            claude : Verdicts \cup {NoVerdict}]

(* What a version 1 file holds: one result and its Last-Known-Good fields. *)
Legacies == [result : {s \in Samples : s.claude = NoVerdict},
             previouslyPassed : BOOLEAN, consecutiveInconclusive : Nat]

ASSUME StoreAssumption ==
  /\ Results \subseteq Samples
  /\ LegacyResults \subseteq Legacies
  /\ HistoryCapacity \in Nat \ {0}
  /\ MinObservationsForServing \in Nat \ {0}
  /\ MaxAbsentCycles \in Nat \ {0}

Records == [history : Seq(Samples), absentCycles : Nat,
            previouslyPassed : BOOLEAN, consecutiveInconclusive : Nat,
            claude : Verdicts \cup {NoVerdict}]

ASSUME NoRecordAssumption == NoRecord \notin Records

VARIABLES
  records,          (* what the store knows of each link *)
  pendingAbsent,    (* candidates absent in the current cycle *)
  pendingPresent,   (* candidates present in the current cycle *)
  running,          (* is runCycle between StartCycle and its end? *)
  listed,           (* history variable: the links of the newest StartCycle *)
  rejected          (* history variable: <<link, service>> whose newest
                       conclusive target verdict was a policy rejection *)

vars == <<records, pendingAbsent, pendingPresent, running, listed, rejected>>

Services == {"gemini", "claude"}

Known == {l \in Links : records[l] # NoRecord}

-----------------------------------------------------------------------------
(* The history of one record (history.go).                                 *)

Last(history) == history[Len(history)]

(* Bug: the window is never trimmed. *)
PushUntrimmed(history, sample) == Append(history, sample)

Push(history, sample) ==
  LET longer == Append(history, sample)
  IN  IF Len(longer) <= HistoryCapacity THEN longer
      ELSE SubSeq(longer, 2, HistoryCapacity + 1)

IsTargetSpecific(category) == category \in {"region_blocked", "target_denied"}

(* A failure of the transport counts against every service. *)
FailsEveryService(s) ==
  \/ s.transport = "failed"
  \/ s.status = "failed" /\ ~ IsTargetSpecific(s.category)

GeminiVerdict(s) == [status |-> s.status, category |-> s.category]

(* What internal/tester reports and version 1 files hold: only a pass has  *)
(* no category, a dead transport passes nothing, and the probes of now     *)
(* call a rate limit or an error of the target inconclusive, not failed    *)
(* (classifiercore.go 82-110, classifier.go 36-66).                        *)
ASSUME ProbeAssumption ==
  /\ \A r \in Results \cup {f.result : f \in LegacyResults} :
       /\ r.transport = "failed" => r.status # "passed"
       /\ \A v \in {GeminiVerdict(r), r.claude} :
            v.category = "none" => v.status = "passed"
  /\ \A r \in Results : \A v \in {GeminiVerdict(r), r.claude} :
       v.status = "failed" =>
         v.category \notin {"target_rate_limited", "proxy_rate_limited", "target_error"}

(* Bug: a service that was not probed inherits Gemini's outcome. *)
OutcomeIgnoresService(s, service) ==
  IF service = "claude" /\ s.claude # NoVerdict THEN s.claude
  ELSE GeminiVerdict(s)

SampleServiceOutcome(s, service) ==
  IF service = "gemini" THEN GeminiVerdict(s)
  ELSE IF s.claude # NoVerdict THEN s.claude
  ELSE IF FailsEveryService(s) THEN GeminiVerdict(s)
  ELSE [status |-> "inconclusive", category |-> "timeout"]

(* The positions of the conclusive samples for a service, and the newest   *)
(* verdict among them.                                                     *)
ConclusiveFor(history, service) ==
  {i \in DOMAIN history :
     IF service = "gemini" THEN history[i].status # "inconclusive"
     ELSE \/ history[i].claude.status \in {"passed", "failed"}
          \/ FailsEveryService(history[i])}

(* Bug: an inconclusive probe hides the verdict before it. *)
LatestFor(history, service) ==
  IF service = "claude" THEN Last(history).claude ELSE GeminiVerdict(Last(history))

LatestConclusiveFor(history, service) ==
  LET at == ConclusiveFor(history, service)
      s  == history[CHOOSE i \in at : \A j \in at : j <= i]
  IN  IF service = "claude" /\ s.claude.status \in {"passed", "failed"}
      THEN s.claude ELSE GeminiVerdict(s)

PreviouslyPassed(history) ==
  /\ ConclusiveFor(history, "gemini") # {}
  /\ LatestConclusiveFor(history, "gemini").status = "passed"

ConsecutiveInconclusive(history) ==
  Cardinality({i \in DOMAIN history :
                 \A j \in i .. Len(history) : history[j].status = "inconclusive"})

(* CategoryWeights in tenths. *)
Weight(verdict) ==
  IF verdict.status = "passed" THEN 10
  ELSE CASE verdict.category \in {"region_blocked", "target_denied"} -> 0
         [] verdict.category \in {"target_rate_limited", "proxy_rate_limited",
                                  "target_error"} -> 5
         [] verdict.category = "timeout" -> 4
         [] verdict.category = "proxy_error" -> 3
         [] verdict.category = "none" -> 10
         [] OTHER -> 1

(* ComputeScoreFor with DecayLambda 3/4, over the first i samples of the   *)
(* history: the score is num / (10 * den).  Sample i weighs 4^(i-1) and    *)
(* all before it 3/4 of what they did, which keeps both whole numbers.     *)
NoSamples == [num |-> 0, den |-> 0, decay |-> 1]

WithSample(score, verdict) ==
  [num   |-> 3 * score.num + score.decay * Weight(verdict),
   den   |-> 3 * score.den + score.decay,
   decay |-> 4 * score.decay]

(* Bug: the exponent runs the wrong way and the oldest samples weigh most. *)
ScoreForOldestFirst(history, service) ==
  LET k == Len(history)
      upTo[i \in 0 .. k] ==
        IF i = 0 THEN NoSamples
        ELSE WithSample(upTo[i - 1], SampleServiceOutcome(history[k + 1 - i], service))
  IN  upTo[k]

ScoreFor(history, service) ==
  LET upTo[i \in 0 .. Len(history)] ==
        IF i = 0 THEN NoSamples
        ELSE WithSample(upTo[i - 1], SampleServiceOutcome(history[i], service))
  IN  upTo[Len(history)]

(* Score >= MinServableScore = 0.65.  Cleared of fractions this compares   *)
(* an even number with an odd one: there is no tie for the rounding of the *)
(* code's floating point to decide.                                        *)
ScoreReached(history, service) ==
  LET score == ScoreFor(history, service)
  IN  2 * score.num >= 13 * score.den

-----------------------------------------------------------------------------
(* The servability gates.                                                  *)

(* Bug: only absences already committed count. *)
IsAbsentAfterCommit(l) ==
  records[l].absentCycles > 0 /\ l \notin pendingPresent

(* Gate 1, source presence. *)
IsAbsent(l) ==
  \/ l \in pendingAbsent
  \/ records[l].absentCycles > 0 /\ l \notin pendingPresent

IsRejection(verdict) ==
  verdict.status = "failed" /\ IsTargetSpecific(verdict.category)

(* Gate 2, target policy: the newest conclusive verdict of the window, and *)
(* the last stored one when the window holds none.                         *)
PolicyRejects(rec, service) ==
  IF ConclusiveFor(rec.history, service) # {}
  THEN IsRejection(LatestConclusiveFor(rec.history, service))
  ELSE IsRejection(IF service = "gemini" THEN GeminiVerdict(Last(rec.history))
                   ELSE rec.claude)

(* The Last-Known-Good grace of records migrated from a version 1 file. *)
InGrace(rec) ==
  /\ Last(rec.history).status = "inconclusive"
  /\ rec.previouslyPassed
  /\ rec.consecutiveInconclusive <= MaxAbsentCycles
  /\ Len(rec.history) = 1

(* Gates 2 to 4: all but source presence. *)
PassesGates(rec, service) ==
  /\ ~ PolicyRejects(rec, service)
  /\ Len(rec.history) >= MinObservationsForServing
  /\ ScoreReached(rec.history, service) \/ (service = "gemini" /\ InGrace(rec))

Servable(l, service) ==
  /\ l \in Known
  /\ ~ IsAbsent(l)
  /\ PassesGates(records[l], service)

(* PassingFor: what the Gemini and Claude subscriptions hold. *)
PassingFor(service) == {l \in Links : Servable(l, service)}

(* Whether the transport works, by the newest sample with evidence for it: *)
(* the newest one, or else the newest conclusive one.                      *)
TransportHealthy(rec) ==
  LET latest == Last(rec.history)
      at     == ConclusiveFor(rec.history, "gemini")
      s      == IF at = {} THEN latest
                ELSE rec.history[CHOOSE i \in at : \A j \in at : j <= i]
  IN  IF latest.transport # "unknown" THEN latest.transport = "ok"
      ELSE IF s.transport # "unknown" THEN s.transport = "ok"
      ELSE IsRejection(GeminiVerdict(s))

(* NetworkPassing: what the generic subscription holds. *)
NetworkHealthy(l) ==
  \/ Servable(l, "gemini")
  \/ /\ l \in Known
     /\ ~ IsAbsent(l)
     /\ Len(records[l].history) >= MinObservationsForServing
     /\ TransportHealthy(records[l])

NetworkPassing == {l \in Links : NetworkHealthy(l)}

-----------------------------------------------------------------------------
(* The store's operations, in the order runCycle calls them.               *)

(* Load of a version 1 file: one sample per result, and the file's own     *)
(* Last-Known-Good fields.                                                 *)
Migrated(legacy) ==
  [history |-> <<legacy.result>>,
   absentCycles |-> 0,
   previouslyPassed |-> legacy.previouslyPassed,
   consecutiveInconclusive |-> legacy.consecutiveInconclusive,
   claude |-> NoVerdict]

Init ==
  /\ records \in [Links -> {NoRecord} \cup {Migrated(f) : f \in LegacyResults}]
  /\ pendingAbsent = {}
  /\ pendingPresent = {}
  /\ running = FALSE
  /\ listed = Links
  /\ rejected = {<<l, "gemini">> : l \in {k \in Known :
                   IsRejection(GeminiVerdict(Last(records[k].history)))}}

(* A fetch returned the links of the enabled sources, perhaps none. *)
StartCycle(links) ==
  /\ ~ running
  /\ running' = TRUE
  /\ listed' = links
  /\ pendingPresent' = links
  /\ pendingAbsent' = Known \ links
  /\ UNCHANGED <<records, rejected>>

(* The sample a result becomes, and the Claude entry of rec.Services.      *)
SampleOf(r) ==
  [status |-> r.status, category |-> r.category, transport |-> r.transport,
   claude |-> IF r.claude = NoVerdict /\ FailsEveryService(r)
              THEN GeminiVerdict(r) ELSE r.claude]

NewRecord ==
  [history |-> <<>>, absentCycles |-> 0, previouslyPassed |-> FALSE,
   consecutiveInconclusive |-> 0, claude |-> NoVerdict]

(* A policy verdict is remembered until the service passes again. *)
RejectedAfter(l, r) ==
  LET verdict(service) == IF service = "gemini" THEN GeminiVerdict(r) ELSE r.claude
  IN  (rejected \ {<<l, service>> : service \in
                     {v \in Services : verdict(v).status = "passed"}})
      \cup {<<l, service>> : service \in {v \in Services : IsRejection(verdict(v))}}

(* The record of a link after result r.  AbsentCycles is left alone: the   *)
(* reset waits for FinishCycle.  A result without services of a transport  *)
(* that works leaves the stored Claude verdict; the branch that overwrites *)
(* it (store.go 1988) needs a dead transport without services, and the     *)
(* tester names the services of every dead transport (probe.go 124).       *)
Observed(rec, r) ==
  LET history == Push(rec.history, SampleOf(r))
  IN  [history |-> history,
       absentCycles |-> rec.absentCycles,
       previouslyPassed |-> PreviouslyPassed(history),
       consecutiveInconclusive |-> ConsecutiveInconclusive(history),
       claude |-> IF r.claude # NoVerdict THEN r.claude ELSE rec.claude]

PutWithTransition(l, r) ==
  /\ running
  /\ l \in listed
  /\ records' = [records EXCEPT
                   ![l] = Observed(IF @ = NoRecord THEN NewRecord ELSE @, r)]
  /\ pendingAbsent' = pendingAbsent \ {l}
  /\ pendingPresent' = pendingPresent \cup {l}
  /\ rejected' = RejectedAfter(l, r)
  /\ UNCHANGED <<running, listed>>

WithAbsences(rec, n) ==
  [history |-> rec.history, absentCycles |-> n,
   previouslyPassed |-> rec.previouslyPassed,
   consecutiveInconclusive |-> rec.consecutiveInconclusive,
   claude |-> rec.claude]

(* Bug: the record is evicted one cycle early. *)
CommittedEvictsEarly(l) ==
  IF records[l] = NoRecord THEN NoRecord
  ELSE IF l \in pendingPresent THEN WithAbsences(records[l], 0)
  ELSE IF l \notin pendingAbsent THEN records[l]
  ELSE IF records[l].absentCycles + 1 >= MaxAbsentCycles THEN NoRecord
  ELSE WithAbsences(records[l], records[l].absentCycles + 1)

(* The record of link l once the cycle's absences are committed. *)
Committed(l) ==
  IF records[l] = NoRecord THEN NoRecord
  ELSE IF l \in pendingPresent THEN WithAbsences(records[l], 0)
  ELSE IF l \notin pendingAbsent THEN records[l]
  ELSE IF records[l].absentCycles + 1 > MaxAbsentCycles THEN NoRecord
  ELSE WithAbsences(records[l], records[l].absentCycles + 1)

FinishCycle ==
  /\ running
  /\ running' = FALSE
  /\ records' = [l \in Links |-> Committed(l)]
  /\ pendingAbsent' = {}
  /\ pendingPresent' = {}
  /\ rejected' = {p \in rejected : Committed(p[1]) # NoRecord}
  /\ UNCHANGED listed

(* The cycle's context was cancelled: runCycle returns without FinishCycle *)
(* and the pending marks stay until the next StartCycle.                   *)
CancelCycle ==
  /\ running
  /\ running' = FALSE
  /\ UNCHANGED <<records, pendingAbsent, pendingPresent, listed, rejected>>

Next ==
  \/ \E links \in SUBSET Links : StartCycle(links)
  \/ \E l \in Links, r \in Results : PutWithTransition(l, r)
  \/ FinishCycle
  \/ CancelCycle

Spec == Init /\ [][Next]_vars

-----------------------------------------------------------------------------
(* Every record holds at least one sample and at most HistoryCapacity, and *)
(* no more absences than it survives; a pending mark is for a known link   *)
(* (absent) or a listed one (present), never for both.                     *)
RecordOK(rec) ==
  /\ rec.history \in Seq(Samples)
  /\ Len(rec.history) \in 1 .. HistoryCapacity
  /\ rec.absentCycles \in 0 .. MaxAbsentCycles
  /\ rec.previouslyPassed \in BOOLEAN
  /\ rec.consecutiveInconclusive \in Nat
  /\ rec.claude \in Verdicts \cup {NoVerdict}

TypeOK ==
  /\ DOMAIN records = Links
  /\ \A l \in Known : RecordOK(records[l])
  /\ pendingAbsent \subseteq Known
  /\ pendingPresent \subseteq Links
  /\ pendingAbsent \cap pendingPresent = {}
  /\ running \in BOOLEAN
  /\ listed \subseteq Links
  /\ rejected \subseteq Known \X Services

(* The store remembers exactly the candidates CandidateRetention says,     *)
(* with exactly its count of absences: FinishCycle commits the marks       *)
(* StartCycle and PutWithTransition left, and a cancelled cycle commits    *)
(* nothing, whatever marks it leaves behind (store.go 2045-2121).          *)
Retention == INSTANCE CandidateRetention
  WITH missed <- [l \in Links |-> IF l \in Known THEN records[l].absentCycles
                                  ELSE MaxAbsentCycles + 1],
       open <- running, listing <- listed

ImplementsRetention == Retention!Spec

(* Nothing is served that the newest StartCycle did not list, in any of    *)
(* the three subscriptions: not while the cycle runs, not after it ended,  *)
(* and not when it was cancelled half way (isAbsentLocked, store.go        *)
(* 189-203, reads two pending sets and a counter to decide it).            *)
ServedIsListed ==
  PassingFor("gemini") \cup PassingFor("claude") \cup NetworkPassing \subseteq listed

(* A target that rejected a candidate by policy (region block, access      *)
(* denied) gets it in its subscription again only after a probe passed.    *)
(* Later failures lift the policy override of gate 2, since they are the   *)
(* newest conclusive sample, and the rejection may leave the window: that  *)
(* the candidate stays out rests on the weights and the threshold.  One    *)
(* probe alone brings it back to Claude: one inconclusive for Claude while *)
(* the transport, or Gemini on its own account, failed.  It lifts the      *)
(* override and may cost only half a pass (PolicyOverrideHolds).           *)
RejectedUntilPass ==
  \A service \in Services : \A l \in PassingFor(service) :
    <<l, service>> \in rejected =>
      LET newest == Last(records[l].history)
      IN  /\ service = "claude"
          /\ newest.claude.status = "inconclusive"
          /\ FailsEveryService(newest)

(* What gate 2 is for: a candidate whose newest conclusive outcome for a   *)
(* service, "StatusPassed or StatusFailed" (history.go 393), is a          *)
(* rejection by policy is out of that subscription, "regardless of         *)
(* historical score" (ticket 09).                                          *)
PolicyOverrideHolds ==
  \A service \in Services : \A l \in PassingFor(service) :
    LET own(s)  == IF service = "gemini" THEN GeminiVerdict(s) ELSE s.claude
        history == records[l].history
    IN  \A i \in DOMAIN history :
          IsRejection(own(history[i])) =>
            \E j \in i .. Len(history) :
              /\ own(history[j]).status \in {"passed", "failed"}
              /\ ~ IsRejection(own(history[j]))

(* A candidate is in a target's subscription only on the strength of a     *)
(* pass of that target still in its window, or of the grace of a migrated  *)
(* record: no mixture of inconclusive outcomes reaches the threshold.      *)
ServedHasPassed ==
  \A service \in Services : \A l \in PassingFor(service) :
    \/ \E i \in DOMAIN records[l].history :
         LET s == records[l].history[i]
         IN  IF service = "gemini" THEN s.status = "passed"
             ELSE s.claude.status = "passed"
    \/ service = "gemini" /\ InGrace(records[l])

(* However long its record of passes, a candidate that failed its last     *)
(* three probes for a target has left that target's subscription.          *)
ThreeFailuresUnserve ==
  \A service \in Services : \A l \in PassingFor(service) :
    LET history == records[l].history
    IN  \E i \in DOMAIN history :
          /\ i > Len(history) - 3
          /\ SampleServiceOutcome(history[i], service).status # "failed"

=============================================================================
