------------------------------- MODULE MCStore -------------------------------
(***************************************************************************)
(* The probe results that tell the store's decisions apart, each one that  *)
(* internal/tester/probe.go can report.                                    *)
(***************************************************************************)
EXTENDS Store

Verdict(status, category) == [status |-> status, category |-> category]

Result(transport, gemini, claude) ==
  [status |-> gemini.status, category |-> gemini.category,
   transport |-> transport, claude |-> claude]

Pass     == Verdict("passed", "none")
Blocked  == Verdict("failed", "region_blocked")
Denied   == Verdict("failed", "target_denied")
Throttle == Verdict("inconclusive", "target_rate_limited")
TimedOut == Verdict("failed", "timeout")
Limited  == Verdict("inconclusive", "proxy_rate_limited")
Refused  == Verdict("failed", "conn_refused")

(* Scores: both targets alike, with the weights 10, 0, 5, 5 and 4, the     *)
(* last two for a transport that was limited or did not answer.            *)
ScoreResults == {
  Result("ok", Pass, Pass),
  Result("ok", Denied, Blocked),
  Result("ok", Throttle, Throttle),
  Result("failed", Limited, Limited),
  Result("failed", TimedOut, TimedOut)}

(* Cycles: Gemini alone with the Claude probe off, the two targets apart,  *)
(* a dead transport.                                                       *)
CycleResults == {
  Result("ok", Pass, NoVerdict),
  Result("ok", Blocked, Pass),
  Result("failed", Refused, Refused)}

NoLegacy == {}

(* A version 1 file: inconclusive but known good, and blocked. *)
SomeLegacy == {
  [result |-> Result("unknown", Verdict("inconclusive", "timeout"), NoVerdict),
   previouslyPassed |-> TRUE, consecutiveInconclusive |-> 1],
  [result |-> Result("unknown", Blocked, NoVerdict),
   previouslyPassed |-> FALSE, consecutiveInconclusive |-> 0]}

=============================================================================
