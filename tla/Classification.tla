---------------------------- MODULE Classification ----------------------------
(***************************************************************************)
(* What one probe attempt makes of what it meets: internal/tester (the     *)
(* stages of executeAttempt and ClassifyDialError), tester/transport,      *)
(* tester/gemini, tester/claude and tester/classifiercore.                 *)
(*                                                                         *)
(* An error is the set of the facts the code looks for in it, a page the   *)
(* set of the signals the code searches it for; a classifier is the list   *)
(* of its checks in their order, of which the first that applies decides.  *)
(***************************************************************************)
EXTENDS Integers, Sequences

Passed == "passed"
Failed == "failed"
Inconclusive == "inconclusive"
NotProbed == "not probed"   (* a service that is not enabled, or no evidence *)

Verdict(status, category, retryable) ==
  [status |-> status, category |-> category, retryable |-> retryable]

Fails(category) == Verdict(Failed, category, FALSE)
Unsure(category) == Verdict(Inconclusive, category, FALSE)
Transient(category) == Verdict(Inconclusive, category, TRUE)
Passes == Verdict(Passed, "none", FALSE)

(* The outcome of the first check of a list that finds its fact.           *)
FirstMatch(checks, facts, default) ==
  LET hits == {i \in DOMAIN checks : checks[i][1] \in facts}
  IN  IF hits = {} THEN default
      ELSE checks[CHOOSE i \in hits : \A j \in hits : i <= j][2]

-----------------------------------------------------------------------------
(* Errors of a dial or of a request.                                       *)

DialChecks ==
  << <<"status 429", Transient("proxy rate limited")>>,
     <<"status 503", Transient("proxy error")>>,
     <<"status 403", Fails("proxy error")>>,
     <<"status",     Fails("proxy error")>>,
     <<"refused",    Fails("connection refused")>>,
     <<"cancelled",  Unsure("timeout")>>,
     <<"timeout",    Fails("timeout")>>,
     <<"reality",    Fails("reality")>>,
     <<"tls",        Fails("tls")>>,
     <<"reset",      Fails("reset")>>,
     <<"utls",       Fails("config")>> >>

ErrorFacts == {DialChecks[i][1] : i \in DOMAIN DialChecks}

ClassifyDialError(facts) == FirstMatch(DialChecks, facts, Fails("proxy error"))

(* The errors there are while the attempt's context is in the given state: *)
(* an error is a cancellation only when somebody cancelled.                *)
Errors(cancelled) ==
  IF cancelled THEN {F \cup {"cancelled"} : F \in SUBSET ErrorFacts}
  ELSE SUBSET (ErrorFacts \ {"cancelled"})

-----------------------------------------------------------------------------
(* Stage 1, the health of the transport.                                   *)

Redirect == 302
HealthCodes == {200, 204, Redirect, 403, 429, 500, 503}

(* An endpoint of generate_204 answers 204 and nothing else.               *)
isExpectedSuccess(code, generate204) ==
  IF generate204 THEN code = 204 ELSE code \in 200..299

(* transport.classifyDialError looks at the context before the text.       *)
HealthErrorIsTimeout(facts, over) ==
  \/ over
  \/ "cancelled" \in facts
  \/ /\ "timeout" \in facts
     /\ "status 429" \notin facts
     /\ "refused" \notin facts

(* The answers that are not a success, classified by executeAttempt.       *)
HealthAnswer(code) ==
  CASE code = 429 -> Transient("proxy rate limited")
    [] code = 503 -> Transient("proxy error")
    [] OTHER      -> Fails("proxy error")

HealthError(facts, over) ==
  IF HealthErrorIsTimeout(facts, over) THEN Fails("timeout")
  ELSE ClassifyDialError(facts)

UnhealthyVerdicts(cancelled) ==
       {HealthAnswer(code) : code \in
          {c \in HealthCodes : \E g \in BOOLEAN : ~isExpectedSuccess(c, g)}}
  \cup {HealthError(F, over) : F \in Errors(cancelled), over \in BOOLEAN}

-----------------------------------------------------------------------------
(* Stage 2, the services.  The common status codes come first.             *)

CommonChecks ==
  << <<429, Transient("target rate limited")>>,
     <<503, Transient("target error")>>,
     <<500, Unsure("target error")>>,
     <<502, Unsure("target error")>>,
     <<504, Unsure("target error")>>,
     <<403, Fails("target denied")>> >>

CommonCodes == {CommonChecks[i][1] : i \in DOMAIN CommonChecks}

(* DetectInterception and the region checks, on a page of Gemini: a        *)
(* negative signal decides before a positive one is looked at.             *)
GeminiChecks ==
  << <<"country",      Fails("region blocked")>>,
     <<"flag",         Fails("region blocked")>>,
     <<"phrase",       Fails("region blocked")>>,
     <<"interception", Fails("target other")>> >>

GeminiSignals ==
  {"country", "flag", "phrase", "interception", "origin", "title", "brand", "marker"}

GeminiVerified(page) ==
  \/ "origin" \in page /\ ("title" \in page \/ "brand" \in page)
  \/ "title" \in page /\ "marker" \in page

GeminiPage(page) ==
  FirstMatch(GeminiChecks, page,
             IF GeminiVerified(page) THEN Passes ELSE Fails("target other"))

classifyResponsePayload(code, page) ==
  IF code \in CommonCodes THEN FirstMatch(CommonChecks, {code}, Passes)
  ELSE IF code = 200 THEN GeminiPage(page)
  ELSE Fails("target other")

(* Claude looks for a blocked region whatever the status code is.          *)
ClaudeSignals ==
  {"interception", "region path", "region canonical", "region title",
   "countries", "unavailable"}

hasSecondaryRegionBlock(page) ==
  \/ "region canonical" \in page
  \/ "region title" \in page
  \/ "countries" \in page /\ "unavailable" \in page

ClassifyResponse(code, page) ==
  IF code \in CommonCodes THEN FirstMatch(CommonChecks, {code}, Passes)
  ELSE IF "interception" \in page THEN Fails("target other")
  ELSE IF "region path" \in page \/ hasSecondaryRegionBlock(page)
       THEN Fails("region blocked")
  ELSE IF code = 200 THEN Passes
  ELSE Fails("target other")

(* A service that was not answered: a timeout or a cancellation is no      *)
(* verdict on the service.  Retryable stays what ClassifyDialError said.   *)
ServiceError(facts, cancelled) ==
  LET v == ClassifyDialError(facts)
  IN  IF cancelled \/ {"timeout", "cancelled"} \cap facts # {} \/ v.category = "timeout"
      THEN [v EXCEPT !.status = Inconclusive, !.category = "timeout"]
      ELSE v

(* Other: a status code no classifier knows, 404 for one.                  *)
Other == 404
Codes == CommonCodes \cup {200, Other}

GeminiVerdicts(cancelled) ==
       {classifyResponsePayload(c, p) : c \in Codes, p \in SUBSET GeminiSignals}
  \cup {ServiceError(F, cancelled) : F \in Errors(cancelled)}

ClaudeVerdicts(cancelled) ==
       {ClassifyResponse(c, p) : c \in Codes, p \in SUBSET ClaudeSignals}
  \cup {ServiceError(F, cancelled) : F \in Errors(cancelled)}

-----------------------------------------------------------------------------
(* The attempt.                                                            *)

(* A result: its verdict, what is known of the transport, what is recorded *)
(* for each service, and whether the context was over when the attempt     *)
(* read what it met (the Reason "context canceled").                       *)
AttemptResult(v, transport, gemini, claude, cancelled) ==
  [status |-> v.status, retryable |-> v.retryable, transport |-> transport,
   gemini |-> gemini, claude |-> claude, cancelled |-> cancelled]

(* failedServicesResult: every enabled service gets the attempt's status.  *)
SameForAll(v, transport, claudeEnabled, cancelled) ==
  AttemptResult(v, transport, v.status,
                IF claudeEnabled THEN v.status ELSE NotProbed, cancelled)

BuildFailed(claudeEnabled, cancelled) ==
  {SameForAll(ClassifyDialError(F), "unknown", claudeEnabled, cancelled) :
     F \in Errors(cancelled)}

(* The attempt's own deadline, or a cancellation, ended stage 1.           *)
HealthUnanswered(claudeEnabled, cancelled) ==
  {SameForAll(Unsure("timeout"), "bad", claudeEnabled, cancelled)}

Unhealthy(claudeEnabled, cancelled) ==
  {SameForAll(v, "bad", claudeEnabled, cancelled) : v \in UnhealthyVerdicts(cancelled)}

(* Gemini decides; Claude is recorded beside it.                           *)
Healthy(claudeEnabled, cancelled) ==
  {AttemptResult(g, "ok", g.status, c, cancelled) :
     g \in GeminiVerdicts(cancelled),
     c \in IF claudeEnabled THEN {v.status : v \in ClaudeVerdicts(cancelled)}
           ELSE {NotProbed}}

executeAttempt(claudeEnabled, cancelled) ==
  UNION {BuildFailed(claudeEnabled, cancelled),
         HealthUnanswered(claudeEnabled, cancelled),
         IF cancelled THEN {} ELSE Unhealthy(claudeEnabled, cancelled),
         Healthy(claudeEnabled, cancelled)}

(* Constant expressions TLC evaluates once.                                *)
AttemptResults ==
  [claudeEnabled \in BOOLEAN |->
     [cancelled \in BOOLEAN |-> executeAttempt(claudeEnabled, cancelled)]]
=============================================================================
