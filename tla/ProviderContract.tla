-------------------------- MODULE ProviderContract --------------------------
(***************************************************************************)
(* The /v0 contract between Core and a Provider, from its three sides: the *)
(* in-tree server (internal/provider/server.go), the conformance suite a   *)
(* Provider's author runs (internal/conformance), and the client Core      *)
(* reads a Provider with (internal/provider/client.go).                    *)
(*                                                                         *)
(* One Provider is put through the suite and then read by Core.  It is     *)
(* either the in-tree server over some Provider, or somebody else's, which *)
(* answers each request as it likes, but the same request always the same  *)
(* way.  A body is told apart by what the decoders make of it.             *)
(***************************************************************************)
EXTENDS Naturals, Sequences

CONSTANTS
    InfraCapabilities,  \* the Capabilities, in the order of the suite
    OtherMetrics        \* infra.Metrics other than cpu.utilization

ASSUME ContractConstants ==
    /\ InfraCapabilities \in Seq({"instances", "metrics", "alarms", "ingress", "backups"})
    /\ {"cpu", "undefined", "none"} \cap OtherMetrics = {}

Capabilities == {InfraCapabilities[i] : i \in DOMAIN InfraCapabilities}
Metrics == {"cpu"} \cup OtherMetrics

(***************************************************************************)
(* Requests and responses.  Every request of the suite and of the client   *)
(* is a GET; metric and window are the query's.                            *)
(***************************************************************************)
Request(path, token) ==
    [path |-> path, method |-> "GET", token |-> token,
     metric |-> IF path = "metrics" THEN "cpu" ELSE "none", window |-> path = "metrics"]

\* right: the documented shape; missing: JSON without the field, or with null;
\* trailing: the documented shape and something after it; wrong: anything else.
Bodies == {"right", "missing", "trailing", "wrong"}

Ok(body) == [status |-> 200, body |-> body, declared |-> {}]
Error(status) == [status |-> status, body |-> "wrong", declared |-> {}]
Discovery(declared) == [status |-> 200, body |-> "right", declared |-> declared]

-----------------------------------------------------------------------------
(***************************************************************************)
(* The in-tree server.  p.caps is what the Provider declares, p.reads what *)
(* its method for a Capability returns, p.token the server's token source. *)
(***************************************************************************)
Reads == {"list", "nil", "not_implemented", "error"}

\* bearerToken and the comparison; a server without a token source is open, one
\* whose token cannot be read refuses everyone.
authenticated(p, r) == p.token = "open" \/ (p.token = "readable" /\ r.token = "right")

allowGet(r) == r.method \in {"GET", "HEAD"}

\* Mutant of writeFailure: every failure is the Substrate's.
writeFailureAlways502(read) == Error(502)

writeFailure(read) == Error(IF read = "not_implemented" THEN 501 ELSE 502)

\* Mutant of capabilityBody: a nil list is marshalled as it is.
capabilityBodyNil(p, c) ==
    IF p.reads[c] \in {"not_implemented", "error"} THEN writeFailure(p.reads[c])
    ELSE Ok(IF p.reads[c] = "nil" /\ c # "ingress" THEN "missing" ELSE "right")

\* instances, metrics, alarms, ingress and backups once the request is admitted:
\* a nil list is answered as an empty one.
capabilityBody(p, c) ==
    IF p.reads[c] \in {"not_implemented", "error"} THEN writeFailure(p.reads[c])
    ELSE Ok("right")

\* An undeclared Capability is refused before the method and the query are looked at.
capability(p, r) ==
    IF r.path \notin p.caps THEN Error(501)
    ELSE IF ~allowGet(r) THEN Error(405)
    ELSE IF r.path = "metrics" /\ (r.metric \notin Metrics \/ ~r.window) THEN Error(400)
    ELSE capabilityBody(p, r.path)

ServeHTTP(p, r) ==
    IF r.path \notin Capabilities \cup {"capabilities", "health"} THEN Error(404)
    ELSE IF r.path # "health" /\ ~authenticated(p, r) THEN Error(401)
    ELSE IF r.path \in Capabilities THEN capability(p, r)
    ELSE IF ~allowGet(r) THEN Error(405)
    ELSE IF r.path = "health" THEN Ok("right") ELSE Discovery(p.caps \cap Capabilities)

-----------------------------------------------------------------------------
VARIABLES
    provider,  \* the Provider: behind the in-tree server, or somebody else's
    said,      \* request -> the response somebody else's Provider gave it
    pc,        \* what is next, or "refused", or "done"
    declared,  \* the Capabilities the suite understood to be declared
    results,   \* check -> the suite's outcome
    read       \* question -> what Core's read came to

vars == <<provider, said, pc, declared, results, read>>

Outcomes == {"PASS", "NOT_IMPLEMENTED", "FAIL"}
ReadOutcomes == {"value", "empty", "not_implemented", "error"}
Unknown == "unknown"  \* a declared Capability of a newer contract
Nothing == [r \in {} |-> 0]

InTree == [whose : {"in_tree"}, caps : SUBSET Capabilities, reads : [Capabilities -> Reads],
           token : {"readable", "unreadable", "open"}]
Other == [whose |-> "other", caps |-> {}, reads |-> Nothing, token |-> "open"]

Init ==
    /\ provider \in InTree \cup {Other}
    /\ said = Nothing
    /\ pc = "discovery"
    /\ declared = {}
    /\ results = Nothing
    /\ read = Nothing

\* What somebody else's Provider may answer.  Discovery of another kind and a
\* body over the suite's limit are among the wrong ones, 401, 404 and 502 are
\* the same to both readers of a Capability; where the suite looks only at the
\* status there are two answers.
Answers(r) ==
    CASE r.path = "capabilities" /\ r.token = "right" ->
           {Discovery(D) : D \in SUBSET (Capabilities \cup {Unknown})}
             \cup {Error(502), Ok("wrong")}
      [] r.path = "capabilities" /\ r.token # "right" -> {Error(401), Discovery(Capabilities)}
      [] r.path = "metrics" /\ (r.metric \notin Metrics \/ ~r.window) -> {Error(400), Ok("right")}
      [] OTHER -> {Ok(b) : b \in Bodies} \cup {Error(501), Error(502)}

Responses(r) ==
    IF provider.whose = "in_tree" THEN {ServeHTTP(provider, r)}
    ELSE IF r \in DOMAIN said THEN {said[r]} ELSE Answers(r)

\* f, but what g says of its domain.
Updated(f, g) ==
    [x \in DOMAIN f \cup DOMAIN g |-> IF x \in DOMAIN g THEN g[x] ELSE f[x]]

Remember(answer) ==
    said' = IF provider.whose = "other" THEN Updated(said, answer) ELSE said

-----------------------------------------------------------------------------
(***************************************************************************)
(* The suite.                                                              *)
(***************************************************************************)
Result(check, outcome) == results' = Updated(results, [c \in {check} |-> outcome])

\* Mutant of Discover: Capabilities the contract does not define are kept.
DiscoverUnfiltered ==
    /\ pc = "discovery"
    /\ LET r == Request("capabilities", "right") IN
       \E res \in Responses(r) :
         /\ Remember([q \in {r} |-> res])
         /\ IF res.status = 200 /\ res.body = "right"
            THEN /\ pc' = "authentication"
                 /\ declared' = res.declared
            ELSE pc' = "refused" /\ UNCHANGED declared
    /\ UNCHANGED <<provider, results, read>>

\* Run asks what the Provider serves; without an answer it stops.  A Capability
\* the contract does not define fails.
Discover ==
    /\ pc = "discovery"
    /\ LET r == Request("capabilities", "right") IN
       \E res \in Responses(r) :
         /\ Remember([q \in {r} |-> res])
         /\ IF res.status = 200 /\ res.body = "right"
            THEN /\ pc' = "authentication"
                 /\ declared' = res.declared \cap Capabilities
                 /\ IF Unknown \in res.declared THEN Result(Unknown, "FAIL") ELSE UNCHANGED results
            ELSE pc' = "refused" /\ UNCHANGED <<declared, results>>
    /\ UNCHANGED <<provider, read>>

checkAuthentication ==
    /\ pc = "authentication"
    /\ LET r == Request("capabilities", "none") IN
       \E res \in Responses(r) :
         /\ Remember([q \in {r} |-> res])
         /\ Result("authentication", IF res.status = 401 THEN "PASS" ELSE "FAIL")
    /\ pc' = "capabilities"
    /\ UNCHANGED <<provider, declared, read>>

\* Mutant of checkBody: only the decoding is checked, not that the field is there.
checkBodyDecodes(res) == res.body \in {"right", "missing"}

\* Unmarshal takes nothing after the value, and the field must be there.
checkBody(res) == res.body = "right"

checkStatus(isDeclared, res) ==
    IF ~isDeclared THEN IF res.status = 501 THEN "NOT_IMPLEMENTED" ELSE "FAIL"
    ELSE IF res.status = 200 /\ checkBody(res) THEN "PASS" ELSE "FAIL"

\* The Capabilities to come, by their place in the contract's order.
Unchecked == {i \in DOMAIN InfraCapabilities : InfraCapabilities[i] \notin DOMAIN results}

checkCapability ==
    /\ pc = "capabilities"
    /\ \E i \in Unchecked :
         LET c == InfraCapabilities[i]
             r == Request(c, "right")
         IN /\ \A k \in Unchecked : i <= k
            /\ \E res \in Responses(r) :
                 LET outcome == checkStatus(c \in declared, res) IN
                 /\ Remember([q \in {r} |-> res])
                 /\ Result(c, outcome)
                 /\ pc' = IF c = "metrics" /\ outcome = "PASS" THEN "every_metric" ELSE pc
    /\ UNCHANGED <<provider, declared, read>>

MetricQuestions ==
    {[Request("metrics", "right") EXCEPT !.metric = m] : m \in OtherMetrics \cup {"undefined"}}
      \cup {[Request("metrics", "right") EXCEPT !.window = FALSE]}

MetricAnswered(q, res) ==
    IF q.window /\ q.metric \in Metrics THEN res.status = 200 /\ checkBody(res)
    ELSE res.status = 400

\* The suite stops at the first wrong answer; asking the rest changes nothing.
checkEveryMetric ==
    /\ pc = "every_metric"
    /\ \E answer \in [MetricQuestions -> UNION {Responses(q) : q \in MetricQuestions}] :
         /\ \A q \in MetricQuestions : answer[q] \in Responses(q)
         /\ Remember(answer)
         /\ IF \A q \in MetricQuestions : MetricAnswered(q, answer[q])
            THEN UNCHANGED results ELSE Result("metrics", "FAIL")
    /\ pc' = "capabilities"
    /\ UNCHANGED <<provider, declared, read>>

Passed == \A c \in DOMAIN results : results[c] # "FAIL"

-----------------------------------------------------------------------------
(***************************************************************************)
(* Core's client.                                                          *)
(***************************************************************************)
\* Decode reads one value and leaves what follows; an absent field is a zero one.
decode(res) ==
    IF res.body \in {"right", "trailing"} THEN "value"
    ELSE IF res.body = "missing" THEN "empty" ELSE "error"

\* Mutant of statusError: every error is a fault.
statusErrorPlain(res) == "error"

statusError(res) == IF res.status = 501 THEN "not_implemented" ELSE "error"

get(res) == IF res.status = 200 THEN decode(res) ELSE statusError(res)

\* The collector's reads: one of each Capability, one of each metric.
CoreQuestions ==
    {Request(c, "right") : c \in Capabilities \ {"metrics"}}
      \cup {[Request("metrics", "right") EXCEPT !.metric = m] :
              m \in IF "metrics" \in Capabilities THEN Metrics ELSE {}}

\* supports: an undeclared Capability is not asked for.
ReadsOf(q) ==
    IF q.path \notin declared THEN {"not_implemented"} ELSE {get(res) : res \in Responses(q)}

\* The suite has reported; Core is given the Provider whatever it found, and
\* discovers what the suite did, by the same request.
CoreReads ==
    /\ pc = "capabilities" /\ Unchecked = {}
    /\ read' \in [CoreQuestions -> ReadOutcomes]
    /\ \A q \in CoreQuestions : read'[q] \in ReadsOf(q)
    /\ pc' = "done"
    /\ UNCHANGED <<provider, said, declared, results>>

Next == Discover \/ checkAuthentication \/ checkCapability \/ checkEveryMetric \/ CoreReads

Spec == Init /\ [][Next]_vars

-----------------------------------------------------------------------------
TypeOK ==
    /\ provider \in InTree \cup {Other}
    /\ pc \in {"discovery", "authentication", "capabilities", "every_metric", "refused", "done"}
    /\ declared \subseteq Capabilities
    /\ DOMAIN results \subseteq Capabilities \cup {"authentication", Unknown}
    /\ \A c \in DOMAIN results : results[c] \in Outcomes
    /\ \A q \in DOMAIN read : read[q] \in ReadOutcomes

\* "anything Core would choke on is caught here instead": Core reads a value of
\* everything declared from a Provider that passed the suite, although the two
\* decode differently.
PassedIsReadable ==
    pc = "done" /\ Passed =>
      \A q \in CoreQuestions :
        read[q] = IF q.path \in declared THEN "value" ELSE "not_implemented"

\* The suite's verdict on the in-tree server is the one on the Provider behind
\* it: it passes if it is authenticated and what it declares can be read, with
\* or without data, and only then.
InTreeVerdict ==
    provider.whose = "in_tree" /\ pc \in {"refused", "done"} =>
      ((pc = "done" /\ Passed) <=>
         /\ provider.token = "readable"
         /\ \A c \in provider.caps : provider.reads[c] \in {"list", "nil"})

\* Over the wire, "not supported" and "broken" stay what they are: Core reports
\* a fault exactly where the Substrate failed under a declared Capability.
NotSupportedIsNotBroken ==
    provider.whose = "in_tree" /\ pc = "done" =>
      \A q \in CoreQuestions :
        read[q] = "error" <=> q.path \in provider.caps /\ provider.reads[q.path] = "error"
=============================================================================
