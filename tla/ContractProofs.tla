--------------------------- MODULE ContractProofs ---------------------------
(***************************************************************************)
(* What passing the conformance suite is worth: theorems about             *)
(* ProviderContract, for any part of the contract's Capabilities in any    *)
(* order, any metrics, the in-tree server over any Provider, and somebody  *)
(* else's server with any answers.                                         *)
(***************************************************************************)
EXTENDS ProviderContract, TLAPS

\* The Provider's answer to r is settled, and what it is.
Known(r) == provider.whose = "in_tree" \/ r \in DOMAIN said
Answer(r) == IF provider.whose = "in_tree" THEN ServeHTTP(provider, r) ELSE said[r]

Judged(c) == checkStatus(c \in declared, Answer(Request(c, "right")))

\* A check's outcome is the verdict on an answer Core will get again; only the
\* metrics of somebody else's Provider may fail later than that.
ResultsOK ==
    \A c \in DOMAIN results \cap Capabilities :
      /\ results[c] # "FAIL" => Known(Request(c, "right")) /\ results[c] = Judged(c)
      /\ provider.whose = "in_tree" => results[c] = Judged(c)

MetricsOK ==
    /\ pc = "every_metric" =>
         /\ "metrics" \in Capabilities /\ "metrics" \in DOMAIN results
         /\ results["metrics"] = "PASS"
    /\ pc # "every_metric" /\ "metrics" \in DOMAIN results /\ results["metrics"] = "PASS" =>
         \A q \in MetricQuestions : Known(q) /\ MetricAnswered(q, Answer(q))

\* How far the suite got with the in-tree server, and what it learned.
InTreeOK ==
    provider.whose = "in_tree" =>
      /\ Unknown \notin DOMAIN results
      /\ pc = "refused" => provider.token = "unreadable"
      /\ pc \in {"authentication", "capabilities", "every_metric", "done"} =>
           provider.token \in {"readable", "open"} /\ declared = provider.caps
      /\ pc \in {"capabilities", "every_metric", "done"} =>
           /\ "authentication" \in DOMAIN results
           /\ results["authentication"] = IF provider.token = "readable" THEN "PASS" ELSE "FAIL"

OrderOK ==
    /\ pc \in {"discovery", "authentication", "refused"} => DOMAIN results \cap Capabilities = {}
    /\ pc = "done" => /\ Capabilities \subseteq DOMAIN results
                      /\ \A q \in CoreQuestions : read[q] \in ReadsOf(q)

ContractInv == TypeOK /\ ResultsOK /\ MetricsOK /\ InTreeOK /\ OrderOK

-----------------------------------------------------------------------------
(* The contract's vocabulary                                               *)

LEMMA Vocabulary ==
    /\ Capabilities \subseteq {"instances", "metrics", "alarms", "ingress", "backups"}
    /\ {"authentication", Unknown, "capabilities", "health"} \cap Capabilities = {}
  <1>1. ASSUME NEW i \in DOMAIN InfraCapabilities
        PROVE  InfraCapabilities[i] \in {"instances", "metrics", "alarms", "ingress", "backups"}
    BY ContractConstants DEF ContractConstants
  <1>2. Capabilities \subseteq {"instances", "metrics", "alarms", "ingress", "backups"}
    BY <1>1 DEF Capabilities
  <1> QED BY <1>2 DEF Unknown

LEMMA RequestFields ==
    ASSUME NEW c, NEW t
    PROVE  /\ Request(c, t).path = c /\ Request(c, t).method = "GET" /\ Request(c, t).token = t
           /\ c = "metrics" => Request(c, t).metric = "cpu" /\ Request(c, t).window
  BY DEF Request

LEMMA MetricFields ==
    ASSUME NEW m, NEW w
    PROVE  /\ LET q == [Request("metrics", "right") EXCEPT !.metric = m] IN
              /\ q.path = "metrics" /\ q.method = "GET" /\ q.token = "right"
              /\ q.metric = m /\ q.window
           /\ LET q == [Request("metrics", "right") EXCEPT !.window = w] IN
              /\ q.path = "metrics" /\ q.method = "GET" /\ q.token = "right"
              /\ q.metric = "cpu" /\ q.window = w
  <1>1. Request("metrics", "right") = [path |-> "metrics", method |-> "GET", token |-> "right",
                                       metric |-> "cpu", window |-> TRUE]
    BY DEF Request
  <1> QED BY <1>1

\* The in-tree server's answers to the suite and to Core.
LEMMA Served ==
    ASSUME NEW p \in InTree, p.token \in {"readable", "open"}, NEW c \in Capabilities,
           NEW r, r.path = c, r.method = "GET", r.token = "right"
    PROVE  /\ c \notin p.caps => ServeHTTP(p, r) = Error(501)
           /\ c \in p.caps /\ (c = "metrics" => r.metric \in Metrics /\ r.window) =>
                ServeHTTP(p, r) = capabilityBody(p, c)
           /\ c \in p.caps /\ c = "metrics" /\ ~(r.metric \in Metrics /\ r.window) =>
                ServeHTTP(p, r) = Error(400)
  <1>1. authenticated(p, r) /\ allowGet(r)
    BY DEF authenticated, allowGet
  <1>2. c # "capabilities" /\ c # "health"
    BY Vocabulary
  <1> QED BY <1>1, <1>2 DEF ServeHTTP, capability

LEMMA BodyServed ==
    ASSUME NEW p, NEW c, p.reads[c] \in Reads
    PROVE  LET res == capabilityBody(p, c) IN
           /\ p.reads[c] \in {"list", "nil"} => res.status = 200 /\ res.body = "right"
           /\ p.reads[c] = "not_implemented" => res.status = 501
           /\ p.reads[c] = "error" => res.status = 502
  BY DEF capabilityBody, writeFailure, Ok, Error, Reads

LEMMA DiscoveryServed ==
    ASSUME NEW p \in InTree, NEW t \in {"right", "none"}
    PROVE  LET res == ServeHTTP(p, Request("capabilities", t)) IN
           /\ p.token = "open" \/ (p.token = "readable" /\ t = "right") =>
                res.status = 200 /\ res.body = "right" /\ res.declared = p.caps
           /\ ~(p.token = "open" \/ (p.token = "readable" /\ t = "right")) => res.status = 401
  <1> DEFINE r == Request("capabilities", t)
  <1>1. r.path = "capabilities" /\ r.method = "GET" /\ r.token = t
    BY RequestFields
  <1> HIDE DEF r
  <1>2. authenticated(p, r) <=> p.token = "open" \/ (p.token = "readable" /\ t = "right")
    BY <1>1 DEF authenticated
  <1>3. allowGet(r) /\ "capabilities" \notin Capabilities
    BY <1>1, Vocabulary DEF allowGet
  <1>4. p.caps \cap Capabilities = p.caps
    BY DEF InTree
  <1>5. authenticated(p, r) => ServeHTTP(p, r) = Discovery(p.caps)
    BY <1>1, <1>3, <1>4 DEF ServeHTTP
  <1>6. ~authenticated(p, r) => ServeHTTP(p, r) = Error(401)
    BY <1>1, <1>3 DEF ServeHTTP
  <1>7. /\ Discovery(p.caps).status = 200 /\ Discovery(p.caps).body = "right"
        /\ Discovery(p.caps).declared = p.caps /\ Error(401).status = 401
    BY DEF Discovery, Error
  <1>8. ServeHTTP(p, Request("capabilities", t)) = ServeHTTP(p, r)
    BY DEF r
  <1> QED BY <1>2, <1>5, <1>6, <1>7, <1>8

LEMMA ProviderIs ==
    ASSUME TypeOK
    PROVE  \/ provider.whose = "in_tree" /\ provider \in InTree
           \/ provider.whose = "other" /\ provider \notin InTree
  <1>1. provider \in InTree => provider.whose = "in_tree"
    BY DEF InTree
  <1>2. provider = Other => provider.whose = "other"
    BY DEF Other
  <1> QED BY <1>1, <1>2 DEF TypeOK

\* The verdict on a Capability of the in-tree server.
LEMMA InTreeJudged ==
    ASSUME TypeOK, provider.whose = "in_tree", provider.token \in {"readable", "open"},
           declared = provider.caps, NEW c \in Capabilities
    PROVE  Judged(c) = IF c \notin provider.caps THEN "NOT_IMPLEMENTED"
                       ELSE IF provider.reads[c] \in {"list", "nil"} THEN "PASS" ELSE "FAIL"
  <1> DEFINE r == Request(c, "right")
             res == ServeHTTP(provider, r)
  <1>1. provider \in InTree
    BY ProviderIs
  <1>2. /\ r.path = c /\ r.method = "GET" /\ r.token = "right"
        /\ c = "metrics" => r.metric \in Metrics /\ r.window
    BY RequestFields DEF Metrics
  <1>3. Judged(c) = checkStatus(c \in declared, res)
    BY DEF Judged, Answer
  <1>4. provider.reads[c] \in Reads
    BY <1>1 DEF InTree
  <1> HIDE DEF r
  <1>5. CASE c \notin provider.caps
    <2>1. res = Error(501)
      BY <1>1, <1>2, <1>5, Served
    <2>2. res.status = 501
      BY <2>1 DEF Error
    <2> QED BY <1>3, <1>5, <2>2 DEF checkStatus
  <1>6. CASE c \in provider.caps
    <2>1. res = capabilityBody(provider, c)
      BY <1>1, <1>2, <1>6, Served
    <2>2. /\ provider.reads[c] \in {"list", "nil"} => res.status = 200 /\ res.body = "right"
          /\ provider.reads[c] \notin {"list", "nil"} => res.status # 200
      BY <1>4, <2>1, BodyServed DEF Reads
    <2> QED BY <1>3, <1>6, <2>2 DEF checkStatus, checkBody
  <1> QED BY <1>5, <1>6

-----------------------------------------------------------------------------
(* What is asked once is answered for good                                 *)

LEMMA ResultEffect ==
    ASSUME NEW c, NEW outcome, Result(c, outcome)
    PROVE  /\ DOMAIN results' = DOMAIN results \cup {c} /\ results'[c] = outcome
           /\ \A x \in DOMAIN results \ {c} : results'[x] = results[x]
  <1> DEFINE g == [x \in {c} |-> outcome]
  <1>1. DOMAIN g = {c} /\ g[c] = outcome /\ results' = Updated(results, g)
    BY DEF Result
  <1> HIDE DEF g
  <1> QED BY <1>1 DEF Updated

LEMMA KnownAnswer ==
    ASSUME NEW r, Known(r) PROVE Responses(r) = {Answer(r)}
  BY DEF Known, Answer, Responses

LEMMA Remembered ==
    ASSUME TypeOK, UNCHANGED provider, NEW answer, Remember(answer),
           \A q \in DOMAIN answer : answer[q] \in Responses(q)
    PROVE  /\ \A r : Known(r) => Known(r)' /\ Answer(r)' = Answer(r)
           /\ \A q \in DOMAIN answer : Known(q)' /\ Answer(q)' = answer[q]
  <1>1. CASE provider.whose = "in_tree"
    BY <1>1 DEF Known, Answer, Responses
  <1>2. CASE provider.whose # "in_tree"
    <2>1. provider.whose = "other"
      BY <1>2, ProviderIs
    <2>2. said' = Updated(said, answer)
      BY <2>1 DEF Remember
    <2>3. /\ DOMAIN said' = DOMAIN said \cup DOMAIN answer
          /\ \A x \in DOMAIN answer : said'[x] = answer[x]
          /\ \A x \in DOMAIN said \ DOMAIN answer : said'[x] = said[x]
      BY <2>2 DEF Updated
    <2>4. \A q \in DOMAIN answer : Known(q)' /\ Answer(q)' = answer[q]
      BY <1>2, <2>3 DEF Known, Answer
    <2>5. ASSUME NEW r, Known(r) PROVE Known(r)' /\ Answer(r)' = Answer(r)
      <3>1. CASE r \in DOMAIN answer
        <4>1. answer[r] \in {Answer(r)}
          BY <2>5, <3>1, KnownAnswer
        <4> QED BY <2>4, <3>1, <4>1
      <3>2. CASE r \notin DOMAIN answer
        BY <1>2, <2>3, <2>5, <3>2 DEF Known, Answer
      <3> QED BY <3>1, <3>2
    <2> QED BY <2>4, <2>5
  <1> QED BY <1>1, <1>2

LEMMA RememberedOne ==
    ASSUME TypeOK, UNCHANGED provider, NEW q, NEW res \in Responses(q),
           Remember([x \in {q} |-> res])
    PROVE  /\ \A r : Known(r) => Known(r)' /\ Answer(r)' = Answer(r)
           /\ Known(q)' /\ Answer(q)' = res
  <1> DEFINE answer == [x \in {q} |-> res]
  <1>1. DOMAIN answer = {q} /\ answer[q] = res /\ Remember(answer)
    OBVIOUS
  <1> HIDE DEF answer
  <1> QED BY <1>1, Remembered

\* Outcomes stay verdicts while answers stay.
LEMMA VerdictStays ==
    ASSUME ResultsOK, UNCHANGED <<provider, declared>>,
           \A r : Known(r) => Known(r)' /\ Answer(r)' = Answer(r),
           NEW c \in DOMAIN results \cap Capabilities, results'[c] = results[c]
    PROVE  /\ results'[c] # "FAIL" => Known(Request(c, "right"))' /\ results'[c] = Judged(c)'
           /\ provider'.whose = "in_tree" => results'[c] = Judged(c)'
  <1>1. provider.whose = "in_tree" => Known(Request(c, "right"))
    BY DEF Known
  <1>2. Known(Request(c, "right")) => Known(Request(c, "right"))' /\ Judged(c)' = Judged(c)
    BY DEF Judged
  <1> QED BY <1>1, <1>2 DEF ResultsOK

LEMMA MetricsStay ==
    ASSUME \A q \in MetricQuestions : Known(q) /\ MetricAnswered(q, Answer(q)),
           \A r : Known(r) => Known(r)' /\ Answer(r)' = Answer(r)
    PROVE  \A q \in MetricQuestions : Known(q)' /\ MetricAnswered(q, Answer(q))'
  BY DEF MetricAnswered, checkBody

-----------------------------------------------------------------------------
(* The steps                                                               *)

LEMMA InitContract == Init => ContractInv
  <1> SUFFICES ASSUME Init PROVE ContractInv
    OBVIOUS
  <1>1. DOMAIN results = {} /\ DOMAIN read = {} /\ pc = "discovery" /\ declared = {}
    BY DEF Init, Nothing
  <1>2. TypeOK
    BY <1>1 DEF TypeOK, Init
  <1> QED BY <1>1, <1>2 DEF ContractInv, ResultsOK, MetricsOK, InTreeOK, OrderOK

LEMMA DiscoverKeeps == ASSUME ContractInv, Discover PROVE ContractInv'
  <1> DEFINE r == Request("capabilities", "right")
  <1>1. PICK res \in Responses(r) :
          IF res.status = 200 /\ res.body = "right"
          THEN /\ pc' = "authentication"
               /\ declared' = res.declared \cap Capabilities
               /\ IF Unknown \in res.declared THEN Result(Unknown, "FAIL") ELSE UNCHANGED results
          ELSE pc' = "refused" /\ UNCHANGED <<declared, results>>
    BY DEF Discover
  <1>2. UNCHANGED <<provider, read>> /\ TypeOK /\ pc = "discovery"
    BY DEF Discover, ContractInv
  <1>3. DOMAIN results \cap Capabilities = {} /\ DOMAIN results \subseteq Capabilities \cup {"authentication", Unknown}
    BY <1>2 DEF ContractInv, OrderOK, TypeOK
  <1>4. \/ UNCHANGED results
        \/ /\ DOMAIN results' = DOMAIN results \cup {Unknown} /\ results'[Unknown] = "FAIL"
           /\ \A x \in DOMAIN results \ {Unknown} : results'[x] = results[x]
           /\ Unknown \in res.declared /\ res.status = 200 /\ res.body = "right"
    BY <1>1, ResultEffect
  <1>5. /\ DOMAIN results' \cap Capabilities = {} /\ "metrics" \notin DOMAIN results'
        /\ DOMAIN results' \subseteq DOMAIN results \cup {Unknown}
    BY <1>3, <1>4, Vocabulary DEF Unknown
  <1>6. TypeOK'
    <2>1. declared' \subseteq Capabilities /\ pc' \in {"authentication", "refused"}
      BY <1>1, <1>2 DEF TypeOK
    <2>2. \A c \in DOMAIN results : results[c] \in Outcomes
      BY <1>2 DEF TypeOK
    <2>3. ASSUME NEW c \in DOMAIN results' PROVE results'[c] \in Outcomes
      <3>1. CASE UNCHANGED results
        BY <2>2, <3>1
      <3>2. CASE c = Unknown /\ results'[Unknown] = "FAIL"
        BY <3>2 DEF Outcomes
      <3>3. CASE c \in DOMAIN results /\ results'[c] = results[c]
        BY <2>2, <3>3
      <3> QED BY <1>4, <3>1, <3>2, <3>3
    <2> QED BY <1>2, <1>3, <1>5, <2>1, <2>3 DEF TypeOK
  <1>7. InTreeOK'
    <2> SUFFICES ASSUME provider.whose = "in_tree" PROVE InTreeOK'
      BY <1>2 DEF InTreeOK
    <2>1. provider \in InTree /\ Unknown \notin DOMAIN results
      BY <1>2, ProviderIs DEF ContractInv, InTreeOK
    <2>2. res = ServeHTTP(provider, r)
      BY DEF Responses
    <2>3. /\ provider.token \in {"readable", "open"} =>
               res.status = 200 /\ res.body = "right" /\ res.declared = provider.caps
          /\ provider.token \notin {"readable", "open"} => res.status = 401
      BY <2>1, <2>2, DiscoveryServed
    <2>4. provider.caps \subseteq Capabilities /\ provider.token \in {"readable", "unreadable", "open"}
      BY <2>1 DEF InTree
    <2>5. Unknown \notin provider.caps
      BY <2>4, Vocabulary
    <2>6. Unknown \notin DOMAIN results'
      BY <1>4, <2>1, <2>3, <2>4, <2>5
    <2>7. CASE provider.token \in {"readable", "open"}
      <3>1. pc' = "authentication" /\ declared' = provider.caps
        BY <1>1, <2>3, <2>4, <2>7
      <3> QED BY <1>2, <2>6, <2>7, <3>1 DEF InTreeOK
    <2>8. CASE provider.token \notin {"readable", "open"}
      <3>1. pc' = "refused"
        BY <1>1, <2>3, <2>8
      <3> QED BY <1>2, <2>4, <2>6, <2>8, <3>1 DEF InTreeOK
    <2> QED BY <2>7, <2>8
  <1>8. pc' \in {"authentication", "refused"}
    BY <1>1
  <1> QED BY <1>5, <1>6, <1>7, <1>8 DEF ContractInv, ResultsOK, MetricsOK, OrderOK

LEMMA AuthenticationKeeps == ASSUME ContractInv, checkAuthentication PROVE ContractInv'
  <1> DEFINE r == Request("capabilities", "none")
  <1>1. PICK res \in Responses(r) :
          Result("authentication", IF res.status = 401 THEN "PASS" ELSE "FAIL")
    BY DEF checkAuthentication
  <1>2. /\ UNCHANGED <<provider, declared, read>> /\ TypeOK /\ pc = "authentication"
        /\ pc' = "capabilities"
    BY DEF checkAuthentication, ContractInv
  <1>3. DOMAIN results \cap Capabilities = {} /\ DOMAIN results \subseteq Capabilities \cup {"authentication", Unknown}
    BY <1>2 DEF ContractInv, OrderOK, TypeOK
  <1>4. /\ DOMAIN results' = DOMAIN results \cup {"authentication"}
        /\ results'["authentication"] = IF res.status = 401 THEN "PASS" ELSE "FAIL"
        /\ \A x \in DOMAIN results \ {"authentication"} : results'[x] = results[x]
    <2>1. ASSUME NEW o, Result("authentication", o)
          PROVE  /\ DOMAIN results' = DOMAIN results \cup {"authentication"}
                 /\ results'["authentication"] = o
                 /\ \A x \in DOMAIN results \ {"authentication"} : results'[x] = results[x]
      BY <2>1 DEF Result, Updated
    <2> QED BY <1>1, <2>1
  <1>5. DOMAIN results' \cap Capabilities = {} /\ "metrics" \notin DOMAIN results'
    BY <1>3, <1>4, Vocabulary DEF Unknown
  <1>6. TypeOK'
    <2>1. \A c \in DOMAIN results' : results'[c] \in Outcomes
      BY <1>2, <1>4 DEF TypeOK, Outcomes
    <2> QED BY <1>2, <1>4, <2>1 DEF TypeOK
  <1>7. InTreeOK'
    <2> SUFFICES ASSUME provider.whose = "in_tree" PROVE InTreeOK'
      BY <1>2 DEF InTreeOK
    <2>1. /\ provider \in InTree /\ Unknown \notin DOMAIN results
          /\ provider.token \in {"readable", "open"} /\ declared = provider.caps
      BY <1>2, ProviderIs DEF ContractInv, InTreeOK
    <2>2. res = ServeHTTP(provider, r)
      BY DEF Responses
    <2>3. IF provider.token = "open" THEN res.status = 200 ELSE res.status = 401
      BY <2>1, <2>2, DiscoveryServed
    <2>4. results'["authentication"] = IF provider.token = "readable" THEN "PASS" ELSE "FAIL"
      BY <1>4, <2>1, <2>3
    <2>5. Unknown \notin DOMAIN results' /\ "authentication" \in DOMAIN results'
      BY <1>4, <2>1 DEF Unknown
    <2> QED BY <1>2, <2>1, <2>4, <2>5 DEF InTreeOK
  <1> QED BY <1>2, <1>5, <1>6, <1>7 DEF ContractInv, ResultsOK, MetricsOK, OrderOK

LEMMA CapabilityKeeps == ASSUME ContractInv, checkCapability PROVE ContractInv'
  <1>1. PICK i \in Unchecked :
          LET c == InfraCapabilities[i]
              r == Request(c, "right")
          IN \E res \in Responses(r) :
               LET outcome == checkStatus(c \in declared, res) IN
               /\ Remember([q \in {r} |-> res])
               /\ Result(c, outcome)
               /\ pc' = IF c = "metrics" /\ outcome = "PASS" THEN "every_metric" ELSE pc
    BY DEF checkCapability
  <1>. PICK c : c = InfraCapabilities[i]
    OBVIOUS
  <1> DEFINE r == Request(c, "right")
  <1>2. PICK res \in Responses(r) :
          LET outcome == checkStatus(c \in declared, res) IN
          /\ Remember([q \in {r} |-> res])
          /\ Result(c, outcome)
          /\ pc' = IF c = "metrics" /\ outcome = "PASS" THEN "every_metric" ELSE pc
    BY <1>1
  <1>. PICK outcome : outcome = checkStatus(c \in declared, res)
    OBVIOUS
  <1>3. /\ UNCHANGED <<provider, declared, read>> /\ TypeOK /\ pc = "capabilities"
        /\ ResultsOK /\ MetricsOK /\ InTreeOK
    BY DEF checkCapability, ContractInv
  <1>4. c \in Capabilities /\ c \notin DOMAIN results /\ c # "authentication" /\ c # Unknown
    BY Vocabulary DEF Unchecked, Capabilities
  <1>5. /\ DOMAIN results' = DOMAIN results \cup {c} /\ results'[c] = outcome
        /\ \A x \in DOMAIN results : results'[x] = results[x]
    BY <1>2, <1>4, ResultEffect
  <1>6. /\ \A q : Known(q) => Known(q)' /\ Answer(q)' = Answer(q)
        /\ Known(r)' /\ Answer(r)' = res
    BY <1>2, <1>3, RememberedOne
  <1>7. Judged(c)' = outcome
    BY <1>3, <1>6 DEF Judged
  <1>8. pc' = IF c = "metrics" /\ outcome = "PASS" THEN "every_metric" ELSE "capabilities"
    BY <1>2, <1>3
  <1>9. TypeOK'
    <2>1. outcome \in Outcomes
      BY DEF checkStatus, Outcomes
    <2>2. /\ DOMAIN results' \subseteq Capabilities \cup {"authentication", Unknown}
          /\ \A x \in DOMAIN results' : results'[x] \in Outcomes
      BY <1>3, <1>4, <1>5, <2>1 DEF TypeOK
    <2> QED BY <1>3, <1>8, <2>2 DEF TypeOK
  <1>10. ResultsOK'
    <2> SUFFICES ASSUME NEW x \in DOMAIN results' \cap Capabilities
                 PROVE  /\ results'[x] # "FAIL" => Known(Request(x, "right"))' /\ results'[x] = Judged(x)'
                        /\ provider'.whose = "in_tree" => results'[x] = Judged(x)'
      BY DEF ResultsOK
    <2>1. CASE x = c
      BY <1>5, <1>6, <1>7, <2>1
    <2>2. CASE x # c
      BY <1>3, <1>5, <1>6, <2>2, VerdictStays
    <2> QED BY <2>1, <2>2
  <1>11. MetricsOK'
    <2>1. CASE c = "metrics"
      BY <1>4, <1>5, <1>8, <2>1 DEF MetricsOK
    <2>2. CASE c # "metrics"
      <3>1. pc' = "capabilities"
        BY <1>8, <2>2
      <3>2. ASSUME "metrics" \in DOMAIN results', results'["metrics"] = "PASS"
            PROVE  \A q \in MetricQuestions : Known(q)' /\ MetricAnswered(q, Answer(q))'
        <4>1. "metrics" \in DOMAIN results /\ results["metrics"] = "PASS"
          BY <1>5, <2>2, <3>2
        <4>2. \A q \in MetricQuestions : Known(q) /\ MetricAnswered(q, Answer(q))
          BY <1>3, <4>1 DEF MetricsOK
        <4> QED BY <1>6, <4>2, MetricsStay
      <3> QED BY <3>1, <3>2 DEF MetricsOK
    <2> QED BY <2>1, <2>2
  <1>12. InTreeOK'
    BY <1>3, <1>4, <1>5, <1>8 DEF InTreeOK
  <1>13. OrderOK'
    BY <1>8 DEF OrderOK
  <1> QED BY <1>9, <1>10, <1>11, <1>12, <1>13 DEF ContractInv

LEMMA MetricQuestion ==
    ASSUME NEW q \in MetricQuestions
    PROVE  q.path = "metrics" /\ q.method = "GET" /\ q.token = "right"
  <1>1. \/ \E m : q = [Request("metrics", "right") EXCEPT !.metric = m]
        \/ q = [Request("metrics", "right") EXCEPT !.window = FALSE]
    BY Zenon DEF MetricQuestions
  <1>2. ASSUME NEW m, q = [Request("metrics", "right") EXCEPT !.metric = m]
        PROVE  q.path = "metrics" /\ q.method = "GET" /\ q.token = "right"
    BY <1>2, MetricFields
  <1>3. CASE q = [Request("metrics", "right") EXCEPT !.window = FALSE]
    BY <1>3, MetricFields
  <1> QED BY <1>1, <1>2, <1>3

\* The in-tree server answers every metric as it answers the first one.
LEMMA InTreeMetrics ==
    ASSUME ContractInv, pc = "every_metric", provider.whose = "in_tree",
           NEW q \in MetricQuestions
    PROVE  MetricAnswered(q, ServeHTTP(provider, q))
  <1>1. /\ provider \in InTree /\ provider.token \in {"readable", "open"}
        /\ declared = provider.caps /\ TypeOK
    BY ProviderIs DEF ContractInv, InTreeOK
  <1>2. "metrics" \in Capabilities /\ Judged("metrics") = "PASS"
    BY DEF ContractInv, MetricsOK, ResultsOK
  <1>3. "metrics" \in provider.caps /\ provider.reads["metrics"] \in {"list", "nil"}
    BY <1>1, <1>2, InTreeJudged
  <1>4. q.path = "metrics" /\ q.method = "GET" /\ q.token = "right"
    BY MetricQuestion
  <1>. PICK c \in Capabilities : c = "metrics"
    BY <1>2
  <1>. PICK res : res = ServeHTTP(provider, q)
    OBVIOUS
  <1>5. CASE q.metric \in Metrics /\ q.window
    <2>1. res = capabilityBody(provider, c)
      BY <1>1, <1>3, <1>4, <1>5, Served
    <2>2. res.status = 200 /\ res.body = "right"
      BY <1>3, <2>1, BodyServed DEF Reads
    <2> QED BY <1>5, <2>2 DEF MetricAnswered, checkBody
  <1>6. CASE ~(q.metric \in Metrics /\ q.window)
    <2>1. res = Error(400)
      BY <1>1, <1>3, <1>4, <1>6, Served
    <2>2. res.status = 400
      BY <2>1 DEF Error
    <2> QED BY <1>6, <2>2 DEF MetricAnswered
  <1> QED BY <1>5, <1>6

LEMMA EveryMetricKeeps == ASSUME ContractInv, checkEveryMetric PROVE ContractInv'
  <1>1. PICK answer \in [MetricQuestions -> UNION {Responses(q) : q \in MetricQuestions}] :
          /\ \A q \in MetricQuestions : answer[q] \in Responses(q)
          /\ Remember(answer)
          /\ IF \A q \in MetricQuestions : MetricAnswered(q, answer[q])
             THEN UNCHANGED results ELSE Result("metrics", "FAIL")
    BY DEF checkEveryMetric
  <1>2. /\ UNCHANGED <<provider, declared, read>> /\ pc = "every_metric" /\ pc' = "capabilities"
        /\ TypeOK /\ ResultsOK /\ MetricsOK /\ InTreeOK
    BY DEF checkEveryMetric, ContractInv
  <1>3. DOMAIN answer = MetricQuestions
    BY <1>1
  <1>4. /\ \A r : Known(r) => Known(r)' /\ Answer(r)' = Answer(r)
        /\ \A q \in MetricQuestions : Known(q)' /\ Answer(q)' = answer[q]
    BY <1>1, <1>2, <1>3, Remembered
  <1>5. /\ "metrics" \in Capabilities /\ "metrics" \in DOMAIN results
        /\ "metrics" # "authentication"
    BY <1>2 DEF MetricsOK
  <1>6. CASE /\ \A q \in MetricQuestions : MetricAnswered(q, answer[q])
             /\ UNCHANGED results
    <2>1. \A q \in MetricQuestions : Known(q)' /\ MetricAnswered(q, Answer(q))'
      BY <1>4, <1>6 DEF MetricAnswered, checkBody
    <2>2. ResultsOK'
      <3> SUFFICES ASSUME NEW x \in DOMAIN results' \cap Capabilities
                   PROVE  /\ results'[x] # "FAIL" => Known(Request(x, "right"))' /\ results'[x] = Judged(x)'
                          /\ provider'.whose = "in_tree" => results'[x] = Judged(x)'
        BY DEF ResultsOK
      <3> QED BY <1>2, <1>4, <1>6, VerdictStays
    <2>3. TypeOK' /\ InTreeOK' /\ OrderOK'
      BY <1>2, <1>6 DEF TypeOK, InTreeOK, OrderOK
    <2>4. MetricsOK'
      BY <1>2, <2>1 DEF MetricsOK
    <2> QED BY <2>2, <2>3, <2>4 DEF ContractInv
  <1>7. CASE ~(\A q \in MetricQuestions : MetricAnswered(q, answer[q])) /\ Result("metrics", "FAIL")
    <2>1. provider.whose # "in_tree"
      <3> SUFFICES ASSUME provider.whose = "in_tree" PROVE FALSE
        OBVIOUS
      <3>1. ASSUME NEW q \in MetricQuestions PROVE MetricAnswered(q, answer[q])
        <4>1. answer[q] = ServeHTTP(provider, q)
          BY <1>1 DEF Responses
        <4> QED BY <1>2, <4>1, InTreeMetrics
      <3> QED BY <1>7, <3>1
    <2>2. /\ DOMAIN results' = DOMAIN results \cup {"metrics"} /\ results'["metrics"] = "FAIL"
          /\ \A x \in DOMAIN results \ {"metrics"} : results'[x] = results[x]
      BY <1>7 DEF Result, Updated
    <2>3. DOMAIN results' = DOMAIN results
      BY <1>5, <2>2
    <2>4. ResultsOK'
      <3> SUFFICES ASSUME NEW x \in DOMAIN results' \cap Capabilities
                   PROVE  /\ results'[x] # "FAIL" => Known(Request(x, "right"))' /\ results'[x] = Judged(x)'
                          /\ provider'.whose = "in_tree" => results'[x] = Judged(x)'
        BY DEF ResultsOK
      <3>1. CASE x = "metrics"
        BY <1>2, <2>1, <2>2, <3>1
      <3>2. CASE x # "metrics"
        BY <1>2, <1>4, <2>2, <2>3, <3>2, VerdictStays
      <3> QED BY <3>1, <3>2
    <2>5. TypeOK'
      <3>1. \A c \in DOMAIN results : results[c] \in Outcomes
        BY <1>2 DEF TypeOK
      <3>2. \A c \in DOMAIN results' : results'[c] \in Outcomes
        BY <2>2, <2>3, <3>1 DEF Outcomes
      <3> QED BY <1>2, <2>3, <3>2 DEF TypeOK
    <2>6. MetricsOK' /\ InTreeOK' /\ OrderOK'
      BY <1>2, <2>1, <2>2 DEF MetricsOK, InTreeOK, OrderOK
    <2> QED BY <2>4, <2>5, <2>6 DEF ContractInv
  <1> QED BY <1>1, <1>6, <1>7

LEMMA CoreReadsKeeps == ASSUME ContractInv, CoreReads PROVE ContractInv'
  <1>1. /\ UNCHANGED <<provider, said, declared, results>> /\ pc = "capabilities" /\ pc' = "done"
        /\ Unchecked = {} /\ read' \in [CoreQuestions -> ReadOutcomes]
        /\ \A q \in CoreQuestions : read'[q] \in ReadsOf(q)
    BY DEF CoreReads
  <1>2. Capabilities \subseteq DOMAIN results'
    BY <1>1 DEF Unchecked, Capabilities
  <1>3. \A q \in CoreQuestions : read'[q] \in ReadsOf(q)'
    BY <1>1 DEF ReadsOf, Responses
  <1>4. TypeOK'
    <2>1. \A q \in DOMAIN read' : read'[q] \in ReadOutcomes
      BY <1>1
    <2> QED BY <1>1, <2>1 DEF ContractInv, TypeOK
  <1>5. OrderOK'
    BY <1>1, <1>2, <1>3 DEF OrderOK
  <1>6. \A r : (Known(r)' <=> Known(r)) /\ Answer(r)' = Answer(r)
    BY <1>1 DEF Known, Answer
  <1>7. ResultsOK'
    BY <1>1, <1>6 DEF ContractInv, ResultsOK, Judged
  <1>8. MetricsOK' /\ InTreeOK'
    BY <1>1, <1>6 DEF ContractInv, MetricsOK, MetricAnswered, checkBody, InTreeOK
  <1> QED BY <1>4, <1>5, <1>7, <1>8 DEF ContractInv

LEMMA NextContract == ContractInv /\ [Next]_vars => ContractInv'
  <1> SUFFICES ASSUME ContractInv, [Next]_vars PROVE ContractInv'
    OBVIOUS
  <1>1. CASE UNCHANGED vars
    <2>1. UNCHANGED <<provider, said, pc, declared, results, read>>
      BY <1>1 DEF vars
    <2>2. \A r : (Known(r)' <=> Known(r)) /\ Answer(r)' = Answer(r)
      BY <2>1 DEF Known, Answer
    <2>3. TypeOK' /\ InTreeOK'
      BY <2>1 DEF ContractInv, TypeOK, InTreeOK
    <2>4. ResultsOK'
      BY <2>1, <2>2 DEF ContractInv, ResultsOK, Judged
    <2>5. MetricsOK'
      BY <2>1, <2>2 DEF ContractInv, MetricsOK, MetricAnswered, checkBody
    <2>6. OrderOK'
      BY <2>1 DEF ContractInv, OrderOK, ReadsOf, Responses
    <2> QED BY <2>3, <2>4, <2>5, <2>6 DEF ContractInv
  <1> QED BY <1>1, DiscoverKeeps, AuthenticationKeeps, CapabilityKeeps, EveryMetricKeeps,
             CoreReadsKeeps DEF Next

-----------------------------------------------------------------------------
(* What Core reads                                                         *)

LEMMA CoreQuestion ==
    ASSUME NEW q \in CoreQuestions
    PROVE  /\ q.path \in Capabilities /\ q.method = "GET" /\ q.token = "right"
           /\ q.path = "metrics" => q.metric \in Metrics /\ q.window
           /\ \/ q = Request(q.path, "right")
              \/ q \in MetricQuestions /\ q.path = "metrics"
  <1>1. CASE \E c \in Capabilities \ {"metrics"} : q = Request(c, "right")
    <2>1. PICK c \in Capabilities \ {"metrics"} : q = Request(c, "right")
      BY <1>1
    <2>2. q.path = c /\ q.method = "GET" /\ q.token = "right"
      BY <2>1, RequestFields
    <2> QED BY <2>1, <2>2
  <1>2. CASE "metrics" \in Capabilities
             /\ \E m \in Metrics : q = [Request("metrics", "right") EXCEPT !.metric = m]
    <2>1. PICK m \in Metrics : q = [Request("metrics", "right") EXCEPT !.metric = m]
      BY <1>2
    <2>2. /\ q.path = "metrics" /\ q.method = "GET" /\ q.token = "right"
          /\ q.metric = m /\ q.window
      BY <2>1, MetricFields
    <2>3. m = "cpu" => q = Request("metrics", "right")
      <3>1. Request("metrics", "right") =
              [path |-> "metrics", method |-> "GET", token |-> "right",
               metric |-> "cpu", window |-> TRUE]
        BY DEF Request
      <3>2. [Request("metrics", "right") EXCEPT !.metric = "cpu"] = Request("metrics", "right")
        BY <3>1
      <3> QED BY <2>1, <3>2
    <2>4. m \in OtherMetrics => q \in MetricQuestions
      BY <2>1 DEF MetricQuestions
    <2>5. q = Request(q.path, "right") \/ q \in MetricQuestions
      BY <2>2, <2>3, <2>4 DEF Metrics
    <2> QED BY <1>2, <2>2, <2>5
  <1>3. \/ \E c \in Capabilities \ {"metrics"} : q = Request(c, "right")
        \/ \E m \in IF "metrics" \in Capabilities THEN Metrics ELSE {} :
             q = [Request("metrics", "right") EXCEPT !.metric = m]
    BY Zenon DEF CoreQuestions
  <1> QED BY <1>1, <1>2, <1>3

\* A read of a Capability the suite passed.
LEMMA PassedIsRead ==
    ASSUME ContractInv, pc = "done", Passed, NEW q \in CoreQuestions, q.path \in declared
    PROVE  read[q] = "value"
  <1>. PICK c : c = q.path
    OBVIOUS
  <1>1. c \in Capabilities /\ c \in DOMAIN results /\ c \in declared
    BY CoreQuestion DEF ContractInv, OrderOK
  <1>2. results[c] # "FAIL"
    BY <1>1 DEF Passed
  <1>3. Known(Request(c, "right")) /\ results[c] = Judged(c)
    BY <1>1, <1>2 DEF ContractInv, ResultsOK
  <1>4. /\ Answer(Request(c, "right")).status = 200 /\ Answer(Request(c, "right")).body = "right"
        /\ results[c] = "PASS"
    BY <1>1, <1>2, <1>3 DEF Judged, checkStatus, checkBody
  <1>5. Known(q) /\ Answer(q).status = 200 /\ Answer(q).body = "right"
    <2>1. CASE q = Request(c, "right")
      BY <1>3, <1>4, <2>1
    <2>2. CASE q \in MetricQuestions /\ c = "metrics"
      <3>1. Known(q) /\ MetricAnswered(q, Answer(q))
        BY <1>1, <1>4, <2>2 DEF ContractInv, MetricsOK
      <3>2. q.metric \in Metrics /\ q.window
        BY <2>2, CoreQuestion
      <3> QED BY <3>1, <3>2 DEF MetricAnswered, checkBody
    <2> QED BY <2>1, <2>2, CoreQuestion
  <1>6. ReadsOf(q) = {get(Answer(q))}
    BY <1>1, <1>5, KnownAnswer DEF ReadsOf
  <1>7. get(Answer(q)) = "value"
    BY <1>5 DEF get, decode
  <1>8. read[q] \in ReadsOf(q)
    BY DEF ContractInv, OrderOK
  <1> QED BY <1>6, <1>7, <1>8

\* What Core reads of the in-tree server.
LEMMA InTreeRead ==
    ASSUME ContractInv, pc = "done", provider.whose = "in_tree", NEW q \in CoreQuestions
    PROVE  read[q] = "error" <=> q.path \in provider.caps /\ provider.reads[q.path] = "error"
  <1>. PICK c : c = q.path
    OBVIOUS
  <1>1. /\ provider \in InTree /\ provider.token \in {"readable", "open"}
        /\ declared = provider.caps /\ TypeOK
    BY ProviderIs DEF ContractInv, InTreeOK
  <1>2. /\ c \in Capabilities /\ q.method = "GET" /\ q.token = "right"
        /\ c = "metrics" => q.metric \in Metrics /\ q.window
    BY CoreQuestion
  <1>3. read[q] \in ReadsOf(q)
    BY DEF ContractInv, OrderOK
  <1>4. CASE c \notin provider.caps
    <2>1. read[q] = "not_implemented"
      BY <1>1, <1>3, <1>4 DEF ReadsOf
    <2> QED BY <1>4, <2>1
  <1>5. CASE c \in provider.caps
    <2>. PICK res : res = ServeHTTP(provider, q)
      OBVIOUS
    <2>1. res = capabilityBody(provider, c)
      BY <1>1, <1>2, <1>5, Served
    <2>2. read[q] = get(res)
      BY <1>1, <1>3, <1>5 DEF ReadsOf, Responses
    <2>3. provider.reads[c] \in Reads
      BY <1>1, <1>2 DEF InTree
    <2>4. /\ provider.reads[c] \in {"list", "nil"} => res.status = 200 /\ res.body = "right"
          /\ provider.reads[c] = "not_implemented" => res.status = 501
          /\ provider.reads[c] = "error" => res.status = 502
      BY <2>1, <2>3, BodyServed
    <2>5. /\ provider.reads[c] \in {"list", "nil"} => get(res) = "value"
          /\ provider.reads[c] = "not_implemented" => get(res) = "not_implemented"
          /\ provider.reads[c] = "error" => get(res) = "error"
      BY <2>4 DEF get, decode, statusError
    <2>6. read[q] = "error" <=> provider.reads[c] = "error"
      BY <2>2, <2>3, <2>5 DEF Reads
    <2> QED BY <1>5, <2>6
  <1> QED BY <1>4, <1>5

LEMMA InTreePassed ==
    ASSUME ContractInv, pc = "done", provider.whose = "in_tree"
    PROVE  Passed <=> /\ provider.token = "readable"
                      /\ \A c \in provider.caps : provider.reads[c] \in {"list", "nil"}
  <1>1. /\ provider \in InTree /\ provider.token \in {"readable", "open"}
        /\ declared = provider.caps /\ TypeOK /\ Unknown \notin DOMAIN results
        /\ "authentication" \in DOMAIN results
        /\ results["authentication"] = IF provider.token = "readable" THEN "PASS" ELSE "FAIL"
    BY ProviderIs DEF ContractInv, InTreeOK
  <1>2. provider.caps \subseteq Capabilities
    BY <1>1 DEF InTree
  <1>3. /\ Capabilities \subseteq DOMAIN results
        /\ DOMAIN results \subseteq Capabilities \cup {"authentication"}
    BY <1>1 DEF ContractInv, OrderOK, TypeOK
  <1>4. \A c \in Capabilities :
          results[c] = IF c \notin provider.caps THEN "NOT_IMPLEMENTED"
                       ELSE IF provider.reads[c] \in {"list", "nil"} THEN "PASS" ELSE "FAIL"
    BY <1>1, <1>3, InTreeJudged DEF ContractInv, ResultsOK
  <1>5. results["authentication"] # "FAIL" <=> provider.token = "readable"
    BY <1>1
  <1>6. \A c \in Capabilities :
          results[c] = "FAIL" <=> c \in provider.caps /\ provider.reads[c] \notin {"list", "nil"}
    BY <1>4
  <1> QED BY <1>1, <1>2, <1>3, <1>5, <1>6 DEF Passed

\* The suite's outcomes are verdicts on answers the Provider gives again.
THEOREM ContractInvariant == Spec => []ContractInv
  <1> QED BY InitContract, NextContract, PTL DEF Spec

\* Type correctness of the suite's report and of Core's reads.
THEOREM ContractTypes == Spec => []TypeOK
  <1>1. ContractInv => TypeOK
    BY DEF ContractInv
  <1> QED BY <1>1, ContractInvariant, PTL

\* Run (conformance.go) against get (client.go): Core reads a value of everything
\* declared from any Provider that passed the suite, whatever it answers.
THEOREM PassingProvidersAreReadable == Spec => []PassedIsReadable
  <1>1. ContractInv => PassedIsReadable
    <2> SUFFICES ASSUME ContractInv, pc = "done", Passed, NEW q \in CoreQuestions
                 PROVE  read[q] = IF q.path \in declared THEN "value" ELSE "not_implemented"
      BY DEF PassedIsReadable
    <2>1. q.path \notin declared => read[q] = "not_implemented"
      BY DEF ContractInv, OrderOK, ReadsOf
    <2> QED BY <2>1, PassedIsRead
  <1> QED BY <1>1, ContractInvariant, PTL

\* The suite's verdict on the in-tree server (server.go) is the one on the Provider
\* behind it, for every Provider.
THEOREM InTreeVerdictIsRight == Spec => []InTreeVerdict
  <1>1. ContractInv => InTreeVerdict
    <2> SUFFICES ASSUME ContractInv, provider.whose = "in_tree", pc \in {"refused", "done"}
                 PROVE  (pc = "done" /\ Passed) <=>
                          /\ provider.token = "readable"
                          /\ \A c \in provider.caps : provider.reads[c] \in {"list", "nil"}
      BY DEF InTreeVerdict
    <2>1. CASE pc = "refused"
      BY <2>1 DEF ContractInv, InTreeOK
    <2>2. CASE pc = "done"
      BY <2>2, InTreePassed
    <2> QED BY <2>1, <2>2
  <1> QED BY <1>1, ContractInvariant, PTL

\* writeFailure (server.go) and statusError (client.go): Core takes a Capability
\* for broken exactly where the Substrate failed, for every Provider.
THEOREM FaultsAreTold == Spec => []NotSupportedIsNotBroken
  <1>1. ContractInv => NotSupportedIsNotBroken
    BY InTreeRead DEF NotSupportedIsNotBroken
  <1> QED BY <1>1, ContractInvariant, PTL
=============================================================================
