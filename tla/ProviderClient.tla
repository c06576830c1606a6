--------------------------- MODULE ProviderClient ---------------------------
(***************************************************************************)
(* Core's side of the Provider contract (internal/provider): which source  *)
(* serves each Capability, decided once when the collector is built, and   *)
(* the client that reads a Provider, asking it first what it serves when   *)
(* it does not know or what it knows is older than capabilityTTL.  One     *)
(* collection calls all Capabilities at once; calls of one client share    *)
(* what it knows under a mutex and interleave between their steps.         *)
(*                                                                         *)
(* A Provider is down when a request gets no 200: it is unreachable, its   *)
(* token is being rotated, it answers an error or another kind.  Times are *)
(* kept as ages, as in InfraCache.                                         *)
(***************************************************************************)
EXTENDS Integers

CONSTANTS
    N,            \* configured Infra Providers, in the order of the entries
    Capabilities, \* InfraCapabilities
    Fallback,     \* Capabilities the in-process Oracle Cloud reads supply
    TTL,          \* capabilityTTL
    CallTimeout,  \* the collector's bound on one call
    Cap           \* bound: an age that is never told from a greater one

ASSUME ClientConstants ==
    /\ N \in Nat /\ Fallback \subseteq Capabilities
    /\ TTL \in Nat \ {0} /\ CallTimeout \in Nat \ {0}
    /\ Cap \in Nat /\ Cap > TTL + 2 * CallTimeout

Providers == 1..N
Ages == 0..Cap

VARIABLES
    up,      \* Providers that can be read
    serves,  \* Provider -> Capabilities it serves
    built,   \* is there a collector
    slot,    \* Capability -> the source wired to it
    known,   \* client -> declared, and the age of knownAt and of the answer
    call,    \* Capability -> the call the collection makes for it
    shown    \* Capability -> how the last call ended (before any: failed)

vars == <<up, serves, built, slot, known, call, shown>>

Slots == [by : {"provider", "fallback", "unimplemented", "nil"}, p : 0..N]
Knowledge == [declared : SUBSET Capabilities, fresh : BOOLEAN, at : Ages, since : Ages]
Outcomes == {"ok", "not_implemented", "failed"}

\* use is the answer the call holds and basis how old what it goes by is; age is
\* how long the call has taken.
CallStates == [pc : {"idle", "ask", "store", "reread", "read"}, age : Ages,
               use : SUBSET Capabilities, basis : Ages]
NoCall == [pc |-> "idle", age |-> 0, use |-> {}, basis |-> 0]

Init ==
    /\ up \in SUBSET Providers
    /\ serves \in [Providers -> SUBSET Capabilities]
    /\ built = FALSE
    /\ slot = [c \in Capabilities |-> [by |-> "nil", p |-> 0]]
    /\ known = [p \in Providers |-> [declared |-> {}, fresh |-> FALSE, at |-> Cap, since |-> Cap]]
    /\ call = [c \in Capabilities |-> NoCall]
    /\ shown = [c \in Capabilities |-> "failed"]

-----------------------------------------------------------------------------
First(S) == CHOOSE p \in S : \A q \in S : p <= q

\* Mutant of SlotFor: a Provider that could not be asked ranks above the fallback.
SlotForDownFirst(c, reached) ==
    LET declaring == {p \in reached : c \in serves[p]}
        undiscovered == Providers \ reached
    IN IF declaring # {} THEN [by |-> "provider", p |-> First(declaring)]
       ELSE IF undiscovered # {} THEN [by |-> "provider", p |-> First(undiscovered)]
       ELSE IF c \in Fallback THEN [by |-> "fallback", p |-> 0]
       ELSE [by |-> "unimplemented", p |-> 0]

\* Mutant of SlotFor: undiscovered is indexed from one.
SlotForOffByOne(c, reached) ==
    LET declaring == {p \in reached : c \in serves[p]}
        undiscovered == Providers \ reached
    IN IF declaring # {} THEN [by |-> "provider", p |-> First(declaring)]
       ELSE IF c \in Fallback THEN [by |-> "fallback", p |-> 0]
       ELSE IF undiscovered # {} THEN [by |-> "provider", p |-> First(undiscovered) + 1]
       ELSE [by |-> "unimplemented", p |-> 0]

\* InfraSources: the slot of c when the Providers in reached answered discovery.
SlotFor(c, reached) ==
    LET declaring == {p \in reached : c \in serves[p]}
        undiscovered == Providers \ reached
    IN IF declaring # {} THEN [by |-> "provider", p |-> First(declaring)]
       ELSE IF c \in Fallback THEN [by |-> "fallback", p |-> 0]
       ELSE IF undiscovered # {} THEN [by |-> "provider", p |-> First(undiscovered)]
       ELSE IF N > 0 THEN [by |-> "unimplemented", p |-> 0]
       ELSE [by |-> "nil", p |-> 0]

\* The collector is built: every Provider is asked once; a request to one that
\* is up may fail too.
Build ==
    /\ ~built /\ built' = TRUE
    /\ \E reached \in SUBSET up :
         /\ known' = [p \in Providers |->
                        IF p \in reached
                        THEN [declared |-> serves[p], fresh |-> TRUE, at |-> 0, since |-> 0]
                        ELSE known[p]]
         /\ slot' = [c \in Capabilities |-> SlotFor(c, reached)]
    /\ UNCHANGED <<up, serves, call, shown>>

-----------------------------------------------------------------------------
World == <<up, serves, built, slot>>

End(c, outcome) ==
    /\ call' = [call EXCEPT ![c] = NoCall]
    /\ shown' = [shown EXCEPT ![c] = outcome]

\* supports, once it has the declared set: an undeclared Capability is refused
\* here, before any request.
Decide(c, use, basis) ==
    IF c \in use
    THEN /\ call' = [call EXCEPT ![c].pc = "read", ![c].basis = basis]
         /\ UNCHANGED shown
    ELSE End(c, "not_implemented")

\* Mutant of Stale: what is known once is known for good.
StaleNever(p) == ~known[p].fresh

\* Mutant of Stale: a nil declared set is taken for an answer.
StaleIfKnown(p) == known[p].fresh /\ known[p].at > TTL

\* declared == nil, or older than capabilityTTL.
Stale(p) == ~known[p].fresh \/ known[p].at > TTL

\* A collection calls the source of c.  A slot without a client ends at once.
StartCall(c) ==
    /\ built /\ call[c].pc = "idle"
    /\ LET p == slot[c].p IN
       CASE slot[c].by = "provider" ->
              IF Stale(p)
              THEN call' = [call EXCEPT ![c].pc = "ask"] /\ UNCHANGED shown
              ELSE Decide(c, known[p].declared, known[p].since)
         [] slot[c].by = "fallback" -> End(c, "ok") \/ End(c, "failed")
         [] slot[c].by = "unimplemented" -> End(c, "not_implemented")
         [] slot[c].by = "nil" -> End(c, "failed")
    /\ UNCHANGED <<World, known>>

\* Capabilities: the Provider answers discovery with what it serves now.
Answer(c) ==
    /\ call[c].pc = "ask" /\ slot[c].p \in up
    /\ call' = [call EXCEPT ![c].pc = "store", ![c].use = serves[slot[c].p], ![c].basis = 0]
    /\ UNCHANGED <<World, known, shown>>

\* The answer is stored, whoever stored another one in the meantime; knownAt is
\* when it is stored, not when it was given.
Store(c) ==
    /\ call[c].pc = "store"
    /\ known' = [known EXCEPT ![slot[c].p] =
                   [declared |-> call[c].use, fresh |-> TRUE, at |-> 0, since |-> call[c].basis]]
    /\ call' = [call EXCEPT ![c].pc = "reread", ![c].use = {}, ![c].basis = 0]
    /\ UNCHANGED <<World, shown>>

\* declared = c.declared again: this call's answer, or another's stored since.
Reread(c) ==
    /\ call[c].pc = "reread"
    /\ Decide(c, known[slot[c].p].declared, known[slot[c].p].since)
    /\ UNCHANGED <<World, known>>

\* The read itself: 200, or 501 if the Provider no longer serves c.
Read(c) ==
    /\ call[c].pc = "read" /\ slot[c].p \in up
    /\ End(c, IF c \in serves[slot[c].p] THEN "ok" ELSE "not_implemented")
    /\ UNCHANGED <<World, known>>

\* A request fails, or the collector's deadline for the call passes.
CallFails(c) ==
    /\ call[c].pc \in {"ask", "read"}
    /\ End(c, "failed")
    /\ UNCHANGED <<World, known>>

-----------------------------------------------------------------------------
Older(age) == IF age < Cap THEN age + 1 ELSE Cap

\* Time passes, but no call takes longer than CallTimeout.
Tick ==
    /\ \A c \in Capabilities : call[c].pc # "idle" => call[c].age < CallTimeout
    /\ known' = [p \in Providers |-> [known[p] EXCEPT !.at = Older(@), !.since = Older(@)]]
    /\ call' = [c \in Capabilities |->
                  IF call[c].pc = "idle" THEN call[c]
                  ELSE [call[c] EXCEPT !.age = Older(@),
                          !.basis = IF call[c].pc \in {"store", "read"} THEN Older(@) ELSE @]]
    /\ UNCHANGED <<World, shown>>

\* A Provider goes down or comes back, or starts or stops serving one thing.
Toggle(p) ==
    /\ up' = IF p \in up THEN up \ {p} ELSE up \cup {p}
    /\ UNCHANGED <<serves, built, slot, known, call, shown>>

Change(p, c) ==
    /\ serves' = [serves EXCEPT ![p] = IF c \in @ THEN @ \ {c} ELSE @ \cup {c}]
    /\ UNCHANGED <<up, built, slot, known, call, shown>>

CallStep(c) == Answer(c) \/ Store(c) \/ Reread(c) \/ Read(c) \/ CallFails(c)

Next ==
    \/ Build \/ Tick
    \/ \E c \in Capabilities : StartCall(c) \/ CallStep(c)
    \/ \E p \in Providers : Toggle(p) \/ \E c \in Capabilities : Change(p, c)

Spec == Init /\ [][Next]_vars

(***************************************************************************)
(* Fairness: the cache keeps refreshing, a call goes on, time passes, and  *)
(* a request that is made again and again to a Provider that is up gets    *)
(* its answer some time.                                                   *)
(***************************************************************************)
Fairness ==
    /\ WF_vars(Build) /\ WF_vars(Tick)
    /\ \A c \in Capabilities :
         /\ WF_vars(StartCall(c)) /\ WF_vars(CallStep(c))
         /\ SF_vars(Answer(c)) /\ SF_vars(Read(c))

FairSpec == Spec /\ Fairness

-----------------------------------------------------------------------------
TypeOK ==
    /\ up \subseteq Providers
    /\ serves \in [Providers -> SUBSET Capabilities]
    /\ built \in BOOLEAN
    /\ slot \in [Capabilities -> Slots]
    /\ \A c \in Capabilities : slot[c].by = "provider" => slot[c].p \in Providers
    /\ known \in [Providers -> Knowledge]
    /\ call \in [Capabilities -> CallStates]
    /\ shown \in [Capabilities -> Outcomes]

\* Although calls of one collection rediscover side by side, a slow one stores
\* its answer over a newer one, and knownAt is not when the answer was given:
\* a Capability is read on a Provider's word at most the TTL and two calls'
\* time old.
DecidesOnRecentWord ==
    \A c \in Capabilities : call[c].pc = "read" => call[c].basis <= TTL + 2 * CallTimeout

\* A Provider that stays up and serves the Capability it is wired to is read
\* again and again, whatever it did not serve or answer before, and although
\* it was down when the collector was built.
WiredIsNoticed ==
    \A c \in Capabilities :
      <>[](slot[c].by = "provider" /\ slot[c].p \in up /\ c \in serves[slot[c].p])
        => []<>(shown[c] = "ok")

\* Nobody's data is taken away by a Provider that is merely down: a Capability
\* the fallback supplies goes to a Provider only if that answered discovery.
FallbackKept ==
    \A c \in Fallback : slot[c].by = "provider" => known[slot[c].p].fresh

\* "a Provider which gains a Capability, or comes back from an outage, is
\* noticed without restarting Core": a Capability that some Provider stays up
\* for and serves is read again and again.
GainIsNoticed ==
    \A c \in Capabilities :
      <>[](built /\ \E p \in Providers : p \in up /\ c \in serves[p]) => []<>(shown[c] = "ok")
=============================================================================
