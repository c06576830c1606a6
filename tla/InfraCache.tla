----------------------------- MODULE InfraCache -----------------------------
(***************************************************************************)
(* The infrastructure snapshot cache of the API (internal/infra/cache.go)  *)
(* with the fan-out of one collection (Collector.Collect).  Requests read  *)
(* the snapshot under a mutex and leave a refresh goroutine behind when it *)
(* is old; the goroutine builds the collector if there is none, calls      *)
(* every source at once, and stores what came back.                        *)
(*                                                                         *)
(* A time.Time field is kept as its age, now minus the field, which is all *)
(* the code ever asks of it; the zero time is older than any threshold.    *)
(***************************************************************************)
EXTENDS Integers

CONSTANTS
    Sources,      \* the reads one collection fans out
    Refreshers,   \* refresh goroutines there may be at once
    TTL,          \* ttl
    StaleAfter,   \* staleAfter
    CallTimeout,  \* CallTimeout, which bounds every call of the fan-out
    Cap,          \* bound: an age that is never told from a greater one
    None          \* nil

ASSUME CacheConstants ==
    /\ TTL \in Nat \ {0} /\ StaleAfter \in Nat /\ CallTimeout \in Nat \ {0}
    /\ Cap \in Nat /\ Cap > TTL /\ Cap > StaleAfter + CallTimeout
    /\ None \notin [ok : SUBSET Sources, age : 0..Cap]

VARIABLES
    primed,      \* main has called Prime; the routes are served after that
    collector,   \* is c.collector built
    snap,        \* c.snap: what was read, and when its collection began
    fetched,     \* age of c.fetchedAt
    attempted,   \* age of c.attempted
    refreshing,  \* c.refreshing
    lastErr,     \* is c.lastErr set
    ref,         \* goroutine -> its state
    polled,      \* age of the latest start of a fan-out
    reachable    \* sources whose Provider can be reached

cacheVars == <<primed, snap, fetched, lastErr>>
vars == <<cacheVars, collector, attempted, refreshing, ref, polled, reachable>>

Ages == 0..Cap
Snapshots == [ok : SUBSET Sources, age : Ages]

RefresherStates == [phase : {"idle", "build", "calls"}, age : Ages,
                    pending : SUBSET Sources, ok : SUBSET Sources]

Gone == [phase |-> "idle", age |-> 0, pending |-> {}, ok |-> {}]

Init ==
    /\ primed = FALSE
    /\ collector = FALSE
    /\ snap = None
    /\ fetched = Cap
    /\ attempted = Cap
    /\ refreshing = FALSE
    /\ lastErr = FALSE
    /\ ref = [r \in Refreshers |-> Gone]
    /\ polled = Cap
    /\ reachable = Sources

-----------------------------------------------------------------------------
\* Mutant of StartRefresh: does not look whether one is running.
StartRefreshAgain ==
    IF attempted < TTL
    THEN UNCHANGED <<refreshing, attempted, ref>>
    ELSE /\ refreshing' = TRUE
         /\ attempted' = 0
         /\ \E r \in Refreshers :
              /\ ref[r].phase = "idle"
              /\ ref' = [ref EXCEPT ![r] = [Gone EXCEPT !.phase = "build"]]

\* startRefreshLocked: one refresh at a time, one attempt per TTL.
StartRefresh ==
    IF refreshing \/ attempted < TTL
    THEN UNCHANGED <<refreshing, attempted, ref>>
    ELSE /\ refreshing' = TRUE
         /\ attempted' = 0
         /\ \E r \in Refreshers :
              /\ ref[r].phase = "idle"
              /\ ref' = [ref EXCEPT ![r] = [Gone EXCEPT !.phase = "build"]]

Prime ==
    /\ ~primed /\ primed' = TRUE
    /\ StartRefresh
    /\ UNCHANGED <<snap, fetched, lastErr, collector, polled, reachable>>

\* Mutant of Expired: every request asks for a refresh.
AlwaysExpired == TRUE

Expired == snap = None \/ fetched >= TTL

\* Get: the reply is the snapshot, flagged Stale, or ErrNotReady.
Get ==
    /\ primed
    /\ IF Expired THEN StartRefresh ELSE UNCHANGED <<refreshing, attempted, ref>>
    /\ UNCHANGED <<cacheVars, collector, polled, reachable>>

Stale == fetched > StaleAfter

\* collect: the collector is there or is built (no deadline holds for that:
\* infra.NewSources takes no context), and its fan-out starts.
Build(r) ==
    /\ ref[r].phase = "build"
    /\ collector' = TRUE
    /\ ref' = [ref EXCEPT ![r] = [Gone EXCEPT !.phase = "calls", !.pending = Sources]]
    /\ polled' = 0
    /\ UNCHANGED <<cacheVars, attempted, refreshing, reachable>>

\* Mutant of BuildFails: returns without clearing the flag.
BuildFailsEarly(r) ==
    /\ ref[r].phase = "build" /\ ~collector
    /\ ref' = [ref EXCEPT ![r] = Gone]
    /\ lastErr' = TRUE
    /\ UNCHANGED <<primed, snap, fetched, refreshing, collector, attempted,
                   polled, reachable>>

\* Mutant of BuildFails: the error is not kept.
BuildFailsUnrecorded(r) ==
    /\ ref[r].phase = "build" /\ ~collector
    /\ ref' = [ref EXCEPT ![r] = Gone]
    /\ refreshing' = FALSE
    /\ UNCHANGED <<cacheVars, collector, attempted, polled, reachable>>

\* Mutant of BuildFails: fetchedAt is set after every attempt.
BuildFailsFetched(r) ==
    /\ ref[r].phase = "build" /\ ~collector
    /\ ref' = [ref EXCEPT ![r] = Gone]
    /\ refreshing' = FALSE
    /\ lastErr' = TRUE
    /\ fetched' = 0
    /\ UNCHANGED <<primed, snap, collector, attempted, polled, reachable>>

\* newCollector returns an error: the only one a refresh can end with.
BuildFails(r) ==
    /\ ref[r].phase = "build" /\ ~collector
    /\ ref' = [ref EXCEPT ![r] = Gone]
    /\ refreshing' = FALSE
    /\ lastErr' = TRUE
    /\ UNCHANGED <<primed, snap, fetched, collector, attempted, polled, reachable>>

\* One call of the fan-out answers; or it fails, for whatever reason: no
\* source, an error, its timeout, the refresh's deadline.
CallAnswers(r, s) ==
    /\ ref[r].phase = "calls" /\ s \in ref[r].pending /\ s \in reachable
    /\ ref' = [ref EXCEPT ![r].pending = @ \ {s}, ![r].ok = @ \cup {s}]
    /\ UNCHANGED <<cacheVars, collector, attempted, refreshing, polled, reachable>>

CallFails(r, s) ==
    /\ ref[r].phase = "calls" /\ s \in ref[r].pending
    /\ ref' = [ref EXCEPT ![r].pending = @ \ {s}]
    /\ UNCHANGED <<cacheVars, collector, attempted, refreshing, polled, reachable>>

\* wg.Wait returns; the snapshot, complete or not, replaces the one there is.
Apply(r) ==
    /\ ref[r].phase = "calls" /\ ref[r].pending = {}
    /\ snap' = [ok |-> ref[r].ok, age |-> ref[r].age]
    /\ fetched' = 0
    /\ refreshing' = FALSE
    /\ lastErr' = FALSE
    /\ ref' = [ref EXCEPT ![r] = Gone]
    /\ UNCHANGED <<primed, collector, attempted, polled, reachable>>

-----------------------------------------------------------------------------
\* Time.Sub, which saturates.
Older(age) == IF age < Cap THEN age + 1 ELSE Cap

\* Mutant of Tick: a call may take as long as it likes.
TickWithoutTimeout ==
    /\ snap' = IF snap = None THEN None ELSE [snap EXCEPT !.age = Older(@)]
    /\ fetched' = Older(fetched)
    /\ attempted' = Older(attempted)
    /\ polled' = Older(polled)
    /\ ref' = [r \in Refreshers |->
                 IF ref[r].phase = "calls" THEN [ref[r] EXCEPT !.age = Older(@)]
                 ELSE ref[r]]
    /\ UNCHANGED <<primed, lastErr, collector, refreshing, reachable>>

\* Time passes, but no call is waited for longer than CallTimeout.
Tick ==
    /\ \A r \in Refreshers : ref[r].phase = "calls" => ref[r].age < CallTimeout
    /\ snap' = IF snap = None THEN None ELSE [snap EXCEPT !.age = Older(@)]
    /\ fetched' = Older(fetched)
    /\ attempted' = Older(attempted)
    /\ polled' = Older(polled)
    /\ ref' = [r \in Refreshers |->
                 IF ref[r].phase = "calls" THEN [ref[r] EXCEPT !.age = Older(@)]
                 ELSE ref[r]]
    /\ UNCHANGED <<primed, lastErr, collector, refreshing, reachable>>

\* A Provider goes down or comes back.
Toggle(s) ==
    /\ reachable' = IF s \in reachable THEN reachable \ {s} ELSE reachable \cup {s}
    /\ UNCHANGED <<cacheVars, collector, attempted, refreshing, ref, polled>>

RefreshStep(r) ==
    \/ Build(r) \/ BuildFails(r) \/ Apply(r)
    \/ \E s \in Sources : CallAnswers(r, s) \/ CallFails(r, s)

Next ==
    \/ Prime \/ Get \/ Tick
    \/ \E r \in Refreshers : RefreshStep(r)
    \/ \E s \in Sources : Toggle(s)

Spec == Init /\ [][Next]_vars

(***************************************************************************)
(* Fairness: main primes the cache, the dashboard keeps polling, time      *)
(* passes, a started refresh goes on, a collector that can be built again  *)
(* and again is built in the end, and a Provider that can be reached       *)
(* answers some of the calls made to it.                                   *)
(***************************************************************************)
Fairness ==
    /\ WF_vars(Prime) /\ WF_vars(Get) /\ WF_vars(Tick)
    /\ \A r \in Refreshers : WF_vars(RefreshStep(r)) /\ SF_vars(Build(r))
    /\ \A s \in Sources : SF_vars(\E r \in Refreshers : CallAnswers(r, s))

FairSpec == Spec /\ Fairness

-----------------------------------------------------------------------------
\* The fields' types; and a time of fetching there is only with a snapshot.
TypeOK ==
    /\ primed \in BOOLEAN /\ collector \in BOOLEAN
    /\ refreshing \in BOOLEAN /\ lastErr \in BOOLEAN
    /\ snap \in Snapshots \cup {None}
    /\ fetched \in Ages /\ attempted \in Ages /\ polled \in Ages
    /\ snap = None => fetched = Cap
    /\ ref \in [Refreshers -> RefresherStates]
    /\ reachable \subseteq Sources

\* "a Provider is polled at most once per TTL": between the starts of two
\* fan-outs lies a TTL, however long the goroutine took to get to its fan-out.
PolledOncePerTTL ==
    [][\A r \in Refreshers : Build(r) => polled >= TTL]_vars

\* A snapshot is replaced by a later one only: a slow refresh never puts older
\* readings over newer ones.
SnapshotNeverGoesBack ==
    [][\A r \in Refreshers : Apply(r) /\ snap # None => ref[r].age <= snap.age]_vars

\* What Get returns unflagged was read within staleAfter and the time one
\* fan-out may take, although the age is counted from the end of the fan-out.
UnflaggedIsRecent ==
    snap # None /\ ~Stale => snap.age <= StaleAfter + CallTimeout

\* Without a snapshot Get gives the reason the last attempt failed with, except
\* while the first refreshes are still under way.
NotReadyIsExplained == primed /\ snap = None => refreshing \/ lastErr

\* A source whose Provider stays reachable is shown again and again, whatever
\* failed before: no failure leaves the cache without further refreshes.
Recovers ==
    \A s \in Sources :
      <>[](s \in reachable) => []<>(snap # None /\ s \in snap.ok)

\* One refresh goroutine at most, and the flag says whether there is one.
OneRefresh ==
    /\ refreshing = \E r \in Refreshers : ref[r].phase # "idle"
    /\ \A q, r \in Refreshers :
         ref[q].phase # "idle" /\ ref[r].phase # "idle" => q = r

Calling == \E r \in Refreshers : ref[r].phase = "calls"

\* How the fan-outs, the snapshots and the attempts follow each other.
PollsInOrder ==
    /\ \A r \in Refreshers : ref[r].phase = "build" => Expired
    /\ \A r \in Refreshers : ref[r].phase = "calls" =>
         /\ ref[r].age = polled /\ polled <= CallTimeout
         /\ snap # None => polled <= snap.age
    /\ ~Calling => IF snap = None THEN polled = Cap ELSE fetched <= polled
    /\ snap # None => snap.age <= fetched + CallTimeout

CacheInv ==
    /\ TypeOK /\ OneRefresh /\ PollsInOrder /\ NotReadyIsExplained
    /\ ~primed => attempted = Cap /\ ~refreshing /\ snap = None
=============================================================================
