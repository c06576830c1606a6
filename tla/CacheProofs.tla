---------------------------- MODULE CacheProofs ----------------------------
(***************************************************************************)
(* Proofs about InfraCache, for every TTL, threshold, call timeout, set of *)
(* sources and number of goroutines.                                       *)
(***************************************************************************)
EXTENDS InfraCache, TLAPS

LEMMA GoneType == Gone \in RefresherStates
  BY CacheConstants DEF Gone, RefresherStates, Ages

LEMMA AgesNat == /\ Ages \subseteq Nat /\ 0 \in Ages /\ Cap \in Ages
                 /\ \A a \in Ages : Older(a) \in Ages /\ a <= Older(a)
                                    /\ a <= Cap /\ Older(a) <= a + 1
                 /\ \A a, b \in Ages : a <= b => Older(a) <= Older(b)
                 /\ Older(Cap) = Cap
  BY CacheConstants DEF Ages, Older

LEMMA NoneIsNoSnapshot == None \notin Snapshots
  BY CacheConstants DEF Snapshots, Ages

LEMMA InitCache == Init => CacheInv
  <1> SUFFICES ASSUME Init PROVE CacheInv
    OBVIOUS
  <1>1. TypeOK
    BY GoneType, AgesNat DEF Init, TypeOK
  <1>2. OneRefresh /\ PollsInOrder
    BY DEF Init, OneRefresh, PollsInOrder, Calling, Gone
  <1> QED BY <1>1, <1>2 DEF CacheInv, NotReadyIsExplained, Init

\* A refresh starts only when none is running, and not within a TTL of the last
\* attempt.
LEMMA StartEffect ==
    ASSUME CacheInv, StartRefresh
    PROVE  \/ UNCHANGED <<refreshing, attempted, ref>> /\ (refreshing \/ attempted < TTL)
           \/ /\ ~refreshing /\ refreshing' = TRUE /\ attempted' = 0
              /\ \A q \in Refreshers : ref[q].phase = "idle"
              /\ ref' \in [Refreshers -> RefresherStates]
              /\ \E r \in Refreshers :
                   /\ ref'[r].phase = "build"
                   /\ \A q \in Refreshers \ {r} : ref'[q] = ref[q]
  <1>1. CASE refreshing \/ attempted < TTL
    BY <1>1 DEF StartRefresh
  <1>2. CASE ~(refreshing \/ attempted < TTL)
    <2>1. PICK r \in Refreshers :
            ref' = [ref EXCEPT ![r] = [Gone EXCEPT !.phase = "build"]]
      BY <1>2 DEF StartRefresh
    <2>2. /\ [Gone EXCEPT !.phase = "build"] \in RefresherStates
          /\ [Gone EXCEPT !.phase = "build"].phase = "build"
      BY GoneType DEF RefresherStates
    <2>3. \A q \in Refreshers : ref[q].phase = "idle"
      BY <1>2 DEF CacheInv, OneRefresh
    <2> QED BY <1>2, <2>1, <2>2, <2>3 DEF StartRefresh, CacheInv, TypeOK
  <1> QED BY <1>1, <1>2

LEMMA RequestInv == ASSUME CacheInv, Prime \/ Get PROVE CacheInv'
  <1> USE DEF CacheInv
  <1>1. /\ UNCHANGED <<snap, fetched, lastErr, collector, polled, reachable>>
        /\ primed' = TRUE
    BY DEF Prime, Get, cacheVars, TypeOK
  <1>2. \/ UNCHANGED <<refreshing, attempted, ref>> /\ (primed \/ refreshing \/ attempted < TTL)
        \/ /\ ~refreshing /\ refreshing' = TRUE /\ attempted' = 0 /\ Expired
           /\ \A q \in Refreshers : ref[q].phase = "idle"
           /\ ref' \in [Refreshers -> RefresherStates]
           /\ \E r \in Refreshers :
                /\ ref'[r].phase = "build"
                /\ \A q \in Refreshers \ {r} : ref'[q] = ref[q]
    <2>1. CASE Get
      BY <2>1, StartEffect DEF Get
    <2>2. CASE Prime
      <3>1. Expired
        BY <2>2 DEF Prime, Expired, CacheInv
      <3> QED BY <2>2, <3>1, StartEffect DEF Prime
    <2> QED BY <2>1, <2>2
  <1>3. TypeOK'
    BY <1>1, <1>2, AgesNat DEF TypeOK
  <1>4. OneRefresh'
    BY <1>2 DEF OneRefresh
  <1>5. PollsInOrder'
    BY <1>1, <1>2 DEF PollsInOrder, Calling, Expired
  <1>6. NotReadyIsExplained'
    BY <1>1, <1>2, CacheConstants DEF NotReadyIsExplained
  <1> QED BY <1>1, <1>3, <1>4, <1>5, <1>6

\* A goroutine's step, seen from the others.
LEMMA SetRef ==
    ASSUME TypeOK, NEW r \in Refreshers, NEW v \in RefresherStates,
           ref' = [ref EXCEPT ![r] = v]
    PROVE  /\ ref' \in [Refreshers -> RefresherStates]
           /\ ref'[r] = v
           /\ \A q \in Refreshers \ {r} : ref'[q] = ref[q]
  BY DEF TypeOK

LEMMA BuildInv ==
    ASSUME CacheInv, NEW r \in Refreshers, Build(r)
    PROVE  CacheInv' /\ polled >= TTL
  <1> USE DEF CacheInv
  <1> DEFINE v == [Gone EXCEPT !.phase = "calls", !.pending = Sources]
  <1>1. v \in RefresherStates /\ v.phase = "calls" /\ v.age = 0
    BY GoneType DEF RefresherStates, Gone
  <1>2. ref' = [ref EXCEPT ![r] = v]
    BY DEF Build
  <1> HIDE DEF v
  <1>3. /\ ref' \in [Refreshers -> RefresherStates]
        /\ ref'[r] = v /\ \A q \in Refreshers \ {r} : ref'[q] = ref[q]
    BY <1>1, <1>2, SetRef
  <1>4. ref[r].phase = "build" /\ polled' = 0
        /\ UNCHANGED <<cacheVars, attempted, refreshing, reachable>>
    BY DEF Build
  <1>5. \A q \in Refreshers \ {r} : ref[q].phase = "idle"
    BY <1>4 DEF OneRefresh, TypeOK
  <1>6. polled >= TTL
    <2>1. ~Calling
      BY <1>4, <1>5 DEF Calling
    <2>2. Expired
      BY <1>4 DEF PollsInOrder
    <2> QED BY <2>1, <2>2, CacheConstants, AgesNat DEF PollsInOrder, Expired, TypeOK, Ages
  <1>7. TypeOK'
    BY <1>3, <1>4, AgesNat DEF TypeOK, Build, cacheVars
  <1>8. OneRefresh'
    BY <1>1, <1>3, <1>4, <1>5 DEF OneRefresh, TypeOK
  <1>9. PollsInOrder'
    <2>1. snap # None => 0 <= snap.age
      BY DEF TypeOK, Snapshots, Ages
    <2>2. Calling'
      BY <1>1, <1>3 DEF Calling
    <2> QED BY <1>1, <1>3, <1>4, <1>5, <2>1, <2>2, CacheConstants
            DEF PollsInOrder, cacheVars, Expired
  <1> QED BY <1>4, <1>6, <1>7, <1>8, <1>9 DEF NotReadyIsExplained, cacheVars

LEMMA BuildFailsInv ==
    ASSUME CacheInv, NEW r \in Refreshers, BuildFails(r) PROVE CacheInv'
  <1> USE DEF CacheInv
  <1>1. /\ ref' \in [Refreshers -> RefresherStates]
        /\ ref'[r] = Gone /\ \A q \in Refreshers \ {r} : ref'[q] = ref[q]
    BY GoneType, SetRef DEF BuildFails
  <1>2. /\ ref[r].phase = "build" /\ refreshing' = FALSE /\ lastErr' = TRUE
        /\ UNCHANGED <<primed, snap, fetched, collector, attempted, polled, reachable>>
    BY DEF BuildFails
  <1>3. \A q \in Refreshers : ref'[q].phase = "idle"
    BY <1>1, <1>2 DEF OneRefresh, TypeOK, Gone
  <1>4. TypeOK'
    BY <1>1, <1>2 DEF TypeOK
  <1>5. OneRefresh' /\ ~Calling' /\ ~Calling
    BY <1>1, <1>2, <1>3 DEF OneRefresh, Calling
  <1>6. PollsInOrder'
    BY <1>2, <1>3, <1>5 DEF PollsInOrder
  <1> QED BY <1>2, <1>4, <1>5, <1>6, <1>3 DEF NotReadyIsExplained

LEMMA CallInv ==
    ASSUME CacheInv, NEW r \in Refreshers, NEW s \in Sources,
           CallAnswers(r, s) \/ CallFails(r, s)
    PROVE  CacheInv'
  <1> USE DEF CacheInv
  <1>1. ref[r] \in RefresherStates
    BY DEF TypeOK
  <1>2. PICK ok \in SUBSET Sources :
          ref' = [ref EXCEPT ![r] = [ref[r] EXCEPT !.pending = ref[r].pending \ {s},
                                                   !.ok = ok]]
    <2>1. CASE CallAnswers(r, s)
      BY <1>1, <2>1 DEF CallAnswers, TypeOK, RefresherStates
    <2>2. CASE CallFails(r, s)
      BY <1>1, <2>2 DEF CallFails, TypeOK, RefresherStates
    <2> QED BY <2>1, <2>2
  <1> DEFINE v == [ref[r] EXCEPT !.pending = ref[r].pending \ {s}, !.ok = ok]
  <1>3. v \in RefresherStates /\ v.phase = ref[r].phase /\ v.age = ref[r].age
    BY <1>1 DEF RefresherStates
  <1> HIDE DEF v
  <1>4. /\ ref' \in [Refreshers -> RefresherStates]
        /\ ref'[r] = v /\ \A q \in Refreshers \ {r} : ref'[q] = ref[q]
    BY <1>2, <1>3, SetRef DEF v
  <1>5. \A q \in Refreshers : ref'[q].phase = ref[q].phase /\ ref'[q].age = ref[q].age
    BY <1>3, <1>4
  <1>6. UNCHANGED <<cacheVars, collector, attempted, refreshing, polled, reachable>>
    BY DEF CallAnswers, CallFails
  <1>7. TypeOK' /\ OneRefresh'
    BY <1>4, <1>5, <1>6 DEF TypeOK, OneRefresh, cacheVars
  <1>8. PollsInOrder'
    BY <1>5, <1>6 DEF PollsInOrder, Calling, Expired, cacheVars
  <1> QED BY <1>6, <1>7, <1>8 DEF NotReadyIsExplained, cacheVars

LEMMA ApplyInv ==
    ASSUME CacheInv, NEW r \in Refreshers, Apply(r)
    PROVE  CacheInv' /\ (snap # None => ref[r].age <= snap.age)
  <1> USE DEF CacheInv
  <1>1. /\ ref' \in [Refreshers -> RefresherStates]
        /\ ref'[r] = Gone /\ \A q \in Refreshers \ {r} : ref'[q] = ref[q]
    BY GoneType, SetRef DEF Apply
  <1>2. /\ ref[r].phase = "calls" /\ refreshing' = FALSE /\ lastErr' = FALSE
        /\ fetched' = 0 /\ snap' = [ok |-> ref[r].ok, age |-> ref[r].age]
        /\ UNCHANGED <<primed, collector, attempted, polled, reachable>>
    BY DEF Apply
  <1>3. \A q \in Refreshers : ref'[q].phase = "idle"
    BY <1>1, <1>2 DEF OneRefresh, TypeOK, Gone
  <1>4. ref[r].age = polled /\ polled <= CallTimeout /\ polled \in Ages
    BY <1>2 DEF PollsInOrder, TypeOK
  <1>5. snap' \in Snapshots /\ snap'.age = polled /\ snap' # None
    BY <1>2, <1>4, NoneIsNoSnapshot DEF TypeOK, RefresherStates, Snapshots
  <1>6. TypeOK'
    BY <1>1, <1>2, <1>5, AgesNat DEF TypeOK
  <1>7. OneRefresh' /\ ~Calling'
    BY <1>1, <1>2, <1>3 DEF OneRefresh, Calling
  <1>8. PollsInOrder'
    BY <1>2, <1>3, <1>4, <1>5, <1>7, AgesNat, CacheConstants DEF PollsInOrder
  <1>9. primed
    BY <1>2 DEF OneRefresh
  <1> QED BY <1>2, <1>4, <1>5, <1>6, <1>7, <1>8, <1>9, <1>3
          DEF NotReadyIsExplained, PollsInOrder

LEMMA TickInv == ASSUME CacheInv, Tick PROVE CacheInv'
  <1> USE DEF CacheInv
  <1>1. \A r \in Refreshers : ref[r] \in RefresherStates
    BY DEF TypeOK
  <1>2. \A r \in Refreshers :
          LET v == [ref[r] EXCEPT !.age = Older(ref[r].age)] IN
          v \in RefresherStates /\ v.phase = ref[r].phase
            /\ v.age = Older(ref[r].age)
    BY <1>1, AgesNat DEF RefresherStates
  <1>3. /\ ref' \in [Refreshers -> RefresherStates]
        /\ \A r \in Refreshers :
             /\ ref'[r].phase = ref[r].phase
             /\ ref[r].phase = "calls" => ref'[r].age = Older(ref[r].age)
    BY <1>1, <1>2 DEF Tick
  <1>4. /\ fetched' = Older(fetched) /\ attempted' = Older(attempted)
        /\ polled' = Older(polled)
        /\ UNCHANGED <<primed, lastErr, collector, refreshing, reachable>>
    BY DEF Tick
  <1>5. /\ snap = None => snap' = None
        /\ snap # None => /\ snap' \in Snapshots /\ snap' # None
                          /\ snap'.age = Older(snap.age) /\ snap.age \in Ages
    BY AgesNat, NoneIsNoSnapshot DEF Tick, TypeOK, Snapshots
  <1>6. TypeOK'
    BY <1>3, <1>4, <1>5, AgesNat DEF TypeOK
  <1>7. OneRefresh' /\ (Calling' <=> Calling)
    BY <1>3, <1>4 DEF OneRefresh, Calling
  <1>8. PollsInOrder'
    <2>1. \A r \in Refreshers : ref'[r].phase = "build" => Expired'
      <3>1. Expired => Expired'
        BY <1>4, <1>5, AgesNat, CacheConstants DEF Expired, TypeOK, Ages
      <3> QED BY <1>3, <3>1 DEF PollsInOrder
    <2>2. ASSUME NEW r \in Refreshers, ref'[r].phase = "calls"
          PROVE  /\ ref'[r].age = polled' /\ polled' <= CallTimeout
                 /\ snap' # None => polled' <= snap'.age
      <3>1. ref[r].phase = "calls" /\ ref[r].age < CallTimeout
        BY <1>3, <2>2 DEF Tick
      <3>2. ref[r].age = polled /\ (snap # None => polled <= snap.age)
        BY <3>1 DEF PollsInOrder
      <3> QED BY <1>3, <1>4, <1>5, <3>1, <3>2, AgesNat, CacheConstants
              DEF TypeOK, Ages
    <2>3. ~Calling' => IF snap' = None THEN polled' = Cap ELSE fetched' <= polled'
      BY <1>4, <1>5, <1>7, AgesNat DEF PollsInOrder, TypeOK
    <2>4. snap' # None => snap'.age <= fetched' + CallTimeout
      <3> SUFFICES ASSUME snap # None PROVE Older(snap.age) <= Older(fetched) + CallTimeout
        BY <1>4, <1>5
      <3>1. snap.age <= fetched + CallTimeout
        BY DEF PollsInOrder
      <3> QED BY <1>5, <3>1, CacheConstants DEF Older, Ages, TypeOK
    <2> QED BY <2>1, <2>2, <2>3, <2>4 DEF PollsInOrder
  <1>9. ~primed' => attempted' = Cap /\ ~refreshing' /\ snap' = None
    BY <1>4, <1>5, AgesNat
  <1> QED BY <1>4, <1>5, <1>6, <1>7, <1>8, <1>9 DEF NotReadyIsExplained

LEMMA NextCache ==
    ASSUME CacheInv, [Next]_vars
    PROVE  /\ CacheInv'
           /\ \A r \in Refreshers : Build(r) => polled >= TTL
           /\ \A r \in Refreshers : Apply(r) /\ snap # None => ref[r].age <= snap.age
  <1>1. ASSUME Prime \/ Get PROVE CacheInv'
    BY <1>1, RequestInv
  <1>2. ASSUME NEW r \in Refreshers, RefreshStep(r) PROVE CacheInv'
    BY <1>2, BuildInv, BuildFailsInv, CallInv, ApplyInv DEF RefreshStep
  <1>3. ASSUME Tick PROVE CacheInv'
    BY <1>3, TickInv
  <1>4. ASSUME \/ UNCHANGED vars
               \/ \E s \in Sources : Toggle(s)
        PROVE  CacheInv'
    <2>1. /\ UNCHANGED <<cacheVars, collector, attempted, refreshing, ref, polled>>
          /\ reachable' \subseteq Sources
      BY <1>4 DEF Toggle, vars, CacheInv, TypeOK
    <2>2. TypeOK' /\ OneRefresh'
      BY <2>1 DEF CacheInv, TypeOK, OneRefresh, cacheVars
    <2>3. PollsInOrder'
      BY <2>1 DEF CacheInv, PollsInOrder, Calling, Expired, cacheVars
    <2> QED BY <2>1, <2>2, <2>3 DEF CacheInv, NotReadyIsExplained, cacheVars
  <1>5. CacheInv'
    BY <1>1, <1>2, <1>3, <1>4 DEF Next
  <1> QED BY <1>5, BuildInv, ApplyInv

-----------------------------------------------------------------------------
\* Every reachable state is well typed, one refresh runs at most, and fan-outs,
\* snapshots and attempts follow each other in order.
THEOREM CacheInvariant == Spec => []CacheInv
  <1>1. CacheInv /\ [Next]_vars => CacheInv'
    BY NextCache
  <1> QED BY InitCache, <1>1, PTL DEF Spec

\* The cache (cache.go) and its refresh goroutines stay well typed, for any
\* sources, thresholds and number of readers.
THEOREM CacheTypeCorrect == Spec => []TypeOK
  <1>1. CacheInv => TypeOK
    BY DEF CacheInv
  <1> QED BY <1>1, CacheInvariant, PTL

\* An unflagged snapshot was read within staleAfter and one call's timeout,
\* for any thresholds.
THEOREM UnflaggedSnapshotIsRecent == Spec => []UnflaggedIsRecent
  <1>1. CacheInv => UnflaggedIsRecent
    <2> SUFFICES ASSUME CacheInv, snap # None, ~Stale
                 PROVE  snap.age <= StaleAfter + CallTimeout
      BY DEF UnflaggedIsRecent
    <2>1. snap.age <= fetched + CallTimeout /\ snap.age \in Int /\ fetched \in Int
      BY DEF CacheInv, PollsInOrder, TypeOK, Snapshots, Ages
    <2> QED BY <2>1, CacheConstants DEF Stale
  <1> QED BY <1>1, CacheInvariant, PTL

\* Get's ErrNotReady carries a reason unless a refresh is under way.
THEOREM NotReadyHasAReason == Spec => []NotReadyIsExplained
  <1>1. CacheInv => NotReadyIsExplained
    BY DEF CacheInv
  <1> QED BY <1>1, CacheInvariant, PTL

\* The starts of two fan-outs lie a TTL apart, although an attempt is counted
\* from before its collector is built and the next from its snapshot's age.
THEOREM ProvidersPolledOncePerTTL == Spec => PolledOncePerTTL
  <1>1. CacheInv /\ [Next]_vars => [\A r \in Refreshers : Build(r) => polled >= TTL]_vars
    BY NextCache
  <1> QED BY <1>1, CacheInvariant, PTL DEF Spec, PolledOncePerTTL

\* No snapshot is replaced by one whose collection began earlier.
THEOREM SnapshotsMoveForward == Spec => SnapshotNeverGoesBack
  <1>1. CacheInv /\ [Next]_vars =>
          [\A r \in Refreshers : Apply(r) /\ snap # None => ref[r].age <= snap.age]_vars
    BY NextCache
  <1> QED BY <1>1, CacheInvariant, PTL DEF Spec, SnapshotNeverGoesBack
=============================================================================
