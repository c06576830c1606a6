------------------------- MODULE BuildOutcomeProofs -------------------------
(***************************************************************************)
(* What becomes of a build: every row lives the life that BuildLifecycle   *)
(* describes, only what was built is deployed, and no build is left behind,*)
(* so that an app that was built can be built again.                       *)
(***************************************************************************)
EXTENDS BuildProofs, WellFoundedInduction

LEMMA InsertEffect ==
    ASSUME BaseInv, NEW h \in Handlers, Insert(h)
    PROVE  /\ hs[h].job \in JobIds /\ jobs[hs[h].job].app = None
           /\ hs[h].app \in Apps
           /\ rows' = rows \cup {hs[h].job}
           /\ \A k \in JobIds \ {hs[h].job} : jobs'[k] = jobs[k]
           /\ jobs'[hs[h].job].app = hs[h].app
  <1> DEFINE j == hs[h].job
  <1>1. j \in JobIds /\ ~Stored(j) /\ HandlerOK(h)
    BY DEF Insert, BaseInv, FreshOK, HandlersOK
  <1>2. jobs[j].app = None /\ hs[h].app \in Apps
    BY <1>1 DEF BaseInv, RowsOK, HandlerOK, Insert, CreatingPCs
  <1> QED BY <1>1, <1>2, InsertRow

LEMMA EverBuiltStays ==
    ASSUME BaseInv, [Next]_vars, NEW a \in Apps, EverBuilt(a) PROVE EverBuilt(a)'
  <1>1. CASE \A h \in Handlers : ~Insert(h)
    BY <1>1, RowsStay DEF RowStays, EverBuilt
  <1>2. ASSUME NEW h \in Handlers, Insert(h) PROVE EverBuilt(a)'
    <2>1. PICK j \in JobIds : jobs[j].app = a
      BY DEF EverBuilt
    <2>2. a # None
      BY ConstantsOK
    <2> QED BY <1>2, <2>1, <2>2, InsertEffect DEF EverBuilt
  <1> QED BY <1>1, <1>2

-----------------------------------------------------------------------------
(* An app that was built keeps a way to be built again                     *)

Present(a) == main.tree[a] # None \/ wd.head[a] # None \/ wd.index[a] # None

\* The clone and the remote get an app directory from each other or from
\* WriteAndAdd.
LEMMA GitPresent ==
    ASSUME GitTypeOK, NEW a \in Apps, Present(a)'
    PROVE  /\ (\/ Clone \/ Commit \/ Push \/ PushRejected \/ ForeignPush
               \/ UNCHANGED gitVars) => Present(a)
           /\ \A b, t : WriteAndAdd(b, t) => Present(a) \/ a = b
  <1> USE DEF GitTypeOK, Remotes, WorkDirs, Trees, Present
  <1>1. ASSUME Clone PROVE Present(a)
    BY <1>1 DEF Clone
  <1>2. ASSUME Commit PROVE Present(a)
    <2>1. main' = main /\ wd'.head = wd.index /\ wd'.index = wd.index
      BY <1>2 DEF Commit
    <2> QED BY <2>1
  <1>3. ASSUME Push PROVE Present(a)
    BY <1>3 DEF Push
  <1>4. ASSUME PushRejected \/ ForeignPush \/ UNCHANGED gitVars PROVE Present(a)
    BY <1>4 DEF PushRejected, ForeignPush, gitVars
  <1>5. ASSUME NEW b, NEW t, WriteAndAdd(b, t), a # b PROVE Present(a)
    BY <1>5 DEF WriteAndAdd
  <1> QED BY <1>1, <1>2, <1>3, <1>4, <1>5

LEMMA NextTrees == ASSUME BaseInv, TreesOK, [Next]_vars PROVE TreesOK'
  <1> SUFFICES ASSUME NEW a \in Apps, Present(a)' PROVE EverBuilt(a)'
    BY DEF TreesOK, Present
  <1> USE DEF BaseInv
  <1>0. GitTypeOK /\ (Present(a) => EverBuilt(a))
    BY DEF TypeOK, TreesOK, Present
  <1>1. ASSUME Clone \/ Commit \/ Push \/ PushRejected \/ ForeignPush
                 \/ UNCHANGED gitVars
        PROVE  EverBuilt(a)'
    <2>1. Present(a)
      BY <1>0, <1>1, GitPresent
    <2> QED BY <1>0, <2>1, EverBuiltStays
  <1>2. ASSUME NEW h \in Handlers, CommitAdd(h) PROVE EverBuilt(a)'
    <2>1. /\ hs[h].job \in JobIds
          /\ hs[h].app = jobs[hs[h].job].app
      BY <1>2 DEF CommitAdd, HandlersOK, HandlerOK, CommitPCs
    <2>2. Present(a) \/ a = hs[h].app
      BY <1>0, <1>2, GitPresent DEF CommitAdd
    <2>3. EverBuilt(a)
      BY <1>0, <2>1, <2>2 DEF EverBuilt
    <2> QED BY <2>3, EverBuiltStays
  <1>3. ASSUME NEW h \in Handlers, HandlerStep(h) PROVE EverBuilt(a)'
    <2>1. CASE PathClone(h) \/ CommitClone(h) \/ CommitCommit(h) \/ CommitPush(h)
      BY <1>1, <2>1 DEF PathClone, CommitClone, CommitCommit, CommitPush
    <2>2. CASE PathStat(h) \/ CreateLookup(h) \/ RebuildLookup(h) \/ Delete(h)
                 \/ Stamp(h) \/ Insert(h) \/ Dispatch(h) \/ DispatchFailed(h)
                 \/ CommitError(h) \/ RecordSucceeded(h) \/ RecordGitOpsFailed(h)
      BY <1>1, <2>2 DEF PathStat, CreateLookup, RebuildLookup, Delete, Stamp,
                        Insert, Dispatch, DispatchFailed, CommitError,
                        RecordSucceeded, RecordGitOpsFailed
    <2> QED BY <1>2, <1>3, <2>1, <2>2 DEF HandlerStep
  <1>4. ASSUME NEW h \in Handlers, Request(h) \/ Abandon(h) PROVE EverBuilt(a)'
    BY <1>1, <1>4 DEF Request, Abandon, CreateBuild, RebuildApp, GithubWebhook,
                      RunnerSucceeded
  <1>5. ASSUME NEW j \in JobIds, RunStep(j) \/ RunLost(j) PROVE EverBuilt(a)'
    BY <1>1, <1>5, RunStepEffect
  <1>6. CASE RunnerRunning \/ RunnerFailed \/ PollRunner \/ LoseMessage
               \/ OtherProcessPush \/ (\E s \in Srcs : SourcePush(s))
               \/ UNCHANGED vars
    BY <1>1, <1>6 DEF RunnerRunning, RunnerFailed, PollRunner, LoseMessage,
                      OtherProcessPush, SourcePush, vars
  <1> QED BY <1>3, <1>4, <1>5, <1>6 DEF Next

\* A request about to store a row goes on to store it, if nothing cuts it off.
LEMMA NextForgotten ==
    ASSUME BaseInv, NeverForgotten, [Next]_vars PROVE NeverForgotten'
  <1> SUFFICES ASSUME ~Faults, NEW a \in Apps, EverBuilt(a)'
               PROVE  AppRows(a)' # {} \/ AboutToInsert(a)'
    BY DEF NeverForgotten
  <1> USE DEF BaseInv
  <1>0. rows \subseteq JobIds /\ \A h \in Handlers : hs[h] \in HandlerStates /\ HandlerOK(h)
    BY DEF TypeOK, HandlersOK
  <1>1. ASSUME NEW h \in Handlers, Insert(h)
        PROVE  AppRows(a)' # {} \/ AboutToInsert(a)'
    <2> DEFINE j == hs[h].job
    <2>1. /\ j \in JobIds /\ jobs[j].app = None /\ rows' = rows \cup {j}
          /\ \A k \in JobIds \ {j} : jobs'[k] = jobs[k]
          /\ jobs'[j].app = hs[h].app
      BY <1>1, InsertEffect
    <2>2. CASE hs[h].app = a
      BY <2>1, <2>2 DEF AppRows
    <2>3. CASE hs[h].app # a
      <3>1. EverBuilt(a)
        BY <2>1, <2>3 DEF EverBuilt
      <3>2. CASE AppRows(a) # {}
        <4>1. PICK k \in rows : jobs[k].app = a
          BY <3>2 DEF AppRows
        <4>2. k # j
          BY <2>1, <4>1, ConstantsOK
        <4> QED BY <1>0, <2>1, <4>1, <4>2 DEF AppRows
      <3>3. CASE AboutToInsert(a)
        <4>1. PICK g \in Handlers : hs[g].app = a /\ hs[g].pc \in {"stamp", "insert"}
          BY <3>3 DEF AboutToInsert
        <4>2. hs'[g] = hs[g]
          BY <1>1, <2>3, <4>1, OthersSame DEF HandlerStep
        <4> QED BY <4>1, <4>2 DEF AboutToInsert
      <3> QED BY <3>1, <3>2, <3>3 DEF NeverForgotten
    <2> QED BY <2>2, <2>3
  <1>2. ASSUME \A h \in Handlers : ~Insert(h)
        PROVE  EverBuilt(a) /\ \A k \in JobIds : jobs'[k].app = jobs[k].app
    BY <1>2, RowsStay DEF RowStays, EverBuilt
  <1>3. ASSUME \A h \in Handlers : ~Insert(h), rows' = rows,
               \A g \in Handlers : hs[g].pc \in {"stamp", "insert"} =>
                 hs'[g].pc \in {"stamp", "insert"} /\ hs'[g].app = hs[g].app
        PROVE  AppRows(a)' # {} \/ AboutToInsert(a)'
    BY <1>0, <1>2, <1>3 DEF NeverForgotten, AppRows, AboutToInsert
  <1>4. ASSUME NEW h \in Handlers, Delete(h)
        PROVE  AppRows(a)' # {} \/ AboutToInsert(a)'
    <2>1. /\ \A g \in Handlers \ {h} : hs'[g] = hs[g]
          /\ hs'[h].pc = "stamp" /\ hs'[h].app = hs[h].app
      BY <1>0, <1>4 DEF Delete, Goto, TypeOK, HandlerStates
    <2>2. jobs' = jobs /\ rows' = rows \ {hs[h].job}
      BY <1>4 DEF Delete
    <2>3. jobs[hs[h].job].app = hs[h].app
      BY <1>0, <1>4 DEF HandlerOK, Delete
    <2>4. EverBuilt(a)
      BY <2>2 DEF EverBuilt
    <2>5. CASE hs[h].app = a
      BY <2>1, <2>5 DEF AboutToInsert
    <2>6. CASE hs[h].app # a
      <3>1. AboutToInsert(a) => AboutToInsert(a)'
        BY <2>1, <2>6 DEF AboutToInsert
      <3>2. AppRows(a) # {} => AppRows(a)' # {}
        BY <2>2, <2>3, <2>6 DEF AppRows
      <3> QED BY <2>4, <3>1, <3>2 DEF NeverForgotten
    <2> QED BY <2>5, <2>6
  <1>5. ASSUME NEW h \in Handlers, Stamp(h)
        PROVE  AppRows(a)' # {} \/ AboutToInsert(a)'
    <2>1. /\ \A g \in Handlers \ {h} : hs'[g] = hs[g]
          /\ hs'[h].pc = "insert" /\ hs'[h].app = hs[h].app
      BY <1>0, <1>5 DEF Stamp, TypeOK, HandlerStates
    <2>2. rows' = rows /\ nextId' # nextId
      BY <1>5 DEF Stamp, TypeOK
    <2>3. \A g \in Handlers : ~Insert(g)
      BY <2>2 DEF Insert
    <2> QED BY <1>3, <2>1, <2>2, <2>3
  <1>6. ASSUME NEW h \in Handlers, Request(h) \/ HandlerStep(h) \/ Abandon(h),
               \A g \in Handlers : ~Insert(g), ~Delete(h), ~Stamp(h)
        PROVE  AppRows(a)' # {} \/ AboutToInsert(a)'
    <2>1. \A g \in Handlers \ {h} : hs'[g] = hs[g]
      BY <1>6, OthersSame
    <2>2. hs[h].pc \notin {"stamp", "insert"} /\ rows' = rows
      BY <1>6 DEF Request, CreateBuild, RebuildApp, GithubWebhook, RunnerSucceeded,
           HandlerStep, PathClone, PathStat, CreateLookup, RebuildLookup, Dispatch,
           DispatchFailed, CommitClone, CommitAdd, CommitCommit, CommitPush,
           CommitError, RecordSucceeded, RecordGitOpsFailed, Abandon, storeVars
    <2> QED BY <1>3, <1>6, <2>1, <2>2
  <1>7. CASE \/ \E j \in JobIds : RunStep(j) \/ RunLost(j)
             \/ RunnerRunning \/ RunnerFailed \/ PollRunner
             \/ \E s \in Srcs : SourcePush(s)
             \/ OtherProcessPush \/ LoseMessage \/ UNCHANGED vars
    <2>1. UNCHANGED <<hs, rows>>
      BY <1>7, RunStepEffect DEF RunnerRunning, RunnerFailed, PollRunner,
         SourcePush, OtherProcessPush, LoseMessage, vars, storeVars
    <2> QED BY <1>1, <1>3, <2>1
  <1> QED BY <1>1, <1>4, <1>5, <1>6, <1>7 DEF Next

(***************************************************************************)
(* The life of a build's row.                                              *)
(***************************************************************************)

Life(k) == RowLife(k) /\ StartLife(k) /\ EndLife(k)

\* The row of k is there or not, and says what it said.
RowSame(k) ==
    /\ jobs'[k].status = jobs[k].status /\ jobs'[k].rowid = jobs[k].rowid
    /\ k \in rows' <=> k \in rows

\* No request starts dispatching, committing or deleting k.
NoNewWork(k) ==
    \A g \in Handlers :
      /\ Dispatches(g, k)' => Dispatches(g, k)
      /\ Commits(g, k)' => Commits(g, k)
      /\ Deletes(g, k)' => Deletes(g, k) \/ jobs[k].status = "failed"

\* No new final report of k.
NoNewReport(k) ==
    \A r \in reports' : r.job = k => r \in reports \/ r.status = "running"

LEMMA SaidBefore ==
    ASSUME NEW k, NoNewReport(k), NEW s \in {"succeeded", "failed"}, Said(k, s)'
    PROVE  Said(k, s)
  BY DEF NoNewReport, Said

LEMMA OneReportBefore ==
    ASSUME NEW k \in JobIds, NoNewReport(k), EndLife(k)
    PROVE  \A q, r \in reports' :
             /\ q.job = k /\ q.status = "succeeded" /\ r.job = k /\ r.status = "succeeded"
             => q = r
  BY DEF NoNewReport, EndLife

LEMMA LifeFrame ==
    ASSUME dispatching' = dispatching, NEW k \in JobIds, Life(k),
           jobs'[k].status = jobs[k].status, jobs'[k].rowid = jobs[k].rowid,
           k \in rows => k \in rows' \/ jobs[k].status = "failed",
           runs'[k].st = runs[k].st, NoNewReport(k), NoNewWork(k)
    PROVE  Life(k)'
  <1>1. RowLife(k)'
    BY DEF Life, RowLife, NoNewWork, Stored
  <1>2. StartLife(k)'
    BY SaidBefore DEF Life, StartLife, NoNewWork
  <1>3. EndLife(k)'
    <2>1. /\ Said(k, "succeeded")' => Said(k, "succeeded")
          /\ Said(k, "failed")' => Said(k, "failed")
      BY SaidBefore
    <2>2. \A g \in Handlers : Commits(g, k)' => Commits(g, k)
      BY DEF NoNewWork
    <2>3. /\ runs'[k].st # "done" => ~Said(k, "succeeded")' /\ \A h \in Handlers : ~Commits(h, k)'
          /\ runs'[k].st = "failing" \/ Said(k, "failed")' =>
               /\ jobs'[k].status # "succeeded"
               /\ ~Said(k, "succeeded")' /\ \A h \in Handlers : ~Commits(h, k)'
          /\ \A h \in Handlers : Commits(h, k)' =>
               /\ jobs'[k].status \in Active /\ ~Said(k, "succeeded")'
               /\ \A g \in Handlers : Commits(g, k)' => g = h
          /\ Said(k, "succeeded")' => jobs'[k].status \in Active
      BY <2>1, <2>2 DEF Life, EndLife
    <2> QED BY <2>3, OneReportBefore DEF Life, EndLife
  <1> QED BY <1>1, <1>2, <1>3 DEF Life

LEMMA SettleFrame ==
    ASSUME dispatching' = dispatching, NEW k \in JobIds, Life(k), Stored(k),
           jobs'[k].status \in {"succeeded", "failed"}, jobs'[k].rowid = jobs[k].rowid,
           k \in rows' <=> k \in rows,
           runs'[k].st = runs[k].st, runs[k].st \notin {"pending", "cloned", "building"},
           NoNewReport(k), NoNewWork(k), ~Said(k, "succeeded"),
           \A h \in Handlers : ~Dispatches(h, k)' /\ ~Commits(h, k)',
           jobs'[k].status = "succeeded" =>
             /\ jobs[k].status \in Active
             /\ runs[k].st # "failing" /\ ~Said(k, "failed")
    PROVE  Life(k)'
  <1>1. RowLife(k)'
    BY DEF Life, RowLife, NoNewWork, Stored, Active
  <1>2. /\ Said(k, "succeeded")' => Said(k, "succeeded")
        /\ Said(k, "failed")' => Said(k, "failed")
    BY SaidBefore
  <1>3. StartLife(k)'
    BY <1>2 DEF Life, StartLife
  <1>4. EndLife(k)'
    BY <1>2, OneReportBefore DEF Life, EndLife
  <1> QED BY <1>1, <1>3, <1>4 DEF Life

LEMMA LeaveWork ==
    ASSUME NEW h \in Handlers, \A g \in Handlers \ {h} : hs'[g] = hs[g],
           hs'[h].pc \notin DispatchPCs \cup CommitPCs \cup {"delete"}
    PROVE  \A k \in JobIds : NoNewWork(k) /\ ~Dispatches(h, k)' /\ ~Commits(h, k)'
  BY DEF NoNewWork, Dispatches, Commits, Deletes

LEMMA FinishWork ==
    ASSUME BaseInv, NEW h \in Handlers, Finish(h)
    PROVE  \A k \in JobIds : NoNewWork(k) /\ ~Dispatches(h, k)' /\ ~Commits(h, k)'
  <1>1. /\ \A g \in Handlers \ {h} : hs'[g] = hs[g]
        /\ hs'[h] = Idle \/ hs'[h] = [hs[h] EXCEPT !.pc = "lookup"]
    BY FinishEffect DEF BaseInv
  <1>2. hs[h] \in HandlerStates
    BY DEF BaseInv, TypeOK
  <1>3. hs'[h].pc \in {"idle", "lookup"}
    BY <1>1, <1>2 DEF Idle, HandlerStates
  <1> QED BY <1>1, <1>3, LeaveWork DEF DispatchPCs, CommitPCs

LEMMA GotoWork ==
    ASSUME BaseInv, NEW h \in Handlers, NEW p \in PCs, Goto(h, p), p # "delete",
           p \in DispatchPCs => hs[h].pc \in DispatchPCs,
           p \in CommitPCs => hs[h].pc \in CommitPCs
    PROVE  \A k \in JobIds : NoNewWork(k)
  <1>1. /\ \A g \in Handlers \ {h} : hs'[g] = hs[g]
        /\ hs'[h] = [hs[h] EXCEPT !.pc = p]
    BY GotoEffect DEF BaseInv
  <1>2. hs[h] \in HandlerStates
    BY DEF BaseInv, TypeOK
  <1>3. hs'[h].pc = p /\ hs'[h].job = hs[h].job
    BY <1>1, <1>2 DEF HandlerStates
  <1>4. ASSUME NEW k \in JobIds, NEW g \in Handlers
        PROVE  /\ Dispatches(g, k)' => Dispatches(g, k)
               /\ Commits(g, k)' => Commits(g, k)
               /\ Deletes(g, k)' => Deletes(g, k)
    <2>1. CASE g # h
      BY <1>1, <2>1 DEF Dispatches, Commits, Deletes
    <2>2. CASE g = h
      BY <1>3, <2>2 DEF Dispatches, Commits, Deletes
    <2> QED BY <2>1, <2>2
  <1> QED BY <1>4 DEF NoNewWork

-----------------------------------------------------------------------------
(* Each step of the coordinator keeps LifeInv and is a step of Lifecycle   *)

LifeStep == LifeInv' /\ [Lifecycle!Next]_JobState

LEMMA LifeOf == LifeInv <=> \A k \in JobIds : Life(k)
  BY DEF LifeInv, Life

LEMMA Stutter == ASSUME \A k \in JobIds : RowSame(k) PROVE JobState' = JobState
  BY DEF JobState, RowSame

LEMMA OneMove ==
    ASSUME NEW j \in JobIds, \A k \in JobIds \ {j} : RowSame(k), NEW from, NEW to,
           JobState[j] \in from, JobState'[j] \in to
    PROVE  Lifecycle!Move(j, from, to)
  <1>1. \A k \in JobIds \ {j} : JobState'[k] = JobState[k]
    BY DEF JobState, RowSame
  <1>2. JobState' = [JobState EXCEPT ![j] = JobState'[j]]
    BY <1>1 DEF JobState
  <1> QED BY <1>2 DEF Lifecycle!Move

LEMMA QuietLife ==
    ASSUME dispatching' = dispatching, LifeInv, \A k \in JobIds : RowSame(k) /\ runs'[k].st = runs[k].st
                                        /\ NoNewReport(k) /\ NoNewWork(k)
    PROVE  LifeStep
  <1>1. ASSUME NEW k \in JobIds PROVE Life(k)'
    <2>1. Life(k)
      BY LifeOf
    <2> QED BY <2>1, LifeFrame DEF RowSame
  <1>2. LifeInv'
    BY <1>1 DEF LifeInv, Life
  <1> QED BY <1>2, Stutter DEF LifeStep

\* A build is settled: nobody works on it any more, and no run of it goes on.
LEMMA SettleLife ==
    ASSUME dispatching' = dispatching, LifeInv, NEW j \in JobIds, Stored(j),
           \A k \in JobIds \ {j} : RowSame(k),
           \A k \in JobIds : runs'[k].st = runs[k].st /\ NoNewReport(k) /\ NoNewWork(k),
           jobs'[j].status \in {"succeeded", "failed"}, jobs'[j].rowid = jobs[j].rowid,
           j \in rows' <=> j \in rows,
           runs[j].st \notin {"pending", "cloned", "building"}, ~Said(j, "succeeded"),
           \A h \in Handlers : ~Dispatches(h, j)' /\ ~Commits(h, j)',
           jobs[j].status # "succeeded",
           jobs'[j].status = "succeeded" =>
             /\ jobs[j].status \in Active
             /\ runs[j].st # "failing" /\ ~Said(j, "failed"),
           jobs[j].status \in Statuses
    PROVE  LifeStep
  <1>1. ASSUME NEW k \in JobIds \ {j} PROVE Life(k)'
    <2>1. Life(k)
      BY LifeOf
    <2> QED BY <2>1, LifeFrame DEF RowSame
  <1>2. Life(j)
    BY LifeOf
  <1>3. Life(j)'
    BY <1>2, SettleFrame
  <1>4. LifeInv'
    BY <1>1, <1>3 DEF LifeInv, Life
  <1>5. CASE j \in rows /\ jobs[j].status \in Active
    <2>1. JobState[j] \in Active /\ JobState'[j] \in {"succeeded", "failed"}
      BY <1>5 DEF JobState
    <2>2. Lifecycle!Settle(j)
      BY <2>1, OneMove DEF Lifecycle!Settle, Lifecycle!Active, Lifecycle!Settled, Active
    <2> QED BY <1>4, <2>2 DEF LifeStep, Lifecycle!Next
  <1>6. CASE j \notin rows \/ jobs[j].status \notin Active
    <2>1. jobs[j].status = "failed"
      BY <1>2, <1>6 DEF Life, RowLife, Statuses
    <2>2. jobs'[j].status = "failed"
      BY <2>1 DEF Active
    <2>3. \A k \in JobIds : RowSame(k)
      BY <2>1, <2>2 DEF RowSame
    <2> QED BY <1>4, <2>3, Stutter DEF LifeStep
  <1> QED BY <1>5, <1>6

LEMMA SetFailedLife ==
    ASSUME BaseInv, NEW j \in JobIds, SetFailed(j), Stored(j), RowLife(j)
    PROVE  /\ jobs'[j].status = "failed" /\ \A k \in JobIds : jobs'[k].rowid = jobs[k].rowid
           /\ \A k \in JobIds \ {j} : jobs'[k] = jobs[k]
  <1>1. jobs[j] \in Rows
    BY DEF BaseInv, TypeOK
  <1>2. LET f == [jobs[j] EXCEPT !.status = "failed"] IN
        f.status = "failed" /\ f.rowid = jobs[j].rowid
    BY <1>1 DEF Rows
  <1>3. j \notin rows => jobs[j].status = "failed"
    BY DEF RowLife
  <1> QED BY <1>2, <1>3, SetFailedEffect DEF BaseInv

LEMMA StoredStatus ==
    ASSUME BaseInv, NEW j \in JobIds, Stored(j), RowLife(j) PROVE jobs[j].status \in Statuses
  <1>1. jobs[j] \in Rows
    BY DEF BaseInv, TypeOK
  <1> QED BY <1>1 DEF Rows, RowLife

LEMMA DispatchFailedLife ==
    ASSUME dispatching' = dispatching, BaseInv, LifeInv, NEW h \in Handlers, DispatchFailed(h) PROVE LifeStep
  <1>1. PICK j \in JobIds : j = hs[h].job /\ Stored(j) /\ hs[h].pc = "dispatch_failed"
    BY DEF DispatchFailed, BaseInv, HandlersOK, HandlerOK, DispatchPCs
  <1>2. Dispatches(h, j)
    BY <1>1 DEF Dispatches, DispatchPCs
  <1>3. Life(j)
    BY <1>1, LifeOf
  <1>4. SetFailed(j) /\ Finish(h) /\ UNCHANGED <<rows, runs, reports>>
    BY <1>1 DEF DispatchFailed, runVars, netVars
  <1>5. /\ jobs'[j].status = "failed" /\ \A k \in JobIds : jobs'[k].rowid = jobs[k].rowid
        /\ \A k \in JobIds \ {j} : jobs'[k] = jobs[k]
    BY <1>1, <1>3, <1>4, SetFailedLife DEF Life
  <1>6. \A k \in JobIds : NoNewWork(k) /\ ~Dispatches(h, k)' /\ ~Commits(h, k)'
    BY <1>4, FinishWork
  <1>7. /\ jobs[j].status = "queued" /\ runs[j].st = "none" /\ ~Said(j, "succeeded")
        /\ \A g \in Handlers : ~Commits(g, j) /\ (Dispatches(g, j) => g = h)
    BY <1>2, <1>3 DEF Life, StartLife, EndLife
  <1>8. \A g \in Handlers : ~Dispatches(g, j)' /\ ~Commits(g, j)'
    BY <1>1, <1>6, <1>7 DEF NoNewWork
  <1>9. /\ \A k \in JobIds \ {j} : RowSame(k)
        /\ \A k \in JobIds : runs'[k].st = runs[k].st /\ NoNewReport(k)
    BY <1>4, <1>5 DEF RowSame, NoNewReport
  <1> QED BY <1>1, <1>4, <1>5, <1>6, <1>7, <1>8, <1>9, SettleLife DEF Statuses, Active

LEMMA CommitEndsLife ==
    ASSUME dispatching' = dispatching, BaseInv, LifeInv, NEW h \in Handlers, RecordGitOpsFailed(h) \/ RecordSucceeded(h)
    PROVE  LifeStep
  <1>1. PICK j \in JobIds : j = hs[h].job /\ Stored(j) /\ hs[h].pc \in CommitPCs
    BY DEF RecordGitOpsFailed, RecordSucceeded, BaseInv, HandlersOK, HandlerOK, CommitPCs
  <1>2. Commits(h, j)
    BY <1>1 DEF Commits
  <1>3. Life(j)
    BY <1>1, LifeOf
  <1>4. Finish(h) /\ UNCHANGED <<rows, runs, reports>>
    BY DEF RecordGitOpsFailed, RecordSucceeded, runVars, netVars
  <1>5. \A k \in JobIds : NoNewWork(k) /\ ~Dispatches(h, k)' /\ ~Commits(h, k)'
    BY <1>4, FinishWork
  <1>6. /\ jobs[j].status \in Active /\ runs[j].st = "done"
        /\ ~Said(j, "succeeded") /\ ~Said(j, "failed")
        /\ \A g \in Handlers : ~Dispatches(g, j) /\ (Commits(g, j) => g = h)
    BY <1>2, <1>3 DEF Life, StartLife, EndLife
  <1>7. \A g \in Handlers : ~Dispatches(g, j)' /\ ~Commits(g, j)'
    BY <1>1, <1>5, <1>6 DEF NoNewWork
  <1>8. j \in rows /\ jobs[j].status \in Statuses /\ jobs[j].status # "succeeded"
    BY <1>1, <1>3, <1>6 DEF Life, RowLife, Active, Statuses
  <1>9. /\ jobs'[j].status \in {"succeeded", "failed"}
        /\ \A k \in JobIds : jobs'[k].rowid = jobs[k].rowid
        /\ \A k \in JobIds \ {j} : jobs'[k] = jobs[k]
    <2>1. CASE RecordGitOpsFailed(h)
      <3>1. SetFailed(j)
        BY <1>1, <2>1 DEF RecordGitOpsFailed
      <3> QED BY <1>1, <1>3, <3>1, SetFailedLife DEF Life
    <2>2. CASE RecordSucceeded(h)
      <3> DEFINE row == [jobs[j] EXCEPT !.status = "succeeded",
                                        !.commit = hs[h].tag, !.deploy = TRUE]
      <3>1. hs[h].tag \in Tags \cup {None} /\ jobs[j] \in Rows
        BY <1>1 DEF HandlerStates, BaseInv, TypeOK
      <3>2. row \in Rows /\ row.rowid = jobs[j].rowid /\ row.status = "succeeded"
        BY <3>1 DEF Rows, Statuses
      <3>3. Update(j, row)
        BY <1>1, <2>2 DEF RecordSucceeded
      <3> HIDE DEF row
      <3>4. jobs'[j] = row /\ \A k \in JobIds \ {j} : jobs'[k] = jobs[k]
        BY <1>1, <1>8, <3>2, <3>3, UpdateEffect DEF BaseInv
      <3> QED BY <3>2, <3>4
    <2> QED BY <2>1, <2>2
  <1>10. /\ \A k \in JobIds \ {j} : RowSame(k)
         /\ \A k \in JobIds : runs'[k].st = runs[k].st /\ NoNewReport(k)
    BY <1>4, <1>9 DEF RowSame, NoNewReport
  <1> QED BY <1>1, <1>4, <1>5, <1>6, <1>7, <1>8, <1>9, <1>10, SettleLife

LEMMA RunnerFailedLife == ASSUME dispatching' = dispatching, BaseInv, LifeInv, RunnerFailed PROVE LifeStep
  <1>1. PICK r \in reports :
          /\ r.status = "failed" /\ reports' = reports \ {r} /\ SetFailed(r.job)
          /\ UNCHANGED <<rows, runs, hs>>
    BY DEF RunnerFailed, runVars
  <1>. PICK j \in JobIds : j = r.job
    BY DEF BaseInv, TypeOK, Reports
  <1>2. Life(j) /\ Said(j, "failed") /\ runs[j].st \in LiveRun \cup {"none", "done", "failed", "cancelled"}
    BY <1>1, LifeOf DEF Said, BaseInv, TypeOK, RunStates
  <1>3. runs[j].st \notin {"none", "pending", "cloned", "building"}
    BY <1>2 DEF Life, StartLife
  <1>4. Stored(j)
    BY <1>3 DEF BaseInv, RowsOK
  <1>5. /\ jobs'[j].status = "failed" /\ \A k \in JobIds : jobs'[k].rowid = jobs[k].rowid
        /\ \A k \in JobIds \ {j} : jobs'[k] = jobs[k]
    BY <1>1, <1>2, <1>4, SetFailedLife DEF Life
  <1>6. /\ jobs[j].status # "succeeded" /\ ~Said(j, "succeeded")
        /\ \A g \in Handlers : ~Dispatches(g, j) /\ ~Commits(g, j)
    BY <1>2, <1>3 DEF Life, StartLife, EndLife
  <1>7. \A k \in JobIds, g \in Handlers :
          /\ Dispatches(g, k)' <=> Dispatches(g, k)
          /\ Commits(g, k)' <=> Commits(g, k)
          /\ Deletes(g, k)' <=> Deletes(g, k)
    BY <1>1 DEF Dispatches, Commits, Deletes
  <1>8. /\ \A k \in JobIds \ {j} : RowSame(k)
        /\ \A k \in JobIds : runs'[k].st = runs[k].st /\ NoNewReport(k) /\ NoNewWork(k)
    BY <1>1, <1>5, <1>7 DEF RowSame, NoNewReport, NoNewWork
  <1>9. jobs[j].status \in Statuses
    BY <1>2, <1>4, StoredStatus DEF Life
  <1> QED BY <1>1, <1>3, <1>4, <1>5, <1>6, <1>7, <1>8, <1>9, SettleLife

LEMMA OthersLife ==
    ASSUME dispatching' = dispatching, LifeInv, NEW j \in JobIds,
           \A k \in JobIds \ {j} : RowSame(k) /\ runs'[k].st = runs[k].st
                                     /\ NoNewReport(k) /\ NoNewWork(k),
           Life(j)'
    PROVE  LifeInv'
  <1>1. ASSUME NEW k \in JobIds \ {j} PROVE Life(k)'
    <2>1. Life(k)
      BY LifeOf
    <2> QED BY <1>1, <2>1, LifeFrame DEF RowSame
  <1> QED BY <1>1 DEF LifeInv, Life

LEMMA InsertLife ==
    ASSUME dispatching' = dispatching, BaseInv, LifeInv, NEW h \in Handlers, Insert(h) PROVE LifeStep
  <1>1. PICK j \in JobIds : j = hs[h].job /\ hs[h].pc = "insert" /\ ~Stored(j)
    BY DEF Insert, BaseInv, FreshOK
  <1>2. /\ rows' = rows \cup {j} /\ nextRow # 0
        /\ \A k \in JobIds \ {j} : jobs'[k] = jobs[k]
        /\ jobs'[j].status = "queued" /\ jobs'[j].rowid = nextRow
    <2>1. nextRow # 0
      BY DEF BaseInv, TypeOK
    <2> QED BY <1>1, <2>1, InsertRow
  <1>3. /\ UNCHANGED <<runs, reports>>
        /\ \/ dispatching /\ Goto(h, "dispatch")
           \/ ~dispatching /\ Finish(h)
    BY ConstantsOK, Zenon DEF Insert, runVars, netVars
  <1>4. Life(j)
    BY LifeOf
  <1>5. /\ jobs[j].status = "none" /\ j \notin rows /\ runs[j].st = "none"
        /\ ~Said(j, "failed") /\ ~Said(j, "succeeded")
    BY <1>1, <1>4 DEF Life, RowLife, StartLife, EndLife, BaseInv, RowsOK
  <1>6. \A g \in Handlers : ~Dispatches(g, j) /\ ~Commits(g, j) /\ ~Deletes(g, j)
    BY <1>1, <1>4, <1>5 DEF Life, RowLife, StartLife, EndLife
  <1>7. /\ \A k \in JobIds \ {j} : NoNewWork(k)
        /\ \A g \in Handlers : ~Commits(g, j)' /\ ~Deletes(g, j)' /\
             (Dispatches(g, j)' => g = h /\ dispatching)
    <2>1. CASE ~dispatching /\ Finish(h)
      <3>1. \A k \in JobIds : NoNewWork(k)
        BY <2>1, FinishWork
      <3> QED BY <1>5, <1>6, <3>1 DEF NoNewWork
    <2>2. CASE dispatching /\ Goto(h, "dispatch")
      <3>1. /\ \A g \in Handlers \ {h} : hs'[g] = hs[g]
            /\ hs'[h] = [hs[h] EXCEPT !.pc = "dispatch"] /\ hs[h] \in HandlerStates
        BY <2>2, GotoEffect DEF BaseInv, TypeOK, PCs
      <3>2. hs'[h].pc = "dispatch" /\ hs'[h].job = j
        BY <1>1, <3>1 DEF HandlerStates
      <3>3. \A k \in JobIds, g \in Handlers \ {h} :
              /\ Dispatches(g, k)' <=> Dispatches(g, k)
              /\ Commits(g, k)' <=> Commits(g, k)
              /\ Deletes(g, k)' <=> Deletes(g, k)
        BY <3>1 DEF Dispatches, Commits, Deletes
      <3>4. \A k \in JobIds : /\ ~Commits(h, k)' /\ ~Deletes(h, k)'
                              /\ Dispatches(h, k)' => k = j
        BY <3>2 DEF Dispatches, Commits, Deletes, CommitPCs
      <3> QED BY <1>6, <2>2, <3>3, <3>4 DEF NoNewWork
    <2> QED BY <1>3, <2>1, <2>2
  <1>8. Life(j)'
    <2>1. RowLife(j)'
      BY <1>2, <1>7 DEF RowLife, Stored
    <2>2. ~Said(j, "failed")' /\ ~Said(j, "succeeded")'
      BY <1>3, <1>5 DEF Said
    <2>3. StartLife(j)'
      BY <1>2, <1>3, <1>5, <1>7, <2>2 DEF StartLife
    <2>4. EndLife(j)'
      <3>1. ~\E q \in reports' : q.job = j /\ q.status = "succeeded"
        BY <2>2 DEF Said
      <3> QED BY <1>2, <1>7, <2>2, <3>1 DEF EndLife
    <2> QED BY <2>1, <2>3, <2>4 DEF Life
  <1>9. \A k \in JobIds \ {j} : RowSame(k) /\ runs'[k].st = runs[k].st /\ NoNewReport(k)
    BY <1>2, <1>3 DEF RowSame, NoNewReport
  <1>10. Lifecycle!Enqueue(j)
    <2>1. JobState[j] = "none" /\ JobState'[j] = "queued"
      BY <1>1, <1>2, <1>5 DEF JobState, Stored
    <2> QED BY <1>9, <2>1, OneMove DEF Lifecycle!Enqueue
  <1> QED BY <1>7, <1>8, <1>9, <1>10, OthersLife DEF LifeStep, Lifecycle!Next

LEMMA DispatchLife ==
    ASSUME dispatching' = dispatching, ~Faults, BaseInv, LifeInv, NEW h \in Handlers, Dispatch(h) PROVE LifeStep
  <1>1. PICK j \in JobIds : j = hs[h].job /\ hs[h].pc = "dispatch"
    BY DEF Dispatch, BaseInv, HandlersOK, HandlerOK, DispatchPCs
  <1>2. UNCHANGED <<rows, jobs, reports>>
    BY DEF Dispatch, storeVars, netVars
  <1>3. \A k \in JobIds : RowSame(k) /\ NoNewReport(k)
    BY <1>2 DEF RowSame, NoNewReport
  <1>4. CASE UNCHANGED runs /\ Goto(h, "dispatch_failed")
    <2>1. \A k \in JobIds : NoNewWork(k)
      BY <1>1, <1>4, GotoWork DEF PCs, DispatchPCs, CommitPCs
    <2> QED BY <1>3, <1>4, <2>1, QuietLife
  <1>5. CASE StartRun(j) /\ Finish(h)
    <2>1. \A k \in JobIds : NoNewWork(k) /\ ~Dispatches(h, k)' /\ ~Commits(h, k)'
      BY <1>5, FinishWork
    <2>2. Dispatches(h, j)
      BY <1>1 DEF Dispatches, DispatchPCs
    <2>3. Life(j)
      BY LifeOf
    <2>4. /\ dispatching /\ jobs[j].status = "queued" /\ runs[j].st = "none"
          /\ ~Said(j, "failed") /\ ~Said(j, "succeeded")
          /\ \A g \in Handlers : ~Commits(g, j) /\ (Dispatches(g, j) => g = h)
      BY <2>2, <2>3 DEF Life, StartLife, EndLife
    <2>5. /\ runs'[j].st = "pending"
          /\ \A k \in JobIds \ {j} :
               \/ runs'[k].st = runs[k].st
               \/ runs[k].st \in LiveRun /\ runs'[k].st = "cancelled"
      <3>1. /\ runs'[j].st = "pending"
            /\ \A k \in JobIds \ {j} :
                 \/ runs'[k] = runs[k]
                 \/ runs[k].st \in LiveRun /\ runs'[k] = [runs[k] EXCEPT !.st = "cancelled"]
        BY <1>5, StartRunEffect DEF BaseInv
      <3>2. \A k \in JobIds : [runs[k] EXCEPT !.st = "cancelled"].st = "cancelled"
        BY DEF BaseInv, TypeOK, RunStates
      <3> QED BY <3>1, <3>2
    <2>6. Life(j)'
      <3>1. \A g \in Handlers : ~Commits(g, j)' /\ ~Dispatches(g, j)'
        BY <2>1, <2>4 DEF NoNewWork
      <3>2. ~Said(j, "failed")' /\ ~Said(j, "succeeded")'
        BY <1>3, <2>4, SaidBefore
      <3>3. RowLife(j)'
        BY <1>2, <2>1, <2>3 DEF Life, RowLife, Stored, NoNewWork
      <3>4. StartLife(j)'
        BY <1>2, <2>4, <2>5, <3>1, <3>2 DEF StartLife, Active
      <3>5. EndLife(j)'
        <4>1. ~\E q \in reports' : q.job = j /\ q.status = "succeeded"
          BY <3>2 DEF Said
        <4> QED BY <2>5, <3>1, <3>2, <4>1 DEF EndLife
      <3> QED BY <3>3, <3>4, <3>5 DEF Life
    <2>7. ASSUME NEW k \in JobIds \ {j} PROVE Life(k)'
      <3>1. Life(k)
        BY LifeOf
      <3>2. CASE runs'[k].st = runs[k].st
        BY <1>3, <2>1, <3>1, <3>2, LifeFrame DEF RowSame
      <3>3. CASE runs[k].st \in LiveRun /\ runs'[k].st = "cancelled"
        <4>1. /\ Said(k, "succeeded")' => Said(k, "succeeded")
              /\ Said(k, "failed")' => Said(k, "failed")
          BY <1>3, SaidBefore
        <4>2. /\ ~Said(k, "succeeded")
              /\ \A g \in Handlers : ~Commits(g, k) /\ ~Dispatches(g, k)
          BY <3>1, <3>3 DEF Life, StartLife, EndLife, LiveRun
        <4>3. \A g \in Handlers : ~Commits(g, k)' /\ ~Dispatches(g, k)'
          BY <2>1, <4>2 DEF NoNewWork
        <4>4. RowLife(k)'
          BY <1>2, <2>1, <3>1 DEF Life, RowLife, Stored, NoNewWork
        <4>5. StartLife(k)'
          BY <2>4, <3>3, <4>1, <4>3 DEF StartLife
        <4>6. EndLife(k)'
          BY <1>2, <1>3, <3>1, <3>3, <4>1, <4>2, <4>3, OneReportBefore DEF Life, EndLife
        <4> QED BY <4>4, <4>5, <4>6 DEF Life
      <3> QED BY <2>5, <3>2, <3>3
    <2>8. LifeInv'
      BY <2>6, <2>7 DEF LifeInv, Life
    <2> QED BY <1>3, <2>8, Stutter DEF LifeStep
  <1> QED BY <1>1, <1>4, <1>5 DEF Dispatch

LEMMA PollLife ==
    ASSUME dispatching' = dispatching, ~Faults, BaseInv, LifeInv, PollRunner PROVE LifeStep
  <1>1. PICK j \in rows :
          /\ jobs[j].status = "queued" /\ jobs'[j].status = "running"
          /\ \A k \in JobIds \ {j} : jobs'[k] = jobs[k] /\ runs'[k] = runs[k]
          /\ runs'[j].st = "pending"
    BY PollBase
  <1>2. j \in JobIds /\ ~dispatching /\ UNCHANGED <<rows, reports, hs>>
    BY DEF PollRunner, netVars, BaseInv, TypeOK
  <1>3. \A k \in JobIds : jobs'[k].rowid = jobs[k].rowid
    <2>1. \A h \in Handlers : ~Insert(h) \/ nextRow' = nextRow + 1
      BY DEF Insert
    <2>2. nextRow' = nextRow /\ nextRow \in Int
      BY DEF PollRunner, BaseInv, TypeOK
    <2>3. \A h \in Handlers : ~Insert(h)
      BY <2>1, <2>2
    <2> QED BY <2>3, RowsStay DEF Next, RowStays
  <1>4. Life(j)
    BY <1>2, LifeOf
  <1>5. /\ runs[j].st = "none" /\ ~Said(j, "failed") /\ ~Said(j, "succeeded")
        /\ \A g \in Handlers : ~Commits(g, j) /\ ~Dispatches(g, j) /\ ~Deletes(g, j)
    BY <1>1, <1>2, <1>4 DEF Life, RowLife, StartLife, EndLife
  <1>6. \A k \in JobIds, g \in Handlers :
          /\ Dispatches(g, k)' <=> Dispatches(g, k)
          /\ Commits(g, k)' <=> Commits(g, k)
          /\ Deletes(g, k)' <=> Deletes(g, k)
    BY <1>2 DEF Dispatches, Commits, Deletes
  <1>7. ~Said(j, "failed")' /\ ~Said(j, "succeeded")'
    BY <1>2, <1>5 DEF Said
  <1>8. Life(j)'
    <2>1. RowLife(j)'
      BY <1>1, <1>2, <1>3, <1>4, <1>5, <1>6 DEF Life, RowLife, Stored
    <2>2. StartLife(j)'
      BY <1>1, <1>2, <1>5, <1>6, <1>7 DEF StartLife, Active
    <2>3. EndLife(j)'
      <3>1. ~\E q \in reports' : q.job = j /\ q.status = "succeeded"
        BY <1>7 DEF Said
      <3> QED BY <1>1, <1>2, <1>5, <1>6, <1>7, <3>1 DEF EndLife
    <2> QED BY <2>1, <2>2, <2>3 DEF Life
  <1>9. \A k \in JobIds \ {j} : RowSame(k) /\ runs'[k].st = runs[k].st
                                  /\ NoNewReport(k) /\ NoNewWork(k)
    BY <1>1, <1>2, <1>3, <1>6 DEF RowSame, NoNewReport, NoNewWork
  <1>10. Lifecycle!Claim(j)
    <2>1. JobState[j] = "queued" /\ JobState'[j] = "running"
      BY <1>1, <1>2 DEF JobState
    <2> QED BY <1>2, <1>9, <2>1, OneMove DEF Lifecycle!Claim
  <1> QED BY <1>2, <1>8, <1>9, <1>10, OthersLife DEF LifeStep, Lifecycle!Next

\* A run's step, and the report it may post.
LEMMA RunMoves ==
    ASSUME BaseInv, NEW j \in JobIds, RunStep(j)
    PROVE  \/ /\ runs[j].st \in {"pending", "cloned", "building"}
              /\ runs'[j].st \in {"cloned", "building"}
              /\ \A r \in reports' : r \in reports \/ r.status = "running"
           \/ /\ runs[j].st \in {"pending", "cloned", "building"} /\ runs'[j].st = "failing"
              /\ \A r \in reports' : r \in reports \/ (r.job = j /\ r.status = "failed")
           \/ /\ runs[j].st = "failing" /\ runs'[j].st = "failed"
              /\ \A r \in reports' : r \in reports \/ (r.job = j /\ r.status = "failed")
           \/ /\ runs[j].st = "building" /\ runs'[j].st = "done"
              /\ \A r \in reports' : r \in reports \/ r = [job |-> j, status |-> "succeeded",
                                                           tag |-> runs[j].tag]
  <1>0. runs \in [JobIds -> RunStates] /\ runs[j] \in RunStates
    BY DEF BaseInv, TypeOK
  <1>1. ASSUME NEW st, SetRun(j, st) PROVE runs'[j].st = st
    BY <1>0, <1>1 DEF SetRun, RunStates
  <1>2. ASSUME NEW s, Report(j, s)
        PROVE  \A r \in reports' : r \in reports \/ r = [job |-> j, status |-> s, tag |-> runs[j].tag]
    BY <1>2 DEF Report
  <1>3. CASE RunClone(j)
    <2>1. runs'[j] = [st |-> "cloned", tag |-> <<jobs[j].src, head[jobs[j].src]>>]
      BY <1>0, <1>3 DEF RunClone
    <2> QED BY <1>3, <2>1 DEF RunClone, netVars
  <1>4. CASE RunDetect(j)
    <2>1. runs'[j].st = "building" /\ runs[j].st = "cloned"
      BY <1>1, <1>4 DEF RunDetect
    <2>2. \A r \in reports' : r \in reports \/ r = [job |-> j, status |-> "running", tag |-> runs[j].tag]
      BY <1>2, <1>4 DEF RunDetect
    <2> QED BY <2>1, <2>2
  <1>5. CASE RunFail(j)
    <2>1. runs'[j].st = "failing" /\ runs[j].st \in {"pending", "cloned", "building"}
      BY <1>1, <1>5 DEF RunFail
    <2>2. \A r \in reports' : r \in reports \/ r = [job |-> j, status |-> "failed", tag |-> runs[j].tag]
      BY <1>2, <1>5 DEF RunFail
    <2>3. ASSUME NEW r \in reports', r \notin reports PROVE r.job = j /\ r.status = "failed"
      <3>1. r = [job |-> j, status |-> "failed", tag |-> runs[j].tag]
        BY <2>2, <2>3
      <3> QED BY <3>1
    <2>4. /\ runs[j].st \in {"pending", "cloned", "building"} /\ runs'[j].st = "failing"
          /\ \A r \in reports' : r \in reports \/ (r.job = j /\ r.status = "failed")
      BY <2>1, <2>3
    <2> QED BY <2>4, Zenon
  <1>6. CASE RunReportFailure(j)
    <2>1. runs'[j].st = "failed" /\ runs[j].st = "failing"
      BY <1>1, <1>6 DEF RunReportFailure
    <2>2. \A r \in reports' : r \in reports \/ r = [job |-> j, status |-> "failed", tag |-> runs[j].tag]
      BY <1>2, <1>6 DEF RunReportFailure
    <2>3. ASSUME NEW r \in reports', r \notin reports PROVE r.job = j /\ r.status = "failed"
      <3>1. r = [job |-> j, status |-> "failed", tag |-> runs[j].tag]
        BY <2>2, <2>3
      <3> QED BY <3>1
    <2>4. /\ runs[j].st = "failing" /\ runs'[j].st = "failed"
          /\ \A r \in reports' : r \in reports \/ (r.job = j /\ r.status = "failed")
      BY <2>1, <2>3
    <2> QED BY <2>4, Zenon
  <1>7. CASE RunReportSuccess(j)
    <2>1. runs'[j].st = "done" /\ runs[j].st = "building"
      BY <1>1, <1>7 DEF RunReportSuccess
    <2>2. \A r \in reports' : r \in reports \/ r = [job |-> j, status |-> "succeeded", tag |-> runs[j].tag]
      BY <1>2, <1>7 DEF RunReportSuccess
    <2> QED BY <2>1, <2>2
  <1> QED BY <1>3, <1>4, <1>5, <1>6, <1>7 DEF RunStep

LEMMA RunStepLife ==
    ASSUME dispatching' = dispatching, BaseInv, LifeInv, NEW j \in JobIds, RunStep(j) PROVE LifeStep
  <1>1. UNCHANGED <<rows, jobs, hs>> /\ \A k \in JobIds \ {j} : runs'[k] = runs[k]
    BY RunStepEffect DEF storeVars
  <1>2. \A k \in JobIds, g \in Handlers :
          /\ Dispatches(g, k)' <=> Dispatches(g, k)
          /\ Commits(g, k)' <=> Commits(g, k)
          /\ Deletes(g, k)' <=> Deletes(g, k)
    BY <1>1 DEF Dispatches, Commits, Deletes
  <1>3. \A k \in JobIds : RowSame(k) /\ NoNewWork(k)
    BY <1>1, <1>2 DEF RowSame, NoNewWork
  <1>4. Life(j)
    BY LifeOf
  <1>5. runs[j].st \in {"pending", "cloned", "building", "failing"} =>
          /\ jobs[j].status # "succeeded" /\ ~Said(j, "succeeded")
          /\ \A g \in Handlers : ~Commits(g, j) /\ ~Dispatches(g, j)
    BY <1>4 DEF Life, StartLife, EndLife, Active
  <1>6. runs[j].st \in {"pending", "cloned", "building"} =>
          jobs[j].status \in Active /\ ~Said(j, "failed")
    BY <1>4 DEF Life, StartLife
  <1>7. RowLife(j)'
    BY <1>1, <1>2, <1>4 DEF Life, RowLife, Stored
  <1>8. /\ \A k \in JobIds \ {j} : NoNewReport(k)
        /\ StartLife(j)' /\ EndLife(j)'
    <2>1. CASE /\ runs[j].st \in {"pending", "cloned", "building"}
               /\ runs'[j].st \in {"cloned", "building"}
               /\ \A r \in reports' : r \in reports \/ r.status = "running"
      <3>1. ~Said(j, "failed")' /\ ~Said(j, "succeeded")'
        BY <1>5, <1>6, <2>1 DEF Said
      <3>2. StartLife(j)'
        <4>1. ~dispatching /\ jobs[j].status = "queued" => runs[j].st = "none"
          BY <1>4 DEF Life, StartLife
        <4> QED BY <1>1, <1>2, <1>5, <1>6, <2>1, <3>1, <4>1 DEF StartLife
      <3>3. ~\E q \in reports' : q.job = j /\ q.status = "succeeded"
        BY <3>1 DEF Said
      <3>4. EndLife(j)'
        BY <1>2, <1>5, <2>1, <3>1, <3>3 DEF EndLife
      <3> QED BY <2>1, <3>2, <3>4 DEF NoNewReport
    <2>2. CASE /\ runs[j].st \in {"pending", "cloned", "building", "failing"}
               /\ runs'[j].st \in {"failing", "failed"}
               /\ \A r \in reports' : r \in reports \/ (r.job = j /\ r.status = "failed")
      <3>1. ~Said(j, "succeeded")'
        BY <1>5, <2>2 DEF Said
      <3>2. StartLife(j)'
        <4>1. ~dispatching /\ jobs[j].status = "queued" => runs[j].st = "none"
          BY <1>4 DEF Life, StartLife
        <4> QED BY <1>1, <1>2, <1>5, <2>2, <4>1 DEF StartLife
      <3>3. ~\E q \in reports' : q.job = j /\ q.status = "succeeded"
        BY <3>1 DEF Said
      <3>4. EndLife(j)'
        BY <1>1, <1>2, <1>5, <2>2, <3>1, <3>3 DEF EndLife
      <3> QED BY <2>2, <3>2, <3>4 DEF NoNewReport
    <2>3. CASE /\ runs[j].st = "building" /\ runs'[j].st = "done"
               /\ \A r \in reports' : r \in reports \/ r = [job |-> j, status |-> "succeeded",
                                                            tag |-> runs[j].tag]
      <3>1. ~Said(j, "failed")'
        BY <1>6, <2>3 DEF Said
      <3>2. StartLife(j)'
        <4>1. ~dispatching /\ jobs[j].status = "queued" => runs[j].st = "none"
          BY <1>4 DEF Life, StartLife
        <4> QED BY <1>1, <1>2, <1>5, <2>3, <4>1 DEF StartLife
      <3>3. \A q \in reports' : q.job = j /\ q.status = "succeeded" =>
              q = [job |-> j, status |-> "succeeded", tag |-> runs[j].tag]
        BY <1>5, <2>3 DEF Said
      <3>4. EndLife(j)'
        BY <1>1, <1>2, <1>5, <1>6, <2>3, <3>1, <3>3 DEF EndLife
      <3> QED BY <2>3, <3>2, <3>4 DEF NoNewReport
    <2> QED BY <2>1, <2>2, <2>3, RunMoves
  <1>9. Life(j)'
    BY <1>7, <1>8 DEF Life
  <1>10. LifeInv'
    BY <1>1, <1>3, <1>8, <1>9, OthersLife
  <1> QED BY <1>3, <1>10, Stutter DEF LifeStep

LEMMA RunnerRunningLife ==
    ASSUME dispatching' = dispatching, BaseInv, LifeInv, RunnerRunning PROVE LifeStep
  <1>1. PICK r \in reports :
          /\ reports' = reports \ {r} /\ UNCHANGED <<rows, runs, hs>>
          /\ Update(r.job, [jobs[r.job] EXCEPT !.commit = r.tag, !.deploy = FALSE])
    BY DEF RunnerRunning, runVars
  <1>2. r.job \in JobIds /\ r.tag \in Tags \cup {None} /\ jobs[r.job] \in Rows
    BY DEF BaseInv, TypeOK, Reports
  <1> DEFINE row == [jobs[r.job] EXCEPT !.commit = r.tag, !.deploy = FALSE]
  <1>3. row \in Rows /\ row.status = jobs[r.job].status /\ row.rowid = jobs[r.job].rowid
    BY <1>2 DEF Rows
  <1>4. Update(r.job, row)
    BY <1>1
  <1> HIDE DEF row
  <1>5. \A k \in JobIds : RowSame(k)
    BY <1>1, <1>2, <1>3, <1>4, UpdateEffect DEF RowSame, BaseInv
  <1>6. \A k \in JobIds : NoNewReport(k) /\ NoNewWork(k)
    BY <1>1 DEF NoNewReport, NoNewWork, Dispatches, Commits, Deletes
  <1> QED BY <1>1, <1>5, <1>6, QuietLife

LEMMA DeleteLife ==
    ASSUME dispatching' = dispatching, BaseInv, LifeInv, NEW h \in Handlers, Delete(h) PROVE LifeStep
  <1>1. PICK j \in JobIds : j = hs[h].job /\ hs[h].pc = "delete"
    BY DEF Delete, BaseInv, HandlersOK, HandlerOK
  <1>2. /\ rows' = rows \ {j} /\ UNCHANGED <<jobs, runs, reports>> /\ Goto(h, "stamp")
    BY <1>1 DEF Delete, runVars, netVars
  <1>3. \A k \in JobIds : NoNewWork(k) /\ NoNewReport(k)
    BY <1>1, <1>2, GotoWork DEF PCs, DispatchPCs, CommitPCs, NoNewReport
  <1>4. Life(j) /\ jobs[j].status = "failed"
    BY <1>1, LifeOf DEF Life, RowLife, Deletes
  <1>5. \A k \in JobIds \ {j} : RowSame(k)
    BY <1>2 DEF RowSame
  <1>6. Life(j)'
    BY <1>2, <1>3, <1>4, LifeFrame
  <1>7. LifeInv'
    BY <1>2, <1>3, <1>5, <1>6, OthersLife
  <1>8. CASE j \in rows
    <2>1. JobState[j] = "failed" /\ JobState'[j] = "forgotten"
      BY <1>2, <1>4, <1>8 DEF JobState, BaseInv, RowsOK, Stored
    <2>2. Lifecycle!Forget(j)
      BY <1>5, <2>1, OneMove DEF Lifecycle!Forget
    <2> QED BY <1>7, <2>2 DEF LifeStep, Lifecycle!Next
  <1>9. CASE j \notin rows
    <2>1. \A k \in JobIds : RowSame(k)
      BY <1>2, <1>5, <1>9 DEF RowSame
    <2> QED BY <1>7, <2>1, Stutter DEF LifeStep
  <1> QED BY <1>8, <1>9

LEMMA RunnerSucceededLife ==
    ASSUME dispatching' = dispatching, BaseInv, LifeInv, NEW h \in Handlers, RunnerSucceeded(h) PROVE LifeStep
  <1>1. PICK r \in reports :
          /\ r.status = "succeeded" /\ reports' = reports \ {r}
          /\ hs' = IF r.job \notin rows THEN hs
                   ELSE [hs EXCEPT ![h] = [Idle EXCEPT !.pc = "clone",
                           !.kind = "status", !.job = r.job, !.tag = r.tag,
                           !.app = jobs[r.job].app]]
    BY DEF RunnerSucceeded
  <1>2. UNCHANGED <<rows, jobs, runs>>
    BY DEF RunnerSucceeded, storeVars, runVars
  <1>. PICK j \in JobIds : j = r.job
    BY DEF BaseInv, TypeOK, Reports
  <1>3. Life(j) /\ Said(j, "succeeded")
    BY <1>1, LifeOf DEF Said
  <1>4. \A k \in JobIds : RowSame(k) /\ NoNewReport(k)
    BY <1>1, <1>2 DEF RowSame, NoNewReport
  <1>5. /\ jobs[j].status \in Active /\ runs[j].st = "done" /\ ~Said(j, "failed")
        /\ \A g \in Handlers : ~Commits(g, j) /\ ~Dispatches(g, j) /\ ~Deletes(g, j)
    BY <1>3 DEF Life, RowLife, StartLife, EndLife, Active
  <1>6. j \in rows
    BY <1>3, <1>5 DEF Life, RowLife, Active
  <1>7. /\ hs'[h].pc = "clone" /\ hs'[h].job = j
        /\ \A g \in Handlers \ {h} : hs'[g] = hs[g]
    <2>1. /\ hs'[h] = [Idle EXCEPT !.pc = "clone", !.kind = "status", !.job = r.job,
                                   !.tag = r.tag, !.app = jobs[r.job].app]
          /\ \A g \in Handlers \ {h} : hs'[g] = hs[g]
      BY <1>1, <1>6 DEF BaseInv, TypeOK
    <2> QED BY <2>1 DEF Idle
  <1>8. /\ \A k \in JobIds, g \in Handlers \ {h} :
             /\ Dispatches(g, k)' <=> Dispatches(g, k)
             /\ Commits(g, k)' <=> Commits(g, k)
             /\ Deletes(g, k)' <=> Deletes(g, k)
        /\ \A k \in JobIds : /\ ~Dispatches(h, k)' /\ ~Deletes(h, k)'
                             /\ Commits(h, k)' => k = j
    BY <1>7 DEF Dispatches, Commits, Deletes, DispatchPCs
  <1>9. \A k \in JobIds \ {j} : NoNewWork(k)
    BY <1>8 DEF NoNewWork
  <1>10. \A g \in Handlers : /\ ~Dispatches(g, j)' /\ ~Deletes(g, j)'
                             /\ Commits(g, j)' => g = h
    BY <1>5, <1>8
  <1>11. Life(j)'
    <2>1. ~\E q \in reports' : q.job = j /\ q.status = "succeeded"
      BY <1>1, <1>3 DEF Life, EndLife
    <2>2. ~Said(j, "succeeded")' /\ ~Said(j, "failed")'
      BY <1>4, <1>5, <2>1, SaidBefore DEF Said
    <2>3. RowLife(j)'
      BY <1>2, <1>3, <1>10 DEF Life, RowLife, Stored
    <2>4. StartLife(j)'
      BY <1>2, <1>3, <1>5, <1>10, <2>2 DEF Life, StartLife
    <2>5. EndLife(j)'
      BY <1>2, <1>5, <1>10, <2>1, <2>2 DEF EndLife
    <2> QED BY <2>3, <2>4, <2>5 DEF Life
  <1>12. LifeInv'
    BY <1>2, <1>4, <1>9, <1>11, OthersLife
  <1> QED BY <1>4, <1>12, Stutter DEF LifeStep

\* A request that neither writes to the store nor starts or ends a run.
LEMMA HandlerWork ==
    ASSUME BaseInv, NEW h \in Handlers,
           \/ CreateBuild(h) \/ RebuildApp(h) \/ GithubWebhook(h)
           \/ PathClone(h) \/ PathStat(h) \/ CreateLookup(h) \/ RebuildLookup(h) \/ Stamp(h)
           \/ CommitClone(h) \/ CommitAdd(h) \/ CommitCommit(h) \/ CommitPush(h) \/ CommitError(h)
    PROVE  \A k \in JobIds : NoNewWork(k)
  <1>0. hs \in [Handlers -> HandlerStates] /\ hs[h] \in HandlerStates
    BY DEF BaseInv, TypeOK
  <1>1. \A g \in Handlers \ {h} : hs'[g] = hs[g]
    BY OthersSame DEF Request, HandlerStep
  <1> DEFINE Goal == \A k \in JobIds : NoNewWork(k)
             Away == {"path_clone", "lookup", "stamp", "insert", "idle"}
  <1>2. ASSUME hs'[h].pc \in Away PROVE Goal
    BY <1>1, <1>2, LeaveWork DEF DispatchPCs, CommitPCs
  <1>3. ASSUME hs' = hs PROVE Goal
    BY <1>3 DEF NoNewWork, Dispatches, Commits, Deletes
  <1>4. CASE Finish(h)
    BY <1>4, FinishWork
  <1>5. CASE CreateBuild(h)
    <2>1. PICK a \in Apps, c \in Srcs :
            hs'[h] = [Idle EXCEPT !.pc = "path_clone", !.kind = "create", !.app = a, !.src = c]
      BY <1>0, <1>5 DEF CreateBuild
    <2>2. hs'[h].pc = "path_clone"
      BY <2>1 DEF Idle
    <2> QED BY <1>2, <2>2
  <1>6. CASE RebuildApp(h)
    <2>1. PICK a \in Apps :
            hs'[h] = [Idle EXCEPT !.pc = "lookup", !.kind = "rebuild", !.app = a]
      BY <1>0, <1>6 DEF RebuildApp
    <2>2. hs'[h].pc = "lookup"
      BY <2>1 DEF Idle
    <2> QED BY <1>2, <2>2
  <1>7. CASE GithubWebhook(h)
    <2>1. PICK s \in pushes :
            hs' = IF AppsBuiltFrom(s) = {} THEN hs
                  ELSE [hs EXCEPT ![h] = [Idle EXCEPT !.pc = "lookup", !.kind = "push",
                                            !.push = s, !.todo = AppsBuiltFrom(s)]]
      BY <1>7 DEF GithubWebhook
    <2>2. hs' = hs \/ hs'[h] = [Idle EXCEPT !.pc = "lookup", !.kind = "push",
                                            !.push = s, !.todo = AppsBuiltFrom(s)]
      BY <1>0, <2>1
    <2>3. hs' = hs \/ hs'[h].pc = "lookup"
      BY <2>2 DEF Idle
    <2> QED BY <1>2, <1>3, <2>3
  <1>8. CASE PathClone(h) \/ PathStat(h)
    <2>1. Finish(h) \/ Goto(h, "path_stat") \/ Goto(h, "lookup")
      BY <1>8 DEF PathClone, PathStat
    <2> QED BY <1>4, <2>1, GotoWork DEF PCs, DispatchPCs, CommitPCs
  <1>9. CASE CreateLookup(h)
    <2>1. ASSUME NEW j \in JobIds, jobs[j].status = "failed",
                 hs' = [hs EXCEPT ![h].pc = "delete", ![h].job = j, ![h].looked = nextRow]
          PROVE  Goal
      <3>1. hs'[h].pc = "delete" /\ hs'[h].job = j
        BY <1>0, <2>1 DEF HandlerStates
      <3> QED BY <1>1, <2>1, <3>1
          DEF NoNewWork, Dispatches, Commits, Deletes, DispatchPCs, CommitPCs
    <2>2. ASSUME hs' = [hs EXCEPT ![h].pc = "stamp", ![h].looked = nextRow] PROVE Goal
      <3>1. hs'[h].pc = "stamp"
        BY <1>0, <2>2 DEF HandlerStates
      <3> QED BY <1>2, <3>1
    <2> QED BY <1>4, <1>9, <2>1, <2>2 DEF CreateLookup
  <1>10. CASE RebuildLookup(h)
    <2>0. hs[h].pc = "lookup"
      BY <1>10 DEF RebuildLookup
    <2>1. PICK a \in IF hs[h].kind = "push" THEN hs[h].todo ELSE {hs[h].app} :
            \/ \E j \in JobIds :
                 hs' = [hs EXCEPT ![h] = [@ EXCEPT !.pc = "stamp", !.app = a,
                                    !.src = jobs[j].src, !.todo = hs[h].todo \ {a},
                                    !.looked = nextRow]]
            \/ hs' = [hs EXCEPT ![h] = IF hs[h].todo \ {a} # {}
                                       THEN [@ EXCEPT !.todo = hs[h].todo \ {a}] ELSE Idle]
      BY <1>10 DEF RebuildLookup
    <2>2. ASSUME NEW j \in JobIds,
                 hs' = [hs EXCEPT ![h] = [@ EXCEPT !.pc = "stamp", !.app = a,
                                    !.src = jobs[j].src, !.todo = hs[h].todo \ {a},
                                    !.looked = nextRow]]
          PROVE  hs'[h].pc \in Away
      <3>1. hs'[h] = [hs[h] EXCEPT !.pc = "stamp", !.app = a,
                                   !.src = jobs[j].src, !.todo = hs[h].todo \ {a},
                                    !.looked = nextRow]
        BY <1>0, <2>2
      <3>2. hs'[h].pc = "stamp"
        BY <1>0, <3>1 DEF HandlerStates
      <3> QED BY <3>2
    <2>3. ASSUME hs' = [hs EXCEPT ![h] = IF hs[h].todo \ {a} # {}
                                         THEN [@ EXCEPT !.todo = hs[h].todo \ {a}] ELSE Idle]
          PROVE  hs'[h].pc \in Away
      <3>1. hs'[h] = [hs[h] EXCEPT !.todo = hs[h].todo \ {a}] \/ hs'[h] = Idle
        BY <1>0, <2>3
      <3>2. [hs[h] EXCEPT !.todo = hs[h].todo \ {a}].pc = hs[h].pc
        BY <1>0 DEF HandlerStates
      <3>3. Idle.pc = "idle"
        BY DEF Idle
      <3> QED BY <2>0, <3>1, <3>2, <3>3
    <2> QED BY <1>2, <2>1, <2>2, <2>3
  <1>11. CASE Stamp(h)
    <2>1. hs'[h].pc = "insert"
      BY <1>0, <1>11 DEF Stamp, HandlerStates
    <2> QED BY <1>2, <2>1
  <1>12. CASE CommitClone(h) \/ CommitAdd(h) \/ CommitCommit(h) \/ CommitPush(h) \/ CommitError(h)
    <2>1. hs[h].pc \in CommitPCs /\ \E p \in CommitPCs : Goto(h, p)
      BY <1>12 DEF CommitClone, CommitAdd, CommitCommit, CommitPush, CommitError, CommitPCs
    <2> QED BY <2>1, GotoWork DEF PCs, DispatchPCs, CommitPCs
  <1> QED BY <1>5, <1>6, <1>7, <1>8, <1>9, <1>10, <1>11, <1>12

LEMMA DispatchingStays == ASSUME [Next]_vars PROVE dispatching' = dispatching
  <1>1. ASSUME NEW h \in Handlers, HandlerStep(h) PROVE dispatching' = dispatching
    BY <1>1 DEF HandlerStep, PathClone, PathStat, CreateLookup, Delete, RebuildLookup,
         Stamp, Insert, Dispatch, DispatchFailed, CommitClone, CommitAdd, CommitCommit,
         CommitPush, CommitError, RecordSucceeded, RecordGitOpsFailed, runVars
  <1>2. ASSUME NEW h \in Handlers, Request(h) \/ Abandon(h) PROVE dispatching' = dispatching
    BY <1>2 DEF Request, CreateBuild, RebuildApp, GithubWebhook, RunnerSucceeded, Abandon,
         runVars
  <1>3. ASSUME NEW j \in JobIds, RunStep(j) \/ RunLost(j) PROVE dispatching' = dispatching
    BY <1>3 DEF RunStep, RunClone, RunDetect, RunFail, RunReportFailure, RunReportSuccess,
         RunLost
  <1>4. CASE RunnerRunning \/ RunnerFailed \/ PollRunner \/ LoseMessage \/ OtherProcessPush
               \/ (\E s \in Srcs : SourcePush(s)) \/ UNCHANGED vars
    BY <1>4 DEF RunnerRunning, RunnerFailed, PollRunner, LoseMessage, OtherProcessPush,
         SourcePush, runVars, vars
  <1> QED BY <1>1, <1>2, <1>3, <1>4 DEF Next

LEMMA NextLife == ASSUME ~Faults, BaseInv, LifeInv, [Next]_vars PROVE LifeStep
  <1>0. dispatching' = dispatching
    BY DispatchingStays
  <1>1. ASSUME UNCHANGED <<rows, jobs, runs, reports>>, \A k \in JobIds : NoNewWork(k)
        PROVE  LifeStep
    <2>1. \A k \in JobIds : RowSame(k) /\ runs'[k].st = runs[k].st /\ NoNewReport(k)
      BY <1>1 DEF RowSame, NoNewReport
    <2> QED BY <1>0, <1>1, <2>1, QuietLife
  <1>2. ASSUME UNCHANGED <<rows, jobs, runs, reports, hs>> PROVE LifeStep
    <2>1. \A k \in JobIds : NoNewWork(k)
      BY <1>2 DEF NoNewWork, Dispatches, Commits, Deletes
    <2> QED BY <1>1, <1>2, <2>1
  <1>3. ASSUME NEW h \in Handlers,
               \/ CreateBuild(h) \/ RebuildApp(h) \/ GithubWebhook(h)
               \/ PathClone(h) \/ PathStat(h) \/ CreateLookup(h) \/ RebuildLookup(h) \/ Stamp(h)
               \/ CommitClone(h) \/ CommitAdd(h) \/ CommitCommit(h) \/ CommitPush(h)
               \/ CommitError(h)
        PROVE  LifeStep
    <2>1. UNCHANGED <<rows, jobs, runs, reports>>
      BY <1>3
      DEF CreateBuild, RebuildApp, GithubWebhook, PathClone, PathStat, CreateLookup,
          RebuildLookup, Stamp, CommitClone, CommitAdd, CommitCommit, CommitPush,
          CommitError, storeVars, runVars, netVars
    <2> QED BY <1>1, <1>3, <2>1, HandlerWork
  <1>4. ASSUME NEW h \in Handlers, Request(h) \/ HandlerStep(h) PROVE LifeStep
    BY <1>0, <1>3, <1>4, RunnerSucceededLife, DeleteLife, InsertLife, DispatchLife,
       DispatchFailedLife, CommitEndsLife DEF Request, HandlerStep
  <1>5. \A h \in Handlers : ~Abandon(h)
    BY DEF Abandon
  <1>6. ~LoseMessage /\ \A j \in JobIds : ~RunLost(j)
    BY DEF LoseMessage, RunLost
  <1>7. CASE OtherProcessPush \/ (\E s \in Srcs : SourcePush(s)) \/ UNCHANGED vars
    BY <1>2, <1>7 DEF OtherProcessPush, SourcePush, vars, storeVars, runVars, netVars
  <1> QED BY <1>0, <1>4, <1>5, <1>6, <1>7, RunStepLife, RunnerRunningLife, RunnerFailedLife, PollLife
          DEF Next

LEMMA InitLife == Init => LifeInv /\ Lifecycle!Init
  <1> SUFFICES ASSUME Init PROVE LifeInv /\ Lifecycle!Init
    OBVIOUS
  <1>1. /\ \A j \in JobIds : jobs[j].status = "none" /\ jobs[j].rowid = 0 /\ runs[j].st = "none"
        /\ \A h \in Handlers : hs[h].pc = "idle"
        /\ rows = {} /\ reports = {}
    BY DEF Init, NoRow, Idle
  <1>2. \A j \in JobIds, h \in Handlers : ~Dispatches(h, j) /\ ~Commits(h, j) /\ ~Deletes(h, j)
    BY <1>1 DEF Dispatches, Commits, Deletes, DispatchPCs, CommitPCs
  <1>3. \A j \in JobIds : ~Said(j, "succeeded") /\ ~Said(j, "failed")
    BY <1>1 DEF Said
  <1>4. LifeInv
    BY <1>1, <1>2, <1>3 DEF LifeInv, RowLife, StartLife, EndLife, Stored
  <1>5. Lifecycle!Init
    BY <1>1 DEF Lifecycle!Init, JobState
  <1> QED BY <1>4, <1>5

\* Without faults a row's status, the requests that work on the build, its run
\* and the reports on their way agree, for any number of concurrent requests.
THEOREM RowsAndRunsAgree == ASSUME ~Faults PROVE Spec => []LifeInv
  <1>1. Init => LifeInv
    BY InitLife
  <1>2. BaseInv /\ LifeInv /\ [Next]_vars => LifeInv'
    BY NextLife DEF LifeStep
  <1> QED BY <1>1, <1>2, BaseInvariant, PTL DEF Spec

\* UpdateJobStatus and DeleteJob (store.go) overwrite and delete whatever the row
\* says; still, without faults, a build the UI has seen settled never changes and
\* none but a failed one is deleted: the coordinator implements BuildLifecycle.
THEOREM BuildsImplementLifecycle == ASSUME ~Faults PROVE Spec => ImplementsLifecycle
  <1>1. Init => Lifecycle!Init
    BY InitLife
  <1>2. BaseInv /\ LifeInv /\ [Next]_vars => [Lifecycle!Next]_JobState
    BY NextLife DEF LifeStep
  <1> QED BY <1>1, <1>2, BaseInvariant, RowsAndRunsAgree, PTL DEF Spec, ImplementsLifecycle, Lifecycle!Spec
-----------------------------------------------------------------------------
(* Only what was built is deployed                                         *)

\* How a request comes to dispatch a build, or to where it is in CommitFiles.
CommitStart(h) ==
    /\ hs[h].pc = "idle" /\ hs'[h].pc = "clone"
    /\ \E r \in reports : /\ r.status = "succeeded"
                          /\ hs'[h].tag = r.tag /\ hs'[h].job = r.job

CommitStep(h) ==
    /\ hs[h].pc \in CommitPCs /\ hs'[h].pc \in CommitPCs
    /\ hs'[h].tag = hs[h].tag /\ hs'[h].job = hs[h].job

DispatchStart(h) ==
    /\ Insert(h) /\ dispatching
    /\ hs'[h].pc = "dispatch" /\ hs'[h].job = hs[h].job

LEMMA FinishLeaves ==
    ASSUME BaseInv, NEW h \in Handlers, Finish(h)
    PROVE  hs'[h].pc \notin CommitPCs \cup {"dispatch"}
  <1>1. CASE hs'[h] = Idle
    BY <1>1 DEF Idle, CommitPCs
  <1>2. CASE hs'[h] = [hs[h] EXCEPT !.pc = "lookup"]
    <2>1. hs'[h].pc = "lookup"
      BY <1>2 DEF BaseInv, TypeOK, HandlerStates
    <2> QED BY <2>1 DEF CommitPCs
  <1> QED BY <1>1, <1>2, FinishEffect DEF BaseInv

LEMMA WorkInOrder ==
    ASSUME BaseInv, NEW h \in Handlers, Request(h) \/ HandlerStep(h) \/ Abandon(h),
           hs'[h].pc \in CommitPCs \cup {"dispatch"}
    PROVE  CommitStart(h) \/ CommitStep(h) \/ DispatchStart(h)
  <1> USE DEF BaseInv
  <1>0. hs[h] \in HandlerStates /\ Idle \in HandlerStates
    BY IdleType DEF TypeOK
  <1>1. ~Finish(h)
    BY FinishLeaves
  <1>2. \A pc \in PCs : Goto(h, pc) =>
          hs'[h].pc = pc /\ hs'[h].tag = hs[h].tag /\ hs'[h].job = hs[h].job
    BY <1>0 DEF Goto, TypeOK, HandlerStates
  <1>3. CASE Request(h)
    <2>1. CASE CreateBuild(h)
      <3>1. hs'[h].pc = "path_clone"
        BY <1>0, <2>1 DEF CreateBuild, TypeOK, HandlerStates
      <3> QED BY <3>1 DEF CommitPCs
    <2>2. CASE RebuildApp(h)
      <3>1. hs'[h].pc = "lookup"
        BY <1>0, <2>2 DEF RebuildApp, TypeOK, HandlerStates
      <3> QED BY <3>1 DEF CommitPCs
    <2>3. CASE GithubWebhook(h)
      <3>1. hs'[h].pc = "lookup" \/ hs'[h].pc = "idle"
        BY <1>0, <2>3 DEF GithubWebhook, TypeOK, HandlerStates
      <3> QED BY <3>1 DEF CommitPCs
    <2>4. CASE RunnerSucceeded(h)
      <3>1. PICK r \in reports :
              /\ r.status = "succeeded"
              /\ hs' = IF r.job \notin rows THEN hs
                       ELSE [hs EXCEPT ![h] = [Idle EXCEPT !.pc = "clone",
                               !.kind = "status", !.job = r.job, !.tag = r.tag,
                               !.app = jobs[r.job].app]]
        BY <2>4 DEF RunnerSucceeded
      <3>2. r.job \in rows /\ hs[h].pc = "idle"
        BY <2>4, <3>1 DEF RunnerSucceeded, CommitPCs
      <3>3. hs'[h].pc = "clone" /\ hs'[h].tag = r.tag /\ hs'[h].job = r.job
        BY <1>0, <3>1, <3>2 DEF TypeOK, HandlerStates
      <3> QED BY <3>1, <3>2, <3>3 DEF CommitStart
    <2> QED BY <1>3, <2>1, <2>2, <2>3, <2>4 DEF Request
  <1>4. CASE Abandon(h)
    BY <1>1, <1>4 DEF Abandon, TypeOK, Idle, CommitPCs
  <1>5. CASE PathClone(h) \/ PathStat(h) \/ Delete(h) \/ Dispatch(h) \/ DispatchFailed(h)
    <2>1. \E pc \in PCs \ (CommitPCs \cup {"dispatch"}) : Goto(h, pc)
      BY <1>1, <1>5 DEF PathClone, PathStat, Delete, Dispatch, DispatchFailed, PCs, CommitPCs
    <2> QED BY <1>2, <2>1
  <1>6. CASE CreateLookup(h)
    <2>1. hs' # [hs EXCEPT ![h].pc = "stamp", ![h].looked = nextRow]
      <3> SUFFICES ASSUME hs' = [hs EXCEPT ![h].pc = "stamp", ![h].looked = nextRow]
                   PROVE  FALSE
        OBVIOUS
      <3>1. hs'[h].pc = "stamp"
        BY <1>0 DEF TypeOK, HandlerStates
      <3> QED BY <3>1 DEF CommitPCs
    <2>2. ASSUME NEW j \in JobIds,
                 hs' = [hs EXCEPT ![h].pc = "delete", ![h].job = j, ![h].looked = nextRow]
          PROVE  FALSE
      <3>1. hs'[h].pc = "delete"
        BY <1>0, <2>2 DEF TypeOK, HandlerStates
      <3> QED BY <3>1 DEF CommitPCs
    <2> QED BY <1>1, <1>6, <2>1, <2>2 DEF CreateLookup
  <1>7. CASE RebuildLookup(h)
    <2>1. PICK a \in IF hs[h].kind = "push" THEN hs[h].todo ELSE {hs[h].app} :
           \/ \E j \in JobIds :
                hs'[h] = [hs[h] EXCEPT !.pc = "stamp", !.app = a,
                       !.src = jobs[j].src, !.todo = hs[h].todo \ {a},
                       !.looked = nextRow]
           \/ hs'[h] = [hs[h] EXCEPT !.todo = hs[h].todo \ {a}]
           \/ hs'[h] = Idle
      BY <1>7 DEF RebuildLookup, TypeOK
    <2>2. hs[h].pc = "lookup"
      BY <1>7 DEF RebuildLookup
    <2>3. [hs[h] EXCEPT !.todo = hs[h].todo \ {a}].pc = "lookup"
      BY <1>0, <2>2 DEF HandlerStates
    <2>4. \A j \in JobIds : [hs[h] EXCEPT !.pc = "stamp", !.app = a, !.src = jobs[j].src,
            !.todo = hs[h].todo \ {a}, !.looked = nextRow].pc = "stamp"
      BY <1>0 DEF HandlerStates
    <2>5. hs'[h].pc \in {"stamp", "lookup", "idle"}
      <3>1. CASE hs'[h] = Idle
        BY <3>1 DEF Idle
      <3>2. CASE hs'[h] = [hs[h] EXCEPT !.todo = hs[h].todo \ {a}]
        BY <2>3, <3>2
      <3>3. ASSUME NEW j \in JobIds,
                   hs'[h] = [hs[h] EXCEPT !.pc = "stamp", !.app = a, !.src = jobs[j].src,
                               !.todo = hs[h].todo \ {a}, !.looked = nextRow]
            PROVE  hs'[h].pc = "stamp"
        BY <2>4, <3>3
      <3> QED BY <2>1, <3>1, <3>2, <3>3
    <2> QED BY <2>5 DEF CommitPCs
  <1>8. CASE Stamp(h)
    <2>1. hs'[h].pc = "insert"
      BY <1>0, <1>8 DEF Stamp, TypeOK, HandlerStates
    <2> QED BY <2>1 DEF CommitPCs
  <1>9. CASE Insert(h)
    <2>1. dispatching /\ Goto(h, "dispatch")
      BY <1>1, <1>9 DEF Insert
    <2> QED BY <1>2, <1>9, <2>1 DEF DispatchStart, PCs
  <1>10. CASE \/ CommitClone(h) \/ CommitAdd(h) \/ CommitCommit(h)
              \/ CommitPush(h) \/ CommitError(h)
    <2>1. hs[h].pc \in CommitPCs /\ \E pc \in CommitPCs : Goto(h, pc)
      BY <1>10 DEF CommitClone, CommitAdd, CommitCommit, CommitPush, CommitError, CommitPCs
    <2> QED BY <1>2, <2>1 DEF CommitStep, PCs, CommitPCs
  <1>11. CASE RecordSucceeded(h) \/ RecordGitOpsFailed(h)
    BY <1>1, <1>11 DEF RecordSucceeded, RecordGitOpsFailed
  <1> QED BY <1>3, <1>4, <1>5, <1>6, <1>7, <1>8, <1>9, <1>10, <1>11 DEF HandlerStep

\* A request moves, or stays where it is.
LEMMA MovesOrStays ==
    ASSUME BaseInv, [Next]_vars, NEW h \in Handlers
    PROVE  hs'[h] = hs[h] \/ Request(h) \/ HandlerStep(h) \/ Abandon(h)
  <1>1. CASE \E g \in Handlers : Request(g) \/ HandlerStep(g) \/ Abandon(g)
    BY <1>1, OthersSame
  <1>2. CASE \/ \E j \in JobIds : RunStep(j) \/ RunLost(j)
             \/ RunnerRunning \/ RunnerFailed \/ PollRunner
             \/ \E s \in Srcs : SourcePush(s)
             \/ OtherProcessPush \/ LoseMessage \/ UNCHANGED vars
    BY <1>2, RunStepEffect DEF RunnerRunning, RunnerFailed, PollRunner,
       SourcePush, OtherProcessPush, LoseMessage, vars
  <1> QED BY <1>1, <1>2 DEF Next

\* A run is started by the request that dispatches its build or the runner that
\* claims it, is none before and never starts again.
LEMMA RunsAfter ==
    ASSUME BaseInv, StartedOnce, [Next]_vars, NEW j \in JobIds
    PROVE  /\ runs[j].st = "done" => runs'[j] = runs[j]
           /\ runs[j].st = "none" /\ runs'[j].st # "none" =>
                \/ \E h \in Handlers : Dispatch(h) /\ hs[h].job = j
                \/ PollRunner /\ jobs'[j].status = "running"
  <1> DEFINE Started == \/ \E h \in Handlers : Dispatch(h) /\ hs[h].job = j
                        \/ PollRunner /\ jobs'[j].status = "running"
             Goal == /\ runs[j].st = "done" => runs'[j] = runs[j]
                     /\ runs[j].st = "none" /\ runs'[j].st # "none" => Started
  <1> USE DEF BaseInv
  <1>1. CASE UNCHANGED runs
    BY <1>1
  <1>2. ASSUME NEW h \in Handlers, Dispatch(h) PROVE Goal
    <2>1. hs[h].pc = "dispatch" /\ hs[h].job \in JobIds /\ runs[hs[h].job].st = "none"
      BY <1>2 DEF Dispatch, HandlersOK, HandlerOK, DispatchPCs, StartedOnce
    <2>2. CASE StartRun(hs[h].job)
      <3>1. CASE j = hs[h].job
        BY <1>2, <2>1, <3>1
      <3>2. CASE j # hs[h].job
        BY <2>1, <2>2, <3>2, StartRunEffect DEF LiveRun
      <3> QED BY <3>1, <3>2
    <2> QED BY <1>1, <1>2, <2>2 DEF Dispatch
  <1>3. ASSUME NEW k \in JobIds, RunStep(k) \/ RunLost(k) PROVE Goal
    BY <1>3, RunStepEffect DEF LiveRun
  <1>4. CASE PollRunner
    <2>1. PICK k \in rows :
            /\ jobs[k].status = "queued" /\ jobs'[k].status = "running"
            /\ \A m \in JobIds \ {k} : jobs'[m] = jobs[m] /\ runs'[m] = runs[m]
      BY <1>4, PollBase
    <2>2. k \in JobIds /\ ~dispatching
      BY <1>4 DEF PollRunner, TypeOK
    <2>3. runs[k].st = "none"
      BY <2>1, <2>2 DEF StartedOnce
    <2> QED BY <1>4, <2>1, <2>3
  <1>5. ASSUME NEW h \in Handlers, Request(h) \/ HandlerStep(h) \/ Abandon(h) PROVE Goal
    BY <1>1, <1>2, <1>5
       DEF Request, CreateBuild, RebuildApp, GithubWebhook, RunnerSucceeded,
           HandlerStep, PathClone, PathStat, CreateLookup, Delete, RebuildLookup,
           Stamp, Insert, DispatchFailed, CommitClone, CommitAdd, CommitCommit,
           CommitPush, CommitError, RecordSucceeded, RecordGitOpsFailed, Abandon, runVars
  <1>6. CASE RunnerRunning \/ RunnerFailed \/ (\E s \in Srcs : SourcePush(s))
               \/ OtherProcessPush \/ LoseMessage \/ UNCHANGED vars
    BY <1>1, <1>6 DEF RunnerRunning, RunnerFailed, SourcePush, OtherProcessPush,
                      LoseMessage, vars, runVars
  <1> QED BY <1>3, <1>4, <1>5, <1>6 DEF Next

LEMMA NextStarted ==
    ASSUME BaseInv, StartedOnce, [Next]_vars PROVE StartedOnce'
  <1> USE DEF BaseInv
  <1>0. dispatching' = dispatching
    BY DispatchingStays
  <1>1. ASSUME NEW h \in Handlers, hs'[h].pc = "dispatch"
        PROVE  hs'[h] = hs[h] \/ DispatchStart(h)
    BY <1>1, MovesOrStays, WorkInOrder DEF CommitStart, CommitStep, CommitPCs
  <1>2. ASSUME NEW h \in Handlers, DispatchStart(h)
        PROVE  /\ hs[h].job \in JobIds /\ ~Stored(hs[h].job) /\ hs[h].pc = "insert"
               /\ runs'[hs[h].job].st = "none"
               /\ \A g \in Handlers \ {h} : hs'[g] = hs[g]
    <2>1. hs[h].job \in JobIds /\ ~Stored(hs[h].job) /\ hs[h].pc = "insert" /\ UNCHANGED runs
      BY <1>2 DEF DispatchStart, Insert, FreshOK, runVars
    <2>2. \A g \in Handlers \ {h} : hs'[g] = hs[g]
      BY <1>2, OthersSame DEF DispatchStart, HandlerStep
    <2> QED BY <2>1, <2>2 DEF RowsOK
  <1>3. ASSUME NEW g \in Handlers, hs[g].pc = "dispatch"
        PROVE  hs[g].job \in JobIds /\ Stored(hs[g].job)
    BY <1>3 DEF HandlersOK, HandlerOK, DispatchPCs
  <1>4. ASSUME NEW h \in Handlers, hs'[h].pc = "dispatch"
        PROVE  /\ dispatching' /\ runs'[hs'[h].job].st = "none"
               /\ \A g \in Handlers :
                    hs'[g].pc = "dispatch" /\ hs'[g].job = hs'[h].job => g = h
    <2>1. CASE DispatchStart(h)
      <3>1. ASSUME NEW g \in Handlers \ {h}, hs'[g].pc = "dispatch"
            PROVE  hs'[g].job # hs'[h].job
        <4>1. hs'[g] = hs[g]
          BY <1>2, <2>1, <3>1
        <4> QED BY <1>2, <1>3, <2>1, <3>1, <4>1 DEF DispatchStart
      <3> QED BY <1>0, <1>2, <2>1, <3>1 DEF DispatchStart
    <2>2. CASE hs'[h] = hs[h] /\ ~DispatchStart(h)
      <3> DEFINE j == hs[h].job
      <3>1. /\ dispatching /\ runs[j].st = "none" /\ j \in JobIds /\ Stored(j)
            /\ \A g \in Handlers : hs[g].pc = "dispatch" /\ hs[g].job = j => g = h
        BY <1>3, <1>4, <2>2 DEF StartedOnce
      <3>2. ~Dispatch(h)
        <4> SUFFICES ASSUME Dispatch(h) PROVE FALSE
          OBVIOUS
        <4>1. CommitStart(h) \/ CommitStep(h) \/ DispatchStart(h)
          BY <1>4, WorkInOrder DEF HandlerStep
        <4> QED BY <1>4, <2>2, <4>1 DEF CommitStart, CommitStep, CommitPCs
      <3>3. runs'[j].st = "none"
        <4> SUFFICES ASSUME runs'[j].st # "none" PROVE FALSE
          OBVIOUS
        <4>1. ~PollRunner
          BY <3>1 DEF PollRunner
        <4>2. PICK g \in Handlers : Dispatch(g) /\ hs[g].job = j
          BY <3>1, <4>1, RunsAfter
        <4> QED BY <3>1, <3>2, <4>2 DEF Dispatch
      <3>4. ASSUME NEW g \in Handlers, hs'[g].pc = "dispatch", hs'[g].job = j
            PROVE  g = h
        <4>1. CASE hs'[g] = hs[g]
          BY <3>1, <3>4, <4>1
        <4>2. CASE DispatchStart(g)
          BY <1>2, <3>1, <3>4, <4>2 DEF DispatchStart
        <4> QED BY <1>1, <3>4, <4>1, <4>2
      <3> QED BY <1>0, <2>2, <3>1, <3>3, <3>4
    <2> QED BY <1>1, <1>4, <2>1, <2>2
  <1>5. ASSUME NEW j \in JobIds, ~dispatching', jobs'[j].status = "queued"
        PROVE  runs'[j].st = "none"
    <2>1. CASE \A h \in Handlers : ~Insert(h)
      <3>1. jobs[j].status = "queued"
        BY <1>5, <2>1, RowsStay DEF RowStays
      <3>2. runs[j].st = "none"
        BY <1>0, <1>5, <3>1 DEF StartedOnce
      <3>3. \A h \in Handlers : ~Dispatch(h)
        BY <1>0, <1>5 DEF StartedOnce, Dispatch
      <3> QED BY <1>5, <3>2, <3>3, RunsAfter
    <2>2. ASSUME NEW h \in Handlers, Insert(h) PROVE runs'[j].st = "none"
      <3>1. hs[h].job \in JobIds /\ ~Stored(hs[h].job) /\ UNCHANGED runs
        BY <2>2 DEF Insert, FreshOK, runVars
      <3>2. CASE j = hs[h].job
        BY <3>1, <3>2 DEF RowsOK
      <3>3. CASE j # hs[h].job
        BY <1>0, <1>5, <2>2, <3>1, <3>3, InsertRow DEF StartedOnce
      <3> QED BY <3>2, <3>3
    <2> QED BY <2>1, <2>2
  <1> QED BY <1>4, <1>5 DEF StartedOnce

LEMMA BuiltStays ==
    ASSUME BaseInv, StartedOnce, [Next]_vars, NEW a, NEW t, Built(a, t)
    PROVE  Built(a, t)'
  <1>1. PICK j \in JobIds : jobs[j].app = a /\ runs[j].st = "done" /\ runs[j].tag = t
    BY DEF Built
  <1>2. runs'[j] = runs[j] /\ Stored(j)
    BY <1>1, RunsAfter DEF BaseInv, RowsOK
  <1>3. jobs'[j].app = jobs[j].app
    <2>1. ASSUME NEW h \in Handlers, Insert(h) PROVE jobs'[j] = jobs[j]
      <3>1. hs[h].job # j
        BY <1>2, <2>1 DEF Insert, BaseInv, FreshOK
      <3> QED BY <2>1, <3>1, InsertRow
    <2> QED BY <2>1, RowsStay DEF RowStays
  <1> QED BY <1>1, <1>2, <1>3 DEF Built

\* Success is only reported by the step that ends a run with it.
LEMMA NewSuccess ==
    ASSUME BaseInv, [Next]_vars, NEW r \in reports', r \notin reports,
           r.status = "succeeded"
    PROVE  runs'[r.job].st = "done" /\ runs'[r.job].tag = r.tag
  <1> DEFINE Goal == runs'[r.job].st = "done" /\ runs'[r.job].tag = r.tag
  <1>1. CASE reports' \subseteq reports
    BY <1>1
  <1>2. ASSUME NEW j \in JobIds, RunStep(j) \/ RunLost(j) PROVE Goal
    <2>1. CASE UNCHANGED reports \/ Report(j, "failed") \/ Report(j, "running")
      BY <2>1 DEF Report
    <2>2. CASE RunReportSuccess(j)
      <3>1. r = [job |-> j, status |-> "succeeded", tag |-> runs[j].tag]
        BY <2>2 DEF RunReportSuccess, Report
      <3>2. runs'[j].st = "done" /\ runs'[j].tag = runs[j].tag
        BY <2>2 DEF RunReportSuccess, SetRun, BaseInv, TypeOK, RunStates
      <3> QED BY <3>1, <3>2
    <2> QED BY <1>2, <2>1, <2>2 DEF RunStep, RunClone, RunDetect, RunFail,
               RunReportFailure, RunLost, netVars
  <1>3. ASSUME NEW h \in Handlers, Request(h) \/ HandlerStep(h) \/ Abandon(h)
        PROVE  reports' \subseteq reports
    BY <1>3
       DEF Request, CreateBuild, RebuildApp, GithubWebhook, RunnerSucceeded,
           HandlerStep, PathClone, PathStat, CreateLookup, Delete, RebuildLookup,
           Stamp, Insert, Dispatch, DispatchFailed, CommitClone, CommitAdd, CommitCommit,
           CommitPush, CommitError, RecordSucceeded, RecordGitOpsFailed, Abandon, netVars
  <1>4. CASE RunnerRunning \/ RunnerFailed \/ PollRunner \/ (\E s \in Srcs : SourcePush(s))
               \/ OtherProcessPush \/ LoseMessage \/ UNCHANGED vars
    BY <1>1, <1>4 DEF RunnerRunning, RunnerFailed, PollRunner, SourcePush,
                      OtherProcessPush, LoseMessage, vars, netVars
  <1> QED BY <1>1, <1>2, <1>3, <1>4 DEF Next

LEMMA NextSuccess ==
    ASSUME BaseInv, StartedOnce, SuccessOK, [Next]_vars PROVE SuccessOK'
  <1>1. ASSUME NEW j \in JobIds, runs[j].st = "done" PROVE runs'[j] = runs[j]
    BY <1>1, RunsAfter
  <1>2. ASSUME NEW r \in reports, r.status = "succeeded"
        PROVE  runs'[r.job].st = "done" /\ runs'[r.job].tag = r.tag
    <2>1. r.job \in JobIds /\ runs[r.job].st = "done" /\ runs[r.job].tag = r.tag
      BY <1>2 DEF SuccessOK, BaseInv, TypeOK, Reports
    <2> QED BY <1>1, <2>1
  <1>3. ASSUME NEW h \in Handlers, hs[h].pc \in CommitPCs
        PROVE  runs'[hs[h].job].st = "done" /\ runs'[hs[h].job].tag = hs[h].tag
    <2>1. /\ hs[h].job \in JobIds
          /\ runs[hs[h].job].st = "done" /\ runs[hs[h].job].tag = hs[h].tag
      BY <1>3 DEF SuccessOK, BaseInv, HandlersOK, HandlerOK
    <2> QED BY <1>1, <2>1
  <1>4. ASSUME NEW h \in Handlers, hs'[h].pc \in CommitPCs
        PROVE  runs'[hs'[h].job].st = "done" /\ runs'[hs'[h].job].tag = hs'[h].tag
    <2>1. hs'[h] = hs[h] \/ CommitStart(h) \/ CommitStep(h)
      BY <1>4, MovesOrStays, WorkInOrder DEF DispatchStart, CommitPCs
    <2> QED BY <1>2, <1>3, <1>4, <2>1 DEF CommitStart, CommitStep
  <1>5. ASSUME NEW r \in reports', r.status = "succeeded"
        PROVE  runs'[r.job].st = "done" /\ runs'[r.job].tag = r.tag
    BY <1>2, <1>5, NewSuccess
  <1> QED BY <1>4, <1>5 DEF SuccessOK

\* The trees and the history hold what was built before the step.
ManifestsWereBuilt ==
    /\ \A a \in Apps : \A tree \in {wd'.index, wd'.head, main'.tree} :
         tree[a] # None => Built(a, tree[a])
    /\ \A e \in wd'.seen \cup main'.seen : Built(e[1], e[2])

LEMMA GitMoves ==
    ASSUME GitTypeOK, ManifestsBuilt
    PROVE  /\ (\/ Clone \/ Commit \/ Push \/ PushRejected \/ ForeignPush
               \/ UNCHANGED gitVars) => ManifestsWereBuilt
           /\ \A b \in Apps : \A t :
                WriteAndAdd(b, t) /\ Built(b, t) => ManifestsWereBuilt
  <1> USE DEF GitTypeOK, Remotes, WorkDirs, Trees
  <1>0. /\ \A a \in Apps : /\ wd.index[a] # None => Built(a, wd.index[a])
                           /\ wd.head[a] # None => Built(a, wd.head[a])
                           /\ main.tree[a] # None => Built(a, main.tree[a])
        /\ \A e \in wd.seen : Built(e[1], e[2])
        /\ \A e \in main.seen : Built(e[1], e[2])
    BY DEF ManifestsBuilt
  <1> HIDE DEF Built
  <1>1. ASSUME Clone PROVE ManifestsWereBuilt
    <2>1. /\ wd'.head = main.tree /\ wd'.index = main.tree /\ wd'.seen = {}
          /\ main' = main
      BY <1>1 DEF Clone
    <2> QED BY <1>0, <2>1 DEF ManifestsWereBuilt
  <1>2. ASSUME Commit PROVE ManifestsWereBuilt
    <2>1. /\ main' = main /\ wd'.head = wd.index /\ wd'.index = wd.index
          /\ wd'.seen = wd.seen \cup {<<p, wd.index[p]>> : p \in {q \in Apps : wd.index[q] # None}}
      BY <1>2 DEF Commit
    <2>2. \A e \in wd'.seen : Built(e[1], e[2])
      <3> SUFFICES ASSUME NEW e \in wd'.seen, e \notin wd.seen PROVE Built(e[1], e[2])
        BY <1>0
      <3>1. PICK p \in {q \in Apps : wd.index[q] # None} : e = <<p, wd.index[p]>>
        BY <2>1
      <3>2. e[1] = p /\ e[2] = wd.index[p]
        BY <3>1
      <3> QED BY <1>0, <3>1, <3>2
    <2> QED BY <1>0, <2>1, <2>2 DEF ManifestsWereBuilt
  <1>3. ASSUME Push PROVE ManifestsWereBuilt
    <2>1. /\ main'.tree = wd.head /\ main'.seen = main.seen \cup wd.seen
          /\ wd'.head = wd.head /\ wd'.index = wd.index /\ wd'.seen = {}
      BY <1>3 DEF Push
    <2> QED BY <1>0, <2>1 DEF ManifestsWereBuilt
  <1>4. ASSUME PushRejected \/ ForeignPush \/ UNCHANGED gitVars PROVE ManifestsWereBuilt
    <2>1. /\ main' = main
          /\ wd'.head = wd.head /\ wd'.index = wd.index /\ wd'.seen = wd.seen
      BY <1>4 DEF PushRejected, ForeignPush, gitVars
    <2> QED BY <1>0, <2>1 DEF ManifestsWereBuilt
  <1>5. ASSUME NEW b \in Apps, NEW t, WriteAndAdd(b, t), Built(b, t)
        PROVE  ManifestsWereBuilt
    <2>1. /\ main' = main /\ wd'.head = wd.head /\ wd'.seen = wd.seen
          /\ wd'.index[b] = t /\ \A a \in Apps \ {b} : wd'.index[a] = wd.index[a]
      BY <1>5 DEF WriteAndAdd
    <2> QED BY <1>0, <1>5, <2>1 DEF ManifestsWereBuilt
  <1> QED BY <1>1, <1>2, <1>3, <1>4, <1>5

LEMMA NextManifests ==
    ASSUME BaseInv, DeployInv, [Next]_vars PROVE ManifestsBuilt'
  <1>0. GitTypeOK /\ HandlersOK /\ RowsOK /\ StartedOnce /\ SuccessOK /\ ManifestsBuilt
    BY DEF BaseInv, TypeOK, DeployInv
  <1>1. (\/ Clone \/ Commit \/ Push \/ PushRejected \/ ForeignPush
         \/ UNCHANGED gitVars) => ManifestsWereBuilt
    BY <1>0, GitMoves
  <1> HIDE DEF ManifestsWereBuilt
  <1>2. ASSUME NEW h \in Handlers, CommitAdd(h) PROVE ManifestsWereBuilt
    <2>1. /\ hs[h].pc \in CommitPCs /\ hs[h].job \in JobIds
          /\ hs[h].app = jobs[hs[h].job].app /\ Stored(hs[h].job)
      BY <1>0, <1>2 DEF CommitAdd, CommitPCs, HandlersOK, HandlerOK
    <2>2. hs[h].app \in Apps /\ Built(hs[h].app, hs[h].tag)
      BY <1>0, <2>1 DEF SuccessOK, Built, RowsOK
    <2> QED BY <1>0, <1>2, <2>2, GitMoves DEF CommitAdd
  <1>3. ASSUME NEW h \in Handlers, HandlerStep(h) PROVE ManifestsWereBuilt
    <2>1. CASE PathClone(h) \/ CommitClone(h) \/ CommitCommit(h) \/ CommitPush(h)
      BY <1>1, <2>1 DEF PathClone, CommitClone, CommitCommit, CommitPush
    <2>2. CASE PathStat(h) \/ CreateLookup(h) \/ RebuildLookup(h) \/ Delete(h)
                 \/ Stamp(h) \/ Insert(h) \/ Dispatch(h) \/ DispatchFailed(h)
                 \/ CommitError(h) \/ RecordSucceeded(h) \/ RecordGitOpsFailed(h)
      BY <1>1, <2>2 DEF PathStat, CreateLookup, RebuildLookup, Delete, Stamp,
                        Insert, Dispatch, DispatchFailed, CommitError,
                        RecordSucceeded, RecordGitOpsFailed
    <2> QED BY <1>2, <1>3, <2>1, <2>2 DEF HandlerStep
  <1>4. ASSUME NEW h \in Handlers, Request(h) \/ Abandon(h) PROVE ManifestsWereBuilt
    BY <1>1, <1>4 DEF Request, Abandon, CreateBuild, RebuildApp, GithubWebhook,
                      RunnerSucceeded
  <1>5. ASSUME NEW j \in JobIds, RunStep(j) \/ RunLost(j) PROVE ManifestsWereBuilt
    BY <1>1, <1>5, RunStepEffect
  <1>6. ASSUME \/ RunnerRunning \/ RunnerFailed \/ PollRunner \/ LoseMessage
               \/ OtherProcessPush \/ (\E s \in Srcs : SourcePush(s)) \/ UNCHANGED vars
        PROVE  ManifestsWereBuilt
    <2>1. UNCHANGED gitVars \/ ForeignPush
      BY <1>6 DEF RunnerRunning, RunnerFailed, PollRunner, LoseMessage,
                  OtherProcessPush, SourcePush, vars
    <2> QED BY <1>1, <2>1
  <1>7. ManifestsWereBuilt
    BY <1>3, <1>4, <1>5, <1>6 DEF Next
  <1>8. ASSUME NEW a, NEW t, Built(a, t) PROVE Built(a, t)'
    BY <1>0, <1>8, BuiltStays
  <1> QED BY <1>7, <1>8 DEF ManifestsWereBuilt, ManifestsBuilt

\* However many requests share WorkDir (/tmp/gitops-lab) and stage, commit and
\* push each other's files, whatever fails between CommitFiles' calls, wherever a
\* request is cut off and however late a report is: the manifests on main never
\* name an image of an app that none of its runs has built.
THEOREM MainNamesBuiltImages == Spec => []OnlyBuiltIsDeployed
  <1>1. Init => DeployInv
    <2> SUFFICES ASSUME Init PROVE DeployInv
      OBVIOUS
    <2>1. StartedOnce /\ SuccessOK
      BY DEF Init, StartedOnce, SuccessOK, Idle, CommitPCs
    <2>2. ManifestsBuilt
      BY DEF Init, GitInit, EmptyTree, ManifestsBuilt
    <2> QED BY <2>1, <2>2 DEF DeployInv
  <1>2. BaseInv /\ DeployInv /\ [Next]_vars => DeployInv'
    BY NextStarted, NextSuccess, NextManifests DEF DeployInv
  <1>3. DeployInv => OnlyBuiltIsDeployed
    BY DEF DeployInv, ManifestsBuilt, OnlyBuiltIsDeployed
  <1> QED BY <1>1, <1>2, <1>3, BaseInvariant, PTL DEF Spec
-----------------------------------------------------------------------------
(* No build is left behind                                                 *)

\* A step that starts or ends no run keeps a build owned if it keeps the
\* handler and the report that own it, or hands it on.
LEMMA OwnedFrame ==
    ASSUME NEW k \in JobIds, Owned(k),
           \A h \in Handlers : Holds(h, k) => Owned(k)',
           \A r \in reports : r.job = k /\ r.status \in {"succeeded", "failed"}
                                => Owned(k)',
           UNCHANGED <<runs, dispatching>>, jobs'[k].status = jobs[k].status
    PROVE  Owned(k)'
  <1>1. CASE runs[k].st \in LiveRun
    BY <1>1 DEF Owned, LiveRun
  <1>2. CASE ~dispatching /\ jobs[k].status = "queued"
    BY <1>2 DEF Owned
  <1> QED BY <1>1, <1>2 DEF Owned

\* A cancelled run stays cancelled, if it does not start again.
LEMMA OutrunStays ==
    ASSUME BaseInv, [Next]_vars, NEW k \in JobIds, Stored(k), Outrun(k)
    PROVE  Owned(k)' \/ Outrun(k)'
  <1> USE DEF BaseInv
  <1>1. jobs[k].app \in Apps /\ runs[k].st = "cancelled" /\ Overlapped(jobs[k].app)
    BY DEF Outrun, RowsOK
  <1>2. Overlapped(jobs[k].app)' /\ jobs'[k].app = jobs[k].app
    <2>1. ASSUME NEW h \in Handlers, Insert(h) PROVE jobs'[k] = jobs[k]
      <3>1. hs[h].job # k
        BY <2>1 DEF Insert, FreshOK
      <3> QED BY <2>1, <3>1, InsertRow
    <2>2. jobs'[k].app = jobs[k].app
      BY <2>1, RowsStay DEF RowStays
    <2> DEFINE b == jobs[k].app
    <2>3. b \in Apps /\ Overlapped(b) /\ b = jobs[k].app
      BY <1>1
    <2> HIDE DEF b
    <2>4. PICK a \in Apps : a = b /\ Overlapped(a)
      BY <2>3
    <2>5. Overlapped(a)'
      BY <2>4, OverlappedStays
    <2> QED BY <2>2, <2>3, <2>4, <2>5 DEF Overlapped
  <1>3. ASSUME runs'[k].st \in {"cancelled", "pending"} PROVE Owned(k)' \/ Outrun(k)'
    BY <1>2, <1>3 DEF Owned, Outrun, Overlapped, LiveRun
  <1>4. CASE UNCHANGED runs
    BY <1>1, <1>3, <1>4
  <1>5. ASSUME NEW h \in Handlers, Dispatch(h) PROVE runs'[k].st \in {"cancelled", "pending"}
    <2>1. hs[h].job \in JobIds
      BY <1>5 DEF Dispatch, HandlersOK, HandlerOK, DispatchPCs
    <2>2. CASE StartRun(hs[h].job)
      BY <1>1, <2>1, <2>2, StartRunEffect DEF LiveRun
    <2> QED BY <1>1, <1>5, <2>2 DEF Dispatch
  <1>6. ASSUME NEW j \in JobIds, RunStep(j) \/ RunLost(j)
        PROVE  runs'[k].st \in {"cancelled", "pending"}
    BY <1>1, <1>6, RunStepEffect DEF LiveRun
  <1>7. CASE PollRunner
    BY <1>1, <1>3, <1>7, PollBase
  <1>8. ASSUME NEW h \in Handlers, Request(h) \/ HandlerStep(h) \/ Abandon(h)
        PROVE  Dispatch(h) \/ UNCHANGED runs
    BY <1>8
       DEF Request, CreateBuild, RebuildApp, GithubWebhook, RunnerSucceeded,
           HandlerStep, PathClone, PathStat, CreateLookup, Delete, RebuildLookup,
           Stamp, Insert, DispatchFailed, CommitClone, CommitAdd, CommitCommit,
           CommitPush, CommitError, RecordSucceeded, RecordGitOpsFailed, Abandon, runVars
  <1>9. CASE RunnerRunning \/ RunnerFailed \/ (\E s \in Srcs : SourcePush(s))
               \/ OtherProcessPush \/ LoseMessage \/ UNCHANGED vars
    BY <1>4, <1>9 DEF RunnerRunning, RunnerFailed, SourcePush, OtherProcessPush,
                      LoseMessage, vars, runVars
  <1> QED BY <1>3, <1>4, <1>5, <1>6, <1>7, <1>8, <1>9 DEF Next

LEMMA NextOwned ==
    ASSUME BaseInv, BaseInv', OverlapInv, ~Faults => LifeInv, ActiveIsOwned, [Next]_vars
    PROVE  ActiveIsOwned'
  <1> SUFFICES ASSUME ~Faults, NEW k \in JobIds, k \in rows',
                      jobs'[k].status \in Active, ~Outrun(k)',
                      ~(k \in rows /\ jobs[k].status \in Active /\ Outrun(k))
               PROVE  Owned(k)'
    <2>1. ASSUME NEW k \in rows, Outrun(k) PROVE Owned(k)' \/ Outrun(k)'
      <3>1. k \in JobIds /\ Stored(k)
        BY <2>1 DEF BaseInv, TypeOK, RowsOK
      <3> QED BY <2>1, <3>1, OutrunStays
    <2>2. rows' \subseteq JobIds
      BY DEF BaseInv, TypeOK
    <2> QED BY <2>1, <2>2 DEF ActiveIsOwned
  <1> USE DEF BaseInv
  <1>a. dispatching' = dispatching
    BY DispatchingStays
  <1>0. k \in rows /\ jobs[k].status \in Active => Owned(k) /\ Stored(k)
    BY DEF ActiveIsOwned, RowsOK
  <1>1. ASSUME NEW h \in Handlers, hs[h].pc \notin DispatchPCs \cup CommitPCs,
               \A g \in Handlers \ {h} : hs'[g] = hs[g],
               UNCHANGED <<jobs, runs, reports>>, rows' \subseteq rows
        PROVE  Owned(k)'
    <2>1. k \in rows /\ jobs[k].status \in Active
      BY <1>1
    <2>2. \A g \in Handlers : Holds(g, k) => Holds(g, k)'
      BY <1>1 DEF Holds, DispatchPCs, CommitPCs
    <2> QED BY <1>0, <1>1, <2>1, <2>2, <1>a, OwnedFrame DEF Owned
  <1>2. ASSUME NEW h \in Handlers, Request(h) PROVE Owned(k)'
    <2>1. \A g \in Handlers \ {h} : hs'[g] = hs[g]
      BY <1>2, OthersSame
    <2>2. CASE CreateBuild(h) \/ RebuildApp(h) \/ GithubWebhook(h)
      BY <1>1, <2>1, <2>2 DEF CreateBuild, RebuildApp, GithubWebhook, netVars,
                              storeVars, runVars, DispatchPCs, CommitPCs
    <2>3. CASE RunnerSucceeded(h)
      <3>1. PICK r \in reports :
              /\ reports' = reports \ {r}
              /\ r.job \in rows =>
                   hs' = [hs EXCEPT ![h] = [Idle EXCEPT !.pc = "clone",
                           !.kind = "status", !.job = r.job, !.tag = r.tag,
                           !.app = jobs[r.job].app]]
        BY <2>3 DEF RunnerSucceeded
      <3>2. /\ k \in rows /\ jobs[k].status \in Active /\ hs[h].pc = "idle"
            /\ UNCHANGED <<storeVars, runs>>
        BY <2>3 DEF RunnerSucceeded, storeVars, runVars
      <3>3. \A g \in Handlers : Holds(g, k) => Holds(g, k)'
        BY <2>1, <3>2 DEF Holds
      <3>4. r.job = k => Holds(h, k)'
        <4>1. [Idle EXCEPT !.pc = "clone", !.kind = "status", !.job = k,
                           !.tag = r.tag, !.app = jobs[k].app].job = k
          BY IdleType DEF HandlerStates
        <4>2. [Idle EXCEPT !.pc = "clone", !.kind = "status", !.job = k,
                           !.tag = r.tag, !.app = jobs[k].app].pc = "clone"
          BY IdleType DEF HandlerStates
        <4> QED BY <3>1, <3>2, <4>1, <4>2 DEF Holds, TypeOK
      <3>5. \A q \in reports : q.job = k => q \in reports' \/ Holds(h, k)'
        BY <3>1, <3>4
      <3> QED BY <1>0, <3>2, <3>3, <3>5, <1>a, OwnedFrame DEF Owned, storeVars
    <2> QED BY <1>2, <2>2, <2>3 DEF Request
  <1>3. ASSUME NEW h \in Handlers, HandlerStep(h) PROVE Owned(k)'
    <2>1. \A g \in Handlers \ {h} : hs'[g] = hs[g]
      BY <1>3, OthersSame
    <2>2. hs[h] \in HandlerStates /\ HandlerOK(h)
      BY DEF TypeOK, HandlersOK
    <2>3. CASE PathClone(h) \/ PathStat(h) \/ CreateLookup(h) \/ Delete(h)
                 \/ RebuildLookup(h) \/ Stamp(h)
      BY <1>1, <2>1, <2>3
         DEF PathClone, PathStat, CreateLookup, Delete, RebuildLookup, Stamp,
             netVars, storeVars, runVars, DispatchPCs, CommitPCs
    <2>4. CASE Insert(h)
      <3> DEFINE j == hs[h].job
      <3>1. j \in JobIds /\ ~Stored(j)
        BY <2>4 DEF Insert, FreshOK
      <3>2. /\ \A m \in JobIds \ {j} : jobs'[m] = jobs[m]
            /\ rows' = rows \cup {j} /\ UNCHANGED <<runs, reports>>
        BY <2>4, <3>1 DEF Insert, TypeOK, runVars, netVars
      <3>3. CASE k = j /\ Goto(h, "dispatch")
        <4>1. hs'[h] = [hs[h] EXCEPT !.pc = "dispatch"]
          BY <3>3, GotoEffect DEF PCs
        <4>2. hs'[h].pc = "dispatch" /\ hs'[h].job = k
          BY <2>2, <3>3, <4>1 DEF HandlerStates
        <4>3. Holds(h, k)'
          BY <4>2 DEF Holds
        <4> QED BY <4>3 DEF Owned
      <3>4. CASE k = j /\ ~dispatching
        <4>1. jobs'[k].status = "queued"
          BY <2>4, <3>4, InsertRow
        <4> QED BY <1>a, <3>4, <4>1 DEF Owned
      <3>5. CASE k # j
        <4>1. k \in rows /\ jobs[k].status \in Active /\ jobs'[k] = jobs[k]
          BY <3>2, <3>5
        <4>2. \A g \in Handlers : Holds(g, k) => Holds(g, k)'
          BY <2>1, <2>4 DEF Holds, Insert
        <4> QED BY <1>0, <3>2, <4>1, <4>2, <1>a, OwnedFrame DEF Owned
      <3> QED BY <2>4, <3>3, <3>4, <3>5 DEF Insert
    <2>5. CASE Dispatch(h)
      <3> DEFINE j == hs[h].job
      <3>1. j \in JobIds
        BY <2>2, <2>5 DEF Dispatch, HandlerOK, DispatchPCs
      <3>2. /\ UNCHANGED <<rows, jobs, reports>>
            /\ StartRun(j) \/ (UNCHANGED runs /\ Goto(h, "dispatch_failed"))
        BY <2>5 DEF Dispatch, storeVars, netVars
      <3>3. Owned(k)
        BY <1>0, <3>2
      <3>4. CASE UNCHANGED runs /\ Goto(h, "dispatch_failed")
        <4>1. hs'[h] = [hs[h] EXCEPT !.pc = "dispatch_failed"]
          BY <3>4, GotoEffect DEF PCs
        <4>2. hs'[h].pc = "dispatch_failed" /\ hs'[h].job = j
          BY <2>2, <4>1 DEF HandlerStates
        <4>3. \A g \in Handlers : Holds(g, k) => Holds(g, k)'
          BY <2>1, <4>2 DEF Holds
        <4> QED BY <1>0, <3>2, <3>4, <4>3, <1>a, OwnedFrame DEF Owned
      <3>5. CASE StartRun(j)
        <4>1. /\ runs'[j].st = "pending"
              /\ \A m \in JobIds \ {j} :
                   \/ runs'[m] = runs[m]
                   \/ /\ jobs[m].app = jobs[j].app /\ runs[m].st \in LiveRun
                      /\ runs'[m] = [runs[m] EXCEPT !.st = "cancelled"]
          BY <3>1, <3>5, StartRunEffect
        <4>2. \A m \in JobIds : runs[m] \in RunStates
          BY DEF TypeOK
        <4> HIDE DEF j
        <4>4. CASE k = j
          BY <4>1, <4>4 DEF Owned, LiveRun
        <4>5. CASE k # j /\ runs'[k] # runs[k]
          <5>1. runs'[k].st = "cancelled" /\ jobs[j].app = jobs[k].app
            <6>1. /\ jobs[k].app = jobs[j].app
                  /\ runs'[k] = [runs[k] EXCEPT !.st = "cancelled"]
              BY <4>1, <4>5
            <6>2. runs[k] \in RunStates
              BY <4>2
            <6>3. runs'[k].st = "cancelled"
              BY <6>1, <6>2 DEF RunStates
            <6> QED BY <6>1, <6>3
          <5>2. /\ k \in rows /\ jobs[k].status \in Active
                /\ j \in rows /\ jobs[j].status \in Active
            <6>1. Dispatches(h, j) /\ LifeInv
              BY <2>5 DEF Dispatches, Dispatch, DispatchPCs, j
            <6>2. RowLife(j) /\ StartLife(j)
              BY <3>1, <6>1 DEF LifeInv
            <6> QED BY <3>2, <6>1, <6>2 DEF RowLife, StartLife, Active
          <5>3. PICK a \in Apps : a = jobs[k].app
            BY <5>2 DEF RowsOK
          <5>4. ~ActiveOK(a)
            <6>1. k \in AppRows(a) /\ j \in AppRows(a) /\ k \in Int /\ j \in Int
              BY <3>1, <5>1, <5>2, <5>3 DEF AppRows, JobIds
            <6> QED BY <4>5, <5>2, <6>1 DEF ActiveOK
          <5>5. Overlapped(a)
            BY <5>4 DEF OverlapInv
          <5>6. Outrun(k)'
            BY <3>2, <5>1, <5>3, <5>5 DEF Outrun, Overlapped
          <5> QED BY <5>6
        <4>6. CASE k # j /\ runs'[k] = runs[k]
          <5>1. CASE \E g \in Handlers : Holds(g, k)
            <6>1. PICK g \in Handlers : Holds(g, k)
              BY <5>1
            <6>2. g # h
              BY <4>6, <6>1 DEF Holds, j
            <6>3. Holds(g, k)'
              BY <2>1, <6>1, <6>2 DEF Holds
            <6> QED BY <6>3 DEF Owned
          <5> QED BY <1>a, <3>2, <3>3, <4>6, <5>1 DEF Owned
        <4> QED BY <4>4, <4>5, <4>6
      <3> QED BY <3>2, <3>4, <3>5
    <2>6. ASSUME SetFailed(hs[h].job) \/ RecordSucceeded(h),
                 hs[h].job \in JobIds, UNCHANGED <<rows, runs, reports>>
          PROVE  Owned(k)'
      <3> DEFINE j == hs[h].job
      <3>0. jobs[j] \in Rows
        BY <2>6 DEF TypeOK
      <3>1. /\ \A m \in JobIds \ {j} : jobs'[m] = jobs[m]
            /\ \A m \in JobIds : jobs'[m].app = jobs[m].app
            /\ j \in rows => jobs'[j].status \notin Active
        <4>1. CASE SetFailed(j)
          <5>1. LET f == [jobs[j] EXCEPT !.status = "failed"] IN
                f.status = "failed" /\ f.app = jobs[j].app
            BY <3>0 DEF Rows
          <5> QED BY <2>6, <4>1, <5>1, SetFailedEffect DEF Active
        <4>2. CASE RecordSucceeded(h)
          <5> DEFINE row == [jobs[j] EXCEPT !.status = "succeeded",
                               !.commit = hs[h].tag, !.deploy = TRUE]
          <5>1. hs[h].tag \in Tags \cup {None}
            BY <2>2 DEF HandlerStates
          <5>2. row \in Rows /\ row.status = "succeeded" /\ row.app = jobs[j].app
            BY <3>0, <5>1 DEF Rows, Statuses
          <5>3. Update(j, row)
            BY <4>2 DEF RecordSucceeded
          <5> HIDE DEF row
          <5> QED BY <2>6, <5>2, <5>3, UpdateEffect DEF Active
        <4> QED BY <2>6, <4>1, <4>2
      <3>2. k # j
        BY <2>6, <3>1
      <3>3. k \in rows /\ jobs[k].status \in Active /\ jobs'[k] = jobs[k]
        BY <2>6, <3>1, <3>2
      <3>4. \A g \in Handlers : Holds(g, k) => Holds(g, k)'
        BY <2>1, <3>2 DEF Holds
      <3> QED BY <1>0, <2>6, <3>1, <3>3, <3>4, <1>a, OwnedFrame DEF Owned
    <2>7. CASE DispatchFailed(h) \/ RecordGitOpsFailed(h) \/ RecordSucceeded(h)
      <3>1. hs[h].job \in JobIds
        BY <2>2, <2>7 DEF HandlerOK, DispatchFailed, RecordGitOpsFailed,
                          RecordSucceeded, DispatchPCs, CommitPCs
      <3> QED BY <2>6, <2>7, <3>1
              DEF DispatchFailed, RecordGitOpsFailed, RecordSucceeded, runVars, netVars
    <2>8. CASE \/ CommitClone(h) \/ CommitAdd(h) \/ CommitCommit(h)
               \/ CommitPush(h) \/ CommitError(h)
      <3>1. /\ \E pc \in CommitPCs : Goto(h, pc)
            /\ UNCHANGED <<rows, jobs, runs, reports>>
        BY <2>8 DEF CommitClone, CommitAdd, CommitCommit, CommitPush, CommitError,
                    CommitPCs, storeVars, runVars, netVars
      <3>2. hs'[h].pc \in CommitPCs /\ hs'[h].job = hs[h].job
        <4>1. PICK pc \in CommitPCs : Goto(h, pc)
          BY <3>1
        <4>2. hs'[h] = [hs[h] EXCEPT !.pc = pc]
          BY <4>1, GotoEffect DEF CommitPCs, PCs
        <4> QED BY <2>2, <4>2 DEF HandlerStates
      <3>3. \A g \in Handlers : Holds(g, k) => Holds(g, k)'
        BY <2>1, <3>2 DEF Holds, CommitPCs
      <3> QED BY <1>0, <3>1, <3>3, <1>a, OwnedFrame DEF Owned
    <2> QED BY <1>3, <2>3, <2>4, <2>5, <2>7, <2>8 DEF HandlerStep
  <1>4. ASSUME NEW j \in JobIds, RunStep(j) PROVE Owned(k)'
    <2>1. /\ \A m \in JobIds \ {j} : runs'[m] = runs[m]
          /\ runs'[j].st # "none" /\ runs[j].st \in LiveRun
          /\ UNCHANGED <<rows, jobs, hs>>
      BY <1>4, RunStepEffect DEF storeVars
    <2>2. reports \subseteq reports'
      BY <1>4 DEF RunStep, RunClone, RunDetect, RunFail, RunReportFailure,
                  RunReportSuccess, Report, netVars
    <2>3. Owned(k)
      BY <1>0, <2>1
    <2>4. CASE k = j
      <3>1. runs[j] \in RunStates
        BY DEF TypeOK
      <3>2. CASE RunClone(j) \/ RunDetect(j) \/ RunFail(j)
        <4>1. runs'[j].st \in LiveRun
          <5>1. CASE RunClone(j)
            BY <5>1 DEF RunClone, LiveRun, TypeOK
          <5>2. CASE RunDetect(j) \/ RunFail(j)
            <6>1. PICK st \in {"building", "failing"} : SetRun(j, st)
              BY <5>2 DEF RunDetect, RunFail
            <6>2. runs'[j] = [runs[j] EXCEPT !.st = st]
              BY <6>1 DEF SetRun, TypeOK
            <6> QED BY <3>1, <6>2 DEF RunStates, LiveRun
          <5> QED BY <3>2, <5>1, <5>2
        <4> QED BY <2>4, <4>1 DEF Owned, LiveRun
      <3>3. CASE RunReportFailure(j) \/ RunReportSuccess(j)
        <4>1. \E r \in reports' : r.job = j /\ r.status \in {"succeeded", "failed"}
          <5>1. PICK st \in {"succeeded", "failed"} : Report(j, st)
            BY <3>3 DEF RunReportFailure, RunReportSuccess
          <5> DEFINE r == [job |-> j, status |-> st, tag |-> runs[j].tag]
          <5>2. r \in reports'
            BY <5>1 DEF Report
          <5>3. r.job = j /\ r.status = st
            OBVIOUS
          <5> HIDE DEF r
          <5> QED BY <5>2, <5>3
        <4> QED BY <2>4, <4>1 DEF Owned
      <3> QED BY <1>4, <3>2, <3>3 DEF RunStep
    <2>5. CASE k # j
      <3>1. runs'[k] = runs[k] /\ \A h \in Handlers : Holds(h, k) => Holds(h, k)'
        BY <2>1, <2>5 DEF Holds
      <3> QED BY <1>a, <2>1, <2>2, <2>3, <3>1 DEF Owned
    <2> QED BY <2>4, <2>5
  <1>5. CASE RunnerRunning
    <2>1. PICK r \in reports :
            /\ r.status = "running" /\ reports' = reports \ {r}
            /\ Update(r.job, [jobs[r.job] EXCEPT !.commit = r.tag, !.deploy = FALSE])
      BY <1>5 DEF RunnerRunning
    <2>2. r.job \in JobIds /\ r.tag \in Tags \cup {None} /\ jobs[r.job] \in Rows
      BY DEF TypeOK, Reports
    <2> DEFINE row == [jobs[r.job] EXCEPT !.commit = r.tag, !.deploy = FALSE]
    <2>3. /\ row \in Rows /\ row.status = jobs[r.job].status
          /\ row.app = jobs[r.job].app
      BY <2>2 DEF Rows
    <2>4. Update(r.job, row)
      BY <2>1
    <2> HIDE DEF row
    <2>5. \A m \in JobIds : /\ jobs'[m].status = jobs[m].status
                            /\ jobs'[m].app = jobs[m].app
      BY <2>2, <2>3, <2>4, UpdateEffect
    <2>6. UNCHANGED <<rows, runs, hs>>
      BY <1>5 DEF RunnerRunning, runVars
    <2>7. \A h \in Handlers : Holds(h, k) => Holds(h, k)'
      BY <2>6 DEF Holds
    <2>8. \A q \in reports : q.status \in {"succeeded", "failed"} => q \in reports'
      BY <2>1
    <2> QED BY <1>0, <2>5, <2>6, <2>7, <2>8, <1>a, OwnedFrame DEF Owned
  <1>6. CASE RunnerFailed
    <2>1. PICK r \in reports : reports' = reports \ {r} /\ SetFailed(r.job)
      BY <1>6 DEF RunnerFailed
    <2>2. r.job \in JobIds /\ jobs[r.job] \in Rows
      BY DEF TypeOK, Reports
    <2>3. LET f == [jobs[r.job] EXCEPT !.status = "failed"] IN
          f.status = "failed" /\ f.app = jobs[r.job].app
      BY <2>2 DEF Rows
    <2>4. /\ \A m \in JobIds \ {r.job} : jobs'[m] = jobs[m]
          /\ \A m \in JobIds : jobs'[m].app = jobs[m].app
          /\ r.job \in rows => jobs'[r.job].status \notin Active
      BY <2>1, <2>2, <2>3, SetFailedEffect DEF Active
    <2>5. UNCHANGED <<rows, runs, hs>>
      BY <1>6 DEF RunnerFailed, runVars
    <2>6. k # r.job
      BY <2>4, <2>5
    <2>7. \A h \in Handlers : Holds(h, k) => Holds(h, k)'
      BY <2>5 DEF Holds
    <2>8. \A q \in reports : q.job = k => q \in reports'
      BY <2>1, <2>6
    <2> QED BY <1>0, <2>4, <2>5, <2>6, <2>7, <2>8, <1>a, OwnedFrame DEF Owned
  <1>7. CASE PollRunner
    <2>1. PICK j \in rows :
            /\ jobs[j].status = "queued"
            /\ \A m \in JobIds : jobs'[m].app = jobs[m].app
            /\ \A m \in JobIds \ {j} : jobs'[m] = jobs[m] /\ runs'[m] = runs[m]
            /\ runs'[j].st = "pending"
      BY <1>7, PollBase
    <2>2. UNCHANGED <<rows, reports, hs>> /\ j \in JobIds
      BY <1>7 DEF PollRunner, netVars, TypeOK
    <2>3. CASE k = j
      BY <2>1, <2>3 DEF Owned, LiveRun
    <2>4. CASE k # j
      <3>1. jobs'[k] = jobs[k] /\ runs'[k] = runs[k] /\ Owned(k)
        BY <1>0, <2>1, <2>2, <2>4
      <3>2. \A h \in Handlers : Holds(h, k) => Holds(h, k)'
        BY <2>2 DEF Holds
      <3> QED BY <1>a, <2>2, <3>1, <3>2 DEF Owned
    <2> QED BY <2>3, <2>4
  <1>8. CASE OtherProcessPush \/ (\E s \in Srcs : SourcePush(s)) \/ UNCHANGED vars
    <2>1. UNCHANGED <<rows, jobs, hs, runs, reports>>
      BY <1>8 DEF OtherProcessPush, SourcePush, vars, storeVars, runVars, netVars
    <2>2. \A h \in Handlers : Holds(h, k) => Holds(h, k)'
      BY <2>1 DEF Holds
    <2> QED BY <1>0, <2>1, <2>2, <1>a, OwnedFrame DEF Owned
  <1>9. ~LoseMessage /\ (\A h \in Handlers : ~Abandon(h))
          /\ \A j \in JobIds : ~RunLost(j)
    BY DEF LoseMessage, Abandon, RunLost
  <1> QED BY <1>2, <1>3, <1>4, <1>5, <1>6, <1>7, <1>8, <1>9 DEF Next

\* Without faults a row says queued or running only while a request that will
\* settle it or start its run is in progress, its run is, the run's last report
\* is on its way or a polling runner can claim it, for any number of concurrent
\* requests.  The one other case is a run that the workflow's concurrency group
\* (build-app.yaml) cancelled for a build of the same app, and then two requests
\* of the app had overlapped.
THEOREM NoBuildLeftBehind == Spec => []ActiveIsOwned
  <1>1. CASE Faults
    <2>1. ActiveIsOwned
      BY <1>1 DEF ActiveIsOwned
    <2> QED BY <2>1, PTL
  <1>2. CASE ~Faults
    <2>1. Init => ActiveIsOwned
      BY DEF Init, ActiveIsOwned
    <2>2. BaseInv /\ BaseInv' /\ OverlapInv /\ LifeInv /\ ActiveIsOwned /\ [Next]_vars
            => ActiveIsOwned'
      BY NextOwned
    <2>3. Spec => []LifeInv
      BY <1>2, RowsAndRunsAgree
    <2> QED BY <2>1, <2>2, <2>3, BaseInvariant, OverlapHolds, PTL DEF Spec
  <1> QED BY <1>1, <1>2

-----------------------------------------------------------------------------
(* An app that was built can be built again                                *)

LEMMA LatestExists ==
    ASSUME BaseInv, NEW a \in Apps, AppRows(a) # {}
    PROVE  \E j \in rows : IsLatest(j, a)
  <1>1. /\ AppRows(a) \subseteq rows /\ MaxJobs \in Nat
        /\ \A j \in AppRows(a) : j \in Nat /\ MaxJobs - j \in Nat
    <2>1. MaxJobs \in Nat /\ \A j \in JobIds : j \in Nat /\ MaxJobs - j \in Nat
      BY ConstantsOK DEF JobIds
    <2> QED BY <2>1 DEF BaseInv, TypeOK, AppRows
  <1> DEFINE T == {MaxJobs - j : j \in AppRows(a)}
             Less == OpToRel(<, Nat)
  <1>2. T \subseteq Nat /\ T # {}
    BY <1>1
  <1>3. IsWellFoundedOn(Less, Nat)
    BY NatLessThanWellFounded
  <1>4. /\ \A k \in AppRows(a) : MaxJobs - k \in T
        /\ \A x \in T : \E j \in AppRows(a) : x = MaxJobs - j
        /\ \A x, y \in Nat : ~(<<y, x>> \in Less) => x <= y
    BY DEF OpToRel
  <1> HIDE DEF T, Less
  <1>5. PICK x \in T : \A y \in T : ~(<<y, x>> \in Less)
    BY <1>2, <1>3, WFMin
  <1>6. PICK j \in AppRows(a) : x = MaxJobs - j
    BY <1>4, <1>5
  <1>7. ASSUME NEW k \in AppRows(a) PROVE k <= j
    <2>1. MaxJobs - j <= MaxJobs - k
      BY <1>2, <1>4, <1>5, <1>6
    <2> QED BY <1>1, <2>1
  <1> QED BY <1>1, <1>6, <1>7 DEF IsLatest

\* createBuild refuses an app that has a directory or an earlier build, and deletes
\* a failed build before it stores its successor: for any number of concurrent
\* requests, an app that was accepted, or is on main, keeps a latest build that is
\* settled or that something will settle, or has a request that is about to store
\* one; all this if no request is cut off in between, and but for apps whose latest
\* build lost its run to another one of two requests that overlapped.
THEOREM AppsStayBuildable == Spec => []BuiltIsRebuildable
  <1>1. Init => TreesOK /\ NeverForgotten
    BY ConstantsOK DEF Init, GitInit, EmptyTree, TreesOK, NeverForgotten,
                       EverBuilt, NoRow
  <1>2. BaseInv /\ TreesOK /\ NeverForgotten /\ [Next]_vars
          => TreesOK' /\ NeverForgotten'
    BY NextTrees, NextForgotten
  <1>3. BaseInv /\ TreesOK /\ NeverForgotten /\ ActiveIsOwned => BuiltIsRebuildable
    <2> SUFFICES ASSUME BaseInv, TreesOK, NeverForgotten, ActiveIsOwned, ~Faults,
                        NEW a \in Apps, main.tree[a] # None \/ EverBuilt(a),
                        ~AboutToInsert(a)
                 PROVE  \E j \in rows : /\ IsLatest(j, a)
                                        /\ InProgress(j) => Owned(j) \/ Outrun(j)
      BY DEF BuiltIsRebuildable
    <2>1. AppRows(a) # {}
      BY DEF TreesOK, NeverForgotten
    <2>2. PICK j \in rows : IsLatest(j, a)
      BY <2>1, LatestExists
    <2> QED BY <2>2 DEF ActiveIsOwned, InProgress
  <1> QED BY <1>1, <1>2, <1>3, BaseInvariant, NoBuildLeftBehind, PTL DEF Spec
=============================================================================
