-------------------------- MODULE BuildCoordinator --------------------------
(***************************************************************************)
(* The build plane: the coordinator's SQLite store, its HTTP handlers, the *)
(* GitHub webhook, the dispatch to the executor, and the executor's build  *)
(* workflow reporting back over the runner API.                            *)
(*                                                                         *)
(* The store holds one connection (SetMaxOpenConns(1)), so a SQL statement *)
(* or transaction is one step; a handler is a goroutine that takes several *)
(* steps, and handlers interleave between their statements, git calls and  *)
(* HTTP calls.                                                             *)
(***************************************************************************)
EXTENDS Integers, FiniteSets

CONSTANTS
    Apps,         \* app names that pass ValidateCreateAppRequest
    Srcs,         \* a source: normalized repository URL and ref
    Handlers,     \* concurrent requests that take more than one step
    MaxJobs,      \* bound: build jobs created
    MaxCommits,   \* bound: commits pushed to one source's branch
    Dispatchers,  \* may the dispatcher be configured: a set of BOOLEAN
    Faults,       \* may messages be lost, statements fail, the process die
    None          \* no value: the empty string, or a NULL column

ASSUME ConstantsOK ==
    /\ MaxJobs \in Nat \ {0}
    /\ MaxCommits \in Nat \ {0}
    /\ Dispatchers \subseteq BOOLEAN
    /\ Faults \in BOOLEAN
    /\ None \notin Apps \cup Srcs \cup (Srcs \X (1..MaxCommits))

VARIABLES
    rows,      \* ids of the rows in build_jobs
    jobs,      \* job id -> row; kept after a DELETE, when the id leaves rows
    nextId,    \* the next created_at stamp; ids are created_at order
    nextRow,   \* the next rowid; SQLite reuses the rowid of a deleted last row,
               \* which leaves the order among the rows there are the same
    hs,        \* handler -> its local state
    head,      \* source -> number of commits on its branch
    pushes,    \* push webhooks on their way: the source pushed to
    runs,      \* job id -> the executor's run for it
    dispatching,  \* is the dispatcher configured (else runners poll); fixed
    reports,   \* runner status posts on their way
    main, wd   \* the GitOps repository, see GitOps

storeVars == <<rows, jobs, nextId, nextRow>>
gitVars == <<main, wd>>
runVars == <<head, runs, dispatching>>
netVars == <<pushes, reports>>
vars == <<storeVars, gitVars, runVars, netVars, hs>>

JobIds == 1..MaxJobs
Tags == Srcs \X (1..MaxCommits)   \* a commit of a source: the image tag

INSTANCE GitOps WITH Paths <- Apps, Contents <- Tags, Absent <- None

Active == {"queued", "running"}
Statuses == Active \cup {"succeeded", "failed"}
maxAttempts == 2

\* A row of build_jobs.  commit is commit_sha (the tag column has the same
\* value); deploy says whether deploy_status is "gitops_committed".  looked is
\* history, which no code reads: the rowid that was next when the request that
\* stored the row had looked the app's builds up.
Rows == [app : Apps \cup {None}, src : Srcs \cup {None},
         status : Statuses \cup {"none"}, attempts : 0..maxAttempts,
         commit : Tags \cup {None}, deploy : BOOLEAN, rowid : 0..MaxJobs,
         looked : 0..(MaxJobs + 1)]

NoRow == [app |-> None, src |-> None, status |-> "none", attempts |-> 0,
          commit |-> None, deploy |-> FALSE, rowid |-> 0, looked |-> 0]

Kinds == {"create", "rebuild", "push", "status"}
PCs == {"path_clone", "path_stat", "lookup", "delete", "stamp", "insert",
        "dispatch", "dispatch_failed",
        "clone", "add", "commit", "push", "record", "gitops_failed"}

HandlerStates ==
    [pc : PCs \cup {"idle"}, kind : Kinds \cup {"none"}, app : Apps \cup {None},
     src : Srcs \cup {None}, push : Srcs \cup {None}, job : 0..MaxJobs,
     tag : Tags \cup {None}, todo : SUBSET Apps, looked : 0..(MaxJobs + 1)]

Idle == [pc |-> "idle", kind |-> "none", app |-> None, src |-> None,
         push |-> None, job |-> 0, tag |-> None, todo |-> {}, looked |-> 0]

LiveRun == {"pending", "cloned", "building", "failing"}
RunStates == [st : LiveRun \cup {"none", "done", "failed", "cancelled"},
              tag : Tags \cup {None}]

Reports == [job : JobIds, status : {"running", "succeeded", "failed"},
            tag : Tags \cup {None}]

Init ==
    /\ rows = {}
    /\ jobs = [j \in JobIds |-> NoRow]
    /\ nextId = 1
    /\ nextRow = 1
    /\ hs = [h \in Handlers |-> Idle]
    /\ head = [s \in Srcs |-> 1]
    /\ pushes = {}
    /\ runs = [j \in JobIds |-> [st |-> "none", tag |-> None]]
    /\ dispatching \in Dispatchers
    /\ reports = {}
    /\ GitInit

-----------------------------------------------------------------------------
(* Store queries                                                           *)

AppRows(a) == {j \in rows : jobs[j].app = a}

\* GetJobByAppName: ORDER BY created_at DESC LIMIT 1.
IsLatest(j, a) == j \in AppRows(a) /\ \A k \in AppRows(a) : k <= j

\* ListAppRepos, matched with the push: the source of each app's row with the greatest rowid.
AppsBuiltFrom(s) ==
    {a \in Apps : \E j \in AppRows(a) :
        /\ jobs[j].src = s
        /\ \A k \in AppRows(a) : jobs[k].rowid <= jobs[j].rowid}

\* Mutant of InProgress: forgets that a dispatched build stays queued.
InProgressIfRunning(j) == jobs[j].status = "running"

\* The switch on previous.Status: a build is queued or running.
InProgress(j) == jobs[j].status \in Active

\* UPDATE build_jobs ... WHERE id = j: no row, no effect.
Update(j, row) == jobs' = IF j \in rows THEN [jobs EXCEPT ![j] = row] ELSE jobs

SetFailed(j) == Update(j, [jobs[j] EXCEPT !.status = "failed"])

-----------------------------------------------------------------------------
(* Handlers                                                                *)

Goto(h, pc) == hs' = [hs EXCEPT ![h].pc = pc]

\* The reply is sent; a webhook goes on with the apps it has left.
Finish(h) ==
    hs' = [hs EXCEPT ![h] = IF @.kind = "push" /\ @.todo # {}
                            THEN [@ EXCEPT !.pc = "lookup"] ELSE Idle]

\* Bound: a request is turned away when MaxJobs could not hold its job.
CanCreate ==
    nextId + Cardinality({g \in Handlers : hs[g].pc \in {"delete", "stamp"}})
        <= MaxJobs

\* POST /v1/builds with a valid request.
CreateBuild(h) ==
    /\ hs[h].pc = "idle"
    /\ \E a \in Apps, s \in Srcs :
         hs' = [hs EXCEPT ![h] = [Idle EXCEPT !.pc = "path_clone",
                            !.kind = "create", !.app = a, !.src = s]]
    /\ UNCHANGED <<storeVars, gitVars, runVars, netVars>>

\* PathExists clones, then looks at the shared directory.  A git error is a
\* 500, an app directory a 409.
PathClone(h) ==
    /\ hs[h].pc = "path_clone"
    /\ \/ Clone /\ Goto(h, "path_stat")
       \/ UNCHANGED gitVars /\ Finish(h)
    /\ UNCHANGED <<storeVars, runVars, netVars>>

PathStat(h) ==
    /\ hs[h].pc = "path_stat"
    /\ IF StatExists(hs[h].app) THEN Finish(h) ELSE Goto(h, "lookup")
    /\ UNCHANGED <<storeVars, gitVars, runVars, netVars>>

\* createBuild: a failed latest build is to be deleted, any other is a 409.
CreateLookup(h) ==
    LET a == hs[h].app IN
    /\ hs[h].pc = "lookup" /\ hs[h].kind = "create"
    /\ \/ /\ AppRows(a) = {} /\ CanCreate
          /\ hs' = [hs EXCEPT ![h].pc = "stamp", ![h].looked = nextRow]
       \/ \E j \in JobIds :
            /\ IsLatest(j, a)
            /\ IF jobs[j].status = "failed" /\ CanCreate
               THEN hs' = [hs EXCEPT ![h].pc = "delete", ![h].job = j,
                                     ![h].looked = nextRow]
               ELSE Finish(h)
       \/ AppRows(a) = {} /\ ~CanCreate /\ Finish(h)
    /\ UNCHANGED <<storeVars, gitVars, runVars, netVars>>

\* Mutant of Delete: replies once the failed build is reset.
DeleteAndReply(h) ==
    /\ hs[h].pc = "delete"
    /\ rows' = rows \ {hs[h].job}
    /\ Finish(h)
    /\ UNCHANGED <<jobs, nextId, nextRow, gitVars, runVars, netVars>>

\* DeleteJob (its log rows are not part of this module).
Delete(h) ==
    /\ hs[h].pc = "delete"
    /\ rows' = rows \ {hs[h].job}
    /\ Goto(h, "stamp")
    /\ UNCHANGED <<jobs, nextId, nextRow, gitVars, runVars, netVars>>

\* POST /v1/apps/:name/rebuild.  Bound: none that could not create a job.
RebuildApp(h) ==
    /\ hs[h].pc = "idle" /\ nextId <= MaxJobs
    /\ \E a \in Apps :
         hs' = [hs EXCEPT ![h] = [Idle EXCEPT !.pc = "lookup",
                                     !.kind = "rebuild", !.app = a]]
    /\ UNCHANGED <<storeVars, gitVars, runVars, netVars>>

\* POST /v1/webhooks/github, up to and including ListAppRepos.
GithubWebhook(h) ==
    /\ hs[h].pc = "idle"
    /\ \E s \in pushes :
         /\ pushes' = pushes \ {s}
         /\ hs' = IF AppsBuiltFrom(s) = {} THEN hs
                  ELSE [hs EXCEPT ![h] = [Idle EXCEPT !.pc = "lookup",
                          !.kind = "push", !.push = s,
                          !.todo = AppsBuiltFrom(s)]]
    /\ UNCHANGED <<storeVars, gitVars, runVars, reports>>

\* The shared part of rebuildApp and githubWebhook: look the app's latest
\* build up, refuse or skip while it is queued or running (or if the query
\* fails), inherit its source.
RebuildLookup(h) ==
    /\ hs[h].pc = "lookup" /\ hs[h].kind \in {"rebuild", "push"}
    /\ \E a \in IF hs[h].kind = "push" THEN hs[h].todo ELSE {hs[h].app} :
         LET left == hs[h].todo \ {a} IN
         \/ \E j \in JobIds :
              /\ IsLatest(j, a) /\ ~InProgress(j) /\ CanCreate
              /\ hs' = [hs EXCEPT ![h] = [@ EXCEPT !.pc = "stamp", !.app = a,
                                    !.src = jobs[j].src, !.todo = left,
                                    !.looked = nextRow]]
         \/ /\ \/ AppRows(a) = {} \/ ~CanCreate \/ Faults
               \/ \E j \in JobIds : IsLatest(j, a) /\ InProgress(j)
            /\ hs' = [hs EXCEPT ![h] = IF left # {}
                                       THEN [@ EXCEPT !.todo = left] ELSE Idle]
    /\ UNCHANGED <<storeVars, gitVars, runVars, netVars>>

\* CreateJob reads the clock before it has the connection to INSERT with.
Stamp(h) ==
    /\ hs[h].pc = "stamp" /\ nextId <= MaxJobs
    /\ nextId' = nextId + 1
    /\ hs' = [hs EXCEPT ![h].pc = "insert", ![h].job = nextId]
    /\ UNCHANGED <<rows, jobs, nextRow, gitVars, runVars, netVars>>

Insert(h) ==
    LET j == hs[h].job IN
    /\ hs[h].pc = "insert" /\ nextRow <= MaxJobs
    /\ rows' = rows \cup {j}
    /\ jobs' = [jobs EXCEPT ![j] = [NoRow EXCEPT !.app = hs[h].app,
                    !.src = hs[h].src, !.status = "queued", !.rowid = nextRow,
                    !.looked = hs[h].looked]]
    /\ nextRow' = nextRow + 1
    /\ IF dispatching THEN Goto(h, "dispatch") ELSE Finish(h)
    /\ UNCHANGED <<nextId, gitVars, runVars, netVars>>

\* repository_dispatch starts a run; the workflow's concurrency group cancels
\* the app's run that is in progress.
StartRun(j) ==
    runs' = [k \in JobIds |->
              IF k = j THEN [st |-> "pending", tag |-> None]
              ELSE IF jobs[k].app = jobs[j].app /\ runs[k].st \in LiveRun
                   THEN [runs[k] EXCEPT !.st = "cancelled"] ELSE runs[k]]

\* Dispatch: accepted, refused, or accepted with the answer lost.
Dispatch(h) ==
    /\ hs[h].pc = "dispatch"
    /\ \/ StartRun(hs[h].job) /\ Finish(h)
       \/ UNCHANGED runs /\ Goto(h, "dispatch_failed")
       \/ Faults /\ StartRun(hs[h].job) /\ Goto(h, "dispatch_failed")
    /\ UNCHANGED <<storeVars, gitVars, head, dispatching, netVars>>

\* Mutant of DispatchFailed: the failure is not recorded.
DispatchFailedSilently(h) ==
    /\ hs[h].pc = "dispatch_failed"
    /\ Finish(h)
    /\ UNCHANGED <<storeVars, gitVars, runVars, netVars>>

\* The failure is recorded against the build (and in its log).
DispatchFailed(h) ==
    /\ hs[h].pc = "dispatch_failed"
    /\ SetFailed(hs[h].job)
    /\ Finish(h)
    /\ UNCHANGED <<rows, nextId, nextRow, gitVars, runVars, netVars>>

\* A failed statement ends the request with a 500 (a webhook goes on with its
\* next app), and a dying process ends all of them: what a handler knew is
\* gone, what it stored stays.
Abandon(h) ==
    /\ Faults /\ hs[h].pc # "idle"
    /\ Finish(h) \/ hs' = [hs EXCEPT ![h] = Idle]
    /\ UNCHANGED <<storeVars, gitVars, runVars, netVars>>

-----------------------------------------------------------------------------
(* The runner API                                                          *)

\* Mutant of RunnerRunning: sets the status column as well.
RunnerRunningSetsStatus ==
    \E r \in reports :
      /\ r.status = "running"
      /\ reports' = reports \ {r}
      /\ Update(r.job, [jobs[r.job] EXCEPT !.status = "running",
                                           !.commit = r.tag, !.deploy = FALSE])
      /\ UNCHANGED <<rows, nextId, nextRow, gitVars, runVars, pushes, hs>>

\* POST /v1/runner/jobs/:id/status with "running": one UPDATE, which leaves
\* the status column alone.
RunnerRunning ==
    \E r \in reports :
      /\ r.status = "running"
      /\ reports' = reports \ {r}
      /\ Update(r.job, [jobs[r.job] EXCEPT !.commit = r.tag, !.deploy = FALSE])
      /\ UNCHANGED <<rows, nextId, nextRow, gitVars, runVars, pushes, hs>>

\* Mutant of RunnerFailed: only of a running job, and a dispatched one is queued.
RunnerFailedIfRunning ==
    \E r \in reports :
      /\ r.status = "failed" /\ jobs[r.job].status = "running"
      /\ reports' = reports \ {r}
      /\ SetFailed(r.job)
      /\ UNCHANGED <<rows, nextId, nextRow, gitVars, runVars, pushes, hs>>

RunnerFailed ==
    \E r \in reports :
      /\ r.status = "failed"
      /\ reports' = reports \ {r}
      /\ SetFailed(r.job)
      /\ UNCHANGED <<rows, nextId, nextRow, gitVars, runVars, pushes, hs>>

\* Mutant of RunnerSucceeded: a "running" post goes to commitGitOps too.
RunnerNotFailed(h) ==
    /\ hs[h].pc = "idle"
    /\ \E r \in reports :
         /\ r.status # "failed"
         /\ reports' = reports \ {r}
         /\ hs' = IF r.job \notin rows THEN hs
                  ELSE [hs EXCEPT ![h] = [Idle EXCEPT !.pc = "clone",
                          !.kind = "status", !.job = r.job, !.tag = r.tag,
                          !.app = jobs[r.job].app]]
    /\ UNCHANGED <<storeVars, gitVars, runVars, pushes>>

\* With "succeeded": commitGitOps reads the row.  Without one the handler
\* answers 500, and the failure it records has no row to go to.
RunnerSucceeded(h) ==
    /\ hs[h].pc = "idle"
    /\ \E r \in reports :
         /\ r.status = "succeeded"
         /\ reports' = reports \ {r}
         /\ hs' = IF r.job \notin rows THEN hs
                  ELSE [hs EXCEPT ![h] = [Idle EXCEPT !.pc = "clone",
                          !.kind = "status", !.job = r.job, !.tag = r.tag,
                          !.app = jobs[r.job].app]]
    /\ UNCHANGED <<storeVars, gitVars, runVars, pushes>>

\* CommitFiles, one git call after the other.
CommitClone(h) ==
    /\ hs[h].pc = "clone" /\ Clone /\ Goto(h, "add")
    /\ UNCHANGED <<storeVars, runVars, netVars>>

CommitAdd(h) ==
    /\ hs[h].pc = "add" /\ WriteAndAdd(hs[h].app, hs[h].tag)
    /\ Goto(h, "commit")
    /\ UNCHANGED <<storeVars, runVars, netVars>>

CommitCommit(h) ==
    /\ hs[h].pc = "commit" /\ Commit /\ Goto(h, "push")
    /\ UNCHANGED <<storeVars, runVars, netVars>>

\* Faults: the push arrives and its answer does not.
CommitPush(h) ==
    /\ hs[h].pc = "push"
    /\ \/ Push /\ Goto(h, "record")
       \/ PushRejected /\ Goto(h, "gitops_failed")
       \/ Faults /\ Push /\ Goto(h, "gitops_failed")
    /\ UNCHANGED <<storeVars, runVars, netVars>>

\* Any of the four may fail: network, file system, nothing to commit.
CommitError(h) ==
    /\ hs[h].pc \in {"clone", "add", "commit", "push"}
    /\ Goto(h, "gitops_failed")
    /\ UNCHANGED <<storeVars, gitVars, runVars, netVars>>

\* Mutant of RecordSucceeded: the two status columns are swapped.
RecordSwapped(h) ==
    LET j == hs[h].job IN
    /\ hs[h].pc = "record"
    /\ Update(j, [jobs[j] EXCEPT !.status = "gitops_committed",
                          !.commit = hs[h].tag, !.deploy = TRUE])
    /\ Finish(h)
    /\ UNCHANGED <<rows, nextId, nextRow, gitVars, runVars, netVars>>

RecordSucceeded(h) ==
    LET j == hs[h].job IN
    /\ hs[h].pc = "record"
    /\ Update(j, [jobs[j] EXCEPT !.status = "succeeded",
                          !.commit = hs[h].tag, !.deploy = TRUE])
    /\ Finish(h)
    /\ UNCHANGED <<rows, nextId, nextRow, gitVars, runVars, netVars>>

RecordGitOpsFailed(h) ==
    /\ hs[h].pc = "gitops_failed"
    /\ SetFailed(hs[h].job)
    /\ Finish(h)
    /\ UNCHANGED <<rows, nextId, nextRow, gitVars, runVars, netVars>>

\* POST /v1/runner/poll: ClaimNextQueuedJob is one transaction.  The runner
\* that gets the answer starts building; the answer may be lost.  The server
\* answers a poll under any configuration: ~dispatching is about the runners.
\* None polls where builds are dispatched (docs/history/build-infrastructure.md).
Claimable(j) == /\ j \in rows /\ jobs[j].status = "queued"
                /\ jobs[j].attempts < maxAttempts

\* Mutant of Claimed: the status column is left alone.
ClaimCounted(row) == [row EXCEPT !.attempts = @ + 1]

Claimed(row) == [row EXCEPT !.status = "running", !.attempts = @ + 1]

PollRunner ==
    /\ ~dispatching
    /\ \E j \in JobIds :
         /\ Claimable(j)
         /\ \A k \in JobIds : Claimable(k) => j <= k
         /\ jobs' = [jobs EXCEPT ![j] = Claimed(@)]
         /\ \/ runs' = [runs EXCEPT ![j] = [st |-> "pending", tag |-> None]]
            \/ Faults /\ UNCHANGED runs
    /\ UNCHANGED <<rows, nextId, nextRow, gitVars, head, dispatching, netVars, hs>>

-----------------------------------------------------------------------------
(* The executor: the steps of .github/workflows/build-app.yaml             *)

SetRun(j, st) == runs' = [runs EXCEPT ![j].st = st]

\* cstatus: a POST that is given up on, never repeated, and may arrive late.
Report(j, status) ==
    reports' = reports \cup {[job |-> j, status |-> status, tag |-> runs[j].tag]}

\* "git clone --depth 1 --branch": the branch's head at this moment.
RunClone(j) ==
    /\ runs[j].st = "pending"
    /\ runs' = [runs EXCEPT ![j] = [st |-> "cloned",
                    tag |-> <<jobs[j].src, head[jobs[j].src]>>]]
    /\ UNCHANGED <<storeVars, gitVars, head, dispatching, netVars, hs>>

RunDetect(j) ==
    /\ runs[j].st = "cloned" /\ SetRun(j, "building") /\ Report(j, "running")
    /\ UNCHANGED <<storeVars, gitVars, head, dispatching, pushes, hs>>

\* A failing step; some of them report the failure themselves.
RunFail(j) ==
    /\ runs[j].st \in {"pending", "cloned", "building"} /\ SetRun(j, "failing")
    /\ UNCHANGED reports \/ Report(j, "failed")
    /\ UNCHANGED <<storeVars, gitVars, head, dispatching, pushes, hs>>

\* The last step of a failed run, "if: failure()".
RunReportFailure(j) ==
    /\ runs[j].st = "failing" /\ SetRun(j, "failed") /\ Report(j, "failed")
    /\ UNCHANGED <<storeVars, gitVars, head, dispatching, pushes, hs>>

RunReportSuccess(j) ==
    /\ runs[j].st = "building" /\ SetRun(j, "done") /\ Report(j, "succeeded")
    /\ UNCHANGED <<storeVars, gitVars, head, dispatching, pushes, hs>>

\* The run is cancelled, hits timeout-minutes, or its machine goes away:
\* "if: failure()" does not hold, so nobody reports.
RunLost(j) ==
    /\ Faults /\ runs[j].st \in LiveRun /\ SetRun(j, "cancelled")
    /\ UNCHANGED <<storeVars, gitVars, head, dispatching, netVars, hs>>

-----------------------------------------------------------------------------
(* The environment                                                         *)

\* The branch's next commit is pushed; with faults, GitHub may deliver the push
\* of the commit it is at again.
SourcePush(s) ==
    /\ \E c \in {head[s], head[s] + 1} \cap (1..MaxCommits) :
         /\ c = head[s] => Faults
         /\ head' = [head EXCEPT ![s] = c]
    /\ pushes' = pushes \cup {s}
    /\ UNCHANGED <<storeVars, gitVars, runs, dispatching, reports, hs>>

OtherProcessPush ==
    /\ ForeignPush
    /\ UNCHANGED <<storeVars, runVars, netVars, hs>>

LoseMessage ==
    /\ Faults
    /\ \/ \E r \in reports : reports' = reports \ {r} /\ UNCHANGED pushes
       \/ \E s \in pushes : pushes' = pushes \ {s} /\ UNCHANGED reports
    /\ UNCHANGED <<storeVars, gitVars, runVars, hs>>

-----------------------------------------------------------------------------
\* A step a started request takes by itself.
HandlerStep(h) ==
    \/ PathClone(h) \/ PathStat(h) \/ CreateLookup(h) \/ Delete(h)
    \/ RebuildLookup(h) \/ Stamp(h) \/ Insert(h)
    \/ Dispatch(h) \/ DispatchFailed(h)
    \/ CommitClone(h) \/ CommitAdd(h) \/ CommitCommit(h) \/ CommitPush(h)
    \/ CommitError(h) \/ RecordSucceeded(h) \/ RecordGitOpsFailed(h)

RunStep(j) ==
    \/ RunClone(j) \/ RunDetect(j) \/ RunFail(j)
    \/ RunReportFailure(j) \/ RunReportSuccess(j)

Request(h) ==
    CreateBuild(h) \/ RebuildApp(h) \/ GithubWebhook(h) \/ RunnerSucceeded(h)

Next ==
    \/ \E h \in Handlers : Request(h) \/ HandlerStep(h) \/ Abandon(h)
    \/ \E j \in JobIds : RunStep(j) \/ RunLost(j)
    \/ RunnerRunning \/ RunnerFailed \/ PollRunner
    \/ \E s \in Srcs : SourcePush(s)
    \/ OtherProcessPush \/ LoseMessage

Spec == Init /\ [][Next]_vars

(***************************************************************************)
(* Fairness.  A goroutine of a started request runs on; a started run runs *)
(* on, a post that is not lost arrives, and polling runners poll (each of  *)
(* these happens finitely often, so one weak fairness condition serves     *)
(* them all).  The handlers here stand for goroutines the server starts    *)
(* without bound, so a post or a webhook waits for a free one only in the  *)
(* model: it is taken if one is free again and again (SF).  Nothing is     *)
(* assumed of users, of pushes to the sources, of other processes or of    *)
(* faults.                                                                 *)
(***************************************************************************)
RunnerProgress ==
    \/ \E j \in JobIds : RunStep(j)
    \/ RunnerRunning \/ RunnerFailed \/ PollRunner

Accept == \E h \in Handlers : RunnerSucceeded(h) \/ GithubWebhook(h)

Fairness ==
    /\ \A h \in Handlers : WF_vars(HandlerStep(h))
    /\ WF_vars(RunnerProgress)
    /\ SF_vars(Accept)

FairSpec == Spec /\ Fairness

-----------------------------------------------------------------------------
(* Properties                                                              *)

TypeOK ==
    /\ rows \subseteq JobIds
    /\ jobs \in [JobIds -> Rows]
    /\ nextId \in 1..(MaxJobs + 1)
    /\ nextRow \in 1..(MaxJobs + 1)
    /\ hs \in [Handlers -> HandlerStates]
    /\ head \in [Srcs -> 1..MaxCommits]
    /\ pushes \subseteq Srcs
    /\ runs \in [JobIds -> RunStates]
    /\ dispatching \in BOOLEAN
    /\ reports \subseteq Reports
    /\ GitTypeOK

Holds(h, j) ==
    /\ hs[h].job = j
    /\ hs[h].pc \in {"dispatch", "dispatch_failed", "clone", "add", "commit",
                     "push", "record", "gitops_failed"}

\* Two requests created builds of the app at the same time: each had looked its
\* builds up before the other's was stored.
Overlapped(a) ==
    \E j, k \in JobIds :
      /\ j # k /\ jobs[j].app = a /\ jobs[k].app = a
      /\ jobs[j].looked <= jobs[k].rowid /\ jobs[k].looked <= jobs[j].rowid

Owned(j) ==
    \/ \E h \in Handlers : Holds(h, j)
    \/ runs[j].st \in LiveRun
    \/ \E r \in reports : r.job = j /\ r.status \in {"succeeded", "failed"}
    \/ ~dispatching /\ jobs[j].status = "queued"

\* The workflow's concurrency group cancelled the run for another build of the
\* app, maybe an older one that was dispatched later.  Nobody reports that, and
\* if the row is the latest one, nobody can build the app again.
Outrun(j) == runs[j].st = "cancelled" /\ Overlapped(jobs[j].app)

\* Without faults no build is left behind: while a row says queued or running,
\* a request that will settle it or start its run is in progress, or its run
\* is, or the run's last report is on its way, or a runner can still claim it.
\* The one exception are apps two requests created builds of at the same time.
ActiveIsOwned ==
    ~Faults => \A j \in rows : jobs[j].status \in Active => Owned(j) \/ Outrun(j)

AboutToInsert(a) ==
    \E h \in Handlers : hs[h].app = a /\ hs[h].pc \in {"stamp", "insert"}

EverBuilt(a) == \E j \in JobIds : jobs[j].app = a

\* createBuild refuses an app whose directory exists and deletes a failed build
\* before it has stored the new one; rebuildApp and githubWebhook need a build
\* to inherit the source from, and refuse while the latest one is in progress.
\* So an app that was ever accepted, and any app on main, must keep a way to be
\* built: a request that is about to store a build, or a latest build that has
\* come to an end or will (with the exception of ActiveIsOwned).
BuiltIsRebuildable ==
    ~Faults => \A a \in Apps : main.tree[a] # None \/ EverBuilt(a) =>
                 \/ AboutToInsert(a)
                 \/ \E j \in rows : /\ IsLatest(j, a)
                                   /\ InProgress(j) => Owned(j) \/ Outrun(j)

OneActive(a) ==
    \A j, k \in AppRows(a) :
      jobs[j].status \in Active /\ jobs[k].status \in Active => j = k

\* "One build at a time per app. Two concurrent builds race to commit the same
\* manifests": what rebuildApp and githubWebhook say of their look at the
\* app's latest build.
OneActivePerApp == \A a \in Apps : OneActive(a)

\* What the look does guarantee, whatever fails or is lost: the one way to two
\* active builds of an app is two requests of which each looked before the
\* other stored its build.
OneActiveUnlessOverlapped == \A a \in Apps : Overlapped(a) \/ OneActive(a)

Built(a, t) ==
    \E j \in JobIds : jobs[j].app = a /\ runs[j].st = "done" /\ runs[j].tag = t

\* The manifests on main only ever name images that a run of the app has built
\* and reported, whatever requests share the clone, die in the middle of
\* CommitFiles or are told late.
OnlyBuiltIsDeployed == \A e \in main.seen : Built(e[1], e[2])

\* ClaimNextQueuedJob gives a job to one runner only: two of them would build
\* and deploy it twice.
ClaimedOnce == \A j \in rows : jobs[j].attempts <= 1

\* Every build comes to an end on its page (with the exception of
\* ActiveIsOwned): none sits queued forever.
Settles(j) ==
    j \in rows /\ jobs[j].status \in Active
      ~> j \notin rows \/ jobs[j].status \notin Active \/ Outrun(j)

EveryBuildSettles == \A j \in JobIds : Settles(j)

\* The last push to a source is built for every app built from it, if a job
\* can still be made and no build of the app fails.
PushIsBuilt(a, s) ==
    a \in AppsBuiltFrom(s) /\ head[s] = MaxCommits
      ~> \/ nextId > MaxJobs \/ a \notin AppsBuiltFrom(s)
         \/ \E j \in JobIds : /\ jobs[j].app = a
                              /\ \/ jobs[j].status = "failed"
                                 \/ runs[j].tag = <<s, MaxCommits>>

EveryPushIsBuilt == \A a \in Apps, s \in Srcs : PushIsBuilt(a, s)

-----------------------------------------------------------------------------
\* The status a reader of the API sees of each job, and what is promised of it.
JobState ==
    [j \in JobIds |-> IF j \in rows \/ jobs[j].rowid = 0 THEN jobs[j].status
                      ELSE "forgotten"]

Lifecycle == INSTANCE BuildLifecycle WITH state <- JobState

\* Without faults a settled build never changes, and no build but a failed one
\* is deleted, however requests, runs and their late reports interleave.
ImplementsLifecycle == Lifecycle!Spec
=============================================================================
