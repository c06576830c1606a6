# TinyCloud Platform: TLA+ models and proofs

This directory models the parts of the platform whose correctness depends on
orders nobody writes a test for: requests that interleave between their SQL
statements and git calls, a build that runs on another machine and reports back
over a network that loses posts, a process that stops between two steps, a cache
that refreshes behind its readers. TLC checks the models on small instances;
TLAPS proves the main results for every value of the constants.

## 1. The system

A person creates an app from a repository and a ref in the web UI. The API
(`cmd/api`) forwards that to the build coordinator (`cmd/build-coordinator`),
which stores a build job in SQLite and dispatches it to GitHub Actions
(`.github/workflows/build-app.yaml`). The run clones the source, builds and
pushes an image and posts status and logs to the coordinator's runner API. On
success the coordinator commits generated manifests to the GitOps repository;
Argo CD deploys what that repository's `main` holds. A push to an app's
repository reaches the coordinator as a webhook and rebuilds the app. The API
also shows the state of the infrastructure, read from Providers (Oracle Cloud
in process, Kubernetes and others over HTTP) through a cache.

| component | state it keeps | operations | talks to |
|---|---|---|---|
| build coordinator (`internal/build/coordinator/server.go`) | none of its own between requests | `createBuild`, `rebuildApp`, `pollRunner`, `updateRunnerStatus`, `appendRunnerLog`, reads | store, dispatcher, GitOps, runs |
| webhook (`webhook.go`) | none | `githubWebhook` | store, dispatcher |
| store (`store.go`) | `build_jobs`, `build_logs`; one connection | one statement or transaction per call | SQLite |
| dispatcher (`internal/build/dispatch`) | none | `Dispatch`: one POST | GitHub |
| executor (`build-app.yaml`) | one run per dispatch, one group per app, `cancel-in-progress` | clone, detect, build, report | runner API |
| GitOps client (`internal/git/gitops.go`) | one clone directory per process, shared by all requests | `Clone`, `PathExists`, `CommitFiles`, replicas, rollback records and branches | the GitOps remote |
| API, apps (`internal/api/handlers/apps.go`, `internal/k8s`) | none; changes Argo Applications and the GitOps repository | rollback, restore, suspend, sync | Kubernetes, GitOps |
| infrastructure cache (`internal/infra/cache.go`) | snapshot, its times, one refresh flag, last error | `Prime`, `Get`, the refresh goroutine | collector |
| collector (`internal/infra/collect.go`) | none | `Collect`: a fan-out with a timeout per call, `assemble` | sources |
| Provider client and composition (`internal/provider`) | cached discovery, slots chosen at start | discovery, reads, fallback | Provider servers |
| OCI log emitter (`internal/ocilog`) | bounded buffer | `Emit`, batches, `Close` | OCI Logging |
| web UI (`ui/`) | polled copies | polls builds, logs, infrastructure | API |

What is hard, and what makes each part correct:

- **Builds.** Every handler reads in one statement and writes in another. An
  accepted build must come to an end on its page; an app must have one build at
  a time; a build shown as deployed must be on `main`; an app that was accepted
  must stay buildable; a late or repeated report must not reopen a settled
  build; a push must build the source that was pushed, and the last push must
  be built.
- **GitOps.** All requests of a process share one directory that each of them
  removes and clones again, and other processes push to the same branch.
- **Cache.** One refresh at a time; Providers are polled once per TTL; a slow
  refresh must not overwrite a newer one; a failure must neither stop further
  refreshes nor hide its reason; what is not flagged stale must be recent.
- **Apps API.** Rollback and restore change Argo, a branch and a record, in
  three steps that may fail one by one and interleave with each other.
- **Provider composition.** A Provider that comes back, or gains a Capability,
  against slots that were chosen once.
- **Logs.** Sequence numbers taken in one statement and used in the next; a
  bounded buffer that drops; a drain that must run at shutdown.

`PROJECT.json` lists each hazard at its line with the properties that watch it,
and each component with what is and is not modelled.

## 2. Modules

| module | models | form |
|---|---|---|
| `GitOps` | remote `main` and the coordinator's shared clone | one operator per git call; instantiated by the coordinator |
| `BuildCoordinator` | store, handlers, webhook, dispatch, runs, runner API | one action per statement, git call or HTTP call |
| `BuildLifecycle` | what the API promises of one job | abstract; `BuildCoordinator` implements it |
| `BuildInvariants` | inductive strengthening | `BaseInv`, `TreesOK`, `NeverForgotten`, `OverlapInv`, `DeployInv`, `ClaimsOK`, `LifeInv` |
| `MCBuild` | TLC instances | symmetry, a bound on reports in flight |
| `RollbackRepo` | the GitOps remote as rollbacks use it: `main`, `rollbacks.yaml`, `rollback/<app>`, the API's shared clone | one operator per git call |
| `AppsApi` | rollback, restore and the reading requests of the API | one action per Kubernetes or git call |
| `AppPins` | where an app is pinned, and on whose word | abstract; `AppsApi` implements it |
| `MCApps` | TLC instance of `AppsApi` | symmetry, a bound on faults |
| `InfraCache` | snapshot cache and its refresh goroutine | times kept as ages |
| `InfraSnapshot` | `assemble` and its summaries, datapoint reduction | pure operators |
| `Collection`, `MCCollection` | one fan-out over Kubernetes and Oracle sources, the Substrate changing under it | one action per remote call |
| `ProviderClient` | slots, discovery cache, concurrent reads | one action per critical section or request |
| `ProviderContract`, `MCContract` | server, conformance suite and client of `/v0`, put together | one action per check of the suite |
| `OciLog` | event channel, worker, `Close`, end of the process | one action per `select` case |
| `BuildProofs`, `BuildOutcomeProofs` | theorems on the coordinator | section 5 |
| `AppsProofs`, `CacheProofs`, `ProviderProofs`, `OciLogProofs` | theorems on the API, the cache, the client, the log emitter | section 5 |
| `ContractProofs` | theorems on what passing the conformance suite is worth | section 5 |
| `CollectionProofs` | theorems on a collection and its reductions of what was read | section 5 |

### GitOps

A tree maps an app directory to one content, the image tag its generated
manifests carry, or to nothing. `main.tree` is the remote's head, `main.seen`
everything a commit on it ever held; `wd` is the clone: the tree of the local
branch, the index, what is committed and not pushed, and whether the remote has
moved (`current`). Clone, stat, write-and-add, commit and push are separate
because the requests of one process run them on one directory without a lock.
A push from a clone with nothing to push is `NoErrAlreadyUpToDate` in go-git,
which the code takes for success, so `Push` is enabled then, too. What other
processes push changes no app directory's existence; it only makes this clone
outdated.

### BuildCoordinator

`rows` and `jobs` are the table `build_jobs`: a row's fields stay in `jobs` when
a `DELETE` takes its id out of `rows`. The id stands for `created_at`; `rowid`
is the order of insertion. They differ because `CreateJob` reads the clock
before it waits for the store's one connection (`Stamp`, then `Insert`).
`commit_sha` and `image_tag` have one value; `deploy` says whether
`deploy_status` is `gitops_committed`; source fields are one value, a
normalized repository and ref.

A handler is a goroutine with a program counter:

    create   path_clone path_stat lookup [delete] stamp insert dispatch [dispatch_failed]
    rebuild                       lookup          stamp insert dispatch [dispatch_failed]
    push                         (lookup          stamp insert dispatch [dispatch_failed])*
    status   clone add commit push record | gitops_failed

Requests that are one statement (`RunnerRunning`, `RunnerFailed`, `PollRunner`)
are one action. `StartRun` includes the workflow's concurrency group: a new run
cancels the app's run in progress, and a cancelled run reports nothing because
`if: failure()` does not hold for it. `dispatching`, chosen at the start from
`Dispatchers`, says whether a dispatcher is configured; without one, runners
poll. The server answers a poll in both cases, but nothing polls where builds
are dispatched (`docs/history/build-infrastructure.md:28`), and the model takes
that over from the deployment: with pollers besides a dispatcher a job could be
built twice.

`looked` is history, which no code reads: the next rowid at the moment the
request had looked the app's builds up. `Overlapped(a)` holds once two stored
builds of `a` were each looked for before the other was stored, that is, when
the requests that made them ran at the same time; it never becomes false again.
`Outrun(j)` is a run cancelled by the concurrency group in such an app.

`Faults = TRUE` adds: a statement that fails or a process that dies between any
two steps (`Abandon`), an accepted dispatch or push whose answer is lost, lost
posts and webhooks, and runs that vanish. Refused dispatches, failing git calls,
rejected pushes and failing builds are always there: the code handles them.

### InfraCache

All the code asks of a time is how long ago it was, so each `time.Time` is an
age that `Tick` makes older and that saturates at `Cap`; the zero time is `Cap`.
`Get` and `Prime` are one action each (they hold the mutex); the refresh
goroutine builds the collector if there is none, starts every call, and applies
the result. Building has no deadline (`infra.NewSources` takes no context); a
call ends within `CallTimeout`. Bounds on the number of goroutines
(`Refreshers`) exceed what the code ever has, one: that is what is checked.

### RollbackRepo, AppsApi, AppPins

The API process has a clone directory of its own, again one for all requests.
Commits are numbers in the order they are made; a tree is its head, its history
and the records of `rollbacks.yaml` (status and active target; the history list
is left out). `branch` is the remote's `rollback/<app>`. `ForcePush` with no
local reference does nothing and succeeds, because the code takes
`NoErrAlreadyUpToDate` for success. `WriteRollbacks` needs the directory
`rollbacks/`, which the code does not make.

    rollback  check validate branch_clone branch_config branch_ref branch_push patch
              clone read write commit push
    restore   check patch clone read write commit push ff_ref ff_push

`check` drops the error of `GetAppTargetRevision`, as the code does, so with
faults a rollback of a pinned app may go on (`CheckFails`). `CreateBranch`
refuses an app whose branch section is in the clone's config, which needs two
requests in one clone. `PushHeads` is `repo.Push` with the default refspec,
`refs/heads/*`: local `main` and every `rollback/<app>` the clone happens to
have, all or, if one of them is no fast-forward, none. An error while recording
is printed and the reply is 200; `CallRefused` has these and the 500 of
`CreateBranch`. Suspending an app only clones and reads: yaml.v2 decodes the
nested `spec` of a Deployment to a map with interface keys, which
`patchDeploymentReplicas` does not recognise; it returns "deployment spec not
found" and nothing is written. It shares `ReadOnlyRequest` with the listing of
rollbacks. `Faults` lets any call fail, a handler die, and other clones push.

`target` is the Application's `targetRevision`. History, which no code reads:
`asked`, the commits accepted for an app since it last followed `main`;
`unrecorded`, the apps patched by a request that did not get to record it;
`alone`, whether any other request has run at the same time as this one; and
`mixed`, the apps a request of which overlapped another request, of any app or
a reading one. An app leaves `mixed` when one of its requests has run alone up
to its record: that request has then written the branch, the Application and the
record afresh. (If it is stopped after the patch, before the record, the app
stays in `mixed`.)

### InfraSnapshot, Collection

`InfraSnapshot` is the collector's data part: which of several datapoints and
series counts, backend counts rounded to integers (kept in halves so that rounding
shows), backups by stream, and `assemble`, in which everything a failed
read would have filled is `Null`. `Collection` runs the reads of one `Collect`
concurrently. The Kubernetes Provider reads usage and then capacity, Oracle
lists instances and then addresses, and walks the bucket page by page; between
any two of these steps the world may change (`WorldChanges`), and `past` keeps
the worlds there were. The pages of Oracle's `ListInstances` are one step: a list
put together from two moments is left out, and no property says that it is not.
Each call may fail or run into its deadline at any point, except that a failing
lookup of addresses is swallowed by `attachPrivateIPs`, as in the code.

### ProviderClient

`SlotFor` is the composition of `InfraSources`: a Provider that declared the
Capability, else the in-process fallback, else a Provider that could not be
asked, else a stub. It is decided once (`Build`). A call then goes through
`supports`: `Stale` is looked at in one critical section, discovery is asked
outside of it, its answer stored in a second one and read again in a third, so
that calls of one collection overlap in between. `known.at` is the age of
`knownAt`; `known.since` is how long ago the answer was given, which the code
does not know. Providers go down, come back, gain and lose Capabilities at any
time.

### ProviderContract

One Provider is put through the suite and then read by Core. It is the in-tree
server over any Provider (`ServeHTTP`, translated check by check, so the order
of 404, 401, 501, 405 and 400 is the code's), or somebody else's, which answers
as it likes and keeps to its answers (`said`). A body is told apart by what the
decoders make of it: the suite unmarshals the whole of it and wants the field,
the client decodes one value and takes an absent field for zero.

### OciLog

`Emit` sends without blocking or counts; the worker's `select` chooses among
the ready cases; `Close` closes `done` once and waits. `handed` is what went
into `PutLogs`, whatever came of it, because the worker does not look.
`Terminate` is a SIGTERM or `log.Fatalf`, which run no deferred call.

## 3. Runs

Passing:

| run | instance | shows |
|---|---|---|
| `live` | 2 handlers, 1 app, 2 jobs, dispatched, fair, no faults | `ActiveIsOwned`: no active build is without something that moves it on; `BuiltIsRebuildable`: an accepted app has a request about to store a build, or a latest build that has settled or will; `EveryBuildSettles`: every build ends; all three but for `Outrun`; `ImplementsLifecycle` |
| `faulty` | 2 handlers, 1 app, 2 jobs, dispatched or polled, faults | `OneActiveUnlessOverlapped`: the one way to two active builds of an app is two requests of which each looked before the other stored; `OnlyBuiltIsDeployed`: `main` never names an image no run of the app has built and reported; `ClaimedOnce`: a job goes to one runner |
| `cache` | 2 sources, 2 goroutines, TTL 2, staleAfter 3, timeout 4, fair | `PolledOncePerTTL`, `SnapshotNeverGoesBack`, `UnflaggedIsRecent`, `NotReadyIsExplained`, `Recovers` |
| `apps` | 2 apps, 2 handlers, 3 commits, faults or overlaps | `PinnedUnlessMixed`: an app none of whose requests overlapped another is at a commit it was asked to go to, whatever others do; `RecordAgrees`: the record is wrong at most about apps whose last change was not recorded or that are mixed; `ImplementsPins` |
| `ocilog` | buffer 2, batch 3, 2 closers, 7 events, fair | `Accounted`, `CloseFlushes`, `Shipped`, `CloseEnds` |
| `provider` | 1 Provider, 2 Capabilities, 1 with a fallback, TTL 1, timeout 1, fair | `DecidesOnRecentWord`, `FallbackKept`, `WiredIsNoticed` |
| `contract` | 3 Capabilities (metrics, a list, ingress), 1 further metric | `PassedIsReadable`: what passes the suite Core can read; `InTreeVerdict`; `NotSupportedIsNotBroken` |
| `collection` | 6 reads, 1 machine, pages of 1 object, 1 change of the world, 2 deployments | `GapsAreNamed`, `ShownWasMeasured`, `NewestIsShown`, `WalkIsComplete` |

Disagreements between the code and what it says of itself; TLC finds a
behaviour for each (PROJECT.json quotes the lines):

| run | what happens |
|---|---|
| `two_builds` | two rebuilds both see the settled latest build before either inserts, and the app has two active builds |
| `skipped_push` | a push during a build that has already cloned is never built |
| `unpinned` | another request's clone between `SetReference` and `Push` leaves nothing to push; the Application is pinned to a branch that is not there, or not where it was asked to be |
| `not_noticed` | a Capability that nobody served when the collector was built stays unserved, however long a Provider serves it |

What overlapping requests break, and what they do not. No handler holds a lock
across its steps, and the requests of a process share one clone, so what a
single request promises fails as soon as two overlap: `two_builds` and `unpinned`
are the runs. Two more statements of this kind are not properties here, because
they too hold for one request at a time only. A row that says
`gitops_committed` need not be on `main`: the second of two status posts removes
the first one's commit with its clone, and the first one's empty push counts as
success. A push may build another source than the one pushed: after two
concurrent creations the order of insertion (`ListAppRepos`) and of `created_at`
(`GetJobByAppName`) may differ. What is claimed instead is what two requests at
once leave standing, for all requests and with faults: the exact condition for
two active builds (`OneActiveUnlessOverlapped`), that mixed-up manifests are at
least built ones of the app (`OnlyBuiltIsDeployed`), and that pins and records
of one app are safe from requests of the others (`PinnedUnlessMixed`,
`RecordAgrees`).

`Outrun` is the exception of the three liveness-like properties of `live`, and
it is a real one. Two concurrent requests take ids 1 and 2; job 2 is dispatched
before job 1; the workflow's concurrency group then cancels run 2 for run 1.
A cancelled run reports nothing, so row 2, the app's latest, stays queued for
good, and from then on `createBuild`, `rebuildApp` and the webhook all refuse the
app. The properties say that this, with two requests that overlapped, is the
only way to such a row while nothing fails. Where the app's builds were not
created at the same time, a cancelled run's row cannot be active.

Why `live` has no faults: a stop between INSERT and dispatch, a dropped error of
`UpdateRunnerStatus`, or a lost report leaves a row queued for good, and a stop
between DELETE and INSERT forgets the app. `Faults = TRUE` shows that.

Also seen while modelling, without a run of its own. The UPDATE for a running
report leaves the `status` column alone, so a dispatched build is shown queued
until it settles. Suspending an app always fails (section 2), where
`apps.go:202` says that it scales the app to zero. And a collection during an
outage is a valid snapshot that replaces the last good one, unflagged
(`cache.go:161`: `Collect` returns no error), where `docs/providers.md:68-70` and
`cache.go:19-20` say that the last good snapshot stays on screen, flagged stale.
No property watches the last one: `GapsAreNamed` is about one collection, and
`InfraCache` has the times of snapshots, not their values.

### Bounds

Two handlers are enough for a race between a check and the act that follows it:
each conflict here is between one read and one write. The theorems on the
coordinator and on rollbacks hold for any number. Two jobs of one app give a
previous build and a new one, or two new ones; one commit of the source is
enough where nothing depends on which of them is built, and two in
`skipped_push` give a push after the build has cloned. `CanCreate` turns a
request away when `MaxJobs` could not hold its job, and counts the jobs that
requests under way will make, so that a bound is never met half-way through a
request. `faulty` has one report in flight at a time (`OneReportAtATime`, in
`MCBuild`): each is applied or lost before the next is posted, or stays and is
the only one. Late and reordered reports are in `live`, without that bound, and
in the theorems. Handlers are interchangeable in every property of `faulty`, which
are all invariants, so the symmetry set is sound; `live` has liveness and none.

In `apps` three commits are an old one, a rollback's record and a restore's, or
a push by somebody else in place of one; two apps share the file
`rollbacks.yaml`. `MCApps` bounds faults: once something has failed, requests
come one after the other, so TLC checks two overlapping requests without faults
and any faults with one request, and the theorems cover the combination. Apps
and handlers are interchangeable in its invariants and in the step property that
`ImplementsPins` is, so they form a symmetry set. In the cache
`TTL < staleAfter < timeout` lets a fan-out outlive both thresholds; in
`provider` two Capabilities are two concurrent rediscoveries of one client.
There and in the cache `Cap` exceeds every sum of
thresholds compared with an age. In `ocilog` seven events overfill the channel,
fill a batch and leave a rest, and a batch is larger than the channel, so that
it is filled only by emitters that go on. In `collection` pages of one object
put a change between any two of them; a source whose read is made is in the
instance if it has a code path of its own (the other metrics are read by the
code of `cpu-metrics` or `healthy-backends`).

### Deadlock

`live`, `faulty`, `cache` and `provider` check for deadlock:
requests, polls, time and outages can always occur, so none is expected and none
is found. `ocilog` stops when the process has ended, `contract` when Core has
read, `collection` when the snapshot is assembled, `apps` when `MaxCommits`
leaves a handler nothing to commit; these say `CHECK_DEADLOCK FALSE`.

### Fairness

`BuildCoordinator`: a started goroutine goes on (WF of its steps); started runs
go on, posts that are not lost arrive and polling runners poll (each of these
happens finitely often, so one WF serves); a post or webhook is taken if a
handler is free again and again (SF), because the server starts goroutines
without bound and only the model waits for a free one. Nothing is assumed of
users, pushes, other processes or faults.

`InfraCache`: `main` primes, the dashboard polls (`ui/src/hooks/useInfra.ts`),
time passes, a started refresh goes on; a collector that can be built again and
again is built in the end, and a Provider that stays reachable answers some of
its calls (SF). The two SF conditions are about the world, and `Recovers` says
that the cache adds no way of its own to stay dark.

`ProviderClient`: the cache keeps collecting and a call ends (WF; it has a
deadline), and a request repeated to a Provider that is up is answered some time
(SF, about the world again).

`OciLog`: the worker goes on and `PutLogs` returns, at its timeout if not before
(WF); Go's `select` chooses among ready cases at random, so the ticker and
`done` are not passed over for ever (SF). Nothing is assumed of emitters,
callers of `Close`, or the process staying alive.

## 4. Abstract specifications

`BuildLifecycle` is what the UI relies on when it polls a build until it reads a
terminal status and then stops: queued once, perhaps running, settled once,
never changed after that; only a failed build is forgotten. The mapping reads a
job's `status`, and "forgotten" for a row that was deleted. It is implemented
without faults (`BuildsImplementLifecycle`, proved for any number of concurrent
requests). With faults it is not: a dispatch whose answer is lost is
recorded as failed, and its run later reports success.

`AppPins` is what rollback and restore promise: somebody asks for a commit, the
app is pinned to one that was asked for, and it is released. The mapping reads
the remote branch while the Application follows it (`PinOf`). Of an app that is
`mixed` nothing is known (`Lose`), and when a request of it has run alone it is
found again (`Find`), pinned to a commit it was asked to go to or following
`main`. It is implemented with any number of requests and all faults: a restore
patches the Application before it moves the branch, and a rollback moves the
branch before it patches, so neither order ever shows a commit nobody asked for.

## 5. Proofs

All theorems hold for any sets of apps, sources, handlers, goroutines and
Capabilities and any bounds that satisfy `ConstantsOK`, `CacheConstants`,
`ApiConstants`, `ClientConstants`, `LogConstants`, `ContractConstants` or
`CollectionConstants`. Each proof has one step per action of its specification.

- `BaseInvariant`, `TypeCorrect` (`BuildProofs`). `TypeOK` is not inductive:
  `RunClone` takes the head of the row's source, which must be a source, so runs
  must belong to stored rows (`RowsOK`); `Insert` must not overwrite a row, so
  ids must be fresh (`FreshOK`); both need what a handler knows at each program
  counter (`HandlersOK`). `BaseFrame` proves the three for all actions that leave
  the identity of rows alone; `Stamp` and `Insert` have proofs of their own.
- `TwoBuildsOverlap` (`BuildProofs`): `OneActiveUnlessOverlapped`, for any number
  of concurrent requests, with all faults. `OverlapInv` keeps, for each app whose
  builds did not overlap, that an active build is the latest one, and that a
  request about to store another had looked before that one was stored
  (`ActiveOK`); and that where the order of ids is not that of the rowids, the
  smaller id's request had looked before (`OrderOK`). The case that matters is
  `Insert` (`InsertOverlap`): if there is an active build, the request that
  stores the new one looked before it was stored, or saw it; if that build's
  request looked before the new one was stored, as it must have, they overlap.
- `NoBuildLeftBehind` (`BuildOutcomeProofs`): `ActiveIsOwned`. The interesting
  cases are the handovers: insert to dispatch, dispatch to run, run to report,
  report to the row; and the dispatch that cancels another run of the app. That
  run's row is active and the dispatched one is too, so by `OverlapInv` the two
  overlapped: this is where `Outrun` comes from and why it needs no more. The
  proof also needs that a request or run is the only one for its job (`LifeInv`).
- `AppsStayBuildable` (`BuildOutcomeProofs`): `BuiltIsRebuildable` for any number
  of concurrent requests. Nothing but a build's manifests puts an app directory
  into the clone or on `main` (`TreesOK`), so an app on `main` was built; an
  app that was built has a row, or a request between its DELETE and its INSERT
  (`NeverForgotten`); and its latest row, if active, is owned or outrun. Faults
  are excluded: a stop between the two statements does forget the app.
- `MainNamesBuiltImages` (`BuildOutcomeProofs`): `OnlyBuiltIsDeployed` for any
  number of concurrent requests and all faults. A build is started once
  (`StartedOnce`), so a run that is done stays done with its commit; whoever says
  that a build succeeded names that commit (`SuccessOK`); so whatever any
  request stages, commits or pushes, in whosever clone, was built
  (`ManifestsBuilt`).
- `ClaimsAreOnce` (`BuildProofs`): `ClaimedOnce` for any number of
  concurrent polls. It follows from `ClaimsOK`: a queued row has no attempt
  yet, and nothing makes a row queued again.
- `RowsAndRunsAgree`, `BuildsImplementLifecycle` (`BuildOutcomeProofs`): without
  faults the coordinator implements `BuildLifecycle`, for any number of
  concurrent requests. `UpdateJobStatus` and `DeleteJob` overwrite and delete
  whatever the row says, so nothing at the row itself keeps a settled build
  settled: `LifeInv` does. A row is deleted only by a request that read it as
  failed, and stays failed (`RowLife`); a build is started by one request or one
  runner, and nothing is said of it before (`StartLife`); a run's success is told
  by one report that one request applies, and then nobody says anything else
  (`EndLife`). With faults it does not hold: a dispatch whose answer is lost is
  recorded as failed while its run goes on, which breaks `StartLife`.
- `CacheInvariant` (`CacheProofs`): `CacheInv` adds to the types that the flag
  says whether there is a refresh and there is one at most (`OneRefresh`), and
  how the ages relate (`PollsInOrder`): a goroutine that has not called yet was
  started because the snapshot was expired; while it calls, its age is that of
  the latest poll, is within the timeout, and its collection began no earlier
  than the snapshot's; a snapshot is at most one timeout older than the end of
  its fan-out.
- From it `UnflaggedSnapshotIsRecent`, `NotReadyHasAReason`,
  `ProvidersPolledOncePerTTL` and `SnapshotsMoveForward`. The third is not
  obvious from `startRefreshLocked`: the attempt is stamped before the collector
  is built, so the TTL between attempts does not separate the fan-outs. The age
  of the snapshot does: a fan-out starts only if the last one ended a TTL ago.
- `CacheTypeCorrect` (`CacheProofs`) is the type part of `CacheInv`.
- `AppsTypeCorrect`, `PinnedWhereAsked`, `RecordsAreTrue` and
  `HandlersImplementPins` (`AppsProofs`), for any number of concurrent requests
  and all faults. `AppsInv` has two halves. A request that nobody has overlapped
  is the only one (`Sole`), and finds in the clone and in the cluster what it put
  there (`Handled`): on the way to the branch push the local reference is at the
  commit asked for, and at the patch the branch is (`Branching`); once patched,
  the Application stays so until the request is over (`Patched`); what is
  staged and committed is its record (`Writing`). And about an app that no
  request is for and that is not mixed, a clone from which anybody pushes, and
  what anybody has read of the file, say what `main` says (`Resting`), however
  many requests of other apps write to them in turn. So a push of such a clone
  changes nothing for that app. The refinement theorem maps each action to
  `Ask`, `Pin`, `Unpin`, `Lose`, `Find` or a stutter.
- `ClientTypeCorrect`, `WordIsRecent` and `FallbackIsKept` (`ProviderProofs`).
  `ClientInv` orders the ages: an answer was given at most one call's time before
  it was stored (`KnownInOrder`), and what a call goes by is within the TTL and
  one call's time when it decides, and one more when it reads (`CallInOrder`).
  That `First` picks a Provider rests on the library's least-element theorem.
- `MemoryIsCapped`, `NothingVanishes` and `CloseHasFlushed` (`OciLogProofs`).
  `LogInv` adds (`ClosedInOrder`) that a worker past its last flush has handed
  over at least what was accepted at `Close`: it leaves the drain only when it
  finds the channel empty with `done` closed, whatever came in since.

- `ContractTypes`, `PassingProvidersAreReadable`, `InTreeVerdictIsRight` and
  `FaultsAreTold` (`ContractProofs`), for any part of the Capabilities in any
  order, any metrics, and a Provider of somebody else with any answers.
  `ContractInv` says that the outcome of a check is the verdict on an answer the
  Provider gives again (`ResultsOK`), that a metrics check that passed has
  settled every metric's answer (`MetricsOK`), how far the suite got with the
  in-tree server and what it learned (`InTreeOK`), and that Core reads only when
  every Capability has its result (`OrderOK`). The lemmas then compare the two
  readers of one answer: what `checkBody` accepts, `decode` makes a value of.
- `CollectionInvariant` (`CollectionProofs`) and from it `CollectionTypes`,
  `GapsAreExplained`, `ShownIsMeasured`, `NewestDatapointIsShown` and
  `TheWalkIsComplete`, for any machines, objects, page size and answers and any
  number of changes of the Substrate. `CollInv` ties what each read has so far to
  where it came from: a usage to one world there has been, a utilisation to two
  (`MetricOK`), the machines to one (`InstancesOK`), the objects listed to the
  part of the bucket whose keys the walk has passed (`BackupsOK`: each listed
  once, each was there at some time, none is missing that was there all along).
  A step of one call leaves all that is known of the others
  (`ReadStepKeeps`), and a change of the world only adds to the worlds there
  have been (`MetricStays`, `InstancesStay`, `WalkStays`), so each action's
  lemma looks at its own read only (`ReadKeeps`). `PageIsPage` is what the walk
  needs of a page: its keys are below the key to go on from, and none between is
  left out. The assumptions in `CollectionConstants` are the types of what the
  APIs return: finite sets, names that are not empty, one object per key.

  What the reductions compute is proved for answers of any length.
  `newestDatapoint`, `OciSeries` and `latestByDimension` are folds; a fold's
  value is a `CHOOSE` of a recursive function, so first there must be one
  (`FoldDefined`, `FoldLeftDefined`), then it is what adding one element after
  the other gives (`FoldOnPrefixes`), and then an invariant of that loop is
  shown for every prefix (`NewestFound`, `LatestFound`, `AllSeriesFound`). The
  induction is over the set of the numbers for which the claim holds
  (`OnNaturals`, `OnSubsets`), from the library's least-element theorem, because
  the library's induction rules take an operator, which the provers here cannot
  instantiate.

About the prover: the SMT encoding of tlapm 1.4.5 takes `Len(s) = n` and
`DOMAIN s = 1..n` to be equivalent for every value `s`, also for functions whose
domain is no such interval. A proof that has both sequences and functions over
`0..n` could rest on that. All proofs were also checked with the axiom replaced
by its sound half (such a domain determines the length), so none of them does.

Only model-checked: `EveryBuildSettles`, `Recovers`, `WiredIsNoticed`, `Shipped`
and `CloseEnds`: liveness under fairness is out of the prover's reach, and so is
ENABLED. Every other property of a passing run is a theorem. The sum of the
object sizes (`size` in `summariseBackups`) has no theorem beyond its being shown
as both `size` and `storageUsed`.

## 6. Not modelled

- Payloads: manifest text, log lines, error wording. A tag, a source, a reading
  is one value of a small set.
- Signature checks, tokens of the API and request validation: a request here
  has passed them.
- Vendor SDK calls, rendering, OpenAPI, routing, the API's read-only views and
  the build client: stateless, each one a single call or a conversion.
- The manifest generator: text from templates, no state.
- `TriggerSync`, and when the UI shows a build as deployed: what Argo CD does with
  a revision or with `main` is outside the repository.
- `build_logs` (sequence numbers and the reader's cursor) and the text order of
  `created_at` within a second: listed as hazards, planned.
- The web UI, but for what it relies on (`BuildLifecycle`, the polling that
  `InfraCache`'s fairness assumes).

## 7. Plan

1. `BuildLogs`: sequence numbers taken in one statement and used in the next, the
   reader's `after=` cursor, `DeleteJob`'s two statements.
2. `JobTimestamps`: RFC3339Nano text against time order, the clamps of
   `ListJobs`.
3. Composition: `BuildCoordinator` and `AppsApi` as two processes on one remote,
   in place of their foreign pushes.
4. Proofs: the safety part of the liveness properties (what is enabled when, and
   what each fair step brings nearer), and what changes with faults:
   which parts of `LifeInv` still hold when answers are lost.
