--------------------------- MODULE BuildInvariants ---------------------------
(***************************************************************************)
(* The inductive strengthening of BuildCoordinator's invariants.           *)
(***************************************************************************)
EXTENDS BuildCoordinator

CommitPCs == {"clone", "add", "commit", "push", "record", "gitops_failed"}
DispatchPCs == {"dispatch", "dispatch_failed"}
CreatingPCs == {"delete", "stamp", "insert"}

Stored(j) == jobs[j].rowid # 0

\* A stored row is complete, and whatever refers to a job refers to a stored
\* one.
RowsOK ==
    /\ \A j \in JobIds : Stored(j) => jobs[j].app \in Apps /\ jobs[j].src \in Srcs
    /\ \A j \in JobIds : ~Stored(j) => jobs[j].app = None
    /\ \A j \in rows : Stored(j)
    /\ \A j \in JobIds : runs[j].st # "none" => Stored(j)

HandlerOK(h) ==
    /\ hs[h].pc \in DispatchPCs \cup CommitPCs =>
         hs[h].job \in JobIds /\ Stored(hs[h].job)
    /\ hs[h].pc \in CommitPCs => hs[h].app = jobs[hs[h].job].app
    /\ hs[h].pc \in CreatingPCs => hs[h].app \in Apps /\ hs[h].src \in Srcs
    /\ hs[h].kind = "create" => hs[h].app \in Apps /\ hs[h].src \in Srcs
    /\ hs[h].pc = "delete" =>
         hs[h].job \in JobIds /\ jobs[hs[h].job].app = hs[h].app

HandlersOK == \A h \in Handlers : HandlerOK(h)

\* Job ids are used once.
FreshOK ==
    /\ \A j \in JobIds : Stored(j) => j < nextId
    /\ \A h \in Handlers : hs[h].pc = "insert" =>
         hs[h].job \in JobIds /\ hs[h].job < nextId /\ ~Stored(hs[h].job)
    /\ \A g, h \in Handlers :
         hs[g].pc = "insert" /\ hs[h].pc = "insert" /\ hs[g].job = hs[h].job
           => g = h

BaseInv == TypeOK /\ RowsOK /\ HandlersOK /\ FreshOK

-----------------------------------------------------------------------------
\* Nothing but a build's manifests puts an app on main or into the clone.
TreesOK ==
    \A a \in Apps :
      main.tree[a] # None \/ wd.head[a] # None \/ wd.index[a] # None
        => EverBuilt(a)

NeverForgotten ==
    ~Faults => \A a \in Apps : EverBuilt(a) => AppRows(a) # {} \/ AboutToInsert(a)

-----------------------------------------------------------------------------
\* Rowids are given in the order of the INSERTs, and a request looks the app's
\* builds up before it stores one.
LooksOK ==
    /\ \A j \in JobIds : Stored(j) => /\ jobs[j].looked <= jobs[j].rowid
                                      /\ jobs[j].rowid < nextRow
    /\ \A h \in Handlers : hs[h].pc \in CreatingPCs => hs[h].looked <= nextRow

\* Job ids are given between the look and the INSERT: where their order is not
\* that of the rowids, the smaller id's request had looked before.
OrderOK ==
    /\ \A j, k \in JobIds :
         Stored(j) /\ Stored(k) /\ j < k /\ jobs[k].rowid < jobs[j].rowid
           => jobs[j].looked <= jobs[k].rowid
    /\ \A h \in Handlers : hs[h].pc = "insert" =>
         \A k \in JobIds : Stored(k) /\ hs[h].job < k => hs[h].looked <= jobs[k].rowid

\* An active build is the app's latest, and a request that is about to store
\* another one had looked before it was stored.
ActiveOK(a) ==
    /\ \A j, k \in AppRows(a) : jobs[j].status \in Active => k <= j
    /\ \A h \in Handlers : hs[h].pc \in CreatingPCs /\ hs[h].app = a =>
         \A k \in AppRows(a) :
           jobs[k].status \in Active => hs[h].looked <= jobs[k].rowid

OverlapInv == LooksOK /\ OrderOK /\ \A a \in Apps : Overlapped(a) \/ ActiveOK(a)

-----------------------------------------------------------------------------
\* A build is dispatched or claimed once.
StartedOnce ==
    /\ \A h \in Handlers : hs[h].pc = "dispatch" =>
         /\ dispatching /\ runs[hs[h].job].st = "none"
         /\ \A g \in Handlers :
              hs[g].pc = "dispatch" /\ hs[g].job = hs[h].job => g = h
    /\ \A j \in JobIds :
         ~dispatching /\ jobs[j].status = "queued" => runs[j].st = "none"

\* Whoever says that a build succeeded names the commit its run has built.
SuccessOK ==
    /\ \A r \in reports : r.status = "succeeded" =>
         runs[r.job].st = "done" /\ runs[r.job].tag = r.tag
    /\ \A h \in Handlers : hs[h].pc \in CommitPCs =>
         runs[hs[h].job].st = "done" /\ runs[hs[h].job].tag = hs[h].tag

\* Whatever is staged, committed or pushed was built.
ManifestsBuilt ==
    /\ \A a \in Apps : \A tree \in {wd.index, wd.head, main.tree} :
         tree[a] # None => Built(a, tree[a])
    /\ \A e \in wd.seen \cup main.seen : Built(e[1], e[2])

DeployInv == StartedOnce /\ SuccessOK /\ ManifestsBuilt

-----------------------------------------------------------------------------
\* A queued row was never claimed.
ClaimsOK ==
    \A j \in JobIds :
      jobs[j].attempts <= 1 /\ (jobs[j].status = "queued" => jobs[j].attempts = 0)

-----------------------------------------------------------------------------
Dispatches(h, j) == hs[h].pc \in DispatchPCs /\ hs[h].job = j
Commits(h, j) == hs[h].pc \in CommitPCs /\ hs[h].job = j
Deletes(h, j) == hs[h].pc = "delete" /\ hs[h].job = j
Said(j, status) == \E r \in reports : r.job = j /\ r.status = status

\* A row has a status once it is stored, and is deleted only when it failed.
RowLife(j) ==
    /\ Stored(j) <=> jobs[j].status # "none"
    /\ Stored(j) /\ j \notin rows => jobs[j].status = "failed"
    /\ \A h \in Handlers : Deletes(h, j) => jobs[j].status = "failed"

\* A build is started once: by the one request that dispatches it or the one
\* runner that claims it, and nothing is said of it before.
StartLife(j) ==
    /\ \A h \in Handlers : Dispatches(h, j) =>
         /\ dispatching /\ jobs[j].status = "queued" /\ runs[j].st = "none"
         /\ \A g \in Handlers : Dispatches(g, j) => g = h
    /\ ~dispatching /\ jobs[j].status = "queued" => runs[j].st = "none"
    /\ runs[j].st \in {"pending", "cloned", "building"} => jobs[j].status \in Active
    /\ runs[j].st \in {"none", "pending", "cloned", "building"} => ~Said(j, "failed")

\* A run's success is told by one report, applied by one request, and nobody
\* says or has recorded anything else of the build.
EndLife(j) ==
    /\ runs[j].st # "done" => ~Said(j, "succeeded") /\ \A h \in Handlers : ~Commits(h, j)
    /\ runs[j].st = "failing" \/ Said(j, "failed") =>
         /\ jobs[j].status # "succeeded"
         /\ ~Said(j, "succeeded") /\ \A h \in Handlers : ~Commits(h, j)
    /\ \A h \in Handlers : Commits(h, j) =>
         /\ jobs[j].status \in Active /\ ~Said(j, "succeeded")
         /\ \A g \in Handlers : Commits(g, j) => g = h
    /\ Said(j, "succeeded") => jobs[j].status \in Active
    /\ \A q, r \in reports :
         /\ q.job = j /\ q.status = "succeeded" /\ r.job = j /\ r.status = "succeeded"
         => q = r

LifeInv == \A j \in JobIds : RowLife(j) /\ StartLife(j) /\ EndLife(j)
=============================================================================
