---------------------------- MODULE BuildProofs -----------------------------
(***************************************************************************)
(* Theorems about BuildCoordinator, for every number of apps, sources,     *)
(* concurrent requests, jobs and commits, with and without faults: the base*)
(* invariant, that a job is claimed once, and when an app has two builds.  *)
(***************************************************************************)
EXTENDS BuildInvariants, TLAPS

LEMMA InitBase == Init => BaseInv
  <1> SUFFICES ASSUME Init PROVE BaseInv
    OBVIOUS
  <1> USE ConstantsOK DEF Init, JobIds
  <1>1. TypeOK
    <2>1. jobs \in [JobIds -> Rows]
      BY DEF NoRow, Rows, maxAttempts
    <2>2. hs \in [Handlers -> HandlerStates]
      BY DEF Idle, HandlerStates
    <2>3. runs \in [JobIds -> RunStates]
      BY DEF RunStates
    <2>4. GitTypeOK
      BY DEF GitInit, GitTypeOK, Remotes, WorkDirs, Trees, EmptyTree
    <2> QED BY <2>1, <2>2, <2>3, <2>4 DEF TypeOK
  <1>2. RowsOK
    BY DEF RowsOK, Stored, NoRow
  <1>3. HandlersOK
    BY DEF HandlersOK, HandlerOK, Idle, CommitPCs, DispatchPCs, CreatingPCs
  <1>4. FreshOK
    BY DEF FreshOK, Stored, NoRow, Idle
  <1> QED BY <1>1, <1>2, <1>3, <1>4 DEF BaseInv

-----------------------------------------------------------------------------
(* What the building blocks of the actions do to types                     *)

LEMMA GotoEffect ==
    ASSUME TypeOK, NEW h \in Handlers, NEW pc \in PCs \cup {"idle"}, Goto(h, pc)
    PROVE  /\ hs' \in [Handlers -> HandlerStates]
           /\ hs'[h] = [hs[h] EXCEPT !.pc = pc]
           /\ \A g \in Handlers \ {h} : hs'[g] = hs[g]
  BY DEF TypeOK, Goto, HandlerStates

LEMMA IdleType == Idle \in HandlerStates
  BY ConstantsOK DEF Idle, HandlerStates

LEMMA SetHandler ==
    ASSUME TypeOK, NEW h \in Handlers, NEW r \in HandlerStates,
           hs' = [hs EXCEPT ![h] = r]
    PROVE  /\ hs' \in [Handlers -> HandlerStates]
           /\ hs'[h] = r
           /\ \A g \in Handlers \ {h} : hs'[g] = hs[g]
  BY DEF TypeOK

LEMMA FinishEffect ==
    ASSUME TypeOK, NEW h \in Handlers, Finish(h)
    PROVE  /\ hs' \in [Handlers -> HandlerStates]
           /\ \/ hs'[h] = Idle
              \/ hs[h].kind = "push" /\ hs'[h] = [hs[h] EXCEPT !.pc = "lookup"]
           /\ \A g \in Handlers \ {h} : hs'[g] = hs[g]
  <1> DEFINE r == IF hs[h].kind = "push" /\ hs[h].todo # {}
                  THEN [hs[h] EXCEPT !.pc = "lookup"] ELSE Idle
  <1>1. r \in HandlerStates
    BY IdleType DEF TypeOK, HandlerStates, PCs
  <1>2. hs' = [hs EXCEPT ![h] = r]
    BY DEF Finish
  <1>3. r = Idle \/ (hs[h].kind = "push" /\ r = [hs[h] EXCEPT !.pc = "lookup"])
    OBVIOUS
  <1> HIDE DEF r
  <1> QED BY <1>1, <1>2, <1>3, SetHandler

LEMMA UpdateEffect ==
    ASSUME TypeOK, NEW j \in JobIds, NEW row \in Rows, Update(j, row)
    PROVE  /\ jobs' \in [JobIds -> Rows]
           /\ \A k \in JobIds \ {j} : jobs'[k] = jobs[k]
           /\ jobs'[j] = IF j \in rows THEN row ELSE jobs[j]
  BY DEF TypeOK, Update

LEMMA SetFailedEffect ==
    ASSUME TypeOK, NEW j \in JobIds, SetFailed(j)
    PROVE  /\ jobs' \in [JobIds -> Rows]
           /\ \A k \in JobIds \ {j} : jobs'[k] = jobs[k]
           /\ jobs'[j] = IF j \in rows THEN [jobs[j] EXCEPT !.status = "failed"]
                         ELSE jobs[j]
  <1>1. [jobs[j] EXCEPT !.status = "failed"] \in Rows
    BY DEF TypeOK, Rows, Statuses, Active
  <1> QED BY <1>1, UpdateEffect DEF SetFailed

LEMMA GitTypes ==
    ASSUME GitTypeOK, NEW a \in Apps \cup {None}, NEW t \in Tags \cup {None},
           Clone \/ WriteAndAdd(a, t) \/ Commit \/ Push \/ PushRejected
             \/ ForeignPush \/ UNCHANGED gitVars
    PROVE  GitTypeOK'
  <1> USE DEF GitTypeOK, Remotes, WorkDirs, Trees
  <1>1. CASE Clone
    BY <1>1 DEF Clone
  <1>2. CASE WriteAndAdd(a, t)
    BY <1>2 DEF WriteAndAdd
  <1>3. CASE Commit
    <2> DEFINE new == {<<p, wd.index[p]>> : p \in {q \in Apps : wd.index[q] # None}}
    <2>1. new \subseteq Apps \X Tags
      OBVIOUS
    <2>2. /\ wd' = [wd EXCEPT !.head = wd.index, !.seen = @ \cup new]
          /\ main' = main
      BY <1>3 DEF Commit
    <2> HIDE DEF new
    <2> QED BY <2>1, <2>2
  <1>4. CASE Push
    BY <1>4 DEF Push
  <1>5. CASE PushRejected \/ UNCHANGED gitVars
    BY <1>5 DEF PushRejected, gitVars
  <1>6. CASE ForeignPush
    BY <1>6 DEF ForeignPush
  <1> QED BY <1>1, <1>2, <1>3, <1>4, <1>5, <1>6

LEMMA StartRunEffect ==
    ASSUME TypeOK, NEW j \in JobIds, StartRun(j)
    PROVE  /\ runs' \in [JobIds -> RunStates]
           /\ runs'[j].st = "pending"
           /\ \A k \in JobIds \ {j} :
                \/ runs'[k] = runs[k]
                \/ /\ jobs[k].app = jobs[j].app
                   /\ runs[k].st \in LiveRun
                   /\ runs'[k] = [runs[k] EXCEPT !.st = "cancelled"]
  BY DEF TypeOK, StartRun, RunStates, LiveRun

-----------------------------------------------------------------------------
(* The base invariant                                                      *)

LEMMA FinishOK ==
    ASSUME TypeOK, NEW h \in Handlers, Finish(h)
    PROVE  HandlerOK(h)' /\ hs'[h].pc # "insert"
  <1>1. hs[h] \in HandlerStates
    BY DEF TypeOK
  <1>2. hs'[h].pc \in {"idle", "lookup"} /\ hs'[h].kind \in {"none", "push"}
    <2>1. CASE hs'[h] = Idle
      BY <2>1 DEF Idle
    <2>2. CASE hs[h].kind = "push" /\ hs'[h] = [hs[h] EXCEPT !.pc = "lookup"]
      BY <1>1, <2>2 DEF HandlerStates
    <2> QED BY <2>1, <2>2, FinishEffect
  <1> QED BY <1>2 DEF HandlerOK, CommitPCs, DispatchPCs, CreatingPCs

\* Every action but Stamp and Insert leaves the identity of rows alone, starts
\* runs only for stored jobs and moves handlers to where they are well formed.
LEMMA BaseFrame ==
    ASSUME BaseInv, TypeOK',
           \A j \in JobIds : /\ jobs'[j].app = jobs[j].app
                             /\ jobs'[j].src = jobs[j].src
                             /\ jobs'[j].rowid = jobs[j].rowid,
           rows' \subseteq rows, nextId' = nextId,
           \A j \in JobIds : runs'[j].st # "none" => Stored(j),
           \A g \in Handlers : hs'[g] = hs[g]
                                 \/ (HandlerOK(g)' /\ hs'[g].pc # "insert")
    PROVE  BaseInv'
  <1>1. RowsOK'
    BY DEF BaseInv, RowsOK, Stored, TypeOK
  <1>2. HandlersOK'
    <2> SUFFICES ASSUME NEW g \in Handlers, hs'[g] = hs[g] PROVE HandlerOK(g)'
      BY DEF HandlersOK
    <2> QED BY DEF BaseInv, HandlersOK, HandlerOK, Stored
  <1>3. FreshOK'
    BY DEF BaseInv, FreshOK, Stored
  <1> QED BY <1>1, <1>2, <1>3 DEF BaseInv

\* The actions that change no more than the handler they are steps of, and the
\* clone.
LEMMA HandlerOnly ==
    ASSUME BaseInv, NEW h \in Handlers,
           hs' \in [Handlers -> HandlerStates],
           \A g \in Handlers \ {h} : hs'[g] = hs[g],
           HandlerOK(h)', hs'[h].pc # "insert",
           GitTypeOK', UNCHANGED <<storeVars, runVars>>,
           pushes' \subseteq Srcs, reports' \subseteq Reports
    PROVE  BaseInv'
  <1>1. TypeOK'
    BY DEF BaseInv, TypeOK, storeVars, runVars
  <1> QED BY <1>1, BaseFrame DEF BaseInv, RowsOK, storeVars, runVars

LEMMA RequestBase ==
    ASSUME BaseInv, NEW h \in Handlers,
           CreateBuild(h) \/ RebuildApp(h) \/ GithubWebhook(h) \/ RunnerSucceeded(h)
    PROVE  BaseInv'
  <1> USE DEF BaseInv
  <1>1. CASE CreateBuild(h)
    <2>1. PICK a \in Apps, s \in Srcs :
            hs' = [hs EXCEPT ![h] = [Idle EXCEPT !.pc = "path_clone",
                      !.kind = "create", !.app = a, !.src = s]]
      BY <1>1 DEF CreateBuild
    <2> DEFINE r == [Idle EXCEPT !.pc = "path_clone", !.kind = "create",
                                 !.app = a, !.src = s]
    <2>2. /\ r \in HandlerStates /\ r.pc = "path_clone"
          /\ r.kind = "create" /\ r.app = a /\ r.src = s
      BY IdleType DEF HandlerStates, PCs, Kinds
    <2> HIDE DEF r
    <2>3. /\ hs' \in [Handlers -> HandlerStates] /\ hs'[h] = r
          /\ \A g \in Handlers \ {h} : hs'[g] = hs[g]
      BY <2>1, <2>2, SetHandler DEF r
    <2>4. HandlerOK(h)'
      BY <2>2, <2>3 DEF HandlerOK, CommitPCs, DispatchPCs, CreatingPCs
    <2> QED BY <1>1, <2>2, <2>3, <2>4, HandlerOnly
            DEF CreateBuild, netVars, gitVars, TypeOK, GitTypeOK
  <1>2. CASE RebuildApp(h)
    <2>1. PICK a \in Apps :
            hs' = [hs EXCEPT ![h] = [Idle EXCEPT !.pc = "lookup",
                      !.kind = "rebuild", !.app = a]]
      BY <1>2 DEF RebuildApp
    <2> DEFINE r == [Idle EXCEPT !.pc = "lookup", !.kind = "rebuild", !.app = a]
    <2>2. r \in HandlerStates /\ r.pc = "lookup" /\ r.kind = "rebuild"
      BY IdleType DEF HandlerStates, PCs, Kinds
    <2> HIDE DEF r
    <2>3. /\ hs' \in [Handlers -> HandlerStates] /\ hs'[h] = r
          /\ \A g \in Handlers \ {h} : hs'[g] = hs[g]
      BY <2>1, <2>2, SetHandler DEF r
    <2>4. HandlerOK(h)'
      BY <2>2, <2>3 DEF HandlerOK, CommitPCs, DispatchPCs, CreatingPCs
    <2> QED BY <1>2, <2>2, <2>3, <2>4, HandlerOnly
            DEF RebuildApp, netVars, gitVars, TypeOK, GitTypeOK
  <1>3. CASE GithubWebhook(h)
    <2>1. PICK s \in pushes :
            /\ pushes' = pushes \ {s}
            /\ hs' = IF AppsBuiltFrom(s) = {} THEN hs
                     ELSE [hs EXCEPT ![h] = [Idle EXCEPT !.pc = "lookup",
                             !.kind = "push", !.push = s,
                             !.todo = AppsBuiltFrom(s)]]
      BY <1>3 DEF GithubWebhook
    <2> DEFINE r == [Idle EXCEPT !.pc = "lookup", !.kind = "push", !.push = s,
                                 !.todo = AppsBuiltFrom(s)]
    <2>2. r \in HandlerStates /\ r.pc = "lookup" /\ r.kind = "push"
      <3>1. AppsBuiltFrom(s) \in SUBSET Apps /\ s \in Srcs
        BY DEF AppsBuiltFrom, TypeOK
      <3> QED BY <3>1, IdleType DEF HandlerStates, PCs, Kinds
    <2>3. hs' = hs \/ hs' = [hs EXCEPT ![h] = r]
      BY <2>1
    <2>4. /\ hs[h].pc = "idle" /\ pushes' \subseteq Srcs /\ reports' = reports
          /\ UNCHANGED <<storeVars, gitVars, runVars>>
      BY <1>3, <2>1 DEF GithubWebhook, TypeOK
    <2> HIDE DEF r
    <2>5. CASE hs' = hs
      BY <2>4, <2>5, HandlerOnly
         DEF HandlersOK, HandlerOK, Stored, storeVars, gitVars, TypeOK, GitTypeOK
    <2>6. CASE hs' = [hs EXCEPT ![h] = r]
      <3>1. /\ hs' \in [Handlers -> HandlerStates] /\ hs'[h] = r
            /\ \A g \in Handlers \ {h} : hs'[g] = hs[g]
        BY <2>2, <2>6, SetHandler
      <3>2. HandlerOK(h)'
        BY <2>2, <3>1 DEF HandlerOK, CommitPCs, DispatchPCs, CreatingPCs
      <3> QED BY <2>2, <2>4, <3>1, <3>2, HandlerOnly
              DEF gitVars, TypeOK, GitTypeOK
    <2> QED BY <2>3, <2>5, <2>6
  <1>4. CASE RunnerSucceeded(h)
    <2>1. PICK r \in reports :
            /\ reports' = reports \ {r}
            /\ hs' = IF r.job \notin rows THEN hs
                     ELSE [hs EXCEPT ![h] = [Idle EXCEPT !.pc = "clone",
                             !.kind = "status", !.job = r.job, !.tag = r.tag,
                             !.app = jobs[r.job].app]]
      BY <1>4 DEF RunnerSucceeded
    <2> DEFINE n == [Idle EXCEPT !.pc = "clone", !.kind = "status",
                       !.job = r.job, !.tag = r.tag, !.app = jobs[r.job].app]
    <2>2. /\ hs[h].pc = "idle" /\ pushes' = pushes /\ reports' \subseteq Reports
          /\ UNCHANGED <<storeVars, gitVars, runVars>>
      BY <1>4, <2>1 DEF RunnerSucceeded, TypeOK
    <2>3. CASE hs' = hs
      BY <2>2, <2>3, HandlerOnly
         DEF HandlersOK, HandlerOK, Stored, storeVars, gitVars, TypeOK, GitTypeOK
    <2>4. CASE r.job \in rows /\ hs' = [hs EXCEPT ![h] = n]
      <3>1. r \in Reports /\ r.job \in JobIds /\ jobs[r.job] \in Rows
        BY DEF TypeOK, Reports
      <3>2. r.tag \in Tags \cup {None} /\ jobs[r.job].app \in Apps \cup {None}
        BY <3>1 DEF Reports, Rows
      <3>0. r.job \in 0..MaxJobs
        BY <3>1, ConstantsOK DEF JobIds
      <3>3. /\ n \in HandlerStates /\ n.pc = "clone" /\ n.kind = "status"
            /\ n.job = r.job /\ n.app = jobs[r.job].app
        BY <3>0, <3>2, IdleType DEF HandlerStates, PCs, Kinds
      <3> HIDE DEF n
      <3>4. /\ hs' \in [Handlers -> HandlerStates] /\ hs'[h] = n
            /\ \A g \in Handlers \ {h} : hs'[g] = hs[g]
        BY <2>4, <3>3, SetHandler
      <3>5. jobs' = jobs /\ Stored(r.job) /\ Stored(r.job)'
        BY <2>2, <2>4 DEF RowsOK, Stored, storeVars
      <3>6. HandlerOK(h)'
        BY <3>1, <3>3, <3>4, <3>5
           DEF HandlerOK, CommitPCs, DispatchPCs, CreatingPCs, Stored
      <3> QED BY <2>2, <3>3, <3>4, <3>6, HandlerOnly
              DEF gitVars, TypeOK, GitTypeOK
    <2> QED BY <2>1, <2>3, <2>4
  <1> QED BY <1>1, <1>2, <1>3, <1>4

LEMMA GotoOK ==
    ASSUME TypeOK, HandlersOK, NEW h \in Handlers,
           NEW pc \in PCs \ {"delete", "insert"}, Goto(h, pc), UNCHANGED jobs,
           pc = "stamp" => hs[h].kind = "create" \/ hs[h].pc \in CreatingPCs,
           pc \in DispatchPCs => hs[h].pc \in DispatchPCs,
           pc \in CommitPCs => hs[h].pc \in CommitPCs
    PROVE  HandlerOK(h)' /\ hs'[h].pc # "insert"
  <1>1. hs[h] \in HandlerStates
    BY DEF TypeOK
  <1>2. /\ hs'[h].pc = pc /\ hs'[h].kind = hs[h].kind /\ hs'[h].app = hs[h].app
        /\ hs'[h].src = hs[h].src /\ hs'[h].job = hs[h].job
    <2>1. pc \in PCs \cup {"idle"}
      OBVIOUS
    <2>2. hs'[h] = [hs[h] EXCEPT !.pc = pc]
      BY <2>1, GotoEffect
    <2> QED BY <1>1, <2>2 DEF HandlerStates
  <1>3. HandlerOK(h)
    BY DEF HandlersOK
  <1> QED BY <1>2, <1>3
          DEF HandlerOK, CommitPCs, DispatchPCs, CreatingPCs, Stored

LEMMA CreateBase ==
    ASSUME BaseInv, NEW h \in Handlers,
           PathClone(h) \/ PathStat(h) \/ CreateLookup(h) \/ RebuildLookup(h)
    PROVE  BaseInv'
  <1> USE DEF BaseInv
  <1>0. None \in Apps \cup {None} /\ None \in Tags \cup {None}
    OBVIOUS
  <1>1. CASE PathClone(h)
    <2>1. CASE Clone /\ Goto(h, "path_stat")
      <3>1. HandlerOK(h)' /\ hs'[h].pc # "insert"
        BY <1>1, <2>1, GotoOK
           DEF PathClone, PCs, storeVars, DispatchPCs, CommitPCs
      <3>2. GitTypeOK'
        BY <1>0, <2>1, GitTypes DEF TypeOK
      <3> QED BY <1>1, <2>1, <3>1, <3>2, GotoEffect, HandlerOnly
              DEF PathClone, PCs, netVars, TypeOK
    <2>2. CASE UNCHANGED gitVars /\ Finish(h)
      <3>1. GitTypeOK'
        BY <2>2 DEF TypeOK, GitTypeOK, gitVars
      <3> QED BY <1>1, <2>2, <3>1, FinishEffect, FinishOK, HandlerOnly
              DEF PathClone, netVars, TypeOK
    <2> QED BY <1>1, <2>1, <2>2 DEF PathClone
  <1>2. CASE PathStat(h)
    <2>1. GitTypeOK'
      BY <1>2 DEF PathStat, TypeOK, GitTypeOK, gitVars
    <2>2. CASE Goto(h, "lookup")
      <3>1. HandlerOK(h)' /\ hs'[h].pc # "insert"
        BY <1>2, <2>2, GotoOK
           DEF PathStat, PCs, storeVars, DispatchPCs, CommitPCs
      <3> QED BY <1>2, <2>1, <2>2, <3>1, GotoEffect, HandlerOnly
              DEF PathStat, PCs, netVars, TypeOK
    <2>3. CASE Finish(h)
      BY <1>2, <2>1, <2>3, FinishEffect, FinishOK, HandlerOnly
         DEF PathStat, netVars, TypeOK
    <2> QED BY <1>2, <2>2, <2>3 DEF PathStat
  <1>3. CASE CreateLookup(h)
    <2>1. GitTypeOK' /\ UNCHANGED jobs
      BY <1>3 DEF CreateLookup, TypeOK, GitTypeOK, gitVars, storeVars
    <2>5. nextRow \in 0..(MaxJobs + 1)
      BY ConstantsOK DEF TypeOK
    <2>6. hs[h].app \in Apps /\ hs[h].src \in Srcs
      BY <1>3 DEF HandlersOK, HandlerOK, CreateLookup
    <2>2. CASE hs' = [hs EXCEPT ![h].pc = "stamp", ![h].looked = nextRow]
      <3> DEFINE r == [hs[h] EXCEPT !.pc = "stamp", !.looked = nextRow]
      <3>1. hs[h] \in HandlerStates /\ "stamp" \in PCs
        BY DEF TypeOK, PCs
      <3>2. /\ r \in HandlerStates /\ r.pc = "stamp"
            /\ r.kind = hs[h].kind /\ r.app = hs[h].app /\ r.src = hs[h].src
        BY <2>5, <3>1 DEF HandlerStates
      <3>3. hs' = [hs EXCEPT ![h] = r]
        BY <2>2 DEF TypeOK
      <3> HIDE DEF r
      <3>4. /\ hs' \in [Handlers -> HandlerStates] /\ hs'[h] = r
            /\ \A g \in Handlers \ {h} : hs'[g] = hs[g]
        BY <3>2, <3>3, SetHandler
      <3>7. HandlerOK(h)'
        BY <2>1, <2>6, <3>2, <3>4
           DEF HandlerOK, CommitPCs, DispatchPCs, CreatingPCs
      <3> QED BY <1>3, <2>1, <3>2, <3>4, <3>7, HandlerOnly
              DEF CreateLookup, netVars, TypeOK
    <2>3. CASE Finish(h)
      BY <1>3, <2>1, <2>3, FinishEffect, FinishOK, HandlerOnly
         DEF CreateLookup, netVars, TypeOK
    <2>4. ASSUME NEW j \in JobIds, IsLatest(j, hs[h].app),
                 hs' = [hs EXCEPT ![h].pc = "delete", ![h].job = j,
                                  ![h].looked = nextRow]
          PROVE  BaseInv'
      <3> DEFINE r == [hs[h] EXCEPT !.pc = "delete", !.job = j,
                                    !.looked = nextRow]
      <3>1. hs[h] \in HandlerStates /\ j \in 0..MaxJobs /\ "delete" \in PCs
        BY ConstantsOK DEF TypeOK, JobIds, PCs
      <3>2. /\ r \in HandlerStates /\ r.pc = "delete" /\ r.job = j
            /\ r.kind = hs[h].kind /\ r.app = hs[h].app /\ r.src = hs[h].src
        BY <2>5, <3>1 DEF HandlerStates
      <3>3. hs' = [hs EXCEPT ![h] = r]
        BY <2>4 DEF TypeOK
      <3> HIDE DEF r
      <3>4. /\ hs' \in [Handlers -> HandlerStates] /\ hs'[h] = r
            /\ \A g \in Handlers \ {h} : hs'[g] = hs[g]
        BY <3>2, <3>3, SetHandler
      <3>5. jobs[j].app = hs[h].app
        BY <2>4 DEF IsLatest, AppRows
      <3>7. HandlerOK(h)'
        BY <2>1, <2>4, <2>6, <3>2, <3>4, <3>5
           DEF HandlerOK, CommitPCs, DispatchPCs, CreatingPCs
      <3> QED BY <1>3, <2>1, <3>2, <3>4, <3>7, HandlerOnly
              DEF CreateLookup, netVars, TypeOK
    <2> QED BY <1>3, <2>2, <2>3, <2>4 DEF CreateLookup
  <1>4. CASE RebuildLookup(h)
    <2>1. /\ GitTypeOK' /\ UNCHANGED jobs /\ UNCHANGED <<pushes, reports>>
          /\ UNCHANGED <<storeVars, runVars>>
          /\ hs[h].kind \in {"rebuild", "push"} /\ hs[h] \in HandlerStates
      BY <1>4 DEF RebuildLookup, TypeOK, GitTypeOK, gitVars, storeVars, netVars
    <2>2. PICK a \in IF hs[h].kind = "push" THEN hs[h].todo ELSE {hs[h].app} :
            \/ \E j \in JobIds :
                 /\ IsLatest(j, a)
                 /\ hs' = [hs EXCEPT ![h] = [hs[h] EXCEPT !.pc = "stamp",
                        !.app = a, !.src = jobs[j].src, !.todo = hs[h].todo \ {a},
                        !.looked = nextRow]]
            \/ hs' = [hs EXCEPT ![h] = IF hs[h].todo \ {a} # {}
                        THEN [hs[h] EXCEPT !.todo = hs[h].todo \ {a}] ELSE Idle]
      BY <1>4 DEF RebuildLookup, TypeOK
    <2>3. hs[h].todo \ {a} \in SUBSET Apps
      BY <2>1 DEF HandlerStates
    <2>4. ASSUME NEW r \in HandlerStates, hs' = [hs EXCEPT ![h] = r],
                 \/ r.pc \in {"lookup", "idle"} /\ r.kind # "create"
                 \/ /\ r.pc = "stamp" /\ r.kind # "create"
                    /\ r.app \in Apps /\ r.src \in Srcs
          PROVE  BaseInv'
      <3>1. /\ hs' \in [Handlers -> HandlerStates] /\ hs'[h] = r
            /\ \A g \in Handlers \ {h} : hs'[g] = hs[g]
        BY <2>4, SetHandler
      <3>2. HandlerOK(h)'
        BY <2>4, <3>1 DEF HandlerOK, CommitPCs, DispatchPCs, CreatingPCs
      <3>3. r.pc # "insert"
        BY <2>4
      <3> QED BY <2>1, <3>1, <3>2, <3>3, HandlerOnly DEF TypeOK
    <2>5. ASSUME NEW j \in JobIds, IsLatest(j, a),
                 hs' = [hs EXCEPT ![h] = [hs[h] EXCEPT !.pc = "stamp",
                        !.app = a, !.src = jobs[j].src, !.todo = hs[h].todo \ {a},
                        !.looked = nextRow]]
          PROVE  BaseInv'
      <3>1. a \in Apps /\ jobs[j].src \in Srcs
        BY <2>5 DEF IsLatest, AppRows, RowsOK
      <3> DEFINE r == [hs[h] EXCEPT !.pc = "stamp", !.app = a,
                         !.src = jobs[j].src, !.todo = hs[h].todo \ {a},
                         !.looked = nextRow]
      <3>2. /\ r \in HandlerStates /\ r.pc = "stamp" /\ r.kind = hs[h].kind
            /\ r.app = a /\ r.src = jobs[j].src
        <4>1. nextRow \in 0..(MaxJobs + 1)
          BY ConstantsOK DEF TypeOK
        <4> QED BY <2>1, <2>3, <3>1, <4>1 DEF HandlerStates, PCs
      <3>3. hs' = [hs EXCEPT ![h] = r]
        BY <2>5
      <3> HIDE DEF r
      <3> QED BY <2>1, <2>4, <3>1, <3>2, <3>3
    <2>6. CASE hs' = [hs EXCEPT ![h] = [hs[h] EXCEPT !.todo = hs[h].todo \ {a}]]
      <3> DEFINE r == [hs[h] EXCEPT !.todo = hs[h].todo \ {a}]
      <3>1. r \in HandlerStates /\ r.pc = hs[h].pc /\ r.kind = hs[h].kind
        BY <2>1, <2>3 DEF HandlerStates
      <3>2. hs[h].pc = "lookup"
        BY <1>4 DEF RebuildLookup
      <3>3. hs' = [hs EXCEPT ![h] = r]
        BY <2>6
      <3> HIDE DEF r
      <3> QED BY <2>1, <2>4, <3>1, <3>2, <3>3
    <2>7. CASE hs' = [hs EXCEPT ![h] = Idle]
      <3>1. Idle.pc = "idle" /\ Idle.kind = "none"
        BY DEF Idle
      <3> QED BY <2>4, <2>7, <3>1, IdleType
    <2> QED BY <2>2, <2>5, <2>6, <2>7
  <1> QED BY <1>1, <1>2, <1>3, <1>4

\* The actions that end a request, or leave handlers alone, and change nothing
\* of a row but its status, attempts, commit and deploy columns.
LEMMA RowsOnly ==
    ASSUME BaseInv,
           hs' \in [Handlers -> HandlerStates],
           \A g \in Handlers : hs'[g] = hs[g]
                                 \/ (HandlerOK(g)' /\ hs'[g].pc # "insert"),
           jobs' \in [JobIds -> Rows],
           \A j \in JobIds : /\ jobs'[j].app = jobs[j].app
                             /\ jobs'[j].src = jobs[j].src
                             /\ jobs'[j].rowid = jobs[j].rowid,
           runs' \in [JobIds -> RunStates],
           \A j \in JobIds : runs'[j].st # "none" => Stored(j),
           UNCHANGED <<rows, nextId, nextRow, gitVars, head, dispatching>>,
           pushes' \subseteq Srcs, reports' \subseteq Reports
    PROVE  BaseInv'
  <1>1. TypeOK'
    BY DEF BaseInv, TypeOK, gitVars, GitTypeOK
  <1> QED BY <1>1, BaseFrame

LEMMA SetFailedOK ==
    ASSUME TypeOK, NEW j \in JobIds, SetFailed(j)
    PROVE  /\ jobs' \in [JobIds -> Rows]
           /\ \A k \in JobIds : /\ jobs'[k].app = jobs[k].app
                                /\ jobs'[k].src = jobs[k].src
                                /\ jobs'[k].rowid = jobs[k].rowid
  <1>1. jobs[j] \in Rows
    BY DEF TypeOK
  <1>2. LET f == [jobs[j] EXCEPT !.status = "failed"] IN
        f.app = jobs[j].app /\ f.src = jobs[j].src /\ f.rowid = jobs[j].rowid
    BY <1>1 DEF Rows
  <1> QED BY <1>2, SetFailedEffect

LEMMA HandlerWritesBase ==
    ASSUME BaseInv, NEW h \in Handlers,
           Delete(h) \/ Stamp(h) \/ Insert(h) \/ Dispatch(h)
             \/ DispatchFailed(h) \/ Abandon(h)
    PROVE  BaseInv'
  <1> USE DEF BaseInv
  <1>0. hs[h] \in HandlerStates /\ HandlerOK(h)
    BY DEF TypeOK, HandlersOK
  <1>1. CASE Delete(h)
    <2>1. Goto(h, "stamp") /\ UNCHANGED jobs
      BY <1>1 DEF Delete
    <2>2. HandlerOK(h)' /\ hs'[h].pc # "insert"
      BY <1>1, <2>1, GotoOK DEF Delete, PCs, DispatchPCs, CommitPCs, CreatingPCs
    <2>3. /\ hs' \in [Handlers -> HandlerStates]
          /\ \A g \in Handlers \ {h} : hs'[g] = hs[g]
      BY <2>1, GotoEffect DEF PCs
    <2>4. TypeOK'
      BY <1>1, <2>3 DEF Delete, TypeOK, GitTypeOK, gitVars, runVars, netVars
    <2> QED BY <1>1, <2>2, <2>3, <2>4, BaseFrame DEF Delete, RowsOK, runVars
  <1>2. CASE Stamp(h)
    <2> DEFINE r == [hs[h] EXCEPT !.pc = "insert", !.job = nextId]
    <2>1. nextId \in JobIds /\ nextId \in 0..MaxJobs /\ nextId' = nextId + 1
      BY <1>2, ConstantsOK DEF Stamp, TypeOK, JobIds
    <2>2. /\ r \in HandlerStates /\ r.pc = "insert" /\ r.job = nextId
          /\ r.kind = hs[h].kind /\ r.app = hs[h].app /\ r.src = hs[h].src
      BY <1>0, <2>1 DEF HandlerStates, PCs
    <2>3. hs' = [hs EXCEPT ![h] = r]
      BY <1>2 DEF Stamp, TypeOK
    <2> HIDE DEF r
    <2>4. /\ hs' \in [Handlers -> HandlerStates] /\ hs'[h] = r
          /\ \A g \in Handlers \ {h} : hs'[g] = hs[g]
      BY <2>2, <2>3, SetHandler
    <2>5. UNCHANGED <<rows, jobs, nextRow, gitVars, runVars, netVars>>
      BY <1>2 DEF Stamp
    <2>6. TypeOK'
      BY <2>1, <2>4, <2>5, ConstantsOK
         DEF TypeOK, GitTypeOK, gitVars, runVars, netVars, JobIds
    <2>7. RowsOK'
      BY <2>5 DEF RowsOK, Stored, runVars
    <2>8. hs[h].app \in Apps /\ hs[h].src \in Srcs
      BY <1>0, <1>2 DEF Stamp, HandlerOK, CreatingPCs
    <2>9. HandlersOK'
      <3> SUFFICES ASSUME NEW g \in Handlers PROVE HandlerOK(g)'
        BY DEF HandlersOK
      <3>1. CASE g = h
        BY <3>1, <2>2, <2>4, <2>8 DEF HandlerOK, CommitPCs, DispatchPCs
      <3>2. CASE g # h
        BY <3>2, <2>4, <2>5 DEF HandlersOK, HandlerOK, Stored
      <3> QED BY <3>1, <3>2
    <2>10. FreshOK'
      <3>1. nextId \in Nat /\ ~Stored(nextId)
        BY <2>1 DEF FreshOK, JobIds
      <3>2. \A j \in JobIds : j \in Int
        BY DEF JobIds
      <3>3. \A j \in JobIds : Stored(j)' => j < nextId'
        BY <2>1, <2>5, <3>1, <3>2 DEF FreshOK, Stored
      <3>4. \A g \in Handlers : hs'[g].pc = "insert" =>
              hs'[g].job \in JobIds /\ hs'[g].job < nextId' /\ jobs'[hs'[g].job].rowid = 0
        <4> SUFFICES ASSUME NEW g \in Handlers, hs'[g].pc = "insert"
                     PROVE  /\ hs'[g].job \in JobIds /\ hs'[g].job < nextId'
                            /\ jobs'[hs'[g].job].rowid = 0
          OBVIOUS
        <4>1. CASE g = h
          BY <4>1, <2>1, <2>2, <2>4, <2>5, <3>1 DEF Stored
        <4>2. CASE g # h
          <5>1. hs[g].job \in JobIds /\ hs[g].job < nextId /\ ~Stored(hs[g].job)
            BY <4>2, <2>4 DEF FreshOK
          <5>2. hs[g].job < nextId + 1
            BY <5>1, <3>1, <3>2
          <5>3. hs'[g].job = hs[g].job
            BY <4>2, <2>4
          <5> QED BY <5>1, <5>2, <5>3, <2>1, <2>5 DEF Stored
        <4> QED BY <4>1, <4>2
      <3>5. \A g \in Handlers \ {h} : hs'[g].pc = "insert" => hs'[g].job # hs'[h].job
        BY <2>1, <2>2, <2>4, <3>1, <3>2 DEF FreshOK
      <3>6. \A g, k \in Handlers :
              hs'[g].pc = "insert" /\ hs'[k].pc = "insert" /\ hs'[g].job = hs'[k].job
                => g = k
        BY <2>4, <3>5 DEF FreshOK
      <3> QED BY <3>3, <3>4, <3>6 DEF FreshOK, Stored
    <2> QED BY <2>6, <2>7, <2>9, <2>10
  <1>3. CASE Insert(h)
    <2> DEFINE j == hs[h].job
               row == [NoRow EXCEPT !.app = hs[h].app, !.src = hs[h].src,
                                    !.status = "queued", !.rowid = nextRow,
                                    !.looked = hs[h].looked]
    <2>1. j \in JobIds /\ j < nextId /\ ~Stored(j)
      BY <1>3 DEF Insert, FreshOK
    <2>2. hs[h].app \in Apps /\ hs[h].src \in Srcs
      BY <1>0, <1>3 DEF Insert, HandlerOK, CreatingPCs
    <2>3. nextRow \in 1..MaxJobs /\ nextRow' = nextRow + 1
      BY <1>3, ConstantsOK DEF Insert, TypeOK
    <2>4. NoRow \in Rows
      BY ConstantsOK DEF NoRow, Rows, maxAttempts
    <2>5. /\ row \in Rows /\ row.app = hs[h].app /\ row.src = hs[h].src
          /\ row.rowid = nextRow
      <3>1. nextRow \in 0..MaxJobs /\ "queued" \in Statuses
        BY <2>3, ConstantsOK DEF Statuses, Active
      <3>2. hs[h].looked \in 0..(MaxJobs + 1)
        BY <1>0 DEF HandlerStates
      <3> QED BY <2>2, <2>4, <3>1, <3>2 DEF Rows
    <2>6. jobs' = [jobs EXCEPT ![j] = row] /\ rows' = rows \cup {j}
      BY <1>3 DEF Insert
    <2>7. UNCHANGED <<nextId, gitVars, runVars, netVars>>
      BY <1>3 DEF Insert
    <2> HIDE DEF row
    <2>8. /\ jobs' \in [JobIds -> Rows] /\ jobs'[j] = row
          /\ \A k \in JobIds \ {j} : jobs'[k] = jobs[k]
      BY <2>1, <2>5, <2>6 DEF TypeOK
    <2>9. jobs'[j].rowid # 0 /\ \A k \in JobIds \ {j} : jobs'[k].rowid = jobs[k].rowid
      BY <2>3, <2>5, <2>8
    <2>10. /\ hs' \in [Handlers -> HandlerStates]
           /\ \A g \in Handlers \ {h} : hs'[g] = hs[g]
           /\ HandlerOK(h)' /\ hs'[h].pc # "insert"
      <3>1. CASE Goto(h, "dispatch")
        <4>1. /\ hs' \in [Handlers -> HandlerStates]
              /\ hs'[h] = [hs[h] EXCEPT !.pc = "dispatch"]
              /\ \A g \in Handlers \ {h} : hs'[g] = hs[g]
          BY <3>1, GotoEffect DEF PCs
        <4>2. /\ hs'[h].pc = "dispatch" /\ hs'[h].kind = hs[h].kind
              /\ hs'[h].app = hs[h].app /\ hs'[h].src = hs[h].src
              /\ hs'[h].job = j
          BY <1>0, <4>1 DEF HandlerStates
        <4>3. HandlerOK(h)'
          BY <2>1, <2>2, <2>9, <4>2
             DEF HandlerOK, CommitPCs, DispatchPCs, CreatingPCs, Stored
        <4> QED BY <4>1, <4>2, <4>3
      <3>2. CASE Finish(h)
        BY <3>2, FinishEffect, FinishOK
      <3> QED BY <1>3, <3>1, <3>2 DEF Insert
    <2>11. TypeOK'
      BY <2>1, <2>3, <2>6, <2>7, <2>8, <2>10, ConstantsOK
         DEF TypeOK, GitTypeOK, gitVars, runVars, netVars
    <2>12. RowsOK'
      BY <2>1, <2>2, <2>5, <2>6, <2>7, <2>8, <2>9 DEF RowsOK, Stored, runVars
    <2>13. HandlersOK'
      <3> SUFFICES ASSUME NEW g \in Handlers, g # h PROVE HandlerOK(g)'
        BY <2>10 DEF HandlersOK
      <3>1. HandlerOK(g) /\ hs'[g] = hs[g]
        BY <2>10 DEF HandlersOK
      <3>2. hs[g].pc \in DispatchPCs \cup CommitPCs => jobs'[hs[g].job].rowid # 0
        BY <2>9, <3>1 DEF HandlerOK, Stored
      <3>3. hs[g].pc \in CommitPCs => jobs'[hs[g].job] = jobs[hs[g].job]
        BY <2>1, <2>8, <3>1 DEF HandlerOK
      <3>4. hs[g].pc = "delete" => jobs'[hs[g].job] = jobs[hs[g].job]
        <4>1. jobs[j].app = None
          BY <2>1 DEF RowsOK
        <4>2. hs[g].pc = "delete" => hs[g].job # j
          BY <3>1, <4>1, ConstantsOK DEF HandlerOK, CreatingPCs
        <4> QED BY <2>8, <3>1, <4>2 DEF HandlerOK
      <3> QED BY <3>1, <3>2, <3>3, <3>4 DEF HandlerOK, Stored
    <2>14. FreshOK'
      <3>1. \A k \in JobIds : jobs'[k].rowid # 0 => k < nextId'
        BY <2>1, <2>7, <2>9 DEF FreshOK, Stored
      <3>2. \A g \in Handlers \ {h} : hs[g].pc = "insert" => hs[g].job # j
        BY <1>3 DEF FreshOK, Insert
      <3>3. \A g \in Handlers : hs'[g].pc = "insert" =>
              hs'[g].job \in JobIds /\ hs'[g].job < nextId' /\ jobs'[hs'[g].job].rowid = 0
        BY <2>7, <2>9, <2>10, <3>2 DEF FreshOK, Stored
      <3>4. \A g, k \in Handlers :
              hs'[g].pc = "insert" /\ hs'[k].pc = "insert" /\ hs'[g].job = hs'[k].job
                => g = k
        BY <2>10 DEF FreshOK
      <3> QED BY <3>1, <3>3, <3>4 DEF FreshOK, Stored
    <2> QED BY <2>11, <2>12, <2>13, <2>14
  <1>4. CASE Dispatch(h)
    <2>1. hs[h].job \in JobIds /\ Stored(hs[h].job)
      BY <1>0, <1>4 DEF Dispatch, HandlerOK, DispatchPCs
    <2>2. UNCHANGED jobs
      BY <1>4 DEF Dispatch, storeVars
    <2>3. /\ runs' \in [JobIds -> RunStates]
          /\ \A j \in JobIds : runs'[j].st # "none" => Stored(j)
      <3>1. CASE UNCHANGED runs
        BY <3>1 DEF TypeOK, RowsOK
      <3>2. CASE StartRun(hs[h].job)
        BY <2>1, <3>2, StartRunEffect DEF RowsOK, LiveRun
      <3> QED BY <1>4, <3>1, <3>2 DEF Dispatch
    <2>4. /\ hs' \in [Handlers -> HandlerStates]
          /\ \A g \in Handlers \ {h} : hs'[g] = hs[g]
          /\ HandlerOK(h)' /\ hs'[h].pc # "insert"
      <3>1. CASE Finish(h)
        BY <3>1, FinishEffect, FinishOK
      <3>2. CASE Goto(h, "dispatch_failed")
        BY <1>4, <2>2, <3>2, GotoEffect, GotoOK
           DEF Dispatch, PCs, DispatchPCs, CommitPCs
      <3> QED BY <1>4, <3>1, <3>2 DEF Dispatch
    <2> QED BY <1>4, <2>2, <2>3, <2>4, RowsOnly
            DEF Dispatch, storeVars, gitVars, netVars, TypeOK
  <1>5. CASE DispatchFailed(h)
    <2>1. hs[h].job \in JobIds
      BY <1>0, <1>5 DEF DispatchFailed, HandlerOK, DispatchPCs
    <2> QED BY <1>5, <2>1, SetFailedOK, FinishEffect, FinishOK, RowsOnly
            DEF DispatchFailed, runVars, netVars, TypeOK, RowsOK
  <1>6. CASE Abandon(h)
    <2>1. ASSUME hs' = [hs EXCEPT ![h] = Idle]
          PROVE  /\ hs' \in [Handlers -> HandlerStates] /\ hs'[h] = Idle
                 /\ \A g \in Handlers \ {h} : hs'[g] = hs[g]
      BY <2>1, IdleType, SetHandler
    <2>2. /\ hs' \in [Handlers -> HandlerStates]
          /\ \A g \in Handlers \ {h} : hs'[g] = hs[g]
          /\ HandlerOK(h)' /\ hs'[h].pc # "insert"
      <3>1. CASE Finish(h)
        BY <3>1, FinishEffect, FinishOK
      <3>2. CASE hs' = [hs EXCEPT ![h] = Idle]
        BY <2>1, <3>2 DEF HandlerOK, CommitPCs, DispatchPCs, CreatingPCs, Idle
      <3> QED BY <1>6, <3>1, <3>2 DEF Abandon
    <2> QED BY <1>6, <2>2, HandlerOnly
            DEF Abandon, netVars, gitVars, TypeOK, GitTypeOK
  <1> QED BY <1>1, <1>2, <1>3, <1>4, <1>5, <1>6

LEMMA CommitBase ==
    ASSUME BaseInv, NEW h \in Handlers,
           CommitClone(h) \/ CommitAdd(h) \/ CommitCommit(h) \/ CommitPush(h)
             \/ CommitError(h) \/ RecordSucceeded(h) \/ RecordGitOpsFailed(h)
    PROVE  BaseInv'
  <1> USE DEF BaseInv
  <1>0. /\ hs[h] \in HandlerStates /\ HandlerOK(h) /\ hs[h].pc \in CommitPCs
        /\ hs[h].app \in Apps \cup {None} /\ hs[h].tag \in Tags \cup {None}
    BY DEF TypeOK, HandlersOK, HandlerStates, CommitPCs, CommitClone, CommitAdd,
           CommitCommit, CommitPush, CommitError, RecordSucceeded,
           RecordGitOpsFailed
  <1>1. ASSUME NEW pc \in CommitPCs, Goto(h, pc), GitTypeOK',
               UNCHANGED <<storeVars, runVars, netVars>>
        PROVE  BaseInv'
    <2>1. pc \in PCs \ {"delete", "insert"} /\ pc # "stamp" /\ pc \notin DispatchPCs
      BY DEF CommitPCs, PCs, DispatchPCs
    <2>2. /\ hs' \in [Handlers -> HandlerStates]
          /\ \A g \in Handlers \ {h} : hs'[g] = hs[g]
      BY <1>1, <2>1, GotoEffect
    <2>3. HandlerOK(h)' /\ hs'[h].pc # "insert"
      BY <1>0, <1>1, <2>1, GotoOK DEF storeVars
    <2> QED BY <1>1, <2>2, <2>3, HandlerOnly DEF netVars, TypeOK
  <1>2. CASE CommitClone(h)
    BY <1>0, <1>1, <1>2, GitTypes DEF CommitClone, CommitPCs, TypeOK
  <1>3. CASE CommitAdd(h)
    BY <1>0, <1>1, <1>3, GitTypes DEF CommitAdd, CommitPCs, TypeOK
  <1>4. CASE CommitCommit(h)
    BY <1>0, <1>1, <1>4, GitTypes DEF CommitCommit, CommitPCs, TypeOK
  <1>5. CASE CommitPush(h)
    <2>1. GitTypeOK'
      BY <1>0, <1>5, GitTypes DEF CommitPush, TypeOK
    <2> QED BY <1>1, <1>5, <2>1 DEF CommitPush, CommitPCs
  <1>6. CASE CommitError(h)
    BY <1>0, <1>1, <1>6, GitTypes DEF CommitError, CommitPCs, TypeOK
  <1>7. hs[h].job \in JobIds
    BY <1>0 DEF HandlerOK
  <1>8. CASE RecordSucceeded(h)
    <2> DEFINE j == hs[h].job
               row == [jobs[j] EXCEPT !.status = "succeeded",
                                      !.commit = hs[h].tag, !.deploy = TRUE]
    <2>1. jobs[j] \in Rows
      BY <1>7 DEF TypeOK
    <2>2. /\ row \in Rows /\ row.app = jobs[j].app /\ row.src = jobs[j].src
          /\ row.rowid = jobs[j].rowid
      BY <1>0, <2>1 DEF Rows, Statuses
    <2>3. Update(j, row) /\ Finish(h)
      BY <1>8 DEF RecordSucceeded
    <2> HIDE DEF row
    <2>4. /\ jobs' \in [JobIds -> Rows]
          /\ \A k \in JobIds : /\ jobs'[k].app = jobs[k].app
                               /\ jobs'[k].src = jobs[k].src
                               /\ jobs'[k].rowid = jobs[k].rowid
      BY <1>7, <2>2, <2>3, UpdateEffect
    <2> QED BY <1>8, <2>3, <2>4, FinishEffect, FinishOK, RowsOnly
            DEF RecordSucceeded, runVars, netVars, TypeOK, RowsOK
  <1>9. CASE RecordGitOpsFailed(h)
    BY <1>7, <1>9, SetFailedOK, FinishEffect, FinishOK, RowsOnly
       DEF RecordGitOpsFailed, runVars, netVars, TypeOK, RowsOK
  <1> QED BY <1>2, <1>3, <1>4, <1>5, <1>6, <1>8, <1>9

LEMMA RunStepEffect ==
    ASSUME BaseInv, NEW j \in JobIds, RunStep(j) \/ RunLost(j)
    PROVE  /\ runs' \in [JobIds -> RunStates]
           /\ \A k \in JobIds \ {j} : runs'[k] = runs[k]
           /\ runs[j].st \in LiveRun /\ runs'[j].st # "none"
           /\ reports' \subseteq Reports
           /\ UNCHANGED <<storeVars, gitVars, head, dispatching, pushes, hs>>
  <1> USE DEF BaseInv, TypeOK
  <1>1. runs[j] \in RunStates
    OBVIOUS
  <1>2. \A st \in {"running", "succeeded", "failed"} :
          [job |-> j, status |-> st, tag |-> runs[j].tag] \in Reports
    BY <1>1 DEF RunStates, Reports
  <1>3. \A st \in LiveRun \cup {"none", "done", "failed", "cancelled"} :
          SetRun(j, st) => /\ runs' \in [JobIds -> RunStates]
                           /\ \A k \in JobIds \ {j} : runs'[k] = runs[k]
                           /\ runs'[j].st = st
    BY <1>1 DEF SetRun, RunStates
  <1>4. CASE RunClone(j)
    <2>1. runs[j].st # "none" /\ jobs[j] \in Rows
      BY <1>4 DEF RunClone
    <2>2. jobs[j].src \in Srcs
      BY <2>1 DEF RowsOK
    <2>3. <<jobs[j].src, head[jobs[j].src]>> \in Tags
      BY <2>2 DEF Tags
    <2> QED BY <1>4, <2>3 DEF RunClone, RunStates, LiveRun, netVars
  <1>5. CASE RunDetect(j)
    BY <1>2, <1>3, <1>5 DEF RunDetect, Report, LiveRun
  <1>6. CASE RunFail(j)
    BY <1>2, <1>3, <1>6 DEF RunFail, Report, LiveRun
  <1>7. CASE RunReportFailure(j)
    BY <1>2, <1>3, <1>7 DEF RunReportFailure, Report, LiveRun
  <1>8. CASE RunReportSuccess(j)
    BY <1>2, <1>3, <1>8 DEF RunReportSuccess, Report, LiveRun
  <1>9. CASE RunLost(j)
    BY <1>3, <1>9 DEF RunLost, LiveRun, netVars
  <1> QED BY <1>4, <1>5, <1>6, <1>7, <1>8, <1>9 DEF RunStep

LEMMA ReportBase == ASSUME BaseInv, RunnerRunning \/ RunnerFailed PROVE BaseInv'
  <1> USE DEF BaseInv
  <1>1. CASE RunnerRunning
    <2>1. PICK r \in reports :
            /\ reports' = reports \ {r}
            /\ Update(r.job, [jobs[r.job] EXCEPT !.commit = r.tag, !.deploy = FALSE])
      BY <1>1 DEF RunnerRunning
    <2> DEFINE row == [jobs[r.job] EXCEPT !.commit = r.tag, !.deploy = FALSE]
    <2>2. r \in Reports /\ r.job \in JobIds /\ r.tag \in Tags \cup {None}
      BY DEF TypeOK, Reports
    <2>3. jobs[r.job] \in Rows
      BY <2>2 DEF TypeOK
    <2>4. /\ row \in Rows /\ row.app = jobs[r.job].app
          /\ row.src = jobs[r.job].src /\ row.rowid = jobs[r.job].rowid
      BY <2>2, <2>3 DEF Rows
    <2>5. Update(r.job, row)
      BY <2>1
    <2> HIDE DEF row
    <2>6. /\ jobs' \in [JobIds -> Rows]
          /\ \A k \in JobIds : /\ jobs'[k].app = jobs[k].app
                               /\ jobs'[k].src = jobs[k].src
                               /\ jobs'[k].rowid = jobs[k].rowid
      BY <2>2, <2>4, <2>5, UpdateEffect
    <2> QED BY <1>1, <2>1, <2>6, RowsOnly
            DEF RunnerRunning, runVars, TypeOK, RowsOK
  <1>2. CASE RunnerFailed
    <2>1. PICK r \in reports : reports' = reports \ {r} /\ SetFailed(r.job)
      BY <1>2 DEF RunnerFailed
    <2>2. r.job \in JobIds
      BY DEF TypeOK, Reports
    <2>3. /\ jobs' \in [JobIds -> Rows]
          /\ \A k \in JobIds : /\ jobs'[k].app = jobs[k].app
                               /\ jobs'[k].src = jobs[k].src
                               /\ jobs'[k].rowid = jobs[k].rowid
      BY <2>1, <2>2, SetFailedOK
    <2> QED BY <1>2, <2>1, <2>3, RowsOnly
            DEF RunnerFailed, runVars, TypeOK, RowsOK
  <1> QED BY <1>1, <1>2

LEMMA PollBase ==
    ASSUME BaseInv, PollRunner
    PROVE  /\ BaseInv'
           /\ \E j \in rows :
                /\ jobs[j].status = "queued" /\ jobs'[j].status = "running"
                /\ jobs'[j].deploy = jobs[j].deploy
                /\ jobs'[j].commit = jobs[j].commit
                /\ \A k \in JobIds : jobs'[k].app = jobs[k].app
                /\ \A k \in JobIds \ {j} : jobs'[k] = jobs[k] /\ runs'[k] = runs[k]
                /\ \/ runs'[j].st = "pending"
                   \/ Faults /\ UNCHANGED runs
  <1> USE DEF BaseInv
  <1>1. PICK j \in JobIds :
          /\ Claimable(j) /\ jobs' = [jobs EXCEPT ![j] = Claimed(jobs[j])]
          /\ \/ runs' = [runs EXCEPT ![j] = [st |-> "pending", tag |-> None]]
             \/ Faults /\ UNCHANGED runs
    BY DEF PollRunner, TypeOK
  <1>2. /\ j \in rows /\ jobs[j].status = "queued" /\ jobs[j].attempts < maxAttempts
        /\ jobs[j] \in Rows
    BY <1>1 DEF Claimable, TypeOK
  <1>3. /\ Claimed(jobs[j]) \in Rows /\ Claimed(jobs[j]).app = jobs[j].app
        /\ Claimed(jobs[j]).src = jobs[j].src
        /\ Claimed(jobs[j]).rowid = jobs[j].rowid
        /\ Claimed(jobs[j]).deploy = jobs[j].deploy
        /\ Claimed(jobs[j]).commit = jobs[j].commit
        /\ Claimed(jobs[j]).status = "running"
    <2>1. jobs[j].attempts + 1 \in 0..maxAttempts /\ "running" \in Statuses
      BY <1>2 DEF Rows, Statuses, Active, maxAttempts
    <2>2. Claimed(jobs[j]) = [jobs[j] EXCEPT !.status = "running",
                                             !.attempts = jobs[j].attempts + 1]
      BY <1>2 DEF Claimed, Rows
    <2> QED BY <1>2, <2>1, <2>2 DEF Rows
  <1>4. /\ jobs' \in [JobIds -> Rows] /\ jobs'[j] = Claimed(jobs[j])
        /\ \A k \in JobIds \ {j} : jobs'[k] = jobs[k]
    BY <1>1, <1>3 DEF TypeOK
  <1>5. /\ runs' \in [JobIds -> RunStates]
        /\ \A k \in JobIds \ {j} : runs'[k] = runs[k]
        /\ runs'[j].st = "pending" \/ (Faults /\ UNCHANGED runs)
    BY <1>1 DEF TypeOK, RunStates, LiveRun
  <1>6. \A k \in JobIds : runs'[k].st # "none" => Stored(k)
    BY <1>2, <1>5 DEF RowsOK
  <1>7. BaseInv'
    BY <1>3, <1>4, <1>5, <1>6, RowsOnly DEF PollRunner, netVars, TypeOK
  <1> QED BY <1>2, <1>3, <1>4, <1>5, <1>7

LEMMA EnvironmentBase ==
    ASSUME BaseInv,
           OtherProcessPush \/ LoseMessage \/ (\E s \in Srcs : SourcePush(s))
    PROVE  BaseInv'
  <1> USE DEF BaseInv
  <1>0. None \in Apps \cup {None} /\ None \in Tags \cup {None}
    OBVIOUS
  <1>1. GitTypeOK'
    BY <1>0, GitTypes DEF OtherProcessPush, LoseMessage, SourcePush, TypeOK
  <1>2. head' \in [Srcs -> 1..MaxCommits]
    BY ConstantsOK
       DEF OtherProcessPush, LoseMessage, SourcePush, TypeOK, runVars
  <1>3. UNCHANGED <<storeVars, runs, dispatching, hs>>
    BY DEF OtherProcessPush, LoseMessage, SourcePush, runVars
  <1>4. pushes' \subseteq Srcs /\ reports' \subseteq Reports
    BY DEF OtherProcessPush, LoseMessage, SourcePush, TypeOK, netVars
  <1>5. TypeOK'
    BY <1>1, <1>2, <1>3, <1>4 DEF TypeOK, storeVars
  <1> QED BY <1>3, <1>5, BaseFrame DEF storeVars, RowsOK

LEMMA NextBase == BaseInv /\ [Next]_vars => BaseInv'
  <1> SUFFICES ASSUME BaseInv, [Next]_vars PROVE BaseInv'
    OBVIOUS
  <1>1. ASSUME NEW h \in Handlers, Request(h) PROVE BaseInv'
    BY <1>1, RequestBase DEF Request
  <1>2. ASSUME NEW h \in Handlers, HandlerStep(h) \/ Abandon(h) PROVE BaseInv'
    BY <1>2, CreateBase, HandlerWritesBase, CommitBase DEF HandlerStep
  <1>3. ASSUME NEW j \in JobIds, RunStep(j) \/ RunLost(j) PROVE BaseInv'
    <2>1. \A k \in JobIds : runs'[k].st # "none" => Stored(k)
      BY <1>3, RunStepEffect DEF BaseInv, RowsOK, LiveRun
    <2> QED BY <1>3, <2>1, RunStepEffect, RowsOnly
            DEF BaseInv, TypeOK, storeVars, gitVars
  <1>4. CASE RunnerRunning \/ RunnerFailed
    BY <1>4, ReportBase
  <1>5. CASE PollRunner
    BY <1>5, PollBase
  <1>6. CASE OtherProcessPush \/ LoseMessage \/ \E s \in Srcs : SourcePush(s)
    BY <1>6, EnvironmentBase
  <1>7. CASE UNCHANGED vars
    <2>1. UNCHANGED <<rows, jobs, nextId, nextRow, hs, head, pushes, runs,
                      dispatching, reports, main, wd>>
      BY <1>7 DEF vars, storeVars, gitVars, runVars, netVars
    <2>2. TypeOK'
      BY <2>1 DEF BaseInv, TypeOK, GitTypeOK
    <2> QED BY <2>1, <2>2, BaseFrame DEF BaseInv, RowsOK
  <1> QED BY <1>1, <1>2, <1>3, <1>4, <1>5, <1>6, <1>7 DEF Next

\* A stored row is complete, a job id is used once, and every handler, run and
\* report refers to a stored job: what the coordinator's later statements rely
\* on when they write by id.
THEOREM BaseInvariant == Spec => []BaseInv
  BY InitBase, NextBase, PTL DEF Spec

\* The coordinator's rows, handlers, runs, messages and clone keep their types:
\* in particular a run never clones from a source it was not given, and no job
\* id or attempt count leaves its range.
THEOREM TypeCorrect == Spec => []TypeOK
  BY BaseInvariant, PTL DEF BaseInv

(***************************************************************************)
(* What the steps leave of a row and of a request.                         *)
(***************************************************************************)

LEMMA OthersSame ==
    ASSUME BaseInv, NEW h \in Handlers, Request(h) \/ HandlerStep(h) \/ Abandon(h)
    PROVE  \A g \in Handlers \ {h} : hs'[g] = hs[g]
  <1> USE DEF BaseInv, TypeOK
  <1>1. CASE Request(h)
    BY <1>1 DEF Request, CreateBuild, RebuildApp, GithubWebhook, RunnerSucceeded
  <1>2. CASE Abandon(h)
    BY <1>2 DEF Abandon, Finish
  <1>3. CASE PathClone(h) \/ PathStat(h) \/ CreateLookup(h) \/ Delete(h)
    BY <1>3 DEF PathClone, PathStat, CreateLookup, Delete, Goto, Finish
  <1>4. CASE RebuildLookup(h)
    BY <1>4 DEF RebuildLookup
  <1>5. CASE Stamp(h) \/ Insert(h) \/ Dispatch(h) \/ DispatchFailed(h)
    BY <1>5 DEF Stamp, Insert, Dispatch, DispatchFailed, Goto, Finish
  <1>6. CASE \/ CommitClone(h) \/ CommitAdd(h) \/ CommitCommit(h) \/ CommitPush(h)
             \/ CommitError(h) \/ RecordSucceeded(h) \/ RecordGitOpsFailed(h)
    BY <1>6 DEF CommitClone, CommitAdd, CommitCommit, CommitPush, CommitError,
                RecordSucceeded, RecordGitOpsFailed, Goto, Finish
  <1> QED BY <1>1, <1>2, <1>3, <1>4, <1>5, <1>6 DEF HandlerStep

-----------------------------------------------------------------------------
(* What a step other than Insert does to a row                             *)

RowsKeep ==
    /\ rows' \subseteq rows
    /\ \A k \in rows' : /\ jobs'[k].app = jobs[k].app
                        /\ jobs'[k].status \in Active => jobs[k].status \in Active

LEMMA SetFailedKeeps ==
    ASSUME BaseInv, NEW j \in JobIds, SetFailed(j), UNCHANGED rows
    PROVE  RowsKeep
  <1>1. jobs[j] \in Rows
    BY DEF BaseInv, TypeOK
  <1>2. LET f == [jobs[j] EXCEPT !.status = "failed"] IN
        f.app = jobs[j].app /\ f.status = "failed"
    BY <1>1 DEF Rows
  <1> QED BY <1>2, SetFailedEffect DEF RowsKeep, Active, BaseInv, TypeOK

LEMMA OnlyInsertActivates ==
    ASSUME BaseInv, [Next]_vars, \A h \in Handlers : ~Insert(h)
    PROVE  RowsKeep
  <1> USE DEF BaseInv
  <1>0. rows \subseteq JobIds /\ \A h \in Handlers : HandlerOK(h) /\ hs[h] \in HandlerStates
    BY DEF TypeOK, HandlersOK
  <1>1. CASE UNCHANGED <<rows, jobs>>
    BY <1>1 DEF RowsKeep
  <1>2. ASSUME NEW h \in Handlers,
               DispatchFailed(h) \/ RecordGitOpsFailed(h) \/ RecordSucceeded(h)
        PROVE  RowsKeep
    <2>1. hs[h].job \in JobIds /\ hs[h].tag \in Tags \cup {None}
      BY <1>0, <1>2 DEF HandlerOK, DispatchFailed, RecordGitOpsFailed,
                        RecordSucceeded, DispatchPCs, CommitPCs, HandlerStates
    <2>2. CASE DispatchFailed(h) \/ RecordGitOpsFailed(h)
      BY <2>1, <2>2, SetFailedKeeps DEF DispatchFailed, RecordGitOpsFailed
    <2>3. CASE RecordSucceeded(h)
      <3> DEFINE j == hs[h].job
                 row == [jobs[j] EXCEPT !.status = "succeeded",
                                        !.commit = hs[h].tag, !.deploy = TRUE]
      <3>1. jobs[j] \in Rows
        BY <2>1 DEF TypeOK
      <3>2. row \in Rows /\ row.status = "succeeded" /\ row.app = jobs[j].app
        BY <2>1, <3>1 DEF Rows, Statuses
      <3>3. Update(j, row) /\ UNCHANGED rows
        BY <2>3 DEF RecordSucceeded
      <3> HIDE DEF row
      <3> QED BY <1>0, <2>1, <3>2, <3>3, UpdateEffect DEF RowsKeep, Active
    <2> QED BY <1>2, <2>2, <2>3
  <1>3. ASSUME NEW h \in Handlers, HandlerStep(h) PROVE RowsKeep
    <2>1. CASE Delete(h)
      BY <2>1 DEF Delete, RowsKeep
    <2>2. CASE PathClone(h) \/ PathStat(h) \/ CreateLookup(h) \/ RebuildLookup(h)
                 \/ Stamp(h) \/ Dispatch(h) \/ CommitClone(h) \/ CommitAdd(h)
                 \/ CommitCommit(h) \/ CommitPush(h) \/ CommitError(h)
      BY <1>1, <2>2 DEF PathClone, PathStat, CreateLookup, RebuildLookup, Stamp,
                        Dispatch, CommitClone, CommitAdd, CommitCommit,
                        CommitPush, CommitError, storeVars
    <2> QED BY <1>2, <1>3, <2>1, <2>2 DEF HandlerStep
  <1>4. ASSUME NEW h \in Handlers, Request(h) \/ Abandon(h) PROVE RowsKeep
    BY <1>1, <1>4 DEF Request, Abandon, CreateBuild, RebuildApp, GithubWebhook,
                      RunnerSucceeded, storeVars
  <1>5. ASSUME NEW j \in JobIds, RunStep(j) \/ RunLost(j) PROVE RowsKeep
    BY <1>1, <1>5, RunStepEffect DEF storeVars
  <1>6. CASE RunnerRunning
    <2>1. PICK r \in reports :
            Update(r.job, [jobs[r.job] EXCEPT !.commit = r.tag, !.deploy = FALSE])
      BY <1>6 DEF RunnerRunning
    <2>2. r.job \in JobIds /\ r.tag \in Tags \cup {None} /\ jobs[r.job] \in Rows
      BY DEF TypeOK, Reports
    <2> DEFINE row == [jobs[r.job] EXCEPT !.commit = r.tag, !.deploy = FALSE]
    <2>3. /\ row \in Rows /\ row.status = jobs[r.job].status
          /\ row.app = jobs[r.job].app
      BY <2>2 DEF Rows
    <2>4. Update(r.job, row) /\ UNCHANGED rows
      BY <1>6, <2>1 DEF RunnerRunning
    <2> HIDE DEF row
    <2> QED BY <1>0, <2>2, <2>3, <2>4, UpdateEffect DEF RowsKeep
  <1>7. CASE RunnerFailed
    <2>1. PICK r \in reports : SetFailed(r.job) /\ UNCHANGED rows
      BY <1>7 DEF RunnerFailed
    <2>2. r.job \in JobIds
      BY DEF TypeOK, Reports
    <2> QED BY <2>1, <2>2, SetFailedKeeps
  <1>8. CASE PollRunner
    BY <1>0, <1>8, PollBase DEF PollRunner, RowsKeep, Active
  <1>9. CASE OtherProcessPush \/ LoseMessage \/ (\E s \in Srcs : SourcePush(s))
               \/ UNCHANGED vars
    BY <1>1, <1>9 DEF OtherProcessPush, LoseMessage, SourcePush, vars, storeVars
  <1> QED BY <1>3, <1>4, <1>5, <1>6, <1>7, <1>8, <1>9 DEF Next

-----------------------------------------------------------------------------
(***************************************************************************)
(* Which jobs are claimed.                                                 *)
(***************************************************************************)

\* A row keeps what it is of; it becomes queued by an INSERT and claimed, if it
\* is queued, by a claim.
RowStays(k) ==
    /\ jobs'[k].app = jobs[k].app /\ jobs'[k].src = jobs[k].src
    /\ jobs'[k].rowid = jobs[k].rowid /\ jobs'[k].looked = jobs[k].looked
    /\ \/ /\ jobs'[k].attempts = jobs[k].attempts
          /\ jobs'[k].status = "queued" => jobs[k].status = "queued"
       \/ /\ jobs[k].status = "queued" /\ jobs'[k].status # "queued"
          /\ jobs'[k].attempts = jobs[k].attempts + 1

LEMMA SetFailedStays ==
    ASSUME BaseInv, NEW j \in JobIds, SetFailed(j)
    PROVE  \A k \in JobIds : RowStays(k)
  <1>1. jobs[j] \in Rows
    BY DEF BaseInv, TypeOK
  <1>2. LET f == [jobs[j] EXCEPT !.status = "failed"] IN
        /\ f.app = jobs[j].app /\ f.src = jobs[j].src /\ f.rowid = jobs[j].rowid
        /\ f.looked = jobs[j].looked /\ f.attempts = jobs[j].attempts /\ f.status = "failed"
    BY <1>1 DEF Rows
  <1> QED BY <1>2, SetFailedEffect DEF RowStays, BaseInv

LEMMA RowsStay ==
    ASSUME BaseInv, [Next]_vars, \A h \in Handlers : ~Insert(h)
    PROVE  UNCHANGED nextRow /\ \A k \in JobIds : RowStays(k)
  <1> USE DEF BaseInv
  <1> DEFINE Goal == UNCHANGED nextRow /\ \A k \in JobIds : RowStays(k)
  <1>0. \A h \in Handlers : HandlerOK(h) /\ hs[h] \in HandlerStates
    BY DEF TypeOK, HandlersOK
  <1>1. CASE UNCHANGED <<jobs, nextRow>>
    BY <1>1 DEF RowStays
  <1>2. ASSUME NEW h \in Handlers, DispatchFailed(h) \/ RecordGitOpsFailed(h)
        PROVE  Goal
    <2>1. hs[h].job \in JobIds
      BY <1>0, <1>2 DEF HandlerOK, DispatchFailed, RecordGitOpsFailed,
                        DispatchPCs, CommitPCs
    <2> QED BY <1>2, <2>1, SetFailedStays DEF DispatchFailed, RecordGitOpsFailed
  <1>3. ASSUME NEW h \in Handlers, RecordSucceeded(h) PROVE Goal
    <2> DEFINE j == hs[h].job
               row == [jobs[j] EXCEPT !.status = "succeeded",
                                      !.commit = hs[h].tag, !.deploy = TRUE]
    <2>1. j \in JobIds /\ hs[h].tag \in Tags \cup {None} /\ jobs[j] \in Rows
      BY <1>0, <1>3 DEF HandlerOK, RecordSucceeded, CommitPCs, HandlerStates, TypeOK
    <2>2. /\ row \in Rows /\ row.app = jobs[j].app /\ row.src = jobs[j].src
          /\ row.rowid = jobs[j].rowid /\ row.looked = jobs[j].looked /\ row.attempts = jobs[j].attempts
          /\ row.status = "succeeded"
      BY <2>1 DEF Rows, Statuses
    <2>3. Update(j, row) /\ UNCHANGED nextRow
      BY <1>3 DEF RecordSucceeded
    <2> HIDE DEF row
    <2>4. /\ \A k \in JobIds \ {j} : jobs'[k] = jobs[k]
          /\ jobs'[j] = row \/ jobs'[j] = jobs[j]
      BY <2>1, <2>2, <2>3, UpdateEffect
    <2> QED BY <2>1, <2>2, <2>3, <2>4 DEF RowStays
  <1>4. ASSUME NEW h \in Handlers, HandlerStep(h) PROVE Goal
    <2>1. CASE PathClone(h) \/ PathStat(h) \/ CreateLookup(h) \/ RebuildLookup(h)
                 \/ Delete(h) \/ Stamp(h) \/ Dispatch(h) \/ CommitClone(h)
                 \/ CommitAdd(h) \/ CommitCommit(h) \/ CommitPush(h) \/ CommitError(h)
      BY <1>1, <2>1 DEF PathClone, PathStat, CreateLookup, RebuildLookup, Stamp,
                        Dispatch, CommitClone, CommitAdd, CommitCommit,
                        CommitPush, CommitError, Delete, storeVars
    <2> QED BY <1>2, <1>3, <1>4, <2>1 DEF HandlerStep
  <1>5. ASSUME NEW h \in Handlers, Request(h) \/ Abandon(h) PROVE Goal
    BY <1>1, <1>5 DEF Request, Abandon, CreateBuild, RebuildApp, GithubWebhook,
                      RunnerSucceeded, storeVars
  <1>6. ASSUME NEW j \in JobIds, RunStep(j) \/ RunLost(j) PROVE Goal
    BY <1>1, <1>6, RunStepEffect DEF storeVars
  <1>7. CASE RunnerRunning
    <2>1. PICK r \in reports :
            Update(r.job, [jobs[r.job] EXCEPT !.commit = r.tag, !.deploy = FALSE])
      BY <1>7 DEF RunnerRunning
    <2>2. r.job \in JobIds /\ r.tag \in Tags \cup {None} /\ jobs[r.job] \in Rows
      BY DEF TypeOK, Reports
    <2> DEFINE row == [jobs[r.job] EXCEPT !.commit = r.tag, !.deploy = FALSE]
    <2>3. /\ row \in Rows /\ row.app = jobs[r.job].app /\ row.src = jobs[r.job].src
          /\ row.rowid = jobs[r.job].rowid /\ row.looked = jobs[r.job].looked
          /\ row.attempts = jobs[r.job].attempts
          /\ row.status = jobs[r.job].status
      BY <2>2 DEF Rows
    <2>4. Update(r.job, row) /\ UNCHANGED nextRow
      BY <1>7, <2>1 DEF RunnerRunning
    <2> HIDE DEF row
    <2> QED BY <2>2, <2>3, <2>4, UpdateEffect DEF RowStays
  <1>8. CASE RunnerFailed
    <2>1. PICK r \in reports : SetFailed(r.job) /\ UNCHANGED nextRow
      BY <1>8 DEF RunnerFailed
    <2>2. r.job \in JobIds
      BY DEF TypeOK, Reports
    <2> QED BY <2>1, <2>2, SetFailedStays
  <1>9. CASE PollRunner
    <2>1. PICK j \in JobIds : Claimable(j) /\ jobs' = [jobs EXCEPT ![j] = Claimed(jobs[j])]
      BY <1>9 DEF PollRunner, TypeOK
    <2>2. jobs[j].status = "queued" /\ jobs[j] \in Rows
      BY <2>1 DEF Claimable, TypeOK
    <2>3. /\ jobs'[j] = [jobs[j] EXCEPT !.status = "running", !.attempts = @ + 1]
          /\ \A k \in JobIds \ {j} : jobs'[k] = jobs[k]
      BY <2>1 DEF Claimed, TypeOK
    <2>4. /\ jobs'[j].app = jobs[j].app /\ jobs'[j].src = jobs[j].src
          /\ jobs'[j].rowid = jobs[j].rowid /\ jobs'[j].looked = jobs[j].looked
          /\ jobs'[j].status = "running"
          /\ jobs'[j].attempts = jobs[j].attempts + 1
      BY <2>2, <2>3 DEF Rows
    <2>5. UNCHANGED nextRow
      BY <1>9 DEF PollRunner
    <2> QED BY <2>2, <2>3, <2>4, <2>5 DEF RowStays
  <1>10. CASE OtherProcessPush \/ LoseMessage \/ (\E s \in Srcs : SourcePush(s))
               \/ UNCHANGED vars
    BY <1>1, <1>10 DEF OtherProcessPush, LoseMessage, SourcePush, vars, storeVars
  <1> QED BY <1>4, <1>5, <1>6, <1>7, <1>8, <1>9, <1>10 DEF Next

LEMMA InsertRow ==
    ASSUME BaseInv, NEW h \in Handlers, Insert(h)
    PROVE  /\ hs[h].job \in JobIds /\ rows' = rows \cup {hs[h].job}
           /\ nextRow' = nextRow + 1 /\ nextRow \in Int
           /\ \A k \in JobIds \ {hs[h].job} : jobs'[k] = jobs[k]
           /\ jobs'[hs[h].job].app = hs[h].app /\ jobs'[hs[h].job].src = hs[h].src
           /\ jobs'[hs[h].job].status = "queued" /\ jobs'[hs[h].job].attempts = 0
           /\ jobs'[hs[h].job].rowid = nextRow /\ jobs'[hs[h].job].looked = hs[h].looked
  <1> DEFINE j == hs[h].job
  <1>1. j \in JobIds /\ nextRow \in Int
    BY DEF Insert, BaseInv, FreshOK, TypeOK
  <1>2. /\ rows' = rows \cup {j} /\ nextRow' = nextRow + 1
        /\ \A k \in JobIds \ {j} : jobs'[k] = jobs[k]
        /\ jobs'[j] = [NoRow EXCEPT !.app = hs[h].app, !.src = hs[h].src,
                            !.status = "queued", !.rowid = nextRow,
                            !.looked = hs[h].looked]
    BY <1>1 DEF Insert, BaseInv, TypeOK
  <1>3. NoRow \in Rows /\ NoRow.attempts = 0
    BY ConstantsOK DEF NoRow, Rows, maxAttempts
  <1>4. /\ jobs'[j].app = hs[h].app /\ jobs'[j].src = hs[h].src /\ jobs'[j].rowid = nextRow
        /\ jobs'[j].looked = hs[h].looked /\ jobs'[j].status = "queued" /\ jobs'[j].attempts = 0
    BY <1>2, <1>3 DEF Rows
  <1> QED BY <1>1, <1>2, <1>4

-----------------------------------------------------------------------------
(* Claims                                                                  *)

LEMMA NextClaims == ASSUME BaseInv, ClaimsOK, [Next]_vars PROVE ClaimsOK'
  <1>1. ASSUME NEW h \in Handlers, Insert(h) PROVE ClaimsOK'
    BY <1>1, InsertRow DEF ClaimsOK
  <1>2. ASSUME \A h \in Handlers : ~Insert(h) PROVE ClaimsOK'
    <2> SUFFICES ASSUME NEW j \in JobIds
                 PROVE  /\ jobs'[j].attempts <= 1
                        /\ jobs'[j].status = "queued" => jobs'[j].attempts = 0
      BY DEF ClaimsOK
    <2>1. RowStays(j)
      BY <1>2, RowsStay
    <2> QED BY <2>1 DEF ClaimsOK, RowStays
  <1> QED BY <1>1, <1>2

\* ClaimNextQueuedJob (store.go): a job goes to one polling runner, for any number
\* of concurrent requests, although its answer may be lost and maxAttempts is 2.
THEOREM ClaimsAreOnce == Spec => []ClaimedOnce
  <1>1. Init => ClaimsOK
    BY DEF Init, ClaimsOK, NoRow
  <1>2. BaseInv /\ ClaimsOK /\ [Next]_vars => ClaimsOK'
    BY NextClaims
  <1>3. BaseInv /\ ClaimsOK => ClaimedOnce
    BY DEF ClaimsOK, ClaimedOnce, BaseInv, TypeOK
  <1> QED BY <1>1, <1>2, <1>3, BaseInvariant, PTL DEF Spec

-----------------------------------------------------------------------------
(***************************************************************************)
(* Two builds of an app: only from requests that overlapped.               *)
(***************************************************************************)

\* The check before a build is made: once the latest build of the app is seen
\* settled, or there is none, no build of the app is in progress.
LEMMA LatestSettled ==
    ASSUME BaseInv, NEW a \in Apps, ActiveOK(a),
           AppRows(a) = {} \/ \E j \in JobIds : IsLatest(j, a) /\ ~InProgress(j)
    PROVE  \A k \in AppRows(a) : jobs[k].status \notin Active
  <1> SUFFICES ASSUME NEW k \in AppRows(a), jobs[k].status \in Active PROVE FALSE
    OBVIOUS
  <1>1. PICK j \in JobIds : IsLatest(j, a) /\ ~InProgress(j)
    OBVIOUS
  <1>2. j \in AppRows(a) /\ k <= j
    BY <1>1 DEF IsLatest
  <1>3. j <= k /\ j \in Int /\ k \in Int
    BY <1>2 DEF ActiveOK, AppRows, BaseInv, TypeOK, JobIds
  <1>4. j = k
    BY <1>2, <1>3
  <1> QED BY <1>1, <1>4 DEF InProgress

\* A request that is done, or goes on with its next app, creates nothing yet.
LEMMA FinishPc ==
    ASSUME BaseInv, NEW h \in Handlers, Finish(h)
    PROVE  hs'[h].pc \notin CreatingPCs
  <1>1. hs[h] \in HandlerStates
    BY DEF BaseInv, TypeOK
  <1>2. hs'[h] = Idle \/ hs'[h] = [hs[h] EXCEPT !.pc = "lookup"]
    BY FinishEffect DEF BaseInv
  <1>3. CASE hs'[h] = Idle
    BY <1>3 DEF Idle, CreatingPCs
  <1>4. CASE hs'[h] = [hs[h] EXCEPT !.pc = "lookup"]
    <2>1. hs'[h].pc = "lookup"
      BY <1>1, <1>4 DEF HandlerStates
    <2> QED BY <2>1 DEF CreatingPCs
  <1> QED BY <1>2, <1>3, <1>4

LEMMA AbandonPc ==
    ASSUME BaseInv, NEW h \in Handlers, Abandon(h)
    PROVE  hs'[h].pc \notin CreatingPCs
  <1>1. CASE Finish(h)
    BY <1>1, FinishPc
  <1>2. CASE hs' = [hs EXCEPT ![h] = Idle]
    BY <1>2 DEF BaseInv, TypeOK, Idle, CreatingPCs
  <1> QED BY <1>1, <1>2 DEF Abandon

\* How a request comes to be about to store a build: it looks and finds the app
\* without an active build at the head of its rows, is stamped, or was before.
Looks(g) ==
    /\ UNCHANGED <<rows, jobs, nextRow>>
    /\ hs'[g].looked = nextRow /\ hs'[g].pc # "insert"
    /\ \/ AppRows(hs'[g].app) = {}
       \/ \E j \in JobIds : IsLatest(j, hs'[g].app) /\ ~InProgress(j)

IsStamped(g) ==
    /\ UNCHANGED <<rows, jobs, nextRow>>
    /\ hs[g].pc = "stamp" /\ hs'[g].job = nextId
    /\ hs'[g].app = hs[g].app /\ hs'[g].looked = hs[g].looked

GoesOnCreating(g) ==
    /\ hs[g].pc \in CreatingPCs
    /\ hs'[g].app = hs[g].app /\ hs'[g].looked = hs[g].looked
    /\ hs'[g].pc = "insert" => hs[g].pc = "insert" /\ hs'[g].job = hs[g].job

LEMMA LookingStep ==
    ASSUME BaseInv, NEW g \in Handlers, CreateLookup(g) \/ RebuildLookup(g),
           hs'[g].pc \in CreatingPCs
    PROVE  Looks(g)
  <1>0. hs[g] \in HandlerStates /\ UNCHANGED <<rows, jobs, nextRow>>
    BY DEF BaseInv, TypeOK, CreateLookup, RebuildLookup, storeVars
  <1>1. CASE CreateLookup(g)
    <2>1. ~Finish(g)
      BY FinishPc
    <2>2. CASE AppRows(hs[g].app) = {}
               /\ hs' = [hs EXCEPT ![g].pc = "stamp", ![g].looked = nextRow]
      <3>1. /\ hs'[g].pc = "stamp" /\ hs'[g].looked = nextRow
            /\ hs'[g].app = hs[g].app
        BY <1>0, <2>2 DEF BaseInv, TypeOK, HandlerStates
      <3> QED BY <1>0, <2>2, <3>1 DEF Looks
    <2>3. ASSUME NEW j \in JobIds, IsLatest(j, hs[g].app), jobs[j].status = "failed",
                 hs' = [hs EXCEPT ![g].pc = "delete", ![g].job = j,
                                  ![g].looked = nextRow]
          PROVE  Looks(g)
      <3>1. /\ hs'[g].pc = "delete" /\ hs'[g].looked = nextRow
            /\ hs'[g].app = hs[g].app
        BY <1>0, <2>3 DEF BaseInv, TypeOK, HandlerStates
      <3>2. ~InProgress(j)
        BY <2>3 DEF InProgress, Active
      <3> QED BY <1>0, <2>3, <3>1, <3>2 DEF Looks
    <2> QED BY <1>1, <2>1, <2>2, <2>3 DEF CreateLookup
  <1>2. CASE RebuildLookup(g)
    <2>1. PICK a \in IF hs[g].kind = "push" THEN hs[g].todo ELSE {hs[g].app} :
            \/ \E j \in JobIds :
                 /\ IsLatest(j, a) /\ ~InProgress(j)
                 /\ hs'[g] = [hs[g] EXCEPT !.pc = "stamp", !.app = a,
                        !.src = jobs[j].src, !.todo = hs[g].todo \ {a},
                        !.looked = nextRow]
            \/ hs'[g] = [hs[g] EXCEPT !.todo = hs[g].todo \ {a}]
            \/ hs'[g] = Idle
      BY <1>2 DEF RebuildLookup, BaseInv, TypeOK
    <2>2. ASSUME NEW j \in JobIds, IsLatest(j, a), ~InProgress(j),
                 hs'[g] = [hs[g] EXCEPT !.pc = "stamp", !.app = a,
                        !.src = jobs[j].src, !.todo = hs[g].todo \ {a},
                        !.looked = nextRow]
          PROVE  Looks(g)
      <3>1. hs'[g].pc = "stamp" /\ hs'[g].looked = nextRow /\ hs'[g].app = a
        BY <1>0, <2>2 DEF HandlerStates
      <3> QED BY <1>0, <2>2, <3>1 DEF Looks
    <2>3. CASE hs'[g] = [hs[g] EXCEPT !.todo = hs[g].todo \ {a}]
      <3>1. hs'[g].pc = "lookup"
        BY <1>0, <1>2, <2>3 DEF HandlerStates, RebuildLookup
      <3> QED BY <3>1 DEF CreatingPCs
    <2>4. CASE hs'[g] = Idle
      BY <2>4 DEF Idle, CreatingPCs
    <2> QED BY <2>1, <2>2, <2>3, <2>4
  <1> QED BY <1>1, <1>2

LEMMA CreatorStep ==
    ASSUME BaseInv, [Next]_vars, NEW g \in Handlers, hs'[g].pc \in CreatingPCs
    PROVE  Looks(g) \/ IsStamped(g) \/ GoesOnCreating(g)
  <1>0. hs[g] \in HandlerStates
    BY DEF BaseInv, TypeOK
  <1>1. CASE hs'[g] = hs[g]
    BY <1>1 DEF GoesOnCreating
  <1>2. CASE CreateLookup(g) \/ RebuildLookup(g)
    BY <1>2, LookingStep
  <1>3. CASE Stamp(g)
    <2>1. hs'[g].job = nextId /\ hs'[g].app = hs[g].app /\ hs'[g].looked = hs[g].looked
      BY <1>0, <1>3 DEF Stamp, BaseInv, TypeOK, HandlerStates
    <2> QED BY <1>3, <2>1 DEF IsStamped, Stamp
  <1>4. CASE Delete(g)
    <2>1. /\ hs'[g].pc = "stamp" /\ hs'[g].app = hs[g].app
          /\ hs'[g].looked = hs[g].looked
      BY <1>0, <1>4 DEF Delete, Goto, BaseInv, TypeOK, HandlerStates
    <2> QED BY <1>4, <2>1 DEF GoesOnCreating, Delete, CreatingPCs
  <1>5. CASE Abandon(g)
    BY <1>5, AbandonPc
  <1>6. ASSUME Finish(g) \/ \E pc \in PCs \ CreatingPCs : Goto(g, pc) PROVE FALSE
    <2>1. CASE Finish(g)
      BY <2>1, FinishPc
    <2>2. ASSUME NEW pc \in PCs \ CreatingPCs, Goto(g, pc) PROVE FALSE
      BY <1>0, <2>2 DEF Goto, BaseInv, TypeOK, HandlerStates
    <2> QED BY <1>6, <2>1, <2>2
  <1>7. CASE PathClone(g) \/ PathStat(g) \/ Insert(g) \/ Dispatch(g) \/ DispatchFailed(g)
    BY <1>6, <1>7 DEF PathClone, PathStat, Insert, Dispatch, DispatchFailed, PCs,
                      CreatingPCs
  <1>8. CASE \/ CommitClone(g) \/ CommitAdd(g) \/ CommitCommit(g)
             \/ CommitPush(g) \/ CommitError(g) \/ RecordSucceeded(g)
             \/ RecordGitOpsFailed(g)
    BY <1>6, <1>8 DEF CommitClone, CommitAdd, CommitCommit,
          CommitPush, CommitError, RecordSucceeded, RecordGitOpsFailed, PCs, CreatingPCs
  <1>9. CASE Request(g)
    <2>1. hs'[g].pc \in {"path_clone", "lookup", "clone"} \/ hs'[g] = hs[g]
      <3>1. Idle \in HandlerStates /\ hs \in [Handlers -> HandlerStates]
        BY IdleType DEF BaseInv, TypeOK
      <3>2. CASE CreateBuild(g)
        BY <3>1, <3>2 DEF CreateBuild, HandlerStates
      <3>3. CASE RebuildApp(g)
        BY <3>1, <3>3 DEF RebuildApp, HandlerStates
      <3>4. CASE GithubWebhook(g)
        BY <3>1, <3>4 DEF GithubWebhook, HandlerStates
      <3>5. CASE RunnerSucceeded(g)
        BY <3>1, <3>5 DEF RunnerSucceeded, HandlerStates
      <3> QED BY <1>9, <3>2, <3>3, <3>4, <3>5 DEF Request
    <2> QED BY <1>1, <2>1 DEF CreatingPCs
  <1>10. CASE HandlerStep(g)
    BY <1>2, <1>3, <1>4, <1>7, <1>8, <1>10 DEF HandlerStep
  <1>11. ASSUME NEW h \in Handlers, h # g, Request(h) \/ HandlerStep(h) \/ Abandon(h)
         PROVE  hs'[g] = hs[g]
    BY <1>11, OthersSame
  <1>12. CASE \/ \E j \in JobIds : RunStep(j) \/ RunLost(j)
              \/ RunnerRunning \/ RunnerFailed \/ PollRunner
              \/ \E s \in Srcs : SourcePush(s)
              \/ OtherProcessPush \/ LoseMessage \/ UNCHANGED vars
    <2>1. UNCHANGED hs
      BY <1>12, RunStepEffect DEF RunnerRunning, RunnerFailed, PollRunner,
         SourcePush, OtherProcessPush, LoseMessage, vars
    <2> QED BY <1>1, <2>1
  <1> QED BY <1>1, <1>5, <1>9, <1>10, <1>11, <1>12 DEF Next

\* Rows keep what Overlapped is about.
LEMMA OverlappedStays ==
    ASSUME BaseInv, [Next]_vars, NEW a \in Apps, Overlapped(a)
    PROVE  Overlapped(a)'
  <1>1. PICK j, k \in JobIds :
          /\ j # k /\ jobs[j].app = a /\ jobs[k].app = a
          /\ jobs[j].looked <= jobs[k].rowid /\ jobs[k].looked <= jobs[j].rowid
    BY DEF Overlapped
  <1>2. ASSUME NEW i \in JobIds, jobs[i].app = a
        PROVE  /\ jobs'[i].app = a /\ jobs'[i].looked = jobs[i].looked
               /\ jobs'[i].rowid = jobs[i].rowid
    <2>1. CASE \A h \in Handlers : ~Insert(h)
      BY <1>2, <2>1, RowsStay DEF RowStays
    <2>2. ASSUME NEW h \in Handlers, Insert(h) PROVE jobs'[i] = jobs[i]
      <3>1. hs[h].job # i
        BY <1>2, <2>2, ConstantsOK DEF Insert, BaseInv, FreshOK, RowsOK
      <3> QED BY <2>2, <3>1, InsertRow
    <2> QED BY <1>2, <2>1, <2>2
  <1> QED BY <1>1, <1>2 DEF Overlapped

\* The history a row keeps is of numbers.
LEMMA Numbers ==
    ASSUME BaseInv
    PROVE  /\ nextRow \in Int /\ nextId \in Int /\ rows \subseteq JobIds
           /\ \A j \in JobIds : j \in Int /\ jobs[j].rowid \in Int /\ jobs[j].looked \in Int
           /\ \A h \in Handlers : hs[h].job \in Int /\ hs[h].looked \in Int
  BY DEF BaseInv, TypeOK, JobIds, Rows, HandlerStates

LEMMA InsertOverlap ==
    ASSUME BaseInv, BaseInv', OverlapInv, [Next]_vars, NEW h \in Handlers, Insert(h)
    PROVE  OverlapInv'
  <1>. PICK j : j = hs[h].job
    OBVIOUS
  <1>. PICK n : n = nextRow
    OBVIOUS
  <1>. PICK L : L = hs[h].looked
    OBVIOUS
  <1>1. /\ j \in JobIds /\ rows' = rows \cup {j}
        /\ nextRow' = n + 1 /\ n \in Int /\ n # 0 /\ L \in Int /\ L <= n
        /\ \A k \in JobIds \ {j} : jobs'[k] = jobs[k]
        /\ jobs'[j].app = hs[h].app /\ jobs'[j].status = "queued"
        /\ jobs'[j].rowid = n /\ jobs'[j].looked = L
        /\ ~Stored(j) /\ hs[h].pc = "insert"
    <2>1. hs[h].pc \in CreatingPCs
      BY DEF Insert, CreatingPCs
    <2>2. n # 0
      BY DEF BaseInv, TypeOK
    <2> QED BY <2>1, <2>2, InsertRow, Numbers
            DEF OverlapInv, LooksOK, Insert, BaseInv, FreshOK
  <1>2. /\ \A k \in JobIds : k # j =>
             (/\ Stored(k) => /\ jobs[k].rowid < n /\ jobs[k].looked <= jobs[k].rowid
              /\ (jobs'[k].rowid # 0 <=> Stored(k)))
        /\ \A k \in JobIds : Stored(k) /\ j < k => L <= jobs[k].rowid
    BY <1>1 DEF OverlapInv, LooksOK, OrderOK, Stored
  <1>3. ASSUME NEW g \in Handlers, hs'[g].pc \in CreatingPCs
        PROVE  /\ hs[g].pc \in CreatingPCs /\ hs'[g].app = hs[g].app
               /\ hs'[g].looked = hs[g].looked /\ hs[g].looked <= n
               /\ hs'[g].pc = "insert" => hs[g].pc = "insert" /\ hs'[g].job = hs[g].job
    <2>1. ~Looks(g) /\ ~IsStamped(g)
      BY <1>1 DEF Looks, IsStamped
    <2> QED BY <1>3, <2>1, CreatorStep DEF GoesOnCreating, OverlapInv, LooksOK
  <1>4. LooksOK'
    <2>1. ASSUME NEW k \in JobIds, Stored(k)'
          PROVE  jobs'[k].looked <= jobs'[k].rowid /\ jobs'[k].rowid < nextRow'
      <3>1. CASE k = j
        BY <1>1, <3>1
      <3>2. CASE k # j
        BY <1>1, <1>2, <2>1, <3>2, Numbers DEF Stored
      <3> QED BY <3>1, <3>2
    <2>2. ASSUME NEW g \in Handlers, hs'[g].pc \in CreatingPCs
          PROVE  hs'[g].looked <= nextRow'
      BY <1>1, <1>3, <2>2, Numbers
    <2> QED BY <2>1, <2>2 DEF LooksOK
  <1>5. OrderOK'
    <2>1. ASSUME NEW i \in JobIds, NEW k \in JobIds, Stored(i)', Stored(k)',
                 i < k, jobs'[k].rowid < jobs'[i].rowid
          PROVE  jobs'[i].looked <= jobs'[k].rowid
      <3>1. CASE i = j
        BY <1>1, <1>2, <2>1, <3>1, Numbers DEF Stored
      <3>2. CASE k = j
        BY <1>1, <1>2, <2>1, <3>2, Numbers DEF Stored
      <3>3. CASE i # j /\ k # j
        BY <1>1, <1>2, <2>1, <3>3 DEF OverlapInv, OrderOK, Stored
      <3> QED BY <3>1, <3>2, <3>3
    <2>2. ASSUME NEW g \in Handlers, hs'[g].pc = "insert",
                 NEW k \in JobIds, Stored(k)', hs'[g].job < k
          PROVE  hs'[g].looked <= jobs'[k].rowid
      <3>1. hs[g].pc = "insert" /\ hs'[g].job = hs[g].job /\ hs'[g].looked = hs[g].looked
            /\ hs[g].looked <= n
        BY <1>3, <2>2 DEF CreatingPCs
      <3>2. CASE k = j
        BY <1>1, <3>1, <3>2
      <3>3. CASE k # j
        BY <1>1, <1>2, <2>2, <3>1, <3>3 DEF OverlapInv, OrderOK, Stored
      <3> QED BY <3>2, <3>3
    <2> QED BY <2>1, <2>2 DEF OrderOK
  <1>6. ASSUME NEW a \in Apps PROVE Overlapped(a)' \/ ActiveOK(a)'
    <2>1. CASE Overlapped(a)
      BY <2>1, OverlappedStays
    <2>2. CASE a = hs[h].app /\ ActiveOK(a) /\ ~Overlapped(a)'
      <3>1. ASSUME NEW k \in AppRows(a)
            PROVE  jobs[k].status \notin Active /\ k < j
        <4>1. k \in JobIds /\ k # j /\ Stored(k) /\ jobs[k].app = a
          BY <1>1 DEF AppRows, BaseInv, RowsOK, TypeOK
        <4>2. jobs'[k] = jobs[k]
          BY <1>1, <4>1
        <4>3. jobs[k].looked <= jobs[k].rowid /\ jobs[k].rowid < n
          BY <1>2, <4>1
        <4>4. jobs[k].looked <= n
          BY <1>1, <4>1, <4>3, Numbers
        <4>5. ~(L <= jobs[k].rowid)
          BY <1>1, <2>2, <4>1, <4>2, <4>4 DEF Overlapped
        <4>6. jobs[k].status \notin Active
          BY <1>1, <2>2, <3>1, <4>5 DEF ActiveOK, CreatingPCs
        <4>7. ~(j < k)
          BY <1>2, <4>1, <4>5
        <4> QED BY <1>1, <4>1, <4>6, <4>7, Numbers
      <3>2. \A k \in AppRows(a)' :
              k = j \/ (k \in AppRows(a) /\ jobs'[k] = jobs[k])
        BY <1>1 DEF AppRows, BaseInv, TypeOK
      <3>3. j \in Int
        BY <1>1, Numbers
      <3>4. ASSUME NEW i \in AppRows(a)', NEW k \in AppRows(a)', jobs'[i].status \in Active
            PROVE  k <= i
        <4>1. i = j
          BY <3>1, <3>2, <3>4
        <4> QED BY <3>1, <3>2, <3>3, <4>1, Numbers DEF AppRows
      <3>5. ASSUME NEW g \in Handlers, hs'[g].pc \in CreatingPCs,
                   NEW k \in AppRows(a)', jobs'[k].status \in Active
            PROVE  hs'[g].looked <= jobs'[k].rowid
        <4>1. k = j
          BY <3>1, <3>2, <3>5
        <4> QED BY <1>1, <1>3, <3>5, <4>1
      <3> QED BY <3>4, <3>5 DEF ActiveOK
    <2>3. CASE a # hs[h].app /\ ActiveOK(a)
      <3>1. \A k \in AppRows(a)' : k \in AppRows(a) /\ jobs'[k] = jobs[k]
        BY <1>1, <2>3 DEF AppRows, BaseInv, TypeOK
      <3>2. ASSUME NEW g \in Handlers, hs'[g].pc \in CreatingPCs, hs'[g].app = a,
                   NEW k \in AppRows(a)', jobs'[k].status \in Active
            PROVE  hs'[g].looked <= jobs'[k].rowid
        BY <1>3, <2>3, <3>1, <3>2 DEF ActiveOK
      <3> QED BY <2>3, <3>1, <3>2 DEF ActiveOK
    <2> QED BY <2>1, <2>2, <2>3 DEF OverlapInv
  <1> QED BY <1>4, <1>5, <1>6 DEF OverlapInv

LEMMA NextOverlap ==
    ASSUME BaseInv, BaseInv', OverlapInv, [Next]_vars PROVE OverlapInv'
  <1>1. ASSUME NEW h \in Handlers, Insert(h) PROVE OverlapInv'
    BY <1>1, InsertOverlap
  <1>2. ASSUME \A h \in Handlers : ~Insert(h) PROVE OverlapInv'
    <2>1. /\ UNCHANGED nextRow
          /\ \A k \in JobIds : /\ jobs'[k].rowid = jobs[k].rowid
                               /\ jobs'[k].looked = jobs[k].looked
          /\ rows \subseteq JobIds
      BY <1>2, RowsStay DEF RowStays, BaseInv, TypeOK
    <2>2. RowsKeep
      BY <1>2, OnlyInsertActivates
    <2>3. \A k \in JobIds : Stored(k)' <=> Stored(k)
      BY <2>1 DEF Stored
    <2>4. LooksOK'
      <3>1. ASSUME NEW g \in Handlers, hs'[g].pc \in CreatingPCs
            PROVE  hs'[g].looked <= nextRow
        BY <3>1, CreatorStep, Numbers
           DEF Looks, IsStamped, GoesOnCreating, OverlapInv, LooksOK, CreatingPCs
      <3> QED BY <2>1, <2>3, <3>1 DEF OverlapInv, LooksOK
    <2>5. OrderOK'
      <3>1. ASSUME NEW g \in Handlers, hs'[g].pc = "insert",
                   NEW k \in JobIds, Stored(k), hs'[g].job < k
            PROVE  hs'[g].looked <= jobs[k].rowid
        <4>1. hs'[g].pc \in CreatingPCs /\ ~Looks(g)
          BY <3>1 DEF CreatingPCs, Looks
        <4>2. CASE IsStamped(g)
          <5>1. k < nextId
            BY <3>1 DEF BaseInv, FreshOK
          <5> QED BY <3>1, <4>2, <5>1, Numbers DEF IsStamped
        <4>3. CASE GoesOnCreating(g)
          BY <3>1, <4>3 DEF GoesOnCreating, OverlapInv, OrderOK
        <4> QED BY <4>1, <4>2, <4>3, CreatorStep
      <3> QED BY <2>1, <2>3, <3>1 DEF OverlapInv, OrderOK
    <2>6. ASSUME NEW a \in Apps PROVE Overlapped(a)' \/ ActiveOK(a)'
      <3>1. CASE Overlapped(a)
        BY <3>1, OverlappedStays
      <3>2. CASE ActiveOK(a)
        <4>1. \A k \in AppRows(a)' : /\ k \in AppRows(a)
                                     /\ jobs'[k].status \in Active => jobs[k].status \in Active
          BY <2>2 DEF RowsKeep, AppRows
        <4>2. \A j, k \in AppRows(a)' : jobs'[j].status \in Active => k <= j
          BY <3>2, <4>1 DEF ActiveOK
        <4>3. ASSUME NEW g \in Handlers, hs'[g].pc \in CreatingPCs, hs'[g].app = a,
                     NEW k \in AppRows(a)', jobs'[k].status \in Active
              PROVE  hs'[g].looked <= jobs'[k].rowid
          <5>1. k \in JobIds /\ k \in AppRows(a) /\ jobs[k].status \in Active
            BY <2>1, <4>1, <4>3 DEF AppRows
          <5>2. CASE Looks(g)
            BY <3>2, <4>3, <5>1, <5>2, LatestSettled DEF Looks
          <5>3. CASE IsStamped(g) \/ GoesOnCreating(g)
            BY <2>1, <3>2, <4>3, <5>1, <5>3
               DEF IsStamped, GoesOnCreating, ActiveOK, CreatingPCs
          <5> QED BY <4>3, <5>2, <5>3, CreatorStep
        <4> QED BY <4>2, <4>3 DEF ActiveOK
      <3> QED BY <3>1, <3>2 DEF OverlapInv
    <2> QED BY <2>4, <2>5, <2>6 DEF OverlapInv
  <1> QED BY <1>1, <1>2

LEMMA OverlapHolds == Spec => []OverlapInv
  <1>1. Init => OverlapInv
    <2> SUFFICES ASSUME Init PROVE OverlapInv
      OBVIOUS
    <2> USE DEF Init, Idle, NoRow, Stored, CreatingPCs, AppRows
    <2>1. LooksOK /\ OrderOK
      BY DEF LooksOK, OrderOK
    <2>2. \A a \in Apps : ActiveOK(a)
      BY DEF ActiveOK
    <2> QED BY <2>1, <2>2 DEF OverlapInv
  <1>2. BaseInv /\ BaseInv' /\ OverlapInv /\ [Next]_vars => OverlapInv'
    BY NextOverlap
  <1> QED BY <1>1, <1>2, BaseInvariant, PTL DEF Spec

\* createBuild, rebuildApp and githubWebhook look at the app's latest build by
\* created_at, before a stamp and an INSERT of their own: for any number of
\* concurrent requests, and whatever is lost, late, refused or cut off, an app
\* has two active builds only if two of its requests looked before either's
\* build was stored.
THEOREM TwoBuildsOverlap == Spec => []OneActiveUnlessOverlapped
  <1>1. BaseInv /\ OverlapInv => OneActiveUnlessOverlapped
    <2> SUFFICES ASSUME BaseInv, NEW a \in Apps, ActiveOK(a), NEW j \in AppRows(a),
                        NEW k \in AppRows(a), jobs[j].status \in Active,
                        jobs[k].status \in Active
                 PROVE  j = k
      BY DEF OneActiveUnlessOverlapped, OneActive, OverlapInv
    <2>1. j \in Int /\ k \in Int /\ j <= k /\ k <= j
      BY Numbers DEF AppRows, ActiveOK
    <2> QED BY <2>1
  <1> QED BY <1>1, BaseInvariant, OverlapHolds, PTL
=============================================================================
