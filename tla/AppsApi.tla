------------------------------ MODULE AppsApi ------------------------------
(***************************************************************************)
(* Rollback, restore and suspend of the API (internal/api/handlers/apps.go)*)
(* over the Argo CD Applications of the cluster and the GitOps repository. *)
(* A handler is a goroutine; handlers interleave between their Kubernetes  *)
(* calls and their git calls, and share the clone directory.  A call that  *)
(* fails ends the handler where it stands: what was changed stays changed. *)
(***************************************************************************)
EXTENDS RollbackRepo

CONSTANTS
    Handlers,  \* concurrent requests
    Faults     \* may calls fail, handlers die, other clones push to main

ASSUME ApiConstants ==
    /\ MaxCommits \in Nat \ {0} /\ Faults \in BOOLEAN /\ None \notin Commits

VARIABLES
    target,     \* app -> the Application's targetRevision
    hs,         \* handler -> its local state
    asked,      \* app -> rollback targets accepted since it was last on main
    unrecorded, \* apps patched by a request that has not recorded it
    mixed       \* apps with a request that overlapped another one, and since
                \* then none that ran alone and was recorded

vars == <<gitVars, target, hs, asked, unrecorded, mixed>>

PCs == {"check", "validate", "branch_clone", "branch_config", "branch_ref", "branch_push", "patch",
        "clone", "read", "write", "commit", "push", "ff_ref", "ff_push"}

HandlerStates ==
    [pc : PCs \cup {"idle"}, kind : {"rollback", "restore", "none"},
     app : Apps \cup {None}, sha : MaybeCommit, file : Files,
     alone : BOOLEAN]  \* history: no other request has overlapped this one

NoFile == [a \in Apps |-> Untouched]
Idle == [pc |-> "idle", kind |-> "none", app |-> None, sha |-> None, file |-> NoFile,
         alone |-> TRUE]

Init ==
    /\ GitInit
    /\ target = [a \in Apps |-> "main"]
    /\ hs = [h \in Handlers |-> Idle]
    /\ asked = [a \in Apps |-> {}]
    /\ unrecorded = {}
    /\ mixed = {}

-----------------------------------------------------------------------------
At(h, pc) == hs[h].pc = pc
Goto(h, pc) == hs' = [hs EXCEPT ![h].pc = pc]
Reply(h) == hs' = [hs EXCEPT ![h] = Idle]
Cluster == <<target, asked, unrecorded, mixed>>

Busy == {k \in Handlers : ~At(k, "idle")}
BusyApps == {hs[k].app : k \in Busy}

\* A request comes while those of Busy are under way.
Overlap(k) == [hs[k] EXCEPT !.alone = At(k, "idle")]
Start(h, request) ==
    /\ hs' = [k \in Handlers |->
               IF k = h THEN [request EXCEPT !.pc = "check", !.alone = Busy = {}] ELSE Overlap(k)]
    /\ mixed' = mixed \cup BusyApps \cup (IF Busy = {} THEN {} ELSE {request.app})
    /\ UNCHANGED <<gitVars, target, asked, unrecorded>>

\* Rollback and Restore with a well-formed body; GetApplication finds the app.
Rollback(h, a, c) ==
    At(h, "idle") /\ Start(h, [Idle EXCEPT !.kind = "rollback", !.app = a, !.sha = c])

Restore(h, a) ==
    At(h, "idle") /\ Start(h, [Idle EXCEPT !.kind = "restore", !.app = a])

InRollback(a) == target[a] = "rollback"

\* GetAppTargetRevision: 409 if the state is not the one the request is for.
CheckTarget(h) ==
    /\ At(h, "check")
    /\ IF InRollback(hs[h].app) = (hs[h].kind = "rollback")
       THEN Reply(h)
       ELSE Goto(h, IF hs[h].kind = "rollback" THEN "validate" ELSE "patch")
    /\ UNCHANGED <<gitVars, Cluster>>

\* Its error is dropped and reads as "": a rollback goes on, a restore does not.
CheckFails(h) ==
    /\ Faults /\ At(h, "check")
    /\ IF hs[h].kind = "rollback" THEN Goto(h, "validate") ELSE Reply(h)
    /\ UNCHANGED <<gitVars, Cluster>>

\* ValidateSHA: a fresh clone has the commit, or 422.
Validate(h) ==
    /\ At(h, "validate")
    /\ Clone
    /\ IF hs[h].sha \in main.hist
       THEN /\ Goto(h, "branch_clone")
            /\ asked' = [asked EXCEPT ![hs[h].app] = @ \cup {hs[h].sha}]
       ELSE Reply(h) /\ UNCHANGED asked
    /\ UNCHANGED <<target, unrecorded, mixed>>

\* CreateRollbackBranch.
BranchClone(h) ==
    /\ At(h, "branch_clone") /\ Clone /\ Goto(h, "branch_config") /\ UNCHANGED Cluster

BranchConfig(h) ==
    /\ At(h, "branch_config") /\ CreateBranch(hs[h].app)
    /\ Goto(h, "branch_ref") /\ UNCHANGED Cluster

BranchRef(h) ==
    /\ At(h, "branch_ref") /\ SetReference(hs[h].app, hs[h].sha)
    /\ Goto(h, "branch_push") /\ UNCHANGED Cluster

BranchPush(h) ==
    /\ At(h, "branch_push") /\ ForcePush(hs[h].app)
    /\ Goto(h, "patch") /\ UNCHANGED Cluster

\* Mutant of Patch: the Application is patched to the commit, not the branch.
PatchToCommit(h) ==
    /\ At(h, "patch")
    /\ Goto(h, "clone")
    /\ LET a == hs[h].app IN
       /\ unrecorded' = unrecorded \cup {a}
       /\ target' = [target EXCEPT ![a] = IF hs[h].kind = "rollback" THEN "commit" ELSE "main"]
       /\ asked' = IF hs[h].kind = "rollback" THEN asked ELSE [asked EXCEPT ![a] = {}]
    /\ UNCHANGED <<gitVars, mixed>>

\* Mutant of Patch: a restore releases every app.
PatchReleasesAll(h) ==
    /\ At(h, "patch")
    /\ Goto(h, "clone")
    /\ LET a == hs[h].app IN
       /\ unrecorded' = unrecorded \cup {a}
       /\ IF hs[h].kind = "rollback"
          THEN target' = [target EXCEPT ![a] = "rollback"] /\ UNCHANGED asked
          ELSE target' = [b \in Apps |-> "main"] /\ asked' = [asked EXCEPT ![a] = {}]
    /\ UNCHANGED <<gitVars, mixed>>

\* PatchTargetRevision to rollback/<app> or to main.
Patch(h) ==
    /\ At(h, "patch")
    /\ Goto(h, "clone")
    /\ LET a == hs[h].app IN
       /\ unrecorded' = unrecorded \cup {a}
       /\ IF hs[h].kind = "rollback"
          THEN target' = [target EXCEPT ![a] = "rollback"] /\ UNCHANGED asked
          ELSE /\ target' = [target EXCEPT ![a] = "main"]
               /\ asked' = [asked EXCEPT ![a] = {}]
    /\ UNCHANGED <<gitVars, mixed>>

\* RecordRollback and RecordRestore.  Their errors are printed; the reply is 200.
RecordClone(h) == At(h, "clone") /\ Clone /\ Goto(h, "read") /\ UNCHANGED Cluster

RecordRead(h) ==
    /\ At(h, "read")
    /\ hs' = [hs EXCEPT ![h].pc = "write",
                        ![h].file = [a \in Apps |-> ReadRollbacksFromDisk(a)]]
    /\ UNCHANGED <<gitVars, Cluster>>

\* Mutant of Entry: a restore leaves the status as it is.
EntryKeepsStatus(h, r) ==
    IF hs[h].kind = "rollback"
    THEN [r EXCEPT !.status = "rollback", !.active = hs[h].sha]
    ELSE [r EXCEPT !.active = None]

\* The app's record as the new entry leaves it.
Entry(h, r) ==
    IF hs[h].kind = "rollback"
    THEN [r EXCEPT !.status = "rollback", !.active = hs[h].sha]
    ELSE [r EXCEPT !.status = "normal", !.active = None]

RecordWrite(h) ==
    /\ At(h, "write")
    /\ WriteRollbacks([hs[h].file EXCEPT ![hs[h].app] = Entry(h, @)])
    /\ hs' = [hs EXCEPT ![h].pc = "commit", ![h].file = NoFile]
    /\ UNCHANGED Cluster

RecordCommit(h) == At(h, "commit") /\ Commit /\ Goto(h, "push") /\ UNCHANGED Cluster

RecordPush(h) ==
    /\ At(h, "push")
    /\ PushHeads
    /\ unrecorded' = unrecorded \ {hs[h].app}
    /\ mixed' = IF hs[h].alone THEN mixed \ {hs[h].app} ELSE mixed
    /\ IF hs[h].kind = "restore" THEN Goto(h, "ff_ref") ELSE Reply(h)
    /\ UNCHANGED <<target, asked>>

\* fastForwardBranch: rollback/<app> is forced to the clone's HEAD.
FastForwardRef(h) ==
    /\ At(h, "ff_ref") /\ SetReference(hs[h].app, wd.local.head)
    /\ Goto(h, "ff_push") /\ UNCHANGED Cluster

FastForwardPush(h) ==
    /\ At(h, "ff_push") /\ ForcePush(hs[h].app) /\ Reply(h) /\ UNCHANGED Cluster

\* The branch is in the config already: 500.  Or, printed and answered by 200:
\* WriteFile finds no directory, or the remote refuses the push.
CallRefused(h) ==
    /\ \/ At(h, "branch_config") /\ hs[h].app \in wd.conf
       \/ At(h, "write") /\ ~hasDir
       \/ At(h, "push") /\ ~PushAccepted
    /\ Reply(h)
    /\ UNCHANGED <<gitVars, Cluster>>

\* Any call fails, or the process dies: the handler is gone.
Fail(h) ==
    /\ Faults /\ ~At(h, "idle")
    /\ Reply(h)
    /\ UNCHANGED <<gitVars, Cluster>>

\* ListRollbacks and CreateApp's check of the app directory clone and read.  So
\* does SuspendApp: yaml.v2 decodes the nested spec to a map with interface keys,
\* patchDeploymentReplicas finds no string-keyed one, and nothing is written.
ReadOnlyRequest(h) ==
    /\ At(h, "idle")
    /\ Clone
    /\ hs' = [k \in Handlers |-> Overlap(k)]
    /\ mixed' = mixed \cup BusyApps
    /\ UNCHANGED <<target, asked, unrecorded>>

OtherProcessPush == Faults /\ ForeignPush /\ UNCHANGED <<Cluster, hs>>

Request(h) ==
    \/ \E a \in Apps : Restore(h, a) \/ \E c \in Commits : Rollback(h, a, c)
    \/ ReadOnlyRequest(h)

HandlerStep(h) ==
    \/ CheckTarget(h) \/ Validate(h) \/ BranchClone(h) \/ BranchConfig(h)
    \/ BranchRef(h) \/ BranchPush(h) \/ Patch(h)
    \/ RecordClone(h) \/ RecordRead(h) \/ RecordWrite(h) \/ RecordCommit(h)
    \/ RecordPush(h) \/ FastForwardRef(h) \/ FastForwardPush(h) \/ CallRefused(h)

ServerStep == \E h \in Handlers : Request(h) \/ HandlerStep(h)
FaultStep == OtherProcessPush \/ \E h \in Handlers : CheckFails(h) \/ Fail(h)

Next == ServerStep \/ FaultStep

Spec == Init /\ [][Next]_vars

-----------------------------------------------------------------------------
TypeOK ==
    /\ GitTypeOK
    /\ target \in [Apps -> {"main", "rollback"}]
    /\ hs \in [Handlers -> HandlerStates]
    /\ asked \in [Apps -> SUBSET Commits]
    /\ unrecorded \subseteq Apps
    /\ mixed \subseteq Apps

\* "Rollback triggers a rollback to a previous gitops-lab commit": while Argo CD
\* follows an app's rollback branch, the branch exists and is at a commit the
\* app was asked to be rolled back to since it last followed main.  Two requests
\* that overlap break it.
PinnedIsAsked == \A a \in Apps : InRollback(a) => branch[a] \in asked[a]

\* Overlapping requests harm nobody else: whatever the requests of other apps do
\* to the shared clone and push from it, at the same time or before, and
\* wherever a restore's fast-forward or a request was cut off, an app is pinned
\* where it was asked to be, unless a request of its own has overlapped another;
\* and then until one of its requests runs alone and is recorded.
PinnedUnlessMixed == \A a \in Apps \ mixed : InRollback(a) => branch[a] \in asked[a]

\* rollbacks.yaml on main, one file for all apps and written whole, disagrees
\* with the cluster at most about apps whose last change could not be recorded
\* or whose requests overlapped another one; what is written for those puts
\* nothing wrong about the others, and the next record written alone is right.
RecordAgrees ==
    \A a \in Apps \ (unrecorded \cup mixed) :
      /\ (main.file[a].status = "rollback") = InRollback(a)
      /\ main.file[a].active # None => InRollback(a) /\ main.file[a].active \in asked[a]

\* What is known of each app: nothing while it is mixed.
AskedOf == [a \in Apps |-> IF a \in mixed THEN {} ELSE asked[a]]
PinOf == [a \in Apps |-> IF InRollback(a) /\ a \notin mixed THEN branch[a] ELSE None]

Pins == INSTANCE AppPins WITH asked <- AskedOf, pin <- PinOf, lost <- mixed

\* The handlers implement AppPins: an app is pinned, moved and released in one
\* step each, never passes through a commit nobody asked for, is lost sight of
\* only when its requests overlap, and is found again pinned where it was asked
\* to be, or following main.
ImplementsPins == Pins!Spec
=============================================================================
