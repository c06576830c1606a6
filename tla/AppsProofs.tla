----------------------------- MODULE AppsProofs -----------------------------
(***************************************************************************)
(* Proofs about rollback and restore, for any apps, commits and number of  *)
(* concurrent requests, with every fault.  Requests that overlap can harm  *)
(* the apps they are for (the run "unpinned"); that they harm no other app *)
(* and that the harm is over once a request of the app runs alone and is   *)
(* recorded rests on two things.  A request that nobody overlaps finds in  *)
(* the clone and in the cluster what it put there.  And of an app that no  *)
(* request is for, a clone that anybody pushes main from holds what main   *)
(* holds, however many requests write to it in turn.                       *)
(***************************************************************************)
EXTENDS AppsApi, TLAPS

BranchPCs == {"branch_clone", "branch_config", "branch_ref", "branch_push"}
RecordPCs == {"clone", "read", "write", "commit", "push"}
ClonePCs == {"read", "write", "commit", "push"}

\* What a request is for, at each place it may be at.
WellFormed(h) ==
    /\ hs[h].pc # "idle" => hs[h].app \in Apps /\ hs[h].kind \in {"rollback", "restore"}
    /\ hs[h].kind = "rollback" => hs[h].sha \in Commits
    /\ hs[h].pc \in BranchPCs \cup {"validate"} => hs[h].kind = "rollback"
    /\ hs[h].pc \in {"ff_ref", "ff_push"} => hs[h].kind = "restore"

TypeInv == TypeOK /\ \A h \in Handlers : WellFormed(h)

\* The record a request is going to leave.
Recorded(h) ==
    IF hs[h].kind = "rollback" THEN [status |-> "rollback", active |-> hs[h].sha] ELSE Untouched

\* The commit a rollback goes to was asked for, and what the clone and the
\* branch hold is what this request put there.
Branching(h) ==
    /\ hs[h].pc \in BranchPCs => hs[h].sha \in asked[hs[h].app]
    /\ hs[h].pc = "branch_push" => wd.ref[hs[h].app] = hs[h].sha
    /\ hs[h].pc = "patch" /\ hs[h].kind = "rollback" =>
         branch[hs[h].app] = hs[h].sha /\ hs[h].sha \in asked[hs[h].app]

\* Once the Application is patched it stays so until the request is over.
Patched(h) ==
    /\ hs[h].pc \in RecordPCs =>
         /\ hs[h].app \in unrecorded
         /\ hs[h].kind = "rollback" =>
              /\ InRollback(hs[h].app)
              /\ hs[h].sha \in asked[hs[h].app] /\ branch[hs[h].app] \in asked[hs[h].app]
         /\ hs[h].kind = "restore" => ~InRollback(hs[h].app)
    /\ hs[h].pc \in {"ff_ref", "ff_push"} => ~InRollback(hs[h].app)

\* The app's record on its way to main; its branch is not in the clone.
Writing(h) ==
    /\ hs[h].pc \in ClonePCs => wd.ref[hs[h].app] = None
    /\ hs[h].pc = "commit" => wd.index[hs[h].app] = Recorded(h)
    /\ hs[h].pc = "push" => wd.local.file[hs[h].app] = Recorded(h)

Handled(h) == Branching(h) /\ Patched(h) /\ Writing(h)

\* A request under way that nobody has overlapped is the only one; one that
\* somebody has overlapped is for a mixed app.
Alone(h) == ~At(h, "idle") /\ hs[h].alone
Sole(h) ==
    /\ Alone(h) => \A k \in Handlers : k # h => At(k, "idle")
    /\ ~At(h, "idle") /\ ~hs[h].alone => hs[h].app \in mixed

\* What is promised of one app.
PinAt(a) == InRollback(a) => branch[a] \in asked[a]
RecordAt(a) ==
    a \notin unrecorded =>
      /\ (main.file[a].status = "rollback") = InRollback(a)
      /\ main.file[a].active # None => InRollback(a) /\ main.file[a].active \in asked[a]

\* An app that no request is for, and the clone as far as that app goes.
AtRest(a) == a \in Apps /\ a \notin mixed /\ a \notin BusyApps
CloneGood(a) ==
    wd.ref[a] = None /\ wd.index[a] = main.file[a] /\ wd.local.file[a] = main.file[a]

Resting ==
    \A h \in Handlers, a \in Apps : AtRest(a) =>
      /\ hs[h].pc \in ClonePCs => CloneGood(a)
      /\ hs[h].pc = "write" => hs[h].file[a] = main.file[a]

AppsInv ==
    /\ TypeInv /\ Resting
    /\ \A a \in Apps \ mixed : PinAt(a) /\ RecordAt(a)
    /\ \A h \in Handlers : Sole(h) /\ (Alone(h) => Handled(h))

-----------------------------------------------------------------------------
(***************************************************************************)
(* How a handler moves on.                                                 *)
(***************************************************************************)
LEMMA IdleTyped == Idle \in HandlerStates
BY DEF Idle, HandlerStates, NoFile, Files, Untouched, Records, MaybeCommit

LEMMA GotoFacts ==
    ASSUME hs \in [Handlers -> HandlerStates], NEW h \in Handlers, NEW p \in PCs, Goto(h, p)
    PROVE  /\ hs' \in [Handlers -> HandlerStates]
           /\ hs'[h].pc = p /\ hs'[h].kind = hs[h].kind /\ hs'[h].app = hs[h].app
           /\ hs'[h].sha = hs[h].sha /\ hs'[h].file = hs[h].file
           /\ hs'[h].alone = hs[h].alone
           /\ \A g \in Handlers : g # h => hs'[g] = hs[g]
<1>1. hs[h] \in HandlerStates /\ hs'[h] = [hs[h] EXCEPT !.pc = p]
  BY DEF Goto
<1>2. /\ hs'[h] \in HandlerStates
      /\ hs'[h].pc = p /\ hs'[h].kind = hs[h].kind /\ hs'[h].app = hs[h].app
      /\ hs'[h].sha = hs[h].sha /\ hs'[h].file = hs[h].file
      /\ hs'[h].alone = hs[h].alone
  BY <1>1 DEF HandlerStates
<1> QED BY <1>2 DEF Goto

LEMMA ReplyFacts ==
    ASSUME hs \in [Handlers -> HandlerStates], NEW h \in Handlers, Reply(h)
    PROVE  /\ hs' \in [Handlers -> HandlerStates]
           /\ hs'[h].pc = "idle" /\ hs'[h].kind = "none"
           /\ \A g \in Handlers : g # h => hs'[g] = hs[g]
<1>1. hs'[h] = Idle
  BY DEF Reply
<1>2. hs'[h].pc = "idle" /\ hs'[h].kind = "none"
  BY <1>1 DEF Idle
<1> QED BY <1>2, IdleTyped DEF Reply

\* A request that goes on stays what it is; WellFormed is about where it may be.
LEMMA GotoWellFormed ==
    ASSUME TypeInv, NEW h \in Handlers, NEW p \in PCs, Goto(h, p),
           hs[h].pc # "idle",
           p \in BranchPCs \cup {"validate"} => hs[h].kind = "rollback",
           p \in {"ff_ref", "ff_push"} => hs[h].kind = "restore"
    PROVE  hs' \in [Handlers -> HandlerStates] /\ \A g \in Handlers : WellFormed(g)'
<1>1. /\ hs' \in [Handlers -> HandlerStates]
      /\ hs'[h].pc = p /\ hs'[h].kind = hs[h].kind /\ hs'[h].app = hs[h].app
      /\ hs'[h].sha = hs[h].sha
      /\ \A g \in Handlers : g # h => hs'[g] = hs[g]
  BY GotoFacts DEF TypeInv, TypeOK
<1>2. WellFormed(h)'
  BY <1>1 DEF TypeInv, WellFormed, BranchPCs
<1>3. ASSUME NEW g \in Handlers, g # h PROVE WellFormed(g)'
  BY <1>1, <1>3 DEF TypeInv, WellFormed
<1> QED BY <1>1, <1>2, <1>3

LEMMA ReplyWellFormed ==
    ASSUME TypeInv, NEW h \in Handlers, Reply(h)
    PROVE  hs' \in [Handlers -> HandlerStates] /\ \A g \in Handlers : WellFormed(g)'
<1>1. /\ hs' \in [Handlers -> HandlerStates]
      /\ hs'[h].pc = "idle" /\ hs'[h].kind = "none"
      /\ \A g \in Handlers : g # h => hs'[g] = hs[g]
  BY ReplyFacts DEF TypeInv, TypeOK
<1>2. WellFormed(h)'
  BY <1>1 DEF WellFormed, BranchPCs
<1>3. ASSUME NEW g \in Handlers, g # h PROVE WellFormed(g)'
  BY <1>1, <1>3 DEF TypeInv, WellFormed
<1> QED BY <1>1, <1>2, <1>3

-----------------------------------------------------------------------------
(***************************************************************************)
(* The repository stays well typed.                                        *)
(***************************************************************************)
LEMMA CloneTyped == ASSUME GitTypeOK, Clone PROVE GitTypeOK'
<1>1. main.file \in Files
  BY DEF GitTypeOK, Trees
<1>2. wd' \in Clones
  BY <1>1 DEF GitTypeOK, Clone, Clones, MaybeCommit
<1> QED BY <1>2 DEF GitTypeOK, Clone

LEMMA WriteTyped ==
    ASSUME GitTypeOK, NEW file \in Files, WriteRollbacks(file) PROVE GitTypeOK'
<1>1. wd' \in Clones
  BY DEF GitTypeOK, WriteRollbacks, Clones
<1> QED BY <1>1 DEF GitTypeOK, WriteRollbacks

LEMMA CommitTyped == ASSUME GitTypeOK, Commit PROVE GitTypeOK'
<1>1. wd \in Clones /\ wd.local \in Trees /\ wd.index \in Files
  BY DEF GitTypeOK, Clones
<1> DEFINE t == [head |-> next, hist |-> wd.local.hist \cup {next}, file |-> wd.index]
<1>2. t \in Trees
  BY <1>1 DEF Trees, Commit
<1>3. wd' = [wd EXCEPT !.local = t]
  BY DEF Commit
<1> HIDE DEF t
<1>4. wd' \in Clones
  BY <1>1, <1>2, <1>3 DEF Clones
<1>5. next' \in 2..(MaxCommits + 1)
  BY ApiConstants DEF GitTypeOK, Commit, Commits
<1> QED BY <1>4, <1>5 DEF GitTypeOK, Commit

LEMMA PushHeadsTyped == ASSUME GitTypeOK, PushHeads PROVE GitTypeOK'
<1>1. wd.ref \in [Apps -> MaybeCommit] /\ wd.local \in Trees
  BY DEF GitTypeOK, Clones
<1>2. branch' \in [Apps -> MaybeCommit]
  BY <1>1 DEF GitTypeOK, PushHeads
<1> QED BY <1>1, <1>2 DEF GitTypeOK, PushHeads

LEMMA CreateBranchTyped ==
    ASSUME GitTypeOK, NEW a \in Apps, CreateBranch(a) PROVE GitTypeOK'
<1>1. wd' \in Clones
  BY DEF GitTypeOK, CreateBranch, Clones
<1> QED BY <1>1 DEF GitTypeOK, CreateBranch

LEMMA SetReferenceTyped ==
    ASSUME GitTypeOK, NEW a, NEW c \in MaybeCommit, SetReference(a, c) PROVE GitTypeOK'
<1>1. wd \in Clones /\ wd.ref \in [Apps -> MaybeCommit]
  BY DEF GitTypeOK, Clones
<1> DEFINE r == [wd.ref EXCEPT ![a] = c]
<1>2. r \in [Apps -> MaybeCommit]
  BY <1>1
<1>3. wd' = [wd EXCEPT !.ref = r]
  BY DEF SetReference
<1> HIDE DEF r
<1>4. wd' \in Clones
  BY <1>1, <1>2, <1>3 DEF Clones
<1> QED BY <1>4 DEF GitTypeOK, SetReference

LEMMA ForcePushTyped == ASSUME GitTypeOK, NEW a \in Apps, ForcePush(a) PROVE GitTypeOK'
<1>1. wd.ref[a] \in MaybeCommit
  BY DEF GitTypeOK, Clones
<1>2. branch' \in [Apps -> MaybeCommit]
  BY <1>1 DEF GitTypeOK, ForcePush
<1> QED BY <1>2 DEF GitTypeOK, ForcePush

LEMMA ForeignPushTyped == ASSUME GitTypeOK, ForeignPush PROVE GitTypeOK'
<1>1. wd' \in Clones
  BY DEF GitTypeOK, ForeignPush, Clones
<1>2. main' \in Trees
  BY DEF GitTypeOK, ForeignPush, Trees
<1>3. next' \in 2..(MaxCommits + 1)
  BY ApiConstants DEF GitTypeOK, ForeignPush, Commits
<1> QED BY <1>1, <1>2, <1>3 DEF GitTypeOK, ForeignPush

LEMMA GitUnchangedTyped == ASSUME GitTypeOK, UNCHANGED gitVars PROVE GitTypeOK'
BY DEF GitTypeOK, gitVars

-----------------------------------------------------------------------------
(***************************************************************************)
(* Type correctness.                                                       *)
(***************************************************************************)
LEMMA InitTypeInv == Init => TypeInv
<1> SUFFICES ASSUME Init PROVE TypeInv
  OBVIOUS
<1>1. NoFile \in Files /\ [a \in Apps |-> Untouched] \in Files
  BY DEF NoFile, Files, Untouched, Records, MaybeCommit
<1>2. main \in Trees
  BY <1>1, ApiConstants DEF Init, GitInit, Trees, Commits
<1>3. branch \in [Apps -> MaybeCommit]
  BY DEF Init, GitInit, MaybeCommit
<1>4. wd \in Clones
  BY <1>2, <1>3 DEF Init, GitInit, Clones, Trees
<1>5. GitTypeOK
  BY <1>2, <1>3, <1>4, ApiConstants DEF Init, GitInit, GitTypeOK
<1>6. TypeOK
  BY <1>5, IdleTyped DEF Init, TypeOK
<1>7. ASSUME NEW h \in Handlers PROVE WellFormed(h)
  BY DEF Init, WellFormed, Idle, BranchPCs
<1> QED BY <1>6, <1>7 DEF TypeInv

\* Of a typed request that is under way.
LEMMA UnderWay ==
    ASSUME TypeInv, NEW h \in Handlers, ~At(h, "idle")
    PROVE  /\ hs[h] \in HandlerStates /\ hs[h].app \in Apps
           /\ hs[h].sha \in MaybeCommit /\ hs[h].file \in Files
           /\ hs[h].kind \in {"rollback", "restore"}
           /\ hs[h].kind = "rollback" => hs[h].sha \in Commits
BY DEF TypeInv, TypeOK, WellFormed, At, HandlerStates

\* A request that another one overlaps goes on as it is.
LEMMA OverlapFacts ==
    ASSUME TypeInv, NEW k \in Handlers
    PROVE  /\ Overlap(k) \in HandlerStates
           /\ Overlap(k).pc = hs[k].pc /\ Overlap(k).kind = hs[k].kind
           /\ Overlap(k).app = hs[k].app /\ Overlap(k).sha = hs[k].sha
           /\ Overlap(k).file = hs[k].file /\ Overlap(k).alone = (hs[k].pc = "idle")
<1>1. hs[k] \in HandlerStates
  BY DEF TypeInv, TypeOK
<1> QED BY <1>1 DEF Overlap, At, HandlerStates

\* A new request.
LEMMA StartFacts ==
    ASSUME TypeInv, NEW h \in Handlers, NEW r \in HandlerStates, Start(h, r), r.app \in Apps,
           r.kind \in {"rollback", "restore"}, r.kind = "rollback" => r.sha \in Commits
    PROVE  /\ TypeInv'
           /\ hs'[h].pc = "check" /\ hs'[h].app = r.app /\ hs'[h].alone = (Busy = {})
           /\ \A k \in Handlers : k # h => hs'[k] = Overlap(k)
<1> DEFINE q == [r EXCEPT !.pc = "check", !.alone = Busy = {}]
<1>1. /\ q \in HandlerStates /\ q.pc = "check" /\ q.app = r.app /\ q.kind = r.kind
      /\ q.sha = r.sha /\ q.alone = (Busy = {})
  BY DEF HandlerStates, PCs
<1>2. hs'[h] = q /\ \A k \in Handlers : k # h => hs'[k] = Overlap(k)
  BY DEF Start
<1>3. hs' \in [Handlers -> HandlerStates]
  BY <1>1, OverlapFacts DEF Start
<1> HIDE DEF q
<1>4. ASSUME NEW k \in Handlers PROVE WellFormed(k)'
  <2>1. CASE k = h
    BY <1>1, <1>2, <2>1 DEF WellFormed, BranchPCs
  <2>2. CASE k # h
    BY <1>2, <2>2, OverlapFacts DEF TypeInv, WellFormed
  <2> QED BY <2>1, <2>2
<1>5. BusyApps \subseteq Apps
  BY DEF BusyApps, Busy, At, TypeInv, WellFormed
<1>6. mixed' \subseteq Apps
  BY <1>5 DEF Start, TypeInv, TypeOK
<1>7. GitTypeOK' /\ UNCHANGED <<target, asked, unrecorded>>
  BY GitUnchangedTyped DEF Start, TypeInv, TypeOK
<1>8. TypeInv'
  BY <1>3, <1>4, <1>6, <1>7 DEF TypeInv, TypeOK
<1> QED BY <1>1, <1>2, <1>8

LEMMA RequestFacts ==
    ASSUME TypeInv, NEW h \in Handlers, NEW a \in Apps,
           Restore(h, a) \/ \E c \in Commits : Rollback(h, a, c)
    PROVE  \E r \in HandlerStates :
             /\ Start(h, r) /\ r.app = a /\ r.kind \in {"rollback", "restore"}
             /\ r.kind = "rollback" => r.sha \in Commits
<1>1. CASE Restore(h, a)
  <2> DEFINE r == [Idle EXCEPT !.kind = "restore", !.app = a]
  <2>1. r \in HandlerStates /\ r.app = a /\ r.kind = "restore"
    BY IdleTyped DEF Idle, HandlerStates
  <2>2. Start(h, r)
    BY <1>1 DEF Restore
  <2> HIDE DEF r
  <2> QED BY <2>1, <2>2
<1>2. ASSUME NEW c \in Commits, Rollback(h, a, c)
      PROVE  \E r \in HandlerStates :
               /\ Start(h, r) /\ r.app = a /\ r.kind \in {"rollback", "restore"}
               /\ r.kind = "rollback" => r.sha \in Commits
  <2> DEFINE r == [Idle EXCEPT !.kind = "rollback", !.app = a, !.sha = c]
  <2>1. r \in HandlerStates /\ r.app = a /\ r.kind = "rollback" /\ r.sha = c
    BY IdleTyped DEF Idle, HandlerStates, MaybeCommit
  <2>2. Start(h, r)
    BY <1>2 DEF Rollback
  <2> HIDE DEF r
  <2> QED BY <2>1, <2>2
<1> QED BY <1>1, <1>2

LEMMA ReadOnlyTyped ==
    ASSUME TypeInv, NEW h \in Handlers, ReadOnlyRequest(h)
    PROVE  TypeInv' /\ \A k \in Handlers : hs'[k] = Overlap(k)
<1>1. hs' \in [Handlers -> HandlerStates] /\ \A k \in Handlers : hs'[k] = Overlap(k)
  BY OverlapFacts DEF ReadOnlyRequest
<1>2. ASSUME NEW k \in Handlers PROVE WellFormed(k)'
  BY <1>1, OverlapFacts DEF TypeInv, WellFormed
<1>3. BusyApps \subseteq Apps
  BY DEF BusyApps, Busy, At, TypeInv, WellFormed
<1>4. GitTypeOK'
  BY CloneTyped DEF ReadOnlyRequest, TypeInv, TypeOK
<1> QED BY <1>1, <1>2, <1>3, <1>4 DEF ReadOnlyRequest, TypeInv, TypeOK

LEMMA RecordReadFacts ==
    ASSUME TypeInv, NEW h \in Handlers, RecordRead(h)
    PROVE  /\ hs' \in [Handlers -> HandlerStates]
           /\ hs'[h].pc = "write" /\ hs'[h].kind = hs[h].kind /\ hs'[h].app = hs[h].app
           /\ hs'[h].sha = hs[h].sha /\ hs'[h].file = wd.index
           /\ hs'[h].alone = hs[h].alone
           /\ \A g \in Handlers : g # h => hs'[g] = hs[g]
<1>1. wd.index \in Files
  BY DEF TypeInv, TypeOK, GitTypeOK, Clones
<1>2. [a \in Apps |-> ReadRollbacksFromDisk(a)] = wd.index
  BY <1>1 DEF ReadRollbacksFromDisk, Files
<1>3. hs'[h] = [hs[h] EXCEPT !.pc = "write", !.file = wd.index] /\ hs[h] \in HandlerStates
  BY <1>2 DEF RecordRead, TypeInv, TypeOK
<1>4. /\ hs'[h] \in HandlerStates
      /\ hs'[h].pc = "write" /\ hs'[h].kind = hs[h].kind /\ hs'[h].app = hs[h].app
      /\ hs'[h].sha = hs[h].sha /\ hs'[h].file = wd.index
      /\ hs'[h].alone = hs[h].alone
  BY <1>1, <1>3 DEF HandlerStates, PCs
<1> QED BY <1>4 DEF RecordRead, TypeInv, TypeOK

LEMMA RecordWriteFacts ==
    ASSUME TypeInv, NEW h \in Handlers, RecordWrite(h)
    PROVE  /\ hs' \in [Handlers -> HandlerStates]
           /\ hs'[h].pc = "commit" /\ hs'[h].kind = hs[h].kind /\ hs'[h].app = hs[h].app
           /\ hs'[h].sha = hs[h].sha /\ hs'[h].alone = hs[h].alone
           /\ \A g \in Handlers : g # h => hs'[g] = hs[g]
<1>1. hs'[h] = [hs[h] EXCEPT !.pc = "commit", !.file = NoFile] /\ hs[h] \in HandlerStates
  BY DEF RecordWrite, TypeInv, TypeOK
<1>2. NoFile \in Files
  BY DEF NoFile, Files, Untouched, Records, MaybeCommit
<1>3. /\ hs'[h] \in HandlerStates
      /\ hs'[h].pc = "commit" /\ hs'[h].kind = hs[h].kind /\ hs'[h].app = hs[h].app
      /\ hs'[h].sha = hs[h].sha /\ hs'[h].alone = hs[h].alone
  BY <1>1, <1>2 DEF HandlerStates, PCs
<1> QED BY <1>3 DEF RecordWrite, TypeInv, TypeOK

\* What Entry makes of the app's record does not depend on what it was.
LEMMA EntryIsRecorded ==
    ASSUME TypeInv, NEW h \in Handlers, NEW r \in Records, ~At(h, "idle")
    PROVE  Entry(h, r) = Recorded(h) /\ Recorded(h) \in Records
<1>1. hs[h].sha \in MaybeCommit
  BY UnderWay
<1>2. \A s \in {"normal", "rollback"}, c \in MaybeCommit :
        [r EXCEPT !.status = s, !.active = c] = [status |-> s, active |-> c]
  <2> TAKE s \in {"normal", "rollback"}, c \in MaybeCommit
  <2> DEFINE q == [r EXCEPT !.status = s, !.active = c]
             t == [status |-> s, active |-> c]
  <2>1. q \in Records /\ q.status = s /\ q.active = c
    BY DEF Records
  <2>2. t \in Records /\ t.status = s /\ t.active = c
    BY DEF Records
  <2> HIDE DEF q, t
  <2>3. q = [status |-> q.status, active |-> q.active] /\ t = [status |-> t.status, active |-> t.active]
    BY <2>1, <2>2 DEF Records
  <2>4. q = t
    BY <2>1, <2>2, <2>3
  <2> QED BY <2>4 DEF q, t
<1>3. None \in MaybeCommit
  BY DEF MaybeCommit
<1> QED BY <1>1, <1>2, <1>3 DEF Entry, Recorded, Untouched, Records

\* Moving on in the same way, of a request that just goes from pc to pc.
LEMMA MoveTyped ==
    ASSUME TypeInv, NEW h \in Handlers, WellFormed(h)', hs' \in [Handlers -> HandlerStates],
           \A g \in Handlers : g # h => hs'[g] = hs[g]
    PROVE  \A g \in Handlers : WellFormed(g)'
BY DEF TypeInv, WellFormed

LEMMA HandlerStepTyped ==
    ASSUME TypeInv, NEW h \in Handlers, HandlerStep(h)
    PROVE  TypeInv'
<1> USE DEF At
<1> DEFINE Handling == hs' \in [Handlers -> HandlerStates] /\ \A g \in Handlers : WellFormed(g)'
<1>1. CASE CheckTarget(h)
  <2>1. hs[h].pc = "check" /\ UNCHANGED <<gitVars, target, asked, unrecorded, mixed>>
    BY <1>1 DEF CheckTarget, Cluster
  <2>2. \/ Goto(h, "validate") /\ hs[h].kind = "rollback"
        \/ Goto(h, "patch") \/ Reply(h)
    BY <1>1, Zenon DEF CheckTarget
  <2>3. Handling
    BY <2>1, <2>2, GotoWellFormed, ReplyWellFormed DEF PCs, BranchPCs
  <2> QED BY <2>1, <2>3, GitUnchangedTyped DEF TypeInv, TypeOK
<1>2. CASE Validate(h)
  <2>1. hs[h].pc = "validate" /\ hs[h].kind = "rollback" /\ UNCHANGED <<target, unrecorded, mixed>>
    BY <1>2 DEF Validate, TypeInv, WellFormed
  <2>2. Goto(h, "branch_clone") \/ Reply(h)
    BY <1>2 DEF Validate
  <2>3. Handling
    BY <2>1, <2>2, GotoWellFormed, ReplyWellFormed DEF PCs, BranchPCs
  <2>4. GitTypeOK'
    BY <1>2, CloneTyped DEF Validate, TypeInv, TypeOK
  <2>5. hs[h].sha \in main.hist => hs[h].sha \in Commits
    BY DEF TypeInv, TypeOK, GitTypeOK, Trees
  <2>6. asked' \in [Apps -> SUBSET Commits]
    BY <1>2, <2>5 DEF Validate, TypeInv, TypeOK
  <2> QED BY <2>1, <2>3, <2>4, <2>6 DEF TypeInv, TypeOK
<1>3. CASE BranchClone(h)
  <2>1. Handling
    BY <1>3, GotoWellFormed DEF BranchClone, PCs, BranchPCs, TypeInv, WellFormed
  <2> QED BY <1>3, <2>1, CloneTyped DEF BranchClone, Cluster, TypeInv, TypeOK
<1>4. CASE BranchRef(h)
  <2>1. Handling
    BY <1>4, GotoWellFormed DEF BranchRef, PCs, BranchPCs, TypeInv, WellFormed
  <2>2. GitTypeOK'
    BY <1>4, UnderWay, SetReferenceTyped DEF BranchRef, TypeInv, TypeOK
  <2> QED BY <1>4, <2>1, <2>2 DEF BranchRef, Cluster, TypeInv, TypeOK
<1>5. CASE BranchPush(h)
  <2>1. Handling
    BY <1>5, GotoWellFormed DEF BranchPush, PCs, BranchPCs
  <2>2. GitTypeOK'
    BY <1>5, UnderWay, ForcePushTyped DEF BranchPush, TypeInv, TypeOK
  <2> QED BY <1>5, <2>1, <2>2 DEF BranchPush, Cluster, TypeInv, TypeOK
<1>6. CASE Patch(h)
  <2>1. Handling
    BY <1>6, GotoWellFormed DEF Patch, PCs, BranchPCs
  <2>2. hs[h].app \in Apps
    BY <1>6, UnderWay DEF Patch
  <2>3. target' \in [Apps -> {"main", "rollback"}] /\ asked' \in [Apps -> SUBSET Commits]
        /\ unrecorded' \subseteq Apps /\ mixed' = mixed
    BY <1>6, <2>2 DEF Patch, TypeInv, TypeOK
  <2>4. GitTypeOK'
    BY <1>6, GitUnchangedTyped DEF Patch, TypeInv, TypeOK
  <2> QED BY <2>1, <2>3, <2>4 DEF TypeInv, TypeOK
<1>7. CASE RecordClone(h)
  <2>1. Handling
    BY <1>7, GotoWellFormed DEF RecordClone, PCs, BranchPCs
  <2> QED BY <1>7, <2>1, CloneTyped DEF RecordClone, Cluster, TypeInv, TypeOK
<1>8. CASE RecordRead(h)
  <2>1. WellFormed(h)' /\ hs' \in [Handlers -> HandlerStates]
        /\ \A g \in Handlers : g # h => hs'[g] = hs[g]
    BY <1>8, RecordReadFacts, UnderWay DEF RecordRead, WellFormed, BranchPCs
  <2>2. Handling
    BY <2>1, MoveTyped
  <2> QED BY <1>8, <2>2, GitUnchangedTyped DEF RecordRead, Cluster, TypeInv, TypeOK
<1>9. CASE RecordWrite(h)
  <2>1. WellFormed(h)' /\ hs' \in [Handlers -> HandlerStates]
        /\ \A g \in Handlers : g # h => hs'[g] = hs[g]
    BY <1>9, RecordWriteFacts, UnderWay DEF RecordWrite, WellFormed, BranchPCs
  <2>2. Handling
    BY <2>1, MoveTyped
  <2>3. hs[h].app \in Apps /\ hs[h].file \in Files
    BY <1>9, UnderWay DEF RecordWrite
  <2>4. hs[h].file[hs[h].app] \in Records
    BY <2>3 DEF Files
  <2>5. Entry(h, hs[h].file[hs[h].app]) \in Records
    BY <1>9, <2>4, EntryIsRecorded DEF RecordWrite
  <2>6. [hs[h].file EXCEPT ![hs[h].app] = Entry(h, @)] \in Files
    BY <2>3, <2>5 DEF Files
  <2>7. GitTypeOK'
    BY <1>9, <2>6, WriteTyped DEF RecordWrite, TypeInv, TypeOK
  <2> QED BY <1>9, <2>2, <2>7 DEF RecordWrite, Cluster, TypeInv, TypeOK
<1>10. CASE RecordCommit(h)
  <2>1. Handling
    BY <1>10, GotoWellFormed DEF RecordCommit, PCs, BranchPCs
  <2> QED BY <1>10, <2>1, CommitTyped DEF RecordCommit, Cluster, TypeInv, TypeOK
<1>11. CASE RecordPush(h)
  <2>1. hs[h].pc = "push" /\ ((Goto(h, "ff_ref") /\ hs[h].kind = "restore") \/ Reply(h))
    BY <1>11 DEF RecordPush
  <2>2. Handling
    BY <2>1, GotoWellFormed, ReplyWellFormed DEF PCs, BranchPCs
  <2>3. GitTypeOK'
    BY <1>11, PushHeadsTyped DEF RecordPush, TypeInv, TypeOK
  <2> QED BY <1>11, <2>2, <2>3 DEF RecordPush, TypeInv, TypeOK
<1>12. CASE FastForwardRef(h)
  <2>1. hs[h].kind = "restore"
    BY <1>12 DEF FastForwardRef, TypeInv, WellFormed
  <2>2. Handling
    BY <1>12, <2>1, GotoWellFormed DEF FastForwardRef, PCs, BranchPCs
  <2>3. wd.local.head \in MaybeCommit
    BY DEF TypeInv, TypeOK, GitTypeOK, Clones, Trees, MaybeCommit
  <2>4. GitTypeOK'
    BY <1>12, <2>3, SetReferenceTyped DEF FastForwardRef, TypeInv, TypeOK
  <2> QED BY <1>12, <2>2, <2>4 DEF FastForwardRef, Cluster, TypeInv, TypeOK
<1>13. CASE FastForwardPush(h)
  <2>1. Handling
    BY <1>13, ReplyWellFormed DEF FastForwardPush
  <2>2. GitTypeOK'
    BY <1>13, UnderWay, ForcePushTyped DEF FastForwardPush, TypeInv, TypeOK
  <2> QED BY <1>13, <2>1, <2>2 DEF FastForwardPush, Cluster, TypeInv, TypeOK
<1>14. CASE CallRefused(h)
  <2>1. Handling
    BY <1>14, ReplyWellFormed DEF CallRefused
  <2> QED BY <1>14, <2>1, GitUnchangedTyped DEF CallRefused, Cluster, TypeInv, TypeOK
<1>15. CASE BranchConfig(h)
  <2>1. Handling
    BY <1>15, GotoWellFormed DEF BranchConfig, PCs, BranchPCs, TypeInv, WellFormed
  <2>2. GitTypeOK'
    BY <1>15, UnderWay, CreateBranchTyped DEF BranchConfig, TypeInv, TypeOK
  <2> QED BY <1>15, <2>1, <2>2 DEF BranchConfig, Cluster, TypeInv, TypeOK
<1> QED
  BY <1>1, <1>2, <1>3, <1>4, <1>5, <1>6, <1>7, <1>8, <1>9, <1>10, <1>11, <1>12, <1>13, <1>14,
     <1>15
  DEF HandlerStep

LEMMA FaultTyped ==
    ASSUME TypeInv, NEW h \in Handlers, CheckFails(h) \/ Fail(h)
    PROVE  TypeInv'
<1>1. \/ Reply(h)
      \/ Goto(h, "validate") /\ hs[h].kind = "rollback" /\ hs[h].pc = "check"
  BY Zenon DEF CheckFails, Fail, At
<1>2. hs' \in [Handlers -> HandlerStates] /\ \A g \in Handlers : WellFormed(g)'
  BY <1>1, GotoWellFormed, ReplyWellFormed DEF PCs, BranchPCs
<1>3. UNCHANGED <<gitVars, target, asked, unrecorded, mixed>>
  BY DEF CheckFails, Fail, Cluster
<1> QED BY <1>2, <1>3, GitUnchangedTyped DEF TypeInv, TypeOK

LEMMA StepTyped == TypeInv /\ [Next]_vars => TypeInv'
<1> SUFFICES ASSUME TypeInv, [Next]_vars PROVE TypeInv'
  OBVIOUS
<1>1. ASSUME NEW h \in Handlers, NEW a \in Apps,
             Restore(h, a) \/ \E c \in Commits : Rollback(h, a, c)
      PROVE  TypeInv'
  BY <1>1, RequestFacts, StartFacts
<1>2. ASSUME NEW h \in Handlers, HandlerStep(h) PROVE TypeInv'
  BY <1>2, HandlerStepTyped
<1>3. ASSUME NEW h \in Handlers, CheckFails(h) \/ Fail(h) PROVE TypeInv'
  BY <1>3, FaultTyped
<1>4. ASSUME NEW h \in Handlers, ReadOnlyRequest(h) PROVE TypeInv'
  BY <1>4, ReadOnlyTyped
<1>5. CASE OtherProcessPush
  BY <1>5, ForeignPushTyped DEF OtherProcessPush, Cluster, TypeInv, TypeOK, WellFormed
<1>6. CASE UNCHANGED vars
  BY <1>6, GitUnchangedTyped DEF vars, TypeInv, TypeOK, WellFormed
<1> QED
  BY <1>1, <1>2, <1>3, <1>4, <1>5, <1>6 DEF Next, ServerStep, FaultStep, Request

LEMMA TypeInvHolds == Spec => []TypeInv
BY InitTypeInv, StepTyped, PTL DEF Spec

\* The API's rollback and restore (apps.go, gitops.go) keep every piece of state
\* well typed, for any number of concurrent requests, with and without faults.
THEOREM AppsTypeCorrect == Spec => []TypeOK
<1>1. TypeInv => TypeOK
  BY DEF TypeInv
<1> QED BY TypeInvHolds, <1>1, PTL

-----------------------------------------------------------------------------
(***************************************************************************)
(* A step of a request changes its own state and its own app.              *)
(***************************************************************************)
Moves(h) ==
    /\ hs[h].pc # "idle"
    /\ \A g \in Handlers : g # h => hs'[g] = hs[g]
    /\ \/ hs'[h].pc = "idle"
       \/ /\ hs'[h].pc # "idle" /\ hs'[h].app = hs[h].app /\ hs'[h].kind = hs[h].kind
          /\ hs'[h].sha = hs[h].sha /\ hs'[h].alone = hs[h].alone
    /\ \/ mixed' = mixed
       \/ hs[h].pc = "push" /\ hs[h].alone /\ mixed' = mixed \ {hs[h].app}

LEMMA Going ==
    ASSUME TypeInv, NEW h \in Handlers, NEW p \in PCs, Goto(h, p), hs[h].pc # "idle",
           \/ mixed' = mixed
           \/ hs[h].pc = "push" /\ hs[h].alone /\ mixed' = mixed \ {hs[h].app}
    PROVE  Moves(h) /\ hs'[h].pc = p
<1>1. p # "idle"
  BY DEF PCs
<1> QED BY <1>1, GotoFacts DEF Moves, TypeInv, TypeOK

LEMMA Ending ==
    ASSUME TypeInv, NEW h \in Handlers, Reply(h), hs[h].pc # "idle",
           \/ mixed' = mixed
           \/ hs[h].pc = "push" /\ hs[h].alone /\ mixed' = mixed \ {hs[h].app}
    PROVE  Moves(h) /\ hs'[h].pc = "idle"
BY ReplyFacts DEF Moves, TypeInv, TypeOK

\* A request comes into the clone by RecordClone, and has read of it what it
\* writes to it.
Step(h) == HandlerStep(h) \/ CheckFails(h) \/ Fail(h)

LEMMA StepMoves ==
    ASSUME TypeInv, NEW h \in Handlers, Step(h)
    PROVE  /\ Moves(h)
           /\ hs'[h].pc \in ClonePCs => hs[h].pc \in ClonePCs \/ RecordClone(h)
           /\ hs'[h].pc = "write" => RecordRead(h)
<1> USE DEF At, Cluster
<1>1. CASE CheckTarget(h) \/ CheckFails(h) \/ Fail(h) \/ CallRefused(h)
  <2>1. /\ Goto(h, "validate") \/ Goto(h, "patch") \/ Reply(h)
        /\ hs[h].pc # "idle" /\ mixed' = mixed
    BY <1>1, Zenon DEF CheckTarget, CheckFails, Fail, CallRefused
  <2> QED BY <2>1, Going, Ending DEF PCs, ClonePCs
<1>2. CASE Validate(h)
  <2>1. Goto(h, "branch_clone") \/ Reply(h)
    BY <1>2 DEF Validate
  <2> QED BY <1>2, <2>1, Going, Ending DEF Validate, PCs, ClonePCs
<1>3. CASE BranchClone(h)
  BY <1>3, Going DEF BranchClone, PCs, ClonePCs
<1>4. CASE BranchConfig(h)
  BY <1>4, Going DEF BranchConfig, PCs, ClonePCs
<1>5. CASE BranchRef(h)
  BY <1>5, Going DEF BranchRef, PCs, ClonePCs
<1>6. CASE BranchPush(h)
  BY <1>6, Going DEF BranchPush, PCs, ClonePCs
<1>7. CASE Patch(h)
  BY <1>7, Going DEF Patch, PCs, ClonePCs
<1>8. CASE RecordClone(h)
  BY <1>8, Going DEF RecordClone, PCs, ClonePCs
<1>9. CASE RecordRead(h)
  BY <1>9, RecordReadFacts DEF RecordRead, Moves, ClonePCs
<1>10. CASE RecordWrite(h)
  BY <1>10, RecordWriteFacts DEF RecordWrite, Moves, ClonePCs
<1>11. CASE RecordCommit(h)
  BY <1>11, Going DEF RecordCommit, PCs, ClonePCs
<1>12. CASE RecordPush(h)
  <2>1. /\ Goto(h, "ff_ref") \/ Reply(h)
        /\ hs[h].pc = "push"
        /\ mixed' = mixed \/ (hs[h].alone /\ mixed' = mixed \ {hs[h].app})
    BY <1>12 DEF RecordPush
  <2> QED BY <2>1, Going, Ending DEF PCs, ClonePCs
<1>13. CASE FastForwardRef(h)
  BY <1>13, Going DEF FastForwardRef, PCs, ClonePCs
<1>14. CASE FastForwardPush(h)
  BY <1>14, Ending DEF FastForwardPush, PCs, ClonePCs
<1> QED
  BY <1>1, <1>2, <1>3, <1>4, <1>5, <1>6, <1>7, <1>8, <1>9, <1>10, <1>11, <1>12, <1>13, <1>14
  DEF Step, HandlerStep

\* What a step may not touch of another app.
Kept(c) ==
    /\ target'[c] = target[c] /\ asked'[c] = asked[c] /\ branch'[c] = branch[c]
    /\ main'.file[c] = main.file[c] /\ (c \in unrecorded' <=> c \in unrecorded)
    /\ CloneGood(c) => CloneGood(c)'

LEMMA CloneIsGood ==
    ASSUME TypeInv, NEW c \in Apps, Clone
    PROVE  CloneGood(c)' /\ UNCHANGED <<main, branch>>
BY DEF Clone, CloneGood

LEMMA RestKept ==
    ASSUME AppsInv, NEW h \in Handlers, Step(h), NEW c \in Apps, AtRest(c)
    PROVE  c # hs[h].app /\ Kept(c)
<1> USE DEF At, Cluster
<1> DEFINE a == hs[h].app
<1>1. TypeInv /\ TypeOK /\ Resting /\ GitTypeOK
  BY DEF AppsInv, TypeInv, TypeOK
<1>2. hs[h].pc # "idle" /\ a \in Apps
  BY <1>1, StepMoves, UnderWay DEF Moves
<1>3. c # a
  BY <1>2 DEF AtRest, BusyApps, Busy
<1>4. wd \in Clones /\ wd.ref \in [Apps -> MaybeCommit] /\ wd.local \in Trees
  BY <1>1 DEF GitTypeOK, Clones
<1> HIDE DEF a
<1>5. ASSUME UNCHANGED <<gitVars, target, asked, unrecorded>> PROVE Kept(c)
  BY <1>5 DEF Kept, CloneGood, gitVars
<1>6. CASE CheckTarget(h) \/ CheckFails(h) \/ Fail(h) \/ CallRefused(h) \/ RecordRead(h)
  BY <1>3, <1>5, <1>6 DEF a, CheckTarget, CheckFails, Fail, CallRefused, RecordRead
<1>7. CASE Validate(h)
  <2>1. asked'[c] = asked[c] /\ UNCHANGED <<target, unrecorded>>
    BY <1>1, <1>3, <1>7 DEF a, Validate, TypeOK
  <2> QED BY <1>1, <1>3, <1>7, <2>1, CloneIsGood DEF a, Validate, Kept
<1>8. CASE BranchClone(h) \/ RecordClone(h)
  BY <1>1, <1>3, <1>8, CloneIsGood DEF a, BranchClone, RecordClone, Kept
<1>9. CASE BranchConfig(h)
  <2>1. wd'.ref = wd.ref /\ wd'.index = wd.index /\ wd'.local = wd.local
    BY <1>4, <1>9 DEF BranchConfig, CreateBranch, Clones
  <2> QED BY <1>3, <1>9, <2>1 DEF a, BranchConfig, CreateBranch, Kept, CloneGood
<1>10. CASE BranchRef(h) \/ FastForwardRef(h)
  <2>1. PICK x : SetReference(a, x)
    BY <1>10 DEF a, BranchRef, FastForwardRef
  <2>2. wd'.ref[c] = wd.ref[c] /\ wd'.index = wd.index /\ wd'.local = wd.local
    BY <1>3, <1>4, <2>1 DEF SetReference, Clones
  <2> QED BY <1>3, <1>10, <2>1, <2>2
          DEF a, BranchRef, FastForwardRef, SetReference, Kept, CloneGood
<1>11. CASE BranchPush(h) \/ FastForwardPush(h)
  <2>1. ForcePush(a) /\ UNCHANGED <<target, asked, unrecorded>>
    BY <1>11 DEF a, BranchPush, FastForwardPush
  <2>2. branch'[c] = branch[c] /\ UNCHANGED <<main, wd>>
    BY <1>1, <1>3, <2>1 DEF ForcePush, GitTypeOK
  <2> QED BY <1>3, <2>1, <2>2 DEF a, Kept, CloneGood
<1>12. CASE Patch(h)
  <2>1. UNCHANGED gitVars /\ unrecorded' = unrecorded \cup {a}
    BY <1>12 DEF a, Patch
  <2>2. target'[c] = target[c] /\ asked'[c] = asked[c]
    BY <1>1, <1>3, <1>12 DEF a, Patch, TypeOK
  <2> QED BY <1>3, <2>1, <2>2 DEF a, Kept, CloneGood, gitVars
<1>13. CASE RecordWrite(h)
  <2>1. hs[h].file[c] = main.file[c] /\ hs[h].file \in Files
    BY <1>1, <1>13, UnderWay DEF RecordWrite, Resting
  <2>2. wd'.index = [hs[h].file EXCEPT ![a] = Entry(h, hs[h].file[a])]
        /\ wd'.ref = wd.ref /\ wd'.local = wd.local
    BY <1>4, <1>13 DEF a, RecordWrite, WriteRollbacks, Clones
  <2>3. wd'.index[c] = main.file[c]
    BY <1>3, <2>1, <2>2 DEF Files
  <2> QED BY <1>3, <1>13, <2>2, <2>3 DEF a, RecordWrite, WriteRollbacks, Kept, CloneGood
<1>14. CASE RecordCommit(h)
  <2>1. wd'.local.file = wd.index /\ wd'.ref = wd.ref /\ wd'.index = wd.index
    BY <1>4, <1>14 DEF RecordCommit, Commit, Clones
  <2> QED BY <1>3, <1>14, <2>1 DEF a, RecordCommit, Commit, Kept, CloneGood
<1>15. CASE RecordPush(h)
  <2>1. CloneGood(c)
    BY <1>1, <1>15 DEF RecordPush, Resting, ClonePCs
  <2>2. /\ main' = wd.local /\ branch'[c] = branch[c] /\ UNCHANGED <<wd, target, asked>>
        /\ unrecorded' = unrecorded \ {a}
    BY <1>15, <2>1 DEF a, RecordPush, PushHeads, CloneGood
  <2> QED BY <1>3, <2>1, <2>2 DEF a, Kept, CloneGood
<1> QED
  BY <1>6, <1>7, <1>8, <1>9, <1>10, <1>11, <1>12, <1>13, <1>14, <1>15 DEF Step, HandlerStep

-----------------------------------------------------------------------------
(***************************************************************************)
(* A request that nobody overlaps.                                         *)
(***************************************************************************)
Own(h, a) ==
    /\ hs'[h].pc # "idle" => Handled(h)'
    /\ a \notin mixed' => PinAt(a)' /\ RecordAt(a)'

\* A request that has nothing in hand yet.
LEMMA NothingInHand ==
    ASSUME NEW h \in Handlers,
           \/ hs'[h].pc \in {"check", "validate"}
           \/ hs'[h].pc = "patch" /\ hs'[h].kind = "restore"
    PROVE  Handled(h)'
BY DEF Handled, Branching, Patched, Writing, BranchPCs, RecordPCs, ClonePCs

LEMMA NothingMoved ==
    ASSUME NEW a, a \notin mixed => PinAt(a) /\ RecordAt(a),
           UNCHANGED <<target, branch, asked, main, unrecorded, mixed>>
    PROVE  a \notin mixed' => PinAt(a)' /\ RecordAt(a)'
BY DEF PinAt, RecordAt, InRollback

\* Up to the patch: the request is checked, the branch is made.
LEMMA BranchingOwn ==
    ASSUME AppsInv, NEW h \in Handlers, NEW a \in Apps, a = hs[h].app, hs[h].alone,
           \/ CheckTarget(h) \/ CheckFails(h) \/ Validate(h) \/ BranchClone(h)
           \/ BranchConfig(h) \/ BranchRef(h) \/ BranchPush(h)
    PROVE  Own(h, a)
<1> USE DEF At, Own
<1>1. /\ hs \in [Handlers -> HandlerStates] /\ TypeInv /\ TypeOK /\ GitTypeOK
      /\ a \notin mixed => PinAt(a) /\ RecordAt(a)
  BY DEF AppsInv, TypeInv, TypeOK
<1>2. ASSUME NEW p \in PCs, Goto(h, p)
      PROVE  /\ hs'[h].pc = p /\ hs'[h].kind = hs[h].kind /\ hs'[h].app = hs[h].app
             /\ hs'[h].sha = hs[h].sha
  BY <1>1, <1>2, GotoFacts
<1>3. Reply(h) => hs'[h].pc = "idle"
  BY <1>1, ReplyFacts
<1>4. hs[h].pc # "idle" => Handled(h)
  BY DEF AppsInv, Alone
<1>5. CASE CheckTarget(h) \/ CheckFails(h)
  <2>1. a \notin mixed' => PinAt(a)' /\ RecordAt(a)'
    BY <1>1, <1>5, NothingMoved DEF CheckTarget, CheckFails, Cluster, gitVars
  <2>2. \/ Goto(h, "validate")
        \/ Goto(h, "patch") /\ hs[h].kind # "rollback"
        \/ Reply(h)
    BY <1>5, Zenon DEF CheckTarget, CheckFails
  <2>3. hs[h].kind # "rollback" => hs[h].kind = "restore"
    BY <1>1, <1>5, UnderWay DEF CheckTarget, CheckFails
  <2>4. CASE Reply(h)
    BY <1>3, <2>1, <2>4
  <2>5. CASE Goto(h, "validate")
    BY <1>2, <2>1, <2>5, NothingInHand DEF PCs
  <2>6. CASE Goto(h, "patch") /\ hs[h].kind # "rollback"
    BY <1>2, <2>1, <2>3, <2>6, NothingInHand DEF PCs
  <2> QED BY <2>2, <2>4, <2>5, <2>6
<1>6. CASE Validate(h)
  <2>1. UNCHANGED <<main, branch, target, unrecorded, mixed>> /\ asked[a] \subseteq asked'[a]
    BY <1>1, <1>6 DEF Validate, Clone, TypeOK
  <2>2. a \notin mixed' => PinAt(a)' /\ RecordAt(a)'
    BY <1>1, <2>1 DEF PinAt, RecordAt, InRollback
  <2>3. CASE Reply(h)
    BY <1>3, <2>2, <2>3
  <2>4. CASE hs[h].sha \in main.hist
    <3>1. Goto(h, "branch_clone") /\ asked' = [asked EXCEPT ![a] = @ \cup {hs[h].sha}]
      BY <1>6, <2>4 DEF Validate
    <3>2. hs[h].sha \in asked'[a]
      BY <1>1, <3>1 DEF TypeOK
    <3>3. Handled(h)'
      BY <1>2, <3>1, <3>2
      DEF Handled, Branching, Patched, Writing, PCs, BranchPCs, RecordPCs, ClonePCs
    <3> QED BY <2>2, <3>3
  <2> QED BY <1>6, <2>3, <2>4 DEF Validate
<1>7. CASE BranchClone(h)
  <2>1. a \notin mixed' => PinAt(a)' /\ RecordAt(a)'
    BY <1>1, <1>7, NothingMoved DEF BranchClone, Cluster, Clone
  <2>2. hs[h].sha \in asked[a] /\ asked' = asked /\ Goto(h, "branch_config")
    BY <1>4, <1>7 DEF Handled, Branching, BranchClone, BranchPCs, Cluster
  <2>3. Handled(h)'
    BY <1>2, <2>2
    DEF Handled, Branching, Patched, Writing, PCs, BranchPCs, RecordPCs, ClonePCs
  <2> QED BY <2>1, <2>3
<1>8. CASE BranchConfig(h)
  <2>1. a \notin mixed' => PinAt(a)' /\ RecordAt(a)'
    BY <1>1, <1>8, NothingMoved DEF BranchConfig, Cluster, CreateBranch
  <2>2. hs[h].sha \in asked[a] /\ asked' = asked /\ Goto(h, "branch_ref")
    BY <1>4, <1>8 DEF Handled, Branching, BranchConfig, BranchPCs, Cluster
  <2>3. Handled(h)'
    BY <1>2, <2>2
    DEF Handled, Branching, Patched, Writing, PCs, BranchPCs, RecordPCs, ClonePCs
  <2> QED BY <2>1, <2>3
<1>9. CASE BranchRef(h)
  <2>1. a \notin mixed' => PinAt(a)' /\ RecordAt(a)'
    BY <1>1, <1>9, NothingMoved DEF BranchRef, Cluster, SetReference
  <2>2. hs[h].sha \in asked[a] /\ asked' = asked /\ Goto(h, "branch_push")
    BY <1>4, <1>9 DEF Handled, Branching, BranchRef, BranchPCs, Cluster
  <2>3. wd'.ref[a] = hs[h].sha
    BY <1>1, <1>9 DEF BranchRef, SetReference, GitTypeOK, Clones
  <2>4. Handled(h)'
    BY <1>2, <2>2, <2>3
    DEF Handled, Branching, Patched, Writing, PCs, BranchPCs, RecordPCs, ClonePCs
  <2> QED BY <2>1, <2>4
<1>10. CASE BranchPush(h)
  <2>1. hs[h].sha \in asked[a] /\ wd.ref[a] = hs[h].sha
    BY <1>4, <1>10 DEF Handled, Branching, BranchPush, BranchPCs
  <2>2. hs[h].sha # None
    BY <1>1, <1>10, ApiConstants DEF TypeInv, WellFormed, BranchPush, BranchPCs
  <2>3. /\ branch' = [branch EXCEPT ![a] = hs[h].sha]
        /\ UNCHANGED <<main, target, asked, unrecorded, mixed>>
    BY <1>10, <2>1, <2>2 DEF BranchPush, ForcePush, Cluster
  <2>4. branch'[a] = hs[h].sha
    BY <1>1, <2>3 DEF GitTypeOK
  <2>5. a \notin mixed' => PinAt(a)' /\ RecordAt(a)'
    BY <1>1, <2>1, <2>3, <2>4 DEF PinAt, RecordAt, InRollback
  <2>6. Goto(h, "patch")
    BY <1>10 DEF BranchPush
  <2>7. Handled(h)'
    BY <1>2, <2>1, <2>3, <2>4, <2>6
    DEF Handled, Branching, Patched, Writing, PCs, BranchPCs, RecordPCs, ClonePCs
  <2> QED BY <2>5, <2>7
<1> QED BY <1>5, <1>6, <1>7, <1>8, <1>9, <1>10

LEMMA PatchOwn ==
    ASSUME AppsInv, NEW h \in Handlers, NEW a \in Apps, a = hs[h].app, hs[h].alone, Patch(h)
    PROVE  Own(h, a)
<1> USE DEF Own
<1>1. /\ hs \in [Handlers -> HandlerStates] /\ TypeInv /\ TypeOK /\ hs[h].pc = "patch"
      /\ a \notin mixed => PinAt(a) /\ RecordAt(a)
  BY DEF AppsInv, TypeInv, TypeOK, Patch, At
<1>2. Branching(h)
  BY <1>1 DEF AppsInv, Alone, At, Handled
<1>3. hs[h].kind \in {"rollback", "restore"}
  BY <1>1, UnderWay DEF At
<1>4. /\ hs'[h].pc = "clone" /\ hs'[h].kind = hs[h].kind /\ hs'[h].app = a
      /\ hs'[h].sha = hs[h].sha
  BY <1>1, GotoFacts DEF Patch, PCs
<1>5. UNCHANGED <<branch, mixed>> /\ unrecorded' = unrecorded \cup {a}
  BY DEF Patch, gitVars
<1>6. RecordAt(a)'
  BY <1>5 DEF RecordAt
<1>7. CASE hs[h].kind = "rollback"
  <2>1. branch'[a] \in asked'[a] /\ hs[h].sha \in asked'[a]
    BY <1>1, <1>2, <1>5, <1>7 DEF Branching, Patch
  <2>2. target'[a] = "rollback"
    BY <1>1, <1>7 DEF Patch, TypeOK
  <2>3. Handled(h)'
    BY <1>4, <1>5, <1>7, <2>1, <2>2
    DEF Handled, Branching, Patched, Writing, InRollback, BranchPCs, RecordPCs, ClonePCs
  <2> QED BY <1>6, <2>1, <2>3 DEF PinAt
<1>8. CASE hs[h].kind = "restore"
  <2>1. target'[a] = "main"
    BY <1>1, <1>8 DEF Patch, TypeOK
  <2>2. Handled(h)'
    BY <1>4, <1>5, <1>8, <2>1
    DEF Handled, Branching, Patched, Writing, InRollback, BranchPCs, RecordPCs, ClonePCs
  <2> QED BY <1>6, <2>1, <2>2 DEF PinAt, InRollback
<1> QED BY <1>3, <1>7, <1>8

\* What stays true of a patched request while it records.
LEMMA StillPatched ==
    ASSUME NEW h \in Handlers, Patched(h), hs[h].pc \in RecordPCs,
           UNCHANGED <<target, asked, unrecorded, branch>>,
           hs'[h].kind = hs[h].kind, hs'[h].app = hs[h].app, hs'[h].sha = hs[h].sha,
           hs'[h].pc \in RecordPCs
    PROVE  Patched(h)' /\ Branching(h)'
<1>1. Patched(h)'
  BY DEF Patched, InRollback, RecordPCs
<1>2. Branching(h)'
  BY DEF Branching, RecordPCs, BranchPCs
<1> QED BY <1>1, <1>2

LEMMA RecordingOwn ==
    ASSUME AppsInv, NEW h \in Handlers, NEW a \in Apps, a = hs[h].app, hs[h].alone,
           RecordClone(h) \/ RecordRead(h) \/ RecordWrite(h) \/ RecordCommit(h)
    PROVE  Own(h, a)
<1> USE DEF At, Own
<1>1. /\ hs \in [Handlers -> HandlerStates] /\ TypeInv /\ TypeOK /\ GitTypeOK
      /\ wd \in Clones /\ wd.index \in Files
      /\ a \notin mixed => PinAt(a) /\ RecordAt(a)
  BY DEF AppsInv, TypeInv, TypeOK, GitTypeOK, Clones
<1>2. hs[h].pc \in RecordPCs /\ Patched(h) /\ Writing(h)
  BY DEF AppsInv, Alone, Handled, RecordClone, RecordRead, RecordWrite, RecordCommit, RecordPCs
<1>3. UNCHANGED <<main, branch, target, asked, unrecorded, mixed>>
  BY DEF RecordClone, RecordRead, RecordWrite, RecordCommit, Cluster, gitVars, Clone,
         WriteRollbacks, Commit
<1>4. a \notin mixed' => PinAt(a)' /\ RecordAt(a)'
  BY <1>1, <1>3, NothingMoved
<1>5. ASSUME hs'[h].kind = hs[h].kind, hs'[h].app = hs[h].app, hs'[h].sha = hs[h].sha,
             hs'[h].pc \in RecordPCs
      PROVE  Patched(h)' /\ Branching(h)' /\ Recorded(h)' = Recorded(h)
  BY <1>2, <1>3, <1>5, StillPatched DEF Recorded
<1>6. CASE RecordClone(h)
  <2>1. hs'[h].pc = "read" /\ hs'[h].kind = hs[h].kind /\ hs'[h].app = hs[h].app
        /\ hs'[h].sha = hs[h].sha
    BY <1>1, <1>6, GotoFacts DEF RecordClone, PCs
  <2>2. wd'.ref[a] = None
    BY <1>6 DEF RecordClone, Clone
  <2>3. Writing(h)'
    BY <2>1, <2>2 DEF Writing
  <2> QED BY <1>4, <1>5, <2>1, <2>3 DEF Handled, RecordPCs
<1>7. CASE RecordRead(h)
  <2>1. hs'[h].pc = "write" /\ hs'[h].kind = hs[h].kind /\ hs'[h].app = hs[h].app
        /\ hs'[h].sha = hs[h].sha
    BY <1>1, <1>7, RecordReadFacts
  <2>2. Writing(h)'
    BY <1>2, <1>7, <2>1 DEF Writing, RecordRead, ClonePCs, gitVars
  <2> QED BY <1>4, <1>5, <2>1, <2>2 DEF Handled, RecordPCs
<1>8. CASE RecordWrite(h)
  <2>1. hs'[h].pc = "commit" /\ hs'[h].kind = hs[h].kind /\ hs'[h].app = hs[h].app
        /\ hs'[h].sha = hs[h].sha
    BY <1>1, <1>8, RecordWriteFacts
  <2>2. hs[h].file \in Files /\ hs[h].file[a] \in Records
    BY <1>1, <1>8, UnderWay DEF RecordWrite, Files
  <2>3. Entry(h, hs[h].file[a]) = Recorded(h)
    BY <1>1, <1>8, <2>2, EntryIsRecorded DEF RecordWrite
  <2>4. wd'.index = [hs[h].file EXCEPT ![a] = Entry(h, hs[h].file[a])] /\ wd'.ref = wd.ref
    BY <1>1, <1>8 DEF RecordWrite, WriteRollbacks, Clones
  <2>5. wd'.index[a] = Recorded(h)
    BY <2>2, <2>3, <2>4 DEF Files
  <2>6. wd.ref[a] = None
    BY <1>2, <1>8 DEF Writing, RecordWrite, ClonePCs
  <2>7. Patched(h)' /\ Branching(h)' /\ Recorded(h)' = Recorded(h)
    BY <1>5, <2>1 DEF RecordPCs
  <2>8. Writing(h)'
    BY <2>1, <2>4, <2>5, <2>6, <2>7 DEF Writing
  <2> QED BY <1>4, <2>7, <2>8 DEF Handled
<1>9. CASE RecordCommit(h)
  <2>1. hs'[h].pc = "push" /\ hs'[h].kind = hs[h].kind /\ hs'[h].app = hs[h].app
        /\ hs'[h].sha = hs[h].sha
    BY <1>1, <1>9, GotoFacts DEF RecordCommit, PCs
  <2>2. wd'.local.file = wd.index /\ wd'.ref = wd.ref
    BY <1>1, <1>9 DEF RecordCommit, Commit, Clones
  <2>3. wd.ref[a] = None /\ wd.index[a] = Recorded(h)
    BY <1>2, <1>9 DEF Writing, RecordCommit, ClonePCs
  <2>4. Patched(h)' /\ Branching(h)' /\ Recorded(h)' = Recorded(h)
    BY <1>5, <2>1 DEF RecordPCs
  <2>5. Writing(h)'
    BY <2>1, <2>2, <2>3, <2>4 DEF Writing
  <2> QED BY <1>4, <2>4, <2>5 DEF Handled
<1> QED BY <1>6, <1>7, <1>8, <1>9

\* The push that makes the record true, of a mixed app too.
LEMMA RecordPushOwn ==
    ASSUME AppsInv, NEW h \in Handlers, NEW a \in Apps, a = hs[h].app, hs[h].alone, RecordPush(h)
    PROVE  Own(h, a) /\ PinAt(a)' /\ RecordAt(a)' /\ branch'[a] = branch[a]
<1>1. hs \in [Handlers -> HandlerStates] /\ TypeInv /\ hs[h].pc = "push"
  BY DEF AppsInv, TypeInv, TypeOK, RecordPush, At
<1>2. Patched(h) /\ Writing(h)
  BY <1>1 DEF AppsInv, Alone, At, Handled
<1>3. hs[h].kind \in {"rollback", "restore"}
  BY <1>1, UnderWay DEF At
<1>4. wd.ref[a] = None /\ wd.local.file[a] = Recorded(h)
  BY <1>1, <1>2 DEF Writing, ClonePCs
<1>5. UNCHANGED <<target, asked>> /\ main'.file[a] = Recorded(h) /\ branch'[a] = branch[a]
  BY <1>4 DEF RecordPush, PushHeads
<1>6. /\ hs[h].kind = "rollback" => InRollback(a) /\ hs[h].sha \in asked[a] /\ branch[a] \in asked[a]
      /\ hs[h].kind = "restore" => ~InRollback(a)
  BY <1>1, <1>2 DEF Patched, RecordPCs
<1>7. PinAt(a)'
  BY <1>3, <1>5, <1>6 DEF PinAt, InRollback
<1>8. RecordAt(a)'
  <2>1. CASE hs[h].kind = "rollback"
    <3>1. main'.file[a].status = "rollback" /\ main'.file[a].active = hs[h].sha
      BY <1>5, <2>1 DEF Recorded
    <3> QED BY <1>5, <1>6, <2>1, <3>1 DEF RecordAt, InRollback
  <2>2. CASE hs[h].kind = "restore"
    <3>1. main'.file[a].status = "normal" /\ main'.file[a].active = None
      BY <1>5, <2>2 DEF Recorded, Untouched
    <3> QED BY <1>5, <1>6, <2>2, <3>1 DEF RecordAt, InRollback
  <2> QED BY <1>3, <2>1, <2>2
<1>9. hs'[h].pc # "idle" => Handled(h)'
  <2>1. CASE Reply(h)
    BY <1>1, <2>1, ReplyFacts
  <2>2. CASE Goto(h, "ff_ref") /\ hs[h].kind = "restore"
    <3>1. hs'[h].pc = "ff_ref" /\ hs'[h].app = a
      BY <1>1, <2>2, GotoFacts DEF PCs
    <3> QED BY <1>5, <1>6, <2>2, <3>1
        DEF Handled, Branching, Patched, Writing, InRollback, BranchPCs, RecordPCs, ClonePCs
  <2> QED BY <2>1, <2>2 DEF RecordPush
<1> QED BY <1>5, <1>7, <1>8, <1>9 DEF Own

\* The branch that is moved to main's head is nobody's.
LEMMA FastForwardOwn ==
    ASSUME AppsInv, NEW h \in Handlers, NEW a \in Apps, a = hs[h].app, hs[h].alone,
           FastForwardRef(h) \/ FastForwardPush(h)
    PROVE  Own(h, a) /\ ~InRollback(a)
<1> USE DEF At
<1>1. /\ hs \in [Handlers -> HandlerStates]
      /\ a \notin mixed => PinAt(a) /\ RecordAt(a)
  BY DEF AppsInv, TypeInv, TypeOK
<1>2. ~InRollback(a)
  BY DEF AppsInv, Alone, Handled, Patched, FastForwardRef, FastForwardPush
<1>3. UNCHANGED <<main, target, asked, unrecorded, mixed>>
  BY DEF FastForwardRef, FastForwardPush, SetReference, ForcePush, Cluster
<1>4. a \notin mixed' => PinAt(a)' /\ RecordAt(a)'
  BY <1>1, <1>2, <1>3 DEF PinAt, RecordAt, InRollback
<1>5. hs'[h].pc # "idle" => Handled(h)'
  <2>1. CASE FastForwardRef(h)
    <3>1. hs'[h].pc = "ff_push" /\ hs'[h].app = a
      BY <1>1, <2>1, GotoFacts DEF FastForwardRef, PCs
    <3> QED BY <1>2, <1>3, <3>1
        DEF Handled, Branching, Patched, Writing, InRollback, BranchPCs, RecordPCs, ClonePCs
  <2>2. CASE FastForwardPush(h)
    BY <1>1, <2>2, ReplyFacts DEF FastForwardPush
  <2> QED BY <2>1, <2>2
<1> QED BY <1>2, <1>4, <1>5 DEF Own

LEMMA StepOwn ==
    ASSUME AppsInv, NEW h \in Handlers, NEW a \in Apps, a = hs[h].app, hs[h].alone, Step(h)
    PROVE  Own(h, a)
<1>1. CASE Fail(h) \/ CallRefused(h)
  <2>1. Reply(h) /\ UNCHANGED <<gitVars, target, asked, unrecorded, mixed>>
    BY <1>1 DEF Fail, CallRefused, Cluster
  <2>2. hs'[h].pc = "idle" /\ (a \notin mixed => PinAt(a) /\ RecordAt(a))
    BY <2>1, ReplyFacts DEF AppsInv, TypeInv, TypeOK
  <2> QED BY <2>1, <2>2, NothingMoved DEF Own, gitVars
<1> QED
  BY <1>1, BranchingOwn, PatchOwn, RecordingOwn, RecordPushOwn, FastForwardOwn
  DEF Step, HandlerStep

-----------------------------------------------------------------------------
(***************************************************************************)
(* The invariant, over all requests.                                       *)
(***************************************************************************)
LEMMA InitAppsInv == Init => AppsInv
<1> SUFFICES ASSUME Init PROVE AppsInv
  OBVIOUS
<1>1. TypeInv
  BY InitTypeInv
<1>2. ASSUME NEW a \in Apps PROVE PinAt(a) /\ RecordAt(a)
  BY <1>2 DEF Init, GitInit, PinAt, RecordAt, InRollback, Untouched
<1>3. \A h \in Handlers : hs[h].pc = "idle"
  BY DEF Init, Idle
<1>4. Resting
  BY <1>3 DEF Resting, ClonePCs
<1> QED BY <1>1, <1>2, <1>3, <1>4 DEF AppsInv, Sole, Alone, At

\* A request under way beside this one is for a mixed app, and so is this one.
LEMMA Together ==
    ASSUME AppsInv, NEW g \in Handlers, NEW h \in Handlers, g # h,
           hs[g].pc # "idle", hs[h].pc # "idle"
    PROVE  ~hs[g].alone /\ ~hs[h].alone /\ hs[g].app \in mixed /\ hs[h].app \in mixed
<1>1. Sole(g) /\ Sole(h)
  BY DEF AppsInv
<1> QED BY <1>1 DEF Sole, Alone, At

\* So an app that is not mixed is at rest, or the step is its own.
LEMMA RestOrOwn ==
    ASSUME AppsInv, NEW h \in Handlers, Moves(h), NEW c \in Apps, c \notin mixed'
    PROVE  \/ c = hs[h].app /\ hs[h].alone
           \/ c # hs[h].app /\ AtRest(c)
<1>1. hs[h].pc # "idle" /\ Sole(h)
  BY DEF AppsInv, Moves
<1>2. CASE c = hs[h].app
  <2>1. ~hs[h].alone => c \in mixed /\ mixed' = mixed
    BY <1>1, <1>2 DEF Sole, At, Moves
  <2>2. hs[h].alone
    BY <2>1
  <2> QED BY <1>2, <2>2
<1>3. CASE c # hs[h].app
  <2>1. c \notin mixed
    BY <1>3 DEF Moves
  <2>2. ASSUME NEW g \in Handlers, hs[g].pc # "idle", hs[g].app = c PROVE FALSE
    BY <1>1, <1>3, <2>1, <2>2, Together
  <2> QED BY <1>3, <2>1, <2>2 DEF AtRest, BusyApps, Busy, At
<1> QED BY <1>2, <1>3

\* An app that is at rest beside a request under way has been at rest before.
LEMMA WasAtRest ==
    ASSUME AppsInv, NEW h \in Handlers, Moves(h), NEW c \in Apps, AtRest(c)',
           NEW g \in Handlers, hs'[g].pc # "idle"
    PROVE  AtRest(c)
<1>1. c \notin mixed' /\ c \notin BusyApps'
  BY DEF AtRest
<1>2. \A k \in Handlers : hs'[k].pc # "idle" => hs'[k].app # c
  BY <1>1 DEF BusyApps, Busy, At
<1>3. CASE c = hs[h].app /\ hs[h].alone
  <2>1. g = h
    BY <1>3, Together DEF Moves
  <2> QED BY <1>2, <1>3, <2>1 DEF Moves
<1> QED BY <1>1, <1>3, RestOrOwn

LEMMA StepInv ==
    ASSUME AppsInv, TypeInv', NEW h \in Handlers, Step(h)
    PROVE  AppsInv'
<1>1. TypeInv /\ Moves(h) /\ Resting
  BY StepMoves DEF AppsInv
<1>2. hs[h].pc # "idle" /\ hs[h].app \in Apps
  BY <1>1 DEF Moves, TypeInv, WellFormed
<1>3. ASSUME NEW a \in Apps, a \notin mixed' PROVE PinAt(a)' /\ RecordAt(a)'
  <2>1. CASE a = hs[h].app /\ hs[h].alone
    BY <1>3, <2>1, StepOwn DEF Own
  <2>2. CASE a # hs[h].app /\ AtRest(a)
    <3>1. Kept(a) /\ PinAt(a) /\ RecordAt(a)
      BY <2>2, RestKept DEF AppsInv, AtRest
    <3> QED BY <3>1 DEF Kept, PinAt, RecordAt, InRollback
  <2> QED BY <1>1, <1>3, <2>1, <2>2, RestOrOwn
<1>4. ASSUME NEW g \in Handlers PROVE Sole(g)' /\ (Alone(g) => Handled(g))'
  <2>1. CASE g = h
    <3>1. Alone(h)' => hs[h].alone /\ hs'[h].pc # "idle"
      BY <1>1 DEF Alone, At, Moves
    <3>2. Alone(h)' => Handled(h)'
      BY <1>2, <3>1, StepOwn DEF Own
    <3>3. Sole(h)
      BY DEF AppsInv
    <3>4. Alone(h)' => \A k \in Handlers : k # h => At(k, "idle")'
      BY <1>1, <1>2, <3>1, <3>3 DEF Sole, Alone, At, Moves
    <3>5. ~At(h, "idle")' /\ ~hs'[h].alone => hs'[h].app \in mixed'
      BY <1>1, <1>2, <3>3 DEF Sole, At, Moves
    <3> QED BY <2>1, <3>2, <3>4, <3>5 DEF Sole
  <2>2. CASE g # h
    <3>1. hs'[g] = hs[g]
      BY <1>1, <2>2 DEF Moves
    <3>2. hs[g].pc # "idle" => ~hs[g].alone /\ ~hs[h].alone /\ hs[g].app \in mixed
      BY <1>2, <2>2, Together
    <3>3. ~hs[h].alone => mixed' = mixed
      BY <1>1 DEF Moves
    <3> QED BY <3>1, <3>2, <3>3 DEF Sole, Alone, At
  <2> QED BY <2>1, <2>2
<1>5. ASSUME NEW g \in Handlers, NEW c \in Apps, AtRest(c)', hs'[g].pc \in ClonePCs
      PROVE  CloneGood(c)' /\ (hs'[g].pc = "write" => hs'[g].file[c] = main'.file[c])
  <2>1. AtRest(c)
    BY <1>1, <1>5, WasAtRest DEF ClonePCs
  <2>2. Kept(c)
    BY <2>1, RestKept
  <2>3. CASE g # h
    <3>1. hs'[g] = hs[g]
      BY <1>1, <2>3 DEF Moves
    <3> QED BY <1>1, <1>5, <2>1, <2>2, <3>1 DEF Resting, Kept
  <2>4. CASE g = h
    <3>1. hs[h].pc \in ClonePCs \/ RecordClone(h)
      BY <1>1, <1>5, <2>4, StepMoves
    <3>2. CloneGood(c)'
      BY <1>1, <2>1, <2>2, <3>1, CloneIsGood DEF Resting, Kept, RecordClone
    <3>3. ASSUME hs'[h].pc = "write" PROVE hs'[h].file[c] = main'.file[c]
      <4>1. RecordRead(h)
        BY <1>1, <3>3, StepMoves
      <4>2. hs'[h].file = wd.index /\ wd' = wd
        BY <1>1, <4>1, RecordReadFacts DEF RecordRead, gitVars
      <4> QED BY <3>2, <4>2 DEF CloneGood
    <3> QED BY <2>4, <3>2, <3>3
  <2> QED BY <2>3, <2>4
<1>6. Resting'
  BY <1>5 DEF Resting, ClonePCs
<1> QED BY <1>3, <1>4, <1>6 DEF AppsInv

\* A request that comes overlaps those under way.
LEMMA OverlapInv ==
    ASSUME AppsInv, TypeInv', UNCHANGED <<main, branch, target, asked, unrecorded>>,
           mixed \cup BusyApps \subseteq mixed',
           NEW S \in SUBSET Handlers, \A k \in S : hs[k].pc = "idle",
           \A k \in S : /\ hs'[k].pc = "check" /\ hs'[k].alone = (Busy = {})
                        /\ IF Busy = {} THEN \A g \in S : g = k ELSE hs'[k].app \in mixed',
           \A k \in Handlers \ S : hs'[k] = Overlap(k),
           \A c \in Apps : CloneGood(c) => CloneGood(c)'
    PROVE  AppsInv'
<1>1. TypeInv /\ Resting
  BY DEF AppsInv
<1>2. ASSUME NEW k \in Handlers \ S
      PROVE  /\ hs'[k].pc = hs[k].pc /\ hs'[k].app = hs[k].app /\ hs'[k].file = hs[k].file
             /\ hs'[k].alone = (hs[k].pc = "idle")
  BY <1>1, <1>2, OverlapFacts
<1>3. ASSUME NEW a \in Apps, a \notin mixed' PROVE PinAt(a)' /\ RecordAt(a)'
  <2>1. PinAt(a) /\ RecordAt(a)
    BY <1>3 DEF AppsInv
  <2> QED BY <2>1 DEF PinAt, RecordAt, InRollback
<1>4. ASSUME NEW k \in Handlers PROVE Sole(k)' /\ (Alone(k) => Handled(k))'
  <2>1. CASE k \in S
    <3>1. Handled(k)'
      BY <2>1, NothingInHand
    <3>2. CASE Busy = {}
      <4>1. ASSUME NEW g \in Handlers, g # k PROVE hs'[g].pc = "idle"
        <5>1. g \notin S
          BY <2>1, <3>2, <4>1
        <5> QED BY <1>2, <3>2, <5>1 DEF Busy, At
      <4> QED BY <2>1, <3>1, <3>2, <4>1 DEF Sole, Alone, At
    <3>3. CASE Busy # {}
      BY <2>1, <3>1, <3>3 DEF Sole, Alone, At
    <3> QED BY <3>2, <3>3
  <2>2. CASE k \notin S
    <3>1. hs[k].pc # "idle" => hs[k].app \in BusyApps
      BY DEF BusyApps, Busy, At
    <3> QED BY <1>2, <2>2, <3>1 DEF Sole, Alone, At
  <2> QED BY <2>1, <2>2
<1>5. ASSUME NEW k \in Handlers, NEW c \in Apps, AtRest(c)', hs'[k].pc \in ClonePCs
      PROVE  CloneGood(c)' /\ (hs'[k].pc = "write" => hs'[k].file[c] = main'.file[c])
  <2>1. AtRest(c)
    BY <1>5 DEF AtRest
  <2>2. k \notin S
    BY <1>5 DEF ClonePCs
  <2> QED BY <1>1, <1>2, <1>5, <2>1, <2>2 DEF Resting
<1>6. Resting'
  BY <1>5 DEF Resting, ClonePCs
<1> QED BY <1>3, <1>4, <1>6 DEF AppsInv

LEMMA StartInv ==
    ASSUME AppsInv, TypeInv', NEW h \in Handlers, NEW a \in Apps,
           Restore(h, a) \/ \E c \in Commits : Rollback(h, a, c)
    PROVE  AppsInv'
<1>1. TypeInv /\ hs[h].pc = "idle"
  BY DEF AppsInv, Restore, Rollback, At
<1>2. PICK r \in HandlerStates :
        /\ Start(h, r) /\ r.app = a /\ r.kind \in {"rollback", "restore"}
        /\ r.kind = "rollback" => r.sha \in Commits
  BY <1>1, RequestFacts
<1>3. /\ hs'[h].pc = "check" /\ hs'[h].app = a /\ hs'[h].alone = (Busy = {})
      /\ \A k \in Handlers \ {h} : hs'[k] = Overlap(k)
  BY <1>1, <1>2, StartFacts
<1>4. /\ UNCHANGED <<main, branch, wd, target, asked, unrecorded>>
      /\ mixed' = mixed \cup BusyApps \cup (IF Busy = {} THEN {} ELSE {a})
  BY <1>2 DEF Start, gitVars
<1>5. {h} \in SUBSET Handlers
  OBVIOUS
<1>6. \A c \in Apps : CloneGood(c) => CloneGood(c)'
  BY <1>4 DEF CloneGood
<1>7. mixed \cup BusyApps \subseteq mixed' /\ (Busy # {} => hs'[h].app \in mixed')
  BY <1>3, <1>4
<1> QED BY <1>1, <1>3, <1>4, <1>5, <1>6, <1>7, OverlapInv

LEMMA ReadOnlyInv ==
    ASSUME AppsInv, TypeInv', NEW h \in Handlers, ReadOnlyRequest(h)
    PROVE  AppsInv'
<1>1. \A k \in Handlers \ {} : hs'[k] = Overlap(k)
  BY ReadOnlyTyped DEF AppsInv
<1>2. /\ UNCHANGED <<main, branch, target, asked, unrecorded>>
      /\ mixed \cup BusyApps \subseteq mixed'
      /\ \A c \in Apps : CloneGood(c)'
  BY CloneIsGood DEF AppsInv, ReadOnlyRequest, Clone
<1>3. {} \in SUBSET Handlers
  OBVIOUS
<1> QED BY <1>1, <1>2, <1>3, OverlapInv

LEMMA AppsStep == AppsInv /\ [Next]_vars => AppsInv'
<1> SUFFICES ASSUME AppsInv, [Next]_vars PROVE AppsInv'
  OBVIOUS
<1>1. TypeInv /\ TypeInv'
  BY StepTyped DEF AppsInv
<1>2. ASSUME UNCHANGED <<hs, branch, target, asked, unrecorded, mixed>>, main'.file = main.file,
             wd'.index = wd.index, wd'.local = wd.local, wd'.ref = wd.ref
      PROVE  AppsInv'
  <2>1. ASSUME NEW a \in Apps PROVE (AtRest(a)' <=> AtRest(a)) /\ (CloneGood(a)' <=> CloneGood(a))
    BY <1>2 DEF AtRest, BusyApps, Busy, At, CloneGood
  <2>2. Resting'
    BY <1>2, <2>1 DEF AppsInv, Resting
  <2>3. \A a \in Apps \ mixed' : PinAt(a)' /\ RecordAt(a)'
    BY <1>2 DEF AppsInv, PinAt, RecordAt, InRollback
  <2>4. ASSUME NEW h \in Handlers PROVE Sole(h)' /\ (Alone(h) => Handled(h))'
    <3>1. Sole(h) /\ (Alone(h) => Handled(h))
      BY DEF AppsInv
    <3>2. Sole(h)' /\ (Alone(h)' <=> Alone(h))
      BY <1>2, <3>1 DEF Sole, Alone, At
    <3>3. Handled(h) => Handled(h)'
      BY <1>2 DEF Handled, Branching, Patched, Writing, Recorded, InRollback
    <3> QED BY <3>1, <3>2, <3>3
  <2> QED BY <1>1, <2>2, <2>3, <2>4 DEF AppsInv
<1>3. CASE OtherProcessPush
  BY <1>1, <1>2, <1>3
  DEF OtherProcessPush, ForeignPush, Cluster, TypeInv, TypeOK, GitTypeOK, Trees, Clones
<1>4. CASE UNCHANGED vars
  BY <1>2, <1>4 DEF vars, gitVars
<1>5. ASSUME NEW h \in Handlers, NEW a \in Apps,
             Restore(h, a) \/ \E c \in Commits : Rollback(h, a, c)
      PROVE  AppsInv'
  BY <1>1, <1>5, StartInv
<1>6. ASSUME NEW h \in Handlers, ReadOnlyRequest(h) PROVE AppsInv'
  BY <1>1, <1>6, ReadOnlyInv
<1>7. ASSUME NEW h \in Handlers, Step(h) PROVE AppsInv'
  BY <1>1, <1>7, StepInv
<1> QED
  BY <1>3, <1>4, <1>5, <1>6, <1>7 DEF Next, ServerStep, FaultStep, Request, Step

LEMMA AppsInvHolds == Spec => []AppsInv
BY InitAppsInv, AppsStep, PTL DEF Spec

\* Rollback and Restore (apps.go) over the clone directory that all requests
\* share (gitops.go), for any number of requests at a time, failing calls, dying
\* handlers and other clones pushing to main: an Application that follows
\* rollback/<app> finds there a commit it was asked to be rolled back to, unless
\* a request of that app has overlapped another request and none has run alone
\* and been recorded since.
THEOREM PinnedWhereAsked == Spec => []PinnedUnlessMixed
<1>1. AppsInv => PinnedUnlessMixed
  BY DEF AppsInv, PinnedUnlessMixed, PinAt
<1> QED BY AppsInvHolds, <1>1, PTL

\* RecordRollback and RecordRestore (gitops.go) write the records of all apps
\* each time, from a directory that any request may clone anew or write to: on
\* main they agree with the cluster about every app whose last change was
\* recorded, with the same exception.
THEOREM RecordsAreTrue == Spec => []RecordAgrees
<1>1. AppsInv => RecordAgrees
  BY DEF AppsInv, RecordAgrees, RecordAt
<1> QED BY AppsInvHolds, <1>1, PTL

-----------------------------------------------------------------------------
(***************************************************************************)
(* The handlers implement AppPins.                                         *)
(***************************************************************************)
LEMMA SamePins ==
    ASSUME UNCHANGED <<target, branch, asked, mixed>> PROVE UNCHANGED Pins!vars
<1>1. PinOf' = PinOf /\ AskedOf' = AskedOf
  BY DEF PinOf, AskedOf, InRollback
<1> QED BY <1>1 DEF Pins!vars

\* A step changes the pin of its own app, and of that one only if it is alone.
LEMMA OnePin ==
    ASSUME AppsInv, NEW h \in Handlers, NEW a \in Apps, a = hs[h].app, Step(h)
    PROVE  /\ PinOf' = [PinOf EXCEPT ![a] = PinOf'[a]]
           /\ AskedOf' = [AskedOf EXCEPT ![a] = AskedOf'[a]]
           /\ a \notin mixed \/ ~hs[h].alone => mixed' = mixed
           /\ ~hs[h].alone => UNCHANGED Pins!vars
<1>1. Moves(h) /\ Sole(h)
  BY StepMoves DEF AppsInv
<1>2. ASSUME NEW c \in Apps, c # a \/ ~hs[h].alone
      PROVE  PinOf'[c] = PinOf[c] /\ AskedOf'[c] = AskedOf[c]
  <2>1. c \in mixed' <=> c \in mixed
    BY <1>1, <1>2 DEF Moves
  <2>2. CASE c \in mixed
    BY <2>1, <2>2 DEF PinOf, AskedOf
  <2>3. CASE c \notin mixed
    <3>1. AtRest(c)
      BY <1>1, <1>2, <2>1, <2>3, RestOrOwn
    <3>2. Kept(c)
      BY <3>1, RestKept
    <3> QED BY <2>1, <3>2 DEF Kept, PinOf, AskedOf, InRollback
  <2> QED BY <2>2, <2>3
<1>3. a \notin mixed \/ ~hs[h].alone => mixed' = mixed
  BY <1>1 DEF Moves
<1>4. ASSUME ~hs[h].alone PROVE UNCHANGED Pins!vars
  <2>1. PinOf' = PinOf /\ AskedOf' = AskedOf
    BY <1>2, <1>4 DEF PinOf, AskedOf
  <2> QED BY <1>3, <1>4, <2>1 DEF Pins!vars
<1>5. PinOf' = [PinOf EXCEPT ![a] = PinOf'[a]]
  <2>1. DOMAIN PinOf = Apps /\ DOMAIN PinOf' = Apps
    BY DEF PinOf
  <2>2. PinOf = [c \in Apps |-> PinOf[c]] /\ PinOf' = [c \in Apps |-> PinOf'[c]]
    BY DEF PinOf
  <2> QED BY <1>2, <2>1, <2>2
<1>6. AskedOf' = [AskedOf EXCEPT ![a] = AskedOf'[a]]
  <2>1. DOMAIN AskedOf = Apps /\ DOMAIN AskedOf' = Apps
    BY DEF AskedOf
  <2>2. AskedOf = [c \in Apps |-> AskedOf[c]] /\ AskedOf' = [c \in Apps |-> AskedOf'[c]]
    BY DEF AskedOf
  <2> QED BY <1>2, <2>1, <2>2
<1> QED BY <1>3, <1>4, <1>5, <1>6

\* The step of a request for an app that is not mixed.
LEMMA PinStep ==
    ASSUME AppsInv, NEW h \in Handlers, NEW a \in Apps, a = hs[h].app, Step(h),
           a \notin mixed, hs[h].alone
    PROVE  [Pins!Next]_Pins!vars
<1> USE DEF At, Cluster
<1>1. /\ TypeInv /\ TypeOK /\ GitTypeOK /\ mixed' = mixed
      /\ PinOf' = [PinOf EXCEPT ![a] = PinOf'[a]]
      /\ AskedOf' = [AskedOf EXCEPT ![a] = AskedOf'[a]]
  BY OnePin DEF AppsInv, TypeInv, TypeOK
<1>2. hs[h].pc # "idle" => Handled(h)
  BY DEF AppsInv, Alone
<1>3. /\ AskedOf[a] = asked[a] /\ AskedOf'[a] = asked'[a]
      /\ PinOf[a] = IF InRollback(a) THEN branch[a] ELSE None
      /\ PinOf'[a] = IF target'[a] = "rollback" THEN branch'[a] ELSE None
  BY <1>1 DEF AskedOf, PinOf, InRollback
<1>4. ASSUME target'[a] = target[a], asked'[a] = asked[a], branch'[a] = branch[a]
      PROVE  UNCHANGED Pins!vars
  <2>1. PinOf'[a] = PinOf[a] /\ AskedOf'[a] = AskedOf[a]
    BY <1>3, <1>4 DEF InRollback
  <2>2. PinOf' = PinOf /\ AskedOf' = AskedOf
    BY <1>1, <2>1 DEF PinOf, AskedOf
  <2> QED BY <1>1, <2>2 DEF Pins!vars
<1>5. CASE \/ CheckTarget(h) \/ CheckFails(h) \/ Fail(h) \/ CallRefused(h) \/ BranchClone(h)
           \/ BranchConfig(h) \/ BranchRef(h) \/ RecordClone(h) \/ RecordRead(h)
           \/ RecordWrite(h) \/ RecordCommit(h) \/ FastForwardRef(h)
  <2>1. UNCHANGED <<target, branch, asked>>
    BY <1>5
    DEF CheckTarget, CheckFails, Fail, CallRefused, BranchClone, BranchConfig, BranchRef,
        RecordClone, RecordRead, RecordWrite, RecordCommit, FastForwardRef, gitVars, Clone,
        CreateBranch, SetReference, WriteRollbacks, Commit
  <2> QED BY <1>4, <2>1
<1>6. CASE Validate(h)
  <2>1. UNCHANGED <<target, branch>> /\ main.hist \subseteq Commits
    BY <1>1, <1>6 DEF Validate, Clone, GitTypeOK, Trees
  <2>2. CASE asked' = asked
    BY <1>4, <2>1, <2>2
  <2>3. CASE hs[h].sha \in main.hist
    <3>1. asked'[a] = asked[a] \cup {hs[h].sha} /\ hs[h].sha \in Commits
      BY <1>1, <1>6, <2>1, <2>3 DEF Validate, TypeOK
    <3>2. AskedOf' = [AskedOf EXCEPT ![a] = @ \cup {hs[h].sha}]
      BY <1>1, <1>3, <3>1 DEF AskedOf
    <3>3. PinOf' = PinOf
      BY <1>1, <1>3, <2>1 DEF PinOf, InRollback
    <3>4. Pins!Ask(a, hs[h].sha)
      BY <1>1, <3>2, <3>3 DEF Pins!Ask
    <3> QED BY <3>1, <3>4 DEF Pins!Next
  <2> QED BY <1>6, <2>2, <2>3 DEF Validate
<1>7. CASE BranchPush(h)
  <2>1. hs[h].sha \in asked[a] /\ wd.ref[a] = hs[h].sha /\ hs[h].sha \in Commits
    BY <1>1, <1>2, <1>7
    DEF Handled, Branching, BranchPush, BranchPCs, TypeInv, WellFormed
  <2>2. UNCHANGED <<target, asked>> /\ branch'[a] = hs[h].sha
    BY <1>1, <1>7, <2>1, ApiConstants DEF BranchPush, ForcePush, GitTypeOK
  <2>3. CASE InRollback(a)
    <3>1. PinOf' = [PinOf EXCEPT ![a] = hs[h].sha] /\ AskedOf' = AskedOf
      BY <1>1, <1>3, <2>2, <2>3 DEF AskedOf, InRollback
    <3>2. Pins!Pin(a, hs[h].sha)
      BY <1>1, <1>3, <2>1, <3>1 DEF Pins!Pin
    <3> QED BY <2>1, <3>2 DEF Pins!Next
  <2>4. CASE ~InRollback(a)
    <3>1. PinOf'[a] = PinOf[a] /\ AskedOf'[a] = AskedOf[a]
      BY <1>3, <2>2, <2>4 DEF InRollback
    <3>2. PinOf' = PinOf /\ AskedOf' = AskedOf
      BY <1>1, <3>1 DEF PinOf, AskedOf
    <3> QED BY <1>1, <3>2 DEF Pins!vars
  <2> QED BY <2>3, <2>4
<1>8. CASE Patch(h)
  <2>1. UNCHANGED branch /\ hs[h].kind \in {"rollback", "restore"}
    BY <1>1, <1>8, UnderWay DEF Patch, gitVars
  <2>2. CASE hs[h].kind = "rollback"
    <3>1. branch[a] = hs[h].sha /\ hs[h].sha \in asked[a] /\ hs[h].sha \in Commits
      BY <1>1, <1>2, <1>8, <2>2 DEF Handled, Branching, Patch, TypeInv, WellFormed
    <3>2. target'[a] = "rollback" /\ asked' = asked
      BY <1>1, <1>8, <2>2 DEF Patch, TypeOK
    <3>3. PinOf' = [PinOf EXCEPT ![a] = hs[h].sha] /\ AskedOf' = AskedOf
      BY <1>1, <1>3, <2>1, <3>1, <3>2 DEF AskedOf
    <3>4. Pins!Pin(a, hs[h].sha)
      BY <1>1, <1>3, <3>1, <3>3 DEF Pins!Pin
    <3> QED BY <3>1, <3>4 DEF Pins!Next
  <2>3. CASE hs[h].kind = "restore"
    <3>1. target'[a] = "main" /\ asked'[a] = {}
      BY <1>1, <1>8, <2>3 DEF Patch, TypeOK
    <3>2. PinOf' = [PinOf EXCEPT ![a] = None] /\ AskedOf' = [AskedOf EXCEPT ![a] = {}]
      BY <1>1, <1>3, <3>1
    <3>3. Pins!Unpin(a)
      BY <1>1, <3>2 DEF Pins!Unpin
    <3> QED BY <3>3 DEF Pins!Next
  <2> QED BY <2>1, <2>2, <2>3
<1>9. CASE RecordPush(h)
  <2>1. branch'[a] = branch[a] /\ UNCHANGED <<target, asked>>
    BY <1>9, RecordPushOwn DEF RecordPush
  <2> QED BY <1>4, <2>1
<1>10. CASE FastForwardPush(h)
  <2>1. ~InRollback(a) /\ UNCHANGED <<target, asked>>
    BY <1>10, FastForwardOwn DEF FastForwardPush
  <2>2. PinOf'[a] = PinOf[a] /\ AskedOf'[a] = AskedOf[a]
    BY <1>3, <2>1 DEF InRollback
  <2>3. PinOf' = PinOf /\ AskedOf' = AskedOf
    BY <1>1, <2>2 DEF PinOf, AskedOf
  <2> QED BY <1>1, <2>3 DEF Pins!vars
<1> QED BY <1>5, <1>6, <1>7, <1>8, <1>9, <1>10 DEF Step, HandlerStep

\* The step of a request that runs alone for a mixed app: nothing, or the end of it.
LEMMA FindStep ==
    ASSUME AppsInv, NEW h \in Handlers, NEW a \in Apps, a = hs[h].app, Step(h),
           a \in mixed, hs[h].alone
    PROVE  [Pins!Next]_Pins!vars
<1>1. /\ PinOf' = [PinOf EXCEPT ![a] = PinOf'[a]]
      /\ AskedOf' = [AskedOf EXCEPT ![a] = AskedOf'[a]]
      /\ Moves(h) /\ TypeInv'
  BY OnePin, StepMoves, HandlerStepTyped, FaultTyped DEF AppsInv, Step
<1>2. CASE mixed' = mixed
  <2>1. PinOf'[a] = PinOf[a] /\ AskedOf'[a] = AskedOf[a]
    BY <1>2 DEF PinOf, AskedOf
  <2>2. PinOf' = PinOf /\ AskedOf' = AskedOf
    BY <1>1, <2>1 DEF PinOf, AskedOf
  <2> QED BY <1>2, <2>2 DEF Pins!vars
<1>3. CASE mixed' = mixed \ {a} /\ a \notin mixed'
  <2>1. PinAt(a)' /\ asked'[a] \in SUBSET Commits
    BY <1>1, <1>3, StepOwn DEF Own, TypeInv, TypeOK
  <2>2. AskedOf'[a] = asked'[a] /\ PinOf'[a] \in asked'[a] \cup {None}
    BY <1>3, <2>1 DEF AskedOf, PinOf, PinAt, InRollback
  <2>3. Pins!Find(a, asked'[a], PinOf'[a])
    BY <1>1, <1>3, <2>2 DEF Pins!Find
  <2> QED BY <2>1, <2>2, <2>3 DEF Pins!Next
<1> QED BY <1>1, <1>2, <1>3 DEF Moves

\* A request that comes.
LEMMA LoseStep ==
    ASSUME AppsInv, NEW h \in Handlers,
           \/ \E a \in Apps : Restore(h, a) \/ \E c \in Commits : Rollback(h, a, c)
           \/ ReadOnlyRequest(h)
    PROVE  [Pins!Next]_Pins!vars
<1>1. UNCHANGED <<target, branch, asked>> /\ mixed \subseteq mixed'
  BY DEF Restore, Rollback, Start, ReadOnlyRequest, Clone, gitVars
<1>2. mixed' \in SUBSET Apps
  <2>1. TypeInv'
    BY RequestFacts, StartFacts, ReadOnlyTyped DEF AppsInv
  <2> QED BY <2>1 DEF TypeInv, TypeOK
<1>3. AskedOf' = [a \in Apps |-> IF a \in mixed' THEN {} ELSE AskedOf[a]]
  BY <1>1 DEF AskedOf
<1>4. PinOf' = [a \in Apps |-> IF a \in mixed' THEN None ELSE PinOf[a]]
  BY <1>1 DEF PinOf, InRollback
<1>5. mixed' = mixed \cup mixed'
  BY <1>1
<1>6. Pins!Lose(mixed')
  BY <1>3, <1>4, <1>5 DEF Pins!Lose
<1> QED BY <1>2, <1>6 DEF Pins!Next

LEMMA PinsStep == AppsInv /\ [Next]_vars => [Pins!Next]_Pins!vars
<1> SUFFICES ASSUME AppsInv, [Next]_vars PROVE [Pins!Next]_Pins!vars
  OBVIOUS
<1>1. ASSUME NEW h \in Handlers, Step(h) PROVE [Pins!Next]_Pins!vars
  <2>1. hs[h].app \in Apps
    BY <1>1, StepMoves DEF AppsInv, TypeInv, WellFormed, Moves
  <2>2. PICK a \in Apps : a = hs[h].app
    BY <2>1
  <2>3. CASE ~hs[h].alone
    BY <1>1, <2>2, <2>3, OnePin
  <2>4. CASE hs[h].alone
    BY <1>1, <2>2, <2>4, PinStep, FindStep
  <2> QED BY <2>3, <2>4
<1>2. CASE OtherProcessPush \/ UNCHANGED vars
  BY <1>2, SamePins DEF OtherProcessPush, ForeignPush, Cluster, vars, gitVars
<1> QED
  BY <1>1, <1>2, LoseStep DEF Next, ServerStep, FaultStep, Request, Step

\* Rollback and Restore (apps.go) implement AppPins, for any number of requests
\* at a time and with every fault: an app is pinned, moved and released in one
\* step each, to commits it was asked to go to, and what fails half way never
\* shows; an app is lost sight of only when its requests overlap, and found
\* pinned where it was asked to be, or on main, by a request that runs alone.
THEOREM HandlersImplementPins == Spec => ImplementsPins
<1>1. Init => Pins!Init
  <2>1. Init => PinOf = [a \in Apps |-> None] /\ AskedOf = [a \in Apps |-> {}] /\ mixed = {}
    BY DEF Init, PinOf, AskedOf, InRollback
  <2> QED BY <2>1 DEF Pins!Init
<1> QED BY <1>1, AppsInvHolds, PinsStep, PTL DEF Spec, ImplementsPins, Pins!Spec
=============================================================================
