---------------------------- MODULE RollbackRepo ----------------------------
(***************************************************************************)
(* The GitOps repository as the API's rollback operations use it: main     *)
(* with rollbacks/rollbacks.yaml, the branches rollback/<app>, and the one *)
(* clone directory that all requests of the API process share.  Commits    *)
(* are numbered in the order they are made.  Every operation of gitops.go  *)
(* starts with Clone and then works, call by call, on whatever the         *)
(* directory holds.  The remote and go-git are external.                   *)
(***************************************************************************)
EXTENDS Integers

CONSTANTS Apps, MaxCommits, None

VARIABLES
    main,    \* remote main: its head, its history, its rollbacks.yaml
    branch,  \* app -> commit of the remote branch rollback/<app>
    wd,      \* the shared clone
    next,    \* the number of the next commit anyone makes
    hasDir   \* does the repository have a rollbacks/ directory

gitVars == <<main, branch, wd, next, hasDir>>

Commits == 1..MaxCommits
MaybeCommit == Commits \cup {None}

\* AppRollbacks: CurrentStatus and ActiveRollback's target (History is left
\* out).  An app that is not in the file is read as Untouched.
Records == [status : {"normal", "rollback"}, active : MaybeCommit]
Untouched == [status |-> "normal", active |-> None]
Files == [Apps -> Records]

Trees == [head : Commits, hist : SUBSET Commits, file : Files]

\* The clone: local main, the staged rollbacks.yaml, the apps with a branch
\* section in its config, the local refs rollback/<app>; current while main has
\* not moved but by a push from here.
Clones == [local : Trees, index : Files, conf : SUBSET Apps,
           ref : [Apps -> MaybeCommit], current : BOOLEAN]

GitTypeOK ==
    /\ main \in Trees
    /\ branch \in [Apps -> MaybeCommit]
    /\ wd \in Clones
    /\ next \in 2..(MaxCommits + 1)
    /\ hasDir \in BOOLEAN

GitInit ==
    /\ main = [head |-> 1, hist |-> {1}, file |-> [a \in Apps |-> Untouched]]
    /\ branch = [a \in Apps |-> None]
    /\ wd = [local |-> main, index |-> main.file, conf |-> {}, ref |-> branch,
             current |-> FALSE]
    /\ next = 2
    /\ hasDir \in BOOLEAN

\* RemoveAll(WorkDir), PlainClone, Checkout(main).
Clone ==
    /\ wd' = [local |-> main, index |-> main.file, conf |-> {},
              ref |-> [a \in Apps |-> None], current |-> TRUE]
    /\ UNCHANGED <<main, branch, next, hasDir>>

\* readRollbacksFromDisk: what the directory holds now.
ReadRollbacksFromDisk(a) == wd.index[a]

\* WriteFile and Add.  The whole file is written: what was read of the other
\* apps goes with it.  WriteFile does not make the directory.
WriteRollbacks(file) ==
    /\ hasDir
    /\ wd' = [wd EXCEPT !.index = file]
    /\ UNCHANGED <<main, branch, next, hasDir>>

\* w.Commit: the index, whoever staged it, on top of local main.
Commit ==
    /\ next \in Commits
    /\ next' = next + 1
    /\ wd' = [wd EXCEPT !.local = [head |-> next, hist |-> @.hist \cup {next},
                                   file |-> wd.index]]
    /\ UNCHANGED <<main, branch, hasDir>>

\* The commits a commit of the clone stands on: histories are linear, and their
\* commits are numbered in order.
Ancestors(c) ==
    {d \in IF c \in wd.local.hist THEN wd.local.hist ELSE main.hist : d <= c}

\* repo.Push with the default refspec refs/heads/*: local main and every local
\* rollback/<app>, all of them or, if one is no fast-forward, none.
PushAccepted ==
    /\ wd.current
    /\ \A a \in Apps :
         {wd.ref[a], branch[a]} \subseteq Commits => branch[a] \in Ancestors(wd.ref[a])

PushHeads ==
    /\ PushAccepted
    /\ main' = wd.local
    /\ branch' = [a \in Apps |-> IF wd.ref[a] = None THEN branch[a] ELSE wd.ref[a]]
    /\ UNCHANGED <<wd, next, hasDir>>

\* repo.CreateBranch: refused if the config has the branch.
CreateBranch(a) ==
    /\ a \notin wd.conf
    /\ wd' = [wd EXCEPT !.conf = @ \cup {a}]
    /\ UNCHANGED <<main, branch, next, hasDir>>

\* Storer.SetReference of the local branch.
SetReference(a, c) ==
    /\ wd' = [wd EXCEPT !.ref[a] = c]
    /\ UNCHANGED <<main, branch, next, hasDir>>

\* Mutant of ForcePush: a branch that is there is not moved.
PushIfAbsent(a) ==
    /\ branch' = IF branch[a] = None THEN [branch EXCEPT ![a] = wd.ref[a]] ELSE branch
    /\ UNCHANGED <<main, wd, next, hasDir>>

\* Push of +rollback/<app>.  If the local ref is gone there is nothing to push:
\* NoErrAlreadyUpToDate, which the code takes for success.
ForcePush(a) ==
    /\ branch' = IF wd.ref[a] = None THEN branch ELSE [branch EXCEPT ![a] = wd.ref[a]]
    /\ UNCHANGED <<main, wd, next, hasDir>>

\* The coordinator, or a person, pushes to main from another clone.
ForeignPush ==
    /\ next \in Commits
    /\ next' = next + 1
    /\ main' = [main EXCEPT !.head = next, !.hist = @ \cup {next}]
    /\ wd' = [wd EXCEPT !.current = FALSE]
    /\ UNCHANGED <<branch, hasDir>>
=============================================================================
