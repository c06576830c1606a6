------------------------------- MODULE GitOps -------------------------------
(***************************************************************************)
(* The GitOps repository as internal/git uses it: the main branch of the   *)
(* remote, and the one local clone (WorkDir, /tmp/gitops-lab) that every   *)
(* request of a process shares.  Every operation of GitOps starts by       *)
(* removing WorkDir and cloning again, and then works on whatever the      *)
(* directory holds when each of its git calls runs, so two operations of   *)
(* one process interleave on the same index and the same local branch.     *)
(*                                                                         *)
(* A tree maps a path to its content.  The remote and go-git are external: *)
(* they are modelled by what this package's calls observe of them.         *)
(***************************************************************************)
CONSTANTS Paths, Contents, Absent

VARIABLES
    main,   \* the remote's main branch: its tree, and all it ever held
    wd      \* the shared clone: local main, index, and what is unpushed

Trees == [Paths -> Contents \cup {Absent}]

EmptyTree == [p \in Paths |-> Absent]

\* seen is the set of <<path, content>> some commit on main's history holds.
Remotes == [tree : Trees, seen : SUBSET (Paths \X Contents)]

\* current: main has not moved since the clone, other than by our own push.
\* head and index are the local branch's tree and the staged tree; seen is
\* what the commits that are not pushed yet hold.
WorkDirs == [current : BOOLEAN, head : Trees, index : Trees,
             seen : SUBSET (Paths \X Contents)]

GitTypeOK == main \in Remotes /\ wd \in WorkDirs

GitInit ==
    /\ main = [tree |-> EmptyTree, seen |-> {}]
    /\ wd = [current |-> FALSE, head |-> EmptyTree, index |-> EmptyTree,
             seen |-> {}]

-----------------------------------------------------------------------------
\* RemoveAll(WorkDir), PlainClone, Checkout(main).
Clone ==
    /\ wd' = [current |-> TRUE, head |-> main.tree, index |-> main.tree,
              seen |-> {}]
    /\ UNCHANGED main

\* os.Stat under WorkDir: what the directory holds now, pushed or not.
StatExists(p) == wd.index[p] # Absent

\* WriteFile and w.Add of every generated file of one app directory.
WriteAndAdd(p, c) ==
    /\ wd' = [wd EXCEPT !.index[p] = c]
    /\ UNCHANGED main

\* w.Commit: the index, whoever staged it, becomes the head of local main.
Commit ==
    /\ wd' = [wd EXCEPT !.head = wd.index,
                        !.seen = @ \cup {<<p, wd.index[p]>> :
                                   p \in {q \in Paths : wd.index[q] # Absent}}]
    /\ UNCHANGED main

\* repo.Push of local main.  The remote takes a fast-forward; a clone with
\* nothing to push answers NoErrAlreadyUpToDate, which the code accepts.
Push ==
    /\ wd.current
    /\ main' = [tree |-> wd.head, seen |-> main.seen \cup wd.seen]
    /\ wd' = [wd EXCEPT !.seen = {}]

\* The remote refuses a push that is not a fast-forward.
PushRejected == ~wd.current /\ UNCHANGED <<main, wd>>

\* Another process (the API's records of rollbacks and restores, an image
\* updater, a person) pushes to main: files outside the app directories'
\* existence change, and this clone is no longer current.  (If it was not,
\* nothing changes here.)
ForeignPush ==
    /\ wd.current
    /\ wd' = [wd EXCEPT !.current = FALSE]
    /\ UNCHANGED main
=============================================================================
