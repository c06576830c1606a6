--------------------------- MODULE BuildLifecycle ---------------------------
(***************************************************************************)
(* What the coordinator promises of one build job to the UI, which polls   *)
(* it until it reads a terminal status and then stops: a job is queued     *)
(* once, may be seen running, settles once, and a settled job never        *)
(* changes again; only a failed one is ever forgotten, to make room for    *)
(* another attempt to create its app.                                      *)
(***************************************************************************)
CONSTANT JobIds

VARIABLE state

Active == {"queued", "running"}
Settled == {"succeeded", "failed"}

Init == state = [j \in JobIds |-> "none"]

Move(j, from, to) ==
    /\ state[j] \in from
    /\ \E s \in to : state' = [state EXCEPT ![j] = s]

Enqueue(j) == Move(j, {"none"}, {"queued"})
Claim(j) == Move(j, {"queued"}, {"running"})
Settle(j) == Move(j, Active, Settled)
Forget(j) == Move(j, {"failed"}, {"forgotten"})

Next == \E j \in JobIds : Enqueue(j) \/ Claim(j) \/ Settle(j) \/ Forget(j)

Spec == Init /\ [][Next]_state
=============================================================================
