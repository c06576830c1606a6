------------------------------ MODULE AppPins ------------------------------
(***************************************************************************)
(* What rollback and restore promise: an app follows main, or it is pinned *)
(* to a commit that somebody asked to roll it back to since it last        *)
(* followed main.  Of an app with overlapping requests nothing is promised *)
(* until it is found again.                                                *)
(***************************************************************************)
CONSTANTS Apps, Commits, None

VARIABLES asked, pin, lost

vars == <<asked, pin, lost>>

Init ==
    /\ asked = [a \in Apps |-> {}]
    /\ pin = [a \in Apps |-> None]
    /\ lost = {}

Ask(a, c) ==
    /\ a \notin lost
    /\ asked' = [asked EXCEPT ![a] = @ \cup {c}]
    /\ UNCHANGED <<pin, lost>>

Pin(a, c) ==
    /\ c \in asked[a]
    /\ pin' = [pin EXCEPT ![a] = c]
    /\ UNCHANGED <<asked, lost>>

Unpin(a) ==
    /\ asked' = [asked EXCEPT ![a] = {}]
    /\ pin' = [pin EXCEPT ![a] = None]
    /\ UNCHANGED lost

Lose(S) ==
    /\ lost' = lost \cup S
    /\ asked' = [a \in Apps |-> IF a \in S THEN {} ELSE asked[a]]
    /\ pin' = [a \in Apps |-> IF a \in S THEN None ELSE pin[a]]

Find(a, A, c) ==
    /\ a \in lost
    /\ c \in A \cup {None}
    /\ lost' = lost \ {a}
    /\ asked' = [asked EXCEPT ![a] = A]
    /\ pin' = [pin EXCEPT ![a] = c]

Next ==
    \/ \E a \in Apps : Unpin(a) \/ \E c \in Commits : Ask(a, c) \/ Pin(a, c)
    \/ \E S \in SUBSET Apps : Lose(S)
    \/ \E a \in lost, A \in SUBSET Commits : \E c \in A \cup {None} : Find(a, A, c)

Spec == Init /\ [][Next]_vars
=============================================================================
