---------------------------- MODULE MCCollection ----------------------------
EXTENDS Collection

\* Gone, without a capacity, idle, and in use.
States == {[here |-> FALSE, ready |-> FALSE, cap |-> 0, used |-> 0],
           [here |-> TRUE, ready |-> TRUE, cap |-> 0, used |-> 1],
           [here |-> TRUE, ready |-> FALSE, cap |-> 2, used |-> 0],
           [here |-> TRUE, ready |-> TRUE, cap |-> 4, used |-> 1]}

Backups == {[key |-> 1, stream |-> "sqlite", size |-> 1, modified |-> 0],
            [key |-> 2, stream |-> "sqlite", size |-> 1, modified |-> 1],
            [key |-> 3, stream |-> "other", size |-> 2, modified |-> 1]}

\* Points out of order, incomplete, or none; an item without the dimension, and
\* two of one machine.
Point(at, value) == [at |-> at, value |-> value]
Item(key, points) == [key |-> key, points |-> points]
Answers == {<<>>,
            <<Item("n1", <<Point(2, 3), Point(1, 1)>>), Item("", <<Point(3, 9)>>)>>,
            <<Item("n1", <<Point(1, Null), Point(Null, 5)>>)>>,
            <<Item("n1", <<Point(2, 1)>>), Item("n1", <<Point(1, 3), Point(3, Null)>>)>>}

Deployments == {[kubernetes |-> TRUE, ids |-> {"namespace", "bucket"}],
                [kubernetes |-> FALSE, ids |-> {"compartment", "nlb", "namespace"}]}
=============================================================================
