---------------------------- MODULE ReplicatedLog ----------------------------
(***************************************************************************)
(* What Raft promises to the service on every peer, as the comments above  *)
(* ApplyMsg and Make() have it: one log that only grows, delivered to each *)
(* replica in order and without gaps.  Nothing is said of how entries are  *)
(* agreed on.                                                              *)
(***************************************************************************)
EXTENDS Integers, FiniteSets

CONSTANT Replica

VARIABLES
    decided,   \* the log so far, as a set of <<index, entry>>
    position   \* position[r]: the index r has come to

\* r is given the next entry: the one decided for that index, or, if it is the
\* first to come so far, one that is decided now.
Deliver(r) ==
    \E d \in decided' :
        /\ d[1] = position[r] + 1
        /\ \A e \in decided : e[1] = d[1] => e = d
        /\ decided' = decided \cup {d}
        /\ d[1] <= Cardinality(decided) + 1
        /\ position' = [position EXCEPT ![r] = d[1]]

\* r restarts, or its log is cut back: it will be given entries again.
Rewind(r) ==
    /\ position' = [position EXCEPT ![r] = position'[r]]
    /\ position'[r] \in 0..(position[r] - 1)
    /\ UNCHANGED decided

\* r is given a snapshot, which stands for decided entries only.
Skip(r) ==
    /\ position' = [position EXCEPT ![r] = position'[r]]
    /\ position'[r] \in position[r]..Cardinality(decided)
    /\ UNCHANGED decided

Init == decided = {} /\ position = [r \in Replica |-> 0]

Next == \E r \in Replica : Deliver(r) \/ Rewind(r) \/ Skip(r)

Spec == Init /\ [][Next]_<<decided, position>>
=============================================================================
