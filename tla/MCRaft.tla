------------------------------- MODULE MCRaft -------------------------------
(***************************************************************************)
(* Raft for TLC: symmetry, and views that leave out the history a run does *)
(* not check and what a peer keeps from an office it has left (nextIndex,  *)
(* matchIndex and votesReceived are reset before they are read again).     *)
(***************************************************************************)
EXTENDS RaftSafety

Symmetry == Permutations(Server)

Office(i) ==
    IF serverState[i] = "leader" \/ ticker[i] THEN <<nextIndex[i], matchIndex[i]>>
    ELSE IF serverState[i] = "candidate" THEN <<votesReceived[i]>>
    ELSE <<>>

\* Without compaction: lastIncludedIndex and snapshot are constant, no log
\* depends on commitIndex or lastApplied, and persisted repeats the peer's own
\* fields (PersistedCurrent).
LogView ==
    <<termVars, log, ticker, voteCalls, calls, crashes,
      [i \in Server |-> Office(i)]>>

\* ... and with what is delivered to the service.
ApplyView == <<LogView, applyVars>>
=============================================================================
