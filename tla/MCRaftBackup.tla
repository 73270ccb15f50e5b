---------------------------- MODULE MCRaftBackup ----------------------------
(***************************************************************************)
(* Raft for TLC from the middle of a run: a leader of term 3 repairs a     *)
(* follower whose log diverges.  Two entries of term 1 were delivered      *)
(* everywhere; stale got a third as the leader of term 1, boss a third as  *)
(* the leader of term 2, and boss has just been elected again.  stale has  *)
(* been restarted since, so its service is to be given the first two again.*)
(* Compacted is what stale's service had compacted with Snapshot().        *)
(***************************************************************************)
EXTENDS Raft

CONSTANTS boss, stale, Compacted

ASSUME BackupAssumption ==
    /\ boss \in Server /\ stale \in Server /\ boss # stale
    /\ Compacted \in 0..2

Entry(t) == [term |-> t, command |-> CHOOSE c \in Command : TRUE]

InitDiverged ==
    /\ currentTerm = [i \in Server |-> 3]
    /\ votedFor = [i \in Server |-> IF i = stale THEN NoVote ELSE boss]
    /\ serverState = [i \in Server |-> IF i = boss THEN "leader" ELSE "follower"]
    /\ votesReceived = [i \in Server |-> IF i = boss THEN 2 ELSE 0]
    /\ log = [i \in Server |->
                CASE i = boss  -> <<Entry(1), Entry(1), Entry(2)>>
                  [] i = stale -> SubSeq(<<Entry(1), Entry(1), Entry(1)>>, Compacted + 1, 3)
                  [] OTHER     -> <<Entry(1), Entry(1)>>]
    /\ lastIncludedIndex = [i \in Server |-> IF i = stale THEN Compacted ELSE 0]
    /\ lastIncludedTerm = [i \in Server |-> IF i = stale /\ Compacted > 0 THEN 1 ELSE 0]
    /\ commitIndex = [i \in Server |-> IF i = stale THEN Compacted ELSE 2]
    /\ lastApplied = commitIndex
    /\ nextIndex = [i \in Server |-> [p \in Server |-> IF i = boss THEN 4 ELSE 0]]
    /\ matchIndex = [i \in Server |-> [p \in Server |-> IF i = boss /\ p = boss THEN 3 ELSE 0]]
    /\ ticker = [i \in Server |-> FALSE]
    /\ installers = [i \in Server |-> {}]
    /\ persisted = [i \in Server |-> RaftState(i)]
    /\ snapshot = lastIncludedIndex
    /\ voteCalls = {}
    /\ calls = [i \in Server |-> [p \in Server |-> <<>>]]
    /\ crashes = 0
    /\ votes = {} /\ elected = {}
    /\ voters = [i \in Server |-> {}]
    /\ applied = {<<1, Entry(1)>>, <<2, Entry(1)>>}

Backlog == Len(calls[boss][stale])

\* The leader keeps sending heartbeats, every call returns, and the network
\* does not lose every request or every reply of one link for ever.
BackupFairness ==
    /\ SF_vars(TickerSend(boss) /\ Backlog' > Backlog)
    /\ \A p \in Peers(boss) :
          WF_vars(\E k \in DOMAIN calls[boss][p] : CallStep(boss, p, k))
    /\ SF_vars(\E k \in DOMAIN calls[boss][stale] :
                  CallStep(boss, stale, k) /\ Backlog' = Backlog)

SpecBackup == InitDiverged /\ [][Next]_vars /\ BackupFairness

\* "leader backs up quickly over incorrect follower logs" (the test of
\* raft/test_test.go): a follower whose log diverges ends up with the log of
\* a leader that stays in office.
Repaired ==
    <>[](/\ lastLogIndex(stale) = lastLogIndex(boss)
         /\ \A n \in Held(stale) : EntryAt(stale, n) = EntryAt(boss, n))
=============================================================================
