-------------------------------- MODULE Raft --------------------------------
(***************************************************************************)
(* One Raft peer group of src/src/raft/raft.go: elections, log             *)
(* replication with the fast-backup hint, commitment, delivery on applyCh, *)
(* log compaction with InstallSnapshot, persistence and restart.           *)
(*                                                                         *)
(* Every action is one critical section of rf.mu (or the part of a handler *)
(* between two of them).  Time is abstracted: an election deadline may     *)
(* pass whenever the peer is not a leader.  labrpc's Call() is a record    *)
(* that waits in voteCalls or in the link calls[i][j] until the handler    *)
(* has run at j, and then, as a reply, until the calling goroutine of i    *)
(* has processed it; requests and replies may be lost, delayed and         *)
(* reordered, and are never duplicated, as in labrpc.go.                   *)
(***************************************************************************)
EXTENDS Integers, Sequences, FiniteSets, SequencesExt

CONSTANTS
    Server,       \* rf.peers[]
    Command,      \* what Start() may be given
    NoVote,       \* votedFor = -1
    InOrder,      \* TRUE: no request overtakes an older one on its link
    Preemptible,  \* TRUE: ticker() may be descheduled between its two locks
    Snapshots,    \* TRUE: the service calls Snapshot() (maxraftstate > 0)
    TornSaves,    \* TRUE: a crash may hit between a send and its save, or
                  \* between the two saves of a compaction
    MaxTerm,      \* bound: elections start only below this term
    MaxLog,       \* bound: Start() only below this last index
    MaxCalls,     \* bound: calls in flight
    MaxCrashes    \* bound: crash-restarts

ASSUME ServerAssumption == IsFiniteSet(Server) /\ NoVote \notin Server
ASSUME ModeAssumption ==
    /\ InOrder \in BOOLEAN /\ Preemptible \in BOOLEAN
    /\ Snapshots \in BOOLEAN /\ TornSaves \in BOOLEAN
ASSUME BoundAssumption ==
    /\ MaxTerm \in Nat /\ MaxLog \in Nat
    /\ MaxCalls \in Nat /\ MaxCrashes \in Nat

VARIABLES
    currentTerm, votedFor, serverState, votesReceived,
    log, lastIncludedIndex, lastIncludedTerm, commitIndex, lastApplied,
    nextIndex, matchIndex,
    ticker,      \* TRUE: ticker() saw st == leader and has unlocked rf.mu
    installers,  \* peers for which handleSendInstallSnapshot() is spawned
    persisted,   \* the Persister's raftstate
    snapshot,    \* the Persister's snapshot: the last index it covers
    voteCalls,   \* RequestVote calls in flight
    calls,       \* calls[i][j]: i's AppendEntries/InstallSnapshot calls to j
    crashes

\* History variables: no action reads them.
VARIABLES
    votes,    \* every vote cast: <<voter, term, candidate>>
    voters,   \* the peers whose vote the candidate has counted
    elected,  \* every election won: <<term, server>>
    applied   \* everything sent on an applyCh: <<index, entry>>

termVars  == <<currentTerm, votedFor, serverState>>
logVars   == <<log, lastIncludedIndex, lastIncludedTerm>>
applyVars == <<commitIndex, lastApplied, applied>>
peerVars  == <<nextIndex, matchIndex>>
voteHist  == <<votesReceived, votes, voters, elected>>
vars == <<termVars, logVars, applyVars, peerVars, voteHist, ticker, installers,
          persisted, snapshot, voteCalls, calls, crashes>>

Peers(i) == Server \ {i}

\* len(rf.peers)/2 with Go's integer division
IsHalf(n) == n >= Cardinality(Server) \div 2   \* mutant: >= for >
IsMajority(n) == n > Cardinality(Server) \div 2

-----------------------------------------------------------------------------
(* Log access.  The slice rf.log holds the entries after lastIncludedIndex. *)

LogEntry == [term : Nat, command : Command]

lastLogIndex(i) == lastIncludedIndex[i] + Len(log[i])

lastLogTerm(i) ==
    IF log[i] = <<>> THEN lastIncludedTerm[i] ELSE log[i][Len(log[i])].term

\* The term of index n of a log, for n from lastIncludedIndex on.
TermAt(i, lg, n) ==
    IF n > lastIncludedIndex[i]
    THEN lg[n - lastIncludedIndex[i]].term
    ELSE lastIncludedTerm[i]

RaftState(i) ==
    [votedFor |-> votedFor[i], currentTerm |-> currentTerm[i], log |-> log[i],
     lastIncludedIndex |-> lastIncludedIndex[i],
     lastIncludedTerm |-> lastIncludedTerm[i]]

persist(i) == persisted' = [persisted EXCEPT ![i] = RaftState(i)']

persistNever(i, newer) == UNCHANGED persisted   \* mutant: forgotten persist()
\* persist() in the branch that adopts a newer term, nothing otherwise.
persistIf(i, newer) == IF newer THEN persist(i) ELSE UNCHANGED persisted

\* mutant: the vote is forgotten even when the term stays
AdoptAndForget(i, term) ==
    /\ currentTerm' = [currentTerm EXCEPT ![i] = term]
    /\ votedFor' = [votedFor EXCEPT ![i] = NoVote]
    /\ serverState' = [serverState EXCEPT ![i] = "follower"]

\* A term at least as new as ours: its sender leads, or is ahead of us.
AdoptTerm(i, term) ==
    /\ currentTerm' = [currentTerm EXCEPT ![i] = term]
    /\ votedFor' = [votedFor EXCEPT ![i] = IF term > currentTerm[i] THEN NoVote ELSE @]
    /\ serverState' = [serverState EXCEPT ![i] = "follower"]

-----------------------------------------------------------------------------
(* labrpc, as Raft uses it. *)

InFlight ==
    Cardinality(voteCalls)
      + Cardinality({w \in Server \X Server \X (1..MaxCalls) :
                        w[3] <= Len(calls[w[1]][w[2]])})

\* Which requests of a loop over the peers the network keeps: the others are
\* lost, or exceed the bound.
Kept(peers) ==
    LET room == MaxCalls - InFlight
    IN  {reached \in SUBSET peers : Cardinality(reached) <= room}

IsRequest(c) == c.kind \in {"append", "install"}

\* The k-th call of the link may reach its handler now.
Deliverable(i, j, k) ==
    /\ k \in DOMAIN calls[i][j]
    /\ IsRequest(calls[i][j][k])
    /\ InOrder => \A m \in 1..(k-1) : ~IsRequest(calls[i][j][m])

Hangup(i, j, k) == calls' = [calls EXCEPT ![i][j] = RemoveAt(@, k)]

\* The calling goroutine of i still leads the term of its call.
Leading(i, c) == currentTerm[i] = c.term /\ serverState[i] = "leader"

\* The handler at j returns: the reply travels back, or is lost.  A caller
\* that no longer leads the term of its call never leads it again and ignores
\* every reply, so none is kept.
Answer(i, j, k, reply) ==
    \/ Hangup(i, j, k)
    \/ /\ Leading(i, reply)
       /\ calls' = [calls EXCEPT ![i][j][k] = reply]

-----------------------------------------------------------------------------
(* Elections. *)

\* tickFollower() and doElection(): the deadline has passed.
doElection(i) ==
    /\ serverState[i] # "leader"
    /\ currentTerm[i] < MaxTerm
    /\ currentTerm' = [currentTerm EXCEPT ![i] = @ + 1]
    /\ serverState' = [serverState EXCEPT ![i] = "candidate"]
    /\ votedFor' = [votedFor EXCEPT ![i] = i]
    /\ votesReceived' = [votesReceived EXCEPT ![i] = 1]
    /\ votes' = votes \cup {<<i, currentTerm[i] + 1, i>>}
    /\ voters' = [voters EXCEPT ![i] = {i}]
    /\ UNCHANGED <<logVars, applyVars, peerVars, elected, ticker, installers,
                   snapshot, calls, crashes>>
    /\ persist(i)
    /\ \E reached \in Kept(Peers(i)) :
         voteCalls' = voteCalls \cup
              {[kind |-> "request", src |-> i, dst |-> p,
                term |-> currentTerm[i] + 1,
                lastLogIndex |-> lastLogIndex(i),
                lastLogTerm |-> lastLogTerm(i)] : p \in reached}

UpToDateAlways(j, c) == c.lastLogIndex >= 0   \* mutant: no check
UpToDate(j, c) ==
    \/ c.lastLogTerm > lastLogTerm(j)
    \/ c.lastLogTerm = lastLogTerm(j) /\ c.lastLogIndex >= lastLogIndex(j)

GrantsTwice(j, c, voted) == UpToDate(j, c)   \* mutant: votedFor not looked at
Grants(j, c, voted) == voted \in {NoVote, c.src} /\ UpToDate(j, c)

VoteReply(c, replyTerm, granted) ==
    [kind |-> "reply", src |-> c.src, dst |-> c.dst, term |-> c.term,
     replyTerm |-> replyTerm, granted |-> granted]

\* The goroutine of doElection() that made the call still wants its reply.
Voting(c) ==
    /\ currentTerm[c.src] = c.term
    /\ serverState[c.src] = "candidate"

\* The reply of a RequestVote call, lost or on its way (compare Answer).
AnswerVote(c, reply) ==
    \/ voteCalls' = voteCalls \ {c}
    \/ /\ Voting(c)
       /\ voteCalls' = (voteCalls \ {c}) \cup {reply}

\* The RequestVote handler: a stale candidate.
RequestVoteStale(c) ==
    /\ c.kind = "request"
    /\ c.term < currentTerm[c.dst]
    /\ AnswerVote(c, VoteReply(c, currentTerm[c.dst], FALSE))
    /\ UNCHANGED <<termVars, logVars, applyVars, peerVars, voteHist, ticker,
                   installers, persisted, snapshot, calls, crashes>>

\* The RequestVote handler: a candidate at least as new as the voter.
RequestVote(c) ==
    LET j      == c.dst
        newer  == c.term > currentTerm[j]
        voted  == IF newer THEN NoVote ELSE votedFor[j]
        grant  == Grants(j, c, voted)
    IN
    /\ c.kind = "request"
    /\ c.term >= currentTerm[j]
    /\ currentTerm' = [currentTerm EXCEPT ![j] = c.term]
    /\ serverState' = [serverState EXCEPT ![j] = IF newer THEN "follower" ELSE @]
    /\ votedFor' = [votedFor EXCEPT ![j] = IF grant THEN c.src ELSE voted]
    /\ votes' = IF grant THEN votes \cup {<<j, c.term, c.src>>} ELSE votes
    /\ AnswerVote(c, VoteReply(c, c.term, grant))
    /\ UNCHANGED <<logVars, applyVars, peerVars, votesReceived, voters, elected,
                   ticker, installers, snapshot, calls, crashes>>
    /\ persist(j)

SetLeaderIndex(i, next, match) ==
    /\ nextIndex' = [nextIndex EXCEPT ![i] = [p \in Server |-> next]]
    /\ matchIndex' = [matchIndex EXCEPT ![i] =
                        [p \in Server |-> IF p = i THEN lastLogIndex(i) ELSE match]]

\* mutants: -1 for "nothing known"; no reset of the peers; next off by one
initLeaderNone(i)  == SetLeaderIndex(i, lastLogIndex(i) + 1, -1)
initLeaderFull(i)  == SetLeaderIndex(i, lastLogIndex(i) + 1, lastLogIndex(i))
initLeaderAhead(i) == SetLeaderIndex(i, lastLogIndex(i) + 2, 0)

\* nextIndex and matchIndex of a new leader.
initLeaderIndex(i) == SetLeaderIndex(i, lastLogIndex(i) + 1, 0)

\* The goroutine of doElection() returns without effect.
VoteIgnored(c) ==
    /\ c.kind = "reply"
    /\ Voting(c) => c.replyTerm <= currentTerm[c.src] /\ ~c.granted
    /\ voteCalls' = voteCalls \ {c}
    /\ UNCHANGED <<termVars, logVars, applyVars, peerVars, voteHist, ticker,
                   installers, persisted, snapshot, calls, crashes>>

\* A reply of a newer term: the candidate steps down.
VoteStepDown(c) ==
    /\ c.kind = "reply"
    /\ Voting(c)
    /\ c.replyTerm > currentTerm[c.src]
    /\ AdoptTerm(c.src, c.replyTerm)
    /\ voteCalls' = voteCalls \ {c}
    /\ UNCHANGED <<logVars, applyVars, peerVars, voteHist, ticker, installers,
                   snapshot, calls, crashes>>
    /\ persist(c.src)

\* One more vote, which may make the candidate leader.
VoteCounted(c) ==
    LET i == c.src
        n == votesReceived[i] + 1
    IN
    /\ c.kind = "reply"
    /\ Voting(c)
    /\ c.replyTerm <= currentTerm[i]
    /\ c.granted
    /\ votesReceived' = [votesReceived EXCEPT ![i] = n]
    /\ voters' = [voters EXCEPT ![i] = @ \cup {c.dst}]
    /\ voteCalls' = voteCalls \ {c}
    /\ IF IsMajority(n)
       THEN /\ serverState' = [serverState EXCEPT ![i] = "leader"]
            /\ initLeaderIndex(i)
            /\ elected' = elected \cup {<<currentTerm[i], i>>}
       ELSE UNCHANGED <<serverState, peerVars, elected>>
    /\ UNCHANGED <<currentTerm, votedFor, logVars, applyVars, votes, ticker,
                   installers, persisted, snapshot, calls, crashes>>


-----------------------------------------------------------------------------
(* The AppendEntries handler. *)

Larger(a, b) == IF a >= b THEN a ELSE b
Smaller(a, b) == IF a <= b THEN a ELSE b

AppendReply(a, replyTerm, success, XTerm, XIndex, XLen) ==
    [kind |-> "appendReply", term |-> a.term, replyTerm |-> replyTerm,
     success |-> success, prevI |-> a.prevLogIndex, ent |-> Len(a.entries),
     XTerm |-> XTerm, XIndex |-> XIndex, XLen |-> XLen]

\* An append of a stale leader.
AppendEntriesStale(i, j, k) ==
    LET a == calls[i][j][k] IN
    /\ Deliverable(i, j, k)
    /\ a.kind = "append"
    /\ a.term < currentTerm[j]
    /\ Answer(i, j, k, AppendReply(a, currentTerm[j], FALSE, 0, 0, 0))
    /\ UNCHANGED <<termVars, logVars, applyVars, peerVars, voteHist, ticker,
                   installers, persisted, snapshot, voteCalls, crashes>>

\* mutant: the term of the previous entry is not compared
PrevPresent(j, a) == a.prevLogIndex \in lastIncludedIndex[j] .. lastLogIndex(j)
PrevMatches(j, a) ==
    /\ a.prevLogIndex \in lastIncludedIndex[j] .. lastLogIndex(j)
    /\ TermAt(j, log[j], a.prevLogIndex) = a.prevLogTerm

\* x starts the run of entries of one term that ends at prevLogIndex.
StartsRun(j, x, prev) ==
    LET T(n) == TermAt(j, log[j], n) IN
    /\ x \in (lastIncludedIndex[j] + 1) .. prev
    /\ \A n \in x..prev : T(n) = T(prev)
    /\ x > lastIncludedIndex[j] + 1 => T(x - 1) # T(prev)

\* The consistency check fails: the fast-backup hint, by its three cases.
\* The reply still carries the term the handler was entered with.
AppendEntriesMismatch(i, j, k) ==
    LET a    == calls[i][j][k]
        prev == a.prevLogIndex
        Refuse(XTerm, XIndex, XLen) ==
            Answer(i, j, k, AppendReply(a, currentTerm[j], FALSE, XTerm, XIndex, XLen))
    IN
    /\ Deliverable(i, j, k)
    /\ a.kind = "append"
    /\ a.term >= currentTerm[j]
    /\ ~PrevMatches(j, a)
    /\ \/ prev > lastLogIndex(j) /\ Refuse(-1, 0, lastLogIndex(j) + 1)
       \/ prev <= lastIncludedIndex[j] /\ Refuse(0, 0, 0)
       \/ /\ prev <= lastLogIndex(j)
          /\ \E x \in (lastIncludedIndex[j] + 1) .. prev :
               /\ StartsRun(j, x, prev)
               /\ Refuse(TermAt(j, log[j], prev), x, 0)
    /\ AdoptTerm(j, a.term)
    /\ UNCHANGED <<logVars, applyVars, peerVars, voteHist, ticker, installers,
                   snapshot, voteCalls, crashes>>
    /\ persistIf(j, a.term > currentTerm[j])

\* The check succeeds: everything after prevLogIndex is replaced, by nothing
\* if the call is a heartbeat, and both indices are clamped to the new log.
AppendEntries(i, j, k) ==
    LET a       == calls[i][j][k]
        cut     == a.prevLogIndex - lastIncludedIndex[j]
        lastNew == a.prevLogIndex + Len(a.entries)
    IN
    /\ Deliverable(i, j, k)
    /\ a.kind = "append"
    /\ a.term >= currentTerm[j]
    /\ PrevMatches(j, a)
    /\ AdoptTerm(j, a.term)
    /\ log' = [log EXCEPT ![j] = SubSeq(@, 1, cut) \o a.entries]
    /\ commitIndex' = [commitIndex EXCEPT ![j] =
                         Smaller(Larger(@, a.leaderCommit), lastNew)]
    /\ lastApplied' = [lastApplied EXCEPT ![j] = Smaller(@, lastNew)]
    /\ Answer(i, j, k, AppendReply(a, a.term, TRUE, 0, 0, 0))
    /\ UNCHANGED <<lastIncludedIndex, lastIncludedTerm, applied, peerVars,
                   voteHist, ticker, installers, snapshot, voteCalls, crashes>>
    /\ persist(j)

-----------------------------------------------------------------------------
(* Replication at the leader. *)

\* The indices advanceCommit() accepts, with matchIndex[i] = match.
Committable(i, match) ==
    {n \in (commitIndex[i] + 1) .. lastLogIndex(i) :
        /\ TermAt(i, log[i], n) = currentTerm[i]
        /\ IsMajority(Cardinality({p \in Server : match[p] >= n}))}

\* commitIndex moves to the largest of them, if there is one.
advanceCommit(i, match) ==
    LET ok == Committable(i, match) IN
    \/ ok = {} /\ UNCHANGED commitIndex
    \/ \E n \in ok : /\ \A m \in ok : m <= n
                     /\ commitIndex' = [commitIndex EXCEPT ![i] = n]

\* The reply of an AppendEntries or InstallSnapshot call returns to a peer
\* that no longer leads the call's term; or InstallSnapshot left at its second
\* early return, with a term the handler had not adopted yet.
ReplyIgnored(i, j, k) ==
    /\ k \in DOMAIN calls[i][j]
    /\ ~IsRequest(calls[i][j][k])
    /\ \/ ~Leading(i, calls[i][j][k])
       \/ /\ calls[i][j][k].kind = "installReply"
          /\ calls[i][j][k].replyTerm < currentTerm[i]
    /\ Hangup(i, j, k)
    /\ UNCHANGED <<termVars, logVars, applyVars, peerVars, voteHist, ticker,
                   installers, persisted, snapshot, voteCalls, crashes>>

\* A reply of either kind from a newer term.
ReplyStepDown(i, j, k) ==
    /\ k \in DOMAIN calls[i][j]
    /\ ~IsRequest(calls[i][j][k])
    /\ Leading(i, calls[i][j][k])
    /\ calls[i][j][k].replyTerm > currentTerm[i]
    /\ AdoptTerm(i, calls[i][j][k].replyTerm)
    /\ Hangup(i, j, k)
    /\ UNCHANGED <<logVars, applyVars, peerVars, voteHist, ticker, installers,
                   snapshot, voteCalls, crashes>>
    /\ persist(i)

\* processAppendEntriesReply(): success.
AppendSucceeded(i, j, k) ==
    LET r        == calls[i][j][k]
        newMatch == r.prevI + r.ent
    IN
    /\ k \in DOMAIN calls[i][j]
    /\ r.kind = "appendReply"
    /\ Leading(i, r)
    /\ r.replyTerm <= currentTerm[i]
    /\ r.success
    /\ matchIndex' = [matchIndex EXCEPT ![i][j] = Larger(@, newMatch)]
    /\ nextIndex' = [nextIndex EXCEPT ![i][j] = newMatch + 1]
    /\ advanceCommit(i, matchIndex'[i])
    /\ Hangup(i, j, k)
    /\ UNCHANGED <<termVars, logVars, lastApplied, applied, voteHist, ticker,
                   installers, persisted, snapshot, voteCalls, crashes>>

HoldingNewer(i, XTerm) ==   \* mutant: >= for ==
    {p \in 2..Len(log[i]) : log[i][p].term >= XTerm}
\* The positions of the slice rf.log, from its second on, that hold XTerm.
Holding(i, XTerm) == {p \in 2..Len(log[i]) : log[i][p].term = XTerm}

\* processAppendEntriesReply(): the hint moves nextIndex.  The search runs
\* over slice positions and takes them for log indices.
AppendRefused(i, j, k) ==
    LET r == calls[i][j][k]
        SetNext(n) == nextIndex' = [nextIndex EXCEPT ![i][j] = Larger(n, 1)]
    IN
    /\ k \in DOMAIN calls[i][j]
    /\ r.kind = "appendReply"
    /\ Leading(i, r)
    /\ r.replyTerm <= currentTerm[i]
    /\ ~r.success
    /\ \/ r.XTerm = -1 /\ SetNext(r.XLen)
       \/ r.XTerm # -1 /\ Holding(i, r.XTerm) = {} /\ SetNext(r.XIndex)
       \/ /\ r.XTerm # -1
          /\ \E p \in Holding(i, r.XTerm) :
               /\ \A q \in Holding(i, r.XTerm) : q <= p
               /\ SetNext(p)
    /\ Hangup(i, j, k)
    /\ UNCHANGED <<termVars, logVars, applyVars, matchIndex, voteHist, ticker,
                   installers, persisted, snapshot, voteCalls, crashes>>

\* Peers that need entries the leader has compacted away.
Behind(i) == {p \in Peers(i) : nextIndex[i][p] <= lastIncludedIndex[i]}

\* Slicing rf.log at nextIndex does not panic.
InSlice(i, lg) ==
    \A p \in Peers(i) \ Behind(i) : nextIndex[i][p] <= lastIncludedIndex[i] + Len(lg) + 1

AppendArgs(i, p, lg) ==
    LET next == nextIndex[i][p] IN
    [kind |-> "append", term |-> currentTerm[i],
     prevLogIndex |-> next - 1, prevLogTerm |-> TermAt(i, lg, next - 1),
     entries |-> SubSeq(lg, next - lastIncludedIndex[i], Len(lg)),
     leaderCommit |-> commitIndex[i]]

\* The loop over rf.peers shared by Start() and ticker(), run with the log lg.
Replicate(i, lg) ==
    /\ InSlice(i, lg)
    /\ \E reached \in Kept(Peers(i) \ Behind(i)) :
         calls' = [calls EXCEPT ![i] =
              [p \in Server |-> IF p \in reached
                                THEN Append(@[p], AppendArgs(i, p, lg))
                                ELSE @[p]]]

SpawnInstallers(i) ==
    installers' = [installers EXCEPT ![i] = @ \cup Behind(i)]

NewEntry(i, cmd) == [term |-> currentTerm[i], command |-> cmd]

Start(i, cmd) ==
    LET lg == Append(log[i], NewEntry(i, cmd)) IN
    /\ serverState[i] = "leader"
    /\ lastLogIndex(i) < MaxLog
    /\ Replicate(i, lg)
    /\ SpawnInstallers(i)
    /\ log' = [log EXCEPT ![i] = lg]
    /\ matchIndex' = [matchIndex EXCEPT ![i][i] = lastLogIndex(i) + 1]
    /\ UNCHANGED <<termVars, lastIncludedIndex, lastIncludedTerm, applyVars,
                   nextIndex, voteHist, ticker, snapshot, voteCalls, crashes>>
    /\ persist(i)

\* ticker(): st == leader was read, rf.mu released.
TickerObserve(i) ==
    /\ Preemptible
    /\ serverState[i] = "leader"
    /\ ~ticker[i]
    /\ ticker' = [ticker EXCEPT ![i] = TRUE]
    /\ UNCHANGED <<termVars, logVars, applyVars, peerVars, voteHist, installers,
                   persisted, snapshot, voteCalls, calls, crashes>>

\* ticker(): rf.mu is held again and the loop runs, whatever has become of the
\* peer since; a scheduler that never preempts it there makes it one step.
TickerSend(i) ==
    /\ IF Preemptible THEN ticker[i] ELSE serverState[i] = "leader"
    /\ ticker' = [ticker EXCEPT ![i] = FALSE]
    /\ Replicate(i, log[i])
    /\ SpawnInstallers(i)
    /\ UNCHANGED <<termVars, logVars, applyVars, peerVars, voteHist, persisted,
                   snapshot, voteCalls, crashes>>

-----------------------------------------------------------------------------
(* Log compaction. *)

\* handleSendInstallSnapshot(), first critical section: the goroutine reads
\* the state of now, not of the moment it was spawned.
SendInstallSnapshot(i, p) ==
    /\ p \in installers[i]
    /\ installers' = [installers EXCEPT ![i] = @ \ {p}]
    /\ \/ UNCHANGED calls   \* no longer leader, or the request is lost
       \/ /\ serverState[i] = "leader"
          /\ InFlight < MaxCalls
          /\ calls' = [calls EXCEPT ![i][p] = Append(@,
               [kind |-> "install", term |-> currentTerm[i],
                lastIncludedIndex |-> lastIncludedIndex[i],
                lastIncludedTerm |-> lastIncludedTerm[i],
                data |-> snapshot[i]])]
    /\ UNCHANGED <<termVars, logVars, applyVars, peerVars, voteHist, ticker,
                   persisted, snapshot, voteCalls, crashes>>

InstallReply(a, replyTerm) ==
    [kind |-> "installReply", term |-> a.term, replyTerm |-> replyTerm,
     lastIdx |-> a.lastIncludedIndex]

\* The two early returns of the InstallSnapshot handler.  The reply carries
\* the term the handler was entered with.
InstallSnapshotEarly(i, j, k) ==
    LET a == calls[i][j][k] IN
    /\ Deliverable(i, j, k)
    /\ a.kind = "install"
    /\ \/ a.term < currentTerm[j] /\ UNCHANGED <<termVars, persisted>>
       \/ /\ a.term >= currentTerm[j]
          /\ a.lastIncludedIndex <= lastIncludedIndex[j]
          /\ AdoptTerm(j, a.term)
          /\ UNCHANGED logVars
          /\ persistIf(j, a.term > currentTerm[j])
    /\ Answer(i, j, k, InstallReply(a, currentTerm[j]))
    /\ UNCHANGED <<logVars, applyVars, peerVars, voteHist, ticker, installers,
                   snapshot, voteCalls, crashes>>

Installs(i, j, k) ==
    /\ Deliverable(i, j, k)
    /\ calls[i][j][k].kind = "install"
    /\ calls[i][j][k].term >= currentTerm[j]
    /\ calls[i][j][k].lastIncludedIndex > lastIncludedIndex[j]

\* The InstallSnapshot handler takes the snapshot and empties the log.
InstallSnapshot(i, j, k) ==
    LET a == calls[i][j][k] IN
    /\ Installs(i, j, k)
    /\ AdoptTerm(j, a.term)
    /\ lastIncludedIndex' = [lastIncludedIndex EXCEPT ![j] = a.lastIncludedIndex]
    /\ lastIncludedTerm' = [lastIncludedTerm EXCEPT ![j] = a.lastIncludedTerm]
    /\ lastApplied' = [lastApplied EXCEPT ![j] = Larger(@, a.lastIncludedIndex)]
    /\ commitIndex' = [commitIndex EXCEPT ![j] = Larger(@, a.lastIncludedIndex)]
    /\ log' = [log EXCEPT ![j] = <<>>]
    /\ snapshot' = [snapshot EXCEPT ![j] = a.data]
    /\ Answer(i, j, k, InstallReply(a, a.term))
    /\ UNCHANGED <<applied, peerVars, voteHist, ticker, installers, voteCalls, crashes>>
    /\ persist(j)

\* handleSendInstallSnapshot(), second critical section.
InstallSucceeded(i, j, k) ==
    LET r == calls[i][j][k] IN
    /\ k \in DOMAIN calls[i][j]
    /\ r.kind = "installReply"
    /\ Leading(i, r)
    /\ r.replyTerm = currentTerm[i]
    /\ matchIndex' = [matchIndex EXCEPT ![i][j] = Larger(@, r.lastIdx)]
    /\ nextIndex' = [nextIndex EXCEPT ![i][j] = Larger(@, r.lastIdx + 1)]
    /\ advanceCommit(i, matchIndex'[i])
    /\ Hangup(i, j, k)
    /\ UNCHANGED <<termVars, logVars, lastApplied, applied, voteHist, ticker,
                   installers, snapshot, voteCalls, crashes>>
    /\ persist(i)

\* What the service may pass to Snapshot(): an index it has applied, while
\* later ones may already wait in applyCh.  The last conjunct leaves out a
\* panic of the code: where InstallSnapshot has emptied a longer log,
\* lastApplied may lie beyond the log, and rf.log[cutIdx-1] is out of range.
MayCompact(i, n) ==
    /\ Snapshots
    /\ n \in (lastIncludedIndex[i] + 1) .. lastApplied[i]
    /\ n <= lastLogIndex(i)

Snapshot(i, n) ==
    LET cut == n - lastIncludedIndex[i] IN
    /\ MayCompact(i, n)
    /\ snapshot' = [snapshot EXCEPT ![i] = n]
    /\ lastIncludedIndex' = [lastIncludedIndex EXCEPT ![i] = n]
    /\ lastIncludedTerm' = [lastIncludedTerm EXCEPT ![i] = log[i][cut].term]
    /\ log' = [log EXCEPT ![i] = SubSeq(@, cut + 1, Len(@))]
    /\ UNCHANGED <<termVars, applyVars, peerVars, voteHist, ticker, installers,
                   voteCalls, calls, crashes>>
    /\ persist(i)

-----------------------------------------------------------------------------
(* Delivery to the service, crash and restart. *)

BackgroundApplyRoutine(i) ==
    LET idx == lastApplied[i] + 1 IN
    /\ lastApplied[i] < commitIndex[i]
    /\ log[i] # <<>>
    /\ idx <= lastLogIndex(i)   \* rf.log[offset] does not panic
    /\ lastApplied' = [lastApplied EXCEPT ![i] = idx]
    /\ applied' = applied \cup {<<idx, log[i][idx - lastIncludedIndex[i]]>>}
    /\ UNCHANGED <<termVars, logVars, commitIndex, peerVars, voteHist, ticker,
                   installers, persisted, snapshot, voteCalls, calls, crashes>>

ResumeAtZero(ps) == 0   \* mutant: lastApplied is not set after readPersist()
\* Where delivery goes on after a restart.
Resume(ps) == ps.lastIncludedIndex

\* A crash, then Make() and readPersist() with the raftstate ps.  Calls of the
\* crashed instance stay in the network; their replies are ignored, because a
\* restarted peer is not candidate or leader in that term again.
Make(i, ps) ==
    /\ crashes < MaxCrashes
    /\ crashes' = crashes + 1
    /\ currentTerm' = [currentTerm EXCEPT ![i] = ps.currentTerm]
    /\ votedFor' = [votedFor EXCEPT ![i] = ps.votedFor]
    /\ serverState' = [serverState EXCEPT ![i] = "follower"]
    /\ log' = [log EXCEPT ![i] = ps.log]
    /\ lastIncludedIndex' = [lastIncludedIndex EXCEPT ![i] = ps.lastIncludedIndex]
    /\ lastIncludedTerm' = [lastIncludedTerm EXCEPT ![i] = ps.lastIncludedTerm]
    /\ lastApplied' = [lastApplied EXCEPT ![i] = Resume(ps)]
    /\ commitIndex' = [commitIndex EXCEPT ![i] = Resume(ps)]
    /\ nextIndex' = [nextIndex EXCEPT ![i] = [p \in Server |-> 0]]
    /\ matchIndex' = [matchIndex EXCEPT ![i] = [p \in Server |-> 0]]
    /\ votesReceived' = [votesReceived EXCEPT ![i] = 0]
    /\ voters' = [voters EXCEPT ![i] = {}]
    /\ ticker' = [ticker EXCEPT ![i] = FALSE]
    /\ installers' = [installers EXCEPT ![i] = {}]
    /\ UNCHANGED <<votes, elected, applied, voteCalls>>

\* Between two critical sections.
Crash(i) ==
    /\ Make(i, persisted[i])
    /\ UNCHANGED <<persisted, snapshot, calls>>

\* In Start(), whose goroutines send before persist() is called.
CrashInStart(i, cmd) ==
    /\ TornSaves
    /\ serverState[i] = "leader"
    /\ lastLogIndex(i) < MaxLog
    /\ Replicate(i, Append(log[i], NewEntry(i, cmd)))
    /\ Make(i, persisted[i])
    /\ UNCHANGED <<persisted, snapshot>>

\* In Snapshot(), after SaveSnapshot and before persist().
CrashInSnapshot(i, n) ==
    /\ TornSaves
    /\ MayCompact(i, n)
    /\ snapshot' = [snapshot EXCEPT ![i] = n]
    /\ Make(i, persisted[i])
    /\ UNCHANGED <<persisted, calls>>

\* In InstallSnapshot, after persist() and before SaveSnapshot.
CrashInInstall(i, j, k) ==
    LET a  == calls[i][j][k]
        ps == [votedFor |-> IF a.term > currentTerm[j] THEN NoVote ELSE votedFor[j],
               currentTerm |-> a.term, log |-> <<>>,
               lastIncludedIndex |-> a.lastIncludedIndex,
               lastIncludedTerm |-> a.lastIncludedTerm]
    IN
    /\ TornSaves
    /\ Installs(i, j, k)
    /\ persisted' = [persisted EXCEPT ![j] = ps]
    /\ Make(j, ps)
    /\ Hangup(i, j, k)
    /\ UNCHANGED snapshot

-----------------------------------------------------------------------------
Init ==
    /\ currentTerm = [i \in Server |-> 0]
    /\ votedFor = [i \in Server |-> NoVote]
    /\ serverState = [i \in Server |-> "follower"]
    /\ votesReceived = [i \in Server |-> 0]
    /\ log = [i \in Server |-> <<>>]
    /\ lastIncludedIndex = [i \in Server |-> 0]
    /\ lastIncludedTerm = [i \in Server |-> 0]
    /\ commitIndex = [i \in Server |-> 0]
    /\ lastApplied = [i \in Server |-> 0]
    /\ nextIndex = [i \in Server |-> [p \in Server |-> 0]]
    /\ matchIndex = [i \in Server |-> [p \in Server |-> 0]]
    /\ ticker = [i \in Server |-> FALSE]
    /\ installers = [i \in Server |-> {}]
    /\ persisted = [i \in Server |-> RaftState(i)]
    /\ snapshot = [i \in Server |-> 0]
    /\ voteCalls = {}
    /\ calls = [i \in Server |-> [p \in Server |-> <<>>]]
    /\ crashes = 0
    /\ votes = {} /\ elected = {} /\ applied = {}
    /\ voters = [i \in Server |-> {}]

VoteStep(c) ==
    \/ RequestVoteStale(c) \/ RequestVote(c)
    \/ VoteIgnored(c) \/ VoteStepDown(c) \/ VoteCounted(c)

CallStep(i, j, k) ==
    \/ AppendEntriesStale(i, j, k) \/ AppendEntriesMismatch(i, j, k)
    \/ AppendEntries(i, j, k)
    \/ AppendSucceeded(i, j, k) \/ AppendRefused(i, j, k)
    \/ InstallSnapshotEarly(i, j, k) \/ InstallSnapshot(i, j, k)
    \/ InstallSucceeded(i, j, k) \/ CrashInInstall(i, j, k)
    \/ ReplyIgnored(i, j, k) \/ ReplyStepDown(i, j, k)

ServerStep(i) ==
    \/ doElection(i) \/ TickerObserve(i) \/ TickerSend(i)
    \/ BackgroundApplyRoutine(i) \/ Crash(i)
    \/ \E cmd \in Command : Start(i, cmd) \/ CrashInStart(i, cmd)
    \/ \E n \in (lastIncludedIndex[i] + 1) .. lastApplied[i] :
         Snapshot(i, n) \/ CrashInSnapshot(i, n)
    \/ \E p \in Peers(i) : SendInstallSnapshot(i, p)

Next ==
    \/ \E i \in Server : ServerStep(i)
    \/ \E c \in voteCalls : VoteStep(c)
    \/ \E i, j \in Server : \E k \in DOMAIN calls[i][j] : CallStep(i, j, k)

Spec == Init /\ [][Next]_vars

-----------------------------------------------------------------------------
(* What the peers promise. *)

AppendRequest ==
    [kind : {"append"}, term : Nat, prevLogIndex : Nat, prevLogTerm : Nat,
     entries : Seq(LogEntry), leaderCommit : Nat]
AppendReplies ==
    [kind : {"appendReply"}, term : Nat, replyTerm : Nat, success : BOOLEAN,
     prevI : Nat, ent : Nat, XTerm : Int, XIndex : Nat, XLen : Nat]
InstallRequest ==
    [kind : {"install"}, term : Nat, lastIncludedIndex : Nat,
     lastIncludedTerm : Nat, data : Nat]
InstallReplies ==
    [kind : {"installReply"}, term : Nat, replyTerm : Nat, lastIdx : Nat]
VoteCall ==
    [kind : {"request"}, src : Server, dst : Server, term : Nat,
     lastLogIndex : Nat, lastLogTerm : Nat]
      \cup [kind : {"reply"}, src : Server, dst : Server, term : Nat,
            replyTerm : Nat, granted : BOOLEAN]
RaftStates ==
    [votedFor : Server \cup {NoVote}, currentTerm : Nat, log : Seq(LogEntry),
     lastIncludedIndex : Nat, lastIncludedTerm : Nat]

\* The fields of Raft (raft.go:48-79), of the Persister and of the RPC
\* structures hold values of their types; the slices nextIndex and matchIndex
\* have one element for each peer.
TypeOK ==
    /\ currentTerm \in [Server -> Nat]
    /\ votedFor \in [Server -> Server \cup {NoVote}]
    /\ serverState \in [Server -> {"follower", "candidate", "leader"}]
    /\ votesReceived \in [Server -> Nat]
    /\ log \in [Server -> Seq(LogEntry)]
    /\ lastIncludedIndex \in [Server -> Nat]
    /\ lastIncludedTerm \in [Server -> Nat]
    /\ commitIndex \in [Server -> Nat]
    /\ lastApplied \in [Server -> Nat]
    /\ nextIndex \in [Server -> [Server -> Nat]]
    /\ matchIndex \in [Server -> [Server -> Nat]]
    /\ ticker \in [Server -> BOOLEAN]
    /\ installers \in [Server -> SUBSET Server]
    /\ persisted \in [Server -> RaftStates]
    /\ snapshot \in [Server -> Nat]
    /\ voteCalls \subseteq VoteCall
    /\ calls \in [Server -> [Server ->
          Seq(AppendRequest \cup AppendReplies \cup InstallRequest \cup InstallReplies)]]
    /\ crashes \in Nat
    /\ votes \subseteq Server \X Nat \X Server
    /\ voters \in [Server -> SUBSET Server]
    /\ elected \subseteq Nat \X Server
    /\ applied \subseteq Nat \X LogEntry

\* At most one peer ever wins the election of a term, counting the winners
\* that have stepped down or crashed since (doElection, RequestVote; the
\* tester's checkOneLeader only sees the leaders of one moment).
ElectionSafety ==
    \A e, f \in elected : e[1] = f[1] => e = f

\* Why, as an inductive invariant: a vote is on record until the voter leaves
\* the term, no candidate counts one voter twice, and every winner had a
\* majority of the votes cast for it.
VotesRecorded ==
    \A v \in votes : /\ v[2] <= currentTerm[v[1]]
                     /\ v[2] = currentTerm[v[1]] => votedFor[v[1]] = v[3]
VotesFunctional ==
    \A v, w \in votes : v[1] = w[1] /\ v[2] = w[2] => v[3] = w[3]
CallsRecorded ==
    \A c \in voteCalls :
        /\ c.term <= currentTerm[c.src]
        /\ c.kind = "reply" /\ c.granted => <<c.dst, c.term, c.src>> \in votes
OneCallPerVoter ==
    \A c, d \in voteCalls : c.src = d.src /\ c.dst = d.dst /\ c.term = d.term => c = d
CountedOnce ==
    \A i \in Server : serverState[i] = "candidate" =>
        /\ votesReceived[i] = Cardinality(voters[i])
        /\ \A p \in voters[i] : <<p, currentTerm[i], i>> \in votes
        /\ \A c \in voteCalls :
              c.src = i /\ c.term = currentTerm[i] => c.dst \notin voters[i]
ElectedByMajority ==
    \A e \in elected : \E Q \in SUBSET Server :
        /\ IsMajority(Cardinality(Q))
        /\ \A p \in Q : <<p, e[1], e[2]>> \in votes
ElectionInv ==
    /\ VotesRecorded /\ VotesFunctional /\ CallsRecorded /\ OneCallPerVoter
    /\ CountedOnce /\ ElectedByMajority

\* Whenever rf.mu is free, the raftstate on disk is what a restart needs: no
\* handler leaves a changed term, vote or log unsaved on any of its exits.
PersistedCurrent ==
    \A i \in Server : persisted[i] = RaftState(i)

\* No step, a crash and restart included, moves a peer to an older term or
\* changes a vote it has cast in its term.
VoteKept ==
    [][\A i \in Server :
          /\ currentTerm'[i] >= currentTerm[i]
          /\ (currentTerm'[i] = currentTerm[i] /\ votedFor[i] # NoVote)
                => votedFor'[i] = votedFor[i]]_vars

\* The indices whose term a peer knows, and the entries it holds.
Known(i) == lastIncludedIndex[i] .. lastLogIndex(i)
Held(i)  == (lastIncludedIndex[i] + 1) .. lastLogIndex(i)
EntryAt(i, n) == log[i][n - lastIncludedIndex[i]]

\* Two peers that know an index with the same term agree on everything both
\* hold up to it: the consistency check of AppendEntries keeps logs matching
\* whatever is reordered, compacted, sent late or torn by a crash.
LogMatching ==
    \A i, j \in Server : \A n \in (Known(i) \cap Known(j)) \ {0} :
        TermAt(i, log[i], n) = TermAt(j, log[j], n)
          => \A m \in Held(i) \cap Held(j) : m <= n => EntryAt(i, m) = EntryAt(j, m)

\* No two peers ever deliver different entries for one index on applyCh, nor
\* does one peer after a restart: what the tester checks in config.go:151-154.
StateMachineSafety ==
    \A a, b \in applied : a[1] = b[1] => a = b

\* A leader that nobody has outrun holds every entry any peer has delivered.
LeaderCompleteness ==
    \A i \in Server :
        (serverState[i] = "leader" /\ \A j \in Server : currentTerm[j] <= currentTerm[i])
          => \A a \in applied : a[1] > lastIncludedIndex[i]
                => a[1] \in Held(i) /\ EntryAt(i, a[1]) = a[2]

\* "index of highest log entry known to be replicated on server"
\* (raft.go:75): what the leader counts for a peer is in that peer's log, as
\* long as the peer has not moved on to another term.
MatchIndexReplicated ==
    \A i, p \in Server :
        (serverState[i] = "leader" /\ currentTerm[p] = currentTerm[i])
          => \A n \in 1 .. matchIndex[i][p] :
                /\ n <= lastLogIndex(p)
                /\ n \in Held(i) \cap Held(p) => EntryAt(i, n) = EntryAt(p, n)

\* Neither Start() nor ticker() slices rf.log out of range, and the apply
\* routine finds every index it looks up in rf.log.  Of peers that do not
\* compact: once InstallSnapshot has emptied a longer log, it is false.
NoSlicePanic ==
    \A i \in Server :
        /\ (serverState[i] = "leader" \/ ticker[i]) => InSlice(i, log[i])
        /\ commitIndex[i] <= lastLogIndex(i)
        /\ lastApplied[i] <= commitIndex[i]

\* What a peer has compacted away it has delivered, or was given with a
\* snapshot: BackgroundApplyRoutine never computes a negative offset.
CompactedApplied ==
    \A i \in Server : lastIncludedIndex[i] <= lastApplied[i]

\* A refused AppendEntries makes the next one start further back, so that the
\* fast backup of processAppendEntriesReply terminates.
RefusalBacksUp ==
    [][\A i, j \in Server : \A k \in DOMAIN calls[i][j] :
          AppendRefused(i, j, k) => nextIndex'[i][j] <= calls[i][j][k].prevI]_vars

\* The log that the services see.
RL == INSTANCE ReplicatedLog WITH
          Replica <- Server, decided <- applied, position <- lastApplied

\* What the services see is one growing log, whatever elections, late calls and
\* restarts do: every step of the peers is a step of ReplicatedLog or none.
\* A peer is given the next entry, the same one as everybody else, or goes back
\* (Make(), a truncated log) and is then given what it was given before.
LogSteps == [][RL!Next]_<<applied, lastApplied>>
=============================================================================
