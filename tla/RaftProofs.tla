----------------------------- MODULE RaftProofs -----------------------------
(***************************************************************************)
(* Type correctness of Raft; the disk is current, votes are kept, and a    *)
(* term has at most one winner: for every set of servers and every bound.  *)
(***************************************************************************)
EXTENDS Raft, FiniteSetTheorems, TLAPS

Call == AppendRequest \cup AppendReplies \cup InstallRequest \cup InstallReplies
Links == [Server -> [Server -> Seq(Call)]]

\* The part of TypeOK that is about one peer's own fields and its disk.
PeerTypeOK ==
    /\ currentTerm \in [Server -> Nat]
    /\ votedFor \in [Server -> Server \cup {NoVote}]
    /\ serverState \in [Server -> {"follower", "candidate", "leader"}]
    /\ votesReceived \in [Server -> Nat]
    /\ log \in [Server -> Seq(LogEntry)]
    /\ lastIncludedIndex \in [Server -> Nat]
    /\ lastIncludedTerm \in [Server -> Nat]
    /\ commitIndex \in [Server -> Nat]
    /\ lastApplied \in [Server -> Nat]
    /\ nextIndex \in [Server -> [Server -> Nat]]
    /\ matchIndex \in [Server -> [Server -> Nat]]
    /\ ticker \in [Server -> BOOLEAN]
    /\ installers \in [Server -> SUBSET Server]
    /\ persisted \in [Server -> RaftStates]
    /\ snapshot \in [Server -> Nat]
    /\ crashes \in Nat
    /\ voters \in [Server -> SUBSET Server]

HistoryTypeOK ==
    /\ voteCalls \subseteq VoteCall
    /\ votes \subseteq Server \X Nat \X Server
    /\ elected \subseteq Nat \X Server
    /\ applied \subseteq Nat \X LogEntry

\* TypeOK is the conjunction of three parts, proved separately.
LEMMA TypeParts ==
  /\ TypeOK <=> PeerTypeOK /\ HistoryTypeOK /\ calls \in Links
  /\ TypeOK' <=> PeerTypeOK' /\ HistoryTypeOK' /\ calls' \in Links
  BY DEF TypeOK, PeerTypeOK, HistoryTypeOK, Links, Call

-----------------------------------------------------------------------------
(* Calls. *)

\* Removing an element of a sequence leaves a sequence.
LEMMA RemoveAtType ==
  ASSUME NEW S, NEW s \in Seq(S), NEW k \in 1..Len(s)
  PROVE  RemoveAt(s, k) \in Seq(S)
<1>1. SubSeq(s, 1, k-1) \in Seq(S)
  OBVIOUS
<1>2. SubSeq(s, k+1, Len(s)) \in Seq(S)
  OBVIOUS
<1> QED BY <1>1, <1>2 DEF RemoveAt

\* Hanging up keeps the links well typed.
LEMMA HangupType ==
  ASSUME calls \in Links, NEW i \in Server, NEW j \in Server,
         NEW k \in DOMAIN calls[i][j], Hangup(i, j, k)
  PROVE  calls' \in Links
<1>1. calls[i][j] \in Seq(Call)
  BY DEF Links
<1>2. k \in 1..Len(calls[i][j])
  BY <1>1
<1>3. RemoveAt(calls[i][j], k) \in Seq(Call)
  BY <1>1, <1>2, RemoveAtType
<1> QED BY <1>3 DEF Hangup, Links

\* So does an answer of the right type.
LEMMA AnswerType ==
  ASSUME calls \in Links, NEW i \in Server, NEW j \in Server,
         NEW k \in DOMAIN calls[i][j], NEW r \in Call, Answer(i, j, k, r)
  PROVE  calls' \in Links
<1>1. CASE Hangup(i, j, k)
  BY <1>1, HangupType
<1>2. CASE calls' = [calls EXCEPT ![i][j][k] = r]
  <2>1. calls[i][j] \in Seq(Call)
    BY DEF Links
  <2>2. [calls[i][j] EXCEPT ![k] = r] \in Seq(Call)
    BY <2>1
  <2>3. calls' = [calls EXCEPT ![i] = [calls[i] EXCEPT ![j] = [calls[i][j] EXCEPT ![k] = r]]]
    BY <1>2
  <2> QED BY <2>2, <2>3 DEF Links
<1> QED BY <1>1, <1>2 DEF Answer

\* And a new call.
LEMMA AppendCallType ==
  ASSUME calls \in Links, NEW i \in Server, NEW p \in Server, NEW r \in Call
  PROVE  Append(calls[i][p], r) \in Seq(Call)
<1>1. calls[i][p] \in Seq(Call)
  BY DEF Links
<1> QED BY <1>1

\* A call in the network is of one of the four kinds, told apart by kind.
LEMMA CallKinds ==
  ASSUME calls \in Links, NEW i \in Server, NEW j \in Server,
         NEW k \in DOMAIN calls[i][j]
  PROVE  /\ calls[i][j][k] \in Call
         /\ calls[i][j][k].kind = "append" => calls[i][j][k] \in AppendRequest
         /\ calls[i][j][k].kind = "appendReply" => calls[i][j][k] \in AppendReplies
         /\ calls[i][j][k].kind = "install" => calls[i][j][k] \in InstallRequest
         /\ calls[i][j][k].kind = "installReply" => calls[i][j][k] \in InstallReplies
         /\ ~IsRequest(calls[i][j][k]) => calls[i][j][k].replyTerm \in Nat
         /\ calls[i][j][k].term \in Nat
<1>1. calls[i][j] \in Seq(Call)
  BY DEF Links
<1>2. calls[i][j][k] \in Call
  BY <1>1
<1> QED BY <1>2 DEF Call, AppendRequest, AppendReplies, InstallRequest, InstallReplies, IsRequest
-----------------------------------------------------------------------------
(* Operators. *)

\* Assigning one element of a vector of peers.
LEMMA SetOne ==
  ASSUME NEW S, NEW f \in [Server -> S], NEW i \in Server, NEW v \in S
  PROVE  [f EXCEPT ![i] = v] \in [Server -> S]
  OBVIOUS

\* Assigning one element of a matrix of peers.
LEMMA SetOneOfRow ==
  ASSUME NEW f \in [Server -> [Server -> Nat]], NEW i \in Server, NEW j \in Server,
         NEW v \in Nat
  PROVE  [f EXCEPT ![i][j] = v] \in [Server -> [Server -> Nat]]
  OBVIOUS

\* The index and term a peer's log ends with are numbers.
LEMMA LastLogType ==
  ASSUME PeerTypeOK, NEW i \in Server
  PROVE  /\ log[i] \in Seq(LogEntry)
         /\ lastLogIndex(i) \in Nat
         /\ lastLogTerm(i) \in Nat
<1>1. /\ log[i] \in Seq(LogEntry)
      /\ lastIncludedIndex[i] \in Nat
      /\ lastIncludedTerm[i] \in Nat
  BY DEF PeerTypeOK
<1>2. log[i] # <<>> => log[i][Len(log[i])] \in LogEntry
  BY <1>1
<1> QED BY <1>1, <1>2 DEF lastLogIndex, lastLogTerm, LogEntry

\* So is the term of every index a log holds.
LEMMA TermAtType ==
  ASSUME PeerTypeOK, NEW i \in Server, NEW lg \in Seq(LogEntry),
         NEW n \in Nat, n <= lastIncludedIndex[i] + Len(lg)
  PROVE  TermAt(i, lg, n) \in Nat
<1>1. lastIncludedIndex[i] \in Nat /\ lastIncludedTerm[i] \in Nat
  BY DEF PeerTypeOK
<1>2. ASSUME n > lastIncludedIndex[i] PROVE lg[n - lastIncludedIndex[i]] \in LogEntry
  BY <1>1, <1>2
<1> QED BY <1>1, <1>2 DEF TermAt, LogEntry

\* persist() writes a raftstate.
LEMMA PersistType ==
  ASSUME NEW i \in Server, persisted \in [Server -> RaftStates], persist(i),
         currentTerm' \in [Server -> Nat],
         votedFor' \in [Server -> Server \cup {NoVote}],
         log' \in [Server -> Seq(LogEntry)],
         lastIncludedIndex' \in [Server -> Nat],
         lastIncludedTerm' \in [Server -> Nat]
  PROVE  persisted' \in [Server -> RaftStates]
<1>1. RaftState(i)' \in RaftStates
  BY DEF RaftState, RaftStates
<1> QED BY <1>1 DEF persist

\* A peer that adopts a term keeps its types.
LEMMA AdoptType ==
  ASSUME PeerTypeOK, NEW i \in Server, NEW t \in Nat, AdoptTerm(i, t)
  PROVE  /\ currentTerm' \in [Server -> Nat]
         /\ votedFor' \in [Server -> Server \cup {NoVote}]
         /\ serverState' \in [Server -> {"follower", "candidate", "leader"}]
  BY DEF PeerTypeOK, AdoptTerm

\* A new leader's nextIndex and matchIndex have one number for each peer.
LEMMA LeaderIndexType ==
  ASSUME PeerTypeOK, NEW i \in Server, NEW next \in Nat,
         SetLeaderIndex(i, next, 0)
  PROVE  /\ nextIndex' \in [Server -> [Server -> Nat]]
         /\ matchIndex' \in [Server -> [Server -> Nat]]
<1> DEFINE nextRow  == [p \in Server |-> next]
           matchRow == [p \in Server |-> IF p = i THEN lastLogIndex(i) ELSE 0]
<1>1. nextRow \in [Server -> Nat]
  OBVIOUS
<1>2. matchRow \in [Server -> Nat]
  BY LastLogType
<1>3. /\ nextIndex' = [nextIndex EXCEPT ![i] = nextRow]
      /\ matchIndex' = [matchIndex EXCEPT ![i] = matchRow]
  BY DEF SetLeaderIndex
<1> HIDE DEF nextRow, matchRow
<1> QED BY <1>1, <1>2, <1>3 DEF PeerTypeOK

\* The larger and the smaller of two numbers are numbers.
LEMMA LargerSmaller ==
  ASSUME NEW a \in Nat, NEW b \in Nat
  PROVE  Larger(a, b) \in Nat /\ Smaller(a, b) \in Nat
  BY DEF Larger, Smaller

-----------------------------------------------------------------------------
(* Elections. *)

\* Starting an election keeps the types.
LEMMA doElectionType ==
  ASSUME TypeOK, NEW i \in Server, doElection(i)
  PROVE  TypeOK'
<1>1. PeerTypeOK /\ HistoryTypeOK /\ calls \in Links
  BY TypeParts
<1>2. PeerTypeOK'
  <2>1. /\ currentTerm' \in [Server -> Nat]
        /\ votedFor' \in [Server -> Server \cup {NoVote}]
        /\ UNCHANGED logVars
        /\ persist(i)
    BY <1>1 DEF doElection, PeerTypeOK
  <2>2. persisted' \in [Server -> RaftStates]
    BY <1>1, <2>1, PersistType DEF PeerTypeOK, logVars
  <2>3. /\ serverState' \in [Server -> {"follower", "candidate", "leader"}]
        /\ votesReceived' \in [Server -> Nat]
        /\ voters' \in [Server -> SUBSET Server]
    BY <1>1 DEF doElection, PeerTypeOK
  <2>4. UNCHANGED <<applyVars, nextIndex, matchIndex, ticker, installers, snapshot, crashes>>
    BY DEF doElection, peerVars
  <2> QED BY <1>1, <2>1, <2>2, <2>3, <2>4 DEF PeerTypeOK, logVars, applyVars
<1>3. HistoryTypeOK'
  <2>1. PICK reached \in SUBSET Peers(i) :
          voteCalls' = voteCalls \cup
              {[kind |-> "request", src |-> i, dst |-> p,
                term |-> currentTerm[i] + 1,
                lastLogIndex |-> lastLogIndex(i),
                lastLogTerm |-> lastLogTerm(i)] : p \in reached}
    BY DEF doElection, Kept
  <2>2. lastLogIndex(i) \in Nat /\ lastLogTerm(i) \in Nat /\ currentTerm[i] \in Nat
    BY <1>1, LastLogType DEF PeerTypeOK
  <2>3. voteCalls' \subseteq VoteCall
    BY <1>1, <2>1, <2>2 DEF HistoryTypeOK, VoteCall, Peers
  <2> QED BY <1>1, <2>2, <2>3 DEF doElection, HistoryTypeOK, applyVars
<1>4. calls' \in Links
  BY <1>1 DEF doElection
<1> QED BY <1>2, <1>3, <1>4, TypeParts

\* A RequestVote call in the network, by its kind.
LEMMA VoteCallKinds ==
  ASSUME HistoryTypeOK, NEW c \in voteCalls
  PROVE  /\ c.src \in Server /\ c.dst \in Server /\ c.term \in Nat
         /\ c.kind = "request" => c.lastLogIndex \in Nat /\ c.lastLogTerm \in Nat
         /\ c.kind = "reply" => c.replyTerm \in Nat /\ c.granted \in BOOLEAN
         /\ c.kind \in {"request", "reply"}
         /\ \A t \in Nat, b \in BOOLEAN : VoteReply(c, t, b) \in VoteCall
<1>1. c \in VoteCall
  BY DEF HistoryTypeOK
<1> QED BY <1>1 DEF VoteCall, VoteReply

\* The actions on a RequestVote call keep the types.
LEMMA VoteStepType ==
  ASSUME TypeOK, NEW c \in voteCalls, VoteStep(c)
  PROVE  TypeOK'
<1>1. PeerTypeOK /\ HistoryTypeOK /\ calls \in Links
  BY TypeParts
<1>2. /\ c.src \in Server /\ c.dst \in Server /\ c.term \in Nat
      /\ c.kind = "reply" => c.replyTerm \in Nat
      /\ \A t \in Nat, b \in BOOLEAN : VoteReply(c, t, b) \in VoteCall
      /\ currentTerm[c.dst] \in Nat
  BY <1>1, VoteCallKinds DEF PeerTypeOK
<1>3. CASE RequestVoteStale(c)
  <2>0. VoteReply(c, currentTerm[c.dst], FALSE) \in VoteCall
    BY <1>2
  <2>1. voteCalls' \subseteq VoteCall
    BY <1>1, <1>3, <2>0 DEF RequestVoteStale, AnswerVote, HistoryTypeOK
  <2> QED BY <1>1, <1>3, <2>1, TypeParts DEF RequestVoteStale, PeerTypeOK, HistoryTypeOK,
             termVars, logVars, applyVars, peerVars, voteHist
<1>4. CASE RequestVote(c)
  <2> DEFINE newer == c.term > currentTerm[c.dst]
             voted == IF newer THEN NoVote ELSE votedFor[c.dst]
             grant == Grants(c.dst, c, voted)
  <2>0. grant \in BOOLEAN
    BY DEF Grants
  <2>1. voteCalls' \subseteq VoteCall
    <3>1. AnswerVote(c, VoteReply(c, c.term, grant))
      BY <1>4 DEF RequestVote
    <3>2. VoteReply(c, c.term, grant) \in VoteCall
      <4> HIDE DEF grant
      <4> QED BY <1>2, <2>0
    <3> HIDE DEF grant
    <3> QED BY <1>1, <3>1, <3>2 DEF AnswerVote, HistoryTypeOK
  <2>2. votes' \subseteq Server \X Nat \X Server
    <3>1. votes' \in {votes, votes \cup {<<c.dst, c.term, c.src>>}}
      BY <1>4 DEF RequestVote
    <3> QED BY <1>1, <1>2, <3>1 DEF HistoryTypeOK
  <2>3. /\ currentTerm' \in [Server -> Nat]
        /\ votedFor' \in [Server -> Server \cup {NoVote}]
        /\ serverState' \in [Server -> {"follower", "candidate", "leader"}]
    BY <1>1, <1>2, <1>4 DEF RequestVote, PeerTypeOK
  <2>4. persisted' \in [Server -> RaftStates]
    BY <1>1, <1>2, <1>4, <2>3, PersistType DEF RequestVote, PeerTypeOK, logVars
  <2> QED BY <1>1, <1>4, <2>1, <2>2, <2>3, <2>4, TypeParts
          DEF RequestVote, PeerTypeOK, HistoryTypeOK, logVars, applyVars, peerVars
<1>5. CASE VoteIgnored(c)
  BY <1>1, <1>5, TypeParts DEF VoteIgnored, PeerTypeOK, HistoryTypeOK,
     termVars, logVars, applyVars, peerVars, voteHist
<1>6. CASE VoteStepDown(c)
  <2>1. c.replyTerm \in Nat /\ AdoptTerm(c.src, c.replyTerm)
    BY <1>2, <1>6 DEF VoteStepDown
  <2>2. /\ currentTerm' \in [Server -> Nat]
        /\ votedFor' \in [Server -> Server \cup {NoVote}]
        /\ serverState' \in [Server -> {"follower", "candidate", "leader"}]
    BY <1>1, <1>2, <2>1, AdoptType
  <2>3. persisted' \in [Server -> RaftStates]
    BY <1>1, <1>2, <1>6, <2>2, PersistType DEF VoteStepDown, PeerTypeOK, logVars
  <2> QED BY <1>1, <1>6, <2>2, <2>3, TypeParts DEF VoteStepDown, PeerTypeOK, HistoryTypeOK,
             logVars, applyVars, peerVars, voteHist
<1>7. CASE VoteCounted(c)
  <2>0. PICK i \in Server : i = c.src
    BY <1>2
  <2>1. lastLogIndex(i) \in Nat /\ currentTerm[i] \in Nat
    BY <1>1, LastLogType DEF PeerTypeOK
  <2> DEFINE Goal == /\ nextIndex' \in [Server -> [Server -> Nat]]
                     /\ matchIndex' \in [Server -> [Server -> Nat]]
                     /\ serverState' \in [Server -> {"follower", "candidate", "leader"}]
                     /\ elected' \subseteq Nat \X Server
  <2>2. ASSUME IsMajority(votesReceived[i] + 1)
        PROVE  Goal
    <3>1. /\ serverState' = [serverState EXCEPT ![i] = "leader"]
          /\ SetLeaderIndex(i, lastLogIndex(i) + 1, 0)
          /\ elected' = elected \cup {<<currentTerm[i], i>>}
      BY <1>7, <2>0, <2>2 DEF VoteCounted, initLeaderIndex
    <3>2. /\ nextIndex' \in [Server -> [Server -> Nat]]
          /\ matchIndex' \in [Server -> [Server -> Nat]]
      BY <1>1, <2>1, <3>1, LeaderIndexType
    <3>3. serverState' \in [Server -> {"follower", "candidate", "leader"}]
      BY <1>1, <3>1 DEF PeerTypeOK
    <3>4. elected' \subseteq Nat \X Server
      BY <1>1, <2>1, <3>1 DEF HistoryTypeOK
    <3> QED BY <3>2, <3>3, <3>4
  <2>3. ASSUME ~IsMajority(votesReceived[i] + 1)
        PROVE  Goal
    BY <1>1, <1>7, <2>0, <2>3 DEF VoteCounted, PeerTypeOK, HistoryTypeOK, peerVars
  <2>4. votesReceived' \in [Server -> Nat]
    <3>1. votesReceived' = [votesReceived EXCEPT ![i] = votesReceived[i] + 1]
      BY <1>7, <2>0 DEF VoteCounted
    <3> QED BY <1>1, <3>1 DEF PeerTypeOK
  <2>5. voters' \in [Server -> SUBSET Server]
    <3>1. voters' = [voters EXCEPT ![i] = voters[i] \cup {c.dst}]
      BY <1>7, <2>0 DEF VoteCounted
    <3> QED BY <1>1, <1>2, <3>1 DEF PeerTypeOK
  <2>6. Goal
    BY <2>2, <2>3
  <2> QED BY <1>1, <1>7, <2>4, <2>5, <2>6, TypeParts DEF VoteCounted, PeerTypeOK, HistoryTypeOK,
             logVars, applyVars
<1> QED BY <1>3, <1>4, <1>5, <1>6, <1>7 DEF VoteStep

-----------------------------------------------------------------------------
(* AppendEntries and InstallSnapshot. *)

\* The reply record of AppendEntries is a call.
LEMMA AppendReplyType ==
  ASSUME NEW a \in AppendRequest, NEW t \in Nat, NEW ok \in BOOLEAN,
         NEW XT \in Int, NEW XI \in Nat, NEW XL \in Nat
  PROVE  AppendReply(a, t, ok, XT, XI, XL) \in Call
<1>1. a.term \in Nat /\ a.prevLogIndex \in Nat /\ a.entries \in Seq(LogEntry)
  BY DEF AppendRequest
<1>2. Len(a.entries) \in Nat
  BY <1>1
<1>3. AppendReply(a, t, ok, XT, XI, XL) \in AppendReplies
  BY <1>1, <1>2 DEF AppendReply, AppendReplies
<1> QED BY <1>3 DEF Call

\* The same for InstallSnapshot.
LEMMA InstallReplyType ==
  ASSUME NEW a \in InstallRequest, NEW t \in Nat
  PROVE  InstallReply(a, t) \in Call
  BY DEF InstallRequest, InstallReply, InstallReplies, Call

\* A handler that adopts a term and leaves the log alone.
LEMMA AdoptOnlyType ==
  ASSUME PeerTypeOK, NEW j \in Server, NEW t \in Nat, NEW newer \in BOOLEAN,
         AdoptTerm(j, t), UNCHANGED logVars, persistIf(j, newer)
  PROVE  /\ currentTerm' \in [Server -> Nat]
         /\ votedFor' \in [Server -> Server \cup {NoVote}]
         /\ serverState' \in [Server -> {"follower", "candidate", "leader"}]
         /\ persisted' \in [Server -> RaftStates]
<1>1. /\ currentTerm' \in [Server -> Nat]
      /\ votedFor' \in [Server -> Server \cup {NoVote}]
      /\ serverState' \in [Server -> {"follower", "candidate", "leader"}]
  BY AdoptType
<1>2. CASE persist(j)
  BY <1>1, <1>2, PersistType DEF PeerTypeOK, logVars
<1>3. CASE UNCHANGED persisted
  BY <1>1, <1>3 DEF PeerTypeOK
<1> QED BY <1>1, <1>2, <1>3 DEF persistIf

\* The AppendEntries handler keeps the types.
LEMMA AppendEntriesType ==
  ASSUME TypeOK, NEW i \in Server, NEW j \in Server, NEW k \in DOMAIN calls[i][j],
         \/ AppendEntriesStale(i, j, k)
         \/ AppendEntriesMismatch(i, j, k)
         \/ AppendEntries(i, j, k)
  PROVE  TypeOK'
<1> DEFINE a == calls[i][j][k]
<1>1. PeerTypeOK /\ HistoryTypeOK /\ calls \in Links
  BY TypeParts
<1>2. /\ a \in AppendRequest
      /\ a.term \in Nat
      /\ a.prevLogIndex \in Nat
      /\ a.entries \in Seq(LogEntry)
      /\ a.leaderCommit \in Nat
  <2>1. a \in AppendRequest
    BY <1>1, CallKinds DEF AppendEntriesStale, AppendEntriesMismatch, AppendEntries
  <2> QED BY <2>1 DEF AppendRequest
<1>3. /\ currentTerm[j] \in Nat /\ lastIncludedIndex[j] \in Nat
      /\ log[j] \in Seq(LogEntry) /\ lastLogIndex(j) \in Nat
  BY <1>1, LastLogType DEF PeerTypeOK
<1>0. 0 \in Nat /\ 0 \in Int /\ -1 \in Int /\ TRUE \in BOOLEAN /\ FALSE \in BOOLEAN
  OBVIOUS
<1>4. CASE AppendEntriesStale(i, j, k)
  <2>1. AppendReply(a, currentTerm[j], FALSE, 0, 0, 0) \in Call
    BY <1>0, <1>2, <1>3, AppendReplyType, Zenon
  <2>2. calls' \in Links
    BY <1>1, <1>4, <2>1, AnswerType DEF AppendEntriesStale
  <2> QED BY <1>1, <1>4, <2>2, TypeParts DEF AppendEntriesStale, PeerTypeOK, HistoryTypeOK,
             termVars, logVars, applyVars, peerVars, voteHist
<1>5. CASE AppendEntriesMismatch(i, j, k)
  <2>1. /\ AdoptTerm(j, a.term)
        /\ UNCHANGED logVars
        /\ persistIf(j, a.term > currentTerm[j])
    BY <1>5 DEF AppendEntriesMismatch
  <2>2. /\ currentTerm' \in [Server -> Nat]
        /\ votedFor' \in [Server -> Server \cup {NoVote}]
        /\ serverState' \in [Server -> {"follower", "candidate", "leader"}]
        /\ persisted' \in [Server -> RaftStates]
    <3>1. (a.term > currentTerm[j]) \in BOOLEAN
      OBVIOUS
    <3> HIDE DEF a
    <3> QED BY <1>1, <1>2, <2>1, <3>1, AdoptOnlyType
  <2>3. ASSUME NEW XT \in Int, NEW XI \in Nat, NEW XL \in Nat,
               Answer(i, j, k, AppendReply(a, currentTerm[j], FALSE, XT, XI, XL))
        PROVE  calls' \in Links
    <3>1. AppendReply(a, currentTerm[j], FALSE, XT, XI, XL) \in Call
      BY <1>0, <1>2, <1>3, AppendReplyType, Zenon
    <3> QED BY <1>1, <2>3, <3>1, AnswerType
  <2>4. calls' \in Links
    <3>1. CASE Answer(i, j, k, AppendReply(a, currentTerm[j], FALSE, -1, 0, lastLogIndex(j) + 1))
      <4>1. lastLogIndex(j) + 1 \in Nat
        BY <1>3
      <4> QED BY <1>0, <2>3, <3>1, <4>1, Zenon
    <3>2. CASE Answer(i, j, k, AppendReply(a, currentTerm[j], FALSE, 0, 0, 0))
      BY <1>0, <2>3, <3>2, Zenon
    <3>3. ASSUME a.prevLogIndex <= lastLogIndex(j),
                 NEW x \in (lastIncludedIndex[j] + 1) .. a.prevLogIndex,
                 Answer(i, j, k, AppendReply(a, currentTerm[j], FALSE,
                           TermAt(j, log[j], a.prevLogIndex), x, 0))
          PROVE  calls' \in Links
      <4>1. TermAt(j, log[j], a.prevLogIndex) \in Int
        BY <1>1, <1>2, <1>3, <3>3, TermAtType DEF lastLogIndex
      <4>2. x \in Nat
        BY <1>2, <1>3
      <4> QED BY <1>0, <2>3, <3>3, <4>1, <4>2, Zenon
    <3> QED BY <1>5, <3>1, <3>2, <3>3 DEF AppendEntriesMismatch
  <2> QED BY <1>1, <1>5, <2>2, <2>4, TypeParts DEF AppendEntriesMismatch, PeerTypeOK,
             HistoryTypeOK, logVars, applyVars, peerVars, voteHist
<1>6. CASE AppendEntries(i, j, k)
  <2>1. calls' \in Links
    <3>1. AppendReply(a, a.term, TRUE, 0, 0, 0) \in Call
      BY <1>0, <1>2, AppendReplyType, Zenon
    <3> QED BY <1>1, <1>6, <3>1, AnswerType DEF AppendEntries
  <2>2. log' \in [Server -> Seq(LogEntry)]
    <3> DEFINE cut == a.prevLogIndex - lastIncludedIndex[j]
               new == SubSeq(log[j], 1, cut) \o a.entries
    <3>1. cut \in 0..Len(log[j])
      <4>1. a.prevLogIndex \in lastIncludedIndex[j] .. lastLogIndex(j)
        BY <1>6 DEF AppendEntries, PrevMatches
      <4> HIDE DEF a
      <4> QED BY <1>2, <1>3, <4>1 DEF lastLogIndex
    <3>2. SubSeq(log[j], 1, cut) \in Seq(LogEntry)
      BY <1>3, <3>1
    <3>3. new \in Seq(LogEntry)
      BY <1>2, <3>2
    <3>4. log' = [log EXCEPT ![j] = new]
      BY <1>6 DEF AppendEntries
    <3> HIDE DEF new
    <3> QED BY <1>1, <3>3, <3>4 DEF PeerTypeOK
  <2>3. /\ commitIndex' \in [Server -> Nat]
        /\ lastApplied' \in [Server -> Nat]
    <3> DEFINE lastNew == a.prevLogIndex + Len(a.entries)
    <3>1. lastNew \in Nat
      BY <1>2
    <3>2. /\ commitIndex' = [commitIndex EXCEPT ![j] =
                Smaller(Larger(commitIndex[j], a.leaderCommit), lastNew)]
          /\ lastApplied' = [lastApplied EXCEPT ![j] = Smaller(lastApplied[j], lastNew)]
      BY <1>6 DEF AppendEntries
    <3>3. commitIndex[j] \in Nat /\ lastApplied[j] \in Nat
      BY <1>1 DEF PeerTypeOK
    <3> HIDE DEF lastNew, a
    <3> QED BY <1>1, <1>2, <3>1, <3>2, <3>3 DEF PeerTypeOK, Larger, Smaller
  <2>4. /\ currentTerm' \in [Server -> Nat]
        /\ votedFor' \in [Server -> Server \cup {NoVote}]
        /\ serverState' \in [Server -> {"follower", "candidate", "leader"}]
    BY <1>1, <1>2, <1>6, AdoptType DEF AppendEntries
  <2>5. persisted' \in [Server -> RaftStates]
    <3>1. persist(j) /\ UNCHANGED <<lastIncludedIndex, lastIncludedTerm>>
      BY <1>6 DEF AppendEntries
    <3> QED BY <1>1, <2>2, <2>4, <3>1, PersistType DEF PeerTypeOK
  <2> QED BY <1>1, <1>6, <2>1, <2>2, <2>3, <2>4, <2>5, TypeParts DEF AppendEntries, PeerTypeOK,
             HistoryTypeOK, peerVars, voteHist
<1> QED BY <1>4, <1>5, <1>6

\* advanceCommit() leaves numbers.
LEMMA AdvanceCommitType ==
  ASSUME PeerTypeOK, NEW i \in Server, NEW match, advanceCommit(i, match)
  PROVE  commitIndex' \in [Server -> Nat]
<1>1. commitIndex[i] \in Nat /\ lastLogIndex(i) \in Nat
  BY LastLogType DEF PeerTypeOK
<1>2. Committable(i, match) \subseteq Nat
  BY <1>1 DEF Committable
<1> QED BY <1>2 DEF advanceCommit, PeerTypeOK

\* Processing a reply keeps the types.
LEMMA ReplyStepType ==
  ASSUME TypeOK, NEW i \in Server, NEW j \in Server, NEW k \in DOMAIN calls[i][j],
         \/ ReplyIgnored(i, j, k) \/ ReplyStepDown(i, j, k)
         \/ AppendSucceeded(i, j, k) \/ AppendRefused(i, j, k)
         \/ InstallSucceeded(i, j, k)
  PROVE  TypeOK'
<1> DEFINE r == calls[i][j][k]
<1>1. PeerTypeOK /\ HistoryTypeOK /\ calls \in Links
  BY TypeParts
<1>2. calls' \in Links
  BY <1>1, HangupType DEF ReplyIgnored, ReplyStepDown, AppendSucceeded, AppendRefused,
     InstallSucceeded
<1>3. /\ nextIndex[i][j] \in Nat /\ matchIndex[i][j] \in Nat
      /\ nextIndex[i] \in [Server -> Nat] /\ matchIndex[i] \in [Server -> Nat]
  BY <1>1 DEF PeerTypeOK
<1>4. CASE ReplyIgnored(i, j, k)
  BY <1>1, <1>2, <1>4, TypeParts DEF ReplyIgnored, PeerTypeOK, HistoryTypeOK,
     termVars, logVars, applyVars, peerVars, voteHist
<1>5. CASE ReplyStepDown(i, j, k)
  <2>1. r.replyTerm \in Nat
    BY <1>1, <1>5, CallKinds DEF ReplyStepDown
  <2>2. /\ currentTerm' \in [Server -> Nat]
        /\ votedFor' \in [Server -> Server \cup {NoVote}]
        /\ serverState' \in [Server -> {"follower", "candidate", "leader"}]
    BY <1>1, <1>5, <2>1, AdoptType DEF ReplyStepDown
  <2>3. persisted' \in [Server -> RaftStates]
    BY <1>1, <1>5, <2>2, PersistType DEF ReplyStepDown, PeerTypeOK, logVars
  <2> QED BY <1>1, <1>2, <1>5, <2>2, <2>3, TypeParts DEF ReplyStepDown, PeerTypeOK,
             HistoryTypeOK, logVars, applyVars, peerVars, voteHist
<1>6. CASE AppendSucceeded(i, j, k)
  <2>1. r.prevI + r.ent \in Nat
    <3>1. r \in AppendReplies
      BY <1>1, <1>6, CallKinds DEF AppendSucceeded
    <3> QED BY <3>1 DEF AppendReplies
  <2>2. PICK m \in Nat : m = r.prevI + r.ent
    BY <2>1
  <2>3. /\ matchIndex' = [matchIndex EXCEPT ![i][j] = Larger(matchIndex[i][j], m)]
        /\ nextIndex' = [nextIndex EXCEPT ![i][j] = m + 1]
        /\ advanceCommit(i, matchIndex'[i])
    BY <1>6, <2>2 DEF AppendSucceeded
  <2>4. /\ matchIndex' \in [Server -> [Server -> Nat]]
        /\ nextIndex' \in [Server -> [Server -> Nat]]
    <3>1. Larger(matchIndex[i][j], m) \in Nat
      BY <1>3, LargerSmaller
    <3>2. m + 1 \in Nat
      OBVIOUS
    <3> QED BY <1>1, <2>3, <3>1, <3>2, SetOneOfRow DEF PeerTypeOK
  <2>5. commitIndex' \in [Server -> Nat]
    BY <1>1, <2>3, AdvanceCommitType
  <2> QED BY <1>1, <1>2, <1>6, <2>4, <2>5, TypeParts DEF AppendSucceeded, PeerTypeOK,
             HistoryTypeOK, termVars, logVars, voteHist
<1>7. CASE AppendRefused(i, j, k)
  <2>1. r.XIndex \in Nat /\ r.XLen \in Nat
    <3>1. r \in AppendReplies
      BY <1>1, <1>7, CallKinds DEF AppendRefused
    <3> QED BY <3>1 DEF AppendReplies
  <2>2. log[i] \in Seq(LogEntry) /\ Holding(i, r.XTerm) \subseteq Nat
    BY <1>1, LastLogType DEF Holding
  <2>3. PICK m \in Nat : nextIndex' = [nextIndex EXCEPT ![i][j] = Larger(m, 1)]
    <3> HIDE DEF r
    <3>1. \/ nextIndex' = [nextIndex EXCEPT ![i][j] = Larger(r.XLen, 1)]
          \/ nextIndex' = [nextIndex EXCEPT ![i][j] = Larger(r.XIndex, 1)]
          \/ \E p \in Holding(i, r.XTerm) : nextIndex' = [nextIndex EXCEPT ![i][j] = Larger(p, 1)]
      BY <1>7 DEF AppendRefused, r
    <3> QED BY <2>1, <2>2, <3>1
  <2>4. nextIndex' \in [Server -> [Server -> Nat]]
    <3>1. Larger(m, 1) \in Nat
      BY DEF Larger
    <3> QED BY <1>1, <1>3, <2>3, <3>1 DEF PeerTypeOK
  <2> QED BY <1>1, <1>2, <1>7, <2>4, TypeParts DEF AppendRefused, PeerTypeOK,
             HistoryTypeOK, termVars, logVars, applyVars, voteHist
<1>8. CASE InstallSucceeded(i, j, k)
  <2>1. r.lastIdx \in Nat
    <3>1. r \in InstallReplies
      BY <1>1, <1>8, CallKinds DEF InstallSucceeded
    <3> QED BY <3>1 DEF InstallReplies
  <2>2. PICK m \in Nat : m = r.lastIdx
    BY <2>1
  <2>3. /\ matchIndex' = [matchIndex EXCEPT ![i][j] = Larger(matchIndex[i][j], m)]
        /\ nextIndex' = [nextIndex EXCEPT ![i][j] = Larger(nextIndex[i][j], m + 1)]
        /\ advanceCommit(i, matchIndex'[i])
    BY <1>8, <2>2 DEF InstallSucceeded
  <2>4. Larger(matchIndex[i][j], m) \in Nat /\ Larger(nextIndex[i][j], m + 1) \in Nat
    BY <1>3 DEF Larger
  <2>5. /\ matchIndex' \in [Server -> [Server -> Nat]]
        /\ nextIndex' \in [Server -> [Server -> Nat]]
    BY <1>1, <1>3, <2>3, <2>4 DEF PeerTypeOK
  <2>6. commitIndex' \in [Server -> Nat]
    BY <1>1, <2>3, AdvanceCommitType
  <2>7. persisted' \in [Server -> RaftStates]
    BY <1>1, <1>8, PersistType DEF InstallSucceeded, PeerTypeOK, termVars, logVars
  <2> QED BY <1>1, <1>2, <1>8, <2>5, <2>6, <2>7, TypeParts DEF InstallSucceeded, PeerTypeOK,
             HistoryTypeOK, termVars, logVars, voteHist
<1> QED BY <1>4, <1>5, <1>6, <1>7, <1>8

-----------------------------------------------------------------------------
(* Sending, compaction, delivery and restart. *)

\* The loop over the peers sends well-typed calls.
LEMMA ReplicateType ==
  ASSUME PeerTypeOK, calls \in Links, NEW i \in Server, NEW lg \in Seq(LogEntry),
         Replicate(i, lg)
  PROVE  calls' \in Links
<1>1. PICK reached \in SUBSET (Peers(i) \ Behind(i)) :
        calls' = [calls EXCEPT ![i] =
              [p \in Server |-> IF p \in reached
                                THEN Append(calls[i][p], AppendArgs(i, p, lg))
                                ELSE calls[i][p]]]
  BY DEF Replicate, Kept
<1>2. ASSUME NEW p \in Server, p \in reached
      PROVE  AppendArgs(i, p, lg) \in Call
  <2>1. /\ nextIndex[i][p] \in Nat /\ lastIncludedIndex[i] \in Nat
        /\ currentTerm[i] \in Nat /\ commitIndex[i] \in Nat
    BY DEF PeerTypeOK
  <2>2. /\ nextIndex[i][p] > lastIncludedIndex[i]
        /\ nextIndex[i][p] <= lastIncludedIndex[i] + Len(lg) + 1
    BY <1>2, <2>1 DEF Replicate, InSlice, Behind
  <2>3. /\ nextIndex[i][p] - 1 \in Nat
        /\ nextIndex[i][p] - 1 <= lastIncludedIndex[i] + Len(lg)
    BY <2>1, <2>2
  <2>4. TermAt(i, lg, nextIndex[i][p] - 1) \in Nat
    BY <2>3, TermAtType
  <2>5. SubSeq(lg, nextIndex[i][p] - lastIncludedIndex[i], Len(lg)) \in Seq(LogEntry)
    BY <2>1, <2>2
  <2>6. AppendArgs(i, p, lg) \in AppendRequest
    BY <2>1, <2>3, <2>4, <2>5 DEF AppendArgs, AppendRequest
  <2> QED BY <2>6 DEF Call
<1> DEFINE row == [p \in Server |-> IF p \in reached
                                    THEN Append(calls[i][p], AppendArgs(i, p, lg))
                                    ELSE calls[i][p]]
<1>3. row \in [Server -> Seq(Call)]
  <2>1. ASSUME NEW p \in Server PROVE row[p] \in Seq(Call)
    BY <1>2, AppendCallType DEF Links
  <2> QED BY <2>1
<1>4. calls' = [calls EXCEPT ![i] = row]
  BY <1>1
<1> HIDE DEF row
<1> QED BY <1>3, <1>4 DEF Links

\* A restart from a raftstate keeps the types of everything it resets.
LEMMA MakeType ==
  ASSUME PeerTypeOK, HistoryTypeOK, NEW i \in Server, NEW ps \in RaftStates, Make(i, ps),
         persisted' \in [Server -> RaftStates], snapshot' \in [Server -> Nat]
  PROVE  PeerTypeOK' /\ HistoryTypeOK'
<1>1. /\ ps.currentTerm \in Nat /\ ps.votedFor \in Server \cup {NoVote}
      /\ ps.log \in Seq(LogEntry)
      /\ ps.lastIncludedIndex \in Nat /\ ps.lastIncludedTerm \in Nat
  BY DEF RaftStates
<1> DEFINE zeros == [p \in Server |-> 0]
<1>2. zeros \in [Server -> Nat]
  OBVIOUS
<1>3. /\ nextIndex' = [nextIndex EXCEPT ![i] = zeros]
      /\ matchIndex' = [matchIndex EXCEPT ![i] = zeros]
  BY DEF Make
<1> HIDE DEF zeros
<1>4. /\ nextIndex' \in [Server -> [Server -> Nat]]
      /\ matchIndex' \in [Server -> [Server -> Nat]]
  BY <1>2, <1>3 DEF PeerTypeOK
<1>5. PeerTypeOK'
  <2>1. /\ currentTerm' \in [Server -> Nat]
        /\ votedFor' \in [Server -> Server \cup {NoVote}]
        /\ log' \in [Server -> Seq(LogEntry)]
        /\ lastIncludedIndex' \in [Server -> Nat]
        /\ lastIncludedTerm' \in [Server -> Nat]
    BY <1>1 DEF PeerTypeOK, Make, Resume
  <2>2. /\ commitIndex' \in [Server -> Nat]
        /\ lastApplied' \in [Server -> Nat]
        /\ votesReceived' \in [Server -> Nat]
        /\ crashes' \in Nat
    <3>1. 0 \in Nat /\ crashes + 1 \in Nat
      BY DEF PeerTypeOK
    <3> QED BY <1>1, <3>1, SetOne DEF PeerTypeOK, Make, Resume
  <2>3. /\ serverState' \in [Server -> {"follower", "candidate", "leader"}]
        /\ ticker' \in [Server -> BOOLEAN]
        /\ installers' \in [Server -> SUBSET Server]
        /\ voters' \in [Server -> SUBSET Server]
    BY DEF PeerTypeOK, Make, Resume
  <2> QED BY <1>4, <2>1, <2>2, <2>3 DEF PeerTypeOK
<1>6. HistoryTypeOK'
  BY DEF HistoryTypeOK, Make
<1> QED BY <1>5, <1>6

\* The steps a peer takes on its own keep the types.
LEMMA ServerStepType ==
  ASSUME TypeOK, CompactedApplied, NEW i \in Server, ServerStep(i)
  PROVE  TypeOK'
<1>1. PeerTypeOK /\ HistoryTypeOK /\ calls \in Links
  BY TypeParts
<1>2. /\ log[i] \in Seq(LogEntry) /\ lastLogIndex(i) \in Nat
      /\ lastIncludedIndex[i] \in Nat /\ currentTerm[i] \in Nat
      /\ lastApplied[i] \in Nat /\ snapshot[i] \in Nat
      /\ persisted[i] \in RaftStates
  BY <1>1, LastLogType DEF PeerTypeOK
<1>3. ASSUME NEW cmd \in Command
      PROVE  Append(log[i], NewEntry(i, cmd)) \in Seq(LogEntry)
  <2>1. NewEntry(i, cmd) \in LogEntry
    BY <1>2 DEF NewEntry, LogEntry
  <2> QED BY <1>2, <2>1
<1>4. SpawnInstallers(i) => installers' \in [Server -> SUBSET Server]
  <2>1. Behind(i) \subseteq Server
    BY DEF Behind, Peers
  <2>2. installers[i] \cup Behind(i) \in SUBSET Server
    BY <1>1, <2>1 DEF PeerTypeOK
  <2>3. SpawnInstallers(i) => installers' = [installers EXCEPT ![i] = installers[i] \cup Behind(i)]
    BY DEF SpawnInstallers
  <2> QED BY <1>1, <2>2, <2>3 DEF PeerTypeOK
<1>5. CASE doElection(i)
  BY <1>5, doElectionType
<1>6. CASE TickerObserve(i)
  BY <1>1, <1>6, TypeParts DEF TickerObserve, PeerTypeOK, HistoryTypeOK,
     termVars, logVars, applyVars, peerVars, voteHist
<1>7. CASE TickerSend(i)
  <2>1. calls' \in Links
    BY <1>1, <1>2, <1>7, ReplicateType DEF TickerSend
  <2> QED BY <1>1, <1>4, <1>7, <2>1, TypeParts DEF TickerSend, PeerTypeOK, HistoryTypeOK,
             termVars, logVars, applyVars, peerVars, voteHist
<1>8. CASE BackgroundApplyRoutine(i)
  <2> DEFINE idx == lastApplied[i] + 1
  <2>1. idx - lastIncludedIndex[i] \in 1 .. Len(log[i])
    BY <1>2, <1>8 DEF BackgroundApplyRoutine, lastLogIndex, CompactedApplied
  <2>2. log[i][idx - lastIncludedIndex[i]] \in LogEntry
    BY <1>2, <2>1
  <2>3. applied' \subseteq Nat \X LogEntry
    <3>1. applied' = applied \cup {<<idx, log[i][idx - lastIncludedIndex[i]]>>}
      BY <1>8 DEF BackgroundApplyRoutine
    <3>2. idx \in Nat
      BY <1>2
    <3> HIDE DEF idx
    <3> QED BY <1>1, <2>2, <3>1, <3>2 DEF HistoryTypeOK
  <2>4. lastApplied' \in [Server -> Nat]
    BY <1>1, <1>2, <1>8 DEF BackgroundApplyRoutine, PeerTypeOK
  <2> QED BY <1>1, <1>8, <2>3, <2>4, TypeParts DEF BackgroundApplyRoutine, PeerTypeOK,
             HistoryTypeOK, termVars, logVars, peerVars, voteHist
<1>9. CASE Crash(i)
  BY <1>1, <1>2, <1>9, MakeType, TypeParts DEF Crash, PeerTypeOK
<1>10. ASSUME NEW cmd \in Command, Start(i, cmd)
       PROVE  TypeOK'
  <2> DEFINE lg == Append(log[i], NewEntry(i, cmd))
  <2>1. lg \in Seq(LogEntry)
    BY <1>3
  <2>2. /\ Replicate(i, lg)
        /\ log' = [log EXCEPT ![i] = lg]
    BY <1>10 DEF Start
  <2> HIDE DEF lg
  <2>3. calls' \in Links
    BY <1>1, <2>1, <2>2, ReplicateType
  <2>4. log' \in [Server -> Seq(LogEntry)]
    BY <1>1, <2>1, <2>2 DEF PeerTypeOK
  <2>5. matchIndex' \in [Server -> [Server -> Nat]]
    <3> DEFINE n == lastLogIndex(i) + 1
    <3>1. n \in Nat
      BY <1>2
    <3>2. matchIndex' = [matchIndex EXCEPT ![i][i] = n]
      BY <1>10 DEF Start
    <3> HIDE DEF n
    <3> QED BY <1>1, <3>1, <3>2 DEF PeerTypeOK
  <2>6. persisted' \in [Server -> RaftStates]
    BY <1>1, <1>10, <2>4, PersistType DEF Start, PeerTypeOK, termVars
  <2> QED BY <1>1, <1>4, <1>10, <2>3, <2>4, <2>5, <2>6, TypeParts DEF Start, PeerTypeOK,
             HistoryTypeOK, termVars, applyVars, voteHist
<1>11. ASSUME NEW cmd \in Command, CrashInStart(i, cmd)
       PROVE  TypeOK'
  <2>1. calls' \in Links
    BY <1>1, <1>3, <1>11, ReplicateType DEF CrashInStart
  <2> QED BY <1>1, <1>2, <1>11, <2>1, MakeType, TypeParts DEF CrashInStart, PeerTypeOK
<1>12. ASSUME NEW n \in (lastIncludedIndex[i] + 1) .. lastApplied[i],
              Snapshot(i, n) \/ CrashInSnapshot(i, n)
       PROVE  TypeOK'
  <2>1. /\ n \in Nat
        /\ n - lastIncludedIndex[i] \in 1 .. Len(log[i])
    <3>1. n <= lastLogIndex(i) /\ lastApplied[i] \in Nat
      BY <1>1, <1>12 DEF Snapshot, CrashInSnapshot, MayCompact, PeerTypeOK
    <3>2. n \in Nat /\ n > lastIncludedIndex[i]
      BY <1>2, <1>12, <3>1
    <3> QED BY <1>2, <3>1, <3>2 DEF lastLogIndex
  <2>2. snapshot' \in [Server -> Nat]
    BY <1>1, <1>12, <2>1 DEF Snapshot, CrashInSnapshot, PeerTypeOK
  <2>3. CASE CrashInSnapshot(i, n)
    BY <1>1, <1>2, <2>2, <2>3, MakeType, TypeParts DEF CrashInSnapshot, PeerTypeOK
  <2>4. CASE Snapshot(i, n)
    <3> DEFINE cut  == n - lastIncludedIndex[i]
               rest == SubSeq(log[i], cut + 1, Len(log[i]))
    <3>1. rest \in Seq(LogEntry) /\ log[i][cut].term \in Nat
      <4>1. log[i][cut] \in LogEntry
        BY <1>2, <2>1
      <4>2. log[i][cut].term \in Nat
        BY <4>1 DEF LogEntry
      <4>3. cut + 1 \in Nat /\ cut + 1 >= 1
        BY <2>1
      <4>4. rest \in Seq(LogEntry)
        BY <1>2, <4>3
      <4> QED BY <4>2, <4>4
    <3>2. /\ log' = [log EXCEPT ![i] = rest]
          /\ lastIncludedIndex' = [lastIncludedIndex EXCEPT ![i] = n]
          /\ lastIncludedTerm' = [lastIncludedTerm EXCEPT ![i] = log[i][cut].term]
      BY <2>4 DEF Snapshot
    <3> HIDE DEF rest, cut
    <3>3. /\ log' \in [Server -> Seq(LogEntry)]
          /\ lastIncludedIndex' \in [Server -> Nat]
          /\ lastIncludedTerm' \in [Server -> Nat]
      BY <1>1, <2>1, <3>1, <3>2 DEF PeerTypeOK
    <3>4. persisted' \in [Server -> RaftStates]
      BY <1>1, <2>4, <3>3, PersistType DEF Snapshot, PeerTypeOK, termVars
    <3> QED BY <1>1, <2>2, <2>4, <3>3, <3>4, TypeParts DEF Snapshot, PeerTypeOK, HistoryTypeOK,
               termVars, applyVars, peerVars, voteHist
  <2> QED BY <1>12, <2>3, <2>4
<1>13. ASSUME NEW p \in Peers(i), SendInstallSnapshot(i, p)
       PROVE  TypeOK'
  <2>1. p \in Server
    BY DEF Peers
  <2>2. calls' \in Links
    <3>1. CASE UNCHANGED calls
      BY <1>1, <3>1
    <3> DEFINE a == [kind |-> "install", term |-> currentTerm[i],
                     lastIncludedIndex |-> lastIncludedIndex[i],
                     lastIncludedTerm |-> lastIncludedTerm[i],
                     data |-> snapshot[i]]
    <3>2. CASE calls' = [calls EXCEPT ![i][p] = Append(calls[i][p], a)]
      <4>1. a \in Call
        <5>1. lastIncludedTerm[i] \in Nat
          BY <1>1 DEF PeerTypeOK
        <5>2. a \in InstallRequest
          BY <1>2, <5>1 DEF InstallRequest
        <5> QED BY <5>2 DEF Call
      <4> HIDE DEF a
      <4>2. Append(calls[i][p], a) \in Seq(Call)
        BY <1>1, <2>1, <4>1, AppendCallType
      <4> QED BY <1>1, <2>1, <3>2, <4>2 DEF Links
    <3> QED BY <1>13, <3>1, <3>2 DEF SendInstallSnapshot
  <2>3. installers' \in [Server -> SUBSET Server]
    BY <1>1, <1>13 DEF SendInstallSnapshot, PeerTypeOK
  <2> QED BY <1>1, <1>13, <2>2, <2>3, TypeParts DEF SendInstallSnapshot, PeerTypeOK,
             HistoryTypeOK, termVars, logVars, applyVars, peerVars, voteHist
<1> QED BY <1>5, <1>6, <1>7, <1>8, <1>9, <1>10, <1>11, <1>12, <1>13 DEF ServerStep

\* The InstallSnapshot handler keeps the types, torn by a crash or not.
LEMMA InstallSnapshotType ==
  ASSUME TypeOK, NEW i \in Server, NEW j \in Server, NEW k \in DOMAIN calls[i][j],
         \/ InstallSnapshotEarly(i, j, k)
         \/ InstallSnapshot(i, j, k)
         \/ CrashInInstall(i, j, k)
  PROVE  TypeOK'
<1> DEFINE a == calls[i][j][k]
<1>1. PeerTypeOK /\ HistoryTypeOK /\ calls \in Links
  BY TypeParts
<1>2. /\ a \in InstallRequest
      /\ a.term \in Nat /\ a.data \in Nat
      /\ a.lastIncludedIndex \in Nat /\ a.lastIncludedTerm \in Nat
  <2>1. a \in InstallRequest
    BY <1>1, CallKinds DEF InstallSnapshotEarly, InstallSnapshot, CrashInInstall, Installs
  <2> QED BY <2>1 DEF InstallRequest
<1>3. currentTerm[j] \in Nat /\ votedFor[j] \in Server \cup {NoVote}
  BY <1>1 DEF PeerTypeOK
<1>4. CASE InstallSnapshotEarly(i, j, k)
  <2>1. calls' \in Links
    <3>1. InstallReply(a, currentTerm[j]) \in Call
      BY <1>2, <1>3, InstallReplyType
    <3> QED BY <1>1, <1>4, <3>1, AnswerType DEF InstallSnapshotEarly
  <2>2. /\ currentTerm' \in [Server -> Nat]
        /\ votedFor' \in [Server -> Server \cup {NoVote}]
        /\ serverState' \in [Server -> {"follower", "candidate", "leader"}]
        /\ persisted' \in [Server -> RaftStates]
    <3>1. CASE UNCHANGED <<termVars, persisted>>
      BY <1>1, <3>1 DEF PeerTypeOK, termVars
    <3>2. CASE /\ AdoptTerm(j, a.term) /\ UNCHANGED logVars
               /\ persistIf(j, a.term > currentTerm[j])
      <4>1. (a.term > currentTerm[j]) \in BOOLEAN
        OBVIOUS
      <4> HIDE DEF a
      <4> QED BY <1>1, <1>2, <3>2, <4>1, AdoptOnlyType
    <3> QED BY <1>4, <3>1, <3>2 DEF InstallSnapshotEarly
  <2> QED BY <1>1, <1>4, <2>1, <2>2, TypeParts DEF InstallSnapshotEarly, PeerTypeOK,
             HistoryTypeOK, logVars, applyVars, peerVars, voteHist
<1>5. CASE InstallSnapshot(i, j, k)
  <2>1. calls' \in Links
    <3>1. InstallReply(a, a.term) \in Call
      BY <1>2, InstallReplyType
    <3> QED BY <1>1, <1>5, <3>1, AnswerType DEF InstallSnapshot
  <2>2. /\ currentTerm' \in [Server -> Nat]
        /\ votedFor' \in [Server -> Server \cup {NoVote}]
        /\ serverState' \in [Server -> {"follower", "candidate", "leader"}]
    BY <1>1, <1>2, <1>5, AdoptType DEF InstallSnapshot
  <2>3. PICK n \in Nat : n = a.lastIncludedIndex
    BY <1>2
  <2>4. /\ lastIncludedIndex' = [lastIncludedIndex EXCEPT ![j] = n]
        /\ lastIncludedTerm' = [lastIncludedTerm EXCEPT ![j] = a.lastIncludedTerm]
        /\ lastApplied' = [lastApplied EXCEPT ![j] = Larger(lastApplied[j], n)]
        /\ commitIndex' = [commitIndex EXCEPT ![j] = Larger(commitIndex[j], n)]
        /\ log' = [log EXCEPT ![j] = <<>>]
        /\ snapshot' = [snapshot EXCEPT ![j] = a.data]
    BY <1>5, <2>3 DEF InstallSnapshot
  <2>5. /\ lastIncludedIndex' \in [Server -> Nat]
        /\ lastIncludedTerm' \in [Server -> Nat]
        /\ log' \in [Server -> Seq(LogEntry)]
        /\ snapshot' \in [Server -> Nat]
    <3>1. <<>> \in Seq(LogEntry)
      OBVIOUS
    <3> HIDE DEF a
    <3> QED BY <1>1, <1>2, <2>4, <3>1, SetOne DEF PeerTypeOK
  <2>6. /\ lastApplied' \in [Server -> Nat]
        /\ commitIndex' \in [Server -> Nat]
    <3>1. Larger(lastApplied[j], n) \in Nat /\ Larger(commitIndex[j], n) \in Nat
      BY <1>1, LargerSmaller DEF PeerTypeOK
    <3> QED BY <1>1, <2>4, <3>1 DEF PeerTypeOK
  <2>7. persisted' \in [Server -> RaftStates]
    BY <1>1, <1>5, <2>2, <2>5, PersistType DEF InstallSnapshot, PeerTypeOK
  <2> QED BY <1>1, <1>5, <2>1, <2>2, <2>5, <2>6, <2>7, TypeParts DEF InstallSnapshot, PeerTypeOK,
             HistoryTypeOK, peerVars, voteHist
<1>6. CASE CrashInInstall(i, j, k)
  <2> DEFINE ps == [votedFor |-> IF a.term > currentTerm[j] THEN NoVote ELSE votedFor[j],
                    currentTerm |-> a.term, log |-> <<>>,
                    lastIncludedIndex |-> a.lastIncludedIndex,
                    lastIncludedTerm |-> a.lastIncludedTerm]
  <2>1. ps \in RaftStates
    BY <1>2, <1>3 DEF RaftStates
  <2>2. /\ persisted' = [persisted EXCEPT ![j] = ps]
        /\ Make(j, ps)
        /\ Hangup(i, j, k)
        /\ UNCHANGED snapshot
    BY <1>6 DEF CrashInInstall
  <2> HIDE DEF ps
  <2>3. persisted' \in [Server -> RaftStates]
    BY <1>1, <2>1, <2>2 DEF PeerTypeOK
  <2>4. calls' \in Links
    BY <1>1, <2>2, HangupType
  <2>5. snapshot' \in [Server -> Nat]
    BY <1>1, <2>2 DEF PeerTypeOK
  <2> QED BY <1>1, <2>1, <2>2, <2>3, <2>4, <2>5, MakeType, TypeParts
<1> QED BY <1>4, <1>5, <1>6

-----------------------------------------------------------------------------
(* The offset of the apply routine, and the theorems. *)

\* A restart puts lastApplied where the compacted part of the log ends.
LEMMA MakeCompacted ==
  ASSUME TypeOK, CompactedApplied, NEW i \in Server, NEW ps \in RaftStates, Make(i, ps)
  PROVE  CompactedApplied'
<1>1. ps.lastIncludedIndex \in Nat
  BY DEF RaftStates
<1> QED BY <1>1 DEF TypeOK, CompactedApplied, Make, Resume

\* No step compacts what has not been delivered.
LEMMA CompactedStep ==
  ASSUME TypeOK, CompactedApplied, [Next]_vars
  PROVE  CompactedApplied'
<1>1. PeerTypeOK /\ HistoryTypeOK /\ calls \in Links
  BY TypeParts
<1>2. CASE UNCHANGED <<logVars, applyVars>>
  BY <1>2 DEF CompactedApplied, logVars, applyVars
<1>3. CASE UNCHANGED <<lastIncludedIndex, lastApplied>>
  BY <1>3 DEF CompactedApplied
<1>4. CASE UNCHANGED vars
  BY <1>3, <1>4 DEF vars, logVars, applyVars
<1>5. ASSUME NEW i \in Server, ServerStep(i)
      PROVE  CompactedApplied'
  <2>1. /\ persisted[i] \in RaftStates
        /\ lastApplied[i] \in Nat /\ lastIncludedIndex[i] \in Nat
    BY DEF TypeOK
  <2>2. CASE doElection(i) \/ TickerObserve(i) \/ TickerSend(i)
    BY <1>2, <2>2 DEF doElection, TickerObserve, TickerSend
  <2>3. CASE BackgroundApplyRoutine(i)
    BY <2>1, <2>3 DEF BackgroundApplyRoutine, CompactedApplied, TypeOK, logVars
  <2>4. CASE Crash(i)
    BY <2>1, <2>4, MakeCompacted DEF Crash
  <2>5. ASSUME NEW cmd \in Command, Start(i, cmd) \/ CrashInStart(i, cmd)
        PROVE  CompactedApplied'
    BY <1>3, <2>1, <2>5, MakeCompacted DEF Start, CrashInStart, applyVars
  <2>6. ASSUME NEW n \in (lastIncludedIndex[i] + 1) .. lastApplied[i], Snapshot(i, n)
        PROVE  CompactedApplied'
    <3>1. /\ lastIncludedIndex' = [lastIncludedIndex EXCEPT ![i] = n]
          /\ UNCHANGED lastApplied
          /\ n <= lastApplied[i]
      BY <2>1, <2>6 DEF Snapshot, applyVars
    <3> QED BY <3>1 DEF CompactedApplied, TypeOK
  <2>7. ASSUME NEW n, CrashInSnapshot(i, n)
        PROVE  CompactedApplied'
    BY <2>1, <2>7, MakeCompacted DEF CrashInSnapshot
  <2>8. ASSUME NEW p \in Peers(i), SendInstallSnapshot(i, p)
        PROVE  CompactedApplied'
    BY <1>2, <2>8 DEF SendInstallSnapshot
  <2> QED BY <1>5, <2>2, <2>3, <2>4, <2>5, <2>6, <2>7, <2>8 DEF ServerStep
<1>6. ASSUME NEW c \in voteCalls, VoteStep(c)
      PROVE  CompactedApplied'
  BY <1>2, <1>6 DEF VoteStep, RequestVoteStale, RequestVote, VoteIgnored, VoteStepDown, VoteCounted
<1>7. ASSUME NEW i \in Server, NEW j \in Server, NEW k \in DOMAIN calls[i][j],
             CallStep(i, j, k)
      PROVE  CompactedApplied'
  <2> DEFINE a == calls[i][j][k]
  <2>1. CASE AppendEntries(i, j, k)
    <3>1. a \in AppendRequest
      BY <1>1, <2>1, CallKinds DEF AppendEntries
    <3>2. /\ a.prevLogIndex \in Nat /\ Len(a.entries) \in Nat
      BY <3>1 DEF AppendRequest
    <3>3. a.prevLogIndex \in lastIncludedIndex[j] .. lastLogIndex(j)
      BY <2>1 DEF AppendEntries, PrevMatches
    <3>4. PICK n \in Nat : n = a.prevLogIndex + Len(a.entries)
      BY <3>2
    <3>5. n >= lastIncludedIndex[j]
      <4>1. lastIncludedIndex[j] \in Nat /\ lastLogIndex(j) \in Nat
        BY <1>1, LastLogType DEF PeerTypeOK
      <4> HIDE DEF a
      <4> QED BY <3>2, <3>3, <3>4, <4>1
    <3>6. /\ lastApplied' = [lastApplied EXCEPT ![j] = Smaller(lastApplied[j], n)]
          /\ UNCHANGED lastIncludedIndex
      BY <2>1, <3>4 DEF AppendEntries
    <3> QED BY <3>5, <3>6 DEF CompactedApplied, TypeOK, Smaller
  <2>2. CASE InstallSnapshot(i, j, k)
    <3>1. a \in InstallRequest
      BY <1>1, <2>2, CallKinds DEF InstallSnapshot, Installs
    <3>2. PICK n \in Nat : n = a.lastIncludedIndex
      BY <3>1 DEF InstallRequest
    <3>3. /\ lastIncludedIndex' = [lastIncludedIndex EXCEPT ![j] = n]
          /\ lastApplied' = [lastApplied EXCEPT ![j] = Larger(lastApplied[j], n)]
      BY <2>2, <3>2 DEF InstallSnapshot
    <3> QED BY <3>3 DEF CompactedApplied, TypeOK, Larger
  <2>3. CASE CrashInInstall(i, j, k)
    <3>1. a \in InstallRequest
      BY <1>1, <2>3, CallKinds DEF CrashInInstall, Installs
    <3> DEFINE ps == [votedFor |-> IF a.term > currentTerm[j] THEN NoVote ELSE votedFor[j],
                      currentTerm |-> a.term, log |-> <<>>,
                      lastIncludedIndex |-> a.lastIncludedIndex,
                      lastIncludedTerm |-> a.lastIncludedTerm]
    <3>2. ps \in RaftStates
      <4>1. /\ a.term \in Nat /\ a.lastIncludedIndex \in Nat /\ a.lastIncludedTerm \in Nat
            /\ votedFor[j] \in Server \cup {NoVote}
        BY <3>1 DEF InstallRequest, TypeOK
      <4> HIDE DEF a
      <4> QED BY <4>1 DEF RaftStates
    <3>3. Make(j, ps)
      BY <2>3 DEF CrashInInstall
    <3> HIDE DEF ps
    <3> QED BY <3>2, <3>3, MakeCompacted
  <2>4. CASE \/ AppendEntriesStale(i, j, k) \/ AppendEntriesMismatch(i, j, k)
             \/ AppendRefused(i, j, k) \/ InstallSnapshotEarly(i, j, k)
             \/ ReplyIgnored(i, j, k) \/ ReplyStepDown(i, j, k)
    BY <1>2, <2>4 DEF AppendEntriesStale, AppendEntriesMismatch, AppendRefused,
       InstallSnapshotEarly, ReplyIgnored, ReplyStepDown
  <2>5. CASE AppendSucceeded(i, j, k) \/ InstallSucceeded(i, j, k)
    BY <1>3, <2>5 DEF AppendSucceeded, InstallSucceeded, logVars
  <2> QED BY <1>7, <2>1, <2>2, <2>3, <2>4, <2>5 DEF CallStep
<1> QED BY <1>4, <1>5, <1>6, <1>7 DEF Next

\* Initially everything has its type and nothing is compacted.
LEMMA InitType == Init => TypeOK /\ CompactedApplied
<1> SUFFICES ASSUME Init PROVE TypeOK /\ CompactedApplied
  OBVIOUS
<1>1. persisted \in [Server -> RaftStates]
  <2>1. ASSUME NEW i \in Server PROVE RaftState(i) \in RaftStates
    BY DEF Init, RaftState, RaftStates
  <2>2. persisted = [i \in Server |-> RaftState(i)]
    BY DEF Init
  <2> QED BY <2>1, <2>2
<1>2. calls \in Links
  <2>1. <<>> \in Seq(Call)
    OBVIOUS
  <2> QED BY <2>1 DEF Init, Links
<1>3. PeerTypeOK
  BY <1>1 DEF Init, PeerTypeOK
<1>4. HistoryTypeOK
  BY DEF Init, HistoryTypeOK
<1>5. CompactedApplied
  BY DEF Init, CompactedApplied
<1> QED BY <1>2, <1>3, <1>4, <1>5, TypeParts

\* Every step keeps the types and the apply offset.
LEMMA NextType ==
  ASSUME TypeOK, CompactedApplied, [Next]_vars
  PROVE  TypeOK' /\ CompactedApplied'
<1>1. CompactedApplied'
  BY CompactedStep
<1>2. ASSUME UNCHANGED vars PROVE TypeOK'
  <2>1. UNCHANGED <<termVars, logVars, applyVars, peerVars, voteHist, ticker, installers,
                    persisted, snapshot, voteCalls, calls, crashes>>
    BY <1>2 DEF vars
  <2> QED BY <2>1, TypeParts DEF PeerTypeOK, HistoryTypeOK,
             termVars, logVars, applyVars, peerVars, voteHist
<1>3. ASSUME NEW i \in Server, ServerStep(i) PROVE TypeOK'
  BY <1>3, ServerStepType
<1>4. ASSUME NEW c \in voteCalls, VoteStep(c) PROVE TypeOK'
  BY <1>4, VoteStepType
<1>5. ASSUME NEW i \in Server, NEW j \in Server, NEW k \in DOMAIN calls[i][j],
             CallStep(i, j, k)
      PROVE  TypeOK'
  <2>1. CASE \/ AppendEntriesStale(i, j, k) \/ AppendEntriesMismatch(i, j, k)
             \/ AppendEntries(i, j, k)
    BY <2>1, AppendEntriesType
  <2>2. CASE \/ ReplyIgnored(i, j, k) \/ ReplyStepDown(i, j, k)
             \/ AppendSucceeded(i, j, k) \/ AppendRefused(i, j, k)
             \/ InstallSucceeded(i, j, k)
    BY <2>2, ReplyStepType
  <2>3. CASE \/ InstallSnapshotEarly(i, j, k) \/ InstallSnapshot(i, j, k)
             \/ CrashInInstall(i, j, k)
    BY <2>3, InstallSnapshotType
  <2> QED BY <1>5, <2>1, <2>2, <2>3 DEF CallStep
<1> QED BY <1>1, <1>2, <1>3, <1>4, <1>5 DEF Next

\* The fields of every peer, its disk and every message keep their types, and
\* the apply routine never computes a negative offset, in every execution:
\* with any number of peers, terms, entries, calls in flight and crashes.
THEOREM TypeCorrect == Spec => [](TypeOK /\ CompactedApplied)
<1>1. Init => TypeOK /\ CompactedApplied
  BY InitType
<1>2. TypeOK /\ CompactedApplied /\ [Next]_vars => (TypeOK /\ CompactedApplied)'
  BY NextType
<1> QED BY <1>1, <1>2, PTL DEF Spec

\* What a peer has compacted away it has delivered or was given: the apply
\* routine never computes a negative offset into rf.log, whatever crashes,
\* installed snapshots and late replies do.
THEOREM CompactedWasApplied == Spec => []CompactedApplied
BY TypeCorrect, PTL

-----------------------------------------------------------------------------
(* PersistedCurrent: no handler leaves a changed field unsaved. *)

\* The saved fields of every peer but i stay as they are.
OthersKept(i) ==
    \A j \in Server \ {i} :
        /\ votedFor'[j] = votedFor[j] /\ currentTerm'[j] = currentTerm[j]
        /\ log'[j] = log[j]
        /\ lastIncludedIndex'[j] = lastIncludedIndex[j]
        /\ lastIncludedTerm'[j] = lastIncludedTerm[j]

\* A peer that saves after changing only its own fields leaves every disk
\* current.
LEMMA PersistOne ==
  ASSUME TypeOK, PersistedCurrent, NEW i \in Server, persist(i), OthersKept(i)
  PROVE  PersistedCurrent'
<1>1. persisted \in [Server -> RaftStates]
  BY DEF TypeOK
<1>2. persisted'[i] = RaftState(i)'
  BY <1>1 DEF persist
<1>3. ASSUME NEW j \in Server \ {i} PROVE persisted'[j] = RaftState(j)'
  <2>1. persisted'[j] = persisted[j]
    BY <1>1 DEF persist
  <2>2. persisted[j] = RaftState(j)
    BY DEF PersistedCurrent
  <2> QED BY <2>1, <2>2 DEF OthersKept, RaftState
<1> QED BY <1>2, <1>3 DEF PersistedCurrent

\* A restart from the saved fields, or from newly saved ones, does too.
LEMMA MakePersisted ==
  ASSUME TypeOK, PersistedCurrent, NEW i \in Server, NEW ps \in RaftStates, Make(i, ps),
         persisted' = [persisted EXCEPT ![i] = ps]
  PROVE  PersistedCurrent'
<1>1. persisted \in [Server -> RaftStates]
  BY DEF TypeOK
<1>2. persisted'[i] = RaftState(i)'
  <2>1. RaftState(i)' = [votedFor |-> ps.votedFor, currentTerm |-> ps.currentTerm,
                         log |-> ps.log, lastIncludedIndex |-> ps.lastIncludedIndex,
                         lastIncludedTerm |-> ps.lastIncludedTerm]
    BY DEF Make, RaftState, TypeOK
  <2>2. ps = [votedFor |-> ps.votedFor, currentTerm |-> ps.currentTerm,
              log |-> ps.log, lastIncludedIndex |-> ps.lastIncludedIndex,
              lastIncludedTerm |-> ps.lastIncludedTerm]
    BY DEF RaftStates
  <2> QED BY <1>1, <2>1, <2>2
<1>3. ASSUME NEW j \in Server \ {i} PROVE persisted'[j] = RaftState(j)'
  <2>1. persisted'[j] = persisted[j]
    BY <1>1
  <2>2. persisted[j] = RaftState(j)
    BY DEF PersistedCurrent
  <2> QED BY <2>1, <2>2 DEF Make, RaftState, TypeOK
<1> QED BY <1>2, <1>3 DEF PersistedCurrent

\* Adopting a term and saving only if it is newer is enough.
LEMMA AdoptPersisted ==
  ASSUME TypeOK, PersistedCurrent, NEW i \in Server, NEW t \in Nat, t >= currentTerm[i],
         AdoptTerm(i, t), UNCHANGED logVars, persistIf(i, t > currentTerm[i])
  PROVE  PersistedCurrent'
<1>1. CASE t > currentTerm[i]
  <2>1. persist(i)
    BY <1>1 DEF persistIf
  <2>2. OthersKept(i)
    BY DEF AdoptTerm, OthersKept, logVars, TypeOK
  <2> QED BY <2>1, <2>2, PersistOne
<1>2. CASE ~(t > currentTerm[i])
  <2>1. t = currentTerm[i]
    BY <1>2 DEF TypeOK
  <2>2. UNCHANGED persisted
    BY <1>2 DEF persistIf
  <2>3. UNCHANGED <<currentTerm, votedFor>>
    <3>1. currentTerm' = [currentTerm EXCEPT ![i] = currentTerm[i]]
      BY <2>1 DEF AdoptTerm
    <3>2. votedFor' = [votedFor EXCEPT ![i] = votedFor[i]]
      BY <1>2 DEF AdoptTerm
    <3> QED BY <3>1, <3>2 DEF TypeOK
  <2> QED BY <2>2, <2>3 DEF PersistedCurrent, RaftState, logVars
<1> QED BY <1>1, <1>2

\* Nothing that is saved changes.
LEMMA NothingPersisted ==
  ASSUME PersistedCurrent, UNCHANGED <<currentTerm, votedFor, logVars, persisted>>
  PROVE  PersistedCurrent'
  BY DEF PersistedCurrent, RaftState, logVars

\* Every step leaves every disk current.
LEMMA PersistedStep ==
  ASSUME TypeOK, PersistedCurrent, [Next]_vars
  PROVE  PersistedCurrent'
<1>1. PeerTypeOK /\ HistoryTypeOK /\ calls \in Links
  BY TypeParts
<1>2. CASE UNCHANGED vars
  BY <1>2, NothingPersisted DEF vars, termVars
<1>3. ASSUME NEW i \in Server, ServerStep(i)
      PROVE  PersistedCurrent'
  <2>1. persisted[i] \in RaftStates /\ persisted = [persisted EXCEPT ![i] = persisted[i]]
    BY DEF TypeOK
  <2>2. CASE doElection(i)
    <3>1. OthersKept(i)
      BY <2>2 DEF doElection, OthersKept, logVars, TypeOK
    <3> QED BY <2>2, <3>1, PersistOne DEF doElection
  <2>3. CASE TickerObserve(i) \/ TickerSend(i) \/ BackgroundApplyRoutine(i)
    BY <2>3, NothingPersisted DEF TickerObserve, TickerSend, BackgroundApplyRoutine, termVars
  <2>4. CASE Crash(i)
    BY <2>1, <2>4, MakePersisted DEF Crash
  <2>5. ASSUME NEW cmd \in Command, Start(i, cmd)
        PROVE  PersistedCurrent'
    <3>1. OthersKept(i)
      BY <2>5 DEF Start, OthersKept, termVars, TypeOK
    <3> QED BY <2>5, <3>1, PersistOne DEF Start
  <2>6. ASSUME NEW cmd \in Command, CrashInStart(i, cmd)
        PROVE  PersistedCurrent'
    BY <2>1, <2>6, MakePersisted DEF CrashInStart
  <2>7. ASSUME NEW n, Snapshot(i, n)
        PROVE  PersistedCurrent'
    <3>1. OthersKept(i)
      BY <2>7 DEF Snapshot, OthersKept, termVars, TypeOK
    <3> QED BY <2>7, <3>1, PersistOne DEF Snapshot
  <2>8. ASSUME NEW n, CrashInSnapshot(i, n)
        PROVE  PersistedCurrent'
    BY <2>1, <2>8, MakePersisted DEF CrashInSnapshot
  <2>9. ASSUME NEW p \in Peers(i), SendInstallSnapshot(i, p)
        PROVE  PersistedCurrent'
    BY <2>9, NothingPersisted DEF SendInstallSnapshot, termVars
  <2> QED BY <1>3, <2>2, <2>3, <2>4, <2>5, <2>6, <2>7, <2>8, <2>9 DEF ServerStep
<1>4. ASSUME NEW c \in voteCalls, VoteStep(c)
      PROVE  PersistedCurrent'
  <2>1. PICK i \in Server : i = c.src
    BY <1>1, VoteCallKinds
  <2>2. PICK j \in Server : j = c.dst
    BY <1>1, VoteCallKinds
  <2>3. CASE RequestVoteStale(c) \/ VoteIgnored(c) \/ VoteCounted(c)
    BY <2>3, NothingPersisted DEF RequestVoteStale, VoteIgnored, VoteCounted, termVars
  <2>4. CASE RequestVote(c)
    <3>1. OthersKept(j)
      BY <2>2, <2>4 DEF RequestVote, OthersKept, logVars, TypeOK
    <3> QED BY <2>2, <2>4, <3>1, PersistOne DEF RequestVote
  <2>5. CASE VoteStepDown(c)
    <3>1. OthersKept(i)
      BY <2>1, <2>5 DEF VoteStepDown, AdoptTerm, OthersKept, logVars, TypeOK
    <3> QED BY <2>1, <2>5, <3>1, PersistOne DEF VoteStepDown
  <2> QED BY <1>4, <2>3, <2>4, <2>5 DEF VoteStep
<1>5. ASSUME NEW i \in Server, NEW j \in Server, NEW k \in DOMAIN calls[i][j],
             CallStep(i, j, k)
      PROVE  PersistedCurrent'
  <2> DEFINE a == calls[i][j][k]
  <2>0. a.term \in Nat
    BY <1>1, CallKinds
  <2>1. CASE \/ AppendEntriesStale(i, j, k) \/ AppendRefused(i, j, k)
             \/ ReplyIgnored(i, j, k) \/ AppendSucceeded(i, j, k)
    BY <2>1, NothingPersisted DEF AppendEntriesStale, AppendRefused, ReplyIgnored,
       AppendSucceeded, termVars
  <2>2. CASE AppendEntriesMismatch(i, j, k)
    BY <2>0, <2>2, AdoptPersisted DEF AppendEntriesMismatch
  <2>3. CASE AppendEntries(i, j, k)
    <3>1. OthersKept(j)
      BY <2>3 DEF AppendEntries, AdoptTerm, OthersKept, TypeOK
    <3> QED BY <2>3, <3>1, PersistOne DEF AppendEntries
  <2>4. CASE InstallSnapshotEarly(i, j, k)
    <3>1. CASE UNCHANGED <<termVars, persisted>>
      BY <2>4, <3>1, NothingPersisted DEF InstallSnapshotEarly, termVars
    <3>2. CASE /\ a.term >= currentTerm[j] /\ AdoptTerm(j, a.term) /\ UNCHANGED logVars
               /\ persistIf(j, a.term > currentTerm[j])
      BY <2>0, <3>2, AdoptPersisted
    <3> QED BY <2>4, <3>1, <3>2 DEF InstallSnapshotEarly
  <2>5. CASE InstallSnapshot(i, j, k)
    <3>1. OthersKept(j)
      BY <2>5 DEF InstallSnapshot, AdoptTerm, OthersKept, TypeOK
    <3> QED BY <2>5, <3>1, PersistOne DEF InstallSnapshot
  <2>6. CASE InstallSucceeded(i, j, k)
    <3>1. OthersKept(i)
      BY <2>6 DEF InstallSucceeded, OthersKept, termVars, logVars
    <3> QED BY <2>6, <3>1, PersistOne DEF InstallSucceeded
  <2>7. CASE ReplyStepDown(i, j, k)
    <3>1. OthersKept(i)
      BY <2>7 DEF ReplyStepDown, AdoptTerm, OthersKept, logVars, TypeOK
    <3> QED BY <2>7, <3>1, PersistOne DEF ReplyStepDown
  <2>8. CASE CrashInInstall(i, j, k)
    <3>1. a \in InstallRequest
      BY <1>1, <2>8, CallKinds DEF CrashInInstall, Installs
    <3> DEFINE ps == [votedFor |-> IF a.term > currentTerm[j] THEN NoVote ELSE votedFor[j],
                      currentTerm |-> a.term, log |-> <<>>,
                      lastIncludedIndex |-> a.lastIncludedIndex,
                      lastIncludedTerm |-> a.lastIncludedTerm]
    <3>2. ps \in RaftStates
      <4>1. /\ a.term \in Nat /\ a.lastIncludedIndex \in Nat /\ a.lastIncludedTerm \in Nat
            /\ votedFor[j] \in Server \cup {NoVote}
        BY <3>1 DEF InstallRequest, TypeOK
      <4> HIDE DEF a
      <4> QED BY <4>1 DEF RaftStates
    <3>3. Make(j, ps) /\ persisted' = [persisted EXCEPT ![j] = ps]
      BY <2>8 DEF CrashInInstall
    <3> HIDE DEF ps
    <3> QED BY <3>2, <3>3, MakePersisted
  <2> QED BY <1>5, <2>1, <2>2, <2>3, <2>4, <2>5, <2>6, <2>7, <2>8 DEF CallStep
<1> QED BY <1>2, <1>3, <1>4, <1>5 DEF Next
-----------------------------------------------------------------------------
(* Steps that are no part of an election. *)

\* What a step may do to the votes without casting or counting one.
Quiet ==
    /\ UNCHANGED <<votes, elected>>
    /\ voteCalls' \subseteq voteCalls
    /\ \A i \in Server :
        /\ currentTerm'[i] >= currentTerm[i]
        /\ currentTerm'[i] = currentTerm[i] => votedFor'[i] = votedFor[i]
        /\ serverState'[i] = "candidate" =>
              /\ serverState[i] = "candidate"
              /\ currentTerm'[i] = currentTerm[i]
              /\ votesReceived'[i] = votesReceived[i]
              /\ voters'[i] = voters[i]

\* Votes stay on record as long as terms only grow and votes are kept in them.
LEMMA RecordKept ==
  ASSUME TypeOK, TypeOK', VotesRecorded, UNCHANGED votes,
         \A i \in Server : /\ currentTerm'[i] >= currentTerm[i]
                           /\ currentTerm'[i] = currentTerm[i] => \/ votedFor'[i] = votedFor[i]
                                                                  \/ votedFor[i] = NoVote
  PROVE  VotesRecorded'
<1>1. /\ currentTerm \in [Server -> Nat] /\ currentTerm' \in [Server -> Nat]
      /\ votes \subseteq Server \X Nat \X Server
  BY DEF TypeOK
<1>2. ASSUME NEW v \in votes
      PROVE  /\ v[2] <= currentTerm'[v[1]]
             /\ v[2] = currentTerm'[v[1]] => votedFor'[v[1]] = v[3]
  <2>1. PICK i \in Server, t \in Nat, x \in Server : i = v[1] /\ t = v[2] /\ x = v[3]
    BY <1>1
  <2>2. t <= currentTerm[i] /\ (t = currentTerm[i] => votedFor[i] = x)
    BY <2>1 DEF VotesRecorded
  <2>3. currentTerm[i] \in Nat /\ currentTerm'[i] \in Nat
    BY <1>1
  <2>4. t <= currentTerm'[i]
    BY <2>2, <2>3
  <2>5. t = currentTerm'[i] => t = currentTerm[i]
    BY <2>2, <2>3
  <2>6. x # NoVote
    BY ServerAssumption
  <2> QED BY <2>1, <2>2, <2>4, <2>5, <2>6
<1> QED BY <1>2 DEF VotesRecorded

\* A call in flight is never of a term its caller has yet to reach.
LEMMA CallTermsKept ==
  ASSUME TypeOK, TypeOK', CallsRecorded,
         \A i \in Server : currentTerm'[i] >= currentTerm[i]
  PROVE  \A c \in voteCalls : c.term <= currentTerm'[c.src]
<1>1. /\ currentTerm \in [Server -> Nat] /\ currentTerm' \in [Server -> Nat]
      /\ voteCalls \subseteq VoteCall
  BY DEF TypeOK
<1>2. ASSUME NEW c \in voteCalls PROVE c.term <= currentTerm'[c.src]
  <2>1. PICK i \in Server, t \in Nat : i = c.src /\ t = c.term
    BY <1>1 DEF VoteCall
  <2>2. t <= currentTerm[i]
    BY <2>1 DEF CallsRecorded
  <2> QED BY <1>1, <2>1, <2>2
<1> QED BY <1>2

\* A quiet step keeps the election invariant.
LEMMA QuietStep ==
  ASSUME TypeOK, TypeOK', ElectionInv, Quiet
  PROVE  ElectionInv'
<1>1. votes' = votes /\ elected' = elected /\ voteCalls' \subseteq voteCalls
  BY DEF Quiet
<1>2. VotesRecorded'
  BY RecordKept DEF ElectionInv, Quiet
<1>3. VotesFunctional' /\ OneCallPerVoter' /\ ElectedByMajority'
  BY <1>1 DEF ElectionInv, VotesFunctional, OneCallPerVoter, ElectedByMajority
<1>4. CallsRecorded'
  <2>1. \A c \in voteCalls : c.term <= currentTerm'[c.src]
    BY CallTermsKept DEF ElectionInv, Quiet
  <2> QED BY <1>1, <2>1 DEF ElectionInv, CallsRecorded
<1>5. CountedOnce'
  BY <1>1 DEF ElectionInv, CountedOnce, Quiet
<1> QED BY <1>2, <1>3, <1>4, <1>5 DEF ElectionInv

\* Adopting a term is quiet.
LEMMA AdoptQuiet ==
  ASSUME TypeOK, NEW i \in Server, NEW t \in Nat, t >= currentTerm[i], AdoptTerm(i, t),
         UNCHANGED voteHist, voteCalls' \subseteq voteCalls
  PROVE  Quiet
<1>1. /\ currentTerm \in [Server -> Nat]
      /\ votedFor \in [Server -> Server \cup {NoVote}]
      /\ serverState \in [Server -> {"follower", "candidate", "leader"}]
  BY DEF TypeOK
<1>2. ASSUME NEW j \in Server, j # i
      PROVE  /\ currentTerm'[j] = currentTerm[j] /\ votedFor'[j] = votedFor[j]
             /\ serverState'[j] = serverState[j]
  BY <1>1, <1>2 DEF AdoptTerm
<1>3. /\ currentTerm'[i] = t /\ serverState'[i] = "follower"
      /\ t = currentTerm[i] => votedFor'[i] = votedFor[i]
  BY <1>1 DEF AdoptTerm
<1>4. \A j \in Server : currentTerm[j] \in Nat
  BY <1>1
<1> QED BY <1>2, <1>3, <1>4 DEF Quiet, voteHist

\* So is a restart that does not go back.
LEMMA MakeQuiet ==
  ASSUME TypeOK, NEW i \in Server, NEW ps \in RaftStates, Make(i, ps),
         ps.currentTerm >= currentTerm[i],
         ps.currentTerm = currentTerm[i] => ps.votedFor = votedFor[i]
  PROVE  Quiet
<1>1. /\ currentTerm \in [Server -> Nat]
      /\ votedFor \in [Server -> Server \cup {NoVote}]
      /\ serverState \in [Server -> {"follower", "candidate", "leader"}]
      /\ voters \in [Server -> SUBSET Server]
      /\ votesReceived \in [Server -> Nat]
  BY DEF TypeOK
<1>2. ASSUME NEW j \in Server, j # i
      PROVE  /\ currentTerm'[j] = currentTerm[j] /\ votedFor'[j] = votedFor[j]
             /\ serverState'[j] = serverState[j]
             /\ voters'[j] = voters[j] /\ votesReceived'[j] = votesReceived[j]
  BY <1>1, <1>2 DEF Make
<1>3. /\ currentTerm'[i] = ps.currentTerm /\ serverState'[i] = "follower"
      /\ votedFor'[i] = ps.votedFor
  BY <1>1 DEF Make
<1>4. \A j \in Server : currentTerm[j] \in Nat
  BY <1>1
<1> QED BY <1>2, <1>3, <1>4 DEF Quiet, Make

\* A restart from a current disk goes nowhere.
LEMMA RestartQuiet ==
  ASSUME TypeOK, PersistedCurrent, NEW i \in Server, Make(i, persisted[i])
  PROVE  Quiet
<1>1. persisted[i] \in RaftStates /\ currentTerm[i] \in Nat
  BY DEF TypeOK
<1>2. /\ persisted[i].currentTerm = currentTerm[i]
      /\ persisted[i].votedFor = votedFor[i]
  <2>1. persisted[i] = RaftState(i)
    BY DEF PersistedCurrent
  <2> QED BY <2>1 DEF RaftState
<1> QED BY <1>1, <1>2, MakeQuiet

\* Nothing about the votes changes.
LEMMA NothingVoted ==
  ASSUME TypeOK, UNCHANGED <<termVars, voteHist>>, voteCalls' \subseteq voteCalls
  PROVE  Quiet
<1>1. /\ currentTerm' = currentTerm /\ votedFor' = votedFor /\ serverState' = serverState
      /\ votesReceived' = votesReceived /\ voters' = voters
      /\ votes' = votes /\ elected' = elected
  BY DEF termVars, voteHist
<1>2. \A i \in Server : currentTerm[i] \in Nat
  BY DEF TypeOK
<1>3. \A i \in Server : currentTerm[i] >= currentTerm[i]
  BY <1>2
<1> QED BY <1>1, <1>3 DEF Quiet

\* Every step of a peer on its own but doElection is quiet.
LEMMA ServerQuiet ==
  ASSUME TypeOK, PersistedCurrent, NEW i \in Server, ServerStep(i)
  PROVE  doElection(i) \/ Quiet
<1>1. CASE TickerObserve(i) \/ TickerSend(i) \/ BackgroundApplyRoutine(i)
  BY <1>1, NothingVoted DEF TickerObserve, TickerSend, BackgroundApplyRoutine
<1>2. CASE Crash(i)
  BY <1>2, RestartQuiet DEF Crash
<1>3. ASSUME NEW cmd \in Command, Start(i, cmd) PROVE Quiet
  BY <1>3, NothingVoted DEF Start
<1>4. ASSUME NEW cmd \in Command, CrashInStart(i, cmd) PROVE Quiet
  BY <1>4, RestartQuiet DEF CrashInStart
<1>5. ASSUME NEW n, Snapshot(i, n) PROVE Quiet
  BY <1>5, NothingVoted DEF Snapshot
<1>6. ASSUME NEW n, CrashInSnapshot(i, n) PROVE Quiet
  BY <1>6, RestartQuiet DEF CrashInSnapshot
<1>7. ASSUME NEW p, SendInstallSnapshot(i, p) PROVE Quiet
  BY <1>7, NothingVoted DEF SendInstallSnapshot
<1> QED BY <1>1, <1>2, <1>3, <1>4, <1>5, <1>6, <1>7 DEF ServerStep

\* Every step on an AppendEntries or InstallSnapshot call is quiet.
LEMMA CallQuiet ==
  ASSUME TypeOK, NEW i \in Server, NEW j \in Server, NEW k \in DOMAIN calls[i][j],
         CallStep(i, j, k)
  PROVE  Quiet
<1> DEFINE a == calls[i][j][k]
<1>0. PeerTypeOK /\ HistoryTypeOK /\ calls \in Links
  BY TypeParts
<1>1. a.term \in Nat /\ currentTerm[i] \in Nat /\ currentTerm[j] \in Nat
  BY <1>0, CallKinds DEF PeerTypeOK
<1>2. CASE \/ AppendEntriesStale(i, j, k) \/ AppendRefused(i, j, k)
           \/ ReplyIgnored(i, j, k) \/ AppendSucceeded(i, j, k)
           \/ InstallSucceeded(i, j, k)
  BY <1>2, NothingVoted DEF AppendEntriesStale, AppendRefused, ReplyIgnored,
     AppendSucceeded, InstallSucceeded
<1>3. CASE AppendEntriesMismatch(i, j, k) \/ AppendEntries(i, j, k) \/ InstallSnapshot(i, j, k)
  <2>1. /\ a.term >= currentTerm[j] /\ AdoptTerm(j, a.term)
        /\ UNCHANGED <<voteHist, voteCalls>>
    BY <1>3 DEF AppendEntriesMismatch, AppendEntries, InstallSnapshot, Installs
  <2> QED BY <1>1, <2>1, AdoptQuiet
<1>4. CASE InstallSnapshotEarly(i, j, k)
  <2>1. UNCHANGED <<voteHist, voteCalls>>
    BY <1>4 DEF InstallSnapshotEarly
  <2>2. CASE UNCHANGED termVars
    BY <2>1, <2>2, NothingVoted
  <2>3. CASE a.term >= currentTerm[j] /\ AdoptTerm(j, a.term)
    BY <1>1, <2>1, <2>3, AdoptQuiet
  <2> QED BY <1>4, <2>2, <2>3 DEF InstallSnapshotEarly
<1>5. CASE ReplyStepDown(i, j, k)
  <2>1. a.replyTerm \in Nat
    BY <1>0, <1>5, CallKinds DEF ReplyStepDown
  <2>2. /\ a.replyTerm > currentTerm[i] /\ AdoptTerm(i, a.replyTerm)
        /\ UNCHANGED <<voteHist, voteCalls>>
    BY <1>5 DEF ReplyStepDown
  <2>3. a.replyTerm >= currentTerm[i]
    BY <1>1, <2>1, <2>2
  <2> QED BY <2>1, <2>2, <2>3, AdoptQuiet
<1>6. CASE CrashInInstall(i, j, k)
  <2>1. a \in InstallRequest /\ a.term >= currentTerm[j]
    BY <1>0, <1>6, CallKinds DEF CrashInInstall, Installs
  <2> DEFINE ps == [votedFor |-> IF a.term > currentTerm[j] THEN NoVote ELSE votedFor[j],
                    currentTerm |-> a.term, log |-> <<>>,
                    lastIncludedIndex |-> a.lastIncludedIndex,
                    lastIncludedTerm |-> a.lastIncludedTerm]
  <2>2. /\ ps \in RaftStates
        /\ ps.currentTerm = a.term
        /\ a.term = currentTerm[j] => ps.votedFor = votedFor[j]
    <3>1. /\ a.lastIncludedIndex \in Nat /\ a.lastIncludedTerm \in Nat
          /\ votedFor[j] \in Server \cup {NoVote}
      BY <2>1 DEF InstallRequest, TypeOK
    <3> HIDE DEF a
    <3> QED BY <1>1, <3>1 DEF RaftStates
  <2>3. Make(j, ps)
    BY <1>6 DEF CrashInInstall
  <2> HIDE DEF ps
  <2> QED BY <2>1, <2>2, <2>3, MakeQuiet
<1> QED BY <1>2, <1>3, <1>4, <1>5, <1>6 DEF CallStep
-----------------------------------------------------------------------------
(* The steps of an election. *)

\* A call answered, by a reply that is lost or that names no vote not cast.
LEMMA AnsweredCalls ==
  ASSUME HistoryTypeOK, ElectionInv, NEW c \in voteCalls, c.kind = "request",
         NEW t, NEW g \in BOOLEAN, AnswerVote(c, VoteReply(c, t, g)),
         votes \subseteq votes', g => <<c.dst, c.term, c.src>> \in votes',
         \A d \in voteCalls : d.term <= currentTerm'[d.src]
  PROVE  /\ CallsRecorded'
         /\ OneCallPerVoter'
         /\ \A d \in voteCalls' : \E e \in voteCalls :
               d.src = e.src /\ d.dst = e.dst /\ d.term = e.term
<1> DEFINE r == VoteReply(c, t, g)
<1>1. r.kind = "reply" /\ r.src = c.src /\ r.dst = c.dst /\ r.term = c.term /\ r.granted = g
  BY DEF VoteReply
<1>2. ASSUME NEW d \in voteCalls' PROVE d = r \/ (d \in voteCalls /\ d # c) 
  BY DEF AnswerVote
<1> HIDE DEF r
<1>3. \A d \in voteCalls' : \E e \in voteCalls :
         d.src = e.src /\ d.dst = e.dst /\ d.term = e.term
  BY <1>1, <1>2
<1>4. CallsRecorded'
  <2>1. ASSUME NEW d \in voteCalls'
        PROVE  /\ d.term <= currentTerm'[d.src]
               /\ d.kind = "reply" /\ d.granted => <<d.dst, d.term, d.src>> \in votes'
    <3>1. CASE d = r
      BY <1>1, <3>1
    <3>2. CASE d \in voteCalls
      BY <3>2 DEF ElectionInv, CallsRecorded
    <3> QED BY <1>2, <3>1, <3>2
  <2> QED BY <2>1 DEF CallsRecorded
<1>5. OneCallPerVoter'
  <2>1. ASSUME NEW d \in voteCalls', NEW e \in voteCalls',
               d.src = e.src, d.dst = e.dst, d.term = e.term
        PROVE  d = e
    <3>1. \A x \in voteCalls : x.src = c.src /\ x.dst = c.dst /\ x.term = c.term => x = c
      BY DEF ElectionInv, OneCallPerVoter
    <3>2. d \in voteCalls /\ e \in voteCalls => d = e
      BY <2>1 DEF ElectionInv, OneCallPerVoter
    <3> QED BY <1>1, <1>2, <2>1, <3>1, <3>2
  <2> QED BY <2>1 DEF OneCallPerVoter
<1> QED BY <1>3, <1>4, <1>5

\* More votes cast take no election away.
LEMMA MoreVotes ==
  ASSUME ElectedByMajority, votes \subseteq votes', UNCHANGED elected
  PROVE  ElectedByMajority'
<1>1. ASSUME NEW e \in elected
      PROVE  \E Q \in SUBSET Server : /\ IsMajority(Cardinality(Q))
                                      /\ \A p \in Q : <<p, e[1], e[2]>> \in votes'
  <2>1. PICK Q \in SUBSET Server : /\ IsMajority(Cardinality(Q))
                                   /\ \A p \in Q : <<p, e[1], e[2]>> \in votes
    BY DEF ElectedByMajority
  <2> QED BY <2>1
<1> QED BY <1>1 DEF ElectedByMajority

\* A voter that casts a vote for x in the term t it is now in, not having cast
\* one in that term for anyone else, keeps the record of the votes.
LEMMA CastVote ==
  ASSUME TypeOK, TypeOK', ElectionInv, NEW j \in Server, NEW t \in Nat, NEW x \in Server,
         votes' = votes \cup {<<j, t, x>>},
         t >= currentTerm[j], t = currentTerm[j] => votedFor[j] \in {NoVote, x},
         currentTerm' = [currentTerm EXCEPT ![j] = t],
         votedFor' = [votedFor EXCEPT ![j] = x]
  PROVE  VotesRecorded' /\ VotesFunctional'
<1>1. /\ currentTerm \in [Server -> Nat]
      /\ votedFor \in [Server -> Server \cup {NoVote}]
      /\ votes \subseteq Server \X Nat \X Server
  BY DEF TypeOK
<1>2. /\ currentTerm'[j] = t /\ votedFor'[j] = x /\ currentTerm[j] \in Nat
      /\ \A i \in Server : i # j => currentTerm'[i] = currentTerm[i] /\ votedFor'[i] = votedFor[i]
  BY <1>1
<1>3. ASSUME NEW v \in votes
      PROVE  v[1] = j => v[2] <= t /\ (v[2] = t => v[3] = x)
  <2>1. PICK i \in Server, u \in Nat, y \in Server : i = v[1] /\ u = v[2] /\ y = v[3]
    BY <1>1
  <2>2. u <= currentTerm[i] /\ (u = currentTerm[i] => votedFor[i] = y)
    BY <2>1 DEF ElectionInv, VotesRecorded
  <2>3. y # NoVote
    BY ServerAssumption
  <2>4. i = j => u <= t
    BY <1>2, <2>2
  <2>5. i = j /\ u = t => t = currentTerm[j]
    BY <1>2, <2>2
  <2> QED BY <2>1, <2>2, <2>3, <2>4, <2>5
<1>4. VotesRecorded'
  <2>1. ASSUME NEW v \in votes'
        PROVE  /\ v[2] <= currentTerm'[v[1]]
               /\ v[2] = currentTerm'[v[1]] => votedFor'[v[1]] = v[3]
    <3>1. CASE v = <<j, t, x>>
      BY <1>2, <3>1
    <3>2. CASE v \in votes /\ v[1] = j
      BY <1>2, <1>3, <3>2
    <3>3. CASE v \in votes /\ v[1] # j
      <4>1. v[1] \in Server
        BY <1>1, <3>3
      <4> QED BY <1>2, <3>3, <4>1 DEF ElectionInv, VotesRecorded
    <3> QED BY <3>1, <3>2, <3>3
  <2> QED BY <2>1 DEF VotesRecorded
<1>5. VotesFunctional'
  <2>1. ASSUME NEW v \in votes', NEW w \in votes', v[1] = w[1], v[2] = w[2]
        PROVE  v[3] = w[3]
    <3>1. CASE v \in votes /\ w \in votes
      BY <2>1, <3>1 DEF ElectionInv, VotesFunctional
    <3>2. CASE v = <<j, t, x>>
      BY <1>3, <2>1, <3>2
    <3>3. CASE w = <<j, t, x>>
      BY <1>3, <2>1, <3>3
    <3> QED BY <3>1, <3>2, <3>3
  <2> QED BY <2>1 DEF VotesFunctional
<1> QED BY <1>4, <1>5

\* A candidate that starts an election.
LEMMA doElectionInv ==
  ASSUME TypeOK, TypeOK', ElectionInv, NEW i \in Server, doElection(i)
  PROVE  ElectionInv'
<1>0. PeerTypeOK /\ HistoryTypeOK /\ voteCalls \subseteq VoteCall
  BY TypeParts DEF TypeOK
<1>1. PICK t \in Nat : t = currentTerm[i] + 1
  BY <1>0 DEF PeerTypeOK
<1>2. t > currentTerm[i] /\ t >= currentTerm[i] /\ t # currentTerm[i] /\ currentTerm[i] \in Nat
  <2>1. currentTerm[i] \in Nat
    BY DEF TypeOK
  <2> QED BY <1>1, <2>1
<1>3. /\ currentTerm' = [currentTerm EXCEPT ![i] = t]
      /\ votedFor' = [votedFor EXCEPT ![i] = i]
      /\ votes' = votes \cup {<<i, t, i>>}
      /\ elected' = elected
  BY <1>1 DEF doElection
<1>4. VotesRecorded' /\ VotesFunctional'
  BY <1>2, <1>3, CastVote
<1>5. ElectedByMajority'
  BY <1>3, MoreVotes DEF ElectionInv
<1>6. /\ currentTerm'[i] = t
      /\ \A j \in Server : j # i => currentTerm'[j] = currentTerm[j]
  BY <1>3 DEF TypeOK
<1>7. \A c \in voteCalls : c.term <= currentTerm'[c.src]
  <2>1. \A j \in Server : currentTerm[j] \in Nat
    BY DEF TypeOK
  <2>2. \A j \in Server : currentTerm'[j] >= currentTerm[j]
    BY <1>2, <1>6, <2>1
  <2> QED BY <2>2, CallTermsKept DEF ElectionInv
<1>8. PICK reached \in SUBSET (Server \ {i}) :
        voteCalls' = voteCalls \cup
             {[kind |-> "request", src |-> i, dst |-> p, term |-> t,
               lastLogIndex |-> lastLogIndex(i),
               lastLogTerm |-> lastLogTerm(i)] : p \in reached}
  BY <1>1 DEF doElection, Kept, Peers
<1>9. ASSUME NEW d \in voteCalls', d \notin voteCalls
      PROVE  /\ d.kind = "request" /\ d.src = i /\ d.term = t /\ d.dst # i
             /\ d = [kind |-> "request", src |-> i, dst |-> d.dst, term |-> t,
                     lastLogIndex |-> lastLogIndex(i), lastLogTerm |-> lastLogTerm(i)]
  <2>1. PICK p \in Server \ {i} :
          d = [kind |-> "request", src |-> i, dst |-> p, term |-> t,
               lastLogIndex |-> lastLogIndex(i), lastLogTerm |-> lastLogTerm(i)]
    BY <1>8, <1>9
  <2> QED BY <2>1
<1>10. ASSUME NEW d \in voteCalls, d.src = i PROVE d.term # t
  <2>1. d.term <= currentTerm[i] /\ d.term \in Nat
    BY <1>0, <1>10, VoteCallKinds DEF ElectionInv, CallsRecorded
  <2> QED BY <1>2, <2>1
<1>11. CallsRecorded'
  <2>1. ASSUME NEW d \in voteCalls'
        PROVE  /\ d.term <= currentTerm'[d.src]
               /\ d.kind = "reply" /\ d.granted => <<d.dst, d.term, d.src>> \in votes'
    <3>1. CASE d \in voteCalls
      BY <1>3, <1>7, <3>1 DEF ElectionInv, CallsRecorded
    <3>2. CASE d \notin voteCalls
      BY <1>6, <1>9, <3>2
    <3> QED BY <3>1, <3>2
  <2> QED BY <2>1 DEF CallsRecorded
<1>12. OneCallPerVoter'
  <2>1. ASSUME NEW d \in voteCalls', NEW e \in voteCalls',
               d.src = e.src, d.dst = e.dst, d.term = e.term
        PROVE  d = e
    <3>1. CASE d \in voteCalls /\ e \in voteCalls
      BY <2>1, <3>1 DEF ElectionInv, OneCallPerVoter
    <3>2. CASE d \notin voteCalls
      BY <1>9, <1>10, <2>1, <3>2
    <3>3. CASE e \notin voteCalls
      BY <1>9, <1>10, <2>1, <3>3
    <3> QED BY <3>1, <3>2, <3>3
  <2> QED BY <2>1 DEF OneCallPerVoter
<1>13. CountedOnce'
  <2>1. ASSUME NEW j \in Server, serverState'[j] = "candidate"
        PROVE  /\ votesReceived'[j] = Cardinality(voters'[j])
               /\ \A p \in voters'[j] : <<p, currentTerm'[j], j>> \in votes'
               /\ \A c \in voteCalls' :
                     c.src = j /\ c.term = currentTerm'[j] => c.dst \notin voters'[j]
    <3>1. CASE j = i
      <4>1. votesReceived'[i] = 1 /\ voters'[i] = {i}
        BY DEF doElection, TypeOK
      <4>2. Cardinality({i}) = 1
        BY FS_Singleton
      <4> QED BY <1>3, <1>6, <1>9, <1>10, <3>1, <4>1, <4>2
    <3>2. CASE j # i
      <4>1. /\ votesReceived'[j] = votesReceived[j] /\ voters'[j] = voters[j]
            /\ serverState'[j] = serverState[j]
        BY <3>2 DEF doElection, TypeOK
      <4>2. \A c \in voteCalls' : c.src = j => c \in voteCalls
        BY <1>9, <3>2
      <4> QED BY <1>3, <1>6, <2>1, <3>2, <4>1, <4>2 DEF ElectionInv, CountedOnce
    <3> QED BY <3>1, <3>2
  <2> QED BY <2>1 DEF CountedOnce
<1> QED BY <1>4, <1>5, <1>11, <1>12, <1>13 DEF ElectionInv

\* A vote refused to a stale candidate.
LEMMA RequestVoteStaleInv ==
  ASSUME TypeOK, TypeOK', ElectionInv, NEW c \in voteCalls, RequestVoteStale(c)
  PROVE  ElectionInv'
<1>0. HistoryTypeOK
  BY TypeParts
<1>1. /\ currentTerm' = currentTerm /\ votedFor' = votedFor /\ serverState' = serverState
      /\ votesReceived' = votesReceived /\ voters' = voters
      /\ votes' = votes /\ elected' = elected
  BY DEF RequestVoteStale, termVars, voteHist
<1>2. VotesRecorded' /\ VotesFunctional' /\ ElectedByMajority'
  BY <1>1 DEF ElectionInv, VotesRecorded, VotesFunctional, ElectedByMajority
<1>3. \A d \in voteCalls : d.term <= currentTerm'[d.src]
  BY <1>1 DEF ElectionInv, CallsRecorded
<1>4. /\ CallsRecorded' /\ OneCallPerVoter'
      /\ \A d \in voteCalls' : \E e \in voteCalls :
            d.src = e.src /\ d.dst = e.dst /\ d.term = e.term
  BY <1>0, <1>1, <1>3, AnsweredCalls DEF RequestVoteStale
<1>5. CountedOnce'
  BY <1>1, <1>4 DEF ElectionInv, CountedOnce
<1> QED BY <1>2, <1>4, <1>5 DEF ElectionInv

\* A vote granted or refused.
LEMMA RequestVoteInv ==
  ASSUME TypeOK, TypeOK', ElectionInv, NEW c \in voteCalls, RequestVote(c)
  PROVE  ElectionInv'
<1>0. HistoryTypeOK
  BY TypeParts
<1>1. PICK i \in Server, j \in Server, t \in Nat : i = c.src /\ j = c.dst /\ t = c.term
  BY <1>0, VoteCallKinds
<1> DEFINE voted == IF t > currentTerm[j] THEN NoVote ELSE votedFor[j]
           grant == Grants(j, c, voted)
<1>2. /\ c.kind = "request" /\ t >= currentTerm[j]
      /\ currentTerm' = [currentTerm EXCEPT ![j] = t]
      /\ serverState' = [serverState EXCEPT ![j] =
                            IF t > currentTerm[j] THEN "follower" ELSE serverState[j]]
      /\ votedFor' = [votedFor EXCEPT ![j] = IF grant THEN i ELSE voted]
      /\ votes' = IF grant THEN votes \cup {<<j, t, i>>} ELSE votes
      /\ AnswerVote(c, VoteReply(c, t, grant))
      /\ votesReceived' = votesReceived /\ voters' = voters /\ elected' = elected
  BY <1>1 DEF RequestVote
<1>3. grant \in BOOLEAN /\ (grant => voted \in {NoVote, i})
  BY <1>1 DEF Grants, UpToDate
<1>4. /\ currentTerm[j] \in Nat /\ currentTerm'[j] = t
      /\ \A p \in Server : p # j => currentTerm'[p] = currentTerm[p]
      /\ \A p \in Server : p # j => votedFor'[p] = votedFor[p]
      /\ \A p \in Server : p # j => serverState'[p] = serverState[p]
      /\ votedFor'[j] = IF grant THEN i ELSE voted
      /\ serverState'[j] = IF t > currentTerm[j] THEN "follower" ELSE serverState[j]
  BY <1>2 DEF TypeOK
<1> HIDE DEF grant
<1>5. VotesRecorded' /\ VotesFunctional'
  <2>1. CASE grant
    <3>1. t = currentTerm[j] => votedFor[j] \in {NoVote, i}
      BY <1>3, <1>4, <2>1
    <3> QED BY <1>2, <2>1, <3>1, CastVote
  <2>2. CASE ~grant
    <3>1. votes' = votes /\ votedFor'[j] = voted
      BY <1>2, <1>4, <2>2
    <3>2. \A p \in Server : currentTerm[p] \in Nat
      BY DEF TypeOK
    <3>3. \A p \in Server : /\ currentTerm'[p] >= currentTerm[p]
                            /\ currentTerm'[p] = currentTerm[p] => votedFor'[p] = votedFor[p]
      BY <1>2, <1>4, <3>1, <3>2
    <3>4. VotesRecorded'
      BY <3>1, <3>3, RecordKept DEF ElectionInv
    <3> QED BY <3>1, <3>4 DEF ElectionInv, VotesFunctional
  <2> QED BY <2>1, <2>2
<1>6. votes \subseteq votes' /\ (grant => <<c.dst, c.term, c.src>> \in votes')
  BY <1>1, <1>2
<1>7. ElectedByMajority'
  BY <1>2, <1>6, MoreVotes DEF ElectionInv
<1>8. \A d \in voteCalls : d.term <= currentTerm'[d.src]
  <2>1. \A p \in Server : currentTerm[p] \in Nat
    BY DEF TypeOK
  <2>2. \A p \in Server : currentTerm'[p] >= currentTerm[p]
    BY <1>2, <1>4, <2>1
  <2> QED BY <2>2, CallTermsKept DEF ElectionInv
<1>9. /\ CallsRecorded' /\ OneCallPerVoter'
      /\ \A d \in voteCalls' : \E e \in voteCalls :
            d.src = e.src /\ d.dst = e.dst /\ d.term = e.term
  BY <1>0, <1>2, <1>3, <1>6, <1>8, AnsweredCalls
<1>10. CountedOnce'
  <2>1. ASSUME NEW p \in Server, serverState'[p] = "candidate"
        PROVE  serverState[p] = "candidate" /\ currentTerm'[p] = currentTerm[p]
    BY <1>2, <1>4, <2>1
  <2> QED BY <1>2, <1>6, <1>9, <2>1 DEF ElectionInv, CountedOnce
<1> QED BY <1>5, <1>7, <1>9, <1>10 DEF ElectionInv

\* A vote counted, which may decide the election.
LEMMA VoteCountedInv ==
  ASSUME TypeOK, TypeOK', ElectionInv, NEW c \in voteCalls, VoteCounted(c)
  PROVE  ElectionInv'
<1>0. HistoryTypeOK
  BY TypeParts
<1>1. PICK i \in Server, p \in Server, t \in Nat : i = c.src /\ p = c.dst /\ t = c.term
  BY <1>0, VoteCallKinds
<1>2. /\ c.kind = "reply" /\ c.granted /\ t = currentTerm[i]
      /\ serverState[i] = "candidate"
      /\ currentTerm' = currentTerm /\ votedFor' = votedFor /\ votes' = votes
      /\ voteCalls' = voteCalls \ {c}
  BY <1>1 DEF VoteCounted, Voting
<1>3. /\ votesReceived' = [votesReceived EXCEPT ![i] = votesReceived[i] + 1]
      /\ voters' = [voters EXCEPT ![i] = voters[i] \cup {p}]
  BY <1>1 DEF VoteCounted
<1>4. /\ votesReceived'[i] = votesReceived[i] + 1 /\ voters'[i] = voters[i] \cup {p}
      /\ \A q \in Server : q # i => votesReceived'[q] = votesReceived[q]
      /\ \A q \in Server : q # i => voters'[q] = voters[q]
  BY <1>3 DEF TypeOK
<1>5. /\ votesReceived[i] = Cardinality(voters[i])
      /\ \A q \in voters[i] : <<q, t, i>> \in votes
      /\ p \notin voters[i]
  BY <1>1, <1>2 DEF ElectionInv, CountedOnce
<1>6. <<p, t, i>> \in votes
  BY <1>1, <1>2 DEF ElectionInv, CallsRecorded
<1>7. /\ votesReceived'[i] = Cardinality(voters'[i])
      /\ \A q \in voters'[i] : <<q, t, i>> \in votes
      /\ voters'[i] \in SUBSET Server
  <2>1. voters[i] \in SUBSET Server
    BY DEF TypeOK
  <2>2. IsFiniteSet(voters[i])
    BY <2>1, FS_Subset, ServerAssumption
  <2>3. Cardinality(voters[i] \cup {p}) = Cardinality(voters[i]) + 1
    BY <1>5, <2>2, FS_AddElement
  <2> QED BY <1>4, <1>5, <1>6, <2>1, <2>3
<1>8. VotesRecorded' /\ VotesFunctional' /\ CallsRecorded' /\ OneCallPerVoter'
  <2>1. VotesRecorded' /\ VotesFunctional'
    BY <1>2 DEF ElectionInv, VotesRecorded, VotesFunctional
  <2>2. CallsRecorded'
    BY <1>2 DEF ElectionInv, CallsRecorded
  <2>3. OneCallPerVoter'
    BY <1>2 DEF ElectionInv, OneCallPerVoter
  <2> QED BY <2>1, <2>2, <2>3
<1>9. CountedOnce'
  <2>1. ASSUME NEW q \in Server, serverState'[q] = "candidate"
        PROVE  /\ votesReceived'[q] = Cardinality(voters'[q])
               /\ \A v \in voters'[q] : <<v, currentTerm'[q], q>> \in votes'
               /\ \A d \in voteCalls' :
                     d.src = q /\ d.term = currentTerm'[q] => d.dst \notin voters'[q]
    <3>1. CASE q = i
      <4>1. ASSUME NEW d \in voteCalls', d.src = i, d.term = t PROVE d.dst \notin voters'[i]
        <5>1. d \in voteCalls /\ d # c
          BY <1>2
        <5>2. d.dst \notin voters[i]
          BY <1>2, <4>1, <5>1 DEF ElectionInv, CountedOnce
        <5>3. d.dst # p
          BY <1>1, <4>1, <5>1 DEF ElectionInv, OneCallPerVoter
        <5> QED BY <1>4, <5>2, <5>3
      <4> QED BY <1>2, <1>7, <3>1, <4>1
    <3>2. CASE q # i
      <4>1. serverState[q] = "candidate"
        <5>1. \/ serverState' = [serverState EXCEPT ![i] = "leader"]
              \/ serverState' = serverState
          BY <1>1 DEF VoteCounted
        <5>2. serverState'[q] = serverState[q]
          BY <3>2, <5>1 DEF TypeOK
        <5> QED BY <2>1, <5>2
      <4> QED BY <1>2, <1>4, <3>2, <4>1 DEF ElectionInv, CountedOnce
    <3> QED BY <3>1, <3>2
  <2> QED BY <2>1 DEF CountedOnce
<1>10. ElectedByMajority'
  <2>1. \A e \in elected : \E Q \in SUBSET Server :
           IsMajority(Cardinality(Q)) /\ \A v \in Q : <<v, e[1], e[2]>> \in votes'
    BY <1>2 DEF ElectionInv, ElectedByMajority
  <2>2. CASE IsMajority(votesReceived[i] + 1)
    <3>1. elected' = elected \cup {<<t, i>>}
      BY <1>1, <1>2, <2>2 DEF VoteCounted
    <3>2. /\ voters'[i] \in SUBSET Server
          /\ IsMajority(Cardinality(voters'[i]))
          /\ \A v \in voters'[i] : <<v, t, i>> \in votes'
      BY <1>2, <1>4, <1>7, <2>2
    <3> QED BY <2>1, <3>1, <3>2 DEF ElectedByMajority
  <2>3. CASE ~IsMajority(votesReceived[i] + 1)
    <3>1. elected' = elected
      BY <1>1, <2>3 DEF VoteCounted
    <3> QED BY <2>1, <3>1 DEF ElectedByMajority
  <2> QED BY <2>2, <2>3
<1> QED BY <1>8, <1>9, <1>10 DEF ElectionInv

\* Every step keeps the election invariant.
LEMMA ElectionStep ==
  ASSUME TypeOK, TypeOK', PersistedCurrent, ElectionInv, [Next]_vars
  PROVE  ElectionInv'
<1>0. HistoryTypeOK
  BY TypeParts
<1>1. CASE UNCHANGED vars
  <2>1. UNCHANGED <<termVars, voteHist>> /\ voteCalls' \subseteq voteCalls
    BY <1>1 DEF vars
  <2> QED BY <2>1, NothingVoted, QuietStep
<1>2. ASSUME NEW i \in Server, ServerStep(i)
      PROVE  ElectionInv'
  BY <1>2, ServerQuiet, QuietStep, doElectionInv
<1>3. ASSUME NEW c \in voteCalls, VoteStep(c)
      PROVE  ElectionInv'
  <2>1. CASE VoteIgnored(c)
    <3>1. UNCHANGED <<termVars, voteHist>> /\ voteCalls' \subseteq voteCalls
      BY <2>1 DEF VoteIgnored
    <3> QED BY <3>1, NothingVoted, QuietStep
  <2>2. CASE VoteStepDown(c)
    <3>1. PICK i \in Server, t \in Nat : i = c.src /\ t = c.replyTerm
      BY <1>0, <2>2, VoteCallKinds DEF VoteStepDown
    <3>2. /\ t > currentTerm[i] /\ AdoptTerm(i, t) /\ UNCHANGED voteHist
          /\ voteCalls' \subseteq voteCalls
      BY <2>2, <3>1 DEF VoteStepDown
    <3>3. currentTerm[i] \in Nat
      BY DEF TypeOK
    <3>4. t >= currentTerm[i]
      BY <3>2, <3>3
    <3> QED BY <3>2, <3>4, AdoptQuiet, QuietStep
  <2> QED BY <1>3, <2>1, <2>2, RequestVoteStaleInv, RequestVoteInv, VoteCountedInv DEF VoteStep
<1>4. ASSUME NEW i \in Server, NEW j \in Server, NEW k \in DOMAIN calls[i][j],
             CallStep(i, j, k)
      PROVE  ElectionInv'
  BY <1>4, CallQuiet, QuietStep
<1> QED BY <1>1, <1>2, <1>3, <1>4 DEF Next

\* Two majorities share a voter, so a term that has two winners has one vote
\* too many.
LEMMA MajoritiesDecide ==
  ASSUME ElectionInv, TypeOK
  PROVE  ElectionSafety
<1> SUFFICES ASSUME NEW e \in elected, NEW f \in elected, e[1] = f[1]
             PROVE  e = f
  BY DEF ElectionSafety
<1>1. PICK Q \in SUBSET Server : /\ IsMajority(Cardinality(Q))
                                 /\ \A p \in Q : <<p, e[1], e[2]>> \in votes
  BY DEF ElectionInv, ElectedByMajority
<1>2. PICK R \in SUBSET Server : /\ IsMajority(Cardinality(R))
                                 /\ \A p \in R : <<p, f[1], f[2]>> \in votes
  BY DEF ElectionInv, ElectedByMajority
<1>3. Cardinality(Q) + Cardinality(R) > Cardinality(Server)
  <2>1. IsFiniteSet(Q) /\ IsFiniteSet(R)
    BY FS_Subset, ServerAssumption
  <2>2. /\ Cardinality(Q) \in Nat /\ Cardinality(R) \in Nat
        /\ Cardinality(Server) \in Nat
    BY <2>1, FS_CardinalityType, ServerAssumption
  <2> QED BY <1>1, <1>2, <2>2 DEF IsMajority
<1>4. PICK p \in Q \cap R : TRUE
  <2>1. Q \cap R # {}
    BY <1>3, FS_MajoritiesIntersect, ServerAssumption
  <2> QED BY <2>1
<1>5. e[2] = f[2]
  <2>1. <<p, e[1], e[2]>> \in votes /\ <<p, f[1], f[2]>> \in votes
    BY <1>1, <1>2
  <2> QED BY <2>1 DEF ElectionInv, VotesFunctional
<1>6. e = <<e[1], e[2]>> /\ f = <<f[1], f[2]>>
  <2>1. elected \subseteq Nat \X Server
    BY DEF TypeOK
  <2> QED BY <2>1
<1> QED BY <1>5, <1>6

\* The invariants hold before the first step.
LEMMA InitElection ==
  ASSUME Init
  PROVE  PersistedCurrent /\ ElectionInv
<1>1. PersistedCurrent
  <2>1. persisted = [i \in Server |-> RaftState(i)]
    BY DEF Init
  <2> QED BY <2>1 DEF PersistedCurrent
<1>2. CountedOnce
  <2>1. \A i \in Server : serverState[i] # "candidate"
    BY DEF Init
  <2> QED BY <2>1 DEF CountedOnce
<1>3. votes = {} /\ elected = {} /\ voteCalls = {}
  BY DEF Init
<1>4. VotesRecorded /\ VotesFunctional /\ CallsRecorded /\ OneCallPerVoter /\ ElectedByMajority
  BY <1>3 DEF VotesRecorded, VotesFunctional, CallsRecorded, OneCallPerVoter, ElectedByMajority
<1> QED BY <1>1, <1>2, <1>4 DEF ElectionInv

-----------------------------------------------------------------------------
\* Whenever rf.mu is free the raftstate on disk is the peer's current one:
\* persist() is on every path of every handler that changes a saved field.
THEOREM DiskCurrent == Spec => []PersistedCurrent
<1>1. Init => PersistedCurrent
  BY InitElection
<1>2. TypeOK /\ PersistedCurrent /\ [Next]_vars => PersistedCurrent'
  BY PersistedStep
<1> QED BY <1>1, <1>2, TypeCorrect, PTL DEF Spec

\* The election invariant (a vote stays on record while the voter is in its
\* term, nobody's vote is counted twice, every winner had a majority) holds of
\* doElection, the RequestVote handler, crashes and restarts, for every set of
\* peers.
THEOREM ElectionInvariant == Spec => []ElectionInv
<1>1. Init => ElectionInv
  BY InitElection
<1>2. TypeOK /\ TypeOK' /\ PersistedCurrent /\ ElectionInv /\ [Next]_vars => ElectionInv'
  BY ElectionStep
<1> QED BY <1>1, <1>2, TypeCorrect, DiskCurrent, PTL DEF Spec

\* At most one peer wins the election of a term, whatever the network loses,
\* delays or reorders and whenever peers crash.
THEOREM OneLeaderPerTerm == Spec => []ElectionSafety
<1>1. TypeOK /\ ElectionInv => ElectionSafety
  BY MajoritiesDecide
<1> QED BY <1>1, TypeCorrect, ElectionInvariant, PTL

\* What VoteKept says of one step.
TermAndVoteKept ==
    \A i \in Server :
        /\ currentTerm'[i] >= currentTerm[i]
        /\ (currentTerm'[i] = currentTerm[i] /\ votedFor[i] # NoVote)
              => votedFor'[i] = votedFor[i]

\* A step that only moves peer j to the term t and the vote x.
LEMMA OneVoteKept ==
  ASSUME TypeOK, NEW j \in Server, NEW t \in Nat, NEW x,
         currentTerm' = [currentTerm EXCEPT ![j] = t],
         votedFor' = [votedFor EXCEPT ![j] = x],
         t >= currentTerm[j],
         t = currentTerm[j] /\ votedFor[j] # NoVote => x = votedFor[j]
  PROVE  TermAndVoteKept
<1>1. /\ currentTerm'[j] = t /\ votedFor'[j] = x
      /\ \A p \in Server : p # j => currentTerm'[p] = currentTerm[p]
      /\ \A p \in Server : p # j => votedFor'[p] = votedFor[p]
  BY DEF TypeOK
<1>2. \A p \in Server : currentTerm[p] \in Nat
  BY DEF TypeOK
<1>3. \A p \in Server : p # j => currentTerm'[p] >= currentTerm[p]
  BY <1>1, <1>2
<1> QED BY <1>1, <1>3 DEF TermAndVoteKept

\* One step keeps terms and votes, a restart because the disk is current.
LEMMA TermAndVoteStep ==
  ASSUME TypeOK, PersistedCurrent, [Next]_vars
  PROVE  TermAndVoteKept
<1>0. HistoryTypeOK /\ \A i \in Server : currentTerm[i] \in Nat
  BY TypeParts DEF TypeOK
<1>1. ASSUME Quiet PROVE TermAndVoteKept
  BY <1>1 DEF Quiet, TermAndVoteKept
<1>2. ASSUME UNCHANGED <<currentTerm, votedFor>> PROVE TermAndVoteKept
  <2>1. \A i \in Server : currentTerm[i] >= currentTerm[i]
    BY <1>0
  <2> QED BY <1>2, <2>1 DEF TermAndVoteKept
<1>3. CASE UNCHANGED vars
  BY <1>2, <1>3 DEF vars, termVars
<1>4. ASSUME NEW i \in Server, ServerStep(i) PROVE TermAndVoteKept
  <2>1. CASE doElection(i)
    <3>1. PICK t \in Nat : t = currentTerm[i] + 1
      BY <1>0
    <3>2. /\ currentTerm' = [currentTerm EXCEPT ![i] = t]
          /\ votedFor' = [votedFor EXCEPT ![i] = i]
      BY <2>1, <3>1 DEF doElection
    <3>3. t >= currentTerm[i] /\ t # currentTerm[i]
      BY <1>0, <3>1
    <3> QED BY <3>2, <3>3, OneVoteKept
  <2> QED BY <1>1, <1>4, <2>1, ServerQuiet
<1>5. ASSUME NEW c \in voteCalls, VoteStep(c) PROVE TermAndVoteKept
  <2>1. PICK i \in Server, j \in Server, t \in Nat : i = c.src /\ j = c.dst /\ t = c.term
    BY <1>0, VoteCallKinds
  <2>2. CASE RequestVoteStale(c) \/ VoteIgnored(c) \/ VoteCounted(c)
    BY <1>2, <2>2 DEF RequestVoteStale, VoteIgnored, VoteCounted, termVars
  <2>3. CASE RequestVote(c)
    <3> DEFINE voted == IF t > currentTerm[j] THEN NoVote ELSE votedFor[j]
               x     == IF Grants(j, c, voted) THEN i ELSE voted
    <3>1. /\ t >= currentTerm[j]
          /\ currentTerm' = [currentTerm EXCEPT ![j] = t]
          /\ votedFor' = [votedFor EXCEPT ![j] = x]
      BY <2>1, <2>3 DEF RequestVote
    <3>2. Grants(j, c, voted) => voted \in {NoVote, i}
      BY <2>1 DEF Grants
    <3>3. t = currentTerm[j] /\ votedFor[j] # NoVote => x = votedFor[j]
      <4>1. t = currentTerm[j] => voted = votedFor[j]
        BY <1>0
      <4> HIDE DEF voted
      <4> QED BY <3>2, <4>1
    <3> HIDE DEF x
    <3> QED BY <3>1, <3>3, OneVoteKept
  <2>4. CASE VoteStepDown(c)
    <3>1. PICK u \in Nat : u = c.replyTerm
      BY <1>0, <2>4, VoteCallKinds DEF VoteStepDown
    <3>2. u > currentTerm[i] /\ AdoptTerm(i, u)
      BY <2>1, <2>4, <3>1 DEF VoteStepDown
    <3>3. u >= currentTerm[i] /\ u # currentTerm[i]
      BY <1>0, <3>2
    <3>4. /\ currentTerm' = [currentTerm EXCEPT ![i] = u]
          /\ votedFor' = [votedFor EXCEPT ![i] = NoVote]
      BY <3>2 DEF AdoptTerm
    <3> QED BY <3>3, <3>4, OneVoteKept
  <2> QED BY <1>5, <2>2, <2>3, <2>4 DEF VoteStep
<1>6. ASSUME NEW i \in Server, NEW j \in Server, NEW k \in DOMAIN calls[i][j],
             CallStep(i, j, k)
      PROVE  TermAndVoteKept
  BY <1>1, <1>6, CallQuiet
<1> QED BY <1>3, <1>4, <1>5, <1>6 DEF Next

\* A peer never goes back to an older term and never changes a vote it has
\* cast, not even by restarting from disk.
THEOREM VotesAreKept == Spec => VoteKept
<1>1. TypeOK /\ PersistedCurrent /\ [Next]_vars => [TermAndVoteKept]_vars
  BY TermAndVoteStep
<1>2. TermAndVoteKept <=>
         \A i \in Server :
            /\ currentTerm'[i] >= currentTerm[i]
            /\ (currentTerm'[i] = currentTerm[i] /\ votedFor[i] # NoVote)
                  => votedFor'[i] = votedFor[i]
  BY DEF TermAndVoteKept
<1> QED BY <1>1, <1>2, TypeCorrect, DiskCurrent, PTL DEF Spec, VoteKept
=============================================================================
