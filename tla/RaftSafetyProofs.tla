-------------------------- MODULE RaftSafetyProofs --------------------------
(***************************************************************************)
(* Replication is safe, for every set of servers and every bound, crashes  *)
(* included, as long as links keep the order of requests, ticker() is not  *)
(* preempted and the service does not compact (InOrderOnly).               *)
(*                                                                         *)
(* Moves lists what a step can do to terms, votes, logs and requests, and  *)
(* CommitMoves what it can do to commitIndex and to what was delivered;    *)
(* each action of Raft is shown to be one of them, once.  The parts of     *)
(* SafetyInv are then kept case by case.  The heart is that a protected    *)
(* entry stays protected (ProtectedStep) and that an entry which its       *)
(* leader may still come to commit is protected (PendingStep).             *)
(***************************************************************************)
EXTENDS RaftLogProofs, RaftSafety

-----------------------------------------------------------------------------
(* Logs and requests. *)

\* A call is sent, or a reply, where it is found in a link.
LEMMA SentAt ==
  ASSUME NEW i \in Server, NEW j \in Server, NEW r
  PROVE  /\ r \in Sent(i, j) <=> \E k \in DOMAIN calls[i][j] :
                                    calls[i][j][k].kind = "append" /\ r = calls[i][j][k]
         /\ r \in Replies(i, j) <=> \E k \in DOMAIN calls[i][j] :
                                       calls[i][j][k].kind = "appendReply" /\ r = calls[i][j][k]
  BY DEF Sent, Replies

\* The same after the step.
LEMMA SentAtNext ==
  ASSUME NEW i \in Server, NEW j \in Server, NEW r
  PROVE  /\ r \in Sent(i, j)' <=> \E k \in DOMAIN calls'[i][j] :
                                    calls'[i][j][k].kind = "append" /\ r = calls'[i][j][k]
         /\ r \in Replies(i, j)' <=> \E k \in DOMAIN calls'[i][j] :
                                       calls'[i][j][k].kind = "appendReply" /\ r = calls'[i][j][k]
  BY DEF Sent, Replies

\* The types of what the invariant speaks of.
LEMMA PeerFacts ==
  ASSUME TypeOK, NEW p \in Server
  PROVE  /\ log[p] \in Seq(LogEntry) /\ Len(log[p]) \in Nat /\ DOMAIN log[p] = 1..Len(log[p])
         /\ \A n \in 1..Len(log[p]) : log[p][n] \in LogEntry /\ log[p][n].term \in Nat
         /\ currentTerm[p] \in Nat /\ commitIndex[p] \in Nat /\ lastApplied[p] \in Nat
         /\ serverState[p] \in {"follower", "candidate", "leader"}
         /\ \A q \in Server : nextIndex[p][q] \in Nat /\ matchIndex[p][q] \in Nat
<1>1. log[p] \in Seq(LogEntry)
  BY DEF TypeOK
<1>2. Len(log[p]) \in Nat /\ DOMAIN log[p] = 1..Len(log[p])
  BY <1>1
<1>3. \A n \in 1..Len(log[p]) : log[p][n] \in LogEntry
  BY <1>1
<1>4. \A n \in 1..Len(log[p]) : log[p][n].term \in Nat
  BY <1>3 DEF LogEntry
<1>5. /\ currentTerm[p] \in Nat /\ commitIndex[p] \in Nat /\ lastApplied[p] \in Nat
      /\ serverState[p] \in {"follower", "candidate", "leader"}
  BY DEF TypeOK
<1>6. \A q \in Server : nextIndex[p][q] \in Nat /\ matchIndex[p][q] \in Nat
  BY DEF TypeOK
<1> QED BY <1>1, <1>2, <1>3, <1>4, <1>5, <1>6

\* The same of the next state.
LEMMA PeerFactsNext ==
  ASSUME TypeOK', NEW p \in Server
  PROVE  /\ log'[p] \in Seq(LogEntry) /\ Len(log'[p]) \in Nat /\ DOMAIN log'[p] = 1..Len(log'[p])
         /\ \A n \in 1..Len(log'[p]) : log'[p][n] \in LogEntry /\ log'[p][n].term \in Nat
         /\ currentTerm'[p] \in Nat /\ commitIndex'[p] \in Nat /\ lastApplied'[p] \in Nat
         /\ serverState'[p] \in {"follower", "candidate", "leader"}
         /\ \A q \in Server : nextIndex'[p][q] \in Nat /\ matchIndex'[p][q] \in Nat
<1>1. log'[p] \in Seq(LogEntry)
  BY DEF TypeOK
<1>2. Len(log'[p]) \in Nat /\ DOMAIN log'[p] = 1..Len(log'[p])
  BY <1>1
<1>3. \A n \in 1..Len(log'[p]) : log'[p][n] \in LogEntry
  BY <1>1
<1>4. \A n \in 1..Len(log'[p]) : log'[p][n].term \in Nat
  BY <1>3 DEF LogEntry
<1>5. /\ currentTerm'[p] \in Nat /\ commitIndex'[p] \in Nat /\ lastApplied'[p] \in Nat
      /\ serverState'[p] \in {"follower", "candidate", "leader"}
  BY DEF TypeOK
<1>6. \A q \in Server : nextIndex'[p][q] \in Nat /\ matchIndex'[p][q] \in Nat
  BY DEF TypeOK
<1> QED BY <1>1, <1>2, <1>3, <1>4, <1>5, <1>6

\* A request names an index, a term and entries.
LEMMA RequestFacts ==
  ASSUME NEW r \in AppendRequest
  PROVE  /\ r.kind = "append" /\ r.term \in Nat /\ r.prevLogIndex \in Nat /\ r.prevLogTerm \in Nat
         /\ r.entries \in Seq(LogEntry) /\ Len(r.entries) \in Nat /\ r.leaderCommit \in Nat
         /\ Reach(r) \in Nat /\ Reach(r) >= r.prevLogIndex
         /\ \A n \in r.prevLogIndex .. Reach(r) : TermOf(r, n) \in Nat
<1>1. /\ r.kind = "append" /\ r.term \in Nat /\ r.prevLogIndex \in Nat /\ r.prevLogTerm \in Nat
      /\ r.entries \in Seq(LogEntry) /\ r.leaderCommit \in Nat
  BY DEF AppendRequest
<1>2. Len(r.entries) \in Nat
  BY <1>1
<1>3. Reach(r) \in Nat /\ Reach(r) >= r.prevLogIndex
  BY <1>1, <1>2 DEF Reach
<1>4. ASSUME NEW n \in r.prevLogIndex .. Reach(r) PROVE TermOf(r, n) \in Nat
  <2>1. CASE n > r.prevLogIndex
    <3>1. n - r.prevLogIndex \in 1..Len(r.entries)
      BY <1>1, <1>2, <2>1 DEF Reach
    <3>2. r.entries[n - r.prevLogIndex] \in LogEntry
      BY <1>1, <3>1
    <3> QED BY <2>1, <3>2 DEF TermOf, LogEntry
  <2> QED BY <1>1, <2>1 DEF TermOf
<1> QED BY <1>1, <1>2, <1>3, <1>4

\* Requests and replies on a link have the types of AppendEntries.
LEMMA SentFacts ==
  ASSUME TypeOK, NEW i \in Server, NEW j \in Server
  PROVE  /\ \A r \in Sent(i, j) : r \in AppendRequest
         /\ \A r \in Replies(i, j) : r \in AppendReplies
<1>1. calls \in Links
  BY TypeParts
<1> QED BY <1>1, SentAt, CallKinds

\* The same of the next state.
LEMMA SentFactsNext ==
  ASSUME TypeOK', NEW i \in Server, NEW j \in Server
  PROVE  /\ \A r \in Sent(i, j)' : r \in AppendRequest
         /\ \A r \in Replies(i, j)' : r \in AppendReplies
<1>1. calls' \in Links
  BY TypeParts
<1>2. calls'[i][j] \in Seq(Call)
  BY <1>1 DEF Links
<1>3. \A k \in DOMAIN calls'[i][j] : calls'[i][j][k] \in Call
  BY <1>2
<1>4. \A c \in Call : /\ c.kind = "append" => c \in AppendRequest
                      /\ c.kind = "appendReply" => c \in AppendReplies
  BY DEF Call, AppendRequest, AppendReplies, InstallRequest, InstallReplies
<1>5. ASSUME NEW r \in Sent(i, j)' PROVE r \in AppendRequest
  <2>1. PICK k \in DOMAIN calls'[i][j] : calls'[i][j][k].kind = "append" /\ r = calls'[i][j][k]
    BY SentAtNext
  <2>2. r \in Call /\ r.kind = "append"
    BY <1>3, <2>1
  <2> QED BY <1>4, <2>2
<1>6. ASSUME NEW r \in Replies(i, j)' PROVE r \in AppendReplies
  <2>1. PICK k \in DOMAIN calls'[i][j] :
           calls'[i][j][k].kind = "appendReply" /\ r = calls'[i][j][k]
    BY SentAtNext
  <2> QED BY <1>3, <1>4, <2>1
<1> QED BY <1>5, <1>6

\* Without compaction position and index are the same.
LEMMA PlainLog ==
  ASSUME TypeOK, NoSnapshots, NEW p \in Server
  PROVE  /\ lastIncludedIndex[p] = 0 /\ lastIncludedTerm[p] = 0
         /\ lastLogIndex(p) = Len(log[p])
         /\ lastLogTerm(p) = IF Len(log[p]) = 0 THEN 0 ELSE log[p][Len(log[p])].term
         /\ IsPiece(LogOf(p)) /\ LogOf(p).base = 0
         /\ \A n \in 1..Len(log[p]) :
               /\ Knows(LogOf(p), n)
               /\ TermIn(LogOf(p), n) = log[p][n].term /\ EntryIn(LogOf(p), n) = log[p][n]
<1>1. /\ lastIncludedIndex[p] = 0 /\ lastIncludedTerm[p] = 0
      /\ log[p] \in Seq(LogEntry) /\ Len(log[p]) \in Nat
  BY PeerFacts DEF NoSnapshots
<1>2. lastLogIndex(p) = Len(log[p])
  BY <1>1 DEF lastLogIndex
<1>3. lastLogTerm(p) = IF Len(log[p]) = 0 THEN 0 ELSE log[p][Len(log[p])].term
  <2>1. log[p] = <<>> <=> Len(log[p]) = 0
    BY <1>1
  <2> QED BY <1>1, <2>1 DEF lastLogTerm
<1>4. /\ IsPiece(LogOf(p)) /\ LogOf(p).base = 0 /\ LogOf(p).entries = log[p]
      /\ Top(LogOf(p)) = Len(log[p])
  BY <1>1, <1>2, LogPiece
<1>5. ASSUME NEW n \in 1..Len(log[p])
      PROVE  /\ Knows(LogOf(p), n)
             /\ TermIn(LogOf(p), n) = log[p][n].term /\ EntryIn(LogOf(p), n) = log[p][n]
  <2>1. n \in Nat /\ n > 0 /\ 0 <= n /\ n <= Len(log[p]) /\ n - 0 = n
    BY <1>1
  <2> QED BY <1>4, <2>1 DEF Knows, TermIn, EntryIn
<1> QED BY <1>1, <1>2, <1>3, <1>4, <1>5

\* The same after the step.
LEMMA PlainLogNext ==
  ASSUME TypeOK', NoSnapshots', NEW p \in Server
  PROVE  /\ lastLogIndex(p)' = Len(log'[p])
         /\ lastLogTerm(p)' = IF Len(log'[p]) = 0 THEN 0 ELSE log'[p][Len(log'[p])].term
<1>1. /\ lastIncludedIndex'[p] = 0 /\ lastIncludedTerm'[p] = 0
      /\ log'[p] \in Seq(LogEntry) /\ Len(log'[p]) \in Nat
  BY PeerFactsNext DEF NoSnapshots
<1>2. lastLogIndex(p)' = Len(log'[p])
  BY <1>1 DEF lastLogIndex
<1>3. lastLogTerm(p)' = IF Len(log'[p]) = 0 THEN 0 ELSE log'[p][Len(log'[p])].term
  <2>1. log'[p] = <<>> <=> Len(log'[p]) = 0
    BY <1>1
  <2> QED BY <1>1, <2>1 DEF lastLogTerm
<1> QED BY <1>2, <1>3

\* A request on its way is a piece.
LEMMA SentPiece ==
  ASSUME TypeOK, NEW i \in Server, NEW j \in Server, NEW r \in Sent(i, j)
  PROVE  /\ IsPiece(PieceOf(r)) /\ PieceOf(r).base = r.prevLogIndex
         /\ \A n \in r.prevLogIndex .. Reach(r) :
               /\ Knows(PieceOf(r), n) /\ TermIn(PieceOf(r), n) = TermOf(r, n)
               /\ EntryIn(PieceOf(r), n) = r.entries[n - r.prevLogIndex]
<1>1. PICK k \in DOMAIN calls[i][j] : calls[i][j][k].kind = "append" /\ r = calls[i][j][k]
  BY SentAt
<1>2. IsPiece(PieceOf(r))
  BY <1>1, CallPiece DEF IsRequest
<1>3. PieceOf(r) = [base |-> r.prevLogIndex, term |-> r.prevLogTerm, entries |-> r.entries]
  BY <1>1 DEF PieceOf
<1>4. r \in AppendRequest
  BY SentFacts
<1>5. r.prevLogIndex \in Nat /\ Reach(r) \in Nat
  BY <1>4, RequestFacts
<1>6. ASSUME NEW n \in r.prevLogIndex .. Reach(r)
      PROVE  /\ Knows(PieceOf(r), n) /\ TermIn(PieceOf(r), n) = TermOf(r, n)
             /\ EntryIn(PieceOf(r), n) = r.entries[n - r.prevLogIndex]
  <2>1. r.prevLogIndex <= n /\ n <= r.prevLogIndex + Len(r.entries)
    BY <1>5 DEF Reach
  <2> QED BY <1>3, <2>1 DEF Knows, Top, TermIn, TermOf, EntryIn
<1> QED BY <1>2, <1>3, <1>6

\* Two logs with one term at one index are the same up to it.
LEMMA LogsAgree ==
  ASSUME TypeOK, NoSnapshots, PiecesAgree, NEW p \in Server, NEW q \in Server,
         NEW n \in Nat, n \in 1..Len(log[p]), n \in 1..Len(log[q]),
         log[p][n].term = log[q][n].term
  PROVE  \A m \in 1..n : log[p][m] = log[q][m]
<1> SUFFICES ASSUME NEW m \in 1..n PROVE log[p][m] = log[q][m]
  OBVIOUS
<1>1. Len(log[p]) \in Nat /\ Len(log[q]) \in Nat
  BY PeerFacts
<1>2. m \in Nat /\ m > 0 /\ m <= n /\ m \in 1..Len(log[p]) /\ m \in 1..Len(log[q])
  BY <1>1
<1>3. /\ IsPiece(LogOf(p)) /\ LogOf(p).base = 0 /\ Knows(LogOf(p), n) /\ Knows(LogOf(p), m)
      /\ TermIn(LogOf(p), n) = log[p][n].term /\ EntryIn(LogOf(p), m) = log[p][m]
  BY <1>2, PlainLog
<1>4. /\ IsPiece(LogOf(q)) /\ LogOf(q).base = 0 /\ Knows(LogOf(q), n) /\ Knows(LogOf(q), m)
      /\ TermIn(LogOf(q), n) = log[q][n].term /\ EntryIn(LogOf(q), m) = log[q][m]
  BY <1>2, PlainLog
<1>5. Agree(LogOf(p), LogOf(q))
  BY <1>3, <1>4 DEF PiecesAgree
<1>6. EntryIn(LogOf(p), m) = EntryIn(LogOf(q), m)
  BY <1>2, <1>3, <1>4, <1>5 DEF Agree
<1> QED BY <1>3, <1>4, <1>6

\* So are a log and a request.
LEMMA RequestAgrees ==
  ASSUME TypeOK, NoSnapshots, PiecesAgree, NEW i \in Server, NEW j \in Server,
         NEW r \in Sent(i, j), NEW p \in Server,
         NEW n \in Nat, n \in 1..Len(log[p]), n \in r.prevLogIndex .. Reach(r),
         TermOf(r, n) = log[p][n].term,
         NEW m \in Nat, 0 < m, m <= n, r.prevLogIndex <= m
  PROVE  /\ TermOf(r, m) = log[p][m].term
         /\ m > r.prevLogIndex => r.entries[m - r.prevLogIndex] = log[p][m]
<1>0. r \in AppendRequest
  BY SentFacts
<1>1. Len(log[p]) \in Nat /\ r.prevLogIndex \in Nat /\ Reach(r) \in Nat
  BY <1>0, PeerFacts, RequestFacts
<1>2. m \in 1..Len(log[p]) /\ m \in r.prevLogIndex .. Reach(r)
  BY <1>1
<1>3. /\ IsPiece(LogOf(p)) /\ LogOf(p).base = 0 /\ Knows(LogOf(p), n) /\ Knows(LogOf(p), m)
      /\ TermIn(LogOf(p), n) = log[p][n].term /\ EntryIn(LogOf(p), m) = log[p][m]
      /\ TermIn(LogOf(p), m) = log[p][m].term
  BY <1>2, PlainLog
<1>4. /\ IsPiece(PieceOf(r)) /\ PieceOf(r).base = r.prevLogIndex
      /\ Knows(PieceOf(r), n) /\ Knows(PieceOf(r), m)
      /\ TermIn(PieceOf(r), n) = TermOf(r, n) /\ TermIn(PieceOf(r), m) = TermOf(r, m)
      /\ EntryIn(PieceOf(r), m) = r.entries[m - r.prevLogIndex]
  BY <1>2, SentPiece
<1>5. Agree(PieceOf(r), LogOf(p))
  BY <1>3, <1>4 DEF PiecesAgree
<1>6. /\ TermIn(PieceOf(r), m) = TermIn(LogOf(p), m)
      /\ m > PieceOf(r).base /\ m > LogOf(p).base => EntryIn(PieceOf(r), m) = EntryIn(LogOf(p), m)
  BY <1>3, <1>4, <1>5 DEF Agree
<1> QED BY <1>3, <1>4, <1>6

\* The term of an entry was won, and its leader has the entry's index.
LEMMA EntryTerms ==
  ASSUME TypeOK, NoSnapshots, LogInv, NEW p \in Server, NEW n \in 1..Len(log[p])
  PROVE  /\ Won(log[p][n].term)
         /\ \A i \in Server : IsLeader(i) /\ log[p][n].term = currentTerm[i] => n <= Len(log[i])
<1>1. /\ IsPiece(LogOf(p)) /\ Knows(LogOf(p), n) /\ TermIn(LogOf(p), n) = log[p][n].term
  BY PlainLog
<1>2. n \in Nat /\ n # 0
  BY PeerFacts
<1>3. Won(log[p][n].term)
  BY <1>1, <1>2 DEF LogInv, TermsElected, Won
<1>4. ASSUME NEW i \in Server, IsLeader(i), log[p][n].term = currentTerm[i]
      PROVE  n <= Len(log[i])
  <2>1. n <= lastLogIndex(i)
    BY <1>1, <1>2, <1>4 DEF LogInv, LeaderAhead, IsLeader
  <2> QED BY <2>1, PlainLog
<1> QED BY <1>3, <1>4

\* A term is won by one peer,
LEMMA OneWinner ==
  ASSUME ElectionSafety, NEW t, NEW i, NEW j, <<t, i>> \in elected, <<t, j>> \in elected
  PROVE  i = j
<1>1. <<t, i>>[1] = <<t, j>>[1] /\ <<t, i>>[2] = i /\ <<t, j>>[2] = j
  OBVIOUS
<1> QED BY <1>1 DEF ElectionSafety

\* and by nobody before the candidate that is about to win it.
LEMMA NotWonYet ==
  ASSUME ElectionSafety', ElectedOnce, elected \subseteq elected', NEW i \in Server,
         serverState[i] = "candidate", <<currentTerm[i], i>> \in elected'
  PROVE  ~Won(currentTerm[i])
<1> SUFFICES ASSUME NEW s \in Server, <<currentTerm[i], s>> \in elected PROVE FALSE
  BY DEF Won
<1> DEFINE e == <<currentTerm[i], s>>
           f == <<currentTerm[i], i>>
<1>1. e[1] = f[1] /\ e[1] = currentTerm[i] /\ e[2] = s /\ f[2] = i /\ e \in elected' /\ f \in elected'
  OBVIOUS
<1>2. e = f
  BY <1>1 DEF ElectionSafety
<1>3. s = i
  BY <1>1, <1>2
<1> QED BY <1>1, <1>3 DEF ElectedOnce

-----------------------------------------------------------------------------
(* What a step does to a link. *)

\* Where the elements of a sequence are after one is removed.
LEMMA RemoveAtIs ==
  ASSUME NEW S, NEW s \in Seq(S), NEW k \in 1..Len(s)
  PROVE  /\ RemoveAt(s, k) \in Seq(S) /\ Len(RemoveAt(s, k)) = Len(s) - 1
         /\ \A m \in 1..(Len(s) - 1) :
               RemoveAt(s, k)[m] = IF m < k THEN s[m] ELSE s[m + 1]
<1> DEFINE u == SubSeq(s, 1, k - 1)
           v == SubSeq(s, k + 1, Len(s))
<1>0. RemoveAt(s, k) = u \o v
  BY DEF RemoveAt
<1>1. /\ u \in Seq(S) /\ Len(u) = k - 1
      /\ \A p \in 1..(k-1) : u[p] = s[p]
  OBVIOUS
<1>2. /\ v \in Seq(S) /\ Len(v) = Len(s) - k
      /\ \A p \in 1..(Len(s) - k) : v[p] = s[k + p]
  <2>1. k \in Nat /\ k <= Len(s) /\ Len(s) \in Nat
    OBVIOUS
  <2>2. v \in Seq(S)
    OBVIOUS
  <2> QED BY <2>1, <2>2, SuffixAt
<1> HIDE DEF u, v
<1>3. /\ Len(u \o v) = Len(u) + Len(v) /\ u \o v \in Seq(S)
      /\ \A p \in 1..Len(u) : (u \o v)[p] = u[p]
      /\ \A p \in 1..Len(v) : (u \o v)[Len(u) + p] = v[p]
  <2>1. u \in Seq(S) /\ v \in Seq(S)
    BY <1>1, <1>2
  <2> QED BY <2>1, ConcatAt
<1>4. Len(s) \in Nat /\ k \in Nat /\ 1 <= k /\ k <= Len(s)
  OBVIOUS
<1>5. RemoveAt(s, k) \in Seq(S) /\ Len(RemoveAt(s, k)) = Len(s) - 1
  BY <1>0, <1>1, <1>2, <1>3, <1>4
<1>6. ASSUME NEW m \in 1..(Len(s) - 1)
      PROVE  RemoveAt(s, k)[m] = IF m < k THEN s[m] ELSE s[m + 1]
  <2>1. CASE m < k
    <3>1. m \in 1..(k - 1)
      BY <1>4, <2>1
    <3> QED BY <1>0, <1>1, <1>3, <2>1, <3>1
  <2>2. CASE ~(m < k)
    <3>1. PICK p \in 1..(Len(s) - k) : m = (k - 1) + p
      <4>1. m - (k - 1) \in 1..(Len(s) - k) /\ m = (k - 1) + (m - (k - 1))
        BY <1>4, <2>2
      <4> QED BY <4>1
    <3>2. (u \o v)[m] = s[k + p] /\ k + p = m + 1
      BY <1>1, <1>2, <1>3, <1>4, <3>1
    <3> QED BY <1>0, <2>2, <3>2
  <2> QED BY <2>1, <2>2
<1> QED BY <1>5, <1>6

\* The link u is the link s without its k-th call, which may have become r.
Without(s, u, k, r) ==
    /\ \A m \in DOMAIN u : u[m] = r \/ \E n \in DOMAIN s : n # k /\ u[m] = s[n]
    /\ InReachOrder(s) => InReachOrder(u)

\* Removing a call keeps the order,
LEMMA RemovedWithout ==
  ASSUME NEW s \in Seq(Call), NEW k \in DOMAIN s, NEW r
  PROVE  /\ Without(s, RemoveAt(s, k), k, r)
         /\ \A m \in DOMAIN RemoveAt(s, k) :
               \E n \in DOMAIN s : n # k /\ RemoveAt(s, k)[m] = s[n]
<1> DEFINE u == RemoveAt(s, k)
           old(m) == IF m < k THEN m ELSE m + 1
<1>1. DOMAIN s = 1..Len(s) /\ Len(s) \in Nat /\ k \in 1..Len(s)
  OBVIOUS
<1>2. /\ u \in Seq(Call) /\ Len(u) = Len(s) - 1
      /\ \A m \in 1..(Len(s) - 1) : u[m] = IF m < k THEN s[m] ELSE s[m + 1]
  BY <1>1, RemoveAtIs
<1> HIDE DEF u
<1>3. DOMAIN u = 1..(Len(s) - 1)
  BY <1>2
<1>4. ASSUME NEW m \in DOMAIN u
      PROVE  old(m) \in DOMAIN s /\ old(m) # k /\ u[m] = s[old(m)]
  <2>1. m \in 1..(Len(s) - 1)
    BY <1>3
  <2>2. old(m) \in 1..Len(s) /\ old(m) # k
    BY <1>1, <2>1
  <2> QED BY <1>1, <1>2, <2>1, <2>2
<1>5. ASSUME NEW m \in DOMAIN u, NEW n \in DOMAIN u, m < n PROVE old(m) < old(n)
  <2>1. m \in Nat /\ n \in Nat /\ k \in Nat
    BY <1>1, <1>3
  <2> QED BY <1>5, <2>1
<1> HIDE DEF old
<1>6. InReachOrder(s) => InReachOrder(u)
  BY <1>4, <1>5 DEF InReachOrder
<1> QED BY <1>4, <1>6 DEF Without, u

\* and so does a reply in the place of a request.
LEMMA ReplacedWithout ==
  ASSUME NEW s \in Seq(Call), NEW k \in DOMAIN s, NEW r, r.kind = "appendReply"
  PROVE  Without(s, [s EXCEPT ![k] = r], k, r)
<1> DEFINE u == [s EXCEPT ![k] = r]
<1>1. /\ DOMAIN u = DOMAIN s /\ u[k] = r
      /\ \A m \in DOMAIN s : m # k => u[m] = s[m]
  OBVIOUS
<1> HIDE DEF u
<1>2. InReachOrder(s) => InReachOrder(u)
  BY <1>1 DEF InReachOrder
<1> QED BY <1>1, <1>2 DEF Without, u

\* Every other link stays as it is.
LinkChanged(i, j, k, r) ==
    /\ \A x, y \in Server : ~(x = i /\ y = j) => calls'[x][y] = calls[x][y]
    /\ Without(calls[i][j], calls'[i][j], k, r)

\* A call that is dropped leaves its link without it.
LEMMA HangupLink ==
  ASSUME calls \in Links, NEW i \in Server, NEW j \in Server, NEW k \in DOMAIN calls[i][j],
         Hangup(i, j, k), NEW r
  PROVE  /\ LinkChanged(i, j, k, r)
         /\ \A m \in DOMAIN calls'[i][j] :
               \E n \in DOMAIN calls[i][j] : n # k /\ calls'[i][j][m] = calls[i][j][n]
<1>1. calls[i][j] \in Seq(Call)
  BY DEF Links
<1>2. /\ calls'[i][j] = RemoveAt(calls[i][j], k)
      /\ \A x, y \in Server : ~(x = i /\ y = j) => calls'[x][y] = calls[x][y]
  BY DEF Hangup, Links
<1> QED BY <1>1, <1>2, RemovedWithout DEF LinkChanged

\* A call that is answered becomes its reply, or is lost.
LEMMA AnswerLink ==
  ASSUME calls \in Links, NEW i \in Server, NEW j \in Server, NEW k \in DOMAIN calls[i][j],
         NEW r, r.kind = "appendReply", Answer(i, j, k, r)
  PROVE  LinkChanged(i, j, k, r)
<1>1. CASE Hangup(i, j, k)
  BY <1>1, HangupLink
<1>2. CASE calls' = [calls EXCEPT ![i][j][k] = r]
  <2>1. calls[i][j] \in Seq(Call)
    BY DEF Links
  <2>2. /\ calls'[i][j] = [calls[i][j] EXCEPT ![k] = r]
        /\ \A x, y \in Server : ~(x = i /\ y = j) => calls'[x][y] = calls[x][y]
    BY <1>2 DEF Links
  <2> QED BY <2>1, <2>2, ReplacedWithout DEF LinkChanged
<1> QED BY <1>1, <1>2 DEF Answer

\* No request, or no reply, is new.
SentOld == \A i, j \in Server : Sent(i, j)' \subseteq Sent(i, j)
RepliesOld == \A i, j \in Server : Replies(i, j)' \subseteq Replies(i, j)

\* A link that lost a call, or got a reply for it, has no new request.
LEMMA ChangedSent ==
  ASSUME NEW i \in Server, NEW j \in Server, NEW k \in DOMAIN calls[i][j], NEW r,
         r.kind = "appendReply", LinkChanged(i, j, k, r)
  PROVE  /\ SentOld
         /\ \A x, y \in Server : \A q \in Replies(x, y)' :
               q \in Replies(x, y) \/ (x = i /\ y = j /\ q = r)
         /\ SentInOrder => SentInOrder'
<1>1. ASSUME NEW x \in Server, NEW y \in Server, NEW q \in Sent(x, y)' PROVE q \in Sent(x, y)
  <2>1. PICK m \in DOMAIN calls'[x][y] : calls'[x][y][m].kind = "append" /\ q = calls'[x][y][m]
    BY SentAtNext
  <2>2. CASE x = i /\ y = j
    <3>1. PICK n \in DOMAIN calls[i][j] : q = calls[i][j][n]
      BY <2>1, <2>2 DEF LinkChanged, Without
    <3> QED BY <2>1, <2>2, <3>1, SentAt
  <2>3. CASE ~(x = i /\ y = j)
    <3>1. calls'[x][y] = calls[x][y]
      BY <2>3 DEF LinkChanged
    <3> QED BY <2>1, <3>1, SentAt
  <2> QED BY <2>2, <2>3
<1>2. ASSUME NEW x \in Server, NEW y \in Server, NEW q \in Replies(x, y)'
      PROVE  q \in Replies(x, y) \/ (x = i /\ y = j /\ q = r)
  <2>1. PICK m \in DOMAIN calls'[x][y] :
           calls'[x][y][m].kind = "appendReply" /\ q = calls'[x][y][m]
    BY SentAtNext
  <2>2. CASE x = i /\ y = j
    <3>1. q = r \/ \E n \in DOMAIN calls[i][j] : q = calls[i][j][n]
      BY <2>1, <2>2 DEF LinkChanged, Without
    <3> QED BY <2>1, <2>2, <3>1, SentAt
  <2>3. CASE ~(x = i /\ y = j)
    <3>1. calls'[x][y] = calls[x][y]
      BY <2>3 DEF LinkChanged
    <3> QED BY <2>1, <3>1, SentAt
  <2> QED BY <2>2, <2>3
<1>3. ASSUME SentInOrder PROVE SentInOrder'
  <2>1. ASSUME NEW x \in Server, NEW y \in Server PROVE InReachOrder(calls'[x][y])
    <3>1. CASE x = i /\ y = j
      BY <1>3, <3>1 DEF SentInOrder, LinkChanged, Without
    <3>2. CASE ~(x = i /\ y = j)
      BY <1>3, <3>2 DEF SentInOrder, LinkChanged
    <3> QED BY <3>1, <3>2
  <2> QED BY <2>1 DEF SentInOrder
<1> QED BY <1>1, <1>2, <1>3 DEF SentOld

\* A call that is hung up leaves the others.
LEMMA HangupSent ==
  ASSUME calls \in Links, NEW i \in Server, NEW j \in Server, NEW k \in DOMAIN calls[i][j],
         Hangup(i, j, k)
  PROVE  SentOld /\ RepliesOld /\ (SentInOrder => SentInOrder')
<1> DEFINE r == [kind |-> "appendReply"]
<1>1. r.kind = "appendReply"
  OBVIOUS
<1> HIDE DEF r
<1>2. LinkChanged(i, j, k, r)
  BY HangupLink
<1>3. SentOld /\ (SentInOrder => SentInOrder')
  BY <1>1, <1>2, ChangedSent
<1>4. ASSUME NEW x \in Server, NEW y \in Server, NEW q \in Replies(x, y)'
      PROVE  q \in Replies(x, y)
  <2>1. PICK m \in DOMAIN calls'[x][y] :
           calls'[x][y][m].kind = "appendReply" /\ q = calls'[x][y][m]
    BY SentAtNext
  <2>2. CASE x = i /\ y = j
    <3>1. PICK n \in DOMAIN calls[i][j] : q = calls[i][j][n]
      BY <2>1, <2>2, HangupLink
    <3> QED BY <2>1, <2>2, <3>1, SentAt
  <2>3. CASE ~(x = i /\ y = j)
    <3>1. calls'[x][y] = calls[x][y]
      BY <1>2, <2>3 DEF LinkChanged
    <3> QED BY <2>1, <3>1, SentAt
  <2> QED BY <2>2, <2>3
<1> QED BY <1>3, <1>4 DEF RepliesOld

\* The first request of a link is the one that reaches least far of its term.
LEMMA FirstReachesLeast ==
  ASSUME InOrder, calls \in Links, NEW i \in Server, NEW j \in Server,
         NEW k \in DOMAIN calls[i][j], Deliverable(i, j, k), calls[i][j][k].kind = "append",
         SentInOrder, NEW r, r.kind = "appendReply", LinkChanged(i, j, k, r)
  PROVE  \A q \in Sent(i, j)' : q.term = calls[i][j][k].term => Reach(calls[i][j][k]) <= Reach(q)
<1> SUFFICES ASSUME NEW q \in Sent(i, j)', q.term = calls[i][j][k].term
             PROVE  Reach(calls[i][j][k]) <= Reach(q)
  OBVIOUS
<1>0. DOMAIN calls[i][j] = 1..Len(calls[i][j]) /\ Len(calls[i][j]) \in Nat
  BY DEF Links
<1>1. PICK m \in DOMAIN calls'[i][j] : calls'[i][j][m].kind = "append" /\ q = calls'[i][j][m]
  BY SentAtNext
<1>2. PICK n \in DOMAIN calls[i][j] : n # k /\ q = calls[i][j][n]
  BY <1>1 DEF LinkChanged, Without
<1>3. ~(n \in 1..(k-1))
  BY <1>1, <1>2 DEF Deliverable, IsRequest
<1>4. k < n
  BY <1>0, <1>2, <1>3
<1> QED BY <1>1, <1>2, <1>4 DEF SentInOrder, InReachOrder

\* A request that the leader i makes with the log lg.
MadeFrom(i, lg, r) ==
    /\ r.kind = "append" /\ r.term = currentTerm[i] /\ r.leaderCommit = commitIndex[i]
    /\ Reach(r) = Len(lg) /\ IsPart(r, lg) /\ (r.prevLogIndex = 0 => r.prevLogTerm = 0)

\* The arguments of a call start at nextIndex and carry the rest of the log.
LEMMA ArgsMade ==
  ASSUME TypeOK, NoSnapshots, NEW i \in Server, NEW lg \in Seq(LogEntry), InSlice(i, lg),
         NEW p \in Peers(i) \ Behind(i)
  PROVE  MadeFrom(i, lg, AppendArgs(i, p, lg))
<1> DEFINE r == AppendArgs(i, p, lg)
<1>0. lastIncludedIndex[i] = 0 /\ lastIncludedTerm[i] = 0 /\ Len(lg) \in Nat
  BY DEF NoSnapshots
<1>1. PICK next \in Nat : next = nextIndex[i][p]
  BY PeerFacts DEF Peers
<1>2. 0 < next /\ next <= Len(lg) + 1
  BY <1>0, <1>1 DEF Behind, InSlice
<1>3. PICK b \in Nat : b = next - 1
  BY <1>2
<1>4. b <= Len(lg) /\ next = b + 1 /\ next - 0 = b + 1
  BY <1>0, <1>2, <1>3
<1>5. /\ r.kind = "append" /\ r.term = currentTerm[i] /\ r.leaderCommit = commitIndex[i]
      /\ r.prevLogIndex = b /\ r.prevLogTerm = (IF b > 0 THEN lg[b].term ELSE 0)
      /\ r.entries = SubSeq(lg, b + 1, Len(lg))
  <2>1. b - 0 = b
    BY <1>3
  <2>2. TermAt(i, lg, b) = IF b > 0 THEN lg[b].term ELSE 0
    BY <1>0, <2>1 DEF TermAt
  <2>3. r = [kind |-> "append", term |-> currentTerm[i], prevLogIndex |-> b,
             prevLogTerm |-> TermAt(i, lg, b), entries |-> SubSeq(lg, b + 1, Len(lg)),
             leaderCommit |-> commitIndex[i]]
    BY <1>0, <1>1, <1>3, <1>4 DEF AppendArgs
  <2> QED BY <2>2, <2>3
<1> HIDE DEF r
<1> DEFINE v == SubSeq(lg, b + 1, Len(lg))
<1>6. v \in Seq(LogEntry)
  BY <1>0, <1>4
<1>7. Len(v) = Len(lg) - b /\ \A m \in 1..(Len(lg) - b) : v[m] = lg[b + m]
  BY <1>0, <1>4, <1>6, SuffixAt
<1>8. r.entries = v
  BY <1>5
<1> HIDE DEF v
<1>9. Reach(r) = Len(lg)
  BY <1>0, <1>4, <1>5, <1>7, <1>8 DEF Reach
<1>10. ASSUME NEW n \in b .. Len(lg)
       PROVE  /\ n > 0 => TermOf(r, n) = lg[n].term
              /\ n > b => r.entries[n - b] = lg[n]
  <2>1. CASE n > b
    <3>1. n - b \in 1..(Len(lg) - b) /\ b + (n - b) = n
      BY <1>0, <1>4, <2>1
    <3>2. r.entries[n - b] = lg[n]
      BY <1>7, <1>8, <3>1
    <3> QED BY <1>5, <2>1, <3>2 DEF TermOf
  <2>2. CASE n = b
    <3>1. ~(n > b)
      BY <2>2
    <3> QED BY <1>5, <2>2, <3>1 DEF TermOf
  <2> QED BY <1>0, <2>1, <2>2
<1>11. IsPart(r, lg)
  <2>1. Len(lg) <= Len(lg)
    BY <1>0
  <2> QED BY <1>5, <1>9, <1>10, <2>1 DEF IsPart
<1>12. r.prevLogIndex = 0 => r.prevLogTerm = 0
  BY <1>5
<1> QED BY <1>5, <1>9, <1>11, <1>12 DEF MadeFrom, r

\* Start() and ticker() append such requests to their links.
LinksExtended(i, lg) ==
    /\ \A x, y \in Server : x # i \/ y = i => calls'[x][y] = calls[x][y]
    /\ \A y \in Peers(i) : \/ calls'[i][y] = calls[i][y]
                           \/ \E r : MadeFrom(i, lg, r) /\ calls'[i][y] = Append(calls[i][y], r)

\* Replicate() extends links only in that way.
LEMMA ReplicateLinks ==
  ASSUME TypeOK, NoSnapshots, NEW i \in Server, NEW lg \in Seq(LogEntry), Replicate(i, lg)
  PROVE  LinksExtended(i, lg)
<1>0. calls \in Links
  BY TypeParts
<1>1. InSlice(i, lg)
  BY DEF Replicate
<1>2. PICK reached \in SUBSET (Peers(i) \ Behind(i)) :
        calls' = [calls EXCEPT ![i] =
              [p \in Server |-> IF p \in reached
                                THEN Append(calls[i][p], AppendArgs(i, p, lg))
                                ELSE calls[i][p]]]
  BY DEF Replicate, Kept
<1>3. /\ \A x, y \in Server : x # i => calls'[x][y] = calls[x][y]
      /\ \A y \in Server : calls'[i][y] = IF y \in reached
                                          THEN Append(calls[i][y], AppendArgs(i, y, lg))
                                          ELSE calls[i][y]
  BY <1>0, <1>2 DEF Links
<1>4. i \notin reached
  BY DEF Peers
<1>5. \A y \in reached : MadeFrom(i, lg, AppendArgs(i, y, lg))
  BY <1>1, ArgsMade
<1> QED BY <1>3, <1>4, <1>5 DEF LinksExtended, Peers

\* The calls of a link with one more.
LEMMA AppendedCalls ==
  ASSUME NEW s \in Seq(Call), NEW r
  PROVE  /\ DOMAIN Append(s, r) = 1..(Len(s) + 1) /\ DOMAIN s = 1..Len(s) /\ Len(s) \in Nat
         /\ Append(s, r)[Len(s) + 1] = r
         /\ \A q \in 1..Len(s) : Append(s, r)[q] = s[q]
  OBVIOUS

\* What is sent then was sent before or has just been made.
LEMMA ExtendedSent ==
  ASSUME calls \in Links, NEW i \in Server, NEW lg, LinksExtended(i, lg)
  PROVE  /\ RepliesOld
         /\ \A x, y \in Server : \A r \in Sent(x, y)' :
               r \in Sent(x, y) \/ (x = i /\ y # i /\ MadeFrom(i, lg, r))
<1>1. ASSUME NEW x \in Server, NEW y \in Server, NEW k \in DOMAIN calls'[x][y]
      PROVE  \/ \E m \in DOMAIN calls[x][y] : calls'[x][y][k] = calls[x][y][m]
             \/ x = i /\ y # i /\ MadeFrom(i, lg, calls'[x][y][k])
  <2>1. CASE calls'[x][y] = calls[x][y]
    BY <2>1
  <2>2. CASE calls'[x][y] # calls[x][y]
    <3>1. x = i /\ y \in Peers(i)
      BY <2>2 DEF LinksExtended, Peers
    <3>2. PICK r : MadeFrom(i, lg, r) /\ calls'[x][y] = Append(calls[x][y], r)
      BY <2>2, <3>1 DEF LinksExtended
    <3>3. calls[x][y] \in Seq(Call)
      BY DEF Links
    <3>4. /\ DOMAIN calls'[x][y] = 1..(Len(calls[x][y]) + 1)
          /\ DOMAIN calls[x][y] = 1..Len(calls[x][y]) /\ Len(calls[x][y]) \in Nat
          /\ calls'[x][y][Len(calls[x][y]) + 1] = r
          /\ \A q \in 1..Len(calls[x][y]) : calls'[x][y][q] = calls[x][y][q]
      BY <3>2, <3>3, AppendedCalls
    <3>5. CASE k = Len(calls[x][y]) + 1
      BY <3>1, <3>2, <3>4, <3>5 DEF Peers
    <3>6. CASE k \in 1..Len(calls[x][y])
      BY <3>4, <3>6
    <3> QED BY <3>4, <3>5, <3>6
  <2> QED BY <2>1, <2>2
<1>2. ASSUME NEW x \in Server, NEW y \in Server, NEW r \in Sent(x, y)'
      PROVE  r \in Sent(x, y) \/ (x = i /\ y # i /\ MadeFrom(i, lg, r))
  <2>1. PICK k \in DOMAIN calls'[x][y] : calls'[x][y][k].kind = "append" /\ r = calls'[x][y][k]
    BY SentAtNext
  <2> QED BY <1>1, <2>1, SentAt
<1>3. ASSUME NEW x \in Server, NEW y \in Server, NEW r \in Replies(x, y)'
      PROVE  r \in Replies(x, y)
  <2>1. PICK k \in DOMAIN calls'[x][y] :
           calls'[x][y][k].kind = "appendReply" /\ r = calls'[x][y][k]
    BY SentAtNext
  <2>2. ~MadeFrom(i, lg, r)
    BY <2>1 DEF MadeFrom
  <2> QED BY <1>1, <2>1, <2>2, SentAt
<1> QED BY <1>2, <1>3 DEF RepliesOld

\* They reach further than anything the leader has sent in its term.
LEMMA ExtendedInOrder ==
  ASSUME TypeOK, NEW i \in Server, NEW lg, Len(lg) \in Nat, LinksExtended(i, lg),
         IsLeader(i), SentIsPart, SentInOrder, Len(log[i]) <= Len(lg)
  PROVE  SentInOrder'
<1> SUFFICES ASSUME NEW x \in Server, NEW y \in Server PROVE InReachOrder(calls'[x][y])
  BY DEF SentInOrder
<1>1. CASE calls'[x][y] = calls[x][y]
  BY <1>1 DEF SentInOrder
<1>2. CASE calls'[x][y] # calls[x][y]
  <2> DEFINE s == calls[x][y]
             u == calls'[x][y]
  <2>1. x = i /\ y \in Peers(i)
    BY <1>2 DEF LinksExtended, Peers
  <2>2. PICK r : MadeFrom(i, lg, r) /\ u = Append(s, r)
    BY <1>2, <2>1 DEF LinksExtended
  <2>3. s \in Seq(Call)
    BY TypeParts DEF Links
  <2>4. InReachOrder(s)
    BY DEF SentInOrder
  <2>5. ASSUME NEW k \in DOMAIN s, s[k].kind = "append", s[k].term = currentTerm[i]
        PROVE  Reach(s[k]) <= Len(lg)
    <3>1. s[k] \in Sent(i, y)
      BY <2>1, <2>5, SentAt
    <3>2. Reach(s[k]) <= Len(log[i])
      BY <2>1, <2>5, <3>1 DEF SentIsPart, IsPart
    <3>3. Reach(s[k]) \in Nat /\ Len(log[i]) \in Nat
      BY <2>1, <3>1, SentFacts, RequestFacts, PeerFacts
    <3> QED BY <3>2, <3>3
  <2> HIDE DEF s, u
  <2>6. /\ DOMAIN u = 1..(Len(s) + 1) /\ DOMAIN s = 1..Len(s) /\ Len(s) \in Nat
        /\ u[Len(s) + 1] = r /\ \A q \in 1..Len(s) : u[q] = s[q]
    BY <2>2, <2>3, AppendedCalls
  <2>7. ASSUME NEW k \in DOMAIN u, NEW m \in DOMAIN u, k < m, u[k].kind = "append",
               u[m].kind = "append", u[k].term = u[m].term
        PROVE  Reach(u[k]) <= Reach(u[m])
    <3>1. k \in 1..Len(s) /\ u[k] = s[k] /\ k \in DOMAIN s
      BY <2>6, <2>7
    <3>2. CASE m = Len(s) + 1
      BY <2>2, <2>5, <2>6, <2>7, <3>1, <3>2 DEF MadeFrom
    <3>3. CASE m \in 1..Len(s)
      BY <2>4, <2>6, <2>7, <3>1, <3>3 DEF InReachOrder
    <3> QED BY <2>6, <3>2, <3>3
  <2> QED BY <2>7 DEF InReachOrder, u
<1> QED BY <1>1, <1>2

-----------------------------------------------------------------------------
(* What a step does to the peers. *)

\* No peer's term falls.
TermsGrow == \A p \in Server : currentTerm'[p] >= currentTerm[p]

\* Nobody becomes candidate or leader.
OfficesKept ==
    \A p \in Server : serverState'[p] # "follower" =>
        serverState'[p] = serverState[p] /\ currentTerm'[p] = currentTerm[p]

LeaderIndicesKept ==
    \A i \in Server : serverState'[i] = "leader" =>
        matchIndex'[i] = matchIndex[i] /\ nextIndex'[i] = nextIndex[i]

\* The vote requests in flight were in flight before.
AskedBefore == \A c \in voteCalls' : c.kind = "request" => c \in voteCalls

\* A step without effect on logs, votes and requests.
Calm ==
    /\ TermsGrow /\ OfficesKept /\ SentOld /\ AskedBefore
    /\ UNCHANGED <<log, votes, elected>>

\* A leader is told nothing new.
AckedLess ==
    \A i \in Server : IsLeader(i)' => \A p \in Server : Acked(i, p)' \subseteq Acked(i, p)

\* The number of acknowledged entries, as sets of requests and replies.
LEMMA AckedIs ==
  ASSUME NEW i \in Server, NEW p \in Server, NEW n
  PROVE  /\ n \in Acked(i, p) <=>
              \/ n = matchIndex[i][p]
              \/ \E r \in Replies(i, p) : r.term = currentTerm[i] /\ r.success /\ n = r.prevI + r.ent
         /\ n \in Acked(i, p)' <=>
              \/ n = matchIndex'[i][p]
              \/ \E r \in Replies(i, p)' :
                    r.term = currentTerm'[i] /\ r.success /\ n = r.prevI + r.ent
  BY DEF Acked

\* Fewer replies and the same indices tell nothing new.
LEMMA NothingTold ==
  ASSUME RepliesOld, OfficesKept, LeaderIndicesKept
  PROVE  AckedLess
<1> SUFFICES ASSUME NEW i \in Server, IsLeader(i)', NEW p \in Server, NEW n \in Acked(i, p)'
             PROVE  n \in Acked(i, p)
  BY DEF AckedLess
<1>1. serverState'[i] = "leader" /\ serverState'[i] # "follower"
  BY DEF IsLeader
<1>2. matchIndex'[i] = matchIndex[i] /\ currentTerm'[i] = currentTerm[i]
  BY <1>1 DEF OfficesKept, LeaderIndicesKept
<1>3. CASE n = matchIndex'[i][p]
  BY <1>2, <1>3, AckedIs
<1>4. CASE \E r \in Replies(i, p)' : r.term = currentTerm'[i] /\ r.success /\ n = r.prevI + r.ent
  <2>1. PICK r \in Replies(i, p)' : r.term = currentTerm'[i] /\ r.success /\ n = r.prevI + r.ent
    BY <1>4
  <2>2. r \in Replies(i, p)
    BY DEF RepliesOld
  <2> QED BY <1>2, <2>1, <2>2, AckedIs
<1> QED BY <1>3, <1>4, AckedIs

\* nextIndex stays in range as the log stays and no hint arrives.
LEMMA NoHint ==
  ASSUME NextInRange, RepliesOld, OfficesKept, LeaderIndicesKept, UNCHANGED log
  PROVE  NextInRange'
<1> SUFFICES ASSUME NEW i \in Server, NEW p \in Server, IsLeader(i)'
             PROVE  /\ nextIndex'[i][p] \in 1..(Len(log'[i]) + 1)
                    /\ \A r \in Replies(i, p)' : r.term = currentTerm'[i] =>
                          r.XLen <= Len(log'[i]) + 1 /\ r.XIndex <= Len(log'[i]) + 1
  BY DEF NextInRange
<1>1. serverState'[i] = "leader" /\ serverState'[i] # "follower"
  BY DEF IsLeader
<1>2. nextIndex'[i] = nextIndex[i] /\ currentTerm'[i] = currentTerm[i] /\ IsLeader(i)
  BY <1>1 DEF OfficesKept, LeaderIndicesKept, IsLeader
<1> QED BY <1>2 DEF NextInRange, RepliesOld

\* A leader needs nobody to be given a snapshot.
LEMMA NobodyBehind ==
  ASSUME TypeOK, NoSnapshots, NextInRange, NEW i \in Server, IsLeader(i)
  PROVE  Behind(i) = {}
<1>1. ASSUME NEW p \in Peers(i) PROVE ~(nextIndex[i][p] <= lastIncludedIndex[i])
  <2>1. p \in Server /\ Len(log[i]) \in Nat
    BY PeerFacts DEF Peers
  <2>2. nextIndex[i][p] \in 1..(Len(log[i]) + 1)
    BY <2>1 DEF NextInRange
  <2>3. lastIncludedIndex[i] = 0
    BY DEF NoSnapshots
  <2> QED BY <2>1, <2>2, <2>3
<1> QED BY <1>1 DEF Behind

\* The steps that compaction and preemption add.
Disabled(i) ==
    /\ ~TickerObserve(i)
    /\ \A n : ~Snapshot(i, n) /\ ~CrashInSnapshot(i, n)
    /\ \A p : ~SendInstallSnapshot(i, p)
    /\ \A j \in Server : \A k \in DOMAIN calls[i][j] :
          /\ ~InstallSnapshotEarly(i, j, k) /\ ~InstallSnapshot(i, j, k)
          /\ ~InstallSucceeded(i, j, k) /\ ~CrashInInstall(i, j, k)

\* None of them happens with an undisturbed ticker and no compaction.
LEMMA NoCompaction ==
  ASSUME InOrderOnly, NoSnapshots, NEW i \in Server
  PROVE  Disabled(i)
<1>1. ~TickerObserve(i)
  BY DEF InOrderOnly, TickerObserve
<1>2. \A n : ~Snapshot(i, n) /\ ~CrashInSnapshot(i, n)
  BY DEF InOrderOnly, Snapshot, CrashInSnapshot, MayCompact
<1>3. \A p : ~SendInstallSnapshot(i, p)
  BY DEF NoSnapshots, SendInstallSnapshot
<1>4. ASSUME NEW j \in Server, NEW k \in DOMAIN calls[i][j]
      PROVE  /\ ~InstallSnapshotEarly(i, j, k) /\ ~InstallSnapshot(i, j, k)
             /\ ~InstallSucceeded(i, j, k) /\ ~CrashInInstall(i, j, k)
  <2>1. calls[i][j][k].kind \in {"append", "appendReply"}
    BY DEF NoSnapshots
  <2> QED BY <2>1 DEF InstallSnapshotEarly, InstallSnapshot, InstallSucceeded, CrashInInstall,
                      Installs
<1> QED BY <1>1, <1>2, <1>3, <1>4 DEF Disabled

\* A restart changes the office and the indices of one peer.
LEMMA RestartEffect ==
  ASSUME TypeOK, PersistedCurrent, NoSnapshots, NEW i \in Server, Make(i, persisted[i])
  PROVE  /\ UNCHANGED <<currentTerm, log, lastIncludedIndex, lastIncludedTerm, votes, elected,
                        applied, voteCalls>>
         /\ serverState'[i] = "follower" /\ commitIndex'[i] = 0 /\ lastApplied'[i] = 0
         /\ \A p \in Server : p # i =>
               /\ serverState'[p] = serverState[p] /\ commitIndex'[p] = commitIndex[p]
               /\ lastApplied'[p] = lastApplied[p] /\ matchIndex'[p] = matchIndex[p]
               /\ nextIndex'[p] = nextIndex[p]
         /\ \A p \in Server : installers'[p] \subseteq installers[p] /\ (ticker'[p] => ticker[p])
<1>1. /\ persisted[i].log = log[i] /\ persisted[i].lastIncludedIndex = lastIncludedIndex[i]
      /\ persisted[i].currentTerm = currentTerm[i]
  <2>1. persisted[i] = RaftState(i)
    BY DEF PersistedCurrent
  <2> QED BY <2>1 DEF RaftState
<1>2. UNCHANGED logVars
  BY RestartLogs
<1>3. UNCHANGED currentTerm
  BY <1>1 DEF Make, TypeOK
<1>4. lastIncludedIndex[i] = 0
  BY DEF NoSnapshots
<1>5. /\ serverState'[i] = "follower" /\ commitIndex'[i] = 0 /\ lastApplied'[i] = 0
  BY <1>1, <1>4 DEF Make, Resume, TypeOK
<1>6. ASSUME NEW p \in Server, p # i
      PROVE  /\ serverState'[p] = serverState[p] /\ commitIndex'[p] = commitIndex[p]
             /\ lastApplied'[p] = lastApplied[p] /\ matchIndex'[p] = matchIndex[p]
             /\ nextIndex'[p] = nextIndex[p] /\ installers'[p] = installers[p]
             /\ ticker'[p] = ticker[p]
  BY <1>6 DEF Make, TypeOK
<1>7. installers'[i] = {} /\ ticker'[i] = FALSE
  BY DEF Make, TypeOK
<1>8. \A p \in Server : installers'[p] \subseteq installers[p] /\ (ticker'[p] => ticker[p])
  BY <1>6, <1>7
<1>9. UNCHANGED <<votes, elected, applied, voteCalls>>
  BY DEF Make
<1> QED BY <1>2, <1>3, <1>5, <1>6, <1>8, <1>9 DEF logVars

\* commitIndex and lastApplied stay, or start again.
Restartable(p) ==
    \/ commitIndex'[p] = commitIndex[p] /\ lastApplied'[p] = lastApplied[p]
    \/ commitIndex'[p] = 0 /\ lastApplied'[p] = 0

\* The leader i sends requests with the log lg: its log, or that and one entry
\* more, which a crash may take from it again.
Sends(i, lg) ==
    /\ IsLeader(i) /\ lg \in Seq(LogEntry)
    /\ Len(log[i]) <= Len(lg) /\ Len(lg) <= Len(log[i]) + 1
    /\ \A m \in 1..Len(log[i]) : lg[m] = log[i][m]
    /\ \A m \in 1..Len(lg) : m > Len(log[i]) => lg[m].term = currentTerm[i]
    /\ LinksExtended(i, lg)
    /\ \A p \in Server : p # i => log'[p] = log[p]
    /\ log'[i] \in {log[i], lg} /\ (serverState'[i] = "leader" => log'[i] = lg)
    /\ OfficesKept
    /\ \A p \in Server : serverState'[p] = "leader" =>
          /\ nextIndex'[p] = nextIndex[p]
          /\ \A q \in Server : p # i \/ q # i => matchIndex'[p][q] = matchIndex[p][q]
    /\ serverState'[i] = "leader" => matchIndex'[i][i] \in {matchIndex[i][i], Len(lg)}
    /\ UNCHANGED <<currentTerm, votes, elected, voteCalls, applied>>
    /\ \A p \in Server : Restartable(p)

\* A log and the entry of a leader's term after it.
LEMMA AppendedEntry ==
  ASSUME TypeOK, NEW i \in Server, NEW cmd \in Command
  PROVE  LET lg == Append(log[i], NewEntry(i, cmd)) IN
         /\ lg \in Seq(LogEntry) /\ Len(lg) = Len(log[i]) + 1
         /\ \A m \in 1..Len(log[i]) : lg[m] = log[i][m]
         /\ \A m \in 1..Len(lg) : m > Len(log[i]) => lg[m].term = currentTerm[i]
<1> DEFINE e  == NewEntry(i, cmd)
           lg == Append(log[i], NewEntry(i, cmd))
<1>1. e \in LogEntry /\ e.term = currentTerm[i]
  BY PeerFacts DEF NewEntry, LogEntry
<1>2. log[i] \in Seq(LogEntry) /\ Len(log[i]) \in Nat
  BY PeerFacts
<1> HIDE DEF e
<1>3. /\ lg \in Seq(LogEntry) /\ Len(lg) = Len(log[i]) + 1
      /\ \A m \in 1..Len(log[i]) : lg[m] = log[i][m]
      /\ lg[Len(log[i]) + 1] = e
  BY <1>1, <1>2 DEF e
<1> HIDE DEF lg
<1>4. ASSUME NEW m \in 1..Len(lg), m > Len(log[i]) PROVE lg[m].term = currentTerm[i]
  <2>1. m = Len(log[i]) + 1
    BY <1>2, <1>3, <1>4
  <2> QED BY <1>1, <1>3, <2>1
<1> QED BY <1>3, <1>4 DEF lg

\* Start() appends an entry and sends it with the log.
LEMMA StartSends ==
  ASSUME TypeOK, NoSnapshots, NEW i \in Server, NEW cmd \in Command, Start(i, cmd)
  PROVE  \E lg : Sends(i, lg)
<1>1. PICK lg : lg = Append(log[i], NewEntry(i, cmd))
  OBVIOUS
<1>2. /\ lg \in Seq(LogEntry) /\ Len(lg) = Len(log[i]) + 1
      /\ \A m \in 1..Len(log[i]) : lg[m] = log[i][m]
      /\ \A m \in 1..Len(lg) : m > Len(log[i]) => lg[m].term = currentTerm[i]
  BY <1>1, AppendedEntry
<1>3. /\ IsLeader(i) /\ Replicate(i, lg)
      /\ log' = [log EXCEPT ![i] = lg]
      /\ matchIndex' = [matchIndex EXCEPT ![i][i] = lastLogIndex(i) + 1]
      /\ UNCHANGED <<termVars, applyVars, nextIndex, voteHist, voteCalls>>
  BY <1>1 DEF Start, IsLeader
<1>4. LinksExtended(i, lg)
  BY <1>2, <1>3, ReplicateLinks
<1>5. Len(log[i]) \in Nat /\ Len(log[i]) <= Len(lg) /\ Len(lg) <= Len(log[i]) + 1
  BY <1>2, PeerFacts
<1>6. lastLogIndex(i) + 1 = Len(lg)
  BY <1>2, PlainLog
<1>7. log'[i] = lg /\ \A p \in Server : p # i => log'[p] = log[p]
  BY <1>3 DEF TypeOK
<1>8. /\ matchIndex'[i][i] = Len(lg)
      /\ \A p, q \in Server : p # i \/ q # i => matchIndex'[p][q] = matchIndex[p][q]
  BY <1>3, <1>6 DEF TypeOK
<1>9. OfficesKept
  BY <1>3 DEF OfficesKept, termVars
<1>10. UNCHANGED <<currentTerm, votes, elected, voteCalls, applied>>
  BY <1>3 DEF termVars, voteHist, applyVars
<1>11. \A p \in Server : Restartable(p)
  BY <1>3 DEF Restartable, applyVars
<1> QED BY <1>2, <1>3, <1>4, <1>5, <1>7, <1>8, <1>9, <1>10, <1>11 DEF Sends

\* ticker() sends the log as it is.
LEMMA TickerSends ==
  ASSUME TypeOK, InOrderOnly, NoSnapshots, NEW i \in Server, TickerSend(i)
  PROVE  \E lg : Sends(i, lg)
<1>1. /\ IsLeader(i) /\ Replicate(i, log[i])
      /\ UNCHANGED <<termVars, logVars, applyVars, peerVars, voteHist, voteCalls>>
  BY DEF TickerSend, IsLeader, InOrderOnly
<1>2. log[i] \in Seq(LogEntry) /\ Len(log[i]) \in Nat
  BY PeerFacts
<1>3. LinksExtended(i, log[i])
  BY <1>1, <1>2, ReplicateLinks
<1>4. Len(log[i]) <= Len(log[i]) /\ Len(log[i]) <= Len(log[i]) + 1
  BY <1>2
<1>5. \A m \in 1..Len(log[i]) : ~(m > Len(log[i]))
  BY <1>2
<1>6. OfficesKept
  BY <1>1 DEF OfficesKept, termVars
<1>7. UNCHANGED <<currentTerm, votes, elected, voteCalls, applied, log, nextIndex, matchIndex>>
  BY <1>1 DEF termVars, voteHist, applyVars, logVars, peerVars
<1>8. \A p \in Server : Restartable(p)
  BY <1>1 DEF Restartable, applyVars
<1>9. Sends(i, log[i])
  BY <1>1, <1>2, <1>3, <1>4, <1>5, <1>6, <1>7, <1>8 DEF Sends
<1> QED BY <1>9

\* Start() cut off by a crash has sent an entry, and kept it only if it was
\* saved.
LEMMA CrashSends ==
  ASSUME TypeOK, PersistedCurrent, NoSnapshots, NEW i \in Server, NEW cmd \in Command,
         CrashInStart(i, cmd)
  PROVE  \E lg : Sends(i, lg)
<1>1. PICK lg : lg = Append(log[i], NewEntry(i, cmd))
  OBVIOUS
<1>2. /\ lg \in Seq(LogEntry) /\ Len(lg) = Len(log[i]) + 1
      /\ \A m \in 1..Len(log[i]) : lg[m] = log[i][m]
      /\ \A m \in 1..Len(lg) : m > Len(log[i]) => lg[m].term = currentTerm[i]
  BY <1>1, AppendedEntry
<1>3. IsLeader(i) /\ Replicate(i, lg) /\ Make(i, persisted[i])
  BY <1>1 DEF CrashInStart, IsLeader
<1>4. LinksExtended(i, lg)
  BY <1>2, <1>3, ReplicateLinks
<1>5. Len(log[i]) \in Nat /\ Len(log[i]) <= Len(lg) /\ Len(lg) <= Len(log[i]) + 1
  BY <1>2, PeerFacts
<1>6. /\ UNCHANGED <<currentTerm, log, votes, elected, applied, voteCalls>>
      /\ serverState'[i] = "follower" /\ commitIndex'[i] = 0 /\ lastApplied'[i] = 0
      /\ \A p \in Server : p # i =>
            /\ serverState'[p] = serverState[p] /\ commitIndex'[p] = commitIndex[p]
            /\ lastApplied'[p] = lastApplied[p] /\ matchIndex'[p] = matchIndex[p]
            /\ nextIndex'[p] = nextIndex[p]
  BY <1>3, RestartEffect
<1>7. serverState'[i] # "leader"
  BY <1>6
<1>8. OfficesKept
  BY <1>6 DEF OfficesKept
<1>9. \A p \in Server : Restartable(p)
  BY <1>6 DEF Restartable
<1>10. \A p \in Server : serverState'[p] = "leader" =>
          /\ nextIndex'[p] = nextIndex[p]
          /\ \A q \in Server : p # i \/ q # i => matchIndex'[p][q] = matchIndex[p][q]
  BY <1>6, <1>7
<1>11. Sends(i, lg)
  BY <1>2, <1>3, <1>4, <1>5, <1>6, <1>7, <1>8, <1>9, <1>10 DEF Sends
<1> QED BY <1>11

-----------------------------------------------------------------------------
(* The AppendEntries handler that succeeds. *)

\* The follower j takes the request a of i: its log is then what it was up to
\* prevLogIndex and after that what the request carries.
Takes(i, j, a) ==
    /\ a \in Sent(i, j)
    /\ currentTerm[j] <= a.term /\ currentTerm'[j] = a.term /\ serverState'[j] = "follower"
    /\ \A p \in Server : p # j =>
          /\ currentTerm'[p] = currentTerm[p] /\ serverState'[p] = serverState[p]
          /\ log'[p] = log[p] /\ commitIndex'[p] = commitIndex[p]
          /\ lastApplied'[p] = lastApplied[p]
    /\ a.prevLogIndex <= Len(log[j])
    /\ a.prevLogIndex > 0 => log[j][a.prevLogIndex].term = a.prevLogTerm
    /\ Len(log'[j]) = Reach(a)
    /\ \A m \in 1..a.prevLogIndex : log'[j][m] = log[j][m]
    /\ \A m \in (a.prevLogIndex + 1)..Reach(a) : log'[j][m] = a.entries[m - a.prevLogIndex]
    /\ commitIndex'[j] = Smaller(Larger(commitIndex[j], a.leaderCommit), Reach(a))
    /\ lastApplied'[j] = Smaller(lastApplied[j], Reach(a))
    /\ SentOld
    /\ \A x, y \in Server : \A q \in Replies(x, y)' :
          q \in Replies(x, y) \/ (x = i /\ y = j /\ q = AppendReply(a, a.term, TRUE, 0, 0, 0))
    /\ UNCHANGED <<votes, elected, voteCalls, applied, nextIndex, matchIndex>>

\* Whatever is still on its way from i to j in that term reaches as far.
TakesFirst(i, j, a) == \A r \in Sent(i, j)' : r.term = a.term => Reach(a) <= Reach(r)

\* AppendEntries() takes its request, and on an ordered link before every later
\* one of the same leader.
LEMMA AppendTakes ==
  ASSUME TypeOK, InOrderOnly, NoSnapshots, SentInOrder, NEW i \in Server, NEW j \in Server,
         NEW k \in DOMAIN calls[i][j], AppendEntries(i, j, k)
  PROVE  Takes(i, j, calls[i][j][k]) /\ TakesFirst(i, j, calls[i][j][k]) /\ SentInOrder'
<1> DEFINE a == calls[i][j][k]
           r == AppendReply(a, a.term, TRUE, 0, 0, 0)
<1>1. a.kind = "append" /\ a \in Sent(i, j)
  BY SentAt DEF AppendEntries
<1>2. a \in AppendRequest
  BY <1>1, SentFacts
<1>3. /\ a.term \in Nat /\ a.prevLogIndex \in Nat /\ a.entries \in Seq(LogEntry)
      /\ Len(a.entries) \in Nat /\ Reach(a) \in Nat
  BY <1>2, RequestFacts
<1>4. /\ lastIncludedIndex[j] = 0 /\ log[j] \in Seq(LogEntry) /\ Len(log[j]) \in Nat
      /\ currentTerm[j] \in Nat /\ lastLogIndex(j) = Len(log[j])
  BY PlainLog, PeerFacts
<1>5. /\ Deliverable(i, j, k) /\ a.term >= currentTerm[j] /\ PrevMatches(j, a)
      /\ AdoptTerm(j, a.term) /\ Answer(i, j, k, r)
      /\ log' = [log EXCEPT ![j] = SubSeq(log[j], 1, a.prevLogIndex - lastIncludedIndex[j])
                                     \o a.entries]
      /\ commitIndex' = [commitIndex EXCEPT ![j] =
                Smaller(Larger(commitIndex[j], a.leaderCommit), Reach(a))]
      /\ lastApplied' = [lastApplied EXCEPT ![j] = Smaller(lastApplied[j], Reach(a))]
      /\ UNCHANGED <<applied, peerVars, voteHist, voteCalls>>
  BY DEF AppendEntries, Reach
<1>6. r.kind = "appendReply"
  BY DEF AppendReply
<1>7. calls \in Links
  BY TypeParts
<1> HIDE DEF r
<1>8. LinkChanged(i, j, k, r)
  BY <1>5, <1>6, <1>7, AnswerLink
<1>9. /\ SentOld /\ SentInOrder'
      /\ \A x, y \in Server : \A q \in Replies(x, y)' :
            q \in Replies(x, y) \/ (x = i /\ y = j /\ q = r)
  BY <1>6, <1>8, ChangedSent
<1>10. TakesFirst(i, j, a)
  BY <1>1, <1>5, <1>6, <1>7, <1>8, FirstReachesLeast DEF TakesFirst, InOrderOnly
<1> HIDE DEF a
<1>11. PICK b \in Nat : b = a.prevLogIndex
  BY <1>3
<1>12. b <= Len(log[j]) /\ b - lastIncludedIndex[j] = b /\ b \in 0..Len(log[j])
  BY <1>4, <1>5, <1>11 DEF PrevMatches
<1>13. b > 0 => log[j][b].term = a.prevLogTerm
  BY <1>4, <1>5, <1>11, <1>12 DEF PrevMatches, TermAt
<1> DEFINE u == SubSeq(log[j], 1, b)
<1>14. /\ u \in Seq(LogEntry) /\ Len(u) = b
       /\ \A m \in 1..b : u[m] = log[j][m]
  BY <1>4, <1>12
<1> HIDE DEF u
<1>15. log' = [log EXCEPT ![j] = u \o a.entries]
  BY <1>5, <1>11, <1>12 DEF u
<1>16. log'[j] = u \o a.entries /\ \A p \in Server : p # j => log'[p] = log[p]
  BY <1>15 DEF TypeOK
<1>17. /\ Len(log'[j]) = Len(u) + Len(a.entries)
       /\ \A m \in 1..Len(u) : log'[j][m] = u[m]
       /\ \A m \in 1..Len(a.entries) : log'[j][Len(u) + m] = a.entries[m]
  <2>1. /\ Len(u \o a.entries) = Len(u) + Len(a.entries)
        /\ \A m \in 1..Len(u) : (u \o a.entries)[m] = u[m]
        /\ \A m \in 1..Len(a.entries) : (u \o a.entries)[Len(u) + m] = a.entries[m]
    <3>1. u \in Seq(LogEntry) /\ a.entries \in Seq(LogEntry)
      BY <1>3, <1>14
    <3> QED BY <3>1, ConcatAt
  <2> QED BY <1>16, <2>1
<1>18. Len(log'[j]) = Reach(a) /\ \A m \in 1..b : log'[j][m] = log[j][m]
  BY <1>11, <1>14, <1>17 DEF Reach
<1>19. ASSUME NEW m \in (b + 1)..Reach(a) PROVE log'[j][m] = a.entries[m - b]
  <2>1. m - b \in 1..Len(a.entries) /\ b + (m - b) = m
    <3>1. PICK len \in Nat : len = Len(a.entries)
      BY <1>3
    <3>2. Reach(a) = b + len
      BY <1>11, <3>1 DEF Reach
    <3>3. m \in (b + 1)..(b + len)
      BY <1>19, <3>2
    <3>4. m - b \in 1..len /\ b + (m - b) = m
      BY <3>3
    <3> QED BY <3>1, <3>4
  <2> QED BY <1>14, <1>17, <2>1
<1>20. /\ currentTerm'[j] = a.term /\ serverState'[j] = "follower"
       /\ commitIndex'[j] = Smaller(Larger(commitIndex[j], a.leaderCommit), Reach(a))
       /\ lastApplied'[j] = Smaller(lastApplied[j], Reach(a))
       /\ \A p \in Server : p # j =>
             /\ currentTerm'[p] = currentTerm[p] /\ serverState'[p] = serverState[p]
             /\ commitIndex'[p] = commitIndex[p] /\ lastApplied'[p] = lastApplied[p]
  BY <1>5 DEF AdoptTerm, TypeOK
<1>21. currentTerm[j] <= a.term
  BY <1>3, <1>4, <1>5
<1>22. UNCHANGED <<votes, elected, voteCalls, applied, nextIndex, matchIndex>>
  BY <1>5 DEF voteHist, peerVars
<1>23. Takes(i, j, a)
  BY <1>1, <1>9, <1>11, <1>12, <1>13, <1>16, <1>18, <1>19, <1>20, <1>21, <1>22 DEF Takes, r
<1> QED BY <1>9, <1>10, <1>23 DEF a

-----------------------------------------------------------------------------
(* Steps without effect on logs, votes and requests. *)

Quietly == Calm /\ AckedLess /\ NextInRange' /\ SentInOrder'

\* Nothing arrives at a leader.
LEMMA UntoldQuietly ==
  ASSUME NextInRange, TermsGrow, OfficesKept, SentOld, RepliesOld, LeaderIndicesKept, AskedBefore,
         UNCHANGED <<log, votes, elected>>, SentInOrder'
  PROVE  Quietly
  BY NothingTold, NoHint DEF Quietly, Calm

\* The calls stay as they are.
LEMMA SameSent ==
  ASSUME UNCHANGED calls
  PROVE  SentOld /\ RepliesOld /\ (SentInOrder => SentInOrder')
<1>1. \A i, j \in Server : Sent(i, j)' = Sent(i, j) /\ Replies(i, j)' = Replies(i, j)
  BY DEF Sent, Replies
<1> QED BY <1>1 DEF SentOld, RepliesOld, SentInOrder

\* A peer that adopts a term leaves its office, if any.
LEMMA AdoptOffices ==
  ASSUME TypeOK, NEW i \in Server, NEW t, AdoptTerm(i, t)
  PROVE  OfficesKept
<1>1. /\ serverState'[i] = "follower"
      /\ \A p \in Server : p # i => serverState'[p] = serverState[p] /\ currentTerm'[p] = currentTerm[p]
  BY DEF AdoptTerm, TypeOK
<1> QED BY <1>1 DEF OfficesKept

\* A reply to a vote request is no request.
LEMMA AnswerAsked ==
  ASSUME NEW c, NEW t, NEW g, AnswerVote(c, VoteReply(c, t, g))
  PROVE  AskedBefore
<1>1. VoteReply(c, t, g).kind # "request"
  BY DEF VoteReply
<1> QED BY <1>1 DEF AnswerVote, AskedBefore

\* The apply routine only delivers.
LEMMA ApplyQuietly ==
  ASSUME TypeOK, NextInRange, SentInOrder, TermsGrow, NEW i \in Server, BackgroundApplyRoutine(i)
  PROVE  Quietly
<1>1. UNCHANGED <<termVars, logVars, peerVars, voteHist, voteCalls, calls>>
  BY DEF BackgroundApplyRoutine
<1>2. UNCHANGED <<log, votes, elected>> /\ AskedBefore
  BY <1>1 DEF logVars, voteHist, AskedBefore
<1>3. OfficesKept /\ LeaderIndicesKept
  BY <1>1 DEF OfficesKept, LeaderIndicesKept, termVars, peerVars
<1> QED BY <1>1, <1>2, <1>3, SameSent, UntoldQuietly

\* A restart keeps what was saved, and leaves the peer's office.
LEMMA CrashQuietly ==
  ASSUME TypeOK, PersistedCurrent, NoSnapshots, NextInRange, SentInOrder, TermsGrow,
         NEW i \in Server, Crash(i)
  PROVE  Quietly
<1>1. Make(i, persisted[i]) /\ UNCHANGED calls
  BY DEF Crash
<1>2. /\ UNCHANGED <<currentTerm, log, votes, elected, voteCalls>>
      /\ serverState'[i] = "follower"
      /\ \A p \in Server : p # i =>
            /\ serverState'[p] = serverState[p] /\ matchIndex'[p] = matchIndex[p]
            /\ nextIndex'[p] = nextIndex[p]
  BY <1>1, RestartEffect
<1>3. OfficesKept /\ LeaderIndicesKept
  BY <1>2 DEF OfficesKept, LeaderIndicesKept
<1>4. AskedBefore
  BY <1>2 DEF AskedBefore
<1> QED BY <1>1, <1>2, <1>3, <1>4, SameSent, UntoldQuietly

\* Refused votes and late answers change no log.
LEMMA VoteQuietly ==
  ASSUME TypeOK, NextInRange, SentInOrder, TermsGrow, NEW c \in voteCalls,
         RequestVoteStale(c) \/ VoteIgnored(c) \/ VoteStepDown(c)
  PROVE  Quietly
<1>0. c.src \in Server
  BY TypeParts, VoteCallKinds
<1>1. UNCHANGED <<logVars, peerVars, voteHist, calls>>
  BY DEF RequestVoteStale, VoteIgnored, VoteStepDown
<1>2. UNCHANGED <<log, votes, elected>> /\ LeaderIndicesKept
  BY <1>1 DEF logVars, voteHist, peerVars, LeaderIndicesKept
<1>3. CASE RequestVoteStale(c)
  <2>1. AskedBefore
    BY <1>3, AnswerAsked DEF RequestVoteStale
  <2>2. OfficesKept
    BY <1>3 DEF RequestVoteStale, termVars, OfficesKept
  <2> QED BY <1>1, <1>2, <2>1, <2>2, SameSent, UntoldQuietly
<1>4. CASE VoteIgnored(c)
  <2>1. OfficesKept /\ AskedBefore
    BY <1>4 DEF VoteIgnored, termVars, OfficesKept, AskedBefore
  <2> QED BY <1>1, <1>2, <2>1, SameSent, UntoldQuietly
<1>5. CASE VoteStepDown(c)
  <2>1. AskedBefore /\ AdoptTerm(c.src, c.replyTerm)
    BY <1>5 DEF VoteStepDown, AskedBefore
  <2>2. OfficesKept
    BY <1>0, <2>1, AdoptOffices
  <2> QED BY <1>1, <1>2, <2>1, <2>2, SameSent, UntoldQuietly
<1> QED BY <1>3, <1>4, <1>5

\* Late replies and replies from a newer term tell a leader nothing.
LEMMA ReplyQuietly ==
  ASSUME TypeOK, NextInRange, SentInOrder, TermsGrow, NEW i \in Server, NEW j \in Server,
         NEW k \in DOMAIN calls[i][j], ReplyIgnored(i, j, k) \/ ReplyStepDown(i, j, k)
  PROVE  Quietly
<1>1. UNCHANGED <<logVars, peerVars, voteHist, voteCalls>> /\ Hangup(i, j, k)
  BY DEF ReplyIgnored, ReplyStepDown
<1>2. UNCHANGED <<log, votes, elected>> /\ LeaderIndicesKept /\ AskedBefore
  BY <1>1 DEF logVars, voteHist, peerVars, LeaderIndicesKept, AskedBefore
<1>3. OfficesKept
  <2>1. CASE ReplyIgnored(i, j, k)
    BY <2>1 DEF ReplyIgnored, termVars, OfficesKept
  <2>2. CASE ReplyStepDown(i, j, k)
    <3>1. AdoptTerm(i, calls[i][j][k].replyTerm)
      BY <2>2 DEF ReplyStepDown
    <3> QED BY <3>1, AdoptOffices
  <2> QED BY <2>1, <2>2
<1>4. SentOld /\ RepliesOld /\ SentInOrder'
  BY <1>1, TypeParts, HangupSent
<1> QED BY <1>2, <1>3, <1>4, UntoldQuietly

\* A refusal tells a leader nothing but hints within its log.
LEMMA RefusalQuietly ==
  ASSUME TypeOK, NextInRange, SentInOrder, TermsGrow, NEW i \in Server, NEW j \in Server,
         NEW k \in DOMAIN calls[i][j], NEW a, NEW t, NEW XT, NEW XI, NEW XL,
         Answer(i, j, k, AppendReply(a, t, FALSE, XT, XI, XL)),
         IsLeader(i) /\ currentTerm[i] = a.term => XL <= Len(log[i]) + 1 /\ XI <= Len(log[i]) + 1,
         OfficesKept, UNCHANGED <<logVars, peerVars, voteHist, voteCalls>>
  PROVE  Quietly
<1> DEFINE r == AppendReply(a, t, FALSE, XT, XI, XL)
<1>1. r.kind = "appendReply" /\ r.term = a.term /\ r.success = FALSE /\ r.XIndex = XI /\ r.XLen = XL
  BY DEF AppendReply
<1>2. UNCHANGED <<log, votes, elected, nextIndex, matchIndex>> /\ AskedBefore
  BY DEF logVars, voteHist, peerVars, AskedBefore
<1> HIDE DEF r
<1>3. LinkChanged(i, j, k, r)
  BY <1>1, TypeParts, AnswerLink DEF r
<1>4. /\ SentOld /\ SentInOrder'
      /\ \A x, y \in Server : \A q \in Replies(x, y)' :
            q \in Replies(x, y) \/ (x = i /\ y = j /\ q = r)
  BY <1>1, <1>3, ChangedSent
<1>5. \A x \in Server : IsLeader(x)' => IsLeader(x) /\ currentTerm'[x] = currentTerm[x]
  BY DEF IsLeader, OfficesKept
<1>6. ASSUME NEW x \in Server, IsLeader(x)', NEW p \in Server, NEW n \in Acked(x, p)'
      PROVE  n \in Acked(x, p)
  <2>1. CASE n = matchIndex'[x][p]
    BY <1>2, <2>1, AckedIs
  <2>2. CASE \E q \in Replies(x, p)' : q.term = currentTerm'[x] /\ q.success /\ n = q.prevI + q.ent
    <3>1. PICK q \in Replies(x, p)' : q.term = currentTerm'[x] /\ q.success /\ n = q.prevI + q.ent
      BY <2>2
    <3>2. q # r
      BY <1>1, <3>1
    <3>3. q \in Replies(x, p)
      BY <1>4, <3>2
    <3> QED BY <1>5, <1>6, <3>1, <3>3, AckedIs
  <2> QED BY <2>1, <2>2, AckedIs
<1>7. ASSUME NEW x \in Server, NEW p \in Server, IsLeader(x)'
      PROVE  /\ nextIndex'[x][p] \in 1..(Len(log'[x]) + 1)
             /\ \A q \in Replies(x, p)' : q.term = currentTerm'[x] =>
                   q.XLen <= Len(log'[x]) + 1 /\ q.XIndex <= Len(log'[x]) + 1
  <2>1. IsLeader(x) /\ currentTerm'[x] = currentTerm[x]
    BY <1>5, <1>7
  <2>2. ASSUME NEW q \in Replies(x, p)', q.term = currentTerm'[x]
        PROVE  q.XLen <= Len(log'[x]) + 1 /\ q.XIndex <= Len(log'[x]) + 1
    <3>1. CASE q \in Replies(x, p)
      BY <1>2, <2>1, <2>2, <3>1 DEF NextInRange
    <3>2. CASE x = i /\ q = r
      BY <1>1, <1>2, <2>1, <2>2, <3>2
    <3> QED BY <1>4, <3>1, <3>2
  <2> QED BY <1>2, <2>1, <2>2 DEF NextInRange
<1> QED BY <1>2, <1>4, <1>6, <1>7 DEF Quietly, Calm, AckedLess, NextInRange

\* A request of an older term is refused without a hint.
LEMMA StaleQuietly ==
  ASSUME TypeOK, NextInRange, SentInOrder, TermsGrow, NEW i \in Server, NEW j \in Server,
         NEW k \in DOMAIN calls[i][j], AppendEntriesStale(i, j, k)
  PROVE  Quietly
<1>1. /\ Answer(i, j, k, AppendReply(calls[i][j][k], currentTerm[j], FALSE, 0, 0, 0))
      /\ UNCHANGED <<logVars, peerVars, voteHist, voteCalls>>
  BY DEF AppendEntriesStale
<1>2. OfficesKept
  BY DEF AppendEntriesStale, termVars, OfficesKept
<1>3. 0 <= Len(log[i]) + 1
  BY PeerFacts
<1> QED BY <1>1, <1>2, <1>3, RefusalQuietly

\* The hint of a refusal is within the leader's log, because the request was a
\* part of it.
LEMMA MismatchQuietly ==
  ASSUME TypeOK, NoSnapshots, SentIsPart, NextInRange, SentInOrder, TermsGrow,
         NEW i \in Server, NEW j \in Server,
         NEW k \in DOMAIN calls[i][j], AppendEntriesMismatch(i, j, k)
  PROVE  Quietly
<1> DEFINE a == calls[i][j][k]
<1>1. a.kind = "append" /\ a \in Sent(i, j)
  BY SentAt DEF AppendEntriesMismatch
<1>2. a \in AppendRequest
  BY <1>1, SentFacts
<1>3. a.prevLogIndex \in Nat /\ Reach(a) \in Nat /\ a.prevLogIndex <= Reach(a)
  BY <1>2, RequestFacts
<1>4. AdoptTerm(j, a.term) /\ UNCHANGED <<logVars, peerVars, voteHist, voteCalls>>
  BY DEF AppendEntriesMismatch
<1>5. OfficesKept
  BY <1>4, AdoptOffices
<1>6. /\ lastIncludedIndex[j] = 0 /\ lastLogIndex(j) = Len(log[j]) /\ Len(log[j]) \in Nat
      /\ Len(log[i]) \in Nat
  BY PlainLog, PeerFacts
<1>7. \/ /\ a.prevLogIndex > lastLogIndex(j)
         /\ Answer(i, j, k, AppendReply(a, currentTerm[j], FALSE, -1, 0, lastLogIndex(j) + 1))
      \/ Answer(i, j, k, AppendReply(a, currentTerm[j], FALSE, 0, 0, 0))
      \/ \E x \in (lastIncludedIndex[j] + 1) .. a.prevLogIndex :
            Answer(i, j, k, AppendReply(a, currentTerm[j], FALSE,
                                        TermAt(j, log[j], a.prevLogIndex), x, 0))
  BY DEF AppendEntriesMismatch
<1>8. IsLeader(i) /\ currentTerm[i] = a.term => Reach(a) <= Len(log[i])
  BY <1>1 DEF SentIsPart, IsPart
<1> HIDE DEF a
<1>9. IsLeader(i) /\ currentTerm[i] = a.term => a.prevLogIndex <= Len(log[i])
  BY <1>3, <1>6, <1>8
<1>10. 0 <= Len(log[i]) + 1
  BY <1>6
<1>11. CASE /\ a.prevLogIndex > lastLogIndex(j)
            /\ Answer(i, j, k, AppendReply(a, currentTerm[j], FALSE, -1, 0, lastLogIndex(j) + 1))
  <2>1. IsLeader(i) /\ currentTerm[i] = a.term => lastLogIndex(j) + 1 <= Len(log[i]) + 1
    BY <1>3, <1>6, <1>9, <1>11
  <2> QED BY <1>4, <1>5, <1>10, <1>11, <2>1, RefusalQuietly
<1>12. CASE Answer(i, j, k, AppendReply(a, currentTerm[j], FALSE, 0, 0, 0))
  BY <1>4, <1>5, <1>10, <1>12, RefusalQuietly
<1>13. ASSUME NEW x \in (lastIncludedIndex[j] + 1) .. a.prevLogIndex,
              Answer(i, j, k, AppendReply(a, currentTerm[j], FALSE,
                                          TermAt(j, log[j], a.prevLogIndex), x, 0))
       PROVE  Quietly
  <2>1. IsLeader(i) /\ currentTerm[i] = a.term => x <= Len(log[i]) + 1
    BY <1>3, <1>6, <1>9
  <2> QED BY <1>4, <1>5, <1>10, <1>13, <2>1, RefusalQuietly
<1> QED BY <1>7, <1>11, <1>12, <1>13

\* What a success tells the leader it was about to be told.
LEMMA SucceededQuietly ==
  ASSUME TypeOK, NextInRange, AckedKept, SentInOrder, TermsGrow,
         NEW i \in Server, NEW j \in Server,
         NEW k \in DOMAIN calls[i][j], AppendSucceeded(i, j, k)
  PROVE  Quietly
<1> DEFINE r == calls[i][j][k]
           n == r.prevI + r.ent
<1>1. /\ r.kind = "appendReply" /\ IsLeader(i) /\ currentTerm[i] = r.term /\ r.success
      /\ matchIndex' = [matchIndex EXCEPT ![i][j] = Larger(matchIndex[i][j], n)]
      /\ nextIndex' = [nextIndex EXCEPT ![i][j] = n + 1]
      /\ Hangup(i, j, k) /\ UNCHANGED <<termVars, logVars, voteHist, voteCalls>>
  BY DEF AppendSucceeded, Leading, IsLeader
<1>2. r \in Replies(i, j)
  BY <1>1, SentAt
<1>3. n \in Nat
  <2>1. r \in AppendReplies
    BY <1>2, SentFacts
  <2> QED BY <2>1 DEF AppendReplies
<1>4. n \in Acked(i, j)
  BY <1>1, <1>2, AckedIs
<1>5. n <= Len(log[i]) /\ Len(log[i]) \in Nat
  BY <1>1, <1>4, PeerFacts DEF AckedKept, AckKept
<1>6. SentOld /\ RepliesOld /\ SentInOrder'
  BY <1>1, TypeParts, HangupSent
<1>7. UNCHANGED <<log, votes, elected, currentTerm, serverState>> /\ AskedBefore /\ OfficesKept
  BY <1>1 DEF logVars, voteHist, termVars, AskedBefore, OfficesKept
<1> HIDE DEF n, r
<1>8. /\ matchIndex'[i][j] \in {matchIndex[i][j], n}
      /\ \A x, p \in Server : x # i \/ p # j => matchIndex'[x][p] = matchIndex[x][p]
  BY <1>1 DEF TypeOK, Larger
<1>9. /\ nextIndex'[i][j] = n + 1
      /\ \A x, p \in Server : x # i \/ p # j => nextIndex'[x][p] = nextIndex[x][p]
  BY <1>1 DEF TypeOK
<1>10. ASSUME NEW x \in Server, NEW p \in Server, NEW m \in Acked(x, p)'
       PROVE  m \in Acked(x, p)
  <2>1. CASE m = matchIndex'[x][p]
    <3>1. CASE x = i /\ p = j
      BY <1>4, <1>8, <2>1, <3>1, AckedIs
    <3>2. CASE x # i \/ p # j
      BY <1>8, <2>1, <3>2, AckedIs
    <3> QED BY <3>1, <3>2
  <2>2. CASE \E q \in Replies(x, p)' : q.term = currentTerm'[x] /\ q.success /\ m = q.prevI + q.ent
    <3>1. PICK q \in Replies(x, p)' : q.term = currentTerm'[x] /\ q.success /\ m = q.prevI + q.ent
      BY <2>2
    <3>2. q \in Replies(x, p)
      BY <1>6 DEF RepliesOld
    <3> QED BY <1>7, <3>1, <3>2, AckedIs
  <2> QED BY <2>1, <2>2, AckedIs
<1>11. ASSUME NEW x \in Server, NEW p \in Server, IsLeader(x)'
       PROVE  /\ nextIndex'[x][p] \in 1..(Len(log'[x]) + 1)
              /\ \A q \in Replies(x, p)' : q.term = currentTerm'[x] =>
                    q.XLen <= Len(log'[x]) + 1 /\ q.XIndex <= Len(log'[x]) + 1
  <2>1. IsLeader(x)
    BY <1>7, <1>11 DEF IsLeader
  <2>2. nextIndex'[x][p] \in 1..(Len(log'[x]) + 1)
    <3>1. CASE x = i /\ p = j
      BY <1>3, <1>5, <1>7, <1>9, <3>1
    <3>2. CASE x # i \/ p # j
      BY <1>7, <1>9, <2>1, <3>2 DEF NextInRange
    <3> QED BY <3>1, <3>2
  <2> QED BY <1>6, <1>7, <2>1, <2>2 DEF NextInRange, RepliesOld
<1>12. AckedLess
  BY <1>10 DEF AckedLess
<1>13. NextInRange'
  BY <1>11 DEF NextInRange
<1> QED BY <1>6, <1>7, <1>12, <1>13 DEF Quietly, Calm

\* The hint of a refusal lies within the leader's log.
LEMMA RefusedQuietly ==
  ASSUME TypeOK, NextInRange, SentInOrder, TermsGrow, NEW i \in Server, NEW j \in Server,
         NEW k \in DOMAIN calls[i][j], AppendRefused(i, j, k)
  PROVE  Quietly
<1> DEFINE r == calls[i][j][k]
<1>1. /\ r.kind = "appendReply" /\ IsLeader(i) /\ currentTerm[i] = r.term
      /\ Hangup(i, j, k) /\ UNCHANGED <<termVars, logVars, matchIndex, voteHist, voteCalls>>
  BY DEF AppendRefused, Leading, IsLeader
<1>2. r \in Replies(i, j)
  BY <1>1, SentAt
<1>3. r.XLen \in Nat /\ r.XIndex \in Nat
  <2>1. r \in AppendReplies
    BY <1>2, SentFacts
  <2> QED BY <2>1 DEF AppendReplies
<1>4. r.XLen <= Len(log[i]) + 1 /\ r.XIndex <= Len(log[i]) + 1 /\ Len(log[i]) \in Nat
  BY <1>1, <1>2, PeerFacts DEF NextInRange
<1>5. PICK n \in Nat : n <= Len(log[i]) + 1 /\ nextIndex' = [nextIndex EXCEPT ![i][j] = Larger(n, 1)]
  <2>1. \/ nextIndex' = [nextIndex EXCEPT ![i][j] = Larger(r.XLen, 1)]
        \/ nextIndex' = [nextIndex EXCEPT ![i][j] = Larger(r.XIndex, 1)]
        \/ \E p \in Holding(i, r.XTerm) : nextIndex' = [nextIndex EXCEPT ![i][j] = Larger(p, 1)]
    BY DEF AppendRefused
  <2>2. \A p \in Holding(i, r.XTerm) : p \in Nat /\ p <= Len(log[i]) + 1
    BY <1>4 DEF Holding
  <2> HIDE DEF r
  <2> QED BY <1>3, <1>4, <2>1, <2>2
<1>6. SentOld /\ RepliesOld /\ SentInOrder'
  BY <1>1, TypeParts, HangupSent
<1>7. /\ UNCHANGED <<log, votes, elected, currentTerm, serverState, matchIndex>>
      /\ AskedBefore /\ OfficesKept
  BY <1>1 DEF logVars, voteHist, termVars, AskedBefore, OfficesKept
<1> HIDE DEF r
<1>8. /\ nextIndex'[i][j] = Larger(n, 1)
      /\ \A x, p \in Server : x # i \/ p # j => nextIndex'[x][p] = nextIndex[x][p]
  BY <1>5 DEF TypeOK
<1>9. Larger(n, 1) \in 1..(Len(log[i]) + 1)
  BY <1>4, <1>5 DEF Larger
<1>10. ASSUME NEW x \in Server, NEW p \in Server, NEW m \in Acked(x, p)'
       PROVE  m \in Acked(x, p)
  <2>1. CASE m = matchIndex'[x][p]
    BY <1>7, <2>1, AckedIs
  <2>2. CASE \E q \in Replies(x, p)' : q.term = currentTerm'[x] /\ q.success /\ m = q.prevI + q.ent
    <3>1. PICK q \in Replies(x, p)' : q.term = currentTerm'[x] /\ q.success /\ m = q.prevI + q.ent
      BY <2>2
    <3>2. q \in Replies(x, p)
      BY <1>6 DEF RepliesOld
    <3> QED BY <1>7, <3>1, <3>2, AckedIs
  <2> QED BY <2>1, <2>2, AckedIs
<1>11. ASSUME NEW x \in Server, NEW p \in Server, IsLeader(x)'
       PROVE  /\ nextIndex'[x][p] \in 1..(Len(log'[x]) + 1)
              /\ \A q \in Replies(x, p)' : q.term = currentTerm'[x] =>
                    q.XLen <= Len(log'[x]) + 1 /\ q.XIndex <= Len(log'[x]) + 1
  <2>1. IsLeader(x)
    BY <1>7, <1>11 DEF IsLeader
  <2>2. nextIndex'[x][p] \in 1..(Len(log'[x]) + 1)
    <3>1. CASE x = i /\ p = j
      BY <1>7, <1>8, <1>9, <3>1
    <3>2. CASE x # i \/ p # j
      BY <1>7, <1>8, <2>1, <3>2 DEF NextInRange
    <3> QED BY <3>1, <3>2
  <2> QED BY <1>6, <1>7, <2>1, <2>2 DEF NextInRange, RepliesOld
<1>12. AckedLess
  BY <1>10 DEF AckedLess
<1>13. NextInRange'
  BY <1>11 DEF NextInRange
<1> QED BY <1>6, <1>7, <1>12, <1>13 DEF Quietly, Calm

-----------------------------------------------------------------------------
(* The steps there are. *)

\* The call c of x to y is of an AppendEntries, and of a term for which x had
\* called y before, or leads.
Ordinarily(x, y, c) ==
    /\ c.kind \in {"append", "appendReply"}
    /\ \/ \E n \in DOMAIN calls[x][y] : calls[x][y][n].term = c.term
       \/ x # y /\ IsLeader(x) /\ c.term = currentTerm[x]

CalledOrdinarily ==
    \A x, y \in Server : \A m \in DOMAIN calls'[x][y] : Ordinarily(x, y, calls'[x][y][m])

\* A call that stays was ordinary before.
LEMMA OldOrdinarily ==
  ASSUME NoSnapshots, NEW x \in Server, NEW y \in Server, NEW n \in DOMAIN calls[x][y]
  PROVE  Ordinarily(x, y, calls[x][y][n])
  BY DEF NoSnapshots, Ordinarily

\* So is the reply to one.
LEMMA ChangedOrdinarily ==
  ASSUME NoSnapshots, NEW i \in Server, NEW j \in Server, NEW k \in DOMAIN calls[i][j], NEW r,
         r.kind = "appendReply", r.term = calls[i][j][k].term, LinkChanged(i, j, k, r)
  PROVE  CalledOrdinarily
<1> SUFFICES ASSUME NEW x \in Server, NEW y \in Server, NEW m \in DOMAIN calls'[x][y]
             PROVE  Ordinarily(x, y, calls'[x][y][m])
  BY DEF CalledOrdinarily
<1>1. CASE x = i /\ y = j
  <2>1. calls'[i][j][m] = r \/ \E n \in DOMAIN calls[i][j] : calls'[i][j][m] = calls[i][j][n]
    BY <1>1 DEF LinkChanged, Without
  <2>2. Ordinarily(i, j, r)
    BY DEF Ordinarily
  <2> QED BY <1>1, <2>1, <2>2, OldOrdinarily
<1>2. CASE ~(x = i /\ y = j)
  <2>1. calls'[x][y] = calls[x][y]
    BY <1>2 DEF LinkChanged
  <2> QED BY <2>1, OldOrdinarily
<1> QED BY <1>1, <1>2

\* A dropped call adds none.
LEMMA HangupOrdinarily ==
  ASSUME TypeOK, NoSnapshots, NEW i \in Server, NEW j \in Server, NEW k \in DOMAIN calls[i][j],
         Hangup(i, j, k)
  PROVE  CalledOrdinarily
<1> DEFINE r == [kind |-> "appendReply", term |-> calls[i][j][k].term]
<1>1. r.kind = "appendReply" /\ r.term = calls[i][j][k].term
  OBVIOUS
<1> HIDE DEF r
<1>2. LinkChanged(i, j, k, r)
  BY TypeParts, HangupLink
<1> QED BY <1>1, <1>2, ChangedOrdinarily

\* A reply has the term of its request.
LEMMA AnswerOrdinarily ==
  ASSUME TypeOK, NoSnapshots, NEW i \in Server, NEW j \in Server, NEW k \in DOMAIN calls[i][j],
         NEW t, NEW s, NEW XT, NEW XI, NEW XL,
         Answer(i, j, k, AppendReply(calls[i][j][k], t, s, XT, XI, XL))
  PROVE  CalledOrdinarily
<1> DEFINE r == AppendReply(calls[i][j][k], t, s, XT, XI, XL)
<1>1. r.kind = "appendReply" /\ r.term = calls[i][j][k].term
  BY DEF AppendReply
<1> HIDE DEF r
<1>2. LinkChanged(i, j, k, r)
  BY <1>1, TypeParts, AnswerLink DEF r
<1> QED BY <1>1, <1>2, ChangedOrdinarily

\* A leader calls the others in its term.
LEMMA ReplicateOrdinarily ==
  ASSUME TypeOK, NoSnapshots, NEW i \in Server, IsLeader(i), NEW lg \in Seq(LogEntry),
         Replicate(i, lg)
  PROVE  CalledOrdinarily
<1>0. LinksExtended(i, lg) /\ calls \in Links
  BY ReplicateLinks, TypeParts
<1> SUFFICES ASSUME NEW x \in Server, NEW y \in Server, NEW m \in DOMAIN calls'[x][y]
             PROVE  Ordinarily(x, y, calls'[x][y][m])
  BY DEF CalledOrdinarily
<1>1. CASE calls'[x][y] = calls[x][y]
  BY <1>1, OldOrdinarily
<1>2. CASE calls'[x][y] # calls[x][y]
  <2>1. x = i /\ y \in Peers(i)
    BY <1>0, <1>2 DEF LinksExtended, Peers
  <2>2. PICK r : MadeFrom(i, lg, r) /\ calls'[x][y] = Append(calls[x][y], r)
    BY <1>0, <1>2, <2>1 DEF LinksExtended
  <2>3. calls[x][y] \in Seq(Call)
    BY <1>0 DEF Links
  <2>4. /\ DOMAIN calls'[x][y] = 1..(Len(calls[x][y]) + 1)
        /\ DOMAIN calls[x][y] = 1..Len(calls[x][y]) /\ Len(calls[x][y]) \in Nat
        /\ calls'[x][y][Len(calls[x][y]) + 1] = r
        /\ \A q \in 1..Len(calls[x][y]) : calls'[x][y][q] = calls[x][y][q]
    BY <2>2, <2>3, AppendedCalls
  <2>5. CASE m = Len(calls[x][y]) + 1
    BY <2>1, <2>2, <2>4, <2>5 DEF MadeFrom, Ordinarily, Peers
  <2>6. CASE m \in 1..Len(calls[x][y])
    BY <2>4, <2>6, OldOrdinarily
  <2> QED BY <2>4, <2>5, <2>6
<1> QED BY <1>1, <1>2

\* The bases of the logs stay and nobody is given a snapshot.
PlainKept ==
    \A p \in Server :
        /\ lastIncludedIndex'[p] = lastIncludedIndex[p] /\ lastIncludedTerm'[p] = lastIncludedTerm[p]
        /\ installers'[p] \subseteq installers[p] /\ (ticker'[p] => ticker[p])

\* No step compacts, and calls stay those of AppendEntries.
LEMMA PlainStep ==
  ASSUME TypeOK, InOrderOnly, PersistedCurrent, NoSnapshots, NextInRange, Next
  PROVE  NoSnapshots' /\ CalledOrdinarily
<1>0. \A p \in Server : Disabled(p)
  BY NoCompaction
<1> SUFFICES PlainKept /\ CalledOrdinarily
  BY DEF PlainKept, CalledOrdinarily, Ordinarily, NoSnapshots
<1>1. ASSUME UNCHANGED <<logVars, installers, ticker>> PROVE PlainKept
  BY <1>1 DEF PlainKept, logVars
<1>2. ASSUME UNCHANGED calls PROVE CalledOrdinarily
  BY <1>2, OldOrdinarily DEF CalledOrdinarily
<1>3. ASSUME NEW i \in Server, ServerStep(i) PROVE PlainKept /\ CalledOrdinarily
  <2>1. CASE doElection(i) \/ BackgroundApplyRoutine(i)
    BY <1>1, <1>2, <2>1 DEF doElection, BackgroundApplyRoutine
  <2>2. CASE TickerSend(i)
    <3>1. /\ IsLeader(i) /\ Replicate(i, log[i]) /\ UNCHANGED logVars /\ SpawnInstallers(i)
          /\ ticker' = [ticker EXCEPT ![i] = FALSE]
      BY <2>2 DEF TickerSend, InOrderOnly, IsLeader
    <3>2. Behind(i) = {}
      BY <3>1, NobodyBehind
    <3>3. \A p \in Server : installers'[p] = installers[p] /\ (ticker'[p] => ticker[p])
      BY <3>1, <3>2 DEF SpawnInstallers, TypeOK
    <3>4. PlainKept
      BY <3>1, <3>3 DEF PlainKept, logVars
    <3>5. log[i] \in Seq(LogEntry)
      BY PeerFacts
    <3> QED BY <3>1, <3>4, <3>5, ReplicateOrdinarily
  <2>3. CASE Crash(i)
    <3>1. Make(i, persisted[i]) /\ UNCHANGED calls
      BY <2>3 DEF Crash
    <3> QED BY <1>2, <3>1, RestartEffect DEF PlainKept
  <2>4. ASSUME NEW cmd \in Command, Start(i, cmd) PROVE PlainKept /\ CalledOrdinarily
    <3>1. /\ IsLeader(i) /\ Replicate(i, Append(log[i], NewEntry(i, cmd))) /\ SpawnInstallers(i)
          /\ UNCHANGED <<ticker, lastIncludedIndex, lastIncludedTerm>>
      BY <2>4 DEF Start, IsLeader
    <3>2. Behind(i) = {}
      BY <3>1, NobodyBehind
    <3>3. \A p \in Server : installers'[p] = installers[p]
      BY <3>1, <3>2 DEF SpawnInstallers, TypeOK
    <3>4. PlainKept
      BY <3>1, <3>3 DEF PlainKept
    <3>5. Append(log[i], NewEntry(i, cmd)) \in Seq(LogEntry)
      BY AppendedEntry
    <3> QED BY <3>1, <3>4, <3>5, ReplicateOrdinarily
  <2>5. ASSUME NEW cmd \in Command, CrashInStart(i, cmd) PROVE PlainKept /\ CalledOrdinarily
    <3>1. IsLeader(i) /\ Replicate(i, Append(log[i], NewEntry(i, cmd))) /\ Make(i, persisted[i])
      BY <2>5 DEF CrashInStart, IsLeader
    <3>2. Append(log[i], NewEntry(i, cmd)) \in Seq(LogEntry)
      BY AppendedEntry
    <3>3. PlainKept
      BY <3>1, RestartEffect DEF PlainKept
    <3> QED BY <3>1, <3>2, <3>3, ReplicateOrdinarily
  <2> QED BY <1>0, <1>3, <2>1, <2>2, <2>3, <2>4, <2>5 DEF ServerStep, Disabled
<1>4. ASSUME NEW c \in voteCalls, VoteStep(c) PROVE PlainKept /\ CalledOrdinarily
  <2>1. UNCHANGED <<logVars, installers, ticker, calls>>
    BY <1>4 DEF VoteStep, RequestVoteStale, RequestVote, VoteIgnored, VoteStepDown, VoteCounted
  <2> QED BY <1>1, <1>2, <2>1
<1>5. ASSUME NEW i \in Server, NEW j \in Server, NEW k \in DOMAIN calls[i][j], CallStep(i, j, k)
      PROVE  PlainKept /\ CalledOrdinarily
  <2>2. CASE AppendEntriesStale(i, j, k)
    <3>1. /\ UNCHANGED <<logVars, installers, ticker>>
          /\ Answer(i, j, k, AppendReply(calls[i][j][k], currentTerm[j], FALSE, 0, 0, 0))
      BY <2>2 DEF AppendEntriesStale
    <3> QED BY <1>1, <3>1, AnswerOrdinarily
  <2>3. CASE AppendEntriesMismatch(i, j, k)
    <3>1. UNCHANGED <<logVars, installers, ticker>>
      BY <2>3 DEF AppendEntriesMismatch
    <3>2. PICK t, XT, XI, XL :
             Answer(i, j, k, AppendReply(calls[i][j][k], t, FALSE, XT, XI, XL))
      BY <2>3 DEF AppendEntriesMismatch
    <3> QED BY <1>1, <3>1, <3>2, AnswerOrdinarily
  <2>4. CASE AppendEntries(i, j, k)
    <3>1. /\ UNCHANGED <<lastIncludedIndex, lastIncludedTerm, installers, ticker>>
          /\ Answer(i, j, k, AppendReply(calls[i][j][k], calls[i][j][k].term, TRUE, 0, 0, 0))
      BY <2>4 DEF AppendEntries
    <3>2. PlainKept
      BY <3>1 DEF PlainKept
    <3> QED BY <3>1, <3>2, AnswerOrdinarily
  <2>5. CASE \/ AppendSucceeded(i, j, k) \/ AppendRefused(i, j, k)
             \/ ReplyIgnored(i, j, k) \/ ReplyStepDown(i, j, k)
    <3>1. UNCHANGED <<logVars, installers, ticker>> /\ Hangup(i, j, k)
      BY <2>5 DEF AppendSucceeded, AppendRefused, ReplyIgnored, ReplyStepDown
    <3> QED BY <1>1, <3>1, HangupOrdinarily
  <2> QED BY <1>0, <1>5, <2>2, <2>3, <2>4, <2>5 DEF CallStep, Disabled
<1> QED BY <1>3, <1>4, <1>5 DEF Next

\* The peer i becomes candidate in a new term and asks for votes.
Elects(i) ==
    /\ ~IsLeader(i) /\ currentTerm'[i] = currentTerm[i] + 1 /\ serverState'[i] = "candidate"
    /\ \A p \in Server : p # i =>
          currentTerm'[p] = currentTerm[p] /\ serverState'[p] = serverState[p]
    /\ votes' = votes \cup {<<i, currentTerm[i] + 1, i>>}
    /\ \A c \in voteCalls' : c.kind = "request" =>
          \/ c \in voteCalls
          \/ /\ c.src = i /\ c.lastLogIndex = lastLogIndex(i) /\ c.lastLogTerm = lastLogTerm(i)
    /\ UNCHANGED <<log, calls, elected, nextIndex, matchIndex>>

\* The peer j answers a vote request, and may grant it.
Polls(j, c) ==
    /\ c \in voteCalls /\ c.kind = "request" /\ j = c.dst
    /\ currentTerm'[j] = c.term /\ currentTerm[j] <= c.term
    /\ \A p \in Server : p # j => currentTerm'[p] = currentTerm[p]
    /\ OfficesKept /\ AskedBefore
    /\ \/ votes' = votes
       \/ votes' = votes \cup {<<j, c.term, c.src>>} /\ UpToDate(j, c)
    /\ UNCHANGED <<log, calls, elected, nextIndex, matchIndex>>

\* The candidate i wins a term that nobody has won, with the votes of a majority.
Wins(i) ==
    /\ serverState[i] = "candidate" /\ serverState'[i] = "leader" /\ ~Won(currentTerm[i])
    /\ elected' = elected \cup {<<currentTerm[i], i>>}
    /\ \E Q \in SUBSET Server : /\ IsMajority(Cardinality(Q))
                                /\ \A p \in Q : <<p, currentTerm[i], i>> \in votes
    /\ \A p \in Server : p # i =>
          /\ serverState'[p] = serverState[p]
          /\ nextIndex'[p] = nextIndex[p] /\ matchIndex'[p] = matchIndex[p]
    /\ \A p \in Server : /\ nextIndex'[i][p] = Len(log[i]) + 1
                         /\ matchIndex'[i][p] = IF p = i THEN Len(log[i]) ELSE 0
    /\ AskedBefore
    /\ UNCHANGED <<currentTerm, log, calls, votes>>

\* doElection() is such a step.
LEMMA ElectionElects ==
  ASSUME TypeOK, NEW i \in Server, doElection(i)
  PROVE  Elects(i)
<1>1. ~IsLeader(i) /\ votes' = votes \cup {<<i, currentTerm[i] + 1, i>>}
  BY DEF doElection, IsLeader
<1>2. /\ currentTerm'[i] = currentTerm[i] + 1 /\ serverState'[i] = "candidate"
      /\ \A p \in Server : p # i =>
            currentTerm'[p] = currentTerm[p] /\ serverState'[p] = serverState[p]
  BY DEF doElection, TypeOK
<1>3. UNCHANGED <<log, calls, elected, nextIndex, matchIndex>>
  BY DEF doElection, logVars, peerVars
<1>4. PICK reached : voteCalls' = voteCalls \cup
              {[kind |-> "request", src |-> i, dst |-> p,
                term |-> currentTerm[i] + 1,
                lastLogIndex |-> lastLogIndex(i),
                lastLogTerm |-> lastLogTerm(i)] : p \in reached}
  BY DEF doElection
<1>5. ASSUME NEW c \in voteCalls', c.kind = "request"
      PROVE  \/ c \in voteCalls
             \/ c.src = i /\ c.lastLogIndex = lastLogIndex(i) /\ c.lastLogTerm = lastLogTerm(i)
  BY <1>4, <1>5
<1> QED BY <1>1, <1>2, <1>3, <1>5 DEF Elects

\* RequestVote() is such a step.
LEMMA RequestPolls ==
  ASSUME TypeOK, NEW c \in voteCalls, RequestVote(c)
  PROVE  Polls(c.dst, c)
<1> DEFINE j == c.dst
<1>0. j \in Server /\ c.term \in Nat
  BY TypeParts, VoteCallKinds
<1>1. currentTerm[j] \in Nat
  BY <1>0, PeerFacts
<1>2. c.kind = "request" /\ c.term >= currentTerm[j] /\ currentTerm[j] <= c.term
  BY <1>0, <1>1 DEF RequestVote
<1>3. currentTerm' = [currentTerm EXCEPT ![j] = c.term]
  BY DEF RequestVote
<1>4. /\ currentTerm'[j] = c.term /\ \A p \in Server : p # j => currentTerm'[p] = currentTerm[p]
  BY <1>0, <1>3 DEF TypeOK
<1>5. serverState' = [serverState EXCEPT ![j] = IF c.term > currentTerm[j] THEN "follower" ELSE @]
  BY DEF RequestVote
<1>6. /\ serverState'[j] = (IF c.term > currentTerm[j] THEN "follower" ELSE serverState[j])
      /\ \A p \in Server : p # j => serverState'[p] = serverState[p]
  BY <1>0, <1>5 DEF TypeOK
<1>7. PICK g, v : /\ g \in BOOLEAN /\ g = Grants(j, c, v)
                  /\ votes' = IF g THEN votes \cup {<<j, c.term, c.src>>} ELSE votes
                  /\ AnswerVote(c, VoteReply(c, c.term, g))
  <2>1. PICK v : v = IF c.term > currentTerm[j] THEN NoVote ELSE votedFor[j]
    OBVIOUS
  <2>2. Grants(j, c, v) \in BOOLEAN
    BY DEF Grants
  <2>3. /\ votes' = IF Grants(j, c, v) THEN votes \cup {<<j, c.term, c.src>>} ELSE votes
        /\ AnswerVote(c, VoteReply(c, c.term, Grants(j, c, v)))
    BY <2>1 DEF RequestVote
  <2> QED BY <2>2, <2>3
<1>8. AskedBefore
  BY <1>7, AnswerAsked
<1>9. UNCHANGED <<log, calls, elected, nextIndex, matchIndex>>
  BY DEF RequestVote, logVars, peerVars
<1>10. \/ votes' = votes
       \/ votes' = votes \cup {<<j, c.term, c.src>>} /\ UpToDate(j, c)
  BY <1>7 DEF Grants
<1>11. OfficesKept
  <2>1. c.term > currentTerm[j] \/ c.term = currentTerm[j]
    BY <1>0, <1>1, <1>2
  <2> QED BY <1>4, <1>6, <2>1 DEF OfficesKept
<1> QED BY <1>2, <1>4, <1>8, <1>9, <1>10, <1>11 DEF Polls

\* A vote more is a quiet step or the last one that was missing.
LEMMA CountedWins ==
  ASSUME TypeOK, NoSnapshots, ElectionSafety', ElectionInv', ElectedOnce, NextInRange, SentInOrder,
         TermsGrow, NEW c \in voteCalls, VoteCounted(c)
  PROVE  Quietly \/ Wins(c.src)
<1> DEFINE i == c.src
<1>0. i \in Server
  BY TypeParts, VoteCallKinds
<1>1. /\ serverState[i] = "candidate" /\ voteCalls' = voteCalls \ {c}
      /\ UNCHANGED <<currentTerm, log, votes, calls>>
  BY DEF VoteCounted, Voting, logVars
<1>2. AskedBefore
  BY <1>1 DEF AskedBefore
<1>3. CASE UNCHANGED <<serverState, peerVars, elected>>
  <2>1. OfficesKept /\ LeaderIndicesKept
    BY <1>1, <1>3 DEF OfficesKept, LeaderIndicesKept, peerVars
  <2> QED BY <1>1, <1>2, <1>3, <2>1, SameSent, UntoldQuietly
<1>4. CASE /\ serverState' = [serverState EXCEPT ![i] = "leader"]
           /\ initLeaderIndex(i)
           /\ elected' = elected \cup {<<currentTerm[i], i>>}
  <2>1. serverState'[i] = "leader" /\ \A p \in Server : p # i => serverState'[p] = serverState[p]
    BY <1>0, <1>4 DEF TypeOK
  <2>2. <<currentTerm[i], i>> \in elected' /\ elected \subseteq elected'
    BY <1>4
  <2>3. ~Won(currentTerm[i])
    BY <1>0, <1>1, <2>2, NotWonYet
  <2>4. PICK Q \in SUBSET Server : IsMajority(Cardinality(Q))
                                   /\ \A p \in Q : <<p, currentTerm[i], i>> \in votes
    <3>1. PICK e \in elected' : e = <<currentTerm[i], i>>
      BY <2>2
    <3>2. e[1] = currentTerm[i] /\ e[2] = i
      BY <3>1
    <3>3. PICK Q \in SUBSET Server : IsMajority(Cardinality(Q))
                                     /\ \A p \in Q : <<p, e[1], e[2]>> \in votes'
      BY DEF ElectionInv, ElectedByMajority
    <3> QED BY <1>1, <3>2, <3>3
  <2>5. lastLogIndex(i) = Len(log[i]) /\ Len(log[i]) \in Nat
    BY <1>0, PlainLog, PeerFacts
  <2>6. /\ nextIndex' = [nextIndex EXCEPT ![i] = [p \in Server |-> Len(log[i]) + 1]]
        /\ matchIndex' = [matchIndex EXCEPT ![i] =
                             [p \in Server |-> IF p = i THEN Len(log[i]) ELSE 0]]
    BY <1>4, <2>5 DEF initLeaderIndex, SetLeaderIndex
  <2>7. /\ \A p \in Server : p # i =>
              nextIndex'[p] = nextIndex[p] /\ matchIndex'[p] = matchIndex[p]
        /\ \A p \in Server : /\ nextIndex'[i][p] = Len(log[i]) + 1
                             /\ matchIndex'[i][p] = IF p = i THEN Len(log[i]) ELSE 0
    BY <1>0, <2>6 DEF TypeOK
  <2> QED BY <1>1, <1>2, <1>4, <2>1, <2>3, <2>4, <2>7 DEF Wins
<1> QED BY <1>3, <1>4 DEF VoteCounted

\* A step is quiet, or part of an election, or replication.
Moves ==
    \/ Quietly
    \/ \E i \in Server : Elects(i)
    \/ \E j \in Server : \E c : Polls(j, c)
    \/ \E i \in Server : Wins(i)
    \/ \E i, j \in Server : \E a : Takes(i, j, a) /\ TakesFirst(i, j, a) /\ SentInOrder'
    \/ \E i \in Server : \E lg : Sends(i, lg)

\* Every step is one of these, and no term falls.
LEMMA StepMoves ==
  ASSUME TypeOK, InOrderOnly, PersistedCurrent, ElectionSafety', ElectionInv', LogInv,
         ReplicationInv, Next
  PROVE  TermsGrow /\ Moves
<1>0. /\ NoSnapshots /\ NextInRange /\ SentInOrder /\ SentIsPart /\ AckedKept /\ ElectedOnce
      /\ \A p \in Server : Disabled(p)
  BY NoCompaction DEF ReplicationInv, LogInv
<1>1. TermsGrow
  BY TermAndVoteStep DEF TermsGrow, TermAndVoteKept
<1>2. ASSUME NEW i \in Server, ServerStep(i) PROVE Moves
  <2>1. CASE doElection(i)
    BY <2>1, ElectionElects DEF Moves
  <2>2. CASE BackgroundApplyRoutine(i) \/ Crash(i)
    BY <1>0, <1>1, <2>2, ApplyQuietly, CrashQuietly DEF Moves
  <2>3. CASE TickerSend(i) \/ \E cmd \in Command : Start(i, cmd) \/ CrashInStart(i, cmd)
    BY <1>0, <2>3, TickerSends, StartSends, CrashSends DEF Moves
  <2> QED BY <1>0, <1>2, <2>1, <2>2, <2>3 DEF ServerStep, Disabled
<1>3. ASSUME NEW c \in voteCalls, VoteStep(c) PROVE Moves
  <2>0. c.src \in Server /\ c.dst \in Server
    BY TypeParts, VoteCallKinds
  <2>1. CASE RequestVoteStale(c) \/ VoteIgnored(c) \/ VoteStepDown(c)
    BY <1>0, <1>1, <2>1, VoteQuietly DEF Moves
  <2>2. CASE RequestVote(c)
    BY <2>0, <2>2, RequestPolls DEF Moves
  <2>3. CASE VoteCounted(c)
    BY <1>0, <1>1, <2>0, <2>3, CountedWins DEF Moves
  <2> QED BY <1>3, <2>1, <2>2, <2>3 DEF VoteStep
<1>4. ASSUME NEW i \in Server, NEW j \in Server, NEW k \in DOMAIN calls[i][j], CallStep(i, j, k)
      PROVE  Moves
  <2>1. CASE AppendEntriesStale(i, j, k) \/ AppendEntriesMismatch(i, j, k)
    BY <1>0, <1>1, <2>1, StaleQuietly, MismatchQuietly DEF Moves
  <2>2. CASE AppendSucceeded(i, j, k) \/ AppendRefused(i, j, k)
    BY <1>0, <1>1, <2>2, SucceededQuietly, RefusedQuietly DEF Moves
  <2>3. CASE ReplyIgnored(i, j, k) \/ ReplyStepDown(i, j, k)
    BY <1>0, <1>1, <2>3, ReplyQuietly DEF Moves
  <2>4. CASE AppendEntries(i, j, k)
    <3>1. Takes(i, j, calls[i][j][k]) /\ TakesFirst(i, j, calls[i][j][k]) /\ SentInOrder'
      BY <1>0, <2>4, AppendTakes
    <3> QED BY <3>1 DEF Moves
  <2> QED BY <1>0, <1>4, <2>1, <2>2, <2>3, <2>4 DEF CallStep, Disabled
<1> QED BY <1>1, <1>2, <1>3, <1>4 DEF Next

-----------------------------------------------------------------------------
(* The invariant of replication is kept. *)

\* A step that leaves logs, leaders and what is sent alone.
Still ==
    /\ TermsGrow /\ SentOld /\ AckedLess /\ NextInRange' /\ SentInOrder'
    /\ \A i \in Server : IsLeader(i)' => IsLeader(i) /\ currentTerm'[i] = currentTerm[i]
    /\ UNCHANGED <<log, elected>>

\* The leaders stay the same and have the same indices and replies.
LEMMA LeadersStill ==
  ASSUME TermsGrow, NextInRange, SentInOrder, UNCHANGED <<log, calls, elected, nextIndex, matchIndex>>,
         \A i \in Server : IsLeader(i)' => IsLeader(i) /\ currentTerm'[i] = currentTerm[i]
  PROVE  Still
<1>1. SentOld /\ RepliesOld /\ SentInOrder'
  BY SameSent
<1>2. ASSUME NEW i \in Server, IsLeader(i)', NEW p \in Server, NEW n \in Acked(i, p)'
      PROVE  n \in Acked(i, p)
  <2>1. currentTerm'[i] = currentTerm[i] /\ matchIndex'[i][p] = matchIndex[i][p]
    BY <1>2
  <2>2. Replies(i, p)' \subseteq Replies(i, p)
    BY <1>1 DEF RepliesOld
  <2> QED BY <2>1, <2>2, AckedIs
<1>3. NextInRange'
  BY <1>1 DEF NextInRange, RepliesOld
<1> QED BY <1>1, <1>2, <1>3 DEF Still, AckedLess

\* Quiet steps are still,
LEMMA QuietlyStill ==
  ASSUME Quietly
  PROVE  Still
  BY DEF Still, Quietly, Calm, OfficesKept, IsLeader

\* and so are the start of an election
LEMMA ElectsStill ==
  ASSUME TermsGrow, NextInRange, SentInOrder, NEW i \in Server, Elects(i)
  PROVE  Still
<1>1. \A p \in Server : IsLeader(p)' => IsLeader(p) /\ currentTerm'[p] = currentTerm[p]
  BY DEF Elects, IsLeader
<1> QED BY <1>1, LeadersStill DEF Elects

\* and the answer to a vote request.
LEMMA PollsStill ==
  ASSUME TermsGrow, NextInRange, SentInOrder, NEW j \in Server, NEW c, Polls(j, c)
  PROVE  Still
<1>1. \A p \in Server : IsLeader(p)' => IsLeader(p) /\ currentTerm'[p] = currentTerm[p]
  BY DEF Polls, OfficesKept, IsLeader
<1> QED BY <1>1, LeadersStill DEF Polls

\* What is in a log after a request was taken.
LEMMA TakenTerms ==
  ASSUME TypeOK, NEW i \in Server, NEW j \in Server, NEW a, Takes(i, j, a)
  PROVE  /\ a \in AppendRequest /\ Len(log'[j]) = Reach(a)
         /\ \A m \in 1..Reach(a) :
               /\ m <= a.prevLogIndex => log'[j][m] = log[j][m]
               /\ m > a.prevLogIndex => log'[j][m] = a.entries[m - a.prevLogIndex]
               /\ m >= a.prevLogIndex => log'[j][m].term = TermOf(a, m)
<1>1. a \in AppendRequest
  BY SentFacts DEF Takes
<1>2. PICK b \in Nat : b = a.prevLogIndex
  BY <1>1, RequestFacts
<1>3. Reach(a) \in Nat /\ Reach(a) >= b
  BY <1>1, <1>2, RequestFacts
<1>4. ASSUME NEW m \in 1..Reach(a)
      PROVE  /\ m <= b => log'[j][m] = log[j][m]
             /\ m > b => log'[j][m] = a.entries[m - b]
             /\ m >= b => log'[j][m].term = TermOf(a, m)
  <2>1. CASE m < b
    <3>1. m \in 1..b /\ ~(m > b) /\ ~(m >= b)
      BY <1>3, <2>1
    <3> QED BY <1>2, <3>1 DEF Takes
  <2>2. CASE m = b
    <3>1. m \in 1..b /\ ~(m > b) /\ b > 0
      BY <1>3, <2>2
    <3>2. log'[j][m] = log[j][m]
      BY <1>2, <3>1 DEF Takes
    <3>3. log[j][b].term = a.prevLogTerm
      BY <1>2, <3>1 DEF Takes
    <3> QED BY <1>2, <2>2, <3>1, <3>2, <3>3 DEF TermOf
  <2>3. CASE m > b
    <3>1. m \in (b + 1)..Reach(a) /\ ~(m <= b)
      BY <1>3, <2>3
    <3>2. log'[j][m] = a.entries[m - b]
      BY <1>2, <3>1 DEF Takes
    <3> QED BY <1>2, <2>3, <3>1, <3>2 DEF TermOf
  <2> QED BY <1>3, <2>1, <2>2, <2>3
<1> QED BY <1>1, <1>2, <1>4 DEF Takes

\* A longer term bounds the terms of a log as well.
LEMMA RisingLater ==
  ASSUME NEW lg \in Seq(LogEntry), NEW t \in Nat, NEW u \in Nat, t <= u, Rising(lg, t)
  PROVE  Rising(lg, u)
<1>1. Len(lg) \in Nat
  OBVIOUS
<1>2. \A n \in 1..Len(lg) : lg[n].term \in Nat
  <2>1. \A n \in 1..Len(lg) : lg[n] \in LogEntry
    OBVIOUS
  <2> QED BY <2>1 DEF LogEntry
<1> QED BY <1>1, <1>2 DEF Rising

\* Terms rise along a log that took a request, since they rise along both parts
\* and meet at prevLogIndex.
LEMMA TakesRise ==
  ASSUME TypeOK, TypeOK', TermsRise, NEW i \in Server, NEW j \in Server, NEW a, Takes(i, j, a)
  PROVE  TermsRise'
<1>0. /\ a \in AppendRequest /\ Len(log'[j]) = Reach(a)
      /\ \A m \in 1..Reach(a) :
            /\ m <= a.prevLogIndex => log'[j][m] = log[j][m]
            /\ m >= a.prevLogIndex => log'[j][m].term = TermOf(a, m)
  BY TakenTerms
<1>1. /\ a \in Sent(i, j) /\ currentTerm[j] <= a.term /\ currentTerm'[j] = a.term
      /\ a.prevLogIndex <= Len(log[j])
      /\ \A p \in Server : p # j => log'[p] = log[p] /\ currentTerm'[p] = currentTerm[p]
      /\ SentOld
  BY DEF Takes
<1>2. PICK b \in Nat : b = a.prevLogIndex
  BY <1>0, RequestFacts
<1>3. Reach(a) \in Nat /\ Reach(a) >= b /\ a.term \in Nat
  BY <1>0, <1>2, RequestFacts
<1>4. /\ Len(log[j]) \in Nat /\ currentTerm[j] \in Nat
      /\ \A m \in 1..Len(log[j]) : log[j][m].term \in Nat
  BY PeerFacts
<1>5. RisingCall(a) /\ Rising(log[j], currentTerm[j])
  BY <1>1 DEF TermsRise
<1>6. \A m \in b..Reach(a) : TermOf(a, m) \in Nat
  BY <1>0, <1>2, RequestFacts
<1>7. ASSUME NEW n \in 1..Reach(a) PROVE log'[j][n].term <= a.term
  <2>1. CASE n <= b
    <3>1. n \in 1..Len(log[j]) /\ log'[j][n] = log[j][n]
      BY <1>0, <1>1, <1>2, <1>4, <2>1
    <3>2. log[j][n].term <= currentTerm[j]
      BY <1>5, <3>1 DEF Rising
    <3> QED BY <1>1, <1>3, <1>4, <3>1, <3>2
  <2>2. CASE n > b
    <3>1. n \in b..Reach(a) /\ n >= b
      BY <1>3, <2>2
    <3> QED BY <1>0, <1>2, <1>5, <3>1 DEF RisingCall
  <2> QED BY <2>1, <2>2, <1>3
<1>8. ASSUME NEW n \in 1..Reach(a), NEW m \in 1..n PROVE log'[j][m].term <= log'[j][n].term
  <2>0. m \in 1..Reach(a) /\ m <= n /\ m \in Nat /\ n \in Nat
    BY <1>3
  <2>1. CASE n <= b
    <3>1. n \in 1..Len(log[j]) /\ log'[j][n] = log[j][n] /\ m <= b /\ log'[j][m] = log[j][m]
      BY <1>0, <1>1, <1>2, <1>4, <2>0, <2>1
    <3> QED BY <1>5, <3>1 DEF Rising
  <2>2. CASE m >= b
    <3>1. n \in b..Reach(a) /\ m \in b..n /\ n >= b
      BY <1>3, <2>0, <2>2
    <3>2. log'[j][n].term = TermOf(a, n) /\ log'[j][m].term = TermOf(a, m)
      BY <1>0, <1>2, <2>0, <2>2, <3>1
    <3> QED BY <1>2, <1>5, <3>1, <3>2 DEF RisingCall
  <2>3. CASE n > b /\ m < b
    <3>1. /\ b \in 1..Reach(a) /\ b \in 1..Len(log[j]) /\ m \in 1..b /\ n \in b..Reach(a) /\ b \in b..n
          /\ m \in 1..Len(log[j])
      BY <1>1, <1>2, <1>3, <1>4, <2>0, <2>3
    <3>2. b <= b /\ b >= b /\ m <= b /\ n >= b
      BY <2>0, <2>3
    <3>3. /\ log'[j][m] = log[j][m] /\ log'[j][b] = log[j][b] /\ log'[j][b].term = TermOf(a, b)
          /\ log'[j][n].term = TermOf(a, n)
      BY <1>0, <1>2, <2>0, <3>1, <3>2
    <3>4. log[j][m].term <= log[j][b].term
      BY <1>5, <3>1 DEF Rising
    <3>5. TermOf(a, b) <= TermOf(a, n)
      BY <1>2, <1>5, <3>1 DEF RisingCall
    <3>6. TermOf(a, b) \in Nat /\ TermOf(a, n) \in Nat /\ log[j][m].term \in Nat
      BY <1>4, <1>6, <3>1
    <3>7. log[j][b].term = TermOf(a, b)
      BY <3>3
    <3>8. log[j][m].term <= TermOf(a, n)
      BY <3>4, <3>5, <3>6, <3>7
    <3> QED BY <3>3, <3>8
  <2> QED BY <2>0, <2>1, <2>2, <2>3
<1>9. Rising(log'[j], currentTerm'[j])
  BY <1>0, <1>1, <1>7, <1>8 DEF Rising
<1>10. ASSUME NEW p \in Server PROVE Rising(log'[p], currentTerm'[p])
  BY <1>1, <1>9 DEF TermsRise
<1>11. \A x, y \in Server : \A r \in Sent(x, y)' : RisingCall(r)
  BY <1>1 DEF SentOld, TermsRise
<1> QED BY <1>10, <1>11 DEF TermsRise

\* A part of a log whose terms rise.
LEMMA MadeRises ==
  ASSUME NEW i, NEW lg \in Seq(LogEntry), NEW t \in Nat, Rising(lg, t), NEW r \in AppendRequest,
         MadeFrom(i, lg, r), r.term = t
  PROVE  RisingCall(r)
<1>1. Len(lg) \in Nat /\ Reach(r) = Len(lg)
  BY DEF MadeFrom
<1>2. \A n \in 1..Len(lg) : lg[n].term \in Nat
  <2>1. \A n \in 1..Len(lg) : lg[n] \in LogEntry
    OBVIOUS
  <2> QED BY <2>1 DEF LogEntry
<1>3. PICK b \in Nat : b = r.prevLogIndex
  BY RequestFacts
<1>4. \A n \in b..Len(lg) : n > 0 => TermOf(r, n) = lg[n].term
  BY <1>1, <1>3 DEF MadeFrom, IsPart
<1>5. b = 0 => TermOf(r, 0) = 0
  BY <1>3 DEF MadeFrom, TermOf
<1>6. ASSUME NEW n \in b..Len(lg) PROVE TermOf(r, n) <= t /\ TermOf(r, n) \in Nat
  <2>1. CASE n = 0
    BY <1>3, <1>5, <2>1
  <2>2. CASE n # 0
    <3>1. n \in 1..Len(lg) /\ n > 0
      BY <1>1, <1>3, <2>2
    <3> QED BY <1>2, <1>4, <3>1 DEF Rising
  <2> QED BY <2>1, <2>2
<1>7. ASSUME NEW n \in b..Len(lg), NEW m \in b..n PROVE TermOf(r, m) <= TermOf(r, n)
  <2>1. CASE m = 0
    <3>1. b = 0
      BY <1>3, <2>1
    <3> QED BY <1>5, <1>6, <2>1, <3>1
  <2>2. CASE m # 0
    <3>1. n \in 1..Len(lg) /\ n > 0 /\ m \in 1..n /\ m > 0 /\ m \in b..Len(lg)
      BY <1>1, <1>3, <2>2
    <3> QED BY <1>4, <3>1 DEF Rising
  <2> QED BY <2>1, <2>2
<1> QED BY <1>1, <1>3, <1>6, <1>7 DEF RisingCall

\* The log a leader sends from: its own, and perhaps one entry of its term.
LEMMA SendsRising ==
  ASSUME TypeOK, TermsRise, NEW i \in Server, NEW lg, Sends(i, lg)
  PROVE  Rising(lg, currentTerm[i])
<1>1. /\ lg \in Seq(LogEntry) /\ Len(log[i]) <= Len(lg) /\ Len(lg) <= Len(log[i]) + 1
      /\ \A m \in 1..Len(log[i]) : lg[m] = log[i][m]
      /\ \A m \in 1..Len(lg) : m > Len(log[i]) => lg[m].term = currentTerm[i]
  BY DEF Sends
<1>2. /\ Len(log[i]) \in Nat /\ currentTerm[i] \in Nat
      /\ \A m \in 1..Len(log[i]) : log[i][m].term \in Nat
  BY PeerFacts
<1>3. Len(lg) \in Nat
  BY <1>1
<1>4. Rising(log[i], currentTerm[i])
  BY DEF TermsRise
<1>5. ASSUME NEW n \in 1..Len(lg) PROVE lg[n].term <= currentTerm[i]
  <2>1. CASE n \in 1..Len(log[i])
    BY <1>1, <1>4, <2>1 DEF Rising
  <2>2. CASE n > Len(log[i])
    BY <1>1, <1>2, <2>2
  <2> QED BY <1>2, <1>3, <2>1, <2>2
<1>6. ASSUME NEW n \in 1..Len(lg), NEW m \in 1..n PROVE lg[m].term <= lg[n].term
  <2>0. m \in 1..Len(lg)
    BY <1>3
  <2>1. CASE n \in 1..Len(log[i])
    <3>1. m \in 1..Len(log[i])
      BY <1>2, <2>1
    <3> QED BY <1>1, <1>4, <2>1, <3>1 DEF Rising
  <2>2. CASE n > Len(log[i])
    <3>1. lg[n].term = currentTerm[i]
      BY <1>1, <2>2
    <3> QED BY <1>5, <2>0, <3>1
  <2> QED BY <1>2, <1>3, <2>1, <2>2
<1> QED BY <1>5, <1>6 DEF Rising

\* What is sent after that was sent before or is made from lg.
LEMMA SendsSent ==
  ASSUME TypeOK, TypeOK', NEW i \in Server, NEW lg, Sends(i, lg)
  PROVE  /\ RepliesOld
         /\ \A x, y \in Server : \A r \in Sent(x, y)' :
               /\ r \in AppendRequest
               /\ r \in Sent(x, y) \/ (x = i /\ y # i /\ MadeFrom(i, lg, r))
<1>1. calls \in Links /\ LinksExtended(i, lg)
  BY TypeParts DEF Sends
<1> QED BY <1>1, ExtendedSent, SentFactsNext

\* Every step keeps TermsRise.
LEMMA TermsRiseStep ==
  ASSUME TypeOK, TypeOK', ReplicationInv, TermsGrow, Moves
  PROVE  TermsRise'
<1>0. TermsRise /\ NextInRange /\ SentInOrder
  BY DEF ReplicationInv
<1>1. \A p \in Server : /\ log[p] \in Seq(LogEntry) /\ currentTerm[p] \in Nat
                        /\ currentTerm'[p] \in Nat /\ currentTerm[p] <= currentTerm'[p]
  <2>1. \A p \in Server : log[p] \in Seq(LogEntry) /\ currentTerm[p] \in Nat
    BY PeerFacts
  <2>2. \A p \in Server : currentTerm'[p] \in Nat
    BY PeerFactsNext
  <2> QED BY <2>1, <2>2 DEF TermsGrow
<1>2. ASSUME UNCHANGED log, SentOld PROVE TermsRise'
  <2>1. ASSUME NEW p \in Server PROVE Rising(log'[p], currentTerm'[p])
    BY <1>0, <1>1, <1>2, RisingLater DEF TermsRise
  <2>2. \A x, y \in Server : \A r \in Sent(x, y)' : RisingCall(r)
    BY <1>0, <1>2 DEF SentOld, TermsRise
  <2> QED BY <2>1, <2>2 DEF TermsRise
<1>3. CASE Still
  BY <1>2, <1>3 DEF Still
<1>4. ASSUME NEW i \in Server, Wins(i) PROVE TermsRise'
  BY <1>2, <1>4, SameSent DEF Wins
<1>5. ASSUME NEW i \in Server, NEW j \in Server, NEW a, Takes(i, j, a) PROVE TermsRise'
  BY <1>0, <1>5, TakesRise
<1>6. ASSUME NEW i \in Server, NEW lg, Sends(i, lg) PROVE TermsRise'
  <2>1. Rising(lg, currentTerm[i])
    BY <1>0, <1>6, SendsRising
  <2>2. UNCHANGED currentTerm /\ lg \in Seq(LogEntry)
        /\ log'[i] \in {log[i], lg} /\ \A p \in Server : p # i => log'[p] = log[p]
    BY <1>6 DEF Sends
  <2>3. ASSUME NEW p \in Server PROVE Rising(log'[p], currentTerm'[p])
    BY <1>0, <2>1, <2>2 DEF TermsRise
  <2>4. ASSUME NEW x \in Server, NEW y \in Server, NEW r \in Sent(x, y)' PROVE RisingCall(r)
    <3>1. r \in AppendRequest /\ (r \in Sent(x, y) \/ (x = i /\ y # i /\ MadeFrom(i, lg, r)))
      BY <1>6, SendsSent
    <3>2. CASE r \in Sent(x, y)
      BY <1>0, <3>2 DEF TermsRise
    <3>3. CASE MadeFrom(i, lg, r)
      <4>1. r.term = currentTerm[i]
        BY <3>3 DEF MadeFrom
      <4> QED BY <1>1, <2>1, <2>2, <3>1, <3>3, <4>1, MadeRises
    <3> QED BY <3>1, <3>2, <3>3
  <2> QED BY <2>3, <2>4 DEF TermsRise
<1> QED BY <1>0, <1>3, <1>4, <1>5, <1>6, QuietlyStill, ElectsStill, PollsStill DEF Moves

\* Nobody is struck off the list of those who have been elected.
LEMMA ElectedStay ==
  ASSUME Moves
  PROVE  elected \subseteq elected'
  BY DEF Moves, Quietly, Calm, Elects, Polls, Wins, Takes, Sends

\* Every step keeps CallersElected: new calls come from leaders.
LEMMA CallersElectedStep ==
  ASSUME TypeOK, LogInv, NoSnapshots, CallersElected, CalledOrdinarily, Moves
  PROVE  CallersElected'
<1>0. elected \subseteq elected'
  BY ElectedStay
<1>1. ASSUME NEW x \in Server, NEW y \in Server, NEW m \in DOMAIN calls'[x][y]
      PROVE  x # y /\ <<calls'[x][y][m].term, x>> \in elected'
  <2>1. Ordinarily(x, y, calls'[x][y][m])
    BY DEF CalledOrdinarily
  <2>2. CASE x # y /\ IsLeader(x) /\ calls'[x][y][m].term = currentTerm[x]
    BY <1>0, <2>2 DEF LogInv, ElectedOnce, IsLeader
  <2>3. ASSUME NEW n \in DOMAIN calls[x][y], calls[x][y][n].term = calls'[x][y][m].term
        PROVE  x # y /\ <<calls'[x][y][m].term, x>> \in elected'
    <3>1. calls[x][y][n] \in Sent(x, y) \cup Replies(x, y)
      BY SentAt DEF NoSnapshots
    <3> QED BY <1>0, <2>3, <3>1 DEF CallersElected
  <2> QED BY <2>1, <2>2, <2>3 DEF Ordinarily
<1>2. ASSUME NEW x \in Server, NEW y \in Server, NEW c \in (Sent(x, y) \cup Replies(x, y))'
      PROVE  x # y /\ <<c.term, x>> \in elected'
  <2>1. PICK m \in DOMAIN calls'[x][y] : c = calls'[x][y][m]
    BY SentAtNext
  <2> QED BY <1>1, <2>1
<1> QED BY <1>2 DEF CallersElected

\* A part of a log is a part of every longer one.
LEMMA LongerPart ==
  ASSUME NEW r \in AppendRequest, NEW u, NEW v, Len(u) \in Nat, Len(v) \in Nat, Len(u) <= Len(v),
         \A m \in 1..Len(u) : v[m] = u[m], IsPart(r, u)
  PROVE  IsPart(r, v)
<1>1. r.prevLogIndex \in Nat /\ Reach(r) \in Nat /\ Reach(r) <= Len(u)
  BY RequestFacts DEF IsPart
<1>2. ASSUME NEW n \in r.prevLogIndex .. Reach(r)
      PROVE  /\ n > 0 => TermOf(r, n) = v[n].term
             /\ n > r.prevLogIndex => r.entries[n - r.prevLogIndex] = v[n]
  <2>1. n > 0 => n \in 1..Len(u)
    BY <1>1
  <2>2. n > r.prevLogIndex => n > 0
    BY <1>1
  <2> QED BY <2>1, <2>2 DEF IsPart
<1>3. Reach(r) <= Len(v)
  BY <1>1
<1> QED BY <1>2, <1>3 DEF IsPart

\* Every step keeps SentIsPart: a leader's log only grows, and a new leader has
\* sent nothing in its term.
LEMMA SentIsPartStep ==
  ASSUME TypeOK, TypeOK', ReplicationInv, TermsGrow, Moves
  PROVE  SentIsPart'
<1>0. SentIsPart /\ NextInRange /\ SentInOrder /\ CallersElected
  BY DEF ReplicationInv
<1>3. CASE Still
  BY <1>0, <1>3 DEF Still, SentOld, SentIsPart
<1>4. ASSUME NEW i \in Server, Wins(i) PROVE SentIsPart'
  <2>1. SentOld
    BY <1>4, SameSent DEF Wins
  <2>2. ASSUME NEW x \in Server, NEW y \in Server, NEW r \in Sent(x, y)', IsLeader(x)',
               r.term = currentTerm'[x]
        PROVE  IsPart(r, log'[x])
    <3>1. r \in Sent(x, y) /\ log'[x] = log[x] /\ r.term = currentTerm[x]
      BY <1>4, <2>1, <2>2 DEF Wins, SentOld
    <3>2. x # i
      <4>1. <<currentTerm[x], x>> \in elected
        BY <1>0, <3>1 DEF CallersElected
      <4> QED BY <1>4, <4>1 DEF Wins, Won
    <3>3. IsLeader(x)
      BY <1>4, <2>2, <3>2 DEF Wins, IsLeader
    <3> QED BY <1>0, <3>1, <3>3 DEF SentIsPart
  <2> QED BY <2>2 DEF SentIsPart
<1>5. ASSUME NEW i \in Server, NEW j \in Server, NEW a, Takes(i, j, a) PROVE SentIsPart'
  <2>1. ASSUME NEW x \in Server, NEW y \in Server, NEW r \in Sent(x, y)', IsLeader(x)',
               r.term = currentTerm'[x]
        PROVE  IsPart(r, log'[x])
    <3>1. x # j
      BY <1>5, <2>1 DEF Takes, IsLeader
    <3>2. /\ log'[x] = log[x] /\ currentTerm'[x] = currentTerm[x] /\ IsLeader(x)
          /\ r \in Sent(x, y)
      BY <1>5, <2>1, <3>1 DEF Takes, IsLeader, SentOld
    <3> QED BY <1>0, <2>1, <3>2 DEF SentIsPart
  <2> QED BY <2>1 DEF SentIsPart
<1>6. ASSUME NEW i \in Server, NEW lg, Sends(i, lg) PROVE SentIsPart'
  <2>0. UNCHANGED currentTerm /\ OfficesKept /\ \A p \in Server : p # i => log'[p] = log[p]
    BY <1>6 DEF Sends
  <2>1. ASSUME NEW x \in Server, NEW y \in Server, NEW r \in Sent(x, y)', IsLeader(x)',
               r.term = currentTerm'[x]
        PROVE  IsPart(r, log'[x])
    <3>1. r \in AppendRequest /\ (r \in Sent(x, y) \/ (x = i /\ y # i /\ MadeFrom(i, lg, r)))
      BY <1>6, SendsSent
    <3>2. IsLeader(x) /\ r.term = currentTerm[x]
      BY <2>0, <2>1 DEF OfficesKept, IsLeader
    <3>3. x = i => log'[i] = lg
      BY <1>6, <2>1 DEF Sends, IsLeader
    <3>4. CASE MadeFrom(i, lg, r) /\ x = i
      BY <3>3, <3>4 DEF MadeFrom
    <3>5. CASE r \in Sent(x, y)
      <4>1. IsPart(r, log[x])
        BY <1>0, <3>2, <3>5 DEF SentIsPart
      <4>2. CASE x = i
        <5>1. /\ Len(log[i]) \in Nat /\ Len(lg) \in Nat /\ Len(log[i]) <= Len(lg)
              /\ \A m \in 1..Len(log[i]) : lg[m] = log[i][m]
          BY <1>6, PeerFacts DEF Sends
        <5> QED BY <3>1, <3>3, <4>1, <4>2, <5>1, LongerPart
      <4>3. CASE x # i
        BY <2>0, <4>1, <4>3
      <4> QED BY <4>2, <4>3
    <3> QED BY <3>1, <3>4, <3>5
  <2> QED BY <2>1 DEF SentIsPart
<1> QED BY <1>0, <1>3, <1>4, <1>5, <1>6, QuietlyStill, ElectsStill, PollsStill DEF Moves

\* Every step keeps SentInOrder.
LEMMA SentInOrderStep ==
  ASSUME TypeOK, ReplicationInv, TermsGrow, Moves
  PROVE  SentInOrder'
<1>0. SentIsPart /\ NextInRange /\ SentInOrder
  BY DEF ReplicationInv
<1>1. ASSUME NEW i \in Server, Wins(i) PROVE SentInOrder'
  BY <1>0, <1>1, SameSent DEF Wins
<1>2. ASSUME NEW i \in Server, NEW lg, Sends(i, lg) PROVE SentInOrder'
  <2>1. LinksExtended(i, lg) /\ IsLeader(i) /\ Len(log[i]) <= Len(lg) /\ Len(lg) \in Nat
    BY <1>2 DEF Sends
  <2> QED BY <1>0, <2>1, ExtendedInOrder
<1> QED BY <1>0, <1>1, <1>2, QuietlyStill, ElectsStill, PollsStill DEF Moves, Still

\* Every step keeps NextInRange.
LEMMA NextInRangeStep ==
  ASSUME TypeOK, TypeOK', ReplicationInv, TermsGrow, Moves
  PROVE  NextInRange'
<1>0. SentInOrder /\ NextInRange /\ CallersElected
  BY DEF ReplicationInv
<1>1. \A p \in Server : Len(log[p]) \in Nat
  BY PeerFacts
<1>2. ASSUME NEW i \in Server, Wins(i) PROVE NextInRange'
  <2>1. RepliesOld
    BY <1>2, SameSent DEF Wins
  <2>2. ASSUME NEW x \in Server, NEW p \in Server, IsLeader(x)'
        PROVE  /\ nextIndex'[x][p] \in 1..(Len(log'[x]) + 1)
               /\ \A q \in Replies(x, p)' : q.term = currentTerm'[x] =>
                     q.XLen <= Len(log'[x]) + 1 /\ q.XIndex <= Len(log'[x]) + 1
    <3>1. log'[x] = log[x] /\ currentTerm'[x] = currentTerm[x]
      BY <1>2 DEF Wins
    <3>2. CASE x = i
      <4>1. nextIndex'[x][p] = Len(log[x]) + 1
        BY <1>2, <3>2 DEF Wins
      <4>2. nextIndex'[x][p] \in 1..(Len(log'[x]) + 1)
        BY <1>1, <3>1, <4>1
      <4>3. ASSUME NEW q \in Replies(x, p)', q.term = currentTerm'[x] PROVE FALSE
        <5>1. <<currentTerm[x], x>> \in elected
          BY <1>0, <2>1, <3>1, <4>3 DEF RepliesOld, CallersElected
        <5> QED BY <1>2, <3>2, <5>1 DEF Wins, Won
      <4> QED BY <4>2, <4>3
    <3>3. CASE x # i
      <4>1. IsLeader(x) /\ nextIndex'[x] = nextIndex[x]
        BY <1>2, <2>2, <3>3 DEF Wins, IsLeader
      <4> QED BY <1>0, <2>1, <3>1, <4>1 DEF NextInRange, RepliesOld
    <3> QED BY <3>2, <3>3
  <2> QED BY <2>2 DEF NextInRange
<1>3. ASSUME NEW i \in Server, NEW j \in Server, NEW a, Takes(i, j, a) PROVE NextInRange'
  <2>1. ASSUME NEW x \in Server, NEW p \in Server, IsLeader(x)'
        PROVE  /\ nextIndex'[x][p] \in 1..(Len(log'[x]) + 1)
               /\ \A q \in Replies(x, p)' : q.term = currentTerm'[x] =>
                     q.XLen <= Len(log'[x]) + 1 /\ q.XIndex <= Len(log'[x]) + 1
    <3>1. x # j
      BY <1>3, <2>1 DEF Takes, IsLeader
    <3>2. /\ log'[x] = log[x] /\ currentTerm'[x] = currentTerm[x] /\ IsLeader(x)
          /\ nextIndex'[x] = nextIndex[x]
      BY <1>3, <2>1, <3>1 DEF Takes, IsLeader
    <3>3. ASSUME NEW q \in Replies(x, p)', q.term = currentTerm'[x]
          PROVE  q.XLen <= Len(log'[x]) + 1 /\ q.XIndex <= Len(log'[x]) + 1
      <4>1. CASE q \in Replies(x, p)
        BY <1>0, <3>2, <3>3, <4>1 DEF NextInRange
      <4>2. CASE q = AppendReply(a, a.term, TRUE, 0, 0, 0)
        <5>1. q.XLen = 0 /\ q.XIndex = 0
          BY <4>2 DEF AppendReply
        <5>2. 0 <= Len(log[x]) + 1
          BY <1>1
        <5> QED BY <3>2, <5>1, <5>2
      <4> QED BY <1>3, <4>1, <4>2 DEF Takes
    <3> QED BY <1>0, <3>2, <3>3 DEF NextInRange
  <2> QED BY <2>1 DEF NextInRange
<1>4. ASSUME NEW i \in Server, NEW lg, Sends(i, lg) PROVE NextInRange'
  <2>0. UNCHANGED currentTerm /\ OfficesKept /\ \A p \in Server : p # i => log'[p] = log[p]
    BY <1>4 DEF Sends
  <2>1. RepliesOld
    BY <1>4, SendsSent
  <2>2. ASSUME NEW x \in Server, NEW p \in Server, IsLeader(x)'
        PROVE  /\ nextIndex'[x][p] \in 1..(Len(log'[x]) + 1)
               /\ \A q \in Replies(x, p)' : q.term = currentTerm'[x] =>
                     q.XLen <= Len(log'[x]) + 1 /\ q.XIndex <= Len(log'[x]) + 1
    <3>1. IsLeader(x) /\ currentTerm'[x] = currentTerm[x] /\ nextIndex'[x] = nextIndex[x]
      BY <1>4, <2>0, <2>2 DEF Sends, OfficesKept, IsLeader
    <3>2. Len(log'[x]) \in Nat /\ Len(log[x]) <= Len(log'[x])
      <4>1. CASE x = i
        <5>1. log'[i] = lg /\ Len(log[i]) <= Len(lg) /\ lg \in Seq(LogEntry)
          BY <1>4, <2>2, <4>1 DEF Sends, IsLeader
        <5> QED BY <4>1, <5>1
      <4>2. CASE x # i
        BY <1>1, <2>0, <4>2
      <4> QED BY <4>1, <4>2
    <3>3. nextIndex'[x][p] \in 1..(Len(log'[x]) + 1)
      <4>1. nextIndex[x][p] \in 1..(Len(log[x]) + 1)
        BY <1>0, <3>1 DEF NextInRange
      <4> QED BY <1>1, <3>1, <3>2, <4>1
    <3>4. ASSUME NEW q \in Replies(x, p)', q.term = currentTerm'[x]
          PROVE  q.XLen <= Len(log'[x]) + 1 /\ q.XIndex <= Len(log'[x]) + 1
      <4>1. q \in Replies(x, p)
        BY <2>1 DEF RepliesOld
      <4>2. q.XLen <= Len(log[x]) + 1 /\ q.XIndex <= Len(log[x]) + 1
        BY <1>0, <3>1, <3>4, <4>1 DEF NextInRange
      <4>3. q.XLen \in Nat /\ q.XIndex \in Nat
        <5>1. q \in AppendReplies
          BY <4>1, SentFacts
        <5> QED BY <5>1 DEF AppendReplies
      <4> QED BY <1>1, <3>2, <4>2, <4>3
    <3> QED BY <3>3, <3>4
  <2> QED BY <2>2 DEF NextInRange
<1> QED BY <1>0, <1>2, <1>3, <1>4, QuietlyStill, ElectsStill, PollsStill DEF Moves, Still

\* Whoever takes a request of the leader of its term has the leader's entries.
LEMMA TakenIsLeaders ==
  ASSUME TypeOK, NoSnapshots, LogInv, ElectionSafety, CallersElected, SentIsPart,
         NEW i \in Server, NEW j \in Server, NEW a, Takes(i, j, a),
         NEW x \in Server, IsLeader(x), currentTerm[x] = a.term
  PROVE  /\ x = i /\ Reach(a) <= Len(log[x]) /\ Len(log'[j]) = Reach(a)
         /\ \A m \in 1..Reach(a) : log'[j][m] = log[x][m]
<1>1. a \in Sent(i, j)
  BY DEF Takes
<1>2. x = i
  <2>1. <<a.term, i>> \in elected
    BY <1>1 DEF CallersElected
  <2>2. <<a.term, x>> \in elected
    BY DEF LogInv, ElectedOnce, IsLeader
  <2> QED BY <2>1, <2>2, OneWinner
<1>3. IsPart(a, log[x])
  BY <1>1, <1>2 DEF SentIsPart
<1>4. /\ a \in AppendRequest /\ Len(log'[j]) = Reach(a)
      /\ \A m \in 1..Reach(a) :
            /\ m <= a.prevLogIndex => log'[j][m] = log[j][m]
            /\ m > a.prevLogIndex => log'[j][m] = a.entries[m - a.prevLogIndex]
  BY TakenTerms
<1>5. PICK b \in Nat : b = a.prevLogIndex
  BY <1>4, RequestFacts
<1>6. Reach(a) \in Nat /\ b <= Reach(a) /\ Reach(a) <= Len(log[x]) /\ Len(log[x]) \in Nat
  BY <1>3, <1>4, <1>5, RequestFacts, PeerFacts DEF IsPart
<1>7. ASSUME NEW m \in 1..Reach(a) PROVE log'[j][m] = log[x][m]
  <2>1. CASE m > b
    <3>1. m \in b..Reach(a)
      BY <1>6, <2>1
    <3>2. a.entries[m - b] = log[x][m]
      BY <1>3, <1>5, <2>1, <3>1 DEF IsPart
    <3> QED BY <1>4, <1>5, <2>1, <3>2
  <2>2. CASE m <= b
    <3>1. b > 0 /\ b \in b..Reach(a) /\ b \in 1..Len(log[x]) /\ m \in 1..b /\ ~(b > b)
      BY <1>6, <2>2
    <3>2. b <= Len(log[j]) /\ log[j][b].term = a.prevLogTerm
      BY <1>5, <3>1 DEF Takes
    <3>3. b \in 1..Len(log[j])
      BY <3>1, <3>2, PeerFacts
    <3>4. TermOf(a, b) = log[x][b].term /\ TermOf(a, b) = a.prevLogTerm
      BY <1>3, <1>5, <3>1 DEF IsPart, TermOf
    <3>5. log[j][b].term = log[x][b].term
      BY <3>2, <3>4
    <3>6. log[j][m] = log[x][m]
      <4>1. PiecesAgree
        BY DEF LogInv
      <4> QED BY <3>1, <3>3, <3>5, <4>1, LogsAgree
    <3> QED BY <1>4, <1>5, <2>2, <3>6
  <2> QED BY <1>6, <2>1, <2>2
<1> QED BY <1>2, <1>4, <1>6, <1>7

\* The types of what a leader is told.
LEMMA AckedNat ==
  ASSUME TypeOK, NEW i \in Server, NEW p \in Server
  PROVE  \A n \in Acked(i, p) : n \in Nat
<1> SUFFICES ASSUME NEW n \in Acked(i, p) PROVE n \in Nat
  OBVIOUS
<1>1. CASE n = matchIndex[i][p]
  BY <1>1, PeerFacts
<1>2. CASE \E r \in Replies(i, p) : n = r.prevI + r.ent
  <2>1. PICK r \in Replies(i, p) : n = r.prevI + r.ent
    BY <1>2
  <2>2. r \in AppendReplies
    BY SentFacts
  <2> QED BY <2>1, <2>2 DEF AppendReplies
<1> QED BY <1>1, <1>2, AckedIs

\* The same of the next state.
LEMMA AckedNatNext ==
  ASSUME TypeOK', NEW i \in Server, NEW p \in Server
  PROVE  \A n \in Acked(i, p)' : n \in Nat
<1> SUFFICES ASSUME NEW n \in Acked(i, p)' PROVE n \in Nat
  OBVIOUS
<1>1. CASE n = matchIndex'[i][p]
  BY <1>1, PeerFactsNext
<1>2. CASE \E r \in Replies(i, p)' : n = r.prevI + r.ent
  <2>1. PICK r \in Replies(i, p)' : n = r.prevI + r.ent
    BY <1>2
  <2>2. r \in AppendReplies
    BY SentFactsNext
  <2> QED BY <2>1, <2>2 DEF AppendReplies
<1> QED BY <1>1, <1>2, AckedIs

\* What a leader was told stays true as terms grow and nothing else happens.
LEMMA StillAcked ==
  ASSUME TypeOK, TypeOK', AckedKept, Still
  PROVE  AckedKept'
<1> SUFFICES ASSUME NEW x \in Server, NEW p \in Server, IsLeader(x)', NEW n \in Acked(x, p)'
             PROVE  AckKept(x, p, n)'
  BY DEF AckedKept
<1>1. IsLeader(x) /\ currentTerm'[x] = currentTerm[x] /\ n \in Acked(x, p) /\ UNCHANGED log /\ SentOld
  BY DEF Still, AckedLess
<1>2. AckKept(x, p, n)
  BY <1>1 DEF AckedKept
<1>3. /\ currentTerm[p] \in Nat /\ currentTerm'[p] \in Nat /\ currentTerm[x] \in Nat /\ n \in Nat
      /\ currentTerm'[p] >= currentTerm[p]
  BY <1>1, PeerFacts, PeerFactsNext, AckedNat DEF Still, TermsGrow
<1>4. n > 0 => currentTerm'[p] >= currentTerm'[x]
  BY <1>1, <1>2, <1>3 DEF AckKept
<1>5. \A r \in Sent(x, p)' : r.term = currentTerm'[x] => n <= Reach(r)
  BY <1>1, <1>2 DEF AckKept, SentOld
<1>6. ASSUME currentTerm'[p] = currentTerm'[x]
      PROVE  n <= Len(log'[p]) /\ \A m \in 1..n : log'[p][m] = log'[x][m]
  <2>1. CASE n = 0
    BY <2>1, PeerFactsNext
  <2>2. CASE n > 0
    <3>1. currentTerm[p] = currentTerm[x]
      BY <1>1, <1>2, <1>3, <1>6, <2>2 DEF AckKept
    <3> QED BY <1>1, <1>2, <3>1 DEF AckKept
  <2> QED BY <1>3, <2>1, <2>2
<1> QED BY <1>1, <1>2, <1>4, <1>5, <1>6 DEF AckKept

\* A new leader has been told nothing, in its matchIndex or by a reply.
LEMMA WinsAcked ==
  ASSUME TypeOK, TypeOK', CallersElected, AckedKept, NEW i \in Server, Wins(i)
  PROVE  AckedKept'
<1> SUFFICES ASSUME NEW x \in Server, NEW p \in Server, IsLeader(x)', NEW n \in Acked(x, p)'
             PROVE  AckKept(x, p, n)'
  BY DEF AckedKept
<1>0. UNCHANGED <<currentTerm, log, calls>>
  BY DEF Wins
<1>1. /\ Sent(x, p)' = Sent(x, p) /\ Replies(x, p)' = Replies(x, p)
  BY <1>0 DEF Sent, Replies
<1>2. Len(log[x]) \in Nat /\ Len(log[p]) \in Nat /\ currentTerm[x] \in Nat
  BY PeerFacts
<1>3. CASE x # i
  <2>1. IsLeader(x) /\ matchIndex'[x] = matchIndex[x]
    BY <1>3 DEF Wins, IsLeader
  <2>2. n \in Acked(x, p)
    BY <1>0, <1>1, <2>1, AckedIs
  <2>3. AckKept(x, p, n)
    BY <2>1, <2>2 DEF AckedKept
  <2> QED BY <1>0, <1>1, <2>3 DEF AckKept
<1>4. CASE x = i
  <2>1. ~(\E r \in Sent(x, p) \cup Replies(x, p) : r.term = currentTerm[x])
    BY <1>4 DEF Wins, Won, CallersElected
  <2>2. n = matchIndex'[x][p]
    BY <1>0, <1>1, <2>1, AckedIs
  <2>3. n = (IF p = i THEN Len(log[i]) ELSE 0)
    BY <1>4, <2>2 DEF Wins
  <2>4. CASE p = i
    <3>1. n = Len(log[x]) /\ n <= Len(log[x]) /\ currentTerm[x] >= currentTerm[x]
      BY <1>2, <1>4, <2>3, <2>4
    <3> QED BY <1>0, <1>1, <1>4, <2>1, <2>4, <3>1 DEF AckKept
  <2>5. CASE p # i
    <3>1. n = 0 /\ n <= Len(log[x]) /\ n <= Len(log[p]) /\ ~(n > 0) /\ \A m \in 1..n : FALSE
      BY <1>2, <2>3, <2>5
    <3> QED BY <1>0, <1>1, <2>1, <3>1 DEF AckKept
  <2> QED BY <2>4, <2>5
<1> QED BY <1>3, <1>4

\* The follower that takes a request gets all of the leader's log up to its
\* reach, which is as far as it had acknowledged.
LEMMA TakesAcked ==
  ASSUME TypeOK, TypeOK', NoSnapshots, LogInv, ElectionSafety, CallersElected, SentIsPart, AckedKept,
         NEW i \in Server, NEW j \in Server, NEW a, Takes(i, j, a), TakesFirst(i, j, a)
  PROVE  AckedKept'
<1> SUFFICES ASSUME NEW x \in Server, NEW p \in Server, IsLeader(x)', NEW n \in Acked(x, p)'
             PROVE  AckKept(x, p, n)'
  BY DEF AckedKept
<1>1. x # j
  BY DEF Takes, IsLeader
<1>2. /\ IsLeader(x) /\ currentTerm'[x] = currentTerm[x] /\ log'[x] = log[x] /\ SentOld
      /\ matchIndex'[x] = matchIndex[x]
  BY <1>1 DEF Takes, IsLeader
<1>3. /\ a \in Sent(i, j) /\ currentTerm[j] <= a.term /\ currentTerm'[j] = a.term
      /\ \A q \in Server : q # j => currentTerm'[q] = currentTerm[q] /\ log'[q] = log[q]
  BY DEF Takes
<1>4. a \in AppendRequest
  BY <1>3, SentFacts
<1>5. /\ a.term \in Nat /\ Reach(a) \in Nat /\ currentTerm[x] \in Nat /\ currentTerm[j] \in Nat
      /\ n \in Nat
  BY <1>4, RequestFacts, PeerFacts, AckedNatNext
<1>6. currentTerm[x] = a.term =>
        /\ x = i /\ Reach(a) <= Len(log[x]) /\ Len(log'[j]) = Reach(a)
        /\ \A m \in 1..Reach(a) : log'[j][m] = log[x][m]
  BY <1>2, TakenIsLeaders
<1>7. CASE n \in Acked(x, p)
  <2>1. AckKept(x, p, n)
    BY <1>2, <1>7 DEF AckedKept
  <2>2. \A r \in Sent(x, p)' : r.term = currentTerm'[x] => n <= Reach(r)
    BY <1>2, <2>1 DEF AckKept, SentOld
  <2>3. CASE p # j
    BY <1>2, <1>3, <2>1, <2>2, <2>3 DEF AckKept
  <2>4. CASE p = j
    <3>1. n > 0 => currentTerm'[p] >= currentTerm'[x]
      BY <1>2, <1>3, <1>5, <2>1, <2>4 DEF AckKept
    <3>2. ASSUME currentTerm'[p] = currentTerm'[x]
          PROVE  n <= Len(log'[p]) /\ \A m \in 1..n : log'[p][m] = log'[x][m]
      <4>1. currentTerm[x] = a.term /\ x = i
        BY <1>2, <1>3, <1>6, <2>4, <3>2
      <4>2. n <= Reach(a)
        BY <1>3, <2>1, <2>4, <4>1 DEF AckKept
      <4>3. \A m \in 1..n : m \in 1..Reach(a)
        BY <1>5, <4>2
      <4> QED BY <1>2, <1>6, <2>4, <4>1, <4>2, <4>3
    <3> QED BY <1>2, <2>1, <2>2, <3>1, <3>2 DEF AckKept
  <2> QED BY <2>3, <2>4
<1>8. CASE n \notin Acked(x, p)
  <2> DEFINE r == AppendReply(a, a.term, TRUE, 0, 0, 0)
  <2>1. n # matchIndex[x][p]
    BY <1>8, AckedIs
  <2>2. PICK q \in Replies(x, p)' : q.term = currentTerm'[x] /\ q.success /\ n = q.prevI + q.ent
    BY <1>2, <2>1, AckedIs
  <2>3. q \notin Replies(x, p)
    BY <1>2, <1>8, <2>2, AckedIs
  <2>4. x = i /\ p = j /\ q = r
    BY <2>3 DEF Takes
  <2>5. r.term = a.term /\ r.prevI = a.prevLogIndex /\ r.ent = Len(a.entries)
    BY DEF AppendReply
  <2> HIDE DEF r
  <2>6. n = Reach(a) /\ currentTerm[x] = a.term
    BY <1>2, <2>2, <2>4, <2>5 DEF Reach
  <2>7. currentTerm'[p] = currentTerm'[x] /\ currentTerm'[p] >= currentTerm'[x] /\ n <= n
    BY <1>2, <1>3, <1>5, <2>4, <2>6
  <2>8. \A s \in Sent(x, p)' : s.term = currentTerm'[x] => n <= Reach(s)
    BY <1>2, <2>4, <2>6 DEF TakesFirst
  <2> QED BY <1>2, <1>6, <2>4, <2>6, <2>7, <2>8 DEF AckKept
<1> QED BY <1>7, <1>8

\* A new request reaches the end of the leader's log, beyond what is
\* acknowledged.
LEMMA SendsAcked ==
  ASSUME TypeOK, TypeOK', CallersElected, AckedKept, NEW i \in Server, NEW lg, Sends(i, lg)
  PROVE  AckedKept'
<1> SUFFICES ASSUME NEW x \in Server, NEW p \in Server, IsLeader(x)', NEW n \in Acked(x, p)'
             PROVE  AckKept(x, p, n)'
  BY DEF AckedKept
<1>1. /\ IsLeader(i) /\ UNCHANGED currentTerm /\ lg \in Seq(LogEntry) /\ Len(log[i]) <= Len(lg)
      /\ \A m \in 1..Len(log[i]) : lg[m] = log[i][m]
      /\ log'[i] \in {log[i], lg} /\ (IsLeader(i)' => log'[i] = lg)
      /\ \A q \in Server : q # i => log'[q] = log[q]
      /\ IsLeader(i)' => matchIndex'[i][i] \in {matchIndex[i][i], Len(lg)}
      /\ \A q \in Server : x # i \/ q # i => matchIndex'[x][q] = matchIndex[x][q]
  BY DEF Sends, IsLeader
<1>2. IsLeader(x)
  BY DEF Sends, OfficesKept, IsLeader
<1>3. /\ Len(log[i]) \in Nat /\ Len(lg) \in Nat /\ Len(log[x]) \in Nat /\ Len(log[p]) \in Nat
      /\ currentTerm[x] \in Nat
  BY <1>1, PeerFacts
<1>4. /\ RepliesOld
      /\ \A r \in Sent(x, p)' : r \in Sent(x, p) \/ (x = i /\ p # i /\ MadeFrom(i, lg, r))
  BY SendsSent
<1>5. ASSUME NEW q \in Server
      PROVE  /\ Len(log'[q]) \in Nat /\ Len(log[q]) <= Len(log'[q])
             /\ \A m \in 1..Len(log[q]) : log'[q][m] = log[q][m]
  <2>1. Len(log[q]) \in Nat /\ Len(log'[q]) \in Nat
    BY PeerFacts, PeerFactsNext
  <2>2. CASE q = i
    BY <1>1, <1>3, <2>1, <2>2
  <2>3. CASE q # i
    BY <1>1, <2>1, <2>3
  <2> QED BY <2>2, <2>3
<1>6. CASE n \in Acked(x, p)
  <2>1. AckKept(x, p, n) /\ n \in Nat
    BY <1>2, <1>6, AckedNat DEF AckedKept
  <2>2. n <= Len(log[x])
    BY <2>1 DEF AckKept
  <2>3. n <= Len(log'[x])
    BY <1>3, <1>5, <2>1, <2>2
  <2>4. ASSUME NEW r \in Sent(x, p)', r.term = currentTerm'[x] PROVE n <= Reach(r)
    <3>1. CASE r \in Sent(x, p)
      BY <1>1, <2>1, <2>4, <3>1 DEF AckKept
    <3>2. CASE x = i /\ MadeFrom(i, lg, r)
      <4>1. Reach(r) = Len(lg)
        BY <3>2 DEF MadeFrom
      <4> QED BY <1>1, <1>3, <2>1, <2>2, <3>2, <4>1
    <3> QED BY <1>4, <3>1, <3>2
  <2>5. ASSUME currentTerm'[p] = currentTerm'[x]
        PROVE  n <= Len(log'[p]) /\ \A m \in 1..n : log'[p][m] = log'[x][m]
    <3>1. n <= Len(log[p]) /\ \A m \in 1..n : log[p][m] = log[x][m]
      BY <1>1, <2>1, <2>5 DEF AckKept
    <3>2. \A m \in 1..n : m \in 1..Len(log[p]) /\ m \in 1..Len(log[x])
      BY <1>3, <2>1, <2>2, <3>1
    <3>3. n <= Len(log'[p])
      BY <1>3, <1>5, <2>1, <3>1
    <3> QED BY <1>5, <3>1, <3>2, <3>3
  <2> QED BY <1>1, <2>1, <2>3, <2>4, <2>5 DEF AckKept
<1>7. CASE n \notin Acked(x, p)
  <2>1. x = i /\ p = i /\ n = Len(lg)
    <3>1. n # matchIndex[x][p]
      BY <1>7, AckedIs
    <3>2. n = matchIndex'[x][p]
      <4>1. ASSUME NEW r \in Replies(x, p)', r.term = currentTerm'[x], r.success, n = r.prevI + r.ent
            PROVE  FALSE
        BY <1>1, <1>4, <1>7, <4>1, AckedIs DEF RepliesOld
      <4> QED BY <4>1, AckedIs
    <3> QED BY <1>1, <3>1, <3>2
  <2>2. log'[x] = lg
    BY <1>1, <2>1
  <2>3. n <= n /\ currentTerm[x] >= currentTerm[x]
    BY <1>3, <2>1
  <2>4. ASSUME NEW r \in Sent(x, p)' PROVE FALSE
    BY <1>4, <2>1, <2>4 DEF CallersElected
  <2> QED BY <1>1, <2>1, <2>2, <2>3, <2>4 DEF AckKept
<1> QED BY <1>6, <1>7

\* Every step keeps AckedKept.
LEMMA AckedKeptStep ==
  ASSUME TypeOK, TypeOK', LogInv, ElectionSafety, ReplicationInv, TermsGrow, Moves
  PROVE  AckedKept'
<1>0. NoSnapshots /\ SentIsPart /\ NextInRange /\ SentInOrder /\ CallersElected /\ AckedKept
  BY DEF ReplicationInv
<1>1. ASSUME Still PROVE AckedKept'
  BY <1>0, <1>1, StillAcked
<1>2. ASSUME NEW i \in Server, Wins(i) PROVE AckedKept'
  BY <1>0, <1>2, WinsAcked
<1>3. ASSUME NEW i \in Server, NEW j \in Server, NEW a, Takes(i, j, a), TakesFirst(i, j, a)
      PROVE  AckedKept'
  BY <1>0, <1>3, TakesAcked
<1>4. ASSUME NEW i \in Server, NEW lg, Sends(i, lg) PROVE AckedKept'
  BY <1>0, <1>4, SendsAcked
<1> QED BY <1>0, <1>1, <1>2, <1>3, <1>4, QuietlyStill, ElectsStill, PollsStill DEF Moves

\* Every step keeps VotesAsked: a candidate's log does not change.
LEMMA VotesAskedStep ==
  ASSUME TypeOK, TypeOK', ElectionInv, NoSnapshots, NoSnapshots', VotesAsked, TermsGrow, Moves
  PROVE  VotesAsked'
<1> DEFINE Told(c) == c.lastLogIndex = lastLogIndex(c.src) /\ c.lastLogTerm = lastLogTerm(c.src)
           Asked  == \A c \in voteCalls' : c.kind = "request" /\ Voting(c)' => Told(c)'
           Counted == \A v \in votes' : v[2] <= currentTerm'[v[3]]
<1>0. \A c \in voteCalls : c.kind = "request" /\ Voting(c) => Told(c)
  BY DEF VotesAsked
<1>1. ASSUME NEW v \in votes PROVE v[2] <= currentTerm'[v[3]]
  <2>1. v[2] <= currentTerm[v[3]] /\ v[2] \in Nat /\ v[3] \in Server
    BY DEF VotesAsked, TypeOK
  <2>2. currentTerm[v[3]] \in Nat /\ currentTerm'[v[3]] \in Nat
    BY <2>1, PeerFacts, PeerFactsNext
  <2> QED BY <2>1, <2>2 DEF TermsGrow
<1>2. ASSUME UNCHANGED votes PROVE Counted
  BY <1>1, <1>2
<1>3. ASSUME NEW c \in voteCalls', c.src \in Server, log'[c.src] = log[c.src] PROVE Told(c)' <=> Told(c)
  <2>1. /\ lastLogIndex(c.src)' = Len(log'[c.src])
        /\ lastLogTerm(c.src)' = IF Len(log'[c.src]) = 0 THEN 0 ELSE log'[c.src][Len(log'[c.src])].term
    BY <1>3, PlainLogNext
  <2>2. /\ lastLogIndex(c.src) = Len(log[c.src])
        /\ lastLogTerm(c.src) = IF Len(log[c.src]) = 0 THEN 0 ELSE log[c.src][Len(log[c.src])].term
    BY <1>3, PlainLog
  <2> QED BY <1>3, <2>1, <2>2
<1>4. \A c \in voteCalls' : c.src \in Server
  <2>1. \A c \in VoteCall : c.src \in Server
    BY DEF VoteCall
  <2> QED BY <2>1 DEF TypeOK
<1> HIDE DEF Told
<1>5. ASSUME AskedBefore, OfficesKept,
             \A p \in Server : serverState'[p] = "candidate" => log'[p] = log[p]
      PROVE  Asked
  <2>1. ASSUME NEW c \in voteCalls', c.kind = "request", Voting(c)' PROVE Told(c)'
    <3>1. c \in voteCalls /\ serverState'[c.src] = "candidate" /\ currentTerm'[c.src] = c.term
      BY <1>5, <2>1 DEF AskedBefore, Voting
    <3>2. Voting(c) /\ log'[c.src] = log[c.src]
      BY <1>4, <1>5, <3>1 DEF OfficesKept, Voting
    <3> QED BY <1>0, <1>3, <1>4, <2>1, <3>1, <3>2
  <2> QED BY <2>1
<1>6. CASE Quietly
  BY <1>2, <1>5, <1>6 DEF Quietly, Calm, VotesAsked, Told
<1>7. ASSUME NEW i \in Server, Elects(i) PROVE VotesAsked'
  <2>0. currentTerm[i] \in Nat /\ currentTerm'[i] = currentTerm[i] + 1 /\ UNCHANGED log
    BY <1>7, PeerFacts DEF Elects
  <2>1. Counted
    <3>1. ASSUME NEW v \in votes' PROVE v[2] <= currentTerm'[v[3]]
      <4>1. CASE v \in votes
        BY <1>1, <4>1
      <4>2. CASE v = <<i, currentTerm[i] + 1, i>>
        BY <2>0, <4>2
      <4> QED BY <1>7, <4>1, <4>2 DEF Elects
    <3> QED BY <3>1
  <2>2. ASSUME NEW c \in voteCalls', c.kind = "request", Voting(c)' PROVE Told(c)'
    <3>1. CASE c \in voteCalls
      <4>1. c.term <= currentTerm[c.src] /\ c.term \in Nat
        BY <3>1, TypeParts, VoteCallKinds DEF ElectionInv, CallsRecorded
      <4>2. c.src # i
        BY <2>0, <2>2, <4>1 DEF Voting
      <4>3. Voting(c)
        BY <1>4, <1>7, <2>2, <4>2 DEF Voting, Elects
      <4> QED BY <1>0, <1>3, <1>4, <2>0, <2>2, <3>1, <4>3
    <3>2. CASE c.src = i /\ c.lastLogIndex = lastLogIndex(i) /\ c.lastLogTerm = lastLogTerm(i)
      <4>1. Told(c)
        BY <3>2 DEF Told
      <4> QED BY <1>3, <1>4, <2>0, <4>1
    <3> QED BY <1>7, <2>2, <3>1, <3>2 DEF Elects
  <2> QED BY <2>1, <2>2 DEF VotesAsked, Told
<1>8. ASSUME NEW j \in Server, NEW c, Polls(j, c) PROVE VotesAsked'
  <2>1. Asked
    BY <1>5, <1>8 DEF Polls
  <2>2. c \in voteCalls
    BY <1>8 DEF Polls
  <2>3. c.term <= currentTerm[c.src] /\ c.term \in Nat /\ c.src \in Server
    BY <2>2, TypeParts, VoteCallKinds DEF ElectionInv, CallsRecorded
  <2>4. c.term <= currentTerm'[c.src]
    <3>1. currentTerm[c.src] \in Nat /\ currentTerm'[c.src] \in Nat
      BY <2>3, PeerFacts, PeerFactsNext
    <3> QED BY <2>3, <3>1 DEF TermsGrow
  <2>5. ASSUME NEW v \in votes' PROVE v[2] <= currentTerm'[v[3]]
    <3>1. CASE v \in votes
      BY <1>1, <3>1
    <3>2. CASE v = <<j, c.term, c.src>>
      BY <2>4, <3>2
    <3> QED BY <1>8, <3>1, <3>2 DEF Polls
  <2> QED BY <2>1, <2>5 DEF VotesAsked, Told
<1>9. ASSUME NEW i \in Server, Wins(i) PROVE VotesAsked'
  <2>1. ASSUME NEW c \in voteCalls', c.kind = "request", Voting(c)' PROVE Told(c)'
    <3>1. c \in voteCalls /\ c.src # i /\ UNCHANGED <<currentTerm, log>>
      BY <1>9, <2>1 DEF Wins, AskedBefore, Voting
    <3>2. Voting(c)
      BY <1>4, <1>9, <2>1, <3>1 DEF Wins, Voting
    <3> QED BY <1>0, <1>3, <1>4, <2>1, <3>1, <3>2
  <2>2. Counted
    BY <1>2, <1>9 DEF Wins
  <2> QED BY <2>1, <2>2 DEF VotesAsked, Told
<1>10. ASSUME NEW i \in Server, NEW j \in Server, NEW a, Takes(i, j, a) PROVE VotesAsked'
  <2>1. OfficesKept /\ AskedBefore
    BY <1>10 DEF Takes, OfficesKept, AskedBefore
  <2>2. \A p \in Server : serverState'[p] = "candidate" => log'[p] = log[p]
    BY <1>10 DEF Takes
  <2>3. Asked /\ Counted
    BY <1>2, <1>5, <1>10, <2>1, <2>2 DEF Takes
  <2> QED BY <2>3 DEF VotesAsked, Told
<1>11. ASSUME NEW i \in Server, NEW lg, Sends(i, lg) PROVE VotesAsked'
  <2>1. OfficesKept /\ AskedBefore
    BY <1>11 DEF Sends, AskedBefore
  <2>2. \A p \in Server : serverState'[p] = "candidate" => log'[p] = log[p]
    BY <1>11 DEF Sends, OfficesKept, IsLeader
  <2>3. Asked /\ Counted
    BY <1>2, <1>5, <1>11, <2>1, <2>2 DEF Sends
  <2> QED BY <2>3 DEF VotesAsked, Told
<1> QED BY <1>6, <1>7, <1>8, <1>9, <1>10, <1>11 DEF Moves

\* A step that changes nothing is quiet.
LEMMA StutterMoves ==
  ASSUME TypeOK, ReplicationInv, UNCHANGED vars
  PROVE  TermsGrow /\ Moves /\ NoSnapshots' /\ CalledOrdinarily
<1>0. NoSnapshots /\ NextInRange /\ SentInOrder
  BY DEF ReplicationInv
<1>1. /\ UNCHANGED <<currentTerm, serverState, log, lastIncludedIndex, lastIncludedTerm>>
      /\ UNCHANGED <<nextIndex, matchIndex, votes, elected, ticker, installers, voteCalls, calls>>
  BY DEF vars, termVars, logVars, peerVars, voteHist
<1>2. TermsGrow
  <2>1. \A p \in Server : currentTerm[p] >= currentTerm[p]
    BY PeerFacts
  <2> QED BY <1>1, <2>1 DEF TermsGrow
<1>3. OfficesKept /\ LeaderIndicesKept /\ AskedBefore
  BY <1>1 DEF OfficesKept, LeaderIndicesKept, AskedBefore
<1>4. Quietly
  BY <1>0, <1>1, <1>2, <1>3, SameSent, UntoldQuietly
<1>5. NoSnapshots'
  BY <1>0, <1>1 DEF NoSnapshots
<1>6. CalledOrdinarily
  BY <1>0, <1>1, OldOrdinarily DEF CalledOrdinarily
<1> QED BY <1>2, <1>4, <1>5, <1>6 DEF Moves

\* Every step keeps the invariant of replication.
LEMMA ReplicationStep ==
  ASSUME TypeOK, TypeOK', InOrderOnly, PersistedCurrent, ElectionInv, ElectionInv', ElectionSafety,
         ElectionSafety', LogInv, ReplicationInv, [Next]_vars
  PROVE  ReplicationInv' /\ TermsGrow /\ Moves
<1>0. NoSnapshots /\ NextInRange /\ CallersElected /\ VotesAsked
  BY DEF ReplicationInv
<1>1. TermsGrow /\ Moves
  BY StepMoves, StutterMoves
<1>2. NoSnapshots' /\ CalledOrdinarily
  BY <1>0, PlainStep, StutterMoves
<1>3. TermsRise' /\ CallersElected' /\ SentIsPart'
  BY <1>0, <1>1, <1>2, TermsRiseStep, CallersElectedStep, SentIsPartStep
<1>4. SentInOrder' /\ AckedKept' /\ NextInRange'
  BY <1>1, SentInOrderStep, AckedKeptStep, NextInRangeStep
<1>5. VotesAsked'
  BY <1>0, <1>1, <1>2, VotesAskedStep
<1> QED BY <1>1, <1>2, <1>3, <1>4, <1>5 DEF ReplicationInv

-----------------------------------------------------------------------------
(* Majorities. *)

\* Two majorities have a peer in common.
LEMMA MajoritiesMeet ==
  ASSUME NEW A \in SUBSET Server, NEW B \in SUBSET Server,
         IsMajority(Cardinality(A)), IsMajority(Cardinality(B))
  PROVE  \E p \in A : p \in B
<1>1. IsFiniteSet(A) /\ IsFiniteSet(B) /\ IsFiniteSet(Server)
  BY FS_Subset, ServerAssumption
<1>2. /\ Cardinality(A) \in Nat /\ Cardinality(B) \in Nat /\ Cardinality(Server) \in Nat
  BY <1>1, FS_CardinalityType
<1>3. Cardinality(A) + Cardinality(B) > Cardinality(Server)
  BY <1>2 DEF IsMajority
<1>4. A \cap B # {}
  BY <1>1, <1>3, FS_MajoritiesIntersect
<1> QED BY <1>4

\* A set of peers with a majority in it is a majority.
LEMMA MajorityGrows ==
  ASSUME NEW A \in SUBSET Server, NEW B \in SUBSET Server, A \subseteq B, IsMajority(Cardinality(A))
  PROVE  IsMajority(Cardinality(B))
<1>1. IsFiniteSet(A) /\ IsFiniteSet(B) /\ IsFiniteSet(Server)
  BY FS_Subset, ServerAssumption
<1>2. /\ Cardinality(A) \in Nat /\ Cardinality(B) \in Nat /\ Cardinality(Server) \in Nat
  BY <1>1, FS_CardinalityType
<1>3. Cardinality(A) <= Cardinality(B)
  BY <1>1, FS_Subset
<1> QED BY <1>2, <1>3 DEF IsMajority

-----------------------------------------------------------------------------
(* Protection is kept. *)

\* The part of Protected that does not depend on a set of peers.
Included(n, T) == Won(T) /\ LogsInclude(n, T) /\ SentIncludes(n, T) /\ LeadersHave(n, T)

\* Whoever takes a request that carries the entry has it.
LEMMA TakesCarried ==
  ASSUME TypeOK, NEW i \in Server, NEW j \in Server, NEW a, Takes(i, j, a),
         NEW n \in Nat \ {0}, NEW T \in Nat, LogsInclude(n, T), Carries(a, n, T)
  PROVE  Has(j, n, T)'
<1>1. /\ a \in AppendRequest /\ Len(log'[j]) = Reach(a)
      /\ \A m \in 1..Reach(a) :
            /\ m <= a.prevLogIndex => log'[j][m] = log[j][m]
            /\ m >= a.prevLogIndex => log'[j][m].term = TermOf(a, m)
  BY TakenTerms
<1>2. PICK b \in Nat : b = a.prevLogIndex
  BY <1>1, RequestFacts
<1>3. Reach(a) \in Nat /\ n <= Reach(a) /\ n \in 1..Reach(a) /\ a.prevLogTerm \in Nat
  BY <1>1, RequestFacts DEF Carries
<1>4. CASE b <= n
  <2>1. TermOf(a, n) = T
    BY <1>2, <1>4 DEF Carries
  <2>2. log'[j][n].term = TermOf(a, n)
    BY <1>1, <1>2, <1>3, <1>4
  <2> QED BY <1>1, <1>3, <2>1, <2>2 DEF Has
<1>5. CASE b > n
  <2>1. b > 0 /\ b <= Len(log[j]) /\ log[j][b].term = a.prevLogTerm /\ a.prevLogTerm >= T
    BY <1>2, <1>5 DEF Takes, Carries
  <2>2. b \in 1..Len(log[j]) /\ b >= n
    BY <1>5, <2>1, PeerFacts
  <2>3. After(log[j][b].term, b, n, T)
    BY <1>3, <2>1, <2>2 DEF After
  <2>4. Has(j, n, T)
    BY <2>2, <2>3 DEF LogsInclude
  <2>5. log'[j][n] = log[j][n]
    BY <1>1, <1>2, <1>3, <1>5
  <2> QED BY <1>1, <1>3, <2>4, <2>5 DEF Has
<1> QED BY <1>2, <1>4, <1>5

\* A request made from a log with the entry carries it.
LEMMA MadeCarries ==
  ASSUME NEW i, NEW lg \in Seq(LogEntry), NEW t, Rising(lg, t), NEW r \in AppendRequest,
         MadeFrom(i, lg, r), NEW n \in 1..Len(lg), NEW T \in Nat, lg[n].term = T
  PROVE  Carries(r, n, T)
<1>1. Len(lg) \in Nat /\ Reach(r) = Len(lg) /\ IsPart(r, lg)
  BY DEF MadeFrom
<1>2. PICK b \in Nat : b = r.prevLogIndex
  BY RequestFacts
<1>3. b <= Len(lg) /\ n <= Len(lg) /\ n > 0
  BY <1>1, <1>2, RequestFacts
<1>4. CASE b <= n
  <2>1. n \in b..Len(lg)
    BY <1>1, <1>2, <1>4
  <2>2. TermOf(r, n) = T
    BY <1>1, <1>2, <1>3, <2>1 DEF IsPart
  <2> QED BY <1>1, <1>2, <1>3, <1>4, <2>2 DEF Carries
<1>5. CASE b > n
  <2>1. b \in b..Len(lg) /\ b > 0 /\ b \in 1..Len(lg) /\ n \in 1..b /\ ~(b > b) /\ ~(b <= n)
    BY <1>1, <1>2, <1>3, <1>5
  <2>2. TermOf(r, b) = lg[b].term
    BY <1>1, <1>2, <2>1 DEF IsPart
  <2>3. TermOf(r, b) = r.prevLogTerm
    BY <1>2, <2>1 DEF TermOf
  <2>4. lg[n].term <= lg[b].term
    BY <2>1 DEF Rising
  <2>5. r.prevLogTerm \in Nat
    BY RequestFacts
  <2>6. r.prevLogTerm >= T
    BY <2>2, <2>3, <2>4, <2>5
  <2> QED BY <1>1, <1>2, <1>3, <2>1, <2>6 DEF Carries
<1> QED BY <1>2, <1>4, <1>5

\* Logs of others than the one who takes a request are only extended.
LEMMA SendsLogs ==
  ASSUME TypeOK, TypeOK', NEW i \in Server, NEW lg, Sends(i, lg), NEW q \in Server
  PROVE  /\ Len(log[q]) \in Nat /\ Len(log'[q]) \in Nat /\ Len(log[q]) <= Len(log'[q])
         /\ \A m \in 1..Len(log[q]) : log'[q][m] = log[q][m]
         /\ \A n, T : Has(q, n, T) => Has(q, n, T)'
<1>1. Len(log[q]) \in Nat /\ Len(log'[q]) \in Nat
  BY PeerFacts, PeerFactsNext
<1>2. /\ Len(log[i]) <= Len(lg) /\ \A m \in 1..Len(log[i]) : lg[m] = log[i][m]
      /\ log'[i] \in {log[i], lg} /\ \A p \in Server : p # i => log'[p] = log[p]
  BY DEF Sends
<1>3. /\ Len(log[q]) <= Len(log'[q]) /\ \A m \in 1..Len(log[q]) : log'[q][m] = log[q][m]
  <2>1. CASE q = i
    BY <1>1, <1>2, <2>1
  <2>2. CASE q # i
    BY <1>1, <1>2, <2>2
  <2> QED BY <2>1, <2>2
<1>4. \A n, T : Has(q, n, T) => Has(q, n, T)'
  <2>1. \A n \in 1..Len(log[q]) : n \in 1..Len(log'[q])
    BY <1>1, <1>3
  <2> QED BY <1>3, <2>1 DEF Has
<1> QED BY <1>1, <1>3, <1>4

\* A peer that keeps the entry keeps it, and its log up to there, in every step.
LEMMA KeepsStep ==
  ASSUME TypeOK, TypeOK', LogInv, ReplicationInv, TermsGrow, Moves,
         NEW n \in Nat \ {0}, NEW T \in Nat, Included(n, T), NEW p \in Server, Keeps(p, n, T)
  PROVE  Keeps(p, n, T)' /\ \A m \in 1..n : log'[p][m] = log[p][m]
<1>0. NoSnapshots /\ NextInRange /\ SentInOrder /\ PiecesAgree
  BY DEF ReplicationInv, LogInv
<1>1. /\ currentTerm[p] \in Nat /\ currentTerm'[p] \in Nat /\ currentTerm'[p] >= currentTerm[p]
      /\ currentTerm[p] >= T /\ Has(p, n, T)
  BY PeerFacts, PeerFactsNext DEF TermsGrow, Keeps
<1>2. currentTerm'[p] >= T /\ (currentTerm'[p] = T => currentTerm[p] = T)
  BY <1>1
<1>3. ASSUME SentOld
      PROVE  currentTerm'[p] = T => \A i \in Server : \A r \in Sent(i, p)' : r.term = T => n <= Reach(r)
  BY <1>2, <1>3 DEF Keeps, SentOld
<1>4. ASSUME SentOld, log'[p] = log[p]
      PROVE  Keeps(p, n, T)' /\ \A m \in 1..n : log'[p][m] = log[p][m]
  <2>1. Has(p, n, T)'
    BY <1>1, <1>4 DEF Has
  <2> QED BY <1>2, <1>3, <1>4, <2>1 DEF Keeps
<1>5. CASE Still
  BY <1>4, <1>5 DEF Still
<1>6. ASSUME NEW i \in Server, Wins(i)
      PROVE  Keeps(p, n, T)' /\ \A m \in 1..n : log'[p][m] = log[p][m]
  BY <1>4, <1>6, SameSent DEF Wins
<1>7. ASSUME NEW i \in Server, NEW j \in Server, NEW a, Takes(i, j, a)
      PROVE  Keeps(p, n, T)' /\ \A m \in 1..n : log'[p][m] = log[p][m]
  <2>1. SentOld /\ a \in Sent(i, j) /\ currentTerm'[j] = a.term
    BY <1>7 DEF Takes
  <2>2. CASE p # j
    BY <1>4, <1>7, <2>1, <2>2 DEF Takes
  <2>3. CASE p = j
    <3>1. a \in AppendRequest
      BY <2>1, SentFacts
    <3>2. a.term \in Nat /\ Reach(a) \in Nat
      BY <3>1, RequestFacts
    <3>3. After(a.term, Reach(a), n, T)
      <4>1. CASE a.term > T
        BY <4>1 DEF After
      <4>2. CASE a.term = T
        <5>1. currentTerm[p] = T
          BY <1>2, <2>1, <2>3, <4>2
        <5>2. n <= Reach(a)
          BY <2>1, <2>3, <4>2, <5>1 DEF Keeps
        <5> QED BY <3>2, <4>2, <5>2 DEF After
      <4> QED BY <1>2, <2>1, <2>3, <3>2, <4>1, <4>2
    <3>4. Carries(a, n, T) /\ LogsInclude(n, T)
      BY <2>1, <3>3 DEF Included, SentIncludes
    <3>5. Has(p, n, T)'
      BY <1>7, <2>3, <3>4, TakesCarried
    <3>6. /\ Len(log'[j]) = Reach(a)
          /\ \A m \in 1..Reach(a) :
                /\ m <= a.prevLogIndex => log'[j][m] = log[j][m]
                /\ m > a.prevLogIndex => log'[j][m] = a.entries[m - a.prevLogIndex]
      BY <1>7, TakenTerms
    <3>7. PICK b \in Nat : b = a.prevLogIndex
      BY <3>1, RequestFacts
    <3>8. n <= Reach(a)
      BY <3>4 DEF Carries
    <3>9. ASSUME NEW m \in 1..n PROVE log'[p][m] = log[p][m]
      <4>0. m \in 1..Reach(a) /\ m \in Nat /\ 0 < m /\ m <= n
        BY <3>2, <3>8
      <4>1. CASE m <= b
        BY <2>3, <3>6, <3>7, <4>0, <4>1
      <4>2. CASE m > b
        <5>1. b <= n /\ b <= m /\ n \in b..Reach(a) /\ n \in Nat
          BY <3>2, <3>8, <4>0, <4>2
        <5>2. TermOf(a, n) = T
          BY <3>4, <3>7, <5>1 DEF Carries
        <5>3. n \in 1..Len(log[p]) /\ log[p][n].term = T
          BY <1>1 DEF Has
        <5>4. a.entries[m - b] = log[p][m]
          BY <1>0, <2>1, <3>7, <4>0, <4>2, <5>1, <5>2, <5>3, RequestAgrees
        <5> QED BY <2>3, <3>6, <3>7, <4>0, <4>2, <5>4
      <4> QED BY <3>7, <4>0, <4>1, <4>2
    <3> QED BY <1>2, <1>3, <2>1, <3>5, <3>9 DEF Keeps
  <2> QED BY <2>2, <2>3
<1>8. ASSUME NEW i \in Server, NEW lg, Sends(i, lg)
      PROVE  Keeps(p, n, T)' /\ \A m \in 1..n : log'[p][m] = log[p][m]
  <2>1. Has(p, n, T)' /\ \A m \in 1..Len(log[p]) : log'[p][m] = log[p][m]
    BY <1>1, <1>8, SendsLogs
  <2>2. n \in 1..Len(log[p]) /\ Len(log[p]) \in Nat
    BY <1>1, PeerFacts DEF Has
  <2>3. \A m \in 1..n : log'[p][m] = log[p][m]
    BY <2>1, <2>2
  <2>4. ASSUME currentTerm'[p] = T, NEW x \in Server, NEW r \in Sent(x, p)', r.term = T
        PROVE  n <= Reach(r)
    <3>1. CASE r \in Sent(x, p)
      BY <1>2, <2>4, <3>1 DEF Keeps
    <3>2. CASE x = i /\ MadeFrom(i, lg, r)
      <4>1. currentTerm[i] = T /\ IsLeader(i) /\ Reach(r) = Len(lg) /\ Len(log[i]) <= Len(lg)
            /\ lg \in Seq(LogEntry)
        BY <1>8, <2>4, <3>2 DEF MadeFrom, Sends
      <4>2. currentTerm[i] >= T
        BY <4>1
      <4>3. Has(i, n, T)
        BY <4>1, <4>2 DEF Included, LeadersHave
      <4>4. Len(log[i]) \in Nat /\ Len(lg) \in Nat
        BY <4>1, PeerFacts
      <4> QED BY <4>1, <4>3, <4>4 DEF Has
    <3> QED BY <1>8, <3>1, <3>2, SendsSent
  <2> QED BY <1>2, <2>1, <2>3, <2>4 DEF Keeps
<1> QED BY <1>0, <1>5, <1>6, <1>7, <1>8, QuietlyStill, ElectsStill, PollsStill DEF Moves

\* Every step keeps LogsInclude: logs change by taking requests, which include
\* the entry, and by appends of leaders, which have it.
LEMMA LogsIncludeStep ==
  ASSUME TypeOK, TypeOK', ReplicationInv, ReplicationInv', TermsGrow, Moves,
         NEW n \in Nat \ {0}, NEW T \in Nat, Included(n, T)
  PROVE  LogsInclude(n, T)'
<1>0. /\ NextInRange /\ SentInOrder /\ TermsRise /\ TermsRise'
      /\ LogsInclude(n, T) /\ SentIncludes(n, T) /\ LeadersHave(n, T)
  BY DEF ReplicationInv, Included
<1>1. ASSUME NEW p \in Server, log'[p] = log[p], NEW m \in 1..Len(log'[p]),
             After(log'[p][m].term, m, n, T)
      PROVE  m >= n /\ Has(p, n, T)'
  BY <1>0, <1>1 DEF LogsInclude, Has
<1>2. ASSUME UNCHANGED log PROVE LogsInclude(n, T)'
  BY <1>1, <1>2 DEF LogsInclude
<1>3. ASSUME NEW i \in Server, NEW j \in Server, NEW a, Takes(i, j, a)
      PROVE  LogsInclude(n, T)'
  <2>1. ASSUME NEW m \in 1..Len(log'[j]), After(log'[j][m].term, m, n, T)
        PROVE  m >= n /\ Has(j, n, T)'
    <3>0. a \in Sent(i, j)
      BY <1>3 DEF Takes
    <3>1. /\ a \in AppendRequest /\ Len(log'[j]) = Reach(a)
          /\ \A k \in 1..Reach(a) :
                /\ k <= a.prevLogIndex => log'[j][k] = log[j][k]
                /\ k >= a.prevLogIndex => log'[j][k].term = TermOf(a, k)
      BY <1>3, TakenTerms
    <3>2. PICK b \in Nat : b = a.prevLogIndex
      BY <3>1, RequestFacts
    <3>3. /\ Reach(a) \in Nat /\ a.term \in Nat /\ m \in Nat /\ m \in 1..Reach(a) /\ b <= Reach(a)
          /\ b <= Len(log[j]) /\ Len(log[j]) \in Nat
      BY <1>3, <3>1, <3>2, RequestFacts, PeerFacts DEF Takes
    <3>4. CASE m <= b
      <4>1. m \in 1..Len(log[j]) /\ log'[j][m] = log[j][m]
        BY <3>1, <3>2, <3>3, <3>4
      <4>2. m >= n /\ Has(j, n, T)
        BY <1>0, <2>1, <4>1 DEF LogsInclude
      <4>3. n \in 1..Reach(a) /\ n <= b
        BY <3>3, <3>4, <4>2
      <4>4. log'[j][n] = log[j][n]
        BY <3>1, <3>2, <4>3
      <4> QED BY <3>1, <4>2, <4>3, <4>4 DEF Has
    <3>5. CASE m > b
      <4>1. m \in b..Reach(a) /\ m >= b
        BY <3>3, <3>5
      <4>2. log'[j][m].term = TermOf(a, m) /\ TermOf(a, m) \in Nat /\ TermOf(a, m) <= a.term
        <5>1. RisingCall(a)
          BY <1>0, <3>0 DEF TermsRise
        <5> QED BY <3>1, <3>2, <3>3, <4>1, <5>1, RequestFacts DEF RisingCall
      <4>3. After(a.term, Reach(a), n, T)
        BY <2>1, <3>3, <4>2 DEF After
      <4>4. Carries(a, n, T)
        BY <1>0, <3>0, <4>3 DEF SentIncludes
      <4>5. Has(j, n, T)'
        BY <1>0, <1>3, <4>4, TakesCarried
      <4>6. m >= n
        <5>1. CASE log'[j][m].term = T
          BY <2>1, <4>2, <5>1 DEF After
        <5>2. CASE log'[j][m].term > T
          <6>1. SUFFICES ASSUME m < n PROVE FALSE
            BY <3>3
          <6>2. n \in 1..Len(log'[j]) /\ log'[j][n].term = T /\ m \in 1..n
            BY <3>3, <4>5, <6>1 DEF Has
          <6>3. log'[j][m].term <= log'[j][n].term
            BY <1>0, <6>2 DEF TermsRise, Rising
          <6> QED BY <4>2, <5>2, <6>2, <6>3
        <5> QED BY <2>1, <5>1, <5>2 DEF After
      <4> QED BY <4>5, <4>6
    <3> QED BY <3>2, <3>3, <3>4, <3>5
  <2>2. \A p \in Server : p # j => log'[p] = log[p]
    BY <1>3 DEF Takes
  <2> QED BY <1>1, <2>1, <2>2 DEF LogsInclude
<1>4. ASSUME NEW i \in Server, NEW lg, Sends(i, lg) PROVE LogsInclude(n, T)'
  <2>1. ASSUME NEW m \in 1..Len(log'[i]), After(log'[i][m].term, m, n, T)
        PROVE  m >= n /\ Has(i, n, T)'
    <3>1. /\ Len(log[i]) \in Nat /\ Len(log'[i]) \in Nat
          /\ \A k \in 1..Len(log[i]) : log'[i][k] = log[i][k]
          /\ Has(i, n, T) => Has(i, n, T)'
      BY <1>4, SendsLogs
    <3>2. CASE m \in 1..Len(log[i])
      BY <1>0, <2>1, <3>1, <3>2 DEF LogsInclude
    <3>3. CASE m > Len(log[i])
      <4>1. log'[i] = lg /\ lg[m].term = currentTerm[i] /\ IsLeader(i)
        <5>1. /\ log'[i] \in {log[i], lg} /\ IsLeader(i)
              /\ \A k \in 1..Len(lg) : k > Len(log[i]) => lg[k].term = currentTerm[i]
          BY <1>4 DEF Sends
        <5>2. log'[i] = lg
          BY <3>1, <3>3, <5>1
        <5> QED BY <3>3, <5>1, <5>2
      <4>2. currentTerm[i] \in Nat
        BY PeerFacts
      <4>3. currentTerm[i] >= T
        BY <2>1, <4>1, <4>2 DEF After
      <4>4. Has(i, n, T)
        BY <1>0, <4>1, <4>3 DEF LeadersHave
      <4>5. m >= n
        BY <3>1, <3>3, <4>4 DEF Has
      <4> QED BY <3>1, <4>4, <4>5
    <3> QED BY <3>1, <3>2, <3>3
  <2>2. \A p \in Server : p # i => log'[p] = log[p]
    BY <1>4 DEF Sends
  <2> QED BY <1>1, <2>1, <2>2 DEF LogsInclude
<1> QED BY <1>0, <1>2, <1>3, <1>4, QuietlyStill, ElectsStill, PollsStill DEF Moves, Still, Wins

\* Every step keeps SentIncludes: requests are made by leaders.
LEMMA SentIncludesStep ==
  ASSUME TypeOK, TypeOK', ReplicationInv, TermsGrow, Moves,
         NEW n \in Nat \ {0}, NEW T \in Nat, Included(n, T)
  PROVE  SentIncludes(n, T)'
<1>0. NextInRange /\ SentInOrder /\ TermsRise /\ SentIncludes(n, T) /\ LeadersHave(n, T)
  BY DEF ReplicationInv, Included
<1>1. ASSUME SentOld PROVE SentIncludes(n, T)'
  BY <1>0, <1>1 DEF SentIncludes, SentOld
<1>2. ASSUME NEW i \in Server, NEW lg, Sends(i, lg) PROVE SentIncludes(n, T)'
  <2>1. ASSUME NEW x \in Server, NEW y \in Server, NEW r \in Sent(x, y)',
               After(r.term, Reach(r), n, T)
        PROVE  Carries(r, n, T)
    <3>1. CASE r \in Sent(x, y)
      BY <1>0, <2>1, <3>1 DEF SentIncludes
    <3>2. CASE MadeFrom(i, lg, r)
      <4>1. r \in AppendRequest /\ currentTerm[i] \in Nat /\ Rising(lg, currentTerm[i])
        BY <1>0, <1>2, PeerFacts, SendsSent, SendsRising
      <4>2. /\ r.term = currentTerm[i] /\ IsLeader(i) /\ lg \in Seq(LogEntry)
            /\ Len(log[i]) <= Len(lg) /\ \A m \in 1..Len(log[i]) : lg[m] = log[i][m]
        BY <1>2, <3>2 DEF MadeFrom, Sends
      <4>3. currentTerm[i] >= T
        BY <2>1, <4>1, <4>2 DEF After
      <4>4. Has(i, n, T)
        BY <1>0, <4>2, <4>3 DEF LeadersHave
      <4>5. Len(log[i]) \in Nat /\ Len(lg) \in Nat
        BY <4>2, PeerFacts
      <4>6. n \in 1..Len(lg) /\ lg[n].term = T
        BY <4>2, <4>4, <4>5 DEF Has
      <4> QED BY <3>2, <4>1, <4>2, <4>6, MadeCarries
    <3> QED BY <1>2, <3>1, <3>2, SendsSent
  <2> QED BY <2>1 DEF SentIncludes
<1>3. SentOld \/ \E i \in Server : \E lg : Sends(i, lg)
  <2>1. CASE Quietly
    BY <2>1, QuietlyStill DEF Still
  <2>2. ASSUME NEW i \in Server, Elects(i) PROVE SentOld
    BY <1>0, <2>2, ElectsStill DEF Still
  <2>3. ASSUME NEW j \in Server, NEW c, Polls(j, c) PROVE SentOld
    BY <1>0, <2>3, PollsStill DEF Still
  <2>4. ASSUME NEW i \in Server, Wins(i) PROVE SentOld
    BY <2>4, SameSent DEF Wins
  <2>5. ASSUME NEW i \in Server, NEW j \in Server, NEW a, Takes(i, j, a) PROVE SentOld
    BY <2>5 DEF Takes
  <2> QED BY <2>1, <2>2, <2>3, <2>4, <2>5 DEF Moves
<1> QED BY <1>1, <1>2, <1>3

\* A new leader has the entry: one of its voters held it.
LEMMA LeadersHaveStep ==
  ASSUME TypeOK, TypeOK', ElectionInv, ReplicationInv, TermsGrow, Moves,
         NEW n \in Nat \ {0}, NEW T \in Nat, NEW A \in SUBSET Server, Protected(n, T, A), Open(T, A)
  PROVE  LeadersHave(n, T)'
<1>0. NextInRange /\ SentInOrder /\ LeadersHave(n, T) /\ Won(T)
  BY DEF ReplicationInv, Protected
<1>1. ASSUME NEW c \in Server, IsLeader(c), currentTerm'[c] = currentTerm[c], currentTerm'[c] >= T,
             log'[c] = log[c]
      PROVE  Has(c, n, T)'
  BY <1>0, <1>1 DEF LeadersHave, Has
<1>2. CASE Still
  BY <1>1, <1>2 DEF Still, LeadersHave
<1>3. ASSUME NEW i \in Server, Wins(i) PROVE LeadersHave(n, T)'
  <2>1. ASSUME currentTerm'[i] >= T PROVE Has(i, n, T)'
    <3>1. UNCHANGED <<currentTerm, log>> /\ ~Won(currentTerm[i]) /\ serverState[i] = "candidate"
      BY <1>3 DEF Wins
    <3>2. currentTerm[i] \in Nat
      BY PeerFacts
    <3>3. currentTerm[i] > T
      <4>1. currentTerm[i] # T
        BY <1>0, <3>1
      <4> QED BY <2>1, <3>1, <3>2, <4>1
    <3>4. PICK Q \in SUBSET Server : /\ IsMajority(Cardinality(Q))
                                     /\ \A p \in Q : <<p, currentTerm[i], i>> \in votes
      BY <1>3 DEF Wins
    <3> DEFINE B == A \cup {p \in Server : currentTerm[p] <= T}
    <3>5. B \in SUBSET Server /\ IsMajority(Cardinality(B))
      BY DEF Open
    <3>6. PICK p \in Q : p \in B
      BY <3>4, <3>5, MajoritiesMeet
    <3>7. <<p, currentTerm[i], i>> \in votes /\ p \in Server
      BY <3>4
    <3>8. currentTerm[i] <= currentTerm[p] /\ currentTerm[p] \in Nat
      <4>1. <<p, currentTerm[i], i>>[2] <= currentTerm[<<p, currentTerm[i], i>>[1]]
        BY <3>7 DEF ElectionInv, VotesRecorded
      <4> QED BY <3>7, <4>1, PeerFacts
    <3>9. p \in A
      BY <3>2, <3>3, <3>6, <3>8
    <3>10. Has(i, n, T)
      BY <3>1, <3>3, <3>7, <3>9 DEF Protected, Holds
    <3> QED BY <3>1, <3>10 DEF Has
  <2>2. ASSUME NEW c \in Server, c # i, IsLeader(c)', currentTerm'[c] >= T PROVE Has(c, n, T)'
    BY <1>1, <1>3, <2>2 DEF Wins, IsLeader
  <2> QED BY <2>1, <2>2 DEF LeadersHave
<1>4. ASSUME NEW i \in Server, NEW j \in Server, NEW a, Takes(i, j, a) PROVE LeadersHave(n, T)'
  <2>1. ASSUME NEW c \in Server, IsLeader(c)', currentTerm'[c] >= T PROVE Has(c, n, T)'
    <3>1. c # j
      BY <1>4, <2>1 DEF Takes, IsLeader
    <3> QED BY <1>1, <1>4, <2>1, <3>1 DEF Takes, IsLeader
  <2> QED BY <2>1 DEF LeadersHave
<1>5. ASSUME NEW i \in Server, NEW lg, Sends(i, lg) PROVE LeadersHave(n, T)'
  <2>1. ASSUME NEW c \in Server, IsLeader(c)', currentTerm'[c] >= T PROVE Has(c, n, T)'
    <3>1. IsLeader(c) /\ currentTerm[c] >= T
      BY <1>5, <2>1 DEF Sends, OfficesKept, IsLeader
    <3>2. Has(c, n, T)
      BY <1>0, <3>1 DEF LeadersHave
    <3> QED BY <1>5, <3>2, SendsLogs
  <2> QED BY <2>1 DEF LeadersHave
<1> QED BY <1>0, <1>2, <1>3, <1>4, <1>5, QuietlyStill, ElectsStill, PollsStill DEF Moves

\* A candidate for which a peer with the entry votes has the entry too.
LEMMA VoteNeedsEntry ==
  ASSUME TypeOK, ReplicationInv, NEW n \in Nat \ {0}, NEW T \in Nat, LogsInclude(n, T),
         NEW j \in Server, Has(j, n, T), NEW c \in voteCalls, c.kind = "request", Voting(c),
         c.src \in Server, UpToDate(j, c)
  PROVE  Has(c.src, n, T)
<1>1. NoSnapshots /\ Rising(log[j], currentTerm[j])
  BY DEF ReplicationInv, TermsRise
<1>2. PICK x \in Server : x = c.src
  OBVIOUS
<1>3. /\ c.lastLogIndex = Len(log[x])
      /\ c.lastLogTerm = IF Len(log[x]) = 0 THEN 0 ELSE log[x][Len(log[x])].term
  BY <1>1, <1>2, PlainLog DEF ReplicationInv, VotesAsked
<1>4. /\ lastLogIndex(j) = Len(log[j])
      /\ lastLogTerm(j) = IF Len(log[j]) = 0 THEN 0 ELSE log[j][Len(log[j])].term
  BY <1>1, PlainLog
<1>5. PICK L \in Nat, M \in Nat : L = Len(log[x]) /\ M = Len(log[j])
  BY PeerFacts
<1>6. n \in 1..M /\ M \in 1..M /\ M # 0
  BY <1>5 DEF Has
<1>7. /\ log[j][M].term \in Nat /\ log[j][M].term >= T
  <2>1. log[j][M].term \in Nat
    BY <1>5, <1>6, PeerFacts
  <2>2. log[j][n].term <= log[j][M].term
    BY <1>1, <1>5, <1>6 DEF Rising
  <2> QED BY <2>1, <2>2 DEF Has
<1>8. PICK u \in Nat : u = log[j][M].term /\ lastLogTerm(j) = u
  BY <1>4, <1>5, <1>6, <1>7
<1>9. L # 0
  <2>1. SUFFICES ASSUME L = 0 PROVE FALSE
    OBVIOUS
  <2>2. c.lastLogTerm = 0 /\ c.lastLogIndex = 0
    BY <1>3, <1>5, <2>1
  <2> QED BY <1>4, <1>5, <1>6, <1>8, <2>2 DEF UpToDate
<1>10. L \in 1..L /\ log[x][L].term \in Nat /\ c.lastLogTerm = log[x][L].term /\ c.lastLogIndex = L
  BY <1>3, <1>5, <1>9, PeerFacts
<1>11. After(log[x][L].term, L, n, T)
  BY <1>4, <1>5, <1>6, <1>7, <1>8, <1>10 DEF UpToDate, After
<1> QED BY <1>2, <1>5, <1>10, <1>11 DEF LogsInclude

\* Who held the entry holds it after the step.
LEMMA HoldsStep ==
  ASSUME TypeOK, TypeOK', LogInv, ReplicationInv, TermsGrow, Moves,
         NEW n \in Nat \ {0}, NEW T \in Nat, Included(n, T), NEW p \in Server, Holds(p, n, T)
  PROVE  Holds(p, n, T)'
<1>0. VotesAsked /\ LogsInclude(n, T) /\ Keeps(p, n, T) /\ Has(p, n, T)
  BY DEF ReplicationInv, Included, Holds, Keeps
<1>1. Keeps(p, n, T)'
  BY <1>0, KeepsStep
<1> DEFINE Chosen(c) == /\ serverState[c] = "candidate" /\ currentTerm[c] > T
                        /\ <<p, currentTerm[c], c>> \in votes
<1>2. ASSUME NEW c \in Server, Chosen(c) PROVE Has(c, n, T)
  BY <1>2 DEF Holds
<1>3. SUFFICES ASSUME NEW c \in Server, Chosen(c)' PROVE Has(c, n, T)'
  BY <1>1 DEF Holds
<1>4. ASSUME UNCHANGED <<log, votes>>, serverState[c] = "candidate", currentTerm'[c] = currentTerm[c]
      PROVE  Has(c, n, T)'
  BY <1>2, <1>3, <1>4 DEF Has
<1>5. CASE Quietly
  BY <1>3, <1>4, <1>5 DEF Quietly, Calm, OfficesKept
<1>6. ASSUME NEW i \in Server, Elects(i) PROVE Has(c, n, T)'
  <2>1. UNCHANGED log /\ votes' = votes \cup {<<i, currentTerm[i] + 1, i>>}
    BY <1>6 DEF Elects
  <2>2. CASE c # i
    <3>1. serverState[c] = "candidate" /\ currentTerm'[c] = currentTerm[c]
      BY <1>3, <1>6, <2>2 DEF Elects
    <3>2. <<p, currentTerm[c], c>> \in votes
      <4>1. <<p, currentTerm[c], c>> # <<i, currentTerm[i] + 1, i>>
        BY <2>2
      <4> QED BY <1>3, <2>1, <3>1, <4>1
    <3> QED BY <1>2, <1>3, <2>1, <3>1, <3>2 DEF Has
  <2>3. CASE c = i
    <3>1. currentTerm'[i] = currentTerm[i] + 1 /\ currentTerm[i] \in Nat
      BY <1>6, PeerFacts DEF Elects
    <3>2. <<p, currentTerm[i] + 1, i>> \notin votes
      <4>1. SUFFICES ASSUME <<p, currentTerm[i] + 1, i>> \in votes PROVE FALSE
        OBVIOUS
      <4>2. <<p, currentTerm[i] + 1, i>>[2] <= currentTerm[<<p, currentTerm[i] + 1, i>>[3]]
        BY <1>0, <4>1 DEF VotesAsked
      <4> QED BY <3>1, <4>2
    <3>3. <<p, currentTerm[i] + 1, i>> = <<i, currentTerm[i] + 1, i>>
      BY <1>3, <2>1, <2>3, <3>1, <3>2
    <3>4. p = i
      BY <3>3
    <3> QED BY <1>0, <2>1, <2>3, <3>4 DEF Has
  <2> QED BY <2>2, <2>3
<1>7. ASSUME NEW j \in Server, NEW d, Polls(j, d) PROVE Has(c, n, T)'
  <2>1. UNCHANGED log /\ serverState[c] = "candidate" /\ currentTerm'[c] = currentTerm[c]
    BY <1>3, <1>7 DEF Polls, OfficesKept
  <2>2. CASE <<p, currentTerm[c], c>> \in votes
    BY <1>2, <1>3, <2>1, <2>2 DEF Has
  <2>3. CASE <<p, currentTerm[c], c>> \notin votes
    <3>1. /\ d \in voteCalls /\ d.kind = "request"
          /\ <<p, currentTerm[c], c>> = <<j, d.term, d.src>> /\ UpToDate(j, d)
      BY <1>3, <1>7, <2>1, <2>3 DEF Polls
    <3>2. p = j /\ currentTerm[c] = d.term /\ c = d.src
      BY <3>1
    <3>3. Voting(d)
      BY <2>1, <3>2 DEF Voting
    <3>4. Has(c, n, T)
      BY <1>0, <3>1, <3>2, <3>3, VoteNeedsEntry
    <3> QED BY <2>1, <3>4 DEF Has
  <2> QED BY <2>2, <2>3
<1>8. ASSUME NEW i \in Server, Wins(i) PROVE Has(c, n, T)'
  BY <1>3, <1>4, <1>8 DEF Wins
<1>9. ASSUME NEW i \in Server, NEW j \in Server, NEW a, Takes(i, j, a) PROVE Has(c, n, T)'
  <2>1. c # j
    BY <1>3, <1>9 DEF Takes
  <2>2. log'[c] = log[c] /\ Chosen(c)
    BY <1>3, <1>9, <2>1 DEF Takes
  <2> QED BY <1>2, <2>2 DEF Has
<1>10. ASSUME NEW i \in Server, NEW lg, Sends(i, lg) PROVE Has(c, n, T)'
  <2>1. Chosen(c)
    BY <1>3, <1>10 DEF Sends, OfficesKept
  <2>2. Has(c, n, T)
    BY <1>2, <2>1
  <2> QED BY <1>10, <2>2, SendsLogs
<1> QED BY <1>5, <1>6, <1>7, <1>8, <1>9, <1>10 DEF Moves

\* Protection by an open set of peers is kept.
LEMMA ProtectedStep ==
  ASSUME TypeOK, TypeOK', ElectionInv, LogInv, ReplicationInv, ReplicationInv', TermsGrow, Moves,
         NEW n \in Nat \ {0}, NEW T \in Nat, NEW A \in SUBSET Server, Protected(n, T, A), Open(T, A)
  PROVE  Protected(n, T, A)'
<1>1. Included(n, T)
  BY DEF Protected, Included
<1>2. Won(T)'
  BY ElectedStay DEF Protected, Won
<1>3. LogsInclude(n, T)' /\ SentIncludes(n, T)' /\ LeadersHave(n, T)'
  BY <1>1, LogsIncludeStep, SentIncludesStep, LeadersHaveStep
<1>4. \A p \in A : Holds(p, n, T)'
  BY <1>1, HoldsStep DEF Protected
<1> QED BY <1>2, <1>3, <1>4 DEF Protected

\* What is locked stays locked, whatever step is taken.
LEMMA LockedStep ==
  ASSUME TypeOK, TypeOK', ElectionInv, LogInv, ReplicationInv, ReplicationInv', TermsGrow, Moves,
         NEW n \in Nat \ {0}, NEW T \in Nat, NEW Q \in SUBSET Server, Locked(n, T, Q)
  PROVE  Locked(n, T, Q)'
<1>1. IsMajority(Cardinality(Q)) /\ Protected(n, T, Q)
  BY DEF Locked
<1>2. Open(T, Q)
  BY <1>1, MajorityGrows DEF Open
<1> QED BY <1>1, <1>2, ProtectedStep DEF Locked

-----------------------------------------------------------------------------
(* Entries that may still be committed. *)

\* After the step, too, the term of an entry was won, and its leader has the
\* entry's index.
LEMMA EntryTermsNext ==
  ASSUME TypeOK', NoSnapshots', LogInv', NEW p \in Server, NEW n \in 1..Len(log'[p])
  PROVE  /\ \E s \in Server : <<log'[p][n].term, s>> \in elected'
         /\ \A i \in Server : IsLeader(i)' /\ log'[p][n].term = currentTerm'[i] => n <= Len(log'[i])
<1>1. lastIncludedIndex'[p] = 0 /\ log'[p] \in Seq(LogEntry) /\ Len(log'[p]) \in Nat
  BY PeerFactsNext DEF NoSnapshots
<1>2. PICK X : X = LogOf(p)'
  OBVIOUS
<1>3. IsPiece(X)'
  BY <1>2 DEF IsPiece
<1>4. n \in Nat /\ n # 0 /\ n > 0 /\ n - 0 = n /\ 0 <= n /\ n <= 0 + Len(log'[p])
  BY <1>1
<1>5. Knows(X, n)' /\ TermIn(X, n)' = log'[p][n].term
  BY <1>1, <1>2, <1>4 DEF Knows, Top, TermIn, LogOf
<1>6. \E s \in Server : <<log'[p][n].term, s>> \in elected'
  BY <1>3, <1>4, <1>5 DEF LogInv, TermsElected
<1>7. ASSUME NEW i \in Server, IsLeader(i)', log'[p][n].term = currentTerm'[i]
      PROVE  n <= Len(log'[i])
  <2>1. n <= lastLogIndex(i)'
    BY <1>3, <1>4, <1>5, <1>7 DEF LogInv, LeaderAhead, IsLeader
  <2> QED BY <2>1, PlainLogNext
<1> QED BY <1>6, <1>7

\* A term is won by one peer.
LEMMA OneWinnerNext ==
  ASSUME ElectionSafety', NEW t, NEW i, NEW j, <<t, i>> \in elected', <<t, j>> \in elected'
  PROVE  i = j
<1>1. <<t, i>>[1] = <<t, j>>[1] /\ <<t, i>>[2] = i /\ <<t, j>>[2] = j
  OBVIOUS
<1> QED BY <1>1 DEF ElectionSafety

\* The leader of a term is the only one that sends in it.
LEMMA LeaderSends ==
  ASSUME ElectionSafety', LogInv', CallersElected', NEW i \in Server, IsLeader(i)',
         NEW x \in Server, NEW y \in Server, NEW r \in Sent(x, y)', r.term = currentTerm'[i]
  PROVE  x = i /\ x # y
<1>1. <<r.term, x>> \in elected' /\ x # y
  BY DEF CallersElected
<1>2. <<r.term, i>> \in elected'
  BY DEF LogInv, ElectedOnce, IsLeader
<1> QED BY <1>1, <1>2, OneWinnerNext

\* A peer in the leader's term that has acknowledged the entry holds it.
LEMMA FreshHolds ==
  ASSUME TypeOK', ElectionInv', ElectionSafety', LogInv', CallersElected', AckedKept',
         NEW i \in Server, IsLeader(i)', NEW T \in Nat, T = currentTerm'[i],
         NEW n \in Nat \ {0}, n \in 1..Len(log'[i]), log'[i][n].term = T,
         NEW p \in Server, currentTerm'[p] = T, NEW m \in Acked(i, p)', m >= n
  PROVE  Holds(p, n, T)'
<1>1. m \in Nat /\ Len(log'[p]) \in Nat
  BY AckedNatNext, PeerFactsNext
<1>2. AckKept(i, p, m)'
  BY DEF AckedKept
<1>3. m <= Len(log'[p]) /\ \A k \in 1..m : log'[p][k] = log'[i][k]
  BY <1>2 DEF AckKept
<1>4. n \in 1..m /\ n \in 1..Len(log'[p])
  BY <1>1, <1>3
<1>5. Has(p, n, T)'
  BY <1>3, <1>4 DEF Has
<1>6. ASSUME NEW x \in Server, NEW r \in Sent(x, p)', r.term = T PROVE n <= Reach(r)
  <2>1. x = i
    BY <1>6, LeaderSends
  <2>2. m <= Reach(r)
    BY <1>2, <1>6, <2>1 DEF AckKept
  <2>3. r \in AppendRequest
    BY <1>6, SentFactsNext
  <2>4. Reach(r) \in Nat
    BY <2>3, RequestFacts
  <2> QED BY <1>1, <2>2, <2>4
<1>7. Keeps(p, n, T)'
  <2>1. currentTerm'[p] >= T
    OBVIOUS
  <2> QED BY <1>5, <1>6, <2>1 DEF Keeps
<1>8. ASSUME NEW c \in Server, currentTerm'[c] > T, <<p, currentTerm'[c], c>> \in votes'
      PROVE  FALSE
  <2>1. <<p, currentTerm'[c], c>>[2] <= currentTerm'[<<p, currentTerm'[c], c>>[1]]
    BY <1>8 DEF ElectionInv, VotesRecorded
  <2>2. currentTerm'[c] \in Nat
    BY PeerFactsNext
  <2> QED BY <1>8, <2>1, <2>2
<1> QED BY <1>7, <1>8 DEF Holds

\* The last entry of a leader is included, if no later term can have been won.
LEMMA FreshIncluded ==
  ASSUME TypeOK', ElectionInv', ElectionSafety', LogInv', ReplicationInv',
         NEW i \in Server, IsLeader(i)', NEW T \in Nat, T = currentTerm'[i],
         NEW n \in Nat \ {0}, n = Len(log'[i]), log'[i][n].term = T,
         IsMajority(Cardinality({p \in Server : currentTerm'[p] <= T}))
  PROVE  Included(n, T)'
<1>0. NoSnapshots' /\ CallersElected' /\ SentIsPart'
  BY DEF ReplicationInv
<1>1. <<T, i>> \in elected'
  BY DEF LogInv, ElectedOnce, IsLeader
<1>2. ASSUME NEW t \in Nat, NEW s \in Server, <<t, s>> \in elected' PROVE t <= T
  <2>1. PICK Q \in SUBSET Server : /\ IsMajority(Cardinality(Q))
                                   /\ \A p \in Q : <<p, <<t, s>>[1], <<t, s>>[2]>> \in votes'
    BY <1>2 DEF ElectionInv, ElectedByMajority
  <2> DEFINE M == {p \in Server : currentTerm'[p] <= T}
  <2>2. M \in SUBSET Server /\ IsMajority(Cardinality(M))
    OBVIOUS
  <2>3. PICK p \in Q : p \in M
    BY <2>1, <2>2, MajoritiesMeet
  <2>4. <<p, t, s>> \in votes' /\ p \in Server /\ currentTerm'[p] <= T
    BY <2>1, <2>3
  <2>5. <<p, t, s>>[2] <= currentTerm'[<<p, t, s>>[1]]
    BY <2>4 DEF ElectionInv, VotesRecorded
  <2>6. currentTerm'[p] \in Nat
    BY <2>4, PeerFactsNext
  <2> QED BY <2>4, <2>5, <2>6
<1>3. LogsInclude(n, T)'
  <2>1. ASSUME NEW p \in Server, NEW m \in 1..Len(log'[p]), After(log'[p][m].term, m, n, T)
        PROVE  m >= n /\ Has(p, n, T)'
    <3>1. log'[p][m].term \in Nat /\ Len(log'[p]) \in Nat /\ m \in Nat
      <4>1. \A k \in 1..Len(log'[p]) : log'[p][k].term \in Nat
        BY PeerFactsNext
      <4>2. Len(log'[p]) \in Nat
        BY PeerFactsNext
      <4> QED BY <4>1, <4>2
    <3>2. log'[p][m].term <= T
      BY <1>0, <1>2, <3>1, EntryTermsNext
    <3>3. log'[p][m].term = T /\ m >= n
      BY <2>1, <3>1, <3>2 DEF After
    <3>4. m <= n
      BY <1>0, <3>3, EntryTermsNext
    <3>5. m = n
      BY <3>1, <3>3, <3>4
    <3> QED BY <3>1, <3>3, <3>5 DEF Has
  <2> QED BY <2>1 DEF LogsInclude
<1>4. SentIncludes(n, T)'
  <2>1. ASSUME NEW x \in Server, NEW y \in Server, NEW r \in Sent(x, y)',
               After(r.term, Reach(r), n, T)
        PROVE  Carries(r, n, T)
    <3>1. r \in AppendRequest
      BY SentFactsNext
    <3>2. PICK b \in Nat : b = r.prevLogIndex
      BY <3>1, RequestFacts
    <3>3. r.term \in Nat /\ Reach(r) \in Nat /\ b <= Reach(r)
      BY <3>1, <3>2, RequestFacts
    <3>4. <<r.term, x>> \in elected'
      BY <1>0 DEF CallersElected
    <3>5. r.term <= T
      BY <1>2, <3>3, <3>4
    <3>6. r.term = T /\ Reach(r) >= n
      BY <2>1, <3>3, <3>5 DEF After
    <3>7. x = i
      BY <1>0, <3>6, LeaderSends
    <3>8. IsPart(r, log'[i])
      BY <1>0, <3>6, <3>7 DEF SentIsPart
    <3>9. Reach(r) = n
      BY <3>3, <3>6, <3>8 DEF IsPart
    <3>10. n \in b..Reach(r) /\ n > 0 /\ b <= n /\ n <= Reach(r)
      BY <3>3, <3>9
    <3>11. TermOf(r, n) = T
      BY <3>2, <3>8, <3>10 DEF IsPart
    <3> QED BY <3>2, <3>10, <3>11 DEF Carries
  <2> QED BY <2>1 DEF SentIncludes
<1>5. LeadersHave(n, T)'
  <2>1. ASSUME NEW c \in Server, IsLeader(c)', currentTerm'[c] >= T PROVE Has(c, n, T)'
    <3>1. <<currentTerm'[c], c>> \in elected' /\ currentTerm'[c] \in Nat
      BY <2>1, PeerFactsNext DEF LogInv, ElectedOnce, IsLeader
    <3>2. currentTerm'[c] <= T
      BY <1>2, <3>1
    <3>3. currentTerm'[c] = T
      BY <2>1, <3>1, <3>2
    <3>4. c = i
      BY <1>1, <3>1, <3>3, OneWinnerNext
    <3>5. n \in 1..Len(log'[i])
      BY PeerFactsNext
    <3> QED BY <3>4, <3>5 DEF Has
  <2> QED BY <2>1 DEF LeadersHave
<1>6. Won(T)'
  BY <1>1 DEF Won
<1> QED BY <1>3, <1>4, <1>5, <1>6 DEF Included

\* To show Pending after a step.
LEMMA PendingNext ==
  ASSUME TypeOK',
         \A i \in Server : \A T \in Nat : \A n \in Nat \ {0} : \A B \in SUBSET Server :
            ( /\ IsLeader(i)' /\ T = currentTerm'[i] /\ n \in 1..Len(log'[i])
              /\ log'[i][n].term = T /\ B = Acks(i, n)' /\ Open(T, B)' )
              => Protected(n, T, B)'
  PROVE  Pending'
<1> SUFFICES ASSUME NEW i \in Server, IsLeader(i)', NEW n \in 1..Len(log'[i]),
                    log'[i][n].term = currentTerm'[i], Open(currentTerm[i], Acks(i, n))'
             PROVE  Protected(n, currentTerm[i], Acks(i, n))'
  BY DEF Pending
<1>1. PICK T \in Nat : T = currentTerm'[i]
  BY PeerFactsNext
<1>2. PICK B \in SUBSET Server : B = Acks(i, n)'
  BY DEF Acks
<1>3. n \in Nat \ {0}
  BY PeerFactsNext
<1>4. Open(T, B)'
  BY <1>1, <1>2 DEF Open
<1>5. Protected(n, T, B)'
  BY <1>1, <1>2, <1>3, <1>4
<1> QED BY <1>1, <1>2, <1>5
        DEF Protected, Won, LogsInclude, SentIncludes, LeadersHave, Holds, Keeps, Has, Carries, After

\* Who acknowledges something new is in the leader's term then; when requests
\* are sent, only the leader itself does.
LEMMA NewAcks ==
  ASSUME TypeOK, TypeOK', ReplicationInv, TermsGrow, Moves, NEW i \in Server, IsLeader(i), IsLeader(i)',
         NEW p \in Server, NEW m \in Acked(i, p)', m \notin Acked(i, p)
  PROVE  currentTerm'[p] = currentTerm'[i]
<1>0. NextInRange /\ SentInOrder
  BY DEF ReplicationInv
<1>1. CASE Still
  BY <1>1 DEF Still, AckedLess
<1>2. ASSUME NEW w \in Server, Wins(w) PROVE FALSE
  <2>1. i # w
    BY <1>2 DEF Wins, IsLeader
  <2>2. UNCHANGED <<currentTerm, calls>> /\ matchIndex'[i] = matchIndex[i]
    BY <1>2, <2>1 DEF Wins
  <2>3. Replies(i, p)' = Replies(i, p)
    BY <2>2 DEF Replies
  <2> QED BY <2>2, <2>3, AckedIs
<1>3. ASSUME NEW x \in Server, NEW j \in Server, NEW a, Takes(x, j, a)
      PROVE  currentTerm'[p] = currentTerm'[i]
  <2>1. i # j /\ matchIndex' = matchIndex /\ currentTerm'[j] = a.term
    BY <1>3 DEF Takes, IsLeader
  <2>2. currentTerm'[i] = currentTerm[i]
    BY <1>3, <2>1 DEF Takes
  <2>3. PICK q \in Replies(i, p)' : q.term = currentTerm'[i] /\ q.success /\ m = q.prevI + q.ent
    BY <2>1, AckedIs
  <2>4. q \notin Replies(i, p)
    BY <2>2, <2>3, AckedIs
  <2>5. p = j /\ q = AppendReply(a, a.term, TRUE, 0, 0, 0)
    BY <1>3, <2>4 DEF Takes
  <2>6. q.term = a.term
    BY <2>5 DEF AppendReply
  <2> QED BY <2>1, <2>3, <2>5, <2>6
<1>4. ASSUME NEW x \in Server, NEW lg, Sends(x, lg) PROVE currentTerm'[p] = currentTerm'[i]
  <2>1. RepliesOld
    BY <1>4, SendsSent
  <2>2. UNCHANGED currentTerm /\ (i # x \/ p # x => matchIndex'[i][p] = matchIndex[i][p])
    BY <1>4 DEF Sends, IsLeader
  <2>3. m = matchIndex'[i][p] /\ m # matchIndex[i][p]
    BY <2>1, <2>2, AckedIs DEF RepliesOld
  <2> QED BY <2>2, <2>3
<1> QED BY <1>0, <1>1, <1>2, <1>3, <1>4, QuietlyStill, ElectsStill, PollsStill DEF Moves

\* An entry that its leader could commit before the step.
LEMMA OldPending ==
  ASSUME TypeOK, TypeOK', ElectionInv, ElectionInv', ElectionSafety', LogInv, LogInv',
         ReplicationInv, ReplicationInv', TermsGrow, Moves, Pending,
         NEW i \in Server, IsLeader(i), IsLeader(i)', NEW T \in Nat, T = currentTerm[i],
         T = currentTerm'[i],
         NEW n \in Nat \ {0}, n \in 1..Len(log[i]), log[i][n].term = T,
         n \in 1..Len(log'[i]), log'[i][n].term = T,
         NEW B \in SUBSET Server, B = Acks(i, n)', Open(T, B)'
  PROVE  Protected(n, T, B)'
<1>1. PICK A \in SUBSET Server : A = Acks(i, n)
  BY DEF Acks
<1>2. ASSUME NEW p \in B, p \notin A
      PROVE  currentTerm'[p] = T /\ \E m \in Acked(i, p)' : m >= n
  <2>1. PICK m \in Acked(i, p)' : m >= n
    BY <1>2 DEF Acks
  <2>2. m \notin Acked(i, p)
    BY <1>1, <1>2, <2>1 DEF Acks
  <2> QED BY <2>1, <2>2, NewAcks
<1>3. ASSUME NEW p \in Server, currentTerm'[p] <= T PROVE currentTerm[p] <= T
  <2>1. currentTerm[p] \in Nat /\ currentTerm'[p] \in Nat
    BY PeerFacts, PeerFactsNext
  <2> QED BY <1>3, <2>1 DEF TermsGrow
<1>4. Open(T, A)
  <2> DEFINE U == A \cup {p \in Server : currentTerm[p] <= T}
             V == B \cup {p \in Server : currentTerm'[p] <= T}
  <2>1. U \in SUBSET Server /\ V \in SUBSET Server
    OBVIOUS
  <2>2. IsMajority(Cardinality(V))
    BY DEF Open
  <2>3. ASSUME NEW p \in V PROVE p \in U
    BY <1>2, <1>3
  <2>4. IsMajority(Cardinality(U))
    <3> HIDE DEF U, V
    <3> QED BY <2>1, <2>2, <2>3, MajorityGrows
  <2> QED BY <2>4 DEF Open
<1>5. Protected(n, T, A)
  BY <1>1, <1>4 DEF Pending
<1>6. Protected(n, T, A)'
  BY <1>4, <1>5, ProtectedStep
<1>7. CallersElected' /\ AckedKept'
  BY DEF ReplicationInv
<1>8. ASSUME NEW p \in B PROVE Holds(p, n, T)'
  <2>1. CASE p \in A
    BY <1>6, <2>1 DEF Protected
  <2>2. CASE p \notin A
    <3>1. PICK m \in Acked(i, p)' : m >= n
      BY <1>2, <2>2
    <3>2. currentTerm'[p] = T /\ p \in Server
      BY <1>2, <2>2
    <3> QED BY <1>7, <3>1, <3>2, FreshHolds
  <2> QED BY <2>1, <2>2
<1> QED BY <1>6, <1>8 DEF Protected

\* The entry that a leader appends.
LEMMA FreshPending ==
  ASSUME TypeOK, TypeOK', ElectionInv', ElectionSafety', LogInv', ReplicationInv, ReplicationInv',
         NEW i \in Server, NEW lg, Sends(i, lg), IsLeader(i)', NEW T \in Nat, T = currentTerm'[i],
         NEW n \in Nat \ {0}, n \in 1..Len(log'[i]), n > Len(log[i]), log'[i][n].term = T,
         NEW B \in SUBSET Server, B = Acks(i, n)', Open(T, B)'
  PROVE  Protected(n, T, B)'
<1>0. AckedKept /\ AckedKept' /\ CallersElected'
  BY DEF ReplicationInv
<1>1. /\ IsLeader(i) /\ UNCHANGED currentTerm /\ log'[i] = lg /\ Len(lg) <= Len(log[i]) + 1
      /\ \A q \in Server : q # i => matchIndex'[i][q] = matchIndex[i][q]
  BY DEF Sends, IsLeader
<1>2. Len(log[i]) \in Nat /\ Len(lg) \in Nat
  BY <1>1, PeerFacts, PeerFactsNext
<1>3. n = Len(log'[i])
  BY <1>1, <1>2
<1>4. ASSUME NEW p \in B PROVE p = i
  <2>1. SUFFICES ASSUME p # i PROVE FALSE
    OBVIOUS
  <2>2. PICK m \in Acked(i, p)' : m >= n
    BY DEF Acks
  <2>3. m \in Acked(i, p)
    <3>1. RepliesOld /\ matchIndex'[i][p] = matchIndex[i][p]
      BY <1>1, <2>1, SendsSent
    <3> QED BY <1>1, <2>2, <3>1, AckedIs DEF RepliesOld
  <2>4. AckKept(i, p, m) /\ m \in Nat
    BY <1>0, <1>1, <2>3, AckedNat DEF AckedKept
  <2>5. m <= Len(log[i])
    BY <2>4 DEF AckKept
  <2> QED BY <1>2, <2>2, <2>4, <2>5
<1>5. IsMajority(Cardinality({p \in Server : currentTerm'[p] <= T}))
  <2>1. B \cup {p \in Server : currentTerm'[p] <= T} = {p \in Server : currentTerm'[p] <= T}
    BY <1>4
  <2> QED BY <2>1 DEF Open
<1>6. Included(n, T)'
  BY <1>3, <1>5, FreshIncluded
<1>7. ASSUME NEW p \in B PROVE Holds(p, n, T)'
  <2>1. p = i /\ currentTerm'[p] = T
    BY <1>4
  <2>2. PICK m \in Acked(i, p)' : m >= n
    BY DEF Acks
  <2> QED BY <1>0, <2>1, <2>2, FreshHolds
<1> QED BY <1>6, <1>7 DEF Included, Protected

\* Every entry that its leader may still commit stays protected, and so is a
\* new one.
LEMMA PendingStep ==
  ASSUME TypeOK, TypeOK', ElectionInv, ElectionInv', ElectionSafety', LogInv, LogInv',
         ReplicationInv, ReplicationInv', TermsGrow, Moves, Pending
  PROVE  Pending'
<1>1. SUFFICES ASSUME NEW i \in Server, NEW T \in Nat, NEW n \in Nat \ {0}, NEW B \in SUBSET Server,
                      IsLeader(i)', T = currentTerm'[i], n \in 1..Len(log'[i]),
                      log'[i][n].term = T, B = Acks(i, n)', Open(T, B)'
               PROVE  Protected(n, T, B)'
  BY PendingNext
<1>0. NextInRange /\ SentInOrder /\ NoSnapshots
  BY DEF ReplicationInv
<1>2. ASSUME IsLeader(i), currentTerm'[i] = currentTerm[i], log'[i] = log[i]
      PROVE  Protected(n, T, B)'
  BY <1>1, <1>2, OldPending
<1>3. CASE Still
  BY <1>1, <1>2, <1>3 DEF Still
<1>4. ASSUME NEW w \in Server, Wins(w) PROVE Protected(n, T, B)'
  <2>1. CASE i # w
    BY <1>1, <1>2, <1>4, <2>1 DEF Wins, IsLeader
  <2>2. CASE i = w
    <3>1. n \in 1..Len(log[i]) /\ log[i][n].term = currentTerm[i] /\ ~Won(currentTerm[i])
      BY <1>1, <1>4, <2>2 DEF Wins
    <3>2. Won(log[i][n].term)
      BY <1>0, <3>1, EntryTerms
    <3>3. Won(currentTerm[i])
      BY <3>1, <3>2 DEF Won
    <3> QED BY <3>1, <3>3
  <2> QED BY <2>1, <2>2
<1>5. ASSUME NEW x \in Server, NEW j \in Server, NEW a, Takes(x, j, a) PROVE Protected(n, T, B)'
  <2>1. i # j
    BY <1>1, <1>5 DEF Takes, IsLeader
  <2> QED BY <1>1, <1>2, <1>5, <2>1 DEF Takes, IsLeader
<1>6. ASSUME NEW x \in Server, NEW lg, Sends(x, lg) PROVE Protected(n, T, B)'
  <2>1. IsLeader(i) /\ currentTerm'[i] = currentTerm[i]
    BY <1>1, <1>6 DEF Sends, OfficesKept, IsLeader
  <2>2. /\ Len(log[i]) \in Nat /\ \A m \in 1..Len(log[i]) : log'[i][m] = log[i][m]
    BY <1>6, SendsLogs
  <2>3. CASE n \in 1..Len(log[i])
    <3>1. log[i][n].term = T
      BY <1>1, <2>2, <2>3
    <3> QED BY <1>1, <2>1, <2>3, <3>1, OldPending
  <2>4. CASE n > Len(log[i])
    <3>1. i = x
      <4>1. SUFFICES ASSUME i # x PROVE FALSE
        OBVIOUS
      <4>2. log'[i] = log[i]
        BY <1>6, <4>1 DEF Sends
      <4> QED BY <1>1, <2>2, <2>4, <4>2
    <3> QED BY <1>1, <1>6, <2>4, <3>1, FreshPending
  <2> QED BY <1>1, <2>2, <2>3, <2>4
<1> QED BY <1>0, <1>3, <1>4, <1>5, <1>6, QuietlyStill, ElectsStill, PollsStill DEF Moves

-----------------------------------------------------------------------------
(* What a step does to commitIndex, lastApplied and what was delivered. *)

\* Nothing is committed and nothing is delivered.
Rests == UNCHANGED applied /\ \A p \in Server : Restartable(p)

\* advanceCommit() moves the leader's commitIndex to n.
Advances(i, n) ==
    /\ IsLeader(i)' /\ n \in 1..Len(log'[i]) /\ log'[i][n].term = currentTerm'[i]
    /\ IsMajority(Cardinality({p \in Server : matchIndex'[i][p] >= n}))
    /\ commitIndex[i] <= n /\ commitIndex'[i] = n
    /\ \A p \in Server : p # i => commitIndex'[p] = commitIndex[p]
    /\ UNCHANGED <<lastApplied, applied>>

\* The next committed entry goes to the service.
Delivers(i, n) ==
    /\ n = lastApplied[i] + 1 /\ n <= commitIndex[i] /\ n \in 1..Len(log[i])
    /\ lastApplied'[i] = n /\ applied' = applied \cup {<<n, log[i][n]>>}
    /\ \A p \in Server : p # i => lastApplied'[p] = lastApplied[p]
    /\ UNCHANGED <<log, commitIndex>>

CommitMoves ==
    \/ Rests
    \/ \E i \in Server : \E n : Advances(i, n)
    \/ \E i \in Server : \E n : Delivers(i, n)
    \/ \E i, j \in Server : \E a : Takes(i, j, a) /\ TakesFirst(i, j, a)

\* Three variables unchanged are a step at rest.
LEMMA UnchangedRests ==
  ASSUME UNCHANGED applyVars
  PROVE  CommitMoves
  BY DEF applyVars, CommitMoves, Rests, Restartable

\* A success reply advances commitIndex to an index of the leader's own term
\* that a majority has, or leaves it.
LEMMA SucceededAdvances ==
  ASSUME TypeOK, NoSnapshots, NEW i \in Server, NEW j \in Server, NEW k \in DOMAIN calls[i][j],
         AppendSucceeded(i, j, k)
  PROVE  CommitMoves
<1>1. /\ advanceCommit(i, matchIndex'[i]) /\ UNCHANGED <<termVars, logVars, lastApplied, applied>>
      /\ serverState[i] = "leader"
  BY DEF AppendSucceeded, Leading
<1>2. UNCHANGED <<currentTerm, serverState, log>>
  BY <1>1 DEF termVars, logVars
<1>3. CASE UNCHANGED commitIndex
  BY <1>1, <1>3 DEF CommitMoves, Rests, Restartable
<1>4. ASSUME NEW n \in Committable(i, matchIndex'[i]), commitIndex' = [commitIndex EXCEPT ![i] = n]
      PROVE  CommitMoves
  <2>1. /\ n \in (commitIndex[i] + 1) .. lastLogIndex(i) /\ TermAt(i, log[i], n) = currentTerm[i]
        /\ IsMajority(Cardinality({p \in Server : matchIndex'[i][p] >= n}))
    BY DEF Committable
  <2>2. /\ commitIndex[i] \in Nat /\ Len(log[i]) \in Nat /\ lastLogIndex(i) = Len(log[i])
        /\ lastIncludedIndex[i] = 0
    BY PeerFacts, PlainLog
  <2>3. n \in 1..Len(log[i]) /\ commitIndex[i] <= n /\ n > 0 /\ n - 0 = n
    BY <2>1, <2>2
  <2>4. log[i][n].term = currentTerm[i]
    BY <2>1, <2>2, <2>3 DEF TermAt
  <2>5. /\ commitIndex'[i] = n /\ \A p \in Server : p # i => commitIndex'[p] = commitIndex[p]
    BY <1>4 DEF TypeOK
  <2>6. Advances(i, n)
    BY <1>1, <1>2, <2>1, <2>3, <2>4, <2>5 DEF Advances, IsLeader
  <2> QED BY <2>6 DEF CommitMoves
<1> QED BY <1>1, <1>3, <1>4 DEF advanceCommit

\* The apply routine delivers the next entry, up to commitIndex.
LEMMA ApplyDelivers ==
  ASSUME TypeOK, NoSnapshots, NEW i \in Server, BackgroundApplyRoutine(i)
  PROVE  CommitMoves
<1>1. PICK n \in Nat : n = lastApplied[i] + 1
  BY PeerFacts
<1>2. /\ lastIncludedIndex[i] = 0 /\ lastLogIndex(i) = Len(log[i]) /\ Len(log[i]) \in Nat
      /\ lastApplied[i] \in Nat /\ commitIndex[i] \in Nat
  BY PlainLog, PeerFacts
<1>3. /\ lastApplied[i] < commitIndex[i] /\ n <= lastLogIndex(i)
      /\ lastApplied' = [lastApplied EXCEPT ![i] = n]
      /\ applied' = applied \cup {<<n, log[i][n - lastIncludedIndex[i]]>>}
      /\ UNCHANGED <<logVars, commitIndex>>
  BY <1>1 DEF BackgroundApplyRoutine
<1>4. n <= commitIndex[i] /\ n \in 1..Len(log[i]) /\ n - lastIncludedIndex[i] = n
  BY <1>1, <1>2, <1>3
<1>5. lastApplied'[i] = n /\ \A p \in Server : p # i => lastApplied'[p] = lastApplied[p]
  BY <1>3 DEF TypeOK
<1>6. Delivers(i, n)
  BY <1>1, <1>3, <1>4, <1>5 DEF Delivers, logVars
<1> QED BY <1>6 DEF CommitMoves

\* Every step moves the indices in one of these ways.
LEMMA StepCommits ==
  ASSUME TypeOK, InOrderOnly, PersistedCurrent, ReplicationInv, Next
  PROVE  CommitMoves
<1>0. NoSnapshots /\ NextInRange /\ SentInOrder /\ \A p \in Server : Disabled(p)
  BY NoCompaction DEF ReplicationInv
<1>1. ASSUME NEW i \in Server, NEW lg, Sends(i, lg) PROVE CommitMoves
  BY <1>1 DEF Sends, CommitMoves, Rests
<1>2. ASSUME NEW i \in Server, ServerStep(i) PROVE CommitMoves
  <2>1. CASE doElection(i)
    BY <2>1, UnchangedRests DEF doElection
  <2>2. CASE BackgroundApplyRoutine(i)
    BY <1>0, <2>2, ApplyDelivers
  <2>3. CASE Crash(i)
    <3>1. Make(i, persisted[i])
      BY <2>3 DEF Crash
    <3>2. /\ UNCHANGED applied /\ commitIndex'[i] = 0 /\ lastApplied'[i] = 0
          /\ \A p \in Server : p # i =>
                commitIndex'[p] = commitIndex[p] /\ lastApplied'[p] = lastApplied[p]
      BY <1>0, <3>1, RestartEffect
    <3> QED BY <3>2 DEF CommitMoves, Rests, Restartable
  <2>4. CASE TickerSend(i) \/ \E cmd \in Command : Start(i, cmd) \/ CrashInStart(i, cmd)
    BY <1>0, <1>1, <2>4, TickerSends, StartSends, CrashSends
  <2> QED BY <1>0, <1>2, <2>1, <2>2, <2>3, <2>4 DEF ServerStep, Disabled
<1>3. ASSUME NEW c \in voteCalls, VoteStep(c) PROVE CommitMoves
  <2>1. UNCHANGED applyVars
    BY <1>3 DEF VoteStep, RequestVoteStale, RequestVote, VoteIgnored, VoteStepDown, VoteCounted
  <2> QED BY <2>1, UnchangedRests
<1>4. ASSUME NEW i \in Server, NEW j \in Server, NEW k \in DOMAIN calls[i][j], CallStep(i, j, k)
      PROVE  CommitMoves
  <2>1. CASE AppendEntriesStale(i, j, k) \/ AppendEntriesMismatch(i, j, k) \/ AppendRefused(i, j, k)
               \/ ReplyIgnored(i, j, k) \/ ReplyStepDown(i, j, k)
    <3>1. UNCHANGED applyVars
      BY <2>1 DEF AppendEntriesStale, AppendEntriesMismatch, AppendRefused, ReplyIgnored, ReplyStepDown
    <3> QED BY <3>1, UnchangedRests
  <2>2. CASE AppendSucceeded(i, j, k)
    BY <1>0, <2>2, SucceededAdvances
  <2>3. CASE AppendEntries(i, j, k)
    <3>1. Takes(i, j, calls[i][j][k]) /\ TakesFirst(i, j, calls[i][j][k])
      BY <1>0, <2>3, AppendTakes
    <3> QED BY <3>1 DEF CommitMoves
  <2> QED BY <1>0, <1>4, <2>1, <2>2, <2>3 DEF CallStep, Disabled
<1> QED BY <1>2, <1>3, <1>4 DEF Next

-----------------------------------------------------------------------------
(* What is committed, sent as committed or delivered stays safe. *)

\* A commitIndex that does not rise stays safe.
LEMMA CommitKept ==
  ASSUME TypeOK, TypeOK', ElectionInv, LogInv, ReplicationInv, ReplicationInv', TermsGrow, Moves,
         CommitSafe, NEW p \in Server, commitIndex'[p] > 0, commitIndex'[p] <= commitIndex[p]
  PROVE  \E n \in 1..Len(log'[p]), T \in 0..currentTerm'[p], Q \in SUBSET Server :
            Locked(n, T, Q)' /\ commitIndex'[p] <= n /\ Keeps(p, n, T)'
<1>1. commitIndex[p] \in Nat /\ commitIndex'[p] \in Nat /\ Len(log[p]) \in Nat /\ currentTerm[p] \in Nat
  BY PeerFacts, PeerFactsNext
<1>2. PICK n \in 1..Len(log[p]), T \in 0..currentTerm[p], Q \in SUBSET Server :
         Locked(n, T, Q) /\ commitIndex[p] <= n /\ Keeps(p, n, T)
  BY <1>1 DEF CommitSafe
<1>3. n \in Nat \ {0} /\ T \in Nat /\ commitIndex'[p] <= n
  BY <1>1, <1>2
<1>4. Included(n, T)
  BY <1>2 DEF Locked, Protected, Included
<1>5. Locked(n, T, Q)'
  BY <1>2, <1>3, LockedStep
<1>6. Keeps(p, n, T)'
  BY <1>2, <1>3, <1>4, KeepsStep
<1>7. n \in 1..Len(log'[p]) /\ T \in 0..currentTerm'[p]
  <2>1. currentTerm'[p] \in Nat
    BY PeerFactsNext
  <2> QED BY <1>3, <1>6, <2>1 DEF Keeps, Has
<1> QED BY <1>3, <1>5, <1>6, <1>7

\* The leader commits an entry of its term that a majority has acknowledged.
LEMMA AdvanceSafe ==
  ASSUME TypeOK', ElectionSafety', LogInv', ReplicationInv', Pending',
         NEW i \in Server, NEW n, Advances(i, n)
  PROVE  \E T \in 0..currentTerm'[i], Q \in SUBSET Server : Locked(n, T, Q)' /\ Keeps(i, n, T)'
<1>0. CallersElected'
  BY DEF ReplicationInv
<1>1. PICK T \in Nat : T = currentTerm'[i]
  BY PeerFactsNext
<1>2. IsLeader(i)' /\ n \in 1..Len(log'[i]) /\ log'[i][n].term = T /\ n \in Nat
  BY <1>1, PeerFactsNext DEF Advances
<1>3. PICK B \in SUBSET Server : B = Acks(i, n)'
  BY DEF Acks
<1> DEFINE Q == {p \in Server : matchIndex'[i][p] >= n}
<1>4. IsMajority(Cardinality(Q)) /\ Q \in SUBSET Server
  BY DEF Advances
<1>5. ASSUME NEW p \in Q PROVE p \in B
  BY <1>3, <1>5, AckedIs DEF Acks
<1>6. IsMajority(Cardinality(B))
  <2> HIDE DEF Q
  <2> QED BY <1>4, <1>5, MajorityGrows
<1>7. Open(T, B)'
  <2> DEFINE V == B \cup {p \in Server : currentTerm'[p] <= T}
  <2>1. V \in SUBSET Server /\ B \subseteq V
    OBVIOUS
  <2>2. IsMajority(Cardinality(V))
    <3> HIDE DEF V
    <3> QED BY <1>6, <2>1, MajorityGrows
  <2> QED BY <2>2 DEF Open
<1>8. Protected(n, T, B)'
  <2>1. Open(currentTerm[i], Acks(i, n))'
    BY <1>1, <1>3, <1>7 DEF Open
  <2>2. Protected(n, currentTerm[i], Acks(i, n))'
    BY <1>1, <1>2, <2>1 DEF Pending
  <2> QED BY <1>1, <1>3, <2>2
          DEF Protected, Won, LogsInclude, SentIncludes, LeadersHave, Holds, Keeps, Has, Carries, After
<1>9. Locked(n, T, B)'
  BY <1>6, <1>8 DEF Locked
<1>10. Keeps(i, n, T)'
  <2>1. ASSUME NEW x \in Server, NEW r \in Sent(x, i)', r.term = T PROVE FALSE
    BY <1>0, <1>1, <1>2, <2>1, LeaderSends
  <2>2. Has(i, n, T)' /\ currentTerm'[i] >= T
    BY <1>1, <1>2 DEF Has
  <2> QED BY <2>1, <2>2 DEF Keeps
<1>11. T \in 0..currentTerm'[i]
  BY <1>1
<1> QED BY <1>9, <1>10, <1>11

\* A follower commits what the request it takes says, as far as it reaches.
LEMMA TakenSafe ==
  ASSUME TypeOK, TypeOK', ElectionInv, ElectionSafety, LogInv, ReplicationInv, ReplicationInv',
         TermsGrow, Moves, SentSafe,
         NEW i \in Server, NEW j \in Server, NEW a, Takes(i, j, a), TakesFirst(i, j, a),
         a.leaderCommit > 0
  PROVE  \E n \in 1..Len(log'[j]), T \in 0..currentTerm'[j], Q \in SUBSET Server :
            Locked(n, T, Q)' /\ a.leaderCommit <= n /\ Keeps(j, n, T)'
<1>0. CallersElected
  BY DEF ReplicationInv
<1>1. a \in Sent(i, j) /\ currentTerm'[j] = a.term /\ Len(log'[j]) = Reach(a) /\ SentOld
  BY DEF Takes
<1>2. a \in AppendRequest
  BY <1>1, SentFacts
<1>3. a.term \in Nat /\ Reach(a) \in Nat
  BY <1>2, RequestFacts
<1>4. PICK n \in 1..Reach(a), T \in 0..a.term, Q \in SUBSET Server :
         Locked(n, T, Q) /\ a.leaderCommit <= n /\ Carries(a, n, T)
  BY <1>1 DEF SentSafe
<1>5. n \in Nat \ {0} /\ T \in Nat /\ a.term >= T /\ n <= Reach(a)
  BY <1>3, <1>4
<1>6. Locked(n, T, Q)' /\ LogsInclude(n, T)
  BY <1>4, <1>5, LockedStep DEF Locked, Protected
<1>7. Has(j, n, T)'
  BY <1>4, <1>5, <1>6, TakesCarried
<1>8. ASSUME a.term = T, NEW x \in Server, NEW r \in Sent(x, j)', r.term = T PROVE n <= Reach(r)
  <2>1. r \in Sent(x, j)
    BY <1>1 DEF SentOld
  <2>2. <<T, x>> \in elected /\ <<T, i>> \in elected
    BY <1>0, <1>1, <1>8, <2>1 DEF CallersElected
  <2>3. x = i
    BY <2>2, OneWinner
  <2>4. Reach(a) <= Reach(r)
    BY <1>8, <2>3 DEF TakesFirst
  <2>5. r \in AppendRequest
    BY <2>1, SentFacts
  <2>6. Reach(r) \in Nat
    BY <2>5, RequestFacts
  <2> QED BY <1>3, <1>5, <2>4, <2>6
<1>9. Keeps(j, n, T)'
  BY <1>1, <1>5, <1>7, <1>8 DEF Keeps
<1>10. n \in 1..Len(log'[j]) /\ T \in 0..currentTerm'[j]
  BY <1>1, <1>4
<1> QED BY <1>4, <1>6, <1>9, <1>10

\* Every step keeps CommitSafe: a leader commits what is locked for it, a
\* follower what is locked for the leader it hears from.
LEMMA CommitSafeStep ==
  ASSUME TypeOK, TypeOK', ElectionInv, ElectionSafety, ElectionSafety', LogInv, LogInv',
         ReplicationInv, ReplicationInv', TermsGrow, Moves, CommitMoves, Pending', CommitSafe, SentSafe
  PROVE  CommitSafe'
<1> SUFFICES ASSUME NEW p \in Server, commitIndex'[p] > 0
             PROVE  \E n \in 1..Len(log'[p]), T \in 0..currentTerm'[p], Q \in SUBSET Server :
                       Locked(n, T, Q)' /\ commitIndex'[p] <= n /\ Keeps(p, n, T)'
  BY DEF CommitSafe
<1> DEFINE Goal == \E n \in 1..Len(log'[p]), T \in 0..currentTerm'[p], Q \in SUBSET Server :
                      Locked(n, T, Q)' /\ commitIndex'[p] <= n /\ Keeps(p, n, T)'
<1>1. commitIndex[p] \in Nat /\ commitIndex'[p] \in Nat
  BY PeerFacts, PeerFactsNext
<1>2. ASSUME commitIndex'[p] <= commitIndex[p] PROVE Goal
  BY <1>2, CommitKept
<1>3. ASSUME commitIndex'[p] = commitIndex[p] PROVE Goal
  BY <1>1, <1>2, <1>3
<1> HIDE DEF Goal
<1>4. CASE Rests
  <2>1. commitIndex'[p] = commitIndex[p] \/ commitIndex'[p] = 0
    BY <1>4 DEF Rests, Restartable
  <2> QED BY <1>1, <1>3, <2>1 DEF Goal
<1>5. ASSUME NEW i \in Server, NEW n, Advances(i, n) PROVE Goal
  <2>1. CASE p # i
    BY <1>3, <1>5, <2>1 DEF Advances
  <2>2. CASE p = i
    <3>1. n \in 1..Len(log'[p]) /\ commitIndex'[p] = n /\ commitIndex'[p] <= n
      BY <1>1, <1>5, <2>2 DEF Advances
    <3> QED BY <1>5, <2>2, <3>1, AdvanceSafe DEF Goal
  <2> QED BY <2>1, <2>2
<1>6. ASSUME NEW i \in Server, NEW n, Delivers(i, n) PROVE Goal
  BY <1>3, <1>6 DEF Delivers
<1>7. ASSUME NEW i \in Server, NEW j \in Server, NEW a, Takes(i, j, a), TakesFirst(i, j, a)
      PROVE  Goal
  <2>1. CASE p # j
    BY <1>3, <1>7, <2>1 DEF Takes
  <2>2. CASE p = j
    <3>1. a \in Sent(i, j) /\ commitIndex'[j] = Smaller(Larger(commitIndex[j], a.leaderCommit), Reach(a))
      BY <1>7 DEF Takes
    <3>2. a \in AppendRequest
      BY <3>1, SentFacts
    <3>3. PICK c \in Nat, R \in Nat : c = a.leaderCommit /\ R = Reach(a)
      BY <3>2, RequestFacts
    <3>4. CASE commitIndex[p] >= c
      <4>1. commitIndex'[p] <= commitIndex[p]
        BY <1>1, <2>2, <3>1, <3>3, <3>4 DEF Smaller, Larger
      <4> QED BY <1>2, <4>1
    <3>5. CASE commitIndex[p] < c
      <4>1. commitIndex'[p] <= c /\ a.leaderCommit > 0
        BY <1>1, <2>2, <3>1, <3>3, <3>5 DEF Smaller, Larger
      <4>2. PICK n \in 1..Len(log'[j]), T \in 0..currentTerm'[j], Q \in SUBSET Server :
               Locked(n, T, Q)' /\ a.leaderCommit <= n /\ Keeps(j, n, T)'
        BY <1>7, <4>1, TakenSafe
      <4>3. commitIndex'[p] <= n
        BY <1>1, <3>3, <4>1, <4>2
      <4> QED BY <2>2, <4>2, <4>3 DEF Goal
    <3> QED BY <1>1, <3>3, <3>4, <3>5
  <2> QED BY <2>1, <2>2
<1> QED BY <1>4, <1>5, <1>6, <1>7 DEF CommitMoves, Goal

\* Every step keeps SentSafe: a request tells the leader's commitIndex and
\* reaches the end of its log.
LEMMA SentSafeStep ==
  ASSUME TypeOK, TypeOK', ElectionInv, LogInv, ReplicationInv, ReplicationInv', TermsGrow, Moves,
         CommitSafe, SentSafe
  PROVE  SentSafe'
<1>0. TermsRise /\ NextInRange /\ SentInOrder
  BY DEF ReplicationInv
<1>1. ASSUME NEW x \in Server, NEW y \in Server, NEW r \in Sent(x, y), r.leaderCommit > 0
      PROVE  \E n \in 1..Reach(r), T \in 0..r.term, Q \in SUBSET Server :
                Locked(n, T, Q)' /\ r.leaderCommit <= n /\ Carries(r, n, T)
  <2>1. PICK n \in 1..Reach(r), T \in 0..r.term, Q \in SUBSET Server :
           Locked(n, T, Q) /\ r.leaderCommit <= n /\ Carries(r, n, T)
    BY <1>1 DEF SentSafe
  <2>2. r \in AppendRequest
    BY SentFacts
  <2>3. n \in Nat \ {0} /\ T \in Nat
    BY <2>2, RequestFacts
  <2>4. Locked(n, T, Q)'
    BY <2>1, <2>3, LockedStep
  <2> QED BY <2>1, <2>4
<1>2. ASSUME SentOld PROVE SentSafe'
  BY <1>1, <1>2 DEF SentSafe, SentOld
<1>3. ASSUME NEW i \in Server, NEW lg, Sends(i, lg) PROVE SentSafe'
  <2>1. ASSUME NEW x \in Server, NEW y \in Server, NEW r \in Sent(x, y)', r.leaderCommit > 0
        PROVE  \E n \in 1..Reach(r), T \in 0..r.term, Q \in SUBSET Server :
                  Locked(n, T, Q)' /\ r.leaderCommit <= n /\ Carries(r, n, T)
    <3>1. CASE r \in Sent(x, y)
      BY <1>1, <2>1, <3>1
    <3>2. CASE MadeFrom(i, lg, r)
      <4>1. r \in AppendRequest /\ Rising(lg, currentTerm[i])
        BY <1>0, <1>3, SendsSent, SendsRising
      <4>2. /\ r.term = currentTerm[i] /\ r.leaderCommit = commitIndex[i] /\ Reach(r) = Len(lg)
            /\ lg \in Seq(LogEntry) /\ Len(log[i]) <= Len(lg)
            /\ \A m \in 1..Len(log[i]) : lg[m] = log[i][m]
        BY <1>3, <3>2 DEF MadeFrom, Sends
      <4>3. PICK n \in 1..Len(log[i]), T \in 0..currentTerm[i], Q \in SUBSET Server :
               Locked(n, T, Q) /\ commitIndex[i] <= n /\ Keeps(i, n, T)
        BY <2>1, <4>2 DEF CommitSafe
      <4>4. Len(log[i]) \in Nat /\ Len(lg) \in Nat /\ currentTerm[i] \in Nat
        BY <4>2, PeerFacts
      <4>5. n \in Nat \ {0} /\ T \in Nat /\ n \in 1..Len(lg)
        BY <4>2, <4>3, <4>4
      <4>6. lg[n].term = T
        BY <4>2, <4>3 DEF Keeps, Has
      <4>7. Carries(r, n, T)
        BY <3>2, <4>1, <4>2, <4>5, <4>6, MadeCarries
      <4>8. Locked(n, T, Q)'
        BY <4>3, <4>5, LockedStep
      <4> QED BY <4>2, <4>3, <4>5, <4>7, <4>8
    <3> QED BY <1>3, <3>1, <3>2, SendsSent
  <2> QED BY <2>1 DEF SentSafe
<1> QED BY <1>0, <1>2, <1>3, SameSent, QuietlyStill, ElectsStill, PollsStill
        DEF Moves, Still, Wins, Takes

\* The delivered entry a is where all of a majority keep it.
Settled(a, n, T, Q) == a[1] \in 1..n /\ Locked(n, T, Q) /\ \A p \in Q : log[p][a[1]] = a[2]

\* Every step leaves it there.
LEMMA SettledStep ==
  ASSUME TypeOK, TypeOK', ElectionInv, LogInv, ReplicationInv, ReplicationInv', TermsGrow, Moves,
         NEW a, NEW n \in Nat \ {0}, NEW T \in Nat, NEW Q \in SUBSET Server, Settled(a, n, T, Q)
  PROVE  /\ Settled(a, n, T, Q)'
         /\ \E q \in Server : n \in 1..Len(log'[q]) /\ T \in 0..currentTerm'[q]
<1>1. a[1] \in 1..n /\ Locked(n, T, Q) /\ \A p \in Q : log[p][a[1]] = a[2]
  BY DEF Settled
<1>2. Locked(n, T, Q)'
  BY <1>1, LockedStep
<1>3. Included(n, T) /\ \A p \in Q : Keeps(p, n, T)
  BY <1>1 DEF Locked, Protected, Included, Holds
<1>4. \A p \in Q : Keeps(p, n, T)' /\ log'[p][a[1]] = log[p][a[1]]
  BY <1>1, <1>3, KeepsStep
<1>5. Settled(a, n, T, Q)'
  BY <1>1, <1>2, <1>4 DEF Settled
<1>6. PICK q \in Q : q \in Q
  BY <1>1, MajoritiesMeet DEF Locked
<1>7. n \in 1..Len(log'[q]) /\ currentTerm'[q] >= T /\ currentTerm'[q] \in Nat
  BY <1>4, PeerFactsNext DEF Keeps, Has
<1>8. T \in 0..currentTerm'[q]
  BY <1>7
<1> QED BY <1>5, <1>7, <1>8

\* Every step keeps AppliedSafe: what is delivered is committed.
LEMMA AppliedSafeStep ==
  ASSUME TypeOK, TypeOK', ElectionInv, LogInv, ReplicationInv, ReplicationInv', TermsGrow, Moves,
         CommitMoves, CommitSafe, AppliedSafe
  PROVE  AppliedSafe'
<1> SUFFICES ASSUME NEW a \in applied'
             PROVE  \E q \in Server :
                    \E n \in 1..Len(log'[q]), T \in 0..currentTerm'[q], Q \in SUBSET Server :
                       a[1] \in 1..n /\ Locked(n, T, Q)' /\ \A p \in Q : log'[p][a[1]] = a[2]
  BY DEF AppliedSafe
<1>1. ASSUME NEW q \in Server, NEW n \in 1..Len(log[q]), NEW T \in 0..currentTerm[q],
             NEW Q \in SUBSET Server, Settled(a, n, T, Q)
      PROVE  \E s \in Server :
             \E m \in 1..Len(log'[s]), U \in 0..currentTerm'[s], R \in SUBSET Server :
                a[1] \in 1..m /\ Locked(m, U, R)' /\ \A p \in R : log'[p][a[1]] = a[2]
  <2>1. n \in Nat \ {0} /\ T \in Nat
    BY PeerFacts
  <2>2. PICK s \in Server : n \in 1..Len(log'[s]) /\ T \in 0..currentTerm'[s]
    BY <1>1, <2>1, SettledStep
  <2>3. Settled(a, n, T, Q)'
    BY <1>1, <2>1, SettledStep
  <2>4. a[1] \in 1..n /\ Locked(n, T, Q)' /\ \A p \in Q : log'[p][a[1]] = a[2]
    BY <2>3 DEF Settled
  <2> QED BY <2>2, <2>4
<1>2. CASE a \in applied
  <2>1. PICK q \in Server :
        \E n \in 1..Len(log[q]), T \in 0..currentTerm[q], Q \in SUBSET Server :
           a[1] \in 1..n /\ Locked(n, T, Q) /\ \A p \in Q : log[p][a[1]] = a[2]
    BY <1>2 DEF AppliedSafe
  <2>2. PICK n \in 1..Len(log[q]), T \in 0..currentTerm[q], Q \in SUBSET Server :
           a[1] \in 1..n /\ Locked(n, T, Q) /\ \A p \in Q : log[p][a[1]] = a[2]
    BY <2>1
  <2> QED BY <1>1, <2>2 DEF Settled
<1>3. ASSUME NEW i \in Server, NEW k, Delivers(i, k), a = <<k, log[i][k]>>
      PROVE  \E s \in Server :
             \E m \in 1..Len(log'[s]), U \in 0..currentTerm'[s], R \in SUBSET Server :
                a[1] \in 1..m /\ Locked(m, U, R)' /\ \A p \in R : log'[p][a[1]] = a[2]
  <2>1. k <= commitIndex[i] /\ k \in 1..Len(log[i]) /\ a[1] = k /\ a[2] = log[i][k]
    BY <1>3 DEF Delivers
  <2>2. commitIndex[i] \in Nat /\ Len(log[i]) \in Nat /\ currentTerm[i] \in Nat
    BY PeerFacts
  <2>3. commitIndex[i] > 0
    BY <2>1, <2>2
  <2>4. PICK n \in 1..Len(log[i]), T \in 0..currentTerm[i], Q \in SUBSET Server :
           Locked(n, T, Q) /\ commitIndex[i] <= n /\ Keeps(i, n, T)
    BY <2>3 DEF CommitSafe
  <2>5. k \in 1..n /\ n \in Nat
    BY <2>1, <2>2, <2>4
  <2>6. ASSUME NEW p \in Q PROVE log[p][k] = log[i][k]
    <3>1. Has(p, n, T) /\ Has(i, n, T)
      BY <2>4 DEF Locked, Protected, Holds, Keeps
    <3>2. p \in Server /\ n \in 1..Len(log[p]) /\ log[p][n].term = log[i][n].term
      BY <3>1 DEF Has
    <3>3. NoSnapshots /\ PiecesAgree
      BY DEF ReplicationInv, LogInv
    <3> QED BY <2>4, <2>5, <3>2, <3>3, LogsAgree
  <2>7. Settled(a, n, T, Q)
    BY <2>1, <2>4, <2>5, <2>6 DEF Settled
  <2> QED BY <1>1, <2>4, <2>7
<1>4. a \in applied \/ \E i \in Server : \E k : Delivers(i, k) /\ a = <<k, log[i][k]>>
  BY DEF CommitMoves, Rests, Advances, Delivers, Takes
<1> QED BY <1>2, <1>3, <1>4

\* Every step keeps lastApplied <= commitIndex <= the end of the log, and leaves
\* no gap in what was delivered.
LEMMA IndicesStep ==
  ASSUME TypeOK, TypeOK', CommitMoves, CommitSafe', IndicesInOrder, NoGaps
  PROVE  IndicesInOrder' /\ NoGaps'
<1>1. ASSUME NEW p \in Server PROVE commitIndex'[p] <= Len(log'[p])
  <2>0. commitIndex'[p] \in Nat /\ Len(log'[p]) \in Nat
    BY PeerFactsNext
  <2>1. CASE commitIndex'[p] > 0
    <3>1. PICK n \in 1..Len(log'[p]) : commitIndex'[p] <= n
      BY <2>1 DEF CommitSafe
    <3> QED BY <2>0, <3>1
  <2> QED BY <2>0, <2>1
<1>2. applied \subseteq applied'
  BY DEF CommitMoves, Rests, Advances, Delivers, Takes
<1>3. ASSUME NEW p \in Server, lastApplied'[p] <= lastApplied[p], NEW m \in 1..lastApplied'[p]
      PROVE  \E a \in applied' : a[1] = m
  <2>1. lastApplied'[p] \in Nat /\ lastApplied[p] \in Nat
    BY PeerFacts, PeerFactsNext
  <2>2. m \in 1..lastApplied[p]
    BY <1>3, <2>1
  <2> QED BY <1>2, <2>2 DEF NoGaps
<1>4. ASSUME NEW p \in Server
      PROVE  /\ lastApplied'[p] <= commitIndex'[p]
             /\ \A m \in 1..lastApplied'[p] : \E a \in applied' : a[1] = m
  <2>0. /\ lastApplied[p] \in Nat /\ lastApplied'[p] \in Nat /\ commitIndex[p] \in Nat
        /\ commitIndex'[p] \in Nat /\ lastApplied[p] <= commitIndex[p]
    BY PeerFacts, PeerFactsNext DEF IndicesInOrder
  <2>1. SUFFICES \/ lastApplied'[p] <= commitIndex'[p] /\ lastApplied'[p] <= lastApplied[p]
                 \/ \E i \in Server : \E n : Delivers(i, n)
    <3>1. ASSUME NEW i \in Server, NEW n, Delivers(i, n)
          PROVE  /\ lastApplied'[p] <= commitIndex'[p]
                 /\ \A m \in 1..lastApplied'[p] : \E a \in applied' : a[1] = m
      <4>1. UNCHANGED commitIndex
        BY <3>1 DEF Delivers
      <4>2. CASE p # i
        <5>1. lastApplied'[p] = lastApplied[p]
          BY <3>1, <4>2 DEF Delivers
        <5> QED BY <1>3, <2>0, <4>1, <5>1
      <4>3. CASE p = i
        <5>1. /\ n = lastApplied[p] + 1 /\ n <= commitIndex[p] /\ lastApplied'[p] = n
              /\ applied' = applied \cup {<<n, log[p][n]>>}
          BY <3>1, <4>3 DEF Delivers
        <5>2. ASSUME NEW m \in 1..n PROVE \E a \in applied' : a[1] = m
          <6>1. CASE m = n
            <7>1. <<n, log[p][n]>> \in applied' /\ <<n, log[p][n]>>[1] = n
              BY <5>1
            <7> QED BY <6>1, <7>1
          <6>2. CASE m # n
            <7>1. m \in 1..lastApplied[p]
              BY <2>0, <5>1, <6>2
            <7> QED BY <1>2, <7>1 DEF NoGaps
          <6> QED BY <6>1, <6>2
        <5> QED BY <2>0, <4>1, <5>1, <5>2
      <4> QED BY <4>2, <4>3
    <3> QED BY <1>3, <2>1, <3>1
  <2>2. CASE Rests
    BY <2>0, <2>2 DEF Rests, Restartable
  <2>3. ASSUME NEW i \in Server, NEW n, Advances(i, n)
        PROVE  lastApplied'[p] <= commitIndex'[p] /\ lastApplied'[p] <= lastApplied[p]
    <3>1. lastApplied'[p] = lastApplied[p]
      BY <2>3 DEF Advances
    <3>2. commitIndex[p] <= commitIndex'[p]
      BY <2>0, <2>3 DEF Advances
    <3> QED BY <2>0, <3>1, <3>2
  <2>4. ASSUME NEW i \in Server, NEW j \in Server, NEW a, Takes(i, j, a)
        PROVE  lastApplied'[p] <= commitIndex'[p] /\ lastApplied'[p] <= lastApplied[p]
    <3>1. CASE p # j
      BY <2>0, <2>4, <3>1 DEF Takes
    <3>2. CASE p = j
      <4>1. a \in Sent(i, j) /\ lastApplied'[j] = Smaller(lastApplied[j], Reach(a))
            /\ commitIndex'[j] = Smaller(Larger(commitIndex[j], a.leaderCommit), Reach(a))
        BY <2>4 DEF Takes
      <4>2. a \in AppendRequest
        BY <4>1, SentFacts
      <4>3. PICK c \in Nat, R \in Nat : c = a.leaderCommit /\ R = Reach(a)
        BY <4>2, RequestFacts
      <4> QED BY <2>0, <3>2, <4>1, <4>3 DEF Smaller, Larger
    <3> QED BY <3>1, <3>2
  <2> QED BY <2>2, <2>3, <2>4 DEF CommitMoves
<1> QED BY <1>1, <1>4 DEF IndicesInOrder, NoGaps

\* Every step keeps the invariant of commitment.
LEMMA CommitmentStep ==
  ASSUME TypeOK, TypeOK', ElectionInv, ElectionInv', ElectionSafety, ElectionSafety', LogInv, LogInv',
         ReplicationInv, ReplicationInv', TermsGrow, Moves, CommitMoves, CommitmentInv
  PROVE  CommitmentInv'
<1>0. Pending /\ CommitSafe /\ SentSafe /\ AppliedSafe /\ IndicesInOrder /\ NoGaps
  BY DEF CommitmentInv
<1>1. Pending'
  BY <1>0, PendingStep
<1>2. CommitSafe' /\ SentSafe' /\ AppliedSafe'
  BY <1>0, <1>1, CommitSafeStep, SentSafeStep, AppliedSafeStep
<1>3. IndicesInOrder' /\ NoGaps'
  BY <1>0, <1>2, IndicesStep
<1> QED BY <1>1, <1>2, <1>3 DEF CommitmentInv

-----------------------------------------------------------------------------
(* The invariant holds. *)

\* Peers start with empty logs and no calls.
LEMMA InitSafety ==
  ASSUME Init, TypeOK
  PROVE  SafetyInv
<1>1. /\ applied = {} /\ elected = {} /\ votes = {} /\ voteCalls = {}
      /\ \A p \in Server : /\ log[p] = <<>> /\ serverState[p] = "follower" /\ commitIndex[p] = 0
                           /\ lastApplied[p] = 0 /\ lastIncludedIndex[p] = 0 /\ lastIncludedTerm[p] = 0
                           /\ ~ticker[p] /\ installers[p] = {}
      /\ \A p, q \in Server : calls[p][q] = <<>>
  BY DEF Init
<1>2. \A p \in Server : Len(log[p]) = 0 /\ ~IsLeader(p)
  BY <1>1 DEF IsLeader
<1>3. \A p, q \in Server : DOMAIN calls[p][q] = {}
  BY <1>1
<1>4. \A p, q \in Server : Sent(p, q) = {} /\ Replies(p, q) = {}
  BY <1>3 DEF Sent, Replies
<1>5. NoSnapshots
  BY <1>1, <1>3 DEF NoSnapshots
<1>6. TermsRise
  BY <1>2, <1>4 DEF TermsRise, Rising
<1>7. CallersElected /\ SentIsPart /\ SentInOrder /\ AckedKept /\ NextInRange
  BY <1>2, <1>3, <1>4 DEF CallersElected, SentIsPart, SentInOrder, InReachOrder, AckedKept, NextInRange
<1>8. VotesAsked
  BY <1>1 DEF VotesAsked
<1>9. Pending /\ CommitSafe /\ SentSafe /\ AppliedSafe
  BY <1>1, <1>2, <1>4 DEF Pending, CommitSafe, SentSafe, AppliedSafe
<1>10. IndicesInOrder /\ NoGaps
  BY <1>1, <1>2 DEF IndicesInOrder, NoGaps
<1> QED BY <1>5, <1>6, <1>7, <1>8, <1>9, <1>10 DEF SafetyInv, ReplicationInv, CommitmentInv

\* Every step keeps the invariant.
LEMMA SafetyStep ==
  ASSUME TypeOK, TypeOK', InOrderOnly, PersistedCurrent, ElectionInv, ElectionInv', ElectionSafety,
         ElectionSafety', LogInv, LogInv', SafetyInv, [Next]_vars
  PROVE  SafetyInv'
<1>1. ReplicationInv /\ CommitmentInv
  BY DEF SafetyInv
<1>2. ReplicationInv' /\ TermsGrow /\ Moves
  BY <1>1, ReplicationStep
<1>3. CommitMoves
  <2>1. CASE Next
    BY <1>1, <2>1, StepCommits
  <2>2. CASE UNCHANGED vars
    <3>1. UNCHANGED applyVars
      BY <2>2 DEF vars
    <3> QED BY <3>1, UnchangedRests
  <2> QED BY <2>1, <2>2
<1>4. CommitmentInv'
  BY <1>1, <1>2, <1>3, CommitmentStep
<1> QED BY <1>2, <1>4 DEF SafetyInv

\* The inductive invariant of replication and commitment, for every set of
\* servers and all bounds, when no request overtakes an older one on its link,
\* ticker() is not preempted between its two locks and nothing is compacted.
THEOREM SafetyInvariant ==
  ASSUME InOrderOnly
  PROVE  Spec => []SafetyInv
<1>1. Init /\ TypeOK => SafetyInv
  BY InitSafety
<1>2. /\ TypeOK /\ TypeOK' /\ PersistedCurrent /\ ElectionInv /\ ElectionInv' /\ ElectionSafety
      /\ ElectionSafety' /\ LogInv /\ LogInv' /\ SafetyInv /\ [Next]_vars
      => SafetyInv'
  BY SafetyStep
<1> QED BY <1>1, <1>2, TypeCorrect, DiskCurrent, ElectionInvariant, OneLeaderPerTerm, LogInvariant,
           PTL DEF Spec

\* What was delivered is settled.
LEMMA DeliveredSettled ==
  ASSUME TypeOK, SafetyInv, NEW a \in applied
  PROVE  \E n \in Nat \ {0}, T \in Nat, Q \in SUBSET Server : Settled(a, n, T, Q)
<1>1. PICK q \in Server :
      \E n \in 1..Len(log[q]), T \in 0..currentTerm[q], Q \in SUBSET Server :
         a[1] \in 1..n /\ Locked(n, T, Q) /\ \A p \in Q : log[p][a[1]] = a[2]
  BY DEF SafetyInv, CommitmentInv, AppliedSafe
<1>2. PICK n \in 1..Len(log[q]), T \in 0..currentTerm[q], Q \in SUBSET Server :
         a[1] \in 1..n /\ Locked(n, T, Q) /\ \A p \in Q : log[p][a[1]] = a[2]
  BY <1>1
<1>3. n \in Nat \ {0} /\ T \in Nat
  BY PeerFacts
<1> QED BY <1>2, <1>3 DEF Settled

\* Two entries that were delivered for one index are locked by majorities that
\* have a peer in common, and it has one log.
LEMMA SettledOnce ==
  ASSUME TypeOK, SafetyInv
  PROVE  StateMachineSafety
<1> SUFFICES ASSUME NEW a \in applied, NEW b \in applied, a[1] = b[1] PROVE a = b
  BY DEF StateMachineSafety
<1>1. PICK n \in Nat \ {0}, T \in Nat, Q \in SUBSET Server : Settled(a, n, T, Q)
  BY DeliveredSettled
<1>2. PICK m \in Nat \ {0}, U \in Nat, R \in SUBSET Server : Settled(b, m, U, R)
  BY DeliveredSettled
<1>3. IsMajority(Cardinality(Q)) /\ IsMajority(Cardinality(R))
  BY <1>1, <1>2 DEF Settled, Locked
<1>4. PICK p \in Q : p \in R
  BY <1>3, MajoritiesMeet
<1>5. a[2] = b[2]
  BY <1>1, <1>2, <1>4 DEF Settled
<1>6. a = <<a[1], a[2]>> /\ b = <<b[1], b[2]>>
  BY DEF TypeOK
<1> QED BY <1>5, <1>6

\* The leader of the highest term has what was delivered.
LEMMA LeaderHasSettled ==
  ASSUME TypeOK, LogInv, SafetyInv
  PROVE  LeaderCompleteness
<1> SUFFICES ASSUME NEW i \in Server, IsLeader(i),
                    \A j \in Server : currentTerm[j] <= currentTerm[i], NEW a \in applied
             PROVE  a[1] \in Held(i) /\ EntryAt(i, a[1]) = a[2]
  BY DEF LeaderCompleteness, IsLeader
<1>1. PICK n \in Nat \ {0}, T \in Nat, Q \in SUBSET Server : Settled(a, n, T, Q)
  BY DeliveredSettled
<1>2. a[1] \in 1..n /\ Locked(n, T, Q) /\ \A p \in Q : log[p][a[1]] = a[2]
  BY <1>1 DEF Settled
<1>3. PICK q \in Q : q \in Q
  BY <1>2, MajoritiesMeet DEF Locked
<1>4. q \in Server /\ Has(q, n, T) /\ currentTerm[q] >= T /\ LeadersHave(n, T)
  BY <1>2, <1>3 DEF Locked, Protected, Holds, Keeps
<1>5. currentTerm[q] \in Nat /\ currentTerm[i] \in Nat /\ Len(log[i]) \in Nat
  BY <1>4, PeerFacts
<1>6. currentTerm[i] >= T
  BY <1>4, <1>5
<1>7. Has(i, n, T)
  BY <1>4, <1>6 DEF LeadersHave
<1>8. NoSnapshots /\ PiecesAgree
  BY DEF SafetyInv, ReplicationInv, LogInv
<1>9. n \in 1..Len(log[i]) /\ n \in 1..Len(log[q]) /\ log[i][n].term = log[q][n].term
  BY <1>4, <1>7 DEF Has
<1>10. log[i][a[1]] = log[q][a[1]]
  BY <1>2, <1>4, <1>8, <1>9, LogsAgree
<1>11. lastIncludedIndex[i] = 0 /\ lastLogIndex(i) = Len(log[i])
  BY <1>8, PlainLog
<1>12. a[1] \in (0 + 1)..Len(log[i]) /\ a[1] - 0 = a[1]
  BY <1>2, <1>5, <1>9
<1> QED BY <1>2, <1>3, <1>10, <1>11, <1>12 DEF Held, EntryAt

\* matchIndex is one of the acknowledgements that are kept.
LEMMA MatchedKept ==
  ASSUME TypeOK, SafetyInv
  PROVE  MatchIndexReplicated
<1> SUFFICES ASSUME NEW i \in Server, NEW p \in Server, IsLeader(i), currentTerm[p] = currentTerm[i],
                    NEW n \in 1..matchIndex[i][p]
             PROVE  /\ n <= lastLogIndex(p)
                    /\ n \in Held(i) \cap Held(p) => EntryAt(i, n) = EntryAt(p, n)
  BY DEF MatchIndexReplicated, IsLeader
<1>1. NoSnapshots /\ AckedKept
  BY DEF SafetyInv, ReplicationInv
<1>2. PICK m \in Nat : m = matchIndex[i][p]
  BY PeerFacts
<1>3. m \in Acked(i, p)
  BY <1>2, AckedIs
<1>4. m <= Len(log[p]) /\ \A k \in 1..m : log[p][k] = log[i][k]
  BY <1>1, <1>3 DEF AckedKept, AckKept
<1>5. /\ lastIncludedIndex[i] = 0 /\ lastIncludedIndex[p] = 0 /\ lastLogIndex(p) = Len(log[p])
      /\ Len(log[p]) \in Nat
  BY <1>1, PlainLog, PeerFacts
<1>6. n \in 1..m /\ n <= Len(log[p]) /\ n - 0 = n
  BY <1>2, <1>4, <1>5
<1> QED BY <1>4, <1>5, <1>6 DEF EntryAt

\* The indices that Start(), ticker() and the apply routine slice with are in
\* range.
LEMMA SlicesInRange ==
  ASSUME TypeOK, SafetyInv
  PROVE  NoSlicePanic
<1>1. NoSnapshots /\ NextInRange /\ IndicesInOrder
  BY DEF SafetyInv, ReplicationInv, CommitmentInv
<1>2. ASSUME NEW i \in Server, serverState[i] = "leader" \/ ticker[i] PROVE InSlice(i, log[i])
  <2>1. IsLeader(i) /\ lastIncludedIndex[i] = 0 /\ Len(log[i]) \in Nat
    BY <1>1, <1>2, PeerFacts DEF NoSnapshots, IsLeader
  <2>2. ASSUME NEW p \in Server PROVE nextIndex[i][p] <= 0 + Len(log[i]) + 1
    <3>1. nextIndex[i][p] \in 1..(Len(log[i]) + 1)
      BY <1>1, <2>1 DEF NextInRange
    <3> QED BY <2>1, <3>1
  <2> QED BY <2>1, <2>2 DEF InSlice, Peers
<1>3. ASSUME NEW i \in Server PROVE commitIndex[i] <= lastLogIndex(i) /\ lastApplied[i] <= commitIndex[i]
  BY <1>1, PlainLog DEF IndicesInOrder
<1> QED BY <1>2, <1>3 DEF NoSlicePanic

\* What a leader has been told that a peer has, in matchIndex or in a reply on
\* its way, the peer keeps while it is in the leader's term, and no request that
\* AppendEntries() has yet to handle cuts it off: a late heartbeat, which makes
\* the follower drop everything after prevLogIndex, never undoes an
\* acknowledgement on an ordered link.
THEOREM AcknowledgedIsKept ==
  ASSUME InOrderOnly
  PROVE  Spec => []AckedKept
<1>1. SafetyInv => AckedKept
  BY DEF SafetyInv, ReplicationInv
<1> QED BY <1>1, SafetyInvariant, PTL

\* No two peers ever deliver different entries for one index, nor does one peer
\* after a restart (config.go:151-154), whatever crashes, elections, losses and
\* late replies there are.
THEOREM NoTwoEntriesForOneIndex ==
  ASSUME InOrderOnly
  PROVE  Spec => []StateMachineSafety
<1>1. TypeOK /\ SafetyInv => StateMachineSafety
  BY SettledOnce
<1> QED BY <1>1, TypeCorrect, SafetyInvariant, PTL

\* A leader that nobody has outrun holds every entry that any peer has
\* delivered: the vote's comparison of logs and the commit rule of
\* advanceCommit together never lose one.
THEOREM LeadersAreComplete ==
  ASSUME InOrderOnly
  PROVE  Spec => []LeaderCompleteness
<1>1. TypeOK /\ LogInv /\ SafetyInv => LeaderCompleteness
  BY LeaderHasSettled
<1> QED BY <1>1, TypeCorrect, LogInvariant, SafetyInvariant, PTL

\* matchIndex never claims more than the peer has, while the peer is in the
\* leader's term.
THEOREM MatchIndexIsTrue ==
  ASSUME InOrderOnly
  PROVE  Spec => []MatchIndexReplicated
<1>1. TypeOK /\ SafetyInv => MatchIndexReplicated
  BY MatchedKept
<1> QED BY <1>1, TypeCorrect, SafetyInvariant, PTL

\* No slice of rf.log is taken out of its range by Start(), ticker() or the
\* apply routine.
THEOREM NoPanic ==
  ASSUME InOrderOnly
  PROVE  Spec => []NoSlicePanic
<1>1. TypeOK /\ SafetyInv => NoSlicePanic
  BY SlicesInRange
<1> QED BY <1>1, TypeCorrect, SafetyInvariant, PTL

-----------------------------------------------------------------------------
(* The services see one log. *)

\* Peer i is given what it was given before again, from index v + 1 on.
GoesBack(i, v) ==
    /\ UNCHANGED applied /\ v \in 0..lastApplied[i]
    /\ lastApplied' = [lastApplied EXCEPT ![i] = v]

\* Peer i is given the entry d.
IsGiven(i, d) ==
    /\ d[1] = lastApplied[i] + 1 /\ applied' = applied \cup {d}
    /\ lastApplied' = [lastApplied EXCEPT ![i] = d[1]]

\* What a step does to the services.
Supplies ==
    \/ UNCHANGED <<applied, lastApplied>>
    \/ \E i \in Server : \E v : GoesBack(i, v)
    \/ \E i \in Server : \E d : IsGiven(i, d)

\* A restart begins at index 0.
LEMMA RestartGoesBack ==
  ASSUME TypeOK, PersistedCurrent, NoSnapshots, NEW i \in Server, Make(i, persisted[i])
  PROVE  Supplies
<1>1. persisted[i].lastIncludedIndex = lastIncludedIndex[i]
  <2>1. persisted[i] = RaftState(i)
    BY DEF PersistedCurrent
  <2> QED BY <2>1 DEF RaftState
<1>2. Resume(persisted[i]) = 0
  BY <1>1 DEF Resume, NoSnapshots
<1>3. lastApplied' = [lastApplied EXCEPT ![i] = 0] /\ UNCHANGED applied
  BY <1>2 DEF Make
<1>4. 0 \in 0..lastApplied[i]
  BY PeerFacts
<1> QED BY <1>3, <1>4 DEF Supplies, GoesBack

\* Every step supplies the services in one of these ways.
LEMMA StepSupplies ==
  ASSUME TypeOK, InOrderOnly, PersistedCurrent, ReplicationInv, Next
  PROVE  Supplies
<1>0. NoSnapshots /\ \A p \in Server : Disabled(p)
  BY NoCompaction DEF ReplicationInv
<1>1. ASSUME UNCHANGED applyVars PROVE Supplies
  BY <1>1 DEF applyVars, Supplies
<1>2. ASSUME NEW i \in Server, ServerStep(i) PROVE Supplies
  <2>1. CASE doElection(i) \/ TickerSend(i) \/ \E cmd \in Command : Start(i, cmd)
    <3>1. UNCHANGED applyVars
      BY <2>1 DEF doElection, TickerSend, Start
    <3> QED BY <1>1, <3>1
  <2>2. CASE BackgroundApplyRoutine(i)
    <3>1. PICK n : n = lastApplied[i] + 1
      OBVIOUS
    <3>2. PICK d : d = <<n, log[i][n - lastIncludedIndex[i]]>>
      OBVIOUS
    <3>3. /\ applied' = applied \cup {d} /\ d[1] = n
          /\ lastApplied' = [lastApplied EXCEPT ![i] = n]
      <4>1. applied' = applied \cup {<<n, log[i][n - lastIncludedIndex[i]]>>}
        BY <2>2, <3>1 DEF BackgroundApplyRoutine
      <4>2. lastApplied' = [lastApplied EXCEPT ![i] = n]
        BY <2>2, <3>1 DEF BackgroundApplyRoutine
      <4> QED BY <3>2, <4>1, <4>2
    <3>4. IsGiven(i, d)
      BY <3>1, <3>3 DEF IsGiven
    <3> QED BY <3>4 DEF Supplies
  <2>3. CASE Crash(i) \/ \E cmd \in Command : CrashInStart(i, cmd)
    BY <1>0, <2>3, RestartGoesBack DEF Crash, CrashInStart
  <2> QED BY <1>0, <1>2, <2>1, <2>2, <2>3 DEF ServerStep, Disabled
<1>3. ASSUME NEW c \in voteCalls, VoteStep(c) PROVE Supplies
  <2>1. UNCHANGED applyVars
    BY <1>3 DEF VoteStep, RequestVoteStale, RequestVote, VoteIgnored, VoteStepDown, VoteCounted
  <2> QED BY <1>1, <2>1
<1>4. ASSUME NEW i \in Server, NEW j \in Server, NEW k \in DOMAIN calls[i][j], CallStep(i, j, k)
      PROVE  Supplies
  <2>1. CASE AppendEntriesStale(i, j, k) \/ AppendEntriesMismatch(i, j, k) \/ AppendRefused(i, j, k)
               \/ ReplyIgnored(i, j, k) \/ ReplyStepDown(i, j, k)
    <3>1. UNCHANGED applyVars
      BY <2>1 DEF AppendEntriesStale, AppendEntriesMismatch, AppendRefused, ReplyIgnored, ReplyStepDown
    <3> QED BY <1>1, <3>1
  <2>2. CASE AppendSucceeded(i, j, k)
    BY <2>2 DEF AppendSucceeded, Supplies
  <2>3. CASE AppendEntries(i, j, k)
    <3>1. PICK a : a = calls[i][j][k]
      OBVIOUS
    <3>2. /\ a.kind = "append" /\ UNCHANGED applied
          /\ lastApplied' =
               [lastApplied EXCEPT ![j] = Smaller(lastApplied[j], a.prevLogIndex + Len(a.entries))]
      BY <2>3, <3>1 DEF AppendEntries
    <3>3. a \in AppendRequest
      BY <3>1, <3>2, SentAt, SentFacts
    <3>4. PICK R \in Nat : R = a.prevLogIndex + Len(a.entries)
      BY <3>3, RequestFacts
    <3>5. Smaller(lastApplied[j], R) \in 0..lastApplied[j]
      BY PeerFacts DEF Smaller
    <3> QED BY <3>2, <3>4, <3>5 DEF Supplies, GoesBack
  <2> QED BY <1>0, <1>4, <2>1, <2>2, <2>3 DEF CallStep, Disabled
<1> QED BY <1>2, <1>3, <1>4 DEF Next

\* As many entries were delivered as the peer that is furthest has come to.
LEMMA DeliveredCount ==
  ASSUME TypeOK, NoGaps, IsFiniteSet(applied), NEW p \in Server
  PROVE  Cardinality(applied) \in Nat /\ lastApplied[p] <= Cardinality(applied)
<1>1. PICK k \in Nat : k = lastApplied[p]
  BY PeerFacts
<1> DEFINE D == {a \in applied : a[1] \in 1..k}
           f == [a \in D |-> a[1]]
<1>2. D \in SUBSET applied
  OBVIOUS
<1>3. IsFiniteSet(D) /\ Cardinality(D) <= Cardinality(applied)
  <2> HIDE DEF D
  <2> QED BY <1>2, FS_Subset
<1>4. f \in Surjection(D, 1..k)
  <2>1. f \in [D -> 1..k]
    OBVIOUS
  <2>2. ASSUME NEW m \in 1..k PROVE \E a \in D : f[a] = m
    <3>1. PICK a \in applied : a[1] = m
      BY <1>1 DEF NoGaps
    <3> QED BY <3>1
  <2> HIDE DEF f, D
  <2> QED BY <2>1, <2>2 DEF Surjection
<1>5. Cardinality(1..k) <= Cardinality(D)
  <2> HIDE DEF f, D
  <2> QED BY <1>3, <1>4, FS_Surjection
<1>6. Cardinality(1..k) = k
  BY FS_Interval
<1>7. Cardinality(applied) \in Nat /\ Cardinality(D) \in Nat
  <2> HIDE DEF D
  <2> QED BY <1>3, FS_CardinalityType
<1> HIDE DEF D
<1> QED BY <1>1, <1>3, <1>5, <1>6, <1>7

\* Such a step is one of the replicated log.
LEMMA SuppliesLog ==
  ASSUME TypeOK, NoGaps, IsFiniteSet(applied), StateMachineSafety', Supplies
  PROVE  [RL!Next]_<<applied, lastApplied>>
<1>1. ASSUME NEW i \in Server, NEW v, GoesBack(i, v) PROVE [RL!Next]_<<applied, lastApplied>>
  <2>0. lastApplied \in [Server -> Nat] /\ lastApplied[i] \in Nat
    BY DEF TypeOK
  <2>1. /\ UNCHANGED applied /\ v \in 0..lastApplied[i] /\ lastApplied' = [lastApplied EXCEPT ![i] = v]
    BY <1>1 DEF GoesBack
  <2>2. CASE v = lastApplied[i]
    BY <2>0, <2>1, <2>2
  <2>3. CASE v # lastApplied[i]
    <3>1. lastApplied'[i] = v /\ v \in 0..(lastApplied[i] - 1)
      BY <2>0, <2>1, <2>3
    <3>2. RL!Rewind(i)
      BY <2>1, <3>1 DEF RL!Rewind
    <3> QED BY <3>2 DEF RL!Next
  <2> QED BY <2>2, <2>3
<1>2. ASSUME NEW i \in Server, NEW d, IsGiven(i, d) PROVE RL!Next
  <2>1. /\ d[1] = lastApplied[i] + 1 /\ applied' = applied \cup {d} /\ d \in applied'
        /\ lastApplied' = [lastApplied EXCEPT ![i] = d[1]]
    BY <1>2 DEF IsGiven
  <2>2. \A e \in applied : e[1] = d[1] => e = d
    BY <2>1 DEF StateMachineSafety
  <2>3. d[1] <= Cardinality(applied) + 1
    <3>1. Cardinality(applied) \in Nat /\ lastApplied[i] <= Cardinality(applied) /\ lastApplied[i] \in Nat
      BY DeliveredCount, PeerFacts
    <3> QED BY <2>1, <3>1
  <2>4. RL!Deliver(i)
    <3> SUFFICES \E x \in applied' :
                   /\ x[1] = lastApplied[i] + 1
                   /\ \A e \in applied : e[1] = x[1] => e = x
                   /\ applied' = applied \cup {x}
                   /\ x[1] <= Cardinality(applied) + 1
                   /\ lastApplied' = [lastApplied EXCEPT ![i] = x[1]]
      <4>1. RL!Cardinality(applied) = Cardinality(applied)
        BY DEF RL!Cardinality, Cardinality, RL!IsFiniteSet, IsFiniteSet
      <4> QED BY <4>1 DEF RL!Deliver
    <3> WITNESS d \in applied'
    <3> QED BY <2>1, <2>2, <2>3
  <2> QED BY <2>4 DEF RL!Next
<1> QED BY <1>1, <1>2 DEF Supplies

\* Raft implements ReplicatedLog, by its first state and by each step: one
\* growing log, given to each service in order and without gaps, for every set
\* of servers.
THEOREM RaftImplementsLog ==
  ASSUME InOrderOnly
  PROVE  Spec => RL!Init /\ LogSteps
<1>1. Init => IsFiniteSet(applied) /\ RL!Init
  BY FS_EmptySet DEF Init, RL!Init
<1>2. TypeOK /\ PersistedCurrent /\ SafetyInv /\ [Next]_vars => Supplies
  <2> SUFFICES ASSUME TypeOK, PersistedCurrent, SafetyInv, [Next]_vars PROVE Supplies
    OBVIOUS
  <2>1. CASE Next
    BY <2>1, StepSupplies DEF SafetyInv
  <2>2. CASE UNCHANGED vars
    BY <2>2 DEF vars, applyVars, Supplies
  <2> QED BY <2>1, <2>2
<1>3. IsFiniteSet(applied) /\ Supplies => IsFiniteSet(applied)'
  BY FS_AddElement DEF Supplies, GoesBack, IsGiven
<1>4. /\ TypeOK /\ SafetyInv /\ IsFiniteSet(applied) /\ StateMachineSafety' /\ Supplies
      => [RL!Next]_<<applied, lastApplied>>
  BY SuppliesLog DEF SafetyInv, CommitmentInv
<1>5. Spec => []IsFiniteSet(applied)
  BY <1>1, <1>2, <1>3, TypeCorrect, DiskCurrent, SafetyInvariant, PTL DEF Spec
<1> QED
  BY <1>1, <1>2, <1>4, <1>5, TypeCorrect, DiskCurrent, SafetyInvariant, NoTwoEntriesForOneIndex, PTL
     DEF Spec, LogSteps
=============================================================================
