----------------------------- MODULE RaftSafety -----------------------------
(***************************************************************************)
(* Why no two peers of Raft deliver different entries for one index, when  *)
(* links keep the order of requests, ticker() is not preempted and the     *)
(* service does not compact: the inductive invariant of replication.       *)
(*                                                                         *)
(* Without compaction rf.log is the whole log and its position n is index  *)
(* n.  ReplicationInv relates a leader to what it has in flight and to the *)
(* peers of its term.  Protected says how an entry of term T at index n is *)
(* safe from every leader after T: an entry that its leader may still come *)
(* to commit is (Pending), and so is all that is committed or delivered.   *)
(***************************************************************************)
EXTENDS Raft

\* The modes in which the invariant holds.  Overtaken requests, a preempted
\* ticker() and an installed snapshot each break StateMachineSafety itself.
InOrderOnly == InOrder = TRUE /\ Preemptible = FALSE /\ Snapshots = FALSE

\* The AppendEntries requests on their way from i to j, and the replies.
Sent(i, j) ==
    {calls[i][j][k] : k \in {m \in DOMAIN calls[i][j] : calls[i][j][m].kind = "append"}}
Replies(i, j) ==
    {calls[i][j][k] : k \in {m \in DOMAIN calls[i][j] : calls[i][j][m].kind = "appendReply"}}

\* The last index a request is about, and the terms it tells.
Reach(r) == r.prevLogIndex + Len(r.entries)
TermOf(r, n) ==
    IF n > r.prevLogIndex THEN r.entries[n - r.prevLogIndex].term ELSE r.prevLogTerm

IsLeader(i) == serverState[i] = "leader"

-----------------------------------------------------------------------------
(* A leader, its requests and the peers of its term. *)

NoSnapshots ==
    /\ \A i \in Server : /\ lastIncludedIndex[i] = 0 /\ lastIncludedTerm[i] = 0
                         /\ installers[i] = {} /\ ~ticker[i]
    /\ \A i, j \in Server : \A k \in DOMAIN calls[i][j] :
          calls[i][j][k].kind \in {"append", "appendReply"}

\* Terms rise along a log and along a request, up to the holder's term.
Rising(lg, t) ==
    \A n \in 1..Len(lg) : lg[n].term <= t /\ \A m \in 1..n : lg[m].term <= lg[n].term
RisingCall(r) ==
    \A n \in r.prevLogIndex .. Reach(r) :
        TermOf(r, n) <= r.term /\ \A m \in r.prevLogIndex .. n : TermOf(r, m) <= TermOf(r, n)
TermsRise ==
    /\ \A i \in Server : Rising(log[i], currentTerm[i])
    /\ \A i, j \in Server : \A r \in Sent(i, j) : RisingCall(r)

\* Only an elected peer calls AppendEntries, and never on itself.
CallersElected ==
    \A i, j \in Server : \A c \in Sent(i, j) \cup Replies(i, j) :
        i # j /\ <<c.term, i>> \in elected

\* What a leader has sent in its term is a part of its log.
IsPart(r, lg) ==
    /\ Reach(r) <= Len(lg)
    /\ \A n \in r.prevLogIndex .. Reach(r) :
          /\ n > 0 => TermOf(r, n) = lg[n].term
          /\ n > r.prevLogIndex => r.entries[n - r.prevLogIndex] = lg[n]
SentIsPart ==
    \A i, j \in Server : \A r \in Sent(i, j) :
        IsLeader(i) /\ r.term = currentTerm[i] => IsPart(r, log[i])

\* Of two requests of one term on a link, the later reaches at least as far.
InReachOrder(s) ==
    \A k, m \in DOMAIN s :
        (k < m /\ s[k].kind = "append" /\ s[m].kind = "append" /\ s[k].term = s[m].term)
          => Reach(s[k]) <= Reach(s[m])
SentInOrder == \A i, j \in Server : InReachOrder(calls[i][j])

\* How many entries the leader i has been told, or is about to be, that p has.
Acked(i, p) ==
    {matchIndex[i][p]} \cup
    {r.prevI + r.ent : r \in {q \in Replies(i, p) : q.term = currentTerm[i] /\ q.success}}

\* p has them as long as it is in the leader's term, and no request on its way
\* will take them from it.
AckKept(i, p, n) ==
    /\ n <= Len(log[i])
    /\ n > 0 => currentTerm[p] >= currentTerm[i]
    /\ \A r \in Sent(i, p) : r.term = currentTerm[i] => n <= Reach(r)
    /\ currentTerm[p] = currentTerm[i] =>
          n <= Len(log[p]) /\ \A m \in 1..n : log[p][m] = log[i][m]
\* What processAppendEntriesReply() has counted for a peer, or will count when
\* a reply arrives, no AppendEntries() of that leader removes again, although
\* the handler drops everything after prevLogIndex.
AckedKept ==
    \A i, p \in Server : IsLeader(i) => \A n \in Acked(i, p) : AckKept(i, p, n)

\* nextIndex stays within the leader's log, whatever hint arrives.
NextInRange ==
    \A i, p \in Server : IsLeader(i) =>
        /\ nextIndex[i][p] \in 1..(Len(log[i]) + 1)
        /\ \A r \in Replies(i, p) : r.term = currentTerm[i] =>
              r.XLen <= Len(log[i]) + 1 /\ r.XIndex <= Len(log[i]) + 1

\* A candidate's vote requests tell the end of its log, and nobody has voted
\* for it in a later term.
VotesAsked ==
    /\ \A c \in voteCalls : c.kind = "request" /\ Voting(c) =>
          c.lastLogIndex = lastLogIndex(c.src) /\ c.lastLogTerm = lastLogTerm(c.src)
    /\ \A v \in votes : v[2] <= currentTerm[v[3]]

ReplicationInv ==
    /\ NoSnapshots /\ TermsRise /\ CallersElected /\ SentIsPart /\ SentInOrder
    /\ AckedKept /\ NextInRange /\ VotesAsked

-----------------------------------------------------------------------------
(* Entries that no later leader can lack. *)

Has(p, n, T) == n \in 1..Len(log[p]) /\ log[p][n].term = T

\* p has the entry and loses it to no request of T.
Keeps(p, n, T) ==
    /\ currentTerm[p] >= T
    /\ Has(p, n, T)
    /\ currentTerm[p] = T => \A i \in Server : \A r \in Sent(i, p) : r.term = T => n <= Reach(r)

\* Whoever takes the request r has the entry then.
Carries(r, n, T) ==
    /\ n <= Reach(r)
    /\ IF r.prevLogIndex <= n THEN TermOf(r, n) = T ELSE r.prevLogTerm >= T

\* Index m in term t comes after index n in term T, or is the same.
After(t, m, n, T) == t > T \/ (t = T /\ m >= n)

\* Logs and requests that come after the entry include it, leaders have it,
LogsInclude(n, T) ==
    \A p \in Server : \A m \in 1..Len(log[p]) :
        After(log[p][m].term, m, n, T) => m >= n /\ Has(p, n, T)
SentIncludes(n, T) ==
    \A i, j \in Server : \A r \in Sent(i, j) : After(r.term, Reach(r), n, T) => Carries(r, n, T)
LeadersHave(n, T) ==
    \A c \in Server : IsLeader(c) /\ currentTerm[c] >= T => Has(c, n, T)
\* and p keeps it and votes only for candidates that have it.
Holds(p, n, T) ==
    /\ Keeps(p, n, T)
    /\ \A c \in Server :
          (serverState[c] = "candidate" /\ currentTerm[c] > T /\ <<p, currentTerm[c], c>> \in votes)
            => Has(c, n, T)
Won(T) == \E s \in Server : <<T, s>> \in elected

Protected(n, T, A) ==
    /\ Won(T) /\ LogsInclude(n, T) /\ SentIncludes(n, T) /\ LeadersHave(n, T)
    /\ \A p \in A : Holds(p, n, T)

\* Every majority of peers that have left the term T has one of A.
Open(T, A) == IsMajority(Cardinality(A \cup {p \in Server : currentTerm[p] <= T}))

Acks(i, n) == {p \in Server : \E m \in Acked(i, p) : m >= n}

\* An entry of its own term that a leader could still come to commit.
Pending ==
    \A i \in Server : IsLeader(i) =>
        \A n \in 1..Len(log[i]) :
            log[i][n].term = currentTerm[i] /\ Open(currentTerm[i], Acks(i, n))
              => Protected(n, currentTerm[i], Acks(i, n))

Locked(n, T, Q) == IsMajority(Cardinality(Q)) /\ Protected(n, T, Q)

CommitSafe ==
    \A p \in Server : commitIndex[p] > 0 =>
        \E n \in 1..Len(log[p]), T \in 0..currentTerm[p], Q \in SUBSET Server :
            Locked(n, T, Q) /\ commitIndex[p] <= n /\ Keeps(p, n, T)
SentSafe ==
    \A i, j \in Server : \A r \in Sent(i, j) : r.leaderCommit > 0 =>
        \E n \in 1..Reach(r), T \in 0..r.term, Q \in SUBSET Server :
            Locked(n, T, Q) /\ r.leaderCommit <= n /\ Carries(r, n, T)
AppliedSafe ==
    \A a \in applied :
        \E q \in Server :
        \E n \in 1..Len(log[q]), T \in 0..currentTerm[q], Q \in SUBSET Server :
            /\ a[1] \in 1..n /\ Locked(n, T, Q)
            /\ \A p \in Q : log[p][a[1]] = a[2]
IndicesInOrder ==
    \A p \in Server : lastApplied[p] <= commitIndex[p] /\ commitIndex[p] <= Len(log[p])
\* Whatever a peer has come to was delivered, by it or by another.
NoGaps ==
    \A p \in Server : \A m \in 1..lastApplied[p] : \E a \in applied : a[1] = m

CommitmentInv ==
    Pending /\ CommitSafe /\ SentSafe /\ AppliedSafe /\ IndicesInOrder /\ NoGaps

SafetyInv == ReplicationInv /\ CommitmentInv
=============================================================================
