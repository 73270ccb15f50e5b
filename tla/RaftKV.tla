------------------------------- MODULE RaftKV -------------------------------
(***************************************************************************)
(* The key/value service of src/src/kvraft: the state every server builds  *)
(* from the messages on applyCh, its table against duplicates, and the     *)
(* snapshots it takes and is given.  Raft's side of applyCh is external,   *)
(* as BackgroundApplyRoutine(), InstallSnapshot() and Make() use it.       *)
(*                                                                         *)
(* A value is the sequence of the operations that made it, so that a lost, *)
(* repeated or reordered one is visible.                                   *)
(***************************************************************************)
EXTENDS Service

CONSTANTS
    Key,
    Snapshots,  \* TRUE: maxraftstate > 0
    ChanSize    \* capacity of applyCh, 2048 in the code

ASSUME KVAssumption == Snapshots \in BOOLEAN /\ ChanSize \in Nat \ {0}

VARIABLES
    store,              \* store[s]: key -> value
    lastApplied,        \* lastApplied[s]: clerk -> last reqId applied
    lastIncludedIndex,  \* lastIncludedIndex[s]: index of the last change
    applyCh,            \* applyCh[s]: messages on their way to ApplyRoutine
    unsent,             \* unsent[s]: what goroutines of Raft are about to send
    delivered,          \* delivered[s]: Raft's lastApplied
    compacted,          \* compacted[s]: Raft's lastIncludedIndex
    snapshot            \* snapshot[s]: the Persister's snapshot

\* History: the last index whose effect the store is meant to have, and whether
\* an entry has come to some server before the snapshot that ends where the
\* entry begins.
VARIABLES upTo, overtaken

kvVars   == <<store, lastApplied, lastIncludedIndex, upTo, overtaken>>
feedVars == <<applyCh, unsent, delivered, compacted, snapshot>>
vars     == <<serviceVars, kvVars, feedVars>>

Larger(a, b) == IF a >= b THEN a ELSE b

Ops == [type : OpType, key : Key]

\* An Op as it is in the log: named by its clerk, its value its own name.
Op == {Named(op, c, n, <<c, n>>) : op \in Ops, c \in Client, n \in 1..MaxId}

\* What a snapshot holds.
Data == [store : [Key -> Seq(Client \X Nat)], lastApplied : [Client -> Nat],
         lastIncludedIndex : Nat]

ASSUME NoOpAssumption == NoOp \notin Op \cup Data \cup [op : Op, born : Nat, taken : BOOLEAN]

AcceptsAny(op1, op2) == op2 # NoOp   \* mutant: whatever was applied at idx
isSameOp(op1, op2) ==
    /\ op1.type = op2.type /\ op1.key = op2.key
    /\ op1.reqId = op2.reqId /\ op1.me = op2.me

-----------------------------------------------------------------------------
(* The state machine. *)

\* handlePutAppend()
handlePutAppend(st, op) ==
    [st EXCEPT ![op.key] = IF op.type = "Put" THEN <<op.value>> ELSE Append(@, op.value)]

SnapshotData(s) ==
    [store |-> store[s], lastApplied |-> lastApplied[s],
     lastIncludedIndex |-> lastIncludedIndex[s]]

NewReq(s, op) == TRUE   \* mutant: no table against duplicates
\* A PutAppend that this server has not applied yet.
FirstTime(s, op) == lastApplied[s][op.me] < op.reqId

\* The Index of a snapshot is read after rf.mu is released; no service uses it,
\* and idx here is the index the snapshot covers, for the history upTo only.
EntryMsg(idx) == [kind |-> "entry", idx |-> idx]
SnapshotMsg(idx, data) == [kind |-> "snapshot", idx |-> idx, data |-> data]

\* ApplyRoutine() takes the message of a log entry: it changes the store or
\* reads it, wakes the handler, and may hand a snapshot to Raft, which ignores
\* one that is not newer than its own or that it has not delivered.
ApplyEntry(s) ==
    LET msg == Head(applyCh[s])
        idx == msg.idx
        op  == log[idx]
        got == IF op.type = "GET" THEN [op EXCEPT !.value = store[s][op.key]] ELSE op
    IN
    /\ applyCh[s] # <<>>
    /\ msg.kind = "entry"
    /\ IF op.type # "GET" /\ FirstTime(s, op)
       THEN /\ store' = [store EXCEPT ![s] = handlePutAppend(@, op)]
            /\ lastApplied' = [lastApplied EXCEPT ![s][op.me] = op.reqId]
            /\ lastIncludedIndex' = [lastIncludedIndex EXCEPT ![s] = idx]
       ELSE UNCHANGED <<store, lastApplied, lastIncludedIndex>>
    /\ upTo' = [upTo EXCEPT ![s] = Larger(@, idx)]
    /\ overtaken' = (overtaken \/ idx > upTo[s] + 1)
    /\ Notify(s, idx, got)
    /\ \/ UNCHANGED <<snapshot, compacted>>
       \/ /\ Snapshots
          /\ idx \in (compacted[s] + 1)..delivered[s]
          /\ compacted' = [compacted EXCEPT ![s] = idx]
          /\ snapshot' = [snapshot EXCEPT ![s] = SnapshotData(s)']
    /\ applyCh' = [applyCh EXCEPT ![s] = Tail(@)]
    /\ UNCHANGED <<raftVars, clerkVars, results, crashes, unsent, delivered>>

NewerAlways(s, data) == data.lastIncludedIndex >= 0   \* mutant: no comparison
Newer(s, data) == data.lastIncludedIndex > lastIncludedIndex[s]

\* ApplyRoutine() takes a snapshot; an empty one does not decode.
ApplySnapshot(s) ==
    LET msg  == Head(applyCh[s])
        data == msg.data
    IN
    /\ applyCh[s] # <<>>
    /\ msg.kind = "snapshot"
    /\ IF data # NoOp /\ Newer(s, data)
       THEN /\ store' = [store EXCEPT ![s] = data.store]
            /\ lastApplied' = [lastApplied EXCEPT ![s] = data.lastApplied]
            /\ lastIncludedIndex' = [lastIncludedIndex EXCEPT ![s] = data.lastIncludedIndex]
       ELSE UNCHANGED <<store, lastApplied, lastIncludedIndex>>
    /\ upTo' = [upTo EXCEPT ![s] = Larger(@, msg.idx)]
    /\ applyCh' = [applyCh EXCEPT ![s] = Tail(@)]
    /\ UNCHANGED <<serviceVars, overtaken, unsent, delivered, compacted, snapshot>>

-----------------------------------------------------------------------------
(* Raft's side of applyCh. *)

\* A goroutine of Raft has decided to send msg and released rf.mu: the message
\* of another one may be on applyCh before it.
Emit(s, msg) == unsent' = [unsent EXCEPT ![s] = @ \cup {msg}]

\* A sender blocks while the channel is full.
Send(s, msg) ==
    /\ Len(applyCh[s]) < ChanSize
    /\ applyCh' = [applyCh EXCEPT ![s] = Append(@, msg)]
    /\ unsent' = [unsent EXCEPT ![s] = @ \ {msg}]
    /\ UNCHANGED <<serviceVars, kvVars, delivered, compacted, snapshot>>

\* BackgroundApplyRoutine() takes the next committed entry.
Deliver(s) ==
    /\ delivered[s] < Len(log)
    /\ \A m \in unsent[s] : m.kind # "entry"
    /\ delivered' = [delivered EXCEPT ![s] = @ + 1]
    /\ Emit(s, EntryMsg(delivered[s] + 1))
    /\ UNCHANGED <<serviceVars, kvVars, applyCh, compacted, snapshot>>

\* InstallSnapshot() at s with the snapshot of the leader r.
InstallSnapshot(s, r) ==
    /\ compacted[r] > compacted[s]
    /\ compacted' = [compacted EXCEPT ![s] = compacted[r]]
    /\ delivered' = [delivered EXCEPT ![s] = Larger(@, compacted[r])]
    /\ snapshot' = [snapshot EXCEPT ![s] = snapshot[r]]
    /\ Emit(s, SnapshotMsg(compacted[r], snapshot[r]))
    /\ UNCHANGED <<serviceVars, kvVars, applyCh>>

\* StartKVServer() after a crash: empty maps, and Make() sends the snapshot
\* before it starts its goroutines.
StartKVServer(s) ==
    /\ CrashService(s)
    /\ store' = [store EXCEPT ![s] = [k \in Key |-> <<>>]]
    /\ lastApplied' = [lastApplied EXCEPT ![s] = [c \in Client |-> 0]]
    /\ lastIncludedIndex' = [lastIncludedIndex EXCEPT ![s] = 0]
    /\ upTo' = [upTo EXCEPT ![s] = 0]
    /\ delivered' = [delivered EXCEPT ![s] = compacted[s]]
    /\ applyCh' = [applyCh EXCEPT ![s] = <<SnapshotMsg(compacted[s], snapshot[s])>>]
    /\ unsent' = [unsent EXCEPT ![s] = {}]
    /\ UNCHANGED <<overtaken, compacted, snapshot>>

-----------------------------------------------------------------------------
\* Once every ApplyRoutine has skipped the empty snapshot of its Make().
Init ==
    /\ InitService
    /\ store = [s \in Server |-> [k \in Key |-> <<>>]]
    /\ lastApplied = [s \in Server |-> [c \in Client |-> 0]]
    /\ lastIncludedIndex = [s \in Server |-> 0]
    /\ applyCh = [s \in Server |-> <<>>]
    /\ unsent = [s \in Server |-> {}]
    /\ delivered = [s \in Server |-> 0]
    /\ compacted = [s \in Server |-> 0]
    /\ snapshot = [s \in Server |-> NoOp]
    /\ upTo = [s \in Server |-> 0]
    /\ overtaken = FALSE

\* Clerk.Get, Put and Append; the value stands for the operation itself.
Submit(c, op) ==
    /\ Request(c, op, <<c, id[c] + 1>>)
    /\ UNCHANGED <<kvVars, feedVars>>

\* RPC handlers Get and PutAppend.
Serve(c, s) ==
    /\ Start(c, s)
    /\ UNCHANGED <<kvVars, feedVars>>

HandlerStep(h) ==
    /\ Register(h) \/ Applied(h, isSameOp(h.op, h.ch)) \/ TimedOut(h)
    /\ UNCHANGED <<kvVars, feedVars>>

Agree == Commit /\ UNCHANGED <<kvVars, feedVars>>

Next ==
    \/ \E c \in Client : \/ \E op \in Ops : Submit(c, op)
                         \/ \E s \in Server : Serve(c, s)
    \/ \E h \in handlers : HandlerStep(h)
    \/ Agree
    \/ \E s \in Server :
          \/ ApplyEntry(s) \/ ApplySnapshot(s) \/ Deliver(s) \/ StartKVServer(s)
          \/ \E msg \in unsent[s] : Send(s, msg)
          \/ \E r \in Server \ {s} : InstallSnapshot(s, r)

Spec == Init /\ [][Next]_vars

-----------------------------------------------------------------------------
(* What the service promises. *)

\* The value of k after the writes of a sequence: a reference that knows no
\* server.
ValueAfter(writes, k) ==
    LET upto[n \in 0..Len(writes)] ==
            IF n = 0 THEN <<>>
            ELSE IF writes[n].key # k THEN upto[n - 1]
            ELSE IF writes[n].type = "Put" THEN <<writes[n].value>>
            ELSE Append(upto[n - 1], writes[n].value)
    IN  upto[Len(writes)]

Reference(k, n) == ValueAfter(Effective(n, "GET"), k)

\* Every server's store is what the log up to the last message it took means:
\* retries that are committed twice, restarts and snapshots neither lose nor
\* repeat an operation, as long as no entry overtakes a snapshot (ApplyRoutine,
\* the tester's checkClntAppends).
StoreIsLog ==
    ~overtaken => \A s \in Server : \A k \in Key : store[s][k] = Reference(k, upTo[s])

\* What a clerk is told is true of a point of the log between the beginning and
\* the end of its operation: a PutAppend is in the log, and a Get returns a
\* value that no operation which ended before it began is missing from
\* ("check that for a specific client all known appends are present in a
\* value", kvraft/test_test.go:54).
Linearizable ==
    \A c \in Client : answer[c].op # NoOp =>
        LET a == answer[c] IN
        \E n \in a.born..Len(log) :
            IF a.op.type = "GET" THEN a.value = Reference(a.op.key, n)
                                 ELSE n > a.born /\ log[n] = a.op

\* The same until an entry overtakes a snapshot: compaction and InstallSnapshot
\* alone, at servers behind or ahead of the leader, leave every reply right.
LinearizableInOrder == ~overtaken => Linearizable

\* No server applies an operation twice, whatever overtakes: an Append that was
\* retried, committed twice or replayed after a restart is once in the value
\* (ApplyRoutine's table, which travels with the store in a snapshot;
\* "duplicate element", kvraft/test_test.go:61).
AppliedOnce ==
    \A s \in Server : \A k \in Key : IsInjective(store[s][k])

\* The replicated service is one atomic key/value store to its clerks: every Put
\* and Append takes effect once, while its clerk waits for it, and every Get
\* returns a value the store had while the clerk waited, through lost replies,
\* timeouts, retries at other servers, indices that handlers share and entries
\* that are committed twice.
IsGet(op) == op.type = "GET"
ValueFor(writes, op) == ValueAfter(writes, op.key)

Store == INSTANCE AtomicService WITH
    IsRead <- IsGet, Answer <- ValueFor,
    done <- Effective(Len(log), "GET"),
    pend <- [c \in Client |-> Waiting(c, "GET")],
    reply <- [c \in Client |-> Told(c)]

\* Store!Spec: the mapping depends on the log and the clerks only.
ImplementsStore ==
    Store!Init /\ [][UNCHANGED <<log, clerkVars>> \/ [Store!Next]_(Store!vars)]_vars
=============================================================================
