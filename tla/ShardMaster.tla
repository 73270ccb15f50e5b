---------------------------- MODULE ShardMaster ----------------------------
(***************************************************************************)
(* The configuration service of src/src/shardmaster: a replicated sequence *)
(* of configurations that Join, Leave and Move extend and Query reads.  It *)
(* takes no snapshots: a restarted server rebuilds everything from the log.*)
(***************************************************************************)
EXTENDS Service, Rebalance

CONSTANTS
    GID,    \* replica group ids, positive
    MaxNum  \* bound: the numbers Query asks for are -1..MaxNum

ASSUME GIDAssumption == GID \subseteq Nat \ {0} /\ MaxNum \in Nat

VARIABLES
    configs,      \* configs[s]: the configurations, #0 at position 1
    lastApplied,  \* lastApplied[s]: clerk -> last reqId applied
    applied       \* applied[s]: the messages ApplyRoutine has taken

smVars == <<configs, lastApplied, applied>>
vars   == <<serviceVars, smVars>>

Ops == { op \in
             [type : {"Join", "Leave"}, gids : SUBSET GID \ {{}}]
        \cup [type : {"Move"}, shard : Shard, gid : GID]
        \cup [type : {"Query"}, num : -1..MaxNum] : op.type \in OpType }

\* An Op as it is in the log: named by its clerk, its Config still empty.
Op == {Named(op, c, n, NoOp) : op \in Ops, c \in Client, n \in 1..MaxId}

ASSUME NoOpAssumption == NoOp \notin Op \cup [op : Op, born : Nat, taken : BOOLEAN]

Config0 == [num |-> 0, shards |-> [s \in Shard |-> 0], groups |-> {}]

Latest(cfgs) == cfgs[Len(cfgs)]

AcceptsAny(op1, op2) == op2 # NoOp   \* mutant: whatever was applied at idx
isSameOp(op1, op2) ==
    op1.type = op2.type /\ op1.reqId = op2.reqId /\ op1.me = op2.me

-----------------------------------------------------------------------------
(* The state machine. *)

handleJoin(c, op)  == [c EXCEPT !.groups = @ \cup op.gids]
handleLeave(c, op) == [c EXCEPT !.groups = @ \ op.gids]
handleMove(c, op)  == [c EXCEPT !.shards[op.shard] = op.gid]

rebalance(c) == [c EXCEPT !.shards = Rebalanced(c.shards, c.groups)]

\* The configuration that op makes of the latest one.
NewConfig(prev, op) ==
    LET c == [prev EXCEPT !.num = @ + 1] IN
    CASE op.type = "Join"  -> rebalance(handleJoin(c, op))
      [] op.type = "Leave" -> rebalance(handleLeave(c, op))
      [] op.type = "Move"  -> handleMove(c, op)

handleQuery(cfgs, num) ==
    IF num < 0 \/ num >= Len(cfgs) THEN Latest(cfgs) ELSE cfgs[num + 1]

NeverDuplicate(s, op) == FALSE   \* mutant
isDuplicateOp(s, op) == lastApplied[s][op.me] >= op.reqId

\* One turn of ApplyRoutine(); raft.go delivers the committed entries in order.
ApplyEntry(s) ==
    LET idx == applied[s] + 1
        op  == log[idx]
        got == IF op.type = "Query"
               THEN [op EXCEPT !.value = handleQuery(configs[s], op.num)] ELSE op
    IN
    /\ idx <= Len(log)
    /\ applied' = [applied EXCEPT ![s] = idx]
    /\ IF op.type # "Query" /\ ~isDuplicateOp(s, op)
       THEN /\ lastApplied' = [lastApplied EXCEPT ![s][op.me] = op.reqId]
            /\ configs' = [configs EXCEPT ![s] = Append(@, NewConfig(Latest(@), op))]
       ELSE UNCHANGED <<lastApplied, configs>>
    /\ Notify(s, idx, got)
    /\ UNCHANGED <<raftVars, clerkVars, results, crashes>>

\* StartServer() after a crash.
StartServer(s) ==
    /\ CrashService(s)
    /\ configs' = [configs EXCEPT ![s] = <<Config0>>]
    /\ lastApplied' = [lastApplied EXCEPT ![s] = [c \in Client |-> 0]]
    /\ applied' = [applied EXCEPT ![s] = 0]

-----------------------------------------------------------------------------
Init ==
    /\ InitService
    /\ configs = [s \in Server |-> <<Config0>>]
    /\ lastApplied = [s \in Server |-> [c \in Client |-> 0]]
    /\ applied = [s \in Server |-> 0]

\* Clerk.Join, Leave, Move and Query.
Submit(c, op) ==
    /\ Request(c, op, NoOp)
    /\ UNCHANGED smVars

\* RPC handlers Join, Leave, Move and Query.
Serve(c, s) ==
    /\ Start(c, s)
    /\ UNCHANGED smVars

HandlerStep(h) ==
    /\ Register(h) \/ Applied(h, isSameOp(h.op, h.ch)) \/ TimedOut(h)
    /\ UNCHANGED smVars

Agree == Commit /\ UNCHANGED smVars

Next ==
    \/ \E c \in Client : \/ \E op \in Ops : Submit(c, op)
                         \/ \E s \in Server : Serve(c, s)
    \/ \E h \in handlers : HandlerStep(h)
    \/ Agree
    \/ \E s \in Server : ApplyEntry(s) \/ StartServer(s)

Spec == Init /\ [][Next]_vars

-----------------------------------------------------------------------------
(* What the service promises. *)

\* The configurations that a sequence of Joins, Leaves and Moves makes: a
\* reference that knows no server.
ConfigsAfter(changes) ==
    LET upTo[k \in 0..Len(changes)] ==
            IF k = 0 THEN <<Config0>>
            ELSE Append(upTo[k - 1], NewConfig(Latest(upTo[k - 1]), changes[k]))
    IN  upTo[Len(changes)]

\* Servers that have taken the same prefix of the log have the same history of
\* configurations, with one configuration for every operation however often it
\* was retried, committed or replayed (ApplyRoutine and isDuplicateOp).
ConfigsAreLog ==
    \A s \in Server : configs[s] = ConfigsAfter(Effective(applied[s], "Query"))

\* The replicated shardmaster is one atomic sequence of configurations to its
\* clerks: every Join, Leave and Move takes effect once, while its clerk waits,
\* and a Query returns the configuration asked for, or the latest, as of a moment
\* while its clerk waited (waitAppliedOrTimeout, isDuplicateOp, handleQuery).
IsQuery(op) == op.type = "Query"
ConfigFor(changes, op) ==
    LET cfgs == ConfigsAfter(changes) IN
    IF op.num \in 0..(Len(cfgs) - 1) THEN cfgs[op.num + 1] ELSE Latest(cfgs)

Configs == INSTANCE AtomicService WITH
    IsRead <- IsQuery, Answer <- ConfigFor,
    done <- Effective(Len(log), "Query"),
    pend <- [c \in Client |-> Waiting(c, "Query")],
    reply <- [c \in Client |-> Told(c)]

\* Configs!Spec: the mapping depends on the log and the clerks only.
ImplementsConfigs ==
    Configs!Init /\ [][UNCHANGED <<log, clerkVars>> \/ [Configs!Next]_(Configs!vars)]_vars

\* Every configuration, reachable or not, and every change, with more groups
\* than shards and owners that are no members. The two properties that range over
\* them say nothing of the rest of the state: they are checked where a run starts.
SomeGID == 1..(NShards + 1)
SomeConfig ==
    [num : {1}, shards : [Shard -> SomeGID \cup {0}], groups : SUBSET SomeGID]
SomeChange == [type : {"Join", "Leave"}, gids : SUBSET SomeGID \ {{}}]

\* Whatever Moves came before, also to groups that never joined, a Join or a
\* Leave gives every shard to a member and spreads the shards evenly
\* (Rebalance(); "max %v too much larger than min %v",
\* shardmaster/test_test.go:51), in a way that moves as few shards as any other
\* with the same number for every group.
RebalanceBalances == Init =>
    \A old \in SomeConfig : \A op \in SomeChange :
        LET new == NewConfig(old, op) IN
        /\ Balanced(new.shards, new.groups)
        /\ \A other \in [Shard -> new.groups] :
              (\A g \in new.groups :
                  Cardinality(Owned(other, g)) = Cardinality(Owned(new.shards, g)))
                => Moved(old.shards, new.shards) <= Moved(old.shards, other)

\* From a configuration that Rebalance() would leave alone, a Join moves shards
\* only to groups that joined, and a Leave only shards of groups that left
\* ("non-minimal transfer after Join()s", "non-minimal transfer after
\* Leave()s", shardmaster/test_test.go:224, 242).
MinimalTransfers == Init =>
    \A old \in {c \in SomeConfig : rebalance(c) = c} : \A op \in SomeChange :
        LET new == NewConfig(old, op) IN
        \A sh \in Shard : new.shards[sh] # old.shards[sh] =>
            IF op.type = "Join" THEN new.shards[sh] \in op.gids \ old.groups
                                ELSE old.shards[sh] \in op.gids
=============================================================================
