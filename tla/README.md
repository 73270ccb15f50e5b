# TLA+ models of the Distributed-Systems-Labs repository

The repository is a set of Go packages that build a replicated key/value store
step by step: a MapReduce scheduler, a simulated RPC network, the Raft consensus
algorithm, a key/value service and a shard configuration service on top of Raft,
and the skeleton of a sharded key/value service. This directory models them in
TLA+, checks small instances with TLC and proves some of the results for every
instance with TLAPS. `PROJECT.json` maps every definition to the source lines it
stands for and lists the runs, mutants, findings, hazards and theorems. Paths
below are relative to `src/src/`.

## 1. Inventory

| component | state | operations | talks to |
|---|---|---|---|
| **Raft peer** `raft/raft.go`, `persister.go` | term, vote, role, log after `lastIncludedIndex`, commit and apply indices, `nextIndex`/`matchIndex`, raftstate and snapshot on disk | election, `RequestVote`, `AppendEntries`, `InstallSnapshot` and their replies, `Start`, `Snapshot`, delivery on `applyCh`, `Make` | peers through labrpc; the service through `Start`, `Snapshot`, `applyCh` |
| **Network** `labrpc/labrpc.go` | ends, their connections, registered servers, calls in progress | `Call`, `ProcessReq`, `Enable`, `Connect`, `AddServer`, `DeleteServer`, `Reliable` | everybody; the tester changes it while calls run |
| **Key/value service** `kvraft` | store, duplicate table, `lastIncludedIndex`, `results` map; a clerk's operation counter | clerk `Get`/`Put`/`Append`, handlers, `waitAppliedOrTimeout`, `ApplyRoutine`, snapshots, restart | Raft; clerks |
| **Shard master** `shardmaster` | list of configurations, duplicate table, `results` map | `Join`, `Leave`, `Move`, `Query`, `Rebalance`, restart | Raft; clerks |
| **MapReduce scheduling** `mapreduce/{schedule,master,worker,...}.go` | registered workers, `registerChan`, task states, `nRPC` and `concurrent` of each worker | registration, `forwardRegistrations`, `schedule`, `DoTask`, `Shutdown`, `killWorkers` | net/rpc |
| **MapReduce data path** `mapreduce/common_{map,reduce}.go`, `master_splitmerge.go` | intermediate, reduce and result files | `doMap`, `doReduce`, `merge`, `Sequential`, `CleanupFiles` | the scheduling, through the tasks; the file system |
| **Testers** `{raft,kvraft,shardmaster,shardkv}/config.go` | endnames, which servers are connected, a Persister per server | shut down, start, connect and disconnect a server, connect a clerk | the network, and the servers' Persisters |
| **Sharded key/value service** `shardkv` | none of its own yet | empty handlers, a `StartServer` that hangs | - |
| **Programs** `main` | - | command lines | MapReduce |

What is hard in each, and what makes it correct:

- *Raft*: calls are lost, delayed and overtake each other; a handler or a goroutine
  goes on with state it read before it released `rf.mu`; peers crash between two
  saves. Correct means one leader per term, matching logs, no two deliveries for one
  index, truthful `matchIndex`, state on disk that a restart can use, no slice out of
  range, and a leader that repairs a diverged follower.
- *Network*: a server is deleted and replaced while its handler runs. Correct means
  that a positive reply comes from a registered server, and that calls return.
- *Services*: a clerk retries what was already committed; handlers wait for an index
  and not for their operation; entries and snapshots come from two goroutines. Correct
  means linearizable replies and operations that are applied once; for the shard
  master also equal histories of configurations, balance, and minimal transfers.
- *MapReduce*: workers fail with a task in hand, in the middle of a file, and are offered
  again. Correct means one task per worker, complete phases, a job that ends, and a result
  that is the one of the sequential job.
- *Testers*: they cannot kill a server, so the old instance runs on beside the new one.
  Correct means that it can neither acknowledge anything nor reach anybody, and that the
  new one is given everything that was acknowledged: without that, the crash that the
  models of the servers make one step would be another one.

`PROJECT.json` lists 40 hazards at their lines, with the properties that guard them.

## 2. Modules

| module | models |
|---|---|
| `Raft` | a group of Raft peers with its network and its disks |
| `ReplicatedLog` | what Raft promises to a service: the specification `Raft` implements |
| `MCRaft`, `MCRaftBackup` | Raft for TLC: symmetry and views; a start from a diverged follower |
| `RaftSafety` | the inductive invariant of replication, on `Raft` |
| `RaftProofs`, `RaftLogProofs`, `RaftSafetyProofs` | theorems about `Raft`: types and elections; logs; replication and commitment |
| `LabRPC` | `Call` and `ProcessReq` against a changing network |
| `Tester`, `MCTester` | the testers' restarts, on `LabRPC` |
| `LabRPCProofs` | theorems about `LabRPC` and `Tester` |
| `AtomicService` | a service as its clerks see it: the specification the two services implement |
| `Service` | what both services share: clerk, handlers, `results`, crash, Raft as a log that grows |
| `ServiceProofs` | the lemmas about `Service` that the theorems of both services use |
| `RaftKV`, `MCRaftKV`, `RaftKVProofs` | the key/value service, on `Service`; theorems |
| `Rebalance` | the rebalancing algorithm as a function |
| `ShardMaster`, `MCShardMaster`, `ShardMasterProofs` | the shard master, on `Service` and `Rebalance`; theorems |
| `MapReduce` | the distributed scheduler and its workers |
| `MapReduceFiles`, `MCMapReduce` | the same job with its files, on `MapReduce` |
| `MapReduceProofs` | theorems about both |

### Raft

One action is one critical section of `rf.mu`, or the part of a handler between two of
them. Time is left out: an election deadline may pass whenever the peer does not lead.
A vote request waits in `voteCalls`, an AppendEntries or InstallSnapshot call in the
link `calls[i][j]`; the handler's step turns it into a reply or loses it. `voteCalls`
is a set because votes have no order to keep; a link is a sequence so that the order
of requests can be kept when a run asks for it. `Kept` chooses the requests of a loop
over the peers that the network does not lose. A reply nobody will look at is dropped
at once (`Answer`, `AnswerVote`): a caller that has left the term of its call never
leads that term again.

Four constants choose how hostile the environment is, so that each run answers one
question: `InOrder` (no request overtakes an older one on its link), `Preemptible`
(ticker() may be descheduled between its two locks), `Snapshots` (the service compacts)
and `TornSaves` (crashes inside Start, Snapshot and InstallSnapshot, between a send and
a save or between two saves). With all of them at their weakest the model is the code
as it stands. The theorems about types, disk, votes, elections and `LogMatching` hold for
every combination; the others have the hypotheses that section 5 names.

Where the code would panic on a slice, the guard names the condition (`InSlice`,
`MayCompact`, `BackgroundApplyRoutine`), so the model leaves the panic out. `NoSlicePanic`
says that the guard is never what stops the step; it is checked and proved for peers
that do not compact and a ticker that is not preempted. With compaction it is false, and
the guard of `MayCompact` hides a panic the code really has: after InstallSnapshot has emptied a
longer log (finding 4), `lastApplied` may lie beyond the log, and Snapshot() indexes
`rf.log` out of range at raft.go:259. History variables (`votes`, `voters`, `elected`, `applied`)
are read by no action.

`ReplicatedLog` is what a service may rely on: a set of decided entries that only grows, one
for each index and without gaps, and a position in it for every replica. A replica is given
the next entry, which is decided then if nobody had it before; it goes back; or it skips
entries that are decided. The mapping is `decided <- applied`, `position <- lastApplied`:
`BackgroundApplyRoutine` is `Deliver`, `Make` and the clamp of `AppendEntries` are `Rewind`,
`InstallSnapshot` is `Skip`, and every other action stutters. `LogSteps`, the step formula
under this mapping, says more than `StateMachineSafety`: an entry is never delivered before
its predecessor, and after going back a peer is given what it was given before. It is
not claimed of peers that compact, because of finding 4.

### LabRPC and Tester

`Call` hands the request to `ProcessReq`, whose steps are actions: the settings are
read once, the request may be dropped, the handler runs in a goroutine, the 100 ms poll
looks whether the server is dead, and the reply is decided after a second look. A
server is a name with numbered instances, so that a replaced one is a different one.

`Tester` composes it with the operations of `config.go`. An operation is a list of steps
(`Shutdown`, `StartServer`), each under a lock of its own and each at most one step of the
network, so that calls go on between any two of them. connect and disconnect are about one
server and a list of others: raft's tester takes those that are connected, the services'
testers take the list they are given, and the model takes any list, which covers `partition` too.
What it does assume is that connect is called only when all the servers concerned are up
(`BeginConnect`). The functions do not check this, and connecting a server that was shut down
would enable the ends of its old instance; every caller in the tests respects it. An end is `<<m, k, n>>`, the one that
instance `k` of `m` uses for `n`; instances that were shut down go on calling and serving. A
Persister is the set of calls whose effect it holds; a handler saves into the one its instance
was made with, which counts while the tester still has it (`owner`). `raft`'s `start1` first
calls `crash1`, which for a server that is down changes nothing; for one that is up it is the
operation `Shutdown` followed by `StartServer`.

### Service, RaftKV, ShardMaster

Raft is reduced here to what the services rely on: `log`, what was committed, only grows,
`proposed` is what some leader has in its log, and `Start` promises nothing about the index
it returns, not even that the service has not been given that index before. A log that only
grows is what findings 1, 3 and 4 break, so the results about the services are
conditional on a correct Raft; finding 2 is about the way from Raft to the service
and is in the model. A handler first registers its channel, in a critical section after `Start`;
then either what `ApplyRoutine` sent or the timeout ends it. Which server a clerk tries
is left open. In `RaftKV` the value of a key is the sequence of the operations that made
it, so that a lost, repeated or reordered operation shows. `Deliver`, `InstallSnapshot`
and `Send` are Raft's side of `applyCh`: a goroutine decides what to send under `rf.mu`
(`unsent`) and sends after it released it, when another one may have been first. The history
variable `overtaken` records that an entry came before the snapshot it follows; what
`StoreIsLog` and `LinearizableInOrder` say holds until then, `AppliedOnce` always.

`AtomicService` is the service as one object: an operation is pending at one clerk, takes
effect once while it is pending, and a read answers with the state of some moment since it
was submitted. `done` is mapped to the first occurrences in the committed log (`Effective`),
so that `Commit` of a first occurrence is `Take` and that of a duplicate stutters; `pend` and
`reply` are the clerks. The answer of a read is a parameter: the value of a key for `RaftKV`
(`ImplementsStore`), the configuration asked for in `ShardMaster` (`ImplementsConfigs`). Both
properties are `Init` and the step formula of the instance, written so that a step that
changes neither log nor clerks is seen to stutter at once.

`Rebalance` states the algorithm by counting: `target`, `pool` and `need` are the
closure and the two slices of the code, and `Slot` is `need[i]`. A configuration's
server names are left out since no decision depends on them.

### MapReduce

In `MapReduce` running a task is one step. `sending` holds the goroutines that are
about to block in `registerChan <- worker`, `registerChan` those that are blocked, in
the order in which Go serves them. A worker closes after `nRPC` calls or dies at any
moment. `killWorkers` holds the mutex, so that nobody registers while it runs.

`MapReduceFiles` gives each of these steps its effect on the files. `doMap` creates its files
one by one and then writes its pairs, one `Encode` a write; a worker that dies leaves any
prefix of that. The files may hold what an earlier job left. An intermediate file is the bag of
its pairs, since `doReduce` sorts what it reads; a result file, which has one record per key, is
a function from keys to values. The value of a key is the bag of values that `reduceF` was
given, so that a pair that is lost or counted twice shows. `doReduce` writes its records in the
order of the keys, and a prefix of them is what a worker that dies leaves. A worker
whose process dies takes its task with it, so the files of a task have one writer at a time;
`merge` and `CleanupFiles` follow when the job is done, and `fatal` is their `log.Fatal`.

## 3. Runs

Twelve runs. Those of `Raft` (except `raft_backup`), `RaftKV` and `ShardMaster` use symmetry;
no run with a liveness property does. The views of `MCRaft` leave out the history that the
run does not check, and what a peer keeps from an office it has left: `nextIndex`,
`matchIndex` and `votesReceived` are set before they are read again.

| run | question | result |
|---|---|---|
| `raft_durable` | types, disk, votes, one winner per term and compaction, with crashes between and inside the handlers; no view | holds |
| `raft_inorder` | safety of replication and acknowledgements that are kept, on ordered links with an undisturbed ticker, no compaction | holds |
| `raft_log` | log matching with late calls, preempted ticker, crash inside `Start` | holds |
| `raft_backup` | with overtaking calls, a leader repairs a diverged follower that has restarted, every refusal backs up, logs match, and deliveries are steps of `ReplicatedLog` | holds |
| `raft_reordered` | `raft_inorder` without the order of requests | violated |
| `raft_deposed` | `raft_inorder` with a ticker that is preempted between its locks | violated |
| `kv_retries` | two clerks, handlers that share an index, retried and duplicated operations; the service implements `AtomicService` | holds |
| `kv_snapshots` | compaction, installed snapshots, a restart, sends that overtake each other | holds |
| `kv_lost_snapshot` | linearizability when an entry overtakes a snapshot | violated |
| `sm_configs` | equal histories and `AtomicService`, with retries at two servers and a restart; balance and minimal transfers over all configurations | holds |
| `mr_job` | one task per worker, complete phases, the right result, no missing file, the job ends | holds |
| `tester_restart` | restarts by the tester lose nothing acknowledged and silence the old instance; positive replies and returning calls | holds |

**Bounds.** Three peers are the smallest group in which a majority can miss a peer, and
two terms the smallest number with a deposed leader; a second leader can meet everything
that a first one left behind (an uncounted vote, an entry on a minority, a late call).
`MaxCalls` 1 still loses and delays a call and leaves one over from a lost office;
overtaking needs 2. Elections and the disk are checked with one call in flight and proved
for any number. `MaxLog` 2 gives a log with a suffix to cut. Every property has a mutant
that breaks it within these bounds, and the three violations are found within them.
`raft_backup` starts in the middle (a third term would be out of reach from the start):
`InitDiverged` is the state after two elections in which one entry each was left over and
the diverged follower was restarted. It has logs of up to four entries and two calls in flight,
so calls overtake each other and the follower's service is given entries again; there
`LogMatching` and `LogSteps` have room to fail.
For the services two servers and two clerks give handlers that compete for one index;
three entries give a snapshot with entries before and behind it. `ChanSize` is 2048 in the
code; a channel of 1 already holds a message while others wait to be sent. `sm_configs` has
one handler at a time, which still meets an operation that is not its own at its index (the
one of a handler that timed out); two at a time are in `kv_retries`. `RebalanceBalances` and
`MinimalTransfers` range over every configuration and every change instead of the reachable
ones: three shards over up to four groups give an average of 0 (with remainder 3), 1
(remainders 0 and 1) and 3, and owners that are no members. They say nothing of the
rest of the state, so they are evaluated once, where a run starts.
Two map and two reduce tasks with three workers, of which one closes after a call and one
may die, give a phase that ends with workers left in the channel; the input (`MCMapReduce`)
has a key in both files, a key twice in one, and a partition that a file has nothing for.
In `tester_restart` one call is enough because the stages of a call touch nothing of another;
two servers, each started twice, give it old and new instances at both ends.
Larger bounds leave TLC's reach.

**Fairness.** Only the liveness properties use it.
`MCRaftBackup`: the leader keeps sending heartbeats (its ticker loops for ever), of the calls
on a link some call goes on (weak fairness; labrpc.go:37 says that calls return), and
a link does not lose every request or every reply (strong fairness; labrpc drops with a
fixed probability).
`MapReduce`: each goroutine runs on, blocked senders are served first come first served
(Go's channels), a call that can make a step makes one, and the reliable workers are
started; nothing is assumed of workers that fail.
`LabRPC` and `Tester`: the goroutine of `ProcessReq` runs on; nothing is assumed of handlers,
nor of the tester.
Deadlock is not checked: the bounds, or the end of a job, stop every run on purpose.

## 4. Findings

1. `raft.go:415` (`raft_reordered`): AppendEntries cuts the log after `PrevLogIndex` even
   if what it holds there matches, so a call that was overtaken removes entries that the
   leader has counted, and two peers may deliver different entries for one index.
2. `raft.go:172` (`kv_lost_snapshot`): the snapshot is sent on `applyCh` after `rf.mu` was
   released; an entry may overtake it, `ApplyRoutine` then ignores it, and acknowledged
   Appends are missing at that server.

3. `raft.go:738` (`raft_deposed`): ticker() does not look at `serverState` again after it
   released `rf.mu`, so a deposed leader sends its log in a term it does not lead; the leader
   of that term steps down and takes it, and two peers may deliver different entries.

`PROJECT.json` quotes the comment or test each one disagrees with. These others come up when
the constants of a run are changed and the property named is checked alone, and are why the passing runs have the modes they have:

4. `raft.go:167`: InstallSnapshot empties a log that is longer than the snapshot.
   `MCRaft_inorder.cfg` without the view, with `Snapshots = TRUE`, `MaxLog = 2` and
   `MaxTerm = 1`: `MatchIndexReplicated` is violated (the reply of an AppendEntries is under
   way when the snapshot arrives), and so is `NoSlicePanic`, with `lastApplied` beyond the log;
   with `MaxTerm = 2` and `MaxCalls = 1` so is `StateMachineSafety`.
5. `raft.go:385`: the refusal for an index that the follower has compacted carries no hint and
   sends `nextIndex` to 1; a leader that has compacted less never repairs the follower.
   `MCRaft_backup.cfg` with `Compacted = 2`: `Repaired` is violated.
6. `raft.go:169`: InstallSnapshot saves the compacted raftstate before the snapshot it depends
   on. `CrashInInstall` is that crash; after it `persisted` has compacted more than `snapshot`.
7. `mapreduce/worker.go:69`: Shutdown sets `nRPC` to 1 and the worker blocks in Accept, so
   `loop` stays at "accept" when `phase` is "done", although master.go:153 speaks of workers
   that "have been shut down".
8. `shardkv/server.go:97`: StartServer() never returns, although the comment above it says that
   it "must return quickly": Make() sends a snapshot on `applyCh` (raft.go:858) that nobody reads.

## 5. Proofs

Each theorem holds for every value of the constants that satisfies the assumptions beside
them: `Server` is finite and does not contain `NoVote`, modes are Boolean and bounds
natural numbers; `None` is no server name; `NoOp`, which stands for "no operation", is no
operation of a clerk; `Reliable` workers are workers and there is at least one task of each
kind; the input of a map task is a finite sequence of keys that have a hash, and a file that was
written is not `Absent`. TLC evaluates these assumptions on every run. Where a theorem has a
hypothesis besides, it is named below.

### Raft

- **`RaftProofs!TypeCorrect`, `CompactedWasApplied`**: `TypeOK` and `CompactedApplied`. The two
  are one induction: `lastIncludedIndex <= lastApplied` is what keeps the offsets natural
  numbers, and it needs the types in turn. Lemmas give the type of each helper (`Answer`,
  `AppendArgs`, `Make`, ...), then one lemma for each group of actions.
- **`RaftProofs!DiskCurrent`**: whenever `rf.mu` is free, the raftstate on disk equals
  the peer's fields. Inductive as it stands, given the types; it is what lets a restart keep
  a vote.
- **`RaftProofs!ElectionInvariant`, `OneLeaderPerTerm`**: `ElectionSafety` is not
  inductive, because it says nothing of votes. `ElectionInv` adds what is: a vote is on
  record until the voter leaves the term (`VotesRecorded`), nobody votes twice in a term
  (`VotesFunctional`), a granted reply is backed by a vote (`CallsRecorded`), a candidate has
  one call per voter and counts it once (`OneCallPerVoter`, `CountedOnce`), so that
  `votesReceived` is the size of a set of voters, and a winner had a majority of them
  (`ElectedByMajority`). Two majorities of a finite set share a peer (`MajoritiesDecide`).
  Most actions leave votes alone and are covered by one lemma (`QuietStep`).
- **`RaftProofs!VotesAreKept`**: the action property `VoteKept`, restarts included,
  from `PersistedCurrent`.
- **`RaftLogProofs!LogsMatch`**: `LogMatching`, with crashes, snapshots, any order of delivery
  and ticker() descheduled between its locks. A log, the entries of a request on the wire, a
  disk and what a torn save left are all *pieces*: stretches of entries with the index and
  the term before them. The invariant says that any two pieces that agree on the term at an
  index agree below it (`PiecesAgree`), that the term of every entry was won by some peer
  (`TermsElected`), that a peer was elected once in a term (`ElectedOnce`), and that the
  leader of a term has every entry of that term (`LeaderAhead`), which is why an entry
  that `Start` appends is new everywhere. Cutting and joining pieces are two lemmas
  (`CutFrom`, `JoinOf`), and every action is one of the two.
- **`RaftLogProofs!RefusalsBackUp`**: `RefusalBacksUp`, from every reachable state and in any order
  of delivery, with the hypothesis `Snapshots = FALSE`: once a log is compacted, a refusal may carry
  no hint and slice positions are no longer log indices, and the property is false.
  The follower hints at the first index of the term it has at `prevLogIndex`, the leader looks
  for the last entry of that term in its own log, and that this lies at or below
  `prevLogIndex` is a fact about two logs. It rests on `BackupInv`: the entries of a term
  stand together in every piece, from the same index on (`TermRuns`); a leader has nothing behind
  the entries of its own term (`LeaderRuns`); a request fits the log it was cut from, and a
  hint on its way points at or below the refused index, while the leader that would act on it has
  nothing of the hinted term beyond (`CallsFit`); nothing is compacted or installed (`Plain`).
  A call outlives the term it was made in, and then nothing is said of it: the reply is ignored.

- **`RaftSafetyProofs!SafetyInvariant`**: `SafetyInv`, in the modes of `raft_inorder`
  (`InOrderOnly`: links keep the order of requests, ticker() is not preempted, nothing is
  compacted), which the theorem and those below assume, because each of the other modes
  breaks `StateMachineSafety` (section 4). Peers, terms, entries, calls and crashes are
  unbounded, a crash inside Start() included; the run has three peers and no crash.
  The invariant has two halves, in `RaftSafety`.
  `ReplicationInv` is about a leader and the peers of its term: what it has sent is a part of
  its log (`SentIsPart`), of two requests on a link the later reaches as far (`SentInOrder`), what
  it was told that a peer has, that peer keeps while it stays in the term, and no request on
  its way takes it back (`AckedKept`), and hints keep `nextIndex` in the log (`NextInRange`).
  This is where the order of requests is used: without it `AckedKept` is false.
  `CommitmentInv` is about terms to come. An entry of term T is `Protected` by a set of peers
  when every log, request and leader that comes after it has it, and those peers keep it and
  vote only for candidates that have it. An entry that its leader could still come to commit
  is protected by the peers that acknowledged it (`Pending`); once they are a majority it is
  `Locked`, and every step keeps it so (`ProtectedStep`): a candidate that wins needs a vote of
  one of them. `commitIndex`, a request's `leaderCommit` and what was delivered rest on locked
  entries (`CommitSafe`, `SentSafe`, `AppliedSafe`).
  TLC finds no violation of the whole of `SafetyInv` in `raft_inorder` either, when the view
  keeps `votes` and `elected`; the run checks `AckedKept`, which needs neither.
- **`RaftSafetyProofs!AcknowledgedIsKept`**: `AckedKept`, a part of the invariant.
- **`RaftSafetyProofs!NoTwoEntriesForOneIndex`, `LeadersAreComplete`, `MatchIndexIsTrue`, `NoPanic`**:
  `StateMachineSafety`, `LeaderCompleteness`, `MatchIndexReplicated` and `NoSlicePanic`, which
  follow from it: two delivered entries are locked by majorities that share a peer, and that
  peer has one log.
- **`RaftSafetyProofs!RaftImplementsLog`**: the refinement of `ReplicatedLog`: its `Init` and
  `LogSteps`, which together are its `Spec`. Each step leaves the
  services alone, goes back to an earlier index, or delivers the next entry (`Supplies`);
  `StateMachineSafety` makes the entry the decided one, and `NoGaps` makes it the next.

### The services

- **`RaftKVProofs!OperationsAppliedOnce`**: `AppliedOnce`, with snapshots and restarts.
- **`RaftKVProofs!StoreFollowsLog`, `AnswersAreLinearizable`, `AtomicUntilOvertaken`**: `StoreIsLog`
  and `LinearizableInOrder`: until an entry overtakes the snapshot before it, a server's store
  and its table of duplicates are what the log up to `applied` makes of them, and an answer
  is the value at some moment of the call.
- **`RaftKVProofs!ImplementsAtomicStore`**, **`ShardMasterProofs!ImplementsAtomicConfigs`**: the two
  refinements of `AtomicService`, for `RaftKV` without snapshots. Of the key/value service
  with snapshots the refinement holds only until an entry is overtaken.
- **`ShardMasterProofs!ServersFollowLog`**: `ConfigsAreLog`: every server's list of
  configurations is the one its part of the log makes.
- **`ShardMasterProofs!RebalanceMeetsTargets`, `RebalanceIsRight`**: whatever the owners were, after
  `Rebalance` every group has its target and nobody else has anything; so `RebalanceBalances`, for
  every finite set of groups and every number of shards. The proof counts. The places of `need`
  are the pairs of a group and a rank below its deficit, laid end to end; the places of `pool`
  are the shards to be moved, in order. Both are as many as there are shards missing, because
  the targets add up to `NShards` (`target` gives one more to the groups whose rank is below
  the remainder, and ranks are a bijection). So `need[i]` is defined for each place of the pool, and
  a group receives exactly its deficit. Sums over groups are cardinalities of unions of
  disjoint sets, which need no induction on a recursive sum.
- **`ShardMasterProofs!RebalanceMovesFewest`, `TransfersAreMinimal`**: no assignment with the
  same targets moves fewer shards, and `MinimalTransfers`: a Join moves shards to the new groups
  only and a Leave only those of the groups that left. The second needs the configuration to have
  been balanced, and that no target grows in a Join nor shrinks in a Leave.
- **`ShardMasterProofs!ServedConfigsBalanced`**: the two together with `ServersFollowLog`: every
  configuration that a Join or Leave made on any server is balanced, at any time. Its
  hypothesis is that `GID` is finite.

The invariant has the same parts for both services and its lemmas are in `ServiceProofs`: an
operation has one name (clerk and number) wherever it is found, in `proposed`, in the log, in
a handler or in a channel; a clerk's operations are committed in turn, so that one number per
clerk is enough to recognise a duplicate; what is in a channel is the result of the operation
at that index; the table holds, per clerk, the last operation applied; what Raft has yet to
send follows what was applied, without a gap. What a log makes of a store is a recursive
function of its length; facts about it are proved with the least-number principle (`LeastNat`,
`SetInduction`), which needs no operator as a parameter.

### labrpc and the testers

- **`LabRPCProofs!PositiveRepliesCount`**: `OkMeansExecuted`. The second look at the servers
  only helps if a deleted instance never comes back: instances are numbered upward
  (`Numbered`), so an instance that is registered at the second look was registered when
  its handler returned (`StillAlive`).
- **`LabRPCProofs!TesterInvariant`, `AcknowledgedIsSaved`, `OldInstancesSilent`**: `AckedSaved` and
  `OldSilent` of `Tester`. The invariant says at each step of an operation which instance has
  the Persister, which ends are enabled, and that an instance that no longer has the
  Persister is no longer registered when the next one is made; `Shutdown`'s order (disable
  the ends, delete the server, take the Persister) is what the induction uses.

### MapReduce

- **`MapReduceProofs!OneTaskEach`, `PhasesAreComplete`**: a worker's name is a token.
  `RegisteredOnce` makes it unique, `OnePlace` and `OneCall` say that it is in one place only
  (about to be sent, in the channel, or in one call), which each of the scheduler's steps
  moves and none copies; `Counted` ties `concurrent` to the call. `Calling` and `Ran` tie the
  state of a task to the call that has it and to what was run. PhaseDone may start
  afresh with the names because no call is left.
- **`MapReduceProofs!JobKeepsSchedule`**: both hold of the job with its files: each step of
  `JobSpec` is a step of `MapReduce` or changes files only.
- **`MapReduceProofs!JobInvariant`, `ResultIsRight`, `FilesAreThere`**: `ResultRight` and
  `NoFileMissing`. `JobInv` says that a task that has ended has left its files complete, while
  one that has not may have left anything; that reduce tasks read only when all map tasks have
  ended (`PhasesComplete`); and that nobody writes a file of a task that has ended, which
  follows from the invariant of the scheduling: a task whose call has not returned has not
  ended, and there is one such call. That a complete job has the result of `Sequential` is
  then an equation about files (`SequentialIsReference`): a pair is in one file of one map task,
  a key in one partition, so `doReduce` reads every pair once and `merge` overwrites nothing.

### Only model-checked

- `LogSteps` where requests overtake each other (`raft_backup`, with one leader in office): the
  theorem is for links that keep their order, because with a second leader it fails (finding 1).
- All liveness properties: fairness and ENABLED are out of the prover's reach.

## 6. Not modelled

- `shardkv`: its handlers are empty in this repository and its StartServer() never returns, so
  no shardkv server is ever registered; there is no behaviour beyond that hang.
- Election timing: deadlines are a nondeterministic choice, so nothing is said of how soon
  a leader is elected.
- Of the testers: `DisconnectClient`, which disables ends of a clerk, `LongDelays` and `LongReordering` (delays are arbitrary in the models), and
  their checks, which are what the properties of `Raft` and `RaftKV` state. `crash1` of raft's
  tester keeps the raftstate and drops the snapshot; its tests take none.
- Encoding (gob, JSON), logging, statistics, `GetCount`, and the programs in `main`, whose map
  and reduce functions are empty.
- Several goroutines that share one Clerk; the tests give each its own.

## 7. Plan

The modules, runs and theorems above are the whole of the plan; every invariant and
every action property that a passing run checks is also a theorem, under the hypotheses section 5
names. Left over is what section 5 lists as only model-checked.
