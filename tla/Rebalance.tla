----------------------------- MODULE Rebalance -----------------------------
(***************************************************************************)
(* The algorithm of ShardMaster.Rebalance(): which group owns which shard  *)
(* after the set of groups changed.  A configuration is a record of num,   *)
(* shards (shard -> gid, 0 for none) and groups; the server names of a     *)
(* group play no part, so groups is a set of gids.                         *)
(***************************************************************************)
EXTENDS Integers, FiniteSets

CONSTANT NShards   \* the constant of common.go

ASSUME NShardsAssumption == NShards \in Nat \ {0}

Shard == 0..(NShards - 1)

Owned(shards, gid) == {s \in Shard : shards[s] = gid}

\* The place of gid in the sorted gids, from 0.
RankOf(gid, groups) == Cardinality({g \in groups : g < gid})

\* mutant: the remainder goes to nobody
RoundedDown(gid, groups) == NShards \div Cardinality(groups)
\* mutant: one group too many gets a shard of the remainder
OneTooMany(gid, groups) ==
    (NShards \div Cardinality(groups))
        + (IF RankOf(gid, groups) <= NShards % Cardinality(groups) THEN 1 ELSE 0)
\* target(i): the first groups share the remainder.
target(gid, groups) ==
    (NShards \div Cardinality(groups))
        + (IF RankOf(gid, groups) < NShards % Cardinality(groups) THEN 1 ELSE 0)

\* mutant: a group with too many keeps one more than its target
KeepsOneMore(shards, groups) ==
    {s \in Shard :
        \/ shards[s] \notin groups
        \/ Cardinality({t \in Owned(shards, shards[s]) : t < s}) > target(shards[s], groups)}
\* The shards that need an owner: those of no group, and of every group with
\* too many its highest ones.
pool(shards, groups) ==
    {s \in Shard :
        \/ shards[s] \notin groups
        \/ Cardinality({t \in Owned(shards, shards[s]) : t < s}) >= target(shards[s], groups)}

\* One slot per shard that a group lacks, in the order of the gids.
need(shards, groups) ==
    {slot \in groups \X (1..NShards) :
        slot[2] <= target(slot[1], groups) - Cardinality(Owned(shards, slot[1]))}

Before(p, q) == p[1] < q[1] \/ (p[1] = q[1] /\ p[2] < q[2])

\* need[i], or no gid at all where the code would index past the end of need.
Slot(shards, groups, i) ==
    LET slots == need(shards, groups)
        found == {p \in slots : Cardinality({q \in slots : Before(q, p)}) = i}
    IN  IF found = {} THEN -1 ELSE (CHOOSE p \in found : TRUE)[1]

\* mutant: the shards are dealt out anew
FromScratch(shards, groups) ==
    [s \in Shard |->
        IF groups = {} THEN 0
        ELSE CHOOSE g \in groups : RankOf(g, groups) = s % Cardinality(groups)]

\* The Shards of config after Rebalance().
Rebalanced(shards, groups) ==
    IF groups = {} THEN [s \in Shard |-> 0]
    ELSE LET homeless == pool(shards, groups) IN
         [s \in Shard |->
            IF s \in homeless
            THEN Slot(shards, groups, Cardinality({t \in homeless : t < s}))
            ELSE shards[s]]

\* Every shard has a live owner, and no group has two more than another.
Balanced(shards, groups) ==
    IF groups = {} THEN \A s \in Shard : shards[s] = 0
    ELSE /\ \A s \in Shard : shards[s] \in groups
         /\ \A g, h \in groups :
                Cardinality(Owned(shards, g)) <= Cardinality(Owned(shards, h)) + 1

Moved(old, new) == Cardinality({s \in Shard : new[s] # old[s]})
=============================================================================
