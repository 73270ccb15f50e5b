---------------------------- MODULE RaftKVProofs ----------------------------
(***************************************************************************)
(* The key/value service applies every operation once, its servers follow  *)
(* the log while no entry overtakes a snapshot, and without snapshots it   *)
(* is one atomic store to its clerks, for every number of servers, clerks, *)
(* keys and operations.                                                    *)
(***************************************************************************)
EXTENDS RaftKV, ServiceProofs

-----------------------------------------------------------------------------
(* What a sequence of writes makes of a key. *)

\* One write more.
Written(v, op, key) ==
    IF op.key # key THEN v
    ELSE IF op.type = "Put" THEN <<op.value>> ELSE Append(v, op.value)

\* ValueAfter the first n writes of s.
ValueOf(s, n, key) ==
    LET upto[k \in 0..n] ==
            IF k = 0 THEN <<>>
            ELSE IF s[k].key # key THEN upto[k - 1]
            ELSE IF s[k].type = "Put" THEN <<s[k].value>>
            ELSE Append(upto[k - 1], s[k].value)
    IN  upto[n]

IsValues(g, s, n, key) ==
    g = [k \in 0..n |-> IF k = 0 THEN <<>> ELSE Written(g[k - 1], s[k], key)]

\* The equations of a table of a key's values after each prefix of the log.
LEMMA ValuesAt ==
  ASSUME NEW s, NEW key, NEW n \in Nat, NEW g, IsValues(g, s, n, key)
  PROVE  /\ g[0] = <<>>
         /\ \A k \in 1..n : g[k] = Written(g[k - 1], s[k], key)
<1> DEFINE Body(k) == IF k = 0 THEN <<>> ELSE Written(g[k - 1], s[k], key)
<1>1. g = [k \in 0..n |-> Body(k)]
  BY DEF IsValues
<1>2. \A k \in 0..n : g[k] = Body(k)
  <2> HIDE DEF Body
  <2> QED BY <1>1
<1> QED BY <1>2

\* Two such tables agree as far as both go (induction on the prefix).
LEMMA ValuesUnique ==
  ASSUME NEW s, NEW key, NEW n \in Nat, NEW m \in Nat, NEW g, NEW h,
         IsValues(g, s, n, key), IsValues(h, s, m, key)
  PROVE  \A k \in Nat : k <= n /\ k <= m => g[k] = h[k]
<1>g. g[0] = <<>> /\ \A j \in 1..n : g[j] = Written(g[j - 1], s[j], key)
  BY ValuesAt, ZenonT(60)
<1>h. h[0] = <<>> /\ \A j \in 1..m : h[j] = Written(h[j - 1], s[j], key)
  BY ValuesAt, ZenonT(60)
<1> DEFINE T == {k \in Nat : k <= n /\ k <= m => g[k] = h[k]}
<1>1. 0 \in T
  BY <1>g, <1>h
<1>2. ASSUME NEW k \in Nat, k \in T PROVE k + 1 \in T
  <2>1. SUFFICES ASSUME k + 1 <= n, k + 1 <= m PROVE g[k + 1] = h[k + 1]
    OBVIOUS
  <2>2. g[k] = h[k]
    BY <1>2, <2>1
  <2>3. k + 1 \in 1..n /\ k + 1 \in 1..m /\ (k + 1) - 1 = k
    BY <2>1
  <2>4. g[k + 1] = Written(g[(k + 1) - 1], s[k + 1], key)
    BY <2>3, <1>g
  <2>5. h[k + 1] = Written(h[(k + 1) - 1], s[k + 1], key)
    BY <2>3, <1>h
  <2> QED BY <2>2, <2>3, <2>4, <2>5
<1>3. \A k \in Nat : k \in T
  <2> HIDE DEF T
  <2> QED BY <1>1, <1>2, SetInduction
<1> QED BY <1>3

\* There is such a table for every prefix, which is what a recursive definition needs.
LEMMA ValuesExists ==
  ASSUME NEW s, NEW key
  PROVE  \A n \in Nat : \E g : IsValues(g, s, n, key)
<1> DEFINE T == {n \in Nat : \E g : IsValues(g, s, n, key)}
<1>1. 0 \in T
  <2>1. IsValues([k \in 0..0 |-> <<>>], s, 0, key)
    BY DEF IsValues
  <2> QED BY <2>1
<1>2. ASSUME NEW n \in Nat, n \in T PROVE n + 1 \in T
  <2>1. PICK g : IsValues(g, s, n, key)
    BY <1>2
  <2> DEFINE h == [k \in 0..(n + 1) |->
                     IF k = 0 THEN <<>> ELSE Written(g[k - 1], s[k], key)]
  <2>2. \A k \in 0..n : h[k] = g[k]
    <3>1. \A k \in 1..n : g[k] = Written(g[k - 1], s[k], key)
      BY <2>1, ValuesAt
    <3>2. g[0] = <<>>
      BY <2>1, ValuesAt
    <3>3. h[0] = <<>>
      <4>1. 0 \in 0..(n + 1)
        OBVIOUS
      <4> QED BY <4>1
    <3>4. \A k \in 1..n : h[k] = Written(g[k - 1], s[k], key)
      OBVIOUS
    <3> HIDE DEF h
    <3>5. \A k \in 1..n : h[k] = g[k]
      BY <3>1, <3>4
    <3>6. \A k \in 0..n : k = 0 \/ k \in 1..n
      OBVIOUS
    <3> QED BY <3>2, <3>3, <3>5, <3>6
  <2>3. \A k \in 0..(n + 1) : k # 0 => k - 1 \in 0..n
    OBVIOUS
  <2>4. h = [k \in 0..(n + 1) |-> IF k = 0 THEN <<>> ELSE Written(h[k - 1], s[k], key)]
    <3>1. \A k \in 0..(n + 1) : k # 0 => h[k - 1] = g[k - 1]
      BY <2>2, <2>3
    <3> QED BY <3>1
  <2>5. IsValues(h, s, n + 1, key)
    BY <2>4 DEF IsValues
  <2> QED BY <2>5
<1>3. \A n \in Nat : n \in T
  <2> HIDE DEF T
  <2> QED BY <1>1, <1>2, SetInduction
<1> QED BY <1>3

\* ValueOf is the last entry of such a table.
LEMMA ValueOfAt ==
  ASSUME NEW s, NEW key, NEW n \in Nat
  PROVE  \E g : IsValues(g, s, n, key) /\ ValueOf(s, n, key) = g[n]
<1> DEFINE G == CHOOSE g : IsValues(g, s, n, key)
<1>1. ValueOf(s, n, key) = G[n]
  BY DEF ValueOf, IsValues, Written
<1>2. IsValues(G, s, n, key)
  BY ValuesExists
<1> QED BY <1>1, <1>2

\* The recursion of ValueOf, one entry at a time.
LEMMA ValueOfSteps ==
  ASSUME NEW s, NEW key
  PROVE  /\ ValueOf(s, 0, key) = <<>>
         /\ \A n \in Nat : ValueOf(s, n + 1, key)
                             = Written(ValueOf(s, n, key), s[n + 1], key)
<1>1. ValueOf(s, 0, key) = <<>>
  <2>1. PICK g : IsValues(g, s, 0, key) /\ ValueOf(s, 0, key) = g[0]
    BY ValueOfAt
  <2>2. g[0] = <<>>
    BY <2>1, ValuesAt
  <2> QED BY <2>1, <2>2
<1>2. ASSUME NEW n \in Nat
      PROVE  ValueOf(s, n + 1, key) = Written(ValueOf(s, n, key), s[n + 1], key)
  <2>1. PICK g : IsValues(g, s, n, key) /\ ValueOf(s, n, key) = g[n]
    BY ValueOfAt
  <2>2. PICK h : IsValues(h, s, n + 1, key) /\ ValueOf(s, n + 1, key) = h[n + 1]
    BY ValueOfAt
  <2>3. g[n] = h[n]
    BY <2>1, <2>2, ValuesUnique
  <2>4. n + 1 \in Nat /\ n + 1 \in 1..(n + 1) /\ (n + 1) - 1 = n
    OBVIOUS
  <2>5. h[n + 1] = Written(h[(n + 1) - 1], s[n + 1], key)
    <3>1. PICK m \in Nat : m = n + 1
      BY <2>4
    <3>2. IsValues(h, s, m, key)
      BY <2>2, <3>1
    <3>3. \A k \in 1..m : h[k] = Written(h[k - 1], s[k], key)
      BY <3>2, ValuesAt, ZenonT(60)
    <3>4. m \in 1..m
      BY <2>4, <3>1
    <3>5. h[m] = Written(h[m - 1], s[m], key)
      BY <3>3, <3>4
    <3> QED BY <3>1, <3>5
  <2> QED BY <2>1, <2>2, <2>3, <2>4, <2>5
<1> QED BY <1>1, <1>2

\* It depends on the first n entries only.
LEMMA ValueOfSame ==
  ASSUME NEW s, NEW t, NEW key, NEW n \in Nat, \A k \in 1..n : s[k] = t[k]
  PROVE  ValueOf(s, n, key) = ValueOf(t, n, key)
<1> DEFINE T == {k \in Nat : k <= n => ValueOf(s, k, key) = ValueOf(t, k, key)}
<1>1. 0 \in T
  <2>1. ValueOf(s, 0, key) = ValueOf(t, 0, key)
    BY ValueOfSteps
  <2> QED BY <2>1
<1>2. ASSUME NEW k \in Nat, k \in T PROVE k + 1 \in T
  <2>1. SUFFICES ASSUME k + 1 <= n
                 PROVE  ValueOf(s, k + 1, key) = ValueOf(t, k + 1, key)
    OBVIOUS
  <2>2. ValueOf(s, k, key) = ValueOf(t, k, key) /\ s[k + 1] = t[k + 1]
    BY <1>2, <2>1
  <2>3. ValueOf(s, k + 1, key) = Written(ValueOf(s, k, key), s[k + 1], key)
    BY ValueOfSteps
  <2>4. ValueOf(t, k + 1, key) = Written(ValueOf(t, k, key), t[k + 1], key)
    BY ValueOfSteps
  <2> QED BY <2>2, <2>3, <2>4
<1>3. \A k \in Nat : k \in T
  <2> HIDE DEF T
  <2> QED BY <1>1, <1>2, SetInduction
<1> QED BY <1>3

\* The recursion of ValueAfter.
LEMMA ValueAfterSteps ==
  ASSUME NEW key
  PROVE  /\ ValueAfter(<<>>, key) = <<>>
         /\ \A U : \A es \in Seq(U) : \A x \in U :
               ValueAfter(Append(es, x), key) = Written(ValueAfter(es, key), x, key)
<1>1. \A es : ValueAfter(es, key) = ValueOf(es, Len(es), key)
  BY DEF ValueAfter, ValueOf
<1>2. ValueAfter(<<>>, key) = <<>>
  <2>1. Len(<<>>) = 0
    OBVIOUS
  <2> QED BY <1>1, <2>1, ValueOfSteps
<1>3. ASSUME NEW U, NEW es \in Seq(U), NEW x \in U
      PROVE  ValueAfter(Append(es, x), key) = Written(ValueAfter(es, key), x, key)
  <2> DEFINE n == Len(es)
             fs == Append(es, x)
  <2>1. /\ n \in Nat /\ Len(fs) = n + 1 /\ fs[n + 1] = x
        /\ \A k \in 1..n : fs[k] = es[k]
    OBVIOUS
  <2>2. ValueAfter(fs, key) = ValueOf(fs, n + 1, key) /\ ValueAfter(es, key) = ValueOf(es, n, key)
    BY <1>1, <2>1
  <2> HIDE DEF n, fs
  <2>3. ValueOf(fs, n + 1, key) = Written(ValueOf(fs, n, key), fs[n + 1], key)
    BY <2>1, ValueOfSteps
  <2>4. ValueOf(fs, n, key) = ValueOf(es, n, key)
    BY <2>1, ValueOfSame
  <2> QED BY <2>1, <2>2, <2>3, <2>4 DEF fs
<1> QED BY <1>2, <1>3

-----------------------------------------------------------------------------
(* The state of a server, as a snapshot would hold it. *)

Value == Client \X Nat

AppliedTo(d, op, idx) ==
    IF op.type # "GET" /\ d.lastApplied[op.me] < op.reqId
    THEN [store |-> handlePutAppend(d.store, op),
          lastApplied |-> [d.lastApplied EXCEPT ![op.me] = op.reqId],
          lastIncludedIndex |-> idx]
    ELSE d

\* No operation is twice in a value, and the table knows them all.
Once(d) ==
    \A k \in Key :
        /\ IsInjective(d.store[k])
        /\ \A i \in 1..Len(d.store[k]) : d.store[k][i][2] <= d.lastApplied[d.store[k][i][1]]

\* The data is what the first n entries of the log lg mean.
Good(lg, d, n) ==
    /\ n \in Nat /\ n <= Len(lg)
    /\ \A k \in Key : d.store[k] = ValueAfter(EffectiveOf(lg, n, "GET"), k)
    /\ IsTable(d.lastApplied, EffectiveOf(lg, n, "GET"))
    /\ d.lastIncludedIndex <= n
    /\ EffectiveOf(lg, d.lastIncludedIndex, "GET") = EffectiveOf(lg, n, "GET")

\* The fields of a named operation; its value is its name, so that no two are alike.
LEMMA OpFields ==
  ASSUME NEW x \in Op
  PROVE  /\ x.me \in Client /\ x.reqId \in Nat /\ x.reqId > 0 /\ x.key \in Key
         /\ x.value = <<x.me, x.reqId>> /\ x.value \in Value
         /\ {"me", "reqId", "value", "type", "key"} \subseteq DOMAIN x
<1>1. PICK op \in Ops, c \in Client, n \in 1..MaxId : x = Named(op, c, n, <<c, n>>)
  BY DEF Op
<1>2. DOMAIN op = {"type", "key"} /\ op.key \in Key
  BY DEF Ops
<1>3. /\ x.me = c /\ x.reqId = n /\ x.value = <<c, n>> /\ x.key = op.key
      /\ DOMAIN x = {"me", "reqId", "value", "type", "key"}
  BY <1>1, <1>2 DEF Named
<1>4. n \in Nat /\ n > 0
  BY ServiceAssumption
<1> QED BY <1>2, <1>3, <1>4 DEF Value

\* The operations of this service are ones the shared lemmas of Service apply to.
LEMMA OpIsOpSet == OpSet(Op)
  BY OpFields, NoOpAssumption DEF OpSet

\* handlePutAppend writes each key the way the reference definition does.
LEMMA PutAppendAt ==
  ASSUME NEW st \in [Key -> Seq(Value)], NEW op \in Op
  PROVE  /\ handlePutAppend(st, op) \in [Key -> Seq(Value)]
         /\ \A k \in Key : handlePutAppend(st, op)[k] = Written(st[k], op, k)
<1>1. op.key \in Key /\ op.value \in Value
  BY OpFields
<1>2. <<op.value>> \in Seq(Value) /\ \A v \in Seq(Value) : Append(v, op.value) \in Seq(Value)
  BY <1>1
<1> QED BY <1>1, <1>2 DEF handlePutAppend, Written

\* A server's data keep their type when an operation is applied.
LEMMA AppliedData ==
  ASSUME NEW d \in Data, NEW op \in Op, NEW idx \in Nat
  PROVE  AppliedTo(d, op, idx) \in Data
<1>1. d.store \in [Key -> Seq(Value)] /\ d.lastApplied \in [Client -> Nat]
  BY DEF Data, Value
<1>2. handlePutAppend(d.store, op) \in [Key -> Seq(Value)]
  BY <1>1, PutAppendAt
<1>3. [d.lastApplied EXCEPT ![op.me] = op.reqId] \in [Client -> Nat]
  BY <1>1, OpFields
<1> QED BY <1>2, <1>3 DEF AppliedTo, Data, Value

\* The table keeps an operation from being applied again.
LEMMA AppliedStaysOnce ==
  ASSUME NEW d \in Data, NEW op \in Op, NEW idx \in Nat, Once(d)
  PROVE  Once(AppliedTo(d, op, idx))
<1>1. CASE ~(op.type # "GET" /\ d.lastApplied[op.me] < op.reqId)
  BY <1>1 DEF AppliedTo
<1>2. CASE op.type # "GET" /\ d.lastApplied[op.me] < op.reqId
  <2> DEFINE e == AppliedTo(d, op, idx)
             tab == [d.lastApplied EXCEPT ![op.me] = op.reqId]
             st == handlePutAppend(d.store, op)
  <2>1. e.store = st /\ e.lastApplied = tab
    BY <1>2 DEF AppliedTo
  <2>2. d.store \in [Key -> Seq(Value)] /\ d.lastApplied \in [Client -> Nat]
    BY DEF Data, Value
  <2>3. op.me \in Client /\ op.reqId \in Nat /\ op.value = <<op.me, op.reqId>> /\ op.value \in Value
    BY OpFields
  <2>4. \A c \in Client : /\ tab[c] \in Nat /\ d.lastApplied[c] \in Nat
                          /\ d.lastApplied[c] <= tab[c]
    BY <1>2, <2>2, <2>3
  <2>5. tab[op.me] = op.reqId
    BY <2>2, <2>3
  <2> HIDE DEF tab
  <2>6. ASSUME NEW k \in Key
        PROVE  /\ IsInjective(st[k])
               /\ \A i \in 1..Len(st[k]) : st[k][i][2] <= tab[st[k][i][1]]
    <3> DEFINE v == d.store[k]
    <3>1. /\ v \in Seq(Value) /\ IsInjective(v)
          /\ \A i \in 1..Len(v) : v[i][2] <= d.lastApplied[v[i][1]]
      BY <2>2 DEF Once
    <3>2. st[k] = Written(v, op, k)
      BY <2>2, PutAppendAt
    <3> HIDE DEF v, st
    <3>3. ASSUME NEW i \in 1..Len(v)
          PROVE  /\ v[i][2] <= tab[v[i][1]] /\ v[i] # op.value
      <4>1. PICK c \in Client, r \in Nat : v[i] = <<c, r>>
        BY <3>1 DEF Value
      <4>2. v[i][1] = c /\ v[i][2] = r /\ r <= d.lastApplied[c]
        BY <3>1, <4>1
      <4>3. r <= tab[c]
        BY <2>4, <4>2
      <4>4. v[i] # op.value
        <5>1. c = op.me => r < op.reqId
          BY <1>2, <2>3, <2>4, <4>2
        <5> QED BY <2>3, <4>1, <5>1
      <4> QED BY <4>2, <4>3, <4>4
    <3>4. CASE op.key # k
      <4>1. st[k] = v
        BY <3>2, <3>4 DEF Written
      <4> QED BY <3>1, <3>3, <4>1
    <3>5. CASE op.key = k /\ op.type = "Put"
      <4>1. st[k] = <<op.value>>
        BY <3>2, <3>5 DEF Written
      <4>2. Len(st[k]) = 1 /\ st[k][1] = op.value /\ DOMAIN st[k] = 1..1
        BY <4>1
      <4>3. IsInjective(st[k])
        BY <4>2 DEF IsInjective
      <4>4. op.value[1] = op.me /\ op.value[2] = op.reqId
        BY <2>3
      <4> QED BY <2>3, <2>5, <4>2, <4>3, <4>4
    <3>6. CASE op.key = k /\ op.type # "Put"
      <4>1. st[k] = Append(v, op.value)
        BY <3>2, <3>6 DEF Written
      <4>2. /\ Len(v) \in Nat /\ Len(st[k]) = Len(v) + 1 /\ st[k][Len(v) + 1] = op.value
            /\ \A i \in 1..Len(v) : st[k][i] = v[i]
            /\ DOMAIN st[k] = 1..(Len(v) + 1) /\ DOMAIN v = 1..Len(v)
        BY <2>3, <3>1, <4>1
      <4>3. \A i : i \in 1..(Len(v) + 1) <=> i \in 1..Len(v) \/ i = Len(v) + 1
        BY <4>2
      <4>4. IsInjective(st[k])
        BY <3>1, <3>3, <4>2, <4>3 DEF IsInjective
      <4>5. op.value[1] = op.me /\ op.value[2] = op.reqId
        BY <2>3
      <4>6. ASSUME NEW i \in 1..Len(st[k]) PROVE st[k][i][2] <= tab[st[k][i][1]]
        <5>1. CASE i \in 1..Len(v)
          BY <3>3, <4>2, <5>1
        <5>2. CASE i = Len(v) + 1
          BY <2>3, <2>5, <4>2, <4>5, <5>2
        <5> QED BY <4>2, <4>3, <5>1, <5>2
      <4> QED BY <4>4, <4>6
    <3> QED BY <3>4, <3>5, <3>6
  <2> QED BY <2>1, <2>6 DEF Once
<1> QED BY <1>1, <1>2

\* An empty store is what the empty prefix of any log makes.
LEMMA GoodEmpty ==
  ASSUME NEW lg \in Seq(Op)
  PROVE  Good(lg, [store |-> [k \in Key |-> <<>>], lastApplied |-> [c \in Client |-> 0],
                   lastIncludedIndex |-> 0], 0)
<1>1. EffectiveOf(lg, 0, "GET") = <<>>
  BY EffectiveSteps
<1>2. \A k \in Key : ValueAfter(<<>>, k) = <<>>
  BY ValueAfterSteps
<1> QED BY <1>1, <1>2, EmptyTable DEF Good

\* The next entry takes good data one index further.
LEMMA GoodNext ==
  ASSUME ServiceInv(Op), NEW d \in Data, NEW n \in Nat, Good(log, d, n), n + 1 <= Len(log)
  PROVE  /\ Good(log, AppliedTo(d, log[n + 1], n + 1), n + 1)
         /\ log[n + 1].type = "GET" =>
               \A k \in Key : d.store[k] = ValueAfter(EffectiveOf(log, n + 1, "GET"), k)
<1> DEFINE op == log[n + 1]
           es == EffectiveOf(log, n, "GET")
           fs == EffectiveOf(log, n + 1, "GET")
           new == op.type # "GET" /\ d.lastApplied[op.me] < op.reqId
<1>t. log \in Seq(Op) /\ Len(log) \in Nat /\ op \in Op /\ es \in Seq(Op)
  <2>1. log \in Seq(Op) /\ Len(log) \in Nat
    BY DEF ServiceInv, ServiceType
  <2>2. op \in Op
    BY <2>1
  <2> QED BY <2>1, <2>2, EffectiveRange
<1>1. Effective(n, "GET") = es /\ Effective(n + 1, "GET") = fs
  BY EffectiveIs
<1>2. /\ new => fs = Append(es, op) /\ IsTable([d.lastApplied EXCEPT ![op.me] = op.reqId], fs)
      /\ ~new => fs = es
  BY <1>1, OpIsOpSet, NextEntry DEF Good
<1>3. CASE new
  <2> DEFINE e == AppliedTo(d, op, n + 1)
  <2>1. /\ e.store = handlePutAppend(d.store, op) /\ e.lastIncludedIndex = n + 1
        /\ e.lastApplied = [d.lastApplied EXCEPT ![op.me] = op.reqId]
    BY <1>3 DEF AppliedTo
  <2>2. d.store \in [Key -> Seq(Value)]
    BY DEF Data, Value
  <2>3. ASSUME NEW k \in Key PROVE e.store[k] = ValueAfter(fs, k)
    <3>1. e.store[k] = Written(d.store[k], op, k)
      <4> HIDE DEF op, e
      <4>1. handlePutAppend(d.store, op)[k] = Written(d.store[k], op, k)
        BY <1>t, <2>2, PutAppendAt
      <4> QED BY <2>1, <4>1
    <3>2. d.store[k] = ValueAfter(es, k)
      BY DEF Good
    <3>3. ValueAfter(fs, k) = Written(ValueAfter(es, k), op, k)
      <4>1. fs = Append(es, op)
        BY <1>2, <1>3
      <4> HIDE DEF es, op, fs
      <4> QED BY <1>t, <4>1, ValueAfterSteps
    <3> QED BY <3>1, <3>2, <3>3
  <2>4. IsTable(e.lastApplied, fs)
    BY <1>2, <1>3, <2>1
  <2>5. op.type # "GET"
    BY <1>3
  <2> HIDE DEF e
  <2> QED BY <1>t, <2>1, <2>3, <2>4, <2>5 DEF Good, e
<1>4. CASE ~new
  <2>1. AppliedTo(d, op, n + 1) = d /\ fs = es
    BY <1>2, <1>4 DEF AppliedTo
  <2>2. d.lastIncludedIndex \in Nat /\ d.lastIncludedIndex <= n + 1
    BY DEF Good, Data
  <2> QED BY <2>1, <2>2 DEF Good
<1> QED BY <1>3, <1>4

\* An entry that the data already covers changes nothing.
LEMMA GoodOld ==
  ASSUME ServiceInv(Op), NEW d \in Data, NEW n \in Nat, Good(log, d, n), NEW idx \in 1..n
  PROVE  AppliedTo(d, log[idx], idx) = d
<1> DEFINE op == log[idx]
           es == EffectiveOf(log, n, "GET")
<1>t. log \in Seq(Op) /\ Len(log) \in Nat /\ n <= Len(log)
  BY DEF ServiceInv, ServiceType, Good
<1>1. op \in Op
  BY <1>t
<1>2. SUFFICES ASSUME op.type # "GET" PROVE ~(d.lastApplied[op.me] < op.reqId)
  BY DEF AppliedTo
<1>3. op \in Range(es)
  BY <1>t, <1>2, EffectiveRange
<1>4. op.reqId <= d.lastApplied[op.me] /\ d.lastApplied[op.me] \in Nat /\ op.reqId \in Nat
  BY <1>1, <1>3, OpFields DEF Good, IsTable
<1> QED BY <1>4

\* Data that are right for a log are right for one that continues it.
LEMMA GoodLonger ==
  ASSUME NEW lg \in Seq(Op), NEW lh, Len(lh) \in Nat, Len(lg) <= Len(lh),
         \A k \in 1..Len(lg) : lh[k] = lg[k],
         NEW d \in Data, NEW n, Good(lg, d, n)
  PROVE  Good(lh, d, n)
<1>1. /\ n \in Nat /\ n <= Len(lg) /\ Len(lg) \in Nat
      /\ d.lastIncludedIndex \in Nat /\ d.lastIncludedIndex <= n
  BY DEF Good, Data
<1>2. EffectiveOf(lh, n, "GET") = EffectiveOf(lg, n, "GET")
  <2>1. \A k \in 1..n : lh[k] = lg[k]
    BY <1>1
  <2> QED BY <1>1, <2>1, EffectiveSame
<1>3. EffectiveOf(lh, d.lastIncludedIndex, "GET") = EffectiveOf(lg, d.lastIncludedIndex, "GET")
  <2>1. \A k \in 1..d.lastIncludedIndex : lh[k] = lg[k]
    BY <1>1
  <2> QED BY <1>1, <2>1, EffectiveSame
<1> QED BY <1>1, <1>2, <1>3 DEF Good

\* Good data stays good between two indices that mean the same.
LEMMA GoodMoves ==
  ASSUME NEW lg, NEW d \in Data, NEW n, NEW m \in Nat, Good(lg, d, n), m <= Len(lg), n <= m,
         EffectiveOf(lg, m, "GET") = EffectiveOf(lg, n, "GET")
  PROVE  Good(lg, d, m)
<1>1. n \in Nat /\ d.lastIncludedIndex \in Nat /\ d.lastIncludedIndex <= n
  BY DEF Good, Data
<1> QED BY <1>1 DEF Good

\* A snapshot e of index i that a server with data d at n adopts or ignores:
\* the comparison of lastIncludedIndex is right in both cases.
LEMMA GoodSnapshot ==
  ASSUME NEW lg \in Seq(Op), NEW d \in Data, NEW e \in Data, NEW n \in Nat, NEW i \in Nat,
         Good(lg, d, n), Good(lg, e, i)
  PROVE  Good(lg, IF e.lastIncludedIndex > d.lastIncludedIndex THEN e ELSE d, Larger(n, i))
<1> DEFINE a == d.lastIncludedIndex
           b == e.lastIncludedIndex
           E(k) == EffectiveOf(lg, k, "GET")
<1>1. /\ a \in Nat /\ b \in Nat /\ a <= n /\ b <= i /\ n <= Len(lg) /\ i <= Len(lg)
      /\ E(a) = E(n) /\ E(b) = E(i)
  BY DEF Good, Data
<1>2. CASE b > a /\ i >= n
  <2>1. Larger(n, i) = i
    BY <1>2 DEF Larger
  <2> QED BY <1>2, <2>1
<1>3. CASE b > a /\ i < n
  <2>1. a <= b /\ b <= n /\ a <= i /\ i <= n
    BY <1>1, <1>3
  <2>2. E(i) = E(a)
    BY <1>1, <2>1, EffectiveBetween
  <2>3. Good(lg, e, n)
    BY <1>1, <2>1, <2>2, GoodMoves
  <2>4. Larger(n, i) = n
    BY <1>3 DEF Larger
  <2> QED BY <1>3, <2>3, <2>4
<1>4. CASE b <= a /\ i <= n
  <2>1. Larger(n, i) = n
    BY <1>4 DEF Larger
  <2> QED BY <1>1, <1>4, <2>1
<1>5. CASE b <= a /\ i > n
  <2>1. b <= n /\ n <= i
    BY <1>1, <1>5
  <2>2. E(n) = E(b)
    BY <1>1, <2>1, EffectiveBetween
  <2>3. Good(lg, d, i)
    BY <1>1, <2>1, <2>2, GoodMoves
  <2>4. Larger(n, i) = i
    BY <1>5 DEF Larger
  <2> QED BY <1>1, <1>5, <2>3, <2>4
<1> QED BY <1>1, <1>2, <1>3, <1>4, <1>5

-----------------------------------------------------------------------------
(* The messages on their way to a server: ch is on applyCh, un is unsent. *)

Msg == [kind : {"entry"}, idx : Nat]
           \cup [kind : {"snapshot"}, idx : Nat, data : Data \cup {NoOp}]

IsEntry(m) == m.kind = "entry"

\* Entries come in the order of their indices; one that the server has already
\* covered lies below what Raft has compacted, and so do all snapshots.
FeedOK(ch, un, del, comp, up) ==
    /\ ch \in Seq(Msg) /\ un \subseteq Msg
    /\ del \in Nat /\ comp \in Nat /\ up \in Nat /\ comp <= del /\ up <= del
    /\ \A m \in Range(ch) \cup un :
          IF IsEntry(m) THEN m.idx \in 1..del /\ (m.idx > up \/ m.idx <= comp)
                        ELSE m.idx <= comp
    /\ \A i, j \in 1..Len(ch) :
          i < j /\ IsEntry(ch[i]) /\ IsEntry(ch[j]) => ch[i].idx < ch[j].idx
    /\ \A m \in un : \A i \in 1..Len(ch) :
          IsEntry(m) /\ IsEntry(ch[i]) => ch[i].idx < m.idx
    /\ \A m, o \in un : IsEntry(m) /\ IsEntry(o) => m = o

\* The feed of a server that has just been started: the snapshot Make() sends.
LEMMA FeedEmpty ==
  ASSUME NEW comp \in Nat, NEW data \in Data \cup {NoOp}
  PROVE  FeedOK(<<SnapshotMsg(comp, data)>>, {}, comp, comp, 0)
<1> DEFINE m == SnapshotMsg(comp, data)
           ch == <<m>>
<1>1. m \in Msg /\ m.idx = comp /\ ~IsEntry(m)
  BY DEF SnapshotMsg, Msg, IsEntry
<1> HIDE DEF m
<1>2. ch \in Seq(Msg) /\ Len(ch) = 1 /\ ch[1] = m /\ DOMAIN ch = {1}
  BY <1>1
<1>3. Range(ch) = {m}
  BY <1>2 DEF Range
<1> QED BY <1>1, <1>2, <1>3 DEF FeedOK, m

\* A goroutine that sends what it decided to send keeps the feed in order.
LEMMA FeedSend ==
  ASSUME NEW ch, NEW un, NEW del, NEW comp, NEW up, FeedOK(ch, un, del, comp, up), NEW m \in un
  PROVE  FeedOK(Append(ch, m), un \ {m}, del, comp, up)
<1> DEFINE dh == Append(ch, m)
<1>1. ch \in Seq(Msg) /\ m \in Msg
  BY DEF FeedOK
<1>2. /\ dh \in Seq(Msg) /\ Len(ch) \in Nat /\ Len(dh) = Len(ch) + 1 /\ dh[Len(ch) + 1] = m
      /\ \A i \in 1..Len(ch) : dh[i] = ch[i]
  BY <1>1
<1>3. \A x : x \in Range(dh) <=> x \in Range(ch) \/ x = m
  BY <1>1, RangeAppend
<1> HIDE DEF dh
<1>4. \A i : i \in 1..Len(dh) <=> i \in 1..Len(ch) \/ i = Len(ch) + 1
  BY <1>2
<1>5. ASSUME NEW i \in 1..Len(dh), NEW j \in 1..Len(dh), i < j, IsEntry(dh[i]), IsEntry(dh[j])
      PROVE  dh[i].idx < dh[j].idx
  <2>1. i \in 1..Len(ch) /\ dh[i] = ch[i]
    BY <1>2, <1>5
  <2>2. CASE j \in 1..Len(ch)
    BY <1>2, <1>5, <2>1, <2>2 DEF FeedOK
  <2>3. CASE j = Len(ch) + 1
    BY <1>2, <1>5, <2>1, <2>3 DEF FeedOK
  <2> QED BY <1>4, <2>2, <2>3
<1>6. ASSUME NEW o \in un \ {m}, NEW i \in 1..Len(dh), IsEntry(o), IsEntry(dh[i])
      PROVE  dh[i].idx < o.idx
  <2>1. CASE i \in 1..Len(ch)
    BY <1>2, <1>6, <2>1 DEF FeedOK
  <2>2. CASE i = Len(ch) + 1
    BY <1>2, <1>6, <2>2 DEF FeedOK
  <2> QED BY <1>4, <2>1, <2>2
<1>7. \A x \in Range(dh) \cup (un \ {m}) : x \in Range(ch) \cup un
  BY <1>3
<1> QED BY <1>2, <1>5, <1>6, <1>7 DEF FeedOK, dh

\* Deciding to send the next entry keeps the feed in order.
LEMMA FeedDeliver ==
  ASSUME NEW ch, NEW un, NEW del, NEW comp, NEW up, FeedOK(ch, un, del, comp, up),
         \A m \in un : m.kind # "entry"
  PROVE  FeedOK(ch, un \cup {EntryMsg(del + 1)}, del + 1, comp, up)
<1> DEFINE e == EntryMsg(del + 1)
<1>0. del \in Nat /\ comp \in Nat /\ up \in Nat /\ comp <= del /\ up <= del /\ ch \in Seq(Msg)
  BY DEF FeedOK
<1>1. e \in Msg /\ e.idx = del + 1 /\ IsEntry(e)
  BY <1>0 DEF EntryMsg, Msg, IsEntry
<1> HIDE DEF e
<1>2. ASSUME NEW m \in Range(ch) \cup (un \cup {e})
      PROVE  IF IsEntry(m) THEN m.idx \in 1..(del + 1) /\ (m.idx > up \/ m.idx <= comp)
                           ELSE m.idx <= comp
  <2>1. CASE m \in Range(ch) \cup un
    <3>1. CASE IsEntry(m)
      <4>1. m.idx \in 1..del /\ (m.idx > up \/ m.idx <= comp)
        BY <2>1, <3>1 DEF FeedOK
      <4> QED BY <1>0, <3>1, <4>1
    <3>2. CASE ~IsEntry(m)
      BY <2>1, <3>2 DEF FeedOK
    <3> QED BY <3>1, <3>2
  <2>2. CASE m = e
    BY <1>0, <1>1, <2>2
  <2> QED BY <2>1, <2>2
<1>3. ASSUME NEW i \in 1..Len(ch), IsEntry(ch[i]) PROVE ch[i].idx < e.idx
  <2>1. ch[i] \in Range(ch)
    BY <1>0 DEF Range
  <2>2. ch[i].idx \in 1..del
    BY <1>3, <2>1 DEF FeedOK
  <2> QED BY <1>0, <1>1, <2>2
<1>4. \A m \in un : ~IsEntry(m)
  BY DEF IsEntry
<1>5. un \cup {e} \subseteq Msg /\ del + 1 \in Nat /\ comp <= del + 1 /\ up <= del + 1
  BY <1>0, <1>1 DEF FeedOK
<1>6. \A m \in un \cup {e} : \A i \in 1..Len(ch) :
          IsEntry(m) /\ IsEntry(ch[i]) => ch[i].idx < m.idx
  BY <1>3, <1>4
<1> QED BY <1>0, <1>2, <1>4, <1>5, <1>6 DEF FeedOK, e

\* So does installing a snapshot, which moves the position to its index.
LEMMA FeedInstall ==
  ASSUME NEW ch, NEW un, NEW del, NEW comp, NEW up, FeedOK(ch, un, del, comp, up),
         NEW c2 \in Nat, c2 > comp, NEW data \in Data \cup {NoOp}
  PROVE  FeedOK(ch, un \cup {SnapshotMsg(c2, data)}, Larger(del, c2), c2, up)
<1> DEFINE e == SnapshotMsg(c2, data)
           d2 == Larger(del, c2)
<1>0. del \in Nat /\ comp \in Nat /\ up \in Nat /\ comp <= del /\ up <= del /\ ch \in Seq(Msg)
  BY DEF FeedOK
<1>1. e \in Msg /\ e.idx = c2 /\ ~IsEntry(e)
  BY DEF SnapshotMsg, Msg, IsEntry
<1>2. d2 \in Nat /\ d2 >= del /\ d2 >= c2
  BY <1>0 DEF Larger
<1> HIDE DEF e, d2
<1>3. ASSUME NEW m \in Range(ch) \cup (un \cup {e})
      PROVE  IF IsEntry(m) THEN m.idx \in 1..d2 /\ (m.idx > up \/ m.idx <= c2)
                           ELSE m.idx <= c2
  <2>1. CASE m \in Range(ch) \cup un /\ IsEntry(m)
    <3>1. m.idx \in 1..del /\ (m.idx > up \/ m.idx <= comp)
      BY <2>1 DEF FeedOK
    <3> QED BY <1>0, <1>2, <2>1, <3>1
  <2>2. CASE m \in Range(ch) \cup un /\ ~IsEntry(m)
    <3>1. m \in Msg
      BY <1>0, <2>2 DEF FeedOK, Range
    <3>2. m.idx <= comp /\ m.idx \in Nat
      BY <2>2, <3>1 DEF FeedOK, Msg
    <3> QED BY <1>0, <2>2, <3>2
  <2>3. CASE m = e
    BY <1>1, <2>3
  <2> QED BY <2>1, <2>2, <2>3
<1>4. un \cup {e} \subseteq Msg /\ up <= d2
  BY <1>0, <1>1, <1>2 DEF FeedOK
<1> QED BY <1>0, <1>1, <1>2, <1>3, <1>4 DEF FeedOK, e, d2

\* The server takes the first message; Raft may compact up to its entry.
LEMMA FeedTake ==
  ASSUME NEW ch, NEW un, NEW del, NEW comp, NEW up, FeedOK(ch, un, del, comp, up), ch # <<>>,
         NEW c2 \in Nat, c2 = comp \/ (IsEntry(Head(ch)) /\ c2 = Head(ch).idx /\ c2 > comp)
  PROVE  /\ FeedOK(Tail(ch), un, del, c2, Larger(up, Head(ch).idx))
         /\ Head(ch) \in Range(ch) /\ Head(ch) \in Msg
         /\ \A m \in Range(Tail(ch)) : m \in Range(ch)
<1> DEFINE h == Head(ch)
           th == Tail(ch)
           u2 == Larger(up, h.idx)
<1>0. del \in Nat /\ comp \in Nat /\ up \in Nat /\ comp <= del /\ up <= del /\ ch \in Seq(Msg)
  BY DEF FeedOK
<1>1. /\ h = ch[1] /\ th \in Seq(Msg) /\ Len(ch) \in Nat /\ Len(ch) > 0 /\ Len(th) = Len(ch) - 1
      /\ \A i \in 1..Len(th) : th[i] = ch[i + 1]
      /\ DOMAIN ch = 1..Len(ch) /\ DOMAIN th = 1..Len(th)
  BY <1>0
<1>2. h \in Range(ch) /\ h \in Msg /\ \A m \in Range(th) : m \in Range(ch)
  <2>1. \A i \in 1..Len(th) : i + 1 \in 1..Len(ch)
    BY <1>1
  <2> QED BY <1>0, <1>1, <2>1 DEF Range
<1>3. h.idx \in Nat
  BY <1>2 DEF Msg
<1>4. h.idx <= del /\ (IsEntry(h) => h.idx > 0)
  <2>1. CASE IsEntry(h)
    BY <1>0, <1>2, <2>1 DEF FeedOK
  <2>2. CASE ~IsEntry(h)
    BY <1>0, <1>2, <1>3, <2>2 DEF FeedOK
  <2> QED BY <2>1, <2>2
<1>5. u2 \in Nat /\ u2 <= del /\ u2 >= up /\ u2 >= h.idx /\ (u2 = up \/ u2 = h.idx)
  BY <1>0, <1>3, <1>4 DEF Larger
<1>6. c2 >= comp /\ c2 <= del
  BY <1>0, <1>4
<1> HIDE DEF h, th, u2
<1>7. ASSUME NEW m \in Range(th) \cup un
      PROVE  IF IsEntry(m) THEN m.idx \in 1..del /\ (m.idx > u2 \/ m.idx <= c2)
                           ELSE m.idx <= c2
  <2>0. m \in Range(ch) \cup un /\ m \in Msg
    <3>1. Range(th) \subseteq Range(ch)
      BY <1>2
    <3>2. Range(ch) \subseteq Msg
      BY <1>0 DEF Range
    <3>3. un \subseteq Msg
      BY DEF FeedOK
    <3> QED BY <1>7, <3>1, <3>2, <3>3
  <2>1. CASE IsEntry(m)
    <3>1. m.idx \in 1..del /\ (m.idx > up \/ m.idx <= comp)
      BY <2>0, <2>1 DEF FeedOK
    <3>2. CASE IsEntry(h)
      <4>1. h.idx < m.idx
        <5>1. CASE m \in un
          BY <1>1, <2>1, <3>2, <5>1 DEF FeedOK
        <5>2. CASE m \in Range(th)
          <6>1. PICK i \in 1..Len(th) : m = th[i]
            BY <1>1, <5>2 DEF Range
          <6>2. i + 1 \in 1..Len(ch) /\ 1 \in 1..Len(ch) /\ 1 < i + 1 /\ m = ch[i + 1]
            BY <1>1, <6>1
          <6> QED BY <1>1, <2>1, <3>2, <6>2 DEF FeedOK
        <5> QED BY <5>1, <5>2
      <4> QED BY <1>0, <1>3, <1>5, <1>6, <2>1, <3>1, <4>1
    <3>3. CASE ~IsEntry(h)
      <4>1. h.idx <= comp
        BY <1>2, <3>3 DEF FeedOK
      <4> QED BY <1>0, <1>3, <1>5, <1>6, <2>1, <3>1, <4>1
    <3> QED BY <3>2, <3>3
  <2>2. CASE ~IsEntry(m)
    <3>1. m.idx <= comp /\ m.idx \in Nat
      BY <2>0, <2>2 DEF FeedOK, Msg
    <3> QED BY <1>0, <1>6, <2>2, <3>1
  <2> QED BY <2>1, <2>2
<1>8. ASSUME NEW i \in 1..Len(th), NEW j \in 1..Len(th), i < j, IsEntry(th[i]), IsEntry(th[j])
      PROVE  th[i].idx < th[j].idx
  <2>1. i + 1 \in 1..Len(ch) /\ j + 1 \in 1..Len(ch) /\ i + 1 < j + 1
        /\ th[i] = ch[i + 1] /\ th[j] = ch[j + 1]
    BY <1>1, <1>8
  <2> QED BY <1>8, <2>1 DEF FeedOK
<1>9. ASSUME NEW m \in un, NEW i \in 1..Len(th), IsEntry(m), IsEntry(th[i])
      PROVE  th[i].idx < m.idx
  <2>1. i + 1 \in 1..Len(ch) /\ th[i] = ch[i + 1]
    BY <1>1
  <2> QED BY <1>9, <2>1 DEF FeedOK
<1>10. FeedOK(th, un, del, c2, u2)
  BY <1>0, <1>1, <1>5, <1>6, <1>7, <1>8, <1>9 DEF FeedOK
<1> QED BY <1>2, <1>10 DEF h, th, u2

-----------------------------------------------------------------------------
(* The invariant. *)

KVType ==
    /\ store \in [Server -> [Key -> Seq(Value)]]
    /\ lastApplied \in [Server -> [Client -> Nat]]
    /\ lastIncludedIndex \in [Server -> Nat]
    /\ snapshot \in [Server -> Data \cup {NoOp}]
    /\ DOMAIN applyCh = Server /\ DOMAIN unsent = Server
    /\ DOMAIN delivered = Server /\ DOMAIN compacted = Server /\ DOMAIN upTo = Server
    /\ overtaken \in BOOLEAN

Feeds ==
    \A s \in Server :
        /\ delivered[s] <= Len(log)
        /\ FeedOK(applyCh[s], unsent[s], delivered[s], compacted[s], upTo[s])

\* d is a snapshot of index n at s: the Persister's, or one on its way.
IsHeld(s, d, n) ==
    \/ d = snapshot[s] /\ n = compacted[s]
    \/ \E m \in Range(applyCh[s]) \cup unsent[s] : ~IsEntry(m) /\ d = m.data /\ n = m.idx

OnceEverywhere ==
    \A s \in Server :
        /\ Once(SnapshotData(s))
        /\ \A d, n : IsHeld(s, d, n) => d = NoOp \/ Once(d)

GoodOrNone(lg, d, n) == IF d = NoOp THEN n = 0 ELSE Good(lg, d, n)

GoodEverywhere ==
    ~overtaken => \A s \in Server :
        /\ Good(log, SnapshotData(s), upTo[s])
        /\ \A d, n : IsHeld(s, d, n) => GoodOrNone(log, d, n)

ValueAt(lg, k, n) == ValueAfter(EffectiveOf(lg, n, "GET"), k)

\* A Get is answered from an index that is not before its entry.
AnswerTo(lg, ch) ==
    \E n, m \in 1..Len(lg) :
        /\ n <= m /\ SameName(ch, lg[n])
        /\ ~overtaken /\ lg[n].type = "GET" => ch.value = ValueAt(lg, lg[n].key, m)

Answers == \A h \in handlers : h.ch # NoOp => AnswerTo(log, h.ch)

\* What a clerk was told is true of an index since its operation began.
TrueOf(lg, a) ==
    \E n \in 1..Len(lg) :
        /\ a.born < n
        /\ IF a.op.type = "GET" THEN ~overtaken => a.value = ValueAt(lg, a.op.key, n)
                                ELSE lg[n] = a.op

ToldTrue == \A c \in Client : answer[c].op # NoOp => answer[c].born \in Nat /\ TrueOf(log, answer[c])

KVInv ==
    /\ ServiceInv(Op) /\ KVType /\ Feeds /\ OnceEverywhere /\ GoodEverywhere
    /\ Answers /\ ToldTrue

\* A step that commits or leaves the log alone keeps everything said about its prefixes.
LEMMA LogGrows ==
  ASSUME ServiceInv(Op), UNCHANGED log \/ Commit
  PROVE  /\ log \in Seq(Op) /\ Len(log) \in Nat /\ Len(log') \in Nat /\ Len(log) <= Len(log')
         /\ \A n \in 1..Len(log) : log'[n] = log[n] /\ n \in 1..Len(log')
         /\ \A n \in 1..Len(log) : \A k : ValueAt(log', k, n) = ValueAt(log, k, n)
         /\ \A d \in Data : \A n : Good(log, d, n) => Good(log', d, n)
<1>1. log \in Seq(Op)
  BY DEF ServiceInv, ServiceType
<1>2. /\ Len(log) \in Nat /\ Len(log') \in Nat /\ Len(log) <= Len(log')
      /\ \A n \in 1..Len(log) : log'[n] = log[n] /\ n \in 1..Len(log')
  <2>1. CASE UNCHANGED log
    BY <1>1, <2>1
  <2>2. CASE Commit
    <3>1. PICK p \in proposed : log' = Append(log, p.op)
      BY <2>2 DEF Commit
    <3>2. p.op \in Op
      BY DEF ServiceInv, ServiceType
    <3>3. /\ Len(log) \in Nat /\ Len(log') = Len(log) + 1
          /\ \A n \in 1..Len(log) : log'[n] = log[n]
      BY <1>1, <3>1, <3>2
    <3> QED BY <3>3
  <2> QED BY <2>1, <2>2
<1>3. ASSUME NEW n \in 1..Len(log), NEW k PROVE ValueAt(log', k, n) = ValueAt(log, k, n)
  <2>1. n \in Nat /\ \A i \in 1..n : log'[i] = log[i]
    BY <1>2
  <2>2. EffectiveOf(log', n, "GET") = EffectiveOf(log, n, "GET")
    BY <2>1, EffectiveSame
  <2> QED BY <2>2 DEF ValueAt
<1>4. ASSUME NEW d \in Data, NEW n, Good(log, d, n) PROVE Good(log', d, n)
  BY <1>1, <1>2, <1>4, GoodLonger
<1> QED BY <1>1, <1>2, <1>3, <1>4

\* Whatever a server holds as data (store, channel, disk) has the type of data.
LEMMA HeldIsData ==
  ASSUME KVType, Feeds, NEW s \in Server, NEW d, NEW n, IsHeld(s, d, n)
  PROVE  d \in Data \cup {NoOp} /\ n \in Nat
<1>1. FeedOK(applyCh[s], unsent[s], delivered[s], compacted[s], upTo[s])
  BY DEF Feeds
<1>2. CASE d = snapshot[s] /\ n = compacted[s]
  BY <1>1, <1>2 DEF KVType, FeedOK
<1>3. CASE \E m \in Range(applyCh[s]) \cup unsent[s] : ~IsEntry(m) /\ d = m.data /\ n = m.idx
  <2>1. PICK m \in Range(applyCh[s]) \cup unsent[s] : ~IsEntry(m) /\ d = m.data /\ n = m.idx
    BY <1>3
  <2>2. m \in Msg
    BY <1>1 DEF FeedOK, Range
  <2> QED BY <2>1, <2>2 DEF Msg, IsEntry
<1> QED BY <1>2, <1>3 DEF IsHeld

\* Steps of clerks and of Raft leave what is said of the servers as it is.
LEMMA ServersKept ==
  ASSUME KVInv, UNCHANGED <<kvVars, feedVars>>, UNCHANGED log \/ Commit
  PROVE  KVType' /\ Feeds' /\ OnceEverywhere' /\ GoodEverywhere'
<1>1. /\ Len(log) \in Nat /\ Len(log') \in Nat /\ Len(log) <= Len(log')
      /\ \A d \in Data : \A n : Good(log, d, n) => Good(log', d, n)
  BY LogGrows DEF KVInv
<1>2. UNCHANGED <<store, lastApplied, lastIncludedIndex, upTo, overtaken, applyCh, unsent,
                  delivered, compacted, snapshot>>
  BY DEF kvVars, feedVars
<1>3. KVType'
  BY <1>2 DEF KVInv, KVType
<1>4. Feeds'
  <2>1. ASSUME NEW s \in Server PROVE delivered[s] <= Len(log')
    <3>1. delivered[s] <= Len(log) /\ delivered[s] \in Nat
      BY DEF KVInv, Feeds, FeedOK
    <3> QED BY <1>1, <3>1
  <2> QED BY <1>2, <2>1 DEF KVInv, Feeds
<1>5. \A s, d, n : IsHeld(s, d, n)' <=> IsHeld(s, d, n)
  BY <1>2 DEF IsHeld
<1>6. \A s : SnapshotData(s)' = SnapshotData(s)
  BY <1>2 DEF SnapshotData
<1>7. OnceEverywhere'
  BY <1>5, <1>6 DEF KVInv, OnceEverywhere
<1>8. GoodEverywhere'
  <2>1. SUFFICES ASSUME ~overtaken, NEW s \in Server
                 PROVE  /\ Good(log', SnapshotData(s), upTo[s])
                        /\ \A d, n : IsHeld(s, d, n) => GoodOrNone(log', d, n)
    BY <1>2, <1>5, <1>6 DEF GoodEverywhere
  <2>2. SnapshotData(s) \in Data
    BY DEF KVInv, KVType, SnapshotData, Data, Value
  <2>3. Good(log', SnapshotData(s), upTo[s])
    BY <1>1, <2>1, <2>2 DEF KVInv, GoodEverywhere
  <2>4. ASSUME NEW d, NEW n, IsHeld(s, d, n) PROVE GoodOrNone(log', d, n)
    <3>1. d \in Data \cup {NoOp} /\ GoodOrNone(log, d, n)
      BY <2>1, <2>4, HeldIsData DEF KVInv, GoodEverywhere
    <3> QED BY <1>1, <3>1 DEF GoodOrNone
  <2> QED BY <2>3, <2>4
<1> QED BY <1>3, <1>4, <1>7, <1>8

\* Channels and answers when nothing is put into a channel and nobody is told.
LEMMA AnswersKept ==
  ASSUME KVInv, UNCHANGED log \/ Commit, ~overtaken' => ~overtaken,
         \A k \in handlers' : k.ch = NoOp \/ \E h \in handlers : h.ch = k.ch
  PROVE  Answers'
<1>1. /\ \A n \in 1..Len(log) : log'[n] = log[n] /\ n \in 1..Len(log')
      /\ \A n \in 1..Len(log) : \A k : ValueAt(log', k, n) = ValueAt(log, k, n)
  BY LogGrows DEF KVInv
<1>2. ASSUME NEW k \in handlers', k.ch # NoOp
      PROVE  \E n, m \in 1..Len(log') :
                /\ n <= m /\ SameName(k.ch, log'[n])
                /\ ~overtaken' /\ log'[n].type = "GET" =>
                      k.ch.value = ValueAt(log', log'[n].key, m)
  <2>1. PICK h \in handlers : h.ch = k.ch
    BY <1>2
  <2>2. PICK n \in 1..Len(log), m \in 1..Len(log) :
            /\ n <= m /\ SameName(h.ch, log[n])
            /\ ~overtaken /\ log[n].type = "GET" => h.ch.value = ValueAt(log, log[n].key, m)
    BY <1>2, <2>1 DEF KVInv, Answers, AnswerTo
  <2>3. /\ n \in 1..Len(log') /\ m \in 1..Len(log') /\ log'[n] = log[n]
        /\ ValueAt(log', log[n].key, m) = ValueAt(log, log[n].key, m)
    BY <1>1
  <2> QED BY <2>1, <2>2, <2>3
<1> QED BY <1>2 DEF Answers, AnswerTo

\* An answer that is true of the log stays true when the log grows.
LEMMA TrueStays ==
  ASSUME KVInv, UNCHANGED log \/ Commit, ~overtaken' => ~overtaken, NEW a, TrueOf(log, a)
  PROVE  \E n \in 1..Len(log') :
            /\ a.born < n
            /\ IF a.op.type = "GET" THEN ~overtaken' => a.value = ValueAt(log', a.op.key, n)
                                    ELSE log'[n] = a.op
<1>1. /\ \A n \in 1..Len(log) : log'[n] = log[n] /\ n \in 1..Len(log')
      /\ \A n \in 1..Len(log) : \A k : ValueAt(log', k, n) = ValueAt(log, k, n)
  BY LogGrows DEF KVInv
<1>2. PICK n \in 1..Len(log) :
        /\ a.born < n
        /\ IF a.op.type = "GET" THEN ~overtaken => a.value = ValueAt(log, a.op.key, n)
                                ELSE log[n] = a.op
  BY DEF TrueOf
<1>3. /\ n \in 1..Len(log') /\ log'[n] = log[n]
      /\ ValueAt(log', a.op.key, n) = ValueAt(log, a.op.key, n)
  BY <1>1
<1> QED BY <1>2, <1>3

\* So all answers stay true in a step that gives none.
LEMMA ToldKept ==
  ASSUME KVInv, UNCHANGED log \/ Commit, ~overtaken' => ~overtaken, UNCHANGED answer
  PROVE  ToldTrue'
<1>1. ASSUME NEW c \in Client, answer[c].op # NoOp
      PROVE  /\ answer[c].born \in Nat
             /\ \E n \in 1..Len(log') :
                  /\ answer[c].born < n
                  /\ IF answer[c].op.type = "GET"
                     THEN ~overtaken' => answer[c].value = ValueAt(log', answer[c].op.key, n)
                     ELSE log'[n] = answer[c].op
  <2>1. answer[c].born \in Nat /\ TrueOf(log, answer[c])
    BY <1>1 DEF KVInv, ToldTrue
  <2> QED BY <2>1, TrueStays
<1> QED BY <1>1 DEF ToldTrue, TrueOf

EmptyData == [store |-> [k \in Key |-> <<>>], lastApplied |-> [c \in Client |-> 0],
              lastIncludedIndex |-> 0]

\* A new server's empty store holds every operation at most once.
LEMMA EmptyOnce == EmptyData \in Data /\ Once(EmptyData)
<1>1. <<>> \in Seq(Value) /\ Len(<<>>) = 0
  OBVIOUS
<1>2. EmptyData \in Data
  BY <1>1 DEF EmptyData, Data, Value
<1>3. DOMAIN <<>> = {}
  OBVIOUS
<1>4. IsInjective(<<>>)
  BY <1>3 DEF IsInjective
<1>5. \A k \in Key : EmptyData.store[k] = <<>>
  BY DEF EmptyData
<1>6. \A i : i \notin 1..0
  OBVIOUS
<1> QED BY <1>1, <1>2, <1>4, <1>5, <1>6 DEF Once

\* The invariant holds initially.
LEMMA InitKVInv == Init => KVInv
<1> SUFFICES ASSUME Init PROVE KVInv
  OBVIOUS
<1>1. ServiceInv(Op)
  BY OpIsOpSet, InitServiceInv DEF Init
<1>2. KVType
  <2>1. <<>> \in Seq(Value)
    OBVIOUS
  <2> QED BY <2>1 DEF Init, KVType
<1>3. Range(<<>>) = {} /\ Len(<<>>) = 0 /\ <<>> \in Seq(Msg)
  <2>1. DOMAIN <<>> = {} /\ Len(<<>>) = 0 /\ <<>> \in Seq(Msg)
    OBVIOUS
  <2>2. Range(<<>>) = {}
    BY <2>1, Zenon DEF Range
  <2> QED BY <2>1, <2>2
<1>4. FeedOK(<<>>, {}, 0, 0, 0)
  BY <1>3 DEF FeedOK
<1>5. Feeds
  BY <1>4 DEF Init, InitService, Feeds
<1>6. ASSUME NEW s \in Server
      PROVE  /\ SnapshotData(s) = EmptyData /\ upTo[s] = 0
             /\ \A d, n : IsHeld(s, d, n) => d = NoOp /\ n = 0
  <2>1. applyCh[s] = <<>> /\ unsent[s] = {} /\ snapshot[s] = NoOp /\ compacted[s] = 0
    BY DEF Init
  <2>2. \A d, n : IsHeld(s, d, n) => d = NoOp /\ n = 0
    BY <1>3, <2>1 DEF IsHeld
  <2>3. SnapshotData(s) = EmptyData /\ upTo[s] = 0
    BY DEF Init, SnapshotData, EmptyData
  <2> QED BY <2>2, <2>3
<1>7. OnceEverywhere
  BY <1>6, EmptyOnce DEF OnceEverywhere
<1>8. log \in Seq(Op)
  BY <1>1 DEF ServiceInv, ServiceType
<1>9. GoodEverywhere
  <2>1. Good(log, EmptyData, 0)
    BY <1>8, GoodEmpty DEF EmptyData
  <2> QED BY <1>6, <2>1 DEF GoodEverywhere, GoodOrNone
<1>10. Answers /\ ToldTrue
  BY DEF Init, InitService, Answers, ToldTrue
<1> QED BY <1>1, <1>2, <1>5, <1>7, <1>9, <1>10 DEF KVInv

-----------------------------------------------------------------------------
(* The clerks, the handlers and the log. *)

\* What a clerk submits is a named operation.
LEMMA RequestIsOp ==
  ASSUME NEW O, ServiceInv(O), NEW c \in Client, NEW op \in Ops,
         Request(c, op, <<c, id[c] + 1>>)
  PROVE  Named(op, c, id[c] + 1, <<c, id[c] + 1>>) \in Op
<1>1. id[c] \in Nat /\ id[c] < MaxId
  BY DEF ServiceInv, ServiceType, Request
<1>2. id[c] + 1 \in 1..MaxId
  BY <1>1, ServiceAssumption
<1> QED BY <1>2 DEF Op

\* Clerk.Get and Clerk.PutAppend keep the invariant.
LEMMA SubmitKeeps ==
  ASSUME KVInv, NEW c \in Client, NEW op \in Ops, Submit(c, op)
  PROVE  KVInv'
<1>1. /\ Request(c, op, <<c, id[c] + 1>>)
      /\ UNCHANGED <<log, answer, handlers, kvVars, feedVars>>
  BY DEF Submit, Request, raftVars
<1>2. Named(op, c, id[c] + 1, <<c, id[c] + 1>>) \in Op
  BY <1>1, RequestIsOp DEF KVInv
<1>3. ServiceInv(Op)'
  BY <1>1, <1>2, OpIsOpSet, RequestStep DEF KVInv
<1>4. UNCHANGED <<kvVars, feedVars>> /\ UNCHANGED overtaken
  BY <1>1 DEF kvVars
<1>5. KVType' /\ Feeds' /\ OnceEverywhere' /\ GoodEverywhere'
  BY <1>1, <1>4, ServersKept
<1>6. Answers' /\ ToldTrue'
  BY <1>1, <1>4, AnswersKept, ToldKept
<1> QED BY <1>3, <1>5, <1>6 DEF KVInv

\* A handler that calls Start keeps the invariant and leaves log and clerks alone.
LEMMA ServeKeeps ==
  ASSUME KVInv, NEW c \in Client, NEW s \in Server, Serve(c, s)
  PROVE  KVInv' /\ UNCHANGED <<log, pending, answer, born>>
<1>1. Start(c, s) /\ UNCHANGED <<kvVars, feedVars>> /\ UNCHANGED overtaken
  BY DEF Serve, kvVars
<1>2. PICK n, idx : /\ handlers' = handlers \cup
                          {[handler |-> n, srv |-> s, op |-> pending[c], idx |-> idx,
                            stage |-> "started", ch |-> NoOp]}
                    /\ UNCHANGED <<log, pending, answer, born>>
  BY <1>1 DEF Start
<1>3. ServiceInv(Op)'
  BY <1>1, OpIsOpSet, StartStep DEF KVInv
<1>4. \A k \in handlers' : k.ch = NoOp \/ \E h \in handlers : h.ch = k.ch
  BY <1>2
<1>5. KVType' /\ Feeds' /\ OnceEverywhere' /\ GoodEverywhere'
  BY <1>1, <1>2, ServersKept
<1>6. Answers' /\ ToldTrue'
  BY <1>1, <1>2, <1>4, AnswersKept, ToldKept
<1> QED BY <1>2, <1>3, <1>5, <1>6 DEF KVInv

\* Agreement on one more log index keeps the invariant.
LEMMA AgreeKeeps ==
  ASSUME KVInv, Agree
  PROVE  KVInv'
<1>1. Commit /\ UNCHANGED <<kvVars, feedVars>> /\ UNCHANGED <<overtaken, handlers, answer>>
  BY DEF Agree, Commit, clerkVars, kvVars
<1>2. ServiceInv(Op)'
  BY <1>1, OpIsOpSet, CommitStep DEF KVInv
<1>3. KVType' /\ Feeds' /\ OnceEverywhere' /\ GoodEverywhere'
  BY <1>1, ServersKept
<1>4. Answers' /\ ToldTrue'
  BY <1>1, AnswersKept, ToldKept
<1> QED BY <1>2, <1>3, <1>4 DEF KVInv

\* A handler that answers has the answer to its own operation.
LEMMA AnswerIsTrue ==
  ASSUME KVInv, NEW h \in handlers, Answered(h, h.ch.value)
  PROVE  /\ h.op \in Op /\ h.op.me \in Client /\ born[h.op.me] \in Nat
         /\ \E n \in 1..Len(log) :
               /\ born[h.op.me] < n
               /\ IF h.op.type = "GET" THEN ~overtaken => h.ch.value = ValueAt(log, h.op.key, n)
                                       ELSE log[n] = h.op
<1> DEFINE c == h.op.me
<1>1. /\ h.ch # NoOp /\ SameName(h.op, h.ch) /\ pending[c] = h.op
  BY DEF Answered
<1>t. log \in Seq(Op) /\ Len(log) \in Nat /\ born \in [Client -> Nat]
  BY DEF KVInv, ServiceInv, ServiceType
<1>2. h.op \in Op /\ c \in Client /\ h.op # NoOp /\ born[c] \in Nat
  BY <1>t, OpIsOpSet DEF KVInv, ServiceInv, ServiceType, OpSet
<1>3. PICK n \in 1..Len(log), m \in 1..Len(log) :
        /\ n <= m /\ SameName(h.ch, log[n])
        /\ ~overtaken /\ log[n].type = "GET" => h.ch.value = ValueAt(log, log[n].key, m)
  BY <1>1 DEF KVInv, Answers, AnswerTo
<1>4. log[n] = h.op
  <2>1. log[n] \in Op /\ Used(log[n]) /\ Used(h.op) /\ SameName(log[n], h.op)
    BY <1>1, <1>3, <1>t DEF Used, SameName
  <2> QED BY <1>2, <2>1 DEF KVInv, ServiceInv, Names
<1>5. n > born[c]
  BY <1>1, <1>2, <1>4 DEF KVInv, ServiceInv, Clerks
<1>6. born[c] < m
  BY <1>2, <1>3, <1>5, <1>t
<1> QED BY <1>2, <1>3, <1>4, <1>5, <1>6

\* Each step of waitAppliedOrTimeout keeps the invariant; the only one a clerk sees is the
\* reply with what ApplyRoutine sent.
LEMMA HandlerKeeps ==
  ASSUME KVInv, NEW h \in handlers, HandlerStep(h)
  PROVE  /\ KVInv'
         /\ UNCHANGED <<log, clerkVars>> \/ Answered(h, h.ch.value)
<1> DEFINE same == isSameOp(h.op, h.ch)
<1>1. Register(h) \/ Applied(h, same) \/ TimedOut(h)
  BY DEF HandlerStep
<1>2. UNCHANGED <<kvVars, feedVars>> /\ UNCHANGED overtaken
  BY DEF HandlerStep, kvVars
<1>3. same => SameName(h.op, h.ch)
  BY DEF isSameOp, SameName
<1> HIDE DEF same
<1>4. \/ Applied(h, same) /\ Answered(h, h.ch.value)
      \/ ServiceInv(Op)' /\ UNCHANGED <<raftVars, clerkVars>>
  BY <1>1, <1>3, OpIsOpSet, HandlerSteps DEF KVInv
<1>5. UNCHANGED log
  BY <1>1 DEF Register, Applied, TimedOut, raftVars
<1>6. ServiceInv(Op)'
  BY <1>4, OpIsOpSet, AnsweredStep DEF KVInv
<1>7. \A k \in handlers' : k.ch = NoOp \/ \E g \in handlers : g.ch = k.ch
  <2>1. CASE Register(h)
    <3>1. handlers' = (handlers \ {h}) \cup {[h EXCEPT !.stage = "waiting"]}
      BY <2>1 DEF Register
    <3>2. DOMAIN h = HandlerFields
      BY DEF KVInv, ServiceInv, ServiceType
    <3>3. [h EXCEPT !.stage = "waiting"].ch = h.ch
      BY <3>2 DEF HandlerFields
    <3> QED BY <3>1, <3>3
  <2>2. CASE Applied(h, same) \/ TimedOut(h)
    BY <2>2 DEF Applied, TimedOut, Reply
  <2> QED BY <1>1, <2>1, <2>2
<1>8. KVType' /\ Feeds' /\ OnceEverywhere' /\ GoodEverywhere' /\ Answers'
  BY <1>2, <1>5, <1>7, ServersKept, AnswersKept
<1>9. ToldTrue'
  <2>1. CASE UNCHANGED clerkVars
    <3>1. UNCHANGED answer
      BY <2>1 DEF clerkVars
    <3> QED BY <1>2, <1>5, <3>1, ToldKept
  <2>2. CASE Answered(h, h.ch.value)
    <3> DEFINE b == h.op.me
               new == [op |-> h.op, value |-> h.ch.value, born |-> born[b]]
    <3>1. /\ h.op \in Op /\ b \in Client /\ born[b] \in Nat
          /\ \E n \in 1..Len(log) :
               /\ born[b] < n
               /\ IF h.op.type = "GET" THEN ~overtaken => h.ch.value = ValueAt(log, h.op.key, n)
                                       ELSE log[n] = h.op
      BY <2>2, AnswerIsTrue
    <3>2. new.op = h.op /\ new.value = h.ch.value /\ new.born = born[b]
      OBVIOUS
    <3>3. answer' = [answer EXCEPT ![b] = new] /\ DOMAIN answer = Client
      BY <2>2 DEF Answered, KVInv, ServiceInv, ServiceType
    <3> HIDE DEF new
    <3>4. TrueOf(log, new) /\ new.born \in Nat
      BY <3>1, <3>2 DEF TrueOf
    <3>5. ASSUME NEW c \in Client, answer'[c].op # NoOp
          PROVE  answer'[c].born \in Nat /\ TrueOf(log, answer'[c])
      <4>1. CASE c = b
        BY <3>1, <3>3, <3>4, <4>1
      <4>2. CASE c # b
        <5>1. answer'[c] = answer[c]
          BY <3>3, <4>2
        <5> QED BY <3>5, <5>1 DEF KVInv, ToldTrue
      <4> QED BY <4>1, <4>2
    <3> QED BY <1>2, <1>5, <3>5 DEF ToldTrue, TrueOf
  <2> QED BY <1>4, <2>1, <2>2
<1> QED BY <1>4, <1>6, <1>8, <1>9 DEF KVInv, raftVars

-----------------------------------------------------------------------------
(* The servers and what Raft sends them. *)

\* Snapshots come from snapshots, or from a server's own state.
LEMMA HeldStep ==
  ASSUME KVInv, UNCHANGED log, ~overtaken' => ~overtaken,
         \A r \in Server :
             /\ Once(SnapshotData(r)')
             /\ ~overtaken' => Good(log, SnapshotData(r)', upTo'[r]),
         \A r \in Server : \A d, n : IsHeld(r, d, n)' =>
             \/ \E q \in Server : IsHeld(q, d, n)
             \/ Once(d) /\ (~overtaken' => GoodOrNone(log, d, n))
  PROVE  OnceEverywhere' /\ GoodEverywhere'
<1>1. ASSUME NEW r \in Server, NEW d, NEW n, IsHeld(r, d, n)'
      PROVE  /\ d = NoOp \/ Once(d)
             /\ ~overtaken' => GoodOrNone(log, d, n)
  BY <1>1 DEF KVInv, OnceEverywhere, GoodEverywhere
<1>2. OnceEverywhere'
  BY <1>1 DEF OnceEverywhere
<1>3. GoodEverywhere'
  BY <1>1 DEF GoodEverywhere
<1> QED BY <1>2, <1>3

\* A step of Raft's goroutines: the servers' own states stay.
LEMMA RaftSideKeeps ==
  ASSUME KVInv, UNCHANGED <<serviceVars, kvVars>>, KVType', Feeds',
         \A r \in Server : \A d, n : IsHeld(r, d, n)' => \E q \in Server : IsHeld(q, d, n)
  PROVE  KVInv' /\ UNCHANGED <<log, clerkVars>>
<1>1. UNCHANGED <<raftVars, clerkVars, handlers, log, answer, overtaken, store, lastApplied,
                  lastIncludedIndex, upTo>>
  BY DEF serviceVars, raftVars, clerkVars, kvVars
<1>2. ServiceInv(Op)'
  BY <1>1, IdleStep DEF KVInv
<1>3. Answers' /\ ToldTrue'
  BY <1>1, AnswersKept, ToldKept
<1>4. \A r \in Server : /\ Once(SnapshotData(r)')
                        /\ ~overtaken' => Good(log, SnapshotData(r)', upTo'[r])
  <2>1. \A r \in Server : SnapshotData(r)' = SnapshotData(r)
    BY <1>1 DEF SnapshotData
  <2> QED BY <1>1, <2>1 DEF KVInv, OnceEverywhere, GoodEverywhere
<1>5. OnceEverywhere' /\ GoodEverywhere'
  BY <1>1, <1>4, HeldStep
<1> QED BY <1>1, <1>2, <1>3, <1>5 DEF KVInv

\* A send on applyCh keeps the invariant.
LEMMA SendKeeps ==
  ASSUME KVInv, NEW s \in Server, NEW msg \in unsent[s], Send(s, msg)
  PROVE  KVInv' /\ UNCHANGED <<log, clerkVars>>
<1>1. /\ applyCh' = [applyCh EXCEPT ![s] = Append(@, msg)]
      /\ unsent' = [unsent EXCEPT ![s] = @ \ {msg}]
      /\ UNCHANGED <<serviceVars, kvVars, delivered, compacted, snapshot, upTo, log>>
  BY DEF Send, kvVars, serviceVars, raftVars
<1>2. KVType'
  BY <1>1 DEF KVInv, KVType, kvVars
<1>3. /\ applyCh'[s] = Append(applyCh[s], msg) /\ unsent'[s] = unsent[s] \ {msg}
      /\ \A r \in Server \ {s} : applyCh'[r] = applyCh[r] /\ unsent'[r] = unsent[r]
  BY <1>1 DEF KVInv, KVType
<1>4. Feeds'
  <2>1. FeedOK(Append(applyCh[s], msg), unsent[s] \ {msg}, delivered[s], compacted[s], upTo[s])
    BY FeedSend DEF KVInv, Feeds
  <2> QED BY <1>1, <1>3, <2>1 DEF KVInv, Feeds
<1>5. ASSUME NEW r \in Server, NEW d, NEW n, IsHeld(r, d, n)' PROVE IsHeld(r, d, n)
  <2>1. CASE r = s
    <3>1. applyCh[s] \in Seq(Msg) /\ msg \in Msg
      BY DEF KVInv, Feeds, FeedOK
    <3>2. \A x : x \in Range(applyCh'[s]) <=> x \in Range(applyCh[s]) \/ x = msg
      BY <1>3, <3>1, RangeAppend
    <3> QED BY <1>1, <1>3, <1>5, <2>1, <3>2 DEF IsHeld
  <2>2. CASE r # s
    BY <1>1, <1>3, <1>5, <2>2 DEF IsHeld
  <2> QED BY <2>1, <2>2
<1> QED BY <1>1, <1>2, <1>4, <1>5, RaftSideKeeps

\* So does BackgroundApplyRoutine's choice of the next entry,
LEMMA DeliverKeeps ==
  ASSUME KVInv, NEW s \in Server, Deliver(s)
  PROVE  KVInv' /\ UNCHANGED <<log, clerkVars>>
<1> DEFINE msg == EntryMsg(delivered[s] + 1)
<1>1. /\ delivered' = [delivered EXCEPT ![s] = @ + 1]
      /\ unsent' = [unsent EXCEPT ![s] = @ \cup {msg}]
      /\ delivered[s] < Len(log) /\ \A m \in unsent[s] : m.kind # "entry"
      /\ UNCHANGED <<serviceVars, kvVars, applyCh, compacted, snapshot, upTo, log>>
  BY DEF Deliver, Emit, kvVars, serviceVars, raftVars
<1>2. KVType'
  BY <1>1 DEF KVInv, KVType, kvVars
<1>3. /\ unsent'[s] = unsent[s] \cup {msg} /\ delivered'[s] = delivered[s] + 1
      /\ \A r \in Server \ {s} : delivered'[r] = delivered[r] /\ unsent'[r] = unsent[r]
  BY <1>1 DEF KVInv, KVType
<1>4. Feeds'
  <2>1. FeedOK(applyCh[s], unsent[s] \cup {msg}, delivered[s] + 1, compacted[s], upTo[s])
    BY <1>1, FeedDeliver DEF KVInv, Feeds
  <2>2. delivered[s] + 1 <= Len(log)
    <3>1. delivered[s] \in Nat /\ log \in Seq(Op)
      BY DEF KVInv, Feeds, FeedOK, ServiceInv, ServiceType
    <3> QED BY <1>1, <3>1
  <2> HIDE DEF msg
  <2> QED BY <1>1, <1>3, <2>1, <2>2 DEF KVInv, Feeds
<1>5. IsEntry(msg)
  BY DEF EntryMsg, IsEntry
<1> HIDE DEF msg
<1>6. ASSUME NEW r \in Server, NEW d, NEW n, IsHeld(r, d, n)' PROVE IsHeld(r, d, n)
  BY <1>1, <1>3, <1>5, <1>6 DEF IsHeld
<1> QED BY <1>1, <1>2, <1>4, <1>6, RaftSideKeeps

\* InstallSnapshot,
LEMMA InstallKeeps ==
  ASSUME KVInv, NEW s \in Server, NEW r \in Server, InstallSnapshot(s, r)
  PROVE  KVInv' /\ UNCHANGED <<log, clerkVars>>
<1> DEFINE msg == SnapshotMsg(compacted[r], snapshot[r])
<1>1. /\ compacted[r] > compacted[s]
      /\ compacted' = [compacted EXCEPT ![s] = compacted[r]]
      /\ delivered' = [delivered EXCEPT ![s] = Larger(@, compacted[r])]
      /\ snapshot' = [snapshot EXCEPT ![s] = snapshot[r]]
      /\ unsent' = [unsent EXCEPT ![s] = @ \cup {msg}]
      /\ UNCHANGED <<serviceVars, kvVars, applyCh, upTo, log>>
  BY DEF InstallSnapshot, Emit, kvVars, serviceVars, raftVars
<1>2. KVType'
  BY <1>1 DEF KVInv, KVType, kvVars
<1>3. /\ unsent'[s] = unsent[s] \cup {msg} /\ delivered'[s] = Larger(delivered[s], compacted[r])
      /\ compacted'[s] = compacted[r] /\ snapshot'[s] = snapshot[r]
      /\ \A q \in Server \ {s} : /\ delivered'[q] = delivered[q] /\ unsent'[q] = unsent[q]
                                 /\ compacted'[q] = compacted[q] /\ snapshot'[q] = snapshot[q]
  BY <1>1 DEF KVInv, KVType
<1>4. snapshot[r] \in Data \cup {NoOp} /\ compacted[r] \in Nat
  BY DEF KVInv, KVType, Feeds, FeedOK
<1>5. Feeds'
  <2>1. FeedOK(applyCh[s], unsent[s] \cup {msg}, Larger(delivered[s], compacted[r]),
               compacted[r], upTo[s])
    BY <1>1, <1>4, FeedInstall DEF KVInv, Feeds
  <2>2. Larger(delivered[s], compacted[r]) <= Len(log)
    <3>1. delivered[s] <= Len(log)
      BY DEF KVInv, Feeds
    <3>2. delivered[r] <= Len(log) /\ compacted[r] <= delivered[r] /\ delivered[r] \in Nat
      BY DEF KVInv, Feeds, FeedOK
    <3>3. Len(log) \in Nat
      BY DEF KVInv, ServiceInv, ServiceType
    <3> QED BY <1>4, <3>1, <3>2, <3>3 DEF Larger
  <2> HIDE DEF msg
  <2> QED BY <1>1, <1>3, <2>1, <2>2 DEF KVInv, Feeds
<1>6. ~IsEntry(msg) /\ msg.data = snapshot[r] /\ msg.idx = compacted[r]
  BY DEF SnapshotMsg, IsEntry
<1> HIDE DEF msg
<1>7. ASSUME NEW q \in Server, NEW d, NEW n, IsHeld(q, d, n)'
      PROVE  IsHeld(q, d, n) \/ IsHeld(r, d, n)
  <2>1. CASE q = s
    BY <1>1, <1>3, <1>6, <1>7, <2>1 DEF IsHeld
  <2>2. CASE q # s
    BY <1>1, <1>3, <1>7, <2>2 DEF IsHeld
  <2> QED BY <2>1, <2>2
<1> QED BY <1>1, <1>2, <1>5, <1>7, RaftSideKeeps

\* and a restart from what the disk holds.
LEMMA RestartKeeps ==
  ASSUME KVInv, NEW s \in Server, StartKVServer(s)
  PROVE  KVInv' /\ UNCHANGED <<log, clerkVars>>
<1> DEFINE msg == SnapshotMsg(compacted[s], snapshot[s])
<1>1. /\ CrashService(s)
      /\ store' = [store EXCEPT ![s] = [k \in Key |-> <<>>]]
      /\ lastApplied' = [lastApplied EXCEPT ![s] = [c \in Client |-> 0]]
      /\ lastIncludedIndex' = [lastIncludedIndex EXCEPT ![s] = 0]
      /\ upTo' = [upTo EXCEPT ![s] = 0]
      /\ delivered' = [delivered EXCEPT ![s] = compacted[s]]
      /\ applyCh' = [applyCh EXCEPT ![s] = <<msg>>]
      /\ unsent' = [unsent EXCEPT ![s] = {}]
      /\ UNCHANGED <<overtaken, compacted, snapshot>>
      /\ UNCHANGED <<log, answer, clerkVars>> /\ handlers' \subseteq handlers
  BY DEF StartKVServer, CrashService, raftVars, clerkVars
<1>2. KVType'
  <2>1. <<>> \in Seq(Value)
    OBVIOUS
  <2> QED BY <1>1, <2>1 DEF KVInv, KVType
<1>3. /\ SnapshotData(s)' = EmptyData /\ upTo'[s] = 0 /\ delivered'[s] = compacted[s]
      /\ applyCh'[s] = <<msg>> /\ unsent'[s] = {}
  BY <1>1 DEF KVInv, KVType, SnapshotData, EmptyData
<1>4. \A q \in Server \ {s} : /\ SnapshotData(q)' = SnapshotData(q) /\ upTo'[q] = upTo[q]
                              /\ delivered'[q] = delivered[q] /\ applyCh'[q] = applyCh[q]
                              /\ unsent'[q] = unsent[q]
  BY <1>1 DEF KVInv, KVType, SnapshotData
<1>5. /\ snapshot[s] \in Data \cup {NoOp} /\ compacted[s] \in Nat /\ delivered[s] \in Nat
      /\ compacted[s] <= delivered[s] /\ delivered[s] <= Len(log)
      /\ log \in Seq(Op) /\ Len(log) \in Nat
  BY DEF KVInv, KVType, Feeds, FeedOK, ServiceInv, ServiceType
<1>6. Feeds'
  <2>1. FeedOK(<<msg>>, {}, compacted[s], compacted[s], 0)
    BY <1>5, FeedEmpty
  <2>2. compacted[s] <= Len(log)
    BY <1>5
  <2> HIDE DEF msg
  <2> QED BY <1>1, <1>3, <1>4, <2>1, <2>2 DEF KVInv, Feeds
<1>7. ~IsEntry(msg) /\ msg.data = snapshot[s] /\ msg.idx = compacted[s]
  BY DEF SnapshotMsg, IsEntry
<1> HIDE DEF msg
<1>8. ASSUME NEW q \in Server, NEW d, NEW n, IsHeld(q, d, n)' PROVE IsHeld(q, d, n)
  <2>1. CASE q = s
    <3>1. Range(<<msg>>) = {msg}
      BY DEF Range
    <3> QED BY <1>1, <1>3, <1>7, <1>8, <2>1, <3>1 DEF IsHeld
  <2>2. CASE q # s
    BY <1>1, <1>4, <1>8, <2>2 DEF IsHeld
  <2> QED BY <2>1, <2>2
<1>9. \A q \in Server : /\ Once(SnapshotData(q)')
                        /\ ~overtaken' => Good(log, SnapshotData(q)', upTo'[q])
  <2>1. Good(log, EmptyData, 0)
    BY <1>5, GoodEmpty DEF EmptyData
  <2> QED BY <1>1, <1>3, <1>4, <2>1, EmptyOnce DEF KVInv, OnceEverywhere, GoodEverywhere
<1>10. OnceEverywhere' /\ GoodEverywhere'
  BY <1>1, <1>8, <1>9, HeldStep
<1>11. ServiceInv(Op)'
  BY <1>1, OpIsOpSet, CrashStep DEF KVInv
<1>12. Answers' /\ ToldTrue'
  BY <1>1, AnswersKept, ToldKept
<1> QED BY <1>1, <1>2, <1>6, <1>10, <1>11, <1>12 DEF KVInv

\* ApplyRoutine taking a snapshot from applyCh keeps the invariant.
LEMMA ApplySnapshotKeeps ==
  ASSUME KVInv, NEW s \in Server, ApplySnapshot(s)
  PROVE  KVInv' /\ UNCHANGED <<log, clerkVars>>
<1> DEFINE msg == Head(applyCh[s])
           data == msg.data
           d == SnapshotData(s)
           adopt == data # NoOp /\ data.lastIncludedIndex > lastIncludedIndex[s]
<1>1. /\ applyCh[s] # <<>> /\ msg.kind = "snapshot"
      /\ IF adopt
         THEN /\ store' = [store EXCEPT ![s] = data.store]
              /\ lastApplied' = [lastApplied EXCEPT ![s] = data.lastApplied]
              /\ lastIncludedIndex' = [lastIncludedIndex EXCEPT ![s] = data.lastIncludedIndex]
         ELSE UNCHANGED <<store, lastApplied, lastIncludedIndex>>
      /\ upTo' = [upTo EXCEPT ![s] = Larger(@, msg.idx)]
      /\ applyCh' = [applyCh EXCEPT ![s] = Tail(@)]
      /\ UNCHANGED <<overtaken, unsent, delivered, compacted, snapshot>>
      /\ UNCHANGED <<log, answer, raftVars, clerkVars, handlers>>
  BY DEF ApplySnapshot, Newer, serviceVars, raftVars, clerkVars
<1>t. /\ FeedOK(applyCh[s], unsent[s], delivered[s], compacted[s], upTo[s])
      /\ log \in Seq(Op) /\ upTo[s] \in Nat /\ compacted[s] \in Nat
  BY DEF KVInv, Feeds, FeedOK, ServiceInv, ServiceType
<1>2. /\ FeedOK(Tail(applyCh[s]), unsent[s], delivered[s], compacted[s], Larger(upTo[s], msg.idx))
      /\ msg \in Range(applyCh[s]) /\ msg \in Msg
      /\ \A m \in Range(Tail(applyCh[s])) : m \in Range(applyCh[s])
  BY <1>1, <1>t, FeedTake
<1>3. ~IsEntry(msg) /\ data \in Data \cup {NoOp} /\ msg.idx \in Nat /\ IsHeld(s, data, msg.idx)
  BY <1>1, <1>2 DEF IsEntry, Msg, IsHeld
<1>4. d \in Data /\ d.lastIncludedIndex = lastIncludedIndex[s]
  BY DEF KVInv, KVType, SnapshotData, Data, Value
<1> HIDE DEF msg
<1>5. SnapshotData(s)' = (IF adopt THEN data ELSE d) /\ KVType'
  <2>1. CASE adopt
    <3>1. data \in Data
      BY <1>3, <2>1
    <3> HIDE DEF data
    <3>2. data = [store |-> data.store, lastApplied |-> data.lastApplied,
                  lastIncludedIndex |-> data.lastIncludedIndex]
      BY <3>1 DEF Data
    <3>3. /\ data.store \in [Key -> Seq(Value)] /\ data.lastApplied \in [Client -> Nat]
          /\ data.lastIncludedIndex \in Nat
      BY <3>1 DEF Data, Value
    <3>4. /\ store' = [store EXCEPT ![s] = data.store]
          /\ lastApplied' = [lastApplied EXCEPT ![s] = data.lastApplied]
          /\ lastIncludedIndex' = [lastIncludedIndex EXCEPT ![s] = data.lastIncludedIndex]
      BY <1>1, <2>1 DEF data
    <3>5. /\ store'[s] = data.store /\ lastApplied'[s] = data.lastApplied
          /\ lastIncludedIndex'[s] = data.lastIncludedIndex
      BY <3>4 DEF KVInv, KVType
    <3>6. SnapshotData(s)' = data
      BY <3>2, <3>5 DEF SnapshotData
    <3>7. KVType'
      BY <1>1, <3>3, <3>4 DEF KVInv, KVType
    <3> QED BY <2>1, <3>6, <3>7
  <2>2. CASE ~adopt
    <3>1. UNCHANGED <<store, lastApplied, lastIncludedIndex>>
      BY <1>1, <2>2
    <3> QED BY <1>1, <2>2, <3>1 DEF KVInv, KVType, SnapshotData
  <2> QED BY <2>1, <2>2
<1>6. \A q \in Server \ {s} : SnapshotData(q)' = SnapshotData(q)
  <2>1. CASE adopt
    BY <1>1, <2>1 DEF KVInv, KVType, SnapshotData
  <2>2. CASE ~adopt
    BY <1>1, <2>2 DEF SnapshotData
  <2> QED BY <2>1, <2>2
<1>7. /\ upTo'[s] = Larger(upTo[s], msg.idx) /\ applyCh'[s] = Tail(applyCh[s])
      /\ \A q \in Server \ {s} : upTo'[q] = upTo[q] /\ applyCh'[q] = applyCh[q]
  BY <1>1 DEF KVInv, KVType
<1> HIDE DEF data
<1>8. Feeds'
  BY <1>1, <1>2, <1>7 DEF KVInv, Feeds
<1>9. ASSUME NEW q \in Server, NEW e, NEW n, IsHeld(q, e, n)' PROVE IsHeld(q, e, n)
  <2>1. CASE q = s
    BY <1>1, <1>2, <1>7, <1>9, <2>1 DEF IsHeld
  <2>2. CASE q # s
    BY <1>1, <1>7, <1>9, <2>2 DEF IsHeld
  <2> QED BY <2>1, <2>2
<1>10. ASSUME NEW q \in Server
       PROVE  /\ Once(SnapshotData(q)')
              /\ ~overtaken' => Good(log, SnapshotData(q)', upTo'[q])
  <2>1. CASE q # s
    BY <1>1, <1>6, <1>7, <2>1 DEF KVInv, OnceEverywhere, GoodEverywhere
  <2>2. CASE q = s
    <3>1. Once(SnapshotData(s)')
      <4>1. adopt => Once(data)
        BY <1>3 DEF KVInv, OnceEverywhere
      <4>2. Once(d)
        BY DEF KVInv, OnceEverywhere
      <4> QED BY <1>5, <4>1, <4>2
    <3>2. ASSUME ~overtaken PROVE Good(log, SnapshotData(s)', Larger(upTo[s], msg.idx))
      <4>1. Good(log, d, upTo[s]) /\ GoodOrNone(log, data, msg.idx)
        BY <1>3, <3>2 DEF KVInv, GoodEverywhere
      <4>2. CASE data = NoOp
        <5>1. msg.idx = 0
          BY <4>1, <4>2 DEF GoodOrNone
        <5>2. Larger(upTo[s], msg.idx) = upTo[s]
          BY <1>t, <5>1 DEF Larger
        <5> QED BY <1>5, <4>1, <4>2, <5>2
      <4>3. CASE data # NoOp
        <5>1. data \in Data /\ Good(log, data, msg.idx)
          BY <1>3, <4>1, <4>3 DEF GoodOrNone
        <5> HIDE DEF d
        <5>2. Good(log, IF data.lastIncludedIndex > d.lastIncludedIndex THEN data ELSE d,
                   Larger(upTo[s], msg.idx))
          BY <1>t, <1>3, <1>4, <4>1, <5>1, GoodSnapshot
        <5> QED BY <1>4, <1>5, <4>3, <5>2
      <4> QED BY <4>2, <4>3
    <3> QED BY <1>1, <1>7, <2>2, <3>1, <3>2
  <2> QED BY <2>1, <2>2
<1>11. OnceEverywhere' /\ GoodEverywhere'
  BY <1>1, <1>9, <1>10, HeldStep
<1>12. ServiceInv(Op)'
  BY <1>1, IdleStep DEF KVInv
<1>13. Answers' /\ ToldTrue'
  BY <1>1, AnswersKept, ToldKept
<1> QED BY <1>1, <1>5, <1>8, <1>11, <1>12, <1>13 DEF KVInv

\* The fields of what ApplyRoutine puts into a channel.
LEMMA GetFields ==
  ASSUME NEW x \in Op, NEW v
  PROVE  SameName([x EXCEPT !.value = v], x) /\ [x EXCEPT !.value = v].value = v
  BY OpFields DEF SameName

\* What ApplyRoutine makes of an entry, in the terms above.
LEMMA ApplyEntryIs ==
  ASSUME KVInv, NEW s \in Server, ApplyEntry(s)
  PROVE  LET msg == Head(applyCh[s])
             idx == msg.idx
             op == log[idx]
             d == SnapshotData(s)
         IN
         /\ applyCh[s] # <<>> /\ IsEntry(msg)
         /\ idx \in 1..Len(log) /\ idx \in 1..delivered[s] /\ op \in Op /\ d \in Data
         /\ SnapshotData(s)' = AppliedTo(d, op, idx)
         /\ \A q \in Server \ {s} : SnapshotData(q)' = SnapshotData(q)
         /\ upTo' = [upTo EXCEPT ![s] = Larger(@, idx)]
         /\ overtaken' = (overtaken \/ idx > upTo[s] + 1)
         /\ Notify(s, idx, IF op.type = "GET" THEN [op EXCEPT !.value = store[s][op.key]] ELSE op)
         /\ \/ UNCHANGED <<snapshot, compacted>>
            \/ /\ Snapshots
               /\ idx \in (compacted[s] + 1)..delivered[s]
               /\ compacted' = [compacted EXCEPT ![s] = idx]
               /\ snapshot' = [snapshot EXCEPT ![s] = SnapshotData(s)']
         /\ applyCh' = [applyCh EXCEPT ![s] = Tail(@)]
         /\ UNCHANGED <<raftVars, clerkVars, unsent, delivered>>
         /\ KVType'
<1> DEFINE msg == Head(applyCh[s])
           idx == msg.idx
           op == log[idx]
           d == SnapshotData(s)
<1>1. /\ applyCh[s] # <<>> /\ IsEntry(msg)
      /\ upTo' = [upTo EXCEPT ![s] = Larger(@, idx)]
      /\ overtaken' = (overtaken \/ idx > upTo[s] + 1)
      /\ Notify(s, idx, IF op.type = "GET" THEN [op EXCEPT !.value = store[s][op.key]] ELSE op)
      /\ \/ UNCHANGED <<snapshot, compacted>>
         \/ /\ Snapshots
            /\ idx \in (compacted[s] + 1)..delivered[s]
            /\ compacted' = [compacted EXCEPT ![s] = idx]
            /\ snapshot' = [snapshot EXCEPT ![s] = SnapshotData(s)']
      /\ applyCh' = [applyCh EXCEPT ![s] = Tail(@)]
      /\ UNCHANGED <<raftVars, clerkVars, unsent, delivered>>
  BY DEF ApplyEntry, IsEntry
<1>2. IF op.type # "GET" /\ lastApplied[s][op.me] < op.reqId
      THEN /\ store' = [store EXCEPT ![s] = handlePutAppend(@, op)]
           /\ lastApplied' = [lastApplied EXCEPT ![s][op.me] = op.reqId]
           /\ lastIncludedIndex' = [lastIncludedIndex EXCEPT ![s] = idx]
      ELSE UNCHANGED <<store, lastApplied, lastIncludedIndex>>
  BY DEF ApplyEntry, FirstTime
<1>3. /\ FeedOK(applyCh[s], unsent[s], delivered[s], compacted[s], upTo[s])
      /\ delivered[s] <= Len(log) /\ delivered[s] \in Nat /\ Len(log) \in Nat /\ log \in Seq(Op)
      /\ compacted[s] \in Nat
  BY DEF KVInv, Feeds, FeedOK, ServiceInv, ServiceType
<1>4. msg \in Range(applyCh[s])
  <2>1. compacted[s] = compacted[s] /\ compacted[s] \in Nat
    BY <1>3
  <2> QED BY <1>1, <1>3, <2>1, FeedTake
<1>5. idx \in 1..delivered[s]
  BY <1>1, <1>3, <1>4 DEF FeedOK
<1>6. idx \in 1..Len(log) /\ idx \in Nat
  BY <1>3, <1>5
<1>7. op \in Op
  BY <1>3, <1>6
<1>8. /\ d \in Data /\ d.store = store[s] /\ d.lastApplied = lastApplied[s]
      /\ d.lastIncludedIndex = lastIncludedIndex[s]
  BY DEF KVInv, KVType, SnapshotData, Data, Value
<1> HIDE DEF op, idx, msg
<1>9. /\ store[s] \in [Key -> Seq(Value)] /\ lastApplied[s] \in [Client -> Nat]
      /\ DOMAIN store = Server /\ DOMAIN lastApplied = Server /\ DOMAIN lastIncludedIndex = Server
  BY DEF KVInv, KVType
<1>10. /\ SnapshotData(s)' = AppliedTo(d, op, idx)
       /\ \A q \in Server \ {s} : SnapshotData(q)' = SnapshotData(q)
       /\ store' \in [Server -> [Key -> Seq(Value)]]
       /\ lastApplied' \in [Server -> [Client -> Nat]]
       /\ lastIncludedIndex' \in [Server -> Nat]
  <2>1. CASE op.type # "GET" /\ lastApplied[s][op.me] < op.reqId
    <3>1. /\ store' = [store EXCEPT ![s] = handlePutAppend(@, op)]
          /\ lastApplied' = [lastApplied EXCEPT ![s][op.me] = op.reqId]
          /\ lastIncludedIndex' = [lastIncludedIndex EXCEPT ![s] = idx]
      BY <1>2, <2>1
    <3>2. /\ store'[s] = handlePutAppend(store[s], op)
          /\ lastApplied'[s] = [lastApplied[s] EXCEPT ![op.me] = op.reqId]
          /\ lastIncludedIndex'[s] = idx
          /\ \A q \in Server \ {s} : /\ store'[q] = store[q] /\ lastApplied'[q] = lastApplied[q]
                                     /\ lastIncludedIndex'[q] = lastIncludedIndex[q]
      BY <1>9, <3>1
    <3>3. SnapshotData(s)' = AppliedTo(d, op, idx)
      BY <1>8, <2>1, <3>2 DEF SnapshotData, AppliedTo
    <3>4. /\ handlePutAppend(store[s], op) \in [Key -> Seq(Value)]
          /\ [lastApplied[s] EXCEPT ![op.me] = op.reqId] \in [Client -> Nat]
      BY <1>7, <1>9, PutAppendAt, OpFields
    <3>5. /\ store' \in [Server -> [Key -> Seq(Value)]]
          /\ lastApplied' \in [Server -> [Client -> Nat]]
          /\ lastIncludedIndex' \in [Server -> Nat]
      BY <1>6, <3>1, <3>4 DEF KVInv, KVType
    <3> QED BY <3>2, <3>3, <3>5 DEF SnapshotData
  <2>2. CASE ~(op.type # "GET" /\ lastApplied[s][op.me] < op.reqId)
    <3>1. UNCHANGED <<store, lastApplied, lastIncludedIndex>>
      BY <1>2, <2>2
    <3>2. AppliedTo(d, op, idx) = d
      BY <1>8, <2>2 DEF AppliedTo
    <3> QED BY <3>1, <3>2 DEF SnapshotData, KVInv, KVType
  <2> QED BY <2>1, <2>2
<1>11. AppliedTo(d, op, idx) \in Data
  BY <1>6, <1>7, <1>8, AppliedData
<1>12. KVType'
  <2>1. snapshot' \in [Server -> Data \cup {NoOp}] /\ DOMAIN compacted' = Server
    <3>1. SnapshotData(s)' \in Data
      BY <1>10, <1>11
    <3>2. snapshot \in [Server -> Data \cup {NoOp}] /\ DOMAIN compacted = Server
      BY DEF KVInv, KVType
    <3>3. \/ UNCHANGED <<snapshot, compacted>>
          \/ /\ compacted' = [compacted EXCEPT ![s] = idx]
             /\ snapshot' = [snapshot EXCEPT ![s] = SnapshotData(s)']
      BY <1>1
    <3>4. [snapshot EXCEPT ![s] = SnapshotData(s)'] \in [Server -> Data \cup {NoOp}]
      BY <3>1, <3>2
    <3> QED BY <3>2, <3>3, <3>4
  <2>2. /\ DOMAIN applyCh' = Server /\ DOMAIN unsent' = Server /\ DOMAIN delivered' = Server
        /\ DOMAIN upTo' = Server
    BY <1>1 DEF KVInv, KVType
  <2>3. overtaken' \in BOOLEAN
    BY <1>1
  <2> QED BY <1>10, <2>1, <2>2, <2>3 DEF KVType
<1> QED BY <1>1, <1>5, <1>6, <1>7, <1>8, <1>10, <1>12 DEF op, idx, msg

\* ApplyRoutine taking an entry from applyCh keeps the invariant: it is applied unless the
\* table of the last operations has it, and whoever waits for its index is told.
LEMMA ApplyEntryKeeps ==
  ASSUME KVInv, NEW s \in Server, ApplyEntry(s)
  PROVE  KVInv' /\ UNCHANGED <<log, clerkVars>>
<1> DEFINE msg == Head(applyCh[s])
           idx == msg.idx
           op == log[idx]
           d == SnapshotData(s)
           e == AppliedTo(d, op, idx)
           up == upTo[s]
           got == IF op.type = "GET" THEN [op EXCEPT !.value = store[s][op.key]] ELSE op
<1>1. /\ applyCh[s] # <<>> /\ IsEntry(msg)
      /\ idx \in 1..Len(log) /\ idx \in 1..delivered[s] /\ op \in Op /\ d \in Data
      /\ SnapshotData(s)' = e
      /\ \A q \in Server \ {s} : SnapshotData(q)' = SnapshotData(q)
      /\ upTo' = [upTo EXCEPT ![s] = Larger(@, idx)]
      /\ overtaken' = (overtaken \/ idx > up + 1)
      /\ Notify(s, idx, got)
      /\ \/ UNCHANGED <<snapshot, compacted>>
         \/ /\ Snapshots
            /\ idx \in (compacted[s] + 1)..delivered[s]
            /\ compacted' = [compacted EXCEPT ![s] = idx]
            /\ snapshot' = [snapshot EXCEPT ![s] = e]
      /\ applyCh' = [applyCh EXCEPT ![s] = Tail(@)]
      /\ UNCHANGED <<raftVars, clerkVars, unsent, delivered>>
      /\ KVType'
  BY ApplyEntryIs
<1>2. UNCHANGED <<log, answer>>
  BY <1>1 DEF raftVars, clerkVars
<1>t. /\ FeedOK(applyCh[s], unsent[s], delivered[s], compacted[s], up)
      /\ log \in Seq(Op) /\ Len(log) \in Nat /\ up \in Nat /\ compacted[s] \in Nat
      /\ delivered[s] \in Nat /\ delivered[s] <= Len(log) /\ up <= delivered[s]
  <2> HIDE DEF msg, idx, op, d, e, got
  <2>1. log \in Seq(Op) /\ Len(log) \in Nat
    BY DEF KVInv, ServiceInv, ServiceType
  <2>2. FeedOK(applyCh[s], unsent[s], delivered[s], compacted[s], up) /\ delivered[s] <= Len(log)
    BY DEF KVInv, Feeds
  <2>3. /\ up \in Nat /\ compacted[s] \in Nat /\ delivered[s] \in Nat /\ up <= delivered[s]
    <3> HIDE DEF up
    <3> QED BY <2>2 DEF FeedOK
  <2> QED BY <2>1, <2>2, <2>3
<1>3. /\ idx \in Nat /\ idx > 0 /\ idx <= Len(log) /\ up <= Len(log)
      /\ ~overtaken' => ~overtaken /\ idx <= up + 1
  <2> HIDE DEF msg, idx, op, d, e, got, up
  <2>1. idx \in Nat /\ idx > 0 /\ idx <= Len(log) /\ up <= Len(log)
    <3>1. idx \in 1..Len(log)
      BY <1>1
    <3> QED BY <3>1, <1>t
  <2>2. overtaken' = (overtaken \/ idx > up + 1)
    BY <1>1
  <2>3. ~(idx > up + 1) => idx <= up + 1
    BY <2>1, <1>t
  <2> HIDE <1>1, <1>t, <2>1
  <2> QED BY <2>1, <2>2, <2>3, Zenon
<1>4. d.store = store[s]
  BY DEF SnapshotData
<1>5. op.key \in Key
  BY <1>1, OpFields
<1> HIDE DEF op, idx
<1>6. Once(e)
  <2>1. Once(d)
    BY DEF KVInv, OnceEverywhere
  <2> HIDE DEF d
  <2> QED BY <1>1, <1>3, <2>1, AppliedStaysOnce
\* The index the server is at after the entry, and the data it has there.
<1>7. ASSUME ~overtaken'
      PROVE  /\ Good(log, e, Larger(up, idx))
             /\ op.type = "GET" => d.store[op.key] = ValueAt(log, op.key, Larger(up, idx))
  <2>1. Good(log, d, up) /\ ServiceInv(Op) /\ idx <= up + 1
    BY <1>3, <1>7 DEF KVInv, GoodEverywhere
  <2>2. CASE idx = up + 1
    <3>1. Larger(up, idx) = up + 1
      BY <1>t, <2>2 DEF Larger
    <3>2. op = log[up + 1] /\ e = AppliedTo(d, log[up + 1], up + 1) /\ up + 1 <= Len(log)
      BY <1>3, <2>2 DEF op
    <3> HIDE DEF d, e, up
    <3>3. /\ Good(log, AppliedTo(d, log[up + 1], up + 1), up + 1)
          /\ log[up + 1].type = "GET" =>
               \A k \in Key : d.store[k] = ValueAfter(EffectiveOf(log, up + 1, "GET"), k)
      BY <1>t, <1>1, <2>1, <3>2, GoodNext
    <3> QED BY <1>5, <3>1, <3>2, <3>3 DEF ValueAt
  <2>3. CASE idx <= up
    <3>1. Larger(up, idx) = up /\ idx \in 1..up
      BY <1>t, <1>3, <2>3 DEF Larger
    <3> HIDE DEF d, up
    <3>2. AppliedTo(d, log[idx], idx) = d
      BY <1>t, <1>1, <2>1, <3>1, GoodOld
    <3>3. e = d
      BY <3>2 DEF op
    <3>4. d.store[op.key] = ValueAt(log, op.key, up)
      BY <1>5, <2>1 DEF Good, ValueAt
    <3> QED BY <2>1, <3>1, <3>3, <3>4
  <2> QED BY <1>3, <1>t, <2>1, <2>2, <2>3
<1>8. /\ upTo'[s] = Larger(up, idx) /\ applyCh'[s] = Tail(applyCh[s])
      /\ \A q \in Server \ {s} : upTo'[q] = upTo[q] /\ applyCh'[q] = applyCh[q]
  BY <1>1 DEF KVInv, KVType
<1>9. PICK c2 \in Nat :
        /\ compacted'[s] = c2
        /\ \/ c2 = compacted[s] /\ snapshot'[s] = snapshot[s]
           \/ c2 = idx /\ c2 > compacted[s] /\ snapshot'[s] = e
        /\ \A q \in Server \ {s} : compacted'[q] = compacted[q] /\ snapshot'[q] = snapshot[q]
  <2>1. DOMAIN compacted = Server /\ DOMAIN snapshot = Server
    BY DEF KVInv, KVType
  <2>2. CASE UNCHANGED <<snapshot, compacted>>
    BY <1>t, <2>2
  <2>3. CASE /\ idx \in (compacted[s] + 1)..delivered[s]
             /\ compacted' = [compacted EXCEPT ![s] = idx]
             /\ snapshot' = [snapshot EXCEPT ![s] = e]
    <3>1. idx > compacted[s]
      BY <1>t, <2>3
    <3> HIDE DEF e
    <3> QED BY <1>3, <2>1, <2>3, <3>1
  <2> QED BY <1>1, <2>2, <2>3
<1>10. /\ FeedOK(Tail(applyCh[s]), unsent[s], delivered[s], c2, Larger(up, idx))
       /\ msg \in Range(applyCh[s])
       /\ \A m \in Range(Tail(applyCh[s])) : m \in Range(applyCh[s])
  BY <1>1, <1>t, <1>9, FeedTake DEF idx
<1>11. Feeds'
  BY <1>1, <1>2, <1>8, <1>9, <1>10 DEF KVInv, Feeds
\* A snapshot is taken only at the index the server is at.
<1>12. c2 = compacted[s] \/ Larger(up, idx) = idx
  <2>1. idx > up \/ idx <= compacted[s]
    BY <1>1, <1>t, <1>10 DEF FeedOK, idx
  <2> QED BY <1>3, <1>t, <1>9, <2>1 DEF Larger
<1> HIDE DEF e, d, got, up
<1>13. ASSUME NEW q \in Server, NEW b, NEW n, IsHeld(q, b, n)'
       PROVE  \/ \E r \in Server : IsHeld(r, b, n)
              \/ Once(b) /\ (~overtaken' => GoodOrNone(log, b, n))
  <2>1. CASE q # s
    <3>1. IsHeld(q, b, n)
      BY <1>1, <1>8, <1>9, <1>13, <2>1 DEF IsHeld
    <3> QED BY <3>1
  <2>2. CASE q = s
    <3>1. \/ b = snapshot'[s] /\ n = c2
          \/ \E m \in Range(Tail(applyCh[s])) \cup unsent[s] : ~IsEntry(m) /\ b = m.data /\ n = m.idx
      BY <1>1, <1>8, <1>9, <1>13, <2>2 DEF IsHeld
    <3>2. CASE \E m \in Range(Tail(applyCh[s])) \cup unsent[s] :
                  ~IsEntry(m) /\ b = m.data /\ n = m.idx
      BY <1>10, <3>2 DEF IsHeld
    <3>3. CASE b = snapshot'[s] /\ n = c2 /\ c2 = compacted[s] /\ snapshot'[s] = snapshot[s]
      BY <3>3 DEF IsHeld
    <3>4. CASE b = e /\ n = idx /\ c2 = idx /\ c2 > compacted[s]
      <4>1. Larger(up, idx) = idx
        BY <1>12, <1>t, <1>3, <3>4
      <4>2. ~overtaken' => Good(log, e, idx)
        BY <1>7, <4>1
      <4>3. e # NoOp
        <5>1. e \in Data
          BY <1>1, <1>3, AppliedData DEF e
        <5> QED BY <5>1, NoOpAssumption
      <4> QED BY <1>6, <3>4, <4>2, <4>3 DEF GoodOrNone
    <3> QED BY <1>9, <3>1, <3>2, <3>3, <3>4
  <2> QED BY <2>1, <2>2
<1>14. ASSUME NEW q \in Server
       PROVE  /\ Once(SnapshotData(q)')
              /\ ~overtaken' => Good(log, SnapshotData(q)', upTo'[q])
  <2>1. CASE q # s
    BY <1>1, <1>3, <1>8, <2>1 DEF KVInv, OnceEverywhere, GoodEverywhere
  <2>2. CASE q = s
    BY <1>1, <1>6, <1>7, <1>8, <2>2
  <2> QED BY <2>1, <2>2
<1>15. OnceEverywhere' /\ GoodEverywhere'
  BY <1>2, <1>3, <1>13, <1>14, HeldStep
<1>16. SameName(got, op) /\ (op.type = "GET" => got.value = store[s][op.key])
  BY <1>1, GetFields DEF got, SameName
<1>17. ServiceInv(Op)'
  <2>1. \E n \in 1..Len(log) : SameName(got, log[n])
    BY <1>1, <1>16 DEF op
  <2> QED BY <1>1, <2>1, OpIsOpSet, NotifyStep DEF KVInv
<1>18. Answers'
  <2>1. ASSUME NEW k \in handlers', k.ch # NoOp
        PROVE  \E n, m \in 1..Len(log) :
                  /\ n <= m /\ SameName(k.ch, log[n])
                  /\ ~overtaken' /\ log[n].type = "GET" => k.ch.value = ValueAt(log, log[n].key, m)
    <3>1. PICK h \in handlers : k = h \/ k = [h EXCEPT !.ch = got]
      BY <1>1 DEF Notify
    <3>2. CASE k = h
      <4>1. AnswerTo(log, h.ch)
        BY <2>1, <3>2 DEF KVInv, Answers
      <4> QED BY <1>3, <3>2, <4>1 DEF AnswerTo
    <3>3. CASE k = [h EXCEPT !.ch = got]
      <4>1. DOMAIN h = HandlerFields
        BY DEF KVInv, ServiceInv, ServiceType
      <4>2. k.ch = got
        BY <3>3, <4>1 DEF HandlerFields
      <4>3. PICK m \in 1..Len(log) : m = Larger(up, idx) /\ idx <= m
        BY <1>3, <1>t DEF Larger
      <4>4. SameName(got, log[idx]) /\ idx \in 1..Len(log)
        BY <1>1, <1>16 DEF op
      <4>5. ~overtaken' /\ log[idx].type = "GET" => got.value = ValueAt(log, log[idx].key, m)
        BY <1>4, <1>7, <1>16, <4>3 DEF op
      <4> QED BY <4>2, <4>3, <4>4, <4>5
    <3> QED BY <3>1, <3>2, <3>3
  <2> QED BY <1>2, <2>1 DEF Answers, AnswerTo
<1>19. ToldTrue'
  BY <1>2, <1>3, ToldKept
<1> QED BY <1>1, <1>2, <1>11, <1>15, <1>17, <1>18, <1>19 DEF KVInv

\* Every action of the service, and a step of none.
LEMMA KVInvStep == KVInv /\ [Next]_vars => KVInv'
<1> SUFFICES ASSUME KVInv, [Next]_vars PROVE KVInv'
  OBVIOUS
<1>1. CASE \E c \in Client : \E op \in Ops : Submit(c, op)
  BY <1>1, SubmitKeeps
<1>2. CASE \E c \in Client : \E s \in Server : Serve(c, s)
  BY <1>2, ServeKeeps
<1>3. CASE \E h \in handlers : HandlerStep(h)
  BY <1>3, HandlerKeeps
<1>4. CASE Agree
  BY <1>4, AgreeKeeps
<1>5. CASE \E s \in Server : ApplyEntry(s)
  BY <1>5, ApplyEntryKeeps
<1>6. CASE \E s \in Server : ApplySnapshot(s)
  BY <1>6, ApplySnapshotKeeps
<1>7. CASE \E s \in Server : Deliver(s)
  BY <1>7, DeliverKeeps
<1>8. CASE \E s \in Server : StartKVServer(s)
  BY <1>8, RestartKeeps
<1>9. CASE \E s \in Server : \E msg \in unsent[s] : Send(s, msg)
  BY <1>9, SendKeeps
<1>10. CASE \E s \in Server : \E r \in Server \ {s} : InstallSnapshot(s, r)
  BY <1>10, InstallKeeps
<1>11. CASE UNCHANGED vars
  <2>1. UNCHANGED <<serviceVars, kvVars, feedVars, log, answer, handlers, overtaken>>
    BY <1>11 DEF vars, serviceVars, raftVars, clerkVars, kvVars
  <2>2. UNCHANGED <<applyCh, unsent, compacted, snapshot>>
    BY <2>1 DEF feedVars
  <2>3. KVType' /\ Feeds'
    BY <2>1, ServersKept
  <2>4. \A r \in Server : \A d, n : IsHeld(r, d, n)' => \E q \in Server : IsHeld(q, d, n)
    BY <2>2 DEF IsHeld
  <2> QED BY <2>1, <2>3, <2>4, RaftSideKeeps
<1> QED BY <1>1, <1>2, <1>3, <1>4, <1>5, <1>6, <1>7, <1>8, <1>9, <1>10, <1>11 DEF Next

\* The inductive invariant of the key/value service.
THEOREM KVInvariant == Spec => []KVInv
BY InitKVInv, KVInvStep, PTL DEF Spec

\* A retried, re-committed or replayed Append is in a value at most once, at
\* every server, through snapshots in any order (ApplyRoutine's table).
THEOREM OperationsAppliedOnce == Spec => []AppliedOnce
<1>1. KVInv => AppliedOnce
  <2> SUFFICES ASSUME KVInv, NEW s \in Server, NEW k \in Key PROVE IsInjective(store[s][k])
    BY DEF AppliedOnce
  <2>1. Once(SnapshotData(s))
    BY DEF KVInv, OnceEverywhere
  <2> QED BY <2>1 DEF Once, SnapshotData
<1> QED BY <1>1, KVInvariant, PTL

\* As long as no entry overtakes a snapshot, every server's store is what the
\* committed log up to its last message means (ApplyRoutine, readSnapshot).
THEOREM StoreFollowsLog == Spec => []StoreIsLog
<1>1. KVInv => StoreIsLog
  <2> SUFFICES ASSUME KVInv, ~overtaken, NEW s \in Server, NEW k \in Key
               PROVE  store[s][k] = Reference(k, upTo[s])
    BY DEF StoreIsLog
  <2>1. Good(log, SnapshotData(s), upTo[s])
    BY DEF KVInv, GoodEverywhere
  <2>2. store[s][k] = ValueAt(log, k, upTo[s])
    BY <2>1 DEF Good, SnapshotData, ValueAt
  <2> QED BY <2>2, EffectiveIs DEF Reference, ValueAt
<1> QED BY <1>1, KVInvariant, PTL

\* As long as no entry overtakes a snapshot, what a clerk was told is true of a
\* point of the log within its operation (Get and PutAppend of the servers,
\* whichever of them answered).
THEOREM AnswersAreLinearizable == Spec => []LinearizableInOrder
<1>1. KVInv => LinearizableInOrder
  <2> SUFFICES ASSUME KVInv, ~overtaken, NEW c \in Client, answer[c].op # NoOp
               PROVE  \E n \in answer[c].born..Len(log) :
                         IF answer[c].op.type = "GET"
                         THEN answer[c].value = Reference(answer[c].op.key, n)
                         ELSE n > answer[c].born /\ log[n] = answer[c].op
    BY DEF LinearizableInOrder, Linearizable
  <2>1. PICK n \in 1..Len(log) :
            /\ answer[c].born < n
            /\ IF answer[c].op.type = "GET"
               THEN answer[c].value = ValueAt(log, answer[c].op.key, n)
               ELSE log[n] = answer[c].op
    BY DEF KVInv, ToldTrue, TrueOf
  <2>2. answer[c].born \in Nat /\ Len(log) \in Nat /\ n \in Nat
    BY DEF KVInv, ToldTrue, ServiceInv, ServiceType
  <2>3. n \in answer[c].born..Len(log) /\ n > answer[c].born
    BY <2>1, <2>2
  <2>4. Reference(answer[c].op.key, n) = ValueAt(log, answer[c].op.key, n)
    BY EffectiveIs DEF Reference, ValueAt
  <2> QED BY <2>1, <2>3, <2>4
<1> QED BY <1>1, KVInvariant, PTL

-----------------------------------------------------------------------------
(* The service and the one atomic store. *)

\* A clerk begins an operation.
LEMMA StoreInvoke ==
  ASSUME KVInv, NEW c \in Client, NEW op \in Ops, Submit(c, op)
  PROVE  Store!Next
<1> DEFINE v == <<c, id[c] + 1>>
<1>1. Request(c, op, v)
  BY DEF Submit
<1>2. Named(op, c, id[c] + 1, v) \in Op
  BY <1>1, RequestIsOp DEF KVInv
<1> HIDE DEF v
<1>3. /\ Completed("GET")' = Completed("GET")
      /\ Waiting(c, "GET") = NoOp /\ Waiting(c, "GET")' # NoOp
      /\ Waiting(c, "GET")'.born = Len(Completed("GET")) /\ ~Waiting(c, "GET")'.taken
      /\ \A d \in Client \ {c} : Waiting(d, "GET")' = Waiting(d, "GET")
      /\ \A d \in Client : Told(d)' = Told(d)
  BY <1>1, <1>2, OpIsOpSet, Invoked DEF KVInv
<1>4. Store!Invoke(c)
  <2> DEFINE pend == [d \in Client |-> Waiting(d, "GET")]
             reply == [d \in Client |-> Told(d)]
  <2>1. pend[c] = Waiting(c, "GET") /\ pend'[c] = Waiting(c, "GET")'
    OBVIOUS
  <2>2. pend' = [pend EXCEPT ![c] = pend'[c]]
    BY <1>3, <2>1
  <2>3. UNCHANGED reply
    BY <1>3
  <2>4. pend'[c].born = Len(Completed("GET")) /\ ~pend'[c].taken
    BY <1>3, <2>1, Zenon
  <2> QED BY <1>3, <2>1, <2>2, <2>3, <2>4, Zenon DEF Store!Invoke, Completed
<1> QED BY <1>4 DEF Store!Next

\* An entry is committed: the first copy of a write takes effect, another copy
\* and a Get do not.
LEMMA StoreTake ==
  ASSUME KVInv, Agree
  PROVE  [Store!Next]_(Store!vars)
<1> DEFINE Quiet == /\ Completed("GET")' = Completed("GET")
                    /\ \A d \in Client : Waiting(d, "GET")' = Waiting(d, "GET")
           Effect(c) == /\ Waiting(c, "GET") # NoOp /\ ~Waiting(c, "GET").taken
                        /\ Waiting(c, "GET").op.type # "GET"
                        /\ Completed("GET")' = Append(Completed("GET"), Waiting(c, "GET").op)
                        /\ Waiting(c, "GET")' = [Waiting(c, "GET") EXCEPT !.taken = TRUE]
                        /\ \A d \in Client \ {c} : Waiting(d, "GET")' = Waiting(d, "GET")
<1>1. Commit
  BY DEF Agree
<1>2. /\ \A d \in Client : Told(d)' = Told(d)
      /\ Quiet \/ \E c \in Client : Effect(c)
  BY <1>1, OpIsOpSet, Taken DEF KVInv
<1>3. CASE Quiet
  BY <1>2, <1>3 DEF Store!vars, Completed
<1>4. CASE \E c \in Client : Effect(c)
  <2>1. PICK c \in Client : Effect(c)
    BY <1>4
  <2>2. Store!Take(c)
    BY <1>2, <2>1 DEF Store!Take, Completed, IsGet
  <2> QED BY <2>2 DEF Store!Next
<1> QED BY <1>2, <1>3, <1>4

\* A server's reply ends the clerk's loop: the write has taken effect, the Get
\* returns a value the store has had since the clerk called.
LEMMA StoreReturn ==
  ASSUME KVInv, ~overtaken, NEW h \in handlers, Answered(h, h.ch.value)
  PROVE  Store!Next
<1> DEFINE c == h.op.me
<1>1. /\ c \in Client /\ Waiting(c, "GET") # NoOp /\ Waiting(c, "GET").op = h.op
      /\ Waiting(c, "GET")' = NoOp
      /\ h.op.type # "GET" => Waiting(c, "GET").taken
      /\ Completed("GET")' = Completed("GET")
      /\ \A d \in Client \ {c} : /\ Waiting(d, "GET")' = Waiting(d, "GET")
                                 /\ Told(d)' = Told(d)
      /\ Told(c)' = h.ch.value
  BY OpIsOpSet, Returned DEF KVInv
<1>2. h.op \in Op /\ pending[c] = h.op /\ pending[c] # NoOp
  BY OpIsOpSet DEF KVInv, ServiceInv, ServiceType, Answered, OpSet
<1>3. ASSUME h.op.type = "GET"
      PROVE  \E n \in Waiting(c, "GET").born..Len(Completed("GET")) :
                Told(c)' = ValueFor(SubSeq(Completed("GET"), 1, n), h.op)
  <2>1. PICK n \in 1..Len(log) : born[c] < n /\ h.ch.value = ValueAt(log, h.op.key, n)
    BY <1>3, AnswerIsTrue
  <2>2. Len(log) \in Nat /\ n \in Nat /\ born[c] \in Nat /\ born[c] <= n /\ n <= Len(log)
    <3>1. Len(log) \in Nat /\ born[c] \in Nat
      BY <1>1 DEF KVInv, ServiceInv, ServiceType
    <3> QED BY <2>1, <3>1
  <2> DEFINE es == Effective(n, "GET")
  <2>3. /\ Len(es) \in Waiting(c, "GET").born..Len(Completed("GET"))
        /\ SubSeq(Completed("GET"), 1, Len(es)) = es
    BY <1>1, <1>2, <2>2, OpIsOpSet, SeenAt DEF KVInv
  <2>4. h.ch.value = ValueFor(es, h.op)
    BY <2>1, EffectiveIs DEF ValueFor, ValueAt
  <2> HIDE DEF es
  <2> QED BY <1>1, <2>3, <2>4
<1> HIDE DEF c
<1>4. Store!Return(c)
  <2>1. IF IsGet(Waiting(c, "GET").op)
        THEN \E n \in Waiting(c, "GET").born..Len(Completed("GET")) :
                Told(c)' = ValueFor(SubSeq(Completed("GET"), 1, n), Waiting(c, "GET").op)
        ELSE Waiting(c, "GET").taken
    BY <1>1, <1>3 DEF IsGet
  <2> DEFINE pend == [d \in Client |-> Waiting(d, "GET")]
             reply == [d \in Client |-> Told(d)]
  <2>2. /\ pend[c] = Waiting(c, "GET") /\ pend'[c] = Waiting(c, "GET")'
        /\ reply'[c] = Told(c)'
    BY <1>1
  <2>3. pend' = [pend EXCEPT ![c] = NoOp]
    BY <1>1, <2>2
  <2>4. reply' = [reply EXCEPT ![c] = reply'[c]]
    BY <1>1, <2>2
  <2>5. IF IsGet(pend[c].op)
        THEN \E n \in pend[c].born..Len(Completed("GET")) :
                reply'[c] = ValueFor(SubSeq(Completed("GET"), 1, n), pend[c].op)
        ELSE pend[c].taken
    BY <2>1, <2>2, Zenon
  <2> QED BY <1>1, <2>2, <2>3, <2>4, <2>5, Zenon DEF Store!Return, Completed
<1> QED BY <1>1, <1>4 DEF Store!Next

\* The initial states are initial states of the atomic store.
LEMMA StoreInit == Init => Store!Init
<1> SUFFICES ASSUME Init PROVE Store!Init
  OBVIOUS
<1>1. Effective(0, "GET") = <<>>
  BY EffectiveIs, EffectiveSteps
<1>2. Len(log) = 0
  BY DEF Init, InitService
<1>3. \A c \in Client : Waiting(c, "GET") = NoOp /\ Told(c) = NoOp
  BY DEF Init, InitService, Waiting, Told
<1> QED BY <1>1, <1>2, <1>3 DEF Store!Init

\* A step the service takes before an entry has overtaken a snapshot.
LEMMA StoreStep ==
  ASSUME KVInv, ~overtaken, [Next]_vars
  PROVE  UNCHANGED <<log, clerkVars>> \/ [Store!Next]_(Store!vars)
<1>1. CASE \E c \in Client : \E op \in Ops : Submit(c, op)
  BY <1>1, StoreInvoke
<1>2. CASE \E c \in Client : \E s \in Server : Serve(c, s)
  <2>1. UNCHANGED <<log, pending, answer, born>>
    BY <1>2, ServeKeeps
  <2>2. Completed("GET")' = Completed("GET")
    <3>1. Completed("GET")' = EffectiveOf(log', Len(log'), "GET")
      BY EffectiveIs DEF Completed
    <3>2. Completed("GET") = EffectiveOf(log, Len(log), "GET")
      BY EffectiveIs DEF Completed
    <3> QED BY <2>1, <3>1, <3>2
  <2>3. ASSUME NEW c \in Client
        PROVE  Waiting(c, "GET")' = Waiting(c, "GET") /\ Told(c)' = Told(c)
    <3>1. EffectiveOf(log', born'[c], "GET") = EffectiveOf(log, born[c], "GET")
      BY <2>1
    <3>2. Effective(born[c], "GET")' = Effective(born[c], "GET")
      BY <3>1, EffectiveIs
    <3> QED BY <2>1, <3>2 DEF Waiting, Told, Range
  <2> QED BY <2>2, <2>3 DEF Store!vars, Completed
<1>3. CASE \E h \in handlers : HandlerStep(h)
  BY <1>3, HandlerKeeps, StoreReturn
<1>4. CASE Agree
  BY <1>4, StoreTake
<1>5. CASE \E s \in Server : ApplyEntry(s) \/ ApplySnapshot(s) \/ Deliver(s) \/ StartKVServer(s)
  BY <1>5, ApplyEntryKeeps, ApplySnapshotKeeps, DeliverKeeps, RestartKeeps
<1>6. CASE \E s \in Server : \/ \E msg \in unsent[s] : Send(s, msg)
                             \/ \E r \in Server \ {s} : InstallSnapshot(s, r)
  BY <1>6, SendKeeps, InstallKeeps
<1>7. CASE UNCHANGED vars
  BY <1>7 DEF vars, serviceVars, raftVars, clerkVars
<1> QED BY <1>1, <1>2, <1>3, <1>4, <1>5, <1>6, <1>7 DEF Next

\* With or without snapshots, the service implements the one atomic store as
\* long as no entry has overtaken a snapshot; from there on it does not
\* (the run kv_lost_snapshot).
THEOREM AtomicUntilOvertaken ==
  Spec => /\ Store!Init
          /\ [][overtaken \/ UNCHANGED <<log, clerkVars>> \/ [Store!Next]_(Store!vars)]_vars
<1>1. KVInv /\ [Next]_vars =>
        (overtaken \/ UNCHANGED <<log, clerkVars>> \/ [Store!Next]_(Store!vars))
  BY StoreStep
<1> QED BY <1>1, StoreInit, KVInvariant, PTL DEF Spec

\* Without snapshots, the entries between the last one a server has taken and
\* the last one Raft has delivered are all on their way to it.
NoGapAt(ch, un, del, comp, up) ==
    /\ comp = 0
    /\ \A n \in (up + 1)..del : \E m \in Range(ch) \cup un : IsEntry(m) /\ m.idx = n

NoGap ==
    /\ ~overtaken
    /\ \A s \in Server :
          NoGapAt(applyCh[s], unsent[s], delivered[s], compacted[s], upTo[s])

\* NoGap holds initially.
LEMMA GapInit == Init => NoGap
<1> SUFFICES ASSUME Init, NEW s \in Server
             PROVE  NoGapAt(applyCh[s], unsent[s], delivered[s], compacted[s], upTo[s])
  BY DEF Init, NoGap
<1>1. delivered[s] = 0 /\ upTo[s] = 0 /\ compacted[s] = 0
  BY DEF Init
<1>2. (upTo[s] + 1)..delivered[s] = {}
  BY <1>1
<1> QED BY <1>1, <1>2 DEF NoGapAt

\* A message goes from unsent to applyCh.
LEMMA GapSend ==
  ASSUME NEW ch \in Seq(Msg), NEW un, NEW del, NEW comp, NEW up, NEW m \in un, m \in Msg,
         NoGapAt(ch, un, del, comp, up)
  PROVE  NoGapAt(Append(ch, m), un \ {m}, del, comp, up)
<1> DEFINE dh == Append(ch, m)
<1>1. /\ Len(ch) \in Nat /\ Len(dh) = Len(ch) + 1 /\ dh[Len(ch) + 1] = m
      /\ \A i \in 1..Len(ch) : dh[i] = ch[i]
      /\ DOMAIN ch = 1..Len(ch) /\ DOMAIN dh = 1..Len(dh)
  OBVIOUS
<1> HIDE DEF dh
<1>2. Range(ch) \cup un \subseteq Range(dh) \cup (un \ {m})
  BY <1>1 DEF Range
<1> QED BY <1>2 DEF NoGapAt, dh

\* The next entry is delivered.
LEMMA GapDeliver ==
  ASSUME NEW ch, NEW un, NEW del \in Nat, NEW comp, NEW up \in Nat,
         NoGapAt(ch, un, del, comp, up)
  PROVE  NoGapAt(ch, un \cup {EntryMsg(del + 1)}, del + 1, comp, up)
<1> DEFINE e == EntryMsg(del + 1)
<1>1. e.idx = del + 1 /\ IsEntry(e)
  BY DEF EntryMsg, IsEntry
<1> HIDE DEF e
<1>2. ASSUME NEW n \in (up + 1)..(del + 1)
      PROVE  \E m \in Range(ch) \cup (un \cup {e}) : IsEntry(m) /\ m.idx = n
  <2>1. n \in (up + 1)..del \/ n = del + 1
    OBVIOUS
  <2> QED BY <1>1, <2>1 DEF NoGapAt
<1> QED BY <1>2 DEF NoGapAt, e

\* The server takes the next message: a snapshot changes nothing, an entry is
\* the one after the last.
LEMMA GapTake ==
  ASSUME NEW ch, NEW un, NEW del, NEW comp, NEW up, FeedOK(ch, un, del, comp, up), ch # <<>>,
         NoGapAt(ch, un, del, comp, up)
  PROVE  /\ IsEntry(Head(ch)) => Head(ch).idx <= up + 1
         /\ NoGapAt(Tail(ch), un, del, comp, Larger(up, Head(ch).idx))
<1> DEFINE h == Head(ch)
           th == Tail(ch)
<1>1. ch \in Seq(Msg) /\ del \in Nat /\ up \in Nat /\ comp = 0
  BY DEF FeedOK, NoGapAt
<1>2. /\ Len(ch) \in Nat /\ Len(ch) > 0 /\ h = ch[1] /\ DOMAIN ch = 1..Len(ch)
      /\ Len(th) = Len(ch) - 1 /\ DOMAIN th = 1..Len(th)
      /\ \A i \in 1..Len(th) : th[i] = ch[i + 1]
  BY <1>1
<1> HIDE DEF h, th
<1>3. h \in Range(ch) /\ h \in Msg
  BY <1>1, <1>2 DEF Range
<1>4. h.idx \in Nat
  BY <1>3 DEF Msg
<1>5. ASSUME NEW m \in Range(ch) PROVE m = h \/ m \in Range(th)
  <2>1. PICK i \in 1..Len(ch) : m = ch[i]
    BY <1>2 DEF Range
  <2>2. CASE i = 1
    BY <1>2, <2>1, <2>2
  <2>3. CASE i # 1
    <3>1. i - 1 \in 1..Len(th) /\ (i - 1) + 1 = i
      BY <1>2, <2>3
    <3>2. th[i - 1] = m
      BY <1>2, <2>1, <3>1
    <3> QED BY <1>2, <3>1, <3>2 DEF Range
  <2> QED BY <2>2, <2>3
<1>6. ASSUME NEW n \in (up + 1)..del, n # h.idx \/ ~IsEntry(h)
      PROVE  \E m \in Range(th) \cup un : IsEntry(m) /\ m.idx = n
  <2>1. PICK m \in Range(ch) \cup un : IsEntry(m) /\ m.idx = n
    BY DEF NoGapAt
  <2> QED BY <1>5, <1>6, <2>1
<1>7. CASE ~IsEntry(h)
  <2>1. h.idx <= 0
    BY <1>1, <1>3, <1>7 DEF FeedOK
  <2>2. Larger(up, h.idx) = up
    BY <1>1, <1>4, <2>1 DEF Larger
  <2>3. NoGapAt(th, un, del, comp, up)
    BY <1>1, <1>6, <1>7 DEF NoGapAt
  <2> QED BY <1>7, <2>2, <2>3 DEF h, th
<1>8. CASE IsEntry(h)
  <2>1. h.idx \in 1..del /\ h.idx > up
    <3>1. h.idx \in 1..del /\ (h.idx > up \/ h.idx <= comp)
      BY <1>3, <1>8 DEF FeedOK
    <3> QED BY <1>1, <1>4, <3>1
  <2>2. h.idx <= up + 1
    <3> SUFFICES ASSUME h.idx > up + 1 PROVE FALSE
      BY <1>1, <1>4
    <3>1. up + 1 \in (up + 1)..del /\ up + 1 # h.idx
      BY <1>1, <1>4, <2>1
    <3>2. PICK m \in Range(th) \cup un : IsEntry(m) /\ m.idx = up + 1
      BY <1>6, <3>1
    <3>3. CASE m \in un
      <4>1. 1 \in 1..Len(ch) /\ IsEntry(ch[1])
        BY <1>2, <1>8
      <4>2. ch[1].idx < m.idx
        BY <3>2, <3>3, <4>1 DEF FeedOK
      <4> QED BY <1>1, <1>2, <1>4, <3>2, <4>2
    <3>4. CASE m \in Range(th)
      <4>1. PICK i \in 1..Len(th) : m = th[i]
        BY <1>2, <3>4 DEF Range
      <4>2. i + 1 \in 1..Len(ch) /\ 1 \in 1..Len(ch) /\ 1 < i + 1 /\ m = ch[i + 1]
        BY <1>2, <4>1
      <4>3. ch[1].idx < ch[i + 1].idx
        BY <1>2, <1>8, <3>2, <4>2 DEF FeedOK
      <4> QED BY <1>1, <1>2, <1>4, <3>2, <4>2, <4>3
    <3> QED BY <3>2, <3>3, <3>4
  <2>3. h.idx = up + 1 /\ Larger(up, h.idx) = up + 1
    BY <1>1, <1>4, <2>1, <2>2 DEF Larger
  <2>4. ASSUME NEW n \in (up + 1 + 1)..del
        PROVE  \E m \in Range(th) \cup un : IsEntry(m) /\ m.idx = n
    <3>1. n \in (up + 1)..del /\ n # h.idx
      BY <1>1, <2>3
    <3> QED BY <1>6, <3>1
  <2>5. NoGapAt(th, un, del, comp, up + 1)
    BY <1>1, <2>4 DEF NoGapAt
  <2> QED BY <2>2, <2>3, <2>5 DEF h, th
<1> QED BY <1>7, <1>8

\* Everything a server's part of NoGap depends on.
LEMMA GapStep ==
  ASSUME KVInv, NoGap, NEW s \in Server, ~overtaken',
         \A q \in Server \ {s} :
             /\ applyCh'[q] = applyCh[q] /\ unsent'[q] = unsent[q] /\ upTo'[q] = upTo[q]
             /\ delivered'[q] = delivered[q] /\ compacted'[q] = compacted[q],
         NoGapAt(applyCh'[s], unsent'[s], delivered'[s], compacted'[s], upTo'[s])
  PROVE  NoGap'
<1> SUFFICES ASSUME NEW q \in Server
             PROVE  NoGapAt(applyCh'[q], unsent'[q], delivered'[q], compacted'[q], upTo'[q])
  BY DEF NoGap, NoGapAt
<1> QED BY DEF NoGap

\* Without snapshots every step keeps NoGap: entries come one by one.
LEMMA GapKept ==
  ASSUME Snapshots = FALSE, KVInv, NoGap, [Next]_vars
  PROVE  NoGap'
<1>d. /\ DOMAIN applyCh = Server /\ DOMAIN unsent = Server /\ DOMAIN delivered = Server
      /\ DOMAIN compacted = Server /\ DOMAIN upTo = Server
  BY DEF KVInv, KVType
<1>f. \A s \in Server :
        /\ FeedOK(applyCh[s], unsent[s], delivered[s], compacted[s], upTo[s])
        /\ NoGapAt(applyCh[s], unsent[s], delivered[s], compacted[s], upTo[s])
  BY DEF KVInv, Feeds, NoGap
<1>1. CASE UNCHANGED <<overtaken, applyCh, unsent, delivered, compacted, upTo>>
  BY <1>1 DEF NoGap, NoGapAt
<1>2. CASE \E s \in Server : ApplyEntry(s)
  <2>1. PICK s \in Server : ApplyEntry(s)
    BY <1>2
  <2> DEFINE msg == Head(applyCh[s])
             idx == msg.idx
             up == upTo[s]
  <2>2. /\ applyCh[s] # <<>> /\ IsEntry(msg)
        /\ upTo' = [upTo EXCEPT ![s] = Larger(@, idx)]
        /\ overtaken' = (overtaken \/ idx > up + 1)
        /\ applyCh' = [applyCh EXCEPT ![s] = Tail(@)]
        /\ UNCHANGED <<unsent, delivered>>
    BY <2>1, ApplyEntryIs
  <2>3. UNCHANGED compacted
    BY <2>1 DEF ApplyEntry
  <2>4. /\ idx <= up + 1
        /\ NoGapAt(Tail(applyCh[s]), unsent[s], delivered[s], compacted[s], Larger(up, idx))
    BY <1>f, <2>2, GapTake
  <2>5. idx \in Nat /\ up \in Nat
    <3>1. idx \in 1..Len(log)
      BY <2>1, ApplyEntryIs
    <3>2. up \in Nat
      BY <1>f DEF FeedOK
    <3>3. Len(log) \in Nat
      BY DEF KVInv, ServiceInv, ServiceType
    <3> HIDE DEF idx
    <3> QED BY <3>1, <3>2, <3>3
  <2>6. ~overtaken'
    <3> HIDE DEF idx, up
    <3>1. ~(idx > up + 1)
      BY <2>4, <2>5
    <3>2. ~overtaken
      BY DEF NoGap
    <3>3. overtaken' = (overtaken \/ idx > up + 1)
      BY <2>2
    <3> QED BY <3>1, <3>2, <3>3, Zenon
  <2>7. /\ applyCh'[s] = Tail(applyCh[s]) /\ upTo'[s] = Larger(up, idx)
        /\ unsent'[s] = unsent[s] /\ delivered'[s] = delivered[s] /\ compacted'[s] = compacted[s]
        /\ \A q \in Server \ {s} :
             /\ applyCh'[q] = applyCh[q] /\ unsent'[q] = unsent[q] /\ upTo'[q] = upTo[q]
             /\ delivered'[q] = delivered[q] /\ compacted'[q] = compacted[q]
    BY <1>d, <2>2, <2>3
  <2> HIDE DEF idx, up
  <2> QED BY <2>4, <2>6, <2>7, GapStep
<1>3. CASE \E s \in Server : ApplySnapshot(s)
  <2>1. PICK s \in Server : ApplySnapshot(s)
    BY <1>3
  <2> DEFINE idx == Head(applyCh[s]).idx
  <2>2. /\ applyCh[s] # <<>>
        /\ upTo' = [upTo EXCEPT ![s] = Larger(@, idx)]
        /\ applyCh' = [applyCh EXCEPT ![s] = Tail(@)]
        /\ UNCHANGED <<overtaken, unsent, delivered, compacted>>
    BY <2>1 DEF ApplySnapshot
  <2>3. NoGapAt(Tail(applyCh[s]), unsent[s], delivered[s], compacted[s], Larger(upTo[s], idx))
    BY <1>f, <2>2, GapTake
  <2> HIDE DEF idx
  <2>4. /\ applyCh'[s] = Tail(applyCh[s]) /\ upTo'[s] = Larger(upTo[s], idx)
        /\ unsent'[s] = unsent[s] /\ delivered'[s] = delivered[s] /\ compacted'[s] = compacted[s]
        /\ \A q \in Server \ {s} :
             /\ applyCh'[q] = applyCh[q] /\ unsent'[q] = unsent[q] /\ upTo'[q] = upTo[q]
             /\ delivered'[q] = delivered[q] /\ compacted'[q] = compacted[q]
    BY <1>d, <2>2
  <2>5. ~overtaken'
    BY <2>2 DEF NoGap
  <2> QED BY <2>3, <2>4, <2>5, GapStep
<1>4. CASE \E s \in Server : Deliver(s)
  <2>1. PICK s \in Server : Deliver(s)
    BY <1>4
  <2> DEFINE e == EntryMsg(delivered[s] + 1)
  <2>2. /\ delivered' = [delivered EXCEPT ![s] = @ + 1]
        /\ unsent' = [unsent EXCEPT ![s] = @ \cup {e}]
        /\ UNCHANGED <<overtaken, applyCh, compacted, upTo>>
    BY <2>1 DEF Deliver, Emit, kvVars
  <2>3. delivered[s] \in Nat /\ upTo[s] \in Nat
    BY <1>f DEF FeedOK
  <2>4. NoGapAt(applyCh[s], unsent[s] \cup {e}, delivered[s] + 1, compacted[s], upTo[s])
    BY <1>f, <2>3, GapDeliver
  <2> HIDE DEF e
  <2>5. /\ applyCh'[s] = applyCh[s] /\ upTo'[s] = upTo[s]
        /\ unsent'[s] = unsent[s] \cup {e} /\ delivered'[s] = delivered[s] + 1
        /\ compacted'[s] = compacted[s]
        /\ \A q \in Server \ {s} :
             /\ applyCh'[q] = applyCh[q] /\ unsent'[q] = unsent[q] /\ upTo'[q] = upTo[q]
             /\ delivered'[q] = delivered[q] /\ compacted'[q] = compacted[q]
    BY <1>d, <2>2
  <2>6. ~overtaken'
    BY <2>2 DEF NoGap
  <2> QED BY <2>4, <2>5, <2>6, GapStep
<1>5. CASE \E s \in Server : StartKVServer(s)
  <2>1. PICK s \in Server : StartKVServer(s)
    BY <1>5
  <2> DEFINE ch == <<SnapshotMsg(compacted[s], snapshot[s])>>
  <2>2. /\ upTo' = [upTo EXCEPT ![s] = 0]
        /\ delivered' = [delivered EXCEPT ![s] = compacted[s]]
        /\ applyCh' = [applyCh EXCEPT ![s] = ch]
        /\ unsent' = [unsent EXCEPT ![s] = {}]
        /\ UNCHANGED <<overtaken, compacted>>
    BY <2>1 DEF StartKVServer
  <2> HIDE DEF ch
  <2>3. /\ applyCh'[s] = ch /\ upTo'[s] = 0 /\ unsent'[s] = {}
        /\ delivered'[s] = compacted[s] /\ compacted'[s] = compacted[s]
        /\ \A q \in Server \ {s} :
             /\ applyCh'[q] = applyCh[q] /\ unsent'[q] = unsent[q] /\ upTo'[q] = upTo[q]
             /\ delivered'[q] = delivered[q] /\ compacted'[q] = compacted[q]
    BY <1>d, <2>2
  <2>4. compacted[s] = 0 /\ (0 + 1)..0 = {}
    BY <1>f DEF NoGapAt
  <2>5. NoGapAt(ch, {}, 0, 0, 0)
    BY <2>4 DEF NoGapAt
  <2>6. ~overtaken'
    BY <2>2 DEF NoGap
  <2> QED BY <2>3, <2>4, <2>5, <2>6, GapStep
<1>6. CASE \E s \in Server : \E msg \in unsent[s] : Send(s, msg)
  <2>0. PICK s \in Server : \E msg \in unsent[s] : Send(s, msg)
    BY <1>6
  <2>1. PICK msg \in unsent[s] : Send(s, msg)
    BY <2>0
  <2>2. /\ applyCh' = [applyCh EXCEPT ![s] = Append(@, msg)]
        /\ unsent' = [unsent EXCEPT ![s] = @ \ {msg}]
        /\ UNCHANGED <<overtaken, delivered, compacted, upTo>>
    BY <2>1 DEF Send, kvVars
  <2>3. applyCh[s] \in Seq(Msg) /\ msg \in Msg
    BY <1>f DEF FeedOK
  <2>4. NoGapAt(Append(applyCh[s], msg), unsent[s] \ {msg}, delivered[s], compacted[s], upTo[s])
    BY <1>f, <2>3, GapSend
  <2>5. /\ applyCh'[s] = Append(applyCh[s], msg) /\ upTo'[s] = upTo[s]
        /\ unsent'[s] = unsent[s] \ {msg} /\ delivered'[s] = delivered[s]
        /\ compacted'[s] = compacted[s]
        /\ \A q \in Server \ {s} :
             /\ applyCh'[q] = applyCh[q] /\ unsent'[q] = unsent[q] /\ upTo'[q] = upTo[q]
             /\ delivered'[q] = delivered[q] /\ compacted'[q] = compacted[q]
    BY <1>d, <2>2
  <2>6. ~overtaken'
    BY <2>2 DEF NoGap
  <2> QED BY <2>4, <2>5, <2>6, GapStep
<1>7. CASE \E s \in Server : \E r \in Server \ {s} : InstallSnapshot(s, r)
  <2>1. PICK s \in Server, r \in Server : compacted[r] > compacted[s]
    BY <1>7 DEF InstallSnapshot
  <2>2. compacted[r] = 0 /\ compacted[s] = 0
    BY <1>f DEF NoGapAt
  <2> QED BY <2>1, <2>2
<1>8. CASE \/ \E c \in Client : \/ \E op \in Ops : Submit(c, op)
                                \/ \E s \in Server : Serve(c, s)
           \/ \E h \in handlers : HandlerStep(h)
           \/ Agree
           \/ UNCHANGED vars
  <2>1. UNCHANGED <<kvVars, feedVars>>
    BY <1>8 DEF Submit, Serve, HandlerStep, Agree, vars
  <2> QED BY <1>1, <2>1 DEF kvVars, feedVars
<1> QED BY <1>2, <1>3, <1>4, <1>5, <1>6, <1>7, <1>8 DEF Next

\* Without snapshots (maxraftstate = -1) the replicated service is one atomic
\* key/value store to its clerks, for any number of servers, clerks, retries,
\* crashes and timeouts (Clerk, Get, PutAppend, waitAppliedOrTimeout,
\* ApplyRoutine).
THEOREM ImplementsAtomicStore ==
  ASSUME Snapshots = FALSE
  PROVE  Spec => ImplementsStore
<1>1. KVInv /\ NoGap /\ [Next]_vars => NoGap'
  BY GapKept
<1>2. Spec => []NoGap
  BY <1>1, GapInit, KVInvariant, PTL DEF Spec
<1>3. KVInv /\ NoGap /\ [Next]_vars =>
        (UNCHANGED <<log, clerkVars>> \/ [Store!Next]_(Store!vars))
  BY StoreStep DEF NoGap
<1> QED BY <1>2, <1>3, StoreInit, KVInvariant, PTL DEF Spec, ImplementsStore

=============================================================================
