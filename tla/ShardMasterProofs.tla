------------------------- MODULE ShardMasterProofs -------------------------
(***************************************************************************)
(* The shardmaster is one atomic sequence of configurations to its clerks, *)
(* for every number of servers, clerks, groups and operations; and every   *)
(* configuration that Rebalance() makes is balanced at the least number of *)
(* moved shards, for every set of groups and owners.                       *)
(***************************************************************************)
EXTENDS ShardMaster, ServiceProofs, FiniteSetTheorems, FunctionTheorems

-----------------------------------------------------------------------------
(* What a sequence of changes makes. *)

\* One change more.
Changed(cfgs, op) == Append(cfgs, NewConfig(Latest(cfgs), op))

\* ConfigsAfter the first n changes of s.
ConfigsOf(s, n) ==
    LET upTo[k \in 0..n] ==
            IF k = 0 THEN <<Config0>>
            ELSE Append(upTo[k - 1], NewConfig(Latest(upTo[k - 1]), s[k]))
    IN  upTo[n]

IsHistory(g, s, n) ==
    g = [k \in 0..n |-> IF k = 0 THEN <<Config0>> ELSE Changed(g[k - 1], s[k])]

\* The equations of a table of the configurations after each prefix of the log.
LEMMA HistoryAt ==
  ASSUME NEW s, NEW n \in Nat, NEW g, IsHistory(g, s, n)
  PROVE  /\ g[0] = <<Config0>>
         /\ \A k \in 1..n : g[k] = Changed(g[k - 1], s[k])
<1> DEFINE Body(k) == IF k = 0 THEN <<Config0>> ELSE Changed(g[k - 1], s[k])
<1>1. g = [k \in 0..n |-> Body(k)]
  BY DEF IsHistory
<1>2. \A k \in 0..n : g[k] = Body(k)
  <2> HIDE DEF Body
  <2> QED BY <1>1
<1> QED BY <1>2

\* Two such tables agree as far as both go (induction on the prefix).
LEMMA HistoryUnique ==
  ASSUME NEW s, NEW n \in Nat, NEW m \in Nat, NEW g, NEW h,
         IsHistory(g, s, n), IsHistory(h, s, m)
  PROVE  \A k \in Nat : k <= n /\ k <= m => g[k] = h[k]
<1> DEFINE T == {k \in Nat : k <= n /\ k <= m => g[k] = h[k]}
<1>1. 0 \in T
  <2>1. g[0] = <<Config0>> /\ h[0] = <<Config0>>
    BY HistoryAt
  <2> QED BY <2>1
<1>2. ASSUME NEW k \in Nat, k \in T PROVE k + 1 \in T
  <2>1. SUFFICES ASSUME k + 1 <= n, k + 1 <= m PROVE g[k + 1] = h[k + 1]
    OBVIOUS
  <2>2. g[k] = h[k]
    BY <1>2, <2>1
  <2>3. k + 1 \in 1..n /\ k + 1 \in 1..m /\ (k + 1) - 1 = k
    BY <2>1
  <2>4. g[k + 1] = Changed(g[(k + 1) - 1], s[k + 1])
    BY <2>3, HistoryAt
  <2>5. h[k + 1] = Changed(h[(k + 1) - 1], s[k + 1])
    BY <2>3, HistoryAt
  <2> QED BY <2>2, <2>3, <2>4, <2>5
<1>3. \A k \in Nat : k \in T
  <2> HIDE DEF T
  <2> QED BY <1>1, <1>2, SetInduction
<1> QED BY <1>3

\* There is such a table for every prefix, which is what a recursive definition needs.
LEMMA HistoryExists ==
  ASSUME NEW s
  PROVE  \A n \in Nat : \E g : IsHistory(g, s, n)
<1> DEFINE T == {n \in Nat : \E g : IsHistory(g, s, n)}
<1>1. 0 \in T
  <2>1. IsHistory([k \in 0..0 |-> <<Config0>>], s, 0)
    BY DEF IsHistory
  <2> QED BY <2>1
<1>2. ASSUME NEW n \in Nat, n \in T PROVE n + 1 \in T
  <2>1. PICK g : IsHistory(g, s, n)
    BY <1>2
  <2> DEFINE h == [k \in 0..(n + 1) |->
                     IF k = 0 THEN <<Config0>> ELSE Changed(g[k - 1], s[k])]
  <2>2. \A k \in 0..n : h[k] = g[k]
    <3>1. \A k \in 1..n : g[k] = Changed(g[k - 1], s[k])
      BY <2>1, HistoryAt
    <3>2. g[0] = <<Config0>>
      BY <2>1, HistoryAt
    <3>3. h[0] = <<Config0>>
      <4>1. 0 \in 0..(n + 1)
        OBVIOUS
      <4> QED BY <4>1
    <3>4. \A k \in 1..n : h[k] = Changed(g[k - 1], s[k])
      OBVIOUS
    <3> HIDE DEF h
    <3>5. \A k \in 1..n : h[k] = g[k]
      BY <3>1, <3>4
    <3>6. \A k \in 0..n : k = 0 \/ k \in 1..n
      OBVIOUS
    <3> QED BY <3>2, <3>3, <3>5, <3>6
  <2>3. \A k \in 0..(n + 1) : k # 0 => k - 1 \in 0..n
    OBVIOUS
  <2>4. h = [k \in 0..(n + 1) |-> IF k = 0 THEN <<Config0>> ELSE Changed(h[k - 1], s[k])]
    <3>1. \A k \in 0..(n + 1) : k # 0 => h[k - 1] = g[k - 1]
      BY <2>2, <2>3
    <3> QED BY <3>1
  <2>5. IsHistory(h, s, n + 1)
    BY <2>4 DEF IsHistory
  <2> QED BY <2>5
<1>3. \A n \in Nat : n \in T
  <2> HIDE DEF T
  <2> QED BY <1>1, <1>2, SetInduction
<1> QED BY <1>3

\* ConfigsOf is the last entry of such a table.
LEMMA ConfigsOfAt ==
  ASSUME NEW s, NEW n \in Nat
  PROVE  \E g : IsHistory(g, s, n) /\ ConfigsOf(s, n) = g[n]
<1> DEFINE G == CHOOSE g : IsHistory(g, s, n)
<1>1. ConfigsOf(s, n) = G[n]
  BY DEF ConfigsOf, IsHistory, Changed
<1>2. IsHistory(G, s, n)
  BY HistoryExists
<1> QED BY <1>1, <1>2

\* The recursion of ConfigsOf, one entry at a time.
LEMMA ConfigsOfSteps ==
  ASSUME NEW s
  PROVE  /\ ConfigsOf(s, 0) = <<Config0>>
         /\ \A n \in Nat : ConfigsOf(s, n + 1)
                             = Changed(ConfigsOf(s, n), s[n + 1])
<1>1. ConfigsOf(s, 0) = <<Config0>>
  <2>1. PICK g : IsHistory(g, s, 0) /\ ConfigsOf(s, 0) = g[0]
    BY ConfigsOfAt
  <2>2. g[0] = <<Config0>>
    BY <2>1, HistoryAt
  <2> QED BY <2>1, <2>2
<1>2. ASSUME NEW n \in Nat
      PROVE  ConfigsOf(s, n + 1) = Changed(ConfigsOf(s, n), s[n + 1])
  <2>1. PICK g : IsHistory(g, s, n) /\ ConfigsOf(s, n) = g[n]
    BY ConfigsOfAt
  <2>2. PICK h : IsHistory(h, s, n + 1) /\ ConfigsOf(s, n + 1) = h[n + 1]
    BY ConfigsOfAt
  <2>3. g[n] = h[n]
    BY <2>1, <2>2, HistoryUnique
  <2>4. n + 1 \in Nat /\ n + 1 \in 1..(n + 1) /\ (n + 1) - 1 = n
    OBVIOUS
  <2>5. h[n + 1] = Changed(h[(n + 1) - 1], s[n + 1])
    <3>1. PICK m \in Nat : m = n + 1
      BY <2>4
    <3>2. IsHistory(h, s, m)
      BY <2>2, <3>1
    <3>3. \A k \in 1..m : h[k] = Changed(h[k - 1], s[k])
      BY <3>2, HistoryAt
    <3>4. m \in 1..m
      BY <2>4, <3>1
    <3>5. h[m] = Changed(h[m - 1], s[m])
      BY <3>3, <3>4
    <3> QED BY <3>1, <3>5
  <2> QED BY <2>1, <2>2, <2>3, <2>4, <2>5
<1> QED BY <1>1, <1>2

\* It depends on the first n entries only.
LEMMA ConfigsOfSame ==
  ASSUME NEW s, NEW t, NEW n \in Nat, \A k \in 1..n : s[k] = t[k]
  PROVE  ConfigsOf(s, n) = ConfigsOf(t, n)
<1> DEFINE T == {k \in Nat : k <= n => ConfigsOf(s, k) = ConfigsOf(t, k)}
<1>1. 0 \in T
  <2>1. ConfigsOf(s, 0) = ConfigsOf(t, 0)
    BY ConfigsOfSteps
  <2> QED BY <2>1
<1>2. ASSUME NEW k \in Nat, k \in T PROVE k + 1 \in T
  <2>1. SUFFICES ASSUME k + 1 <= n
                 PROVE  ConfigsOf(s, k + 1) = ConfigsOf(t, k + 1)
    OBVIOUS
  <2>2. ConfigsOf(s, k) = ConfigsOf(t, k) /\ s[k + 1] = t[k + 1]
    BY <1>2, <2>1
  <2>3. ConfigsOf(s, k + 1) = Changed(ConfigsOf(s, k), s[k + 1])
    BY ConfigsOfSteps
  <2>4. ConfigsOf(t, k + 1) = Changed(ConfigsOf(t, k), t[k + 1])
    BY ConfigsOfSteps
  <2> QED BY <2>2, <2>3, <2>4
<1>3. \A k \in Nat : k \in T
  <2> HIDE DEF T
  <2> QED BY <1>1, <1>2, SetInduction
<1> QED BY <1>3

\* The recursion of ConfigsAfter.
LEMMA ConfigsAfterSteps ==
  /\ ConfigsAfter(<<>>) = <<Config0>>
  /\ \A U : \A es \in Seq(U) : \A x \in U :
        ConfigsAfter(Append(es, x)) = Changed(ConfigsAfter(es), x)
<1>1. \A es : ConfigsAfter(es) = ConfigsOf(es, Len(es))
  BY DEF ConfigsAfter, ConfigsOf
<1>2. ConfigsAfter(<<>>) = <<Config0>>
  <2>1. Len(<<>>) = 0
    OBVIOUS
  <2> QED BY <1>1, <2>1, ConfigsOfSteps
<1>3. ASSUME NEW U, NEW es \in Seq(U), NEW x \in U
      PROVE  ConfigsAfter(Append(es, x)) = Changed(ConfigsAfter(es), x)
  <2> DEFINE n == Len(es)
             fs == Append(es, x)
  <2>1. /\ n \in Nat /\ Len(fs) = n + 1 /\ fs[n + 1] = x
        /\ \A k \in 1..n : fs[k] = es[k]
    OBVIOUS
  <2>2. ConfigsAfter(fs) = ConfigsOf(fs, n + 1) /\ ConfigsAfter(es) = ConfigsOf(es, n)
    BY <1>1, <2>1
  <2> HIDE DEF n, fs
  <2>3. ConfigsOf(fs, n + 1) = Changed(ConfigsOf(fs, n), fs[n + 1])
    BY <2>1, ConfigsOfSteps
  <2>4. ConfigsOf(fs, n) = ConfigsOf(es, n)
    BY <2>1, ConfigsOfSame
  <2> QED BY <2>1, <2>2, <2>3, <2>4 DEF fs
<1> QED BY <1>2, <1>3

-----------------------------------------------------------------------------
(* The invariant. *)

History(n) == ConfigsAfter(Effective(n, "Query"))

\* What a handler finds in its channel is the answer to an entry of the log.
Answers ==
    \A h \in handlers : h.ch # NoOp =>
        \E n \in 1..Len(log) :
            /\ SameName(h.ch, log[n])
            /\ log[n].type = "Query" => h.ch.value = handleQuery(History(n), log[n].num)

\* Every server is at an index of the log, with the table and the configurations
\* of that index.
Replicas ==
    /\ DOMAIN configs = Server /\ DOMAIN lastApplied = Server
    /\ applied \in [Server -> Nat]
    /\ \A s \in Server :
          /\ applied[s] <= Len(log)
          /\ IsTable(lastApplied[s], Effective(applied[s], "Query"))
          /\ configs[s] = History(applied[s])

SMInv == ServiceInv(Op) /\ Replicas /\ Answers

\* The operations of this service are ones the shared lemmas of Service apply to.
LEMMA OpIsOpSet == OpSet(Op)
<1>1. ASSUME NEW x \in Op PROVE x.me \in Client /\ x.reqId \in Nat /\ x.reqId > 0
  <2>1. PICK op \in Ops, c \in Client, n \in 1..MaxId : x = Named(op, c, n, NoOp)
    BY DEF Op
  <2>2. x.me = c /\ x.reqId = n
    BY <2>1 DEF Named
  <2> QED BY <2>2, ServiceAssumption
<1> QED BY <1>1, NoOpAssumption DEF OpSet

\* What a clerk submits is a named operation.
LEMMA RequestIsOp ==
  ASSUME NEW O, ServiceInv(O), NEW c \in Client, NEW op \in Ops, Request(c, op, NoOp)
  PROVE  Named(op, c, id[c] + 1, NoOp) \in Op
<1>1. id[c] \in Nat /\ id[c] < MaxId
  BY DEF ServiceInv, ServiceType, Request
<1>2. id[c] + 1 \in 1..MaxId
  BY <1>1, ServiceAssumption
<1> QED BY <1>2 DEF Op

\* The fields of what ApplyRoutine puts into a channel.
LEMMA QueryFields ==
  ASSUME NEW x \in Op, NEW v
  PROVE  SameName([x EXCEPT !.value = v], x) /\ [x EXCEPT !.value = v].value = v
<1>1. PICK op \in Ops, c \in Client, n \in 1..MaxId : x = Named(op, c, n, NoOp)
  BY DEF Op
<1>2. {"me", "reqId", "value"} \subseteq DOMAIN x
  BY <1>1 DEF Named
<1> QED BY <1>2 DEF SameName

\* The invariant holds initially.
LEMMA InitSMInv == Init => SMInv
<1> SUFFICES ASSUME Init PROVE SMInv
  OBVIOUS
<1>1. ServiceInv(Op)
  BY OpIsOpSet, InitServiceInv DEF Init
<1>2. Effective(0, "Query") = <<>>
  BY EffectiveIs, EffectiveSteps
<1>3. Replicas
  <2>1. History(0) = <<Config0>> /\ IsTable([c \in Client |-> 0], Effective(0, "Query"))
    BY <1>2, EmptyTable, ConfigsAfterSteps DEF History
  <2>2. Len(log) = 0
    BY DEF Init, InitService
  <2> QED BY <2>1, <2>2 DEF Init, Replicas
<1>4. Answers
  BY DEF Init, InitService, Answers
<1> QED BY <1>1, <1>3, <1>4 DEF SMInv

\* What the log meant it goes on meaning.
LEMMA HistoryKept ==
  ASSUME NEW O, ServiceInv(O), UNCHANGED log \/ Commit
  PROVE  /\ Len(log) \in Nat /\ Len(log') \in Nat /\ Len(log) <= Len(log')
         /\ \A n \in 1..Len(log) : log'[n] = log[n]
         /\ \A n \in Nat : n <= Len(log) =>
               Effective(n, "Query")' = Effective(n, "Query") /\ History(n)' = History(n)
<1>1. log \in Seq(O)
  BY DEF ServiceInv, ServiceType
<1>2. /\ Len(log) \in Nat /\ Len(log') \in Nat /\ Len(log) <= Len(log')
      /\ \A n \in 1..Len(log) : log'[n] = log[n]
  <2>1. CASE UNCHANGED log
    BY <1>1, <2>1
  <2>2. CASE Commit
    <3>1. PICK p \in proposed : log' = Append(log, p.op)
      BY <2>2 DEF Commit
    <3>2. p.op \in O
      BY DEF ServiceInv, ServiceType
    <3> QED BY <1>1, <3>1, <3>2
  <2> QED BY <2>1, <2>2
<1>3. ASSUME NEW n \in Nat, n <= Len(log)
      PROVE  Effective(n, "Query")' = Effective(n, "Query")
  <2>1. \A k \in 1..n : log'[k] = log[k]
    BY <1>2, <1>3
  <2>2. EffectiveOf(log', n, "Query") = EffectiveOf(log, n, "Query")
    BY <2>1, EffectiveSame
  <2> QED BY <2>2, EffectiveIs
<1> QED BY <1>2, <1>3 DEF History

\* The replicas in a step that does not touch them, and the channels in one
\* that fills none.
LEMMA ReplicasKept ==
  ASSUME SMInv, UNCHANGED smVars, UNCHANGED log \/ Commit
  PROVE  Replicas'
<1>1. /\ Len(log) \in Nat /\ Len(log') \in Nat /\ Len(log) <= Len(log')
      /\ \A n \in Nat : n <= Len(log) =>
               Effective(n, "Query")' = Effective(n, "Query") /\ History(n)' = History(n)
  BY HistoryKept DEF SMInv
<1>2. UNCHANGED <<configs, lastApplied, applied>>
  BY DEF smVars
<1>3. ASSUME NEW s \in Server
      PROVE  /\ applied[s] <= Len(log')
             /\ IsTable(lastApplied[s], Effective(applied[s], "Query")')
             /\ configs[s] = History(applied[s])'
  <2>1. /\ applied[s] \in Nat /\ applied[s] <= Len(log)
        /\ IsTable(lastApplied[s], Effective(applied[s], "Query"))
        /\ configs[s] = History(applied[s])
    BY DEF SMInv, Replicas
  <2>2. Effective(applied[s], "Query")' = Effective(applied[s], "Query")
    BY <1>1, <1>2, <2>1
  <2>3. History(applied[s])' = History(applied[s])
    BY <1>1, <1>2, <2>1
  <2> QED BY <1>1, <2>1, <2>2, <2>3
<1> QED BY <1>2, <1>3 DEF SMInv, Replicas

\* What handlers were sent stays right when the log grows.
LEMMA AnswersKept ==
  ASSUME SMInv, UNCHANGED log \/ Commit,
         \A k \in handlers' : k.ch = NoOp \/ \E h \in handlers : h.ch = k.ch
  PROVE  Answers'
<1>1. /\ Len(log) \in Nat /\ Len(log') \in Nat /\ Len(log) <= Len(log')
      /\ \A n \in 1..Len(log) : log'[n] = log[n]
      /\ \A n \in Nat : n <= Len(log) => History(n)' = History(n)
  BY HistoryKept DEF SMInv
<1>2. ASSUME NEW k \in handlers', k.ch # NoOp
      PROVE  \E n \in 1..Len(log') :
                /\ SameName(k.ch, log'[n])
                /\ log'[n].type = "Query" => k.ch.value = handleQuery(History(n)', log'[n].num)
  <2>1. PICK h \in handlers : h.ch = k.ch
    BY <1>2
  <2>2. PICK n \in 1..Len(log) :
            /\ SameName(h.ch, log[n])
            /\ log[n].type = "Query" => h.ch.value = handleQuery(History(n), log[n].num)
    BY <1>2, <2>1 DEF SMInv, Answers
  <2>3. n \in 1..Len(log') /\ n \in Nat /\ log'[n] = log[n] /\ History(n)' = History(n)
    BY <1>1
  <2> QED BY <2>1, <2>2, <2>3
<1> QED BY <1>2 DEF Answers

-----------------------------------------------------------------------------
(* One step per action. *)

\* Clerk.Query, Join, Leave and Move keep the invariant.
LEMMA SubmitKeeps ==
  ASSUME SMInv, NEW c \in Client, NEW op \in Ops, Submit(c, op)
  PROVE  SMInv'
<1>1. Request(c, op, NoOp) /\ UNCHANGED <<log, handlers, smVars>>
  BY DEF Submit, Request, raftVars
<1>2. Named(op, c, id[c] + 1, NoOp) \in Op
  BY <1>1, RequestIsOp DEF SMInv
<1>3. ServiceInv(Op)'
  BY <1>1, <1>2, OpIsOpSet, RequestStep DEF SMInv
<1>4. Replicas' /\ Answers'
  BY <1>1, ReplicasKept, AnswersKept
<1> QED BY <1>3, <1>4 DEF SMInv

\* A handler that calls Start keeps the invariant and leaves log and clerks alone.
LEMMA ServeKeeps ==
  ASSUME SMInv, NEW c \in Client, NEW s \in Server, Serve(c, s)
  PROVE  SMInv' /\ UNCHANGED <<log, pending, answer, born>>
<1>1. Start(c, s) /\ UNCHANGED smVars
  BY DEF Serve
<1>2. PICK n, idx : /\ handlers' = handlers \cup
                          {[handler |-> n, srv |-> s, op |-> pending[c], idx |-> idx,
                            stage |-> "started", ch |-> NoOp]}
                    /\ UNCHANGED <<log, pending, answer, born>>
  BY <1>1 DEF Start
<1>3. ServiceInv(Op)'
  BY <1>1, OpIsOpSet, StartStep DEF SMInv
<1>4. \A k \in handlers' : k.ch = NoOp \/ \E h \in handlers : h.ch = k.ch
  BY <1>2
<1>5. Replicas' /\ Answers'
  BY <1>1, <1>2, <1>4, ReplicasKept, AnswersKept
<1> QED BY <1>2, <1>3, <1>5 DEF SMInv

\* Each step of waitAppliedOrTimeout keeps the invariant; the only one a clerk sees is the
\* reply with what ApplyRoutine sent.
LEMMA HandlerKeeps ==
  ASSUME SMInv, NEW h \in handlers, HandlerStep(h)
  PROVE  /\ SMInv'
         /\ UNCHANGED <<log, clerkVars>> \/ Answered(h, h.ch.value)
<1> DEFINE same == isSameOp(h.op, h.ch)
<1>1. Register(h) \/ Applied(h, same) \/ TimedOut(h)
  BY DEF HandlerStep
<1>2. UNCHANGED smVars
  BY DEF HandlerStep
<1>3. same => SameName(h.op, h.ch)
  BY DEF isSameOp, SameName
<1> HIDE DEF same
<1>4. \/ Applied(h, same) /\ Answered(h, h.ch.value)
      \/ ServiceInv(Op)' /\ UNCHANGED <<raftVars, clerkVars>>
  BY <1>1, <1>3, OpIsOpSet, HandlerSteps DEF SMInv
<1>5. UNCHANGED log
  BY <1>1 DEF Register, Applied, TimedOut, raftVars
<1>6. ServiceInv(Op)'
  BY <1>4, OpIsOpSet, AnsweredStep DEF SMInv
<1>7. \A k \in handlers' : k.ch = NoOp \/ \E g \in handlers : g.ch = k.ch
  <2>1. CASE Register(h)
    <3>1. handlers' = (handlers \ {h}) \cup {[h EXCEPT !.stage = "waiting"]}
      BY <2>1 DEF Register
    <3>2. DOMAIN h = HandlerFields
      BY DEF SMInv, ServiceInv, ServiceType
    <3>3. [h EXCEPT !.stage = "waiting"].ch = h.ch
      BY <3>2 DEF HandlerFields
    <3> QED BY <3>1, <3>3
  <2>2. CASE Applied(h, same) \/ TimedOut(h)
    BY <2>2 DEF Applied, TimedOut, Reply
  <2> QED BY <1>1, <2>1, <2>2
<1>8. Replicas' /\ Answers'
  BY <1>2, <1>5, <1>7, ReplicasKept, AnswersKept
<1> QED BY <1>4, <1>6, <1>8 DEF SMInv, raftVars

\* Agreement on one more log index keeps the invariant.
LEMMA AgreeKeeps ==
  ASSUME SMInv, Agree
  PROVE  SMInv'
<1>1. Commit /\ UNCHANGED smVars /\ UNCHANGED handlers
  BY DEF Agree, Commit
<1>2. ServiceInv(Op)'
  BY <1>1, OpIsOpSet, CommitStep DEF SMInv
<1>3. Replicas' /\ Answers'
  BY <1>1, ReplicasKept, AnswersKept
<1> QED BY <1>2, <1>3 DEF SMInv

\* A restart, which begins with the first configuration again, keeps the invariant.
LEMMA RestartKeeps ==
  ASSUME SMInv, NEW s \in Server, StartServer(s)
  PROVE  SMInv' /\ UNCHANGED <<log, clerkVars>>
<1>1. /\ CrashService(s)
      /\ configs' = [configs EXCEPT ![s] = <<Config0>>]
      /\ lastApplied' = [lastApplied EXCEPT ![s] = [c \in Client |-> 0]]
      /\ applied' = [applied EXCEPT ![s] = 0]
      /\ UNCHANGED <<log, clerkVars>> /\ handlers' \subseteq handlers
  BY DEF StartServer, CrashService, raftVars
<1>2. ServiceInv(Op)'
  BY <1>1, OpIsOpSet, CrashStep DEF SMInv
<1>3. Answers'
  BY <1>1, AnswersKept
<1>4. Len(log) \in Nat /\ \A n \in Nat : n <= Len(log) =>
               Effective(n, "Query")' = Effective(n, "Query") /\ History(n)' = History(n)
  BY <1>1, HistoryKept DEF SMInv
<1>5. Effective(0, "Query") = <<>> /\ History(0) = <<Config0>>
  BY EffectiveIs, EffectiveSteps, ConfigsAfterSteps DEF History
<1>t. /\ DOMAIN configs = Server /\ DOMAIN lastApplied = Server /\ applied \in [Server -> Nat]
      /\ DOMAIN configs' = Server /\ DOMAIN lastApplied' = Server /\ applied' \in [Server -> Nat]
  BY <1>1 DEF SMInv, Replicas
<1>6. ASSUME NEW r \in Server
      PROVE  /\ applied'[r] <= Len(log)
             /\ IsTable(lastApplied'[r], Effective(applied[r], "Query")')
             /\ configs'[r] = History(applied[r])'
  <2>1. CASE r = s
    <3>1. applied'[r] = 0 /\ lastApplied'[r] = [c \in Client |-> 0] /\ configs'[r] = <<Config0>>
      BY <1>1, <1>t, <2>1
    <3>2. Effective(applied[r], "Query")' = <<>> /\ History(applied[r])' = <<Config0>>
      BY <1>4, <1>5, <3>1
    <3> QED BY <1>4, <3>1, <3>2, EmptyTable
  <2>2. CASE r # s
    <3>1. /\ applied'[r] = applied[r] /\ lastApplied'[r] = lastApplied[r]
          /\ configs'[r] = configs[r]
      BY <1>1, <1>t, <2>2
    <3>2. /\ applied[r] \in Nat /\ applied[r] <= Len(log)
          /\ IsTable(lastApplied[r], Effective(applied[r], "Query"))
          /\ configs[r] = History(applied[r])
      BY DEF SMInv, Replicas
    <3>3. Effective(applied[r], "Query")' = Effective(applied[r], "Query")
      BY <1>4, <3>1, <3>2
    <3>4. History(applied[r])' = History(applied[r])
      BY <1>4, <3>1, <3>2
    <3> QED BY <3>1, <3>2, <3>3, <3>4
  <2> QED BY <2>1, <2>2
<1>7. Replicas'
  BY <1>1, <1>t, <1>6 DEF Replicas
<1> QED BY <1>1, <1>2, <1>3, <1>7 DEF SMInv

\* ApplyRoutine keeps the invariant: an operation changes the configurations unless the table
\* has it, and whoever waits for its index is told.
LEMMA ApplyKeeps ==
  ASSUME SMInv, NEW s \in Server, ApplyEntry(s)
  PROVE  SMInv' /\ UNCHANGED <<log, clerkVars>>
<1> DEFINE n == applied[s]
           op == log[n + 1]
           new == op.type # "Query" /\ lastApplied[s][op.me] < op.reqId
           got == IF op.type = "Query"
                  THEN [op EXCEPT !.value = handleQuery(configs[s], op.num)] ELSE op
<1>t. /\ log \in Seq(Op) /\ n \in Nat /\ n + 1 <= Len(log) /\ Len(log) \in Nat
      /\ DOMAIN configs = Server /\ DOMAIN lastApplied = Server /\ applied \in [Server -> Nat]
  BY DEF SMInv, ServiceInv, ServiceType, Replicas, ApplyEntry
<1>1. /\ IsTable(lastApplied[s], Effective(n, "Query")) /\ configs[s] = History(n)
      /\ lastApplied[s] \in [Client -> Nat]
  BY DEF SMInv, Replicas, IsTable
<1>2. op \in Op /\ op.me \in Client /\ op.reqId \in Nat
  <2>1. op \in Op
    BY <1>t
  <2> QED BY <2>1, OpIsOpSet DEF OpSet
<1>3. /\ applied' = [applied EXCEPT ![s] = n + 1]
      /\ Notify(s, n + 1, got)
      /\ UNCHANGED <<raftVars, clerkVars>>
  BY DEF ApplyEntry
<1>4. IF new
      THEN /\ lastApplied' = [lastApplied EXCEPT ![s][op.me] = op.reqId]
           /\ configs' = [configs EXCEPT ![s] = Changed(@, op)]
      ELSE UNCHANGED <<lastApplied, configs>>
  <2>1. lastApplied[s][op.me] \in Nat
    BY <1>1, <1>2
  <2>2. ~isDuplicateOp(s, op) <=> lastApplied[s][op.me] < op.reqId
    BY <1>2, <2>1 DEF isDuplicateOp
  <2> QED BY <2>2 DEF ApplyEntry, Changed
<1>5. /\ new => /\ Effective(n + 1, "Query") = Append(Effective(n, "Query"), op)
                /\ IsTable([lastApplied[s] EXCEPT ![op.me] = op.reqId], Effective(n + 1, "Query"))
      /\ ~new => Effective(n + 1, "Query") = Effective(n, "Query")
  BY <1>t, <1>1, OpIsOpSet, NextEntry DEF SMInv
<1>6. Effective(n, "Query") \in Seq(Op)
  BY <1>t, EffectiveRange, EffectiveIs
<1>7. /\ Len(log') = Len(log) /\ UNCHANGED log
      /\ \A m \in Nat : m <= Len(log) =>
               Effective(m, "Query")' = Effective(m, "Query") /\ History(m)' = History(m)
  BY <1>3, HistoryKept DEF SMInv, raftVars
<1>8. got.value = handleQuery(History(n + 1), op.num) \/ op.type # "Query"
  <2>1. CASE op.type = "Query"
    <3>1. History(n + 1) = configs[s]
      BY <1>1, <1>5, <2>1 DEF History
    <3>2. got = [op EXCEPT !.value = handleQuery(configs[s], op.num)]
      BY <2>1
    <3> HIDE DEF op, got
    <3> QED BY <1>2, <3>1, <3>2, QueryFields
  <2> QED BY <2>1
<1>9. SameName(got, op)
  <2>1. CASE op.type = "Query"
    <3>1. got = [op EXCEPT !.value = handleQuery(configs[s], op.num)]
      BY <2>1
    <3> HIDE DEF op, got
    <3> QED BY <1>2, <3>1, QueryFields
  <2>2. CASE op.type # "Query"
    BY <2>2 DEF SameName
  <2> QED BY <2>1, <2>2
<1>10. n + 1 \in Nat /\ n + 1 \in 1..Len(log) /\ op = log[n + 1]
  BY <1>t
<1> HIDE DEF got, op, new
<1>11. ServiceInv(Op)'
  BY <1>3, <1>9, <1>10, OpIsOpSet, NotifyStep DEF SMInv
<1>12. Answers'
  <2>1. ASSUME NEW k \in handlers', k.ch # NoOp
        PROVE  \E m \in 1..Len(log') :
                /\ SameName(k.ch, log'[m])
                /\ log'[m].type = "Query" => k.ch.value = handleQuery(History(m)', log'[m].num)
    <3>1. PICK h \in handlers : k = h \/ k = [h EXCEPT !.ch = got]
      BY <1>3 DEF Notify
    <3>2. CASE k = h
      <4>1. PICK m \in 1..Len(log) :
              /\ SameName(h.ch, log[m])
              /\ log[m].type = "Query" => h.ch.value = handleQuery(History(m), log[m].num)
        BY <2>1, <3>2 DEF SMInv, Answers
      <4>2. m \in Nat /\ History(m)' = History(m)
        BY <1>t, <1>7
      <4> QED BY <1>7, <3>2, <4>1, <4>2
    <3>3. CASE k = [h EXCEPT !.ch = got]
      <4>1. DOMAIN h = HandlerFields
        BY DEF SMInv, ServiceInv, ServiceType
      <4>2. k.ch = got
        BY <3>3, <4>1 DEF HandlerFields
      <4>3. PICK m \in Nat : m = n + 1 /\ m \in 1..Len(log) /\ log[m] = op
        BY <1>10
      <4>4. History(m)' = History(m)
        BY <1>t, <1>7, <4>3
      <4> QED BY <1>7, <1>8, <1>9, <4>2, <4>3, <4>4
    <3> QED BY <3>1, <3>2, <3>3
  <2> QED BY <2>1 DEF Answers
<1>13. /\ DOMAIN configs' = Server /\ DOMAIN lastApplied' = Server /\ applied' \in [Server -> Nat]
       /\ applied'[s] = n + 1
       /\ IsTable(lastApplied'[s], Effective(n + 1, "Query"))
       /\ configs'[s] = History(n + 1)
       /\ \A r \in Server \ {s} : /\ applied'[r] = applied[r] /\ configs'[r] = configs[r]
                                  /\ lastApplied'[r] = lastApplied[r]
  <2>1. applied' \in [Server -> Nat] /\ applied'[s] = n + 1
        /\ \A r \in Server \ {s} : applied'[r] = applied[r]
    BY <1>3, <1>t
  <2>2. CASE new
    <3>1. /\ lastApplied'[s] = [lastApplied[s] EXCEPT ![op.me] = op.reqId]
          /\ configs'[s] = Changed(configs[s], op)
          /\ DOMAIN configs' = Server /\ DOMAIN lastApplied' = Server
          /\ \A r \in Server \ {s} : configs'[r] = configs[r] /\ lastApplied'[r] = lastApplied[r]
      BY <1>4, <1>t, <2>2
    <3>2. History(n + 1) = Changed(History(n), op)
      BY <1>2, <1>5, <1>6, <2>2, ConfigsAfterSteps DEF History
    <3> QED BY <1>1, <1>5, <2>1, <2>2, <3>1, <3>2
  <2>3. CASE ~new
    <3>1. History(n + 1) = History(n)
      BY <1>5, <2>3 DEF History
    <3> QED BY <1>1, <1>4, <1>5, <1>t, <2>1, <2>3, <3>1
  <2> QED BY <2>2, <2>3
<1>14. ASSUME NEW r \in Server
       PROVE  /\ applied'[r] <= Len(log)
              /\ IsTable(lastApplied'[r], Effective(applied[r], "Query")')
              /\ configs'[r] = History(applied[r])'
  <2>1. PICK m \in Nat : /\ m = applied'[r] /\ m <= Len(log)
                         /\ IsTable(lastApplied'[r], Effective(m, "Query"))
                         /\ configs'[r] = History(m)
    <3>1. CASE r = s
      BY <1>10, <1>13, <3>1
    <3>2. CASE r # s
      <4>1. /\ applied[r] \in Nat /\ applied[r] <= Len(log)
            /\ IsTable(lastApplied[r], Effective(applied[r], "Query"))
            /\ configs[r] = History(applied[r])
        BY DEF SMInv, Replicas
      <4> QED BY <1>13, <3>2, <4>1
    <3> QED BY <3>1, <3>2
  <2>2. Effective(applied[r], "Query")' = Effective(m, "Query")
    BY <1>7, <2>1
  <2>3. History(applied[r])' = History(m)
    BY <1>7, <2>1
  <2> QED BY <2>1, <2>2, <2>3
<1>15. Replicas'
  BY <1>7, <1>13, <1>14 DEF Replicas
<1> QED BY <1>3, <1>7, <1>11, <1>12, <1>15 DEF SMInv

-----------------------------------------------------------------------------
(* The theorems. *)

\* Every step keeps the invariant.
LEMMA SMInvStep == SMInv /\ [Next]_vars => SMInv'
<1> SUFFICES ASSUME SMInv, [Next]_vars PROVE SMInv'
  OBVIOUS
<1>1. CASE \E c \in Client : \E op \in Ops : Submit(c, op)
  BY <1>1, SubmitKeeps
<1>2. CASE \E c \in Client : \E s \in Server : Serve(c, s)
  BY <1>2, ServeKeeps
<1>3. CASE \E h \in handlers : HandlerStep(h)
  BY <1>3, HandlerKeeps
<1>4. CASE Agree
  BY <1>4, AgreeKeeps
<1>5. CASE \E s \in Server : ApplyEntry(s)
  BY <1>5, ApplyKeeps
<1>6. CASE \E s \in Server : StartServer(s)
  BY <1>6, RestartKeeps
<1>7. CASE UNCHANGED vars
  <2>1. UNCHANGED <<log, raftVars, clerkVars, handlers, smVars>>
    BY <1>7 DEF vars, serviceVars, raftVars
  <2>2. ServiceInv(Op)'
    BY <2>1, IdleStep DEF SMInv
  <2>3. Replicas' /\ Answers'
    BY <2>1, ReplicasKept, AnswersKept
  <2> QED BY <2>2, <2>3 DEF SMInv
<1> QED BY <1>1, <1>2, <1>3, <1>4, <1>5, <1>6, <1>7 DEF Next

\* The inductive invariant: names, the clerks' order in the log, every server's
\* table and history, and what is in the channels.
THEOREM SMInvariant == Spec => []SMInv
<1>1. Init => SMInv
  BY InitSMInv
<1>2. SMInv /\ [Next]_vars => SMInv'
  BY SMInvStep
<1> QED BY <1>1, <1>2, PTL DEF Spec

\* Every server's configurations are those of the log it has applied, one for
\* every operation however often it was retried, committed or replayed
\* (ApplyRoutine and isDuplicateOp).
THEOREM ServersFollowLog == Spec => []ConfigsAreLog
<1>1. SMInv => ConfigsAreLog
  BY DEF SMInv, Replicas, ConfigsAreLog, History
<1> QED BY <1>1, SMInvariant, PTL

\* The configurations are a sequence.
LEMMA ConfigsAreSequence ==
  ASSUME NEW s, NEW n \in Nat
  PROVE  \E U : ConfigsOf(s, n) \in Seq(U)
<1> DEFINE T == {k \in Nat : \E U : ConfigsOf(s, k) \in Seq(U)}
<1>1. 0 \in T
  <2>1. ConfigsOf(s, 0) = <<Config0>>
    BY ConfigsOfSteps
  <2>2. <<Config0>> \in Seq({Config0})
    OBVIOUS
  <2>3. \E U : ConfigsOf(s, 0) \in Seq(U)
    BY <2>1, <2>2, Zenon
  <2> QED BY <2>3
<1>2. ASSUME NEW k \in Nat, k \in T PROVE k + 1 \in T
  <2>1. PICK U : ConfigsOf(s, k) \in Seq(U)
    BY <1>2
  <2>2. ConfigsOf(s, k + 1) = Changed(ConfigsOf(s, k), s[k + 1])
    BY ConfigsOfSteps
  <2> DEFINE cfgs == ConfigsOf(s, k)
             x == NewConfig(Latest(cfgs), s[k + 1])
  <2>3. cfgs \in Seq(U) /\ ConfigsOf(s, k + 1) = Append(cfgs, x)
    BY <2>1, <2>2 DEF Changed
  <2> HIDE DEF cfgs, x
  <2>4. Append(cfgs, x) \in Seq(U \cup {x})
    <3>1. cfgs \in Seq(U \cup {x})
      <4>1. Len(cfgs) \in Nat /\ DOMAIN cfgs = 1..Len(cfgs) /\ \A i \in 1..Len(cfgs) : cfgs[i] \in U
        BY <2>3
      <4>2. cfgs = [i \in 1..Len(cfgs) |-> cfgs[i]]
        BY <2>3
      <4> QED BY <4>1, <4>2
    <3> QED BY <3>1
  <2>5. \E V : ConfigsOf(s, k + 1) \in Seq(V)
    BY <2>3, <2>4, Zenon
  <2> QED BY <2>5
<1>3. \A k \in Nat : k \in T
  <2> HIDE DEF T
  <2> QED BY <1>1, <1>2, SetInduction
<1> QED BY <1>3

\* handleQuery and the specification's ConfigFor.
LEMMA QueryIsConfigFor ==
  ASSUME NEW x \in Op, x.type = "Query", NEW U, NEW es \in Seq(U)
  PROVE  handleQuery(ConfigsAfter(es), x.num) = ConfigFor(es, x)
<1>1. x.num \in Int
  <2>1. PICK op \in Ops, c \in Client, n \in 1..MaxId : x = Named(op, c, n, NoOp)
    BY DEF Op
  <2>2. "type" \in DOMAIN op
    BY DEF Ops
  <2>3. op.type = "Query"
    BY <2>1, <2>2 DEF Named
  <2>4. op \in [type : {"Query"}, num : -1..MaxNum]
    BY <2>3 DEF Ops
  <2>5. op.num \in Int /\ "num" \in DOMAIN op
    BY <2>4, GIDAssumption
  <2> QED BY <2>1, <2>5 DEF Named
<1> DEFINE cfgs == ConfigsAfter(es)
<1>2. Len(cfgs) \in Nat
  <2>1. cfgs = ConfigsOf(es, Len(es)) /\ Len(es) \in Nat
    BY DEF ConfigsAfter, ConfigsOf
  <2>2. PICK V : ConfigsOf(es, Len(es)) \in Seq(V)
    BY <2>1, ConfigsAreSequence
  <2> HIDE DEF cfgs
  <2> QED BY <2>1, <2>2
<1>3. ConfigFor(es, x) = IF x.num \in 0..(Len(cfgs) - 1) THEN cfgs[x.num + 1] ELSE Latest(cfgs)
  BY DEF ConfigFor
<1> HIDE DEF cfgs
<1>4. handleQuery(cfgs, x.num)
        = IF x.num \in 0..(Len(cfgs) - 1) THEN cfgs[x.num + 1] ELSE Latest(cfgs)
  BY <1>1, <1>2 DEF handleQuery
<1> QED BY <1>3, <1>4 DEF cfgs

-----------------------------------------------------------------------------
(* The specification that the shardmaster implements. *)

\* A clerk's request is Invoke of the atomic service.
LEMMA ConfigsInvoke ==
  ASSUME SMInv, NEW c \in Client, NEW op \in Ops, Submit(c, op)
  PROVE  Configs!Next
<1>1. Request(c, op, NoOp)
  BY DEF Submit
<1>2. Named(op, c, id[c] + 1, NoOp) \in Op
  BY <1>1, RequestIsOp DEF SMInv
<1>3. /\ Completed("Query")' = Completed("Query")
      /\ Waiting(c, "Query") = NoOp /\ Waiting(c, "Query")' # NoOp
      /\ Waiting(c, "Query")'.born = Len(Completed("Query")) /\ ~Waiting(c, "Query")'.taken
      /\ \A d \in Client \ {c} : Waiting(d, "Query")' = Waiting(d, "Query")
      /\ \A d \in Client : Told(d)' = Told(d)
  BY <1>1, <1>2, OpIsOpSet, Invoked DEF SMInv
<1>4. Configs!Invoke(c)
  <2> DEFINE pend == [d \in Client |-> Waiting(d, "Query")]
             reply == [d \in Client |-> Told(d)]
  <2>1. pend[c] = Waiting(c, "Query") /\ pend'[c] = Waiting(c, "Query")'
    OBVIOUS
  <2>2. pend' = [pend EXCEPT ![c] = pend'[c]]
    BY <1>3, <2>1
  <2>3. UNCHANGED reply
    BY <1>3
  <2>4. pend'[c].born = Len(Completed("Query")) /\ ~pend'[c].taken
    BY <1>3, <2>1, Zenon
  <2> QED BY <1>3, <2>1, <2>2, <2>3, <2>4, Zenon DEF Configs!Invoke, Completed
<1> QED BY <1>4 DEF Configs!Next

\* Agreement on an operation's first occurrence is Take; a duplicate stutters.
LEMMA ConfigsTake ==
  ASSUME SMInv, Agree
  PROVE  [Configs!Next]_(Configs!vars)
<1>1. Commit
  BY DEF Agree
<1>2. /\ \A d \in Client : Told(d)' = Told(d)
      /\ \/ /\ Completed("Query")' = Completed("Query")
            /\ \A d \in Client : Waiting(d, "Query")' = Waiting(d, "Query")
         \/ \E c \in Client :
               /\ Waiting(c, "Query") # NoOp /\ ~Waiting(c, "Query").taken
               /\ Waiting(c, "Query").op.type # "Query"
               /\ Completed("Query")' = Append(Completed("Query"), Waiting(c, "Query").op)
               /\ Waiting(c, "Query")' = [Waiting(c, "Query") EXCEPT !.taken = TRUE]
               /\ \A d \in Client \ {c} : Waiting(d, "Query")' = Waiting(d, "Query")
  BY <1>1, OpIsOpSet, Taken DEF SMInv
<1>3. CASE /\ Completed("Query")' = Completed("Query")
           /\ \A d \in Client : Waiting(d, "Query")' = Waiting(d, "Query")
  BY <1>2, <1>3 DEF Configs!vars, Completed
<1>4. CASE \E c \in Client :
               /\ Waiting(c, "Query") # NoOp /\ ~Waiting(c, "Query").taken
               /\ Waiting(c, "Query").op.type # "Query"
               /\ Completed("Query")' = Append(Completed("Query"), Waiting(c, "Query").op)
               /\ Waiting(c, "Query")' = [Waiting(c, "Query") EXCEPT !.taken = TRUE]
               /\ \A d \in Client \ {c} : Waiting(d, "Query")' = Waiting(d, "Query")
  <2>1. PICK c \in Client :
               /\ Waiting(c, "Query") # NoOp /\ ~Waiting(c, "Query").taken
               /\ Waiting(c, "Query").op.type # "Query"
               /\ Completed("Query")' = Append(Completed("Query"), Waiting(c, "Query").op)
               /\ Waiting(c, "Query")' = [Waiting(c, "Query") EXCEPT !.taken = TRUE]
               /\ \A d \in Client \ {c} : Waiting(d, "Query")' = Waiting(d, "Query")
    BY <1>4
  <2>2. Configs!Take(c)
    BY <1>2, <2>1 DEF Configs!Take, Completed, IsQuery
  <2> QED BY <2>2 DEF Configs!Next
<1> QED BY <1>2, <1>3, <1>4

\* A reply is Return of the atomic service, a Query's with a configuration it may give.
LEMMA ConfigsReturn ==
  ASSUME SMInv, NEW h \in handlers, Answered(h, h.ch.value)
  PROVE  Configs!Next
<1> DEFINE c == h.op.me
<1>1. /\ c \in Client /\ Waiting(c, "Query") # NoOp /\ Waiting(c, "Query").op = h.op
      /\ Waiting(c, "Query")' = NoOp
      /\ h.op.type # "Query" => Waiting(c, "Query").taken
      /\ Completed("Query")' = Completed("Query")
      /\ \A d \in Client \ {c} : /\ Waiting(d, "Query")' = Waiting(d, "Query")
                                 /\ Told(d)' = Told(d)
      /\ Told(c)' = h.ch.value
  BY OpIsOpSet, Returned DEF SMInv
<1>2. h.op \in Op /\ pending[c] = h.op /\ pending[c] # NoOp /\ SameName(h.op, h.ch) /\ h.ch # NoOp
  BY OpIsOpSet DEF SMInv, ServiceInv, ServiceType, Answered, OpSet
<1>3. ASSUME h.op.type = "Query"
      PROVE  \E n \in Waiting(c, "Query").born..Len(Completed("Query")) :
                Told(c)' = ConfigFor(SubSeq(Completed("Query"), 1, n), h.op)
  <2>1. PICK n \in 1..Len(log) :
            /\ SameName(h.ch, log[n])
            /\ log[n].type = "Query" => h.ch.value = handleQuery(History(n), log[n].num)
    BY <1>2 DEF SMInv, Answers
  <2>t. log \in Seq(Op) /\ Len(log) \in Nat /\ n \in Nat
    BY DEF SMInv, ServiceInv, ServiceType
  <2>2. log[n] = h.op
    <3>1. log[n] \in Op /\ Used(log[n]) /\ Used(h.op) /\ SameName(log[n], h.op)
      BY <1>2, <2>1, <2>t DEF Used, SameName
    <3> QED BY <1>2, <3>1 DEF SMInv, ServiceInv, Names
  <2>3. born[c] <= n /\ n <= Len(log)
    <3>1. n > born[c] /\ born[c] \in Nat
      BY <1>1, <1>2, <2>2, <2>t DEF SMInv, ServiceInv, ServiceType, Clerks
    <3> QED BY <3>1, <2>t
  <2> DEFINE es == Effective(n, "Query")
  <2>4. /\ Len(es) \in Waiting(c, "Query").born..Len(Completed("Query"))
        /\ SubSeq(Completed("Query"), 1, Len(es)) = es
    BY <1>1, <1>2, <2>3, <2>t, OpIsOpSet, SeenAt DEF SMInv
  <2>5. es \in Seq(Op)
    BY <2>t, <2>3, EffectiveRange, EffectiveIs
  <2>6. h.ch.value = handleQuery(ConfigsAfter(es), h.op.num)
    BY <1>3, <2>1, <2>2 DEF History
  <2> HIDE DEF es
  <2>7. h.ch.value = ConfigFor(es, h.op)
    BY <1>2, <1>3, <2>5, <2>6, QueryIsConfigFor
  <2> QED BY <1>1, <2>4, <2>7
<1> HIDE DEF c
<1>4. Configs!Return(c)
  <2>1. IF IsQuery(Waiting(c, "Query").op)
        THEN \E n \in Waiting(c, "Query").born..Len(Completed("Query")) :
                Told(c)' = ConfigFor(SubSeq(Completed("Query"), 1, n), Waiting(c, "Query").op)
        ELSE Waiting(c, "Query").taken
    BY <1>1, <1>3 DEF IsQuery
  <2> DEFINE pend == [d \in Client |-> Waiting(d, "Query")]
             reply == [d \in Client |-> Told(d)]
  <2>2. /\ pend[c] = Waiting(c, "Query") /\ pend'[c] = Waiting(c, "Query")'
        /\ reply'[c] = Told(c)'
    BY <1>1
  <2>3. pend' = [pend EXCEPT ![c] = NoOp]
    BY <1>1, <2>2
  <2>4. reply' = [reply EXCEPT ![c] = reply'[c]]
    BY <1>1, <2>2
  <2>5. IF IsQuery(pend[c].op)
        THEN \E n \in pend[c].born..Len(Completed("Query")) :
                reply'[c] = ConfigFor(SubSeq(Completed("Query"), 1, n), pend[c].op)
        ELSE pend[c].taken
    BY <2>1, <2>2, Zenon
  <2> QED BY <1>1, <2>2, <2>3, <2>4, <2>5, Zenon DEF Configs!Return, Completed
<1> QED BY <1>1, <1>4 DEF Configs!Next

\* The replicated shardmaster implements one atomic sequence of configurations:
\* a Join, Leave or Move takes effect when its first copy is committed, a Query
\* at the entry that some server answered it from (waitAppliedOrTimeout,
\* isDuplicateOp, handleQuery).
THEOREM ImplementsAtomicConfigs == Spec => ImplementsConfigs
<1>1. Init => Configs!Init
  <2> SUFFICES ASSUME Init PROVE Configs!Init
    OBVIOUS
  <2>1. Effective(0, "Query") = <<>>
    BY EffectiveIs, EffectiveSteps
  <2>2. Len(log) = 0
    BY DEF Init, InitService
  <2>3. \A c \in Client : Waiting(c, "Query") = NoOp /\ Told(c) = NoOp
    BY DEF Init, InitService, Waiting, Told
  <2> QED BY <2>1, <2>2, <2>3 DEF Configs!Init
<1>2. SMInv /\ [Next]_vars =>
        (UNCHANGED <<log, clerkVars>> \/ [Configs!Next]_(Configs!vars))
  <2> SUFFICES ASSUME SMInv, [Next]_vars
               PROVE  UNCHANGED <<log, clerkVars>> \/ [Configs!Next]_(Configs!vars)
    OBVIOUS
  <2>1. CASE \E c \in Client : \E op \in Ops : Submit(c, op)
    BY <2>1, ConfigsInvoke
  <2>2. CASE \E c \in Client : \E s \in Server : Serve(c, s)
    <3>1. UNCHANGED <<log, pending, answer, born>>
      BY <2>2, ServeKeeps
    <3>2. Completed("Query")' = Completed("Query")
      <4>1. Completed("Query")' = EffectiveOf(log', Len(log'), "Query")
        BY EffectiveIs DEF Completed
      <4>2. Completed("Query") = EffectiveOf(log, Len(log), "Query")
        BY EffectiveIs DEF Completed
      <4> QED BY <3>1, <4>1, <4>2
    <3>3. ASSUME NEW c \in Client
          PROVE  Waiting(c, "Query")' = Waiting(c, "Query") /\ Told(c)' = Told(c)
      <4>1. EffectiveOf(log', born'[c], "Query") = EffectiveOf(log, born[c], "Query")
        BY <3>1
      <4>2. Effective(born[c], "Query")' = Effective(born[c], "Query")
        BY <4>1, EffectiveIs
      <4> QED BY <3>1, <4>2 DEF Waiting, Told, Range
    <3> QED BY <3>2, <3>3 DEF Configs!vars, Completed
  <2>3. CASE \E h \in handlers : HandlerStep(h)
    BY <2>3, HandlerKeeps, ConfigsReturn
  <2>4. CASE Agree
    BY <2>4, ConfigsTake
  <2>5. CASE \E s \in Server : ApplyEntry(s)
    BY <2>5, ApplyKeeps
  <2>6. CASE \E s \in Server : StartServer(s)
    BY <2>6, RestartKeeps
  <2>7. CASE UNCHANGED vars
    BY <2>7 DEF vars, serviceVars, raftVars, clerkVars
  <2> QED BY <2>1, <2>2, <2>3, <2>4, <2>5, <2>6, <2>7 DEF Next
<1> QED BY <1>1, <1>2, SMInvariant, PTL DEF Spec, ImplementsConfigs

-----------------------------------------------------------------------------
(* Counting. *)

\* The number of its predecessors names each element of a finite, totally
\* ordered set.
LEMMA RankBijection ==
  ASSUME NEW S, IsFiniteSet(S), NEW B \in [S -> SUBSET S],
         \A x \in S : x \notin B[x],
         \A x, y \in S : x \in B[y] => B[x] \subseteq B[y],
         \A x, y \in S : x # y => x \in B[y] \/ y \in B[x],
         NEW f \in [S -> Int], \A x \in S : f[x] = Cardinality(B[x])
  PROVE  f \in Bijection(S, 0..(Cardinality(S) - 1))
<1> DEFINE n == Cardinality(S)
<1>1. n \in Nat
  BY FS_CardinalityType
<1>2. ASSUME NEW x \in S PROVE f[x] \in 0..(n - 1) /\ IsFiniteSet(B[x])
  <2>1. B[x] \in SUBSET (S \ {x})
    OBVIOUS
  <2>2. IsFiniteSet(S \ {x}) /\ Cardinality(S \ {x}) = n - 1
    BY FS_RemoveElement
  <2>3. IsFiniteSet(B[x]) /\ Cardinality(B[x]) <= n - 1
    BY <2>1, <2>2, FS_Subset
  <2>4. Cardinality(B[x]) \in Nat
    BY <2>3, FS_CardinalityType
  <2> QED BY <1>1, <2>3, <2>4
<1>3. ASSUME NEW x \in S, NEW y \in S, x \in B[y] PROVE f[x] < f[y]
  <2>1. B[x] \in SUBSET B[y] /\ x \in B[y] /\ x \notin B[x]
    BY <1>3
  <2>2. IsFiniteSet(B[y])
    BY <1>2
  <2>3. Cardinality(B[x]) <= Cardinality(B[y]) /\ Cardinality(B[x]) # Cardinality(B[y])
    BY <2>1, <2>2, FS_Subset
  <2> QED BY <2>3
<1>4. f \in Injection(S, 0..(n - 1))
  <2>1. f \in [S -> 0..(n - 1)]
    BY <1>2
  <2>2. ASSUME NEW x \in S, NEW y \in S, f[x] = f[y] PROVE x = y
    <3> SUFFICES ASSUME x # y PROVE FALSE
      OBVIOUS
    <3>2. f[x] < f[y] \/ f[y] < f[x]
      BY <1>3
    <3> QED BY <2>2, <3>2
  <2> QED BY <2>1, <2>2, Fun_IsInj
<1>5. IsFiniteSet(0..(n - 1)) /\ Cardinality(0..(n - 1)) = n
  <2>1. 0 \in Int /\ n - 1 \in Int
    BY <1>1
  <2>2. IsFiniteSet(0..(n - 1)) /\ Cardinality(0..(n - 1)) = IF 0 > n - 1 THEN 0 ELSE n - 1 - 0 + 1
    <3> HIDE DEF n
    <3> QED BY <2>1, FS_Interval
  <2> QED BY <1>1, <2>2
<1>6. f \in Surjection(S, 0..(n - 1))
  BY <1>4, <1>5, FS_Injection
<1> QED BY <1>4, <1>6, Fun_IsBij

\* What it means for a map to be one-to-one.
LEMMA OneToOne ==
  ASSUME NEW S, NEW T, NEW f \in Injection(S, T), NEW x \in S, NEW y \in S, f[x] = f[y]
  PROVE  x = y
<1>1. \A a, b \in S : f[a] = f[b] => a = b
  BY Fun_InjectionProperties
<1> QED BY <1>1

\* The same for a finite set of numbers: its elements by how many are smaller.
LEMMA NumberRank ==
  ASSUME NEW S \in SUBSET Int, IsFiniteSet(S),
         NEW f \in [S -> Int], \A x \in S : f[x] = Cardinality({y \in S : y < x})
  PROVE  /\ \A x \in S : f[x] \in 0..(Cardinality(S) - 1)
         /\ \A x, y \in S : f[x] = f[y] => x = y
         /\ \A i \in 0..(Cardinality(S) - 1) : \E x \in S : f[x] = i
<1> DEFINE B == [x \in S |-> {y \in S : y < x}]
<1>0. \A x \in S : x \in Int
  OBVIOUS
<1>1. B \in [S -> SUBSET S]
  OBVIOUS
<1>2. \A x \in S : B[x] = {y \in S : y < x}
  OBVIOUS
<1>3. \A x, y \in S : x \in B[y] <=> x < y
  BY <1>2
<1>4. \A x \in S : f[x] = Cardinality(B[x])
  BY <1>2
<1> HIDE DEF B
<1>5. \A x \in S : x \notin B[x]
  BY <1>0, <1>3
<1>6. ASSUME NEW x \in S, NEW y \in S, x \in B[y] PROVE B[x] \subseteq B[y]
  <2>1. x < y
    BY <1>3, <1>6
  <2>2. ASSUME NEW z \in B[x] PROVE z \in B[y]
    <3>1. z \in S
      BY <1>1, <2>2
    <3>2. z < x
      BY <1>3, <2>2, <3>1
    <3>3. z < y
      BY <1>0, <2>1, <3>1, <3>2
    <3> QED BY <1>3, <3>1, <3>3
  <2> QED BY <2>2
<1>7. ASSUME NEW x \in S, NEW y \in S, x # y PROVE x \in B[y] \/ y \in B[x]
  <2>1. x < y \/ y < x
    BY <1>0, <1>7
  <2> QED BY <1>3, <2>1
<1>8. \A x, y \in S : x \in B[y] => B[x] \subseteq B[y]
  BY <1>6
<1>9. \A x, y \in S : x # y => x \in B[y] \/ y \in B[x]
  BY <1>7
<1> DEFINE T == 0..(Cardinality(S) - 1)
<1>10. f \in Bijection(S, T)
  BY <1>1, <1>4, <1>5, <1>8, <1>9, RankBijection
<1> HIDE DEF T
<1>11. /\ \A x \in S : f[x] \in T
       /\ \A x, y \in S : f[x] = f[y] => x = y
       /\ \A i \in T : \E x \in S : f[x] = i
  <2>1. f \in Injection(S, T) /\ f \in Surjection(S, T)
    BY <1>10, Fun_BijectionProperties, Zenon
  <2>2. \A x \in S : f[x] \in T
    BY <2>1 DEF Injection
  <2>3. \A x, y \in S : f[x] = f[y] => x = y
    <3> SUFFICES ASSUME NEW x \in S, NEW y \in S, f[x] = f[y] PROVE x = y
      OBVIOUS
    <3> QED BY <2>1, OneToOne
  <2>4. \A i \in T : \E x \in S : f[x] = i
    BY <2>1, Zenon DEF Surjection
  <2> QED BY <2>2, <2>3, <2>4
<1> QED BY <1>11 DEF T

\* Sets that a one-to-one map onto relates have the same size.
LEMMA SameSize ==
  ASSUME NEW S, NEW T, IsFiniteSet(S), NEW f \in [S -> T],
         \A x, y \in S : f[x] = f[y] => x = y,
         \A t \in T : \E x \in S : f[x] = t
  PROVE  IsFiniteSet(T) /\ Cardinality(T) = Cardinality(S)
<1>1. f \in Injection(S, T)
  BY Fun_IsInj
<1>2. f \in Surjection(S, T)
  BY Fun_IsSurj
<1>3. f \in Bijection(S, T)
  BY <1>1, <1>2, Fun_IsBij
<1>4. ExistsBijection(S, T)
  BY <1>3, Fun_ExistsBij
<1> QED BY <1>3, <1>4, FS_Bijection

\* A set that is mapped one-to-one into another is not the larger one; when
\* they have the same size the map is onto.
LEMMA NotLarger ==
  ASSUME NEW S, NEW T, IsFiniteSet(T), NEW f \in [S -> T],
         \A x, y \in S : f[x] = f[y] => x = y
  PROVE  /\ IsFiniteSet(S) /\ Cardinality(S) <= Cardinality(T)
         /\ Cardinality(S) = Cardinality(T) => \A t \in T : \E x \in S : f[x] = t
<1>1. f \in Injection(S, T)
  BY Fun_IsInj
<1>2. IsFiniteSet(S) /\ Cardinality(S) <= Cardinality(T)
  BY <1>1, FS_Injection
<1>3. ASSUME Cardinality(S) = Cardinality(T) PROVE \A t \in T : \E x \in S : f[x] = t
  <2>1. f \in Surjection(S, T)
    BY <1>1, <1>3, FS_Injection
  <2> QED BY <2>1 DEF Surjection
<1> QED BY <1>2, <1>3

\* What a set has and what it lacks.
LEMMA Complement ==
  ASSUME NEW S, IsFiniteSet(S), NEW T \in SUBSET S
  PROVE  /\ IsFiniteSet(T) /\ IsFiniteSet(S \ T)
         /\ Cardinality(T) \in Nat /\ Cardinality(S) \in Nat /\ Cardinality(S \ T) \in Nat
         /\ Cardinality(S \ T) = Cardinality(S) - Cardinality(T)
<1>1. IsFiniteSet(T)
  BY FS_Subset
<1>2. S \cap T = T
  OBVIOUS
<1>3. IsFiniteSet(S \ T) /\ Cardinality(S \ T) = Cardinality(S) - Cardinality(T)
  BY <1>2, FS_Difference
<1> QED BY <1>1, <1>3, FS_CardinalityType

\* Multiples of a natural number are ordered as what they are multiples of.
LEMMA Multiples ==
  ASSUME NEW a \in Nat, NEW b \in Nat, NEW n \in Nat
  PROVE  /\ a * n \in Nat /\ b * n \in Nat
         /\ a <= b => a * n <= b * n
         /\ a < b => a * n + n <= b * n
         /\ n * a <= n * b <=> a * n <= b * n
<1>1. a * n \in Nat /\ b * n \in Nat
  OBVIOUS
<1>2. ASSUME a <= b PROVE a * n <= b * n
  <2>1. PICK d \in Nat : b = a + d
    <3>1. b - a \in Nat /\ b = a + (b - a)
      BY <1>2
    <3> QED BY <3>1
  <2>2. b * n = a * n + d * n /\ d * n \in Nat
    BY <2>1
  <2> QED BY <1>1, <2>2
<1>3. ASSUME a < b PROVE a * n + n <= b * n
  <2>1. PICK d \in Nat : b = a + 1 + d
    <3>1. b - a - 1 \in Nat /\ b = a + 1 + (b - a - 1)
      BY <1>3
    <3> QED BY <3>1
  <2>2. b * n = a * n + n + d * n /\ d * n \in Nat
    BY <2>1
  <2> QED BY <1>1, <2>2
<1>4. n * a = a * n /\ n * b = b * n
  OBVIOUS
<1> QED BY <1>1, <1>2, <1>3, <1>4

\* Equal pairs have equal parts.
LEMMA SamePair ==
  ASSUME NEW a, NEW b, NEW c, NEW d, <<a, b>> = <<c, d>>
  PROVE  a = c /\ b = d
  OBVIOUS

\* Quotient and remainder.
LEMMA Division ==
  ASSUME NEW a \in Nat, NEW n \in Nat \ {0}
  PROVE  /\ a \div n \in Nat /\ a % n \in 0..(n - 1)
         /\ a = (a \div n) * n + (a % n)
<1>1. a % n \in 0..(n - 1)
  OBVIOUS
<1>2. a = (a \div n) * n + (a % n)
  OBVIOUS
<1>3. a \div n \in Nat
  OBVIOUS
<1> QED BY <1>1, <1>2, <1>3

-----------------------------------------------------------------------------
(* The targets. *)

\* The shards, counted.
LEMMA ShardCount == IsFiniteSet(Shard) /\ Cardinality(Shard) = NShards /\ Shard \subseteq Nat
<1>1. 0 \in Int /\ NShards - 1 \in Int /\ NShards \in Nat \ {0}
  BY NShardsAssumption
<1>2. IsFiniteSet(0..(NShards - 1)) /\ Cardinality(0..(NShards - 1)) = IF 0 > NShards - 1 THEN 0 ELSE NShards - 1 - 0 + 1
  BY <1>1, FS_Interval
<1> QED BY <1>1, <1>2 DEF Shard

\* The gids have one place each in the sorted list, and every place is taken.
LEMMA RankFacts ==
  ASSUME NEW groups \in SUBSET Nat, IsFiniteSet(groups), groups # {}
  PROVE  /\ Cardinality(groups) \in Nat \ {0}
         /\ \A g \in groups : RankOf(g, groups) \in 0..(Cardinality(groups) - 1)
         /\ \A g, h \in groups : RankOf(g, groups) = RankOf(h, groups) => g = h
         /\ \A i \in 0..(Cardinality(groups) - 1) : \E g \in groups : RankOf(g, groups) = i
<1> DEFINE f == [g \in groups |-> RankOf(g, groups)]
<1>1. Cardinality(groups) \in Nat \ {0}
  BY FS_CardinalityType, FS_EmptySet
<1>2. ASSUME NEW g \in groups PROVE RankOf(g, groups) \in Int
  <2> DEFINE L == {h \in groups : h < g}
  <2>1. L \in SUBSET groups
    OBVIOUS
  <2>2. Cardinality(L) \in Nat
    <3> HIDE DEF L
    <3> QED BY <2>1, Complement
  <2> QED BY <2>2 DEF RankOf
<1>3. f \in [groups -> Int] /\ \A g \in groups : f[g] = Cardinality({h \in groups : h < g})
  BY <1>2 DEF RankOf
<1>4. groups \in SUBSET Int
  OBVIOUS
<1>5. \A g \in groups : f[g] = RankOf(g, groups)
  OBVIOUS
<1> HIDE DEF f
<1>7. /\ \A g \in groups : f[g] \in 0..(Cardinality(groups) - 1)
      /\ \A g, h \in groups : f[g] = f[h] => g = h
      /\ \A i \in 0..(Cardinality(groups) - 1) : \E g \in groups : f[g] = i
  BY <1>3, <1>4, NumberRank
<1> QED BY <1>1, <1>5, <1>7

\* A group has a k-th shard to get exactly when dealing the shards out in turns,
\* in the order of the gids, would reach it.
LEMMA Threshold ==
  ASSUME NEW groups \in SUBSET Nat, IsFiniteSet(groups), NEW g \in groups, NEW k \in Nat
  PROVE  /\ target(g, groups) \in Nat
         /\ k < target(g, groups) <=> k * Cardinality(groups) + RankOf(g, groups) < NShards
<1> DEFINE n == Cardinality(groups)
           q == NShards \div n
           r == NShards % n
           i == RankOf(g, groups)
<1>1. n \in Nat \ {0} /\ i \in 0..(n - 1)
  BY RankFacts
<1>2. q \in Nat /\ r \in 0..(n - 1) /\ NShards = q * n + r
  <2> HIDE DEF n
  <2> QED BY <1>1, NShardsAssumption, Division
<1>3. target(g, groups) = q + (IF i < r THEN 1 ELSE 0)
  BY DEF target
<1> HIDE DEF n, q, r, i
<1>4. target(g, groups) \in Nat
  BY <1>1, <1>2, <1>3
<1>5. k * n \in Nat /\ q * n \in Nat
  BY <1>1, <1>2, Multiples
<1>6. CASE k < q
  <2>1. k * n + n <= q * n
    BY <1>1, <1>2, <1>6, Multiples
  <2>2. k < target(g, groups)
    BY <1>1, <1>2, <1>3, <1>6
  <2>3. k * n + i < NShards
    BY <1>1, <1>2, <1>5, <2>1
  <2> QED BY <1>4, <2>2, <2>3 DEF n, i
<1>7. CASE k = q
  <2>1. k < target(g, groups) <=> i < r
    BY <1>1, <1>2, <1>3, <1>7
  <2>2. k * n + i < NShards <=> i < r
    <3>1. k * n = q * n
      BY <1>7
    <3> QED BY <1>1, <1>2, <1>5, <3>1
  <2> QED BY <1>4, <2>1, <2>2 DEF n, i
<1>8. CASE q < k
  <2>1. q * n + n <= k * n
    BY <1>1, <1>2, <1>8, Multiples
  <2>2. ~ k < target(g, groups)
    BY <1>1, <1>2, <1>3, <1>8
  <2>3. ~ k * n + i < NShards
    BY <1>1, <1>2, <1>5, <2>1
  <2> QED BY <1>4, <2>2, <2>3 DEF n, i
<1> QED BY <1>2, <1>6, <1>7, <1>8

\* More groups, and no group's target grows.
LEMMA TargetShrinks ==
  ASSUME NEW groups \in SUBSET Nat, IsFiniteSet(groups), NEW fewer \in SUBSET groups, NEW g \in fewer
  PROVE  target(g, groups) <= target(g, fewer)
<1> DEFINE n == Cardinality(groups)
           m == Cardinality(fewer)
           i == RankOf(g, groups)
           j == RankOf(g, fewer)
           t == target(g, groups)
<1>1. IsFiniteSet(fewer) /\ m <= n /\ m \in Nat /\ n \in Nat
  BY FS_Subset, FS_CardinalityType
<1>2. j <= i /\ i \in Nat /\ j \in Nat
  <2> DEFINE L == {h \in groups : h < g}
             M == {h \in fewer : h < g}
  <2>1. L \in SUBSET groups /\ M \in SUBSET L
    OBVIOUS
  <2>2. Cardinality(M) <= Cardinality(L) /\ Cardinality(L) \in Nat /\ Cardinality(M) \in Nat
    <3> HIDE DEF L, M
    <3>1. IsFiniteSet(L)
      BY <2>1, FS_Subset
    <3> QED BY <2>1, <3>1, FS_Subset, FS_CardinalityType
  <2> QED BY <2>2 DEF RankOf
<1>3. t \in Nat /\ target(g, fewer) \in Nat
  BY <1>1, Threshold
<1>4. CASE t = 0
  BY <1>3, <1>4
<1>5. CASE t # 0
  <2> DEFINE k == t - 1
  <2>1. k \in Nat /\ k < t /\ t = k + 1
    BY <1>3, <1>5
  <2> HIDE DEF k
  <2>2. k * n + i < NShards
    BY <2>1, Threshold
  <2>3. k * m <= k * n /\ k * m \in Nat /\ k * n \in Nat
    BY <1>1, <2>1, Multiples
  <2>4. k * m + j < NShards
    <3> HIDE DEF n, m, i, j
    <3> QED BY <1>2, <2>2, <2>3, NShardsAssumption
  <2>5. k < target(g, fewer)
    BY <1>1, <2>1, <2>4, Threshold
  <2> QED BY <1>3, <2>1, <2>5
<1> QED BY <1>4, <1>5

\* The places that the targets make, a group and a number below its target each.
Places(groups) == {p \in groups \X Nat : p[2] < target(p[1], groups)}

\* There are as many places as shards.
LEMMA PlacesCount ==
  ASSUME NEW groups \in SUBSET Nat, IsFiniteSet(groups), groups # {}
  PROVE  IsFiniteSet(Places(groups)) /\ Cardinality(Places(groups)) = NShards
<1> DEFINE n == Cardinality(groups)
           T == Places(groups)
           f == [p \in T |-> p[2] * n + RankOf(p[1], groups)]
<1>1. n \in Nat \ {0} /\ \A g \in groups : RankOf(g, groups) \in 0..(n - 1)
  BY RankFacts
<1>2. ASSUME NEW p \in T
      PROVE  p = <<p[1], p[2]>> /\ p[1] \in groups /\ p[2] \in Nat /\ p[2] < target(p[1], groups)
  BY DEF Places
<1>3. ASSUME NEW p \in T PROVE f[p] \in Shard
  <2>1. p[2] * n + RankOf(p[1], groups) < NShards
    BY <1>2, Threshold
  <2>2. p[2] * n \in Nat
    BY <1>1, <1>2, Multiples
  <2> HIDE DEF n, T
  <2>3. f[p] = p[2] * n + RankOf(p[1], groups)
    OBVIOUS
  <2>4. RankOf(p[1], groups) \in Nat
    BY <1>1, <1>2
  <2> QED BY <2>1, <2>2, <2>3, <2>4, NShardsAssumption DEF Shard
<1>4. ASSUME NEW p \in T, NEW o \in T, f[p] = f[o] PROVE p = o
  <2> DEFINE i == RankOf(p[1], groups)
             j == RankOf(o[1], groups)
  <2>1. i \in 0..(n - 1) /\ j \in 0..(n - 1) /\ p[2] \in Nat /\ o[2] \in Nat
    BY <1>1, <1>2
  <2>2. p[2] * n + i = o[2] * n + j
    BY <1>4
  <2>3. p[2] * n \in Nat /\ o[2] * n \in Nat
    BY <1>1, <2>1, Multiples
  <2>4. /\ p[2] < o[2] => p[2] * n + n <= o[2] * n
        /\ o[2] < p[2] => o[2] * n + n <= p[2] * n
    BY <1>1, <2>1, Multiples
  <2>5. p[2] = o[2]
    <3> HIDE DEF n, T, i, j
    <3> QED BY <1>1, <2>1, <2>2, <2>3, <2>4
  <2>6. i = j
    <3> HIDE DEF n, T, i, j
    <3> QED BY <2>1, <2>2, <2>3, <2>5
  <2>7. p[1] = o[1]
    BY <1>2, <2>6, RankFacts
  <2> QED BY <1>2, <2>5, <2>7
<1>5. ASSUME NEW s \in Shard PROVE \E p \in T : f[p] = s
  <2> DEFINE k == s \div n
             i == s % n
  <2>1. s \in Nat /\ s < NShards
    BY NShardsAssumption DEF Shard
  <2>2. k \in Nat /\ i \in 0..(n - 1) /\ s = k * n + i
    BY <1>1, <2>1, Division
  <2>3. PICK g \in groups : RankOf(g, groups) = i
    BY <2>2, RankFacts
  <2> HIDE DEF k, i
  <2>4. k < target(g, groups)
    BY <2>1, <2>2, <2>3, Threshold
  <2>5. <<g, k>> \in T
    BY <2>2, <2>4 DEF Places
  <2>6. f[<<g, k>>] = s
    BY <2>2, <2>3, <2>5
  <2> QED BY <2>5, <2>6
<1>6. f \in [T -> Shard]
  BY <1>3
<1> HIDE DEF f, T
<1>7. IsFiniteSet(T)
  BY <1>4, <1>6, NotLarger, ShardCount
<1>8. Cardinality(Shard) = Cardinality(T)
  BY <1>4, <1>5, <1>6, <1>7, SameSize
<1> QED BY <1>7, <1>8, ShardCount DEF T

-----------------------------------------------------------------------------
(* Rebalance(): who keeps a shard, and who gets one. *)

\* The place of a shard among the shards of its owner.
PlaceOf(shards, s) == Cardinality({t \in Owned(shards, shards[s]) : t < s})

\* The shards of one owner have the places from 0 on, one each.
LEMMA PlaceFacts ==
  ASSUME NEW shards \in [Shard -> Nat], NEW g
  PROVE  /\ Cardinality(Owned(shards, g)) \in Nat /\ IsFiniteSet(Owned(shards, g))
         /\ \A s \in Owned(shards, g) : PlaceOf(shards, s) \in 0..(Cardinality(Owned(shards, g)) - 1)
         /\ \A s, t \in Owned(shards, g) : PlaceOf(shards, s) = PlaceOf(shards, t) => s = t
         /\ \A k \in 0..(Cardinality(Owned(shards, g)) - 1) :
              \E s \in Owned(shards, g) : PlaceOf(shards, s) = k
<1> DEFINE S == Owned(shards, g)
           f == [s \in S |-> PlaceOf(shards, s)]
<1>1. S \in SUBSET Shard /\ \A s \in S : shards[s] = g
  BY DEF Owned
<1>2. IsFiniteSet(S) /\ Cardinality(S) \in Nat /\ S \in SUBSET Int
  <2> HIDE DEF S
  <2>1. S \in SUBSET Int
    BY <1>1, ShardCount
  <2> QED BY <1>1, <2>1, ShardCount, Complement
<1>3. \A s \in S : PlaceOf(shards, s) = Cardinality({t \in S : t < s})
  BY <1>1 DEF PlaceOf
<1>4. ASSUME NEW s \in S PROVE PlaceOf(shards, s) \in Int
  <2> DEFINE L == {t \in S : t < s}
  <2>1. L \in SUBSET S
    OBVIOUS
  <2>2. Cardinality(L) \in Nat
    <3> HIDE DEF L, S
    <3> QED BY <1>2, <2>1, Complement
  <2> QED BY <1>3, <2>2
<1> HIDE DEF S
<1>5. f \in [S -> Int] /\ \A s \in S : f[s] = Cardinality({t \in S : t < s})
  BY <1>3, <1>4
<1>6. \A s \in S : f[s] = PlaceOf(shards, s)
  OBVIOUS
<1> HIDE DEF f
<1>8. /\ \A s \in S : f[s] \in 0..(Cardinality(S) - 1)
      /\ \A s, t \in S : f[s] = f[t] => s = t
      /\ \A k \in 0..(Cardinality(S) - 1) : \E s \in S : f[s] = k
  BY <1>2, <1>5, NumberRank
<1>9. /\ \A s \in S : PlaceOf(shards, s) \in 0..(Cardinality(S) - 1)
      /\ \A s, t \in S : PlaceOf(shards, s) = PlaceOf(shards, t) => s = t
      /\ \A k \in 0..(Cardinality(S) - 1) : \E s \in S : PlaceOf(shards, s) = k
  BY <1>6, <1>8
<1> QED BY <1>2, <1>9 DEF S

\* The places that are filled before a shard is moved.
Filled(shards, groups) == {p \in Places(groups) : p[2] < Cardinality(Owned(shards, p[1]))}

\* The shards that are not pooled keep the filled places.
LEMMA KeptCount ==
  ASSUME NEW shards \in [Shard -> Nat], NEW groups \in SUBSET Nat, IsFiniteSet(groups), groups # {}
  PROVE  /\ \A s \in Shard \ pool(shards, groups) :
              <<shards[s], PlaceOf(shards, s)>> \in Filled(shards, groups)
         /\ \A s, t \in Shard : PlaceOf(shards, s) = PlaceOf(shards, t) /\ shards[s] = shards[t] => s = t
         /\ Cardinality(Filled(shards, groups)) = Cardinality(Shard \ pool(shards, groups))
<1> DEFINE K == Shard \ pool(shards, groups)
           I == Filled(shards, groups)
           f == [s \in K |-> <<shards[s], PlaceOf(shards, s)>>]
<1>1. ASSUME NEW s \in Shard PROVE s \in Owned(shards, shards[s])
  BY DEF Owned
<1>2. \A s \in Shard : s \in K <=> shards[s] \in groups /\ ~ PlaceOf(shards, s) >= target(shards[s], groups)
  BY DEF pool, PlaceOf
<1>3. ASSUME NEW s \in K PROVE f[s] \in I
  <2>1. shards[s] \in groups /\ ~ PlaceOf(shards, s) >= target(shards[s], groups)
    BY <1>2
  <2>2. /\ PlaceOf(shards, s) \in 0..(Cardinality(Owned(shards, shards[s])) - 1)
        /\ Cardinality(Owned(shards, shards[s])) \in Nat
    BY <1>1, PlaceFacts
  <2>3. target(shards[s], groups) \in Nat
    BY <2>1, Threshold
  <2>4. /\ PlaceOf(shards, s) \in Nat /\ PlaceOf(shards, s) < target(shards[s], groups)
        /\ PlaceOf(shards, s) < Cardinality(Owned(shards, shards[s]))
    BY <2>1, <2>2, <2>3
  <2>5. f[s] = <<shards[s], PlaceOf(shards, s)>>
    OBVIOUS
  <2> QED BY <2>1, <2>4, <2>5 DEF Filled, Places
<1>4. ASSUME NEW s \in Shard, NEW t \in Shard, PlaceOf(shards, s) = PlaceOf(shards, t), shards[s] = shards[t]
      PROVE  s = t
  BY <1>1, <1>4, PlaceFacts
<1>5. ASSUME NEW p \in I PROVE \E s \in K : f[s] = p
  <2>1. p = <<p[1], p[2]>> /\ p[1] \in groups /\ p[2] \in Nat /\ p[2] < target(p[1], groups)
        /\ p[2] < Cardinality(Owned(shards, p[1]))
    BY DEF Filled, Places
  <2>2. p[2] \in 0..(Cardinality(Owned(shards, p[1])) - 1)
    BY <2>1, PlaceFacts
  <2>3. PICK s \in Owned(shards, p[1]) : PlaceOf(shards, s) = p[2]
    BY <2>2, PlaceFacts
  <2>4. s \in Shard /\ shards[s] = p[1]
    BY DEF Owned
  <2>5. target(p[1], groups) \in Nat
    BY <2>1, Threshold
  <2>6. s \in K
    BY <1>2, <2>1, <2>3, <2>4, <2>5
  <2>7. f[s] = <<shards[s], PlaceOf(shards, s)>>
    BY <2>6
  <2> QED BY <2>1, <2>3, <2>4, <2>6, <2>7
<1>6. f \in [K -> I]
  BY <1>3
<1>7. ASSUME NEW s \in K, NEW t \in K, f[s] = f[t] PROVE s = t
  <2>1. f[s] = <<shards[s], PlaceOf(shards, s)>> /\ f[t] = <<shards[t], PlaceOf(shards, t)>>
    OBVIOUS
  <2>2. shards[s] = shards[t] /\ PlaceOf(shards, s) = PlaceOf(shards, t)
    BY <1>7, <2>1
  <2> QED BY <1>4, <2>2
<1>8. IsFiniteSet(K)
  BY ShardCount, FS_Subset
<1>9. Cardinality(I) = Cardinality(K)
  <2> HIDE DEF f, I, K
  <2> QED BY <1>5, <1>6, <1>7, <1>8, SameSize
<1>10. \A s \in K : <<shards[s], PlaceOf(shards, s)>> \in I
  BY <1>3
<1> QED BY <1>4, <1>9, <1>10

\* No group is to have more shards than there are.
LEMMA TargetBound ==
  ASSUME NEW groups \in SUBSET Nat, IsFiniteSet(groups), NEW g \in groups
  PROVE  target(g, groups) \in 0..NShards
<1> DEFINE n == Cardinality(groups)
           t == target(g, groups)
<1>1. n \in Nat \ {0} /\ RankOf(g, groups) \in Nat
  BY RankFacts
<1>2. t \in Nat
  BY Threshold
<1>3. CASE t = 0
  BY <1>3, NShardsAssumption
<1>4. CASE t # 0
  <2> DEFINE k == t - 1
  <2>1. k \in Nat /\ k < t /\ t = k + 1
    BY <1>2, <1>4
  <2> HIDE DEF k
  <2>2. k * n + RankOf(g, groups) < NShards
    BY <2>1, Threshold
  <2>3. 1 <= n
    BY <1>1
  <2>4. k * 1 <= k * n /\ k * n \in Nat
    <3> HIDE DEF n
    <3>1. 1 * k <= n * k /\ n * k \in Nat
      BY <1>1, <2>1, <2>3, Multiples
    <3>2. k * 1 = 1 * k /\ k * n = n * k
      BY <1>1, <2>1
    <3> QED BY <3>1, <3>2
  <2> HIDE DEF n, t
  <2>5. t \in 0..NShards
    <3>1. k * 1 = k
      BY <2>1
    <3> QED BY <1>1, <2>1, <2>2, <2>4, <3>1, NShardsAssumption
  <2> QED BY <2>5 DEF t
<1> QED BY <1>3, <1>4

\* The slots of need are the places that are not filled.
LEMMA NeedCount ==
  ASSUME NEW shards \in [Shard -> Nat], NEW groups \in SUBSET Nat, IsFiniteSet(groups), groups # {}
  PROVE  /\ \A p \in need(shards, groups) :
              /\ p = <<p[1], p[2]>> /\ p[1] \in groups /\ p[2] \in Nat \ {0}
              /\ <<p[1], Cardinality(Owned(shards, p[1])) + p[2] - 1>>
                   \in Places(groups) \ Filled(shards, groups)
         /\ IsFiniteSet(need(shards, groups))
         /\ Cardinality(need(shards, groups)) = Cardinality(Places(groups) \ Filled(shards, groups))
<1> DEFINE S == need(shards, groups)
           J == Places(groups) \ Filled(shards, groups)
           c(g) == Cardinality(Owned(shards, g))
           f == [p \in S |-> <<p[1], c(p[1]) + p[2] - 1>>]
<1>1. ASSUME NEW g \in groups
      PROVE  c(g) \in Nat /\ target(g, groups) \in 0..NShards
  BY PlaceFacts, TargetBound
<1>2. NShards \in Nat
  BY NShardsAssumption
<1>3. ASSUME NEW p \in S
      PROVE  p = <<p[1], p[2]>> /\ p[1] \in groups /\ p[2] \in 1..NShards
             /\ p[2] <= target(p[1], groups) - c(p[1])
  BY DEF need
<1>4. J = {p \in groups \X Nat : p[2] < target(p[1], groups) /\ ~ p[2] < c(p[1])}
  BY DEF Places, Filled
<1> HIDE DEF S, c
<1>5. ASSUME NEW p \in S PROVE <<p[1], c(p[1]) + p[2] - 1>> \in J
  <2>1. p[1] \in groups /\ p[2] \in 1..NShards /\ p[2] <= target(p[1], groups) - c(p[1])
    BY <1>3
  <2>2. c(p[1]) \in Nat /\ target(p[1], groups) \in 0..NShards
    BY <1>1, <2>1
  <2>3. /\ c(p[1]) + p[2] - 1 \in Nat /\ c(p[1]) + p[2] - 1 < target(p[1], groups)
        /\ ~ c(p[1]) + p[2] - 1 < c(p[1])
    BY <1>2, <2>1, <2>2
  <2> QED BY <1>4, <2>1, <2>3
<1>6. ASSUME NEW p \in S, NEW o \in S, f[p] = f[o] PROVE p = o
  <2>1. f[p] = <<p[1], c(p[1]) + p[2] - 1>> /\ f[o] = <<o[1], c(o[1]) + o[2] - 1>>
    OBVIOUS
  <2>2. p[1] = o[1] /\ c(p[1]) + p[2] - 1 = c(o[1]) + o[2] - 1
    BY <1>6, <2>1
  <2>3. c(p[1]) \in Nat /\ p[2] \in Nat /\ o[2] \in Nat /\ c(p[1]) = c(o[1])
    BY <1>1, <1>2, <1>3, <2>2
  <2>4. p[2] = o[2]
    BY <2>2, <2>3
  <2> QED BY <1>3, <2>2, <2>4
<1>7. ASSUME NEW p \in J PROVE \E o \in S : f[o] = p
  <2>1. p = <<p[1], p[2]>> /\ p[1] \in groups /\ p[2] \in Nat
        /\ p[2] < target(p[1], groups) /\ ~ p[2] < c(p[1])
    BY <1>4
  <2> DEFINE k == p[2] - c(p[1]) + 1
  <2>2. k \in 1..NShards /\ k <= target(p[1], groups) - c(p[1]) /\ c(p[1]) + k - 1 = p[2]
    BY <1>1, <1>2, <2>1
  <2> HIDE DEF k
  <2>3. <<p[1], k>> \in S
    BY <2>1, <2>2 DEF S, need, c
  <2>4. f[<<p[1], k>>] = <<p[1], c(p[1]) + k - 1>>
    BY <2>3
  <2> QED BY <2>1, <2>2, <2>3, <2>4
<1>8. f \in [S -> J]
  BY <1>5
<1>9. IsFiniteSet(J)
  BY PlacesCount, FS_Subset
<1>10. IsFiniteSet(S)
  <2> HIDE DEF f, J
  <2> QED BY <1>6, <1>8, <1>9, NotLarger
<1>11. Cardinality(J) = Cardinality(S)
  <2> HIDE DEF f, J
  <2> QED BY <1>6, <1>7, <1>8, <1>10, SameSize
<1>12. \A p \in S : p = <<p[1], p[2]>> /\ p[1] \in groups /\ p[2] \in Nat \ {0}
  BY <1>2, <1>3
<1>13. \A p \in S : <<p[1], c(p[1]) + p[2] - 1>> \in J
  BY <1>5
<1> HIDE DEF J
<1> QED BY <1>10, <1>11, <1>12, <1>13 DEF S, J, c

\* There are as many slots as pooled shards: the code's index into need never
\* runs past its end, and no slot is left.
LEMMA PoolCount ==
  ASSUME NEW shards \in [Shard -> Nat], NEW groups \in SUBSET Nat, IsFiniteSet(groups), groups # {}
  PROVE  /\ IsFiniteSet(pool(shards, groups))
         /\ Cardinality(need(shards, groups)) = Cardinality(pool(shards, groups))
         /\ Cardinality(pool(shards, groups)) = NShards - Cardinality(Filled(shards, groups))
         /\ Cardinality(Filled(shards, groups)) \in Nat /\ IsFiniteSet(Filled(shards, groups))
<1> DEFINE P == pool(shards, groups)
           T == Places(groups)
           I == Filled(shards, groups)
<1>1. P \in SUBSET Shard /\ I \in SUBSET T
  BY DEF pool, Filled
<1>2. IsFiniteSet(T) /\ Cardinality(T) = NShards
  BY PlacesCount
<1>3. Cardinality(I) = Cardinality(Shard \ P) /\ Cardinality(need(shards, groups)) = Cardinality(T \ I)
  BY KeptCount, NeedCount
<1> HIDE DEF P, T, I
<1>4. IsFiniteSet(P) /\ Cardinality(P) \in Nat /\ Cardinality(Shard \ P) = NShards - Cardinality(P)
  BY <1>1, ShardCount, Complement
<1>5. IsFiniteSet(I) /\ Cardinality(I) \in Nat /\ Cardinality(T \ I) = NShards - Cardinality(I)
  BY <1>1, <1>2, Complement
<1>6. NShards \in Nat
  BY NShardsAssumption
<1>7. Cardinality(P) = NShards - Cardinality(I) /\ Cardinality(need(shards, groups)) = Cardinality(P)
  BY <1>3, <1>4, <1>5, <1>6
<1> QED BY <1>4, <1>5, <1>7 DEF P, I

\* Every index below the length of need names one slot, and Slot() its group.
LEMMA SlotFacts ==
  ASSUME NEW shards \in [Shard -> Nat], NEW groups \in SUBSET Nat, IsFiniteSet(groups), groups # {},
         NEW i \in 0..(Cardinality(need(shards, groups)) - 1)
  PROVE  \E p \in need(shards, groups) :
            /\ Cardinality({q \in need(shards, groups) : Before(q, p)}) = i
            /\ Slot(shards, groups, i) = p[1]
<1> DEFINE S == need(shards, groups)
           B == [p \in S |-> {q \in S : Before(q, p)}]
           f == [p \in S |-> Cardinality(B[p])]
           T == 0..(Cardinality(S) - 1)
<1>1. IsFiniteSet(S) /\ \A p \in S : p = <<p[1], p[2]>> /\ p[1] \in Int /\ p[2] \in Int
  <2>1. IsFiniteSet(S) /\ \A p \in S : p = <<p[1], p[2]>> /\ p[1] \in groups /\ p[2] \in Nat \ {0}
    BY NeedCount
  <2> HIDE DEF S
  <2> QED BY <2>1
<1> HIDE DEF S
<1>2. B \in [S -> SUBSET S] /\ \A p \in S : B[p] = {q \in S : Before(q, p)}
  OBVIOUS
<1>3. \A p, q \in S : q \in B[p] <=> Before(q, p)
  BY <1>2
<1>4. \A p \in S : f[p] = Cardinality(B[p])
  OBVIOUS
<1>5. f \in [S -> Int]
  <2> HIDE DEF B
  <2>1. ASSUME NEW p \in S PROVE Cardinality(B[p]) \in Nat
    <3>1. B[p] \in SUBSET S
      BY <1>2
    <3> QED BY <1>1, <3>1, Complement
  <2> QED BY <2>1
<1> HIDE DEF B, f
<1>6. \A p \in S : p \notin B[p]
  BY <1>1, <1>3 DEF Before
<1>7. \A p, q \in S : p \in B[q] => B[p] \subseteq B[q]
  <2> SUFFICES ASSUME NEW p \in S, NEW q \in S, p \in B[q], NEW o \in B[p] PROVE o \in B[q]
    OBVIOUS
  <2>1. o \in S
    BY <1>2
  <2>2. Before(p, q) /\ Before(o, p)
    BY <1>3, <2>1
  <2>3. Before(o, q)
    BY <1>1, <2>1, <2>2 DEF Before
  <2> QED BY <1>3, <2>1, <2>3
<1>8. \A p, q \in S : p # q => p \in B[q] \/ q \in B[p]
  <2> SUFFICES ASSUME NEW p \in S, NEW q \in S, p # q PROVE Before(p, q) \/ Before(q, p)
    BY <1>3
  <2>1. p[1] # q[1] \/ p[2] # q[2]
    BY <1>1
  <2> QED BY <1>1, <2>1 DEF Before
<1>9. f \in Bijection(S, T)
  BY <1>1, <1>2, <1>4, <1>5, <1>6, <1>7, <1>8, RankBijection
<1>10. i \in T
  BY DEF S
<1> HIDE DEF T
<1>11. PICK p \in S : f[p] = i
  <2>1. f \in Surjection(S, T)
    BY <1>9, Fun_BijectionProperties, Zenon
  <2>2. \A t \in T : \E o \in S : f[o] = t
    BY <2>1, Zenon DEF Surjection
  <2> QED BY <1>10, <2>2
<1> DEFINE found == {o \in S : Cardinality({q \in S : Before(q, o)}) = i}
           e == CHOOSE o \in found : TRUE
<1>12. p \in found
  BY <1>2, <1>4, <1>11
<1>13. e \in found
  BY <1>12
<1>14. Slot(shards, groups, i) = IF found = {} THEN -1 ELSE e[1]
  BY DEF Slot, S
<1>15. Slot(shards, groups, i) = e[1]
  BY <1>12, <1>14
<1>16. e \in S /\ Cardinality({q \in S : Before(q, e)}) = i
  BY <1>13
<1> HIDE DEF e
<1> QED BY <1>15, <1>16 DEF S

\* Rebalance() gives every shard a place of its own, of the group that owns it
\* then; the shards that move go to groups that had too few.
LEMMA Dealt ==
  ASSUME NEW shards \in [Shard -> Nat], NEW groups \in SUBSET Nat, IsFiniteSet(groups), groups # {}
  PROVE  \E f \in [Shard -> Places(groups)] :
            /\ \A s, t \in Shard : f[s] = f[t] => s = t
            /\ \A p \in Places(groups) : \E s \in Shard : f[s] = p
            /\ \A s \in Shard : Rebalanced(shards, groups)[s] = f[s][1]
            /\ \A s \in Shard :
                 IF s \in pool(shards, groups)
                 THEN Cardinality(Owned(shards, f[s][1])) < target(f[s][1], groups)
                 ELSE f[s][1] = shards[s]
<1> DEFINE P == pool(shards, groups)
           S == need(shards, groups)
           T == Places(groups)
           a == [s \in P |-> Cardinality({t \in P : t < s})]
           IsSlot(s, p) == /\ Cardinality({q \in S : Before(q, p)}) = a[s]
                           /\ Slot(shards, groups, a[s]) = p[1]
           slot(s) == CHOOSE p \in S : IsSlot(s, p)
           Above(p) == Cardinality(Owned(shards, p[1])) + p[2] - 1
           f == [s \in Shard |-> IF s \in P THEN <<slot(s)[1], Above(slot(s))>>
                                 ELSE <<shards[s], PlaceOf(shards, s)>>]
<1>1. /\ P \in SUBSET Shard /\ IsFiniteSet(P) /\ P \in SUBSET Int
      /\ Cardinality(S) = Cardinality(P)
  <2>1. P \in SUBSET Shard
    BY DEF pool
  <2>2. P \in SUBSET Int
    <3> HIDE DEF P
    <3> QED BY <2>1, ShardCount
  <2> QED BY <2>1, <2>2, PoolCount
<1>2. /\ \A s \in P : a[s] \in 0..(Cardinality(P) - 1)
      /\ \A s, t \in P : a[s] = a[t] => s = t
  <2> HIDE DEF P
  <2>1. ASSUME NEW s \in P PROVE Cardinality({t \in P : t < s}) \in Int
    <3> DEFINE L == {t \in P : t < s}
    <3>1. L \in SUBSET P
      OBVIOUS
    <3> HIDE DEF L
    <3>2. Cardinality(L) \in Nat
      BY <1>1, <3>1, Complement
    <3> QED BY <3>2 DEF L
  <2>2. a \in [P -> Int] /\ \A s \in P : a[s] = Cardinality({t \in P : t < s})
    BY <2>1
  <2> HIDE DEF a
  <2> QED BY <1>1, <2>2, NumberRank
<1>3. Rebalanced(shards, groups)
        = [s \in Shard |-> IF s \in P THEN Slot(shards, groups, Cardinality({t \in P : t < s})) ELSE shards[s]]
  BY DEF Rebalanced
<1>4. ASSUME NEW s \in P PROVE \E p \in S : IsSlot(s, p)
  <2>1. a[s] \in 0..(Cardinality(S) - 1)
    BY <1>1, <1>2
  <2> HIDE DEF a, P
  <2> QED BY <2>1, SlotFacts
<1>5. ASSUME NEW s \in P PROVE slot(s) \in S /\ IsSlot(s, slot(s))
  BY <1>4
<1>6. \A s \in P : a[s] = Cardinality({t \in P : t < s})
  OBVIOUS
<1> HIDE DEF slot, P, S, a
<1>7. ASSUME NEW s \in P
      PROVE  /\ f[s] = <<slot(s)[1], Above(slot(s))>>
             /\ f[s] \in T \ Filled(shards, groups)
             /\ Rebalanced(shards, groups)[s] = f[s][1]
  <2>1. slot(s) \in S /\ s \in Shard
    BY <1>1, <1>5
  <2>2. f[s] = <<slot(s)[1], Above(slot(s))>>
    BY <2>1
  <2>3. <<slot(s)[1], Above(slot(s))>> \in T \ Filled(shards, groups)
    BY <2>1, NeedCount DEF S
  <2>4. Rebalanced(shards, groups)[s] = Slot(shards, groups, a[s])
    BY <1>3, <1>6, <2>1
  <2>5. Slot(shards, groups, a[s]) = slot(s)[1]
    BY <1>5
  <2> QED BY <2>2, <2>3, <2>4, <2>5
<1>8. ASSUME NEW s \in Shard \ P
      PROVE  /\ f[s] = <<shards[s], PlaceOf(shards, s)>>
             /\ f[s] \in T /\ f[s] \in Filled(shards, groups)
             /\ Rebalanced(shards, groups)[s] = f[s][1]
  <2>1. f[s] = <<shards[s], PlaceOf(shards, s)>>
    OBVIOUS
  <2>2. <<shards[s], PlaceOf(shards, s)>> \in Filled(shards, groups)
    BY KeptCount DEF P
  <2>3. Rebalanced(shards, groups)[s] = shards[s]
    BY <1>3
  <2>4. Filled(shards, groups) \subseteq T
    BY DEF Filled
  <2> HIDE DEF f, T
  <2> QED BY <2>1, <2>2, <2>3, <2>4
<1>9. f \in [Shard -> T]
  <2>1. \A s \in Shard : f[s] \in T
    BY <1>7, <1>8
  <2>2. f = [s \in Shard |-> f[s]]
    OBVIOUS
  <2> HIDE DEF f
  <2> QED BY <2>1, <2>2
<1>10. ASSUME NEW s \in Shard, NEW t \in Shard, f[s] = f[t] PROVE s = t
  <2>1. s \in P <=> t \in P
    <3> HIDE DEF f
    <3> QED BY <1>7, <1>8, <1>10
  <2>2. CASE s \notin P
    <3>1. f[s] = <<shards[s], PlaceOf(shards, s)>> /\ f[t] = <<shards[t], PlaceOf(shards, t)>>
      BY <1>8, <2>1, <2>2
    <3>2. shards[s] = shards[t] /\ PlaceOf(shards, s) = PlaceOf(shards, t)
      <4>1. <<shards[s], PlaceOf(shards, s)>> = <<shards[t], PlaceOf(shards, t)>>
        <5> HIDE DEF f
        <5> QED BY <1>10, <3>1
      <4> QED BY <4>1, SamePair
    <3> QED BY <3>2, KeptCount
  <2>3. CASE s \in P
    <3> DEFINE p == slot(s)
               o == slot(t)
    <3>1. f[s] = <<p[1], Above(p)>> /\ f[t] = <<o[1], Above(o)>>
      BY <1>7, <2>1, <2>3
    <3>2. p[1] = o[1] /\ Above(p) = Above(o)
      <4>1. <<p[1], Above(p)>> = <<o[1], Above(o)>>
        <5> HIDE DEF f, p, o, Above
        <5> QED BY <1>10, <3>1
      <4> HIDE DEF p, o, Above
      <4> QED BY <4>1, SamePair
    <3>3. p \in S /\ o \in S /\ IsSlot(s, p) /\ IsSlot(t, o)
      BY <1>5, <2>1, <2>3
    <3>4. p = <<p[1], p[2]>> /\ o = <<o[1], o[2]>> /\ p[2] \in Nat /\ o[2] \in Nat
      BY <3>3, NeedCount DEF S
    <3>5. Cardinality(Owned(shards, p[1])) \in Nat
      BY PlaceFacts
    <3> HIDE DEF p, o, f
    <3>6. p[2] = o[2]
      <4> DEFINE c == Cardinality(Owned(shards, p[1]))
      <4>1. c + p[2] - 1 = c + o[2] - 1
        BY <3>2
      <4> HIDE DEF c
      <4> QED BY <3>4, <3>5, <4>1 DEF c
    <3>7. p = o
      BY <3>2, <3>4, <3>6
    <3>8. a[s] = a[t]
      BY <3>3, <3>7
    <3> QED BY <1>2, <2>1, <2>3, <3>8
  <2> QED BY <2>2, <2>3
<1>11. \A p \in T : \E s \in Shard : f[s] = p
  <2> HIDE DEF f, T
  <2>1. IsFiniteSet(T) /\ Cardinality(T) = Cardinality(Shard)
    BY PlacesCount, ShardCount DEF T
  <2> QED BY <1>9, <1>10, <2>1, NotLarger
<1>12. ASSUME NEW s \in P PROVE Cardinality(Owned(shards, f[s][1])) < target(f[s][1], groups)
  <2>1. f[s][1] \in groups /\ f[s][2] \in Nat /\ f[s][2] < target(f[s][1], groups)
        /\ ~ f[s][2] < Cardinality(Owned(shards, f[s][1]))
    <3> HIDE DEF f
    <3> QED BY <1>7 DEF T, Places, Filled
  <2>2. target(f[s][1], groups) \in Nat /\ Cardinality(Owned(shards, f[s][1])) \in Nat
    <3> HIDE DEF f
    <3> QED BY <2>1, Threshold, PlaceFacts
  <2> HIDE DEF f
  <2> QED BY <2>1, <2>2
<1>13. \A s \in Shard \ P : f[s][1] = shards[s]
  BY <1>8
<1>14. \A s \in Shard : Rebalanced(shards, groups)[s] = f[s][1]
  BY <1>7, <1>8
<1> HIDE DEF f
<1> WITNESS f \in [Shard -> Places(groups)]
<1> QED BY <1>10, <1>11, <1>12, <1>13, <1>14 DEF P, T

-----------------------------------------------------------------------------
(* What Rebalance() achieves. *)

\* After Rebalance() every shard has a member as its owner, and every member has
\* exactly its target.
THEOREM RebalanceMeetsTargets ==
  ASSUME NEW shards \in [Shard -> Nat], NEW groups \in SUBSET Nat, IsFiniteSet(groups), groups # {}
  PROVE  /\ Rebalanced(shards, groups) \in [Shard -> groups]
         /\ \A g \in groups : Cardinality(Owned(Rebalanced(shards, groups), g)) = target(g, groups)
<1> DEFINE new == Rebalanced(shards, groups)
           T == Places(groups)
<1>1. PICK f \in [Shard -> T] :
            /\ \A s, t \in Shard : f[s] = f[t] => s = t
            /\ \A p \in T : \E s \in Shard : f[s] = p
            /\ \A s \in Shard : new[s] = f[s][1]
  BY Dealt
<1>2. \A p \in T : p = <<p[1], p[2]>> /\ p[1] \in groups /\ p[2] \in Nat /\ p[2] < target(p[1], groups)
  BY DEF Places
<1>3. new = [s \in Shard |-> new[s]]
  BY DEF Rebalanced
<1> HIDE DEF new, T
<1>4. \A s \in Shard : new[s] \in groups
  BY <1>1, <1>2
<1>5. new \in [Shard -> groups]
  BY <1>3, <1>4
<1>6. ASSUME NEW g \in groups PROVE Cardinality(Owned(new, g)) = target(g, groups)
  <2> DEFINE O == Owned(new, g)
             n == target(g, groups)
             h == [s \in O |-> f[s][2]]
  <2>1. O \in SUBSET Shard /\ \A s \in Shard : s \in O <=> f[s][1] = g
    BY <1>1 DEF Owned
  <2>2. n \in Nat
    BY Threshold
  <2> HIDE DEF O, n
  <2>3. ASSUME NEW s \in O PROVE h[s] \in 0..(n - 1)
    <3>1. f[s] \in T /\ f[s][1] = g
      BY <2>1
    <3>2. f[s][2] \in Nat /\ f[s][2] < n
      BY <1>2, <3>1 DEF n
    <3> QED BY <2>2, <3>2
  <2>4. ASSUME NEW s \in O, NEW t \in O, h[s] = h[t] PROVE s = t
    <3>1. f[s] = <<f[s][1], f[s][2]>> /\ f[t] = <<f[t][1], f[t][2]>>
      BY <1>2, <2>1
    <3>2. f[s][1] = f[t][1] /\ f[s][2] = f[t][2]
      BY <2>1, <2>4
    <3>3. f[s] = f[t]
      BY <3>1, <3>2
    <3> QED BY <1>1, <2>1, <3>3
  <2>5. ASSUME NEW k \in 0..(n - 1) PROVE \E s \in O : h[s] = k
    <3>1. k \in Nat /\ k < n
      BY <2>2
    <3>2. <<g, k>> \in T
      BY <3>1 DEF T, Places, n
    <3>3. PICK s \in Shard : f[s] = <<g, k>>
      BY <1>1, <3>2
    <3>4. s \in O /\ h[s] = k
      BY <2>1, <3>3
    <3> QED BY <3>4
  <2>6. h \in [O -> 0..(n - 1)]
    BY <2>3
  <2>7. IsFiniteSet(O)
    BY <2>1, ShardCount, FS_Subset
  <2> HIDE DEF h
  <2>8. Cardinality(0..(n - 1)) = Cardinality(O)
    <3> DEFINE N == 0..(n - 1)
    <3>1. h \in [O -> N] /\ \A k \in N : \E s \in O : h[s] = k
      BY <2>5, <2>6
    <3> HIDE DEF N
    <3>2. Cardinality(N) = Cardinality(O)
      BY <2>4, <2>7, <3>1, SameSize
    <3> QED BY <3>2 DEF N
  <2>9. Cardinality(0..(n - 1)) = n
    <3>1. 0 \in Int /\ n - 1 \in Int
      BY <2>2
    <3>2. Cardinality(0..(n - 1)) = IF 0 > n - 1 THEN 0 ELSE n - 1 - 0 + 1
      BY <3>1, FS_Interval
    <3> QED BY <2>2, <3>2
  <2> QED BY <2>8, <2>9 DEF O, n
<1> QED BY <1>5, <1>6 DEF new

\* Targets differ by one at most.
LEMMA TargetsAreClose ==
  ASSUME NEW groups \in SUBSET Nat, IsFiniteSet(groups), NEW g \in groups, NEW h \in groups
  PROVE  target(g, groups) <= target(h, groups) + 1
<1> DEFINE n == Cardinality(groups)
<1>1. n \in Nat \ {0}
  BY RankFacts
<1> DEFINE q == NShards \div n
<1>2. q \in Nat
  BY <1>1, NShardsAssumption, Division
<1>3. target(g, groups) \in {q, q + 1} /\ target(h, groups) \in {q, q + 1}
  <2> HIDE DEF q, n
  <2>1. target(g, groups) = q + (IF RankOf(g, groups) < NShards % n THEN 1 ELSE 0)
    BY DEF target, q, n
  <2>2. target(h, groups) = q + (IF RankOf(h, groups) < NShards % n THEN 1 ELSE 0)
    BY DEF target, q, n
  <2> QED BY <1>2, <2>1, <2>2
<1> HIDE DEF q
<1> QED BY <1>2, <1>3

\* Rebalance() balances: whoever owned the shards before, and however many groups
\* there are, more than shards included.
THEOREM RebalanceIsBalanced ==
  ASSUME NEW shards \in [Shard -> Nat], NEW groups \in SUBSET Nat, IsFiniteSet(groups)
  PROVE  Balanced(Rebalanced(shards, groups), groups)
<1>1. CASE groups = {}
  BY <1>1 DEF Balanced, Rebalanced
<1>2. CASE groups # {}
  <2>1. /\ Rebalanced(shards, groups) \in [Shard -> groups]
        /\ \A g \in groups : Cardinality(Owned(Rebalanced(shards, groups), g)) = target(g, groups)
    BY <1>2, RebalanceMeetsTargets
  <2>2. \A g, h \in groups : target(g, groups) <= target(h, groups) + 1
    BY TargetsAreClose
  <2> QED BY <1>2, <2>1, <2>2 DEF Balanced
<1> QED BY <1>1, <1>2

\* No assignment with the same number of shards for every group moves fewer.
THEOREM RebalanceMovesFewest ==
  ASSUME NEW shards \in [Shard -> Nat], NEW groups \in SUBSET (Nat \ {0}), IsFiniteSet(groups), groups # {},
         NEW other \in [Shard -> groups],
         \A g \in groups : Cardinality(Owned(other, g)) = target(g, groups)
  PROVE  Moved(shards, Rebalanced(shards, groups)) <= Moved(shards, other)
<1> DEFINE new == Rebalanced(shards, groups)
           P == pool(shards, groups)
           I == Filled(shards, groups)
           E == {s \in Shard : other[s] = shards[s]}
           agreed == [s \in Shard |-> IF other[s] = shards[s] THEN shards[s] ELSE 0]
           e == [s \in E |-> <<agreed[s], PlaceOf(agreed, s)>>]
           M == {s \in Shard : new[s] # shards[s]}
           D == {s \in Shard : other[s] # shards[s]}
<1>0. groups \in SUBSET Nat /\ NShards \in Nat
  BY NShardsAssumption
<1>1. IsFiniteSet(P) /\ Cardinality(P) = NShards - Cardinality(I) /\ Cardinality(I) \in Nat /\ IsFiniteSet(I)
  BY <1>0, PoolCount
<1>2. M \in SUBSET P
  <2>1. ASSUME NEW s \in Shard, s \notin P PROVE new[s] = shards[s]
    BY <2>1 DEF Rebalanced
  <2> QED BY <2>1
<1>3. Cardinality(M) <= Cardinality(P)
  <2> HIDE DEF M, P
  <2> QED BY <1>1, <1>2, FS_Subset
<1>4. D = Shard \ E /\ E \in SUBSET Shard
  OBVIOUS
<1>5. Cardinality(D) = NShards - Cardinality(E) /\ Cardinality(E) \in Nat
  <2> HIDE DEF D, E
  <2> QED BY <1>4, ShardCount, Complement
<1>6. agreed \in [Shard -> Nat]
  OBVIOUS
<1>7. \A s \in E : agreed[s] = shards[s] /\ agreed[s] \in groups /\ s \in Owned(agreed, agreed[s]) /\ s \in Shard
  BY DEF Owned
<1>8. ASSUME NEW g \in groups
      PROVE  Owned(agreed, g) \in SUBSET Owned(other, g) /\ Owned(agreed, g) \in SUBSET Owned(shards, g)
  BY DEF Owned
<1>9. \A s \in E : e[s] = <<agreed[s], PlaceOf(agreed, s)>>
  OBVIOUS
<1>10. e = [s \in E |-> e[s]]
  OBVIOUS
<1> HIDE DEF agreed, E, e, I
<1>11. ASSUME NEW s \in E PROVE e[s] \in I
  <2> DEFINE g == agreed[s]
  <2>1. g \in groups /\ s \in Owned(agreed, g)
    BY <1>7
  <2>2. IsFiniteSet(Owned(other, g)) /\ IsFiniteSet(Owned(shards, g))
    <3>1. other \in [Shard -> Nat]
      BY <1>0
    <3> QED BY <3>1, PlaceFacts
  <2>3. /\ Cardinality(Owned(agreed, g)) <= target(g, groups)
        /\ Cardinality(Owned(agreed, g)) <= Cardinality(Owned(shards, g))
    <3>1. Cardinality(Owned(agreed, g)) <= Cardinality(Owned(other, g))
      BY <1>8, <2>1, <2>2, FS_Subset
    <3>2. Cardinality(Owned(agreed, g)) <= Cardinality(Owned(shards, g))
      BY <1>8, <2>1, <2>2, FS_Subset
    <3>3. Cardinality(Owned(other, g)) = target(g, groups)
      BY <2>1
    <3> QED BY <3>1, <3>2, <3>3
  <2>4. PlaceOf(agreed, s) \in 0..(Cardinality(Owned(agreed, g)) - 1) /\ Cardinality(Owned(agreed, g)) \in Nat
    BY <1>6, <2>1, PlaceFacts
  <2>5. target(g, groups) \in Nat /\ Cardinality(Owned(shards, g)) \in Nat
    BY <1>0, <2>1, Threshold, PlaceFacts
  <2> HIDE DEF g
  <2>6. /\ PlaceOf(agreed, s) \in Nat
        /\ PlaceOf(agreed, s) < target(g, groups) /\ PlaceOf(agreed, s) < Cardinality(Owned(shards, g))
    BY <2>3, <2>4, <2>5
  <2>7. <<g, PlaceOf(agreed, s)>> \in I
    BY <2>1, <2>6 DEF I, Filled, Places
  <2> QED BY <1>9, <2>7 DEF g
<1>12. ASSUME NEW s \in E, NEW t \in E, e[s] = e[t] PROVE s = t
  <2>1. <<agreed[s], PlaceOf(agreed, s)>> = <<agreed[t], PlaceOf(agreed, t)>>
    BY <1>9, <1>12
  <2>2. agreed[s] = agreed[t] /\ PlaceOf(agreed, s) = PlaceOf(agreed, t)
    BY <2>1, SamePair
  <2>3. s \in Owned(agreed, agreed[s]) /\ t \in Owned(agreed, agreed[s])
    BY <1>7, <2>2
  <2> QED BY <1>6, <2>2, <2>3, PlaceFacts
<1>13. e \in [E -> I]
  BY <1>10, <1>11
<1>14. Cardinality(E) <= Cardinality(I)
  BY <1>1, <1>12, <1>13, NotLarger
<1>15. IsFiniteSet(M) /\ Cardinality(M) \in Nat
  <2> HIDE DEF M, P
  <2> QED BY <1>1, <1>2, Complement
<1>16. Cardinality(M) <= Cardinality(D)
  <2> HIDE DEF M, D, P
  <2> QED BY <1>0, <1>1, <1>3, <1>5, <1>14, <1>15
<1> QED BY <1>16 DEF Moved

\* A shard that Rebalance() moves goes to a group that had too few.
LEMMA MovedToNeedy ==
  ASSUME NEW shards \in [Shard -> Nat], NEW groups \in SUBSET Nat, IsFiniteSet(groups), groups # {},
         NEW s \in Shard, Rebalanced(shards, groups)[s] # shards[s]
  PROVE  /\ s \in pool(shards, groups)
         /\ Rebalanced(shards, groups)[s] \in groups
         /\ Cardinality(Owned(shards, Rebalanced(shards, groups)[s]))
              < target(Rebalanced(shards, groups)[s], groups)
<1> DEFINE new == Rebalanced(shards, groups)
           P == pool(shards, groups)
           T == Places(groups)
<1>1. PICK f \in [Shard -> T] :
            /\ \A t \in Shard : new[t] = f[t][1]
            /\ \A t \in Shard :
                 IF t \in P THEN Cardinality(Owned(shards, f[t][1])) < target(f[t][1], groups)
                 ELSE f[t][1] = shards[t]
  BY Dealt
<1>2. \A p \in T : p[1] \in groups
  BY DEF Places
<1> HIDE DEF new, P, T
<1>3. new[s] # shards[s]
  BY DEF new
<1>4. s \in P
  BY <1>1, <1>3
<1>5. new[s] \in groups /\ Cardinality(Owned(shards, new[s])) < target(new[s], groups)
  BY <1>1, <1>2, <1>4
<1> QED BY <1>4, <1>5 DEF new, P

\* When groups join, a shard moves only to a group that is new.
THEOREM JoinMovesToNewGroups ==
  ASSUME NEW shards \in [Shard -> Nat], NEW groups \in SUBSET Nat, IsFiniteSet(groups),
         NEW before \in SUBSET groups, Rebalanced(shards, before) = shards,
         NEW s \in Shard, Rebalanced(shards, groups)[s] # shards[s]
  PROVE  Rebalanced(shards, groups)[s] \in groups \ before
<1> DEFINE g == Rebalanced(shards, groups)[s]
<1>1. groups # {}
  <2> SUFFICES ASSUME groups = {} PROVE FALSE
    OBVIOUS
  <2>1. before = groups
    OBVIOUS
  <2> QED BY <2>1
<1>2. g \in groups /\ Cardinality(Owned(shards, g)) < target(g, groups)
  BY <1>1, MovedToNeedy
<1> HIDE DEF g
<1>3. ASSUME g \in before PROVE FALSE
  <2>1. IsFiniteSet(before) /\ before \in SUBSET Nat /\ before # {}
    BY <1>3, FS_Subset
  <2>2. \A h \in before : Cardinality(Owned(Rebalanced(shards, before), h)) = target(h, before)
    BY <2>1, RebalanceMeetsTargets
  <2>3. Cardinality(Owned(shards, g)) = target(g, before)
    BY <1>3, <2>2
  <2>4. target(g, groups) <= target(g, before)
    BY <1>3, TargetShrinks
  <2>5. target(g, groups) \in Nat /\ target(g, before) \in Nat
    BY <1>2, <1>3, <2>1, Threshold
  <2> QED BY <1>2, <2>3, <2>4, <2>5
<1> QED BY <1>2, <1>3 DEF g

\* When groups leave, only the shards of a group that left move.
THEOREM LeaveMovesShardsOfLeavers ==
  ASSUME NEW shards \in [Shard -> Nat], NEW before \in SUBSET Nat, IsFiniteSet(before),
         NEW groups \in SUBSET before, Rebalanced(shards, before) = shards,
         NEW s \in Shard, Rebalanced(shards, groups)[s] # shards[s]
  PROVE  shards[s] \in before \ groups
<1>1. before # {}
  <2> SUFFICES ASSUME before = {} PROVE FALSE
    OBVIOUS
  <2>1. before = groups
    OBVIOUS
  <2> QED BY <2>1
<1>2. /\ Rebalanced(shards, before) \in [Shard -> before]
      /\ \A h \in before : Cardinality(Owned(Rebalanced(shards, before), h)) = target(h, before)
  BY <1>1, RebalanceMeetsTargets
<1> DEFINE g == shards[s]
<1>3. g \in before /\ Cardinality(Owned(shards, g)) = target(g, before)
  BY <1>2
<1>4. ASSUME g \in groups PROVE FALSE
  <2>1. groups # {} /\ IsFiniteSet(groups) /\ groups \in SUBSET Nat
    BY <1>4, FS_Subset
  <2>2. s \in pool(shards, groups)
    BY <2>1, MovedToNeedy
  <2>3. PlaceOf(shards, s) >= target(g, groups)
    BY <1>4, <2>2 DEF pool, PlaceOf
  <2>4. s \in Owned(shards, g)
    BY DEF Owned
  <2> HIDE DEF g
  <2>5. PlaceOf(shards, s) \in 0..(Cardinality(Owned(shards, g)) - 1)
    BY <2>4, PlaceFacts
  <2>6. target(g, before) <= target(g, groups)
    BY <1>4, TargetShrinks
  <2>7. target(g, groups) \in Nat /\ target(g, before) \in Nat
    BY <1>3, <1>4, <2>1, Threshold
  <2> QED BY <1>3, <2>3, <2>5, <2>6, <2>7
<1> QED BY <1>3, <1>4

-----------------------------------------------------------------------------
(* The two properties of Rebalance() that ShardMaster states. *)

\* What a Join or a Leave makes of a configuration.
LEMMA ChangeFields ==
  ASSUME NEW old \in SomeConfig, NEW op \in SomeChange
  PROVE  /\ old.shards \in [Shard -> Nat]
         /\ old.groups \in SUBSET (Nat \ {0}) /\ IsFiniteSet(old.groups)
         /\ NewConfig(old, op).groups \in SUBSET (Nat \ {0}) /\ IsFiniteSet(NewConfig(old, op).groups)
         /\ NewConfig(old, op).shards = Rebalanced(old.shards, NewConfig(old, op).groups)
         /\ op.type = "Join" => NewConfig(old, op).groups = old.groups \cup op.gids
         /\ op.type # "Join" => NewConfig(old, op).groups = old.groups \ op.gids
<1>1. IsFiniteSet(SomeGID) /\ SomeGID \in SUBSET (Nat \ {0})
  <2>1. 1 \in Int /\ NShards + 1 \in Int
    BY NShardsAssumption
  <2> QED BY <2>1, NShardsAssumption, FS_Interval DEF SomeGID
<1>2. /\ old \in [num : {1}, shards : [Shard -> SomeGID \cup {0}], groups : SUBSET SomeGID]
      /\ op.type \in {"Join", "Leave"} /\ op.gids \in SUBSET SomeGID
  BY DEF SomeConfig, SomeChange
<1>3. old.shards \in [Shard -> Nat] /\ old.groups \in SUBSET SomeGID
  <2>1. old.shards \in [Shard -> SomeGID \cup {0}] /\ old.groups \in SUBSET SomeGID
    BY <1>2
  <2>2. SomeGID \cup {0} \subseteq Nat
    BY <1>1
  <2> QED BY <2>1, <2>2
<1>4. CASE op.type = "Join"
  <2>1. NewConfig(old, op) = rebalance(handleJoin([old EXCEPT !.num = @ + 1], op))
    BY <1>4 DEF NewConfig
  <2>2. /\ NewConfig(old, op).groups = old.groups \cup op.gids
        /\ NewConfig(old, op).shards = Rebalanced(old.shards, old.groups \cup op.gids)
    BY <1>2, <2>1 DEF rebalance, handleJoin
  <2>3. NewConfig(old, op).groups \in SUBSET SomeGID
    BY <1>2, <1>3, <2>2
  <2> QED BY <1>1, <1>3, <1>4, <2>2, <2>3, FS_Subset
<1>5. CASE op.type = "Leave"
  <2>1. NewConfig(old, op) = rebalance(handleLeave([old EXCEPT !.num = @ + 1], op))
    BY <1>5 DEF NewConfig
  <2>2. /\ NewConfig(old, op).groups = old.groups \ op.gids
        /\ NewConfig(old, op).shards = Rebalanced(old.shards, old.groups \ op.gids)
    BY <1>2, <2>1 DEF rebalance, handleLeave
  <2>3. NewConfig(old, op).groups \in SUBSET SomeGID
    BY <1>2, <1>3, <2>2
  <2> QED BY <1>1, <1>3, <1>5, <2>2, <2>3, FS_Subset
<1> QED BY <1>2, <1>4, <1>5

\* A Join or a Leave gives every shard to a member, spreads the shards evenly and
\* moves as few as any assignment with the same number for every group, for
\* every number of shards and whatever the configuration was (Rebalance()).
THEOREM RebalanceIsRight == Spec => []RebalanceBalances
<1>1. RebalanceBalances
  <2> SUFFICES ASSUME NEW old \in SomeConfig, NEW op \in SomeChange
               PROVE  LET new == NewConfig(old, op) IN
                      /\ Balanced(new.shards, new.groups)
                      /\ \A other \in [Shard -> new.groups] :
                            (\A g \in new.groups :
                                Cardinality(Owned(other, g)) = Cardinality(Owned(new.shards, g)))
                              => Moved(old.shards, new.shards) <= Moved(old.shards, other)
    BY DEF RebalanceBalances
  <2> DEFINE new == NewConfig(old, op)
  <2>1. /\ old.shards \in [Shard -> Nat]
        /\ new.groups \in SUBSET (Nat \ {0}) /\ IsFiniteSet(new.groups)
        /\ new.shards = Rebalanced(old.shards, new.groups)
    BY ChangeFields
  <2> HIDE DEF new
  <2>2. new.groups \in SUBSET Nat
    BY <2>1
  <2>3. Balanced(new.shards, new.groups)
    BY <2>1, <2>2, RebalanceIsBalanced
  <2>4. ASSUME NEW other \in [Shard -> new.groups],
               \A g \in new.groups : Cardinality(Owned(other, g)) = Cardinality(Owned(new.shards, g))
        PROVE  Moved(old.shards, new.shards) <= Moved(old.shards, other)
    <3>1. new.groups # {}
      <4>1. 0 \in Shard
        BY NShardsAssumption DEF Shard
      <4> QED BY <4>1
    <3>2. \A g \in new.groups : Cardinality(Owned(new.shards, g)) = target(g, new.groups)
      BY <2>1, <2>2, <3>1, RebalanceMeetsTargets
    <3>3. \A g \in new.groups : Cardinality(Owned(other, g)) = target(g, new.groups)
      BY <2>4, <3>2
    <3> QED BY <2>1, <3>1, <3>3, RebalanceMovesFewest
  <2> QED BY <2>3, <2>4 DEF new
<1> QED BY <1>1, PTL

\* From a configuration that Rebalance() leaves alone, a Join moves shards only to
\* groups that joined and a Leave only shards of groups that left, for every
\* number of shards (Rebalance(); shardmaster/test_test.go:224, 242).
THEOREM TransfersAreMinimal == Spec => []MinimalTransfers
<1>1. MinimalTransfers
  <2> SUFFICES ASSUME NEW old \in SomeConfig, rebalance(old) = old, NEW op \in SomeChange,
                      NEW sh \in Shard, NewConfig(old, op).shards[sh] # old.shards[sh]
               PROVE  IF op.type = "Join" THEN NewConfig(old, op).shards[sh] \in op.gids \ old.groups
                                          ELSE old.shards[sh] \in op.gids
    BY DEF MinimalTransfers
  <2> DEFINE new == NewConfig(old, op)
  <2>1. /\ old.shards \in [Shard -> Nat]
        /\ old.groups \in SUBSET Nat /\ IsFiniteSet(old.groups)
        /\ new.groups \in SUBSET Nat /\ IsFiniteSet(new.groups)
        /\ new.shards = Rebalanced(old.shards, new.groups)
        /\ op.type = "Join" => new.groups = old.groups \cup op.gids
        /\ op.type # "Join" => new.groups = old.groups \ op.gids
    <3>1. /\ old.shards \in [Shard -> Nat]
          /\ old.groups \in SUBSET (Nat \ {0}) /\ IsFiniteSet(old.groups)
          /\ new.groups \in SUBSET (Nat \ {0}) /\ IsFiniteSet(new.groups)
          /\ new.shards = Rebalanced(old.shards, new.groups)
          /\ op.type = "Join" => new.groups = old.groups \cup op.gids
          /\ op.type # "Join" => new.groups = old.groups \ op.gids
      BY ChangeFields
    <3> HIDE DEF new
    <3> QED BY <3>1
  <2>2. Rebalanced(old.shards, old.groups) = old.shards
    <3>1. old = [old EXCEPT !.shards = Rebalanced(old.shards, old.groups)]
      BY DEF rebalance
    <3>2. old \in [num : {1}, shards : [Shard -> SomeGID \cup {0}], groups : SUBSET SomeGID]
      BY DEF SomeConfig
    <3>3. [old EXCEPT !.shards = Rebalanced(old.shards, old.groups)].shards = Rebalanced(old.shards, old.groups)
      BY <3>2
    <3> QED BY <3>1, <3>3
  <2>3. new.shards[sh] # old.shards[sh]
    OBVIOUS
  <2> HIDE DEF new
  <2>4. CASE op.type = "Join"
    <3>1. old.groups \in SUBSET new.groups
      BY <2>1, <2>4
    <3>2. new.shards[sh] \in new.groups \ old.groups
      BY <2>1, <2>2, <2>3, <3>1, JoinMovesToNewGroups
    <3> QED BY <2>1, <2>4, <3>2 DEF new
  <2>5. CASE op.type # "Join"
    <3>1. new.groups \in SUBSET old.groups
      BY <2>1, <2>5
    <3>2. old.shards[sh] \in old.groups \ new.groups
      BY <2>1, <2>2, <2>3, <3>1, LeaveMovesShardsOfLeavers
    <3> QED BY <2>1, <2>5, <3>2
  <2> QED BY <2>4, <2>5
<1> QED BY <1>1, PTL

-----------------------------------------------------------------------------
(* The configurations that the servers hold. *)

ConfigSet == [num : Nat, shards : [Shard -> Nat], groups : SUBSET GID]

\* A change makes a configuration, and a Join or a Leave a balanced one.
LEMMA NewConfigIsConfig ==
  ASSUME IsFiniteSet(GID), NEW c \in ConfigSet, NEW op \in Op, op.type # "Query"
  PROVE  /\ NewConfig(c, op) \in ConfigSet
         /\ op.type # "Move" => Balanced(NewConfig(c, op).shards, NewConfig(c, op).groups)
<1>1. PICK o \in Ops, me \in Client, n \in 1..MaxId : op = Named(o, me, n, NoOp)
  BY DEF Op
<1>2. o.type = op.type /\ (\A x \in DOMAIN o : x \in {"type", "gids", "shard", "gid", "num"} => op[x] = o[x])
  <2>1. {"type"} \subseteq DOMAIN o /\ DOMAIN o \cap {"me", "reqId", "value"} = {}
    BY DEF Ops
  <2> QED BY <1>1, <2>1 DEF Named
<1>3. \/ op.type \in {"Join", "Leave"} /\ op.gids \in SUBSET GID
      \/ op.type = "Move" /\ op.shard \in Shard /\ op.gid \in GID
  BY <1>2 DEF Ops
<1>4. ASSUME NEW groups \in SUBSET GID
      PROVE  /\ Rebalanced(c.shards, groups) \in [Shard -> Nat]
             /\ Balanced(Rebalanced(c.shards, groups), groups)
  <2>1. groups \in SUBSET Nat /\ IsFiniteSet(groups) /\ c.shards \in [Shard -> Nat]
    BY GIDAssumption, FS_Subset DEF ConfigSet
  <2>2. CASE groups = {}
    BY <2>1, <2>2, RebalanceIsBalanced DEF Rebalanced
  <2>3. CASE groups # {}
    <3>1. Rebalanced(c.shards, groups) \in [Shard -> groups]
      BY <2>1, <2>3, RebalanceMeetsTargets
    <3>2. Rebalanced(c.shards, groups) \in [Shard -> Nat]
      BY <2>1, <3>1
    <3> QED BY <2>1, <3>2, RebalanceIsBalanced
  <2> QED BY <2>2, <2>3
<1> DEFINE d == [c EXCEPT !.num = @ + 1]
<1>5. d \in ConfigSet /\ d.shards = c.shards /\ d.groups = c.groups
  BY DEF ConfigSet
<1>6. CASE op.type = "Move"
  <2>1. NewConfig(c, op) = [d EXCEPT !.shards[op.shard] = op.gid]
    BY <1>6 DEF NewConfig, handleMove
  <2>2. op.gid \in Nat /\ op.shard \in Shard
    BY <1>3, <1>6, GIDAssumption
  <2> HIDE DEF d
  <2>3. NewConfig(c, op) \in ConfigSet
    BY <1>5, <2>1, <2>2 DEF ConfigSet
  <2> QED BY <1>6, <2>3
<1>7. ASSUME NEW groups \in SUBSET GID, NewConfig(c, op) = rebalance([d EXCEPT !.groups = groups])
      PROVE  NewConfig(c, op) \in ConfigSet /\ Balanced(NewConfig(c, op).shards, NewConfig(c, op).groups)
  <2> DEFINE e == [d EXCEPT !.groups = groups]
  <2>1. e \in ConfigSet /\ e.groups = groups /\ e.shards = c.shards
    <3> HIDE DEF d
    <3> QED BY <1>5 DEF ConfigSet
  <2>2. NewConfig(c, op) = [e EXCEPT !.shards = Rebalanced(e.shards, e.groups)]
    BY <1>7 DEF rebalance
  <2> HIDE DEF d, e
  <2>3. /\ NewConfig(c, op) \in ConfigSet
        /\ NewConfig(c, op).groups = groups
        /\ NewConfig(c, op).shards = Rebalanced(c.shards, groups)
    BY <1>4, <2>1, <2>2 DEF ConfigSet
  <2> QED BY <1>4, <2>3
<1>8. CASE op.type = "Join"
  <2>1. NewConfig(c, op) = rebalance([d EXCEPT !.groups = c.groups \cup op.gids])
    BY <1>5, <1>8 DEF NewConfig, handleJoin
  <2>2. c.groups \cup op.gids \in SUBSET GID
    BY <1>3, <1>8 DEF ConfigSet
  <2> QED BY <1>7, <2>1, <2>2
<1>9. CASE op.type = "Leave"
  <2>1. NewConfig(c, op) = rebalance([d EXCEPT !.groups = c.groups \ op.gids])
    BY <1>5, <1>9 DEF NewConfig, handleLeave
  <2>2. c.groups \ op.gids \in SUBSET GID
    BY DEF ConfigSet
  <2> QED BY <1>7, <2>1, <2>2
<1> QED BY <1>3, <1>6, <1>8, <1>9

\* So do the changes of a sequence, one after the other.
LEMMA HistoryIsBalanced ==
  ASSUME IsFiniteSet(GID), NEW es \in Seq(Op), \A k \in 1..Len(es) : es[k].type # "Query"
  PROVE  \A k \in 1..Len(es) : es[k].type # "Move" =>
            Balanced(ConfigsAfter(es)[k + 1].shards, ConfigsAfter(es)[k + 1].groups)
<1> DEFINE C(n) == ConfigsOf(es, n)
           Good(n) == /\ C(n) \in Seq(ConfigSet) /\ Len(C(n)) = n + 1
                      /\ \A k \in 1..n : es[k].type # "Move" =>
                            Balanced(C(n)[k + 1].shards, C(n)[k + 1].groups)
           T == {n \in Nat : n <= Len(es) => Good(n)}
<1>1. 0 \in T
  <2>1. C(0) = <<Config0>>
    BY ConfigsOfSteps
  <2>2. Config0 \in ConfigSet
    BY DEF Config0, ConfigSet
  <2>3. <<Config0>> \in Seq(ConfigSet) /\ Len(<<Config0>>) = 1
    BY <2>2
  <2>4. Good(0)
    <3>1. C(0) \in Seq(ConfigSet)
      <4> HIDE DEF C
      <4> QED BY <2>1, <2>3, Zenon
    <3>2. Len(C(0)) = 0 + 1
      <4>1. Len(C(0)) = Len(<<Config0>>)
        BY <2>1, Zenon
      <4> QED BY <2>3, <4>1
    <3>3. 1..0 = {}
      OBVIOUS
    <3> HIDE DEF C
    <3> QED BY <3>1, <3>2, <3>3
  <2> QED BY <2>4
<1>2. ASSUME NEW n \in Nat, n \in T PROVE n + 1 \in T
  <2> SUFFICES ASSUME n + 1 <= Len(es) PROVE Good(n + 1)
    OBVIOUS
  <2>1. Good(n)
    BY <1>2
  <2> DEFINE x == NewConfig(Latest(C(n)), es[n + 1])
             c == C(n)
             d == C(n + 1)
  <2>2. d = Append(c, x)
    BY ConfigsOfSteps DEF Changed
  <2>3. c \in Seq(ConfigSet) /\ Len(c) = n + 1
    BY <2>1
  <2>4. Latest(c) \in ConfigSet
    BY <2>3 DEF Latest
  <2>5. es[n + 1] \in Op /\ es[n + 1].type # "Query"
    OBVIOUS
  <2>6. x \in ConfigSet /\ (es[n + 1].type # "Move" => Balanced(x.shards, x.groups))
    BY <2>4, <2>5, NewConfigIsConfig
  <2>7. \A k \in 1..n : es[k].type # "Move" => Balanced(c[k + 1].shards, c[k + 1].groups)
    BY <2>1
  <2> HIDE DEF x, c, d
  <2>8. d \in Seq(ConfigSet) /\ Len(d) = (n + 1) + 1
    BY <2>2, <2>3, <2>6
  <2>9. d[(n + 1) + 1] = x /\ \A k \in 1..n : d[k + 1] = c[k + 1]
    BY <2>2, <2>3
  <2>10. ASSUME NEW k \in 1..(n + 1), es[k].type # "Move"
         PROVE  Balanced(d[k + 1].shards, d[k + 1].groups)
    <3>1. CASE k = n + 1
      BY <2>6, <2>9, <2>10, <3>1
    <3>2. CASE k \in 1..n
      BY <2>7, <2>9, <2>10, <3>2
    <3> QED BY <3>1, <3>2
  <2> QED BY <2>8, <2>10 DEF d
<1>3. \A n \in Nat : n \in T
  <2> HIDE DEF T
  <2> QED BY <1>1, <1>2, SetInduction
<1>4. Len(es) \in T
  BY <1>3
<1>5. Good(Len(es))
  BY <1>4
<1>6. ConfigsAfter(es) = C(Len(es))
  BY DEF ConfigsAfter, ConfigsOf
<1> HIDE DEF C
<1> QED BY <1>5, <1>6

\* Whatever was retried, replayed or moved by hand, every configuration that a
\* Join or a Leave made is balanced, on every server (ApplyRoutine, Rebalance();
\* "max %v too much larger than min %v", shardmaster/test_test.go:51).
THEOREM ServedConfigsBalanced ==
  ASSUME IsFiniteSet(GID)
  PROVE  Spec => [](\A s \in Server :
            LET changes == Effective(applied[s], "Query") IN
            \A k \in 1..Len(changes) : changes[k].type # "Move" =>
                Balanced(configs[s][k + 1].shards, configs[s][k + 1].groups))
<1> DEFINE Served == \A s \in Server :
            LET changes == Effective(applied[s], "Query") IN
            \A k \in 1..Len(changes) : changes[k].type # "Move" =>
                Balanced(configs[s][k + 1].shards, configs[s][k + 1].groups)
<1>1. SMInv => Served
  <2> SUFFICES ASSUME SMInv, NEW s \in Server
               PROVE  \A k \in 1..Len(Effective(applied[s], "Query")) :
                        Effective(applied[s], "Query")[k].type # "Move" =>
                            Balanced(configs[s][k + 1].shards, configs[s][k + 1].groups)
    OBVIOUS
  <2> DEFINE es == Effective(applied[s], "Query")
  <2>1. applied[s] \in Nat /\ applied[s] <= Len(log) /\ configs[s] = ConfigsAfter(es) /\ log \in Seq(Op)
    BY DEF SMInv, Replicas, History, ServiceInv, ServiceType
  <2>2. es = EffectiveOf(log, applied[s], "Query")
    BY EffectiveIs
  <2>3. /\ es \in Seq(Op)
        /\ \A x : x \in Range(es) <=> \E k \in 1..applied[s] : log[k] = x /\ log[k].type # "Query"
    BY <2>1, <2>2, EffectiveRange
  <2> HIDE DEF es
  <2>4. \A k \in 1..Len(es) : es[k] \in Range(es)
    BY <2>3 DEF Range
  <2>5. \A k \in 1..Len(es) : es[k].type # "Query"
    BY <2>3, <2>4
  <2>6. \A k \in 1..Len(es) : es[k].type # "Move" =>
            Balanced(ConfigsAfter(es)[k + 1].shards, ConfigsAfter(es)[k + 1].groups)
    BY <2>3, <2>5, HistoryIsBalanced
  <2> QED BY <2>1, <2>6 DEF es
<1> HIDE DEF Served
<1>2. Spec => []Served
  BY <1>1, SMInvariant, PTL
<1> QED BY <1>2 DEF Served

=============================================================================
