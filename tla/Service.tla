------------------------------ MODULE Service ------------------------------
(***************************************************************************)
(* What src/src/kvraft and src/src/shardmaster share: a clerk that retries *)
(* one operation until a server accepts it, the RPC handler that puts the  *)
(* operation into the Raft log and waits for it in waitAppliedOrTimeout(), *)
(* and the results map through which ApplyRoutine() wakes the handler.     *)
(*                                                                         *)
(* Raft is reduced to what a service relies on: a log of committed         *)
(* operations that only grows, and a Start() that promises nothing about   *)
(* the index it returns.                                                   *)
(***************************************************************************)
EXTENDS Integers, Sequences, FiniteSets, Functions

CONSTANTS
    Server,       \* the peers of the service
    Client,       \* the clerks
    OpType,       \* the types of operation the clerks use
    NoOp,         \* nothing pending, an empty channel
    MaxLog,       \* bound: length of the Raft log
    MaxId,        \* bound: operations of one clerk
    MaxHandlers,  \* bound: handlers in waitAppliedOrTimeout at one time
    MaxCrashes    \* bound: crash-restarts

ASSUME ServiceAssumption ==
    /\ MaxLog \in Nat /\ MaxId \in Nat /\ MaxHandlers \in Nat /\ MaxCrashes \in Nat

VARIABLES
    log,       \* the committed Raft log
    proposed,  \* entries of some leader's log that may still be committed
    id,        \* id[c]: the clerk's operation counter
    pending,   \* pending[c]: the operation the clerk is retrying
    call,      \* call[c]: the handler its current Call() waits for, or 0
    handlers,  \* the handlers in waitAppliedOrTimeout
    results,   \* results[s][idx]: the handler whose channel is in the map, or 0
    crashes

\* History: the last operation each clerk completed, with what it returned and
\* with the length of the Raft log when the clerk began it.
VARIABLES answer, born

raftVars    == <<log, proposed>>
clerkVars   == <<id, pending, call, answer, born>>
serviceVars == <<raftVars, clerkVars, handlers, results, crashes>>

-----------------------------------------------------------------------------
(* The clerk. *)

\* The Op of a clerk's request: its arguments, the clerk, the counter, and the
\* value it writes or has room for.
Named(op, c, n, value) ==
    [f \in DOMAIN op \cup {"me", "reqId", "value"} |->
        CASE f = "me" -> c [] f = "reqId" -> n [] f = "value" -> value
          [] OTHER -> op[f]]

\* A clerk method is called: the counter goes up and names the operation.
Request(c, op, value) ==
    /\ pending[c] = NoOp
    /\ id[c] < MaxId
    /\ id' = [id EXCEPT ![c] = @ + 1]
    /\ pending' = [pending EXCEPT ![c] = Named(op, c, id[c] + 1, value)]
    /\ born' = [born EXCEPT ![c] = Len(log)]
    /\ UNCHANGED <<raftVars, call, answer, handlers, results, crashes>>

\* The handler ends.  Its reply ends the clerk's loop if the clerk still waits
\* for this Call() and the reply is not lost.
Reply(h, success, value) ==
    LET c == h.op.me IN
    /\ handlers' = handlers \ {h}
    /\ \/ UNCHANGED clerkVars
       \/ /\ success
          /\ call[c] = h.handler
          /\ pending[c] = h.op
          /\ call' = [call EXCEPT ![c] = 0]
          /\ pending' = [pending EXCEPT ![c] = NoOp]
          /\ answer' = [answer EXCEPT ![c] =
                          [op |-> h.op, value |-> value, born |-> born[c]]]
          /\ UNCHANGED <<id, born>>

-----------------------------------------------------------------------------
(* waitAppliedOrTimeout(). *)

\* Start() at a server that takes itself for the leader: the entry gets the
\* next index of that leader's log, which may be ahead of the committed log,
\* behind it if the leader is deposed, or at one the service has been given
\* already if the leader's log was emptied by a snapshot.
Start(c, s) ==
    \E n \in 1..MaxHandlers, idx \in 1..MaxLog :
        /\ pending[c] # NoOp
        /\ \A h \in handlers : h.handler # n
        /\ proposed' = IF idx > Len(log)
                       THEN proposed \cup {[idx |-> idx, op |-> pending[c]]}
                       ELSE proposed
        /\ handlers' = handlers \cup
              {[handler |-> n, srv |-> s, op |-> pending[c], idx |-> idx,
                stage |-> "started", ch |-> NoOp]}
        /\ call' = [call EXCEPT ![c] = n]
        /\ UNCHANGED <<log, id, pending, answer, born, results, crashes>>

\* kv.results[idx] = ch, in a critical section of its own after Start().
Register(h) ==
    /\ h.stage = "started"
    /\ results' = [results EXCEPT ![h.srv][h.idx] = h.handler]
    /\ handlers' = (handlers \ {h}) \cup {[h EXCEPT !.stage = "waiting"]}
    /\ UNCHANGED <<raftVars, clerkVars, crashes>>

\* delete(kv.results, idx), whoever's channel is there.
Unregister(h) == results' = [results EXCEPT ![h.srv][h.idx] = 0]

\* case appliedOp := <-ch; same tells whether it is the handler's own op.
Applied(h, same) ==
    /\ h.stage = "waiting"
    /\ h.ch # NoOp
    /\ Unregister(h)
    /\ Reply(h, same, h.ch.value)
    /\ UNCHANGED <<raftVars, crashes>>

\* case <-time.After(applyWaitTimeout)
TimedOut(h) ==
    /\ h.stage = "waiting"
    /\ Unregister(h)
    /\ Reply(h, FALSE, h.op)
    /\ UNCHANGED <<raftVars, crashes>>

\* ApplyRoutine(): if a channel is in the map and empty, op goes into it.
Notify(s, idx, op) ==
    handlers' = {IF h.srv = s /\ h.handler = results[s][idx] /\ h.ch = NoOp
                 THEN [h EXCEPT !.ch = op] ELSE h : h \in handlers}

-----------------------------------------------------------------------------
(* Raft and crashes. *)

\* The next index is decided: one of the entries proposed for it.
Commit ==
    \E p \in proposed :
        /\ p.idx = Len(log) + 1
        /\ log' = Append(log, p.op)
        /\ proposed' = {q \in proposed : q.idx > p.idx}
        /\ UNCHANGED <<clerkVars, handlers, results, crashes>>

\* The server loses its handlers and its results map.
CrashService(s) ==
    /\ crashes < MaxCrashes
    /\ crashes' = crashes + 1
    /\ handlers' = {h \in handlers : h.srv # s}
    /\ results' = [results EXCEPT ![s] = [idx \in 1..MaxLog |-> 0]]
    /\ UNCHANGED <<raftVars, clerkVars>>

InitService ==
    /\ log = <<>> /\ proposed = {}
    /\ id = [c \in Client |-> 0]
    /\ pending = [c \in Client |-> NoOp]
    /\ call = [c \in Client |-> 0]
    /\ born = [c \in Client |-> 0]
    /\ answer = [c \in Client |-> [op |-> NoOp, value |-> NoOp, born |-> 0]]
    /\ handlers = {}
    /\ results = [s \in Server |-> [idx \in 1..MaxLog |-> 0]]
    /\ crashes = 0

\* The operations that change the state, in the order of the first n entries of
\* the log, each where it is first committed: what the log means to a service
\* that applies every operation once.
Effective(n, read) ==
    LET upTo[k \in 0..n] ==
            IF k = 0 THEN <<>>
            ELSE IF log[k].type = read \/ log[k] \in Range(upTo[k - 1]) THEN upTo[k - 1]
            ELSE Append(upTo[k - 1], log[k])
    IN  upTo[n]

\* A clerk's operation as AtomicService has it: a write is done when it is in
\* the log.
Waiting(c, read) ==
    IF pending[c] = NoOp THEN NoOp
    ELSE [op    |-> pending[c],
          born  |-> Len(Effective(born[c], read)),
          taken |-> pending[c].type # read /\ pending[c] \in Range(log)]

Told(c) == answer[c].value
=============================================================================
