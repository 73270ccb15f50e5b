------------------------------- MODULE LabRPC -------------------------------
(***************************************************************************)
(* The simulated network of src/src/labrpc: Call() hands a request to a    *)
(* goroutine running ProcessReq(), which may lose it, runs the handler in  *)
(* a goroutine of its own, and watches for the deletion of the server the  *)
(* handler belongs to.  The tester connects and disconnects ends and       *)
(* replaces servers meanwhile.                                             *)
(*                                                                         *)
(* A server is named by a member of Name; what AddServer() registers under *)
(* the name is an instance, a number.  Arguments and replies are left out. *)
(***************************************************************************)
EXTENDS Integers, FiniteSets

CONSTANTS
    End,          \* names of ClientEnds
    Name,         \* names of servers
    None,         \* nil
    Request,      \* bound: the calls made, by name
    MaxInstances  \* bound: instances registered under one name

ASSUME LabRPCAssumption == MaxInstances \in Nat /\ None \notin Name

VARIABLES
    reliable,        \* Network.reliable
    enabled,         \* enabled[e]
    connections,     \* connections[e]: a name, or None
    servers,         \* servers[n]: the live instance, 0 for nil
    made             \* made[n]: instances made so far

VARIABLES
    stage,    \* stage[r]: where the Call() r and its ProcessReq() are
    end,      \* end[r]: the end it was made on
    to,       \* to[r]: the servername and server that ReadEndnameInfo() read,
              \*   with reliable
    handler,  \* handler[r]: "none", "running", "returned" or "taken" from ech
    ok        \* ok[r]: the replyMsg.ok that Call() gets

\* History: the calls whose handler returned while its instance was registered.
VARIABLE inTime

netVars  == <<reliable, enabled, connections, servers, made>>
callVars == <<stage, end, to, handler, ok, inTime>>
vars     == <<netVars, callVars>>

NoServer == [name |-> None, server |-> 0, reliable |-> TRUE]

Alive(r) == servers[to[r].name] = to[r].server

-----------------------------------------------------------------------------
(* The network's settings, each under rn.mu. *)

Reliable(yes) ==
    /\ reliable' = yes
    /\ UNCHANGED <<enabled, connections, servers, made, callVars>>

Enable(e, yes) ==
    /\ enabled' = [enabled EXCEPT ![e] = yes]
    /\ UNCHANGED <<reliable, connections, servers, made, callVars>>

\* "a ClientEnd can only be connected once in its lifetime": the callers see to it.
Connect(e, n) ==
    /\ connections' = [connections EXCEPT ![e] = n]
    /\ UNCHANGED <<reliable, enabled, servers, made, callVars>>

AddServer(n) ==
    /\ made[n] < MaxInstances
    /\ made' = [made EXCEPT ![n] = @ + 1]
    /\ servers' = [servers EXCEPT ![n] = made[n] + 1]
    /\ UNCHANGED <<reliable, enabled, connections, callVars>>

DeleteServer(n) ==
    /\ servers' = [servers EXCEPT ![n] = 0]
    /\ UNCHANGED <<reliable, enabled, connections, made, callVars>>

-----------------------------------------------------------------------------
(* Call() and ProcessReq(). *)

Call(r, e) ==
    /\ stage[r] = "new"
    /\ stage' = [stage EXCEPT ![r] = "sent"]
    /\ end' = [end EXCEPT ![r] = e]
    /\ UNCHANGED <<netVars, to, handler, ok, inTime>>

\* What the end is connected to is read once, and used after rn.mu is released.
ReadEndnameInfo(r) ==
    LET n == connections[end[r]] IN
    /\ stage[r] = "sent"
    /\ IF enabled[end[r]] /\ n # None /\ servers[n] # 0
       THEN /\ to' = [to EXCEPT ![r] =
                        [name |-> n, server |-> servers[n], reliable |-> reliable]]
            /\ stage' = [stage EXCEPT ![r] = "accepted"]
       ELSE /\ stage' = [stage EXCEPT ![r] = "concluded"]   \* after a long sleep
            /\ UNCHANGED to
    /\ UNCHANGED <<netVars, end, handler, ok, inTime>>

\* An unreliable network drops the request.
DropRequest(r) ==
    /\ stage[r] = "accepted"
    /\ ~to[r].reliable
    /\ stage' = [stage EXCEPT ![r] = "concluded"]
    /\ UNCHANGED <<netVars, end, to, handler, ok, inTime>>

\* server.dispatch(req) in a goroutine of its own.
Dispatch(r) ==
    /\ stage[r] = "accepted"
    /\ stage' = [stage EXCEPT ![r] = "waiting"]
    /\ handler' = [handler EXCEPT ![r] = "running"]
    /\ UNCHANGED <<netVars, end, to, ok, inTime>>

HandlerReturns(r) ==
    /\ handler[r] = "running"
    /\ handler' = [handler EXCEPT ![r] = "returned"]
    /\ inTime' = IF Alive(r) THEN inTime \cup {r} ELSE inTime
    /\ UNCHANGED <<netVars, stage, end, to, ok>>

\* case reply = <-ech
Receive(r) ==
    /\ stage[r] = "waiting"
    /\ handler[r] = "returned"
    /\ handler' = [handler EXCEPT ![r] = "taken"]
    /\ stage' = [stage EXCEPT ![r] = "checking"]
    /\ UNCHANGED <<netVars, end, to, ok, inTime>>

IsServerDead(r) == ~enabled[end[r]] \/ ~Alive(r)

NoPoll(r) == FALSE   \* mutant: only the handler's reply ends the wait
\* case <-time.After(100 * time.Millisecond)
Poll(r) ==
    /\ stage[r] = "waiting"
    /\ IsServerDead(r)
    /\ stage' = [stage EXCEPT ![r] = "checking"]
    /\ UNCHANGED <<netVars, end, to, handler, ok, inTime>>

NoSecondLook(r) == handler[r] = "taken"   \* mutant: replyOK alone decides
Replies(r) == handler[r] = "taken" /\ ~IsServerDead(r)

\* The last look at the server, and the loss of the reply.  Whether the reply
\* is delayed or not, it is decided now.
Conclude(r) ==
    /\ stage[r] = "checking"
    /\ stage' = [stage EXCEPT ![r] = "concluded"]
    /\ ok' = [ok EXCEPT ![r] = Replies(r)] \/ (~to[r].reliable /\ UNCHANGED ok)
    /\ UNCHANGED <<netVars, end, to, handler, inTime>>

\* req.replyCh <- reply, perhaps much later, and Call() returns.
Return(r) ==
    /\ stage[r] = "concluded"
    /\ stage' = [stage EXCEPT ![r] = "returned"]
    /\ UNCHANGED <<netVars, end, to, handler, ok, inTime>>

-----------------------------------------------------------------------------
Init ==
    /\ reliable = TRUE
    /\ enabled = [e \in End |-> FALSE]
    /\ connections = [e \in End |-> None]
    /\ servers = [n \in Name |-> 0]
    /\ made = [n \in Name |-> 0]
    /\ stage = [r \in Request |-> "new"]
    /\ end \in [Request -> End]
    /\ to = [r \in Request |-> NoServer]
    /\ handler = [r \in Request |-> "none"]
    /\ ok = [r \in Request |-> FALSE]
    /\ inTime = {}

ProcessReq(r) ==
    \/ ReadEndnameInfo(r) \/ DropRequest(r) \/ Dispatch(r)
    \/ Receive(r) \/ Poll(r) \/ Conclude(r) \/ Return(r)

Settings ==
    \/ \E yes \in BOOLEAN : Reliable(yes) \/ \E e \in End : Enable(e, yes)
    \/ \E n \in Name : AddServer(n) \/ DeleteServer(n) \/ \E e \in End : Connect(e, n)

Next ==
    \/ Settings
    \/ \E r \in Request : \/ \E e \in End : Call(r, e)
                          \/ ProcessReq(r) \/ HandlerReturns(r)

\* ProcessReq()'s goroutine runs on; nothing is said of handlers.
Spec == Init /\ [][Next]_vars /\ \A r \in Request : WF_vars(ProcessReq(r))

-----------------------------------------------------------------------------
(* What the network promises. *)

\* "do not reply if DeleteServer() has been called ... this is needed to avoid
\* situation in which a client gets a positive reply to an Append, but the
\* server persisted the update into the old Persister" (labrpc.go:229-233): a
\* Call() that returns true was executed, by an instance that was still
\* registered when its handler returned.
OkMeansExecuted ==
    \A r \in Request : ok[r] => handler[r] = "taken" /\ r \in inTime

\* "Call() is guaranteed to return (perhaps after a delay) *except* if the
\* handler function on the server side does not return" (labrpc.go:37), and
\* even then if the server is deleted.
CallReturns ==
    \A r \in Request :
        stage[r] = "sent" ~> \/ stage[r] = "returned"
                             \/ [](handler[r] = "running" /\ Alive(r))
=============================================================================
