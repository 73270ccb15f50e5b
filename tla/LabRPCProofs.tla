---------------------------- MODULE LabRPCProofs ----------------------------
(***************************************************************************)
(* A positive reply comes from a registered instance, for every number of  *)
(* ends, servers, instances and calls; and what the testers make of that:  *)
(* an acknowledged effect is in the Persister the next instance gets, and  *)
(* an instance that was shut down reaches nobody.                          *)
(***************************************************************************)
EXTENDS Tester, TLAPS

Stages == {"new", "sent", "accepted", "waiting", "checking", "concluded", "returned"}

NetTypeOK ==
    /\ reliable \in BOOLEAN
    /\ enabled \in [End -> BOOLEAN]
    /\ connections \in [End -> Name \cup {None}]
    /\ servers \in [Name -> Nat]
    /\ made \in [Name -> Nat]

CallTypeOK ==
    /\ stage \in [Request -> Stages]
    /\ end \in [Request -> End]
    /\ to \in [Request -> [name : Name \cup {None}, server : Nat, reliable : BOOLEAN]]
    /\ handler \in [Request -> {"none", "running", "returned", "taken"}]
    /\ ok \in [Request -> BOOLEAN]
    /\ inTime \in SUBSET Request

\* Instances are numbered upwards: what was registered once is not again.
Numbered ==
    /\ \A n \in Name : servers[n] <= made[n]
    /\ \A r \in Request : to[r].name \in Name =>
          1 <= to[r].server /\ to[r].server <= made[to[r].name]

\* A handler runs only after ProcessReq() has dispatched the call.
Dispatched ==
    \A r \in Request :
        /\ stage[r] \in {"new", "sent", "accepted"} => handler[r] = "none"
        /\ stage[r] = "accepted" \/ handler[r] # "none" => to[r].name \in Name

\* An instance that is registered now was registered when the handler returned.
StillAlive ==
    \A r \in Request :
        handler[r] \in {"returned", "taken"} /\ Alive(r) => r \in inTime

Inv == NetTypeOK /\ CallTypeOK /\ Numbered /\ Dispatched /\ StillAlive /\ OkMeansExecuted

\* The network begins without servers and without calls.
LEMMA InitInv == Init => Inv
<1> SUFFICES ASSUME Init PROVE Inv
  OBVIOUS
<1>1. NetTypeOK
  BY DEF Init, NetTypeOK
<1>2. CallTypeOK
  BY DEF Init, CallTypeOK, Stages, NoServer
<1>3. Numbered /\ Dispatched /\ StillAlive /\ OkMeansExecuted
  BY LabRPCAssumption DEF Init, Numbered, Dispatched, StillAlive, OkMeansExecuted, NoServer
<1> QED BY <1>1, <1>2, <1>3 DEF Inv

\* The tester's settings keep the invariant: only AddServer() and
\* DeleteServer() matter, and both leave a deleted instance unregistered.
LEMMA SettingsInv == ASSUME Inv, Settings PROVE Inv'
<1> USE DEF Inv
<1>1. CallTypeOK' /\ Dispatched' /\ OkMeansExecuted'
  BY DEF Settings, Reliable, Enable, Connect, AddServer, DeleteServer, callVars,
         CallTypeOK, Dispatched, OkMeansExecuted
<1>2. NetTypeOK'
  BY DEF Settings, Reliable, Enable, Connect, AddServer, DeleteServer, NetTypeOK
<1>3. CASE UNCHANGED <<servers, made, callVars>>
  BY <1>1, <1>2, <1>3 DEF callVars, Numbered, StillAlive, Alive
<1>4. ASSUME NEW n \in Name, AddServer(n) PROVE Numbered' /\ StillAlive'
  <2>1. /\ servers' = [servers EXCEPT ![n] = made[n] + 1]
        /\ made' = [made EXCEPT ![n] = made[n] + 1]
        /\ UNCHANGED <<to, handler, inTime>>
    BY <1>4 DEF AddServer, callVars
  <2>2. Numbered'
    BY <2>1 DEF Numbered, NetTypeOK, CallTypeOK
  <2>3. ASSUME NEW r \in Request, handler[r] \in {"returned", "taken"}, Alive(r)'
        PROVE  r \in inTime
    <3>1. to[r].name \in Name /\ to[r].server \in Nat /\ to[r].server <= made[to[r].name]
      BY <2>3 DEF Dispatched, Numbered, CallTypeOK
    <3>2. to[r].name # n
      BY <3>1, <2>1, <2>3 DEF Alive, NetTypeOK
    <3>3. Alive(r)
      BY <3>1, <3>2, <2>1, <2>3 DEF Alive, NetTypeOK
    <3> QED BY <3>3, <2>3 DEF StillAlive
  <2> QED BY <2>1, <2>2, <2>3 DEF StillAlive
<1>5. ASSUME NEW n \in Name, DeleteServer(n) PROVE Numbered' /\ StillAlive'
  <2>1. servers' = [servers EXCEPT ![n] = 0] /\ UNCHANGED <<made, to, handler, inTime>>
    BY <1>5 DEF DeleteServer, callVars
  <2>2. Numbered'
    BY <2>1 DEF Numbered, NetTypeOK, CallTypeOK
  <2>3. ASSUME NEW r \in Request, handler[r] \in {"returned", "taken"}, Alive(r)'
        PROVE  r \in inTime
    <3>1. to[r].name \in Name /\ to[r].server \in Nat /\ 1 <= to[r].server
      BY <2>3 DEF Dispatched, Numbered, CallTypeOK
    <3>2. to[r].name # n
      BY <3>1, <2>1, <2>3 DEF Alive, NetTypeOK
    <3>3. Alive(r)
      BY <3>1, <3>2, <2>1, <2>3 DEF Alive, NetTypeOK
    <3> QED BY <3>3, <2>3 DEF StillAlive
  <2> QED BY <2>1, <2>2, <2>3 DEF StillAlive
<1>6. \/ UNCHANGED <<servers, made, callVars>>
      \/ \E n \in Name : AddServer(n) \/ DeleteServer(n)
  BY DEF Settings, Reliable, Enable, Connect
<1> QED BY <1>1, <1>2, <1>3, <1>4, <1>5, <1>6

\* A step of a call keeps the invariant: ReadEndnameInfo() names a registered
\* instance, HandlerReturns records it, and Conclude() looks at it again.
LEMMA CallInv ==
  ASSUME Inv, NEW r \in Request,
         (\E e \in End : Call(r, e)) \/ ProcessReq(r) \/ HandlerReturns(r)
  PROVE  Inv'
<1> USE DEF Inv
<1>1. NetTypeOK' /\ UNCHANGED <<servers, made, enabled, connections>>
  BY DEF Call, ProcessReq, ReadEndnameInfo, DropRequest, Dispatch, Receive, Poll,
         Conclude, Return, HandlerReturns, netVars, NetTypeOK
<1>2. ASSUME NEW e \in End, Call(r, e) PROVE Inv'
  BY <1>1, <1>2 DEF Call, CallTypeOK, Stages, Numbered, Dispatched, StillAlive, Alive, OkMeansExecuted
<1>3. CASE ReadEndnameInfo(r)
  <2>1. /\ stage[r] = "sent" /\ handler[r] = "none"
        /\ UNCHANGED <<end, handler, ok, inTime>>
    BY <1>3 DEF ReadEndnameInfo, Dispatched
  <2>2. CASE UNCHANGED to /\ stage' = [stage EXCEPT ![r] = "concluded"]
    BY <1>1, <2>1, <2>2 DEF CallTypeOK, Stages, Numbered, Dispatched, StillAlive, Alive, OkMeansExecuted
  <2>3. ASSUME NEW n \in Name, servers[n] # 0,
               to' = [to EXCEPT ![r] =
                        [name |-> n, server |-> servers[n], reliable |-> reliable]],
               stage' = [stage EXCEPT ![r] = "accepted"]
        PROVE  Inv'
    <3>1. servers[n] \in Nat /\ 1 <= servers[n] /\ servers[n] <= made[n]
      BY <2>3 DEF NetTypeOK, Numbered
    <3>2. CallTypeOK'
      BY <2>1, <2>3, <3>1 DEF CallTypeOK, Stages, NetTypeOK
    <3>3. to'[r].name = n /\ to'[r].server = servers[n]
      BY <2>3 DEF CallTypeOK
    <3>4. \A q \in Request : q # r => to'[q] = to[q] /\ stage'[q] = stage[q]
      BY <2>3 DEF CallTypeOK
    <3>5. Numbered'
      BY <1>1, <3>1, <3>3, <3>4 DEF Numbered
    <3>6. Dispatched'
      <4>1. stage'[r] = "accepted"
        BY <2>3 DEF CallTypeOK
      <4> QED BY <2>1, <3>3, <3>4, <4>1 DEF Dispatched
    <3>7. StillAlive' /\ OkMeansExecuted'
      BY <1>1, <2>1, <3>4 DEF StillAlive, Alive, OkMeansExecuted
    <3> QED BY <1>1, <3>2, <3>5, <3>6, <3>7
  <2>4. connections[end[r]] \in Name \cup {None}
    BY DEF NetTypeOK, CallTypeOK
  <2> QED BY <1>3, <2>2, <2>3, <2>4 DEF ReadEndnameInfo
<1>4. CASE DropRequest(r)
  BY <1>1, <1>4 DEF DropRequest, CallTypeOK, Stages, Numbered, Dispatched, StillAlive, Alive, OkMeansExecuted
<1>5. CASE Dispatch(r)
  BY <1>1, <1>5 DEF Dispatch, CallTypeOK, Stages, Numbered, Dispatched, StillAlive, Alive, OkMeansExecuted
<1>6. CASE HandlerReturns(r)
  <2>1. /\ handler[r] = "running" /\ handler' = [handler EXCEPT ![r] = "returned"]
        /\ inTime' = IF Alive(r) THEN inTime \cup {r} ELSE inTime
        /\ UNCHANGED <<stage, end, to, ok>>
    BY <1>6 DEF HandlerReturns
  <2>2. CallTypeOK' /\ Numbered' /\ Dispatched'
    BY <1>1, <2>1 DEF CallTypeOK, Numbered, Dispatched
  <2>3. StillAlive' /\ OkMeansExecuted'
    BY <1>1, <2>1 DEF CallTypeOK, StillAlive, Alive, OkMeansExecuted
  <2> QED BY <1>1, <2>2, <2>3
<1>7. CASE Receive(r)
  BY <1>1, <1>7 DEF Receive, CallTypeOK, Stages, Numbered, Dispatched, StillAlive, Alive, OkMeansExecuted
<1>8. CASE Poll(r)
  BY <1>1, <1>8 DEF Poll, CallTypeOK, Stages, Numbered, Dispatched, StillAlive, Alive, OkMeansExecuted
<1>9. CASE Conclude(r)
  <2>1. /\ stage' = [stage EXCEPT ![r] = "concluded"] /\ stage[r] = "checking"
        /\ UNCHANGED <<end, to, handler, inTime>>
    BY <1>9 DEF Conclude
  <2>2. Numbered' /\ Dispatched' /\ StillAlive'
    BY <1>1, <2>1 DEF CallTypeOK, Numbered, Dispatched, StillAlive, Alive
  <2>3. Replies(r) \in BOOLEAN /\ (Replies(r) => r \in inTime /\ handler[r] = "taken")
    BY DEF Replies, IsServerDead, StillAlive
  <2>4. ok' \in [Request -> BOOLEAN] /\ (ok'[r] => ok[r] \/ Replies(r))
    BY <1>9, <2>3 DEF Conclude, CallTypeOK
  <2>5. \A q \in Request : q # r => ok'[q] = ok[q]
    BY <1>9 DEF Conclude, CallTypeOK
  <2>6. CallTypeOK'
    BY <2>1, <2>4 DEF CallTypeOK, Stages
  <2>7. OkMeansExecuted'
    BY <2>1, <2>3, <2>4, <2>5 DEF OkMeansExecuted
  <2> QED BY <1>1, <2>2, <2>6, <2>7
<1>10. CASE Return(r)
  BY <1>1, <1>10 DEF Return, CallTypeOK, Stages, Numbered, Dispatched, StillAlive, Alive, OkMeansExecuted
<1> QED BY <1>2, <1>3, <1>4, <1>5, <1>6, <1>7, <1>8, <1>9, <1>10 DEF ProcessReq

\* Every step of the network.
LEMMA NetworkStep == ASSUME Inv, [Next]_vars PROVE Inv'
<1>1. CASE Settings
  BY <1>1, SettingsInv
<1>2. ASSUME NEW r \in Request,
             (\E e \in End : Call(r, e)) \/ ProcessReq(r) \/ HandlerReturns(r)
      PROVE  Inv'
  BY <1>2, CallInv
<1>3. CASE UNCHANGED vars
  BY <1>3 DEF vars, netVars, callVars, Inv, NetTypeOK, CallTypeOK, Numbered,
              Dispatched, StillAlive, Alive, OkMeansExecuted
<1> QED BY <1>1, <1>2, <1>3 DEF Next

\* A Call() returns true only if the handler ran to its end at an instance that
\* DeleteServer() had not yet removed, whatever the tester does meanwhile.
THEOREM PositiveRepliesCount == Spec => []OkMeansExecuted
<1>1. Inv /\ [Next]_vars => Inv'
  BY NetworkStep
<1>2. Inv => OkMeansExecuted
  BY DEF Inv
<1> QED BY <1>1, <1>2, InitInv, PTL DEF Spec

-----------------------------------------------------------------------------
(* The testers' servers. *)

\* What is left of an operation at each of its steps.
ToDelete == <<"DeleteServer", "Copy">>
ToCopy   == <<"Copy">>
ToGive   == <<"Copy", "Make", "AddServer">>
ToMake   == <<"Make", "AddServer">>
ToAdd    == <<"AddServer">>
ToAttach == <<"connect">>
ToDetach == <<"disconnect">>

Todos == {<<>>, Shutdown, ToDelete, ToCopy, StartServer, ToGive, ToMake, ToAdd,
          ToAttach, ToDetach}

\* The steps of a tester's operation and what is left after each.
LEMMA TodoHeads ==
  /\ Shutdown # <<>> /\ Head(Shutdown) = "disconnect" /\ Tail(Shutdown) = ToDelete
  /\ ToDelete # <<>> /\ Head(ToDelete) = "DeleteServer" /\ Tail(ToDelete) = ToCopy
  /\ ToCopy # <<>> /\ Head(ToCopy) = "Copy" /\ Tail(ToCopy) = <<>>
  /\ StartServer # <<>> /\ Head(StartServer) = "Connect" /\ Tail(StartServer) = ToGive
  /\ ToGive # <<>> /\ Head(ToGive) = "Copy" /\ Tail(ToGive) = ToMake
  /\ ToMake # <<>> /\ Head(ToMake) = "Make" /\ Tail(ToMake) = ToAdd
  /\ ToAdd # <<>> /\ Head(ToAdd) = "AddServer" /\ Tail(ToAdd) = <<>>
  /\ ToAttach # <<>> /\ Head(ToAttach) = "connect" /\ Tail(ToAttach) = <<>>
  /\ ToDetach # <<>> /\ Head(ToDetach) = "disconnect" /\ Tail(ToDetach) = <<>>
BY DEF Shutdown, ToDelete, ToCopy, StartServer, ToGive, ToMake, ToAdd, ToAttach, ToDetach

\* How many steps each remainder has; it tells two remainders apart.
LEMMA TodoLengths ==
  /\ Len(<<>>) = 0 /\ Len(Shutdown) = 3 /\ Len(ToDelete) = 2 /\ Len(ToCopy) = 1
  /\ Len(StartServer) = 4 /\ Len(ToGive) = 3 /\ Len(ToMake) = 2 /\ Len(ToAdd) = 1
  /\ Len(ToAttach) = 1 /\ Len(ToDetach) = 1
BY DEF Shutdown, ToDelete, ToCopy, StartServer, ToGive, ToMake, ToAdd, ToAttach, ToDetach

\* No two stages of the tester's operations are the same list.
LEMMA TodosApart ==
  /\ <<>> \notin {Shutdown, ToDelete, ToCopy, StartServer, ToGive, ToMake, ToAdd, ToAttach, ToDetach}
  /\ Shutdown \notin {ToDelete, ToCopy, StartServer, ToGive, ToMake, ToAdd, ToAttach, ToDetach}
  /\ ToDelete \notin {ToCopy, StartServer, ToGive, ToMake, ToAdd, ToAttach, ToDetach}
  /\ ToCopy \notin {StartServer, ToGive, ToMake, ToAdd, ToAttach, ToDetach}
  /\ StartServer \notin {ToGive, ToMake, ToAdd, ToAttach, ToDetach}
  /\ ToGive \notin {ToMake, ToAdd, ToAttach, ToDetach}
  /\ ToMake \notin {ToAdd, ToAttach, ToDetach}
  /\ ToAdd \notin {ToAttach, ToDetach}
  /\ ToAttach # ToDetach
BY TodoHeads, TodoLengths

\* Where the current operation is with server n.
Doing(n, steps) == about = n /\ todo \in steps

TesterType ==
    /\ todo \in Todos /\ (todo # <<>> => about \in Name)
    /\ started \in [Name -> Nat] /\ owner \in [Name -> Nat]
    /\ among \subseteq Name
    /\ saved \in [Name -> SUBSET Request]
    /\ persisted \subseteq Request /\ orphan \subseteq Request

\* The instance that is registered has the Persister; an instance is registered
\* under the number its endnames were made with.
Owners ==
    \A n \in Name :
        /\ started[n] = made[n] + (IF Doing(n, {ToGive, ToMake, ToAdd}) THEN 1 ELSE 0)
        /\ servers[n] # 0 => owner[n] = servers[n]
        /\ owner[n] \in {0, started[n]}
        /\ Doing(n, {ToCopy, StartServer, ToGive, ToMake, ToAdd}) => servers[n] = 0
        /\ Doing(n, {StartServer, ToGive, ToMake}) => owner[n] = 0
        /\ Doing(n, {ToAdd}) => owner[n] = started[n]

\* Servers are connected while they run, and a shutdown disconnects from all.
Listed ==
    /\ todo = ToAttach => /\ owner[about] # 0
                          /\ \A m \in among : owner[m] # 0
    /\ todo = Shutdown => among = Name \ {about}

\* The end belongs to an instance that was shut down.
IsOld(e) == e[1] \in Name /\ e[2] <= made[e[1]] /\ e[2] # owner[e[1]]

OldDisabled ==
    /\ \A e \in End : IsOld(e) => ~enabled[e]
    /\ \A e \in End : Doing(e[1], {ToDelete, ToCopy}) /\ e[2] = started[e[1]] => ~enabled[e]

\* What was persisted and is not saved went to a Persister that is superseded.
Superseded(r) ==
    LET n == to[r].name IN servers[n] # to[r].server /\ owner[n] # to[r].server

Persisted ==
    \A r \in Request :
        /\ r \in persisted => /\ handler[r] # "none"
                              /\ r \in saved[to[r].name] \/ Superseded(r)
        /\ handler[r] \in {"returned", "taken"} => r \in persisted

Orphans ==
    \A r \in orphan :
        /\ handler[r] = "none" /\ stage[r] \in {"sent", "concluded", "returned"}
        /\ IsOld(end[r])

TesterInv ==
    /\ Inv /\ TesterType /\ Owners /\ Listed /\ OldDisabled
    /\ Persisted /\ AckedSaved /\ Orphans

\* The parts of an end: who uses it, of which instance, and for whom.
LEMMA EndFields ==
  ASSUME NEW e \in End
  PROVE  /\ e[1] \in Name \cup Clerk /\ e[2] \in Nat /\ e[2] > 0 /\ e[3] \in Name
         /\ e[1] \in Name => e[1] # e[3] /\ e \in Name \X (1..MaxInstances) \X Name
         /\ e[1] \in Clerk => e[1] \notin Name
<1>1. CASE e \in Name \X (1..MaxInstances) \X Name /\ e[1] # e[3]
  BY <1>1, TesterAssumption, LabRPCAssumption
<1>2. CASE e \in Clerk \X {1} \X Name
  BY <1>2, TesterAssumption
<1> QED BY <1>1, <1>2, TesterAssumption

\* The tester's invariant holds before any server was started.
LEMMA InitTester == TestInit => TesterInv
<1> SUFFICES ASSUME TestInit PROVE TesterInv
  OBVIOUS
<1>1. Inv
  BY InitInv DEF TestInit
<1>2. /\ todo = <<>> /\ todo \in Todos /\ \A n : \A S \in
           {{ToGive, ToMake, ToAdd}, {ToCopy, StartServer, ToGive, ToMake, ToAdd},
            {StartServer, ToGive, ToMake}, {ToAdd}, {ToAttach}, {ToDelete, ToCopy},
            {Shutdown, ToDelete, ToCopy, StartServer, ToGive, ToMake, ToAdd}} : ~Doing(n, S)
  BY TodoHeads DEF TestInit, Todos, Doing
<1>3. TesterType
  BY <1>2 DEF TestInit, TesterType
<1>4. Owners /\ Listed
  <2>1. ASSUME NEW n \in Name
        PROVE  started[n] = 0 /\ made[n] = 0 /\ servers[n] = 0 /\ owner[n] = 0
    BY DEF TestInit, Init
  <2>2. Listed
    BY <1>2, TodosApart DEF Listed
  <2>3. ASSUME NEW n \in Name
        PROVE  /\ ~Doing(n, {ToGive, ToMake, ToAdd}) /\ ~Doing(n, {ToAdd})
               /\ ~Doing(n, {StartServer, ToGive, ToMake})
    BY <1>2
  <2>4. Owners
    BY <2>1, <2>3 DEF Owners
  <2> QED BY <2>2, <2>4
<1>5. OldDisabled
  BY <1>2 DEF TestInit, Init, OldDisabled
<1>6. Persisted /\ AckedSaved /\ Orphans
  BY DEF TestInit, Init, Persisted, AckedSaved, Orphans
<1> QED BY <1>1, <1>3, <1>4, <1>5, <1>6 DEF TesterInv

\* A step of a call, or one that only sets reliable, at the tester's servers.
LEMMA ServersAlone ==
  ASSUME TesterInv, UNCHANGED <<todo, about, started, among, owner, made, servers, enabled>>
  PROVE  Owners' /\ Listed' /\ OldDisabled'
<1>1. Owners'
  BY DEF TesterInv, Owners, Doing
<1>2. Listed'
  BY DEF TesterInv, Listed, Doing
<1>3. OldDisabled'
  BY DEF TesterInv, OldDisabled, IsOld, Doing
<1> QED BY <1>1, <1>2, <1>3

\* A step of the tester, at the calls under way: an instance it registers, or
\* gives a Persister to, is one nobody has called yet.
LEMMA CallsAlone ==
  ASSUME TesterInv, UNCHANGED <<callVars, saved, persisted, orphan>>,
         \A n \in Name : /\ made'[n] \in Nat /\ made[n] <= made'[n]
                         /\ servers'[n] \in {servers[n], 0, made[n] + 1}
                         /\ owner'[n] \in {owner[n], 0, made[n] + 1}
  PROVE  Persisted' /\ AckedSaved' /\ Orphans'
<1>1. UNCHANGED <<stage, end, to, handler, ok, inTime>>
  BY DEF callVars
<1>2. AckedSaved'
  BY <1>1 DEF TesterInv, AckedSaved
<1>3. Persisted'
  <2>1. ASSUME NEW r \in Request, r \in persisted, Superseded(r) PROVE Superseded(r)'
    <3>1. to[r].name \in Name
      BY <2>1 DEF TesterInv, Persisted, Inv, Dispatched
    <3>2. /\ to[r].server \in Nat /\ 1 <= to[r].server /\ to[r].server <= made[to[r].name]
          /\ made[to[r].name] \in Nat
      BY <3>1 DEF TesterInv, Inv, Numbered, NetTypeOK, CallTypeOK
    <3> QED BY <1>1, <2>1, <3>1, <3>2 DEF Superseded
  <2> QED BY <1>1, <2>1 DEF TesterInv, Persisted
<1>4. Orphans'
  <2>1. ASSUME NEW e \in End, IsOld(e) PROVE IsOld(e)'
    <3>1. e[1] \in Name /\ e[2] \in Nat /\ e[2] > 0 /\ e[2] <= made[e[1]] /\ made[e[1]] \in Nat
      BY <2>1, EndFields DEF IsOld, TesterInv, Inv, NetTypeOK
    <3> QED BY <2>1, <3>1 DEF IsOld
  <2>2. \A r \in orphan : end[r] \in End
    BY DEF TesterInv, TesterType, Inv, CallTypeOK
  <2> QED BY <1>1, <2>1, <2>2 DEF TesterInv, Orphans
<1> QED BY <1>2, <1>3, <1>4

\* The handler of a call runs and saves what it did.
LEMMA PersistKeeps ==
  ASSUME TesterInv, NEW r \in Request, Persist(r)
  PROVE  TesterInv'
<1> DEFINE n == to[r].name
<1>1. /\ handler[r] = "running" /\ r \notin persisted
      /\ persisted' = persisted \cup {r}
      /\ saved' = IF owner[n] = to[r].server THEN [saved EXCEPT ![n] = @ \cup {r}] ELSE saved
      /\ UNCHANGED vars
      /\ UNCHANGED <<todo, about, started, among, owner, orphan>>
  BY DEF Persist
<1>2. UNCHANGED <<netVars, callVars, made, servers, enabled, stage, end, to, handler, ok, inTime>>
  BY <1>1 DEF vars, netVars, callVars
<1>3. Inv'
  BY <1>1, NetworkStep DEF TesterInv
<1>4. Owners' /\ Listed' /\ OldDisabled'
  BY <1>1, <1>2, ServersAlone
<1>5. /\ n \in Name /\ saved \in [Name -> SUBSET Request] /\ servers[n] \in Nat
      /\ to[r].server \in Nat /\ 1 <= to[r].server
  BY <1>1 DEF TesterInv, TesterType, Inv, Dispatched, NetTypeOK, Numbered, CallTypeOK
<1> HIDE DEF n
<1>6. /\ saved' \in [Name -> SUBSET Request]
      /\ \A m \in Name : saved[m] \subseteq saved'[m]
      /\ owner[n] = to[r].server => r \in saved'[n]
  BY <1>1, <1>5
<1>7. TesterType'
  BY <1>1, <1>6 DEF TesterInv, TesterType
<1>8. AckedSaved'
  <2>1. ASSUME NEW q \in Request, ok[q] PROVE q \in saved'[to[q].name]
    <3>1. handler[q] = "taken"
      BY <2>1 DEF TesterInv, Inv, OkMeansExecuted
    <3>2. to[q].name \in Name
      BY <3>1 DEF TesterInv, Inv, Dispatched
    <3> QED BY <1>6, <2>1, <3>2 DEF TesterInv, AckedSaved
  <2> QED BY <1>2, <2>1 DEF AckedSaved
<1>9. Persisted'
  <2>1. ASSUME NEW q \in Request, q \in persisted'
        PROVE  handler[q] # "none" /\ (q \in saved'[to[q].name] \/ Superseded(q))
    <3>1. CASE q \in persisted
      <4>1. handler[q] # "none" /\ (q \in saved[to[q].name] \/ Superseded(q))
        BY <3>1 DEF TesterInv, Persisted
      <4>2. to[q].name \in Name
        BY <4>1 DEF TesterInv, Inv, Dispatched
      <4> QED BY <1>6, <4>1, <4>2
    <3>2. CASE q = r
      <4>1. owner[n] # to[r].server => servers[n] # to[r].server
        BY <1>5 DEF TesterInv, Owners
      <4> QED BY <1>1, <1>6, <3>2, <4>1 DEF Superseded, n
    <3> QED BY <1>1, <2>1, <3>1, <3>2
  <2>2. Superseded(r)' <=> Superseded(r)
    BY <1>1, <1>2 DEF Superseded
  <2>3. \A q \in Request : Superseded(q)' <=> Superseded(q)
    BY <1>1, <1>2 DEF Superseded
  <2>4. \A q \in Request : handler[q] \in {"returned", "taken"} => q \in persisted'
    BY <1>1 DEF TesterInv, Persisted
  <2> QED BY <1>2, <2>1, <2>3, <2>4 DEF Persisted
<1>10. Orphans'
  BY <1>1, <1>2 DEF TesterInv, Orphans, IsOld
<1> QED BY <1>3, <1>4, <1>7, <1>8, <1>9, <1>10 DEF TesterInv

\* A call is made, by an instance that runs or one that was shut down.
LEMMA MakeCallKeeps ==
  ASSUME TesterInv, NEW r \in Request, NEW e \in End, MakeCall(r, e)
  PROVE  TesterInv'
<1>1. /\ Exists(e) /\ stage[r] = "new" /\ Call(r, e)
      /\ stage' = [stage EXCEPT ![r] = "sent"] /\ end' = [end EXCEPT ![r] = e]
      /\ orphan' = IF e[1] \in Name /\ e[2] # owner[e[1]] THEN orphan \cup {r} ELSE orphan
      /\ UNCHANGED <<netVars, to, handler, ok, inTime>>
      /\ UNCHANGED <<todo, about, started, among, saved, owner, persisted>>
  BY DEF MakeCall, Call
<1>2. UNCHANGED <<made, servers, enabled>>
  BY <1>1 DEF netVars
<1>3. Inv'
  BY <1>1, CallInv DEF TesterInv
<1>4. Owners' /\ Listed' /\ OldDisabled'
  BY <1>1, <1>2, ServersAlone
<1>5. handler[r] = "none" /\ r \notin orphan
  BY <1>1 DEF TesterInv, Inv, Dispatched, Orphans
<1>6. TesterType' /\ AckedSaved'
  BY <1>1 DEF TesterInv, TesterType, AckedSaved
<1>7. Persisted'
  BY <1>1, <1>2 DEF TesterInv, Persisted, Superseded
<1>8. Orphans'
  <2>1. /\ \A q \in Request \ {r} : stage'[q] = stage[q] /\ end'[q] = end[q]
        /\ stage'[r] = "sent" /\ end'[r] = e
    BY <1>1 DEF TesterInv, Inv, CallTypeOK
  <2>2. r \in orphan' => IsOld(e)
    BY <1>1, <1>5 DEF Exists, IsOld
  <2>3. \A d : IsOld(d)' <=> IsOld(d)
    BY <1>1, <1>2 DEF IsOld
  <2>4. ASSUME NEW q \in orphan'
        PROVE  /\ handler'[q] = "none" /\ stage'[q] \in {"sent", "concluded", "returned"}
               /\ IsOld(end'[q])
    <3>1. CASE q = r
      BY <1>1, <1>5, <2>1, <2>2, <2>4, <3>1
    <3>2. CASE q # r
      <4>1. q \in orphan /\ q \in Request
        BY <1>1, <3>2 DEF TesterInv, TesterType
      <4> QED BY <1>1, <2>1, <3>2, <4>1 DEF TesterInv, Orphans
    <3> QED BY <3>1, <3>2
  <2> QED BY <1>1, <1>2, <2>4 DEF Orphans, IsOld
<1> QED BY <1>3, <1>4, <1>6, <1>7, <1>8 DEF TesterInv

\* ProcessReq() and the handler go on: an old instance's call is refused where
\* its end is looked up, and a positive reply is one of the Persister's owner.
LEMMA CallRunsKeeps ==
  ASSUME TesterInv, NEW r \in Request, CallRuns(r)
  PROVE  TesterInv'
<1>1. /\ ProcessReq(r) \/ (r \in persisted /\ HandlerReturns(r))
      /\ UNCHANGED testerVars
  BY DEF CallRuns
<1>2. UNCHANGED <<todo, about, started, among, saved, owner, persisted, orphan>>
  BY <1>1 DEF testerVars
<1>3. Inv'
  BY <1>1, CallInv DEF TesterInv
<1>4. /\ UNCHANGED <<made, servers, enabled, connections, end>>
      /\ \A q \in Request \ {r} : /\ stage'[q] = stage[q] /\ to'[q] = to[q]
                                  /\ handler'[q] = handler[q] /\ ok'[q] = ok[q]
  BY <1>1 DEF ProcessReq, ReadEndnameInfo, DropRequest, Dispatch, Receive, Poll,
              Conclude, Return, HandlerReturns, netVars, TesterInv, Inv, CallTypeOK
<1>5. Owners' /\ Listed' /\ OldDisabled'
  BY <1>2, <1>4, ServersAlone
<1>6. TesterType'
  BY <1>2 DEF TesterInv, TesterType
\* What the step does to the call itself.
<1>7. \/ /\ stage[r] = "sent" /\ handler[r] = "none" /\ handler'[r] = "none" /\ ok'[r] = ok[r]
         /\ stage'[r] \in {"accepted", "concluded"}
         /\ stage'[r] = "accepted" => enabled[end[r]]
      \/ /\ stage[r] = "accepted" /\ to'[r] = to[r] /\ ok'[r] = ok[r]
         /\ handler'[r] \in {handler[r], "running"}
      \/ /\ stage[r] \in {"waiting", "checking", "concluded"} /\ to'[r] = to[r]
         /\ handler[r] = handler'[r] \/ (handler[r] = "returned" /\ handler'[r] = "taken")
         /\ ok'[r] => ok[r] \/ Replies(r)
         /\ stage'[r] \in {"checking", "concluded", "returned"}
         /\ stage[r] = "concluded" => stage'[r] = "returned"
      \/ /\ stage'[r] = stage[r] /\ to'[r] = to[r] /\ ok'[r] = ok[r] /\ r \in persisted
         /\ handler[r] = "running" /\ handler'[r] = "returned"
  <2> USE DEF TesterInv, Inv, CallTypeOK
  <2>1. CASE ReadEndnameInfo(r)
    BY <2>1 DEF ReadEndnameInfo, Dispatched
  <2>2. CASE DropRequest(r)
    BY <2>2 DEF DropRequest
  <2>3. CASE Dispatch(r)
    BY <2>3 DEF Dispatch
  <2>4. CASE Receive(r)
    BY <2>4 DEF Receive
  <2>5. CASE Poll(r)
    BY <2>5 DEF Poll
  <2>6. CASE Conclude(r)
    <3>1. ok'[r] => ok[r] \/ Replies(r)
      <4>1. Replies(r) \in BOOLEAN
        BY DEF Replies
      <4> QED BY <2>6, <4>1 DEF Conclude
    <3> QED BY <2>6, <3>1 DEF Conclude
  <2>7. CASE Return(r)
    BY <2>7 DEF Return
  <2>8. CASE r \in persisted /\ HandlerReturns(r)
    BY <2>8 DEF HandlerReturns
  <2> QED BY <1>1, <2>1, <2>2, <2>3, <2>4, <2>5, <2>6, <2>7, <2>8 DEF ProcessReq
<1>8. stage[r] \in {"sent", "accepted"} => handler[r] = "none" /\ r \notin persisted /\ ~ok[r]
  BY DEF TesterInv, Inv, Dispatched, Persisted, OkMeansExecuted
<1>9. Persisted'
  <2>1. \A q \in Request \ {r} : Superseded(q)' <=> Superseded(q)
    BY <1>2, <1>4 DEF Superseded
  <2>2. to'[r] = to[r] => (Superseded(r)' <=> Superseded(r))
    BY <1>2, <1>4 DEF Superseded
  <2>3. \A q \in Request \ {r} :
          /\ q \in persisted' => /\ handler'[q] # "none"
                                 /\ q \in saved'[to'[q].name] \/ Superseded(q)'
          /\ handler'[q] \in {"returned", "taken"} => q \in persisted'
    BY <1>2, <1>4, <2>1 DEF TesterInv, Persisted
  <2>4. /\ r \in persisted => /\ handler[r] # "none"
                              /\ r \in saved[to[r].name] \/ Superseded(r)
        /\ handler[r] \in {"returned", "taken"} => r \in persisted
    BY DEF TesterInv, Persisted
  <2>5. r \in persisted => to'[r] = to[r] /\ handler'[r] # "none"
    BY <1>7, <1>8, <2>4
  <2>6. handler'[r] \in {"returned", "taken"} => r \in persisted
    BY <1>7, <1>8, <2>4
  <2> QED BY <1>2, <2>2, <2>3, <2>4, <2>5, <2>6 DEF Persisted
<1>10. AckedSaved'
  <2>1. \A q \in Request \ {r} : ok'[q] => q \in saved'[to'[q].name]
    BY <1>2, <1>4 DEF TesterInv, AckedSaved
  <2>2. ASSUME Replies(r) PROVE r \in saved[to[r].name]
    <3>1. handler[r] = "taken" /\ servers[to[r].name] = to[r].server
      BY <2>2 DEF Replies, IsServerDead, Alive
    <3> QED BY <3>1 DEF TesterInv, Persisted, Superseded
  <2>3. ok[r] => r \in saved[to[r].name]
    BY DEF TesterInv, AckedSaved
  <2>4. ok'[r] => to'[r] = to[r] /\ (ok[r] \/ Replies(r))
    BY <1>7, <1>8
  <2> QED BY <1>2, <2>1, <2>2, <2>3, <2>4 DEF AckedSaved
<1>11. Orphans'
  <2>1. \A d : IsOld(d)' <=> IsOld(d)
    BY <1>2, <1>4 DEF IsOld
  <2>2. ASSUME r \in orphan
        PROVE  handler'[r] = "none" /\ stage'[r] \in {"sent", "concluded", "returned"}
    <3>1. /\ handler[r] = "none" /\ stage[r] \in {"sent", "concluded", "returned"}
          /\ IsOld(end[r])
      BY <2>2 DEF TesterInv, Orphans
    <3>2. ~enabled[end[r]]
      BY <3>1 DEF TesterInv, OldDisabled, Inv, CallTypeOK
    <3> QED BY <1>7, <3>1, <3>2
  <2> QED BY <1>2, <1>4, <2>1, <2>2 DEF TesterInv, TesterType, Orphans
<1> QED BY <1>3, <1>5, <1>6, <1>9, <1>10, <1>11 DEF TesterInv

\* Which operations a step belongs to.
LEMMA AtIs ==
  ASSUME TesterType
  PROVE  /\ At("disconnect") => todo \in {Shutdown, ToDetach} /\ about \in Name
         /\ At("connect") => todo = ToAttach /\ about \in Name
         /\ At("DeleteServer") => todo = ToDelete /\ about \in Name
         /\ At("Copy") => todo \in {ToCopy, ToGive} /\ about \in Name
         /\ At("Connect") => todo = StartServer /\ about \in Name
         /\ At("Make") => todo = ToMake /\ about \in Name
         /\ At("AddServer") => todo = ToAdd /\ about \in Name
BY TodoHeads DEF TesterType, Todos, At

\* The tester begins an operation.
LEMMA BeginKeeps ==
  ASSUME TesterInv, NEW n \in Name,
         \/ BeginShutdown(n) \/ BeginStart(n)
         \/ \E others \in SUBSET Name : BeginConnect(n, others) \/ BeginDisconnect(n, others)
  PROVE  TesterInv'
<1>1. /\ todo = <<>> /\ about' = n /\ UNCHANGED <<vars, started, saved, owner, persisted, orphan>>
      /\ among' \subseteq Name
      /\ \/ todo' = Shutdown /\ owner[n] # 0 /\ among' = Name \ {n}
         \/ todo' = StartServer /\ owner[n] = 0
         \/ todo' = ToAttach /\ \A m \in among' \cup {n} : owner[m] # 0
         \/ todo' = ToDetach
  BY DEF BeginShutdown, BeginStart, BeginConnect, BeginDisconnect, Begin, Up, ToAttach, ToDetach
<1>2. UNCHANGED <<netVars, callVars, made, servers, enabled>>
  BY <1>1 DEF vars, netVars
<1>3. Inv'
  BY <1>1, NetworkStep DEF TesterInv
<1>4. Persisted' /\ AckedSaved' /\ Orphans'
  BY <1>1, <1>2, CallsAlone DEF TesterInv, Inv, NetTypeOK
<1>6. TesterType'
  BY <1>1 DEF TesterInv, TesterType, Todos
<1>7. Owners'
  <2>1. ASSUME NEW m \in Name
        PROVE  /\ started[m] = made[m] /\ made[m] \in Nat
               /\ servers[m] # 0 => owner[m] = servers[m]
               /\ owner[m] \in {0, started[m]}
    <3>1. ~Doing(m, {ToGive, ToMake, ToAdd})
      BY <1>1, TodosApart DEF Doing
    <3>2. made[m] \in Nat
      BY DEF TesterInv, Inv, NetTypeOK
    <3> QED BY <3>1, <3>2 DEF TesterInv, Owners
  <2>3. ASSUME NEW m \in Name
        PROVE  /\ ~Doing(m, {ToGive, ToMake, ToAdd})' /\ ~Doing(m, {ToAdd})'
               /\ Doing(m, {ToCopy, StartServer, ToGive, ToMake, ToAdd})' => owner[m] = 0
               /\ Doing(m, {StartServer, ToGive, ToMake})' => owner[m] = 0
    BY <1>1, TodosApart DEF Doing
  <2>4. ASSUME NEW m \in Name
        PROVE  /\ started[m] = made[m] + 0
               /\ Doing(m, {ToCopy, StartServer, ToGive, ToMake, ToAdd})' => servers[m] = 0
    <3>1. started[m] = made[m] + 0
      BY <2>1
    <3>2. owner[m] = 0 => servers[m] = 0
      BY <2>1
    <3> QED BY <2>3, <3>1, <3>2
  <2> QED BY <1>1, <1>2, <2>1, <2>3, <2>4 DEF Owners
<1>8. Listed'
  BY <1>1, TodosApart DEF Listed
<1>9. OldDisabled'
  <2>1. \A m : ~Doing(m, {ToDelete, ToCopy})'
    BY <1>1, TodosApart DEF Doing
  <2> QED BY <1>1, <1>2, <2>1 DEF TesterInv, OldDisabled, IsOld
<1> QED BY <1>3, <1>4, <1>6, <1>7, <1>8, <1>9 DEF TesterInv

\* One step more of an operation that touches neither servers nor Persisters.
LEMMA StepDone ==
  ASSUME TesterInv, UNCHANGED <<vars, started, among, saved, owner, persisted, orphan, about>>,
         \/ /\ todo = Shutdown /\ todo' = ToDelete
            /\ \A e \in End : e[1] = about /\ e[2] = started[about] => ~enabled[e]
         \/ todo \in {ToAttach, ToDetach} /\ todo' = <<>>
  PROVE  TesterInv'
<1>1. UNCHANGED <<netVars, callVars, made, servers, enabled>>
  BY DEF vars, netVars
<1>2. Inv'
  BY NetworkStep DEF TesterInv
<1>3. Persisted' /\ AckedSaved' /\ Orphans'
  BY <1>1, CallsAlone DEF TesterInv, Inv, NetTypeOK
<1>4. TesterType'
  BY TodosApart DEF TesterInv, TesterType, Todos
<1>5. \A m : /\ ~Doing(m, {ToGive, ToMake, ToAdd}) /\ ~Doing(m, {ToGive, ToMake, ToAdd})'
             /\ ~Doing(m, {ToCopy, StartServer, ToGive, ToMake, ToAdd})'
             /\ ~Doing(m, {StartServer, ToGive, ToMake})' /\ ~Doing(m, {ToAdd})'
             /\ ~Doing(m, {ToAttach})'
             /\ Doing(m, {Shutdown, ToDelete, ToCopy, StartServer, ToGive, ToMake, ToAdd})' =>
                Doing(m, {Shutdown, ToDelete, ToCopy, StartServer, ToGive, ToMake, ToAdd})
  BY TodosApart DEF Doing
<1>6. Owners'
  BY <1>1, <1>5 DEF TesterInv, Owners
<1>7. Listed'
  BY TodosApart DEF Listed
<1>8. OldDisabled'
  <2>1. \A e \in End : IsOld(e)' => IsOld(e)
    BY <1>1 DEF IsOld
  <2>2. ASSUME NEW e \in End, Doing(e[1], {ToDelete, ToCopy})', e[2] = started[e[1]]
        PROVE  ~enabled[e]
    <3>1. todo = Shutdown /\ e[1] = about
      BY <2>2, TodosApart DEF Doing
    <3> QED BY <2>2, <3>1, TodosApart
  <2> QED BY <1>1, <2>1, <2>2 DEF TesterInv, OldDisabled
<1> QED BY <1>2, <1>3, <1>4, <1>6, <1>7, <1>8 DEF TesterInv

\* A setting of the network changes; what gets enabled is no old end.
LEMMA SettingKeeps ==
  ASSUME TesterInv, [Next]_vars, UNCHANGED testerVars, UNCHANGED <<callVars, made, servers>>,
         \A e \in End : enabled'[e] =>
             enabled[e] \/ (~IsOld(e) /\ ~Doing(e[1], {ToDelete, ToCopy}))
  PROVE  TesterInv'
<1>1. UNCHANGED <<todo, about, started, among, saved, owner, persisted, orphan>>
  BY DEF testerVars
<1>2. Inv'
  BY NetworkStep DEF TesterInv
<1>3. Persisted' /\ AckedSaved' /\ Orphans'
  BY <1>1, CallsAlone DEF TesterInv, Inv, NetTypeOK
<1>4. TesterType' /\ Listed'
  BY <1>1 DEF TesterInv, TesterType, Listed, Doing
<1>5. Owners'
  BY <1>1 DEF TesterInv, Owners, Doing
<1>6. OldDisabled'
  BY <1>1 DEF TesterInv, OldDisabled, IsOld, Doing
<1> QED BY <1>2, <1>3, <1>4, <1>5, <1>6 DEF TesterInv

\* The tester connects or disconnects ends, makes clerks, sets the network up.
LEMMA EndsKeep ==
  ASSUME TesterInv,
         \/ SetUnreliable
         \/ \E e \in End : DisableEnd(e) \/ EnableEnd(e) \/ ConnectEnd(e) \/ ConnectClient(e)
  PROVE  TesterInv'
<1>t. TesterType /\ enabled \in [End -> BOOLEAN] /\ connections \in [End -> Name \cup {None}]
  BY DEF TesterInv, Inv, NetTypeOK
<1>1. CASE SetUnreliable
  <2>1. Reliable(FALSE) /\ UNCHANGED testerVars
    BY <1>1 DEF SetUnreliable
  <2>2. Next
    BY <2>1 DEF Next, Settings
  <2> QED BY <2>1, <2>2, SettingKeeps DEF Reliable
<1>2. ASSUME NEW e \in End, DisableEnd(e) PROVE TesterInv'
  <2>1. Enable(e, FALSE) /\ UNCHANGED testerVars
    BY <1>2 DEF DisableEnd
  <2>2. Next
    BY <2>1 DEF Next, Settings
  <2>3. \A d \in End : enabled'[d] => enabled[d]
    BY <1>t, <2>1 DEF Enable
  <2> QED BY <2>1, <2>2, <2>3, SettingKeeps DEF Enable
<1>3. ASSUME NEW e \in End, EnableEnd(e) PROVE TesterInv'
  <2>1. At("connect") /\ e \in Attached(about) /\ Enable(e, TRUE) /\ UNCHANGED testerVars
    BY <1>3 DEF EnableEnd
  <2>2. Next
    BY <2>1 DEF Next, Settings
  <2>3. \A d \in End : enabled'[d] => enabled[d] \/ d = e
    BY <1>t, <2>1 DEF Enable
  <2>4. todo = ToAttach /\ about \in Name /\ owner[about] # 0 /\ among \subseteq Name
    BY <1>t, <2>1, AtIs DEF TesterInv, TesterType, Listed
  <2>5. PICK p \in among : e \in Endnames(p, about)
    BY <2>1 DEF Attached
  <2>6. PICK m \in Name : owner[m] # 0 /\ e[1] = m /\ e[2] = started[m]
    BY <2>4, <2>5 DEF Endnames, TesterInv, Listed
  <2>7. owner[m] = started[m]
    BY <2>6 DEF TesterInv, Owners
  <2>8. ~IsOld(e) /\ ~Doing(e[1], {ToDelete, ToCopy})
    BY <2>4, <2>6, <2>7, TodosApart DEF IsOld, Doing
  <2> QED BY <2>1, <2>2, <2>3, <2>8, SettingKeeps DEF Enable
<1>4. ASSUME NEW e \in End, ConnectEnd(e) PROVE TesterInv'
  <2>1. Connect(e, e[3]) /\ UNCHANGED testerVars /\ e[3] \in Name
    BY <1>4, EndFields DEF ConnectEnd
  <2>2. Next
    BY <2>1 DEF Next, Settings
  <2> QED BY <2>1, <2>2, SettingKeeps DEF Connect
<1>5. ASSUME NEW e \in End, ConnectClient(e) PROVE TesterInv'
  <2>1. /\ todo = <<>> /\ UNCHANGED testerVars /\ e[3] \in Name /\ e[1] \notin Name
        /\ Connect(e, e[3]) \/ Enable(e, TRUE)
    BY <1>5, EndFields DEF ConnectClient
  <2>2. Next
    BY <2>1 DEF Next, Settings
  <2>3. ~IsOld(e) /\ ~Doing(e[1], {ToDelete, ToCopy})
    BY <2>1, TodosApart DEF IsOld, Doing
  <2>4. \A d \in End : enabled'[d] => enabled[d] \/ d = e
    BY <1>t, <2>1 DEF Enable, Connect
  <2>5. UNCHANGED <<callVars, made, servers>>
    BY <2>1 DEF Enable, Connect
  <2> QED BY <2>1, <2>2, <2>3, <2>4, <2>5, SettingKeeps
<1> QED BY <1>1, <1>2, <1>3, <1>4, <1>5

\* A step of a shutdown or a start leaves the server with started st, servers
\* sv, owner ow and made md.
Moves(st, sv, ow, md) ==
    /\ st \in Nat /\ sv \in Nat /\ ow \in Nat /\ md \in Nat
    /\ made[about] <= md
    /\ sv \in {servers[about], 0, made[about] + 1}
    /\ ow \in {owner[about], 0, made[about] + 1}
    /\ st = md + (IF todo' \in {ToGive, ToMake, ToAdd} THEN 1 ELSE 0)
    /\ sv # 0 => ow = sv
    /\ ow \in {0, st}
    /\ todo' \in {ToCopy, ToGive, ToMake, ToAdd} => sv = 0
    /\ todo' \in {ToGive, ToMake} => ow = 0
    /\ todo' = ToAdd => ow = st
    /\ todo' = ToCopy => todo = ToDelete /\ st = started[about]
    /\ \A e \in End : e[1] = about /\ e[2] <= md /\ e[2] # ow => ~enabled[e]

Becomes(st, sv, ow, md) ==
    /\ started' = [started EXCEPT ![about] = st] /\ servers' = [servers EXCEPT ![about] = sv]
    /\ owner' = [owner EXCEPT ![about] = ow] /\ made' = [made EXCEPT ![about] = md]

\* A step of shutdown or start that changes who serves, and neither calls nor ends, keeps the
\* tester's invariant when what it writes fits together (Moves).
LEMMA ServerMoves ==
  ASSUME TesterInv, [Next]_vars, about \in Name,
         UNCHANGED <<callVars, enabled, about, among, saved, persisted, orphan>>,
         todo \in {ToDelete, ToCopy, StartServer, ToGive, ToMake, ToAdd},
         todo' \in {ToCopy, <<>>, ToGive, ToMake, ToAdd},
         NEW st, NEW sv, NEW ow, NEW md, Moves(st, sv, ow, md), Becomes(st, sv, ow, md)
  PROVE  TesterInv'
<1> USE DEF Moves, Becomes
<1>t. /\ TesterType /\ started \in [Name -> Nat] /\ owner \in [Name -> Nat]
      /\ servers \in [Name -> Nat] /\ made \in [Name -> Nat]
  BY DEF TesterInv, TesterType, Inv, NetTypeOK
<1>1. /\ started'[about] = st /\ servers'[about] = sv /\ owner'[about] = ow /\ made'[about] = md
      /\ \A m \in Name \ {about} : /\ started'[m] = started[m] /\ servers'[m] = servers[m]
                                   /\ owner'[m] = owner[m] /\ made'[m] = made[m]
  BY <1>t
<1>2. Inv'
  BY NetworkStep DEF TesterInv
<1>3. Persisted' /\ AckedSaved' /\ Orphans'
  <2>1. ASSUME NEW n \in Name
        PROVE  /\ made'[n] \in Nat /\ made[n] <= made'[n]
               /\ servers'[n] \in {servers[n], 0, made[n] + 1}
               /\ owner'[n] \in {owner[n], 0, made[n] + 1}
    <3>1. CASE n = about
      BY <1>1, <3>1
    <3>2. CASE n # about
      BY <1>t, <1>1, <3>2
    <3> QED BY <3>1, <3>2
  <2> QED BY <2>1, CallsAlone
<1>4. TesterType'
  <2>1. started' \in [Name -> Nat] /\ owner' \in [Name -> Nat]
    BY <1>t
  <2> QED BY <1>t, <2>1 DEF TesterType, Todos
<1>5. \A m : m # about => \A S : ~Doing(m, S) /\ ~Doing(m, S)'
  BY DEF Doing
<1>6. \A S : Doing(about, S)' <=> todo' \in S
  BY DEF Doing
<1>7. Owners'
  <2>1. ASSUME NEW m \in Name, m # about
        PROVE  /\ started'[m] = made'[m] + (IF Doing(m, {ToGive, ToMake, ToAdd})' THEN 1 ELSE 0)
               /\ servers'[m] # 0 => owner'[m] = servers'[m]
               /\ owner'[m] \in {0, started'[m]}
    BY <1>1, <1>5, <2>1 DEF TesterInv, Owners
  <2>2. /\ started'[about] =
             made'[about] + (IF Doing(about, {ToGive, ToMake, ToAdd})' THEN 1 ELSE 0)
        /\ servers'[about] # 0 => owner'[about] = servers'[about]
        /\ owner'[about] \in {0, started'[about]}
        /\ Doing(about, {ToCopy, StartServer, ToGive, ToMake, ToAdd})' => servers'[about] = 0
        /\ Doing(about, {StartServer, ToGive, ToMake})' => owner'[about] = 0
        /\ Doing(about, {ToAdd})' => owner'[about] = started'[about]
    BY <1>1, <1>6, TodosApart
  <2> QED BY <1>5, <2>1, <2>2 DEF Owners
<1>8. Listed'
  BY TodosApart DEF Listed
<1>9. OldDisabled'
  <2>1. ASSUME NEW e \in End, IsOld(e)' PROVE ~enabled[e]
    <3>1. CASE e[1] = about
      BY <1>1, <2>1, <3>1 DEF IsOld
    <3>2. CASE e[1] # about
      <4>1. IsOld(e)
        BY <1>1, <2>1, <3>2 DEF IsOld
      <4> QED BY <4>1 DEF TesterInv, OldDisabled
    <3> QED BY <3>1, <3>2
  <2>2. ASSUME NEW e \in End, Doing(e[1], {ToDelete, ToCopy})', e[2] = started'[e[1]]
        PROVE  ~enabled[e]
    <3>1. e[1] = about /\ todo' = ToCopy
      BY <2>2, TodosApart DEF Doing
    <3>2. Doing(e[1], {ToDelete, ToCopy}) /\ e[2] = started[e[1]]
      BY <1>1, <2>2, <3>1 DEF Doing
    <3> QED BY <3>2 DEF TesterInv, OldDisabled
  <2> QED BY <2>1, <2>2 DEF OldDisabled
<1> QED BY <1>2, <1>3, <1>4, <1>7, <1>8, <1>9 DEF TesterInv

\* What a server's variables are while the tester is at work on it.
LEMMA WhileDoing ==
  ASSUME TesterInv, about \in Name
  PROVE  /\ made[about] \in Nat /\ owner[about] \in Nat /\ started[about] \in Nat
         /\ servers[about] \in Nat
         /\ todo \in {ToDelete, ToCopy, StartServer} => started[about] = made[about]
         /\ todo \in {ToGive, ToMake, ToAdd} => started[about] = made[about] + 1
         /\ owner[about] \in {0, started[about]}
         /\ todo \in {ToCopy, StartServer, ToGive, ToMake, ToAdd} => servers[about] = 0
         /\ todo \in {StartServer, ToGive, ToMake} => owner[about] = 0
         /\ todo = ToAdd => owner[about] = started[about]
         /\ \A e \in End : e[1] = about /\ e[2] <= made[about] /\ e[2] # owner[about] => ~enabled[e]
         /\ todo \in {ToDelete, ToCopy} =>
               \A e \in End : e[1] = about /\ e[2] = started[about] => ~enabled[e]
<1>1. made[about] \in Nat /\ owner[about] \in Nat /\ started[about] \in Nat /\ servers[about] \in Nat
  BY DEF TesterInv, TesterType, Inv, NetTypeOK
<1>2. \A S : Doing(about, S) <=> todo \in S
  BY DEF Doing
<1>3. /\ started[about] = made[about] + (IF todo \in {ToGive, ToMake, ToAdd} THEN 1 ELSE 0)
      /\ owner[about] \in {0, started[about]}
      /\ todo \in {ToCopy, StartServer, ToGive, ToMake, ToAdd} => servers[about] = 0
      /\ todo \in {StartServer, ToGive, ToMake} => owner[about] = 0
      /\ todo = ToAdd => owner[about] = started[about]
  BY <1>2 DEF TesterInv, Owners
<1>4. \A e \in End : e[1] = about /\ e[2] <= made[about] /\ e[2] # owner[about] => ~enabled[e]
  BY DEF TesterInv, OldDisabled, IsOld
<1>5. todo \in {ToDelete, ToCopy} =>
         \A e \in End : e[1] = about /\ e[2] = started[about] => ~enabled[e]
  BY <1>2 DEF TesterInv, OldDisabled
<1>6. todo \in {ToDelete, ToCopy, StartServer} => started[about] = made[about]
  BY <1>1, <1>3, TodosApart
<1> QED BY <1>1, <1>3, <1>4, <1>5, <1>6

\* The steps of the tester's operations.
LEMMA StepsKeep ==
  ASSUME TesterInv,
         Disconnected \/ Connected \/ Delete \/ Copy \/ EndsConnected \/ Make \/ Add
  PROVE  TesterInv'
<1>t. /\ TesterType /\ started \in [Name -> Nat] /\ owner \in [Name -> Nat]
      /\ servers \in [Name -> Nat] /\ made \in [Name -> Nat]
  BY DEF TesterInv, TesterType, Inv, NetTypeOK
<1>1. CASE Disconnected
  <2>1. /\ todo \in {Shutdown, ToDetach} /\ about \in Name
        /\ \A e \in Detached(about) : ~enabled[e]
        /\ todo' = Tail(todo)
        /\ UNCHANGED <<about, vars, started, among, saved, owner, persisted, orphan>>
    BY <1>t, <1>1, AtIs DEF Disconnected, Done
  <2>2. ASSUME todo = Shutdown, NEW e \in End, e[1] = about, e[2] = started[about]
        PROVE  ~enabled[e]
    <3>1. e[3] \in Name /\ e = <<about, started[about], e[3]>>
      BY <2>1, <2>2, EndFields
    <3>2. e \in Endnames(e[3], about)
      BY <3>1 DEF Endnames
    <3>3. e \in Detached(about)
      <4>1. e[3] \in among
        BY <2>1, <2>2, <3>1, EndFields DEF TesterInv, Listed
      <4> QED BY <3>2, <4>1 DEF Detached
    <3> QED BY <2>1, <3>3
  <2> QED BY <2>1, <2>2, TodoHeads, StepDone
<1>2. CASE Connected
  <2>1. /\ todo = ToAttach /\ todo' = Tail(todo)
        /\ UNCHANGED <<about, vars, started, among, saved, owner, persisted, orphan>>
    BY <1>t, <1>2, AtIs DEF Connected, Done
  <2> QED BY <2>1, TodoHeads, StepDone
<1>3. CASE Delete
  <2>1. /\ todo = ToDelete /\ todo' = ToCopy /\ about \in Name /\ DeleteServer(about)
        /\ UNCHANGED <<about, started, among, saved, owner, persisted, orphan>>
    BY <1>t, <1>3, AtIs, TodoHeads DEF Delete, Done
  <2>2. Next
    BY <2>1 DEF Next, Settings
  <2>3. /\ servers' = [servers EXCEPT ![about] = 0]
        /\ UNCHANGED <<made, enabled, callVars>>
        /\ started' = [started EXCEPT ![about] = started[about]]
        /\ owner' = [owner EXCEPT ![about] = owner[about]]
        /\ made' = [made EXCEPT ![about] = made[about]]
    BY <1>t, <2>1 DEF DeleteServer
  <2>4. started[about] = made[about] + (IF todo' \in {ToGive, ToMake, ToAdd} THEN 1 ELSE 0)
    BY <2>1, WhileDoing, TodosApart
  <2>5. Moves(started[about], 0, owner[about], made[about])
    BY <2>1, <2>4, WhileDoing, TodosApart DEF Moves
  <2>6. Becomes(started[about], 0, owner[about], made[about])
    BY <2>3 DEF Becomes
  <2> QED BY <2>1, <2>2, <2>3, <2>5, <2>6, ServerMoves
<1>4. CASE Copy
  <2>1. /\ todo \in {ToCopy, ToGive} /\ about \in Name /\ todo' = Tail(todo)
        /\ owner' = [owner EXCEPT ![about] = 0]
        /\ UNCHANGED <<about, vars, started, among, saved, persisted, orphan>>
    BY <1>t, <1>4, AtIs DEF Copy, Done
  <2>2. /\ UNCHANGED <<servers, made, enabled, callVars>>
        /\ started' = [started EXCEPT ![about] = started[about]]
        /\ servers' = [servers EXCEPT ![about] = servers[about]]
        /\ made' = [made EXCEPT ![about] = made[about]]
    BY <1>t, <2>1 DEF vars, netVars
  <2>3. \/ todo = ToCopy /\ todo' = <<>>
        \/ todo = ToGive /\ todo' = ToMake
    BY <2>1, TodoHeads
  <2>4. ASSUME NEW e \in End, e[1] = about, e[2] <= made[about], e[2] # 0 PROVE ~enabled[e]
    <3>1. CASE e[2] # owner[about]
      BY <2>1, <2>4, <3>1, WhileDoing
    <3>2. CASE e[2] = owner[about]
      <4>1. e[2] = started[about] /\ todo # ToGive
        BY <2>1, <2>4, <3>2, WhileDoing
      <4> QED BY <2>1, <2>4, <4>1, WhileDoing
    <3> QED BY <3>1, <3>2
  <2>5. started[about] = made[about] + (IF todo' \in {ToGive, ToMake, ToAdd} THEN 1 ELSE 0)
    <3>1. CASE todo = ToCopy /\ todo' = <<>>
      <4>1. started[about] = made[about] /\ made[about] \in Nat
        BY <2>1, <3>1, WhileDoing
      <4>2. todo' \notin {ToGive, ToMake, ToAdd}
        BY <3>1, TodosApart
      <4> QED BY <4>1, <4>2
    <3>2. CASE todo = ToGive /\ todo' = ToMake
      BY <2>1, <3>2, WhileDoing
    <3> QED BY <2>3, <3>1, <3>2
  <2>6. Moves(started[about], servers[about], 0, made[about])
    <3>1. servers[about] = 0 /\ made[about] \in Nat /\ started[about] \in Nat
      BY <2>1, WhileDoing
    <3>2. todo' \notin {ToCopy, ToAdd}
      BY <2>3, TodosApart
    <3> QED BY <2>4, <2>5, <3>1, <3>2 DEF Moves
  <2>7. Becomes(started[about], servers[about], 0, made[about])
    BY <2>1, <2>2 DEF Becomes
  <2> QED BY <2>1, <2>2, <2>3, <2>6, <2>7, ServerMoves
<1>5. CASE EndsConnected
  <2>1. /\ todo = StartServer /\ todo' = ToGive /\ about \in Name
        /\ started' = [started EXCEPT ![about] = started[about] + 1]
        /\ UNCHANGED <<about, vars, owner, among, saved, persisted, orphan>>
    BY <1>t, <1>5, AtIs, TodoHeads DEF EndsConnected, Done
  <2>2. /\ UNCHANGED <<servers, made, enabled, callVars>>
        /\ owner' = [owner EXCEPT ![about] = owner[about]]
        /\ servers' = [servers EXCEPT ![about] = servers[about]]
        /\ made' = [made EXCEPT ![about] = made[about]]
    BY <1>t, <2>1 DEF vars, netVars
  <2>3. /\ started[about] + 1 \in Nat
        /\ started[about] + 1 = made[about] + (IF todo' \in {ToGive, ToMake, ToAdd} THEN 1 ELSE 0)
    BY <2>1, WhileDoing
  <2>4. Moves(started[about] + 1, servers[about], owner[about], made[about])
    BY <2>1, <2>3, WhileDoing, TodosApart DEF Moves
  <2>5. Becomes(started[about] + 1, servers[about], owner[about], made[about])
    BY <2>1, <2>2 DEF Becomes
  <2> QED BY <2>1, <2>2, <2>4, <2>5, ServerMoves
<1>6. CASE Make
  <2>1. /\ todo = ToMake /\ todo' = ToAdd /\ about \in Name
        /\ owner' = [owner EXCEPT ![about] = started[about]]
        /\ UNCHANGED <<about, vars, started, among, saved, persisted, orphan>>
    BY <1>t, <1>6, AtIs, TodoHeads DEF Make, Done
  <2>2. /\ UNCHANGED <<servers, made, enabled, callVars>>
        /\ started' = [started EXCEPT ![about] = started[about]]
        /\ servers' = [servers EXCEPT ![about] = servers[about]]
        /\ made' = [made EXCEPT ![about] = made[about]]
    BY <1>t, <2>1 DEF vars, netVars
  <2>3. ASSUME NEW e \in End, e[1] = about, e[2] <= made[about] PROVE ~enabled[e]
    <3>1. e[2] # owner[about]
      BY <2>1, <2>3, EndFields, WhileDoing
    <3> QED BY <2>1, <2>3, <3>1, WhileDoing
  <2>4. started[about] = made[about] + (IF todo' \in {ToGive, ToMake, ToAdd} THEN 1 ELSE 0)
    BY <2>1, WhileDoing
  <2>5. Moves(started[about], servers[about], started[about], made[about])
    BY <2>1, <2>3, <2>4, WhileDoing, TodosApart DEF Moves
  <2>6. Becomes(started[about], servers[about], started[about], made[about])
    BY <2>1, <2>2 DEF Becomes
  <2> QED BY <2>1, <2>2, <2>5, <2>6, ServerMoves
<1>7. CASE Add
  <2>1. /\ todo = ToAdd /\ todo' = <<>> /\ about \in Name /\ AddServer(about)
        /\ UNCHANGED <<about, started, among, saved, owner, persisted, orphan>>
    BY <1>t, <1>7, AtIs, TodoHeads DEF Add, Done
  <2>2. Next
    BY <2>1 DEF Next, Settings
  <2>3. /\ servers' = [servers EXCEPT ![about] = made[about] + 1]
        /\ made' = [made EXCEPT ![about] = made[about] + 1]
        /\ UNCHANGED <<enabled, callVars>>
        /\ started' = [started EXCEPT ![about] = started[about]]
        /\ owner' = [owner EXCEPT ![about] = owner[about]]
    BY <1>t, <2>1 DEF AddServer
  <2>4. /\ owner[about] = made[about] + 1 /\ started[about] = made[about] + 1
        /\ made[about] + 1 \in Nat /\ made[about] <= made[about] + 1
    BY <2>1, WhileDoing
  <2>5. started[about] = (made[about] + 1) + (IF todo' \in {ToGive, ToMake, ToAdd} THEN 1 ELSE 0)
    BY <2>1, <2>4, TodosApart
  <2>6. ASSUME NEW e \in End, e[1] = about, e[2] <= made[about] + 1, e[2] # owner[about]
        PROVE  ~enabled[e]
    <3>1. e[2] <= made[about]
      BY <2>1, <2>4, <2>6, EndFields, WhileDoing
    <3> QED BY <2>1, <2>6, <3>1, WhileDoing
  <2>7. Moves(started[about], made[about] + 1, owner[about], made[about] + 1)
    BY <2>1, <2>4, <2>5, <2>6, WhileDoing, TodosApart DEF Moves
  <2>8. Becomes(started[about], made[about] + 1, owner[about], made[about] + 1)
    BY <2>3 DEF Becomes
  <2> QED BY <2>1, <2>2, <2>3, <2>7, <2>8, ServerMoves
<1> QED BY <1>1, <1>2, <1>3, <1>4, <1>5, <1>6, <1>7

\* The inductive invariant of the testers over the network.
THEOREM TesterInvariant == TestSpec => []TesterInv
<1>1. TesterInv /\ [TestNext]_testVars => TesterInv'
  <2> SUFFICES ASSUME TesterInv, [TestNext]_testVars PROVE TesterInv'
    OBVIOUS
  <2>1. CASE Operation
    BY <2>1, BeginKeeps DEF Operation
  <2>2. CASE \/ SetUnreliable
             \/ \E e \in End : DisableEnd(e) \/ EnableEnd(e) \/ ConnectEnd(e) \/ ConnectClient(e)
    BY <2>2, EndsKeep
  <2>3. CASE Disconnected \/ Connected \/ Delete \/ Copy \/ EndsConnected \/ Make \/ Add
    BY <2>3, StepsKeep
  <2>4. ASSUME NEW r \in Request, Persist(r) \/ CallRuns(r) \/ \E e \in End : MakeCall(r, e)
        PROVE  TesterInv'
    BY <2>4, PersistKeeps, CallRunsKeeps, MakeCallKeeps
  <2>5. CASE UNCHANGED testVars
    <3>1. UNCHANGED vars /\ UNCHANGED testerVars
      BY <2>5 DEF testVars
    <3>2. UNCHANGED <<callVars, made, servers, enabled>>
      BY <3>1 DEF vars, netVars
    <3> QED BY <3>1, <3>2, SettingKeeps
  <2> QED BY <2>1, <2>2, <2>3, <2>4, <2>5 DEF TestNext
<1> QED BY <1>1, InitTester, PTL DEF TestSpec

\* What a clerk or a peer had acknowledged is in the Persister the next instance
\* is given: crash1() and ShutdownServer() delete the server before they copy
\* its Persister, for any number of servers, restarts and calls.
THEOREM AcknowledgedIsSaved == TestSpec => []AckedSaved
<1>1. TesterInv => AckedSaved
  BY DEF TesterInv
<1> QED BY <1>1, TesterInvariant, PTL

\* An instance that was shut down reaches no handler any more, although it goes
\* on calling and its successor's ends are enabled again.
THEOREM OldInstancesSilent == TestSpec => []OldSilent
<1>1. TesterInv => OldSilent
  BY DEF TesterInv, Orphans, OldSilent
<1> QED BY <1>1, TesterInvariant, PTL

=============================================================================
