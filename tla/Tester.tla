------------------------------- MODULE Tester -------------------------------
(***************************************************************************)
(* How the testers (src/src/raft/config.go, and kvraft's and shardmaster's)*)
(* crash and restart a server they cannot really kill: the old instance    *)
(* goes on running, so it is cut off from the network and its Persister is *)
(* superseded, while calls are under way in LabRPC.  Each step here is at  *)
(* most one step of the network.  Raft, RaftKV and ShardMaster model the   *)
(* outcome as one step, a crash that keeps what was saved.                 *)
(* The loops over endnames disable, enable and connect their ends in any   *)
(* order, the one of the code included.                                    *)
(*                                                                         *)
(* The end <<m, k, n>> is the one instance k of m uses for n.  A Persister *)
(* is the set of calls whose effect it holds; the handlers that matter     *)
(* persist before they return.                                             *)
(***************************************************************************)
EXTENDS LabRPC, Sequences

CONSTANT Clerk   \* names of clerks, whose ends are <<c, 1, n>>

ASSUME TesterAssumption ==
    /\ Clerk \cap Name = {}
    /\ End = {e \in Name \X (1..MaxInstances) \X Name : e[1] # e[3]}
                 \cup (Clerk \X {1} \X Name)

VARIABLES
    todo,       \* what the tester's current operation has still to do
    about,      \* the server it is about
    started,    \* started[n]: sets of endnames made for n
    among,      \* the servers it connects that one to, or disconnects it from
    saved,      \* saved[n]: what the Persister cfg.saved[n] holds
    owner       \* owner[n]: the instance that has cfg.saved[n], or 0

VARIABLES
    persisted,  \* handlers that have persisted their effect, somewhere
    orphan      \* history: calls made by an instance that was shut down before

testerVars  == <<todo, about, started, among, saved, owner, persisted, orphan>>
testVars    == <<vars, testerVars>>

-----------------------------------------------------------------------------
(* The operations of the tester, as the steps they are made of. *)

CopiesFirst == <<"disconnect", "Copy", "DeleteServer">>   \* mutant: the order of the comment
\* crash1() and ShutdownServer()
Shutdown == <<"disconnect", "DeleteServer", "Copy">>

\* start1() and StartServer()
StartServer == <<"Connect", "Copy", "Make", "AddServer">>

Up(n) == owner[n] # 0

Begin(n, steps, others) ==
    /\ todo = <<>>
    /\ todo' = steps /\ about' = n /\ among' = others
    /\ UNCHANGED <<vars, started, saved, owner, persisted, orphan>>

BeginShutdown(n) ==
    /\ Up(n)
    /\ Begin(n, Shutdown, Name \ {n})

BeginStart(n) ==
    /\ ~Up(n) /\ started[n] < MaxInstances
    /\ Begin(n, StartServer, {})

\* connect() of raft's tester is about the servers that are connected, those of
\* the services' testers about the ones they are given.  That all of them run is
\* what every caller in the tests sees to; the functions do not check it.
BeginConnect(n, others) ==
    /\ \A m \in others \cup {n} : Up(m)
    /\ Begin(n, <<"connect">>, others)

\* Of any server, also one that was shut down.
BeginDisconnect(n, others) == Begin(n, <<"disconnect">>, others)

-----------------------------------------------------------------------------
(* The steps. *)

At(step) == todo # <<>> /\ Head(todo) = step
Done     == todo' = Tail(todo) /\ UNCHANGED about

\* The ends cfg.endnames holds for servers m and n, either way.
Endnames(m, n) == {<<m, started[m], n>>, <<n, started[n], m>>} \cap End

IncomingOnly(n) == {<<m, started[m], n>> : m \in among} \cap End   \* mutant: the first loop is missing
\* What disconnect() disables: the outgoing and the incoming ends.
Detached(n) == UNION {Endnames(m, n) : m \in among}

\* What connect() enables, likewise.
Attached(n) == UNION {Endnames(m, n) : m \in among}

DisableEnd(e) ==
    /\ At("disconnect")
    /\ e \in Detached(about) /\ enabled[e]
    /\ Enable(e, FALSE)
    /\ UNCHANGED testerVars

Disconnected ==
    /\ At("disconnect")
    /\ \A e \in Detached(about) : ~enabled[e]
    /\ Done
    /\ UNCHANGED <<vars, started, among, saved, owner, persisted, orphan>>

EnableEnd(e) ==
    /\ At("connect")
    /\ e \in Attached(about) /\ ~enabled[e]
    /\ Enable(e, TRUE)
    /\ UNCHANGED testerVars

Connected ==
    /\ At("connect")
    /\ \A e \in Attached(about) : enabled[e]
    /\ Done
    /\ UNCHANGED <<vars, started, among, saved, owner, persisted, orphan>>

Delete ==
    /\ At("DeleteServer")
    /\ DeleteServer(about)
    /\ Done
    /\ UNCHANGED <<started, among, saved, owner, persisted, orphan>>

\* cfg.saved[n] = cfg.saved[n].Copy(): the old instance keeps the old one.
Copy ==
    /\ At("Copy")
    /\ owner' = [owner EXCEPT ![about] = 0]
    /\ Done
    /\ UNCHANGED <<vars, started, among, saved, persisted, orphan>>

\* Fresh endnames, each connected once.
FreshEnds(n) == {<<n, started[n] + 1, m>> : m \in Name} \cap End

ConnectEnd(e) ==
    /\ At("Connect")
    /\ e \in FreshEnds(about) /\ connections[e] = None
    /\ Connect(e, e[3])
    /\ UNCHANGED testerVars

EndsConnected ==
    /\ At("Connect")
    /\ \A e \in FreshEnds(about) : connections[e] # None
    /\ started' = [started EXCEPT ![about] = @ + 1]
    /\ Done
    /\ UNCHANGED <<vars, among, saved, owner, persisted, orphan>>

\* Make() or StartKVServer(): the new instance has the Persister, and runs.
Make ==
    /\ At("Make")
    /\ owner' = [owner EXCEPT ![about] = started[about]]
    /\ Done
    /\ UNCHANGED <<vars, started, among, saved, persisted, orphan>>

Add ==
    /\ At("AddServer")
    /\ AddServer(about)
    /\ Done
    /\ UNCHANGED <<started, among, saved, owner, persisted, orphan>>

\* makeClient(), behind make_config(): a clerk's ends stay enabled, whatever
\* happens to the servers.
ConnectClient(e) ==
    /\ todo = <<>> /\ \A n \in Name : started[n] > 0
    /\ e[1] \in Clerk
    /\ \/ connections[e] = None /\ Connect(e, e[3])
       \/ connections[e] # None /\ ~enabled[e] /\ Enable(e, TRUE)
    /\ UNCHANGED testerVars

-----------------------------------------------------------------------------
(* The servers and clerks meanwhile. *)

\* A handler saves its effect in the Persister its instance was made with.
Persist(r) ==
    LET n == to[r].name IN
    /\ handler[r] = "running" /\ r \notin persisted
    /\ persisted' = persisted \cup {r}
    /\ saved' = IF owner[n] = to[r].server THEN [saved EXCEPT ![n] = @ \cup {r}] ELSE saved
    /\ UNCHANGED <<vars, todo, about, started, among, owner, orphan>>

\* Instances that were shut down go on calling.
Exists(e) == e[1] \in Name => e[2] <= made[e[1]] \/ e[2] = owner[e[1]]

MakeCall(r, e) ==
    /\ Exists(e)
    /\ Call(r, e)
    /\ orphan' = IF e[1] \in Name /\ e[2] # owner[e[1]] THEN orphan \cup {r} ELSE orphan
    /\ UNCHANGED <<todo, about, started, among, saved, owner, persisted>>

CallRuns(r) ==
    /\ ProcessReq(r) \/ (r \in persisted /\ HandlerReturns(r))
    /\ UNCHANGED testerVars

-----------------------------------------------------------------------------
TestInit ==
    /\ Init /\ end = [r \in Request |-> CHOOSE e \in End : TRUE]
    /\ todo = <<>> /\ about = None
    /\ started = [n \in Name |-> 0]
    /\ among = {}
    /\ saved = [n \in Name |-> {}]
    /\ owner = [n \in Name |-> 0]
    /\ persisted = {} /\ orphan = {}

\* With nobody else to connect to, connect() and disconnect() do nothing.
Operation ==
    \E n \in Name :
        \/ BeginShutdown(n) \/ BeginStart(n)
        \/ \E others \in (SUBSET (Name \ {n})) \ {{}} :
               BeginConnect(n, others) \/ BeginDisconnect(n, others)

\* make_config() says whether the network is reliable.
SetUnreliable ==
    /\ todo = <<>> /\ \A n \in Name : started[n] = 0
    /\ Reliable(FALSE)
    /\ UNCHANGED testerVars

TestNext ==
    \/ Operation \/ SetUnreliable
    \/ Disconnected \/ Connected \/ Delete \/ Copy \/ EndsConnected \/ Make \/ Add
    \/ \E e \in End : DisableEnd(e) \/ EnableEnd(e) \/ ConnectEnd(e) \/ ConnectClient(e)
    \/ \E r \in Request : \/ Persist(r) \/ CallRuns(r)
                          \/ \E e \in End : MakeCall(r, e)

TestSpec ==
    TestInit /\ [][TestNext]_testVars /\ \A r \in Request : WF_vars(ProcessReq(r))

-----------------------------------------------------------------------------
(* What the testers promise to the servers. *)

\* "it's important to do this before creating the new Persister in saved[i], to
\* avoid the possibility of the server returning a positive reply to an Append
\* but persisting the result in the superseded Persister" (kvraft/config.go:226):
\* what was acknowledged is in the Persister the next instance is given.
AckedSaved == \A r \in Request : ok[r] => r \in saved[to[r].name]

\* "so that old crashed instance's ClientEnds can't send" (raft/config.go:116): a
\* call an instance makes after it was shut down reaches no handler, also when
\* its server has been started and connected again.
OldSilent == \A r \in orphan : handler[r] = "none"
=============================================================================
