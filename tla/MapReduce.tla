----------------------------- MODULE MapReduce -----------------------------
(***************************************************************************)
(* The distributed mode of src/src/mapreduce: schedule() hands the tasks   *)
(* of a phase to workers it takes from registerChan, workers run one task  *)
(* per RPC and may stop answering, and the master ends by shutting down    *)
(* the workers that registered.                                            *)
(*                                                                         *)
(* A task is its number here; MapReduceFiles adds what it reads and writes.*)
(* net/rpc is external, as call() and RunWorker() use it: a dialled        *)
(* connection waits for Accept(), and it breaks when the listener closes   *)
(* or the worker dies.                                                     *)
(***************************************************************************)
EXTENDS Integers, Sequences, FiniteSets

CONSTANTS
    Worker,
    Reliable,   \* workers with nRPC = -1 that do not die and are started
    FailAfter,  \* nRPC of the others
    NMap,       \* map tasks, len(mapFiles)
    NReduce,    \* reduce tasks
    MaxDeaths   \* bound: workers that die in the middle of something

ASSUME MapReduceAssumption ==
    /\ Reliable \subseteq Worker
    /\ FailAfter \in Nat /\ MaxDeaths \in Nat
    /\ NMap \in Nat \ {0} /\ NReduce \in Nat \ {0}

VARIABLES
    phase,        \* "mapPhase", "reducePhase", "finish" or "done"
    workers,      \* mr.workers
    forwarded,    \* forwardRegistrations' i, for the channel of this phase
    sending,      \* goroutines about to block in registerChan <- w
    registerChan, \* senders blocked on registerChan, first come first served
    task,         \* task[t]: "waiting" for a worker, "calling" it, or "done"
    calls,        \* call()s that have dialled a worker
    killed        \* how many of workers killWorkers has shut down

VARIABLES
    loop,        \* loop[w]: where RunWorker is
    nRPC,        \* nRPC[w]
    concurrent,  \* concurrent[w]
    deaths

VARIABLE executed  \* history: the tasks that ran to their end, by phase

masterVars == <<phase, workers, forwarded, killed>>
chanVars   == <<sending, registerChan, task>>
workerVars == <<loop, nRPC, concurrent, deaths, executed>>
vars       == <<masterVars, chanVars, calls, workerVars>>

Tasks(p) == 1..(IF p = "mapPhase" THEN NMap ELSE NReduce)

\* schedule() and forwardRegistrations() of a phase are at work.
Running == phase \in {"mapPhase", "reducePhase"}

Dialled(w, t) == [srv |-> w, task |-> t, stage |-> "dialled"]

-----------------------------------------------------------------------------
(* RunWorker(). *)

\* The worker listens and registers.  Register() waits while killWorkers holds
\* the mutex; once the master is done nobody answers it, and RunWorker goes on.
RunWorker(w) ==
    /\ loop[w] = "off"
    /\ phase # "finish"
    /\ loop' = [loop EXCEPT ![w] = "check"]
    /\ workers' = IF Running THEN Append(workers, w) ELSE workers
    /\ UNCHANGED <<phase, forwarded, killed, chanVars, calls, nRPC, concurrent, deaths, executed>>

\* The head of the loop: nRPC = 0 ends it, and closing the listener breaks the
\* connections nobody accepted.
CheckRPCs(w) ==
    /\ loop[w] = "check"
    /\ loop' = [loop EXCEPT ![w] = IF nRPC[w] = 0 THEN "closed" ELSE "accept"]
    /\ calls' = {IF nRPC[w] = 0 /\ c.srv = w /\ c.stage = "dialled"
                 THEN [c EXCEPT !.stage = "broken"] ELSE c : c \in calls}
    /\ UNCHANGED <<masterVars, chanVars, nRPC, concurrent, deaths, executed>>

Accept(w, c) ==
    /\ loop[w] = "accept"
    /\ c.srv = w /\ c.stage = "dialled"
    /\ loop' = [loop EXCEPT ![w] = "check"]
    /\ nRPC' = [nRPC EXCEPT ![w] = @ - 1]
    /\ calls' = (calls \ {c}) \cup {[c EXCEPT !.stage = "accepted"]}
    /\ UNCHANGED <<masterVars, chanVars, concurrent, deaths, executed>>

\* DoTask(), up to and after doMap() or doReduce().
DoTask(c) ==
    /\ c.stage = "accepted" /\ c.task # 0
    /\ concurrent' = [concurrent EXCEPT ![c.srv] = @ + 1]
    /\ calls' = (calls \ {c}) \cup {[c EXCEPT !.stage = "running"]}
    /\ UNCHANGED <<masterVars, chanVars, loop, nRPC, deaths, executed>>

EndTask(c) ==
    /\ c.stage = "running"
    /\ concurrent' = [concurrent EXCEPT ![c.srv] = @ - 1]
    /\ executed' = executed \cup {<<phase, c.task>>}
    /\ calls' = (calls \ {c}) \cup {[c EXCEPT !.stage = "replied"]}
    /\ UNCHANGED <<masterVars, chanVars, loop, nRPC, deaths>>

\* Worker.Shutdown()
Shutdown(c) ==
    /\ c.stage = "accepted" /\ c.task = 0
    /\ nRPC' = [nRPC EXCEPT ![c.srv] = 1]
    /\ calls' = (calls \ {c}) \cup {[c EXCEPT !.stage = "replied"]}
    /\ UNCHANGED <<masterVars, chanVars, loop, concurrent, deaths, executed>>

\* The worker's process dies: whatever it was doing, the caller sees an error.
\* A process whose RunWorker() has returned exits (main/wc.go) and takes the
\* tasks it still runs with it.
Die(w) ==
    /\ deaths < MaxDeaths
    /\ w \notin Reliable
    /\ loop[w] # "off"
    /\ deaths' = deaths + 1
    /\ loop' = [loop EXCEPT ![w] = "closed"]
    /\ concurrent' = [concurrent EXCEPT ![w] = 0]
    /\ calls' = {IF c.srv = w THEN [c EXCEPT !.stage = "broken"] ELSE c : c \in calls}
    /\ UNCHANGED <<masterVars, chanVars, nRPC, executed>>

-----------------------------------------------------------------------------
(* schedule(). *)

ForwardTwice == forwarded   \* mutant: i stays behind
NextForwarded == forwarded + 1

\* forwardRegistrations() starts a sender for the next worker it has not told.
forwardRegistrations ==
    /\ Running
    /\ forwarded < Len(workers)
    /\ sending' = sending \cup {workers[forwarded + 1]}
    /\ forwarded' = NextForwarded
    /\ UNCHANGED <<phase, workers, killed, registerChan, task, calls, workerVars>>

\* A sender blocks: Go serves the senders of a channel in the order they came.
Enqueue(w) ==
    /\ w \in sending
    /\ sending' = sending \ {w}
    /\ registerChan' = Append(registerChan, w)
    /\ UNCHANGED <<masterVars, task, calls, workerVars>>

\* worker := <-registerChan, and call() dials it; nobody listens at a closed one.
TakeWorker(t) ==
    /\ Running
    /\ task[t] = "waiting"
    /\ registerChan # <<>>
    /\ LET w == Head(registerChan) IN
       calls' = calls \cup
          {[Dialled(w, t) EXCEPT !.stage = IF loop[w] = "closed" THEN "broken" ELSE @]}
    /\ registerChan' = Tail(registerChan)
    /\ task' = [task EXCEPT ![t] = "calling"]
    /\ UNCHANGED <<masterVars, sending, workerVars>>

NotRequeued(c) == sending                           \* mutant: the worker is forgotten
Requeued(c) == sending \cup {c.srv}

AlwaysDone(c) == "done"                             \* mutant: ok is ignored
Outcome(c) == IF c.stage = "replied" THEN "done" ELSE "waiting"

\* call() returns: a new sender offers the worker again, whatever happened, and
\* the task is done only if the worker answered.
CallReturns(c) ==
    /\ c.task # 0
    /\ c.stage \in {"replied", "broken"}
    /\ calls' = calls \ {c}
    /\ sending' = Requeued(c)
    /\ task' = [task EXCEPT ![c.task] = Outcome(c)]
    /\ UNCHANGED <<masterVars, registerChan, workerVars>>

-----------------------------------------------------------------------------
(* Master.run(). *)

\* wg.Wait() returns and the next phase begins, with a channel of its own; the
\* senders on the old one stay blocked for ever.
PhaseDone ==
    /\ Running
    /\ \A t \in DOMAIN task : task[t] = "done"
    /\ phase' = IF phase = "mapPhase" THEN "reducePhase" ELSE "finish"
    /\ forwarded' = 0
    /\ sending' = {} /\ registerChan' = <<>>
    /\ task' = IF phase = "mapPhase"
               THEN [t \in Tasks("reducePhase") |-> "waiting"] ELSE <<>>
    /\ UNCHANGED <<workers, killed, calls, workerVars>>

\* killWorkers() calls Shutdown at one worker after the other.
KillWorker ==
    /\ phase = "finish"
    /\ killed < Len(workers)
    /\ calls = {}
    /\ LET w == workers[killed + 1] IN
       calls' = {[Dialled(w, 0) EXCEPT !.stage = IF loop[w] = "closed" THEN "broken" ELSE @]}
    /\ UNCHANGED <<masterVars, chanVars, workerVars>>

KillReturns(c) ==
    /\ c.task = 0
    /\ c.stage \in {"replied", "broken"}
    /\ calls' = {}
    /\ killed' = killed + 1
    /\ UNCHANGED <<phase, workers, forwarded, chanVars, workerVars>>

\* stopRPCServer(), merge() and doneChannel <- true.
Finish ==
    /\ phase = "finish"
    /\ killed = Len(workers)
    /\ phase' = "done"
    /\ UNCHANGED <<workers, forwarded, killed, chanVars, calls, workerVars>>

-----------------------------------------------------------------------------
Init ==
    /\ phase = "mapPhase"
    /\ workers = <<>> /\ forwarded = 0 /\ killed = 0
    /\ sending = {} /\ registerChan = <<>>
    /\ task = [t \in Tasks("mapPhase") |-> "waiting"]
    /\ calls = {}
    /\ loop = [w \in Worker |-> "off"]
    /\ nRPC = [w \in Worker |-> IF w \in Reliable THEN -1 ELSE FailAfter]
    /\ concurrent = [w \in Worker |-> 0]
    /\ deaths = 0
    /\ executed = {}

CallStep(c) ==
    \/ \E w \in Worker : Accept(w, c)
    \/ DoTask(c) \/ EndTask(c) \/ Shutdown(c) \/ CallReturns(c) \/ KillReturns(c)

Next ==
    \/ forwardRegistrations \/ PhaseDone \/ KillWorker \/ Finish
    \/ \E c \in calls : CallStep(c)
    \/ \E t \in DOMAIN task : TakeWorker(t)
    \/ \E w \in Worker : RunWorker(w) \/ CheckRPCs(w) \/ Die(w) \/ Enqueue(w)

\* Every goroutine runs on, and a call that can make a step makes one; somebody
\* starts the reliable workers.
Fairness ==
    /\ WF_vars(forwardRegistrations)
    /\ WF_vars(PhaseDone \/ KillWorker \/ Finish)
    /\ WF_vars(\E t \in DOMAIN task : TakeWorker(t))
    /\ \A w \in Worker :
          /\ WF_vars(CheckRPCs(w))
          /\ WF_vars(Enqueue(w))
          /\ WF_vars(\E c \in calls : c.srv = w /\ CallStep(c))
    /\ \A w \in Reliable : WF_vars(RunWorker(w))

Spec == Init /\ [][Next]_vars /\ Fairness

-----------------------------------------------------------------------------
(* What the scheduler promises. *)

\* "schedule() should never issue more than one RPC at a time to a given worker"
\* (worker.go:42-43): the worker that is given a second task stops the program.  A
\* worker's name is in one place only: on its way to registerChan, on it, or in
\* a call.
OneTaskPerWorker == \A w \in Worker : concurrent[w] <= 1

\* A phase ends only when each of its tasks has really been run to its end by
\* some worker: Reduce never reads the output of a Map task that failed with
\* its worker (schedule.go:47-52, master.go run()).
PhasesComplete ==
    /\ phase # "mapPhase" => {"mapPhase"} \X Tasks("mapPhase") \subseteq executed
    /\ phase \in {"finish", "done"} =>
          {"reducePhase"} \X Tasks("reducePhase") \subseteq executed

\* While one worker keeps answering the job ends, whatever the others do: dead
\* workers come back through registerChan for ever, and killWorkers holds the
\* mutex across its calls.
JobEnds == Reliable # {} => <>(phase = "done")
=============================================================================
