-------------------------- MODULE MapReduceProofs --------------------------
(***************************************************************************)
(* schedule() gives a worker one task at a time and ends a phase only when *)
(* every task was run, for every number of workers, tasks and failures;    *)
(* and the files of the job come out as Sequential() would have made them, *)
(* for every input, every hash of its keys and every point at which the    *)
(* workers die.                                                            *)
(***************************************************************************)
EXTENDS MapReduceFiles, FiniteSetTheorems, TLAPS

CallRecord ==
    [srv : Worker, task : Nat,
     stage : {"dialled", "accepted", "running", "replied", "broken"}]

Types ==
    /\ phase \in {"mapPhase", "reducePhase", "finish", "done"}
    /\ workers \in Seq(Worker)
    /\ forwarded \in Nat /\ killed \in Nat
    /\ sending \in SUBSET Worker
    /\ registerChan \in Seq(Worker)
    /\ calls \in SUBSET CallRecord
    /\ loop \in [Worker -> {"off", "check", "accept", "closed"}]
    /\ concurrent \in [Worker -> Nat]

\* A worker registers once, after it began to listen.
RegisteredOnce ==
    /\ forwarded <= Len(workers)
    /\ \A i, j \in 1..Len(workers) : workers[i] = workers[j] => i = j
    /\ \A i \in 1..Len(workers) : loop[workers[i]] # "off"

Told(w) == \E i \in 1..forwarded : workers[i] = w

\* The name of a worker is in at most one of the three places, and only of a
\* worker that forwardRegistrations() has passed on in this phase.
OnePlace ==
    /\ \A w \in sending : Told(w)
    /\ \A i \in 1..Len(registerChan) :
          Told(registerChan[i]) /\ registerChan[i] \notin sending
    /\ \A i, j \in 1..Len(registerChan) : registerChan[i] = registerChan[j] => i = j
    /\ \A c \in calls :
          /\ c.task # 0 => Told(c.srv)
          /\ c.srv \notin sending
          /\ \A i \in 1..Len(registerChan) : registerChan[i] # c.srv

OneCall == \A c, d \in calls : c.srv = d.srv \/ c.task = d.task => c = d

\* Who is being called, and what has been run.
TaskStates == {"waiting", "calling", "done"}
Calling ==
    /\ Running => task \in [Tasks(phase) -> TaskStates]
    /\ ~Running => task = <<>> /\ sending = {} /\ registerChan = <<>>
    /\ \A c \in calls :
          IF c.task = 0 THEN ~Running ELSE Running /\ c.task \in Tasks(phase) /\ task[c.task] = "calling"
Ran ==
    /\ \A c \in calls : c.stage = "replied" /\ c.task # 0 => <<phase, c.task>> \in executed
    /\ Running => \A t \in Tasks(phase) : task[t] = "done" => <<phase, t>> \in executed

\* concurrent counts the DoTask that runs at the worker.
Counted ==
    \A w \in Worker :
        /\ (\E c \in calls : c.srv = w /\ c.stage = "running") => concurrent[w] = 1
        /\ ~(\E c \in calls : c.srv = w /\ c.stage = "running") => concurrent[w] = 0

Inv ==
    /\ Types /\ RegisteredOnce /\ OnePlace /\ OneCall /\ Calling /\ Ran /\ Counted
    /\ PhasesComplete

-----------------------------------------------------------------------------
\* Before any worker has registered.
LEMMA InitInv == Init => Inv
<1> SUFFICES ASSUME Init PROVE Inv
  OBVIOUS
<1>1. Types
  BY DEF Init, Types
<1>2. RegisteredOnce /\ OnePlace /\ OneCall
  BY DEF Init, RegisteredOnce, OnePlace, OneCall
<1>3. Calling
  BY DEF Init, Calling, Running, TaskStates
<1>4. Ran /\ PhasesComplete
  BY DEF Init, Ran, PhasesComplete
<1>5. Counted
  BY DEF Init, Counted
<1> QED BY <1>1, <1>2, <1>3, <1>4, <1>5 DEF Inv

\* A step that changes only how far calls have come keeps every name where it
\* is and every call the only one of its worker.
LEMMA Relabel ==
  ASSUME Inv, NEW f \in [calls -> CallRecord],
         calls' = {f[c] : c \in calls},
         \A c \in calls : f[c].srv = c.srv /\ f[c].task = c.task,
         UNCHANGED <<masterVars, chanVars>>, loop' \in [Worker -> {"off", "check", "accept", "closed"}],
         \A w \in Worker : loop'[w] = "off" <=> loop[w] = "off"
  PROVE  /\ calls' \in SUBSET CallRecord
         /\ RegisteredOnce' /\ OnePlace' /\ OneCall' /\ Calling'
<1> USE DEF Inv
<1>1. UNCHANGED <<phase, workers, forwarded, sending, registerChan, task>>
  BY DEF masterVars, chanVars
<1>2. calls' \in SUBSET CallRecord
  OBVIOUS
<1>3. \A d \in calls' : \E c \in calls : d = f[c] /\ d.srv = c.srv /\ d.task = c.task
  OBVIOUS
<1>4. OneCall'
  BY <1>3 DEF OneCall
<1>5. RegisteredOnce'
  <2>1. \A i \in 1..Len(workers) : workers[i] \in Worker
    BY DEF Types
  <2> QED BY <1>1, <2>1 DEF RegisteredOnce
<1>6. OnePlace'
  BY <1>1, <1>3 DEF OnePlace, Told
<1>7. Calling'
  BY <1>1, <1>3 DEF Calling, Running, Tasks
<1> QED BY <1>2, <1>4, <1>5, <1>6, <1>7

\* One call moves on to stage s.
LEMMA Advance ==
  ASSUME Inv, NEW c \in calls,
         NEW s \in {"dialled", "accepted", "running", "replied", "broken"},
         calls' = (calls \ {c}) \cup {[c EXCEPT !.stage = s]},
         UNCHANGED <<masterVars, chanVars>>, loop' \in [Worker -> {"off", "check", "accept", "closed"}],
         \A w \in Worker : loop'[w] = "off" <=> loop[w] = "off"
  PROVE  /\ calls' \in SUBSET CallRecord
         /\ RegisteredOnce' /\ OnePlace' /\ OneCall' /\ Calling'
<1> DEFINE f == [d \in calls |-> IF d = c THEN [c EXCEPT !.stage = s] ELSE d]
<1>1. \A d \in calls : d \in CallRecord
  BY DEF Inv, Types
<1>2. /\ [c EXCEPT !.stage = s] \in CallRecord
      /\ [c EXCEPT !.stage = s].srv = c.srv /\ [c EXCEPT !.stage = s].task = c.task
  BY <1>1 DEF CallRecord
<1>3. f \in [calls -> CallRecord]
  BY <1>1, <1>2
<1>4. \A d \in calls : f[d].srv = d.srv /\ f[d].task = d.task
  BY <1>2
<1>5. calls' = {f[d] : d \in calls}
  OBVIOUS
<1> HIDE DEF f
<1> QED BY <1>3, <1>4, <1>5, Relabel

\* What was run stays run while the phase and the tasks stay as they are.
LEMMA StillRan ==
  ASSUME Inv, UNCHANGED <<phase, task>>, executed \subseteq executed',
         \A c \in calls' : c.stage = "replied" /\ c.task # 0 => <<phase, c.task>> \in executed'
  PROVE  Ran' /\ PhasesComplete'
<1>1. Ran'
  BY DEF Inv, Ran, Running, Tasks
<1>2. PhasesComplete'
  BY DEF Inv, PhasesComplete, Tasks
<1> QED BY <1>1, <1>2

-----------------------------------------------------------------------------
(* RunWorker(). *)

\* A worker that starts was nowhere before.
LEMMA RunWorkerInv == ASSUME Inv, NEW w \in Worker, RunWorker(w) PROVE Inv'
<1> USE DEF Inv
<1>1. /\ loop[w] = "off" /\ loop' = [loop EXCEPT ![w] = "check"]
      /\ workers' = IF Running THEN Append(workers, w) ELSE workers
      /\ UNCHANGED <<phase, forwarded, killed, sending, registerChan, task, calls, concurrent, executed>>
  BY DEF RunWorker, chanVars
<1>2. Types'
  BY <1>1 DEF Types
<1>3. \A i \in 1..Len(workers) : workers[i] \in Worker /\ workers[i] # w /\ workers'[i] = workers[i]
  BY <1>1 DEF Types, RegisteredOnce
<1>4. \A i \in 1..Len(workers') : i \in 1..Len(workers) \/ (i = Len(workers) + 1 /\ workers'[i] = w)
  BY <1>1 DEF Types
<1>5. Len(workers) \in Nat /\ Len(workers') \in Nat /\ Len(workers) <= Len(workers')
  BY <1>1 DEF Types
<1>6. RegisteredOnce'
  <2>1. forwarded' <= Len(workers')
    BY <1>1, <1>5 DEF RegisteredOnce, Types
  <2>2. \A i \in 1..Len(workers') : loop'[workers'[i]] # "off"
    BY <1>1, <1>3, <1>4 DEF RegisteredOnce, Types
  <2>3. \A i, j \in 1..Len(workers') : workers'[i] = workers'[j] => i = j
    BY <1>3, <1>4 DEF RegisteredOnce
  <2> QED BY <2>1, <2>2, <2>3 DEF RegisteredOnce
<1>7. \A v : Told(v) => Told(v)'
  <2>1. \A i \in 1..forwarded : i \in 1..Len(workers)
    BY <1>5 DEF RegisteredOnce, Types
  <2> QED BY <1>1, <1>3, <2>1 DEF Told
<1>8. OnePlace' /\ OneCall'
  BY <1>1, <1>7 DEF OnePlace, OneCall
<1>9. Calling' /\ Counted'
  BY <1>1 DEF Calling, Counted, Running, Tasks
<1>10. Ran' /\ PhasesComplete'
  BY <1>1, StillRan DEF Ran
<1> QED BY <1>2, <1>6, <1>8, <1>9, <1>10

\* Closing the listener breaks calls that nobody has accepted.
LEMMA CheckRPCsInv == ASSUME Inv, NEW w \in Worker, CheckRPCs(w) PROVE Inv'
<1> USE DEF Inv
<1> DEFINE broken(c) == nRPC[w] = 0 /\ c.srv = w /\ c.stage = "dialled"
           f == [c \in calls |-> IF broken(c) THEN [c EXCEPT !.stage = "broken"] ELSE c]
<1>1. /\ loop[w] = "check" /\ loop' \in [Worker -> {"off", "check", "accept", "closed"}]
      /\ \A v \in Worker : loop'[v] = "off" <=> loop[v] = "off"
      /\ UNCHANGED <<masterVars, chanVars, concurrent, executed>>
  BY DEF CheckRPCs, Types
<1>2. calls' = {f[c] : c \in calls}
  BY DEF CheckRPCs
<1>3. \A c \in calls : c \in CallRecord
  BY DEF Types
<1>4. \A c \in calls : /\ [c EXCEPT !.stage = "broken"] \in CallRecord
                       /\ [c EXCEPT !.stage = "broken"].srv = c.srv
                       /\ [c EXCEPT !.stage = "broken"].task = c.task
                       /\ [c EXCEPT !.stage = "broken"].stage = "broken"
  BY <1>3 DEF CallRecord
<1>5. /\ f \in [calls -> CallRecord]
      /\ \A c \in calls : f[c].srv = c.srv /\ f[c].task = c.task
      /\ \A c \in calls : f[c] = c \/ (f[c].stage = "broken" /\ c.stage = "dialled")
  BY <1>3, <1>4
<1> HIDE DEF f
<1>6. calls' \in SUBSET CallRecord /\ RegisteredOnce' /\ OnePlace' /\ OneCall' /\ Calling'
  BY <1>1, <1>2, <1>5, Relabel
<1>7. UNCHANGED <<phase, workers, forwarded, killed, sending, registerChan, task>>
  BY <1>1 DEF masterVars, chanVars
<1>8. Types'
  BY <1>1, <1>6, <1>7 DEF Types
<1>9. Ran' /\ PhasesComplete'
  <2>1. \A d \in calls' : d.stage = "replied" => d \in calls
    BY <1>2, <1>5
  <2> QED BY <1>1, <1>7, <2>1, StillRan DEF Ran
<1>10. Counted'
  <2>1. ASSUME NEW v \in Worker
        PROVE  (\E c \in calls' : c.srv = v /\ c.stage = "running")
                 <=> (\E c \in calls : c.srv = v /\ c.stage = "running")
    <3>1. \A d \in calls' : d.stage = "running" => d \in calls
      BY <1>2, <1>5
    <3>2. \A c \in calls : c.stage = "running" => c \in calls'
      BY <1>2, <1>5
    <3> QED BY <3>1, <3>2
  <2> QED BY <1>1, <2>1 DEF Counted
<1> QED BY <1>6, <1>8, <1>9, <1>10

\* A death breaks every call of the worker and ends its task.
LEMMA DieInv == ASSUME Inv, NEW w \in Worker, Die(w) PROVE Inv'
<1> USE DEF Inv
<1> DEFINE f == [c \in calls |-> IF c.srv = w THEN [c EXCEPT !.stage = "broken"] ELSE c]
<1>1. /\ loop[w] # "off" /\ loop' \in [Worker -> {"off", "check", "accept", "closed"}]
      /\ \A v \in Worker : loop'[v] = "off" <=> loop[v] = "off"
      /\ concurrent' = [concurrent EXCEPT ![w] = 0]
      /\ UNCHANGED <<masterVars, chanVars, executed>>
  BY DEF Die, Types
<1>2. calls' = {f[c] : c \in calls}
  BY DEF Die
<1>3. \A c \in calls : c \in CallRecord
  BY DEF Types
<1>4. \A c \in calls : /\ [c EXCEPT !.stage = "broken"] \in CallRecord
                       /\ [c EXCEPT !.stage = "broken"].srv = c.srv
                       /\ [c EXCEPT !.stage = "broken"].task = c.task
                       /\ [c EXCEPT !.stage = "broken"].stage = "broken"
  BY <1>3 DEF CallRecord
<1>5. /\ f \in [calls -> CallRecord]
      /\ \A c \in calls : f[c].srv = c.srv /\ f[c].task = c.task
      /\ \A c \in calls : IF c.srv = w THEN f[c].stage = "broken" ELSE f[c] = c
  BY <1>3, <1>4
<1> HIDE DEF f
<1>6. calls' \in SUBSET CallRecord /\ RegisteredOnce' /\ OnePlace' /\ OneCall' /\ Calling'
  BY <1>1, <1>2, <1>5, Relabel
<1>7. UNCHANGED <<phase, workers, forwarded, killed, sending, registerChan, task>>
  BY <1>1 DEF masterVars, chanVars
<1>8. Types'
  BY <1>1, <1>6, <1>7 DEF Types
<1>9. Ran' /\ PhasesComplete'
  <2>1. \A d \in calls' : d.stage = "replied" => d \in calls
    BY <1>2, <1>5
  <2> QED BY <1>1, <1>7, <2>1, StillRan DEF Ran
<1>10. Counted'
  <2>1. ASSUME NEW v \in Worker, v # w
        PROVE  (\E c \in calls' : c.srv = v /\ c.stage = "running")
                 <=> (\E c \in calls : c.srv = v /\ c.stage = "running")
    <3>1. \A d \in calls' : d.srv = v => d \in calls
      BY <1>2, <1>5, <2>1
    <3>2. \A c \in calls : c.srv = v => c \in calls'
      BY <1>2, <1>5, <2>1
    <3> QED BY <3>1, <3>2
  <2>2. \A d \in calls' : ~(d.srv = w /\ d.stage = "running")
    BY <1>2, <1>5
  <2>3. concurrent'[w] = 0 /\ \A v \in Worker : v # w => concurrent'[v] = concurrent[v]
    BY <1>1 DEF Types
  <2> QED BY <2>1, <2>2, <2>3 DEF Counted
<1> QED BY <1>6, <1>8, <1>9, <1>10

\* The call that moves on is the only one of its worker, so concurrent depends
\* on it alone.
LEMMA AdvanceCounted ==
  ASSUME Inv, NEW c \in calls,
         NEW s \in {"dialled", "accepted", "running", "replied", "broken"},
         calls' = (calls \ {c}) \cup {[c EXCEPT !.stage = s]},
         concurrent'[c.srv] = (IF s = "running" THEN 1 ELSE 0),
         \A w \in Worker : w # c.srv => concurrent'[w] = concurrent[w]
  PROVE  Counted'
<1> USE DEF Inv
<1>1. c \in CallRecord
  BY DEF Types
<1> DEFINE d == [c EXCEPT !.stage = s]
<1>2. d.srv = c.srv /\ d.stage = s
  BY <1>1 DEF CallRecord
<1>3. calls' = (calls \ {c}) \cup {d}
  OBVIOUS
<1> HIDE DEF d
<1>4. \A e \in calls' : e.srv = c.srv => e = d
  BY <1>2, <1>3 DEF OneCall
<1>5. ASSUME NEW w \in Worker, w # c.srv
      PROVE  (\E e \in calls' : e.srv = w /\ e.stage = "running")
               <=> (\E e \in calls : e.srv = w /\ e.stage = "running")
  BY <1>2, <1>3, <1>5
<1>6. (\E e \in calls' : e.srv = c.srv /\ e.stage = "running") <=> s = "running"
  BY <1>2, <1>3, <1>4
<1> QED BY <1>5, <1>6 DEF Counted

\* Accept: the worker has no task yet.
LEMMA AcceptInv == ASSUME Inv, NEW w \in Worker, NEW c \in calls, Accept(w, c) PROVE Inv'
<1> USE DEF Inv
<1>1. /\ c.stage = "dialled" /\ loop' = [loop EXCEPT ![w] = "check"] /\ loop[w] = "accept"
      /\ calls' = (calls \ {c}) \cup {[c EXCEPT !.stage = "accepted"]}
      /\ UNCHANGED <<masterVars, chanVars, concurrent, executed>>
  BY DEF Accept
<1>2. /\ loop' \in [Worker -> {"off", "check", "accept", "closed"}]
      /\ \A v \in Worker : loop'[v] = "off" <=> loop[v] = "off"
  BY <1>1 DEF Types
<1>3. calls' \in SUBSET CallRecord /\ RegisteredOnce' /\ OnePlace' /\ OneCall' /\ Calling'
  BY <1>1, <1>2, Advance
<1>4. UNCHANGED <<phase, workers, forwarded, killed, sending, registerChan, task>>
  BY <1>1 DEF masterVars, chanVars
<1>5. Types'
  BY <1>1, <1>2, <1>3, <1>4 DEF Types
<1>6. c \in CallRecord /\ [c EXCEPT !.stage = "accepted"].stage = "accepted"
  BY DEF Types, CallRecord
<1>7. Ran' /\ PhasesComplete'
  <2>1. \A d \in calls' : d.stage = "replied" => d \in calls
    BY <1>1, <1>6
  <2> QED BY <1>1, <1>4, <2>1, StillRan DEF Ran
<1>8. Counted'
  <2>1. concurrent[c.srv] = 0
    BY <1>1, <1>6 DEF OneCall, Counted, CallRecord
  <2> QED BY <1>1, <2>1, AdvanceCounted
<1> QED BY <1>3, <1>5, <1>7, <1>8

\* DoTask begins at a worker whose only call this is.
LEMMA DoTaskInv == ASSUME Inv, NEW c \in calls, DoTask(c) PROVE Inv'
<1> USE DEF Inv
<1>1. /\ c.stage = "accepted" /\ concurrent' = [concurrent EXCEPT ![c.srv] = @ + 1]
      /\ calls' = (calls \ {c}) \cup {[c EXCEPT !.stage = "running"]}
      /\ UNCHANGED <<masterVars, chanVars, loop, executed>>
  BY DEF DoTask
<1>2. /\ loop' \in [Worker -> {"off", "check", "accept", "closed"}]
      /\ \A v \in Worker : loop'[v] = "off" <=> loop[v] = "off"
  BY <1>1 DEF Types
<1>3. calls' \in SUBSET CallRecord /\ RegisteredOnce' /\ OnePlace' /\ OneCall' /\ Calling'
  BY <1>1, <1>2, Advance
<1>4. UNCHANGED <<phase, workers, forwarded, killed, sending, registerChan, task>>
  BY <1>1 DEF masterVars, chanVars
<1>5. c \in CallRecord /\ c.srv \in Worker /\ [c EXCEPT !.stage = "running"].stage = "running"
  BY DEF Types, CallRecord
<1>6. Types'
  BY <1>1, <1>2, <1>3, <1>4, <1>5 DEF Types
<1>7. Ran' /\ PhasesComplete'
  <2>1. \A d \in calls' : d.stage = "replied" => d \in calls
    BY <1>1, <1>5
  <2> QED BY <1>1, <1>4, <2>1, StillRan DEF Ran
<1>8. Counted'
  <2>1. concurrent[c.srv] = 0
    BY <1>1, <1>5 DEF OneCall, Counted
  <2>2. concurrent'[c.srv] = 1 /\ \A w \in Worker : w # c.srv => concurrent'[w] = concurrent[w]
    BY <1>1, <1>5, <2>1 DEF Types
  <2> QED BY <1>1, <2>2, AdvanceCounted
<1> QED BY <1>3, <1>6, <1>7, <1>8

\* The task has been run when DoTask replies.
LEMMA EndTaskInv == ASSUME Inv, NEW c \in calls, EndTask(c) PROVE Inv'
<1> USE DEF Inv
<1>1. /\ c.stage = "running" /\ concurrent' = [concurrent EXCEPT ![c.srv] = @ - 1]
      /\ calls' = (calls \ {c}) \cup {[c EXCEPT !.stage = "replied"]}
      /\ executed' = executed \cup {<<phase, c.task>>}
      /\ UNCHANGED <<masterVars, chanVars, loop>>
  BY DEF EndTask
<1>2. /\ loop' \in [Worker -> {"off", "check", "accept", "closed"}]
      /\ \A v \in Worker : loop'[v] = "off" <=> loop[v] = "off"
  BY <1>1 DEF Types
<1>3. calls' \in SUBSET CallRecord /\ RegisteredOnce' /\ OnePlace' /\ OneCall' /\ Calling'
  BY <1>1, <1>2, Advance
<1>4. UNCHANGED <<phase, workers, forwarded, killed, sending, registerChan, task>>
  BY <1>1 DEF masterVars, chanVars
<1>5. c \in CallRecord /\ c.srv \in Worker /\ [c EXCEPT !.stage = "replied"].task = c.task
  BY DEF Types, CallRecord
<1>6. /\ concurrent'[c.srv] = 0
      /\ \A w \in Worker : w # c.srv => concurrent'[w] = concurrent[w]
      /\ concurrent' \in [Worker -> Nat]
  <2>1. concurrent[c.srv] = 1
    BY <1>1, <1>5 DEF Counted
  <2> QED BY <1>1, <1>5, <2>1 DEF Types
<1>7. Types'
  BY <1>2, <1>3, <1>4, <1>6 DEF Types
<1>8. Ran' /\ PhasesComplete'
  <2>1. \A d \in calls' : d.stage = "replied" /\ d.task # 0 => <<phase, d.task>> \in executed'
    BY <1>1, <1>5 DEF Ran
  <2> QED BY <1>1, <1>4, <2>1, StillRan
<1>9. Counted'
  BY <1>1, <1>6, AdvanceCounted
<1> QED BY <1>3, <1>7, <1>8, <1>9

\* Shutdown runs no task.
LEMMA ShutdownInv == ASSUME Inv, NEW c \in calls, Shutdown(c) PROVE Inv'
<1> USE DEF Inv
<1>1. /\ c.stage = "accepted" /\ c.task = 0
      /\ calls' = (calls \ {c}) \cup {[c EXCEPT !.stage = "replied"]}
      /\ UNCHANGED <<masterVars, chanVars, loop, concurrent, executed>>
  BY DEF Shutdown
<1>2. /\ loop' \in [Worker -> {"off", "check", "accept", "closed"}]
      /\ \A v \in Worker : loop'[v] = "off" <=> loop[v] = "off"
  BY <1>1 DEF Types
<1>3. calls' \in SUBSET CallRecord /\ RegisteredOnce' /\ OnePlace' /\ OneCall' /\ Calling'
  BY <1>1, <1>2, Advance
<1>4. UNCHANGED <<phase, workers, forwarded, killed, sending, registerChan, task>>
  BY <1>1 DEF masterVars, chanVars
<1>5. c \in CallRecord /\ c.srv \in Worker /\ [c EXCEPT !.stage = "replied"].task = 0
  BY <1>1 DEF Types, CallRecord
<1>6. Types'
  BY <1>1, <1>2, <1>3, <1>4 DEF Types
<1>7. Ran' /\ PhasesComplete'
  <2>1. \A d \in calls' : d.stage = "replied" /\ d.task # 0 => <<phase, d.task>> \in executed'
    BY <1>1, <1>5 DEF Ran
  <2> QED BY <1>1, <1>4, <2>1, StillRan
<1>8. Counted'
  <2>1. concurrent[c.srv] = 0
    BY <1>1, <1>5 DEF OneCall, Counted
  <2> QED BY <1>1, <2>1, AdvanceCounted
<1> QED BY <1>3, <1>6, <1>7, <1>8

-----------------------------------------------------------------------------
(* schedule(). *)

\* The worker that is told next was nowhere in this phase.
LEMMA ForwardInv == ASSUME Inv, forwardRegistrations PROVE Inv'
<1> USE DEF Inv
<1> DEFINE w == workers[forwarded + 1]
<1>1. /\ Running /\ forwarded < Len(workers)
      /\ sending' = sending \cup {w} /\ forwarded' = forwarded + 1
      /\ UNCHANGED <<phase, workers, killed, registerChan, task, calls, loop, concurrent, executed>>
  BY DEF forwardRegistrations, NextForwarded, workerVars
<1>2. Len(workers) \in Nat /\ forwarded \in Nat /\ forwarded + 1 \in 1..Len(workers) /\ w \in Worker
  BY <1>1 DEF Types
<1>3. Types'
  BY <1>1, <1>2 DEF Types
<1>4. ~Told(w)
  BY <1>2 DEF Told, RegisteredOnce
<1>5. (\E i \in 1..forwarded' : workers'[i] = w) /\ \A v : Told(v) => Told(v)'
  <2>1. forwarded + 1 \in 1..(forwarded + 1) /\ \A i \in 1..forwarded : i \in 1..(forwarded + 1)
    BY <1>2
  <2> QED BY <1>1, <2>1 DEF Told
<1> HIDE DEF w
<1>6. \A i \in 1..Len(registerChan) : registerChan[i] # w
  BY <1>4 DEF OnePlace
<1>7. \A c \in calls : Told(c.srv) /\ c.srv # w
  BY <1>1, <1>4 DEF OnePlace, Calling
<1>8. RegisteredOnce' /\ OneCall'
  BY <1>1, <1>2 DEF RegisteredOnce, OneCall
<1>9. OnePlace'
  <2>1. \A v \in sending' : Told(v)'
    BY <1>1, <1>5 DEF OnePlace, Told
  <2>2. \A i \in 1..Len(registerChan) : Told(registerChan[i])'
    BY <1>1, <1>5 DEF OnePlace, Told
  <2>3. /\ \A i \in 1..Len(registerChan) : registerChan[i] \notin sending'
        /\ \A c \in calls : c.srv \notin sending'
    BY <1>1, <1>6, <1>7 DEF OnePlace
  <2>4. \A c \in calls : Told(c.srv)'
    BY <1>5, <1>7
  <2> QED BY <1>1, <2>1, <2>2, <2>3, <2>4 DEF OnePlace
<1>10. Calling' /\ Counted'
  BY <1>1 DEF Calling, Counted, Running, Tasks
<1>11. Ran' /\ PhasesComplete'
  BY <1>1, StillRan DEF Ran
<1> QED BY <1>3, <1>8, <1>9, <1>10, <1>11

\* A sender becomes an element of the channel.
LEMMA EnqueueInv == ASSUME Inv, NEW w \in Worker, Enqueue(w) PROVE Inv'
<1> USE DEF Inv
<1>1. /\ w \in sending /\ sending' = sending \ {w} /\ registerChan' = Append(registerChan, w)
      /\ UNCHANGED <<phase, workers, forwarded, killed, task, calls, loop, concurrent, executed>>
  BY DEF Enqueue, workerVars, masterVars
<1>2. Types'
  BY <1>1 DEF Types
<1>3. \A v : Told(v)' <=> Told(v)
  BY <1>1 DEF Told
<1>4. Len(registerChan) \in Nat
  BY DEF Types
<1>5. \A i \in 1..Len(registerChan') :
         \/ i \in 1..Len(registerChan) /\ registerChan'[i] = registerChan[i]
         \/ i = Len(registerChan) + 1 /\ registerChan'[i] = w
  BY <1>1 DEF Types
<1>6. \A i \in 1..Len(registerChan) : registerChan[i] # w
  BY <1>1 DEF OnePlace
<1>7. OnePlace'
  <2>1. \A v \in sending' : Told(v)
    BY <1>1, <1>3 DEF OnePlace
  <2>2. \A i \in 1..Len(registerChan') :
           Told(registerChan'[i]) /\ registerChan'[i] \notin sending'
    BY <1>1, <1>3, <1>5 DEF OnePlace
  <2>3. \A i, j \in 1..Len(registerChan') : registerChan'[i] = registerChan'[j] => i = j
    BY <1>5, <1>6 DEF OnePlace
  <2>4. \A c \in calls' :
           /\ c.task # 0 => Told(c.srv)
           /\ c.srv \notin sending'
           /\ \A i \in 1..Len(registerChan') : registerChan'[i] # c.srv
    BY <1>1, <1>3, <1>5 DEF OnePlace
  <2> QED BY <2>1, <2>2, <2>3, <2>4, <1>1 DEF OnePlace, Told
<1>8. RegisteredOnce' /\ OneCall'
  BY <1>1 DEF RegisteredOnce, OneCall
<1>9. Calling' /\ Counted'
  <2>1. Running
    BY <1>1 DEF Calling
  <2> QED BY <1>1, <2>1 DEF Calling, Counted, Running, Tasks
<1>10. Ran' /\ PhasesComplete'
  BY <1>1, StillRan DEF Ran
<1> QED BY <1>2, <1>7, <1>8, <1>9, <1>10

\* The head of the channel becomes the only call of its worker.
LEMMA TakeWorkerInv == ASSUME Inv, NEW t \in DOMAIN task, TakeWorker(t) PROVE Inv'
<1> USE DEF Inv
<1> DEFINE w == Head(registerChan)
           d == [Dialled(w, t) EXCEPT !.stage = IF loop[w] = "closed" THEN "broken" ELSE @]
<1>1. /\ Running /\ task[t] = "waiting" /\ registerChan # <<>>
      /\ calls' = calls \cup {d}
      /\ registerChan' = Tail(registerChan)
      /\ task' = [task EXCEPT ![t] = "calling"]
      /\ UNCHANGED <<phase, workers, forwarded, killed, sending, loop, concurrent, executed>>
  BY DEF TakeWorker, workerVars, masterVars
<1>2. task \in [Tasks(phase) -> TaskStates] /\ t \in Tasks(phase) /\ t \in Nat /\ t # 0
  BY <1>1, MapReduceAssumption DEF Calling, Tasks
<1>3. Len(registerChan) \in Nat /\ 1 \in 1..Len(registerChan) /\ w = registerChan[1] /\ w \in Worker
  BY <1>1 DEF Types
<1>4. d.srv = w /\ d.task = t /\ d.stage \in {"dialled", "broken"} /\ d \in CallRecord
  BY <1>2, <1>3 DEF Dialled, CallRecord
<1>5. \A i \in 1..Len(registerChan') : i + 1 \in 1..Len(registerChan) /\ registerChan'[i] = registerChan[i + 1]
                                       /\ i \in Int
  BY <1>1 DEF Types
<1>6. registerChan' \in Seq(Worker)
  BY <1>1 DEF Types
<1> HIDE DEF w, d
<1>7. Types'
  BY <1>1, <1>4, <1>6 DEF Types
<1>8. \A v : Told(v)' <=> Told(v)
  BY <1>1 DEF Told
<1>9. Told(w) /\ w \notin sending /\ \A c \in calls : c.srv # w
  BY <1>3 DEF OnePlace
<1>10. \A i \in 1..Len(registerChan') : registerChan'[i] # w
  <2> TAKE i \in 1..Len(registerChan')
  <2>1. i + 1 # 1
    BY <1>5
  <2> QED BY <1>3, <1>5, <2>1 DEF OnePlace
<1>11. OnePlace'
  <2>1. \A v \in sending' : Told(v)
    BY <1>1, <1>8 DEF OnePlace
  <2>2. \A i \in 1..Len(registerChan') :
           Told(registerChan'[i]) /\ registerChan'[i] \notin sending'
    BY <1>1, <1>8, <1>5 DEF OnePlace
  <2>3. \A i, j \in 1..Len(registerChan') : registerChan'[i] = registerChan'[j] => i = j
    BY <1>5 DEF OnePlace
  <2>4. \A c \in calls : /\ c.task # 0 => Told(c.srv)
                         /\ c.srv \notin sending'
                         /\ \A i \in 1..Len(registerChan') : registerChan'[i] # c.srv
    BY <1>1, <1>5, <1>8 DEF OnePlace
  <2>5. /\ Told(d.srv) /\ d.srv \notin sending'
        /\ \A i \in 1..Len(registerChan') : registerChan'[i] # d.srv
    BY <1>1, <1>4, <1>8, <1>9, <1>10
  <2>6. \A c \in calls' : c \in calls \/ c = d
    BY <1>1
  <2> QED BY <2>1, <2>2, <2>3, <2>4, <2>5, <2>6, <1>1 DEF OnePlace, Told
<1>12. OneCall'
  <2>1. \A c \in calls : c.task # t
    BY <1>1 DEF Calling
  <2> QED BY <1>1, <1>4, <1>9, <2>1 DEF OneCall
<1>13. RegisteredOnce'
  BY <1>1 DEF RegisteredOnce
<1>14. Calling'
  <2>1. task' \in [Tasks(phase) -> TaskStates] /\ task'[t] = "calling"
    BY <1>1, <1>2 DEF TaskStates
  <2>2. \A c \in calls : c.task # 0 /\ c.task \in Tasks(phase) /\ task'[c.task] = "calling"
    BY <1>1, <1>2 DEF Calling
  <2>3. Running' /\ Tasks(phase)' = Tasks(phase)
    BY <1>1 DEF Running, Tasks
  <2> QED BY <1>1, <1>2, <1>4, <2>1, <2>2, <2>3 DEF Calling
<1>15. Counted'
  BY <1>1, <1>4 DEF Counted
<1>16. Ran'
  <2>1. \A c \in calls' : c.stage = "replied" => c \in calls
    BY <1>1, <1>4
  <2>2. \A u \in Tasks(phase) : task'[u] = "done" => task[u] = "done"
    BY <1>1, <1>2
  <2>3. Tasks(phase)' = Tasks(phase)
    BY <1>1 DEF Tasks
  <2> QED BY <1>1, <2>1, <2>2, <2>3 DEF Ran
<1>17. PhasesComplete'
  BY <1>1 DEF PhasesComplete, Tasks
<1> QED BY <1>7, <1>11, <1>12, <1>13, <1>14, <1>15, <1>16, <1>17

\* The call is gone and its worker is offered again; the task counts as done only
\* if DoTask had replied.
LEMMA CallReturnsInv == ASSUME Inv, NEW c \in calls, CallReturns(c) PROVE Inv'
<1> USE DEF Inv
<1>1. /\ c.task # 0 /\ c.stage \in {"replied", "broken"}
      /\ calls' = calls \ {c} /\ sending' = sending \cup {c.srv}
      /\ task' = [task EXCEPT ![c.task] = IF c.stage = "replied" THEN "done" ELSE "waiting"]
      /\ UNCHANGED <<phase, workers, forwarded, killed, registerChan, loop, concurrent, executed>>
  BY DEF CallReturns, Requeued, Outcome, workerVars, masterVars
<1>2. /\ Running /\ c.task \in Tasks(phase) /\ task \in [Tasks(phase) -> TaskStates]
      /\ c.srv \in Worker /\ Told(c.srv)
  BY <1>1 DEF Calling, Types, CallRecord, OnePlace
<1>3. Types'
  BY <1>1, <1>2 DEF Types
<1>4. \A v : Told(v)' <=> Told(v)
  BY <1>1 DEF Told
<1>5. \A d \in calls' : d \in calls /\ d.srv # c.srv
  BY <1>1 DEF OneCall
<1>6. OnePlace'
  <2>1. \A v \in sending' : Told(v)
    BY <1>1, <1>2, <1>4 DEF OnePlace
  <2>2. \A i \in 1..Len(registerChan) : registerChan[i] # c.srv
    BY DEF OnePlace
  <2>3. \A i \in 1..Len(registerChan') :
           Told(registerChan'[i]) /\ registerChan'[i] \notin sending'
    BY <1>1, <1>4, <2>2 DEF OnePlace
  <2>4. \A i, j \in 1..Len(registerChan') : registerChan'[i] = registerChan'[j] => i = j
    BY <1>1 DEF OnePlace
  <2>5. \A d \in calls' :
           /\ d.task # 0 => Told(d.srv)
           /\ d.srv \notin sending'
           /\ \A i \in 1..Len(registerChan') : registerChan'[i] # d.srv
    BY <1>1, <1>4, <1>5 DEF OnePlace
  <2> QED BY <2>1, <2>3, <2>4, <2>5, <1>1 DEF OnePlace, Told
<1>7. OneCall' /\ RegisteredOnce'
  BY <1>1 DEF OneCall, RegisteredOnce
<1>8. Tasks(phase)' = Tasks(phase) /\ Running'
  BY <1>1, <1>2 DEF Tasks, Running
<1>9. \A d \in calls' : d.task # c.task
  BY <1>5, <1>1 DEF OneCall
<1>10. \A u \in Tasks(phase) : u # c.task => task'[u] = task[u]
  BY <1>1, <1>2
<1>11. Calling'
  <2>1. task' \in [Tasks(phase) -> TaskStates]
    BY <1>1, <1>2 DEF TaskStates
  <2>2. \A d \in calls' : d.task # 0 /\ d.task \in Tasks(phase) /\ task'[d.task] = "calling"
    BY <1>2, <1>5, <1>9, <1>10 DEF Calling
  <2> QED BY <1>1, <1>8, <2>1, <2>2 DEF Calling
<1>12. Counted'
  BY <1>1, <1>5 DEF Counted
<1>13. Ran'
  <2>1. task'[c.task] = "done" => c.stage = "replied"
    BY <1>1, <1>2
  <2>2. <<phase, c.task>> \in executed \/ task'[c.task] # "done"
    BY <1>1, <2>1 DEF Ran
  <2>3. \A u \in Tasks(phase) : task'[u] = "done" => <<phase, u>> \in executed
    BY <1>2, <1>10, <2>2 DEF Ran
  <2> QED BY <1>1, <1>5, <1>8, <2>3 DEF Ran
<1>14. PhasesComplete'
  BY <1>1 DEF PhasesComplete, Tasks
<1> QED BY <1>3, <1>6, <1>7, <1>11, <1>12, <1>13, <1>14

-----------------------------------------------------------------------------
(* Master.run(). *)

\* wg.Wait() returns when no call is left, so the names may start afresh.
LEMMA PhaseDoneInv == ASSUME Inv, PhaseDone PROVE Inv'
<1> USE DEF Inv
<1>1. /\ Running /\ \A t \in DOMAIN task : task[t] = "done"
      /\ phase' = (IF phase = "mapPhase" THEN "reducePhase" ELSE "finish")
      /\ forwarded' = 0 /\ sending' = {} /\ registerChan' = <<>>
      /\ task' = (IF phase = "mapPhase" THEN [t \in Tasks("reducePhase") |-> "waiting"] ELSE <<>>)
      /\ UNCHANGED <<workers, killed, calls, loop, concurrent, executed>>
  BY DEF PhaseDone, workerVars
<1>2. task \in [Tasks(phase) -> TaskStates]
  BY <1>1 DEF Calling
<1>3. calls = {}
  BY <1>1, <1>2 DEF Calling
<1>4. Types'
  BY <1>1 DEF Types
<1>5. RegisteredOnce'
  BY <1>1 DEF RegisteredOnce, Types
<1>6. OnePlace' /\ OneCall'
  BY <1>1, <1>3 DEF OnePlace, OneCall
<1>7. Calling'
  <2>1. CASE phase = "mapPhase"
    BY <1>1, <1>3, <2>1 DEF Calling, Running, TaskStates, Tasks
  <2>2. CASE phase = "reducePhase"
    BY <1>1, <1>3, <2>2 DEF Calling, Running
  <2> QED BY <1>1, <2>1, <2>2 DEF Running
<1>8. \A t \in Tasks(phase) : <<phase, t>> \in executed
  BY <1>1, <1>2 DEF Ran
<1>9. Ran'
  <2>1. CASE phase = "mapPhase"
    BY <1>1, <1>3, <2>1 DEF Ran, Tasks
  <2>2. CASE phase = "reducePhase"
    BY <1>1, <1>3, <2>2 DEF Ran, Running
  <2> QED BY <1>1, <2>1, <2>2 DEF Running
<1>10. Counted'
  BY <1>1 DEF Counted
<1>11. PhasesComplete'
  <2>1. CASE phase = "mapPhase"
    BY <1>1, <1>8, <2>1 DEF PhasesComplete, Tasks
  <2>2. CASE phase = "reducePhase"
    BY <1>1, <1>8, <2>2 DEF PhasesComplete, Tasks
  <2> QED BY <1>1, <2>1, <2>2 DEF Running
<1> QED BY <1>4, <1>5, <1>6, <1>7, <1>9, <1>10, <1>11

\* killWorkers() has one call at a time.
LEMMA KillWorkerInv == ASSUME Inv, KillWorker PROVE Inv'
<1> USE DEF Inv
<1> DEFINE w == workers[killed + 1]
           d == [Dialled(w, 0) EXCEPT !.stage = IF loop[w] = "closed" THEN "broken" ELSE @]
<1>1. /\ phase = "finish" /\ killed < Len(workers) /\ calls = {} /\ calls' = {d}
      /\ UNCHANGED <<phase, workers, forwarded, killed, sending, registerChan, task, loop, concurrent, executed>>
  BY DEF KillWorker, masterVars, chanVars, workerVars
<1>2. w \in Worker
  BY <1>1 DEF Types
<1>3. d \in CallRecord /\ d.srv = w /\ d.task = 0 /\ d.stage \in {"dialled", "broken"}
  BY <1>2 DEF Dialled, CallRecord
<1> HIDE DEF w, d
<1>4. Types' /\ RegisteredOnce'
  BY <1>1, <1>3 DEF Types, RegisteredOnce
<1>5. sending = {} /\ registerChan = <<>> /\ ~Running
  BY <1>1 DEF Calling, Running
<1>6. OnePlace' /\ OneCall'
  BY <1>1, <1>3, <1>5 DEF OnePlace, OneCall
<1>7. Calling'
  BY <1>1, <1>3, <1>5 DEF Calling, Running
<1>8. Counted'
  BY <1>1, <1>3 DEF Counted
<1>9. Ran' /\ PhasesComplete'
  BY <1>1, <1>3, StillRan
<1> QED BY <1>4, <1>6, <1>7, <1>8, <1>9

\* A Shutdown that returns was the only call.
LEMMA KillReturnsInv == ASSUME Inv, NEW c \in calls, KillReturns(c) PROVE Inv'
<1> USE DEF Inv
<1>1. /\ c.task = 0 /\ c.stage \in {"replied", "broken"} /\ calls' = {} /\ killed' = killed + 1
      /\ UNCHANGED <<phase, workers, forwarded, sending, registerChan, task, loop, concurrent, executed>>
  BY DEF KillReturns, chanVars, workerVars
<1>2. ~Running /\ \A d \in calls : d = c
  BY <1>1 DEF Calling, OneCall
<1>3. Types' /\ RegisteredOnce'
  BY <1>1 DEF Types, RegisteredOnce
<1>4. OnePlace' /\ OneCall'
  BY <1>1 DEF OnePlace, OneCall, Told
<1>5. Calling'
  BY <1>1 DEF Calling, Running, Tasks
<1>6. Counted'
  BY <1>1, <1>2 DEF Counted
<1>7. Ran' /\ PhasesComplete'
  BY <1>1, StillRan
<1> QED BY <1>3, <1>4, <1>5, <1>6, <1>7

\* The end of the job changes nothing but its name.
LEMMA FinishInv == ASSUME Inv, Finish PROVE Inv'
<1> USE DEF Inv
<1>1. /\ phase = "finish" /\ phase' = "done"
      /\ UNCHANGED <<workers, forwarded, killed, sending, registerChan, task, calls, loop, concurrent, executed>>
  BY DEF Finish, chanVars, workerVars
<1>2. Types' /\ RegisteredOnce'
  BY <1>1 DEF Types, RegisteredOnce
<1>3. OnePlace' /\ OneCall'
  BY <1>1 DEF OnePlace, OneCall, Told
<1>4. Calling' /\ \A c \in calls : c.task = 0
  BY <1>1 DEF Calling, Running
<1>5. Counted'
  BY <1>1 DEF Counted
<1>6. Ran'
  BY <1>1, <1>4 DEF Ran, Running
<1>7. PhasesComplete'
  BY <1>1 DEF PhasesComplete, Tasks
<1> QED BY <1>2, <1>3, <1>4, <1>5, <1>6, <1>7

-----------------------------------------------------------------------------
\* Every step of the scheduler, of a worker and of a call keeps the invariant.
LEMMA ScheduleStep == Inv /\ [Next]_vars => Inv'
<1> SUFFICES ASSUME Inv, [Next]_vars PROVE Inv'
  OBVIOUS
<1>1. ASSUME UNCHANGED vars PROVE Inv'
  <2> USE DEF Inv
  <2>1. UNCHANGED <<phase, workers, forwarded, killed, sending, registerChan, task, calls, loop, concurrent, executed>>
    BY <1>1 DEF vars, masterVars, chanVars, workerVars
  <2>2. Types' /\ RegisteredOnce' /\ OneCall'
    BY <2>1 DEF Types, RegisteredOnce, OneCall
  <2>3. OnePlace'
    BY <2>1 DEF OnePlace, Told
  <2>4. Calling' /\ Counted'
    BY <2>1 DEF Calling, Counted, Running, Tasks
  <2>5. Ran' /\ PhasesComplete'
    BY <2>1, StillRan DEF Ran
  <2> QED BY <2>2, <2>3, <2>4, <2>5
<1>2. ASSUME NEW c \in calls, CallStep(c) PROVE Inv'
  BY <1>2, AcceptInv, DoTaskInv, EndTaskInv, ShutdownInv, CallReturnsInv, KillReturnsInv DEF CallStep
<1>3. ASSUME NEW w \in Worker, RunWorker(w) \/ CheckRPCs(w) \/ Die(w) \/ Enqueue(w) PROVE Inv'
  BY <1>3, RunWorkerInv, CheckRPCsInv, DieInv, EnqueueInv
<1> QED
  BY <1>1, <1>2, <1>3, ForwardInv, PhaseDoneInv, KillWorkerInv, FinishInv, TakeWorkerInv DEF Next

\* The inductive invariant of the scheduler.
THEOREM ScheduleInvariant == Spec => []Inv
  BY InitInv, ScheduleStep, PTL DEF Spec

\* A worker never has more than one DoTask running, so the log.Fatal of worker.go:44
\* cannot happen, whatever the number of workers and however they fail.
THEOREM OneTaskEach == Spec => []OneTaskPerWorker
<1>1. Inv => OneTaskPerWorker
  BY DEF Inv, Counted, OneTaskPerWorker
<1> QED BY <1>1, ScheduleInvariant, PTL

\* When schedule() returns, every task of its phase was run to its end by a worker.
THEOREM PhasesAreComplete == Spec => []PhasesComplete
<1>1. Inv => PhasesComplete
  BY DEF Inv
<1> QED BY <1>1, ScheduleInvariant, PTL

-----------------------------------------------------------------------------
(* The files. *)

\* Task t of this phase has ended for good: its worker's answer is in, or on its
\* way, and nobody will run it again.
Ended(t) == task[t] = "done" \/ \E c \in calls : c.task = t /\ c.stage = "replied"

\* The files of a task that has ended are complete.
TaskFiles ==
    /\ phase = "mapPhase" => \A t \in 1..NMap : Ended(t) => inter[t] = MapOutput[t]
    /\ phase = "reducePhase" => \A t \in 1..NReduce : Ended(t) => res[t] = ReduceOutput[t]

\* Between the end of a phase and CleanupFiles() all its files are complete.
PhaseFiles ==
    /\ phase # "mapPhase" /\ ~(phase = "done" /\ mrtmp = Absent) => inter = MapOutput
    /\ phase = "finish" \/ (phase = "done" /\ mrtmp # Absent) => res = ReduceOutput

JobInv ==
    /\ Inv /\ TaskFiles /\ PhaseFiles
    /\ inter = [m \in 1..NMap |-> inter[m]] /\ res = [r \in 1..NReduce |-> res[r]]
    /\ phase # "done" => mrtmp = Absent
    /\ mrtmp # Absent => mrtmp = Sequential
    /\ ~fatal

\* The complete files, point by point.
LEMMA OutputIsFunction ==
  /\ MapOutput = [m \in 1..NMap |-> MapOutput[m]]
  /\ ReduceOutput = [r \in 1..NReduce |-> ReduceOutput[r]]
  BY DEF MapOutput, ReduceOutput

\* A step of the job is one of the scheduler, or leaves it alone.
LEMMA JobStepIsStep == [JobNext]_jobVars => [Next]_vars
  BY DEF JobNext, jobVars, Elsewhere, Merge, CleanupFiles, TaskEnds, DiesInTask, DiesIdle, Next, CallStep

\* A step that ends no task and touches no file.
LEMMA FilesKept ==
  ASSUME JobInv, Inv', UNCHANGED <<phase, fileVars>>, \A t \in Nat \ {0} : Ended(t)' => Ended(t)
  PROVE  JobInv'
<1>1. UNCHANGED <<phase, inter, res, mrtmp, fatal>>
  BY DEF fileVars
<1>2. (1..NMap) \subseteq Nat \ {0} /\ (1..NReduce) \subseteq Nat \ {0}
  BY MapReduceAssumption
<1>3. TaskFiles'
  <2>1. ASSUME phase = "mapPhase", NEW t \in 1..NMap, Ended(t)' PROVE inter[t] = MapOutput[t]
    BY <1>2, <2>1 DEF JobInv, TaskFiles
  <2>2. ASSUME phase = "reducePhase", NEW t \in 1..NReduce, Ended(t)' PROVE res[t] = ReduceOutput[t]
    BY <1>2, <2>2 DEF JobInv, TaskFiles
  <2> QED BY <1>1, <2>1, <2>2 DEF TaskFiles
<1>4. PhaseFiles'
  BY <1>1 DEF JobInv, PhaseFiles
<1> QED BY <1>1, <1>3, <1>4 DEF JobInv

\* Steps that leave the tasks alone, and make no call a "replied" one of a task.
LEMMA NothingEnds ==
  ASSUME UNCHANGED task,
         \A c \in calls' : c.stage = "replied" /\ c.task # 0 =>
            \E d \in calls : d.task = c.task /\ d.stage = "replied"
  PROVE  \A t \in Nat \ {0} : Ended(t)' => Ended(t)
  BY DEF Ended

\* The steps that touch no file.
LEMMA ElsewhereKeeps ==
  ASSUME JobInv, Inv', Elsewhere PROVE JobInv'
<1> USE DEF masterVars, chanVars, workerVars
<1>0. UNCHANGED fileVars /\ \A c \in calls : c \in CallRecord
  BY DEF Elsewhere, JobInv, Inv, Types
<1>1. CASE forwardRegistrations
  BY <1>0, <1>1, NothingEnds, FilesKept DEF forwardRegistrations
<1>2. CASE PhaseDone
  <2>1. UNCHANGED <<inter, res, mrtmp, fatal, calls>>
    BY <1>0, <1>2 DEF PhaseDone, fileVars
  <2>2. \A c \in calls : c.task = 0
    BY <1>2 DEF PhaseDone, JobInv, Inv, Calling
  <2>3. CASE phase = "mapPhase"
    <3>1. \A t \in 1..NMap : inter[t] = MapOutput[t]
      BY <1>2, <2>3 DEF PhaseDone, JobInv, TaskFiles, Inv, Calling, Running, Tasks, Ended
    <3>2. inter = MapOutput
      BY <3>1, OutputIsFunction DEF JobInv
    <3>3. phase' = "reducePhase" /\ task' = [t \in 1..NReduce |-> "waiting"]
      BY <1>2, <2>3 DEF PhaseDone, Tasks
    <3>4. \A t \in 1..NReduce : ~Ended(t)'
      BY <2>1, <2>2, <3>3 DEF Ended
    <3>5. mrtmp' = Absent /\ ~fatal'
      BY <2>1, <2>3 DEF JobInv
    <3>6. TaskFiles' /\ PhaseFiles'
      BY <2>1, <3>2, <3>3, <3>4 DEF TaskFiles, PhaseFiles
    <3> QED BY <2>1, <3>3, <3>5, <3>6 DEF JobInv
  <2>4. CASE phase = "reducePhase"
    <3>1. \A t \in 1..NReduce : res[t] = ReduceOutput[t]
      BY <1>2, <2>4 DEF PhaseDone, JobInv, TaskFiles, Inv, Calling, Running, Tasks, Ended
    <3>2. res = ReduceOutput
      BY <3>1, OutputIsFunction DEF JobInv
    <3>3. phase' = "finish"
      BY <1>2, <2>4 DEF PhaseDone
    <3>4. mrtmp' = Absent /\ ~fatal' /\ inter = MapOutput
      BY <2>1, <2>4 DEF JobInv, PhaseFiles
    <3>5. TaskFiles' /\ PhaseFiles'
      BY <2>1, <3>2, <3>3, <3>4 DEF TaskFiles, PhaseFiles
    <3> QED BY <2>1, <3>3, <3>4, <3>5 DEF JobInv
  <2> QED BY <1>2, <2>3, <2>4 DEF PhaseDone, Running
<1>3. CASE KillWorker
  BY <1>0, <1>3, NothingEnds, FilesKept DEF KillWorker, Dialled
<1>4. ASSUME NEW c \in calls, NEW w \in Worker, Accept(w, c) PROVE JobInv'
  <2>1. [c EXCEPT !.stage = "accepted"].stage = "accepted"
    BY <1>0 DEF CallRecord
  <2> QED BY <1>0, <1>4, <2>1, NothingEnds, FilesKept DEF Accept
<1>5. ASSUME NEW c \in calls, DoTask(c) PROVE JobInv'
  <2>1. [c EXCEPT !.stage = "running"].stage = "running"
    BY <1>0 DEF CallRecord
  <2> QED BY <1>0, <1>5, <2>1, NothingEnds, FilesKept DEF DoTask
<1>6. ASSUME NEW c \in calls, Shutdown(c) PROVE JobInv'
  <2>1. [c EXCEPT !.stage = "replied"].task = 0
    BY <1>0, <1>6 DEF CallRecord, Shutdown
  <2> QED BY <1>0, <1>6, <2>1, NothingEnds, FilesKept DEF Shutdown
<1>7. ASSUME NEW c \in calls, CallReturns(c) PROVE JobInv'
  <2>1. \A t \in Nat \ {0} : Ended(t)' => Ended(t)
    <3> SUFFICES ASSUME NEW t \in Nat \ {0}, Ended(t)' PROVE Ended(t)
      OBVIOUS
    <3>1. calls' \subseteq calls /\ task' = [task EXCEPT ![c.task] = Outcome(c)]
      BY <1>7 DEF CallReturns
    <3>2. CASE \E d \in calls' : d.task = t /\ d.stage = "replied"
      BY <3>1, <3>2 DEF Ended
    <3>3. CASE task'[t] = "done" /\ t # c.task
      BY <3>1, <3>3 DEF Ended
    <3>4. CASE task'[t] = "done" /\ t = c.task
      <4>1. task[t] = "done" \/ Outcome(c) = "done"
        BY <3>1, <3>4
      <4> QED BY <3>4, <4>1 DEF Ended, Outcome
    <3> QED BY <3>2, <3>3, <3>4 DEF Ended
  <2> QED BY <1>0, <1>7, <2>1, FilesKept DEF CallReturns
<1>8. ASSUME NEW c \in calls, KillReturns(c) PROVE JobInv'
  BY <1>0, <1>8, NothingEnds, FilesKept DEF KillReturns
<1>9. ASSUME NEW t \in DOMAIN task, TakeWorker(t) PROVE JobInv'
  <2> DEFINE d == [Dialled(Head(registerChan), t) EXCEPT
                      !.stage = IF loop[Head(registerChan)] = "closed" THEN "broken" ELSE @]
  <2>1. d.stage # "replied"
    BY DEF Dialled
  <2>2. calls' = calls \cup {d} /\ task' = [task EXCEPT ![t] = "calling"]
    BY <1>9 DEF TakeWorker
  <2> HIDE DEF d
  <2>3. \A u \in Nat \ {0} : Ended(u)' => Ended(u)
    BY <2>1, <2>2 DEF Ended
  <2> QED BY <1>0, <1>9, <2>3, FilesKept DEF TakeWorker
<1>10. ASSUME NEW w \in Worker, RunWorker(w) PROVE JobInv'
  BY <1>0, <1>10, NothingEnds, FilesKept DEF RunWorker
<1>11. ASSUME NEW w \in Worker, CheckRPCs(w) PROVE JobInv'
  <2>1. \A c \in calls' : c.stage = "replied" => c \in calls
    <3>1. \A c \in calls : [c EXCEPT !.stage = "broken"].stage = "broken"
      BY <1>0 DEF CallRecord
    <3> QED BY <1>11, <3>1 DEF CheckRPCs
  <2> QED BY <1>0, <1>11, <2>1, NothingEnds, FilesKept DEF CheckRPCs
<1>12. ASSUME NEW w \in Worker, Enqueue(w) PROVE JobInv'
  BY <1>0, <1>12, NothingEnds, FilesKept DEF Enqueue
<1> QED
  BY <1>1, <1>2, <1>3, <1>4, <1>5, <1>6, <1>7, <1>8, <1>9, <1>10, <1>11, <1>12 DEF Elsewhere

-----------------------------------------------------------------------------
(* A task that ends, and one that ends with its worker. *)

\* The image of a finite set.
LEMMA ImageFinite ==
  ASSUME NEW S, IsFiniteSet(S), NEW T, NEW f, \A x \in T : \E i \in S : x = f[i]
  PROVE  IsFiniteSet(T)
<1> DEFINE U == {i \in S : f[i] \in T}
           g == [i \in U |-> f[i]]
<1>1. IsFiniteSet(U)
  BY FS_Subset
<1>2. g \in Surjection(U, T)
  BY DEF Surjection
<1> QED BY <1>1, <1>2, FS_Surjection

\* What map task m is to write.
LEMMA MapOutputFacts ==
  ASSUME NEW m \in 1..NMap, NEW r \in 1..NReduce
  PROVE  /\ Len(Input[m]) \in Nat /\ DOMAIN Input[m] = 1..Len(Input[m])
         /\ MapOutput[m][r] = SetToBag({Pairs(m)[i] : i \in {j \in 1..Len(Input[m]) : Partition(Input[m][j]) = r}})
         /\ IsFiniteSet(DOMAIN MapOutput[m][r])
<1> DEFINE n == Len(Input[m])
           J == {j \in 1..n : Partition(Input[m][j]) = r}
           S == {Pairs(m)[i] : i \in J}
<1>1. n \in Nat /\ DOMAIN Input[m] = 1..n
  BY FilesAssumption
<1>2. MapOutput[m][r] = SetToBag(S)
  BY DEF MapOutput, InPartition
<1>3. IsFiniteSet(1..n)
  <2>1. 1 \in Int /\ n \in Int
    BY <1>1
  <2> HIDE DEF n
  <2> QED BY <2>1, FS_Interval
<1>4. IsFiniteSet(J)
  <2>1. J \in SUBSET (1..n)
    OBVIOUS
  <2> HIDE DEF J
  <2> QED BY <1>3, <2>1, FS_Subset
<1>5. IsFiniteSet(S)
  <2> DEFINE f == Pairs(m)
  <2>1. \A x \in S : \E i \in J : x = f[i]
    OBVIOUS
  <2> HIDE DEF S, J, f
  <2> QED BY <1>4, <2>1, ImageFinite
<1>6. DOMAIN SetToBag(S) = S
  <2> HIDE DEF S
  <2> QED BY DEF SetToBag
<1> QED BY <1>1, <1>2, <1>5, <1>6

\* What reduce task r is to read.
LEMMA CollectedFacts ==
  ASSUME NEW r \in 1..NReduce
  PROVE  /\ DOMAIN Collected(MapOutput, r) = UNION {DOMAIN MapOutput[m][r] : m \in 1..NMap}
         /\ Cardinality(Keys(Collected(MapOutput, r))) \in Nat
         /\ IsFiniteSet(Keys(Collected(MapOutput, r)))
<1> DEFINE D(m) == DOMAIN MapOutput[m][r]
           found == {m \in 1..NMap : MapOutput[m][r] # Absent}
           P == DOMAIN Collected(MapOutput, r)
           K == Keys(Collected(MapOutput, r))
<1>1. found = 1..NMap
  BY AbsentAssumption
<1>2. P = UNION {D(m) : m \in found}
  BY DEF Collected
<1>3. P = UNION {D(m) : m \in 1..NMap}
  BY <1>1, <1>2
<1>4. IsFiniteSet(1..NMap)
  <2>1. 1 \in Int /\ NMap \in Int
    BY MapReduceAssumption
  <2> QED BY <2>1, FS_Interval
<1>5. IsFiniteSet(P)
  <2> DEFINE F == {D(m) : m \in 1..NMap}
             f == [m \in 1..NMap |-> D(m)]
  <2>1. \A X \in F : \E m \in 1..NMap : X = f[m]
    OBVIOUS
  <2>2. \A X \in F : IsFiniteSet(X)
    BY MapOutputFacts
  <2> HIDE DEF F, f, D, P
  <2>3. IsFiniteSet(F)
    BY <1>4, <2>1, ImageFinite
  <2>4. IsFiniteSet(UNION F)
    BY <2>2, <2>3, FS_UNION
  <2> QED BY <1>3, <2>4 DEF F
<1>6. IsFiniteSet(K)
  <2> DEFINE f == [kv \in P |-> kv.Key]
  <2>1. \A x \in K : \E kv \in P : x = f[kv]
    BY DEF Keys
  <2> HIDE DEF f, P, K
  <2> QED BY <1>5, <2>1, ImageFinite
<1> HIDE DEF K
<1>7. Cardinality(K) \in Nat
  BY <1>6, FS_CardinalityType
<1> QED BY <1>3, <1>6, <1>7 DEF K

\* All operations of a task make its files complete, whatever they were before.
LEMMA TaskCompletes ==
  ASSUME JobInv, Running, NEW t \in Tasks(phase), TaskWrites(t, Ops(t))
  PROVE  /\ phase = "mapPhase" => inter' = [inter EXCEPT ![t] = MapOutput[t]] /\ UNCHANGED res
         /\ phase = "reducePhase" => res' = [res EXCEPT ![t] = ReduceOutput[t]] /\ UNCHANGED inter
<1>1. CASE phase = "mapPhase"
  <2>1. t \in 1..NMap
    BY <1>1 DEF Tasks
  <2>2. Len(Input[t]) \in Nat
    BY <2>1, FilesAssumption
  <2> DEFINE k == MapOps(t)
  <2>3. k - NReduce = Len(Input[t]) /\ \A r \in 1..NReduce : ~(k < r)
    BY <2>2, MapReduceAssumption DEF MapOps
  <2>4. MapFiles(t, k) = [r \in 1..NReduce |-> InPartition(t, r, Len(Input[t]))]
    <3> HIDE DEF k
    <3> QED BY <2>3 DEF MapFiles, Create
  <2>5. MapOutput[t] = [r \in 1..NReduce |-> InPartition(t, r, Len(Input[t]))]
    BY <2>1 DEF MapOutput
  <2>6. MapFiles(t, k) = MapOutput[t]
    BY <2>4, <2>5
  <2> QED BY <1>1, <2>6 DEF TaskWrites, Ops
<1>2. CASE phase = "reducePhase"
  <2>1. t \in 1..NReduce /\ inter = MapOutput
    BY <1>2 DEF Tasks, JobInv, PhaseFiles
  <2> DEFINE pairs == Collected(MapOutput, t)
             n == Cardinality(Keys(pairs))
  <2>2. n \in Nat
    BY <2>1, CollectedFacts
  <2> HIDE DEF n
  <2>3. 1 + n # 0 /\ (1 + n) - 1 = n
    BY <2>2
  <2>4. ReduceOps(t) = 1 + n
    BY <2>1 DEF ReduceOps, n
  <2>5. ReduceFile(t, 1 + n) = Reduced(pairs, n)
    BY <2>1, <2>3 DEF ReduceFile
  <2>6. ReduceOutput[t] = Reduced(pairs, n)
    BY <2>1 DEF ReduceOutput, n
  <2> QED BY <1>2, <2>4, <2>5, <2>6 DEF TaskWrites, Ops
<1> QED BY <1>1, <1>2

\* A task that is run to its end leaves complete files, and the others alone.
LEMMA TaskEndsKeeps ==
  ASSUME JobInv, Inv', NEW c \in calls, TaskEnds(c) PROVE JobInv'
<1> DEFINE t == c.task
           d == [c EXCEPT !.stage = "replied"]
<1>1. /\ UNCHANGED <<phase, task, mrtmp, fatal>> /\ TaskWrites(t, Ops(t))
      /\ calls' = (calls \ {c}) \cup {d}
  BY DEF TaskEnds, EndTask, masterVars, chanVars
<1>2. c \in CallRecord /\ d.task = t
  BY DEF JobInv, Inv, Types, CallRecord
<1>3. IF t = 0 THEN ~Running ELSE Running /\ t \in Tasks(phase) /\ task[t] = "calling"
  BY DEF JobInv, Inv, Calling
<1> HIDE DEF d
<1>4. CASE t = 0
  <2>1. phase # "mapPhase" /\ phase # "reducePhase"
    BY <1>3, <1>4 DEF Running
  <2>2. UNCHANGED inter /\ res' = [res EXCEPT ![0] = ReduceFile(0, Ops(0))]
    BY <1>1, <1>4, <2>1 DEF TaskWrites
  <2>3. 0 \notin 1..NReduce
    OBVIOUS
  <2>4. UNCHANGED res
    BY <2>2, <2>3 DEF JobInv
  <2>5. TaskFiles' /\ PhaseFiles'
    BY <1>1, <2>1, <2>2, <2>4 DEF JobInv, TaskFiles, PhaseFiles
  <2> QED BY <1>1, <2>2, <2>4, <2>5 DEF JobInv
<1>5. CASE t # 0
  <2>1. Running /\ t \in Tasks(phase)
    BY <1>3, <1>5
  <2>2. \A u : u # t /\ Ended(u)' => Ended(u)
    BY <1>1, <1>2 DEF Ended
  <2>3. mrtmp' = Absent /\ ~fatal'
    BY <1>1, <2>1 DEF JobInv, Running
  <2>4. CASE phase = "mapPhase"
    <3>1. inter' = [inter EXCEPT ![t] = MapOutput[t]] /\ UNCHANGED res
      BY <1>1, <2>1, <2>4, TaskCompletes
    <3>2. inter' = [m \in 1..NMap |-> inter'[m]] /\ \A u \in 1..NMap : Ended(u)' => inter'[u] = MapOutput[u]
      BY <2>2, <2>4, <3>1 DEF JobInv, TaskFiles
    <3>3. TaskFiles' /\ PhaseFiles'
      BY <1>1, <2>3, <2>4, <3>2 DEF TaskFiles, PhaseFiles
    <3> QED BY <1>1, <2>3, <2>4, <3>1, <3>2, <3>3 DEF JobInv
  <2>5. CASE phase = "reducePhase"
    <3>1. res' = [res EXCEPT ![t] = ReduceOutput[t]] /\ UNCHANGED inter
      BY <1>1, <2>1, <2>5, TaskCompletes
    <3>2. res' = [r \in 1..NReduce |-> res'[r]] /\ \A u \in 1..NReduce : Ended(u)' => res'[u] = ReduceOutput[u]
      BY <2>2, <2>5, <3>1 DEF JobInv, TaskFiles
    <3>3. inter = MapOutput
      BY <2>5 DEF JobInv, PhaseFiles
    <3>4. TaskFiles' /\ PhaseFiles'
      BY <1>1, <2>3, <2>5, <3>1, <3>2, <3>3 DEF TaskFiles, PhaseFiles
    <3> QED BY <1>1, <2>3, <2>5, <3>1, <3>2, <3>4 DEF JobInv
  <2> QED BY <2>1, <2>4, <2>5 DEF Running
<1> QED BY <1>4, <1>5

\* A worker that dies in a task spoils the files of that task only, and the task
\* has not ended: its call was the only one for it.
LEMMA DiesInTaskKeeps ==
  ASSUME JobInv, Inv', NEW w \in Worker, NEW c \in calls, DiesInTask(w, c) PROVE JobInv'
<1> DEFINE t == c.task
<1>1. /\ UNCHANGED <<phase, task, mrtmp, fatal>>
      /\ calls' = {IF d.srv = w THEN [d EXCEPT !.stage = "broken"] ELSE d : d \in calls}
      /\ c.srv = w
  BY DEF DiesInTask, Die, masterVars, chanVars
<1>2. \E k \in 0..Ops(t) : TaskWrites(t, k)
  BY DEF DiesInTask
<1>3. \A d \in calls : d \in CallRecord
  BY DEF JobInv, Inv, Types
<1>4. \A d \in calls : [d EXCEPT !.stage = "broken"].stage = "broken"
  BY <1>3 DEF CallRecord
<1>5. \A e \in calls' : e.stage = "replied" => e \in calls /\ e.srv # w
  BY <1>1, <1>4
<1>6. IF t = 0 THEN ~Running ELSE Running /\ t \in Tasks(phase) /\ task[t] = "calling"
  BY DEF JobInv, Inv, Calling
<1>7. \A e \in calls : e.task = t => e = c
  BY DEF JobInv, Inv, OneCall
<1>8. \A u : Ended(u)' => Ended(u)
  BY <1>1, <1>5 DEF Ended
<1>9. CASE t = 0
  <2>1. phase # "mapPhase" /\ phase # "reducePhase"
    BY <1>6, <1>9 DEF Running
  <2>2. PICK k : UNCHANGED inter /\ res' = [res EXCEPT ![0] = ReduceFile(0, k)]
    BY <1>2, <1>9, <2>1 DEF TaskWrites
  <2>3. 0 \notin 1..NReduce
    OBVIOUS
  <2>4. UNCHANGED res
    BY <2>2, <2>3 DEF JobInv
  <2>5. TaskFiles' /\ PhaseFiles'
    BY <1>1, <2>1, <2>2, <2>4 DEF JobInv, TaskFiles, PhaseFiles
  <2> QED BY <1>1, <2>2, <2>4, <2>5 DEF JobInv
<1>10. CASE t # 0
  <2>1. Running /\ t \in Tasks(phase) /\ task[t] = "calling"
    BY <1>6, <1>10
  <2>2. ~Ended(t)'
    BY <1>1, <1>5, <1>7, <2>1 DEF Ended
  <2>3. mrtmp' = Absent /\ ~fatal'
    BY <1>1, <2>1 DEF JobInv, Running
  <2>4. CASE phase = "mapPhase"
    <3>1. PICK k : inter' = [inter EXCEPT ![t] = MapFiles(t, k)] /\ UNCHANGED res
      BY <1>2, <2>4 DEF TaskWrites
    <3>2. inter' = [m \in 1..NMap |-> inter'[m]] /\ \A u \in 1..NMap : u # t => inter'[u] = inter[u]
      BY <3>1 DEF JobInv
    <3>3. \A u \in 1..NMap : Ended(u)' => inter'[u] = MapOutput[u]
      BY <1>8, <2>2, <2>4, <3>2 DEF JobInv, TaskFiles
    <3>4. TaskFiles' /\ PhaseFiles'
      BY <1>1, <2>3, <2>4, <3>3 DEF TaskFiles, PhaseFiles
    <3> QED BY <1>1, <2>3, <2>4, <3>1, <3>2, <3>4 DEF JobInv
  <2>5. CASE phase = "reducePhase"
    <3>1. PICK k : res' = [res EXCEPT ![t] = ReduceFile(t, k)] /\ UNCHANGED inter
      BY <1>2, <2>5 DEF TaskWrites
    <3>2. res' = [r \in 1..NReduce |-> res'[r]] /\ \A u \in 1..NReduce : u # t => res'[u] = res[u]
      BY <3>1 DEF JobInv
    <3>3. \A u \in 1..NReduce : Ended(u)' => res'[u] = ReduceOutput[u]
      BY <1>8, <2>2, <2>5, <3>2 DEF JobInv, TaskFiles
    <3>4. inter = MapOutput
      BY <2>5 DEF JobInv, PhaseFiles
    <3>5. TaskFiles' /\ PhaseFiles'
      BY <1>1, <2>3, <2>5, <3>1, <3>3, <3>4 DEF TaskFiles, PhaseFiles
    <3> QED BY <1>1, <2>3, <2>5, <3>1, <3>2, <3>5 DEF JobInv
  <2> QED BY <2>1, <2>4, <2>5 DEF Running
<1> QED BY <1>9, <1>10

-----------------------------------------------------------------------------
(* What Sequential() computes. *)

IsPair(kv, m, i) == kv = [Key |-> Input[m][i], Value |-> <<m, i>>]

\* The pairs of a file.
LEMMA PairFacts ==
  ASSUME NEW m \in 1..NMap, NEW i \in 1..Len(Input[m])
  PROVE  /\ IsPair(Pairs(m)[i], m, i)
         /\ Input[m][i] \in DOMAIN ihash /\ Input[m][i] \in Nat
         /\ Partition(Input[m][i]) \in 1..NReduce
<1>1. Input[m] \in Seq(DOMAIN ihash)
  BY FilesAssumption
<1>2. DOMAIN Input[m] = 1..Len(Input[m]) /\ Input[m][i] \in DOMAIN ihash
  BY <1>1
<1>3. Input[m][i] \in Nat /\ ihash[Input[m][i]] \in Nat
  BY <1>2, FilesAssumption
<1>4. \A n \in Nat : 1 + (n % NReduce) \in 1..NReduce
  BY MapReduceAssumption
<1> QED BY <1>2, <1>3, <1>4 DEF IsPair, Pairs, Partition

\* The pairs that reduce task r reads, each of them once.
LEMMA CollectedOnce ==
  ASSUME NEW r \in 1..NReduce
  PROVE  /\ \A kv : kv \in DOMAIN Collected(MapOutput, r) <=>
              \E m \in 1..NMap : \E i \in 1..Len(Input[m]) :
                  IsPair(kv, m, i) /\ Partition(Input[m][i]) = r
         /\ \A kv \in DOMAIN Collected(MapOutput, r) : Collected(MapOutput, r)[kv] = 1
<1> DEFINE P == DOMAIN Collected(MapOutput, r)
           D(m) == DOMAIN MapOutput[m][r]
<1>1. ASSUME NEW m \in 1..NMap, NEW kv
      PROVE  /\ kv \in D(m) <=> \E i \in 1..Len(Input[m]) : IsPair(kv, m, i) /\ Partition(Input[m][i]) = r
             /\ kv \in D(m) => MapOutput[m][r][kv] = 1
  <2> DEFINE J == {j \in 1..Len(Input[m]) : Partition(Input[m][j]) = r}
             S == {Pairs(m)[i] : i \in J}
  <2>1. MapOutput[m][r] = SetToBag(S)
    BY MapOutputFacts
  <2>2. kv \in S <=> \E i \in 1..Len(Input[m]) : IsPair(kv, m, i) /\ Partition(Input[m][i]) = r
    BY PairFacts DEF IsPair
  <2> HIDE DEF S
  <2>3. DOMAIN SetToBag(S) = S /\ (kv \in S => SetToBag(S)[kv] = 1)
    BY DEF SetToBag
  <2> QED BY <2>1, <2>2, <2>3
<1>2. P = UNION {D(m) : m \in 1..NMap}
  BY CollectedFacts
<1>3. \A kv : kv \in P <=> \E m \in 1..NMap : kv \in D(m)
  BY <1>2
<1>4. ASSUME NEW kv \in P PROVE Collected(MapOutput, r)[kv] = 1
  <2> DEFINE found == {m \in 1..NMap : MapOutput[m][r] # Absent}
             With == {m \in found : kv \in D(m)}
             Reads == UNION {{m} \X (1..MapOutput[m][r][kv]) : m \in With}
  <2>1. Collected(MapOutput, r)[kv] = Cardinality(Reads)
    <3>1. P = UNION {DOMAIN MapOutput[m][r] : m \in found}
      BY AbsentAssumption, <1>2
    <3> QED BY <3>1 DEF Collected
  <2>2. PICK n \in 1..NMap : kv \in D(n)
    BY <1>3
  <2>3. kv.Value[1] = n
    BY <1>1, <2>2 DEF IsPair
  <2>4. \A m \in 1..NMap : kv \in D(m) => kv.Value[1] = m
    BY <1>1 DEF IsPair
  <2>5. With = {n}
    BY <2>2, <2>3, <2>4, AbsentAssumption
  <2>6. MapOutput[n][r][kv] = 1
    BY <1>1, <2>2
  <2>7. Reads = {<<n, 1>>}
    <3> HIDE DEF With, D
    <3>1. Reads = {n} \X (1..1)
      BY <2>5, <2>6
    <3>2. 1..1 = {1}
      OBVIOUS
    <3> QED BY <3>1, <3>2
  <2>8. Cardinality({<<n, 1>>}) = 1
    BY FS_Singleton
  <2> QED BY <2>1, <2>7, <2>8
<1>5. \A kv : kv \in P <=>
              \E m \in 1..NMap : \E i \in 1..Len(Input[m]) :
                  IsPair(kv, m, i) /\ Partition(Input[m][i]) = r
  BY <1>1, <1>3
<1> QED BY <1>4, <1>5

\* The file of reduce task r: every key of its partition with all its values.
LEMMA ReduceOutputFacts ==
  ASSUME NEW r \in 1..NReduce
  PROVE  /\ DOMAIN ReduceOutput[r] = Keys(Collected(MapOutput, r))
         /\ \A key \in DOMAIN ReduceOutput[r] :
              ReduceOutput[r][key]
                = SetToBag({kv.Value : kv \in {p \in DOMAIN Collected(MapOutput, r) : p.Key = key}})
<1> DEFINE pairs == Collected(MapOutput, r)
           K == Keys(pairs)
           L(x) == {y \in K : y < x}
           V(key) == {kv.Value : kv \in {p \in DOMAIN pairs : p.Key = key}}
<1>1. IsFiniteSet(K) /\ Cardinality(K) \in Nat
  BY CollectedFacts
<1>2. \A kv \in DOMAIN pairs : kv = [Key |-> kv.Key, Value |-> kv.Value] /\ kv.Key \in Nat
  BY CollectedOnce, PairFacts DEF IsPair
<1>3. K \subseteq Nat
  BY <1>2 DEF Keys
<1>4. ASSUME NEW x \in K PROVE Cardinality(L(x)) < Cardinality(K)
  <2>1. L(x) \in SUBSET K /\ x \notin L(x)
    BY <1>3
  <2> DEFINE M == L(x)
  <2> HIDE DEF L, K
  <2>2. IsFiniteSet(M) /\ Cardinality(M) <= Cardinality(K) /\ Cardinality(M) # Cardinality(K)
    <3> HIDE DEF M
    <3>1. M \in SUBSET K /\ M # K
      BY <2>1 DEF M
    <3> QED BY <1>1, <3>1, FS_Subset
  <2>3. Cardinality(M) \in Nat
    BY <2>2, FS_CardinalityType
  <2> QED BY <1>1, <2>2, <2>3
<1>5. {x \in K : Cardinality(L(x)) < Cardinality(K)} = K
  BY <1>4
<1>6. ReduceOutput[r] = [key \in {x \in K : Cardinality(L(x)) < Cardinality(K)} |-> Values(pairs, key)]
  BY DEF ReduceOutput, Reduced
<1>7. ReduceOutput[r] = [key \in K |-> Values(pairs, key)]
  BY <1>5, <1>6
<1>8. ASSUME NEW key \in K PROVE Values(pairs, key) = SetToBag(V(key))
  <2>1. Values(pairs, key) = [v \in V(key) |-> pairs[[Key |-> key, Value |-> v]]]
    BY DEF Values
  <2>2. ASSUME NEW v \in V(key) PROVE pairs[[Key |-> key, Value |-> v]] = 1
    <3>1. PICK kv \in DOMAIN pairs : kv.Key = key /\ kv.Value = v
      OBVIOUS
    <3>2. kv = [Key |-> key, Value |-> v]
      BY <1>2, <3>1
    <3> QED BY <3>2, CollectedOnce
  <2> HIDE DEF V, pairs
  <2> QED BY <2>1, <2>2 DEF SetToBag
<1> HIDE DEF K, pairs
<1> QED BY <1>7, <1>8 DEF K, pairs

\* Sequential() makes every key of the input with all its values: a key is in the
\* file of one partition only, so that merge() drops nothing.
LEMMA SequentialIsReference == Sequential = Reference
<1> DEFINE P(r) == DOMAIN Collected(MapOutput, r)
           all == UNION {{Pairs(m)[i] : i \in DOMAIN Input[m]} : m \in 1..NMap}
           keys == {kv.Key : kv \in all}
           bag(key) == SetToBag({kv.Value : kv \in {p \in all : p.Key = key}})
           With(key) == {r \in 1..NReduce : key \in DOMAIN ReduceOutput[r]}
           Last(key) == CHOOSE r \in With(key) : \A q \in With(key) : q <= r
<1>1. \A kv : kv \in all <=> \E m \in 1..NMap : \E i \in 1..Len(Input[m]) : IsPair(kv, m, i)
  <2>1. \A m \in 1..NMap : DOMAIN Input[m] = 1..Len(Input[m])
    BY FilesAssumption
  <2>2. \A kv : kv \in all <=> \E m \in 1..NMap : \E i \in 1..Len(Input[m]) : kv = Pairs(m)[i]
    BY <2>1
  <2>3. ASSUME NEW m \in 1..NMap, NEW i \in 1..Len(Input[m]), NEW kv
        PROVE  kv = Pairs(m)[i] <=> IsPair(kv, m, i)
    BY PairFacts DEF IsPair
  <2> HIDE DEF all
  <2> QED BY <2>2, <2>3
<1>2. \A kv \in all : Partition(kv.Key) \in 1..NReduce
  <2> HIDE DEF all
  <2> QED BY <1>1, PairFacts DEF IsPair
<1>3. ASSUME NEW r \in 1..NReduce, NEW kv PROVE kv \in P(r) <=> kv \in all /\ Partition(kv.Key) = r
  <2>1. kv \in P(r) <=> \E m \in 1..NMap : \E i \in 1..Len(Input[m]) :
                            IsPair(kv, m, i) /\ Partition(Input[m][i]) = r
    BY CollectedOnce
  <2>2. \A m, i : IsPair(kv, m, i) => kv.Key = Input[m][i]
    BY DEF IsPair
  <2> HIDE DEF all, P
  <2> QED BY <1>1, <2>1, <2>2
<1> HIDE DEF all
<1>4. ASSUME NEW r \in 1..NReduce, NEW key
      PROVE  key \in DOMAIN ReduceOutput[r] <=> key \in keys /\ Partition(key) = r
  <2>1. DOMAIN ReduceOutput[r] = {kv.Key : kv \in P(r)}
    BY ReduceOutputFacts DEF Keys
  <2> HIDE DEF P
  <2> QED BY <1>3, <2>1
<1>5. UNION {DOMAIN ReduceOutput[r] : r \in 1..NReduce} = keys
  <2>1. \A key \in keys : Partition(key) \in 1..NReduce
    BY <1>2
  <2> HIDE DEF keys
  <2> QED BY <1>4, <2>1
<1>6. ASSUME NEW key \in keys PROVE ReduceOutput[Last(key)][key] = bag(key)
  <2> DEFINE r == Partition(key)
  <2>1. r \in 1..NReduce
    BY <1>2
  <2>2. With(key) = {r}
    <3> HIDE DEF keys
    <3> QED BY <1>4, <2>1
  <2>3. Last(key) = r
    <3>1. r <= r
      BY <2>1
    <3> HIDE DEF With, r
    <3> QED BY <2>2, <3>1
  <2>4. {p \in P(r) : p.Key = key} = {p \in all : p.Key = key}
    BY <1>3, <2>1
  <2>5. key \in DOMAIN ReduceOutput[r]
    BY <1>4, <2>1
  <2>6. ReduceOutput[r][key] = SetToBag({kv.Value : kv \in {p \in P(r) : p.Key = key}})
    BY <2>1, <2>5, ReduceOutputFacts
  <2>7. ReduceOutput[r][key] = bag(key)
    BY <2>4, <2>6
  <2> HIDE DEF r, Last, bag
  <2> QED BY <2>3, <2>7
<1>7. Sequential = [key \in UNION {DOMAIN ReduceOutput[r] : r \in 1..NReduce} |-> ReduceOutput[Last(key)][key]]
  BY DEF Sequential, Merged
<1>8. Reference = [key \in keys |-> bag(key)]
  BY DEF Reference, all
<1> HIDE DEF keys, Last, bag
<1> QED BY <1>5, <1>6, <1>7, <1>8

-----------------------------------------------------------------------------
(* The job. *)

\* A job begins with no task run, whatever files are there.
LEMMA InitJobInv == JobInit => JobInv
<1> SUFFICES ASSUME JobInit PROVE JobInv
  OBVIOUS
<1>1. Inv
  BY InitInv DEF JobInit
<1>2. phase = "mapPhase" /\ task = [t \in 1..NMap |-> "waiting"] /\ calls = {}
      /\ mrtmp = Absent /\ ~fatal
  BY DEF JobInit, Init, Tasks
<1>3. TaskFiles /\ PhaseFiles
  BY <1>2 DEF TaskFiles, PhaseFiles, Ended
<1>4. inter = [m \in 1..NMap |-> inter[m]] /\ res = [r \in 1..NReduce |-> res[r]]
  BY DEF JobInit
<1> QED BY <1>1, <1>2, <1>3, <1>4 DEF JobInv

\* Every step keeps the invariant of the files.
LEMMA JobStep == JobInv /\ [JobNext]_jobVars => JobInv'
<1> SUFFICES ASSUME JobInv, [JobNext]_jobVars PROVE JobInv'
  OBVIOUS
<1>0. Inv'
  BY JobStepIsStep, ScheduleStep DEF JobInv
<1>1. CASE UNCHANGED jobVars
  <2>1. UNCHANGED <<phase, task, calls, fileVars>>
    BY <1>1 DEF jobVars, vars, masterVars, chanVars
  <2> QED BY <1>0, <2>1, NothingEnds, FilesKept
<1>2. CASE Elsewhere
  BY <1>0, <1>2, ElsewhereKeeps
<1>3. CASE Merge
  <2>1. /\ phase = "finish" /\ phase' = "done" /\ UNCHANGED <<inter, res, calls>>
        /\ IF \E r \in 1..NReduce : res[r] = Absent
           THEN fatal' = TRUE /\ UNCHANGED mrtmp
           ELSE mrtmp' = Merged(res) /\ UNCHANGED fatal
    BY <1>3 DEF Merge, Finish
  <2>2. res = ReduceOutput /\ inter = MapOutput
    BY <2>1 DEF JobInv, PhaseFiles
  <2>3. ~fatal' /\ mrtmp' = Sequential
    BY <2>1, <2>2, AbsentAssumption DEF JobInv, Sequential
  <2>4. TaskFiles' /\ PhaseFiles'
    BY <2>1, <2>2 DEF TaskFiles, PhaseFiles
  <2> QED BY <1>0, <2>1, <2>3, <2>4 DEF JobInv
<1>4. CASE CleanupFiles
  <2>1. phase = "done" /\ mrtmp # Absent /\ UNCHANGED phase /\ mrtmp' = Absent
    BY <1>4 DEF CleanupFiles, vars, masterVars
  <2>2. res = ReduceOutput /\ inter = MapOutput
    BY <2>1 DEF JobInv, PhaseFiles
  <2>3. ~fatal'
    BY <1>4, <2>2, AbsentAssumption DEF JobInv, CleanupFiles
  <2>4. inter' = [m \in 1..NMap |-> inter'[m]] /\ res' = [r \in 1..NReduce |-> res'[r]]
    BY <1>4 DEF CleanupFiles
  <2>5. TaskFiles' /\ PhaseFiles'
    BY <2>1 DEF TaskFiles, PhaseFiles
  <2> QED BY <1>0, <2>1, <2>3, <2>4, <2>5 DEF JobInv
<1>5. CASE \E c \in calls : TaskEnds(c)
  BY <1>0, <1>5, TaskEndsKeeps
<1>6. CASE \E c \in calls : \E w \in Worker : DiesInTask(w, c)
  BY <1>0, <1>6, DiesInTaskKeeps
<1>7. ASSUME NEW w \in Worker, DiesIdle(w) PROVE JobInv'
  <2>1. /\ UNCHANGED <<phase, task, fileVars>>
        /\ calls' = {IF d.srv = w THEN [d EXCEPT !.stage = "broken"] ELSE d : d \in calls}
    BY <1>7 DEF DiesIdle, Die, masterVars, chanVars
  <2>2. \A d \in calls : [d EXCEPT !.stage = "broken"].stage = "broken"
    BY DEF JobInv, Inv, Types, CallRecord
  <2>3. \A e \in calls' : e.stage = "replied" => e \in calls
    BY <2>1, <2>2
  <2> QED BY <1>0, <2>1, <2>3, NothingEnds, FilesKept
<1> QED BY <1>1, <1>2, <1>3, <1>4, <1>5, <1>6, <1>7 DEF JobNext

\* The inductive invariant of the job: a task that has ended has complete files.
THEOREM JobInvariant == JobSpec => []JobInv
  BY InitJobInv, JobStep, PTL DEF JobSpec

\* Whatever the input, the number of tasks and workers and the way they die, the
\* distributed job computes what Sequential() computes: every key of the input,
\* every value of it once (doMap, doReduce, merge).
THEOREM ResultIsRight == JobSpec => []ResultRight
<1>1. JobInv => ResultRight
  BY SequentialIsReference DEF JobInv, ResultRight
<1> QED BY <1>1, JobInvariant, PTL

\* Neither merge() nor removeFile() ever finds a file missing.
THEOREM FilesAreThere == JobSpec => []NoFileMissing
<1>1. JobInv => NoFileMissing
  BY DEF JobInv, NoFileMissing
<1> QED BY <1>1, JobInvariant, PTL

\* What schedule() promises holds of the job with its files too.
THEOREM JobKeepsSchedule == JobSpec => [](OneTaskPerWorker /\ PhasesComplete)
<1>1. JobInv => OneTaskPerWorker /\ PhasesComplete
  BY DEF JobInv, Inv, Counted, OneTaskPerWorker
<1> QED BY <1>1, JobInvariant, PTL

=============================================================================
