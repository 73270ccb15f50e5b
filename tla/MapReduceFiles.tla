--------------------------- MODULE MapReduceFiles ---------------------------
(***************************************************************************)
(* What the tasks of MapReduce do to the shared file system: doMap()       *)
(* partitions the pairs of one input file into intermediate files,         *)
(* doReduce() collects one partition of all of them, merge() makes the     *)
(* result.  Every step is a step of MapReduce with its effect on the files.*)
(*                                                                         *)
(* The user's functions are kept apart: mapF turns file m into the pairs   *)
(* of Input[m], with a value of its own for each, and the value reduceF    *)
(* computes is the bag of values it was given (sort.Slice is not stable,   *)
(* so their order is nobody's promise).  An intermediate file is therefore *)
(* the bag of its pairs, and a result file, which has a record per key, a  *)
(* function from keys to values.  An Encode() is one write().              *)
(***************************************************************************)
EXTENDS MapReduce, Bags

CONSTANTS
    Input,   \* Input[m]: the keys of the pairs mapF makes of file m, in order
    ihash,   \* ihash[key]
    Absent   \* stands for the content of a file that does not exist

ASSUME FilesAssumption ==
    /\ DOMAIN Input = 1..NMap
    /\ \A m \in 1..NMap : Input[m] \in Seq(DOMAIN ihash)
    /\ \A key \in DOMAIN ihash : key \in Nat /\ ihash[key] \in Nat

VARIABLES
    inter,  \* inter[m][r]: the file reduceName(jobName, m, r)
    res,    \* res[r]: the file mergeName(jobName, r)
    mrtmp,  \* the result, file "mrtmp." + jobName
    fatal   \* the master has reached log.Fatal

fileVars == <<inter, res, mrtmp, fatal>>
jobVars  == <<vars, fileVars>>

-----------------------------------------------------------------------------
(* doMap(). *)

Pairs(m) == [i \in DOMAIN Input[m] |-> [Key |-> Input[m][i], Value |-> <<m, i>>]]

Partition(key) == 1 + (ihash[key] % NReduce)

\* Of the first n pairs of file m, those of partition r.
InPartition(m, r, n) ==
    SetToBag({Pairs(m)[i] : i \in {j \in 1..n : Partition(Input[m][j]) = r}})

Appends(old, pairs) == (IF old = Absent THEN EmptyBag ELSE old) (+) pairs   \* mutant: O_APPEND
\* os.Create() empties a file that exists.
Create(old, pairs) == pairs

MapFilesLazily(m, k) ==   \* mutant: a file is created with its first pair
    [r \in 1..NReduce |->
        LET pairs == InPartition(m, r, k - NReduce)
        IN  IF pairs = EmptyBag THEN inter[m][r] ELSE Create(inter[m][r], pairs)]
\* The files of map task m after the first k of its file operations: it creates
\* its NReduce files one by one, then writes its pairs one by one.
MapFiles(m, k) ==
    [r \in 1..NReduce |->
        IF k < r THEN inter[m][r] ELSE Create(inter[m][r], InPartition(m, r, k - NReduce))]

MapOps(m) == NReduce + Len(Input[m])

-----------------------------------------------------------------------------
(* doReduce(). *)

\* The pairs of partition r in all intermediate files, each as often as it was
\* read; a missing file counts as an empty one.
Collected(files, r) ==
    LET found == {m \in 1..NMap : files[m][r] # Absent}
        With(kv) == {m \in found : kv \in DOMAIN files[m][r]}
        Reads(kv) == UNION {{m} \X (1..files[m][r][kv]) : m \in With(kv)}
    IN  [kv \in UNION {DOMAIN files[m][r] : m \in found} |-> Cardinality(Reads(kv))]

Keys(pairs) == {kv.Key : kv \in DOMAIN pairs}

\* The values one call of reduceF gets.
Values(pairs, key) ==
    [v \in {kv.Value : kv \in {p \in DOMAIN pairs : p.Key = key}} |->
        pairs[[Key |-> key, Value |-> v]]]

\* The first n records that doReduce() writes, one per key in the keys' order.
Reduced(pairs, n) ==
    [key \in {x \in Keys(pairs) : Cardinality({y \in Keys(pairs) : y < x}) < n} |->
        Values(pairs, key)]

\* The file of reduce task r after the first k of its operations on it: it is
\* created anew, then written.
ReduceFile(r, k) == IF k = 0 THEN res[r] ELSE Reduced(Collected(inter, r), k - 1)

ReduceOps(r) == 1 + Cardinality(Keys(Collected(inter, r)))

-----------------------------------------------------------------------------
(* merge() and Sequential(). *)

\* kvs[kv.Key] = kv.Value, for the records of all files: the last one counts.
Merged(files) ==
    LET With(key) == {r \in 1..NReduce : key \in DOMAIN files[r]}
        Last(key) == CHOOSE r \in With(key) : \A q \in With(key) : q <= r
    IN  [key \in UNION {DOMAIN files[r] : r \in 1..NReduce} |-> files[Last(key)][key]]

\* Sequential() runs all map tasks, then all reduce tasks, then merge().
MapOutput == [m \in 1..NMap |-> [r \in 1..NReduce |-> InPartition(m, r, Len(Input[m]))]]
ReduceOutput ==
    [r \in 1..NReduce |->
        LET pairs == Collected(MapOutput, r) IN Reduced(pairs, Cardinality(Keys(pairs)))]
Sequential == Merged(ReduceOutput)

\* A file that was written is there.
ASSUME AbsentAssumption ==
    \A r \in 1..NReduce :
        ReduceOutput[r] # Absent /\ \A m \in 1..NMap : MapOutput[m][r] # Absent

-----------------------------------------------------------------------------
(* The steps of MapReduce that touch files. *)

\* Task t of the current phase has made its first k file operations.
TaskWrites(t, k) ==
    IF phase = "mapPhase"
    THEN inter' = [inter EXCEPT ![t] = MapFiles(t, k)] /\ UNCHANGED res
    ELSE res' = [res EXCEPT ![t] = ReduceFile(t, k)] /\ UNCHANGED inter

Ops(t) == IF phase = "mapPhase" THEN MapOps(t) ELSE ReduceOps(t)

TaskEnds(c) ==
    /\ EndTask(c)
    /\ TaskWrites(c.task, Ops(c.task))
    /\ UNCHANGED <<mrtmp, fatal>>

\* A worker that dies in a task leaves the files as far as it had come.
DiesInTask(w, c) ==
    /\ c.srv = w /\ c.stage = "running"
    /\ Die(w)
    /\ \E k \in 0..Ops(c.task) : TaskWrites(c.task, k)
    /\ UNCHANGED <<mrtmp, fatal>>

DiesIdle(w) ==
    /\ Die(w)
    /\ \A c \in calls : ~(c.srv = w /\ c.stage = "running")
    /\ UNCHANGED fileVars

\* merge() stops the program if a file is missing.
Merge ==
    /\ Finish
    /\ IF \E r \in 1..NReduce : res[r] = Absent
       THEN fatal' = TRUE /\ UNCHANGED mrtmp
       ELSE mrtmp' = Merged(res) /\ UNCHANGED fatal
    /\ UNCHANGED <<inter, res>>

\* The caller of Wait() may remove the files; removeFile() stops the program if
\* one is missing.
CleanupFiles ==
    /\ phase = "done" /\ mrtmp # Absent
    /\ fatal' = \/ fatal
                \/ \E r \in 1..NReduce :
                       res[r] = Absent \/ \E m \in 1..NMap : inter[m][r] = Absent
    /\ inter' = [m \in 1..NMap |-> [r \in 1..NReduce |-> Absent]]
    /\ res' = [r \in 1..NReduce |-> Absent]
    /\ mrtmp' = Absent
    /\ UNCHANGED vars

-----------------------------------------------------------------------------
\* A job begins in an empty directory, or in one where an earlier run of it, on
\* other input, was stopped (main/wc.go uses one name for all its jobs).
Leftover == [Key |-> 0, Value |-> <<0, 0>>]

JobInit ==
    /\ Init
    /\ \E old \in {Absent, SetToBag({Leftover})} :
          /\ inter = [m \in 1..NMap |-> [r \in 1..NReduce |-> old]]
          /\ res = [r \in 1..NReduce |-> IF old = Absent THEN Absent ELSE Reduced(old, 1)]
    /\ mrtmp = Absent
    /\ fatal = FALSE

\* The other steps of MapReduce touch no file.
Elsewhere ==
    /\ \/ forwardRegistrations \/ PhaseDone \/ KillWorker
       \/ \E c \in calls : \/ \E w \in Worker : Accept(w, c)
                           \/ DoTask(c) \/ Shutdown(c) \/ CallReturns(c) \/ KillReturns(c)
       \/ \E t \in DOMAIN task : TakeWorker(t)
       \/ \E w \in Worker : RunWorker(w) \/ CheckRPCs(w) \/ Enqueue(w)
    /\ UNCHANGED fileVars

JobNext ==
    \/ Elsewhere
    \/ Merge \/ CleanupFiles
    \/ \E c \in calls : TaskEnds(c) \/ \E w \in Worker : DiesInTask(w, c)
    \/ \E w \in Worker : DiesIdle(w)

JobSpec == JobInit /\ [][JobNext]_jobVars /\ Fairness

-----------------------------------------------------------------------------
(* What the job promises. *)

\* What the job is to compute: every key of the input with all its values.
Reference ==
    LET all == UNION {{Pairs(m)[i] : i \in DOMAIN Input[m]} : m \in 1..NMap}
    IN  [key \in {kv.Key : kv \in all} |->
            SetToBag({kv.Value : kv \in {p \in all : p.Key = key}})]

\* The distributed job computes what Sequential() computes, every value of every
\* key once, although workers die in the middle of a file, their tasks are run
\* again over what they left, and files of an earlier job lie around: doMap()
\* and doReduce() truncate what they find, and no reduce task reads before the
\* map tasks are done.
ResultRight == mrtmp # Absent => mrtmp = Reference /\ mrtmp = Sequential

\* log.Fatal in merge() and removeFile() is out of reach: a task that was run to
\* its end, at the first or at a later attempt, leaves all its files, also the
\* empty ones doReduce() would not miss.
NoFileMissing == ~fatal
=============================================================================
