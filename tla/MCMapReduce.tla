---------------------------- MODULE MCMapReduce ----------------------------
(***************************************************************************)
(* Two input files that share a key; one key is twice in a file, and one   *)
(* file has nothing for one of the two partitions.                         *)
(***************************************************************************)
EXTENDS MapReduceFiles

MCInput == <<<<1, 3, 1>>, <<3, 2>>>>
MCihash == [key \in 0..3 |-> key]
=============================================================================
