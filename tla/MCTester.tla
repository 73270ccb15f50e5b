------------------------------ MODULE MCTester ------------------------------
(***************************************************************************)
(* The ends of the testers, for TLC.                                       *)
(***************************************************************************)
EXTENDS Tester

MCEnd == {e \in Name \X (1..MaxInstances) \X Name : e[1] # e[3]}
             \cup (Clerk \X {1} \X Name)
=============================================================================
