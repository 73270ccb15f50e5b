------------------------------ MODULE MCRaftKV ------------------------------
(***************************************************************************)
(* RaftKV for TLC.                                                         *)
(***************************************************************************)
EXTENDS RaftKV, TLC

Symmetry == Permutations(Server) \cup Permutations(Client)
=============================================================================
