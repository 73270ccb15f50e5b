--------------------------- MODULE MCShardMaster ---------------------------
(***************************************************************************)
(* ShardMaster for TLC.                                                    *)
(***************************************************************************)
EXTENDS ShardMaster, TLC

Symmetry == Permutations(Server) \cup Permutations(Client)
=============================================================================
