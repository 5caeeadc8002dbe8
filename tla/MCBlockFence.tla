---------------------------- MODULE MCBlockFence ----------------------------
(* Instance of BlockFence for TLC. *)
EXTENDS BlockFence, TLC

Symmetry == Permutations(Reqs) \cup Permutations(Blocks)
=============================================================================
