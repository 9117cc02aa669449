---------------------------- MODULE MCSoarBlocks ----------------------------
(* Instances of SoarBlocks for TLC: addresses and tasks are interchangeable. *)
EXTENDS SoarBlocks, TLC

Symmetry == Permutations(IPs) \cup Permutations(Handlers)
=============================================================================
