---------------------------- MODULE MCLiveJobStore ----------------------------
(* A small instance of LiveJobStore: one reaper takes over from another, two *)
(* date pairs, and enough generations for claim, fence, reclaim and cancel.  *)
EXTENDS LiveJobStore, TLC

CONSTANTS c1, c2, p1, p2, d1, d2

MCControllers == {c1, c2}
MCPairs       == {p1, p2}
MCDigests     == {d1}

Symmetry == Permutations(MCControllers) \cup Permutations(MCPairs)
===============================================================================
