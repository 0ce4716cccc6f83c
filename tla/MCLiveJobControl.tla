--------------------------- MODULE MCLiveJobControl ---------------------------
(* Two process incarnations over one job. *)
EXTENDS LiveJobControl, TLC
CONSTANTS r1, r2
MCRegistries == {r1, r2}
Symmetry == Permutations(MCRegistries)

\* Bound: once the job has ended, two sweeps at a time are followed no further.
OneSweepAfterEnd ==
  IsTerminal(row) => \E r \in Registries : sweep[r].pc = "idle"
===============================================================================
