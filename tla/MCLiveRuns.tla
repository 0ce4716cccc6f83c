------------------------------- MODULE MCLiveRuns -------------------------------
(* A small instance of LiveRuns. *)
EXTENDS LiveRuns
CONSTANTS q1, q2
MCReplans == {q1, q2}
===============================================================================
