------------------------------- MODULE MCSse -------------------------------
(***************************************************************************)
(* Instances of Sse for TLC.                                               *)
(***************************************************************************)
EXTENDS Sse, TLC

\* Connections are interchangeable; sound for the runs with no liveness.
ConnSymmetry == Permutations(Connections)
=============================================================================
