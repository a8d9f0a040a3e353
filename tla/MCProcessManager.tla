-------------------------- MODULE MCProcessManager --------------------------
(***************************************************************************)
(* Instances of ProcessManager for TLC.                                    *)
(***************************************************************************)
EXTENDS ProcessManager, TLC

\* Requests are interchangeable, and so are the hosts when all are valid; sound
\* for the runs with no liveness.
Symmetry == Permutations(Requests) \cup Permutations(Hosts)
=============================================================================
