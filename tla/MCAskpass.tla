----------------------------- MODULE MCAskpass -----------------------------
(***************************************************************************)
(* Instances of Askpass for TLC.                                           *)
(***************************************************************************)
EXTENDS Askpass, TLC

\* Askers are interchangeable, and so are deliveries; sound for the runs with
\* no liveness.
AskSymmetry == Permutations(Askers) \cup Permutations(Deliveries)
=============================================================================
