----------------------------- MODULE SlotSearch -----------------------------
(***************************************************************************)
(* The fixed tables of sshpad (tunnels, password requests) are searched    *)
(* from the first slot on and the search breaks at the first match.        *)
(***************************************************************************)
EXTENDS Naturals

\* The slot a search over the slots that match returns.
First(S) == CHOOSE s \in S : \A t \in S : s <= t
=============================================================================
