---------------------------- MODULE MCLocalProxy ----------------------------
(* An instance of LocalProxy: two hosts of one name, one without a forward.   *)
EXTENDS LocalProxy

MCHosts == <<[name |-> "a", port |-> 81], [name |-> "b", port |-> 0], [name |-> "a", port |-> 82],
             [name |-> "b", port |-> 83]>>

MCBudget == [c \in Conns |-> 2]
=============================================================================
