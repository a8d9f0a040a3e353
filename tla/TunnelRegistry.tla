--------------------------- MODULE TunnelRegistry ---------------------------
(***************************************************************************)
(* What the tunnel table promises to the rest of sshpad, with no slots, no *)
(* threads and no processes: a host has at most one open tunnel, a tunnel  *)
(* is opened by a start call that opens nothing else, and once the         *)
(* application is closing tunnels only close.                              *)
(***************************************************************************)
CONSTANTS Requests, Hosts, None

VARIABLES
  tunnel,   \* host -> the start call that opened its tunnel, or None
  spent,    \* start calls that have opened a tunnel
  closing   \* the application is shutting down

Open(h, r) ==
  /\ ~closing
  /\ tunnel[h] = None
  /\ r \notin spent
  /\ tunnel' = [tunnel EXCEPT ![h] = r]
  /\ spent' = spent \cup {r}
  /\ UNCHANGED closing

Close(h) ==
  /\ tunnel[h] # None
  /\ tunnel' = [tunnel EXCEPT ![h] = None]
  /\ UNCHANGED <<spent, closing>>

ShutDown == closing' = TRUE /\ UNCHANGED <<tunnel, spent>>

Init ==
  /\ tunnel = [h \in Hosts |-> None]
  /\ spent = {}
  /\ closing = FALSE

Next ==
  \/ \E h \in Hosts, r \in Requests : Open(h, r)
  \/ \E h \in Hosts : Close(h)
  \/ ShutDown

Spec == Init /\ [][Next]_<<tunnel, spent, closing>>
=============================================================================
