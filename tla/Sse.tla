-------------------------------- MODULE Sse --------------------------------
(***************************************************************************)
(* The broadcaster of server-sent events (src/src/sse.c) and the           *)
(* connections of libmicrohttpd that read from it:                         *)
(*   - a connection is one GET /api/events; its thread adds a client and   *)
(*     then calls the reader callback again and again;                     *)
(*   - a broadcast is one call of sse_broadcast by any thread of the       *)
(*     application, and names the event it carries.                        *)
(* A pipe holds events, PipeCapacity of them.  The reader and the free     *)
(* callback do not take the mutex; a broadcast keeps it over all its       *)
(* writes, and each write may block.                                       *)
(***************************************************************************)
EXTENDS Naturals, Sequences, FiniteSets

CONSTANTS
  Connections,    \* GET /api/events requests
  Broadcasts,     \* calls of sse_broadcast, and their events
  MaxClients,     \* MAX_SSE_CLIENTS
  PipeCapacity,   \* events a pipe holds before a write blocks
  None            \* nobody holds the mutex

ASSUME ConstantsAssumption ==
  /\ MaxClients \in Nat \ {0}
  /\ PipeCapacity \in Nat \ {0}
  /\ None \notin Broadcasts

VARIABLES
  clients,     \* b->clients: slot -> [active, pipe]
  numClients,  \* b->num_clients
  mutex,       \* the broadcast that holds b->mutex, or None
  conn,        \* where each connection is
  slot,        \* the slot of each connection's client
  received,    \* the events each browser has got
  gone,        \* connections whose browser has closed the socket
  stalled,     \* connections whose browser no longer reads from the socket
  cast,        \* where each broadcast is
  index,       \* the loop index of each broadcast
  log,         \* the events broadcast so far, in the order of the mutex
  joined,      \* how many events had been broadcast when a client was added
  turnedAway,  \* connections refused while fewer than MaxClients were open
  miscounted   \* a failed response has freed a slot that was not the last

connVars == <<conn, slot, received, joined, turnedAway, miscounted>>
envVars == <<gone, stalled>>
castVars == <<mutex, cast, index, log>>
vars == <<clients, numClients, connVars, envVars, castVars>>

Slots == 1..MaxClients
Client == [active : BOOLEAN, pipe : Seq(Broadcasts)]
EmptyClient == [active |-> FALSE, pipe |-> <<>>]
MutexFree == mutex = None

\* Connections that use a client of the table.
Connected == {c \in Connections : conn[c] \in {"adding", "open"}}

Init ==
  /\ clients = [s \in Slots |-> EmptyClient]
  /\ numClients = 0
  /\ mutex = None
  /\ conn = [c \in Connections |-> "idle"]
  /\ slot = [c \in Connections |-> 0]
  /\ received = [c \in Connections |-> <<>>]
  /\ gone = {}
  /\ stalled = {}
  /\ cast = [b \in Broadcasts |-> "idle"]
  /\ index = [b \in Broadcasts |-> 0]
  /\ log = <<>>
  /\ joined = [c \in Connections |-> 0]
  /\ turnedAway = {}
  /\ miscounted = FALSE

-----------------------------------------------------------------------------
(* sse_broadcaster_add_client                                              *)

\* The table has been used up; or it has not, and pipe() fails.
Refuse(c) ==
  /\ conn[c] = "idle"
  /\ MutexFree
  /\ conn' = [conn EXCEPT ![c] = "refused"]
  /\ turnedAway' = IF numClients >= MaxClients /\ Cardinality(Connected) < MaxClients
                     THEN turnedAway \cup {c} ELSE turnedAway
  /\ UNCHANGED <<clients, numClients, slot, received, joined, miscounted, envVars, castVars>>

\* A plausible bug: num_clients is not incremented.
AddNotCounting(c) ==
  /\ conn[c] = "idle"
  /\ MutexFree
  /\ numClients < MaxClients
  /\ clients' = [clients EXCEPT ![numClients + 1] = [active |-> TRUE, pipe |-> <<>>]]
  /\ slot' = [slot EXCEPT ![c] = numClients + 1]
  /\ conn' = [conn EXCEPT ![c] = "adding"]
  /\ joined' = [joined EXCEPT ![c] = Len(log)]
  /\ UNCHANGED <<numClients, received, turnedAway, miscounted, envVars, castVars>>

\* The next slot of the table, with a pipe of its own.
Add(c) ==
  /\ conn[c] = "idle"
  /\ MutexFree
  /\ numClients < MaxClients
  /\ clients' = [clients EXCEPT ![numClients + 1] = [active |-> TRUE, pipe |-> <<>>]]
  /\ numClients' = numClients + 1
  /\ slot' = [slot EXCEPT ![c] = numClients + 1]
  /\ conn' = [conn EXCEPT ![c] = "adding"]
  /\ joined' = [joined EXCEPT ![c] = Len(log)]
  /\ UNCHANGED <<received, turnedAway, miscounted, envVars, castVars>>

\* The response with the reader callback is queued.
Respond(c) ==
  /\ conn[c] = "adding"
  /\ conn' = [conn EXCEPT ![c] = "open"]
  /\ UNCHANGED <<clients, numClients, slot, received, joined, turnedAway, miscounted, envVars, castVars>>

\* A plausible bug: the client is counted out here and by the function that
\* closes it.
RespondFailsTwice(c) ==
  /\ conn[c] = "adding"
  /\ MutexFree
  /\ clients' = [clients EXCEPT ![slot[c]] = EmptyClient]
  /\ numClients' = numClients - 2
  /\ conn' = [conn EXCEPT ![c] = "refused"]
  /\ miscounted' = (miscounted \/ slot[c] # numClients)
  /\ UNCHANGED <<slot, received, joined, turnedAway, envVars, castVars>>

\* No response: the client is closed and the number of clients decremented,
\* whether or not its slot is still the last one.
RespondFails(c) ==
  /\ conn[c] = "adding"
  /\ MutexFree
  /\ clients' = [clients EXCEPT ![slot[c]] = EmptyClient]
  /\ numClients' = numClients - 1
  /\ conn' = [conn EXCEPT ![c] = "refused"]
  /\ miscounted' = (miscounted \/ slot[c] # numClients)
  /\ UNCHANGED <<slot, received, joined, turnedAway, envVars, castVars>>

-----------------------------------------------------------------------------
(* The thread of a connection, and its browser                             *)

\* sse_free_callback: the client is deactivated and its pipe closed.
Close(c) ==
  /\ conn' = [conn EXCEPT ![c] = "closed"]
  /\ clients' = [clients EXCEPT ![slot[c]] = EmptyClient]
  /\ UNCHANGED <<numClients, slot, received, joined, turnedAway, miscounted, envVars, castVars>>

\* A plausible bug: what was read is not handed on (0 is returned).
ReadLosing(c) ==
  /\ conn[c] = "open" /\ c \notin gone \cup stalled
  /\ clients[slot[c]].active /\ clients[slot[c]].pipe # <<>>
  /\ clients' = [clients EXCEPT ![slot[c]].pipe = Tail(@)]
  /\ UNCHANGED <<numClients, connVars, envVars, castVars>>

\* sse_reader_callback reads from the pipe and libmicrohttpd sends what it
\* read, which blocks when the browser no longer reads.
Read(c) ==
  /\ conn[c] = "open" /\ c \notin gone \cup stalled
  /\ clients[slot[c]].active /\ clients[slot[c]].pipe # <<>>
  /\ received' = [received EXCEPT ![c] = Append(@, Head(clients[slot[c]].pipe))]
  /\ clients' = [clients EXCEPT ![slot[c]].pipe = Tail(@)]
  /\ UNCHANGED <<numClients, conn, slot, joined, turnedAway, miscounted, envVars, castVars>>

\* A socket the browser has closed is noticed, at the latest when something is
\* sent.
NoticeGone(c) == conn[c] = "open" /\ c \in gone /\ Close(c)
SendFails(c) == conn[c] = "open" /\ clients[slot[c]].pipe # <<>> /\ NoticeGone(c)

\* The client is no longer active: end of the stream.
EndOfStream(c) ==
  /\ conn[c] = "open"
  /\ ~clients[slot[c]].active
  /\ Close(c)

\* The browser closes the connection: the page is left, or the watchdog of
\* SSEClient reconnects after 30 seconds with no event.
Leave(c) ==
  /\ conn[c] = "open" /\ c \notin gone
  /\ gone' = gone \cup {c}
  /\ UNCHANGED <<clients, numClients, connVars, stalled, castVars>>

\* The browser is suspended.
Stall(c) ==
  /\ conn[c] = "open" /\ c \notin gone \cup stalled
  /\ stalled' = stalled \cup {c}
  /\ UNCHANGED <<clients, numClients, connVars, gone, castVars>>

-----------------------------------------------------------------------------
(* sse_broadcast                                                           *)

Call(b) ==
  /\ cast[b] = "idle"
  /\ cast' = [cast EXCEPT ![b] = "called"]
  /\ UNCHANGED <<clients, numClients, connVars, envVars, mutex, index, log>>

\* The text does not fit the buffer of SSE_BUF_SIZE bytes: nothing is sent.
Drop(b) ==
  /\ cast[b] = "idle"
  /\ cast' = [cast EXCEPT ![b] = "dropped"]
  /\ UNCHANGED <<clients, numClients, connVars, envVars, mutex, index, log>>

Lock(b) ==
  /\ cast[b] = "called"
  /\ MutexFree
  /\ mutex' = b
  /\ cast' = [cast EXCEPT ![b] = "writing"]
  /\ index' = [index EXCEPT ![b] = 1]
  /\ log' = Append(log, b)
  /\ UNCHANGED <<clients, numClients, connVars, envVars>>

\* One client: skipped if inactive, else written to once there is room.  A
\* write that fails because the pipe was closed finds the client inactive
\* already and leaves it so.
Write(b) ==
  /\ cast[b] = "writing" /\ index[b] <= numClients
  /\ LET s == index[b] IN
     IF clients[s].active
       THEN /\ Len(clients[s].pipe) < PipeCapacity
            /\ clients' = [clients EXCEPT ![s].pipe = Append(@, b)]
       ELSE UNCHANGED clients
  /\ index' = [index EXCEPT ![b] = @ + 1]
  /\ UNCHANGED <<numClients, connVars, envVars, mutex, cast, log>>

\* A plausible bug: the last client is left out.
UnlockEarly(b) ==
  /\ cast[b] = "writing" /\ index[b] >= numClients
  /\ mutex' = None
  /\ cast' = [cast EXCEPT ![b] = "done"]
  /\ UNCHANGED <<clients, numClients, connVars, envVars, index, log>>

\* A plausible bug: a return without the unlock.
UnlockForgotten(b) ==
  /\ cast[b] = "writing" /\ index[b] > numClients
  /\ cast' = [cast EXCEPT ![b] = "done"]
  /\ UNCHANGED <<clients, numClients, connVars, envVars, mutex, index, log>>

Unlock(b) ==
  /\ cast[b] = "writing" /\ index[b] > numClients
  /\ mutex' = None
  /\ cast' = [cast EXCEPT ![b] = "done"]
  /\ UNCHANGED <<clients, numClients, connVars, envVars, index, log>>

-----------------------------------------------------------------------------
ConnStep(c) == Respond(c) \/ Read(c) \/ SendFails(c) \/ EndOfStream(c)

CastStep(b) == Lock(b) \/ Write(b) \/ Unlock(b)

Next ==
  \/ \E c \in Connections :
       Refuse(c) \/ Add(c) \/ RespondFails(c) \/ ConnStep(c) \/ NoticeGone(c)
         \/ Leave(c) \/ Stall(c)
  \/ \E b \in Broadcasts : Call(b) \/ Drop(b) \/ CastStep(b)

Spec == Init /\ [][Next]_vars

(* The scheduler runs every thread that can run.  No browser has to connect
   or to leave, and nobody has to call sse_broadcast.                      *)
Fairness ==
  /\ \A c \in Connections : WF_vars(ConnStep(c))
  /\ \A b \in Broadcasts : WF_vars(CastStep(b))

FairSpec == Spec /\ Fairness

-----------------------------------------------------------------------------
(* Properties                                                              *)

\* Every variable has its type; in particular num_clients stays in the table.
TypeOK ==
  /\ clients \in [Slots -> Client]
  /\ numClients \in 0..MaxClients
  /\ mutex \in Broadcasts \cup {None}
  /\ conn \in [Connections -> {"idle", "adding", "open", "closed", "refused"}]
  /\ slot \in [Connections -> 0..MaxClients]
  /\ received \in [Connections -> Seq(Broadcasts)]
  /\ gone \subseteq Connections /\ stalled \subseteq Connections
  /\ cast \in [Broadcasts -> {"idle", "called", "dropped", "writing", "done"}]
  /\ index \in [Broadcasts -> 0..(MaxClients + 1)]
  /\ log \in Seq(Broadcasts)
  /\ joined \in [Connections -> Nat]
  /\ turnedAway \subseteq Connections
  /\ miscounted \in BOOLEAN

\* Every connection that is being added or is open has a slot to itself, active
\* and within those a broadcast visits.
DistinctSlots ==
  /\ \A c \in Connected : slot[c] \in 1..numClients /\ clients[slot[c]].active
  /\ \A c, d \in Connected : slot[c] = slot[d] => c = d

\* Two browsers never read from one pipe and none is left out of a broadcast,
\* although slots are taken, freed and emptied by threads without a common lock,
\* until a failed response lowers the count below a slot still in use.
OwnClient == ~miscounted => DistinctSlots

\* The events broadcast so far that have been written for client c: all but the
\* one of a broadcast that has not reached its slot yet.
Written(c) ==
  IF mutex # None /\ index[mutex] <= slot[c] THEN Len(log) - 1 ELSE Len(log)

\* What a browser has received, followed by what its pipe still holds, is the
\* sequence of the events broadcast since it was added.
StreamsAgree ==
  \A c \in Connected :
    received[c] \o clients[slot[c]].pipe = SubSeq(log, joined[c] + 1, Written(c))

\* No event is lost, doubled or overtaken on its way to a browser, although
\* readers do not take the mutex (with the same exception as OwnClient).
InOrder == ~miscounted => StreamsAgree

\* The strengthening behind OwnClient and InOrder: the broadcast that holds the
\* mutex is the only one that writes and has logged its event, and a client is
\* added between two broadcasts.
StreamInv ==
  /\ \A b \in Broadcasts : cast[b] = "writing" => mutex = b
  /\ mutex # None =>
       /\ cast[mutex] = "writing"
       /\ index[mutex] \in 1..(numClients + 1)
       /\ log # <<>> /\ log[Len(log)] = mutex
  /\ \A c \in Connections : conn[c] = "idle" => received[c] = <<>>
  /\ \A c \in Connected : joined[c] <= Written(c)
  /\ DistinctSlots
  /\ StreamsAgree

\* Connections that have been counted in and not counted out again.
Counted == {c \in Connections : conn[c] \in {"adding", "open", "closed"}}

\* The strengthening behind TypeOK, which holds after a miscount too: the count is
\* that of the clients ever added but for those whose response failed, and it does
\* not move while a broadcast walks over the table.
CountInv ==
  /\ IsFiniteSet(Counted) /\ numClients = Cardinality(Counted)
  /\ \A c \in Connected : slot[c] \in Slots
  /\ \A b \in Broadcasts :
       cast[b] = "writing" => mutex = b /\ index[b] \in 1..(numClients + 1)

\* A browser that reconnects is let in when fewer than MaxClients are connected.
ReconnectAllowed == turnedAway = {}

\* A browser that no longer reads and whose pipe is full.
Blocked(c) ==
  conn[c] = "open" /\ c \in stalled /\ Len(clients[slot[c]].pipe) = PipeCapacity

\* A call of sse_broadcast returns, and so does not hold the mutex for ever,
\* unless a browser that is still connected has stopped reading.
BroadcastEnds ==
  \A b \in Broadcasts :
    cast[b] = "called"
      ~> cast[b] = "done" \/ \E c \in Connections : Blocked(c)

\* An event written for a client reaches its browser, unless the browser goes
\* away or stops reading (with the same exception as OwnClient).
EventArrives ==
  \A c \in Connections, b \in Broadcasts :
    conn[c] = "open" /\ b \in {clients[slot[c]].pipe[i] : i \in DOMAIN clients[slot[c]].pipe}
      ~> \/ \E i \in DOMAIN received[c] : received[c][i] = b
         \/ c \in gone \cup stalled
         \/ miscounted
=============================================================================
