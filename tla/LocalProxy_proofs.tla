------------------------- MODULE LocalProxy_proofs -------------------------
(***************************************************************************)
(* Theorems about the HTTPS proxy, for any hosts, any number of            *)
(* connections and any amount of data.                                     *)
(***************************************************************************)
EXTENDS LocalProxy, Facts, TLAPS

TypeInv == ThreadsTypeOK /\ ConnsTypeOK

\* Where a handler may be.
Positions == {"away", "queued", "ended"} \cup Held

-----------------------------------------------------------------------------
(* Types                                                                   *)

\* One counter goes up by one.
LEMMA CountStep ==
  ASSUME NEW counter \in [Conns -> [Ends -> Nat]], NEW c \in Conns, NEW e \in Ends,
         NEW next, next = [counter EXCEPT ![c][e] = @ + 1]
  PROVE  /\ next \in [Conns -> [Ends -> Nat]]
         /\ next[c][e] = counter[c][e] + 1
         /\ \A d \in Conns : \A f \in Ends : d # c \/ f # e => next[d][f] = counter[d][f]
<1>1. next = [counter EXCEPT ![c] = [counter[c] EXCEPT ![e] = counter[c][e] + 1]]
  OBVIOUS
<1>2. [counter[c] EXCEPT ![e] = counter[c][e] + 1] \in [Ends -> Nat]
  OBVIOUS
<1>3. QED
  BY <1>1, <1>2

PeerStates == {"open", "closed", "reset"}

\* One end of a connection changes.
LEMMA PeerStep ==
  ASSUME peer \in [Conns -> [Ends -> PeerStates]], NEW c \in Conns, NEW e \in Ends,
         NEW state \in PeerStates, SetPeer(c, e, state)
  PROVE  peer' \in [Conns -> [Ends -> PeerStates]]
<1>1. peer' = [peer EXCEPT ![c] = [peer[c] EXCEPT ![e] = state]]
  BY DEF SetPeer
<1>2. [peer[c] EXCEPT ![e] = state] \in [Ends -> PeerStates]
  OBVIOUS
<1>3. QED
  BY <1>1, <1>2

\* The position of one connection changes.
LEMMA GotoStep ==
  ASSUME conn \in [Conns -> Positions], NEW c \in Conns, NEW p \in Positions, Goto(c, p)
  PROVE  /\ conn' \in [Conns -> Positions] /\ conn'[c] = p
         /\ \A d \in Conns : d # c => conn'[d] = conn[d]
BY DEF Goto

\* A relay that ends changes nothing of the other connections, and no counter.
LEMMA FinishStep ==
  ASSUME ConnsTypeOK, NEW c \in Conns,
         NEW r \in {"client", "backend", "reset", "idle"}, Finish(c, r)
  PROVE  /\ ConnsTypeOK'
         /\ conn'[c] = "ended" /\ why'[c] = r
         /\ \A d \in Conns : d # c => conn'[d] = conn[d] /\ why'[d] = why[d]
<1> USE DEF PeerStates, Positions
<1>1. /\ conn' \in [Conns -> Positions] /\ conn'[c] = "ended"
      /\ \A d \in Conns : d # c => conn'[d] = conn[d]
  BY GotoStep DEF Finish, End, ConnsTypeOK
<1>2. peer' \in [Conns -> [Ends -> PeerStates]]
  <2>1. PICK hit \in SUBSET Ends :
          peer' = [peer EXCEPT ![c] = [e \in Ends |-> IF e \in hit THEN "reset" ELSE peer[c][e]]]
    BY DEF Finish, ConnsTypeOK
  <2>2. [e \in Ends |-> IF e \in hit THEN "reset" ELSE peer[c][e]] \in [Ends -> PeerStates]
    BY DEF ConnsTypeOK
  <2>3. QED
    BY <2>1, <2>2 DEF ConnsTypeOK
<1>3. QED
  BY <1>1, <1>2 DEF Finish, ConnsTypeOK, routeVars

\* The first virtual host of a name that has one is of this name.
LEMMA FindServes ==
  ASSUME ProxyAssumption, NEW name
  PROVE  /\ Find(name) \in Nat
         /\ Serving(name) # {} => Find(name) \in Serving(name) /\ Find(name) # 0
<1>1. Serving(name) \in SUBSET Nat /\ 0 \notin Serving(name)
  BY DEF Serving, ProxyAssumption
<1>2. QED
  BY <1>1, FirstIsMember DEF Find

\* The ends and the handler of a connection move data.
LEMMA SendType ==
  ASSUME ConnsTypeOK, NEW c \in Conns, NEW e \in Ends, Send(c, e) \/ SendPart(c, e) \/ Receive(c, e)
  PROVE  ConnsTypeOK'
<1>1. CASE Send(c, e)
  BY <1>1, CountStep DEF Send, Count, ConnsTypeOK, routeVars
<1>2. CASE Receive(c, e)
  BY <1>2, CountStep DEF Receive, Count, ConnsTypeOK, routeVars
<1>3. CASE SendPart(c, e)
  BY <1>3 DEF SendPart, ConnsTypeOK, routeVars
<1>4. QED
  BY <1>1, <1>2, <1>3

\* An end that closes leaves the connections well typed.
LEMMA CloseType ==
  ASSUME ConnsTypeOK, NEW c \in Conns, NEW e \in Ends, Close(c, e)
  PROVE  ConnsTypeOK'
<1>1. peer' \in [Conns -> [Ends -> PeerStates]]
  BY PeerStep DEF Close, ConnsTypeOK, PeerStates
<1>2. QED
  BY <1>1 DEF Close, ConnsTypeOK, routeVars, PeerStates

\* Reading from one end: a buffer more is in hand, or poll had said no.
LEMMA TakeStep ==
  ASSUME ConnsTypeOK, NEW c \in Conns, NEW e \in Ends, NEW from,
         NEW to \in Positions, NEW next \in Positions, Take(c, e, from, to, next)
  PROVE  /\ ConnsTypeOK'
         /\ \A d \in Conns : d # c => conn'[d] = conn[d]
         /\ \/ conn'[c] = next /\ moved' = moved
            \/ /\ conn'[c] = to /\ Unread(c, e) /\ moved'[c][e] = moved[c][e] + 1
               /\ \A d \in Conns : \A f \in Ends : d # c \/ f # e => moved'[d][f] = moved[d][f]
<1>1. /\ conn' \in [Conns -> Positions]
      /\ \A d \in Conns : d # c => conn'[d] = conn[d]
  BY GotoStep DEF Take, ConnsTypeOK, Positions
<1>2. \/ conn'[c] = next /\ moved' = moved
      \/ conn'[c] = to /\ Unread(c, e) /\ Count(moved, c, e)
  BY GotoStep DEF Take, ConnsTypeOK, Positions
<1>3. ASSUME Count(moved, c, e)
      PROVE  /\ moved' \in [Conns -> [Ends -> Nat]] /\ moved'[c][e] = moved[c][e] + 1
             /\ \A d \in Conns : \A f \in Ends : d # c \/ f # e => moved'[d][f] = moved[d][f]
  BY <1>3, CountStep DEF Count, ConnsTypeOK
<1>4. moved' \in [Conns -> [Ends -> Nat]]
  BY <1>2, <1>3 DEF ConnsTypeOK
<1>5. ConnsTypeOK'
  BY <1>1, <1>4 DEF Take, ConnsTypeOK, Positions, routeVars
<1>6. QED
  BY <1>1, <1>2, <1>3, <1>5

\* Writing to one end: the buffer in hand is given.
LEMMA GiveStep ==
  ASSUME ConnsTypeOK, NEW c \in Conns, NEW e \in Ends, NEW from,
         NEW next \in Positions, Give(c, e, from, next)
  PROVE  /\ ConnsTypeOK'
         /\ conn'[c] = next
         /\ \A d \in Conns : d # c => conn'[d] = conn[d]
         /\ put'[c][e] = put[c][e] + 1
         /\ \A d \in Conns : \A f \in Ends : d # c \/ f # e => put'[d][f] = put[d][f]
<1>1. /\ conn' \in [Conns -> Positions] /\ conn'[c] = next
      /\ \A d \in Conns : d # c => conn'[d] = conn[d]
  BY GotoStep DEF Give, ConnsTypeOK, Positions
<1>2. /\ put' \in [Conns -> [Ends -> Nat]] /\ put'[c][e] = put[c][e] + 1
      /\ \A d \in Conns : \A f \in Ends : d # c \/ f # e => put'[d][f] = put[d][f]
  BY CountStep DEF Give, Count, ConnsTypeOK
<1>3. peer' \in [Conns -> [Ends -> PeerStates]]
  BY PeerStep DEF Give, ConnsTypeOK, PeerStates
<1>4. ConnsTypeOK'
  BY <1>1, <1>2, <1>3 DEF Give, ConnsTypeOK, Positions, PeerStates, routeVars
<1>5. QED
  BY <1>1, <1>2, <1>4

\* The threads keep their types.
LEMMA NextThreads ==
  ASSUME TypeInv, [Next]_vars
  PROVE  ThreadsTypeOK'
<1>1. CASE Create
  BY <1>1, ProxyAssumption
     DEF Create, TypeInv, ThreadsTypeOK, mainVars, lpVars, Ends
<1>2. CASE CreateFails
  BY <1>2, ProxyAssumption
     DEF CreateFails, TypeInv, ThreadsTypeOK, mainVars, lpVars, Ends
<1>3. CASE Start
  BY <1>3, ProxyAssumption
     DEF Start, TypeInv, ThreadsTypeOK, mainVars, lpVars, Ends
<1>4. CASE StartFails
  BY <1>4, ProxyAssumption
     DEF StartFails, TypeInv, ThreadsTypeOK, mainVars, lpVars, Ends
<1>5. CASE Quit
  BY <1>5, ProxyAssumption
     DEF Quit, TypeInv, ThreadsTypeOK, mainVars, lpVars, Ends
<1>6. CASE CloseListener
  BY <1>6, ProxyAssumption
     DEF CloseListener, TypeInv, ThreadsTypeOK, mainVars, lpVars, Ends
<1>7. CASE Join
  BY <1>7, ProxyAssumption
     DEF Join, TypeInv, ThreadsTypeOK, mainVars, lpVars, Ends
<1>8. CASE Free
  BY <1>8, ProxyAssumption
     DEF Free, TypeInv, ThreadsTypeOK, mainVars, lpVars, Ends
<1>9. CASE Exit
  BY <1>9, ProxyAssumption
     DEF Exit, TypeInv, ThreadsTypeOK, mainVars, lpVars, Ends
<1>10. CASE Check
  BY <1>10, ProxyAssumption
     DEF Check, TypeInv, ThreadsTypeOK, mainVars, lpVars, Ends, Touch
<1>11. CASE Poll
  BY <1>11, ProxyAssumption
     DEF Poll, TypeInv, ThreadsTypeOK, mainVars, lpVars, Ends
<1>12. CASE Accept
  BY <1>12, ProxyAssumption
     DEF Accept, TypeInv, ThreadsTypeOK, mainVars, lpVars, Ends, Goto, Touch
<1>13. CASE AcceptFails
  BY <1>13, ProxyAssumption
     DEF AcceptFails, TypeInv, ThreadsTypeOK, mainVars, lpVars, Ends, Touch
<1>14. CASE Spawn
  BY <1>14, ProxyAssumption
     DEF Spawn, TypeInv, ThreadsTypeOK, mainVars, lpVars, Ends, Goto
<1>15. CASE SpawnFails
  BY <1>15, ProxyAssumption
     DEF SpawnFails, TypeInv, ThreadsTypeOK, mainVars, lpVars, Ends, Goto
<1>16. ASSUME NEW c \in Conns, Arrive(c) PROVE ThreadsTypeOK'
  BY <1>16, ProxyAssumption
     DEF Arrive, TypeInv, ThreadsTypeOK, mainVars, lpVars, Ends, Goto
<1>17. ASSUME NEW c \in Conns, NewSsl(c) PROVE ThreadsTypeOK'
  BY <1>17, ProxyAssumption
     DEF NewSsl, TypeInv, ThreadsTypeOK, mainVars, lpVars, Ends, Goto, Touch
<1>18. ASSUME NEW c \in Conns, Handshake(c) PROVE ThreadsTypeOK'
  BY <1>18, ProxyAssumption
     DEF Handshake, TypeInv, ThreadsTypeOK, mainVars, lpVars, Ends, Goto, Touch
<1>19. ASSUME NEW c \in Conns, Route(c) PROVE ThreadsTypeOK'
  BY <1>19, ProxyAssumption
     DEF Route, TypeInv, ThreadsTypeOK, mainVars, lpVars, Ends, Goto, Touch
<1>20. ASSUME NEW c \in Conns, Refuse(c) PROVE ThreadsTypeOK'
  BY <1>20, ProxyAssumption
     DEF Refuse, TypeInv, ThreadsTypeOK, mainVars, lpVars, Ends, End, Goto, Touch
<1>21. ASSUME NEW c \in Conns, UseFreed(c) PROVE ThreadsTypeOK'
  BY <1>21, ProxyAssumption
     DEF UseFreed, TypeInv, ThreadsTypeOK, mainVars, lpVars, Ends, Touch
<1>22. ASSUME NEW c \in Conns, Connect(c) PROVE ThreadsTypeOK'
  BY <1>22, ProxyAssumption
     DEF Connect, TypeInv, ThreadsTypeOK, mainVars, lpVars, Ends, Goto
<1>23. ASSUME NEW c \in Conns, BadGateway(c) PROVE ThreadsTypeOK'
  BY <1>23, ProxyAssumption
     DEF BadGateway, TypeInv, ThreadsTypeOK, mainVars, lpVars, Ends, End, Goto
<1>24. ASSUME NEW c \in Conns, PollEnds(c) PROVE ThreadsTypeOK'
  BY <1>24, ProxyAssumption
     DEF PollEnds, TypeInv, ThreadsTypeOK, mainVars, lpVars, Ends, End, Goto, Finish
<1>25. ASSUME NEW c \in Conns, PollReady(c) PROVE ThreadsTypeOK'
  BY <1>25, ProxyAssumption
     DEF PollReady, TypeInv, ThreadsTypeOK, mainVars, lpVars, Ends, Goto
<1>26. ASSUME NEW c \in Conns, NEW e \in Ends, Send(c, e) PROVE ThreadsTypeOK'
  BY <1>26, ProxyAssumption
     DEF Send, TypeInv, ThreadsTypeOK, mainVars, lpVars, Ends, Count
<1>39. ASSUME NEW c \in Conns, NEW e \in Ends, SendPart(c, e) PROVE ThreadsTypeOK'
  BY <1>39, ProxyAssumption
     DEF SendPart, TypeInv, ThreadsTypeOK, mainVars, lpVars, Ends
<1>27. ASSUME NEW c \in Conns, NEW e \in Ends, Receive(c, e) PROVE ThreadsTypeOK'
  BY <1>27, ProxyAssumption
     DEF Receive, TypeInv, ThreadsTypeOK, mainVars, lpVars, Ends, Count
<1>28. ASSUME NEW c \in Conns, NEW e \in Ends, Close(c, e) PROVE ThreadsTypeOK'
  BY <1>28, ProxyAssumption
     DEF Close, TypeInv, ThreadsTypeOK, mainVars, lpVars, Ends, SetPeer
<1>29. ASSUME NEW c \in Conns, Take(c, "client", "fromClient", "toBackend", "fromBackend")
      PROVE  ThreadsTypeOK'
  BY <1>29, ProxyAssumption
     DEF Take, TypeInv, ThreadsTypeOK, mainVars, lpVars, Ends, Goto, Count
<1>30. ASSUME NEW c \in Conns, TakeEnds(c, "client", "fromClient")
      PROVE  ThreadsTypeOK'
  BY <1>30, ProxyAssumption
     DEF TakeEnds, TypeInv, ThreadsTypeOK, mainVars, lpVars, Ends, End, Goto, Finish
<1>31. ASSUME NEW c \in Conns, Give(c, "backend", "toBackend", "fromBackend")
      PROVE  ThreadsTypeOK'
  BY <1>31, ProxyAssumption
     DEF Give, TypeInv, ThreadsTypeOK, mainVars, lpVars, Ends, Goto, Count, SetPeer
<1>32. ASSUME NEW c \in Conns, GiveEnds(c, "backend", "toBackend")
      PROVE  ThreadsTypeOK'
  BY <1>32, ProxyAssumption
     DEF GiveEnds, TypeInv, ThreadsTypeOK, mainVars, lpVars, Ends, End, Goto, Finish
<1>33. ASSUME NEW c \in Conns, Take(c, "backend", "fromBackend", "toClient", "poll")
      PROVE  ThreadsTypeOK'
  BY <1>33, ProxyAssumption
     DEF Take, TypeInv, ThreadsTypeOK, mainVars, lpVars, Ends, Goto, Count
<1>34. ASSUME NEW c \in Conns, TakeEnds(c, "backend", "fromBackend")
      PROVE  ThreadsTypeOK'
  BY <1>34, ProxyAssumption
     DEF TakeEnds, TypeInv, ThreadsTypeOK, mainVars, lpVars, Ends, End, Goto, Finish
<1>35. ASSUME NEW c \in Conns, Give(c, "client", "toClient", "poll")
      PROVE  ThreadsTypeOK'
  BY <1>35, ProxyAssumption
     DEF Give, TypeInv, ThreadsTypeOK, mainVars, lpVars, Ends, Goto, Count, SetPeer
<1>36. ASSUME NEW c \in Conns, GiveEnds(c, "client", "toClient")
      PROVE  ThreadsTypeOK'
  BY <1>36, ProxyAssumption
     DEF GiveEnds, TypeInv, ThreadsTypeOK, mainVars, lpVars, Ends, End, Goto, Finish
<1>37. CASE UNCHANGED vars
  BY <1>37, ProxyAssumption DEF vars, TypeInv, ThreadsTypeOK, mainVars, lpVars, Ends
<1>38. QED
  BY <1>1, <1>2, <1>3, <1>4, <1>5, <1>6, <1>7, <1>8, <1>9, <1>10, <1>11, <1>12,
     <1>13, <1>14, <1>15, <1>16, <1>17, <1>18, <1>19, <1>20, <1>21, <1>22, <1>23,
     <1>24, <1>25, <1>26, <1>27, <1>28, <1>29, <1>30, <1>31, <1>32, <1>33, <1>34,
     <1>35, <1>36, <1>37, <1>39
     DEF Next, MainStep, AcceptorStep, HandlerStep, Relay

\* The connections keep their types.
LEMMA RelayConns ==
  ASSUME ConnsTypeOK, NEW c \in Conns, Relay(c)
  PROVE  ConnsTypeOK'
<1>1. {"fromClient", "toBackend", "fromBackend", "toClient", "poll"} \subseteq Positions
  BY DEF Positions, Held, Relaying
<1>2. CASE PollEnds(c)
  BY <1>2, FinishStep DEF PollEnds
<1>3. CASE PollReady(c)
  <2>1. conn' \in [Conns -> Positions]
    BY <1>1, <1>3, GotoStep DEF PollReady, ConnsTypeOK, Positions
  <2>2. QED
    BY <1>3, <2>1 DEF PollReady, ConnsTypeOK, Readable, dataVars, routeVars, Positions
<1>4. ASSUME NEW e \in Ends, NEW from, NEW to \in Positions, NEW next \in Positions,
             \/ Take(c, e, from, to, next) \/ Give(c, e, from, next)
             \/ TakeEnds(c, e, from) \/ GiveEnds(c, e, from)
      PROVE  ConnsTypeOK'
  BY <1>4, TakeStep, GiveStep, FinishStep DEF TakeEnds, GiveEnds, Ends
<1>5. QED
  BY <1>1, <1>2, <1>3, <1>4 DEF Relay, Ends

\* Every step leaves descriptors, peers, counters and routes well typed.
LEMMA NextConns ==
  ASSUME ProxyAssumption, TypeInv, [Next]_vars
  PROVE  ConnsTypeOK'
<1> USE DEF TypeInv, ThreadsTypeOK, ConnsTypeOK, Held, Early, Relaying, routeVars, relayVars,
            dataVars
<1>1. CASE Create \/ CreateFails \/ Start \/ StartFails \/ Quit \/ MainStep
  BY <1>1 DEF Create, CreateFails, Start, StartFails, Quit, MainStep, CloseListener, Join,
              Free, Exit
<1>2. CASE AcceptorStep
  <2>1. CASE Check \/ Poll \/ AcceptFails
    BY <2>1 DEF Check, Poll, AcceptFails
  <2>2. CASE Accept
    <3>1. PICK c \in Conns : Goto(c, "accepted")
      BY <2>2 DEF Accept
    <3>2. conn' \in [Conns -> {"away", "queued", "ended"} \cup Held]
      BY <3>1 DEF Goto
    <3>3. QED
      BY <2>2, <3>2 DEF Accept
  <2>3. CASE Spawn \/ SpawnFails
    <3>1. conn' \in [Conns -> {"away", "queued", "ended"} \cup Held]
      BY <2>3 DEF Spawn, SpawnFails, Goto
    <3>2. QED
      BY <2>3, <3>1 DEF Spawn, SpawnFails
  <2>4. QED
    BY <1>2, <2>1, <2>2, <2>3 DEF AcceptorStep
<1>3. ASSUME NEW c \in Conns, NEW p \in {"queued", "handshake", "connecting", "poll", "ended"},
             Goto(c, p),
             UNCHANGED <<sni, cert, relayVars>>
      PROVE  ConnsTypeOK'
  <2>1. conn' \in [Conns -> {"away", "queued", "ended"} \cup Held]
    BY <1>3 DEF Goto
  <2>2. QED
    BY <1>3, <2>1
<1>4. ASSUME NEW c \in Conns,
             \/ Arrive(c) \/ NewSsl(c) \/ Refuse(c) \/ Connect(c) \/ BadGateway(c) \/ Route(c)
      PROVE  ConnsTypeOK'
  <2> HIDE DEF ConnsTypeOK, Held, Early, Relaying
  <2>1. QED
    BY <1>3, <1>4 DEF Arrive, NewSsl, Refuse, Connect, BadGateway, Route, End
<1>5. ASSUME NEW c \in Conns, Handshake(c)
      PROVE  ConnsTypeOK'
  <2>1. PICK name \in Names \cup {None} :
          /\ sni' = [sni EXCEPT ![c] = name]
          /\ cert' = [cert EXCEPT ![c] = IF name = None THEN 1 ELSE Find(name)]
    BY <1>5 DEF Handshake
  <2>2. sni' \in [Conns -> Names \cup {None}]
    BY <2>1
  <2>3. cert' \in [Conns -> Nat]
    BY <2>1, FindServes
  <2>4. conn' \in [Conns -> {"away", "queued", "ended"} \cup Held]
    BY <1>5 DEF Handshake, Goto
  <2>5. QED
    BY <1>5, <2>2, <2>3, <2>4 DEF Handshake
<1>6. ASSUME NEW c \in Conns, NEW e \in Ends, Send(c, e) \/ SendPart(c, e) \/ Receive(c, e) \/ Close(c, e)
      PROVE  ConnsTypeOK'
  BY <1>6, SendType, CloseType, Zenon
<1>7. ASSUME NEW c \in Conns, Relay(c)
      PROVE  ConnsTypeOK'
  BY <1>7, RelayConns, Zenon
<1>8. ASSUME NEW c \in Conns, UseFreed(c)
      PROVE  ConnsTypeOK'
  BY <1>8 DEF UseFreed
<1>9. CASE UNCHANGED vars
  BY <1>9 DEF vars
<1> HIDE DEF TypeInv, ThreadsTypeOK, ConnsTypeOK, Held, Early, Relaying, routeVars, relayVars,
             dataVars
<1>10. QED
  BY <1>1, <1>2, <1>4, <1>5, <1>6, <1>7, <1>8, <1>9 DEF Next, HandlerStep

\* Before the proxy is created everything is well typed.
LEMMA InitTypes ==
  ASSUME Init
  PROVE  TypeInv
<1>1. ThreadsTypeOK
  BY DEF Init, ThreadsTypeOK
<1>2. [c \in Conns |-> [e \in Ends |-> 0]] \in [Conns -> [Ends -> Nat]]
  OBVIOUS
<1>3. /\ sent \in [Conns -> [Ends -> Nat]] /\ moved \in [Conns -> [Ends -> Nat]]
      /\ put \in [Conns -> [Ends -> Nat]] /\ got \in [Conns -> [Ends -> Nat]]
  BY <1>2 DEF Init
<1>4. peer \in [Conns -> [Ends -> {"open", "closed", "reset"}]]
  BY DEF Init
<1>5. ready \in [Conns -> SUBSET Ends] /\ why \in [Conns -> {"none", "client", "backend", "reset", "idle"}]
  BY DEF Init
<1>6. conn \in [Conns -> {"away", "queued", "ended"} \cup Held]
  BY DEF Init
<1>7. sni \in [Conns -> Names \cup {None}] /\ cert \in [Conns -> Nat] /\ part \subseteq Conns
  BY DEF Init
<1>8. QED
  BY <1>1, <1>3, <1>4, <1>5, <1>6, <1>7 DEF TypeInv, ConnsTypeOK

\* Every variable has its type.
THEOREM TypesHold == Spec => []TypeInv
<1>1. Init => TypeInv
  BY InitTypes
<1>2. TypeInv /\ [Next]_vars => TypeInv'
  BY ProxyAssumption, NextThreads, NextConns DEF TypeInv
<1>3. QED
  BY <1>1, <1>2, PTL DEF Spec

-----------------------------------------------------------------------------
(* Giving the proxy back                                                   *)

\* The steps of the main thread keep the order in which it stops the proxy.
LEMMA MainStop ==
  ASSUME TypeInv, StopInv,
         \/ Create \/ CreateFails \/ Start \/ StartFails \/ Quit \/ MainStep
  PROVE  StopInv'
<1> USE DEF StopInv, TypeInv, ThreadsTypeOK, lpVars
<1>1. CASE Create
  BY <1>1 DEF Create
<1>2. CASE CreateFails
  BY <1>2 DEF CreateFails
<1>3. CASE Start
  BY <1>3 DEF Start
<1>4. CASE StartFails
  BY <1>4 DEF StartFails
<1>5. CASE Quit
  BY <1>5 DEF Quit
<1>6. CASE CloseListener
  BY <1>6 DEF CloseListener
<1>7. CASE Join
  BY <1>7 DEF Join
<1>8. CASE Free
  BY <1>8 DEF Free
<1>9. CASE Exit
  BY <1>9 DEF Exit
<1>10. QED
  BY <1>1, <1>2, <1>3, <1>4, <1>5, <1>6, <1>7, <1>8, <1>9 DEF MainStep

\* The acceptor takes its steps only before the proxy is given back.
LEMMA AcceptorStop ==
  ASSUME TypeInv, StopInv, AcceptorStep
  PROVE  StopInv'
<1> USE DEF StopInv, TypeInv, ThreadsTypeOK, mainVars, lpVars, Touch
<1>1. acceptor \notin {"none", "done"} /\ lp # "freed"
  BY DEF AcceptorStep, Check, Poll, Accept, AcceptFails, Spawn, SpawnFails
<1>2. UNCHANGED <<mainVars, used>>
  BY <1>1 DEF AcceptorStep, Check, Poll, Accept, AcceptFails, Spawn, SpawnFails
<1>3. main # "freeing" /\ (main = "idle" => running)
  BY <1>1
<1>4. QED
  BY <1>1, <1>2, <1>3

\* A handler that needs *lp when it has been given back is a late one.
LEMMA HandlerStop ==
  ASSUME TypeInv, StopInv, NEW c \in Conns, Arrive(c) \/ HandlerStep(c)
  PROVE  StopInv'
<1>1. ASSUME NEW p, Goto(c, p), p \in Early => conn[c] \in Early,
             UNCHANGED <<mainVars, acceptor>>,
             \/ UNCHANGED used
             \/ conn[c] \in Early /\ Touch(c)
      PROVE  StopInv'
  <2>1. \A d \in Conns : conn'[d] \in Early => conn[d] \in Early
    BY <1>1 DEF Goto, TypeInv, ConnsTypeOK
  <2>2. QED
    BY <1>1, <2>1 DEF StopInv, mainVars, lpVars, Touch
<1>2. CASE Arrive(c) \/ NewSsl(c) \/ Handshake(c) \/ Route(c) \/ Refuse(c)
  BY <1>1, <1>2 DEF Arrive, NewSsl, Handshake, Route, Refuse, Early, End
<1>3. CASE UseFreed(c)
  BY <1>3 DEF UseFreed, StopInv, lpVars, Touch
<1>4. CASE Connect(c) \/ BadGateway(c)
  BY <1>1, <1>4 DEF Connect, BadGateway, Early, End
<1>5. CASE Relay(c)
  <2>1. CASE PollEnds(c) \/ TakeEnds(c, "client", "fromClient")
               \/ TakeEnds(c, "backend", "fromBackend")
               \/ GiveEnds(c, "backend", "toBackend") \/ GiveEnds(c, "client", "toClient")
    BY <1>1, <2>1 DEF PollEnds, TakeEnds, GiveEnds, Finish, End, Early
  <2>2. CASE PollReady(c) \/ Take(c, "client", "fromClient", "toBackend", "fromBackend")
               \/ Take(c, "backend", "fromBackend", "toClient", "poll")
    BY <1>1, <2>2 DEF PollReady, Take, Early
  <2>3. CASE Give(c, "backend", "toBackend", "fromBackend")
               \/ Give(c, "client", "toClient", "poll")
    BY <1>1, <2>3 DEF Give, Early
  <2>4. QED
    BY <1>5, <2>1, <2>2, <2>3 DEF Relay
<1>6. QED
  BY <1>2, <1>3, <1>4, <1>5 DEF HandlerStep

\* Every step keeps main thread, running and acceptor tied together.
LEMMA NextStop ==
  ASSUME TypeInv, StopInv, [Next]_vars
  PROVE  StopInv'
<1>1. ASSUME NEW c \in Conns, NEW e \in Ends, Send(c, e) \/ SendPart(c, e) \/ Receive(c, e) \/ Close(c, e)
      PROVE  StopInv'
  <2>1. UNCHANGED <<mainVars, acceptor, conn, used>>
    BY <1>1 DEF Send, SendPart, CanSend, Receive, Close
  <2>2. QED
    BY <2>1 DEF StopInv, mainVars, lpVars
<1>2. CASE UNCHANGED vars
  BY <1>2 DEF vars, StopInv, mainVars, lpVars
<1>3. QED
  BY <1>1, <1>2, MainStop, AcceptorStop, HandlerStop DEF Next

\* Only a handler that had not reached its backend when lp_free gave the proxy
\* back uses it afterwards.
THEOREM FreedUseHolds == Spec => []FreedUse
<1>1. Init => TypeInv /\ StopInv
  BY InitTypes DEF Init, StopInv
<1>2. TypeInv /\ StopInv /\ [Next]_vars => TypeInv' /\ StopInv'
  BY ProxyAssumption, NextThreads, NextConns, NextStop DEF TypeInv
<1>3. StopInv => FreedUse
  BY DEF StopInv, FreedUse
<1>4. QED
  BY <1>1, <1>2, <1>3, PTL DEF Spec

-----------------------------------------------------------------------------
(* The descriptors                                                         *)

\* A connection changes its position, and its descriptors with it.
LEMMA OpenStep ==
  ASSUME TypeInv, DescriptorsClosed, NEW c \in Conns, NEW p \in Positions, Goto(c, p),
         open' \subseteq Conns \X Ends,
         <<c, "client">> \in open' <=> p \in Held,
         <<c, "backend">> \in open' <=> p \in Relaying,
         \A d \in Conns : \A e \in Ends : d # c => (<<d, e>> \in open' <=> <<d, e>> \in open)
  PROVE  DescriptorsClosed'
<1>1. /\ conn'[c] = p /\ \A d \in Conns : d # c => conn'[d] = conn[d]
  BY GotoStep DEF TypeInv, ConnsTypeOK, Positions
<1>2. \A d \in Conns : /\ <<d, "client">> \in open' <=> conn'[d] \in Held
                       /\ <<d, "backend">> \in open' <=> conn'[d] \in Relaying
  BY <1>1 DEF DescriptorsClosed, Ends
<1>3. ASSUME NEW x \in open'
      PROVE  \/ x \in {<<d, "client">> : d \in {d \in Conns : conn'[d] \in Held}}
             \/ x \in {<<d, "backend">> : d \in {d \in Conns : conn'[d] \in Relaying}}
  <2>1. PICK d \in Conns, e \in Ends : x = <<d, e>>
    BY <1>3
  <2>2. QED
    BY <1>2, <1>3, <2>1 DEF Ends
<1>4. /\ {<<d, "client">> : d \in {d \in Conns : conn'[d] \in Held}} \subseteq open'
      /\ {<<d, "backend">> : d \in {d \in Conns : conn'[d] \in Relaying}} \subseteq open'
  BY <1>2
<1>5. QED
  BY <1>3, <1>4 DEF DescriptorsClosed

\* ... none of its descriptors being opened or closed.
LEMMA KeepStep ==
  ASSUME TypeInv, DescriptorsClosed, NEW c \in Conns, NEW p \in Positions, Goto(c, p),
         UNCHANGED open,
         p \in Held <=> conn[c] \in Held, p \in Relaying <=> conn[c] \in Relaying
  PROVE  DescriptorsClosed'
<1>1. /\ <<c, "client">> \in open' <=> p \in Held
      /\ <<c, "backend">> \in open' <=> p \in Relaying
  BY DEF DescriptorsClosed
<1>2. QED
  BY <1>1, OpenStep DEF TypeInv, ThreadsTypeOK

\* ... all of them being closed.
LEMMA EndStep ==
  ASSUME TypeInv, DescriptorsClosed, NEW c \in Conns, End(c)
  PROVE  DescriptorsClosed'
<1>1. "ended" \in Positions /\ "ended" \notin Held /\ "ended" \notin Relaying
  BY DEF Positions, Held, Early, Relaying
<1>2. open' = open \ {<<c, e>> : e \in Ends}
  BY DEF End
<1>3. \A d \in Conns : \A e \in Ends : d # c => (<<d, e>> \in open' <=> <<d, e>> \in open)
  BY <1>2
<1>4. <<c, "client">> \notin open' /\ <<c, "backend">> \notin open'
  BY <1>2 DEF Ends
<1>5. QED
  BY <1>1, <1>2, <1>3, <1>4, OpenStep DEF End, TypeInv, ThreadsTypeOK

OpenInv == TakenInv /\ DescriptorsClosed

\* Only the acceptor accepts.
LEMMA TakenStep ==
  ASSUME TypeInv, TakenInv, NEW c \in Conns, NEW p \in Positions, Goto(c, p),
         p # "accepted", conn[c] # "accepted", UNCHANGED <<acceptor, taken>>
  PROVE  TakenInv'
BY GotoStep DEF TypeInv, ConnsTypeOK, Positions, TakenInv

\* The acceptor opens a client's descriptor, gives it to a handler or closes it.
LEMMA AcceptorOpen ==
  ASSUME TypeInv, OpenInv, AcceptorStep
  PROVE  OpenInv'
<1> USE DEF OpenInv
<1>1. CASE Check \/ Poll \/ AcceptFails
  BY <1>1 DEF Check, Poll, AcceptFails, TakenInv, DescriptorsClosed
<1>2. CASE Accept
  <2>1. PICK c \in Conns : /\ conn[c] = "queued" /\ Goto(c, "accepted") /\ taken' = c
                          /\ open' = open \cup {<<c, "client">>}
    BY <1>2 DEF Accept
  <2>2. "accepted" \in Positions /\ "accepted" \in Held /\ "accepted" \notin Relaying
        /\ "queued" \notin Relaying
    BY DEF Positions, Held, Early, Relaying
  <2>3. <<c, "backend">> \notin open
    BY <2>1, <2>2 DEF DescriptorsClosed
  <2>4. open' \subseteq Conns \X Ends
    BY <2>1 DEF TypeInv, ThreadsTypeOK, Ends
  <2>5. DescriptorsClosed'
    BY <2>1, <2>2, <2>3, <2>4, OpenStep
  <2>6. TakenInv'
    BY <1>2, <2>1, <2>2, GotoStep DEF Accept, TypeInv, ConnsTypeOK, Positions, TakenInv
  <2>7. QED
    BY <2>5, <2>6
<1>3. CASE Spawn \/ SpawnFails
  <2>1. taken \in Conns /\ conn[taken] = "accepted"
        /\ acceptor' = "check"
    BY <1>3 DEF Spawn, SpawnFails, TakenInv
  <2>2. {"starting", "ended"} \subseteq Positions
        /\ "starting" \in Held /\ "accepted" \in Held
        /\ {"starting", "accepted", "ended"} \cap Relaying = {} /\ "ended" \notin Held
    BY DEF Positions, Held, Early, Relaying
  <2>3. PICK p \in {"starting", "ended"} : Goto(taken, p)
    BY <1>3 DEF Spawn, SpawnFails
  <2>4. TakenInv'
    BY <1>3, <2>1, <2>2, <2>3, GotoStep DEF TypeInv, ConnsTypeOK, Positions, TakenInv
  <2>5. CASE Spawn
    BY <2>1, <2>2, <2>4, <2>5, KeepStep DEF Spawn
  <2>6. CASE SpawnFails
    <3>1. /\ <<taken, "backend">> \notin open
          /\ open' = open \ {<<taken, "client">>}
      BY <2>1, <2>2, <2>6 DEF DescriptorsClosed, SpawnFails
    <3>2. QED
      BY <2>1, <2>2, <2>4, <2>6, <3>1, OpenStep DEF SpawnFails, TypeInv, ThreadsTypeOK
  <2>7. QED
    BY <1>3, <2>5, <2>6
<1>4. QED
  BY <1>1, <1>2, <1>3 DEF AcceptorStep

\* A handler closes what it has, and opens its backend.
LEMMA HandlerOpen ==
  ASSUME TypeInv, OpenInv, NEW c \in Conns, Arrive(c) \/ HandlerStep(c)
  PROVE  OpenInv'
<1> USE DEF OpenInv
<1>1. ASSUME End(c), conn[c] # "accepted", UNCHANGED <<acceptor, taken>>
      PROVE  OpenInv'
  BY <1>1, EndStep, TakenStep DEF End, Positions
<1>2. ASSUME NEW p \in Positions, Goto(c, p), p # "accepted", conn[c] # "accepted",
             UNCHANGED <<open, acceptor, taken>>,
             p \in Held <=> conn[c] \in Held, p \in Relaying <=> conn[c] \in Relaying
      PROVE  OpenInv'
  BY <1>2, KeepStep, TakenStep
<1>3. CASE Arrive(c)
  BY <1>2, <1>3 DEF Arrive, Positions, Held, Early, Relaying
<1>4. CASE NewSsl(c) \/ Handshake(c) \/ Route(c)
  BY <1>2, <1>4 DEF NewSsl, Handshake, Route, Positions, Held, Early, Relaying
<1>5. CASE Refuse(c) \/ BadGateway(c)
  BY <1>1, <1>5 DEF Refuse, BadGateway
<1>6. CASE Connect(c)
  <2>1. "poll" \in Positions /\ "poll" \in Held /\ "poll" \in Relaying
        /\ "connecting" \in Held
    BY DEF Positions, Held, Early, Relaying
  <2>2. /\ conn[c] = "connecting" /\ Goto(c, "poll") /\ open' = open \cup {<<c, "backend">>}
        /\ UNCHANGED <<acceptor, taken>>
    BY <1>6 DEF Connect
  <2>3. <<c, "client">> \in open' /\ <<c, "backend">> \in open'
    BY <2>1, <2>2 DEF DescriptorsClosed
  <2>4. open' \subseteq Conns \X Ends
    BY <2>2 DEF TypeInv, ThreadsTypeOK, Ends
  <2>5. DescriptorsClosed'
    BY <2>1, <2>2, <2>3, <2>4, OpenStep
  <2>6. QED
    BY <2>1, <2>2, <2>5, TakenStep
<1>7. CASE UseFreed(c)
  BY <1>7 DEF UseFreed, TakenInv, DescriptorsClosed
<1>8. CASE Relay(c)
  <2>1. CASE PollEnds(c) \/ TakeEnds(c, "client", "fromClient")
               \/ TakeEnds(c, "backend", "fromBackend")
               \/ GiveEnds(c, "backend", "toBackend") \/ GiveEnds(c, "client", "toClient")
    BY <1>1, <2>1 DEF PollEnds, TakeEnds, GiveEnds, Finish
  <2>2. CASE PollReady(c) \/ Take(c, "client", "fromClient", "toBackend", "fromBackend")
               \/ Take(c, "backend", "fromBackend", "toClient", "poll")
    BY <1>2, <2>2 DEF PollReady, Take, Positions, Held, Early, Relaying
  <2>3. CASE Give(c, "backend", "toBackend", "fromBackend")
               \/ Give(c, "client", "toClient", "poll")
    BY <1>2, <2>3 DEF Give, Positions, Held, Early, Relaying
  <2>4. QED
    BY <1>8, <2>1, <2>2, <2>3 DEF Relay
<1>9. QED
  BY <1>3, <1>4, <1>5, <1>6, <1>7, <1>8 DEF HandlerStep

\* Every step keeps descriptors open exactly while they are needed.
LEMMA NextOpen ==
  ASSUME TypeInv, StopInv, OpenInv, [Next]_vars
  PROVE  OpenInv'
<1>1. ASSUME UNCHANGED <<conn, open, acceptor, taken>>
      PROVE  OpenInv'
  BY <1>1 DEF OpenInv, TakenInv, DescriptorsClosed
<1>2. CASE Create \/ CreateFails \/ StartFails \/ Quit \/ Join \/ Free \/ Exit
  BY <1>1, <1>2 DEF Create, CreateFails, StartFails, Quit, Join, Free, Exit
<1>3. CASE Start
  BY <1>3 DEF Start, StopInv, OpenInv, TakenInv, DescriptorsClosed
<1>4. CASE CloseListener
  <2>1. /\ conn' = [c \in Conns |-> IF conn[c] = "queued" THEN "ended" ELSE conn[c]]
        /\ UNCHANGED <<open, acceptor, taken>>
    BY <1>4 DEF CloseListener
  <2>2. \A c \in Conns : /\ conn'[c] \in Held <=> conn[c] \in Held
                         /\ conn'[c] \in Relaying <=> conn[c] \in Relaying
                         /\ conn'[c] = "accepted" <=> conn[c] = "accepted"
    BY <2>1 DEF Held, Early, Relaying
  <2>3. QED
    BY <2>1, <2>2 DEF OpenInv, TakenInv, DescriptorsClosed
<1>5. ASSUME NEW c \in Conns, NEW e \in Ends, Send(c, e) \/ SendPart(c, e) \/ Receive(c, e) \/ Close(c, e)
      PROVE  OpenInv'
  BY <1>1, <1>5 DEF Send, SendPart, CanSend, Receive, Close
<1>6. CASE UNCHANGED vars
  BY <1>1, <1>6 DEF vars
<1>7. QED
  BY <1>2, <1>3, <1>4, <1>5, <1>6, AcceptorOpen, HandlerOpen DEF Next, MainStep

\* At the start no thread runs and no descriptor is open.
LEMMA InitAll ==
  ASSUME Init
  PROVE  TypeInv /\ StopInv /\ OpenInv
<1>1. \A c \in Conns : conn[c] \notin {"accepted"} \cup Held \cup Relaying
  BY DEF Init, Held, Early, Relaying
<1>2. DescriptorsClosed
  BY <1>1 DEF Init, DescriptorsClosed
<1>3. TakenInv
  BY <1>1 DEF Init, TakenInv
<1>4. QED
  BY <1>2, <1>3, InitTypes DEF Init, OpenInv, StopInv

\* On every path of the acceptor and of the handlers, what was opened for a
\* connection is closed when its handler ends.
THEOREM DescriptorsClosedHolds == Spec => []DescriptorsClosed
<1>1. Init => TypeInv /\ StopInv /\ OpenInv
  BY InitAll
<1>2. TypeInv /\ StopInv /\ OpenInv /\ [Next]_vars => TypeInv' /\ StopInv' /\ OpenInv'
  BY ProxyAssumption, NextThreads, NextConns, NextStop, NextOpen DEF TypeInv
<1>3. OpenInv => DescriptorsClosed
  BY DEF OpenInv
<1>4. QED
  BY <1>1, <1>2, <1>3, PTL DEF Spec

-----------------------------------------------------------------------------
(* The data relayed                                                        *)

\* The positions in which a handler has a buffer it has not given yet.
Full == {"toBackend", "toClient"}

\* A connection that starts or ends no relay.
LEMMA MovedKeep ==
  ASSUME TypeInv, MovedInv, NEW c \in Conns, NEW p \in Positions \ Full, Goto(c, p),
         conn[c] \notin Full \cup {"ended"}, UNCHANGED <<sent, moved, put, why>>
  PROVE  MovedInv'
<1>1. /\ conn'[c] = p /\ \A d \in Conns : d # c => conn'[d] = conn[d]
  BY GotoStep DEF TypeInv, ConnsTypeOK, Positions
<1>2. \A d \in Conns : \A e \in Ends : InHand(d, e)' = InHand(d, e)
  BY <1>1 DEF InHand, Full
<1>3. QED
  BY <1>1, <1>2 DEF MovedInv, NothingDropped

\* A relay that ends.
LEMMA MovedFinish ==
  ASSUME TypeInv, MovedInv, NEW c \in Conns, conn[c] # "ended",
         NEW r \in {"client", "backend", "reset", "idle"}, Finish(c, r),
         r \in Ends => put[c][Other(r)] = sent[c][r]
  PROVE  MovedInv'
<1>1. /\ conn'[c] = "ended" /\ why'[c] = r
      /\ \A d \in Conns : d # c => conn'[d] = conn[d] /\ why'[d] = why[d]
  BY FinishStep DEF TypeInv
<1>2. UNCHANGED <<sent, moved, put>>
  BY DEF Finish
<1>3. \A d \in Conns : d # c => \A e \in Ends : InHand(d, e)' = InHand(d, e)
  BY <1>1 DEF InHand
<1>4. NothingDropped'
  BY <1>1, <1>2 DEF NothingDropped, MovedInv
<1>5. QED
  BY <1>1, <1>2, <1>3, <1>4 DEF MovedInv

\* Reading from an end.
LEMMA MovedTake ==
  ASSUME TypeInv, MovedInv, NEW c \in Conns, NEW e \in Ends, NEW from, NEW next,
         from \in Positions \ Full, next \in Positions \ (Full \cup {"ended"}), from # "ended",
         Take(c, e, from, IF e = "client" THEN "toBackend" ELSE "toClient", next)
  PROVE  MovedInv'
<1> DEFINE to == IF e = "client" THEN "toBackend" ELSE "toClient"
<1>1. to \in Positions
  BY DEF Positions, Held, Relaying
<1>2. /\ conn[c] = from /\ UNCHANGED <<sent, put, why>>
  BY DEF Take
<1>3. /\ \A d \in Conns : d # c => conn'[d] = conn[d]
      /\ \/ conn'[c] = next /\ moved' = moved
         \/ /\ conn'[c] = to /\ Unread(c, e) /\ moved'[c][e] = moved[c][e] + 1
            /\ \A d \in Conns : \A f \in Ends : d # c \/ f # e => moved'[d][f] = moved[d][f]
  <2>1. Take(c, e, from, to, next)
    OBVIOUS
  <2>2. next \in Positions /\ ConnsTypeOK
    BY DEF TypeInv
  <2> HIDE DEF to
  <2>3. QED
    BY <1>1, <2>1, <2>2, TakeStep
<1>4. \A d \in Conns : \A f \in Ends : moved[d][f] \in Nat /\ sent[d][f] \in Nat /\ put[d][f] \in Nat
  BY DEF TypeInv, ConnsTypeOK
<1>5. \A d \in Conns : d # c => \A f \in Ends : InHand(d, f)' = InHand(d, f)
  BY <1>3 DEF InHand
<1>6. CASE conn'[c] = next /\ moved' = moved
  <2>1. \A f \in Ends : InHand(c, f)' = 0 /\ InHand(c, f) = 0
    BY <1>2, <1>6 DEF InHand, Full
  <2>2. QED
    BY <1>2, <1>3, <1>5, <1>6, <2>1 DEF MovedInv, NothingDropped
<1>7. CASE /\ conn'[c] = to /\ Unread(c, e) /\ moved'[c][e] = moved[c][e] + 1
           /\ \A d \in Conns : \A f \in Ends : d # c \/ f # e => moved'[d][f] = moved[d][f]
  <2>1. \A f \in Ends : InHand(c, f)' = (IF f = e THEN 1 ELSE 0) /\ InHand(c, f) = 0
    BY <1>2, <1>7 DEF InHand, Full, Ends
  <2>2. \A d \in Conns : \A f \in Ends : moved'[d][f] <= sent'[d][f]
    BY <1>2, <1>4, <1>7 DEF MovedInv, Unread
  <2>3. \A f \in Ends : Other(f) \in Ends
    BY DEF Other, Ends
  <2>4. \A f \in Ends : moved'[c][f] = put'[c][Other(f)] + InHand(c, f)'
    BY <1>2, <1>4, <1>7, <2>1, <2>3 DEF MovedInv
  <2>5. \A d \in Conns : d # c => \A f \in Ends : moved'[d][f] = moved[d][f]
    BY <1>7
  <2>6. conn'[c] # "ended"
    BY <1>7
  <2>7. NothingDropped'
    BY <1>2 DEF NothingDropped, MovedInv
  <2>8. \A d \in Conns : conn'[d] # "ended" =>
          why'[d] = "none" /\ \A f \in Ends : moved'[d][f] = put'[d][Other(f)] + InHand(d, f)'
    <3>1. why'[c] = "none"
      BY <1>2 DEF MovedInv
    <3>2. QED
      BY <1>2, <1>3, <1>5, <2>4, <2>5, <3>1 DEF MovedInv
  <2>9. QED
    BY <2>2, <2>7, <2>8 DEF MovedInv
<1>8. QED
  BY <1>3, <1>6, <1>7

\* Writing to an end.
LEMMA MovedGive ==
  ASSUME TypeInv, MovedInv, NEW c \in Conns, NEW e \in Ends, NEW next,
         next \in Positions \ (Full \cup {"ended"}),
         Give(c, e, IF e = "backend" THEN "toBackend" ELSE "toClient", next)
  PROVE  MovedInv'
<1>1. /\ conn'[c] = next
      /\ \A d \in Conns : d # c => conn'[d] = conn[d]
      /\ put'[c][e] = put[c][e] + 1
      /\ \A d \in Conns : \A f \in Ends : d # c \/ f # e => put'[d][f] = put[d][f]
  BY GiveStep DEF TypeInv
<1>2. /\ conn[c] = (IF e = "backend" THEN "toBackend" ELSE "toClient")
      /\ UNCHANGED <<sent, moved, why>>
  BY DEF Give
<1>3. \A d \in Conns : \A f \in Ends : moved[d][f] \in Nat /\ sent[d][f] \in Nat /\ put[d][f] \in Nat
  BY DEF TypeInv, ConnsTypeOK
<1>4. \A d \in Conns : d # c => \A f \in Ends : InHand(d, f)' = InHand(d, f)
  BY <1>1 DEF InHand
<1>5. \A f \in Ends : /\ InHand(c, f)' = 0
                       /\ InHand(c, f) = (IF Other(f) = e THEN 1 ELSE 0)
                       /\ Other(f) \in Ends
  BY <1>1, <1>2 DEF InHand, Full, Ends, Other
<1>6. why[c] = "none"
  BY <1>2 DEF MovedInv
<1>7. \A f \in Ends : moved'[c][f] = put'[c][Other(f)] + InHand(c, f)'
  BY <1>1, <1>2, <1>3, <1>5 DEF MovedInv
<1>8. \A d \in Conns : d # c => \A f \in Ends : put'[d][Other(f)] = put[d][Other(f)]
  BY <1>1, <1>5
<1>9. \A d \in Conns : conn'[d] # "ended" =>
        why'[d] = "none" /\ \A f \in Ends : moved'[d][f] = put'[d][Other(f)] + InHand(d, f)'
  BY <1>1, <1>2, <1>4, <1>6, <1>7, <1>8 DEF MovedInv
<1>10. NothingDropped'
  BY <1>2, <1>6, <1>8 DEF NothingDropped, MovedInv, Ends
<1>11. QED
  BY <1>2, <1>9, <1>10 DEF MovedInv

\* One step of a relay loses nothing of what it has taken from an end.
LEMMA MovedRelay ==
  ASSUME TypeInv, MovedInv, NEW c \in Conns, Relay(c)
  PROVE  MovedInv'
<1>1. {"fromClient", "fromBackend", "poll"} \subseteq Positions \ (Full \cup {"ended"})
  BY DEF Positions, Held, Relaying, Full
<1>2. CASE PollEnds(c)
  BY <1>2, MovedFinish DEF PollEnds, Ends
<1>3. CASE PollReady(c)
  BY <1>1, <1>3, MovedKeep DEF PollReady, dataVars, Full
<1>4. ASSUME NEW e \in Ends, NEW from \in {"fromClient", "fromBackend"}, TakeEnds(c, e, from)
      PROVE  MovedInv'
  <2>1. CASE Finish(c, "reset")
    BY <1>4, <2>1, MovedFinish DEF TakeEnds, Ends
  <2>2. CASE ~Unread(c, e) /\ Finish(c, e)
    <3>1. /\ moved[c][e] \in Nat /\ sent[c][e] \in Nat /\ Other(e) \in Ends
          /\ put[c][Other(e)] \in Nat
      BY DEF TypeInv, ConnsTypeOK, Other, Ends
    <3>2. conn[c] \in {"fromClient", "fromBackend"} /\ InHand(c, e) = 0
      BY <1>4 DEF TakeEnds, InHand
    <3>3. moved[c][e] = put[c][Other(e)] + InHand(c, e) /\ moved[c][e] <= sent[c][e]
      BY <3>2 DEF MovedInv
    <3>4. put[c][Other(e)] = sent[c][e]
      BY <2>2, <3>1, <3>2, <3>3 DEF Unread
    <3>5. QED
      BY <1>4, <2>2, <3>2, <3>4, MovedFinish DEF Ends
  <2>3. QED
    BY <1>4, <2>1, <2>2 DEF TakeEnds
<1>5. ASSUME NEW e \in Ends, NEW from \in Full, GiveEnds(c, e, from)
      PROVE  MovedInv'
  BY <1>5, MovedFinish DEF GiveEnds, Full, Ends
<1>6. CASE Take(c, "client", "fromClient", "toBackend", "fromBackend")
  BY <1>1, <1>6, MovedTake DEF Ends
<1>7. CASE Take(c, "backend", "fromBackend", "toClient", "poll")
  BY <1>1, <1>7, MovedTake DEF Ends
<1>8. CASE Give(c, "backend", "toBackend", "fromBackend")
  BY <1>1, <1>8, MovedGive DEF Ends
<1>9. CASE Give(c, "client", "toClient", "poll")
  BY <1>1, <1>9, MovedGive DEF Ends
<1>10. QED
  BY <1>2, <1>3, <1>4, <1>5, <1>6, <1>7, <1>8, <1>9 DEF Relay, Ends, Full

\* Every step keeps what was taken equal to what was given and the buffer in hand.
LEMMA NextMoved ==
  ASSUME TypeInv, TakenInv, MovedInv, [Next]_vars
  PROVE  MovedInv'
<1>1. ASSUME UNCHANGED <<conn, sent, moved, put, why>>
      PROVE  MovedInv'
  BY <1>1 DEF MovedInv, InHand, NothingDropped
<1>2. CASE Create \/ CreateFails \/ Start \/ StartFails \/ Quit \/ Join \/ Free \/ Exit
           \/ Check \/ Poll \/ AcceptFails
  BY <1>1, <1>2 DEF Create, CreateFails, Start, StartFails, Quit, Join, Free, Exit, Check,
                    Poll, AcceptFails, relayVars, dataVars
<1>3. CASE CloseListener
  <2>1. /\ conn' = [c \in Conns |-> IF conn[c] = "queued" THEN "ended" ELSE conn[c]]
        /\ UNCHANGED <<sent, moved, put, why>>
    BY <1>3 DEF CloseListener, relayVars, dataVars
  <2>2. \A c \in Conns : /\ conn'[c] # "ended" => conn[c] # "ended"
                         /\ \A e \in Ends : InHand(c, e)' = InHand(c, e)
    BY <2>1 DEF InHand
  <2>3. QED
    BY <2>1, <2>2 DEF MovedInv, NothingDropped
<1>4. ASSUME NEW c \in Conns, NEW p \in {"accepted", "queued", "starting", "handshake", "connecting",
                                       "routing", "poll", "ended"},
             Goto(c, p), conn[c] \notin Full \cup {"ended"}, UNCHANGED <<sent, moved, put, why>>
      PROVE  MovedInv'
  <2>1. p \in Positions \ Full
    BY DEF Positions, Held, Early, Relaying, Full
  <2>2. QED
    BY <1>4, <2>1, MovedKeep
<1>5. CASE Accept
  BY <1>4, <1>5 DEF Accept, relayVars, dataVars, Full
<1>6. CASE Spawn \/ SpawnFails
  <2>1. taken \in Conns /\ conn[taken] = "accepted"
    BY <1>6 DEF Spawn, SpawnFails, TakenInv
  <2>2. QED
    BY <1>4, <1>6, <2>1 DEF Spawn, SpawnFails, relayVars, dataVars, Full
<1>7. ASSUME NEW c \in Conns, Arrive(c) \/ NewSsl(c) \/ Handshake(c) \/ Route(c)
                             \/ Connect(c) \/ Refuse(c) \/ BadGateway(c)
      PROVE  MovedInv'
  BY <1>4, <1>7 DEF Arrive, NewSsl, Handshake, Route, Connect, Refuse, BadGateway, End,
                    relayVars, dataVars, Full
<1>8. ASSUME NEW c \in Conns, UseFreed(c)
      PROVE  MovedInv'
  BY <1>1, <1>8 DEF UseFreed, relayVars, dataVars
<1>9. ASSUME NEW c \in Conns, NEW e \in Ends, Send(c, e)
      PROVE  MovedInv'
  <2>1. /\ UNCHANGED <<conn, moved, put, why>> /\ conn[c] # "ended"
    BY <1>9 DEF Send, CanSend, Relaying
  <2>2. /\ sent'[c][e] = sent[c][e] + 1
        /\ \A d \in Conns : \A f \in Ends : d # c \/ f # e => sent'[d][f] = sent[d][f]
    BY <1>9, CountStep DEF Send, Count, TypeInv, ConnsTypeOK
  <2>3. \A d \in Conns : \A f \in Ends : sent[d][f] \in Nat /\ moved[d][f] \in Nat
    BY DEF TypeInv, ConnsTypeOK
  <2>4. \A d \in Conns : \A f \in Ends : moved'[d][f] <= sent'[d][f]
    BY <2>1, <2>2, <2>3 DEF MovedInv
  <2>5. why[c] = "none" /\ "none" \notin Ends
    BY <2>1 DEF MovedInv, Ends
  <2>6. NothingDropped'
    BY <2>1, <2>2, <2>5 DEF MovedInv, NothingDropped
  <2>7. QED
    BY <2>1, <2>4, <2>6 DEF MovedInv, InHand
<1>10. ASSUME NEW c \in Conns, NEW e \in Ends, SendPart(c, e) \/ Receive(c, e) \/ Close(c, e)
      PROVE  MovedInv'
  BY <1>1, <1>10 DEF SendPart, Receive, Close
<1>11. CASE UNCHANGED vars
  BY <1>1, <1>11 DEF vars, relayVars, dataVars
<1>12. QED
  BY <1>2, <1>3, <1>5, <1>6, <1>7, <1>8, <1>9, <1>10, <1>11, MovedRelay
     DEF Next, MainStep, AcceptorStep, HandlerStep

\* A relay that ends because one end has closed in order has given everything
\* this end had sent to the other one.
THEOREM NothingDroppedHolds == Spec => []NothingDropped
<1>1. ASSUME Init PROVE TypeInv /\ StopInv /\ OpenInv /\ MovedInv
  <2>1. \A c \in Conns : conn[c] = "away" /\ why[c] = "none"
    BY <1>1 DEF Init
  <2>2. \A c \in Conns : \A e \in Ends :
          sent[c][e] = 0 /\ moved[c][e] = 0 /\ put[c][e] = 0 /\ InHand(c, e) = 0
    BY <1>1, <2>1 DEF Init, InHand
  <2>3. \A e \in Ends : Other(e) \in Ends /\ e # "none"
    BY DEF Ends, Other
  <2>4. MovedInv
    BY <2>1, <2>2, <2>3 DEF MovedInv, NothingDropped
  <2>5. QED
    BY <1>1, <2>4, InitAll
<1>2. TypeInv /\ StopInv /\ OpenInv /\ MovedInv /\ [Next]_vars
        => TypeInv' /\ StopInv' /\ OpenInv' /\ MovedInv'
  BY ProxyAssumption, NextThreads, NextConns, NextStop, NextOpen, NextMoved DEF TypeInv, OpenInv
<1>3. MovedInv => NothingDropped
  BY DEF MovedInv
<1>4. QED
  BY <1>1, <1>2, <1>3, PTL DEF Spec

-----------------------------------------------------------------------------
(* The backend                                                             *)

\* The positions from which a connection has its backend.
Routed == {"connecting"} \cup Relaying

\* Each connection has a port.
HasPorts == port = [c \in Conns |-> port[c]]

\* A step that routes nothing: it goes from one position to the next, and lets
\* names, certificates, ports and virtual hosts be.
LEMMA RouteKeep ==
  ASSUME TypeInv, RouteInv, NEW c \in Conns, NEW p \in Positions \ {"routing"}, Goto(c, p),
         p \in Routed => conn[c] \in Routed, conn[c] # "away" \/ main # "start",
         UNCHANGED <<main, vhosts, routeVars>>
  PROVE  RouteInv'
<1>1. /\ conn'[c] = p /\ \A d \in Conns : d # c => conn'[d] = conn[d]
  BY GotoStep DEF TypeInv, ConnsTypeOK, Positions
<1>2. main # "start"
  BY DEF RouteInv
<1>3. \A name : Serving(name)' = Serving(name) /\ Find(name)' = Find(name)
  BY DEF Serving, Find
<1>4. OwnBackend'
  BY <1>1 DEF RouteInv, OwnBackend, Routed, routeVars
<1>5. QED
  BY <1>1, <1>2, <1>3, <1>4 DEF RouteInv, routeVars

\* A step that moves no connection, names, certificates, ports or virtual hosts.
LEMMA RouteSame ==
  ASSUME RouteInv, main' # "start", UNCHANGED <<conn, vhosts, routeVars>>
  PROVE  RouteInv'
<1>1. \A name : Serving(name)' = Serving(name) /\ Find(name)' = Find(name)
  BY DEF Serving, Find
<1>2. QED
  BY <1>1 DEF RouteInv, OwnBackend, routeVars

\* The handshake finds the host asked for; its certificate is shown.
LEMMA HandshakeRoute ==
  ASSUME ProxyAssumption, TypeInv, RouteInv, NEW c \in Conns, Handshake(c)
  PROVE  RouteInv'
<1>1. PICK name \in Names \cup {None} :
        /\ name = None \/ Find(name) # 0
        /\ sni' = [sni EXCEPT ![c] = name]
        /\ cert' = [cert EXCEPT ![c] = IF name = None THEN 1 ELSE Find(name)]
  BY DEF Handshake
<1>2. /\ sni'[c] = name /\ cert'[c] = (IF name = None THEN 1 ELSE Find(name))
      /\ \A d \in Conns : d # c => sni'[d] = sni[d] /\ cert'[d] = cert[d]
  BY <1>1 DEF TypeInv, ConnsTypeOK
<1>3. "routing" \in Positions
  BY DEF Positions, Held, Early
<1>4. /\ conn'[c] = "routing" /\ \A d \in Conns : d # c => conn'[d] = conn[d]
  BY <1>3, GotoStep DEF Handshake, TypeInv, ConnsTypeOK, Positions
<1>5. /\ UNCHANGED <<main, vhosts, port>> /\ conn[c] = "handshake"
  BY DEF Handshake, mainVars, lpVars
<1>6. \A n : Serving(n)' = Serving(n) /\ Find(n)' = Find(n)
  BY <1>5 DEF Serving, Find
<1>7. name # None => Serving(name) # {}
  BY <1>1 DEF Find
<1>8. main # "start"
  BY <1>5 DEF RouteInv
<1>9. OwnBackend'
  BY <1>2, <1>4, <1>5 DEF RouteInv, OwnBackend, Relaying
<1>10. QED
  BY <1>2, <1>4, <1>5, <1>6, <1>7, <1>8, <1>9 DEF RouteInv

\* The port is that of the host the handshake found.
LEMMA RouteRoute ==
  ASSUME ProxyAssumption, TypeInv, RouteInv, NEW c \in Conns, Route(c),
         HasPorts
  PROVE  RouteInv'
<1>1. /\ conn[c] = "routing" /\ sni[c] # None /\ UNCHANGED <<main, vhosts, sni, cert>>
  BY DEF Route, mainVars, lpVars
<1>2. /\ port'[c] = Hosts[vhosts[Find(sni[c])]].port
      /\ \A d \in Conns : d # c => port'[d] = port[d]
  BY DEF Route, HasPorts
<1>3. "connecting" \in Positions
  BY DEF Positions, Held
<1>4. /\ conn'[c] = "connecting" /\ \A d \in Conns : d # c => conn'[d] = conn[d]
  BY <1>3, GotoStep DEF Route, TypeInv, ConnsTypeOK, Positions
<1>5. \A n : Serving(n)' = Serving(n) /\ Find(n)' = Find(n)
  BY <1>1 DEF Serving, Find
<1>6. cert[c] = Find(sni[c]) /\ Find(sni[c]) \in Serving(sni[c]) /\ cert[c] # 0
  BY <1>1, FindServes DEF RouteInv
<1>7. Hosts[vhosts[cert[c]]].name = sni[c] /\ Hosts[vhosts[cert[c]]].port = port'[c]
  BY <1>2, <1>6 DEF Serving
<1>8. OwnBackend'
  BY <1>1, <1>2, <1>4, <1>6, <1>7 DEF RouteInv, OwnBackend, Relaying
<1>9. QED
  BY <1>1, <1>4, <1>5, <1>8 DEF RouteInv

\* Every step keeps a client on the route of the name it was shown.
LEMMA NextRoute ==
  ASSUME ProxyAssumption, TypeInv, StopInv, TakenInv, RouteInv, HasPorts,
         [Next]_vars
  PROVE  RouteInv'
<1> USE DEF mainVars, lpVars
<1>1. CASE Create
  <2>1. \A c \in Conns : conn'[c] = "away"
    BY <1>1 DEF Create, RouteInv
  <2>2. main' # "start"
    BY <1>1 DEF Create
  <2>3. QED
    BY <2>1, <2>2 DEF RouteInv, OwnBackend, Relaying
<1>2. CASE CreateFails \/ Start \/ StartFails \/ Quit \/ Join \/ Free \/ Exit
  BY <1>2, RouteSame DEF CreateFails, Start, StartFails, Quit, Join, Free, Exit
<1>3. CASE Check \/ Poll \/ AcceptFails
  <2>1. main # "start"
    BY <1>3 DEF StopInv, Check, Poll, AcceptFails
  <2>2. QED
    BY <1>3, <2>1, RouteSame DEF Check, Poll, AcceptFails
<1>4. CASE CloseListener
  <2>1. /\ conn' = [c \in Conns |-> IF conn[c] = "queued" THEN "ended" ELSE conn[c]]
        /\ UNCHANGED <<vhosts, routeVars>> /\ main' # "start"
    BY <1>4 DEF CloseListener
  <2>2. \A c \in Conns : conn'[c] \in Routed \cup {"routing"} => conn'[c] = conn[c]
    BY <2>1 DEF Routed, Relaying
  <2>3. \A name : Serving(name)' = Serving(name) /\ Find(name)' = Find(name)
    BY <2>1 DEF Serving, Find
  <2>4. QED
    BY <2>1, <2>2, <2>3 DEF RouteInv, OwnBackend, routeVars, Routed
<1>5. CASE Accept
  <2>1. PICK c \in Conns : conn[c] = "queued" /\ Goto(c, "accepted")
    BY <1>5 DEF Accept
  <2>2. QED
    BY <1>5, <2>1, RouteKeep DEF Accept, Positions, Held, Routed, Relaying
<1>6. CASE Spawn \/ SpawnFails
  <2>1. taken \in Conns /\ conn[taken] = "accepted"
    BY <1>6 DEF Spawn, SpawnFails, TakenInv
  <2>2. QED
    BY <1>6, <2>1, RouteKeep DEF Spawn, SpawnFails, Positions, Held, Early, Routed, Relaying
<1>7. ASSUME NEW c \in Conns, Arrive(c)
      PROVE  RouteInv'
  <2>1. main # "start"
    BY <1>7 DEF StopInv, Arrive
  <2>2. QED
    BY <1>7, <2>1, RouteKeep DEF Arrive, Positions, Held, Routed, Relaying
<1>8. ASSUME NEW c \in Conns, NewSsl(c) \/ Connect(c) \/ Refuse(c) \/ BadGateway(c)
      PROVE  RouteInv'
  <2>1. conn[c] # "away"
    BY <1>8 DEF NewSsl, Connect, Refuse, BadGateway
  <2>2. QED
    BY <1>8, <2>1, RouteKeep
       DEF NewSsl, Connect, Refuse, BadGateway, End, Positions, Held, Early, Routed, Relaying
<1>9. ASSUME NEW c \in Conns, UseFreed(c)
      PROVE  RouteInv'
  BY <1>9, RouteSame DEF UseFreed
<1>10. ASSUME NEW c \in Conns, Relay(c)
      PROVE  RouteInv'
  <2>1. PICK p \in Relaying \cup {"ended"} : Goto(c, p)
    BY <1>10 DEF Relay, PollEnds, PollReady, Take, TakeEnds, Give, GiveEnds, Finish, End, Relaying
  <2>2. conn[c] \in Relaying /\ UNCHANGED <<main, vhosts, routeVars>>
    BY <1>10 DEF Relay, PollEnds, PollReady, Take, TakeEnds, Give, GiveEnds, Finish, Relaying
  <2>3. p \in Positions \ {"routing"} /\ conn[c] # "away"
    BY <2>2 DEF Positions, Held, Relaying
  <2>4. QED
    BY <2>1, <2>2, <2>3, RouteKeep DEF Routed
<1>11. ASSUME NEW c \in Conns, NEW e \in Ends, Send(c, e) \/ SendPart(c, e) \/ Receive(c, e) \/ Close(c, e)
      PROVE  RouteInv'
  <2>1. main # "start"
    BY <1>11 DEF RouteInv, Send, SendPart, CanSend, Receive, Close, Relaying
  <2>2. QED
    BY <1>11, <2>1, RouteSame DEF Send, SendPart, CanSend, Receive, Close
<1>12. CASE UNCHANGED vars
  BY <1>12 DEF vars, RouteInv, OwnBackend, routeVars, Serving, Find
<1>13. QED
  BY <1>1, <1>2, <1>3, <1>4, <1>5, <1>6, <1>7, <1>8, <1>9, <1>10, <1>11, <1>12,
     HandshakeRoute, RouteRoute
     DEF Next, MainStep, AcceptorStep, HandlerStep

\* Every step leaves a port for each connection.
LEMMA NextPorts ==
  ASSUME HasPorts, [Next]_vars
  PROVE  HasPorts'
<1>1. CASE UNCHANGED port
  BY <1>1 DEF HasPorts
<1>2. ASSUME NEW c \in Conns, Route(c)
      PROVE  HasPorts'
  BY <1>2 DEF Route, HasPorts
<1>3. ASSUME ~ \E c \in Conns : Route(c)
      PROVE  UNCHANGED port
  <2> USE DEF routeVars
  <2>1. CASE Create \/ CreateFails \/ Start \/ StartFails \/ Quit \/ MainStep \/ AcceptorStep
    BY <2>1 DEF Create, CreateFails, Start, StartFails, Quit, MainStep, CloseListener, Join,
                Free, Exit, AcceptorStep, Check, Poll, Accept, AcceptFails, Spawn, SpawnFails
  <2>2. ASSUME NEW c \in Conns, Arrive(c) \/ NewSsl(c) \/ Handshake(c) \/ Refuse(c) \/ UseFreed(c)
                               \/ Connect(c) \/ BadGateway(c)
        PROVE  UNCHANGED port
    BY <2>2 DEF Arrive, NewSsl, Handshake, Refuse, UseFreed, Connect, BadGateway
  <2>3. ASSUME NEW c \in Conns, Relay(c)
        PROVE  UNCHANGED port
    BY <2>3 DEF Relay, PollEnds, PollReady, Take, TakeEnds, Give, GiveEnds, Finish
  <2>4. ASSUME NEW c \in Conns, NEW e \in Ends, Send(c, e) \/ SendPart(c, e) \/ Receive(c, e) \/ Close(c, e)
        PROVE  UNCHANGED port
    BY <2>4 DEF Send, SendPart, CanSend, Receive, Close
  <2>5. CASE UNCHANGED vars
    BY <2>5 DEF vars
  <2>6. QED
    BY <1>3, <2>1, <2>2, <2>3, <2>4, <2>5 DEF Next, HandlerStep
<1>4. QED
  BY <1>1, <1>2, <1>3

\* A client reaches the backend of the host it asked for, whose certificate it was
\* shown, also when several hosts have one name or some got no certificate.
THEOREM OwnBackendHolds == Spec => []OwnBackend
<1>1. Init => TypeInv /\ StopInv /\ OpenInv /\ HasPorts /\ RouteInv
  BY InitAll DEF Init, HasPorts, RouteInv, OwnBackend, Relaying
<1>2. TypeInv /\ StopInv /\ OpenInv /\ HasPorts /\ RouteInv /\ [Next]_vars
        => TypeInv' /\ StopInv' /\ OpenInv' /\ HasPorts' /\ RouteInv'
  BY ProxyAssumption, NextThreads, NextConns, NextStop, NextOpen, NextPorts, NextRoute
     DEF TypeInv, OpenInv
<1>3. RouteInv => OwnBackend
  BY DEF RouteInv
<1>4. QED
  BY <1>1, <1>2, <1>3, PTL DEF Spec

-----------------------------------------------------------------------------
(* The buffers of the kernel                                               *)

\* A step that moves no data and closes no end.
LEMMA BufferKeep ==
  ASSUME BufferInv, UNCHANGED dataVars
  PROVE  BufferInv'
BY DEF BufferInv, dataVars

\* Of one connection and one end, whatever the others do.
BufferOf(c, e) ==
  /\ sent[c][e] - moved[c][e] \in 0..Room
  /\ put[c][e] - got[c][e] \in 0..Room
  /\ peer[c][e] = "closed" => put[c][e] = got[c][e]

\* The other buffers are as they were.
LEMMA BufferOthers ==
  ASSUME BufferInv, NEW c \in Conns, NEW e \in Ends, BufferOf(c, e)',
         \A d \in Conns : \A f \in Ends : d # c \/ f # e =>
           /\ sent'[d][f] = sent[d][f] /\ moved'[d][f] = moved[d][f]
           /\ put'[d][f] = put[d][f] /\ got'[d][f] = got[d][f]
           /\ peer'[d][f] = peer[d][f]
  PROVE  BufferInv'
BY DEF BufferInv, BufferOf

\* An end changes its state, the others do not.
LEMMA PeerOthers ==
  ASSUME ConnsTypeOK, NEW c \in Conns, NEW e \in Ends, NEW state, SetPeer(c, e, state)
  PROVE  /\ peer'[c][e] = state
         /\ \A d \in Conns : \A f \in Ends : d # c \/ f # e => peer'[d][f] = peer[d][f]
<1>1. peer' = [peer EXCEPT ![c] = [peer[c] EXCEPT ![e] = state]]
  BY DEF SetPeer
<1>2. /\ peer'[c] = [peer[c] EXCEPT ![e] = state]
      /\ \A d \in Conns : d # c => peer'[d] = peer[d]
  BY <1>1 DEF ConnsTypeOK
<1>3. peer[c] \in [Ends -> PeerStates]
  BY DEF ConnsTypeOK, PeerStates
<1>4. QED
  BY <1>2, <1>3

\* What is counted is a number.
LEMMA Counters ==
  ASSUME ConnsTypeOK, NEW c \in Conns, NEW e \in Ends
  PROVE  sent[c][e] \in Nat /\ moved[c][e] \in Nat /\ put[c][e] \in Nat /\ got[c][e] \in Nat
BY DEF ConnsTypeOK

\* An end sends as long as there is room, receives what is there, and closes in
\* order only when it has received everything.
LEMMA EndBuffers ==
  ASSUME ProxyAssumption, ConnsTypeOK, BufferInv, NEW c \in Conns, NEW e \in Ends,
         Send(c, e) \/ SendPart(c, e) \/ Receive(c, e) \/ Close(c, e)
  PROVE  BufferInv'
<1> USE Counters DEF ProxyAssumption
<1>1. BufferOf(c, e)
  BY DEF BufferInv, BufferOf
<1>2. CASE Send(c, e)
  <2>1. /\ sent'[c][e] = sent[c][e] + 1
        /\ \A d \in Conns : \A f \in Ends : d # c \/ f # e => sent'[d][f] = sent[d][f]
    BY <1>2, CountStep DEF Send, Count, ConnsTypeOK
  <2>2. UNCHANGED <<moved, put, got, peer>> /\ sent[c][e] - moved[c][e] < Room
    BY <1>2 DEF Send, CanSend
  <2>3. BufferOf(c, e)'
    BY <1>1, <2>1, <2>2 DEF BufferOf
  <2>4. QED
    BY <2>1, <2>2, <2>3, BufferOthers
<1>3. CASE Receive(c, e)
  <2>1. /\ got'[c][e] = got[c][e] + 1
        /\ \A d \in Conns : \A f \in Ends : d # c \/ f # e => got'[d][f] = got[d][f]
    BY <1>3, CountStep DEF Receive, Count, ConnsTypeOK
  <2>2. UNCHANGED <<sent, moved, put, peer>> /\ got[c][e] < put[c][e] /\ peer[c][e] = "open"
    BY <1>3 DEF Receive
  <2>3. BufferOf(c, e)'
    BY <1>1, <2>1, <2>2 DEF BufferOf
  <2>4. QED
    BY <2>1, <2>2, <2>3, BufferOthers
<1>4. CASE Close(c, e)
  <2>1. PICK state \in {"closed", "reset"} :
          SetPeer(c, e, state) /\ (state = "closed" => put[c][e] = got[c][e])
    BY <1>4 DEF Close
  <2>2. UNCHANGED <<sent, moved, put, got>>
    BY <1>4 DEF Close
  <2>3. /\ peer'[c][e] = state
        /\ \A d \in Conns : \A f \in Ends : d # c \/ f # e => peer'[d][f] = peer[d][f]
    BY <2>1, PeerOthers
  <2>4. BufferOf(c, e)'
    BY <1>1, <2>1, <2>2, <2>3 DEF BufferOf
  <2>5. QED
    BY <2>2, <2>3, <2>4, BufferOthers
<1>5. CASE SendPart(c, e)
  BY <1>5 DEF SendPart, BufferInv
<1>6. QED
  BY <1>2, <1>3, <1>4, <1>5

\* A relay that ends resets some ends.
LEMMA FinishBuffers ==
  ASSUME ConnsTypeOK, BufferInv, NEW c \in Conns, NEW r, Finish(c, r)
  PROVE  BufferInv'
<1>1. UNCHANGED <<sent, moved, put, got>>
  BY DEF Finish
<1>2. PICK hit \in SUBSET Ends :
        peer' = [peer EXCEPT ![c] = [e \in Ends |-> IF e \in hit THEN "reset" ELSE peer[c][e]]]
  BY DEF Finish
<1>3. \A d \in Conns : \A e \in Ends : peer'[d][e] = peer[d][e] \/ peer'[d][e] = "reset"
  BY <1>2 DEF ConnsTypeOK
<1>4. QED
  BY <1>1, <1>3 DEF BufferInv

\* The handler takes what is unread, and gives when there is room or to an end
\* that has closed.
LEMMA TakeBuffers ==
  ASSUME ProxyAssumption, ConnsTypeOK, BufferInv, NEW c \in Conns, NEW e \in Ends, NEW from,
         NEW to \in Positions, NEW next \in Positions, Take(c, e, from, to, next)
  PROVE  BufferInv'
<1> USE Counters DEF ProxyAssumption
<1>1. BufferOf(c, e)
  BY DEF BufferInv, BufferOf
<1>2. UNCHANGED <<part, sent, put, got, peer>>
  BY DEF Take
<1>3. CASE moved' = moved
  BY <1>2, <1>3, BufferKeep DEF dataVars
<1>4. CASE Unread(c, e) /\ Count(moved, c, e)
  <2>1. /\ moved'[c][e] = moved[c][e] + 1
        /\ \A d \in Conns : \A f \in Ends : d # c \/ f # e => moved'[d][f] = moved[d][f]
    BY <1>4, CountStep DEF Count, ConnsTypeOK
  <2>2. BufferOf(c, e)'
    BY <1>1, <1>2, <1>4, <2>1 DEF BufferOf, Unread
  <2>3. QED
    BY <1>2, <2>1, <2>2, BufferOthers
<1>5. QED
  BY <1>3, <1>4 DEF Take

\* A buffer that is given to an end finds room there.
LEMMA GiveBuffers ==
  ASSUME ProxyAssumption, ConnsTypeOK, BufferInv, NEW c \in Conns, NEW e \in Ends, NEW from,
         NEW next, Give(c, e, from, next)
  PROVE  BufferInv'
<1> USE Counters DEF ProxyAssumption
<1>1. BufferOf(c, e)
  BY DEF BufferInv, BufferOf
<1>2. /\ UNCHANGED <<sent, moved, got>>
      /\ put'[c][e] = put[c][e] + 1
      /\ \A d \in Conns : \A f \in Ends : d # c \/ f # e => put'[d][f] = put[d][f]
  BY CountStep DEF Give, Count, ConnsTypeOK
<1>3. CASE peer[c][e] = "open" /\ RoomTo(c, e) /\ UNCHANGED peer
  <2>1. BufferOf(c, e)'
    BY <1>1, <1>2, <1>3 DEF BufferOf, RoomTo
  <2>2. QED
    BY <1>2, <1>3, <2>1, BufferOthers
<1>4. CASE peer[c][e] = "closed" /\ SetPeer(c, e, "reset")
  <2>1. /\ peer'[c][e] = "reset"
        /\ \A d \in Conns : \A f \in Ends : d # c \/ f # e => peer'[d][f] = peer[d][f]
    BY <1>4, PeerOthers
  <2>2. BufferOf(c, e)'
    BY <1>1, <1>2, <1>4, <2>1 DEF BufferOf
  <2>3. QED
    BY <1>2, <2>1, <2>2, BufferOthers
<1>5. QED
  BY <1>3, <1>4 DEF Give

\* Every step keeps room for the buffer in hand.
LEMMA NextBuffers ==
  ASSUME ProxyAssumption, ConnsTypeOK, BufferInv, [Next]_vars
  PROVE  BufferInv'
<1>1. ASSUME NEW c \in Conns, NEW e \in Ends, Send(c, e) \/ SendPart(c, e) \/ Receive(c, e) \/ Close(c, e)
      PROVE  BufferInv'
  BY <1>1, EndBuffers
<1>2. ASSUME NEW c \in Conns, Relay(c)
      PROVE  BufferInv'
  <2> USE DEF Ends
  <2>1. CASE PollReady(c)
    BY <2>1, BufferKeep DEF PollReady
  <2>2. CASE \E r : Finish(c, r)
    BY <2>2, FinishBuffers
  <2>3. {"fromClient", "fromBackend", "toClient", "toBackend", "poll"} \subseteq Positions
    BY DEF Positions, Held, Relaying
  <2>4. CASE \/ Take(c, "client", "fromClient", "toBackend", "fromBackend")
             \/ Take(c, "backend", "fromBackend", "toClient", "poll")
    BY <2>3, <2>4, TakeBuffers
  <2>5. CASE \/ Give(c, "backend", "toBackend", "fromBackend")
             \/ Give(c, "client", "toClient", "poll")
    BY <2>5, GiveBuffers
  <2>6. QED
    BY <1>2, <2>1, <2>2, <2>4, <2>5 DEF Relay, PollEnds, TakeEnds, GiveEnds
<1>3. CASE UNCHANGED dataVars
  BY <1>3, BufferKeep
<1>4. CASE \/ Create \/ CreateFails \/ Start \/ StartFails \/ Quit \/ MainStep \/ AcceptorStep
           \/ UNCHANGED vars
  <2>1. UNCHANGED dataVars
    BY <1>4 DEF Create, CreateFails, Start, StartFails, Quit, MainStep, CloseListener, Join,
                Free, Exit, AcceptorStep, Check, Poll, Accept, AcceptFails, Spawn, SpawnFails,
                vars, relayVars
  <2>2. QED
    BY <1>3, <2>1
<1>5. ASSUME NEW c \in Conns, Arrive(c) \/ NewSsl(c) \/ Handshake(c) \/ Route(c) \/ Refuse(c)
                             \/ UseFreed(c) \/ Connect(c) \/ BadGateway(c)
      PROVE  BufferInv'
  <2>1. UNCHANGED dataVars
    BY <1>5 DEF Arrive, NewSsl, Handshake, Route, Refuse, UseFreed, Connect, BadGateway, relayVars
  <2>2. QED
    BY <1>3, <2>1
<1>6. QED
  BY <1>1, <1>2, <1>4, <1>5 DEF Next, HandlerStep

-----------------------------------------------------------------------------
(* The table of virtual hosts                                              *)

\* lp_create serves hosts of the configuration, as many as the table has room for.
LEMMA VhostsType ==
  ASSUME ProxyAssumption, NEW certified
  PROVE  /\ Vhosts(certified) \in Seq(DOMAIN Hosts)
         /\ Len(Vhosts(certified)) <= MaxVhosts
<1> DEFINE D == DOMAIN Hosts
           chosen == [i \in D |-> IF Hosts[i].port # 0 /\ i \in certified THEN <<i>> ELSE <<>>]
           eligible == Eligible(certified)
           n == IF Len(eligible) > MaxVhosts THEN MaxVhosts ELSE Len(eligible)
<1>1. Len(Hosts) \in Nat /\ D = 1..Len(Hosts)
  BY LenProperties DEF ProxyAssumption
<1>2. chosen \in Seq(Seq(D))
  <2>1. \A i \in D : <<i>> \in Seq(D) /\ <<>> \in Seq(D)
    OBVIOUS
  <2>2. chosen \in [1..Len(Hosts) -> Seq(D)]
    BY <1>1, <2>1
  <2>3. QED
    BY <1>1, <2>2
<1>3. eligible \in Seq(D) /\ Len(eligible) \in Nat
  BY <1>2, FlattenType, LenProperties DEF Eligible
<1> HIDE DEF eligible
<1>4. n \in Nat /\ n <= MaxVhosts /\ n <= Len(eligible)
  BY <1>3 DEF ProxyAssumption
<1>5. \A i \in 1..n : eligible[i] \in D
  BY <1>3, <1>4, ElementOfSeq
<1>6. SubSeq(eligible, 1, n) \in Seq(D) /\ Len(SubSeq(eligible, 1, n)) <= n
  <2> HIDE DEF n, D
  <2>1. QED
    BY <1>4, <1>5, SubSeqProperties
<1>7. QED
  BY <1>4, <1>6 DEF Vhosts, eligible, ProxyAssumption

\* A step of a connection that is there already, which routes nothing and is
\* shown no certificate.
LEMMA TableKeep ==
  ASSUME TableInv, ConnsTypeOK, NEW c \in Conns, NEW p \in Positions, Goto(c, p),
         conn[c] # "away" \/ listening, main' # "start", main' = "created" => main = "created",
         UNCHANGED <<vhosts, listening, cert, port>>,
         acceptor' = acceptor \/ acceptor # "none"
  PROVE  TableInv'
<1>1. vhosts # <<>>
  BY DEF TableInv
<1>2. QED
  BY <1>1 DEF TableInv

\* A step of the threads that leaves the table and the connections alone.
LEMMA TableSame ==
  ASSUME TableInv, UNCHANGED <<vhosts, conn, cert, port>>, main' # "start",
         main' = "created" => main = "created",
         listening' => listening, acceptor' = acceptor \/ acceptor # "none"
  PROVE  TableInv'
BY DEF TableInv

\* The certificate shown is that of a host of the table.
LEMMA HandshakeTable ==
  ASSUME ProxyAssumption, TableInv, ConnsTypeOK, NEW c \in Conns, Handshake(c)
  PROVE  TableInv'
<1>1. /\ UNCHANGED <<main, vhosts, listening, port, acceptor>> /\ conn[c] = "handshake"
      /\ Goto(c, "routing")
  BY DEF Handshake, mainVars, lpVars
<1>2. vhosts # <<>> /\ main # "start"
  BY <1>1 DEF TableInv
<1>3. Len(vhosts) \in Nat \ {0}
  BY <1>2, EmptySeq DEF TableInv
<1>4. PICK name \in Names \cup {None} :
        cert' = [cert EXCEPT ![c] = IF name = None THEN 1 ELSE Find(name)]
  BY DEF Handshake
<1>5. (IF name = None THEN 1 ELSE Find(name)) <= Len(vhosts)
  <2>1. Find(name) <= Len(vhosts)
    <3>1. CASE Serving(name) = {}
      BY <1>3, <3>1 DEF Find
    <3>2. CASE Serving(name) # {}
      BY <3>2, FindServes DEF Serving
    <3>3. QED
      BY <3>1, <3>2
  <2>2. QED
    BY <1>3, <2>1
<1>6. \A d \in Conns : cert'[d] <= Len(vhosts)
  BY <1>4, <1>5 DEF TableInv, ConnsTypeOK
<1>7. QED
  BY <1>1, <1>2, <1>6 DEF TableInv

\* The backend's port is that of a host of the configuration.
LEMMA RouteTable ==
  ASSUME ProxyAssumption, TableInv, ConnsTypeOK, RouteInv, NEW c \in Conns, Route(c)
  PROVE  TableInv'
<1>1. /\ UNCHANGED <<main, vhosts, listening, cert, acceptor>>
      /\ conn[c] = "routing" /\ sni[c] # None /\ Goto(c, "connecting")
      /\ port' = [port EXCEPT ![c] = Hosts[vhosts[Find(sni[c])]].port]
  BY DEF Route, mainVars, lpVars
<1>2. vhosts # <<>> /\ main # "start"
  BY <1>1 DEF TableInv
<1>3. Find(sni[c]) \in Serving(sni[c])
  BY <1>1, FindServes DEF RouteInv
<1>4. Find(sni[c]) \in 1..Len(vhosts)
  BY <1>3 DEF Serving, ProxyAssumption
<1>5. vhosts[Find(sni[c])] \in DOMAIN Hosts
  BY <1>4, ElementOfSeq DEF TableInv
<1>6. Hosts[vhosts[Find(sni[c])]] \in [name : Names, port : Nat]
  <2>1. Hosts \in Seq([name : Names, port : Nat]) /\ DOMAIN Hosts = 1..Len(Hosts)
    BY ProxyAssumption, LenProperties DEF ProxyAssumption
  <2>2. \A i \in 1..Len(Hosts) : Hosts[i] \in [name : Names, port : Nat]
    BY <2>1, ElementOfSeq
  <2> QED
    BY <1>5, <2>1, <2>2
<1>7. port' \in [Conns -> Nat]
  BY <1>1, <1>6 DEF TableInv
<1>8. QED
  BY <1>1, <1>2, <1>7 DEF TableInv

\* Every step keeps the virtual hosts within their table.
LEMMA NextTable ==
  ASSUME ProxyAssumption, TypeInv, StopInv, TakenInv, RouteInv, TableInv, [Next]_vars
  PROVE  TableInv'
<1> USE DEF mainVars, lpVars, routeVars
<1>0. ConnsTypeOK
  BY DEF TypeInv
<1>1. CASE Create
  <2>1. PICK certified : vhosts' = Vhosts(certified)
    BY <1>1 DEF Create
  <2>2. vhosts' \in Seq(DOMAIN Hosts) /\ Len(vhosts') <= MaxVhosts /\ Len(vhosts') \in Nat
    BY <2>1, VhostsType, LenProperties
  <2>3. /\ UNCHANGED <<conn, cert, port, acceptor, listening>> /\ main = "start"
        /\ main' = IF vhosts' = <<>> THEN "idle" ELSE "created"
    BY <1>1 DEF Create
  <2>4. \A c \in Conns : cert[c] <= 0
    <3>1. vhosts = <<>> /\ Len(vhosts) = 0
      BY <2>3 DEF TableInv
    <3>2. QED
      BY <3>1 DEF TableInv
  <2>5. \A c \in Conns : cert[c] \in Nat /\ conn[c] = "away"
    BY <2>3 DEF TypeInv, ConnsTypeOK, RouteInv
  <2>6. acceptor = "none" /\ ~listening
    BY <2>3 DEF StopInv
  <2>7. \A c \in Conns : cert'[c] <= Len(vhosts')
    BY <2>2, <2>3, <2>4, <2>5
  <2>8. QED
    BY <2>2, <2>3, <2>5, <2>6, <2>7 DEF TableInv
<1>2. CASE CreateFails \/ StartFails \/ Quit \/ Join \/ Free \/ Exit
  BY <1>2, TableSame DEF CreateFails, StartFails, Quit, Join, Free, Exit
<1>3. CASE Start
  BY <1>3 DEF Start, TableInv
<1>4. CASE Check \/ Poll \/ AcceptFails
  <2>1. main # "start" /\ acceptor # "none"
    BY <1>4 DEF StopInv, Check, Poll, AcceptFails
  <2>2. QED
    BY <1>4, <2>1, TableSame DEF Check, Poll, AcceptFails
<1>5. CASE CloseListener
  <2>1. /\ UNCHANGED <<vhosts, cert, port, acceptor>> /\ ~listening' /\ main' = "joining"
        /\ conn' = [c \in Conns |-> IF conn[c] = "queued" THEN "ended" ELSE conn[c]]
    BY <1>5 DEF CloseListener
  <2>2. \A c \in Conns : conn[c] = "away" => conn'[c] = "away"
    BY <2>1
  <2>3. QED
    BY <2>1, <2>2 DEF TableInv
<1>6. CASE Accept
  <2>1. PICK c \in Conns : conn[c] = "queued" /\ Goto(c, "accepted")
    BY <1>6 DEF Accept
  <2>2. acceptor = "accepting" /\ main # "start" /\ UNCHANGED <<main, vhosts, listening, cert, port>>
    BY <1>6 DEF Accept, StopInv
  <2>3. QED
    BY <1>0, <2>1, <2>2, TableKeep DEF Positions, Held
<1>7. CASE Spawn \/ SpawnFails
  <2>1. taken \in Conns /\ conn[taken] = "accepted"
    BY <1>7 DEF Spawn, SpawnFails, TakenInv
  <2>2. acceptor = "spawning" /\ main # "start" /\ UNCHANGED <<main, vhosts, listening, cert, port>>
    BY <1>7 DEF Spawn, SpawnFails, StopInv
  <2>3. Goto(taken, "starting") \/ Goto(taken, "ended")
    BY <1>7 DEF Spawn, SpawnFails
  <2>4. QED
    BY <1>0, <2>1, <2>2, <2>3, TableKeep DEF Positions, Held, Early
<1>8. ASSUME NEW c \in Conns, Arrive(c)
      PROVE  TableInv'
  <2>1. main # "start" /\ listening /\ UNCHANGED <<main, vhosts, listening, cert, port, acceptor>>
    BY <1>8 DEF StopInv, Arrive
  <2>2. Goto(c, "queued")
    BY <1>8 DEF Arrive
  <2>3. QED
    BY <1>0, <2>1, <2>2, TableKeep DEF Positions
<1>9. ASSUME NEW c \in Conns, NEW p \in Positions, Goto(c, p), conn[c] # "away",
             UNCHANGED <<main, vhosts, listening, cert, port, acceptor>>
      PROVE  TableInv'
  <2>1. main # "start"
    BY <1>9 DEF RouteInv
  <2>2. QED
    BY <1>0, <1>9, <2>1, TableKeep
<1>10. ASSUME NEW c \in Conns, NewSsl(c) \/ Connect(c) \/ Refuse(c) \/ BadGateway(c)
      PROVE  TableInv'
  BY <1>9, <1>10 DEF NewSsl, Connect, Refuse, BadGateway, End, Positions, Held, Early, Relaying
<1>11. ASSUME NEW c \in Conns, UseFreed(c)
      PROVE  TableInv'
  BY <1>11, TableSame DEF UseFreed
<1>12. ASSUME NEW c \in Conns, Relay(c)
      PROVE  TableInv'
  <2>1. PICK p \in Relaying \cup {"ended"} : Goto(c, p)
    BY <1>12 DEF Relay, PollEnds, PollReady, Take, TakeEnds, Give, GiveEnds, Finish, End, Relaying
  <2>2. conn[c] \in Relaying /\ UNCHANGED <<main, vhosts, listening, cert, port, acceptor>>
    BY <1>12 DEF Relay, PollEnds, PollReady, Take, TakeEnds, Give, GiveEnds, Finish, Relaying
  <2>3. p \in Positions /\ conn[c] # "away"
    BY <2>2 DEF Positions, Held, Relaying
  <2>4. QED
    BY <1>9, <2>1, <2>2, <2>3
<1>13. ASSUME NEW c \in Conns, NEW e \in Ends, Send(c, e) \/ SendPart(c, e) \/ Receive(c, e) \/ Close(c, e)
      PROVE  TableInv'
  <2>1. main # "start"
    BY <1>13 DEF RouteInv, Send, SendPart, CanSend, Receive, Close, Relaying
  <2>2. QED
    BY <1>13, <2>1, TableSame DEF Send, SendPart, CanSend, Receive, Close
<1>14. CASE UNCHANGED vars
  BY <1>14 DEF vars, TableInv
<1>15. QED
  BY <1>0, <1>1, <1>2, <1>3, <1>4, <1>5, <1>6, <1>7, <1>8, <1>10, <1>11, <1>12, <1>13, <1>14,
     HandshakeTable, RouteTable
     DEF Next, MainStep, AcceptorStep, HandlerStep

\* The proxy never holds more virtual hosts than LP_MAX_VHOSTS, never shows a
\* certificate that is not in its table, and never has more data on its way than
\* the kernel's buffers hold, with any number of hosts, connections and buffers.
THEOREM TypeCorrect == Spec => []TypeOK
<1> DEFINE Inv == TypeInv /\ StopInv /\ OpenInv /\ HasPorts /\ RouteInv /\ TableInv /\ BufferInv
<1>1. ASSUME Init PROVE Inv
  <2>1. TypeInv /\ StopInv /\ OpenInv /\ HasPorts /\ RouteInv
    BY <1>1, InitAll DEF Init, HasPorts, RouteInv, OwnBackend, Relaying
  <2>2. <<>> \in Seq(DOMAIN Hosts) /\ Len(<<>>) = 0
    BY EmptySeq
  <2>3. TableInv
    BY <1>1, <2>2, ProxyAssumption DEF Init, TableInv, ProxyAssumption
  <2>4. BufferInv
    BY <1>1, ProxyAssumption DEF Init, BufferInv, ProxyAssumption
  <2>5. QED
    BY <2>1, <2>3, <2>4
<1>2. Inv /\ [Next]_vars => Inv'
  BY ProxyAssumption, NextThreads, NextConns, NextStop, NextOpen, NextPorts, NextRoute,
     NextTable, NextBuffers
     DEF TypeInv, OpenInv
<1>3. Inv => TypeOK
  BY DEF TypeInv, TableInv, BufferInv, TypeOK
<1> HIDE DEF Inv
<1>4. QED
  BY <1>1, <1>2, <1>3, PTL DEF Spec
=============================================================================
