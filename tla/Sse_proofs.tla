----------------------------- MODULE Sse_proofs -----------------------------
(***************************************************************************)
(* Theorems about the broadcaster of Sse, for every value of its           *)
(* constants.                                                              *)
(***************************************************************************)
EXTENDS Sse, SequenceTheorems, FiniteSetTheorems, TLAPS

-----------------------------------------------------------------------------
(* Facts about the streams                                                 *)

\* An event that moves from the pipe to the browser keeps its place.
LEMMA ReadKeepsStream ==
  ASSUME NEW S, NEW r \in Seq(S), NEW p \in Seq(S), p # <<>>
  PROVE  /\ Head(p) \in S /\ Tail(p) \in Seq(S)
         /\ Append(r, Head(p)) \o Tail(p) = r \o p
<1>1. Head(p) \in S /\ Tail(p) \in Seq(S)
  BY HeadTailProperties
<1>2. <<Head(p)>> \in Seq(S) /\ Append(r, Head(p)) = r \o <<Head(p)>>
  BY <1>1, AppendIsConcat
<1>3. (r \o <<Head(p)>>) \o Tail(p) = r \o (<<Head(p)>> \o Tail(p))
  BY <1>1, <1>2, ConcatAssociative
<1>4. <<Head(p)>> \o Tail(p) = p
  <2> DEFINE q == <<Head(p)>> \o Tail(p)
  <2>1. Len(Tail(p)) = Len(p) - 1 /\ \A i \in 1..Len(Tail(p)) : Tail(p)[i] = p[i + 1]
    BY HeadTailProperties
  <2>2. Len(p) \in Nat \ {0}
    BY EmptySeq
  <2>3. Len(<<Head(p)>>) = 1 /\ <<Head(p)>>[1] = p[1]
    BY <2>2
  <2>4. /\ q \in Seq(S) /\ Len(q) = Len(p)
        /\ \A i \in 1..Len(p) : q[i] = IF i <= 1 THEN p[1] ELSE Tail(p)[i - 1]
    BY <1>1, <1>2, <2>1, <2>2, <2>3, ConcatProperties
  <2>5. \A i \in 1..Len(p) : q[i] = p[i]
    BY <2>1, <2>2, <2>4
  <2> QED
    BY <2>4, <2>5, SeqEqual
<1> QED
  BY <1>1, <1>2, <1>3, <1>4

\* An event written to the pipe comes after everything in the stream.
LEMMA WriteExtendsStream ==
  ASSUME NEW S, NEW r \in Seq(S), NEW p \in Seq(S), NEW b \in S
  PROVE  Append(p, b) \in Seq(S) /\ r \o Append(p, b) = Append(r \o p, b)
<1>1. <<b>> \in Seq(S) /\ Append(p, b) \in Seq(S) /\ Append(p, b) = p \o <<b>>
  BY AppendProperties, AppendIsConcat
<1>2. r \o p \in Seq(S) /\ Append(r \o p, b) = (r \o p) \o <<b>>
  BY ConcatProperties, AppendIsConcat
<1> QED
  BY <1>1, <1>2, ConcatAssociative

\* A new event at the end of the log leaves what was written before alone.
LEMMA LogKeepsStream ==
  ASSUME NEW S, NEW l \in Seq(S), NEW b \in S, NEW j \in Nat
  PROVE  SubSeq(Append(l, b), j + 1, Len(l)) = SubSeq(l, j + 1, Len(l))
<1> DEFINE u == SubSeq(Append(l, b), j + 1, Len(l))
           v == SubSeq(l, j + 1, Len(l))
<1>1. Len(l) \in Nat
  OBVIOUS
<1>2. /\ Append(l, b) \in Seq(S) /\ Len(Append(l, b)) = Len(l) + 1
      /\ \A i \in 1..Len(l) : Append(l, b)[i] = l[i]
  BY AppendProperties
<1>3. \A i \in (j + 1)..Len(l) : l[i] \in S /\ Append(l, b)[i] \in S
  BY <1>1, <1>2, ElementOfSeq
<1>4. /\ u \in Seq(S) /\ Len(u) = IF j + 1 <= Len(l) THEN Len(l) - (j + 1) + 1 ELSE 0
      /\ \A i \in 1..(Len(l) - (j + 1) + 1) : u[i] = Append(l, b)[(j + 1) + i - 1]
  BY <1>1, <1>3, SubSeqProperties
<1>5. /\ v \in Seq(S) /\ Len(v) = IF j + 1 <= Len(l) THEN Len(l) - (j + 1) + 1 ELSE 0
      /\ \A i \in 1..(Len(l) - (j + 1) + 1) : v[i] = l[(j + 1) + i - 1]
  BY <1>1, <1>3, SubSeqProperties
<1>6. Len(u) = Len(v) /\ \A i \in 1..Len(u) : u[i] = v[i]
  BY <1>1, <1>2, <1>4, <1>5
<1> QED
  BY <1>4, <1>5, <1>6, SeqEqual

\* What is written up to the last event is what was written before it, and it.
LEMMA LastOfStream ==
  ASSUME NEW S, NEW l \in Seq(S), l # <<>>, NEW j \in Nat, j <= Len(l) - 1
  PROVE  SubSeq(l, j + 1, Len(l)) = Append(SubSeq(l, j + 1, Len(l) - 1), l[Len(l)])
<1>1. Len(l) \in Nat \ {0}
  BY EmptySeq
<1>2. j + 1 \in 1..Len(l) /\ Len(l) \in (j + 1)..Len(l)
  BY <1>1
<1>3. SubSeq(l, j + 1, Len(l)) = SubSeq(l, j + 1, Len(l) - 1) \o <<l[Len(l)]>>
  BY <1>2, SubSeqRecursiveSecond
<1>4. l[Len(l)] \in S
  BY <1>1, ElementOfSeq
<1>5. SubSeq(l, j + 1, Len(l) - 1) \in Seq(S)
  <2>1. \A i \in (j + 1)..(Len(l) - 1) : l[i] \in S
    BY <1>1, ElementOfSeq
  <2> QED
    BY <1>1, <2>1, SubSeqProperties
<1> QED
  BY <1>3, <1>4, <1>5, AppendIsConcat

-----------------------------------------------------------------------------
(* The invariant, until a failed response miscounts                        *)

IInv == TypeOK /\ StreamInv

\* Nobody is connected at the start.
LEMMA InitStream == Init => IInv
<1> USE ConstantsAssumption DEF Init, IInv
<1>1. Init => TypeOK
  <2>1. Init => miscounted \in BOOLEAN
    OBVIOUS
  <2>2. Init => clients \in [Slots -> Client] /\ received \in [Connections -> Seq(Broadcasts)]
    BY EmptySeq DEF Slots, Client, EmptyClient
  <2>3. Init => log \in Seq(Broadcasts)
    BY EmptySeq
  <2> QED
    BY <2>1, <2>2, <2>3 DEF TypeOK
<1>2. Init => StreamInv
  BY DEF StreamInv, DistinctSlots, StreamsAgree, Connected
<1> QED
  BY <1>1, <1>2

\* What the current step has written for a client is a prefix of the log.
LEMMA WrittenNat ==
  ASSUME IInv, NEW c \in Connections
  PROVE  Written(c) \in Nat /\ joined[c] \in Nat
<1>1. Len(log) \in Nat
  BY DEF IInv, TypeOK
<1>2. mutex # None => Len(log) \in Nat \ {0}
  BY EmptySeq DEF IInv, TypeOK, StreamInv
<1> QED
  BY <1>1, <1>2 DEF Written, IInv, TypeOK

\* A connection that is refused, told to its browser, or left by it keeps every
\* stream as it is.
LEMMA QuietStep ==
  ASSUME IInv, NEW c \in Connections,
         \/ Refuse(c) \/ Respond(c) \/ Leave(c) \/ Stall(c)
  PROVE  IInv'
<1> USE ConstantsAssumption DEF IInv
<1>1. /\ UNCHANGED <<clients, numClients, slot, received, joined, mutex, cast, index, log>>
      /\ gone' \subseteq Connections /\ stalled' \subseteq Connections
      /\ turnedAway' \subseteq Connections /\ miscounted' = miscounted
  <2>1. CASE Refuse(c)
    BY <2>1 DEF Refuse, envVars, castVars, TypeOK
  <2>2. CASE Respond(c) \/ Leave(c) \/ Stall(c)
    BY <2>2 DEF Respond, Leave, Stall, connVars, envVars, castVars, TypeOK
  <2> QED
    BY <2>1, <2>2
<1>0. \/ conn' = conn
      \/ conn[c] = "idle" /\ conn' = [conn EXCEPT ![c] = "refused"]
      \/ conn[c] = "adding" /\ conn' = [conn EXCEPT ![c] = "open"]
  BY DEF Refuse, Respond, Leave, Stall, connVars
<1>2. TypeOK'
  BY <1>0, <1>1 DEF TypeOK
<1>3. Connected' = Connected
  BY <1>0 DEF Connected, TypeOK
<1>4. \A d \in Connections : Written(d)' = Written(d)
  BY <1>1 DEF Written
<1>5. \A d \in Connections : conn'[d] = "idle" => conn[d] = "idle"
  BY <1>0 DEF TypeOK
<1>6. DistinctSlots' /\ StreamsAgree'
  <2>1. DistinctSlots'
    BY <1>1, <1>3 DEF DistinctSlots, StreamInv
  <2>2. \A d \in Connected : Written(d)' = Written(d)
    BY <1>4 DEF Connected
  <2>3. StreamsAgree'
    BY <1>1, <1>3, <2>2 DEF StreamsAgree, StreamInv
  <2> QED
    BY <2>1, <2>3
<1>7. \A d \in Connected' : joined'[d] <= Written(d)'
  BY <1>1, <1>3, <1>4 DEF StreamInv, Connected
<1> QED
  BY <1>1, <1>2, <1>5, <1>6, <1>7 DEF StreamInv

\* A call of sse_broadcast that has not taken the mutex touches no stream.
LEMMA CallStep ==
  ASSUME IInv, NEW b \in Broadcasts, Call(b) \/ Drop(b)
  PROVE  IInv'
<1> USE ConstantsAssumption DEF IInv
<1>1. /\ UNCHANGED <<clients, numClients, connVars, envVars, mutex, index, log>>
      /\ \E st \in {"called", "dropped"} : cast' = [cast EXCEPT ![b] = st]
      /\ cast[b] # "writing"
  BY DEF Call, Drop
<1>2. TypeOK'
  BY <1>1 DEF TypeOK, connVars, envVars
<1>3. /\ \A d \in Broadcasts : cast'[d] = "writing" <=> cast[d] = "writing"
  BY <1>1 DEF TypeOK
<1>4. DistinctSlots' /\ StreamsAgree' /\ \A d \in Connected' : joined'[d] <= Written(d)'
  BY <1>1 DEF DistinctSlots, StreamsAgree, StreamInv, Connected, Written, connVars
<1>5. mutex \in Broadcasts \cup {None}
  BY DEF TypeOK
<1> QED
  BY <1>1, <1>2, <1>3, <1>4, <1>5 DEF StreamInv, connVars

\* A new client starts an empty stream at the end of the log.
LEMMA AddStep ==
  ASSUME IInv, NEW c \in Connections, Add(c)
  PROVE  IInv'
<1> USE ConstantsAssumption DEF IInv
<1> DEFINE n == numClients + 1
<1>1. /\ conn[c] = "idle" /\ mutex = None /\ numClients < MaxClients
      /\ clients' = [clients EXCEPT ![n] = [active |-> TRUE, pipe |-> <<>>]]
      /\ numClients' = n
      /\ slot' = [slot EXCEPT ![c] = n]
      /\ conn' = [conn EXCEPT ![c] = "adding"]
      /\ joined' = [joined EXCEPT ![c] = Len(log)]
      /\ UNCHANGED <<received, turnedAway, miscounted, gone, stalled, mutex, cast, index, log>>
  BY DEF Add, MutexFree, envVars, castVars
<1>2. n \in Slots /\ numClients \in Nat /\ Len(log) \in Nat
  BY <1>1 DEF TypeOK, Slots
<1>3. TypeOK'
  <2>1. [active |-> TRUE, pipe |-> <<>>] \in Client
    BY EmptySeq DEF Client
  <2>2. clients' \in [Slots -> Client]
    BY <1>1, <1>2, <2>1 DEF TypeOK
  <2> QED
    BY <1>1, <1>2, <2>2 DEF TypeOK, Slots
<1>4. Connected' = Connected \cup {c} /\ c \notin Connected
  BY <1>1 DEF Connected, TypeOK
<1>5. \A d \in Connected : /\ slot'[d] = slot[d] /\ slot[d] \in 1..numClients
                           /\ joined'[d] = joined[d]
                           /\ clients'[slot[d]] = clients[slot[d]]
  BY <1>1, <1>2, <1>4 DEF TypeOK, StreamInv, DistinctSlots, Connected, Slots
<1>6. /\ slot'[c] = n /\ joined'[c] = Len(log) /\ received'[c] = <<>>
      /\ clients'[n].active /\ clients'[n].pipe = <<>>
  BY <1>1, <1>2 DEF TypeOK, StreamInv
<1>7. \A d \in Connections : Written(d)' = Len(log) /\ Written(d) = Len(log)
  BY <1>1 DEF Written
<1>8. DistinctSlots'
  <2>1. \A d \in Connected' : slot'[d] \in 1..numClients' /\ clients'[slot'[d]].active
    BY <1>1, <1>2, <1>4, <1>5, <1>6 DEF StreamInv, DistinctSlots
  <2>2. \A d, e \in Connected' : slot'[d] = slot'[e] => d = e
    BY <1>1, <1>2, <1>4, <1>5, <1>6 DEF StreamInv, DistinctSlots
  <2> QED
    BY <2>1, <2>2 DEF DistinctSlots
<1>9. StreamsAgree'
  <2>1. \A d \in Connected :
          received'[d] \o clients'[slot'[d]].pipe = SubSeq(log', joined'[d] + 1, Written(d)')
    <3> SUFFICES ASSUME NEW d \in Connected
                 PROVE  received'[d] \o clients'[slot'[d]].pipe
                          = SubSeq(log', joined'[d] + 1, Written(d)')
      OBVIOUS
    <3>1. d \in Connections
      BY DEF Connected
    <3>2. received[d] \o clients[slot[d]].pipe = SubSeq(log, joined[d] + 1, Written(d))
      BY DEF StreamInv, StreamsAgree
    <3> QED
      BY <1>1, <1>5, <1>7, <3>1, <3>2
  <2>2. received'[c] \o clients'[slot'[c]].pipe = SubSeq(log', joined'[c] + 1, Written(c)')
    <3>1. SubSeq(log, Len(log) + 1, Len(log)) = <<>>
      BY <1>2, SubSeqEmpty
    <3>2. <<>> \o <<>> = <<>>
      BY EmptySeq, ConcatEmptySeq
    <3>3. received'[c] \o clients'[slot'[c]].pipe = <<>>
      BY <1>6, <3>2
    <3> QED
      BY <1>1, <1>6, <1>7, <3>1, <3>3
  <2> QED
    BY <1>4, <2>1, <2>2 DEF StreamsAgree
<1>10. \A d \in Connected' : joined'[d] <= Written(d)'
  BY <1>2, <1>4, <1>5, <1>6, <1>7 DEF StreamInv, Connected
<1>11. \A d \in Connections : conn'[d] = "idle" => received'[d] = <<>>
  BY <1>1 DEF StreamInv, TypeOK
<1> QED
  BY <1>1, <1>3, <1>8, <1>9, <1>10, <1>11 DEF StreamInv

\* The reader callback moves the oldest event of its own pipe.
LEMMA ReadStep ==
  ASSUME IInv, NEW c \in Connections, Read(c)
  PROVE  IInv'
<1> USE ConstantsAssumption DEF IInv
<1> DEFINE s == slot[c]
           p == clients[s].pipe
<1>1. /\ conn[c] = "open" /\ p # <<>>
      /\ received' = [received EXCEPT ![c] = Append(@, Head(p))]
      /\ clients' = [clients EXCEPT ![s].pipe = Tail(@)]
      /\ UNCHANGED <<numClients, conn, slot, joined, turnedAway, miscounted, gone, stalled,
                     mutex, cast, index, log>>
  BY DEF Read, envVars, castVars
<1>2. c \in Connected /\ s \in Slots /\ Connected' = Connected
  BY <1>1 DEF Connected, StreamInv, DistinctSlots, TypeOK, Slots
<1>3. clients[s] \in Client /\ p \in Seq(Broadcasts) /\ received[c] \in Seq(Broadcasts)
  BY <1>2 DEF TypeOK, Client
<1>4. /\ Head(p) \in Broadcasts /\ Tail(p) \in Seq(Broadcasts)
      /\ Append(received[c], Head(p)) \o Tail(p) = received[c] \o p
      /\ Append(received[c], Head(p)) \in Seq(Broadcasts)
  <2>1. p # <<>>
    BY <1>1
  <2> HIDE DEF p
  <2>2. /\ Head(p) \in Broadcasts /\ Tail(p) \in Seq(Broadcasts)
        /\ Append(received[c], Head(p)) \o Tail(p) = received[c] \o p
    BY <1>3, <2>1, ReadKeepsStream
  <2>3. Append(received[c], Head(p)) \in Seq(Broadcasts)
    BY <1>3, <2>2, AppendProperties
  <2> QED
    BY <2>2, <2>3
<1>5. /\ clients' \in [Slots -> Client]
      /\ clients'[s].pipe = Tail(p)
      /\ \A t \in Slots : /\ clients'[t].active = clients[t].active
                          /\ t # s => clients'[t] = clients[t]
  <2>1. clients' = [clients EXCEPT ![s] = [@ EXCEPT !.pipe = Tail(p)]]
    BY <1>1
  <2>2. /\ [clients[s] EXCEPT !.pipe = Tail(p)] \in Client
        /\ [clients[s] EXCEPT !.pipe = Tail(p)].pipe = Tail(p)
        /\ [clients[s] EXCEPT !.pipe = Tail(p)].active = clients[s].active
    BY <1>3, <1>4 DEF Client
  <2> QED
    BY <1>2, <2>1, <2>2 DEF TypeOK
<1>6. /\ received' \in [Connections -> Seq(Broadcasts)]
      /\ received'[c] = Append(received[c], Head(p))
      /\ \A d \in Connections : d # c => received'[d] = received[d]
  BY <1>1, <1>4 DEF TypeOK
<1>7. TypeOK'
  BY <1>1, <1>5, <1>6 DEF TypeOK
<1> HIDE DEF p
<1>8. \A d \in Connections : Written(d)' = Written(d)
  BY <1>1 DEF Written
<1>9. DistinctSlots'
  <2>1. \A d \in Connected : slot[d] \in Slots
    BY DEF StreamInv, DistinctSlots, TypeOK, Slots
  <2>2. \A d \in Connected : clients'[slot[d]].active
    BY <1>5, <2>1 DEF StreamInv, DistinctSlots
  <2> QED
    BY <1>1, <1>2, <2>2 DEF DistinctSlots, StreamInv
<1>10. StreamsAgree'
  <2>1. \A d \in Connected : d # c =>
          received'[d] \o clients'[slot'[d]].pipe = SubSeq(log', joined'[d] + 1, Written(d)')
    <3> SUFFICES ASSUME NEW d \in Connected, d # c
                 PROVE  received'[d] \o clients'[slot'[d]].pipe
                          = SubSeq(log', joined'[d] + 1, Written(d)')
      OBVIOUS
    <3>1. d \in Connections /\ slot[d] \in Slots /\ slot[d] # s
      BY <1>2 DEF StreamInv, DistinctSlots, Connected, TypeOK, Slots
    <3> QED
      BY <1>1, <1>5, <1>6, <1>8, <3>1 DEF StreamInv, StreamsAgree
  <2>2. received'[c] \o clients'[slot'[c]].pipe = SubSeq(log', joined'[c] + 1, Written(c)')
    <3>1. received[c] \o p = SubSeq(log, joined[c] + 1, Written(c))
      BY <1>2 DEF StreamInv, StreamsAgree, p
    <3> QED
      BY <1>1, <1>4, <1>5, <1>6, <1>8, <3>1
  <2> QED
    BY <1>2, <2>1, <2>2 DEF StreamsAgree
<1>11. \A d \in Connected' : joined'[d] <= Written(d)'
  BY <1>1, <1>2, <1>8 DEF StreamInv, Connected
<1>12. \A d \in Connections : conn'[d] = "idle" => received'[d] = <<>>
  BY <1>1, <1>6 DEF StreamInv
<1> QED
  BY <1>1, <1>7, <1>9, <1>10, <1>11, <1>12 DEF StreamInv

\* Closing a connection empties its own client and leaves the others alone.
LEMMA CloseStep ==
  ASSUME IInv, NEW c \in Connections, conn[c] = "open", Close(c)
  PROVE  IInv'
<1> USE ConstantsAssumption DEF IInv
<1>1. /\ conn' = [conn EXCEPT ![c] = "closed"]
      /\ clients' = [clients EXCEPT ![slot[c]] = EmptyClient]
      /\ UNCHANGED <<numClients, slot, received, joined, turnedAway, miscounted, gone, stalled,
                     mutex, cast, index, log>>
  BY DEF Close, envVars, castVars
<1>2. c \in Connected /\ Connected' = Connected \ {c}
  BY <1>1 DEF Connected, TypeOK
<1>3. \A d \in Connected : /\ slot[d] \in Slots
                           /\ d # c => clients'[slot[d]] = clients[slot[d]]
  BY <1>1, <1>2 DEF StreamInv, DistinctSlots, TypeOK, Slots
<1>4. TypeOK'
  <2>1. EmptyClient \in Client
    BY EmptySeq DEF EmptyClient, Client
  <2>2. clients' \in [Slots -> Client]
    BY <1>1, <2>1 DEF TypeOK
  <2> QED
    BY <1>1, <2>2 DEF TypeOK
<1>5. \A d \in Connections : Written(d)' = Written(d)
  BY <1>1 DEF Written
<1>6. DistinctSlots'
  BY <1>1, <1>2, <1>3 DEF DistinctSlots, StreamInv
<1>7. StreamsAgree'
  <2> SUFFICES ASSUME NEW d \in Connected, d # c
               PROVE  received'[d] \o clients'[slot'[d]].pipe
                        = SubSeq(log', joined'[d] + 1, Written(d)')
    BY <1>2 DEF StreamsAgree
  <2>1. d \in Connections
    BY DEF Connected
  <2>2. received[d] \o clients[slot[d]].pipe = SubSeq(log, joined[d] + 1, Written(d))
    BY DEF StreamInv, StreamsAgree
  <2> QED
    BY <1>1, <1>3, <1>5, <2>1, <2>2
<1>8. \A d \in Connected' : joined'[d] <= Written(d)'
  BY <1>1, <1>2, <1>5 DEF StreamInv, Connected
<1>9. \A d \in Connections : conn'[d] = "idle" => received'[d] = <<>>
  BY <1>1 DEF StreamInv, TypeOK
<1> QED
  BY <1>1, <1>4, <1>6, <1>7, <1>8, <1>9 DEF StreamInv

\* A broadcast that takes the mutex logs its event and has written nothing yet.
LEMMA LockStep ==
  ASSUME IInv, NEW b \in Broadcasts, Lock(b)
  PROVE  IInv'
<1> USE ConstantsAssumption DEF IInv
<1>1. /\ cast[b] = "called" /\ mutex = None /\ mutex' = b
      /\ cast' = [cast EXCEPT ![b] = "writing"]
      /\ index' = [index EXCEPT ![b] = 1]
      /\ log' = Append(log, b)
      /\ UNCHANGED <<clients, numClients, conn, slot, received, joined, turnedAway, miscounted,
                     gone, stalled>>
  BY DEF Lock, MutexFree, connVars, envVars
<1>2. /\ log \in Seq(Broadcasts) /\ Len(log) \in Nat
      /\ log' \in Seq(Broadcasts) /\ Len(log') = Len(log) + 1
      /\ log' # <<>> /\ log'[Len(log')] = b
  <2>1. log \in Seq(Broadcasts) /\ Len(log) \in Nat
    BY DEF TypeOK
  <2> QED
    BY <1>1, <2>1, AppendProperties
<1>3. TypeOK'
  BY <1>1, <1>2 DEF TypeOK
<1>4. Connected' = Connected
  BY <1>1 DEF Connected
<1>5. \A d \in Connected : Written(d)' = Len(log) /\ Written(d) = Len(log)
  <2> SUFFICES ASSUME NEW d \in Connected
               PROVE  Written(d)' = Len(log) /\ Written(d) = Len(log)
    OBVIOUS
  <2>1. slot[d] >= 1 /\ index'[b] = 1
    BY <1>1 DEF StreamInv, DistinctSlots, TypeOK
  <2> QED
    BY <1>1, <1>2, <2>1 DEF Written
<1>6. DistinctSlots'
  BY <1>1, <1>4 DEF DistinctSlots, StreamInv
<1>7. StreamsAgree'
  <2> SUFFICES ASSUME NEW d \in Connected
               PROVE  received'[d] \o clients'[slot'[d]].pipe
                        = SubSeq(log', joined'[d] + 1, Written(d)')
    BY <1>4 DEF StreamsAgree
  <2>1. received[d] \o clients[slot[d]].pipe = SubSeq(log, joined[d] + 1, Len(log))
    BY <1>5 DEF StreamInv, StreamsAgree
  <2>2. joined[d] \in Nat
    BY DEF TypeOK, Connected
  <2>3. SubSeq(Append(log, b), joined[d] + 1, Len(log)) = SubSeq(log, joined[d] + 1, Len(log))
    BY <1>2, <2>2, LogKeepsStream
  <2> QED
    BY <1>1, <1>5, <2>1, <2>3
<1>8. \A d \in Connected' : joined'[d] <= Written(d)'
  BY <1>1, <1>4, <1>5 DEF StreamInv
<1>9. \A d \in Broadcasts : cast'[d] = "writing" => mutex' = d
  BY <1>1 DEF StreamInv, TypeOK
<1>10. cast'[mutex'] = "writing" /\ index'[mutex'] \in 1..(numClients' + 1)
  BY <1>1 DEF TypeOK
<1> QED
  BY <1>1, <1>2, <1>3, <1>6, <1>7, <1>8, <1>9, <1>10 DEF StreamInv

\* A broadcast extends the stream of the client its loop is at by its event.
LEMMA WriteStep ==
  ASSUME IInv, NEW b \in Broadcasts, Write(b)
  PROVE  IInv'
<1> USE ConstantsAssumption DEF IInv
<1> DEFINE s == index[b]
<1>1. /\ cast[b] = "writing" /\ mutex = b /\ s \in 1..numClients /\ s \in Slots
      /\ log # <<>> /\ log[Len(log)] = b
  BY DEF Write, StreamInv, TypeOK, Slots
<1>2. /\ index' = [index EXCEPT ![b] = s + 1]
      /\ UNCHANGED <<numClients, conn, slot, received, joined, turnedAway, miscounted, gone, stalled,
                     mutex, cast, log>>
      /\ IF clients[s].active
           THEN clients' = [clients EXCEPT ![s].pipe = Append(@, b)]
           ELSE clients' = clients
  BY DEF Write, connVars, envVars
<1>3. log \in Seq(Broadcasts) /\ Len(log) \in Nat \ {0} /\ b # None
  BY <1>1, EmptySeq DEF TypeOK
<1>4. clients[s] \in Client /\ clients[s].pipe \in Seq(Broadcasts)
  BY <1>1 DEF TypeOK, Client
<1> HIDE DEF s
<1>5. /\ clients' \in [Slots -> Client]
      /\ \A t \in Slots : /\ clients'[t].active = clients[t].active
                          /\ t # s => clients'[t] = clients[t]
      /\ clients[s].active => clients'[s].pipe = Append(clients[s].pipe, b)
  <2>1. CASE clients[s].active
    <3>1. clients' = [clients EXCEPT ![s] = [@ EXCEPT !.pipe = Append(clients[s].pipe, b)]]
      BY <1>2, <2>1
    <3>2. Append(clients[s].pipe, b) \in Seq(Broadcasts)
      BY <1>4, AppendProperties
    <3>3. /\ [clients[s] EXCEPT !.pipe = Append(clients[s].pipe, b)] \in Client
          /\ [clients[s] EXCEPT !.pipe = Append(clients[s].pipe, b)].pipe
                = Append(clients[s].pipe, b)
          /\ [clients[s] EXCEPT !.pipe = Append(clients[s].pipe, b)].active
                = clients[s].active
      BY <1>4, <3>2 DEF Client
    <3> QED
      BY <1>1, <3>1, <3>3 DEF TypeOK
  <2>2. CASE ~clients[s].active
    BY <1>2, <2>2 DEF TypeOK
  <2> QED
    BY <2>1, <2>2
<1>6. index' \in [Broadcasts -> 0..(MaxClients + 1)] /\ index'[b] = s + 1
      /\ s + 1 \in 1..(numClients + 1) /\ index[b] = s
  BY <1>1, <1>2 DEF TypeOK, s
<1>7. TypeOK'
  BY <1>2, <1>5, <1>6 DEF TypeOK
<1>8. Connected' = Connected
  BY <1>2 DEF Connected
<1>9. \A d \in Connected : /\ d \in Connections /\ slot[d] \in Slots /\ slot[d] \in Nat
                           /\ clients[slot[d]].active
                           /\ joined[d] \in Nat /\ joined[d] <= Written(d)
  BY DEF StreamInv, DistinctSlots, TypeOK, Slots, Connected
<1>10. \A d \in Connected :
         /\ slot[d] # s => Written(d)' = Written(d)
         /\ slot[d] = s => Written(d)' = Len(log) /\ Written(d) = Len(log) - 1
  <2> SUFFICES ASSUME NEW d \in Connected
               PROVE  /\ slot[d] # s => Written(d)' = Written(d)
                      /\ slot[d] = s => Written(d)' = Len(log) /\ Written(d) = Len(log) - 1
    OBVIOUS
  <2>1. slot[d] \in Nat /\ s \in Nat /\ index'[b] = s + 1 /\ index[b] = s
    BY <1>1, <1>6, <1>9
  <2> QED
    BY <1>1, <1>2, <1>3, <2>1 DEF Written
<1>11. DistinctSlots'
  BY <1>2, <1>5, <1>8, <1>9 DEF DistinctSlots, StreamInv
<1>12. StreamsAgree'
  <2> SUFFICES ASSUME NEW d \in Connected
               PROVE  received'[d] \o clients'[slot'[d]].pipe
                        = SubSeq(log', joined'[d] + 1, Written(d)')
    BY <1>8 DEF StreamsAgree
  <2>1. received[d] \o clients[slot[d]].pipe = SubSeq(log, joined[d] + 1, Written(d))
    BY DEF StreamInv, StreamsAgree
  <2>2. CASE slot[d] # s
    BY <1>2, <1>5, <1>9, <1>10, <2>1, <2>2
  <2>3. CASE slot[d] = s
    <3>1. /\ received[d] \in Seq(Broadcasts)
          /\ clients'[slot[d]].pipe = Append(clients[s].pipe, b)
      BY <1>5, <1>9, <2>3 DEF TypeOK
    <3>2. received[d] \o Append(clients[s].pipe, b)
            = Append(received[d] \o clients[s].pipe, b)
      <4>1. received[d] \in Seq(Broadcasts) /\ clients[s].pipe \in Seq(Broadcasts)
        BY <1>4, <3>1
      <4>2. \A r, p \in Seq(Broadcasts) : r \o Append(p, b) = Append(r \o p, b)
        BY WriteExtendsStream
      <4> QED
        BY <4>1, <4>2, Zenon
    <3>3. joined[d] <= Len(log) - 1
      BY <1>9, <1>10, <2>3
    <3>4. SubSeq(log, joined[d] + 1, Len(log))
            = Append(SubSeq(log, joined[d] + 1, Len(log) - 1), b)
      BY <1>1, <1>3, <1>9, <3>3, LastOfStream
    <3> QED
      BY <1>2, <1>10, <2>1, <2>3, <3>1, <3>2, <3>4
  <2> QED
    BY <2>2, <2>3
<1>13. \A d \in Connected' : joined'[d] <= Written(d)'
  BY <1>2, <1>3, <1>8, <1>9, <1>10
<1> QED
  BY <1>1, <1>2, <1>6, <1>7, <1>11, <1>12, <1>13 DEF StreamInv

\* When the mutex is released every client has been written to.
LEMMA UnlockStep ==
  ASSUME IInv, NEW b \in Broadcasts, Unlock(b)
  PROVE  IInv'
<1> USE ConstantsAssumption DEF IInv
<1>1. /\ cast[b] = "writing" /\ mutex = b /\ index[b] > numClients /\ mutex' = None
      /\ cast' = [cast EXCEPT ![b] = "done"]
      /\ UNCHANGED <<clients, numClients, conn, slot, received, joined, turnedAway, miscounted,
                     gone, stalled, index, log>>
  BY DEF Unlock, StreamInv, connVars, envVars
<1>2. TypeOK'
  BY <1>1 DEF TypeOK
<1>3. Connected' = Connected
  BY <1>1 DEF Connected
<1>4. \A d \in Connected : Written(d)' = Written(d)
  <2> SUFFICES ASSUME NEW d \in Connected PROVE Written(d)' = Written(d)
    OBVIOUS
  <2>1. slot[d] \in 1..numClients /\ numClients \in Nat /\ index[b] \in Nat
    BY DEF StreamInv, DistinctSlots, TypeOK
  <2> QED
    BY <1>1, <2>1 DEF Written
<1>5. DistinctSlots' /\ \A d \in Connected' : joined'[d] <= Written(d)'
  BY <1>1, <1>3, <1>4 DEF DistinctSlots, StreamInv
<1>6. StreamsAgree'
  BY <1>1, <1>3, <1>4 DEF StreamsAgree, StreamInv
<1>7. \A d \in Broadcasts : cast'[d] # "writing"
  BY <1>1 DEF StreamInv, TypeOK
<1> QED
  BY <1>1, <1>2, <1>5, <1>6, <1>7 DEF StreamInv

\* A response that fails when its client is still the last one takes the client
\* out of the table and leaves the others alone.
LEMMA FailStep ==
  ASSUME IInv, NEW c \in Connections, RespondFails(c), slot[c] = numClients
  PROVE  IInv'
<1> USE ConstantsAssumption DEF IInv
<1>1. /\ conn[c] = "adding" /\ mutex = None
      /\ conn' = [conn EXCEPT ![c] = "refused"]
      /\ clients' = [clients EXCEPT ![slot[c]] = EmptyClient]
      /\ numClients' = numClients - 1
      /\ miscounted' \in BOOLEAN
      /\ UNCHANGED <<slot, received, joined, turnedAway, gone, stalled,
                     mutex, cast, index, log>>
  BY DEF RespondFails, MutexFree, envVars, castVars, TypeOK
<1>2. c \in Connected /\ Connected' = Connected \ {c}
  BY <1>1 DEF Connected, TypeOK
<1>3. \A d \in Connected : /\ slot[d] \in Slots
                           /\ d # c => /\ clients'[slot[d]] = clients[slot[d]]
                                       /\ slot[d] \in 1..numClients'
  BY <1>1, <1>2 DEF StreamInv, DistinctSlots, TypeOK, Slots
<1>4. TypeOK'
  <2>1. EmptyClient \in Client
    BY EmptySeq DEF EmptyClient, Client
  <2>2. clients' \in [Slots -> Client]
    BY <1>1, <2>1 DEF TypeOK
  <2>3. numClients' \in 0..MaxClients
    BY <1>1, <1>2 DEF TypeOK, StreamInv, DistinctSlots
  <2> QED
    BY <1>1, <2>2, <2>3 DEF TypeOK
<1>5. \A d \in Connections : Written(d)' = Written(d)
  BY <1>1 DEF Written
<1>6. DistinctSlots'
  BY <1>1, <1>2, <1>3 DEF DistinctSlots, StreamInv
<1>7. StreamsAgree'
  <2> SUFFICES ASSUME NEW d \in Connected, d # c
               PROVE  received'[d] \o clients'[slot'[d]].pipe
                        = SubSeq(log', joined'[d] + 1, Written(d)')
    BY <1>2 DEF StreamsAgree
  <2>1. d \in Connections
    BY DEF Connected
  <2>2. received[d] \o clients[slot[d]].pipe = SubSeq(log, joined[d] + 1, Written(d))
    BY DEF StreamInv, StreamsAgree
  <2> QED
    BY <1>1, <1>3, <1>5, <2>1, <2>2
<1>8. \A d \in Connected' : joined'[d] <= Written(d)'
  BY <1>1, <1>2, <1>5 DEF StreamInv, Connected
<1>9. \A d \in Connections : conn'[d] = "idle" => received'[d] = <<>>
  BY <1>1 DEF StreamInv, TypeOK
<1> QED
  BY <1>1, <1>4, <1>6, <1>7, <1>8, <1>9 DEF StreamInv

\* Every step keeps the invariant, unless it is the one that miscounts.
LEMMA StreamStep == IInv /\ [Next]_vars => IInv' \/ miscounted'
<1> SUFFICES ASSUME IInv, [Next]_vars PROVE IInv' \/ miscounted'
  OBVIOUS
<1>1. CASE UNCHANGED vars
  BY <1>1 DEF vars, connVars, envVars, castVars, IInv, TypeOK, StreamInv, DistinctSlots,
              StreamsAgree, Connected, Written
<1>2. ASSUME NEW c \in Connections,
             \/ Refuse(c) \/ Add(c) \/ RespondFails(c) \/ ConnStep(c) \/ NoticeGone(c)
             \/ Leave(c) \/ Stall(c)
      PROVE  IInv' \/ miscounted'
  <2>1. CASE Add(c)
    BY <2>1, AddStep
  <2>2. CASE Read(c)
    BY <2>2, ReadStep
  <2>3. CASE SendFails(c) \/ NoticeGone(c) \/ EndOfStream(c)
    BY <2>3, CloseStep DEF SendFails, NoticeGone, EndOfStream
  <2>4. CASE Refuse(c) \/ Respond(c) \/ Leave(c) \/ Stall(c)
    BY <2>4, QuietStep
  <2>5. CASE RespondFails(c)
    <3>1. CASE slot[c] = numClients
      BY <2>5, <3>1, FailStep
    <3>2. CASE slot[c] # numClients
      BY <2>5, <3>2 DEF RespondFails
    <3> QED
      BY <3>1, <3>2
  <2> QED
    BY <1>2, <2>1, <2>2, <2>3, <2>4, <2>5 DEF ConnStep
<1>3. ASSUME NEW b \in Broadcasts, Call(b) \/ Drop(b) \/ CastStep(b)
      PROVE  IInv'
  BY <1>3, CallStep, LockStep, WriteStep, UnlockStep DEF CastStep
<1> QED
  BY <1>1, <1>2, <1>3 DEF Next

\* A count that has gone wrong stays wrong.
LEMMA MiscountedStays == miscounted /\ [Next]_vars => miscounted'
<1> SUFFICES ASSUME miscounted, [Next]_vars PROVE miscounted'
  OBVIOUS
<1>1. CASE UNCHANGED vars
  BY <1>1 DEF vars, connVars
<1>2. ASSUME NEW c \in Connections,
             \/ Refuse(c) \/ Add(c) \/ RespondFails(c) \/ ConnStep(c) \/ NoticeGone(c)
             \/ Leave(c) \/ Stall(c)
      PROVE  miscounted'
  BY <1>2 DEF ConnStep, Refuse, Add, RespondFails, Respond, Read, SendFails, EndOfStream,
              NoticeGone, Close, Leave, Stall, connVars
<1>3. ASSUME NEW b \in Broadcasts, Call(b) \/ Drop(b) \/ CastStep(b)
      PROVE  miscounted'
  BY <1>3 DEF CastStep, Call, Drop, Lock, Write, Unlock, connVars
<1> QED
  BY <1>1, <1>2, <1>3 DEF Next

\* Until a failed response miscounts, every connection has a client of its own,
\* and its browser receives the events broadcast since it was added in the order
\* of the mutex, with no gap and no repetition.
THEOREM StreamCorrect == Spec => [](OwnClient /\ InOrder)
<1> DEFINE Holds == miscounted \/ IInv
<1>1. Init => Holds
  BY InitStream
<1>2. Holds /\ [Next]_vars => Holds'
  BY StreamStep, MiscountedStays
<1>3. Holds => OwnClient /\ InOrder
  BY DEF IInv, StreamInv, OwnClient, InOrder
<1> HIDE DEF Holds
<1> QED
  BY <1>1, <1>2, <1>3, PTL DEF Spec

-----------------------------------------------------------------------------
(* The table and its count, after a miscount too                           *)

TInv == TypeOK /\ CountInv

\* Nobody is counted at the start.
LEMMA InitTable == Init => TInv
<1>1. Init => TypeOK
  BY InitStream DEF IInv
<1>2. Init => Counted = {} /\ Connected = {}
  BY DEF Init, Counted, Connected
<1>3. IsFiniteSet({}) /\ Cardinality({}) = 0
  BY FS_EmptySet
<1>4. ASSUME Init
      PROVE  \A b \in Broadcasts : cast[b] # "writing"
  BY <1>4 DEF Init
<1>5. Init => numClients = 0
  BY DEF Init
<1> QED
  BY <1>1, <1>2, <1>3, <1>4, <1>5 DEF TInv, CountInv

\* What is counted has a number.
LEMMA CountedFinite ==
  ASSUME TInv
  PROVE  /\ IsFiniteSet(Counted) /\ Cardinality(Counted) \in Nat
         /\ numClients = Cardinality(Counted)
  BY FS_CardinalityType DEF TInv, CountInv

\* A client that is added is counted.
LEMMA AddCounts ==
  ASSUME TInv, NEW c \in Connections, Add(c)
  PROVE  TInv'
<1> USE ConstantsAssumption
<1>1. /\ conn[c] = "idle" /\ mutex = None /\ numClients < MaxClients
      /\ clients' = [clients EXCEPT ![numClients + 1] = [active |-> TRUE, pipe |-> <<>>]]
      /\ numClients' = numClients + 1
      /\ slot' = [slot EXCEPT ![c] = numClients + 1]
      /\ conn' = [conn EXCEPT ![c] = "adding"]
      /\ joined' = [joined EXCEPT ![c] = Len(log)]
      /\ UNCHANGED <<received, turnedAway, miscounted, gone, stalled, mutex, cast, index, log>>
  BY DEF Add, MutexFree, envVars, castVars
<1>2. numClients + 1 \in Slots
  BY <1>1 DEF TInv, TypeOK, Slots
<1>3. TypeOK'
  <2>1. [active |-> TRUE, pipe |-> <<>>] \in Client
    BY EmptySeq DEF Client
  <2>2. clients' \in [Slots -> Client]
    BY <1>1, <2>1 DEF TInv, TypeOK
  <2>3. joined' \in [Connections -> Nat] /\ slot' \in [Connections -> 0..MaxClients]
    BY <1>1, <1>2 DEF TInv, TypeOK, Slots
  <2>4. conn' \in [Connections -> {"idle", "adding", "open", "closed", "refused"}]
    BY <1>1 DEF TInv, TypeOK
  <2>5. numClients' \in 0..MaxClients
    BY <1>1 DEF TInv, TypeOK
  <2> QED
    BY <1>1, <2>2, <2>3, <2>4, <2>5 DEF TInv, TypeOK
<1>4. c \notin Counted /\ Counted' = Counted \cup {c} /\ Connected' = Connected \cup {c}
  BY <1>1 DEF TInv, TypeOK, Counted, Connected
<1>5. IsFiniteSet(Counted') /\ numClients' = Cardinality(Counted')
  BY <1>1, <1>4, CountedFinite, FS_AddElement
<1>6. \A d \in Connected' : slot'[d] \in Slots
  BY <1>1, <1>2, <1>4 DEF TInv, CountInv, TypeOK, Connected
<1>7. \A b \in Broadcasts : cast'[b] # "writing"
  BY <1>1 DEF TInv, CountInv
<1> QED
  BY <1>3, <1>5, <1>6, <1>7 DEF TInv, CountInv

\* A client whose response fails is counted out, whatever its slot.
LEMMA FailCounts ==
  ASSUME TInv, NEW c \in Connections, RespondFails(c)
  PROVE  TInv'
<1> USE ConstantsAssumption
<1>1. /\ conn[c] = "adding" /\ mutex = None
      /\ conn' = [conn EXCEPT ![c] = "refused"]
      /\ clients' = [clients EXCEPT ![slot[c]] = EmptyClient]
      /\ numClients' = numClients - 1
      /\ miscounted' \in BOOLEAN
      /\ UNCHANGED <<slot, received, joined, turnedAway, gone, stalled,
                     mutex, cast, index, log>>
  BY DEF RespondFails, MutexFree, envVars, castVars, TInv, TypeOK
<1>2. c \in Counted /\ Counted' = Counted \ {c} /\ Connected' = Connected \ {c}
  BY <1>1 DEF TInv, TypeOK, Counted, Connected
<1>3. IsFiniteSet(Counted') /\ numClients' = Cardinality(Counted') /\ Cardinality(Counted') \in Nat
  BY <1>1, <1>2, CountedFinite, FS_RemoveElement, FS_CardinalityType
<1>4. TypeOK'
  <2>1. EmptyClient \in Client
    BY EmptySeq DEF EmptyClient, Client
  <2>2. clients' \in [Slots -> Client]
    BY <1>1, <2>1 DEF TInv, TypeOK
  <2>3. conn' \in [Connections -> {"idle", "adding", "open", "closed", "refused"}]
    BY <1>1 DEF TInv, TypeOK
  <2>4. numClients' \in 0..MaxClients
    BY <1>1, <1>3 DEF TInv, TypeOK
  <2> QED
    BY <1>1, <2>2, <2>3, <2>4 DEF TInv, TypeOK
<1>5. \A d \in Connected' : slot'[d] \in Slots
  BY <1>1, <1>2 DEF TInv, CountInv
<1>6. \A b \in Broadcasts : cast'[b] # "writing"
  BY <1>1 DEF TInv, CountInv
<1> QED
  BY <1>3, <1>4, <1>5, <1>6 DEF TInv, CountInv

\* A connection that is refused, answered, read from, closed or left stays
\* counted as it was.
LEMMA OtherConnKeepsCount ==
  ASSUME TInv, NEW c \in Connections,
         \/ Refuse(c) \/ ConnStep(c) \/ NoticeGone(c) \/ Leave(c) \/ Stall(c)
  PROVE  TInv'
<1> USE ConstantsAssumption
<1>1. /\ UNCHANGED <<numClients, slot, joined, miscounted, mutex, cast, index, log>>
      /\ gone' \subseteq Connections /\ stalled' \subseteq Connections
      /\ turnedAway' \subseteq Connections
  <2>1. CASE Refuse(c)
    BY <2>1 DEF Refuse, envVars, castVars, TInv, TypeOK
  <2>2. CASE Respond(c) \/ Leave(c) \/ Stall(c)
    BY <2>2 DEF Respond, Leave, Stall, connVars, envVars, castVars, TInv, TypeOK
  <2>3. CASE Read(c)
    BY <2>3 DEF Read, envVars, castVars, TInv, TypeOK
  <2>4. CASE Close(c)
    BY <2>4 DEF Close, envVars, castVars, TInv, TypeOK
  <2> QED
    BY <2>1, <2>2, <2>3, <2>4 DEF ConnStep, NoticeGone, SendFails, EndOfStream
<1>2. \/ conn' = conn
      \/ conn[c] = "idle" /\ conn' = [conn EXCEPT ![c] = "refused"]
      \/ conn[c] = "adding" /\ conn' = [conn EXCEPT ![c] = "open"]
      \/ conn[c] = "open" /\ conn' = [conn EXCEPT ![c] = "closed"]
  BY DEF Refuse, ConnStep, Respond, Read, SendFails, NoticeGone, EndOfStream, Close, Leave,
         Stall, connVars
<1>3. clients' \in [Slots -> Client] /\ received' \in [Connections -> Seq(Broadcasts)]
  <2>1. CASE Read(c)
    <3>1. c \in Connected /\ slot[c] \in Slots
      BY <2>1 DEF Read, Connected, TInv, CountInv
    <3> DEFINE p == clients[slot[c]].pipe
    <3>2. /\ p \in Seq(Broadcasts) /\ p # <<>> /\ received[c] \in Seq(Broadcasts)
          /\ clients[slot[c]] \in Client
      BY <2>1, <3>1 DEF Read, TInv, TypeOK, Client
    <3>3. Head(p) \in Broadcasts /\ Tail(p) \in Seq(Broadcasts)
      BY <3>2, HeadTailProperties
    <3>4. /\ clients' = [clients EXCEPT ![slot[c]] = [@ EXCEPT !.pipe = Tail(p)]]
          /\ received' = [received EXCEPT ![c] = Append(@, Head(p))]
      BY <2>1 DEF Read
    <3> HIDE DEF p
    <3>5. [clients[slot[c]] EXCEPT !.pipe = Tail(p)] \in Client
      BY <3>2, <3>3 DEF Client
    <3>6. Append(received[c], Head(p)) \in Seq(Broadcasts)
      BY <3>2, <3>3, AppendProperties
    <3> QED
      BY <3>1, <3>4, <3>5, <3>6 DEF TInv, TypeOK
  <2>2. CASE Close(c)
    <3>1. EmptyClient \in Client
      BY EmptySeq DEF EmptyClient, Client
    <3> QED
      BY <2>2, <3>1 DEF Close, TInv, TypeOK
  <2>3. CASE Refuse(c) \/ Respond(c) \/ Leave(c) \/ Stall(c)
    BY <2>3 DEF Refuse, Respond, Leave, Stall, connVars, TInv, TypeOK
  <2> QED
    BY <2>1, <2>2, <2>3 DEF ConnStep, NoticeGone, SendFails, EndOfStream
<1>4. TypeOK'
  <2>1. conn' \in [Connections -> {"idle", "adding", "open", "closed", "refused"}]
    BY <1>2 DEF TInv, TypeOK
  <2> QED
    BY <1>1, <1>3, <2>1 DEF TInv, TypeOK
<1>5. Counted' = Counted /\ Connected' \subseteq Connected
  BY <1>2 DEF TInv, TypeOK, Counted, Connected
<1> QED
  BY <1>1, <1>4, <1>5 DEF TInv, CountInv

\* A broadcast stays within the clients that are counted.
LEMMA BroadcastKeepsCount ==
  ASSUME TInv, NEW b \in Broadcasts, Call(b) \/ Drop(b) \/ CastStep(b)
  PROVE  TInv'
<1> USE ConstantsAssumption
<1>1. /\ UNCHANGED <<numClients, conn, slot, received, joined, turnedAway, miscounted,
                     gone, stalled>>
      /\ \/ cast[b] = "idle" /\ \E st \in {"called", "dropped"} : cast' = [cast EXCEPT ![b] = st]
            /\ UNCHANGED <<clients, mutex, index, log>>
         \/ Lock(b) \/ Write(b) \/ Unlock(b)
  BY DEF Call, Drop, CastStep, Lock, Write, Unlock, connVars, envVars
<1>2. Counted' = Counted /\ Connected' = Connected
  BY <1>1 DEF Counted, Connected
<1>3. /\ TypeOK'
      /\ \A d \in Broadcasts :
           cast'[d] = "writing" => mutex' = d /\ index'[d] \in 1..(numClients' + 1)
  <2>1. CASE /\ cast[b] = "idle" /\ \E st \in {"called", "dropped"} : cast' = [cast EXCEPT ![b] = st]
             /\ UNCHANGED <<clients, mutex, index, log>>
    BY <1>1, <2>1 DEF TInv, CountInv, TypeOK
  <2>2. CASE Lock(b)
    <3>1. /\ mutex = None /\ mutex' = b /\ clients' = clients
          /\ cast' = [cast EXCEPT ![b] = "writing"]
          /\ index' = [index EXCEPT ![b] = 1]
          /\ log' = Append(log, b)
      BY <2>2 DEF Lock, MutexFree
    <3>2. log' \in Seq(Broadcasts)
      BY <3>1, AppendProperties DEF TInv, TypeOK
    <3>3. index' \in [Broadcasts -> 0..(MaxClients + 1)]
      BY <3>1 DEF TInv, TypeOK
    <3>4. TypeOK'
      BY <1>1, <3>1, <3>2, <3>3 DEF TInv, TypeOK
    <3>5. \A d \in Broadcasts : cast'[d] = "writing" => d = b
      BY <3>1 DEF TInv, CountInv, TypeOK
    <3>6. index'[b] = 1 /\ 1 \in 1..(numClients' + 1)
      BY <1>1, <3>1 DEF TInv, TypeOK
    <3> QED
      BY <3>1, <3>4, <3>5, <3>6
  <2>3. CASE Write(b)
    <3> DEFINE s == index[b]
    <3>1. /\ cast[b] = "writing" /\ mutex = b /\ s \in 1..numClients /\ s \in Slots
      BY <2>3 DEF Write, TInv, CountInv, TypeOK, Slots
    <3>2. /\ index' = [index EXCEPT ![b] = s + 1]
          /\ UNCHANGED <<mutex, cast, log>>
          /\ clients' = clients
               \/ clients' = [clients EXCEPT ![s] = [@ EXCEPT !.pipe = Append(clients[s].pipe, b)]]
      BY <2>3 DEF Write
    <3>3. clients[s] \in Client /\ Append(clients[s].pipe, b) \in Seq(Broadcasts)
      BY <3>1, AppendProperties DEF TInv, TypeOK, Client
    <3>4. s + 1 \in 1..(numClients + 1) /\ s + 1 \in 0..(MaxClients + 1)
      BY <3>1 DEF TInv, TypeOK
    <3> HIDE DEF s
    <3>5. [clients[s] EXCEPT !.pipe = Append(clients[s].pipe, b)] \in Client
      BY <3>3 DEF Client
    <3>6. clients' \in [Slots -> Client]
      BY <3>1, <3>2, <3>5 DEF TInv, TypeOK
    <3>7. index' \in [Broadcasts -> 0..(MaxClients + 1)] /\ index'[b] = s + 1
      BY <3>2, <3>4 DEF TInv, TypeOK
    <3>8. TypeOK'
      BY <1>1, <3>2, <3>6, <3>7 DEF TInv, TypeOK
    <3>9. \A d \in Broadcasts : cast'[d] = "writing" => d = b /\ mutex' = d
      BY <3>1, <3>2 DEF TInv, CountInv
    <3> QED
      BY <1>1, <3>4, <3>7, <3>8, <3>9
  <2>4. CASE Unlock(b)
    <3>1. /\ mutex' = None /\ cast' = [cast EXCEPT ![b] = "done"] /\ cast[b] = "writing"
          /\ UNCHANGED <<clients, index, log>>
      BY <2>4 DEF Unlock
    <3>2. TypeOK'
      BY <1>1, <3>1 DEF TInv, TypeOK
    <3>3. \A d \in Broadcasts : cast'[d] # "writing"
      BY <3>1 DEF TInv, CountInv, TypeOK
    <3> QED
      BY <3>2, <3>3
  <2> QED
    BY <1>1, <2>1, <2>2, <2>3, <2>4
<1> QED
  BY <1>1, <1>2, <1>3 DEF TInv, CountInv

\* Every step keeps the table and its count in their types.
LEMMA TableStep == TInv /\ [Next]_vars => TInv'
<1> SUFFICES ASSUME TInv, [Next]_vars PROVE TInv'
  OBVIOUS
<1>1. CASE UNCHANGED vars
  BY <1>1 DEF vars, connVars, envVars, castVars, TInv, TypeOK, CountInv, Counted, Connected
<1>2. ASSUME NEW c \in Connections,
             \/ Refuse(c) \/ Add(c) \/ RespondFails(c) \/ ConnStep(c) \/ NoticeGone(c)
             \/ Leave(c) \/ Stall(c)
      PROVE  TInv'
  BY <1>2, AddCounts, FailCounts, OtherConnKeepsCount
<1>3. ASSUME NEW b \in Broadcasts, Call(b) \/ Drop(b) \/ CastStep(b)
      PROVE  TInv'
  BY <1>3, BroadcastKeepsCount
<1> QED
  BY <1>1, <1>2, <1>3 DEF Next

\* num_clients never leaves the table in either direction, although it is
\* decremented only by the connections whose response fails and the slot it
\* takes out may be another's: neither add_client nor a broadcast ever reaches
\* past MAX_SSE_CLIENTS or below the first slot, miscounted or not.
THEOREM TableBounded == Spec => []TypeOK
<1>1. TInv => TypeOK
  BY DEF TInv
<1> QED
  BY <1>1, InitTable, TableStep, PTL DEF Spec
=============================================================================
