--------------------------- MODULE Askpass_proofs ---------------------------
(***************************************************************************)
(* Theorems about the table of password requests, for every value of the   *)
(* constants of Askpass.                                                   *)
(***************************************************************************)
EXTENDS Askpass, Facts, TLAPS

TableTyped == TypeOK /\ TableInv

\* Erasing a slot for a new request.
LEMMA EraseSlot ==
  ASSUME requests \in [Slots -> Request], NEW s \in Slots, NEW a \in Askers,
         requests' = [requests EXCEPT ![s].id = a, ![s].password = Empty]
  PROVE  /\ requests' \in [Slots -> Request]
         /\ \A t \in Slots : t # s => requests'[t] = requests[t]
         /\ requests'[s].id = a /\ requests'[s].password = Empty
         /\ requests'[s].in_use = requests[s].in_use
<1>1. requests[s] \in Request
  OBVIOUS
<1>2. requests' = [requests EXCEPT ![s] = [[@ EXCEPT !.id = a] EXCEPT !.password = Empty]]
  OBVIOUS
<1>3. [[requests[s] EXCEPT !.id = a] EXCEPT !.password = Empty] \in Request
  BY <1>1 DEF Request, Passwords
<1> QED
  BY <1>1, <1>2, <1>3 DEF Request

\* Marking a slot as used or free, with or without its ready flag.
LEMMA MarkSlot ==
  ASSUME requests \in [Slots -> Request], NEW s \in Slots, NEW b \in BOOLEAN,
         \/ requests' = [requests EXCEPT ![s].ready = FALSE, ![s].in_use = b]
         \/ requests' = [requests EXCEPT ![s].in_use = b]
  PROVE  /\ requests' \in [Slots -> Request]
         /\ \A t \in Slots : /\ t # s => requests'[t] = requests[t]
                             /\ requests'[t].id = requests[t].id
                             /\ requests'[t].password = requests[t].password
         /\ requests'[s].in_use = b
<1>1. CASE requests' = [requests EXCEPT ![s].ready = FALSE, ![s].in_use = b]
  BY <1>1 DEF Request
<1>2. CASE requests' = [requests EXCEPT ![s].in_use = b]
  BY <1>2 DEF Request
<1> QED
  BY <1>1, <1>2

\* Writing the password of a slot, or its ready flag.
LEMMA FillSlot ==
  ASSUME requests \in [Slots -> Request], NEW s \in Slots, NEW p \in Passwords,
         requests' = [requests EXCEPT ![s].password = p]
  PROVE  /\ requests' \in [Slots -> Request]
         /\ \A t \in Slots :
              /\ requests'[t].id = requests[t].id
              /\ requests'[t].in_use = requests[t].in_use
              /\ requests'[t].ready = requests[t].ready
              /\ requests'[t].password = IF t = s THEN p ELSE requests[t].password
BY DEF Request

\* Setting the ready flag of a slot.
LEMMA ReadySlot ==
  ASSUME requests \in [Slots -> Request], NEW s \in Slots,
         requests' = [requests EXCEPT ![s].ready = TRUE]
  PROVE  /\ requests' \in [Slots -> Request]
         /\ \A t \in Slots : /\ requests'[t].id = requests[t].id
                             /\ requests'[t].in_use = requests[t].in_use
                             /\ requests'[t].password = requests[t].password
                             /\ requests'[t].ready = IF t = s THEN TRUE ELSE requests[t].ready
BY DEF Request

\* alloc_slot returns a slot that is not in use.
LEMMA VacantSlot ==
  ASSUME Vacant # {}
  PROVE  First(Vacant) \in Slots /\ ~requests[First(Vacant)].in_use
<1>1. Vacant \in SUBSET Nat
  BY DEF Vacant, Slots
<1> QED
  BY <1>1, FirstIsMember DEF Vacant

\* find_slot returns a slot in use that bears the id.
LEMMA MatchingSlot ==
  ASSUME NEW id, Matching(id) # {}
  PROVE  /\ First(Matching(id)) \in Slots
         /\ requests[First(Matching(id))].in_use
         /\ requests[First(Matching(id))].id = id
<1>1. Matching(id) \in SUBSET Nat
  BY DEF Matching, Slots
<1> QED
  BY <1>1, FirstIsMember DEF Matching

-----------------------------------------------------------------------------
(* The table: types and owners                                             *)

\* Nothing is in the table when askpass_init has run.
LEMMA InitTable == Init => TableTyped
BY ConstantsAssumption
   DEF Init, TableTyped, TypeOK, TableInv, OneOwner, Holding, Slots, Passwords,
       FreeRequest, Request

\* Every step of a waiting thread keeps the table consistent.
LEMMA AskTable ==
  ASSUME TableTyped, NEW a \in Askers, Announce(a) \/ AskStep(a)
  PROVE  TableTyped'
<1> USE ConstantsAssumption
    DEF TableTyped, TypeOK, TableInv, OneOwner, Holding, askVars, delVars
<1>1. CASE Announce(a)
  BY <1>1 DEF Announce
<1>2. CASE Reject(a)
  BY <1>2 DEF Reject
<1>3. CASE Clear(a)
  <2> DEFINE s == First(Vacant)
  <2>1. s \in Slots /\ ~requests[s].in_use
    BY <1>3, VacantSlot DEF Clear
  <2>2. /\ asker' = [asker EXCEPT ![a] = "claiming"] /\ asker[a] = "announced"
        /\ own' = [own EXCEPT ![a] = s]
        /\ requests' = [requests EXCEPT ![s].id = a, ![s].password = Empty]
        /\ claiming' = a /\ claiming = None
        /\ UNCHANGED <<answer, deliver, dest, typed, found, late>>
    BY <1>3 DEF Clear, TableMutexFree
  <2> HIDE DEF s
  <2>3. /\ requests' \in [Slots -> Request]
        /\ \A t \in Slots : t # s => requests'[t] = requests[t]
        /\ requests'[s].id = a /\ ~requests'[s].in_use
    BY <2>1, <2>2, EraseSlot
  <2>4. TypeOK'
    BY <2>1, <2>2, <2>3
  <2>5. \A b \in Askers : asker[b] # "claiming"
    BY <2>2
  <2>6. \A b \in Askers : asker[b] \in Holding => own[b] # s
    BY <2>1
  <2>7. \A b \in Askers : asker'[b] \in Holding =>
          /\ asker[b] \in Holding /\ own'[b] = own[b]
          /\ requests'[own[b]] = requests[own[b]]
    BY <2>2, <2>3, <2>6
  <2>8. \A b \in Askers : asker'[b] = "claiming" => b = a /\ own'[b] = s
    BY <2>2, <2>5
  <2>9. \A t \in Slots : requests'[t].in_use =>
          \E b \in Askers : asker'[b] \in Holding /\ own'[b] = t
    <3> SUFFICES ASSUME NEW t \in Slots, requests'[t].in_use
                 PROVE  \E b \in Askers : asker'[b] \in Holding /\ own'[b] = t
      OBVIOUS
    <3>1. requests[t].in_use
      BY <2>3
    <3>2. PICK b \in Askers : asker[b] \in Holding /\ own[b] = t
      BY <3>1
    <3>3. b # a
      BY <2>2, <3>2
    <3> QED
      BY <2>2, <3>2, <3>3
  <2> QED
    BY <2>1, <2>2, <2>3, <2>4, <2>7, <2>8, <2>9
<1>4. CASE Claim(a)
  <2>0. own[a] \in Slots
    BY <1>4 DEF Claim
  <2>1. /\ requests' \in [Slots -> Request]
        /\ \A t \in Slots : /\ t # own[a] => requests'[t] = requests[t]
                            /\ requests'[t].id = requests[t].id
        /\ requests'[own[a]].in_use
    <3>1. requests' = [requests EXCEPT ![own[a]].ready = FALSE, ![own[a]].in_use = TRUE]
      BY <1>4 DEF Claim
    <3> HIDE DEF TableInv
    <3> QED
      BY <2>0, <3>1, MarkSlot
  <2> QED
    BY <1>4, <2>1 DEF Claim
<1>5. CASE Take(a)
  <2>1. CASE requests[own[a]].password = Empty
    BY <1>5, <2>1 DEF Take
  <2>2. CASE requests[own[a]].password # Empty
    <3>1. requests[own[a]].password \in Deliveries
      BY <1>5, <2>2 DEF Take, Request, Passwords
    <3>2. /\ requests' \in [Slots -> Request]
          /\ \A t \in Slots : /\ requests'[t].id = requests[t].id
                              /\ requests'[t].in_use = requests[t].in_use
      BY <1>5, <2>2, FillSlot DEF Take, Passwords
    <3>3. /\ answer' = [answer EXCEPT ![a] = requests[own[a]].password]
          /\ asker' = [asker EXCEPT ![a] = "releasing"] /\ asker[a] = "waiting"
          /\ UNCHANGED <<claiming, own, deliver, dest, typed, found, late>>
      BY <1>5, <2>2 DEF Take
    <3>4. TypeOK'
      BY <3>1, <3>2, <3>3
    <3>5. \A b \in Askers : /\ asker'[b] \in Holding <=> asker[b] \in Holding
                            /\ asker'[b] = "claiming" <=> asker[b] = "claiming"
      BY <3>3
    <3> QED
      BY <3>2, <3>3, <3>4, <3>5
  <2> QED
    BY <2>1, <2>2
<1>6. CASE TimeOut(a)
  BY <1>6 DEF TimeOut
<1>7. CASE Release(a)
  <2>0. own[a] \in Slots
    BY <1>7 DEF Release
  <2>1. /\ requests' \in [Slots -> Request]
        /\ \A t \in Slots : /\ t # own[a] => requests'[t] = requests[t]
                            /\ requests'[t].id = requests[t].id
        /\ ~requests'[own[a]].in_use
    <3>1. requests' = [requests EXCEPT ![own[a]].in_use = FALSE]
      BY <1>7 DEF Release
    <3> HIDE DEF TableInv
    <3> QED
      BY <2>0, <3>1, MarkSlot
  <2>2. /\ asker' = [asker EXCEPT ![a] = "done"] /\ asker[a] = "releasing"
        /\ UNCHANGED <<claiming, own, answer, deliver, dest, typed, found, late>>
    BY <1>7 DEF Release
  <2>3. \A b \in Askers : asker'[b] \in Holding => b # a /\ own[b] # own[a]
    BY <2>2
  <2> QED
    BY <2>1, <2>2, <2>3
<1> QED
  BY <1>1, <1>2, <1>3, <1>4, <1>5, <1>6, <1>7 DEF AskStep

\* Every step of a delivery keeps the table consistent.
LEMMA DeliverTable ==
  ASSUME TableTyped, NEW d \in Deliveries,
         \/ DeliverStep(d)
         \/ \E a \in Askers : \E p \in {d, Empty} : Post(d, a, p)
  PROVE  TableTyped'
<1> USE ConstantsAssumption
    DEF TableTyped, TypeOK, TableInv, OneOwner, Holding, askVars, delVars
<1>1. ASSUME NEW a \in Askers, NEW p \in {d, Empty}, Post(d, a, p)
      PROVE  TableTyped'
  BY <1>1 DEF Post, Passwords
<1>2. CASE Find(d)
  <2>1. CASE Matching(dest[d]) = {}
    BY <1>2, <2>1 DEF Find
  <2>2. CASE Matching(dest[d]) # {}
    BY <1>2, <2>2, MatchingSlot DEF Find
  <2> QED
    BY <2>1, <2>2
<1>3. CASE Write(d)
  <2>0. found[d] \in Slots /\ typed[d] \in Passwords
    BY <1>3 DEF Write
  <2>1. /\ requests' \in [Slots -> Request]
        /\ \A t \in Slots : /\ requests'[t].id = requests[t].id
                            /\ requests'[t].in_use = requests[t].in_use
    <3>1. requests' = [requests EXCEPT ![found[d]].password = typed[d]]
      BY <1>3 DEF Write
    <3> HIDE DEF TableInv
    <3> QED
      BY <2>0, <3>1, FillSlot
  <2> QED
    BY <1>3, <2>1 DEF Write
<1>4. CASE Signal(d)
  <2>1. /\ requests' \in [Slots -> Request]
        /\ \A t \in Slots : /\ requests'[t].id = requests[t].id
                            /\ requests'[t].in_use = requests[t].in_use
    <3>1. found[d] \in Slots /\ requests' = [requests EXCEPT ![found[d]].ready = TRUE]
      BY <1>4 DEF Signal
    <3> HIDE DEF TableInv
    <3> QED
      BY <3>1, ReadySlot
  <2> QED
    BY <1>4, <2>1 DEF Signal
<1> QED
  BY <1>1, <1>2, <1>3, <1>4 DEF DeliverStep

\* Every step keeps the table consistent, whatever the interleaving.
LEMMA TableStep == TableTyped /\ [Next]_vars => TableTyped'
<1> SUFFICES ASSUME TableTyped, [Next]_vars PROVE TableTyped'
  OBVIOUS
<1>1. CASE UNCHANGED vars
  BY <1>1 DEF TableTyped, TypeOK, TableInv, OneOwner, Slots, vars, askVars, delVars
<1>2. CASE Next
  BY <1>1, <1>2, AskTable, DeliverTable DEF Next, Idle
<1> QED
  BY <1>1, <1>2

\* Types, and one owner per slot: two requests never wait on the same slot and
\* no slot is lost, however deliveries and timeouts interleave.
THEOREM TableCorrect == Spec => [](TypeOK /\ OneOwner)
<1>1. TableTyped => TypeOK /\ OneOwner
  BY DEF TableTyped, TableInv
<1> QED
  BY <1>1, InitTable, TableStep, PTL DEF Spec

-----------------------------------------------------------------------------
(* Passwords reach the request they were typed for                         *)

IInv == TableTyped /\ PasswordInv

\* No password is anywhere at the start.
LEMMA InitPassword == Init => PasswordInv
BY ConstantsAssumption
   DEF Init, PasswordInv, Slots, FreeRequest

\* What the invariant says of a slot in which an owner waits, and of one that no
\* owner holds: the passwords there came late.
LEMMA FreeSlotLate ==
  ASSUME IInv, NEW s \in Slots, ~requests[s].in_use, requests[s].password # Empty
  PROVE  requests[s].password \in late
<1> DEFINE p == requests[s].password
<1>1. p \in Deliveries
  BY DEF IInv, TableTyped, TypeOK, Request, Passwords
<1>2. SUFFICES ASSUME p \notin late PROVE FALSE
  OBVIOUS
<1>3. asker[dest[p]] = "waiting" /\ own[dest[p]] = s /\ deliver[p] # "idle"
  BY <1>2 DEF IInv, PasswordInv
<1>4. dest[p] \in Askers
  BY <1>1, <1>3 DEF IInv, TableTyped, TableInv
<1> QED
  BY <1>3, <1>4 DEF IInv, TableTyped, TableInv, Holding

\* A wait takes only a password that was typed for it or came late, and never
\* lets go of one that came in time.
LEMMA AskPassword ==
  ASSUME IInv, NEW a \in Askers, Announce(a) \/ AskStep(a)
  PROVE  PasswordInv'
<1> USE ConstantsAssumption
    DEF IInv, TableTyped, TypeOK, TableInv, OneOwner, PasswordInv, Kept, Emptied, Holding,
        askVars, delVars
<1>1. CASE Announce(a)
  BY <1>1 DEF Announce
<1>2. CASE Reject(a)
  BY <1>2 DEF Reject
<1>3. CASE Clear(a)
  <2> DEFINE s == First(Vacant)
  <2>1. s \in Slots /\ ~requests[s].in_use
    BY <1>3, VacantSlot DEF Clear
  <2>2. /\ asker' = [asker EXCEPT ![a] = "claiming"] /\ asker[a] = "announced"
        /\ own' = [own EXCEPT ![a] = s]
        /\ requests' = [requests EXCEPT ![s].id = a, ![s].password = Empty]
        /\ UNCHANGED <<answer, deliver, dest, typed, found, late>>
    BY <1>3 DEF Clear
  <2> HIDE DEF s
  <2>3. /\ \A t \in Slots : t # s => requests'[t] = requests[t]
        /\ requests'[s].password = Empty
    BY <2>1, <2>2, EraseSlot
  <2>4. \A b \in Askers : b # a => asker'[b] = asker[b] /\ own'[b] = own[b]
    BY <2>2
  <2>5. \A b \in Askers : asker[b] = "waiting" => b # a /\ own[b] \in Slots /\ own[b] # s
    BY <2>1, <2>2
  <2>6. \A d \in Deliveries : deliver[d] \in {"found", "writing", "ok"} =>
          dest[d] \in Askers /\ dest[d] # a
    BY <2>2
  <2>7. \A d \in Deliveries : deliver[d] = "ok" /\ typed[d] # Empty /\ d \notin late =>
          Kept(d)'
    BY <2>2, <2>3, <2>4, <2>5, <2>6
  <2>8. \A d \in Deliveries : deliver[d] = "writing" /\ d \notin late =>
          asker'[dest[d]] = "waiting" /\ requests'[found[d]].password = typed[d]
    BY <2>3, <2>4, <2>5, <2>6
  <2>9. \A t \in Slots : requests'[t].password # Empty =>
          LET p == requests'[t].password IN
          /\ deliver[p] \in {"writing", "ok"}
          /\ p \notin late => /\ asker'[dest[p]] = "waiting" /\ own'[dest[p]] = t
                              /\ requests'[t].ready \/ deliver[p] = "writing"
    <3> SUFFICES ASSUME NEW t \in Slots, requests'[t].password # Empty
                 PROVE  LET p == requests'[t].password IN
                        /\ deliver[p] \in {"writing", "ok"}
                        /\ p \notin late =>
                             /\ asker'[dest[p]] = "waiting" /\ own'[dest[p]] = t
                             /\ requests'[t].ready \/ deliver[p] = "writing"
      OBVIOUS
    <3>1. requests'[t] = requests[t]
      BY <2>3
    <3>2. requests[t].password \in Deliveries
      BY <3>1 DEF Request, Passwords
    <3> QED
      BY <2>4, <2>6, <3>1, <3>2
  <2> HIDE DEF Kept
  <2> QED
    BY <2>2, <2>4, <2>6, <2>7, <2>8, <2>9
<1>4. CASE Claim(a)
  <2>1. own[a] \in Slots /\ ~requests[own[a]].in_use
    BY <1>4 DEF Claim
  <2>2. /\ \A t \in Slots : /\ requests'[t].password = requests[t].password
                            /\ t # own[a] => requests'[t] = requests[t]
    <3>1. requests' = [requests EXCEPT ![own[a]].ready = FALSE, ![own[a]].in_use = TRUE]
      BY <1>4 DEF Claim
    <3> HIDE DEF TableInv, PasswordInv
    <3> QED
      BY <2>1, <3>1, MarkSlot
  <2>3. /\ asker' = [asker EXCEPT ![a] = "waiting"] /\ asker[a] = "claiming"
        /\ UNCHANGED <<own, answer, deliver, dest, typed, found, late>>
    BY <1>4 DEF Claim
  <2>4. \A b \in Askers : asker[b] = "waiting" => b # a /\ own[b] \in Slots /\ own[b] # own[a]
    BY <2>1, <2>3
  <2>5. \A d \in Deliveries : deliver[d] = "ok" /\ typed[d] # Empty /\ d \notin late =>
          Kept(d)'
    BY <2>2, <2>3, <2>4
  <2>6. \A t \in Slots : requests[t].password # Empty /\ requests[t].password \notin late =>
          t # own[a]
    BY <2>1, FreeSlotLate
  <2>7. \A t \in Slots : requests[t].password # Empty =>
          /\ requests[t].password \in Deliveries /\ dest[requests[t].password] \in Askers
    BY DEF Request, Passwords
  <2>8. \A d \in Deliveries :
          /\ deliver[d] \in {"found", "writing", "ok"} =>
               asker'[dest[d]] \in Holding \cup {"done"}
          /\ deliver[d] = "writing" /\ d \notin late =>
               asker'[dest[d]] = "waiting" /\ requests'[found[d]].password = typed[d]
    BY <2>2, <2>3
  <2>9. \A t \in Slots : requests'[t].password # Empty =>
          LET q == requests'[t].password IN
          /\ deliver[q] \in {"writing", "ok"}
          /\ q \notin late => /\ asker'[dest[q]] = "waiting" /\ own[dest[q]] = t
                              /\ requests'[t].ready \/ deliver[q] = "writing"
    BY <2>2, <2>3, <2>6, <2>7
  <2> HIDE DEF Kept
  <2> QED
    BY <2>3, <2>5, <2>8, <2>9
<1>5. CASE Take(a)
  <2>0. /\ own[a] \in Slots /\ SlotMutexFree(own[a])
        /\ asker' = [asker EXCEPT ![a] = "releasing"] /\ asker[a] = "waiting"
        /\ UNCHANGED <<own, deliver, dest, typed, found, late>>
    BY <1>5 DEF Take
  <2>1. CASE requests[own[a]].password = Empty
    <3>1. UNCHANGED <<answer, requests>>
      BY <1>5, <2>1 DEF Take
    <3>2. \A d \in Deliveries : deliver[d] = "ok" /\ typed[d] # Empty /\ d \notin late =>
            Kept(d)'
      BY <2>0, <2>1, <3>1
    <3>3. \A d \in Deliveries : deliver[d] = "writing" /\ d \notin late => dest[d] # a
      BY <2>0 DEF SlotMutexFree
    <3>4. \A t \in Slots : requests[t].password # Empty =>
            t # own[a] /\ requests[t].password \in Deliveries
      BY <2>1 DEF Request, Passwords
    <3> HIDE DEF Kept
    <3> QED
      BY <2>0, <3>1, <3>2, <3>3, <3>4
  <2>2. CASE requests[own[a]].password # Empty
    <3> DEFINE p == requests[own[a]].password
    <3>1. \A t \in Slots :
            /\ requests'[t].password = IF t = own[a] THEN Empty ELSE requests[t].password
            /\ requests'[t].ready = requests[t].ready
      BY <1>5, <2>2, FillSlot DEF Take, Passwords
    <3>2. /\ p \in Deliveries /\ deliver[p] # "idle"
          /\ p \notin late => dest[p] = a
      <4>1. p \in Deliveries
        BY <2>0, <2>2 DEF Request, Passwords
      <4>2. deliver[p] # "idle" /\ dest[p] \in Askers
        BY <2>0, <2>2, <4>1
      <4>3. p \notin late => asker[dest[p]] = "waiting" /\ own[dest[p]] = own[a]
        BY <2>0, <2>2
      <4> QED
        BY <2>0, <4>1, <4>2, <4>3
    <3>3. answer' = [answer EXCEPT ![a] = p]
      BY <1>5, <2>2 DEF Take
    <3> HIDE DEF p
    <3>4. \A b \in Askers : \/ answer'[b] = answer[b]
                            \/ b = a /\ answer'[b] = p /\ answer'[b] # None
      BY <3>2, <3>3
    <3>5. \A b \in Askers : asker[b] = "waiting" /\ b # a =>
            asker'[b] = "waiting" /\ own[b] \in Slots /\ own[b] # own[a]
      BY <2>0
    <3>6. \A d \in Deliveries : deliver[d] = "ok" /\ typed[d] # Empty /\ d \notin late =>
            Kept(d)'
      <4> SUFFICES ASSUME NEW d \in Deliveries, deliver[d] = "ok", typed[d] # Empty,
                          d \notin late
                   PROVE  Kept(d)'
        OBVIOUS
      <4>1. CASE dest[d] = a
        BY <2>0, <3>2, <3>3, <4>1
      <4>2. CASE dest[d] # a
        <5>1. dest[d] \in Askers
          BY DEF TableInv
        <5> QED
          BY <2>0, <3>1, <3>4, <3>5, <4>2, <5>1
      <4> QED
        BY <4>1, <4>2
    <3>7. \A d \in Deliveries : deliver[d] = "writing" => dest[d] # a
      BY <2>0 DEF SlotMutexFree
    <3>8. \A d \in Deliveries : deliver[d] = "writing" => found[d] # own[a]
      BY <2>0 DEF SlotMutexFree
    <3>9. \A t \in Slots : requests'[t].password # Empty =>
            /\ t # own[a] /\ requests'[t].password = requests[t].password
            /\ requests[t].password \in Deliveries
      BY <3>1 DEF Request, Passwords
    <3>10. \A t \in Slots : requests'[t].password # Empty
             /\ requests'[t].password \notin late =>
             dest[requests[t].password] # a
      BY <3>9
    <3> HIDE DEF Kept
    <3>11. \A d \in Deliveries :
             deliver'[d] \in {"found", "writing", "ok"} =>
               asker'[dest'[d]] \in Holding \cup {"done"} /\ own'[dest'[d]] = found'[d]
      BY <2>0
    <3>12. \A d \in Deliveries : deliver[d] = "writing" /\ d \notin late =>
             asker'[dest[d]] = "waiting" /\ requests'[found[d]].password = typed[d]
      BY <2>0, <3>1, <3>7, <3>8
    <3>13. \A b \in Askers :
             answer'[b] # None =>
               /\ deliver[answer'[b]] # "idle"
               /\ answer'[b] \notin late => dest[answer'[b]] = b
      BY <3>2, <3>4
    <3>14. \A t \in Slots : requests'[t].password # Empty =>
             LET q == requests'[t].password IN
             /\ deliver[q] \in {"writing", "ok"}
             /\ q \notin late => /\ asker'[dest[q]] = "waiting" /\ own[dest[q]] = t
                                 /\ requests'[t].ready \/ deliver[q] = "writing"
      BY <2>0, <3>1, <3>9, <3>10
    <3> QED
      BY <2>0, <3>6, <3>11, <3>12, <3>13, <3>14
  <2> QED
    BY <2>1, <2>2
<1>6. CASE TimeOut(a)
  <2>1. /\ own[a] \in Slots /\ SlotMutexFree(own[a]) /\ ~requests[own[a]].ready
        /\ asker' = [asker EXCEPT ![a] = "releasing"] /\ asker[a] = "waiting"
        /\ UNCHANGED <<requests, own, answer, deliver, dest, typed, found, late>>
    BY <1>6 DEF TimeOut
  <2>2. \A d \in Deliveries : deliver[d] = "writing" => dest[d] # a
    BY <2>1 DEF SlotMutexFree
  <2>3. \A d \in Deliveries : deliver[d] = "ok" /\ typed[d] # Empty /\ d \notin late =>
          Kept(d)'
    BY <2>1
  <2>4. \A t \in Slots : requests[t].password # Empty => requests[t].password \in Deliveries
    BY DEF Request, Passwords
  <2>5. \A t \in Slots : requests[t].password # Empty /\ requests[t].password \notin late =>
          dest[requests[t].password] # a
    BY <2>1, <2>2, <2>4
  <2> HIDE DEF Kept
  <2> QED
    BY <2>1, <2>2, <2>3, <2>4, <2>5
<1>7. CASE Release(a)
  <2>1. own[a] \in Slots
    BY <1>7 DEF Release
  <2>2. /\ asker' = [asker EXCEPT ![a] = "done"] /\ asker[a] = "releasing"
        /\ UNCHANGED <<own, answer, deliver, dest, typed, found, late>>
    BY <1>7 DEF Release
  <2>3. \A t \in Slots : /\ requests'[t].password = requests[t].password
                         /\ t # own[a] => requests'[t] = requests[t]
    <3>1. requests' = [requests EXCEPT ![own[a]].in_use = FALSE]
      BY <1>7 DEF Release
    <3> HIDE DEF TableInv, PasswordInv
    <3> QED
      BY <2>1, <3>1, MarkSlot
  <2>4. \A b \in Askers : asker[b] = "waiting" =>
          /\ asker'[b] = "waiting" /\ own[b] \in Slots /\ own[b] # own[a]
          /\ requests'[own[b]] = requests[own[b]]
    BY <2>2, <2>3
  <2>5. \A d \in Deliveries : deliver[d] # "idle" => dest[d] \in Askers
    OBVIOUS
  <2>6. \A d \in Deliveries : deliver[d] = "ok" /\ typed[d] # Empty /\ d \notin late =>
          Kept(d)'
    BY <2>2, <2>4, <2>5
  <2>7. \A t \in Slots : requests[t].password # Empty =>
          /\ requests[t].password \in Deliveries /\ dest[requests[t].password] \in Askers
    BY <2>5 DEF Request, Passwords
  <2> HIDE DEF Kept
  <2> QED
    BY <2>2, <2>3, <2>4, <2>5, <2>6, <2>7
<1> QED
  BY <1>1, <1>2, <1>3, <1>4, <1>5, <1>6, <1>7 DEF AskStep

\* A delivery writes only to the slot its request was given, and leaves what
\* others delivered in time or makes it empty.
LEMMA DeliverPassword ==
  ASSUME IInv, NEW d \in Deliveries,
         \/ DeliverStep(d)
         \/ \E a \in Askers : \E p \in {d, Empty} : Post(d, a, p)
  PROVE  PasswordInv'
<1> USE ConstantsAssumption
    DEF IInv, TableTyped, TypeOK, TableInv, OneOwner, PasswordInv, Kept, Emptied, Holding,
        askVars, delVars
<1>0. \A t \in Slots : requests[t].password # Empty =>
        /\ requests[t].password \in Deliveries
        /\ dest[requests[t].password] \in Askers
  BY DEF Request, Passwords
<1>1. ASSUME NEW a \in Askers, NEW p \in {d, Empty}, Post(d, a, p)
      PROVE  PasswordInv'
  <2>1. /\ deliver' = [deliver EXCEPT ![d] = "posted"] /\ deliver[d] = "idle"
        /\ dest' = [dest EXCEPT ![d] = a] /\ typed' = [typed EXCEPT ![d] = p]
        /\ UNCHANGED <<requests, asker, own, answer, found, late>>
    BY <1>1 DEF Post
  <2>2. \A e \in Deliveries : deliver'[e] = "ok" /\ typed'[e] # Empty /\ e \notin late =>
          Kept(e)'
    <3> SUFFICES ASSUME NEW e \in Deliveries, deliver'[e] = "ok", typed'[e] # Empty,
                        e \notin late
                 PROVE  Kept(e)'
      OBVIOUS
    <3>1. e # d /\ Kept(e) /\ found[e] \in Slots /\ own[dest[e]] = found[e]
      BY <2>1
    <3>2. found[d] = 0 /\ found[d] # own[dest[e]]
      BY <2>1, <3>1 DEF Slots
    <3> QED
      BY <2>1, <3>1, <3>2
  <2> HIDE DEF Kept
  <2> QED
    BY <1>0, <2>1, <2>2
<1>2. CASE Find(d)
  <2>1. CASE Matching(dest[d]) = {}
    <3>1. /\ deliver' = [deliver EXCEPT ![d] = "missing"] /\ deliver[d] = "posted"
          /\ UNCHANGED <<requests, asker, own, answer, dest, typed, found, late>>
      BY <1>2, <2>1 DEF Find
    <3> QED
      BY <1>0, <3>1
  <2>2. CASE Matching(dest[d]) # {}
    <3> DEFINE s == First(Matching(dest[d]))
    <3>1. s \in Slots /\ requests[s].in_use /\ requests[s].id = dest[d]
      BY <2>2, MatchingSlot
    <3>2. /\ found' = [found EXCEPT ![d] = s] /\ deliver' = [deliver EXCEPT ![d] = "found"]
          /\ deliver[d] = "posted"
          /\ UNCHANGED <<requests, asker, own, answer, dest, typed, late>>
      BY <1>2, <2>2 DEF Find
    <3> HIDE DEF s
    <3>3. asker[dest[d]] \in Holding /\ own[dest[d]] = s
      BY <3>1
    <3>4. \A e \in Deliveries : deliver'[e] = "ok" /\ typed[e] # Empty /\ e \notin late =>
            Kept(e)'
      <4> SUFFICES ASSUME NEW e \in Deliveries, deliver'[e] = "ok", typed[e] # Empty,
                          e \notin late
                   PROVE  Kept(e)'
        OBVIOUS
      <4>1. e # d /\ Kept(e) /\ found[e] \in Slots /\ own[dest[e]] = found[e]
        BY <3>2
      <4>2. found[d] = 0 /\ found[d] # own[dest[e]]
        BY <3>2, <4>1 DEF Slots
      <4> QED
        BY <3>2, <4>1, <4>2
    <3> HIDE DEF Kept
    <3> QED
      BY <1>0, <3>1, <3>2, <3>3, <3>4
  <2> QED
    BY <2>1, <2>2
<1>3. CASE Write(d)
  <2>1. /\ deliver' = [deliver EXCEPT ![d] = "writing"] /\ deliver[d] = "found"
        /\ late' = IF asker[dest[d]] \in {"releasing", "done"} THEN late \cup {d} ELSE late
        /\ UNCHANGED <<asker, own, answer, dest, typed, found>>
    BY <1>3 DEF Write
  <2>2. /\ found[d] \in Slots /\ own[dest[d]] = found[d]
        /\ dest[d] \in Askers /\ typed[d] \in {d, Empty}
    BY <2>1
  <2>3. \A t \in Slots :
          /\ requests'[t].password = IF t = found[d] THEN typed[d] ELSE requests[t].password
          /\ requests'[t].ready = requests[t].ready
    BY <1>3, <2>2, FillSlot DEF Write, Passwords
  <2>4. \A e \in Deliveries : deliver[e] = "writing" => found[e] # found[d]
    BY <1>3 DEF Write, SlotMutexFree
  <2>5. \A e \in Deliveries : deliver'[e] = "ok" /\ typed[e] # Empty /\ e \notin late' =>
          Kept(e)'
    <3> SUFFICES ASSUME NEW e \in Deliveries, deliver'[e] = "ok", typed[e] # Empty,
                        e \notin late'
                 PROVE  Kept(e)'
      OBVIOUS
    <3>1. /\ e # d /\ Kept(e) /\ found[e] \in Slots /\ own[dest[e]] = found[e]
          /\ dest[e] \in Askers
      BY <2>1
    <3>2. CASE found[e] = found[d]
      <4>1. CASE typed[d] = Empty
        BY <2>1, <3>1, <3>2, <4>1
      <4>2. CASE typed[d] # Empty
        BY <2>1, <2>3, <3>1, <3>2, <4>2
      <4> QED
        BY <4>1, <4>2
    <3>3. CASE found[e] # found[d]
      BY <2>1, <2>3, <3>1, <3>3
    <3> QED
      BY <3>2, <3>3
  <2>6. \A t \in Slots : requests'[t].password # Empty =>
          LET q == requests'[t].password IN
          /\ deliver'[q] \in {"writing", "ok"}
          /\ q \notin late' => /\ asker[dest[q]] = "waiting" /\ own[dest[q]] = t
                               /\ requests'[t].ready \/ deliver'[q] = "writing"
    <3> SUFFICES ASSUME NEW t \in Slots, requests'[t].password # Empty
                 PROVE  LET q == requests'[t].password IN
                        /\ deliver'[q] \in {"writing", "ok"}
                        /\ q \notin late' =>
                             /\ asker[dest[q]] = "waiting" /\ own[dest[q]] = t
                             /\ requests'[t].ready \/ deliver'[q] = "writing"
      OBVIOUS
    <3>1. CASE t = found[d]
      <4>1. requests'[t].password = d
        BY <2>2, <2>3, <3>1
      <4> QED
        BY <2>1, <2>2, <3>1, <4>1
    <3>2. CASE t # found[d]
      BY <1>0, <2>1, <2>3, <3>2
    <3> QED
      BY <3>1, <3>2
  <2>7. \A e \in Deliveries : deliver'[e] = "writing" /\ e \notin late' =>
          asker[dest[e]] = "waiting" /\ requests'[found[e]].password = typed[e]
    BY <2>1, <2>2, <2>3, <2>4
  <2>8. \A b \in Askers : answer[b] # None =>
          /\ deliver'[answer[b]] # "idle"
          /\ answer[b] \notin late' => dest[answer[b]] = b
    BY <2>1
  <2> HIDE DEF Kept
  <2> QED
    BY <2>1, <2>2, <2>5, <2>6, <2>7, <2>8
<1>4. CASE Signal(d)
  <2>1. /\ deliver' = [deliver EXCEPT ![d] = "ok"] /\ deliver[d] = "writing"
        /\ UNCHANGED <<asker, own, answer, dest, typed, found, late>>
    BY <1>4 DEF Signal
  <2>2. found[d] \in Slots /\ own[dest[d]] = found[d] /\ dest[d] \in Askers
    BY <2>1
  <2>3. \A t \in Slots :
          /\ requests'[t].password = requests[t].password
          /\ requests[t].ready => requests'[t].ready
          /\ t = found[d] => requests'[t].ready
    <3>1. requests' = [requests EXCEPT ![found[d]].ready = TRUE]
      BY <1>4 DEF Signal
    <3> HIDE DEF TableInv, PasswordInv
    <3> QED
      BY <2>2, <3>1, ReadySlot
  <2>4. \A e \in Deliveries : deliver'[e] = "ok" /\ typed[e] # Empty /\ e \notin late =>
          Kept(e)'
    <3> SUFFICES ASSUME NEW e \in Deliveries, deliver'[e] = "ok", typed[e] # Empty,
                        e \notin late
                 PROVE  Kept(e)'
      OBVIOUS
    <3>1. CASE e = d
      <4>1. asker[dest[d]] = "waiting" /\ requests[found[d]].password = typed[d]
        BY <2>1, <3>1
      <4> QED
        BY <2>1, <2>2, <2>3, <3>1, <4>1
    <3>2. CASE e # d
      <4>1. Kept(e) /\ found[e] \in Slots /\ own[dest[e]] = found[e]
        BY <2>1, <3>2
      <4>2. answer'[dest'[e]] = answer[dest[e]] /\ Emptied(dest[e])' = Emptied(dest[e])
        BY <2>1
      <4>3. /\ requests[own[dest[e]]].ready => requests'[own[dest[e]]].ready
            /\ requests'[own[dest[e]]].password = requests[own[dest[e]]].password
        BY <2>3, <4>1
      <4> HIDE DEF TableInv, PasswordInv, TypeOK, Emptied
      <4> QED
        BY <2>1, <4>1, <4>2, <4>3
    <3> QED
      BY <3>1, <3>2
  <2>5. \A t \in Slots : requests'[t].password # Empty =>
          LET q == requests'[t].password IN
          /\ deliver'[q] \in {"writing", "ok"}
          /\ q \notin late => /\ asker[dest[q]] = "waiting" /\ own[dest[q]] = t
                              /\ requests'[t].ready \/ deliver'[q] = "writing"
    <3> SUFFICES ASSUME NEW t \in Slots, requests[t].password # Empty
                 PROVE  LET q == requests[t].password IN
                        /\ deliver'[q] \in {"writing", "ok"}
                        /\ q \notin late =>
                             /\ asker[dest[q]] = "waiting" /\ own[dest[q]] = t
                             /\ requests'[t].ready \/ deliver'[q] = "writing"
      BY <2>3
    <3> DEFINE q == requests[t].password
    <3>1. /\ q \in Deliveries /\ deliver[q] \in {"writing", "ok"}
          /\ q \notin late => /\ asker[dest[q]] = "waiting" /\ own[dest[q]] = t
                              /\ requests[t].ready \/ deliver[q] = "writing"
      BY <1>0
    <3>2. q = d /\ q \notin late => t = found[d]
      BY <2>2, <3>1
    <3> HIDE DEF q
    <3>3. /\ deliver'[q] \in {"writing", "ok"}
          /\ q # d => deliver'[q] = deliver[q]
      BY <2>1, <3>1
    <3> HIDE DEF TableInv, PasswordInv, TypeOK
    <3>4. q \notin late => requests'[t].ready \/ deliver'[q] = "writing"
      BY <2>3, <3>1, <3>2, <3>3
    <3> QED
      BY <3>1, <3>3, <3>4 DEF q
  <2>6. \A e \in Deliveries :
          /\ deliver'[e] \in {"idle", "posted", "missing"} => found[e] = 0
          /\ deliver'[e] \in {"found", "writing", "ok"} =>
               /\ found[e] \in Slots
               /\ asker[dest[e]] \in Holding \cup {"done"} /\ own[dest[e]] = found[e]
          /\ deliver'[e] = "writing" /\ e \notin late =>
               asker[dest[e]] = "waiting" /\ requests'[found[e]].password = typed[e]
    BY <2>1, <2>3
  <2>7. \A b \in Askers : answer[b] # None => deliver'[answer[b]] # "idle"
    BY <2>1
  <2> HIDE DEF Kept
  <2> QED
    BY <2>1, <2>4, <2>5, <2>6, <2>7
<1> QED
  BY <1>1, <1>2, <1>3, <1>4 DEF DeliverStep

\* Every step keeps the invariant of the passwords.
LEMMA PasswordStep == IInv /\ [Next]_vars => IInv'
<1> SUFFICES ASSUME IInv, [Next]_vars PROVE IInv'
  OBVIOUS
<1>1. TableTyped'
  BY TableStep DEF IInv
<1>2. CASE UNCHANGED vars
  BY <1>1, <1>2 DEF IInv, PasswordInv, Kept, Emptied, Slots, vars, askVars, delVars
<1>3. CASE Next
  BY <1>1, <1>2, <1>3, AskPassword, DeliverPassword DEF Next, Idle, IInv
<1> QED
  BY <1>2, <1>3

\* Whatever the interleaving of waits, timeouts, deliveries and reuses of slots:
\* a password that was written while its request waited is taken by that request
\* and no other and is not lost, and a free slot holds only late ones.
THEOREM PasswordCorrect ==
  Spec => [](OwnPassword /\ DeliveredIsReceived /\ NoPasswordLeft)
<1>1. Init => IInv
  BY InitTable, InitPassword DEF IInv
<1>2. IInv /\ [Next]_vars => IInv'
  BY PasswordStep
<1>3. IInv => OwnPassword
  BY DEF IInv, PasswordInv, OwnPassword
<1>4. IInv => DeliveredIsReceived
  BY DEF IInv, PasswordInv, DeliveredIsReceived, Kept
<1>5. IInv => NoPasswordLeft
  BY FreeSlotLate DEF NoPasswordLeft
<1> QED
  BY <1>1, <1>2, <1>3, <1>4, <1>5, PTL DEF Spec
=============================================================================
