------------------------------ MODULE Askpass ------------------------------
(***************************************************************************)
(* The table of pending password requests (src/src/askpass.c) and the two  *)
(* HTTP handlers that use it (handle_internal_askpass and handle_password  *)
(* of src/src/http_server.c), one thread per connection:                   *)
(*   - an asker is the GET of one askpass script; its id is a fresh UUID,  *)
(*     so the asker names it;                                              *)
(*   - a delivery is the POST of a client that saw the request.  A         *)
(*     delivery also names the password it carries, so that a password     *)
(*     tells whom it was typed for; Empty is the empty string.             *)
(* One step is one critical section, except where two sections of          *)
(* different mutexes touch the same fields: alloc_slot clears a slot under *)
(* the table mutex only, deliver writes it under the slot's mutex only.    *)
(***************************************************************************)
EXTENDS Naturals, SlotSearch

CONSTANTS
  Askers,            \* GET /api/internal/askpass requests
  Deliveries,        \* POST /api/password requests, and their passwords
  MaxRequests,       \* MAX_ASKPASS_REQUESTS
  None,              \* no request, no answer
  Empty              \* the empty password

ASSUME ConstantsAssumption ==
  /\ MaxRequests \in Nat \ {0}
  /\ None \notin Askers \cup Deliveries
  /\ Empty \notin Deliveries \cup {None}

VARIABLES
  requests,   \* g_requests: slot -> [id, password, ready, in_use]
  claiming,   \* the asker in alloc_slot, which holds g_table_mutex
  asker,      \* where each asker is
  own,        \* the slot of each asker
  answer,     \* the password each asker got, None for an empty reply
  deliver,    \* where each delivery is
  dest,       \* the request each delivery is for
  typed,      \* the password each delivery carries
  found,      \* the slot each delivery found
  late        \* deliveries that wrote when their request had stopped waiting

askVars == <<asker, own, answer>>
delVars == <<deliver, dest, typed, found, late>>
vars == <<requests, claiming, askVars, delVars>>

Slots == 1..MaxRequests
Passwords == Deliveries \cup {Empty}
Request == [id : Askers \cup {None}, password : Passwords,
            ready : BOOLEAN, in_use : BOOLEAN]
FreeRequest == [id |-> None, password |-> Empty, ready |-> FALSE, in_use |-> FALSE]

-----------------------------------------------------------------------------
(* Helpers                                                                 *)

TableMutexFree == claiming = None

\* askpass_deliver_password holds the slot's mutex between its two writes.
SlotMutexFree(s) == \A d \in Deliveries : deliver[d] = "writing" => found[d] # s

\* A plausible bug: the search forgets to look at in_use.
VacantIgnoringUse == Slots
Vacant == {s \in Slots : ~requests[s].in_use}

\* A plausible bug: any request in use will do.
MatchingIgnoringId(id) == {s \in Slots : requests[s].in_use}
Matching(id) == {s \in Slots : requests[s].in_use /\ requests[s].id = id}

Init ==
  /\ requests = [s \in Slots |-> FreeRequest]
  /\ claiming = None
  /\ asker = [a \in Askers |-> "idle"]
  /\ own = [a \in Askers |-> 0]
  /\ answer = [a \in Askers |-> None]
  /\ deliver = [d \in Deliveries |-> "idle"]
  /\ dest = [d \in Deliveries |-> None]
  /\ typed = [d \in Deliveries |-> Empty]
  /\ found = [d \in Deliveries |-> 0]
  /\ late = {}

-----------------------------------------------------------------------------
(* GET /api/internal/askpass: broadcast password_request, then             *)
(* askpass_wait_for_password                                               *)

Announce(a) ==
  /\ asker[a] = "idle"
  /\ asker' = [asker EXCEPT ![a] = "announced"]
  /\ UNCHANGED <<requests, claiming, own, answer, delVars>>

\* The table is full: an empty reply.
Reject(a) ==
  /\ asker[a] = "announced"
  /\ TableMutexFree
  /\ Vacant = {}
  /\ asker' = [asker EXCEPT ![a] = "done"]
  /\ UNCHANGED <<requests, claiming, own, answer, delVars>>

\* alloc_slot, first half: the data fields of the first free slot are erased.
Clear(a) ==
  /\ asker[a] = "announced"
  /\ TableMutexFree
  /\ Vacant # {}
  /\ claiming' = a
  /\ asker' = [asker EXCEPT ![a] = "claiming"]
  /\ own' = [own EXCEPT ![a] = First(Vacant)]
  /\ requests' = [requests EXCEPT ![First(Vacant)].id = a,
                                  ![First(Vacant)].password = Empty]
  /\ UNCHANGED <<answer, delVars>>

\* alloc_slot, second half.
Claim(a) ==
  /\ asker[a] = "claiming"
  /\ requests' = [requests EXCEPT ![own[a]].ready = FALSE, ![own[a]].in_use = TRUE]
  /\ claiming' = None
  /\ asker' = [asker EXCEPT ![a] = "waiting"]
  /\ UNCHANGED <<own, answer, delVars>>

\* A plausible bug: an empty password is a password.
TakeEvenEmpty(a) ==
  /\ asker[a] = "waiting"
  /\ SlotMutexFree(own[a])
  /\ requests[own[a]].ready
  /\ asker' = [asker EXCEPT ![a] = "releasing"]
  /\ answer' = [answer EXCEPT ![a] = requests[own[a]].password]
  /\ requests' = [requests EXCEPT ![own[a]].password = Empty]
  /\ UNCHANGED <<claiming, own, delVars>>

\* A plausible bug: the password is copied but not erased.
TakeWithoutErasing(a) ==
  /\ asker[a] = "waiting"
  /\ SlotMutexFree(own[a])
  /\ requests[own[a]].ready
  /\ asker' = [asker EXCEPT ![a] = "releasing"]
  /\ IF requests[own[a]].password # Empty
       THEN answer' = [answer EXCEPT ![a] = requests[own[a]].password]
       ELSE UNCHANGED answer
  /\ UNCHANGED <<requests, claiming, own, delVars>>

\* The wait ends because ready is set, whatever pthread_cond_timedwait
\* returned: a password that is not empty is copied and erased.
Take(a) ==
  /\ asker[a] = "waiting"
  /\ SlotMutexFree(own[a])
  /\ requests[own[a]].ready
  /\ asker' = [asker EXCEPT ![a] = "releasing"]
  /\ IF requests[own[a]].password # Empty
       THEN /\ answer' = [answer EXCEPT ![a] = requests[own[a]].password]
            /\ requests' = [requests EXCEPT ![own[a]].password = Empty]
       ELSE UNCHANGED <<answer, requests>>
  /\ UNCHANGED <<claiming, own, delVars>>

\* A plausible bug: after ETIMEDOUT ready is not looked at again.
TimeOutIgnoringReady(a) ==
  /\ asker[a] = "waiting"
  /\ SlotMutexFree(own[a])
  /\ asker' = [asker EXCEPT ![a] = "releasing"]
  /\ UNCHANGED <<requests, claiming, own, answer, delVars>>

\* ETIMEDOUT, with ready still unset when the mutex has been taken again.
TimeOut(a) ==
  /\ asker[a] = "waiting"
  /\ SlotMutexFree(own[a])
  /\ ~requests[own[a]].ready
  /\ asker' = [asker EXCEPT ![a] = "releasing"]
  /\ UNCHANGED <<requests, claiming, own, answer, delVars>>

\* The slot goes back to the table and the handler replies.
Release(a) ==
  /\ asker[a] = "releasing"
  /\ TableMutexFree
  /\ requests' = [requests EXCEPT ![own[a]].in_use = FALSE]
  /\ asker' = [asker EXCEPT ![a] = "done"]
  /\ UNCHANGED <<claiming, own, answer, delVars>>

-----------------------------------------------------------------------------
(* POST /api/password: askpass_deliver_password                            *)

\* A client that received password_request posts a password, possibly empty,
\* possibly for a request it has already answered.
Post(d, a, p) ==
  /\ deliver[d] = "idle"
  /\ asker[a] # "idle"
  /\ deliver' = [deliver EXCEPT ![d] = "posted"]
  /\ dest' = [dest EXCEPT ![d] = a]
  /\ typed' = [typed EXCEPT ![d] = p]
  /\ UNCHANGED <<requests, claiming, askVars, found, late>>

\* find_slot, under the table mutex; no slot is a 404.
Find(d) ==
  /\ deliver[d] = "posted"
  /\ TableMutexFree
  /\ IF Matching(dest[d]) = {}
       THEN deliver' = [deliver EXCEPT ![d] = "missing"] /\ UNCHANGED found
       ELSE /\ deliver' = [deliver EXCEPT ![d] = "found"]
            /\ found' = [found EXCEPT ![d] = First(Matching(dest[d]))]
  /\ UNCHANGED <<requests, claiming, askVars, dest, typed, late>>

\* The password is written under the mutex of the slot that was found, whoever
\* uses it by now and whether or not it still waits.
Write(d) ==
  /\ deliver[d] = "found"
  /\ SlotMutexFree(found[d])
  /\ deliver' = [deliver EXCEPT ![d] = "writing"]
  /\ requests' = [requests EXCEPT ![found[d]].password = typed[d]]
  /\ late' = IF asker[dest[d]] \in {"releasing", "done"} THEN late \cup {d} ELSE late
  /\ UNCHANGED <<claiming, askVars, dest, typed, found>>

\* A plausible bug: the slot's mutex is not unlocked.
SignalKeepingMutex(d) ==
  /\ deliver[d] = "writing"
  /\ ~requests[found[d]].ready
  /\ requests' = [requests EXCEPT ![found[d]].ready = TRUE]
  /\ UNCHANGED <<deliver, claiming, askVars, dest, typed, found, late>>

\* ready = 1, signal, unlock, and 200.
Signal(d) ==
  /\ deliver[d] = "writing"
  /\ requests' = [requests EXCEPT ![found[d]].ready = TRUE]
  /\ deliver' = [deliver EXCEPT ![d] = "ok"]
  /\ UNCHANGED <<claiming, askVars, dest, typed, found, late>>

-----------------------------------------------------------------------------
AskStep(a) ==
  Reject(a) \/ Clear(a) \/ Claim(a) \/ Take(a) \/ TimeOut(a) \/ Release(a)

DeliverStep(d) == Find(d) \/ Write(d) \/ Signal(d)

\* Every request has been answered and every delivery has returned.
Idle ==
  /\ \A a \in Askers : asker[a] \in {"idle", "done"}
  /\ \A d \in Deliveries : deliver[d] \in {"idle", "missing", "ok"}
  /\ UNCHANGED vars

Next ==
  \/ \E a \in Askers : Announce(a) \/ AskStep(a)
  \/ \E d \in Deliveries, a \in Askers : \E p \in {d, Empty} : Post(d, a, p)
  \/ \E d \in Deliveries : DeliverStep(d)
  \/ Idle

Spec == Init /\ [][Next]_vars

(* The scheduler runs every thread that can run, and 120 seconds pass.  No
   client ever has to deliver anything.                                    *)
Fairness ==
  /\ \A a \in Askers : WF_vars(AskStep(a))
  /\ \A d \in Deliveries : WF_vars(DeliverStep(d))

FairSpec == Spec /\ Fairness

-----------------------------------------------------------------------------
(* Properties                                                              *)

\* Every variable has its type.
TypeOK ==
  /\ requests \in [Slots -> Request]
  /\ claiming \in Askers \cup {None}
  /\ asker \in [Askers -> {"idle", "announced", "claiming", "waiting", "releasing", "done"}]
  /\ own \in [Askers -> Slots \cup {0}]
  /\ answer \in [Askers -> Deliveries \cup {None}]
  /\ deliver \in [Deliveries -> {"idle", "posted", "found", "writing", "ok", "missing"}]
  /\ dest \in [Deliveries -> Askers \cup {None}]
  /\ typed \in [Deliveries -> Passwords]
  /\ found \in [Deliveries -> Slots \cup {0}]
  /\ late \subseteq Deliveries

Holding == {"waiting", "releasing"}

\* A slot in use belongs to one asker that waits on it or is about to release
\* it: two waits never share a slot, and no slot is lost when a wait ends.
OneOwner ==
  /\ \A a, b \in Askers :
       asker[a] \in Holding /\ asker[b] \in Holding /\ own[a] = own[b] => a = b
  /\ \A s \in Slots :
       requests[s].in_use => \E a \in Askers : asker[a] \in Holding /\ own[a] = s

\* A password reaches the request it was typed for and no other, although
\* slots are reused and a delivery takes the two mutexes one after the other,
\* unless it was written after its request had stopped waiting.
OwnPassword ==
  \A a \in Askers :
    answer[a] # None /\ answer[a] \notin late => dest[answer[a]] = a

\* An empty password was written over the one in the slot of a request.
Emptied(a) == \E e \in Deliveries : typed[e] = Empty /\ found[e] = own[a]

\* A delivery that answered 200 with a password in time was not in vain: its
\* request is answered with a password, unless an empty one overwrote it.
DeliveredIsReceived ==
  \A d \in Deliveries :
    deliver[d] = "ok" /\ typed[d] # Empty /\ d \notin late /\ asker[dest[d]] = "done"
      => answer[dest[d]] # None \/ Emptied(dest[d])

\* A slot that is given back holds no password, unless one came late: the wait
\* erases what it takes.
NoPasswordLeft ==
  \A s \in Slots :
    ~requests[s].in_use /\ requests[s].password # Empty => requests[s].password \in late

\* The same as OwnPassword for late deliveries too.
OnlyOwnPassword == \A a \in Askers : answer[a] # None => dest[answer[a]] = a

\* Every GET is answered in the end, with or without a password, whatever the
\* clients do: no asker waits for ever on a mutex, a slot or a client.
EveryAskAnswered == \A a \in Askers : asker[a] = "announced" ~> asker[a] = "done"

\* A password that is ready while its request still waits is the answer, even
\* when the timeout expires at that moment (unless another delivery to the same
\* slot replaces it).
InTimeIsReceived ==
  \A a \in Askers, d \in Deliveries :
    asker[a] = "waiting" /\ requests[own[a]].ready /\ requests[own[a]].password = d
      ~> answer[a] = d \/ \E e \in Deliveries \ {d} : found[e] = own[a]

\* The strengthening that makes TypeOK and OneOwner inductive: a chosen slot is
\* in the table, the slot being claimed is still free, and a slot in use bears
\* the name of its owner.
TableInv ==
  /\ \A a \in Askers :
       /\ asker[a] \in Holding \cup {"claiming"} => own[a] \in Slots
       /\ asker[a] \in Holding => requests[own[a]].in_use /\ requests[own[a]].id = a
       /\ asker[a] = "claiming" =>
            claiming = a /\ ~requests[own[a]].in_use /\ requests[own[a]].id = a
  /\ \A d \in Deliveries :
       /\ deliver[d] \in {"found", "writing"} => found[d] \in Slots
       /\ deliver[d] # "idle" => dest[d] \in Askers
  /\ OneOwner

\* The password of a delivery was taken, overwritten, or waits to be taken.
Kept(d) ==
  LET a == dest[d] IN
  \/ answer[a] # None
  \/ Emptied(a)
  \/ asker[a] = "waiting" /\ requests[own[a]].ready /\ requests[own[a]].password # Empty

\* The strengthening behind the three.  A delivery writes to the slot its
\* request was given; a password that came in time is in the slot of a request
\* that still waits, and is ready or about to be; a password on its way has been
\* posted; a password that was accepted in time is taken or still there.
PasswordInv ==
  /\ \A d \in Deliveries :
       /\ typed[d] \in {d, Empty}
       /\ deliver[d] \in {"idle", "posted", "missing"} => found[d] = 0
       /\ deliver[d] \in {"found", "writing", "ok"} =>
            /\ found[d] \in Slots
            /\ asker[dest[d]] \in Holding \cup {"done"} /\ own[dest[d]] = found[d]
       /\ deliver[d] = "writing" /\ d \notin late =>
            asker[dest[d]] = "waiting" /\ requests[found[d]].password = typed[d]
       /\ deliver[d] = "ok" /\ typed[d] # Empty /\ d \notin late => Kept(d)
  /\ \A a \in Askers :
       answer[a] # None =>
         /\ deliver[answer[a]] # "idle"
         /\ answer[a] \notin late => dest[answer[a]] = a
  /\ \A s \in Slots :
       LET p == requests[s].password IN
       p # Empty =>
         /\ deliver[p] \in {"writing", "ok"}
         /\ p \notin late =>
              /\ asker[dest[p]] = "waiting" /\ own[dest[p]] = s
              /\ requests[s].ready \/ deliver[p] = "writing"
=============================================================================
