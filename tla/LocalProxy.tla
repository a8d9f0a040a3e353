----------------------------- MODULE LocalProxy -----------------------------
(***************************************************************************)
(* The HTTPS proxy (src/src/local_proxy.c) and the part of main.c that     *)
(* creates, starts, stops and frees it.  The main thread sets it up; the   *)
(* acceptor waits for clients, with a timeout of one second, and gives     *)
(* each to a detached thread: TLS handshake, choice of the backend by the  *)
(* name the client asked for, connection to it, relay.  One thread moves   *)
(* the data both ways, one buffer at a time, each end of a connection      *)
(* having a bounded buffer in the kernel.  What is relayed is counted, not *)
(* named; a client sends TLS records, each at most one buffer, so none is  *)
(* left in SSL_pending, but it may stop in the middle of one.  Host names  *)
(* are compared without case and stand for that.                           *)
(***************************************************************************)
EXTENDS SlotSearch, Integers, SequencesExt

CONSTANTS
  Conns,      \* connections of clients
  Names,      \* names of hosts
  Hosts,      \* cm_get_hosts at the start: name, and first local port or 0
  MaxVhosts,  \* LP_MAX_VHOSTS
  Budget,     \* bound: buffers each end of a connection sends
  Room,       \* buffers the kernel holds in each direction of a socket
  None        \* no name

ASSUME ProxyAssumption ==
  /\ Hosts \in Seq([name : Names, port : Nat])
  /\ MaxVhosts \in Nat \ {0} /\ Room \in Nat \ {0}
  /\ Budget \in [Conns -> Nat]
  /\ None \notin Names

VARIABLES
  main,          \* where the main thread is
  threadFailed,  \* lp_start could not create the acceptor
  running,       \* lp->running
  listening,     \* lp->listen_fd is open
  lp,            \* the proxy: none, here, or given back
  vhosts,        \* lp->vhosts: the hosts served, as positions in Hosts
  acceptor,      \* where the acceptor is
  taken,         \* the connection it has accepted, None otherwise
  conn,          \* where each connection is
  sni,           \* the name each client asks for
  cert,          \* the virtual host whose certificate it was shown, 0 if none
  port,          \* backend_port
  open,          \* the descriptors of the proxy: <<connection, end>>
  ready,         \* what poll said of each connection
  part,          \* clients that have sent part of a record, or one without data
  sent,          \* buffers each end has sent
  moved,         \* ... the handler has taken from it
  put,           \* ... the handler has given to it
  got,           \* ... it has received
  peer,          \* each end: open, closed, or reset
  why,           \* how each relay ended
  used,          \* threads that used lp after it was given back
  late           \* handlers that were not relaying yet at that moment

lpVars == <<lp, running, listening, vhosts>>
mainVars == <<main, threadFailed, lpVars, late>>
routeVars == <<sni, cert, port>>
dataVars == <<part, sent, moved, put, got, peer>>
relayVars == <<dataVars, ready, why>>
vars == <<mainVars, acceptor, taken, conn, routeVars, open, relayVars, used>>

Ends == {"client", "backend"}
Other(e) == IF e = "client" THEN "backend" ELSE "client"
Alive == main \notin {"exited", "crashed"}
Goto(c, position) == conn' = [conn EXCEPT ![c] = position]

\* The threads that read *lp.
Touch(t) == used' = IF lp = "freed" THEN used \cup {t} ELSE used

Init ==
  /\ main = "start" /\ threadFailed = FALSE
  /\ lp = "none" /\ running = FALSE /\ listening = FALSE /\ vhosts = <<>>
  /\ acceptor = "none" /\ taken = None
  /\ conn = [c \in Conns |-> "away"]
  /\ sni = [c \in Conns |-> None] /\ cert = [c \in Conns |-> 0] /\ port = [c \in Conns |-> 0]
  /\ open = {} /\ ready = [c \in Conns |-> {}] /\ part = {}
  /\ sent = [c \in Conns |-> [e \in Ends |-> 0]] /\ moved = sent /\ put = sent /\ got = sent
  /\ peer = [c \in Conns |-> [e \in Ends |-> "open"]]
  /\ why = [c \in Conns |-> "none"]
  /\ used = {} /\ late = {}

-----------------------------------------------------------------------------
(* The main thread                                                         *)

\* The positions of Hosts that get a virtual host, as far as there is room: a
\* local forward, and a certificate and context that could be made.
Eligible(certified) ==
  FlattenSeq([i \in DOMAIN Hosts |->
                IF Hosts[i].port # 0 /\ i \in certified THEN <<i>> ELSE <<>>])

\* A plausible bug: the table's limit is not looked at.
VhostsAll(certified) == Eligible(certified)

\* lp_create: a virtual host for each, up to the limit.
Vhosts(certified) ==
  LET eligible == Eligible(certified) IN
  SubSeq(eligible, 1, IF Len(eligible) > MaxVhosts THEN MaxVhosts ELSE Len(eligible))

Create ==
  /\ main = "start"
  /\ \E certified \in SUBSET DOMAIN Hosts :
       /\ vhosts' = Vhosts(certified)
       /\ main' = IF vhosts' = <<>> THEN "idle" ELSE "created"
       /\ lp' = IF vhosts' = <<>> THEN "none" ELSE "here"
  /\ UNCHANGED <<threadFailed, running, listening, late, acceptor, taken, conn, routeVars,
                 open, relayVars, used>>

\* No mkcert, CA, directory or memory: there is no proxy.
CreateFails ==
  /\ main = "start"
  /\ main' = "idle"
  /\ UNCHANGED <<threadFailed, lpVars, late, acceptor, taken, conn, routeVars, open,
                 relayVars, used>>

\* lp_start.
Start ==
  /\ main = "created"
  /\ main' = "idle"
  /\ running' = TRUE /\ listening' = TRUE /\ acceptor' = "check"
  /\ UNCHANGED <<threadFailed, lp, vhosts, late, taken, conn, routeVars, open,
                 relayVars, used>>

\* socket, bind on both ports, or listen fails; or pthread_create does, with
\* running already set.
StartFails ==
  /\ main = "created"
  /\ main' = "idle"
  /\ \/ UNCHANGED <<running, threadFailed>>
     \/ running' = TRUE /\ threadFailed' = TRUE
  /\ UNCHANGED <<lp, listening, vhosts, late, acceptor, taken, conn, routeVars, open,
                 relayVars, used>>

\* The window is closed: cleanup, and lp_stop unless the proxy does not run.
Quit ==
  /\ main = "idle"
  /\ main' = CASE lp = "none" -> "cleanup"
               [] lp # "none" /\ running -> "closing"
               [] lp # "none" /\ ~running -> "freeing"
  /\ running' = FALSE
  /\ UNCHANGED <<threadFailed, lp, listening, vhosts, late, acceptor, taken, conn,
                 routeVars, open, relayVars, used>>

\* The listener is closed; clients that wait in its queue are reset.
CloseListener ==
  /\ main = "closing"
  /\ main' = "joining" /\ listening' = FALSE
  /\ conn' = [c \in Conns |-> IF conn[c] = "queued" THEN "ended" ELSE conn[c]]
  /\ UNCHANGED <<threadFailed, lp, running, vhosts, late, acceptor, taken, routeVars,
                 open, relayVars, used>>

\* A plausible bug: lp_stop does not wait for the acceptor.
JoinNothing ==
  /\ main = "joining"
  /\ main' = "freeing"
  /\ UNCHANGED <<threadFailed, lpVars, late, acceptor, taken, conn, routeVars, open,
                 relayVars, used>>

\* pthread_join.  With no acceptor its thread is whatever calloc left there.
Join ==
  /\ main = "joining"
  /\ \/ acceptor = "done" /\ main' = "freeing"
     \/ acceptor = "none" /\ main' \in {"freeing", "crashed"}
  /\ UNCHANGED <<threadFailed, lpVars, late, acceptor, taken, conn, routeVars, open,
                 relayVars, used>>

\* What a handler does before it needs *lp no more.
Early == {"starting", "handshake", "routing"}

\* lp_free.
Free ==
  /\ main = "freeing"
  /\ main' = "cleanup" /\ lp' = "freed" /\ listening' = FALSE
  /\ late' = {c \in Conns : conn[c] \in Early}
  /\ UNCHANGED <<threadFailed, running, vhosts, acceptor, taken, conn, routeVars, open,
                 relayVars, used>>

\* The rest of cleanup (the server, the tunnels, the manager), and the end of
\* the process.
Exit ==
  /\ main = "cleanup"
  /\ main' = "exited"
  /\ UNCHANGED <<threadFailed, lpVars, late, acceptor, taken, conn, routeVars, open,
                 relayVars, used>>

-----------------------------------------------------------------------------
(* The acceptor                                                            *)

\* A client connects: its connection waits in the listener's queue.
Arrive(c) ==
  /\ conn[c] = "away" /\ Alive /\ listening
  /\ Goto(c, "queued")
  /\ UNCHANGED <<mainVars, acceptor, taken, routeVars, open, relayVars, used>>

\* A plausible bug: lp->running is read once.
CheckOnce ==
  /\ acceptor = "check" /\ Alive
  /\ acceptor' = "polling"
  /\ Touch("acceptor")
  /\ UNCHANGED <<mainVars, taken, conn, routeVars, open, relayVars>>

\* The loop reads lp->running, then lp->listen_fd.
Check ==
  /\ acceptor = "check" /\ Alive
  /\ acceptor' = IF running THEN "polling" ELSE "done"
  /\ Touch("acceptor")
  /\ UNCHANGED <<mainVars, taken, conn, routeVars, open, relayVars>>

\* poll returns for a client, or after a second; closing the listener does not
\* wake it, and a closed descriptor is not POLLIN.
Poll ==
  /\ acceptor = "polling" /\ Alive
  /\ acceptor' \in IF listening /\ \E c \in Conns : conn[c] = "queued"
                     THEN {"accepting", "check"} ELSE {"check"}
  /\ UNCHANGED <<mainVars, taken, conn, routeVars, open, relayVars, used>>

Accept ==
  /\ acceptor = "accepting" /\ Alive
  /\ \E c \in Conns :
       /\ listening /\ conn[c] = "queued"
       /\ Goto(c, "accepted") /\ taken' = c /\ open' = open \cup {<<c, "client">>}
  /\ acceptor' = "spawning"
  /\ Touch("acceptor")
  /\ UNCHANGED <<mainVars, routeVars, relayVars>>

\* The listener has been closed since, or there are no descriptors left.
AcceptFails ==
  /\ acceptor = "accepting" /\ Alive
  /\ acceptor' = "check"
  /\ Touch("acceptor")
  /\ UNCHANGED <<mainVars, taken, conn, routeVars, open, relayVars>>

Spawn ==
  /\ acceptor = "spawning" /\ Alive
  /\ Goto(taken, "starting") /\ taken' = None
  /\ acceptor' = "check"
  /\ UNCHANGED <<mainVars, routeVars, open, relayVars, used>>

\* A plausible bug: the client is forgotten, its descriptor stays open.
SpawnFailsOpen ==
  /\ acceptor = "spawning" /\ Alive
  /\ Goto(taken, "ended") /\ taken' = None
  /\ acceptor' = "check"
  /\ UNCHANGED <<mainVars, routeVars, open, relayVars, used>>

\* No memory, or no thread.
SpawnFails ==
  /\ acceptor = "spawning" /\ Alive
  /\ Goto(taken, "ended") /\ taken' = None /\ open' = open \ {<<taken, "client">>}
  /\ acceptor' = "check"
  /\ UNCHANGED <<mainVars, routeVars, relayVars, used>>

-----------------------------------------------------------------------------
(* connection_handler, up to the relay                                     *)

\* A handler ends: its descriptors are closed.
End(c) == Goto(c, "ended") /\ open' = open \ {<<c, e>> : e \in Ends}

\* SSL_new on lp->dispatcher_ctx.
NewSsl(c) ==
  /\ conn[c] = "starting" /\ Alive
  /\ Goto(c, "handshake")
  /\ Touch(c)
  /\ UNCHANGED <<mainVars, acceptor, taken, routeVars, open, relayVars>>

\* The virtual hosts of a name.
Serving(name) == {v \in 1..MaxVhosts : v <= Len(vhosts) /\ Hosts[vhosts[v]].name = name}

\* The loop of sni_callback and of find_backend_port.
Find(name) == IF Serving(name) = {} THEN 0 ELSE First(Serving(name))

\* SSL_accept, with sni_callback: without a name the certificate is that of the
\* dispatcher, the first host's.
Handshake(c) ==
  /\ conn[c] = "handshake" /\ Alive
  /\ \E name \in Names \cup {None} :
       /\ name = None \/ Find(name) # 0
       /\ sni' = [sni EXCEPT ![c] = name]
       /\ cert' = [cert EXCEPT ![c] = IF name = None THEN 1 ELSE Find(name)]
  /\ Goto(c, "routing")
  /\ Touch(c)
  /\ UNCHANGED <<mainVars, acceptor, taken, port, open, relayVars>>

\* A plausible bug: the search for the port ends with the last host of the name.
RouteLast(c) ==
  /\ conn[c] = "routing" /\ Alive
  /\ sni[c] # None
  /\ \E v \in Serving(sni[c]) :
       /\ \A w \in Serving(sni[c]) : w <= v
       /\ port' = [port EXCEPT ![c] = Hosts[vhosts[v]].port]
  /\ Goto(c, "connecting")
  /\ Touch(c)
  /\ UNCHANGED <<mainVars, acceptor, taken, sni, cert, open, relayVars>>

\* find_backend_port.
Route(c) ==
  /\ conn[c] = "routing" /\ Alive
  /\ sni[c] # None
  /\ port' = [port EXCEPT ![c] = Hosts[vhosts[Find(sni[c])]].port]
  /\ Goto(c, "connecting")
  /\ Touch(c)
  /\ UNCHANGED <<mainVars, acceptor, taken, sni, cert, open, relayVars>>

\* No memory, no handshake (among others for a name that is not served), no
\* name: the connection is closed.
Refuse(c) ==
  /\ Alive
  /\ \/ conn[c] \in {"starting", "handshake"}
     \/ conn[c] = "routing" /\ sni[c] = None
  /\ End(c)
  /\ Touch(c)
  /\ UNCHANGED <<mainVars, acceptor, taken, routeVars, relayVars>>

\* A handler that finds *lp given back may end the process instead.
UseFreed(c) ==
  /\ conn[c] \in Early /\ lp = "freed" /\ Alive
  /\ main' = "crashed"
  /\ Touch(c)
  /\ UNCHANGED <<threadFailed, lpVars, late, acceptor, taken, conn, routeVars, open, relayVars>>

Connect(c) ==
  /\ conn[c] = "connecting" /\ Alive
  /\ Goto(c, "poll") /\ open' = open \cup {<<c, "backend">>}
  /\ UNCHANGED <<mainVars, acceptor, taken, routeVars, relayVars, used>>

\* The tunnel is not active: 502.
BadGateway(c) ==
  /\ conn[c] = "connecting" /\ Alive
  /\ End(c)
  /\ UNCHANGED <<mainVars, acceptor, taken, routeVars, relayVars, used>>

-----------------------------------------------------------------------------
(* The ends of a relayed connection                                        *)

Relaying == {"poll", "fromClient", "toBackend", "fromBackend", "toClient"}

Unread(c, e) == sent[c][e] > moved[c][e]
InPart(c, e) == e = "client" /\ c \in part
RoomTo(c, e) == put[c][e] - got[c][e] < Room
Count(counter, c, e) == counter' = [counter EXCEPT ![c][e] = @ + 1]
SetPeer(c, e, state) == peer' = [peer EXCEPT ![c][e] = state]

CanSend(c, e) ==
  /\ conn[c] \in Relaying /\ Alive /\ peer[c][e] = "open"
  /\ sent[c][e] < Budget[c] /\ sent[c][e] - moved[c][e] < Room

\* An end sends; the client a record, or the rest of one.
Send(c, e) ==
  /\ CanSend(c, e)
  /\ Count(sent, c, e)
  /\ part' = IF e = "client" THEN part \ {c} ELSE part
  /\ UNCHANGED <<mainVars, acceptor, taken, conn, routeVars, open, ready, moved, put, got,
                 peer, why, used>>

\* The client sends something that is no data yet; it need not go on.
SendPart(c, e) ==
  /\ CanSend(c, e) /\ e = "client" /\ c \notin part
  /\ part' = part \cup {c}
  /\ UNCHANGED <<mainVars, acceptor, taken, conn, routeVars, open, ready, sent, moved, put, got,
                 peer, why, used>>

Receive(c, e) ==
  /\ conn[c] \in Relaying \cup {"ended"} /\ Alive /\ peer[c][e] = "open"
  /\ got[c][e] < put[c][e]
  /\ Count(got, c, e)
  /\ UNCHANGED <<mainVars, acceptor, taken, conn, routeVars, open, ready, part, sent, moved, put,
                 peer, why, used>>

\* An end closes; with data it has not received, or by choice, this resets the
\* connection.
Close(c, e) ==
  /\ conn[c] \in Relaying /\ Alive /\ peer[c][e] = "open"
  /\ \/ put[c][e] = got[c][e] /\ SetPeer(c, e, "closed")
     \/ SetPeer(c, e, "reset")
  /\ UNCHANGED <<mainVars, acceptor, taken, conn, routeVars, open, ready, part, sent, moved, put,
                 got, why, used>>

-----------------------------------------------------------------------------
(* pipe_data                                                               *)

\* The loop ends, the sockets are closed.  Where an end's data was not read
\* this resets the connection, and what was on its way to it may be lost.
Finish(c, reason) ==
  /\ End(c)
  /\ why' = [why EXCEPT ![c] = reason]
  /\ \E hit \in SUBSET {e \in Ends : Unread(c, e) \/ InPart(c, e)} :
       peer' = [peer EXCEPT ![c] = [e \in Ends |-> IF e \in hit THEN "reset" ELSE @[e]]]
  /\ UNCHANGED <<mainVars, acceptor, taken, routeVars, ready, part, sent, moved, put, got, used>>

Readable(c) == {e \in Ends : Unread(c, e) \/ InPart(c, e) \/ peer[c][e] = "closed"}
HungUp(c) == \E e \in Ends : peer[c][e] = "reset"

\* An error on either socket ends the loop, data or not; so do 30 seconds
\* without anything.
PollEnds(c) ==
  /\ conn[c] = "poll" /\ Alive
  /\ \/ HungUp(c) /\ Finish(c, "reset")
     \/ ~HungUp(c) /\ Readable(c) = {} /\ Finish(c, "idle")

PollReady(c) ==
  /\ conn[c] = "poll" /\ Alive
  /\ ~HungUp(c) /\ Readable(c) # {}
  /\ ready' = [ready EXCEPT ![c] = Readable(c)]
  /\ Goto(c, "fromClient")
  /\ UNCHANGED <<mainVars, acceptor, taken, routeVars, open, dataVars, why, used>>

\* Reading from one end, if poll said it can be: then on to writing.  SSL_read
\* returns data only: on a part of a record it waits for the rest, without a
\* timeout.
Take(c, e, from, to, next) ==
  /\ conn[c] = from /\ Alive
  /\ \/ e \notin ready[c] /\ Goto(c, next) /\ UNCHANGED moved
     \/ e \in ready[c] /\ Unread(c, e) /\ Goto(c, to) /\ Count(moved, c, e)
  /\ UNCHANGED <<mainVars, acceptor, taken, routeVars, open, ready, part, sent, put, got, peer,
                 why, used>>

\* A plausible bug: an end that has closed is not read any more.
TakeEndsEarly(c, e, from) ==
  /\ conn[c] = from /\ Alive /\ e \in ready[c]
  /\ \/ peer[c][e] = "closed" /\ Finish(c, e)
     \/ peer[c][e] = "reset" /\ Finish(c, "reset")


\* The read returns the end of the data, or an error.
TakeEnds(c, e, from) ==
  /\ conn[c] = from /\ Alive /\ e \in ready[c]
  /\ \/ ~Unread(c, e) /\ peer[c][e] = "closed" /\ Finish(c, e)
     \/ peer[c][e] = "reset" /\ Finish(c, "reset")

\* write_all, ssl_write_all: waits for room.  An end that has closed answers
\* with a reset, which a later call sees.
Give(c, e, from, next) ==
  /\ conn[c] = from /\ Alive
  /\ \/ peer[c][e] = "open" /\ RoomTo(c, e) /\ UNCHANGED peer
     \/ peer[c][e] = "closed" /\ SetPeer(c, e, "reset")
  /\ Count(put, c, e)
  /\ Goto(c, next)
  /\ UNCHANGED <<mainVars, acceptor, taken, routeVars, open, ready, part, sent, moved, got, why, used>>

GiveEnds(c, e, from) ==
  /\ conn[c] = from /\ Alive /\ peer[c][e] = "reset"
  /\ Finish(c, "reset")

\* The client's data first, then the backend's.
Relay(c) ==
  \/ PollEnds(c) \/ PollReady(c)
  \/ Take(c, "client", "fromClient", "toBackend", "fromBackend")
  \/ TakeEnds(c, "client", "fromClient")
  \/ Give(c, "backend", "toBackend", "fromBackend") \/ GiveEnds(c, "backend", "toBackend")
  \/ Take(c, "backend", "fromBackend", "toClient", "poll")
  \/ TakeEnds(c, "backend", "fromBackend")
  \/ Give(c, "client", "toClient", "poll") \/ GiveEnds(c, "client", "toClient")

-----------------------------------------------------------------------------
MainStep == CloseListener \/ Join \/ Free \/ Exit
AcceptorStep == Check \/ Poll \/ Accept \/ AcceptFails \/ Spawn \/ SpawnFails
HandlerStep(c) ==
  NewSsl(c) \/ Handshake(c) \/ Route(c) \/ Refuse(c) \/ UseFreed(c) \/ Connect(c)
    \/ BadGateway(c) \/ Relay(c)

Next ==
  \/ Create \/ CreateFails \/ Start \/ StartFails \/ Quit \/ MainStep
  \/ AcceptorStep
  \/ \E c \in Conns :
       \/ Arrive(c) \/ HandlerStep(c)
       \/ \E e \in Ends : Send(c, e) \/ SendPart(c, e) \/ Receive(c, e) \/ Close(c, e)

Spec == Init /\ [][Next]_vars

\* The threads run.  Nobody has to quit, to connect, to shake hands, to send, to
\* receive or to close.
Fairness ==
  /\ WF_vars(MainStep) /\ WF_vars(AcceptorStep)
  /\ \A c \in Conns : WF_vars(Relay(c))
FairSpec == Spec /\ Fairness

-----------------------------------------------------------------------------
(* Properties                                                              *)

Held == {"accepted"} \cup Early \cup {"connecting"} \cup Relaying

ThreadsTypeOK ==
  /\ main \in {"start", "created", "idle", "closing", "joining", "freeing", "cleanup",
               "exited", "crashed"}
  /\ threadFailed \in BOOLEAN /\ running \in BOOLEAN /\ listening \in BOOLEAN
  /\ lp \in {"none", "here", "freed"}
  /\ acceptor \in {"none", "check", "polling", "accepting", "spawning", "done"}
  /\ taken \in Conns \cup {None}
  /\ used \subseteq Conns \cup {"acceptor"} /\ late \subseteq Conns
  /\ open \subseteq Conns \X Ends

ConnsTypeOK ==
  /\ conn \in [Conns -> {"away", "queued", "ended"} \cup Held]
  /\ sni \in [Conns -> Names \cup {None}]
  /\ cert \in [Conns -> Nat]
  /\ ready \in [Conns -> SUBSET Ends] /\ part \subseteq Conns
  /\ sent \in [Conns -> [Ends -> Nat]] /\ moved \in [Conns -> [Ends -> Nat]]
  /\ put \in [Conns -> [Ends -> Nat]] /\ got \in [Conns -> [Ends -> Nat]]
  /\ peer \in [Conns -> [Ends -> {"open", "closed", "reset"}]]
  /\ why \in [Conns -> {"none", "client", "backend", "reset", "idle"}]

\* Every variable has its type; the table and the kernel's buffers hold no more
\* than they have room for.
TypeOK ==
  /\ ThreadsTypeOK /\ ConnsTypeOK
  /\ vhosts \in Seq(DOMAIN Hosts) /\ Len(vhosts) <= MaxVhosts
  /\ port \in [Conns -> Nat]
  /\ \A c \in Conns :
       /\ cert[c] <= Len(vhosts)
       /\ \A e \in Ends : sent[c][e] - moved[c][e] \in 0..Room
       /\ \A e \in Ends : put[c][e] - got[c][e] \in 0..Room

\* A client reaches the backend of the host whose certificate it was shown, which
\* is the host it asked for, also when several hosts have one name and when some
\* of them got no certificate.
OwnBackend ==
  \A c \in Conns :
    conn[c] \in {"connecting"} \cup Relaying
      => /\ cert[c] # 0
         /\ Hosts[vhosts[cert[c]]].name = sni[c]
         /\ Hosts[vhosts[cert[c]]].port = port[c]

\* On every path, the failing ones included, what the proxy has opened for a
\* connection is closed when its handler ends, and not before.
DescriptorsClosed ==
  open = {<<c, "client">> : c \in {d \in Conns : conn[d] \in Held}}
           \cup {<<c, "backend">> : c \in {d \in Conns : conn[d] \in Relaying}}

\* A relay that ends because one end has closed in order has given everything
\* this end had sent to the other one.
NothingDropped ==
  \A c \in Conns : \A e \in Ends : why[c] = e => put[c][Other(e)] = sent[c][e]

\* Only a handler that had not reached its backend when the proxy was given back
\* uses it afterwards: never the acceptor, never a relay, however long it lasts.
FreedUse == used \subseteq late

\* Quitting ends, with whatever connections there are: the process exits, or it
\* crashes because of a late handler or of an acceptor that was never created.
QuitEnds ==
  main \in {"closing", "joining", "freeing", "cleanup"}
    ~> main = "exited" \/ (main = "crashed" /\ (threadFailed \/ late # {}))

\* A handler in a call without a timeout: SSL_read on a part of a record, or a
\* write to an end that does not receive.
Waits(c) ==
  \/ conn[c] = "fromClient" /\ "client" \in ready[c] /\ ~Unread(c, "client")
       /\ peer[c]["client"] = "open"
  \/ conn[c] = "toBackend" /\ peer[c]["backend"] = "open" /\ ~RoomTo(c, "backend")
  \/ conn[c] = "toClient" /\ peer[c]["client"] = "open" /\ ~RoomTo(c, "client")


-----------------------------------------------------------------------------
(* The strengthenings                                                      *)

\* The acceptor runs only between lp_start and the join of lp_stop, and a handler
\* that may still read *lp when it is given back is a late one.
StopInv ==
  /\ main = "start" => lp = "none" /\ ~listening
  /\ main \in {"start", "created"} => acceptor = "none" /\ ~running
  /\ main = "idle" /\ ~running => acceptor = "none"
  /\ main = "freeing" => acceptor \in {"none", "done"}
  /\ lp = "freed" => /\ acceptor \in {"none", "done"} /\ ~listening
                     /\ main \in {"cleanup", "exited", "crashed"}
                     /\ \A c \in Conns : conn[c] \in Early => c \in late
  /\ lp = "none" => acceptor = "none" /\ main \in {"start", "idle", "cleanup", "exited"}
  /\ lp # "freed" => used = {}
  /\ used \subseteq late

\* The connection the acceptor has accepted.
TakenInv ==
  /\ acceptor = "spawning" => taken \in Conns
  /\ \A c \in Conns : conn[c] = "accepted" <=> acceptor = "spawning" /\ taken = c

\* A client that has been routed was shown the certificate of the host found.
RouteInv ==
  /\ main = "start" => \A c \in Conns : conn[c] = "away"
  /\ \A c \in Conns : conn[c] = "routing" /\ sni[c] # None
                        => Serving(sni[c]) # {} /\ cert[c] = Find(sni[c])
  /\ OwnBackend

\* The handler gives what it has taken, one buffer at a time.
InHand(c, e) ==
  IF conn[c] = (IF e = "client" THEN "toBackend" ELSE "toClient") THEN 1 ELSE 0
MovedInv ==
  /\ \A c \in Conns : \A e \in Ends : moved[c][e] <= sent[c][e]
  /\ \A c \in Conns : conn[c] # "ended" => /\ why[c] = "none"
                                           /\ \A e \in Ends : moved[c][e] = put[c][Other(e)] + InHand(c, e)
  /\ NothingDropped

\* The table is filled before the listener is opened; a certificate that was shown
\* is that of a virtual host.
TableInv ==
  /\ vhosts \in Seq(DOMAIN Hosts) /\ Len(vhosts) <= MaxVhosts
  /\ port \in [Conns -> Nat]
  /\ main = "start" => vhosts = <<>>
  /\ main = "created" => vhosts # <<>>
  /\ vhosts = <<>> => /\ acceptor = "none" /\ ~listening
                      /\ \A c \in Conns : conn[c] = "away"
  /\ \A c \in Conns : cert[c] <= Len(vhosts)

\* The kernel's buffers.  An end that closes in order has received everything, so
\* the one buffer that is still given to it has room.
BufferInv ==
  \A c \in Conns : \A e \in Ends :
    /\ sent[c][e] - moved[c][e] \in 0..Room
    /\ put[c][e] - got[c][e] \in 0..Room
    /\ peer[c][e] = "closed" => put[c][e] = got[c][e]
=============================================================================
