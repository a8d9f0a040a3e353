--------------------------- MODULE ProcessManager ---------------------------
(***************************************************************************)
(* The tunnel table of sshpad and the threads that share it                *)
(* (src/src/process_manager.c):                                            *)
(*   - HTTP handler threads run process_manager_start_tunnel and           *)
(*     process_manager_stop_tunnel, one thread per connection;             *)
(*   - each started tunnel gets a detached tunnel_monitor_thread;          *)
(*   - the main thread runs process_manager_kill_all and _free on exit.    *)
(* The ssh children, the pipes of their stderr and the kernel's process    *)
(* table are modelled from the system calls the code makes.                *)
(*                                                                         *)
(* A start call is one-shot and forks at most one child, so a request      *)
(* also names its child and the monitor thread of that child.  A child     *)
(* stands for its whole process group (ssh, askpass script, curl).         *)
(***************************************************************************)
EXTENDS Naturals, SlotSearch

CONSTANTS
  Requests,        \* start calls, and the children they fork
  Hosts,           \* host aliases a client may ask for
  ValidAliases,    \* those the configuration lists and is_valid_host_alias accepts
  MaxTunnels,      \* MAX_TUNNELS
  ProbeMaxChecks,  \* PROBE_MAX_CHECKS
  SerialStarts,    \* TRUE: clients wait for one start call before the next
  ResourcesFail,   \* TRUE: pipe, fork, malloc and pthread_create may fail
  None             \* no host, no child, no descriptor

ASSUME ConstantsAssumption ==
  /\ ValidAliases \subseteq Hosts
  /\ MaxTunnels \in Nat \ {0}
  /\ ProbeMaxChecks \in Nat \ {0}
  /\ SerialStarts \in BOOLEAN
  /\ ResourcesFail \in BOOLEAN
  /\ None \notin Requests \cup Hosts

VARIABLES
  tunnels,     \* pm->tunnels: slot -> [host, proc, active, fd]
  numTunnels,  \* pm->num_tunnels
  start,       \* where each start call is
  target,      \* the host each start call was made for
  slot,        \* the slot each start call chose
  proc,        \* the kernel's view of each child
  exitCode,    \* wait status of each child: "none", "ok" or "fail"
  termed,      \* live children a SIGTERM was delivered to
  piped,       \* start calls whose pipe() succeeded
  writers,     \* children that hold the write end of a start call's pipe
  monitor,     \* where each monitor thread is
  checks,      \* the probe loop's counter in each monitor
  waitPid,     \* the pid each monitor passed to the blocking waitpid
  result,      \* the exit code each monitor computed
  shown,       \* the last tunnel_status event broadcast for each host
  killer,      \* where process_manager_kill_all is
  killSlot     \* its loop index in the second pass

tableVars == <<tunnels, numTunnels>>
startVars == <<start, target, slot, piped>>
procVars  == <<proc, exitCode, termed>>
monVars   == <<monitor, checks, waitPid, result>>
killVars  == <<killer, killSlot>>
vars == <<tableVars, startVars, procVars, writers, monVars, shown, killVars>>

Slots == 1..MaxTunnels
Entry == [host : Hosts \cup {None}, proc : Requests \cup {None},
          active : BOOLEAN, fd : Requests \cup {None}]
EmptyEntry == [host |-> None, proc |-> None, active |-> FALSE, fd |-> None]

-----------------------------------------------------------------------------
(* Helpers                                                                 *)

\* Children that exist in the process table (a zombie still owns its pid).
Exists(p) == proc[p] \in {"forked", "running", "zombie"}

\* Start calls between the two critical sections: the slot is chosen but
\* nothing in the table says so.
InFlight == {r \in Requests : start[r] \in {"reserved", "piped", "forked"}}

\* Parent side of a pipe: the write end is open until the parent closes it.
ParentHolds(r) == start[r] \in {"piped", "forked"} /\ r \in piped

ActiveSlots(h) == {s \in 1..numTunnels : tunnels[s].active /\ tunnels[s].host = h}

\* A plausible bug: the duplicate check is forgotten.
DuplicateUnchecked(h) == FALSE
Duplicate(h) == ActiveSlots(h) # {}

\* A plausible bug: the search for a free slot forgets to look at active.
VacantIgnoringActive == 1..numTunnels
VacantSlots == {s \in 1..numTunnels : ~tunnels[s].active}

\* The mutex of the manager; only the second pass of kill_all keeps it over
\* several steps.
MutexFree == killer # "reap"

\* process_manager_get_tunnel_status
TunnelStatus(h) == IF ActiveSlots(h) # {} THEN "active" ELSE "inactive"

Broadcast(h, status) == shown' = [shown EXCEPT ![h] = status]

Init ==
  /\ tunnels = [s \in Slots |-> EmptyEntry]
  /\ numTunnels = 0
  /\ start = [r \in Requests |-> "idle"]
  /\ target = [r \in Requests |-> None]
  /\ slot = [r \in Requests |-> 0]
  /\ proc = [r \in Requests |-> "none"]
  /\ exitCode = [r \in Requests |-> "none"]
  /\ termed = {}
  /\ piped = {}
  /\ writers = [r \in Requests |-> {}]
  /\ monitor = [r \in Requests |-> "none"]
  /\ checks = [r \in Requests |-> 0]
  /\ waitPid = [r \in Requests |-> None]
  /\ result = [r \in Requests |-> "none"]
  /\ shown = [h \in Hosts |-> "inactive"]
  /\ killer = "idle"
  /\ killSlot = 0

-----------------------------------------------------------------------------
(* process_manager_start_tunnel                                            *)

\* The HTTP daemon is stopped, and its threads joined, before kill_all.
CanStart(r) ==
  /\ start[r] = "idle"
  /\ killer = "idle"
  /\ SerialStarts => \A q \in Requests : start[q] \in {"idle", "ok", "refused"}

\* A plausible bug: the table's bound is not tested.
FullUnchecked == FALSE
Full == VacantSlots = {} /\ numTunnels >= MaxTunnels

\* Unknown or invalid alias, tunnel already active, table full.
RefuseStart(r, h) ==
  /\ CanStart(r)
  /\ h \notin ValidAliases \/ Duplicate(h) \/ Full
  /\ start' = [start EXCEPT ![r] = "refused"]
  /\ UNCHANGED <<tableVars, target, slot, piped, procVars, writers,
                 monVars, shown, killVars>>

\* First critical section: the slot is chosen, not marked.
ReserveSlot(r, h) ==
  /\ CanStart(r)
  /\ h \in ValidAliases /\ ~Duplicate(h) /\ ~Full
  /\ start' = [start EXCEPT ![r] = "reserved"]
  /\ target' = [target EXCEPT ![r] = h]
  /\ IF VacantSlots # {}
       THEN /\ slot' = [slot EXCEPT ![r] = First(VacantSlots)]
            /\ UNCHANGED numTunnels
       ELSE /\ slot' = [slot EXCEPT ![r] = numTunnels + 1]
            /\ numTunnels' = numTunnels + 1
  /\ UNCHANGED <<tunnels, piped, procVars, writers, monVars, shown, killVars>>

\* pipe(); a failure is not fatal.
OpenPipe(r) ==
  /\ start[r] = "reserved"
  /\ start' = [start EXCEPT ![r] = "piped"]
  /\ \/ piped' = piped \cup {r}
     \/ ResourcesFail /\ UNCHANGED piped
  /\ UNCHANGED <<tableVars, target, slot, procVars, writers, monVars,
                 shown, killVars>>

\* fork(): the child inherits every descriptor open in the parent, so the
\* write ends other start calls have not closed yet as well as its own.
Fork(r) ==
  /\ start[r] = "piped"
  /\ start' = [start EXCEPT ![r] = "forked"]
  /\ proc' = [proc EXCEPT ![r] = "forked"]
  /\ writers' = [q \in Requests |->
                   IF ParentHolds(q) THEN writers[q] \cup {r} ELSE writers[q]]
  /\ UNCHANGED <<tableVars, target, slot, piped, exitCode, termed, monVars,
                 shown, killVars>>

ForkFails(r) ==
  /\ ResourcesFail
  /\ start[r] = "piped"
  /\ start' = [start EXCEPT ![r] = "refused"]
  /\ UNCHANGED <<tableVars, target, slot, piped, procVars, writers, monVars,
                 shown, killVars>>

\* Second critical section: the parent closes its write end and overwrites
\* the slot, whatever it holds by now.
Register(r) ==
  /\ start[r] = "forked"
  /\ MutexFree
  /\ start' = [start EXCEPT ![r] = "registered"]
  /\ tunnels' = [tunnels EXCEPT ![slot[r]] =
                   [host |-> target[r], proc |-> r, active |-> TRUE,
                    fd |-> IF r \in piped THEN r ELSE None]]
  /\ UNCHANGED <<numTunnels, target, slot, piped, procVars, writers, monVars,
                 shown, killVars>>

AnnounceStarting(r) ==
  /\ start[r] = "registered"
  /\ start' = [start EXCEPT ![r] = "announced"]
  /\ Broadcast(target[r], "starting")
  /\ UNCHANGED <<tableVars, target, slot, piped, procVars, writers, monVars,
                 killVars>>

\* malloc and pthread_create; the call answers 0 even when they fail.
SpawnMonitor(r) ==
  /\ start[r] = "announced"
  /\ start' = [start EXCEPT ![r] = "ok"]
  /\ \/ monitor' = [monitor EXCEPT ![r] = "probe"]
     \/ ResourcesFail /\ monitor' = [monitor EXCEPT ![r] = "failed"]
  /\ UNCHANGED <<tableVars, target, slot, piped, procVars, writers, checks,
                 waitPid, result, shown, killVars>>

-----------------------------------------------------------------------------
(* The child                                                               *)

\* setsid(): from here on the child leads a process group of its own.
Setsid(r) ==
  /\ proc[r] = "forked"
  /\ proc' = [proc EXCEPT ![r] = "running"]
  /\ UNCHANGED <<tableVars, startVars, exitCode, termed, writers, monVars,
                 shown, killVars>>

Die(r, code) ==
  /\ proc' = [proc EXCEPT ![r] = "zombie"]
  /\ exitCode' = [exitCode EXCEPT ![r] = code]
  /\ writers' = [q \in Requests |-> writers[q] \ {r}]
  /\ termed' = termed \ {r}
  /\ UNCHANGED <<tableVars, startVars, monVars, shown, killVars>>

\* ssh gives up, loses the connection or cannot be executed.
Exit(r, code) == proc[r] = "running" /\ r \notin termed /\ Die(r, code)

\* ssh obeys a SIGTERM.
ExitOnTerm(r) == proc[r] = "running" /\ r \in termed /\ Die(r, "fail")

\* kill(-pid, SIGTERM) reaches a process group, which exists only after
\* setsid; the result of kill is ignored.
Signalled(P) == termed \cup {p \in P : proc[p] = "running"}
-----------------------------------------------------------------------------
(* tunnel_monitor_thread; it reads its entry without the mutex             *)

Live == {"probe", "wait", "drain", "release", "report", "inactive"}

Mine(r) == tunnels[slot[r]]

\* The children that keep the pipe of the entry from reaching end of file.
StderrHolders(r) == UNION {writers[q] : q \in Requests \cap {Mine(r).fd}}

\* waitpid(p): reap a zombie, ECHILD (-1, so a failure) for a reaped child.
WaitPid(r, p) ==
  \/ /\ proc[p] = "zombie"
     /\ proc' = [proc EXCEPT ![p] = "reaped"]
     /\ exitCode' = [exitCode EXCEPT ![p] = "none"]
     /\ result' = [result EXCEPT ![r] = exitCode[p]]
  \/ /\ proc[p] = "reaped"
     /\ result' = [result EXCEPT ![r] = "fail"]
     /\ UNCHANGED <<proc, exitCode>>

\* A plausible bug: only ret_pid < 0 leaves the probe loop.
ProbeIgnoringExit(r) ==
  /\ monitor[r] = "probe"
  /\ checks[r] < ProbeMaxChecks
  /\ checks' = [checks EXCEPT ![r] = @ + 1]
  /\ \/ proc[Mine(r).proc] \in {"forked", "running"} /\ UNCHANGED <<monitor, proc, exitCode, result>>
     \/ /\ WaitPid(r, Mine(r).proc)
        /\ UNCHANGED monitor
  /\ UNCHANGED <<tableVars, startVars, termed, writers, waitPid,
                 shown, killVars>>

\* One turn of the probe loop: usleep, then waitpid WNOHANG.
Probe(r) ==
  /\ monitor[r] = "probe"
  /\ checks[r] < ProbeMaxChecks
  /\ \/ /\ proc[Mine(r).proc] \in {"forked", "running"}
        /\ checks' = [checks EXCEPT ![r] = @ + 1]
        /\ UNCHANGED <<monitor, proc, exitCode, result>>
     \/ /\ WaitPid(r, Mine(r).proc)
        /\ monitor' = [monitor EXCEPT ![r] = "drain"]
        /\ UNCHANGED checks
  /\ UNCHANGED <<tableVars, startVars, termed, writers, waitPid,
                 shown, killVars>>

\* All checks survived: broadcast "active" and enter the blocking waitpid.
DeclareActive(r) ==
  /\ monitor[r] = "probe"
  /\ checks[r] = ProbeMaxChecks
  /\ monitor' = [monitor EXCEPT ![r] = "wait"]
  /\ waitPid' = [waitPid EXCEPT ![r] = Mine(r).proc]
  /\ Broadcast(Mine(r).host, "active")
  /\ UNCHANGED <<tableVars, startVars, procVars, writers, checks, result,
                 killVars>>

AwaitExit(r) ==
  /\ monitor[r] = "wait"
  /\ WaitPid(r, waitPid[r])
  /\ monitor' = [monitor EXCEPT ![r] = "drain"]
  /\ UNCHANGED <<tableVars, startVars, termed, writers, checks,
                 waitPid, shown, killVars>>

\* read_stderr returns at end of file, when no process holds the write end (or
\* with a full buffer, which is left out); then the read end is closed.
Drain(r) ==
  /\ monitor[r] = "drain"
  /\ StderrHolders(r) = {}
  /\ tunnels' = [tunnels EXCEPT ![slot[r]].fd = None]
  /\ monitor' = [monitor EXCEPT ![r] = "release"]
  /\ UNCHANGED <<numTunnels, startVars, procVars, writers, checks, waitPid,
                 result, shown, killVars>>

\* A plausible bug: the entry is not marked inactive.
ReleaseNothing(r) ==
  /\ monitor[r] = "release"
  /\ MutexFree
  /\ monitor' = [monitor EXCEPT ![r] = "report"]
  /\ UNCHANGED <<tableVars, startVars, procVars, writers, checks, waitPid,
                 result, shown, killVars>>

Release(r) ==
  /\ monitor[r] = "release"
  /\ MutexFree
  /\ tunnels' = [tunnels EXCEPT ![slot[r]].active = FALSE]
  /\ monitor' = [monitor EXCEPT ![r] = "report"]
  /\ UNCHANGED <<numTunnels, startVars, procVars, writers, checks, waitPid,
                 result, shown, killVars>>

\* The child died while connecting; waitPid is set once "active" is declared.
ReportError(r) ==
  /\ monitor[r] = "report"
  /\ result[r] = "fail" /\ waitPid[r] = None
  /\ monitor' = [monitor EXCEPT ![r] = "inactive"]
  /\ Broadcast(Mine(r).host, "error")
  /\ UNCHANGED <<tableVars, startVars, procVars, writers, checks, waitPid,
                 result, killVars>>

\* The last event; the thread returns and its locals are gone.
ReportInactive(r) ==
  /\ \/ monitor[r] = "inactive"
     \/ monitor[r] = "report" /\ ~(result[r] = "fail" /\ waitPid[r] = None)
  /\ monitor' = [monitor EXCEPT ![r] = "done"]
  /\ Broadcast(Mine(r).host, "inactive")
  /\ checks' = [checks EXCEPT ![r] = 0]
  /\ waitPid' = [waitPid EXCEPT ![r] = None]
  /\ result' = [result EXCEPT ![r] = "none"]
  /\ UNCHANGED <<tableVars, startVars, procVars, writers, killVars>>

-----------------------------------------------------------------------------
(* process_manager_stop_tunnel: SIGTERM to the first active entry of h     *)

Stop(h) ==
  /\ killer = "idle"
  /\ ActiveSlots(h) # {}
  /\ termed' = Signalled({tunnels[First(ActiveSlots(h))].proc})
  /\ UNCHANGED <<tableVars, startVars, proc, exitCode, writers, monVars, shown, killVars>>

-----------------------------------------------------------------------------
(* Exit of the application: MHD_stop_daemon, kill_all, free                *)

\* First pass, when every handler thread has been joined.
KillAllTerm ==
  /\ killer = "idle"
  /\ \A r \in Requests : start[r] \in {"idle", "ok", "refused"}
  /\ termed' = Signalled({tunnels[s].proc : s \in {t \in 1..numTunnels : tunnels[t].active}})
  /\ killer' = "sleep"
  /\ UNCHANGED <<tableVars, startVars, proc, exitCode, writers, monVars, shown,
                 killSlot>>

\* 500 ms later the mutex is taken again; by then every child has run setsid.
KillAllWake ==
  /\ killer = "sleep"
  /\ \A r \in Requests : proc[r] # "forked"
  /\ killer' = "reap"
  /\ killSlot' = 1
  /\ UNCHANGED <<tableVars, startVars, procVars, writers, monVars, shown>>

\* A plausible bug: the survivor is marked inactive but not killed.
KillSurvivorSpared(s) ==
  /\ killer = "reap" /\ killSlot = s /\ s <= numTunnels
  /\ killSlot' = s + 1
  /\ tunnels' = [tunnels EXCEPT ![s].active = FALSE]
  /\ UNCHANGED <<numTunnels, startVars, procVars, writers, monVars, shown, killer>>

\* Second pass, one slot: a zombie is reaped, a survivor gets SIGKILL and is
\* waited for, and the entry is inactive afterwards.
KillSurvivor(s) ==
  /\ killer = "reap" /\ killSlot = s /\ s <= numTunnels
  /\ killSlot' = s + 1
  /\ IF tunnels[s].active
       THEN LET p == tunnels[s].proc IN
            /\ proc' = [proc EXCEPT ![p] = "reaped"]
            /\ exitCode' = [exitCode EXCEPT ![p] = "none"]
            /\ termed' = termed \ {p}
            /\ writers' = [q \in Requests |-> writers[q] \ {p}]
            /\ tunnels' = [tunnels EXCEPT ![s].active = FALSE]
       ELSE UNCHANGED <<procVars, writers, tunnels>>
  /\ UNCHANGED <<numTunnels, startVars, monVars, shown, killer>>

KillAllEnd ==
  /\ killer = "reap" /\ killSlot > numTunnels
  /\ killer' = "done"
  /\ UNCHANGED <<tableVars, startVars, procVars, writers, monVars, shown, killSlot>>

\* process_manager_free and the rest of the cleanup; main returns, and the
\* detached monitors end with it wherever they are.
Free ==
  /\ killer = "done"
  /\ killer' = "freed"
  /\ monitor' = [r \in Requests |-> IF monitor[r] \in Live THEN "gone" ELSE monitor[r]]
  /\ UNCHANGED <<tableVars, startVars, procVars, writers, checks, waitPid,
                 result, shown, killSlot>>

-----------------------------------------------------------------------------
StartStep(r) ==
  \/ OpenPipe(r) \/ Fork(r) \/ ForkFails(r) \/ Register(r)
  \/ AnnounceStarting(r) \/ SpawnMonitor(r)

MonitorStep(r) ==
  \/ Probe(r) \/ DeclareActive(r) \/ AwaitExit(r) \/ Drain(r) \/ Release(r)
  \/ ReportError(r) \/ ReportInactive(r)

KillAllStep == KillAllWake \/ (\E s \in Slots : KillSurvivor(s)) \/ KillAllEnd \/ Free

\* The application is gone; nothing has to happen any more.
Exited == killer = "freed" /\ UNCHANGED vars

Next ==
  \/ \E r \in Requests, h \in Hosts : RefuseStart(r, h) \/ ReserveSlot(r, h)
  \/ \E r \in Requests : StartStep(r) \/ MonitorStep(r)
  \/ \E r \in Requests : Setsid(r) \/ ExitOnTerm(r)
  \/ \E r \in Requests, code \in {"ok", "fail"} : Exit(r, code)
  \/ \E h \in Hosts : Stop(h)
  \/ KillAllTerm \/ KillAllStep \/ Exited

Spec == Init /\ [][Next]_vars

(* The scheduler runs every thread that can run, a child reaches setsid, and
   ssh obeys a SIGTERM.  No client ever has to call, and no child has to exit
   by itself.                                                              *)
Fairness ==
  /\ \A r \in Requests :
       /\ WF_vars(StartStep(r))
       /\ WF_vars(MonitorStep(r))
       /\ WF_vars(Setsid(r))
       /\ WF_vars(ExitOnTerm(r))
  /\ WF_vars(KillAllStep)

FairSpec == Spec /\ Fairness

-----------------------------------------------------------------------------
(* Properties                                                              *)

\* Every variable has its type; in particular no start call ever chooses a
\* slot beyond the table (the bound test of process_manager_start_tunnel).
TypeOK ==
  /\ tunnels \in [Slots -> Entry]
  /\ numTunnels \in 0..MaxTunnels
  /\ start \in [Requests -> {"idle", "reserved", "piped", "forked", "registered",
                             "announced", "ok", "refused"}]
  /\ target \in [Requests -> Hosts \cup {None}]
  /\ slot \in [Requests -> 0..MaxTunnels]
  /\ proc \in [Requests -> {"none", "forked", "running", "zombie", "reaped"}]
  /\ exitCode \in [Requests -> {"none", "ok", "fail"}]
  /\ termed \subseteq Requests
  /\ piped \subseteq Requests
  /\ writers \in [Requests -> SUBSET Requests]
  /\ monitor \in [Requests -> {"none", "failed", "probe", "wait", "drain", "release",
                               "report", "inactive", "done", "gone"}]
  /\ checks \in [Requests -> 0..ProbeMaxChecks]
  /\ waitPid \in [Requests -> Requests \cup {None}]
  /\ result \in [Requests -> {"none", "ok", "fail"}]
  /\ shown \in [Hosts -> {"inactive", "starting", "active", "error"}]
  /\ killer \in {"idle", "sleep", "reap", "done", "freed"}
  /\ killSlot \in 0..(MaxTunnels + 1)

\* A host has at most one ssh child, from fork to the waitpid that reaps it:
\* the duplicate check of start_tunnel sees every tunnel of the host.
OneChildPerHost ==
  \A r, q \in Requests :
    Exists(r) /\ Exists(q) /\ target[r] = target[q] => r = q

Registered == {"registered", "announced", "ok"}

\* Once a start call has written its slot, the child it forked is in an active
\* entry until it is reaped, so stop_tunnel and kill_all can reach it.
NoOrphan ==
  \A r \in Requests : Exists(r) /\ start[r] \in Registered =>
    \E s \in 1..numTunnels : tunnels[s].active /\ tunnels[s].proc = r

\* A monitor reads its entry without the mutex; until it marks the entry
\* inactive the entry is still that of its own child.
MonitorOwnsEntry ==
  \A r \in Requests : monitor[r] \in {"probe", "wait", "drain", "release"} =>
    Mine(r).proc = r /\ Mine(r).host = target[r]

\* When kill_all returns, no ssh child is left.
NoneSurvives ==
  killer \in {"done", "freed"} => \A r \in Requests : ~Exists(r)

\* When nothing is going on any more, a host whose tunnel has ended and been
\* reported is shown as inactive.
Quiet ==
  \A r \in Requests :
    /\ start[r] \in {"idle", "ok", "refused"}
    /\ monitor[r] \notin Live \ {"probe", "wait"}
EndIsReported ==
  Quiet /\ killer = "idle" =>
    \A r \in Requests :
      monitor[r] = "done" /\ TunnelStatus(target[r]) = "inactive"
        => shown[target[r]] = "inactive"

\* "active" is broadcast for a host only while the table has an active entry
\* of the host whose child has not been reaped (unless the application is
\* closing): a child that dies while connecting is never announced as active.
ActiveIsAlive ==
  [][\A h \in Hosts :
       shown[h] # "active" /\ shown'[h] = "active" /\ killer = "idle"
         => \E s \in ActiveSlots(h) : Exists(tunnels[s].proc)]_vars

\* A tunnel whose child was signalled or has ended leaves the table, so its
\* host can be started again (or the application has exited).
TunnelEnds ==
  \A r \in Requests :
    r \in termed \/ proc[r] \in {"zombie", "reaped"} ~>
      \/ killer = "freed"
      \/ start[r] = "ok" /\ \A s \in Slots : ~(tunnels[s].active /\ tunnels[s].proc = r)

\* The strengthening that makes TypeOK inductive: a chosen slot is in the
\* table, a written slot names a child and a host, and a monitor exists only
\* after its start call has returned.
TableInv ==
  /\ \A r \in Requests :
       /\ start[r] \in Registered \cup {"reserved", "piped", "forked"}
            => slot[r] \in 1..numTunnels /\ target[r] \in ValidAliases
       /\ start[r] \in Registered => Mine(r).proc \in Requests /\ Mine(r).host \in Hosts
       /\ monitor[r] # "none" => start[r] = "ok"
       /\ monitor[r] = "wait" => waitPid[r] \in Requests
  /\ \A s \in Slots :
       tunnels[s].active => s <= numTunnels /\ tunnels[s].proc \in Requests

\* A start call that has not returned.
Pending(r) == start[r] \notin {"idle", "ok", "refused"}

\* The entry of a child belongs to it until its monitor has released it.
Unreleased == {"none", "failed", "probe", "wait", "drain", "release"}
Owns(r) ==
  /\ Mine(r).proc = r /\ Mine(r).host = target[r]
  /\ Mine(r).active \/ (killer \in {"reap", "done", "freed"} /\ proc[r] = "reaped")

\* The strengthening behind the safety of serial start calls, part by part.
\* At most one start call is pending.
OnePending == \A r, q \in Requests : Pending(r) /\ Pending(q) => r = q

\* Nothing is being started while the application closes.
NoneWhileClosing == killer # "idle" => \A r \in Requests : ~Pending(r)

\* A reserved slot is still free, and its host still has no tunnel.
ReservedFree ==
  \A r \in InFlight :
    /\ ~Mine(r).active
    /\ \A s \in Slots : tunnels[s].active => tunnels[s].host # target[r]

\* A child exists from fork on, owns its entry until its monitor releases it,
\* and has been reaped once its monitor has left the two waits.
Lifecycle ==
  \A r \in Requests :
    /\ start[r] \in {"idle", "refused", "reserved", "piped"} => proc[r] = "none"
    /\ start[r] = "ok" => monitor[r] # "none"
    /\ start[r] \in Registered /\ monitor[r] \in Unreleased => Owns(r)
    /\ monitor[r] = "wait" => waitPid[r] = r
    /\ monitor[r] \in {"drain", "release", "report", "inactive", "done", "gone"}
         => proc[r] = "reaped"

\* An active entry belongs to the child it names.
EntryOwned ==
  \A s \in Slots :
    tunnels[s].active =>
      /\ start[tunnels[s].proc] \in Registered
      /\ slot[tunnels[s].proc] = s
      /\ monitor[tunnels[s].proc] \in Unreleased

OneEntryPerHost ==
  \A s, t \in Slots :
    tunnels[s].active /\ tunnels[t].active /\ tunnels[s].host = tunnels[t].host
      => s = t

\* The second pass of kill_all leaves inactive entries behind it.
KilledInactive ==
  /\ killer = "reap" => \A s \in Slots : s < killSlot => ~tunnels[s].active
  /\ killer \in {"done", "freed"} => \A s \in Slots : ~tunnels[s].active

SerialInv ==
  /\ OnePending
  /\ NoneWhileClosing
  /\ ReservedFree
  /\ Lifecycle
  /\ EntryOwned
  /\ OneEntryPerHost
  /\ KilledInactive

\* The strengthening behind ActiveIsAlive: until kill_all reaps it, a child is
\* there while its start call registers it and its monitor waits for it.
AliveInv ==
  killer \in {"idle", "sleep"} =>
    \A r \in Requests :
      start[r] \in {"forked", "registered", "announced"} \/ monitor[r] \in {"probe", "wait"}
        => Exists(r)

\* The table implements the registry: the open tunnel of a host is the child
\* of its active entry.
TunnelOf(h) ==
  IF ActiveSlots(h) = {} THEN None ELSE tunnels[First(ActiveSlots(h))].proc
Registry == INSTANCE TunnelRegistry WITH
  tunnel <- [h \in Hosts |-> TunnelOf(h)],
  spent <- {r \in Requests : start[r] \in Registered},
  closing <- (killer # "idle")
ImplementsRegistry == Registry!Spec

=============================================================================
