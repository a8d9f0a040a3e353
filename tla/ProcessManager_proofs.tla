----------------------- MODULE ProcessManager_proofs -----------------------
(***************************************************************************)
(* Theorems about the tunnel table of ProcessManager, for every value of   *)
(* its constants.                                                          *)
(***************************************************************************)
EXTENDS ProcessManager, Facts, TLAPS

TypeInv == TypeOK /\ TableInv

-----------------------------------------------------------------------------
(* Type correctness, whatever the interleaving of start calls              *)

\* The table starts empty and well typed (process_manager_create).
LEMMA InitTypes == Init => TypeInv
BY ConstantsAssumption
   DEF Init, TypeInv, TypeOK, TableInv, Slots, Entry, EmptyEntry, Registered

\* A start call that is refused, or that chooses its slot, keeps the types: the
\* slot it chooses lies within the table.
LEMMA RequestTypes ==
  ASSUME TypeInv, NEW r \in Requests, NEW h \in Hosts,
         RefuseStart(r, h) \/ ReserveSlot(r, h)
  PROVE  TypeInv'
<1> USE ConstantsAssumption
    DEF TypeInv, TypeOK, TableInv, Slots, Entry, Registered, Mine,
        tableVars, startVars, procVars, monVars, killVars
<1>1. CASE RefuseStart(r, h)
  BY <1>1 DEF RefuseStart, CanStart
<1>2. CASE ReserveSlot(r, h)
  <2>1. VacantSlots # {} => First(VacantSlots) \in 1..numTunnels
    <3>1. VacantSlots \in SUBSET Nat /\ VacantSlots \subseteq 1..numTunnels
      BY DEF VacantSlots
    <3> QED
      BY <3>1, FirstIsMember
  <2>2. /\ slot'[r] \in 1..numTunnels'
        /\ slot' \in [Requests -> 0..MaxTunnels]
        /\ numTunnels' \in 0..MaxTunnels
        /\ numTunnels <= numTunnels'
    <3>0. /\ slot \in [Requests -> 0..MaxTunnels]
          /\ numTunnels \in 0..MaxTunnels /\ MaxTunnels \in Nat
      OBVIOUS
    <3>1. CASE VacantSlots # {}
      <4>1. slot' = [slot EXCEPT ![r] = First(VacantSlots)] /\ numTunnels' = numTunnels
        BY <1>2, <3>1 DEF ReserveSlot
      <4> HIDE DEF TypeInv, TypeOK, TableInv
      <4> QED
        BY <2>1, <3>0, <3>1, <4>1
    <3>2. CASE VacantSlots = {}
      <4>1. /\ slot' = [slot EXCEPT ![r] = numTunnels + 1] /\ numTunnels' = numTunnels + 1
            /\ ~(numTunnels >= MaxTunnels)
        BY <1>2, <3>2 DEF ReserveSlot, Full
      <4> HIDE DEF TypeInv, TypeOK, TableInv
      <4> QED
        BY <3>0, <4>1
    <3> QED
      BY <3>1, <3>2
  <2>3. \A q \in Requests : q # r => slot'[q] = slot[q]
    BY <1>2 DEF ReserveSlot
  <2> QED
    BY <1>2, <2>2, <2>3 DEF ReserveSlot, CanStart
<1> QED
  BY <1>1, <1>2

\* The steps of a start call after its first critical section keep the types.
LEMMA StartTypes ==
  ASSUME TypeInv, NEW r \in Requests, StartStep(r)
  PROVE  TypeInv'
<1> USE ConstantsAssumption
    DEF TypeInv, TypeOK, TableInv, Slots, Entry, Registered, Mine,
        tableVars, startVars, procVars, monVars, killVars
<1>1. CASE OpenPipe(r)
  BY <1>1 DEF OpenPipe
<1>2. CASE Fork(r)
  BY <1>2 DEF Fork
<1>3. CASE ForkFails(r)
  BY <1>3 DEF ForkFails
<1>4. CASE Register(r)
  BY <1>4 DEF Register
<1>5. CASE AnnounceStarting(r)
  BY <1>5 DEF AnnounceStarting, Broadcast
<1>6. CASE SpawnMonitor(r)
  <2>0. \E m \in {"probe", "failed"} : monitor' = [monitor EXCEPT ![r] = m]
    BY <1>6 DEF SpawnMonitor
  <2>1. TypeOK'
    BY <1>6, <2>0 DEF SpawnMonitor
  <2>2. TableInv'
    BY <1>6 DEF SpawnMonitor
  <2> QED
    BY <2>1, <2>2
<1> QED
  BY <1>1, <1>2, <1>3, <1>4, <1>5, <1>6 DEF StartStep

\* waitpid keeps the types of what it writes.
LEMMA WaitPidTypes ==
  ASSUME TypeOK, NEW r \in Requests, NEW p \in Requests, WaitPid(r, p)
  PROVE  /\ proc' \in [Requests -> {"none", "forked", "running", "zombie", "reaped"}]
         /\ exitCode' \in [Requests -> {"none", "ok", "fail"}]
         /\ result' \in [Requests -> {"none", "ok", "fail"}]
<1>1. /\ proc \in [Requests -> {"none", "forked", "running", "zombie", "reaped"}]
      /\ exitCode \in [Requests -> {"none", "ok", "fail"}]
      /\ result \in [Requests -> {"none", "ok", "fail"}]
  BY DEF TypeOK
<1>2. exitCode[p] \in {"none", "ok", "fail"}
  BY <1>1
<1>3. CASE proc[p] = "zombie"
  BY <1>1, <1>2, <1>3 DEF WaitPid
<1>4. CASE proc[p] = "reaped"
  BY <1>1, <1>4 DEF WaitPid
<1> QED
  BY <1>3, <1>4 DEF WaitPid

\* Writing one flag of one entry leaves the rest of the table alone.
LEMMA EntryWrite ==
  ASSUME tunnels \in [Slots -> Entry], NEW s \in Slots,
         \/ tunnels' = [tunnels EXCEPT ![s].fd = None]
         \/ tunnels' = [tunnels EXCEPT ![s].active = FALSE]
  PROVE  /\ tunnels' \in [Slots -> Entry]
         /\ \A t \in Slots : /\ tunnels'[t].proc = tunnels[t].proc
                             /\ tunnels'[t].host = tunnels[t].host
                             /\ tunnels'[t].active => tunnels[t].active
                             /\ t # s => tunnels'[t] = tunnels[t]
<1>1. CASE tunnels' = [tunnels EXCEPT ![s].fd = None]
  BY <1>1 DEF Entry
<1>2. CASE tunnels' = [tunnels EXCEPT ![s].active = FALSE]
  BY <1>2 DEF Entry
<1> QED
  BY <1>1, <1>2

\* The steps of a monitor thread keep the types: its entry names a child.
LEMMA MonitorTypes ==
  ASSUME TypeInv, NEW r \in Requests, MonitorStep(r)
  PROVE  TypeInv'
<1> USE ConstantsAssumption DEF tableVars, startVars, procVars, monVars, killVars
<1>0. /\ slot[r] \in Slots
      /\ Mine(r).proc \in Requests
      /\ monitor \in [Requests -> {"none", "failed", "probe", "wait", "drain", "release",
                                   "report", "inactive", "done", "gone"}]
      /\ tunnels \in [Slots -> Entry]
  BY DEF TypeInv, TypeOK, TableInv, Slots, Registered, MonitorStep, Probe, DeclareActive,
         AwaitExit, Drain, Release, ReportError, ReportInactive
<1>1. CASE Probe(r)
  <2>1. /\ checks' \in [Requests -> 0..ProbeMaxChecks]
        /\ monitor' = monitor \/ monitor' = [monitor EXCEPT ![r] = "drain"]
    BY <1>0, <1>1 DEF Probe, TypeInv, TypeOK
  <2>2. /\ proc' \in [Requests -> {"none", "forked", "running", "zombie", "reaped"}]
        /\ exitCode' \in [Requests -> {"none", "ok", "fail"}]
        /\ result' \in [Requests -> {"none", "ok", "fail"}]
    BY <1>0, <1>1, WaitPidTypes DEF Probe, TypeInv, TypeOK
  <2>3. TypeOK'
    BY <1>0, <1>1, <2>1, <2>2 DEF Probe, TypeInv, TypeOK
  <2>4. TableInv'
    BY <1>0, <1>1, <2>1 DEF Probe, TypeInv, TableInv, Registered, Mine
  <2> QED
    BY <2>3, <2>4 DEF TypeInv
<1>2. CASE DeclareActive(r)
  BY <1>0, <1>2
     DEF DeclareActive, Broadcast, TypeInv, TypeOK, TableInv, Registered, Mine, Slots, Entry
<1>3. CASE AwaitExit(r)
  <2>1. waitPid[r] \in Requests
    BY <1>3 DEF AwaitExit, TypeInv, TableInv
  <2>2. /\ proc' \in [Requests -> {"none", "forked", "running", "zombie", "reaped"}]
        /\ exitCode' \in [Requests -> {"none", "ok", "fail"}]
        /\ result' \in [Requests -> {"none", "ok", "fail"}]
    BY <1>3, <2>1, WaitPidTypes DEF AwaitExit, TypeInv
  <2>3. TypeOK'
    BY <1>0, <1>3, <2>2 DEF AwaitExit, TypeInv, TypeOK
  <2>4. TableInv'
    BY <1>0, <1>3 DEF AwaitExit, TypeInv, TableInv, Registered, Mine
  <2> QED
    BY <2>3, <2>4 DEF TypeInv
<1>4. CASE Drain(r) \/ Release(r)
  <2>1. /\ tunnels' \in [Slots -> Entry]
        /\ \A t \in Slots : /\ tunnels'[t].proc = tunnels[t].proc
                            /\ tunnels'[t].host = tunnels[t].host
                            /\ tunnels'[t].active => tunnels[t].active
    BY <1>0, <1>4, EntryWrite DEF Drain, Release
  <2>2. TypeOK'
    BY <1>0, <1>4, <2>1 DEF Drain, Release, TypeInv, TypeOK
  <2>3. TableInv'
    <3>1. \A q \in Requests : start[q] \in Registered => slot[q] \in Slots
      BY DEF TypeInv, TypeOK, TableInv, Slots
    <3>2. /\ UNCHANGED <<numTunnels, start, slot, target, waitPid>>
          /\ monitor' = [monitor EXCEPT ![r] = "release"]
             \/ monitor' = [monitor EXCEPT ![r] = "report"]
          /\ monitor[r] # "none"
      BY <1>4 DEF Drain, Release
    <3> QED
      BY <1>0, <2>1, <3>1, <3>2 DEF TypeInv, TableInv, Mine
  <2> QED
    BY <2>2, <2>3 DEF TypeInv
<1>5. CASE ReportError(r)
  BY <1>0, <1>5
     DEF ReportError, Broadcast, TypeInv, TypeOK, TableInv, Registered, Mine, Slots, Entry
<1>6. CASE ReportInactive(r)
  BY <1>0, <1>6
     DEF ReportInactive, Broadcast, TypeInv, TypeOK, TableInv, Registered, Mine, Slots, Entry
<1> QED
  BY <1>1, <1>2, <1>3, <1>4, <1>5, <1>6 DEF MonitorStep

\* A child that runs setsid or ends keeps the types.
LEMMA ChildTypes ==
  ASSUME TypeInv, NEW r \in Requests, NEW code \in {"ok", "fail"},
         Setsid(r) \/ ExitOnTerm(r) \/ Exit(r, code)
  PROVE  TypeInv'
<1> USE DEF tableVars, startVars, monVars, killVars
<1>1. TypeOK'
  <2>1. CASE Setsid(r)
    BY <2>1 DEF Setsid, TypeInv, TypeOK
  <2>2. CASE \E c \in {"ok", "fail"} : Die(r, c)
    BY <2>2 DEF Die, TypeInv, TypeOK
  <2> QED
    BY <2>1, <2>2 DEF ExitOnTerm, Exit
<1>2. TableInv'
  BY DEF Setsid, ExitOnTerm, Exit, Die, TypeInv, TableInv, Mine
<1> QED
  BY <1>1, <1>2 DEF TypeInv

\* The slot that stop_tunnel finds holds a child of the host.
LEMMA FirstActive ==
  ASSUME TypeInv, NEW h \in Hosts, ActiveSlots(h) # {}
  PROVE  LET s == First(ActiveSlots(h))
         IN /\ s \in Slots /\ s <= numTunnels
            /\ tunnels[s].active /\ tunnels[s].host = h
            /\ tunnels[s].proc \in Requests
<1>1. ActiveSlots(h) \in SUBSET Nat /\ numTunnels \in 0..MaxTunnels
  BY DEF ActiveSlots, TypeInv, TypeOK
<1>2. First(ActiveSlots(h)) \in ActiveSlots(h)
  BY <1>1, FirstIsMember
<1> QED
  BY <1>1, <1>2, ConstantsAssumption DEF ActiveSlots, TypeInv, TableInv, Slots

\* process_manager_stop_tunnel keeps the types.
LEMMA StopTypes ==
  ASSUME TypeInv, NEW h \in Hosts, Stop(h)
  PROVE  TypeInv'
<1> USE DEF tableVars, startVars, monVars, killVars
<1>1. termed' \subseteq Requests
  BY FirstActive DEF Stop, Signalled, TypeInv, TypeOK
<1>2. TypeOK'
  BY <1>1 DEF Stop, TypeInv, TypeOK
<1>3. TableInv'
  BY DEF Stop, TypeInv, TableInv, Mine
<1> QED
  BY <1>2, <1>3 DEF TypeInv

\* process_manager_kill_all and _free keep the types: the second pass stays
\* within the table.
LEMMA KillAllTypes ==
  ASSUME TypeInv, KillAllTerm \/ KillAllStep
  PROVE  TypeInv'
<1> USE ConstantsAssumption DEF tableVars, startVars, procVars, monVars, killVars
<1>1. CASE KillAllTerm
  <2>1. \A s \in 1..numTunnels : s \in Slots
    BY DEF TypeInv, TypeOK, Slots
  <2>2. termed' \subseteq Requests
    BY <1>1, <2>1 DEF KillAllTerm, Signalled, TypeInv, TypeOK, TableInv
  <2>3. TypeOK'
    BY <1>1, <2>2 DEF KillAllTerm, TypeInv, TypeOK
  <2>4. TableInv'
    BY <1>1 DEF KillAllTerm, TypeInv, TableInv, Mine
  <2> QED
    BY <2>3, <2>4 DEF TypeInv
<1>2. CASE KillAllWake
  BY <1>2 DEF KillAllWake, TypeInv, TypeOK, TableInv, Mine
<1>3. ASSUME NEW s \in Slots, KillSurvivor(s)
      PROVE  TypeInv'
  <2>1. killSlot' \in 0..(MaxTunnels + 1)
    BY <1>3 DEF KillSurvivor, Slots
  <2>2. CASE tunnels[s].active
    <3>1. /\ tunnels' \in [Slots -> Entry]
          /\ \A t \in Slots : /\ tunnels'[t].proc = tunnels[t].proc
                              /\ tunnels'[t].host = tunnels[t].host
                              /\ tunnels'[t].active => tunnels[t].active
      BY <1>3, <2>2, EntryWrite DEF KillSurvivor, TypeInv, TypeOK
    <3>2. /\ proc' = [proc EXCEPT ![tunnels[s].proc] = "reaped"]
          /\ exitCode' = [exitCode EXCEPT ![tunnels[s].proc] = "none"]
          /\ termed' = termed \ {tunnels[s].proc}
          /\ writers' = [q \in Requests |-> writers[q] \ {tunnels[s].proc}]
      BY <1>3, <2>2 DEF KillSurvivor
    <3>3. TypeOK'
      BY <1>3, <2>1, <3>1, <3>2 DEF KillSurvivor, TypeInv, TypeOK
    <3>4. \A q \in Requests : start[q] \in Registered => slot[q] \in Slots
      BY DEF TypeInv, TypeOK, TableInv, Slots
    <3>5. TableInv'
      BY <1>3, <3>1, <3>4 DEF KillSurvivor, TypeInv, TableInv, Mine
    <3> QED
      BY <3>3, <3>5 DEF TypeInv
  <2>3. CASE ~tunnels[s].active
    BY <1>3, <2>1, <2>3 DEF KillSurvivor, TypeInv, TypeOK, TableInv, Mine
  <2> QED
    BY <2>2, <2>3
<1>4. CASE KillAllEnd
  BY <1>4 DEF KillAllEnd, TypeInv, TypeOK, TableInv, Mine
<1>5. CASE Free
  BY <1>5 DEF Free, Live, TypeInv, TypeOK, TableInv, Mine
<1> QED
  BY <1>1, <1>2, <1>3, <1>4, <1>5 DEF KillAllStep

\* Every step of every actor keeps the types.
THEOREM TypeStep == TypeInv /\ [Next]_vars => TypeInv'
<1> SUFFICES ASSUME TypeInv, [Next]_vars
             PROVE  TypeInv'
  OBVIOUS
<1>1. ASSUME UNCHANGED vars PROVE TypeInv'
  BY <1>1 DEF vars, tableVars, startVars, procVars, monVars, killVars, TypeInv, TypeOK,
              TableInv, Mine
<1>2. ASSUME NEW r \in Requests, NEW h \in Hosts, RefuseStart(r, h) \/ ReserveSlot(r, h)
      PROVE  TypeInv'
  BY <1>2, RequestTypes
<1>3. ASSUME NEW r \in Requests, StartStep(r) \/ MonitorStep(r) PROVE TypeInv'
  BY <1>3, StartTypes, MonitorTypes
<1>4. ASSUME NEW r \in Requests, NEW code \in {"ok", "fail"},
             Setsid(r) \/ ExitOnTerm(r) \/ Exit(r, code)
      PROVE  TypeInv'
  BY <1>4, ChildTypes
<1>5. ASSUME NEW h \in Hosts, Stop(h) PROVE TypeInv'
  BY <1>5, StopTypes
<1>6. ASSUME KillAllTerm \/ KillAllStep PROVE TypeInv'
  BY <1>6, KillAllTypes
<1> QED
  BY <1>1, <1>2, <1>3, <1>4, <1>5, <1>6 DEF Next, Exited

\* The table is well typed and its slots are in range in every reachable
\* state, concurrent start calls included.
THEOREM TypeCorrect == Spec => [](TypeOK /\ TableInv)
<1>1. Init => TypeInv
  BY InitTypes
<1>2. TypeInv /\ [Next]_vars => TypeInv'
  BY TypeStep
<1>3. TypeInv => TypeOK /\ TableInv
  BY DEF TypeInv
<1> QED
  BY <1>1, <1>2, <1>3, PTL DEF Spec

-----------------------------------------------------------------------------
(* Serial start calls                                                      *)

\* The variables the strengthening reads.
tableState == <<tunnels, numTunnels, start, slot, target, proc, monitor, waitPid,
                killer, killSlot>>

\* The strengthening reads only tableState: a step that leaves it alone keeps
\* the strengthening.
LEMMA SerialFrame ==
  ASSUME SerialInv, UNCHANGED tableState
  PROVE  SerialInv'
BY DEF tableState, SerialInv, OnePending, NoneWhileClosing, ReservedFree, Lifecycle,
       EntryOwned, OneEntryPerHost, KilledInactive, Pending, InFlight, Mine, Owns

\* The strengthening holds when the application starts.
LEMMA InitSerial == Init => SerialInv
BY ConstantsAssumption
   DEF Init, SerialInv, OnePending, NoneWhileClosing, ReservedFree, Lifecycle, EntryOwned,
       OneEntryPerHost, KilledInactive, Pending, InFlight, Registered, Slots, EmptyEntry

\* The two steps of a start call that choose: a refusal, and a reservation.
LEMMA RequestSerial ==
  ASSUME TypeInv, SerialInv, SerialStarts, NEW r \in Requests, NEW h \in Hosts,
         RefuseStart(r, h) \/ ReserveSlot(r, h)
  PROVE  SerialInv'
<1> USE DEF tableVars, startVars, procVars, monVars, killVars
<1>1. CASE RefuseStart(r, h)
  BY <1>1 DEF RefuseStart, CanStart, TypeInv, TypeOK, SerialInv, OnePending,
       NoneWhileClosing, ReservedFree, Lifecycle, EntryOwned, OneEntryPerHost,
       KilledInactive, Pending, InFlight, Mine, Owns, Registered
<1>2. CASE ReserveSlot(r, h)
  <2>1. /\ start[r] = "idle" /\ killer = "idle"
        /\ \A q \in Requests : ~Pending(q)
        /\ start' = [start EXCEPT ![r] = "reserved"]
        /\ target' = [target EXCEPT ![r] = h]
        /\ UNCHANGED <<tunnels, proc, monitor, waitPid, killer, killSlot>>
        /\ \A q \in Requests : q # r => slot'[q] = slot[q]
    BY <1>2 DEF ReserveSlot, CanStart, Pending, TypeInv, TypeOK
  <2>2. ~tunnels[slot'[r]].active
    <3>1. CASE VacantSlots # {}
      <4>1. VacantSlots \in SUBSET Nat
        BY DEF VacantSlots, TypeInv, TypeOK
      <4> QED
        BY <1>2, <3>1, <4>1, FirstIsMember DEF ReserveSlot, VacantSlots, TypeInv, TypeOK
    <3>2. CASE VacantSlots = {}
      BY <1>2, <3>2, ConstantsAssumption
         DEF ReserveSlot, Full, TypeInv, TypeOK, TableInv, Slots
    <3> QED
      BY <3>1, <3>2
  <2>3. \A s \in Slots : tunnels[s].active => tunnels[s].host # h
    <3>1. ~\E s \in 1..numTunnels : tunnels[s].active /\ tunnels[s].host = h
      BY <1>2 DEF ReserveSlot, Duplicate, ActiveSlots
    <3>2. \A s \in Slots : tunnels[s].active => s \in 1..numTunnels
      BY DEF TypeInv, TypeOK, TableInv, Slots
    <3> QED
      BY <3>1, <3>2
  <2>4. \A q \in Requests : q # r => start'[q] = start[q] /\ target'[q] = target[q]
    BY <2>1 DEF TypeInv, TypeOK
  <2>5. start'[r] = "reserved" /\ target'[r] = h
    BY <2>1 DEF TypeInv, TypeOK
  <2>6. OnePending' /\ NoneWhileClosing'
    BY <2>1, <2>4 DEF OnePending, NoneWhileClosing, Pending
  <2>7. ReservedFree'
    BY <2>1, <2>2, <2>3, <2>4, <2>5 DEF ReservedFree, InFlight, Pending, Mine
  <2>8. Lifecycle'
    BY <2>1, <2>4, <2>5 DEF SerialInv, Lifecycle, Registered, Owns, Mine
  <2>9. EntryOwned'
    BY <2>1, <2>4 DEF SerialInv, EntryOwned, Registered, TypeInv, TableInv
  <2>10. OneEntryPerHost' /\ KilledInactive'
    BY <2>1 DEF SerialInv, OneEntryPerHost, KilledInactive
  <2> QED
    BY <2>6, <2>7, <2>8, <2>9, <2>10 DEF SerialInv
<1> QED
  BY <1>1, <1>2

\* Every step of a start call keeps the strengthening: in particular Register
\* writes a slot that is still free, for a host that still has no tunnel.
LEMMA StartSerial ==
  ASSUME TypeInv, SerialInv, NEW r \in Requests, StartStep(r)
  PROVE  SerialInv'
<1> USE DEF tableVars, startVars, procVars, monVars, killVars
<1>0. /\ slot[r] \in Slots /\ killer = "idle" /\ monitor[r] = "none"
      /\ target[r] \in Hosts
      /\ \A q \in Requests : q # r => ~Pending(q)
      /\ start \in [Requests -> {"idle", "reserved", "piped", "forked", "registered",
                                 "announced", "ok", "refused"}]
      /\ tunnels \in [Slots -> Entry]
  BY ConstantsAssumption
     DEF StartStep, OpenPipe, Fork, ForkFails, Register, AnnounceStarting, SpawnMonitor,
         TypeInv, TypeOK, TableInv, SerialInv, OnePending, NoneWhileClosing, Pending,
         Registered, Slots
<1>1. CASE OpenPipe(r) \/ ForkFails(r)
  BY <1>0, <1>1
     DEF OpenPipe, ForkFails, SerialInv, OnePending, NoneWhileClosing, ReservedFree,
         Lifecycle, EntryOwned, OneEntryPerHost, KilledInactive, Pending, InFlight, Mine,
         Owns, Registered, TypeInv, TableInv
<1>2. CASE Fork(r)
  <2>1. proc' = [proc EXCEPT ![r] = "forked"] /\ proc[r] = "none"
    BY <1>2 DEF Fork, SerialInv, Lifecycle
  <2> QED
    BY <1>0, <1>2, <2>1
       DEF Fork, SerialInv, OnePending, NoneWhileClosing, ReservedFree,
           Lifecycle, EntryOwned, OneEntryPerHost, KilledInactive, Pending, InFlight, Mine,
           Owns, Registered, TypeInv, TypeOK, TableInv
<1>3. CASE Register(r)
  <2>1. /\ start' = [start EXCEPT ![r] = "registered"] /\ start[r] = "forked"
        /\ UNCHANGED <<numTunnels, slot, target, proc, monitor, waitPid, killer, killSlot>>
        /\ tunnels'[slot[r]].proc = r /\ tunnels'[slot[r]].host = target[r]
        /\ tunnels'[slot[r]].active
        /\ \A s \in Slots : s # slot[r] => tunnels'[s] = tunnels[s]
    BY <1>0, <1>3 DEF Register
  <2>2. \A s \in Slots : tunnels[s].active => tunnels[s].host # target[r] /\ s # slot[r]
    BY <2>1 DEF SerialInv, ReservedFree, InFlight, Mine
  <2>3. OnePending' /\ NoneWhileClosing' /\ ReservedFree' /\ KilledInactive'
    BY <1>0, <2>1
       DEF SerialInv, OnePending, NoneWhileClosing, ReservedFree, KilledInactive, Pending,
           InFlight
  <2>4. Lifecycle'
    <3>1. \A q \in Requests : q # r /\ start[q] \in Registered /\ monitor[q] \in Unreleased
            => slot[q] # slot[r] /\ slot[q] \in Slots
      <4> SUFFICES ASSUME NEW q \in Requests, q # r, start[q] \in Registered,
                          monitor[q] \in Unreleased
                   PROVE  slot[q] # slot[r] /\ slot[q] \in Slots
        OBVIOUS
      <4>1. slot[q] \in 1..numTunnels /\ numTunnels \in 0..MaxTunnels
        BY <1>0 DEF TypeInv, TypeOK, TableInv
      <4>2. slot[q] \in Slots
        BY <4>1, ConstantsAssumption DEF Slots
      <4>3. Owns(q)
        BY DEF SerialInv, Lifecycle
      <4>4. killer = "idle"
        BY <2>1 DEF SerialInv, NoneWhileClosing, Pending
      <4>5. tunnels[slot[q]].active
        BY <4>3, <4>4 DEF Owns, Mine
      <4> QED
        BY <2>2, <4>2, <4>5
    <3> QED
      BY <1>0, <2>1, <3>1 DEF SerialInv, Lifecycle, Registered, Owns, Mine
  <2>5. EntryOwned'
    BY <1>0, <2>1, <2>2 DEF SerialInv, EntryOwned, Registered, Unreleased, TypeInv, TableInv
  <2>6. OneEntryPerHost'
    BY <1>0, <2>1, <2>2 DEF SerialInv, OneEntryPerHost
  <2> QED
    BY <2>3, <2>4, <2>5, <2>6 DEF SerialInv
<1>4. CASE AnnounceStarting(r)
  BY <1>0, <1>4
     DEF AnnounceStarting, SerialInv, OnePending, NoneWhileClosing, ReservedFree,
         Lifecycle, EntryOwned, OneEntryPerHost, KilledInactive, Pending, InFlight, Mine,
         Owns, Registered, TypeInv, TableInv
<1>5. CASE SpawnMonitor(r)
  <2>1. /\ start' = [start EXCEPT ![r] = "ok"] /\ start[r] = "announced"
        /\ monitor' = [monitor EXCEPT ![r] = "probe"]
           \/ monitor' = [monitor EXCEPT ![r] = "failed"]
        /\ UNCHANGED <<tunnels, slot, target, proc, waitPid, killer, killSlot>>
    BY <1>5 DEF SpawnMonitor
  <2>2. monitor'[r] \in {"probe", "failed"} /\ \A q \in Requests \ {r} : monitor'[q] = monitor[q]
    BY <2>1 DEF TypeInv, TypeOK
  <2> QED
    BY <1>0, <2>1, <2>2
       DEF SerialInv, OnePending, NoneWhileClosing, ReservedFree,
           Lifecycle, EntryOwned, OneEntryPerHost, KilledInactive, Pending, InFlight, Mine,
           Owns, Registered, Unreleased, TypeInv, TableInv
<1> QED
  BY <1>1, <1>2, <1>3, <1>4, <1>5 DEF StartStep

\* A child that ends keeps its entry: only its monitor releases it.
LEMMA ChildSerial ==
  ASSUME TypeInv, SerialInv, NEW r \in Requests, NEW code \in {"ok", "fail"},
         Setsid(r) \/ ExitOnTerm(r) \/ Exit(r, code)
  PROVE  SerialInv'
<1>1. /\ UNCHANGED <<tunnels, start, slot, target, monitor, waitPid, killer, killSlot>>
      /\ \A q \in Requests : q # r => proc'[q] = proc[q]
      /\ proc[r] \in {"forked", "running"}
  BY DEF Setsid, ExitOnTerm, Exit, Die, TypeInv, TypeOK, tableVars, startVars, monVars, killVars
<1> QED
  BY <1>1
     DEF SerialInv, OnePending, NoneWhileClosing, ReservedFree, Lifecycle, EntryOwned,
         OneEntryPerHost, KilledInactive, Pending, InFlight, Mine, Owns

\* A monitor waits for its own child only: the entry it reads is its own, or
\* the pid it blocked on is.
LEMMA MonitorSerial ==
  ASSUME TypeInv, SerialInv, NEW r \in Requests, MonitorStep(r)
  PROVE  SerialInv'
<1> USE DEF tableVars, startVars, procVars, monVars, killVars
<1>0. /\ start[r] = "ok" /\ slot[r] \in Slots /\ tunnels \in [Slots -> Entry]
      /\ monitor \in [Requests -> {"none", "failed", "probe", "wait", "drain", "release",
                                   "report", "inactive", "done", "gone"}]
      /\ \A s \in Slots : tunnels[s].active => tunnels[s].proc \in Requests
  BY ConstantsAssumption
     DEF MonitorStep, Probe, DeclareActive, AwaitExit, Drain, Release, ReportError,
         ReportInactive, TypeInv, TypeOK, TableInv, Registered, Slots
<1>1. CASE Probe(r) \/ AwaitExit(r)
  <2>1. CASE UNCHANGED <<monitor, proc>>
    BY <1>1, <2>1, SerialFrame DEF Probe, AwaitExit, tableState
  <2>2. CASE monitor' = [monitor EXCEPT ![r] = "drain"] /\ WaitPid(r, r)
    <3>1. /\ proc'[r] = "reaped" /\ proc[r] # "none"
          /\ \A q \in Requests : q # r => proc'[q] = proc[q] /\ monitor'[q] = monitor[q]
      BY <2>2 DEF WaitPid, TypeInv, TypeOK
    <3>2. /\ UNCHANGED <<tunnels, start, slot, target, waitPid, killer, killSlot>>
          /\ monitor[r] \in {"probe", "wait"} /\ monitor'[r] = "drain"
      BY <1>0, <1>1, <2>2 DEF Probe, AwaitExit
    <3> QED
      BY <1>0, <3>1, <3>2
         DEF SerialInv, OnePending, NoneWhileClosing, ReservedFree, Lifecycle, EntryOwned,
             OneEntryPerHost, KilledInactive, Pending, InFlight, Mine, Owns, Unreleased
  <2>3. monitor[r] = "probe" => Mine(r).proc = r
    BY <1>0 DEF SerialInv, Lifecycle, Owns, Registered, Unreleased
  <2>4. monitor[r] = "wait" => waitPid[r] = r
    BY DEF SerialInv, Lifecycle
  <2> QED
    BY <1>1, <2>1, <2>2, <2>3, <2>4 DEF Probe, AwaitExit
<1>2. CASE DeclareActive(r)
  <2>1. Mine(r).proc = r
    BY <1>0, <1>2 DEF DeclareActive, SerialInv, Lifecycle, Owns, Registered, Unreleased
  <2>2. /\ UNCHANGED <<tunnels, start, slot, target, proc, killer, killSlot>>
        /\ monitor[r] = "probe" /\ monitor'[r] = "wait" /\ waitPid'[r] = r
        /\ \A q \in Requests : q # r => monitor'[q] = monitor[q] /\ waitPid'[q] = waitPid[q]
    BY <1>0, <1>2, <2>1 DEF DeclareActive, TypeInv, TypeOK
  <2> QED
    BY <1>0, <2>2
       DEF SerialInv, OnePending, NoneWhileClosing, ReservedFree, Lifecycle, EntryOwned,
           OneEntryPerHost, KilledInactive, Pending, InFlight, Mine, Owns, Unreleased
<1>3. CASE Drain(r)
  <2>1. /\ UNCHANGED <<start, slot, target, proc, waitPid, killer, killSlot>>
        /\ monitor[r] = "drain" /\ monitor'[r] = "release"
        /\ \A q \in Requests : q # r => monitor'[q] = monitor[q]
        /\ tunnels' = [tunnels EXCEPT ![slot[r]].fd = None]
    BY <1>0, <1>3 DEF Drain
  <2>2. \A s \in Slots : /\ tunnels'[s].proc = tunnels[s].proc
                         /\ tunnels'[s].host = tunnels[s].host
                         /\ tunnels'[s].active = tunnels[s].active
    BY <1>0, <2>1 DEF Entry
  <2>3. \A q \in Requests : start[q] \in Registered \cup {"reserved", "piped", "forked"}
          => slot[q] \in Slots
    BY DEF TypeInv, TypeOK, TableInv, Slots
  <2> QED
    BY <1>0, <2>1, <2>2, <2>3
       DEF SerialInv, OnePending, NoneWhileClosing, ReservedFree, Lifecycle, EntryOwned,
           OneEntryPerHost, KilledInactive, Pending, InFlight, Mine, Owns, Unreleased,
           Registered
<1>4. CASE Release(r)
  <2>1. /\ UNCHANGED <<start, slot, target, proc, waitPid, killer, killSlot>>
        /\ monitor[r] = "release" /\ monitor'[r] = "report"
        /\ \A q \in Requests : q # r => monitor'[q] = monitor[q]
        /\ tunnels' = [tunnels EXCEPT ![slot[r]].active = FALSE]
    BY <1>0, <1>4 DEF Release
  <2>2. /\ \A s \in Slots : /\ tunnels'[s].proc = tunnels[s].proc
                            /\ tunnels'[s].host = tunnels[s].host
                            /\ tunnels'[s].active => tunnels[s].active
                            /\ s # slot[r] => tunnels'[s] = tunnels[s]
        /\ ~tunnels'[slot[r]].active
    BY <1>0, <2>1 DEF Entry
  <2>3. \A q \in Requests : start[q] \in Registered \cup {"reserved", "piped", "forked"}
          => slot[q] \in Slots
    BY DEF TypeInv, TypeOK, TableInv, Slots
  <2>4. Mine(r).proc = r /\ proc[r] = "reaped"
    BY <1>0, <2>1 DEF SerialInv, Lifecycle, Owns, Registered, Unreleased
  <2>5. Lifecycle'
    BY <1>0, <2>1, <2>2, <2>3, <2>4
       DEF SerialInv, Lifecycle, Owns, Mine, Unreleased, Registered
  <2>6. EntryOwned'
    BY <1>0, <2>1, <2>2, <2>4 DEF SerialInv, EntryOwned, Mine, Unreleased
  <2>7. ReservedFree'
    BY <1>0, <2>1, <2>2, <2>3 DEF SerialInv, ReservedFree, InFlight, Mine
  <2>8. OnePending' /\ NoneWhileClosing' /\ OneEntryPerHost' /\ KilledInactive'
    BY <2>1, <2>2
       DEF SerialInv, OnePending, NoneWhileClosing, OneEntryPerHost, KilledInactive, Pending
  <2> QED
    BY <2>5, <2>6, <2>7, <2>8 DEF SerialInv
<1>5. CASE ReportError(r) \/ ReportInactive(r)
  <2>1. /\ UNCHANGED <<tunnels, start, slot, target, proc, killer, killSlot>>
        /\ monitor[r] \in {"report", "inactive"} /\ monitor'[r] \in {"inactive", "done"}
        /\ \A q \in Requests : q # r => monitor'[q] = monitor[q] /\ waitPid'[q] = waitPid[q]
    BY <1>0, <1>5 DEF ReportError, ReportInactive, TypeInv, TypeOK
  <2> QED
    BY <1>0, <2>1
       DEF SerialInv, OnePending, NoneWhileClosing, ReservedFree, Lifecycle, EntryOwned,
           OneEntryPerHost, KilledInactive, Pending, InFlight, Mine, Owns, Unreleased
<1> QED
  BY <1>1, <1>2, <1>3, <1>4, <1>5 DEF MonitorStep

\* A stop call changes no entry.
LEMMA StopSerial ==
  ASSUME SerialInv, NEW h \in Hosts, Stop(h)
  PROVE  SerialInv'
BY SerialFrame
   DEF Stop, tableState, tableVars, startVars, monVars, killVars

\* A child that exists is in an active entry, once its start call has
\* registered it.
LEMMA ExistsActive ==
  ASSUME TypeInv, SerialInv, NEW r \in Requests, Exists(r), start[r] \in Registered
  PROVE  /\ slot[r] \in 1..numTunnels /\ slot[r] \in Slots
         /\ Mine(r).active /\ Mine(r).proc = r /\ Mine(r).host = target[r]
<1>1. monitor[r] \in Unreleased
  BY DEF TypeInv, TypeOK, SerialInv, Lifecycle, Exists, Unreleased
<1>2. Owns(r) /\ proc[r] # "reaped"
  BY <1>1 DEF SerialInv, Lifecycle, Exists
<1> QED
  BY <1>2 DEF Owns, TypeInv, TypeOK, TableInv, Slots

\* kill_all leaves inactive entries and reaped children behind it.
LEMMA KillAllSerial ==
  ASSUME TypeInv, SerialInv, KillAllTerm \/ KillAllStep
  PROVE  SerialInv'
<1> USE DEF tableVars, startVars, procVars, monVars, killVars
<1>1. CASE KillAllTerm
  BY <1>1
     DEF KillAllTerm, SerialInv, OnePending, NoneWhileClosing, ReservedFree, Lifecycle,
         EntryOwned, OneEntryPerHost, KilledInactive, Pending, InFlight, Mine, Owns
<1>2. CASE KillAllWake
  BY <1>2
     DEF KillAllWake, SerialInv, OnePending, NoneWhileClosing, ReservedFree, Lifecycle,
         EntryOwned, OneEntryPerHost, KilledInactive, Pending, InFlight, Mine, Owns, Slots
<1>3. ASSUME NEW s \in Slots, KillSurvivor(s)
      PROVE  SerialInv'
  <2>1. /\ UNCHANGED <<start, slot, target, monitor, waitPid, killer>>
        /\ killer = "reap" /\ killSlot = s /\ killSlot' = s + 1
        /\ \A q \in Requests : ~Pending(q)
    BY <1>3 DEF KillSurvivor, SerialInv, NoneWhileClosing
  <2>2. CASE tunnels[s].active
    <3>1. /\ tunnels' = [tunnels EXCEPT ![s].active = FALSE]
          /\ proc' = [proc EXCEPT ![tunnels[s].proc] = "reaped"]
      BY <1>3, <2>2 DEF KillSurvivor
    <3>2. /\ tunnels'[s].active = FALSE
          /\ \A t \in Slots : /\ tunnels'[t].proc = tunnels[t].proc
                              /\ tunnels'[t].host = tunnels[t].host
                              /\ tunnels'[t].active => tunnels[t].active
                              /\ t # s => tunnels'[t] = tunnels[t]
      BY <3>1 DEF TypeInv, TypeOK, Entry
    <3>3. /\ tunnels[s].proc \in Requests /\ start[tunnels[s].proc] \in Registered
          /\ slot[tunnels[s].proc] = s
          /\ proc'[tunnels[s].proc] = "reaped"
          /\ \A q \in Requests : q # tunnels[s].proc => proc'[q] = proc[q]
      BY <2>2, <3>1 DEF TypeInv, TypeOK, TableInv, SerialInv, EntryOwned
    <3>4. \A q \in Requests : start[q] \in Registered => slot[q] \in Slots
      BY DEF TypeInv, TypeOK, TableInv, Slots
    <3>5. Lifecycle'
      BY <2>1, <3>2, <3>3, <3>4 DEF SerialInv, Lifecycle, Owns, Mine, Registered
    <3>6. EntryOwned' /\ OneEntryPerHost' /\ KilledInactive'
      BY <2>1, <3>2 DEF SerialInv, EntryOwned, OneEntryPerHost, KilledInactive, Slots
    <3>7. OnePending' /\ NoneWhileClosing' /\ ReservedFree'
      BY <2>1 DEF OnePending, NoneWhileClosing, ReservedFree, InFlight, Pending
    <3> QED
      BY <3>5, <3>6, <3>7 DEF SerialInv
  <2>3. CASE ~tunnels[s].active
    <3>1. UNCHANGED <<tunnels, proc>>
      BY <1>3, <2>3 DEF KillSurvivor
    <3>2. KilledInactive'
      BY <2>1, <2>3, <3>1 DEF SerialInv, KilledInactive, Slots
    <3> QED
      BY <2>1, <3>1, <3>2
         DEF SerialInv, OnePending, NoneWhileClosing, ReservedFree, Lifecycle, EntryOwned,
             OneEntryPerHost, Pending, InFlight, Mine, Owns
  <2> QED
    BY <2>2, <2>3
<1>4. CASE KillAllEnd
  <2>1. \A s \in Slots : ~tunnels[s].active
    BY <1>4, ConstantsAssumption
       DEF KillAllEnd, SerialInv, KilledInactive, TypeInv, TypeOK, TableInv, Slots
  <2> QED
    BY <1>4, <2>1
       DEF KillAllEnd, SerialInv, OnePending, NoneWhileClosing, ReservedFree, Lifecycle,
           EntryOwned, OneEntryPerHost, KilledInactive, Pending, InFlight, Mine, Owns
<1>5. CASE Free
  <2>1. \A s \in Slots : ~tunnels[s].active
    BY <1>5 DEF Free, SerialInv, KilledInactive
  <2>2. \A q \in Requests : monitor[q] \in Live => proc[q] = "reaped"
    <3> SUFFICES ASSUME NEW q \in Requests, monitor[q] \in {"probe", "wait"}
                 PROVE  proc[q] = "reaped"
      BY DEF SerialInv, Lifecycle, Live
    <3>1. Owns(q) /\ slot[q] \in Slots
      BY DEF SerialInv, Lifecycle, Unreleased, Registered, TypeInv, TypeOK, TableInv, Slots
    <3> QED
      BY <2>1, <3>1 DEF Owns, Mine
  <2>3. /\ UNCHANGED <<tunnels, start, slot, target, proc, waitPid>>
        /\ killer' = "freed" /\ killer = "done"
        /\ \A q \in Requests :
             monitor'[q] = IF monitor[q] \in Live THEN "gone" ELSE monitor[q]
    BY <1>5 DEF Free
  <2> QED
    BY <2>1, <2>2, <2>3
       DEF SerialInv, OnePending, NoneWhileClosing, ReservedFree, Lifecycle, EntryOwned,
           OneEntryPerHost, KilledInactive, Pending, InFlight, Mine, Owns, Live, Unreleased
<1> QED
  BY <1>1, <1>2, <1>3, <1>4, <1>5 DEF KillAllStep

\* Every step keeps the strengthening when start calls are serial.
THEOREM SerialStep ==
  SerialStarts /\ TypeInv /\ SerialInv /\ [Next]_vars => SerialInv'
<1> SUFFICES ASSUME SerialStarts, TypeInv, SerialInv, [Next]_vars
             PROVE  SerialInv'
  OBVIOUS
<1>1. ASSUME UNCHANGED vars PROVE SerialInv'
  BY <1>1, SerialFrame
     DEF vars, tableState, tableVars, startVars, procVars, monVars, killVars
<1>2. ASSUME NEW r \in Requests, NEW h \in Hosts, RefuseStart(r, h) \/ ReserveSlot(r, h)
      PROVE  SerialInv'
  BY <1>2, RequestSerial
<1>3. ASSUME NEW r \in Requests, StartStep(r) \/ MonitorStep(r) PROVE SerialInv'
  BY <1>3, StartSerial, MonitorSerial
<1>4. ASSUME NEW r \in Requests, NEW code \in {"ok", "fail"},
             Setsid(r) \/ ExitOnTerm(r) \/ Exit(r, code)
      PROVE  SerialInv'
  BY <1>4, ChildSerial
<1>5. ASSUME NEW h \in Hosts, Stop(h) PROVE SerialInv'
  BY <1>5, StopSerial
<1>6. ASSUME KillAllTerm \/ KillAllStep PROVE SerialInv'
  BY <1>6, KillAllSerial
<1> QED
  BY <1>1, <1>2, <1>3, <1>4, <1>5, <1>6 DEF Next, Exited

\* Two children of one host would own two active entries of that host.
LEMMA SerialImpliesOneChild ==
  ASSUME TypeInv, SerialInv
  PROVE  OneChildPerHost
<1> SUFFICES ASSUME NEW r \in Requests, NEW q \in Requests, Exists(r), Exists(q),
                    target[r] = target[q], r # q
             PROVE  FALSE
  BY DEF OneChildPerHost
<1>1. /\ start[r] \in Registered \cup {"forked"}
      /\ start[q] \in Registered \cup {"forked"}
  BY DEF TypeInv, TypeOK, SerialInv, Lifecycle, Exists, Registered
<1>2. CASE start[r] \in Registered /\ start[q] \in Registered
  BY <1>2, ExistsActive DEF SerialInv, OneEntryPerHost, Mine
<1>3. CASE start[r] = "forked" /\ start[q] \in Registered
  BY <1>3, ExistsActive DEF SerialInv, ReservedFree, InFlight, Mine
<1>4. CASE start[r] \in Registered /\ start[q] = "forked"
  BY <1>4, ExistsActive DEF SerialInv, ReservedFree, InFlight, Mine
<1>5. CASE start[r] = "forked" /\ start[q] = "forked"
  BY <1>5 DEF SerialInv, OnePending, Pending
<1> QED
  BY <1>1, <1>2, <1>3, <1>4, <1>5

\* A child that exists owns an active entry.
LEMMA SerialImpliesNoOrphan ==
  ASSUME TypeInv, SerialInv
  PROVE  NoOrphan
BY ExistsActive DEF NoOrphan, Mine

\* After kill_all no entry is active, so no child exists.
LEMMA SerialImpliesNoneSurvives ==
  ASSUME TypeInv, SerialInv
  PROVE  NoneSurvives
<1> SUFFICES ASSUME killer \in {"done", "freed"}, NEW r \in Requests, Exists(r)
             PROVE  FALSE
  BY DEF NoneSurvives
<1>1. start[r] \in Registered
  BY DEF TypeInv, TypeOK, SerialInv, Lifecycle, NoneWhileClosing, Pending, Exists, Registered
<1> QED
  BY <1>1, ExistsActive DEF SerialInv, KilledInactive, Mine

\* A monitor that has not released its entry still owns it.
LEMMA SerialImpliesOwnership ==
  ASSUME TypeInv, SerialInv
  PROVE  MonitorOwnsEntry
BY DEF MonitorOwnsEntry, TypeInv, TableInv, SerialInv, Lifecycle, Owns, Registered, Unreleased

\* With start calls one at a time: one child per host, no child out of reach
\* of stop_tunnel and kill_all, every monitor on its own entry, and no child
\* left when kill_all returns.
THEOREM SerialCorrect ==
  ASSUME SerialStarts
  PROVE  Spec => [](OneChildPerHost /\ NoOrphan /\ MonitorOwnsEntry /\ NoneSurvives)
<1>1. Init => TypeInv /\ SerialInv
  BY InitTypes, InitSerial
<1>2. TypeInv /\ SerialInv /\ [Next]_vars => (TypeInv /\ SerialInv)'
  BY TypeStep, SerialStep
<1>3. TypeInv /\ SerialInv
        => OneChildPerHost /\ NoOrphan /\ MonitorOwnsEntry /\ NoneSurvives
  BY SerialImpliesOneChild, SerialImpliesNoOrphan, SerialImpliesOwnership,
     SerialImpliesNoneSurvives
<1> QED
  BY <1>1, <1>2, <1>3, PTL DEF Spec

-----------------------------------------------------------------------------
(* What is announced as active                                             *)

\* waitpid takes the status of a child that has ended.
LEMMA WaitPidAlive ==
  ASSUME TypeOK, NEW r \in Requests, NEW p \in Requests, WaitPid(r, p)
  PROVE  \A q \in Requests : /\ proc[q] \in {"forked", "running"} => proc'[q] = proc[q]
                             /\ q # p => proc'[q] = proc[q]
BY DEF WaitPid, TypeOK

\* A step that moves no child towards its end, and no call or monitor to a
\* position that relies on its child, keeps AliveInv.
LEMMA AliveFrame ==
  ASSUME AliveInv, killer' \in {"idle", "sleep"} => killer \in {"idle", "sleep"},
         \A q \in Requests :
           /\ Exists(q) => Exists(q)'
           /\ start'[q] \in {"forked", "registered", "announced"}
                => start[q] \in {"forked", "registered", "announced"}
           /\ monitor'[q] \in {"probe", "wait"} => monitor[q] \in {"probe", "wait"}
  PROVE  AliveInv'
BY DEF AliveInv

\* A start call forks its child, and hands it over to a monitor.
LEMMA StartAlive ==
  ASSUME TypeInv, AliveInv, NEW r \in Requests, StartStep(r)
  PROVE  AliveInv'
<1> USE DEF tableVars, startVars, procVars, monVars, killVars
<1>1. CASE Fork(r)
  <2>1. \A q \in Requests : /\ q # r => start'[q] = start[q] /\ proc'[q] = proc[q]
                            /\ proc'[r] = "forked"
    BY <1>1 DEF Fork, TypeInv, TypeOK
  <2>2. UNCHANGED <<monitor, killer>>
    BY <1>1 DEF Fork
  <2> QED
    BY <2>1, <2>2 DEF AliveInv, Exists
<1>2. CASE SpawnMonitor(r)
  <2>1. /\ start[r] = "announced" /\ UNCHANGED <<proc, killer>>
        /\ \A q \in Requests : q # r => start'[q] = start[q] /\ monitor'[q] = monitor[q]
    BY <1>2 DEF SpawnMonitor, TypeInv, TypeOK
  <2>2. start'[r] = "ok"
    BY <1>2 DEF SpawnMonitor, TypeInv, TypeOK
  <2> QED
    BY <2>1, <2>2 DEF AliveInv, Exists
<1>3. CASE OpenPipe(r) \/ ForkFails(r) \/ Register(r) \/ AnnounceStarting(r)
  <2>1. /\ UNCHANGED <<proc, monitor, killer>>
        /\ \A q \in Requests : start'[q] \in {"forked", "registered", "announced"}
                                 => start[q] \in {"forked", "registered", "announced"}
    BY <1>3 DEF OpenPipe, ForkFails, Register, AnnounceStarting, TypeInv, TypeOK
  <2> QED
    BY <2>1, AliveFrame DEF Exists
<1> QED
  BY <1>1, <1>2, <1>3 DEF StartStep

\* A monitor reaps its own child, and leaves the waits with it.
LEMMA MonitorAlive ==
  ASSUME TypeInv, SerialInv, AliveInv, NEW r \in Requests, MonitorStep(r)
  PROVE  AliveInv'
<1> USE DEF tableVars, startVars, procVars, monVars, killVars
<1>0. start[r] = "ok"
  BY DEF TypeInv, TableInv, MonitorStep, Probe, DeclareActive, AwaitExit, Drain, Release,
         ReportError, ReportInactive
<1>1. CASE UNCHANGED proc
  <2>1. /\ UNCHANGED <<start, killer>>
        /\ \A q \in Requests : monitor'[q] \in {"probe", "wait"} => monitor[q] \in {"probe", "wait"}
    BY <1>1 DEF MonitorStep, Probe, DeclareActive, AwaitExit, Drain, Release, ReportError,
                ReportInactive, TypeInv, TypeOK
  <2> QED
    BY <1>1, <2>1, AliveFrame DEF Exists
<1>2. CASE ~UNCHANGED proc
  <2>1. /\ monitor' = [monitor EXCEPT ![r] = "drain"] /\ UNCHANGED <<start, killer>>
        /\ \/ monitor[r] = "probe" /\ WaitPid(r, Mine(r).proc)
           \/ monitor[r] = "wait" /\ WaitPid(r, waitPid[r])
    BY <1>2 DEF MonitorStep, Probe, DeclareActive, AwaitExit, Drain, Release, ReportError,
                ReportInactive
  <2>2. monitor[r] = "probe" => Mine(r).proc = r
    BY <1>0 DEF SerialInv, Lifecycle, Owns, Registered, Unreleased
  <2>3. monitor[r] = "wait" => waitPid[r] = r
    BY DEF SerialInv, Lifecycle
  <2>4. \A q \in Requests : q # r => proc'[q] = proc[q] /\ monitor'[q] = monitor[q]
    BY <2>1, <2>2, <2>3, WaitPidAlive DEF TypeInv, TypeOK
  <2>5. monitor'[r] = "drain"
    BY <2>1 DEF TypeInv, TypeOK
  <2> QED
    BY <1>0, <2>1, <2>4, <2>5 DEF AliveInv, Exists
<1> QED
  BY <1>1, <1>2

\* Every step keeps AliveInv when start calls are serial.
LEMMA AliveStep ==
  ASSUME SerialStarts, TypeInv, SerialInv, AliveInv, [Next]_vars
  PROVE  AliveInv'
<1> USE DEF tableVars, startVars, procVars, monVars, killVars
<1>1. ASSUME UNCHANGED vars PROVE AliveInv'
  BY <1>1, AliveFrame DEF vars, Exists
<1>2. ASSUME NEW r \in Requests, NEW h \in Hosts, RefuseStart(r, h) \/ ReserveSlot(r, h)
      PROVE  AliveInv'
  <2>1. /\ UNCHANGED <<proc, monitor, killer>>
        /\ \A q \in Requests : start'[q] \in {"forked", "registered", "announced"}
                                 => start[q] \in {"forked", "registered", "announced"}
    BY <1>2 DEF RefuseStart, ReserveSlot, TypeInv, TypeOK
  <2> QED
    BY <2>1, AliveFrame DEF Exists
<1>3. ASSUME NEW r \in Requests, StartStep(r) \/ MonitorStep(r) PROVE AliveInv'
  BY <1>3, StartAlive, MonitorAlive
<1>4. ASSUME NEW r \in Requests, NEW code \in {"ok", "fail"},
             Setsid(r) \/ ExitOnTerm(r) \/ Exit(r, code)
      PROVE  AliveInv'
  <2>1. /\ UNCHANGED <<start, monitor, killer>>
        /\ \A q \in Requests : Exists(q) => Exists(q)'
    BY <1>4 DEF Setsid, ExitOnTerm, Exit, Die, Exists, TypeInv, TypeOK
  <2> QED
    BY <2>1, AliveFrame
<1>5. ASSUME (\E h \in Hosts : Stop(h)) \/ KillAllTerm PROVE AliveInv'
  BY <1>5, AliveFrame DEF Stop, KillAllTerm, Exists
<1>6. ASSUME KillAllStep PROVE AliveInv'
  <2>1. killer' \notin {"idle", "sleep"}
    BY <1>6 DEF KillAllStep, KillAllWake, KillSurvivor, KillAllEnd, Free
  <2> QED
    BY <2>1 DEF AliveInv
<1> QED
  BY <1>1, <1>2, <1>3, <1>4, <1>5, <1>6 DEF Next, Exited

\* The event of a step that broadcasts "active".
AnnouncesLive(h) ==
  shown[h] # "active" /\ shown'[h] = "active" /\ killer = "idle"
    => \E s \in ActiveSlots(h) : Exists(tunnels[s].proc)

\* Only a monitor broadcasts "active", for the host of its own entry, whose child
\* it has not reaped.
LEMMA ActiveStep ==
  ASSUME TypeInv, SerialInv, AliveInv, [Next]_vars, NEW h \in Hosts
  PROVE  AnnouncesLive(h)
<1> SUFFICES ASSUME shown[h] # "active", shown'[h] = "active", killer = "idle"
             PROVE  \E s \in ActiveSlots(h) : Exists(tunnels[s].proc)
  BY DEF AnnouncesLive
<1>1. \E r \in Requests : DeclareActive(r) \/ AnnounceStarting(r) \/ ReportError(r)
                            \/ ReportInactive(r)
  <2>1. ~UNCHANGED shown
    OBVIOUS
  <2> QED
    BY <2>1 DEF Next, Exited, vars, RefuseStart, ReserveSlot, StartStep, OpenPipe, Fork,
          ForkFails, Register, SpawnMonitor, MonitorStep, Probe, AwaitExit, Drain, Release,
          Setsid, ExitOnTerm, Exit, Die, Stop, KillAllTerm, KillAllStep, KillAllWake,
          KillSurvivor, KillAllEnd, Free
<1>2. PICK r \in Requests : DeclareActive(r)
  BY <1>1 DEF AnnounceStarting, ReportError, ReportInactive, Broadcast, TypeInv, TypeOK
<1>3. monitor[r] = "probe" /\ Mine(r).host = h
  BY <1>2 DEF DeclareActive, Broadcast, TypeInv, TypeOK
<1>4. Exists(r) /\ start[r] \in Registered
  BY <1>3 DEF AliveInv, TypeInv, TableInv, Registered
<1>5. slot[r] \in ActiveSlots(h) /\ tunnels[slot[r]].proc = r
  BY <1>3, <1>4, ExistsActive DEF ActiveSlots, Mine
<1> QED
  BY <1>4, <1>5

\* With start calls one at a time "active" is broadcast for a host only while the
\* table has an active entry of it whose child has not been reaped.
THEOREM ActiveIsAliveHolds ==
  ASSUME SerialStarts
  PROVE  Spec => ActiveIsAlive
<1>1. Init => TypeInv /\ SerialInv /\ AliveInv
  BY InitTypes, InitSerial DEF Init, AliveInv
<1>2. TypeInv /\ SerialInv /\ AliveInv /\ [Next]_vars => (TypeInv /\ SerialInv /\ AliveInv)'
  BY TypeStep, SerialStep, AliveStep
<1>3. TypeInv /\ SerialInv /\ AliveInv /\ [Next]_vars
        => [\A h \in Hosts : AnnouncesLive(h)]_vars
  BY ActiveStep
<1> QED
  BY <1>1, <1>2, <1>3, PTL DEF Spec, ActiveIsAlive, AnnouncesLive

-----------------------------------------------------------------------------
(* The table implements TunnelRegistry                                     *)

\* What the refinement mapping sees of the table.
TunnelView ==
  \A h \in Hosts :
    /\ \A s \in Slots : tunnels[s].active /\ tunnels[s].host = h
         => TunnelOf(h) = tunnels[s].proc
    /\ (\A s \in Slots : ~(tunnels[s].active /\ tunnels[s].host = h))
         => TunnelOf(h) = None

\* Under the strengthening the open tunnel of a host is its one active entry.
LEMMA ViewOfInvariant == TypeInv /\ SerialInv => TunnelView
<1> SUFFICES ASSUME TypeInv, SerialInv, NEW h \in Hosts
             PROVE  /\ \A s \in Slots : tunnels[s].active /\ tunnels[s].host = h
                         => TunnelOf(h) = tunnels[s].proc
                    /\ (\A s \in Slots : ~(tunnels[s].active /\ tunnels[s].host = h))
                         => TunnelOf(h) = None
  BY DEF TunnelView
<1>1. \A s \in Slots : tunnels[s].active /\ tunnels[s].host = h
        => TunnelOf(h) = tunnels[s].proc
  <2> SUFFICES ASSUME NEW s \in Slots, tunnels[s].active, tunnels[s].host = h
               PROVE  TunnelOf(h) = tunnels[s].proc
    OBVIOUS
  <2>1. ActiveSlots(h) # {}
    <3>1. s \in 1..numTunnels
      BY DEF TypeInv, TypeOK, TableInv, Slots
    <3> QED
      BY <3>1 DEF ActiveSlots
  <2>2. First(ActiveSlots(h)) = s
    BY <2>1, FirstActive DEF SerialInv, OneEntryPerHost
  <2> QED
    BY <2>1, <2>2 DEF TunnelOf
<1>2. (\A s \in Slots : ~(tunnels[s].active /\ tunnels[s].host = h)) => TunnelOf(h) = None
  <2>1. \A s \in 1..numTunnels : s \in Slots
    BY ConstantsAssumption DEF TypeInv, TypeOK, Slots
  <2> QED
    BY <2>1 DEF TunnelOf, ActiveSlots
<1> QED
  BY <1>1, <1>2

\* The mapped variables, under names of their own.
openTunnels == [h \in Hosts |-> TunnelOf(h)]
spentCalls == {r \in Requests : start[r] \in Registered}
isClosing == (killer # "idle")

\* A step that neither opens nor closes an entry is invisible.
LEMMA Invisible ==
  ASSUME TunnelView, TunnelView',
         \A s \in Slots : /\ tunnels'[s].active = tunnels[s].active
                          /\ tunnels'[s].proc = tunnels[s].proc
                          /\ tunnels'[s].host = tunnels[s].host
  PROVE  openTunnels' = openTunnels
<1>1. ASSUME NEW h \in Hosts PROVE TunnelOf(h)' = TunnelOf(h)
  <2>1. CASE \E s \in Slots : tunnels[s].active /\ tunnels[s].host = h
    BY <2>1 DEF TunnelView
  <2>2. CASE \A s \in Slots : ~(tunnels[s].active /\ tunnels[s].host = h)
    BY <2>2 DEF TunnelView
  <2> QED
    BY <2>1, <2>2
<1> QED
  BY <1>1 DEF openTunnels

\* Marking an entry inactive closes the tunnel of its host, or closes nothing.
LEMMA Deactivate ==
  ASSUME TypeInv, SerialInv, TunnelView, TunnelView', NEW s \in Slots,
         tunnels' = [tunnels EXCEPT ![s].active = FALSE],
         spentCalls' = spentCalls, isClosing' = isClosing
  PROVE  Registry!Next \/ UNCHANGED <<openTunnels, spentCalls, isClosing>>
<1>1. /\ tunnels \in [Slots -> Entry]
      /\ \A t \in Slots : /\ tunnels'[t].proc = tunnels[t].proc
                          /\ tunnels'[t].host = tunnels[t].host
                          /\ t # s => tunnels'[t] = tunnels[t]
      /\ ~tunnels'[s].active
  BY DEF TypeInv, TypeOK, Entry
<1>2. CASE ~tunnels[s].active
  <2>1. \A t \in Slots : /\ tunnels'[t].active = tunnels[t].active
                         /\ tunnels'[t].proc = tunnels[t].proc
                         /\ tunnels'[t].host = tunnels[t].host
    BY <1>1, <1>2 DEF Entry
  <2> QED
    BY <2>1, Invisible
<1>3. CASE tunnels[s].active
  <2>0. tunnels[s].host \in Hosts /\ tunnels[s].proc \in Requests
    <3>1. /\ start[tunnels[s].proc] \in Registered /\ slot[tunnels[s].proc] = s
          /\ tunnels[s].proc \in Requests
      BY <1>3 DEF TypeInv, TableInv, SerialInv, EntryOwned
    <3> QED
      BY <3>1 DEF TypeInv, TableInv, Mine
  <2>1. PICK h \in Hosts : h = tunnels[s].host
    BY <2>0
  <2>2. TunnelOf(h) # None
    BY <1>3, <2>0, <2>1, ConstantsAssumption DEF TunnelView
  <2>3. TunnelOf(h)' = None
    BY <1>1, <1>3, <2>1 DEF TunnelView, SerialInv, OneEntryPerHost
  <2>4. ASSUME NEW g \in Hosts, g # h PROVE TunnelOf(g)' = TunnelOf(g)
    <3>1. CASE \E t \in Slots : tunnels[t].active /\ tunnels[t].host = g
      <4>1. PICK t \in Slots : tunnels[t].active /\ tunnels[t].host = g
        BY <3>1
      <4>2. t # s
        BY <2>1, <2>4, <4>1
      <4>3. tunnels'[t] = tunnels[t]
        BY <1>1, <4>2
      <4>4. TunnelOf(g) = tunnels[t].proc
        BY <4>1 DEF TunnelView
      <4>5. tunnels'[t].active /\ tunnels'[t].host = g
        BY <4>1, <4>3
      <4>6. TunnelOf(g)' = tunnels'[t].proc
        BY <4>5 DEF TunnelView
      <4> QED
        BY <4>3, <4>4, <4>6
    <3>2. CASE \A t \in Slots : ~(tunnels[t].active /\ tunnels[t].host = g)
      BY <1>1, <2>4, <3>2 DEF TunnelView
    <3> QED
      BY <3>1, <3>2
  <2>5. openTunnels' = [openTunnels EXCEPT ![h] = None]
    BY <2>3, <2>4 DEF openTunnels
  <2>6. openTunnels[h] # None
    BY <2>2 DEF openTunnels
  <2>7. Registry!Close(h)
    BY <2>5, <2>6 DEF Registry!Close, openTunnels, spentCalls, isClosing
  <2> QED
    BY <2>7 DEF Registry!Next
<1> QED
  BY <1>2, <1>3

\* Every step of the table is a step of the registry or invisible to it.
LEMMA RegistryStep ==
  ASSUME TypeInv, SerialInv, TunnelView, TunnelView', [Next]_vars
  PROVE  Registry!Next \/ UNCHANGED <<openTunnels, spentCalls, isClosing>>
<1> USE DEF tableVars, startVars, procVars, monVars, killVars
<1> DEFINE Hidden == UNCHANGED <<openTunnels, spentCalls, isClosing>>
<1>1. ASSUME UNCHANGED tunnels, spentCalls' = spentCalls, isClosing' = isClosing
      PROVE  Hidden
  BY <1>1, Invisible
<1>2. ASSUME UNCHANGED vars PROVE Hidden
  BY <1>1, <1>2 DEF vars, spentCalls, isClosing
<1>3. ASSUME NEW r \in Requests, NEW h \in Hosts, RefuseStart(r, h) \/ ReserveSlot(r, h)
      PROVE  Hidden
  <2>1. spentCalls' = spentCalls
    BY <1>3 DEF RefuseStart, ReserveSlot, CanStart, spentCalls, Registered, TypeInv, TypeOK
  <2> QED
    BY <1>1, <1>3, <2>1 DEF RefuseStart, ReserveSlot, isClosing
<1>4. ASSUME NEW r \in Requests, StartStep(r), ~Register(r)
      PROVE  Hidden
  <2>1. spentCalls' = spentCalls
    BY <1>4 DEF StartStep, OpenPipe, Fork, ForkFails, AnnounceStarting, SpawnMonitor,
                spentCalls, Registered, TypeInv, TypeOK
  <2> QED
    BY <1>1, <1>4, <2>1 DEF StartStep, OpenPipe, Fork, ForkFails, AnnounceStarting,
                            SpawnMonitor, isClosing
<1>5. ASSUME NEW r \in Requests, Register(r)
      PROVE  Registry!Next
  <2>1. PICK h \in Hosts : h = target[r]
    BY <1>5, ConstantsAssumption DEF Register, TypeInv, TableInv
  <2>2. /\ start[r] = "forked" /\ slot[r] \in Slots /\ tunnels \in [Slots -> Entry]
        /\ ~Pending(r) => FALSE
    BY <1>5, ConstantsAssumption DEF Register, Pending, TypeInv, TypeOK, TableInv, Slots
  <2>3. killer = "idle" /\ killer' = "idle"
    BY <1>5, <2>2 DEF Register, SerialInv, NoneWhileClosing
  <2>4. /\ ~tunnels[slot[r]].active
        /\ \A s \in Slots : tunnels[s].active => tunnels[s].host # h
    BY <2>1, <2>2 DEF SerialInv, ReservedFree, InFlight, Mine
  <2>5. /\ tunnels'[slot[r]].active /\ tunnels'[slot[r]].host = h
        /\ tunnels'[slot[r]].proc = r
        /\ \A s \in Slots : s # slot[r] => tunnels'[s] = tunnels[s]
    BY <1>5, <2>1, <2>2 DEF Register
  <2>6. TunnelOf(h) = None /\ TunnelOf(h)' = r
    BY <2>2, <2>4, <2>5 DEF TunnelView
  <2>7. ASSUME NEW g \in Hosts, g # h PROVE TunnelOf(g)' = TunnelOf(g)
    <3>1. CASE \E t \in Slots : tunnels[t].active /\ tunnels[t].host = g
      BY <2>4, <2>5, <2>7, <3>1 DEF TunnelView
    <3>2. CASE \A t \in Slots : ~(tunnels[t].active /\ tunnels[t].host = g)
      BY <2>4, <2>5, <2>7, <3>2 DEF TunnelView
    <3> QED
      BY <3>1, <3>2
  <2>8. openTunnels[h] = None /\ openTunnels' = [openTunnels EXCEPT ![h] = r]
    BY <2>6, <2>7 DEF openTunnels
  <2>9. r \notin spentCalls /\ spentCalls' = spentCalls \cup {r}
    BY <1>5, <2>2 DEF Register, spentCalls, Registered, TypeInv, TypeOK
  <2>10. Registry!Open(h, r)
    BY <2>3, <2>8, <2>9 DEF Registry!Open, openTunnels, spentCalls
  <2> QED
    BY <2>10 DEF Registry!Next
<1>6. ASSUME NEW r \in Requests, MonitorStep(r)
      PROVE  Registry!Next \/ Hidden
  <2>1. spentCalls' = spentCalls /\ isClosing' = isClosing
    BY <1>6 DEF MonitorStep, Probe, DeclareActive, AwaitExit, Drain, Release, ReportError,
                ReportInactive, spentCalls, isClosing
  <2>2. slot[r] \in Slots /\ tunnels \in [Slots -> Entry]
    BY <1>6, ConstantsAssumption
       DEF MonitorStep, Probe, DeclareActive, AwaitExit, Drain, Release, ReportError,
           ReportInactive, TypeInv, TypeOK, TableInv, Registered, Slots
  <2>3. CASE Drain(r)
    <3>1. \A s \in Slots : /\ tunnels'[s].active = tunnels[s].active
                           /\ tunnels'[s].proc = tunnels[s].proc
                           /\ tunnels'[s].host = tunnels[s].host
      BY <2>2, <2>3 DEF Drain, Entry
    <3> QED
      BY <2>1, <3>1, Invisible
  <2>4. CASE Release(r)
    BY <2>1, <2>2, <2>4, Deactivate DEF Release
  <2>5. CASE ~Drain(r) /\ ~Release(r)
    BY <1>1, <1>6, <2>1, <2>5
       DEF MonitorStep, Probe, DeclareActive, AwaitExit, ReportError, ReportInactive
  <2> QED
    BY <2>3, <2>4, <2>5
<1>7. ASSUME NEW r \in Requests, NEW code \in {"ok", "fail"},
             Setsid(r) \/ ExitOnTerm(r) \/ Exit(r, code)
      PROVE  Hidden
  BY <1>1, <1>7 DEF Setsid, ExitOnTerm, Exit, Die, spentCalls, isClosing
<1>8. ASSUME NEW h \in Hosts, Stop(h) PROVE Hidden
  BY <1>1, <1>8 DEF Stop, spentCalls, isClosing
<1>9. ASSUME KillAllTerm PROVE Registry!Next
  <2>1. UNCHANGED tunnels /\ spentCalls' = spentCalls /\ isClosing' = TRUE
    BY <1>9 DEF KillAllTerm, spentCalls, isClosing
  <2>2. openTunnels' = openTunnels
    BY <2>1, Invisible
  <2>3. Registry!ShutDown
    BY <2>1, <2>2 DEF Registry!ShutDown, openTunnels, spentCalls, isClosing
  <2> QED
    BY <2>3 DEF Registry!Next
<1>10. ASSUME KillAllStep PROVE Registry!Next \/ Hidden
  <2>1. spentCalls' = spentCalls /\ isClosing' = isClosing
    BY <1>10 DEF KillAllStep, KillAllWake, KillSurvivor, KillAllEnd, Free, spentCalls, isClosing
  <2>2. CASE UNCHANGED tunnels
    BY <1>1, <2>1, <2>2
  <2>3. ASSUME NEW s \in Slots, KillSurvivor(s) PROVE Registry!Next \/ Hidden
    BY <2>1, <2>2, <2>3, Deactivate DEF KillSurvivor
  <2> QED
    BY <1>10, <2>2, <2>3 DEF KillAllStep, KillAllWake, KillAllEnd, Free
<1> QED
  BY <1>2, <1>3, <1>4, <1>5, <1>6, <1>7, <1>8, <1>9, <1>10 DEF Next, Exited

\* The empty table is the registry with no open tunnel.
LEMMA RegistryInit == Init => Registry!Init
BY ConstantsAssumption
   DEF Init, Registry!Init, TunnelOf, ActiveSlots, Registered, Slots, EmptyEntry

\* With start calls one at a time the slot table, its threads and its
\* processes implement the registry: a host has one tunnel at most, and a
\* closing application opens none.
THEOREM Refinement ==
  ASSUME SerialStarts
  PROVE  Spec => ImplementsRegistry
<1>1. Init => TypeInv /\ SerialInv
  BY InitTypes, InitSerial
<1>2. TypeInv /\ SerialInv /\ [Next]_vars => (TypeInv /\ SerialInv)'
  BY TypeStep, SerialStep
<1>3. TypeInv /\ SerialInv => TunnelView
  BY ViewOfInvariant
<1>4. TypeInv /\ SerialInv /\ TunnelView /\ TunnelView' /\ [Next]_vars
        => [Registry!Next]_<<[h \in Hosts |-> TunnelOf(h)],
                             {r \in Requests : start[r] \in Registered},
                             (killer # "idle")>>
  BY RegistryStep DEF openTunnels, spentCalls, isClosing
<1>5. Init => Registry!Init
  BY RegistryInit
<1> QED
  BY <1>1, <1>2, <1>3, <1>4, <1>5, PTL DEF Spec, ImplementsRegistry, Registry!Spec
============================================================================
