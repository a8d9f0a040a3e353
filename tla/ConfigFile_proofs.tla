------------------------- MODULE ConfigFile_proofs -------------------------
(***************************************************************************)
(* ~/.ssh/config and the hosts in memory, proved for all files, hosts and  *)
(* limits, and for any number of changes and restarts: the file can be     *)
(* recovered; a host fits its arrays; what is written is read back as far  *)
(* as the format carries it; so memory and file agree, and a host that was *)
(* posted is there after a restart.  Reading and merging are folds: the    *)
(* facts about folds are taken for each of the two operators.              *)
(***************************************************************************)
EXTENDS ConfigFile, Facts, FiniteSetTheorems

Reading == INSTANCE FoldFacts WITH Op <- ReadLine
Merging == INSTANCE FoldFacts WITH Op <- MergeOption

-----------------------------------------------------------------------------
(* The file and its copy                                                   *)

\* The first start has one complete file, or none.
LEMMA InitWhere == Init => WhereInv
  BY DEF Init, WhereInv

\* A change touches neither file.
LEMMA ChangeWhere ==
  ASSUME NEW newHosts, WhereInv, Change(newHosts)
  PROVE  WhereInv'
  BY DEF WhereInv, Change, fileVars

\* Each step of a save, a load and a crash keep WhereInv.
LEMMA NextWhere ==
  ASSUME WhereInv, [Next]_vars
  PROVE  WhereInv'
<1>1. CASE UseLocal \/ UseLocalCut
  BY <1>1 DEF WhereInv, UseLocal, UseLocalCut, fileVars
<1>2. ASSUME NEW j, SaveHost(j)
      PROVE  WhereInv'
  BY <1>2, ChangeWhere DEF SaveHost
<1>3. ASSUME NEW n, DeleteHost(n)
      PROVE  WhereInv'
  BY <1>3, ChangeWhere DEF DeleteHost
<1>4. CASE Backup
  BY <1>4 DEF WhereInv, Backup
<1>5. CASE Copy
  BY <1>5 DEF WhereInv, Copy, histVars
<1>6. CASE CopyCut
  BY <1>6 DEF WhereInv, CopyCut
<1>7. CASE Open
  BY <1>7 DEF WhereInv, Open, histVars
<1>8. CASE Write
  BY <1>8 DEF WhereInv, Write
<1>9. CASE WriteCut
  BY <1>9 DEF WhereInv, WriteCut
<1>10. CASE SyncFails
  BY <1>10 DEF WhereInv, SyncFails, fileVars
<1>11. CASE Restart
  <2>1. at' = "idle"
    BY <1>11 DEF Restart
  <2>2. CASE at = "copying"
    BY <1>11, <2>2 DEF WhereInv, Restart
  <2>3. CASE at = "writing"
    BY <1>11, <2>3 DEF WhereInv, Restart
  <2>4. CASE at \notin {"copying", "writing"}
    BY <1>11, <2>4 DEF WhereInv, Restart
  <2>5. QED
    BY <2>2, <2>3, <2>4
<1>12. CASE UNCHANGED vars
  BY <1>12 DEF WhereInv, vars, fileVars, histVars
<1>13. QED
  BY <1>1, <1>2, <1>3, <1>4, <1>5, <1>6, <1>7, <1>8, <1>9, <1>10, <1>11, <1>12 DEF Next

\* Whenever the application ends, between two steps of ssh_hosts_write_config or
\* in the middle of one, the last complete contents of ~/.ssh/config are in the
\* file or in its copy, unless the file was replaced with no complete copy of it.
THEOREM RecoverableHolds == Spec => []Recoverable
<1>1. WhereInv => Recoverable
  BY DEF WhereInv, Recoverable
<1>2. QED
  BY InitWhere, NextWhere, <1>1, PTL DEF Spec

-----------------------------------------------------------------------------
(* Reading keeps the types                                                 *)

\* A line that is read into a host, by its keyword.
LEMMA LineKinds ==
  ASSUME KeysAssumption, NEW line \in Lines, line # Skipped, Key(line) # "Host"
  PROVE  /\ line = <<Key(line), Value(line)>>
         /\ \/ Key(line) = "HostName" /\ Value(line) \in Words
            \/ Key(line) \in TextKeys /\ Value(line) \in Words
            \/ Key(line) = "Port" /\ Value(line) \in Int
            \/ Key(line) \in ForwardKeys /\ Value(line) \in Spellings
            \/ line \in OptionLines /\ Key(line) \in OptionKeys
  BY DEF Lines, Key, Value, OptionLines

\* A host by its parts.
HostOf(name, hostname, port, text, forwards, options) ==
  [name |-> name, hostname |-> hostname, port |-> port, text |-> text,
   forwards |-> forwards, options |-> options]

\* What the arrays of a host may hold.
ForwardsFit(f) ==
  f \in [ForwardKeys -> Seq(RuleSet)] /\ \A k \in ForwardKeys : Len(f[k]) <= MaxForwards
OptionsFit(o) == o \in Seq(OptionLines) /\ Len(o) <= MaxOptions

\* The parts of a host.
LEMMA HostParts ==
  ASSUME NEW h \in HostSet
  PROVE  /\ h = HostOf(h.name, h.hostname, h.port, h.text, h.forwards, h.options)
         /\ h.name \in HostNames /\ h.hostname \in Words /\ h.port \in Int
         /\ h.text \in [TextKeys -> Words] /\ ForwardsFit(h.forwards) /\ OptionsFit(h.options)
<1>1. h \in [name : HostNames, hostname : Words, port : Int, text : [TextKeys -> Words],
             forwards : [ForwardKeys -> Seq(RuleSet)], options : Seq(OptionLines)]
  BY DEF HostSet
<1>2. h = HostOf(h.name, h.hostname, h.port, h.text, h.forwards, h.options)
  BY <1>1 DEF HostOf
<1>3. ForwardsFit(h.forwards) /\ OptionsFit(h.options)
  BY DEF HostSet, ForwardsFit, OptionsFit
<1> QED
  BY <1>1, <1>2, <1>3

\* A host from its parts.
LEMMA HostIsBuilt ==
  ASSUME NEW n \in HostNames, NEW a \in Words, NEW p \in Int, NEW t \in [TextKeys -> Words],
         NEW f, ForwardsFit(f), NEW o, OptionsFit(o)
  PROVE  HostOf(n, a, p, t, f, o) \in HostSet
  BY DEF HostOf, HostSet, ForwardsFit, OptionsFit

\* process_kv, by the keyword.
LEMMA ProcessHostName ==
  ASSUME KeysAssumption, NEW n, NEW a, NEW p, NEW t, NEW f, NEW o, NEW line,
         Key(line) = "HostName"
  PROVE  Process(HostOf(n, a, p, t, f, o), line) = HostOf(n, Value(line), p, t, f, o)
  BY DEF Process, HostOf, KeysAssumption

\* ... User, IdentityFile or ProxyJump: the last value counts.
LEMMA ProcessText ==
  ASSUME KeysAssumption, NEW n, NEW a, NEW p, NEW t, NEW f, NEW o, NEW line,
         Key(line) \in TextKeys
  PROVE  Process(HostOf(n, a, p, t, f, o), line)
           = HostOf(n, a, p, [t EXCEPT ![Key(line)] = Value(line)], f, o)
  BY DEF Process, HostOf, KeysAssumption

\* ... Port: only a valid one counts.
LEMMA ProcessPort ==
  ASSUME KeysAssumption, NEW n, NEW a, NEW p, NEW t, NEW f, NEW o, NEW line,
         Key(line) = "Port"
  PROVE  Process(HostOf(n, a, p, t, f, o), line)
           = HostOf(n, a, IF ValidPort(Value(line)) THEN Value(line) ELSE p, t, f, o)
<1> DEFINE h == HostOf(n, a, p, t, f, o)
<1>1. Process(h, line) = IF ValidPort(Value(line)) THEN [h EXCEPT !.port = Value(line)] ELSE h
  BY DEF Process, KeysAssumption
<1> QED
  BY <1>1 DEF HostOf

\* ... a forward: only one that is understood, while there is room.
LEMMA ProcessForward ==
  ASSUME KeysAssumption, NEW n, NEW a, NEW p, NEW t, NEW f, NEW o, NEW line,
         Key(line) \in ForwardKeys
  PROVE  Process(HostOf(n, a, p, t, f, o), line)
           = IF Len(f[Key(line)]) < MaxForwards /\ AcceptsForward(Key(line), Value(line))
               THEN HostOf(n, a, p, t,
                           [f EXCEPT ![Key(line)] = Append(@, ForwardRule(Value(line)))], o)
               ELSE HostOf(n, a, p, t, f, o)
  BY DEF Process, HostOf, KeysAssumption

\* ... any other: while there is room.
LEMMA ProcessOption ==
  ASSUME KeysAssumption, NEW n, NEW a, NEW p, NEW t, NEW f, NEW o, NEW line,
         Key(line) \in OptionKeys
  PROVE  Process(HostOf(n, a, p, t, f, o), line)
           = IF Len(o) < MaxOptions THEN HostOf(n, a, p, t, f, Append(o, line))
                                    ELSE HostOf(n, a, p, t, f, o)
<1> DEFINE h == HostOf(n, a, p, t, f, o)
<1>1. Key(line) \notin {"HostName", "Port"} \cup TextKeys \cup ForwardKeys
  BY DEF OptionKeys
<1>2. Process(h, line) =
        IF Len(h.options) < MaxOptions THEN [h EXCEPT !.options = Append(@, line)] ELSE h
  <2> HIDE DEF h
  <2> QED
    BY <1>1 DEF Process
<1> QED
  BY <1>2 DEF HostOf

\* A rule that was understood has an address.
LEMMA ForwardRuleType ==
  ASSUME NEW f \in Spellings
  PROVE  ForwardRule(f) \in RuleSet
<1>1. f.bind \in Words /\ f.port \in Int /\ f.to \in Words
  BY DEF Spellings
<1>2. (IF f.bind = "none" THEN "localhost" ELSE f.bind) \in Words \ {"none"}
  BY <1>1 DEF Words
<1> QED
  BY <1>1, <1>2 DEF ForwardRule, RuleSet

\* process_kv leaves a host that fits its arrays.
LEMMA ProcessType ==
  ASSUME KeysAssumption, LimitsAssumption,
         NEW h \in HostSet, NEW line \in Lines, line # Skipped, Key(line) # "Host"
  PROVE  Process(h, line) \in HostSet
<1> DEFINE n == h.name
           a == h.hostname
           p == h.port
           t == h.text
           f == h.forwards
           o == h.options
           key == Key(line)
           value == Value(line)
<1>0. /\ h = HostOf(n, a, p, t, f, o)
      /\ n \in HostNames /\ a \in Words /\ p \in Int /\ t \in [TextKeys -> Words]
      /\ ForwardsFit(f) /\ OptionsFit(o)
  BY HostParts
<1> HIDE DEF n, a, p, t, f, o, key, value
<1>1. CASE key = "HostName" /\ value \in Words
  <2>1. Process(h, line) = HostOf(n, value, p, t, f, o)
    BY <1>0, <1>1, ProcessHostName DEF key, value
  <2> QED
    BY <1>0, <1>1, <2>1, HostIsBuilt
<1>2. CASE key \in TextKeys /\ value \in Words
  <2> DEFINE more == [t EXCEPT ![key] = value]
  <2>1. Process(HostOf(n, a, p, t, f, o), line) = HostOf(n, a, p, more, f, o)
    <3>1. Key(line) \in TextKeys
      BY <1>2 DEF key
    <3> QED
      BY <3>1, ProcessText DEF key, value
  <2>2. more \in [TextKeys -> Words]
    BY <1>0, <1>2
  <2> HIDE DEF more
  <2> QED
    BY <1>0, <2>1, <2>2, HostIsBuilt
<1>3. CASE key = "Port" /\ value \in Int
  <2> DEFINE port == IF ValidPort(value) THEN value ELSE p
  <2>1. Process(h, line) = HostOf(n, a, port, t, f, o)
    BY <1>0, <1>3, ProcessPort DEF key, value
  <2>2. port \in Int
    BY <1>0, <1>3
  <2> HIDE DEF port
  <2> QED
    BY <1>0, <2>1, <2>2, HostIsBuilt
<1>4. CASE key \in ForwardKeys /\ value \in Spellings
  <2> DEFINE more == [f EXCEPT ![key] = Append(f[key], ForwardRule(value))]
  <2>1. Process(h, line) = IF Len(f[key]) < MaxForwards /\ AcceptsForward(key, value)
                             THEN HostOf(n, a, p, t, more, o) ELSE h
    BY <1>0, <1>4, ProcessForward DEF key, value
  <2>2. f[key] \in Seq(RuleSet) /\ Len(f[key]) \in Nat
    BY <1>0, <1>4, LenProperties DEF ForwardsFit
  <2>3. /\ Append(f[key], ForwardRule(value)) \in Seq(RuleSet)
        /\ Len(Append(f[key], ForwardRule(value))) = Len(f[key]) + 1
    BY <1>4, <2>2, ForwardRuleType, AppendProperties
  <2>4. Len(f[key]) < MaxForwards => ForwardsFit(more)
    BY <1>0, <1>4, <2>2, <2>3 DEF ForwardsFit, LimitsAssumption
  <2> HIDE DEF more
  <2>5. Len(f[key]) < MaxForwards => HostOf(n, a, p, t, more, o) \in HostSet
    BY <1>0, <2>4, HostIsBuilt
  <2> QED
    BY <2>1, <2>5
<1>5. CASE line \in OptionLines /\ key \in OptionKeys
  <2>1. Process(h, line) =
          IF Len(o) < MaxOptions THEN HostOf(n, a, p, t, f, Append(o, line)) ELSE h
    BY <1>0, <1>5, ProcessOption DEF key, value
  <2>2. o \in Seq(OptionLines) /\ Len(o) \in Nat
    BY <1>0, LenProperties DEF OptionsFit
  <2>3. Append(o, line) \in Seq(OptionLines) /\ Len(Append(o, line)) = Len(o) + 1
    BY <1>5, <2>2, AppendProperties
  <2>4. Len(o) < MaxOptions => OptionsFit(Append(o, line))
    BY <2>2, <2>3 DEF OptionsFit, LimitsAssumption
  <2>5. Len(o) < MaxOptions => HostOf(n, a, p, t, f, Append(o, line)) \in HostSet
    BY <1>0, <2>4, HostIsBuilt
  <2> QED
    BY <2>1, <2>5
<1> QED
  BY <1>1, <1>2, <1>3, <1>4, <1>5, LineKinds DEF key, value

\* The generic options a host takes over still fit.
LEMMA MergeType ==
  ASSUME LimitsAssumption,
         NEW own \in Seq(OptionLines), Len(own) <= MaxOptions, NEW global \in Seq(OptionLines)
  PROVE  /\ FoldLeft(MergeOption, own, global) \in Seq(OptionLines)
         /\ Len(FoldLeft(MergeOption, own, global)) <= MaxOptions
<1> DEFINE A == {o \in Seq(OptionLines) : Len(o) <= MaxOptions}
<1>1. Merging!Closed(A, OptionLines)
  <2> SUFFICES ASSUME NEW o \in A, NEW line \in OptionLines PROVE MergeOption(o, line) \in A
    BY DEF Merging!Closed
  <2>1. /\ Append(o, line) \in Seq(OptionLines) /\ Len(Append(o, line)) = Len(o) + 1
        /\ Len(o) \in Nat
    BY AppendProperties, LenProperties
  <2> QED
    BY <2>1 DEF MergeOption, LimitsAssumption
<1>2. Merging!Fold(own, global) \in A
  <2>1. own \in A
    OBVIOUS
  <2> HIDE DEF A
  <2> QED
    BY <1>1, <2>1, Merging!FoldType
<1>3. FoldLeft(MergeOption, own, global) = Merging!Fold(own, global)
  BY DEF FoldLeft, MapThenFoldSet, Max, Merging!Fold, Merging!FoldLeft, Merging!MapThenFoldSet, Merging!Max
<1> QED
  BY <1>2, <1>3

\* apply_defaults leaves a host that fits its arrays.
LEMMA InheritType ==
  ASSUME LimitsAssumption, NEW h \in HostSet, NEW d \in HostSet
  PROVE  Inherit(h, d) \in HostSet
<1> DEFINE merged == FoldLeft(MergeOption, h.options, d.options)
<1>1. merged \in Seq(OptionLines) /\ Len(merged) <= MaxOptions
  BY MergeType DEF HostSet
<1>2. Inherit(h, d) =
        HostOf(h.name, IF h.hostname = Unset THEN d.hostname ELSE h.hostname,
               IF h.port = 0 THEN d.port ELSE h.port,
               [k \in TextKeys |-> IF h.text[k] = Unset THEN d.text[k] ELSE h.text[k]],
               h.forwards, merged)
  <2>1. h = HostOf(h.name, h.hostname, h.port, h.text, h.forwards, h.options)
    BY HostParts
  <2> HIDE DEF merged
  <2>2. Inherit(h, d) = [h EXCEPT
     !.hostname = IF @ = Unset THEN d.hostname ELSE @,
     !.port = IF @ = 0 THEN d.port ELSE @,
     !.text = [k \in TextKeys |-> IF @[k] = Unset THEN d.text[k] ELSE @[k]],
     !.options = merged]
    BY DEF Inherit, merged
  <2> QED
    BY <2>1, <2>2 DEF HostOf
<1>3. [k \in TextKeys |-> IF h.text[k] = Unset THEN d.text[k] ELSE h.text[k]] \in [TextKeys -> Words]
  <2>1. h.text \in [TextKeys -> Words] /\ d.text \in [TextKeys -> Words]
    BY HostParts
  <2> QED
    BY <2>1
<1>4. /\ h.name \in HostNames /\ (IF h.hostname = Unset THEN d.hostname ELSE h.hostname) \in Words
      /\ (IF h.port = 0 THEN d.port ELSE h.port) \in Int
      /\ ForwardsFit(h.forwards) /\ OptionsFit(merged)
  <2>1. h.hostname \in Words /\ d.hostname \in Words /\ h.port \in Int /\ d.port \in Int
    BY HostParts
  <2>2. h.name \in HostNames /\ ForwardsFit(h.forwards)
    BY HostParts
  <2>3. OptionsFit(merged)
    BY <1>1 DEF OptionsFit
  <2> QED
    BY <2>1, <2>2, <2>3
<1> HIDE DEF merged
<1> QED
  BY <1>2, <1>3, <1>4, HostIsBuilt

\* The states parse_ssh_config can be in between two lines.
ReaderSet ==
  {r \in [hosts : Seq(HostSet), defaults : HostSet, at : {"defaults", "skip", "host"}] :
     r.at = "host" => r.hosts # <<>>}

\* A new host has room for everything.
LEMMA NewHostType ==
  ASSUME LimitsAssumption, NEW name \in HostNames
  PROVE  NewHost(name) \in HostSet /\ NoDefaults \in HostSet
<1>1. <<>> \in Seq(RuleSet) /\ <<>> \in Seq(OptionLines) /\ Len(<<>>) = 0
  BY EmptySeq
<1> DEFINE t == [k \in TextKeys |-> Unset]
           f == [k \in ForwardKeys |-> <<>>]
<1>2. /\ t \in [TextKeys -> Words] /\ ForwardsFit(f) /\ OptionsFit(<<>>)
      /\ DefaultPort \in Int /\ Unset \in Words
  BY <1>1 DEF ForwardsFit, OptionsFit, LimitsAssumption, Words, DefaultPort
<1>5. name \in Words /\ "*" \in HostNames
  BY DEF HostNames, Words, Unset
<1>3. \A n : NewHost(n) = HostOf(n, n, DefaultPort, t, f, <<>>)
  BY DEF NewHost, HostOf
<1> HIDE DEF t, f
<1>4. NoDefaults = HostOf("*", Unset, 0, t, f, <<>>)
  <2>1. NewHost("*") = HostOf("*", "*", DefaultPort, t, f, <<>>)
    BY <1>3
  <2>2. [NewHost("*") EXCEPT !.hostname = Unset] = HostOf("*", Unset, DefaultPort, t, f, <<>>)
    BY <2>1 DEF HostOf
  <2>3. [HostOf("*", Unset, DefaultPort, t, f, <<>>) EXCEPT !.port = 0]
          = HostOf("*", Unset, 0, t, f, <<>>)
    BY DEF HostOf
  <2>4. NoDefaults = [[NewHost("*") EXCEPT !.hostname = Unset] EXCEPT !.port = 0]
    BY DEF NoDefaults
  <2> QED
    BY <2>2, <2>3, <2>4
<1> QED
  BY <1>2, <1>3, <1>4, <1>5, HostIsBuilt

\* The global directives before any was read are those of a host.
LEMMA NoDefaultsType ==
  ASSUME LimitsAssumption
  PROVE  NoDefaults \in HostSet
<1>1. "*" \in HostNames
  BY DEF HostNames, Words, Unset
<1> QED
  BY <1>1, NewHostType

\* The last host, changed to another one.
LEMMA LastType ==
  ASSUME NEW r \in ReaderSet, r.at = "host", NEW h \in HostSet
  PROVE  [r EXCEPT !.hosts[Len(r.hosts)] = h] \in ReaderSet
<1>1. r.hosts \in Seq(HostSet) /\ Len(r.hosts) \in 1..Len(r.hosts)
  BY EmptySeq DEF ReaderSet
<1>2. /\ [r.hosts EXCEPT ![Len(r.hosts)] = h] \in Seq(HostSet)
      /\ Len([r.hosts EXCEPT ![Len(r.hosts)] = h]) = Len(r.hosts)
  BY <1>1, ExceptSeq
<1>3. [r.hosts EXCEPT ![Len(r.hosts)] = h] # <<>>
  BY <1>1, <1>2
<1> HIDE DEF HostSet
<1> QED
  BY <1>2, <1>3 DEF ReaderSet

\* The last host is one.
LEMMA LastIsHost ==
  ASSUME NEW r \in ReaderSet, r.at = "host"
  PROVE  r.hosts[Len(r.hosts)] \in HostSet
<1>1. r.hosts \in Seq(HostSet) /\ Len(r.hosts) \in 1..Len(r.hosts)
  BY EmptySeq DEF ReaderSet
<1> QED
  BY <1>1, ElementOfSeq

\* Finishing the last host keeps the reader a reader.
LEMMA FinishType ==
  ASSUME LimitsAssumption, NEW r \in ReaderSet
  PROVE  Finish(r) \in ReaderSet
<1>1. CASE r.at = "host"
  <2>1. Inherit(r.hosts[Len(r.hosts)], r.defaults) \in HostSet
    BY <1>1, LastIsHost, InheritType DEF ReaderSet
  <2>2. Finish(r) = [r EXCEPT !.hosts[Len(r.hosts)] = Inherit(r.hosts[Len(r.hosts)], r.defaults)]
    BY <1>1 DEF Finish, ReaderSet
  <2> QED
    BY <1>1, <2>1, <2>2, LastType
<1>2. CASE r.at # "host"
  BY <1>2 DEF Finish
<1> QED
  BY <1>1, <1>2

\* One turn of the loop.
LEMMA ReadLineType ==
  ASSUME LimitsAssumption, KeysAssumption, NEW r \in ReaderSet, NEW line \in Lines
  PROVE  ReadLine(r, line) \in ReaderSet
<1>1. CASE line = Skipped
  <2>1. Key(line) # "Host"
    BY <1>1 DEF Key, Skipped
  <2> QED
    BY <1>1, <2>1 DEF ReadLine
<1>2. CASE line # Skipped /\ Key(line) = "Host"
  <2>1. Value(line) \in HostNames
    BY <1>2 DEF Lines, Key, Value, OptionLines, OptionKeys, KeysAssumption
  <2>2. Finish(r) \in ReaderSet
    BY FinishType
  <2>3. CASE HasWildcard(Value(line))
    <3>1. ReadLine(r, line) = [Finish(r) EXCEPT !.at = "skip"]
      BY <1>2, <2>3 DEF ReadLine
    <3> QED
      BY <2>2, <3>1 DEF ReaderSet
  <2>4. CASE ~HasWildcard(Value(line))
    <3>1. ReadLine(r, line) =
            [Finish(r) EXCEPT !.hosts = Append(@, NewHost(Value(line))), !.at = "host"]
      BY <1>2, <2>4 DEF ReadLine
    <3>2. NewHost(Value(line)) \in HostSet
      BY <2>1, NewHostType
    <3>3. /\ Append(Finish(r).hosts, NewHost(Value(line))) \in Seq(HostSet)
          /\ Append(Finish(r).hosts, NewHost(Value(line))) # <<>>
      <4>1. Finish(r).hosts \in Seq(HostSet) /\ Len(Finish(r).hosts) \in Nat
        BY <2>2, LenProperties DEF ReaderSet
      <4>2. Len(Append(Finish(r).hosts, NewHost(Value(line)))) = Len(Finish(r).hosts) + 1
        BY <3>2, <4>1, AppendProperties
      <4> QED
        BY <3>2, <4>1, <4>2, AppendProperties, EmptySeq
    <3> HIDE DEF NewHost
    <3> QED
      BY <2>2, <3>1, <3>3 DEF ReaderSet
  <2> QED
    BY <2>3, <2>4
<1>3. CASE line # Skipped /\ Key(line) # "Host"
  <2>1. CASE r.at = "skip"
    BY <1>3, <2>1 DEF ReadLine
  <2>2. CASE r.at = "defaults"
    <3>1. ReadLine(r, line) = [r EXCEPT !.defaults = Process(@, line)]
      BY <1>3, <2>2 DEF ReadLine
    <3>2. Process(r.defaults, line) \in HostSet
      BY <1>3, ProcessType DEF ReaderSet
    <3> QED
      BY <2>2, <3>1, <3>2 DEF ReaderSet
  <2>3. CASE r.at = "host"
    <3>1. ReadLine(r, line) =
            [r EXCEPT !.hosts[Len(r.hosts)] = Process(r.hosts[Len(r.hosts)], line)]
      BY <1>3, <2>3 DEF ReadLine, ReaderSet
    <3>2. Process(r.hosts[Len(r.hosts)], line) \in HostSet
      BY <1>3, <2>3, ProcessType, LastIsHost
    <3> QED
      BY <2>3, <3>1, <3>2, LastType
  <2> QED
    BY <2>1, <2>2, <2>3 DEF ReaderSet
<1> QED
  BY <1>1, <1>2, <1>3

\* ... for the facts about folds.
LEMMA ReadingClosed ==
  ASSUME LimitsAssumption, KeysAssumption
  PROVE  Reading!Closed(ReaderSet, Lines)
  BY ReadLineType DEF Reading!Closed

\* The reader before the first line.
LEMMA ReaderStartType ==
  ASSUME LimitsAssumption
  PROVE  ReaderStart \in ReaderSet
<1>1. NoDefaults \in HostSet /\ <<>> \in Seq(HostSet)
  BY NoDefaultsType, EmptySeq
<1> QED
  BY <1>1 DEF ReaderStart, ReaderSet

\* The reader's fold, as the facts about folds name it.
LEMMA ParseFold ==
  ASSUME NEW file
  PROVE  Parse(file) = Finish(Reading!Fold(ReaderStart, file)).hosts
<1>1. FoldLeft(ReadLine, ReaderStart, file) = Reading!Fold(ReaderStart, file)
  BY DEF FoldLeft, MapThenFoldSet, Max, Reading!Fold, Reading!FoldLeft, Reading!MapThenFoldSet, Reading!Max
<1> QED
  BY <1>1 DEF Parse

\* parse_ssh_config returns hosts that fit their arrays.
LEMMA ParseType ==
  ASSUME LimitsAssumption, KeysAssumption, NEW file \in Seq(Lines)
  PROVE  Parse(file) \in Seq(HostSet)
<1>1. Reading!Fold(ReaderStart, file) \in ReaderSet
  BY ReadingClosed, ReaderStartType, Reading!FoldType
<1>2. Finish(Reading!Fold(ReaderStart, file)) \in ReaderSet
  BY <1>1, FinishType
<1> QED
  BY <1>2, ParseFold DEF ReaderSet

-----------------------------------------------------------------------------
(* Sequences of keywords and elements of sequences                         *)

\* The keywords of a kind in some order, each once.
LEMMA KeysInSequence ==
  ASSUME NEW S, IsFiniteSet(S)
  PROVE  /\ SetToSeq(S) \in [1..Cardinality(S) -> S] /\ Cardinality(S) \in Nat
         /\ IsInjective(SetToSeq(S))
         /\ \A x \in S : \E i \in 1..Cardinality(S) : SetToSeq(S)[i] = x
<1> DEFINE D == 1..Cardinality(S)
<1>1. Cardinality(S) \in Nat /\ ExistsBijection(D, S)
  BY FS_CardinalityType
<1>2. \E f \in [D -> S] : IsInjective(f)
  BY <1>1 DEF ExistsBijection, Bijection, Injection
<1>3. SetToSeq(S) \in [D -> S] /\ IsInjective(SetToSeq(S))
  BY <1>2 DEF SetToSeq
<1>4. SetToSeq(S) \in Injection(D, S)
  BY <1>3 DEF Injection
<1>5. IsFiniteSet(D) /\ Cardinality(D) = Cardinality(S)
  BY <1>1, FS_Interval
<1>6. SetToSeq(S) \in Surjection(D, S)
  BY <1>4, <1>5, FS_Injection
<1> QED
  BY <1>1, <1>3, <1>6 DEF Surjection

\* Only, element by element.
OnlySums(seq, positions, E, st) ==
  /\ st \in [0..Len(seq) -> Seq(E)] /\ st[0] = <<>>
  /\ \A i \in 1..Len(seq) : st[i] = IF i \in positions THEN Append(st[i - 1], seq[i]) ELSE st[i - 1]
  /\ \A i \in 0..Len(seq) : Len(st[i]) <= i
  /\ Only(seq, positions) = st[Len(seq)]

\* Only takes the elements one after the other.
LEMMA OnlyTrace ==
  ASSUME NEW E, NEW seq \in Seq(E), NEW positions
  PROVE  \E st : OnlySums(seq, positions, E, st)
<1> DEFINE N == Len(seq)
           seqs == [i \in 1..N |-> IF i \in positions THEN <<seq[i]>> ELSE <<>>]
<1>1. N \in Nat /\ DOMAIN seq = 1..N /\ \A i \in 1..N : seq[i] \in E
  BY LenProperties, ElementOfSeq
<1>2. seqs \in Seq(Seq(E)) /\ Len(seqs) = N /\ Only(seq, positions) = FlattenSeq(seqs)
  <2>1. ASSUME NEW i \in 1..N PROVE (IF i \in positions THEN <<seq[i]>> ELSE <<>>) \in Seq(E)
    BY <1>1
  <2>2. seqs \in Seq(Seq(E))
    BY <1>1, <2>1
  <2>3. Len(seqs) = N
    BY <1>1, <2>2, LenProperties
  <2> QED
    BY <1>1, <2>2, <2>3 DEF Only
<1>3. PICK st : FlattenSums(seqs, E, st)
  <2> HIDE DEF seqs
  <2> QED
    BY <1>2, FlattenTrace
<1>4. ASSUME NEW i \in 1..N
      PROVE  st[i] = IF i \in positions THEN Append(st[i - 1], seq[i]) ELSE st[i - 1]
  <2>1. st[i - 1] \in Seq(E) /\ i - 1 \in 0..N
    BY <1>1, <1>2, <1>3 DEF FlattenSums
  <2>2. st[i] = st[i - 1] \o seqs[i]
    BY <1>2, <1>3 DEF FlattenSums
  <2>3. CASE i \in positions
    <3>1. Append(st[i - 1], seq[i]) = st[i - 1] \o <<seq[i]>>
      BY <1>1, <2>1, AppendIsConcat
    <3> QED
      BY <2>2, <2>3, <3>1
  <2>4. CASE i \notin positions
    <3>1. st[i - 1] \o <<>> = st[i - 1]
      BY <2>1, ConcatEmptySeq
    <3> QED
      BY <2>2, <2>4, <3>1
  <2> QED
    BY <2>3, <2>4
<1>5. st \in [0..N -> Seq(E)] /\ st[0] = <<>> /\ Only(seq, positions) = st[N]
  BY <1>2, <1>3 DEF FlattenSums
<1> HIDE DEF seqs
<1> DEFINE S == {n \in Nat : n <= N => Len(st[n]) <= n}
<1>6. 0 \in S
  BY <1>1, <1>5
<1>7. ASSUME NEW n \in S PROVE n + 1 \in S
  <2> SUFFICES ASSUME n + 1 <= N PROVE Len(st[n + 1]) <= n + 1
    BY <1>1
  <2>1. n \in Nat /\ n <= N /\ n + 1 \in 1..N /\ (n + 1) - 1 = n /\ n \in 0..N
    BY <1>1
  <2>2. Len(st[n]) <= n /\ st[n] \in Seq(E) /\ Len(st[n]) \in Nat
    BY <1>5, <2>1, LenProperties
  <2>3. st[n + 1] = IF n + 1 \in positions THEN Append(st[n], seq[n + 1]) ELSE st[n]
    BY <1>4, <2>1
  <2>4. Len(Append(st[n], seq[n + 1])) = Len(st[n]) + 1
    BY <1>1, <2>1, <2>2, AppendProperties
  <2> QED
    BY <2>1, <2>2, <2>3, <2>4
<1>8. S = Nat
  <2> HIDE DEF N
  <2> QED
    BY <1>6, <1>7, NatSetInduction
<1>9. \A i \in 0..N : Len(st[i]) <= i
  BY <1>1, <1>8
<1>10. OnlySums(seq, positions, E, st)
  BY <1>4, <1>5, <1>9 DEF OnlySums
<1> QED
  BY <1>10

\* What is taken is no longer than the sequence.
LEMMA OnlyType ==
  ASSUME NEW E, NEW seq \in Seq(E), NEW positions
  PROVE  Only(seq, positions) \in Seq(E) /\ Len(Only(seq, positions)) <= Len(seq)
<1>1. PICK st : OnlySums(seq, positions, E, st)
  BY OnlyTrace
<1>2. Len(seq) \in 0..Len(seq)
  BY LenProperties
<1> QED
  BY <1>1, <1>2 DEF OnlySums

-----------------------------------------------------------------------------
(* Writing keeps the types                                                 *)

\* The lines inside of a block.
Body == {line \in Lines : Key(line) # "Host"}

\* Of a keyword at most one line is written.
LEMMA GivenType ==
  ASSUME NEW key, NEW value, <<key, value>> \in Body, NEW omitted
  PROVE  Given(key, value, omitted) \in Seq(Body)
  BY EmptySeq DEF Given

\* The lines of a host, kind by kind.
HostNameLines(h) == Given("HostName", h.hostname, {Unset, h.name})
PortLines(h) == Given("Port", h.port, {0, DefaultPort})
OptionLinesOf(h) == [i \in DOMAIN h.options |-> OptionLine(h.options[i])]
HostLine(h) == << Skipped, <<"Host", h.name>> >>

\* The rules of a keyword are written as one line each.
LEMMA RuleLinesType ==
  ASSUME KeysAssumption, NEW key \in ForwardKeys, NEW rules \in Seq(RuleSet)
  PROVE  /\ RuleLines(key, rules) \in Seq(Body)
         /\ Len(RuleLines(key, rules)) = Len(rules)
<1>1. DOMAIN rules = 1..Len(rules) /\ Len(rules) \in Nat
  BY LenProperties
<1>2. ASSUME NEW i \in 1..Len(rules) PROVE <<key, ForwardText(rules[i])>> \in Body
  <2>1. rules[i] \in RuleSet
    BY ElementOfSeq
  <2>2. ForwardText(rules[i]) \in Spellings
    BY <2>1 DEF RuleSet, ForwardText, Spellings
  <2> QED
    BY <2>2 DEF Body, Lines, Key
<1>3. RuleLines(key, rules) \in [1..Len(rules) -> Body]
  BY <1>1, <1>2 DEF RuleLines
<1> QED
  BY <1>1, <1>3

\* The texts and the rules are written as lines of a block.
LEMMA KeyLinesType ==
  ASSUME KeysAssumption, NEW h \in HostSet
  PROVE  /\ TextLines(h, SetToSeq(TextKeys)) \in Seq(Body)
         /\ ForwardLines(h, SetToSeq(ForwardKeys)) \in Seq(Body)
<1>1. TextLines(h, SetToSeq(TextKeys)) \in Seq(Body)
  <2> DEFINE keys == SetToSeq(TextKeys)
             seqs == [i \in DOMAIN keys |-> Given(keys[i], h.text[keys[i]], {Unset})]
  <2>1. keys \in [1..Cardinality(TextKeys) -> TextKeys] /\ Cardinality(TextKeys) \in Nat
    BY KeysInSequence DEF KeysAssumption
  <2> HIDE DEF keys
  <2>2. ASSUME NEW i \in DOMAIN keys PROVE Given(keys[i], h.text[keys[i]], {Unset}) \in Seq(Body)
    <3>1. keys[i] \in TextKeys /\ h.text \in [TextKeys -> Words]
      BY <2>1, HostParts
    <3>2. <<keys[i], h.text[keys[i]]>> \in Body
      BY <3>1 DEF Body, Lines, Key
    <3> QED
      BY <3>2, GivenType
  <2>3. seqs \in [1..Cardinality(TextKeys) -> Seq(Body)]
    BY <2>1, <2>2
  <2>4. FlattenSeq(seqs) \in Seq(Body)
    <3> HIDE DEF seqs
    <3>1. seqs \in Seq(Seq(Body))
      BY <2>1, <2>3
    <3> QED
      BY <3>1, FlattenType
  <2> QED
    BY <2>4 DEF TextLines, keys
<1>2. ForwardLines(h, SetToSeq(ForwardKeys)) \in Seq(Body)
  <2> DEFINE keys == SetToSeq(ForwardKeys)
             seqs == [i \in DOMAIN keys |-> RuleLines(keys[i], h.forwards[keys[i]])]
  <2>1. keys \in [1..Cardinality(ForwardKeys) -> ForwardKeys] /\ Cardinality(ForwardKeys) \in Nat
    BY KeysInSequence DEF KeysAssumption
  <2> HIDE DEF keys
  <2>2. ASSUME NEW i \in DOMAIN keys PROVE RuleLines(keys[i], h.forwards[keys[i]]) \in Seq(Body)
    <3>1. keys[i] \in ForwardKeys
      BY <2>1
    <3>2. h.forwards[keys[i]] \in Seq(RuleSet)
      <4>1. ForwardsFit(h.forwards)
        BY HostParts
      <4> QED
        BY <3>1, <4>1 DEF ForwardsFit
    <3> QED
      BY <3>1, <3>2, RuleLinesType
  <2>3. seqs \in [1..Cardinality(ForwardKeys) -> Seq(Body)]
    BY <2>1, <2>2
  <2>4. FlattenSeq(seqs) \in Seq(Body)
    <3> HIDE DEF seqs
    <3>1. seqs \in Seq(Seq(Body))
      BY <2>1, <2>3
    <3> QED
      BY <3>1, FlattenType
  <2> QED
    BY <2>4 DEF ForwardLines, keys
<1> QED
  BY <1>1, <1>2

\* The options are written as one line each.
LEMMA OptionLinesType ==
  ASSUME KeysAssumption, NEW h \in HostSet
  PROVE  /\ OptionLinesOf(h) \in Seq(Body)
         /\ Len(OptionLinesOf(h)) = Len(h.options) /\ DOMAIN h.options = 1..Len(h.options)
         /\ Len(h.options) \in Nat /\ \A i \in 1..Len(h.options) : h.options[i] \in OptionLines
<1>1. h.options \in Seq(OptionLines)
  BY HostParts DEF OptionsFit
<1>2. /\ DOMAIN h.options = 1..Len(h.options) /\ Len(h.options) \in Nat
      /\ \A i \in 1..Len(h.options) : h.options[i] \in OptionLines
  BY <1>1, LenProperties, ElementOfSeq
<1>3. ASSUME NEW i \in 1..Len(h.options) PROVE OptionLine(h.options[i]) \in Body
  BY <1>2 DEF OptionLine, Body, Lines, Key, Skipped, OptionLines, OptionKeys
<1>4. OptionLinesOf(h) \in [1..Len(h.options) -> Body]
  BY <1>2, <1>3 DEF OptionLinesOf
<1> QED
  BY <1>2, <1>4

\* Every kind of a host's lines is a sequence of lines.
LEMMA HostLinesType ==
  ASSUME KeysAssumption, NEW h \in HostSet
  PROVE  /\ HostLine(h) \in Seq(Lines) /\ HostNameLines(h) \in Seq(Body) /\ PortLines(h) \in Seq(Body)
         /\ HostLines(h) \in Seq(Lines)
<1>1. h.name \in HostNames /\ h.hostname \in Words /\ h.port \in Int
  BY HostParts
<1>2. HostNameLines(h) \in Seq(Body)
  <2>1. <<"HostName", h.hostname>> \in Body
    BY <1>1 DEF Body, Lines, Key
  <2> QED
    BY <2>1, GivenType DEF HostNameLines
<1>3. PortLines(h) \in Seq(Body)
  <2>1. <<"Port", h.port>> \in Body
    BY <1>1 DEF Body, Lines, Key
  <2> QED
    BY <2>1, GivenType DEF PortLines
<1>4. HostLine(h) \in Seq(Lines)
  <2>1. <<"Host", h.name>> \in Lines /\ Skipped \in Lines
    BY <1>1 DEF Lines
  <2> QED
    BY <2>1 DEF HostLine
<1>5. HostLines(h) = HostLine(h) \o HostNameLines(h) \o PortLines(h)
                       \o TextLines(h, SetToSeq(TextKeys))
                       \o ForwardLines(h, SetToSeq(ForwardKeys))
                       \o OptionLinesOf(h)
  BY DEF HostLines, HostLine, HostNameLines, PortLines, OptionLinesOf
<1>6. HostLines(h) \in Seq(Lines)
  <2>1. \A s \in Seq(Body) : s \in Seq(Lines)
    BY SeqMonotonic DEF Body
  <2>2. /\ HostNameLines(h) \in Seq(Lines) /\ PortLines(h) \in Seq(Lines)
        /\ TextLines(h, SetToSeq(TextKeys)) \in Seq(Lines)
        /\ ForwardLines(h, SetToSeq(ForwardKeys)) \in Seq(Lines) /\ OptionLinesOf(h) \in Seq(Lines)
    BY <1>2, <1>3, <2>1, KeyLinesType, OptionLinesType
  <2> QED
    BY <1>4, <1>5, <2>2, ConcatProperties
<1> QED
  BY <1>2, <1>3, <1>4, <1>6

\* ssh_hosts_write_config writes lines.
LEMMA WrittenType ==
  ASSUME KeysAssumption, NEW hs \in Seq(HostSet)
  PROVE  /\ Written(hs) \in Seq(Lines)
         /\ [i \in DOMAIN hs |-> HostLines(hs[i])] \in Seq(Seq(Lines))
         /\ Len([i \in DOMAIN hs |-> HostLines(hs[i])]) = Len(hs)
<1> DEFINE seqs == [i \in DOMAIN hs |-> HostLines(hs[i])]
<1>1. DOMAIN hs = 1..Len(hs) /\ Len(hs) \in Nat /\ \A i \in 1..Len(hs) : hs[i] \in HostSet
  BY LenProperties, ElementOfSeq
<1>2. \A i \in 1..Len(hs) : HostLines(hs[i]) \in Seq(Lines)
  BY <1>1, HostLinesType
<1>3. seqs \in [1..Len(hs) -> Seq(Lines)]
  BY <1>1, <1>2
<1>4. seqs \in Seq(Seq(Lines)) /\ Len(seqs) = Len(hs)
  <2> HIDE DEF seqs
  <2> QED
    BY <1>1, <1>3
<1>5. FlattenSeq(seqs) \in Seq(Lines)
  <2> HIDE DEF seqs
  <2> QED
    BY <1>4, FlattenType
<1>6. <<Skipped>> \in Seq(Lines)
  <2>1. Skipped \in Lines
    BY DEF Lines
  <2> QED
    BY <2>1
<1>7. Written(hs) \in Seq(Lines)
  BY <1>5, <1>6, ConcatProperties DEF Written
<1> QED
  BY <1>4, <1>7

\* The prefixes of a file are files.
LEMMA PrefixType ==
  ASSUME NEW file \in Seq(Lines), NEW part \in Prefixes(file)
  PROVE  part \in Seq(Lines)
<1>1. PICK l \in 0..Len(file) : part = SubSeq(file, 1, l)
  BY DEF Prefixes
<1>2. Len(file) \in Nat /\ \A i \in 1..Len(file) : file[i] \in Lines
  BY LenProperties, ElementOfSeq
<1>3. \A i \in 1..l : file[i] \in Lines
  BY <1>2
<1> QED
  BY <1>1, <1>2, <1>3, SubSeqProperties

-----------------------------------------------------------------------------
(* Changes keep the types                                                  *)

\* An array of rules that is too long is cut.
LEMMA ClampedType ==
  ASSUME LimitsAssumption, NEW rules \in Seq(RuleSet)
  PROVE  Clamped(rules) \in Seq(RuleSet) /\ Len(Clamped(rules)) <= MaxForwards
<1> DEFINE n == IF Len(rules) > MaxForwards THEN MaxForwards ELSE Len(rules)
<1>1. Len(rules) \in Nat /\ \A i \in 1..Len(rules) : rules[i] \in RuleSet
  BY LenProperties, ElementOfSeq
<1>2. n \in Nat /\ n <= Len(rules) /\ n <= MaxForwards
  BY <1>1 DEF LimitsAssumption
<1>3. \A i \in 1..n : rules[i] \in RuleSet
  BY <1>1, <1>2
<1> HIDE DEF n
<1>4. SubSeq(rules, 1, n) \in Seq(RuleSet) /\ Len(SubSeq(rules, 1, n)) = IF 1 <= n THEN n - 1 + 1 ELSE 0
  BY <1>2, <1>3, SubSeqProperties
<1> QED
  BY <1>2, <1>4 DEF LimitsAssumption, Clamped, n

\* ssh_hosts_from_json returns a host that fits its arrays.
LEMMA FromJsonType ==
  ASSUME LimitsAssumption, NEW j \in JsonSet
  PROVE  FromJson(j) \in HostSet
<1> DEFINE f == [k \in ForwardKeys |-> Clamped(j.forwards[k])]
<1>1. ForwardsFit(f)
  <2>1. ASSUME NEW k \in ForwardKeys
        PROVE  Clamped(j.forwards[k]) \in Seq(RuleSet) /\ Len(Clamped(j.forwards[k])) <= MaxForwards
    <3>1. j.forwards[k] \in Seq(RuleSet)
      BY DEF JsonSet
    <3> QED
      BY <3>1, ClampedType
  <2> QED
    BY <2>1 DEF ForwardsFit
<1>2. OptionsFit(<<>>)
  BY EmptySeq DEF OptionsFit, LimitsAssumption
<1>3. FromJson(j) = HostOf(j.name, j.hostname, j.port, j.text, f, <<>>)
  BY DEF FromJson, HostOf
<1>4. j.name \in HostNames /\ j.hostname \in Words /\ j.port \in Int /\ j.text \in [TextKeys -> Words]
  BY DEF JsonSet
<1> HIDE DEF f
<1> QED
  BY <1>1, <1>2, <1>3, <1>4, HostIsBuilt

\* ssh_hosts_to_json: what the pages get.
LEMMA ToJsonType ==
  ASSUME NEW h \in HostSet
  PROVE  ToJson(h) \in JsonSet
<1>1. /\ h.name \in HostNames /\ h.hostname \in Words /\ h.port \in Int
      /\ h.text \in [TextKeys -> Words] /\ ForwardsFit(h.forwards)
  BY HostParts
<1>2. (IF h.port = 0 THEN DefaultPort ELSE h.port) \in Int
  BY <1>1 DEF DefaultPort
<1>3. h.forwards \in [ForwardKeys -> Seq(RuleSet)]
  BY <1>1 DEF ForwardsFit
<1> QED
  BY <1>1, <1>2, <1>3 DEF ToJson, JsonSet

\* A host the editor is opened on.
LEMMA FormsType ==
  ASSUME LimitsAssumption, FilesAssumption, hosts \in Seq(HostSet), NEW j \in Forms
  PROVE  j \in JsonSet
<1>1. CASE j \in {ToJson(hosts[i]) : i \in {n \in DOMAIN hosts : hosts[n].name \in Names}}
  <2>1. PICK i \in DOMAIN hosts : j = ToJson(hosts[i])
    BY <1>1
  <2>2. hosts[i] \in HostSet
    BY <2>1, LenProperties, ElementOfSeq
  <2> QED
    BY <2>1, <2>2, ToJsonType
<1>2. CASE j \in {[ToJson(NewHost(n)) EXCEPT !.hostname = Unset] : n \in Names}
  <2>1. PICK n \in Names : j = [ToJson(NewHost(n)) EXCEPT !.hostname = Unset]
    BY <1>2
  <2>2. n \in HostNames /\ Unset \in Words
    BY DEF FilesAssumption, Words, HostNames
  <2>3. ToJson(NewHost(n)) \in JsonSet
    BY <2>2, NewHostType, ToJsonType
  <2> HIDE DEF ToJson
  <2> QED
    BY <2>1, <2>2, <2>3 DEF JsonSet
<1> QED
  BY <1>1, <1>2 DEF Forms

\* What the user makes of it.
LEMMA EditedType ==
  ASSUME FilesAssumption, NEW j \in JsonSet, NEW form \in Edited(j)
  PROVE  form \in JsonSet
<1> DEFINE S1 == {[j EXCEPT !.hostname = v] : v \in Texts \cup {Unset}}
           S2 == {[j EXCEPT !.port = p] : p \in Ports}
           S3 == UNION {{[j EXCEPT !.text[k] = v] : v \in Texts \cup {Unset}} : k \in TextKeys}
           S4 == UNION {{[j EXCEPT !.forwards[k] = Append(@, r)] : r \in ForwardRules} : k \in ForwardKeys}
<1>1. form \in S1 \cup S2 \cup S3 \cup S4
  BY Zenon DEF Edited
<1> HIDE DEF S1, S2, S3, S4
<1>2. CASE form \in S1
  <2>1. PICK v \in Texts \cup {Unset} : form = [j EXCEPT !.hostname = v]
    BY <1>2 DEF S1
  <2>2. v \in Words
    BY DEF FilesAssumption, Words, HostNames
  <2> QED
    BY <2>1, <2>2 DEF JsonSet
<1>3. CASE form \in S2
  <2>1. PICK p \in Ports : form = [j EXCEPT !.port = p]
    BY <1>3 DEF S2
  <2> QED
    BY <2>1 DEF JsonSet, FilesAssumption
<1>4. CASE form \in S3
  <2>1. PICK x \in TextKeys, v \in Texts \cup {Unset} : form = [j EXCEPT !.text[x] = v]
    BY <1>4 DEF S3
  <2>2. v \in Words /\ j.text \in [TextKeys -> Words]
    BY DEF JsonSet, FilesAssumption, Words
  <2>3. [j.text EXCEPT ![x] = v] \in [TextKeys -> Words]
    BY <2>2
  <2> QED
    BY <2>1, <2>3 DEF JsonSet
<1>5. CASE form \in S4
  <2>1. PICK x \in ForwardKeys, r \in ForwardRules : form = [j EXCEPT !.forwards[x] = Append(@, r)]
    BY <1>5 DEF S4
  <2>2. r \in RuleSet /\ j.forwards \in [ForwardKeys -> Seq(RuleSet)]
    BY DEF JsonSet, FilesAssumption
  <2>3. Append(j.forwards[x], r) \in Seq(RuleSet)
    BY <2>2, AppendProperties
  <2> DEFINE more == [j.forwards EXCEPT ![x] = Append(j.forwards[x], r)]
  <2>4. more \in [ForwardKeys -> Seq(RuleSet)]
    BY <2>2, <2>3
  <2>5. form = [j EXCEPT !.forwards = more]
    BY <2>1
  <2> HIDE DEF more
  <2> QED
    BY <2>4, <2>5 DEF JsonSet
<1> QED
  BY <1>1, <1>2, <1>3, <1>4, <1>5

\* What the editor posts.
LEMMA CollectedType ==
  ASSUME NEW j \in JsonSet
  PROVE  Collected(j) \in JsonSet
<1> DEFINE f == [k \in ForwardKeys |-> Only(j.forwards[k], {i \in DOMAIN j.forwards[k] : IsComplete(k, j.forwards[k][i])})]
<1>1. f \in [ForwardKeys -> Seq(RuleSet)]
  <2>1. ASSUME NEW k \in ForwardKeys
        PROVE  Only(j.forwards[k], {i \in DOMAIN j.forwards[k] : IsComplete(k, j.forwards[k][i])}) \in Seq(RuleSet)
    <3>1. j.forwards[k] \in Seq(RuleSet)
      BY DEF JsonSet
    <3> QED
      BY <3>1, OnlyType
  <2> QED
    BY <2>1
<1>2. Collected(j) = [j EXCEPT !.forwards = f]
  BY DEF Collected
<1> HIDE DEF f
<1> QED
  BY <1>1, <1>2 DEF JsonSet

\* The least element of a set of positions.
LEMMA MinIs ==
  ASSUME NEW I \in SUBSET Nat, NEW i \in I, \A j \in I : i <= j
  PROVE  Min(I) = i
<1>1. \A x \in I : (\A y \in I : x <= y) => x = i
  <2> SUFFICES ASSUME NEW x \in I, \A y \in I : x <= y PROVE x = i
    OBVIOUS
  <2>1. x \in Nat /\ i \in Nat /\ x <= i /\ i <= x
    OBVIOUS
  <2> QED
    BY <2>1
<1> QED
  BY <1>1 DEF Min

\* Found, spelt out.
LEMMA FoundFirst ==
  ASSUME hosts \in Seq(HostSet), NEW name
  PROVE  /\ Found(name) # 0 =>
              /\ Found(name) \in 1..Len(hosts) /\ hosts[Found(name)].name = name
              /\ \A j \in 1..(Found(name) - 1) : hosts[j].name # name
         /\ Found(name) = 0 => \A j \in 1..Len(hosts) : hosts[j].name # name
<1> DEFINE I == {i \in 1..Len(hosts) : hosts[i].name = name}
<1>1. Found(name) = IF I # {} THEN Min(I) ELSE 0
  BY DEF Found, SelectInSeq
<1>2. Len(hosts) \in Nat
  BY LenProperties
<1>3. CASE I # {}
  <2>1. PICK i \in I : \A j \in I : i <= j
    <3>1. I \in SUBSET Nat
      BY <1>2
    <3> HIDE DEF I
    <3> QED
      BY <1>3, <3>1, LeastExists
  <2>2. Min(I) = i
    <3>1. I \in SUBSET Nat
      BY <1>2
    <3> HIDE DEF I
    <3> QED
      BY <2>1, <3>1, MinIs
  <2>3. Found(name) = i /\ i \in 1..Len(hosts) /\ hosts[i].name = name
    BY <1>1, <1>3, <2>2
  <2>4. \A j \in 1..(i - 1) : hosts[j].name # name
    <3> SUFFICES ASSUME NEW j \in 1..(i - 1), hosts[j].name = name PROVE FALSE
      OBVIOUS
    <3>1. j \in I /\ ~(i <= j)
      BY <1>2, <2>3
    <3> QED
      BY <2>1, <3>1
  <2> QED
    BY <1>2, <2>3, <2>4
<1>4. CASE I = {}
  BY <1>1, <1>4
<1> QED
  BY <1>3, <1>4

-----------------------------------------------------------------------------
(* TypeOK                                                                  *)

\* Each step keeps the file a file and the hosts within their arrays.
LEMMA NextFile ==
  ASSUME LimitsAssumption, KeysAssumption, FilesAssumption, FileInv, [Next]_vars
  PROVE  FileInv'
<1> USE DEF FileInv
<1>1. Contents(config) \in Seq(Lines)
  BY EmptySeq DEF Contents
<1>2. CASE UseLocal
  <2>1. Parse(Contents(config)) \in Seq(HostSet)
    BY <1>1, ParseType
  <2> QED
    BY <1>2, <2>1 DEF UseLocal, fileVars
<1>13. CASE UseLocalCut
  <2>1. PICK lines \in Cut(Contents(config)) : hosts' = Parse(lines)
    BY <1>13 DEF UseLocalCut
  <2>2. lines \in Seq(Lines)
    BY <1>1, <2>1, PrefixType DEF Cut
  <2>3. Parse(lines) \in Seq(HostSet)
    BY <2>2, ParseType
  <2> QED
    BY <1>13, <2>1, <2>3 DEF UseLocalCut, fileVars
<1>3. ASSUME NEW new \in Seq(HostSet), Change(new)
      PROVE  FileInv'
  BY <1>3 DEF Change, fileVars, FilesAssumption
<1>4. ASSUME NEW j \in JsonSet, SaveHost(j)
      PROVE  FileInv'
  <2>1. FromJson(j) \in HostSet
    BY <1>4, FromJsonType
  <2>2. Append(hosts, FromJson(j)) \in Seq(HostSet)
    BY <2>1, AppendProperties
  <2>3. Found(j.name) # 0 => ReplaceAt(hosts, Found(j.name), FromJson(j)) \in Seq(HostSet)
    BY <2>1, FoundFirst, ExceptSeq DEF ReplaceAt
  <2> DEFINE new == IF Found(j.name) = 0 THEN Append(hosts, FromJson(j))
                    ELSE ReplaceAt(hosts, Found(j.name), FromJson(j))
  <2>4. new \in Seq(HostSet)
    BY <2>2, <2>3
  <2>5. Change(new)
    BY <1>4 DEF SaveHost
  <2> QED
    BY <1>3, <2>4, <2>5
<1>5. ASSUME NEW name, DeleteHost(name)
      PROVE  FileInv'
  <2>1. Found(name) \in 1..Len(hosts) /\ Len(hosts) \in Nat
    BY <1>5, FoundFirst, LenProperties DEF DeleteHost
  <2>2. \A i \in 1..Len(hosts) : hosts[i] \in HostSet
    BY ElementOfSeq
  <2>3. /\ Found(name) - 1 \in Int /\ Found(name) + 1 \in Int /\ Len(hosts) \in Int
        /\ \A i \in 1..(Found(name) - 1) : hosts[i] \in HostSet
        /\ \A i \in (Found(name) + 1)..Len(hosts) : hosts[i] \in HostSet
    BY <2>1, <2>2
  <2>4. SubSeq(hosts, 1, Found(name) - 1) \in Seq(HostSet)
    BY <2>3, SubSeqProperties
  <2>5. SubSeq(hosts, Found(name) + 1, Len(hosts)) \in Seq(HostSet)
    BY <2>3, SubSeqProperties
  <2>6. RemoveAt(hosts, Found(name)) \in Seq(HostSet)
    BY <2>4, <2>5, ConcatProperties DEF RemoveAt
  <2> QED
    BY <1>3, <1>5, <2>6 DEF DeleteHost
<1>12. ASSUME NEW j \in Forms, NEW k \in Edited(j), SaveHost(Collected(k))
       PROVE  FileInv'
  <2>1. Collected(k) \in JsonSet
    BY FormsType, EditedType, CollectedType
  <2> QED
    BY <1>4, <1>12, <2>1
<1>6. CASE Backup \/ Copy \/ CopyCut \/ SyncFails
  BY <1>6 DEF Backup, Copy, CopyCut, SyncFails, fileVars
<1>7. CASE Open
  BY <1>7, EmptySeq DEF Open
<1>8. CASE Write
  BY <1>8, WrittenType DEF Write
<1>9. CASE WriteCut
  BY <1>9, WrittenType, PrefixType DEF WriteCut, Cut
<1>10. CASE Restart
  <2>1. hosts' = <<>> /\ edits' = edits
    BY <1>10 DEF Restart
  <2>2. config' \in Seq(Lines) \cup {None}
    BY <1>10, WrittenType, PrefixType DEF Restart
  <2> QED
    BY <2>1, <2>2, EmptySeq
<1>11. CASE UNCHANGED vars
  BY <1>11 DEF vars, fileVars
<1> QED
  BY <1>2, <1>5, <1>6, <1>7, <1>8, <1>9, <1>10, <1>11, <1>12, <1>13 DEF Next

\* The rest of TypeOK.
StepsInv ==
  /\ mode \in {"first_run", "local"}
  /\ at \in {"idle", "sync", "copying", "copied", "writing"}
  /\ spoilt \in BOOLEAN /\ unsynced \in BOOLEAN /\ unread \in BOOLEAN /\ cut \in BOOLEAN

\* Each step keeps the rest of TypeOK.
LEMMA NextSteps ==
  ASSUME StepsInv, [Next]_vars
  PROVE  StepsInv'
<1> USE DEF StepsInv
<1>1. CASE UseLocal \/ UseLocalCut
  BY <1>1 DEF UseLocal, UseLocalCut
<1>2. ASSUME NEW new, Change(new)
      PROVE  StepsInv'
  BY <1>2 DEF Change
<1>3. ASSUME NEW j, NEW n, SaveHost(j) \/ DeleteHost(n)
      PROVE  StepsInv'
  BY <1>2, <1>3 DEF SaveHost, DeleteHost
<1>4. CASE Backup
  BY <1>4 DEF Backup
<1>5. CASE Copy \/ CopyCut \/ Open \/ SyncFails
  BY <1>5 DEF Copy, CopyCut, Open, SyncFails, histVars
<1>6. CASE Write \/ WriteCut
  BY <1>6 DEF Write, WriteCut
<1>7. CASE Restart
  BY <1>7 DEF Restart
<1>8. CASE UNCHANGED vars
  BY <1>8 DEF vars, histVars
<1> QED
  BY <1>1, <1>3, <1>4, <1>5, <1>6, <1>7, <1>8 DEF Next

\* The first start has a file, or none, and no hosts.
LEMMA InitFile ==
  ASSUME FilesAssumption, Init
  PROVE  FileInv /\ StepsInv
<1>1. StepsInv
  BY DEF Init, StepsInv
<1>2. config \in Seq(Lines) \cup {None} /\ edits \in 0..MaxEdits
  BY DEF FilesAssumption, Init
<1>3. hosts \in Seq(HostSet)
  BY EmptySeq DEF Init
<1> QED
  BY <1>1, <1>2, <1>3 DEF FileInv

\* Whatever ~/.ssh/config says, whatever the pages post and wherever a save is
\* cut, a host in memory never has more forwards or options than its arrays have
\* room for: process_kv, apply_defaults and ssh_hosts_from_json keep the limits.
THEOREM TypeCorrect == Spec => []TypeOK
<1>1. FileInv /\ StepsInv => TypeOK
  <2> SUFFICES ASSUME FileInv, StepsInv PROVE TypeOK
    OBVIOUS
  <2>1. ASSUME NEW i \in DOMAIN hosts PROVE hosts[i] \in HostSet
    BY LenProperties, ElementOfSeq DEF FileInv
  <2>2. ASSUME NEW h \in HostSet
        PROVE  /\ \A k \in ForwardKeys : Len(h.forwards[k]) <= MaxForwards
               /\ Len(h.options) <= MaxOptions
    BY DEF HostSet
  <2> QED
    BY <2>1, <2>2 DEF TypeOK, FileInv, StepsInv
<1>2. QED
  BY <1>1, InitFile, NextFile, NextSteps, LimitsAssumption, KeysAssumption, FilesAssumption, PTL DEF Spec

-----------------------------------------------------------------------------
(* Reading the lines of a host                                             *)

\* The reader inside the block of a host that no global directive is above.
InHost(done, h) == [hosts |-> Append(done, h), defaults |-> NoDefaults, at |-> "host"]

\* A reader inside of a block is a reader.
LEMMA InHostType ==
  ASSUME LimitsAssumption, NEW done \in Seq(HostSet), NEW h \in HostSet
  PROVE  InHost(done, h) \in ReaderSet
<1>1. Append(done, h) \in Seq(HostSet) /\ Len(Append(done, h)) = Len(done) + 1 /\ Len(done) \in Nat
  BY AppendProperties, LenProperties
<1>2. Append(done, h) # <<>>
  BY <1>1, EmptySeq
<1>3. NoDefaults \in HostSet
  BY NoDefaultsType
<1> HIDE DEF HostSet
<1> QED
  BY <1>1, <1>2, <1>3 DEF InHost, ReaderSet

\* A directive is the host's, a skipped line nobody's.
LEMMA ReadInHost ==
  ASSUME NEW done \in Seq(HostSet), NEW h \in HostSet, NEW line \in Body,
         Process(h, line) \in HostSet
  PROVE  ReadLine(InHost(done, h), line) = IF line = Skipped THEN InHost(done, h)
                                           ELSE InHost(done, Process(h, line))
<1> DEFINE r == InHost(done, h)
           n == Len(done) + 1
           h2 == Process(h, line)
<1>1. CASE line = Skipped
  BY <1>1 DEF ReadLine, Body
<1>2. CASE line # Skipped
  <2>1. ReadLine(r, line) = [r EXCEPT !.hosts[Len(r.hosts)] = Process(r.hosts[Len(r.hosts)], line)]
    BY <1>2 DEF ReadLine, Body, InHost
  <2>2. /\ r.hosts = Append(done, h) /\ Len(Append(done, h)) = n /\ Append(done, h)[n] = h
        /\ Append(done, h) \in Seq(HostSet) /\ n \in 1..n
    BY AppendProperties, LenProperties DEF InHost
  <2>3. [Append(done, h) EXCEPT ![n] = h2] = Append(done, h2)
    <3> HIDE DEF h2
    <3>1. h2 \in HostSet
      BY DEF h2
    <3>2. /\ [Append(done, h) EXCEPT ![n] = h2] \in Seq(HostSet)
          /\ Len([Append(done, h) EXCEPT ![n] = h2]) = n
          /\ \A j \in 1..n : [Append(done, h) EXCEPT ![n] = h2][j] = IF j = n THEN h2 ELSE Append(done, h)[j]
      <4> DEFINE s == Append(done, h)
      <4>1. s \in Seq(HostSet) /\ Len(s) = n /\ n \in 1..Len(s)
        BY <2>2
      <4> HIDE DEF s, n
      <4>2. /\ [s EXCEPT ![n] = h2] \in Seq(HostSet)
            /\ Len([s EXCEPT ![n] = h2]) = Len(s)
            /\ \A j \in 1..Len(s) : [s EXCEPT ![n] = h2][j] = IF j = n THEN h2 ELSE s[j]
        BY <3>1, <4>1, ExceptSeq
      <4> QED
        BY <4>1, <4>2 DEF s
    <3>3. /\ Append(done, h2) \in Seq(HostSet) /\ Len(Append(done, h2)) = n
          /\ \A j \in 1..n : Append(done, h2)[j] = IF j = n THEN h2 ELSE Append(done, h)[j]
      BY <3>1, AppendProperties, LenProperties
    <3> QED
      BY <3>2, <3>3, SeqEqual
  <2>4. ReadLine(r, line) = [r EXCEPT !.hosts = [Append(done, h) EXCEPT ![n] = h2]]
    BY <2>1, <2>2
  <2> HIDE DEF h2, n
  <2>5. ReadLine(r, line) = [r EXCEPT !.hosts = Append(done, h2)]
    BY <2>3, <2>4
  <2> QED
    BY <1>2, <2>5 DEF InHost, h2
<1> QED
  BY <1>1, <1>2

\* A fold over one line.
LEMMA ReadOne ==
  ASSUME LimitsAssumption, KeysAssumption, NEW r \in ReaderSet, NEW line \in Lines
  PROVE  Reading!Fold(r, <<line>>) = ReadLine(r, line)
<1>1. <<>> \in Seq(Lines) /\ Append(<<>>, line) = <<line>>
  OBVIOUS
<1>2. Reading!Fold(r, Append(<<>>, line)) = ReadLine(Reading!Fold(r, <<>>), line)
  <2>1. Reading!Closed(ReaderSet, Lines)
    BY ReadingClosed
  <2>2. \A s \in Seq(Lines) : Reading!Fold(r, Append(s, line)) = ReadLine(Reading!Fold(r, s), line)
    BY <2>1, Reading!FoldAppend
  <2> QED
    BY <1>1, <2>2
<1>3. Reading!Fold(r, <<>>) = r
  BY Reading!FoldEmpty
<1> QED
  BY <1>1, <1>2, <1>3

\* A fold over the line of a keyword, if there is one.
LEMMA ReadGiven ==
  ASSUME LimitsAssumption, KeysAssumption, NEW r \in ReaderSet, NEW key, NEW value,
         <<key, value>> \in Lines, NEW omitted
  PROVE  Reading!Fold(r, Given(key, value, omitted))
           = IF value \in omitted THEN r ELSE ReadLine(r, <<key, value>>)
<1>1. CASE value \in omitted
  BY <1>1, Reading!FoldEmpty DEF Given
<1>2. CASE value \notin omitted
  BY <1>2, ReadOne DEF Given
<1> QED
  BY <1>1, <1>2

\* With no global directive a host is finished as it is.
LEMMA InheritNothing ==
  ASSUME NEW h \in HostSet
  PROVE  Inherit(h, NoDefaults) = h
<1> DEFINE merged == FoldLeft(MergeOption, h.options, <<>>)
<1>1. merged = h.options
  <2>1. merged = Merging!Fold(h.options, <<>>)
    BY DEF FoldLeft, MapThenFoldSet, Max, Merging!Fold, Merging!FoldLeft, Merging!MapThenFoldSet, Merging!Max
  <2> QED
    BY <2>1, Merging!FoldEmpty
<1>2. /\ NoDefaults.hostname = Unset /\ NoDefaults.port = 0 /\ NoDefaults.options = <<>>
      /\ \A k \in TextKeys : NoDefaults.text[k] = Unset
  BY DEF NoDefaults, NewHost
<1>3. Inherit(h, NoDefaults) = [h EXCEPT
     !.hostname = IF @ = Unset THEN NoDefaults.hostname ELSE @,
     !.port = IF @ = 0 THEN NoDefaults.port ELSE @,
     !.text = [k \in TextKeys |-> IF @[k] = Unset THEN NoDefaults.text[k] ELSE @[k]],
     !.options = merged]
  BY <1>2 DEF Inherit
<1> HIDE DEF merged
<1>4. h.text \in [TextKeys -> Words]
  BY HostParts
<1>5. [k \in TextKeys |-> IF h.text[k] = Unset THEN NoDefaults.text[k] ELSE h.text[k]] = h.text
  BY <1>2, <1>4
<1>6. h = HostOf(h.name, h.hostname, h.port, h.text, h.forwards, h.options)
  BY HostParts
<1>7. Inherit(h, NoDefaults) = [h EXCEPT !.hostname = h.hostname, !.port = h.port,
                                         !.text = h.text, !.options = h.options]
  BY <1>1, <1>2, <1>3, <1>5
<1> QED
  BY <1>6, <1>7 DEF HostOf

\* ... and so is the reader.
LEMMA FinishNothing ==
  ASSUME NEW r \in ReaderSet, r.defaults = NoDefaults
  PROVE  Finish(r) = r
<1>1. CASE r.at = "host"
  <2>1. Finish(r) = [r EXCEPT !.hosts[Len(r.hosts)] = Inherit(r.hosts[Len(r.hosts)], r.defaults)]
    BY <1>1 DEF Finish, ReaderSet
  <2>2. Inherit(r.hosts[Len(r.hosts)], r.defaults) = r.hosts[Len(r.hosts)]
    BY <1>1, LastIsHost, InheritNothing
  <2>3. r.hosts \in Seq(HostSet) /\ Len(r.hosts) \in 1..Len(r.hosts)
    BY <1>1, EmptySeq DEF ReaderSet
  <2>4. [r.hosts EXCEPT ![Len(r.hosts)] = r.hosts[Len(r.hosts)]] = r.hosts
    BY <2>3
  <2>5. Finish(r) = [r EXCEPT !.hosts = r.hosts]
    BY <2>1, <2>2, <2>4
  <2> QED
    BY <2>5 DEF ReaderSet
<1>2. CASE r.at # "host"
  BY <1>2 DEF Finish
<1> QED
  BY <1>1, <1>2

-----------------------------------------------------------------------------
(* The lines of a host, kind by kind                                       *)

\* HostName.
LEMMA ReadHostName ==
  ASSUME LimitsAssumption, KeysAssumption, NEW done \in Seq(HostSet), NEW h \in HostSet,
         NEW p \in Int, NEW t \in [TextKeys -> Words], NEW f, ForwardsFit(f), NEW o, OptionsFit(o)
  PROVE  Reading!Fold(InHost(done, HostOf(h.name, h.name, p, t, f, o)), HostNameLines(h))
           = InHost(done, HostOf(h.name, IF h.hostname = Unset THEN h.name ELSE h.hostname, p, t, f, o))
<1> DEFINE h1 == HostOf(h.name, h.name, p, t, f, o)
           line == <<"HostName", h.hostname>>
<1>0. h.name \in HostNames /\ h.name \in Words /\ h.hostname \in Words
  BY HostParts DEF HostNames
<1>1. h1 \in HostSet /\ HostOf(h.name, h.hostname, p, t, f, o) \in HostSet
  BY <1>0, HostIsBuilt
<1>2. line \in Body /\ line \in Lines /\ line # Skipped /\ Key(line) = "HostName" /\ Value(line) = h.hostname
  BY <1>0 DEF Body, Lines, Key, Value, Skipped
<1> HIDE DEF line
<1>3. Process(h1, line) = HostOf(h.name, h.hostname, p, t, f, o)
  BY <1>2, ProcessHostName
<1> HIDE DEF h1
<1>4. ReadLine(InHost(done, h1), line) = InHost(done, HostOf(h.name, h.hostname, p, t, f, o))
  BY <1>1, <1>2, <1>3, ReadInHost
<1>5. InHost(done, h1) \in ReaderSet
  BY <1>1, InHostType
<1>6. Reading!Fold(InHost(done, h1), HostNameLines(h))
        = IF h.hostname \in {Unset, h.name} THEN InHost(done, h1) ELSE ReadLine(InHost(done, h1), line)
  BY <1>2, <1>5, ReadGiven DEF HostNameLines, line
<1> QED
  BY <1>4, <1>6 DEF h1

\* Port.
LEMMA ReadPort ==
  ASSUME LimitsAssumption, KeysAssumption, NEW done \in Seq(HostSet), NEW h \in HostSet,
         NEW n \in HostNames, NEW a \in Words,
         NEW t \in [TextKeys -> Words], NEW f, ForwardsFit(f), NEW o, OptionsFit(o)
  PROVE  Reading!Fold(InHost(done, HostOf(n, a, DefaultPort, t, f, o)), PortLines(h))
           = InHost(done, HostOf(n, a, IF ValidPort(h.port) THEN h.port ELSE DefaultPort, t, f, o))
<1> DEFINE h1 == HostOf(n, a, DefaultPort, t, f, o)
           line == <<"Port", h.port>>
           port == IF ValidPort(h.port) THEN h.port ELSE DefaultPort
<1>0. h.port \in Int /\ port \in Int /\ DefaultPort \in Int
  BY HostParts DEF DefaultPort
<1>1. h1 \in HostSet /\ HostOf(n, a, port, t, f, o) \in HostSet
  <2> HIDE DEF port
  <2> QED
    BY <1>0, HostIsBuilt
<1>2. line \in Body /\ line \in Lines /\ line # Skipped /\ Key(line) = "Port" /\ Value(line) = h.port
  BY <1>0 DEF Body, Lines, Key, Value, Skipped
<1>3. h.port \in {0, DefaultPort} => port = DefaultPort
  BY DEF ValidPort
<1> HIDE DEF line
<1>4. Process(h1, line) = HostOf(n, a, port, t, f, o)
  BY <1>2, ProcessPort
<1> HIDE DEF h1, port
<1>5. ReadLine(InHost(done, h1), line) = InHost(done, HostOf(n, a, port, t, f, o))
  BY <1>1, <1>2, <1>4, ReadInHost
<1>6. InHost(done, h1) \in ReaderSet
  BY <1>1, InHostType
<1>7. Reading!Fold(InHost(done, h1), PortLines(h))
        = IF h.port \in {0, DefaultPort} THEN InHost(done, h1) ELSE ReadLine(InHost(done, h1), line)
  BY <1>2, <1>6, ReadGiven DEF PortLines, line
<1> QED
  BY <1>3, <1>5, <1>7 DEF h1, port

\* Pieces are read one after the other.
LEMMA ReadPieces ==
  ASSUME LimitsAssumption, KeysAssumption, NEW base \in ReaderSet, NEW seqs \in Seq(Seq(Lines)),
         NEW st, Reading!FoldPieces(ReaderSet, base, seqs, st)
  PROVE  Reading!Fold(base, FlattenSeq(seqs)) = st[Len(seqs)]
<1>1. Reading!Closed(ReaderSet, Lines)
  BY ReadingClosed
<1>2. Reading!Fold(base, Reading!FlattenSeq(seqs)) = st[Len(seqs)]
  BY <1>1, Reading!FoldFlatten
<1>3. Reading!FlattenSeq(seqs) = FlattenSeq(seqs)
  BY DEF FlattenSeq, Reading!FlattenSeq
<1> QED
  BY <1>2, <1>3

\* The keywords among the first of a sequence.
Among(keys, i) == {keys[j] : j \in 1..i}

\* One more keyword.
LEMMA AmongGrows ==
  ASSUME NEW keys, NEW i \in Nat \ {0}
  PROVE  Among(keys, i) = Among(keys, i - 1) \cup {keys[i]}
<1>1. 1..i = (1..(i - 1)) \cup {i}
  OBVIOUS
<1> QED
  BY <1>1 DEF Among

\* None at first, all in the end.
LEMMA AmongAll ==
  ASSUME NEW S, IsFiniteSet(S)
  PROVE  /\ Among(SetToSeq(S), 0) = {} /\ Among(SetToSeq(S), Cardinality(S)) = S
<1>1. /\ SetToSeq(S) \in [1..Cardinality(S) -> S]
      /\ \A x \in S : \E i \in 1..Cardinality(S) : SetToSeq(S)[i] = x
  BY KeysInSequence
<1> QED
  BY <1>1 DEF Among

\* A host without texts, without rules.
NoText == [k \in TextKeys |-> Unset]
NoForwards == [k \in ForwardKeys |-> <<>>]

\* User, IdentityFile, ProxyJump.
LEMMA ReadTexts ==
  ASSUME LimitsAssumption, KeysAssumption, NEW done \in Seq(HostSet), NEW h \in HostSet,
         NEW n \in HostNames, NEW a \in Words, NEW p \in Int,
         NEW f, ForwardsFit(f), NEW o, OptionsFit(o)
  PROVE  Reading!Fold(InHost(done, HostOf(n, a, p, NoText, f, o)),
                      TextLines(h, SetToSeq(TextKeys)))
           = InHost(done, HostOf(n, a, p, h.text, f, o))
<1> DEFINE keys == SetToSeq(TextKeys)
           N == Cardinality(TextKeys)
           seqs == [i \in DOMAIN keys |-> Given(keys[i], h.text[keys[i]], {Unset})]
           T(i) == [k \in TextKeys |-> IF k \in Among(keys, i) THEN h.text[k] ELSE Unset]
           st == [i \in 0..N |-> InHost(done, HostOf(n, a, p, T(i), f, o))]
<1>1. keys \in [1..N -> TextKeys] /\ N \in Nat /\ h.text \in [TextKeys -> Words]
  BY KeysInSequence, HostParts DEF KeysAssumption
<1>2. Among(keys, 0) = {} /\ Among(keys, N) = TextKeys
  BY AmongAll DEF KeysAssumption
<1> HIDE DEF keys, N
<1>3. \A i \in 0..N : T(i) \in [TextKeys -> Words]
  BY <1>1 DEF Words
<1>4. \A i \in 0..N : HostOf(n, a, p, T(i), f, o) \in HostSet
  <2> HIDE DEF T
  <2> QED
    BY <1>3, HostIsBuilt
<1>5. st \in [0..N -> ReaderSet]
  BY <1>4, InHostType
<1>6. ASSUME NEW i \in 1..N PROVE <<keys[i], h.text[keys[i]]>> \in Body
  BY <1>1 DEF Body, Lines, Key, KeysAssumption
<1>7. seqs \in Seq(Seq(Lines)) /\ Len(seqs) = N
  <2>1. \A s \in Seq(Body) : s \in Seq(Lines)
    BY SeqMonotonic DEF Body
  <2>2. \A i \in 1..N : Given(keys[i], h.text[keys[i]], {Unset}) \in Seq(Lines)
    BY <1>6, <2>1, GivenType
  <2>3. seqs \in [1..N -> Seq(Lines)]
    BY <1>1, <2>2
  <2> HIDE DEF seqs
  <2> QED
    BY <1>1, <2>3
<1>8. ASSUME NEW i \in 1..N PROVE st[i] = Reading!Fold(st[i - 1], seqs[i])
  <2> DEFINE key == keys[i]
             line == <<key, h.text[key]>>
             host == HostOf(n, a, p, T(i - 1), f, o)
  <2>0. i \in 0..N /\ i - 1 \in 0..N /\ i \in Nat \ {0}
    BY <1>1
  <2>1. key \in TextKeys /\ key # "Host" /\ line # Skipped /\ line \in Lines /\ line \in Body
        /\ Key(line) = key /\ Value(line) = h.text[key]
    BY <1>1, <1>6 DEF Body, Key, Value, Skipped, KeysAssumption
  <2>2. T(i) = [T(i - 1) EXCEPT ![key] = h.text[key]]
    <3>1. Among(keys, i) = Among(keys, i - 1) \cup {key}
      BY <2>0, AmongGrows
    <3> QED
      BY <1>1, <2>1, <3>1
  <2>3. h.text[key] = Unset => T(i) = T(i - 1)
    BY <2>1, <2>2
  <2>4. host \in HostSet /\ HostOf(n, a, p, T(i), f, o) \in HostSet
    BY <1>4, <2>0
  <2> HIDE DEF T, line, key
  <2>5. Process(host, line) = HostOf(n, a, p, T(i), f, o)
    BY <2>1, <2>2, ProcessText
  <2>6. ReadLine(InHost(done, host), line) = InHost(done, HostOf(n, a, p, T(i), f, o))
    <3> HIDE DEF host
    <3> QED
      BY <2>1, <2>4, <2>5, ReadInHost
  <2>7. InHost(done, host) \in ReaderSet
    BY <2>4, InHostType
  <2>8. Reading!Fold(InHost(done, host), Given(key, h.text[key], {Unset}))
          = IF h.text[key] = Unset THEN InHost(done, host) ELSE ReadLine(InHost(done, host), line)
    <3> HIDE DEF host
    <3>1. <<key, h.text[key]>> \in Lines
      BY <2>1 DEF line
    <3> QED
      BY <2>7, <3>1, ReadGiven DEF line
  <2>9. st[i - 1] = InHost(done, host) /\ st[i] = InHost(done, HostOf(n, a, p, T(i), f, o))
    BY <2>0
  <2>10. seqs[i] = Given(key, h.text[key], {Unset})
    BY <1>1 DEF key
  <2> HIDE DEF st, seqs
  <2> QED
    BY <2>3, <2>6, <2>8, <2>9, <2>10
<1>9. Reading!FoldPieces(ReaderSet, st[0], seqs, st)
  <2> HIDE DEF st, seqs
  <2> QED
    BY <1>5, <1>7, <1>8 DEF Reading!FoldPieces
<1>10. Reading!Fold(st[0], FlattenSeq(seqs)) = st[N]
  <2> HIDE DEF st, seqs
  <2>1. st[0] \in ReaderSet
    BY <1>1, <1>5
  <2> QED
    BY <1>7, <1>9, <2>1, ReadPieces
<1>11. T(0) = NoText /\ T(N) = h.text
  BY <1>1, <1>2 DEF NoText
<1>12. /\ st[0] = InHost(done, HostOf(n, a, p, T(0), f, o))
       /\ st[N] = InHost(done, HostOf(n, a, p, T(N), f, o))
  BY <1>1
<1>13. TextLines(h, keys) = FlattenSeq(seqs)
  BY DEF TextLines
<1> HIDE DEF st, T
<1> QED
  BY <1>10, <1>11, <1>12, <1>13 DEF keys

\* A rule is read as it was written.
LEMMA RuleIsKept ==
  ASSUME NEW r \in RuleSet
  PROVE  ForwardRule(ForwardText(r)) = r
  BY DEF RuleSet, ForwardRule, ForwardText

\* Named steps of reading lines.
LEMMA ReadSteps ==
  ASSUME LimitsAssumption, KeysAssumption, NEW base \in ReaderSet, NEW lines \in Seq(Lines),
         NEW st, Reading!FoldSteps(ReaderSet, base, lines, st)
  PROVE  Reading!Fold(base, lines) = st[Len(lines)]
<1>1. Reading!Closed(ReaderSet, Lines)
  BY ReadingClosed
<1> QED
  BY <1>1, Reading!FoldIs

\* The rules of one keyword.
LEMMA ReadRules ==
  ASSUME LimitsAssumption, KeysAssumption, NEW done \in Seq(HostSet),
         NEW n \in HostNames, NEW a \in Words, NEW p \in Int, NEW t \in [TextKeys -> Words],
         NEW f, ForwardsFit(f), NEW o, OptionsFit(o),
         NEW key \in ForwardKeys, f[key] = <<>>,
         NEW rules \in Seq(RuleSet), Len(rules) <= MaxForwards
  PROVE  /\ Reading!Fold(InHost(done, HostOf(n, a, p, t, f, o)), RuleLines(key, rules))
              = InHost(done, HostOf(n, a, p, t, [f EXCEPT ![key] = Readable(key, rules)], o))
         /\ ForwardsFit([f EXCEPT ![key] = Readable(key, rules)])
<1> DEFINE N == Len(rules)
           lines == RuleLines(key, rules)
           positions == {i \in DOMAIN rules : AcceptsForward(key, ForwardText(rules[i]))}
<1>1. /\ N \in Nat /\ DOMAIN rules = 1..N /\ MaxForwards \in Nat
      /\ \A i \in 1..N : rules[i] \in RuleSet
  BY LenProperties, ElementOfSeq DEF LimitsAssumption
<1>2. PICK sum : OnlySums(rules, positions, RuleSet, sum)
  <2> HIDE DEF positions
  <2> QED
    BY OnlyTrace
<1>3. /\ sum \in [0..N -> Seq(RuleSet)] /\ sum[0] = <<>> /\ Readable(key, rules) = sum[N]
      /\ \A i \in 0..N : Len(sum[i]) <= i
      /\ \A i \in 1..N : sum[i] = IF AcceptsForward(key, ForwardText(rules[i]))
                                    THEN Append(sum[i - 1], rules[i]) ELSE sum[i - 1]
  BY <1>1, <1>2 DEF OnlySums, Readable
<1>4. lines \in Seq(Body) /\ Len(lines) = N /\ lines \in Seq(Lines)
  <2>1. lines \in Seq(Body) /\ Len(lines) = N
    BY RuleLinesType
  <2>2. Body \subseteq Lines
    BY DEF Body
  <2> HIDE DEF lines
  <2> QED
    BY <2>1, <2>2, SeqMonotonic
<1> DEFINE F(i) == [f EXCEPT ![key] = sum[i]]
           st == [i \in 0..N |-> InHost(done, HostOf(n, a, p, t, F(i), o))]
<1> HIDE DEF N
<1>5. \A i \in 0..N : ForwardsFit(F(i))
  <2> SUFFICES ASSUME NEW i \in 0..N PROVE ForwardsFit(F(i))
    OBVIOUS
  <2>1. sum[i] \in Seq(RuleSet) /\ Len(sum[i]) <= MaxForwards
    <3>1. sum[i] \in Seq(RuleSet) /\ Len(sum[i]) \in Nat
      BY <1>3, LenProperties
    <3> QED
      BY <1>1, <1>3, <3>1 DEF N
  <2> QED
    BY <2>1 DEF ForwardsFit
<1>6. \A i \in 0..N : HostOf(n, a, p, t, F(i), o) \in HostSet
  <2> HIDE DEF F
  <2> QED
    BY <1>5, HostIsBuilt
<1>7. st \in [0..N -> ReaderSet]
  <2> HIDE DEF F
  <2> QED
    BY <1>6, InHostType
<1>8. ASSUME NEW i \in 1..N PROVE st[i] = ReadLine(st[i - 1], lines[i])
  <2> DEFINE host == HostOf(n, a, p, t, F(i - 1), o)
             next == HostOf(n, a, p, t, F(i), o)
             value == ForwardText(rules[i])
             line == <<key, value>>
  <2>0. i \in 0..N /\ i - 1 \in 0..N
    BY <1>1
  <2>1. line = lines[i]
    BY <1>1 DEF RuleLines
  <2>2. line \in Body /\ line # Skipped /\ Key(line) = key /\ Value(line) = value
    <3>1. lines[i] \in Body
      BY <1>4, ElementOfSeq
    <3> HIDE DEF value, lines
    <3> QED
      BY <2>1, <3>1 DEF Key, Value, Skipped, KeysAssumption
  <2>3. /\ F(i - 1)[key] = sum[i - 1] /\ Len(sum[i - 1]) < MaxForwards
        /\ [F(i - 1) EXCEPT ![key] = Append(sum[i - 1], rules[i])]
             = [f EXCEPT ![key] = Append(sum[i - 1], rules[i])]
    <3>1. f \in [ForwardKeys -> Seq(RuleSet)]
      BY DEF ForwardsFit
    <3>2. Len(sum[i - 1]) \in Nat /\ Len(sum[i - 1]) <= i - 1 /\ i - 1 < N /\ N <= MaxForwards
      <4>1. sum[i - 1] \in Seq(RuleSet)
        BY <1>3, <2>0
      <4>2. Len(sum[i - 1]) \in Nat /\ Len(sum[i - 1]) <= i - 1
        BY <1>3, <2>0, <4>1, LenProperties
      <4>3. N <= MaxForwards /\ i - 1 < N
        BY <1>1 DEF N
      <4> QED
        BY <4>2, <4>3
    <3> QED
      BY <1>1, <3>1, <3>2
  <2>4. ForwardRule(value) = rules[i]
    BY <1>1, RuleIsKept
  <2>5. sum[i] = IF AcceptsForward(key, value) THEN Append(sum[i - 1], rules[i]) ELSE sum[i - 1]
    BY <1>3
  <2> HIDE DEF value
  <2>6. Process(host, line)
          = IF Len(F(i - 1)[key]) < MaxForwards /\ AcceptsForward(key, value)
              THEN HostOf(n, a, p, t, [F(i - 1) EXCEPT ![key] = Append(F(i - 1)[key], ForwardRule(value))], o)
              ELSE host
    <3> DEFINE g == F(i - 1)
    <3>1. host = HostOf(n, a, p, t, g, o)
      OBVIOUS
    <3> HIDE DEF F, g, line, host
    <3>2. Key(line) \in ForwardKeys
      BY <2>2
    <3>3. Process(HostOf(n, a, p, t, g, o), line)
            = IF Len(g[Key(line)]) < MaxForwards /\ AcceptsForward(Key(line), Value(line))
                THEN HostOf(n, a, p, t, [g EXCEPT ![Key(line)] = Append(@, ForwardRule(Value(line)))], o)
                ELSE HostOf(n, a, p, t, g, o)
      BY <3>2, ProcessForward
    <3> QED
      BY <2>2, <3>1, <3>3 DEF g
  <2>7. Process(host, line) = next
    <3>1. CASE AcceptsForward(key, value)
      <4>1. Process(host, line)
              = HostOf(n, a, p, t, [F(i - 1) EXCEPT ![key] = Append(F(i - 1)[key], ForwardRule(value))], o)
        <5> HIDE DEF F, line, host
        <5> QED
          BY <2>3, <2>6, <3>1
      <4>2. [F(i - 1) EXCEPT ![key] = Append(F(i - 1)[key], ForwardRule(value))] = F(i)
        <5>1. F(i) = [f EXCEPT ![key] = Append(sum[i - 1], rules[i])]
          BY <2>5, <3>1
        <5>2. Append(F(i - 1)[key], ForwardRule(value)) = Append(sum[i - 1], rules[i])
          BY <2>3, <2>4
        <5> QED
          BY <2>3, <5>1, <5>2
      <4> HIDE DEF F, line
      <4> QED
        BY <4>1, <4>2
    <3>2. CASE ~AcceptsForward(key, value)
      <4>1. F(i) = F(i - 1)
        BY <2>5, <3>2
      <4> HIDE DEF F, line
      <4> QED
        BY <2>6, <3>2, <4>1
    <3> QED
      BY <3>1, <3>2
  <2>8. host \in HostSet /\ next \in HostSet
    BY <1>6, <2>0
  <2>9. ReadLine(InHost(done, host), line) = InHost(done, next)
    <3> HIDE DEF host, next, line
    <3> QED
      BY <2>2, <2>7, <2>8, ReadInHost
  <2>10. st[i - 1] = InHost(done, host) /\ st[i] = InHost(done, next)
    BY <2>0
  <2> HIDE DEF host, next, line, st
  <2> QED
    BY <2>1, <2>9, <2>10
<1>9. Reading!FoldSteps(ReaderSet, st[0], lines, st)
  <2> HIDE DEF st, lines
  <2> QED
    BY <1>4, <1>7, <1>8 DEF Reading!FoldSteps
<1>10. Reading!Fold(st[0], lines) = st[N]
  <2> HIDE DEF st, lines
  <2>1. st[0] \in ReaderSet
    BY <1>1, <1>7
  <2> QED
    BY <1>4, <1>9, <2>1, ReadSteps
<1>11. F(0) = f /\ F(N) = [f EXCEPT ![key] = Readable(key, rules)]
  BY <1>1, <1>3 DEF ForwardsFit
<1>12. /\ st[0] = InHost(done, HostOf(n, a, p, t, F(0), o))
       /\ st[N] = InHost(done, HostOf(n, a, p, t, F(N), o))
  BY <1>1
<1>13. ForwardsFit([f EXCEPT ![key] = Readable(key, rules)])
  <2>1. N \in 0..N
    BY <1>1
  <2> HIDE DEF F
  <2> QED
    BY <1>5, <1>11, <2>1
<1> HIDE DEF st, F, lines
<1> QED
  BY <1>10, <1>11, <1>12, <1>13 DEF lines

\* A keyword comes only once.
LEMMA AmongFresh ==
  ASSUME NEW S, IsFiniteSet(S), NEW i \in 1..Cardinality(S)
  PROVE  SetToSeq(S)[i] \in S /\ SetToSeq(S)[i] \notin Among(SetToSeq(S), i - 1)
<1> DEFINE keys == SetToSeq(S)
           N == Cardinality(S)
<1>1. keys \in [1..N -> S] /\ N \in Nat /\ IsInjective(keys)
  BY KeysInSequence
<1> HIDE DEF keys, N
<1>2. \A j \in 1..(i - 1) : j \in 1..N /\ j # i
  BY <1>1 DEF N
<1>3. i \in 1..N
  BY DEF N
<1>4. \A j \in 1..(i - 1) : keys[j] # keys[i]
  BY <1>1, <1>2, <1>3 DEF IsInjective
<1> QED
  BY <1>1, <1>3, <1>4 DEF Among, keys

\* What is left of the rules.
CarriedRules(h) == [k \in ForwardKeys |-> Readable(k, h.forwards[k])]

\* LocalForward, RemoteForward, DynamicForward.
LEMMA ReadForwards ==
  ASSUME LimitsAssumption, KeysAssumption, NEW done \in Seq(HostSet), NEW h \in HostSet,
         NEW n \in HostNames, NEW a \in Words, NEW p \in Int, NEW t \in [TextKeys -> Words],
         NEW o, OptionsFit(o)
  PROVE  /\ Reading!Fold(InHost(done, HostOf(n, a, p, t, NoForwards, o)),
                         ForwardLines(h, SetToSeq(ForwardKeys)))
              = InHost(done, HostOf(n, a, p, t, CarriedRules(h), o))
         /\ ForwardsFit(CarriedRules(h))
<1> DEFINE keys == SetToSeq(ForwardKeys)
           N == Cardinality(ForwardKeys)
           seqs == [i \in DOMAIN keys |-> RuleLines(keys[i], h.forwards[keys[i]])]
           F(i) == [k \in ForwardKeys |-> IF k \in Among(keys, i) THEN Readable(k, h.forwards[k]) ELSE <<>>]
           st == [i \in 0..N |-> InHost(done, HostOf(n, a, p, t, F(i), o))]
<1>1. keys \in [1..N -> ForwardKeys] /\ N \in Nat
  BY KeysInSequence DEF KeysAssumption
<1>2. Among(keys, 0) = {} /\ Among(keys, N) = ForwardKeys
  BY AmongAll DEF KeysAssumption
<1>3. \A i \in 1..N : keys[i] \in ForwardKeys /\ keys[i] \notin Among(keys, i - 1)
  BY AmongFresh DEF KeysAssumption
<1>4. \A k \in ForwardKeys : h.forwards[k] \in Seq(RuleSet) /\ Len(h.forwards[k]) <= MaxForwards
  BY HostParts DEF ForwardsFit
<1> HIDE DEF keys, N
<1>5. ASSUME NEW k \in ForwardKeys
      PROVE  Readable(k, h.forwards[k]) \in Seq(RuleSet) /\ Len(Readable(k, h.forwards[k])) <= MaxForwards
  <2> DEFINE rules == h.forwards[k]
             positions == {i \in DOMAIN rules : AcceptsForward(k, ForwardText(rules[i]))}
  <2>1. rules \in Seq(RuleSet) /\ Len(rules) \in Nat /\ Len(rules) <= MaxForwards
    BY <1>4, LenProperties
  <2> HIDE DEF rules, positions
  <2>2. Only(rules, positions) \in Seq(RuleSet) /\ Len(Only(rules, positions)) <= Len(rules)
    BY <2>1, OnlyType
  <2>3. Len(Only(rules, positions)) \in Nat
    BY <2>2, LenProperties
  <2>4. Readable(k, rules) = Only(rules, positions)
    BY DEF Readable, positions
  <2> QED
    BY <2>1, <2>2, <2>3, <2>4 DEF rules, LimitsAssumption
<1>6. \A i \in 0..N : ForwardsFit(F(i))
  <2> SUFFICES ASSUME NEW i \in 0..N PROVE ForwardsFit(F(i))
    OBVIOUS
  <2>1. <<>> \in Seq(RuleSet) /\ Len(<<>>) <= MaxForwards
    BY EmptySeq DEF LimitsAssumption
  <2> QED
    BY <1>5, <2>1 DEF ForwardsFit
<1>7. \A i \in 0..N : HostOf(n, a, p, t, F(i), o) \in HostSet
  <2> HIDE DEF F
  <2> QED
    BY <1>6, HostIsBuilt
<1>8. st \in [0..N -> ReaderSet]
  <2> HIDE DEF F
  <2> QED
    BY <1>7, InHostType
<1>9. ASSUME NEW i \in 1..N PROVE RuleLines(keys[i], h.forwards[keys[i]]) \in Seq(Lines)
  <2>1. RuleLines(keys[i], h.forwards[keys[i]]) \in Seq(Body)
    BY <1>3, <1>4, RuleLinesType
  <2>2. Body \subseteq Lines
    BY DEF Body
  <2> QED
    BY <2>1, <2>2, SeqMonotonic
<1>10. seqs \in Seq(Seq(Lines)) /\ Len(seqs) = N
  <2>1. seqs \in [1..N -> Seq(Lines)]
    BY <1>1, <1>9
  <2> HIDE DEF seqs
  <2> QED
    BY <1>1, <2>1
<1>11. ASSUME NEW i \in 1..N PROVE st[i] = Reading!Fold(st[i - 1], seqs[i])
  <2> DEFINE key == keys[i]
             rules == h.forwards[key]
             host == HostOf(n, a, p, t, F(i - 1), o)
             next == HostOf(n, a, p, t, F(i), o)
  <2>0. i \in 0..N /\ i - 1 \in 0..N /\ i \in Nat \ {0}
    BY <1>1
  <2>1. key \in ForwardKeys /\ rules \in Seq(RuleSet) /\ Len(rules) <= MaxForwards
    BY <1>3, <1>4
  <2>2. F(i) = [F(i - 1) EXCEPT ![key] = Readable(key, rules)] /\ F(i - 1)[key] = <<>>
    <3>1. Among(keys, i) = Among(keys, i - 1) \cup {key} /\ key \notin Among(keys, i - 1)
      BY <1>3, <2>0, AmongGrows
    <3> QED
      BY <2>1, <3>1
  <2>3. ForwardsFit(F(i - 1))
    BY <1>6, <2>0
  <2>4. st[i - 1] = InHost(done, host) /\ st[i] = InHost(done, next)
    BY <2>0
  <2>5. seqs[i] = RuleLines(key, rules)
    BY <1>1
  <2>6. next = HostOf(n, a, p, t, [F(i - 1) EXCEPT ![key] = Readable(key, rules)], o)
    BY <2>2
  <2> HIDE DEF F, key, rules, st, seqs, next
  <2>7. Reading!Fold(InHost(done, host), RuleLines(key, rules)) = InHost(done, next)
    BY <2>1, <2>2, <2>3, <2>6, ReadRules
  <2> HIDE DEF host
  <2> QED
    BY <2>4, <2>5, <2>7
<1>12. Reading!FoldPieces(ReaderSet, st[0], seqs, st)
  <2> HIDE DEF st, seqs
  <2> QED
    BY <1>8, <1>10, <1>11 DEF Reading!FoldPieces
<1>13. Reading!Fold(st[0], FlattenSeq(seqs)) = st[N]
  <2> HIDE DEF st, seqs
  <2>1. st[0] \in ReaderSet
    BY <1>1, <1>8
  <2> QED
    BY <1>10, <1>12, <2>1, ReadPieces
<1>14. F(0) = NoForwards /\ F(N) = CarriedRules(h)
  BY <1>2 DEF NoForwards, CarriedRules
<1>15. /\ st[0] = InHost(done, HostOf(n, a, p, t, F(0), o))
       /\ st[N] = InHost(done, HostOf(n, a, p, t, F(N), o)) /\ ForwardsFit(F(N))
  BY <1>1, <1>6
<1>16. ForwardLines(h, keys) = FlattenSeq(seqs)
  BY DEF ForwardLines
<1> HIDE DEF st, F
<1> QED
  BY <1>13, <1>14, <1>15, <1>16 DEF keys

\* What is left of the options.
Kept(options) == Only(options, {i \in DOMAIN options : Value(options[i]) # ""})

\* Any other keyword.
LEMMA ReadOptions ==
  ASSUME LimitsAssumption, KeysAssumption, NEW done \in Seq(HostSet), NEW h \in HostSet,
         NEW n \in HostNames, NEW a \in Words, NEW p \in Int, NEW t \in [TextKeys -> Words],
         NEW f, ForwardsFit(f)
  PROVE  /\ Reading!Fold(InHost(done, HostOf(n, a, p, t, f, <<>>)), OptionLinesOf(h))
              = InHost(done, HostOf(n, a, p, t, f, Kept(h.options)))
         /\ OptionsFit(Kept(h.options))
<1> DEFINE options == h.options
           N == Len(options)
           lines == OptionLinesOf(h)
           positions == {i \in DOMAIN options : Value(options[i]) # ""}
<1>1. /\ options \in Seq(OptionLines) /\ N <= MaxOptions /\ N \in Nat /\ MaxOptions \in Nat
      /\ DOMAIN options = 1..N /\ \A i \in 1..N : options[i] \in OptionLines
      /\ lines \in Seq(Body) /\ Len(lines) = N
  BY HostParts, OptionLinesType DEF OptionsFit, LimitsAssumption
<1>2. PICK sum : OnlySums(options, positions, OptionLines, sum)
  <2> HIDE DEF positions, options
  <2> QED
    BY <1>1, OnlyTrace
<1>3. /\ sum \in [0..N -> Seq(OptionLines)] /\ sum[0] = <<>> /\ Kept(h.options) = sum[N]
      /\ \A i \in 0..N : Len(sum[i]) <= i
      /\ \A i \in 1..N : sum[i] = IF Value(options[i]) # "" THEN Append(sum[i - 1], options[i])
                                                            ELSE sum[i - 1]
  BY <1>1, <1>2 DEF OnlySums, Kept
<1>4. lines \in Seq(Lines)
  <2>1. Body \subseteq Lines
    BY DEF Body
  <2> HIDE DEF lines
  <2> QED
    BY <1>1, <2>1, SeqMonotonic
<1> DEFINE st == [i \in 0..N |-> InHost(done, HostOf(n, a, p, t, f, sum[i]))]
<1>5. \A i \in 1..N : lines[i] = OptionLine(options[i])
  BY <1>1 DEF OptionLinesOf
<1> HIDE DEF N, options, lines
<1>6. \A i \in 0..N : OptionsFit(sum[i])
  <2> SUFFICES ASSUME NEW i \in 0..N PROVE OptionsFit(sum[i])
    OBVIOUS
  <2>1. sum[i] \in Seq(OptionLines) /\ Len(sum[i]) \in Nat /\ Len(sum[i]) <= i
    BY <1>3, LenProperties
  <2> QED
    BY <1>1, <2>1 DEF OptionsFit
<1>7. \A i \in 0..N : HostOf(n, a, p, t, f, sum[i]) \in HostSet
  BY <1>6, HostIsBuilt
<1>8. st \in [0..N -> ReaderSet]
  BY <1>7, InHostType
<1>9. ASSUME NEW i \in 1..N PROVE st[i] = ReadLine(st[i - 1], lines[i])
  <2> DEFINE host == HostOf(n, a, p, t, f, sum[i - 1])
             next == HostOf(n, a, p, t, f, sum[i])
             line == lines[i]
  <2>0. i \in 0..N /\ i - 1 \in 0..N
    BY <1>1
  <2>1. line \in Body /\ line = OptionLine(options[i]) /\ options[i] \in OptionLines
    BY <1>1, <1>5, ElementOfSeq
  <2>2. host \in HostSet /\ next \in HostSet
    BY <1>7, <2>0
  <2>3. st[i - 1] = InHost(done, host) /\ st[i] = InHost(done, next)
    BY <2>0
  <2>4. CASE Value(options[i]) = ""
    <3>1. line = Skipped /\ next = host
      BY <1>3, <2>1, <2>4 DEF OptionLine
    <3>2. ReadLine(InHost(done, host), line) = InHost(done, host)
      <4>1. Key(line) # "Host"
        BY <2>1 DEF Body
      <4> HIDE DEF line, host
      <4> QED
        BY <3>1, <4>1 DEF ReadLine
    <3> QED
      BY <2>3, <3>1, <3>2
  <2>5. CASE Value(options[i]) # ""
    <3>1. line = options[i] /\ sum[i] = Append(sum[i - 1], line)
      BY <1>3, <2>1, <2>5 DEF OptionLine
    <3>2. line # Skipped /\ Key(line) \in OptionKeys
      <4>1. Value(Skipped) = ""
        BY DEF Value, Skipped
      <4>2. Key(options[i]) \in OptionKeys
        BY <2>1 DEF OptionLines, Key
      <4> HIDE DEF line
      <4> QED
        BY <2>5, <3>1, <4>1, <4>2
    <3>3. Len(sum[i - 1]) < MaxOptions
      <4>1. Len(sum[i - 1]) \in Nat /\ Len(sum[i - 1]) <= i - 1
        BY <1>3, <2>0, LenProperties
      <4> QED
        BY <1>1, <4>1
    <3> HIDE DEF line
    <3>4. Process(host, line) = next
      BY <3>1, <3>2, <3>3, ProcessOption
    <3>5. ReadLine(InHost(done, host), line) = InHost(done, next)
      <4> HIDE DEF host, next
      <4> QED
        BY <2>1, <2>2, <3>2, <3>4, ReadInHost
    <3> QED
      BY <2>3, <3>5 DEF line
  <2> QED
    BY <2>4, <2>5
<1>10. Reading!FoldSteps(ReaderSet, st[0], lines, st)
  <2> HIDE DEF st
  <2> QED
    BY <1>1, <1>8, <1>9 DEF Reading!FoldSteps
<1>11. Reading!Fold(st[0], lines) = st[N]
  <2> HIDE DEF st
  <2>1. st[0] \in ReaderSet
    BY <1>1, <1>8
  <2> QED
    BY <1>1, <1>4, <1>10, <2>1, ReadSteps
<1>12. /\ st[0] = InHost(done, HostOf(n, a, p, t, f, <<>>)) /\ OptionsFit(Kept(h.options))
       /\ st[N] = InHost(done, HostOf(n, a, p, t, f, Kept(h.options)))
  <2>1. 0 \in 0..N /\ N \in 0..N
    BY <1>1
  <2> QED
    BY <1>3, <1>6, <2>1
<1> HIDE DEF st
<1> QED
  BY <1>11, <1>12 DEF lines

\* Lines after lines are read after them.
LEMMA ReadConcat ==
  ASSUME LimitsAssumption, KeysAssumption, NEW base \in ReaderSet,
         NEW s \in Seq(Lines), NEW t \in Seq(Lines)
  PROVE  Reading!Fold(base, s \o t) = Reading!Fold(Reading!Fold(base, s), t)
<1>1. Reading!Closed(ReaderSet, Lines)
  BY ReadingClosed
<1> QED
  BY <1>1, Reading!FoldConcat

\* Reading keeps the reader a reader.
LEMMA ReadType ==
  ASSUME LimitsAssumption, KeysAssumption, NEW base \in ReaderSet, NEW s \in Seq(Lines)
  PROVE  Reading!Fold(base, s) \in ReaderSet
<1>1. Reading!Closed(ReaderSet, Lines)
  BY ReadingClosed
<1> QED
  BY <1>1, Reading!FoldType

\* A pattern's block changes nothing.
LEMMA ReadSkipped ==
  ASSUME LimitsAssumption, KeysAssumption, NEW r \in ReaderSet, r.at = "skip", NEW lines \in Seq(Body)
  PROVE  Reading!Fold(r, lines) = r
<1> DEFINE N == Len(lines)
           st == [i \in 0..N |-> r]
<1>1. N \in Nat /\ \A i \in 1..N : lines[i] \in Body
  BY LenProperties, ElementOfSeq
<1>2. lines \in Seq(Lines)
  <2>1. Body \subseteq Lines
    BY DEF Body
  <2> QED
    BY <2>1, SeqMonotonic
<1>3. ASSUME NEW i \in 1..N PROVE ReadLine(r, lines[i]) = r
  <2>1. Key(lines[i]) # "Host"
    BY <1>1 DEF Body
  <2> QED
    BY <2>1 DEF ReadLine
<1>4. Reading!FoldSteps(ReaderSet, r, lines, st)
  BY <1>1, <1>3 DEF Reading!FoldSteps
<1>5. Reading!Fold(r, lines) = st[N]
  <2> HIDE DEF st
  <2> QED
    BY <1>2, <1>4, ReadSteps
<1> QED
  BY <1>1, <1>5

\* A new host by its parts.
LEMMA NewHostParts ==
  ASSUME NEW name
  PROVE  NewHost(name) = HostOf(name, name, DefaultPort, NoText, NoForwards, <<>>)
  BY DEF NewHost, HostOf, NoText, NoForwards

\* The comment and the Host line.
LEMMA ReadHostLine ==
  ASSUME LimitsAssumption, KeysAssumption, NEW r \in ReaderSet, r.defaults = NoDefaults, NEW h \in HostSet
  PROVE  Reading!Fold(r, HostLine(h)) = IF HasWildcard(h.name) THEN [r EXCEPT !.at = "skip"]
                                        ELSE InHost(r.hosts, NewHost(h.name))
<1> DEFINE line == <<"Host", h.name>>
<1>1. Skipped \in Lines /\ line \in Lines /\ h.name \in HostNames
  BY HostParts DEF Lines
<1>2. Key(line) = "Host" /\ Value(line) = h.name /\ line # Skipped /\ Key(Skipped) # "Host"
  BY DEF Key, Value, Skipped
<1>3. Reading!Fold(r, <<Skipped>>) = r
  <2>1. ReadLine(r, Skipped) = r
    BY <1>2 DEF ReadLine
  <2> QED
    BY <1>1, <2>1, ReadOne
<1>4. Reading!Fold(r, <<line>>) = ReadLine(r, line)
  <2> HIDE DEF line
  <2> QED
    BY <1>1, ReadOne
<1>5. Reading!Fold(r, <<Skipped>> \o <<line>>) = ReadLine(r, line)
  <2>1. <<Skipped>> \in Seq(Lines) /\ <<line>> \in Seq(Lines)
    BY <1>1
  <2> HIDE DEF line
  <2>2. Reading!Fold(r, <<Skipped>> \o <<line>>) = Reading!Fold(Reading!Fold(r, <<Skipped>>), <<line>>)
    BY <2>1, ReadConcat
  <2> QED
    BY <1>3, <1>4, <2>2
<1>6. HostLine(h) = <<Skipped>> \o <<line>>
  BY DEF HostLine
<1> HIDE DEF line
<1>7. Finish(r) = r
  BY FinishNothing
<1>8. CASE HasWildcard(h.name)
  <2>1. ReadLine(r, line) = [r EXCEPT !.at = "skip"]
    BY <1>2, <1>7, <1>8 DEF ReadLine
  <2> QED
    BY <1>5, <1>6, <1>8, <2>1
<1>9. CASE ~HasWildcard(h.name)
  <2>1. ReadLine(r, line) = [r EXCEPT !.hosts = Append(r.hosts, NewHost(h.name)), !.at = "host"]
    BY <1>2, <1>7, <1>9 DEF ReadLine
  <2>2. ReadLine(r, line) = InHost(r.hosts, NewHost(h.name))
    BY <2>1 DEF InHost, ReaderSet
  <2> QED
    BY <1>5, <1>6, <1>9, <2>2
<1> QED
  BY <1>8, <1>9

\* The names of the fields a host is written with.
PortOf(h) == IF ValidPort(h.port) THEN h.port ELSE DefaultPort
HostNameOf(h) == IF h.hostname = Unset THEN h.name ELSE h.hostname

\* What is carried of a host, by its parts.
LEMMA CarriedParts ==
  ASSUME NEW h \in HostSet
  PROVE  Carried(h) = HostOf(h.name, HostNameOf(h), PortOf(h), h.text, CarriedRules(h), Kept(h.options))
<1>1. h = HostOf(h.name, h.hostname, h.port, h.text, h.forwards, h.options)
  BY HostParts
<1>2. Carried(h) = [h EXCEPT !.hostname = HostNameOf(h), !.port = PortOf(h),
                             !.forwards = CarriedRules(h), !.options = Kept(h.options)]
  BY DEF Carried, HostNameOf, PortOf, CarriedRules, Kept
<1> QED
  BY <1>1, <1>2 DEF HostOf

\* Reading the lines of a host.
LEMMA ReadHost ==
  ASSUME LimitsAssumption, KeysAssumption, NEW r \in ReaderSet, r.defaults = NoDefaults, NEW h \in HostSet
  PROVE  /\ Reading!Fold(r, HostLines(h)) = IF HasWildcard(h.name) THEN [r EXCEPT !.at = "skip"]
                                            ELSE InHost(r.hosts, Carried(h))
         /\ Carried(h) \in HostSet
<1> DEFINE A == HostLine(h)
           B == HostNameLines(h)
           C == PortLines(h)
           D == TextLines(h, SetToSeq(TextKeys))
           E == ForwardLines(h, SetToSeq(ForwardKeys))
           G == OptionLinesOf(h)
           name == h.name
           done == r.hosts
<1>1. B \in Seq(Body) /\ C \in Seq(Body) /\ D \in Seq(Body) /\ E \in Seq(Body) /\ G \in Seq(Body)
  BY HostLinesType, KeyLinesType, OptionLinesType
<1>2. A \in Seq(Lines) /\ B \in Seq(Lines) /\ C \in Seq(Lines) /\ D \in Seq(Lines) /\ E \in Seq(Lines)
      /\ G \in Seq(Lines)
  <2>1. \A s \in Seq(Body) : s \in Seq(Lines)
    BY SeqMonotonic DEF Body
  <2> QED
    BY <1>1, <2>1, HostLinesType
<1>3. HostLines(h) = ((((A \o B) \o C) \o D) \o E) \o G
  BY DEF HostLines, HostLine, HostNameLines, PortLines, OptionLinesOf
<1>4. Reading!Fold(r, HostLines(h))
        = Reading!Fold(Reading!Fold(Reading!Fold(Reading!Fold(Reading!Fold(Reading!Fold(r, A), B), C), D), E), G)
  <2> HIDE DEF A, B, C, D, E, G
  <2>1. A \o B \in Seq(Lines) /\ (A \o B) \o C \in Seq(Lines) /\ ((A \o B) \o C) \o D \in Seq(Lines)
        /\ (((A \o B) \o C) \o D) \o E \in Seq(Lines)
    BY <1>2, ConcatProperties
  <2>2. \A s \in Seq(Lines), t \in Seq(Lines) :
          Reading!Fold(r, s \o t) = Reading!Fold(Reading!Fold(r, s), t)
    BY ReadConcat
  <2>3. Reading!Fold(r, HostLines(h)) = Reading!Fold(Reading!Fold(r, (((A \o B) \o C) \o D) \o E), G)
    BY <1>2, <1>3, <2>1, <2>2
  <2>4. Reading!Fold(r, (((A \o B) \o C) \o D) \o E) = Reading!Fold(Reading!Fold(r, ((A \o B) \o C) \o D), E)
    BY <1>2, <2>1, <2>2
  <2>5. Reading!Fold(r, ((A \o B) \o C) \o D) = Reading!Fold(Reading!Fold(r, (A \o B) \o C), D)
    BY <1>2, <2>1, <2>2
  <2>6. Reading!Fold(r, (A \o B) \o C) = Reading!Fold(Reading!Fold(r, A \o B), C)
    BY <1>2, <2>1, <2>2
  <2>7. Reading!Fold(r, A \o B) = Reading!Fold(Reading!Fold(r, A), B)
    BY <1>2, <2>2
  <2> QED
    BY <2>3, <2>4, <2>5, <2>6, <2>7
<1>5. /\ done \in Seq(HostSet) /\ name \in HostNames /\ HostNameOf(h) \in Words /\ PortOf(h) \in Int
      /\ NoText \in [TextKeys -> Words] /\ ForwardsFit(NoForwards) /\ OptionsFit(<<>>)
      /\ h.text \in [TextKeys -> Words] /\ h \in HostSet /\ DefaultPort \in Int
  <2>1. <<>> \in Seq(RuleSet) /\ <<>> \in Seq(OptionLines) /\ Len(<<>>) = 0
    BY EmptySeq
  <2>2. ForwardsFit(NoForwards) /\ OptionsFit(<<>>)
    BY <2>1 DEF ForwardsFit, OptionsFit, LimitsAssumption, NoForwards
  <2>3. name \in HostNames /\ HostNameOf(h) \in Words /\ PortOf(h) \in Int /\ h.text \in [TextKeys -> Words]
    BY HostParts DEF HostNameOf, PortOf, DefaultPort, HostNames
  <2>4. NoText \in [TextKeys -> Words] /\ done \in Seq(HostSet) /\ DefaultPort \in Int
    BY DEF Words, ReaderSet, DefaultPort, NoText
  <2> QED
    BY <2>2, <2>3, <2>4
<1>6. /\ Reading!Fold(InHost(done, HostOf(name, HostNameOf(h), PortOf(h), h.text, NoForwards, <<>>)), E)
           = InHost(done, HostOf(name, HostNameOf(h), PortOf(h), h.text, CarriedRules(h), <<>>))
      /\ ForwardsFit(CarriedRules(h))
  <2> HIDE DEF name, done
  <2> QED
    BY <1>5, ReadForwards
<1> HIDE DEF name, done
<1>7. /\ Reading!Fold(InHost(done, HostOf(name, HostNameOf(h), PortOf(h), h.text, CarriedRules(h), <<>>)), G)
           = InHost(done, HostOf(name, HostNameOf(h), PortOf(h), h.text, CarriedRules(h), Kept(h.options)))
      /\ OptionsFit(Kept(h.options))
  BY <1>5, <1>6, ReadOptions
<1>8. Reading!Fold(InHost(done, HostOf(name, HostNameOf(h), PortOf(h), NoText, NoForwards, <<>>)), D)
        = InHost(done, HostOf(name, HostNameOf(h), PortOf(h), h.text, NoForwards, <<>>))
  BY <1>5, ReadTexts
<1>9. Reading!Fold(InHost(done, HostOf(name, HostNameOf(h), DefaultPort, NoText, NoForwards, <<>>)), C)
        = InHost(done, HostOf(name, HostNameOf(h), PortOf(h), NoText, NoForwards, <<>>))
  BY <1>5, ReadPort DEF PortOf
<1>10. Reading!Fold(InHost(done, HostOf(name, name, DefaultPort, NoText, NoForwards, <<>>)), B)
         = InHost(done, HostOf(name, HostNameOf(h), DefaultPort, NoText, NoForwards, <<>>))
  BY <1>5, ReadHostName DEF HostNameOf, name
<1>11. Carried(h) = HostOf(name, HostNameOf(h), PortOf(h), h.text, CarriedRules(h), Kept(h.options))
  BY CarriedParts DEF name
<1>12. Carried(h) \in HostSet
  BY <1>5, <1>6, <1>7, <1>11, HostIsBuilt
<1>13. CASE HasWildcard(h.name)
  <2> DEFINE s == [r EXCEPT !.at = "skip"]
  <2>1. Reading!Fold(r, A) = s
    BY <1>13, ReadHostLine
  <2>2. s \in ReaderSet /\ s.at = "skip"
    BY DEF ReaderSet
  <2> HIDE DEF s, A, B, C, D, E, G
  <2>3. \A lines \in Seq(Body) : Reading!Fold(s, lines) = s
    BY <2>2, ReadSkipped
  <2>4. Reading!Fold(r, HostLines(h)) = s
    BY <1>1, <1>4, <2>1, <2>3
  <2> QED
    BY <1>12, <1>13, <2>4 DEF s
<1>14. CASE ~HasWildcard(h.name)
  <2>1. Reading!Fold(r, A) = InHost(done, NewHost(name))
    BY <1>14, ReadHostLine DEF done, name
  <2>2. NewHost(name) = HostOf(name, name, DefaultPort, NoText, NoForwards, <<>>)
    BY NewHostParts
  <2> HIDE DEF A, B, C, D, E, G
  <2>3. Reading!Fold(r, HostLines(h)) = InHost(done, Carried(h))
    BY <1>4, <1>6, <1>7, <1>8, <1>9, <1>10, <1>11, <2>1, <2>2
  <2> QED
    BY <1>12, <1>14, <2>3 DEF done
<1> QED
  BY <1>13, <1>14

-----------------------------------------------------------------------------
(* Reading what was written                                                *)

\* What is taken is what the positions hold.
LEMMA OnlyElements ==
  ASSUME NEW E, NEW seq \in Seq(E), NEW positions, NEW F,
         \A i \in 1..Len(seq) : i \in positions => seq[i] \in F
  PROVE  Only(seq, positions) \in Seq(F)
<1> DEFINE N == Len(seq)
           seqs == [i \in 1..N |-> IF i \in positions THEN <<seq[i]>> ELSE <<>>]
<1>1. N \in Nat /\ DOMAIN seq = 1..N
  BY LenProperties
<1>2. ASSUME NEW i \in 1..N PROVE (IF i \in positions THEN <<seq[i]>> ELSE <<>>) \in Seq(F)
  <2>1. CASE i \in positions
    <3>1. seq[i] \in F
      BY <2>1
    <3> QED
      BY <2>1, <3>1
  <2>2. CASE i \notin positions
    BY <2>2, EmptySeq
  <2> QED
    BY <2>1, <2>2
<1>3. seqs \in Seq(Seq(F))
  BY <1>1, <1>2
<1>4. FlattenSeq(seqs) \in Seq(F)
  <2> HIDE DEF seqs
  <2> QED
    BY <1>3, FlattenType
<1> QED
  BY <1>1, <1>4 DEF Only

\* Taking every position takes everything.
LEMMA OnlyAll ==
  ASSUME NEW E, NEW seq \in Seq(E), NEW positions, \A i \in 1..Len(seq) : i \in positions
  PROVE  Only(seq, positions) = seq
<1>1. DOMAIN seq = 1..Len(seq)
  BY LenProperties
<1>2. [i \in DOMAIN seq |-> IF i \in positions THEN <<seq[i]>> ELSE <<>>]
        = [i \in 1..Len(seq) |-> <<seq[i]>>]
  BY <1>1
<1>3. FlattenSeq([i \in 1..Len(seq) |-> <<seq[i]>>]) = seq
  BY FlattenSingles
<1> QED
  BY <1>2, <1>3 DEF Only

\* What a second writing would lose was lost with the first.
LEMMA ReadableTwice ==
  ASSUME NEW key, NEW rules \in Seq(RuleSet)
  PROVE  Readable(key, Readable(key, rules)) = Readable(key, rules)
<1> DEFINE F == {r \in RuleSet : AcceptsForward(key, ForwardText(r))}
           P(s) == {i \in DOMAIN s : AcceptsForward(key, ForwardText(s[i]))}
           kept == Readable(key, rules)
<1>1. DOMAIN rules = 1..Len(rules) /\ \A i \in 1..Len(rules) : rules[i] \in RuleSet
  BY LenProperties, ElementOfSeq
<1>2. \A i \in 1..Len(rules) : i \in P(rules) => rules[i] \in F
  BY <1>1
<1>3. kept = Only(rules, P(rules))
  BY DEF Readable
<1>4. kept \in Seq(F)
  <2> HIDE DEF P, F, kept
  <2> QED
    BY <1>2, <1>3, OnlyElements
<1> HIDE DEF kept
<1>5. DOMAIN kept = 1..Len(kept) /\ \A i \in 1..Len(kept) : kept[i] \in F
  <2> HIDE DEF F
  <2> QED
    BY <1>4, LenProperties, ElementOfSeq
<1>6. \A i \in 1..Len(kept) : i \in P(kept)
  BY <1>5
<1>7. Only(kept, P(kept)) = kept
  <2> HIDE DEF P, F
  <2> QED
    BY <1>4, <1>6, OnlyAll
<1>8. Readable(key, kept) = Only(kept, P(kept))
  BY DEF Readable
<1> QED
  BY <1>7, <1>8 DEF kept

\* ... of the options too.
LEMMA KeptTwice ==
  ASSUME NEW options \in Seq(OptionLines)
  PROVE  Kept(Kept(options)) = Kept(options)
<1> DEFINE F == {l \in OptionLines : Value(l) # ""}
           P(s) == {i \in DOMAIN s : Value(s[i]) # ""}
           kept == Kept(options)
<1>1. DOMAIN options = 1..Len(options) /\ \A i \in 1..Len(options) : options[i] \in OptionLines
  BY LenProperties, ElementOfSeq
<1>2. \A i \in 1..Len(options) : i \in P(options) => options[i] \in F
  BY <1>1
<1>3. kept = Only(options, P(options))
  BY DEF Kept
<1>4. kept \in Seq(F)
  <2> HIDE DEF P, F, kept
  <2> QED
    BY <1>2, <1>3, OnlyElements
<1> HIDE DEF kept
<1>5. DOMAIN kept = 1..Len(kept) /\ \A i \in 1..Len(kept) : kept[i] \in F
  <2> HIDE DEF F
  <2> QED
    BY <1>4, LenProperties, ElementOfSeq
<1>6. \A i \in 1..Len(kept) : i \in P(kept)
  BY <1>5
<1>7. Only(kept, P(kept)) = kept
  <2> HIDE DEF P, F
  <2> QED
    BY <1>4, <1>6, OnlyAll
<1>8. Kept(kept) = Only(kept, P(kept))
  BY DEF Kept
<1> QED
  BY <1>7, <1>8 DEF kept

\* What is carried of a host is a host of that name, and all of it is carried.
LEMMA CarriedType ==
  ASSUME LimitsAssumption, KeysAssumption, NEW h \in HostSet
  PROVE  Carried(h) \in HostSet /\ Carried(h).name = h.name /\ Carried(Carried(h)) = Carried(h)
<1> DEFINE c == Carried(h)
<1>1. c \in HostSet
  <2>1. ReaderStart \in ReaderSet /\ ReaderStart.defaults = NoDefaults
    BY ReaderStartType DEF ReaderStart
  <2> QED
    BY <2>1, ReadHost
<1>2. c = HostOf(h.name, HostNameOf(h), PortOf(h), h.text, CarriedRules(h), Kept(h.options))
  BY CarriedParts
<1>3. /\ c.name = h.name /\ c.hostname = HostNameOf(h) /\ c.port = PortOf(h) /\ c.text = h.text
      /\ c.forwards = CarriedRules(h) /\ c.options = Kept(h.options)
  BY <1>2 DEF HostOf
<1> HIDE DEF c
<1>4. Carried(c) = HostOf(c.name, HostNameOf(c), PortOf(c), c.text, CarriedRules(c), Kept(c.options))
  BY <1>1, CarriedParts
<1>5. HostNameOf(c) = HostNameOf(h) /\ PortOf(c) = PortOf(h)
  BY <1>3 DEF HostNameOf, PortOf, ValidPort, DefaultPort
<1>6. CarriedRules(c) = CarriedRules(h)
  <2>1. ASSUME NEW k \in ForwardKeys
        PROVE  Readable(k, c.forwards[k]) = Readable(k, h.forwards[k])
    <3>1. h.forwards[k] \in Seq(RuleSet)
      <4>1. ForwardsFit(h.forwards)
        BY HostParts
      <4> QED
        BY <4>1 DEF ForwardsFit
    <3>2. c.forwards[k] = Readable(k, h.forwards[k])
      BY <1>3 DEF CarriedRules
    <3> QED
      BY <3>1, <3>2, ReadableTwice
  <2> QED
    BY <2>1 DEF CarriedRules
<1>7. Kept(c.options) = Kept(h.options)
  <2>1. h.options \in Seq(OptionLines)
    BY HostParts DEF OptionsFit
  <2> QED
    BY <1>3, <2>1, KeptTwice
<1>8. Carried(c) = c
  BY <1>2, <1>3, <1>4, <1>5, <1>6, <1>7
<1> QED
  BY <1>1, <1>3, <1>8 DEF c

\* The hosts as they are carried, one for one.
CarriedEach(hs) == [i \in DOMAIN hs |-> Carried(hs[i])]
Named(hs) == {i \in DOMAIN hs : ~HasWildcard(hs[i].name)}

\* What CarriedHosts is made of.
LEMMA CarriedEachType ==
  ASSUME LimitsAssumption, KeysAssumption, NEW hs \in Seq(HostSet)
  PROVE  /\ DOMAIN hs = 1..Len(hs) /\ Len(hs) \in Nat /\ \A i \in 1..Len(hs) : hs[i] \in HostSet
         /\ CarriedEach(hs) \in Seq(HostSet) /\ Len(CarriedEach(hs)) = Len(hs)
         /\ \A i \in 1..Len(hs) : CarriedEach(hs)[i] = Carried(hs[i])
         /\ CarriedHosts(hs) = Only(CarriedEach(hs), Named(hs))
<1>1. DOMAIN hs = 1..Len(hs) /\ Len(hs) \in Nat /\ \A i \in 1..Len(hs) : hs[i] \in HostSet
  BY LenProperties, ElementOfSeq
<1>2. \A i \in 1..Len(hs) : Carried(hs[i]) \in HostSet
  BY <1>1, CarriedType
<1>3. CarriedEach(hs) \in [1..Len(hs) -> HostSet]
  BY <1>1, <1>2 DEF CarriedEach
<1>4. \A i \in 1..Len(hs) : CarriedEach(hs)[i] = Carried(hs[i])
  BY <1>1 DEF CarriedEach
<1>5. CarriedHosts(hs) = Only(CarriedEach(hs), Named(hs))
  BY DEF CarriedHosts, CarriedEach, Named
<1> QED
  BY <1>1, <1>3, <1>4, <1>5

\* Reading what was written gives what of the hosts the format can carry.
LEMMA WrittenIsRead ==
  ASSUME LimitsAssumption, KeysAssumption, NEW hs \in Seq(HostSet)
  PROVE  Parse(Written(hs)) = CarriedHosts(hs)
<1> DEFINE N == Len(hs)
           seqs == [i \in DOMAIN hs |-> HostLines(hs[i])]
<1>1. /\ DOMAIN hs = 1..N /\ N \in Nat /\ \A i \in 1..N : hs[i] \in HostSet
      /\ CarriedEach(hs) \in Seq(HostSet) /\ Len(CarriedEach(hs)) = N
      /\ \A i \in 1..N : CarriedEach(hs)[i] = Carried(hs[i])
      /\ CarriedHosts(hs) = Only(CarriedEach(hs), Named(hs))
  BY CarriedEachType
<1>2. PICK sum : OnlySums(CarriedEach(hs), Named(hs), HostSet, sum)
  BY <1>1, OnlyTrace
<1>3. /\ sum \in [0..N -> Seq(HostSet)] /\ sum[0] = <<>> /\ CarriedHosts(hs) = sum[N]
      /\ \A i \in 1..N : sum[i] = IF HasWildcard(hs[i].name) THEN sum[i - 1]
                                  ELSE Append(sum[i - 1], Carried(hs[i]))
  <2>1. \A i \in 1..N : i \in Named(hs) <=> ~HasWildcard(hs[i].name)
    BY <1>1 DEF Named
  <2>2. /\ sum \in [0..N -> Seq(HostSet)] /\ sum[0] = <<>> /\ CarriedHosts(hs) = sum[N]
        /\ \A i \in 1..N : sum[i] = IF i \in Named(hs) THEN Append(sum[i - 1], CarriedEach(hs)[i])
                                    ELSE sum[i - 1]
    BY <1>1, <1>2 DEF OnlySums
  <2> QED
    BY <1>1, <2>1, <2>2
<1> DEFINE place(i) == IF i = 0 THEN "defaults" ELSE IF HasWildcard(hs[i].name) THEN "skip" ELSE "host"
           reader(i) == [hosts |-> sum[i], defaults |-> NoDefaults, at |-> place(i)]
           st == [i \in 0..N |-> reader(i)]
<1>4. seqs \in Seq(Seq(Lines)) /\ Len(seqs) = N /\ Written(hs) = <<Skipped>> \o FlattenSeq(seqs)
      /\ \A i \in 1..N : seqs[i] = HostLines(hs[i])
  BY <1>1, WrittenType DEF Written
<1>5. ASSUME NEW i \in 0..N PROVE reader(i) \in ReaderSet
  <2>1. place(i) = "host" => sum[i] # <<>>
    <3> SUFFICES ASSUME place(i) = "host" PROVE sum[i] # <<>>
      OBVIOUS
    <3>1. i \in 1..N /\ i - 1 \in 0..N /\ ~HasWildcard(hs[i].name)
      BY <1>1
    <3>2. sum[i] = Append(sum[i - 1], Carried(hs[i])) /\ sum[i - 1] \in Seq(HostSet)
      BY <1>3, <3>1
    <3>3. Carried(hs[i]) \in HostSet
      BY <1>1, <3>1, CarriedType
    <3> HIDE DEF HostSet
    <3> QED
      BY <3>2, <3>3, AppendProperties
  <2>2. sum[i] \in Seq(HostSet) /\ NoDefaults \in HostSet /\ place(i) \in {"defaults", "skip", "host"}
    BY <1>3, NoDefaultsType
  <2> HIDE DEF place, HostSet
  <2> QED
    BY <2>1, <2>2 DEF ReaderSet
<1>6. st \in [0..N -> ReaderSet]
  <2> HIDE DEF reader
  <2> QED
    BY <1>5
<1>7. ASSUME NEW i \in 1..N PROVE st[i] = Reading!Fold(st[i - 1], seqs[i])
  <2>0. i \in 0..N /\ i - 1 \in 0..N /\ i # 0
    BY <1>1
  <2>1. st[i - 1] \in ReaderSet /\ st[i - 1].defaults = NoDefaults /\ st[i - 1].hosts = sum[i - 1]
    BY <1>6, <2>0
  <2>2. hs[i] \in HostSet /\ seqs[i] = HostLines(hs[i])
    BY <1>1, <1>4
  <2>3. st[i] = [hosts |-> sum[i], defaults |-> NoDefaults,
                 at |-> IF HasWildcard(hs[i].name) THEN "skip" ELSE "host"]
    BY <2>0
  <2>4. st[i - 1] = [hosts |-> sum[i - 1], defaults |-> NoDefaults, at |-> st[i - 1].at]
    BY <2>0
  <2>5. sum[i] = IF HasWildcard(hs[i].name) THEN sum[i - 1] ELSE Append(sum[i - 1], Carried(hs[i]))
    BY <1>3
  <2> HIDE DEF st, seqs
  <2>6. Reading!Fold(st[i - 1], HostLines(hs[i]))
          = IF HasWildcard(hs[i].name) THEN [st[i - 1] EXCEPT !.at = "skip"]
                                       ELSE InHost(st[i - 1].hosts, Carried(hs[i]))
    BY <2>1, <2>2, ReadHost
  <2>7. CASE HasWildcard(hs[i].name)
    <3>1. [st[i - 1] EXCEPT !.at = "skip"] = st[i]
      BY <2>3, <2>4, <2>5, <2>7
    <3> QED
      BY <2>2, <2>6, <2>7, <3>1
  <2>8. CASE ~HasWildcard(hs[i].name)
    <3>1. InHost(st[i - 1].hosts, Carried(hs[i])) = st[i]
      BY <2>1, <2>3, <2>5, <2>8 DEF InHost
    <3> QED
      BY <2>2, <2>6, <2>8, <3>1
  <2> QED
    BY <2>7, <2>8
<1>8. st[0] = ReaderStart /\ st[N] = reader(N) /\ N \in 0..N
  BY <1>1, <1>3 DEF ReaderStart
<1>9. Reading!Fold(ReaderStart, FlattenSeq(seqs)) = st[N]
  <2> HIDE DEF st, seqs
  <2>1. Reading!FoldPieces(ReaderSet, ReaderStart, seqs, st)
    BY <1>4, <1>6, <1>7, <1>8 DEF Reading!FoldPieces
  <2> QED
    BY <1>4, <2>1, ReaderStartType, ReadPieces
<1>10. Reading!Fold(ReaderStart, Written(hs)) = st[N]
  <2>1. Skipped \in Lines /\ Key(Skipped) # "Host"
    BY DEF Lines, Key, Skipped
  <2>2. Reading!Fold(ReaderStart, <<Skipped>>) = ReaderStart
    <3>1. ReadLine(ReaderStart, Skipped) = ReaderStart
      BY <2>1 DEF ReadLine
    <3> QED
      BY <2>1, <3>1, ReaderStartType, ReadOne
  <2> HIDE DEF seqs, st
  <2>3. <<Skipped>> \in Seq(Lines) /\ FlattenSeq(seqs) \in Seq(Lines)
    BY <1>4, <2>1, FlattenType
  <2>4. Reading!Fold(ReaderStart, <<Skipped>> \o FlattenSeq(seqs))
          = Reading!Fold(Reading!Fold(ReaderStart, <<Skipped>>), FlattenSeq(seqs))
    BY <2>3, ReaderStartType, ReadConcat
  <2> QED
    BY <1>4, <1>9, <2>2, <2>4
<1>11. Finish(st[N]) = st[N]
  <2>1. st[N] \in ReaderSet /\ st[N].defaults = NoDefaults
    BY <1>6, <1>8
  <2> HIDE DEF st
  <2> QED
    BY <2>1, FinishNothing
<1>12. st[N].hosts = CarriedHosts(hs)
  BY <1>3, <1>8
<1> HIDE DEF st
<1> QED
  BY <1>10, <1>11, <1>12, ParseFold

\* A host that was carried once is carried whole.
LEMMA CarriedTwice ==
  ASSUME LimitsAssumption, KeysAssumption, NEW hs \in Seq(HostSet)
  PROVE  /\ CarriedHosts(hs) \in Seq(HostSet)
         /\ CarriedHosts(CarriedHosts(hs)) = CarriedHosts(hs)
<1> DEFINE F == {h \in HostSet : ~HasWildcard(h.name) /\ Carried(h) = h}
           cs == CarriedHosts(hs)
<1>1. /\ DOMAIN hs = 1..Len(hs) /\ \A i \in 1..Len(hs) : hs[i] \in HostSet
      /\ CarriedEach(hs) \in Seq(HostSet) /\ Len(CarriedEach(hs)) = Len(hs)
      /\ \A i \in 1..Len(hs) : CarriedEach(hs)[i] = Carried(hs[i])
      /\ cs = Only(CarriedEach(hs), Named(hs))
  BY CarriedEachType
<1>2. \A i \in 1..Len(hs) : i \in Named(hs) => CarriedEach(hs)[i] \in F
  <2> SUFFICES ASSUME NEW i \in 1..Len(hs), i \in Named(hs) PROVE CarriedEach(hs)[i] \in F
    OBVIOUS
  <2>1. CarriedEach(hs)[i] = Carried(hs[i]) /\ hs[i] \in HostSet /\ ~HasWildcard(hs[i].name)
    BY <1>1 DEF Named
  <2>2. /\ Carried(hs[i]) \in HostSet /\ Carried(hs[i]).name = hs[i].name
        /\ Carried(Carried(hs[i])) = Carried(hs[i])
    BY <2>1, CarriedType
  <2> HIDE DEF HostSet
  <2> QED
    BY <2>1, <2>2
<1>3. cs \in Seq(F)
  <2> HIDE DEF F
  <2> QED
    BY <1>1, <1>2, OnlyElements
<1>4. cs \in Seq(HostSet)
  <2>1. F \subseteq HostSet
    OBVIOUS
  <2> HIDE DEF F, cs
  <2> QED
    BY <1>3, <2>1, SeqMonotonic
<1> HIDE DEF cs
<1>5. DOMAIN cs = 1..Len(cs) /\ \A i \in 1..Len(cs) : ~HasWildcard(cs[i].name) /\ Carried(cs[i]) = cs[i]
  <2>1. DOMAIN cs = 1..Len(cs)
    BY <1>4, LenProperties
  <2>2. \A i \in 1..Len(cs) : cs[i] \in F
    <3> HIDE DEF F
    <3> QED
      BY <1>3, ElementOfSeq
  <2> HIDE DEF HostSet
  <2> QED
    BY <2>1, <2>2
<1>6. CarriedEach(cs) = cs
  <2>1. CarriedEach(cs) = [i \in 1..Len(cs) |-> cs[i]]
    BY <1>5 DEF CarriedEach
  <2>2. cs = [i \in 1..Len(cs) |-> cs[i]]
    BY <1>4, <1>5
  <2> QED
    BY <2>1, <2>2
<1>7. CarriedHosts(cs) = Only(cs, Named(cs))
  BY <1>4, <1>6, CarriedEachType
<1>8. \A i \in 1..Len(cs) : i \in Named(cs)
  BY <1>5 DEF Named
<1>9. Only(cs, Named(cs)) = cs
  BY <1>4, <1>8, OnlyAll
<1> QED
  BY <1>4, <1>7, <1>9 DEF cs

\* FileInv at every moment.
LEMMA FileInvHolds == Spec => []FileInv
<1> DEFINE I == FileInv /\ StepsInv
<1>1. Init => I
  BY InitFile, FilesAssumption
<1>2. I /\ [Next]_vars => I'
  BY NextFile, NextSteps, LimitsAssumption, KeysAssumption, FilesAssumption
<1>3. I => FileInv
  OBVIOUS
<1> HIDE DEF I
<1> QED
  BY <1>1, <1>2, <1>3, PTL DEF Spec

\* What ssh_hosts_write_config writes of the hosts in memory, parse_ssh_config
\* reads back as those hosts, but for what the format of the file cannot carry.
THEOREM RoundTripHolds == Spec => []RoundTrip
<1>1. ASSUME FileInv PROVE RoundTrip
  <2>1. hosts \in Seq(HostSet)
    BY <1>1 DEF FileInv
  <2>2. Written(hosts) \in Seq(Lines)
    BY <2>1, WrittenType, KeysAssumption
  <2>3. Written(hosts) # None
    BY <2>2, FilesAssumption DEF FilesAssumption
  <2>4. CarriedHosts(Parse(Written(hosts))) = CarriedHosts(hosts)
    BY <2>1, WrittenIsRead, CarriedTwice, LimitsAssumption, KeysAssumption
  <2> QED
    BY <2>3, <2>4 DEF RoundTrip
<1>2. QED
  BY <1>1, FileInvHolds, PTL

-----------------------------------------------------------------------------
(* Memory and the file                                                     *)

\* Each step keeps SyncInv: a save is under way only with a change in memory.
LEMMA NextSync ==
  ASSUME SyncInv, [Next]_vars
  PROVE  SyncInv'
<1> USE DEF SyncInv, LoadedOrWritten
<1>1. CASE UseLocal \/ UseLocalCut
  BY <1>1 DEF UseLocal, UseLocalCut, fileVars
<1>2. ASSUME NEW newHosts, Change(newHosts)
      PROVE  SyncInv'
  BY <1>2 DEF Change
<1>3. ASSUME NEW j, NEW n, SaveHost(j) \/ DeleteHost(n)
      PROVE  SyncInv'
  BY <1>2, <1>3 DEF SaveHost, DeleteHost
<1>4. CASE Backup \/ Copy \/ CopyCut \/ Open \/ SyncFails
  BY <1>4 DEF Backup, Copy, CopyCut, Open, SyncFails, histVars
<1>5. CASE Write \/ WriteCut
  BY <1>5 DEF Write, WriteCut
<1>6. CASE Restart
  BY <1>6 DEF Restart
<1>7. CASE UNCHANGED vars
  BY <1>7 DEF vars, fileVars, histVars
<1>8. QED
  BY <1>1, <1>3, <1>4, <1>5, <1>6, <1>7 DEF Next

\* Between two changes the hosts in memory are the ones ~/.ssh/config was last
\* read as or written from: no failed, cut or interrupted save leaves cm->hosts
\* and the file apart without unsynced telling so, and no read without unread.
THEOREM LoadedOrWrittenHolds == Spec => []LoadedOrWritten
<1>1. Init => SyncInv
  BY DEF Init, SyncInv, LoadedOrWritten
<1>2. SyncInv => LoadedOrWritten
  BY DEF SyncInv
<1>3. QED
  BY <1>1, <1>2, NextSync, PTL DEF Spec

\* Between two changes ~/.ssh/config reads back as the hosts in memory, as far as
\* its format carries them: parse_ssh_config undoes ssh_hosts_write_config, and no
\* step of a save leaves memory and file apart without unsynced telling so, unless
\* the file was read in part (UseLocalCut), which unread tells.
THEOREM SavedIsReadHolds == Spec => []SavedIsRead
<1>1. LoadedOrWritten /\ RoundTrip => SavedIsRead
  BY DEF LoadedOrWritten, RoundTrip, SavedIsRead, Contents
<1>2. QED
  BY <1>1, LoadedOrWrittenHolds, RoundTripHolds, PTL

-----------------------------------------------------------------------------
(* The host that was posted                                                *)

\* The search for a name finds the first host that has it.
LEMMA SelectIsFirst ==
  ASSUME NEW hs \in Seq(HostSet), NEW name, NEW h, IsFirst(hs, name, h)
  PROVE  LET i == SelectInSeq(hs, LAMBDA g : g.name = name) IN i # 0 /\ hs[i] = h
<1> DEFINE I == {i \in 1..Len(hs) : hs[i].name = name}
<1>1. DOMAIN hs = 1..Len(hs) /\ Len(hs) \in Nat
  BY LenProperties
<1>2. PICK i \in DOMAIN hs : hs[i] = h /\ h.name = name /\ \A j \in 1..(i - 1) : hs[j].name # name
  BY DEF IsFirst
<1>3. I \in SUBSET Nat /\ i \in I
  BY <1>1, <1>2
<1>4. \A j \in I : i <= j
  <2> SUFFICES ASSUME NEW j \in I, ~(i <= j) PROVE FALSE
    OBVIOUS
  <2>1. j \in 1..(i - 1)
    BY <1>1
  <2> QED
    BY <1>2, <2>1
<1>5. Min(I) = i
  <2> HIDE DEF I
  <2> QED
    BY <1>3, <1>4, MinIs
<1>6. SelectInSeq(hs, LAMBDA g : g.name = name) = IF I # {} THEN Min(I) ELSE 0
  BY DEF SelectInSeq
<1>7. SelectInSeq(hs, LAMBDA g : g.name = name) = i
  BY <1>3, <1>5, <1>6
<1> QED
  BY <1>1, <1>2, <1>7

\* cm_save_host: the host that was posted is the first of its name.
LEMMA SavedIsFirst ==
  ASSUME LimitsAssumption, hosts \in Seq(HostSet), NEW j \in JsonSet
  PROVE  IsFirst(IF Found(j.name) = 0 THEN Append(hosts, FromJson(j))
                 ELSE ReplaceAt(hosts, Found(j.name), FromJson(j)), j.name, FromJson(j))
<1> DEFINE h == FromJson(j)
           N == Len(hosts)
<1>1. h \in HostSet /\ h.name = j.name
  BY FromJsonType DEF FromJson
<1>2. N \in Nat
  BY LenProperties
<1> HIDE DEF h
<1>3. CASE Found(j.name) = 0
  <2> DEFINE new == Append(hosts, h)
  <2>1. /\ new \in Seq(HostSet) /\ Len(new) = N + 1 /\ new[N + 1] = h
        /\ \A i \in 1..N : new[i] = hosts[i]
    BY <1>1, AppendProperties
  <2>2. \A i \in 1..N : hosts[i].name # j.name
    BY <1>3, FoundFirst
  <2> HIDE DEF new
  <2>3. N + 1 \in DOMAIN new /\ \A i \in 1..((N + 1) - 1) : new[i].name # j.name
    BY <1>2, <2>1, <2>2
  <2>4. IsFirst(new, j.name, h)
    BY <1>1, <2>1, <2>3 DEF IsFirst
  <2> QED
    BY <1>3, <2>4 DEF new, h
<1>4. CASE Found(j.name) # 0
  <2> DEFINE f == Found(j.name)
             new == ReplaceAt(hosts, f, h)
  <2>1. f \in 1..N /\ \A i \in 1..(f - 1) : hosts[i].name # j.name
    BY <1>4, FoundFirst
  <2> HIDE DEF f
  <2>2. /\ new \in Seq(HostSet) /\ Len(new) = N
        /\ \A i \in 1..N : new[i] = IF i = f THEN h ELSE hosts[i]
    BY <1>1, <2>1, ExceptSeq DEF ReplaceAt
  <2> HIDE DEF new
  <2>3. f \in DOMAIN new /\ new[f] = h /\ \A i \in 1..(f - 1) : new[i].name # j.name
    BY <1>2, <2>1, <2>2
  <2>4. IsFirst(new, j.name, h)
    BY <1>1, <2>3 DEF IsFirst
  <2> QED
    BY <1>4, <2>4 DEF new, f, h
<1> QED
  BY <1>3, <1>4

\* cm_delete_host: another host's place is nobody's.
LEMMA DeletedIsFirst ==
  ASSUME hosts \in Seq(HostSet), NEW other, Found(other) # 0, NEW name, name # other,
         NEW h, IsFirst(hosts, name, h)
  PROVE  IsFirst(RemoveAt(hosts, Found(other)), name, h)
<1> DEFINE N == Len(hosts)
           f == Found(other)
           new == RemoveAt(hosts, f)
<1>1. N \in Nat /\ f \in 1..N /\ hosts[f].name = other /\ DOMAIN hosts = 1..N
  BY FoundFirst, LenProperties
<1>2. \A i \in 1..N : hosts[i] \in HostSet
  BY ElementOfSeq
<1> HIDE DEF f, N, new
<1> DEFINE s == SubSeq(hosts, 1, f - 1)
           t == SubSeq(hosts, f + 1, N)
<1>3. /\ s \in Seq(HostSet) /\ Len(s) = f - 1 /\ \A i \in 1..(f - 1) : s[i] = hosts[i]
      /\ t \in Seq(HostSet) /\ Len(t) = N - f /\ \A i \in 1..(N - f) : t[i] = hosts[f + i]
  <2>1. /\ f - 1 \in Int /\ f + 1 \in Int /\ N \in Int
        /\ \A i \in 1..(f - 1) : hosts[i] \in HostSet
        /\ \A i \in (f + 1)..N : hosts[i] \in HostSet
    BY <1>1, <1>2
  <2>2. s \in Seq(HostSet) /\ Len(s) = f - 1 /\ \A i \in 1..(f - 1) : s[i] = hosts[i]
    <3>1. /\ s \in Seq(HostSet) /\ Len(s) = (IF 1 <= f - 1 THEN (f - 1) - 1 + 1 ELSE 0)
          /\ \A i \in 1..((f - 1) - 1 + 1) : s[i] = hosts[1 + i - 1]
      BY <2>1, SubSeqProperties
    <3> HIDE DEF s
    <3> QED
      BY <1>1, <3>1
  <2>3. t \in Seq(HostSet) /\ Len(t) = N - f /\ \A i \in 1..(N - f) : t[i] = hosts[f + i]
    <3> DEFINE lo == f + 1
    <3>1. lo \in Int /\ t = SubSeq(hosts, lo, N) /\ \A i \in lo..N : hosts[i] \in HostSet
      <4>1. lo \in Int
        BY <2>1
      <4>2. t = SubSeq(hosts, lo, N)
        OBVIOUS
      <4>3. \A i \in lo..N : hosts[i] \in HostSet
        <5>1. \A i \in lo..N : i \in 1..N
          BY <1>1
        <5> HIDE DEF lo, s
        <5> QED
          BY <1>2, <5>1
      <4> HIDE DEF lo, t
      <4> QED
        BY <4>1, <4>2, <4>3
    <3> HIDE DEF lo, t
    <3>2. /\ t \in Seq(HostSet) /\ Len(t) = (IF lo <= N THEN N - lo + 1 ELSE 0)
          /\ \A i \in 1..(N - lo + 1) : t[i] = hosts[lo + i - 1]
      BY <2>1, <3>1, SubSeqProperties
    <3>3. N - lo + 1 = N - f /\ (lo <= N \/ N - f = 0)
      BY <1>1 DEF lo
    <3>5. Len(t) = N - f
      BY <1>1, <3>2, <3>3 DEF lo
    <3>4. \A i \in 1..(N - f) : lo + i - 1 = f + i
      BY <1>1 DEF lo
    <3> QED
      BY <3>2, <3>3, <3>4, <3>5
  <2> QED
    BY <2>2, <2>3
<1>4. new = s \o t
  BY DEF RemoveAt, new, N
<1> HIDE DEF s, t
<1>5. /\ new \in Seq(HostSet) /\ Len(new) = N - 1 /\ DOMAIN new = 1..(N - 1)
      /\ \A i \in 1..(N - 1) : new[i] = IF i < f THEN hosts[i] ELSE hosts[i + 1]
  <2>1. /\ new \in Seq(HostSet) /\ Len(new) = (f - 1) + (N - f)
        /\ \A i \in 1..((f - 1) + (N - f)) : new[i] = IF i <= f - 1 THEN s[i] ELSE t[i - (f - 1)]
    BY <1>3, <1>4, ConcatProperties
  <2>2. Len(new) = N - 1 /\ DOMAIN new = 1..(N - 1)
    BY <1>1, <2>1, LenProperties
  <2>3. ASSUME NEW i \in 1..(N - 1)
        PROVE  new[i] = IF i < f THEN hosts[i] ELSE hosts[i + 1]
    <3>1. new[i] = IF i <= f - 1 THEN s[i] ELSE t[i - (f - 1)]
      BY <1>1, <2>1
    <3>2. CASE i < f
      <4>1. i \in 1..(f - 1) /\ i <= f - 1
        BY <1>1, <3>2
      <4> QED
        BY <1>3, <3>1, <3>2, <4>1
    <3>3. CASE ~(i < f)
      <4>1. i - (f - 1) \in 1..(N - f) /\ f + (i - (f - 1)) = i + 1 /\ ~(i <= f - 1)
        BY <1>1, <3>3
      <4>2. t[i - (f - 1)] = hosts[f + (i - (f - 1))]
        BY <1>3, <4>1
      <4> QED
        BY <3>1, <3>3, <4>1, <4>2
    <3> QED
      BY <3>2, <3>3
  <2> QED
    BY <2>1, <2>2, <2>3
<1>6. PICK i \in 1..N : hosts[i] = h /\ h.name = name /\ \A j \in 1..(i - 1) : hosts[j].name # name
  BY <1>1 DEF IsFirst
<1>7. i # f
  BY <1>1, <1>6
<1>8. CASE i < f
  <2>1. i \in 1..(N - 1)
    BY <1>1, <1>8
  <2>2. new[i] = h /\ i \in DOMAIN new
    BY <1>5, <1>6, <1>8, <2>1
  <2>3. \A j \in 1..(i - 1) : new[j] = hosts[j]
    <3>1. \A j \in 1..(i - 1) : j \in 1..(N - 1) /\ j < f
      BY <1>1, <1>8, <2>1
    <3> QED
      BY <1>5, <3>1
  <2> QED
    BY <1>6, <2>2, <2>3 DEF IsFirst, new, f
<1>9. CASE i > f
  <2>1. i - 1 \in 1..(N - 1) /\ ~(i - 1 < f) /\ (i - 1) + 1 = i
    BY <1>1, <1>9
  <2>2. new[i - 1] = h /\ i - 1 \in DOMAIN new
    BY <1>5, <1>6, <2>1
  <2>3. ASSUME NEW j \in 1..((i - 1) - 1) PROVE new[j].name # name
    <3>1. j \in 1..(N - 1) /\ j \in 1..(i - 1) /\ j + 1 \in 1..(i - 1)
      BY <1>1, <2>1
    <3> QED
      BY <1>5, <1>6, <3>1
  <2> QED
    BY <1>6, <2>2, <2>3 DEF IsFirst, new, f
<1> QED
  BY <1>1, <1>6, <1>7, <1>8, <1>9

\* Carried by the file, the first host of a name is still the first.
LEMMA CarriedIsFirst ==
  ASSUME LimitsAssumption, KeysAssumption, NEW hs \in Seq(HostSet),
         NEW name, ~HasWildcard(name), NEW h, IsFirst(hs, name, h)
  PROVE  IsFirst(CarriedHosts(hs), name, Carried(h))
<1> DEFINE N == Len(hs)
           each == CarriedEach(hs)
<1>1. /\ DOMAIN hs = 1..N /\ N \in Nat /\ \A i \in 1..N : hs[i] \in HostSet
      /\ each \in Seq(HostSet) /\ Len(each) = N
      /\ \A i \in 1..N : each[i] = Carried(hs[i])
      /\ CarriedHosts(hs) = Only(each, Named(hs))
  BY CarriedEachType
<1>2. PICK p \in 1..N : hs[p] = h /\ h.name = name /\ \A j \in 1..(p - 1) : hs[j].name # name
  BY <1>1 DEF IsFirst
<1>3. \A i \in 1..N : each[i] \in HostSet /\ each[i].name = hs[i].name
  BY <1>1, CarriedType
<1>4. p \in Named(hs) /\ each[p] = Carried(h) /\ Carried(h).name = name
  BY <1>1, <1>2, <1>3 DEF Named
<1> HIDE DEF each, N
<1>5. PICK st : OnlySums(each, Named(hs), HostSet, st)
  BY <1>1, OnlyTrace
<1>6. /\ st \in [0..N -> Seq(HostSet)] /\ st[0] = <<>> /\ CarriedHosts(hs) = st[N]
      /\ \A i \in 1..N : st[i] = IF i \in Named(hs) THEN Append(st[i - 1], each[i]) ELSE st[i - 1]
  BY <1>1, <1>5 DEF OnlySums
<1> DEFINE Nobody(s) == \A j \in 1..Len(s) : s[j].name # name
           S == {n \in Nat : n <= N => /\ n < p => Nobody(st[n])
                                       /\ n >= p => IsFirst(st[n], name, Carried(h))}
<1>7. 0 \in S
  BY <1>1, <1>2, <1>6, EmptySeq
<1>8. ASSUME NEW n \in S PROVE n + 1 \in S
  <2> SUFFICES ASSUME n + 1 <= N
               PROVE  /\ n + 1 < p => Nobody(st[n + 1])
                      /\ n + 1 >= p => IsFirst(st[n + 1], name, Carried(h))
    BY <1>1
  <2>1. n \in Nat /\ n <= N /\ n + 1 \in 1..N /\ (n + 1) - 1 = n /\ n \in 0..N /\ p \in Nat
    BY <1>1
  <2> DEFINE s == st[n]
             e == each[n + 1]
             more == Append(s, e)
  <2>2. st[n + 1] = IF n + 1 \in Named(hs) THEN more ELSE s
    BY <1>6, <2>1
  <2>3. s \in Seq(HostSet) /\ e \in HostSet /\ e.name = hs[n + 1].name
    BY <1>3, <1>6, <2>1
  <2>4. n < p => Nobody(s)
    BY <2>1
  <2>5. n >= p => IsFirst(s, name, Carried(h))
    BY <2>1
  <2> HIDE DEF s, e, S
  <2>6. /\ more \in Seq(HostSet) /\ Len(more) = Len(s) + 1 /\ more[Len(s) + 1] = e
        /\ \A j \in 1..Len(s) : more[j] = s[j]
    BY <2>3, AppendProperties
  <2>7. DOMAIN s = 1..Len(s) /\ Len(s) \in Nat /\ DOMAIN more = 1..(Len(s) + 1)
    BY <2>3, <2>6, LenProperties
  <2> HIDE DEF more
  <2>8. CASE n + 1 < p
    <3>1. Nobody(s) /\ e.name # name
      BY <1>2, <2>1, <2>3, <2>4, <2>8
    <3>2. Nobody(more)
      BY <2>6, <2>7, <3>1
    <3> QED
      BY <2>1, <2>2, <2>8, <3>1, <3>2
  <2>9. CASE n + 1 = p
    <3>1. Nobody(s) /\ e = Carried(h) /\ n + 1 \in Named(hs)
      BY <1>4, <2>1, <2>4, <2>9 DEF e
    <3>2. Len(s) + 1 \in DOMAIN more /\ \A j \in 1..((Len(s) + 1) - 1) : more[j].name # name
      BY <2>6, <2>7, <3>1
    <3>3. IsFirst(more, name, Carried(h))
      BY <1>4, <2>6, <3>1, <3>2 DEF IsFirst
    <3> QED
      BY <2>1, <2>2, <2>9, <3>1, <3>3
  <2>10. CASE n + 1 > p
    <3>1. IsFirst(s, name, Carried(h))
      BY <2>1, <2>5, <2>10
    <3>2. IsFirst(more, name, Carried(h))
      <4>1. PICK i \in 1..Len(s) : s[i] = Carried(h) /\ Carried(h).name = name
                                   /\ \A j \in 1..(i - 1) : s[j].name # name
        BY <2>7, <3>1 DEF IsFirst
      <4>2. i \in DOMAIN more /\ more[i] = s[i] /\ \A j \in 1..(i - 1) : more[j] = s[j]
        BY <2>6, <2>7
      <4> QED
        BY <4>1, <4>2 DEF IsFirst
    <3> QED
      BY <2>1, <2>2, <2>10, <3>1, <3>2
  <2> QED
    BY <2>1, <2>8, <2>9, <2>10
<1>9. S = Nat
  <2> HIDE DEF Nobody
  <2>1. S \in SUBSET Nat
    OBVIOUS
  <2> HIDE DEF S
  <2> QED
    BY <1>7, <1>8, <2>1, NatSetInduction
<1>10. N \in S /\ N <= N /\ N >= p
  BY <1>1, <1>9
<1>11. IsFirst(st[N], name, Carried(h))
  BY <1>10
<1> QED
  BY <1>6, <1>11

\* The parts of PostedInv.
InMemory(hs, j) == \E h \in {FromJson(j), Carried(FromJson(j))} : IsFirst(hs, j.name, h)
InFile(file, j) == IsFirst(Parse(Contents(file)), j.name, Carried(FromJson(j)))

\* PostedInv by its parts.
LEMMA PostedParts ==
  PostedInv <=>
    (posted # None =>
       /\ posted \in JsonSet
       /\ at # "idle" => mode = "local"
       /\ ~HasWildcard(posted.name) =>
            /\ mode = "local" /\ (at = "idle" => ~unread /\ ~cut) => InMemory(hosts, posted)
            /\ at = "idle" /\ ~cut => InFile(config, posted))
  BY DEF PostedInv, InMemory, InFile

\* Each step keeps PostedInv.
LEMMA NextPosted ==
  ASSUME LimitsAssumption, KeysAssumption, FilesAssumption, FileInv, PostedInv, [Next]_vars
  PROVE  PostedInv'
<1> DEFINE Wild == HasWildcard(posted.name)
<1>1. /\ hosts \in Seq(HostSet) /\ Contents(config) \in Seq(Lines)
  BY EmptySeq DEF FileInv, Contents
<1>2. posted # None =>
        /\ posted \in JsonSet
        /\ at # "idle" => mode = "local"
        /\ ~Wild => /\ mode = "local" /\ (at = "idle" => ~unread /\ ~cut) => InMemory(hosts, posted)
                    /\ at = "idle" /\ ~cut => InFile(config, posted)
  BY PostedParts
<1>3. PostedInv' <=>
        (posted' # None =>
           /\ posted' \in JsonSet
           /\ at' # "idle" => mode' = "local"
           /\ ~HasWildcard(posted'.name) =>
                /\ mode' = "local" /\ (at' = "idle" => ~unread' /\ ~cut') => InMemory(hosts', posted')
                /\ at' = "idle" /\ ~cut' => InFile(config', posted'))
  BY DEF PostedInv, InMemory, InFile, Contents
<1>4. CASE UseLocal
  <2>1. /\ at = "idle" /\ at' = at /\ posted' = posted /\ config' = config /\ cut' = cut
        /\ hosts' = Parse(Contents(config))
    BY <1>4 DEF UseLocal, fileVars
  <2>2. InFile(config, posted) => InMemory(hosts', posted)
    BY <2>1 DEF InFile, InMemory
  <2> QED
    BY <1>2, <1>3, <2>1, <2>2
<1>14. CASE UseLocalCut
  <2>1. /\ at = "idle" /\ at' = at /\ posted' = posted /\ config' = config /\ cut' = cut
        /\ unread' = TRUE
    BY <1>14 DEF UseLocalCut, fileVars
  <2> QED
    BY <1>2, <1>3, <2>1
<1>5. ASSUME NEW j \in JsonSet, SaveHost(j)
      PROVE  PostedInv'
  <2>1. /\ at' = "sync" /\ mode = "local" /\ mode' = mode /\ posted' = j
        /\ hosts' = IF Found(j.name) = 0 THEN Append(hosts, FromJson(j))
                    ELSE ReplaceAt(hosts, Found(j.name), FromJson(j))
    BY <1>5 DEF SaveHost, Change
  <2>2. IsFirst(hosts', j.name, FromJson(j))
    BY <1>1, <2>1, SavedIsFirst
  <2>3. InMemory(hosts', j)
    BY <2>2 DEF InMemory
  <2> QED
    BY <1>3, <2>1, <2>3
<1>6. ASSUME NEW name, DeleteHost(name)
      PROVE  PostedInv'
  <2>1. /\ at' = "sync" /\ mode = "local" /\ mode' = mode /\ Found(name) # 0
        /\ posted' = IF unread \/ cut \/ (posted # None /\ posted.name = name) THEN None ELSE posted
        /\ hosts' = RemoveAt(hosts, Found(name))
    BY <1>6 DEF DeleteHost, Change
  <2>2. CASE posted # None /\ posted.name # name /\ ~unread /\ ~cut
    <3>1. ASSUME InMemory(hosts, posted) PROVE InMemory(hosts', posted)
      <4>1. PICK h \in {FromJson(posted), Carried(FromJson(posted))} : IsFirst(hosts, posted.name, h)
        BY <3>1 DEF InMemory
      <4>2. IsFirst(hosts', posted.name, h)
        BY <1>1, <2>1, <2>2, <4>1, DeletedIsFirst
      <4> QED
        BY <4>1, <4>2 DEF InMemory
    <3> QED
      BY <1>2, <1>3, <2>1, <2>2, <3>1
  <2>3. CASE posted = None \/ posted.name = name \/ unread \/ cut
    BY <1>3, <2>1, <2>3
  <2> QED
    BY <2>2, <2>3
<1>7. ASSUME NEW j \in Forms, NEW k \in Edited(j), SaveHost(Collected(k))
      PROVE  PostedInv'
  <2>1. Collected(k) \in JsonSet
    BY <1>1, FormsType, EditedType, CollectedType
  <2> QED
    BY <1>5, <1>7, <2>1
<1>8. CASE Backup \/ Copy \/ Open
  <2>1. at # "idle" /\ at' # "idle" /\ mode' = mode /\ hosts' = hosts /\ posted' = posted
    BY <1>8 DEF Backup, Copy, Open, histVars
  <2> QED
    BY <1>2, <1>3, <2>1
<1>9. CASE CopyCut
  <2>1. /\ at # "idle" /\ mode' = mode /\ hosts' = hosts
        /\ posted' = None \/ (posted' = posted /\ at' = "copied")
    BY <1>9 DEF CopyCut
  <2> QED
    BY <1>2, <1>3, <2>1
<1>10. CASE SyncFails
  <2>1. posted' = None
    BY <1>10 DEF SyncFails
  <2> QED
    BY <1>3, <2>1
<1>15. CASE WriteCut
  <2>1. at' = "idle" /\ cut' = TRUE /\ posted' = posted
    BY <1>15 DEF WriteCut
  <2> QED
    BY <1>2, <1>3, <2>1
<1>11. CASE Write
  <2>1. /\ at = "writing" /\ mode' = mode /\ hosts' = hosts /\ posted' = posted
        /\ config' = Written(hosts)
    BY <1>11 DEF Write
  <2>2. ASSUME posted # None, posted \in JsonSet, ~Wild, InMemory(hosts, posted)
        PROVE  InFile(config', posted)
    <3> DEFINE F == FromJson(posted)
    <3>1. F \in HostSet /\ Carried(Carried(F)) = Carried(F)
      BY <2>2, FromJsonType, CarriedType
    <3>2. PICK h \in {F, Carried(F)} : IsFirst(hosts, posted.name, h)
      BY <2>2 DEF InMemory
    <3>3. Carried(h) = Carried(F)
      BY <3>1, <3>2
    <3>4. IsFirst(CarriedHosts(hosts), posted.name, Carried(h))
      BY <1>1, <2>2, <3>2, CarriedIsFirst
    <3>5. Parse(Contents(config')) = CarriedHosts(hosts)
      <4>1. Written(hosts) # None
        BY <1>1, WrittenType DEF FilesAssumption
      <4>2. Parse(Written(hosts)) = CarriedHosts(hosts)
        BY <1>1, WrittenIsRead
      <4> QED
        BY <2>1, <4>1, <4>2 DEF Contents
    <3> QED
      BY <3>3, <3>4, <3>5 DEF InFile
  <2> QED
    BY <1>2, <1>3, <2>1, <2>2
<1>12. CASE Restart
  <2>1. /\ mode' = "first_run" /\ at' = "idle"
        /\ posted' = IF at = "idle" THEN posted ELSE None
        /\ cut' = cut /\ (at = "idle" => config' = config)
    BY <1>12 DEF Restart
  <2> QED
    BY <1>2, <1>3, <2>1
<1>13. CASE UNCHANGED vars
  <2>1. /\ at' = at /\ mode' = mode /\ hosts' = hosts /\ posted' = posted /\ config' = config
        /\ unread' = unread /\ cut' = cut
    BY <1>13 DEF vars, fileVars, histVars
  <2> QED
    BY <1>2, <1>3, <2>1
<1> QED
  BY <1>4, <1>6, <1>7, <1>8, <1>9, <1>10, <1>11, <1>12, <1>13, <1>14, <1>15 DEF Next

\* A host that was posted and whose save was answered with ok is, after every
\* later start, the first that parse_ssh_config reads under its name, with the
\* fields that were posted: for any files, hosts, deletions, failed loads and
\* restarts, as long as no write was cut.
THEOREM ShownHolds == Spec => []ShownAfterRestart
<1>1. ASSUME FileInv, PostedInv PROVE ShownAfterRestart
  <2> DEFINE read == Parse(Contents(config))
             F == FromJson(posted)
  <2>1. SUFFICES ASSUME ~cut, at = "idle", posted # None, ~HasWildcard(posted.name)
                 PROVE  LET i == SelectInSeq(read, LAMBDA h : h.name = posted.name) IN
                        i # 0 /\ ToJson(read[i]) = ToJson(Carried(F))
    BY DEF ShownAfterRestart, PostedIsShown
  <2>2. IsFirst(read, posted.name, Carried(F))
    BY <1>1, <2>1 DEF PostedInv
  <2>3. read \in Seq(HostSet)
    <3>1. Contents(config) \in Seq(Lines)
      BY <1>1, EmptySeq DEF FileInv, Contents
    <3> QED
      BY <3>1, ParseType, LimitsAssumption, KeysAssumption
  <2> HIDE DEF read, F
  <2>4. LET i == SelectInSeq(read, LAMBDA h : h.name = posted.name) IN i # 0 /\ read[i] = Carried(F)
    BY <2>2, <2>3, SelectIsFirst
  <2> QED
    BY <2>4
<1>2. Init => PostedInv
  BY DEF Init, PostedInv
<1>3. FileInv /\ PostedInv /\ [Next]_vars => PostedInv'
  BY NextPosted, LimitsAssumption, KeysAssumption, FilesAssumption
<1>4. QED
  BY <1>1, <1>2, <1>3, FileInvHolds, PTL DEF Spec

-----------------------------------------------------------------------------
(* What a file declares, one line after the other                          *)

\* One more element: it is taken when its position is.
LEMMA OnlyAppend ==
  ASSUME NEW E, NEW seq \in Seq(E), NEW e \in E, NEW S, NEW T,
         \A i \in 1..Len(seq) : i \in S <=> i \in T
  PROVE  Only(Append(seq, e), T) = IF Len(seq) + 1 \in T THEN Append(Only(seq, S), e) ELSE Only(seq, S)
<1> DEFINE N == Len(seq)
           more == Append(seq, e)
           pieces == [i \in DOMAIN seq |-> IF i \in S THEN <<seq[i]>> ELSE <<>>]
           piece == IF N + 1 \in T THEN <<e>> ELSE <<>>
           all == [i \in DOMAIN more |-> IF i \in T THEN <<more[i]>> ELSE <<>>]
<1>1. /\ N \in Nat /\ DOMAIN seq = 1..N /\ \A i \in 1..N : seq[i] \in E
      /\ more \in Seq(E) /\ Len(more) = N + 1 /\ DOMAIN more = 1..(N + 1)
      /\ more[N + 1] = e /\ \A i \in 1..N : more[i] = seq[i]
  BY LenProperties, ElementOfSeq, AppendProperties
<1> HIDE DEF more, N
<1>2. pieces \in Seq(Seq(E)) /\ Len(pieces) = N
  <2>1. \A i \in 1..N : (IF i \in S THEN <<seq[i]>> ELSE <<>>) \in Seq(E)
    BY <1>1
  <2>2. pieces \in Seq(Seq(E)) /\ DOMAIN pieces = 1..N
    BY <1>1, <2>1
  <2> HIDE DEF pieces
  <2> QED
    BY <1>1, <2>2, LenProperties
<1>3. piece \in Seq(E)
  BY EmptySeq
<1>4. all = Append(pieces, piece)
  <2>1. /\ Append(pieces, piece) \in Seq(Seq(E)) /\ Len(Append(pieces, piece)) = N + 1
        /\ Append(pieces, piece)[N + 1] = piece
        /\ \A i \in 1..N : Append(pieces, piece)[i] = pieces[i]
    <3> HIDE DEF pieces, piece
    <3> QED
      BY <1>2, <1>3, AppendProperties
  <2>2. all = [i \in 1..(N + 1) |-> Append(pieces, piece)[i]]
    <3>1. ASSUME NEW i \in 1..(N + 1)
          PROVE  (IF i \in T THEN <<more[i]>> ELSE <<>>) = Append(pieces, piece)[i]
      <4>1. CASE i = N + 1
        <5>1. Append(pieces, piece)[i] = piece
          BY <2>1, <4>1
        <5> QED
          BY <1>1, <4>1, <5>1
      <4>2. CASE i # N + 1
        <5>1. i \in 1..N
          BY <1>1, <4>2
        <5>2. Append(pieces, piece)[i] = pieces[i]
          BY <2>1, <5>1
        <5>3. pieces[i] = IF i \in S THEN <<seq[i]>> ELSE <<>>
          BY <1>1, <5>1
        <5>4. more[i] = seq[i] /\ (i \in S <=> i \in T)
          BY <1>1, <5>1 DEF N
        <5> QED
          BY <5>2, <5>3, <5>4
      <4> QED
        BY <4>1, <4>2
    <3> HIDE DEF pieces, piece
    <3> QED
      BY <1>1, <3>1
  <2> DEFINE ap == Append(pieces, piece)
  <2>3. ap = [i \in 1..(N + 1) |-> ap[i]]
    <3>1. ap \in Seq(Seq(E)) /\ Len(ap) = N + 1
      BY <2>1
    <3> HIDE DEF ap
    <3>2. ap \in [1..(N + 1) -> Seq(E)]
      BY <3>1, LenProperties
    <3> QED
      BY <3>2
  <2> HIDE DEF all, pieces, piece
  <2> QED
    BY <2>2, <2>3
<1>5. FlattenSeq(all) = FlattenSeq(pieces) \o piece
  <2> HIDE DEF all, pieces, piece
  <2> QED
    BY <1>2, <1>3, <1>4, FlattenAppend
<1>6. Only(more, T) = Only(seq, S) \o piece
  BY <1>5 DEF Only
<1>7. Only(seq, S) \in Seq(E)
  BY OnlyType
<1>8. Only(seq, S) \o <<>> = Only(seq, S) /\ Only(seq, S) \o <<e>> = Append(Only(seq, S), e)
  BY <1>7, ConcatEmptySeq, AppendIsConcat
<1> QED
  BY <1>6, <1>8 DEF more, N

\* The greatest of some positions.
LEMMA MaxIs ==
  ASSUME NEW I \in SUBSET Nat, NEW i \in I, \A j \in I : j <= i
  PROVE  Max(I) = i
<1>1. \A x \in I : (\A y \in I : x >= y) => x = i
  <2> SUFFICES ASSUME NEW x \in I, \A y \in I : x >= y PROVE x = i
    OBVIOUS
  <2>1. x \in Nat /\ i \in Nat /\ x >= i /\ x <= i
    OBVIOUS
  <2> QED
    BY <2>1
<1>2. \A y \in I : i >= y
  OBVIOUS
<1> QED
  BY <1>1, <1>2 DEF Max

\* ... which is one of them.
LEMMA MaxOfPositions ==
  ASSUME NEW n \in Nat, NEW I \in SUBSET (1..n), I # {}
  PROVE  Max(I) \in I
<1> DEFINE below == {n - i : i \in I}
<1>1. below \in SUBSET Nat /\ below # {}
  <2>1. ASSUME NEW i \in I PROVE n - i \in Nat
    <3>1. i \in 1..n
      OBVIOUS
    <3> QED
      BY <3>1
  <2> QED
    BY <2>1
<1>2. PICK b \in below : \A c \in below : b <= c
  <2> HIDE DEF below
  <2> QED
    BY <1>1, LeastExists
<1>3. PICK i \in I : b = n - i
  BY <1>2
<1>4. \A j \in I : j <= i
  <2> SUFFICES ASSUME NEW j \in I PROVE j <= i
    OBVIOUS
  <2>1. n - j \in below
    OBVIOUS
  <2>2. b <= n - j
    BY <1>2, <2>1
  <2> QED
    BY <1>3, <2>2
<1>5. I \in SUBSET Nat
  OBVIOUS
<1>6. Max(I) = i
  BY <1>4, <1>5, MaxIs
<1> QED
  BY <1>6

\* The last value is still that after a line that does not count.
LEMMA LastSame ==
  ASSUME NEW file \in Seq(Lines), NEW line \in Lines, NEW I \in SUBSET (1..Len(file)), NEW other
  PROVE  LastOr(Append(file, line), I, other) = LastOr(file, I, other)
<1>1. CASE I = {}
  BY <1>1 DEF LastOr
<1>2. CASE I # {}
  <2>1. Len(file) \in Nat /\ \A i \in 1..Len(file) : Append(file, line)[i] = file[i]
    BY AppendProperties, LenProperties
  <2>2. Max(I) \in I
    BY <1>2, <2>1, MaxOfPositions
  <2> QED
    BY <1>2, <2>1, <2>2 DEF LastOr
<1> QED
  BY <1>1, <1>2

\* ... and the line's after one that does.
LEMMA LastNew ==
  ASSUME NEW file \in Seq(Lines), NEW line \in Lines, NEW I \in SUBSET (1..Len(file)), NEW other
  PROVE  LastOr(Append(file, line), I \cup {Len(file) + 1}, other) = Value(line)
<1> DEFINE m == Len(file) + 1
           J == I \cup {m}
<1>1. Len(file) \in Nat /\ m \in Nat /\ Append(file, line)[m] = line
  BY AppendProperties, LenProperties
<1>2. J \in SUBSET Nat /\ m \in J /\ \A j \in J : j <= m
  <2>1. ASSUME NEW j \in I PROVE j \in Nat /\ j <= m
    <3>1. j \in 1..Len(file)
      OBVIOUS
    <3> QED
      BY <1>1, <3>1
  <2>2. m <= m
    BY <1>1
  <2> QED
    BY <1>1, <2>1, <2>2
<1>3. Max(J) = m
  <2> HIDE DEF J
  <2> QED
    BY <1>2, MaxIs
<1> QED
  BY <1>1, <1>2, <1>3 DEF LastOr

\* The first elements of a sequence.
LEMMA UptoType ==
  ASSUME NEW E, NEW seq \in Seq(E), NEW n \in Nat
  PROVE  /\ Upto(n, seq) \in Seq(E)
         /\ Len(Upto(n, seq)) = (IF Len(seq) < n THEN Len(seq) ELSE n)
         /\ \A i \in 1..Len(Upto(n, seq)) : Upto(n, seq)[i] = seq[i]
         /\ Len(seq) <= n => Upto(n, seq) = seq
<1> DEFINE k == IF Len(seq) < n THEN Len(seq) ELSE n
<1>1. Len(seq) \in Nat /\ k \in Nat /\ k <= Len(seq) /\ \A i \in 1..k : seq[i] \in E
  BY LenProperties, ElementOfSeq
<1> HIDE DEF k
<1>2. /\ SubSeq(seq, 1, k) \in Seq(E) /\ Len(SubSeq(seq, 1, k)) = k
      /\ \A i \in 1..k : SubSeq(seq, 1, k)[i] = seq[i]
  <2>1. /\ SubSeq(seq, 1, k) \in Seq(E) /\ Len(SubSeq(seq, 1, k)) = (IF 1 <= k THEN k - 1 + 1 ELSE 0)
        /\ \A i \in 1..(k - 1 + 1) : SubSeq(seq, 1, k)[i] = seq[1 + i - 1]
    BY <1>1, SubSeqProperties
  <2> QED
    BY <1>1, <2>1
<1>3. Upto(n, seq) = SubSeq(seq, 1, k)
  BY DEF Upto, k
<1>4. ASSUME Len(seq) <= n PROVE SubSeq(seq, 1, k) = seq
  <2>1. k = Len(seq)
    BY <1>1, <1>4 DEF k
  <2> QED
    BY <2>1, SubSeqFull
<1> QED
  BY <1>1, <1>2, <1>3, <1>4 DEF k

\* One more, while there is room.
LEMMA UptoAppend ==
  ASSUME NEW E, NEW seq \in Seq(E), NEW e \in E, NEW n \in Nat
  PROVE  Upto(n, Append(seq, e))
           = IF Len(Upto(n, seq)) < n THEN Append(Upto(n, seq), e) ELSE Upto(n, seq)
<1> DEFINE more == Append(seq, e)
           a == Upto(n, more)
           b == Upto(n, seq)
<1>1. /\ Len(seq) \in Nat /\ more \in Seq(E) /\ Len(more) = Len(seq) + 1
      /\ more[Len(seq) + 1] = e /\ \A i \in 1..Len(seq) : more[i] = seq[i]
  BY AppendProperties, LenProperties
<1> HIDE DEF more
<1>2. /\ a \in Seq(E) /\ Len(a) = (IF Len(more) < n THEN Len(more) ELSE n)
      /\ \A i \in 1..Len(a) : a[i] = more[i]
      /\ Len(more) <= n => a = more
  BY <1>1, UptoType
<1>3. /\ b \in Seq(E) /\ Len(b) = (IF Len(seq) < n THEN Len(seq) ELSE n)
      /\ \A i \in 1..Len(b) : b[i] = seq[i]
      /\ Len(seq) <= n => b = seq
  BY UptoType
<1> HIDE DEF a, b
<1>4. CASE Len(seq) < n
  <2>1. a = more /\ b = seq /\ Len(b) < n
    BY <1>1, <1>2, <1>3, <1>4
  <2> QED
    BY <2>1 DEF more, a, b
<1>5. CASE ~(Len(seq) < n)
  <2>0. Len(a) = n /\ Len(b) = n /\ n <= Len(seq)
    BY <1>1, <1>2, <1>3, <1>5
  <2>1. Len(a) = n /\ Len(b) = n /\ \A i \in 1..n : a[i] = b[i]
    <3>1. ASSUME NEW i \in 1..n PROVE a[i] = b[i]
      <4>1. i \in 1..Len(seq)
        BY <1>1, <2>0
      <4> QED
        BY <1>1, <1>2, <1>3, <2>0, <4>1
    <3> QED
      BY <2>0, <3>1
  <2>2. a = b
    BY <1>2, <1>3, <2>1, SeqEqual
  <2> QED
    BY <2>1, <2>2 DEF more, a, b
<1> QED
  BY <1>4, <1>5

\* A line is added to a file, and to the positions of a block of it.
Grown(file, block) == block \cup {Len(file) + 1}

\* The positions a definition looks for, when a line was added that is not theirs.
LEMMA SameSets ==
  ASSUME NEW file \in Seq(Lines), NEW line \in Lines, NEW block \in SUBSET (1..Len(file))
  PROVE  LET more == Append(file, line) IN
         /\ \A key : With(more, block, key) = With(file, block, key)
         /\ ValidPorts(more, block) = ValidPorts(file, block)
         /\ \A k : Accepted(more, block, k) = Accepted(file, block, k)
         /\ {i \in block : IsOption(more[i])} = {i \in block : IsOption(file[i])}
<1> DEFINE more == Append(file, line)
<1>1. \A i \in block : more[i] = file[i]
  BY AppendProperties
<1> HIDE DEF more
<1>2. \A key : With(more, block, key) = With(file, block, key)
  BY <1>1 DEF With
<1>3. ValidPorts(more, block) = ValidPorts(file, block)
  BY <1>1, <1>2 DEF ValidPorts, With
<1>4. \A k : Accepted(more, block, k) = Accepted(file, block, k)
  BY <1>1, <1>2 DEF Accepted, With
<1>5. {i \in block : IsOption(more[i])} = {i \in block : IsOption(file[i])}
  BY <1>1
<1> QED
  BY <1>2, <1>3, <1>4, <1>5 DEF more

\* ... and when it is.
LEMMA GrownSets ==
  ASSUME NEW file \in Seq(Lines), NEW line \in Lines, NEW block \in SUBSET (1..Len(file))
  PROVE  LET more == Append(file, line)
             m == Len(file) + 1
             grown == Grown(file, block) IN
         /\ \A key : With(more, grown, key)
                       = IF Key(line) = key THEN With(file, block, key) \cup {m}
                         ELSE With(file, block, key)
         /\ ValidPorts(more, grown)
              = IF Key(line) = "Port" /\ ValidPort(Value(line)) THEN ValidPorts(file, block) \cup {m}
                ELSE ValidPorts(file, block)
         /\ \A k : Accepted(more, grown, k)
                     = IF Key(line) = k /\ AcceptsForward(k, Value(line))
                         THEN Accepted(file, block, k) \cup {m}
                         ELSE Accepted(file, block, k)
         /\ {i \in grown : IsOption(more[i])}
              = IF IsOption(line) THEN {i \in block : IsOption(file[i])} \cup {m}
                ELSE {i \in block : IsOption(file[i])}
<1> DEFINE more == Append(file, line)
           m == Len(file) + 1
           grown == Grown(file, block)
<1>1. (\A i \in block : more[i] = file[i]) /\ more[m] = line
  <2>1. more[m] = line /\ \A i \in 1..Len(file) : more[i] = file[i]
    BY AppendProperties
  <2> QED
    BY <2>1
<1>2. grown = block \cup {m}
  BY DEF Grown
<1> HIDE DEF more, m, grown
<1>3. \A key : With(more, grown, key)
                 = IF Key(line) = key THEN With(file, block, key) \cup {m}
                   ELSE With(file, block, key)
  BY <1>1, <1>2 DEF With
<1>4. ValidPorts(more, grown)
        = IF Key(line) = "Port" /\ ValidPort(Value(line)) THEN ValidPorts(file, block) \cup {m}
          ELSE ValidPorts(file, block)
  BY <1>1, <1>2 DEF ValidPorts, With
<1>5. \A k : Accepted(more, grown, k)
               = IF Key(line) = k /\ AcceptsForward(k, Value(line))
                   THEN Accepted(file, block, k) \cup {m}
                   ELSE Accepted(file, block, k)
  BY <1>1, <1>2 DEF Accepted, With
<1>6. {i \in grown : IsOption(more[i])}
        = IF IsOption(line) THEN {i \in block : IsOption(file[i])} \cup {m}
          ELSE {i \in block : IsOption(file[i])}
  BY <1>1, <1>2
<1> QED
  BY <1>3, <1>4, <1>5, <1>6 DEF more, m, grown

\* The lines of rules that were understood.
RuleLineSet(k) == {line \in Lines : Key(line) = k /\ AcceptsForward(k, Value(line))}

\* The rules of a sequence of lines.
RuleList(lines) == [i \in DOMAIN lines |-> ForwardRule(Value(lines[i]))]

\* One more line is one more rule.
LEMMA RuleListAppend ==
  ASSUME KeysAssumption, NEW k \in ForwardKeys, NEW lines \in Seq(RuleLineSet(k))
  PROVE  /\ RuleList(lines) \in Seq(RuleSet) /\ Len(RuleList(lines)) = Len(lines)
         /\ \A line \in RuleLineSet(k) :
              RuleList(Append(lines, line)) = Append(RuleList(lines), ForwardRule(Value(line)))
<1>1. \A line \in RuleLineSet(k) : ForwardRule(Value(line)) \in RuleSet
  <2> SUFFICES ASSUME NEW line \in RuleLineSet(k) PROVE ForwardRule(Value(line)) \in RuleSet
    OBVIOUS
  <2>1. line \in Lines /\ Key(line) = k
    BY DEF RuleLineSet
  <2>2. k \notin TextKeys /\ k \notin {"#", "Host", "HostName", "Port"} /\ k \notin OptionKeys
    BY DEF KeysAssumption, OptionKeys
  <2>3. Key(Skipped) = "#"
    BY DEF Key, Skipped
  <2>4. line # Skipped
    BY <2>1, <2>2, <2>3
  <2>5. Value(line) \in Spellings
    BY <2>1, <2>2, <2>4, LineKinds
  <2> QED
    BY <2>5, ForwardRuleType
<1>2. /\ Len(lines) \in Nat /\ DOMAIN lines = 1..Len(lines)
      /\ \A i \in 1..Len(lines) : lines[i] \in RuleLineSet(k)
  BY LenProperties, ElementOfSeq
<1>3. RuleList(lines) \in Seq(RuleSet) /\ Len(RuleList(lines)) = Len(lines)
  <2>1. RuleList(lines) \in [1..Len(lines) -> RuleSet]
    BY <1>1, <1>2 DEF RuleList
  <2>2. RuleList(lines) \in Seq(RuleSet)
    BY <1>2, <2>1
  <2> QED
    BY <1>2, <2>1, <2>2, LenProperties
<1>4. ASSUME NEW line \in RuleLineSet(k)
      PROVE  RuleList(Append(lines, line)) = Append(RuleList(lines), ForwardRule(Value(line)))
  <2> DEFINE m == Len(lines) + 1
             more == Append(lines, line)
             rule == ForwardRule(Value(line))
             rs == RuleList(lines)
             both == Append(rs, rule)
  <2>1. /\ more[m] = line /\ (\A i \in 1..Len(lines) : more[i] = lines[i])
        /\ DOMAIN more = 1..m
    BY <1>2, AppendProperties, LenProperties
  <2>2. rule \in RuleSet /\ rs \in Seq(RuleSet) /\ Len(rs) = Len(lines)
        /\ \A i \in 1..Len(lines) : rs[i] = ForwardRule(Value(lines[i]))
    BY <1>1, <1>2, <1>3 DEF RuleList
  <2> HIDE DEF more, rule, rs
  <2>3. /\ both[m] = rule /\ (\A i \in 1..Len(lines) : both[i] = rs[i])
        /\ both \in Seq(RuleSet) /\ Len(both) = m
    BY <2>2, AppendProperties
  <2> HIDE DEF both
  <2>4. both \in [1..m -> RuleSet]
    BY <2>3, LenProperties
  <2>5. ASSUME NEW i \in 1..m PROVE both[i] = ForwardRule(Value(more[i]))
    <3>1. CASE i = m
      BY <2>1, <2>3, <3>1 DEF rule
    <3>2. CASE i # m
      <4>1. i \in 1..Len(lines)
        BY <1>2, <3>2
      <4> QED
        BY <2>1, <2>2, <2>3, <4>1
    <3> QED
      BY <3>1, <3>2
  <2>6. both = [i \in 1..m |-> ForwardRule(Value(more[i]))]
    BY <2>4, <2>5
  <2>7. RuleList(more) = [i \in 1..m |-> ForwardRule(Value(more[i]))]
    BY <2>1 DEF RuleList
  <2> QED
    BY <2>6, <2>7 DEF both, rs, rule, more
<1> QED
  BY <1>3, <1>4

\* The rules a block declares are those of the lines that were understood.
LEMMA RulesParts ==
  ASSUME NEW file \in Seq(Lines), NEW block \in SUBSET (1..Len(file)), NEW k
  PROVE  /\ Only(file, Accepted(file, block, k)) \in Seq(RuleLineSet(k))
         /\ Rules(file, block, k) = RuleList(Upto(MaxForwards, Only(file, Accepted(file, block, k))))
<1>1. \A i \in 1..Len(file) : i \in Accepted(file, block, k) => file[i] \in RuleLineSet(k)
  BY ElementOfSeq DEF Accepted, With, RuleLineSet
<1> QED
  BY <1>1, OnlyElements DEF Rules, RuleList

\* ... and fit their array.
LEMMA RulesType ==
  ASSUME KeysAssumption, LimitsAssumption,
         NEW file \in Seq(Lines), NEW block \in SUBSET (1..Len(file)), NEW k \in ForwardKeys
  PROVE  Rules(file, block, k) \in Seq(RuleSet) /\ Len(Rules(file, block, k)) <= MaxForwards
<1> DEFINE found == Only(file, Accepted(file, block, k))
           lines == Upto(MaxForwards, found)
<1>1. found \in Seq(RuleLineSet(k)) /\ MaxForwards \in Nat
  BY RulesParts DEF LimitsAssumption
<1> HIDE DEF found
<1>2. /\ lines \in Seq(RuleLineSet(k)) /\ Len(found) \in Nat
      /\ Len(lines) = (IF Len(found) < MaxForwards THEN Len(found) ELSE MaxForwards)
  BY <1>1, UptoType, LenProperties
<1> HIDE DEF lines
<1>3. RuleList(lines) \in Seq(RuleSet) /\ Len(RuleList(lines)) = Len(lines)
  BY <1>2, RuleListAppend
<1>4. Rules(file, block, k) = RuleList(lines)
  BY RulesParts DEF found, lines
<1>5. Len(lines) <= MaxForwards
  BY <1>1, <1>2
<1> QED
  BY <1>3, <1>4, <1>5

\* A rule that was understood is added to those of its keyword.
LEMMA RulesGrow ==
  ASSUME KeysAssumption, LimitsAssumption, NEW file \in Seq(Lines), NEW line \in Lines,
         NEW block \in SUBSET (1..Len(file)), NEW k \in ForwardKeys
  PROVE  Rules(Append(file, line), Grown(file, block), k)
           = IF /\ Key(line) = k /\ AcceptsForward(k, Value(line))
                /\ Len(Rules(file, block, k)) < MaxForwards
               THEN Append(Rules(file, block, k), ForwardRule(Value(line)))
               ELSE Rules(file, block, k)
<1> DEFINE more == Append(file, line)
           m == Len(file) + 1
           grown == Grown(file, block)
           old == Accepted(file, block, k)
           new == Accepted(more, grown, k)
           found == Only(file, old)
           lines == Upto(MaxForwards, found)
<1>1. /\ Len(file) \in Nat /\ more \in Seq(Lines) /\ Len(more) = m
      /\ grown \in SUBSET (1..Len(more)) /\ MaxForwards \in Nat
  <2>1. Len(file) \in Nat /\ more \in Seq(Lines) /\ Len(more) = m
    BY LenProperties, AppendProperties
  <2>2. grown \in SUBSET (1..m)
    <3>1. ASSUME NEW i \in block PROVE i \in 1..m
      <4>1. i \in 1..Len(file)
        OBVIOUS
      <4> QED
        BY <2>1, <4>1
    <3>2. m \in 1..m
      BY <2>1
    <3> QED
      BY <3>1, <3>2 DEF Grown
  <2> QED
    BY <2>1, <2>2 DEF LimitsAssumption
<1>2. new = IF Key(line) = k /\ AcceptsForward(k, Value(line)) THEN old \cup {m} ELSE old
  BY GrownSets
<1>3. old \in SUBSET (1..Len(file)) /\ m \notin old
  <2>1. old \subseteq block
    BY DEF Accepted, With
  <2>2. m \notin 1..Len(file)
    BY <1>1
  <2> QED
    BY <2>1, <2>2
<1>4. found \in Seq(RuleLineSet(k)) /\ Rules(file, block, k) = RuleList(lines)
      /\ Rules(more, grown, k) = RuleList(Upto(MaxForwards, Only(more, new)))
  BY <1>1, RulesParts
<1>5. Only(more, new) = IF m \in new THEN Append(found, line) ELSE found
  <2>1. \A i \in 1..Len(file) : i \in old <=> i \in new
    BY <1>1, <1>2
  <2> HIDE DEF old, new
  <2> QED
    BY <2>1, OnlyAppend
<1> HIDE DEF more, grown, old, new, found, m
<1>6. /\ lines \in Seq(RuleLineSet(k))
      /\ \A e \in RuleLineSet(k) :
           Upto(MaxForwards, Append(found, e)) = IF Len(lines) < MaxForwards THEN Append(lines, e) ELSE lines
  BY <1>1, <1>4, UptoType, UptoAppend
<1> HIDE DEF lines
<1>7. /\ Len(RuleList(lines)) = Len(lines)
      /\ \A e \in RuleLineSet(k) :
           RuleList(Append(lines, e)) = Append(RuleList(lines), ForwardRule(Value(e)))
  BY <1>6, RuleListAppend
<1>8. CASE Key(line) = k /\ AcceptsForward(k, Value(line))
  <2>1. line \in RuleLineSet(k) /\ m \in new
    BY <1>2, <1>8 DEF RuleLineSet
  <2>2. Rules(more, grown, k) = RuleList(IF Len(lines) < MaxForwards THEN Append(lines, line) ELSE lines)
    BY <1>4, <1>5, <1>6, <2>1
  <2> QED
    BY <1>4, <1>7, <1>8, <2>1, <2>2 DEF more, grown
<1>9. CASE ~(Key(line) = k /\ AcceptsForward(k, Value(line)))
  <2>1. m \notin new
    BY <1>2, <1>3, <1>9
  <2> QED
    BY <1>4, <1>5, <1>9, <2>1 DEF more, grown, lines
<1> QED
  BY <1>8, <1>9

\* A line whose keyword is none of those the reader knows is an option.
LEMMA OptionIs ==
  ASSUME KeysAssumption, NEW line \in Lines
  PROVE  IsOption(line) <=> line \in OptionLines
<1>1. CASE line = Skipped
  <2>1. Key(line) = "#" /\ line[1] = "#"
    BY <1>1 DEF Key, Skipped
  <2> QED
    BY <2>1 DEF IsOption, OptionLines, OptionKeys
<1>2. CASE line \in OptionLines
  BY <1>2 DEF IsOption, OptionLines, OptionKeys, Key
<1>3. CASE line \in ({"Host"} \X HostNames) \cup ({"HostName"} \X Words) \cup ({"Port"} \X Int)
  <2>1. Key(line) \in {"Host", "HostName", "Port"}
    BY <1>3 DEF Key
  <2> QED
    BY <2>1 DEF IsOption, OptionLines, OptionKeys, Key
<1>4. CASE line \in (TextKeys \X Words) \cup (ForwardKeys \X Spellings)
  <2>1. Key(line) \in TextKeys \cup ForwardKeys
    BY <1>4 DEF Key
  <2> QED
    BY <2>1 DEF IsOption, OptionLines, OptionKeys, Key
<1> QED
  BY <1>1, <1>2, <1>3, <1>4 DEF Lines

\* The positions of the options of a block.
OptionsAt(file, block) == {i \in block : IsOption(file[i])}

\* The options a block declares fit their array.
LEMMA OptionsType ==
  ASSUME KeysAssumption, LimitsAssumption,
         NEW file \in Seq(Lines), NEW block \in SUBSET (1..Len(file))
  PROVE  Only(file, OptionsAt(file, block)) \in Seq(OptionLines) /\ OptionsFit(Options(file, block))
<1> DEFINE found == Only(file, OptionsAt(file, block))
<1>1. \A i \in 1..Len(file) : i \in OptionsAt(file, block) => file[i] \in OptionLines
  BY ElementOfSeq, OptionIs DEF OptionsAt
<1>2. found \in Seq(OptionLines) /\ MaxOptions \in Nat
  BY <1>1, OnlyElements DEF LimitsAssumption
<1>3. Options(file, block) = Upto(MaxOptions, found)
  BY DEF Options, OptionsAt
<1> HIDE DEF found
<1>4. /\ Upto(MaxOptions, found) \in Seq(OptionLines) /\ Len(found) \in Nat
      /\ Len(Upto(MaxOptions, found)) = (IF Len(found) < MaxOptions THEN Len(found) ELSE MaxOptions)
  BY <1>2, UptoType, LenProperties
<1>5. OptionsFit(Options(file, block))
  BY <1>2, <1>3, <1>4 DEF OptionsFit
<1> QED
  BY <1>2, <1>5 DEF found

\* An option is added while there is room.
LEMMA OptionsGrow ==
  ASSUME KeysAssumption, LimitsAssumption, NEW file \in Seq(Lines), NEW line \in Lines,
         NEW block \in SUBSET (1..Len(file))
  PROVE  Options(Append(file, line), Grown(file, block))
           = IF line \in OptionLines /\ Len(Options(file, block)) < MaxOptions
               THEN Append(Options(file, block), line) ELSE Options(file, block)
<1> DEFINE more == Append(file, line)
           m == Len(file) + 1
           grown == Grown(file, block)
           old == OptionsAt(file, block)
           new == OptionsAt(more, grown)
           found == Only(file, old)
<1>1. Len(file) \in Nat /\ MaxOptions \in Nat
  BY LenProperties DEF LimitsAssumption
<1>2. new = IF line \in OptionLines THEN old \cup {m} ELSE old
  <2>1. /\ IsOption(line) <=> line \in OptionLines
        /\ {i \in grown : IsOption(more[i])}
             = IF IsOption(line) THEN {i \in block : IsOption(file[i])} \cup {m}
               ELSE {i \in block : IsOption(file[i])}
    BY GrownSets, OptionIs
  <2>2. new = {i \in grown : IsOption(more[i])} /\ old = {i \in block : IsOption(file[i])}
    BY DEF OptionsAt
  <2> HIDE DEF new, old, more, grown, m
  <2> QED
    BY <2>1, <2>2
<1>3. old \in SUBSET (1..Len(file)) /\ m \notin old
  <2>1. old \subseteq block
    BY DEF OptionsAt
  <2>2. m \notin 1..Len(file)
    BY <1>1
  <2> QED
    BY <2>1, <2>2
<1>4. found \in Seq(OptionLines)
      /\ Options(file, block) = Upto(MaxOptions, found)
      /\ Options(more, grown) = Upto(MaxOptions, Only(more, new))
  BY OptionsType DEF Options, OptionsAt
<1>5. Only(more, new) = IF m \in new THEN Append(found, line) ELSE found
  <2>1. \A i \in 1..Len(file) : i \in old <=> i \in new
    BY <1>1, <1>2
  <2> HIDE DEF old, new
  <2> QED
    BY <2>1, OnlyAppend
<1> HIDE DEF more, grown, old, new, found, m
<1>6. CASE line \in OptionLines
  <2>1. m \in new
    BY <1>2, <1>6
  <2>2. Upto(MaxOptions, Append(found, line))
          = IF Len(Upto(MaxOptions, found)) < MaxOptions THEN Append(Upto(MaxOptions, found), line)
            ELSE Upto(MaxOptions, found)
    BY <1>1, <1>4, <1>6, UptoAppend
  <2> QED
    BY <1>4, <1>5, <1>6, <2>1, <2>2 DEF more, grown
<1>7. CASE line \notin OptionLines
  <2>1. m \notin new
    BY <1>2, <1>3, <1>7
  <2> QED
    BY <1>4, <1>5, <1>7, <2>1 DEF more, grown
<1> QED
  BY <1>6, <1>7

\* What a block declares, by its parts.
TextOf(file, block, h) == [k \in TextKeys |-> LastOr(file, With(file, block, k), h.text[k])]
RulesOf(file, block) == [k \in ForwardKeys |-> Rules(file, block, k)]
HostNameIn(file, block, h) == LastOr(file, With(file, block, "HostName"), h.hostname)
PortIn(file, block, h) == LastOr(file, ValidPorts(file, block), h.port)

\* What a block says of a host, by its parts.
LEMMA GatheredParts ==
  ASSUME NEW file, NEW block, NEW h \in HostSet
  PROVE  Gathered(file, block, h)
           = HostOf(h.name, HostNameIn(file, block, h), PortIn(file, block, h),
                    TextOf(file, block, h), RulesOf(file, block), Options(file, block))
<1> DEFINE a == HostNameIn(file, block, h)
           p == PortIn(file, block, h)
           t == TextOf(file, block, h)
           f == RulesOf(file, block)
           o == Options(file, block)
<1>1. Gathered(file, block, h) =
        [h EXCEPT !.hostname = a, !.port = p, !.text = t, !.forwards = f, !.options = o]
  BY DEF Gathered, HostNameIn, PortIn, TextOf, RulesOf
<1> HIDE DEF a, p, t, f, o
<1>2. [h EXCEPT !.hostname = a, !.port = p, !.text = t, !.forwards = f, !.options = o]
        = HostOf(h.name, a, p, t, f, o)
  <2> DEFINE n == h.name
             h1 == [h EXCEPT !.hostname = a]
             h2 == [h1 EXCEPT !.port = p]
             h3 == [h2 EXCEPT !.text = t]
             h4 == [h3 EXCEPT !.forwards = f]
             h5 == [h4 EXCEPT !.options = o]
  <2>1. h = HostOf(n, h.hostname, h.port, h.text, h.forwards, h.options)
    BY HostParts
  <2> HIDE DEF n
  <2>2. [h EXCEPT !.hostname = a, !.port = p, !.text = t, !.forwards = f, !.options = o] = h5
    OBVIOUS
  <2> HIDE DEF h5
  <2>3. h1 = HostOf(n, a, h.port, h.text, h.forwards, h.options)
    BY <2>1 DEF HostOf
  <2> HIDE DEF h1
  <2>4. h2 = HostOf(n, a, p, h.text, h.forwards, h.options)
    BY <2>3 DEF HostOf
  <2> HIDE DEF h2
  <2>5. h3 = HostOf(n, a, p, t, h.forwards, h.options)
    BY <2>4 DEF HostOf
  <2> HIDE DEF h3
  <2>6. h4 = HostOf(n, a, p, t, f, h.options)
    BY <2>5 DEF HostOf
  <2> HIDE DEF h4
  <2>7. h5 = HostOf(n, a, p, t, f, o)
    BY <2>6 DEF HostOf, h5
  <2> QED
    BY <2>2, <2>7 DEF n
<1> QED
  BY <1>1, <1>2 DEF a, p, t, f, o

\* A line that is not in the block changes nothing.
LEMMA GatheredSame ==
  ASSUME NEW file \in Seq(Lines), NEW line \in Lines, NEW block \in SUBSET (1..Len(file)),
         NEW h \in HostSet
  PROVE  Gathered(Append(file, line), block, h) = Gathered(file, block, h)
<1> DEFINE more == Append(file, line)
<1>1. /\ \A key : With(more, block, key) = With(file, block, key)
      /\ ValidPorts(more, block) = ValidPorts(file, block)
      /\ \A k : Accepted(more, block, k) = Accepted(file, block, k)
      /\ OptionsAt(more, block) = OptionsAt(file, block)
  BY SameSets DEF OptionsAt
<1>2. /\ \A key : With(file, block, key) \in SUBSET (1..Len(file))
      /\ ValidPorts(file, block) \in SUBSET (1..Len(file))
      /\ \A k : Accepted(file, block, k) \in SUBSET (1..Len(file))
      /\ OptionsAt(file, block) \in SUBSET (1..Len(file))
  BY DEF With, ValidPorts, Accepted, OptionsAt
<1>3. /\ \A key, other : LastOr(more, With(more, block, key), other) = LastOr(file, With(file, block, key), other)
      /\ \A other : LastOr(more, ValidPorts(more, block), other) = LastOr(file, ValidPorts(file, block), other)
  BY <1>1, <1>2, LastSame
<1>4. ASSUME NEW S \in SUBSET (1..Len(file)) PROVE Only(more, S) = Only(file, S)
  <2>1. Len(file) + 1 \notin S
    <3>1. Len(file) \in Nat
      BY LenProperties
    <3> QED
      BY <3>1
  <2> QED
    BY <2>1, OnlyAppend
<1> HIDE DEF more
<1>5. \A k : Rules(more, block, k) = Rules(file, block, k)
  BY <1>1, <1>2, <1>4 DEF Rules
<1>6. Options(more, block) = Options(file, block)
  BY <1>1, <1>2, <1>4 DEF Options, OptionsAt
<1>7. TextOf(more, block, h) = TextOf(file, block, h)
  BY <1>3 DEF TextOf
<1>8. RulesOf(more, block) = RulesOf(file, block)
  BY <1>5 DEF RulesOf
<1>9. /\ HostNameIn(more, block, h) = HostNameIn(file, block, h)
      /\ PortIn(more, block, h) = PortIn(file, block, h)
  BY <1>3 DEF HostNameIn, PortIn
<1> QED
  BY <1>6, <1>7, <1>8, <1>9, GatheredParts DEF more

\* A line of the block, in each part of what it says.
LEMMA PartsGrow ==
  ASSUME KeysAssumption, LimitsAssumption, NEW file \in Seq(Lines), NEW line \in Lines,
         NEW block \in SUBSET (1..Len(file)), NEW h \in HostSet
  PROVE  LET more == Append(file, line)
             grown == Grown(file, block)
             f == RulesOf(file, block) IN
         /\ HostNameIn(more, grown, h)
              = IF Key(line) = "HostName" THEN Value(line) ELSE HostNameIn(file, block, h)
         /\ PortIn(more, grown, h)
              = IF Key(line) = "Port" /\ ValidPort(Value(line)) THEN Value(line)
                ELSE PortIn(file, block, h)
         /\ TextOf(more, grown, h)
              = [k \in TextKeys |-> IF Key(line) = k THEN Value(line) ELSE TextOf(file, block, h)[k]]
         /\ RulesOf(more, grown)
              = [k \in ForwardKeys |->
                   IF Key(line) = k /\ AcceptsForward(k, Value(line)) /\ Len(f[k]) < MaxForwards
                     THEN Append(f[k], ForwardRule(Value(line))) ELSE f[k]]
<1> DEFINE more == Append(file, line)
           m == Len(file) + 1
           grown == Grown(file, block)
           f == RulesOf(file, block)
<1>1. /\ \A key : With(more, grown, key)
                    = IF Key(line) = key THEN With(file, block, key) \cup {m}
                      ELSE With(file, block, key)
      /\ ValidPorts(more, grown)
           = IF Key(line) = "Port" /\ ValidPort(Value(line)) THEN ValidPorts(file, block) \cup {m}
             ELSE ValidPorts(file, block)
  BY GrownSets
<1>2. /\ \A key : With(file, block, key) \in SUBSET (1..Len(file))
      /\ ValidPorts(file, block) \in SUBSET (1..Len(file))
  BY DEF With, ValidPorts
<1>3. ASSUME NEW key, NEW other
      PROVE  LastOr(more, With(more, grown, key), other)
               = IF Key(line) = key THEN Value(line) ELSE LastOr(file, With(file, block, key), other)
  <2> DEFINE I == With(file, block, key)
             J == With(more, grown, key)
             new == Key(line) = key
  <2>1. new \in BOOLEAN /\ I \in SUBSET (1..Len(file)) /\ J = (IF new THEN I \cup {Len(file) + 1} ELSE I)
    BY <1>1, <1>2
  <2> HIDE DEF I, J, new
  <2>2. CASE new
    <3>1. J = I \cup {Len(file) + 1}
      BY <2>1, <2>2
    <3>2. LastOr(Append(file, line), I \cup {Len(file) + 1}, other) = Value(line)
      BY <2>1, LastNew
    <3> QED
      BY <2>2, <3>1, <3>2 DEF I, J, new
  <2>3. CASE ~new
    <3>1. J = I
      BY <2>1, <2>3
    <3>2. LastOr(Append(file, line), I, other) = LastOr(file, I, other)
      BY <2>1, LastSame
    <3> QED
      BY <2>3, <3>1, <3>2 DEF I, J, new
  <2> QED
    BY <2>2, <2>3
<1>4. ASSUME NEW other
      PROVE  LastOr(more, ValidPorts(more, grown), other)
               = IF Key(line) = "Port" /\ ValidPort(Value(line)) THEN Value(line)
                 ELSE LastOr(file, ValidPorts(file, block), other)
  <2> DEFINE I == ValidPorts(file, block)
             J == ValidPorts(more, grown)
             new == Key(line) = "Port" /\ ValidPort(Value(line))
  <2>1. new \in BOOLEAN /\ I \in SUBSET (1..Len(file)) /\ J = (IF new THEN I \cup {Len(file) + 1} ELSE I)
    BY <1>1, <1>2
  <2> HIDE DEF I, J, new
  <2>2. CASE new
    <3>1. J = I \cup {Len(file) + 1}
      BY <2>1, <2>2
    <3>2. LastOr(Append(file, line), I \cup {Len(file) + 1}, other) = Value(line)
      BY <2>1, LastNew
    <3> QED
      BY <2>2, <3>1, <3>2 DEF I, J, new
  <2>3. CASE ~new
    <3>1. J = I
      BY <2>1, <2>3
    <3>2. LastOr(Append(file, line), I, other) = LastOr(file, I, other)
      BY <2>1, LastSame
    <3> QED
      BY <2>3, <3>1, <3>2 DEF I, J, new
  <2> QED
    BY <2>2, <2>3
<1>5. \A k \in ForwardKeys :
        Rules(more, grown, k)
          = IF Key(line) = k /\ AcceptsForward(k, Value(line)) /\ Len(Rules(file, block, k)) < MaxForwards
              THEN Append(Rules(file, block, k), ForwardRule(Value(line)))
              ELSE Rules(file, block, k)
  BY RulesGrow
<1> HIDE DEF more, grown, m
<1>6. HostNameIn(more, grown, h)
        = IF Key(line) = "HostName" THEN Value(line) ELSE HostNameIn(file, block, h)
  BY <1>3 DEF HostNameIn
<1>7. PortIn(more, grown, h)
        = IF Key(line) = "Port" /\ ValidPort(Value(line)) THEN Value(line) ELSE PortIn(file, block, h)
  BY <1>4 DEF PortIn
<1>8. TextOf(more, grown, h)
        = [k \in TextKeys |-> IF Key(line) = k THEN Value(line) ELSE TextOf(file, block, h)[k]]
  BY <1>3 DEF TextOf
<1>9. RulesOf(more, grown)
        = [k \in ForwardKeys |->
             IF Key(line) = k /\ AcceptsForward(k, Value(line)) /\ Len(f[k]) < MaxForwards
               THEN Append(f[k], ForwardRule(Value(line))) ELSE f[k]]
  BY <1>5 DEF RulesOf
<1> QED
  BY <1>6, <1>7, <1>8, <1>9 DEF more, grown

\* A line of the block that is skipped says nothing.
LEMMA GatheredSkipped ==
  ASSUME KeysAssumption, LimitsAssumption, NEW file \in Seq(Lines),
         NEW block \in SUBSET (1..Len(file)), NEW h \in HostSet
  PROVE  Gathered(Append(file, Skipped), Grown(file, block), h) = Gathered(file, block, h)
<1> DEFINE more == Append(file, Skipped)
           grown == Grown(file, block)
           f == RulesOf(file, block)
           t == TextOf(file, block, h)
<1>1. /\ Skipped \in Lines /\ Key(Skipped) = "#"
      /\ Key(Skipped) \notin TextKeys \cup ForwardKeys
      /\ Skipped \notin OptionLines
  BY DEF Lines, Key, Skipped, KeysAssumption, OptionLines, OptionKeys
<1>2. /\ HostNameIn(more, grown, h)
           = IF Key(Skipped) = "HostName" THEN Value(Skipped) ELSE HostNameIn(file, block, h)
      /\ PortIn(more, grown, h)
           = IF Key(Skipped) = "Port" /\ ValidPort(Value(Skipped)) THEN Value(Skipped)
             ELSE PortIn(file, block, h)
      /\ TextOf(more, grown, h)
           = [k \in TextKeys |-> IF Key(Skipped) = k THEN Value(Skipped) ELSE TextOf(file, block, h)[k]]
      /\ RulesOf(more, grown)
           = [k \in ForwardKeys |->
                IF Key(Skipped) = k /\ AcceptsForward(k, Value(Skipped)) /\ Len(f[k]) < MaxForwards
                  THEN Append(f[k], ForwardRule(Value(Skipped))) ELSE f[k]]
  BY <1>1, PartsGrow
<1>3. Options(more, grown) = Options(file, block)
  BY <1>1, OptionsGrow
<1> HIDE DEF more, grown
<1>4. HostNameIn(more, grown, h) = HostNameIn(file, block, h) /\ PortIn(more, grown, h) = PortIn(file, block, h)
  BY <1>1, <1>2
<1>5. TextOf(more, grown, h) = TextOf(file, block, h)
  <2>1. TextOf(more, grown, h) = [k \in TextKeys |-> TextOf(file, block, h)[k]]
    BY <1>1, <1>2
  <2> QED
    BY <2>1 DEF TextOf
<1>6. RulesOf(more, grown) = RulesOf(file, block)
  <2>1. RulesOf(more, grown) = [k \in ForwardKeys |-> f[k]]
    BY <1>1, <1>2
  <2> QED
    BY <2>1 DEF RulesOf
<1> QED
  BY <1>3, <1>4, <1>5, <1>6, GatheredParts DEF more, grown

\* Any other but a Host line says what process_kv makes of it.
LEMMA GatheredNext ==
  ASSUME KeysAssumption, LimitsAssumption, NEW file \in Seq(Lines), NEW line \in Lines,
         line # Skipped, Key(line) # "Host", NEW block \in SUBSET (1..Len(file)), NEW h \in HostSet
  PROVE  Gathered(Append(file, line), Grown(file, block), h) = Process(Gathered(file, block, h), line)
<1> DEFINE more == Append(file, line)
           grown == Grown(file, block)
           n == h.name
           a == HostNameIn(file, block, h)
           p == PortIn(file, block, h)
           t == TextOf(file, block, h)
           f == RulesOf(file, block)
           o == Options(file, block)
           g == Gathered(more, grown, h)
           key == Key(line)
           value == Value(line)
           a2 == HostNameIn(more, grown, h)
           p2 == PortIn(more, grown, h)
           t2 == TextOf(more, grown, h)
           f2 == RulesOf(more, grown)
           o2 == Options(more, grown)
<1>1. Gathered(file, block, h) = HostOf(n, a, p, t, f, o) /\ g = HostOf(n, a2, p2, t2, f2, o2)
  BY GatheredParts
<1>2. /\ a2 = IF key = "HostName" THEN value ELSE a
      /\ p2 = IF key = "Port" /\ ValidPort(value) THEN value ELSE p
      /\ t2 = [k \in TextKeys |-> IF key = k THEN value ELSE t[k]]
      /\ f2 = [k \in ForwardKeys |->
                 IF key = k /\ AcceptsForward(k, value) /\ Len(f[k]) < MaxForwards
                   THEN Append(f[k], ForwardRule(value)) ELSE f[k]]
  BY PartsGrow
<1>3. o2 = IF line \in OptionLines /\ Len(o) < MaxOptions THEN Append(o, line) ELSE o
  BY OptionsGrow
<1>4. t = [k \in TextKeys |-> t[k]] /\ f = [k \in ForwardKeys |-> f[k]]
  BY DEF TextOf, RulesOf
<1>5. \/ key = "HostName"
      \/ key \in TextKeys
      \/ key = "Port"
      \/ key \in ForwardKeys
      \/ line \in OptionLines /\ key \in OptionKeys
  BY LineKinds
<1>6. line \in OptionLines => key \in OptionKeys
  BY DEF OptionLines, Key
<1> HIDE DEF more, grown, n, a, p, t, f, o, g, a2, p2, t2, f2, o2
<1>7. key \notin TextKeys => t2 = t
  BY <1>2, <1>4
<1>8. key \notin ForwardKeys => f2 = f
  BY <1>2, <1>4
<1>9. key \notin OptionKeys => o2 = o
  BY <1>3, <1>6
<1>10. key # "HostName" => a2 = a
  BY <1>2
<1>11. key # "Port" => p2 = p
  BY <1>2
<1>12. g = Process(HostOf(n, a, p, t, f, o), line)
  <2>1. CASE key = "HostName"
    <3>1. key \notin TextKeys /\ key \notin ForwardKeys /\ key \notin OptionKeys /\ key # "Port"
      BY <2>1 DEF KeysAssumption, OptionKeys
    <3>2. Process(HostOf(n, a, p, t, f, o), line) = HostOf(n, value, p, t, f, o)
      BY <2>1, ProcessHostName
    <3> QED
      BY <1>1, <1>2, <1>7, <1>8, <1>9, <1>11, <2>1, <3>1, <3>2
  <2>2. CASE key \in TextKeys
    <3>1. key # "HostName" /\ key \notin ForwardKeys /\ key \notin OptionKeys /\ key # "Port"
      BY <2>2 DEF KeysAssumption, OptionKeys
    <3>2. Process(HostOf(n, a, p, t, f, o), line) = HostOf(n, a, p, [t EXCEPT ![key] = value], f, o)
      BY <2>2, ProcessText
    <3>3. t2 = [t EXCEPT ![key] = value]
      BY <1>2, <1>4
    <3> QED
      BY <1>1, <1>8, <1>9, <1>10, <1>11, <3>1, <3>2, <3>3
  <2>3. CASE key = "Port"
    <3>1. key \notin TextKeys /\ key \notin ForwardKeys /\ key \notin OptionKeys /\ key # "HostName"
      BY <2>3 DEF KeysAssumption, OptionKeys
    <3>2. Process(HostOf(n, a, p, t, f, o), line) = HostOf(n, a, IF ValidPort(value) THEN value ELSE p, t, f, o)
      BY <2>3, ProcessPort
    <3>3. p2 = IF ValidPort(value) THEN value ELSE p
      BY <1>2, <2>3
    <3> QED
      BY <1>1, <1>7, <1>8, <1>9, <1>10, <3>1, <3>2, <3>3
  <2>4. CASE key \in ForwardKeys
    <3>1. key # "HostName" /\ key \notin TextKeys /\ key \notin OptionKeys /\ key # "Port"
      BY <2>4 DEF KeysAssumption, OptionKeys
    <3> DEFINE taken == Len(f[key]) < MaxForwards /\ AcceptsForward(key, value)
               grownRules == [f EXCEPT ![key] = Append(@, ForwardRule(value))]
    <3>2. Process(HostOf(n, a, p, t, f, o), line)
            = IF taken THEN HostOf(n, a, p, t, grownRules, o) ELSE HostOf(n, a, p, t, f, o)
      BY <2>4, ProcessForward
    <3>3. f2 = IF taken THEN grownRules ELSE f
      <4>1. CASE taken
        BY <1>2, <1>4, <2>4, <4>1
      <4>2. CASE ~taken
        BY <1>2, <1>4, <4>2
      <4> QED
        BY <4>1, <4>2
    <3> HIDE DEF taken, grownRules
    <3> QED
      BY <1>1, <1>7, <1>9, <1>10, <1>11, <3>1, <3>2, <3>3
  <2>5. CASE line \in OptionLines /\ key \in OptionKeys
    <3>1. key # "HostName" /\ key \notin TextKeys /\ key \notin ForwardKeys /\ key # "Port"
      BY <2>5 DEF KeysAssumption, OptionKeys
    <3>2. Process(HostOf(n, a, p, t, f, o), line)
            = IF Len(o) < MaxOptions THEN HostOf(n, a, p, t, f, Append(o, line)) ELSE HostOf(n, a, p, t, f, o)
      BY <2>5, ProcessOption
    <3> QED
      BY <1>1, <1>3, <1>7, <1>8, <1>10, <1>11, <2>5, <3>1, <3>2
  <2> QED
    BY <1>5, <2>1, <2>2, <2>3, <2>4, <2>5
<1> QED
  BY <1>1, <1>12 DEF g, more, grown

\* A Host line follows.
Ended(file, from) == \E j \in from..Len(file) : IsHostLine(file[j])

\* The positions of a block are of the file.
LEMMA BlockType ==
  ASSUME NEW file \in Seq(Lines), NEW from \in Nat \ {0}
  PROVE  Block(file, from) \in SUBSET (1..Len(file))
<1>1. Len(file) \in Nat
  BY LenProperties
<1>2. ASSUME NEW i \in from..Len(file) PROVE i \in 1..Len(file)
  BY <1>1
<1> QED
  BY <1>2 DEF Block

\* A line belongs to the block that no Host line ended before.
LEMMA BlockAppend ==
  ASSUME NEW file \in Seq(Lines), NEW line \in Lines, NEW from \in 1..(Len(file) + 1)
  PROVE  /\ Ended(Append(file, line), from) <=> Ended(file, from) \/ IsHostLine(line)
         /\ Block(Append(file, line), from)
              = IF Ended(file, from) \/ IsHostLine(line) THEN Block(file, from)
                ELSE Grown(file, Block(file, from))
<1> DEFINE more == Append(file, line)
           m == Len(file) + 1
<1>1. /\ Len(file) \in Nat /\ Len(more) = m /\ more[m] = line /\ m \in Nat
      /\ \A i \in 1..Len(file) : more[i] = file[i]
  BY LenProperties, AppendProperties
<1>2. from \in Nat /\ from <= m /\ from >= 1
  BY <1>1
<1> HIDE DEF more
<1>3. \A j \in from..m : j = m \/ j \in from..Len(file)
  BY <1>1, <1>2
<1>4. \A j \in from..Len(file) : j \in from..m /\ j # m /\ more[j] = file[j]
  BY <1>1, <1>2
<1>5. m \in from..m
  BY <1>1, <1>2
<1>6. Ended(more, from) <=> Ended(file, from) \/ IsHostLine(line)
  <2>1. ASSUME Ended(more, from) PROVE Ended(file, from) \/ IsHostLine(line)
    <3>1. PICK j \in from..m : IsHostLine(more[j])
      BY <1>1, <2>1 DEF Ended
    <3> QED
      BY <1>1, <1>3, <1>4, <3>1 DEF Ended
  <2>2. ASSUME Ended(file, from) PROVE Ended(more, from)
    <3>1. PICK j \in from..Len(file) : IsHostLine(file[j])
      BY <2>2 DEF Ended
    <3>2. j \in from..Len(more) /\ IsHostLine(more[j])
      BY <1>1, <1>4, <3>1
    <3> QED
      BY <3>2 DEF Ended
  <2>3. ASSUME IsHostLine(line) PROVE Ended(more, from)
    BY <1>1, <1>5, <2>3 DEF Ended
  <2> QED
    BY <2>1, <2>2, <2>3
<1> DEFINE In(f, i) == \A j \in from..i : ~IsHostLine(f[j])
<1>7. Block(more, from) = {i \in from..m : In(more, i)} /\ Block(file, from) = {i \in from..Len(file) : In(file, i)}
  BY <1>1 DEF Block
<1>8. \A i \in from..Len(file) : In(more, i) <=> In(file, i)
  <2> SUFFICES ASSUME NEW i \in from..Len(file) PROVE In(more, i) <=> In(file, i)
    OBVIOUS
  <2>1. \A j \in from..i : j \in from..Len(file)
    BY <1>1, <1>2
  <2> QED
    BY <1>4, <2>1
<1>9. In(more, m) <=> ~Ended(more, from)
  BY <1>1 DEF Ended
<1> HIDE DEF In
<1>10. CASE Ended(more, from)
  <2>1. Block(more, from) = Block(file, from)
    BY <1>3, <1>4, <1>7, <1>8, <1>9, <1>10
  <2> QED
    BY <1>6, <1>10, <2>1 DEF more
<1>11. CASE ~Ended(more, from)
  <2>1. Block(more, from) = Block(file, from) \cup {m}
    BY <1>3, <1>4, <1>5, <1>7, <1>8, <1>9, <1>11
  <2> QED
    BY <1>6, <1>11, <2>1 DEF more, Grown
<1> QED
  BY <1>10, <1>11

\* What the block at a position says of a host, after one more line: what
\* process_kv makes of the line, if the block is not ended.
LEMMA GatheredStep ==
  ASSUME KeysAssumption, LimitsAssumption, NEW file \in Seq(Lines), NEW line \in Lines,
         NEW from \in 1..(Len(file) + 1), NEW h \in HostSet
  PROVE  LET old == Gathered(file, Block(file, from), h) IN
         Gathered(Append(file, line), Block(Append(file, line), from), h)
           = IF Ended(file, from) \/ IsHostLine(line) \/ line = Skipped THEN old ELSE Process(old, line)
<1> DEFINE more == Append(file, line)
           block == Block(file, from)
<1>0. from \in Nat \ {0}
  BY LenProperties
<1>1. block \in SUBSET (1..Len(file))
  BY <1>0, BlockType
<1>2. Block(more, from) = IF Ended(file, from) \/ IsHostLine(line) THEN block ELSE Grown(file, block)
  BY BlockAppend
<1> HIDE DEF block
<1>3. CASE Ended(file, from) \/ IsHostLine(line)
  <2>1. Gathered(more, block, h) = Gathered(file, block, h)
    BY <1>1, GatheredSame
  <2>2. Block(more, from) = block
    BY <1>2, <1>3
  <2> HIDE DEF more
  <2> QED
    BY <1>3, <2>1, <2>2 DEF more, block
<1>4. CASE ~(Ended(file, from) \/ IsHostLine(line)) /\ line = Skipped
  <2>1. Gathered(Append(file, Skipped), Grown(file, block), h) = Gathered(file, block, h)
    BY <1>1, GatheredSkipped
  <2>2. Block(more, from) = Grown(file, block)
    BY <1>2, <1>4
  <2> QED
    BY <1>4, <2>1, <2>2 DEF block
<1>5. CASE ~(Ended(file, from) \/ IsHostLine(line)) /\ line # Skipped
  <2>1. Key(line) # "Host"
    BY <1>5 DEF IsHostLine
  <2>2. Gathered(more, Grown(file, block), h) = Process(Gathered(file, block, h), line)
    BY <1>1, <1>5, <2>1, GatheredNext
  <2>3. Block(more, from) = Grown(file, block)
    BY <1>2, <1>5
  <2> QED
    BY <1>5, <2>2, <2>3 DEF block
<1> QED
  BY <1>3, <1>4, <1>5

\* Sequences of nothing.
LEMMA OnlyNone ==
  ASSUME NEW E, NEW seq \in Seq(E)
  PROVE  Only(seq, {}) = <<>>
<1> DEFINE P == {s \in Seq(E) : Only(s, {}) = <<>>}
<1>1. <<>> \in P
  <2>1. [i \in DOMAIN <<>> |-> IF i \in {} THEN << <<>>[i] >> ELSE <<>>] = <<>>
    OBVIOUS
  <2>2. Only(<<>>, {}) = FlattenSeq(<<>>)
    BY <2>1 DEF Only
  <2> QED
    BY <2>2, FlattenEmpty, EmptySeq
<1>2. ASSUME NEW s \in P, NEW e \in E PROVE Append(s, e) \in P
  <2>1. Append(s, e) \in Seq(E) /\ s \in Seq(E) /\ Only(s, {}) = <<>>
    BY AppendProperties
  <2>2. Only(Append(s, e), {}) = IF Len(s) + 1 \in {} THEN Append(Only(s, {}), e) ELSE Only(s, {})
    BY <2>1, OnlyAppend
  <2> QED
    BY <2>1, <2>2
<1>3. P = Seq(E)
  <2>1. P \in SUBSET Seq(E)
    OBVIOUS
  <2> HIDE DEF P
  <2> QED
    BY <1>1, <1>2, <2>1, SeqSetInduction
<1> QED
  BY <1>3

\* An empty block says nothing of a host that is as a Host line leaves it.
LEMMA GatheredNone ==
  ASSUME LimitsAssumption, NEW file \in Seq(Lines),
         NEW h \in HostSet, h.forwards = [k \in ForwardKeys |-> <<>>], h.options = <<>>
  PROVE  Gathered(file, {}, h) = h
<1>1. /\ \A key : With(file, {}, key) = {}
      /\ ValidPorts(file, {}) = {}
      /\ \A k : Accepted(file, {}, k) = {}
      /\ {i \in {} : IsOption(file[i])} = {}
  BY DEF With, ValidPorts, Accepted
<1>2. Only(file, {}) = <<>>
  BY OnlyNone
<1>3. \A n \in Nat : Upto(n, <<>>) = <<>>
  <2> SUFFICES ASSUME NEW n \in Nat PROVE Upto(n, <<>>) = <<>>
    OBVIOUS
  <2>1. <<>> \in Seq({}) /\ Len(<<>>) = 0
    BY EmptySeq
  <2>2. Len(<<>>) <= n
    BY <2>1
  <2> QED
    BY <2>1, <2>2, UptoType
<1>4. \A k : Rules(file, {}, k) = <<>>
  <2> SUFFICES ASSUME NEW k PROVE Rules(file, {}, k) = <<>>
    OBVIOUS
  <2>1. Upto(MaxForwards, Only(file, Accepted(file, {}, k))) = <<>>
    BY <1>1, <1>2, <1>3 DEF LimitsAssumption
  <2> QED
    BY <2>1 DEF Rules
<1>5. Options(file, {}) = <<>>
  <2>1. MaxOptions \in Nat
    BY DEF LimitsAssumption
  <2> QED
    BY <1>1, <1>2, <1>3, <2>1 DEF Options
<1>6. HostNameIn(file, {}, h) = h.hostname /\ PortIn(file, {}, h) = h.port
  BY <1>1 DEF HostNameIn, PortIn, LastOr
<1>7. TextOf(file, {}, h) = h.text
  <2>1. h.text = [k \in TextKeys |-> h.text[k]]
    BY HostParts
  <2>2. TextOf(file, {}, h) = [k \in TextKeys |-> h.text[k]]
    BY <1>1 DEF TextOf, LastOr
  <2> QED
    BY <2>1, <2>2
<1>8. RulesOf(file, {}) = h.forwards
  BY <1>4 DEF RulesOf
<1> QED
  BY <1>5, <1>6, <1>7, <1>8, GatheredParts, HostParts

\* One more option is one more keyword.
LEMMA HasOptionAppend ==
  ASSUME NEW options \in Seq(OptionLines), NEW option \in OptionLines, NEW key
  PROVE  HasOption(Append(options, option), key) <=> HasOption(options, key) \/ Key(option) = key
<1> DEFINE more == Append(options, option)
           m == Len(options) + 1
<1>1. /\ m \in Nat /\ DOMAIN options = 1..Len(options) /\ DOMAIN more = 1..m /\ more[m] = option
      /\ \A i \in 1..Len(options) : more[i] = options[i]
  BY LenProperties, AppendProperties
<1>2. m \in 1..m /\ \A i \in 1..m : i = m \/ i \in 1..Len(options)
  BY <1>1
<1>3. \A i \in 1..Len(options) : i \in 1..m
  BY <1>1
<1> HIDE DEF more, m
<1>4. HasOption(more, key) <=> HasOption(options, key) \/ Key(option) = key
  BY <1>1, <1>2, <1>3 DEF HasOption
<1> QED
  BY <1>4 DEF more

\* The positions whose option a host takes over.
Fresh(own, global) ==
  {i \in DOMAIN global : /\ ~HasOption(own, Key(global[i]))
                         /\ \A j \in 1..(i - 1) : Key(global[j]) # Key(global[i])}

\* One more global option: taken over when neither the host nor an option before
\* it has the keyword.
LEMMA InheritedAppend ==
  ASSUME NEW own \in Seq(OptionLines), NEW global \in Seq(OptionLines), NEW option \in OptionLines
  PROVE  /\ InheritedOptions(own, global) \in Seq(OptionLines)
         /\ InheritedOptions(own, Append(global, option))
              = IF HasOption(own, Key(option)) \/ HasOption(global, Key(option))
                  THEN InheritedOptions(own, global)
                  ELSE Append(InheritedOptions(own, global), option)
<1> DEFINE more == Append(global, option)
           m == Len(global) + 1
           old == Fresh(own, global)
           new == Fresh(own, more)
<1>1. /\ Len(global) \in Nat /\ m \in Nat /\ DOMAIN global = 1..Len(global) /\ DOMAIN more = 1..m
      /\ more[m] = option /\ \A i \in 1..Len(global) : more[i] = global[i]
  BY LenProperties, AppendProperties
<1>2. InheritedOptions(own, global) = Only(global, old) /\ InheritedOptions(own, more) = Only(more, new)
  BY DEF InheritedOptions, Fresh
<1> HIDE DEF more
<1>3. \A i \in 1..Len(global) : i \in old <=> i \in new
  <2> SUFFICES ASSUME NEW i \in 1..Len(global) PROVE i \in old <=> i \in new
    OBVIOUS
  <2>1. i \in 1..m /\ more[i] = global[i] /\ \A j \in 1..(i - 1) : more[j] = global[j]
    <3>1. \A j \in 1..(i - 1) : j \in 1..Len(global)
      BY <1>1
    <3> QED
      BY <1>1, <3>1
  <2> HIDE DEF m
  <2> QED
    BY <1>1, <2>1 DEF Fresh
<1>4. m \in new <=> ~(HasOption(own, Key(option)) \/ HasOption(global, Key(option)))
  <2>1. m \in 1..m /\ m - 1 = Len(global)
    BY <1>1
  <2>2. HasOption(global, Key(option)) <=> \E j \in 1..(m - 1) : Key(more[j]) = Key(more[m])
    BY <1>1, <2>1 DEF HasOption
  <2> HIDE DEF m
  <2> QED
    BY <1>1, <2>1, <2>2 DEF Fresh
<1>5. Only(more, new) = IF m \in new THEN Append(Only(global, old), option) ELSE Only(global, old)
  <2> HIDE DEF old, new
  <2> QED
    BY <1>3, OnlyAppend DEF more
<1>6. InheritedOptions(own, global) \in Seq(OptionLines)
  <2>1. Only(global, old) \in Seq(OptionLines)
    <3> HIDE DEF old
    <3> QED
      BY OnlyType
  <2> QED
    BY <1>2, <2>1
<1> QED
  BY <1>2, <1>4, <1>5, <1>6 DEF more

\* apply_defaults appends the options a host takes over, while there is room.
LEMMA MergeIs ==
  ASSUME LimitsAssumption, NEW own \in Seq(OptionLines), Len(own) <= MaxOptions,
         NEW global \in Seq(OptionLines)
  PROVE  FoldLeft(MergeOption, own, global) = Upto(MaxOptions, own \o InheritedOptions(own, global))
<1> DEFINE All(u) == own \o InheritedOptions(own, u)
           P == {u \in Seq(OptionLines) :
                   /\ Merging!Fold(own, u) = Upto(MaxOptions, All(u))
                   /\ \A key : HasOption(All(u), key) <=> HasOption(own, key) \/ HasOption(u, key)}
           A == {o \in Seq(OptionLines) : Len(o) <= MaxOptions}
<1>1. Merging!Closed(A, OptionLines) /\ own \in A
  <2> SUFFICES ASSUME NEW o \in A, NEW line \in OptionLines PROVE MergeOption(o, line) \in A
    BY DEF Merging!Closed
  <2>1. /\ Append(o, line) \in Seq(OptionLines) /\ Len(Append(o, line)) = Len(o) + 1
        /\ Len(o) \in Nat
    BY AppendProperties, LenProperties
  <2> QED
    BY <2>1 DEF MergeOption, LimitsAssumption
<1> HIDE DEF A
<1>2. MaxOptions \in Nat
  BY DEF LimitsAssumption
<1>3. <<>> \in P
  <2>1. InheritedOptions(own, <<>>) = <<>>
    <3>1. Fresh(own, <<>>) = {}
      BY DEF Fresh
    <3>2. <<>> \in Seq(OptionLines)
      BY EmptySeq
    <3>3. Only(<<>>, {}) = <<>>
      BY <3>2, OnlyNone
    <3> QED
      BY <3>1, <3>3 DEF InheritedOptions, Fresh
  <2>2. All(<<>>) = own
    BY <2>1, ConcatEmptySeq
  <2>3. Upto(MaxOptions, own) = own
    BY <1>2, UptoType
  <2>4. \A key : ~HasOption(<<>>, key)
    BY DEF HasOption
  <2>5. Merging!Fold(own, <<>>) = own
    BY Merging!FoldEmpty
  <2>6. <<>> \in Seq(OptionLines)
    BY EmptySeq
  <2> HIDE DEF All
  <2> QED
    BY <2>2, <2>3, <2>4, <2>5, <2>6
<1>4. ASSUME NEW u \in P, NEW e \in OptionLines PROVE Append(u, e) \in P
  <2> DEFINE more == Append(u, e)
             x == All(u)
             y == All(more)
             f == Upto(MaxOptions, x)
             known == HasOption(own, Key(e)) \/ HasOption(u, Key(e))
  <2>1. u \in Seq(OptionLines) /\ more \in Seq(OptionLines) /\ Merging!Fold(own, u) = f
        /\ \A key : HasOption(x, key) <=> HasOption(own, key) \/ HasOption(u, key)
    BY AppendProperties
  <2>2. \A key : HasOption(more, key) <=> HasOption(u, key) \/ Key(e) = key
    BY <2>1, HasOptionAppend
  <2>3. InheritedOptions(own, u) \in Seq(OptionLines)
        /\ InheritedOptions(own, more) = IF known THEN InheritedOptions(own, u)
                                         ELSE Append(InheritedOptions(own, u), e)
    BY <2>1, InheritedAppend
  <2>4. x \in Seq(OptionLines)
    BY <2>3, ConcatProperties
  <2>5. y = IF known THEN x ELSE Append(x, e)
    <3>1. own \o Append(InheritedOptions(own, u), e) = Append(x, e)
      <4> DEFINE z == InheritedOptions(own, u)
      <4> HIDE DEF z
      <4>1. z \in Seq(OptionLines)
        BY <2>3 DEF z
      <4>2. <<e>> \in Seq(OptionLines) /\ Append(z, e) = z \o <<e>>
        BY <4>1, AppendIsConcat
      <4>3. own \o (z \o <<e>>) = (own \o z) \o <<e>>
        BY <4>1, <4>2, ConcatAssociative
      <4>4. Append(own \o z, e) = (own \o z) \o <<e>>
        <5>1. own \o z \in Seq(OptionLines)
          BY <4>1, ConcatProperties
        <5> QED
          BY <5>1, AppendIsConcat
      <4> QED
        BY <4>2, <4>3, <4>4 DEF z
    <3> HIDE DEF more, known
    <3> QED
      BY <2>3, <3>1
  <2>6. Merging!Fold(own, more) = MergeOption(f, e)
    <3>1. Merging!Fold(own, more) = MergeOption(Merging!Fold(own, u), e)
      BY <1>1, <2>1, Merging!FoldAppend
    <3> QED
      BY <2>1, <3>1
  <2> HIDE DEF more, x, y, f
  <2>7. \A key : HasOption(y, key) <=> HasOption(own, key) \/ HasOption(more, key)
    <3>1. CASE known
      BY <2>1, <2>2, <2>5, <3>1
    <3>2. CASE ~known
      <4>1. \A key : HasOption(Append(x, e), key) <=> HasOption(x, key) \/ Key(e) = key
        BY <2>4, HasOptionAppend
      <4> QED
        BY <2>1, <2>2, <2>5, <3>2, <4>1
    <3> QED
      BY <3>1, <3>2
  <2>8. /\ f \in Seq(OptionLines) /\ Len(f) = (IF Len(x) < MaxOptions THEN Len(x) ELSE MaxOptions)
        /\ Len(x) <= MaxOptions => f = x
        /\ Len(x) \in Nat
    BY <1>2, <2>4, UptoType, LenProperties DEF f
  <2>9. MergeOption(f, e) = IF HasOption(f, Key(e)) \/ Len(f) >= MaxOptions THEN f ELSE Append(f, e)
    BY DEF MergeOption
  <2>10. MergeOption(f, e) = Upto(MaxOptions, y)
    <3>1. CASE Len(f) < MaxOptions
      <4>1. f = x /\ ~(Len(f) >= MaxOptions)
        BY <1>2, <2>8, <3>1
      <4>2. HasOption(f, Key(e)) <=> known
        BY <2>1, <4>1
      <4>3. CASE known
        <5>1. MergeOption(f, e) = f /\ y = x
          BY <2>5, <2>9, <4>2, <4>3
        <5> QED
          BY <5>1 DEF f
      <4>4. CASE ~known
        <5>1. MergeOption(f, e) = Append(f, e) /\ y = Append(x, e)
          BY <2>5, <2>9, <4>1, <4>2, <4>4
        <5>2. Upto(MaxOptions, Append(x, e))
                = IF Len(Upto(MaxOptions, x)) < MaxOptions THEN Append(Upto(MaxOptions, x), e)
                  ELSE Upto(MaxOptions, x)
          BY <1>2, <2>4, UptoAppend
        <5> QED
          BY <3>1, <5>1, <5>2 DEF f
      <4> QED
        BY <4>3, <4>4
    <3>2. CASE ~(Len(f) < MaxOptions)
      <4>1. Len(f) >= MaxOptions
        BY <1>2, <2>8, <3>2
      <4>2. MergeOption(f, e) = f
        BY <2>9, <4>1
      <4>3. Upto(MaxOptions, Append(x, e))
              = IF Len(Upto(MaxOptions, x)) < MaxOptions THEN Append(Upto(MaxOptions, x), e)
                ELSE Upto(MaxOptions, x)
        BY <1>2, <2>4, UptoAppend
      <4>4. Upto(MaxOptions, Append(x, e)) = f
        BY <3>2, <4>3 DEF f
      <4> QED
        BY <2>5, <4>2, <4>4 DEF f
    <3> QED
      BY <3>1, <3>2
  <2> HIDE DEF All
  <2>11. more \in P
    <3>1. Merging!Fold(own, more) = Upto(MaxOptions, All(more))
      BY <2>6, <2>10 DEF y
    <3>2. \A key : HasOption(All(more), key) <=> HasOption(own, key) \/ HasOption(more, key)
      BY <2>7 DEF y
    <3> QED
      BY <2>1, <3>1, <3>2
  <2> HIDE DEF P
  <2> QED
    BY <2>11 DEF more
<1>5. global \in P
  <2>1. P \in SUBSET Seq(OptionLines)
    OBVIOUS
  <2> HIDE DEF P
  <2>2. P = Seq(OptionLines)
    BY <1>3, <1>4, <2>1, SeqSetInduction
  <2> QED
    BY <2>2
<1>6. FoldLeft(MergeOption, own, global) = Merging!Fold(own, global)
  BY DEF FoldLeft, MapThenFoldSet, Max, Merging!Fold, Merging!FoldLeft, Merging!MapThenFoldSet, Merging!Max
<1> QED
  BY <1>5, <1>6

\* The port of a host that had one is never none.
LEMMA PortIsSet ==
  ASSUME NEW file \in Seq(Lines), NEW block \in SUBSET (1..Len(file)), NEW h \in HostSet, h.port # 0
  PROVE  Gathered(file, block, h).port # 0
<1> DEFINE I == ValidPorts(file, block)
<1>1. Gathered(file, block, h).port = LastOr(file, I, h.port)
  BY GatheredParts DEF HostOf, PortIn
<1>2. CASE I = {}
  BY <1>1, <1>2 DEF LastOr
<1>3. CASE I # {}
  <2>1. I \in SUBSET (1..Len(file)) /\ Len(file) \in Nat
    BY LenProperties DEF ValidPorts, With
  <2>2. Max(I) \in I
    <3> HIDE DEF I
    <3> QED
      BY <1>3, <2>1, MaxOfPositions
  <2>3. ValidPort(Value(file[Max(I)]))
    BY <2>2 DEF ValidPorts
  <2>4. Value(file[Max(I)]) # 0
    BY <2>3 DEF ValidPort
  <2> QED
    BY <1>1, <1>3, <2>4 DEF LastOr
<1> QED
  BY <1>2, <1>3

\* What the lines from a Host line to the next one say, and the global ones.
Own(file, i) == Gathered(file, Block(file, i + 1), NewHost(Value(file[i])))
Global(file) == Gathered(file, Block(file, 1), NoDefaults)

\* apply_defaults makes of it the host that is declared there.
LEMMA InheritIsDeclared ==
  ASSUME LimitsAssumption, NEW file \in Seq(Lines), NEW i \in 1..Len(file),
         Value(file[i]) \in HostNames, Own(file, i) \in HostSet, Global(file) \in HostSet
  PROVE  Inherit(Own(file, i), Global(file)) = DeclaredHost(file, i)
<1> DEFINE h == Own(file, i)
           d == Global(file)
           a == IF h.hostname = Unset THEN d.hostname ELSE h.hostname
           t == [k \in TextKeys |-> IF h.text[k] = Unset THEN d.text[k] ELSE h.text[k]]
           o == FoldLeft(MergeOption, h.options, d.options)
           o2 == Upto(MaxOptions, h.options \o InheritedOptions(h.options, d.options))
<1>1. h.port # 0
  <2>1. NewHost(Value(file[i])) \in HostSet /\ NewHost(Value(file[i])).port # 0
    BY NewHostType DEF NewHost, DefaultPort
  <2>2. Len(file) \in Nat /\ i + 1 \in Nat \ {0}
    BY LenProperties
  <2>3. Block(file, i + 1) \in SUBSET (1..Len(file))
    BY <2>2, BlockType
  <2> QED
    BY <2>1, <2>3, PortIsSet DEF Own
<1>2. o = o2
  <2>1. h.options \in Seq(OptionLines) /\ Len(h.options) <= MaxOptions /\ d.options \in Seq(OptionLines)
    BY HostParts DEF OptionsFit
  <2> HIDE DEF h, d
  <2> QED
    BY <2>1, MergeIs
<1>3. DeclaredHost(file, i) = [h EXCEPT !.hostname = a, !.text = t, !.options = o2]
  BY DEF DeclaredHost, Own, Global
<1>4. Inherit(h, d) = [h EXCEPT !.hostname = a, !.port = IF @ = 0 THEN d.port ELSE @, !.text = t, !.options = o]
  <2> HIDE DEF h, d
  <2> QED
    BY DEF Inherit
<1>5. h = HostOf(h.name, h.hostname, h.port, h.text, h.forwards, h.options)
  BY HostParts
<1> HIDE DEF h, d, a, t, o, o2
<1>6. [h EXCEPT !.hostname = a, !.text = t, !.options = o2]
        = HostOf(h.name, a, h.port, t, h.forwards, o2)
  <2> DEFINE p == h.port
             f == h.forwards
             h1 == [h EXCEPT !.hostname = a]
             h2 == [h1 EXCEPT !.text = t]
             h3 == [h2 EXCEPT !.options = o2]
  <2>1. [h EXCEPT !.hostname = a, !.text = t, !.options = o2] = h3
    OBVIOUS
  <2> HIDE DEF h3
  <2>2. h1 = HostOf(h.name, a, p, h.text, f, h.options)
    BY <1>5 DEF HostOf
  <2> HIDE DEF h1, p, f
  <2>3. h2 = HostOf(h.name, a, p, t, f, h.options)
    BY <2>2 DEF HostOf
  <2> HIDE DEF h2
  <2>4. h3 = HostOf(h.name, a, p, t, f, o2)
    BY <2>3 DEF HostOf, h3
  <2> QED
    BY <2>1, <2>4 DEF p, f
<1>7. [h EXCEPT !.hostname = a, !.port = IF @ = 0 THEN d.port ELSE @, !.text = t, !.options = o]
        = HostOf(h.name, a, h.port, t, h.forwards, o)
  <2> DEFINE p == IF h.port = 0 THEN d.port ELSE h.port
             f == h.forwards
             h1 == [h EXCEPT !.hostname = a]
             h2 == [h1 EXCEPT !.port = p]
             h3 == [h2 EXCEPT !.text = t]
             h4 == [h3 EXCEPT !.options = o]
  <2>1. [h EXCEPT !.hostname = a, !.port = p, !.text = t, !.options = o] = h4
    OBVIOUS
  <2>2. p = h.port
    BY <1>1
  <2> HIDE DEF h4
  <2>3. h1 = HostOf(h.name, a, h.port, h.text, f, h.options)
    BY <1>5 DEF HostOf
  <2> HIDE DEF h1, p, f
  <2>4. h2 = HostOf(h.name, a, p, h.text, f, h.options)
    BY <2>3 DEF HostOf
  <2> HIDE DEF h2
  <2>5. h3 = HostOf(h.name, a, p, t, f, h.options)
    BY <2>4 DEF HostOf
  <2> HIDE DEF h3
  <2>6. h4 = HostOf(h.name, a, p, t, f, o)
    BY <2>5 DEF HostOf, h4
  <2> QED
    BY <2>1, <2>2, <2>6 DEF p, f
<1> QED
  BY <1>2, <1>3, <1>4, <1>6, <1>7 DEF h, d

\* The position after a file, in order with those before it.
LEMMA PositionsAppend ==
  ASSUME NEW file \in Seq(Lines), NEW line \in Lines
  PROVE  /\ [i \in DOMAIN file |-> i] \in Seq(Nat) /\ Len([i \in DOMAIN file |-> i]) = Len(file)
         /\ [i \in DOMAIN Append(file, line) |-> i] = Append([i \in DOMAIN file |-> i], Len(file) + 1)
<1> DEFINE N == Len(file)
           ps == [i \in DOMAIN file |-> i]
           more == Append(ps, N + 1)
<1>1. N \in Nat /\ DOMAIN file = 1..N /\ DOMAIN Append(file, line) = 1..(N + 1)
  BY LenProperties, AppendProperties
<1> HIDE DEF N
<1>2. ps \in Seq(Nat) /\ Len(ps) = N /\ \A i \in 1..N : ps[i] = i
  <2>1. ps \in [1..N -> Nat]
    BY <1>1
  <2>2. ps \in Seq(Nat) /\ \A i \in 1..N : ps[i] = i
    BY <1>1, <2>1
  <2> QED
    BY <1>1, <2>1, <2>2, LenProperties
<1> HIDE DEF ps
<1>3. /\ more \in Seq(Nat) /\ Len(more) = N + 1 /\ more[N + 1] = N + 1
      /\ \A i \in 1..N : more[i] = i
  BY <1>1, <1>2, AppendProperties
<1> HIDE DEF more
<1>4. more \in [1..(N + 1) -> Nat]
  BY <1>3, LenProperties
<1>5. \A i \in 1..(N + 1) : more[i] = i
  BY <1>1, <1>3
<1>6. more = [i \in 1..(N + 1) |-> i]
  BY <1>4, <1>5
<1> QED
  BY <1>1, <1>2, <1>6 DEF ps, more, N

\* A Host line that is not a pattern.
IsNamed(line) == IsHostLine(line) /\ ~HasWildcard(Value(line))

\* ... comes last in the order of the hosts.
LEMMA NamedAppend ==
  ASSUME NEW file \in Seq(Lines), NEW line \in Lines
  PROVE  NamedLines(Append(file, line))
           = IF IsNamed(line) THEN Append(NamedLines(file), Len(file) + 1) ELSE NamedLines(file)
<1> DEFINE N == Len(file)
           more == Append(file, line)
           ps == [i \in DOMAIN file |-> i]
           S == {i \in DOMAIN file : IsNamed(file[i])}
           T == {i \in DOMAIN more : IsNamed(more[i])}
<1>1. /\ N \in Nat /\ DOMAIN file = 1..N /\ DOMAIN more = 1..(N + 1)
      /\ more[N + 1] = line /\ \A i \in 1..N : more[i] = file[i]
  BY LenProperties, AppendProperties
<1>2. ps \in Seq(Nat) /\ Len(ps) = N /\ [i \in DOMAIN more |-> i] = Append(ps, N + 1) /\ N + 1 \in Nat
  BY <1>1, PositionsAppend
<1>3. NamedLines(file) = Only(ps, S) /\ NamedLines(more) = Only([i \in DOMAIN more |-> i], T)
  BY DEF NamedLines, IsNamed
<1> HIDE DEF more, ps, N
<1>4. \A i \in 1..N : i \in S <=> i \in T
  <2>1. \A i \in 1..N : i \in 1..(N + 1)
    BY <1>1
  <2> QED
    BY <1>1, <2>1
<1>5. N + 1 \in T <=> IsNamed(line)
  <2>1. N + 1 \in 1..(N + 1)
    BY <1>1
  <2> QED
    BY <1>1, <2>1
<1> HIDE DEF S, T
<1>6. Only(Append(ps, N + 1), T) = IF N + 1 \in T THEN Append(Only(ps, S), N + 1) ELSE Only(ps, S)
  <2>1. \A i \in 1..Len(ps) : i \in S <=> i \in T
    BY <1>2, <1>4
  <2> DEFINE e == N + 1
  <2>2. e \in Nat
    BY <1>1
  <2> HIDE DEF e
  <2>3. Only(Append(ps, e), T) = IF Len(ps) + 1 \in T THEN Append(Only(ps, S), e) ELSE Only(ps, S)
    BY <1>2, <2>1, <2>2, OnlyAppend
  <2> QED
    BY <1>2, <2>3 DEF e
<1> QED
  BY <1>2, <1>3, <1>5, <1>6 DEF more, N

\* A Host line has a name, and is not skipped.
LEMMA HostLineKinds ==
  ASSUME KeysAssumption, NEW line \in Lines, IsHostLine(line)
  PROVE  Value(line) \in HostNames /\ line # Skipped /\ Key(line) = "Host"
<1>1. Key(line) = "Host" /\ line # Skipped
  <2>1. Key(line) = "Host" /\ Key(Skipped) = "#"
    BY DEF IsHostLine, Key, Skipped
  <2> QED
    BY <2>1
<1>2. line \notin (TextKeys \X Words) \cup (ForwardKeys \X Spellings) \cup OptionLines
  BY <1>1 DEF Key, KeysAssumption, OptionLines, OptionKeys
<1>3. line \notin ({"HostName"} \X Words) \cup ({"Port"} \X Int)
  BY <1>1 DEF Key
<1>4. line \in {"Host"} \X HostNames
  BY <1>1, <1>2, <1>3 DEF Lines
<1> QED
  BY <1>1, <1>4 DEF Value

\* A Host line anywhere ends the global directives.
LEMMA EndedByOne ==
  ASSUME NEW file \in Seq(Lines), NEW i \in 1..Len(file), IsHostLine(file[i])
  PROVE  Ended(file, 1)
  BY DEF Ended

\* One more line, for what the lines after a Host line say ...
LEMMA OwnStep ==
  ASSUME KeysAssumption, LimitsAssumption, NEW file \in Seq(Lines), NEW line \in Lines,
         NEW i \in 1..Len(file), Value(file[i]) \in HostNames
  PROVE  Own(Append(file, line), i)
           = IF Ended(file, i + 1) \/ IsHostLine(line) \/ line = Skipped THEN Own(file, i)
             ELSE Process(Own(file, i), line)
<1> DEFINE h == NewHost(Value(file[i]))
           from == i + 1
           old == Gathered(file, Block(file, from), h)
<1>1. h \in HostSet
  BY NewHostType
<1>2. from \in 1..(Len(file) + 1) /\ Append(file, line)[i] = file[i]
  BY LenProperties, AppendProperties
<1>3. Own(Append(file, line), i) = Gathered(Append(file, line), Block(Append(file, line), from), h)
      /\ Own(file, i) = old
  BY <1>2 DEF Own
<1> HIDE DEF h, from
<1>4. Gathered(Append(file, line), Block(Append(file, line), from), h)
        = IF Ended(file, from) \/ IsHostLine(line) \/ line = Skipped THEN old ELSE Process(old, line)
  BY <1>1, <1>2, GatheredStep
<1> QED
  BY <1>3, <1>4 DEF from

\* ... and for the global directives.
LEMMA GlobalStep ==
  ASSUME KeysAssumption, LimitsAssumption, NEW file \in Seq(Lines), NEW line \in Lines
  PROVE  Global(Append(file, line))
           = IF Ended(file, 1) \/ IsHostLine(line) \/ line = Skipped THEN Global(file)
             ELSE Process(Global(file), line)
<1> DEFINE from == 1
           old == Gathered(file, Block(file, from), NoDefaults)
<1>1. from \in 1..(Len(file) + 1) /\ NoDefaults \in HostSet
  BY LenProperties, NoDefaultsType
<1> HIDE DEF from
<1>2. Gathered(Append(file, line), Block(Append(file, line), from), NoDefaults)
        = IF Ended(file, from) \/ IsHostLine(line) \/ line = Skipped THEN old ELSE Process(old, line)
  BY <1>1, GatheredStep
<1> QED
  BY <1>2 DEF Global, from

\* A host whose lines ended before is still the one declared.
LEMMA DeclaredSame ==
  ASSUME KeysAssumption, LimitsAssumption, NEW file \in Seq(Lines), NEW line \in Lines,
         NEW i \in 1..Len(file), IsHostLine(file[i]), Value(file[i]) \in HostNames,
         Ended(file, i + 1) \/ IsHostLine(line) \/ line = Skipped
  PROVE  DeclaredHost(Append(file, line), i) = DeclaredHost(file, i)
<1>1. Own(Append(file, line), i) = Own(file, i)
  BY OwnStep
<1>2. Ended(file, 1)
  BY EndedByOne
<1>3. Global(Append(file, line)) = Global(file)
  BY <1>2, GlobalStep
<1> DEFINE D(own, global) ==
             [own EXCEPT
                !.hostname = IF @ = Unset THEN global.hostname ELSE @,
                !.text = [k \in TextKeys |-> IF @[k] = Unset THEN global.text[k] ELSE @[k]],
                !.options = Upto(MaxOptions, @ \o InheritedOptions(@, global.options))]
<1>4. /\ DeclaredHost(file, i) = D(Own(file, i), Global(file))
      /\ DeclaredHost(Append(file, line), i) = D(Own(Append(file, line), i), Global(Append(file, line)))
  BY DEF DeclaredHost, Own, Global
<1> HIDE DEF D
<1> QED
  BY <1>1, <1>3, <1>4

\* The positions of the hosts are those of Host lines; what is known of a host
\* whose lines have ended, and of the last one while they go on.
AtHostLines(file) == \A n \in 1..Len(NamedLines(file)) :
  IsHostLine(file[NamedLines(file)[n]]) /\ Value(file[NamedLines(file)[n]]) \in HostNames
Done(file, r, n) ==
  Ended(file, NamedLines(file)[n] + 1) /\ r.hosts[n] = DeclaredHost(file, NamedLines(file)[n])
Going(file, r, n) ==
  ~Ended(file, NamedLines(file)[n] + 1) /\ r.hosts[n] = Own(file, NamedLines(file)[n])

\* What parse_ssh_config holds after the lines of a file.
HasRead(file, r) ==
  /\ r \in ReaderSet
  /\ NamedLines(file) \in Seq(1..Len(file)) /\ Len(r.hosts) = Len(NamedLines(file))
  /\ r.defaults = Global(file)
  /\ r.at = "defaults" <=> ~Ended(file, 1)
  /\ AtHostLines(file)
  /\ \A n \in 1..Len(r.hosts) : n < Len(r.hosts) \/ r.at # "host" => Done(file, r, n)
  /\ r.at = "host" => Going(file, r, Len(r.hosts))

\* Once the last host is finished, all are those declared.
LEMMA FinishIsDeclared ==
  ASSUME LimitsAssumption, NEW file \in Seq(Lines), NEW r, HasRead(file, r)
  PROVE  /\ Finish(r) \in ReaderSet /\ Finish(r).at = r.at /\ Finish(r).defaults = r.defaults
         /\ Len(Finish(r).hosts) = Len(r.hosts)
         /\ \A n \in 1..Len(r.hosts) : Finish(r).hosts[n] = DeclaredHost(file, NamedLines(file)[n])
<1> DEFINE N == Len(r.hosts)
           order == NamedLines(file)
<1>1. /\ r \in ReaderSet /\ order \in Seq(1..Len(file)) /\ N = Len(order) /\ r.defaults = Global(file)
      /\ AtHostLines(file)
      /\ \A n \in 1..N : n < N \/ r.at # "host" => Done(file, r, n)
      /\ r.at = "host" => Going(file, r, N)
  BY DEF HasRead
<1>2. r.hosts \in Seq(HostSet) /\ N \in Nat /\ r.defaults \in HostSet
  BY <1>1, LenProperties DEF ReaderSet
<1>3. Finish(r) \in ReaderSet
  BY <1>1, FinishType
<1>4. CASE r.at # "host"
  BY <1>1, <1>3, <1>4 DEF Finish, Done
<1>5. CASE r.at = "host"
  <2> DEFINE last == Inherit(r.hosts[N], r.defaults)
             hs == [r.hosts EXCEPT ![N] = last]
  <2>1. Finish(r) = [r EXCEPT !.hosts = hs]
    BY <1>1, <1>5 DEF Finish, ReaderSet
  <2>2. N \in 1..N
    BY <1>1, <1>2, <1>5, EmptySeq DEF ReaderSet
  <2>3. last \in HostSet
    BY <1>1, <1>2, <1>5, LastIsHost, InheritType
  <2>4. last = DeclaredHost(file, order[N])
    <3> DEFINE i == order[N]
    <3>1. i \in 1..Len(file) /\ Value(file[i]) \in HostNames /\ r.hosts[N] = Own(file, i)
      BY <1>1, <1>5, <2>2, ElementOfSeq DEF AtHostLines, Going
    <3>2. Own(file, i) \in HostSet /\ Global(file) \in HostSet
      BY <1>1, <1>2, <1>5, <3>1, LastIsHost
    <3> HIDE DEF i
    <3> QED
      BY <1>1, <3>1, <3>2, InheritIsDeclared DEF i
  <2> HIDE DEF last
  <2>5. hs \in Seq(HostSet) /\ Len(hs) = N /\ hs[N] = last /\ \A n \in 1..N : n # N => hs[n] = r.hosts[n]
    BY <1>2, <2>2, <2>3, ExceptSeq
  <2> HIDE DEF hs
  <2>6. Finish(r).hosts = hs /\ Finish(r).at = r.at /\ Finish(r).defaults = r.defaults
    BY <1>1, <2>1 DEF ReaderSet
  <2>7. ASSUME NEW n \in 1..N PROVE hs[n] = DeclaredHost(file, order[n])
    <3>1. CASE n = N
      BY <2>4, <2>5, <3>1
    <3>2. CASE n # N
      <4>1. n < N
        BY <1>2, <3>2
      <4> QED
        BY <1>1, <2>5, <3>2, <4>1 DEF Done
    <3> QED
      BY <3>1, <3>2
  <2> QED
    BY <1>3, <2>5, <2>6, <2>7
<1> QED
  BY <1>4, <1>5

\* A line after which no other host is read, and no Host line is new, keeps what
\* is known of the hosts.
LEMMA OrderKept ==
  ASSUME NEW file \in Seq(Lines), NEW line \in Lines, NEW r, HasRead(file, r), ~IsNamed(line)
  PROVE  LET more == Append(file, line) IN
         /\ NamedLines(more) = NamedLines(file) /\ NamedLines(more) \in Seq(1..Len(more))
         /\ AtHostLines(more)
         /\ \A n \in 1..Len(r.hosts) : /\ NamedLines(file)[n] \in 1..Len(file)
                                       /\ IsHostLine(file[NamedLines(file)[n]])
                                       /\ Value(file[NamedLines(file)[n]]) \in HostNames
<1> DEFINE more == Append(file, line)
           order == NamedLines(file)
<1>1. /\ Len(file) \in Nat /\ Len(more) = Len(file) + 1 /\ \A i \in 1..Len(file) : more[i] = file[i]
  BY LenProperties, AppendProperties
<1>2. NamedLines(more) = order
  BY NamedAppend
<1> HIDE DEF more
<1>3. order \in Seq(1..Len(file)) /\ Len(r.hosts) = Len(order) /\ AtHostLines(file)
  BY DEF HasRead
<1>4. \A n \in 1..Len(order) : order[n] \in 1..Len(file)
  BY <1>3, ElementOfSeq
<1>5. order \in Seq(1..Len(more))
  <2>1. 1..Len(file) \subseteq 1..Len(more)
    BY <1>1
  <2>2. order \in [1..Len(order) -> 1..Len(file)] /\ Len(order) \in Nat
    BY <1>3, LenProperties
  <2>3. order \in [1..Len(order) -> 1..Len(more)]
    BY <2>1, <2>2
  <2> QED
    BY <2>2, <2>3
<1>6. AtHostLines(more)
  BY <1>1, <1>2, <1>3, <1>4 DEF AtHostLines
<1> QED
  BY <1>2, <1>3, <1>4, <1>5, <1>6 DEF more, AtHostLines

\* A line that is skipped.
LEMMA ReadsSkipped ==
  ASSUME KeysAssumption, LimitsAssumption, NEW file \in Seq(Lines), NEW r, HasRead(file, r)
  PROVE  HasRead(Append(file, Skipped), ReadLine(r, Skipped))
<1> DEFINE more == Append(file, Skipped)
           order == NamedLines(file)
<1>1. Skipped \in Lines /\ ~IsHostLine(Skipped) /\ ~IsNamed(Skipped)
  BY DEF Lines, IsHostLine, IsNamed, Key, Skipped
<1>2. ReadLine(r, Skipped) = r
  <2>1. Key(Skipped) = "#"
    BY DEF Key, Skipped
  <2> QED
    BY <2>1 DEF ReadLine
<1>3. /\ r \in ReaderSet /\ Len(r.hosts) = Len(order) /\ r.defaults = Global(file)
      /\ r.at = "defaults" <=> ~Ended(file, 1)
      /\ \A n \in 1..Len(r.hosts) : n < Len(r.hosts) \/ r.at # "host" => Done(file, r, n)
      /\ r.at = "host" => Going(file, r, Len(r.hosts)) /\ Len(r.hosts) \in 1..Len(r.hosts)
  BY EmptySeq, LenProperties DEF HasRead, ReaderSet
<1>4. /\ NamedLines(more) = order /\ order \in Seq(1..Len(more)) /\ AtHostLines(more)
      /\ \A n \in 1..Len(r.hosts) : /\ order[n] \in 1..Len(file)
                                    /\ IsHostLine(file[order[n]]) /\ Value(file[order[n]]) \in HostNames
  BY <1>1, OrderKept
<1>5. Global(more) = Global(file)
  BY <1>1, GlobalStep
<1>6. \A from \in 1..(Len(file) + 1) : Ended(more, from) <=> Ended(file, from)
  BY <1>1, BlockAppend
<1>7. \A n \in 1..Len(r.hosts) : order[n] + 1 \in 1..(Len(file) + 1) /\ 1 \in 1..(Len(file) + 1)
  BY <1>4, LenProperties
<1>8. ASSUME NEW n \in 1..Len(r.hosts)
      PROVE  (Done(file, r, n) => Done(more, r, n)) /\ (Going(file, r, n) => Going(more, r, n))
  <2>1. DeclaredHost(more, order[n]) = DeclaredHost(file, order[n])
    BY <1>1, <1>4, DeclaredSame
  <2>2. Own(more, order[n]) = Own(file, order[n])
    BY <1>1, <1>4, OwnStep
  <2> HIDE DEF more
  <2> QED
    BY <1>4, <1>6, <1>7, <2>1, <2>2 DEF Done, Going
<1>9. Ended(more, 1) <=> Ended(file, 1)
  <2>1. 1 \in 1..(Len(file) + 1)
    BY LenProperties
  <2> QED
    BY <1>6, <2>1
<1> HIDE DEF more
<1>10. HasRead(more, r)
  BY <1>3, <1>4, <1>5, <1>8, <1>9 DEF HasRead
<1> QED
  BY <1>2, <1>10 DEF more

\* The Host line of a pattern.
LEMMA ReadsPattern ==
  ASSUME KeysAssumption, LimitsAssumption, NEW file \in Seq(Lines), NEW r, HasRead(file, r),
         NEW line \in Lines, IsHostLine(line), HasWildcard(Value(line))
  PROVE  HasRead(Append(file, line), ReadLine(r, line))
<1> DEFINE more == Append(file, line)
           order == NamedLines(file)
           fin == Finish(r)
           next == [fin EXCEPT !.at = "skip"]
<1>1. Key(line) = "Host" /\ line # Skipped /\ ~IsNamed(line)
  BY HostLineKinds DEF IsNamed
<1>2. ReadLine(r, line) = next
  BY <1>1 DEF ReadLine
<1>3. /\ fin \in ReaderSet /\ fin.defaults = r.defaults /\ Len(fin.hosts) = Len(r.hosts)
      /\ \A n \in 1..Len(r.hosts) : fin.hosts[n] = DeclaredHost(file, order[n])
  BY FinishIsDeclared
<1> HIDE DEF fin
<1>4. next \in ReaderSet /\ next.at = "skip" /\ next.defaults = fin.defaults /\ next.hosts = fin.hosts
  BY <1>3 DEF ReaderSet
<1>5. Len(r.hosts) = Len(order) /\ r.defaults = Global(file)
  BY DEF HasRead
<1>6. /\ NamedLines(more) = order /\ order \in Seq(1..Len(more)) /\ AtHostLines(more)
      /\ \A n \in 1..Len(r.hosts) : /\ order[n] \in 1..Len(file)
                                    /\ IsHostLine(file[order[n]]) /\ Value(file[order[n]]) \in HostNames
  BY <1>1, OrderKept
<1>7. Global(more) = Global(file)
  BY GlobalStep
<1>8. \A from \in 1..(Len(file) + 1) : Ended(more, from)
  BY BlockAppend
<1>9. 1 \in 1..(Len(file) + 1) /\ \A n \in 1..Len(r.hosts) : order[n] + 1 \in 1..(Len(file) + 1)
  BY <1>6, LenProperties
<1> HIDE DEF next
<1>10. ASSUME NEW n \in 1..Len(r.hosts) PROVE Done(more, next, n)
  <2>1. DeclaredHost(more, order[n]) = DeclaredHost(file, order[n])
    BY <1>6, DeclaredSame
  <2> HIDE DEF more
  <2> QED
    BY <1>3, <1>4, <1>6, <1>8, <1>9, <2>1 DEF Done
<1>11. Ended(more, 1)
  BY <1>8, <1>9
<1> HIDE DEF more
<1>12. HasRead(more, next)
  BY <1>3, <1>4, <1>5, <1>6, <1>7, <1>10, <1>11 DEF HasRead
<1> QED
  BY <1>2, <1>12 DEF more

\* The Host line of a host.
LEMMA ReadsHostLine ==
  ASSUME KeysAssumption, LimitsAssumption, NEW file \in Seq(Lines), NEW r, HasRead(file, r),
         NEW line \in Lines, IsNamed(line)
  PROVE  HasRead(Append(file, line), ReadLine(r, line))
<1> DEFINE more == Append(file, line)
           m == Len(file) + 1
           order == NamedLines(file)
           longer == NamedLines(more)
           fin == Finish(r)
           h == NewHost(Value(line))
           hs == Append(fin.hosts, h)
           next == [fin EXCEPT !.hosts = hs, !.at = "host"]
           N == Len(r.hosts)
<1>1. IsHostLine(line) /\ Key(line) = "Host" /\ line # Skipped /\ Value(line) \in HostNames
  BY HostLineKinds DEF IsNamed
<1>2. ReadLine(r, line) = next
  BY <1>1 DEF ReadLine, IsNamed
<1>3. /\ fin \in ReaderSet /\ fin.defaults = r.defaults /\ Len(fin.hosts) = N
      /\ \A n \in 1..N : fin.hosts[n] = DeclaredHost(file, order[n])
  BY FinishIsDeclared
<1>4. h \in HostSet
  BY <1>1, NewHostType
<1> HIDE DEF fin
<1>5. /\ order \in Seq(1..Len(file)) /\ N = Len(order) /\ r.defaults = Global(file) /\ AtHostLines(file)
  BY DEF HasRead
<1>6. /\ Len(file) \in Nat /\ m \in Nat /\ Len(more) = m /\ more[m] = line /\ more \in Seq(Lines)
      /\ \A i \in 1..Len(file) : more[i] = file[i]
  BY LenProperties, AppendProperties
<1>7. N \in Nat /\ fin.hosts \in Seq(HostSet)
  BY <1>3, <1>5, LenProperties DEF ReaderSet
<1> HIDE DEF h
<1>8. /\ hs \in Seq(HostSet) /\ Len(hs) = N + 1 /\ hs[N + 1] = h
      /\ \A n \in 1..N : hs[n] = fin.hosts[n]
  BY <1>3, <1>4, <1>7, AppendProperties
<1> HIDE DEF hs
<1>9. next \in ReaderSet /\ next.at = "host" /\ next.defaults = fin.defaults /\ next.hosts = hs
  <2>1. hs # <<>>
    BY <1>7, <1>8, EmptySeq
  <2> QED
    BY <1>3, <1>8, <2>1 DEF ReaderSet
<1> HIDE DEF next
<1>10. longer = Append(order, m)
  BY NamedAppend
<1>11. \A n \in 1..N : order[n] \in 1..Len(file)
  BY <1>5, ElementOfSeq
<1>12. /\ longer \in Seq(1..m) /\ Len(longer) = N + 1 /\ longer[N + 1] = m
       /\ \A n \in 1..N : longer[n] = order[n]
  <2>1. order \in Seq(1..m)
    <3>1. 1..Len(file) \subseteq 1..m
      BY <1>6
    <3>2. order \in [1..N -> 1..Len(file)]
      BY <1>5, LenProperties
    <3>3. order \in [1..N -> 1..m]
      BY <3>1, <3>2
    <3> QED
      BY <1>7, <3>3
  <2>2. m \in 1..m
    BY <1>6
  <2> HIDE DEF m, longer, order
  <2> QED
    BY <1>5, <1>10, <2>1, <2>2, AppendProperties
<1> HIDE DEF longer
<1>13. \A n \in 1..(N + 1) : n = N + 1 \/ n \in 1..N
  BY <1>7
<1>14. AtHostLines(more)
  <2>1. ASSUME NEW n \in 1..(N + 1) PROVE IsHostLine(more[longer[n]]) /\ Value(more[longer[n]]) \in HostNames
    <3>1. CASE n = N + 1
      BY <1>1, <1>6, <1>12, <3>1
    <3>2. CASE n \in 1..N
      BY <1>5, <1>6, <1>11, <1>12, <3>2 DEF AtHostLines
    <3> QED
      BY <1>13, <3>1, <3>2
  <2> QED
    BY <1>12, <2>1 DEF AtHostLines, longer
<1>15. \A from \in 1..(Len(file) + 1) : Ended(more, from)
  BY <1>1, BlockAppend
<1>16. 1 \in 1..(Len(file) + 1) /\ \A n \in 1..N : order[n] + 1 \in 1..(Len(file) + 1)
  BY <1>6, <1>11
<1>17. Global(more) = Global(file)
  BY <1>1, GlobalStep
<1>18. ASSUME NEW n \in 1..N PROVE Done(more, next, n)
  <2>1. DeclaredHost(more, order[n]) = DeclaredHost(file, order[n])
    <3>1. order[n] \in 1..Len(file) /\ IsHostLine(file[order[n]]) /\ Value(file[order[n]]) \in HostNames
      BY <1>5, <1>11 DEF AtHostLines
    <3> QED
      BY <1>1, <3>1, DeclaredSame
  <2>2. Ended(more, order[n] + 1)
    BY <1>15, <1>16
  <2>3. next.hosts[n] = DeclaredHost(file, order[n])
    BY <1>3, <1>8, <1>9
  <2> HIDE DEF more
  <2> QED
    BY <1>12, <2>1, <2>2, <2>3 DEF Done, longer
<1>19. Going(more, next, N + 1)
  <2>1. ~Ended(more, m + 1) /\ Block(more, m + 1) = {}
    <3>1. (m + 1)..Len(more) = {}
      BY <1>6
    <3> QED
      BY <3>1 DEF Ended, Block
  <2>2. Own(more, m) = h
    <3>1. Own(more, m) = Gathered(more, {}, h)
      BY <1>6, <2>1 DEF Own, h
    <3>2. h.forwards = [k \in ForwardKeys |-> <<>>] /\ h.options = <<>>
      BY DEF h, NewHost
    <3> HIDE DEF more
    <3> QED
      BY <1>4, <1>6, <3>1, <3>2, GatheredNone
  <2> HIDE DEF more
  <2> QED
    BY <1>8, <1>9, <1>12, <2>1, <2>2 DEF Going, longer
<1>20. Ended(more, 1)
  BY <1>15, <1>16
<1> HIDE DEF more
<1>21. Len(next.hosts) = N + 1 /\ Len(NamedLines(more)) = N + 1 /\ NamedLines(more) \in Seq(1..Len(more))
  BY <1>6, <1>8, <1>9, <1>12 DEF longer
<1>22. \A n \in 1..(N + 1) : n < N + 1 => Done(more, next, n)
  <2>1. \A n \in 1..(N + 1) : n < N + 1 => n \in 1..N
    BY <1>7
  <2> QED
    BY <1>18, <2>1
<1>23. HasRead(more, next)
  BY <1>3, <1>5, <1>9, <1>14, <1>17, <1>19, <1>20, <1>21, <1>22 DEF HasRead
<1> QED
  BY <1>2, <1>23 DEF more

\* A directive is of the global ones, of the last host, or of a pattern.
LEMMA ReadsDirective ==
  ASSUME KeysAssumption, LimitsAssumption, NEW file \in Seq(Lines), NEW r, HasRead(file, r),
         NEW line \in Lines, line # Skipped, ~IsHostLine(line)
  PROVE  HasRead(Append(file, line), ReadLine(r, line))
<1> DEFINE more == Append(file, line)
           order == NamedLines(file)
           N == Len(r.hosts)
<1>1. Key(line) # "Host" /\ ~IsNamed(line)
  BY DEF IsHostLine, IsNamed
<1>2. ReadLine(r, line) =
        CASE r.at = "skip" -> r
          [] r.at = "defaults" -> [r EXCEPT !.defaults = Process(@, line)]
          [] r.at = "host" -> [r EXCEPT !.hosts[Len(r.hosts)] = Process(@, line)]
  BY <1>1 DEF ReadLine
<1>3. /\ r \in ReaderSet /\ order \in Seq(1..Len(file)) /\ N = Len(order) /\ r.defaults = Global(file)
      /\ r.at = "defaults" <=> ~Ended(file, 1)
      /\ \A n \in 1..N : n < N \/ r.at # "host" => Done(file, r, n)
      /\ r.at = "host" => Going(file, r, N) /\ N \in 1..N
  BY EmptySeq, LenProperties DEF HasRead, ReaderSet
<1>4. /\ NamedLines(more) = order /\ order \in Seq(1..Len(more)) /\ AtHostLines(more)
      /\ \A n \in 1..N : /\ order[n] \in 1..Len(file)
                         /\ IsHostLine(file[order[n]]) /\ Value(file[order[n]]) \in HostNames
  BY <1>1, OrderKept
<1>5. \A from \in 1..(Len(file) + 1) : Ended(more, from) <=> Ended(file, from)
  BY BlockAppend
<1>6. 1 \in 1..(Len(file) + 1) /\ \A n \in 1..N : order[n] + 1 \in 1..(Len(file) + 1)
  BY <1>4, LenProperties
<1>7. Ended(more, 1) <=> Ended(file, 1)
  BY <1>5, <1>6
<1>8. Global(more) = IF Ended(file, 1) THEN Global(file) ELSE Process(Global(file), line)
  BY GlobalStep
<1>9. ASSUME NEW n \in 1..N, Done(file, r, n)
      PROVE  /\ Ended(more, order[n] + 1) /\ r.hosts[n] = DeclaredHost(more, order[n])
             /\ Done(more, r, n)
  <2>1. Ended(file, order[n] + 1) /\ r.hosts[n] = DeclaredHost(file, order[n])
    BY <1>9 DEF Done
  <2>2. DeclaredHost(more, order[n]) = DeclaredHost(file, order[n])
    BY <1>4, <2>1, DeclaredSame
  <2>3. Ended(more, order[n] + 1)
    BY <1>5, <1>6, <2>1
  <2> HIDE DEF more
  <2> QED
    BY <1>4, <2>1, <2>2, <2>3 DEF Done
<1>10. CASE r.at = "skip"
  <2>1. ReadLine(r, line) = r /\ Ended(file, 1)
    BY <1>2, <1>3, <1>10
  <2>2. \A n \in 1..N : Done(more, r, n)
    BY <1>3, <1>9, <1>10
  <2> HIDE DEF more
  <2>3. HasRead(more, r)
    BY <1>3, <1>4, <1>7, <1>8, <1>10, <2>1, <2>2 DEF HasRead
  <2> QED
    BY <2>1, <2>3 DEF more
<1>11. CASE r.at = "defaults"
  <2> DEFINE d == Process(r.defaults, line)
             next == [r EXCEPT !.defaults = d]
  <2>1. ReadLine(r, line) = next
    BY <1>2, <1>11
  <2>2. d \in HostSet /\ d = Global(more)
    <3>1. r.defaults \in HostSet
      BY <1>3 DEF ReaderSet
    <3>2. d \in HostSet
      BY <1>1, <3>1, ProcessType
    <3> QED
      BY <1>3, <1>8, <1>11, <3>2
  <2> HIDE DEF d
  <2>3. next \in ReaderSet /\ next.hosts = r.hosts /\ next.at = r.at /\ next.defaults = d
    BY <1>3, <1>11, <2>2 DEF ReaderSet
  <2> HIDE DEF next
  <2>4. \A n \in 1..N : FALSE
    <3> SUFFICES ASSUME NEW n \in 1..N PROVE FALSE
      OBVIOUS
    <3>1. Ended(file, 1)
      BY <1>4, EndedByOne
    <3> QED
      BY <1>3, <1>11, <3>1
  <2> HIDE DEF more
  <2>5. HasRead(more, next)
    BY <1>3, <1>4, <1>7, <1>11, <2>2, <2>3, <2>4 DEF HasRead
  <2> QED
    BY <2>1, <2>5 DEF more
<1>12. CASE r.at = "host"
  <2> DEFINE h == Process(r.hosts[N], line)
             hs == [r.hosts EXCEPT ![N] = h]
             next == [r EXCEPT !.hosts = hs]
  <2>1. ReadLine(r, line) = next
    <3>1. ReadLine(r, line) = [r EXCEPT !.hosts[N] = Process(@, line)]
      BY <1>2, <1>12
    <3> QED
      BY <1>3, <3>1 DEF ReaderSet
  <2>2. /\ N \in 1..N /\ ~Ended(file, order[N] + 1) /\ r.hosts[N] = Own(file, order[N])
        /\ r.hosts[N] \in HostSet
    BY <1>3, <1>12, LastIsHost DEF Going
  <2>3. h \in HostSet
    BY <1>1, <2>2, ProcessType
  <2>4. h = Own(more, order[N])
    <3>1. Own(more, order[N])
            = IF Ended(file, order[N] + 1) \/ IsHostLine(line) \/ line = Skipped THEN Own(file, order[N])
              ELSE Process(Own(file, order[N]), line)
      BY <1>4, <2>2, OwnStep
    <3> QED
      BY <2>2, <3>1
  <2> HIDE DEF h
  <2>5. /\ hs \in Seq(HostSet) /\ Len(hs) = N /\ hs[N] = h
        /\ \A n \in 1..N : n # N => hs[n] = r.hosts[n]
    <3>1. r.hosts \in Seq(HostSet)
      BY <1>3 DEF ReaderSet
    <3> QED
      BY <2>2, <2>3, <3>1, ExceptSeq
  <2> HIDE DEF hs
  <2>6. next \in ReaderSet /\ next.hosts = hs /\ next.at = "host" /\ next.defaults = r.defaults
    <3>1. hs # <<>>
      BY <2>2, <2>5, EmptySeq
    <3> QED
      BY <1>3, <1>12, <2>5, <3>1 DEF ReaderSet
  <2> HIDE DEF next
  <2>7. Ended(file, 1)
    BY <1>3, <1>12
  <2>8. ASSUME NEW n \in 1..N, n < N PROVE Done(more, next, n)
    <3>1. n # N
      BY <2>2, <2>8
    <3>2. Done(file, r, n)
      BY <1>3, <2>8
    <3>3. Ended(more, order[n] + 1) /\ r.hosts[n] = DeclaredHost(more, order[n])
      BY <1>9, <3>2
    <3> HIDE DEF more
    <3> QED
      BY <1>4, <2>5, <2>6, <3>1, <3>3 DEF Done
  <2>9. Going(more, next, N)
    <3>1. ~Ended(more, order[N] + 1)
      BY <1>5, <1>6, <2>2
    <3> HIDE DEF more
    <3> QED
      BY <1>4, <2>4, <2>5, <2>6, <3>1 DEF Going
  <2> HIDE DEF more
  <2>10. HasRead(more, next)
    BY <1>3, <1>4, <1>7, <1>8, <1>12, <2>5, <2>6, <2>7, <2>8, <2>9 DEF HasRead
  <2> QED
    BY <2>1, <2>10 DEF more
<1> QED
  BY <1>3, <1>10, <1>11, <1>12 DEF ReaderSet

\* Before the first line.
LEMMA ReadsNothing ==
  ASSUME LimitsAssumption
  PROVE  HasRead(<<>>, ReaderStart)
<1>1. <<>> \in Seq(Lines) /\ Len(<<>>) = 0 /\ <<>> \in Seq(1..0)
  BY EmptySeq
<1>2. ReaderStart \in ReaderSet /\ ReaderStart.hosts = <<>> /\ ReaderStart.at = "defaults"
      /\ ReaderStart.defaults = NoDefaults
  BY ReaderStartType DEF ReaderStart
<1>3. NamedLines(<<>>) = <<>>
  <2>1. /\ [i \in DOMAIN <<>> |-> i] = <<>>
        /\ {i \in DOMAIN <<>> : IsHostLine(<<>>[i]) /\ ~HasWildcard(Value(<<>>[i]))} = {}
    OBVIOUS
  <2>2. Only(<<>>, {}) = <<>>
    BY <1>1, OnlyNone
  <2> QED
    BY <2>1, <2>2 DEF NamedLines
<1>4. ~Ended(<<>>, 1) /\ Block(<<>>, 1) = {}
  <2>1. 1..Len(<<>>) = {}
    BY <1>1
  <2> QED
    BY <2>1 DEF Ended, Block
<1>5. Global(<<>>) = NoDefaults
  <2>1. NoDefaults \in HostSet
    BY NoDefaultsType
  <2>2. NoDefaults.forwards = [k \in ForwardKeys |-> <<>>] /\ NoDefaults.options = <<>>
    BY DEF NoDefaults, NewHost
  <2>3. Gathered(<<>>, {}, NoDefaults) = NoDefaults
    BY <1>1, <2>1, <2>2, GatheredNone
  <2> QED
    BY <1>4, <2>3 DEF Global
<1>6. 1..0 = {}
  OBVIOUS
<1> QED
  BY <1>1, <1>2, <1>3, <1>4, <1>5, <1>6 DEF HasRead, AtHostLines

\* parse_ssh_config reads from a file what the file declares.
LEMMA ReadIsDeclared ==
  ASSUME KeysAssumption, LimitsAssumption, NEW file \in Seq(Lines)
  PROVE  Parse(file) = Declared(file)
<1> DEFINE P == {s \in Seq(Lines) : HasRead(s, Reading!Fold(ReaderStart, s))}
<1>1. <<>> \in P
  BY ReadsNothing, Reading!FoldEmpty, EmptySeq
<1>2. ASSUME NEW s \in P, NEW line \in Lines PROVE Append(s, line) \in P
  <2> DEFINE r == Reading!Fold(ReaderStart, s)
             next == ReadLine(r, line)
  <2>1. s \in Seq(Lines) /\ HasRead(s, r) /\ Append(s, line) \in Seq(Lines)
    BY AppendProperties
  <2>2. Reading!Fold(ReaderStart, Append(s, line)) = next
    BY <2>1, ReadingClosed, ReaderStartType, Reading!FoldAppend
  <2> HIDE DEF r
  <2>3. HasRead(Append(s, line), next)
    <3>1. CASE line = Skipped
      BY <2>1, <3>1, ReadsSkipped
    <3>2. CASE IsNamed(line)
      BY <2>1, <3>2, ReadsHostLine
    <3>3. CASE IsHostLine(line) /\ HasWildcard(Value(line))
      BY <2>1, <3>3, ReadsPattern
    <3>4. CASE line # Skipped /\ ~IsHostLine(line)
      BY <2>1, <3>4, ReadsDirective
    <3> QED
      BY <3>1, <3>2, <3>3, <3>4 DEF IsNamed
  <2> QED
    BY <2>1, <2>2, <2>3
<1>3. P = Seq(Lines)
  <2>1. P \in SUBSET Seq(Lines)
    OBVIOUS
  <2> HIDE DEF P
  <2> QED
    BY <1>1, <1>2, <2>1, SeqSetInduction
<1> DEFINE r == Reading!Fold(ReaderStart, file)
           hs == Finish(r).hosts
           order == NamedLines(file)
<1>4. HasRead(file, r)
  BY <1>3
<1>5. Parse(file) = hs
  BY ParseFold
<1> HIDE DEF r
<1>6. /\ Finish(r) \in ReaderSet /\ Len(hs) = Len(r.hosts)
      /\ \A n \in 1..Len(r.hosts) : hs[n] = DeclaredHost(file, order[n])
  BY <1>4, FinishIsDeclared
<1>7. order \in Seq(1..Len(file)) /\ Len(r.hosts) = Len(order)
  BY <1>4 DEF HasRead
<1>8. hs \in Seq(HostSet)
  BY <1>6 DEF ReaderSet
<1> HIDE DEF hs
<1>9. DOMAIN order = 1..Len(order) /\ hs \in [1..Len(order) -> HostSet]
  BY <1>6, <1>7, <1>8, LenProperties
<1>10. hs = [n \in 1..Len(order) |-> DeclaredHost(file, order[n])]
  BY <1>6, <1>7, <1>9
<1> QED
  BY <1>5, <1>9, <1>10 DEF Declared

\* Global directives of the kinds apply_defaults hands down say no host name, no
\* port and no forward.
LEMMA GlobalsAreHandedDown ==
  ASSUME LimitsAssumption, KeysAssumption, NEW file \in Seq(Lines), GlobalsHandedDown(file)
  PROVE  LET global == Gathered(file, Block(file, 1), NoDefaults) IN
         /\ global.hostname = Unset /\ global.port = 0
         /\ \A k \in ForwardKeys : global.forwards[k] = <<>>
<1> DEFINE B == Block(file, 1)
           global == Gathered(file, B, NoDefaults)
<1>1. /\ With(file, B, "HostName") = {} /\ ValidPorts(file, B) = {}
      /\ \A k \in ForwardKeys : Accepted(file, B, k) = {}
  BY DEF GlobalsHandedDown, With, ValidPorts, Accepted
<1>2. NoDefaults \in HostSet /\ NoDefaults.hostname = Unset /\ NoDefaults.port = 0
  <2>1. NoDefaults \in HostSet
    BY NoDefaultsType
  <2> QED
    BY <2>1 DEF NoDefaults, NewHost
<1> HIDE DEF B
<1>3. /\ global.hostname = LastOr(file, {}, Unset) /\ global.port = LastOr(file, {}, 0)
      /\ global.forwards = RulesOf(file, B)
  <2>1. global = HostOf(NoDefaults.name, HostNameIn(file, B, NoDefaults), PortIn(file, B, NoDefaults),
                        TextOf(file, B, NoDefaults), RulesOf(file, B), Options(file, B))
    BY <1>2, GatheredParts
  <2> HIDE DEF global
  <2>2. /\ global.hostname = HostNameIn(file, B, NoDefaults) /\ global.port = PortIn(file, B, NoDefaults)
        /\ global.forwards = RulesOf(file, B)
    BY <2>1 DEF HostOf
  <2> QED
    BY <1>1, <1>2, <2>2 DEF HostNameIn, PortIn
<1>4. ASSUME NEW k \in ForwardKeys PROVE Rules(file, B, k) = <<>>
  <2>1. Only(file, Accepted(file, B, k)) = <<>>
    BY <1>1, OnlyNone
  <2>2. Upto(MaxForwards, <<>>) = <<>>
    <3>1. <<>> \in Seq({}) /\ Len(<<>>) = 0 /\ Len(<<>>) <= MaxForwards /\ MaxForwards \in Nat
      BY EmptySeq DEF LimitsAssumption
    <3> QED
      BY <3>1, UptoType
  <2> QED
    BY <2>1, <2>2 DEF Rules
<1>5. \A k \in ForwardKeys : global.forwards[k] = <<>>
  <2> HIDE DEF global
  <2> QED
    BY <1>3, <1>4 DEF RulesOf
<1> QED
  BY <1>3, <1>5 DEF LastOr, B

\* On such a file what is documented is what is declared.
LEMMA DocumentedIsDeclared ==
  ASSUME LimitsAssumption, KeysAssumption, NEW file \in Seq(Lines), GlobalsHandedDown(file)
  PROVE  Documented(file) = Declared(file)
<1> DEFINE global == Gathered(file, Block(file, 1), NoDefaults)
<1>1. /\ global.hostname = Unset /\ global.port = 0
      /\ \A k \in ForwardKeys : global.forwards[k] = <<>>
  BY GlobalsAreHandedDown
<1>2. ASSUME NEW n \in DOMAIN NamedLines(file)
      PROVE  DocumentedHost(file, NamedLines(file)[n]) = DeclaredHost(file, NamedLines(file)[n])
  <2> DEFINE i == NamedLines(file)[n]
             own == DeclaredHost(file, i)
             forwards == [k \in ForwardKeys |-> Upto(MaxForwards, own.forwards[k] \o global.forwards[k])]
  <2>1. own \in HostSet
    <3>1. Parse(file) = Declared(file) /\ Parse(file) \in Seq(HostSet)
      BY ReadIsDeclared, ParseType
    <3>2. DOMAIN Declared(file) = DOMAIN NamedLines(file) /\ Declared(file)[n] = own
      BY DEF Declared
    <3> HIDE DEF own
    <3>3. n \in 1..Len(Declared(file))
      BY <3>1, <3>2, LenProperties
    <3> QED
      BY <3>1, <3>2, <3>3, ElementOfSeq
  <2> HIDE DEF global, i
  <2>2. DocumentedHost(file, i) = [own EXCEPT !.hostname = @, !.port = @, !.forwards = forwards]
    BY <1>1 DEF DocumentedHost, global
  <2> HIDE DEF own
  <2>3. own.forwards = forwards
    <3>1. ASSUME NEW k \in ForwardKeys
          PROVE  Upto(MaxForwards, own.forwards[k] \o global.forwards[k]) = own.forwards[k]
      <4>1. own.forwards[k] \in Seq(RuleSet) /\ Len(own.forwards[k]) <= MaxForwards /\ MaxForwards \in Nat
        BY <2>1 DEF HostSet, LimitsAssumption
      <4> DEFINE rules == own.forwards[k]
      <4>2. global.forwards[k] = <<>>
        BY <1>1
      <4>3. rules \o <<>> = rules
        <5> HIDE DEF rules
        <5> QED
          BY <4>1, ConcatEmptySeq
      <4> QED
        BY <4>1, <4>2, <4>3, UptoType
    <3>2. own.forwards = [k \in ForwardKeys |-> own.forwards[k]]
      BY <2>1 DEF HostSet
    <3> QED
      BY <3>1, <3>2
  <2> HIDE DEF forwards
  <2>4. [own EXCEPT !.hostname = @, !.port = @, !.forwards = forwards] = own
    BY <2>1, <2>3 DEF HostSet
  <2> QED
    BY <2>2, <2>4 DEF own, i
<1> QED
  BY <1>2 DEF Documented, Declared

\* Choosing the local mode, when ~/.ssh/config is read to its end, puts into
\* memory what the head of config_parser.c says of it, for any file whose global
\* directives are of the kinds that are handed down: the hosts in order, of each
\* keyword the last value, of the ports the last valid one, the rules that are
\* understood and the options there is room for, of the global directives what
\* the host does not set, and nothing of a pattern's block.
THEOREM LoadIsDocumentedHolds == Spec => LoadIsDocumented
<1> DEFINE Load == /\ ReadWhole
                   /\ NoRepeats(Contents(config)) /\ GlobalsHandedDown(Contents(config))
<1>1. ASSUME FileInv, [Next]_vars
      PROVE  [Load => hosts' = Documented(Contents(config))]_vars
  <2>1. SUFFICES ASSUME ~(UNCHANGED vars), Load
                 PROVE  hosts' = Documented(Contents(config))
    OBVIOUS
  <2>2. mode' = "local" /\ edits' = edits /\ at' = at /\ at = "idle" /\ ~unread'
    BY <2>1 DEF ReadWhole
  <2>3. UseLocal
    <3>1. ASSUME NEW j, SaveHost(j) PROVE FALSE
      BY <2>2, <3>1 DEF SaveHost, Change
    <3>2. ASSUME NEW n, DeleteHost(n) PROVE FALSE
      BY <2>2, <3>2 DEF DeleteHost, Change
    <3>3. ~(Backup \/ Copy \/ CopyCut \/ Open \/ Write \/ WriteCut \/ SyncFails)
      BY <2>2 DEF Backup, Copy, CopyCut, Open, Write, WriteCut, SyncFails
    <3>4. ~(Restart \/ UseLocalCut)
      BY <2>2 DEF Restart, UseLocalCut
    <3> QED
      BY <1>1, <2>1, <3>1, <3>2, <3>3, <3>4 DEF Next
  <2>4. Contents(config) \in Seq(Lines)
    BY <1>1, EmptySeq DEF FileInv, Contents
  <2>5. Parse(Contents(config)) = Declared(Contents(config))
    BY <2>4, ReadIsDeclared, KeysAssumption, LimitsAssumption
  <2>6. Documented(Contents(config)) = Declared(Contents(config))
    BY <2>1, <2>4, DocumentedIsDeclared, KeysAssumption, LimitsAssumption
  <2> QED
    BY <2>3, <2>5, <2>6 DEF UseLocal
<1> QED
  BY <1>1, FileInvHolds, PTL DEF Spec, LoadIsDocumented
=============================================================================
