----------------------------- MODULE ConfigFile -----------------------------
(***************************************************************************)
(* ~/.ssh/config and its copy ~/.ssh/config.bak in local mode: the hosts   *)
(* are read when the mode is chosen (cm_use_local, cm_setup), a page shows *)
(* them as JSON and posts one back, and every change rewrites the file     *)
(* (cm_sync, ssh_hosts_write_config in src/src/config_parser.c).  The      *)
(* application may end between any two steps and in the middle of a write. *)
(* One change is made at a time; a cut file is cut between two lines.  A   *)
(* read or a write that stops half way without notice is an action of its  *)
(* own beside the one that succeeds.                                       *)
(***************************************************************************)
EXTENDS SshConfig

CONSTANTS
  Names,         \* names of hosts that are posted and deleted
  Texts,         \* values of HostName and of the keys in TextKeys
  Ports,         \* values of Port
  ForwardRules,  \* rules of forwards a page may add
  Files,         \* contents of ~/.ssh/config before the first start
  ReadFiles,     \* bound: such contents that are read and not changed
  MaxEdits,      \* bound: changes made, over all starts
  None           \* no file, nothing posted

ASSUME FilesAssumption ==
  /\ Files \cup ReadFiles \in SUBSET Seq(Lines) /\ None \notin Seq(Lines)
  /\ Names \in SUBSET HostNames /\ Texts \in SUBSET Words /\ Ports \in SUBSET Int
  /\ ForwardRules \in SUBSET RuleSet /\ MaxEdits \in Nat

VARIABLES
  config,   \* ~/.ssh/config
  bak,      \* ~/.ssh/config.bak
  mode,     \* cm->mode, of which only local matters here
  hosts,    \* cm->hosts
  at,       \* where the synchronisation is
  edits,    \* changes made so far
  good,     \* the last complete contents of the file
  spoilt,   \* since then the file was replaced with no complete copy beside it
  unsynced, \* a change is in memory only
  unread,   \* memory holds part of what the file says, unnoticed
  cut,      \* the last write was cut, unnoticed
  posted    \* the host of the last change answered with ok

fileVars == <<config, bak>>
histVars == <<good, spoilt, unsynced, unread, cut, posted>>
vars == <<fileVars, mode, hosts, at, edits, histVars>>

Contents(file) == IF file = None THEN <<>> ELSE file

\* What may be there of a file that was being written.
Cut(file) == Prefixes(file) \ {file}

Init ==
  /\ \/ config \in Files \cup {None} /\ edits = 0
     \/ config \in ReadFiles /\ edits = MaxEdits
  /\ bak = None
  /\ mode = "first_run" /\ hosts = <<>> /\ at = "idle"
  /\ good = config /\ spoilt = FALSE /\ posted = None
  /\ unsynced = FALSE /\ unread = FALSE /\ cut = FALSE

\* A plausible bug: the hosts in memory are not freed first.
UseLocalKeepsHosts ==
  /\ at = "idle"
  /\ hosts' = hosts \o Parse(Contents(config))
  /\ mode' = "local" /\ unsynced' = FALSE /\ unread' = FALSE
  /\ UNCHANGED <<fileVars, at, edits, good, spoilt, cut, posted>>

\* cm_use_local, or cm_setup for the local mode: the whole file is read.
UseLocal ==
  /\ at = "idle"
  /\ hosts' = Parse(Contents(config))
  /\ mode' = "local" /\ unsynced' = FALSE /\ unread' = FALSE
  /\ UNCHANGED <<fileVars, at, edits, good, spoilt, cut, posted>>

\* The file cannot be opened, a read fails or memory runs out: the hosts of the
\* lines read until then are used, none of them at worst, and the call answers 0.
UseLocalCut ==
  /\ at = "idle"
  /\ \E lines \in Cut(Contents(config)) : hosts' = Parse(lines)
  /\ mode' = "local" /\ unsynced' = FALSE /\ unread' = TRUE
  /\ UNCHANGED <<fileVars, at, edits, good, spoilt, cut, posted>>

-----------------------------------------------------------------------------
(* A change of the hosts                                                   *)

\* The first host of a name, 0 when there is none.
Found(name) == SelectInSeq(hosts, LAMBDA h : h.name = name)

\* What a user makes of the host in the editor: one field is changed.
Edited(j) ==
  {[j EXCEPT !.hostname = v] : v \in Texts \cup {Unset}}
    \cup {[j EXCEPT !.port = p] : p \in Ports}
    \cup (UNION {{[j EXCEPT !.text[k] = v] : v \in Texts \cup {Unset}} : k \in TextKeys})
    \cup (UNION {{[j EXCEPT !.forwards[k] = Append(@, r)] : r \in ForwardRules} : k \in ForwardKeys})

\* What the editor posts: it leaves out rules without a port or a destination.
IsComplete(k, rule) == rule.port # 0 /\ (k = "DynamicForward" \/ rule.to # Unset)
Collected(j) ==
  [j EXCEPT !.forwards =
     [k \in ForwardKeys |-> Only(@[k], {i \in DOMAIN @[k] : IsComplete(k, @[k][i])})]]

\* The editor opened on a host of the page, or empty.
Forms ==
  {ToJson(hosts[i]) : i \in {n \in DOMAIN hosts : hosts[n].name \in Names}}
    \cup {[ToJson(NewHost(n)) EXCEPT !.hostname = Unset] : n \in Names}

\* A change is made, its synchronisation begins.
Change(newHosts) ==
  /\ at = "idle" /\ mode = "local" /\ edits < MaxEdits
  /\ hosts' = newHosts
  /\ at' = "sync" /\ edits' = edits + 1 /\ unsynced' = TRUE
  /\ UNCHANGED <<fileVars, mode, good, spoilt, unread, cut>>

\* A plausible bug: the host is appended whether or not there is one.
SaveHostAppends(j) ==
  /\ Change(Append(hosts, FromJson(j)))
  /\ posted' = j

\* handle_host_save, cm_save_host: the first host of the name is replaced.
SaveHost(j) ==
  /\ Change(IF Found(j.name) = 0 THEN Append(hosts, FromJson(j))
            ELSE ReplaceAt(hosts, Found(j.name), FromJson(j)))
  /\ posted' = j

\* cm_delete_host: the first host of the name.  What was not read or was cut off
\* is deleted from the file as well.
DeleteHost(name) ==
  /\ Found(name) # 0
  /\ Change(RemoveAt(hosts, Found(name)))
  /\ posted' = IF unread \/ cut \/ (posted # None /\ posted.name = name) THEN None ELSE posted

-----------------------------------------------------------------------------
(* ssh_hosts_write_config                                                  *)

\* A plausible bug: no copy is made.
BackupSkipped ==
  /\ at = "sync"
  /\ at' = "copied"
  /\ UNCHANGED <<fileVars, mode, hosts, edits, histVars>>

\* A file that exists is copied first: the copy is opened, and so truncated.
\* With no file there is nothing to copy, but its directory may be made.
Backup ==
  /\ at = "sync"
  /\ IF config = None
       THEN at' = "copied" /\ UNCHANGED bak
       ELSE at' = "copying" /\ bak' = <<>>
  /\ spoilt' = (spoilt \/ config # good)
  /\ UNCHANGED <<config, mode, hosts, edits, good, unsynced, unread, cut, posted>>

\* copy_file.
Copy ==
  /\ at = "copying"
  /\ bak' = config /\ at' = "copied"
  /\ UNCHANGED <<config, mode, hosts, edits, histVars>>

\* On a full disk the copy is incomplete.  What fwrite reports ends the save;
\* what only fclose would report is not seen.
CopyCut ==
  /\ at = "copying"
  /\ bak' \in Cut(config)
  /\ \/ at' = "idle" /\ posted' = None /\ UNCHANGED spoilt
     \/ at' = "copied" /\ spoilt' = TRUE /\ UNCHANGED posted
  /\ UNCHANGED <<config, mode, hosts, edits, good, unsynced, unread, cut>>

\* The file is opened for writing, and so truncated.
Open ==
  /\ at = "copied"
  /\ config' = <<>> /\ at' = "writing"
  /\ UNCHANGED <<bak, mode, hosts, edits, histVars>>

\* No memory for the JSON, no directory, no permission on a file: -1.
SyncFails ==
  /\ at \in {"sync", "copied"}
  /\ at' = "idle" /\ posted' = None
  /\ UNCHANGED <<fileVars, mode, hosts, edits, good, spoilt, unsynced, unread, cut>>

\* The save ends with 0.
Write ==
  /\ at = "writing"
  /\ config' = Written(hosts) /\ at' = "idle"
  /\ good' = config' /\ spoilt' = FALSE
  /\ unsynced' = FALSE /\ unread' = FALSE /\ cut' = FALSE
  /\ UNCHANGED <<bak, mode, hosts, edits, posted>>

\* On a full disk the file is incomplete and the save ends with 0 all the same.
WriteCut ==
  /\ at = "writing"
  /\ config' \in Cut(Written(hosts)) /\ at' = "idle"
  /\ cut' = TRUE
  /\ UNCHANGED <<bak, mode, hosts, edits, good, spoilt, unsynced, unread, posted>>

-----------------------------------------------------------------------------
\* The application ends, at any moment, and is started again.
Restart ==
  /\ mode' = "first_run" /\ hosts' = <<>> /\ at' = "idle"
  /\ unsynced' = FALSE /\ unread' = FALSE
  /\ posted' = IF at = "idle" THEN posted ELSE None
  /\ bak' \in IF at = "copying" THEN Prefixes(config) ELSE {bak}
  /\ config' \in IF at = "writing" THEN Prefixes(Written(hosts)) ELSE {config}
  /\ good' = IF at = "writing" /\ config' = Written(hosts) THEN config' ELSE good
  /\ spoilt' = (spoilt /\ good' # config')
  /\ UNCHANGED <<edits, cut>>

Next ==
  \/ UseLocal \/ UseLocalCut
  \/ \E j \in Forms, n \in Names : \/ \E k \in Edited(j) : SaveHost(Collected(k))
                                   \/ DeleteHost(n)
  \/ Backup \/ Copy \/ CopyCut \/ Open \/ Write \/ WriteCut \/ SyncFails
  \/ Restart

Spec == Init /\ [][Next]_vars

-----------------------------------------------------------------------------
(* Properties                                                              *)

IsText(v) == v \in Texts \cup Names \cup {Unset}

\* Every variable has its type; a host keeps at most as many forwards and
\* options as its arrays have room for.
TypeOK ==
  /\ mode \in {"first_run", "local"}
  /\ at \in {"idle", "sync", "copying", "copied", "writing"}
  /\ edits \in 0..MaxEdits
  /\ spoilt \in BOOLEAN /\ unsynced \in BOOLEAN /\ unread \in BOOLEAN /\ cut \in BOOLEAN
  /\ \A i \in DOMAIN hosts :
       /\ \A k \in ForwardKeys : Len(hosts[i].forwards[k]) <= MaxForwards
       /\ Len(hosts[i].options) <= MaxOptions

\* The file is read whole: the step that chooses the local mode.
ReadWhole == at = "idle" /\ mode' = "local" /\ ~unread' /\ UNCHANGED <<at, edits>>

\* Choosing the local mode, when the file is read to its end, shows what the head
\* of config_parser.c says of it: each concrete Host block in order with its own
\* directives, the global directives the host does not set, and nothing of a
\* pattern's block.  Files with a keyword twice in a block are left out, as the
\* reader takes the last value and ssh the first, and those with a global
\* HostName, Port or forward, which no host inherits, against what the head says.
LoadIsDocumented ==
  [][ReadWhole /\ NoRepeats(Contents(config)) /\ GlobalsHandedDown(Contents(config))
       => hosts' = Documented(Contents(config))]_vars

\* Between two changes, unless the last one could not be synchronised or the file
\* not be read to its end, reading the file again gives what memory holds, as far
\* as the format can carry it, after any number of loads and starts.
SavedIsRead ==
  mode = "local" /\ at = "idle" /\ ~unsynced /\ ~unread
    => CarriedHosts(Parse(Contents(config))) = CarriedHosts(hosts)

\* The host that was posted is what the next start reads under its name: the
\* fields go through JSON, memory and the file, and what exceeds MAX_FORWARDS is
\* dropped.
PostedIsShown ==
  at = "idle" /\ posted # None /\ ~HasWildcard(posted.name)
    => LET read == Parse(Contents(config))
           i == SelectInSeq(read, LAMBDA h : h.name = posted.name) IN
       i # 0 /\ ToJson(read[i]) = ToJson(Carried(FromJson(posted)))

\* A host that was posted and answered with ok, on a disk that is not full, is
\* shown by any later start, failed loads and changes of other hosts in between.
ShownAfterRestart == ~cut => PostedIsShown

\* Whenever the application ends, the last complete contents are in the file or
\* in its copy, unless a save began on an incomplete file or its copy was cut
\* without notice.
Recoverable == good # None /\ ~spoilt => good \in {config, bak}

-----------------------------------------------------------------------------
(* The strengthening                                                       *)

\* Where the last complete contents are at each step of a save.
WhereInv ==
  good # None /\ ~spoilt =>
    /\ at \in {"copying", "copied"} => config = good
    /\ at \in {"copied", "writing"} => bak = good
    /\ good \in {config, bak}

\* The file consists of lines, and memory of hosts that fit their arrays.
FileInv ==
  /\ config \in Seq(Lines) \cup {None} /\ hosts \in Seq(HostSet)
  /\ edits \in 0..MaxEdits

\* Memory is what was read from the file, or the file was written from memory,
\* unless a change is still in memory only.
LoadedOrWritten ==
  mode = "local" /\ at = "idle" /\ ~unsynced /\ ~unread
    => hosts = Parse(Contents(config)) \/ config = Written(hosts)

\* The reader undoes the writer on the hosts in memory, as far as the format can
\* carry them, however they came there: read, edited, posted or saved before.
RoundTrip ==
  /\ Written(hosts) # None
  /\ CarriedHosts(Parse(Written(hosts))) = CarriedHosts(hosts)

\* While a save is under way its change is in memory only.
SyncInv == LoadedOrWritten /\ (at # "idle" => unsynced)

\* The first host of a name in a sequence.
IsFirst(hs, name, h) ==
  \E i \in DOMAIN hs : hs[i] = h /\ h.name = name /\ \A j \in 1..(i - 1) : hs[j].name # name

\* What was posted is in memory, or there as the file carries it, and between two
\* saves it is in the file.
PostedInv ==
  posted # None =>
    /\ posted \in JsonSet
    /\ at # "idle" => mode = "local"
    /\ ~HasWildcard(posted.name) =>
         /\ mode = "local" /\ (at = "idle" => ~unread /\ ~cut) =>
              \E h \in {FromJson(posted), Carried(FromJson(posted))} : IsFirst(hosts, posted.name, h)
         /\ at = "idle" /\ ~cut =>
              IsFirst(Parse(Contents(config)), posted.name, Carried(FromJson(posted)))
=============================================================================
