--------------------------- MODULE ConfigManager ---------------------------
(***************************************************************************)
(* The hosts of sshpad, their master password, and the places they are     *)
(* kept in (src/src/config_manager.c): an encrypted object in an R2        *)
(* bucket, or ~/.ssh/config; r2.json keeps the credentials of the bucket.  *)
(* A call is one POST to /api/config/... or /api/host/..., handled by the  *)
(* thread of its connection.  The hosts are a function from names to       *)
(* values, their order is left out.  An object is its plaintext and the    *)
(* password that opens it; a bucket stands for its credentials as well.    *)
(* settings.json is written and never read, so that only the failure to    *)
(* write it is modelled.  The steps whose result nobody looks at (a read   *)
(* or a write that stops half way, an object that is not read) are actions *)
(* of their own beside the step that succeeds.                             *)
(***************************************************************************)
CONSTANTS
  Calls,        \* calls of the API
  Names,        \* names of hosts
  CloudValues,  \* what a client saves under a name while the mode is cloud
  LocalValues,  \* ... and while it is local
  Passwords,    \* master passwords
  Kept,         \* what the 255 bytes of cm->password keep of each
  Buckets,      \* buckets with their credentials
  SerialCalls,  \* TRUE: clients wait for one call before the next
  None          \* no host, object, password, credentials or lock holder

Values == CloudValues \cup LocalValues
Hosts == [Names -> Values \cup {None}]
NoHosts == [n \in Names |-> None]
Object == [hosts : Hosts, password : Passwords]

ASSUME ConstantsAssumption ==
  /\ CloudValues \cap LocalValues = {}
  /\ SerialCalls \in BOOLEAN
  /\ Kept \in [Passwords -> Passwords]
  /\ \A p \in Passwords : Kept[Kept[p]] = Kept[p]
  /\ None \notin Calls \cup CloudValues \cup LocalValues \cup Passwords \cup Buckets \cup Object

\* The bodies of the calls; "local" is /api/config/use-local and the setup with
\* mode local, "switch" is /api/config/r2-settings.
Request ==
  [op : {"save"}, name : Names, value : Values]
    \cup [op : {"delete"}, name : Names]
    \cup [op : {"setup"}, bucket : Buckets, password : Passwords]
    \cup [op : {"unlock"}, password : Passwords]
    \cup [op : {"change"}, old : Passwords, new : Passwords]
    \cup [op : {"switch"}, bucket : Buckets]
    \cup [op : {"local"}]

VARIABLES
  mode,        \* cm->mode
  hosts,       \* cm->hosts and cm->num_hosts
  password,    \* cm->password
  r2cfg,       \* cm->r2_cfg
  lock,        \* the call that keeps cm->lock during a network request
  store,       \* the object in each bucket
  localFile,   \* ~/.ssh/config
  r2File,      \* r2.json
  call,        \* where each call is
  arg,         \* the request of each call
  json,        \* the hosts each cm_sync has serialised
  blob,        \* the object each call uploads
  dest,        \* the bucket each cm_sync uploads to
  unsynced,    \* a change of the hosts is in memory only, or may be
  partial,     \* a read into memory or a write of the file took only part, unnoticed
  doubtful,    \* a change of password has reached the bucket, its answer has not
  diskFailed   \* a write of r2.json or settings.json has failed since the start

memVars == <<mode, hosts, password, r2cfg>>
storeVars == <<store, localFile, r2File>>
syncVars == <<json, blob, dest>>
histVars == <<unsynced, partial, doubtful, diskFailed>>
vars == <<memVars, lock, storeVars, call, arg, syncVars, histVars>>

Finished == {"ok", "failed", "refused", "lost"}
Quiet == \A c \in Calls : call[c] \in Finished \cup {"idle"}
LockFree == lock = None

\* r2_config_load: a file that is missing or incomplete counts as none.
LoadR2 == r2File

\* r2_get_object when the answer arrives, None for 404.
Downloaded == store[r2cfg]

\* What a read or a write that stops half way leaves of some hosts of a file: any
\* of them, and one that is not complete.  A file of no hosts has none to cut.
CutOf(hs) ==
  {cut \in Hosts :
     /\ hs = NoHosts => cut = NoHosts
     /\ \E m \in Names :
          /\ cut[m] \in {hs[m], None} \cup LocalValues
          /\ \A n \in Names \ {m} : cut[n] \in {hs[n], None}}

\* Memory and the store of the mode agree again.
AgreeAgain == unsynced' = FALSE /\ partial' = FALSE

\* Every start, the first one or after a crash, is cm_create: it reads r2.json
\* and leaves the choice of the mode to the wizard.
Init ==
  /\ store \in [Buckets -> [hosts : [Names -> CloudValues \cup {None}],
                            password : Passwords] \cup {None}]
  /\ localFile \in [Names -> LocalValues \cup {None}]
  /\ r2File \in Buckets \cup {None}
  /\ mode = "first_run" /\ hosts = NoHosts /\ password = None /\ r2cfg = LoadR2
  /\ lock = None
  /\ call = [c \in Calls |-> "idle"]
  /\ arg = [c \in Calls |-> None]
  /\ json = [c \in Calls |-> NoHosts]
  /\ blob = [c \in Calls |-> None]
  /\ dest = [c \in Calls |-> None]
  /\ unsynced = FALSE /\ partial = FALSE /\ doubtful = FALSE /\ diskFailed = FALSE

Goto(c, position) == call' = [call EXCEPT ![c] = position]

-----------------------------------------------------------------------------
(* The handlers up to the call of the configuration manager                *)

\* What clients save in the present mode.
ModeValues == IF mode = "local" THEN LocalValues ELSE CloudValues

\* A host is saved or deleted only when the mode, read before, is cloud or
\* local; the other handlers look at nothing.
Begin(c, a) ==
  /\ call[c] = "idle"
  /\ SerialCalls => Quiet
  /\ IF a.op \in {"save", "delete"}
       THEN LockFree /\ Goto(c, IF mode \in {"cloud", "local"} THEN a.op ELSE "refused")
       ELSE Goto(c, a.op)
  /\ a.op = "save" => a.value \in ModeValues
  /\ arg' = [arg EXCEPT ![c] = a]
  /\ UNCHANGED <<memVars, lock, storeVars, syncVars, histVars>>

-----------------------------------------------------------------------------
(* cm_save_host, cm_delete_host, cm_change_password: change the memory      *)
(* under the lock, then synchronise without it                              *)

SaveHost(c) ==
  /\ call[c] = "save" /\ LockFree
  /\ hosts' = [hosts EXCEPT ![arg[c].name] = arg[c].value]
  /\ Goto(c, "sync")
  /\ UNCHANGED <<mode, password, r2cfg, lock, storeVars, arg, syncVars, histVars>>

DeleteHost(c) ==
  /\ call[c] = "delete" /\ LockFree
  /\ hosts[arg[c].name] # None
  /\ hosts' = [hosts EXCEPT ![arg[c].name] = None]
  /\ Goto(c, "sync")
  /\ UNCHANGED <<mode, password, r2cfg, lock, storeVars, arg, syncVars, histVars>>

\* The new password is copied into the 255 bytes.
ChangePassword(c) ==
  /\ call[c] = "change" /\ LockFree
  /\ mode = "cloud" /\ password = arg[c].old
  /\ password' = Kept[arg[c].new]
  /\ Goto(c, "sync")
  /\ UNCHANGED <<mode, hosts, r2cfg, lock, storeVars, arg, syncVars, histVars>>

\* No such host, the wrong mode or password, or (realloc) no memory.
ChangeNothing(c) ==
  /\ LockFree
  /\ \/ call[c] = "save"
     \/ call[c] = "delete" /\ hosts[arg[c].name] = None
     \/ call[c] = "change" /\ (mode # "cloud" \/ password # arg[c].old)
  /\ Goto(c, "failed")
  /\ UNCHANGED <<memVars, lock, storeVars, arg, syncVars, histVars>>

\* A plausible bug: the new password stays.
RollBackNothing(c) ==
  /\ call[c] = "rollback" /\ LockFree
  /\ Goto(c, "failed")
  /\ UNCHANGED <<memVars, lock, storeVars, arg, syncVars, histVars>>

\* The change of password is undone when it could not be synchronised.
RollBack(c) ==
  /\ call[c] = "rollback" /\ LockFree
  /\ password' = arg[c].old
  /\ Goto(c, "failed")
  /\ UNCHANGED <<mode, hosts, r2cfg, lock, storeVars, arg, syncVars, histVars>>

-----------------------------------------------------------------------------
(* cm_sync reads the hosts, the mode, the password and the credentials one  *)
(* after the other, without the lock                                        *)

\* A plausible bug: the result of every synchronisation is ignored.
AfterFailureIgnored(c) == IF arg[c].op = "change" THEN "rollback" ELSE "ok"

\* Where the caller goes on: the result of a deletion is ignored.
AfterFailure(c) ==
  CASE arg[c].op = "save" -> "failed"
    [] arg[c].op = "delete" -> "ok"
    [] arg[c].op = "change" -> "rollback"

Synced(c) == Goto(c, "ok") /\ AgreeAgain /\ doubtful' = FALSE /\ UNCHANGED diskFailed

Encode(c) ==
  /\ call[c] = "sync"
  /\ json' = [json EXCEPT ![c] = hosts]
  /\ Goto(c, "encoded")
  /\ UNCHANGED <<memVars, lock, storeVars, arg, blob, dest, histVars>>

Encrypt(c) ==
  /\ call[c] = "encoded" /\ mode = "cloud"
  /\ blob' = [blob EXCEPT ![c] = [hosts |-> json[c], password |-> password]]
  /\ Goto(c, "encrypted")
  /\ UNCHANGED <<memVars, lock, storeVars, arg, json, dest, histVars>>

Send(c) ==
  /\ call[c] = "encrypted"
  /\ dest' = [dest EXCEPT ![c] = r2cfg]
  /\ Goto(c, "sent")
  /\ UNCHANGED <<memVars, lock, storeVars, arg, json, blob, histVars>>

Uploaded(c) ==
  /\ call[c] = "sent"
  /\ store' = [store EXCEPT ![dest[c]] = blob[c]]
  /\ Synced(c)
  /\ UNCHANGED <<memVars, lock, localFile, r2File, arg, syncVars>>

\* The object is in the bucket and the answer does not arrive.
AnswerLost(c) ==
  /\ call[c] = "sent"
  /\ store' = [store EXCEPT ![dest[c]] = blob[c]]
  /\ Goto(c, AfterFailure(c))
  /\ unsynced' = TRUE
  /\ doubtful' = (doubtful \/ arg[c].op = "change")
  /\ UNCHANGED <<memVars, lock, localFile, r2File, arg, syncVars, partial, diskFailed>>

\* Nothing reaches the store: no memory, no network, no access to the bucket or
\* the file, or a mode without a store.
SyncFails(c) ==
  /\ call[c] \in {"sync", "encoded", "encrypted", "sent"}
  /\ Goto(c, AfterFailure(c))
  /\ unsynced' = (unsynced \/ arg[c].op # "change")
  /\ UNCHANGED <<memVars, lock, storeVars, arg, syncVars, partial, doubtful, diskFailed>>

\* Local mode: the hosts of the manager are written, not the ones serialised.
WriteLocal(c) ==
  /\ call[c] = "encoded" /\ mode = "local"
  /\ localFile' = hosts
  /\ Synced(c)
  /\ UNCHANGED <<memVars, lock, store, r2File, arg, syncVars>>

\* The disk is full: fopen has truncated the file, fprintf and fclose are not
\* checked.
WriteLocalCut(c) ==
  /\ call[c] = "encoded" /\ mode = "local"
  /\ localFile' \in CutOf(hosts)
  /\ partial' = TRUE
  /\ Goto(c, "ok")
  /\ UNCHANGED <<memVars, lock, store, r2File, arg, syncVars, unsynced, doubtful, diskFailed>>

-----------------------------------------------------------------------------
(* cm_setup for the cloud, and cm_unlock                                   *)

\* r2_config_save: the file cannot be opened and stays as it is, or it is
\* truncated, and the failure to write it goes unnoticed.
SaveR2(bucket, noticed) ==
  /\ r2File' \in IF noticed THEN {r2File} ELSE {bucket, None}
  /\ diskFailed' = (diskFailed \/ noticed \/ r2File' = None)

\* r2.json, then settings.json.
SetupFiles(c) ==
  /\ call[c] = "setup"
  /\ \/ SaveR2(arg[c].bucket, FALSE) /\ Goto(c, "persisted")
     \/ SaveR2(arg[c].bucket, TRUE) /\ Goto(c, "failed")
     \/ /\ r2File' \in {arg[c].bucket, None} /\ diskFailed' = TRUE
        /\ Goto(c, "failed")
  /\ UNCHANGED <<memVars, lock, store, localFile, arg, syncVars, unsynced, partial, doubtful>>

SetupLocks(c) ==
  /\ call[c] = "persisted" /\ LockFree
  /\ r2cfg' = arg[c].bucket
  /\ mode' = "locked"
  /\ Goto(c, "unlock")
  /\ UNCHANGED <<hosts, password, lock, storeVars, arg, syncVars, histVars>>

\* A plausible bug: the password is not kept.
AdoptNoPassword(c, newHosts) ==
  /\ hosts' = newHosts
  /\ mode' = "cloud"
  /\ AgreeAgain /\ doubtful' = FALSE
  /\ Goto(c, "ok")
  /\ UNCHANGED <<password, r2cfg, diskFailed>>

\* A plausible bug: the hosts in memory are kept.
AdoptOldHosts(c, newHosts) ==
  /\ hosts' = IF newHosts = NoHosts THEN hosts ELSE newHosts
  /\ password' = Kept[arg[c].password]
  /\ mode' = "cloud"
  /\ AgreeAgain /\ doubtful' = FALSE
  /\ Goto(c, "ok")
  /\ UNCHANGED <<r2cfg, diskFailed>>

\* The hosts that were downloaded replace those in memory; the password is copied
\* into the 255 bytes.
Adopt(c, newHosts) ==
  /\ hosts' = newHosts
  /\ password' = Kept[arg[c].password]
  /\ mode' = "cloud"
  /\ AgreeAgain /\ doubtful' = FALSE
  /\ Goto(c, "ok")
  /\ UNCHANGED <<r2cfg, diskFailed>>

\* The answer is an object the password opens.
Unlock(c) ==
  /\ call[c] = "unlock" /\ LockFree /\ mode = "locked"
  /\ Downloaded # None /\ Downloaded.password = arg[c].password
  /\ Adopt(c, Downloaded.hosts)
  /\ UNCHANGED <<lock, storeVars, arg, syncVars>>

\* The same, but the JSON cannot be read (it is not sshpad's, or no memory): the
\* manager has no hosts, and the call answers 0.
UnlockUnread(c) ==
  /\ call[c] = "unlock" /\ LockFree /\ mode = "locked"
  /\ Downloaded # None /\ Downloaded.password = arg[c].password
  /\ hosts' = NoHosts
  /\ password' = Kept[arg[c].password]
  /\ mode' = "cloud"
  /\ partial' = TRUE /\ unsynced' = FALSE /\ doubtful' = FALSE
  /\ Goto(c, "ok")
  /\ UNCHANGED <<r2cfg, lock, storeVars, arg, syncVars, diskFailed>>

\* The mode is not locked, the network fails, or the password is wrong.
UnlockFails(c) ==
  /\ call[c] = "unlock" /\ LockFree
  /\ Goto(c, "failed")
  /\ UNCHANGED <<memVars, lock, storeVars, arg, syncVars, histVars>>

\* The answer is 404.  The lock is kept and an object with no hosts uploaded.
UnlockNew(c) ==
  /\ call[c] = "unlock" /\ LockFree /\ mode = "locked"
  /\ Downloaded = None
  /\ lock' = c
  /\ Goto(c, "creating")
  /\ UNCHANGED <<memVars, storeVars, arg, syncVars, histVars>>

Create(c) ==
  /\ call[c] = "creating"
  /\ store' = [store EXCEPT ![r2cfg] = [hosts |-> NoHosts, password |-> arg[c].password]]
  /\ lock' = None
  /\ \/ Adopt(c, NoHosts)
     \/ Goto(c, "failed") /\ UNCHANGED <<memVars, histVars>>   \* the answer is lost
  /\ UNCHANGED <<localFile, r2File, arg, syncVars>>

\* A plausible bug: a return without the unlock.
CreateFailsLocked(c) ==
  /\ call[c] = "creating"
  /\ Goto(c, "failed")
  /\ UNCHANGED <<memVars, lock, storeVars, arg, syncVars, histVars>>

\* The object could not be encrypted or uploaded.
CreateFails(c) ==
  /\ call[c] = "creating"
  /\ lock' = None
  /\ Goto(c, "failed")
  /\ UNCHANGED <<memVars, storeVars, arg, syncVars, histVars>>

-----------------------------------------------------------------------------
(* cm_set_r2_config: in cloud mode the new bucket gets the present hosts,   *)
(* under the lock                                                          *)

SwitchCloud(c) ==
  /\ call[c] = "switch" /\ LockFree /\ mode = "cloud"
  /\ \E noticed \in BOOLEAN : SaveR2(arg[c].bucket, noticed)
  /\ lock' = c
  /\ Goto(c, "uploading")
  /\ UNCHANGED <<memVars, store, localFile, arg, syncVars, unsynced, partial, doubtful>>

\* The upload succeeds.
SwitchDone(c) ==
  /\ call[c] = "uploading"
  /\ store' = [store EXCEPT ![arg[c].bucket] = [hosts |-> hosts, password |-> password]]
  /\ r2cfg' = arg[c].bucket
  /\ lock' = None
  /\ Goto(c, "ok")
  /\ AgreeAgain /\ doubtful' = FALSE
  /\ UNCHANGED <<mode, hosts, password, localFile, r2File, arg, syncVars, diskFailed>>

\* A plausible bug: the credentials are taken over before the result is known.
SwitchBackLate(c) ==
  /\ call[c] = "uploading"
  /\ \/ UNCHANGED store
     \/ store' = [store EXCEPT ![arg[c].bucket] = [hosts |-> hosts, password |-> password]]
  /\ r2cfg' = arg[c].bucket
  /\ \E noticed \in BOOLEAN : SaveR2(arg[c].bucket, noticed)
  /\ lock' = None
  /\ Goto(c, "failed")
  /\ UNCHANGED <<mode, hosts, password, localFile, arg, syncVars, unsynced, partial, doubtful>>

\* A plausible bug: r2.json is not restored.
SwitchBackFileKept(c) ==
  /\ call[c] = "uploading"
  /\ \/ UNCHANGED store
     \/ store' = [store EXCEPT ![arg[c].bucket] = [hosts |-> hosts, password |-> password]]
  /\ lock' = None
  /\ Goto(c, "failed")
  /\ UNCHANGED <<memVars, r2File, localFile, arg, syncVars, histVars>>

\* It fails, or its answer is lost: r2.json is restored.
SwitchBack(c) ==
  /\ call[c] = "uploading"
  /\ \/ UNCHANGED store
     \/ store' = [store EXCEPT ![arg[c].bucket] = [hosts |-> hosts, password |-> password]]
  /\ \E noticed \in BOOLEAN : SaveR2(r2cfg, noticed)
  /\ lock' = None
  /\ Goto(c, "failed")
  /\ UNCHANGED <<memVars, localFile, arg, syncVars, unsynced, partial, doubtful>>

\* In cloud mode, no memory for the object.
SwitchFails(c) ==
  /\ call[c] = "switch" /\ LockFree /\ mode = "cloud"
  /\ Goto(c, "failed")
  /\ UNCHANGED <<memVars, lock, storeVars, arg, syncVars, histVars>>

\* In the other modes memory first, then r2.json without the lock.
SwitchOther(c) ==
  /\ call[c] = "switch" /\ LockFree /\ mode # "cloud"
  /\ r2cfg' = arg[c].bucket
  /\ Goto(c, "persist")
  /\ UNCHANGED <<mode, hosts, password, lock, storeVars, arg, syncVars, histVars>>

SwitchPersist(c) ==
  /\ call[c] = "persist"
  /\ \E noticed \in BOOLEAN : SaveR2(r2cfg, noticed)
  /\ Goto(c, "ok")
  /\ UNCHANGED <<memVars, lock, store, localFile, arg, syncVars, unsynced, partial, doubtful>>

-----------------------------------------------------------------------------
(* cm_use_local, cm_setup for the local mode, and a crash                  *)

UseLocal(c) ==
  /\ call[c] = "local" /\ LockFree
  /\ hosts' = localFile
  /\ mode' = "local"
  /\ Goto(c, "ok")
  /\ AgreeAgain
  /\ UNCHANGED <<password, r2cfg, lock, storeVars, arg, syncVars, doubtful, diskFailed>>

\* ~/.ssh/config cannot be opened or not be read to its end, or memory runs out:
\* the manager has part of the hosts, or none, and the call answers 0.
UseLocalCut(c) ==
  /\ call[c] = "local" /\ LockFree
  /\ hosts' \in CutOf(localFile)
  /\ mode' = "local"
  /\ partial' = TRUE /\ unsynced' = FALSE
  /\ Goto(c, "ok")
  /\ UNCHANGED <<password, r2cfg, lock, storeVars, arg, syncVars, doubtful, diskFailed>>

\* The setup cannot write settings.json.
LocalFails(c) ==
  /\ call[c] = "local" /\ LockFree
  /\ Goto(c, "failed")
  /\ UNCHANGED <<memVars, lock, storeVars, arg, syncVars, histVars>>

\* The application ends, at any moment, and is started again.
Restart ==
  /\ mode' = "first_run" /\ hosts' = NoHosts /\ password' = None /\ r2cfg' = LoadR2
  /\ lock' = None
  /\ call' = [c \in Calls |-> IF call[c] \in Finished \cup {"idle"} THEN call[c] ELSE "lost"]
  /\ AgreeAgain /\ doubtful' = FALSE /\ diskFailed' = FALSE
  /\ UNCHANGED <<storeVars, arg, syncVars>>

-----------------------------------------------------------------------------
Step(c) ==
  \/ SaveHost(c) \/ DeleteHost(c) \/ ChangePassword(c) \/ ChangeNothing(c) \/ RollBack(c)
  \/ Encode(c) \/ Encrypt(c) \/ Send(c) \/ Uploaded(c) \/ AnswerLost(c)
  \/ SyncFails(c) \/ WriteLocal(c) \/ WriteLocalCut(c)
  \/ SetupFiles(c) \/ SetupLocks(c)
  \/ Unlock(c) \/ UnlockUnread(c) \/ UnlockFails(c) \/ UnlockNew(c) \/ Create(c) \/ CreateFails(c)
  \/ SwitchCloud(c) \/ SwitchDone(c) \/ SwitchBack(c) \/ SwitchFails(c)
  \/ SwitchOther(c) \/ SwitchPersist(c)
  \/ UseLocal(c) \/ UseLocalCut(c) \/ LocalFails(c)

Next ==
  \/ \E c \in Calls : Step(c) \/ \E a \in Request : Begin(c, a)
  \/ Restart

Spec == Init /\ [][Next]_vars

-----------------------------------------------------------------------------
(* Properties                                                              *)

\* Every variable has its type.  In particular an object is only ever made with
\* a master password and uploaded to a bucket, however calls overlap.
TypeOK ==
  /\ mode \in {"first_run", "locked", "cloud", "local"}
  /\ hosts \in Hosts
  /\ password \in Passwords \cup {None}
  /\ r2cfg \in Buckets \cup {None}
  /\ lock \in Calls \cup {None}
  /\ store \in [Buckets -> Object \cup {None}]
  /\ localFile \in Hosts
  /\ r2File \in Buckets \cup {None}
  /\ call \in [Calls -> {"idle", "save", "delete", "change", "sync", "encoded",
                         "encrypted", "sent", "rollback", "setup", "persisted",
                         "unlock", "creating", "switch", "uploading", "persist",
                         "local"} \cup Finished]
  /\ arg \in [Calls -> Request \cup {None}]
  /\ json \in [Calls -> Hosts]
  /\ blob \in [Calls -> Object \cup {None}]
  /\ dest \in [Calls -> Buckets \cup {None}]
  /\ unsynced \in BOOLEAN /\ partial \in BOOLEAN /\ doubtful \in BOOLEAN /\ diskFailed \in BOOLEAN

\* The object in the bucket and the hosts in memory agree, or the local file and
\* they do; the password of the object is the given one, as far as it is kept.
OpensWith(pw) == store[r2cfg] # None /\ Kept[store[r2cfg].password] = pw
AgreesWith(pw) == OpensWith(pw) /\ store[r2cfg].hosts = hosts
Agree ==
  /\ mode = "cloud" => AgreesWith(password)
  /\ mode = "local" => localFile = hosts

\* Between two calls what is stored is what memory holds: a change of password or
\* of the credentials that failed half way has been undone on both sides.  Two
\* things are known to part them, until the next synchronisation or load is
\* complete: a save or a deletion that could not be synchronised (unsynced; a
\* deletion answers ok all the same), and an unlock, a choice of the local mode or
\* a write of the file whose failure nobody looks at (partial; all answer ok).
StoreAgrees == Quiet /\ ~unsynced /\ ~partial => Agree

\* A save, a change of password or of the credentials that answers ok in cloud
\* mode has stored all that memory holds, whatever failed before it: after a
\* failed synchronisation or an unread object too.
OkIsStored ==
  [][\A c \in Calls :
       /\ call[c] \notin Finished /\ call'[c] = "ok"
       /\ arg[c].op \in {"save", "change", "switch"} /\ mode' = "cloud"
       => Agree']_vars

\* Between two calls the password in memory is that of the object in the bucket,
\* as far as 255 bytes of it go, even when the hosts could not be synchronised,
\* unless the answer to a change of password was lost.
PasswordOpens == Quiet /\ mode = "cloud" /\ ~doubtful => OpensWith(password)

\* Between two calls r2.json names the bucket in use, unless a write to the disk
\* has failed: after a restart the same object is found.
R2FileAgrees == Quiet /\ ~diskFailed => r2File = r2cfg

\* Hosts saved in local mode never reach a bucket, nor hosts of the cloud the
\* local file, whatever modes were used and whatever setups failed.
Within(hs, values) == \A n \in Names : hs[n] \in values \cup {None}
NotMixed ==
  /\ Within(localFile, LocalValues)
  /\ \A b \in Buckets : store[b] # None => Within(store[b].hosts, CloudValues)

\* A call that has returned, on whatever path, has released the lock.
LockReleased == Quiet => LockFree

\* Two hosts whose saves were both answered with ok are both stored, when
\* nothing but one setup and saves was ever called.
BothSaved ==
  LET saves == {c \in Calls : call[c] # "idle" /\ arg[c].op = "save"}
      others == {c \in Calls \ saves : call[c] # "idle"} IN
  /\ Quiet /\ mode = "cloud"
  /\ \A c, d \in others : c = d
  /\ \A c, d \in saves : call[c] = "ok" /\ (c # d => arg[c].name # arg[d].name)
  => \A c \in saves : store[r2cfg].hosts[arg[c].name] = arg[c].value

-----------------------------------------------------------------------------
(* The strengthenings                                                      *)

Syncing == {"sync", "encoded", "encrypted", "sent"}

\* What makes TypeOK inductive: each position belongs to operations, and what
\* the next step of a call uses is there.
CallInv ==
  /\ mode \in {"locked", "cloud"} => r2cfg \in Buckets
  /\ mode = "cloud" => password \in Passwords /\ Kept[password] = password
  /\ \A c \in Calls :
       /\ call[c] # "idle" => arg[c] \in Request
       /\ call[c] \in {"save", "delete", "change", "setup", "switch"} => arg[c].op = call[c]
       /\ call[c] \in Syncing => arg[c].op \in {"save", "delete", "change"}
       /\ call[c] = "rollback" => arg[c].op = "change"
       /\ call[c] = "persisted" => arg[c].op = "setup"
       /\ call[c] \in {"unlock", "creating"} => arg[c].op \in {"setup", "unlock"}
       /\ call[c] \in {"uploading", "persist"} => arg[c].op = "switch"
       /\ call[c] \in Syncing \cup {"rollback"} /\ arg[c].op = "change"
            => Kept[arg[c].old] = arg[c].old
       /\ call[c] \in {"encrypted", "sent", "creating"} => r2cfg \in Buckets
       /\ call[c] \in {"encrypted", "sent"} => blob[c] \in Object
       /\ call[c] = "sent" => dest[c] \in Buckets
       /\ call[c] = "uploading" => password \in Passwords /\ Kept[password] = password

\* The lock is held by the call that is between its network request and its end.
LockHeld ==
  \A c \in Calls : call[c] \in {"creating", "uploading"} <=> lock = c

\* With calls one at a time, at most one is between its beginning and its end.
OneActive ==
  \A c, d \in Calls :
    c # d => call[c] \in Finished \cup {"idle"} \/ call[d] \in Finished \cup {"idle"}

\* The mode does not change under a call.
ModeKept ==
  \A c \in Calls :
    /\ call[c] \in {"save", "delete"} \cup Syncing => mode \in {"cloud", "local"}
    /\ call[c] \in {"encrypted", "sent", "rollback", "uploading"} => mode = "cloud"
    /\ call[c] \in Syncing /\ arg[c].op = "change" => mode = "cloud"
    /\ call[c] = "creating" => mode = "locked"
    /\ call[c] = "persist" => mode # "cloud"

\* What a synchronisation carries is what memory holds.
CarriesMemory ==
  \A c \in Calls :
    /\ call[c] \in {"encoded", "encrypted", "sent"} => json[c] = hosts
    /\ call[c] \in {"encrypted", "sent"}
         => blob[c] = [hosts |-> hosts, password |-> password]
    /\ call[c] = "sent" => dest[c] = r2cfg

\* The object agrees with memory, or, while a change of password is under way,
\* with memory and the old password.
Changing(c) == call[c] \in Syncing \cup {"rollback"} /\ arg[c].op = "change"
StoreInv ==
  /\ ~unsynced /\ ~partial /\ (\A c \in Calls : call[c] \notin Syncing \cup {"rollback"})
       => Agree
  /\ mode = "cloud" /\ ~doubtful /\ (\A c \in Calls : ~Changing(c)) => OpensWith(password)
  /\ \A c \in Calls :
       Changing(c) =>
         /\ ~unsynced /\ ~partial => AgreesWith(arg[c].old)
         /\ ~doubtful => OpensWith(arg[c].old)

\* r2.json is ahead of memory, or behind it, in three places.
FileInv ==
  ~diskFailed =>
    /\ (\A c \in Calls : call[c] \notin {"persisted", "uploading", "persist"})
         => r2File = r2cfg
    /\ \A c \in Calls : call[c] \in {"persisted", "uploading"} => r2File = arg[c].bucket

\* Memory holds hosts of one origin, and a host about to be saved is of it.
OriginInv ==
  /\ NotMixed
  /\ mode \in {"cloud", "local"} => Within(hosts, ModeValues)
  /\ \A c \in Calls : call[c] = "save" => arg[c].value \in ModeValues

SerialInv ==
  OneActive /\ ModeKept /\ CarriesMemory /\ StoreInv /\ FileInv /\ OriginInv
=============================================================================
