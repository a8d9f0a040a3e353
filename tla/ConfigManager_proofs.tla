------------------------ MODULE ConfigManager_proofs ------------------------
(***************************************************************************)
(* Theorems about the configuration manager.  TypeCorrect holds however    *)
(* calls overlap; SerialCorrect is about calls one at a time, with         *)
(* restarts at any moment and every failure of disk, network and memory.   *)
(***************************************************************************)
EXTENDS ConfigManager, TLAPS

TypeInv == TypeOK /\ CallInv /\ LockHeld

-----------------------------------------------------------------------------
(* Type correctness, whatever the interleaving of calls                    *)

\* What the body of a call of each kind carries (the handlers of http_server.c).
LEMMA RequestFields ==
  ASSUME NEW a \in Request
  PROVE  /\ a.op \in {"save", "delete", "setup", "unlock", "change", "switch", "local"}
         /\ a.op = "save" => a.name \in Names /\ a.value \in Values
         /\ a.op = "delete" => a.name \in Names
         /\ a.op = "setup" => a.bucket \in Buckets /\ a.password \in Passwords
         /\ a.op = "unlock" => a.password \in Passwords
         /\ a.op = "change" => a.old \in Passwords /\ a.new \in Passwords
         /\ a.op = "switch" => a.bucket \in Buckets
BY DEF Request

\* The manager starts well typed (cm_create).
LEMMA InitTypes == Init => TypeInv
<1> SUFFICES ASSUME Init PROVE TypeInv
  OBVIOUS
<1>1. store \in [Buckets -> Object \cup {None}] /\ localFile \in Hosts /\ NoHosts \in Hosts
  BY DEF Init, Object, Hosts, Values, NoHosts
<1>2. TypeOK
  BY <1>1 DEF Init, TypeOK, LoadR2
<1>3. CallInv /\ LockHeld
  BY ConstantsAssumption DEF Init, CallInv, LockHeld, Syncing
<1> QED
  BY <1>2, <1>3 DEF TypeInv

\* Beginning a call keeps the types.
LEMMA BeginTypes ==
  ASSUME TypeInv, NEW c \in Calls, NEW a \in Request, Begin(c, a)
  PROVE  TypeInv'
<1> USE DEF Begin, Goto, memVars, storeVars, syncVars, histVars
<1>0. a.op \in {"save", "delete", "setup", "unlock", "change", "switch", "local"}
  BY RequestFields
<1>1. TypeOK'
  BY <1>0 DEF TypeInv, TypeOK, Finished
<1>2. CallInv'
  BY <1>0 DEF TypeInv, TypeOK, CallInv, Finished, Syncing
<1>3. LockHeld'
  BY <1>0 DEF TypeInv, TypeOK, LockHeld, Finished
<1> QED
  BY <1>1, <1>2, <1>3 DEF TypeInv

\* The changes of memory under the lock keep the types.
LEMMA ChangeTypes ==
  ASSUME TypeInv, NEW c \in Calls,
         SaveHost(c) \/ DeleteHost(c) \/ ChangePassword(c) \/ ChangeNothing(c) \/ RollBack(c)
  PROVE  TypeInv'
<1> USE DEF Goto, LockFree, memVars, storeVars, syncVars, histVars
<1>0. /\ call[c] = "save" => arg[c].name \in Names /\ arg[c].value \in Values
      /\ call[c] = "delete" => arg[c].name \in Names
      /\ call[c] \in {"change", "rollback"} => arg[c].old \in Passwords /\ arg[c].new \in Passwords
      /\ \A p \in Passwords : Kept[p] \in Passwords /\ Kept[Kept[p]] = Kept[p]
  BY RequestFields, ConstantsAssumption DEF TypeInv, CallInv
<1>1. TypeOK'
  <2>1. CASE SaveHost(c)
    BY <1>0, <2>1 DEF SaveHost, TypeInv, TypeOK, Hosts, Finished
  <2>2. CASE DeleteHost(c)
    BY <1>0, <2>2 DEF DeleteHost, TypeInv, TypeOK, Hosts, Finished
  <2>3. CASE ChangePassword(c)
    BY <1>0, <2>3 DEF ChangePassword, TypeInv, TypeOK, Finished
  <2>4. CASE ChangeNothing(c)
    BY <1>0, <2>4 DEF ChangeNothing, TypeInv, TypeOK, Finished
  <2>5. CASE RollBack(c)
    BY <1>0, <2>5 DEF RollBack, TypeInv, TypeOK, Finished
  <2> QED
    BY <2>1, <2>2, <2>3, <2>4, <2>5
<1>2. CallInv'
  BY <1>0 DEF TypeInv, TypeOK, CallInv, Finished, Syncing, SaveHost, DeleteHost,
              ChangePassword, ChangeNothing, RollBack
<1>3. LockHeld'
  BY ConstantsAssumption DEF TypeInv, TypeOK, LockHeld, Finished, SaveHost, DeleteHost,
              ChangePassword, ChangeNothing, RollBack
<1> QED
  BY <1>1, <1>2, <1>3 DEF TypeInv

\* The steps of cm_sync keep the types.
LEMMA SyncTypes ==
  ASSUME TypeInv, NEW c \in Calls,
         \/ Encode(c) \/ Encrypt(c) \/ Send(c)
         \/ Uploaded(c) \/ AnswerLost(c) \/ SyncFails(c) \/ WriteLocal(c) \/ WriteLocalCut(c)
  PROVE  TypeInv'
<1> USE DEF Goto, AgreeAgain, memVars, storeVars, syncVars, histVars
<1>0. /\ arg[c].op \in {"save", "delete", "change"}
      /\ call[c] \in Syncing
  BY DEF TypeInv, CallInv, Syncing, Encode, Encrypt, Send, Uploaded, AnswerLost, SyncFails,
         WriteLocal, WriteLocalCut
<1>1. AfterFailure(c) \in {"failed", "ok", "rollback"} /\
      (AfterFailure(c) = "rollback" <=> arg[c].op = "change")
  BY <1>0 DEF AfterFailure
<1>2. TypeOK'
  <2>1. CASE Encode(c)
    BY <2>1 DEF Encode, TypeInv, TypeOK
  <2>2. CASE Encrypt(c)
    <3>1. [hosts |-> json[c], password |-> password] \in Object
      BY <2>2 DEF Encrypt, TypeInv, TypeOK, CallInv, Object
    <3> QED
      BY <2>2, <3>1 DEF Encrypt, TypeInv, TypeOK
  <2>3. CASE Send(c)
    BY <2>3 DEF Send, TypeInv, TypeOK
  <2>4. CASE Uploaded(c) \/ AnswerLost(c)
    <3>1. blob[c] \in Object /\ dest[c] \in Buckets
      BY <2>4 DEF Uploaded, AnswerLost, TypeInv, CallInv
    <3> QED
      BY <1>1, <2>4, <3>1 DEF Uploaded, AnswerLost, Synced, TypeInv, TypeOK, Finished
  <2>5. CASE SyncFails(c)
    BY <1>1, <2>5 DEF SyncFails, TypeInv, TypeOK, Finished
  <2>6. CASE WriteLocal(c) \/ WriteLocalCut(c)
    <3>1. localFile' \in Hosts
      BY <2>6 DEF WriteLocal, WriteLocalCut, CutOf, TypeInv, TypeOK
    <3> QED
      BY <2>6, <3>1 DEF WriteLocal, WriteLocalCut, Synced, TypeInv, TypeOK, Finished
  <2> QED
    BY <2>1, <2>2, <2>3, <2>4, <2>5, <2>6
<1>3. CallInv'
  <2>1. CASE Encode(c)
    BY <1>0, <2>1 DEF Encode, TypeInv, TypeOK, CallInv, Syncing
  <2>2. CASE Encrypt(c)
    <3>1. [hosts |-> json[c], password |-> password] \in Object
      BY <2>2 DEF Encrypt, TypeInv, TypeOK, CallInv, Object
    <3> QED
      BY <1>0, <2>2, <3>1 DEF Encrypt, TypeInv, TypeOK, CallInv, Syncing
  <2>3. CASE Send(c)
    BY <1>0, <2>3 DEF Send, TypeInv, TypeOK, CallInv, Syncing
  <2>4. CASE Uploaded(c) \/ WriteLocal(c) \/ WriteLocalCut(c)
    BY <1>0, <2>4
       DEF Uploaded, WriteLocal, WriteLocalCut, Synced, TypeInv, TypeOK, CallInv, Syncing
  <2>5. CASE AnswerLost(c) \/ SyncFails(c)
    BY <1>0, <1>1, <2>5 DEF AnswerLost, SyncFails, TypeInv, TypeOK, CallInv, Syncing
  <2> QED
    BY <2>1, <2>2, <2>3, <2>4, <2>5
<1>4. LockHeld'
  BY <1>0, <1>1 DEF TypeInv, TypeOK, LockHeld, Syncing, Encode, Encrypt, Send, Uploaded,
      AnswerLost, SyncFails, WriteLocal, WriteLocalCut, Synced
<1> QED
  BY <1>2, <1>3, <1>4 DEF TypeInv

\* The steps of cm_setup and cm_unlock keep the types.
LEMMA UnlockTypes ==
  ASSUME TypeInv, NEW c \in Calls,
         \/ SetupFiles(c) \/ SetupLocks(c) \/ Unlock(c) \/ UnlockUnread(c) \/ UnlockFails(c)
         \/ UnlockNew(c) \/ Create(c) \/ CreateFails(c)
  PROVE  TypeInv'
<1> USE DEF Goto, LockFree, AgreeAgain, memVars, storeVars, syncVars, histVars
<1>0. /\ arg[c].password \in Passwords
      /\ Kept[arg[c].password] \in Passwords
      /\ Kept[Kept[arg[c].password]] = Kept[arg[c].password]
      /\ call[c] \in {"setup", "persisted"} => arg[c].bucket \in Buckets /\ arg[c].op = "setup"
      /\ call[c] \in {"setup", "persisted", "unlock", "creating"}
      /\ NoHosts \in Hosts
  BY RequestFields, ConstantsAssumption
     DEF TypeInv, CallInv, SetupFiles, SetupLocks, Unlock, UnlockUnread, UnlockFails, UnlockNew, Create,
         CreateFails, NoHosts, Hosts
<1>1. TypeOK'
  <2>1. CASE SetupFiles(c)
    BY <1>0, <2>1 DEF SetupFiles, SaveR2, TypeInv, TypeOK, Finished
  <2>2. CASE SetupLocks(c)
    BY <1>0, <2>2 DEF SetupLocks, TypeInv, TypeOK, Finished
  <2>3. CASE Unlock(c)
    <3>1. Downloaded \in Object
      BY <2>3 DEF Unlock, Downloaded, TypeInv, TypeOK, CallInv
    <3> QED
      BY <1>0, <2>3, <3>1 DEF Unlock, Adopt, Object, TypeInv, TypeOK, Finished
  <2>4. CASE UnlockUnread(c) \/ UnlockFails(c) \/ UnlockNew(c) \/ CreateFails(c)
    BY <1>0, <2>4 DEF UnlockUnread, UnlockFails, UnlockNew, CreateFails, TypeInv, TypeOK, Finished
  <2>5. CASE Create(c)
    <3>1. [hosts |-> NoHosts, password |-> arg[c].password] \in Object
      BY <1>0 DEF Object
    <3> QED
      BY <1>0, <2>5, <3>1 DEF Create, Adopt, TypeInv, TypeOK, CallInv, Finished
  <2> QED
    BY <2>1, <2>2, <2>3, <2>4, <2>5
<1>2. CallInv'
  <2>1. CASE SetupFiles(c)
    BY <1>0, <2>1 DEF SetupFiles, SaveR2, TypeInv, TypeOK, CallInv, Syncing
  <2>2. CASE SetupLocks(c)
    BY <1>0, <2>2 DEF SetupLocks, TypeInv, TypeOK, CallInv, Syncing
  <2>3. CASE Unlock(c) \/ UnlockUnread(c)
    BY <1>0, <2>3 DEF Unlock, UnlockUnread, Adopt, TypeInv, TypeOK, CallInv, Syncing
  <2>4. CASE UnlockFails(c) \/ UnlockNew(c) \/ CreateFails(c)
    BY <1>0, <2>4 DEF UnlockFails, UnlockNew, CreateFails, TypeInv, TypeOK, CallInv, Syncing
  <2>5. CASE Create(c)
    BY <1>0, <2>5 DEF Create, Adopt, TypeInv, TypeOK, CallInv, Syncing
  <2> QED
    BY <2>1, <2>2, <2>3, <2>4, <2>5
<1>3. LockHeld'
  <2>1. CASE SetupFiles(c) \/ SetupLocks(c) \/ UnlockFails(c)
    BY <1>0, <2>1 DEF TypeInv, TypeOK, LockHeld, SetupFiles, SetupLocks, UnlockFails
  <2>2. CASE Unlock(c) \/ UnlockUnread(c) \/ UnlockNew(c)
    BY <1>0, <2>2, ConstantsAssumption
       DEF TypeInv, TypeOK, LockHeld, Unlock, UnlockUnread, UnlockNew, Adopt
  <2>3. CASE Create(c) \/ CreateFails(c)
    BY <1>0, <2>3, ConstantsAssumption DEF TypeInv, TypeOK, LockHeld, Create, CreateFails, Adopt
  <2> QED
    BY <2>1, <2>2, <2>3
<1> QED
  BY <1>1, <1>2, <1>3 DEF TypeInv

\* The steps of cm_set_r2_config, cm_use_local and a restart keep the types.
LEMMA SwitchTypes ==
  ASSUME TypeInv, NEW c \in Calls,
         \/ SwitchCloud(c) \/ SwitchDone(c) \/ SwitchBack(c) \/ SwitchFails(c)
         \/ SwitchOther(c) \/ SwitchPersist(c) \/ UseLocal(c) \/ UseLocalCut(c) \/ LocalFails(c)
  PROVE  TypeInv'
<1> USE DEF Goto, LockFree, AgreeAgain, memVars, storeVars, syncVars, histVars
<1>0. /\ call[c] \in {"switch", "uploading", "persist"} =>
           arg[c].bucket \in Buckets /\ arg[c].op = "switch"
      /\ call[c] \in {"switch", "uploading", "persist", "local"}
  BY RequestFields
     DEF TypeInv, CallInv, SwitchCloud, SwitchDone, SwitchBack, SwitchFails, SwitchOther,
         SwitchPersist, UseLocal, UseLocalCut, LocalFails
<1>1. call[c] = "uploading" => [hosts |-> hosts, password |-> password] \in Object
  BY DEF TypeInv, TypeOK, CallInv, Object
<1>2. TypeOK'
  <2>1. CASE SwitchCloud(c)
    BY <1>0, <2>1 DEF SwitchCloud, SaveR2, TypeInv, TypeOK, Finished
  <2>2. CASE SwitchDone(c)
    BY <1>0, <1>1, <2>2 DEF SwitchDone, TypeInv, TypeOK, Finished
  <2>3. CASE SwitchBack(c)
    BY <1>0, <1>1, <2>3 DEF SwitchBack, SaveR2, TypeInv, TypeOK, Finished
  <2>4. CASE SwitchFails(c) \/ SwitchOther(c) \/ LocalFails(c)
    BY <1>0, <2>4 DEF SwitchFails, SwitchOther, LocalFails, TypeInv, TypeOK, Finished
  <2>5. CASE SwitchPersist(c)
    BY <1>0, <2>5 DEF SwitchPersist, SaveR2, TypeInv, TypeOK, Finished
  <2>6. CASE UseLocal(c) \/ UseLocalCut(c)
    <3>1. hosts' \in Hosts
      BY <1>0, <2>6 DEF UseLocal, UseLocalCut, CutOf, TypeInv, TypeOK
    <3> QED
      BY <1>0, <2>6, <3>1 DEF UseLocal, UseLocalCut, TypeInv, TypeOK, Finished
  <2> QED
    BY <2>1, <2>2, <2>3, <2>4, <2>5, <2>6
<1>3. CallInv'
  BY <1>0 DEF TypeInv, TypeOK, CallInv, Syncing, SwitchCloud, SwitchDone, SwitchBack,
              SwitchFails, SwitchOther, SwitchPersist, UseLocal, UseLocalCut, LocalFails
<1>4. LockHeld'
  BY <1>0, ConstantsAssumption
     DEF TypeInv, TypeOK, LockHeld, SwitchCloud, SwitchDone, SwitchBack, SwitchFails,
         SwitchOther, SwitchPersist, UseLocal, UseLocalCut, LocalFails
<1> QED
  BY <1>2, <1>3, <1>4 DEF TypeInv

\* A restart keeps the types.
LEMMA RestartTypes == ASSUME TypeInv, Restart PROVE TypeInv'
<1> USE DEF Restart, AgreeAgain, storeVars, syncVars
<1>1. TypeOK'
  BY DEF TypeInv, TypeOK, NoHosts, Hosts, LoadR2, Finished
<1>2. CallInv'
  BY DEF TypeInv, TypeOK, CallInv, Finished, Syncing
<1>3. LockHeld'
  BY ConstantsAssumption DEF TypeInv, TypeOK, LockHeld, Finished
<1> QED
  BY <1>1, <1>2, <1>3 DEF TypeInv

\* Every step keeps the types.
LEMMA StepTypes == TypeInv /\ [Next]_vars => TypeInv'
<1> SUFFICES ASSUME TypeInv, [Next]_vars PROVE TypeInv'
  OBVIOUS
<1>1. CASE UNCHANGED vars
  BY <1>1 DEF vars, memVars, storeVars, syncVars, histVars, TypeInv, TypeOK, CallInv, LockHeld
<1>2. CASE Restart
  BY <1>2, RestartTypes
<1>3. ASSUME NEW c \in Calls, Step(c) PROVE TypeInv'
  BY <1>3, ChangeTypes, SyncTypes, UnlockTypes, SwitchTypes DEF Step
<1>4. ASSUME NEW c \in Calls, NEW a \in Request, Begin(c, a) PROVE TypeInv'
  BY <1>4, BeginTypes
<1> QED
  BY <1>1, <1>2, <1>3, <1>4 DEF Next

\* However calls overlap, every object in a bucket is one that some master
\* password opens, uploads have a destination, and the lock is held only by a
\* call that is in its network request.
THEOREM TypeCorrect == Spec => [](TypeOK /\ LockReleased)
<1>1. TypeInv => TypeOK /\ LockReleased
  BY DEF TypeInv, TypeOK, LockHeld, LockReleased, Quiet, LockFree, Finished
<1> QED
  BY <1>1, InitTypes, StepTypes, PTL DEF Spec

-----------------------------------------------------------------------------
(* Calls one at a time                                                     *)

IInv == TypeInv /\ SerialInv
Inactive == Finished \cup {"idle"}

\* While one call is under way, no other is (the clients wait).
LEMMA OthersInactive ==
  ASSUME OneActive, NEW c \in Calls, call[c] \notin Inactive
  PROVE  \A d \in Calls \ {c} : call[d] \in Inactive
BY DEF OneActive, Inactive

\* The first state: nothing is in memory.
LEMMA InitSerial == Init => IInv
<1> SUFFICES ASSUME Init PROVE IInv
  OBVIOUS
<1>1. TypeInv
  BY InitTypes
<1>2. OneActive /\ ModeKept /\ CarriesMemory /\ FileInv
  BY DEF Init, OneActive, ModeKept, CarriesMemory, FileInv, Syncing, Finished, LoadR2
<1>3. StoreInv
  BY DEF Init, StoreInv, Changing, Syncing, Agree
<1>4. OriginInv
  BY DEF Init, OriginInv, NotMixed, Within
<1> QED
  BY <1>1, <1>2, <1>3, <1>4 DEF IInv, SerialInv

\* A call begins when no other is under way.
LEMMA BeginSerial ==
  ASSUME SerialCalls, IInv, NEW c \in Calls, NEW a \in Request, Begin(c, a)
  PROVE  IInv'
<1> USE DEF Begin, Goto, memVars, storeVars, syncVars, histVars
<1>1. /\ \A d \in Calls : call[d] \in Inactive
      /\ \A d \in Calls \ {c} : call'[d] = call[d] /\ arg'[d] = arg[d]
      /\ call'[c] \in {"save", "delete", "setup", "unlock", "change", "switch", "local", "refused"}
      /\ arg'[c] = a
      /\ call'[c] = "save" => a.value \in ModeValues
      /\ call'[c] \in {"save", "delete"} => mode \in {"cloud", "local"}
  BY RequestFields DEF IInv, TypeInv, TypeOK, Quiet, Inactive
<1>2. TypeInv'
  BY BeginTypes DEF IInv
<1>3. OneActive' /\ ModeKept' /\ CarriesMemory' /\ FileInv'
  BY <1>1 DEF IInv, SerialInv, OneActive, ModeKept, CarriesMemory, FileInv, Inactive,
              Finished, Syncing
<1>4. StoreInv'
  BY <1>1 DEF IInv, SerialInv, StoreInv, Changing, Agree, AgreesWith, OpensWith, Inactive, Finished, Syncing
<1>5. OriginInv'
  BY <1>1 DEF IInv, SerialInv, OriginInv, NotMixed, Within, ModeValues, Inactive, Finished
<1> QED
  BY <1>2, <1>3, <1>4, <1>5 DEF IInv, SerialInv

\* A host is saved or deleted in memory.
LEMMA HostSerial ==
  ASSUME IInv, NEW c \in Calls, SaveHost(c) \/ DeleteHost(c)
  PROVE  IInv'
<1> USE DEF SaveHost, DeleteHost, Goto, memVars, storeVars, syncVars, histVars
<1>1. /\ call[c] \in {"save", "delete"} /\ arg[c].op = call[c] /\ call'[c] = "sync"
      /\ \A d \in Calls \ {c} : call[d] \in Inactive /\ call'[d] = call[d]
      /\ mode \in {"cloud", "local"}
  BY OthersInactive DEF IInv, TypeInv, TypeOK, CallInv, SerialInv, ModeKept, Inactive, Finished
<1>2. TypeInv'
  BY ChangeTypes DEF IInv
<1>3. OneActive' /\ ModeKept' /\ CarriesMemory' /\ FileInv'
  BY <1>1 DEF IInv, SerialInv, OneActive, ModeKept, CarriesMemory, FileInv, Inactive,
              Finished, Syncing
<1>4. StoreInv'
  BY <1>1 DEF IInv, SerialInv, StoreInv, Changing, Agree, AgreesWith, OpensWith, Inactive, Finished, Syncing
<1>5. OriginInv'
  <2>1. call[c] = "save" => arg[c].value \in ModeValues
    BY DEF IInv, SerialInv, OriginInv
  <2>2. Within(hosts', ModeValues)
    BY <1>1, <2>1 DEF IInv, TypeInv, TypeOK, Hosts, SerialInv, OriginInv, Within
  <2> QED
    BY <1>1, <2>2 DEF IInv, SerialInv, OriginInv, NotMixed, Within, ModeValues, Inactive, Finished
<1> QED
  BY <1>2, <1>3, <1>4, <1>5 DEF IInv, SerialInv

\* The master password is changed in memory, or put back.
LEMMA PasswordSerial ==
  ASSUME IInv, NEW c \in Calls, ChangePassword(c) \/ RollBack(c)
  PROVE  IInv'
<1> USE DEF ChangePassword, RollBack, Goto, memVars, storeVars, syncVars, histVars
<1>1. /\ call[c] \in {"change", "rollback"} /\ arg[c].op = "change" /\ mode = "cloud"
      /\ call'[c] = IF call[c] = "change" THEN "sync" ELSE "failed"
      /\ \A d \in Calls \ {c} : call[d] \in Inactive /\ call'[d] = call[d]
  BY OthersInactive DEF IInv, TypeInv, TypeOK, CallInv, SerialInv, ModeKept, Inactive, Finished
<1>2. TypeInv'
  BY ChangeTypes DEF IInv
<1>3. OneActive' /\ ModeKept' /\ CarriesMemory' /\ FileInv'
  BY <1>1 DEF IInv, SerialInv, OneActive, ModeKept, CarriesMemory, FileInv, Inactive,
              Finished, Syncing
<1>4. StoreInv'
  <2>1. CASE ChangePassword(c)
    BY <1>1, <2>1 DEF IInv, SerialInv, StoreInv, Changing, Agree, AgreesWith, OpensWith, Inactive, Finished, Syncing
  <2>2. CASE RollBack(c)
    BY <1>1, <2>2 DEF IInv, SerialInv, StoreInv, Changing, Agree, AgreesWith, OpensWith, Inactive, Finished, Syncing
  <2> QED
    BY <2>1, <2>2
<1>5. OriginInv'
  BY <1>1 DEF IInv, SerialInv, OriginInv, NotMixed, Within, ModeValues, Inactive, Finished
<1> QED
  BY <1>2, <1>3, <1>4, <1>5 DEF IInv, SerialInv

\* Steps of cm_sync that only read.
LEMMA ReadSerial ==
  ASSUME IInv, NEW c \in Calls, Encode(c) \/ Encrypt(c) \/ Send(c)
  PROVE  IInv'
<1> USE DEF Encode, Encrypt, Send, Goto, memVars, storeVars, syncVars, histVars
<1>1. /\ call[c] \in Syncing /\ call'[c] \in {"encoded", "encrypted", "sent"}
      /\ \A d \in Calls \ {c} : call[d] \in Inactive /\ call'[d] = call[d]
  BY OthersInactive DEF IInv, TypeInv, TypeOK, SerialInv, Inactive, Finished, Syncing
<1>2. TypeInv'
  BY SyncTypes DEF IInv
<1>3. OneActive' /\ FileInv'
  BY <1>1 DEF IInv, SerialInv, OneActive, FileInv, Inactive, Finished, Syncing
<1>4. ModeKept'
  <2>1. CASE Encode(c)
    BY <1>1, <2>1 DEF IInv, SerialInv, ModeKept, Inactive, Finished, Syncing
  <2>2. CASE Encrypt(c)
    BY <1>1, <2>2 DEF IInv, SerialInv, ModeKept, Inactive, Finished, Syncing
  <2>3. CASE Send(c)
    BY <1>1, <2>3 DEF IInv, SerialInv, ModeKept, Inactive, Finished, Syncing
  <2> QED
    BY <2>1, <2>2, <2>3
<1>5. CarriesMemory'
  BY <1>1 DEF IInv, TypeInv, TypeOK, SerialInv, CarriesMemory, Inactive, Finished, Syncing
<1>6. StoreInv'
  BY <1>1 DEF IInv, SerialInv, StoreInv, Changing, Agree, AgreesWith, OpensWith, Inactive, Finished, Syncing
<1>7. OriginInv'
  BY <1>1 DEF IInv, SerialInv, OriginInv, NotMixed, Within, ModeValues, Inactive, Finished
<1> QED
  BY <1>2, <1>3, <1>4, <1>5, <1>6, <1>7 DEF IInv, SerialInv

\* What holds between the steps of a call when it is the only one.
LEMMA Alone ==
  ASSUME IInv, NEW c \in Calls, call[c] \notin Inactive
  PROVE  /\ \A d \in Calls \ {c} : call[d] \in Inactive
         /\ call[c] \notin Syncing \cup {"rollback"} /\ ~unsynced /\ ~partial => Agree
         /\ ~Changing(c) /\ mode = "cloud" /\ ~doubtful => OpensWith(password)
         /\ call[c] \notin {"persisted", "uploading", "persist"} /\ ~diskFailed
              => r2File = r2cfg
<1>1. \A d \in Calls \ {c} : call[d] \in Inactive
  BY OthersInactive DEF IInv, SerialInv
<1> QED
  BY <1>1 DEF IInv, SerialInv, StoreInv, FileInv, Changing, Inactive, Finished, Syncing

\* When no call is left under way, this much of the invariant remains to show.
LEMMA EndSerial ==
  ASSUME TypeInv', \A d \in Calls : call'[d] \in Inactive,
         ~unsynced' /\ ~partial' => Agree', mode' = "cloud" /\ ~doubtful' => OpensWith(password)',
         ~diskFailed' => r2File' = r2cfg',
         NotMixed', mode' \in {"cloud", "local"} => Within(hosts, ModeValues)'
  PROVE  IInv'
<1>1. OneActive' /\ ModeKept' /\ CarriesMemory' /\ FileInv'
  BY DEF OneActive, ModeKept, CarriesMemory, FileInv, Inactive, Finished, Syncing
<1>2. StoreInv'
  BY DEF StoreInv, Changing, Inactive, Finished, Syncing
<1>3. OriginInv'
  BY DEF OriginInv, Inactive, Finished
<1> QED
  BY <1>1, <1>2, <1>3 DEF IInv, SerialInv

\* A call that fails before it has changed anything.
LEMMA NothingSerial ==
  ASSUME IInv, NEW c \in Calls,
         ChangeNothing(c) \/ UnlockFails(c) \/ SwitchFails(c) \/ LocalFails(c) \/ CreateFails(c)
  PROVE  IInv'
<1> USE DEF ChangeNothing, UnlockFails, SwitchFails, LocalFails, CreateFails, Goto, memVars,
            storeVars, syncVars, histVars
<1>1. /\ call[c] \in {"save", "delete", "change", "unlock", "switch", "local", "creating"}
      /\ UNCHANGED <<mode, hosts, password, r2cfg, store, localFile, r2File,
                     unsynced, partial, doubtful, diskFailed>>
  OBVIOUS
<1>2. \A d \in Calls : call'[d] \in Inactive
  BY <1>1, Alone DEF IInv, TypeInv, TypeOK, Inactive, Finished
<1>3. TypeInv'
  BY ChangeTypes, UnlockTypes, SwitchTypes DEF IInv
<1>4. /\ ~unsynced /\ ~partial => Agree
      /\ mode = "cloud" /\ ~doubtful => OpensWith(password)
      /\ ~diskFailed => r2File = r2cfg
  BY <1>1, Alone DEF Changing, Inactive, Finished, Syncing
<1>5. /\ ~unsynced' /\ ~partial' => Agree'
      /\ mode' = "cloud" /\ ~doubtful' => OpensWith(password)'
      /\ ~diskFailed' => r2File' = r2cfg'
  BY <1>1, <1>4 DEF Agree, AgreesWith, OpensWith
<1>6. NotMixed' /\ (mode' \in {"cloud", "local"} => Within(hosts, ModeValues)')
  BY <1>1 DEF IInv, SerialInv, OriginInv, NotMixed, Within, ModeValues
<1> QED
  BY <1>2, <1>3, <1>5, <1>6, EndSerial

\* A synchronisation succeeds: what it carries is what memory holds.
LEMMA SyncedSerial ==
  ASSUME IInv, NEW c \in Calls, Uploaded(c) \/ WriteLocal(c)
  PROVE  IInv'
<1> USE DEF Uploaded, WriteLocal, Synced, AgreeAgain, Goto, syncVars, memVars
<1>1. /\ call[c] \in Syncing
      /\ UNCHANGED <<mode, hosts, password, r2cfg, r2File, diskFailed>>
      /\ Uploaded(c) => mode = "cloud"
      /\ WriteLocal(c) => mode = "local"
  BY DEF Syncing, IInv, SerialInv, ModeKept
<1>2. \A d \in Calls : call'[d] \in Inactive
  BY <1>1, Alone DEF IInv, TypeInv, TypeOK, Inactive, Finished, Syncing
<1>3. TypeInv'
  BY SyncTypes DEF IInv
<1>4. Agree' /\ (mode' # "cloud" \/ OpensWith(password)')
  <2>1. CASE Uploaded(c)
    <3>1. store'[r2cfg'] = [hosts |-> hosts, password |-> password] /\ store'[r2cfg'] \in Object
      BY <1>1, <2>1 DEF IInv, TypeInv, TypeOK, CallInv, SerialInv, CarriesMemory
    <3> QED
      BY <1>1, <2>1, <3>1, ConstantsAssumption
         DEF IInv, TypeInv, CallInv, Agree, AgreesWith, OpensWith
  <2>2. CASE WriteLocal(c)
    BY <1>1, <2>2 DEF Agree
  <2> QED
    BY <2>1, <2>2
<1>6. ~diskFailed' => r2File' = r2cfg'
  BY <1>1, Alone DEF Inactive, Finished, Syncing
<1>7. NotMixed' /\ (mode' \in {"cloud", "local"} => Within(hosts, ModeValues)')
  <2>1. Within(hosts, ModeValues)
    BY <1>1 DEF IInv, SerialInv, OriginInv
  <2>2. CASE Uploaded(c)
    <3>1. blob[c].hosts = hosts
      BY <2>2 DEF IInv, SerialInv, CarriesMemory
    <3> QED
      BY <1>1, <2>1, <2>2, <3>1
         DEF IInv, TypeInv, TypeOK, SerialInv, OriginInv, NotMixed, Within, ModeValues
  <2>3. CASE WriteLocal(c)
    BY <1>1, <2>1, <2>3 DEF IInv, SerialInv, OriginInv, NotMixed, Within, ModeValues
  <2> QED
    BY <2>2, <2>3
<1> QED
  BY <1>2, <1>3, <1>4, <1>6, <1>7, EndSerial

\* A synchronisation of hosts fails, its answer lost or nothing stored.
LEMMA HostSyncFails ==
  ASSUME IInv, NEW c \in Calls, AnswerLost(c) \/ SyncFails(c), arg[c].op # "change"
  PROVE  IInv'
<1> USE DEF AnswerLost, SyncFails, AfterFailure, Goto, memVars, storeVars, syncVars
<1>1. /\ call[c] \in Syncing /\ arg[c].op \in {"save", "delete"}
      /\ UNCHANGED <<mode, hosts, password, r2cfg, localFile, r2File, doubtful, diskFailed>>
      /\ unsynced'
      /\ AnswerLost(c) => call[c] = "sent" /\ mode = "cloud"
  BY DEF Syncing, IInv, TypeInv, TypeOK, CallInv, SerialInv, ModeKept
<1>2. \A d \in Calls : call'[d] \in Inactive
  BY <1>1, Alone DEF IInv, TypeInv, TypeOK, Inactive, Finished, Syncing
<1>3. TypeInv'
  BY SyncTypes DEF IInv
<1>4. CASE AnswerLost(c)
  <2>1. /\ blob[c] = [hosts |-> hosts, password |-> password] /\ dest[c] = r2cfg
        /\ r2cfg \in Buckets /\ blob[c] \in Object
    BY <1>1, <1>4 DEF IInv, TypeInv, CallInv, SerialInv, CarriesMemory
  <2>2. store' = [store EXCEPT ![r2cfg] = blob[c]]
    BY <1>4, <2>1
  <2>3. OpensWith(password)'
    BY <1>1, <1>4, <2>1, <2>2, ConstantsAssumption
       DEF IInv, TypeInv, TypeOK, CallInv, OpensWith
  <2>4. ~diskFailed' => r2File' = r2cfg'
    BY <1>1, Alone DEF Inactive, Finished, Syncing
  <2>5. Within(hosts, ModeValues)' /\ Within(hosts, CloudValues)
    BY <1>1, <1>4 DEF IInv, SerialInv, OriginInv, Within, ModeValues
  <2>6. NotMixed'
    BY <1>1, <2>1, <2>2, <2>5
       DEF IInv, TypeInv, TypeOK, SerialInv, OriginInv, NotMixed, Within
  <2> QED
    BY <1>1, <1>2, <1>3, <2>3, <2>4, <2>5, <2>6, EndSerial
<1>5. CASE SyncFails(c)
  <2>1. /\ mode' = "cloud" /\ ~doubtful' => OpensWith(password)'
        /\ ~diskFailed' => r2File' = r2cfg'
    BY <1>1, <1>5, Alone DEF OpensWith, Changing, Inactive, Finished, Syncing
  <2>2. NotMixed' /\ (mode' \in {"cloud", "local"} => Within(hosts, ModeValues)')
    BY <1>1, <1>5 DEF IInv, SerialInv, OriginInv, NotMixed, Within, ModeValues
  <2> QED
    BY <1>1, <1>2, <1>3, <2>1, <2>2, EndSerial
<1> QED
  BY <1>4, <1>5

\* A change of password fails: what is in the bucket is still opened by the old
\* password, or the answer was lost.
LEMMA PasswordSyncFails ==
  ASSUME IInv, NEW c \in Calls, AnswerLost(c) \/ SyncFails(c), arg[c].op = "change"
  PROVE  IInv'
<1> USE DEF AnswerLost, SyncFails, AfterFailure, Goto, memVars, storeVars, syncVars
<1>1. /\ call[c] \in Syncing /\ call'[c] = "rollback" /\ mode = "cloud"
      /\ \A d \in Calls \ {c} : call[d] \in Inactive /\ call'[d] = call[d]
      /\ UNCHANGED <<mode, hosts, password, r2cfg, localFile, r2File, arg, diskFailed>>
  BY OthersInactive
     DEF Syncing, IInv, TypeInv, TypeOK, CallInv, SerialInv, ModeKept, Inactive, Finished
<1>2. TypeInv'
  BY SyncTypes DEF IInv
<1>3. OneActive' /\ ModeKept' /\ CarriesMemory' /\ FileInv'
  BY <1>1 DEF IInv, SerialInv, OneActive, ModeKept, CarriesMemory, FileInv, Inactive,
              Finished, Syncing
<1>4. CASE AnswerLost(c)
  <2>1. unsynced' /\ doubtful'
    BY <1>4
  <2>2. StoreInv'
    BY <2>1, Zenon DEF StoreInv
  <2>3. /\ blob[c] = [hosts |-> hosts, password |-> password] /\ dest[c] = r2cfg
        /\ store' = [store EXCEPT ![dest[c]] = blob[c]]
    BY <1>4 DEF IInv, SerialInv, CarriesMemory
  <2>4. OriginInv'
    BY <1>1, <2>3
       DEF IInv, TypeInv, TypeOK, SerialInv, OriginInv, NotMixed, Within, ModeValues, Inactive,
           Finished
  <2> QED
    BY <1>2, <1>3, <2>2, <2>4 DEF IInv, SerialInv
<1>5. CASE SyncFails(c)
  <2>1. UNCHANGED <<store, unsynced, partial, doubtful>>
    BY <1>5 DEF IInv, SerialInv, TypeInv, TypeOK
  <2>2. StoreInv'
    BY <1>1, <2>1
       DEF IInv, SerialInv, StoreInv, Changing, AgreesWith, OpensWith, Inactive, Finished, Syncing
  <2>3. OriginInv'
    BY <1>1, <2>1
       DEF IInv, SerialInv, OriginInv, NotMixed, Within, ModeValues, Inactive, Finished
  <2> QED
    BY <1>2, <1>3, <2>2, <2>3 DEF IInv, SerialInv
<1> QED
  BY <1>4, <1>5

\* The setup for the cloud writes r2.json, then locks.
LEMMA SetupSerial ==
  ASSUME IInv, NEW c \in Calls, SetupFiles(c) \/ SetupLocks(c)
  PROVE  IInv'
<1> USE DEF SetupFiles, SetupLocks, SaveR2, Goto, memVars, syncVars, storeVars, histVars
<1>1. /\ call[c] \in {"setup", "persisted"}
      /\ \A d \in Calls \ {c} : call[d] \in Inactive /\ call'[d] = call[d]
      /\ call'[c] \in {"persisted", "failed", "unlock"}
      /\ UNCHANGED <<hosts, password, store, localFile, arg, unsynced, partial, doubtful>>
  BY OthersInactive DEF IInv, TypeInv, TypeOK, SerialInv, Inactive, Finished
<1>2. TypeInv'
  BY UnlockTypes DEF IInv
<1>3. OneActive' /\ ModeKept' /\ CarriesMemory'
  BY <1>1 DEF IInv, SerialInv, OneActive, ModeKept, CarriesMemory, Inactive, Finished, Syncing
<1>4. CASE SetupFiles(c)
  <2>1. UNCHANGED <<mode, password, r2cfg>>
    BY <1>4
  <2>2. FileInv'
    BY <1>1, <1>4, <2>1 DEF IInv, TypeInv, TypeOK, SerialInv, FileInv, Inactive, Finished
  <2>3. StoreInv'
    BY <1>1, <2>1
       DEF IInv, SerialInv, StoreInv, Changing, Agree, AgreesWith, OpensWith, Inactive, Finished, Syncing
  <2>4. OriginInv'
    BY <1>1, <2>1
       DEF IInv, SerialInv, OriginInv, NotMixed, Within, ModeValues, Inactive, Finished
  <2> QED
    BY <1>2, <1>3, <2>2, <2>3, <2>4 DEF IInv, SerialInv
<1>5. CASE SetupLocks(c)
  <2>1. /\ mode' = "locked" /\ call[c] = "persisted" /\ call'[c] = "unlock"
        /\ r2cfg' = arg[c].bucket /\ UNCHANGED <<r2File, diskFailed>>
    BY <1>5 DEF IInv, TypeInv, TypeOK
  <2>2. FileInv'
    BY <1>1, <2>1 DEF IInv, SerialInv, FileInv, Inactive, Finished
  <2>3. StoreInv'
    BY <1>1, <2>1 DEF StoreInv, Changing, Agree, Inactive, Finished, Syncing
  <2>4. OriginInv'
    BY <1>1, <2>1 DEF IInv, SerialInv, OriginInv, NotMixed, Within, Inactive, Finished
  <2> QED
    BY <1>2, <1>3, <2>2, <2>3, <2>4 DEF IInv, SerialInv
<1> QED
  BY <1>4, <1>5

\* An unlock that finds an object its password opens.
LEMMA UnlockSerial ==
  ASSUME IInv, NEW c \in Calls, Unlock(c)
  PROVE  IInv'
<1> USE DEF Unlock, Adopt, AgreeAgain, Goto, storeVars, syncVars
<1>1. /\ call[c] = "unlock" /\ r2cfg \in Buckets /\ Downloaded \in Object
      /\ arg[c].password \in Passwords
      /\ Downloaded.password = arg[c].password /\ Downloaded # None
      /\ hosts' = Downloaded.hosts /\ password' = Kept[arg[c].password]
  <2>1. call[c] = "unlock" /\ r2cfg \in Buckets /\ Downloaded \in Object
    BY DEF IInv, TypeInv, TypeOK, CallInv, Downloaded
  <2> QED
    BY <2>1 DEF Object
<1>2. \A d \in Calls : call'[d] \in Inactive
  BY <1>1, Alone DEF IInv, TypeInv, TypeOK, Inactive, Finished
<1>3. TypeInv'
  BY UnlockTypes DEF IInv
<1>4. Agree'
  BY <1>1 DEF Agree, AgreesWith, OpensWith, Downloaded
<1>5. OpensWith(password)'
  BY <1>1 DEF OpensWith, Downloaded
<1>6. ~diskFailed' => r2File' = r2cfg'
  BY <1>1, Alone DEF Inactive, Finished
<1>7. NotMixed' /\ Within(hosts, ModeValues)'
  BY <1>1 DEF IInv, SerialInv, OriginInv, NotMixed, Within, ModeValues, Downloaded
<1> QED
  BY <1>2, <1>3, <1>4, <1>5, <1>6, <1>7, EndSerial

\* An unlock of a bucket without an object creates one with no hosts.
LEMMA CreateSerial ==
  ASSUME IInv, NEW c \in Calls, Create(c)
  PROVE  IInv'
<1> USE DEF Create, Adopt, AgreeAgain, Goto, memVars, histVars, syncVars
<1>1. /\ call[c] = "creating" /\ r2cfg \in Buckets /\ mode = "locked"
      /\ NoHosts \in Hosts /\ arg[c].password \in Passwords
      /\ [hosts |-> NoHosts, password |-> arg[c].password] \in Object
      /\ UNCHANGED <<r2cfg, localFile, r2File, diskFailed>>
      /\ mode' \in {"locked", "cloud"}
      /\ mode' = "cloud" => hosts' = NoHosts /\ password' = Kept[arg[c].password]
  BY RequestFields DEF IInv, TypeInv, CallInv, SerialInv, ModeKept, NoHosts, Hosts, Object
<1>2. \A d \in Calls : call'[d] \in Inactive
  BY <1>1, Alone DEF IInv, TypeInv, TypeOK, Inactive, Finished
<1>3. TypeInv'
  BY UnlockTypes DEF IInv
<1>4. store' = [store EXCEPT ![r2cfg] = [hosts |-> NoHosts, password |-> arg[c].password]]
  OBVIOUS
<1>5. store'[r2cfg'] # None /\ store'[r2cfg'] = [hosts |-> NoHosts, password |-> arg[c].password]
  BY <1>1, <1>4, ConstantsAssumption DEF IInv, TypeInv, TypeOK
<1>6. Agree' /\ (mode' = "cloud" => OpensWith(password)')
  BY <1>1, <1>5 DEF Agree, AgreesWith, OpensWith
<1>7. ~diskFailed' => r2File' = r2cfg'
  BY <1>1, Alone DEF Inactive, Finished
<1>8. NotMixed'
  BY <1>1, <1>4 DEF IInv, TypeInv, TypeOK, SerialInv, OriginInv, NotMixed, Within, NoHosts
<1>9. mode' \in {"cloud", "local"} => Within(hosts, ModeValues)'
  BY <1>1 DEF Within, NoHosts
<1> QED
  BY <1>2, <1>3, <1>6, <1>7, <1>8, <1>9, EndSerial

\* The steps that take the lock for a network request, and the one that takes
\* the credentials over outside the cloud mode.
LEMMA BetweenSerial ==
  ASSUME IInv, NEW c \in Calls, UnlockNew(c) \/ SwitchCloud(c) \/ SwitchOther(c)
  PROVE  IInv'
<1> USE DEF UnlockNew, SwitchCloud, SwitchOther, SaveR2, Goto, memVars, storeVars, histVars,
            syncVars
<1>1. /\ call[c] \in {"unlock", "switch"}
      /\ call'[c] \in {"creating", "uploading", "persist"}
      /\ \A d \in Calls \ {c} : call[d] \in Inactive /\ call'[d] = call[d]
      /\ UNCHANGED <<mode, hosts, password, store, localFile, arg, unsynced, partial, doubtful>>
  BY OthersInactive DEF IInv, TypeInv, TypeOK, SerialInv, Inactive, Finished
<1>2. TypeInv'
  BY UnlockTypes, SwitchTypes DEF IInv
<1>3. OneActive' /\ CarriesMemory'
  BY <1>1 DEF IInv, SerialInv, OneActive, CarriesMemory, Inactive, Finished, Syncing
<1>4. ModeKept'
  <2>1. CASE UnlockNew(c)
    BY <1>1, <2>1 DEF IInv, TypeInv, TypeOK, ModeKept, Inactive, Finished, Syncing
  <2>2. CASE SwitchCloud(c) \/ SwitchOther(c)
    BY <1>1, <2>2 DEF IInv, TypeInv, TypeOK, ModeKept, Inactive, Finished, Syncing
  <2> QED
    BY <2>1, <2>2
<1>5. FileInv'
  <2>1. CASE UnlockNew(c)
    BY <1>1, <2>1 DEF IInv, TypeInv, TypeOK, SerialInv, FileInv, Inactive, Finished
  <2>2. CASE SwitchCloud(c)
    BY <1>1, <2>2 DEF IInv, TypeInv, TypeOK, SerialInv, FileInv, Inactive, Finished
  <2>3. CASE SwitchOther(c)
    BY <1>1, <2>3 DEF IInv, TypeInv, TypeOK, SerialInv, FileInv, Inactive, Finished
  <2> QED
    BY <2>1, <2>2, <2>3
<1>6. StoreInv'
  <2>1. ~unsynced /\ ~partial => Agree
    BY <1>1, Alone DEF Inactive, Finished, Syncing
  <2>2. mode = "cloud" /\ ~doubtful => OpensWith(password)
    BY <1>1, Alone DEF Changing, Inactive, Finished, Syncing
  <2>3. UNCHANGED r2cfg \/ mode # "cloud"
    OBVIOUS
  <2>4. \A d \in Calls : ~Changing(d)'
    BY <1>1 DEF Changing, Inactive, Finished, Syncing
  <2> QED
    BY <1>1, <2>1, <2>2, <2>3, <2>4 DEF StoreInv, Agree, AgreesWith, OpensWith
<1>7. OriginInv'
  BY <1>1 DEF IInv, SerialInv, OriginInv, NotMixed, Within, ModeValues, Inactive, Finished
<1> QED
  BY <1>2, <1>3, <1>4, <1>5, <1>6, <1>7 DEF IInv, SerialInv

\* New credentials: the bucket has received the hosts and they are taken over,
\* or r2.json is put back.
LEMMA SwitchedSerial ==
  ASSUME IInv, NEW c \in Calls, SwitchDone(c) \/ SwitchBack(c)
  PROVE  IInv'
<1> USE DEF SwitchDone, SwitchBack, SaveR2, AgreeAgain, Goto, memVars, syncVars
<1>1. /\ call[c] = "uploading" /\ mode = "cloud" /\ arg[c].bucket \in Buckets
      /\ r2cfg \in Buckets
      /\ UNCHANGED <<mode, hosts, password, localFile>>
  BY RequestFields DEF IInv, TypeInv, CallInv, SerialInv, ModeKept
<1>2. \A d \in Calls : call'[d] \in Inactive
  BY <1>1, Alone DEF IInv, TypeInv, TypeOK, Inactive, Finished
<1>3. TypeInv'
  BY SwitchTypes DEF IInv
<1>4. Within(hosts, ModeValues) /\ Within(hosts, CloudValues)
  BY <1>1 DEF IInv, SerialInv, OriginInv, ModeValues
<1>5. Within(hosts, ModeValues)'
  BY <1>1, <1>4 DEF Within, ModeValues
<1>6. NotMixed'
  BY <1>1, <1>4 DEF IInv, TypeInv, TypeOK, SerialInv, OriginInv, NotMixed, Within
<1>7. CASE SwitchDone(c)
  <2>1. store'[r2cfg'] = [hosts |-> hosts, password |-> password]
    BY <1>1, <1>7 DEF IInv, TypeInv, TypeOK
  <2>3. store'[r2cfg'] \in Object
    BY <1>1, <2>1 DEF IInv, TypeInv, TypeOK, CallInv, Object
  <2>4. Agree' /\ OpensWith(password)'
    BY <1>1, <2>1, <2>3, ConstantsAssumption
       DEF IInv, TypeInv, CallInv, Agree, AgreesWith, OpensWith
  <2>5. ~diskFailed' => r2File' = r2cfg'
    BY <1>1, <1>7 DEF IInv, SerialInv, FileInv
  <2> QED
    BY <1>2, <1>3, <1>5, <1>6, <2>4, <2>5, EndSerial
<1>8. CASE SwitchBack(c)
  <2>1. /\ ~unsynced /\ ~partial => AgreesWith(password)
        /\ ~doubtful => OpensWith(password)
    BY <1>1, Alone DEF Agree, Changing, Inactive, Finished, Syncing
  <2>2. \/ store'[r2cfg] = store[r2cfg]
        \/ store'[r2cfg] = [hosts |-> hosts, password |-> password]
    BY <1>1, <1>8 DEF IInv, TypeInv, TypeOK
  <2>3. [hosts |-> hosts, password |-> password] \in Object /\ Kept[password] = password
    BY <1>1 DEF IInv, TypeInv, TypeOK, CallInv, Object
  <2>4. UNCHANGED <<r2cfg, unsynced, partial, doubtful>>
    BY <1>8
  <2>5. ~unsynced' /\ ~partial' => Agree'
    BY <1>1, <2>1, <2>2, <2>3, <2>4, ConstantsAssumption DEF Agree, AgreesWith, OpensWith
  <2>6. ~doubtful' => OpensWith(password)'
    BY <1>1, <2>1, <2>2, <2>3, <2>4, ConstantsAssumption DEF OpensWith
  <2>7. ~diskFailed' => r2File' = r2cfg'
    BY <1>1, <1>8 DEF IInv, TypeInv, TypeOK
  <2> QED
    BY <1>2, <1>3, <1>5, <1>6, <2>5, <2>6, <2>7, EndSerial
<1> QED
  BY <1>7, <1>8

\* r2.json follows memory outside the cloud mode.
LEMMA PersistSerial ==
  ASSUME IInv, NEW c \in Calls, SwitchPersist(c)
  PROVE  IInv'
<1> USE DEF SwitchPersist, SaveR2, Goto, memVars, syncVars
<1>1. /\ call[c] = "persist"
      /\ UNCHANGED <<mode, hosts, password, r2cfg, store, localFile, unsynced, partial, doubtful>>
  OBVIOUS
<1>2. \A d \in Calls : call'[d] \in Inactive
  BY <1>1, Alone DEF IInv, TypeInv, TypeOK, Inactive, Finished
<1>3. TypeInv'
  BY SwitchTypes DEF IInv
<1>4. /\ ~unsynced' /\ ~partial' => Agree'
      /\ mode' = "cloud" /\ ~doubtful' => OpensWith(password)'
  BY <1>1, Alone DEF Agree, AgreesWith, OpensWith, Changing, Inactive, Finished, Syncing
<1>5. ~diskFailed' => r2File' = r2cfg'
  BY <1>1
<1>6. NotMixed' /\ (mode' \in {"cloud", "local"} => Within(hosts, ModeValues)')
  BY <1>1 DEF IInv, SerialInv, OriginInv, NotMixed, Within, ModeValues
<1> QED
  BY <1>2, <1>3, <1>4, <1>5, <1>6, EndSerial

\* The local hosts are loaded.
LEMMA LocalSerial ==
  ASSUME IInv, NEW c \in Calls, UseLocal(c)
  PROVE  IInv'
<1> USE DEF UseLocal, AgreeAgain, Goto, storeVars, syncVars
<1>1. call[c] = "local" /\ mode' = "local" /\ hosts' = localFile
  OBVIOUS
<1>2. \A d \in Calls : call'[d] \in Inactive
  BY <1>1, Alone DEF IInv, TypeInv, TypeOK, Inactive, Finished
<1>3. TypeInv'
  BY SwitchTypes DEF IInv
<1>4. Agree'
  BY <1>1 DEF Agree
<1>5. ~diskFailed' => r2File' = r2cfg'
  BY <1>1, Alone DEF Inactive, Finished
<1>6. NotMixed' /\ Within(hosts, ModeValues)'
  BY <1>1 DEF IInv, SerialInv, OriginInv, NotMixed, Within, ModeValues
<1> QED
  BY <1>1, <1>2, <1>3, <1>4, <1>5, <1>6, EndSerial

\* The steps that take part of what they should read or write: the memory and the
\* file need not agree, the rest does.
LEMMA CutSerial ==
  ASSUME IInv, NEW c \in Calls, UnlockUnread(c) \/ WriteLocalCut(c) \/ UseLocalCut(c)
  PROVE  IInv'
<1> USE DEF UnlockUnread, WriteLocalCut, UseLocalCut, Goto, memVars, storeVars, syncVars
<1>1. /\ call[c] \in {"unlock", "encoded", "local"}
      /\ partial'
      /\ UNCHANGED <<r2cfg, store, r2File, diskFailed>>
  OBVIOUS
<1>2. \A d \in Calls : call'[d] \in Inactive
  BY <1>1, Alone DEF IInv, TypeInv, TypeOK, Inactive, Finished
<1>3. TypeInv'
  BY SyncTypes, UnlockTypes, SwitchTypes DEF IInv
<1>4. ~diskFailed' => r2File' = r2cfg'
  BY <1>1, Alone DEF Inactive, Finished
<1>5. CASE UnlockUnread(c)
  <2>1. OpensWith(password)'
    BY <1>5 DEF OpensWith, Downloaded
  <2>2. NotMixed' /\ (mode' \in {"cloud", "local"} => Within(hosts, ModeValues)')
    BY <1>5 DEF IInv, SerialInv, OriginInv, NotMixed, Within, NoHosts
  <2> QED
    BY <1>1, <1>2, <1>3, <1>4, <2>1, <2>2, EndSerial
<1>6. CASE WriteLocalCut(c)
  <2>1. mode = "local" /\ Within(hosts, LocalValues)
    BY <1>6 DEF IInv, SerialInv, OriginInv, ModeValues
  <2>2. Within(localFile, LocalValues)'
    BY <1>6, <2>1 DEF CutOf, Hosts, Within
  <2>3. NotMixed' /\ Within(hosts, ModeValues)'
    BY <1>1, <1>6, <2>1, <2>2
       DEF IInv, SerialInv, OriginInv, NotMixed, Within, ModeValues
  <2> QED
    BY <1>1, <1>2, <1>3, <1>4, <1>6, <2>1, <2>3, EndSerial
<1>7. CASE UseLocalCut(c)
  <2>1. Within(localFile, LocalValues)
    BY DEF IInv, SerialInv, OriginInv, NotMixed
  <2>2. Within(hosts, LocalValues)' /\ mode' = "local"
    BY <1>7, <2>1 DEF CutOf, Hosts, Within
  <2>3. NotMixed' /\ Within(hosts, ModeValues)'
    BY <1>1, <1>7, <2>2 DEF IInv, SerialInv, OriginInv, NotMixed, Within, ModeValues
  <2> QED
    BY <1>1, <1>2, <1>3, <1>4, <2>2, <2>3, EndSerial
<1> QED
  BY <1>5, <1>6, <1>7

\* A restart forgets memory and reads r2.json.
LEMMA RestartSerial == ASSUME IInv, Restart PROVE IInv'
<1> USE DEF Restart, AgreeAgain, LoadR2, storeVars, syncVars
<1>1. \A d \in Calls : call'[d] \in Inactive
  BY DEF Inactive, Finished
<1>2. TypeInv'
  BY RestartTypes DEF IInv
<1>3. Agree'
  BY DEF Agree
<1>4. NotMixed'
  BY DEF IInv, SerialInv, OriginInv, NotMixed, Within
<1> QED
  BY <1>1, <1>2, <1>3, <1>4, EndSerial

\* Every step, with calls one at a time, keeps the invariant.
LEMMA StepSerial == SerialCalls /\ IInv /\ [Next]_vars => IInv'
<1> SUFFICES ASSUME SerialCalls, IInv, [Next]_vars PROVE IInv'
  OBVIOUS
<1>1. CASE UNCHANGED vars
  <2>1. TypeInv'
    BY <1>1, StepTypes DEF IInv
  <2>2. SerialInv'
    BY <1>1
       DEF vars, memVars, storeVars, syncVars, histVars, IInv, SerialInv, OneActive, ModeKept,
           CarriesMemory, StoreInv, Changing, Agree, AgreesWith, OpensWith, FileInv, OriginInv, NotMixed, Within,
           ModeValues
  <2> QED
    BY <2>1, <2>2 DEF IInv
<1>2. CASE Restart
  BY <1>2, RestartSerial
<1>3. ASSUME NEW c \in Calls, Step(c) PROVE IInv'
  <2>1. CASE AnswerLost(c) \/ SyncFails(c)
    BY <2>1, HostSyncFails, PasswordSyncFails
  <2>2. CASE SaveHost(c) \/ DeleteHost(c) \/ ChangePassword(c) \/ RollBack(c)
    BY <2>2, HostSerial, PasswordSerial
  <2>3. CASE Encode(c) \/ Encrypt(c) \/ Send(c) \/ Uploaded(c) \/ WriteLocal(c)
    BY <2>3, ReadSerial, SyncedSerial
  <2>4. CASE ChangeNothing(c) \/ UnlockFails(c) \/ SwitchFails(c) \/ LocalFails(c) \/ CreateFails(c)
    BY <2>4, NothingSerial
  <2>5. CASE SetupFiles(c) \/ SetupLocks(c) \/ Unlock(c) \/ Create(c)
    BY <2>5, SetupSerial, UnlockSerial, CreateSerial
  <2>6. CASE UnlockNew(c) \/ SwitchCloud(c) \/ SwitchOther(c) \/ SwitchDone(c) \/ SwitchBack(c)
    BY <2>6, BetweenSerial, SwitchedSerial
  <2>7. CASE SwitchPersist(c) \/ UseLocal(c)
    BY <2>7, PersistSerial, LocalSerial
  <2>8. CASE UnlockUnread(c) \/ WriteLocalCut(c) \/ UseLocalCut(c)
    BY <2>8, CutSerial
  <2> QED
    BY <1>3, <2>1, <2>2, <2>3, <2>4, <2>5, <2>6, <2>7, <2>8 DEF Step
<1>4. ASSUME NEW c \in Calls, NEW a \in Request, Begin(c, a) PROVE IInv'
  BY <1>4, BeginSerial
<1> QED
  BY <1>1, <1>2, <1>3, <1>4 DEF Next

\* A call other than a deletion, a setup or an unlock answers ok in cloud mode
\* only when an upload succeeds.
LEMMA OkIsUpload ==
  ASSUME IInv, [Next]_vars, NEW c \in Calls,
         call[c] \notin Finished, call'[c] = "ok",
         arg[c].op \in {"save", "change", "switch"}, mode' = "cloud"
  PROVE  Uploaded(c) \/ SwitchDone(c)
<1> USE DEF Goto
<1>1. CASE UNCHANGED vars
  BY <1>1 DEF vars, Finished
<1>2. CASE Restart
  BY <1>2 DEF Restart, Finished
<1>3. ASSUME NEW d \in Calls, NEW a \in Request, Begin(d, a) PROVE FALSE
  <2>1. a.op # "ok"
    BY RequestFields
  <2> QED
    BY <1>3, <2>1 DEF Begin, IInv, TypeInv, TypeOK, Finished
<1>4. ASSUME NEW d \in Calls, Step(d) PROVE d = c
  <2>1. \E position : call' = [call EXCEPT ![d] = position]
    BY <1>4
       DEF Step, SaveHost, DeleteHost, ChangePassword, ChangeNothing, RollBack, Encode, Encrypt,
           Send, Uploaded, AnswerLost, SyncFails, WriteLocal, WriteLocalCut, Synced, SetupFiles,
           SetupLocks, Unlock, UnlockUnread, UnlockFails, UnlockNew, Create, CreateFails, Adopt,
           SwitchCloud, SwitchDone, SwitchBack, SwitchFails, SwitchOther, SwitchPersist, UseLocal,
           UseLocalCut, LocalFails
  <2> QED
    BY <2>1 DEF IInv, TypeInv, TypeOK, Finished
<1>5. ASSUME Step(c) PROVE Uploaded(c) \/ SwitchDone(c)
  <2>2. ~(SaveHost(c) \/ DeleteHost(c) \/ ChangePassword(c) \/ ChangeNothing(c) \/ RollBack(c))
    BY DEF IInv, TypeInv, TypeOK, SaveHost, DeleteHost, ChangePassword, ChangeNothing, RollBack
  <2>3. ~(Encode(c) \/ Encrypt(c) \/ Send(c))
    BY DEF IInv, TypeInv, TypeOK, Encode, Encrypt, Send
  <2>4. ~(AnswerLost(c) \/ SyncFails(c))
    BY DEF IInv, TypeInv, TypeOK, CallInv, Syncing, AnswerLost, SyncFails, AfterFailure
  <2>5. ~(WriteLocal(c) \/ WriteLocalCut(c))
    BY DEF WriteLocal, WriteLocalCut, memVars
  <2>6. ~(SetupFiles(c) \/ SetupLocks(c) \/ Unlock(c) \/ UnlockUnread(c) \/ UnlockFails(c)
          \/ UnlockNew(c) \/ Create(c) \/ CreateFails(c))
    BY DEF IInv, TypeInv, TypeOK, CallInv, SetupFiles, SetupLocks, Unlock, UnlockUnread,
           UnlockFails, UnlockNew, Create, CreateFails
  <2>7. ~(SwitchCloud(c) \/ SwitchBack(c) \/ SwitchFails(c) \/ SwitchOther(c) \/ LocalFails(c))
    BY DEF IInv, TypeInv, TypeOK, SwitchCloud, SwitchBack, SwitchFails, SwitchOther, LocalFails
  <2>8. ~(SwitchPersist(c) \/ UseLocal(c) \/ UseLocalCut(c))
    BY DEF IInv, SerialInv, ModeKept, SwitchPersist, UseLocal, UseLocalCut, memVars
  <2> QED
    BY <1>5, <2>2, <2>3, <2>4, <2>5, <2>6, <2>7, <2>8 DEF Step
<1> QED
  BY <1>1, <1>2, <1>3, <1>4, <1>5 DEF Next

\* Such an upload leaves memory and bucket in agreement.
LEMMA StepOkIsStored ==
  SerialCalls /\ IInv /\ [Next]_vars =>
    [\A c \in Calls :
       /\ call[c] \notin Finished /\ call'[c] = "ok"
       /\ arg[c].op \in {"save", "change", "switch"} /\ mode' = "cloud"
       => Agree']_vars
<1> SUFFICES ASSUME SerialCalls, IInv, [Next]_vars, NEW c \in Calls,
                    call[c] \notin Finished, call'[c] = "ok",
                    arg[c].op \in {"save", "change", "switch"}, mode' = "cloud"
             PROVE  Agree'
  OBVIOUS
<1>1. Uploaded(c) \/ SwitchDone(c)
  BY OkIsUpload
<1>2. ~unsynced' /\ ~partial'
  BY <1>1 DEF Uploaded, Synced, SwitchDone, AgreeAgain
<1>3. call[c] \in {"sent", "uploading"} /\ \A d \in Calls \ {c} : call'[d] = call[d]
  BY <1>1 DEF Uploaded, Synced, SwitchDone, Goto, IInv, TypeInv, TypeOK
<1>4. \A d \in Calls : call'[d] \in Inactive
  BY <1>3, Alone DEF Inactive, Finished
<1>5. IInv'
  BY StepSerial
<1> QED
  BY <1>2, <1>4, <1>5 DEF IInv, SerialInv, StoreInv, Inactive, Finished, Syncing

\* With calls one at a time, whatever fails and whenever the application is
\* restarted: what is stored agrees with memory, the password in memory opens
\* the object, r2.json names the bucket in use, and the hosts of the cloud and
\* those of ~/.ssh/config are not mixed.
THEOREM SerialCorrect ==
  ASSUME SerialCalls
  PROVE  Spec => [](StoreAgrees /\ PasswordOpens /\ R2FileAgrees /\ NotMixed)
<1>1. IInv => StoreAgrees /\ PasswordOpens /\ R2FileAgrees /\ NotMixed
  BY DEF IInv, SerialInv, StoreInv, Changing, FileInv, OriginInv, StoreAgrees, PasswordOpens,
         R2FileAgrees, Quiet, Finished, Syncing
<1>2. IInv /\ [Next]_vars => IInv'
  BY StepSerial
<1> QED
  BY <1>1, <1>2, InitSerial, PTL DEF Spec

\* With calls one at a time, and whatever failed or was not read before: a save, a
\* change of password or of the credentials that answers ok in cloud mode has
\* stored all that memory holds (cm_sync, cm_set_r2_config).
THEOREM OkIsStoredHolds ==
  ASSUME SerialCalls
  PROVE  Spec => OkIsStored
<1>1. IInv /\ [Next]_vars => IInv'
  BY StepSerial
<1>2. IInv /\ [Next]_vars =>
        [\A c \in Calls :
           /\ call[c] \notin Finished /\ call'[c] = "ok"
           /\ arg[c].op \in {"save", "change", "switch"} /\ mode' = "cloud"
           => Agree']_vars
  BY StepOkIsStored
<1> QED
  BY <1>1, <1>2, InitSerial, PTL DEF Spec, OkIsStored
=============================================================================
