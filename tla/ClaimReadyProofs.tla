--------------------------- MODULE ClaimReadyProofs ---------------------------
(***************************************************************************)
(* Theorems about what the status of a claim says of its objects while the *)
(* claim is provisioned and kept: Ready means that everything is there,    *)
(* and an edit of the list of devices is not reported when there was none. *)
(***************************************************************************)
EXTENDS ClaimCleanupProofs

(* Until its cleanup begins nothing of the claim goes away.                *)

\* The deletion is recorded, or the claim is gone.
Over == Requested(fsc) \/ (~fsc.exists /\ fsc.uid # 0)

LEMMA OverStays ==
    ASSUME TypeOK, DeletionInv, VersionsInv, FirstClaim', ClaimStep, Over PROVE Over'
<1>1. ClaimOK /\ EnvOK
  BY TypeParts
<1>2. ASSUME NEW t \in CondTypes, NEW r, t # "Ready", Requested(mem),
             Writes([cache.cond EXCEPT ![t] = r])
      PROVE  Over'
  <2>1. Requested(cache) /\ fsc'.cond = [cache.cond EXCEPT ![t] = r]
    BY <1>2 DEF Writes, VersionsInv, MarkInv
  <2>2. fsc'.cond["Ready"] = cache.cond["Ready"]
    BY <1>1, <1>2, <2>1, OneChanged, CondNames
  <2>3. QED BY <2>1, <2>2 DEF Over, Requested
<1>3. CASE Still \/ Syncs \/ Starts \/ Moves \/ Ends
  BY <1>3 DEF Still, Syncs, Starts, Moves, Ends, Over, Requested
<1>4. CASE MarkWrite
  BY <1>1, <1>4, OneChanged, CondNames DEF MarkWrite, Writes, Over, Requested
<1>5. CASE BlockWrite
  <2>1. pc \in Cleaning /\ "DeletionBlocked" # "Ready"
    BY <1>5 DEF BlockWrite, Cleaning
  <2>2. Requested(mem)
    BY <2>1 DEF VersionsInv, OrderInv
  <2>3. PICK r \in TrueReasons : Writes([cache.cond EXCEPT !["DeletionBlocked"] = r])
    BY <1>5 DEF BlockWrite
  <2>4. QED BY <1>2, <2>1, <2>2, <2>3, CondNames
<1>6. CASE \E t \in Stages : StageWrite(t)
  <2>1. PICK t \in Stages : StageWrite(t)
    BY <1>6
  <2>2. pc \in Cleaning /\ t # "Ready" /\ t \in CondTypes
    BY <2>1, CondNames DEF StageWrite, StageDone, Cleaning, Deleting, Stages
  <2>3. Requested(mem)
    BY <2>2 DEF VersionsInv, OrderInv
  <2>4. QED BY <1>2, <2>1, <2>2, <2>3 DEF StageWrite
<1>7. ~ProvisionWrite
  <2>1. SUFFICES ASSUME ProvisionWrite PROVE FALSE
    OBVIOUS
  <2>2. fsc.exists /\ ~Requested(fsc)
    BY <2>1, NoneRequested DEF ProvisionWrite, Writes
  <2>3. QED BY <2>2 DEF Over
<1>8. ~Creates
  <2>1. SUFFICES ASSUME Creates PROVE FALSE
    OBVIOUS
  <2>2. fsc.uid = 0 /\ ~fsc.exists
    BY <1>1, <2>1, FirstCreated DEF Creates
  <2>3. fsc.cond = NoConditions
    BY <2>2 DEF VersionsInv, BornInv, Blank
  <2>4. QED BY <2>2, <2>3, NothingTold DEF Over
<1>9. CASE Turns
  BY <1>9, GoneSays DEF Turns, Over, Requested, VersionsInv, BornInv
<1>10. QED BY <1>3, <1>4, <1>5, <1>6, <1>7, <1>8, <1>9 DEF ClaimStep

\* Then no pass is cleaning up.
LEMMA LivePass == ASSUME VersionsInv, ~Over PROVE pc \notin Cleaning
  BY DEF VersionsInv, OrderInv, MarkInv, Over

\* What a step does to the LocalDisks: one is created, or reports another status.
NewDisk(w) ==
    /\ pc = "createLocalDisk" /\ pc' = "recordLocalDisk" /\ todo # <<>>
    /\ w = getDeviceWWN(Head(todo)) /\ w \in Wwns /\ ld[w].st = "absent"
    /\ ld' = [ld EXCEPT ![w] = NewLocalDisk(Head(todo))]
    /\ UNCHANGED <<fsc, cache, mem, todo, node, discovery, fs>>

Reported(w, s) ==
    /\ w \in Wwns /\ ld[w].st # "absent" /\ s \notin {"absent", "new"}
    /\ ld' = [ld EXCEPT ![w].st = s]
    /\ s = "notready" => "unhealthy" \in Upsets
    /\ s = "foreign" => "foreign" \in Upsets
    /\ UNCHANGED <<fsc, cache, mem, pc, todo, node, discovery, fs>>

\* Or it takes some away; the reasons there may be for it.
DisksGo ==
    /\ \A w \in Wwns : ld'[w] = NoLD \/ ld'[w].own = ld[w].own
    /\ \/ pc = "deleteLocalDisks" \/ "tamper" \in Upsets
       \/ \E w \in Wwns : ld[w].st # "absent" /\ (ld[w].del \/ Orphan(ld[w].own))

DiskStep ==
    \/ ld' = ld
    \/ \E w \in Wwns : NewDisk(w)
    \/ \E w \in Wwns : \E s \in LDStates : Reported(w, s)
    \/ DisksGo

LEMMA DiskShape == ASSUME TypeOK, [Next]_vars PROVE DiskStep
<1>1. ld \in [Wwns -> LocalDisks]
  BY DEF TypeOK
<1>2. CASE ld' = ld
  BY <1>2 DEF DiskStep
<1>3. CASE createLocalDisk
  BY <1>2, <1>3 DEF createLocalDisk, Goto, claimVars, envVars, DiskStep, NewDisk
<1>4. CASE deleteLocalDisks
  <2>1. \/ ld' = ld
        \/ \E S \in SUBSET OwnedLDs :
              ld' = [w \in Wwns |-> IF w \in S THEN [ld[w] EXCEPT !.del = TRUE] ELSE ld[w]]
    BY <1>4 DEF deleteLocalDisks
  <2>2. \A w \in Wwns : ld'[w].own = ld[w].own
    BY <1>1, <2>1 DEF LocalDisks
  <2>3. QED BY <1>4, <2>2 DEF deleteLocalDisks, DiskStep, DisksGo
<1>5. CASE Tamper
  <2>1. ld' = ld \/ ("tamper" \in Upsets /\ \E w \in OwnedLDs : ld' = [ld EXCEPT ![w].del = TRUE])
    BY <1>5 DEF Tamper, Upset
  <2>2. \A w \in Wwns : ld'[w].own = ld[w].own
    BY <1>1, <2>1 DEF OwnedLDs, LocalDisks
  <2>3. QED BY <2>1, <2>2 DEF DiskStep, DisksGo
<1>6. CASE \E w \in Wwns : ScaleLocalDisk(w)
  <2>1. PICK w \in Wwns : ScaleLocalDisk(w)
    BY <1>6
  <2>2. PICK s \in LDStates \ {"absent", "new", ld[w].st} :
          /\ ld' = [ld EXCEPT ![w].st = s]
          /\ s = "notready" => "unhealthy" \in Upsets
          /\ s = "foreign" => "foreign" \in Upsets
    BY <2>1 DEF ScaleLocalDisk, Upset
  <2>3. Reported(w, s)
    BY <2>1, <2>2 DEF ScaleLocalDisk, claimVars, Reported
  <2>4. QED BY <2>2, <2>3 DEF DiskStep
<1>7. CASE ScaleRemoves \/ GarbageCollect
  <2>1. \/ ld' = ld
        \/ \E w \in Wwns : /\ ld[w].st # "absent" /\ (ld[w].del \/ Orphan(ld[w].own))
                           /\ ld' = [ld EXCEPT ![w] = NoLD] \/ ld' = [ld EXCEPT ![w].del = TRUE]
    BY <1>7 DEF ScaleRemoves, GarbageCollect
  <2>2. ld' = ld \/ \A w \in Wwns : ld'[w] = NoLD \/ ld'[w].own = ld[w].own
    BY <1>1, <2>1 DEF LocalDisks
  <2>3. QED BY <2>1, <2>2 DEF DiskStep, DisksGo
<1>8. QED
  <2>1. CASE UNCHANGED vars
    BY <1>2, <2>1 DEF vars, childVars
  <2>2. CASE Handler
    BY <1>2, <1>3, <1>4, <2>2
    DEF Handler, Reconcile, handleFinalizers, handleDeletion, checkStorageClassUsage,
        checkFilesystemDeletionLabel, deleteStorageClass, deleteFilesystem, removeFinalizer,
        ensureLocalDisks, recordLocalDisk, endLocalDisks, syncLocalDiskConditions,
        ensureFileSystem, recordFileSystem, syncFilesystemConditions, ensureStorageClass,
        recordStorageClass, syncFSCReady, childVars
  <2>3. CASE ~Handler /\ Next
    BY <1>2, <1>5, <1>6, <1>7, <2>3
    DEF Next, ApiError, Crash, InformerSync, TimerFires, Resync, User, CreateClaim,
        DeleteClaim, ReleaseHold, ValidateUpdate, LabelFilesystem, ProvisionVolume,
        ReleaseVolume, Rediscover, Scale, ScaleFilesystem, childVars
  <2>4. QED BY <2>1, <2>2, <2>3

\* What a step does to the Filesystem.
DisksDone(c) == isConditionTrue(c, "LocalDiskCreated")
StoreDone(c) == isConditionTrue(c, "FileSystemCreated")

\* The pass that has found all LocalDisks in order puts the Filesystem over them.
Lays ==
    /\ pc = "ensureFileSystem" /\ DisksDone(mem) /\ OwnedLDs # {}
    /\ \/ ~FSExists /\ fs' = NewFilesystem(OwnedLDs)
       \/ OwnedFS /\ fs.disks # OwnedLDs /\ fs' = [fs EXCEPT !.disks = OwnedLDs]
    /\ UNCHANGED <<fsc, cache, ld, sc>>

StoreKept == fs'.st # "absent" /\ fs'.own = fs.own /\ fs'.disks = fs.disks /\ fs'.del = fs.del

StoreGoes ==
    /\ fs' = NoFS \/ (fs'.own = fs.own /\ fs'.del)
    /\ \/ pc = "deleteFilesystem" \/ "tamper" \in Upsets
       \/ FSExists /\ (fs.del \/ Orphan(fs.own))

StoreStep == fs' = fs \/ (FSExists /\ StoreKept) \/ Lays \/ StoreGoes

LEMMA StoreShape == ASSUME TypeOK, [Next]_vars PROVE StoreStep
<1>1. fs \in Filesystems
  BY DEF TypeOK
<1>2. CASE fs' = fs
  BY <1>2 DEF StoreStep
<1>3. CASE ensureFileSystem
  BY <1>2, <1>3
  DEF ensureFileSystem, StoreStep, Lays, DisksDone, Goto, Return, claimVars, envVars
<1>4. CASE deleteFilesystem
  BY <1>1, <1>2, <1>4 DEF deleteFilesystem, StoreStep, StoreGoes, Filesystems
<1>5. CASE LabelFilesystem
  BY <1>1, <1>5 DEF LabelFilesystem, FSExists, StoreStep, StoreKept, Filesystems
<1>6. CASE Tamper
  BY <1>1, <1>2, <1>6 DEF Tamper, Upset, StoreStep, StoreGoes, Filesystems
<1>7. CASE ScaleFilesystem
  BY <1>1, <1>7 DEF ScaleFilesystem, FSExists, StoreStep, StoreKept, Filesystems
<1>8. CASE ScaleRemoves \/ GarbageCollect
  BY <1>1, <1>2, <1>8 DEF ScaleRemoves, GarbageCollect, StoreStep, StoreGoes, Filesystems
<1>9. QED
  <2>1. CASE UNCHANGED vars
    BY <1>2, <2>1 DEF vars, childVars
  <2>2. CASE Handler
    BY <1>2, <1>3, <1>4, <2>2
    DEF Handler, Reconcile, handleFinalizers, handleDeletion, checkStorageClassUsage,
        checkFilesystemDeletionLabel, deleteStorageClass, deleteLocalDisks, removeFinalizer,
        ensureLocalDisks, createLocalDisk, recordLocalDisk, endLocalDisks,
        syncLocalDiskConditions, recordFileSystem, syncFilesystemConditions,
        ensureStorageClass, recordStorageClass, syncFSCReady, childVars
  <2>3. CASE ~Handler /\ Next
    BY <1>2, <1>5, <1>6, <1>7, <1>8, <2>3
    DEF Next, ApiError, Crash, InformerSync, TimerFires, Resync, User, CreateClaim,
        DeleteClaim, ReleaseHold, ValidateUpdate, ProvisionVolume, ReleaseVolume, Rediscover,
        Scale, ScaleLocalDisk, childVars
  <2>4. QED BY <2>1, <2>2, <2>3

\* Copies and objects are of a claim that was created.
KnownInv ==
    /\ cache.uid # 0 \/ mem.uid # 0 \/ fs.own # 0 => fsc.uid # 0
    /\ \A w \in Wwns : ld[w].own # 0 => fsc.uid # 0

\* Nothing is being deleted yet.
KeptInv == Over \/ (~fs.del /\ \A w \in Wwns : ~ld[w].del)

LEMMA NextKnown ==
    ASSUME TypeOK, VersionsInv, KnownInv, [Next]_vars, ClaimStep PROVE KnownInv'
<1>1. ClaimOK /\ fsc.uid \in Nat /\ ld \in [Wwns -> LocalDisks] /\ fs \in Filesystems
  BY TypeParts, Bounds DEF TypeOK, Claims
<1>2. fsc.uid # 0 => fsc'.uid # 0
  BY <1>1, NextUid
<1>3. cache' \in {cache, fsc} /\ mem' \in {mem, cache, Gone(0)} /\ Gone(0).uid = 0
  BY CopiesFrom, GoneSays
<1>4. cache'.uid # 0 \/ mem'.uid # 0 => fsc'.uid # 0
  BY <1>2, <1>3 DEF KnownInv
<1>5. NoFS.own = 0 /\ NoLD.own = 0 /\ NewFilesystem(OwnedLDs).own = mem.uid
      /\ NewLocalDisk(Head(todo)).own = mem.uid
  BY DEF NoFS, NoLD, NewFilesystem, NewLocalDisk
<1>6. fs'.own # 0 => fsc'.uid # 0
  <2>1. fs'.own \in {fs.own, mem.uid, 0}
    BY <1>1, <1>5, StoreShape DEF StoreStep, StoreKept, Lays, StoreGoes, Filesystems
  <2>2. QED BY <1>2, <2>1 DEF KnownInv
<1>7. ASSUME NEW w \in Wwns, ld'[w].own # 0 PROVE fsc'.uid # 0
  <2>1. CASE ld' = ld
    BY <1>2, <1>7, <2>1 DEF KnownInv
  <2>2. CASE \E v \in Wwns : NewDisk(v)
    <3>1. ld'[w].own \in {ld[w].own, mem.uid}
      BY <1>1, <1>5, <2>2 DEF NewDisk
    <3>2. QED BY <1>2, <1>7, <3>1 DEF KnownInv
  <2>3. CASE \E v \in Wwns : \E s \in LDStates : Reported(v, s)
    <3>1. ld'[w].own = ld[w].own
      BY <1>1, <2>3 DEF Reported, LocalDisks
    <3>2. QED BY <1>2, <1>7, <3>1 DEF KnownInv
  <2>4. CASE DisksGo
    BY <1>2, <1>5, <1>7, <2>4 DEF DisksGo, KnownInv
  <2>5. QED BY <2>1, <2>2, <2>3, <2>4, DiskShape DEF DiskStep
<1>8. QED BY <1>4, <1>6, <1>7 DEF KnownInv

\* A live claim of a name used once is the owner of what is owned.
LEMMA NoOrphan ==
    ASSUME OneClaim, TypeOK, KnownInv, VersionsInv, ~Over, NEW o \in 0..MaxClaims, o # 0 => fsc.uid # 0
    PROVE  ~Orphan(o)
<1>1. fsc.uid \in 0..MaxClaims /\ MaxClaims \in Nat /\ MaxClaims <= 1
  BY Bounds DEF TypeOK, Claims, OneClaim
<1>2. fsc.exists \/ fsc.uid = 0
  BY DEF Over
<1>3. QED BY <1>1, <1>2 DEF Orphan

LEMMA NothingGoes ==
    ASSUME OneClaim, "tamper" \notin Upsets, TypeOK, VersionsInv, KnownInv, KeptInv, ~Over
    PROVE  ~DisksGo /\ ~StoreGoes
<1>1. pc \notin {"deleteLocalDisks", "deleteFilesystem"}
  BY LivePass DEF Cleaning, Deleting
<1>2. fs.own \in 0..MaxClaims /\ \A w \in Wwns : ld[w].own \in 0..MaxClaims
  BY DEF TypeOK, Filesystems, LocalDisks
<1>3. ~Orphan(fs.own) /\ \A w \in Wwns : ~Orphan(ld[w].own)
  BY <1>2, NoOrphan DEF KnownInv
<1>4. QED BY <1>1, <1>3 DEF DisksGo, StoreGoes, KeptInv

LEMMA NextKept ==
    ASSUME OneClaim, "tamper" \notin Upsets, TypeOK, DeletionInv, VersionsInv, KnownInv, KeptInv,
           FirstClaim', [Next]_vars, ClaimStep
    PROVE  KeptInv'
<1>1. CASE Over
  BY <1>1, OverStays DEF KeptInv
<1>2. CASE ~Over
  <2>1. ~fs.del /\ (\A w \in Wwns : ~ld[w].del) /\ ~DisksGo /\ ~StoreGoes
    BY <1>2, NothingGoes DEF KeptInv
  <2>2. fs \in Filesystems /\ ld \in [Wwns -> LocalDisks]
    BY DEF TypeOK
  <2>3. ~fs'.del
    BY <2>1, <2>2, StoreShape DEF StoreStep, StoreKept, Lays, NewFilesystem, Filesystems
  <2>4. \A w \in Wwns : ~ld'[w].del
    <3>1. CASE \E v \in Wwns : NewDisk(v)
      BY <2>1, <2>2, <3>1 DEF NewDisk, NewLocalDisk
    <3>2. CASE \E v \in Wwns : \E s \in LDStates : Reported(v, s)
      BY <2>1, <2>2, <3>2 DEF Reported, LocalDisks
    <3>3. QED BY <2>1, <3>1, <3>2, DiskShape DEF DiskStep
  <2>5. QED BY <2>3, <2>4 DEF KeptInv
<1>3. QED BY <1>1, <1>2

\* What is known of a claim until its cleanup begins.
BaseInv == TypeOK /\ DeletionInv /\ VersionsInv /\ FsInv /\ KnownInv /\ KeptInv

LEMMA BaseHolds ==
    ASSUME OneClaim, "tamper" \notin Upsets PROVE Spec => []BaseInv
<1>1. Init => KnownInv /\ KeptInv
  <2>1. SUFFICES ASSUME Init PROVE KnownInv /\ KeptInv
    OBVIOUS
  <2>2. fs = NoFS /\ cache = Gone(0) /\ mem = Gone(0)
    BY <2>1 DEF Init
  <2>3. \A w \in Wwns : ld[w].own = 0 /\ ~ld[w].del
    BY <2>1 DEF Init, NoLD
  <2>4. NoFS.own = 0 /\ ~NoFS.del /\ Gone(0).uid = 0
    BY GoneSays DEF NoFS
  <2>5. QED BY <2>2, <2>3, <2>4 DEF KnownInv, KeptInv
<1>2. /\ TypeOK /\ DeletionInv /\ VersionsInv /\ KnownInv /\ KeptInv /\ TypeOK' /\ [Next]_vars
      => KnownInv' /\ KeptInv'
  BY StepShape, OnlyClaim, NextKnown, NextKept
<1>3. QED BY <1>1, <1>2, VersionsAgree, RecordsTrue, TypeCorrect, PTL DEF Spec, BaseInv

----------------------------------------------------------------------------
(* A pass, from handler to handler.                                        *)

\* LocalDisks are recorded as created or in the making.
Begun(c) == c.cond["LocalDiskCreated"] \in TrueReasons \cup InProgress

\* Handlers at which a pass has found nothing yet.
Early == {"idle", "handleFinalizers", "handleDeletion", "ensureLocalDisks"} \cup Cleaning

EntersLoop ==
    /\ pc = "ensureLocalDisks" /\ pc' = "createLocalDisk"
    /\ ~Begun(mem) /\ isConditionTrue(mem, "DeviceValidated")
    /\ todo' = mem.devices /\ node' \in Nodes
    /\ UNCHANGED <<fsc, cache, mem, discovery, childVars>>

Records ==
    /\ pc = "recordLocalDisk" /\ pc' = "createLocalDisk" /\ todo' = Tail(todo)
    /\ UNCHANGED <<mem, node, discovery, childVars>>

\* The loop ends before its end, or had nothing to do.
LeavesLoop ==
    /\ pc = "createLocalDisk" /\ pc' = "syncLocalDiskConditions"
    /\ \/ todo = <<>> /\ mem.devices = <<>>
       \/ /\ todo # <<>> /\ getDeviceWWN(Head(todo)) \in Wwns
          /\ ld[getDeviceWWN(Head(todo))].st # "absent"
    /\ UNCHANGED <<fsc, cache, mem, discovery, childVars>>

SkipsLoop ==
    /\ pc = "ensureLocalDisks" /\ pc' = "syncLocalDiskConditions"
    /\ Begun(mem) /\ (DisksDone(mem) => SameDevices(mem))
    /\ UNCHANGED <<fsc, cache, mem, discovery, childVars>>

DisksChecked ==
    /\ pc = "syncLocalDiskConditions" /\ pc' = "ensureFileSystem"
    /\ DisksDone(mem) /\ OwnedLDs # {} => Failing = {}
    /\ UNCHANGED <<fsc, cache, mem, discovery, childVars>>

StoreChecked ==
    /\ pc = "ensureFileSystem" /\ pc' = "syncFilesystemConditions"
    /\ DisksDone(mem) /\ OwnedLDs # {} => OwnedFS /\ fs.disks = OwnedLDs
    /\ UNCHANGED <<fsc, cache, mem, discovery, childVars>>

ClassChecked ==
    /\ pc = "ensureStorageClass" /\ pc' \in {"recordStorageClass", "recordDrift", "syncFSCReady"}
    /\ StoreDone(mem) \/ pc' # "syncFSCReady" => sc' # "absent"
    /\ UNCHANGED <<fsc, cache, mem, discovery, ld, fs>>

GoesOn ==
    /\ \/ pc = "ensureFileSystem" /\ pc' = "recordFileSystem"
       \/ pc = "syncFilesystemConditions" /\ pc' = "ensureStorageClass"
       \/ pc = "recordStorageClass" /\ pc' = "syncFSCReady"
    /\ UNCHANGED <<fsc, cache, mem, discovery, ld, sc>>

Stays == UNCHANGED <<pc, mem, todo, node>>

PassStep ==
    \/ Stays \/ pc' \in Early
    \/ EntersLoop \/ (\E w \in Wwns : NewDisk(w)) \/ Records \/ LeavesLoop \/ SkipsLoop
    \/ DisksChecked \/ StoreChecked \/ ClassChecked \/ GoesOn

LEMMA PatchLeaves == ASSUME NEW cs, NEW b, patchFSCStatus(cs, b) PROVE pc' = "idle"
  BY DEF patchFSCStatus, EndPass, Requeue

LEMMA UpdateLeaves ==
    ASSUME NEW t, NEW r, NEW A, updateConditionIfChanged(t, r, A)
    PROVE  pc' = "idle" \/ (Unchanged(t, r) /\ A)
  BY PatchLeaves DEF updateConditionIfChanged

LEMMA LoopPass ==
    ASSUME ensureLocalDisks \/ createLocalDisk \/ recordLocalDisk \/ endLocalDisks PROVE PassStep
<1>1. ASSUME pc' = "idle" PROVE PassStep
  BY <1>1 DEF PassStep, Early
<1>2. CASE ensureLocalDisks
  <2>1. CASE pc' = "idle"
    BY <1>1, <2>1
  <2>2. CASE Goto("syncLocalDiskConditions")
    <3>1. pc' = "syncLocalDiskConditions" /\ UNCHANGED <<fsc, cache, mem, discovery, childVars>>
      BY <1>2, <2>2 DEF ensureLocalDisks, Goto, claimVars, envVars
    <3>2. \/ isConditionTrue(mem, "LocalDiskCreated") /\ SameDevices(mem)
          \/ mem.cond["LocalDiskCreated"] \in InProgress
      BY <1>2, <3>1, PatchLeaves DEF ensureLocalDisks, handleValidationError
    <3>3. TrueReasons \cap InProgress = {}
      BY DEF TrueReasons, InProgress
    <3>4. Begun(mem) /\ (DisksDone(mem) => SameDevices(mem))
      BY <3>2, <3>3 DEF Begun, DisksDone, isConditionTrue
    <3>5. pc = "ensureLocalDisks"
      BY <1>2 DEF ensureLocalDisks
    <3>6. QED BY <3>1, <3>4, <3>5 DEF PassStep, SkipsLoop
  <2>3. CASE /\ pc' = "createLocalDisk" /\ node' \in Nodes /\ todo' = mem.devices
             /\ UNCHANGED <<claimVars, mem>> /\ isConditionTrue(mem, "DeviceValidated")
             /\ ~isConditionTrue(mem, "LocalDiskCreated")
             /\ mem.cond["LocalDiskCreated"] \notin InProgress
    BY <1>2, <2>3 DEF ensureLocalDisks, claimVars, envVars, PassStep, EntersLoop, Begun,
                      isConditionTrue
  <2>4. QED BY <1>2, <2>1, <2>2, <2>3, PatchLeaves DEF ensureLocalDisks, handleValidationError
<1>3. CASE createLocalDisk
  <2>1. handleResourceCreationError("LocalDiskCreated") => pc' = "idle"
    BY PatchLeaves DEF handleResourceCreationError
  <2>2. QED BY <1>1, <1>3, <2>1
            DEF createLocalDisk, Goto, claimVars, envVars, childVars, PassStep, NewDisk, LeavesLoop
<1>4. CASE recordLocalDisk
  BY <1>1, <1>4 DEF recordLocalDisk, Requeue, EndPass, envVars, PassStep, Records
<1>5. CASE endLocalDisks
  BY <1>1, <1>5
  DEF endLocalDisks, Return, EndPass, Goto, claimVars, envVars, PassStep, LeavesLoop
<1>6. QED BY <1>2, <1>3, <1>4, <1>5

LEMMA LaterPass ==
    ASSUME \/ syncLocalDiskConditions \/ ensureFileSystem \/ recordFileSystem
           \/ syncFilesystemConditions \/ ensureStorageClass \/ recordStorageClass
           \/ syncFSCReady
    PROVE  PassStep
<1>1. ASSUME pc' = "idle" PROVE PassStep
  BY <1>1 DEF PassStep, Early
<1>2. ASSUME NEW t, handleResourceCreationError(t) PROVE PassStep
  BY <1>1, <1>2, PatchLeaves DEF handleResourceCreationError
<1>3. CASE syncLocalDiskConditions
  <2>1. CASE Goto("ensureFileSystem") /\ (OwnedLDs = {} \/ Failing = {})
    BY <1>3, <2>1
    DEF syncLocalDiskConditions, Goto, claimVars, envVars, PassStep, DisksChecked
  <2>2. CASE \E w \in Failing :
               updateConditionIfChanged("LocalDiskCreated",
                 IF ld[w].st = "foreign" THEN "UsedElsewhere" ELSE "NotReady",
                 Goto("ensureFileSystem"))
    <3>1. PICK r \in {"UsedElsewhere", "NotReady"} :
            updateConditionIfChanged("LocalDiskCreated", r, Goto("ensureFileSystem"))
      BY <2>2
    <3>2. CASE Unchanged("LocalDiskCreated", r) /\ Goto("ensureFileSystem")
      <4>1. ~DisksDone(mem)
        BY <3>2 DEF Unchanged, DisksDone, isConditionTrue, TrueReasons
      <4>2. QED BY <1>3, <3>2, <4>1
                DEF syncLocalDiskConditions, Goto, claimVars, envVars, PassStep, DisksChecked
    <3>3. QED BY <1>1, <3>1, <3>2, UpdateLeaves
  <2>3. QED BY <1>1, <1>3, <2>1, <2>2, UpdateLeaves DEF syncLocalDiskConditions
<1>4. CASE ensureFileSystem
  <2>1. CASE Goto("recordFileSystem")
    BY <1>4, <2>1 DEF ensureFileSystem, Goto, claimVars, envVars, PassStep, GoesOn
  <2>2. CASE Goto("syncFilesystemConditions") /\ UNCHANGED fs
             /\ (DisksDone(mem) /\ OwnedLDs # {} => OwnedFS /\ fs.disks = OwnedLDs)
    BY <1>4, <2>2
    DEF ensureFileSystem, Goto, claimVars, envVars, childVars, PassStep, StoreChecked
  <2>3. QED BY <1>1, <1>2, <1>4, <2>1, <2>2 DEF ensureFileSystem, DisksDone, Return, EndPass
<1>5. CASE recordFileSystem \/ syncFSCReady
  <2>1. \E t, r : updateConditionIfChanged(t, r, Return)
    BY <1>5 DEF recordFileSystem, syncFSCReady
  <2>2. QED BY <1>1, <2>1, UpdateLeaves DEF Return, EndPass
<1>6. CASE syncFilesystemConditions
  <2>1. Goto("ensureStorageClass") \/ pc' = "idle"
    BY <1>6, UpdateLeaves DEF syncFilesystemConditions
  <2>2. QED BY <1>1, <1>6, <2>1
            DEF syncFilesystemConditions, Goto, claimVars, envVars, childVars, PassStep, GoesOn
<1>7. CASE ensureStorageClass
  <2>1. CASE \E l \in {"recordStorageClass", "syncFSCReady"} :
               Goto(l) /\ (StoreDone(mem) \/ l # "syncFSCReady" => sc' # "absent")
    BY <1>7, <2>1 DEF ensureStorageClass, Goto, claimVars, envVars, PassStep, ClassChecked
  <2>2. CASE reconcileExistingStorageClass /\ pc' = "recordDrift" /\ UNCHANGED <<claimVars, mem>>
    BY <1>7, <2>2
    DEF ensureStorageClass, reconcileExistingStorageClass, claimVars, envVars, PassStep, ClassChecked
  <2>3. QED BY <1>1, <1>2, <1>7, <2>1, <2>2, UpdateLeaves DEF ensureStorageClass, StoreDone
<1>8. CASE recordStorageClass
  <2>1. pc' = "idle" \/ (pc = "recordStorageClass" /\ Goto("syncFSCReady"))
    <3>1. ASSUME NEW r, updateConditionIfChanged("StorageClassCreated", r, Goto("syncFSCReady"))
          PROVE  pc' = "idle" \/ Goto("syncFSCReady")
      BY <3>1, UpdateLeaves
    <3>2. ASSUME NEW r, updateConditionIfChanged("StorageClassCreated", r, Return)
          PROVE  pc' = "idle"
      BY <3>2, UpdateLeaves DEF Return, EndPass
    <3>3. QED BY <1>8, <3>1, <3>2 DEF recordStorageClass
  <2>2. QED BY <1>1, <1>8, <2>1
            DEF recordStorageClass, Goto, claimVars, envVars, childVars, PassStep, GoesOn
<1>9. QED BY <1>3, <1>4, <1>5, <1>6, <1>7, <1>8

LEMMA EarlyPass ==
    ASSUME \/ Reconcile \/ handleFinalizers \/ handleDeletion \/ checkStorageClassUsage
           \/ checkFilesystemDeletionLabel \/ deleteStorageClass \/ deleteFilesystem
           \/ deleteLocalDisks \/ removeFinalizer
    PROVE  PassStep
<1>1. Reconcile => PassStep
  BY DEF Reconcile, PassStep, Stays, Early
<1>2. ASSUME NEW f, patchFSCSpec(f) PROVE pc' = "idle"
  BY <1>2 DEF patchFSCSpec, Return, Requeue, EndPass
<1>3. handleFinalizers \/ removeFinalizer => pc' \in Early
  BY <1>2 DEF handleFinalizers, removeFinalizer, Goto, Early
<1>4. handleDeletion => pc' \in Early
  BY UpdateLeaves DEF handleDeletion, markDeletionRequested, Goto, Early, Cleaning
<1>5. ASSUME NEW r, BlockDeletion(r) PROVE pc' = "idle"
  BY <1>5, PatchLeaves DEF BlockDeletion, EndPass
<1>6. checkStorageClassUsage \/ checkFilesystemDeletionLabel => pc' \in Early
  BY <1>5 DEF checkStorageClassUsage, checkFilesystemDeletionLabel, Goto, Early, Cleaning, Deleting
<1>7. deleteStorageClass => pc' \in Early
  BY UpdateLeaves DEF deleteStorageClass, Goto, EndPass, Early, Cleaning, Deleting
<1>8. deleteFilesystem => pc' \in Early
  BY UpdateLeaves DEF deleteFilesystem, Goto, EndPass, Early, Cleaning, Deleting
<1>9. deleteLocalDisks => pc' \in Early
  BY UpdateLeaves DEF deleteLocalDisks, Goto, EndPass, Early, Cleaning, Deleting
<1>10. QED BY <1>1, <1>3, <1>4, <1>6, <1>7, <1>8, <1>9 DEF PassStep

LEMMA PassShape == ASSUME [Next]_vars PROVE PassStep
<1>1. CASE Handler
  BY <1>1, EarlyPass, LoopPass, LaterPass DEF Handler
<1>2. CASE ApiError \/ Crash
  BY <1>2 DEF ApiError, Requeue, EndPass, Crash, PassStep, Early
<1>3. CASE Stays
  BY <1>3 DEF PassStep
<1>4. CASE UNCHANGED vars
  BY <1>3, <1>4 DEF vars, passVars, Stays
<1>5. CASE \/ InformerSync \/ TimerFires \/ Resync \/ User \/ Scale \/ GarbageCollect
  BY <1>3, <1>5
  DEF InformerSync, TimerFires, Resync, User, CreateClaim, DeleteClaim, ReleaseHold,
      ValidateUpdate, LabelFilesystem, ProvisionVolume, ReleaseVolume, Tamper, Rediscover,
      Scale, ScaleLocalDisk, ScaleFilesystem, ScaleRemoves, GarbageCollect, passVars, Stays
<1>6. QED BY <1>1, <1>2, <1>4, <1>5 DEF Next

----------------------------------------------------------------------------
(* A live claim: what a step does to it and to its objects.                *)

\* The claim is edited, or it is created.
Edited ==
    /\ fsc'.cond = fsc.cond /\ cache' = cache /\ (Ended \/ UNCHANGED <<mem, pc>>)
    /\ fsc'.devices = fsc.devices \/ ("edit" \in Upsets /\ ~DisksDone(fsc))

Born ==
    /\ fsc.uid = 0 /\ fsc.cond = NoConditions /\ fsc'.cond = NoConditions
    /\ pc = "idle" /\ ~cache.exists /\ cache.cond = NoConditions
    /\ UNCHANGED <<cache, mem, pc>>

LiveStep == fsc' = fsc \/ ProvisionWrite \/ Edited \/ Born

LEMMA LiveShape ==
    ASSUME OneClaim, BaseInv, TypeOK', [Next]_vars, ~Over, ~Over' PROVE LiveStep
<1>1. ClaimOK /\ EnvOK /\ DeletionInv /\ VersionsInv /\ ClaimStep /\ pc \notin Cleaning
  BY TypeParts, StepShape, LivePass DEF BaseInv
<1>2. CASE Still \/ Syncs \/ Starts \/ Moves \/ Ends
  BY <1>2 DEF Still, Syncs, Starts, Moves, Ends, LiveStep
<1>3. ~MarkWrite
  BY <1>1, OneChanged, CondNames DEF MarkWrite, Writes, Over, Requested
<1>4. ~BlockWrite
  BY <1>1 DEF BlockWrite, Cleaning
<1>5. ~\E t \in Stages : StageWrite(t)
  BY <1>1 DEF StageWrite, StageDone, Cleaning, Deleting
<1>6. CASE Creates
  <2>1. fsc.uid = 0 /\ ~fsc.exists
    BY <1>1, <1>6, FirstCreated, OnlyClaim DEF Creates
  <2>2. cache.uid = 0 /\ mem.uid = 0
    BY <2>1 DEF BaseInv, KnownInv
  <2>3. fsc.cond = NoConditions /\ pc = "idle" /\ ~cache.exists /\ cache.cond = NoConditions
    BY <1>1, <2>1, <2>2 DEF VersionsInv, BornInv, Blank
  <2>4. QED BY <1>6, <2>1, <2>3 DEF Creates, LiveStep, Born
<1>7. CASE Turns
  <2>1. fsc' # Gone(fsc.uid)
    BY <1>1, <1>7, GoneSays DEF Turns, Over, VersionsInv, BornInv
  <2>2. QED BY <1>7, <2>1 DEF Turns, LiveStep, Edited, DisksDone
<1>8. QED BY <1>1, <1>2, <1>3, <1>4, <1>5, <1>6, <1>7 DEF ClaimStep, LiveStep

\* With "edit" among the upsets no owned LocalDisk is found to fail.
Sound == "edit" \in Upsets => Failing = {}

\* Nobody deletes an object behind the controller's back or uses its disks elsewhere,
\* and disks do not fail while users may still edit the list of devices.
Gentle ==
    /\ Upsets \cap {"tamper", "foreign"} = {}
    /\ ~({"edit", "unhealthy"} \subseteq Upsets)

\* LocalDisks are only added, and keep their owners and devices.
LEMMA OwnedStays ==
    ASSUME OneClaim, "tamper" \notin Upsets, BaseInv, [Next]_vars, ~Over
    PROVE  \/ \E w \in Wwns : NewDisk(w)
           \/ /\ OwnedLDs' = OwnedLDs /\ OwnedDevices' = OwnedDevices
              /\ \A v \in Wwns : /\ ld'[v].own = ld[v].own /\ ld'[v].dev = ld[v].dev
                                 /\ (ld[v].st = "absent") <=> (ld'[v].st = "absent")
<1>1. ld \in [Wwns -> LocalDisks] /\ ~DisksGo
  BY NothingGoes DEF BaseInv, TypeOK
<1>2. CASE \E w \in Wwns : NewDisk(w)
  BY <1>2
<1>3. CASE ~\E w \in Wwns : NewDisk(w)
  <2>1. \A v \in Wwns : /\ ld'[v].own = ld[v].own /\ ld'[v].dev = ld[v].dev
                        /\ (ld[v].st = "absent") <=> (ld'[v].st = "absent")
    BY <1>1, <1>3, DiskShape DEF BaseInv, DiskStep, Reported, LocalDisks
  <2>2. OwnedLDs' = OwnedLDs
    BY <2>1 DEF OwnedLDs
  <2>3. OwnedDevices' = OwnedDevices
    BY <2>1, <2>2 DEF OwnedDevices, OwnedLDs
  <2>4. QED BY <2>1, <2>2, <2>3
<1>4. QED BY <1>2, <1>3

LEMMA DisksStay ==
    ASSUME OneClaim, Gentle, BaseInv, [Next]_vars, ~Over
    PROVE  \/ \E w \in Wwns : NewDisk(w)
           \/ /\ OwnedLDs' = OwnedLDs /\ OwnedDevices' = OwnedDevices
              /\ Sound => Sound'
<1>1. ld \in [Wwns -> LocalDisks] /\ ~DisksGo /\ "tamper" \notin Upsets
  BY NothingGoes DEF BaseInv, TypeOK, Gentle
<1>2. SUFFICES ASSUME ~\E w \in Wwns : NewDisk(w), "edit" \in Upsets, OwnedLDs' = OwnedLDs
               PROVE  Failing' \subseteq Failing
  BY <1>1, OwnedStays DEF Sound
<1>3. ASSUME NEW w \in Wwns, NEW s \in LDStates, Reported(w, s)
      PROVE  Failing' \subseteq Failing
  <2>1. s \in {"ready", "used"}
    BY <1>2, <1>3 DEF Reported, Gentle, LDStates
  <2>2. ld'[w].st = s /\ \A v \in Wwns : v # w => ld'[v].st = ld[v].st
    BY <1>1, <1>3 DEF Reported, LocalDisks
  <2>3. QED BY <1>2, <2>1, <2>2 DEF Failing, OwnedLDs
<1>4. CASE ld' = ld
  BY <1>4 DEF Failing, OwnedLDs
<1>5. QED BY <1>1, <1>2, <1>3, <1>4, DiskShape DEF BaseInv, DiskStep

LEMMA StoreStays ==
    ASSUME OneClaim, "tamper" \notin Upsets, BaseInv, [Next]_vars, ~Over
    PROVE  /\ FSExists => FSExists' /\ fs'.own = fs.own
           /\ fs'.disks = fs.disks \/ (Lays /\ fs'.disks = OwnedLDs)
           /\ FSExists' => FSExists \/ (Lays /\ fs'.own = mem.uid)
<1>1. fs \in Filesystems /\ ~StoreGoes
  BY NothingGoes DEF BaseInv, TypeOK
<1>2. CASE Lays
  BY <1>1, <1>2 DEF Lays, NewFilesystem, OwnedFS, FSExists, Filesystems
<1>3. QED BY <1>1, <1>2, StoreShape DEF BaseInv, StoreStep, StoreKept, FSExists

\* How the StorageClass comes and goes.
ScStep ==
    \/ sc = "absent" <=> sc' = "absent"
    \/ /\ sc = "absent" /\ sc' # "absent" /\ UNCHANGED <<fsc, fs>>
       /\ pc = "ensureStorageClass" /\ pc' = "recordStorageClass"
       /\ isConditionTrue(mem, "FileSystemCreated")
    \/ /\ sc # "absent" /\ sc' = "absent" /\ UNCHANGED <<fsc, fs>>
       /\ (pc = "deleteStorageClass" /\ pc' = "idle") \/ "tamper" \in Upsets

LEMMA ScShape == ASSUME [Next]_vars PROVE ScStep
<1>1. CASE sc' = sc
  BY <1>1 DEF ScStep
<1>2. CASE deleteStorageClass
  BY <1>2 DEF deleteStorageClass, EndPass, claimVars, ScStep
<1>3. CASE ensureStorageClass
  BY <1>3 DEF ensureStorageClass, reconcileExistingStorageClass, Goto, claimVars, ScStep
<1>4. CASE Tamper
  BY <1>4 DEF Tamper, Upset, claimVars, ScStep
<1>5. QED
  <2>1. CASE UNCHANGED vars
    BY <1>1, <2>1 DEF vars, childVars
  <2>2. CASE Handler
    BY <1>1, <1>2, <1>3, <2>2
    DEF Handler, Reconcile, handleFinalizers, handleDeletion, checkStorageClassUsage,
        checkFilesystemDeletionLabel, deleteFilesystem, deleteLocalDisks, removeFinalizer,
        ensureLocalDisks, createLocalDisk, recordLocalDisk, endLocalDisks,
        syncLocalDiskConditions, ensureFileSystem, recordFileSystem,
        syncFilesystemConditions, recordStorageClass, syncFSCReady, childVars
  <2>3. CASE ~Handler /\ Next
    BY <1>1, <1>4, <2>3
    DEF Next, ApiError, Crash, InformerSync, TimerFires, Resync, User, CreateClaim,
        DeleteClaim, ReleaseHold, ValidateUpdate, LabelFilesystem, ProvisionVolume,
        ReleaseVolume, Rediscover, Scale, ScaleLocalDisk, ScaleFilesystem, ScaleRemoves,
        GarbageCollect, childVars
  <2>4. QED BY <2>1, <2>2, <2>3

LEMMA ClassStays ==
    ASSUME "tamper" \notin Upsets, VersionsInv, [Next]_vars, ~Over PROVE sc # "absent" => sc' # "absent"
  BY LivePass, ScShape DEF ScStep, Cleaning, Deleting

----------------------------------------------------------------------------
(* What the informer has delivered.                                        *)

\* The cache holds the stored claim when nothing is on its way.
FreshInv == ~dirty => cache = fsc

LEMMA NextFresh == ASSUME FreshInv, [Next]_vars PROVE FreshInv'
<1>1. ASSUME UNCHANGED <<fsc, cache, dirty>> PROVE FreshInv'
  BY <1>1 DEF FreshInv
<1>2. ASSUME dirty' = TRUE PROVE FreshInv'
  BY <1>2 DEF FreshInv
<1>3. ASSUME NEW cs, NEW b, patchFSCStatus(cs, b), cache' = cache PROVE FreshInv'
  BY <1>1, <1>2, <1>3 DEF patchFSCStatus, StatusPatch, Requeue, claimVars
<1>4. ASSUME NEW t, NEW r, NEW l, updateConditionIfChanged(t, r, Goto(l)), cache' = cache
      PROVE  FreshInv'
  BY <1>1, <1>3, <1>4 DEF updateConditionIfChanged, Goto, claimVars
<1>5. ASSUME NEW t, NEW r, updateConditionIfChanged(t, r, Return), cache' = cache
      PROVE  FreshInv'
  BY <1>1, <1>3, <1>5 DEF updateConditionIfChanged, Return, claimVars
<1>6. ASSUME NEW f, patchFSCSpec(f), cache' = cache PROVE FreshInv'
  BY <1>6 DEF patchFSCSpec, Return, Requeue, claimVars, FreshInv
<1>7. ASSUME NEW r, BlockDeletion(r), cache' = cache PROVE FreshInv'
  BY <1>1, <1>3, <1>7 DEF BlockDeletion, claimVars
<1>8. CASE UNCHANGED vars
  BY <1>1, <1>8 DEF vars, claimVars, envVars
<1>9. CASE Reconcile \/ handleFinalizers \/ handleDeletion \/ removeFinalizer
           \/ checkStorageClassUsage \/ checkFilesystemDeletionLabel
  <2>1. cache' = cache
    BY <1>9 DEF Reconcile, handleFinalizers, handleDeletion, removeFinalizer,
                checkStorageClassUsage, checkFilesystemDeletionLabel, envVars
  <2>2. CASE Reconcile
    BY <1>1, <2>2, <2>1 DEF Reconcile, claimVars
  <2>3. CASE handleFinalizers \/ removeFinalizer
    BY <1>1, <1>6, <2>1, <2>3 DEF handleFinalizers, removeFinalizer, Goto, claimVars
  <2>4. CASE handleDeletion
    BY <1>1, <1>4, <2>1, <2>4 DEF handleDeletion, markDeletionRequested, Goto, claimVars
  <2>5. CASE checkStorageClassUsage \/ checkFilesystemDeletionLabel
    BY <1>1, <1>7, <2>1, <2>5
    DEF checkStorageClassUsage, checkFilesystemDeletionLabel, Goto, claimVars
  <2>6. QED BY <1>9, <2>2, <2>3, <2>4, <2>5
<1>10. CASE deleteStorageClass \/ deleteFilesystem \/ deleteLocalDisks
  <2>1. cache' = cache
    BY <1>10 DEF deleteStorageClass, deleteFilesystem, deleteLocalDisks, envVars
  <2>2. CASE deleteStorageClass
    BY <1>1, <1>4, <2>1, <2>2 DEF deleteStorageClass, Goto, claimVars
  <2>3. CASE deleteFilesystem
    BY <1>1, <1>4, <2>1, <2>3 DEF deleteFilesystem, Goto, claimVars
  <2>4. CASE deleteLocalDisks
    BY <1>1, <1>4, <2>1, <2>4 DEF deleteLocalDisks, Goto, claimVars
  <2>5. QED BY <1>10, <2>2, <2>3, <2>4
<1>11. CASE ensureLocalDisks \/ createLocalDisk \/ recordLocalDisk \/ endLocalDisks
            \/ syncLocalDiskConditions
  <2>1. cache' = cache
    BY <1>11 DEF ensureLocalDisks, createLocalDisk, recordLocalDisk, endLocalDisks,
                 syncLocalDiskConditions, envVars
  <2>2. CASE ensureLocalDisks
    BY <1>1, <1>3, <2>1, <2>2 DEF ensureLocalDisks, handleValidationError, Goto, claimVars
  <2>3. CASE createLocalDisk
    BY <1>1, <1>3, <2>1, <2>3 DEF createLocalDisk, handleResourceCreationError, Goto, claimVars
  <2>4. CASE recordLocalDisk
    BY <1>1, <1>2, <2>1, <2>4 DEF recordLocalDisk, StatusPatch, Requeue, claimVars
  <2>5. CASE endLocalDisks
    BY <1>1, <2>1, <2>5 DEF endLocalDisks, Return, Goto, claimVars
  <2>6. CASE syncLocalDiskConditions
    BY <1>1, <1>4, <2>1, <2>6 DEF syncLocalDiskConditions, Goto, claimVars
  <2>7. QED BY <1>11, <2>2, <2>3, <2>4, <2>5, <2>6
<1>12. CASE ensureFileSystem \/ recordFileSystem \/ syncFilesystemConditions
            \/ ensureStorageClass \/ recordStorageClass \/ syncFSCReady
  <2>1. cache' = cache
    BY <1>12 DEF ensureFileSystem, recordFileSystem, syncFilesystemConditions,
                 ensureStorageClass, recordStorageClass, syncFSCReady, envVars
  <2>2. CASE ensureFileSystem
    BY <1>1, <1>3, <2>1, <2>2
    DEF ensureFileSystem, handleResourceCreationError, Goto, Return, claimVars
  <2>3. CASE recordFileSystem \/ syncFSCReady
    BY <1>5, <2>1, <2>3 DEF recordFileSystem, syncFSCReady
  <2>4. CASE syncFilesystemConditions
    BY <1>1, <1>4, <2>1, <2>4 DEF syncFilesystemConditions, Goto, claimVars
  <2>5. CASE ensureStorageClass
    BY <1>1, <1>3, <1>4, <2>1, <2>5
    DEF ensureStorageClass, handleResourceCreationError, Goto, claimVars
  <2>6. CASE recordStorageClass
    BY <1>4, <1>5, <2>1, <2>6 DEF recordStorageClass
  <2>7. QED BY <1>12, <2>2, <2>3, <2>4, <2>5, <2>6
<1>13. CASE CreateClaim \/ DeleteClaim \/ ReleaseHold \/ ValidateUpdate
  BY <1>2, <1>13 DEF CreateClaim, DeleteClaim, ReleaseHold, ValidateUpdate
<1>14. CASE Crash \/ InformerSync
  BY <1>14 DEF Crash, InformerSync, FreshInv
<1>15. CASE \/ ApiError \/ TimerFires \/ Resync \/ LabelFilesystem \/ ProvisionVolume
            \/ ReleaseVolume \/ Tamper \/ Rediscover \/ Scale \/ GarbageCollect
  BY <1>1, <1>15
  DEF ApiError, Requeue, TimerFires, Resync, LabelFilesystem, ProvisionVolume, ReleaseVolume,
      Tamper, Rediscover, Scale, ScaleLocalDisk, ScaleFilesystem, ScaleRemoves,
      GarbageCollect, claimVars, envVars
<1>16. QED
  BY <1>8, <1>9, <1>10, <1>11, <1>12, <1>13, <1>14, <1>15 DEF Next, Handler, User

----------------------------------------------------------------------------
(* The claim that says it is Ready.                                        *)

\* Every version of the claim a pass reads is the newest, or a disk that is listed
\* can always be created.
Steady ==
    PromptInformer \/
    ("create" \notin FaultKinds /\ Discoveries \subseteq [Nodes -> [Devices -> Wwns]])

Locked(c) == "edit" \in Upsets => DisksDone(c)
Settled(c) == DisksDone(c) /\ StoreDone(c)
SaysReady(c) == c.cond["Ready"] = "Succeeded"

NoForeign == \A w \in Wwns : ld[w].st # "foreign"

\* What is begun stays begun, in the versions that come later.
LagInv ==
    /\ Begun(mem) => Begun(cache) /\ Begun(fsc)
    /\ PromptInformer \/ (Begun(cache) => Begun(fsc))

\* LocalDisks are created only for a claim that has none in the making.
LoopInv == pc \in {"createLocalDisk", "recordLocalDisk"} => ~Begun(mem)

\* From the time the Filesystem exists no pass creates LocalDisks any more.
FormedInv ==
    FSExists =>
        /\ fsc.uid # 0 /\ fs.own # 0 /\ OwnedLDs # {} /\ Sound
        /\ Begun(cache) /\ Begun(fsc) /\ (pc # "idle" => Begun(mem))

SyncInv == pc = "ensureFileSystem" /\ DisksDone(mem) /\ OwnedLDs # {} => Sound

FoundInv == StoreDone(mem) \/ StoreDone(cache) \/ StoreDone(fsc) => FSExists

\* Once a version is settled the list of devices is no longer edited.
SettledInv ==
    /\ Settled(cache) => Locked(fsc) /\ fsc.devices = cache.devices
    /\ Settled(mem) => /\ Locked(cache) /\ Locked(fsc)
                       /\ mem.devices = fsc.devices /\ cache.devices = fsc.devices

\* What a pass has found, by the handler it has come to.
Classed == {"recordStorageClass", "recordDrift", "syncFSCReady"}
Stored == Classed \cup {"syncFilesystemConditions", "ensureStorageClass"}
Disked == Stored \cup {"syncLocalDiskConditions", "ensureFileSystem", "recordFileSystem"}

CheckedInv ==
    Settled(mem) =>
        /\ pc \in Disked => SameDevices(mem)
        /\ pc \in Stored => fs.disks = OwnedLDs
        /\ pc \in Classed => sc # "absent"

Backed ==
    /\ Locked(fsc) /\ Locked(cache) /\ SameDevices(fsc)
    /\ FSExists /\ fs.disks = OwnedLDs /\ sc # "absent"

PromiseInv == SaysReady(fsc) \/ SaysReady(cache) => Backed

ReadyInv ==
    Over \/ (/\ NoForeign /\ LagInv /\ LoopInv /\ FormedInv /\ SyncInv /\ FoundInv
             /\ SettledInv /\ CheckedInv /\ PromiseInv)

LEMMA BlankSays ==
    ASSUME NEW c, c.cond = NoConditions
    PROVE  ~Begun(c) /\ ~DisksDone(c) /\ ~StoreDone(c) /\ ~SaysReady(c)
<1>1. c.cond["LocalDiskCreated"] = "None" /\ c.cond["FileSystemCreated"] = "None"
      /\ c.cond["Ready"] = "None"
  BY DEF NoConditions, CondTypes
<1>2. QED BY <1>1 DEF Begun, DisksDone, StoreDone, SaysReady, isConditionTrue, TrueReasons,
                      InProgress

LEMMA DoneBegun == \A c : DisksDone(c) => Begun(c)
  BY DEF DisksDone, Begun, isConditionTrue

\* The LocalDisks of a status write.
LEMMA WrittenDisks ==
    ASSUME ProvisionWrite, NoForeign
    PROVE  \/ fsc'.cond["LocalDiskCreated"] = cache.cond["LocalDiskCreated"]
           \/ pc \in {"createLocalDisk", "recordLocalDisk"} /\ DisksFit(fsc'.cond["LocalDiskCreated"])
           \/ /\ pc = "syncLocalDiskConditions"
              /\ \/ fsc'.cond["LocalDiskCreated"] = "Waiting" /\ OwnedLDs = {}
                 \/ fsc'.cond["LocalDiskCreated"] = "Succeeded"
                 \/ fsc'.cond["LocalDiskCreated"] = "NotReady" /\ Failing # {}
<1>1. "LocalDiskCreated" \in CondTypes
  BY DEF CondTypes
<1>2. \/ fsc'.cond["LocalDiskCreated"] = cache.cond["LocalDiskCreated"]
      \/ DisksFit(fsc'.cond["LocalDiskCreated"])
  BY <1>1 DEF ProvisionWrite, Writes, Fits
<1>3. ~\E w \in Failing : ld[w].st = "foreign"
  BY DEF NoForeign, Failing, OwnedLDs
<1>4. QED BY <1>2, <1>3 DEF DisksFit

\* A disk that is listed can be created.
LEMMA NoneFails ==
    ASSUME TypeOK, Steady, ~PromptInformer, pc = "createLocalDisk" PROVE ~DisksFit("Failed")
<1>1. SUFFICES ASSUME todo # <<>>, getDeviceWWN(Head(todo)) \notin Wwns PROVE FALSE
  BY DEF Steady, DisksFit
<1>2. node \in Nodes /\ todo \in Seq(Devices) /\ discovery \in [Nodes -> [Devices -> Wwns]]
  BY DEF TypeOK, Steady
<1>3. Head(todo) \in Devices
  BY <1>1, <1>2
<1>4. QED BY <1>1, <1>2, <1>3 DEF getDeviceWWN

LEMMA WriteBegun ==
    ASSUME TypeOK, Steady, NoForeign, LoopInv, ProvisionWrite, Begun(cache),
           Begun(mem) \/ ~PromptInformer
    PROVE  Begun(fsc)'
<1>1. {"Waiting", "Succeeded", "NotReady", "Creating"} \subseteq TrueReasons \cup InProgress
  BY DEF TrueReasons, InProgress
<1>2. CASE pc \in {"createLocalDisk", "recordLocalDisk"} /\ DisksFit(fsc'.cond["LocalDiskCreated"])
  <2>1. ~PromptInformer
    BY <1>2 DEF LoopInv
  <2>2. fsc'.cond["LocalDiskCreated"] # "Failed"
    BY <1>2, <2>1, NoneFails DEF DisksFit
  <2>3. fsc'.cond["LocalDiskCreated"] = "Creating"
    BY <1>2, <2>2 DEF DisksFit
  <2>4. QED BY <1>1, <2>3 DEF Begun
<1>3. QED BY <1>1, <1>2, WrittenDisks DEF Begun

\* A status write leaves LocalDiskCreated true where the Filesystem exists.
LEMMA WriteLocked ==
    ASSUME NoForeign, LoopInv, FormedInv, FSExists, ProvisionWrite, Locked(cache)
    PROVE  Locked(fsc)'
<1>1. pc # "idle"
  BY DEF ProvisionWrite, Provisioning
<1>2. pc \notin {"createLocalDisk", "recordLocalDisk"} /\ OwnedLDs # {} /\ Sound
  BY <1>1 DEF LoopInv, FormedInv
<1>3. "edit" \in Upsets => fsc'.cond["LocalDiskCreated"] \in {cache.cond["LocalDiskCreated"], "Succeeded"}
  BY <1>2, WrittenDisks DEF Sound
<1>4. "Succeeded" \in TrueReasons
  BY DEF TrueReasons
<1>5. QED BY <1>3, <1>4 DEF Locked, DisksDone, isConditionTrue

LEMMA NextForeign ==
    ASSUME OneClaim, Gentle, BaseInv, NoForeign, [Next]_vars, ~Over PROVE NoForeign'
<1>1. ld \in [Wwns -> LocalDisks] /\ ~DisksGo
  BY NothingGoes DEF BaseInv, TypeOK, Gentle
<1>2. CASE \E w \in Wwns : NewDisk(w)
  BY <1>1, <1>2 DEF NewDisk, NewLocalDisk, NoForeign
<1>3. CASE \E w \in Wwns : \E s \in LDStates : Reported(w, s)
  BY <1>1, <1>3 DEF Reported, NoForeign, Gentle, LocalDisks
<1>4. QED BY <1>1, <1>2, <1>3, DiskShape DEF BaseInv, DiskStep, NoForeign

LEMMA NextLag ==
    ASSUME BaseInv, Steady, NoForeign, LagInv, LoopInv, FreshInv, LiveStep, ClaimStep
    PROVE  LagInv'
<1>1. cache' = cache \/ (cache' = fsc /\ fsc' = fsc)
  BY CopiesFrom
<1>2. mem' \in {mem, Gone(0)} \/ (mem' = cache /\ cache' = cache /\ fsc' = fsc)
  BY CopiesFrom
<1>3. ~Begun(Gone(0))
  BY GoneSays, BlankSays
<1>4. CASE fsc' = fsc
  <2>1. mem' \in {mem, Gone(0)} \/ (mem' = cache /\ (PromptInformer => cache = fsc))
    BY DEF ClaimStep, Still, Syncs, Starts, Moves, Ends, Ended, MarkWrite, BlockWrite,
           StageWrite, ProvisionWrite, Writes, Creates, Turns, FreshInv
  <2>2. QED BY <1>1, <1>2, <1>3, <1>4, <2>1 DEF LagInv, Begun
<1>5. CASE ProvisionWrite
  <2>1. cache' = cache /\ mem' \in {mem, Gone(0)}
    BY <1>5 DEF ProvisionWrite, Writes, Ended
  <2>2. Begun(cache) /\ (Begun(mem) \/ ~PromptInformer) => Begun(fsc)'
    BY <1>5, WriteBegun DEF BaseInv
  <2>3. QED BY <1>3, <2>1, <2>2 DEF LagInv, Begun
<1>6. CASE Edited
  BY <1>3, <1>6 DEF Edited, Ended, LagInv, Begun
<1>7. CASE Born
  <2>1. ~Begun(cache)
    BY <1>7, BlankSays DEF Born
  <2>2. QED BY <1>7, <2>1 DEF Born, LagInv, Begun
<1>8. QED BY <1>4, <1>5, <1>6, <1>7 DEF LiveStep

LEMMA NextLoop == ASSUME LoopInv, PassStep PROVE LoopInv'
  BY DEF PassStep, LoopInv, Stays, Early, Cleaning, Deleting, EntersLoop, NewDisk, Records,
         LeavesLoop, SkipsLoop, DisksChecked, StoreChecked, ClassChecked, GoesOn, Begun

\* A step that creates a LocalDisk finds no Filesystem.
LEMMA NoNewDisk ==
    ASSUME LoopInv, FormedInv, FSExists PROVE ~\E w \in Wwns : NewDisk(w)
  BY DEF LoopInv, FormedInv, NewDisk

LEMMA NextFormed ==
    ASSUME OneClaim, Gentle, Steady, BaseInv, NoForeign, LagInv, LoopInv, FormedInv, SyncInv,
           [Next]_vars, LiveStep, ClaimStep, ~Over
    PROVE  FormedInv'
<1>1. SUFFICES ASSUME FSExists' PROVE FormedInv'
  BY DEF FormedInv
<1>2. CASE ~FSExists
  <2>1. Lays /\ fs'.own = mem.uid
    BY <1>1, <1>2, StoreStays DEF Gentle
  <2>2. fs'.own # 0 /\ fsc.uid # 0
    BY <2>1 DEF Lays, BaseInv, VersionsInv, BornInv, KnownInv
  <2>3. Sound /\ OwnedLDs # {} /\ Begun(mem) /\ Begun(cache) /\ Begun(fsc)
    BY <2>1, DoneBegun DEF Lays, SyncInv, LagInv
  <2>4. OwnedLDs' = OwnedLDs /\ (Sound => Sound')
    BY <2>1 DEF Lays, OwnedLDs, Sound, Failing
  <2>5. fsc' = fsc /\ cache' = cache
    BY <2>1 DEF Lays
  <2>6. mem' \in {mem, cache} \/ pc' = "idle"
    BY DEF ClaimStep, Still, Syncs, Starts, Moves, Ends, Ended, MarkWrite, BlockWrite,
           StageWrite, ProvisionWrite, Writes, Creates, Turns
  <2>7. QED BY <2>2, <2>3, <2>4, <2>5, <2>6 DEF FormedInv, Begun
<1>3. CASE FSExists
  <2>1. /\ fsc.uid # 0 /\ fs.own # 0 /\ OwnedLDs # {} /\ Sound
        /\ Begun(cache) /\ Begun(fsc) /\ (pc # "idle" => Begun(mem))
    BY <1>3 DEF FormedInv
  <2>2. OwnedLDs' # {} /\ Sound' /\ fs'.own # 0
    BY <1>3, <2>1, DisksStay, StoreStays, NoNewDisk DEF Gentle
  <2>3. fsc'.uid # 0
    <3>1. ClaimOK /\ fsc.uid \in Nat
      BY TypeParts, Bounds DEF BaseInv, TypeOK, Claims
    <3>2. QED BY <2>1, <3>1, NextUid
  <2>4. Begun(fsc)'
    <3>1. CASE ProvisionWrite
      <4>1. pc # "idle"
        BY <3>1 DEF ProvisionWrite, Provisioning
      <4>2. QED BY <2>1, <3>1, <4>1, WriteBegun DEF BaseInv
    <3>2. QED BY <2>1, <3>1 DEF LiveStep, Edited, Born, Begun
  <2>5. cache' \in {cache, fsc}
    BY CopiesFrom
  <2>6. pc' = "idle" \/ (mem' = mem /\ pc # "idle") \/ mem' = cache
    BY DEF ClaimStep, Still, Syncs, Starts, Moves, Ends, Ended, MarkWrite, BlockWrite,
           StageWrite, ProvisionWrite, Writes, Creates, Turns
  <2>7. QED BY <2>1, <2>2, <2>3, <2>4, <2>5, <2>6 DEF FormedInv, Begun
<1>4. QED BY <1>2, <1>3

LEMMA NextSync ==
    ASSUME OneClaim, Gentle, BaseInv, SyncInv, [Next]_vars, ~Over PROVE SyncInv'
<1>1. SUFFICES ASSUME pc' = "ensureFileSystem", DisksDone(mem)', OwnedLDs' # {} PROVE Sound'
  BY DEF SyncInv
<1>2. Stays \/ DisksChecked
  BY <1>1, PassShape
  DEF PassStep, Early, Cleaning, Deleting, EntersLoop, NewDisk, Records, LeavesLoop, SkipsLoop,
      StoreChecked, ClassChecked, GoesOn
<1>3. mem' = mem /\ ~\E w \in Wwns : NewDisk(w)
  BY <1>1, <1>2 DEF Stays, DisksChecked, NewDisk
<1>4. OwnedLDs # {} /\ (Sound => Sound') /\ DisksDone(mem)
  BY <1>1, <1>3, DisksStay DEF DisksDone
<1>5. QED BY <1>1, <1>2, <1>4 DEF Stays, DisksChecked, SyncInv, Sound

LEMMA NextFound ==
    ASSUME OneClaim, "tamper" \notin Upsets, BaseInv, FoundInv, [Next]_vars, LiveStep, ClaimStep, ~Over
    PROVE  FoundInv'
<1>1. FSExists => FSExists'
  BY StoreStays
<1>2. cache' \in {cache, fsc} /\ mem' \in {mem, cache, Gone(0)} /\ ~StoreDone(Gone(0))
  BY CopiesFrom, GoneSays, BlankSays
<1>3. StoreDone(fsc)' => FSExists
  <2>1. CASE ProvisionWrite
    <3>1. "FileSystemCreated" \in CondTypes
      BY DEF CondTypes
    <3>2. \/ fsc'.cond["FileSystemCreated"] = cache.cond["FileSystemCreated"]
          \/ fsc'.cond["FileSystemCreated"] \in TrueReasons => FSExists
      BY <2>1, <3>1 DEF ProvisionWrite, Writes, Fits
    <3>3. QED BY <3>2 DEF FoundInv, StoreDone, isConditionTrue
  <2>2. QED BY <2>1 DEF LiveStep, Edited, Born, FoundInv, StoreDone, isConditionTrue
<1>4. QED BY <1>1, <1>2, <1>3 DEF FoundInv, StoreDone

LEMMA NextSettled ==
    ASSUME NoForeign, LoopInv, FormedInv, FoundInv, SettledInv, LiveStep, ClaimStep
    PROVE  SettledInv'
<1>1. Settled(mem) \/ Settled(cache) => FSExists /\ fsc.uid # 0
  BY DEF Settled, FoundInv, FormedInv
<1>2. CASE fsc' = fsc
  <2>1. cache' \in {cache, fsc} /\ (mem' \in {mem, Gone(0)} \/ (mem' = cache /\ cache' = cache))
    BY CopiesFrom
  <2>2. ~Settled(Gone(0))
    BY GoneSays, BlankSays DEF Settled
  <2>3. Settled(cache)' => Locked(fsc)' /\ fsc'.devices = cache'.devices
    BY <1>2, <2>1 DEF SettledInv, Settled, Locked
  <2>4. QED BY <1>2, <2>1, <2>2, <2>3 DEF SettledInv, Settled, Locked
<1>3. CASE ProvisionWrite
  <2>1. cache' = cache /\ mem' \in {mem, Gone(0)} /\ fsc'.devices = fsc.devices
    BY <1>3 DEF ProvisionWrite, Writes, Ended
  <2>2. ~Settled(Gone(0))
    BY GoneSays, BlankSays DEF Settled
  <2>3. FSExists /\ Locked(cache) => Locked(fsc)'
    BY <1>3, WriteLocked
  <2>4. Settled(cache) => Locked(cache)
    BY DEF Settled, Locked
  <2>5. QED BY <1>1, <2>1, <2>2, <2>3, <2>4 DEF SettledInv, Settled, Locked
<1>4. CASE Edited
  <2>1. ~Settled(Gone(0)) /\ cache' = cache /\ mem' \in {mem, Gone(0)}
    BY <1>4, GoneSays, BlankSays DEF Settled, Edited, Ended
  <2>2. Locked(fsc) => Locked(fsc)' /\ fsc'.devices = fsc.devices
    BY <1>4 DEF Edited, Locked, DisksDone, isConditionTrue
  <2>3. QED BY <2>1, <2>2 DEF SettledInv, Settled, Locked
<1>5. CASE Born
  BY <1>1, <1>5 DEF Born, SettledInv, Settled
<1>6. QED BY <1>2, <1>3, <1>4, <1>5 DEF LiveStep

LEMMA NextChecked ==
    ASSUME OneClaim, Gentle, BaseInv, LoopInv, FormedInv, FoundInv, CheckedInv,
           [Next]_vars, ClaimStep, ~Over
    PROVE  CheckedInv'
<1>1. SUFFICES ASSUME Settled(mem)', pc' \in Disked PROVE CheckedInv'
  BY DEF CheckedInv, Disked, Stored
<1>2. pc' \notin Early
  BY <1>1 DEF Early, Cleaning, Deleting, Disked, Stored, Classed
<1>3. mem' = mem
  BY <1>2, PassShape
  DEF PassStep, Stays, EntersLoop, NewDisk, Records, LeavesLoop, SkipsLoop, DisksChecked,
      StoreChecked, ClassChecked, GoesOn
<1>4. Settled(mem) /\ FSExists
  BY <1>1, <1>3 DEF Settled, DisksDone, StoreDone, FoundInv
<1>5. /\ OwnedLDs' = OwnedLDs /\ OwnedDevices' = OwnedDevices /\ OwnedLDs # {}
      /\ SameDevices(mem)' = SameDevices(mem)
  BY <1>3, <1>4, NoNewDisk, DisksStay DEF SameDevices, SpecDevices, FormedInv
<1>6. sc # "absent" => sc' # "absent"
  BY ClassStays DEF BaseInv, Gentle
<1>7. fs'.disks = fs.disks \/ (pc = "ensureFileSystem" /\ Lays)
  BY StoreStays DEF Gentle, Lays
<1>8. CASE Stays
  BY <1>4, <1>5, <1>6, <1>7, <1>8 DEF Stays, CheckedInv, Stored, Classed
<1>9. CASE SkipsLoop
  BY <1>4, <1>5, <1>9 DEF SkipsLoop, Settled, CheckedInv, Stored, Classed
<1>10. CASE DisksChecked
  BY <1>4, <1>5, <1>10 DEF DisksChecked, CheckedInv, Disked, Stored, Classed
<1>11. CASE StoreChecked
  BY <1>4, <1>5, <1>11 DEF StoreChecked, childVars, Settled, CheckedInv, Disked, Stored, Classed
<1>12. CASE ClassChecked
  BY <1>4, <1>5, <1>12 DEF ClassChecked, Settled, CheckedInv, Disked, Stored, Classed
<1>13. CASE GoesOn
  <2>1. (pc = "ensureFileSystem" /\ pc' = "recordFileSystem") \/ fs'.disks = fs.disks
    BY <1>7, <1>13 DEF GoesOn
  <2>2. QED BY <1>4, <1>5, <1>6, <1>13, <2>1 DEF GoesOn, CheckedInv, Disked, Stored, Classed
<1>14. ~EntersLoop /\ ~Records /\ ~LeavesLoop /\ ~(\E w \in Wwns : NewDisk(w))
  BY <1>4, NoNewDisk DEF EntersLoop, Records, LeavesLoop, LoopInv, FormedInv
<1>15. QED BY <1>2, <1>8, <1>9, <1>10, <1>11, <1>12, <1>13, <1>14, PassShape DEF PassStep

LEMMA NextPromise ==
    ASSUME OneClaim, Gentle, BaseInv, NoForeign, LoopInv, FormedInv, FoundInv, SettledInv,
           CheckedInv, PromiseInv, [Next]_vars, LiveStep, ClaimStep, ~Over
    PROVE  PromiseInv'
<1>1. ASSUME FSExists, fs.disks = OwnedLDs, sc # "absent"
      PROVE  FSExists' /\ fs'.disks = OwnedLDs' /\ sc' # "absent" /\ OwnedDevices' = OwnedDevices
  BY <1>1, NoNewDisk, DisksStay, StoreStays, ClassStays DEF BaseInv, Gentle
<1>2. ASSUME Backed, Locked(fsc)', cache' \in {cache, fsc}, fsc'.devices = fsc.devices
      PROVE  Backed'
  BY <1>1, <1>2 DEF Backed, SameDevices, SpecDevices, Locked
<1>3. CASE fsc' = fsc
  <2>1. cache' \in {cache, fsc}
    BY CopiesFrom
  <2>2. SaysReady(fsc)' \/ SaysReady(cache)' => Backed
    BY <1>3, <2>1 DEF PromiseInv, SaysReady
  <2>3. QED BY <1>2, <1>3, <2>1, <2>2 DEF PromiseInv, Backed, Locked
<1>4. CASE ProvisionWrite
  <2>1. cache' = cache /\ fsc'.devices = fsc.devices
    BY <1>4 DEF ProvisionWrite, Writes
  <2>2. SaysReady(fsc)' => SaysReady(cache) \/ (pc = "syncFSCReady" /\ AllTrue(mem))
    BY <1>4, CondNames DEF ProvisionWrite, Writes, Fits, ReadyFits, SaysReady
  <2>3. CASE pc = "syncFSCReady" /\ AllTrue(mem)
    <3>1. Settled(mem)
      BY <2>3 DEF AllTrue, Settled, DisksDone, StoreDone, CondTypes
    <3>2. FSExists /\ fs.disks = OwnedLDs /\ sc # "absent" /\ SameDevices(mem)
      BY <2>3, <3>1 DEF Settled, FoundInv, CheckedInv, Disked, Stored, Classed
    <3>3. Locked(cache) /\ Locked(fsc) /\ mem.devices = fsc.devices
      BY <3>1 DEF SettledInv
    <3>4. Backed /\ Locked(fsc)'
      BY <1>4, <3>2, <3>3, WriteLocked DEF Backed, SameDevices, SpecDevices
    <3>5. QED BY <1>2, <2>1, <3>4 DEF PromiseInv
  <2>4. CASE SaysReady(cache)
    <3>1. Backed
      BY <2>4 DEF PromiseInv
    <3>2. Locked(fsc)'
      BY <1>4, <3>1, WriteLocked DEF Backed
    <3>3. QED BY <1>2, <2>1, <3>1, <3>2 DEF PromiseInv
  <2>5. QED BY <2>1, <2>2, <2>3, <2>4 DEF PromiseInv, SaysReady
<1>5. CASE Edited
  <2>1. SaysReady(fsc)' \/ SaysReady(cache)' => Backed
    BY <1>5 DEF Edited, PromiseInv, SaysReady
  <2>2. Locked(fsc) => Locked(fsc)' /\ fsc'.devices = fsc.devices
    BY <1>5 DEF Edited, Locked, DisksDone, isConditionTrue
  <2>3. QED BY <1>2, <1>5, <2>1, <2>2 DEF PromiseInv, Backed, Edited
<1>6. CASE Born
  <2>1. ~SaysReady(fsc)' /\ ~SaysReady(cache)'
    BY <1>6, BlankSays DEF Born, SaysReady
  <2>2. QED BY <2>1 DEF PromiseInv
<1>7. QED BY <1>3, <1>4, <1>5, <1>6 DEF LiveStep

LEMMA NextReady ==
    ASSUME OneClaim, Gentle, Steady, BaseInv, ReadyInv, FreshInv, TypeOK', [Next]_vars
    PROVE  ReadyInv'
<1>1. ClaimStep /\ PassStep
  BY StepShape, PassShape DEF BaseInv
<1>2. CASE Over
  BY <1>1, <1>2, OverStays, OnlyClaim DEF BaseInv, ReadyInv
<1>3. CASE ~Over /\ ~Over'
  <2>1. LiveStep
    BY <1>3, LiveShape
  <2>2. /\ NoForeign /\ LagInv /\ LoopInv /\ FormedInv /\ SyncInv /\ FoundInv
        /\ SettledInv /\ CheckedInv /\ PromiseInv
    BY <1>3 DEF ReadyInv
  <2>3. NoForeign' /\ LagInv' /\ LoopInv'
    BY <1>1, <1>3, <2>1, <2>2, NextForeign, NextLag, NextLoop
  <2>4. FormedInv' /\ SyncInv' /\ FoundInv'
    BY <1>1, <1>3, <2>1, <2>2, NextFormed, NextSync, NextFound DEF Gentle
  <2>5. SettledInv' /\ CheckedInv' /\ PromiseInv'
    BY <1>1, <1>3, <2>1, <2>2, NextSettled, NextChecked, NextPromise
  <2>6. QED BY <2>3, <2>4, <2>5 DEF ReadyInv
<1>4. QED BY <1>2, <1>3 DEF ReadyInv

\* A claim says Ready only while it has everything it promises: a LocalDisk for each
\* device of its spec and for no other, the Filesystem over exactly these disks, and the
\* StorageClass.  The status is computed from conditions that passes, crashes, failed
\* calls, edits and a cache that may lag have left (syncFSCReady), and nothing is looked
\* up again when it is written.  It holds for a claim whose name is used once, when
\* nobody deletes its objects or takes its disks, when disks do not fail while the list
\* may still be edited, and when a pass that reads an old version cannot fail to create
\* a disk.
THEOREM ReadyIsBacked ==
    ASSUME OneClaim, Gentle, Steady PROVE Spec => []ReadyBacked
<1>1. Init => ReadyInv /\ FreshInv
  <2>1. SUFFICES ASSUME Init PROVE ReadyInv /\ FreshInv
    OBVIOUS
  <2>2. /\ fsc = Gone(0) /\ cache = Gone(0) /\ mem = Gone(0) /\ fs.st = "absent"
        /\ pc = "idle"
    BY <2>1 DEF Init, NoFS
  <2>3. \A w \in Wwns : ld[w].st # "foreign"
    BY <2>1 DEF Init, NoLD
  <2>4. Gone(0).cond = NoConditions
    BY GoneSays
  <2>5. \A c \in {fsc, cache, mem} :
          ~Begun(c) /\ ~DisksDone(c) /\ ~StoreDone(c) /\ ~SaysReady(c)
    BY <2>2, <2>4, BlankSays
  <2>6. QED BY <2>2, <2>3, <2>5
            DEF ReadyInv, FreshInv, NoForeign, LagInv, LoopInv, FormedInv, FSExists, SyncInv,
                FoundInv, SettledInv, Settled, CheckedInv, PromiseInv
<1>2. BaseInv /\ ReadyInv /\ FreshInv /\ TypeOK' /\ [Next]_vars => ReadyInv' /\ FreshInv'
  BY NextReady, NextFresh
<1>3. BaseInv /\ ReadyInv => ReadyBacked
  <2>1. SUFFICES ASSUME BaseInv, ReadyInv, SaysReady(fsc) PROVE Backed
    BY DEF ReadyBacked, Backed, SaysReady, SameDevices, FSExists
  <2>2. ~Over
    BY <2>1, BlankSays DEF Over, Requested, SaysReady, BaseInv, VersionsInv, BornInv, Blank
  <2>3. QED BY <2>1, <2>2 DEF ReadyInv, PromiseInv
<1>4. "tamper" \notin Upsets
  BY DEF Gentle
<1>5. Spec => []BaseInv
  BY <1>4, BaseHolds
<1>6. Spec => []TypeOK
  BY TypeCorrect
<1>7. QED BY <1>1, <1>2, <1>3, <1>5, <1>6, PTL DEF Spec

----------------------------------------------------------------------------
(* The claim that says its list of devices was edited.                     *)

\* No restart and no failed call; nobody edits the claim, deletes its objects or
\* plugs disks in or out.
Untouched ==
    /\ FaultKinds \cap {"crash", "error", "create"} = {}
    /\ Upsets \cap {"edit", "tamper", "discovery"} = {}

\* No list names a device twice; on each node different paths are different disks,
\* whose WWN can name an object, and none that has a LocalDisk already.
Distinct ==
    /\ \A ds \in DeviceLists : \A i, j \in DOMAIN ds : ds[i] = ds[j] => i = j
    /\ \A v \in Discoveries, n \in Nodes : \A d \in Devices :
          /\ v[n][d] # BadName /\ v[n][d] \notin Preexisting
          /\ \A e \in Devices : v[n][d] = v[n][e] /\ v[n][d] # NoDisk => d = e

InLoop == pc \in {"createLocalDisk", "recordLocalDisk"}
Validated(c) == isConditionTrue(c, "DeviceValidated")
Whole == OwnedDevices = SpecDevices(fsc)

\* The disk of the claim's i-th device on the drawn node.
Disk(i) == discovery[node][mem.devices[i]]

\* The loop has k devices behind it, and a LocalDisk for each of the first m.
Behind(k) ==
    /\ k \in Nat /\ Len(mem.devices) = k + Len(todo)
    /\ \A j \in 1..Len(todo) : todo[j] = mem.devices[k + j]
Laid(m) ==
    /\ \A w \in Wwns : w \in OwnedLDs <=> \E i \in 1..m : w = Disk(i)
    /\ \A i \in 1..m : ld[Disk(i)].dev = mem.devices[i]

SameInv ==
    /\ cache.exists => cache.devices = fsc.devices
    /\ pc # "idle" => cache.exists /\ mem.devices = fsc.devices

ValidInv ==
    Validated(fsc) \/ Validated(cache) \/ (pc # "idle" /\ Validated(mem)) => validateDevices(fsc)

OursInv == \A w \in Wwns : ld[w].st # "absent" => ld[w].own # 0 \/ w \in Preexisting

\* Between two passes there are no LocalDisks or all of them.
DisksInv ==
    /\ InLoop => /\ Validated(mem)
                 /\ \E k \in Nat :
                       Behind(k) /\ (Whole \/ Laid(IF pc = "recordLocalDisk" THEN k + 1 ELSE k))
    /\ ~InLoop => OwnedLDs = {} \/ Whole

DoneInv ==
    DisksDone(fsc) \/ DisksDone(cache) \/ (pc # "idle" /\ DisksDone(mem)) => Whole

SaysEdited(c) == c.cond["Ready"] = "ImmutableFieldModified"

EditInv ==
    /\ ~SaysEdited(fsc) /\ ~SaysEdited(cache)
    /\ Over \/ (SameInv /\ ValidInv /\ OursInv /\ DisksInv /\ DoneInv)

LEMMA SameReports ==
    ASSUME "discovery" \notin Upsets, [Next]_vars PROVE discovery' = discovery
<1>1. CASE UNCHANGED vars
  BY <1>1 DEF vars, envVars
<1>2. CASE Handler
  BY <1>2
  DEF Handler, Reconcile, handleFinalizers, handleDeletion, checkStorageClassUsage,
      checkFilesystemDeletionLabel, deleteStorageClass, deleteFilesystem, deleteLocalDisks,
      removeFinalizer, ensureLocalDisks, createLocalDisk, recordLocalDisk, endLocalDisks,
      syncLocalDiskConditions, ensureFileSystem, recordFileSystem, syncFilesystemConditions,
      ensureStorageClass, recordStorageClass, syncFSCReady, envVars
<1>3. CASE ~Handler /\ Next
  BY <1>3
  DEF Next, ApiError, Crash, InformerSync, TimerFires, Resync, User, CreateClaim, DeleteClaim,
      ReleaseHold, ValidateUpdate, LabelFilesystem, ProvisionVolume, ReleaseVolume, Tamper,
      Rediscover, Upset, Scale, ScaleLocalDisk, ScaleFilesystem, ScaleRemoves, GarbageCollect,
      envVars
<1>4. QED BY <1>1, <1>2, <1>3

\* How a pass leaves the loop without going on.
LEMMA LoopExit ==
    ASSUME Untouched, [Next]_vars, InLoop, pc' \in Early
    PROVE  \/ pc = "createLocalDisk" /\ todo = <<>>
           \/ pc = "createLocalDisk" /\ todo # <<>> /\ getDeviceWWN(Head(todo)) \notin Wwns
           \/ NotFound
<1>1. pc' # pc
  BY DEF InLoop, Early, Cleaning, Deleting
<1>2. CASE Handler
  BY <1>1, <1>2
  DEF InLoop, Early, Cleaning, Deleting, Handler, Reconcile, handleFinalizers, handleDeletion,
      checkStorageClassUsage, checkFilesystemDeletionLabel, deleteStorageClass,
      deleteFilesystem, deleteLocalDisks, removeFinalizer, ensureLocalDisks, createLocalDisk,
      recordLocalDisk, endLocalDisks, syncLocalDiskConditions, ensureFileSystem,
      recordFileSystem, syncFilesystemConditions, ensureStorageClass, recordStorageClass,
      syncFSCReady, Goto, CanFail, Untouched
<1>3. ~ApiError /\ ~Crash
  BY DEF ApiError, Crash, CanFail, Untouched
<1>4. CASE ~Handler /\ Next
  BY <1>1, <1>3, <1>4
  DEF Next, InformerSync, TimerFires, Resync, User, CreateClaim, DeleteClaim, ReleaseHold,
      ValidateUpdate, LabelFilesystem, ProvisionVolume, ReleaseVolume, Tamper, Rediscover,
      Scale, ScaleLocalDisk, ScaleFilesystem, ScaleRemoves, GarbageCollect, passVars
<1>5. QED BY <1>1, <1>2, <1>4 DEF vars, passVars

\* The live claim keeps its list of devices, except when it is born.
LEMMA SameList ==
    ASSUME Untouched, LiveStep PROVE fsc'.devices = fsc.devices \/ Born
  BY DEF LiveStep, Edited, Untouched, ProvisionWrite, Writes

LEMMA NextSame ==
    ASSUME Untouched, BaseInv, SameInv, LiveStep, ClaimStep, ~Over PROVE SameInv'
<1>1. pc # "idle" => fsc.exists
  BY DEF BaseInv, VersionsInv, BornInv, KnownInv, Over
<1>2. CASE Born
  BY <1>2 DEF Born, SameInv
<1>3. CASE fsc'.devices = fsc.devices
  <2>1. cache' = cache \/ cache' = fsc
    BY CopiesFrom
  <2>2. pc' = "idle" \/ (mem' = mem /\ pc # "idle") \/ (mem' = cache /\ cache' = cache /\ cache.exists)
    BY DEF ClaimStep, Still, Syncs, Starts, Moves, Ends, Ended, MarkWrite, BlockWrite,
           StageWrite, ProvisionWrite, Writes, Creates, Turns
  <2>3. QED BY <1>1, <1>3, <2>1, <2>2 DEF SameInv
<1>4. QED BY <1>2, <1>3, SameList

LEMMA NextValid ==
    ASSUME Untouched, SameInv, ValidInv, [Next]_vars, LiveStep, ClaimStep PROVE ValidInv'
<1>1. discovery' = discovery
  BY SameReports DEF Untouched
<1>2. CASE Born
  <2>1. \A c : c.cond = NoConditions => ~Validated(c)
    BY DEF NoConditions, Validated, isConditionTrue, CondTypes, TrueReasons
  <2>2. QED BY <1>2, <2>1 DEF Born, ValidInv
<1>3. CASE fsc'.devices = fsc.devices
  <2>1. validateDevices(fsc)' = validateDevices(fsc)
    BY <1>1, <1>3 DEF validateDevices, SpecDevices
  <2>2. cache' \in {cache, fsc}
    BY CopiesFrom
  <2>3. pc' = "idle" \/ (mem' = mem /\ pc # "idle") \/ mem' = cache
    BY DEF ClaimStep, Still, Syncs, Starts, Moves, Ends, Ended, MarkWrite, BlockWrite,
           StageWrite, ProvisionWrite, Writes, Creates, Turns
  <2>4. Validated(fsc)' => validateDevices(fsc)
    <3>1. CASE ProvisionWrite
      <4>1. "DeviceValidated" \in CondTypes
        BY DEF CondTypes
      <4>2. \/ fsc'.cond["DeviceValidated"] = cache.cond["DeviceValidated"]
            \/ fsc'.cond["DeviceValidated"] \in TrueReasons =>
                  pc = "ensureLocalDisks" /\ validateDevices(mem)
        BY <3>1, <4>1 DEF ProvisionWrite, Writes, Fits
      <4>3. pc # "idle" => (validateDevices(mem) <=> validateDevices(fsc))
        BY DEF SameInv, validateDevices, SpecDevices
      <4>4. QED BY <4>2, <4>3 DEF ValidInv, Validated, isConditionTrue
    <3>2. QED BY <3>1 DEF LiveStep, Edited, Born, ValidInv, Validated, isConditionTrue
  <2>5. QED BY <2>1, <2>2, <2>3, <2>4 DEF ValidInv, Validated
<1>4. QED BY <1>2, <1>3, SameList

LEMMA NextOurs ==
    ASSUME OneClaim, Untouched, BaseInv, OursInv, [Next]_vars, ~Over PROVE OursInv'
<1>1. ld \in [Wwns -> LocalDisks] /\ "tamper" \notin Upsets
  BY DEF BaseInv, TypeOK, Untouched
<1>2. CASE \E w \in Wwns : NewDisk(w)
  <2>1. mem.uid # 0
    BY <1>2 DEF NewDisk, BaseInv, VersionsInv, BornInv
  <2>2. QED BY <1>1, <1>2, <2>1 DEF NewDisk, NewLocalDisk, OursInv
<1>3. QED BY <1>1, <1>2, OwnedStays DEF OursInv

\* What the loop finds behind the claim's devices: one disk each, none with a LocalDisk
\* of somebody else.
LEMMA DisksApart ==
    ASSUME TypeOK, Distinct, SameInv, ValidInv, DisksInv, InLoop
    PROVE  \A i \in DOMAIN mem.devices :
              /\ Disk(i) \in Wwns \ Preexisting
              /\ \A j \in DOMAIN mem.devices : Disk(i) = Disk(j) => i = j
<1>1. SUFFICES ASSUME NEW i \in DOMAIN mem.devices
               PROVE  /\ Disk(i) \in Wwns \ Preexisting
                      /\ \A j \in DOMAIN mem.devices : Disk(i) = Disk(j) => i = j
  OBVIOUS
<1>2. node \in Nodes /\ mem.devices \in DeviceLists \cup {<<>>} /\ discovery \in Discoveries
  BY DEF TypeOK, InLoop, Claims
<1>3. mem.devices \in DeviceLists
  BY <1>1, <1>2
<1>4. DeviceLists \subseteq Seq(Devices)
      /\ Discoveries \subseteq [Nodes -> [Devices -> Wwns \cup {NoDisk, BadName}]]
  BY ConstantsAssumption
<1>5. \A j \in DOMAIN mem.devices : mem.devices[j] \in Devices
  BY <1>3, <1>4
<1>6. validateDevices(fsc) /\ mem.devices = fsc.devices
  BY DEF DisksInv, InLoop, ValidInv, SameInv
<1>7. \A j \in DOMAIN mem.devices : Disk(j) # NoDisk
  BY <1>2, <1>6 DEF validateDevices, SpecDevices, Disk
<1>8. Disk(i) \in Wwns \ Preexisting
  BY <1>2, <1>4, <1>5, <1>7 DEF Disk, Distinct
<1>9. \A j \in DOMAIN mem.devices : Disk(i) = Disk(j) => i = j
  BY <1>1, <1>2, <1>3, <1>5, <1>7 DEF Disk, Distinct
<1>10. QED BY <1>8, <1>9

\* The device the loop is at.
LEMMA AtHand ==
    ASSUME TypeOK, NEW k, Behind(k), todo # <<>>
    PROVE  /\ k + 1 \in DOMAIN mem.devices /\ Head(todo) = mem.devices[k + 1]
           /\ getDeviceWWN(Head(todo)) = Disk(k + 1)
<1>1. todo \in Seq(Devices) /\ Len(todo) \in Nat /\ Len(todo) >= 1 /\ Head(todo) = todo[1]
  BY DEF TypeOK
<1>2. mem.devices \in Seq(Devices)
  BY ListsOfDevices DEF TypeOK, Claims
<1>3. k \in Nat /\ Len(mem.devices) = k + Len(todo) /\ todo[1] = mem.devices[k + 1]
  BY <1>1 DEF Behind
<1>4. QED BY <1>1, <1>2, <1>3 DEF getDeviceWWN, Disk

\* The loop that is through has made a LocalDisk for each device.
LEMMA LoopThrough ==
    ASSUME TypeOK, SameInv, InLoop, NEW k, Behind(k), Laid(k), todo = <<>>,
           \A i \in DOMAIN mem.devices : Disk(i) \in Wwns
    PROVE  Whole
<1>1. mem.devices \in Seq(Devices) /\ k = Len(mem.devices) /\ mem.devices = fsc.devices
  BY ListsOfDevices DEF TypeOK, Claims, Behind, SameInv, InLoop
<1>2. DOMAIN mem.devices = 1..k
  BY <1>1
<1>3. OwnedLDs = {Disk(i) : i \in 1..k}
  BY <1>2 DEF Laid, OwnedLDs
<1>4. OwnedDevices = {mem.devices[i] : i \in 1..k}
  BY <1>3 DEF OwnedDevices, Laid
<1>5. QED BY <1>1, <1>2, <1>4 DEF Whole, SpecDevices

\* A new LocalDisk is one of a device of the claim, and the next in turn.
LEMMA DiskAdded ==
    ASSUME TypeOK, SameInv, BaseInv, NEW w \in Wwns, NewDisk(w), NEW k, Behind(k),
           w = Disk(k + 1), k + 1 \in DOMAIN mem.devices, Head(todo) = mem.devices[k + 1],
           \A i, j \in DOMAIN mem.devices : Disk(i) \in Wwns /\ (Disk(i) = Disk(j) => i = j)
    PROVE  (Whole => Whole') /\ (Laid(k) => Laid(k + 1)')
<1>1. /\ ld \in [Wwns -> LocalDisks] /\ mem.uid # 0 /\ mem.devices = fsc.devices
      /\ mem.devices \in Seq(Devices) /\ k \in Nat
  BY ListsOfDevices
  DEF NewDisk, TypeOK, Claims, SameInv, BaseInv, VersionsInv, BornInv, Behind
<1>2. /\ ld'[w].st = "new" /\ ld'[w].own # 0 /\ ld'[w].dev = mem.devices[k + 1]
      /\ ld[w].st = "absent" /\ \A v \in Wwns : v # w => ld'[v] = ld[v]
  BY <1>1 DEF NewDisk, NewLocalDisk
<1>3. OwnedLDs' = OwnedLDs \cup {w} /\ w \notin OwnedLDs
  BY <1>2 DEF OwnedLDs
<1>4. UNCHANGED <<fsc, mem, node, discovery>>
  BY DEF NewDisk
<1>5. OwnedDevices' = OwnedDevices \cup {mem.devices[k + 1]}
  <2>1. \A v \in OwnedLDs : v \in Wwns /\ v # w /\ ld'[v].dev = ld[v].dev
    BY <1>2, <1>3 DEF OwnedLDs
  <2>2. OwnedDevices' = {ld'[v].dev : v \in OwnedLDs'}
    BY DEF OwnedDevices
  <2>3. OwnedDevices = {ld[v].dev : v \in OwnedLDs}
    BY DEF OwnedDevices
  <2>4. QED BY <1>2, <1>3, <2>1, <2>2, <2>3
<1>6. Whole => Whole'
  BY <1>1, <1>4, <1>5 DEF Whole, SpecDevices
<1>7. \A i : Disk(i)' = Disk(i)
  BY <1>4 DEF Disk
<1>8. ASSUME Laid(k) PROVE Laid(k + 1)'
  <2>1. 1..(k + 1) = 1..k \cup {k + 1} /\ 1..(k + 1) \subseteq DOMAIN mem.devices
    BY <1>1
  <2>2. \A v \in Wwns : v \in OwnedLDs' <=> \E i \in 1..(k + 1) : v = Disk(i)
    BY <1>3, <1>8, <2>1 DEF Laid
  <2>3. ASSUME NEW i \in 1..(k + 1) PROVE ld'[Disk(i)].dev = mem.devices[i]
    <3>1. CASE i = k + 1
      BY <1>2, <3>1
    <3>2. CASE i # k + 1
      <4>1. i \in 1..k /\ Disk(i) # w /\ Disk(i) \in Wwns
        BY <2>1, <2>3, <3>2
      <4>2. QED BY <1>2, <1>8, <4>1 DEF Laid
    <3>3. QED BY <3>1, <3>2
  <2>4. QED BY <1>4, <1>7, <2>2, <2>3 DEF Laid
<1>9. QED BY <1>6, <1>8

\* A loop that was begun with nothing there leaves only with everything there.
LEMMA LoopLeaves ==
    ASSUME OneClaim, Untouched, Distinct, BaseInv, SameInv, ValidInv, OursInv, DisksInv,
           [Next]_vars, ~Over, InLoop, pc' \in Early \/ LeavesLoop
    PROVE  OwnedLDs = {} \/ Whole
<1>1. TypeOK /\ \A i \in DOMAIN mem.devices : /\ Disk(i) \in Wwns \ Preexisting
                                             /\ \A j \in DOMAIN mem.devices : Disk(i) = Disk(j) => i = j
  BY DisksApart DEF BaseInv
<1>2. PICK k \in Nat : Behind(k) /\ (Whole \/ Laid(IF pc = "recordLocalDisk" THEN k + 1 ELSE k))
  BY DEF DisksInv
<1>3. ~NotFound
  <2>1. fsc.exists
    BY DEF InLoop, BaseInv, VersionsInv, BornInv, KnownInv, Over
  <2>2. QED BY <2>1 DEF NotFound, SameInv, InLoop
<1>4. pc = "createLocalDisk"
  BY <1>3, LoopExit DEF LeavesLoop
<1>5. CASE todo = <<>>
  BY <1>1, <1>2, <1>4, <1>5, LoopThrough
<1>6. CASE todo # <<>>
  <2>1. k + 1 \in DOMAIN mem.devices /\ getDeviceWWN(Head(todo)) = Disk(k + 1)
    BY <1>1, <1>2, <1>6, AtHand
  <2>2. ld[Disk(k + 1)].st # "absent" /\ Disk(k + 1) \in Wwns
    BY <1>1, <1>3, <1>6, <2>1, LoopExit DEF LeavesLoop
  <2>3. Disk(k + 1) \in OwnedLDs
    BY <1>1, <2>1, <2>2 DEF OursInv, OwnedLDs
  <2>4. ~Laid(k)
    <3>1. mem.devices \in Seq(Devices)
      BY <1>1, ListsOfDevices DEF TypeOK, Claims
    <3>2. \A i \in 1..k : i \in DOMAIN mem.devices /\ i # k + 1
      BY <2>1, <3>1
    <3>3. \A i \in 1..k : Disk(i) # Disk(k + 1)
      BY <1>1, <2>1, <3>2
    <3>4. QED BY <2>2, <2>3, <3>3 DEF Laid
  <2>5. QED BY <1>2, <1>4, <2>4
<1>7. QED BY <1>5, <1>6

\* Within the loop.
LEMMA LoopGoes ==
    ASSUME OneClaim, Untouched, Distinct, BaseInv, SameInv, ValidInv, DisksInv,
           [Next]_vars, ~Over, fsc'.devices = fsc.devices,
           EntersLoop \/ (\E w \in Wwns : NewDisk(w)) \/ Records
    PROVE  DisksInv'
<1>1. discovery' = discovery /\ TypeOK
  BY SameReports DEF Untouched, BaseInv
<1>2. mem' = mem /\ InLoop'
  BY DEF EntersLoop, NewDisk, Records, InLoop
<1>3. Validated(mem)'
  BY <1>2 DEF EntersLoop, NewDisk, Records, Validated, DisksInv, InLoop
<1>4. mem.devices \in Seq(Devices) /\ todo \in Seq(Devices)
  BY <1>1, ListsOfDevices DEF TypeOK, Claims
<1>5. SUFFICES \E k \in Nat : /\ Behind(k)'
                              /\ Whole' \/ (Laid(IF pc = "recordLocalDisk" THEN k + 1 ELSE k))'
  BY <1>2, <1>3 DEF DisksInv
<1>6. CASE EntersLoop
  <2>1. Behind(0)'
    BY <1>2, <1>4, <1>6 DEF EntersLoop, Behind
  <2>2. OwnedLDs' = OwnedLDs /\ (Whole => Whole')
    BY <1>6 DEF EntersLoop, childVars, OwnedLDs, OwnedDevices, Whole
  <2>3. OwnedLDs = {} \/ Whole
    BY <1>6 DEF EntersLoop, DisksInv, InLoop
  <2>4. OwnedLDs = {} => Laid(0)'
    BY <2>2 DEF Laid
  <2>5. pc' # "recordLocalDisk"
    BY <1>6 DEF EntersLoop
  <2>6. QED BY <2>1, <2>2, <2>3, <2>4, <2>5
<1>7. CASE \E w \in Wwns : NewDisk(w)
  <2>1. PICK w \in Wwns : NewDisk(w)
    BY <1>7
  <2>2. pc = "createLocalDisk" /\ pc' = "recordLocalDisk" /\ todo # <<>> /\ todo' = todo
    BY <2>1 DEF NewDisk
  <2>3. PICK k \in Nat : Behind(k) /\ (Whole \/ Laid(k))
    BY <2>2 DEF DisksInv, InLoop
  <2>4. k + 1 \in DOMAIN mem.devices /\ Head(todo) = mem.devices[k + 1] /\ w = Disk(k + 1)
    BY <1>1, <2>1, <2>2, <2>3, AtHand DEF NewDisk
  <2>5. \A i, j \in DOMAIN mem.devices : Disk(i) \in Wwns /\ (Disk(i) = Disk(j) => i = j)
    BY <1>1, <2>2, DisksApart DEF InLoop
  <2>6. (Whole => Whole') /\ (Laid(k) => Laid(k + 1)')
    BY <1>1, <2>1, <2>3, <2>4, <2>5, DiskAdded
  <2>7. Behind(k)'
    BY <1>2, <2>2, <2>3 DEF Behind
  <2>8. QED BY <2>2, <2>3, <2>6, <2>7
<1>8. CASE Records
  <2>1. /\ pc = "recordLocalDisk" /\ pc' = "createLocalDisk" /\ todo' = Tail(todo)
        /\ ld' = ld /\ node' = node /\ todo # <<>>
    BY <1>1, <1>8 DEF Records, childVars, TypeOK
  <2>2. PICK k \in Nat : Behind(k) /\ (Whole \/ Laid(k + 1))
    BY <2>1 DEF DisksInv, InLoop
  <2>3. Behind(k + 1)'
    <3>1. Len(todo) \in Nat /\ Len(todo) >= 1 /\ Len(Tail(todo)) = Len(todo) - 1
      BY <1>4, <2>1
    <3>2. Len(mem.devices) = k + Len(todo)
      BY <2>2 DEF Behind
    <3>3. Len(mem.devices) = (k + 1) + Len(Tail(todo)) /\ k + 1 \in Nat
      <4>1. k + 1 \in Nat /\ \A m \in Nat : k + m = (k + 1) + (m - 1)
        OBVIOUS
      <4>2. QED BY <3>1, <3>2, <4>1
    <3>4. ASSUME NEW j \in 1..Len(Tail(todo)) PROVE Tail(todo)[j] = mem.devices[(k + 1) + j]
      <4>1. j + 1 \in 1..Len(todo) /\ Tail(todo)[j] = todo[j + 1]
        BY <1>4, <2>1, <3>1, <3>4
      <4>2. k + (j + 1) = (k + 1) + j
        OBVIOUS
      <4>3. QED BY <2>2, <4>1, <4>2 DEF Behind
    <3>5. QED BY <1>2, <2>1, <3>3, <3>4 DEF Behind
  <2>4. (Whole => Whole') /\ (Laid(k + 1) => Laid(k + 1)')
    BY <1>1, <1>2, <2>1 DEF Whole, Laid, Disk, OwnedLDs, OwnedDevices, SpecDevices
  <2>5. QED BY <2>1, <2>2, <2>3, <2>4
<1>9. QED BY <1>6, <1>7, <1>8

LEMMA NextDisks ==
    ASSUME OneClaim, Untouched, Distinct, BaseInv, SameInv, ValidInv, OursInv, DisksInv,
           [Next]_vars, LiveStep, ~Over
    PROVE  DisksInv'
<1>1. "tamper" \notin Upsets /\ discovery' = discovery
  BY SameReports DEF Untouched
<1>2. CASE Born
  <2>1. OwnedLDs = {}
    BY <1>2 DEF Born, OwnedLDs, BaseInv, KnownInv
  <2>2. pc' = "idle" /\ ~\E w \in Wwns : NewDisk(w)
    BY <1>2 DEF Born, NewDisk
  <2>3. OwnedLDs' = {}
    BY <1>1, <2>1, <2>2, OwnedStays
  <2>4. QED BY <2>2, <2>3 DEF DisksInv, InLoop
<1>3. CASE fsc'.devices = fsc.devices /\ (EntersLoop \/ (\E w \in Wwns : NewDisk(w)) \/ Records)
  BY <1>3, LoopGoes
<1>4. CASE fsc'.devices = fsc.devices /\ ~(EntersLoop \/ (\E w \in Wwns : NewDisk(w)) \/ Records)
  <2>1. /\ OwnedLDs' = OwnedLDs /\ OwnedDevices' = OwnedDevices
        /\ \A v \in Wwns : ld'[v].dev = ld[v].dev
    BY <1>1, <1>4, OwnedStays
  <2>2. Whole => Whole'
    BY <1>4, <2>1 DEF Whole, SpecDevices
  <2>3. CASE Stays /\ InLoop
    <3>1. InLoop' /\ Validated(mem)' /\ UNCHANGED <<pc, mem, todo, node>>
      BY <2>3 DEF Stays, InLoop, DisksInv, Validated
    <3>2. PICK k \in Nat : Behind(k) /\ (Whole \/ Laid(IF pc = "recordLocalDisk" THEN k + 1 ELSE k))
      BY <2>3 DEF DisksInv
    <3>3. Behind(k)'
      BY <3>1, <3>2 DEF Behind
    <3>4. \A i \in DOMAIN mem.devices : Disk(i) \in Wwns
      BY <2>3, DisksApart DEF BaseInv
    <3>5. \A m \in Nat : m <= Len(mem.devices) /\ Laid(m) => Laid(m)'
      <4>1. SUFFICES ASSUME NEW m \in Nat, m <= Len(mem.devices), Laid(m) PROVE Laid(m)'
        OBVIOUS
      <4>2. mem.devices \in Seq(Devices)
        BY ListsOfDevices DEF BaseInv, TypeOK, Claims
      <4>3. \A i \in 1..m : Disk(i) \in Wwns
        BY <3>4, <4>1, <4>2
      <4>4. \A i : Disk(i)' = Disk(i)
        BY <1>1, <3>1 DEF Disk
      <4>5. \A i \in 1..m : ld'[Disk(i)].dev = mem.devices[i]
        BY <2>1, <4>1, <4>3 DEF Laid
      <4>6. QED BY <2>1, <3>1, <4>1, <4>4, <4>5 DEF Laid
    <3>6. k <= Len(mem.devices) /\ (pc = "recordLocalDisk" => k + 1 <= Len(mem.devices))
      <4>1. Len(todo) \in Nat /\ (pc = "recordLocalDisk" => Len(todo) >= 1)
        BY DEF BaseInv, TypeOK
      <4>2. Len(mem.devices) = k + Len(todo)
        BY <3>2 DEF Behind
      <4>3. \A m \in Nat : k <= k + m /\ (m >= 1 => k + 1 <= k + m)
        OBVIOUS
      <4>4. QED BY <4>1, <4>2, <4>3
    <3>7. Whole' \/ (Laid(IF pc = "recordLocalDisk" THEN k + 1 ELSE k))'
      BY <2>2, <3>1, <3>2, <3>5, <3>6
    <3>8. QED BY <3>1, <3>3, <3>7 DEF DisksInv
  <2>4. CASE ~InLoop' /\ ~InLoop
    BY <2>1, <2>2, <2>4 DEF DisksInv
  <2>5. CASE ~InLoop' /\ (pc' \in Early \/ LeavesLoop) /\ InLoop
    BY <2>1, <2>2, <2>5, LoopLeaves DEF DisksInv
  <2>6. \/ Stays \/ pc' \in Early \/ LeavesLoop \/ SkipsLoop
        \/ DisksChecked \/ StoreChecked \/ ClassChecked \/ GoesOn
    BY <1>4, PassShape DEF PassStep
  <2>7. Stays => (InLoop' <=> InLoop)
    BY DEF Stays, InLoop
  <2>8. pc' \in Early \/ LeavesLoop => ~InLoop'
    BY DEF Early, Cleaning, Deleting, LeavesLoop, InLoop
  <2>9. SkipsLoop \/ DisksChecked \/ StoreChecked \/ ClassChecked \/ GoesOn => ~InLoop' /\ ~InLoop
    BY DEF SkipsLoop, DisksChecked, StoreChecked, ClassChecked, GoesOn, InLoop
  <2>10. QED BY <2>3, <2>4, <2>5, <2>6, <2>7, <2>8, <2>9
<1>5. QED BY <1>2, <1>3, <1>4, SameList

LEMMA NextDone ==
    ASSUME OneClaim, Untouched, BaseInv, SameInv, DisksInv, DoneInv,
           [Next]_vars, LiveStep, ClaimStep, ~Over
    PROVE  DoneInv'
<1>1. CASE Born
  BY <1>1, BlankSays DEF Born, DoneInv, DisksDone, isConditionTrue
<1>2. CASE fsc'.devices = fsc.devices
  <2>1. Whole => Whole'
    <3>1. CASE \E w \in Wwns : NewDisk(w)
      <4>1. PICK w \in Wwns : NewDisk(w)
        BY <3>1
      <4>2. ld \in [Wwns -> LocalDisks] /\ TypeOK
        BY DEF BaseInv, TypeOK
      <4>3. PICK k \in Nat : Behind(k)
        BY <4>1 DEF NewDisk, InLoop, DisksInv
      <4>4. Head(todo) = mem.devices[k + 1] /\ k + 1 \in DOMAIN mem.devices
        BY <4>1, <4>2, <4>3, AtHand DEF NewDisk
      <4>5. Head(todo) \in SpecDevices(fsc)
        BY <4>1, <4>4 DEF NewDisk, SameInv, SpecDevices
      <4>6. /\ ld[w].st = "absent" /\ ld'[w].dev = Head(todo)
            /\ \A v \in Wwns : v # w => ld'[v] = ld[v]
        BY <4>1, <4>2 DEF NewDisk, NewLocalDisk
      <4>7. OwnedLDs \subseteq OwnedLDs' /\ OwnedLDs' \subseteq OwnedLDs \cup {w} /\ w \notin OwnedLDs
        BY <4>6 DEF OwnedLDs
      <4>8. \A v \in OwnedLDs : ld'[v].dev = ld[v].dev
        BY <4>6, <4>7 DEF OwnedLDs
      <4>9. OwnedDevices \subseteq OwnedDevices' /\ OwnedDevices' \subseteq OwnedDevices \cup {Head(todo)}
        BY <4>6, <4>7, <4>8 DEF OwnedDevices
      <4>10. QED BY <1>2, <4>5, <4>9 DEF Whole, SpecDevices
    <3>2. QED BY <1>2, <3>1, OwnedStays DEF Whole, SpecDevices, Untouched
  <2>2. cache' \in {cache, fsc}
    BY CopiesFrom
  <2>3. pc' = "idle" \/ (mem' = mem /\ pc # "idle") \/ mem' = cache
    BY DEF ClaimStep, Still, Syncs, Starts, Moves, Ends, Ended, MarkWrite, BlockWrite,
           StageWrite, ProvisionWrite, Writes, Creates, Turns
  <2>4. DisksDone(fsc)' => Whole
    <3>1. CASE ProvisionWrite
      <4>1. "LocalDiskCreated" \in CondTypes
        BY DEF CondTypes
      <4>2. \/ fsc'.cond["LocalDiskCreated"] = cache.cond["LocalDiskCreated"]
            \/ DisksFit(fsc'.cond["LocalDiskCreated"])
        BY <3>1, <4>1 DEF ProvisionWrite, Writes, Fits
      <4>3. DisksFit(fsc'.cond["LocalDiskCreated"]) /\ DisksDone(fsc)'
              => pc = "syncLocalDiskConditions" /\ OwnedLDs # {}
        BY DEF DisksFit, DisksDone, isConditionTrue, TrueReasons
      <4>4. QED BY <4>2, <4>3 DEF DisksInv, InLoop, DoneInv, DisksDone, isConditionTrue
    <3>2. QED BY <3>1 DEF LiveStep, Edited, Born, DoneInv, DisksDone, isConditionTrue
  <2>5. QED BY <2>1, <2>2, <2>3, <2>4 DEF DoneInv, DisksDone
<1>3. QED BY <1>1, <1>2, SameList

\* No status write says that the list was edited.
LEMMA NextUnedited ==
    ASSUME TypeOK, DeletionInv, VersionsInv, EditInv, ClaimStep
    PROVE  ~SaysEdited(fsc)' /\ ~SaysEdited(cache)'
<1>1. EnvOK /\ cache' \in {cache, fsc}
  BY TypeParts, CopiesFrom
<1>2. ASSUME NEW t \in CondTypes, NEW r, Writes([cache.cond EXCEPT ![t] = r]),
             t = "Ready" => r # "ImmutableFieldModified"
      PROVE  ~SaysEdited(fsc)'
  <2>1. fsc'.cond = [cache.cond EXCEPT ![t] = r]
    BY <1>2 DEF Writes
  <2>2. QED BY <1>1, <1>2, <2>1, OneChanged, CondNames DEF SaysEdited, EditInv
<1>3. CASE Still \/ Syncs \/ Starts \/ Moves \/ Ends
  BY <1>1, <1>3 DEF Still, Syncs, Starts, Moves, Ends, EditInv, SaysEdited
<1>4. CASE MarkWrite
  BY <1>1, <1>2, <1>4, CondNames DEF MarkWrite, EditInv, SaysEdited
<1>5. CASE BlockWrite
  BY <1>1, <1>2, <1>5, CondNames DEF BlockWrite, EditInv, SaysEdited
<1>6. CASE \E t \in Stages : StageWrite(t)
  BY <1>1, <1>2, <1>6, CondNames DEF StageWrite, Stages, EditInv, SaysEdited
<1>7. CASE ProvisionWrite
  <2>1. ~Over
    BY <1>7, NoneRequested DEF ProvisionWrite, Writes, Over
  <2>2. \/ fsc'.cond["Ready"] = cache.cond["Ready"]
        \/ SaysEdited(fsc)' => pc = "ensureLocalDisks" /\ DisksDone(mem) /\ ~SameDevices(mem)
    BY <1>7, CondNames DEF ProvisionWrite, Writes, Fits, ReadyFits, SaysEdited, DisksDone
  <2>3. pc = "ensureLocalDisks" /\ DisksDone(mem) => SameDevices(mem)
    BY <2>1 DEF EditInv, DoneInv, SameInv, Whole, SameDevices, SpecDevices
  <2>4. QED BY <1>1, <2>2, <2>3 DEF EditInv, SaysEdited
<1>8. CASE Creates
  <2>1. NoConditions["Ready"] = "None"
    BY DEF NoConditions, CondTypes
  <2>2. QED BY <1>8, <2>1 DEF Creates, EditInv, SaysEdited
<1>9. CASE Turns
  <2>1. NoConditions["Ready"] = "None"
    BY DEF NoConditions, CondTypes
  <2>2. QED BY <1>9, <2>1, GoneSays DEF Turns, EditInv, SaysEdited
<1>10. QED BY <1>3, <1>4, <1>5, <1>6, <1>7, <1>8, <1>9 DEF ClaimStep

LEMMA NextEdit ==
    ASSUME OneClaim, Untouched, Distinct, BaseInv, EditInv, TypeOK', [Next]_vars PROVE EditInv'
<1>1. ClaimStep /\ TypeOK /\ DeletionInv /\ VersionsInv
  BY StepShape DEF BaseInv
<1>2. ~SaysEdited(fsc)' /\ ~SaysEdited(cache)'
  BY <1>1, NextUnedited
<1>3. CASE Over
  BY <1>1, <1>2, <1>3, OverStays, OnlyClaim DEF EditInv
<1>4. CASE ~Over /\ ~Over'
  <2>1. LiveStep /\ SameInv /\ ValidInv /\ OursInv /\ DisksInv /\ DoneInv
    BY <1>4, LiveShape DEF EditInv
  <2>2. SameInv' /\ ValidInv' /\ OursInv'
    BY <1>1, <1>4, <2>1, NextSame, NextValid, NextOurs
  <2>3. DisksInv' /\ DoneInv'
    BY <1>1, <1>4, <2>1, NextDisks, NextDone
  <2>4. QED BY <1>2, <2>2, <2>3 DEF EditInv
<1>5. QED BY <1>2, <1>3, <1>4 DEF EditInv

\* A claim whose list of devices nobody has edited never says that it was: what
\* ensureLocalDisks compares the list with is what LocalDisks there are, so every pass
\* that records them as created must have found all of them, the loop that creates them
\* being cut off at the first one it finds there.  It holds although passes may start
\* from a cache that lags and on another node than the one before, disks may fail or be
\* used elsewhere, and the claim may be deleted at any time; it takes that no call fails
\* in the middle of the loop, and that the paths are different disks without a LocalDisk.
THEOREM EditsAreReal ==
    ASSUME OneClaim, Untouched, Distinct PROVE Spec => []NeverMisreportsEdit
<1>1. Init => EditInv
  <2>1. SUFFICES ASSUME Init PROVE EditInv
    OBVIOUS
  <2>2. fsc = Gone(0) /\ cache = Gone(0) /\ pc = "idle"
    BY <2>1 DEF Init
  <2>3. \A w \in Wwns : ld[w].own = 0 /\ (ld[w].st # "absent" => w \in Preexisting)
    BY <2>1 DEF Init, NoLD
  <2>4. Gone(0).cond = NoConditions /\ ~Gone(0).exists
    BY GoneSays
  <2>5. NoConditions["Ready"] = "None" /\ NoConditions["DeviceValidated"] = "None"
        /\ NoConditions["LocalDiskCreated"] = "None"
    BY DEF NoConditions, CondTypes
  <2>6. SameInv /\ ValidInv /\ DoneInv
    BY <2>2, <2>4, <2>5
    DEF SameInv, ValidInv, DoneInv, Validated, DisksDone, isConditionTrue, TrueReasons
  <2>7. OursInv /\ DisksInv
    BY <2>2, <2>3 DEF OursInv, DisksInv, InLoop, OwnedLDs
  <2>8. QED BY <2>2, <2>4, <2>5, <2>6, <2>7 DEF EditInv, SaysEdited
<1>2. BaseInv /\ EditInv /\ TypeOK' /\ [Next]_vars => EditInv'
  BY NextEdit
<1>3. EditInv => NeverMisreportsEdit
  BY DEF EditInv, SaysEdited, NeverMisreportsEdit
<1>4. "tamper" \notin Upsets
  BY DEF Untouched
<1>5. Spec => []BaseInv
  BY <1>4, BaseHolds
<1>6. Spec => []TypeOK
  BY TypeCorrect
<1>7. QED BY <1>1, <1>2, <1>3, <1>5, <1>6, PTL DEF Spec
=============================================================================
