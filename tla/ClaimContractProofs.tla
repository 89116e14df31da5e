------------------------- MODULE ClaimContractProofs -------------------------
(***************************************************************************)
(* Theorems about the StorageClass of a claim, the volumes taken from it   *)
(* and the filesystem under them, with a cache that lags, calls that fail  *)
(* and an operator that restarts.  Such a controller may forget a class it *)
(* has just created; from the moment everyone knows of the class it is     *)
(* safe, and with it the data, and the controller keeps the contract of a  *)
(* claim.                                                                  *)
(***************************************************************************)
EXTENDS ClaimReadyProofs

(* A pass that has come past the class takes it for deleted, and what is   *)
(* written from a cache that knows of the class tells of it.               *)

\* The steps on finalizers and marks of deletion keep to that, whoever has others.
LEMMA FinalizerPassed == ASSUME PassedInv, FinalizerStep PROVE PassedInv'
<1>1. CASE pc' \notin Deleting
  BY <1>1 DEF PassedInv, Deleting
<1>2. CASE UNCHANGED <<mem, pc>>
  BY <1>2 DEF PassedInv, isConditionTrue
<1>3. pc' \in {"idle", "handleDeletion"} \/ UNCHANGED <<mem, pc>>
  BY DEF FinalizerStep, handleFinalizers, removeFinalizer, patchFSCSpec, Return, Requeue,
         Goto, EndPass, CreateClaim, DeleteClaim, ReleaseHold, ValidateUpdate, passVars
<1>4. QED BY <1>1, <1>2, <1>3 DEF Deleting

LEMMA AlwaysPassed == Spec => []PassedInv
<1>1. Init => PassedInv
  BY DEF Init, PassedInv
<1>2. TypeOK /\ PassedInv /\ [Next]_vars => PassedInv'
  BY AnyShape, NextPassed, FinalizerPassed
<1>3. QED BY <1>1, <1>2, TypeCorrect, PTL DEF Spec

\* A step that takes back the record of a class, its deletion or a failed creation,
\* finds none; no other write takes back what the cache tells of a class.
Untells ==
    \/ StageWrite("StorageClassCreated")
    \/ ProvisionWrite /\ pc = "ensureStorageClass" /\ sc = "absent"

LEMMA WriteTells ==
    ASSUME EnvOK, ~Untells, Tells(cache),
           MarkWrite \/ BlockWrite \/ (\E t \in Stages : StageWrite(t)) \/ ProvisionWrite
    PROVE  Tells(fsc)'
<1>1. "StorageClassCreated" \in CondTypes
  BY DEF CondTypes
<1>2. ASSUME NEW t \in CondTypes, NEW r, t # "StorageClassCreated",
             Writes([cache.cond EXCEPT ![t] = r])
      PROVE  Tells(fsc)'
  <2>1. fsc'.cond = [cache.cond EXCEPT ![t] = r]
    BY <1>2 DEF Writes
  <2>2. fsc'.cond["StorageClassCreated"] = cache.cond["StorageClassCreated"]
    BY <1>1, <1>2, <2>1, OneChanged
  <2>3. QED BY <2>2 DEF Tells, isConditionTrue
<1>3. CASE MarkWrite
  BY <1>2, <1>3, CondNames DEF MarkWrite
<1>4. CASE BlockWrite
  <2>1. PICK r \in TrueReasons : Writes([cache.cond EXCEPT !["DeletionBlocked"] = r])
    BY <1>4 DEF BlockWrite
  <2>2. QED BY <1>2, <2>1, CondNames
<1>5. CASE \E t \in Stages : StageWrite(t)
  <2>1. PICK t \in Stages : StageWrite(t)
    BY <1>5
  <2>2. t # "StorageClassCreated" /\ t \in CondTypes
    BY <2>1, CondNames DEF Untells
  <2>3. QED BY <1>2, <2>1, <2>2 DEF StageWrite
<1>6. CASE ProvisionWrite
  <2>1. PICK cs \in [CondTypes -> Reasons] :
          Writes(cs) /\ \A t \in CondTypes : cs[t] = cache.cond[t] \/ Fits(t, cs[t])
    BY <1>6 DEF ProvisionWrite
  <2>2. \/ cs["StorageClassCreated"] = cache.cond["StorageClassCreated"]
        \/ cs["StorageClassCreated"] \in TrueReasons
    BY <1>1, <1>6, <2>1 DEF Fits, Untells
  <2>3. QED BY <2>1, <2>2 DEF Writes, Tells, isConditionTrue
<1>7. QED BY <1>3, <1>4, <1>5, <1>6

LEMMA ClaimKeepsRecord ==
    ASSUME EnvOK, PassedInv, ClaimStep, ClassRecorded, ~Untells PROVE ClassRecorded'
<1>1. fsc.exists /\ fsc.fin /\ Tells(fsc) /\ (cache.exists => Tells(cache))
      /\ (pc # "idle" => Tells(mem))
  BY DEF ClassRecorded
<1>2. CASE Still \/ Syncs \/ Starts \/ Moves \/ Ends
  BY <1>1, <1>2
  DEF Still, Syncs, Starts, Moves, Ends, Ended, ClassRecorded, Tells, isConditionTrue
<1>3. CASE MarkWrite \/ BlockWrite \/ (\E t \in Stages : StageWrite(t)) \/ ProvisionWrite
  <2>1. PICK cs : Writes(cs)
    BY <1>3 DEF MarkWrite, BlockWrite, StageWrite, ProvisionWrite
  <2>2. cache.exists /\ cache' = cache /\ fsc'.exists /\ fsc'.fin = fsc.fin
        /\ (pc' = "idle" \/ (mem' = mem /\ pc # "idle"))
    BY <2>1 DEF Writes, Ended
  <2>3. Tells(fsc)'
    BY <1>1, <1>3, <2>2, WriteTells
  <2>4. QED BY <1>1, <2>2, <2>3 DEF ClassRecorded, Tells, isConditionTrue
<1>4. CASE Turns
  <2>1. pc # "removeFinalizer"
    BY <1>1 DEF PassedInv, Tells
  <2>2. fsc'.exists /\ fsc'.fin /\ fsc'.cond = fsc.cond /\ cache' = cache
        /\ (pc' = "idle" \/ UNCHANGED <<mem, pc>>)
    BY <1>1, <1>4, <2>1 DEF Turns, Ended
  <2>3. QED BY <1>1, <2>2 DEF ClassRecorded, Tells, isConditionTrue
<1>5. QED BY <1>1, <1>2, <1>3, <1>4 DEF ClaimStep, Creates

LEMMA FinalizerKeepsRecord ==
    ASSUME ClaimOK, PassedInv, FinalizerStep, ClassRecorded PROVE ClassRecorded'
<1>1. fsc.exists /\ fsc.fin /\ Tells(fsc) /\ pc # "removeFinalizer"
  BY DEF ClassRecorded, PassedInv, Tells
<1>2. cache' = cache
  BY DEF FinalizerStep, handleFinalizers, removeFinalizer, CreateClaim, DeleteClaim,
         ReleaseHold, ValidateUpdate, envVars
<1>3. CASE DeleteClaim \/ ReleaseHold \/ ValidateUpdate
  <2>1. UNCHANGED <<mem, pc>>
    BY <1>3 DEF DeleteClaim, ReleaseHold, ValidateUpdate, passVars
  <2>2. fsc'.exists /\ fsc'.fin /\ fsc'.cond = fsc.cond
    BY <1>1, <1>3 DEF DeleteClaim, ReleaseHold, ValidateUpdate, ClaimOK, Claims
  <2>3. QED BY <1>1, <1>2, <2>1, <2>2 DEF ClassRecorded, Tells, isConditionTrue
<1>4. CASE handleFinalizers
  <2>1. fsc'.exists /\ fsc'.fin /\ fsc'.cond = fsc.cond
    BY <1>1, <1>4
    DEF handleFinalizers, patchFSCSpec, Return, Requeue, Goto, claimVars, ClaimOK, Claims
  <2>2. pc' = "idle" \/ (mem' = mem /\ pc # "idle")
    BY <1>4 DEF handleFinalizers, patchFSCSpec, Return, Requeue, Goto, EndPass
  <2>3. QED BY <1>1, <1>2, <2>1, <2>2 DEF ClassRecorded, Tells, isConditionTrue
<1>5. QED BY <1>1, <1>3, <1>4 DEF FinalizerStep, removeFinalizer, CreateClaim

\* A class everyone knows of is neither forgotten nor left behind: the claim keeps it on
\* record, and the finalizer that makes a pass delete it, until it is gone.  It holds with
\* any lag of the cache, crashes and failed calls, whatever users do to the claim, to its
\* objects and to the class, for names used again and claims with foreign finalizers.
THEOREM ClassIsKeptOnRecord == Spec => ClassGoesFirst
<1>1. TypeOK /\ PassedInv /\ [Next]_vars
        => [ClassRecorded /\ sc # "absent" => ClassRecorded']_vars
  <2>1. SUFFICES ASSUME TypeOK, PassedInv, [Next]_vars, ClassRecorded, sc # "absent"
                 PROVE  ClassRecorded'
    OBVIOUS
  <2>2. ClaimOK /\ EnvOK
    BY <2>1, TypeParts
  <2>3. ~Untells
    BY <2>1 DEF Untells, StageWrite, StageDone
  <2>4. QED BY <2>1, <2>2, <2>3, AnyShape, ClaimKeepsRecord, FinalizerKeepsRecord
<1>2. QED BY <1>1, TypeCorrect, AlwaysPassed, PTL DEF Spec, ClassGoesFirst

----------------------------------------------------------------------------
(* Until the cleanup begins, a class stands on a filesystem, and whoever   *)
(* tells of a class is right.                                              *)

\* Nobody deletes the objects behind the controller's back.
Untampered == "tamper" \notin Upsets

ClassInv ==
    /\ Tells(mem) \/ Tells(cache) \/ Tells(fsc) \/ pc \in Recording => sc # "absent"
    /\ sc # "absent" => FSExists

StandsInv == Over \/ (FoundInv /\ ClassInv)

LEMMA NextClass ==
    ASSUME OneClaim, Untampered, BaseInv, FoundInv, ClassInv, TypeOK', [Next]_vars,
           LiveStep, ClaimStep, PassStep, ~Over
    PROVE  ClassInv'
<1>1. sc # "absent" => sc' # "absent"
  BY ClassStays DEF Untampered, BaseInv
<1>2. sc' # "absent" => FSExists'
  <2>1. FSExists => FSExists'
    BY StoreStays DEF Untampered
  <2>2. sc # "absent" \/ sc' = "absent" \/ StoreDone(mem)
    BY ScShape DEF ScStep, StoreDone
  <2>3. QED BY <2>1, <2>2 DEF ClassInv, FoundInv
<1>3. ~Tells(Gone(0))
  BY GoneSays DEF Tells, isConditionTrue, NoConditions, CondTypes, TrueReasons
<1>4. cache' \in {cache, fsc} /\ mem' \in {mem, cache, Gone(0)}
  BY CopiesFrom
<1>5. Tells(fsc)' => sc # "absent"
  <2>1. CASE ProvisionWrite
    <3>1. PICK cs \in [CondTypes -> Reasons] :
            Writes(cs) /\ \A t \in CondTypes : cs[t] = cache.cond[t] \/ Fits(t, cs[t])
      BY <2>1 DEF ProvisionWrite
    <3>2. "StorageClassCreated" \in CondTypes
      BY DEF CondTypes
    <3>3. \/ cs["StorageClassCreated"] = cache.cond["StorageClassCreated"]
          \/ cs["StorageClassCreated"] \notin TrueReasons
          \/ sc = "ours" \/ pc \in Recording
      BY <3>1, <3>2 DEF Fits
    <3>4. QED BY <3>1, <3>3 DEF Writes, Tells, isConditionTrue, ClassInv
  <2>2. CASE Born
    <3>1. fsc'.cond["StorageClassCreated"] = "None"
      BY <2>2 DEF Born, NoConditions, CondTypes
    <3>2. QED BY <3>1 DEF Tells, isConditionTrue, TrueReasons
  <2>3. QED BY <2>1, <2>2 DEF LiveStep, Edited, ClassInv, Tells, isConditionTrue
<1>6. pc' \in Recording => sc' # "absent"
  <2>1. SUFFICES ASSUME pc' \in Recording PROVE sc' # "absent"
    OBVIOUS
  <2>2. Stays \/ ClassChecked
    BY <2>1
    DEF PassStep, Early, Cleaning, Deleting, EntersLoop, NewDisk, Records, LeavesLoop,
        SkipsLoop, DisksChecked, StoreChecked, GoesOn, Recording
  <2>3. QED BY <1>1, <2>1, <2>2 DEF Stays, ClassChecked, ClassInv, Recording
<1>7. Tells(mem)' \/ Tells(cache)' => Tells(mem) \/ Tells(cache) \/ Tells(fsc)
  BY <1>3, <1>4 DEF Tells, isConditionTrue
<1>8. QED BY <1>1, <1>2, <1>5, <1>6, <1>7 DEF ClassInv

LEMMA StandsHolds ==
    ASSUME OneClaim, Untampered PROVE Spec => [](BaseInv /\ StandsInv /\ PassedInv)
<1>1. Init => StandsInv
  <2>1. SUFFICES ASSUME Init PROVE FoundInv /\ ClassInv
    BY DEF StandsInv
  <2>2. /\ fsc = Gone(0) /\ cache = Gone(0) /\ mem = Gone(0) /\ sc = "absent" /\ pc = "idle"
    BY <2>1 DEF Init
  <2>3. ~Tells(Gone(0)) /\ ~StoreDone(Gone(0))
    BY GoneSays, BlankSays DEF Tells, isConditionTrue, NoConditions, CondTypes, TrueReasons
  <2>4. QED BY <2>2, <2>3 DEF FoundInv, ClassInv, Recording
<1>2. BaseInv /\ StandsInv /\ TypeOK' /\ [Next]_vars => StandsInv'
  <2>1. SUFFICES ASSUME BaseInv, StandsInv, TypeOK', [Next]_vars, ~Over' PROVE StandsInv'
    BY DEF StandsInv
  <2>2. ClaimStep /\ PassStep
    BY <2>1, StepShape, PassShape DEF BaseInv
  <2>3. ~Over
    BY <2>1, <2>2, OverStays, OnlyClaim DEF BaseInv
  <2>4. LiveStep /\ FoundInv /\ ClassInv
    BY <2>1, <2>3, LiveShape DEF StandsInv
  <2>5. FoundInv' /\ ClassInv'
    BY <2>1, <2>2, <2>3, <2>4, NextFound, NextClass DEF Untampered
  <2>6. QED BY <2>5 DEF StandsInv
<1>3. Spec => []BaseInv
  BY BaseHolds DEF Untampered
<1>4. QED BY <1>1, <1>2, <1>3, TypeCorrect, AlwaysPassed, PTL DEF Spec

\* What holds of a claim whose objects nobody deletes behind the controller's back.
Secure == BaseInv /\ StandsInv /\ PassedInv

\* The filesystem under a class everyone knows of stays.
LEMMA StoreSecure ==
    ASSUME OneClaim, Untampered, Secure, [Next]_vars, Held PROVE FSExists' /\ ~fs'.del
<1>1. ClassRecorded /\ FSExists /\ ~fs.del
  BY DEF Held
<1>2. pc # "deleteFilesystem"
  BY <1>1 DEF Secure, PassedInv, ClassRecorded, Tells
<1>3. ~Orphan(fs.own)
  <2>1. fsc.exists /\ fsc.uid # 0
    BY <1>1 DEF ClassRecorded, Secure, BaseInv, VersionsInv, BornInv
  <2>2. fsc.uid \in 0..MaxClaims /\ fs.own \in 0..MaxClaims /\ MaxClaims \in Nat
        /\ MaxClaims <= 1
    BY Bounds DEF Secure, BaseInv, TypeOK, Claims, Filesystems, OneClaim
  <2>3. QED BY <2>1, <2>2 DEF Orphan
<1>4. ~NewFilesystem(OwnedLDs).del /\ fs \in Filesystems
  BY DEF NewFilesystem, Secure, BaseInv, TypeOK
<1>5. ~StoreGoes
  BY <1>1, <1>2, <1>3 DEF StoreGoes, Untampered
<1>6. CASE Lays
  BY <1>1, <1>4, <1>6 DEF Lays, FSExists, Filesystems
<1>7. QED BY <1>1, <1>4, <1>5, <1>6, StoreShape DEF StoreStep, StoreKept, FSExists, Secure, BaseInv

----------------------------------------------------------------------------
(* A volume in use is safe.                                                *)

\* Volumes are taken from a class that is there.
LEMMA PvStep ==
    ASSUME [Next]_vars, HoldsData'
    PROVE  HoldsData \/ (sc # "absent" /\ UNCHANGED <<mem, sc, pc>>)
<1>1. CASE pv' = pv
  BY <1>1 DEF HoldsData
<1>2. CASE ProvisionVolume \/ ReleaseVolume
  BY <1>2 DEF ProvisionVolume, ReleaseVolume, HoldsData, passVars, childVars
<1>3. CASE UNCHANGED vars
  BY <1>1, <1>3 DEF vars, envVars
<1>4. CASE Handler
  BY <1>1, <1>4
  DEF Handler, Reconcile, handleFinalizers, handleDeletion, checkStorageClassUsage,
      checkFilesystemDeletionLabel, deleteStorageClass, deleteFilesystem, deleteLocalDisks,
      removeFinalizer, ensureLocalDisks, createLocalDisk, recordLocalDisk, endLocalDisks,
      syncLocalDiskConditions, ensureFileSystem, recordFileSystem,
      syncFilesystemConditions, ensureStorageClass, recordStorageClass, syncFSCReady, envVars
<1>5. CASE ~Handler /\ Next
  BY <1>1, <1>2, <1>5
  DEF Next, ApiError, Crash, InformerSync, TimerFires, Resync, User, CreateClaim,
      DeleteClaim, ReleaseHold, ValidateUpdate, LabelFilesystem, Tamper,
      Rediscover, Scale, ScaleLocalDisk, ScaleFilesystem, ScaleRemoves, GarbageCollect, envVars
<1>6. QED BY <1>3, <1>4, <1>5

\* The class is deleted only right after the label was checked.
LEMMA IntoDeleteClass ==
    ASSUME [Next]_vars, pc' = "deleteStorageClass"
    PROVE  pc' = pc \/ pc = "checkFilesystemDeletionLabel"
<1>1. CASE Handler
  BY <1>1
  DEF Handler, Reconcile, handleFinalizers, patchFSCSpec, handleDeletion,
      markDeletionRequested, checkStorageClassUsage, checkFilesystemDeletionLabel,
      BlockDeletion, deleteStorageClass, deleteFilesystem, deleteLocalDisks, removeFinalizer,
      ensureLocalDisks, handleValidationError, createLocalDisk, handleResourceCreationError,
      recordLocalDisk, endLocalDisks, syncLocalDiskConditions, ensureFileSystem,
      recordFileSystem, syncFilesystemConditions, ensureStorageClass, recordStorageClass,
      syncFSCReady, updateConditionIfChanged, patchFSCStatus, Return, Requeue, Goto, EndPass
<1>2. CASE ApiError \/ Crash
  BY <1>2 DEF ApiError, Requeue, EndPass, Crash
<1>3. CASE UNCHANGED vars
  BY <1>3 DEF vars, passVars
<1>4. CASE ~Handler /\ ~ApiError /\ ~Crash /\ Next
  BY <1>4
  DEF Next, InformerSync, TimerFires, Resync, User, CreateClaim, DeleteClaim, ReleaseHold,
      ValidateUpdate, LabelFilesystem, ProvisionVolume, ReleaseVolume, Tamper, Rediscover,
      Scale, ScaleLocalDisk, ScaleFilesystem, ScaleRemoves, GarbageCollect, passVars
<1>5. QED BY <1>1, <1>2, <1>3, <1>4

\* Between the check of the volumes and the deletion of the class.
Checked == {"checkFilesystemDeletionLabel", "deleteStorageClass"}

\* A pass that knows of the class and has found no volume in use finds the class, should
\* a volume be taken from it since.
VolumeInv == HoldsData /\ pc \in Checked /\ Tells(mem) => sc # "absent"

LEMMA NextVolume ==
    ASSUME Untampered, VolumeInv, [Next]_vars, ClaimStep PROVE VolumeInv'
<1>1. SUFFICES ASSUME HoldsData', pc' \in Checked, Tells(mem)', sc' = "absent" PROVE FALSE
  BY DEF VolumeInv
<1>2. sc = "absent"
  BY <1>1, ScShape DEF ScStep, Untampered, Checked
<1>3. HoldsData
  BY <1>1, <1>2, PvStep
<1>4. mem' = mem /\ (pc' = pc \/ Moves)
  BY <1>1
  DEF ClaimStep, Still, Syncs, Starts, Moves, Ends, Ended, MarkWrite, BlockWrite, StageWrite,
      ProvisionWrite, Writes, Creates, Turns, Checked, Provisioning
<1>5. Tells(mem)
  BY <1>1, <1>4 DEF Tells, isConditionTrue
<1>6. CASE pc \in Checked
  BY <1>2, <1>3, <1>5, <1>6 DEF VolumeInv
<1>7. CASE pc \notin Checked
  <2>1. pc' = "checkFilesystemDeletionLabel" /\ Moves
    BY <1>1, <1>4, <1>7, IntoDeleteClass DEF Checked
  <2>2. QED BY <1>3, <1>5, <2>1 DEF Moves, Tells, isStorageClassInUse, HoldsData
<1>8. QED BY <1>6, <1>7

\* A pass that creates a class knows of none.
LEMMA NoClassToCreate ==
    ASSUME Secure, ClassRecorded, pc = "ensureStorageClass" PROVE sc # "absent"
<1>1. ~Requested(fsc)
  BY NoneRequested DEF Provisioning, Secure, BaseInv
<1>2. QED BY <1>1 DEF Secure, StandsInv, ClassInv, Over, ClassRecorded

\* A volume in use keeps its filesystem, and the record and the finalizer that protect it,
\* although the controller looks for volumes once, at the start of a deletion, and deletes
\* the filesystem passes later, from a cache that lags: a volume that was taken in the
\* meantime is found to have its class, and the class on record stops the deletion. Any
\* call may fail and the operator restart anywhere; it takes that nobody deletes objects
\* behind the controller's back, and a claim of a name used once without foreign finalizers.
THEOREM UsedVolumesAreSafe == ASSUME OneClaim, Untampered PROVE Spec => UsedVolumesHold
<1>1. Init => VolumeInv
  BY DEF Init, VolumeInv, HoldsData
<1>2. Secure /\ VolumeInv /\ [Next]_vars => VolumeInv'
  BY NextVolume, StepShape DEF Secure, BaseInv
<1>3. Secure /\ VolumeInv /\ [Next]_vars => [Held /\ HoldsData => Held' \/ ~HoldsData']_vars
  <2>1. SUFFICES ASSUME Secure, VolumeInv, [Next]_vars, Held, HoldsData PROVE Held'
    OBVIOUS
  <2>2. FSExists' /\ ~fs'.del
    BY <2>1, StoreSecure
  <2>3. EnvOK /\ ClaimStep /\ PassedInv /\ ClassRecorded
    BY <2>1, TypeParts, StepShape DEF Secure, BaseInv, Held
  <2>4. ~StageWrite("StorageClassCreated")
    BY <2>1 DEF StageWrite, StageDone, VolumeInv, Checked, Tells
  <2>5. ~Untells
    BY <2>1, <2>3, <2>4, NoClassToCreate DEF Untells
  <2>6. QED BY <2>2, <2>3, <2>5, ClaimKeepsRecord DEF Held, FSExists
<1>4. Spec => []Secure
  BY StandsHolds DEF Secure
<1>5. QED BY <1>1, <1>2, <1>3, <1>4, PTL DEF Spec, UsedVolumesHold

----------------------------------------------------------------------------
(* The controller keeps the contract of a claim, with the class served     *)
(* from the moment everyone knows of it.                                   *)

\* A pass past the finalizers has seen the operator's.
SeenInv == pc \notin {"idle", "handleFinalizers"} => mem.fin

\* Once any version of the claim carries it, or there is a Filesystem, the claim does.
FinInv ==
    fsc.fin \/ cache.fin \/ mem.fin \/ FSExists => fsc.uid # 0 /\ (fsc.exists => fsc.fin)

\* When the claim is gone, the versions that carry it are of a claim being deleted.
LeftInv == ~fsc.exists => (cache.fin => Away(cache)) /\ (mem.fin => Away(mem))

KeeperInv == SeenInv /\ FinInv /\ LeftInv

LEMMA NextSeen == ASSUME SeenInv, ClaimStep PROVE SeenInv'
<1>1. CASE pc' \in {"idle", "handleFinalizers"}
  BY <1>1 DEF SeenInv
<1>2. CASE UNCHANGED <<mem, pc>>
  BY <1>2 DEF SeenInv
<1>3. CASE mem' = mem /\ pc # "idle" /\ (pc = "handleFinalizers" => mem.fin)
  BY <1>3 DEF SeenInv
<1>4. QED
  BY <1>1, <1>2, <1>3
  DEF ClaimStep, Still, Syncs, Starts, Moves, Ends, Ended, MarkWrite, BlockWrite, StageWrite,
      ProvisionWrite, Writes, Creates, Turns, Provisioning

\* While the claim is there, the finalizer goes only with it.
LEMMA FinalizerStays ==
    ASSUME VersionsInv, ClaimStep, fsc.exists, fsc.fin PROVE fsc'.exists => fsc'.fin
<1>1. ~(pc = "removeFinalizer" /\ ~fsc.del)
  BY DEF VersionsInv, OrderInv, Cleaning, Deleting, Away
<1>2. QED
  BY <1>1, GoneSays
  DEF ClaimStep, Still, Syncs, Starts, Moves, Ends, MarkWrite, BlockWrite, StageWrite,
      ProvisionWrite, Writes, Creates, Turns

\* A Filesystem is there or being created.
LEMMA StoreFrom ==
    ASSUME TypeOK, [Next]_vars, FSExists', ~FSExists
    PROVE  pc = "ensureFileSystem" /\ UNCHANGED <<fsc, sc>>
  BY FsShape DEF FsStep, FSExists, NoFS

LEMMA NextFin ==
    ASSUME OneClaim, BaseInv, SeenInv, FinInv, TypeOK', [Next]_vars, ClaimStep PROVE FinInv'
<1>1. ClaimOK /\ VersionsInv /\ TypeOK /\ FirstClaim'
  BY TypeParts, OnlyClaim DEF BaseInv
<1>2. ~Gone(0).fin /\ cache' \in {cache, fsc} /\ mem' \in {mem, cache, Gone(0)}
  BY CopiesFrom DEF Gone
<1>3. cache'.fin \/ mem'.fin \/ FSExists' => fsc.fin \/ cache.fin \/ mem.fin \/ FSExists
  BY <1>1, <1>2, StoreFrom DEF SeenInv
<1>4. CASE Creates
  <2>1. fsc.uid = 0 /\ ~fsc'.fin
    BY <1>1, <1>4, FirstCreated DEF Creates
  <2>2. QED BY <1>3, <2>1 DEF FinInv
<1>5. CASE Turns
  <2>1. fsc.exists /\ fsc'.uid = fsc.uid /\ fsc.uid # 0
    BY <1>1, <1>5, GoneSays DEF Turns, VersionsInv, BornInv
  <2>2. QED BY <1>1, <1>3, <2>1, FinalizerStays DEF FinInv
<1>6. CASE fsc'.exists = fsc.exists /\ fsc'.uid = fsc.uid /\ fsc'.fin = fsc.fin
  BY <1>3, <1>6 DEF FinInv
<1>7. QED
  BY <1>4, <1>5, <1>6
  DEF ClaimStep, Still, Syncs, Starts, Moves, Ends, MarkWrite, BlockWrite, StageWrite,
      ProvisionWrite, Writes

LEMMA NextLeft ==
    ASSUME VersionsInv, FinInv, LeftInv, ClaimStep PROVE LeftInv'
<1>1. Away(Gone(0))
  BY GoneSays DEF Away
<1>2. CASE fsc'.exists
  BY <1>2 DEF LeftInv
<1>3. CASE Turns /\ ~fsc'.exists
  <2>1. fsc.exists /\ cache' = cache /\ mem' \in {mem, Gone(0)}
    BY <1>3 DEF Turns, Ended
  <2>2. CASE ~fsc.fin
    BY <1>1, <2>1, <2>2 DEF FinInv, LeftInv, Away
  <2>3. CASE pc = "removeFinalizer" /\ Ended
    <3>1. Away(cache) /\ mem' = Gone(0)
      BY <2>3 DEF Ended, VersionsInv, OrderInv, Cleaning, Deleting
    <3>2. QED BY <1>1, <2>1, <3>1 DEF LeftInv, Away
  <2>4. QED BY <1>3, <2>2, <2>3 DEF Turns
<1>4. CASE fsc' = fsc /\ ~fsc'.exists
  <2>1. cache' \in {cache, fsc} /\ mem' \in {mem, cache, Gone(0)}
    BY CopiesFrom
  <2>2. QED BY <1>1, <1>4, <2>1 DEF LeftInv, Away
<1>5. QED
  BY <1>2, <1>3, <1>4
  DEF ClaimStep, Still, Syncs, Starts, Moves, Ends, MarkWrite, BlockWrite, StageWrite,
      ProvisionWrite, Writes, Creates

LEMMA KeeperHolds ==
    ASSUME OneClaim, Untampered PROVE Spec => [](Secure /\ KeeperInv)
<1>1. Init => KeeperInv
  <2>1. ~Gone(0).fin /\ NoFS.st = "absent"
    BY DEF Gone, NoFS
  <2>2. QED BY <2>1 DEF Init, KeeperInv, SeenInv, FinInv, LeftInv, FSExists
<1>2. Secure /\ KeeperInv /\ TypeOK' /\ [Next]_vars => KeeperInv'
  BY StepShape, NextSeen, NextFin, NextLeft DEF Secure, BaseInv, KeeperInv
<1>3. Spec => []Secure
  BY StandsHolds DEF Secure
<1>4. QED BY <1>1, <1>2, <1>3, TypeCorrect, PTL DEF Spec

\* A claim that is being provisioned is there, and its cleanup has not begun.
LEMMA ProvisionedLives ==
    ASSUME Secure, KeeperInv, pc \in Provisioning PROVE fsc.exists /\ ~Over
<1>1. mem.fin /\ mem.exists /\ ~mem.del
  BY DEF KeeperInv, SeenInv, Secure, BaseInv, VersionsInv, BornInv, DeletionInv, PassInv,
         Provisioning
<1>2. fsc.exists
  BY <1>1 DEF KeeperInv, LeftInv, Away
<1>3. QED BY <1>2, NoneRequested DEF Secure, BaseInv, Over

\* The claim as the contract sees it, and the class everyone knows of.
Seen == IF ~fsc.exists THEN "none" ELSE IF fsc.del THEN "deleting" ELSE "live"
Served == Held /\ sc # "absent"

ContractStep == [KnownContract!ContractNext]_(KnownContract!contractVars)

LEMMA SameContract ==
    ASSUME Seen' = Seen, FSExists <=> FSExists', Served <=> Served' PROVE ContractStep
  BY DEF Seen, Served, FSExists, ContractStep, KnownContract!contractVars

\* A class stops being served only by being deleted, with its claim: Withdraw.
LEMMA WithdrawStep ==
    ASSUME OneClaim, Untampered, Secure, [Next]_vars, Served, ~Served' PROVE ContractStep
<1>1. EnvOK /\ ClaimStep /\ PassedInv /\ Held /\ ClassRecorded /\ sc # "absent"
  BY TypeParts, StepShape DEF Secure, BaseInv, Served, Held
<1>2. FSExists /\ FSExists' /\ ~fs'.del
  BY <1>1, StoreSecure DEF Held
<1>3. ~Untells
  BY <1>1 DEF Untells, StageWrite, StageDone
<1>4. ClassRecorded'
  BY <1>1, <1>3, ClaimKeepsRecord
<1>5. sc' = "absent"
  BY <1>2, <1>4 DEF Served, Held, FSExists
<1>6. pc = "deleteStorageClass" /\ UNCHANGED <<fsc, fs>>
  BY <1>1, <1>5, ScShape DEF ScStep, Untampered
<1>7. fsc.exists /\ fsc.del
  BY <1>1, <1>6
  DEF Secure, BaseInv, VersionsInv, OrderInv, Cleaning, Deleting, Away, ClassRecorded
<1>8. KnownContract!Withdraw
  BY <1>1, <1>2, <1>5, <1>6, <1>7 DEF KnownContract!Withdraw, Held
<1>9. QED BY <1>8 DEF ContractStep, KnownContract!ContractNext

\* A class comes to be served on its filesystem, by a step that neither creates nor
\* deletes the claim: Serve.
LEMMA ServeStep ==
    ASSUME Secure, KeeperInv, [Next]_vars, ~Served, Served' PROVE ContractStep
<1>1. TypeOK /\ ClaimOK /\ ClaimStep /\ fs \in Filesystems
  BY TypeParts, StepShape DEF Secure, BaseInv, TypeOK
<1>2. Held' /\ ClassRecorded' /\ FSExists' /\ ~fs'.del /\ sc' # "absent" /\ fsc'.exists /\ fsc'.fin
  BY DEF Served, Held, FSExists, ClassRecorded
<1>3. FSExists
  <2>1. SUFFICES ASSUME ~FSExists PROVE FALSE
    OBVIOUS
  <2>2. pc = "ensureFileSystem" /\ sc # "absent"
    BY <1>1, <1>2, <2>1, StoreFrom
  <2>3. ~Over
    BY <2>2, ProvisionedLives DEF Provisioning
  <2>4. QED BY <2>1, <2>2, <2>3 DEF Secure, StandsInv, ClassInv
<1>4. fsc.exists /\ fsc'.del = fsc.del
  <2>1. CASE fsc.exists /\ fsc'.del = fsc.del
    BY <2>1
  <2>2. CASE Turns /\ fsc'.del # fsc.del
    <3>1. /\ fsc.exists /\ fsc'.fin = fsc.fin /\ fsc'.cond = fsc.cond
          /\ UNCHANGED <<cache, mem, pc>>
      BY <1>2, <2>2, GoneSays DEF Turns
    <3>2. ClassRecorded
      BY <1>2, <3>1 DEF ClassRecorded, Tells, isConditionTrue
    <3>3. ~fs.del
      BY <1>1, <1>2, <2>2, StoreShape DEF StoreStep, StoreKept, StoreGoes, Lays, NoFS, FSExists
    <3>4. sc # "absent"
      BY <1>2, <2>2, ScShape DEF ScStep
    <3>5. QED BY <1>3, <3>2, <3>3, <3>4 DEF Served, Held
  <2>3. ~Creates
    BY <1>2 DEF Creates
  <2>4. CASE fsc' = fsc
    BY <1>2, <2>4
  <2>5. QED
    BY <1>1, <2>1, <2>2, <2>3, <2>4
    DEF ClaimStep, Still, Syncs, Starts, Moves, Ends, MarkWrite, BlockWrite, StageWrite,
        ProvisionWrite, Writes, Turns
<1>5. KnownContract!Serve
  BY <1>2, <1>3, <1>4 DEF KnownContract!Serve, Served, Held, FSExists
<1>6. QED BY <1>5 DEF ContractStep, KnownContract!ContractNext

\* The filesystem comes and goes: Store and Destroy.
LEMMA FilesystemStep ==
    ASSUME Secure, KeeperInv, [Next]_vars, Served <=> Served', ~(FSExists <=> FSExists')
    PROVE  ContractStep
<1>1. TypeOK /\ VersionsInv
  BY DEF Secure, BaseInv
<1>2. ~Served /\ ~Served'
  BY DEF Served, Held, FSExists
<1>3. CASE ~FSExists
  <2>1. pc = "ensureFileSystem" /\ fsc' = fsc /\ FSExists'
    BY <1>1, <1>3, StoreFrom
  <2>2. fsc.exists
    BY <2>1, ProvisionedLives DEF Provisioning
  <2>3. KnownContract!Store
    BY <1>2, <1>3, <2>1, <2>2 DEF KnownContract!Store, Served, FSExists
  <2>4. QED BY <2>3 DEF ContractStep, KnownContract!ContractNext
<1>4. CASE FSExists
  <2>1. fs.del /\ fsc' = fsc /\ ~FSExists'
    BY <1>1, <1>4, FsShape DEF FsStep, FSExists, NewFilesystem
  <2>2. ~fsc.exists \/ fsc.del
    BY <1>1, <2>1 DEF Secure, BaseInv, KeptInv, Over, VersionsInv, MarkInv, Away
  <2>3. KnownContract!Destroy
    BY <1>2, <1>4, <2>1, <2>2 DEF KnownContract!Destroy, Served, FSExists
  <2>4. QED BY <2>3 DEF ContractStep, KnownContract!ContractNext
<1>5. QED BY <1>3, <1>4

\* The steps of the claim alone: Create, Delete, Forget and Finish.
LEMMA ClaimOnlyStep ==
    ASSUME Secure, KeeperInv, [Next]_vars, Served <=> Served', FSExists <=> FSExists'
    PROVE  ContractStep
<1>1. ClaimStep /\ VersionsInv /\ PassedInv
  BY StepShape DEF Secure, BaseInv
<1>2. CASE (fsc'.exists <=> fsc.exists) /\ (fsc'.del <=> fsc.del)
  BY <1>2, SameContract DEF Seen
<1>3. CASE Creates
  <2>1. KnownContract!Create
    BY <1>3 DEF Creates, KnownContract!Create, Served, FSExists
  <2>2. QED BY <2>1 DEF ContractStep, KnownContract!ContractNext
<1>4. CASE Turns /\ fsc'.exists /\ ~fsc.del /\ fsc'.del
  <2>1. KnownContract!Delete
    BY <1>4 DEF Turns, KnownContract!Delete, Served, FSExists
  <2>2. QED BY <2>1 DEF ContractStep, KnownContract!ContractNext
<1>5. CASE Turns /\ fsc' = Gone(fsc.uid) /\ ~fsc.del /\ ~fsc.fin
  <2>1. fsc.exists /\ ~fsc'.exists
    BY <1>5, GoneSays DEF Turns
  <2>2. ~FSExists /\ ~Served
    BY <1>5, <2>1 DEF KeeperInv, FinInv, Served, Held, ClassRecorded
  <2>3. KnownContract!Forget
    BY <1>5, <2>1, <2>2 DEF KnownContract!Forget, Served, FSExists
  <2>4. QED BY <2>3 DEF ContractStep, KnownContract!ContractNext
<1>6. CASE Turns /\ fsc' = Gone(fsc.uid) /\ pc = "removeFinalizer"
  <2>1. fsc.exists /\ ~fsc'.exists
    BY <1>6, GoneSays DEF Turns
  <2>2. fsc.del
    BY <1>1, <1>6, <2>1 DEF VersionsInv, OrderInv, Cleaning, Deleting, Away
  <2>3. ~Served
    BY <1>1, <1>6 DEF PassedInv, Served, Held, ClassRecorded, Tells
  <2>4. KnownContract!Finish
    BY <2>1, <2>2, <2>3 DEF KnownContract!Finish, Served, FSExists
  <2>5. QED BY <2>4 DEF ContractStep, KnownContract!ContractNext
<1>7. CASE Turns
  BY <1>2, <1>4, <1>5, <1>6, <1>7 DEF Turns
<1>8. QED
  BY <1>1, <1>2, <1>3, <1>7
  DEF ClaimStep, Still, Syncs, Starts, Moves, Ends, MarkWrite, BlockWrite, StageWrite,
      ProvisionWrite, Writes

\* The controller, with the informer, Storage Scale and the garbage collector, implements
\* the contract of a claim with any lag of the cache, any failed call and a restart at any
\* point, where a class is served from the moment everyone knows of it. It takes that
\* nobody deletes objects behind the controller's back, and a claim of a name used once
\* without foreign finalizers.
THEOREM KnownContractIsKept == ASSUME OneClaim, Untampered PROVE Spec => KeepsKnownContract
<1>1. Init => KnownContract!ContractInit
  BY GoneSays DEF Init, NoFS, KnownContract!ContractInit
<1>2. Secure /\ KeeperInv /\ [Next]_vars => ContractStep
  BY WithdrawStep, ServeStep, FilesystemStep, ClaimOnlyStep
<1>3. QED BY <1>1, <1>2, KeeperHolds, PTL
          DEF Spec, KeepsKnownContract, KnownContract!ContractSpec, ContractStep
=============================================================================
