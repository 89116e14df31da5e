------------------------ MODULE FileSystemClaimProofs ------------------------
(***************************************************************************)
(* Theorems about FileSystemClaim for every value of its constants: the    *)
(* type invariant, and that a pass over a claim being deleted creates      *)
(* nothing when no other finalizer than the operator's is in play.         *)
(***************************************************************************)
EXTENDS FileSystemClaim, TLAPS

(* The type invariant by owner of the variables.                           *)

ClaimOK == fsc \in Claims /\ dirty \in BOOLEAN
PassOK ==
    /\ queued \in BOOLEAN /\ timer \in BOOLEAN /\ pc \in Pcs /\ mem \in Claims
    /\ todo \in Seq(Devices) /\ node \in Nodes \cup {NoNode}
    /\ pc \in {"createLocalDisk", "recordLocalDisk"} => node \in Nodes
    /\ pc = "recordLocalDisk" => todo # <<>>
ChildOK == ld \in [Wwns -> LocalDisks] /\ fs \in Filesystems /\ sc \in SCStates
EnvOK ==
    /\ cache \in Claims /\ pv \in PVStates /\ discovery \in Discoveries
    /\ upsets \in 0..MaxUpsets
FaultOK == faults \in 0..MaxFaults

\* The parts are the whole.
LEMMA TypeParts == TypeOK <=> ClaimOK /\ PassOK /\ ChildOK /\ EnvOK /\ FaultOK
  BY DEF TypeOK, ClaimOK, PassOK, ChildOK, EnvOK, FaultOK

LEMMA TypePartsPrime ==
    (ClaimOK /\ PassOK /\ ChildOK /\ EnvOK /\ FaultOK)' => TypeOK'
  BY DEF TypeOK, ClaimOK, PassOK, ChildOK, EnvOK, FaultOK

\* The claim that is not there is a claim record.
LEMMA GoneClaim == ASSUME NEW u \in 0..MaxClaims PROVE Gone(u) \in Claims
  BY DEF Gone, Claims, NoConditions, CondTypes, Reasons

\* What the proofs use of the assumption on the constants.
LEMMA Bounds == MaxClaims \in Nat /\ MaxUpsets \in Nat /\ MaxFaults \in Nat
  BY ConstantsAssumption

LEMMA ListsOfDevices == DeviceLists \cup {<<>>} \subseteq Seq(Devices)
<1>1. DeviceLists \subseteq Seq(Devices)
  BY ConstantsAssumption
<1>2. <<>> \in Seq(Devices)
  OBVIOUS
<1>3. QED BY <1>1, <1>2

LEMMA ZeroGone == Gone(0) \in Claims
  BY GoneClaim, Bounds

\* The handlers that have no loop variables of their own.
Plain == Pcs \ {"createLocalDisk", "recordLocalDisk"}

LEMMA GotoType ==
    ASSUME ClaimOK, PassOK, NEW l \in Plain, Goto(l) PROVE ClaimOK' /\ PassOK'
  BY DEF ClaimOK, PassOK, Goto, claimVars, Plain

LEMMA EndPassType ==
    ASSUME PassOK, NEW a \in BOOLEAN, NEW b \in BOOLEAN, EndPass(a, b) PROVE PassOK'
  BY ZeroGone DEF PassOK, EndPass, Pcs

LEMMA ReturnType ==
    ASSUME ClaimOK, PassOK, Return \/ Requeue PROVE ClaimOK' /\ PassOK'
  BY EndPassType DEF ClaimOK, Return, Requeue, claimVars

LEMMA StatusPatchType ==
    ASSUME ClaimOK, NEW new \in [CondTypes -> Reasons], StatusPatch(new) PROVE ClaimOK'
  BY DEF ClaimOK, StatusPatch, claimVars, Claims

LEMMA PatchType ==
    ASSUME ClaimOK, PassOK, NEW new \in [CondTypes -> Reasons], NEW b \in BOOLEAN,
           patchFSCStatus(new, b)
    PROVE  ClaimOK' /\ PassOK'
  BY EndPassType, StatusPatchType, ReturnType DEF patchFSCStatus

LEMMA CacheCond ==
    ASSUME EnvOK, NEW t \in CondTypes, NEW r \in Reasons
    PROVE  [cache.cond EXCEPT ![t] = r] \in [CondTypes -> Reasons]
  BY DEF EnvOK, Claims

LEMMA UpdateGotoType ==
    ASSUME ClaimOK, PassOK, EnvOK, NEW t \in CondTypes, NEW r \in Reasons, NEW l \in Plain,
           updateConditionIfChanged(t, r, Goto(l))
    PROVE  ClaimOK' /\ PassOK'
  BY GotoType, CacheCond, PatchType DEF updateConditionIfChanged

LEMMA UpdateReturnType ==
    ASSUME ClaimOK, PassOK, EnvOK, NEW t \in CondTypes, NEW r \in Reasons,
           updateConditionIfChanged(t, r, Return)
    PROVE  ClaimOK' /\ PassOK'
  BY ReturnType, CacheCond, PatchType DEF updateConditionIfChanged

LEMMA BlockDeletionType ==
    ASSUME ClaimOK, PassOK, EnvOK, NEW r \in Reasons, BlockDeletion(r)
    PROVE  ClaimOK' /\ PassOK'
<1>1. "DeletionBlocked" \in CondTypes
  BY DEF CondTypes
<1>2. CASE Unchanged("DeletionBlocked", r)
  BY <1>2, EndPassType DEF BlockDeletion, ClaimOK, claimVars
<1>3. CASE ~Unchanged("DeletionBlocked", r)
  BY <1>1, <1>3, CacheCond, PatchType DEF BlockDeletion
<1>4. QED BY <1>2, <1>3

LEMMA CreationErrorType ==
    ASSUME ClaimOK, PassOK, EnvOK, NEW t \in CondTypes, handleResourceCreationError(t)
    PROVE  ClaimOK' /\ PassOK'
<1>1. [cache.cond EXCEPT ![t] = "Failed", !["Ready"] = "Failed"] \in [CondTypes -> Reasons]
  BY DEF EnvOK, Claims, CondTypes, Reasons
<1>2. QED BY <1>1, PatchType DEF handleResourceCreationError

LEMMA PatchSpecType ==
    ASSUME ClaimOK, PassOK, EnvOK, NEW f \in BOOLEAN, patchFSCSpec(f)
    PROVE  ClaimOK' /\ PassOK'
<1>1. CASE Return \/ Requeue
  BY <1>1, ReturnType
<1>2. CASE ~(Return \/ Requeue)
  <2>1. fsc.uid \in 0..MaxClaims
    BY DEF ClaimOK, Claims
  <2>2. Gone(fsc.uid) \in Claims
    BY <2>1, GoneClaim
  <2>3. [fsc EXCEPT !.fin = f, !.hold = cache.hold] \in Claims
    BY DEF ClaimOK, EnvOK, Claims
  <2>4. ClaimOK'
    BY <1>2, <2>2, <2>3 DEF ClaimOK, patchFSCSpec
  <2>5. PassOK'
    BY <1>2, EndPassType DEF patchFSCSpec
  <2>6. QED BY <2>4, <2>5
<1>3. QED BY <1>1, <1>2

Rest == UNCHANGED <<childVars, envVars, faults>>

LEMMA RestType ==
    ASSUME ChildOK, EnvOK, FaultOK, Rest PROVE ChildOK' /\ EnvOK' /\ FaultOK'
  BY DEF Rest, childVars, envVars, ChildOK, EnvOK, FaultOK

----------------------------------------------------------------------------
(* The handlers keep the types.                                            *)

LEMMA ReconcileType == ASSUME TypeOK, Reconcile PROVE TypeOK'
<1>1. ClaimOK /\ PassOK /\ ChildOK /\ EnvOK /\ FaultOK
  BY TypeParts
<1>2. ClaimOK' /\ PassOK'
  BY <1>1 DEF Reconcile, ClaimOK, PassOK, EnvOK, claimVars, Pcs
<1>3. Rest
  BY DEF Reconcile, Rest
<1>4. QED BY <1>1, <1>2, <1>3, RestType, TypePartsPrime

LEMMA FinalizerType == ASSUME TypeOK, handleFinalizers \/ removeFinalizer PROVE TypeOK'
<1>1. ClaimOK /\ PassOK /\ ChildOK /\ EnvOK /\ FaultOK
  BY TypeParts
<1>2. "handleDeletion" \in Plain
  BY DEF Plain, Pcs
<1>3. ClaimOK' /\ PassOK'
  BY <1>1, <1>2, GotoType, PatchSpecType DEF handleFinalizers, removeFinalizer
<1>4. Rest
  BY DEF handleFinalizers, removeFinalizer, Rest
<1>5. QED BY <1>1, <1>3, <1>4, RestType, TypePartsPrime

LEMMA DeletionStepType ==
    ASSUME TypeOK, handleDeletion \/ checkStorageClassUsage \/ checkFilesystemDeletionLabel
    PROVE  TypeOK'
<1>1. ClaimOK /\ PassOK /\ ChildOK /\ EnvOK /\ FaultOK
  BY TypeParts
<1>2. {"ensureLocalDisks", "checkStorageClassUsage", "checkFilesystemDeletionLabel",
       "deleteStorageClass"} \subseteq Plain
  BY DEF Plain, Pcs
<1>3. "Ready" \in CondTypes /\ {"DeletionRequested", "StorageClassInUse",
                                "FileSystemLabelNotPresent"} \subseteq Reasons
  BY DEF CondTypes, Reasons, TrueReasons
<1>4. CASE handleDeletion
  <2>1. ClaimOK' /\ PassOK'
    BY <1>1, <1>2, <1>3, <1>4, GotoType, UpdateGotoType DEF handleDeletion, markDeletionRequested
  <2>2. Rest
    BY <1>4 DEF handleDeletion, Rest
  <2>3. QED BY <1>1, <2>1, <2>2, RestType, TypePartsPrime
<1>5. CASE checkStorageClassUsage
  <2>1. ClaimOK' /\ PassOK'
    BY <1>1, <1>2, <1>3, <1>5, GotoType, BlockDeletionType DEF checkStorageClassUsage
  <2>2. Rest
    BY <1>5 DEF checkStorageClassUsage, Rest
  <2>3. QED BY <1>1, <2>1, <2>2, RestType, TypePartsPrime
<1>6. CASE checkFilesystemDeletionLabel
  <2>1. ClaimOK' /\ PassOK'
    BY <1>1, <1>2, <1>3, <1>6, GotoType, BlockDeletionType DEF checkFilesystemDeletionLabel
  <2>2. Rest
    BY <1>6 DEF checkFilesystemDeletionLabel, Rest
  <2>3. QED BY <1>1, <2>1, <2>2, RestType, TypePartsPrime
<1>7. QED BY <1>4, <1>5, <1>6

LEMMA DeleteStorageClassType == ASSUME TypeOK, deleteStorageClass PROVE TypeOK'
<1>1. ClaimOK /\ PassOK /\ ChildOK /\ EnvOK /\ FaultOK
  BY TypeParts
<1>2. /\ "deleteFilesystem" \in Plain /\ "StorageClassCreated" \in CondTypes
      /\ "Deleted" \in Reasons
  BY DEF Plain, Pcs, CondTypes, Reasons
<1>3. CASE sc' = "absent" /\ EndPass(enqueueFSCByStorageClass(sc), FALSE) /\ UNCHANGED claimVars
  <2>1. enqueueFSCByStorageClass(sc) \in BOOLEAN
    BY DEF enqueueFSCByStorageClass
  <2>2. ClaimOK' /\ PassOK'
    BY <1>1, <1>3, <2>1, ZeroGone DEF ClaimOK, claimVars, PassOK, EndPass, Pcs
  <2>3. ChildOK' /\ EnvOK' /\ FaultOK'
    BY <1>1, <1>3 DEF deleteStorageClass, ChildOK, SCStates, EnvOK, FaultOK, envVars
  <2>4. QED BY <2>2, <2>3, TypePartsPrime
<1>4. CASE UNCHANGED sc
  <2>1. ClaimOK' /\ PassOK'
    BY <1>1, <1>2, <1>3, <1>4, GotoType, UpdateGotoType DEF deleteStorageClass, TypeOK, ClaimOK, PassOK
  <2>2. Rest
    BY <1>4 DEF deleteStorageClass, Rest, childVars
  <2>3. QED BY <1>1, <2>1, <2>2, RestType, TypePartsPrime
<1>5. QED BY <1>3, <1>4 DEF deleteStorageClass

LEMMA DeleteFilesystemType == ASSUME TypeOK, deleteFilesystem PROVE TypeOK'
<1>1. ClaimOK /\ PassOK /\ ChildOK /\ EnvOK /\ FaultOK
  BY TypeParts
<1>2. /\ "deleteLocalDisks" \in Plain /\ "FileSystemCreated" \in CondTypes
      /\ "Deleted" \in Reasons
  BY DEF Plain, Pcs, CondTypes, Reasons
<1>3. CASE isConditionTrue(mem, "FileSystemCreated") /\ OwnedFS
  <2>1. ClaimOK' /\ PassOK'
    BY <1>1, <1>3, EndPassType DEF deleteFilesystem, ClaimOK, claimVars
  <2>2. ChildOK' /\ EnvOK' /\ FaultOK'
    BY <1>1, <1>3 DEF deleteFilesystem, ChildOK, Filesystems, EnvOK, FaultOK, envVars
  <2>3. QED BY <2>1, <2>2, TypePartsPrime
<1>4. CASE ~(isConditionTrue(mem, "FileSystemCreated") /\ OwnedFS)
  <2>1. ClaimOK' /\ PassOK'
    BY <1>1, <1>2, <1>4, GotoType, UpdateGotoType DEF deleteFilesystem
  <2>2. Rest
    BY <1>4 DEF deleteFilesystem, Rest, childVars
  <2>3. QED BY <1>1, <2>1, <2>2, RestType, TypePartsPrime
<1>5. QED BY <1>3, <1>4

LEMMA DeleteLocalDisksType == ASSUME TypeOK, deleteLocalDisks PROVE TypeOK'
<1>1. ClaimOK /\ PassOK /\ ChildOK /\ EnvOK /\ FaultOK
  BY TypeParts
<1>2. /\ "removeFinalizer" \in Plain /\ "LocalDiskCreated" \in CondTypes
      /\ "Deleted" \in Reasons
  BY DEF Plain, Pcs, CondTypes, Reasons
<1>3. CASE isConditionTrue(mem, "LocalDiskCreated") /\ OwnedLDs # {}
  <2>1. PICK S \in SUBSET OwnedLDs :
          /\ ld' = [w \in Wwns |-> IF w \in S THEN [ld[w] EXCEPT !.del = TRUE] ELSE ld[w]]
          /\ \/ S = OwnedLDs /\ EndPass(FALSE, TRUE) /\ UNCHANGED faults
             \/ /\ S # OwnedLDs /\ CanFail("error") /\ faults' = faults + 1
                /\ EndPass(TRUE, FALSE)
    BY <1>3 DEF deleteLocalDisks
  <2>2. ClaimOK' /\ PassOK'
    BY <1>1, <1>3, <2>1, EndPassType DEF deleteLocalDisks, ClaimOK, claimVars
  <2>3. ChildOK' /\ EnvOK'
    BY <1>1, <1>3, <2>1 DEF deleteLocalDisks, ChildOK, LocalDisks, EnvOK, envVars
  <2>4. FaultOK'
    <3>1. faults' = faults \/ (faults < MaxFaults /\ faults' = faults + 1)
      BY <2>1 DEF CanFail
    <3>2. QED BY <1>1, <3>1, Bounds DEF FaultOK
  <2>5. QED BY <2>2, <2>3, <2>4, TypePartsPrime
<1>4. CASE ~(isConditionTrue(mem, "LocalDiskCreated") /\ OwnedLDs # {})
  <2>1. ClaimOK' /\ PassOK'
    BY <1>1, <1>2, <1>4, GotoType, UpdateGotoType DEF deleteLocalDisks
  <2>2. Rest
    BY <1>4 DEF deleteLocalDisks, Rest, childVars
  <2>3. QED BY <1>1, <2>1, <2>2, RestType, TypePartsPrime
<1>5. QED BY <1>3, <1>4

LEMMA EnsureLocalDisksType == ASSUME TypeOK, ensureLocalDisks PROVE TypeOK'
<1>1. ClaimOK /\ PassOK /\ ChildOK /\ EnvOK /\ FaultOK
  BY TypeParts
<1>2. "syncLocalDiskConditions" \in Plain
  BY DEF Plain, Pcs
<1>3. /\ [cache.cond EXCEPT !["Ready"] = "ImmutableFieldModified"] \in [CondTypes -> Reasons]
      /\ [cache.cond EXCEPT !["DeviceValidated"] = "Succeeded"] \in [CondTypes -> Reasons]
      /\ [cache.cond EXCEPT !["Ready"] = "ValidationFailed", !["DeviceValidated"] = "Failed"]
             \in [CondTypes -> Reasons]
  BY <1>1 DEF EnvOK, Claims, CondTypes, Reasons, TrueReasons
<1>4. CASE /\ node' \in Nodes /\ todo' = mem.devices /\ pc' = "createLocalDisk"
           /\ UNCHANGED <<claimVars, queued, timer, mem>>
  <2>1. mem.devices \in Seq(Devices)
    BY <1>1, ListsOfDevices DEF PassOK, Claims
  <2>2. ClaimOK' /\ PassOK'
    BY <1>1, <1>4, <2>1 DEF ClaimOK, PassOK, claimVars, Pcs
  <2>3. QED BY <1>1, <2>2, RestType, TypePartsPrime DEF ensureLocalDisks, Rest
<1>5. CASE ~(node' \in Nodes /\ todo' = mem.devices /\ pc' = "createLocalDisk"
           /\ UNCHANGED <<claimVars, queued, timer, mem>>)
  <2>1. ClaimOK' /\ PassOK'
    BY <1>1, <1>2, <1>3, <1>5, GotoType, PatchType
       DEF ensureLocalDisks, handleValidationError
  <2>2. Rest
    BY DEF ensureLocalDisks, Rest
  <2>3. QED BY <1>1, <2>1, <2>2, RestType, TypePartsPrime
<1>6. QED BY <1>4, <1>5

LEMMA LocalDiskLoopType ==
    ASSUME TypeOK, recordLocalDisk \/ endLocalDisks PROVE TypeOK'
<1>1. ClaimOK /\ PassOK /\ ChildOK /\ EnvOK /\ FaultOK
  BY TypeParts
<1>2. Rest
  BY DEF recordLocalDisk, endLocalDisks, Rest
<1>3. CASE recordLocalDisk
  <2>1. [cache.cond EXCEPT !["LocalDiskCreated"] = "Creating"] \in [CondTypes -> Reasons]
    BY <1>1 DEF EnvOK, Claims, CondTypes, Reasons, InProgress
  <2>2. CASE Requeue
    BY <1>1, <1>2, <2>2, ReturnType, RestType, TypePartsPrime
  <2>3. CASE ~Requeue
    <3>1. ClaimOK'
      BY <1>1, <1>3, <2>1, <2>3, StatusPatchType DEF recordLocalDisk
    <3>2. todo \in Seq(Devices) /\ todo # <<>> /\ node \in Nodes
      BY <1>1, <1>3 DEF recordLocalDisk, PassOK
    <3>3. Tail(todo) \in Seq(Devices)
      BY <3>2
    <3>4. PassOK'
      BY <1>1, <1>3, <2>3, <3>2, <3>3 DEF recordLocalDisk, PassOK, Pcs
    <3>5. QED BY <1>1, <1>2, <3>1, <3>4, RestType, TypePartsPrime
  <2>4. QED BY <2>2, <2>3
<1>4. CASE endLocalDisks
  <2>1. "syncLocalDiskConditions" \in Plain
    BY DEF Plain, Pcs
  <2>2. ClaimOK' /\ PassOK'
    BY <1>1, <1>4, <2>1, GotoType, ReturnType DEF endLocalDisks
  <2>3. QED BY <1>1, <1>2, <2>2, RestType, TypePartsPrime
<1>5. QED BY <1>3, <1>4

LEMMA CreateLocalDiskType == ASSUME TypeOK, createLocalDisk PROVE TypeOK'
<1>1. ClaimOK /\ PassOK /\ ChildOK /\ EnvOK /\ FaultOK
  BY TypeParts
<1>2. todo \in Seq(Devices) /\ todo # <<>> /\ node \in Nodes /\ Head(todo) \in Devices
  BY <1>1 DEF createLocalDisk, PassOK
<1>3. "LocalDiskCreated" \in CondTypes
  BY DEF CondTypes
<1>4. EnvOK'
  BY <1>1 DEF createLocalDisk, EnvOK, envVars
<1>5. CASE handleResourceCreationError("LocalDiskCreated") /\ UNCHANGED ld
  <2>1. ClaimOK' /\ PassOK'
    BY <1>1, <1>3, <1>5, CreationErrorType
  <2>2. ChildOK'
    BY <1>1, <1>5 DEF createLocalDisk, ChildOK
  <2>3. FaultOK'
    BY <1>1, Bounds DEF createLocalDisk, FaultOK, CanFail
  <2>4. QED BY <1>4, <2>1, <2>2, <2>3, TypePartsPrime
<1>6. CASE /\ getDeviceWWN(Head(todo)) \in Wwns
           /\ ld' = [ld EXCEPT ![getDeviceWWN(Head(todo))] = NewLocalDisk(Head(todo))]
           /\ Goto("recordLocalDisk") /\ UNCHANGED faults
  <2>1. ClaimOK' /\ PassOK'
    BY <1>1, <1>2, <1>6 DEF Goto, ClaimOK, PassOK, claimVars, Pcs
  <2>2. NewLocalDisk(Head(todo)) \in LocalDisks
    BY <1>1, <1>2 DEF NewLocalDisk, LocalDisks, LDStates, PassOK, Claims
  <2>3. ChildOK' /\ FaultOK'
    BY <1>1, <1>6, <2>2 DEF createLocalDisk, ChildOK, FaultOK
  <2>4. QED BY <1>4, <2>1, <2>3, TypePartsPrime
<1>7. CASE /\ pc' = "syncLocalDiskConditions" /\ todo' = <<>>
           /\ UNCHANGED <<claimVars, queued, timer, mem, node, ld, faults>>
  <2>1. ClaimOK' /\ PassOK'
    BY <1>1, <1>7 DEF ClaimOK, PassOK, claimVars, Pcs
  <2>2. ChildOK' /\ FaultOK'
    BY <1>1, <1>7 DEF createLocalDisk, ChildOK, FaultOK
  <2>3. QED BY <1>4, <2>1, <2>2, TypePartsPrime
<1>8. QED BY <1>5, <1>6, <1>7 DEF createLocalDisk

LEMMA SyncType ==
    ASSUME TypeOK, syncLocalDiskConditions \/ recordFileSystem \/ syncFilesystemConditions
                   \/ recordStorageClass \/ syncFSCReady
    PROVE  TypeOK'
<1>1. ClaimOK /\ PassOK /\ ChildOK /\ EnvOK /\ FaultOK
  BY TypeParts
<1>2. Rest
  BY DEF syncLocalDiskConditions, recordFileSystem, syncFilesystemConditions,
         recordStorageClass, syncFSCReady, Rest
<1>3. {"ensureFileSystem", "ensureStorageClass", "syncFSCReady"} \subseteq Plain
  BY DEF Plain, Pcs
<1>4. {"LocalDiskCreated", "FileSystemCreated", "StorageClassCreated", "Ready"} \subseteq CondTypes
  BY DEF CondTypes
<1>5. {"Waiting", "Succeeded", "UsedElsewhere", "NotReady", "Creating", "Created", "Present",
       "Provisioning"} \subseteq Reasons
  BY DEF Reasons, TrueReasons, InProgress
<1>6. ClaimOK' /\ PassOK'
  <2>1. CASE syncLocalDiskConditions
    BY <1>1, <1>3, <1>4, <1>5, <2>1, GotoType, UpdateGotoType DEF syncLocalDiskConditions
  <2>2. CASE recordFileSystem
    BY <1>1, <1>4, <1>5, <2>2, UpdateReturnType DEF recordFileSystem
  <2>3. CASE syncFilesystemConditions
    BY <1>1, <1>3, <1>4, <1>5, <2>3, GotoType, UpdateGotoType DEF syncFilesystemConditions
  <2>4. CASE recordStorageClass
    BY <1>1, <1>3, <1>4, <1>5, <2>4, UpdateGotoType, UpdateReturnType DEF recordStorageClass
  <2>5. CASE syncFSCReady
    BY <1>1, <1>4, <1>5, <2>5, UpdateReturnType DEF syncFSCReady
  <2>6. QED BY <2>1, <2>2, <2>3, <2>4, <2>5
<1>7. QED BY <1>1, <1>2, <1>6, RestType, TypePartsPrime

LEMMA EnsureFileSystemType == ASSUME TypeOK, ensureFileSystem PROVE TypeOK'
<1>1. ClaimOK /\ PassOK /\ ChildOK /\ EnvOK /\ FaultOK
  BY TypeParts
<1>2. /\ "FileSystemCreated" \in CondTypes /\ OwnedLDs \in SUBSET Wwns
      /\ {"syncFilesystemConditions", "recordFileSystem"} \subseteq Plain
  BY DEF CondTypes, OwnedLDs, Plain, Pcs
<1>3. EnvOK'
  BY <1>1 DEF ensureFileSystem, EnvOK, envVars
<1>4. ClaimOK' /\ PassOK'
  BY <1>1, <1>2, GotoType, ReturnType, CreationErrorType DEF ensureFileSystem
<1>5. FaultOK'
  <2>1. faults' = faults \/ (faults < MaxFaults /\ faults' = faults + 1)
    BY DEF ensureFileSystem, CanFail
  <2>2. QED BY <1>1, <2>1, Bounds DEF FaultOK
<1>6. ChildOK'
  <2>1. NewFilesystem(OwnedLDs) \in Filesystems
    BY <1>1, <1>2 DEF NewFilesystem, Filesystems, FSStates, PassOK, Claims
  <2>2. [fs EXCEPT !.disks = OwnedLDs] \in Filesystems
    BY <1>1, <1>2 DEF ChildOK, Filesystems
  <2>3. fs' \in {fs, NewFilesystem(OwnedLDs), [fs EXCEPT !.disks = OwnedLDs]}
    BY DEF ensureFileSystem
  <2>4. QED BY <1>1, <2>1, <2>2, <2>3 DEF ensureFileSystem, ChildOK
<1>7. QED BY <1>3, <1>4, <1>5, <1>6, TypePartsPrime

LEMMA EnsureStorageClassType == ASSUME TypeOK, ensureStorageClass PROVE TypeOK'
<1>1. ClaimOK /\ PassOK /\ ChildOK /\ EnvOK /\ FaultOK
  BY TypeParts
<1>2. /\ "StorageClassCreated" \in CondTypes /\ "Present" \in Reasons
      /\ {"syncFSCReady", "recordStorageClass"} \subseteq Plain
  BY DEF CondTypes, Reasons, TrueReasons, Plain, Pcs
<1>3. EnvOK'
  BY <1>1 DEF ensureStorageClass, EnvOK, envVars
<1>4. CASE reconcileExistingStorageClass /\ pc' = "recordDrift"
           /\ UNCHANGED <<claimVars, timer, mem, todo, node, faults>>
  <2>1. ClaimOK' /\ PassOK' /\ FaultOK'
    BY <1>1, <1>4 DEF reconcileExistingStorageClass, enqueueFSCByStorageClass,
                      ClaimOK, PassOK, FaultOK, claimVars, Pcs
  <2>2. ChildOK'
    BY <1>1, <1>4 DEF ensureStorageClass, reconcileExistingStorageClass, ChildOK, SCStates
  <2>3. QED BY <1>3, <2>1, <2>2, TypePartsPrime
<1>5. CASE ~(reconcileExistingStorageClass /\ pc' = "recordDrift"
             /\ UNCHANGED <<claimVars, timer, mem, todo, node, faults>>)
  <2>1. ClaimOK' /\ PassOK'
    BY <1>1, <1>2, <1>5, GotoType, UpdateGotoType, CreationErrorType DEF ensureStorageClass
  <2>2. FaultOK'
    <3>1. faults' = faults \/ (faults < MaxFaults /\ faults' = faults + 1)
      BY <1>5 DEF ensureStorageClass, CanFail
    <3>2. QED BY <1>1, <3>1, Bounds DEF FaultOK
  <2>3. ChildOK'
    BY <1>1, <1>5 DEF ensureStorageClass, ChildOK, SCStates
  <2>4. QED BY <1>3, <2>1, <2>2, <2>3, TypePartsPrime
<1>6. QED BY <1>4, <1>5

LEMMA ApiErrorType == ASSUME TypeOK, ApiError PROVE TypeOK'
<1>1. ClaimOK /\ PassOK /\ ChildOK /\ EnvOK /\ FaultOK
  BY TypeParts
<1>2. ClaimOK' /\ PassOK'
  BY <1>1, ReturnType DEF ApiError
<1>3. ChildOK' /\ EnvOK'
  BY <1>1 DEF ApiError, ChildOK, EnvOK, childVars, envVars
<1>4. FaultOK'
  BY <1>1, Bounds DEF ApiError, CanFail, FaultOK
<1>5. QED BY <1>2, <1>3, <1>4, TypePartsPrime

LEMMA CrashType == ASSUME TypeOK, Crash PROVE TypeOK'
<1>1. ClaimOK /\ PassOK /\ ChildOK /\ EnvOK /\ FaultOK
  BY TypeParts
<1>2. ClaimOK'
  BY <1>1 DEF Crash, ClaimOK
<1>3. PassOK'
  <2>1. fsc.exists \in BOOLEAN
    BY <1>1 DEF ClaimOK, Claims
  <2>2. queued' \in BOOLEAN
    BY <2>1 DEF Crash
  <2>3. pc' \in Pcs /\ pc' = "idle" /\ mem' \in Claims /\ timer' \in BOOLEAN
    BY ZeroGone DEF Crash, Pcs
  <2>4. todo' \in Seq(Devices) /\ node' \in Nodes \cup {NoNode}
    BY DEF Crash
  <2>5. QED BY <2>2, <2>3, <2>4 DEF PassOK
<1>4. ChildOK' /\ EnvOK'
  BY <1>1 DEF Crash, ClaimOK, ChildOK, EnvOK, childVars
<1>5. FaultOK'
  BY <1>1, Bounds DEF Crash, CanFail, FaultOK
<1>6. QED BY <1>2, <1>3, <1>4, <1>5, TypePartsPrime

LEMMA HandlerType == ASSUME TypeOK, Handler PROVE TypeOK'
  BY ReconcileType, FinalizerType, DeletionStepType, DeleteStorageClassType,
     DeleteFilesystemType, DeleteLocalDisksType, EnsureLocalDisksType, CreateLocalDiskType,
     LocalDiskLoopType, SyncType, EnsureFileSystemType, EnsureStorageClassType
  DEF Handler

----------------------------------------------------------------------------
(* So do the wake-ups, the users, Storage Scale and the garbage collector. *)

LEMMA WakeUpType == ASSUME TypeOK, InformerSync \/ TimerFires \/ Resync PROVE TypeOK'
  BY DEF TypeOK, InformerSync, TimerFires, Resync, claimVars, childVars, envVars

LEMMA ClaimUserType ==
    ASSUME TypeOK, CreateClaim \/ DeleteClaim \/ ReleaseHold \/ ValidateUpdate PROVE TypeOK'
<1>1. ClaimOK /\ PassOK /\ ChildOK /\ EnvOK /\ FaultOK
  BY TypeParts
<1>2. fsc.uid \in 0..MaxClaims
  BY <1>1 DEF ClaimOK, Claims
<1>3. Gone(fsc.uid) \in Claims
  BY <1>2, GoneClaim
<1>4. CASE CreateClaim
  <2>1. fsc.uid + 1 \in 0..MaxClaims
    <3>1. fsc.uid < MaxClaims
      BY <1>4 DEF CreateClaim
    <3>2. QED BY <1>2, <3>1, Bounds
  <2>2. Gone(fsc.uid + 1) \in Claims
    BY <2>1, GoneClaim
  <2>3. PICK ds \in DeviceLists, h \in Holds :
          fsc' = [Gone(fsc.uid + 1) EXCEPT !.exists = TRUE, !.devices = ds, !.hold = h]
    BY <1>4 DEF CreateClaim
  <2>4. h \in BOOLEAN
    BY ConstantsAssumption
  <2>5. ClaimOK'
    BY <1>4, <2>2, <2>3, <2>4 DEF CreateClaim, ClaimOK, Claims
  <2>6. QED BY <1>1, <1>4, <2>5, TypePartsPrime
         DEF CreateClaim, PassOK, ChildOK, EnvOK, FaultOK, passVars, childVars, envVars
<1>5. CASE DeleteClaim \/ ReleaseHold
  <2>1. ClaimOK'
    BY <1>1, <1>3, <1>5 DEF DeleteClaim, ReleaseHold, ClaimOK, Claims
  <2>2. QED BY <1>1, <1>5, <2>1, TypePartsPrime
         DEF DeleteClaim, ReleaseHold, PassOK, ChildOK, EnvOK, FaultOK, passVars, childVars, envVars
<1>6. CASE ValidateUpdate
  <2>1. ClaimOK'
    BY <1>1, <1>6 DEF ValidateUpdate, ClaimOK, Claims
  <2>2. upsets' \in 0..MaxUpsets
    BY <1>1, <1>6, Bounds DEF ValidateUpdate, Upset, EnvOK
  <2>3. QED BY <1>1, <1>6, <2>1, <2>2, TypePartsPrime
         DEF ValidateUpdate, PassOK, ChildOK, EnvOK, FaultOK, passVars, childVars
<1>7. QED BY <1>4, <1>5, <1>6

LEMMA OtherUserType ==
    ASSUME TypeOK, LabelFilesystem \/ ProvisionVolume \/ ReleaseVolume \/ Tamper \/ Rediscover
    PROVE  TypeOK'
<1>1. ClaimOK /\ PassOK /\ ChildOK /\ EnvOK /\ FaultOK
  BY TypeParts
<1>2. upsets' \in 0..MaxUpsets
  <2>1. upsets' = upsets \/ (upsets < MaxUpsets /\ upsets' = upsets + 1)
    BY DEF LabelFilesystem, ProvisionVolume, ReleaseVolume, Tamper, Rediscover, Upset
  <2>2. QED BY <1>1, <2>1, Bounds DEF EnvOK
<1>3. ClaimOK' /\ FaultOK'
  BY <1>1 DEF LabelFilesystem, ProvisionVolume, ReleaseVolume, Tamper, Rediscover,
              ClaimOK, FaultOK, claimVars
<1>4. cache' \in Claims /\ pv' \in PVStates /\ discovery' \in Discoveries
  BY <1>1 DEF LabelFilesystem, ProvisionVolume, ReleaseVolume, Tamper, Rediscover,
              EnvOK, PVStates
<1>5. CASE Tamper
  <2>1. PassOK'
    BY <1>1, <1>5 DEF Tamper, PassOK, enqueueFSCByStorageClass
  <2>2. ld' \in [Wwns -> LocalDisks]
    <3>1. ld' = ld \/ \E w \in OwnedLDs : ld' = [ld EXCEPT ![w].del = TRUE]
      BY <1>5 DEF Tamper
    <3>2. QED BY <1>1, <3>1 DEF ChildOK, LocalDisks, OwnedLDs
  <2>3. fs' \in Filesystems
    BY <1>1, <1>5 DEF Tamper, ChildOK, Filesystems
  <2>4. sc' \in SCStates
    BY <1>1, <1>5 DEF Tamper, ChildOK, SCStates
  <2>5. QED BY <1>2, <1>3, <1>4, <2>1, <2>2, <2>3, <2>4, TypePartsPrime DEF ChildOK, EnvOK
<1>6. CASE LabelFilesystem
  BY <1>1, <1>2, <1>3, <1>4, <1>6, TypePartsPrime
     DEF LabelFilesystem, PassOK, passVars, ChildOK, EnvOK, Filesystems
<1>7. CASE ProvisionVolume \/ ReleaseVolume \/ Rediscover
  BY <1>1, <1>2, <1>3, <1>4, <1>7, TypePartsPrime
     DEF ProvisionVolume, ReleaseVolume, Rediscover, PassOK, passVars, ChildOK, childVars, EnvOK
<1>8. QED BY <1>5, <1>6, <1>7

LEMMA ScaleType == ASSUME TypeOK, Scale \/ GarbageCollect PROVE TypeOK'
<1>1. ClaimOK /\ PassOK /\ ChildOK /\ EnvOK /\ FaultOK
  BY TypeParts
<1>2. upsets' \in 0..MaxUpsets
  <2>1. upsets' = upsets \/ (upsets < MaxUpsets /\ upsets' = upsets + 1)
    BY DEF Scale, ScaleLocalDisk, ScaleFilesystem, ScaleRemoves, GarbageCollect, Upset, envVars
  <2>2. QED BY <1>1, <2>1, Bounds DEF EnvOK
<1>3. ClaimOK' /\ FaultOK'
  BY <1>1 DEF Scale, ScaleLocalDisk, ScaleFilesystem, ScaleRemoves, GarbageCollect,
              ClaimOK, FaultOK, claimVars
<1>4. EnvOK'
  BY <1>1, <1>2 DEF Scale, ScaleLocalDisk, ScaleFilesystem, ScaleRemoves, GarbageCollect,
                    EnvOK, envVars
<1>5. PassOK'
  BY <1>1 DEF Scale, ScaleLocalDisk, ScaleFilesystem, ScaleRemoves, GarbageCollect,
              PassOK, passVars, enqueueFSCByOwner
<1>6. ChildOK'
  <2>1. sc' \in SCStates
    BY <1>1 DEF Scale, ScaleLocalDisk, ScaleFilesystem, ScaleRemoves, GarbageCollect, ChildOK
  <2>2. ld' \in [Wwns -> LocalDisks]
    <3>1. \/ ld' = ld
          \/ \E w \in Wwns, s \in LDStates : ld' = [ld EXCEPT ![w].st = s]
          \/ \E w \in Wwns : ld' = [ld EXCEPT ![w] = NoLD]
          \/ \E w \in Wwns : ld' = [ld EXCEPT ![w].del = TRUE]
      BY DEF Scale, ScaleLocalDisk, ScaleFilesystem, ScaleRemoves, GarbageCollect
    <3>2. NoLD \in LocalDisks
      BY Bounds DEF NoLD, LocalDisks, LDStates
    <3>3. QED BY <1>1, <3>1, <3>2 DEF ChildOK, LocalDisks
  <2>3. fs' \in Filesystems
    <3>1. \/ fs' = fs \/ fs' = NoFS
          \/ fs' = [fs EXCEPT !.st = "healthy"] \/ fs' = [fs EXCEPT !.st = "unhealthy"]
          \/ fs' = [fs EXCEPT !.del = TRUE]
      BY DEF Scale, ScaleLocalDisk, ScaleFilesystem, ScaleRemoves, GarbageCollect
    <3>2. NoFS \in Filesystems
      BY Bounds DEF NoFS, Filesystems, FSStates
    <3>3. QED BY <1>1, <3>1, <3>2 DEF ChildOK, Filesystems, FSStates
  <2>4. QED BY <2>1, <2>2, <2>3 DEF ChildOK
<1>7. QED BY <1>3, <1>4, <1>5, <1>6, TypePartsPrime

LEMMA InitType == Init => TypeOK
<1>1. SUFFICES ASSUME Init PROVE TypeOK
  OBVIOUS
<1>2. NoLD \in LocalDisks /\ [NoLD EXCEPT !.st = "ready"] \in LocalDisks
  <2>1. NoLD \in LocalDisks
    BY Bounds DEF NoLD, LocalDisks, LDStates
  <2>2. QED BY <2>1 DEF LocalDisks, LDStates
<1>3. NoFS \in Filesystems
  BY Bounds DEF NoFS, Filesystems, FSStates
<1>4. ClaimOK /\ PassOK
  <2>1. ClaimOK
    BY <1>1, ZeroGone DEF Init, ClaimOK
  <2>2. pc \in Pcs /\ pc = "idle" /\ mem \in Claims
    BY <1>1, ZeroGone DEF Init, Pcs
  <2>3. queued \in BOOLEAN /\ timer \in BOOLEAN
    BY <1>1 DEF Init
  <2>4. todo \in Seq(Devices) /\ node \in Nodes \cup {NoNode}
    BY <1>1 DEF Init
  <2>5. QED BY <2>1, <2>2, <2>3, <2>4 DEF PassOK
<1>5. ChildOK
  BY <1>1, <1>2, <1>3 DEF Init, ChildOK, SCStates
<1>6. EnvOK /\ FaultOK
  BY <1>1, ZeroGone, Bounds DEF Init, EnvOK, FaultOK, PVStates
<1>7. QED BY <1>4, <1>5, <1>6, TypeParts

LEMMA NextType == ASSUME TypeOK, [Next]_vars PROVE TypeOK'
<1>1. CASE UNCHANGED vars
  BY <1>1 DEF TypeOK, vars, claimVars, passVars, childVars, envVars
<1>2. CASE Next
  BY <1>2, HandlerType, ApiErrorType, CrashType, WakeUpType, ClaimUserType, OtherUserType,
     ScaleType
  DEF Next, User
<1>3. QED BY <1>1, <1>2

\* Whatever fails, whoever acts and however far the informer lags, every variable of
\* the controller and of its objects keeps its type; in particular the LocalDisk loop
\* always has a storage node to look its devices up on.
THEOREM TypeCorrect == Spec => []TypeOK
  BY InitType, NextType, PTL DEF Spec

----------------------------------------------------------------------------
(* A pass over a claim being deleted creates nothing.                      *)

\* What separates the two halves of a pass, when the operator's finalizer is the only
\* one: a claim being deleted still has it, so handleDeletion never falls through.
Finalized(claim) == ~claim.hold /\ (claim.del => claim.fin)

Provisioning ==
    {"ensureLocalDisks", "createLocalDisk", "recordLocalDisk", "syncLocalDiskConditions",
     "ensureFileSystem", "recordFileSystem", "syncFilesystemConditions",
     "ensureStorageClass", "recordStorageClass", "recordDrift", "syncFSCReady"}

PassInv ==
    Finalized(fsc) /\ Finalized(mem) /\ (pc \in Provisioning => ~mem.del)

DeletionInv == PassInv /\ Finalized(cache)

LEMMA GoneFinalized == \A u : Finalized(Gone(u)) /\ ~Gone(u).del
  BY DEF Finalized, Gone

\* How a pass moves on, and how it ends.
LEMMA GotoInv ==
    ASSUME PassInv, NEW l, l \in Provisioning => ~mem.del, Goto(l) PROVE PassInv'
  BY DEF PassInv, Goto, claimVars, Finalized

LEMMA EndPassInv ==
    ASSUME NEW a, NEW b, EndPass(a, b), Finalized(fsc)' PROVE PassInv'
  BY GoneFinalized DEF PassInv, EndPass, Provisioning, Finalized

LEMMA ReturnInv == ASSUME PassInv, Return \/ Requeue PROVE PassInv'
<1>1. Finalized(fsc)'
  BY DEF PassInv, Return, Requeue, claimVars, Finalized
<1>2. QED BY <1>1, EndPassInv DEF Return, Requeue

LEMMA StatusPatchInv ==
    ASSUME ClaimOK, Finalized(fsc), NEW new, StatusPatch(new) PROVE Finalized(fsc)'
  BY DEF ClaimOK, Claims, StatusPatch, claimVars, Finalized

LEMMA PatchInv ==
    ASSUME ClaimOK, PassInv, NEW new, NEW b, patchFSCStatus(new, b) PROVE PassInv'
<1>1. CASE StatusPatch(new) /\ EndPass(FALSE, b)
  BY <1>1, StatusPatchInv, EndPassInv DEF PassInv
<1>2. CASE Requeue
  BY <1>2, ReturnInv
<1>3. QED BY <1>1, <1>2 DEF patchFSCStatus

LEMMA UpdateGotoInv ==
    ASSUME ClaimOK, PassInv, NEW t, NEW r, NEW l, l \in Provisioning => ~mem.del,
           updateConditionIfChanged(t, r, Goto(l))
    PROVE  PassInv'
  BY GotoInv, PatchInv DEF updateConditionIfChanged

LEMMA UpdateReturnInv ==
    ASSUME ClaimOK, PassInv, NEW t, NEW r, updateConditionIfChanged(t, r, Return)
    PROVE  PassInv'
  BY ReturnInv, PatchInv DEF updateConditionIfChanged

LEMMA BlockDeletionInv ==
    ASSUME ClaimOK, PassInv, NEW r, BlockDeletion(r) PROVE PassInv'
<1>1. CASE EndPass(FALSE, TRUE) /\ UNCHANGED claimVars
  BY <1>1, EndPassInv DEF PassInv, claimVars, Finalized
<1>2. CASE patchFSCStatus([cache.cond EXCEPT !["DeletionBlocked"] = r], TRUE)
  BY <1>2, PatchInv
<1>3. QED BY <1>1, <1>2 DEF BlockDeletion

\* The finalizer list written back has no foreign finalizer, and a claim being
\* deleted is gone with the last.
LEMMA PatchSpecInv ==
    ASSUME ClaimOK, EnvOK, DeletionInv, NEW f \in BOOLEAN, patchFSCSpec(f) PROVE PassInv'
<1>1. CASE Return \/ Requeue
  BY <1>1, ReturnInv DEF DeletionInv
<1>2. CASE ~(Return \/ Requeue)
  <2>1. ~cache.hold
    BY DEF DeletionInv, Finalized
  <2>2. fsc.del /\ ~f => Finalized(fsc)'
    BY <1>2, <2>1, GoneFinalized DEF patchFSCSpec, Finalized
  <2>3. ~(fsc.del /\ ~f) => fsc' = [fsc EXCEPT !.fin = f, !.hold = cache.hold]
    BY <1>2, <2>1 DEF patchFSCSpec
  <2>4. ~(fsc.del /\ ~f) => Finalized(fsc)'
    BY <2>1, <2>3 DEF Finalized, ClaimOK, Claims
  <2>5. QED BY <1>2, <2>2, <2>4, EndPassInv DEF patchFSCSpec
<1>3. QED BY <1>1, <1>2

\* The handlers of deletion.
LEMMA DeletionHandlersInv ==
    ASSUME TypeOK, DeletionInv,
           handleFinalizers \/ handleDeletion \/ checkStorageClassUsage
           \/ checkFilesystemDeletionLabel \/ removeFinalizer
    PROVE  PassInv'
<1>1. ClaimOK /\ EnvOK /\ PassInv
  BY TypeParts DEF DeletionInv
<1>2. {"handleDeletion", "checkStorageClassUsage", "checkFilesystemDeletionLabel",
       "deleteStorageClass"} \cap Provisioning = {}
  BY DEF Provisioning
<1>3. CASE handleFinalizers \/ removeFinalizer
  BY <1>1, <1>2, <1>3, GotoInv, PatchSpecInv DEF handleFinalizers, removeFinalizer
<1>4. CASE handleDeletion
  <2>1. CASE ~(mem.del /\ mem.fin)
    <3>1. ~mem.del
      BY <1>1, <2>1 DEF PassInv, Finalized
    <3>2. QED BY <1>1, <1>4, <2>1, <3>1, GotoInv DEF handleDeletion
  <2>2. CASE mem.del /\ mem.fin
    BY <1>1, <1>2, <1>4, <2>2, UpdateGotoInv DEF handleDeletion, markDeletionRequested
  <2>3. QED BY <2>1, <2>2
<1>5. CASE checkStorageClassUsage
  BY <1>1, <1>2, <1>5, GotoInv, BlockDeletionInv DEF checkStorageClassUsage
<1>6. CASE checkFilesystemDeletionLabel
  BY <1>1, <1>2, <1>6, GotoInv, BlockDeletionInv DEF checkFilesystemDeletionLabel
<1>7. QED BY <1>3, <1>4, <1>5, <1>6

LEMMA DeleteHandlersInv ==
    ASSUME TypeOK, DeletionInv, deleteStorageClass \/ deleteFilesystem \/ deleteLocalDisks
    PROVE  PassInv'
<1>1. ClaimOK /\ PassInv
  BY TypeParts DEF DeletionInv
<1>2. {"deleteFilesystem", "deleteLocalDisks", "removeFinalizer"} \cap Provisioning = {}
  BY DEF Provisioning
<1>3. UNCHANGED claimVars => Finalized(fsc)'
  BY <1>1 DEF PassInv, claimVars, Finalized
<1>4. CASE deleteStorageClass
  BY <1>1, <1>2, <1>3, <1>4, GotoInv, UpdateGotoInv, EndPassInv DEF deleteStorageClass
<1>5. CASE deleteFilesystem
  BY <1>1, <1>2, <1>3, <1>5, GotoInv, UpdateGotoInv, EndPassInv DEF deleteFilesystem
<1>6. CASE deleteLocalDisks
  BY <1>1, <1>2, <1>3, <1>6, GotoInv, UpdateGotoInv, EndPassInv DEF deleteLocalDisks
<1>7. QED BY <1>4, <1>5, <1>6

\* The handlers of provisioning: they run only over a claim that is not being deleted.
LEMMA ProvisioningInv ==
    ASSUME TypeOK, DeletionInv,
           \/ ensureLocalDisks \/ createLocalDisk \/ recordLocalDisk \/ endLocalDisks
           \/ syncLocalDiskConditions \/ ensureFileSystem \/ recordFileSystem
           \/ syncFilesystemConditions \/ ensureStorageClass \/ recordStorageClass
           \/ syncFSCReady
    PROVE  PassInv'
<1>1. ClaimOK /\ PassInv
  BY TypeParts DEF DeletionInv
<1>2. pc \in Provisioning
  BY DEF ensureLocalDisks, createLocalDisk, recordLocalDisk, endLocalDisks,
         syncLocalDiskConditions, ensureFileSystem, recordFileSystem,
         syncFilesystemConditions, ensureStorageClass, recordStorageClass, syncFSCReady,
         Provisioning
<1>3. ~mem.del
  BY <1>1, <1>2 DEF PassInv
<1>4. ASSUME UNCHANGED <<claimVars, mem>> PROVE PassInv'
  BY <1>1, <1>3, <1>4 DEF PassInv, claimVars, Finalized
<1>5. CASE ensureLocalDisks
  BY <1>1, <1>3, <1>4, <1>5, GotoInv, PatchInv DEF ensureLocalDisks, handleValidationError
<1>6. CASE createLocalDisk
  BY <1>1, <1>3, <1>4, <1>6, GotoInv, PatchInv
  DEF createLocalDisk, handleResourceCreationError
<1>7. CASE recordLocalDisk
  <2>1. CASE Requeue
    BY <1>1, <2>1, ReturnInv
  <2>2. CASE ~Requeue
    <3>1. Finalized(fsc)'
      BY <1>1, <1>7, <2>2, StatusPatchInv DEF recordLocalDisk, PassInv
    <3>2. QED BY <1>1, <1>3, <1>7, <2>2, <3>1 DEF recordLocalDisk, PassInv, Finalized
  <2>3. QED BY <2>1, <2>2
<1>8. CASE endLocalDisks
  BY <1>1, <1>3, <1>8, GotoInv, ReturnInv DEF endLocalDisks
<1>9. CASE syncLocalDiskConditions
  BY <1>1, <1>3, <1>9, GotoInv, UpdateGotoInv DEF syncLocalDiskConditions
<1>10. CASE ensureFileSystem
  BY <1>1, <1>3, <1>10, GotoInv, ReturnInv, PatchInv
  DEF ensureFileSystem, handleResourceCreationError
<1>11. CASE recordFileSystem
  BY <1>1, <1>11, UpdateReturnInv DEF recordFileSystem
<1>12. CASE syncFilesystemConditions
  BY <1>1, <1>3, <1>12, GotoInv, UpdateGotoInv DEF syncFilesystemConditions
<1>13. CASE ensureStorageClass
  BY <1>1, <1>3, <1>4, <1>13, GotoInv, UpdateGotoInv, PatchInv
  DEF ensureStorageClass, handleResourceCreationError
<1>14. CASE recordStorageClass
  BY <1>1, <1>3, <1>14, UpdateGotoInv, UpdateReturnInv DEF recordStorageClass
<1>15. CASE syncFSCReady
  BY <1>1, <1>15, UpdateReturnInv DEF syncFSCReady
<1>16. QED
  BY <1>5, <1>6, <1>7, <1>8, <1>9, <1>10, <1>11, <1>12, <1>13, <1>14, <1>15

LEMMA HandlerInv == ASSUME TypeOK, DeletionInv, Handler PROVE DeletionInv'
<1>1. cache' = cache
  BY DEF Handler, Reconcile, handleFinalizers, handleDeletion, checkStorageClassUsage,
         checkFilesystemDeletionLabel, deleteStorageClass, deleteFilesystem,
         deleteLocalDisks, removeFinalizer, ensureLocalDisks, createLocalDisk,
         recordLocalDisk, endLocalDisks, syncLocalDiskConditions, ensureFileSystem,
         recordFileSystem, syncFilesystemConditions, ensureStorageClass,
         recordStorageClass, syncFSCReady, envVars
<1>2. CASE Reconcile
  BY <1>1, <1>2 DEF Reconcile, DeletionInv, PassInv, Finalized, claimVars, Provisioning
<1>3. CASE ~Reconcile
  <2>1. PassInv'
    BY <1>3, DeletionHandlersInv, DeleteHandlersInv, ProvisioningInv DEF Handler
  <2>2. QED BY <1>1, <2>1 DEF DeletionInv, Finalized
<1>4. QED BY <1>2, <1>3

LEMMA ClaimUserInv ==
    ASSUME TypeOK, DeletionInv, Holds \subseteq {FALSE},
           CreateClaim \/ DeleteClaim \/ ReleaseHold \/ ValidateUpdate
    PROVE  DeletionInv'
<1>1. UNCHANGED <<pc, mem, cache>>
  BY DEF CreateClaim, DeleteClaim, ReleaseHold, ValidateUpdate, passVars, envVars
<1>2. fsc \in Claims /\ Finalized(fsc)
  BY DEF TypeOK, DeletionInv, PassInv
<1>3. Finalized(fsc)'
  <2>1. CASE CreateClaim
    <3>1. PICK ds \in DeviceLists, h \in Holds :
            fsc' = [Gone(fsc.uid + 1) EXCEPT !.exists = TRUE, !.devices = ds, !.hold = h]
      BY <2>1 DEF CreateClaim
    <3>2. h = FALSE
      OBVIOUS
    <3>3. fsc'.hold = h /\ fsc'.del = FALSE
      BY <3>1 DEF Gone
    <3>4. QED BY <3>2, <3>3 DEF Finalized
  <2>2. CASE DeleteClaim
    BY <1>2, <2>2, GoneFinalized DEF DeleteClaim, Finalized, Claims
  <2>3. CASE ReleaseHold
    BY <1>2, <2>3 DEF ReleaseHold, Finalized
  <2>4. CASE ValidateUpdate
    BY <1>2, <2>4 DEF ValidateUpdate, Finalized, Claims
  <2>5. QED BY <2>1, <2>2, <2>3, <2>4
<1>4. QED BY <1>1, <1>3 DEF DeletionInv, PassInv, Finalized

\* Nobody else touches the claim or the pass, other than to end it.
LEMMA OthersInv ==
    ASSUME DeletionInv,
           \/ ApiError \/ Crash \/ InformerSync \/ TimerFires \/ Resync
           \/ LabelFilesystem \/ ProvisionVolume \/ ReleaseVolume \/ Tamper \/ Rediscover
           \/ Scale \/ GarbageCollect
    PROVE  DeletionInv'
<1>1. CASE ApiError
  BY <1>1, ReturnInv DEF ApiError, DeletionInv, envVars, Finalized
<1>2. CASE Crash
  BY <1>2, GoneFinalized DEF Crash, DeletionInv, PassInv, Provisioning, Finalized
<1>3. CASE InformerSync
  BY <1>3 DEF InformerSync, DeletionInv, PassInv, Finalized
<1>4. CASE ~(ApiError \/ Crash \/ InformerSync)
  <2>1. UNCHANGED <<fsc, pc, mem, cache>>
    BY <1>4 DEF TimerFires, Resync, LabelFilesystem, ProvisionVolume, ReleaseVolume, Tamper,
         Rediscover, Scale, ScaleLocalDisk, ScaleFilesystem, ScaleRemoves, GarbageCollect,
         claimVars, passVars, envVars
  <2>2. QED BY <2>1 DEF DeletionInv, PassInv, Finalized
<1>5. QED BY <1>1, <1>2, <1>3, <1>4

LEMMA NextInv ==
    ASSUME TypeOK, DeletionInv, Holds \subseteq {FALSE}, [Next]_vars PROVE DeletionInv'
<1>1. CASE UNCHANGED vars
  BY <1>1 DEF vars, claimVars, passVars, envVars, DeletionInv, PassInv, Finalized
<1>2. CASE Next
  BY <1>2, HandlerInv, ClaimUserInv, OthersInv DEF Next, User
<1>3. QED BY <1>1, <1>2

\* Nothing that was absent has appeared.
NothingNew ==
    /\ \A w \in Wwns : ld[w].st = "absent" => ld'[w].st = "absent"
    /\ fs.st = "absent" => fs'.st = "absent"
    /\ sc = "absent" => sc' = "absent"

\* Objects are created only in the second half of a pass.
LEMMA Creators ==
    ASSUME TypeOK, [Next]_vars, pc \notin Provisioning PROVE NothingNew
<1>1. ld \in [Wwns -> LocalDisks] /\ fs \in Filesystems
  BY DEF TypeOK
<1>2. CASE UNCHANGED childVars
  BY <1>2 DEF childVars, NothingNew
<1>3. CASE deleteStorageClass
  BY <1>3 DEF deleteStorageClass, NothingNew
<1>4. CASE deleteFilesystem
  BY <1>1, <1>4 DEF deleteFilesystem, NothingNew, OwnedFS, FSExists
<1>5. CASE deleteLocalDisks
  <2>1. \/ ld' = ld
        \/ \E S \in SUBSET OwnedLDs :
              ld' = [w \in Wwns |-> IF w \in S THEN [ld[w] EXCEPT !.del = TRUE] ELSE ld[w]]
    BY <1>5 DEF deleteLocalDisks
  <2>2. \A w \in Wwns : ld[w].st = "absent" => ld'[w].st = "absent"
    BY <1>1, <2>1 DEF OwnedLDs
  <2>3. QED BY <1>5, <2>2 DEF deleteLocalDisks, NothingNew
<1>6. CASE LabelFilesystem
  BY <1>1, <1>6 DEF LabelFilesystem, FSExists, NothingNew
<1>7. CASE Tamper
  <2>1. ld' = ld \/ \E w \in OwnedLDs : ld' = [ld EXCEPT ![w].del = TRUE]
    BY <1>7 DEF Tamper
  <2>2. \A w \in Wwns : ld[w].st = "absent" => ld'[w].st = "absent"
    BY <1>1, <2>1 DEF OwnedLDs, LocalDisks
  <2>3. fs.st = "absent" => fs'.st = "absent"
    BY <1>1, <1>7 DEF Tamper, Filesystems
  <2>4. sc = "absent" => sc' = "absent"
    BY <1>7 DEF Tamper
  <2>5. QED BY <2>2, <2>3, <2>4 DEF NothingNew
<1>8. CASE Scale \/ GarbageCollect
  <2>1. \/ ld' = ld
        \/ \E w \in Wwns : /\ ld[w].st # "absent"
                           /\ \E r \in LocalDisks : ld' = [ld EXCEPT ![w] = r]
    <3>1. CASE \E w \in Wwns : ScaleLocalDisk(w)
      <4>1. PICK w \in Wwns : ScaleLocalDisk(w)
        BY <3>1
      <4>2. PICK x \in LDStates : ld' = [ld EXCEPT ![w].st = x]
        BY <4>1 DEF ScaleLocalDisk
      <4>3. ld[w].st # "absent" /\ [ld[w] EXCEPT !.st = x] \in LocalDisks
        BY <1>1, <4>1 DEF ScaleLocalDisk, LocalDisks
      <4>4. ld' = [ld EXCEPT ![w] = [ld[w] EXCEPT !.st = x]]
        BY <4>2
      <4>5. QED BY <4>3, <4>4
    <3>2. CASE ScaleRemoves
      <4>1. NoLD \in LocalDisks
        BY Bounds DEF NoLD, LocalDisks, LDStates
      <4>2. QED BY <3>2, <4>1 DEF ScaleRemoves
    <3>3. CASE GarbageCollect
      <4>1. \A w \in Wwns : [ld[w] EXCEPT !.del = TRUE] \in LocalDisks
        BY <1>1 DEF LocalDisks
      <4>2. QED BY <1>1, <3>3, <4>1 DEF GarbageCollect
    <3>4. QED BY <1>8, <3>1, <3>2, <3>3 DEF Scale, ScaleFilesystem
  <2>2. \A w \in Wwns : ld[w].st = "absent" => ld'[w].st = "absent"
    BY <1>1, <2>1
  <2>3. fs.st = "absent" => fs'.st = "absent"
    BY <1>1, <1>8 DEF Scale, ScaleLocalDisk, ScaleFilesystem, ScaleRemoves, GarbageCollect,
                      FSExists, Filesystems
  <2>4. sc = "absent" => sc' = "absent"
    BY <1>8 DEF Scale, ScaleLocalDisk, ScaleFilesystem, ScaleRemoves, GarbageCollect
  <2>5. QED BY <2>2, <2>3, <2>4 DEF NothingNew
<1>9. QED
  <2>1. CASE UNCHANGED vars
    BY <1>2, <2>1 DEF vars
  <2>2. CASE Handler
    BY <1>2, <1>3, <1>4, <1>5, <2>2
    DEF Handler, Reconcile, handleFinalizers, handleDeletion, checkStorageClassUsage,
        checkFilesystemDeletionLabel, removeFinalizer, ensureLocalDisks, createLocalDisk,
        recordLocalDisk, endLocalDisks, syncLocalDiskConditions, ensureFileSystem,
        recordFileSystem, syncFilesystemConditions, ensureStorageClass,
        recordStorageClass, syncFSCReady, Provisioning
  <2>3. CASE ~Handler /\ Next
    BY <1>2, <1>6, <1>7, <1>8, <2>3
    DEF Next, ApiError, Crash, InformerSync, TimerFires, Resync, User, CreateClaim,
        DeleteClaim, ReleaseHold, ValidateUpdate, ProvisionVolume, ReleaseVolume, Rediscover
  <2>4. QED BY <2>1, <2>2, <2>3

\* When users put no finalizer of their own on claims, no interleaving of passes over
\* stale copies, failures, restarts and users makes a pass over a claim being deleted
\* fall through handleDeletion and create a LocalDisk, Filesystem or StorageClass.
THEOREM CleanupCreatesNothing ==
    ASSUME Holds \subseteq {FALSE} PROVE Spec => NoCreateWhileDeleting
<1>1. Init => DeletionInv
  BY GoneFinalized DEF Init, DeletionInv, PassInv, Provisioning
<1>2. TypeOK /\ DeletionInv /\ [Next]_vars => DeletionInv'
  BY NextInv
<1>3. TypeOK /\ DeletionInv /\ [Next]_vars =>
        [mem.del => /\ \A w \in Wwns : ld[w].st = "absent" => ld'[w].st = "absent"
                    /\ fs.st = "absent" => fs'.st = "absent"
                    /\ sc = "absent" => sc' = "absent"]_vars
  <2>1. SUFFICES ASSUME TypeOK, DeletionInv, [Next]_vars, mem.del PROVE NothingNew
    BY DEF NothingNew
  <2>2. pc \notin Provisioning
    BY <2>1 DEF DeletionInv, PassInv
  <2>3. QED BY <2>1, <2>2, Creators
<1>4. QED BY <1>1, <1>2, <1>3, TypeCorrect, PTL DEF Spec, NoCreateWhileDeleting
=============================================================================
