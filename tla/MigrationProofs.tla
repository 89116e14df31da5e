--------------------------- MODULE MigrationProofs ---------------------------
(***************************************************************************)
(* Theorems about the migration from version 1.0 beside the controller: it *)
(* only ever adopts for a claim that was created, and nothing of version   *)
(* 1.0 is lost while that claim lives, wherever the migration, which is no *)
(* transaction, is cut short.                                              *)
(***************************************************************************)
EXTENDS Migration, ClaimCleanupProofs

\* A step of the controller, of users or of the cluster, as the migration sees it.
BesideStep ==
    Next /\ UNCHANGED mig /\ touched' \subseteq touched \cup Touched /\ marked' \in Marks

LEMMA BesideShape == ASSUME Beside PROVE BesideStep
  BY DEF Beside, Alongside, BesideStep, Next

LEMMA TouchedType == Touched \subseteq Objects
  BY DEF Touched, Objects

----------------------------------------------------------------------------
(* A claim that is there has a UID.                                        *)

\* The stored claim stays the one it is, or there was none.
SameClaim == fsc' = fsc \/ (fsc.exists /\ fsc'.uid = fsc.uid)

LEMMA PatchSame ==
    ASSUME ClaimOK, NEW cs, NEW b, patchFSCStatus(cs, b) PROVE SameClaim
  BY DEF patchFSCStatus, StatusPatch, Requeue, claimVars, SameClaim, ClaimOK, Claims

LEMMA UpdateSame ==
    ASSUME ClaimOK, NEW t, NEW r, NEW l,
           \/ updateConditionIfChanged(t, r, Goto(l))
           \/ updateConditionIfChanged(t, r, Return)
    PROVE  SameClaim
<1>1. CASE Goto(l) \/ Return
  BY <1>1 DEF Goto, Return, claimVars, SameClaim
<1>2. CASE patchFSCStatus([cache.cond EXCEPT ![t] = r], FALSE)
  BY <1>2, PatchSame
<1>3. QED BY <1>1, <1>2 DEF updateConditionIfChanged

LEMMA BlockSame == ASSUME ClaimOK, NEW r, BlockDeletion(r) PROVE SameClaim
<1>1. CASE UNCHANGED claimVars
  BY <1>1 DEF claimVars, SameClaim
<1>2. CASE patchFSCStatus([cache.cond EXCEPT !["DeletionBlocked"] = r], TRUE)
  BY <1>2, PatchSame
<1>3. QED BY <1>1, <1>2 DEF BlockDeletion

LEMMA SpecSame == ASSUME ClaimOK, NEW f, patchFSCSpec(f) PROVE SameClaim
<1>1. CASE Requeue \/ Return
  BY <1>1 DEF Requeue, Return, claimVars, SameClaim
<1>2. CASE ~NotFound /\ fsc' \in {Gone(fsc.uid), [fsc EXCEPT !.fin = f, !.hold = cache.hold]}
  BY <1>2, GoneSays DEF NotFound, SameClaim, ClaimOK, Claims
<1>3. QED BY <1>1, <1>2 DEF patchFSCSpec

LEMMA CleanupSame ==
    ASSUME ClaimOK,
           \/ Reconcile \/ handleFinalizers \/ handleDeletion \/ checkStorageClassUsage
           \/ checkFilesystemDeletionLabel \/ deleteStorageClass \/ deleteFilesystem
           \/ deleteLocalDisks \/ removeFinalizer
    PROVE  SameClaim
<1>1. CASE UNCHANGED claimVars
  BY <1>1 DEF claimVars, SameClaim
<1>2. CASE handleFinalizers \/ removeFinalizer
  BY <1>1, <1>2, SpecSame DEF handleFinalizers, removeFinalizer, Goto
<1>3. CASE handleDeletion \/ checkStorageClassUsage \/ checkFilesystemDeletionLabel
  BY <1>1, <1>3, UpdateSame, BlockSame
  DEF handleDeletion, checkStorageClassUsage, checkFilesystemDeletionLabel,
      markDeletionRequested, Goto
<1>4. CASE deleteStorageClass \/ deleteFilesystem \/ deleteLocalDisks
  BY <1>1, <1>4, UpdateSame DEF deleteStorageClass, deleteFilesystem, deleteLocalDisks, Goto
<1>5. QED BY <1>1, <1>2, <1>3, <1>4 DEF Reconcile

LEMMA ProvisioningSame ==
    ASSUME ClaimOK,
           \/ ensureLocalDisks \/ createLocalDisk \/ recordLocalDisk \/ endLocalDisks
           \/ syncLocalDiskConditions \/ ensureFileSystem \/ recordFileSystem
           \/ syncFilesystemConditions \/ ensureStorageClass \/ recordStorageClass
           \/ syncFSCReady
    PROVE  SameClaim
<1>1. CASE UNCHANGED claimVars
  BY <1>1 DEF claimVars, SameClaim
<1>2. CASE ensureLocalDisks
  BY <1>1, <1>2, PatchSame DEF ensureLocalDisks, handleValidationError, Goto
<1>3. CASE createLocalDisk
  BY <1>1, <1>3, PatchSame DEF createLocalDisk, handleResourceCreationError, Goto
<1>4. CASE recordLocalDisk
  BY <1>1, <1>4 DEF recordLocalDisk, StatusPatch, Requeue, SameClaim, ClaimOK, Claims
<1>5. CASE endLocalDisks
  BY <1>1, <1>5 DEF endLocalDisks, Goto, Return
<1>6. CASE syncLocalDiskConditions
  <2>1. CASE Goto("ensureFileSystem")
    BY <1>1, <2>1 DEF Goto
  <2>2. CASE \E r : updateConditionIfChanged("LocalDiskCreated", r, Goto("ensureFileSystem"))
    BY <2>2, UpdateSame
  <2>3. QED BY <1>6, <2>1, <2>2 DEF syncLocalDiskConditions
<1>7. CASE ensureFileSystem
  BY <1>1, <1>7, PatchSame DEF ensureFileSystem, handleResourceCreationError, Goto, Return
<1>8. CASE recordFileSystem \/ recordStorageClass \/ syncFSCReady
  BY <1>8, UpdateSame DEF recordFileSystem, recordStorageClass, syncFSCReady
<1>9. CASE syncFilesystemConditions
  BY <1>1, <1>9, UpdateSame DEF syncFilesystemConditions, Goto
<1>10. CASE ensureStorageClass
  BY <1>1, <1>10, PatchSame, UpdateSame
  DEF ensureStorageClass, handleResourceCreationError, Goto
<1>11. QED
  BY <1>2, <1>3, <1>4, <1>5, <1>6, <1>7, <1>8, <1>9, <1>10

\* Where the stored and the cached claim come from.
LEMMA ClaimsFrom ==
    ASSUME TypeOK, Next
    PROVE  /\ SameClaim \/ fsc'.uid = fsc.uid + 1
           /\ cache' \in {cache, fsc}
<1>1. ClaimOK
  BY TypeParts
<1>2. CASE Handler
  <2>1. SameClaim
    BY <1>1, <1>2, CleanupSame, ProvisioningSame DEF Handler
  <2>2. cache' = cache
    BY <1>2
    DEF Handler, Reconcile, handleFinalizers, handleDeletion, checkStorageClassUsage,
        checkFilesystemDeletionLabel, deleteStorageClass, deleteFilesystem, deleteLocalDisks,
        removeFinalizer, ensureLocalDisks, createLocalDisk, recordLocalDisk, endLocalDisks,
        syncLocalDiskConditions, ensureFileSystem, recordFileSystem,
        syncFilesystemConditions, ensureStorageClass, recordStorageClass, syncFSCReady,
        envVars
  <2>3. QED BY <2>1, <2>2
<1>3. CASE CreateClaim
  <2>1. fsc'.uid = fsc.uid + 1
    BY <1>3, GoneSays DEF CreateClaim, Gone
  <2>2. QED BY <1>3, <2>1 DEF CreateClaim, envVars
<1>4. CASE DeleteClaim \/ ReleaseHold \/ ValidateUpdate
  BY <1>1, <1>4, GoneSays
  DEF DeleteClaim, ReleaseHold, ValidateUpdate, SameClaim, ClaimOK, Claims, envVars
<1>5. CASE Crash \/ InformerSync
  BY <1>5 DEF Crash, InformerSync, SameClaim
<1>6. CASE \/ ApiError \/ TimerFires \/ Resync \/ LabelFilesystem \/ ProvisionVolume
           \/ ReleaseVolume \/ Tamper \/ Rediscover \/ Scale \/ GarbageCollect
  <2>1. UNCHANGED <<fsc, cache>>
    BY <1>6
    DEF ApiError, Requeue, TimerFires, Resync, LabelFilesystem, ProvisionVolume, ReleaseVolume,
        Tamper, Rediscover, Scale, ScaleLocalDisk, ScaleFilesystem, ScaleRemoves,
        GarbageCollect, claimVars, envVars
  <2>2. QED BY <2>1 DEF SameClaim
<1>7. QED BY <1>2, <1>3, <1>4, <1>5, <1>6 DEF Next, User

\* A claim that is there, stored or cached, was created.
UidInv == (fsc.exists => fsc.uid # 0) /\ (cache.exists => cache.uid # 0)

LEMMA NextUids == ASSUME TypeOK, UidInv, Next PROVE UidInv'
<1>1. fsc.uid \in Nat
  BY Bounds DEF TypeOK, Claims
<1>2. SameClaim \/ fsc'.uid = fsc.uid + 1
  BY ClaimsFrom
<1>3. fsc'.exists => fsc'.uid # 0
  BY <1>1, <1>2 DEF SameClaim, UidInv
<1>4. QED BY <1>3, ClaimsFrom DEF UidInv

----------------------------------------------------------------------------
(* Types.                                                                  *)

Adopting == {"status", "disks", "filesystem", "class"}
MigOK ==
    /\ mig \in Migrations /\ touched \subseteq Objects /\ marked \in BOOLEAN
    /\ mig.step \in Adopting => mig.uid # 0

MigrationInv == TypeOK /\ MigOK /\ UidInv

\* The next step of the migration, with everything it has read.
LEMMA StepTo ==
    ASSUME mig \in Migrations, NEW s \in MigSteps, mig' = [mig EXCEPT !.step = s]
    PROVE  mig' \in Migrations /\ mig'.step = s /\ mig'.uid = mig.uid
  BY DEF Migrations

LEMMA MarkedType ==
    ASSUME marked \in BOOLEAN,
           marked' = marked \/ marked' = TRUE \/ marked' \in Marks
    PROVE  marked' \in BOOLEAN
  BY DEF Marks

LEMMA DiscoverType == ASSUME MigrationInv, discoverLegacyLocalDisks PROVE MigrationInv'
<1>1. TypeOK' /\ UidInv'
  BY DEF discoverLegacyLocalDisks, MigrationInv, UidInv, TypeOK, vars, claimVars, passVars,
         childVars, envVars
<1>2. PICK s \in {"claim", "done"}, found \in SUBSET Wwns, o \in BOOLEAN, c \in BOOLEAN :
        mig' = [mig EXCEPT !.step = s, !.disks = found, !.owned = o, !.class = c]
  <2> DEFINE f == {w \in Wwns : isV1LocalDisk(w)}
  <2>1. f \in SUBSET Wwns
    OBVIOUS
  <2>2. (fs.own # 0) \in BOOLEAN /\ (sc # "absent") \in BOOLEAN
    OBVIOUS
  <2>3. (IF f = {} \/ ~FSExists THEN "done" ELSE "claim") \in {"claim", "done"}
    OBVIOUS
  <2>4. mig' = [mig EXCEPT !.step = IF f = {} \/ ~FSExists THEN "done" ELSE "claim",
                           !.disks = f, !.owned = fs.own # 0, !.class = sc # "absent"]
    BY DEF discoverLegacyLocalDisks
  <2> HIDE DEF f
  <2>5. QED BY <2>1, <2>2, <2>3, <2>4
<1>3. mig' \in Migrations /\ mig'.step \notin Adopting
  BY <1>2 DEF MigrationInv, MigOK, Migrations, MigSteps, Adopting
<1>4. touched' \subseteq Objects /\ marked' \in BOOLEAN
  BY MarkedType DEF discoverLegacyLocalDisks, MigrationInv, MigOK
<1>5. QED BY <1>1, <1>3, <1>4 DEF MigrationInv, MigOK

LEMMA CreateMigType == ASSUME MigrationInv, createOrGetFilesystemClaim PROVE MigrationInv'
<1>1. /\ ClaimOK /\ PassOK /\ ChildOK /\ EnvOK /\ FaultOK /\ MigOK /\ UidInv
      /\ UNCHANGED <<passVars, childVars, envVars, faults>>
  BY TypeParts DEF MigrationInv, createOrGetFilesystemClaim
<1>2. PassOK' /\ ChildOK' /\ EnvOK' /\ FaultOK'
  BY <1>1 DEF PassOK, ChildOK, EnvOK, FaultOK, passVars, childVars, envVars
<1>3. touched' \subseteq Objects /\ marked' \in BOOLEAN
  BY <1>1, MarkedType DEF createOrGetFilesystemClaim, MigOK
<1>4. /\ mig \in Migrations /\ fsc \in Claims /\ cache \in Claims
      /\ fsc.uid \in 0..MaxClaims /\ cache.uid \in 0..MaxClaims
  BY <1>1 DEF MigOK, ClaimOK, EnvOK, Claims
<1>5. CASE UNCHANGED claimVars
  <2>1. ClaimOK' /\ UidInv'
    BY <1>1, <1>5 DEF ClaimOK, UidInv, claimVars, envVars
  <2>2. \/ cache.exists /\ mig' = [mig EXCEPT !.step = "disks", !.uid = cache.uid]
        \/ mig' = [mig EXCEPT !.step = "done"]
        \/ fsc' # fsc
    <3>1. \A ds : [Gone(fsc.uid + 1) EXCEPT !.exists = TRUE, !.devices = ds].exists = TRUE
      BY DEF Gone
    <3>2. \/ cache.exists /\ mig' = [mig EXCEPT !.step = "disks", !.uid = cache.uid]
          \/ mig' = [mig EXCEPT !.step = "done"]
          \/ /\ ~fsc.exists
             /\ \E ds : fsc' = [Gone(fsc.uid + 1) EXCEPT !.exists = TRUE, !.devices = ds]
      BY DEF createOrGetFilesystemClaim
    <3>3. QED BY <3>1, <3>2
  <2>3. MigOK'
    <3>1. CASE cache.exists /\ mig' = [mig EXCEPT !.step = "disks", !.uid = cache.uid]
      <4>1. mig' \in Migrations /\ mig'.uid = cache.uid
        BY <1>4, <3>1 DEF Migrations, MigSteps
      <4>2. QED BY <1>1, <1>3, <3>1, <4>1 DEF MigOK, UidInv
    <3>2. CASE mig' = [mig EXCEPT !.step = "done"]
      BY <1>3, <1>4, <3>2, StepTo DEF MigOK, MigSteps, Adopting
    <3>3. QED BY <1>5, <2>2, <3>1, <3>2 DEF claimVars
  <2>4. QED BY <1>2, <2>1, <2>3, TypePartsPrime DEF MigrationInv
<1>6. CASE ~UNCHANGED claimVars
  <2>1. PICK ds \in DeviceLists :
          /\ fsc' = [Gone(fsc.uid + 1) EXCEPT !.exists = TRUE, !.devices = ds]
          /\ fsc.uid < MaxClaims /\ dirty' = TRUE
          /\ mig' = [mig EXCEPT !.step = "status", !.uid = fsc.uid + 1]
    BY <1>6 DEF createOrGetFilesystemClaim
  <2>2. fsc.uid + 1 \in 0..MaxClaims /\ fsc.uid + 1 # 0
    BY <1>4, <2>1, Bounds
  <2>3. Gone(fsc.uid + 1) \in Claims /\ Gone(fsc.uid + 1).uid = fsc.uid + 1
    BY <2>2, GoneClaim, GoneSays
  <2>4. fsc' \in Claims /\ fsc'.uid = fsc.uid + 1
    BY <2>1, <2>3 DEF Claims
  <2>5. ClaimOK' /\ UidInv'
    BY <1>1, <2>1, <2>2, <2>4 DEF ClaimOK, UidInv, envVars
  <2>6. mig' \in Migrations /\ mig'.uid = fsc.uid + 1
    BY <1>4, <2>1, <2>2 DEF Migrations, MigSteps
  <2>7. QED BY <1>2, <1>3, <2>2, <2>5, <2>6, TypePartsPrime DEF MigrationInv, MigOK
<1>7. QED BY <1>5, <1>6

LEMMA MigratedType == Migrated \in [CondTypes -> Reasons]
  BY DEF Migrated, Reasons, TrueReasons

LEMMA UpdateStatusType == ASSUME MigrationInv, updateStatus PROVE MigrationInv'
<1>1. /\ ClaimOK /\ PassOK /\ ChildOK /\ EnvOK /\ FaultOK /\ MigOK /\ UidInv
      /\ UNCHANGED <<passVars, childVars, envVars, touched, marked>>
  BY TypeParts DEF MigrationInv, updateStatus
<1>2. PassOK' /\ ChildOK' /\ EnvOK'
  BY <1>1 DEF PassOK, ChildOK, EnvOK, passVars, childVars, envVars
<1>3. faults' = faults \/ (faults < MaxFaults /\ faults' = faults + 1)
  BY DEF updateStatus, CanFail
<1>4. FaultOK'
  BY <1>1, <1>3, Bounds DEF FaultOK
<1>5. UNCHANGED claimVars \/ (fsc' = [fsc EXCEPT !.cond = Migrated] /\ dirty' = TRUE)
  BY DEF updateStatus
<1>6. /\ fsc' \in Claims /\ fsc'.exists = fsc.exists /\ fsc'.uid = fsc.uid
      /\ fsc'.del = fsc.del /\ fsc'.fin = fsc.fin /\ fsc'.hold = fsc.hold
  BY <1>1, <1>5, MigratedType DEF ClaimOK, Claims, claimVars
<1>7. ClaimOK' /\ UidInv'
  BY <1>1, <1>5, <1>6 DEF ClaimOK, UidInv, claimVars, envVars
<1>8. MigOK'
  <2>1. mig.step = "status" /\ mig' = [mig EXCEPT !.step = "disks"]
    BY DEF updateStatus
  <2>2. QED BY <1>1, <2>1, StepTo DEF MigOK, MigSteps, Adopting
<1>9. QED BY <1>2, <1>4, <1>7, <1>8, TypePartsPrime DEF MigrationInv

LEMMA AdoptType ==
    ASSUME MigrationInv, adoptLocalDisk \/ adoptFilesystem \/ adoptStorageClass
    PROVE  MigrationInv'
<1>1. /\ ClaimOK /\ PassOK /\ ChildOK /\ EnvOK /\ FaultOK /\ MigOK /\ UidInv
      /\ UNCHANGED <<claimVars, timer, pc, mem, todo, node, envVars, faults, touched>>
  BY TypeParts DEF MigrationInv, adoptLocalDisk, adoptFilesystem, adoptStorageClass, passVars
<1>2. ClaimOK' /\ EnvOK' /\ FaultOK' /\ UidInv'
  BY <1>1 DEF ClaimOK, EnvOK, FaultOK, UidInv, claimVars, envVars
<1>3. PassOK'
  <2>1. queued' \in BOOLEAN
    <3>1. CASE queued' = queued
      BY <1>1, <3>1 DEF PassOK
    <3>2. CASE queued' = (queued \/ enqueueFSCByStorageClass(sc'))
      <4>1. (queued \/ enqueueFSCByStorageClass(sc')) \in BOOLEAN
        OBVIOUS
      <4>2. QED BY <3>2, <4>1
    <3>3. QED BY <3>1, <3>2 DEF adoptLocalDisk, adoptFilesystem, adoptStorageClass, passVars
  <2>2. QED BY <1>1, <2>1 DEF PassOK
<1>4. mig \in Migrations /\ mig.uid \in 0..MaxClaims /\ mig.disks \subseteq Wwns
      /\ (mig.step \in Adopting => mig.uid # 0)
  BY <1>1 DEF MigOK, Migrations
<1>5. ChildOK'
  <2>1. CASE adoptLocalDisk
    <3>1. ld' = ld \/ \E w \in Wwns : ld' = [ld EXCEPT ![w].own = mig.uid]
      BY <1>4, <2>1 DEF adoptLocalDisk
    <3>2. ld' \in [Wwns -> LocalDisks]
      BY <1>1, <1>4, <3>1 DEF ChildOK, LocalDisks
    <3>3. QED BY <1>1, <2>1, <3>2 DEF adoptLocalDisk, ChildOK
  <2>2. CASE adoptFilesystem
    <3>1. fs' = fs \/ fs' = [fs EXCEPT !.own = mig.uid]
      BY <2>2 DEF adoptFilesystem
    <3>2. fs' \in Filesystems
      BY <1>1, <1>4, <3>1 DEF ChildOK, Filesystems
    <3>3. QED BY <1>1, <2>2, <3>2 DEF adoptFilesystem, ChildOK
  <2>3. CASE adoptStorageClass
    BY <1>1, <2>3 DEF adoptStorageClass, ChildOK, SCStates
  <2>4. QED BY <2>1, <2>2, <2>3
<1>6. MigOK'
  <2>1. mig.uid # 0
    BY <1>4 DEF adoptLocalDisk, adoptFilesystem, adoptStorageClass, Adopting
  <2>2. mig' \in Migrations /\ mig'.uid = mig.uid
    <3>1. CASE \E s \in MigSteps : mig' = [mig EXCEPT !.step = s]
      BY <1>4, <3>1, StepTo
    <3>2. CASE \E w \in mig.disks : mig' = [mig EXCEPT !.disks = @ \ {w}]
      BY <1>4, <3>2 DEF Migrations
    <3>3. QED BY <3>1, <3>2 DEF adoptLocalDisk, adoptFilesystem, adoptStorageClass, MigSteps
  <2>3. marked' \in BOOLEAN
    BY <1>1, MarkedType DEF MigOK, adoptLocalDisk, adoptFilesystem, adoptStorageClass
  <2>4. QED BY <1>1, <2>1, <2>2, <2>3 DEF MigOK
<1>7. QED BY <1>2, <1>3, <1>5, <1>6, TypePartsPrime DEF MigrationInv

LEMMA ErrorType == ASSUME MigrationInv, migrationError PROVE MigrationInv'
<1>1. /\ ClaimOK /\ PassOK /\ ChildOK /\ EnvOK /\ FaultOK /\ MigOK /\ UidInv
      /\ UNCHANGED <<claimVars, passVars, childVars, envVars, touched, marked>>
      /\ faults < MaxFaults /\ faults' = faults + 1 /\ mig' = [mig EXCEPT !.step = "done"]
  BY TypeParts DEF MigrationInv, migrationError, CanFail
<1>2. ClaimOK' /\ PassOK' /\ ChildOK' /\ EnvOK' /\ UidInv'
  BY <1>1 DEF ClaimOK, PassOK, ChildOK, EnvOK, UidInv, claimVars, passVars, childVars, envVars
<1>3. FaultOK'
  BY <1>1, Bounds DEF FaultOK
<1>4. MigOK'
  BY <1>1, StepTo DEF MigOK, MigSteps, Adopting
<1>5. QED BY <1>2, <1>3, <1>4, TypePartsPrime DEF MigrationInv

LEMMA FreshType == Fresh \in Migrations /\ Fresh.step \notin Adopting /\ Fresh.uid = 0
  BY Bounds DEF Fresh, Migrations, MigSteps, Adopting

LEMMA BesideType == ASSUME MigrationInv, Beside \/ Restart PROVE MigrationInv'
<1>1. Next
  BY BesideShape DEF BesideStep, Restart, Next
<1>2. TypeOK' /\ UidInv'
  BY <1>1, NextType, NextUids DEF MigrationInv
<1>3. CASE Beside
  BY <1>2, <1>3, BesideShape, TouchedType, MarkedType DEF BesideStep, MigrationInv, MigOK
<1>4. CASE Restart
  BY <1>2, <1>4, FreshType DEF Restart, MigrationInv, MigOK
<1>5. QED BY <1>3, <1>4

LEMMA MigrationStepType ==
    ASSUME MigrationInv, [MigrationNext]_allVars PROVE MigrationInv'
<1>1. CASE UNCHANGED allVars
  BY <1>1 DEF allVars, migVars, vars, claimVars, passVars, childVars, envVars, MigrationInv,
              TypeOK, UidInv, MigOK
<1>2. CASE MigrationNext
  BY <1>2, DiscoverType, CreateMigType, UpdateStatusType, AdoptType, ErrorType, BesideType
  DEF MigrationNext, RunMigration
<1>3. QED BY <1>1, <1>2

LEMMA LegacyStart == ASSUME LegacyInit PROVE MigrationInv
<1>1. NoLD \in LocalDisks /\ \A d \in Devices : [NoLD EXCEPT !.st = "used", !.dev = d] \in LocalDisks
  <2>1. NoLD \in LocalDisks
    BY Bounds DEF NoLD, LocalDisks, LDStates
  <2>2. QED BY <2>1 DEF LocalDisks, LDStates
<1>2. ChildOK
  <2>1. ld \in [Wwns -> LocalDisks]
    BY <1>1, LegacyAssumption DEF LegacyInit
  <2>2. NoFS \in Filesystems
    BY Bounds DEF NoFS, Filesystems, FSStates
  <2>3. fs \in Filesystems
    BY <2>2, LegacyAssumption DEF LegacyInit, Filesystems, FSStates
  <2>4. sc \in SCStates
    BY DEF LegacyInit, SCStates
  <2>5. QED BY <2>1, <2>3, <2>4 DEF ChildOK
<1>3. ClaimOK /\ PassOK
  <2>1. ClaimOK
    BY ZeroGone DEF LegacyInit, ClaimOK
  <2>2. pc \in Pcs /\ pc = "idle" /\ mem \in Claims
    BY ZeroGone DEF LegacyInit, Pcs
  <2>3. queued \in BOOLEAN /\ timer \in BOOLEAN
    BY DEF LegacyInit
  <2>4. todo \in Seq(Devices) /\ node \in Nodes \cup {NoNode}
    <3>1. todo = <<>> /\ node = NoNode
      BY DEF LegacyInit
    <3>2. QED BY <3>1
  <2>5. QED BY <2>1, <2>2, <2>3, <2>4 DEF PassOK
<1>4. EnvOK /\ FaultOK
  <2>1. cache = Gone(0) /\ pv = "none" /\ discovery \in Discoveries /\ faults = 0 /\ upsets = 0
    BY DEF LegacyInit
  <2>2. QED BY <2>1, ZeroGone, Bounds DEF EnvOK, FaultOK, PVStates
<1>5. MigOK /\ UidInv
  BY FreshType, GoneSays DEF LegacyInit, MigOK, UidInv
<1>6. QED BY <1>2, <1>3, <1>4, <1>5, TypeParts DEF MigrationInv

\* The migration and everything beside it keep their types, and it adopts for a claim
\* that was created only, found in a cache that may lag or created by itself.
THEOREM MigrationTypeCorrect == MigrationSpec => []MigrationTypeOK
<1>1. MigrationInv => MigrationTypeOK
  BY DEF MigrationInv, MigOK, MigrationTypeOK, Adopting
<1>2. QED BY <1>1, LegacyStart, MigrationStepType, PTL DEF MigrationSpec

----------------------------------------------------------------------------
(* Nothing of version 1.0 is lost while the claim that adopts it lives.    *)

DiskKept(w) == ld[w].st # "absent" /\ ~ld[w].del

\* Every LocalDisk keeps reporting the filesystem it is used in.
Healthy == Upsets \cap {"unhealthy", "foreign"} = {}

\* What takes a LocalDisk away, whom it belongs to, and what it reports.
LdStep ==
    \A w \in Wwns :
        /\ DiskKept(w) =>
              \/ DiskKept(w)' \/ pc = "deleteLocalDisks" \/ "tamper" \in Upsets
              \/ Orphan(ld[w].own) /\ fsc' = fsc
        /\ ld'[w].own \in {ld[w].own, 0, mem.uid}
        /\ DiskKept(w) => ld'[w].own = ld[w].own
        /\ ld[w].own = 0 /\ ld'[w].own # 0 => DiskKept(w)'
        /\ DiskKept(w) /\ ld[w].st = "used" => ld'[w].st = "used" \/ ~FSExists \/ ~Healthy

LEMMA LdShapeAll == ASSUME TypeOK, [Next]_vars PROVE LdStep
<1>1. ld \in [Wwns -> LocalDisks]
  BY DEF TypeOK
<1>2. CASE ld' = ld
  BY <1>2 DEF LdStep, DiskKept
<1>3. CASE deleteLocalDisks
  <2>1. \/ ld' = ld
        \/ \E S \in SUBSET OwnedLDs :
              ld' = [w \in Wwns |-> IF w \in S THEN [ld[w] EXCEPT !.del = TRUE] ELSE ld[w]]
    BY <1>3 DEF deleteLocalDisks
  <2>2. \A w \in Wwns : ld'[w].own = ld[w].own /\ ld'[w].st = ld[w].st
    BY <1>1, <2>1 DEF LocalDisks
  <2>3. QED BY <1>3, <2>2 DEF deleteLocalDisks, LdStep
<1>4. CASE createLocalDisk
  <2>1. ld' = ld \/ \E w \in Wwns : /\ ld[w].st = "absent"
                                    /\ ld' = [ld EXCEPT ![w] = NewLocalDisk(Head(todo))]
    BY <1>4 DEF createLocalDisk
  <2>2. QED BY <1>1, <2>1 DEF LdStep, DiskKept, NewLocalDisk, LocalDisks
<1>5. CASE Tamper
  <2>1. ld' = ld \/ ("tamper" \in Upsets /\ \E w \in OwnedLDs : ld' = [ld EXCEPT ![w].del = TRUE])
    BY <1>5 DEF Tamper, Upset
  <2>2. \A w \in Wwns : ld'[w].own = ld[w].own /\ ld'[w].st = ld[w].st
    BY <1>1, <2>1 DEF OwnedLDs, LocalDisks
  <2>3. QED BY <2>1, <2>2 DEF LdStep, DiskKept
<1>6. CASE \E w \in Wwns : ScaleLocalDisk(w)
  <2>1. PICK w \in Wwns, x \in LDStates \ {"absent"} :
          /\ ld' = [ld EXCEPT ![w].st = x]
          /\ ld[w].st = "used" => x = "used" \/ ~FSExists \/ ~Healthy
    BY <1>6 DEF ScaleLocalDisk, Upset, Healthy
  <2>2. QED BY <1>1, <2>1 DEF LdStep, DiskKept, LocalDisks
<1>7. CASE ScaleRemoves
  <2>1. ld' = ld \/ \E w \in Wwns : ld[w].del /\ ld' = [ld EXCEPT ![w] = NoLD]
    BY <1>7 DEF ScaleRemoves
  <2>2. QED BY <1>1, <2>1 DEF LdStep, DiskKept, NoLD, LocalDisks
<1>8. CASE GarbageCollect
  <2>1. \/ ld' = ld
        \/ /\ \E w \in Wwns : Orphan(ld[w].own) /\ ld' = [ld EXCEPT ![w].del = TRUE]
           /\ fsc' = fsc
    BY <1>8 DEF GarbageCollect, claimVars
  <2>2. QED BY <1>1, <2>1 DEF LdStep, DiskKept, LocalDisks
<1>9. QED
  <2>1. CASE UNCHANGED vars
    BY <1>2, <2>1 DEF vars, childVars
  <2>2. CASE Handler
    BY <1>2, <1>3, <1>4, <2>2
    DEF Handler, Reconcile, handleFinalizers, handleDeletion, checkStorageClassUsage,
        checkFilesystemDeletionLabel, deleteStorageClass, deleteFilesystem, removeFinalizer,
        ensureLocalDisks, recordLocalDisk, endLocalDisks, syncLocalDiskConditions,
        ensureFileSystem, recordFileSystem, syncFilesystemConditions, ensureStorageClass,
        recordStorageClass, syncFSCReady, childVars
  <2>3. CASE ~Handler /\ Next
    BY <1>2, <1>5, <1>6, <1>7, <1>8, <2>3
    DEF Next, ApiError, Crash, InformerSync, TimerFires, Resync, User, CreateClaim,
        DeleteClaim, ReleaseHold, ValidateUpdate, LabelFilesystem, ProvisionVolume,
        ReleaseVolume, Rediscover, Scale, ScaleFilesystem, childVars
  <2>4. QED BY <2>1, <2>2, <2>3

\* The claim was there and is to go: from here on its objects may be deleted.
Going == Away(fsc) /\ fsc.uid # 0

\* Only then a version of it says so, and only a claim that was created owns anything.
GoingInv ==
    /\ fsc.del => fsc.exists
    /\ mem.del \/ cache.del => Going
    /\ pc \in Cleaning => mem.del
OwnerInv ==
    \/ fsc.uid # 0
    \/ /\ mem.uid = 0 /\ cache.uid = 0 /\ mig.uid = 0 /\ fs.own = 0
       /\ \A w \in Wwns : ld[w].own = 0
KeptInv == Going \/ (FSExists /\ ~fs.del /\ \A w \in Legacy : DiskKept(w))

LegacyInv == DeletionInv /\ GoingInv /\ OwnerInv /\ KeptInv

\* A claim of a name used once is never followed by another.
LEMMA CreatedFirst ==
    ASSUME OneClaim, TypeOK, TypeOK', fsc'.uid = fsc.uid + 1 PROVE fsc.uid = 0
<1>1. fsc.uid \in 0..MaxClaims /\ fsc'.uid \in 0..MaxClaims
  BY DEF TypeOK, Claims
<1>2. QED BY <1>1, Bounds DEF OneClaim

LEMMA StaysGoing ==
    ASSUME OneClaim, TypeOK, TypeOK', ClaimStep PROVE (Going => Going') /\ (fsc.uid # 0 => fsc'.uid # 0)
<1>1. ClaimOK /\ fsc.uid \in Nat
  BY TypeParts, Bounds DEF TypeOK, Claims
<1>2. CASE fsc'.uid = fsc.uid
  BY <1>1, <1>2, NextUid DEF Going
<1>3. CASE fsc'.uid # fsc.uid
  <2>1. fsc'.uid = fsc.uid + 1
    BY <1>1, <1>3, NextUid
  <2>2. QED BY <2>1, CreatedFirst DEF Going
<1>4. QED BY <1>2, <1>3

LEMMA NextDeleted ==
    ASSUME fsc.del => fsc.exists, ClaimStep PROVE (fsc.del => fsc.exists)'
<1>1. CASE Turns
  BY <1>1, GoneSays DEF Turns
<1>2. ASSUME NEW cs, Writes(cs) PROVE (fsc.del => fsc.exists)'
  BY <1>2 DEF Writes
<1>3. QED
  BY <1>1, <1>2
  DEF ClaimStep, Still, Syncs, Starts, Moves, Ends, MarkWrite, BlockWrite, StageWrite,
      ProvisionWrite, Creates

\* With one claim, an object without a living owner means that the claim is going.
LEMMA OrphanGoing ==
    ASSUME OneClaim, TypeOK, OwnerInv, NEW own \in 0..MaxClaims, own # 0 => fsc.uid # 0, Orphan(own)
    PROVE  Going
<1>1. own # 0 /\ fsc.uid # 0 /\ fsc.uid \in 0..MaxClaims
  BY DEF Orphan, TypeOK, Claims
<1>2. own = fsc.uid
  BY <1>1, Bounds DEF OneClaim
<1>3. QED BY <1>1, <1>2 DEF Orphan, Going, Away

LEMMA BesideKept ==
    ASSUME OneClaim, "tamper" \notin Upsets, TypeOK, UidInv, TypeOK', LegacyInv, [Next]_vars,
           mig' = mig \/ mig'.uid = 0
    PROVE  LegacyInv'
<1>1. DeletionInv' /\ ClaimStep
  BY NextInv, StepShape DEF LegacyInv, OneClaim
<1>2. (Going => Going') /\ (fsc.uid # 0 => fsc'.uid # 0)
  BY <1>1, StaysGoing
<1>3. GoingInv'
  <2>1. (pc \in Cleaning => mem.del)'
    BY <1>1, NextCleaning DEF LegacyInv, GoingInv
  <2>2. cache'.del => Going'
    <3>1. CASE cache' = cache
      BY <1>2, <3>1 DEF LegacyInv, GoingInv
    <3>2. CASE cache' = fsc /\ fsc' = fsc /\ fsc.del
      <4>1. fsc.uid # 0
        BY <3>2 DEF LegacyInv, GoingInv, UidInv
      <4>2. QED BY <3>2, <4>1 DEF Going, Away
    <3>3. QED BY <1>1, <3>1, <3>2, CopiesFrom
  <2>3. mem'.del => Going'
    <3>1. ~Gone(0).del
      BY GoneSays
    <3>2. QED BY <1>1, <1>2, <3>1, CopiesFrom DEF LegacyInv, GoingInv
  <2>4. (fsc.del => fsc.exists)'
    BY <1>1, NextDeleted DEF LegacyInv, GoingInv
  <2>5. QED BY <2>1, <2>2, <2>3, <2>4 DEF GoingInv
<1>4. OwnerInv'
  <2>1. CASE fsc.uid # 0
    BY <1>2, <2>1 DEF OwnerInv
  <2>2. CASE fsc.uid = 0
    <3>1. /\ mem.uid = 0 /\ cache.uid = 0 /\ mig.uid = 0 /\ fs.own = 0
          /\ \A w \in Wwns : ld[w].own = 0
      BY <2>2 DEF LegacyInv, OwnerInv
    <3>2. cache'.uid = 0 /\ mem'.uid = 0
      BY <1>1, <2>2, <3>1, CopiesFrom, GoneSays
    <3>3. fs'.own = 0
      <4>1. NoFS.own = 0 /\ NewFilesystem(OwnedLDs).own = mem.uid
        BY DEF NoFS, NewFilesystem
      <4>2. QED BY <3>1, <4>1, FsShape DEF FsStep
    <3>4. \A w \in Wwns : ld'[w].own = 0
      BY <3>1, LdShapeAll DEF LdStep
    <3>5. QED BY <3>1, <3>2, <3>3, <3>4 DEF OwnerInv
  <2>3. QED BY <2>1, <2>2
<1>5. KeptInv'
  <2>1. CASE Going
    BY <1>2, <2>1 DEF KeptInv
  <2>2. CASE ~Going
    <3>1. pc \notin Cleaning /\ FSExists /\ ~fs.del /\ \A w \in Legacy : DiskKept(w)
      BY <2>2 DEF LegacyInv, GoingInv, KeptInv
    <3>2. ASSUME NEW own \in 0..MaxClaims, own # 0 => fsc.uid # 0 PROVE ~Orphan(own)
      BY <2>2, <3>2, OrphanGoing DEF LegacyInv
    <3>3. fs.own \in 0..MaxClaims /\ (fs.own # 0 => fsc.uid # 0)
      BY DEF TypeOK, Filesystems, LegacyInv, OwnerInv
    <3>4. FSExists' /\ ~fs'.del
      BY <3>1, <3>2, <3>3, FsShape DEF FsStep, FSExists, Cleaning, Deleting
    <3>5. \A w \in Wwns : ld[w].own \in 0..MaxClaims /\ (ld[w].own # 0 => fsc.uid # 0)
      BY DEF TypeOK, LocalDisks, LegacyInv, OwnerInv
    <3>6. \A w \in Legacy : DiskKept(w)'
      BY <3>1, <3>2, <3>5, LdShapeAll, LegacyAssumption DEF LdStep, Cleaning, Deleting
    <3>7. QED BY <3>4, <3>6 DEF KeptInv
  <2>3. QED BY <2>1, <2>2
<1>6. QED BY <1>1, <1>3, <1>4, <1>5 DEF LegacyInv

\* The migration itself takes nothing away; what it makes belongs to a claim it saw.
LEMMA MigrationKept ==
    ASSUME OneClaim, MigrationInv, MigrationInv', LegacyInv, RunMigration PROVE LegacyInv'
<1>1. UNCHANGED <<pc, mem, cache>>
  BY DEF RunMigration, discoverLegacyLocalDisks, createOrGetFilesystemClaim, updateStatus,
         adoptLocalDisk, adoptFilesystem, adoptStorageClass, migrationError, vars, passVars,
         envVars
<1>2. /\ mig \in Migrations /\ ld \in [Wwns -> LocalDisks] /\ fs \in Filesystems
      /\ fsc \in Claims /\ fsc.uid \in 0..MaxClaims
  BY DEF MigrationInv, MigOK, TypeOK, Claims
<1>3. ASSUME UNCHANGED childVars, fsc' = fsc, mig'.uid \in {mig.uid, cache.uid}
      PROVE  LegacyInv'
  <2>1. DeletionInv' /\ GoingInv' /\ KeptInv'
    BY <1>1, <1>3
    DEF LegacyInv, DeletionInv, PassInv, Finalized, GoingInv, Going, Away, KeptInv, FSExists,
        DiskKept, childVars
  <2>2. OwnerInv'
    BY <1>1, <1>3 DEF LegacyInv, OwnerInv, childVars
  <2>3. QED BY <2>1, <2>2 DEF LegacyInv
<1>4. CASE discoverLegacyLocalDisks \/ migrationError
  <2>1. mig'.uid = mig.uid
    BY <1>2, <1>4 DEF discoverLegacyLocalDisks, migrationError, Migrations
  <2>2. QED BY <1>3, <1>4, <2>1
            DEF discoverLegacyLocalDisks, migrationError, vars, claimVars
<1>5. CASE createOrGetFilesystemClaim
  <2>1. UNCHANGED childVars
    BY <1>5 DEF createOrGetFilesystemClaim
  <2>2. CASE UNCHANGED claimVars
    <3>1. \A u \in 0..MaxClaims : [mig EXCEPT !.step = "disks", !.uid = u].uid = u
      BY <1>2 DEF Migrations
    <3>2. [mig EXCEPT !.step = "done"].uid = mig.uid /\ cache.uid \in 0..MaxClaims
      BY <1>2 DEF Migrations, MigrationInv, TypeOK, Claims
    <3>3. CASE mig' = [mig EXCEPT !.step = "disks", !.uid = cache.uid]
      BY <1>3, <2>1, <2>2, <3>1, <3>2, <3>3 DEF claimVars
    <3>4. CASE mig' = [mig EXCEPT !.step = "done"]
      BY <1>3, <2>1, <2>2, <3>2, <3>4 DEF claimVars
    <3>5. CASE \E ds : ~fsc.exists /\ fsc' = [Gone(fsc.uid + 1) EXCEPT !.exists = TRUE, !.devices = ds]
      <4>1. fsc'.exists
        BY <3>5 DEF Gone
      <4>2. QED BY <2>2, <3>5, <4>1 DEF claimVars
    <3>6. QED BY <1>5, <3>3, <3>4, <3>5 DEF createOrGetFilesystemClaim
  <2>3. CASE ~UNCHANGED claimVars
    <3>1. PICK ds \in DeviceLists :
            /\ fsc.uid < MaxClaims
            /\ fsc' = [Gone(fsc.uid + 1) EXCEPT !.exists = TRUE, !.devices = ds]
      BY <1>5, <2>3 DEF createOrGetFilesystemClaim
    <3>2. /\ fsc'.exists /\ fsc'.uid = fsc.uid + 1 /\ ~fsc'.del /\ ~fsc'.hold
      BY <3>1 DEF Gone
    <3>3. fsc.uid = 0 /\ fsc'.uid # 0
      BY <1>2, <3>1, <3>2, Bounds DEF OneClaim
    <3>4. ~Going
      BY <3>3 DEF Going
    <3>5. DeletionInv' /\ GoingInv'
      BY <1>1, <3>2, <3>4 DEF LegacyInv, DeletionInv, PassInv, Finalized, GoingInv
    <3>6. KeptInv'
      BY <2>1, <3>4 DEF LegacyInv, KeptInv, FSExists, DiskKept, childVars
    <3>7. QED BY <3>3, <3>5, <3>6 DEF LegacyInv, OwnerInv
  <2>4. QED BY <2>2, <2>3
<1>6. CASE updateStatus
  <2>1. mig' = [mig EXCEPT !.step = "disks"] /\ UNCHANGED childVars
    BY <1>6 DEF updateStatus
  <2>2. mig'.uid = mig.uid
    BY <1>2, <2>1 DEF Migrations
  <2>3. CASE fsc' = fsc
    BY <1>3, <2>1, <2>2, <2>3
  <2>4. CASE fsc' = [fsc EXCEPT !.cond = Migrated]
    <3>1. /\ fsc'.exists = fsc.exists /\ fsc'.uid = fsc.uid /\ fsc'.del = fsc.del
          /\ fsc'.fin = fsc.fin /\ fsc'.hold = fsc.hold
      BY <1>2, <2>4 DEF Claims
    <3>2. DeletionInv' /\ GoingInv' /\ KeptInv'
      BY <1>1, <2>1, <3>1
      DEF LegacyInv, DeletionInv, PassInv, Finalized, GoingInv, Going, Away, KeptInv, FSExists,
          DiskKept, childVars
    <3>3. OwnerInv'
      BY <1>1, <2>1, <2>2, <3>1 DEF LegacyInv, OwnerInv, childVars
    <3>4. QED BY <3>2, <3>3 DEF LegacyInv
  <2>5. QED BY <1>6, <2>3, <2>4 DEF updateStatus, claimVars
<1>7. CASE adoptLocalDisk \/ adoptFilesystem \/ adoptStorageClass
  <2>1. fsc' = fsc
    BY <1>7 DEF adoptLocalDisk, adoptFilesystem, adoptStorageClass, claimVars
  <2>2. mig.uid # 0
    BY <1>7 DEF MigrationInv, MigOK, Adopting, adoptLocalDisk, adoptFilesystem, adoptStorageClass
  <2>3. fsc.uid # 0
    BY <2>2 DEF LegacyInv, OwnerInv
  <2>4. FSExists' = FSExists /\ fs'.del = fs.del
    <3>1. fs' = fs \/ fs' = [fs EXCEPT !.own = mig.uid]
      BY <1>7 DEF adoptLocalDisk, adoptFilesystem, adoptStorageClass
    <3>2. QED BY <1>2, <3>1 DEF Filesystems, FSExists
  <2>5. \A w \in Wwns : ld'[w].st = ld[w].st /\ ld'[w].del = ld[w].del
    <3>1. ld' = ld \/ \E w \in Wwns : ld' = [ld EXCEPT ![w].own = mig.uid]
      BY <1>2, <1>7 DEF adoptLocalDisk, adoptFilesystem, adoptStorageClass, Migrations
    <3>2. QED BY <1>2, <3>1 DEF LocalDisks
  <2>6. DeletionInv' /\ GoingInv'
    BY <1>1, <2>1 DEF LegacyInv, DeletionInv, PassInv, Finalized, GoingInv, Going, Away
  <2>7. KeptInv'
    BY <2>1, <2>4, <2>5, LegacyAssumption DEF LegacyInv, KeptInv, Going, Away, DiskKept
  <2>8. QED BY <2>1, <2>3, <2>6, <2>7 DEF LegacyInv, OwnerInv
<1>8. QED BY <1>4, <1>5, <1>6, <1>7 DEF RunMigration

LEMMA LegacyThere == ASSUME LegacyInit PROVE LegacyInv
<1>1. /\ fsc = Gone(0) /\ cache = Gone(0) /\ mem = Gone(0) /\ pc = "idle" /\ mig = Fresh
      /\ fs = [NoFS EXCEPT !.st = "healthy", !.disks = Legacy]
      /\ ld = [w \in Wwns |-> IF w \in Legacy THEN [NoLD EXCEPT !.st = "used",
                                                               !.dev = LegacyDevice[w]]
                                              ELSE NoLD]
  BY DEF LegacyInit
<1>2. DeletionInv /\ GoingInv
  BY <1>1, GoneFinalized, GoneSays
  DEF DeletionInv, PassInv, Provisioning, GoingInv, Cleaning, Deleting
<1>3. fs.own = 0 /\ FSExists /\ ~fs.del
  BY <1>1 DEF NoFS, FSExists
<1>4. (\A w \in Wwns : ld[w].own = 0) /\ (\A w \in Legacy : DiskKept(w))
  BY <1>1, LegacyAssumption DEF NoLD, DiskKept
<1>5. OwnerInv
  BY <1>1, <1>3, <1>4, FreshType, GoneSays DEF OwnerInv
<1>6. QED BY <1>2, <1>3, <1>4, <1>5 DEF LegacyInv, KeptInv

\* What version 1.0 made is there as long as the claim that adopts it is: wherever
\* the migration is interrupted, whatever the controller reports of the claim
\* meanwhile and however late the informer is.  The claim is the first of its name, has
\* no foreign finalizer, and nobody deletes the objects themselves.
THEOREM LegacyIsKept ==
    ASSUME OneClaim, "tamper" \notin Upsets PROVE MigrationSpec => []LegacyKept
<1>1. LegacyInit => MigrationInv /\ LegacyInv
  BY LegacyStart, LegacyThere
<1>2. MigrationInv /\ LegacyInv /\ [MigrationNext]_allVars => MigrationInv' /\ LegacyInv'
  <2>1. SUFFICES ASSUME MigrationInv, LegacyInv, [MigrationNext]_allVars
                 PROVE  MigrationInv' /\ LegacyInv'
    OBVIOUS
  <2>2. MigrationInv' /\ TypeOK /\ UidInv /\ TypeOK'
    BY <2>1, MigrationStepType DEF MigrationInv
  <2>3. CASE RunMigration
    BY <2>1, <2>2, <2>3, MigrationKept
  <2>4. CASE Beside \/ Restart
    <3>1. Next
      BY <2>4, BesideShape DEF BesideStep, Restart, Next
    <3>2. mig' = mig \/ mig'.uid = 0
      BY <2>4, BesideShape, FreshType DEF BesideStep, Restart
    <3>3. QED BY <2>1, <2>2, <3>1, <3>2, BesideKept
  <2>5. CASE UNCHANGED allVars
    <3>1. UNCHANGED vars /\ mig' = mig
      BY <2>5 DEF allVars, migVars
    <3>2. QED BY <2>1, <2>2, <3>1, BesideKept
  <2>6. QED BY <2>1, <2>3, <2>4, <2>5 DEF MigrationNext
<1>3. MigrationInv /\ LegacyInv => LegacyKept
  BY DEF LegacyInv, KeptInv, Going, Away, DiskKept, LegacyKept
<1>4. QED BY <1>1, <1>2, <1>3, PTL DEF MigrationSpec

----------------------------------------------------------------------------
(* No disk is taken out of the filesystem.                                 *)

\* No pass that starts from this version of the claim provisions anything.
Unfit(c) == Away(c) \/ ~c.fin

\* The claim is to go, and no pass provisions for it any more.
Parting == Going /\ Unfit(cache) /\ Unfit(mem)

PartInv ==
    /\ mem.del => Parting
    /\ ~fsc.exists => fsc.uid = 0 \/ Parting
    /\ ~fsc.exists => ~fsc.fin
    /\ cache.fin \/ mem.fin => fsc.fin \/ Parting
    /\ pc # "idle" => mem.exists
    /\ pc \notin {"idle", "handleFinalizers"} => mem.fin

\* Until then the Filesystem and its LocalDisks are there,
HeldInv ==
    \/ Parting
    \/ /\ FSExists /\ ~fs.del
       /\ \A w \in Wwns : w \in Legacy \/ ld[w].own # 0 => DiskKept(w)
\* a disk of version 1.0 nobody has adopted is one the migration finds,
UsedInv == Parting \/ \A w \in Legacy : ld[w].own = 0 => ld[w].st = "used"
\* it adopts all of them before it turns to the Filesystem,
AdoptInv ==
    \/ Parting
    \/ /\ mig.disks \subseteq Legacy
       /\ mig.step \in {"claim", "status", "disks"} =>
             \A w \in Legacy : ld[w].own # 0 \/ w \in mig.disks
       /\ mig.step = "filesystem" => \A w \in Legacy : ld[w].own # 0
\* and the claim that owns the Filesystem owns every disk in it.
StoreInv ==
    \/ Parting
    \/ /\ fs.own = 0 => fs.disks \subseteq Legacy
       /\ fs.own # 0 => Legacy \cup fs.disks \subseteq OwnedLDs

DisksInv == PartInv /\ HeldInv /\ UsedInv /\ AdoptInv /\ StoreInv

LEMMA PartingStays ==
    ASSUME OneClaim, TypeOK, TypeOK', ClaimStep, Parting PROVE Parting'
<1>1. Going'
  BY StaysGoing DEF Parting
<1>2. Unfit(cache)'
  BY CopiesFrom DEF Parting, Going, Unfit, Away
<1>3. Unfit(mem)'
  BY CopiesFrom, GoneSays DEF Parting, Unfit, Away
<1>4. QED BY <1>1, <1>2, <1>3 DEF Parting

\* A pass that provisions is over a claim that is not parting.
LEMMA ProvisionsFor ==
    ASSUME DeletionInv, PartInv, pc \in Provisioning PROVE ~Parting
<1>1. mem.exists /\ mem.fin /\ ~mem.del
  BY DEF DeletionInv, PassInv, PartInv, Provisioning
<1>2. QED BY <1>1 DEF Parting, Unfit, Away

LEMMA NextPart ==
    ASSUME OneClaim, TypeOK, UidInv, TypeOK', LegacyInv, PartInv, ClaimStep
    PROVE  PartInv'
<1>1. Parting => Parting'
  BY PartingStays
<1>2. pc \in Cleaning => Parting
  BY DEF LegacyInv, GoingInv, PartInv
<1>3. ~Gone(0).exists /\ ~Gone(0).del /\ ~Gone(0).fin
  BY GoneSays DEF Gone
<1>4. CASE Still
  BY <1>1, <1>4 DEF Still, PartInv, Parting, Going
<1>5. CASE Syncs \/ Ends
  BY <1>1, <1>3, <1>5 DEF Syncs, Ends, Ended, PartInv
<1>6. CASE Starts
  <2>1. cache.del => Parting'
    BY <1>6 DEF LegacyInv, GoingInv, Starts, Parting, Going, Unfit, Away
  <2>2. QED BY <1>1, <1>6, <2>1 DEF Starts, PartInv
<1>7. CASE Moves
  BY <1>1, <1>7 DEF Moves, PartInv
<1>8. ASSUME NEW cs, Writes(cs), Ended \/ pc \in Provisioning PROVE PartInv'
  BY <1>1, <1>3, <1>8 DEF Writes, Ended, PartInv, Provisioning
<1>9. CASE Creates
  <2>1. fsc.uid = 0
    BY <1>9, CreatedFirst DEF Creates
  <2>2. ~Parting /\ ~fsc.fin
    BY <1>9, <2>1 DEF Creates, PartInv, Parting, Going
  <2>3. QED BY <1>1, <1>9, <2>2 DEF Creates, PartInv
<1>10. CASE Turns
  <2>1. CASE Parting
    BY <1>1, <1>3, <1>10, <2>1, GoneSays DEF Turns, Ended, PartInv, Gone
  <2>2. CASE ~Parting
    <3>1. pc # "removeFinalizer" /\ ~mem.del
      BY <1>2, <2>2 DEF PartInv, Cleaning, Deleting
    <3>2. CASE fsc' = Gone(fsc.uid)
      <4>1. ~fsc.fin /\ ~cache.fin /\ ~mem.fin /\ fsc.uid # 0
        <5>1. fsc.exists /\ (fsc'.exists \/ ~fsc.fin)
          BY <1>10, <3>1 DEF Turns
        <5>2. ~fsc.fin
          BY <3>2, <5>1, GoneSays
        <5>3. QED BY <2>2, <5>1, <5>2 DEF PartInv, UidInv
      <4>2. ~fsc'.exists /\ fsc'.uid = fsc.uid /\ ~fsc'.fin
        BY <3>2, GoneSays DEF Gone
      <4>3. Parting'
        BY <1>3, <1>10, <4>1, <4>2 DEF Turns, Ended, Parting, Going, Unfit, Away
      <4>4. QED BY <1>3, <1>10, <4>2, <4>3 DEF Turns, Ended, PartInv
    <3>3. CASE fsc' # Gone(fsc.uid)
      BY <1>3, <1>10, <2>2, <3>1, <3>3 DEF Turns, Ended, PartInv
    <3>4. QED BY <3>2, <3>3
  <2>3. QED BY <2>1, <2>2
<1>11. QED
  BY <1>4, <1>5, <1>6, <1>7, <1>8, <1>9, <1>10
  DEF ClaimStep, MarkWrite, BlockWrite, StageWrite, ProvisionWrite

\* With one claim, an object without a living owner means that it is parting.
LEMMA OrphanParting ==
    ASSUME OneClaim, TypeOK, PartInv, NEW own \in 0..MaxClaims, own # 0 => fsc.uid # 0, Orphan(own)
    PROVE  Parting
<1>1. own # 0 /\ fsc.uid # 0 /\ fsc.uid \in 0..MaxClaims
  BY DEF Orphan, TypeOK, Claims
<1>2. own = fsc.uid
  BY <1>1, Bounds DEF OneClaim
<1>3. QED BY <1>1, <1>2 DEF Orphan, PartInv

\* As long as the claim is not parting, everything that is owned stays.
LEMMA ChildrenHeld ==
    ASSUME OneClaim, "tamper" \notin Upsets, TypeOK, LegacyInv, PartInv, HeldInv, ~Parting,
           [Next]_vars
    PROVE  /\ FSExists' /\ ~fs'.del /\ fs'.own = fs.own
           /\ \A w \in Wwns : DiskKept(w) => DiskKept(w)'
<1>1. /\ FSExists /\ ~fs.del
      /\ \A w \in Wwns : w \in Legacy \/ ld[w].own # 0 => DiskKept(w)
  BY DEF HeldInv
<1>2. pc \notin Cleaning
  BY DEF LegacyInv, GoingInv, PartInv
<1>3. ASSUME NEW own \in 0..MaxClaims, own # 0 => fsc.uid # 0 PROVE ~Orphan(own)
  BY <1>3, OrphanParting
<1>4. fs.own \in 0..MaxClaims /\ (fs.own # 0 => fsc.uid # 0)
  BY DEF TypeOK, Filesystems, LegacyInv, OwnerInv
<1>5. FSExists' /\ ~fs'.del /\ fs'.own = fs.own
  BY <1>1, <1>2, <1>3, <1>4, FsShape DEF FsStep, FSExists, Cleaning, Deleting
<1>6. \A w \in Wwns : ld[w].own \in 0..MaxClaims /\ (ld[w].own # 0 => fsc.uid # 0)
  BY DEF TypeOK, LocalDisks, LegacyInv, OwnerInv
<1>7. \A w \in Wwns : DiskKept(w) => DiskKept(w)'
  BY <1>2, <1>3, <1>6, LdShapeAll DEF LdStep, Cleaning, Deleting
<1>8. QED BY <1>5, <1>7

LEMMA BesideDisks ==
    ASSUME OneClaim, Healthy, "tamper" \notin Upsets, TypeOK, UidInv, TypeOK', LegacyInv,
           DisksInv, [Next]_vars, mig' = mig \/ mig' = Fresh
    PROVE  DisksInv'
<1>1. ClaimStep
  BY StepShape DEF LegacyInv
<1>2. PartInv'
  BY <1>1, NextPart DEF DisksInv
<1>3. CASE Parting
  BY <1>1, <1>2, <1>3, PartingStays DEF DisksInv, HeldInv, UsedInv, AdoptInv, StoreInv
<1>4. CASE ~Parting
  <2>1. /\ FSExists' /\ ~fs'.del /\ fs'.own = fs.own
        /\ \A w \in Wwns : DiskKept(w) => DiskKept(w)'
    BY <1>4, ChildrenHeld DEF DisksInv
  <2>2. /\ FSExists
        /\ \A w \in Wwns : w \in Legacy \/ ld[w].own # 0 => DiskKept(w)
    BY <1>4 DEF DisksInv, HeldInv
  <2>3. \A w \in Wwns : w \in Legacy \/ ld[w].own # 0 => DiskKept(w)' /\ ld'[w].own = ld[w].own
    BY <2>1, <2>2, LdShapeAll DEF LdStep
  <2>4. HeldInv'
    BY <2>1, <2>3, LdShapeAll DEF LdStep, HeldInv
  <2>5. UsedInv'
    <3>1. \A w \in Legacy : ld'[w].own = 0 => ld'[w].st = "used"
      BY <1>4, <2>2, <2>3, LdShapeAll, LegacyAssumption DEF LdStep, DisksInv, UsedInv
    <3>2. QED BY <3>1 DEF UsedInv
  <2>6. AdoptInv'
    <3>1. CASE mig' = mig
      BY <1>4, <2>3, <3>1, LegacyAssumption DEF DisksInv, AdoptInv
    <3>2. CASE mig' = Fresh
      BY <3>2 DEF Fresh, AdoptInv
    <3>3. QED BY <3>1, <3>2
  <2>7. StoreInv'
    <3>1. \A w \in OwnedLDs : w \in OwnedLDs'
      BY <2>3 DEF OwnedLDs, DiskKept
    <3>2. /\ fs.own = 0 => fs.disks \subseteq Legacy
          /\ fs.own # 0 => Legacy \cup fs.disks \subseteq OwnedLDs
      BY <1>4 DEF DisksInv, StoreInv
    <3>3. fs'.disks = fs.disks \/ (fs.own # 0 /\ fs'.disks = OwnedLDs)
      BY <2>1, <2>2, FsShape DEF FsStep, FSExists, NoFS
    <3>4. QED BY <2>1, <3>1, <3>2, <3>3 DEF StoreInv
  <2>8. QED BY <1>2, <2>4, <2>5, <2>6, <2>7 DEF DisksInv
<1>5. QED BY <1>3, <1>4

\* What the controller and users do to the Filesystem takes no disk out of it.
LEMMA BesideKeeps ==
    ASSUME TypeOK, LegacyInv, DisksInv, [Next]_vars, FSExists, FSExists'
    PROVE  fs.disks \subseteq fs'.disks
<1>1. \/ fs'.disks = fs.disks
      \/ pc = "ensureFileSystem" /\ fs.own # 0 /\ fs'.disks = OwnedLDs
  BY FsShape DEF FsStep, FSExists, NoFS
<1>2. pc = "ensureFileSystem" => ~Parting
  BY ProvisionsFor DEF LegacyInv, DisksInv, Provisioning
<1>3. QED BY <1>1, <1>2 DEF DisksInv, StoreInv

\* The migration finds every disk of version 1.0 that has no owner.
LEMMA DiscoverDisks ==
    ASSUME Skipped = {}, MigrationInv, DisksInv, discoverLegacyLocalDisks PROVE DisksInv'
<1>1. UNCHANGED <<fsc, cache, mem, pc, ld, fs>>
  BY DEF discoverLegacyLocalDisks, vars, claimVars, passVars, childVars, envVars
<1>2. Parting' = Parting
  BY <1>1 DEF Parting, Going
<1>3. PartInv' /\ HeldInv' /\ UsedInv' /\ StoreInv'
  BY <1>1, <1>2 DEF DisksInv, PartInv, HeldInv, UsedInv, StoreInv, FSExists, DiskKept, OwnedLDs
<1> DEFINE found == {w \in Wwns : isV1LocalDisk(w)}
<1>4. mig'.step \in {"done", "claim"} /\ mig'.disks = found
  BY DEF discoverLegacyLocalDisks, MigrationInv, MigOK, Migrations
<1>5. found \subseteq Legacy
  BY DEF isV1LocalDisk
<1>6. Parting \/ \A w \in Legacy : ld[w].own # 0 \/ w \in found
  BY LegacyAssumption DEF DisksInv, UsedInv, isV1LocalDisk
<1> HIDE DEF found
<1>7. AdoptInv'
  BY <1>1, <1>2, <1>4, <1>5, <1>6 DEF AdoptInv
<1>8. QED BY <1>3, <1>7 DEF DisksInv

\* A step of the migration that leaves the objects alone, whatever it writes to the claim.
LEMMA ClaimDisks ==
    ASSUME DisksInv, PartInv', Parting => Parting', UNCHANGED <<ld, fs>>, mig'.disks = mig.disks,
           \/ mig'.step \in {"done", "class"}
           \/ mig.step \in {"claim", "status"} /\ mig'.step \in {"status", "disks"}
    PROVE  DisksInv'
<1>1. HeldInv' /\ UsedInv' /\ StoreInv'
  BY DEF DisksInv, HeldInv, UsedInv, StoreInv, FSExists, DiskKept, OwnedLDs
<1>2. AdoptInv'
  BY DEF DisksInv, AdoptInv
<1>3. QED BY <1>1, <1>2 DEF DisksInv

LEMMA CreateDisks ==
    ASSUME OneClaim, MigrationInv, DisksInv, createOrGetFilesystemClaim PROVE DisksInv'
<1>1. UNCHANGED <<cache, mem, pc, ld, fs>>
  BY DEF createOrGetFilesystemClaim, passVars, childVars, envVars
<1>2. mig \in Migrations /\ fsc.uid \in 0..MaxClaims /\ mig.step = "claim"
  BY DEF MigrationInv, MigOK, TypeOK, Claims, createOrGetFilesystemClaim
<1>3. mig'.disks = mig.disks /\ mig'.step \in {"done", "status", "disks"}
  BY <1>2 DEF createOrGetFilesystemClaim, Migrations
<1>4. CASE fsc' = fsc
  <2>1. PartInv' /\ (Parting => Parting')
    BY <1>1, <1>4 DEF DisksInv, PartInv, Parting, Going
  <2>2. QED BY <1>1, <1>2, <1>3, <2>1, ClaimDisks
<1>5. CASE fsc' # fsc
  <2>1. PICK ds \in DeviceLists :
          /\ ~fsc.exists /\ fsc.uid < MaxClaims
          /\ fsc' = [Gone(fsc.uid + 1) EXCEPT !.exists = TRUE, !.devices = ds]
    BY <1>5 DEF createOrGetFilesystemClaim, claimVars
  <2>2. fsc'.exists
    BY <2>1 DEF Gone
  <2>3. fsc.uid = 0
    BY <1>2, <2>1, Bounds DEF OneClaim
  <2>4. ~Parting /\ ~fsc.fin
    BY <2>1, <2>3 DEF Parting, Going, DisksInv, PartInv
  <2>5. PartInv' /\ (Parting => Parting')
    BY <1>1, <2>2, <2>4 DEF DisksInv, PartInv
  <2>6. QED BY <1>1, <1>2, <1>3, <2>5, ClaimDisks
<1>6. QED BY <1>4, <1>5

LEMMA StatusDisks ==
    ASSUME MigrationInv, DisksInv, updateStatus \/ migrationError PROVE DisksInv'
<1>1. UNCHANGED <<cache, mem, pc, ld, fs>>
  BY DEF updateStatus, migrationError, passVars, childVars, envVars
<1>2. mig \in Migrations /\ fsc \in Claims
  BY DEF MigrationInv, MigOK, TypeOK
<1>3. /\ mig'.disks = mig.disks
      /\ mig'.step = "done" \/ (mig.step = "status" /\ mig'.step = "disks")
  BY <1>2 DEF updateStatus, migrationError, Migrations
<1>4. fsc' = fsc \/ fsc' = [fsc EXCEPT !.cond = Migrated]
  BY DEF updateStatus, migrationError, claimVars
<1>5. /\ fsc'.exists = fsc.exists /\ fsc'.uid = fsc.uid /\ fsc'.del = fsc.del
      /\ fsc'.fin = fsc.fin
  BY <1>2, <1>4 DEF Claims
<1>6. PartInv' /\ (Parting => Parting')
  BY <1>1, <1>5 DEF DisksInv, PartInv, Parting, Going, Away
<1>7. QED BY <1>1, <1>3, <1>6, ClaimDisks

LEMMA AdoptDisks ==
    ASSUME MigrationInv, DisksInv, adoptLocalDisk \/ adoptFilesystem \/ adoptStorageClass
    PROVE  DisksInv'
<1>1. /\ UNCHANGED <<fsc, cache, mem, pc>>
      /\ mig \in Migrations /\ ld \in [Wwns -> LocalDisks] /\ fs \in Filesystems
      /\ mig.uid # 0
  BY DEF adoptLocalDisk, adoptFilesystem, adoptStorageClass, claimVars, passVars, envVars,
         MigrationInv, MigOK, TypeOK, Adopting
<1>2. Parting' = Parting /\ PartInv'
  BY <1>1 DEF DisksInv, PartInv, Parting, Going
<1>3. CASE Parting
  BY <1>2, <1>3 DEF DisksInv, HeldInv, UsedInv, AdoptInv, StoreInv
<1>4. CASE adoptStorageClass
  <2>1. UNCHANGED <<ld, fs>> /\ mig'.disks = mig.disks /\ mig'.step = "done"
    BY <1>1, <1>4 DEF adoptStorageClass, Migrations
  <2>2. QED BY <1>2, <2>1, ClaimDisks
<1>5. CASE ~Parting /\ adoptFilesystem
  <2>1. ld' = ld /\ mig'.disks = mig.disks /\ mig'.step \in {"done", "class"}
    BY <1>1, <1>5 DEF adoptFilesystem, Migrations
  <2>2. \A w \in Legacy : w \in OwnedLDs
    BY <1>5, LegacyAssumption DEF adoptFilesystem, DisksInv, AdoptInv, HeldInv, DiskKept, OwnedLDs
  <2>3. /\ fs'.st = fs.st /\ fs'.del = fs.del /\ fs'.disks = fs.disks
        /\ fs'.own = fs.own \/ fs'.own # 0
    <3>1. fs' = fs \/ fs' = [fs EXCEPT !.own = mig.uid]
      BY <1>5 DEF adoptFilesystem
    <3>2. QED BY <1>1, <3>1 DEF Filesystems
  <2>4. HeldInv' /\ UsedInv' /\ AdoptInv'
    BY <1>5, <2>1, <2>3
    DEF DisksInv, HeldInv, UsedInv, AdoptInv, FSExists, DiskKept
  <2>5. StoreInv'
    <3>1. fs.disks \subseteq Legacy \/ fs.disks \subseteq OwnedLDs
      BY <1>5 DEF DisksInv, StoreInv
    <3>2. Legacy \cup fs.disks \subseteq OwnedLDs
      BY <2>2, <3>1
    <3>3. fs'.own = 0 => fs.disks \subseteq Legacy
      BY <1>5, <2>3 DEF DisksInv, StoreInv
    <3>4. QED BY <2>1, <2>3, <3>2, <3>3 DEF StoreInv, OwnedLDs
  <2>6. QED BY <1>2, <2>4, <2>5 DEF DisksInv
<1>6. CASE ~Parting /\ adoptLocalDisk
  <2>1. fs' = fs
    BY <1>6 DEF adoptLocalDisk
  <2>2. /\ mig.disks \subseteq Legacy
        /\ \A w \in Legacy : ld[w].own # 0 \/ w \in mig.disks
    BY <1>6 DEF adoptLocalDisk, DisksInv, AdoptInv
  <2>3. CASE ld' = ld /\ mig'.disks = mig.disks /\ (mig'.step = "done" \/ mig'.step = "filesystem")
             /\ (mig'.step = "filesystem" => mig.disks = {})
    <3>1. HeldInv' /\ UsedInv' /\ StoreInv'
      BY <1>2, <2>1, <2>3 DEF DisksInv, HeldInv, UsedInv, StoreInv, FSExists, DiskKept, OwnedLDs
    <3>2. AdoptInv'
      BY <2>2, <2>3 DEF AdoptInv
    <3>3. QED BY <1>2, <3>1, <3>2 DEF DisksInv
  <2>4. ASSUME NEW w \in mig.disks, ld' = [ld EXCEPT ![w].own = mig.uid],
               mig' = [mig EXCEPT !.disks = @ \ {w}]
        PROVE  DisksInv'
    <3>1. w \in Wwns /\ w \in Legacy
      BY <2>2, LegacyAssumption
    <3>2. \A v \in Wwns : ld'[v].st = ld[v].st /\ ld'[v].del = ld[v].del
      BY <1>1, <2>4, <3>1 DEF LocalDisks
    <3>3. ld'[w].own # 0 /\ \A v \in Wwns \ {w} : ld'[v].own = ld[v].own
      BY <1>1, <2>4, <3>1 DEF LocalDisks
    <3>4. mig'.step = "disks" /\ mig'.disks = mig.disks \ {w}
      BY <1>1, <1>6, <2>4 DEF adoptLocalDisk, Migrations
    <3>5. HeldInv'
      BY <1>6, <2>1, <3>1, <3>2, <3>3 DEF DisksInv, HeldInv, FSExists, DiskKept
    <3>6. UsedInv'
      BY <1>6, <3>2, <3>3, LegacyAssumption DEF DisksInv, UsedInv
    <3>7. AdoptInv'
      BY <2>2, <3>3, <3>4, LegacyAssumption DEF AdoptInv
    <3>8. StoreInv'
      <4>1. \A v \in OwnedLDs : v \in OwnedLDs'
        BY <3>2, <3>3 DEF OwnedLDs
      <4>2. QED BY <1>6, <2>1, <4>1 DEF DisksInv, StoreInv
    <3>9. QED BY <1>2, <3>5, <3>6, <3>7, <3>8 DEF DisksInv
  <2>5. CASE UNCHANGED ld
    <3>1. \/ mig' = [mig EXCEPT !.step = "done"]
          \/ mig' = [mig EXCEPT !.step = "filesystem"] /\ mig.disks = {}
          \/ \E w \in mig.disks : /\ ld' = [ld EXCEPT ![w].own = mig.uid]
                                  /\ mig' = [mig EXCEPT !.disks = @ \ {w}]
      BY <1>6 DEF adoptLocalDisk
    <3>2. CASE mig' = [mig EXCEPT !.step = "done"]
      <4>1. mig'.disks = mig.disks /\ mig'.step = "done"
        BY <1>1, <3>2 DEF Migrations
      <4>2. QED BY <2>3, <2>5, <4>1
    <3>3. CASE mig' = [mig EXCEPT !.step = "filesystem"] /\ mig.disks = {}
      <4>1. mig'.disks = mig.disks /\ mig'.step = "filesystem"
        BY <1>1, <3>3 DEF Migrations
      <4>2. QED BY <2>3, <2>5, <3>3, <4>1
    <3>4. QED BY <2>4, <3>1, <3>2, <3>3
  <2>6. QED BY <1>6, <2>4, <2>5 DEF adoptLocalDisk
<1>7. QED BY <1>3, <1>4, <1>5, <1>6

LEMMA DisksThere == ASSUME LegacyInit PROVE DisksInv
<1>1. /\ fsc = Gone(0) /\ cache = Gone(0) /\ mem = Gone(0) /\ pc = "idle" /\ mig = Fresh
      /\ fs = [NoFS EXCEPT !.st = "healthy", !.disks = Legacy]
      /\ ld = [w \in Wwns |-> IF w \in Legacy THEN [NoLD EXCEPT !.st = "used",
                                                               !.dev = LegacyDevice[w]]
                                              ELSE NoLD]
  BY DEF LegacyInit
<1>2. ~Gone(0).exists /\ ~Gone(0).fin /\ ~Gone(0).del /\ Gone(0).uid = 0
  BY DEF Gone
<1>3. PartInv
  BY <1>1, <1>2 DEF PartInv
<1>4. fs.own = 0 /\ fs.disks = Legacy /\ FSExists /\ ~fs.del
  BY <1>1 DEF NoFS, FSExists
<1>5. /\ \A w \in Wwns : ld[w].own = 0
      /\ \A w \in Legacy : ld[w].st = "used" /\ ~ld[w].del
  BY <1>1, LegacyAssumption DEF NoLD
<1>6. HeldInv /\ UsedInv /\ StoreInv
  BY <1>4, <1>5 DEF HeldInv, UsedInv, StoreInv, DiskKept
<1>7. AdoptInv
  BY <1>1 DEF AdoptInv, Fresh
<1>8. QED BY <1>3, <1>6, <1>7 DEF DisksInv

\* Whatever the migration does to the Filesystem, its disks stay what they are.
LEMMA MigrationKeeps ==
    ASSUME MigrationInv, RunMigration PROVE fs'.disks = fs.disks
<1>1. fs \in Filesystems
  BY DEF MigrationInv, TypeOK
<1>2. fs' = fs \/ fs' = [fs EXCEPT !.own = mig.uid]
  BY DEF RunMigration, discoverLegacyLocalDisks, createOrGetFilesystemClaim, updateStatus,
         adoptLocalDisk, adoptFilesystem, adoptStorageClass, migrationError, vars, childVars
<1>3. QED BY <1>1, <1>2 DEF Filesystems

\* No disk is ever taken out of the filesystem of version 1.0, or out of the one the
\* claim owns: wherever the migration is interrupted and however late the informer is,
\* ensureFileSystem sets the disks of a Filesystem only when the claim owns every disk
\* that is in it.  Every LocalDisk is a candidate (none has the label that skips it) and
\* goes on reporting its filesystem, and nobody deletes the objects themselves.  Each of
\* the three is needed.
THEOREM DisksAreKept ==
    ASSUME OneClaim, Healthy, "tamper" \notin Upsets, Skipped = {}
    PROVE  MigrationSpec => KeepsDisks
<1> DEFINE Inv == MigrationInv /\ LegacyInv /\ DisksInv
<1>1. LegacyInit => Inv
  BY LegacyStart, LegacyThere, DisksThere
<1>2. Inv /\ [MigrationNext]_allVars => Inv' /\ (FSExists /\ FSExists' => fs.disks \subseteq fs'.disks)
  <2>1. SUFFICES ASSUME Inv, [MigrationNext]_allVars
                 PROVE  Inv' /\ (FSExists /\ FSExists' => fs.disks \subseteq fs'.disks)
    OBVIOUS
  <2>2. MigrationInv' /\ TypeOK /\ UidInv /\ TypeOK'
    BY <2>1, MigrationStepType DEF MigrationInv
  <2>3. CASE RunMigration
    <3>1. LegacyInv'
      BY <2>1, <2>2, <2>3, MigrationKept
    <3>2. DisksInv'
      BY <2>1, <2>3, DiscoverDisks, CreateDisks, StatusDisks, AdoptDisks DEF RunMigration
    <3>3. QED BY <2>1, <2>2, <2>3, <3>1, <3>2, MigrationKeeps
  <2>4. CASE Beside \/ Restart \/ UNCHANGED allVars
    <3>1. [Next]_vars
      BY <2>4, BesideShape DEF BesideStep, Restart, Next, allVars
    <3>2. mig' = mig \/ mig' = Fresh
      BY <2>4, BesideShape DEF BesideStep, Restart, allVars, migVars
    <3>3. mig' = mig \/ mig'.uid = 0
      BY <3>2, FreshType
    <3>4. LegacyInv' /\ DisksInv'
      BY <2>1, <2>2, <3>1, <3>2, <3>3, BesideKept, BesideDisks
    <3>5. QED BY <2>1, <2>2, <3>1, <3>4, BesideKeeps
  <2>5. QED BY <2>1, <2>3, <2>4 DEF MigrationNext
<1>3. QED BY <1>1, <1>2, PTL DEF MigrationSpec, KeepsDisks
=============================================================================
