-------------------------- MODULE ClaimCleanupProofs --------------------------
(***************************************************************************)
(* Theorems about the cleanup of a claim whose name is not used again and  *)
(* that carries no finalizer but the operator's: what its status says of   *)
(* the cleanup is true, shown to the user and never taken back, although   *)
(* every status write starts from an informer cache that may lag behind    *)
(* the API server, and the handlers from a copy that lags further.         *)
(***************************************************************************)
EXTENDS ClaimTable, FileSystemClaimProofs

(* Every step seen from the three versions of the claim: the stored one,   *)
(* the cached one and the pass's copy.                                     *)

Requested(c) == c.cond["Ready"] = "DeletionRequested"
Away(c) == c.del \/ ~c.exists

Deleting == {"deleteStorageClass", "deleteFilesystem", "deleteLocalDisks", "removeFinalizer"}
Cleaning == Deleting \cup {"checkStorageClassUsage", "checkFilesystemDeletionLabel"}

Ended == pc' = "idle" /\ mem' = Gone(0)
Ends == Ended /\ fsc' = fsc /\ cache' \in {cache, fsc}

Still == UNCHANGED <<fsc, cache, mem, pc>>
Syncs == cache' = fsc /\ UNCHANGED <<fsc, mem, pc>>
Starts ==
    /\ pc = "idle" /\ cache.exists /\ mem' = cache /\ pc' = "handleFinalizers"
    /\ UNCHANGED <<fsc, cache>> /\ (PromptInformer => ~dirty)

\* A user has accepted the loss of the filesystem, where the status knows of one.
LossAccepted == OwnedFS => fs.label
Confirmed(c) == isConditionTrue(c, "FileSystemCreated") => LossAccepted

\* On the way to a step of the cleanup the steps before it were found done.
Moves ==
    /\ pc # "idle" /\ pc' # "idle" /\ UNCHANGED <<fsc, cache, mem>>
    /\ pc' # "handleFinalizers" /\ (pc = "handleFinalizers" => mem.fin)
    /\ pc' = "checkFilesystemDeletionLabel" =>
          pv' = pv /\ (isConditionTrue(mem, "StorageClassCreated") => ~isStorageClassInUse)
    /\ pc' \in Cleaning => pc \in Cleaning \/ (mem.del /\ Requested(mem))
    /\ pc' \in Deleting => pc \in Deleting \/ (Confirmed(mem) /\ fs' = fs)
    /\ pc' \in {"deleteFilesystem", "deleteLocalDisks", "removeFinalizer"} =>
          ~isConditionTrue(mem, "StorageClassCreated") \/
          pc \in {"deleteFilesystem", "deleteLocalDisks"}
    /\ pc' \in {"deleteLocalDisks", "removeFinalizer"} =>
          ~isConditionTrue(mem, "FileSystemCreated") \/ pc = "deleteLocalDisks"
    /\ pc' = "removeFinalizer" => ~isConditionTrue(mem, "LocalDiskCreated")

Stages == {"StorageClassCreated", "FileSystemCreated", "LocalDiskCreated"}

\* A status write: the stored claim gets the conditions cs.
Writes(cs) ==
    /\ pc # "idle" /\ cache.exists /\ fsc.exists
    /\ fsc'.cond = cs /\ fsc'.exists /\ fsc'.uid = fsc.uid /\ fsc'.del = fsc.del
    /\ fsc'.fin = fsc.fin /\ fsc'.devices = fsc.devices /\ cache' = cache
    /\ \/ Ended
       \/ /\ mem' = mem /\ pc' \in Provisioning
          /\ \A t \in Stages \ {"LocalDiskCreated"} : cs[t] = cache.cond[t]

MarkWrite ==
    /\ pc = "handleDeletion" /\ mem.del /\ ~Requested(mem) /\ Ended
    /\ Writes([cache.cond EXCEPT !["Ready"] = "DeletionRequested"])

BlockWrite ==
    /\ \/ /\ pc = "checkStorageClassUsage"
          /\ isConditionTrue(mem, "StorageClassCreated") /\ isStorageClassInUse
       \/ /\ pc = "checkFilesystemDeletionLabel"
          /\ isConditionTrue(mem, "FileSystemCreated") /\ OwnedFS /\ ~fs.label
    /\ Ended
    /\ \E r \in TrueReasons : Writes([cache.cond EXCEPT !["DeletionBlocked"] = r])

\* The step that records the end of a stage, and what it found.
StageDone(t) ==
    \/ t = "StorageClassCreated" /\ pc = "deleteStorageClass" /\ sc = "absent"
    \/ t = "FileSystemCreated" /\ pc = "deleteFilesystem" /\ ~OwnedFS
    \/ t = "LocalDiskCreated" /\ pc = "deleteLocalDisks" /\ OwnedLDs = {}

StageWrite(t) ==
    /\ StageDone(t) /\ isConditionTrue(mem, t) /\ Ended /\ UNCHANGED childVars
    /\ Writes([cache.cond EXCEPT ![t] = "Deleted"])

\* The condition t becomes r only for an object that is, or is not, there.
Recording == {"recordStorageClass", "recordDrift"}

\* What LocalDiskCreated becomes, and what the pass has found then.
DisksFit(r) ==
    \/ /\ r = "Failed" /\ pc = "createLocalDisk"
       /\ "create" \in FaultKinds \/ (todo # <<>> /\ getDeviceWWN(Head(todo)) \notin Wwns)
    \/ r = "Creating" /\ pc = "recordLocalDisk"
    \/ /\ pc = "syncLocalDiskConditions"
       /\ \/ r = "Waiting" /\ OwnedLDs = {}
          \/ r = "Succeeded" /\ OwnedLDs # {} /\ Failing = {}
          \/ r = "NotReady" /\ Failing # {}
          \/ r = "UsedElsewhere" /\ \E w \in Failing : ld[w].st = "foreign"

\* When Ready says that all is well, or that the list of devices was edited.
AllTrue(c) == \A t \in CondTypes \ {"DeletionBlocked", "Ready"} : isConditionTrue(c, t)
ReadyFits(r) ==
    /\ r = "Succeeded" => pc = "syncFSCReady" /\ AllTrue(mem)
    /\ r = "ImmutableFieldModified" =>
          /\ pc = "ensureLocalDisks" /\ isConditionTrue(mem, "LocalDiskCreated")
          /\ ~SameDevices(mem)

Fits(t, r) ==
    /\ t = "LocalDiskCreated" => DisksFit(r)
    /\ t = "Ready" => ReadyFits(r)
    /\ t = "DeviceValidated" /\ r \in TrueReasons =>
          pc = "ensureLocalDisks" /\ validateDevices(mem)
    /\ t = "FileSystemCreated" /\ r \in TrueReasons => FSExists
    /\ t = "StorageClassCreated" =>
          \/ r \in TrueReasons /\ (sc = "ours" \/ pc \in Recording)
          \/ /\ r \notin TrueReasons /\ pc = "ensureStorageClass"
             /\ sc = "absent" /\ sc' = "absent"

ProvisionWrite ==
    /\ pc \in Provisioning
    /\ \E cs \in [CondTypes -> Reasons] :
          /\ Writes(cs) /\ cs["DeletionBlocked"] = cache.cond["DeletionBlocked"]
          /\ \A t \in CondTypes : cs[t] = cache.cond[t] \/ Fits(t, cs[t])
          /\ \A t \in CondTypes :
                cs[t] = cache.cond[t] \/ cs[t] \notin {"Deleted", "DeletionRequested"}

\* The claim is created; it is edited, deleted or gone.
Creates ==
    /\ ~fsc.exists
    /\ fsc'.exists /\ fsc'.uid = fsc.uid + 1 /\ ~fsc'.del /\ ~fsc'.fin /\ fsc'.cond = NoConditions
    /\ UNCHANGED <<cache, mem, pc>>

Turns ==
    /\ fsc.exists /\ cache' = cache /\ (Ended \/ UNCHANGED <<mem, pc>>)
    /\ \/ /\ fsc' = Gone(fsc.uid)
          /\ (~fsc.del /\ ~fsc.fin) \/ (pc = "removeFinalizer" /\ Ended)
       \/ /\ fsc'.exists /\ fsc'.uid = fsc.uid /\ fsc'.cond = fsc.cond
          /\ \/ fsc'.devices = fsc.devices
             \/ "edit" \in Upsets /\ ~isConditionTrue(fsc, "LocalDiskCreated")
          /\ fsc.del => fsc'.del
          /\ fsc'.del = fsc.del \/ (fsc'.fin = fsc.fin /\ UNCHANGED <<mem, pc>>)
          /\ fsc.fin => fsc'.fin \/ (pc = "removeFinalizer" /\ ~fsc.del /\ Ended)

ClaimStep ==
    \/ Still \/ Syncs \/ Starts \/ Moves \/ Ends
    \/ MarkWrite \/ BlockWrite \/ (\E t \in Stages : StageWrite(t)) \/ ProvisionWrite
    \/ Creates \/ Turns

\* The conditions one write replaces.
LEMMA OneChanged ==
    ASSUME EnvOK, NEW t \in CondTypes, NEW r
    PROVE  LET cs == [cache.cond EXCEPT ![t] = r]
           IN  cs[t] = r /\ \A s \in CondTypes : s # t => cs[s] = cache.cond[s]
  BY DEF EnvOK, Claims

LEMMA CondNames == "Ready" \in CondTypes /\ "DeletionBlocked" \in CondTypes /\ Stages \subseteq CondTypes
  BY DEF CondTypes, Stages

\* How a status write ends a pass, with or without an effect.
LEMMA PatchShape ==
    ASSUME ClaimOK, pc # "idle", cache' = cache, NEW cs, NEW b, patchFSCStatus(cs, b)
    PROVE  Ends \/ (Writes(cs) /\ Ended)
<1>1. CASE StatusPatch(cs) /\ EndPass(FALSE, b)
  BY <1>1 DEF StatusPatch, EndPass, claimVars, Ends, Ended, Writes, ClaimOK, Claims
<1>2. CASE Requeue
  BY <1>2 DEF Requeue, EndPass, claimVars, Ends, Ended
<1>3. QED BY <1>1, <1>2 DEF patchFSCStatus

LEMMA ReturnShape == ASSUME Return \/ Requeue, cache' = cache PROVE Ends
  BY DEF Return, Requeue, EndPass, claimVars, Ends, Ended

LEMMA UpdateGotoShape ==
    ASSUME ClaimOK, pc # "idle", cache' = cache, NEW t, NEW r, NEW l,
           updateConditionIfChanged(t, r, Goto(l))
    PROVE  \/ Unchanged(t, r) /\ Goto(l)
           \/ Ends
           \/ ~Unchanged(t, r) /\ Writes([cache.cond EXCEPT ![t] = r]) /\ Ended
  BY PatchShape DEF updateConditionIfChanged

LEMMA UpdateReturnShape ==
    ASSUME ClaimOK, pc # "idle", cache' = cache, NEW t, NEW r,
           updateConditionIfChanged(t, r, Return)
    PROVE  Ends \/ (~Unchanged(t, r) /\ Writes([cache.cond EXCEPT ![t] = r]) /\ Ended)
  BY PatchShape, ReturnShape DEF updateConditionIfChanged

LEMMA ReadyOnce ==
    ASSUME Unchanged("Ready", "DeletionRequested") PROVE Requested(mem)
  BY DEF Unchanged, Requested, TrueReasons

LEMMA BlockShape ==
    ASSUME ClaimOK, pc # "idle", cache' = cache, NEW r, BlockDeletion(r)
    PROVE  Ends \/ (Writes([cache.cond EXCEPT !["DeletionBlocked"] = r]) /\ Ended)
<1>1. CASE EndPass(FALSE, TRUE) /\ UNCHANGED claimVars
  BY <1>1 DEF EndPass, claimVars, Ends, Ended
<1>2. CASE patchFSCStatus([cache.cond EXCEPT !["DeletionBlocked"] = r], TRUE)
  BY <1>2, PatchShape
<1>3. QED BY <1>1, <1>2 DEF BlockDeletion

\* The first half of a pass.
LEMMA CleaningShape ==
    ASSUME TypeOK, handleDeletion \/ checkStorageClassUsage \/ checkFilesystemDeletionLabel
    PROVE  ClaimStep
<1>1. ClaimOK /\ pc # "idle" /\ cache' = cache
  BY TypeParts DEF handleDeletion, checkStorageClassUsage, checkFilesystemDeletionLabel, envVars
<1>2. CASE handleDeletion
  <2>1. CASE Goto("ensureLocalDisks")
    BY <1>1, <1>2, <2>1 DEF handleDeletion, Goto, claimVars, ClaimStep, Moves, Cleaning, Deleting
  <2>2. CASE mem.del /\ markDeletionRequested("checkStorageClassUsage")
    <3>1. CASE Unchanged("Ready", "DeletionRequested") /\ Goto("checkStorageClassUsage")
      BY <1>1, <1>2, <2>2, <3>1, ReadyOnce
      DEF handleDeletion, Goto, claimVars, ClaimStep, Moves, Cleaning, Deleting
    <3>2. CASE /\ ~Unchanged("Ready", "DeletionRequested") /\ Ended
               /\ Writes([cache.cond EXCEPT !["Ready"] = "DeletionRequested"])
      BY <1>2, <2>2, <3>2
      DEF handleDeletion, ClaimStep, MarkWrite, Unchanged, Requested
    <3>3. QED BY <1>1, <2>2, <3>1, <3>2, UpdateGotoShape
              DEF markDeletionRequested, ClaimStep
  <2>3. QED BY <1>2, <2>1, <2>2 DEF handleDeletion
<1>3. CASE checkStorageClassUsage
  <2>1. CASE /\ Goto("checkFilesystemDeletionLabel")
             /\ ~(isConditionTrue(mem, "StorageClassCreated") /\ isStorageClassInUse)
    BY <1>1, <1>3, <2>1
    DEF checkStorageClassUsage, Goto, claimVars, envVars, ClaimStep, Moves, Cleaning, Deleting
  <2>2. CASE /\ isConditionTrue(mem, "StorageClassCreated") /\ isStorageClassInUse
             /\ BlockDeletion("StorageClassInUse")
    <3>1. "StorageClassInUse" \in TrueReasons
      BY DEF TrueReasons
    <3>2. Ends \/ (Writes([cache.cond EXCEPT !["DeletionBlocked"] = "StorageClassInUse"]) /\ Ended)
      BY <1>1, <2>2, BlockShape
    <3>3. QED BY <1>3, <2>2, <3>1, <3>2 DEF checkStorageClassUsage, ClaimStep, BlockWrite
  <2>3. QED BY <1>3, <2>1, <2>2 DEF checkStorageClassUsage
<1>4. CASE checkFilesystemDeletionLabel
  <2>1. CASE /\ Goto("deleteStorageClass")
             /\ ~(isConditionTrue(mem, "FileSystemCreated") /\ OwnedFS /\ ~fs.label)
    BY <1>1, <1>4, <2>1
    DEF checkFilesystemDeletionLabel, Goto, claimVars, childVars, ClaimStep, Moves, Cleaning,
        Deleting, Confirmed, LossAccepted
  <2>2. CASE /\ isConditionTrue(mem, "FileSystemCreated") /\ OwnedFS /\ ~fs.label
             /\ BlockDeletion("FileSystemLabelNotPresent")
    <3>1. "FileSystemLabelNotPresent" \in TrueReasons
      BY DEF TrueReasons
    <3>2. \/ Ends
          \/ /\ Writes([cache.cond EXCEPT !["DeletionBlocked"] = "FileSystemLabelNotPresent"])
             /\ Ended
      BY <1>1, <2>2, BlockShape
    <3>3. QED BY <1>4, <2>2, <3>1, <3>2 DEF checkFilesystemDeletionLabel, ClaimStep, BlockWrite
  <2>3. QED BY <1>4, <2>1, <2>2 DEF checkFilesystemDeletionLabel
<1>5. QED BY <1>2, <1>3, <1>4

\* A condition that is true is not the deletion about to be recorded.
LEMMA StageNew ==
    ASSUME NEW t, isConditionTrue(mem, t) PROVE ~Unchanged(t, "Deleted")
  BY DEF isConditionTrue, Unchanged, TrueReasons

LEMMA DeletingShape ==
    ASSUME TypeOK, deleteStorageClass \/ deleteFilesystem \/ deleteLocalDisks PROVE ClaimStep
<1>1. ClaimOK /\ pc # "idle" /\ cache' = cache
  BY TypeParts DEF deleteStorageClass, deleteFilesystem, deleteLocalDisks, envVars
<1>2. CASE deleteStorageClass
  <2>1. CASE ~isConditionTrue(mem, "StorageClassCreated") /\ Goto("deleteFilesystem")
    BY <1>1, <1>2, <2>1
    DEF deleteStorageClass, Goto, claimVars, ClaimStep, Moves, Cleaning, Deleting
  <2>2. CASE EndPass(enqueueFSCByStorageClass(sc), FALSE) /\ UNCHANGED claimVars
    BY <1>1, <2>2 DEF EndPass, claimVars, ClaimStep, Ends, Ended
  <2>3. CASE /\ isConditionTrue(mem, "StorageClassCreated") /\ sc = "absent" /\ UNCHANGED sc
             /\ updateConditionIfChanged("StorageClassCreated", "Deleted", Goto("deleteFilesystem"))
    <3>1. \/ Ends
          \/ Writes([cache.cond EXCEPT !["StorageClassCreated"] = "Deleted"]) /\ Ended
      BY <1>1, <2>3, UpdateGotoShape, StageNew
    <3>2. UNCHANGED childVars
      BY <1>2, <2>3 DEF deleteStorageClass, childVars
    <3>3. QED BY <1>2, <2>3, <3>1, <3>2
              DEF deleteStorageClass, ClaimStep, StageWrite, StageDone, Stages
  <2>4. QED BY <1>2, <2>1, <2>2, <2>3 DEF deleteStorageClass
<1>3. CASE deleteFilesystem
  <2>1. CASE ~isConditionTrue(mem, "FileSystemCreated") /\ Goto("deleteLocalDisks")
    BY <1>1, <1>3, <2>1
    DEF deleteFilesystem, Goto, claimVars, ClaimStep, Moves, Cleaning, Deleting
  <2>2. CASE EndPass(FALSE, TRUE) /\ UNCHANGED claimVars
    BY <1>1, <2>2 DEF EndPass, claimVars, ClaimStep, Ends, Ended
  <2>3. CASE /\ isConditionTrue(mem, "FileSystemCreated") /\ ~OwnedFS /\ UNCHANGED fs
             /\ updateConditionIfChanged("FileSystemCreated", "Deleted", Goto("deleteLocalDisks"))
    <3>1. \/ Ends
          \/ Writes([cache.cond EXCEPT !["FileSystemCreated"] = "Deleted"]) /\ Ended
      BY <1>1, <2>3, UpdateGotoShape, StageNew
    <3>2. UNCHANGED childVars
      BY <1>3, <2>3 DEF deleteFilesystem, childVars
    <3>3. QED BY <1>3, <2>3, <3>1, <3>2
              DEF deleteFilesystem, ClaimStep, StageWrite, StageDone, Stages
  <2>4. QED BY <1>3, <2>1, <2>2, <2>3 DEF deleteFilesystem
<1>4. CASE deleteLocalDisks
  <2>1. CASE ~isConditionTrue(mem, "LocalDiskCreated") /\ Goto("removeFinalizer")
    BY <1>1, <1>4, <2>1
    DEF deleteLocalDisks, Goto, claimVars, ClaimStep, Moves, Cleaning, Deleting
  <2>2. CASE (EndPass(FALSE, TRUE) \/ EndPass(TRUE, FALSE)) /\ UNCHANGED claimVars
    BY <1>1, <2>2 DEF EndPass, claimVars, ClaimStep, Ends, Ended
  <2>3. CASE /\ isConditionTrue(mem, "LocalDiskCreated") /\ OwnedLDs = {} /\ UNCHANGED ld
             /\ updateConditionIfChanged("LocalDiskCreated", "Deleted", Goto("removeFinalizer"))
    <3>1. \/ Ends
          \/ Writes([cache.cond EXCEPT !["LocalDiskCreated"] = "Deleted"]) /\ Ended
      BY <1>1, <2>3, UpdateGotoShape, StageNew
    <3>2. UNCHANGED childVars
      BY <1>4, <2>3 DEF deleteLocalDisks, childVars
    <3>3. QED BY <1>4, <2>3, <3>1, <3>2
              DEF deleteLocalDisks, ClaimStep, StageWrite, StageDone, Stages
  <2>4. QED BY <1>4, <2>1, <2>2, <2>3 DEF deleteLocalDisks
<1>5. QED BY <1>2, <1>3, <1>4

LEMMA FinalizerShape ==
    ASSUME TypeOK, DeletionInv, handleFinalizers \/ removeFinalizer PROVE ClaimStep
<1>1. ClaimOK /\ pc # "idle" /\ cache' = cache
  BY TypeParts DEF handleFinalizers, removeFinalizer, envVars
<1>2. ASSUME NEW f \in BOOLEAN, patchFSCSpec(f), f \/ pc = "removeFinalizer" PROVE ClaimStep
  <2>1. CASE Return \/ Requeue
    BY <1>1, <2>1, ReturnShape DEF ClaimStep
  <2>2. CASE ~(Return \/ Requeue)
    <3>1. fsc.exists /\ Ended
      BY <1>2, <2>2 DEF patchFSCSpec, NotFound, EndPass, Ended
    <3>2. \/ /\ fsc' = [fsc EXCEPT !.fin = f, !.hold = cache.hold]
             /\ f \/ (pc = "removeFinalizer" /\ ~fsc.del)
          \/ fsc' = Gone(fsc.uid) /\ pc = "removeFinalizer"
      BY <1>2, <2>2 DEF patchFSCSpec, DeletionInv, Finalized
    <3>3. LET c == [fsc EXCEPT !.fin = f, !.hold = cache.hold]
          IN  /\ c.exists = fsc.exists /\ c.uid = fsc.uid /\ c.cond = fsc.cond
              /\ c.del = fsc.del /\ c.fin = f /\ c.devices = fsc.devices
      BY <1>1 DEF ClaimOK, Claims
    <3>4. QED BY <1>1, <3>1, <3>2, <3>3 DEF ClaimStep, Turns
  <2>3. QED BY <2>1, <2>2
<1>3. CASE (mem.del \/ mem.fin) /\ Goto("handleDeletion")
  <2>1. mem.fin
    BY <1>3 DEF DeletionInv, PassInv, Finalized
  <2>2. QED BY <1>1, <1>3, <2>1 DEF Goto, claimVars, ClaimStep, Moves, Cleaning, Deleting
<1>4. QED BY <1>2, <1>3 DEF handleFinalizers, removeFinalizer

\* The second half of a pass.
LEMMA ProvisionMoves ==
    ASSUME pc \in Provisioning, pc' \in Provisioning, UNCHANGED <<fsc, cache, mem>>
    PROVE  ClaimStep
  BY DEF Provisioning, ClaimStep, Moves, Cleaning, Deleting

LEMMA ProvisionGoto ==
    ASSUME pc \in Provisioning, NEW l \in Provisioning, Goto(l), cache' = cache PROVE ClaimStep
  BY ProvisionMoves DEF Goto, claimVars

\* Reasons for which provisioning writes a condition.
Ordinary == Reasons \ {"Deleted", "DeletionRequested"}

LEMMA ProvisionWrites ==
    ASSUME EnvOK, pc \in Provisioning, NEW t \in CondTypes \ {"DeletionBlocked"}, NEW r \in Ordinary,
           Writes([cache.cond EXCEPT ![t] = r]), Fits(t, r)
    PROVE  ClaimStep
<1>1. cache.cond \in [CondTypes -> Reasons] /\ "DeletionBlocked" \in CondTypes
  BY DEF EnvOK, Claims, CondTypes
<1>2. [cache.cond EXCEPT ![t] = r] \in [CondTypes -> Reasons]
  BY <1>1 DEF Ordinary
<1>3. \A s \in CondTypes :
        [cache.cond EXCEPT ![t] = r][s] = cache.cond[s] \/
        [cache.cond EXCEPT ![t] = r][s] \notin {"Deleted", "DeletionRequested"}
  BY <1>1 DEF Ordinary
<1>4. [cache.cond EXCEPT ![t] = r]["DeletionBlocked"] = cache.cond["DeletionBlocked"]
  BY <1>1
<1>5. \A s \in CondTypes : [cache.cond EXCEPT ![t] = r][s] = cache.cond[s]
                       \/ Fits(s, [cache.cond EXCEPT ![t] = r][s])
  BY <1>1, OneChanged, CondNames
<1>6. QED BY <1>2, <1>3, <1>4, <1>5 DEF ClaimStep, ProvisionWrite

LEMMA ProvisionFails ==
    ASSUME ClaimOK, EnvOK, pc \in Provisioning, pc # "idle", cache' = cache,
           NEW t \in CondTypes \ {"DeletionBlocked"}, NEW s \in CondTypes \ {"DeletionBlocked"},
           NEW q \in Ordinary, NEW r \in Ordinary, s # t, Fits(t, q), Fits(s, r),
           patchFSCStatus([cache.cond EXCEPT ![t] = q, ![s] = r], FALSE)
    PROVE  ClaimStep
<1>1. cache.cond \in [CondTypes -> Reasons] /\ "DeletionBlocked" \in CondTypes
  BY DEF EnvOK, Claims, CondTypes
<1> DEFINE cs == [cache.cond EXCEPT ![t] = q, ![s] = r]
<1>2. cs \in [CondTypes -> Reasons]
  BY <1>1 DEF Ordinary
<1>3. \A u \in CondTypes : cs[u] = cache.cond[u] \/ cs[u] \notin {"Deleted", "DeletionRequested"}
  BY <1>1 DEF Ordinary
<1>4. cs["DeletionBlocked"] = cache.cond["DeletionBlocked"]
  BY <1>1
<1>5. Ends \/ Writes(cs)
  BY PatchShape
<1>6. \A u \in CondTypes : cs[u] = cache.cond[u] \/ Fits(u, cs[u])
  <2>1. \A u \in CondTypes : \/ cs[u] = cache.cond[u]
                           \/ (u = t /\ cs[u] = q) \/ (u = s /\ cs[u] = r)
    BY <1>1
  <2>2. QED BY <2>1
<1>7. QED BY <1>2, <1>3, <1>4, <1>5, <1>6 DEF ClaimStep, ProvisionWrite

LEMMA ProvisionPatch ==
    ASSUME ClaimOK, EnvOK, pc \in Provisioning, pc # "idle", cache' = cache,
           NEW t \in CondTypes \ {"DeletionBlocked"}, NEW r \in Ordinary, Fits(t, r),
           patchFSCStatus([cache.cond EXCEPT ![t] = r], FALSE)
    PROVE  ClaimStep
  BY PatchShape, ProvisionWrites DEF ClaimStep

LEMMA ProvisionUpdate ==
    ASSUME ClaimOK, EnvOK, pc \in Provisioning, pc # "idle", cache' = cache,
           NEW t \in CondTypes \ {"DeletionBlocked"}, NEW r \in Ordinary, NEW l \in Provisioning,
           updateConditionIfChanged(t, r, Goto(l)) \/ updateConditionIfChanged(t, r, Return),
           Fits(t, r)
    PROVE  ClaimStep
<1>1. CASE updateConditionIfChanged(t, r, Goto(l))
  <2>1. CASE Goto(l)
    BY <2>1, ProvisionGoto
  <2>2. CASE Ends \/ Writes([cache.cond EXCEPT ![t] = r])
    BY <2>2, ProvisionWrites DEF ClaimStep
  <2>3. QED BY <1>1, <2>1, <2>2, UpdateGotoShape
<1>2. CASE updateConditionIfChanged(t, r, Return)
  BY <1>2, UpdateReturnShape, ProvisionWrites DEF ClaimStep
<1>3. QED BY <1>1, <1>2

LEMMA ProvisioningShape ==
    ASSUME TypeOK,
           \/ ensureLocalDisks \/ createLocalDisk \/ recordLocalDisk \/ endLocalDisks
           \/ syncLocalDiskConditions \/ ensureFileSystem \/ recordFileSystem
           \/ syncFilesystemConditions \/ ensureStorageClass \/ recordStorageClass
           \/ syncFSCReady
    PROVE  ClaimStep
<1>1. ClaimOK /\ EnvOK
  BY TypeParts
<1>2. pc \in Provisioning /\ pc # "idle" /\ cache' = cache
  BY DEF ensureLocalDisks, createLocalDisk, recordLocalDisk, endLocalDisks,
         syncLocalDiskConditions, ensureFileSystem, recordFileSystem,
         syncFilesystemConditions, ensureStorageClass, recordStorageClass, syncFSCReady,
         Provisioning, envVars
<1>3. Stages \cup {"Ready", "DeviceValidated"} \subseteq CondTypes \ {"DeletionBlocked"}
  BY DEF Stages, CondTypes
<1>4. {"ImmutableFieldModified", "Succeeded", "ValidationFailed", "Failed", "Creating", "Waiting",
       "UsedElsewhere", "NotReady", "Present", "Created", "Provisioning"} \subseteq Ordinary
  BY DEF Ordinary, Reasons, TrueReasons, InProgress
<1>5. {"syncLocalDiskConditions", "createLocalDisk", "recordLocalDisk", "ensureFileSystem",
       "recordFileSystem", "syncFilesystemConditions", "ensureStorageClass",
       "recordStorageClass", "recordDrift", "syncFSCReady"} \subseteq Provisioning
  BY DEF Provisioning
<1>6. Return \/ Requeue => ClaimStep
  BY <1>2, ReturnShape DEF ClaimStep
<1>7. ASSUME NEW l, Goto(l), l \in Provisioning PROVE ClaimStep
  BY <1>2, <1>7, ProvisionGoto
<1>8. ASSUME NEW t \in Stages, handleResourceCreationError(t), Fits(t, "Failed") PROVE ClaimStep
  <2>1. "Ready" # t /\ Fits("Ready", "Failed")
    BY DEF Stages, Fits, ReadyFits
  <2>2. QED BY <1>1, <1>2, <1>3, <1>4, <1>8, <2>1, ProvisionFails DEF handleResourceCreationError
<1>9. CASE ensureLocalDisks
  <2>1. CASE handleValidationError
    <3>1. Fits("DeviceValidated", "Failed") /\ Fits("Ready", "ValidationFailed")
      BY DEF Fits, ReadyFits, TrueReasons
    <3>2. QED BY <1>1, <1>2, <1>3, <1>4, <2>1, <3>1, ProvisionFails DEF handleValidationError
  <2>2. CASE \/ /\ isConditionTrue(mem, "LocalDiskCreated") /\ ~SameDevices(mem)
                /\ patchFSCStatus([cache.cond EXCEPT !["Ready"] = "ImmutableFieldModified"], FALSE)
             \/ /\ validateDevices(mem)
                /\ patchFSCStatus([cache.cond EXCEPT !["DeviceValidated"] = "Succeeded"], FALSE)
    <3>1. CASE isConditionTrue(mem, "LocalDiskCreated") /\ ~SameDevices(mem)
               /\ patchFSCStatus([cache.cond EXCEPT !["Ready"] = "ImmutableFieldModified"], FALSE)
      <4>1. Fits("Ready", "ImmutableFieldModified")
        BY <1>9, <3>1 DEF ensureLocalDisks, Fits, ReadyFits
      <4>2. QED BY <1>1, <1>2, <1>3, <1>4, <3>1, <4>1, ProvisionPatch
    <3>2. CASE validateDevices(mem)
               /\ patchFSCStatus([cache.cond EXCEPT !["DeviceValidated"] = "Succeeded"], FALSE)
      <4>1. Fits("DeviceValidated", "Succeeded")
        BY <1>9, <3>2 DEF ensureLocalDisks, Fits
      <4>2. QED BY <1>1, <1>2, <1>3, <1>4, <3>2, <4>1, ProvisionPatch
    <3>3. QED BY <2>2, <3>1, <3>2
  <2>3. CASE pc' = "createLocalDisk" /\ UNCHANGED <<claimVars, queued, timer, mem>>
    BY <1>2, <1>5, <2>3, ProvisionMoves DEF claimVars
  <2>4. QED BY <1>5, <1>7, <1>9, <2>1, <2>2, <2>3 DEF ensureLocalDisks
<1>10. CASE createLocalDisk
  <2>1. "LocalDiskCreated" \in Stages
    BY DEF Stages
  <2>2. CASE pc' = "syncLocalDiskConditions" /\ UNCHANGED <<claimVars, queued, timer, mem>>
    BY <1>2, <1>5, <2>2, ProvisionMoves DEF claimVars
  <2>3. CASE handleResourceCreationError("LocalDiskCreated")
             /\ (CanFail("create") \/ getDeviceWWN(Head(todo)) \notin Wwns)
    <3>1. Fits("LocalDiskCreated", "Failed")
      BY <1>10, <2>3 DEF createLocalDisk, CanFail, Fits, DisksFit
    <3>2. QED BY <1>8, <2>1, <2>3, <3>1
  <2>4. QED BY <1>5, <1>7, <1>10, <2>2, <2>3 DEF createLocalDisk
<1>11. CASE recordLocalDisk
  <2>1. CASE Requeue
    BY <1>6, <2>1
  <2>2. CASE UNCHANGED <<claimVars, mem>> /\ pc' = "createLocalDisk"
    BY <1>2, <1>5, <2>2, ProvisionMoves DEF claimVars
  <2>3. CASE /\ cache.exists /\ fsc.exists /\ mem' = mem /\ pc' = "createLocalDisk"
             /\ fsc' = [fsc EXCEPT !.cond = [cache.cond EXCEPT !["LocalDiskCreated"] = "Creating"]]
    <3>1. Writes([cache.cond EXCEPT !["LocalDiskCreated"] = "Creating"])
      <4>1. \A t \in Stages \ {"LocalDiskCreated"} :
              [cache.cond EXCEPT !["LocalDiskCreated"] = "Creating"][t] = cache.cond[t]
        BY <1>1, OneChanged, CondNames DEF Stages
      <4>2. QED BY <1>1, <1>2, <1>5, <2>3, <4>1 DEF Writes, ClaimOK, Claims
    <3>2. /\ "LocalDiskCreated" \in CondTypes \ {"DeletionBlocked"} /\ "Creating" \in Ordinary
          /\ Fits("LocalDiskCreated", "Creating")
      BY <1>3, <1>4, <1>11 DEF recordLocalDisk, Stages, Fits, DisksFit
    <3>3. QED BY <1>1, <1>2, <3>1, <3>2, ProvisionWrites
  <2>4. QED BY <1>11, <2>1, <2>2, <2>3 DEF recordLocalDisk, StatusPatch
<1>12. CASE endLocalDisks
  BY <1>5, <1>6, <1>7, <1>12 DEF endLocalDisks
<1>13. ASSUME NEW t \in Stages \cup {"Ready"}, NEW r \in Ordinary, NEW l \in Provisioning,
              updateConditionIfChanged(t, r, Goto(l)) \/ updateConditionIfChanged(t, r, Return),
              Fits(t, r)
       PROVE  ClaimStep
  BY <1>1, <1>2, <1>3, <1>13, ProvisionUpdate
<1>14. CASE syncLocalDiskConditions
  <2>1. CASE Goto("ensureFileSystem")
    BY <1>5, <1>7, <2>1
  <2>2. CASE \E r \in {"Waiting", "Succeeded", "UsedElsewhere", "NotReady"} :
               /\ updateConditionIfChanged("LocalDiskCreated", r, Goto("ensureFileSystem"))
               /\ DisksFit(r)
    <3>1. PICK r \in {"Waiting", "Succeeded", "UsedElsewhere", "NotReady"} :
            /\ updateConditionIfChanged("LocalDiskCreated", r, Goto("ensureFileSystem"))
            /\ DisksFit(r)
      BY <2>2
    <3>2. Fits("LocalDiskCreated", r) /\ "LocalDiskCreated" \in Stages
      BY <3>1 DEF Fits, Stages
    <3>3. QED BY <1>4, <1>5, <1>13, <3>1, <3>2
  <2>3. pc = "syncLocalDiskConditions"
    BY <1>14 DEF syncLocalDiskConditions
  <2>4. QED BY <1>14, <2>1, <2>2, <2>3 DEF syncLocalDiskConditions, DisksFit
<1>15. CASE ensureFileSystem
  <2>1. "FileSystemCreated" \in Stages /\ Fits("FileSystemCreated", "Failed")
    BY DEF Stages, Fits, TrueReasons
  <2>2. QED BY <1>5, <1>6, <1>7, <1>8, <1>15, <2>1 DEF ensureFileSystem
<1>16. CASE recordFileSystem
  <2>1. "FileSystemCreated" \in Stages /\ Fits("FileSystemCreated", "Creating")
    BY DEF Stages, Fits, TrueReasons
  <2>2. QED BY <1>4, <1>5, <1>13, <1>16, <2>1 DEF recordFileSystem
<1>17. CASE syncFilesystemConditions
  <2>1. CASE Goto("ensureStorageClass")
    BY <1>5, <1>7, <2>1
  <2>2. CASE \E r \in {"Waiting", "Succeeded", "NotReady"} :
               /\ updateConditionIfChanged("FileSystemCreated", r, Goto("ensureStorageClass"))
               /\ r = "Succeeded" => OwnedFS
    <3>1. PICK r \in {"Waiting", "Succeeded", "NotReady"} :
            /\ updateConditionIfChanged("FileSystemCreated", r, Goto("ensureStorageClass"))
            /\ r = "Succeeded" => OwnedFS
      BY <2>2
    <3>2. Fits("FileSystemCreated", r) /\ "FileSystemCreated" \in Stages
      BY <3>1 DEF Fits, TrueReasons, OwnedFS, Stages
    <3>3. QED BY <1>4, <1>5, <1>13, <3>1, <3>2
  <2>3. QED BY <1>17, <2>1, <2>2 DEF syncFilesystemConditions
<1>18. CASE ensureStorageClass
  <2>1. "StorageClassCreated" \in Stages
    BY DEF Stages
  <2>2. CASE /\ sc = "ours"
             /\ updateConditionIfChanged("StorageClassCreated", "Present", Goto("syncFSCReady"))
    <3>1. Fits("StorageClassCreated", "Present")
      BY <2>2 DEF Fits, TrueReasons
    <3>2. QED BY <1>4, <1>5, <1>13, <2>1, <2>2, <3>1
  <2>3. CASE pc' = "recordDrift" /\ UNCHANGED <<claimVars, mem>>
    BY <1>2, <1>5, <2>3, ProvisionMoves DEF claimVars
  <2>4. CASE /\ sc = "absent" /\ UNCHANGED sc /\ handleResourceCreationError("StorageClassCreated")
    <3>1. Fits("StorageClassCreated", "Failed")
      BY <1>18, <2>4 DEF ensureStorageClass, Fits, TrueReasons
    <3>2. QED BY <1>8, <2>1, <2>4, <3>1
  <2>5. QED BY <1>5, <1>7, <1>18, <2>1, <2>2, <2>3, <2>4 DEF ensureStorageClass
<1>19. CASE recordStorageClass
  <2>1. pc \in Recording /\ "StorageClassCreated" \in Stages
    BY <1>19 DEF recordStorageClass, Recording, Stages
  <2>2. Fits("StorageClassCreated", "Created") /\ Fits("StorageClassCreated", "Present")
    BY <2>1 DEF Fits, TrueReasons
  <2>3. QED BY <1>4, <1>5, <1>13, <1>19, <2>1, <2>2 DEF recordStorageClass
<1>20. CASE syncFSCReady
  <2>1. PICK r \in {"Succeeded", "Provisioning"} :
          updateConditionIfChanged("Ready", r, Return) /\ (r = "Succeeded" => AllTrue(mem))
    BY <1>20 DEF syncFSCReady, AllTrue
  <2>2. Fits("Ready", r)
    BY <1>20, <2>1 DEF syncFSCReady, Fits, ReadyFits
  <2>3. QED BY <1>4, <1>5, <1>13, <2>1, <2>2
<1>21. QED
  BY <1>9, <1>10, <1>11, <1>12, <1>14, <1>15, <1>16, <1>17, <1>18, <1>19, <1>20

\* Everyone else.
LEMMA ClaimUserShape ==
    ASSUME TypeOK, DeletionInv,
           CreateClaim \/ DeleteClaim \/ ReleaseHold \/ ValidateUpdate
    PROVE  ClaimStep
<1>1. UNCHANGED <<pc, mem, cache>>
  BY DEF CreateClaim, DeleteClaim, ReleaseHold, ValidateUpdate, passVars, envVars
<1>2. fsc \in Claims /\ ~fsc.hold /\ fsc.uid \in 0..MaxClaims
  BY DEF TypeOK, DeletionInv, PassInv, Finalized, Claims
<1>3. CASE CreateClaim
  <2>1. PICK ds \in DeviceLists, h \in Holds :
          fsc' = [Gone(fsc.uid + 1) EXCEPT !.exists = TRUE, !.devices = ds, !.hold = h]
    BY <1>3 DEF CreateClaim
  <2>2. ~fsc.exists
    BY <1>3 DEF CreateClaim
  <2>3. fsc'.exists /\ fsc'.uid = fsc.uid + 1 /\ ~fsc'.del /\ ~fsc'.fin /\ fsc'.cond = NoConditions
    BY <2>1 DEF Gone
  <2>4. QED BY <1>1, <2>2, <2>3 DEF ClaimStep, Creates
<1>4. CASE DeleteClaim
  BY <1>1, <1>2, <1>4 DEF DeleteClaim, ClaimStep, Turns, Claims
<1>5. CASE ReleaseHold
  BY <1>2, <1>5 DEF ReleaseHold
<1>6. CASE ValidateUpdate
  BY <1>1, <1>2, <1>6 DEF ValidateUpdate, Upset, ClaimStep, Turns, Claims
<1>7. QED BY <1>3, <1>4, <1>5, <1>6

\* The steps that write the claim's finalizers or its marks of deletion.
FinalizerStep ==
    \/ handleFinalizers \/ removeFinalizer
    \/ CreateClaim \/ DeleteClaim \/ ReleaseHold \/ ValidateUpdate

LEMMA AnyShape == ASSUME TypeOK, [Next]_vars PROVE ClaimStep \/ FinalizerStep
<1>1. CASE Still
  BY <1>1 DEF ClaimStep
<1>2. CASE Reconcile
  BY <1>2 DEF Reconcile, ClaimStep, Starts, Still, claimVars, envVars
<1>3. CASE ApiError
  BY <1>3, ReturnShape DEF ApiError, ClaimStep, envVars
<1>4. CASE Crash
  BY <1>4 DEF Crash, ClaimStep, Ends, Ended
<1>5. CASE InformerSync
  BY <1>5 DEF InformerSync, ClaimStep, Syncs
<1>6. CASE Handler /\ ~Reconcile
  BY <1>6, CleaningShape, DeletingShape, ProvisioningShape DEF Handler, FinalizerStep
<1>7. CASE UNCHANGED vars
  BY <1>1, <1>7 DEF vars, claimVars, passVars, envVars, Still
<1>8. CASE TimerFires \/ Resync \/ GarbageCollect \/ Scale
  BY <1>1, <1>8 DEF TimerFires, Resync, GarbageCollect, Scale, ScaleLocalDisk, ScaleFilesystem,
                    ScaleRemoves, claimVars, passVars, envVars, Still
<1>9. CASE LabelFilesystem \/ ProvisionVolume \/ ReleaseVolume \/ Tamper \/ Rediscover
  BY <1>1, <1>9 DEF LabelFilesystem, ProvisionVolume, ReleaseVolume, Tamper, Rediscover,
                    claimVars, passVars, envVars, Still
<1>10. QED
  BY <1>2, <1>3, <1>4, <1>5, <1>6, <1>7, <1>8, <1>9 DEF Next, User, FinalizerStep

LEMMA StepShape ==
    ASSUME TypeOK, DeletionInv, [Next]_vars PROVE ClaimStep
  BY AnyShape, FinalizerShape, ClaimUserShape DEF FinalizerStep

----------------------------------------------------------------------------
(* The versions agree on the deletion: a version that asks for it, or tells *)
(* anything of the cleanup, is never newer than one that does not.          *)

\* A claim that is not there says nothing.
Blank(c) == ~c.exists => ~c.del /\ c.cond = NoConditions

\* What a version tells of the cleanup it tells with the deletion marked.
Told(c) ==
    /\ isConditionTrue(c, "DeletionBlocked") => Requested(c)
    /\ \A t \in CondTypes : c.cond[t] = "Deleted" => t \in Stages /\ Requested(c)

BornInv ==
    /\ Blank(fsc) /\ Blank(cache)
    /\ fsc.exists => fsc.uid # 0
    /\ cache.exists => cache.uid # 0
    /\ pc # "idle" => mem.exists /\ mem.uid # 0

OrderInv ==
    /\ mem.del => Away(cache) /\ Away(fsc) /\ fsc.uid # 0
    /\ cache.del => Away(fsc) /\ fsc.uid # 0
    /\ pc \in Cleaning => mem.del /\ Requested(mem)

MarkInv ==
    /\ Requested(fsc) \/ Requested(cache) \/ Requested(mem) =>
          /\ Away(cache) /\ Away(fsc) /\ fsc.uid # 0
          /\ pc # "idle" => mem.del
    /\ Requested(mem) => (Requested(cache) \/ ~cache.exists) /\ (Requested(fsc) \/ ~fsc.exists)
    /\ Requested(cache) => Requested(fsc) \/ ~fsc.exists

ToldInv == Told(fsc) /\ Told(cache) /\ Told(mem)

VersionsInv == BornInv /\ OrderInv /\ MarkInv /\ ToldInv

LEMMA NothingTold ==
    ASSUME NEW c, c.cond = NoConditions PROVE ~Requested(c) /\ Told(c)
<1>1. \A t \in CondTypes : c.cond[t] = "None"
  BY DEF NoConditions
<1>2. "Ready" \in CondTypes /\ "DeletionBlocked" \in CondTypes
  BY DEF CondTypes
<1>3. QED BY <1>1, <1>2 DEF Requested, Told, isConditionTrue, TrueReasons

LEMMA GoneSays == \A u : /\ ~Gone(u).exists /\ ~Gone(u).del /\ Gone(u).uid = u
                         /\ Gone(u).cond = NoConditions /\ Blank(Gone(u))
                         /\ ~Requested(Gone(u)) /\ Told(Gone(u))
<1>1. \A u : /\ ~Gone(u).exists /\ ~Gone(u).del /\ Gone(u).uid = u
             /\ Gone(u).cond = NoConditions
  BY DEF Gone
<1>2. QED BY <1>1, NothingTold DEF Blank

LEMMA InitVersions == ASSUME Init PROVE VersionsInv
<1>1. /\ fsc = Gone(0) /\ cache = Gone(0) /\ mem = Gone(0) /\ pc = "idle"
  BY DEF Init
<1>2. QED BY <1>1, GoneSays
          DEF VersionsInv, BornInv, OrderInv, MarkInv, ToldInv, Cleaning, Deleting

\* A pass over a claim that is not being deleted knows of no deletion anywhere.
LEMMA NoneRequested ==
    ASSUME VersionsInv, DeletionInv, pc \in Provisioning
    PROVE  /\ ~mem.del /\ ~Requested(fsc) /\ ~Requested(cache) /\ ~Requested(mem)
           /\ \A t \in CondTypes : fsc.cond[t] # "Deleted" /\ cache.cond[t] # "Deleted"
           /\ ~isConditionTrue(cache, "DeletionBlocked")
  BY DEF VersionsInv, MarkInv, ToldInv, Told, DeletionInv, PassInv, Provisioning

\* What is left to show for a status write that ends its pass.
LEMMA WriteVersions ==
    ASSUME VersionsInv, NEW cs, Writes(cs), Ended, Told(fsc)',
           Requested(cache) => Requested(fsc)', Requested(fsc)' => mem.del \/ Requested(cache)
    PROVE  VersionsInv'
<1>1. /\ cache.exists /\ fsc.exists /\ fsc'.exists /\ fsc'.uid = fsc.uid /\ fsc'.del = fsc.del
      /\ cache' = cache /\ pc' = "idle" /\ mem' = Gone(0)
  BY DEF Writes, Ended
<1>2. BornInv'
  BY <1>1 DEF VersionsInv, BornInv, Blank
<1>3. OrderInv'
  BY <1>1, GoneSays DEF VersionsInv, OrderInv, Away, Cleaning, Deleting
<1>4. Requested(fsc)' \/ Requested(cache) => Away(cache) /\ Away(fsc) /\ fsc.uid # 0
  BY DEF VersionsInv, OrderInv, MarkInv
<1>5. MarkInv'
  BY <1>1, <1>4, GoneSays DEF VersionsInv, MarkInv, Away, Requested
<1>6. ToldInv'
  BY <1>1, GoneSays DEF VersionsInv, ToldInv, Told, Requested, isConditionTrue
<1>7. QED BY <1>2, <1>3, <1>5, <1>6 DEF VersionsInv

LEMMA QuietVersions ==
    ASSUME VersionsInv, Still \/ Syncs \/ Starts \/ Moves \/ Ends PROVE VersionsInv'
<1>1. CASE Still
  BY <1>1 DEF Still, VersionsInv, BornInv, OrderInv, MarkInv, ToldInv, Blank, Told, Away,
              Requested, isConditionTrue
<1>2. CASE Syncs
  <2>1. BornInv'
    BY <1>2 DEF Syncs, VersionsInv, BornInv, Blank
  <2>2. OrderInv'
    BY <1>2 DEF Syncs, VersionsInv, BornInv, OrderInv, Blank, Away, Requested
  <2>3. MarkInv'
    BY <1>2 DEF Syncs, VersionsInv, MarkInv, Away, Requested
  <2>4. ToldInv'
    BY <1>2 DEF Syncs, VersionsInv, ToldInv, Told, Requested, isConditionTrue
  <2>5. QED BY <2>1, <2>2, <2>3, <2>4 DEF VersionsInv
<1>3. CASE Starts
  <2>1. BornInv'
    BY <1>3 DEF Starts, VersionsInv, BornInv, Blank
  <2>2. OrderInv'
    BY <1>3 DEF Starts, VersionsInv, OrderInv, Away, Requested, Cleaning, Deleting
  <2>3. MarkInv'
    BY <1>3 DEF Starts, VersionsInv, MarkInv, Away, Requested
  <2>4. ToldInv'
    BY <1>3 DEF Starts, VersionsInv, ToldInv, Told, Requested, isConditionTrue
  <2>5. QED BY <2>1, <2>2, <2>3, <2>4 DEF VersionsInv
<1>4. CASE Moves
  <2>1. UNCHANGED <<fsc, cache, mem>> /\ pc # "idle" /\ pc' # "idle"
        /\ (pc' \in Cleaning => pc \in Cleaning \/ (mem.del /\ Requested(mem)))
    BY <1>4 DEF Moves
  <2>2. BornInv'
    BY <2>1 DEF VersionsInv, BornInv, Blank
  <2>3. OrderInv'
    BY <2>1 DEF VersionsInv, OrderInv, Away, Requested
  <2>4. MarkInv'
    BY <2>1 DEF VersionsInv, MarkInv, Away, Requested
  <2>5. ToldInv'
    BY <2>1 DEF VersionsInv, ToldInv, Told, Requested, isConditionTrue
  <2>6. QED BY <2>2, <2>3, <2>4, <2>5 DEF VersionsInv
<1>5. CASE Ends
  <2>1. pc' = "idle" /\ mem' = Gone(0) /\ fsc' = fsc /\ cache' \in {cache, fsc}
    BY <1>5 DEF Ends, Ended
  <2>2. BornInv'
    BY <2>1 DEF VersionsInv, BornInv, Blank
  <2>3. OrderInv'
    BY <2>1, GoneSays DEF VersionsInv, BornInv, OrderInv, Blank, Away, Cleaning, Deleting
  <2>4. MarkInv'
    BY <2>1, GoneSays DEF VersionsInv, MarkInv, Away, Requested
  <2>5. ToldInv'
    BY <2>1, GoneSays DEF VersionsInv, ToldInv, Told, Requested, isConditionTrue
  <2>6. QED BY <2>2, <2>3, <2>4, <2>5 DEF VersionsInv
<1>6. QED BY <1>1, <1>2, <1>3, <1>4, <1>5

\* The name has been used for at most one claim.
FirstClaim == fsc.uid <= 1

LEMMA FirstCreated == ASSUME ClaimOK, Creates, FirstClaim' PROVE fsc.uid = 0
<1>1. fsc.uid \in Nat
  BY Bounds DEF ClaimOK, Claims
<1>2. QED BY <1>1 DEF Creates, FirstClaim

LEMMA UserVersions ==
    ASSUME ClaimOK, VersionsInv, FirstClaim', Creates \/ Turns PROVE VersionsInv'
<1>1. CASE Creates
  <2>1. /\ fsc.uid = 0 /\ ~fsc.exists /\ UNCHANGED <<cache, mem, pc>>
        /\ fsc'.exists /\ fsc'.uid # 0 /\ ~fsc'.del /\ fsc'.cond = NoConditions
    BY <1>1, FirstCreated DEF Creates
  <2>2. ~mem.del /\ ~cache.del /\ ~Requested(cache) /\ ~Requested(mem)
    BY <2>1 DEF VersionsInv, OrderInv, MarkInv
  <2>3. ~Requested(fsc)' /\ Told(fsc)'
    BY <2>1, NothingTold DEF Requested, Told, isConditionTrue
  <2>4. BornInv' /\ OrderInv'
    BY <2>1, <2>2 DEF VersionsInv, BornInv, OrderInv, Blank
  <2>5. MarkInv'
    BY <2>1, <2>2, <2>3 DEF MarkInv, Requested
  <2>6. ToldInv'
    BY <2>1, <2>3 DEF VersionsInv, ToldInv, Told, Requested, isConditionTrue
  <2>7. QED BY <2>4, <2>5, <2>6 DEF VersionsInv
<1>2. CASE Turns
  <2>1. /\ fsc.exists /\ cache' = cache
        /\ (pc' = "idle" /\ mem' = Gone(0)) \/ (pc' = pc /\ mem' = mem)
    BY <1>2 DEF Turns, Ended
  <2>2. /\ fsc'.uid = fsc.uid /\ (Away(fsc) => Away(fsc)') /\ Blank(fsc)'
        /\ (fsc'.exists => fsc'.cond = fsc.cond)
    BY <1>2, GoneSays DEF Turns, Away, Blank
  <2>3. Requested(fsc)' => Requested(fsc)
    BY <1>2, GoneSays DEF Turns, Requested
  <2>4. Told(fsc)'
    <3>1. CASE fsc'.cond = fsc.cond
      BY <3>1 DEF VersionsInv, ToldInv, Told, Requested, isConditionTrue
    <3>2. CASE fsc' = Gone(fsc.uid)
      <4>1. (fsc').cond = NoConditions
        BY <3>2, GoneSays
      <4>2. QED BY <4>1, NothingTold DEF Told, Requested, isConditionTrue
    <3>3. QED BY <1>2, <3>1, <3>2 DEF Turns
  <2>5. BornInv'
    BY <2>1, <2>2 DEF VersionsInv, BornInv, Blank
  <2>6. OrderInv'
    BY <2>1, <2>2, GoneSays DEF VersionsInv, OrderInv, Away, Requested, Cleaning, Deleting
  <2>7. MarkInv'
    <3>1. (Requested(fsc) \/ ~fsc.exists) => (Requested(fsc)' \/ ~fsc'.exists)
      BY <2>1, <2>2 DEF Requested
    <3>2. Requested(mem)' => Requested(mem) /\ pc' = pc /\ mem' = mem
      BY <2>1, GoneSays DEF Requested
    <3>3. Requested(cache)' = Requested(cache) /\ Away(cache)' = Away(cache)
      BY <2>1 DEF Requested, Away
    <3>4. QED BY <2>1, <2>2, <2>3, <3>1, <3>2, <3>3 DEF VersionsInv, MarkInv
  <2>8. ToldInv'
    BY <2>1, <2>4, GoneSays DEF VersionsInv, ToldInv, Told, Requested, isConditionTrue
  <2>9. QED BY <2>5, <2>6, <2>7, <2>8 DEF VersionsInv
<1>3. QED BY <1>1, <1>2

LEMMA NextVersions ==
    ASSUME TypeOK, DeletionInv, VersionsInv, FirstClaim', ClaimStep PROVE VersionsInv'
<1>1. ClaimOK /\ EnvOK
  BY TypeParts
<1>2. CASE MarkWrite
  <2> DEFINE cs == [cache.cond EXCEPT !["Ready"] = "DeletionRequested"]
  <2>1. Writes(cs) /\ Ended /\ mem.del /\ fsc'.cond = cs
    BY <1>2 DEF MarkWrite, Writes
  <2>2. cs["Ready"] = "DeletionRequested" /\ \A s \in CondTypes : s # "Ready" => cs[s] = cache.cond[s]
    BY <1>1, OneChanged, CondNames
  <2> HIDE DEF cs
  <2>3. Requested(fsc)'
    BY <2>1, <2>2 DEF Requested
  <2>4. Told(fsc)'
    BY <2>1, <2>2, <2>3 DEF VersionsInv, ToldInv, Told, isConditionTrue
  <2>5. QED BY <2>1, <2>3, <2>4, WriteVersions
<1>3. CASE BlockWrite
  <2>1. PICK r \in TrueReasons : Writes([cache.cond EXCEPT !["DeletionBlocked"] = r])
    BY <1>3 DEF BlockWrite
  <2> DEFINE cs == [cache.cond EXCEPT !["DeletionBlocked"] = r]
  <2>2. /\ \A s \in CondTypes : s # "DeletionBlocked" => cs[s] = cache.cond[s]
        /\ cs["DeletionBlocked"] # "Deleted"
    BY <1>1, OneChanged, CondNames DEF TrueReasons
  <2>3. Writes(cs) /\ Ended /\ fsc'.cond = cs /\ cache.exists
    BY <1>3, <2>1 DEF BlockWrite, Writes
  <2> HIDE DEF cs
  <2>4. mem.del /\ Requested(mem)
    BY <1>3 DEF BlockWrite, VersionsInv, OrderInv, Cleaning
  <2>5. Requested(fsc)' /\ Requested(cache)
    BY <2>2, <2>3, <2>4, CondNames DEF VersionsInv, MarkInv, Requested
  <2>6. Told(fsc)'
    BY <2>2, <2>3, <2>5 DEF VersionsInv, ToldInv, Told, Stages
  <2>7. QED BY <2>3, <2>4, <2>5, <2>6, WriteVersions
<1>4. CASE \E t \in Stages : StageWrite(t)
  <2>1. PICK t \in Stages : StageWrite(t)
    BY <1>4
  <2> DEFINE cs == [cache.cond EXCEPT ![t] = "Deleted"]
  <2>2. t # "Ready" /\ t # "DeletionBlocked" /\ t \in CondTypes
    BY CondNames DEF Stages
  <2>3. \A s \in CondTypes : s # t => cs[s] = cache.cond[s]
    BY <1>1, <2>2, OneChanged
  <2>4. Writes(cs) /\ Ended /\ fsc'.cond = cs /\ cache.exists
    BY <2>1 DEF StageWrite, Writes
  <2> HIDE DEF cs
  <2>5. mem.del /\ Requested(mem)
    BY <2>1 DEF StageWrite, StageDone, VersionsInv, OrderInv, Cleaning, Deleting
  <2>6. Requested(fsc)' /\ Requested(cache)
    BY <2>2, <2>3, <2>4, <2>5, CondNames DEF VersionsInv, MarkInv, Requested
  <2>7. Told(fsc)'
    BY <2>2, <2>3, <2>4, <2>6, CondNames DEF VersionsInv, ToldInv, Told, isConditionTrue
  <2>8. QED BY <2>4, <2>5, <2>6, <2>7, WriteVersions
<1>5. CASE ProvisionWrite
  <2>1. PICK cs \in [CondTypes -> Reasons] :
          /\ Writes(cs) /\ cs["DeletionBlocked"] = cache.cond["DeletionBlocked"]
          /\ \A t \in CondTypes :
                cs[t] = cache.cond[t] \/ cs[t] \notin {"Deleted", "DeletionRequested"}
    BY <1>5 DEF ProvisionWrite
  <2>2. pc \in Provisioning
    BY <1>5 DEF ProvisionWrite
  <2>3. ~Requested(fsc)' /\ Told(fsc)' /\ ~Requested(cache)
    BY <2>1, <2>2, NoneRequested, CondNames DEF Writes, Requested, Told, isConditionTrue
  <2>4. CASE Ended
    BY <2>1, <2>3, <2>4, WriteVersions
  <2>5. CASE mem' = mem /\ pc' \in Provisioning
    <3>1. /\ pc # "idle" /\ fsc.exists /\ fsc'.exists /\ fsc'.uid = fsc.uid /\ fsc'.del = fsc.del
          /\ cache' = cache
      BY <2>1 DEF Writes
    <3>2. ~Requested(mem) /\ ~mem.del
      BY <2>2, NoneRequested
    <3>3. BornInv'
      BY <2>5, <3>1 DEF VersionsInv, BornInv, Blank
    <3>4. OrderInv'
      BY <2>5, <3>1, <3>2 DEF VersionsInv, OrderInv, Away, Provisioning, Cleaning, Deleting
    <3>5. MarkInv'
      BY <2>3, <2>5, <3>1, <3>2 DEF MarkInv, Requested
    <3>6. ToldInv'
      BY <2>3, <2>5, <3>1 DEF VersionsInv, ToldInv, Told, Requested, isConditionTrue
    <3>7. QED BY <3>3, <3>4, <3>5, <3>6 DEF VersionsInv
  <2>6. QED BY <2>1, <2>4, <2>5 DEF Writes
<1>6. QED BY <1>1, <1>2, <1>3, <1>4, <1>5, QuietVersions, UserVersions DEF ClaimStep

\* A claim of a name used once, with no other finalizer than the operator's.
OneClaim == MaxClaims <= 1 /\ Holds \subseteq {FALSE}

LEMMA OnlyClaim == ASSUME OneClaim, TypeOK' PROVE FirstClaim'
<1>1. fsc'.uid \in 0..MaxClaims
  BY DEF TypeOK, Claims
<1>2. QED BY <1>1, Bounds DEF OneClaim, FirstClaim

LEMMA VersionsAgree ==
    ASSUME OneClaim PROVE Spec => [](TypeOK /\ DeletionInv /\ VersionsInv)
<1>1. Init => DeletionInv /\ VersionsInv
  BY InitVersions, GoneFinalized DEF Init, DeletionInv, PassInv, Provisioning
<1>2. TypeOK /\ TypeOK' /\ DeletionInv /\ VersionsInv /\ [Next]_vars
        => DeletionInv' /\ VersionsInv'
  BY NextInv, StepShape, NextVersions, OnlyClaim DEF OneClaim
<1>3. QED BY <1>1, <1>2, TypeCorrect, PTL DEF Spec

\* A deletion that is blocked is shown as blocked, whatever passes, failed or late,
\* have written before: no status written for another reason hides it.
THEOREM BlockIsShown == ASSUME OneClaim PROVE Spec => []BlockShown
<1>1. VersionsInv => BlockShown
  BY DEF VersionsInv, ToldInv, Told, BlockShown, statusTitle, Requested
<1>2. QED BY <1>1, VersionsAgree, PTL

----------------------------------------------------------------------------
(* What is recorded as deleted is gone, and stays away.                    *)

\* How the Filesystem changes: it is created for a claim that has been there.
FsStep ==
    \/ fs' = fs
    \/ FSExists /\ fs.del /\ fs' = NoFS /\ UNCHANGED <<fsc, sc>>
    \/ /\ FSExists /\ fs'.st # "absent" /\ fs'.own = fs.own
       /\ fs.label => fs'.label \/ "unlabel" \in Upsets
       /\ \/ fs'.disks = fs.disks
          \/ pc = "ensureFileSystem" /\ fs.own # 0 /\ fs'.disks = OwnedLDs /\ ld' = ld
       /\ fs'.del => \/ fs.del \/ "tamper" \in Upsets
                     \/ (pc = "deleteFilesystem" \/ Orphan(fs.own)) /\ UNCHANGED <<fsc, sc>>
    \/ /\ pc = "ensureFileSystem" /\ ~FSExists /\ fs' = NewFilesystem(OwnedLDs)
       /\ UNCHANGED <<fsc, sc>>

LEMMA FsShape == ASSUME TypeOK, [Next]_vars PROVE FsStep
<1>1. fs \in Filesystems
  BY DEF TypeOK
<1>2. CASE fs' = fs
  BY <1>2 DEF FsStep
<1>3. CASE deleteFilesystem \/ ensureFileSystem
  <2>1. CASE deleteFilesystem
    BY <1>1, <2>1 DEF deleteFilesystem, OwnedFS, FSExists, FsStep, Filesystems, claimVars
  <2>2. CASE ensureFileSystem
    BY <1>1, <2>2
    DEF ensureFileSystem, OwnedFS, FSExists, FsStep, Filesystems, Goto, Return, claimVars
  <2>3. QED BY <1>3, <2>1, <2>2
<1>4. CASE LabelFilesystem
  BY <1>1, <1>4 DEF LabelFilesystem, Upset, FsStep, FSExists, Filesystems
<1>5. CASE Tamper
  BY <1>1, <1>5 DEF Tamper, Upset, FsStep, FSExists, Filesystems
<1>6. CASE ScaleFilesystem
  BY <1>1, <1>6 DEF ScaleFilesystem, FsStep, FSExists, Filesystems
<1>7. CASE ScaleRemoves \/ GarbageCollect
  BY <1>1, <1>7 DEF ScaleRemoves, GarbageCollect, FsStep, FSExists, Filesystems, claimVars
<1>8. QED
  <2>1. CASE UNCHANGED vars
    BY <1>2, <2>1 DEF vars, childVars
  <2>2. CASE Handler
    BY <1>2, <1>3, <2>2
    DEF Handler, Reconcile, handleFinalizers, handleDeletion, checkStorageClassUsage,
        checkFilesystemDeletionLabel, deleteStorageClass, deleteLocalDisks, removeFinalizer,
        ensureLocalDisks, createLocalDisk, recordLocalDisk, endLocalDisks,
        syncLocalDiskConditions, recordFileSystem, syncFilesystemConditions,
        ensureStorageClass, recordStorageClass, syncFSCReady, childVars
  <2>3. CASE ~Handler /\ Next
    BY <1>2, <1>4, <1>5, <1>6, <1>7, <2>3
    DEF Next, ApiError, Crash, InformerSync, TimerFires, Resync, User, CreateClaim,
        DeleteClaim, ReleaseHold, ValidateUpdate, ProvisionVolume, ReleaseVolume, Rediscover,
        Scale, ScaleLocalDisk, childVars
  <2>4. QED BY <2>1, <2>2, <2>3

\* Outside provisioning no LocalDisk gets an owner.
LEMMA LdShape ==
    ASSUME TypeOK, [Next]_vars, pc \notin Provisioning
    PROVE  \A w \in Wwns : ld'[w] = NoLD \/ ld'[w].own = ld[w].own
<1>1. ld \in [Wwns -> LocalDisks]
  BY DEF TypeOK
<1>2. CASE ld' = ld
  BY <1>2
<1>3. CASE deleteLocalDisks
  <2>1. \/ ld' = ld
        \/ \E S \in SUBSET OwnedLDs :
              ld' = [w \in Wwns |-> IF w \in S THEN [ld[w] EXCEPT !.del = TRUE] ELSE ld[w]]
    BY <1>3 DEF deleteLocalDisks
  <2>2. QED BY <1>1, <2>1 DEF LocalDisks
<1>4. CASE Tamper
  <2>1. ld' = ld \/ \E w \in OwnedLDs : ld' = [ld EXCEPT ![w].del = TRUE]
    BY <1>4 DEF Tamper
  <2>2. QED BY <1>1, <2>1 DEF OwnedLDs, LocalDisks
<1>5. CASE \E w \in Wwns : ScaleLocalDisk(w)
  <2>1. \E w \in Wwns : \E x \in LDStates : ld' = [ld EXCEPT ![w].st = x]
    BY <1>5 DEF ScaleLocalDisk
  <2>2. QED BY <1>1, <2>1 DEF LocalDisks
<1>6. CASE ScaleRemoves \/ GarbageCollect
  <2>1. \/ ld' = ld
        \/ \E w \in Wwns : ld' = [ld EXCEPT ![w] = NoLD] \/ ld' = [ld EXCEPT ![w].del = TRUE]
    BY <1>6 DEF ScaleRemoves, GarbageCollect
  <2>2. QED BY <1>1, <2>1 DEF LocalDisks
<1>7. QED
  <2>1. CASE UNCHANGED vars
    BY <1>2, <2>1 DEF vars, childVars
  <2>2. CASE Handler
    BY <1>2, <1>3, <2>2
    DEF Handler, Reconcile, handleFinalizers, handleDeletion, checkStorageClassUsage,
        checkFilesystemDeletionLabel, deleteStorageClass, deleteFilesystem, removeFinalizer,
        ensureLocalDisks, createLocalDisk, recordLocalDisk, endLocalDisks,
        syncLocalDiskConditions, ensureFileSystem, recordFileSystem,
        syncFilesystemConditions, ensureStorageClass, recordStorageClass, syncFSCReady,
        childVars, Provisioning
  <2>3. CASE ~Handler /\ Next
    BY <1>2, <1>4, <1>5, <1>6, <2>3
    DEF Next, ApiError, Crash, InformerSync, TimerFires, Resync, User, CreateClaim,
        DeleteClaim, ReleaseHold, ValidateUpdate, LabelFilesystem, ProvisionVolume,
        ReleaseVolume, Rediscover, Scale, ScaleFilesystem, childVars
  <2>4. QED BY <2>1, <2>2, <2>3

\* The objects a stage is about are gone.
Removed(t) ==
    /\ t = "StorageClassCreated" => sc = "absent"
    /\ t = "FileSystemCreated" => ~FSExists
    /\ t = "LocalDiskCreated" => OwnedLDs = {}

FsInv == FSExists => fs.own # 0
GoneInv == \A t \in Stages : fsc.cond[t] = "Deleted" \/ cache.cond[t] = "Deleted" => Removed(t)

LEMMA StaysRemoved ==
    ASSUME TypeOK, [Next]_vars, pc \notin Provisioning, NEW t, Removed(t) PROVE Removed(t)'
<1>1. NothingNew
  BY Creators
<1>2. (sc = "absent" => sc' = "absent") /\ (~FSExists => ~FSExists')
  BY <1>1 DEF NothingNew, FSExists
<1>3. OwnedLDs = {} => OwnedLDs' = {}
  <2>1. NoLD.st = "absent"
    BY DEF NoLD
  <2>2. QED BY <1>1, <2>1, LdShape DEF OwnedLDs, NothingNew
<1>4. QED BY <1>2, <1>3 DEF Removed

\* Where a record of a deletion comes from.
LEMMA DeletedFrom ==
    ASSUME TypeOK, DeletionInv, VersionsInv, ClaimStep, NEW t \in CondTypes,
           fsc'.cond[t] = "Deleted"
    PROVE  fsc.cond[t] = "Deleted" \/ cache.cond[t] = "Deleted" \/ (t \in Stages /\ StageWrite(t))
<1>1. EnvOK
  BY TypeParts
<1>2. CASE MarkWrite
  BY <1>1, <1>2, OneChanged, CondNames DEF MarkWrite, Writes
<1>3. CASE BlockWrite
  <2>1. PICK r \in TrueReasons : Writes([cache.cond EXCEPT !["DeletionBlocked"] = r])
    BY <1>3 DEF BlockWrite
  <2>2. r # "Deleted" /\ fsc'.cond = [cache.cond EXCEPT !["DeletionBlocked"] = r]
    BY <2>1 DEF TrueReasons, Writes
  <2>3. QED BY <1>1, <2>2, OneChanged, CondNames
<1>4. CASE \E s \in Stages : StageWrite(s)
  <2>1. PICK s \in Stages : StageWrite(s)
    BY <1>4
  <2>2. fsc'.cond = [cache.cond EXCEPT ![s] = "Deleted"] /\ s \in CondTypes
    BY <2>1, CondNames DEF StageWrite, Writes
  <2>3. QED BY <1>1, <2>1, <2>2, OneChanged
<1>5. CASE ProvisionWrite
  BY <1>5 DEF ProvisionWrite, Writes
<1>6. CASE Creates
  BY <1>6 DEF Creates, NoConditions
<1>7. CASE Turns
  <2>1. Gone(fsc.uid).cond[t] # "Deleted"
    BY GoneSays DEF NoConditions
  <2>2. QED BY <1>7, <2>1 DEF Turns
<1>8. CASE Still \/ Syncs \/ Starts \/ Moves \/ Ends
  BY <1>8 DEF Still, Syncs, Starts, Moves, Ends
<1>9. QED BY <1>2, <1>3, <1>4, <1>5, <1>6, <1>7, <1>8 DEF ClaimStep

LEMMA CacheFrom == ASSUME ClaimStep PROVE cache' \in {cache, fsc}
  BY DEF ClaimStep, Still, Syncs, Starts, Moves, Ends, MarkWrite, BlockWrite, StageWrite,
         ProvisionWrite, Writes, Creates, Turns

LEMMA NextGone ==
    ASSUME TypeOK, DeletionInv, VersionsInv, FsInv, GoneInv, [Next]_vars, ClaimStep
    PROVE  FsInv' /\ GoneInv'
<1>1. FsInv'
  <2>1. pc = "ensureFileSystem" => mem.uid # 0
    BY DEF VersionsInv, BornInv
  <2>2. NoFS.st = "absent" /\ NewFilesystem(OwnedLDs).own = mem.uid
    BY DEF NoFS, NewFilesystem
  <2>3. QED BY <2>1, <2>2, FsShape DEF FsStep, FsInv, FSExists
<1>2. ASSUME NEW t \in Stages, fsc.cond[t] = "Deleted" \/ cache.cond[t] = "Deleted"
      PROVE  Removed(t)'
  <2>1. pc \notin Provisioning
    BY <1>2, NoneRequested, CondNames
  <2>2. QED BY <1>2, <2>1, StaysRemoved DEF GoneInv
<1>3. ASSUME NEW t \in Stages, StageWrite(t) PROVE Removed(t)'
  <2>1. Removed(t)
    BY <1>3 DEF StageWrite, StageDone, Removed, FsInv, OwnedFS
  <2>2. UNCHANGED <<ld, fs, sc>>
    BY <1>3 DEF StageWrite, childVars
  <2>3. QED BY <2>1, <2>2 DEF Removed, FSExists, OwnedLDs
<1>4. GoneInv'
  BY <1>2, <1>3, DeletedFrom, CacheFrom, CondNames DEF GoneInv
<1>5. QED BY <1>1, <1>4

LEMMA RecordsTrue ==
    ASSUME OneClaim PROVE Spec => [](FsInv /\ GoneInv)
<1>1. Init => FsInv /\ GoneInv
  <2>1. ASSUME Init PROVE FsInv /\ GoneInv
    <3>1. fs.st = "absent" /\ fsc.cond = NoConditions /\ cache.cond = NoConditions
      BY <2>1, GoneSays DEF Init, NoFS
    <3>2. QED BY <3>1, CondNames DEF FsInv, GoneInv, FSExists, NoConditions
  <2>2. QED BY <2>1
<1>2. TypeOK /\ DeletionInv /\ VersionsInv /\ FsInv /\ GoneInv /\ [Next]_vars => FsInv' /\ GoneInv'
  BY StepShape, NextGone
<1>3. QED BY <1>1, <1>2, VersionsAgree, PTL DEF Spec

\* What the status calls deleted is gone, whatever the order of passes over stale
\* copies, failures and restarts, and whatever others do to the objects.
THEOREM RecordedDeletionsAreReal == ASSUME OneClaim PROVE Spec => []DeletedMeansGone
<1>1. GoneInv => DeletedMeansGone
  BY DEF GoneInv, DeletedMeansGone, Removed, FSExists, OwnedLDs, Stages
<1>2. QED BY <1>1, RecordsTrue, PTL

----------------------------------------------------------------------------
(* A recorded deletion is not taken back: a status write starts from the   *)
(* cache, which may not have it yet, but only the pass that is at the same *)
(* stage writes, and it writes the same.                                   *)

\* Version b is at the same point of the cleanup as a, or further.
Further(a, b) ==
    \A t \in Stages :
        b.cond[t] = a.cond[t] \/ (isConditionTrue(a, t) /\ b.cond[t] = "Deleted")

FurtherInv ==
    /\ Requested(mem) =>
          (Further(mem, cache) \/ ~cache.exists) /\ (Further(mem, fsc) \/ ~fsc.exists)
    /\ Requested(cache) => Further(cache, fsc) \/ ~fsc.exists

LEMMA FurtherSelf == ASSUME NEW a, NEW b, b.cond = a.cond PROVE Further(a, b)
  BY DEF Further

LEMMA WriteFurther ==
    ASSUME NEW cs, Writes(cs), Requested(cache) =>
             \A t \in Stages : cs[t] = cache.cond[t] \/ (isConditionTrue(cache, t) /\ cs[t] = "Deleted"),
           Ended
    PROVE  FurtherInv'
<1>1. cache' = cache /\ fsc'.cond = cs /\ ~Requested(mem)'
  BY GoneSays DEF Writes, Ended, Requested
<1>2. QED BY <1>1 DEF FurtherInv, Further, Requested, isConditionTrue

LEMMA NextFurther ==
    ASSUME TypeOK, DeletionInv, VersionsInv, FurtherInv, FirstClaim', ClaimStep
    PROVE  FurtherInv'
<1>1. ClaimOK /\ EnvOK
  BY TypeParts
<1>2. CASE Still \/ Moves
  <2>1. UNCHANGED <<fsc, cache, mem>>
    BY <1>2 DEF Still, Moves
  <2>2. QED BY <2>1 DEF FurtherInv, Further, Requested, isConditionTrue
<1>3. CASE Syncs
  BY <1>3 DEF Syncs, FurtherInv, Further, Requested, isConditionTrue
<1>4. CASE Starts
  BY <1>4 DEF Starts, FurtherInv, Further, Requested, isConditionTrue
<1>5. CASE Ends
  <2>1. ~Requested(mem)' /\ fsc' = fsc /\ cache' \in {cache, fsc}
    BY <1>5, GoneSays DEF Ends, Ended, Requested
  <2>2. QED BY <2>1 DEF FurtherInv, Further, Requested, isConditionTrue
<1>6. CASE MarkWrite
  <2>1. \A t \in Stages : [cache.cond EXCEPT !["Ready"] = "DeletionRequested"][t] = cache.cond[t]
    BY <1>1, OneChanged, CondNames DEF Stages
  <2>2. QED BY <1>6, <2>1, WriteFurther DEF MarkWrite
<1>7. CASE BlockWrite
  <2>1. PICK r \in TrueReasons : Writes([cache.cond EXCEPT !["DeletionBlocked"] = r])
    BY <1>7 DEF BlockWrite
  <2>2. \A t \in Stages : [cache.cond EXCEPT !["DeletionBlocked"] = r][t] = cache.cond[t]
    BY <1>1, OneChanged, CondNames DEF Stages
  <2>3. QED BY <1>7, <2>1, <2>2, WriteFurther DEF BlockWrite
<1>8. CASE \E t \in Stages : StageWrite(t)
  <2>1. PICK t \in Stages : StageWrite(t)
    BY <1>8
  <2> DEFINE cs == [cache.cond EXCEPT ![t] = "Deleted"]
  <2>2. cs[t] = "Deleted" /\ \A s \in Stages : s # t => cs[s] = cache.cond[s]
    BY <1>1, OneChanged, CondNames
  <2>3. Writes(cs) /\ Ended /\ cache.exists
    BY <2>1 DEF StageWrite, Writes
  <2>4. isConditionTrue(cache, t) \/ cache.cond[t] = "Deleted"
    <3>1. Requested(mem) /\ isConditionTrue(mem, t)
      BY <2>1 DEF StageWrite, StageDone, VersionsInv, OrderInv, Cleaning, Deleting
    <3>2. QED BY <2>3, <3>1 DEF FurtherInv, Further, isConditionTrue
  <2> HIDE DEF cs
  <2>5. \A s \in Stages : cs[s] = cache.cond[s] \/ (isConditionTrue(cache, s) /\ cs[s] = "Deleted")
    BY <2>2, <2>4
  <2>6. QED BY <2>3, <2>5, WriteFurther
<1>9. CASE ProvisionWrite
  <2>1. pc \in Provisioning
    BY <1>9 DEF ProvisionWrite
  <2>2. ~Requested(mem) /\ ~Requested(cache)
    BY <2>1, NoneRequested
  <2>3. cache' = cache /\ mem' \in {mem, Gone(0)}
    BY <1>9 DEF ProvisionWrite, Writes, Ended
  <2>4. ~Requested(mem)' /\ ~Requested(cache)'
    BY <2>2, <2>3, GoneSays DEF Requested
  <2>5. QED BY <2>4 DEF FurtherInv
<1>10. CASE Creates
  <2>1. fsc.uid = 0 /\ UNCHANGED <<cache, mem>>
    BY <1>1, <1>10, FirstCreated DEF Creates
  <2>2. ~Requested(mem)' /\ ~Requested(cache)'
    BY <2>1 DEF VersionsInv, MarkInv, Requested
  <2>3. QED BY <2>2 DEF FurtherInv
<1>11. CASE Turns
  <2>1. cache' = cache /\ mem' \in {mem, Gone(0)} /\ fsc.exists
    BY <1>11 DEF Turns, Ended
  <2>2. ~fsc'.exists \/ fsc'.cond = fsc.cond
    BY <1>11, GoneSays DEF Turns
  <2>3. Requested(mem)' => mem' = mem
    BY <2>1, GoneSays DEF Requested
  <2>4. QED BY <2>1, <2>2, <2>3 DEF FurtherInv, Further, Requested, isConditionTrue
<1>12. QED BY <1>2, <1>3, <1>4, <1>5, <1>6, <1>7, <1>8, <1>9, <1>10, <1>11 DEF ClaimStep

Before(t) ==
    {s \in Stages : \/ s = "StorageClassCreated" /\ t # s
                    \/ s = "FileSystemCreated" /\ t = "LocalDiskCreated"}

\* A version that has not seen the deletion of a stage has seen the stages before it.
NextUp(c) ==
    \A t \in Stages : fsc.cond[t] = "Deleted" =>
        \/ c.cond[t] = "Deleted"
        \/ isConditionTrue(c, t) /\ \A s \in Before(t) : ~isConditionTrue(c, s)

\* The pass that deletes passed the checks, and the stages before its own are over.
PassedInv ==
    /\ pc \in {"deleteFilesystem", "deleteLocalDisks", "removeFinalizer"} =>
          ~isConditionTrue(mem, "StorageClassCreated")
    /\ pc \in {"deleteLocalDisks", "removeFinalizer"} => ~isConditionTrue(mem, "FileSystemCreated")
    /\ pc = "removeFinalizer" => ~isConditionTrue(mem, "LocalDiskCreated")

DeletingInv == PassedInv /\ (pc \in Deleting => Confirmed(mem))

\* Once the first deletion is recorded the checks cannot fail any more.
Committed(c) == Requested(c) /\ Confirmed(c) /\ NextUp(c)
CommitInv ==
    (\E t \in Stages : fsc.cond[t] = "Deleted") =>
        Committed(cache) /\ (pc # "idle" => Committed(mem))

\* Nobody takes volumes from the class, or the label from the filesystem.
Undisturbed == Upsets \cap {"volume", "unlabel"} = {}

LEMMA StaysAccepted ==
    ASSUME TypeOK, "unlabel" \notin Upsets, [Next]_vars, pc \notin Provisioning, LossAccepted
    PROVE  LossAccepted'
<1>1. NoFS.st = "absent" /\ "ensureFileSystem" \in Provisioning
  BY DEF NoFS, Provisioning
<1>2. fs' = fs \/ fs'.st = "absent" \/ (FSExists /\ fs'.own = fs.own /\ (fs.label => fs'.label))
  BY <1>1, FsShape DEF FsStep
<1>3. QED BY <1>2 DEF LossAccepted, OwnedFS, FSExists

\* A step into a deleting handler, or within it, is a move of the pass.
LEMMA IntoDeleting ==
    ASSUME ClaimStep PROVE pc' \notin Deleting \/ (mem' = mem /\ pc' = pc) \/ Moves
  BY DEF ClaimStep, Still, Syncs, Starts, Ends, Ended, MarkWrite, BlockWrite, StageWrite,
         ProvisionWrite, Writes, Creates, Turns, Deleting, Provisioning

LEMMA NextPassed == ASSUME PassedInv, ClaimStep PROVE PassedInv'
<1>1. CASE pc' \notin Deleting
  BY <1>1 DEF PassedInv, Deleting
<1>2. CASE mem' = mem /\ pc' = pc
  BY <1>2 DEF PassedInv, isConditionTrue
<1>3. CASE Moves
  BY <1>3 DEF Moves, PassedInv, isConditionTrue
<1>4. QED BY <1>1, <1>2, <1>3, IntoDeleting

LEMMA NextDeleting ==
    ASSUME TypeOK, DeletionInv, "unlabel" \notin Upsets, VersionsInv, DeletingInv,
           [Next]_vars, ClaimStep
    PROVE  DeletingInv'
<1>1. CASE mem' = mem /\ pc' = pc /\ pc \in Deleting
  <2>1. pc \notin Provisioning
    BY <1>1 DEF Deleting, Provisioning
  <2>2. QED BY <1>1, <2>1, StaysAccepted, NextPassed DEF DeletingInv, Confirmed, isConditionTrue
<1>2. CASE Moves /\ pc' \in Deleting
  <2>1. mem' = mem
    BY <1>2 DEF Moves
  <2>2. pc \notin Provisioning
    <3>1. pc \in Cleaning \/ mem.del
      BY <1>2 DEF Moves, Cleaning
    <3>2. pc \in Provisioning => ~mem.del /\ pc \notin Cleaning
      BY DEF DeletionInv, PassInv, Provisioning, Cleaning, Deleting
    <3>3. QED BY <3>1, <3>2
  <2>3. Confirmed(mem)
    BY <1>2 DEF Moves, DeletingInv
  <2>4. Confirmed(mem)'
    BY <2>1, <2>2, <2>3, StaysAccepted DEF Confirmed, isConditionTrue
  <2>5. QED BY <2>4, NextPassed DEF DeletingInv
<1>3. QED BY <1>1, <1>2, IntoDeleting, NextPassed DEF DeletingInv

\* The versions of the pass in the middle of the cleanup.
LEMMA CacheSeesAll ==
    ASSUME VersionsInv, FurtherInv, CommitInv, NEW t \in Stages, cache.cond[t] = "Deleted", fsc.exists
    PROVE  fsc.cond[t] = "Deleted"
<1>1. Requested(cache)
  BY CondNames DEF VersionsInv, ToldInv, Told
<1>2. QED BY <1>1 DEF FurtherInv, Further, isConditionTrue, TrueReasons

LEMMA NextCommit ==
    ASSUME TypeOK, DeletionInv, Undisturbed, VersionsInv, FurtherInv, DeletingInv, CommitInv,
           [Next]_vars, ClaimStep
    PROVE  CommitInv'
<1>1. SUFFICES ASSUME NEW d \in Stages, fsc'.cond[d] = "Deleted"
               PROVE  Committed(cache)' /\ (pc' # "idle" => Committed(mem)')
  BY DEF CommitInv
<1>2. fsc.cond[d] = "Deleted" \/ cache.cond[d] = "Deleted" \/ StageWrite(d)
  BY <1>1, DeletedFrom, CondNames
<1>3. pc \notin Provisioning
  <2>1. StageWrite(d) => pc \notin Provisioning
    BY DEF StageWrite, StageDone, Provisioning
  <2>2. QED BY <1>2, <2>1, NoneRequested, CondNames
<1>4. LossAccepted => LossAccepted'
  BY <1>3, StaysAccepted DEF Undisturbed
<1>5. EnvOK
  BY TypeParts
<1>6. CASE fsc'.cond = fsc.cond /\ cache' = cache
  <2>1. Committed(cache) /\ (pc # "idle" => Committed(mem))
    BY <1>1, <1>6 DEF CommitInv
  <2>2. Committed(cache)'
    BY <1>4, <1>6, <2>1 DEF Committed, Requested, Confirmed, NextUp, isConditionTrue
  <2>3. CASE mem' = mem /\ pc # "idle"
    BY <1>4, <1>6, <2>1, <2>2, <2>3 DEF Committed, Requested, Confirmed, NextUp, isConditionTrue
  <2>4. CASE mem' = cache
    BY <1>4, <1>6, <2>1, <2>2, <2>4 DEF Committed, Requested, Confirmed, NextUp, isConditionTrue
  <2>5. (mem' = mem /\ pc # "idle") \/ mem' = cache \/ pc' = "idle"
    BY DEF ClaimStep, Still, Syncs, Starts, Moves, Ends, Ended, MarkWrite, BlockWrite,
           StageWrite, ProvisionWrite, Writes, Creates, Turns
  <2>6. QED BY <2>2, <2>3, <2>4, <2>5
<1>7. CASE fsc' = fsc /\ cache' = fsc /\ ((mem' = mem /\ pc' = pc) \/ pc' = "idle")
  <2>1. Committed(cache) /\ (pc # "idle" => Committed(mem))
    BY <1>1, <1>7 DEF CommitInv
  <2>2. Requested(fsc) /\ fsc.exists
    <3>1. Requested(fsc)
      BY <1>1, <1>7, CondNames DEF VersionsInv, ToldInv, Told
    <3>2. QED BY <3>1, NothingTold DEF VersionsInv, BornInv, Blank
  <2>3. isConditionTrue(fsc, "FileSystemCreated") => isConditionTrue(cache, "FileSystemCreated")
    BY <2>1, <2>2 DEF Committed, FurtherInv, Further, Stages, isConditionTrue, TrueReasons
  <2>4. Committed(cache)'
    BY <1>4, <1>7, <2>1, <2>2, <2>3
    DEF Committed, Requested, Confirmed, NextUp, isConditionTrue
  <2>5. pc' # "idle" => Committed(mem)'
    BY <1>4, <1>7, <2>1 DEF Committed, Requested, Confirmed, NextUp, isConditionTrue
  <2>6. QED BY <2>4, <2>5
<1>8. CASE MarkWrite \/ BlockWrite
  <2>1. cache' = cache /\ pc' = "idle" /\ fsc.exists
    BY <1>8 DEF MarkWrite, BlockWrite, Writes, Ended
  <2>2. \A t \in Stages : fsc'.cond[t] = cache.cond[t]
    <3>1. PICK b \in {"Ready", "DeletionBlocked"}, r \in Reasons :
            fsc'.cond = [cache.cond EXCEPT ![b] = r]
      BY <1>8 DEF MarkWrite, BlockWrite, Writes, Reasons
    <3>2. QED BY <1>5, <3>1, OneChanged, CondNames DEF Stages
  <2>3. fsc.cond[d] = "Deleted"
    BY <1>1, <2>1, <2>2, CacheSeesAll
  <2>4. Committed(cache)
    BY <2>3 DEF CommitInv
  <2>5. Requested(cache)' /\ Confirmed(cache)'
    BY <1>4, <2>1, <2>4 DEF Committed, Requested, Confirmed, isConditionTrue
  <2>6. NextUp(cache)'
    BY <2>1, <2>2 DEF NextUp
  <2>7. QED BY <2>1, <2>5, <2>6 DEF Committed
<1>9. CASE \E t \in Stages : StageWrite(t)
  <2>1. PICK t \in Stages : StageWrite(t)
    BY <1>9
  <2>2. /\ cache' = cache /\ pc' = "idle" /\ cache.exists /\ isConditionTrue(mem, t)
        /\ fsc'.cond = [cache.cond EXCEPT ![t] = "Deleted"]
    BY <2>1 DEF StageWrite, Writes, Ended
  <2>3. fsc'.cond[t] = "Deleted" /\ \A s \in Stages : s # t => fsc'.cond[s] = cache.cond[s]
    BY <1>5, <2>2, OneChanged, CondNames
  <2>4. Requested(mem) /\ Confirmed(mem)
    BY <2>1 DEF StageWrite, StageDone, VersionsInv, OrderInv, Cleaning, DeletingInv, Deleting
  <2>5. Requested(cache) /\ Further(mem, cache)
    BY <2>2, <2>4 DEF VersionsInv, MarkInv, FurtherInv
  <2>6. \A s \in Stages : isConditionTrue(cache, s) => isConditionTrue(mem, s)
    BY <2>5 DEF Further, isConditionTrue, TrueReasons
  <2>7. Requested(cache)' /\ Confirmed(cache)'
    <3>1. Confirmed(cache)
      BY <2>4, <2>6 DEF Confirmed, Stages
    <3>2. QED BY <1>4, <2>2, <2>5, <3>1 DEF Requested, Confirmed, isConditionTrue
  <2>8. \A s \in Before(t) : ~isConditionTrue(cache, s)
    <3>1. \A s \in Before(t) : ~isConditionTrue(mem, s)
      BY <2>1 DEF StageWrite, StageDone, DeletingInv, PassedInv, Before
    <3>2. QED BY <2>6, <3>1 DEF Before
  <2>9. cache.cond[t] = "Deleted" \/ isConditionTrue(cache, t)
    BY <2>2, <2>5 DEF Further, isConditionTrue
  <2>10. \A s \in Stages : fsc'.cond[s] = "Deleted" =>
            \/ cache.cond[s] = "Deleted"
            \/ isConditionTrue(cache, s) /\ \A u \in Before(s) : ~isConditionTrue(cache, u)
    BY <2>3, <2>8, <2>9
  <2>11. NextUp(cache)'
    BY <2>2, <2>10 DEF NextUp, isConditionTrue
  <2>12. QED BY <2>2, <2>7, <2>11 DEF Committed
<1>10. CASE Creates
  BY <1>1, <1>10, CondNames DEF Creates, NoConditions
<1>11. CASE Turns
  <2>1. Gone(fsc.uid).cond[d] # "Deleted"
    BY GoneSays, CondNames DEF NoConditions
  <2>2. QED BY <1>1, <1>6, <1>11, <2>1 DEF Turns
<1>12. CASE ProvisionWrite
  BY <1>3, <1>12 DEF ProvisionWrite
<1>13. CASE Still \/ Syncs \/ Starts \/ Moves \/ Ends
  BY <1>6, <1>7, <1>13 DEF Still, Syncs, Starts, Moves, Ends, Ended
<1>14. QED BY <1>8, <1>9, <1>10, <1>11, <1>12, <1>13 DEF ClaimStep

\* No write takes a recorded deletion back.
LEMMA RecordStays ==
    ASSUME TypeOK, DeletionInv, VersionsInv, FurtherInv, DeletingInv, CommitInv,
           pv = "none", FirstClaim', ClaimStep, NEW t \in CondTypes, fsc.cond[t] = "Deleted", fsc'.exists
    PROVE  fsc'.cond[t] = "Deleted"
<1>1. t \in Stages /\ Requested(fsc) /\ ClaimOK /\ EnvOK
  BY TypeParts DEF VersionsInv, ToldInv, Told
<1>2. Committed(cache) /\ (pc # "idle" => Committed(mem))
  BY <1>1 DEF CommitInv
<1>3. ~MarkWrite
  BY <1>2 DEF MarkWrite, Committed
<1>4. ~BlockWrite
  BY <1>2 DEF BlockWrite, Committed, Confirmed, LossAccepted, isStorageClassInUse
<1>5. CASE \E s \in Stages : StageWrite(s)
  <2>1. PICK s \in Stages : StageWrite(s)
    BY <1>5
  <2>2. /\ cache.exists /\ fsc.exists /\ isConditionTrue(mem, s)
        /\ fsc'.cond = [cache.cond EXCEPT ![s] = "Deleted"]
    BY <2>1 DEF StageWrite, Writes
  <2>3. fsc'.cond[s] = "Deleted" /\ \A u \in Stages : u # s => fsc'.cond[u] = cache.cond[u]
    BY <1>1, <2>2, OneChanged, CondNames
  <2>4. Requested(mem) /\ NextUp(mem)
    BY <1>2, <2>1 DEF StageWrite, StageDone, Committed
  <2>5. Further(mem, cache) /\ Further(mem, fsc)
    BY <2>2, <2>4 DEF FurtherInv
  <2>6. CASE t # s
    <3>1. t \in Before(s) \/ s \in Before(t)
      BY <1>1, <2>6 DEF Before, Stages
    <3>2. CASE t \in Before(s)
      <4>1. ~isConditionTrue(mem, t)
        BY <2>1, <3>2 DEF StageWrite, StageDone, DeletingInv, PassedInv, Before
      <4>2. mem.cond[t] = "Deleted" /\ cache.cond[t] = mem.cond[t]
        BY <1>1, <2>5, <4>1 DEF Further
      <4>3. QED BY <1>1, <2>3, <2>6, <4>2
    <3>3. CASE s \in Before(t)
      <4>1. mem.cond[t] = "Deleted"
        BY <1>1, <2>2, <2>4, <3>3 DEF NextUp
      <4>2. cache.cond[t] = "Deleted"
        BY <1>1, <2>5, <4>1 DEF Further
      <4>3. QED BY <1>1, <2>3, <2>6, <4>2
    <3>4. QED BY <3>1, <3>2, <3>3
  <2>7. QED BY <2>3, <2>6
<1>6. ~ProvisionWrite
  BY NoneRequested DEF ProvisionWrite
<1>7. ~Creates
  BY <1>1, FirstCreated DEF VersionsInv, MarkInv
<1>8. CASE Turns
  BY <1>8, GoneSays DEF Turns
<1>9. CASE Still \/ Syncs \/ Starts \/ Moves \/ Ends
  BY <1>9 DEF Still, Syncs, Starts, Moves, Ends
<1>10. QED BY <1>3, <1>4, <1>5, <1>6, <1>7, <1>8, <1>9 DEF ClaimStep

LEMMA NoVolumes == ASSUME Undisturbed, pv = "none", [Next]_vars PROVE pv' = "none"
<1>1. ~ProvisionVolume
  BY DEF ProvisionVolume, Upset, Undisturbed
<1>2. CASE UNCHANGED vars
  BY <1>2 DEF vars, envVars
<1>3. CASE Handler
  BY <1>3 DEF Handler, Reconcile, handleFinalizers, handleDeletion, checkStorageClassUsage,
        checkFilesystemDeletionLabel, deleteStorageClass, deleteFilesystem, deleteLocalDisks,
        removeFinalizer, ensureLocalDisks, createLocalDisk, recordLocalDisk, endLocalDisks,
        syncLocalDiskConditions, ensureFileSystem, recordFileSystem,
        syncFilesystemConditions, ensureStorageClass, recordStorageClass, syncFSCReady, envVars
<1>4. CASE ~Handler /\ Next
  BY <1>1, <1>4
  DEF Next, ApiError, Crash, InformerSync, TimerFires, Resync, User, CreateClaim,
      DeleteClaim, ReleaseHold, ValidateUpdate, LabelFilesystem, ReleaseVolume, Tamper,
      Rediscover, Scale, ScaleLocalDisk, ScaleFilesystem, ScaleRemoves, GarbageCollect, envVars
<1>5. QED BY <1>2, <1>3, <1>4

\* A deletion once recorded stays in the status as long as the claim, although later
\* writes are computed from a cache that may not have it: when nobody takes volumes
\* from the class or the label from the filesystem, a pass whose cache lags by any
\* number of versions records the very stage it lags behind, and nothing else.
THEOREM RecordedDeletionsStay ==
    ASSUME OneClaim, Undisturbed PROVE Spec => CleanupNeverUndone
<1> DEFINE StagesInv == FurtherInv /\ DeletingInv /\ CommitInv /\ pv = "none"
<1>1. Init => StagesInv
  <2>1. ASSUME Init PROVE StagesInv
    <3>1. /\ fsc = Gone(0) /\ cache = Gone(0) /\ mem = Gone(0) /\ pc = "idle" /\ pv = "none"
      BY <2>1 DEF Init
    <3>2. fsc.cond = NoConditions /\ ~Requested(mem) /\ ~Requested(cache)
      BY <3>1, GoneSays
    <3>3. \A t \in Stages : fsc.cond[t] # "Deleted"
      BY <3>2, CondNames DEF NoConditions
    <3>4. QED BY <3>1, <3>2, <3>3 DEF FurtherInv, DeletingInv, PassedInv, CommitInv, Deleting
  <2>2. QED BY <2>1
<1>2. TypeOK /\ TypeOK' /\ DeletionInv /\ VersionsInv /\ StagesInv /\ [Next]_vars => StagesInv'
  <2>1. SUFFICES ASSUME TypeOK, TypeOK', DeletionInv, VersionsInv, StagesInv, [Next]_vars
                 PROVE  StagesInv'
    OBVIOUS
  <2>2. ClaimStep
    BY <2>1, StepShape
  <2>3. "unlabel" \notin Upsets
    BY DEF Undisturbed
  <2>4. FurtherInv' /\ DeletingInv' /\ CommitInv'
    BY <2>1, <2>2, <2>3, OnlyClaim, NextFurther, NextDeleting, NextCommit
  <2>5. QED BY <2>1, <2>4, NoVolumes
<1>3. TypeOK /\ TypeOK' /\ DeletionInv /\ VersionsInv /\ StagesInv /\ [Next]_vars =>
        [\A t \in CondTypes : fsc.cond[t] = "Deleted" /\ fsc.fin /\ fsc'.exists
                                 => fsc'.cond[t] = "Deleted"]_vars
  BY StepShape, RecordStays, OnlyClaim
<1> HIDE DEF StagesInv
<1>4. QED BY <1>1, <1>2, <1>3, VersionsAgree, PTL DEF Spec, CleanupNeverUndone

----------------------------------------------------------------------------
(* A name used for a second claim: a pass over the first, late or repeated *)
(* from a stale cache, has nothing left to delete.                         *)

\* Nothing is left to delete according to the version.
Spent(c) == \A t \in Stages : ~isConditionTrue(c, t)

FirstGone == fsc.uid = 2 \/ (fsc.uid = 1 /\ ~fsc.exists)

SpareInv ==
    /\ BornInv /\ cache.uid <= fsc.uid /\ mem.uid <= fsc.uid
    /\ pc \in Cleaning => mem.del
    /\ FirstClaim => VersionsInv /\ FurtherInv
    /\ FirstGone => (cache.uid = 1 /\ cache.del => Spent(cache)) /\ (mem.uid = 1 /\ mem.del => Spent(mem))
    /\ cache.uid = 2 /\ cache.del => Away(fsc)
    /\ mem.uid = 2 /\ mem.del => Away(fsc)

LEMMA NextBorn == ASSUME ClaimOK, BornInv, ClaimStep PROVE BornInv'
<1>1. fsc.uid \in Nat
  BY Bounds DEF ClaimOK, Claims
<1>2. CASE Still \/ Syncs \/ Starts \/ Moves \/ Ends
  BY <1>2 DEF Still, Syncs, Starts, Moves, Ends, Ended, BornInv, Blank
<1>3. CASE Creates
  <2>1. fsc'.uid # 0
    BY <1>1, <1>3 DEF Creates
  <2>2. QED BY <1>3, <2>1 DEF Creates, BornInv, Blank
<1>4. CASE Turns
  <2>1. Blank(fsc)' /\ (fsc'.exists => fsc'.uid = fsc.uid)
    BY <1>4, GoneSays DEF Turns, Blank
  <2>2. QED BY <1>4, <2>1 DEF Turns, Ended, BornInv, Blank
<1>5. ASSUME NEW cs, Writes(cs) PROVE BornInv'
  BY <1>5 DEF Writes, Ended, BornInv, Blank
<1>6. QED
  BY <1>2, <1>3, <1>4, <1>5
  DEF ClaimStep, MarkWrite, BlockWrite, StageWrite, ProvisionWrite

\* A claim stays what it is until it is gone; only then there is another.
LEMMA NextUid ==
    ASSUME ClaimOK, ClaimStep
    PROVE  /\ fsc'.uid \in {fsc.uid, fsc.uid + 1}
           /\ fsc'.uid # fsc.uid => Creates
           /\ fsc'.uid = fsc.uid => (Away(fsc) => Away(fsc)')
<1>1. fsc.uid \in Nat
  BY Bounds DEF ClaimOK, Claims
<1>2. CASE Still \/ Syncs \/ Starts \/ Moves \/ Ends
  BY <1>2 DEF Still, Syncs, Starts, Moves, Ends, Away
<1>3. CASE Creates
  BY <1>1, <1>3 DEF Creates
<1>4. CASE Turns
  BY <1>4, GoneSays DEF Turns, Away
<1>5. ASSUME NEW cs, Writes(cs) PROVE fsc'.uid = fsc.uid /\ (Away(fsc) => Away(fsc)')
  BY <1>5 DEF Writes, Away
<1>6. QED
  BY <1>2, <1>3, <1>4, <1>5
  DEF ClaimStep, MarkWrite, BlockWrite, StageWrite, ProvisionWrite

\* Where the cache and the pass's copy come from.
LEMMA CopiesFrom ==
    ASSUME ClaimStep
    PROVE  /\ cache' = cache \/ (cache' = fsc /\ fsc' = fsc)
           /\ mem' \in {mem, Gone(0)} \/ (mem' = cache /\ cache' = cache /\ fsc' = fsc)
  BY DEF ClaimStep, Still, Syncs, Starts, Moves, Ends, Ended, MarkWrite, BlockWrite, StageWrite,
         ProvisionWrite, Writes, Creates, Turns

LEMMA NextCleaning ==
    ASSUME pc \in Cleaning => mem.del, ClaimStep PROVE (pc \in Cleaning => mem.del)'
<1>1. CASE pc' \notin Cleaning
  BY <1>1
<1>2. CASE Moves
  BY <1>2 DEF Moves
<1>3. pc' \notin Cleaning \/ (mem' = mem /\ pc' = pc) \/ Moves
  BY DEF ClaimStep, Still, Syncs, Starts, Ends, Ended, MarkWrite, BlockWrite, StageWrite,
         ProvisionWrite, Writes, Creates, Turns, Cleaning, Deleting, Provisioning
<1>4. QED BY <1>1, <1>2, <1>3

\* When a claim goes, no version of it that is being deleted has anything left to delete.
LEMMA SpentAtLast ==
    ASSUME VersionsInv, FurtherInv, PassedInv, Turns, fsc' = Gone(fsc.uid)
    PROVE  (cache.del => Spent(cache)) /\ (mem'.del => FALSE)
<1>1. CASE ~fsc.del /\ ~(pc = "removeFinalizer" /\ Ended)
  <2>1. ~mem.del /\ ~cache.del
    BY <1>1 DEF Turns, VersionsInv, OrderInv, Away
  <2>2. QED BY <1>1, <2>1, GoneSays DEF Turns, Ended
<1>2. CASE pc = "removeFinalizer" /\ Ended
  <2>1. Requested(mem) /\ Spent(mem)
    BY <1>2 DEF VersionsInv, OrderInv, Cleaning, Deleting, PassedInv, Spent, Stages
  <2>2. cache.del => cache.exists
    BY DEF VersionsInv, BornInv, Blank
  <2>3. cache.del => Spent(cache)
    BY <2>1, <2>2 DEF FurtherInv, Further, Spent, isConditionTrue
  <2>4. QED BY <1>2, <2>3, GoneSays DEF Ended
<1>3. QED BY <1>1, <1>2, GoneSays DEF Turns

LEMMA NextSpare ==
    ASSUME TypeOK, TypeOK', DeletionInv, MaxClaims <= 2, PassedInv, SpareInv, ClaimStep
    PROVE  SpareInv'
<1>1. ClaimOK
  BY TypeParts
<1>2. /\ fsc.uid \in 0..2 /\ cache.uid \in 0..2 /\ mem.uid \in 0..2
      /\ fsc'.uid \in 0..2 /\ Gone(0).uid = 0 /\ ~Gone(0).del
  <2>1. fsc.uid \in 0..MaxClaims /\ cache.uid \in 0..MaxClaims /\ mem.uid \in 0..MaxClaims
        /\ fsc'.uid \in 0..MaxClaims
    BY DEF TypeOK, Claims
  <2>2. QED BY <2>1, Bounds, GoneSays
<1>3. /\ fsc'.uid \in {fsc.uid, fsc.uid + 1} /\ (fsc'.uid # fsc.uid => Creates)
      /\ (fsc'.uid = fsc.uid => (Away(fsc) => Away(fsc)'))
  BY <1>1, NextUid
<1>4. /\ (cache' = cache \/ (cache' = fsc /\ fsc' = fsc))
      /\ (mem' \in {mem, Gone(0)} \/ (mem' = cache /\ cache' = cache /\ fsc' = fsc))
  BY CopiesFrom
<1>5. BornInv' /\ (pc \in Cleaning => mem.del)'
  BY <1>1, NextBorn, NextCleaning DEF SpareInv
<1>6. cache'.uid <= fsc'.uid /\ mem'.uid <= fsc'.uid
  <2>1. cache.uid <= fsc.uid /\ mem.uid <= fsc.uid
    BY DEF SpareInv
  <2>2. QED BY <1>2, <1>3, <1>4, <2>1
<1>7. (FirstClaim => VersionsInv /\ FurtherInv)'
  <2>1. FirstClaim' => FirstClaim
    BY <1>2, <1>3 DEF FirstClaim
  <2>2. QED BY <2>1, NextVersions, NextFurther DEF SpareInv
<1>8. (FirstGone => (cache.uid = 1 /\ cache.del => Spent(cache))
                    /\ (mem.uid = 1 /\ mem.del => Spent(mem)))'
  <2>1. CASE FirstGone
    <3>1. (cache.uid = 1 /\ cache.del => Spent(cache)) /\ (mem.uid = 1 /\ mem.del => Spent(mem))
      BY <2>1 DEF SpareInv
    <3>2. ~(fsc.uid = 1 /\ fsc.del)
      BY <2>1 DEF FirstGone, SpareInv, BornInv, Blank
    <3>3. (cache'.uid = 1 /\ cache'.del) => Spent(cache)'
      BY <1>4, <3>1, <3>2 DEF Spent, isConditionTrue
    <3>4. (mem'.uid = 1 /\ mem'.del) => Spent(mem)'
      BY <1>2, <1>4, <3>1 DEF Spent, isConditionTrue
    <3>5. QED BY <3>3, <3>4
  <2>2. CASE ~FirstGone /\ FirstGone'
    <3>1. ~Creates
      <4>1. ASSUME Creates PROVE FALSE
        <5>1. fsc'.uid = fsc.uid + 1 /\ ~fsc.exists /\ fsc'.exists
          BY <4>1 DEF Creates
        <5>2. fsc'.uid = 2
          BY <2>2, <5>1 DEF FirstGone
        <5>3. fsc.uid = 1
          BY <1>2, <5>1, <5>2
        <5>4. QED BY <2>2, <5>1, <5>3 DEF FirstGone
      <4>2. QED BY <4>1
    <3>2. fsc.uid = 1 /\ fsc.exists /\ ~fsc'.exists
      BY <1>3, <2>2, <3>1 DEF FirstGone
    <3>3. Turns /\ fsc' = Gone(fsc.uid)
      BY <3>1, <3>2 DEF ClaimStep, Still, Syncs, Starts, Moves, Ends, MarkWrite, BlockWrite,
                        StageWrite, ProvisionWrite, Writes, Turns
    <3>4. VersionsInv /\ FurtherInv
      BY <3>2 DEF SpareInv, FirstClaim
    <3>5. (cache.del => Spent(cache)) /\ ~mem'.del /\ cache' = cache
      BY <3>3, <3>4, SpentAtLast DEF Turns
    <3>6. QED BY <3>5 DEF Spent, isConditionTrue
  <2>3. QED BY <2>1, <2>2
<1>9. (cache'.uid = 2 /\ cache'.del => Away(fsc)') /\ (mem'.uid = 2 /\ mem'.del => Away(fsc)')
  <2>1. CASE fsc'.uid # fsc.uid
    <3>1. fsc.uid # 2 /\ UNCHANGED <<cache, mem>>
      BY <1>2, <1>3, <2>1 DEF Creates
    <3>2. cache.uid # 2 /\ mem.uid # 2
      BY <1>2, <3>1 DEF SpareInv
    <3>3. QED BY <3>1, <3>2
  <2>2. CASE fsc'.uid = fsc.uid
    <3>1. (cache.uid = 2 /\ cache.del => Away(fsc)) /\ (mem.uid = 2 /\ mem.del => Away(fsc))
      BY DEF SpareInv
    <3>2. cache'.uid = 2 /\ cache'.del => Away(fsc)
      BY <1>4, <3>1 DEF Away
    <3>3. mem'.uid = 2 /\ mem'.del => Away(fsc)
      BY <1>2, <1>4, <3>1
    <3>4. QED BY <1>3, <2>2, <3>2, <3>3
  <2>3. QED BY <2>1, <2>2
<1>10. QED BY <1>5, <1>6, <1>7, <1>8, <1>9 DEF SpareInv

\* A deleting handler that finds nothing left to delete in its copy deletes nothing.
LEMMA SparesWhenSpent ==
    ASSUME TypeOK, [Next]_vars, pc' = "idle", pc \in Deleting, Spent(mem)
    PROVE  UNCHANGED childVars
<1>1. \A t \in Stages : ~isConditionTrue(mem, t)
  BY DEF Spent
<1>2. ~isConditionTrue(mem, "StorageClassCreated") /\ ~isConditionTrue(mem, "FileSystemCreated")
      /\ ~isConditionTrue(mem, "LocalDiskCreated")
  BY <1>1 DEF Stages
<1>3. ~deleteStorageClass /\ ~deleteFilesystem /\ ~deleteLocalDisks
  BY <1>2 DEF deleteStorageClass, deleteFilesystem, deleteLocalDisks, Goto
<1>4. pc # "idle" /\ pc \notin Provisioning
  BY DEF Deleting, Provisioning
<1>5. CASE Handler
  BY <1>3, <1>4, <1>5
  DEF Handler, Reconcile, handleFinalizers, handleDeletion, checkStorageClassUsage,
      checkFilesystemDeletionLabel, removeFinalizer, ensureLocalDisks, createLocalDisk,
      recordLocalDisk, endLocalDisks, syncLocalDiskConditions, ensureFileSystem,
      recordFileSystem, syncFilesystemConditions, ensureStorageClass, recordStorageClass,
      syncFSCReady, Provisioning
<1>6. CASE ApiError \/ Crash
  BY <1>6 DEF ApiError, Crash
<1>7. CASE UNCHANGED pc
  BY <1>4, <1>7
<1>8. QED
  <2>1. CASE UNCHANGED vars
    BY <1>7, <2>1 DEF vars, passVars
  <2>2. CASE ~Handler /\ ~ApiError /\ ~Crash /\ Next
    BY <1>7, <2>2
    DEF Next, InformerSync, TimerFires, Resync, User, CreateClaim, DeleteClaim, ReleaseHold,
        ValidateUpdate, LabelFilesystem, ProvisionVolume, ReleaseVolume, Tamper, Rediscover,
        Scale, ScaleLocalDisk, ScaleFilesystem, ScaleRemoves, GarbageCollect, passVars
  <2>3. QED BY <1>5, <1>6, <2>1, <2>2

\* When a name is used for a second claim, late and repeated passes over the first,
\* from caches that still hold it, delete nothing of the second: the versions of the
\* first claim that are left have recorded that everything is deleted.
THEOREM SuccessorIsSpared ==
    ASSUME MaxClaims <= 2, Holds \subseteq {FALSE} PROVE Spec => DeletesOnlyForDeletedClaim
<1>1. Init => DeletionInv /\ PassedInv /\ SpareInv
  <2>1. ASSUME Init PROVE DeletionInv /\ PassedInv /\ SpareInv
    <3>1. fsc = Gone(0) /\ cache = Gone(0) /\ mem = Gone(0) /\ pc = "idle"
      BY <2>1 DEF Init
    <3>2. DeletionInv /\ PassedInv
      BY <3>1, GoneFinalized DEF DeletionInv, PassInv, Provisioning, PassedInv
    <3>3. VersionsInv /\ FurtherInv
      BY <2>1, <3>1, InitVersions, GoneSays DEF FurtherInv
    <3>4. Gone(0).uid = 0 /\ ~Gone(0).del
      BY GoneSays
    <3>5. QED BY <3>1, <3>2, <3>3, <3>4
              DEF SpareInv, VersionsInv, FirstGone, Cleaning, Deleting
  <2>2. QED BY <2>1
<1>2. TypeOK /\ TypeOK' /\ DeletionInv /\ PassedInv /\ SpareInv /\ [Next]_vars
        => DeletionInv' /\ PassedInv' /\ SpareInv'
  BY NextInv, StepShape, NextPassed, NextSpare
<1>3. TypeOK /\ DeletionInv /\ PassedInv /\ SpareInv /\ [Next]_vars =>
        [pc' = "idle" /\ fsc.exists /\ ~fsc.del =>
            /\ pc = "deleteStorageClass" => sc' = sc
            /\ pc = "deleteFilesystem" => fs' = fs
            /\ pc = "deleteLocalDisks" => ld' = ld]_vars
  <2>1. SUFFICES ASSUME TypeOK, SpareInv, [Next]_vars, pc' = "idle", fsc.exists, ~fsc.del,
                        pc \in Deleting
                 PROVE  UNCHANGED childVars
    BY DEF childVars, Deleting
  <2>2. mem.del /\ mem.uid # 0 /\ fsc.uid # 0
    BY <2>1 DEF SpareInv, BornInv, Cleaning, Deleting
  <2>3. fsc.uid \in 0..2 /\ mem.uid \in 0..2
    BY <2>1, Bounds DEF TypeOK, Claims
  <2>4. CASE fsc.uid = 1
    BY <2>1, <2>2, <2>4 DEF SpareInv, FirstClaim, VersionsInv, OrderInv, Away
  <2>5. CASE fsc.uid = 2
    <3>1. mem.uid # 2
      BY <2>1, <2>2 DEF SpareInv, Away
    <3>2. mem.uid = 1
      BY <2>2, <2>3, <3>1
    <3>3. Spent(mem)
      BY <2>1, <2>2, <2>5, <3>2 DEF SpareInv, FirstGone
    <3>4. QED BY <2>1, <3>3, SparesWhenSpent
  <2>6. QED BY <2>2, <2>3, <2>4, <2>5
<1>4. QED BY <1>1, <1>2, <1>3, TypeCorrect, PTL DEF Spec, DeletesOnlyForDeletedClaim
=============================================================================
