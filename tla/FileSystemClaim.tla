--------------------------- MODULE FileSystemClaim ---------------------------
(***************************************************************************)
(* The FileSystemClaim controller of the Fusion Access operator:           *)
(* internal/controller/filesystemclaim/filesystemclaim_controller.go.      *)
(*                                                                         *)
(* One claim is provisioned as LocalDisks, then one Filesystem, then one   *)
(* StorageClass, and taken down in the opposite order.  The controller is  *)
(* a single worker.  A pass (Reconcile) copies the claim from the informer *)
(* cache and runs its handlers in a fixed order; every handler that writes *)
(* ends the pass.  Each handler up to its next write is one action here,   *)
(* so that crashes, failed calls, users, the garbage collector and the     *)
(* Storage Scale operator act between any two of them.                     *)
(***************************************************************************)
EXTENDS Naturals, FiniteSets, Sequences

CONSTANTS
    Devices,      \* device paths
    Wwns,         \* disk identities; a LocalDisk is named after its WWN
    Nodes,        \* nodes labelled worker and storage, at least one
    DeviceLists,  \* the values users give spec.devices
    Discoveries,  \* contents the LocalVolumeDiscoveryResults may have
    Preexisting,  \* WWNs that already have a LocalDisk no claim owns
    MaxClaims,    \* claims created one after the other under the same name
    Holds,        \* may a claim carry a second finalizer, not the operator's?
    Upsets,       \* kinds of disturbance the environment may cause
    MaxUpsets,    \* how many of them
    FaultKinds,   \* kinds of failure the controller may suffer
    MaxFaults,    \* how many of them
    PromptInformer  \* does a pass start only when the cache is up to date?

NoDisk == "no disk"          \* the node does not report the path
BadName == "bad name"        \* reported with a WWN that is no object name
NoNode == "no node"

ASSUME ConstantsAssumption ==
    /\ DeviceLists \subseteq Seq(Devices)
    /\ Discoveries \subseteq [Nodes -> [Devices -> Wwns \cup {NoDisk, BadName}]]
    /\ Discoveries # {} /\ Nodes # {} /\ Preexisting \subseteq Wwns
    /\ NoDisk \notin Wwns /\ BadName \notin Wwns /\ NoNode \notin Nodes
    /\ Holds \subseteq BOOLEAN /\ PromptInformer \in BOOLEAN
    /\ MaxClaims \in Nat /\ MaxUpsets \in Nat /\ MaxFaults \in Nat

VARIABLES
    fsc,        \* the claim as the API server stores it
    dirty,      \* the API server holds a version the informer has not delivered
    cache,      \* the claim in the controller's informer cache
    queued,     \* the claim's key is in the work queue
    timer,      \* a RequeueAfter is pending
    pc,         \* the handler the current pass is in
    mem,        \* the pass's own copy of the claim, never refreshed
    todo,       \* devices the LocalDisk loop has still to visit
    node,       \* the storage node drawn for this pass
    ld,         \* the LocalDisk of each WWN
    fs,         \* the Filesystem named after the claim
    sc,         \* the StorageClass named after the claim
    pv,         \* a PersistentVolume of that class
    discovery,  \* what the nodes report
    faults, upsets

claimVars == <<fsc, dirty>>
passVars == <<queued, timer, pc, mem, todo, node>>
childVars == <<ld, fs, sc>>
envVars == <<cache, pv, discovery, upsets>>
vars == <<claimVars, passVars, childVars, envVars, faults>>

----------------------------------------------------------------------------
(* Conditions.  A condition is named by its reason; where the code writes  *)
(* one reason with several messages and so sees a change, by its message.  *)

CondTypes == {"DeviceValidated", "LocalDiskCreated", "FileSystemCreated",
              "StorageClassCreated", "DeletionBlocked", "Ready"}

TrueReasons == {"Succeeded", "Created", "Present", "StorageClassInUse",
                "FileSystemLabelNotPresent", "MigrationComplete"}
InProgress == {"Creating", "Waiting", "NotReady"}
Reasons == TrueReasons \cup InProgress \cup
    {"None", "Failed", "UsedElsewhere", "Deleted", "ValidationFailed",
     "DeletionRequested", "ImmutableFieldModified", "Provisioning"}

NoConditions == [t \in CondTypes |-> "None"]

Claims == [exists: BOOLEAN, uid: 0..MaxClaims, del: BOOLEAN, fin: BOOLEAN,
           hold: BOOLEAN, devices: DeviceLists \cup {<<>>},
           cond: [CondTypes -> Reasons]]

\* No claim of that name; u claims have been there before.
Gone(u) == [exists |-> FALSE, uid |-> u, del |-> FALSE, fin |-> FALSE,
            hold |-> FALSE, devices |-> <<>>, cond |-> NoConditions]

\* Mistake: only the reasons a condition first became True with count.
isConditionTrue_FirstReason(claim, t) == claim.cond[t] \in {"Succeeded", "Created"}

isConditionTrue(claim, t) == claim.cond[t] \in TrueReasons

----------------------------------------------------------------------------
(* The claim's objects.                                                    *)

LDStates == {"absent", "new", "notready", "ready", "used", "foreign"}
FSStates == {"absent", "new", "healthy", "unhealthy"}
SCStates == {"absent", "ours", "drifted", "stripped"}
PVStates == {"none", "Bound", "Released", "Deleting"}

LocalDisks == [st: LDStates, dev: Devices \cup {NoDisk}, own: 0..MaxClaims,
               del: BOOLEAN]
Filesystems == [st: FSStates, disks: SUBSET Wwns, own: 0..MaxClaims,
                del: BOOLEAN, label: BOOLEAN]

NoLD == [st |-> "absent", dev |-> NoDisk, own |-> 0, del |-> FALSE]
NoFS == [st |-> "absent", disks |-> {}, own |-> 0, del |-> FALSE, label |-> FALSE]

\* listOwnedResources: ownership is by the claim's name, not by its UID.
OwnedLDs == {w \in Wwns : ld[w].st # "absent" /\ ld[w].own # 0}
FSExists == fs.st # "absent"
OwnedFS_IgnoresTerminating == FSExists /\ fs.own # 0 /\ ~fs.del  \* mistake
OwnedFS == FSExists /\ fs.own # 0

OwnedDevices == {ld[w].dev : w \in OwnedLDs}
SpecDevices(claim) == {claim.devices[i] : i \in DOMAIN claim.devices}

\* Are there LocalDisks for the devices of the spec and no others?
SameDevices_Counted(claim) ==  \* mistake: none at all is the only difference seen
    (OwnedDevices = {}) <=> (SpecDevices(claim) = {})
SameDevices(claim) == OwnedDevices = SpecDevices(claim)

\* isStorageClassInUse: bound and released volumes block, deleting ones do not.
isStorageClassInUse_BoundOnly == pv = "Bound"  \* mistake: released volumes hold data
isStorageClassInUse == pv \in {"Bound", "Released"}

\* validateDevices: every storage node reports every path of the claim.
validateDevices(claim) ==
    \A d \in SpecDevices(claim), n \in Nodes : discovery[n][d] # NoDisk

\* getDeviceWWN, generateLocalDiskName: the disk behind a path on the drawn node,
\* no member of Wwns when there is none or its WWN cannot name an object.
getDeviceWWN(d) == discovery[node][d]

\* checkAllResourcesHealthy over LocalDisks: which of the owned ones fail.
Failing_NotUnused == {w \in OwnedLDs : ld[w].st # "ready"}  \* mistake: a disk in use is fine
Failing == {w \in OwnedLDs : ld[w].st \notin {"ready", "used"}}

----------------------------------------------------------------------------
(* Control of a pass.                                                      *)

Goto(l) ==
    /\ pc' = l
    /\ UNCHANGED <<claimVars, queued, timer, mem, todo, node>>

\* The pass is over; the key goes back to the queue, now or after a delay.
EndPass(requeue, delay) ==
    /\ pc' = "idle" /\ mem' = Gone(0) /\ todo' = <<>> /\ node' = NoNode
    /\ queued' = (queued \/ requeue)
    /\ timer' = (timer \/ delay)

Return == EndPass(FALSE, FALSE) /\ UNCHANGED claimVars
Requeue == EndPass(TRUE, FALSE) /\ UNCHANGED claimVars

\* patchFSCStatus: the new list of conditions is computed from the cached claim
\* and replaces the stored list; it is an empty patch when only the timestamp
\* would change and the second has not.
StatusPatch(new) ==
    /\ cache.exists /\ fsc.exists
    /\ \/ fsc' = [fsc EXCEPT !.cond = new] /\ dirty' = TRUE
       \/ new = cache.cond /\ UNCHANGED claimVars

\* The patch finds no claim to read or to write.
NotFound == ~(cache.exists /\ fsc.exists)

\* A status write that ends the pass.
patchFSCStatus(new, delay) ==
    \/ StatusPatch(new) /\ EndPass(FALSE, delay)
    \/ NotFound /\ Requeue

\* patchFSCSpec: the operator's finalizer is added (f) or removed; the new list of
\* finalizers, computed from the cached claim, replaces the stored one.  A claim
\* being deleted takes no new finalizer and disappears with the last one.
patchFSCSpec(f) ==
    LET refused == fsc.del /\ ((f /\ ~fsc.fin) \/ (cache.hold /\ ~fsc.hold))
        last == fsc.del /\ ~f /\ ~cache.hold
        new == IF last THEN Gone(fsc.uid) ELSE [fsc EXCEPT !.fin = f, !.hold = cache.hold]
    IN  \/ NotFound /\ Requeue
        \/ ~NotFound /\ cache.fin = f /\ Return
        \/ ~NotFound /\ cache.fin # f /\ refused /\ Requeue
        \/ /\ ~NotFound /\ cache.fin # f /\ ~refused
           /\ fsc' = new /\ dirty' = (dirty \/ new # fsc)
           /\ EndPass(FALSE, FALSE)

\* updateConditionIfChanged: the comparison is with the pass's own copy.
Unchanged(t, r) ==
    \/ mem.cond[t] = r
    \/ mem.cond[t] = "MigrationComplete" /\ r \in TrueReasons

\* Either nothing changes and the pass goes on, or a write ends it.
updateConditionIfChanged(t, r, otherwise) ==
    \/ Unchanged(t, r) /\ otherwise
    \/ ~Unchanged(t, r) /\ patchFSCStatus([cache.cond EXCEPT ![t] = r], FALSE)

\* The same, where the pass ends with a delayed retry in both cases.
\* Mistake: the blocked pass asks for no retry.
BlockDeletion_NoRetry(r) ==
    updateConditionIfChanged("DeletionBlocked", r, Return)

BlockDeletion(r) ==
    \/ Unchanged("DeletionBlocked", r) /\ EndPass(FALSE, TRUE) /\ UNCHANGED claimVars
    \/ /\ ~Unchanged("DeletionBlocked", r)
       /\ patchFSCStatus([cache.cond EXCEPT !["DeletionBlocked"] = r], TRUE)

\* Mistake: a reason outside the documented set.
handleResourceCreationError_BadReason(t) ==
    patchFSCStatus([cache.cond EXCEPT ![t] = "CreationError", !["Ready"] = "Failed"], FALSE)

handleResourceCreationError(t) ==
    patchFSCStatus([cache.cond EXCEPT ![t] = "Failed", !["Ready"] = "Failed"], FALSE)

handleValidationError ==
    patchFSCStatus([cache.cond EXCEPT !["Ready"] = "ValidationFailed",
                                      !["DeviceValidated"] = "Failed"], FALSE)

\* createResourceWithOwnership: the owner is the claim the pass has copied.
NewLocalDisk(d) == [st |-> "new", dev |-> d, own |-> mem.uid, del |-> FALSE]
NewFilesystem(disks) ==
    [st |-> "new", disks |-> disks, own |-> mem.uid, del |-> FALSE, label |-> FALSE]

\* markDeletionRequested
markDeletionRequested(next) ==
    updateConditionIfChanged("Ready", "DeletionRequested", Goto(next))

\* didStorageClassChange, enqueueFSCByStorageClass: updates and deletions of a class
\* that carries the claim's labels are events for it.
enqueueFSCByStorageClass(class) == class # "stripped"

\* didResourceStatusChange, enqueueFSCByOwner: a status update of an owned object is
\* an event for its claim; its creation and its deletion are not.
enqueueFSCByOwner(own) == own # 0

CanFail(kind) == kind \in FaultKinds /\ faults < MaxFaults

----------------------------------------------------------------------------
(* The handlers of Reconcile, in their order.                              *)

Reconcile ==
    /\ pc = "idle" /\ queued /\ (PromptInformer => ~dirty)
    /\ queued' = FALSE
    /\ \/ cache.exists /\ mem' = cache /\ pc' = "handleFinalizers"
       \/ ~cache.exists /\ UNCHANGED <<mem, pc>>
    /\ UNCHANGED <<claimVars, timer, todo, node, childVars, envVars, faults>>

handleFinalizers ==
    /\ pc = "handleFinalizers"
    /\ \/ (mem.del \/ mem.fin) /\ Goto("handleDeletion")
       \/ ~mem.del /\ ~mem.fin /\ patchFSCSpec(TRUE)
    /\ UNCHANGED <<childVars, envVars, faults>>

\* Mistake: once deletion is marked the pass goes on to provisioning.
handleDeletion_OnlyMarks ==
    /\ pc = "handleDeletion"
    /\ \/ ~(mem.del /\ mem.fin) /\ Goto("ensureLocalDisks")
       \/ /\ mem.del /\ mem.fin
          /\ markDeletionRequested("ensureLocalDisks")
    /\ UNCHANGED <<childVars, envVars, faults>>

\* Mistake: a failed provisioning is rolled back as if it were a deletion.
handleDeletion_OnFailure ==
    /\ pc = "handleDeletion"
    /\ LET over == (mem.del \/ mem.cond["Ready"] = "Failed") /\ mem.fin
       IN  \/ ~over /\ Goto("ensureLocalDisks")
           \/ over /\ markDeletionRequested("checkStorageClassUsage")
    /\ UNCHANGED <<childVars, envVars, faults>>

\* handleDeletion up to markDeletionRequested
handleDeletion ==
    /\ pc = "handleDeletion"
    /\ \/ ~(mem.del /\ mem.fin) /\ Goto("ensureLocalDisks")
       \/ /\ mem.del /\ mem.fin
          /\ markDeletionRequested("checkStorageClassUsage")
    /\ UNCHANGED <<childVars, envVars, faults>>

checkStorageClassUsage ==
    /\ pc = "checkStorageClassUsage"
    /\ LET blocked == isConditionTrue(mem, "StorageClassCreated") /\ isStorageClassInUse
       IN  \/ blocked /\ BlockDeletion("StorageClassInUse")
           \/ ~blocked /\ Goto("checkFilesystemDeletionLabel")
    /\ UNCHANGED <<childVars, envVars, faults>>

checkFilesystemDeletionLabel ==
    /\ pc = "checkFilesystemDeletionLabel"
    /\ LET blocked == /\ isConditionTrue(mem, "FileSystemCreated")
                      /\ OwnedFS /\ ~fs.label
       IN  \/ blocked /\ BlockDeletion("FileSystemLabelNotPresent")
           \/ ~blocked /\ Goto("deleteStorageClass")
    /\ UNCHANGED <<childVars, envVars, faults>>

\* Mistake: the pass goes on after recording the deletion.
deleteStorageClass_GoesOn ==
    /\ pc = "deleteStorageClass"
    /\ \/ /\ ~isConditionTrue(mem, "StorageClassCreated")
          /\ Goto("deleteFilesystem") /\ UNCHANGED sc
       \/ /\ isConditionTrue(mem, "StorageClassCreated") /\ sc # "absent"
          /\ sc' = "absent" /\ EndPass(TRUE, FALSE) /\ UNCHANGED claimVars
       \/ /\ isConditionTrue(mem, "StorageClassCreated") /\ sc = "absent"
          /\ StatusPatch([cache.cond EXCEPT !["StorageClassCreated"] = "Deleted"])
          /\ pc' = "deleteFilesystem" /\ UNCHANGED <<queued, timer, mem, todo, node, sc>>
    /\ UNCHANGED <<ld, fs, envVars, faults>>

\* Mistake: a class without the claim's labels is left alone.
deleteStorageClass_OnlyLabelled ==
    /\ pc = "deleteStorageClass"
    /\ \/ /\ ~isConditionTrue(mem, "StorageClassCreated")
          /\ Goto("deleteFilesystem") /\ UNCHANGED sc
       \/ /\ isConditionTrue(mem, "StorageClassCreated") /\ sc # "absent"
          /\ sc' = IF sc = "stripped" THEN sc ELSE "absent"
          /\ EndPass(enqueueFSCByStorageClass(sc), FALSE) /\ UNCHANGED claimVars
       \/ /\ isConditionTrue(mem, "StorageClassCreated") /\ sc = "absent"
          /\ updateConditionIfChanged("StorageClassCreated", "Deleted",
                                      Goto("deleteFilesystem"))
          /\ UNCHANGED sc
    /\ UNCHANGED <<ld, fs, envVars, faults>>

\* Mistake: the class is left to the garbage collector, like the other objects.
deleteStorageClass_LeftToCollector ==
    /\ pc = "deleteStorageClass"
    /\ \/ ~isConditionTrue(mem, "StorageClassCreated") /\ Goto("deleteFilesystem")
       \/ /\ isConditionTrue(mem, "StorageClassCreated")
          /\ updateConditionIfChanged("StorageClassCreated", "Deleted",
                                      Goto("deleteFilesystem"))
    /\ UNCHANGED <<childVars, envVars, faults>>

\* The deletion of a labelled class is an event that requeues the claim.
deleteStorageClass ==
    /\ pc = "deleteStorageClass"
    /\ \/ /\ ~isConditionTrue(mem, "StorageClassCreated")
          /\ Goto("deleteFilesystem") /\ UNCHANGED sc
       \/ /\ isConditionTrue(mem, "StorageClassCreated") /\ sc # "absent"
          /\ sc' = "absent"
          /\ EndPass(enqueueFSCByStorageClass(sc), FALSE) /\ UNCHANGED claimVars
       \/ /\ isConditionTrue(mem, "StorageClassCreated") /\ sc = "absent"
          /\ updateConditionIfChanged("StorageClassCreated", "Deleted",
                                      Goto("deleteFilesystem"))
          /\ UNCHANGED sc
    /\ UNCHANGED <<ld, fs, envVars, faults>>

deleteFilesystem ==
    /\ pc = "deleteFilesystem"
    /\ \/ /\ ~isConditionTrue(mem, "FileSystemCreated")
          /\ Goto("deleteLocalDisks") /\ UNCHANGED fs
       \/ /\ isConditionTrue(mem, "FileSystemCreated") /\ OwnedFS
          /\ fs' = [fs EXCEPT !.del = TRUE]
          /\ EndPass(FALSE, TRUE) /\ UNCHANGED claimVars
       \/ /\ isConditionTrue(mem, "FileSystemCreated") /\ ~OwnedFS
          /\ updateConditionIfChanged("FileSystemCreated", "Deleted",
                                      Goto("deleteLocalDisks"))
          /\ UNCHANGED fs
    /\ UNCHANGED <<ld, sc, envVars, faults>>

\* One Delete per owned LocalDisk; the first that fails ends the loop.
deleteLocalDisks ==
    /\ pc = "deleteLocalDisks"
    /\ \/ /\ ~isConditionTrue(mem, "LocalDiskCreated")
          /\ Goto("removeFinalizer") /\ UNCHANGED <<ld, faults>>
       \/ /\ isConditionTrue(mem, "LocalDiskCreated") /\ OwnedLDs # {}
          /\ \E S \in SUBSET OwnedLDs :
                /\ ld' = [w \in Wwns |-> IF w \in S THEN [ld[w] EXCEPT !.del = TRUE]
                                                    ELSE ld[w]]
                /\ \/ S = OwnedLDs /\ EndPass(FALSE, TRUE) /\ UNCHANGED faults
                   \/ /\ S # OwnedLDs /\ CanFail("error") /\ faults' = faults + 1
                      /\ EndPass(TRUE, FALSE)
          /\ UNCHANGED claimVars
       \/ /\ isConditionTrue(mem, "LocalDiskCreated") /\ OwnedLDs = {}
          /\ updateConditionIfChanged("LocalDiskCreated", "Deleted",
                                      Goto("removeFinalizer"))
          /\ UNCHANGED <<ld, faults>>
    /\ UNCHANGED <<fs, sc, envVars>>

removeFinalizer ==
    /\ pc = "removeFinalizer"
    /\ patchFSCSpec(FALSE)
    /\ UNCHANGED <<childVars, envVars, faults>>

\* ensureLocalDisks up to the loop that creates them
ensureLocalDisks ==
    /\ pc = "ensureLocalDisks"
    /\ LET created == isConditionTrue(mem, "LocalDiskCreated")
           begun == mem.cond["LocalDiskCreated"] \in InProgress
           valid == isConditionTrue(mem, "DeviceValidated")
       IN  \/ /\ created /\ ~SameDevices(mem)
              /\ patchFSCStatus([cache.cond EXCEPT !["Ready"] =
                                    "ImmutableFieldModified"], FALSE)
           \/ created /\ SameDevices(mem) /\ Goto("syncLocalDiskConditions")
           \/ begun /\ Goto("syncLocalDiskConditions")
           \/ /\ ~created /\ ~begun /\ ~valid /\ validateDevices(mem)
              /\ patchFSCStatus([cache.cond EXCEPT !["DeviceValidated"] =
                                    "Succeeded"], FALSE)
           \/ /\ ~created /\ ~begun /\ ~valid /\ ~validateDevices(mem)
              /\ handleValidationError
           \/ /\ ~created /\ ~begun /\ valid
              /\ node' \in Nodes /\ todo' = mem.devices /\ pc' = "createLocalDisk"
              /\ UNCHANGED <<claimVars, queued, timer, mem>>
    /\ UNCHANGED <<childVars, envVars, faults>>

\* One turn of the loop: look the WWN up on the drawn node, then create.
createLocalDisk ==
    /\ pc = "createLocalDisk" /\ todo # <<>>
    /\ LET w == getDeviceWWN(Head(todo))
       IN  \/ /\ w \notin Wwns
              /\ handleResourceCreationError("LocalDiskCreated")
              /\ UNCHANGED <<ld, faults>>
           \/ /\ w \in Wwns /\ ld[w].st = "absent"
              /\ ld' = [ld EXCEPT ![w] = NewLocalDisk(Head(todo))]
              /\ Goto("recordLocalDisk") /\ UNCHANGED faults
           \/ /\ w \in Wwns /\ ld[w].st = "absent"
              /\ CanFail("create") /\ faults' = faults + 1
              /\ handleResourceCreationError("LocalDiskCreated") /\ UNCHANGED ld
           \/ /\ w \in Wwns /\ ld[w].st # "absent"
              /\ pc' = "syncLocalDiskConditions" /\ todo' = <<>>
              /\ UNCHANGED <<claimVars, queued, timer, mem, node, ld, faults>>
    /\ UNCHANGED <<fs, sc, envVars>>

\* Mistake: the first creation ends the pass.
recordLocalDisk_Returns ==
    /\ pc = "recordLocalDisk"
    /\ patchFSCStatus([cache.cond EXCEPT !["LocalDiskCreated"] = "Creating"], FALSE)
    /\ UNCHANGED <<childVars, envVars, faults>>

\* The status write that follows each creation, before the next turn.
recordLocalDisk ==
    /\ pc = "recordLocalDisk"
    /\ \/ /\ StatusPatch([cache.cond EXCEPT !["LocalDiskCreated"] = "Creating"])
          /\ todo' = Tail(todo) /\ pc' = "createLocalDisk"
          /\ UNCHANGED <<queued, timer, mem, node>>
       \/ NotFound /\ Requeue
    /\ UNCHANGED <<childVars, envVars, faults>>

\* The loop visited every device: it created something unless there is none.
endLocalDisks ==
    /\ pc = "createLocalDisk" /\ todo = <<>>
    /\ \/ mem.devices # <<>> /\ Return
       \/ mem.devices = <<>> /\ Goto("syncLocalDiskConditions")
    /\ UNCHANGED <<childVars, envVars, faults>>

syncLocalDiskConditions ==
    /\ pc = "syncLocalDiskConditions"
    /\ \/ /\ OwnedLDs = {} /\ ~isConditionTrue(mem, "DeviceValidated")
          /\ Goto("ensureFileSystem")
       \/ /\ OwnedLDs = {} /\ isConditionTrue(mem, "DeviceValidated")
          /\ updateConditionIfChanged("LocalDiskCreated", "Waiting", Goto("ensureFileSystem"))
       \/ /\ OwnedLDs # {} /\ Failing = {}
          /\ updateConditionIfChanged("LocalDiskCreated", "Succeeded", Goto("ensureFileSystem"))
       \/ \E w \in Failing :
             updateConditionIfChanged("LocalDiskCreated",
                 IF ld[w].st = "foreign" THEN "UsedElsewhere" ELSE "NotReady",
                 Goto("ensureFileSystem"))
    /\ UNCHANGED <<childVars, envVars, faults>>

\* Mistake: a LocalDisk in use is not counted among the filesystem's disks.
ensureFileSystem_FreeDisks ==
    /\ pc = "ensureFileSystem"
    /\ LET enabled == isConditionTrue(mem, "LocalDiskCreated") /\ OwnedLDs # {}
           free == {w \in OwnedLDs : ld[w].st # "used"}
       IN  \/ ~enabled /\ Goto("syncFilesystemConditions") /\ UNCHANGED fs
           \/ enabled /\ ~FSExists /\ fs' = NewFilesystem(free) /\ Goto("recordFileSystem")
           \/ /\ enabled /\ FSExists /\ ~OwnedFS
              /\ handleResourceCreationError("FileSystemCreated") /\ UNCHANGED fs
           \/ enabled /\ OwnedFS /\ fs' = [fs EXCEPT !.disks = free] /\ Return
    /\ UNCHANGED <<ld, sc, envVars, faults>>

ensureFileSystem ==
    /\ pc = "ensureFileSystem"
    /\ LET enabled == isConditionTrue(mem, "LocalDiskCreated") /\ OwnedLDs # {}
       IN  \/ ~enabled /\ Goto("syncFilesystemConditions") /\ UNCHANGED <<fs, faults>>
           \/ /\ enabled /\ ~FSExists
              /\ fs' = NewFilesystem(OwnedLDs)
              /\ Goto("recordFileSystem") /\ UNCHANGED faults
           \/ /\ enabled /\ ~OwnedFS
              /\ \/ FSExists /\ UNCHANGED faults
                 \/ ~FSExists /\ CanFail("create") /\ faults' = faults + 1
              /\ handleResourceCreationError("FileSystemCreated") /\ UNCHANGED fs
           \/ /\ enabled /\ OwnedFS /\ fs.disks # OwnedLDs
              /\ fs' = [fs EXCEPT !.disks = OwnedLDs]
              /\ Return /\ UNCHANGED faults
           \/ /\ enabled /\ OwnedFS /\ fs.disks = OwnedLDs
              /\ Goto("syncFilesystemConditions") /\ UNCHANGED <<fs, faults>>
    /\ UNCHANGED <<ld, sc, envVars>>

recordFileSystem ==
    /\ pc = "recordFileSystem"
    /\ updateConditionIfChanged("FileSystemCreated", "Creating", Return)
    /\ UNCHANGED <<childVars, envVars, faults>>

syncFilesystemConditions ==
    /\ pc = "syncFilesystemConditions"
    /\ LET found == IF ~OwnedFS THEN "Waiting"
                    ELSE IF fs.st = "healthy" THEN "Succeeded" ELSE "NotReady"
       IN  \/ ~isConditionTrue(mem, "LocalDiskCreated") /\ Goto("ensureStorageClass")
           \/ /\ isConditionTrue(mem, "LocalDiskCreated")
              /\ updateConditionIfChanged("FileSystemCreated", found, Goto("ensureStorageClass"))
    /\ UNCHANGED <<childVars, envVars, faults>>

\* The class is patched back to what buildStorageClass says, its labels included.
reconcileExistingStorageClass ==
    sc' = "ours" /\ queued' = (queued \/ enqueueFSCByStorageClass(sc'))

ensureStorageClass ==
    /\ pc = "ensureStorageClass"
    /\ LET enabled == isConditionTrue(mem, "FileSystemCreated")
       IN  \/ ~enabled /\ Goto("syncFSCReady") /\ UNCHANGED <<sc, faults>>
           \/ /\ enabled /\ sc = "absent"
              /\ sc' = "ours" /\ Goto("recordStorageClass") /\ UNCHANGED faults
           \/ /\ enabled /\ sc = "absent" /\ CanFail("create") /\ faults' = faults + 1
              /\ handleResourceCreationError("StorageClassCreated") /\ UNCHANGED sc
           \/ /\ enabled /\ sc = "ours"
              /\ updateConditionIfChanged("StorageClassCreated", "Present", Goto("syncFSCReady"))
              /\ UNCHANGED <<sc, faults>>
           \/ /\ enabled /\ sc \in {"drifted", "stripped"}
              /\ reconcileExistingStorageClass /\ pc' = "recordDrift"
              /\ UNCHANGED <<claimVars, timer, mem, todo, node, faults>>
    /\ UNCHANGED <<ld, fs, envVars>>

\* The status write after a StorageClass was created, or brought back in line.
recordStorageClass ==
    /\ \/ /\ pc = "recordStorageClass"
          /\ updateConditionIfChanged("StorageClassCreated", "Created", Goto("syncFSCReady"))
       \/ /\ pc = "recordDrift"
          /\ updateConditionIfChanged("StorageClassCreated", "Present", Return)
    /\ UNCHANGED <<childVars, envVars, faults>>

\* Mistake: Ready is never taken back.
syncFSCReady_Sticky ==
    /\ pc = "syncFSCReady"
    /\ LET ready == \A t \in CondTypes \ {"DeletionBlocked", "Ready"} : isConditionTrue(mem, t)
       IN  \/ ready /\ updateConditionIfChanged("Ready", "Succeeded", Return)
           \/ ~ready /\ Return
    /\ UNCHANGED <<childVars, envVars, faults>>

syncFSCReady ==
    /\ pc = "syncFSCReady"
    /\ LET ready == \A t \in CondTypes \ {"DeletionBlocked", "Ready"} : isConditionTrue(mem, t)
       IN  updateConditionIfChanged("Ready", IF ready THEN "Succeeded" ELSE "Provisioning", Return)
    /\ UNCHANGED <<childVars, envVars, faults>>

\* Any other call of the pass returns an error: the key is queued again.
ApiError ==
    /\ pc # "idle" /\ CanFail("error") /\ faults' = faults + 1
    /\ Requeue
    /\ UNCHANGED <<childVars, envVars>>

\* The operator restarts: memory is lost, the informer lists everything anew.
Crash ==
    /\ CanFail("crash") /\ faults' = faults + 1
    /\ pc' = "idle" /\ mem' = Gone(0) /\ todo' = <<>> /\ node' = NoNode
    /\ cache' = fsc /\ dirty' = FALSE /\ queued' = fsc.exists /\ timer' = FALSE
    /\ UNCHANGED <<fsc, childVars, pv, discovery, upsets>>

Handler ==
    \/ Reconcile \/ handleFinalizers \/ handleDeletion
    \/ checkStorageClassUsage \/ checkFilesystemDeletionLabel
    \/ deleteStorageClass \/ deleteFilesystem \/ deleteLocalDisks \/ removeFinalizer
    \/ ensureLocalDisks \/ createLocalDisk \/ recordLocalDisk \/ endLocalDisks
    \/ syncLocalDiskConditions \/ ensureFileSystem \/ recordFileSystem
    \/ syncFilesystemConditions \/ ensureStorageClass \/ recordStorageClass
    \/ syncFSCReady

----------------------------------------------------------------------------
(* Wake-ups.                                                               *)

\* The informer delivers the claim's latest version; every version is an event.
InformerSync ==
    /\ dirty /\ cache' = fsc /\ dirty' = FALSE /\ queued' = TRUE
    /\ UNCHANGED <<fsc, timer, pc, mem, todo, node, childVars, pv, discovery, faults, upsets>>

TimerFires ==
    /\ timer /\ timer' = FALSE /\ queued' = TRUE
    /\ UNCHANGED <<claimVars, pc, mem, todo, node, childVars, envVars, faults>>

\* The informer's periodic resync (hours apart).
Resync ==
    /\ cache.exists /\ pc = "idle" /\ ~queued /\ queued' = TRUE
    /\ UNCHANGED <<claimVars, timer, pc, mem, todo, node, childVars, envVars, faults>>

----------------------------------------------------------------------------
(* Users.                                                                  *)

CreateClaim ==
    /\ ~fsc.exists /\ fsc.uid < MaxClaims
    /\ \E ds \in DeviceLists, h \in Holds :
          fsc' = [Gone(fsc.uid + 1) EXCEPT !.exists = TRUE, !.devices = ds, !.hold = h]
    /\ dirty' = TRUE
    /\ UNCHANGED <<passVars, childVars, envVars, faults>>

\* ValidateDelete allows it; the finalizers decide whether the object stays.
DeleteClaim ==
    /\ fsc.exists /\ ~fsc.del
    /\ fsc' = IF fsc.fin \/ fsc.hold THEN [fsc EXCEPT !.del = TRUE] ELSE Gone(fsc.uid)
    /\ dirty' = TRUE
    /\ UNCHANGED <<passVars, childVars, envVars, faults>>

\* The holder of the second finalizer lets go of a claim being deleted.
ReleaseHold ==
    /\ fsc.exists /\ fsc.del /\ fsc.hold
    /\ fsc' = IF fsc.fin THEN [fsc EXCEPT !.hold = FALSE] ELSE Gone(fsc.uid)
    /\ dirty' = TRUE
    /\ UNCHANGED <<passVars, childVars, envVars, faults>>

Upset(kind) == kind \in Upsets /\ upsets < MaxUpsets /\ upsets' = upsets + 1

\* ValidateUpdate: spec.devices may change while LocalDiskCreated is not True.
ValidateUpdate ==
    /\ Upset("edit")
    /\ fsc.exists /\ ~isConditionTrue(fsc, "LocalDiskCreated")
    /\ \E ds \in DeviceLists \ {fsc.devices} : fsc' = [fsc EXCEPT !.devices = ds]
    /\ dirty' = TRUE
    /\ UNCHANGED <<passVars, childVars, cache, pv, discovery, faults>>

\* A user confirms, or withdraws, the loss of the filesystem's data.
LabelFilesystem ==
    /\ FSExists
    /\ \/ ~fs.label /\ UNCHANGED upsets
       \/ fs.label /\ Upset("unlabel")
    /\ fs' = [fs EXCEPT !.label = ~fs.label]
    /\ UNCHANGED <<claimVars, passVars, ld, sc, cache, pv, discovery, faults>>

ProvisionVolume ==
    /\ Upset("volume")
    /\ sc # "absent" /\ fs.st = "healthy" /\ pv = "none"
    /\ pv' = "Bound"
    /\ UNCHANGED <<claimVars, passVars, childVars, cache, discovery, faults>>

ReleaseVolume ==
    /\ \/ pv = "Bound" /\ pv' = "Released"
       \/ pv = "Released" /\ pv' = "Deleting"
       \/ pv = "Deleting" /\ pv' = "none"
    /\ UNCHANGED <<claimVars, passVars, childVars, cache, discovery, upsets, faults>>

\* Someone deletes one of the objects behind the controller's back, or edits
\* the StorageClass.  Only events about labelled classes reach the queue.
Tamper ==
    /\ \/ /\ Upset("tamper")
          /\ \/ \E w \in OwnedLDs : ld' = [ld EXCEPT ![w].del = TRUE]
                                   /\ UNCHANGED <<fs, sc, queued>>
             \/ FSExists /\ fs' = [fs EXCEPT !.del = TRUE] /\ UNCHANGED <<ld, sc, queued>>
             \/ /\ sc # "absent" /\ sc' = "absent" /\ queued' = (queued \/ enqueueFSCByStorageClass(sc))
                /\ UNCHANGED <<ld, fs>>
       \/ /\ Upset("drift") /\ sc \in {"ours", "drifted"}
          /\ sc' \in {"drifted", "stripped"}
          /\ queued' = (queued \/ enqueueFSCByStorageClass(sc'))
          /\ UNCHANGED <<ld, fs>>
    /\ UNCHANGED <<claimVars, timer, pc, mem, todo, node, cache, pv, discovery, faults>>

\* The device finders report something else.
Rediscover ==
    /\ Upset("discovery")
    /\ discovery' \in Discoveries \ {discovery}
    /\ UNCHANGED <<claimVars, passVars, childVars, cache, pv, faults>>

----------------------------------------------------------------------------
(* The Storage Scale operator and the garbage collector.                   *)

\* A status change of an owned object requeues the claim (didResourceStatusChange).
ScaleLocalDisk(w) ==
    /\ ld[w].st # "absent"
    /\ \E s \in LDStates \ {"absent", "new", ld[w].st} :
          /\ ld' = [ld EXCEPT ![w].st = s]
          /\ \/ s = "ready" /\ (ld[w].st = "used" => ~FSExists) /\ UNCHANGED upsets
             \/ s = "used" /\ ld[w].st = "ready" /\ FSExists /\ w \in fs.disks /\ UNCHANGED upsets
             \/ s = "notready" /\ Upset("unhealthy")
             \/ s = "foreign" /\ Upset("foreign")
    /\ queued' = (queued \/ enqueueFSCByOwner(ld[w].own))
    /\ UNCHANGED <<claimVars, timer, pc, mem, todo, node, fs, sc, cache, pv, discovery, faults>>

ScaleFilesystem ==
    /\ FSExists
    /\ \/ fs.st # "healthy" /\ fs' = [fs EXCEPT !.st = "healthy"] /\ UNCHANGED upsets
       \/ fs.st # "unhealthy" /\ Upset("unhealthy") /\ fs' = [fs EXCEPT !.st = "unhealthy"]
    /\ queued' = (queued \/ enqueueFSCByOwner(fs.own))
    /\ UNCHANGED <<claimVars, timer, pc, mem, todo, node, ld, sc, cache, pv, discovery, faults>>

\* Objects being deleted go away; no event about it reaches the queue.
ScaleRemoves ==
    /\ \/ \E w \in Wwns : /\ ld[w].st # "absent" /\ ld[w].del
                          /\ ld' = [ld EXCEPT ![w] = NoLD] /\ UNCHANGED fs
       \/ FSExists /\ fs.del /\ fs' = NoFS /\ UNCHANGED ld
    /\ UNCHANGED <<claimVars, passVars, sc, envVars, faults>>

\* Objects whose owner, by UID, is gone are deleted; a StorageClass has no owner.
Orphan(own) == own # 0 /\ (fsc.exists => own # fsc.uid)

GarbageCollect ==
    /\ \/ \E w \in Wwns : /\ ld[w].st # "absent" /\ ~ld[w].del /\ Orphan(ld[w].own)
                          /\ ld' = [ld EXCEPT ![w].del = TRUE] /\ UNCHANGED fs
       \/ /\ FSExists /\ ~fs.del /\ Orphan(fs.own)
          /\ fs' = [fs EXCEPT !.del = TRUE] /\ UNCHANGED ld
    /\ UNCHANGED <<claimVars, passVars, sc, envVars, faults>>

----------------------------------------------------------------------------

Init ==
    /\ fsc = Gone(0) /\ cache = Gone(0) /\ mem = Gone(0)
    /\ dirty = FALSE /\ queued = FALSE /\ timer = FALSE
    /\ pc = "idle" /\ todo = <<>> /\ node = NoNode
    /\ ld = [w \in Wwns |-> IF w \in Preexisting THEN [NoLD EXCEPT !.st = "ready"] ELSE NoLD]
    /\ fs = NoFS /\ sc = "absent" /\ pv = "none"
    /\ discovery \in Discoveries
    /\ faults = 0 /\ upsets = 0

User ==
    \/ CreateClaim \/ DeleteClaim \/ ReleaseHold \/ ValidateUpdate \/ LabelFilesystem
    \/ ProvisionVolume \/ ReleaseVolume \/ Tamper \/ Rediscover

Scale ==
    \/ \E w \in Wwns : ScaleLocalDisk(w)
    \/ ScaleFilesystem \/ ScaleRemoves

Next ==
    \/ Handler \/ ApiError \/ Crash
    \/ InformerSync \/ TimerFires \/ Resync
    \/ User \/ Scale \/ GarbageCollect

Spec == Init /\ [][Next]_vars

\* The worker takes what is queued and finishes its passes, the informer delivers,
\* timers fire, Storage Scale and the garbage collector do their work.  Whether an
\* object that fell ill ever recovers is left open.
Fairness ==
    /\ WF_vars(Handler) /\ WF_vars(InformerSync) /\ WF_vars(TimerFires)
    /\ \A w \in Wwns : WF_vars(ScaleLocalDisk(w) /\ ld[w].st # "notready"
                                            /\ ld'[w].st \in {"ready", "used"})
    /\ WF_vars(ScaleFilesystem /\ fs.st # "unhealthy" /\ fs'.st = "healthy")
    /\ WF_vars(ScaleRemoves) /\ WF_vars(GarbageCollect)

\* A user who deleted the claim also confirms it, releases the volumes and lets go.
DeletionConfirmed ==
    /\ WF_vars(LabelFilesystem /\ fs'.label)
    /\ WF_vars(ReleaseVolume) /\ WF_vars(ReleaseHold)

FairSpec == Spec /\ Fairness /\ DeletionConfirmed

\* The same, waiting for the resync where no event comes.
ResyncSpec == FairSpec /\ WF_vars(Resync)

----------------------------------------------------------------------------
(* Properties.                                                             *)

Pcs == {"idle", "handleFinalizers", "handleDeletion", "checkStorageClassUsage",
        "checkFilesystemDeletionLabel", "deleteStorageClass", "deleteFilesystem",
        "deleteLocalDisks", "removeFinalizer", "ensureLocalDisks", "createLocalDisk",
        "recordLocalDisk", "syncLocalDiskConditions", "ensureFileSystem",
        "recordFileSystem", "syncFilesystemConditions", "ensureStorageClass",
        "recordStorageClass", "recordDrift", "syncFSCReady"}

\* Every variable keeps its type, the pass's loop variables included.
TypeOK ==
    /\ fsc \in Claims /\ cache \in Claims /\ mem \in Claims
    /\ dirty \in BOOLEAN /\ queued \in BOOLEAN /\ timer \in BOOLEAN
    /\ pc \in Pcs /\ todo \in Seq(Devices) /\ node \in Nodes \cup {NoNode}
    /\ ld \in [Wwns -> LocalDisks] /\ fs \in Filesystems
    /\ sc \in SCStates /\ pv \in PVStates /\ discovery \in Discoveries
    /\ faults \in 0..MaxFaults /\ upsets \in 0..MaxUpsets
    /\ pc \in {"createLocalDisk", "recordLocalDisk"} => node \in Nodes
    /\ pc = "recordLocalDisk" => todo # <<>>

\* While the claim is being cleaned up, a recorded deletion is a fact: the
\* StorageClass, Filesystem or LocalDisks a condition calls deleted are gone.
DeletedMeansGone ==
    fsc.exists /\ fsc.del /\ fsc.fin =>
        /\ fsc.cond["StorageClassCreated"] = "Deleted" => sc = "absent"
        /\ fsc.cond["FileSystemCreated"] = "Deleted" => fs.st = "absent"
        /\ fsc.cond["LocalDiskCreated"] = "Deleted" =>
               \A w \in Wwns : ld[w].st = "absent" \/ ld[w].own = 0

\* A later status write, though computed from a cache that may lag, never takes
\* back a deletion that was recorded.
CleanupNeverUndone ==
    [][\A t \in CondTypes :
          fsc.cond[t] = "Deleted" /\ fsc.fin /\ fsc'.exists => fsc'.cond[t] = "Deleted"]_vars

\* The controller deletes the Filesystem only when no volume of its class is in
\* use and a user has labelled it, although both were checked earlier in the pass
\* and the class is deleted passes before.
VolumesSafe ==
    [][pc = "deleteFilesystem" /\ pc' = "idle" /\ fs'.del /\ ~fs.del =>
          fs.label /\ pv \notin {"Bound", "Released"}]_vars

\* A pass over a claim that is being deleted never creates an object for it.
NoCreateWhileDeleting ==
    [][mem.del =>
          /\ \A w \in Wwns : ld[w].st = "absent" => ld'[w].st = "absent"
          /\ fs.st = "absent" => fs'.st = "absent"
          /\ sc = "absent" => sc' = "absent"]_vars

\* The controller deletes nothing while the claim the API server holds is alive: a
\* late pass over a claim that is gone spares what its successor has created.
DeletesOnlyForDeletedClaim ==
    [][pc' = "idle" /\ fsc.exists /\ ~fsc.del =>
          /\ pc = "deleteStorageClass" => sc' = sc
          /\ pc = "deleteFilesystem" => fs' = fs
          /\ pc = "deleteLocalDisks" => ld' = ld]_vars

\* When nobody edits spec.devices the controller never says it was edited.
NeverMisreportsEdit == fsc.cond["Ready"] # "ImmutableFieldModified"

\* A Ready claim has everything it promises: a LocalDisk for exactly the devices
\* of its spec, the Filesystem over them, and the StorageClass.
ReadyBacked ==
    fsc.cond["Ready"] = "Succeeded" =>
        /\ OwnedDevices = SpecDevices(fsc)
        /\ fs.st # "absent" /\ fs.disks = OwnedLDs
        /\ sc # "absent"

\* A claim that is gone has left no StorageClass behind; nothing else would ever
\* delete it.
NoOrphanStorageClass == ~fsc.exists => sc = "absent"

\* Storage Scale reports trouble with one of the claim's objects.
Unhealthy == fs.st = "unhealthy" \/ \E w \in OwnedLDs : ld[w].st = "notready"

\* A claim nobody deletes becomes Ready, and again after its objects recovered.
ClaimBecomesReady ==
    (fsc.exists /\ ~fsc.del)
        ~> (fsc.cond["Ready"] = "Succeeded" \/ fsc.del \/ ~fsc.exists \/ Unhealthy)

\* A deleted claim goes away.
DeletionCompletes == fsc.del ~> ~fsc.del

\* Ready is taken back when trouble with the claim's objects lasts, through the two
\* conditions it is derived from and their passes.
StaleReadyCorrected ==
    (fsc.cond["Ready"] = "Succeeded" /\ Unhealthy)
        ~> (fsc.cond["Ready"] # "Succeeded" \/ ~Unhealthy)
=============================================================================
