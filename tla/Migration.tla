------------------------------ MODULE Migration ------------------------------
(***************************************************************************)
(* The migration of a filesystem from version 1.0 of the operator, which   *)
(* had no claims: internal/controller/filesystemclaim/migration.go, run    *)
(* once whenever the operator starts (cmd/main.go).                        *)
(*                                                                         *)
(* It lists the LocalDisks nobody owns, creates a claim that says          *)
(* everything is provisioned, and makes the claim the owner of the         *)
(* LocalDisks, one after the other, and of the Filesystem, and labels the  *)
(* StorageClass.  The manager starts it together with the controllers.     *)
(* Reads between two writes are part of the step of the first.  An update  *)
(* of an object that has changed since it was read is refused, and ends    *)
(* the migration until the operator starts again.                          *)
(***************************************************************************)
EXTENDS FileSystemClaim

CONSTANTS
    Legacy,         \* WWNs that have a LocalDisk of version 1.0
    LegacyDevice,   \* its device path
    Skipped,        \* those that are no candidates, by a label for instance
    LegacyClass     \* may the filesystem have a StorageClass?

ASSUME LegacyAssumption ==
    /\ Legacy \subseteq Wwns /\ Legacy # {} /\ Skipped \subseteq Legacy
    /\ LegacyDevice \in [Legacy -> Devices] /\ LegacyClass \subseteq BOOLEAN

VARIABLES
    mig,     \* the migration: its next step and what it has read
    touched, \* objects that others have written since it read them
    marked   \* the StorageClass carries the label of a migrated object

migVars == <<mig, touched, marked>>
allVars == <<vars, migVars>>

MigSteps == {"start", "claim", "status", "disks", "filesystem", "class", "done"}
Migrations == [step: MigSteps, disks: SUBSET Wwns, owned: BOOLEAN, class: BOOLEAN,
               uid: 0..MaxClaims]

Fresh == [step |-> "start", disks |-> {}, owned |-> FALSE, class |-> FALSE, uid |-> 0]

\* The names of the objects an update may be refused for.
Objects == Wwns \cup {"filesystem", "class", "claim"}

----------------------------------------------------------------------------

\* isV1LocalDisk: a disk of a filesystem, unlabelled and without an owner.
isV1LocalDisk(w) ==
    ld[w].st = "used" /\ ld[w].own = 0 /\ w \in Legacy \ Skipped

\* discoverLegacyLocalDisks, groupLocalDisksByFilesystem, validateResourceGroup: all
\* that is read before the first write.
discoverLegacyLocalDisks ==
    /\ mig.step = "start"
    /\ LET found == {w \in Wwns : isV1LocalDisk(w)}
       IN  mig' = [mig EXCEPT !.step = IF found = {} \/ ~FSExists THEN "done" ELSE "claim",
                              !.disks = found, !.owned = fs.own # 0,
                              !.class = sc # "absent"]
    /\ touched' = {}
    /\ UNCHANGED <<vars, marked>>

\* createOrGetFilesystemClaim up to the creation; the lookup is in the cache.
createOrGetFilesystemClaim ==
    /\ mig.step = "claim"
    /\ \/ /\ cache.exists
          /\ mig' = [mig EXCEPT !.step = "disks", !.uid = cache.uid]
          /\ UNCHANGED claimVars
       \/ /\ ~cache.exists /\ fsc.exists
          /\ mig' = [mig EXCEPT !.step = "done"] /\ UNCHANGED claimVars
       \/ /\ ~cache.exists /\ ~fsc.exists /\ fsc.uid < MaxClaims
          /\ \E ds \in DeviceLists :
                /\ Len(ds) = Cardinality(mig.disks)
                /\ {ds[i] : i \in DOMAIN ds} = {ld[w].dev : w \in mig.disks}
                /\ fsc' = [Gone(fsc.uid + 1) EXCEPT !.exists = TRUE, !.devices = ds]
          /\ dirty' = TRUE
          /\ mig' = [mig EXCEPT !.step = "status", !.uid = fsc.uid + 1]
    /\ touched' = touched \ {"claim"}
    /\ UNCHANGED <<passVars, childVars, envVars, faults, marked>>

Migrated ==
    [t \in CondTypes |->
        IF t = "DeletionBlocked" \/ (t = "StorageClassCreated" /\ ~mig.class)
        THEN "None" ELSE "MigrationComplete"]

\* The rest of createOrGetFilesystemClaim: a status update that may fail unnoticed.
updateStatus ==
    /\ mig.step = "status" /\ mig' = [mig EXCEPT !.step = "disks"]
    /\ \/ /\ "claim" \notin touched
          /\ fsc' = [fsc EXCEPT !.cond = Migrated] /\ dirty' = TRUE
          /\ UNCHANGED faults
       \/ "claim" \in touched /\ UNCHANGED <<claimVars, faults>>
       \/ CanFail("error") /\ faults' = faults + 1 /\ UNCHANGED claimVars
    /\ UNCHANGED <<passVars, childVars, envVars, touched, marked>>

\* updateOwnerRefsAndLabels: the LocalDisks, in the order they were listed,
adoptLocalDisk ==
    /\ mig.step = "disks"
    /\ \/ \E w \in mig.disks :
             \/ /\ w \notin touched
                /\ ld' = [ld EXCEPT ![w].own = mig.uid]
                /\ mig' = [mig EXCEPT !.disks = @ \ {w}]
             \/ w \in touched /\ mig' = [mig EXCEPT !.step = "done"] /\ UNCHANGED ld
       \/ /\ mig.disks = {}
          /\ mig' = [mig EXCEPT !.step = "filesystem"] /\ UNCHANGED ld
    /\ UNCHANGED <<claimVars, passVars, fs, sc, envVars, faults, touched, marked>>

\* Mistake: the Filesystem is adopted only when it has an owner already.
adoptFilesystem_Inverted ==
    /\ mig.step = "filesystem" /\ mig' = [mig EXCEPT !.step = "class"]
    /\ \/ ~mig.owned /\ UNCHANGED fs
       \/ mig.owned /\ fs' = [fs EXCEPT !.own = mig.uid]
    /\ UNCHANGED <<claimVars, passVars, ld, sc, envVars, faults, touched, marked>>

\* Mistake: the owner is looked for in another namespace, where there is none.
adoptFilesystem_OtherNamespace ==
    /\ mig.step = "filesystem" /\ mig' = [mig EXCEPT !.step = "class"]
    /\ \/ mig.owned /\ UNCHANGED fs
       \/ ~mig.owned /\ fs' = [fs EXCEPT !.own = MaxClaims + 1]
    /\ UNCHANGED <<claimVars, passVars, ld, sc, envVars, faults, touched, marked>>

\* then the Filesystem, unless it was owned when it was read,
adoptFilesystem ==
    /\ mig.step = "filesystem"
    /\ \/ mig.owned /\ mig' = [mig EXCEPT !.step = "class"] /\ UNCHANGED fs
       \/ /\ ~mig.owned /\ "filesystem" \notin touched
          /\ fs' = [fs EXCEPT !.own = mig.uid] /\ mig' = [mig EXCEPT !.step = "class"]
       \/ /\ ~mig.owned /\ "filesystem" \in touched
          /\ mig' = [mig EXCEPT !.step = "done"] /\ UNCHANGED fs
    /\ UNCHANGED <<claimVars, passVars, ld, sc, envVars, faults, touched, marked>>

\* and the labels of the StorageClass, unless it has the migration's.  The controller
\* knows no such label and takes the class that has it for drifted.
adoptStorageClass ==
    /\ mig.step = "class" /\ mig' = [mig EXCEPT !.step = "done"]
    /\ \/ /\ mig.class /\ "class" \notin touched /\ ~marked
          /\ sc' = "drifted" /\ marked' = TRUE
          /\ queued' = (queued \/ enqueueFSCByStorageClass(sc'))
       \/ (~mig.class \/ "class" \in touched \/ marked) /\ UNCHANGED <<sc, marked, queued>>
    /\ UNCHANGED <<claimVars, timer, pc, mem, todo, node, ld, fs, envVars, faults, touched>>

\* Any other call fails: the group is given up.
migrationError ==
    /\ mig.step \in MigSteps \ {"status", "done"}
    /\ CanFail("error") /\ faults' = faults + 1
    /\ mig' = [mig EXCEPT !.step = "done"]
    /\ UNCHANGED <<claimVars, passVars, childVars, envVars, touched, marked>>

RunMigration ==
    \/ discoverLegacyLocalDisks \/ createOrGetFilesystemClaim \/ updateStatus
    \/ adoptLocalDisk \/ adoptFilesystem \/ adoptStorageClass \/ migrationError

----------------------------------------------------------------------------
(* The operator with its migration.                                        *)

Touched ==
    {w \in Wwns : ld'[w] # ld[w]}
    \cup (IF fs' # fs THEN {"filesystem"} ELSE {})
    \cup (IF sc' # sc THEN {"class"} ELSE {})
    \cup (IF fsc' # fsc \/ (dirty' /\ ~dirty) THEN {"claim"} ELSE {})

\* The labels after someone else has written the class: the controller replaces them
\* all, a user may have left them.
Marks ==
    IF sc' = sc THEN {marked}
    ELSE IF sc' \in {"drifted", "stripped"} THEN {marked, FALSE}
    ELSE {FALSE}

\* Everything else goes on beside it, users and the controller included.
Alongside(A) ==
    /\ A
    /\ touched' = IF mig.step = "done" THEN touched ELSE touched \cup Touched
    /\ marked' \in Marks
    /\ UNCHANGED mig

Beside ==
    \/ Alongside(Handler) \/ Alongside(ApiError)
    \/ Alongside(InformerSync) \/ Alongside(TimerFires) \/ Alongside(Resync)
    \/ Alongside(User) \/ Alongside(Scale) \/ Alongside(GarbageCollect)

\* The operator starts again, and the migration with it.
Restart == Crash /\ mig' = Fresh /\ touched' = {} /\ UNCHANGED marked

\* A filesystem in use, made by version 1.0, and its objects; no claims.
LegacyInit ==
    /\ fsc = Gone(0) /\ cache = Gone(0) /\ mem = Gone(0)
    /\ dirty = FALSE /\ queued = FALSE /\ timer = FALSE
    /\ pc = "idle" /\ todo = <<>> /\ node = NoNode
    /\ ld = [w \in Wwns |-> IF w \in Legacy THEN [NoLD EXCEPT !.st = "used",
                                                             !.dev = LegacyDevice[w]]
                                            ELSE NoLD]
    /\ fs = [NoFS EXCEPT !.st = "healthy", !.disks = Legacy]
    /\ \E c \in LegacyClass : sc = IF c THEN "stripped" ELSE "absent"
    /\ pv = "none" /\ discovery \in Discoveries
    /\ faults = 0 /\ upsets = 0
    /\ mig = Fresh /\ touched = {} /\ marked = FALSE

MigrationNext == RunMigration \/ Beside \/ Restart

MigrationSpec == LegacyInit /\ [][MigrationNext]_allVars

\* The migration runs to its end, and the controller as in FileSystemClaim; a resync
\* comes when no event does.
FairMigration ==
    /\ MigrationSpec
    /\ WF_allVars(RunMigration) /\ WF_allVars(Alongside(Handler))
    /\ WF_allVars(Alongside(InformerSync)) /\ WF_allVars(Alongside(TimerFires))
    /\ WF_allVars(Alongside(Resync))

----------------------------------------------------------------------------
(* Properties.                                                             *)

\* Every variable keeps its type; an update is only ever tried for a claim that was
\* created.
MigrationTypeOK ==
    /\ TypeOK /\ mig \in Migrations /\ touched \subseteq Objects /\ marked \in BOOLEAN
    /\ mig.step \in {"status", "disks", "filesystem", "class"} => mig.uid # 0

\* Unless the user deletes the claim, nothing of version 1.0 is lost: a migration
\* that races with the controller, fails or is cut short makes a claim that reports
\* failures, and neither the cleanup nor the garbage collector takes that as a
\* reason to delete.
LegacyKept ==
    (fsc.exists /\ ~fsc.del) \/ fsc.uid = 0 =>
        /\ FSExists /\ ~fs.del
        /\ \A w \in Legacy : ld[w].st # "absent" /\ ~ld[w].del

\* No disk is ever taken out of the filesystem: the controller sets the disks of a
\* Filesystem it owns to the LocalDisks its claim owns, and gets there only when the
\* claim owns them all, however the adoption is interrupted.
KeepsDisks ==
    [][FSExists /\ FSExists' => fs.disks \subseteq fs'.disks]_allVars

\* A claim that migration creates ends up with everything, and Ready, whatever the
\* controller made of it on the way: unless the claim is deleted, someone
\* else writes a LocalDisk or the Filesystem meanwhile, or something fails.
MigrationSettles ==
    mig.step = "disks" ~>
        \/ faults > 0 \/ fsc.del \/ ~fsc.exists
        \/ touched \cap (Wwns \cup {"filesystem"}) # {}
        \/ isConditionTrue(fsc, "Ready") /\ OwnedLDs = Legacy /\ OwnedFS
=============================================================================
