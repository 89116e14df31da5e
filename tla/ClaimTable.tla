------------------------------ MODULE ClaimTable ------------------------------
(***************************************************************************)
(* How users see a claim: the status the console's table shows for it      *)
(* (console/src/ui/file-system-claims), and the contract it keeps, with    *)
(* the part of it that survives a lagging cache and failures.              *)
(***************************************************************************)
EXTENDS FileSystemClaim

\* Mistake: a claim being deleted is called that, blocked or not.
statusTitle_DeletingFirst(claim) ==
    IF claim.cond["Ready"] = "Provisioning" THEN "Provisioning"
    ELSE IF claim.cond["Ready"] = "DeletionRequested" THEN "Deleting"
    ELSE IF isConditionTrue(claim, "DeletionBlocked") THEN "Deletion blocked"
    ELSE IF isConditionTrue(claim, "Ready") THEN "Ready"
    ELSE "Unknown"

\* The cases in their order; a failed claim has no case of its own.
statusTitle(claim) ==
    IF claim.cond["Ready"] = "Provisioning" THEN "Provisioning"
    ELSE IF isConditionTrue(claim, "DeletionBlocked") THEN "Deletion blocked"
    ELSE IF claim.cond["Ready"] = "DeletionRequested" THEN "Deleting"
    ELSE IF isConditionTrue(claim, "Ready") THEN "Ready"
    ELSE "Unknown"

\* A user whose deletion is held up is told so, and how to go on: no status an
\* earlier or an interrupted pass has written hides it.
BlockShown ==
    fsc.exists /\ fsc.del /\ isConditionTrue(fsc, "DeletionBlocked")
        => statusTitle(fsc) = "Deletion blocked"

Contract == INSTANCE ClaimContract WITH
    claim <- IF ~fsc.exists THEN "none" ELSE IF fsc.del THEN "deleting" ELSE "live",
    stored <- fs.st # "absent",
    served <- sc # "absent"

\* The controller, its informer and Storage Scale together keep the contract of a
\* claim, as long as nobody touches its objects.
KeepsContract == Contract!ContractSpec

----------------------------------------------------------------------------
(* What is left of it when the cache lags, calls fail or the operator      *)
(* restarts: a class is safe from the moment everyone knows of it.         *)

Tells(claim) == isConditionTrue(claim, "StorageClassCreated")

\* The claim says that it has a class and carries the finalizer, and neither the cache
\* nor the current pass remembers it otherwise.
ClassRecorded ==
    /\ fsc.exists /\ fsc.fin /\ Tells(fsc)
    /\ cache.exists => Tells(cache)
    /\ pc # "idle" => Tells(mem)

\* Once everyone knows of the class, no step of the controller, of a late pass or of a
\* user takes back the record, the finalizer or the claim while the class is there: the
\* class outlives none of them.
ClassGoesFirst == [][ClassRecorded /\ sc # "absent" => ClassRecorded']_vars

\* The filesystem is there to stay, as far as anyone knows.
Held == ClassRecorded /\ FSExists /\ ~fs.del

\* A volume that is still claimed, or was and has kept its data.
HoldsData == pv \in {"Bound", "Released"}

\* A volume that is in use keeps its filesystem, and the record and the finalizer that
\* protect it, until the volume is given up: the controller looks for volumes once, at
\* the start of a deletion, and deletes the filesystem passes later.
UsedVolumesHold ==
    [][Held /\ HoldsData => Held' \/ ~HoldsData']_vars

KnownContract == INSTANCE ClaimContract WITH
    claim <- IF ~fsc.exists THEN "none" ELSE IF fsc.del THEN "deleting" ELSE "live",
    stored <- fs.st # "absent",
    served <- Held /\ sc # "absent"

\* The contract, where a class counts as served once everyone knows of it: it is kept
\* by a controller with a lagging cache, failing calls and restarts as well.
KeepsKnownContract == KnownContract!ContractSpec
=============================================================================
