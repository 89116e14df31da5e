----------------------------- MODULE FusionAccess -----------------------------
(***************************************************************************)
(* The FusionAccess controller: internal/controller/                       *)
(* fusionaccess_controller.go with the helpers its pass calls (secret.go,  *)
(* imageregistry, kernelmodule, console, localvolumediscovery, the image   *)
(* check of internal/utils) and the webhook that admits the object.        *)
(*                                                                         *)
(* A pass installs the Storage Scale version bundled with the operator.    *)
(* Before the version changes it creates a PodDisruptionBudget that keeps  *)
(* node drains from killing the build of the kernel module, and removes it *)
(* when the build is over.  Unlike the claim controller it writes with     *)
(* optimistic concurrency: a write from an outdated copy fails.            *)
(***************************************************************************)
EXTENDS Naturals, FiniteSets

CONSTANTS
    Versions,     \* the versions operator images bundle are 1..Versions
    Namespaces,   \* namespaces that get the entitlement secret
    OurNs,        \* the operator's own, where the image check runs
    CalmUpgrades, \* are upgrades rolled out only when no build and no budget is around?
    Requests,     \* what users ask for when they create the object
    Registries,   \* where module images may go at first
    Upsets,       \* kinds of disturbance the environment may cause
    MaxUpsets,
    MaxFaults     \* failed calls and restarts

Manifests == {"bundled", "external", "disallowed"}
RegistryKinds == {"external", "persistent", "emptyDir"}

ASSUME FusionAssumption ==
    /\ Versions \in Nat \ {0} /\ OurNs \in Namespaces
    /\ Requests \subseteq [url: Manifests, discover: BOOLEAN, named: BOOLEAN]
    /\ Registries \subseteq RegistryKinds
    /\ CalmUpgrades \in BOOLEAN /\ MaxUpsets \in Nat /\ MaxFaults \in Nat

VARIABLES
    fa,         \* the FusionAccess object as stored
    dirty,      \* stored in a version the informer has not delivered
    cache,      \* the informer's copy
    queued,     \* its key is in the work queue
    pc, mem,    \* the handler the pass is in and its copy of the object
    fresh,      \* is that copy of the stored version?
    bundled,    \* the version in the running operator's image
    applied,    \* the manifest last applied to the cluster
    pdb,        \* the PodDisruptionBudget
    overdue,    \* moduleBuildTimeLimit has passed since the budget was created
    secret,     \* the user's pull secret
    entitled,   \* the entitlement secret of each namespace
    registry,   \* where module images go, and the storage behind it
    module,     \* the version the KMM Module builds, 0 when there is none
    builds,     \* the Build object of each version
    built,      \* versions whose module image exists
    pod,        \* the image check's pod
    plugin, lvd,  \* the console plugin and the LocalVolumeDiscovery
    faults, upsets

objVars == <<fa, dirty, cache>>
passVars == <<pc, mem, fresh>>
kmmVars == <<module, builds, built>>
ownVars == <<entitled, plugin, lvd>>
envVars == <<bundled, overdue, secret, registry, upsets>>
vars == <<objVars, queued, passVars, applied, pdb, kmmVars, ownVars, pod, envVars, faults>>

----------------------------------------------------------------------------

\* Manifests and module images are numbered: none, the bundled ones, the user's own.
External == Versions + 1
Installs == 0..External
Keys == {"none", "good", "bad"}
Conditions == {"ManifestApply", "ImageRegistryStorage", "ImagePull"}

Objects == [exists: BOOLEAN, ver: 0..Versions, url: Manifests, discover: BOOLEAN,
            status: {"", "Error", "ErrImagePull", "Ready"},
            cond: [Conditions -> {"None", "True", "False"}]]

NoObject == [exists |-> FALSE, ver |-> 0, url |-> "bundled", discover |-> FALSE,
             status |-> "", cond |-> [c \in Conditions |-> "None"]]

NoBudget == [exists |-> FALSE, label |-> FALSE]
NoPod == [st |-> "none", del |-> FALSE]

\* getIbmManifest: what a pass over the object installs.
Target(obj) == IF obj.url = "external" THEN External ELSE bundled

\* haveBuilds: any Build in the namespace counts, running or not.
haveBuilds == \E v \in 1..External : builds[v] # "none"

----------------------------------------------------------------------------
(* Control of a pass.                                                      *)

Goto(l) == pc' = l /\ UNCHANGED <<objVars, queued, mem, fresh>>

EndPass(requeue) ==
    /\ pc' = "idle" /\ mem' = NoObject /\ fresh' = FALSE
    /\ queued' = (queued \/ requeue)

Return == EndPass(FALSE) /\ UNCHANGED objVars
Error == EndPass(TRUE) /\ UNCHANGED objVars

\* Update and Status().Update from the pass's copy: refused when the object has
\* changed since.  One that changes nothing is no event.
Write_Forced(new) ==  \* mistake: a patch that carries no resource version
    /\ fa.exists /\ fa' = [fa EXCEPT !.status = new.status, !.cond = new.cond]
    /\ dirty' = (dirty \/ fa' # fa) /\ UNCHANGED cache

Write(new) ==
    /\ fresh /\ fa' = new
    /\ dirty' = (dirty \/ new # fa) /\ UNCHANGED cache

Conflict == ~fresh /\ Error

\* Mistake: a copy is updated, and the pass goes on with the object it was made from.
StatusUpdate_Copy(new, l) ==
    \/ Write(new) /\ pc' = l /\ UNCHANGED <<mem, fresh, queued>>
    \/ Conflict

\* A status update after which the pass goes on at l ...
StatusUpdate(new, l) ==
    \/ Write(new) /\ mem' = new /\ pc' = l /\ UNCHANGED <<fresh, queued>>
    \/ Conflict

\* ... or ends, the error it reports requeueing the key.
StatusError(status, c) ==
    \/ Write([mem EXCEPT !.status = status, !.cond[c] = "False"]) /\ EndPass(TRUE)
    \/ Conflict

CanFail == faults < MaxFaults /\ faults' = faults + 1

Met(c) == [mem EXCEPT !.cond[c] = "True"]

----------------------------------------------------------------------------
(* The pass.                                                               *)

\* A pass over an object with a manifest URL that is not allowed fails at once.
Reconcile ==
    /\ pc = "idle" /\ queued
    /\ queued' = (cache.exists /\ cache.url = "disallowed")
    /\ \/ ~(cache.exists /\ cache.url # "disallowed") /\ UNCHANGED passVars
       \/ /\ cache.exists /\ cache.url # "disallowed"
          /\ mem' = cache /\ fresh' = ~dirty
          /\ pc' = IF cache.url = "bundled" /\ cache.ver # bundled
                   THEN "createPodDisruptionBudget" ELSE "applyManifest"
    /\ UNCHANGED <<objVars, applied, pdb, kmmVars, ownVars, pod, envVars, faults>>

\* CreateOrUpdate: a budget that is there keeps its label and its age.
createPodDisruptionBudget ==
    /\ pc = "createPodDisruptionBudget"
    /\ pdb' = [pdb EXCEPT !.exists = TRUE]
    /\ overdue' = (pdb.exists /\ overdue)
    /\ Goto("updateStorageScaleVersion")
    /\ UNCHANGED <<applied, kmmVars, ownVars, pod, bundled, secret, registry, upsets, faults>>

updateStorageScaleVersion ==
    /\ pc = "updateStorageScaleVersion"
    /\ \/ Write([mem EXCEPT !.ver = bundled]) /\ EndPass(TRUE)
       \/ Conflict
    /\ UNCHANGED <<applied, pdb, kmmVars, ownVars, pod, envVars, faults>>

\* Applying a manifest writes many objects; a failure may come before or after the
\* one that names the core image.
applyManifest ==
    /\ pc = "applyManifest"
    /\ \/ applied' = Target(mem) /\ Goto("recordApply") /\ UNCHANGED faults
       \/ /\ CanFail /\ applied' \in {applied, Target(mem)}
          /\ StatusError("Error", "ManifestApply")
    /\ UNCHANGED <<pdb, kmmVars, ownVars, pod, envVars>>

recordApply ==
    /\ pc = "recordApply"
    /\ StatusUpdate(Met("ManifestApply"), "managePodDisruptionBudget")
    /\ UNCHANGED <<applied, pdb, kmmVars, ownVars, pod, envVars, faults>>

\* Mistake: the budget goes as soon as there is no build, also before the first.
managePodDisruptionBudget_NoLabel ==
    /\ pc = "managePodDisruptionBudget"
    /\ \/ pdb.exists /\ ~haveBuilds /\ pdb' = NoBudget /\ Goto("updateEntitlementPullSecrets")
       \/ ~(pdb.exists /\ ~haveBuilds) /\ pdb' = pdb /\ Goto("updateEntitlementPullSecrets")
    /\ UNCHANGED <<applied, kmmVars, ownVars, pod, envVars, faults>>

\* Mistake: there is no time limit.
managePodDisruptionBudget_NoLimit ==
    /\ pc = "managePodDisruptionBudget"
    /\ LET labels == pdb.exists /\ haveBuilds /\ ~pdb.label
           deletes == pdb.exists /\ ~haveBuilds /\ pdb.label
       IN  \/ labels /\ pdb' = [pdb EXCEPT !.label = TRUE] /\ Return
           \/ deletes /\ pdb' = NoBudget /\ Goto("updateEntitlementPullSecrets")
           \/ ~labels /\ ~deletes /\ pdb' = pdb /\ Goto("updateEntitlementPullSecrets")
    /\ UNCHANGED <<applied, kmmVars, ownVars, pod, envVars, faults>>

\* The label records that a build was seen; setting it ends the pass.
managePodDisruptionBudget ==
    /\ pc = "managePodDisruptionBudget"
    /\ LET labels == pdb.exists /\ haveBuilds /\ ~pdb.label
           deletes == pdb.exists /\ ~haveBuilds /\ (pdb.label \/ overdue)
       IN  \/ labels /\ pdb' = [pdb EXCEPT !.label = TRUE] /\ Return
           \/ deletes /\ pdb' = NoBudget /\ Goto("updateEntitlementPullSecrets")
           \/ ~labels /\ ~deletes /\ pdb' = pdb /\ Goto("updateEntitlementPullSecrets")
    /\ UNCHANGED <<applied, kmmVars, ownVars, pod, envVars, faults>>

\* getPullSecretContent, updateEntitlementPullSecrets: without a usable pull secret
\* everything that needs it is skipped; otherwise each namespace gets a secret, ours
\* first, and the first failure ends the loop.
updateEntitlementPullSecrets ==
    /\ pc = "updateEntitlementPullSecrets"
    /\ \/ secret = "none" /\ Goto("EnablePlugin") /\ UNCHANGED <<entitled, faults>>
       \/ /\ secret # "none"
          /\ entitled' = [n \in Namespaces |-> secret]
          /\ Goto("CheckImageRegistryStorage") /\ UNCHANGED faults
       \/ /\ secret # "none" /\ CanFail
          /\ \E S \in (SUBSET Namespaces) \ {Namespaces} :
                /\ S = {} \/ OurNs \in S
                /\ entitled' = [n \in Namespaces |-> IF n \in S THEN secret ELSE entitled[n]]
          /\ Error
    /\ UNCHANGED <<applied, pdb, kmmVars, plugin, lvd, pod, envVars>>

\* Mistake: the error is recorded but not returned, so nothing retries.
CheckImageRegistryStorage_Swallowed ==
    /\ pc = "CheckImageRegistryStorage"
    /\ \/ registry = "external" /\ Goto("CreateOrUpdateKMMResources")
       \/ /\ registry = "persistent"
          /\ StatusUpdate(Met("ImageRegistryStorage"), "CreateOrUpdateKMMResources")
       \/ /\ registry = "emptyDir" /\ EndPass(FALSE)
          /\ Write([mem EXCEPT !.status = "Error", !.cond["ImageRegistryStorage"] = "False"])
    /\ UNCHANGED <<applied, pdb, kmmVars, ownVars, pod, envVars, faults>>

\* The storage matters only when the images go to the internal registry; a failure to
\* look it up is reported like bad storage.
CheckImageRegistryStorage ==
    /\ pc = "CheckImageRegistryStorage"
    /\ \/ registry = "external" /\ Goto("CreateOrUpdateKMMResources") /\ UNCHANGED faults
       \/ /\ registry = "persistent" /\ UNCHANGED faults
          /\ StatusUpdate(Met("ImageRegistryStorage"), "CreateOrUpdateKMMResources")
       \/ /\ registry = "emptyDir" /\ UNCHANGED faults
          /\ StatusError("Error", "ImageRegistryStorage")
       \/ registry = "persistent" /\ CanFail /\ StatusError("Error", "ImageRegistryStorage")
    /\ UNCHANGED <<applied, pdb, kmmVars, ownVars, pod, envVars>>

\* The Module is built from the core image the applied manifest names.
CreateOrUpdateKMMResources ==
    /\ pc = "CreateOrUpdateKMMResources"
    /\ module' = applied /\ Goto("EnablePlugin")
    /\ UNCHANGED <<applied, pdb, builds, built, ownVars, pod, envVars, faults>>

\* CreateOrUpdatePlugin and EnablePlugin; the image check needs a version.
EnablePlugin ==
    /\ pc = "EnablePlugin"
    /\ plugin' = TRUE
    /\ Goto(IF mem.ver # 0 THEN "CreateImageCheckPod" ELSE "CreateOrUpdateLocalVolumeDiscovery")
    /\ UNCHANGED <<applied, pdb, kmmVars, entitled, lvd, pod, envVars, faults>>

\* A pod of that name that is still there, even on its way out, is used.
CreateImageCheckPod ==
    /\ pc = "CreateImageCheckPod"
    /\ \/ /\ pod' = IF pod.st = "none" THEN [NoPod EXCEPT !.st = "waiting"] ELSE pod
          /\ Goto("PollPodPullStatus") /\ UNCHANGED faults
       \/ pod.st = "none" /\ CanFail /\ pod' = pod /\ Goto("recordNoPull")
    /\ UNCHANGED <<applied, pdb, kmmVars, ownVars, envVars>>

Deleted(p) == [p EXCEPT !.del = (p.st # "none")]

\* CanPullImage waits without a time limit and takes a failed read for a failed pull.
\* The pod is deleted on the way out; whether that succeeds is ignored.
PollPodPullStatus ==
    /\ pc = "PollPodPullStatus"
    /\ \/ /\ pod.st # "waiting" /\ Goto(IF pod.st = "ran" THEN "recordPull" ELSE "recordNoPull")
          /\ \/ pod' = Deleted(pod) /\ UNCHANGED faults
             \/ pod' = pod /\ CanFail
       \/ pod' = Deleted(pod) /\ CanFail /\ Goto("recordNoPull")
    /\ UNCHANGED <<applied, pdb, kmmVars, ownVars, envVars>>

\* The status is emptied until the end of the pass.
recordPull ==
    /\ \/ /\ pc = "recordPull"
          /\ StatusUpdate([Met("ImagePull") EXCEPT !.status = ""],
                          "CreateOrUpdateLocalVolumeDiscovery")
       \/ pc = "recordNoPull" /\ StatusError("ErrImagePull", "ImagePull")
    /\ UNCHANGED <<applied, pdb, kmmVars, ownVars, pod, envVars, faults>>

CreateOrUpdateLocalVolumeDiscovery ==
    /\ pc = "CreateOrUpdateLocalVolumeDiscovery"
    /\ lvd' = (lvd \/ mem.discover) /\ Goto("recordReady")
    /\ UNCHANGED <<applied, pdb, kmmVars, entitled, plugin, pod, envVars, faults>>

recordReady ==
    /\ pc = "recordReady"
    /\ \/ Write([mem EXCEPT !.status = "Ready"]) /\ EndPass(FALSE)
       \/ Conflict
    /\ UNCHANGED <<applied, pdb, kmmVars, ownVars, pod, envVars, faults>>

\* Any other call of the pass returns an error.
ApiError ==
    /\ pc \notin {"idle", "CreateImageCheckPod", "PollPodPullStatus"} /\ CanFail /\ Error
    /\ UNCHANGED <<applied, pdb, kmmVars, ownVars, pod, envVars>>

Handler ==
    \/ Reconcile \/ createPodDisruptionBudget \/ updateStorageScaleVersion
    \/ applyManifest \/ recordApply \/ managePodDisruptionBudget
    \/ updateEntitlementPullSecrets \/ CheckImageRegistryStorage
    \/ CreateOrUpdateKMMResources \/ EnablePlugin
    \/ CreateImageCheckPod \/ PollPodPullStatus \/ recordPull
    \/ CreateOrUpdateLocalVolumeDiscovery \/ recordReady

----------------------------------------------------------------------------
(* Wake-ups and restarts.                                                  *)

\* Every version of the object is an event; there is no predicate.
InformerSync ==
    /\ dirty /\ cache' = fa /\ dirty' = FALSE /\ queued' = TRUE
    /\ UNCHANGED <<fa, passVars, applied, pdb, kmmVars, ownVars, pod, envVars, faults>>

\* fusionAccessHandler: an event about another object wakes the only FusionAccess.
fusionAccessHandler == queued' = (queued \/ cache.exists)

\* The process starts anew and lists what there is.
Restart ==
    /\ pc' = "idle" /\ mem' = NoObject /\ fresh' = FALSE
    /\ fa' = fa /\ cache' = fa /\ dirty' = FALSE /\ queued' = fa.exists

Crash ==
    /\ CanFail /\ Restart
    /\ UNCHANGED <<applied, pdb, kmmVars, ownVars, pod, envVars>>

\* The operator is replaced by one that bundles the next version.
Upgrade ==
    /\ bundled < Versions /\ bundled' = bundled + 1
    /\ CalmUpgrades => ~pdb.exists /\ ~haveBuilds /\ module \in built
    /\ Restart
    /\ UNCHANGED <<applied, pdb, kmmVars, ownVars, pod, overdue, secret, registry, upsets, faults>>

----------------------------------------------------------------------------
(* Users.                                                                  *)

\* ValidateCreate admits one object, which may name the version or leave it out.
CreateFusionAccess ==
    /\ ~fa.exists /\ ~cache.exists
    /\ \E r \in Requests :
          fa' = [NoObject EXCEPT !.exists = TRUE, !.url = r.url, !.discover = r.discover,
                                 !.ver = IF r.named THEN bundled ELSE 0]
    /\ dirty' = TRUE /\ fresh' = FALSE
    /\ UNCHANGED <<cache, queued, pc, mem, applied, pdb, kmmVars, ownVars, pod, envVars, faults>>

Upset(kind) == kind \in Upsets /\ upsets < MaxUpsets /\ upsets' = upsets + 1

\* ValidateUpdate and ValidateDelete admit every change; there is no finalizer.
EditFusionAccess ==
    /\ fa.exists
    /\ \/ Upset("url") /\ \E u \in Manifests \ {fa.url} : fa' = [fa EXCEPT !.url = u]
       \/ Upset("version") /\ fa.ver # 0 /\ fa' = [fa EXCEPT !.ver = 0]
       \/ Upset("delete") /\ fa' = NoObject
    /\ dirty' = TRUE /\ fresh' = FALSE
    /\ UNCHANGED <<cache, queued, pc, mem, applied, pdb, kmmVars, ownVars, pod,
                   bundled, overdue, secret, registry, faults>>

\* isItOurPullSecret: creation and update are events, deletion is not.
ChangePullSecret ==
    /\ \/ Upset("secret") /\ secret' \in Keys \ {secret}
       \/ secret # "good" /\ secret' = "good" /\ UNCHANGED upsets
    /\ \/ secret' # "none" /\ fusionAccessHandler
       \/ secret' = "none" /\ UNCHANGED queued
    /\ UNCHANGED <<objVars, passVars, applied, pdb, kmmVars, ownVars, pod,
                   bundled, overdue, registry, faults>>

\* didTheKmmConfigMapChange: pointing KMM to another registry is an event, changing
\* the storage of the internal one is not; didTheRegistrySecretChange: a new secret of
\* the registry in use is one, too.
ChangeRegistry ==
    /\ \/ Upset("registry") /\ registry' \in RegistryKinds \ {registry}
       \/ registry = "emptyDir" /\ registry' = "persistent" /\ UNCHANGED upsets
       \/ Upset("rotation") /\ registry' = registry
    /\ IF registry' = registry \/ "external" \in {registry, registry'} THEN fusionAccessHandler ELSE UNCHANGED queued
    /\ UNCHANGED <<objVars, passVars, applied, pdb, kmmVars, ownVars, pod,
                   bundled, overdue, secret, faults>>

----------------------------------------------------------------------------
(* The cluster: time, KMM and the kubelet.                                 *)

TimePasses ==
    /\ pdb.exists /\ ~overdue /\ overdue' = TRUE
    /\ UNCHANGED <<objVars, queued, passVars, applied, pdb, kmmVars, ownVars, pod,
                   bundled, secret, registry, upsets, faults>>

\* KMM builds the image it does not find, or builds again for a new kernel.  The
\* creation of a Build is no event (isBuildUpdateOrDelete).
StartBuild ==
    /\ module # 0 /\ builds[module] = "none"
    /\ \/ module \notin built /\ UNCHANGED upsets
       \/ module \in built /\ Upset("rebuild")
    /\ builds' = [builds EXCEPT ![module] = "running"]
    /\ UNCHANGED <<objVars, queued, passVars, applied, pdb, module, built, ownVars, pod,
                   bundled, overdue, secret, registry, faults>>

\* Other updates of a Build are events as well.
BuildProgress ==
    /\ \E v \in 1..External : builds[v] = "running"
    /\ fusionAccessHandler
    /\ UNCHANGED <<objVars, passVars, applied, pdb, kmmVars, ownVars, pod, envVars, faults>>

FinishBuild ==
    /\ \E v \in 1..External :
          /\ builds[v] = "running"
          /\ builds' = [builds EXCEPT ![v] = "complete"] /\ built' = built \cup {v}
    /\ fusionAccessHandler
    /\ UNCHANGED <<objVars, passVars, applied, pdb, module, ownVars, pod, envVars, faults>>

CollectBuild ==
    /\ \E v \in 1..External :
          /\ builds[v] = "complete"
          /\ builds' = [builds EXCEPT ![v] = "none"]
    /\ fusionAccessHandler
    /\ UNCHANGED <<objVars, passVars, applied, pdb, module, built, ownVars, pod, envVars, faults>>

\* The check's pod runs when the operator's namespace is entitled; the cluster's own
\* pull secret may do as well.  The kubelet keeps trying.
Kubelet ==
    /\ \/ /\ pod.st \in {"waiting", "failed"}
          /\ \/ pod' = [pod EXCEPT !.st = "ran"]
             \/ pod' = [pod EXCEPT !.st = "failed"] /\ entitled[OurNs] # "good"
       \/ pod.del /\ pod' = NoPod
    /\ UNCHANGED <<objVars, queued, passVars, applied, pdb, kmmVars, ownVars, envVars, faults>>

----------------------------------------------------------------------------

Init ==
    /\ fa = NoObject /\ cache = NoObject /\ mem = NoObject
    /\ dirty = FALSE /\ queued = FALSE /\ fresh = FALSE /\ pc = "idle"
    /\ bundled = 1 /\ applied = 0 /\ pdb = NoBudget /\ overdue = FALSE
    /\ secret = "none" /\ entitled = [n \in Namespaces |-> "none"]
    /\ registry \in Registries
    /\ module = 0 /\ builds = [v \in 1..External |-> "none"] /\ built = {}
    /\ pod = NoPod /\ plugin = FALSE /\ lvd = FALSE
    /\ faults = 0 /\ upsets = 0

User == CreateFusionAccess \/ EditFusionAccess \/ ChangePullSecret \/ ChangeRegistry
Cluster == TimePasses \/ StartBuild \/ BuildProgress \/ FinishBuild \/ CollectBuild \/ Kubelet

Next == Handler \/ ApiError \/ InformerSync \/ Crash \/ Upgrade \/ User \/ Cluster

Spec == Init /\ [][Next]_vars

\* The worker, the informer, the clock, KMM and the kubelet keep going, and users
\* provide a valid key and storage.
FairSpec ==
    /\ Spec
    /\ WF_vars(Handler) /\ WF_vars(InformerSync) /\ WF_vars(TimePasses)
    /\ WF_vars(StartBuild /\ upsets' = upsets) /\ WF_vars(FinishBuild) /\ WF_vars(CollectBuild)
    /\ WF_vars(Kubelet)
    /\ WF_vars(ChangePullSecret /\ upsets' = upsets)
    /\ WF_vars(ChangeRegistry /\ upsets' = upsets)

----------------------------------------------------------------------------
(* Properties.                                                             *)

Pcs == {"idle", "createPodDisruptionBudget", "updateStorageScaleVersion", "applyManifest",
        "recordApply", "managePodDisruptionBudget", "updateEntitlementPullSecrets",
        "CheckImageRegistryStorage", "CreateOrUpdateKMMResources", "EnablePlugin",
        "CreateImageCheckPod", "PollPodPullStatus", "recordPull", "recordNoPull",
        "CreateOrUpdateLocalVolumeDiscovery", "recordReady"}

\* Every variable keeps its type; a copy that counts as fresh differs from the
\* stored object in nothing a write would have to preserve.
TypeOK ==
    /\ fa \in Objects /\ cache \in Objects /\ mem \in Objects
    /\ {dirty, queued, fresh, overdue, plugin, lvd} \subseteq BOOLEAN /\ pc \in Pcs
    /\ bundled \in 1..Versions /\ applied \in Installs /\ module \in Installs
    /\ pdb \in [exists: BOOLEAN, label: BOOLEAN] /\ secret \in Keys
    /\ entitled \in [Namespaces -> Keys]
    /\ registry \in RegistryKinds
    /\ builds \in [1..External -> {"none", "running", "complete"}]
    /\ built \subseteq 1..External
    /\ pod \in [st: {"none", "waiting", "ran", "failed"}, del: BOOLEAN]
    /\ faults \in 0..MaxFaults /\ upsets \in 0..MaxUpsets
    /\ fresh => fa = mem

\* The first build of a version the operator was upgraded to runs under the budget,
\* unless the time limit has passed: the budget is there before the version changes,
\* and a pass that finds no build leaves it until one was seen.
BuildProtected ==
    \A v \in 2..Versions : builds[v] = "running" /\ v \notin built => pdb.exists \/ overdue

\* Ready is written only when the pass has installed what the stored object asks for
\* by then, although users edit it while the pass runs.
ReadyForThisSpec ==
    [][fa.status # "Ready" /\ fa'.status = "Ready" =>
          /\ applied = Target(fa')
          /\ fa'.url = "bundled" => fa'.ver = bundled
          /\ fa'.cond["ManifestApply"] = "True" /\ plugin
          /\ fa'.discover => lvd]_vars

\* The bundled version gets installed and its module built, whatever was wrong with
\* the key or the registry's storage before.
UpgradeCompletes ==
    (fa.exists /\ fa.url = "bundled")
        ~> \/ applied = bundled /\ module = bundled /\ module \in built
           \/ ~fa.exists \/ fa.url # "bundled"

\* While the bundled version is asked for, the budget goes away again, also when no
\* build ever comes.
BudgetGoesAway ==
    pdb.exists ~> (~pdb.exists \/ ~fa.exists \/ fa.url # "bundled")
=============================================================================
