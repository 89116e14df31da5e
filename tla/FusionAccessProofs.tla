-------------------------- MODULE FusionAccessProofs --------------------------
(***************************************************************************)
(* Theorems about FusionAccess for any versions, namespaces and bounds:    *)
(* the type invariant, that Ready is written for what was installed, and   *)
(* that calm upgrades build their module under the budget.                 *)
(***************************************************************************)
EXTENDS FusionAccess, TLAPS

(* The type invariant by owner of the variables.  A copy the informer has  *)
(* delivered is of the stored version: that makes a pass's copy fresh.     *)

Synced == ~dirty => cache = fa

ObjOK ==
    /\ fa \in Objects /\ cache \in Objects /\ mem \in Objects
    /\ dirty \in BOOLEAN /\ queued \in BOOLEAN /\ fresh \in BOOLEAN /\ pc \in Pcs
    /\ fresh => fa = mem
    /\ Synced
OwnOK ==
    /\ applied \in Installs /\ module \in Installs
    /\ pdb \in [exists: BOOLEAN, label: BOOLEAN]
    /\ entitled \in [Namespaces -> Keys] /\ plugin \in BOOLEAN /\ lvd \in BOOLEAN
    /\ builds \in [1..External -> {"none", "running", "complete"}]
    /\ built \subseteq 1..External
    /\ pod \in [st: {"none", "waiting", "ran", "failed"}, del: BOOLEAN]
EnvOK ==
    /\ bundled \in 1..Versions /\ overdue \in BOOLEAN /\ secret \in Keys
    /\ registry \in RegistryKinds
CountOK == faults \in 0..MaxFaults /\ upsets \in 0..MaxUpsets

Typed == ObjOK /\ OwnOK /\ EnvOK /\ CountOK

LEMMA TypeParts == Typed => TypeOK
  BY DEF Typed, TypeOK, ObjOK, OwnOK, EnvOK, CountOK

LEMMA BlankObject == NoObject \in Objects
<1>1. Versions \in Nat BY FusionAssumption
<1>2. [c \in Conditions |-> "None"] \in [Conditions -> {"None", "True", "False"}] OBVIOUS
<1>3. 0 \in 0..Versions BY <1>1
<1>4. QED BY <1>2, <1>3 DEF NoObject, Objects, Manifests

LEMMA TargetType == ASSUME EnvOK, NEW o \in Objects PROVE Target(o) \in Installs
<1>1. Versions \in Nat BY FusionAssumption
<1>2. QED BY <1>1 DEF EnvOK, Target, Installs, External

\* What a pass writes to its copy is an object.
LEMMA CopyType ==
    ASSUME NEW o \in Objects, NEW c \in Conditions,
           NEW r \in {"None", "True", "False"},
           NEW s \in {"", "Error", "ErrImagePull", "Ready"}
    PROVE  /\ [o EXCEPT !.cond[c] = r] \in Objects
           /\ [o EXCEPT !.status = s] \in Objects
           /\ [o EXCEPT !.status = s, !.cond[c] = r] \in Objects
<1>1. [o.cond EXCEPT ![c] = r] \in [Conditions -> {"None", "True", "False"}] BY DEF Objects
<1>2. QED BY <1>1 DEF Objects

LEMMA VersionType ==
    ASSUME NEW o \in Objects, NEW v \in 0..Versions PROVE [o EXCEPT !.ver = v] \in Objects
  BY DEF Objects

----------------------------------------------------------------------------
(* What the control of a pass keeps.                                       *)

LEMMA GotoType == ASSUME ObjOK, NEW l \in Pcs, Goto(l) PROVE ObjOK'
  BY DEF ObjOK, Synced, Goto, objVars

LEMMA EndPassType ==
    ASSUME ObjOK, NEW q \in BOOLEAN, EndPass(q), UNCHANGED objVars PROVE ObjOK'
<1>1. queued' \in BOOLEAN BY DEF ObjOK, EndPass
<1>2. QED BY <1>1, BlankObject DEF ObjOK, Synced, EndPass, objVars, Pcs

LEMMA WriteType ==
    ASSUME ObjOK, NEW new \in Objects, Write(new)
    PROVE fa' = new /\ fa = mem /\ cache' = cache /\ dirty' \in BOOLEAN /\ Synced'
<1>1. /\ fa' = new /\ cache' = cache /\ fa = mem /\ dirty' = (dirty \/ new # fa)
  BY DEF ObjOK, Write
<1>2. dirty' \in BOOLEAN BY <1>1
<1>3. Synced' BY <1>1 DEF Synced, ObjOK
<1>4. QED BY <1>1, <1>2, <1>3

LEMMA WriteEndType ==
    ASSUME ObjOK, NEW new \in Objects, NEW q \in BOOLEAN, Write(new), EndPass(q) PROVE ObjOK'
<1>1. fa' = new /\ cache' = cache /\ dirty' \in BOOLEAN /\ Synced' BY WriteType
<1>2. queued' \in BOOLEAN BY DEF ObjOK, EndPass
<1>3. QED BY <1>1, <1>2, BlankObject DEF ObjOK, EndPass, Pcs

LEMMA ConflictType == ASSUME ObjOK, Conflict PROVE ObjOK'
  BY EndPassType DEF Conflict, Error

LEMMA StatusUpdateType ==
    ASSUME ObjOK, NEW new \in Objects, NEW l \in Pcs, StatusUpdate(new, l) PROVE ObjOK'
<1>1. CASE Conflict BY <1>1, ConflictType
<1>2. CASE Write(new) /\ mem' = new /\ pc' = l /\ UNCHANGED <<fresh, queued>>
  <2>1. fa' = new /\ cache' = cache /\ dirty' \in BOOLEAN /\ Synced' BY <1>2, WriteType
  <2>2. QED BY <1>2, <2>1 DEF ObjOK
<1>3. QED BY <1>1, <1>2 DEF StatusUpdate

LEMMA StatusErrorType ==
    ASSUME ObjOK, NEW s \in {"Error", "ErrImagePull"}, NEW c \in Conditions, StatusError(s, c)
    PROVE ObjOK'
<1>1. CASE Conflict BY <1>1, ConflictType
<1>2. CASE Write([mem EXCEPT !.status = s, !.cond[c] = "False"]) /\ EndPass(TRUE)
  <2>1. [mem EXCEPT !.status = s, !.cond[c] = "False"] \in Objects BY CopyType DEF ObjOK
  <2>2. QED BY <1>2, <2>1, WriteEndType
<1>3. QED BY <1>1, <1>2 DEF StatusError

LEMMA FailType == ASSUME CountOK, CanFail PROVE faults' \in 0..MaxFaults
<1>1. MaxFaults \in Nat BY FusionAssumption
<1>2. QED BY <1>1 DEF CountOK, CanFail

LEMMA UpsetType == ASSUME CountOK, NEW k, Upset(k) PROVE upsets' \in 0..MaxUpsets
<1>1. MaxUpsets \in Nat BY FusionAssumption
<1>2. QED BY <1>1 DEF CountOK, Upset

----------------------------------------------------------------------------
(* The type invariant, action by action.                                   *)

LEMMA ReconcileType == ASSUME Typed, Reconcile PROVE Typed'
<1>1. (OwnOK /\ EnvOK /\ CountOK)'
  BY DEF Typed, OwnOK, EnvOK, CountOK, Reconcile, kmmVars, ownVars, envVars
<1>2. ObjOK'
  <2>1. queued' \in BOOLEAN BY DEF Reconcile
  <2>2. UNCHANGED <<fa, dirty, cache>> BY DEF Reconcile, objVars
  <2>3. CASE UNCHANGED passVars
    BY <2>1, <2>2, <2>3 DEF Typed, ObjOK, Synced, passVars
  <2>4. CASE /\ mem' = cache /\ fresh' = ~dirty
             /\ pc' = IF cache.url = "bundled" /\ cache.ver # bundled
                      THEN "createPodDisruptionBudget" ELSE "applyManifest"
    BY <2>1, <2>2, <2>4 DEF Typed, ObjOK, Synced, Pcs
  <2>5. QED BY <2>3, <2>4 DEF Reconcile
<1>3. QED BY <1>1, <1>2 DEF Typed

LEMMA createPodDisruptionBudgetType == ASSUME Typed, createPodDisruptionBudget PROVE Typed'
<1>1. ObjOK' BY GotoType DEF Typed, createPodDisruptionBudget, Pcs
<1>2. OwnOK' BY DEF Typed, OwnOK, createPodDisruptionBudget, kmmVars, ownVars
<1>3. (EnvOK /\ CountOK)' BY DEF Typed, EnvOK, CountOK, createPodDisruptionBudget
<1>4. QED BY <1>1, <1>2, <1>3 DEF Typed

LEMMA updateStorageScaleVersionType == ASSUME Typed, updateStorageScaleVersion PROVE Typed'
<1>1. ObjOK'
  <2>1. Versions \in Nat BY FusionAssumption
  <2>2. bundled \in 0..Versions BY <2>1 DEF Typed, EnvOK
  <2>3. [mem EXCEPT !.ver = bundled] \in Objects BY <2>2, VersionType DEF Typed, ObjOK
  <2>4. QED BY <2>3, WriteEndType, ConflictType DEF Typed, updateStorageScaleVersion
<1>2. (OwnOK /\ EnvOK /\ CountOK)'
  BY DEF Typed, OwnOK, EnvOK, CountOK, updateStorageScaleVersion, kmmVars, ownVars, envVars
<1>3. QED BY <1>1, <1>2 DEF Typed

LEMMA applyManifestType == ASSUME Typed, applyManifest PROVE Typed'
<1>1. Target(mem) \in Installs BY TargetType DEF Typed, ObjOK
<1>2. (OwnOK /\ EnvOK)'
  BY <1>1 DEF Typed, OwnOK, EnvOK, applyManifest, kmmVars, ownVars, envVars
<1>3. CASE Goto("recordApply") /\ UNCHANGED faults
  BY <1>2, <1>3, GotoType DEF Typed, Pcs, CountOK, applyManifest, envVars
<1>4. CASE CanFail /\ StatusError("Error", "ManifestApply")
  BY <1>2, <1>4, StatusErrorType, FailType
     DEF Typed, CountOK, Conditions, applyManifest, envVars
<1>5. QED BY <1>3, <1>4 DEF applyManifest

LEMMA MetType == ASSUME ObjOK, NEW c \in Conditions PROVE Met(c) \in Objects
  BY CopyType DEF ObjOK, Met

LEMMA recordApplyType == ASSUME Typed, recordApply PROVE Typed'
<1>1. ObjOK' BY MetType, StatusUpdateType DEF Typed, recordApply, Conditions, Pcs
<1>2. (OwnOK /\ EnvOK /\ CountOK)'
  BY DEF Typed, OwnOK, EnvOK, CountOK, recordApply, kmmVars, ownVars, envVars
<1>3. QED BY <1>1, <1>2 DEF Typed

LEMMA managePodDisruptionBudgetType == ASSUME Typed, managePodDisruptionBudget PROVE Typed'
<1>1. ObjOK'
  <2>1. Return \/ Goto("updateEntitlementPullSecrets") BY DEF managePodDisruptionBudget
  <2>2. QED BY <2>1, GotoType, EndPassType DEF Typed, Return, Pcs
<1>2. OwnOK'
  <2>1. pdb' \in {pdb, NoBudget, [pdb EXCEPT !.label = TRUE]} BY DEF managePodDisruptionBudget
  <2>2. pdb \in [exists: BOOLEAN, label: BOOLEAN] BY DEF Typed, OwnOK
  <2>3. [pdb EXCEPT !.label = TRUE] \in [exists: BOOLEAN, label: BOOLEAN] BY <2>2
  <2>4. NoBudget \in [exists: BOOLEAN, label: BOOLEAN] BY DEF NoBudget
  <2>5. pdb' \in [exists: BOOLEAN, label: BOOLEAN] BY <2>1, <2>2, <2>3, <2>4
  <2>6. QED BY <2>5 DEF Typed, OwnOK, managePodDisruptionBudget, kmmVars, ownVars
<1>3. (EnvOK /\ CountOK)' BY DEF Typed, EnvOK, CountOK, managePodDisruptionBudget, envVars
<1>4. QED BY <1>1, <1>2, <1>3 DEF Typed

LEMMA updateEntitlementPullSecretsType ==
    ASSUME Typed, updateEntitlementPullSecrets PROVE Typed'
<1>1. ObjOK'
  <2>1. Error \/ Goto("EnablePlugin") \/ Goto("CheckImageRegistryStorage")
    BY DEF updateEntitlementPullSecrets
  <2>2. QED BY <2>1, GotoType, EndPassType DEF Typed, Error, Pcs
<1>2. entitled' \in [Namespaces -> Keys]
  BY DEF Typed, OwnOK, EnvOK, updateEntitlementPullSecrets
<1>3. OwnOK' BY <1>2 DEF Typed, OwnOK, updateEntitlementPullSecrets, kmmVars
<1>4. EnvOK' BY DEF Typed, EnvOK, updateEntitlementPullSecrets, envVars
<1>5. CountOK' BY FailType DEF Typed, CountOK, updateEntitlementPullSecrets, envVars
<1>6. QED BY <1>1, <1>3, <1>4, <1>5 DEF Typed

LEMMA CheckImageRegistryStorageType == ASSUME Typed, CheckImageRegistryStorage PROVE Typed'
<1>1. ObjOK'
  <2>1. \/ Goto("CreateOrUpdateKMMResources")
        \/ StatusUpdate(Met("ImageRegistryStorage"), "CreateOrUpdateKMMResources")
        \/ StatusError("Error", "ImageRegistryStorage")
    BY DEF CheckImageRegistryStorage
  <2>2. Met("ImageRegistryStorage") \in Objects BY MetType DEF Typed, Conditions
  <2>3. QED
    BY <2>1, <2>2, GotoType, StatusUpdateType, StatusErrorType DEF Typed, Conditions, Pcs
<1>2. (OwnOK /\ EnvOK)'
  BY DEF Typed, OwnOK, EnvOK, CheckImageRegistryStorage, kmmVars, ownVars, envVars
<1>3. CountOK' BY FailType DEF Typed, CountOK, CheckImageRegistryStorage, envVars
<1>4. QED BY <1>1, <1>2, <1>3 DEF Typed

LEMMA CreateOrUpdateKMMResourcesType == ASSUME Typed, CreateOrUpdateKMMResources PROVE Typed'
<1>1. ObjOK' BY GotoType DEF Typed, CreateOrUpdateKMMResources, Pcs
<1>2. (OwnOK /\ EnvOK /\ CountOK)'
  BY DEF Typed, OwnOK, EnvOK, CountOK, CreateOrUpdateKMMResources, ownVars, envVars
<1>3. QED BY <1>1, <1>2 DEF Typed

LEMMA EnablePluginType == ASSUME Typed, EnablePlugin PROVE Typed'
<1>1. ObjOK'
  <2>1. Goto("CreateImageCheckPod") \/ Goto("CreateOrUpdateLocalVolumeDiscovery")
    BY DEF EnablePlugin
  <2>2. QED BY <2>1, GotoType DEF Typed, Pcs
<1>2. (OwnOK /\ EnvOK /\ CountOK)'
  BY DEF Typed, OwnOK, EnvOK, CountOK, EnablePlugin, kmmVars, envVars
<1>3. QED BY <1>1, <1>2 DEF Typed

LEMMA CreateImageCheckPodType == ASSUME Typed, CreateImageCheckPod PROVE Typed'
<1>1. ObjOK'
  <2>1. Goto("PollPodPullStatus") \/ Goto("recordNoPull") BY DEF CreateImageCheckPod
  <2>2. QED BY <2>1, GotoType DEF Typed, Pcs
<1>2. OwnOK' BY DEF Typed, OwnOK, CreateImageCheckPod, NoPod, kmmVars, ownVars
<1>3. EnvOK' BY DEF Typed, EnvOK, CreateImageCheckPod, envVars
<1>4. CountOK' BY FailType DEF Typed, CountOK, CreateImageCheckPod, envVars
<1>5. QED BY <1>1, <1>2, <1>3, <1>4 DEF Typed

LEMMA PollPodPullStatusType == ASSUME Typed, PollPodPullStatus PROVE Typed'
<1>1. ObjOK'
  <2>1. Goto("recordPull") \/ Goto("recordNoPull") BY DEF PollPodPullStatus
  <2>2. QED BY <2>1, GotoType DEF Typed, Pcs
<1>2. OwnOK' BY DEF Typed, OwnOK, PollPodPullStatus, Deleted, kmmVars, ownVars
<1>3. EnvOK' BY DEF Typed, EnvOK, PollPodPullStatus, envVars
<1>4. CountOK' BY FailType DEF Typed, CountOK, PollPodPullStatus, envVars
<1>5. QED BY <1>1, <1>2, <1>3, <1>4 DEF Typed

LEMMA recordPullType == ASSUME Typed, recordPull PROVE Typed'
<1>1. ObjOK'
  <2>1. [Met("ImagePull") EXCEPT !.status = ""] \in Objects
    BY MetType, CopyType DEF Typed, Conditions
  <2>2. QED
    BY <2>1, StatusUpdateType, StatusErrorType DEF Typed, recordPull, Conditions, Pcs
<1>2. (OwnOK /\ EnvOK /\ CountOK)'
  BY DEF Typed, OwnOK, EnvOK, CountOK, recordPull, kmmVars, ownVars, envVars
<1>3. QED BY <1>1, <1>2 DEF Typed

LEMMA CreateOrUpdateLocalVolumeDiscoveryType ==
    ASSUME Typed, CreateOrUpdateLocalVolumeDiscovery PROVE Typed'
<1>1. ObjOK' BY GotoType DEF Typed, CreateOrUpdateLocalVolumeDiscovery, Pcs
<1>2. lvd' \in BOOLEAN BY DEF CreateOrUpdateLocalVolumeDiscovery
<1>3. (OwnOK /\ EnvOK /\ CountOK)'
  BY <1>2 DEF Typed, OwnOK, EnvOK, CountOK, CreateOrUpdateLocalVolumeDiscovery, kmmVars, envVars
<1>4. QED BY <1>1, <1>3 DEF Typed

LEMMA recordReadyType == ASSUME Typed, recordReady PROVE Typed'
<1>1. ObjOK'
  <2>1. [mem EXCEPT !.status = "Ready"] \in Objects BY CopyType DEF Typed, ObjOK, Conditions
  <2>2. QED BY <2>1, WriteEndType, ConflictType DEF Typed, recordReady
<1>2. (OwnOK /\ EnvOK /\ CountOK)'
  BY DEF Typed, OwnOK, EnvOK, CountOK, recordReady, kmmVars, ownVars, envVars
<1>3. QED BY <1>1, <1>2 DEF Typed

LEMMA HandlerType == ASSUME Typed, Handler PROVE Typed'
  BY ReconcileType, createPodDisruptionBudgetType, updateStorageScaleVersionType,
     applyManifestType, recordApplyType, managePodDisruptionBudgetType,
     updateEntitlementPullSecretsType, CheckImageRegistryStorageType,
     CreateOrUpdateKMMResourcesType, EnablePluginType, CreateImageCheckPodType,
     PollPodPullStatusType, recordPullType, CreateOrUpdateLocalVolumeDiscoveryType,
     recordReadyType DEF Handler

LEMMA RestartType == ASSUME ObjOK, Restart PROVE ObjOK'
<1>1. fa.exists \in BOOLEAN BY DEF ObjOK, Objects
<1>2. QED BY <1>1, BlankObject DEF ObjOK, Synced, Restart, Pcs

LEMMA ProcessType ==
    ASSUME Typed, ApiError \/ InformerSync \/ Crash \/ Upgrade PROVE Typed'
<1>1. CASE ApiError
  <2>1. ObjOK' BY <1>1, EndPassType DEF ApiError, Error, Typed
  <2>2. (OwnOK /\ EnvOK)'
    BY <1>1 DEF Typed, OwnOK, EnvOK, ApiError, kmmVars, ownVars, envVars
  <2>3. CountOK' BY <1>1, FailType DEF Typed, CountOK, ApiError, envVars
  <2>4. QED BY <2>1, <2>2, <2>3 DEF Typed
<1>2. CASE InformerSync
  <2>1. ObjOK' BY <1>2 DEF Typed, ObjOK, Synced, InformerSync, passVars
  <2>2. (OwnOK /\ EnvOK /\ CountOK)'
    BY <1>2 DEF Typed, OwnOK, EnvOK, CountOK, InformerSync, kmmVars, ownVars, envVars
  <2>3. QED BY <2>1, <2>2 DEF Typed
<1>3. CASE Crash
  <2>1. ObjOK' BY <1>3, RestartType DEF Crash, Typed
  <2>2. (OwnOK /\ EnvOK)' BY <1>3 DEF Typed, OwnOK, EnvOK, Crash, kmmVars, ownVars, envVars
  <2>3. CountOK' BY <1>3, FailType DEF Typed, CountOK, Crash, envVars
  <2>4. QED BY <2>1, <2>2, <2>3 DEF Typed
<1>4. CASE Upgrade
  <2>1. ObjOK' BY <1>4, RestartType DEF Upgrade, Typed
  <2>2. Versions \in Nat BY FusionAssumption
  <2>3. EnvOK' BY <1>4, <2>2 DEF Typed, EnvOK, Upgrade
  <2>4. (OwnOK /\ CountOK)' BY <1>4 DEF Typed, OwnOK, CountOK, Upgrade, kmmVars, ownVars
  <2>5. QED BY <2>1, <2>3, <2>4 DEF Typed
<1>5. QED BY <1>1, <1>2, <1>3, <1>4

LEMMA UserType == ASSUME Typed, User PROVE Typed'
<1>1. CASE CreateFusionAccess
  <2>1. fa' \in Objects
    <3>1. PICK r \in Requests :
             fa' = [NoObject EXCEPT !.exists = TRUE, !.url = r.url, !.discover = r.discover,
                                    !.ver = IF r.named THEN bundled ELSE 0]
      BY <1>1 DEF CreateFusionAccess
    <3>2. r.url \in Manifests /\ r.discover \in BOOLEAN BY FusionAssumption
    <3>3. (IF r.named THEN bundled ELSE 0) \in 0..Versions
      BY FusionAssumption DEF Typed, EnvOK
    <3> HIDE DEF NoObject
    <3>4. QED BY <3>1, <3>2, <3>3, BlankObject DEF Objects
  <2>2. ObjOK' BY <1>1, <2>1 DEF Typed, ObjOK, Synced, CreateFusionAccess
  <2>3. (OwnOK /\ EnvOK /\ CountOK)'
    BY <1>1 DEF Typed, OwnOK, EnvOK, CountOK, CreateFusionAccess, kmmVars, ownVars, envVars
  <2>4. QED BY <2>2, <2>3 DEF Typed
<1>2. CASE EditFusionAccess
  <2>1. fa' \in Objects
    <3>1. \/ \E u \in Manifests : fa' = [fa EXCEPT !.url = u]
          \/ fa' = [fa EXCEPT !.ver = 0]
          \/ fa' = NoObject
      BY <1>2 DEF EditFusionAccess
    <3>2. 0 \in 0..Versions BY FusionAssumption
    <3>3. fa \in Objects BY DEF Typed, ObjOK
    <3>4. CASE \E u \in Manifests : fa' = [fa EXCEPT !.url = u] BY <3>3, <3>4 DEF Objects
    <3>5. QED BY <3>1, <3>2, <3>3, <3>4, VersionType, BlankObject
  <2>2. ObjOK' BY <1>2, <2>1 DEF Typed, ObjOK, Synced, EditFusionAccess
  <2>3. (OwnOK /\ EnvOK)' BY <1>2 DEF Typed, OwnOK, EnvOK, EditFusionAccess, kmmVars, ownVars
  <2>4. upsets' \in 0..MaxUpsets BY <1>2, UpsetType DEF Typed, EditFusionAccess
  <2>5. CountOK' BY <1>2, <2>4 DEF Typed, CountOK, EditFusionAccess
  <2>6. QED BY <2>2, <2>3, <2>5 DEF Typed
<1>3. CASE ChangePullSecret
  <2>1. secret' \in Keys BY <1>3 DEF ChangePullSecret, Keys
  <2>2. queued' \in BOOLEAN
    BY <1>3 DEF Typed, ObjOK, Objects, ChangePullSecret, fusionAccessHandler
  <2>3. ObjOK' BY <1>3, <2>2 DEF Typed, ObjOK, Synced, ChangePullSecret, objVars, passVars
  <2>4. (OwnOK /\ EnvOK)'
    BY <1>3, <2>1 DEF Typed, OwnOK, EnvOK, ChangePullSecret, kmmVars, ownVars
  <2>5. upsets' \in 0..MaxUpsets BY <1>3, UpsetType DEF Typed, CountOK, ChangePullSecret
  <2>6. CountOK' BY <1>3, <2>5 DEF Typed, CountOK, ChangePullSecret
  <2>7. QED BY <2>3, <2>4, <2>6 DEF Typed
<1>4. CASE ChangeRegistry
  <2>1. registry' \in RegistryKinds BY <1>4 DEF Typed, EnvOK, ChangeRegistry, RegistryKinds
  <2>2. queued' \in BOOLEAN
    <3>1. fusionAccessHandler \/ UNCHANGED queued BY <1>4 DEF ChangeRegistry
    <3>2. QED BY <3>1 DEF Typed, ObjOK, Objects, fusionAccessHandler
  <2>3. ObjOK' BY <1>4, <2>2 DEF Typed, ObjOK, Synced, ChangeRegistry, objVars, passVars
  <2>4. (OwnOK /\ EnvOK)'
    BY <1>4, <2>1 DEF Typed, OwnOK, EnvOK, ChangeRegistry, kmmVars, ownVars
  <2>5. upsets' \in 0..MaxUpsets BY <1>4, UpsetType DEF Typed, CountOK, ChangeRegistry
  <2>6. CountOK' BY <1>4, <2>5 DEF Typed, CountOK, ChangeRegistry
  <2>7. QED BY <2>3, <2>4, <2>6 DEF Typed
<1>5. QED BY <1>1, <1>2, <1>3, <1>4 DEF User

LEMMA ClusterType == ASSUME Typed, Cluster PROVE Typed'
<1>1. CASE TimePasses
  BY <1>1 DEF Typed, ObjOK, Synced, OwnOK, EnvOK, CountOK, TimePasses, objVars, passVars,
              kmmVars, ownVars
<1>2. CASE StartBuild
  <2>1. builds' \in [1..External -> {"none", "running", "complete"}]
    BY <1>2 DEF Typed, OwnOK, StartBuild
  <2>2. (ObjOK /\ OwnOK /\ EnvOK)'
    BY <1>2, <2>1 DEF Typed, ObjOK, Synced, OwnOK, EnvOK, StartBuild, objVars, passVars, ownVars
  <2>3. upsets' \in 0..MaxUpsets BY <1>2, UpsetType DEF Typed, CountOK, StartBuild
  <2>4. QED BY <1>2, <2>2, <2>3 DEF Typed, CountOK, StartBuild
<1>3. CASE BuildProgress \/ FinishBuild \/ CollectBuild
  <2>1. queued' \in BOOLEAN
    BY <1>3 DEF Typed, ObjOK, Objects, BuildProgress, FinishBuild, CollectBuild,
                fusionAccessHandler
  <2>2. ObjOK'
    BY <1>3, <2>1 DEF Typed, ObjOK, Synced, BuildProgress, FinishBuild, CollectBuild,
                      objVars, passVars
  <2>3. /\ builds' \in [1..External -> {"none", "running", "complete"}]
        /\ built' \subseteq 1..External
    BY <1>3 DEF Typed, OwnOK, BuildProgress, FinishBuild, CollectBuild, kmmVars
  <2>4. (OwnOK /\ EnvOK /\ CountOK)'
    BY <1>3, <2>3 DEF Typed, OwnOK, EnvOK, CountOK, BuildProgress, FinishBuild, CollectBuild,
                      kmmVars, ownVars, envVars
  <2>5. QED BY <2>2, <2>4 DEF Typed
<1>4. CASE Kubelet
  <2>1. pod' \in [st: {"none", "waiting", "ran", "failed"}, del: BOOLEAN]
    <3>1. pod \in [st: {"none", "waiting", "ran", "failed"}, del: BOOLEAN] BY DEF Typed, OwnOK
    <3>2. NoPod \in [st: {"none", "waiting", "ran", "failed"}, del: BOOLEAN] BY DEF NoPod
    <3>3. \/ pod' = [pod EXCEPT !.st = "ran"] \/ pod' = [pod EXCEPT !.st = "failed"]
          \/ pod' = NoPod
      BY <1>4 DEF Kubelet
    <3>4. QED BY <3>1, <3>2, <3>3
  <2>2. QED
    BY <1>4, <2>1 DEF Typed, ObjOK, Synced, OwnOK, EnvOK, CountOK, Kubelet, objVars, passVars,
                      kmmVars, ownVars, envVars
<1>5. QED BY <1>1, <1>2, <1>3, <1>4 DEF Cluster

LEMMA InitType == Init => Typed
<1> SUFFICES ASSUME Init PROVE Typed OBVIOUS
<1>1. Versions \in Nat \ {0} /\ MaxFaults \in Nat /\ MaxUpsets \in Nat BY FusionAssumption
<1>2. ObjOK BY BlankObject DEF Init, ObjOK, Synced, Pcs
<1>3. OwnOK
  <2>1. 0 \in Installs BY <1>1 DEF Installs, External
  <2>2. NoBudget \in [exists: BOOLEAN, label: BOOLEAN] BY DEF NoBudget
  <2>3. NoPod \in [st: {"none", "waiting", "ran", "failed"}, del: BOOLEAN] BY DEF NoPod
  <2>4. entitled \in [Namespaces -> Keys] BY DEF Init, Keys
  <2>5. builds \in [1..External -> {"none", "running", "complete"}] BY DEF Init
  <2>6. QED BY <2>1, <2>2, <2>3, <2>4, <2>5 DEF Init, OwnOK
<1>4. EnvOK
  <2>1. bundled \in 1..Versions BY <1>1 DEF Init
  <2>2. registry \in RegistryKinds BY FusionAssumption DEF Init
  <2>3. QED BY <2>1, <2>2 DEF Init, EnvOK, Keys
<1>5. CountOK BY <1>1 DEF Init, CountOK
<1>6. QED BY <1>2, <1>3, <1>4, <1>5 DEF Typed

LEMMA NextType == ASSUME Typed, [Next]_vars PROVE Typed'
<1>1. CASE UNCHANGED vars
  BY <1>1 DEF Typed, ObjOK, Synced, OwnOK, EnvOK, CountOK, vars, objVars, passVars, kmmVars,
              ownVars, envVars
<1>2. CASE Next BY <1>2, HandlerType, ProcessType, UserType, ClusterType DEF Next
<1>3. QED BY <1>1, <1>2

LEMMA AlwaysTyped == Spec => []Typed
<1>1. Typed /\ [Next]_vars => Typed' BY NextType
<1>2. QED BY <1>1, InitType, PTL DEF Spec

\* Every variable of the FusionAccess controller and its surroundings keeps its type,
\* and a copy the API server would accept a write from is the stored object.
THEOREM FusionTypeCorrect == Spec => []TypeOK
  BY AlwaysTyped, TypeParts, PTL

----------------------------------------------------------------------------
(* Ready is written for what was installed.                                *)

AfterPlugin == {"CreateImageCheckPod", "PollPodPullStatus", "recordPull", "recordNoPull",
                "CreateOrUpdateLocalVolumeDiscovery", "recordReady"}
AfterRecord == {"managePodDisruptionBudget", "updateEntitlementPullSecrets",
                "CheckImageRegistryStorage", "CreateOrUpdateKMMResources", "EnablePlugin"}
                   \cup AfterPlugin
AfterApply == {"recordApply"} \cup AfterRecord

\* The strengthening: how far the pass has got tells what it has done for the object
\* its copy describes.
PassInv ==
    /\ pc \in {"applyManifest"} \cup AfterApply => (mem.url = "bundled" => mem.ver = bundled)
    /\ pc \in AfterApply => applied = Target(mem)
    /\ pc \in AfterRecord => mem.cond["ManifestApply"] = "True"
    /\ pc \in AfterPlugin => plugin
    /\ pc = "recordReady" => (mem.discover => lvd)

LEMMA PassEnds == ASSUME pc' = "idle" PROVE PassInv'
  BY DEF PassInv, AfterApply, AfterRecord, AfterPlugin

\* Steps of others, and of the pass's own that leave its copy alone.
LEMMA PassWaits ==
    ASSUME PassInv, UNCHANGED <<pc, mem, bundled, applied>>, plugin => plugin', lvd => lvd'
    PROVE PassInv'
  BY DEF PassInv, Target

\* A condition the pass notes in its copy changes nothing it has relied on.
LEMMA MetKeeps ==
    ASSUME ObjOK, NEW c \in Conditions
    PROVE  /\ Met(c).url = mem.url /\ Met(c).ver = mem.ver /\ Met(c).discover = mem.discover
           /\ Met(c).cond["ManifestApply"]
                 = IF c = "ManifestApply" THEN "True" ELSE mem.cond["ManifestApply"]
           /\ Met(c).status = mem.status
  BY DEF ObjOK, Objects, Met, Conditions

\* A step that goes on after a status update with such a copy.
LEMMA PassGoesOn ==
    ASSUME PassInv, pc \in AfterRecord, pc' \in AfterRecord,
           mem'.url = mem.url, mem'.ver = mem.ver, mem'.discover = mem.discover,
           mem'.cond["ManifestApply"] = mem.cond["ManifestApply"],
           UNCHANGED <<bundled, applied>>,
           pc' \in AfterPlugin => plugin', pc' = "recordReady" => (mem'.discover => lvd')
    PROVE PassInv'
  BY DEF PassInv, Target, AfterApply

LEMMA HandlerPass == ASSUME Typed, PassInv, Handler PROVE PassInv'
<1>o. ObjOK BY DEF Typed
<1>1. CASE Reconcile
  <2>1. CASE UNCHANGED passVars
    BY <1>1, <2>1, PassWaits DEF Reconcile, passVars, ownVars, envVars
  <2>2. CASE ~UNCHANGED passVars
    BY <1>1, <2>2 DEF Reconcile, PassInv, AfterApply, AfterRecord, AfterPlugin, ownVars, envVars
  <2>3. QED BY <2>1, <2>2
<1>2. CASE createPodDisruptionBudget
  BY <1>2 DEF createPodDisruptionBudget, Goto, PassInv, AfterApply, AfterRecord, AfterPlugin
<1>3. CASE updateStorageScaleVersion
  BY <1>3, PassEnds DEF updateStorageScaleVersion, EndPass, Conflict, Error
<1>4. CASE applyManifest
  <2>1. CASE applied' = Target(mem) /\ Goto("recordApply")
    BY <1>4, <2>1 DEF applyManifest, Goto, PassInv, Target, AfterApply, AfterRecord,
                      AfterPlugin, ownVars, envVars
  <2>2. CASE StatusError("Error", "ManifestApply")
    BY <2>2, PassEnds DEF StatusError, EndPass, Conflict, Error
  <2>3. QED BY <1>4, <2>1, <2>2 DEF applyManifest
<1>5. CASE recordApply
  <2>1. CASE Conflict BY <2>1, PassEnds DEF Conflict, Error, EndPass
  <2>2. CASE mem' = Met("ManifestApply") /\ pc' = "managePodDisruptionBudget"
    <3>1. /\ mem'.url = mem.url /\ mem'.ver = mem.ver
          /\ mem'.cond["ManifestApply"] = "True"
      BY <1>o, <2>2, MetKeeps DEF Conditions
    <3>2. pc \in AfterApply /\ pc' \in AfterApply /\ pc' \notin AfterPlugin
          /\ UNCHANGED <<applied, bundled>>
      BY <1>5, <2>2 DEF recordApply, AfterApply, AfterRecord, AfterPlugin, envVars
    <3>3. QED BY <2>2, <3>1, <3>2 DEF PassInv, Target
  <2>3. QED BY <1>5, <2>1, <2>2 DEF recordApply, StatusUpdate
<1>6. CASE managePodDisruptionBudget
  <2>1. CASE Return BY <2>1, PassEnds DEF Return, EndPass
  <2>2. CASE Goto("updateEntitlementPullSecrets")
    BY <1>6, <2>2, PassGoesOn
       DEF managePodDisruptionBudget, Goto, AfterRecord, AfterPlugin, envVars
  <2>3. QED BY <1>6, <2>1, <2>2 DEF managePodDisruptionBudget
<1>7. CASE updateEntitlementPullSecrets
  <2>1. CASE Error BY <2>1, PassEnds DEF Error, EndPass
  <2>2. CASE Goto("EnablePlugin") \/ Goto("CheckImageRegistryStorage")
    BY <1>7, <2>2, PassGoesOn
       DEF updateEntitlementPullSecrets, Goto, AfterRecord, AfterPlugin, envVars
  <2>3. QED BY <1>7, <2>1, <2>2 DEF updateEntitlementPullSecrets
<1>8. CASE CheckImageRegistryStorage
  <2>1. CASE Goto("CreateOrUpdateKMMResources")
    BY <1>8, <2>1, PassGoesOn
       DEF CheckImageRegistryStorage, Goto, AfterRecord, AfterPlugin, envVars
  <2>2. CASE StatusUpdate(Met("ImageRegistryStorage"), "CreateOrUpdateKMMResources")
    <3>1. CASE Conflict BY <3>1, PassEnds DEF Conflict, Error, EndPass
    <3>2. CASE mem' = Met("ImageRegistryStorage") /\ pc' = "CreateOrUpdateKMMResources"
      <4>1. /\ mem'.url = mem.url /\ mem'.ver = mem.ver /\ mem'.discover = mem.discover
            /\ mem'.cond["ManifestApply"] = mem.cond["ManifestApply"]
        BY <1>o, <3>2, MetKeeps DEF Conditions
      <4>2. QED
        BY <1>8, <3>2, <4>1, PassGoesOn
           DEF CheckImageRegistryStorage, AfterRecord, AfterPlugin, envVars
    <3>3. QED BY <2>2, <3>1, <3>2 DEF StatusUpdate
  <2>3. CASE StatusError("Error", "ImageRegistryStorage")
    BY <2>3, PassEnds DEF StatusError, EndPass, Conflict, Error
  <2>4. QED BY <1>8, <2>1, <2>2, <2>3 DEF CheckImageRegistryStorage
<1>9. CASE CreateOrUpdateKMMResources
  BY <1>9, PassGoesOn DEF CreateOrUpdateKMMResources, Goto, AfterRecord, AfterPlugin, envVars
<1>10. CASE EnablePlugin
  <2>1. pc = "EnablePlugin" /\ plugin'
        /\ pc' \in {"CreateImageCheckPod", "CreateOrUpdateLocalVolumeDiscovery"}
        /\ UNCHANGED <<mem, bundled, applied>>
    BY <1>10 DEF EnablePlugin, Goto, envVars
  <2>2. QED BY <2>1, PassGoesOn DEF AfterRecord, AfterPlugin
<1>11. CASE CreateImageCheckPod \/ PollPodPullStatus
  <2>1. /\ pc \in AfterPlugin /\ pc' \in AfterPlugin /\ pc' # "recordReady"
        /\ UNCHANGED <<mem, bundled, applied, plugin>>
    BY <1>11 DEF CreateImageCheckPod, PollPodPullStatus, Goto, AfterPlugin, ownVars, envVars
  <2>2. QED BY <2>1, PassGoesOn DEF PassInv, AfterRecord
<1>12. CASE recordPull
  <2> DEFINE new == [Met("ImagePull") EXCEPT !.status = ""]
  <2>1. CASE pc' = "idle" BY <2>1, PassEnds
  <2>2. CASE pc = "recordPull" /\ mem' = new /\ pc' = "CreateOrUpdateLocalVolumeDiscovery"
    <3>1. Met("ImagePull") \in Objects BY <1>o, MetType DEF Conditions
    <3>2. /\ mem'.url = mem.url /\ mem'.ver = mem.ver /\ mem'.discover = mem.discover
          /\ mem'.cond["ManifestApply"] = mem.cond["ManifestApply"]
      BY <1>o, <2>2, <3>1, MetKeeps DEF Conditions, Objects
    <3>3. plugin' BY <1>12, <2>2 DEF recordPull, PassInv, AfterPlugin, ownVars
    <3>4. QED
      BY <1>12, <2>2, <3>2, <3>3, PassGoesOn DEF recordPull, AfterRecord, AfterPlugin, envVars
  <2>3. QED
    BY <1>12, <2>1, <2>2 DEF recordPull, StatusUpdate, StatusError, EndPass, Conflict, Error
<1>13. CASE CreateOrUpdateLocalVolumeDiscovery
  <2>1. /\ pc = "CreateOrUpdateLocalVolumeDiscovery" /\ pc' = "recordReady"
        /\ UNCHANGED <<mem, bundled, applied, plugin>>
        /\ mem'.discover => lvd'
    BY <1>13 DEF CreateOrUpdateLocalVolumeDiscovery, Goto, envVars
  <2>2. QED BY <2>1, PassGoesOn DEF PassInv, AfterRecord, AfterPlugin
<1>14. CASE recordReady BY <1>14, PassEnds DEF recordReady, EndPass, Conflict, Error
<1>15. QED
  BY <1>1, <1>2, <1>3, <1>4, <1>5, <1>6, <1>7, <1>8, <1>9, <1>10, <1>11, <1>12, <1>13, <1>14
     DEF Handler

LEMMA NextPass == ASSUME Typed, PassInv, [Next]_vars PROVE PassInv'
<1>1. CASE UNCHANGED vars
  BY <1>1, PassWaits DEF vars, passVars, ownVars, envVars
<1>2. CASE Handler BY <1>2, HandlerPass
<1>3. CASE ApiError \/ Crash \/ Upgrade
  BY <1>3, PassEnds DEF ApiError, Error, EndPass, Crash, Upgrade, Restart
<1>4. CASE InformerSync BY <1>4, PassWaits DEF InformerSync, passVars, ownVars, envVars
<1>5. CASE User
  <2>1. UNCHANGED <<pc, mem, bundled, applied, plugin, lvd>>
    BY <1>5 DEF User, CreateFusionAccess, EditFusionAccess, ChangePullSecret,
                ChangeRegistry, passVars, ownVars, envVars
  <2>2. QED BY <2>1, PassWaits
<1>6. CASE Cluster
  BY <1>6, PassWaits DEF Cluster, TimePasses, StartBuild, BuildProgress, FinishBuild,
                         CollectBuild, Kubelet, passVars, ownVars, envVars
<1>7. QED BY <1>1, <1>2, <1>3, <1>4, <1>5, <1>6 DEF Next

LEMMA AlwaysPass == Spec => []PassInv
<1>1. Init => PassInv BY DEF Init, PassInv, AfterApply, AfterRecord, AfterPlugin
<1>2. Typed /\ PassInv /\ [Next]_vars => PassInv' BY NextPass
<1>3. QED BY <1>1, <1>2, AlwaysTyped, PTL DEF Spec

\* No step but the last of a pass turns the stored status to Ready.
LEMMA OnlyRecordReady ==
    ASSUME Typed, [Next]_vars, fa.status # "Ready", fa'.status = "Ready"
    PROVE recordReady /\ fresh /\ fa' = [mem EXCEPT !.status = "Ready"]
<1>o. ObjOK /\ fa \in Objects /\ mem \in Objects BY DEF Typed, ObjOK
<1>1. fa' # fa OBVIOUS
<1>2. ASSUME NEW c \in Conditions, Write(Met(c)) PROVE FALSE
  BY <1>o, <1>2, MetKeeps DEF Write, ObjOK
<1>3. ASSUME NEW s \in {"Error", "ErrImagePull"}, NEW c \in Conditions, StatusError(s, c)
      PROVE FALSE
  <2>1. fa' = [mem EXCEPT !.status = s, !.cond[c] = "False"]
    BY <1>1, <1>3 DEF StatusError, Write, Conflict, Error, objVars
  <2>2. fa'.status = s BY <1>o, <2>1 DEF Objects
  <2>3. QED BY <2>2
<1>4. CASE Handler
  <2>1. ~(\/ Reconcile \/ createPodDisruptionBudget \/ managePodDisruptionBudget
          \/ updateEntitlementPullSecrets \/ CreateOrUpdateKMMResources \/ EnablePlugin
          \/ CreateImageCheckPod \/ PollPodPullStatus \/ CreateOrUpdateLocalVolumeDiscovery)
    BY <1>1 DEF Reconcile, createPodDisruptionBudget, managePodDisruptionBudget,
       updateEntitlementPullSecrets, CreateOrUpdateKMMResources, EnablePlugin,
       CreateImageCheckPod, PollPodPullStatus, CreateOrUpdateLocalVolumeDiscovery,
       Goto, Return, Error, objVars
  <2>2. ~updateStorageScaleVersion
    <3>1. SUFFICES ASSUME updateStorageScaleVersion PROVE FALSE OBVIOUS
    <3>2. fresh /\ fa' = [mem EXCEPT !.ver = bundled]
      BY <1>1, <3>1 DEF updateStorageScaleVersion, Write, Conflict, Error, objVars
    <3>3. fa'.status = mem.status BY <1>o, <3>2 DEF Objects
    <3>4. QED BY <3>2, <3>3 DEF Typed, ObjOK
  <2>3. ~applyManifest
    BY <1>1, <1>3 DEF applyManifest, Goto, objVars, Conditions
  <2>4. ~recordApply
    BY <1>1, <1>2 DEF recordApply, StatusUpdate, Conflict, Error, objVars, Conditions
  <2>5. ~CheckImageRegistryStorage
    <3>1. SUFFICES ASSUME CheckImageRegistryStorage PROVE FALSE OBVIOUS
    <3>2. \/ Goto("CreateOrUpdateKMMResources")
          \/ StatusUpdate(Met("ImageRegistryStorage"), "CreateOrUpdateKMMResources")
          \/ StatusError("Error", "ImageRegistryStorage")
      BY <3>1 DEF CheckImageRegistryStorage
    <3>3. QED
      BY <1>1, <1>2, <1>3, <3>2
         DEF Goto, StatusUpdate, Conflict, Error, objVars, Conditions
  <2>6. ~recordPull
    <3>1. SUFFICES ASSUME recordPull PROVE FALSE OBVIOUS
    <3>2. \/ fa' = [Met("ImagePull") EXCEPT !.status = ""]
          \/ StatusError("ErrImagePull", "ImagePull")
      BY <1>1, <3>1 DEF recordPull, StatusUpdate, Write, Conflict, Error, objVars
    <3>3. Met("ImagePull") \in Objects BY <1>o, MetType DEF Conditions
    <3>4. [Met("ImagePull") EXCEPT !.status = ""].status = "" BY <3>3 DEF Objects
    <3>5. QED BY <1>3, <3>2, <3>4 DEF Conditions
  <2>7. recordReady
    BY <1>4, <2>1, <2>2, <2>3, <2>4, <2>5, <2>6 DEF Handler
  <2>8. fresh /\ fa' = [mem EXCEPT !.status = "Ready"]
    BY <1>1, <2>7 DEF recordReady, Write, Conflict, Error, objVars
  <2>9. QED BY <2>7, <2>8
<1>5. CASE User
  <2>1. fa'.status \in {"", fa.status}
    <3>1. CASE CreateFusionAccess
      <4>1. NoObject \in Objects /\ NoObject.status = "" BY BlankObject DEF NoObject
      <4>2. QED BY <3>1, <4>1 DEF CreateFusionAccess, Objects
    <3>2. CASE EditFusionAccess
      <4>1. \/ \E u \in Manifests : fa' = [fa EXCEPT !.url = u]
            \/ fa' = [fa EXCEPT !.ver = 0]
            \/ fa' = NoObject
        BY <3>2 DEF EditFusionAccess
      <4>2. NoObject.status = "" BY DEF NoObject
      <4>3. CASE fa' = NoObject BY <4>2, <4>3
      <4>4. CASE fa' # NoObject BY <1>o, <4>1, <4>4 DEF Objects
      <4>5. QED BY <4>3, <4>4
    <3>3. CASE ChangePullSecret \/ ChangeRegistry
      BY <1>1, <3>3 DEF ChangePullSecret, ChangeRegistry, objVars
    <3>4. QED BY <1>5, <3>1, <3>2, <3>3 DEF User
  <2>2. QED BY <2>1
<1>6. CASE ApiError \/ InformerSync \/ Crash \/ Upgrade \/ Cluster \/ UNCHANGED vars
  BY <1>1, <1>6 DEF ApiError, Error, InformerSync, Crash, Upgrade, Restart, Cluster, TimePasses,
     StartBuild, BuildProgress, FinishBuild, CollectBuild, Kubelet, vars, objVars
<1>7. QED BY <1>4, <1>5, <1>6 DEF Next

\* When a pass writes Ready, what the stored object asks for at that moment has been
\* applied, the plugin is there, and the discovery too when it is asked for, whatever
\* users edit and whatever fails, for any number of versions, faults and disturbances.
THEOREM ReadyIsCurrent == Spec => ReadyForThisSpec
<1> DEFINE Done ==
        /\ applied = Target(fa')
        /\ fa'.url = "bundled" => fa'.ver = bundled
        /\ fa'.cond["ManifestApply"] = "True" /\ plugin
        /\ fa'.discover => lvd
<1>1. Typed /\ PassInv /\ [Next]_vars
        => [fa.status # "Ready" /\ fa'.status = "Ready" => Done]_vars
  <2> SUFFICES ASSUME Typed, PassInv, [Next]_vars, fa.status # "Ready", fa'.status = "Ready"
               PROVE Done
    OBVIOUS
  <2>1. recordReady /\ fa' = [mem EXCEPT !.status = "Ready"] BY OnlyRecordReady
  <2>2. mem \in Objects BY DEF Typed, ObjOK
  <2>3. /\ fa'.url = mem.url /\ fa'.ver = mem.ver /\ fa'.discover = mem.discover
        /\ fa'.cond = mem.cond
    BY <2>1, <2>2 DEF Objects
  <2>4. pc = "recordReady" BY <2>1 DEF recordReady
  <2>5. QED BY <2>3, <2>4 DEF PassInv, AfterApply, AfterRecord, AfterPlugin, Target
<1>2. QED BY <1>1, AlwaysTyped, AlwaysPass, PTL DEF Spec, ReadyForThisSpec

----------------------------------------------------------------------------
(* The first build of a version runs under the budget.                     *)

\* The circumstances: upgrades come when no build and no budget is around, the object
\* asks for the bundled manifest and is not deleted, and no module is built twice.
CalmWorld ==
    /\ CalmUpgrades
    /\ \A r \in Requests : r.url = "bundled"
    /\ Upsets \cap {"url", "delete", "rebuild"} = {}

\* Nobody knows of a version newer than the bundled one.
VersInv ==
    /\ fa.url = "bundled" /\ cache.url = "bundled" /\ mem.url = "bundled"
    /\ fa.ver <= bundled /\ cache.ver <= bundled /\ mem.ver <= bundled

\* Whoever acts, or has acted, on the object finds it still there.
Present == cache.exists \/ pc # "idle" \/ module # 0 \/ bundled # 1 => fa.exists

\* The only build is of the bundled version: an older module is there already.
BuildInv ==
    /\ module \in built \cup {0, bundled}
    /\ \A v \in 1..External :
          /\ builds[v] # "none" => v = bundled /\ v = module
          /\ builds[v] = "complete" => v \in built

\* A labelled budget has seen the build of this version, not of an earlier one.
BudgetInv ==
    /\ pdb.label => pdb.exists
    /\ pdb.label /\ bundled \notin built => builds[bundled] = "running"

\* Some copy of the object, or the Module, says that the bundled version is being
\* installed.
Announced ==
    \/ bundled \in {fa.ver, cache.ver, mem.ver, module}
    \/ pc = "updateStorageScaleVersion"

\* From then on until it is built there is a budget, or the time limit has passed.
ProtInv == bundled # 1 /\ bundled \notin built /\ Announced => pdb.exists \/ overdue

CalmInv == VersInv /\ Present /\ BuildInv /\ BudgetInv /\ ProtInv

\* How the copies of the object move in a step that is no upgrade.
Moves ==
    /\ bundled' = bundled
    /\ fa'.url = "bundled" /\ cache'.url = "bundled" /\ mem'.url = "bundled"
    /\ fa.exists => fa'.exists
    /\ fa'.ver \in {fa.ver, 0, bundled}
    /\ fa'.ver \in {fa.ver, 0} \/ pc = "updateStorageScaleVersion" \/ ~fa.exists
    /\ cache'.ver \in {cache.ver, fa.ver}
    /\ cache'.exists => cache.exists \/ fa.exists
    /\ mem'.ver \in {mem.ver, cache.ver, 0}
    /\ pc' # "idle" => pc # "idle" \/ cache.exists

LEMMA BlankFields ==
    NoObject.url = "bundled" /\ NoObject.ver = 0 /\ NoObject.exists = FALSE
  BY DEF NoObject

\* Ways a step leaves the object and its copies alone.
LEMMA QuietMoves ==
    ASSUME VersInv, UNCHANGED <<fa, cache, bundled>>,
           \/ UNCHANGED <<pc, mem>>
           \/ pc' = "idle" /\ mem' = NoObject
           \/ pc # "idle" /\ mem' = mem
           \/ cache.exists /\ mem' = cache
    PROVE Moves
<1>1. fa.url = "bundled" /\ cache.url = "bundled" /\ mem.url = "bundled" BY DEF VersInv
<1>2. mem'.url = "bundled" /\ mem'.ver \in {mem.ver, cache.ver, 0} BY <1>1, BlankFields
<1>3. QED BY <1>1, <1>2 DEF Moves

LEMMA SyncMoves ==
    ASSUME VersInv, cache' = fa, UNCHANGED <<fa, bundled>>,
           UNCHANGED <<pc, mem>> \/ (pc' = "idle" /\ mem' = NoObject)
    PROVE Moves
<1>1. fa.url = "bundled" /\ mem.url = "bundled" BY DEF VersInv
<1>2. mem'.url = "bundled" /\ mem'.ver \in {mem.ver, 0} BY <1>1, BlankFields
<1>3. QED BY <1>1, <1>2 DEF Moves

\* A status update writes the version the stored object has.
LEMMA WriteMoves ==
    ASSUME Typed, VersInv, pc # "idle", NEW new \in Objects, Write(new), UNCHANGED bundled,
           new.url = mem.url, new.ver = mem.ver, new.exists = mem.exists,
           mem' = new \/ mem' = NoObject
    PROVE Moves
<1>1. fa = mem /\ fa' = new /\ cache' = cache BY DEF Typed, ObjOK, Write
<1>2. fa.url = "bundled" /\ cache.url = "bundled" /\ mem.url = "bundled" BY DEF VersInv
<1>3. mem'.url = "bundled" /\ mem'.ver \in {mem.ver, 0} BY <1>2, BlankFields
<1>4. QED BY <1>1, <1>2, <1>3 DEF Moves

LEMMA ConflictMoves == ASSUME VersInv, Conflict, UNCHANGED bundled PROVE Moves
  BY QuietMoves DEF Conflict, Error, EndPass, objVars

LEMMA StatusErrorMoves ==
    ASSUME Typed, VersInv, pc # "idle", UNCHANGED bundled,
           NEW s \in {"Error", "ErrImagePull"}, NEW c \in Conditions, StatusError(s, c)
    PROVE Moves
<1> DEFINE new == [mem EXCEPT !.status = s, !.cond[c] = "False"]
<1>1. CASE Conflict BY <1>1, ConflictMoves
<1>2. CASE Write(new) /\ EndPass(TRUE)
  <2>1. mem \in Objects BY DEF Typed, ObjOK
  <2>2. new \in Objects BY <2>1, CopyType
  <2>3. new.url = mem.url /\ new.ver = mem.ver /\ new.exists = mem.exists
    BY <2>1 DEF Objects
  <2>4. mem' = NoObject BY <1>2 DEF EndPass
  <2> HIDE DEF new
  <2>5. QED BY <1>2, <2>2, <2>3, <2>4, WriteMoves
<1>3. QED BY <1>1, <1>2 DEF StatusError

LEMMA StatusUpdateMoves ==
    ASSUME Typed, VersInv, pc # "idle", UNCHANGED bundled, NEW new \in Objects, NEW l,
           new.url = mem.url, new.ver = mem.ver, new.exists = mem.exists, StatusUpdate(new, l)
    PROVE Moves
<1>1. CASE Conflict BY <1>1, ConflictMoves
<1>2. CASE Write(new) /\ mem' = new BY <1>2, WriteMoves
<1>3. QED BY <1>1, <1>2 DEF StatusUpdate

LEMMA MetMoves ==
    ASSUME ObjOK, NEW c \in Conditions
    PROVE /\ Met(c) \in Objects
          /\ Met(c).url = mem.url /\ Met(c).ver = mem.ver /\ Met(c).exists = mem.exists
  BY MetType DEF ObjOK, Objects, Met

LEMMA HandlerMoves == ASSUME Typed, VersInv, Handler PROVE Moves
<1>o. ObjOK /\ mem \in Objects BY DEF Typed, ObjOK
<1>b. UNCHANGED bundled
  BY DEF Handler, Reconcile, createPodDisruptionBudget, updateStorageScaleVersion,
     applyManifest, recordApply, managePodDisruptionBudget, updateEntitlementPullSecrets,
     CheckImageRegistryStorage, CreateOrUpdateKMMResources, EnablePlugin, CreateImageCheckPod,
     PollPodPullStatus, recordPull, CreateOrUpdateLocalVolumeDiscovery, recordReady, envVars
<1>1. CASE Reconcile
  BY <1>1, <1>b, QuietMoves DEF Reconcile, objVars, passVars
<1>2. CASE \/ createPodDisruptionBudget \/ managePodDisruptionBudget
           \/ updateEntitlementPullSecrets \/ CreateOrUpdateKMMResources \/ EnablePlugin
           \/ CreateImageCheckPod \/ PollPodPullStatus \/ CreateOrUpdateLocalVolumeDiscovery
  <2>1. pc # "idle" /\ ((\E l \in Pcs : Goto(l)) \/ Return \/ Error)
    BY <1>2 DEF createPodDisruptionBudget, managePodDisruptionBudget,
       updateEntitlementPullSecrets, CreateOrUpdateKMMResources, EnablePlugin,
       CreateImageCheckPod, PollPodPullStatus, CreateOrUpdateLocalVolumeDiscovery, Pcs
  <2>2. QED BY <1>b, <2>1, QuietMoves DEF Goto, Return, Error, EndPass, objVars
<1>3. CASE updateStorageScaleVersion
  <2>1. CASE Conflict BY <1>b, <2>1, ConflictMoves
  <2>2. CASE Write([mem EXCEPT !.ver = bundled]) /\ EndPass(TRUE)
    <3>1. /\ fa = mem /\ fa' = [mem EXCEPT !.ver = bundled] /\ cache' = cache
          /\ mem' = NoObject
      BY <1>o, <2>2 DEF ObjOK, Write, EndPass
    <3>2. fa'.ver = bundled /\ fa'.url = fa.url /\ fa'.exists = fa.exists
      BY <1>o, <3>1 DEF Objects
    <3>3. pc = "updateStorageScaleVersion" BY <1>3 DEF updateStorageScaleVersion
    <3>4. QED BY <1>b, <3>1, <3>2, <3>3, BlankFields DEF VersInv, Moves
  <2>3. QED BY <1>3, <2>1, <2>2 DEF updateStorageScaleVersion
<1>4. CASE applyManifest
  BY <1>b, <1>4, QuietMoves, StatusErrorMoves DEF applyManifest, Goto, objVars, Conditions
<1>5. CASE recordApply
  BY <1>b, <1>o, <1>5, MetMoves, StatusUpdateMoves DEF recordApply, Conditions
<1>6. CASE CheckImageRegistryStorage
  <2>1. pc # "idle" BY <1>6 DEF CheckImageRegistryStorage
  <2>2. CASE Goto("CreateOrUpdateKMMResources")
    BY <1>b, <2>1, <2>2, QuietMoves DEF Goto, objVars
  <2>3. CASE StatusUpdate(Met("ImageRegistryStorage"), "CreateOrUpdateKMMResources")
    BY <1>b, <1>o, <2>1, <2>3, MetMoves, StatusUpdateMoves DEF Conditions
  <2>4. CASE StatusError("Error", "ImageRegistryStorage")
    BY <1>b, <2>1, <2>4, StatusErrorMoves DEF Conditions
  <2>5. QED BY <1>6, <2>2, <2>3, <2>4 DEF CheckImageRegistryStorage
<1>7. CASE recordPull
  <2> DEFINE new == [Met("ImagePull") EXCEPT !.status = ""]
  <2>1. pc # "idle" BY <1>7 DEF recordPull
  <2>2. /\ new \in Objects
        /\ new.url = mem.url /\ new.ver = mem.ver /\ new.exists = mem.exists
    <3>1. /\ Met("ImagePull") \in Objects
          /\ Met("ImagePull").url = mem.url /\ Met("ImagePull").ver = mem.ver
          /\ Met("ImagePull").exists = mem.exists
      BY <1>o, MetMoves DEF Conditions
    <3>2. QED BY <3>1 DEF Objects
  <2>3. \/ StatusUpdate(new, "CreateOrUpdateLocalVolumeDiscovery")
        \/ StatusError("ErrImagePull", "ImagePull")
    BY <1>7 DEF recordPull
  <2> HIDE DEF new
  <2>4. QED
    BY <1>b, <2>1, <2>2, <2>3, StatusUpdateMoves, StatusErrorMoves DEF Conditions
<1>8. CASE recordReady
  <2> DEFINE new == [mem EXCEPT !.status = "Ready"]
  <2>1. /\ new \in Objects
        /\ new.url = mem.url /\ new.ver = mem.ver /\ new.exists = mem.exists
    BY <1>o DEF Objects
  <2>2. pc # "idle" /\ (Conflict \/ (Write(new) /\ mem' = NoObject))
    BY <1>8 DEF recordReady, EndPass
  <2> HIDE DEF new
  <2>3. QED BY <1>b, <2>1, <2>2, ConflictMoves, WriteMoves
<1>9. QED BY <1>1, <1>2, <1>3, <1>4, <1>5, <1>6, <1>7, <1>8 DEF Handler

LEMMA UserMoves == ASSUME CalmWorld, Typed, VersInv, User PROVE Moves
<1>1. CASE CreateFusionAccess
  <2>1. PICK r \in Requests :
           fa' = [NoObject EXCEPT !.exists = TRUE, !.url = r.url, !.discover = r.discover,
                                  !.ver = IF r.named THEN bundled ELSE 0]
    BY <1>1 DEF CreateFusionAccess
  <2>2. r.url = "bundled" BY DEF CalmWorld
  <2>3. fa'.url = "bundled" /\ fa'.ver \in {0, bundled} BY <2>1, <2>2, BlankObject DEF Objects
  <2>4. cache.url = "bundled" /\ mem.url = "bundled" BY DEF VersInv
  <2>5. ~fa.exists /\ UNCHANGED <<cache, mem, pc, bundled>>
    BY <1>1 DEF CreateFusionAccess, envVars
  <2>6. QED BY <2>3, <2>4, <2>5 DEF Moves
<1>2. CASE EditFusionAccess
  <2>1. fa' = [fa EXCEPT !.ver = 0] BY <1>2 DEF EditFusionAccess, Upset, CalmWorld
  <2>2. fa'.url = fa.url /\ fa'.ver = 0 /\ fa'.exists = fa.exists
    BY <2>1 DEF Typed, ObjOK, Objects
  <2>3. fa.url = "bundled" /\ cache.url = "bundled" /\ mem.url = "bundled" BY DEF VersInv
  <2>4. UNCHANGED <<cache, mem, pc, bundled>> BY <1>2 DEF EditFusionAccess
  <2>5. QED BY <2>2, <2>3, <2>4 DEF Moves
<1>3. CASE ChangePullSecret \/ ChangeRegistry
  <2>1. UNCHANGED <<fa, cache, mem, pc, bundled>>
    BY <1>3 DEF ChangePullSecret, ChangeRegistry, objVars, passVars
  <2>2. QED BY <2>1, QuietMoves
<1>4. QED BY <1>1, <1>2, <1>3 DEF User

LEMMA NextMoves ==
    ASSUME CalmWorld, Typed, VersInv, Next \/ UNCHANGED vars, ~Upgrade PROVE Moves
<1>1. CASE Handler BY <1>1, HandlerMoves
<1>2. CASE User BY <1>2, UserMoves
<1>3. CASE Cluster \/ ApiError \/ UNCHANGED vars
  <2>1. /\ UNCHANGED <<fa, cache, bundled>>
        /\ UNCHANGED <<pc, mem>> \/ (pc' = "idle" /\ mem' = NoObject)
    BY <1>3 DEF Cluster, TimePasses, StartBuild, BuildProgress, FinishBuild, CollectBuild,
       Kubelet, ApiError, Error, EndPass, vars, objVars, passVars, envVars
  <2>2. QED BY <2>1, QuietMoves
<1>4. CASE InformerSync \/ Crash
  <2>1. /\ cache' = fa /\ UNCHANGED <<fa, bundled>>
        /\ UNCHANGED <<pc, mem>> \/ (pc' = "idle" /\ mem' = NoObject)
    BY <1>4 DEF InformerSync, Crash, Restart, passVars, envVars
  <2>2. QED BY <2>1, SyncMoves
<1>5. QED BY <1>1, <1>2, <1>3, <1>4 DEF Next

\* How the Module, the builds and the budget move in a step that is no upgrade.
KmmMoves ==
    /\ module' = module \/ (pc = "CreateOrUpdateKMMResources" /\ module' = applied)
    /\ \/ UNCHANGED <<builds, built>>
       \/ /\ module # 0 /\ module \notin built /\ UNCHANGED <<module, built>>
          /\ builds' = [builds EXCEPT ![module] = "running"]
       \/ \E v \in 1..External :
             /\ builds[v] = "running" /\ UNCHANGED module
             /\ builds' = [builds EXCEPT ![v] = "complete"] /\ built' = built \cup {v}
       \/ \E v \in 1..External :
             /\ builds[v] = "complete" /\ UNCHANGED <<module, built>>
             /\ builds' = [builds EXCEPT ![v] = "none"]

BudgetMoves ==
    /\ \/ UNCHANGED pdb /\ (overdue => overdue')
       \/ pdb' = [pdb EXCEPT !.exists = TRUE]
       \/ UNCHANGED overdue /\ pdb.exists /\ haveBuilds /\ pdb' = [pdb EXCEPT !.label = TRUE]
       \/ UNCHANGED overdue /\ ~haveBuilds /\ (pdb.label \/ overdue) /\ pdb' = NoBudget
    /\ pc' = "updateStorageScaleVersion"
          => pc' = pc \/ pdb' = [pdb EXCEPT !.exists = TRUE]

LEMMA NextKmmMoves ==
    ASSUME CalmWorld, Next \/ UNCHANGED vars, ~Upgrade PROVE KmmMoves
<1>1. CASE Handler
  BY <1>1 DEF Handler, Reconcile, createPodDisruptionBudget, updateStorageScaleVersion,
     applyManifest, recordApply, managePodDisruptionBudget, updateEntitlementPullSecrets,
     CheckImageRegistryStorage, CreateOrUpdateKMMResources, EnablePlugin, CreateImageCheckPod,
     PollPodPullStatus, recordPull, CreateOrUpdateLocalVolumeDiscovery, recordReady, kmmVars,
     KmmMoves
<1>2. CASE Cluster
  BY <1>2 DEF Cluster, TimePasses, StartBuild, BuildProgress, FinishBuild, CollectBuild,
     Kubelet, Upset, CalmWorld, kmmVars, KmmMoves
<1>3. CASE ApiError \/ InformerSync \/ Crash \/ User \/ UNCHANGED vars
  BY <1>3 DEF ApiError, InformerSync, Crash, User, CreateFusionAccess, EditFusionAccess,
     ChangePullSecret, ChangeRegistry, vars, kmmVars, KmmMoves
<1>4. QED BY <1>1, <1>2, <1>3 DEF Next

LEMMA NextBudgetMoves == ASSUME Next \/ UNCHANGED vars PROVE BudgetMoves
<1>1. CASE createPodDisruptionBudget BY <1>1 DEF createPodDisruptionBudget, BudgetMoves
<1>2. CASE managePodDisruptionBudget
  <2>1. pc' # "updateStorageScaleVersion" /\ UNCHANGED overdue
    BY <1>2 DEF managePodDisruptionBudget, Return, EndPass, Goto, envVars
  <2>2. QED BY <1>2, <2>1 DEF managePodDisruptionBudget, BudgetMoves
<1>3. CASE /\ Handler /\ ~createPodDisruptionBudget /\ ~managePodDisruptionBudget
  <2>1. UNCHANGED <<pdb, overdue>>
    BY <1>3 DEF Handler, Reconcile, updateStorageScaleVersion,
       applyManifest, recordApply, updateEntitlementPullSecrets,
       CheckImageRegistryStorage, CreateOrUpdateKMMResources, EnablePlugin,
       CreateImageCheckPod, PollPodPullStatus, recordPull, CreateOrUpdateLocalVolumeDiscovery,
       recordReady, envVars
  <2>2. pc' = pc \/ pc' # "updateStorageScaleVersion"
    BY <1>3 DEF Handler, Reconcile, updateStorageScaleVersion,
       applyManifest, recordApply, updateEntitlementPullSecrets,
       CheckImageRegistryStorage, CreateOrUpdateKMMResources, EnablePlugin,
       CreateImageCheckPod, PollPodPullStatus, recordPull, CreateOrUpdateLocalVolumeDiscovery,
       recordReady, passVars, Goto, Return, Error, EndPass, StatusError, StatusUpdate, Conflict
  <2>3. QED BY <2>1, <2>2 DEF BudgetMoves
<1>4. CASE ApiError \/ InformerSync \/ Crash \/ Upgrade \/ UNCHANGED vars
  BY <1>4 DEF ApiError, Error, EndPass, InformerSync, Crash, Upgrade, Restart, vars, passVars,
     envVars, BudgetMoves
<1>5. CASE User \/ Cluster
  <2>1. UNCHANGED <<pdb, pc>> /\ overdue' \in {overdue, TRUE}
    BY <1>5 DEF User, CreateFusionAccess, EditFusionAccess, ChangePullSecret, ChangeRegistry,
       Cluster, TimePasses, StartBuild, BuildProgress, FinishBuild, CollectBuild, Kubelet,
       passVars, envVars
  <2>2. overdue => overdue' BY <2>1
  <2>3. QED BY <2>1, <2>2 DEF BudgetMoves
<1>6. QED BY <1>1, <1>2, <1>3, <1>4, <1>5 DEF Next

LEMMA VersKept == ASSUME CalmWorld, Typed, VersInv, Moves PROVE VersInv'
<1>1. /\ fa.ver \in Nat /\ cache.ver \in Nat /\ mem.ver \in Nat /\ bundled \in Nat
  <2>1. fa.ver \in 0..Versions /\ cache.ver \in 0..Versions /\ mem.ver \in 0..Versions
    BY DEF Typed, ObjOK, Objects
  <2>2. Versions \in Nat /\ bundled \in 1..Versions BY FusionAssumption DEF Typed, EnvOK
  <2>3. QED BY <2>1, <2>2
<1>2. fa.ver <= bundled /\ cache.ver <= bundled /\ mem.ver <= bundled BY DEF VersInv
<1>3. fa'.ver <= bundled' BY <1>1, <1>2 DEF Moves
<1>4. cache'.ver <= bundled' BY <1>1, <1>2 DEF Moves
<1>5. mem'.ver <= bundled' BY <1>1, <1>2 DEF Moves
<1>6. QED BY <1>3, <1>4, <1>5 DEF VersInv, Moves

LEMMA PresentKept == ASSUME Present, Moves, KmmMoves PROVE Present'
<1>1. module' # 0 => module # 0 \/ pc # "idle" BY DEF KmmMoves
<1>2. QED BY <1>1 DEF Present, Moves

LEMMA BuildKept ==
    ASSUME Typed, VersInv, PassInv, BuildInv, Moves, KmmMoves PROVE BuildInv'
<1>t. /\ builds \in [1..External -> {"none", "running", "complete"}] /\ built \subseteq 1..External
      /\ bundled' = bundled
  BY DEF Typed, OwnOK, Moves
<1>1. pc = "CreateOrUpdateKMMResources" => applied = bundled
  BY DEF PassInv, AfterApply, AfterRecord, AfterPlugin, VersInv, Target
<1>2. module' \in {module, bundled} BY <1>1 DEF KmmMoves
<1>3. built \subseteq built' BY DEF KmmMoves
<1>4. module' \in built' \cup {0, bundled'} BY <1>t, <1>2, <1>3 DEF BuildInv
<1>5. ASSUME NEW v \in 1..External PROVE builds'[v] # "none" => v = bundled' /\ v = module'
  <2>1. builds'[v] # "none" => builds[v] # "none" \/ (v = module /\ module' = module
                                                   /\ module # 0 /\ module \notin built)
    BY <1>t DEF KmmMoves
  <2>2. builds'[v] # "none" => v = bundled /\ v = module BY <2>1 DEF BuildInv
  <2>3. QED BY <1>t, <1>2, <2>2
<1>6. ASSUME NEW v \in 1..External PROVE builds'[v] = "complete" => v \in built'
  BY <1>t, <1>3 DEF KmmMoves, BuildInv
<1>7. QED BY <1>4, <1>5, <1>6 DEF BuildInv

LEMMA BudgetKept ==
    ASSUME Typed, BuildInv, BudgetInv, Moves, KmmMoves, BudgetMoves PROVE BudgetInv'
<1>t. /\ builds \in [1..External -> {"none", "running", "complete"}]
      /\ pdb \in [exists: BOOLEAN, label: BOOLEAN]
      /\ bundled \in 1..External /\ bundled' = bundled
  BY FusionAssumption DEF Typed, OwnOK, EnvOK, Moves, External
<1>1. pdb'.label => pdb'.exists BY <1>t DEF BudgetMoves, BudgetInv, NoBudget
<1>2. pdb'.label => pdb.label \/ haveBuilds BY <1>t DEF BudgetMoves, NoBudget
<1>3. haveBuilds /\ bundled \notin built => builds[bundled] = "running"
  BY <1>t DEF haveBuilds, BuildInv
<1>4. builds[bundled] = "running" /\ bundled' \notin built' => builds'[bundled'] = "running"
  BY <1>t DEF KmmMoves
<1>5. built \subseteq built' BY DEF KmmMoves
<1>6. QED BY <1>t, <1>1, <1>2, <1>3, <1>4, <1>5 DEF BudgetInv

LEMMA ProtKept ==
    ASSUME Typed, VersInv, PassInv, Present, BuildInv, BudgetInv, ProtInv,
           Moves, KmmMoves, BudgetMoves
    PROVE ProtInv'
<1>t. /\ pdb \in [exists: BOOLEAN, label: BOOLEAN] /\ overdue \in BOOLEAN
      /\ bundled \in 1..External /\ bundled' = bundled
      /\ bundled # 0
  BY FusionAssumption DEF Typed, OwnOK, EnvOK, Moves, External
<1> SUFFICES ASSUME bundled # 1, bundled \notin built', Announced'
             PROVE pdb'.exists \/ overdue'
  BY <1>t DEF ProtInv
<1>1. bundled \notin built BY DEF KmmMoves
<1>2. fa.exists BY DEF Present
<1>3. CASE pdb' = [pdb EXCEPT !.exists = TRUE] BY <1>t, <1>3
<1>4. CASE pdb' # [pdb EXCEPT !.exists = TRUE]
  <2>1. pc = "CreateOrUpdateKMMResources" => mem.ver = bundled
    BY DEF PassInv, AfterApply, AfterRecord, AfterPlugin, VersInv
  <2>2. module' = bundled => module = bundled \/ mem.ver = bundled BY <2>1 DEF KmmMoves
  <2>3. pc' = "updateStorageScaleVersion" => pc = "updateStorageScaleVersion"
    BY <1>4 DEF BudgetMoves
  <2>4. fa'.ver = bundled => fa.ver = bundled \/ pc = "updateStorageScaleVersion"
    BY <1>t, <1>2 DEF Moves
  <2>5. cache'.ver = bundled => cache.ver = bundled \/ fa.ver = bundled BY DEF Moves
  <2>6. mem'.ver = bundled => mem.ver = bundled \/ cache.ver = bundled BY <1>t DEF Moves
  <2>7. Announced BY <1>t, <2>2, <2>3, <2>4, <2>5, <2>6 DEF Announced
  <2>8. pdb.exists \/ overdue BY <1>1, <2>7 DEF ProtInv
  <2>9. pdb.label => haveBuilds BY <1>t, <1>1 DEF BudgetInv, haveBuilds
  <2>10. QED BY <1>t, <1>4, <2>8, <2>9 DEF BudgetMoves
<1>5. QED BY <1>3, <1>4

\* An upgrade finds the previous version built and no budget that has seen a build.
LEMMA UpgradeCalm == ASSUME CalmWorld, Typed, CalmInv, Upgrade PROVE CalmInv'
<1>t. /\ fa.ver \in Nat /\ bundled \in Nat /\ bundled \in 1..Versions
      /\ bundled' = bundled + 1 /\ built \subseteq 1..External
  <2>1. fa.ver \in 0..Versions BY DEF Typed, ObjOK, Objects
  <2>2. Versions \in Nat /\ bundled \in 1..Versions BY FusionAssumption DEF Typed, EnvOK
  <2>3. bundled' = bundled + 1 /\ built \subseteq 1..External BY DEF Typed, OwnOK, Upgrade
  <2>4. QED BY <2>1, <2>2, <2>3
<1>1. /\ ~pdb.exists /\ ~haveBuilds /\ module \in built
      /\ fa' = fa /\ cache' = fa /\ mem' = NoObject /\ pc' = "idle"
      /\ UNCHANGED <<pdb, module, builds, built>>
  BY DEF CalmWorld, Upgrade, Restart, kmmVars
<1>2. VersInv'
  <2>1. fa.url = "bundled" /\ fa.ver <= bundled BY DEF CalmInv, VersInv
  <2>2. mem'.url = "bundled" /\ mem'.ver = 0 BY <1>1, BlankFields
  <2>3. QED BY <1>t, <1>1, <2>1, <2>2 DEF VersInv
<1>3. Present'
  <2>1. module # 0 BY <1>t, <1>1
  <2>2. fa.exists BY <2>1 DEF CalmInv, Present
  <2>3. QED BY <1>1, <2>2 DEF Present
<1>4. BuildInv' BY <1>1 DEF BuildInv, haveBuilds
<1>5. BudgetInv' BY <1>1 DEF CalmInv, BudgetInv
<1>6. ProtInv'
  <2>1. ASSUME bundled' \notin built' PROVE ~Announced'
    <3>1. bundled' # fa'.ver /\ bundled' # cache'.ver
      BY <1>t, <1>1 DEF CalmInv, VersInv
    <3>2. bundled' # mem'.ver BY <1>t, <1>1, BlankFields
    <3>3. bundled' # module' BY <1>1, <2>1
    <3>4. QED BY <1>1, <3>1, <3>2, <3>3 DEF Announced
  <2>2. QED BY <2>1 DEF ProtInv
<1>7. QED BY <1>2, <1>3, <1>4, <1>5, <1>6 DEF CalmInv

LEMMA NextCalm ==
    ASSUME CalmWorld, Typed, PassInv, CalmInv, [Next]_vars PROVE CalmInv'
<1>1. CASE Upgrade BY <1>1, UpgradeCalm
<1>2. CASE ~Upgrade
  <2>1. Moves BY <1>2, NextMoves DEF CalmInv
  <2>2. KmmMoves BY <1>2, NextKmmMoves
  <2>3. BudgetMoves BY NextBudgetMoves
  <2>4. QED
    BY <2>1, <2>2, <2>3, VersKept, PresentKept, BuildKept, BudgetKept, ProtKept DEF CalmInv
<1>3. QED BY <1>1, <1>2

\* The first build of a version the operator was upgraded to runs under the budget or
\* after its time limit, for any number of versions, when upgrades are calm, the object
\* keeps asking for the bundled manifest and no module is built twice.
THEOREM CalmUpgradesBuildProtected == ASSUME CalmWorld PROVE Spec => []BuildProtected
<1>1. Init => CalmInv
  <2> SUFFICES ASSUME Init PROVE CalmInv OBVIOUS
  <2>1. VersInv /\ Present BY BlankFields DEF Init, VersInv, Present
  <2>2. BuildInv BY DEF Init, BuildInv
  <2>3. ~pdb.label BY DEF Init, NoBudget
  <2>4. BudgetInv /\ ProtInv BY <2>3 DEF Init, BudgetInv, ProtInv
  <2>5. QED BY <2>1, <2>2, <2>4 DEF CalmInv
<1>2. Typed /\ PassInv /\ CalmInv /\ [Next]_vars => CalmInv' BY NextCalm
<1>3. Typed /\ CalmInv => BuildProtected
  <2> SUFFICES ASSUME Typed, CalmInv, NEW v \in 2..Versions,
                      builds[v] = "running", v \notin built
               PROVE pdb.exists \/ overdue
    BY DEF BuildProtected
  <2>1. v \in 1..External /\ v # 1 BY FusionAssumption DEF External
  <2>2. v = bundled /\ v = module BY <2>1 DEF CalmInv, BuildInv
  <2>3. Announced BY <2>2 DEF Announced
  <2>4. QED BY <2>1, <2>2, <2>3 DEF CalmInv, ProtInv
<1>4. QED BY <1>1, <1>2, <1>3, AlwaysTyped, AlwaysPass, PTL DEF Spec
=============================================================================
