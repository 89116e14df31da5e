--------------------------- MODULE DiscoveryProofs ---------------------------
(***************************************************************************)
(* Theorems about Discovery for any nodes, disks and bounds: the type      *)
(* invariant, and that a finder has published what it remembers unless a   *)
(* publication in its loop fails.                                          *)
(***************************************************************************)
EXTENDS Discovery, FiniteSetTheorems, TLAPS

(* The type invariant by owner of the variables.                           *)

CtlOK ==
    /\ lvd \in LVDs /\ queued \in BOOLEAN /\ pass \in Passes
    /\ pass.pc = "deleteOrphanDiscoveryResults" => pass.todo # {}
WorldOK ==
    /\ ds \in DaemonSets /\ pod \in [Nodes -> Finders] /\ result \in [Nodes -> Results]
    /\ disks \in [Nodes -> SUBSET Disks] /\ members \subseteq Nodes
TroubleOK == troubles \in 0..MaxTroubles

LEMMA TypeParts == DiscoveryTypeOK <=> CtlOK /\ WorldOK /\ TroubleOK
  BY DEF DiscoveryTypeOK, CtlOK, WorldOK, TroubleOK

LEMMA TypePartsPrime == (CtlOK /\ WorldOK /\ TroubleOK)' => DiscoveryTypeOK'
  BY DEF DiscoveryTypeOK, CtlOK, WorldOK, TroubleOK

\* A set of nodes is counted within bounds.
LEMMA CountNodes == ASSUME NEW S \in SUBSET Nodes PROVE Cardinality(S) \in Counts
<1>1. IsFiniteSet(Nodes) BY DiscoveryAssumption
<1>2. Cardinality(Nodes) \in Nat BY <1>1, FS_CardinalityType
<1>3. IsFiniteSet(S) /\ Cardinality(S) <= Cardinality(Nodes) BY <1>1, FS_Subset
<1>4. Cardinality(S) \in Nat BY <1>3, FS_CardinalityType
<1>5. QED BY <1>2, <1>3, <1>4 DEF Counts

LEMMA ZeroCount == 0 \in Counts
<1>1. Cardinality(Nodes) \in Nat BY DiscoveryAssumption, FS_CardinalityType
<1>2. QED BY <1>1 DEF Counts

LEMMA MessageType ==
    ASSUME NEW k \in Kinds, NEW d \in Counts, NEW r \in Counts
    PROVE Message(k, d, r) \in Messages
  BY DEF Message, Messages

LEMMA BlankType ==
    /\ \A u \in 0..MaxLVDs : NoLVD(u) \in LVDs
    /\ Idle \in Passes /\ Idle.pc = "idle"
    /\ NoDS \in DaemonSets /\ NoPod \in Finders /\ NoResult \in Results
<1>1. MaxLVDs \in Nat BY DiscoveryAssumption
<1>2. Message("none", 0, 0) \in Messages BY ZeroCount, MessageType DEF Kinds
<1>3. \A u \in 0..MaxLVDs : NoLVD(u) \in LVDs BY <1>2 DEF NoLVD, LVDs
<1>4. NoLVD(0) \in LVDs BY <1>1, <1>3
<1>5. Idle \in Passes /\ Idle.pc = "idle" BY <1>4 DEF Idle, Passes
<1>6. NoDS \in DaemonSets BY <1>1, ZeroCount DEF NoDS, DaemonSets
<1>7. NoPod \in Finders BY <1>1 DEF NoPod, Finders, Steps
<1>8. NoResult \in Results BY <1>1 DEF NoResult, Results
<1>9. QED BY <1>3, <1>5, <1>6, <1>7, <1>8

LEMMA TroubleType == ASSUME TroubleOK, NEW k, Trouble(k) PROVE TroubleOK'
<1>1. MaxTroubles \in Nat BY DiscoveryAssumption
<1>2. QED BY <1>1 DEF TroubleOK, Trouble

LEMMA RetryType == ASSUME CtlOK, Retry PROVE CtlOK'
  BY BlankType DEF CtlOK, Retry

----------------------------------------------------------------------------
(* The type invariant, action by action.                                   *)

LEMMA ReconcileType ==
    ASSUME CtlOK, WorldOK, TroubleOK, Reconcile PROVE (CtlOK /\ WorldOK /\ TroubleOK)'
<1>1. CtlOK' BY DEF CtlOK, Reconcile, Passes
<1>2. (WorldOK /\ TroubleOK)' BY DEF WorldOK, TroubleOK, Reconcile, envVars
<1>3. QED BY <1>1, <1>2

LEMMA CreateOrUpdateDaemonsetType ==
    ASSUME CtlOK, WorldOK, TroubleOK, CreateOrUpdateDaemonset
    PROVE (CtlOK /\ WorldOK /\ TroubleOK)'
<1>1. CtlOK' BY DEF CtlOK, CreateOrUpdateDaemonset, Passes
<1>2. ds' \in DaemonSets
  <2>1. pass.copy.uid \in 0..MaxLVDs /\ pass.copy.sel \subseteq Nodes
    BY DEF CtlOK, Passes, LVDs
  <2>2. ds \in DaemonSets BY DEF WorldOK
  <2>3. QED BY <2>1, <2>2, BlankType DEF CreateOrUpdateDaemonset, DaemonSets
<1>3. WorldOK' BY <1>2 DEF WorldOK, CreateOrUpdateDaemonset, envVars
<1>4. TroubleOK' BY TroubleType DEF TroubleOK, CreateOrUpdateDaemonset
<1>5. QED BY <1>1, <1>3, <1>4

LEMMA updateDiscoveryStatusType ==
    ASSUME CtlOK, NEW msg \in Messages, NEW w \in BOOLEAN, updateDiscoveryStatus(msg, w)
    PROVE lvd' \in LVDs /\ queued' \in BOOLEAN
  BY DEF CtlOK, updateDiscoveryStatus, LVDs

LEMMA recordFailureType ==
    ASSUME CtlOK, WorldOK, TroubleOK, recordFailure PROVE (CtlOK /\ WorldOK /\ TroubleOK)'
<1> DEFINE msg == Message("failed", 0, 0)
<1>1. msg \in Messages BY ZeroCount, MessageType DEF Kinds
<1>2. CASE Refused(msg) /\ Retry
  BY <1>2, RetryType DEF recordFailure, WorldOK, TroubleOK, envVars
<1>3. CASE /\ ~Refused(msg) /\ updateDiscoveryStatus(msg, FALSE)
           /\ pass' = [pass EXCEPT !.pc = "getDaemonSetStatus", !.copy.cond = msg]
  <2> HIDE DEF msg
  <2>1. lvd' \in LVDs /\ queued' \in BOOLEAN BY <1>1, <1>3, updateDiscoveryStatusType
  <2>2. pass' \in Passes /\ pass'.pc = "getDaemonSetStatus"
    BY <1>1, <1>3 DEF CtlOK, Passes, LVDs
  <2>3. CtlOK' BY <2>1, <2>2 DEF CtlOK
  <2>4. (WorldOK /\ TroubleOK)' BY DEF recordFailure, WorldOK, TroubleOK, envVars
  <2>5. QED BY <2>3, <2>4
<1>4. QED BY <1>2, <1>3 DEF recordFailure

LEMMA getDaemonSetStatusType ==
    ASSUME CtlOK, WorldOK, TroubleOK, getDaemonSetStatus
    PROVE (CtlOK /\ WorldOK /\ TroubleOK)'
<1> DEFINE kind == IF ds.desired = 0 THEN "noDaemons"
                   ELSE IF ds.desired # ds.ready THEN "progressing" ELSE "available"
           msg == Message(kind, ds.desired, ds.ready)
           found == {n \in Nodes : result[n].exists}
<1>1. ds.desired \in Counts /\ ds.ready \in Counts BY DEF WorldOK, DaemonSets
<1>2. kind \in Kinds BY DEF Kinds
<1>3. msg \in Messages BY <1>1, <1>2, MessageType
<1>4. WorldOK' BY DEF getDaemonSetStatus, WorldOK, envVars
<1>5. CASE Retry /\ (UNCHANGED troubles \/ Trouble("refused"))
  BY <1>4, <1>5, RetryType, TroubleType DEF TroubleOK
<1>6. CASE /\ updateDiscoveryStatus(msg, kind # "available") /\ UNCHANGED troubles
           /\ pass' = IF kind = "available" /\ pass.copy.sel # {} /\ found # {}
                      THEN [pass EXCEPT !.pc = "deleteOrphanDiscoveryResults", !.todo = found]
                      ELSE Idle
  <2>1. found \subseteq Nodes OBVIOUS
  <2> HIDE DEF msg, kind, found
  <2>2. lvd' \in LVDs /\ queued' \in BOOLEAN BY <1>3, <1>6, updateDiscoveryStatusType
  <2>3. /\ pass' \in Passes
        /\ pass'.pc = "deleteOrphanDiscoveryResults" => pass'.todo # {}
    BY <1>6, <2>1, BlankType DEF CtlOK, Passes
  <2>4. CtlOK' BY <2>2, <2>3 DEF CtlOK
  <2>5. QED BY <1>4, <1>6, <2>4 DEF TroubleOK
<1>7. QED BY <1>5, <1>6 DEF getDaemonSetStatus

LEMMA deleteOrphanDiscoveryResultsType ==
    ASSUME CtlOK, WorldOK, TroubleOK, deleteOrphanDiscoveryResults
    PROVE (CtlOK /\ WorldOK /\ TroubleOK)'
<1>1. WorldOK'
  BY BlankType DEF deleteOrphanDiscoveryResults, WorldOK, envVars
<1>2. TroubleOK' BY TroubleType DEF deleteOrphanDiscoveryResults, TroubleOK
<1>3. CASE Retry BY <1>1, <1>2, <1>3, RetryType
<1>4. ASSUME NEW n \in pass.todo, UNCHANGED <<lvd, queued>>,
             pass' = IF pass.todo = {n} THEN Idle ELSE [pass EXCEPT !.todo = @ \ {n}]
      PROVE CtlOK'
  <2>1. pass \in Passes /\ pass.todo \subseteq Nodes BY DEF CtlOK, Passes
  <2>2. CASE pass.todo = {n} BY <1>4, <2>2, BlankType DEF CtlOK
  <2>3. CASE pass.todo # {n}
    <3>1. pass.todo \ {n} # {} BY <2>3
    <3>2. pass' \in Passes /\ pass'.todo # {} BY <1>4, <2>1, <2>3, <3>1 DEF Passes
    <3>3. QED BY <1>4, <3>2 DEF CtlOK
  <2>4. QED BY <2>2, <2>3
<1>5. QED BY <1>1, <1>2, <1>3, <1>4 DEF deleteOrphanDiscoveryResults

LEMMA RestartType ==
    ASSUME CtlOK, WorldOK, TroubleOK, Restart PROVE (CtlOK /\ WorldOK /\ TroubleOK)'
<1>1. CtlOK' BY BlankType DEF CtlOK, Restart
<1>2. WorldOK' BY DEF WorldOK, Restart, envVars
<1>3. TroubleOK' BY TroubleType DEF Restart
<1>4. QED BY <1>1, <1>2, <1>3

\* The finders change their own pod and result and nothing else.
LEMMA FinderType ==
    ASSUME CtlOK, WorldOK, TroubleOK, NEW n \in Nodes, Finder(n) \/ Kubelet(n)
    PROVE (CtlOK /\ WorldOK /\ TroubleOK)'
<1>1. CtlOK'
  BY DEF CtlOK, Finder, Kubelet, ensureDiscoveryResultCR, discoverDevices, ctlVars
<1>2. TroubleOK'
  BY TroubleType DEF Finder, Kubelet, ensureDiscoveryResultCR, discoverDevices, TroubleOK
<1>3. pod[n] \in Finders /\ disks[n] \in SUBSET Disks /\ result[n] \in Results
  BY DEF WorldOK
<1>4. pod' \in [Nodes -> Finders]
  BY <1>3 DEF WorldOK, Finder, Kubelet, ensureDiscoveryResultCR, discoverDevices, Finders, Steps
<1>5. result' \in [Nodes -> Results]
  <2>1. pod[n].own \in 0..MaxLVDs BY <1>3 DEF Finders
  <2>2. [exists |-> TRUE, own |-> pod[n].own, disks |-> {}] \in Results BY <2>1 DEF Results
  <2>3. [result[n] EXCEPT !.disks = disks[n]] \in Results BY <1>3 DEF Results
  <2>4. CASE ensureDiscoveryResultCR(n)
    BY <1>3, <2>2, <2>4 DEF WorldOK, ensureDiscoveryResultCR
  <2>5. CASE discoverDevices(n)
    <3>1. \/ UNCHANGED result
          \/ result' = [result EXCEPT ![n] = [result[n] EXCEPT !.disks = disks[n]]]
      BY <2>5 DEF discoverDevices
    <3>2. QED BY <2>3, <3>1 DEF WorldOK
  <2>6. CASE Kubelet(n) BY <2>6 DEF WorldOK, Kubelet
  <2>7. QED BY <2>4, <2>5, <2>6 DEF Finder
<1>6. UNCHANGED <<ds, disks, members>>
  BY DEF Finder, Kubelet, ensureDiscoveryResultCR, discoverDevices, envVars
<1>7. WorldOK' BY <1>4, <1>5, <1>6 DEF WorldOK
<1>8. QED BY <1>1, <1>2, <1>7

LEMMA SyncPodType ==
    ASSUME CtlOK, WorldOK, TroubleOK, NEW n \in Nodes, SyncPod(n)
    PROVE (CtlOK /\ WorldOK /\ TroubleOK)'
<1>1. (CtlOK /\ TroubleOK)' BY DEF CtlOK, TroubleOK, SyncPod, ctlVars
<1>2. [st |-> "ensureDiscoveryResultCR", own |-> ds.own, sel |-> ds.sel, disks |-> {}] \in Finders
  BY DEF WorldOK, DaemonSets, Finders, Steps
<1>3. WorldOK' BY <1>2, BlankType DEF WorldOK, SyncPod, envVars
<1>4. QED BY <1>1, <1>3

LEMMA SyncStatusType ==
    ASSUME CtlOK, WorldOK, TroubleOK, SyncStatus PROVE (CtlOK /\ WorldOK /\ TroubleOK)'
<1>1. (CtlOK /\ TroubleOK)' BY DEF CtlOK, TroubleOK, SyncStatus
<1> DEFINE up == {n \in Nodes : pod[n].st \notin {"none", "exited"}}
           desired == Cardinality({n \in Nodes : Wanted(n)})
           ready == Cardinality({n \in up : Wanted(n)})
           stray == Cardinality({n \in Nodes : pod[n].st # "none" /\ ~Wanted(n)})
<1>2. desired \in Counts BY CountNodes
<1>3. ready \in Counts
  <2>1. {n \in up : Wanted(n)} \in SUBSET Nodes OBVIOUS
  <2>2. QED BY <2>1, CountNodes
<1>4. stray \in Counts BY CountNodes
<1>5. ds' = [ds EXCEPT !.desired = desired, !.ready = ready, !.stray = stray]
  BY DEF SyncStatus
<1> HIDE DEF desired, ready, stray
<1>6. ds' \in DaemonSets BY <1>2, <1>3, <1>4, <1>5 DEF WorldOK, DaemonSets
<1>7. WorldOK' BY <1>6 DEF WorldOK, SyncStatus, envVars
<1>8. QED BY <1>1, <1>7

LEMMA GarbageCollectType ==
    ASSUME CtlOK, WorldOK, TroubleOK, GarbageCollect PROVE (CtlOK /\ WorldOK /\ TroubleOK)'
<1>1. (CtlOK /\ TroubleOK)' BY DEF CtlOK, TroubleOK, GarbageCollect
<1>2. WorldOK' BY BlankType DEF WorldOK, GarbageCollect, envVars
<1>3. QED BY <1>1, <1>2

LEMMA EditType ==
    ASSUME CtlOK, WorldOK, NEW new \in LVDs, Edit(new), UNCHANGED envVars
    PROVE (CtlOK /\ WorldOK)'
<1>1. CtlOK' BY DEF CtlOK, Edit, Passes
<1>2. WorldOK' BY DEF WorldOK, Edit, envVars
<1>3. QED BY <1>1, <1>2

\* Users, machines and the FusionAccess controller.
LEMMA OutsideType ==
    ASSUME CtlOK, WorldOK, TroubleOK,
           \/ CreateLocalVolumeDiscovery \/ UpdateLocalVolumeDiscovery
           \/ User \/ ChangeDisks \/ NodeLeaves
    PROVE (CtlOK /\ WorldOK /\ TroubleOK)'
<1>1. lvd \in LVDs /\ lvd.uid \in 0..MaxLVDs /\ MaxLVDs \in Nat
  BY DiscoveryAssumption DEF CtlOK, LVDs
<1>2. CASE CreateLocalVolumeDiscovery
  <2>1. lvd.uid + 1 \in 0..MaxLVDs BY <1>1, <1>2 DEF CreateLocalVolumeDiscovery
  <2>2. NoLVD(lvd.uid + 1) \in LVDs BY <2>1, BlankType
  <2>3. [NoLVD(lvd.uid + 1) EXCEPT !.exists = TRUE] \in LVDs BY <2>2 DEF LVDs
  <2>4. QED BY <1>2, <2>3, EditType DEF CreateLocalVolumeDiscovery, TroubleOK
<1>3. CASE UpdateLocalVolumeDiscovery
  <2>1. [lvd EXCEPT !.sel = {}] \in LVDs BY <1>1 DEF LVDs
  <2>2. QED BY <1>3, <2>1, EditType DEF UpdateLocalVolumeDiscovery, TroubleOK
<1>4. CASE User
  <2>1. TroubleOK' BY <1>4, TroubleType DEF User
  <2>2. PICK new \in LVDs : Edit(new)
    <3>1. \A s \in Selectors : [lvd EXCEPT !.sel = s] \in LVDs
      BY <1>1, DiscoveryAssumption DEF LVDs
    <3>2. NoLVD(lvd.uid) \in LVDs BY <1>1, BlankType
    <3>3. QED BY <1>4, <3>1, <3>2 DEF User
  <2>3. QED BY <1>4, <2>1, <2>2, EditType DEF User
<1>5. CASE ChangeDisks
  <2>1. TroubleOK' BY <1>5, TroubleType DEF ChangeDisks
  <2>2. CtlOK' BY <1>5 DEF CtlOK, ChangeDisks, ctlVars
  <2>3. WorldOK' BY <1>5, DiscoveryAssumption DEF WorldOK, ChangeDisks
  <2>4. QED BY <2>1, <2>2, <2>3
<1>6. CASE NodeLeaves
  <2>1. TroubleOK' BY <1>6, TroubleType DEF NodeLeaves
  <2>2. CtlOK' BY <1>6 DEF CtlOK, NodeLeaves, ctlVars
  <2>3. WorldOK' BY <1>6, BlankType DEF WorldOK, NodeLeaves
  <2>4. QED BY <2>1, <2>2, <2>3
<1>7. QED BY <1>2, <1>3, <1>4, <1>5, <1>6

LEMMA InitType == Init => DiscoveryTypeOK
<1> SUFFICES ASSUME Init PROVE DiscoveryTypeOK OBVIOUS
<1>1. 0 \in 0..MaxLVDs /\ 0 \in 0..MaxTroubles BY DiscoveryAssumption
<1>2. CtlOK BY <1>1, BlankType DEF Init, CtlOK
<1>3. FirstLists \subseteq SUBSET Disks BY DiscoveryAssumption
<1>4. WorldOK BY <1>3, BlankType DEF Init, WorldOK
<1>5. QED BY <1>1, <1>2, <1>4, TypeParts DEF Init, TroubleOK

LEMMA NextType == DiscoveryTypeOK /\ [Next]_vars => DiscoveryTypeOK'
<1> SUFFICES ASSUME DiscoveryTypeOK, [Next]_vars PROVE (CtlOK /\ WorldOK /\ TroubleOK)'
  BY TypePartsPrime
<1> USE TypeParts
<1>1. CASE Handler
  BY <1>1, ReconcileType, CreateOrUpdateDaemonsetType, recordFailureType,
     getDaemonSetStatusType, deleteOrphanDiscoveryResultsType DEF Handler
<1>2. CASE Restart BY <1>2, RestartType
<1>3. CASE \E n \in Nodes : Finder(n) BY <1>3, FinderType
<1>4. CASE Kubernetes
  BY <1>4, SyncStatusType, GarbageCollectType, SyncPodType, FinderType DEF Kubernetes
<1>5. CASE \/ CreateLocalVolumeDiscovery \/ UpdateLocalVolumeDiscovery
           \/ User \/ ChangeDisks \/ NodeLeaves
  BY <1>5, OutsideType
<1>6. CASE UNCHANGED vars
  BY <1>6 DEF vars, ctlVars, envVars, CtlOK, WorldOK, TroubleOK
<1>7. QED BY <1>1, <1>2, <1>3, <1>4, <1>5, <1>6 DEF Next

\* Every variable of the controller, the finders and the cluster keeps its type,
\* whatever the nodes, the disks and the bounds.
THEOREM DiscoveryTypeCorrect == Spec => []DiscoveryTypeOK
<1>1. Init => DiscoveryTypeOK BY InitType
<1>2. DiscoveryTypeOK /\ [Next]_vars => DiscoveryTypeOK' BY NextType
<1>3. QED BY <1>1, <1>2, PTL DEF Spec

----------------------------------------------------------------------------
(* What a finder remembers is published.                                   *)

\* The strengthening: a finder that has not been through its first round remembers
\* nothing, so that its first round publishes whatever it finds.
Blank ==
    \A n \in Nodes :
        pod[n].st \in {"none", "ensureDiscoveryResultCR", "discoverDevices"} => pod[n].disks = {}

Published == RememberedIsPublished /\ Blank

\* Steps that leave the finders alone and change results only by deleting them.
LEMMA DeletionHarmless ==
    ASSUME Published, UNCHANGED pod,
           \A n \in Nodes : result'[n] = result[n] \/ ~result'[n].exists
    PROVE Published'
  BY DEF Published, RememberedIsPublished, Blank

\* Steps that replace a finder by one that remembers nothing.
LEMMA ReplacementHarmless ==
    ASSUME Published, UNCHANGED result, WorldOK, NEW m \in Nodes, NEW p \in Finders,
           p.st # "watching", p.disks = {}, pod' = [pod EXCEPT ![m] = p]
    PROVE Published'
  BY DEF Published, RememberedIsPublished, Blank, WorldOK

LEMMA HandlerPublished == ASSUME WorldOK, Published, Handler PROVE Published'
<1>1. UNCHANGED pod
  BY DEF Handler, Reconcile, CreateOrUpdateDaemonset, recordFailure, getDaemonSetStatus,
         deleteOrphanDiscoveryResults
<1>2. \A n \in Nodes : result'[n] = result[n] \/ ~result'[n].exists
  <2>1. UNCHANGED result \/ \E m \in pass.todo : result' = [result EXCEPT ![m] = NoResult]
    BY DEF Handler, Reconcile, CreateOrUpdateDaemonset, recordFailure, getDaemonSetStatus,
           deleteOrphanDiscoveryResults
  <2>2. QED BY <2>1 DEF NoResult, WorldOK
<1>3. QED BY <1>1, <1>2, DeletionHarmless

LEMMA FinderPublished ==
    ASSUME WorldOK, Published, "lost" \notin Troubles, NEW m \in Nodes, Finder(m)
    PROVE Published'
<1>1. CASE ensureDiscoveryResultCR(m)
  <2>1. /\ \A n \in Nodes \ {m} : pod'[n] = pod[n] /\ result'[n] = result[n]
        /\ pod'[m].st # "watching" /\ pod'[m].disks = pod[m].disks
    BY <1>1 DEF ensureDiscoveryResultCR, WorldOK, Finders
  <2>2. pod[m].disks = {} BY <1>1 DEF ensureDiscoveryResultCR, Published, Blank
  <2>3. QED BY <2>1, <2>2 DEF Published, RememberedIsPublished, Blank
<1>2. CASE discoverDevices(m)
  <2>1. \A n \in Nodes \ {m} : pod'[n] = pod[n] /\ result'[n] = result[n]
    BY <1>2 DEF discoverDevices, WorldOK
  <2>2. pod'[m].st \in {"watching", "exited"}
    BY <1>2 DEF discoverDevices, WorldOK, Finders
  <2>3. ASSUME pod'[m].st = "watching", result'[m].exists, pod'[m].disks # {}
        PROVE result'[m].disks = pod'[m].disks
    <3>1. pod'[m].disks = disks[m]
      BY <1>2, <2>3 DEF discoverDevices, WorldOK, Finders
    <3>2. CASE disks[m] = pod[m].disks
      <4>1. pod[m].st = "watching"
        BY <1>2, <2>3, <3>1, <3>2 DEF discoverDevices, Published, Blank
      <4>2. result'[m] = result[m]
        BY <1>2, <3>2, <2>3 DEF discoverDevices, WorldOK
      <4>3. QED BY <2>3, <3>1, <3>2, <4>1, <4>2 DEF Published, RememberedIsPublished
    <3>3. CASE disks[m] # pod[m].disks
      BY <1>2, <2>3, <3>1, <3>3 DEF discoverDevices, WorldOK, Finders, Results, Trouble
    <3>4. QED BY <3>2, <3>3
  <2>4. QED BY <2>1, <2>2, <2>3 DEF Published, RememberedIsPublished, Blank
<1>3. QED BY <1>1, <1>2 DEF Finder

LEMMA KubernetesPublished == ASSUME WorldOK, Published, Kubernetes PROVE Published'
<1>1. CASE SyncStatus
  BY <1>1, DeletionHarmless DEF SyncStatus
<1>2. CASE GarbageCollect
  <2>1. UNCHANGED pod BY <1>2 DEF GarbageCollect
  <2>2. \A n \in Nodes : result'[n] = result[n] \/ ~result'[n].exists
    BY <1>2 DEF GarbageCollect, NoResult, WorldOK
  <2>3. QED BY <2>1, <2>2, DeletionHarmless
<1>3. ASSUME NEW n \in Nodes, SyncPod(n) PROVE Published'
  <2>1. NoPod \in Finders /\ NoPod.st # "watching" /\ NoPod.disks = {}
    BY BlankType DEF NoPod
  <2> DEFINE new == [st |-> "ensureDiscoveryResultCR", own |-> ds.own, sel |-> ds.sel,
                     disks |-> {}]
  <2>2. new \in Finders /\ new.st # "watching" /\ new.disks = {}
    BY DEF WorldOK, DaemonSets, Finders, Steps
  <2>3. pod' = [pod EXCEPT ![n] = NoPod] \/ pod' = [pod EXCEPT ![n] = new]
    BY <1>3 DEF SyncPod
  <2>4. UNCHANGED result BY <1>3 DEF SyncPod
  <2> HIDE DEF new
  <2>5. QED BY <2>1, <2>2, <2>3, <2>4, ReplacementHarmless
<1>4. ASSUME NEW n \in Nodes, Kubelet(n) PROVE Published'
  <2> DEFINE new == [pod[n] EXCEPT !.st = "ensureDiscoveryResultCR", !.disks = {}]
  <2>1. new \in Finders /\ new.st # "watching" /\ new.disks = {}
    <3>1. pod[n] \in Finders BY DEF WorldOK
    <3>2. QED BY <3>1 DEF Finders, Steps
  <2>2. pod' = [pod EXCEPT ![n] = new] BY <1>4 DEF Kubelet, WorldOK, Finders
  <2>3. UNCHANGED result BY <1>4 DEF Kubelet
  <2> HIDE DEF new
  <2>4. QED BY <2>1, <2>2, <2>3, ReplacementHarmless
<1>5. QED BY <1>1, <1>2, <1>3, <1>4 DEF Kubernetes

LEMMA OutsidePublished ==
    ASSUME WorldOK, Published,
           \/ Restart \/ CreateLocalVolumeDiscovery \/ UpdateLocalVolumeDiscovery
           \/ User \/ ChangeDisks \/ NodeLeaves
    PROVE Published'
<1>1. UNCHANGED result
  BY DEF Restart, CreateLocalVolumeDiscovery, UpdateLocalVolumeDiscovery, User, Edit,
         ChangeDisks, NodeLeaves
<1>2. CASE NodeLeaves
  <2>1. NoPod \in Finders /\ NoPod.st # "watching" /\ NoPod.disks = {}
    BY BlankType DEF NoPod
  <2>2. QED BY <1>1, <1>2, <2>1, ReplacementHarmless DEF NodeLeaves, WorldOK
<1>3. CASE ~NodeLeaves
  <2>1. UNCHANGED pod
    BY <1>3 DEF Restart, CreateLocalVolumeDiscovery, UpdateLocalVolumeDiscovery, User, Edit,
                ChangeDisks
  <2>2. QED BY <1>1, <2>1, DeletionHarmless
<1>4. QED BY <1>2, <1>3

\* When no publication of a finder's loop fails, a finder has published what it
\* remembers, whatever else fails, restarts, is edited or deleted.
THEOREM NothingUnpublished ==
    ASSUME "lost" \notin Troubles PROVE Spec => []RememberedIsPublished
<1>1. Init => Published
  BY DEF Init, Published, RememberedIsPublished, Blank, NoPod
<1>2. DiscoveryTypeOK /\ Published /\ [Next]_vars => Published'
  <2> SUFFICES ASSUME DiscoveryTypeOK, Published, [Next]_vars PROVE Published' OBVIOUS
  <2>1. WorldOK BY TypeParts
  <2>2. CASE UNCHANGED vars
    BY <2>2 DEF vars, ctlVars, Published, RememberedIsPublished, Blank
  <2>3. CASE Next
    BY <2>1, <2>3, HandlerPublished, FinderPublished, KubernetesPublished, OutsidePublished
       DEF Next
  <2>4. QED BY <2>2, <2>3
<1>3. Published => RememberedIsPublished BY DEF Published
<1>4. QED BY <1>1, <1>2, <1>3, DiscoveryTypeCorrect, PTL DEF Spec
=============================================================================
