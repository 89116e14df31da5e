------------------------------ MODULE Discovery ------------------------------
(***************************************************************************)
(* How disks become known: the LocalVolumeDiscovery controller             *)
(* (internal/controller/localvolumediscovery), the device finder it runs   *)
(* on every selected node (internal/devicefinder/discovery), and the       *)
(* LocalVolumeDiscoveryResult that each finder publishes and claims and    *)
(* console read.                                                           *)
(*                                                                         *)
(* A finder remembers the disks it has last seen and publishes them when   *)
(* they change.  The controller maintains the DaemonSet, copies its counts *)
(* into the status and deletes the results of nodes that are no longer     *)
(* selected.  The results are owned by the LocalVolumeDiscovery: deleting  *)
(* it takes them away from under the finders.                              *)
(***************************************************************************)
EXTENDS Integers, FiniteSets

CONSTANTS
    Nodes,
    Disks,
    DiskLists,   \* the usable disks a node may have,
    FirstLists,  \* and those it may have at first
    Selectors,   \* the node selectors users choose from
    MaxLVDs,     \* LocalVolumeDiscoveries ever created
    Troubles,    \* what users and machines do: "disks", "select", "delete", "node";
                 \* and what fails: "crash", "restart", "refused", "lost"
    MaxTroubles  \* how often, in all

ASSUME DiscoveryAssumption ==
    /\ IsFiniteSet(Nodes) /\ Nodes # {}
    /\ FirstLists \subseteq DiskLists /\ DiskLists \subseteq SUBSET Disks
    /\ Selectors \subseteq SUBSET Nodes
    /\ {MaxLVDs, MaxTroubles} \subseteq Nat

VARIABLES
    lvd,      \* the LocalVolumeDiscovery
    queued,   \* the controller has a request for it, now or after a delay
    pass,     \* the pass of the controller
    ds,       \* the DaemonSet and its reported status
    pod,      \* the finder of each node
    result,   \* the published result of each node
    disks,    \* the usable disks of each node
    members,  \* the nodes of the cluster
    troubles

ctlVars == <<lvd, queued, pass>>
envVars == <<disks, members>>
vars == <<ctlVars, ds, pod, result, envVars, troubles>>

Kinds == {"none", "failed", "noDaemons", "progressing", "available"}
Counts == 0..Cardinality(Nodes)
Messages == [kind: Kinds, desired: Counts, ready: Counts]
Message(k, d, r) == [kind |-> k, desired |-> d, ready |-> r]

\* A nodeSelector; {} is none.
LVDs == [exists: BOOLEAN, uid: 0..MaxLVDs, sel: SUBSET Nodes, cond: Messages]
Selected(sel) == IF sel = {} THEN Nodes ELSE sel

Passes == [pc: {"idle", "CreateOrUpdateDaemonset", "recordFailure", "getDaemonSetStatus",
                "deleteOrphanDiscoveryResults"},
           copy: LVDs,         \* the instance the pass works on,
           fresh: BOOLEAN,     \* not written by others since,
           todo: SUBSET Nodes] \* and the results it has still to look at

DaemonSets == [exists: BOOLEAN, own: 0..MaxLVDs, sel: SUBSET Nodes,
               desired: Counts, ready: Counts, stray: Counts]
NoDS == [exists |-> FALSE, own |-> 0, sel |-> {}, desired |-> 0, ready |-> 0, stray |-> 0]

Steps == {"none", "exited", "ensureDiscoveryResultCR", "discoverDevices", "watching"}
\* The environment of a pod names the owner; its template also the selector.
Finders == [st: Steps, own: 0..MaxLVDs, sel: SUBSET Nodes, disks: SUBSET Disks]
NoPod == [st |-> "none", own |-> 0, sel |-> {}, disks |-> {}]

Results == [exists: BOOLEAN, own: 0..MaxLVDs, disks: SUBSET Disks]
NoResult == [exists |-> FALSE, own |-> 0, disks |-> {}]

Trouble(k) == k \in Troubles /\ troubles < MaxTroubles /\ troubles' = troubles + 1

----------------------------------------------------------------------------
(* The controller.                                                         *)

NoLVD(uid) == [exists |-> FALSE, uid |-> uid, sel |-> {}, cond |-> Message("none", 0, 0)]
Idle == [pc |-> "idle", copy |-> NoLVD(0), fresh |-> FALSE, todo |-> {}]

\* A pass that ends with an error is tried again.
Retry == pass' = Idle /\ queued' = TRUE /\ UNCHANGED lvd

Reconcile ==
    /\ pass.pc = "idle" /\ queued
    /\ queued' = FALSE
    /\ pass' = IF lvd.exists
               THEN [pass EXCEPT !.pc = "CreateOrUpdateDaemonset", !.copy = lvd, !.fresh = TRUE]
               ELSE pass
    /\ UNCHANGED <<lvd, ds, pod, result, envVars, troubles>>

CreateOrUpdateDaemonset ==
    /\ pass.pc = "CreateOrUpdateDaemonset"
    /\ \/ /\ ds' = IF ds.exists
                   THEN [ds EXCEPT !.own = pass.copy.uid, !.sel = pass.copy.sel]
                   ELSE [NoDS EXCEPT !.exists = TRUE, !.own = pass.copy.uid, !.sel = pass.copy.sel]
          /\ queued' = (queued \/ ds' # ds)
          /\ pass' = [pass EXCEPT !.pc = "getDaemonSetStatus"]
          /\ UNCHANGED troubles
       \/ /\ Trouble("refused")
          /\ pass' = [pass EXCEPT !.pc = "recordFailure"]
          /\ UNCHANGED <<ds, queued>>
    /\ UNCHANGED <<lvd, pod, result, envVars>>

\* Mistake: the status is written only once.
updateDiscoveryStatus_Once(msg, wait) ==
    LET write == pass.copy.cond.kind = "none"
    IN  /\ lvd' = IF write THEN [lvd EXCEPT !.cond = msg] ELSE lvd
        /\ queued' = (queued \/ write \/ wait)

\* The status, unless it says so already; an update of an old copy is refused, which
\* the callers check.  The write is an event, and waitForRequeueIfDaemonsNotReady
\* another reason to come back.
updateDiscoveryStatus(msg, wait) ==
    LET write == pass.copy.cond # msg
    IN  /\ lvd' = IF write THEN [lvd EXCEPT !.cond = msg] ELSE lvd
        /\ queued' = (queued \/ write \/ wait)

Refused(msg) == pass.copy.cond # msg /\ ~(pass.fresh /\ lvd.exists)

\* Mistake: a phase the API does not know.
recordFailure_Unknown ==
    /\ pass.pc = "recordFailure" /\ ~Refused(Message("failed", 0, 0))
    /\ updateDiscoveryStatus(Message("unknown", 0, 0), FALSE)
    /\ pass' = [pass EXCEPT !.pc = "getDaemonSetStatus"]
    /\ UNCHANGED <<ds, pod, result, envVars, troubles>>

\* A DaemonSet that cannot be written: a degraded status, and the pass goes on.
recordFailure ==
    /\ pass.pc = "recordFailure"
    /\ LET msg == Message("failed", 0, 0)
       IN  \/ Refused(msg) /\ Retry
           \/ /\ ~Refused(msg) /\ updateDiscoveryStatus(msg, FALSE)
              /\ pass' = [pass EXCEPT !.pc = "getDaemonSetStatus", !.copy.cond = msg]
    /\ UNCHANGED <<ds, pod, result, envVars, troubles>>

\* getDaemonSetStatus and what Reconcile makes of the counts.
getDaemonSetStatus ==
    /\ pass.pc = "getDaemonSetStatus"
    /\ LET kind == IF ds.desired = 0 THEN "noDaemons"
                   ELSE IF ds.desired # ds.ready THEN "progressing" ELSE "available"
           msg == Message(kind, ds.desired, ds.ready)
           found == {n \in Nodes : result[n].exists}
       IN  \/ (~ds.exists \/ Refused(msg)) /\ Retry /\ UNCHANGED troubles
           \/ Trouble("refused") /\ Retry
           \/ /\ ds.exists /\ ~Refused(msg) /\ updateDiscoveryStatus(msg, kind # "available")
              /\ UNCHANGED troubles
              /\ pass' = IF kind = "available" /\ pass.copy.sel # {} /\ found # {}
                         THEN [pass EXCEPT !.pc = "deleteOrphanDiscoveryResults", !.todo = found]
                         ELSE Idle
    /\ UNCHANGED <<ds, pod, result, envVars>>

\* Mistake: the first result of a selected node ends the cleanup.
deleteOrphanDiscoveryResults_First ==
    /\ pass.pc = "deleteOrphanDiscoveryResults"
    /\ \E n \in pass.todo :
         \/ /\ n \in members /\ n \in pass.copy.sel
            /\ pass' = Idle /\ UNCHANGED <<result, lvd, queued>>
         \/ /\ n \in members /\ n \notin pass.copy.sel /\ result[n].exists
            /\ result' = [result EXCEPT ![n] = NoResult]
            /\ pass' = Idle /\ UNCHANGED <<lvd, queued>>
    /\ UNCHANGED <<ds, pod, envVars, troubles>>

\* One turn of the loop over the results.  A node or a result that is gone, and any
\* other failure, ends it.
deleteOrphanDiscoveryResults ==
    /\ pass.pc = "deleteOrphanDiscoveryResults"
    /\ \/ \E n \in pass.todo :
            LET next == pass' = IF pass.todo = {n} THEN Idle ELSE [pass EXCEPT !.todo = @ \ {n}]
                gone == n \notin pass.copy.sel /\ ~result[n].exists
            IN  \/ n \in members /\ n \in pass.copy.sel /\ next /\ UNCHANGED <<result, lvd, queued>>
                \/ /\ n \in members /\ n \notin pass.copy.sel /\ result[n].exists
                   /\ result' = [result EXCEPT ![n] = NoResult]
                   /\ next /\ UNCHANGED <<lvd, queued>>
                \/ (n \notin members \/ gone) /\ Retry /\ UNCHANGED result
          /\ UNCHANGED troubles
       \/ Trouble("refused") /\ Retry /\ UNCHANGED result
    /\ UNCHANGED <<ds, pod, envVars>>

Handler ==
    \/ Reconcile \/ CreateOrUpdateDaemonset \/ recordFailure \/ getDaemonSetStatus
    \/ deleteOrphanDiscoveryResults

\* The operator restarts and lists what there is.
Restart ==
    /\ Trouble("restart")
    /\ pass' = Idle /\ queued' = TRUE
    /\ UNCHANGED <<lvd, ds, pod, result, envVars>>

----------------------------------------------------------------------------
(* The device finder of a node.                                            *)

\* NewDeviceDiscovery looks the LocalVolumeDiscovery up, and the process exits when it
\* cannot; then a result that exists is kept, whoever owns it, or one is created.
ensureDiscoveryResultCR(n) ==
    /\ pod[n].st = "ensureDiscoveryResultCR"
    /\ \/ /\ lvd.exists /\ UNCHANGED troubles
          /\ result' = [result EXCEPT ![n] =
                           IF @.exists THEN @
                           ELSE [exists |-> TRUE, own |-> pod[n].own, disks |-> {}]]
          /\ pod' = [pod EXCEPT ![n].st = "discoverDevices"]
       \/ /\ ~lvd.exists /\ UNCHANGED <<result, troubles>>
          /\ pod' = [pod EXCEPT ![n].st = "exited"]
       \/ /\ Trouble("refused") /\ UNCHANGED result
          /\ pod' = [pod EXCEPT ![n].st = "exited"]
    /\ UNCHANGED <<ctlVars, ds, envVars>>

\* Mistake: the list is published when it has grown.
discoverDevices_Grown(n) ==
    /\ pod[n].st \in {"discoverDevices", "watching"}
    /\ pod' = [pod EXCEPT ![n].st = "watching", ![n].disks = disks[n]]
    /\ result' = [result EXCEPT ![n] =
                     IF @.exists /\ Cardinality(disks[n]) > Cardinality(pod[n].disks)
                     THEN [@ EXCEPT !.disks = disks[n]] ELSE @]
    /\ UNCHANGED <<ctlVars, ds, envVars, troubles>>

\* Mistake: a failed first publication does not end the process.
discoverDevices_GoesOn(n) ==
    /\ pod[n].st \in {"discoverDevices", "watching"}
    /\ pod' = [pod EXCEPT ![n].st = "watching", ![n].disks = disks[n]]
    /\ \/ /\ result' = [result EXCEPT ![n] =
                           IF @.exists THEN [@ EXCEPT !.disks = disks[n]] ELSE @]
          /\ UNCHANGED troubles
       \/ /\ pod[n].st = "discoverDevices" /\ Trouble("refused") /\ UNCHANGED result
    /\ UNCHANGED <<ctlVars, ds, envVars>>

\* discoverDevices and updateStatus: a changed list is remembered and then published.
\* The first time a failure ends the process; later it is logged.  A result that is
\* gone is no failure, unless it goes between the read and the update.
discoverDevices(n) ==
    /\ pod[n].st \in {"discoverDevices", "watching"}
    /\ LET first == pod[n].st = "discoverDevices"
           changed == disks[n] # pod[n].disks
           seen(st) == pod' = [pod EXCEPT ![n].st = st, ![n].disks = disks[n]]
           error == IF first THEN "exited" ELSE "watching"
       IN  \/ ~changed /\ seen("watching") /\ UNCHANGED <<result, troubles>>
           \/ /\ changed /\ result[n].exists /\ seen("watching")
              /\ result' = [result EXCEPT ![n].disks = disks[n]] /\ UNCHANGED troubles
           \/ /\ changed /\ ~result[n].exists
              /\ seen("watching") \/ seen(error)
              /\ UNCHANGED <<result, troubles>>
           \/ /\ first /\ Trouble("refused")
              /\ pod' = [pod EXCEPT ![n].st = "exited"] /\ UNCHANGED result
           \/ /\ ~first /\ changed /\ Trouble("lost")
              /\ seen("watching") /\ UNCHANGED result
    /\ UNCHANGED <<ctlVars, ds, envVars>>

Finder(n) == ensureDiscoveryResultCR(n) \/ discoverDevices(n)

\* The kubelet starts a process that has exited again; nothing is remembered.
Kubelet(n) ==
    /\ \/ pod[n].st = "exited" /\ UNCHANGED troubles
       \/ pod[n].st \notin {"none", "exited", "ensureDiscoveryResultCR"} /\ Trouble("crash")
    /\ pod' = [pod EXCEPT ![n].st = "ensureDiscoveryResultCR", ![n].disks = {}]
    /\ UNCHANGED <<ctlVars, ds, result, envVars>>

----------------------------------------------------------------------------
(* Kubernetes.                                                             *)

Wanted(n) == ds.exists /\ n \in members /\ n \in Selected(ds.sel)

\* The DaemonSet controller deletes pods that are not wanted or whose template is old,
\* starts those that are missing,
SyncPod(n) ==
    /\ \/ /\ pod[n].st # "none"
          /\ ~Wanted(n) \/ <<pod[n].own, pod[n].sel>> # <<ds.own, ds.sel>>
          /\ pod' = [pod EXCEPT ![n] = NoPod]
       \/ /\ pod[n].st = "none" /\ Wanted(n)
          /\ pod' = [pod EXCEPT ![n] = [st |-> "ensureDiscoveryResultCR", own |-> ds.own,
                                        sel |-> ds.sel, disks |-> {}]]
    /\ UNCHANGED <<ctlVars, ds, result, envVars, troubles>>

\* and reports later; the report is an event.
SyncStatus ==
    /\ ds.exists
    /\ LET up == {n \in Nodes : pod[n].st \notin {"none", "exited"}}
           now == [ds EXCEPT !.desired = Cardinality({n \in Nodes : Wanted(n)}),
                             !.ready = Cardinality({n \in up : Wanted(n)}),
                             !.stray = Cardinality({n \in Nodes : pod[n].st # "none" /\ ~Wanted(n)})]
       IN  ds # now /\ ds' = now
    /\ queued' = TRUE
    /\ UNCHANGED <<lvd, pass, pod, result, envVars, troubles>>

Orphan(own) == ~lvd.exists \/ own # lvd.uid

\* The DaemonSet's end is an event, that of a result is not.
GarbageCollect ==
    /\ \/ /\ ds.exists /\ Orphan(ds.own) /\ ds' = NoDS
          /\ queued' = TRUE /\ UNCHANGED result
       \/ \E n \in Nodes : /\ result[n].exists /\ Orphan(result[n].own)
                           /\ result' = [result EXCEPT ![n] = NoResult]
                           /\ UNCHANGED <<ds, queued>>
    /\ UNCHANGED <<lvd, pass, pod, envVars, troubles>>

----------------------------------------------------------------------------
(* The FusionAccess controller, users and machines.                        *)

Edit(new) ==
    /\ lvd' = new /\ queued' = TRUE /\ pass' = [pass EXCEPT !.fresh = FALSE]
    /\ UNCHANGED <<ds, pod, result>>

\* A missing LocalVolumeDiscovery is created, without a selector;
CreateLocalVolumeDiscovery ==
    /\ ~lvd.exists /\ lvd.uid < MaxLVDs
    /\ Edit([NoLVD(lvd.uid + 1) EXCEPT !.exists = TRUE])
    /\ UNCHANGED <<envVars, troubles>>

\* one that exists gets back the specification without one.
UpdateLocalVolumeDiscovery ==
    /\ lvd.exists /\ lvd.sel # {}
    /\ Edit([lvd EXCEPT !.sel = {}])
    /\ UNCHANGED <<envVars, troubles>>

User ==
    /\ \/ /\ Trouble("select") /\ lvd.exists
          /\ \E s \in Selectors : s # lvd.sel /\ Edit([lvd EXCEPT !.sel = s])
       \/ /\ Trouble("delete") /\ lvd.exists
          /\ Edit(NoLVD(lvd.uid))
    /\ UNCHANGED envVars

ChangeDisks ==
    /\ Trouble("disks")
    /\ \E n \in Nodes, d \in DiskLists : d # disks[n] /\ disks' = [disks EXCEPT ![n] = d]
    /\ UNCHANGED <<ctlVars, ds, pod, result, members>>

NodeLeaves ==
    /\ Trouble("node")
    /\ \E n \in members : members' = members \ {n} /\ pod' = [pod EXCEPT ![n] = NoPod]
    /\ UNCHANGED <<ctlVars, ds, result, disks>>

----------------------------------------------------------------------------

Init ==
    /\ lvd = NoLVD(0) /\ queued = FALSE /\ pass = Idle
    /\ ds = NoDS /\ pod = [n \in Nodes |-> NoPod] /\ result = [n \in Nodes |-> NoResult]
    /\ disks \in [Nodes -> FirstLists] /\ members = Nodes
    /\ troubles = 0

Kubernetes == SyncStatus \/ GarbageCollect \/ \E n \in Nodes : SyncPod(n) \/ Kubelet(n)

Next ==
    \/ Handler \/ Restart
    \/ \E n \in Nodes : Finder(n)
    \/ Kubernetes
    \/ CreateLocalVolumeDiscovery \/ UpdateLocalVolumeDiscovery
    \/ User \/ ChangeDisks \/ NodeLeaves

Spec == Init /\ [][Next]_vars

\* Controllers, kubelets and finders keep going; a finder looks at its disks every
\* probeInterval whatever udev reports.
FairSpec ==
    /\ Spec
    /\ WF_vars(Handler)
    /\ WF_vars(SyncStatus) /\ WF_vars(GarbageCollect) /\ WF_vars(CreateLocalVolumeDiscovery)
    /\ \A n \in Nodes : WF_vars(Finder(n)) /\ WF_vars(SyncPod(n)) /\ WF_vars(Kubelet(n))

----------------------------------------------------------------------------
(* Properties.                                                             *)

\* Every variable keeps its type, and a pass that looks at results has some left.
DiscoveryTypeOK ==
    /\ lvd \in LVDs /\ queued \in BOOLEAN /\ pass \in Passes
    /\ ds \in DaemonSets /\ pod \in [Nodes -> Finders] /\ result \in [Nodes -> Results]
    /\ disks \in [Nodes -> SUBSET Disks] /\ members \subseteq Nodes
    /\ troubles \in 0..MaxTroubles
    /\ pass.pc = "deleteOrphanDiscoveryResults" => pass.todo # {}

\* What a finder remembers is what its result shows, as long as there is a result:
\* pods, owners and results come and go, but no finder sits on disks it has not
\* published, which it would never notice.
RememberedIsPublished ==
    \A n \in Nodes :
        pod[n].st = "watching" /\ result[n].exists /\ pod[n].disks # {} =>
            result[n].disks = pod[n].disks

\* In the end every result that is there shows the disks of its node, if it has any.
ResultsCatchUp ==
    <>[](\A n \in members \cap Selected(lvd.sel) :
            result[n].exists /\ disks[n] # {} => result[n].disks = disks[n])

\* In the end the status counts the finders that run.
StatusCatchesUp ==
    <>[](lvd.exists =>
            LET want == members \cap Selected(lvd.sel) IN
            IF want = {} THEN lvd.cond.kind = "noDaemons"
            ELSE lvd.cond = Message("available", Cardinality(want), Cardinality(want)))

\* In the end no result of a node that is not selected is left, unless no finder can
\* run or the node of some result is gone: either stops the cleanup.
OrphansGo ==
    <>[](/\ lvd.exists /\ lvd.sel # {} /\ lvd.sel \cap members # {}
         /\ \A n \in Nodes : result[n].exists => n \in members
         => \A n \in Nodes : result[n].exists => n \in lvd.sel)
=============================================================================
