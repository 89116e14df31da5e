# Fusion Access operator: TLA+ models

The operator provisions IBM Storage Scale filesystems on OpenShift; a console plugin is its
user interface. This directory holds TLA+ models of their control logic, TLC configurations
that check them on small instances, and proofs checked by TLAPS. `PROJECT.json` lists
components, runs, the source lines each definition stands for, hazards, findings and theorems.

To check a run: `tlc -config claim_faults.cfg MCFileSystemClaim`; the module is
`MCFileSystemClaim` for `claim_*`, `MCFusionAccess` for `fusion_*`, `MCMigration`, `MCDiscovery`
and `MCConsole` for `migration`, `discovery`, and `console` and `viol_stale_devices`. To check
the proofs: `tlapm FileSystemClaimProofs.tla`, and likewise the other modules named `*Proofs`.

## Inventory

| Component | State it keeps | Operations | Hard parts |
|---|---|---|---|
| FileSystemClaim controller (`internal/controller/filesystemclaim`) | conditions and finalizer of the claim; LocalDisks, Filesystem, StorageClass | one pass (`Reconcile`): finalizer, deletion in order SC, FS, LD, provisioning in order LD, FS, SC, Ready | stale cache, failure between two writes, asynchronous deletion, wake-up only by events |
| FileSystemClaim webhook (`api/v1alpha1`) | none | admits creation, edits of `spec.devices`, deletion | decides on a stored condition that may lag behind the objects |
| v1.0 migration (`filesystemclaim/migration.go`) | ownership and labels of pre-existing LocalDisks, Filesystem, StorageClass; new claims | group by filesystem, validate, create a claim with status, adopt | runs beside the controllers, restart between creation, status and adoption |
| FusionAccess controller (`fusionaccess_controller.go`) | status of the singleton, entitlement secrets, kernel module objects, console plugin, LocalVolumeDiscovery, PodDisruptionBudget of an upgrade | one pass, plus build events | the budget must outlive the build, early returns without requeue |
| Device finder (`internal/devicefinder`) | devices of a node, in memory and in a LocalVolumeDiscoveryResult | periodic and udev-driven probe, publication | remembered list against published list, restart |
| LocalVolumeDiscovery controller | DaemonSet, phase, orphaned results | one pass | independent failures of its steps, edits during the pass |
| Kernel module, image registry, console plugin helpers | generated objects | create or update | order within the FusionAccess pass |
| Console (`console/src`) | store, watches, rows and form of the mounted screen | label nodes, create the storage cluster, create claims, show claims | closures over older renders, watches in any order, answers after the screen was left |

How they interact: everything goes through the API server. The FusionAccess controller
creates the LocalVolumeDiscovery, whose controller runs a device finder on every node; the
device finders publish results; the console lets a user label storage nodes, create the
storage cluster and, from the results, choose the devices of a claim; the claim controller
validates claims against the results and creates LocalDisks and a Filesystem, which the Storage
Scale operator realises, and a StorageClass, from which volumes are provisioned. The migration
turns objects of version 1.0 into claims when the operator starts. Controllers wake up on
informer events filtered by predicates, and on RequeueAfter timers; their reads come from
informer caches.

What makes each correct:

* claim controller: a recorded deletion is a fact and stays recorded; no deleted claim is
  provisioned; Ready is backed by the objects; data goes away only when no volume is in use
  and a user confirmed; nothing is left behind; provisioning and deletion finish;
* webhook: the devices behind LocalDisks do not change;
* migration: nothing of the legacy filesystem is lost, whenever it is interrupted, and an
  undisturbed migration leaves a claim that owns everything;
* FusionAccess: the budget exists from before the version changes until the build is over;
* device finder: the published list is the remembered one, and in the end the probed one;
* LocalVolumeDiscovery: its status tells the DaemonSet's state, orphans go away;
* console: what it offers, enables and submits follows from what it knows and the user chose.

## Modules

| Module | Stands for | Built on |
|---|---|---|
| `FileSystemClaim` | claim controller, webhook, their environment | |
| `ClaimContract` | what a claim promises, abstractly | |
| `ClaimTable` | the status the console shows, the refinement mapping | `FileSystemClaim`, two instances of `ClaimContract` |
| `Migration` | the migration, beside the claim controller | `FileSystemClaim` |
| `FusionAccess` | FusionAccess controller, webhook and helpers | |
| `Discovery` | LocalVolumeDiscovery controller and device finders | |
| `ConsoleStore` | what the console's screens share | |
| `NodeSelection`, `ClaimForm` | the two screens that change the cluster | `ConsoleStore` |
| `Console` | the screens together | `NodeSelection`, `ClaimForm` |
| `FileSystemClaimProofs` | theorems: types, no creation while deleting | `FileSystemClaim` |
| `ClaimCleanupProofs` | theorems: what the status says of a cleanup | `ClaimTable`, `FileSystemClaimProofs` |
| `ClaimReadyProofs` | theorems: Ready is backed, no edit is misreported | `ClaimCleanupProofs` |
| `ClaimContractProofs` | theorems: a class kept on record, volumes in use, the contract, all with a lagging cache and failures | `ClaimReadyProofs` |
| `MigrationProofs` | theorems: types, nothing of version 1.0 is lost, no disk leaves the filesystem | `Migration`, `ClaimCleanupProofs` |
| `FusionAccessProofs`, `DiscoveryProofs`, `ConsoleProofs` | theorems | `FusionAccess`, `Discovery`, `Console` |
| `MC*` | instances for TLC | |

Operators named `X_Something` before an operator `X` are mistaken versions of `X`. No
specification uses them: each shows that the properties would notice the mistake.

Every safety property a passing run checks is also stated by a theorem, but for three of
`claim_lifecycle` that hold only with an up-to-date cache and no failures. What a further
iteration would add: a second object for the FusionAccess webhook, and the Storage Scale
side of a LocalDisk, where the path names another disk than on the node that was drawn.

## FileSystemClaim

Source: `internal/controller/filesystemclaim/filesystemclaim_controller.go` and
`api/v1alpha1/filesystemclaim_webhook.go`.

State. `fsc` is the claim stored by the API server, `cache` the informer's copy (`dirty`: a
newer version is under way), `mem` the copy the current pass took at its start. `queued` and
`timer` are the work queue and a pending RequeueAfter. `pc`, `todo`, `node` locate the pass:
the handler, the devices its loop has left, the storage node drawn. `ld`, `fs`, `sc` are the
claim's objects, each with the owner's UID (`own`) and its deletion timestamp (`del`); `pv` is a
volume of the class; `discovery` is what the
LocalVolumeDiscoveryResults say. `faults` and `upsets` count disturbances.

A claim is `[exists, uid, del, fin, hold, devices, cond]`: deletion timestamp, operator's
finalizer, another party's finalizer, devices and conditions. A condition is represented by
its reason, whose status is determined (`TrueReasons`); where the code writes one reason with
different messages, which `updateConditionIfChanged` treats as a change, each message is a
value of its own (`Creating`, `Waiting`, `NotReady`, and `Created`, `Present`).

Actions. Each handler of `Reconcile` up to its next write is one action with the handler's
name; the LocalDisk loop is `createLocalDisk` and `recordLocalDisk`, ended by
`endLocalDisks`. A handler that changes something ends the pass, as in the code
(`EndPass`). `updateConditionIfChanged` compares with `mem`; `patchFSCStatus` computes the new
list from `cache` and replaces the stored one, because the merge patch carries no resource
version; `patchFSCSpec` does the same with the finalizers. `RequeueAfter: 0`, which the code
uses as "requeue", is no requeue for controller-runtime: the passes are woken by the events
their writes cause (`InformerSync`), by `TimerFires` where a delay is given, and by
`Resync`. The watches are `enqueueFSCByOwner` (status updates of owned objects only) and
`enqueueFSCByStorageClass` (updates and deletions of labelled classes).

Environment. `ApiError` fails any call of a pass; creations may fail or be refused inside
their own actions; `Crash` restarts the operator. Users create, edit, delete and recreate the claim, label the
Filesystem, provision and release volumes, tamper with objects. `ScaleLocalDisk`,
`ScaleFilesystem`, `ScaleRemoves` are the Storage Scale operator; `GarbageCollect` deletes
objects whose owner, by UID, is gone.

Abstractions:

* names and counts inside messages are dropped, so a change of such a number alone is no
  status write here; the empty patch the code produces when only the second of a timestamp
  could differ is the second disjunct of `StatusPatch`;
* node labels are constant and there is a storage node, so the error arm of
  `getRandomStorageNode` appears only as `ApiError`;
* a claim has at most one Filesystem, named after it; the arm for several is unreachable;
  a Filesystem of that name owned by nobody is a failed creation;
* LocalDisks and Filesystems are read from the API server (unstructured reads bypass the
  cache); StorageClass and volume reads are taken as fresh;
* `MigrationComplete` is recognised here and written in `Migration`.

### The contract

`ClaimContract` has three variables: the claim (none, live, deleting), whether there is a
filesystem and whether a class hands out its space. A class appears only over a filesystem;
the filesystem never goes while the class is there or the claim is live; the claim ends only
after its class. `ClaimTable` maps the claim's stored object, `fs` and `sc` to them, and
`KeepsContract` says that the controller, the informer, Storage Scale and the garbage
collector together implement it. What makes this more than the code's order of calls is that
each part of the order is decided in another pass, from conditions earlier passes have
written. `ClaimTable` also has the console's `statusTitle`.

`KeepsContract` holds when passes start from an up-to-date cache and no call fails; otherwise
the controller may forget a class it has just created (see the observations). What is left is
stated from the moment everyone knows of the class: the stored claim has it on record and
carries the finalizer, and neither the cache nor the pass's copy remembers it otherwise
(`ClassRecorded`).

* `ClassGoesFirst`: from then on record, finalizer and claim stay until the class is gone.
* `UsedVolumesHold`: when the Filesystem is there too (`Held`), it stays as well while a volume
  is in use.
* `KeepsKnownContract`: the same contract (`KnownContract`), in which a class counts as served
  while it is `Held`.

### Runs

These runs use `MCFileSystemClaim` with two paths and two disks.

| Run | Instance | Checks |
|---|---|---|
| `claim_lifecycle` | both devices, two of {volume, unhealthy spell}, passes start from an up-to-date cache, no faults | `NeverMisreportsEdit`, `NoOrphanStorageClass`, `VolumesSafe`, `KeepsContract` |
| `claim_faults` | one or two devices, an edit or a volume, two faults (crash, failed call, failed creation), lagging cache | `TypeOK`, `DeletedMeansGone`, `ReadyBacked`, `BlockShown`, `CleanupNeverUndone`, `ClassGoesFirst`, `UsedVolumesHold`, `KeepsKnownContract` |
| `claim_disturbed` | two nodes, varying discoveries, an unowned LocalDisk, any device list, one disturbance of any kind | `NoCreateWhileDeleting` |
| `claim_recreated` | two claims under one name, one fault, lagging cache | `DeletesOnlyForDeletedClaim` |
| `claim_live` | one device, one fault, one unhealthy spell, lagging cache, `FairSpec` | `ClaimBecomesReady`, `DeletionCompletes`, `StaleReadyCorrected` |
| `claim_resync` | second finalizer or not, one of {volume, drift, withdrawn label}, `ResyncSpec` | `DeletionCompletes` |

Bounds. Two devices are the least with a middle of the LocalDisk loop; one fault may strike
at any of its points, and two allow a fault during the recovery from the first. One claim is
enough for everything but recreation, which needs two. Counters (`MaxFaults`, `MaxUpsets`,
`MaxClaims`) bound only the environment; the controller itself is not bounded. Deadlock
checking is off because a removed claim ends the story.

Fairness. The single worker takes what is queued and finishes its passes (`WF(Handler)`),
the informer delivers, timers fire, the Storage Scale operator brings new objects to health
and removes deleted ones, the garbage collector collects. An object that fell ill may stay
so: `ClaimBecomesReady` and `StaleReadyCorrected` hold without its recovery being assumed.
Deletion also needs the user: someone labels the Filesystem, volumes are released, the second
finalizer is dropped (`DeletionConfirmed`). Nothing is assumed about faults or about the
resync, which is hours apart; only `ResyncSpec` relies on it.

### Observations

Where the properties above need their premises; each can be reproduced by the change of a
configuration that is named.

* `patchFSCStatus` "safely patches status with retry-on-conflict" (line 878), but a merge patch
  computed from an old cached claim raises no conflict and wipes `StorageClassCreated`; the
  deletion that follows skips the volume check and leaves the StorageClass behind:
  `NoOrphanStorageClass` fails in `claim_lifecycle` with `PromptInformer = FALSE`. A restart
  between creating the class and recording it leaves it behind in the same way when the claim
  is deleted at that moment. With the class forgotten, `KeepsContract` and `VolumesSafe` fail
  as well; `ClassGoesFirst`, `UsedVolumesHold` and `KeepsKnownContract` say what remains.
* A fault between two LocalDisk creations is never repaired: the next pass sees creation in
  progress and waits, and once the first disk is ready the claim says that `spec.devices was
  modified` (line 336): `NeverMisreportsEdit` fails in `claim_lifecycle` with one fault.
* The deletion label is asked for only when FileSystemCreated is True (line 1604); a Filesystem
  that is new or unhealthy is taken for deleted and falls to the garbage collector unlabelled.
  The contract allows this, because the claim's user did ask for the deletion.
* A deleted claim without the operator's finalizer that another finalizer keeps alive is
  provisioned: with `Holds = {TRUE}`, `NoCreateWhileDeleting` fails.
* A creation that fails twice within a second writes nothing the second time, so neither an
  event nor a requeue follows (RequeueAfter 0): with `FaultKinds = {"create"}` and
  `MaxFaults = 2`, `ClaimBecomesReady` fails.
* Ownership is by name: a claim recreated while its predecessor's objects are going away counts
  them as its own, becomes Ready, and stays Ready when they are gone (`ReadyBacked` with two
  claims).
* The webhook admits an edit of the devices whenever LocalDiskCreated is not True, so also
  while a created LocalDisk is unhealthy, although its message says devices "cannot be
  modified after LocalDisks are successfully created".
* Deleting a StorageClass whose labels were stripped is no event for its claim and the pass
  asks for no retry: without the resync the deletion stops there. This is why `drift` is a
  disturbance of `claim_resync` and not of `claim_live`.
* `validateDevices` compares paths, so it accepts a path that names different disks on
  different nodes, although its comment says the device is shared.
* A creation that fails in a pass whose cache lags replaces LocalDiskCreated of a claim that has
  its Filesystem by Failed, and the next pass creates LocalDisks again, on another node. When
  two nodes report different disks for the paths, the loop can be cut off by failures often
  enough that a list edited meanwhile, which the webhook then admits, is the list of a claim
  that says Ready: with `DeviceLists <- EitherList`, two nodes that report two of three disks
  the other way round, a lagging cache, `Upsets = {"edit"}`, every kind of fault and
  `MaxFaults = 12`, `ReadyBacked` fails. The counterexample has about a hundred steps and eight
  failures; `claim_faults` stays within two, where the property holds.
* A confirmation withdrawn while the cache lags can take back a recorded deletion
  (`CleanupNeverUndone`), so `unlabel` belongs to `claim_resync` alone.

## Migration

Source: `internal/controller/filesystemclaim/migration.go`, started by `cmd/main.go`.

The state is that of `FileSystemClaim`, beginning with the objects of one filesystem of version
1.0 and no claim (`LegacyInit`), plus `mig`, the migration's next step and what it has read, and
`touched`, the objects others have written since: an `Update` of such an object is refused, as
its resource version is old. `marked` says whether the StorageClass carries the migration's
label, by which `adoptStorageClass` alone decides: it writes any class without it. The
controller, which wants exactly its own labels, then takes the class for drifted and replaces
them all (`reconcileExistingStorageClass`), after which a restarted migration writes it again. The actions are the writes of `RunMigration` in their order:
`createOrGetFilesystemClaim`, `updateStatus` (whose failure the code ignores), `adoptLocalDisk`,
`adoptFilesystem`, `adoptStorageClass`; reads between two writes belong to the first.
`Beside` is everything of `FileSystemClaim`: the manager starts migration and controllers
together. `Restart` crashes the operator and starts the migration again. Several filesystems do
not interact, so one is modelled; the naming patterns of version 1.0 are the constants `Legacy`
and `Skipped`.

Run `migration`: two LocalDisks, a class, one restart or failed call anywhere, and passes that
start from an up-to-date cache (`PromptInformer = TRUE`), `FairMigration` (worker, informer,
timers and migration go on, a resync comes). With a lagging cache the instance has more than
ten million states; the theorems on the safety properties allow the lag, and
`MigrationSettles` is checked without it only. `LegacyKept`: nothing is lost
unless the user deletes the claim. `KeepsDisks`: the controller sets the Filesystem's disks to
those its claim owns; two things keep it from shrinking the Filesystem, either of which would
do: the order of adoption, and that a claim whose devices are not those of its LocalDisks is
not reconciled further. `MigrationSettles`: an undisturbed migration ends
with a Ready claim that owns everything, whatever the controller made of the claim in between.
The run also passes without a class, and with either.

Observations:

* `main.go` lines 175 and 218 say that migration runs before controllers start processing, and
  `migration.go` line 443 that the status "prevents the controller from trying to create
  resources". Nothing makes controllers wait, so they may reconcile the new claim before its
  status is written, and report failures until it is.
* A refused update of a LocalDisk or the Filesystem gives up until the operator restarts; when
  all LocalDisks are adopted by then, the restarted migration finds no group and never adopts
  the Filesystem. `MigrationSettles` excludes both.
* A lost status update leaves a claim the controller provisions; with devices no finder has
  reported it becomes ValidationFailed.
* With `Skipped = {"wwn2"}` and the first device alone as device list, a claim owns fewer
  LocalDisks than its Filesystem has, the controller takes the others out, and `KeepsDisks`
  fails.
* A LocalDisk that reports no filesystem while the migration lists the disks is passed over,
  and the controller takes it out of the Filesystem once the others are adopted: `KeepsDisks`
  fails with `Upsets = {"unhealthy"}`, where an ill disk reports no filesystem, and also
  with `{"tamper"}`.
* A claim deleted while it is being migrated takes the objects adopted so far with it.

## FusionAccess

Source: `internal/controller/fusionaccess_controller.go`, `secret.go`, the packages
`imageregistry`, `kernelmodule`, `console`, `localvolumediscovery` (the object's creation),
the image check of `internal/utils` and `api/v1alpha1/fusionaccess_webhook.go`.

State. `fa` is the stored object, `cache` the informer's copy, `mem` the copy of the pass.
Unlike the claim controller this one writes with `Update`, which carries the resource version:
`fresh` says whether the pass's copy still has the stored version, `Write` needs it, and
`Conflict` is the refusal. Installed manifests and module versions are numbers: 0 none,
`1..Versions` the ones operator images bundle, `External` the one a user's URL names.
`applied`, `pdb`, `overdue`, `entitled`, `module`, `pod`, `plugin`, `lvd` are the objects the
pass writes; `builds` and `built` what KMM makes of the Module; `secret` and `registry` what
users provide.

Actions. A pass goes from label to label, one action per call that changes something, in the
order of `Reconcile`: either `createPodDisruptionBudget` and `updateStorageScaleVersion`, which
end it, or `applyManifest`, `recordApply`, `managePodDisruptionBudget` (which ends it when it
sets the label), the entitlement secrets, the registry check, the Module, the plugin, the image
check, the LocalVolumeDiscovery and `recordReady`. An error requeues the key. The object's own
events have no predicate (`InformerSync`); events of Builds, the pull secret, the registry's
secret and the KMM ConfigMap wake the object through `fusionAccessHandler`, with the predicates
of `SetupWithManager`: creating a Build or deleting the pull secret wakes nobody. `Upgrade`
replaces the operator by one that bundles the next version.

Abstractions: reads of the budget, Builds and secrets are taken as fresh; builds do not fail,
and `rebuild` stands for every reason to build a version again (a new kernel, another
registry); merged registry secrets and the extra pull secret are left out; a single object
exists (the webhook's check against its cache is a guard of `CreateFusionAccess`).

| Run | Instance | Checks |
|---|---|---|
| `fusion_upgrade` | two versions, two namespaces, object with or without a version, internal or external registry, one fault, one change of version, key, registry or its secret; upgrades come when no build and no budget is around (`CalmUpgrades`) | `TypeOK`, `BuildProtected`, `ReadyForThisSpec` |
| `fusion_live` | two versions, no key and emptyDir storage at first, one edit of version or URL, deletion or rebuild, `FairSpec` | `UpgradeCompletes`, `BudgetGoesAway` |

Bounds. Two versions are one upgrade; two namespaces are the least that a failure can tell
apart. `MaxFaults` and `MaxUpsets` bound the environment only. Deadlock checking is off because
nothing may be left to do when the object is deleted.

Fairness. Worker, informer, clock, KMM and kubelet keep going; users in the end provide a valid
key and persistent storage. Nothing is assumed about edits, restarts or upgrades.

Observations:

* The comment of `managePodDisruptionBudget` (line 807) says that the label keeps the budget "from being
  deleted between the time it is created and the GPFS build starting". When an upgrade comes
  while the budget of the previous version is still there, `CreateOrUpdate` (line 747) keeps it
  with its label, and the next pass deletes it before the new build starts: `BuildProtected`
  fails in `fusion_upgrade` with `CalmUpgrades = FALSE`.
* Every complete pass writes the status twice ("" after the image check, "Ready" at the end), so
  each pass causes the event that starts the next and the check's pod runs for ever, although
  the comment at line 408 says the check is done "if we have not already or if it failed
  previously". `<>[](fa.status = "Ready")` does not hold.
* A build of another kind in the namespace, a rebuild of the old version or a failed build sets
  the label just as well, after which the budget goes before the new build.
* A budget whose object was switched to an external manifest, which needs no further pass,
  or deleted, may stay; `BudgetGoesAway` excludes both.
* An object created with the current version in its spec gets no budget for its first build.
* `createPodDisruptionBudget` logs success as failure and failure as success (line 765).

## Discovery

Source: `internal/controller/localvolumediscovery`, `internal/devicefinder/discovery`.

State. `lvd` is the LocalVolumeDiscovery with its selector and status, `pass` the controller's
pass with the copy it works on, `ds` the DaemonSet, `pod` the finder of each node with the
disks it remembers, `result` the published results with their owner, `disks` and `members` the
machines. Steps of a pass are named after the functions; the loop of
`deleteOrphanDiscoveryResults` is one action per result. A finder looks up the
LocalVolumeDiscovery, ensures its result (`ensureDiscoveryResultCR`) and then probes
(`discoverDevices`, at first and ever after): it remembers a changed list and publishes it. The
DaemonSet controller, kubelet, garbage collector, users and the FusionAccess controller, which
creates the object without a selector and resets one, are the environment.

Abstractions: which block devices are usable is the input `disks`; a udev event is a probe that
comes early; node affinity is a set of nodes; tolerations, phases (a function of the message)
and event records are left out.

Run `discovery`: two nodes, up to two LocalVolumeDiscoveries, one trouble of any kind but
`lost`, `FairSpec`. `RememberedIsPublished` and the liveness properties `ResultsCatchUp`,
`StatusCatchesUp`, `OrphansGo`. One trouble suffices to meet each hazard once. With two, and one
LocalVolumeDiscovery that is not deleted, `RememberedIsPublished`, `ResultsCatchUp` and
`StatusCatchesUp` hold as well, and `OrphansGo` does not (below); the full instance with two
troubles was not finished. Fairness: controllers,
kubelets and finders keep going, a finder probes every `probeInterval`, a missing
LocalVolumeDiscovery is created by FusionAccess while `MaxLVDs` allows. `MaxLVDs = 2` is the
least with a result of a predecessor.

Observations:

* `discoverDevices` remembers a list before publishing it and later failures are only logged: a
  failed publication is not tried again until the disks change. With `"lost"` among the
  `Troubles`, and two of them, `RememberedIsPublished` fails; without, it is proved for every
  instance.
* A restarted finder with no disks compares an empty list with nothing remembered and leaves an
  old result as it is; the properties except empty lists for this reason.
* A LocalVolumeDiscovery deleted and created again, or a selector taken back at the wrong
  moment, can leave a running finder without a result, which nothing recreates before it is
  restarted.
* Nothing about results is watched. A selector narrowed, widened and narrowed again before the
  DaemonSet's status has counted the extra pod leaves the result that pod makes behind until
  the next event (`OrphansGo` with two troubles).
* A result of a node that left, or a selector that matches no node, stops the orphan cleanup.
* While the DaemonSet cannot be written, each pass writes a degraded status and then the one
  computed from the old DaemonSet, and so wakes the next.

## Console

Source: `console/src`: `shared/store`, `shared/utils`, `data`, `domain/use-cases`,
`ui/storage-clusters`, `ui/file-system-claims`, `ui/fusion-access`.

An action is one event with the renders and effects it leads to, since React handles events
one after the other. `ConsoleStore` has the store (`alerts`, `cta`), the watches (loading, failed or
delivered, each with its copy) and the cluster behind them. `NodeSelection` has the table of
nodes: `row` is the status a row keeps for itself, `patches` the label patches in flight with
who still listens for the answer; `Validate` is the effect of
`useValidateMinimumRequirements`, with its dependencies. `ClaimForm` has the LUNs on offer,
the name field, `captured`, the LUNs the memoized submit function closes over, and the history
variable `chosen`. `Console` moves between screens: leaving one drops its store, watches, rows
and form, while its calls go on and are answered, unheard or with a redirect.

Abstractions: an alert is named by its title; node memory is the constant set `SmallNodes`;
the order of results is `NodeOrder`; the home screen is taken with FusionAccess ready.

Runs `console` and `viol_stale_devices`: two nodes, two disks under two paths, results that
renumber, share one disk or miss a node, one disturbance (watch, refused call, lost reply,
foreign label, new discovery, disk taken, API definitions reloaded, visit). The minimum of
nodes is 2 here and 3 in the code: two nodes then have states on both sides of it.
`MaxCalls`, `MaxSubmits` bound calls in flight and `MaxAlerts` the alerts under which a user
goes on creating. Fairness: a call is answered, if only by the browser giving up.

`viol_stale_devices`: the dependency list of `useFileSystemClaimsCreateUseCase` names
`luns.filter`, the same function in every render. A user who types a name and then ticks LUNs
submits the ticks of the time the name was typed (`SubmitsSelection`).

Observations:

* A label patch replaces all labels of a node by the row's copy: a label another component set
  in between is lost.
* After a lost reply a row shows the old state although the label was written, until it is
  mounted again: a row takes its status from the node only then.
* A creation asked for while API definitions are read waits for a captured value (`while
  (inFlight)`): for ever.
* Nodes without a result are left out of `sharedDisksCount`: the storage cluster can be created
  over nodes that share nothing.
* A failed watch is an empty list: without LocalDisks, disks in use are on offer; without nodes
  or results the list and the selection are emptied.
* The form dismisses the first alert when an error goes away, whichever it is; `FailuresKept` is
  about the node screen.
* An answer that comes after its screen was left still redirects the user.
* The create button keeps the last health it saw when daemons disappear. A failed claim is shown
  as "Unknown", and a blocked deletion always asks for the label, also when volumes block it.
* A memory quantity without a suffix gets no warning (row view model, lines 161 to 166).

## Proofs

Eight modules hold the theorems. Each holds for every value of the constants that satisfies
the assumptions of its module (`ConstantsAssumption`, `LegacyAssumption` and so on, which TLC
evaluates in every run) and the hypotheses given below, each with the reason for it. The
larger strengthenings were checked with TLC before they were proved.

### One claim

* `TypeCorrect`: `Spec => []TypeOK`. `TypeOK` is inductive: its last two conjuncts (the loop
  has a node and a device left) are what the loop's actions need. One lemma per group of
  operators (patches, status writes, handlers, environment) keeps the leaves small.
* `CleanupCreatesNothing`: when no claim carries a second finalizer
  (`Holds \subseteq {FALSE}`), `Spec => NoCreateWhileDeleting`. The property is not inductive:
  whether a pass provisions is decided at its start from a copy that may be old. The
  invariant `DeletionInv` says that a claim with a deletion timestamp carries the operator's
  finalizer, in the API server, in the cache and in the pass's copy, and that no pass which
  has entered provisioning copied a claim being deleted. The assumption is needed:
  with `Holds = {TRUE}` TLC finds the counterexample without it.

`ClaimCleanupProofs` describes every step by what it does to the three versions of the claim,
stored, cached and copied (`ClaimStep`, with the lemma `StepShape`), and argues about these
shapes. Its first three theorems assume `OneClaim`: the name is used once and nobody else has a
finalizer. A status write carries neither UID nor resource version, so that a late pass over a
claim that is gone writes its conditions on the claim that has taken the name, and with a
foreign finalizer `DeletionInv`, on which the shapes rest, fails.

* `BlockIsShown`: `[]BlockShown`. `VersionsInv` orders the versions: what the copy knows of the
  deletion the cache knows, and what the cache knows the API server; and a version that tells
  of the cleanup says that deletion was requested. So no write by an older version hides it.
* `RecordedDeletionsAreReal`: `[]DeletedMeansGone`. `GoneInv` extends it to the cache, from
  which a record may be written again. It stays true because a version with a record is not
  provisioned for, and only provisioning gives objects to a claim (`StaysRemoved`).
* `RecordedDeletionsStay`: `CleanupNeverUndone`, when nobody provisions volumes or withdraws
  the label (`Undisturbed`). A pass whose cache lags would take back what the cache lacks, if
  it wrote anything else; `CommitInv` and `DeletingInv` show that it then is at the very stage
  whose record it lacks and records it again. A volume or a missing label makes such a pass
  write that it is blocked instead, without the record.
* `SuccessorIsSpared`: `DeletesOnlyForDeletedClaim` for two claims of a name. `SpareInv`: when
  the first is gone, no version of it that is being deleted has anything left to delete
  (`Spent`). The argument ends with the second claim: a status written late for the first may
  land on it, and then its versions need not be `Spent` when a third exists.

`ClaimReadyProofs` is about the claim while it is provisioned and kept. `PassStep`,
`DiskStep` and `StoreStep` say what a step can do to the pass, the LocalDisks and the Filesystem,
and until the cleanup begins (`Over`) nothing of the claim goes away (`NothingGoes`). Both
theorems allow an informer that lags.

* `ReadyIsBacked`: `[]ReadyBacked` under `OneClaim`, `Gentle` and `Steady`. Ready is computed from
  the conditions in the pass's copy, each written by another pass, and looks nothing up. The
  invariant `ReadyInv` says what these conditions are still good for: once the Filesystem
  exists no version of the claim lets a pass create LocalDisks (`FormedInv`), a version with
  both of them recorded has the list of devices all later versions have (`SettledInv`), and
  what the handlers before the last one have found stays so (`CheckedInv`). A Ready that is
  stored or cached is therefore backed, and stays so when a stale write repeats it
  (`PromiseInv`). Crashes, failed calls, edits of the devices, changing discoveries, drift of
  the class and, without edits, failing disks are allowed.
  `Gentle`: nobody deletes objects or takes disks for another filesystem, and disks do not fail
  where users may edit. An ill disk makes LocalDiskCreated false, at which the webhook admits
  an edit, and a disk used elsewhere makes the pass create LocalDisks again.
  `Steady`: passes start from an up-to-date cache, or no creation fails and every listed
  device has a disk on every node. Without it the property fails (see the observations), so
  the instance of `claim_faults`, a lagging cache and creations that fail, is covered by TLC
  within its bound of two failures and not by the theorem.
* `EditsAreReal`: `[]NeverMisreportsEdit` under `OneClaim`, `Untouched` and `Distinct`. The controller
  reports an edit when the devices behind the claim's LocalDisks are not those of its list. So
  the loop must never be left with some of them: `DisksInv` says that between passes there are
  none or all, and in the loop those of the devices it has behind it (`Behind`, `Laid`), on
  whatever node was drawn. That a device's LocalDisk is found to exist, which ends the loop,
  then means that all are there. `ValidInv` (what was validated still is) and `DoneInv` carry
  this to the versions of the claim. Lagging caches, deletion, ill disks and disks used
  elsewhere are allowed.
  `Untouched`: no restart, failed call or failed creation, which would leave the loop half way
  and be reported as an edit (see the observations), no change of the discoveries, no object
  deleted by others; and no edit, as the property is about lists nobody edited. `Distinct`: a
  list names no device twice, on each node different paths are different disks, and no
  disk has a LocalDisk already or a WWN that can name no object; otherwise the loop ends before
  its last device, and the claim lacks LocalDisks as after a failure.

`ClaimContractProofs` is about the class, the volumes taken from it and the filesystem under
them. All three theorems allow an informer that lags, crashes and failed calls anywhere, and
users who edit, delete, label and provision between any two steps; they begin when everyone
knows of the class, since before that the controller may forget it (see the observations).

* `ClassIsKeptOnRecord`: `ClassGoesFirst`, without any hypothesis. `PassedInv`: a pass that has
  come past `deleteStorageClass` has a copy that does not tell of the class. So the pass of a
  copy that does tells of it in everything it writes while the class is there (`WriteTells`)
  and does not reach `removeFinalizer`.
* `UsedVolumesAreSafe`: `UsedVolumesHold`, when nobody deletes objects behind the controller's
  back (`Untampered`), under `OneClaim`. Volumes are looked for once, at the start of a pass over
  a claim being deleted. `VolumeInv`: a volume that was taken since still has its class, if the
  pass knows of it. So this pass ends with the deletion of the class, the record stays, and the
  next pass looks for volumes again before it comes to the Filesystem. Until cleanup begins,
  `StandsInv` says that whoever tells of the class or the Filesystem is right, and that a class
  has its Filesystem.
* `KnownContractIsKept`: `Spec => KeepsKnownContract`, the refinement of `ClaimContract`, under
  the same hypotheses. `KeeperInv`: a claim that has a Filesystem, or that any version has seen
  with the finalizer, keeps the finalizer, and when it is gone no version of it is provisioned
  for. Four lemmas say what a step is in the contract that withdraws the class, serves it,
  changes the Filesystem, or changes only the claim. Whoever deletes the class or the
  Filesystem by hand breaks the contract, hence `Untampered`; with a second claim of the name
  or a foreign finalizer, late passes write and provision for a claim that is not theirs,
  hence `OneClaim`.

### Migration

* `MigrationTypeCorrect`: `[]MigrationTypeOK` for every value of the constants; the claim found
  in the cache or created has a UID (`UidInv`).
* `LegacyIsKept`: `[]LegacyKept`, when the name is used once (`OneClaim`) and nobody deletes
  the objects themselves. Crashes, failed calls, an informer that lags, edits, volumes,
  discoveries and any set of legacy disks are allowed. `LegacyInv`: a version that is being
  deleted exists only when the claim is going (`GoingInv`), so no pass cleans up before; and
  nothing has an owner before the claim has its UID (`OwnerInv`), so the garbage collector finds
  no orphan before. With a second claim of the name the property does not hold and should not:
  its predecessor took the objects along.
* `DisksAreKept`: `KeepsDisks`, when in addition no LocalDisk is skipped or stops reporting its
  filesystem (`Healthy`); without either it fails, see the observations. `DisksInv`: until the
  claim is `Parting`, that is, going with no pass left that could provision for it
  (`PartInv`), every object that is owned stays (`HeldInv`), a legacy disk without an owner is
  one that the migration lists, however often it starts again (`UsedInv`), the migration turns to
  the Filesystem only when all disks have an owner (`AdoptInv`), and so whoever owns the
  Filesystem owns every disk in it (`StoreInv`). Lagging caches, edits, crashes, failed calls and
  refused updates are allowed. The proof rests on the order of adoption alone.

### FusionAccess

* `FusionTypeCorrect`: `[]TypeOK`, inductive; its conjunct on `fresh` is what optimistic
  locking means.
* `ReadyIsCurrent`: `ReadyForThisSpec` for every value of the constants. `PassInv` carries
  along the pass what its steps have done for the copy it works on; the write of Ready needs a
  copy that is the stored object.
* `CalmUpgradesBuildProtected`: `[]BuildProtected` under `CalmWorld`, the circumstances of the run
  `fusion_upgrade`: the observations above show it failing without calm upgrades, and a rebuild,
  another manifest or a deletion gives builds the budget is not meant for. `ProtInv`: as
  soon as any copy of the object, or the Module, names the new version, the budget is there or
  its time is over. It needs that the label on a budget comes from this version's build
  (`BudgetInv`), that older modules are built (`BuildInv`), and that nobody knows a newer version
  (`VersInv`).

### Discovery

* `DiscoveryTypeCorrect`: `Spec => []DiscoveryTypeOK`, inductive as it stands; cardinalities of
  sets of nodes are bounded once, in a lemma.
* `NothingUnpublished`: when no publication of a running finder is lost
  (`"lost" \notin Troubles`), `Spec => []RememberedIsPublished`. The strengthening `Published`
  adds `Blank`, that a finder which has not probed yet remembers nothing: only then does the
  first probe publish whatever it finds. That a result may vanish and be created anew by a
  later finder is what the case on `ensureDiscoveryResultCR` is about.

### Console

All six hold for every value of the constants. `StepKind` sorts the steps of the three screens
by what they do to store, watches and form.

* `ConsoleTypeCorrect`: `[]TypeOK`, with an invariant for each part: store, cluster, watches,
  rows, calls in flight, form.
* `WarningIsShown`: `[]RequirementsShown`. The dismissal takes the first alert, the warning is put
  in front, and every other alert is another title.
* `ButtonFollows`: `[]ButtonFollowsRequirements`. The effect runs only when one of its
  dependencies changes; `UnmetFromDeps` shows that the requirements are a function of these.
* `OfferStaysCurrent`: `[]OfferIsCurrent`; `ChoiceFollows`: `[]ChoiceFollowsDisk`, for which no two
  LUNs on offer have one path, as the user ticks a path and the list is rebuilt by disk.
* `FailuresStay`: `FailuresKept`, from `WarningIsShown`.

### Only model-checked

* Liveness (`ClaimBecomesReady`, `DeletionCompletes`, `StaleReadyCorrected`, `MigrationSettles`,
  `UpgradeCompletes`, `BudgetGoesAway`, `ResultsCatchUp`, `StatusCatchesUp`, `OrphansGo`,
  `PendingEnds`): the prover does not handle fairness.
* `NoOrphanStorageClass`, `VolumesSafe` and `KeepsContract` (`claim_lifecycle`): they need an
  up-to-date cache and calls that do not fail, which the informer cache does not guarantee, so
  theorems about them would say little; those of `ClaimContractProofs` do without.
* Safety outside the hypotheses above, within the bounds of the runs: `ReadyBacked` with a
  lagging cache and failing creations (`claim_faults`).
* `viol_stale_devices`, whose property the code violates.

## Not modelled

* Generated API types (`console/src/shared/types`, 113 000 of the console's 118 000 lines),
  bundles, manifests and vendored code: they hold no behaviour. They are why the mapped lines
  are a small share of the TypeScript, although every use case, repository and view model of
  the console that changes state is modelled.
* The console's layout, columns, links and translations; the parsing of memory quantities.
* Two FusionAccess objects at once, merged pull secrets, the fields of the kernel Module.
* Filtering of block devices and the udev socket of the device finder; shortened names of
  long nodes.
* The retry arithmetic of `calculateDeletionBackoff`, whose delays no property tells apart.
