# IBM VPC Block CSI driver: TLA+ specifications

TLA+ models of the driver's own logic, with TLC configurations and TLAPS
proofs. They describe the code in `pkg/ibmcsidriver`, the parts of the vendored
IBM libraries that carry out its requests
(`vendor/github.com/IBM/ibmcloud-volume-vpc/block/provider`, below "the
provider", and `ibm-csi-common`) and of `k8s.io/mount-utils` that it calls.
`PROJECT.json` maps every definition to the lines it models.

## 1. The system

Two processes run the same binary: the controller (one per cluster) and the
node plugin (one per worker). Each serves CSI over gRPC, one goroutine per call.
Calls come from Kubernetes sidecars, which give up after a time-out and retry;
the driver does not watch the cancellation, so an abandoned call keeps running
beside its retry.

| Component | State | Operations | Interacts with |
|---|---|---|---|
| Attach and detach (`controller.go`, provider) | none of its own; attachment records in the VPC backend | ControllerPublishVolume, ControllerUnpublishVolume | lock store, VPC API |
| Lock store (`lock_store.go`) | a mutex per node ID, never removed | Lock, Unlock | the two handlers above |
| Provisioning (`controller.go`, provider) | volumes in the VPC backend | CreateVolume, DeleteVolume, ControllerExpandVolume | VPC API, no lock |
| Capacity (`controller_helper.go`, `utils.go`) | none | getRequestedCapacity, RoundUpBytes, BytesToGiB, roundUpSize | CreateVolume, ExpandVolume |
| Parameters (`controller_helper.go`) | the volume being described | getVolumeParameters, overrideParams | CreateVolume |
| Node server (`node.go`, `node_helper.go`, mount-utils) | one mutex; the node's mount table, directories, devices | stage, publish, unpublish, unstage, expand, statistics | kernel, mkfs, mount, umount, resize |
| Snapshots (`controller.go`, provider) | snapshots in the VPC backend | CreateSnapshot, DeleteSnapshot, ListSnapshots | VPC API, no lock |
| Listing (`controller.go`, provider) | a token, held by the caller | ListVolumes, ListSnapshots page by page | VPC API |
| Process (`main.go`, `ibm_csi_driver.go`, `server.go`, `fileOps.go`, `identity.go`) | the configured driver, the socket file, the listener, the signal handler | start-up, Serve, Wait, SIGTERM, the calls that describe the driver | everything: SIGTERM is `os.Exit(0)` |
| Node information (`node.go`) | the field `Metadata`, without a lock | NodeGetInfo | Kubernetes API |
| Retry helpers (provider `util.go`) | attempt counters | retry, FlexyRetry, FlexyRetryWithCustomGap | all provider calls |
| Validation, PV watcher, metrics | see section 8 | | |

What is hard here: calls for the same node or volume interleave at every API
request; requests time out at the client and arrive at the backend later; the
process ends between any two steps and the retry meets the half-done work;
error codes do not tell failure from absence; lists change between two of
their pages; a killed process leaves its socket behind; maps are visited in random order;
sizes are rounded in 64-bit arithmetic; the node server changes shared kernel
state in several commands. The list, line by line, is `hazards` in
`PROJECT.json`. For each component the properties that make it correct are
those of section 4: what an OK answer promises, that operations exclude each
other where they must, that nothing touches what it does not own, and that
calls end.

## 2. Modules

| Module | Models | State and actions |
|---|---|---|
| `AttachDetach` | both attach/detach handlers, the lock store, the provider's loops, the backend's attachments | `pc[c]` is the statement a call is at, `tries[c]` the index of its loop, `attID[c]` the ID passed from AttachVolume to WaitForAttachVolume or to the detach request; `lock[n]` is a mutex of the store. One action per outcome of an API request: `AttachFindsExisting`, `AttachAccepted`, `AttachRefused`, `AttachTimesOut`... |
| `AttachService` | what attach and detach promise | a serial automaton per node: `owner`, `answer`, and `links` between volumes and nodes, with no IDs, loops or places; every exception (`Misread`, `LateAttach`, `AbandonDetach`...) is an action of its own |
| `Provision` | CreateVolume, DeleteVolume, ControllerExpandVolume | as above, without a lock; `state`, `name`, `cap` are the backend's volumes |
| `Capacity` | getRequestedCapacity and rounding | a request, what is asked of the backend, one expansion (asked for, or kept by the early return); integers have `Width` bits and wrap |
| `VolumeParams` | getVolumeParameters, overrideParams | `left` holds the entries a pass over a map has not visited yet; any of them is next |
| `NodeServer` | the five state-changing node calls and NodeGetVolumeStats | `mux`, `mounts` (a stack per path), `paths`, `present`, `fsSize`, `devSize`; one action per system call or command, with its failure. `Mounted` is the mount table, `LooksMounted` what IsLikelyNotMountPoint says of it: exact where statx reports mount roots (`MountRootKnown`), a comparison of devices otherwise, which does not see a bind of a directory of the node's own disk. A volume may have been staged by an earlier process |
| `Snapshots` | CreateSnapshot, DeleteSnapshot, ListSnapshots by ID | like `Provision`; `account` is the driver's account, `req[c].form` how a snapshot is named (CRN, bare ID, CRN of another account) |
| `Listing` | ListVolumes, ListSnapshots and a caller that walks through the pages | `store` is what each ID is, `token` what the caller sends back; `owed` is history: what was in the list since before the walk |
| `DriverProcess` | start-up, socket, signal handler, identity, NodeGetInfo | `proc` is where the process is, `socket` the file at the endpoint, `handler` the goroutine removeCSISocket, `metadata` the interface value that NodeGetInfo stores in two writes |
| `AttachDetachProofs`, `ProvisionProofs`, `NodeServerProofs`, `SnapshotsProofs`, `ListingProofs`, `CapacityProofs`, `VolumeParamsProofs`, `DriverProcessProofs` | | the inductive invariant `IndInv` of the module named, and the theorems of section 6 |
| `MCAttachDetach`, `MCProvision`, `MCNodeServer`, `MCSnapshots` | | symmetry sets |

A definition whose comment begins with "Mutant" is a deliberately wrong variant
of the definition after it. No specification uses it; substituting it for the
right one shows that a property can fail.

### The refinement

`AttachDetach` ends with a refinement mapping (`Service == INSTANCE
AttachService WITH ...`): the holder of a node's mutex is its `owner`, an answer
counts from the moment it is decided, live attachment records become `links`, and
a detach request under way dooms its volume. `ImplementsService` says that every
step of the handlers, loops and backend is one step of the abstract service or
none: in particular that the several API requests of a handler look like one
attach or detach and one decision, made while the node is owned.

### Common conventions

A call is a member of `Calls`; its request is fixed in the initial state and
may start at any time or never. A request to the VPC API has the outcomes
accepted, refused and timed out; a request that timed out is either lost or
kept in `late...` and applied at any later moment. A read that the provider
repeats until it answers or fails is one step, because nothing is changed
between the attempts. The end of the process (`Exit`) loses all calls in
flight and all mutexes and leaves the backend, or the mount table, as it is;
calls that start afterwards run in the next process.

### What is external

The VPC backend and the kernel are modelled from how the driver uses them: a
volume is attached to one instance at a time; attachment and volume IDs are not
reused; one live volume per name; a volume is deleted only when it is available
and not attached, and never shrinks; the kernel does not mount a file system
twice at one place; a device is detached only when it is not mounted; `umount` of
a path takes off the newest mount.
A list has a fixed order in which a new item may take any place, and a page starts
at the item its token names. The kernel keeps the socket file of a dead process; the
kubelet restarts a process that ended and sends SIGTERM to one that its liveness
probe cannot reach.
The orchestrator is assumed to learn volume IDs from CreateVolume and to
request a publish or an expansion on a node only for a volume that is staged
and that it has not begun to unstage.

## 3. Bounds

The constants are small sets; the bounds are:

- `attach_detach`: 2 nodes, 1 volume, 3 calls, 2 attachment IDs, loops of 2
  attempts. Three calls are enough for an attach, a detach and a bystander, or
  for a retry that overtakes its abandoned predecessor; two nodes are needed for
  attaching elsewhere; two IDs for an attachment that replaces another. About
  1.3 million states.
- `attach_detach_live`: 1 node, 2 calls: two calls compete for a lock. No
  symmetry, because the property is temporal.
- `provision`: 1 name, 2 volume IDs, 3 calls, a "GiB" of 2 bytes, sizes on, below
  and above a multiple of it: the volume can be deleted and made again.
- `capacity`: words of 6 bits, a GiB of 4, a minimum of 3 GiB: every range and
  every expansion, with overflow in reach. `capacity_sdp` has the same bounds.
- `node`: a file system volume and a block volume, a pod with read-only requests,
  3 calls, device sizes 1 and 2, and mount points told by their device, the harder
  of the two cases. The calls of a behaviour are for one volume (constraint
  `OneVolume`): calls for different volumes meet only at the mutex. The volume is
  staged by an earlier process or not yet, so three calls can be a stage, a publish
  and a competitor, but also a publish and an expansion with an unpublish or
  unstage beside it, or an unstage and two publishes that come late, which stack
  mounts. About 2.0 million states. `node_format` needs one volume only.
- `params`: all combinations of the abstracted values of three keys (profile
  and encryption) or of four (profile, zone, resource group, IOPS), in the
  storage class and in the secret. The keys are split because the code for the
  encryption key does not look at the other keys. The preferred topologies are
  lists of up to 2, with and without segments and zones. About 440,000 states.
- `snapshots`: 1 name, 2 source volumes, 2 IDs, 3 calls, 2 attempts: a name used for
  two volumes, a snapshot that is deleted and made again, a lookup beside both.
- `listing`: 4 IDs, 2 source volumes, page sizes -1, 0, 1 and 4 with a limit of 3
  and a default of 2: pages of one, two and three, a token whose item is deleted, an
  item that appears before or behind it.
- `process`: 2 NodeGetInfo calls, 4 faults: a fault in each of the start-up, the
  server, the handler and the restart. No symmetry, because of `Recovers`.

The runs of calls allow deadlock because the calls are finitely many and may all
have ended; `listing` and `process` never stop, and deadlock is checked there.

## 4. Runs that pass

| Run | Property | What it shows |
|---|---|---|
| `attach_detach` | `OneOperationPerNode` | "Allow only one active attach/detach operation for an instance at anytime" |
| | `PublishOKMeansAttached` | the attachment whose ID is returned is of the requested volume and node, and attached, when the handler returns; only a detach request that timed out earlier can undo it |
| | `UnpublishOKMeansGone` | no attachment is left, unless this call took a failed read for an absent attachment or an attach request arrived late |
| | `DetachedOnlyByOwner` | an attachment starts to go away only by an unpublish of that volume and node that owns the lock, or by its late request |
| | `ImplementsService` | the handlers implement the abstract service of section 2 |
| `attach_detach_live` | `EveryCallEnds` | every accepted call is answered or dies with the process |
| `provision` | `CreateOKMeansVolume` | the volume of an OK has the name and at least the size, through retries, lost answers and concurrent calls |
| | `ExpandOKMeansSized` | the volume of an OK holds the requested bytes, whatever other expansions do |
| | `DeleteOKMeansGone` | the volume is gone or on its way; the exceptions are exactly the masked lookup and the exhausted wait |
| `capacity` | `CreatedSizeIsSmallest`, `ExpandedSizeIsSmallest` | the size is the smallest number of GiB that holds the request and the minimum of the profile, away from overflow and, for SDP, where a given range requires something; an expansion keeps only a volume that is large enough |
| | `LimitIsNearlyKept` | rounding passes a limit by less than one GiB |
| `params` | `KeyIsAsMeant`, `PlacementIsAsMeant`, `NothingInvalidPasses` | the volume is a function of the request and not of the order in which maps are visited; a request with an invalid entry, without a profile, or with neither a zone nor a topology with segments is refused, and the zone is empty only where the first segments have no zone label |
| `node` | `NoStackedMounts` | no interleaving, retry or crash mounts over a mount, with one exception: where mount points are told by their device, at a pod's target and over a bind of the node's own disk |
| | `StageOKMeansMounted`, `PublishOKMeansMounted`, `CleanupOKMeansGone` | what the answers promise of the mount table |
| | `PublishOKMeansReadOnly` | an OK of a read-only publish means a read-only mount, unless an earlier publish of the target failed or died and left it writable |
| | `ExpandOKMeansGrown` | an expansion outside the mutex resizes the right file system to at least the size the device had when the call came in; a read-only device is passed over with OK |
| | `StageOKMeansSized` | so does a stage that mounts the volume; one that finds it staged resizes nothing |
| | `UsageOKMeansVolume` | the statistics are of the volume, unless the path was not mounted at one of the three looks |
| | `DataSurvives` | what a volume holds is never formatted away, unless the look for a file system found no device |
| `snapshots` | `CreateOKMeansSnapshot` | the snapshot of an OK has the name and the source volume, and is ready only if it is |
| | `DeleteOKMeansGone` | the snapshot is gone; the exceptions are the exhausted wait and the read that was not allowed |
| | `ListedMeansSo` | a CRN that CreateSnapshot handed out is looked up and not trusted, where the driver knows its account |
| `listing` | `WalkIsComplete`, `TokenIsAhead` | a walk shows all that was there throughout, and nothing twice, whatever comes and goes between pages |
| | `EveryWalkEnds` | every page is progress, for every page size |
| `process` | `ServingMeansReady` | nobody is answered by a driver without region and account or meets a socket of a dead process; a serving process is without its socket only after its handler removed it, and the removal may fail |
| | `KnownStaysKnown` | only the first, racing NodeGetInfo calls can see the metadata half stored |
| | `Recovers` | after the last fault the driver is reachable for good, although `Wait` never returns and the socket file outlives the process |

### Fairness

`EveryCallEnds`: a goroutine that can take a step eventually takes
one (weak fairness of `HandlerStep`), and `sync.Mutex`, which hands the lock to a
waiter that has waited for more than a millisecond, does not starve one (strong
fairness of `Lock`). The orchestrator, the backend and SIGTERM owe nothing: the
property holds because the loops are bounded. `EveryWalkEnds`: a caller that is not
done asks for its next page; it needs no failure to get out. `Recovers`: the
goroutines run (weak fairness of `Startup` and `Handler`), and the kubelet
restarts and probes (weak fairness of `Restart` and `ProbeFails`, the
`livenessProbe` of `node-server.yaml`); faults are finitely many, and a lost race
in NodeGetInfo counts as one.

## 5. Runs that find a disagreement

Each states what a comment in the code says; TLC's counterexample is a
behaviour of the code. Details are under `findings` in `PROJECT.json`.

| Run | What the code does |
|---|---|
| `detach_masked` | an API failure during the wait is reported as a completed detach |
| `node_format` | a device that appears between the look for a file system and `mkfs` is formatted although it holds data |
| `capacity_sdp` | an SDP request with a range that requires nothing asks for 0 GiB, and one within a GiB of the largest int64 for a negative number |

Behaviours that no run states as a violation, but that the models have and that
the passing properties name as exceptions: DeleteVolume and DeleteSnapshot answer OK
after an exhausted wait, DeleteVolume also after a failed lookup; ExpandVolume
compares GiB with bytes (`ExpandReads`), so it asks the backend to expand a volume
that is large enough; a publish that waited while its volume was being unstaged
binds the bare staging directory (`PublishOKMeansMounted` speaks of a mount point
only); a stage whose resize failed is answered OK by the retry, which finds the
volume mounted (`StageOKMeansSized` speaks of the calls that resize); a mount that
a failed or interrupted publish left writable is accepted by a read-only retry
(`PublishOKMeansReadOnly`; matching the options is a TODO at `node.go:154`); where
statx reports no mount roots a repeated publish mounts over the bind of the bare
staging directory (`NoStackedMounts`); the rounding of a size within one GiB of the
largest int64 wraps, and the minimum size is asked for (`Representable` in
`CreatedSizeIsSmallest` and `ExpandedSizeIsSmallest`); the first preferred topology
with segments is taken although it has no zone and a later one does, and the volume
is requested with an empty zone (`NothingInvalidPasses`); ListVolumes panics on a
volume without a zone; a malformed link ends a list early; drivers in satellite clusters trust every snapshot CRN.

`Capacity` also shows two smaller deviations: rounding up can exceed a limit that
is no whole number of GiB, and an SDP request with a limit below 10 GiB is refused
although an SDP volume may have 1 GiB.

## 6. Proofs

The runs check small instances; the theorems hold for all constants that satisfy
the named `ASSUME` of each module. Those say that the placeholders (`NoID`,
`NoCall`, `Host`...) are not members of the sets they complete, that loops try at
least once, and that sizes are natural numbers; TLC evaluates them in every run.
Every safety property of section 4 has a theorem, and so has the type invariant of
every module (that of `Capacity` is proved only: the program is sequential and its
run compares the sizes themselves). Each proof module defines one
inductive invariant `IndInv`, proves `Invariance` (`Spec => []IndInv`) with one
lemma or step per action, and derives the properties from it.

| Module | Theorem | States |
|---|---|---|
| `AttachDetachProofs` | `TypeCorrect`, `MutualExclusion`, `PublishIsSafe`, `UnpublishIsSafe`, `DetachIsOwned` | `TypeOK`, `OneOperationPerNode`, `PublishOKMeansAttached`, `UnpublishOKMeansGone`, `DetachedOnlyByOwner` |
| | `RefinesService` | `ImplementsService`, if `LockEnabled` |
| `ProvisionProofs` | `TypeCorrect`, `CreateIsSafe`, `ExpandIsSafe`, `DeleteIsSafe` | `TypeOK`, `CreateOKMeansVolume`, `ExpandOKMeansSized`, `DeleteOKMeansGone` |
| `NodeServerProofs` | `TypeCorrect`, `MountsDoNotStack`, `StageIsSafe`, `PublishIsSafe`, `ReadOnlyIsSafe`, `CleanupIsSafe`, `ExpandIsSafe`, `StageFillsDevice`, `UsageIsSafe`, `DataIsKept` | `TypeOK`, `NoStackedMounts`, `StageOKMeansMounted`, `PublishOKMeansMounted`, `PublishOKMeansReadOnly`, `CleanupOKMeansGone`, `ExpandOKMeansGrown`, `StageOKMeansSized`, `UsageOKMeansVolume`, `DataSurvives` |
| `SnapshotsProofs` | `TypeCorrect`, `CreateIsSafe`, `DeleteIsSafe`, `ListIsSafe` | `TypeOK`, `CreateOKMeansSnapshot`, `DeleteOKMeansGone`, `ListedMeansSo` |
| `ListingProofs` | `TypeCorrect`, `WalksAreComplete`, `TokensAreAhead` | `TypeOK`, `WalkIsComplete`, `TokenIsAhead` |
| `CapacityProofs` | `TypeCorrect`, `CreateIsSmallest`, `ExpandIsSmallest`, `LimitIsKept` | `TypeOK`, `CreatedSizeIsSmallest`, `ExpandedSizeIsSmallest`, `LimitIsNearlyKept` |
| `VolumeParamsProofs` | `TypeCorrect`, `KeyIsSafe`, `PlacementIsSafe`, `InvalidIsRefused` | `TypeOK`, `KeyIsAsMeant`, `PlacementIsAsMeant`, `NothingInvalidPasses` |
| `DriverProcessProofs` | `TypeCorrect`, `ServingIsReady`, `MetadataIsKept` | `TypeOK`, `ServingMeansReady`, `KnownStaysKnown` |

### Attach and detach: the lock

That a call between Lock and Unlock is alone says nothing about who holds the
lock, so the properties are not inductive. `IndInv` adds

- `LockHeld`: a call inside its critical section is the recorded holder of its
  node's mutex, from which mutual exclusion follows;
- `InItsHandler`: a call at a place of one handler has that handler's operation,
  so that the publish of one call and the detach of another cannot be confused;
- `OwnAttachment`: from the moment a call polls or detaches an attachment ID, that
  attachment is of the requested volume and node, which is stable because
  IDs are never reused;
- `OneLivePerVolume`: a volume has one live attachment at most, so that a link of
  the abstract service is one record;
- `Decided`: a call has an answer when it reaches the deferred Unlock and not
  before, so that its decision is one step of the abstract service.

`Exclusive` turns `LockHeld` into "two calls inside for the same node are equal".
The critical cases are the detach of one call against an answered publish of
another, which `Exclusive` rules out, and the steps that make an attachment while
an unpublish returns.

The refinement needs `LockEnabled`: without the lock two handlers of a node
interleave, and no serial service explains them. `CreateLinks`, `MoveLinks`,
`DropLinks` and `KeepLinks` say what a change of one attachment record does to the
abstract links, `CallRefines` matches each step of a handler with an abstract
action or a stutter (`QuietStep`), `BackendRefines` each step of the backend.

### Provisioning and snapshots: what is never taken back

These calls hold no lock, so the argument cannot be about ownership. `Evolves`
states what no step of anybody takes back: a volume or snapshot keeps its name and
source, does not shrink, is pending only once and does not return from its
deletion. `CallInv(c)` says what a call has seen of its volume in these terms
(`HasVolume`, `Granted`, `Settled`), and `Bystander` shows in one lemma that
`Evolves` preserves it when another call, the backend or a late request steps.
`OneName` (one live volume per name) is what makes the lookup by name sound.

### Node server: the mutex and the file systems

`Held` says that a call at a place inside the mutex is its holder. What such a
call has seen of the mount table (`StageKnows`, `PublishKnows`, `CleanupKnows`) then
stays true until it leaves, because every step that changes mounts or paths is
inside. `MountOK` says of which volume a mount of a path can be, and that only
binds of the node's own disk, on a target and only without `MountRootKnown`, lie
under another mount (`Covered`, `BareBelow`): the check that a mounting call made
is exact for everything else (`UnseenMount`), and that is all it can cover.
`SizeKnows` carries the size a stage or an expansion owes (`want`, 0 once it passes
over the resize) to its answer. `OptionInv`, proved on top of `IndInv`, says who
made a target of a read-only pod writable (`LeftBy`): a publish that failed or
died, or, for the newest mount, one that is still about to remount or undo it. The
theorems hold for both values of `MountRootKnown`. Expansions and statistics run outside: `ExpandKnows` and `UsageKnows` rest
on what never goes back (a device does not shrink, a file system does not
disappear).
`DataOK` says that what holds data is formatted; with it, only `Format` at
`mkfsBlind` can lose data.

### Listing, capacity, parameters, process

- `Listing`: everything owed lies in the list; what is in front of the token has
  been shown and nothing behind it. `PageIsInitial` shows, by a cardinality
  argument, that a page is an initial part of the rest of the list.
- `Capacity`: `WrapIs` and `QuotientIs` relate the word to the integers,
  `RoundUpIs` gives `b <= g * GiB < b + GiB`, and `SmallestIs` that this g is the
  reference. For SDP with a range the code applies no minimum; that the result is
  still at least 1 GiB follows from the rounding as soon as anything is required.
  `MaxInt` is treated as any number that leaves room for the minimum.
- `VolumeParams`: `Overlay` is a field after the entries seen so far, whatever
  their order; `AssignOverlays` adds one entry, `KeyIsOver` and `FieldsAreOver`
  read off the end of a pass. The first topology with segments exists by the
  well-foundedness of the natural numbers.
- `DriverProcess`: `Stages` says what each stage of the start-up has established,
  and of the last one that the socket is the process's own, except once the handler
  is past its removal, which may have failed; `HandlerServes` that the signal
  handler exists only once the process has begun to serve.

### Only model-checked

Liveness (`EveryCallEnds`, `EveryWalkEnds`, `Recovers`), which is beyond the
prover's backends, and what the runs of section 5 refute.

## 7. Plan

In this order, the most important behaviour first:

1. Done: `AttachDetach`, `AttachService` and the refinement, `Capacity`,
   `Provision`, `NodeServer`, `VolumeParams`, `Snapshots`, `Listing`,
   `DriverProcess`, and the theorems of section 6.
2. Action properties that the invariants now make cheap to prove: an attachment
   ID keeps its volume and node; a volume keeps its name and does not shrink
   (`Evolves` as a theorem of the specification).
3. A composition of the controller with a node: a volume is detached while
   it is still mounted only through the exceptions already named.

## 8. Not modelled

- ValidateVolumeCapabilities (one read and one comparison), GetCapacity and the
  unimplemented methods (a constant error); the fields of answers that are copied
  (labels of a volume, publish context, volume limit of a node).
- The PV watcher and the metrics listener: vendored code in goroutines of their
  own, which share no state with the calls.
- Time: the gaps of the retry helpers, the sleeps of CreateSnapshot and
  udevadmTrigger, how long a lock is held. The models have the order of
  events and every number of attempts, not a clock.
- TCP endpoints; directories of earlier releases that the signal handler deletes.
- Logging and configuration: plain I/O.
- Region, tags, throughput in `VolumeParams`: copied, or treated like the zone.
- File system types, `fsck` and mount options other than read-only in
  `NodeServer`; a failure of any command is a possible outcome. NeedResize takes a
  file system that is short of its device by one block at most for full; sizes in
  the model are far coarser than a block. Symbolic links, which IsLikelyNotMountPoint
  cannot tell from mount points, do not occur on the driver's paths.
