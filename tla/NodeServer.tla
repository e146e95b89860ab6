----------------------------- MODULE NodeServer -----------------------------
(***************************************************************************)
(* The CSI node server on one worker: NodeStageVolume, NodePublishVolume,  *)
(* NodeUnpublishVolume, NodeUnstageVolume, NodeExpandVolume and            *)
(* NodeGetVolumeStats, with the parts of mount-utils they call and the     *)
(* node's mount table.                                                     *)
(*                                                                         *)
(* All handlers but the last two run under one mutex.  A step is one       *)
(* system call or one helper command (mount, umount, mkfs, resize2fs),     *)
(* because the process can end, and an expansion or a look at the usage    *)
(* can run, between any two of them.  A call that the orchestrator has     *)
(* given up on is not cancelled: it waits for the mutex and runs later.    *)
(***************************************************************************)
EXTENDS Naturals, Sequences

CONSTANTS
  Volumes,        (* attached or attachable volumes, and their devices     *)
  BlockVolumes,   (* those with the block access type                      *)
  Pods,           (* pods; each has a target path for each volume          *)
  ReadOnlyPods,   (* pods whose publish requests say readonly              *)
  Global,         (* the staging path of a volume                          *)
  Calls,          (* gRPC calls                                            *)
  NoCall,         (* the mutex is free                                     *)
  Host,           (* the node's own disk, seen in a directory with no mount*)
  MountRootKnown, (* the kernel tells that a path is the root of a mount   *)
  MaxSize         (* bound on the size a device grows to                   *)

ASSUME NodeAssumption ==
  /\ BlockVolumes \subseteq Volumes
  /\ ReadOnlyPods \subseteq Pods
  /\ Global \notin Pods
  /\ NoCall \notin Calls
  /\ Host \notin Volumes
  /\ MountRootKnown \in BOOLEAN
  /\ MaxSize \in Nat \ {0}

VARIABLES
  req,            (* what each call asks for: operation, volume, place     *)
  pc,             (* where each call is                                    *)
  resp,           (* answer of each call                                   *)
  dev,            (* device an expansion works on or a usage is of         *)
  want,           (* the size of the file system that an OK of the call    *)
                  (* promises: that of the device when the call came, or   *)
                  (* 0 once the call has passed over the resize            *)
  mux,            (* holder of csiNS.mux                                   *)
  staged,         (* volumes the orchestrator has staged                   *)
  paths,          (* directories and files that exist                      *)
  mounts,         (* the mounts at each path, oldest first                 *)
  present,        (* devices the node sees                                 *)
  devSize,        (* size of each device                                   *)
  fsSize,         (* size of the file system on it; 0: unformatted         *)
  data,           (* volumes a pod has written to                          *)
  bare            (* history: usage calls whose path did not show the      *)
                  (* volume at some time of the call                       *)

callVars == <<req, pc, resp, dev, want, staged>>
nodeVars == <<paths, mounts, present, devSize, fsSize, data>>
vars     == <<callVars, mux, nodeVars, bare>>

Places == Pods \cup {Global}
Paths  == Volumes \X Places

Requests ==
  [op : {"stage", "unstage"}, vol : Volumes, at : {Global}]
    \cup [op : {"publish", "unpublish", "expand", "usage"}, vol : Volumes, at : Pods]

Inside ==
  {"begin", "stageDir", "stageCheck", "probe", "mkfs", "mkfsBlind", "mount",
   "resize", "target", "bind", "remount", "undo", "umount", "remove", "return"}

Expanding == {"expandCheck", "expandDevice", "expandResize"}

Reporting == {"usageCheck", "usageKind", "usageDevice", "usageFS"}

InFlight == Inside \cup Expanding \cup Reporting \cup {"lock"}

Mounts == [src : Volumes \cup {Host}, ro : BOOLEAN]

TypeOK ==
  /\ req \in [Calls -> Requests]
  /\ pc \in [Calls -> InFlight \cup {"idle", "done", "dead"}]
  /\ resp \in [Calls -> {"none", "ok", "error"}]
  /\ dev \in [Calls -> Volumes \cup {Host}]
  /\ want \in [Calls -> Nat]
  /\ mux \in Calls \cup {NoCall}
  /\ staged \in SUBSET Volumes
  /\ paths \in SUBSET Paths
  /\ mounts \in [Paths -> Seq(Mounts)]
  /\ present \in SUBSET Volumes
  /\ devSize \in [Volumes -> 1..MaxSize]
  /\ fsSize \in [Volumes -> 0..MaxSize]
  /\ data \in SUBSET Volumes
  /\ bare \in SUBSET Calls

-----------------------------------------------------------------------------
Path(c)    == <<req[c].vol, req[c].at>>
Staging(c) == <<req[c].vol, Global>>
IsBlock(c) == req[c].vol \in BlockVolumes
ReadOnly(c) == req[c].at \in ReadOnlyPods

(* A path in the mount table.                                              *)
Mounted(p) == Len(mounts[p]) > 0

(* What a path shows: the newest mount on it, or the node's own disk.      *)
Shown(p) == IF Mounted(p) THEN mounts[p][Len(mounts[p])].src ELSE Host

(* IsLikelyNotMountPoint, the other way round.  Where statx does not know  *)
(* the attribute MOUNT_ROOT, a path is a mount point if it is on another   *)
(* device than its parent directory, which is on the node's own disk.      *)
LooksMounted(p) == Mounted(p) /\ (MountRootKnown \/ Shown(p) # Host)

(* GetDeviceNameFromMount: the first line of /proc/mounts for the path.    *)
DeviceAt(p) == mounts[p][1].src

Go(c, place) == pc' = [pc EXCEPT ![c] = place]

(* Leave the handler; the deferred mux.Unlock is still to run.             *)
Answer(c, r) == Go(c, "return") /\ resp' = [resp EXCEPT ![c] = r]

(* A step that fails, and whose failure is the answer.                     *)
Fails(c, places) ==
  /\ pc[c] \in places
  /\ Answer(c, "error")
  /\ UNCHANGED <<req, dev, want, staged, mux, nodeVars>>

(* The call will not resize, so its OK promises no size.                   *)
PassOver(c) == want' = [want EXCEPT ![c] = 0]

Attach(p, m) == mounts' = [mounts EXCEPT ![p] = Append(@, m)]
Detach(p)    == mounts' = [mounts EXCEPT ![p] = SubSeq(@, 1, Len(@) - 1)]

(* A volume that was in use on another node brings its file system and its *)
(* data with it; one that an earlier process staged is mounted.            *)
Init ==
  /\ req \in [Calls -> Requests]
  /\ pc = [c \in Calls |-> "idle"]
  /\ resp = [c \in Calls |-> "none"]
  /\ dev = [c \in Calls |-> Host]
  /\ want = [c \in Calls |-> 0]
  /\ mux = NoCall
  /\ present \in SUBSET Volumes
  /\ devSize = [v \in Volumes |-> 1]
  /\ fsSize \in {f \in [Volumes -> {0, 1}] : \A v \in BlockVolumes : f[v] = 0}
  /\ data = {v \in Volumes : fsSize[v] > 0}
  /\ staged \in SUBSET {v \in present : v \in BlockVolumes \/ fsSize[v] > 0}
  /\ paths = {p \in Paths : p[1] \in staged \ BlockVolumes /\ p[2] = Global}
  /\ mounts = [p \in Paths |->
                IF p \in paths THEN <<[src |-> p[1], ro |-> FALSE]>> ELSE << >>]
  /\ bare = {}

-----------------------------------------------------------------------------
(* Entry and exit.                                                         *)

Unstaging(v) ==
  \E d \in Calls : req[d].op = "unstage" /\ req[d].vol = v /\ pc[d] \in InFlight

(* The orchestrator requests a publish, an expansion or a usage only of a  *)
(* volume that is staged and that it has not begun to unstage.             *)
Begin(c) ==
  /\ pc[c] = "idle"
  /\ req[c].op \in {"publish", "expand", "usage"} => req[c].vol \in staged
  /\ Go(c, CASE req[c].op = "expand" -> "expandCheck"
             [] req[c].op = "usage" -> "usageCheck"
             [] OTHER -> "lock")
  /\ want' = [want EXCEPT ![c] = IF req[c].op \in {"stage", "expand"}
                                 THEN devSize[req[c].vol] ELSE 0]
  /\ staged' = IF req[c].op = "unstage" THEN staged \ {req[c].vol} ELSE staged
  /\ UNCHANGED <<req, resp, dev, mux, nodeVars>>

Lock(c) ==
  /\ pc[c] = "lock"
  /\ mux = NoCall
  /\ mux' = c
  /\ Go(c, "begin")
  /\ UNCHANGED <<req, resp, dev, want, staged, nodeVars>>

Unlock(c) ==
  /\ pc[c] = "return"
  /\ Go(c, "done")
  /\ mux' = NoCall
  /\ staged' = IF /\ req[c].op = "stage" /\ resp[c] = "ok"
                  /\ ~Unstaging(req[c].vol)
               THEN staged \cup {req[c].vol} ELSE staged
  /\ UNCHANGED <<req, resp, dev, want, nodeVars>>

(* Invalid arguments, or the first look at a path or device fails.         *)
BeginFails(c) == Fails(c, {"begin"})

-----------------------------------------------------------------------------
(* NodeStageVolume.                                                        *)

StageBlock(c) ==
  /\ pc[c] = "begin" /\ req[c].op = "stage" /\ IsBlock(c)
  /\ Answer(c, "ok")
  /\ UNCHANGED <<req, dev, want, staged, mux, nodeVars>>

(* findDevicePathSource returns the path, whether or not it exists.        *)
StageFindsDevice(c) ==
  /\ pc[c] = "begin" /\ req[c].op = "stage" /\ ~IsBlock(c)
  /\ Go(c, "stageDir")
  /\ UNCHANGED <<req, resp, dev, want, staged, mux, nodeVars>>

StageMakesDir(c) ==
  /\ pc[c] = "stageDir"
  /\ paths' = paths \cup {Path(c)}
  /\ Go(c, "stageCheck")
  /\ UNCHANGED <<req, resp, dev, want, staged, mux, mounts, present, devSize,
                 fsSize, data>>

(* Mutant: an existing staging directory means "already staged".           *)
StageChecksDir(c) ==
  /\ pc[c] = "stageCheck"
  /\ Answer(c, "ok")
  /\ UNCHANGED <<req, dev, want, staged, mux, nodeVars>>

(* EvalSymlinks needs the device; an equal one means "already staged".     *)
StageChecksMount(c) ==
  /\ pc[c] = "stageCheck"
  /\ \/ /\ req[c].vol \in present /\ Mounted(Path(c))
        /\ DeviceAt(Path(c)) = req[c].vol
        /\ Answer(c, "ok")
        /\ PassOver(c)
     \/ /\ ~(/\ req[c].vol \in present /\ Mounted(Path(c))
             /\ DeviceAt(Path(c)) = req[c].vol)
        /\ Go(c, "probe")
        /\ UNCHANGED <<resp, want>>
  /\ UNCHANGED <<req, dev, staged, mux, nodeVars>>

(* Mutant: the disk is formatted without looking for a file system.        *)
ProbeNothing(c) ==
  /\ pc[c] = "probe"
  /\ Go(c, "mkfs")
  /\ UNCHANGED <<req, resp, dev, want, staged, mux, nodeVars>>

(* GetDiskFormat: blkid has one exit code for a disk with no file system   *)
(* ("mkfs") and for a device that is not there ("mkfsBlind").              *)
Probe(c) ==
  /\ pc[c] = "probe"
  /\ Go(c, IF req[c].vol \notin present THEN "mkfsBlind"
           ELSE IF fsSize[req[c].vol] > 0 THEN "mount" ELSE "mkfs")
  /\ UNCHANGED <<req, resp, dev, want, staged, mux, nodeVars>>

(* Mutant: the new file system is one block larger than the device.        *)
FormatTooLarge(c) ==
  /\ pc[c] \in {"mkfs", "mkfsBlind"}
  /\ req[c].vol \in present
  /\ fsSize' = [fsSize EXCEPT ![req[c].vol] = devSize[req[c].vol] + 1]
  /\ data' = data \ {req[c].vol}
  /\ Go(c, "mount")
  /\ UNCHANGED <<req, resp, dev, want, staged, mux, paths, mounts, present,
                 devSize>>

Format(c) ==
  /\ pc[c] \in {"mkfs", "mkfsBlind"}
  /\ req[c].vol \in present
  /\ fsSize' = [fsSize EXCEPT ![req[c].vol] = devSize[req[c].vol]]
  /\ data' = data \ {req[c].vol}
  /\ Go(c, "mount")
  /\ UNCHANGED <<req, resp, dev, want, staged, mux, paths, mounts, present,
                 devSize>>

(* The kernel refuses to mount a file system twice at one place.           *)
MountDevice(c) ==
  /\ pc[c] = "mount"
  /\ req[c].vol \in present /\ Path(c) \in paths
  /\ Shown(Path(c)) # req[c].vol
  /\ Attach(Path(c), [src |-> req[c].vol, ro |-> FALSE])
  /\ Go(c, "resize")
  /\ UNCHANGED <<req, resp, dev, want, staged, mux, paths, present, devSize,
                 fsSize, data>>

(* Mutant: the comparison of NeedResize is the wrong way round.            *)
ResizeLarger(c, v) ==
  /\ v \in present
  /\ fsSize' = [fsSize EXCEPT ![v] = IF @ > devSize[v] THEN devSize[v] ELSE @]
  /\ UNCHANGED want

(* NeedResize and Resize.  A device that blockdev reports read-only is     *)
(* left as it is, and that is a success.  The unit of a size is far above  *)
(* the one block by which NeedResize lets a file system be too small.      *)
Resize(c, v) ==
  /\ v \in present
  /\ \/ /\ fsSize' = [fsSize EXCEPT ![v] = IF @ > 0 THEN devSize[v] ELSE @]
        /\ UNCHANGED want
     \/ PassOver(c) /\ UNCHANGED fsSize

StageResizes(c) ==
  /\ pc[c] = "resize"
  /\ Resize(c, req[c].vol)
  /\ Answer(c, "ok")
  /\ UNCHANGED <<req, dev, staged, mux, paths, mounts, present, devSize, data>>

(* MakeDir, the look at the mount table, blkid, mkfs, fsck, mount or       *)
(* resize fails; what was done before stays.                               *)
StageFails(c) ==
  Fails(c, {"stageDir", "stageCheck", "probe", "mkfs", "mkfsBlind", "mount",
            "resize"})

-----------------------------------------------------------------------------
(* NodePublishVolume.                                                      *)

(* Mutant: an existing target path means "already mounted".                *)
PublishChecksPath(c) ==
  /\ pc[c] = "begin" /\ req[c].op = "publish"
  /\ \/ Path(c) \in paths /\ Answer(c, "ok")
     \/ Path(c) \notin paths /\ Go(c, "target") /\ UNCHANGED resp
  /\ UNCHANGED <<req, dev, want, staged, mux, nodeVars>>

(* Mutant: the target path is not looked at.                               *)
PublishLooksAway(c) ==
  /\ pc[c] = "begin" /\ req[c].op = "publish"
  /\ Go(c, "target")
  /\ UNCHANGED <<req, resp, dev, want, staged, mux, nodeVars>>

(* Anything seen to be mounted at the target path is taken for the volume. *)
PublishChecksTarget(c) ==
  /\ pc[c] = "begin" /\ req[c].op = "publish"
  /\ \/ LooksMounted(Path(c)) /\ Answer(c, "ok")
     \/ ~LooksMounted(Path(c)) /\ Go(c, "target") /\ UNCHANGED resp
  /\ UNCHANGED <<req, dev, want, staged, mux, nodeVars>>

(* MakeDir, or MakeFile for a block device.                                *)
PublishMakesTarget(c) ==
  /\ pc[c] = "target"
  /\ paths' = paths \cup {Path(c)}
  /\ Go(c, "bind")
  /\ UNCHANGED <<req, resp, dev, want, staged, mux, mounts, present, devSize,
                 fsSize, data>>

(* A bind mount is two mount commands: bind, then remount with the other   *)
(* options.  A file system is bound from the staging path, whatever that   *)
(* shows.                                                                  *)
Bind(c) ==
  /\ pc[c] = "bind"
  /\ \/ /\ IsBlock(c) /\ req[c].vol \in present
        /\ Attach(Path(c), [src |-> req[c].vol, ro |-> FALSE])
     \/ /\ ~IsBlock(c) /\ Staging(c) \in paths
        /\ Attach(Path(c), [src |-> Shown(Staging(c)), ro |-> FALSE])
  /\ Go(c, "remount")
  /\ UNCHANGED <<req, resp, dev, want, staged, mux, paths, present, devSize,
                 fsSize, data>>

(* The newest mount gets the option ro or rw.                              *)
WithOption(s, ro) == [s EXCEPT ![Len(s)] = [src |-> s[Len(s)].src, ro |-> ro]]

Remount(c) ==
  /\ pc[c] = "remount"
  /\ mounts' = [mounts EXCEPT ![Path(c)] = WithOption(@, ReadOnly(c))]
  /\ Answer(c, "ok")
  /\ UNCHANGED <<req, dev, want, staged, mux, paths, present, devSize, fsSize,
                 data>>

(* Mutant: the error of the second command is logged and forgotten.        *)
MountFailsSilently(c) ==
  /\ \/ pc[c] = "bind" /\ Go(c, "undo") /\ UNCHANGED resp
     \/ pc[c] = "remount" /\ Answer(c, "ok")
  /\ UNCHANGED <<req, dev, want, staged, mux, nodeVars>>

(* One of the two commands fails; Mount reports an error for both.         *)
MountFails(c) ==
  /\ pc[c] \in {"bind", "remount"}
  /\ Go(c, "undo")
  /\ UNCHANGED <<req, resp, dev, want, staged, mux, nodeVars>>

(* processMount unmounts what it sees there and removes the target;        *)
(* processMountForBlock only removes it.  A removal fails (PublishFails)   *)
(* while anything is mounted there.                                        *)
UndoMount(c) ==
  /\ pc[c] = "undo"
  /\ \/ /\ LooksMounted(Path(c)) /\ ~IsBlock(c)
        /\ Detach(Path(c))
        /\ \/ Len(mounts[Path(c)]) = 1 /\ paths' = paths \ {Path(c)}
           \/ UNCHANGED paths
     \/ /\ ~Mounted(Path(c))
        /\ paths' = paths \ {Path(c)}
        /\ UNCHANGED mounts
  /\ Answer(c, "error")
  /\ UNCHANGED <<req, dev, want, staged, mux, present, devSize, fsSize, data>>

PublishFails(c) == Fails(c, {"target", "undo"})

(* MakeFile fails; processMountForBlock removes what there is.             *)
MakeFileFails(c) ==
  /\ pc[c] = "target" /\ IsBlock(c)
  /\ paths' = paths \ {Path(c)}
  /\ Answer(c, "error")
  /\ UNCHANGED <<req, dev, want, staged, mux, mounts, present, devSize, fsSize,
                 data>>

-----------------------------------------------------------------------------
(* NodeUnpublishVolume and NodeUnstageVolume: CleanupMountPoint.           *)

(* Where umount reports a path that is not mounted as success              *)
(* (CanSafelySkipMountPointCheck) it is called without a look at the mount *)
(* table; elsewhere only for what looks like a mount point.  Both are      *)
(* possible here.                                                          *)
CleanupMountPoint(c) ==
  /\ pc[c] = "begin" /\ req[c].op \in {"unpublish", "unstage"}
  /\ \/ /\ Path(c) \notin paths
        /\ Answer(c, "ok")
     \/ /\ Path(c) \in paths
        /\ \/ Go(c, "umount")
           \/ ~LooksMounted(Path(c)) /\ Go(c, "remove")
        /\ UNCHANGED resp
  /\ UNCHANGED <<req, dev, want, staged, mux, nodeVars>>

Unmount(c) ==
  /\ pc[c] = "umount"
  /\ \/ Mounted(Path(c)) /\ Detach(Path(c))
     \/ ~Mounted(Path(c)) /\ UNCHANGED mounts
  /\ Go(c, "remove")
  /\ UNCHANGED <<req, resp, dev, want, staged, mux, paths, present, devSize,
                 fsSize, data>>

(* Mutant: the path is left in place after the unmount.                    *)
KeepPath(c) ==
  /\ pc[c] = "remove"
  /\ ~Mounted(Path(c))
  /\ Answer(c, "ok")
  /\ UNCHANGED <<req, dev, want, staged, mux, nodeVars>>

RemovePath(c) ==
  /\ pc[c] = "remove"
  /\ ~Mounted(Path(c))
  /\ paths' = paths \ {Path(c)}
  /\ Answer(c, "ok")
  /\ UNCHANGED <<req, dev, want, staged, mux, mounts, present, devSize, fsSize,
                 data>>

(* Busy, not empty, or still a mount point.                                *)
CleanupFails(c) == Fails(c, {"umount", "remove"})

-----------------------------------------------------------------------------
(* NodeExpandVolume, without the mutex: it ends at once.                   *)

End(c, r) == Go(c, "done") /\ resp' = [resp EXCEPT ![c] = r]

ExpandChecksPath(c) ==
  /\ pc[c] = "expandCheck"
  /\ \/ IsBlock(c) /\ End(c, "ok")
     \/ /\ ~IsBlock(c) /\ LooksMounted(Path(c))
        /\ Go(c, "expandDevice") /\ UNCHANGED resp
     \/ ~IsBlock(c) /\ ~LooksMounted(Path(c)) /\ End(c, "error")
  /\ UNCHANGED <<req, dev, want, staged, mux, nodeVars>>

ExpandFindsDevice(c) ==
  /\ pc[c] = "expandDevice"
  /\ \/ /\ Mounted(Path(c))
        /\ dev' = [dev EXCEPT ![c] = DeviceAt(Path(c))]
        /\ Go(c, "expandResize")
        /\ UNCHANGED resp
     \/ /\ ~Mounted(Path(c))
        /\ End(c, "error")
        /\ UNCHANGED dev
  /\ UNCHANGED <<req, want, staged, mux, nodeVars>>

ExpandResizes(c) ==
  /\ pc[c] = "expandResize"
  /\ \/ dev[c] # Host /\ Resize(c, dev[c])
     \/ dev[c] = Host /\ UNCHANGED <<fsSize, want>>
  /\ End(c, "ok")
  /\ UNCHANGED <<req, dev, staged, mux, paths, mounts, present, devSize, data>>

ExpandFails(c) ==
  /\ pc[c] \in Expanding
  /\ End(c, "error")
  /\ UNCHANGED <<req, dev, want, staged, mux, nodeVars>>

-----------------------------------------------------------------------------
(* NodeGetVolumeStats, without the mutex: three looks at the same path.    *)

(* IsDevicePathNotExist                                                    *)
UsageChecksPath(c) ==
  /\ pc[c] = "usageCheck"
  /\ \/ Path(c) \in paths /\ Go(c, "usageKind") /\ UNCHANGED resp
     \/ Path(c) \notin paths /\ End(c, "error")
  /\ UNCHANGED <<req, dev, want, staged, mux, nodeVars>>

(* A block target that is not mounted is a plain file.                     *)
ShowsDevice(p) == Mounted(p) /\ p[1] \in BlockVolumes

(* Mutant: every path is taken for one in a file system.                   *)
UsageAsksFS(c) ==
  /\ pc[c] = "usageKind"
  /\ Go(c, "usageFS")
  /\ UNCHANGED <<req, resp, dev, want, staged, mux, nodeVars>>

(* IsBlockDevice                                                           *)
UsageChecksKind(c) ==
  /\ pc[c] = "usageKind"
  /\ Path(c) \in paths
  /\ Go(c, IF ShowsDevice(Path(c)) THEN "usageDevice" ELSE "usageFS")
  /\ UNCHANGED <<req, resp, dev, want, staged, mux, nodeVars>>

(* DeviceInfo asks the device, FSInfo the file system the path is in: for  *)
(* a device file or a plain file that is one of the node's own.            *)
UsageReads(c) ==
  /\ pc[c] \in {"usageDevice", "usageFS"}
  /\ Path(c) \in paths
  /\ \/ /\ pc[c] = "usageDevice" /\ ShowsDevice(Path(c))
        /\ dev' = [dev EXCEPT ![c] = Shown(Path(c))]
     \/ /\ pc[c] = "usageFS"
        /\ dev' = [dev EXCEPT ![c] = IF IsBlock(c) THEN Host ELSE Shown(Path(c))]
  /\ End(c, "ok")
  /\ UNCHANGED <<req, want, staged, mux, nodeVars>>

(* The path vanished or changed its kind, or the call failed.              *)
UsageFails(c) ==
  /\ pc[c] \in Reporting
  /\ End(c, "error")
  /\ UNCHANGED <<req, dev, want, staged, mux, nodeVars>>

-----------------------------------------------------------------------------
(* The node, the pods, and the process.                                    *)

(* An attachment makes a device appear; it is detached when not mounted.   *)
DeviceAppears(v) ==
  /\ v \notin present
  /\ present' = present \cup {v}
  /\ UNCHANGED <<callVars, mux, paths, mounts, devSize, fsSize, data>>

DeviceVanishes(v) ==
  /\ v \in present
  /\ \A p \in Paths : \A i \in 1..Len(mounts[p]) : mounts[p][i].src # v
  /\ present' = present \ {v}
  /\ UNCHANGED <<callVars, mux, paths, mounts, devSize, fsSize, data>>

(* No node call looks at the size of a block volume.                       *)
DeviceGrows(v) ==
  /\ v \notin BlockVolumes /\ devSize[v] < MaxSize
  /\ devSize' = [devSize EXCEPT ![v] = @ + 1]
  /\ UNCHANGED <<callVars, mux, paths, mounts, present, fsSize, data>>

PodWrites(v) ==
  /\ v \notin data
  /\ \E p \in Paths : p[2] \in Pods /\ Shown(p) = v
  /\ data' = data \cup {v}
  /\ UNCHANGED <<callVars, mux, paths, mounts, present, devSize, fsSize>>

(* SIGTERM: os.Exit.  A new process starts with a free mutex.              *)
Exit ==
  /\ \E c \in Calls : pc[c] \in InFlight
  /\ pc' = [c \in Calls |-> IF pc[c] \in InFlight THEN "dead" ELSE pc[c]]
  /\ mux' = NoCall
  /\ UNCHANGED <<req, resp, dev, want, staged, nodeVars>>

StageStep(c) ==
  \/ StageBlock(c) \/ StageFindsDevice(c) \/ StageMakesDir(c)
  \/ StageChecksMount(c) \/ Probe(c) \/ Format(c) \/ MountDevice(c)
  \/ StageResizes(c) \/ StageFails(c)

PublishStep(c) ==
  \/ PublishChecksTarget(c) \/ PublishMakesTarget(c) \/ Bind(c) \/ Remount(c)
  \/ MountFails(c) \/ UndoMount(c) \/ PublishFails(c) \/ MakeFileFails(c)

CleanupStep(c) ==
  \/ CleanupMountPoint(c) \/ Unmount(c) \/ RemovePath(c) \/ CleanupFails(c)

ExpandStep(c) ==
  \/ ExpandChecksPath(c) \/ ExpandFindsDevice(c) \/ ExpandResizes(c)
  \/ ExpandFails(c)

UsageStep(c) ==
  \/ UsageChecksPath(c) \/ UsageChecksKind(c) \/ UsageReads(c) \/ UsageFails(c)

CallStep(c) ==
  \/ Begin(c) \/ Lock(c) \/ Unlock(c) \/ BeginFails(c)
  \/ StageStep(c) \/ PublishStep(c) \/ CleanupStep(c) \/ ExpandStep(c)
  \/ UsageStep(c)

NodeStep ==
  \E v \in Volumes :
    DeviceAppears(v) \/ DeviceVanishes(v) \/ DeviceGrows(v) \/ PodWrites(v)

(* What the history remembers of every state a usage call went through.    *)
Watch ==
  bare' = bare \cup {c \in Calls : pc[c] \in Reporting /\ Shown(Path(c)) # req[c].vol}

Next == ((\E c \in Calls : CallStep(c)) \/ NodeStep \/ Exit) /\ Watch

Spec == Init /\ [][Next]_vars

-----------------------------------------------------------------------------
(* Correctness.                                                            *)

Answered(c, op) == req[c].op = op /\ pc[c] = "return" /\ resp[c] = "ok"

(* No interleaving of retried, abandoned or interrupted calls mounts over  *)
(* a mount, which one unmount would not undo.  Exception: where statx does *)
(* not know MOUNT_ROOT, a publish does not see that a bare staging         *)
(* directory is bound at its target (node.go:142) and mounts over that.    *)
NoStackedMounts ==
  \A p \in Paths : \A i \in 1..(Len(mounts[p]) - 1) :
    ~MountRootKnown /\ mounts[p][i].src = Host /\ p[2] \in Pods

(* When NodeStageVolume answers OK for a file system, the staging path     *)
(* shows the volume, and the volume is formatted.                          *)
StageOKMeansMounted ==
  \A c \in Calls : Answered(c, "stage") /\ ~IsBlock(c) =>
    Shown(Path(c)) = req[c].vol /\ fsSize[req[c].vol] > 0

(* When NodeStageVolume answers OK for a file system, that is as large as  *)
(* the device was when the call came in, whatever expansions run meanwhile.*)
(* Exceptions (want is 0): the device is read-only, or the volume was      *)
(* found staged (node.go:282), be it by a call whose resize then failed.   *)
StageOKMeansSized ==
  \A c \in Calls : Answered(c, "stage") /\ ~IsBlock(c) =>
    fsSize[req[c].vol] >= want[c]

(* When NodePublishVolume answers OK, the target path is a mount point; a  *)
(* block target shows the volume's device.                                 *)
PublishOKMeansMounted ==
  \A c \in Calls : Answered(c, "publish") =>
    /\ Mounted(Path(c))
    /\ IsBlock(c) => Shown(Path(c)) = req[c].vol

(* When NodeUnpublishVolume or NodeUnstageVolume answers OK, nothing is    *)
(* mounted at the path and the path is gone, so that a bind mount of a     *)
(* staging path fails once the volume is unstaged.                         *)
CleanupOKMeansGone ==
  \A c \in Calls : Answered(c, "unpublish") \/ Answered(c, "unstage") =>
    Path(c) \notin paths /\ ~Mounted(Path(c))

(* An OK of NodeExpandVolume that found the volume's device means a file   *)
(* system as large as the device was when the call came in, although an    *)
(* unpublish, unstage or stage may run between its steps.  Exception       *)
(* (want is 0): the device is read-only, and NeedResize says no.           *)
ExpandOKMeansGrown ==
  \A c \in Calls :
    req[c].op = "expand" /\ pc[c] = "done" /\ resp[c] = "ok" /\ dev[c] # Host
      => dev[c] = req[c].vol /\ fsSize[req[c].vol] >= want[c]

(* The numbers of NodeGetVolumeStats are of the volume if the path showed  *)
(* it all through the call.  Exception: they are of the node's own disk if *)
(* the path was not mounted at some moment of the three looks, be it only  *)
(* at the first and mounted at the last (node.go:430).                     *)
UsageOKMeansVolume ==
  \A c \in Calls :
    req[c].op = "usage" /\ pc[c] = "done" /\ resp[c] = "ok" =>
      \/ dev[c] = req[c].vol
      \/ c \in bare /\ dev[c] = Host

(* An OK of a read-only NodePublishVolume means that the target path is    *)
(* mounted read-only, although bind and remount are two commands with      *)
(* failures and the end of the process between them.  Exception: an        *)
(* earlier publish of the target failed or died; what it left there is     *)
(* taken as it is ("Readonly MUST match" is still to do, node.go:154).     *)
PublishOKMeansReadOnly ==
  \A c \in Calls : Answered(c, "publish") /\ ReadOnly(c) =>
    \/ mounts[Path(c)][Len(mounts[Path(c)])].ro
    \/ \E d \in Calls : req[d] = req[c] /\ (pc[d] = "dead" \/ resp[d] = "error")

(* NodeStageVolume does not format away what a volume holds, be it from    *)
(* another node or written by a pod here, through any interleaving, retry  *)
(* or exit between the look for a file system and mkfs.  The one exception *)
(* is a look that found no device at all.                                  *)
DataSurvives ==
  [][\A v \in data \ data' :
       \E c \in Calls : pc[c] = "mkfsBlind" /\ req[c].vol = v]_vars

(* "FormatAndMount will format only if needed" (node.go:296): a call that  *)
(* is about to run mkfs on a device that is there finds no data on it.     *)
FormatsOnlyIfNeeded ==
  \A c \in Calls :
    pc[c] \in {"mkfs", "mkfsBlind"} /\ req[c].vol \in present =>
      req[c].vol \notin data

=============================================================================
