-------------------------- MODULE NodeServerProofs --------------------------
(***************************************************************************)
(* Safety of the node server for every set of volumes, pods and calls.     *)
(*                                                                         *)
(* The mount table and the paths change only under the mutex, so what a    *)
(* call inside it has seen of them stays true until it leaves.  Expansions *)
(* and usage reports run without the mutex; they rest on what no step of   *)
(* anybody takes back: a device never shrinks, a file system that is there *)
(* stays, and it always has the size the device had at some moment.        *)
(***************************************************************************)
EXTENDS NodeServer, SequenceTheorems, TLAPS

StagePlaces == {"stageDir", "stageCheck", "probe", "mkfs", "mkfsBlind", "mount", "resize"}

(* A call is in the code of its operation.                                 *)
Placed(c) ==
  /\ pc[c] \in StagePlaces => req[c].op = "stage" /\ ~IsBlock(c)
  /\ pc[c] \in {"target", "bind", "remount", "undo"} => req[c].op = "publish"
  /\ pc[c] \in {"umount", "remove"} => req[c].op \in {"unpublish", "unstage"}
  /\ pc[c] \in Inside \cup {"lock"} => req[c].op \notin {"expand", "usage"}
  /\ pc[c] \in Expanding => req[c].op = "expand"
  /\ pc[c] \in {"expandDevice", "expandResize"} => ~IsBlock(c)
  /\ pc[c] \in Reporting => req[c].op = "usage"

(* A call between Lock and Unlock holds the mutex.                         *)
Held(c) == pc[c] \in Inside => mux = c

(* What NodeStageVolume knows at each place.                               *)
StageKnows(c) ==
  /\ pc[c] = "mkfs" => fsSize[req[c].vol] = 0
  /\ pc[c] = "mount" => fsSize[req[c].vol] > 0
  /\ pc[c] = "resize" \/ (Answered(c, "stage") /\ ~IsBlock(c)) =>
       Shown(Path(c)) = req[c].vol /\ fsSize[req[c].vol] > 0

PublishKnows(c) ==
  /\ pc[c] \in {"target", "bind"} => ~LooksMounted(Path(c))
  /\ pc[c] = "bind" => Path(c) \in paths
  /\ pc[c] = "remount" \/ Answered(c, "publish") =>
       Mounted(Path(c)) /\ (IsBlock(c) => Shown(Path(c)) = req[c].vol)

CleanupKnows(c) ==
  Answered(c, "unpublish") \/ Answered(c, "unstage") =>
    Path(c) \notin paths /\ ~Mounted(Path(c))

(* NodeExpandVolume works on its volume or on nothing.                     *)
ExpandKnows(c) ==
  /\ want[c] <= devSize[req[c].vol]
  /\ dev[c] \in {req[c].vol, Host}
  /\ pc[c] \in {"idle", "expandCheck"} => dev[c] = Host
  /\ pc[c] = "expandResize" /\ dev[c] = req[c].vol => fsSize[req[c].vol] > 0
  /\ req[c].op = "expand" /\ pc[c] = "done" /\ resp[c] = "ok" /\ dev[c] # Host
       => fsSize[req[c].vol] >= want[c]

(* NodeStageVolume has resized, or promises nothing.                       *)
SizeKnows(c) ==
  Answered(c, "stage") /\ ~IsBlock(c) => fsSize[req[c].vol] >= want[c]

(* NodeGetVolumeStats asks the file system of a block target only if it    *)
(* saw no device there.                                                    *)
UsageKnows(c) ==
  /\ pc[c] = "usageFS" /\ IsBlock(c) => c \in bare
  /\ req[c].op = "usage" /\ pc[c] = "done" /\ resp[c] = "ok" =>
       dev[c] = req[c].vol \/ (c \in bare /\ dev[c] = Host)

CallInv(c) ==
  /\ Placed(c)
  /\ Held(c)
  /\ StageKnows(c)
  /\ PublishKnows(c)
  /\ CleanupKnows(c)
  /\ ExpandKnows(c)
  /\ SizeKnows(c)
  /\ UsageKnows(c)

(* What is mounted over is the node's disk, at the target of a pod's file  *)
(* system, and the kernel does not tell.                                   *)
BareBelow(p) ==
  /\ ~MountRootKnown
  /\ p[2] \in Pods /\ p[1] \notin BlockVolumes

Covered(p) ==
  \A i \in 1..(Len(mounts[p]) - 1) : BareBelow(p) /\ mounts[p][i].src = Host

(* The newest mount is on an existing path, of the path's own volume (or,  *)
(* for a pod's file system, of the node's disk), with a file system on it. *)
MountOK(p) ==
  /\ Covered(p)
  /\ Mounted(p) =>
       /\ p \in paths
       /\ Shown(p) \in {p[1], Host}
       /\ p[2] = Global \/ p[1] \in BlockVolumes => Shown(p) = p[1]
       /\ Shown(p) = p[1] /\ p[1] \notin BlockVolumes => fsSize[p[1]] > 0

(* What was written to a volume is in a file system.                       *)
DataOK == \A v \in data \ BlockVolumes : fsSize[v] > 0

IndInv ==
  /\ TypeOK
  /\ \A p \in Paths : MountOK(p)
  /\ DataOK
  /\ \A c \in Calls : CallInv(c)

(* What no step takes back.                                                *)
Evolves ==
  /\ \A v \in Volumes :
       /\ devSize[v] <= devSize'[v]
       /\ fsSize[v] > 0 => fsSize'[v] > 0
       /\ fsSize'[v] \in {fsSize[v], devSize[v]}
  /\ bare \subseteq bare'

(* A call that another actor's step leaves where it is, and, if it is      *)
(* inside the mutex, with the mount table it has seen.                     *)
Bystander(c) ==
  /\ req' = req
  /\ pc'[c] = pc[c] /\ resp'[c] = resp[c] /\ dev'[c] = dev[c] /\ want'[c] = want[c]
  /\ pc[c] \in Inside =>
       /\ UNCHANGED <<mux, paths, mounts>>
       /\ \A v \in Volumes : fsSize[v] = 0 => fsSize'[v] = 0

-----------------------------------------------------------------------------
(* The path a call works on.                                               *)
LEMMA PathTypes ==
  ASSUME TypeOK, NEW c \in Calls
  PROVE  /\ req[c].vol \in Volumes /\ req[c].vol # Host
         /\ Path(c) \in Paths /\ Path(c)[1] = req[c].vol /\ Path(c)[2] = req[c].at
         /\ Staging(c) \in Paths /\ Staging(c)[1] = req[c].vol /\ Staging(c)[2] = Global
         /\ req[c].op \in {"stage", "unstage"} => req[c].at = Global
         /\ req[c].op \in {"publish", "unpublish", "expand", "usage"} => req[c].at # Global
         /\ req[c].op \in {"stage", "unstage", "publish", "unpublish", "expand", "usage"}
<1>1. req[c] \in Requests
  BY DEF TypeOK
<1>2. /\ req[c].vol \in Volumes /\ req[c].at \in Places
      /\ req[c].op \in {"stage", "unstage"} => req[c].at = Global
      /\ req[c].op \in {"publish", "unpublish", "expand", "usage"} => req[c].at \in Pods
      /\ req[c].op \in {"stage", "unstage", "publish", "unpublish", "expand", "usage"}
  BY <1>1 DEF Requests, Places
<1> QED BY <1>2, NodeAssumption DEF Path, Staging, Paths, Places

(* A path with a mount has a newest one.                                   *)
LEMMA LastMount ==
  ASSUME TypeOK, NEW p \in Paths, Mounted(p)
  PROVE  /\ mounts[p] \in Seq(Mounts) /\ Len(mounts[p]) \in Nat /\ Len(mounts[p]) > 0
         /\ mounts[p][Len(mounts[p])] \in Mounts
         /\ Shown(p) = mounts[p][Len(mounts[p])].src
<1>1. mounts[p] \in Seq(Mounts) /\ Len(mounts[p]) > 0
  BY DEF TypeOK, Mounted
<1>2. Len(mounts[p]) \in 1..Len(mounts[p])
  BY <1>1
<1> QED BY <1>1, <1>2 DEF Shown

(* A mount on a path.                                                      *)
LEMMA Attached ==
  ASSUME TypeOK, NEW p \in Paths, NEW m \in Mounts, Attach(p, m)
  PROVE  /\ mounts' \in [Paths -> Seq(Mounts)]
         /\ Len(mounts'[p]) = Len(mounts[p]) + 1
         /\ \A i \in 1..Len(mounts[p]) : mounts'[p][i] = mounts[p][i]
         /\ Mounted(p)' /\ Shown(p)' = m.src
         /\ \A q \in Paths \ {p} : mounts'[q] = mounts[q]
<1>1. mounts[p] \in Seq(Mounts) /\ Len(mounts[p]) \in Nat
  BY DEF TypeOK
<1> DEFINE t == Append(mounts[p], m)
<1>2. /\ t \in Seq(Mounts) /\ Len(t) = Len(mounts[p]) + 1 /\ t[Len(mounts[p]) + 1] = m
      /\ \A i \in 1..Len(mounts[p]) : t[i] = mounts[p][i]
  BY <1>1
<1>3. mounts' = [mounts EXCEPT ![p] = t]
  BY DEF Attach
<1> HIDE DEF t
<1>4. /\ mounts' \in [Paths -> Seq(Mounts)] /\ mounts'[p] = t
      /\ \A q \in Paths \ {p} : mounts'[q] = mounts[q]
  BY <1>2, <1>3 DEF TypeOK
<1>5. Len(t) > 0 /\ t[Len(t)] = m
  BY <1>1, <1>2
<1>6. Mounted(p)' /\ Shown(p)' = m.src
  BY <1>4, <1>5 DEF Mounted, Shown
<1> QED BY <1>2, <1>4, <1>6

(* A mount on a path that is free, or covers the node's disk.              *)
LEMMA AttachedCovers ==
  ASSUME TypeOK, NEW p \in Paths, NEW m \in Mounts, Attach(p, m), Covered(p),
         Mounted(p) => BareBelow(p) /\ Shown(p) = Host
  PROVE  Covered(p)'
<1>1. /\ Len(mounts[p]) \in Nat /\ Len(mounts'[p]) = Len(mounts[p]) + 1
      /\ \A i \in 1..Len(mounts[p]) : mounts'[p][i] = mounts[p][i]
  BY Attached DEF TypeOK
<1>2. ASSUME NEW i \in 1..(Len(mounts'[p]) - 1)
      PROVE  BareBelow(p) /\ mounts'[p][i].src = Host
  <2>1. i \in 1..Len(mounts[p]) /\ Len(mounts[p]) > 0
    BY <1>1, <1>2
  <2>2. CASE i = Len(mounts[p])
    <3>1. Mounted(p)
      BY <2>1 DEF Mounted
    <3>2. mounts[p][i].src = Host
      BY <2>2, <3>1, LastMount
    <3> QED BY <1>1, <2>1, <3>1, <3>2
  <2>3. CASE i # Len(mounts[p])
    <3>1. i \in 1..(Len(mounts[p]) - 1)
      BY <1>1, <2>1, <2>3
    <3> QED BY <1>1, <2>1, <3>1 DEF Covered
  <2> QED BY <2>2, <2>3
<1> QED BY <1>2 DEF Covered, BareBelow

(* The unmount of the newest mount of a path.                              *)
LEMMA Detached ==
  ASSUME TypeOK, NEW p \in Paths, Covered(p), Mounted(p), Detach(p)
  PROVE  /\ mounts' \in [Paths -> Seq(Mounts)]
         /\ Len(mounts'[p]) = Len(mounts[p]) - 1
         /\ Covered(p)'
         /\ Mounted(p)' => BareBelow(p) /\ Shown(p)' = Host
         /\ \A q \in Paths \ {p} : mounts'[q] = mounts[q]
<1>1. mounts[p] \in Seq(Mounts) /\ Len(mounts[p]) \in Nat /\ Len(mounts[p]) > 0
  BY LastMount
<1> DEFINE n == Len(mounts[p]) - 1
           t == SubSeq(mounts[p], 1, n)
<1>2. n \in Nat /\ n <= Len(mounts[p])
  BY <1>1
<1>3. t \in Seq(Mounts) /\ Len(t) = n /\ \A i \in 1..n : t[i] = mounts[p][i]
  BY <1>1, <1>2
<1>4. mounts' = [mounts EXCEPT ![p] = t]
  BY DEF Detach
<1> HIDE DEF t
<1>5. /\ mounts' \in [Paths -> Seq(Mounts)] /\ mounts'[p] = t
      /\ \A q \in Paths \ {p} : mounts'[q] = mounts[q]
  BY <1>3, <1>4 DEF TypeOK
<1>6. \A i \in 1..n : BareBelow(p) /\ t[i].src = Host
  BY <1>3 DEF Covered
<1> HIDE DEF n
<1>7. Covered(p)'
  <2>1. \A i \in 1..(n - 1) : i \in 1..n
    BY <1>2
  <2> QED BY <1>3, <1>5, <1>6, <2>1 DEF Covered, BareBelow
<1>8. ASSUME Mounted(p)' PROVE BareBelow(p) /\ Shown(p)' = Host
  <2>1. n > 0
    BY <1>3, <1>5, <1>8 DEF Mounted
  <2>2. n \in 1..n
    BY <1>2, <2>1
  <2>3. Shown(p)' = t[n].src
    BY <1>3, <1>5, <1>8 DEF Shown
  <2> QED BY <1>6, <2>2, <2>3
<1>9. Len(mounts'[p]) = Len(mounts[p]) - 1
  BY <1>3, <1>5 DEF n
<1> QED BY <1>5, <1>7, <1>8, <1>9

(* The second command of a bind mount changes the options only.            *)
LEMMA Remounted ==
  ASSUME TypeOK, NEW p \in Paths, Covered(p), Mounted(p), NEW r \in BOOLEAN,
         mounts' = [mounts EXCEPT ![p] = WithOption(@, r)]
  PROVE  /\ mounts' \in [Paths -> Seq(Mounts)]
         /\ Covered(p)'
         /\ Mounted(p)' /\ Shown(p)' = Shown(p)
         /\ \A q \in Paths \ {p} : mounts'[q] = mounts[q]
<1> DEFINE s == mounts[p]
           n == Len(s)
           m == [src |-> s[n].src, ro |-> r]
           t == WithOption(s, r)
<1>1. /\ s \in Seq(Mounts) /\ n \in Nat /\ n > 0 /\ s[n] \in Mounts /\ n \in 1..n
      /\ Shown(p) = s[n].src
  BY LastMount
<1>2. m \in Mounts /\ m.src = s[n].src
  BY <1>1 DEF Mounts
<1>3. t = [s EXCEPT ![n] = m]
  BY <1>1 DEF WithOption
<1>4. mounts' = [mounts EXCEPT ![p] = t]
  OBVIOUS
<1>5. Covered(p) <=> \A i \in 1..(n - 1) : BareBelow(p) /\ s[i].src = Host
  BY DEF Covered
<1> HIDE DEF m, t
<1>6. /\ t \in Seq(Mounts) /\ Len(t) = n /\ t[n] = m
      /\ \A i \in 1..n : i # n => t[i] = s[i]
  BY <1>1, <1>2, <1>3, ExceptSeq
<1>7. /\ mounts' \in [Paths -> Seq(Mounts)] /\ mounts'[p] = t
      /\ \A q \in Paths \ {p} : mounts'[q] = mounts[q]
  BY <1>4, <1>6 DEF TypeOK
<1> HIDE DEF n, s
<1>8. Mounted(p)' /\ Shown(p)' = Shown(p)
  BY <1>1, <1>2, <1>6, <1>7 DEF Mounted, Shown
<1>9. Covered(p)'
  <2>1. \A i \in 1..(n - 1) : i \in 1..n /\ i # n
    BY <1>1
  <2>2. \A i \in 1..(n - 1) : BareBelow(p) /\ t[i].src = Host
    BY <1>5, <1>6, <2>1
  <2> QED BY <1>6, <1>7, <2>2 DEF Covered, BareBelow
<1> QED BY <1>7, <1>8, <1>9

(* What a path shows, and what /proc/mounts says first about it.           *)
LEMMA ShownIs ==
  ASSUME TypeOK, NEW p \in Paths, Covered(p)
  PROVE  /\ Mounted(p) => DeviceAt(p) \in {Shown(p), Host}
         /\ ~Mounted(p) => Shown(p) = Host
         /\ Shown(p) \in Volumes \cup {Host}
<1>1. CASE Mounted(p)
  <2>1. /\ Len(mounts[p]) \in Nat /\ Len(mounts[p]) > 0
        /\ mounts[p][Len(mounts[p])] \in Mounts
        /\ Shown(p) = mounts[p][Len(mounts[p])].src
    BY <1>1, LastMount
  <2>2. Shown(p) \in Volumes \cup {Host}
    BY <2>1 DEF Mounts
  <2>3. CASE Len(mounts[p]) = 1
    BY <1>1, <2>1, <2>2, <2>3 DEF DeviceAt
  <2>4. CASE Len(mounts[p]) # 1
    <3>1. \A n \in Nat : n > 0 /\ n # 1 => 1 \in 1..(n - 1)
      OBVIOUS
    <3>2. 1 \in 1..(Len(mounts[p]) - 1)
      BY <2>1, <2>4, <3>1, Zenon
    <3> QED BY <1>1, <2>2, <3>2 DEF DeviceAt, Covered
  <2> QED BY <2>3, <2>4
<1>2. CASE ~Mounted(p)
  BY <1>2 DEF Shown
<1> QED BY <1>1, <1>2

(* A publish that sees no mount mounts on a free path or over the node's   *)
(* disk.                                                                   *)
LEMMA UnseenMount ==
  ASSUME TypeOK, NEW p \in Paths, MountOK(p), ~LooksMounted(p)
  PROVE  Mounted(p) => BareBelow(p) /\ Shown(p) = Host
<1>1. p[1] \in Volumes /\ p[2] \in Pods \cup {Global}
  BY DEF Paths, Places
<1>2. ASSUME Mounted(p) PROVE ~MountRootKnown /\ Shown(p) = Host
  BY <1>2, NodeAssumption DEF LooksMounted
<1>3. ASSUME Mounted(p) PROVE p[2] # Global /\ p[1] \notin BlockVolumes
  BY <1>1, <1>2, <1>3, NodeAssumption DEF MountOK
<1> QED BY <1>1, <1>2, <1>3 DEF BareBelow

-----------------------------------------------------------------------------
(* Resize leaves an unformatted or read-only device alone and fills any    *)
(* other one.                                                              *)
LEMMA ResizeFacts ==
  ASSUME TypeOK, NEW c \in Calls, NEW v \in Volumes, Resize(c, v)
  PROVE  /\ fsSize' \in [Volumes -> 0..MaxSize]
         /\ want' \in [Calls -> Nat]
         /\ \A d \in Calls \ {c} : want'[d] = want[d]
         /\ \A w \in Volumes \ {v} : fsSize'[w] = fsSize[w]
         /\ \/ /\ fsSize'[v] = IF fsSize[v] > 0 THEN devSize[v] ELSE fsSize[v]
               /\ want' = want
            \/ fsSize' = fsSize /\ want'[c] = 0
<1>1. devSize[v] \in 0..MaxSize /\ fsSize[v] \in 0..MaxSize
  BY NodeAssumption DEF TypeOK
<1>2. \/ /\ fsSize' = [fsSize EXCEPT ![v] = IF fsSize[v] > 0 THEN devSize[v] ELSE fsSize[v]]
         /\ want' = want
      \/ fsSize' = fsSize /\ want' = [want EXCEPT ![c] = 0]
  BY DEF Resize, PassOver
<1>3. CASE /\ fsSize' = [fsSize EXCEPT ![v] = IF fsSize[v] > 0 THEN devSize[v] ELSE fsSize[v]]
           /\ want' = want
  BY <1>1, <1>3 DEF TypeOK
<1>4. CASE fsSize' = fsSize /\ want' = [want EXCEPT ![c] = 0]
  BY <1>4 DEF TypeOK
<1> QED BY <1>2, <1>3, <1>4

(* The steps inside the mutex that change the mount table.                 *)
LEMMA TableChange ==
  ASSUME IndInv, NEW c \in Calls
  PROVE  /\ MountDevice(c) =>
              /\ ~Mounted(Path(c)) /\ Path(c) \in paths
              /\ Attach(Path(c), [src |-> req[c].vol, ro |-> FALSE])
         /\ Bind(c) =>
              /\ ~LooksMounted(Path(c)) /\ Path(c) \in paths
              /\ \E src \in {req[c].vol, Host} :
                   /\ Attach(Path(c), [src |-> src, ro |-> FALSE])
                   /\ IsBlock(c) => src = req[c].vol
                   /\ src = req[c].vol /\ ~IsBlock(c) => fsSize[req[c].vol] > 0
<1>1. /\ MountOK(Path(c)) /\ MountOK(Staging(c)) /\ CallInv(c)
      /\ TypeOK
  BY PathTypes DEF IndInv
<1>2. ASSUME MountDevice(c) PROVE ~Mounted(Path(c))
  <2>1. Path(c)[2] = Global /\ Path(c)[1] = req[c].vol
    BY <1>1, <1>2, PathTypes DEF MountDevice, CallInv, Placed, StagePlaces
  <2> QED BY <1>1, <1>2, <2>1 DEF MountDevice, MountOK
<1>3. ASSUME Bind(c), ~IsBlock(c)
      PROVE  /\ Shown(Staging(c)) \in {req[c].vol, Host}
             /\ Shown(Staging(c)) = req[c].vol => fsSize[req[c].vol] > 0
  BY <1>1, <1>3, PathTypes, ShownIs DEF MountOK, IsBlock
<1>4. ASSUME Bind(c) PROVE ~LooksMounted(Path(c)) /\ Path(c) \in paths
  BY <1>1, <1>4 DEF Bind, CallInv, PublishKnows
<1>5. ASSUME Bind(c)
      PROVE  \E src \in {req[c].vol, Host} :
                   /\ Attach(Path(c), [src |-> src, ro |-> FALSE])
                   /\ IsBlock(c) => src = req[c].vol
                   /\ src = req[c].vol /\ ~IsBlock(c) => fsSize[req[c].vol] > 0
  BY <1>3, <1>5 DEF Bind
<1> QED BY <1>2, <1>4, <1>5 DEF MountDevice

(* Every step keeps the types.                                             *)
LEMMA TypeStep == IndInv /\ [Next]_vars => TypeOK'
<1> SUFFICES ASSUME IndInv, [Next]_vars PROVE TypeOK'
  OBVIOUS
<1>0. TypeOK /\ \A p \in Paths : MountOK(p)
  BY DEF IndInv
<1> USE <1>0, NodeAssumption DEF callVars, nodeVars
<1>1. ASSUME NEW c \in Calls, CallStep(c), Watch PROVE TypeOK'
  <2>0. /\ req[c].vol \in Volumes /\ Path(c) \in Paths /\ bare' \in SUBSET Calls
        /\ devSize[req[c].vol] \in 1..MaxSize
    BY <1>1, PathTypes DEF Watch, TypeOK
  <2> USE <1>1, <2>0 DEF TypeOK, Go, Answer, End, Fails, InFlight, Inside, Expanding, Reporting
  <2>1. CASE Begin(c) 
    <3>1. want' \in [Calls -> Nat] /\ staged' \in SUBSET Volumes
      BY <2>1 DEF Begin
    <3> QED BY <2>1, <3>1 DEF Begin
  <2>2. CASE Lock(c) \/ Unlock(c) \/ BeginFails(c)
    BY <2>2 DEF Lock, Unlock, BeginFails
  <2>3. CASE StageStep(c)
    <3>1. CASE StageBlock(c) \/ StageFindsDevice(c) \/ StageMakesDir(c)
      BY <3>1 DEF StageBlock, StageFindsDevice, StageMakesDir
    <3>6. CASE StageChecksMount(c)
      <4>1. want' \in [Calls -> Nat]
        BY <3>6 DEF StageChecksMount, PassOver
      <4>2. /\ pc' \in [Calls -> InFlight \cup {"idle", "done", "dead"}]
            /\ resp' \in [Calls -> {"none", "ok", "error"}]
        BY <3>6 DEF StageChecksMount
      <4> QED BY <3>6, <4>1, <4>2 DEF StageChecksMount
    <3>2. CASE Probe(c) \/ StageFails(c)
      BY <3>2 DEF Probe, StageFails
    <3>5. CASE Format(c)
      <4>1. fsSize' \in [Volumes -> 0..MaxSize]
        BY <3>5 DEF Format
      <4> QED BY <3>5, <4>1 DEF Format
    <3>3. CASE MountDevice(c)
      <4>1. [src |-> req[c].vol, ro |-> FALSE] \in Mounts
        BY DEF Mounts
      <4>2. mounts' \in [Paths -> Seq(Mounts)]
        BY <3>3, <4>1, TableChange, Attached
      <4> QED BY <3>3, <4>2 DEF MountDevice
    <3>4. CASE StageResizes(c)
      BY <3>4, ResizeFacts DEF StageResizes
    <3> QED BY <2>3, <3>1, <3>2, <3>3, <3>4, <3>5, <3>6 DEF StageStep
  <2>4. CASE PublishStep(c)
    <3>1. CASE PublishChecksTarget(c) \/ PublishMakesTarget(c) \/ MountFails(c)
      BY <3>1 DEF PublishChecksTarget, PublishMakesTarget, MountFails
    <3>2. CASE PublishFails(c) \/ MakeFileFails(c)
      BY <3>2 DEF PublishFails, MakeFileFails
    <3>3. CASE Bind(c)
      <4>1. \A src \in {req[c].vol, Host} : [src |-> src, ro |-> FALSE] \in Mounts
        BY DEF Mounts
      <4>2. mounts' \in [Paths -> Seq(Mounts)]
        BY <3>3, <4>1, TableChange, Attached
      <4> QED BY <3>3, <4>2 DEF Bind
    <3>4. CASE Remount(c)
      <4>1. Mounted(Path(c)) /\ ReadOnly(c) \in BOOLEAN
        BY <3>4 DEF Remount, IndInv, CallInv, PublishKnows, ReadOnly
      <4>2. mounts' \in [Paths -> Seq(Mounts)]
        BY <3>4, <4>1, Remounted DEF Remount, MountOK
      <4> QED BY <3>4, <4>2 DEF Remount
    <3>5. CASE UndoMount(c)
      <4>1. mounts' \in [Paths -> Seq(Mounts)] /\ paths' \in SUBSET Paths
        BY <3>5, Detached DEF UndoMount, LooksMounted, MountOK
      <4> QED BY <3>5, <4>1 DEF UndoMount
    <3> QED BY <2>4, <3>1, <3>2, <3>3, <3>4, <3>5 DEF PublishStep
  <2>5. CASE CleanupStep(c)
    <3>1. CASE CleanupMountPoint(c) \/ RemovePath(c) \/ CleanupFails(c)
      BY <3>1 DEF CleanupMountPoint, RemovePath, CleanupFails
    <3>2. CASE Unmount(c)
      <4>1. mounts' \in [Paths -> Seq(Mounts)]
        BY <3>2, Detached DEF Unmount, MountOK
      <4> QED BY <3>2, <4>1 DEF Unmount
    <3> QED BY <2>5, <3>1, <3>2 DEF CleanupStep
  <2>6. CASE ExpandStep(c)
    <3>1. CASE ExpandChecksPath(c) \/ ExpandFails(c)
      BY <3>1 DEF ExpandChecksPath, ExpandFails
    <3>2. CASE ExpandFindsDevice(c)
      <4>1. Mounted(Path(c)) => DeviceAt(Path(c)) \in Volumes \cup {Host}
        BY ShownIs DEF MountOK
      <4>2. dev' \in [Calls -> Volumes \cup {Host}]
        BY <3>2, <4>1 DEF ExpandFindsDevice
      <4>3. /\ pc' \in [Calls -> InFlight \cup {"idle", "done", "dead"}]
            /\ resp' \in [Calls -> {"none", "ok", "error"}]
        BY <3>2 DEF ExpandFindsDevice
      <4> QED BY <3>2, <4>2, <4>3 DEF ExpandFindsDevice
    <3>3. CASE ExpandResizes(c)
      <4>1. fsSize' \in [Volumes -> 0..MaxSize] /\ want' \in [Calls -> Nat]
        BY <3>3, ResizeFacts DEF ExpandResizes
      <4> QED BY <3>3, <4>1 DEF ExpandResizes
    <3> QED BY <2>6, <3>1, <3>2, <3>3 DEF ExpandStep
  <2>7. CASE UsageStep(c)
    <3>1. Shown(Path(c)) \in Volumes \cup {Host}
      BY ShownIs DEF MountOK
    <3>2. CASE UsageChecksPath(c) \/ UsageChecksKind(c) \/ UsageFails(c)
      BY <3>2 DEF UsageChecksPath, UsageChecksKind, UsageFails
    <3>3. CASE UsageReads(c)
      <4>1. dev' \in [Calls -> Volumes \cup {Host}]
        BY <3>1, <3>3 DEF UsageReads
      <4> QED BY <3>3, <4>1 DEF UsageReads
    <3> QED BY <2>7, <3>2, <3>3 DEF UsageStep
  <2> QED BY <2>1, <2>2, <2>3, <2>4, <2>5, <2>6, <2>7 DEF CallStep
<1>2. ASSUME NodeStep, Watch PROVE TypeOK'
  <2>1. PICK v \in Volumes :
          DeviceAppears(v) \/ DeviceVanishes(v) \/ DeviceGrows(v) \/ PodWrites(v)
    BY <1>2 DEF NodeStep
  <2>2. devSize' \in [Volumes -> 1..MaxSize]
    <3>1. CASE DeviceGrows(v)
      <4>1. devSize[v] + 1 \in 1..MaxSize
        BY <3>1 DEF DeviceGrows, TypeOK
      <4> QED BY <3>1, <4>1 DEF DeviceGrows, TypeOK
    <3> QED BY <2>1, <3>1 DEF DeviceAppears, DeviceVanishes, PodWrites, TypeOK
  <2> QED BY <1>2, <2>1, <2>2
          DEF DeviceAppears, DeviceVanishes, DeviceGrows, PodWrites, Watch, TypeOK
<1>3. ASSUME Exit, Watch PROVE TypeOK'
  BY <1>3 DEF Exit, Watch, TypeOK
<1>4. CASE UNCHANGED vars
  BY <1>4 DEF vars, TypeOK
<1> QED BY <1>1, <1>2, <1>3, <1>4 DEF Next

-----------------------------------------------------------------------------
(* Three steps of calls write a file system; the others keep them all.     *)
LEMMA FileSystems ==
  ASSUME NEW c \in Calls, CallStep(c)
  PROVE  /\ UNCHANGED <<req, devSize, present>>
         /\ Format(c) \/ UNCHANGED data
         /\ Format(c) \/ StageResizes(c) \/ ExpandResizes(c) \/ UNCHANGED fsSize
  BY DEF callVars, nodeVars, Fails, CallStep, Begin, Lock, Unlock, BeginFails, StageStep,
         StageBlock, StageFindsDevice, StageMakesDir, StageChecksMount, Probe, Format,
         MountDevice, StageResizes, StageFails, PublishStep, PublishChecksTarget,
         PublishMakesTarget, Bind, Remount, MountFails, UndoMount, PublishFails,
         MakeFileFails, CleanupStep, CleanupMountPoint, Unmount, RemovePath, CleanupFails,
         ExpandStep, ExpandChecksPath, ExpandFindsDevice, ExpandResizes, ExpandFails,
         UsageStep, UsageChecksPath, UsageChecksKind, UsageReads, UsageFails

(* A file system that is there stays, with the size of its device.         *)
LEMMA EvolvesStep == IndInv /\ [Next]_vars => Evolves
<1> SUFFICES ASSUME IndInv, [Next]_vars PROVE Evolves
  OBVIOUS
<1>0. TypeOK
  BY DEF IndInv
<1>1. bare \subseteq bare'
  BY DEF Next, Watch, vars
<1>2. ASSUME NEW v \in Volumes
      PROVE  /\ devSize[v] <= devSize'[v]
             /\ fsSize[v] > 0 => fsSize'[v] > 0
             /\ fsSize'[v] \in {fsSize[v], devSize[v]}
  <2>0. devSize[v] \in 1..MaxSize /\ fsSize[v] \in 0..MaxSize
    BY <1>0, <1>2 DEF TypeOK
  <2>1. ASSUME NEW c \in Calls, CallStep(c)
        PROVE  devSize'[v] = devSize[v] /\ fsSize'[v] \in {fsSize[v], devSize[v]}
    <3>1. CASE Format(c)
      BY <1>0, <2>1, <3>1, FileSystems DEF Format, TypeOK
    <3>2. CASE StageResizes(c)
      BY <1>0, <2>1, <3>2, FileSystems, ResizeFacts, PathTypes DEF StageResizes
    <3>3. CASE ExpandResizes(c)
      BY <1>0, <2>1, <3>3, FileSystems, ResizeFacts DEF ExpandResizes, TypeOK
    <3> QED BY <2>1, <3>1, <3>2, <3>3, FileSystems
  <2>2. ASSUME NodeStep
        PROVE  devSize'[v] \in {devSize[v], devSize[v] + 1} /\ fsSize'[v] = fsSize[v]
    BY <1>0, <2>2 DEF NodeStep, DeviceAppears, DeviceVanishes, DeviceGrows, PodWrites, TypeOK
  <2>3. CASE Exit \/ UNCHANGED vars
    BY <2>0, <2>3 DEF Exit, vars, nodeVars
  <2> QED BY <2>0, <2>1, <2>2, <2>3 DEF Next
<1> QED BY <1>1, <1>2 DEF Evolves

(* A call outside the mutex leaves the mount table alone and formats       *)
(* nothing.                                                                *)
LEMMA Outside ==
  ASSUME IndInv, NEW c \in Calls, CallStep(c), pc[c] \notin Inside
  PROVE  /\ UNCHANGED <<paths, mounts>>
         /\ mux' = mux \/ mux = NoCall
         /\ \A v \in Volumes : fsSize[v] = 0 => fsSize'[v] = 0
<1>1. \/ Begin(c) \/ Lock(c) \/ ExpandStep(c) \/ UsageStep(c)
  BY DEF Inside, CallStep, Unlock, BeginFails, Fails, StageStep,
         StageBlock, StageFindsDevice, StageMakesDir, StageChecksMount, Probe, Format,
         MountDevice, StageResizes, StageFails, PublishStep, PublishChecksTarget,
         PublishMakesTarget, Bind, Remount, MountFails, UndoMount, PublishFails,
         MakeFileFails, CleanupStep, CleanupMountPoint, Unmount, RemovePath, CleanupFails
<1>2. UNCHANGED <<paths, mounts>> /\ (mux' = mux \/ mux = NoCall)
  BY <1>1 DEF nodeVars, Begin, Lock, ExpandStep, ExpandChecksPath, ExpandFindsDevice,
              ExpandResizes, ExpandFails, UsageStep, UsageChecksPath, UsageChecksKind,
              UsageReads, UsageFails
<1>3. ASSUME NEW v \in Volumes, fsSize[v] = 0 PROVE fsSize'[v] = 0
  <2>1. CASE ExpandResizes(c)
    <3>1. TypeOK
      BY DEF IndInv
    <3> QED BY <1>3, <2>1, <3>1, ResizeFacts DEF ExpandResizes, TypeOK
  <2>2. ~Format(c) /\ ~StageResizes(c)
    BY DEF Format, StageResizes, Inside
  <2> QED BY <1>3, <2>1, <2>2, FileSystems
<1> QED BY <1>2, <1>3

(* A step of one call leaves the others where they are.                    *)
LEMMA OneCallMoves ==
  ASSUME TypeOK, NEW c \in Calls, CallStep(c), NEW d \in Calls \ {c}
  PROVE  /\ req' = req
         /\ pc'[d] = pc[d] /\ resp'[d] = resp[d] /\ dev'[d] = dev[d] /\ want'[d] = want[d]
<1>1. /\ pc' = [pc EXCEPT ![c] = pc'[c]]
      /\ resp' = [resp EXCEPT ![c] = resp'[c]]
      /\ dev' = [dev EXCEPT ![c] = dev'[c]]
      /\ want' = [want EXCEPT ![c] = want'[c]]
  <2> USE DEF TypeOK, Go, Answer, End, Fails, PassOver
  <2>1. CASE Begin(c) \/ Lock(c) \/ Unlock(c) \/ BeginFails(c)
    BY <2>1 DEF Begin, Lock, Unlock, BeginFails
  <2>2. CASE StageStep(c)
    BY <2>2 DEF StageStep, StageBlock, StageFindsDevice, StageMakesDir, StageChecksMount,
                Probe, Format, MountDevice, StageResizes, Resize, StageFails
  <2>3. CASE PublishStep(c)
    BY <2>3 DEF PublishStep, PublishChecksTarget, PublishMakesTarget, Bind, Remount,
                MountFails, UndoMount, PublishFails, MakeFileFails
  <2>4. CASE CleanupStep(c)
    BY <2>4 DEF CleanupStep, CleanupMountPoint, Unmount, RemovePath, CleanupFails
  <2>5. CASE ExpandStep(c)
    BY <2>5 DEF ExpandStep, ExpandChecksPath, ExpandFindsDevice, ExpandResizes, Resize, ExpandFails
  <2>6. CASE UsageStep(c)
    BY <2>6 DEF UsageStep, UsageChecksPath, UsageChecksKind, UsageReads, UsageFails
  <2> QED BY <2>1, <2>2, <2>3, <2>4, <2>5, <2>6 DEF CallStep
<1> QED BY <1>1, FileSystems DEF TypeOK

(* Whoever holds the mutex sees no other call change the mount table.      *)
LEMMA OthersStandBy ==
  ASSUME IndInv, NEW c \in Calls, CallStep(c), NEW d \in Calls \ {c}
  PROVE  Bystander(d)
<1>1. ASSUME pc[d] \in Inside
      PROVE  pc[c] \notin Inside /\ mux = d /\ mux # NoCall
  BY <1>1, NodeAssumption DEF IndInv, CallInv, Held
<1>2. TypeOK
  BY DEF IndInv
<1> QED BY <1>1, <1>2, OneCallMoves, Outside DEF Bystander

(* What a bystander knows stays true.                                      *)
LEMMA BystanderKeeps ==
  ASSUME IndInv, TypeOK', Evolves, NEW d \in Calls, Bystander(d)
  PROVE  CallInv(d)'
<1>0. /\ CallInv(d) /\ TypeOK
      /\ req[d].vol \in Volumes /\ devSize[req[d].vol] \in Nat /\ devSize'[req[d].vol] \in Nat
      /\ fsSize[req[d].vol] \in Nat /\ fsSize'[req[d].vol] \in Nat /\ want[d] \in Nat
  <2>1. CallInv(d) /\ TypeOK /\ req[d].vol \in Volumes
    BY PathTypes DEF IndInv
  <2>2. devSize[req[d].vol] \in Nat /\ fsSize[req[d].vol] \in Nat /\ want[d] \in Nat
    BY <2>1, NodeAssumption DEF TypeOK
  <2>3. devSize'[req[d].vol] \in Nat /\ fsSize'[req[d].vol] \in Nat
    BY <2>1, NodeAssumption DEF TypeOK
  <2> QED BY <2>1, <2>2, <2>3
<1>1. Placed(d)' /\ Held(d)'
  BY <1>0 DEF CallInv, Bystander, Placed, Held, IsBlock
<1>2. StageKnows(d)'
  BY <1>0 DEF CallInv, Bystander, Evolves, StageKnows, Answered, IsBlock, Shown, Mounted, Path,
              Inside
<1>3. PublishKnows(d)' /\ CleanupKnows(d)'
  BY <1>0 DEF CallInv, Bystander, PublishKnows, CleanupKnows, Answered, IsBlock, LooksMounted,
              Shown, Mounted, Path, Inside
<1>4. ExpandKnows(d)'
  BY <1>0 DEF CallInv, Bystander, Evolves, ExpandKnows
<1>6. SizeKnows(d)'
  BY <1>0 DEF CallInv, Bystander, Evolves, ExpandKnows, SizeKnows, Answered, IsBlock
<1>5. UsageKnows(d)'
  BY <1>0 DEF CallInv, Bystander, Evolves, UsageKnows, IsBlock
<1> QED BY <1>1, <1>2, <1>3, <1>4, <1>5, <1>6 DEF CallInv

(* A path whose mounts a step does not touch.                              *)
LEMMA MountKept ==
  ASSUME TypeOK, NEW p \in Paths, MountOK(p), Evolves, mounts'[p] = mounts[p],
         Mounted(p) => p \in paths'
  PROVE  MountOK(p)'
<1>1. p[1] \in Volumes
  BY DEF Paths
<1>2. Covered(p)'
  BY DEF MountOK, Covered, BareBelow
<1> QED BY <1>1, <1>2 DEF MountOK, Mounted, Shown, Evolves

(* The steps of calls that mount, unmount or remove a path.                *)
LEMMA TableOfCall ==
  ASSUME NEW c \in Calls, CallStep(c)
  PROVE  \/ MountDevice(c) \/ Bind(c) \/ Remount(c) \/ UndoMount(c) \/ Unmount(c)
         \/ MakeFileFails(c) \/ RemovePath(c)
         \/ UNCHANGED mounts /\ paths \subseteq paths'
  BY DEF callVars, nodeVars, Fails, CallStep, Begin, Lock, Unlock, BeginFails, StageStep,
         StageBlock, StageFindsDevice, StageMakesDir, StageChecksMount, Probe, Format,
         StageResizes, StageFails, PublishStep, PublishChecksTarget,
         PublishMakesTarget, MountFails, PublishFails,
         CleanupStep, CleanupMountPoint, CleanupFails,
         ExpandStep, ExpandChecksPath, ExpandFindsDevice, ExpandResizes, ExpandFails,
         UsageStep, UsageChecksPath, UsageChecksKind, UsageReads, UsageFails

(* No interleaving mounts over anything but the node's disk, or mounts     *)
(* what does not belong on a path.                                         *)
LEMMA MountStep ==
  ASSUME IndInv, [Next]_vars, Evolves, NEW p \in Paths
  PROVE  MountOK(p)'
<1>0. TypeOK /\ MountOK(p)
  BY DEF IndInv
<1>1. ASSUME NEW c \in Calls, CallStep(c) PROVE MountOK(p)'
  <2>0. /\ CallInv(c) /\ MountOK(Path(c)) /\ Path(c) \in Paths /\ req[c].vol \in Volumes
        /\ Path(c)[1] = req[c].vol /\ Path(c)[2] = req[c].at /\ req[c].vol # Host
    BY <1>0, PathTypes DEF IndInv
  <2>1. CASE p # Path(c)
    <3>1. mounts'[p] = mounts[p]
      BY <1>0, <1>1, <2>1, TableOfCall
      DEF TypeOK, MountDevice, Bind, Remount, UndoMount, Unmount, MakeFileFails, RemovePath,
          Attach, Detach
    <3>2. p \in paths => p \in paths'
      BY <1>1, <2>1, TableOfCall
      DEF MountDevice, Bind, Remount, UndoMount, Unmount, MakeFileFails, RemovePath
    <3> QED BY <1>0, <3>1, <3>2, MountKept DEF MountOK
  <2>2. CASE p = Path(c)
    <3>1. CASE MountDevice(c)
      <4>1. [src |-> req[c].vol, ro |-> FALSE] \in Mounts
        BY <2>0 DEF Mounts
      <4>2. /\ Attach(p, [src |-> req[c].vol, ro |-> FALSE]) /\ ~Mounted(p)
            /\ Covered(p)
        BY <1>0, <2>2, <3>1, TableChange DEF MountOK
      <4>4. Mounted(p)' /\ Shown(p)' = req[c].vol /\ Covered(p)'
        BY <1>0, <4>1, <4>2, Attached, AttachedCovers
      <4>3. fsSize[req[c].vol] > 0 /\ fsSize' = fsSize /\ p \in paths'
        BY <2>0, <2>2, <3>1 DEF MountDevice, CallInv, StageKnows
      <4> QED BY <2>0, <2>2, <4>3, <4>4 DEF MountOK
    <3>2. CASE Bind(c)
      <4>1. PICK src \in {req[c].vol, Host} :
              /\ Attach(Path(c), [src |-> src, ro |-> FALSE])
              /\ IsBlock(c) => src = req[c].vol
              /\ src = req[c].vol /\ ~IsBlock(c) => fsSize[req[c].vol] > 0
        BY <3>2, TableChange
      <4>2. [src |-> src, ro |-> FALSE] \in Mounts
        BY <2>0 DEF Mounts
      <4>5. ~LooksMounted(p) /\ Covered(p)
        BY <1>0, <2>2, <3>2, TableChange DEF MountOK
      <4>6. Mounted(p) => BareBelow(p) /\ Shown(p) = Host
        BY <1>0, <4>5, UnseenMount
      <4>3. Mounted(p)' /\ Shown(p)' = src /\ Covered(p)'
        BY <1>0, <2>2, <4>1, <4>2, <4>5, <4>6, Attached, AttachedCovers
      <4>4. p \in paths' /\ fsSize' = fsSize /\ p[2] # Global
        BY <1>0, <2>0, <2>2, <3>2, TableChange, PathTypes DEF Bind, CallInv, Placed
      <4> QED BY <2>0, <2>2, <4>1, <4>3, <4>4 DEF MountOK, IsBlock
    <3>3. CASE Remount(c)
      <4>1. Mounted(p) /\ ReadOnly(c) \in BOOLEAN
        BY <2>0, <2>2, <3>3 DEF Remount, CallInv, PublishKnows, ReadOnly
      <4>2. Covered(p)' /\ Shown(p)' = Shown(p) /\ Mounted(p)'
        BY <1>0, <2>2, <3>3, <4>1, Remounted DEF Remount, MountOK
      <4>3. UNCHANGED <<paths, fsSize>>
        BY <3>3 DEF Remount
      <4> QED BY <1>0, <4>1, <4>2, <4>3 DEF MountOK
    <3>4. CASE UndoMount(c) \/ Unmount(c)
      <4>1. CASE Mounted(p) /\ Detach(p)
        <5>1. /\ Covered(p)' /\ Len(mounts'[p]) = Len(mounts[p]) - 1
              /\ Mounted(p)' => BareBelow(p) /\ Shown(p)' = Host
          BY <1>0, <4>1, Detached DEF MountOK
        <5>2. Len(mounts[p]) = 1 => ~Mounted(p)'
          BY <5>1 DEF Mounted
        <5>3. Mounted(p)' => p \in paths'
          BY <1>0, <2>2, <3>4, <4>1, <5>2 DEF UndoMount, Unmount, MountOK, LooksMounted
        <5>4. p[1] \in Volumes /\ Global \notin Pods /\ Host \notin Volumes
          BY <2>0, <2>2, NodeAssumption
        <5> QED BY <5>1, <5>3, <5>4 DEF MountOK, BareBelow
      <4>2. CASE ~Mounted(p) /\ mounts' = mounts
        BY <1>0, <4>2, MountKept
      <4> QED BY <2>2, <3>4, <4>1, <4>2 DEF UndoMount, Unmount, LooksMounted
    <3>5. CASE MakeFileFails(c) \/ RemovePath(c)
      <4>1. ~Mounted(p) /\ mounts' = mounts
        <5>1. CASE MakeFileFails(c)
          <6>1. ~LooksMounted(p) /\ p[1] \in BlockVolumes
            BY <2>0, <2>2, <5>1 DEF MakeFileFails, CallInv, PublishKnows, IsBlock
          <6>2. ~Mounted(p)
            BY <1>0, <6>1, UnseenMount DEF BareBelow
          <6> QED BY <5>1, <6>2 DEF MakeFileFails
        <5>2. CASE RemovePath(c)
          BY <2>2, <5>2 DEF RemovePath
        <5> QED BY <3>5, <5>1, <5>2
      <4> QED BY <1>0, <4>1, MountKept
    <3>6. CASE UNCHANGED mounts /\ paths \subseteq paths'
      BY <1>0, <3>6, MountKept DEF MountOK
    <3> QED BY <1>1, <3>1, <3>2, <3>3, <3>4, <3>5, <3>6, TableOfCall
  <2> QED BY <2>1, <2>2
<1>2. CASE NodeStep \/ Exit \/ UNCHANGED vars
  <2>1. UNCHANGED <<paths, mounts>>
    BY <1>2 DEF NodeStep, DeviceAppears, DeviceVanishes, DeviceGrows, PodWrites, Exit, vars, nodeVars
  <2> QED BY <1>0, <2>1, MountKept DEF MountOK
<1> QED BY <1>1, <1>2 DEF Next

(* A pod writes only where it sees a file system, and mkfs of a disk that  *)
(* had none when it was looked at finds none.                              *)
LEMMA DataStep == IndInv /\ [Next]_vars /\ Evolves => DataOK'
<1> SUFFICES ASSUME IndInv, [Next]_vars, Evolves PROVE DataOK'
  OBVIOUS
<1>0. TypeOK /\ DataOK
  BY DEF IndInv
<1>1. ASSUME NEW c \in Calls, CallStep(c) PROVE data' \subseteq data
  BY <1>1, FileSystems DEF Format
<1>2. ASSUME NEW v \in Volumes, PodWrites(v), v \notin BlockVolumes PROVE fsSize[v] > 0
  <2>1. PICK p \in Paths : Shown(p) = v
    BY <1>2 DEF PodWrites
  <2>2. MountOK(p)
    BY DEF IndInv
  <2> QED BY <1>0, <1>2, <2>1, <2>2, ShownIs, NodeAssumption DEF MountOK
<1>3. ASSUME NodeStep, NEW v \in data' \ BlockVolumes PROVE fsSize[v] > 0
  BY <1>0, <1>2, <1>3
  DEF NodeStep, DeviceAppears, DeviceVanishes, DeviceGrows, PodWrites, DataOK
<1>4. CASE Exit \/ UNCHANGED vars
  BY <1>0, <1>4 DEF Exit, vars, nodeVars, DataOK
<1>5. data' \subseteq Volumes
  BY TypeStep DEF TypeOK
<1> QED BY <1>0, <1>1, <1>3, <1>4, <1>5 DEF Next, DataOK, Evolves

-----------------------------------------------------------------------------
(* A step of a call keeps it in the code of its operation.                 *)
LEMMA PlacedStep ==
  ASSUME IndInv, NEW c \in Calls, CallStep(c)
  PROVE  Placed(c)' /\ Held(c)'
<1>0. /\ TypeOK /\ Placed(c) /\ Held(c) /\ req' = req
      /\ req[c].op \in {"stage", "unstage", "publish", "unpublish", "expand", "usage"}
  BY PathTypes, FileSystems DEF IndInv, CallInv
<1> USE <1>0 DEF TypeOK, Placed, Held, StagePlaces, Inside, Expanding, Reporting, IsBlock,
             Go, Answer, End, Fails
<1>1. CASE Begin(c) \/ Lock(c) \/ Unlock(c) \/ BeginFails(c)
  BY <1>1 DEF Begin, Lock, Unlock, BeginFails
<1>2. CASE StageStep(c)
  BY <1>2 DEF StageStep, StageBlock, StageFindsDevice, StageMakesDir, StageChecksMount,
              Probe, Format, MountDevice, StageResizes, StageFails
<1>3. CASE PublishStep(c)
  BY <1>3 DEF PublishStep, PublishChecksTarget, PublishMakesTarget, Bind, Remount,
              MountFails, UndoMount, PublishFails, MakeFileFails
<1>4. CASE CleanupStep(c)
  BY <1>4 DEF CleanupStep, CleanupMountPoint, Unmount, RemovePath, CleanupFails
<1>5. CASE ExpandStep(c)
  BY <1>5 DEF ExpandStep, ExpandChecksPath, ExpandFindsDevice, ExpandResizes, ExpandFails
<1>6. CASE UsageStep(c)
  BY <1>6 DEF UsageStep, UsageChecksPath, UsageChecksKind, UsageReads, UsageFails
<1> QED BY <1>1, <1>2, <1>3, <1>4, <1>5, <1>6 DEF CallStep

(* Steps that answer with an error, or lead to a place nothing is known    *)
(* of, owe nothing to the table.                                           *)
LEMMA TableKnows ==
  ASSUME IndInv, Evolves, NEW c \in Calls, CallStep(c)
  PROVE  StageKnows(c)' /\ PublishKnows(c)' /\ CleanupKnows(c)'
<1>0. /\ TypeOK /\ CallInv(c) /\ MountOK(Path(c)) /\ req' = req
      /\ Path(c) \in Paths /\ Path(c)[1] = req[c].vol /\ Path(c)[2] = req[c].at
      /\ req[c].vol \in Volumes /\ req[c].vol # Host
      /\ req[c].op \in {"stage", "unstage"} => req[c].at = Global
      /\ devSize[req[c].vol] > 0
  BY PathTypes, FileSystems DEF IndInv, TypeOK
<1>1. Path(c)' = Path(c)
  BY <1>0 DEF Path
<1> USE <1>0, <1>1 DEF Go, Answer, End, Fails
<1>2. CASE Begin(c) \/ Lock(c) \/ Unlock(c) \/ BeginFails(c)
  BY <1>2 DEF Begin, Lock, Unlock, BeginFails, TypeOK, StageKnows, PublishKnows,
              CleanupKnows, Answered
<1>3. CASE StageStep(c)
  <2>0. req[c].op = "stage"
    BY <1>3 DEF StageStep, StageBlock, StageFindsDevice, StageMakesDir, StageChecksMount,
              Probe, Format, MountDevice, StageResizes, StageFails, CallInv, Placed, StagePlaces
  <2>1. CleanupKnows(c)'
    BY <2>0 DEF CleanupKnows, Answered
  <2>2. PublishKnows(c)'
    BY <1>3, <2>0
    DEF PublishKnows, Answered, TypeOK,
        StageStep, StageBlock, StageFindsDevice, StageMakesDir, StageChecksMount,
        Probe, Format, MountDevice, StageResizes, StageFails
  <2>3. StageKnows(c)'
    <3>1. CASE StageBlock(c) \/ StageFindsDevice(c) \/ StageMakesDir(c) \/ StageFails(c)
      BY <3>1 DEF StageBlock, StageFindsDevice, StageMakesDir, StageFails, TypeOK,
                  StageKnows, Answered, IsBlock
    <3>2. CASE StageChecksMount(c)
      <4>1. Mounted(Path(c)) /\ DeviceAt(Path(c)) = req[c].vol =>
              Shown(Path(c)) = req[c].vol /\ (~IsBlock(c) => fsSize[req[c].vol] > 0)
        BY ShownIs DEF MountOK, IsBlock
      <4>2. nodeVars' = nodeVars
        BY <3>2 DEF StageChecksMount
      <4>3. Shown(Path(c))' = Shown(Path(c))
        BY <4>2 DEF nodeVars, Shown, Mounted
      <4> QED BY <3>2, <4>1, <4>2, <4>3
              DEF StageChecksMount, nodeVars, TypeOK, StageKnows, Answered, IsBlock
    <3>3. CASE Probe(c)
      BY <3>3 DEF Probe, TypeOK, nodeVars, StageKnows, Answered
    <3>4. CASE Format(c)
      BY <3>4 DEF Format, TypeOK, StageKnows, Answered
    <3>5. CASE MountDevice(c)
      <4>1. [src |-> req[c].vol, ro |-> FALSE] \in Mounts
        BY DEF Mounts
      <4>2. Attach(Path(c), [src |-> req[c].vol, ro |-> FALSE])
        BY <3>5, TableChange
      <4>3. Shown(Path(c))' = req[c].vol
        BY <4>1, <4>2, Attached
      <4>4. fsSize[req[c].vol] > 0 /\ fsSize' = fsSize /\ pc'[c] = "resize"
        BY <3>5 DEF MountDevice, CallInv, StageKnows, TypeOK
      <4> QED BY <4>3, <4>4 DEF StageKnows, Answered
    <3>6. CASE StageResizes(c)
      <4>1. Shown(Path(c)) = req[c].vol /\ fsSize[req[c].vol] > 0 /\ mounts' = mounts
        BY <3>6 DEF StageResizes, CallInv, StageKnows
      <4>2. fsSize'[req[c].vol] > 0
        BY <4>1 DEF Evolves
      <4>3. Shown(Path(c))' = req[c].vol
        BY <4>1 DEF Shown, Mounted
      <4>4. pc'[c] = "return"
        BY <3>6 DEF StageResizes, TypeOK
      <4> QED BY <4>2, <4>3, <4>4 DEF StageKnows, Answered
    <3> QED BY <1>3, <3>1, <3>2, <3>3, <3>4, <3>5, <3>6 DEF StageStep
  <2> QED BY <2>1, <2>2, <2>3
<1>4. CASE PublishStep(c)
  <2>0. req[c].op = "publish"
    BY <1>4 DEF PublishStep, PublishChecksTarget, PublishMakesTarget, Bind, Remount,
              MountFails, UndoMount, PublishFails, MakeFileFails, CallInv, Placed
  <2>1. CleanupKnows(c)'
    BY <2>0 DEF CleanupKnows, Answered
  <2>2. StageKnows(c)'
    BY <1>4, <2>0
    DEF StageKnows, Answered, TypeOK, PublishStep, PublishChecksTarget, PublishMakesTarget,
        Bind, Remount, MountFails, UndoMount, PublishFails, MakeFileFails
  <2>3. PublishKnows(c)'
    <3>1. CASE PublishChecksTarget(c)
      <4>1. Mounted(Path(c)) /\ IsBlock(c) => Shown(Path(c)) = req[c].vol
        BY DEF MountOK, IsBlock
      <4>2. UNCHANGED nodeVars
        BY <3>1 DEF PublishChecksTarget
      <4>3. /\ Shown(Path(c))' = Shown(Path(c)) /\ (Mounted(Path(c))' <=> Mounted(Path(c)))
            /\ LooksMounted(Path(c))' <=> LooksMounted(Path(c))
        BY <4>2 DEF nodeVars, Shown, Mounted, LooksMounted
      <4>4. LooksMounted(Path(c)) => Mounted(Path(c))
        BY DEF LooksMounted
      <4> QED BY <3>1, <4>1, <4>3, <4>4
              DEF PublishChecksTarget, TypeOK, PublishKnows, Answered, IsBlock
    <3>2. CASE PublishMakesTarget(c)
      <4>1. ~LooksMounted(Path(c))'
        BY <3>2 DEF PublishMakesTarget, CallInv, PublishKnows, LooksMounted, Shown, Mounted
      <4> QED BY <3>2, <4>1 DEF PublishMakesTarget, TypeOK, PublishKnows, Answered
    <3>3. CASE Bind(c)
      <4>1. PICK src \in {req[c].vol, Host} :
              /\ Attach(Path(c), [src |-> src, ro |-> FALSE])
              /\ IsBlock(c) => src = req[c].vol
        BY <3>3, TableChange
      <4>2. [src |-> src, ro |-> FALSE] \in Mounts
        BY DEF Mounts
      <4>4. Mounted(Path(c))' /\ Shown(Path(c))' = src
        BY <4>1, <4>2, Attached
      <4>5. pc'[c] = "remount"
        BY <3>3 DEF Bind, TypeOK
      <4> QED BY <4>1, <4>4, <4>5 DEF PublishKnows, Answered, IsBlock
    <3>4. CASE Remount(c)
      <4>1. /\ Mounted(Path(c)) /\ ReadOnly(c) \in BOOLEAN
            /\ IsBlock(c) => Shown(Path(c)) = req[c].vol
        BY <3>4 DEF Remount, CallInv, PublishKnows, ReadOnly
      <4>4. Mounted(Path(c))' /\ Shown(Path(c))' = Shown(Path(c))
        BY <3>4, <4>1, Remounted DEF Remount, MountOK
      <4>5. pc'[c] = "return"
        BY <3>4 DEF Remount, TypeOK
      <4> QED BY <4>1, <4>4, <4>5 DEF PublishKnows, IsBlock
    <3>5. CASE MountFails(c) \/ UndoMount(c) \/ PublishFails(c) \/ MakeFileFails(c)
      BY <3>5 DEF MountFails, UndoMount, PublishFails, MakeFileFails, TypeOK,
                  PublishKnows, Answered
    <3> QED BY <1>4, <3>1, <3>2, <3>3, <3>4, <3>5 DEF PublishStep
  <2> QED BY <2>1, <2>2, <2>3
<1>5. CASE CleanupStep(c)
  <2>0. req[c].op \in {"unpublish", "unstage"}
    BY <1>5 DEF CleanupStep, CleanupMountPoint, Unmount, RemovePath, CleanupFails, CallInv, Placed
  <2>1. StageKnows(c)' /\ PublishKnows(c)'
    BY <1>5, <2>0
    DEF StageKnows, PublishKnows, Answered, TypeOK, CleanupStep, CleanupMountPoint, Unmount,
        RemovePath, CleanupFails
  <2>2. CleanupKnows(c)'
    <3>1. CASE CleanupMountPoint(c)
      BY <3>1 DEF CleanupMountPoint, TypeOK, nodeVars, MountOK, Mounted, CleanupKnows, Answered
    <3>2. CASE Unmount(c) \/ CleanupFails(c)
      BY <3>2 DEF Unmount, CleanupFails, TypeOK, CleanupKnows, Answered
    <3>3. CASE RemovePath(c)
      BY <3>3 DEF RemovePath, TypeOK, Mounted, CleanupKnows
    <3> QED BY <1>5, <3>1, <3>2, <3>3 DEF CleanupStep
  <2> QED BY <2>1, <2>2
<1>6. CASE ExpandStep(c)
  BY <1>6 DEF ExpandStep, ExpandChecksPath, ExpandFindsDevice, ExpandResizes, ExpandFails,
              TypeOK, StageKnows, PublishKnows, CleanupKnows, Answered
<1>7. CASE UsageStep(c)
  BY <1>7 DEF UsageStep, UsageChecksPath, UsageChecksKind, UsageReads, UsageFails,
              TypeOK, StageKnows, PublishKnows, CleanupKnows, Answered
<1> QED BY <1>2, <1>3, <1>4, <1>5, <1>6, <1>7 DEF CallStep

(* An expansion finds its own volume with a file system, or the node's     *)
(* disk, and makes the file system as large as the device is by then.      *)
LEMMA ExpandStepKnows ==
  ASSUME IndInv, TypeOK', Evolves, NEW c \in Calls, CallStep(c)
  PROVE  ExpandKnows(c)'
<1>0. /\ TypeOK /\ CallInv(c) /\ MountOK(Path(c)) /\ req' = req /\ devSize' = devSize
      /\ Path(c) \in Paths /\ Path(c)[1] = req[c].vol
      /\ req[c].vol \in Volumes /\ req[c].vol # Host
  BY PathTypes, FileSystems DEF IndInv
<1>1. /\ devSize[req[c].vol] \in Nat /\ fsSize[req[c].vol] \in Nat /\ want[c] \in Nat
      /\ fsSize'[req[c].vol] \in Nat
  BY <1>0, NodeAssumption DEF TypeOK
<1>2. /\ want[c] <= devSize[req[c].vol] /\ dev[c] \in {req[c].vol, Host}
      /\ pc[c] \in {"idle", "expandCheck"} => dev[c] = Host
      /\ pc[c] = "expandResize" /\ dev[c] = req[c].vol => fsSize[req[c].vol] > 0
  BY <1>0 DEF CallInv, ExpandKnows
<1>3. CASE ExpandStep(c)
  <2>2. CASE ExpandChecksPath(c) \/ ExpandFails(c)
    <3>1. dev' = dev /\ want' = want
      BY <2>2 DEF ExpandChecksPath, ExpandFails
    <3>2. \/ pc'[c] = "expandDevice"
          \/ pc'[c] = "done" /\ (resp'[c] = "ok" => pc[c] = "expandCheck")
      BY <1>0, <2>2 DEF ExpandChecksPath, ExpandFails, Go, End, TypeOK
    <3> QED BY <1>0, <1>2, <3>1, <3>2 DEF ExpandKnows
  <2>3. CASE ExpandFindsDevice(c)
    <3>1. /\ DeviceAt(Path(c)) \in {req[c].vol, Host} \/ ~Mounted(Path(c))
          /\ DeviceAt(Path(c)) = req[c].vol /\ Mounted(Path(c)) => fsSize[req[c].vol] > 0
      BY <1>0, <2>3, ShownIs DEF ExpandFindsDevice, CallInv, Placed, IsBlock, MountOK
    <3>2. \/ /\ dev'[c] \in {req[c].vol, Host}
             /\ pc'[c] = "expandResize"
             /\ dev'[c] = req[c].vol => fsSize[req[c].vol] > 0
          \/ dev' = dev /\ pc'[c] = "done" /\ resp'[c] = "error"
      BY <1>0, <2>3, <3>1 DEF ExpandFindsDevice, Go, End, TypeOK
    <3>3. fsSize' = fsSize /\ want' = want
      BY <2>3 DEF ExpandFindsDevice, nodeVars
    <3> QED BY <1>0, <1>2, <3>2, <3>3 DEF ExpandKnows
  <2>4. CASE ExpandResizes(c)
    <3>1. dev' = dev /\ pc'[c] = "done" /\ pc[c] = "expandResize"
      BY <1>0, <2>4 DEF ExpandResizes, Go, End, TypeOK
    <3>2. CASE dev[c] = Host
      <4>1. want' = want
        BY <2>4, <3>2 DEF ExpandResizes
      <4> QED BY <1>0, <1>2, <3>1, <3>2, <4>1 DEF ExpandKnows
    <3>3. CASE dev[c] # Host
      <4>1. Resize(c, req[c].vol) /\ fsSize[req[c].vol] > 0
        BY <1>2, <2>4, <3>1, <3>3 DEF ExpandResizes
      <4>2. \/ fsSize'[req[c].vol] = devSize[req[c].vol] /\ want'[c] = want[c]
            \/ want'[c] = 0
        BY <1>0, <4>1, ResizeFacts
      <4>3. fsSize'[req[c].vol] >= want'[c] /\ want'[c] <= devSize[req[c].vol]
        BY <1>1, <1>2, <4>2
      <4> QED BY <1>0, <1>2, <3>1, <4>3 DEF ExpandKnows
    <3> QED BY <3>2, <3>3
  <2> QED BY <1>3, <2>2, <2>3, <2>4 DEF ExpandStep
<1>4. CASE UsageStep(c)
  <2>1. Shown(Path(c)) \in {req[c].vol, Host}
    BY <1>0, ShownIs DEF MountOK
  <2>2. /\ want' = want /\ dev'[c] \in {req[c].vol, Host}
        /\ pc'[c] \notin {"idle", "expandCheck", "expandResize"}
        /\ req[c].op # "expand"
    BY <1>0, <1>2, <1>4, <2>1
    DEF UsageStep, UsageChecksPath, UsageChecksKind, UsageReads, UsageFails, Go, End, TypeOK,
        CallInv, Placed, Reporting
  <2> QED BY <1>0, <1>2, <2>2 DEF ExpandKnows
<1>5. CASE Begin(c)
  BY <1>0, <1>1, <1>2, <1>5 DEF Begin, Go, TypeOK, ExpandKnows
<1>6. CASE ~(ExpandStep(c) \/ UsageStep(c) \/ Begin(c))
  <2>1. dev' = dev /\ pc'[c] \notin {"idle", "expandCheck", "expandResize"}
    BY <1>0, <1>6
    DEF CallStep, TypeOK, Go, Answer, Fails, Lock, Unlock, BeginFails, StageStep,
        StageBlock, StageFindsDevice, StageMakesDir, StageChecksMount, Probe, Format,
        MountDevice, StageResizes, StageFails, PublishStep, PublishChecksTarget,
        PublishMakesTarget, Bind, Remount, MountFails, UndoMount, PublishFails,
        MakeFileFails, CleanupStep, CleanupMountPoint, Unmount, RemovePath, CleanupFails
  <2>2. req[c].op # "expand"
    BY <1>0, <1>6
    DEF CallStep, CallInv, Placed, Inside, Fails, Lock, Unlock, BeginFails, StageStep,
        StageBlock, StageFindsDevice, StageMakesDir, StageChecksMount, Probe, Format,
        MountDevice, StageResizes, StageFails, PublishStep, PublishChecksTarget,
        PublishMakesTarget, Bind, Remount, MountFails, UndoMount, PublishFails,
        MakeFileFails, CleanupStep, CleanupMountPoint, Unmount, RemovePath, CleanupFails
  <2>3. StageResizes(c) \/ want'[c] \in {want[c], 0}
    BY <1>0, <1>6
    DEF CallStep, TypeOK, PassOver, Fails, Lock, Unlock, BeginFails, StageStep,
        StageBlock, StageFindsDevice, StageMakesDir, StageChecksMount, Probe, Format,
        MountDevice, StageFails, PublishStep, PublishChecksTarget,
        PublishMakesTarget, Bind, Remount, MountFails, UndoMount, PublishFails,
        MakeFileFails, CleanupStep, CleanupMountPoint, Unmount, RemovePath, CleanupFails
  <2>4. StageResizes(c) => want'[c] \in {want[c], 0}
    BY <1>0, ResizeFacts DEF StageResizes
  <2>5. want'[c] <= devSize[req[c].vol]
    BY <1>1, <1>2, <2>3, <2>4
  <2> QED BY <1>0, <1>2, <2>1, <2>2, <2>5 DEF ExpandKnows
<1> QED BY <1>3, <1>4, <1>5, <1>6

(* An OK of NodeStageVolume comes from a resize or passes over it.         *)
LEMMA SizeStepKnows ==
  ASSUME IndInv, NEW c \in Calls, CallStep(c)
  PROVE  SizeKnows(c)'
<1>0. /\ TypeOK /\ CallInv(c) /\ req' = req
      /\ req[c].vol \in Volumes
  BY PathTypes, FileSystems DEF IndInv
<1>1. devSize[req[c].vol] \in Nat /\ fsSize[req[c].vol] \in Nat /\ want[c] \in Nat
  BY <1>0, NodeAssumption DEF TypeOK
<1>2. CASE StageResizes(c)
  <2>1. /\ Resize(c, req[c].vol) /\ fsSize[req[c].vol] > 0
        /\ want[c] <= devSize[req[c].vol]
    BY <1>0, <1>2 DEF StageResizes, CallInv, StageKnows, ExpandKnows
  <2>2. \/ fsSize'[req[c].vol] = devSize[req[c].vol] /\ want'[c] = want[c]
        \/ fsSize' = fsSize /\ want'[c] = 0
    BY <1>0, <2>1, ResizeFacts
  <2>3. fsSize'[req[c].vol] >= want'[c]
    BY <1>1, <2>1, <2>2
  <2> QED BY <1>0, <2>3 DEF SizeKnows
<1>3. CASE StageChecksMount(c)
  <2>1. \/ want'[c] = 0 /\ fsSize' = fsSize
        \/ pc'[c] = "probe"
    BY <1>0, <1>3 DEF StageChecksMount, PassOver, Go, nodeVars, TypeOK
  <2>2. \/ fsSize'[req[c].vol] >= want'[c]
        \/ pc'[c] = "probe"
    BY <1>1, <2>1
  <2> QED BY <1>0, <2>2 DEF SizeKnows, Answered
<1>4. CASE StageBlock(c)
  BY <1>0, <1>4 DEF StageBlock, SizeKnows, IsBlock
<1>5. CASE ~(StageResizes(c) \/ StageChecksMount(c) \/ StageBlock(c))
  <2>1. ~Answered(c, "stage")'
    BY <1>0, <1>5
    DEF CallStep, CallInv, Placed, Answered, Inside, Expanding, Reporting, TypeOK, Go, Answer,
        End, Fails, Begin, Lock, Unlock, BeginFails, StageStep,
        StageFindsDevice, StageMakesDir, Probe, Format,
        MountDevice, StageFails, PublishStep, PublishChecksTarget,
        PublishMakesTarget, Bind, Remount, MountFails, UndoMount, PublishFails,
        MakeFileFails, CleanupStep, CleanupMountPoint, Unmount, RemovePath, CleanupFails,
        ExpandStep, ExpandChecksPath, ExpandFindsDevice, ExpandResizes, ExpandFails,
        UsageStep, UsageChecksPath, UsageChecksKind, UsageReads, UsageFails
  <2> QED BY <2>1 DEF SizeKnows
<1> QED BY <1>2, <1>3, <1>4, <1>5

(* A usage call that is about to report something else than its volume has *)
(* been seen with a path that did not show it.                             *)
LEMMA UsageStepKnows ==
  ASSUME IndInv, NEW c \in Calls, CallStep(c), Watch
  PROVE  UsageKnows(c)'
<1>0. /\ TypeOK /\ CallInv(c) /\ MountOK(Path(c)) /\ req' = req
      /\ Path(c) \in Paths /\ Path(c)[1] = req[c].vol
      /\ req[c].vol \in Volumes /\ req[c].vol # Host
  BY PathTypes, FileSystems DEF IndInv
<1>1. CASE UsageStep(c)
  <2>1. pc[c] \in Reporting /\ Shown(Path(c)) # req[c].vol => c \in bare'
    BY DEF Watch
  <2>2. c \in bare => c \in bare'
    BY DEF Watch
  <2>3. /\ Shown(Path(c)) \in {req[c].vol, Host}
        /\ Mounted(Path(c)) /\ IsBlock(c) => Shown(Path(c)) = req[c].vol
        /\ ~Mounted(Path(c)) => Shown(Path(c)) = Host
    BY <1>0, ShownIs DEF MountOK, IsBlock
  <2>4. CASE UsageChecksPath(c) \/ UsageFails(c)
    BY <1>0, <2>4 DEF UsageChecksPath, UsageFails, Go, End, TypeOK, UsageKnows
  <2>5. CASE UsageChecksKind(c)
    <3>1. pc[c] \in Reporting /\ pc'[c] \in {"usageDevice", "usageFS"}
      BY <1>0, <2>5 DEF UsageChecksKind, Go, TypeOK, Reporting
    <3>2. pc'[c] = "usageFS" /\ IsBlock(c) => ~Mounted(Path(c))
      BY <1>0, <2>5 DEF UsageChecksKind, Go, TypeOK, ShowsDevice, IsBlock
    <3> QED BY <1>0, <2>1, <2>3, <3>1, <3>2 DEF UsageKnows, IsBlock
  <2>6. CASE UsageReads(c)
    <3>1. pc[c] \in Reporting /\ pc'[c] = "done"
      BY <1>0, <2>6 DEF UsageReads, Go, End, TypeOK, Reporting
    <3>2. CASE pc[c] = "usageDevice"
      <4>1. dev'[c] = req[c].vol
        BY <1>0, <2>3, <2>6, <3>2 DEF UsageReads, ShowsDevice, IsBlock, TypeOK
      <4> QED BY <1>0, <3>1, <4>1 DEF UsageKnows
    <3>3. CASE pc[c] = "usageFS"
      <4>1. IsBlock(c) => c \in bare
        BY <1>0, <3>3 DEF CallInv, UsageKnows
      <4>2. dev'[c] = IF IsBlock(c) THEN Host ELSE Shown(Path(c))
        BY <1>0, <2>6, <3>3 DEF UsageReads, TypeOK
      <4> QED BY <1>0, <2>1, <2>2, <2>3, <3>1, <4>1, <4>2 DEF UsageKnows
    <3> QED BY <2>6, <3>2, <3>3 DEF UsageReads
  <2> QED BY <1>1, <2>4, <2>5, <2>6 DEF UsageStep
<1>2. CASE Begin(c)
  BY <1>0, <1>2 DEF Begin, Go, TypeOK, UsageKnows
<1>3. CASE ~(UsageStep(c) \/ Begin(c))
  <2>1. req[c].op # "usage" /\ pc'[c] # "usageFS"
    BY <1>0, <1>3
    DEF CallStep, CallInv, Placed, Inside, Expanding, TypeOK, Go, Answer, End, Fails, Lock,
        Unlock, BeginFails, StageStep,
        StageBlock, StageFindsDevice, StageMakesDir, StageChecksMount, Probe, Format,
        MountDevice, StageResizes, StageFails, PublishStep, PublishChecksTarget,
        PublishMakesTarget, Bind, Remount, MountFails, UndoMount, PublishFails,
        MakeFileFails, CleanupStep, CleanupMountPoint, Unmount, RemovePath, CleanupFails,
        ExpandStep, ExpandChecksPath, ExpandFindsDevice, ExpandResizes, ExpandFails
  <2> QED BY <1>0, <2>1 DEF UsageKnows
<1> QED BY <1>1, <1>2, <1>3

-----------------------------------------------------------------------------
(* Who left a target that should be read-only writable: a publish that     *)
(* failed or died, or, for the newest mount, one that is not done with it. *)
Failed(d) == pc[d] = "dead" \/ resp[d] = "error"

Publishes(d, p) == req[d].op = "publish" /\ Path(d) = p

LeftBy(p, i, d) ==
  /\ Publishes(d, p)
  /\ Failed(d) \/ (i = Len(mounts[p]) /\ pc[d] \in {"remount", "undo"})

OptionOK(p) ==
  p[2] \in ReadOnlyPods =>
    \A i \in 1..Len(mounts[p]) : mounts[p][i].ro \/ \E d \in Calls : LeftBy(p, i, d)

Ended(d) == resp[d] = "error" => pc[d] \in {"return", "done", "dead"}

OptionInv == (\A p \in Paths : OptionOK(p)) /\ (\A d \in Calls : Ended(d))

(* A failed call stays failed; a publish is done with its mount when it    *)
(* has remounted it or failed.                                             *)
LEMMA FailedStays ==
  ASSUME IndInv, OptionInv, NEW c \in Calls, CallStep(c)
  PROVE  /\ Ended(c)'
         /\ Failed(c) => Failed(c)'
         /\ pc[c] \in {"remount", "undo"} =>
              Remount(c) \/ pc'[c] = "undo" \/ Failed(c)'
<1>0. TypeOK /\ Ended(c)
  BY DEF IndInv, OptionInv
<1> USE <1>0 DEF TypeOK, Ended, Failed, Go, Answer, End, Fails
<1>1. CASE Begin(c) \/ Lock(c) \/ Unlock(c) \/ BeginFails(c)
  BY <1>1 DEF Begin, Lock, Unlock, BeginFails
<1>2. CASE StageStep(c)
  BY <1>2 DEF StageStep, StageBlock, StageFindsDevice, StageMakesDir, StageChecksMount,
              Probe, Format, MountDevice, StageResizes, StageFails
<1>3. CASE PublishStep(c)
  BY <1>3 DEF PublishStep, PublishChecksTarget, PublishMakesTarget, Bind, Remount,
              MountFails, UndoMount, PublishFails, MakeFileFails
<1>4. CASE CleanupStep(c)
  BY <1>4 DEF CleanupStep, CleanupMountPoint, Unmount, RemovePath, CleanupFails
<1>5. CASE ExpandStep(c)
  BY <1>5 DEF ExpandStep, ExpandChecksPath, ExpandFindsDevice, ExpandResizes, ExpandFails
<1>6. CASE UsageStep(c)
  BY <1>6 DEF UsageStep, UsageChecksPath, UsageChecksKind, UsageReads, UsageFails
<1> QED BY <1>1, <1>2, <1>3, <1>4, <1>5, <1>6 DEF CallStep

(* Every step of a call, for the mounts on one path.                       *)
LEMMA OptionStep ==
  ASSUME IndInv, OptionInv, NEW c \in Calls, CallStep(c), NEW p \in Paths
  PROVE  OptionOK(p)'
<1>0. /\ TypeOK /\ OptionOK(p) /\ CallInv(c) /\ req' = req
      /\ Path(c) \in Paths /\ Path(c)' = Path(c) /\ mounts[p] \in Seq(Mounts)
      /\ Len(mounts[p]) \in Nat /\ MountOK(p)
  <2>1. TypeOK /\ req' = req
    BY FileSystems DEF IndInv
  <2>2. Path(c) \in Paths /\ Path(c)' = Path(c)
    BY <2>1, PathTypes DEF Path
  <2>3. mounts[p] \in Seq(Mounts)
    BY <2>1 DEF TypeOK
  <2>4. Len(mounts[p]) \in Nat
    BY <2>3, LenProperties
  <2> QED BY <2>1, <2>2, <2>3, <2>4 DEF IndInv, OptionInv
<1>1. \A d \in Calls : Failed(d) => Failed(d)'
  BY <1>0, FailedStays, OneCallMoves DEF Failed
<1>2. \A d \in Calls : Publishes(d, p) => Publishes(d, p)'
  BY <1>0 DEF Publishes, Path
<1>3. \A d \in Calls : d # c /\ pc[c] \in Inside => pc[d] \notin {"remount", "undo"}
  BY <1>0 DEF IndInv, CallInv, Held, Inside
<1>4. CASE mounts'[p] = mounts[p] /\ ~Remount(c)
  <2>1. ASSUME NEW i \in 1..Len(mounts[p]), NEW d \in Calls, LeftBy(p, i, d)
        PROVE  LeftBy(p, i, d)'
    <3>1. CASE Failed(d)
      BY <1>1, <1>2, <2>1, <3>1 DEF LeftBy
    <3>2. CASE pc[d] \in {"remount", "undo"} /\ d = c
      BY <1>2, <1>4, <2>1, <3>2, FailedStays DEF LeftBy
    <3>3. CASE ~Failed(d) /\ pc[d] \in {"remount", "undo"} /\ d # c
      <4>1. pc'[d] = pc[d]
        BY <1>0, <3>3, OneCallMoves
      <4>2. Publishes(d, p)' /\ i = Len(mounts'[p])
        BY <1>2, <1>4, <2>1, <3>3 DEF LeftBy
      <4> QED BY <3>3, <4>1, <4>2 DEF LeftBy
    <3> QED BY <2>1, <3>1, <3>2, <3>3 DEF LeftBy
  <2> QED BY <1>0, <1>4, <2>1 DEF OptionOK
<1>5. ASSUME p # Path(c) PROVE mounts'[p] = mounts[p]
  BY <1>0, <1>5, TableOfCall
  DEF TypeOK, MountDevice, Bind, Remount, UndoMount, Unmount, MakeFileFails, RemovePath,
      Attach, Detach
<1>6. ASSUME pc[c] \in Inside, pc[c] \notin {"remount", "undo"}, p[2] \in ReadOnlyPods,
             NEW i \in 1..Len(mounts[p]), ~mounts[p][i].ro
      PROVE  \E d \in Calls : Publishes(d, p)' /\ Failed(d)'
  BY <1>0, <1>1, <1>2, <1>3, <1>6 DEF OptionOK, LeftBy
<1>7. CASE Bind(c) /\ p = Path(c)
  <2>1. PICK src \in {req[c].vol, Host} : Attach(p, [src |-> src, ro |-> FALSE])
    BY <1>7, TableChange
  <2>2. [src |-> src, ro |-> FALSE] \in Mounts
    BY <1>0, PathTypes DEF Mounts
  <2>3. /\ Len(mounts'[p]) = Len(mounts[p]) + 1
        /\ \A i \in 1..Len(mounts[p]) : mounts'[p][i] = mounts[p][i]
    BY <1>0, <2>1, <2>2, Attached
  <2>4. pc[c] = "bind" /\ pc'[c] = "remount" /\ Publishes(c, p)'
    BY <1>0, <1>7 DEF Bind, Go, TypeOK, CallInv, Placed, Publishes
  <2>5. ASSUME NEW i \in 1..Len(mounts'[p]), p[2] \in ReadOnlyPods
        PROVE  mounts'[p][i].ro \/ \E d \in Calls : LeftBy(p, i, d)'
    <3>1. CASE i = Len(mounts'[p])
      BY <2>4, <3>1 DEF LeftBy
    <3>2. CASE i # Len(mounts'[p])
      <4>1. i \in 1..Len(mounts[p])
        BY <1>0, <2>3, <2>5, <3>2
      <4>2. pc[c] \in Inside /\ pc[c] \notin {"remount", "undo"}
        BY <2>4 DEF Inside
      <4> QED BY <1>6, <2>3, <2>5, <4>1, <4>2 DEF LeftBy
    <3> QED BY <3>1, <3>2
  <2> QED BY <2>5 DEF OptionOK
<1>8. CASE (UndoMount(c) \/ Unmount(c)) /\ p = Path(c) /\ Mounted(p) /\ Detach(p)
  <2>1. /\ Len(mounts'[p]) = Len(mounts[p]) - 1
        /\ \A i \in 1..Len(mounts'[p]) : mounts'[p][i] = mounts[p][i]
    <3> DEFINE n == Len(mounts[p]) - 1
               t == SubSeq(mounts[p], 1, n)
    <3>1. n \in Nat /\ n <= Len(mounts[p])
      BY <1>0, <1>8 DEF Mounted
    <3>2. Len(t) = n /\ \A i \in 1..n : t[i] = mounts[p][i]
      BY <1>0, <3>1
    <3>3. mounts'[p] = t
      BY <1>0, <1>8 DEF Detach, TypeOK
    <3> HIDE DEF n, t
    <3>4. Len(mounts'[p]) = n /\ \A i \in 1..Len(mounts'[p]) : mounts'[p][i] = mounts[p][i]
      BY <3>2, <3>3
    <3> QED BY <3>4 DEF n
  <2>2. ASSUME NEW i \in 1..Len(mounts'[p]), p[2] \in ReadOnlyPods, ~mounts'[p][i].ro
        PROVE  \E d \in Calls : Publishes(d, p)' /\ Failed(d)'
    <3>1. i \in 1..Len(mounts[p]) /\ i # Len(mounts[p])
      BY <1>0, <2>1, <2>2
    <3>2. PICK d \in Calls : LeftBy(p, i, d)
      BY <1>0, <2>1, <2>2, <3>1 DEF OptionOK
    <3> QED BY <1>1, <1>2, <3>1, <3>2 DEF LeftBy
  <2> QED BY <2>2 DEF OptionOK, LeftBy
<1>9. CASE Remount(c) /\ p = Path(c)
  <2>1. Mounted(p) /\ req[c].at = p[2] /\ pc[c] = "remount"
    BY <1>0, <1>9, PathTypes DEF Remount, CallInv, PublishKnows
  <2>2. ASSUME p[2] \in ReadOnlyPods
        PROVE  /\ Len(mounts'[p]) = Len(mounts[p])
               /\ mounts'[p][Len(mounts[p])].ro
               /\ \A i \in 1..Len(mounts[p]) : i # Len(mounts[p]) => mounts'[p][i] = mounts[p][i]
    <3> DEFINE q == mounts[p]
               n == Len(q)
               m == [src |-> q[n].src, ro |-> TRUE]
               t == [q EXCEPT ![n] = m]
    <3>1. q \in Seq(Mounts) /\ n \in Nat /\ n > 0 /\ n \in 1..n /\ q[n] \in Mounts
      BY <1>0, <2>1, LastMount
    <3>2. m \in Mounts /\ m.ro
      BY <3>1 DEF Mounts
    <3>3. mounts'[p] = t
      BY <1>0, <1>9, <2>1, <2>2 DEF Remount, WithOption, ReadOnly, TypeOK
    <3> HIDE DEF m
    <3>4. Len(t) = n /\ t[n] = m /\ \A i \in 1..n : i # n => t[i] = q[i]
      BY <3>1, <3>2, ExceptSeq
    <3> QED BY <3>2, <3>3, <3>4
  <2>3. ASSUME NEW i \in 1..Len(mounts'[p]), p[2] \in ReadOnlyPods, ~mounts'[p][i].ro
        PROVE  \E d \in Calls : Publishes(d, p)' /\ Failed(d)'
    <3>1. i \in 1..Len(mounts[p]) /\ i # Len(mounts[p]) /\ ~mounts[p][i].ro
      BY <2>2, <2>3
    <3>2. PICK d \in Calls : LeftBy(p, i, d)
      BY <1>0, <2>3, <3>1 DEF OptionOK
    <3> QED BY <1>1, <1>2, <3>1, <3>2 DEF LeftBy
  <2> QED BY <2>3 DEF OptionOK, LeftBy
<1>10. CASE MountDevice(c) /\ p = Path(c)
  <2>1. p[2] \notin ReadOnlyPods
    BY <1>0, <1>10, PathTypes, NodeAssumption DEF MountDevice, CallInv, Placed, StagePlaces
  <2> QED BY <2>1 DEF OptionOK
<1>11. CASE Remount(c) /\ p # Path(c)
  <2>1. ASSUME NEW i \in 1..Len(mounts[p]), NEW d \in Calls, LeftBy(p, i, d)
        PROVE  LeftBy(p, i, d)'
    <3>1. d # c
      BY <1>11, <2>1 DEF LeftBy, Publishes
    <3>2. Failed(d)
      BY <1>3, <1>11, <2>1, <3>1 DEF LeftBy, Remount, Inside
    <3> QED BY <1>1, <1>2, <2>1, <3>2 DEF LeftBy
  <2> QED BY <1>0, <1>5, <1>11, <2>1 DEF OptionOK
<1>12. CASE p = Path(c) /\ mounts'[p] # mounts[p]
  <2>1. \/ MountDevice(c) \/ Bind(c) \/ Remount(c)
        \/ (UndoMount(c) \/ Unmount(c)) /\ Mounted(p) /\ Detach(p)
    BY <1>12, TableOfCall DEF UndoMount, Unmount, MakeFileFails, RemovePath, LooksMounted
  <2> QED BY <1>7, <1>8, <1>9, <1>10, <1>12, <2>1
<1> QED BY <1>4, <1>5, <1>9, <1>11, <1>12

-----------------------------------------------------------------------------
(* The inductive invariant holds in every reachable state.                 *)
THEOREM Invariance == Spec => []IndInv
<1>1. Init => IndInv
  <2> SUFFICES ASSUME Init PROVE IndInv
    OBVIOUS
  <2>1. TypeOK
    <3>1. fsSize \in [Volumes -> 0..MaxSize] /\ devSize \in [Volumes -> 1..MaxSize]
      BY NodeAssumption DEF Init
    <3>2. ASSUME NEW p \in Paths
          PROVE  << >> \in Seq(Mounts) /\ <<[src |-> p[1], ro |-> FALSE]>> \in Seq(Mounts)
      <4>1. [src |-> p[1], ro |-> FALSE] \in Mounts
        BY DEF Mounts, Paths
      <4> QED BY <4>1
    <3>3. mounts \in [Paths -> Seq(Mounts)]
      BY <3>2 DEF Init
    <3>4. staged \in SUBSET Volumes /\ paths \in SUBSET Paths
      BY DEF Init
    <3>5. /\ req \in [Calls -> Requests] /\ present \in SUBSET Volumes /\ data \in SUBSET Volumes
          /\ pc \in [Calls -> InFlight \cup {"idle", "done", "dead"}]
          /\ resp \in [Calls -> {"none", "ok", "error"}] /\ dev \in [Calls -> Volumes \cup {Host}]
          /\ want \in [Calls -> Nat] /\ mux \in Calls \cup {NoCall} /\ bare \in SUBSET Calls
      BY DEF Init
    <3> QED BY <3>1, <3>3, <3>4, <3>5 DEF TypeOK
  <2>2. ASSUME NEW p \in Paths
        PROVE  /\ p \notin paths => mounts[p] = << >>
               /\ p \in paths =>
                    /\ mounts[p] = <<[src |-> p[1], ro |-> FALSE]>>
                    /\ p[1] \notin BlockVolumes /\ p[2] = Global /\ fsSize[p[1]] > 0
    BY DEF Init
  <2>3. ASSUME NEW p \in Paths PROVE MountOK(p)
    <3>1. CASE p \notin paths
      <4>1. Len(mounts[p]) = 0
        <5>1. mounts[p] = << >>
          BY <2>2, <3>1
        <5> QED BY <5>1
      <4> QED BY <4>1 DEF MountOK, Mounted, Covered
    <3>2. CASE p \in paths
      <4>1. Len(mounts[p]) = 1 /\ mounts[p][1].src = p[1]
        <5>1. mounts[p] = <<[src |-> p[1], ro |-> FALSE]>>
          BY <2>2, <3>2
        <5> QED BY <5>1
      <4>2. Mounted(p) /\ Shown(p) = p[1] /\ Covered(p)
        BY <4>1 DEF Mounted, Shown, Covered
      <4> QED BY <2>2, <3>2, <4>2 DEF MountOK
    <3> QED BY <3>1, <3>2
  <2>4. DataOK
    BY DEF Init, DataOK
  <2>5. ASSUME NEW c \in Calls PROVE CallInv(c)
    <3>1. /\ pc[c] = "idle" /\ resp[c] = "none" /\ dev[c] = Host /\ want[c] = 0
          /\ devSize[req[c].vol] = 1
      BY <2>1, PathTypes DEF Init
    <3>2. Placed(c) /\ Held(c)
      BY <3>1 DEF Placed, Held, StagePlaces, Inside, Expanding, Reporting
    <3>3. StageKnows(c) /\ PublishKnows(c) /\ CleanupKnows(c)
      BY <3>1 DEF StageKnows, PublishKnows, CleanupKnows, Answered
    <3>4. ExpandKnows(c) /\ SizeKnows(c) /\ UsageKnows(c)
      BY <3>1 DEF ExpandKnows, SizeKnows, UsageKnows, Answered
    <3> QED BY <3>2, <3>3, <3>4 DEF CallInv
  <2> QED BY <2>1, <2>3, <2>4, <2>5 DEF IndInv
<1>2. IndInv /\ [Next]_vars => IndInv'
  <2> SUFFICES ASSUME IndInv, [Next]_vars PROVE IndInv'
    OBVIOUS
  <2>1. Evolves /\ TypeOK' /\ DataOK'
    BY EvolvesStep, TypeStep, DataStep
  <2>2. \A p \in Paths : MountOK(p)'
    BY <2>1, MountStep
  <2>3. ASSUME NEW d \in Calls PROVE CallInv(d)'
    <3>1. ASSUME NEW c \in Calls, CallStep(c), Watch PROVE CallInv(d)'
      <4>1. CASE c = d
        BY <2>1, <3>1, <4>1, PlacedStep, TableKnows, ExpandStepKnows, SizeStepKnows,
           UsageStepKnows
        DEF CallInv
      <4>2. CASE c # d
        BY <2>1, <3>1, <4>2, OthersStandBy, BystanderKeeps
      <4> QED BY <4>1, <4>2
    <3>2. CASE NodeStep \/ UNCHANGED vars
      <4>1. Bystander(d)
        BY <3>2 DEF NodeStep, DeviceAppears, DeviceVanishes, DeviceGrows, PodWrites, vars,
                    callVars, nodeVars, Bystander
      <4> QED BY <2>1, <4>1, BystanderKeeps
    <3>3. ASSUME Exit, Watch PROVE CallInv(d)'
      <4>1. /\ UNCHANGED <<req, resp, dev, want, devSize, fsSize>> /\ bare \subseteq bare'
            /\ pc'[d] = "dead" \/ (pc'[d] = pc[d] /\ pc[d] \notin InFlight)
        BY <3>3 DEF Exit, Watch, IndInv, TypeOK, nodeVars
      <4>2. CallInv(d)
        BY DEF IndInv
      <4>3. Placed(d)' /\ Held(d)'
        BY <4>1 DEF Placed, Held, StagePlaces, Inside, Expanding, Reporting, InFlight
      <4>4. StageKnows(d)' /\ PublishKnows(d)' /\ CleanupKnows(d)'
        BY <4>1 DEF StageKnows, PublishKnows, CleanupKnows, Answered, InFlight, Inside
      <4>5. ExpandKnows(d)' /\ UsageKnows(d)'
        BY <4>1, <4>2 DEF CallInv, ExpandKnows, UsageKnows, IsBlock
      <4>6. SizeKnows(d)'
        BY <4>1 DEF SizeKnows, Answered, InFlight, Inside
      <4> QED BY <4>3, <4>4, <4>5, <4>6 DEF CallInv
    <3> QED BY <3>1, <3>2, <3>3 DEF Next
  <2> QED BY <2>1, <2>2, <2>3 DEF IndInv
<1> QED BY <1>1, <1>2, PTL DEF Spec

(* The calls, the mount table and the devices always have their types.     *)
THEOREM TypeCorrect == Spec => []TypeOK
<1>1. IndInv => TypeOK
  BY DEF IndInv
<1> QED BY <1>1, Invariance, PTL

(* Retried, abandoned and interrupted calls never mount over a mount       *)
(* (node.go:112, the one mutex of stage, publish, unpublish and unstage),  *)
(* but for a bind of the node's own disk that the kernel does not show.    *)
THEOREM MountsDoNotStack == Spec => []NoStackedMounts
<1>1. IndInv => NoStackedMounts
  BY DEF IndInv, MountOK, Covered, BareBelow, NoStackedMounts
<1> QED BY <1>1, Invariance, PTL

(* An OK of NodeStageVolume means that the staging path shows the volume   *)
(* with a file system on it.                                               *)
THEOREM StageIsSafe == Spec => []StageOKMeansMounted
<1>1. IndInv => StageOKMeansMounted
  BY DEF IndInv, CallInv, StageKnows, StageOKMeansMounted
<1> QED BY <1>1, Invariance, PTL

(* An OK of NodeStageVolume that resized means a file system as large as   *)
(* the device was when the call came in.                                   *)
THEOREM StageFillsDevice == Spec => []StageOKMeansSized
<1>1. IndInv => StageOKMeansSized
  BY DEF IndInv, CallInv, SizeKnows, StageOKMeansSized
<1> QED BY <1>1, Invariance, PTL

(* An OK of NodePublishVolume means that the target path is a mount point, *)
(* and a block target that of the volume's device.                         *)
THEOREM PublishIsSafe == Spec => []PublishOKMeansMounted
<1>1. IndInv => PublishOKMeansMounted
  BY DEF IndInv, CallInv, PublishKnows, PublishOKMeansMounted
<1> QED BY <1>1, Invariance, PTL

(* A target whose publish answered OK is writable against the request only *)
(* if an earlier publish of it failed or died between bind and remount     *)
(* (node.go:149, mount_linux.go of mount-utils, bind and remount).         *)
THEOREM ReadOnlyIsSafe == Spec => []PublishOKMeansReadOnly
<1>1. Init => OptionInv
  <2> SUFFICES ASSUME Init PROVE OptionInv
    OBVIOUS
  <2>1. ASSUME NEW p \in Paths, p[2] \in ReadOnlyPods PROVE Len(mounts[p]) = 0
    BY <2>1, NodeAssumption DEF Init
  <2>2. \A p \in Paths : OptionOK(p)
    BY <2>1 DEF OptionOK
  <2>3. \A d \in Calls : Ended(d)
    BY DEF Init, Ended
  <2> QED BY <2>2, <2>3 DEF OptionInv
<1>2. IndInv /\ OptionInv /\ [Next]_vars => OptionInv'
  <2> SUFFICES ASSUME IndInv, OptionInv, [Next]_vars PROVE OptionInv'
    OBVIOUS
  <2>0. TypeOK
    BY DEF IndInv
  <2>1. ASSUME NEW c \in Calls, CallStep(c) PROVE OptionInv'
    <3>1. \A p \in Paths : OptionOK(p)'
      BY <2>1, OptionStep
    <3>2. \A d \in Calls : Ended(d)'
      BY <2>0, <2>1, FailedStays, OneCallMoves DEF OptionInv, Ended
    <3> QED BY <3>1, <3>2 DEF OptionInv
  <2>2. CASE NodeStep \/ UNCHANGED vars
    <3>1. UNCHANGED <<req, pc, resp, mounts>>
      BY <2>2 DEF NodeStep, DeviceAppears, DeviceVanishes, DeviceGrows, PodWrites, vars,
                  callVars, nodeVars
    <3> QED BY <3>1 DEF OptionInv, OptionOK, LeftBy, Publishes, Failed, Ended, Path
  <2>3. CASE Exit
    <3>1. /\ UNCHANGED <<req, resp, mounts>>
          /\ \A d \in Calls : pc'[d] = "dead" \/ (pc'[d] = pc[d] /\ pc[d] \notin InFlight)
      BY <2>0, <2>3 DEF Exit, nodeVars, TypeOK
    <3>2. \A p \in Paths : \A i \in 1..Len(mounts[p]) : \A d \in Calls :
            LeftBy(p, i, d) => LeftBy(p, i, d)'
      BY <3>1 DEF LeftBy, Publishes, Failed, Path, InFlight, Inside
    <3>3. \A p \in Paths : OptionOK(p)'
      BY <3>1, <3>2 DEF OptionInv, OptionOK
    <3> QED BY <3>1, <3>3 DEF OptionInv, Ended
  <2> QED BY <2>1, <2>2, <2>3 DEF Next
<1>3. IndInv /\ OptionInv => PublishOKMeansReadOnly
  <2> SUFFICES ASSUME IndInv, OptionInv, NEW c \in Calls, Answered(c, "publish"), ReadOnly(c),
                      ~mounts[Path(c)][Len(mounts[Path(c)])].ro
               PROVE  \E d \in Calls :
                        req[d] = req[c] /\ (pc[d] = "dead" \/ resp[d] = "error")
    BY DEF PublishOKMeansReadOnly
  <2> DEFINE p == Path(c)
             n == Len(mounts[p])
  <2>1. TypeOK /\ CallInv(c) /\ p \in Paths /\ p[2] \in ReadOnlyPods
    BY PathTypes DEF IndInv, ReadOnly
  <2>2. Mounted(p)
    BY <2>1 DEF CallInv, PublishKnows
  <2>3. n \in 1..n
    BY <2>1, <2>2, LastMount
  <2>4. PICK d \in Calls : LeftBy(p, n, d)
    BY <2>1, <2>3 DEF OptionInv, OptionOK
  <2>5. Failed(d)
    BY <2>4 DEF LeftBy, IndInv, CallInv, Held, Inside, Answered
  <2>6. req[d] = req[c]
    <3>1. req[d].op = req[c].op /\ req[d].vol = req[c].vol /\ req[d].at = req[c].at
      BY <2>4 DEF LeftBy, Publishes, Path, Answered
    <3>2. req[c] \in Requests /\ req[d] \in Requests
      BY <2>1 DEF TypeOK
    <3> QED BY <3>1, <3>2 DEF Requests
  <2> QED BY <2>5, <2>6 DEF Failed
<1> QED BY <1>1, <1>2, <1>3, Invariance, PTL DEF Spec

(* An OK of NodeUnpublishVolume or NodeUnstageVolume means that the path   *)
(* and everything mounted on it are gone.                                  *)
THEOREM CleanupIsSafe == Spec => []CleanupOKMeansGone
<1>1. IndInv => CleanupOKMeansGone
  BY DEF IndInv, CallInv, CleanupKnows, CleanupOKMeansGone
<1> QED BY <1>1, Invariance, PTL

(* An OK of NodeExpandVolume that found a device means a file system of    *)
(* the volume as large as the device was when the call came in, unless     *)
(* the device is read-only.                                                *)
THEOREM ExpandIsSafe == Spec => []ExpandOKMeansGrown
<1>1. IndInv => ExpandOKMeansGrown
  BY DEF IndInv, CallInv, ExpandKnows, ExpandOKMeansGrown
<1> QED BY <1>1, Invariance, PTL

(* The numbers of NodeGetVolumeStats are of the volume, unless its path    *)
(* did not show it at some moment of the call.                             *)
THEOREM UsageIsSafe == Spec => []UsageOKMeansVolume
<1>1. IndInv => UsageOKMeansVolume
  BY DEF IndInv, CallInv, UsageKnows, UsageOKMeansVolume
<1> QED BY <1>1, Invariance, PTL

(* Data is lost only to an mkfs that followed a look at a device that was  *)
(* not there (mkfsBlind): no step between blkid and mkfs of another call,  *)
(* a pod or an expansion can put data where blkid saw no file system.      *)
THEOREM DataIsKept == Spec => DataSurvives
<1>1. ASSUME IndInv, [Next]_vars, NEW v \in data \ data'
      PROVE  \E c \in Calls : pc[c] = "mkfsBlind" /\ req[c].vol = v
  <2>1. PICK c \in Calls : Format(c)
    BY <1>1, FileSystems
    DEF Next, NodeStep, DeviceAppears, DeviceVanishes, DeviceGrows, PodWrites, Exit, vars, nodeVars
  <2>2. req[c].vol = v
    BY <1>1, <2>1 DEF Format
  <2>3. pc[c] = "mkfs" => fsSize[v] = 0 /\ v \notin BlockVolumes
    BY <1>1, <2>2 DEF IndInv, CallInv, StageKnows, Placed, StagePlaces, IsBlock
  <2>4. pc[c] # "mkfs"
    BY <1>1, <2>3 DEF IndInv, DataOK
  <2> QED BY <2>1, <2>2, <2>4 DEF Format
<1>2. IndInv /\ [Next]_vars =>
        [\A v \in data \ data' : \E c \in Calls : pc[c] = "mkfsBlind" /\ req[c].vol = v]_vars
  BY <1>1
<1> QED BY <1>2, Invariance, PTL DEF Spec, DataSurvives
=============================================================================
