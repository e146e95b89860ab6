----------------------------- MODULE AttachDetach -----------------------------
(***************************************************************************)
(* ControllerPublishVolume and ControllerUnpublishVolume of the CSI        *)
(* controller server, the per-node LockStore that serialises them, the VPC *)
(* provider's attach / wait-for-attach / detach / wait-for-detach loops    *)
(* and the attachment records of the VPC backend they poll and change.     *)
(*                                                                         *)
(* Every gRPC call runs in its own goroutine, so each element of Calls is  *)
(* a process.  A step is one request to the VPC API, or one entry to or    *)
(* exit from the lock.  The requests that GetVolumeAttachment repeats by   *)
(* itself are one step: a read that either answers or, in the end, fails.  *)
(***************************************************************************)
EXTENDS Naturals

CONSTANTS
  Nodes,          (* worker instances; the lock store has one mutex each   *)
  Volumes,        (* volume IDs                                            *)
  Calls,          (* gRPC calls the container orchestrator issues          *)
  AttIDs,         (* attachment IDs the backend can hand out               *)
  NoCall,         (* a node's mutex is free                                *)
  NoID,           (* a call knows no attachment ID                         *)
  LockEnabled,    (* the flag -lock_enabled (default true)                 *)
  MaxAttempts,    (* attempts of FlexyRetry (configured, default 10)       *)
  MaxPolls        (* last index of FlexyRetryWithCustomGap (default 46)    *)

ASSUME ConstantsAssumption ==
  /\ NoCall \notin Calls
  /\ NoID \notin AttIDs
  /\ LockEnabled \in BOOLEAN
  /\ MaxAttempts \in Nat \ {0}
  /\ MaxPolls \in Nat

VARIABLES
  req,            (* what each call asks for: operation, volume, node      *)
  pc,             (* where each call is                                    *)
  tries,          (* the index i of the retry loop a call is in            *)
  attID,          (* the attachment ID a call last read                    *)
  resp,           (* the answer of a call                                  *)
  lock,           (* holder of each node's mutex in the LockStore          *)
  exists,         (* backend: volumes that exist                           *)
  status,         (* backend: status of each attachment                    *)
  target,         (* backend: <<volume, node>> of each attachment          *)
  lateAttach,     (* attach requests that timed out but may still arrive   *)
  lateDetach,     (* attachments with a detach request that timed out      *)
  lateMade,       (* history: attachments made by a late attach request    *)
  masked          (* history: calls that took an API failure for "absent"  *)

callVars    == <<req, pc, tries, attID, resp, masked>>
backendVars == <<exists, status, target, lateAttach, lateDetach, lateMade>>
vars        == <<callVars, lock, backendVars>>

Requests == [op : {"publish", "unpublish"}, vol : Volumes, node : Nodes]
Pairs    == Volumes \X Nodes
NoTarget == << >>

(* Places of a call while it owns its node: between Lock and Unlock.       *)
Inside ==
  {"session", "check", "attachFind", "attach", "waitAttach",
   "detachFind", "detach", "waitDetach", "return"}

InFlight == Inside \cup {"lock"}

PCs == InFlight \cup {"idle", "done", "dead"}

Statuses == {"none", "attaching", "attached", "detaching", "gone"}

TypeOK ==
  /\ req \in [Calls -> Requests]
  /\ pc \in [Calls -> PCs]
  /\ tries \in [Calls -> Nat]
  /\ attID \in [Calls -> AttIDs \cup {NoID}]
  /\ resp \in [Calls -> {"none", "ok", "error"}]
  /\ lock \in [Nodes -> Calls \cup {NoCall}]
  /\ exists \in SUBSET Volumes
  /\ status \in [AttIDs -> Statuses]
  /\ target \in [AttIDs -> Pairs \cup {NoTarget}]
  /\ lateAttach \in SUBSET Pairs
  /\ lateDetach \in SUBSET AttIDs
  /\ lateMade \in SUBSET AttIDs
  /\ masked \in SUBSET Calls

-----------------------------------------------------------------------------
(* The requests, and what a call sees of the backend.                      *)

Pair(c) == <<req[c].vol, req[c].node>>

Live(id) == status[id] \in {"attaching", "attached", "detaching"}

(* Mutant: the list is filtered by volume but not taken of one instance.   *)
AttachmentsOfVolume(p) == {id \in AttIDs : Live(id) /\ target[id][1] = p[1]}

(* ListVolumeAttachments of the instance, filtered by the volume's ID.     *)
AttachmentsOf(p) == {id \in AttIDs : Live(id) /\ target[id] = p}

(* The backend attaches a volume to one instance at a time.                *)
Attachable(v) ==
  /\ v \in exists
  /\ \A id \in AttIDs : Live(id) => target[id][1] # v

Go(c, place) == pc' = [pc EXCEPT ![c] = place]

(* Leave the handler with an answer; the deferred Unlock is still to run.  *)
Answer(c, r) == Go(c, "return") /\ resp' = [resp EXCEPT ![c] = r]

(* Mutant: the attempts are counted down.                                  *)
RetryCountingDown(c, place) ==
  /\ tries' = [tries EXCEPT ![c] = @ - 1]
  /\ Go(c, place)
  /\ UNCHANGED resp

(* FlexyRetry: after a failed attempt try again, unless it was the last.   *)
Retry(c, place) ==
  \/ /\ tries[c] + 1 < MaxAttempts
     /\ tries' = [tries EXCEPT ![c] = @ + 1]
     /\ Go(c, place)
     /\ UNCHANGED resp
  \/ /\ tries[c] + 1 >= MaxAttempts
     /\ Answer(c, "error")
     /\ UNCHANGED tries

(* FlexyRetryWithCustomGap: i runs from 0 to MaxPolls inclusive, and the   *)
(* callers turn an exhausted loop into a time-out error.                   *)
PollAgain(c) ==
  \/ /\ tries[c] + 1 <= MaxPolls
     /\ tries' = [tries EXCEPT ![c] = @ + 1]
     /\ UNCHANGED <<pc, resp>>
  \/ /\ tries[c] + 1 > MaxPolls
     /\ Answer(c, "error")
     /\ UNCHANGED tries

StartLoop(c, place) == Go(c, place) /\ tries' = [tries EXCEPT ![c] = 0]

-----------------------------------------------------------------------------
(* Entry, lock and exit, common to both handlers.                          *)

Init ==
  /\ req \in [Calls -> Requests]
  /\ pc = [c \in Calls |-> "idle"]
  /\ tries = [c \in Calls |-> 0]
  /\ attID = [c \in Calls |-> NoID]
  /\ resp = [c \in Calls |-> "none"]
  /\ lock = [n \in Nodes |-> NoCall]
  /\ exists = Volumes
  /\ status = [id \in AttIDs |-> "none"]
  /\ target = [id \in AttIDs |-> NoTarget]
  /\ lateAttach = {}
  /\ lateDetach = {}
  /\ lateMade = {}
  /\ masked = {}

(* A request without volume ID, node ID or (publish) capability is refused *)
(* before the lock is touched.                                             *)
RejectRequest(c) ==
  /\ pc[c] = "idle"
  /\ Go(c, "done")
  /\ resp' = [resp EXCEPT ![c] = "error"]
  /\ UNCHANGED <<req, tries, attID, masked, lock, backendVars>>

AcceptRequest(c) ==
  /\ pc[c] = "idle"
  /\ Go(c, "lock")
  /\ UNCHANGED <<req, tries, attID, resp, masked, lock, backendVars>>

(* Mutant: the mutex is of another key than the node.                      *)
LockWithoutWaiting(c) ==
  /\ pc[c] = "lock"
  /\ lock' = [lock EXCEPT ![req[c].node] = c]
  /\ Go(c, "session")
  /\ UNCHANGED <<req, tries, attID, resp, masked, backendVars>>

(* csiCS.mutex.Lock(nodeID)                                                *)
Lock(c) ==
  /\ pc[c] = "lock"
  /\ \/ /\ LockEnabled
        /\ lock[req[c].node] = NoCall
        /\ lock' = [lock EXCEPT ![req[c].node] = c]
     \/ ~LockEnabled /\ UNCHANGED lock
  /\ Go(c, "session")
  /\ UNCHANGED <<req, tries, attID, resp, masked, backendVars>>

(* Mutant: the early return of an error forgets to unlock.                 *)
UnlockOnSuccess(c) ==
  /\ pc[c] = "return"
  /\ lock' = IF resp[c] = "ok" THEN [lock EXCEPT ![req[c].node] = NoCall] ELSE lock
  /\ Go(c, "done")
  /\ UNCHANGED <<req, tries, attID, resp, masked, backendVars>>

(* defer csiCS.mutex.Unlock(nodeID), then gRPC sends the answer.           *)
Unlock(c) ==
  /\ pc[c] = "return"
  /\ lock' = IF LockEnabled THEN [lock EXCEPT ![req[c].node] = NoCall] ELSE lock
  /\ Go(c, "done")
  /\ UNCHANGED <<req, tries, attID, resp, masked, backendVars>>

(* Unsupported capabilities (publish) or no provider session.              *)
SessionFails(c) ==
  /\ pc[c] = "session"
  /\ Answer(c, "error")
  /\ UNCHANGED <<req, tries, attID, masked, lock, backendVars>>

SessionOpens(c) ==
  /\ pc[c] = "session"
  /\ \/ /\ req[c].op = "publish"
        /\ Go(c, "check")
        /\ UNCHANGED tries
     \/ /\ req[c].op = "unpublish"
        /\ StartLoop(c, "detachFind")
  /\ UNCHANGED <<req, attID, resp, masked, lock, backendVars>>

-----------------------------------------------------------------------------
(* ControllerPublishVolume.                                                *)

(* checkIfVolumeExists: an absent volume and a failed read both end the    *)
(* call with an error.                                                     *)
VolumeMissing(c) ==
  /\ pc[c] = "check"
  /\ Answer(c, "error")
  /\ UNCHANGED <<req, tries, attID, masked, lock, backendVars>>

VolumeFound(c) ==
  /\ pc[c] = "check"
  /\ req[c].vol \in exists
  /\ StartLoop(c, "attachFind")
  /\ UNCHANGED <<req, attID, resp, masked, lock, backendVars>>

(* AttachVolume first looks for an attachment that is not being removed... *)
AttachFindsExisting(c) ==
  /\ pc[c] = "attachFind"
  /\ \E id \in AttachmentsOf(Pair(c)) :
       /\ status[id] # "detaching"
       /\ attID' = [attID EXCEPT ![c] = id]
  /\ StartLoop(c, "waitAttach")
  /\ UNCHANGED <<req, resp, masked, lock, backendVars>>

(* ...and goes on to attach when there is none or the read failed.         *)
AttachFindsNone(c) ==
  /\ pc[c] = "attachFind"
  /\ Go(c, "attach")
  /\ UNCHANGED <<req, tries, attID, resp, masked, lock, backendVars>>

(* The backend makes a new attachment record.                              *)
Create(id, p) ==
  /\ status[id] = "none"
  /\ status' = [status EXCEPT ![id] = "attaching"]
  /\ target' = [target EXCEPT ![id] = p]

AttachAccepted(c) ==
  /\ pc[c] = "attach"
  /\ Attachable(req[c].vol)
  /\ \E id \in AttIDs :
       /\ Create(id, Pair(c))
       /\ attID' = [attID EXCEPT ![c] = id]
  /\ StartLoop(c, "waitAttach")
  /\ UNCHANGED <<req, resp, masked, lock, exists, lateAttach, lateDetach, lateMade>>

(* The backend refuses: a missing volume is an "obvious" error that stops  *)
(* the loop, a volume in use (or no attachment left) is retried.           *)
AttachRefused(c) ==
  /\ pc[c] = "attach"
  /\ \/ /\ req[c].vol \notin exists
        /\ Answer(c, "error")
        /\ UNCHANGED tries
     \/ /\ req[c].vol \in exists
        /\ ~Attachable(req[c].vol) \/ \A id \in AttIDs : status[id] # "none"
        /\ Retry(c, "attachFind")
  /\ UNCHANGED <<req, attID, masked, lock, backendVars>>

(* The request is lost or times out; it may still reach the backend.       *)
AttachTimesOut(c) ==
  /\ pc[c] = "attach"
  /\ \/ lateAttach' = lateAttach \cup {Pair(c)}
     \/ UNCHANGED lateAttach
  /\ Retry(c, "attachFind")
  /\ UNCHANGED <<req, attID, masked, lock, exists, status, target, lateDetach, lateMade>>

(* Mutant: an attachment in the making is good enough.                     *)
WaitForAttachRecord(c) ==
  /\ pc[c] = "waitAttach"
  /\ Live(attID[c])
  /\ Answer(c, "ok")
  /\ UNCHANGED <<req, tries, attID, masked, lock, backendVars>>

(* WaitForAttachVolume polls the attachment by its ID.                     *)
WaitForAttachVolume(c) ==
  /\ pc[c] = "waitAttach"
  /\ \/ /\ status[attID[c]] = "attached"
        /\ Answer(c, "ok")
        /\ UNCHANGED tries
     \/ /\ status[attID[c]] \in {"attaching", "detaching"}
        /\ PollAgain(c)
  /\ UNCHANGED <<req, attID, masked, lock, backendVars>>

(* The attachment is gone, or the read failed: reported as a time-out.     *)
WaitForAttachFails(c) ==
  /\ pc[c] = "waitAttach"
  /\ Answer(c, "error")
  /\ UNCHANGED <<req, tries, attID, masked, lock, backendVars>>

-----------------------------------------------------------------------------
(* ControllerUnpublishVolume.                                              *)

DetachFinds(c) ==
  /\ pc[c] = "detachFind"
  /\ \E id \in AttachmentsOf(Pair(c)) :
       \/ /\ status[id] # "detaching"
          /\ attID' = [attID EXCEPT ![c] = id]
          /\ Go(c, "detach")
          /\ UNCHANGED tries
       \/ /\ status[id] = "detaching"
          /\ StartLoop(c, "waitDetach")
          /\ UNCHANGED attID
  /\ UNCHANGED <<req, resp, masked, lock, backendVars>>

(* "Not found" and every API failure carry the same error code, and        *)
(* DetachVolume takes any error for a finished detach.                     *)
DetachFindsNone(c) ==
  /\ pc[c] = "detachFind"
  /\ masked' = IF AttachmentsOf(Pair(c)) = {} THEN masked ELSE masked \cup {c}
  /\ StartLoop(c, "waitDetach")
  /\ UNCHANGED <<req, attID, resp, lock, backendVars>>

DetachAccepted(c) ==
  /\ pc[c] = "detach"
  /\ Live(attID[c])
  /\ status' = [status EXCEPT ![attID[c]] = "detaching"]
  /\ StartLoop(c, "waitDetach")
  /\ UNCHANGED <<req, attID, resp, masked, lock,
                 exists, target, lateAttach, lateDetach, lateMade>>

(* The attachment vanished meanwhile: "not_found" stops the loop.          *)
DetachRefused(c) ==
  /\ pc[c] = "detach"
  /\ ~Live(attID[c])
  /\ Answer(c, "error")
  /\ UNCHANGED <<req, tries, attID, masked, lock, backendVars>>

DetachTimesOut(c) ==
  /\ pc[c] = "detach"
  /\ \/ lateDetach' = lateDetach \cup {attID[c]}
     \/ UNCHANGED lateDetach
  /\ Retry(c, "detachFind")
  /\ UNCHANGED <<req, attID, masked, lock, exists, status, target, lateAttach, lateMade>>

(* Mutant: the loop that runs out of attempts reports success.             *)
WaitForDetachGivesUp(c) ==
  /\ pc[c] = "waitDetach"
  /\ \/ /\ AttachmentsOf(Pair(c)) # {} /\ tries[c] + 1 <= MaxPolls
        /\ PollAgain(c)
     \/ /\ AttachmentsOf(Pair(c)) = {} \/ tries[c] + 1 > MaxPolls
        /\ Answer(c, "ok")
        /\ UNCHANGED tries
  /\ UNCHANGED <<req, attID, masked, lock, backendVars>>

(* WaitForDetachVolume polls the instance's list until the read errors.    *)
WaitForDetachVolume(c) ==
  /\ pc[c] = "waitDetach"
  /\ \/ /\ AttachmentsOf(Pair(c)) # {}
        /\ PollAgain(c)
     \/ /\ AttachmentsOf(Pair(c)) = {}
        /\ Answer(c, "ok")
        /\ UNCHANGED tries
  /\ UNCHANGED <<req, attID, masked, lock, backendVars>>

(* The read fails while the attachment is there: the same error code,      *)
(* VolumeAttachFindFailed, so the detach is reported complete.             *)
WaitForDetachMasked(c) ==
  /\ pc[c] = "waitDetach"
  /\ AttachmentsOf(Pair(c)) # {}
  /\ Answer(c, "ok")
  /\ masked' = masked \cup {c}
  /\ UNCHANGED <<req, tries, attID, lock, backendVars>>

-----------------------------------------------------------------------------
(* The backend, the network and the process.                               *)

AttachCompletes(id) ==
  /\ status[id] = "attaching"
  /\ status' = [status EXCEPT ![id] = "attached"]
  /\ UNCHANGED <<callVars, lock, exists, target, lateAttach, lateDetach, lateMade>>

DetachCompletes(id) ==
  /\ status[id] = "detaching"
  /\ status' = [status EXCEPT ![id] = "gone"]
  /\ UNCHANGED <<callVars, lock, exists, target, lateAttach, lateDetach, lateMade>>

(* A timed-out attach request reaches the backend after all.               *)
LateAttachArrives(p) ==
  /\ p \in lateAttach
  /\ lateAttach' = lateAttach \ {p}
  /\ \/ /\ Attachable(p[1])
        /\ \E id \in AttIDs :
             /\ Create(id, p)
             /\ lateMade' = lateMade \cup {id}
     \/ /\ ~Attachable(p[1])
        /\ UNCHANGED <<status, target, lateMade>>
  /\ UNCHANGED <<callVars, lock, exists, lateDetach>>

(* A timed-out detach request names an attachment ID, never a volume.      *)
LateDetachArrives(id) ==
  /\ id \in lateDetach
  /\ status[id] \in {"attaching", "attached"}
  /\ status' = [status EXCEPT ![id] = "detaching"]
  /\ UNCHANGED <<callVars, lock, exists, target, lateAttach, lateDetach, lateMade>>

(* DeleteVolume runs without the node's lock; the backend deletes only a   *)
(* volume that is not attached.                                            *)
VolumeDeleted(v) ==
  /\ Attachable(v)
  /\ exists' = exists \ {v}
  /\ UNCHANGED <<callVars, lock, status, target, lateAttach, lateDetach, lateMade>>

(* SIGTERM: removeCSISocket ends the process with os.Exit(0).  Calls in    *)
(* flight are never answered and the mutexes vanish with the process.      *)
Exit ==
  /\ \E c \in Calls : pc[c] \in InFlight
  /\ pc' = [c \in Calls |-> IF pc[c] \in InFlight THEN "dead" ELSE pc[c]]
  /\ lock' = [n \in Nodes |-> NoCall]
  /\ UNCHANGED <<req, tries, attID, resp, masked, backendVars>>

-----------------------------------------------------------------------------
PublishStep(c) ==
  \/ VolumeMissing(c) \/ VolumeFound(c)
  \/ AttachFindsExisting(c) \/ AttachFindsNone(c)
  \/ AttachAccepted(c) \/ AttachRefused(c) \/ AttachTimesOut(c)
  \/ WaitForAttachVolume(c) \/ WaitForAttachFails(c)

UnpublishStep(c) ==
  \/ DetachFinds(c) \/ DetachFindsNone(c)
  \/ DetachAccepted(c) \/ DetachRefused(c) \/ DetachTimesOut(c)
  \/ WaitForDetachVolume(c) \/ WaitForDetachMasked(c)

(* What the goroutine of a call does by itself once it has the lock.       *)
HandlerStep(c) ==
  \/ SessionFails(c) \/ SessionOpens(c)
  \/ PublishStep(c) \/ UnpublishStep(c)
  \/ Unlock(c)

CallStep(c) == RejectRequest(c) \/ AcceptRequest(c) \/ Lock(c) \/ HandlerStep(c)

BackendStep ==
  \/ \E id \in AttIDs : AttachCompletes(id) \/ DetachCompletes(id) \/ LateDetachArrives(id)
  \/ \E p \in Pairs : LateAttachArrives(p)
  \/ \E v \in Volumes : VolumeDeleted(v)

Next == (\E c \in Calls : CallStep(c)) \/ BackendStep \/ Exit

Spec == Init /\ [][Next]_vars

(* A goroutine keeps running, and sync.Mutex hands the lock to a waiter    *)
(* that has waited long enough (starvation mode): strong fairness of Lock. *)
(* The orchestrator, the backend and SIGTERM owe nothing.                  *)
Fairness == \A c \in Calls : WF_vars(HandlerStep(c)) /\ SF_vars(Lock(c))

FairSpec == Spec /\ Fairness

-----------------------------------------------------------------------------
(* Correctness.                                                            *)

Publishing(c)   == req[c].op = "publish"
Unpublishing(c) == req[c].op = "unpublish"
Returning(c)    == pc[c] = "return" /\ resp[c] = "ok"

(* "Allow only one active attach/detach operation for an instance at       *)
(* anytime" (controller.go:225): no two calls for the same node are        *)
(* between Lock and Unlock.                                                *)
OneOperationPerNode ==
  LockEnabled =>
    \A c, d \in Calls :
      pc[c] \in Inside /\ pc[d] \in Inside /\ req[c].node = req[d].node => c = d

(* When ControllerPublishVolume answers OK, the attachment whose ID and    *)
(* device path it returns is of the requested volume and node and is still *)
(* attached: what WaitForAttachVolume saw cannot be undone by another call *)
(* before the lock is released, however the calls interleave.  The only    *)
(* exception is an earlier detach request that timed out and arrives now.  *)
PublishOKMeansAttached ==
  LockEnabled =>
    \A c \in Calls : Publishing(c) /\ Returning(c) =>
      /\ attID[c] \in AttIDs
      /\ target[attID[c]] = Pair(c)
      /\ status[attID[c]] = "attached" \/ attID[c] \in lateDetach

(* When ControllerUnpublishVolume answers OK, no attachment of the volume  *)
(* to the node is left, unless this very call took a failed API read for   *)
(* an absent attachment, or a timed-out attach request arrived late.       *)
UnpublishOKMeansGone ==
  LockEnabled =>
    \A c \in Calls : Unpublishing(c) /\ Returning(c) =>
      c \in masked \/ AttachmentsOf(Pair(c)) \subseteq lateMade

(* What the comment on WaitForDetachVolume promises: it "waits till no     *)
(* volume attachment is found" (wait_for_detach_volume.go:30), so an OK    *)
(* means that every attachment there was when the wait ended is gone.      *)
UnpublishOKMeansDetached ==
  \A c \in Calls : Unpublishing(c) /\ Returning(c) =>
    AttachmentsOf(Pair(c)) \subseteq lateMade

(* An attachment starts to go away only through an unpublish call that     *)
(* asks for exactly that volume and node and owns the node's lock, or      *)
(* through a detach request of such a call that timed out: a publish, a    *)
(* call for another volume or node, a crash or a deletion never detaches.  *)
DetachedOnlyByOwner ==
  [][\A id \in AttIDs :
       status[id] \in {"attaching", "attached"} /\ status'[id] = "detaching" =>
         \/ id \in lateDetach
         \/ \E c \in Calls :
              /\ Unpublishing(c)
              /\ pc[c] = "detach"
              /\ target[id] = Pair(c)
              /\ LockEnabled => lock[req[c].node] = c]_vars

(* Every call that got past validation is answered, or dies with the       *)
(* process: the polling loops are bounded, errors end in the deferred      *)
(* Unlock, and nobody waits for a mutex forever.                           *)
EveryCallEnds ==
  \A c \in Calls : pc[c] \in InFlight ~> pc[c] \in {"done", "dead"}

-----------------------------------------------------------------------------
(* The abstract service, on what this module knows of it.                  *)

Links == {<<target[id], status[id]>> : id \in {id \in AttIDs : Live(id)}}

(* Volumes with an attachment that a timed-out detach request may reach.   *)
Doomed == {target[id][1] : id \in {id \in lateDetach : Live(id)}}

Service == INSTANCE AttachService WITH
  owner <- lock, answer <- resp, links <- Links,
  abandoned <- lateAttach, doomed <- Doomed, blind <- masked

(* The handlers, their loops and the lock implement the abstract service   *)
(* (for LockEnabled): per node one call at a time, one link per volume,    *)
(* and every answer true at the moment it is decided, whatever times out,  *)
(* arrives late, fails or ends the process (controller.go:227, 310).       *)
ImplementsService == Service!Spec

=============================================================================
