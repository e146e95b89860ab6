------------------------- MODULE AttachDetachProofs -------------------------
(***************************************************************************)
(* Safety of attach and detach for every number of nodes, volumes, calls   *)
(* and attachments and every retry and poll bound.                         *)
(*                                                                         *)
(* The argument rests on the lock: a call between Lock and Unlock is the   *)
(* holder of its node's mutex, hence the only such call of the node, and   *)
(* a step that changes an attachment of a node is a step of such a call.   *)
(* So nothing another call does can touch the attachment a call has found, *)
(* waits for, or is about to report.                                       *)
(***************************************************************************)
EXTENDS AttachDetach, TLAPS

(* A call between Lock and Unlock holds its node's mutex.                  *)
LockHeld ==
  LockEnabled => \A c \in Calls : pc[c] \in Inside => lock[req[c].node] = c

(* A call is in the part of the code its operation belongs to.             *)
InItsHandler ==
  \A c \in Calls :
    /\ pc[c] \in {"check", "attachFind", "attach", "waitAttach"} => Publishing(c)
    /\ pc[c] \in {"detachFind", "detach", "waitDetach"} => Unpublishing(c)

(* The attachment ID a call works with is a record of its volume and node. *)
OwnAttachment ==
  \A c \in Calls :
    \/ pc[c] \in {"waitAttach", "detach"}
    \/ Publishing(c) /\ Returning(c)
    => /\ attID[c] \in AttIDs
       /\ target[attID[c]] = Pair(c)
       /\ status[attID[c]] # "none"

(* The backend's records: one that was made names a volume and a node, a   *)
(* detach request is only ever sent for one that was made, and a volume    *)
(* has at most one that is not gone.                                       *)
OneLivePerVolume ==
  /\ \A id \in AttIDs : status[id] # "none" => target[id] \in Pairs
  /\ \A id \in lateDetach : status[id] # "none"
  /\ \A i, j \in AttIDs : Live(i) /\ Live(j) /\ target[i][1] = target[j][1] => i = j

(* The answer of a call is decided when it reaches the deferred Unlock,    *)
(* and not before.                                                         *)
Decided ==
  \A c \in Calls :
    /\ pc[c] \in (InFlight \cup {"idle"}) \ {"return"} => resp[c] = "none"
    /\ pc[c] = "return" => resp[c] # "none"

IndInv ==
  /\ TypeOK
  /\ LockHeld
  /\ InItsHandler
  /\ OwnAttachment
  /\ OneLivePerVolume
  /\ Decided
  /\ PublishOKMeansAttached
  /\ UnpublishOKMeansGone

-----------------------------------------------------------------------------
(* The two retry loops keep the types of the variables they change.        *)
LEMMA RetryTypes ==
  ASSUME TypeOK, NEW c \in Calls, NEW place \in PCs,
         Retry(c, place) \/ PollAgain(c)
  PROVE  /\ tries' \in [Calls -> Nat]
         /\ pc' \in [Calls -> PCs]
         /\ resp' \in [Calls -> {"none", "ok", "error"}]
<1>1. tries[c] + 1 \in Nat
  BY DEF TypeOK
<1>2. CASE tries' = [tries EXCEPT ![c] = @ + 1] /\ UNCHANGED resp
  <2>1. pc' = pc \/ pc' = [pc EXCEPT ![c] = place]
    BY <1>2 DEF Retry, PollAgain, Go, Answer, TypeOK
  <2> QED BY <1>1, <1>2, <2>1 DEF TypeOK
<1>3. CASE Answer(c, "error") /\ UNCHANGED tries
  BY <1>3 DEF TypeOK, Answer, Go, PCs, InFlight, Inside
<1> QED BY <1>2, <1>3 DEF Retry, PollAgain

(* Every step keeps the types.                                             *)
LEMMA TypeStep == TypeOK /\ OwnAttachment /\ [Next]_vars => TypeOK'
<1> SUFFICES ASSUME TypeOK, OwnAttachment, [Next]_vars PROVE TypeOK'
  OBVIOUS
<1> USE ConstantsAssumption DEF TypeOK, Requests, PCs, InFlight, Inside, Statuses,
        callVars, backendVars, Go, Answer, StartLoop, Pair, Pairs
<1>1. ASSUME NEW c \in Calls, CallStep(c) PROVE TypeOK'
  <2>1. CASE RejectRequest(c) BY <2>1 DEF RejectRequest
  <2>2. CASE AcceptRequest(c) BY <2>2 DEF AcceptRequest
  <2>3. CASE Lock(c) BY <2>3 DEF Lock
  <2>4. CASE SessionFails(c) BY <2>4 DEF SessionFails
  <2>5. CASE SessionOpens(c) BY <2>5 DEF SessionOpens
  <2>6. CASE Unlock(c) BY <2>6 DEF Unlock
  <2>7. CASE VolumeMissing(c) BY <2>7 DEF VolumeMissing
  <2>8. CASE VolumeFound(c) BY <2>8 DEF VolumeFound
  <2>9. CASE AttachFindsExisting(c)
    BY <2>9 DEF AttachFindsExisting, AttachmentsOf
  <2>10. CASE AttachFindsNone(c) BY <2>10 DEF AttachFindsNone
  <2>11. CASE AttachAccepted(c) BY <2>11 DEF AttachAccepted, Create
  <2>12. CASE AttachRefused(c) 
    <3>1. CASE Answer(c, "error") /\ UNCHANGED tries
      BY <2>12, <3>1 DEF AttachRefused
    <3>2. CASE Retry(c, "attachFind")
      BY <2>12, <3>2, RetryTypes DEF AttachRefused
    <3> QED BY <2>12, <3>1, <3>2 DEF AttachRefused
  <2>13. CASE AttachTimesOut(c) BY <2>13, RetryTypes DEF AttachTimesOut
  <2>14. CASE WaitForAttachVolume(c) 
    <3>1. CASE Answer(c, "ok") /\ UNCHANGED tries
      BY <2>14, <3>1 DEF WaitForAttachVolume
    <3>2. CASE PollAgain(c)
      BY <2>14, <3>2, RetryTypes DEF WaitForAttachVolume
    <3> QED BY <2>14, <3>1, <3>2 DEF WaitForAttachVolume
  <2>15. CASE WaitForAttachFails(c) BY <2>15 DEF WaitForAttachFails
  <2>16. CASE DetachFinds(c) 
    <3>1. PICK id \in AttIDs :
            \/ attID' = [attID EXCEPT ![c] = id] /\ Go(c, "detach") /\ UNCHANGED tries
            \/ StartLoop(c, "waitDetach") /\ UNCHANGED attID
      BY <2>16 DEF DetachFinds, AttachmentsOf
    <3>2. CASE attID' = [attID EXCEPT ![c] = id] /\ Go(c, "detach") /\ UNCHANGED tries
      BY <2>16, <3>2 DEF DetachFinds
    <3>3. CASE StartLoop(c, "waitDetach") /\ UNCHANGED attID
      BY <2>16, <3>3 DEF DetachFinds
    <3> QED BY <3>1, <3>2, <3>3
  <2>17. CASE DetachFindsNone(c) BY <2>17 DEF DetachFindsNone
  <2>18. CASE DetachAccepted(c) BY <2>18 DEF DetachAccepted
  <2>19. CASE DetachRefused(c) BY <2>19 DEF DetachRefused
  <2>20. CASE DetachTimesOut(c) 
    <3>1. attID[c] \in AttIDs
      BY <2>20 DEF DetachTimesOut, OwnAttachment
    <3> QED BY <2>20, <3>1, RetryTypes DEF DetachTimesOut
  <2>21. CASE WaitForDetachVolume(c) 
    <3>1. CASE Answer(c, "ok") /\ UNCHANGED tries
      BY <2>21, <3>1 DEF WaitForDetachVolume
    <3>2. CASE PollAgain(c)
      BY <2>21, <3>2, RetryTypes DEF WaitForDetachVolume
    <3> QED BY <2>21, <3>1, <3>2 DEF WaitForDetachVolume
  <2>22. CASE WaitForDetachMasked(c) BY <2>22 DEF WaitForDetachMasked
  <2> QED
    BY <1>1, <2>1, <2>2, <2>3, <2>4, <2>5, <2>6, <2>7, <2>8, <2>9, <2>10, <2>11,
       <2>12, <2>13, <2>14, <2>15, <2>16, <2>17, <2>18, <2>19, <2>20, <2>21, <2>22
    DEF CallStep, HandlerStep, PublishStep, UnpublishStep
<1>2. CASE BackendStep
  <2>1. ASSUME NEW id \in AttIDs,
               AttachCompletes(id) \/ DetachCompletes(id) \/ LateDetachArrives(id)
        PROVE TypeOK'
    BY <2>1 DEF AttachCompletes, DetachCompletes, LateDetachArrives
  <2>2. ASSUME NEW p \in Pairs, LateAttachArrives(p) PROVE TypeOK'
    BY <2>2 DEF LateAttachArrives, Create
  <2>3. ASSUME NEW v \in Volumes, VolumeDeleted(v) PROVE TypeOK'
    BY <2>3 DEF VolumeDeleted
  <2> QED BY <1>2, <2>1, <2>2, <2>3 DEF BackendStep
<1>3. CASE Exit BY <1>3 DEF Exit
<1>4. CASE UNCHANGED vars BY <1>4 DEF vars
<1> QED BY <1>1, <1>2, <1>3, <1>4 DEF Next

(* The holder of a node's mutex is unique, so is the call it lets in.      *)
LEMMA Exclusive == TypeOK /\ LockHeld => OneOperationPerNode
  BY DEF TypeOK, LockHeld, OneOperationPerNode, Requests

(* Only Lock lets a call in, and only when the mutex is free; only Unlock    *)
(* and the end of the process free it.                                     *)
LEMMA LockStep == TypeOK /\ LockHeld /\ [Next]_vars => LockHeld'
<1> SUFFICES ASSUME TypeOK, LockHeld, [Next]_vars PROVE LockHeld'
  OBVIOUS
<1> USE ConstantsAssumption DEF TypeOK, Requests, InFlight, Inside, callVars, backendVars, Go, Answer, StartLoop, LockHeld
<1>1. ASSUME NEW c \in Calls, CallStep(c) PROVE LockHeld'
  <2>1. CASE RejectRequest(c) BY <2>1 DEF RejectRequest
  <2>2. CASE AcceptRequest(c) BY <2>2 DEF AcceptRequest
  <2>3. CASE Lock(c) BY <2>3 DEF Lock
  <2>4. CASE SessionFails(c) BY <2>4 DEF SessionFails
  <2>5. CASE SessionOpens(c) BY <2>5 DEF SessionOpens
  <2>6. CASE Unlock(c) BY <2>6 DEF Unlock
  <2>7. CASE VolumeMissing(c) BY <2>7 DEF VolumeMissing
  <2>8. CASE VolumeFound(c) BY <2>8 DEF VolumeFound
  <2>9. CASE AttachFindsExisting(c) BY <2>9 DEF AttachFindsExisting, AttachmentsOf, Live
  <2>10. CASE AttachFindsNone(c) BY <2>10 DEF AttachFindsNone
  <2>11. CASE AttachAccepted(c) BY <2>11 DEF AttachAccepted, Create
  <2>12. CASE AttachRefused(c) BY <2>12 DEF AttachRefused, Retry
  <2>13. CASE AttachTimesOut(c) BY <2>13 DEF AttachTimesOut, Retry
  <2>14. CASE WaitForAttachVolume(c) BY <2>14 DEF WaitForAttachVolume, PollAgain
  <2>15. CASE WaitForAttachFails(c) BY <2>15 DEF WaitForAttachFails
  <2>16. CASE DetachFinds(c) BY <2>16 DEF DetachFinds, AttachmentsOf, Live
  <2>17. CASE DetachFindsNone(c) BY <2>17 DEF DetachFindsNone
  <2>18. CASE DetachAccepted(c) BY <2>18 DEF DetachAccepted, Live
  <2>19. CASE DetachRefused(c) BY <2>19 DEF DetachRefused
  <2>20. CASE DetachTimesOut(c) BY <2>20 DEF DetachTimesOut, Retry
  <2>21. CASE WaitForDetachVolume(c) BY <2>21 DEF WaitForDetachVolume, PollAgain
  <2>22. CASE WaitForDetachMasked(c) BY <2>22 DEF WaitForDetachMasked
  <2> QED
    BY <1>1, <2>1, <2>2, <2>3, <2>4, <2>5, <2>6, <2>7, <2>8, <2>9, <2>10, <2>11,
       <2>12, <2>13, <2>14, <2>15, <2>16, <2>17, <2>18, <2>19, <2>20, <2>21, <2>22
    DEF CallStep, HandlerStep, PublishStep, UnpublishStep
<1>2. CASE BackendStep
  <2>1. ASSUME NEW id \in AttIDs,
               AttachCompletes(id) \/ DetachCompletes(id) \/ LateDetachArrives(id)
        PROVE LockHeld'
    BY <2>1 DEF AttachCompletes, DetachCompletes, LateDetachArrives
  <2>2. ASSUME NEW p \in Pairs, LateAttachArrives(p) PROVE LockHeld'
    BY <2>2 DEF LateAttachArrives, Create
  <2>3. ASSUME NEW v \in Volumes, VolumeDeleted(v) PROVE LockHeld'
    BY <2>3 DEF VolumeDeleted
  <2> QED BY <1>2, <2>1, <2>2, <2>3 DEF BackendStep
<1>3. CASE Exit BY <1>3 DEF Exit
<1>4. CASE UNCHANGED vars BY <1>4 DEF vars
<1> QED BY <1>1, <1>2, <1>3, <1>4 DEF Next

(* No step takes a call to the other operation's code.                     *)
LEMMA PlaceStep == TypeOK /\ InItsHandler /\ [Next]_vars => InItsHandler'
<1> SUFFICES ASSUME TypeOK, InItsHandler, [Next]_vars PROVE InItsHandler'
  OBVIOUS
<1> USE ConstantsAssumption DEF TypeOK, Requests, InFlight, Inside, callVars, backendVars, Go, Answer, StartLoop, InItsHandler, Publishing, Unpublishing
<1>1. ASSUME NEW c \in Calls, CallStep(c) PROVE InItsHandler'
  <2>1. CASE RejectRequest(c) BY <2>1 DEF RejectRequest
  <2>2. CASE AcceptRequest(c) BY <2>2 DEF AcceptRequest
  <2>3. CASE Lock(c) BY <2>3 DEF Lock
  <2>4. CASE SessionFails(c) BY <2>4 DEF SessionFails
  <2>5. CASE SessionOpens(c) BY <2>5 DEF SessionOpens
  <2>6. CASE Unlock(c) BY <2>6 DEF Unlock
  <2>7. CASE VolumeMissing(c) BY <2>7 DEF VolumeMissing
  <2>8. CASE VolumeFound(c) BY <2>8 DEF VolumeFound
  <2>9. CASE AttachFindsExisting(c) BY <2>9 DEF AttachFindsExisting, AttachmentsOf, Live
  <2>10. CASE AttachFindsNone(c) BY <2>10 DEF AttachFindsNone
  <2>11. CASE AttachAccepted(c) BY <2>11 DEF AttachAccepted, Create
  <2>12. CASE AttachRefused(c) BY <2>12 DEF AttachRefused, Retry
  <2>13. CASE AttachTimesOut(c) BY <2>13 DEF AttachTimesOut, Retry
  <2>14. CASE WaitForAttachVolume(c) BY <2>14 DEF WaitForAttachVolume, PollAgain
  <2>15. CASE WaitForAttachFails(c) BY <2>15 DEF WaitForAttachFails
  <2>16. CASE DetachFinds(c) BY <2>16 DEF DetachFinds, AttachmentsOf, Live
  <2>17. CASE DetachFindsNone(c) BY <2>17 DEF DetachFindsNone
  <2>18. CASE DetachAccepted(c) BY <2>18 DEF DetachAccepted, Live
  <2>19. CASE DetachRefused(c) BY <2>19 DEF DetachRefused
  <2>20. CASE DetachTimesOut(c) BY <2>20 DEF DetachTimesOut, Retry
  <2>21. CASE WaitForDetachVolume(c) BY <2>21 DEF WaitForDetachVolume, PollAgain
  <2>22. CASE WaitForDetachMasked(c) BY <2>22 DEF WaitForDetachMasked
  <2> QED
    BY <1>1, <2>1, <2>2, <2>3, <2>4, <2>5, <2>6, <2>7, <2>8, <2>9, <2>10, <2>11,
       <2>12, <2>13, <2>14, <2>15, <2>16, <2>17, <2>18, <2>19, <2>20, <2>21, <2>22
    DEF CallStep, HandlerStep, PublishStep, UnpublishStep
<1>2. CASE BackendStep
  <2>1. ASSUME NEW id \in AttIDs,
               AttachCompletes(id) \/ DetachCompletes(id) \/ LateDetachArrives(id)
        PROVE InItsHandler'
    BY <2>1 DEF AttachCompletes, DetachCompletes, LateDetachArrives
  <2>2. ASSUME NEW p \in Pairs, LateAttachArrives(p) PROVE InItsHandler'
    BY <2>2 DEF LateAttachArrives, Create
  <2>3. ASSUME NEW v \in Volumes, VolumeDeleted(v) PROVE InItsHandler'
    BY <2>3 DEF VolumeDeleted
  <2> QED BY <1>2, <2>1, <2>2, <2>3 DEF BackendStep
<1>3. CASE Exit BY <1>3 DEF Exit
<1>4. CASE UNCHANGED vars BY <1>4 DEF vars
<1> QED BY <1>1, <1>2, <1>3, <1>4 DEF Next

(* An attachment record, once made, keeps its volume and node.             *)
LEMMA OwnStep == TypeOK /\ InItsHandler /\ OwnAttachment /\ [Next]_vars => OwnAttachment'
<1> SUFFICES ASSUME TypeOK, InItsHandler, OwnAttachment, [Next]_vars PROVE OwnAttachment'
  OBVIOUS
<1> USE ConstantsAssumption DEF TypeOK, Requests, InFlight, Inside, callVars, backendVars, Go, Answer, StartLoop, InItsHandler, OwnAttachment, Publishing, Unpublishing, Returning, Pair, Pairs, Statuses
<1>1. ASSUME NEW c \in Calls, CallStep(c) PROVE OwnAttachment'
  <2>1. CASE RejectRequest(c) BY <2>1 DEF RejectRequest
  <2>2. CASE AcceptRequest(c) BY <2>2 DEF AcceptRequest
  <2>3. CASE Lock(c) BY <2>3 DEF Lock
  <2>4. CASE SessionFails(c) BY <2>4 DEF SessionFails
  <2>5. CASE SessionOpens(c) BY <2>5 DEF SessionOpens
  <2>6. CASE Unlock(c) BY <2>6 DEF Unlock
  <2>7. CASE VolumeMissing(c) BY <2>7 DEF VolumeMissing
  <2>8. CASE VolumeFound(c) BY <2>8 DEF VolumeFound
  <2>9. CASE AttachFindsExisting(c) BY <2>9 DEF AttachFindsExisting, AttachmentsOf, Live
  <2>10. CASE AttachFindsNone(c) BY <2>10 DEF AttachFindsNone
  <2>11. CASE AttachAccepted(c) BY <2>11 DEF AttachAccepted, Create
  <2>12. CASE AttachRefused(c) BY <2>12 DEF AttachRefused, Retry
  <2>13. CASE AttachTimesOut(c) BY <2>13 DEF AttachTimesOut, Retry
  <2>14. CASE WaitForAttachVolume(c) BY <2>14 DEF WaitForAttachVolume, PollAgain
  <2>15. CASE WaitForAttachFails(c) BY <2>15 DEF WaitForAttachFails
  <2>16. CASE DetachFinds(c) BY <2>16 DEF DetachFinds, AttachmentsOf, Live
  <2>17. CASE DetachFindsNone(c) BY <2>17 DEF DetachFindsNone
  <2>18. CASE DetachAccepted(c) BY <2>18 DEF DetachAccepted, Live
  <2>19. CASE DetachRefused(c) BY <2>19 DEF DetachRefused
  <2>20. CASE DetachTimesOut(c) BY <2>20 DEF DetachTimesOut, Retry
  <2>21. CASE WaitForDetachVolume(c) BY <2>21 DEF WaitForDetachVolume, PollAgain
  <2>22. CASE WaitForDetachMasked(c) BY <2>22 DEF WaitForDetachMasked
  <2> QED
    BY <1>1, <2>1, <2>2, <2>3, <2>4, <2>5, <2>6, <2>7, <2>8, <2>9, <2>10, <2>11,
       <2>12, <2>13, <2>14, <2>15, <2>16, <2>17, <2>18, <2>19, <2>20, <2>21, <2>22
    DEF CallStep, HandlerStep, PublishStep, UnpublishStep
<1>2. CASE BackendStep
  <2>1. ASSUME NEW id \in AttIDs,
               AttachCompletes(id) \/ DetachCompletes(id) \/ LateDetachArrives(id)
        PROVE OwnAttachment'
    BY <2>1 DEF AttachCompletes, DetachCompletes, LateDetachArrives
  <2>2. ASSUME NEW p \in Pairs, LateAttachArrives(p) PROVE OwnAttachment'
    BY <2>2 DEF LateAttachArrives, Create
  <2>3. ASSUME NEW v \in Volumes, VolumeDeleted(v) PROVE OwnAttachment'
    BY <2>3 DEF VolumeDeleted
  <2> QED BY <1>2, <2>1, <2>2, <2>3 DEF BackendStep
<1>3. CASE Exit BY <1>3 DEF Exit
<1>4. CASE UNCHANGED vars BY <1>4 DEF vars
<1> QED BY <1>1, <1>2, <1>3, <1>4 DEF Next

(* What WaitForAttachVolume saw stays so until the call has left: only a    *)
(* call inside the same node could undo it, and there is none.             *)
LEMMA PublishedStep == TypeOK /\ LockHeld /\ InItsHandler /\ OwnAttachment /\ PublishOKMeansAttached /\ [Next]_vars => PublishOKMeansAttached'
<1> SUFFICES ASSUME TypeOK, LockHeld, InItsHandler, OwnAttachment, PublishOKMeansAttached, [Next]_vars PROVE PublishOKMeansAttached'
  OBVIOUS
<1> USE ConstantsAssumption DEF TypeOK, Requests, InFlight, Inside, callVars, backendVars, Go, Answer, StartLoop,
        LockHeld, InItsHandler, OwnAttachment, PublishOKMeansAttached,
        Publishing, Unpublishing, Returning, Pair, Pairs, Statuses
<1>1. ASSUME NEW c \in Calls, CallStep(c) PROVE PublishOKMeansAttached'
  <2>1. CASE RejectRequest(c) BY <2>1 DEF RejectRequest
  <2>2. CASE AcceptRequest(c) BY <2>2 DEF AcceptRequest
  <2>3. CASE Lock(c) BY <2>3 DEF Lock
  <2>4. CASE SessionFails(c) BY <2>4 DEF SessionFails
  <2>5. CASE SessionOpens(c) BY <2>5 DEF SessionOpens
  <2>6. CASE Unlock(c) BY <2>6 DEF Unlock
  <2>7. CASE VolumeMissing(c) BY <2>7 DEF VolumeMissing
  <2>8. CASE VolumeFound(c) BY <2>8 DEF VolumeFound
  <2>9. CASE AttachFindsExisting(c) BY <2>9 DEF AttachFindsExisting, AttachmentsOf, Live
  <2>10. CASE AttachFindsNone(c) BY <2>10 DEF AttachFindsNone
  <2>11. CASE AttachAccepted(c) BY <2>11 DEF AttachAccepted, Create
  <2>12. CASE AttachRefused(c) BY <2>12 DEF AttachRefused, Retry
  <2>13. CASE AttachTimesOut(c) BY <2>13 DEF AttachTimesOut, Retry
  <2>14. CASE WaitForAttachVolume(c) BY <2>14 DEF WaitForAttachVolume, PollAgain
  <2>15. CASE WaitForAttachFails(c) BY <2>15 DEF WaitForAttachFails
  <2>16. CASE DetachFinds(c) BY <2>16 DEF DetachFinds, AttachmentsOf, Live
  <2>17. CASE DetachFindsNone(c) BY <2>17 DEF DetachFindsNone
  <2>18. CASE DetachAccepted(c) BY <2>18 DEF DetachAccepted, Live
  <2>19. CASE DetachRefused(c) BY <2>19 DEF DetachRefused
  <2>20. CASE DetachTimesOut(c) BY <2>20 DEF DetachTimesOut, Retry
  <2>21. CASE WaitForDetachVolume(c) BY <2>21 DEF WaitForDetachVolume, PollAgain
  <2>22. CASE WaitForDetachMasked(c) BY <2>22 DEF WaitForDetachMasked
  <2> QED
    BY <1>1, <2>1, <2>2, <2>3, <2>4, <2>5, <2>6, <2>7, <2>8, <2>9, <2>10, <2>11,
       <2>12, <2>13, <2>14, <2>15, <2>16, <2>17, <2>18, <2>19, <2>20, <2>21, <2>22
    DEF CallStep, HandlerStep, PublishStep, UnpublishStep
<1>2. CASE BackendStep
  <2>1. ASSUME NEW id \in AttIDs,
               AttachCompletes(id) \/ DetachCompletes(id) \/ LateDetachArrives(id)
        PROVE PublishOKMeansAttached'
    BY <2>1 DEF AttachCompletes, DetachCompletes, LateDetachArrives
  <2>2. ASSUME NEW p \in Pairs, LateAttachArrives(p) PROVE PublishOKMeansAttached'
    BY <2>2 DEF LateAttachArrives, Create
  <2>3. ASSUME NEW v \in Volumes, VolumeDeleted(v) PROVE PublishOKMeansAttached'
    BY <2>3 DEF VolumeDeleted
  <2> QED BY <1>2, <2>1, <2>2, <2>3 DEF BackendStep
<1>3. CASE Exit BY <1>3 DEF Exit
<1>4. CASE UNCHANGED vars BY <1>4 DEF vars
<1> QED BY <1>1, <1>2, <1>3, <1>4 DEF Next

(* What WaitForDetachVolume saw stays so: only a publish inside the same     *)
(* node, or an attach request that arrives late, makes an attachment.      *)
LEMMA UnpublishedStep == TypeOK /\ LockHeld /\ InItsHandler /\ OwnAttachment /\ UnpublishOKMeansGone /\ [Next]_vars => UnpublishOKMeansGone'
<1> SUFFICES ASSUME TypeOK, LockHeld, InItsHandler, OwnAttachment, UnpublishOKMeansGone, [Next]_vars PROVE UnpublishOKMeansGone'
  OBVIOUS
<1> USE ConstantsAssumption DEF TypeOK, Requests, InFlight, Inside, callVars, backendVars, Go, Answer, StartLoop,
        LockHeld, InItsHandler, OwnAttachment, UnpublishOKMeansGone, AttachmentsOf, Live,
        Publishing, Unpublishing, Returning, Pair, Pairs, Statuses
<1>1. ASSUME NEW c \in Calls, CallStep(c) PROVE UnpublishOKMeansGone'
  <2>1. CASE RejectRequest(c) BY <2>1 DEF RejectRequest
  <2>2. CASE AcceptRequest(c) BY <2>2 DEF AcceptRequest
  <2>3. CASE Lock(c) BY <2>3 DEF Lock
  <2>4. CASE SessionFails(c) BY <2>4 DEF SessionFails
  <2>5. CASE SessionOpens(c) BY <2>5 DEF SessionOpens
  <2>6. CASE Unlock(c) BY <2>6 DEF Unlock
  <2>7. CASE VolumeMissing(c) BY <2>7 DEF VolumeMissing
  <2>8. CASE VolumeFound(c) BY <2>8 DEF VolumeFound
  <2>9. CASE AttachFindsExisting(c) BY <2>9 DEF AttachFindsExisting, AttachmentsOf, Live
  <2>10. CASE AttachFindsNone(c) BY <2>10 DEF AttachFindsNone
  <2>11. CASE AttachAccepted(c) BY <2>11 DEF AttachAccepted, Create
  <2>12. CASE AttachRefused(c) BY <2>12 DEF AttachRefused, Retry
  <2>13. CASE AttachTimesOut(c) BY <2>13 DEF AttachTimesOut, Retry
  <2>14. CASE WaitForAttachVolume(c) BY <2>14 DEF WaitForAttachVolume, PollAgain
  <2>15. CASE WaitForAttachFails(c) BY <2>15 DEF WaitForAttachFails
  <2>16. CASE DetachFinds(c) BY <2>16 DEF DetachFinds, AttachmentsOf, Live
  <2>17. CASE DetachFindsNone(c) BY <2>17 DEF DetachFindsNone
  <2>18. CASE DetachAccepted(c) BY <2>18 DEF DetachAccepted, Live
  <2>19. CASE DetachRefused(c) BY <2>19 DEF DetachRefused
  <2>20. CASE DetachTimesOut(c) BY <2>20 DEF DetachTimesOut, Retry
  <2>21. CASE WaitForDetachVolume(c) BY <2>21 DEF WaitForDetachVolume, PollAgain
  <2>22. CASE WaitForDetachMasked(c) BY <2>22 DEF WaitForDetachMasked
  <2> QED
    BY <1>1, <2>1, <2>2, <2>3, <2>4, <2>5, <2>6, <2>7, <2>8, <2>9, <2>10, <2>11,
       <2>12, <2>13, <2>14, <2>15, <2>16, <2>17, <2>18, <2>19, <2>20, <2>21, <2>22
    DEF CallStep, HandlerStep, PublishStep, UnpublishStep
<1>2. CASE BackendStep
  <2>1. ASSUME NEW id \in AttIDs,
               AttachCompletes(id) \/ DetachCompletes(id) \/ LateDetachArrives(id)
        PROVE UnpublishOKMeansGone'
    BY <2>1 DEF AttachCompletes, DetachCompletes, LateDetachArrives
  <2>2. ASSUME NEW p \in Pairs, LateAttachArrives(p) PROVE UnpublishOKMeansGone'
    BY <2>2 DEF LateAttachArrives, Create
  <2>3. ASSUME NEW v \in Volumes, VolumeDeleted(v) PROVE UnpublishOKMeansGone'
    BY <2>3 DEF VolumeDeleted
  <2> QED BY <1>2, <2>1, <2>2, <2>3 DEF BackendStep
<1>3. CASE Exit BY <1>3 DEF Exit
<1>4. CASE UNCHANGED vars BY <1>4 DEF vars
<1> QED BY <1>1, <1>2, <1>3, <1>4 DEF Next

(* Two steps of a call change the attachment records, one sends a detach   *)
(* request that may arrive late.                                           *)
LEMMA RecordsOfCall ==
  ASSUME NEW c \in Calls, CallStep(c)
  PROVE  \/ AttachAccepted(c)
         \/ DetachAccepted(c)
         \/ /\ UNCHANGED <<status, target>>
            /\ UNCHANGED lateDetach \/ DetachTimesOut(c)
  BY DEF CallStep, HandlerStep, PublishStep, UnpublishStep, callVars, backendVars,
      RejectRequest, AcceptRequest, Lock,
      SessionFails, SessionOpens, Unlock, VolumeMissing, VolumeFound,
      AttachFindsExisting, AttachFindsNone, AttachRefused, AttachTimesOut,
      WaitForAttachVolume, WaitForAttachFails, DetachFinds, DetachFindsNone,
      DetachRefused, DetachTimesOut, WaitForDetachVolume, WaitForDetachMasked

(* A new record needs a volume without a live one.                         *)
LEMMA CreateStep ==
  ASSUME TypeOK, OneLivePerVolume, NEW id \in AttIDs, NEW p \in Pairs,
         Attachable(p[1]), Create(id, p), UNCHANGED lateDetach
  PROVE  OneLivePerVolume'
  BY DEF TypeOK, OneLivePerVolume, Attachable, Create, Live, Pairs, Statuses

(* A record that changes its status stays the only live one.               *)
LEMMA StatusStep ==
  ASSUME TypeOK, OneLivePerVolume, NEW id \in AttIDs, Live(id),
         NEW t \in Statuses \ {"none"}, status' = [status EXCEPT ![id] = t],
         UNCHANGED <<target, lateDetach>>
  PROVE  OneLivePerVolume'
  BY DEF TypeOK, OneLivePerVolume, Live, Statuses

(* No interleaving gives a volume a second live record.                    *)
LEMMA OneLiveStep ==
  TypeOK /\ OwnAttachment /\ OneLivePerVolume /\ [Next]_vars => OneLivePerVolume'
<1> SUFFICES ASSUME TypeOK, OwnAttachment, OneLivePerVolume, [Next]_vars
             PROVE  OneLivePerVolume'
  OBVIOUS
<1> USE DEF callVars, backendVars
<1>1. ASSUME NEW c \in Calls, CallStep(c) PROVE OneLivePerVolume'
  <2>1. CASE AttachAccepted(c)
    <3>1. Pair(c) \in Pairs /\ Pair(c)[1] = req[c].vol
      BY DEF Pair, Pairs, TypeOK, Requests
    <3> QED BY <2>1, <3>1, CreateStep DEF AttachAccepted
  <2>2. CASE DetachAccepted(c)
    <3>1. attID[c] \in AttIDs
      BY <2>2 DEF DetachAccepted, OwnAttachment
    <3> QED BY <2>2, <3>1, StatusStep DEF DetachAccepted, Statuses
  <2>3. CASE UNCHANGED <<status, target, lateDetach>>
    BY <2>3 DEF OneLivePerVolume, Live
  <2>4. CASE DetachTimesOut(c)
    BY <2>4 DEF DetachTimesOut, OwnAttachment, OneLivePerVolume, Live
  <2> QED BY <1>1, <2>1, <2>2, <2>3, <2>4, RecordsOfCall
<1>2. CASE BackendStep
  <2>1. ASSUME NEW id \in AttIDs,
               AttachCompletes(id) \/ DetachCompletes(id) \/ LateDetachArrives(id)
        PROVE OneLivePerVolume'
    BY <2>1, StatusStep DEF AttachCompletes, DetachCompletes, LateDetachArrives, Live, Statuses
  <2>2. ASSUME NEW p \in Pairs, LateAttachArrives(p) PROVE OneLivePerVolume'
    <3>1. CASE UNCHANGED <<status, target>>
      BY <2>2, <3>1 DEF LateAttachArrives, OneLivePerVolume, Live
    <3> QED BY <2>2, <3>1, CreateStep DEF LateAttachArrives
  <2>3. ASSUME NEW v \in Volumes, VolumeDeleted(v) PROVE OneLivePerVolume'
    BY <2>3 DEF VolumeDeleted, OneLivePerVolume, Live
  <2> QED BY <1>2, <2>1, <2>2, <2>3 DEF BackendStep
<1>3. CASE Exit \/ UNCHANGED vars
  BY <1>3 DEF Exit, vars, OneLivePerVolume, Live
<1> QED BY <1>1, <1>2, <1>3 DEF Next

(* A handler decides its answer once, in the step that leads to Unlock.    *)
LEMMA DecidedStep == TypeOK /\ Decided /\ [Next]_vars => Decided'
<1> SUFFICES ASSUME TypeOK, Decided, [Next]_vars PROVE Decided'
  OBVIOUS
<1> USE DEF TypeOK, Decided, InFlight, Inside, callVars, backendVars, Go, Answer, StartLoop
<1>1. ASSUME NEW c \in Calls, CallStep(c) PROVE Decided'
  <2>1. CASE RejectRequest(c) \/ AcceptRequest(c) \/ Lock(c) \/ Unlock(c)
    BY <2>1 DEF RejectRequest, AcceptRequest, Lock, Unlock
  <2>2. CASE SessionFails(c) \/ SessionOpens(c)
    BY <2>2 DEF SessionFails, SessionOpens
  <2>3. CASE PublishStep(c)
    <3>1. CASE VolumeMissing(c) \/ VolumeFound(c) \/ AttachFindsExisting(c) \/ AttachFindsNone(c)
      BY <3>1 DEF VolumeMissing, VolumeFound, AttachFindsExisting, AttachFindsNone
    <3>2. CASE AttachAccepted(c) \/ AttachRefused(c) \/ AttachTimesOut(c)
      BY <3>2 DEF AttachAccepted, AttachRefused, AttachTimesOut, Retry
    <3>3. CASE WaitForAttachVolume(c) \/ WaitForAttachFails(c)
      BY <3>3 DEF WaitForAttachVolume, WaitForAttachFails, PollAgain
    <3> QED BY <2>3, <3>1, <3>2, <3>3 DEF PublishStep
  <2>4. CASE UnpublishStep(c)
    <3>1. CASE DetachFinds(c) \/ DetachFindsNone(c)
      BY <3>1 DEF DetachFinds, DetachFindsNone
    <3>2. CASE DetachAccepted(c) \/ DetachRefused(c) \/ DetachTimesOut(c)
      BY <3>2 DEF DetachAccepted, DetachRefused, DetachTimesOut, Retry
    <3>3. CASE WaitForDetachVolume(c) \/ WaitForDetachMasked(c)
      BY <3>3 DEF WaitForDetachVolume, WaitForDetachMasked, PollAgain
    <3> QED BY <2>4, <3>1, <3>2, <3>3 DEF UnpublishStep
  <2> QED BY <1>1, <2>1, <2>2, <2>3, <2>4 DEF CallStep, HandlerStep
<1>2. CASE BackendStep
  BY <1>2 DEF BackendStep, AttachCompletes, DetachCompletes, LateDetachArrives,
              LateAttachArrives, VolumeDeleted
<1>3. CASE Exit
  BY <1>3 DEF Exit
<1>4. CASE UNCHANGED vars
  BY <1>4 DEF vars
<1> QED BY <1>1, <1>2, <1>3, <1>4 DEF Next

-----------------------------------------------------------------------------
(* The inductive invariant holds in every reachable state.                 *)
THEOREM Invariance == Spec => []IndInv
<1>1. Init => IndInv
  BY ConstantsAssumption
  DEF Init, IndInv, TypeOK, LockHeld, InItsHandler, OwnAttachment, OneLivePerVolume, Live,
      Decided, PublishOKMeansAttached, UnpublishOKMeansGone, Returning, PCs, InFlight, Inside, Statuses
<1>2. IndInv /\ [Next]_vars => IndInv'
  BY TypeStep, LockStep, PlaceStep, OwnStep, OneLiveStep, DecidedStep,
     PublishedStep, UnpublishedStep DEF IndInv
<1> QED BY <1>1, <1>2, PTL DEF Spec

(* The variables of the calls, the lock store and the backend always have  *)
(* their types, whatever the calls do and whenever requests arrive.        *)
THEOREM TypeCorrect == Spec => []TypeOK
<1>1. IndInv => TypeOK
  BY DEF IndInv
<1> QED BY <1>1, Invariance, PTL

(* With the lock enabled, at most one attach or detach operation of a node *)
(* is active at any time (controller.go:225, 305).                         *)
THEOREM MutualExclusion == Spec => []OneOperationPerNode
<1>1. IndInv => OneOperationPerNode
  BY Exclusive DEF IndInv
<1> QED BY <1>1, Invariance, PTL

(* An OK of ControllerPublishVolume names an attachment of the requested   *)
(* volume to the requested node that is attached as the call leaves.       *)
THEOREM PublishIsSafe == Spec => []PublishOKMeansAttached
<1>1. IndInv => PublishOKMeansAttached
  BY DEF IndInv
<1> QED BY <1>1, Invariance, PTL

(* An OK of ControllerUnpublishVolume that rests on a real "not found"     *)
(* means that no attachment of the volume to the node is left.             *)
THEOREM UnpublishIsSafe == Spec => []UnpublishOKMeansGone
<1>1. IndInv => UnpublishOKMeansGone
  BY DEF IndInv
<1> QED BY <1>1, Invariance, PTL

(* An attachment starts to go away only in the detach step of an unpublish *)
(* call for exactly that volume and node, which holds the node's mutex, or *)
(* when a detach request that such a call gave up on arrives late.         *)
THEOREM DetachIsOwned == Spec => DetachedOnlyByOwner
<1> DEFINE Owned(id) ==
      \/ id \in lateDetach
      \/ \E c \in Calls :
           /\ Unpublishing(c)
           /\ pc[c] = "detach"
           /\ target[id] = Pair(c)
           /\ LockEnabled => lock[req[c].node] = c
<1>1. ASSUME IndInv, [Next]_vars, NEW id \in AttIDs,
             status[id] \in {"attaching", "attached"}, status'[id] = "detaching"
      PROVE  Owned(id)
  <2> USE <1>1 DEF IndInv, TypeOK, callVars, backendVars
  <2>1. ASSUME NEW c \in Calls, CallStep(c) PROVE Owned(id)
    <3>1. CASE AttachAccepted(c)
      BY <3>1 DEF AttachAccepted, Create, Statuses
    <3>2. CASE DetachAccepted(c)
      BY <3>2 DEF DetachAccepted, OwnAttachment, InItsHandler, LockHeld, Inside
    <3>3. CASE UNCHANGED status
      BY <3>3
    <3> QED
      BY <2>1, <3>1, <3>2, <3>3
      DEF CallStep, HandlerStep, PublishStep, UnpublishStep, RejectRequest, AcceptRequest, Lock, SessionFails,
          SessionOpens, Unlock, VolumeMissing, VolumeFound,
          AttachFindsExisting, AttachFindsNone, AttachAccepted, AttachRefused,
          AttachTimesOut, WaitForAttachVolume, WaitForAttachFails, DetachFinds,
          DetachFindsNone, DetachAccepted, DetachRefused, DetachTimesOut,
          WaitForDetachVolume, WaitForDetachMasked
  <2>2. CASE BackendStep
    BY <2>2 DEF BackendStep, AttachCompletes, DetachCompletes, LateDetachArrives,
                LateAttachArrives, Create, VolumeDeleted, Statuses
  <2>3. CASE Exit \/ UNCHANGED vars
    BY <2>3 DEF Exit, vars
  <2> QED BY <2>1, <2>2, <2>3 DEF Next
<1>2. IndInv /\ [Next]_vars =>
        [\A id \in AttIDs :
           status[id] \in {"attaching", "attached"} /\ status'[id] = "detaching"
             => Owned(id)]_vars
  BY <1>1
<1> QED BY <1>2, Invariance, PTL DEF Spec, DetachedOnlyByOwner
-----------------------------------------------------------------------------
(* The refinement of AttachService.                                        *)

(* What the links are, one by one.                                         *)
LEMMA LinksAre ==
  \A p, s : <<p, s>> \in Links <=>
    \E id \in AttIDs : Live(id) /\ target[id] = p /\ status[id] = s
  BY DEF Links

(* A call sees an attachment exactly when the service has a link.          *)
LEMMA LinkedIsFound ==
  ASSUME TypeOK, NEW p \in Pairs
  PROVE  Service!Linked(p) <=> AttachmentsOf(p) # {}
<1>1. ASSUME NEW id \in AttachmentsOf(p) PROVE Service!Linked(p)
  BY LinksAre DEF AttachmentsOf, Live, Service!Linked
<1>2. ASSUME Service!Linked(p) PROVE AttachmentsOf(p) # {}
  BY <1>2, LinksAre DEF AttachmentsOf, Service!Linked
<1> QED BY <1>1, <1>2

(* The backend attaches a volume only if it has no link.                   *)
LEMMA AttachableIsFree ==
  ASSUME TypeOK, NEW v \in Volumes, Attachable(v) PROVE Service!Free(v)
<1> SUFFICES ASSUME NEW n \in Nodes, Service!Linked(<<v, n>>) PROVE FALSE
  BY DEF Service!Free
<1>1. PICK id \in AttIDs : Live(id) /\ target[id] = <<v, n>>
  BY LinksAre DEF Service!Linked
<1> QED BY <1>1 DEF Attachable

(* A new record is a new link, and no detach request can be under way.     *)
LEMMA CreateLinks ==
  ASSUME TypeOK, OneLivePerVolume, NEW id \in AttIDs, NEW p \in Pairs,
         Create(id, p), UNCHANGED lateDetach
  PROVE  /\ Links' = Links \cup {<<p, "attaching">>}
         /\ Doomed' = Doomed
<1>1. /\ ~Live(id) /\ Live(id)' /\ target'[id] = p /\ status'[id] = "attaching"
      /\ \A i \in AttIDs \ {id} : target'[i] = target[i] /\ status'[i] = status[i]
  BY DEF Create, TypeOK, Live
<1>2. \A i \in AttIDs \ {id} : Live(i)' <=> Live(i)
  BY <1>1 DEF Live
<1>3. Links' \subseteq Links \cup {<<p, "attaching">>}
  BY <1>1, <1>2 DEF Links
<1>4. Links \cup {<<p, "attaching">>} \subseteq Links'
  BY <1>1, <1>2 DEF Links
<1>5. id \notin lateDetach
  BY DEF OneLivePerVolume, Create
<1>6. Doomed' = Doomed
  BY <1>1, <1>2, <1>5 DEF Doomed, TypeOK
<1> QED BY <1>3, <1>4, <1>6

(* A record that moves on moves its link and no other.                     *)
LEMMA MoveLinks ==
  ASSUME TypeOK, OneLivePerVolume, NEW id \in AttIDs, Live(id),
         NEW t \in {"attaching", "attached", "detaching"},
         status' = [status EXCEPT ![id] = t], UNCHANGED <<target, lateDetach>>
  PROVE  /\ Links' = Service!Moved(target[id], status[id], t)
         /\ Doomed' = Doomed
<1>1. /\ Live(id)' /\ status'[id] = t
      /\ \A i \in AttIDs \ {id} : status'[i] = status[i]
  BY DEF TypeOK, Live
<1>2. \A i \in AttIDs : Live(i)' <=> Live(i)
  BY <1>1 DEF Live
<1>3. \A i \in AttIDs : Live(i) /\ target[i] = target[id] => i = id
  BY DEF OneLivePerVolume
<1>4. Links' \subseteq Service!Moved(target[id], status[id], t)
  BY <1>1, <1>2, <1>3 DEF Links, Service!Moved
<1>5. Service!Moved(target[id], status[id], t) \subseteq Links'
  BY <1>1, <1>2, <1>3 DEF Links, Service!Moved
<1>6. Doomed' = Doomed
  BY <1>2 DEF Doomed, TypeOK
<1> QED BY <1>4, <1>5, <1>6

(* A record that goes takes its link, and the request that doomed it.      *)
LEMMA DropLinks ==
  ASSUME TypeOK, OneLivePerVolume, NEW id \in AttIDs, Live(id),
         status' = [status EXCEPT ![id] = "gone"], UNCHANGED <<target, lateDetach>>
  PROVE  /\ Links' = Links \ {<<target[id], status[id]>>}
         /\ Doomed' = Doomed \ {target[id][1]}
<1>1. /\ ~Live(id)'
      /\ \A i \in AttIDs \ {id} : status'[i] = status[i]
  BY DEF TypeOK, Live
<1>2. \A i \in AttIDs \ {id} : Live(i)' <=> Live(i)
  BY <1>1 DEF Live
<1>3. \A i \in AttIDs : Live(i) /\ target[i][1] = target[id][1] => i = id
  BY DEF OneLivePerVolume
<1>4. Links' \subseteq Links \ {<<target[id], status[id]>>}
  BY <1>1, <1>2, <1>3 DEF Links
<1>5. Links \ {<<target[id], status[id]>>} \subseteq Links'
  BY <1>1, <1>2, <1>3 DEF Links
<1>6. Doomed' \subseteq Doomed \ {target[id][1]}
  BY <1>1, <1>2, <1>3 DEF Doomed, TypeOK
<1>7. Doomed \ {target[id][1]} \subseteq Doomed'
  BY <1>1, <1>2, <1>3 DEF Doomed, TypeOK
<1> QED BY <1>4, <1>5, <1>6, <1>7

(* Without a change of the records the service sees none.                  *)
LEMMA KeepLinks ==
  ASSUME UNCHANGED <<status, target>>
  PROVE  Links' = Links /\ (UNCHANGED lateDetach => Doomed' = Doomed)
  BY DEF Links, Doomed, Live

(* A call in its handler works for the service on its own node.            *)
LEMMA InsideWorks ==
  ASSUME IndInv, LockEnabled, NEW c \in Calls
  PROVE  /\ pc[c] \in {"attach", "waitAttach"} => Service!Working(c, "publish")
         /\ pc[c] \in {"detachFind", "detach", "waitDetach"} => Service!Working(c, "unpublish")
         /\ pc[c] \in (InFlight \cup {"idle"}) \ {"return"} => resp[c] = "none"
         /\ Service!Pair(c) = Pair(c) /\ Pair(c) \in Pairs /\ Pair(c)[1] = req[c].vol
  BY DEF IndInv, TypeOK, Requests, LockHeld, InItsHandler, Decided, Publishing, Unpublishing,
         Inside, InFlight, Pair, Pairs, Service!Working, Service!Owns, Service!Pair

(* The steps of a call that only change where it is, or end it in error.   *)
LEMMA QuietStep ==
  ASSUME IndInv, LockEnabled, NEW c \in Calls,
         pc[c] \in (InFlight \cup {"idle"}) \ {"return"},
         UNCHANGED <<req, lock, status, target, lateAttach, lateDetach, masked>>,
         UNCHANGED resp \/ resp' = [resp EXCEPT ![c] = "error"]
  PROVE  Service!Fail(c) \/ UNCHANGED Service!vars
  BY KeepLinks, InsideWorks DEF Service!Fail, Service!Decide, Service!vars

(* Every step of a call is a step of the service, or invisible to it.      *)
LEMMA CallRefines ==
  ASSUME IndInv, LockEnabled, NEW c \in Calls, CallStep(c)
  PROVE  Service!Next \/ UNCHANGED Service!vars
<1> USE DEF callVars, backendVars, Go, Answer, StartLoop
<1>1. CASE RejectRequest(c) \/ AcceptRequest(c)
  BY <1>1, QuietStep DEF RejectRequest, AcceptRequest, InFlight, Inside, Service!Next
<1>2. CASE Lock(c)
  <2>1. Service!Start(c)
    BY <1>2, KeepLinks, InsideWorks DEF Lock, InFlight, Inside, Service!Start
  <2> QED BY <2>1 DEF Service!Next
<1>3. CASE Unlock(c)
  <2>1. Service!Release(c)
    BY <1>3, KeepLinks
    DEF Unlock, IndInv, LockHeld, Decided, Inside, Service!Release, Service!Owns
  <2> QED BY <2>1 DEF Service!Next
<1>4. CASE SessionFails(c) \/ SessionOpens(c)
  BY <1>4, QuietStep DEF SessionFails, SessionOpens, InFlight, Inside, Service!Next
<1>5. CASE \/ VolumeMissing(c) \/ VolumeFound(c)
           \/ AttachFindsExisting(c) \/ AttachFindsNone(c)
  BY <1>5, QuietStep
  DEF VolumeMissing, VolumeFound, AttachFindsExisting, AttachFindsNone,
      InFlight, Inside, Service!Next
<1>6. CASE AttachAccepted(c)
  <2>1. PICK id \in AttIDs : Create(id, Pair(c))
    BY <1>6 DEF AttachAccepted
  <2>2. Links' = Links \cup {<<Pair(c), "attaching">>} /\ Doomed' = Doomed
    BY <1>6, <2>1, InsideWorks, CreateLinks DEF AttachAccepted, IndInv
  <2>3. Service!Free(req[c].vol)
    BY <1>6, AttachableIsFree DEF AttachAccepted, IndInv, TypeOK, Requests
  <2>4. Service!Attach(c)
    BY <1>6, <2>2, <2>3, InsideWorks DEF AttachAccepted, Service!Attach
  <2> QED BY <2>4 DEF Service!Next
<1>7. CASE AttachRefused(c)
  BY <1>7, QuietStep DEF AttachRefused, Retry, InFlight, Inside, Service!Next
<1>8. CASE AttachTimesOut(c)
  <2>1. CASE UNCHANGED lateAttach
    BY <1>8, <2>1, QuietStep DEF AttachTimesOut, Retry, InFlight, Inside, Service!Next
  <2>2. CASE lateAttach' = lateAttach \cup {Pair(c)}
    <3>1. UNCHANGED resp \/ resp' = [resp EXCEPT ![c] = "error"]
      BY <1>8 DEF AttachTimesOut, Retry
    <3>2. Service!AbandonAttach(c)
      BY <1>8, <2>2, <3>1, KeepLinks, InsideWorks
      DEF AttachTimesOut, Service!AbandonAttach, Service!Decide
    <3> QED BY <3>2 DEF Service!Next
  <2> QED BY <1>8, <2>1, <2>2 DEF AttachTimesOut
<1>9. CASE WaitForAttachVolume(c)
  <2>1. CASE status[attID[c]] = "attached" /\ Answer(c, "ok")
    <3>1. attID[c] \in AttIDs /\ target[attID[c]] = Pair(c)
      BY <1>9 DEF WaitForAttachVolume, IndInv, OwnAttachment
    <3>2. <<Pair(c), "attached">> \in Links
      BY <2>1, <3>1, LinksAre DEF Live
    <3>3. Service!Succeed(c)
      BY <1>9, <2>1, <3>2, KeepLinks, InsideWorks
      DEF WaitForAttachVolume, Service!Succeed, Service!Decide
    <3> QED BY <3>3 DEF Service!Next
  <2>2. CASE PollAgain(c)
    BY <1>9, <2>2, QuietStep DEF WaitForAttachVolume, PollAgain, InFlight, Inside, Service!Next
  <2> QED BY <1>9, <2>1, <2>2 DEF WaitForAttachVolume
<1>10. CASE WaitForAttachFails(c)
  BY <1>10, QuietStep DEF WaitForAttachFails, InFlight, Inside, Service!Next
<1>11. CASE DetachFinds(c)
  BY <1>11, QuietStep DEF DetachFinds, InFlight, Inside, Service!Next
<1>12. CASE DetachFindsNone(c)
  <2>1. CASE UNCHANGED masked
    BY <1>12, <2>1, QuietStep DEF DetachFindsNone, InFlight, Inside, Service!Next
  <2>2. CASE masked' = masked \cup {c}
    <3>1. Service!Misread(c)
      BY <1>12, <2>2, KeepLinks, InsideWorks DEF DetachFindsNone, Service!Misread
    <3> QED BY <3>1 DEF Service!Next
  <2> QED BY <1>12, <2>1, <2>2 DEF DetachFindsNone
<1>13. CASE DetachAccepted(c)
  <2>1. attID[c] \in AttIDs /\ target[attID[c]] = Pair(c)
    BY <1>13 DEF DetachAccepted, IndInv, OwnAttachment
  <2>2. /\ Links' = Service!Moved(Pair(c), status[attID[c]], "detaching")
        /\ Doomed' = Doomed
    BY <1>13, <2>1, MoveLinks DEF DetachAccepted, IndInv
  <2>3. <<Pair(c), status[attID[c]]>> \in Links
    BY <1>13, <2>1, LinksAre DEF DetachAccepted
  <2>4. CASE status[attID[c]] = "detaching"
    <3>1. Links' = Links
      BY <2>2, <2>3, <2>4 DEF Service!Moved
    <3> QED BY <1>13, <2>2, <3>1 DEF DetachAccepted, Service!vars
  <2>5. CASE status[attID[c]] \in {"attaching", "attached"}
    <3>1. Service!Detach(c)
      BY <1>13, <2>2, <2>3, <2>5, InsideWorks DEF DetachAccepted, Service!Detach
    <3> QED BY <3>1 DEF Service!Next
  <2> QED BY <1>13, <2>4, <2>5 DEF DetachAccepted, Live
<1>14. CASE DetachRefused(c)
  BY <1>14, QuietStep DEF DetachRefused, InFlight, Inside, Service!Next
<1>15. CASE DetachTimesOut(c)
  <2>1. UNCHANGED resp \/ resp' = [resp EXCEPT ![c] = "error"]
    BY <1>15 DEF DetachTimesOut, Retry
  <2>2. attID[c] \in AttIDs /\ target[attID[c]] = Pair(c)
    BY <1>15 DEF DetachTimesOut, IndInv, OwnAttachment
  <2>3. UNCHANGED Links
    BY <1>15, KeepLinks DEF DetachTimesOut
  <2>4. CASE Doomed' = Doomed
    BY <1>15, <2>1, <2>3, <2>4, InsideWorks
    DEF DetachTimesOut, InFlight, Inside, Service!Fail, Service!Decide, Service!vars, Service!Next
  <2>5. CASE Live(attID[c]) /\ lateDetach' = lateDetach \cup {attID[c]}
    <3>1. Doomed' = Doomed \cup {req[c].vol}
      <4>1. \A id \in AttIDs : Live(id)' <=> Live(id)
        BY <1>15 DEF DetachTimesOut, Live
      <4>2. target' = target /\ target[attID[c]][1] = req[c].vol
        BY <1>15, <2>2, InsideWorks DEF DetachTimesOut
      <4> QED BY <2>2, <2>5, <4>1, <4>2 DEF Doomed, IndInv, TypeOK
    <3>2. Service!Linked(Pair(c))
      BY <2>2, <2>5, InsideWorks, LinkedIsFound DEF AttachmentsOf, IndInv
    <3>3. Service!AbandonDetach(c)
      BY <1>15, <2>1, <2>3, <3>1, <3>2, InsideWorks
      DEF DetachTimesOut, Service!AbandonDetach, Service!Decide
    <3> QED BY <3>3 DEF Service!Next
  <2>6. CASE ~Live(attID[c]) /\ lateDetach' = lateDetach \cup {attID[c]}
    <3>1. Doomed' = Doomed
      <4>1. \A id \in AttIDs : Live(id)' <=> Live(id)
        BY <1>15 DEF DetachTimesOut, Live
      <4>2. target' = target
        BY <1>15 DEF DetachTimesOut
      <4> QED BY <2>2, <2>6, <4>1, <4>2 DEF Doomed, IndInv, TypeOK
    <3> QED BY <2>4, <3>1
  <2>7. CASE UNCHANGED lateDetach
    BY <1>15, <2>4, <2>7, KeepLinks DEF DetachTimesOut
  <2> QED BY <1>15, <2>5, <2>6, <2>7 DEF DetachTimesOut
<1>16. CASE WaitForDetachVolume(c)
  <2>1. CASE AttachmentsOf(Pair(c)) = {} /\ Answer(c, "ok")
    <3>1. ~Service!Linked(Pair(c))
      BY <2>1, InsideWorks, LinkedIsFound DEF IndInv
    <3>2. Service!Succeed(c)
      BY <1>16, <2>1, <3>1, KeepLinks, InsideWorks
      DEF WaitForDetachVolume, Service!Succeed, Service!Decide
    <3> QED BY <3>2 DEF Service!Next
  <2>2. CASE PollAgain(c)
    BY <1>16, <2>2, QuietStep DEF WaitForDetachVolume, PollAgain, InFlight, Inside, Service!Next
  <2> QED BY <1>16, <2>1, <2>2 DEF WaitForDetachVolume
<1>17. CASE WaitForDetachMasked(c)
  <2>1. Service!Misread(c)
    BY <1>17, KeepLinks, InsideWorks DEF WaitForDetachMasked, Service!Misread, Service!Decide
  <2> QED BY <2>1 DEF Service!Next
<1> QED
  BY <1>1, <1>2, <1>3, <1>4, <1>5, <1>6, <1>7, <1>8, <1>9, <1>10, <1>11, <1>12, <1>13,
     <1>14, <1>15, <1>16, <1>17
  DEF CallStep, HandlerStep, PublishStep, UnpublishStep

(* So is every step of the backend, whatever arrives late.                 *)
LEMMA BackendRefines ==
  ASSUME IndInv, BackendStep
  PROVE  Service!Next \/ UNCHANGED Service!vars
<1> USE DEF callVars, backendVars
<1>1. ASSUME NEW id \in AttIDs, AttachCompletes(id) PROVE Service!Next
  <2>1. Live(id) /\ target[id] \in Pairs /\ <<target[id], "attaching">> \in Links
    BY <1>1, LinksAre DEF AttachCompletes, IndInv, OneLivePerVolume, Live
  <2>2. Links' = Service!Moved(target[id], "attaching", "attached") /\ Doomed' = Doomed
    BY <1>1, <2>1, MoveLinks DEF AttachCompletes, IndInv
  <2>3. Service!Settle(target[id])
    BY <1>1, <2>1, <2>2 DEF AttachCompletes, Service!Settle
  <2> QED BY <2>1, <2>3 DEF Service!Next, Pairs
<1>2. ASSUME NEW id \in AttIDs, DetachCompletes(id) PROVE Service!Next
  <2>1. Live(id) /\ target[id] \in Pairs /\ <<target[id], "detaching">> \in Links
    BY <1>2, LinksAre DEF DetachCompletes, IndInv, OneLivePerVolume, Live
  <2>2. /\ Links' = Links \ {<<target[id], "detaching">>}
        /\ Doomed' = Doomed \ {target[id][1]}
    BY <1>2, <2>1, DropLinks DEF DetachCompletes, IndInv
  <2>3. Service!Settle(target[id])
    BY <1>2, <2>1, <2>2 DEF DetachCompletes, Service!Settle
  <2> QED BY <2>1, <2>3 DEF Service!Next, Pairs
<1>3. ASSUME NEW id \in AttIDs, LateDetachArrives(id) PROVE Service!Next
  <2>1. Live(id) /\ target[id] \in Pairs /\ <<target[id], status[id]>> \in Links
    BY <1>3, LinksAre DEF LateDetachArrives, IndInv, OneLivePerVolume, Live
  <2>2. Links' = Service!Moved(target[id], status[id], "detaching") /\ Doomed' = Doomed
    BY <1>3, <2>1, MoveLinks DEF LateDetachArrives, IndInv
  <2>3. target[id][1] \in Doomed
    BY <1>3, <2>1 DEF LateDetachArrives, Doomed
  <2>4. Service!LateDetach(target[id])
    BY <1>3, <2>1, <2>2, <2>3 DEF LateDetachArrives, Service!LateDetach
  <2> QED BY <2>1, <2>4 DEF Service!Next, Pairs
<1>4. ASSUME NEW p \in Pairs, LateAttachArrives(p) PROVE Service!Next
  <2>1. CASE Attachable(p[1])
    <3>1. PICK id \in AttIDs : Create(id, p)
      BY <1>4, <2>1 DEF LateAttachArrives
    <3>2. Links' = Links \cup {<<p, "attaching">>} /\ Doomed' = Doomed
      BY <1>4, <3>1, CreateLinks DEF LateAttachArrives, IndInv
    <3>3. Service!Free(p[1])
      BY <2>1, AttachableIsFree DEF IndInv, Pairs
    <3> QED BY <1>4, <3>2, <3>3 DEF LateAttachArrives, Service!LateAttach, Service!Next, Pairs
  <2>2. CASE ~Attachable(p[1])
    BY <1>4, <2>2, KeepLinks DEF LateAttachArrives, Service!LateAttach, Service!Next, Pairs
  <2> QED BY <2>1, <2>2
<1>5. ASSUME NEW v \in Volumes, VolumeDeleted(v) PROVE UNCHANGED Service!vars
  BY <1>5, KeepLinks DEF VolumeDeleted, Service!vars
<1> QED BY <1>1, <1>2, <1>3, <1>4, <1>5 DEF BackendStep

(* With the lock enabled, the handlers with their retry and poll loops,    *)
(* the lock store and the backend's records implement the abstract         *)
(* service: one call at a time per node, one link per volume, and every    *)
(* answer true of the links at the moment it is decided.                   *)
THEOREM RefinesService == ASSUME LockEnabled PROVE Spec => ImplementsService
<1>1. Init => Service!Init
  BY DEF Init, Requests, Links, Doomed, Live, Service!Init
<1>2. IndInv /\ [Next]_vars => [Service!Next]_Service!vars
  <2> SUFFICES ASSUME IndInv, [Next]_vars PROVE Service!Next \/ UNCHANGED Service!vars
    OBVIOUS
  <2>1. CASE Exit
    BY <2>1, KeepLinks
    DEF Exit, callVars, backendVars, Service!Crash, Service!Next
  <2>2. CASE UNCHANGED vars
    BY <2>2, KeepLinks DEF vars, callVars, backendVars, Service!vars
  <2> QED BY <2>1, <2>2, CallRefines, BackendRefines DEF Next
<1> QED BY <1>1, <1>2, Invariance, PTL DEF Spec, ImplementsService, Service!Spec
=============================================================================
