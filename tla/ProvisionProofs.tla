-------------------------- MODULE ProvisionProofs --------------------------
(***************************************************************************)
(* What the answers of CreateVolume, DeleteVolume and                      *)
(* ControllerExpandVolume mean, for every number of calls, names, volumes  *)
(* and attempts.                                                           *)
(*                                                                         *)
(* No lock protects these calls, so the argument cannot be about who owns  *)
(* a volume.  It is about what the backend never takes back (Evolves): a   *)
(* volume keeps its name, does not shrink, is never pending a second time  *)
(* and does not return from its deletion.  Whatever a call has seen of its *)
(* volume in these terms is still true when it answers, and afterwards.    *)
(***************************************************************************)
EXTENDS Provision, TLAPS

OK(c) == pc[c] = "done" /\ resp[c] = "ok"

(* A call is in the part of the code its operation belongs to.             *)
InItsHandler(c) ==
  /\ pc[c] = "create" => req[c].op = "create"
  /\ pc[c] \in {"delete", "waitGone"} => req[c].op = "delete"
  /\ pc[c] \in {"reread", "expand"} => req[c].op = "expand"
  /\ pc[c] = "waitValid" => req[c].op # "delete"

(* A call that has a volume in hand has one that the backend once made.    *)
HasVolume(c) ==
  \/ pc[c] \in {"delete", "waitGone", "reread", "expand", "waitValid"}
  \/ pc[c] = "lookup" /\ req[c].op # "create"
  \/ OK(c)
  => vol[c] \in IDs /\ state[vol[c]] # "none"

(* From the backend's acceptance on, a create or an expansion has what it  *)
(* asked for, and a deletion is under way.                                 *)
Granted(c) ==
  /\ req[c].op = "create" /\ (pc[c] = "waitValid" \/ OK(c)) =>
       name[vol[c]] = {req[c].name} /\ cap[vol[c]] >= req[c].size
  /\ req[c].op = "expand" /\ (pc[c] = "waitValid" \/ OK(c)) =>
       cap[vol[c]] * GiB >= req[c].size
  /\ pc[c] = "waitGone" => state[vol[c]] \in {"deleting", "gone"}

(* What an answer says about the state of the volume.                      *)
Settled(c) ==
  /\ Done(c, "create") => c \in found \/ state[vol[c]] \notin {"none", "pending"}
  /\ Done(c, "delete") =>
       \/ state[vol[c]] = "gone"
       \/ c \in gaveUp /\ state[vol[c]] = "deleting"
       \/ c \in masked

CallInv(c) == InItsHandler(c) /\ HasVolume(c) /\ Granted(c) /\ Settled(c)

OneName == \A id \in IDs : state[id] # "none" => \E n \in Names : name[id] = {n}

IndInv ==
  /\ TypeOK
  /\ OneName
  /\ \A c \in Calls : CallInv(c)

(* What no step takes back from a volume that was made.                    *)
Evolves ==
  \A id \in IDs : state[id] # "none" =>
    /\ state'[id] # "none"
    /\ name'[id] = name[id]
    /\ cap'[id] >= cap[id]
    /\ state[id] # "pending" => state'[id] # "pending"
    /\ state[id] \in {"deleting", "gone"} => state'[id] \in {"deleting", "gone"}
    /\ state[id] = "gone" => state'[id] = "gone"

(* A step that is not the call's own leaves it alone or ends it.           *)
Bystander(c) ==
  /\ req'[c] = req[c] /\ vol'[c] = vol[c] /\ resp'[c] = resp[c]
  /\ pc'[c] \in {pc[c], "dead"}
  /\ found \subseteq found' /\ masked \subseteq masked' /\ gaveUp \subseteq gaveUp'

-----------------------------------------------------------------------------
(* Rounding up to whole GiB loses none of the bytes.                       *)
LEMMA RoundUpEnough ==
  ASSUME NEW b \in Nat
  PROVE  RoundUpSize(b) \in Nat /\ RoundUpSize(b) * GiB >= b
<1> DEFINE x == b + GiB - 1
<1>1. GiB \in Nat /\ GiB > 0 /\ x \in Nat
  BY ProvisionAssumption
<1>2. x = GiB * (x \div GiB) + (x % GiB) /\ x % GiB \in 0..(GiB - 1) /\ x \div GiB \in Nat
  BY <1>1
<1>3. RoundUpSize(b) = x \div GiB
  BY DEF RoundUpSize
<1> QED BY <1>1, <1>2, <1>3

(* More GiB are more bytes, and n GiB are at least n bytes.                *)
LEMMA Bytes ==
  ASSUME NEW m \in Nat, NEW n \in Nat, n >= m
  PROVE  n * GiB >= m * GiB /\ n * GiB >= n
<1>1. GiB \in Nat /\ GiB >= 1
  BY ProvisionAssumption
<1> QED BY <1>1

(* retry keeps the types of the variables it changes, and its only answer  *)
(* is an error.                                                            *)
LEMMA RetryFacts ==
  ASSUME TypeOK, NEW c \in Calls, Retry(c)
  PROVE  /\ tries' \in [Calls -> Nat]
         /\ \/ pc' = pc /\ resp' = resp
            \/ pc' = [pc EXCEPT ![c] = "done"] /\ resp' = [resp EXCEPT ![c] = "error"]
<1>1. tries[c] + 1 \in Nat
  BY DEF TypeOK
<1> QED BY <1>1 DEF Retry, Answer, Go, TypeOK

(* The parts of a request.                                                 *)
LEMMA RequestTypes ==
  ASSUME NEW r \in Requests
  PROVE  r.op \in {"create", "delete", "expand"} /\ r.name \in Names /\ r.size \in Nat
<1>1. CASE r \in Creates BY <1>1, ProvisionAssumption DEF Creates
<1>2. CASE r \in Deletes BY <1>2 DEF Deletes
<1>3. CASE r \in Expands BY <1>3, ProvisionAssumption DEF Expands
<1> QED BY <1>1, <1>2, <1>3 DEF Requests

(* Every step keeps the types.                                             *)
LEMMA TypeStep == IndInv /\ [Next]_vars => TypeOK'
<1> SUFFICES ASSUME IndInv, [Next]_vars PROVE TypeOK'
  OBVIOUS
<1> USE ProvisionAssumption DEF IndInv, TypeOK, Running, States, history, callVars,
        backendVars, Go, Answer, StartLoop
<1>1. ASSUME NEW c \in Calls, Retry(c),
             UNCHANGED <<req, vol, history, state, name, cap>>,
             late' \in SUBSET LateRequests
      PROVE  TypeOK'
  <2>1. /\ tries' \in [Calls -> Nat]
        /\ \/ pc' = pc /\ resp' = resp
           \/ pc' = [pc EXCEPT ![c] = "done"] /\ resp' = [resp EXCEPT ![c] = "error"]
    BY <1>1, RetryFacts
  <2> QED BY <1>1, <2>1
<1>2. ASSUME NEW c \in Calls, CallStep(c) PROVE TypeOK'
  <2>0. req[c].name \in Names /\ req[c].size \in Nat
    BY RequestTypes
  <2>1. CASE Begin(c)
    <3>1. CASE req[c].op = "create" /\ UNCHANGED vol
      BY <2>1, <3>1 DEF Begin
    <3>2. CASE \E id \in Known(req[c].name) : vol' = [vol EXCEPT ![c] = id]
      BY <2>1, <3>2 DEF Begin, Known
    <3> QED BY <2>1, <3>1, <3>2 DEF Begin
  <2>2. CASE Reject(c) BY <2>2 DEF Reject
  <2>3. CASE CreateFindsExisting(c) BY <2>3 DEF CreateFindsExisting, Named
  <2>4. CASE CreateFindsNone(c) BY <2>4 DEF CreateFindsNone
  <2>5. CASE CreateAccepted(c)
    BY <2>0, <2>5 DEF CreateAccepted, MakeVolume
  <2>6. CASE CreateRefused(c) BY <1>1, <2>6 DEF CreateRefused
  <2>7. CASE CreateInvalid(c) BY <2>7 DEF CreateInvalid
  <2>8. CASE CreateTimesOut(c)
    BY <1>1, <2>0, <2>8 DEF CreateTimesOut, LateRequests
  <2>9. CASE WaitForValidVolumeState(c)
    <3>1. CASE \E r \in {"ok", "error"} : Answer(c, r) /\ UNCHANGED tries
      BY <2>9, <3>1 DEF WaitForValidVolumeState
    <3>2. CASE Retry(c)
      BY <1>1, <2>9, <3>2 DEF WaitForValidVolumeState
    <3> QED BY <2>9, <3>1, <3>2 DEF WaitForValidVolumeState
  <2>10. CASE WaitForValidFails(c) BY <1>1, <2>10 DEF WaitForValidFails
  <2>11. CASE DeleteFinds(c) BY <2>11 DEF DeleteFinds
  <2>12. CASE DeleteFindsNone(c) BY <2>12 DEF DeleteFindsNone
  <2>13. CASE DeleteAccepted(c) BY <2>13 DEF DeleteAccepted
  <2>14. CASE DeleteRefused(c)
    <3>1. CASE Retry(c) BY <1>1, <2>14, <3>1 DEF DeleteRefused
    <3>2. CASE Answer(c, "error") /\ UNCHANGED tries BY <2>14, <3>2 DEF DeleteRefused
    <3> QED BY <2>14, <3>1, <3>2 DEF DeleteRefused
  <2>15. CASE DeleteTimesOut(c)
    <3>1. vol[c] \in IDs
      BY <2>15 DEF DeleteTimesOut, CallInv, HasVolume
    <3> QED BY <1>1, <2>15, <3>1 DEF DeleteTimesOut, LateRequests
  <2>16. CASE WaitForVolumeDeletion(c)
    <3>1. CASE Answer(c, "ok") /\ UNCHANGED tries /\ gaveUp' \in {gaveUp, gaveUp \cup {c}}
      BY <2>16, <3>1 DEF WaitForVolumeDeletion
    <3>2. CASE tries' = [tries EXCEPT ![c] = @ + 1] /\ UNCHANGED <<pc, resp, gaveUp>>
      BY <2>16, <3>2 DEF WaitForVolumeDeletion
    <3> QED BY <2>16, <3>1, <3>2 DEF WaitForVolumeDeletion
  <2>17. CASE WaitForVolumeDeletionPanics(c)
    BY <2>17 DEF WaitForVolumeDeletionPanics, Die
  <2>18. CASE ExpandFinds(c) BY <2>18 DEF ExpandFinds
  <2>19. CASE ExpandReadFails(c) BY <2>19 DEF ExpandReadFails
  <2>20. CASE ExpandReads(c) BY <2>20 DEF ExpandReads
  <2>21. CASE ExpandAccepted(c)
    <3>1. RoundUpSize(req[c].size) \in Nat
      BY <2>0, RoundUpEnough
    <3> QED BY <2>21, <3>1 DEF ExpandAccepted, Grow
  <2>22. CASE ExpandRefused(c)
    <3>1. CASE Retry(c) BY <1>1, <2>22, <3>1 DEF ExpandRefused
    <3>2. CASE Answer(c, "error") /\ UNCHANGED tries BY <2>22, <3>2 DEF ExpandRefused
    <3> QED BY <2>22, <3>1, <3>2 DEF ExpandRefused
  <2>23. CASE ExpandTimesOut(c)
    <3>1. vol[c] \in IDs
      BY <2>23 DEF ExpandTimesOut, CallInv, HasVolume
    <3>2. RoundUpSize(req[c].size) \in Nat
      BY <2>0, RoundUpEnough
    <3> QED BY <1>1, <2>23, <3>1, <3>2 DEF ExpandTimesOut, LateRequests
  <2> QED
    BY <1>2, <2>1, <2>2, <2>3, <2>4, <2>5, <2>6, <2>7, <2>8, <2>9, <2>10, <2>11, <2>12,
       <2>13, <2>14, <2>15, <2>16, <2>17, <2>18, <2>19, <2>20, <2>21, <2>22, <2>23
    DEF CallStep, CreateStep, DeleteStep, ExpandStep
<1>3. ASSUME NEW id \in IDs, BecomesAvailable(id) \/ BecomesGone(id) PROVE TypeOK'
  BY <1>3 DEF BecomesAvailable, BecomesGone
<1>4. ASSUME NEW r \in late, LateArrives(r) PROVE TypeOK'
  <2>1. r \in LateRequests /\ late' \in SUBSET LateRequests
    BY <1>4 DEF LateArrives
  <2>2. r.size \in Nat /\ (r.op = "create" => r.key \in Names)
    BY <2>1 DEF LateRequests
  <2>3. CASE r.op = "create" /\ \E id \in IDs : MakeVolume(id, r.key, r.size)
    BY <1>4, <2>1, <2>2, <2>3 DEF LateArrives, MakeVolume
  <2>4. CASE state' = [state EXCEPT ![r.key] = "deleting"] /\ UNCHANGED <<name, cap>>
    BY <1>4, <2>1, <2>4 DEF LateArrives
  <2>5. CASE Grow(r.key, r.size) /\ UNCHANGED name
    BY <1>4, <2>1, <2>2, <2>5 DEF LateArrives, Grow
  <2> QED BY <1>4, <2>3, <2>4, <2>5 DEF LateArrives
<1>5. CASE Exit BY <1>5 DEF Exit, Die
<1>6. CASE UNCHANGED vars BY <1>6 DEF vars
<1> QED BY <1>2, <1>3, <1>4, <1>5, <1>6 DEF Next, BackendStep

-----------------------------------------------------------------------------
(* No step, of a call or of a request that arrives late, takes back what   *)
(* was known of a volume.                                                  *)
LEMMA EvolvesStep == IndInv /\ [Next]_vars => Evolves
<1> SUFFICES ASSUME IndInv, [Next]_vars PROVE Evolves
  OBVIOUS
<1> USE DEF Evolves, IndInv, TypeOK, callVars, backendVars
<1>1. CASE UNCHANGED <<state, name, cap>>
  BY <1>1
<1>2. ASSUME NEW id \in IDs, NEW n, NEW size, MakeVolume(id, n, size) PROVE Evolves
  BY <1>2 DEF MakeVolume
<1>3. ASSUME NEW id \in IDs, NEW size \in Nat,
             CanGrow(id, size), Grow(id, size), UNCHANGED name
      PROVE  Evolves
  BY <1>3 DEF CanGrow, Grow
<1>4. ASSUME NEW id \in IDs, state[id] = "available",
             state' = [state EXCEPT ![id] = "deleting"], UNCHANGED <<name, cap>>
      PROVE  Evolves
  BY <1>4
<1>5. ASSUME NEW c \in Calls, CallStep(c) PROVE Evolves
  <2>1. CASE CreateAccepted(c)
    BY <1>2, <2>1 DEF CreateAccepted
  <2>2. CASE DeleteAccepted(c)
    <3>1. vol[c] \in IDs
      BY <2>2 DEF DeleteAccepted, CallInv, HasVolume
    <3> QED BY <1>4, <2>2, <3>1 DEF DeleteAccepted
  <2>3. CASE ExpandAccepted(c)
    <3>1. vol[c] \in IDs
      BY <2>3 DEF ExpandAccepted, CallInv, HasVolume
    <3>2. RoundUpSize(req[c].size) \in Nat
      BY RequestTypes, RoundUpEnough
    <3> QED BY <1>3, <2>3, <3>1, <3>2 DEF ExpandAccepted
  <2>4. CASE WaitForVolumeDeletionPanics(c)
    BY <2>4 DEF WaitForVolumeDeletionPanics, Die
  <2> QED
    BY <1>1, <1>5, <2>1, <2>2, <2>3, <2>4
    DEF CallStep, CreateStep, DeleteStep, ExpandStep, Begin, Reject,
        CreateFindsExisting, CreateFindsNone, CreateRefused, CreateInvalid,
        CreateTimesOut, WaitForValidVolumeState, WaitForValidFails, DeleteFinds,
        DeleteFindsNone, DeleteRefused, DeleteTimesOut, WaitForVolumeDeletion,
        ExpandFinds, ExpandReadFails, ExpandReads, ExpandRefused, ExpandTimesOut
<1>6. ASSUME NEW id \in IDs, BecomesAvailable(id) \/ BecomesGone(id) PROVE Evolves
  BY <1>6 DEF BecomesAvailable, BecomesGone
<1>7. ASSUME NEW r \in late, LateArrives(r) PROVE Evolves
  <2>1. r \in LateRequests
    OBVIOUS
  <2>2. r.size \in Nat /\ (r.op # "create" => r.key \in IDs)
    BY <2>1 DEF LateRequests
  <2> QED BY <1>2, <1>3, <1>4, <1>7, <2>2 DEF LateArrives
<1>8. CASE Exit \/ UNCHANGED vars
  BY <1>8 DEF Exit, Die, vars
<1> QED BY <1>5, <1>6, <1>7, <1>8 DEF Next, BackendStep

(* The facts about a call survive the steps of others.                     *)
LEMMA BystanderKeeps ==
  ASSUME IndInv, Evolves, TypeOK', NEW c \in Calls, Bystander(c)
  PROVE  CallInv(c)'
<1> USE DEF IndInv, TypeOK, CallInv, Bystander
<1>1. InItsHandler(c)' /\ HasVolume(c)' 
  BY DEF InItsHandler, HasVolume, OK, Evolves
<1>2. CASE pc'[c] = pc[c]
  <2>1. CASE vol[c] \in IDs /\ state[vol[c]] # "none"
    <3>1. cap[vol[c]] \in Nat /\ cap'[vol[c]] \in Nat /\ cap'[vol[c]] >= cap[vol[c]]
      BY <2>1 DEF Evolves
    <3>2. cap'[vol[c]] * GiB >= cap[vol[c]] * GiB
      BY <3>1, Bytes
    <3>3. /\ cap'[vol[c]] * GiB \in Nat /\ cap[vol[c]] * GiB \in Nat
          /\ req[c].size \in Nat
      BY <3>1, RequestTypes, ProvisionAssumption
    <3>4. Granted(c)'
      BY <1>2, <2>1, <3>1, <3>2, <3>3 DEF Granted, OK, Evolves
    <3>5. Settled(c)'
      BY <1>2, <2>1 DEF Settled, Done, Evolves
    <3> QED BY <1>1, <3>4, <3>5
  <2>2. CASE ~(vol[c] \in IDs /\ state[vol[c]] # "none")
    BY <1>1, <1>2, <2>2 DEF HasVolume, Granted, Settled, Done, OK
  <2> QED BY <2>1, <2>2
<1>3. CASE pc'[c] = "dead"
  BY <1>1, <1>3 DEF Granted, Settled, Done, OK
<1> QED BY <1>2, <1>3

(* The facts about a call after one of its own steps.                      *)
LEMMA OwnStep ==
  ASSUME IndInv, Evolves, TypeOK', NEW c \in Calls, CallStep(c)
  PROVE  CallInv(c)'
<1> USE DEF IndInv, TypeOK, CallInv, InItsHandler, HasVolume, OK, Done, Go, Answer,
        StartLoop, history, callVars, backendVars
<1>0. req[c].op \in {"create", "delete", "expand"} /\ req[c].size \in Nat
  BY RequestTypes
<1>1. ASSUME pc'[c] = "done", resp'[c] = "error" PROVE CallInv(c)'
  BY <1>1 DEF Granted, Settled
<1>2. ASSUME Retry(c), UNCHANGED <<req, vol, history, state, name, cap>> PROVE CallInv(c)'
  <2>1. \/ pc' = pc /\ resp' = resp
        \/ pc' = [pc EXCEPT ![c] = "done"] /\ resp' = [resp EXCEPT ![c] = "error"]
    BY <1>2, RetryFacts
  <2>2. CASE pc' = pc /\ resp' = resp
    BY <1>2, <2>2 DEF Granted, Settled
  <2> QED BY <1>1, <2>1, <2>2
<1>3. CASE Begin(c)
  <2>1. CASE req[c].op = "create"
    BY <1>3, <2>1 DEF Begin, Granted, Settled
  <2>2. CASE req[c].op # "create"
    <3>1. PICK d \in Calls : OK(d) /\ vol' = [vol EXCEPT ![c] = vol[d]]
      BY <1>3, <2>2 DEF Begin, Known
    <3>2. vol[d] \in IDs /\ state[vol[d]] # "none"
      BY <3>1
    <3> QED BY <1>3, <2>2, <3>1, <3>2 DEF Begin, Granted, Settled
  <2> QED BY <2>1, <2>2
<1>4. CASE Reject(c) BY <1>1, <1>4 DEF Reject
<1>5. CASE CreateFindsExisting(c)
  <2>1. CASE pc'[c] = "done" /\ resp'[c] = "error"
    BY <1>1, <2>1
  <2>2. CASE resp'[c] # "error"
    <3>1. PICK id \in Named(req[c].name) :
            /\ cap[id] = req[c].size
            /\ vol' = [vol EXCEPT ![c] = id]
            /\ found' = found \cup {c}
      BY <1>5, <2>2 DEF CreateFindsExisting
    <3>2. id \in IDs /\ state[id] # "none" /\ name[id] = {req[c].name}
      BY <3>1 DEF Named, Live, OneName
    <3> QED BY <1>5, <3>1, <3>2 DEF CreateFindsExisting, Granted, Settled
  <2> QED BY <1>5, <2>1, <2>2 DEF CreateFindsExisting
<1>6. CASE CreateFindsNone(c) BY <1>6 DEF CreateFindsNone, Granted, Settled
<1>7. CASE CreateAccepted(c)
  <2>1. PICK id \in IDs :
          MakeVolume(id, req[c].name, req[c].size) /\ vol' = [vol EXCEPT ![c] = id]
    BY <1>7 DEF CreateAccepted
  <2> QED BY <1>0, <1>7, <2>1 DEF CreateAccepted, MakeVolume, Granted, Settled
<1>8. CASE CreateRefused(c) BY <1>2, <1>8 DEF CreateRefused
<1>9. CASE CreateInvalid(c) BY <1>1, <1>9 DEF CreateInvalid
<1>10. CASE CreateTimesOut(c) BY <1>2, <1>10 DEF CreateTimesOut
<1>11. CASE WaitForValidVolumeState(c)
  <2>1. CASE state[vol[c]] = "available" /\ Answer(c, "ok") /\ UNCHANGED tries
    BY <1>11, <2>1 DEF WaitForValidVolumeState, Granted, Settled
  <2>2. CASE Retry(c)
    BY <1>2, <1>11, <2>2 DEF WaitForValidVolumeState
  <2>3. CASE Answer(c, "error")
    BY <1>1, <2>3
  <2> QED BY <1>11, <2>1, <2>2, <2>3 DEF WaitForValidVolumeState
<1>12. CASE WaitForValidFails(c) BY <1>2, <1>12 DEF WaitForValidFails
<1>13. CASE DeleteFinds(c) BY <1>13 DEF DeleteFinds, Granted, Settled
<1>14. CASE DeleteFindsNone(c)
  <2>1. c \in masked' \/ state[vol[c]] = "gone"
    BY <1>14 DEF DeleteFindsNone, Live, States
  <2> QED BY <1>14, <2>1 DEF DeleteFindsNone, Granted, Settled
<1>15. CASE DeleteAccepted(c)
  BY <1>15 DEF DeleteAccepted, Granted, Settled
<1>16. CASE DeleteRefused(c)
  <2>1. CASE Retry(c) BY <1>2, <1>16, <2>1 DEF DeleteRefused
  <2>2. CASE Answer(c, "error") BY <1>1, <2>2
  <2> QED BY <1>16, <2>1, <2>2 DEF DeleteRefused
<1>17. CASE DeleteTimesOut(c) BY <1>2, <1>17 DEF DeleteTimesOut
<1>18. CASE WaitForVolumeDeletion(c)
  BY <1>18 DEF WaitForVolumeDeletion, Live, Granted, Settled
<1>19. CASE WaitForVolumeDeletionPanics(c)
  BY <1>19 DEF WaitForVolumeDeletionPanics, Die, Running, Granted, Settled
<1>20. CASE ExpandFinds(c) BY <1>20 DEF ExpandFinds, Granted, Settled
<1>21. CASE ExpandReadFails(c) BY <1>1, <1>21 DEF ExpandReadFails
<1>22. CASE ExpandReads(c)
  <2>1. vol[c] \in IDs /\ cap[vol[c]] \in Nat
    BY <1>22 DEF ExpandReads
  <2>2. cap[vol[c]] * GiB >= cap[vol[c]] /\ cap[vol[c]] * GiB \in Nat
    <3> DEFINE n == cap[vol[c]]
    <3>1. n \in Nat /\ n >= n
      BY <2>1
    <3> HIDE DEF n
    <3>2. n * GiB >= n /\ n * GiB \in Nat
      BY <3>1, Bytes, ProvisionAssumption
    <3> QED BY <3>2 DEF n
  <2>3. cap[vol[c]] >= req[c].size => cap[vol[c]] * GiB >= req[c].size
    BY <1>0, <2>1, <2>2
  <2>4. CASE cap[vol[c]] >= req[c].size /\ Answer(c, "ok")
    BY <1>22, <2>1, <2>3, <2>4 DEF ExpandReads, Granted, Settled
  <2>5. CASE StartLoop(c, "expand") /\ UNCHANGED resp
    BY <1>22, <2>5 DEF ExpandReads, Granted, Settled
  <2> QED BY <1>22, <2>4, <2>5 DEF ExpandReads
<1>23. CASE ExpandAccepted(c)
  <2>1. /\ RoundUpSize(req[c].size) \in Nat
        /\ RoundUpSize(req[c].size) * GiB >= req[c].size
    BY <1>0, RoundUpEnough
  <2>2. vol[c] \in IDs /\ cap'[vol[c]] = RoundUpSize(req[c].size)
    BY <1>23 DEF ExpandAccepted, Grow
  <2> QED BY <1>23, <2>1, <2>2 DEF ExpandAccepted, Grow, Granted, Settled
<1>24. CASE ExpandRefused(c)
  <2>1. CASE Retry(c) BY <1>2, <1>24, <2>1 DEF ExpandRefused
  <2>2. CASE Answer(c, "error") BY <1>1, <2>2
  <2> QED BY <1>24, <2>1, <2>2 DEF ExpandRefused
<1>25. CASE ExpandTimesOut(c) BY <1>2, <1>25 DEF ExpandTimesOut
<1> QED
  BY <1>3, <1>4, <1>5, <1>6, <1>7, <1>8, <1>9, <1>10, <1>11, <1>12, <1>13, <1>14, <1>15,
     <1>16, <1>17, <1>18, <1>19, <1>20, <1>21, <1>22, <1>23, <1>24, <1>25
  DEF CallStep, CreateStep, DeleteStep, ExpandStep

(* To a step of a call every other call is a bystander.                    *)
LEMMA OthersStandBy ==
  ASSUME IndInv, NEW c \in Calls, CallStep(c), NEW d \in Calls \ {c}
  PROVE  Bystander(d)
<1> USE DEF IndInv, TypeOK, Bystander, Go, Answer, StartLoop, history, callVars, backendVars
<1>1. CASE Retry(c) /\ UNCHANGED <<req, vol, history>>
  BY <1>1, RetryFacts
<1>2. CASE CreateStep(c)
  BY <1>1, <1>2 DEF CreateStep, CreateFindsExisting, CreateFindsNone, CreateAccepted,
     CreateRefused, CreateInvalid, CreateTimesOut
<1>3. CASE DeleteStep(c)
  BY <1>1, <1>3 DEF DeleteStep, DeleteFinds, DeleteFindsNone, DeleteAccepted,
     DeleteRefused, DeleteTimesOut, WaitForVolumeDeletion,
     WaitForVolumeDeletionPanics, Die
<1>4. CASE ExpandStep(c)
  BY <1>1, <1>4 DEF ExpandStep, ExpandFinds, ExpandReadFails, ExpandReads,
     ExpandAccepted, ExpandRefused, ExpandTimesOut
<1>5. CASE Begin(c) \/ Reject(c) \/ WaitForValidVolumeState(c) \/ WaitForValidFails(c)
  BY <1>1, <1>5 DEF Begin, Reject, WaitForValidVolumeState, WaitForValidFails
<1> QED BY <1>2, <1>3, <1>4, <1>5 DEF CallStep

(* A volume that was made has one name.                                    *)
LEMMA OneNameStep == IndInv /\ Evolves /\ [Next]_vars => OneName'
<1> SUFFICES ASSUME IndInv, Evolves, [Next]_vars, NEW id \in IDs,
                    state[id] = "none", state'[id] # "none"
             PROVE  \E n \in Names : name'[id] = {n}
  BY DEF IndInv, OneName, Evolves
<1> USE DEF IndInv, TypeOK, callVars, backendVars
<1>1. ASSUME NEW i \in IDs, NEW n \in Names, NEW size, MakeVolume(i, n, size)
      PROVE  \E m \in Names : name'[id] = {m}
  BY <1>1 DEF MakeVolume
<1>2. ASSUME NEW c \in Calls, CallStep(c) PROVE \E n \in Names : name'[id] = {n}
  <2>1. CASE CreateAccepted(c)
    <3>1. req[c].name \in Names
      BY RequestTypes
    <3> QED BY <1>1, <2>1, <3>1 DEF CreateAccepted
  <2>2. CASE state' = [state EXCEPT ![vol[c]] = state'[vol[c]]] /\ state[vol[c]] = "available"
    BY <2>2
  <2>3. CASE UNCHANGED state
    BY <2>3
  <2> QED
    BY <1>2, <2>1, <2>2, <2>3
    DEF CallStep, CreateStep, DeleteStep, ExpandStep, Begin, Reject,
        CreateFindsExisting, CreateFindsNone, CreateRefused, CreateInvalid,
        CreateTimesOut, WaitForValidVolumeState, WaitForValidFails, DeleteFinds,
        DeleteFindsNone, DeleteAccepted, DeleteRefused, DeleteTimesOut,
        WaitForVolumeDeletion, WaitForVolumeDeletionPanics, Die,
        ExpandFinds, ExpandReadFails, ExpandReads, ExpandAccepted, CanGrow, Grow,
        ExpandRefused, ExpandTimesOut
<1>3. ASSUME NEW i \in IDs, BecomesAvailable(i) \/ BecomesGone(i)
      PROVE  \E n \in Names : name'[id] = {n}
  BY <1>3 DEF BecomesAvailable, BecomesGone
<1>4. ASSUME NEW r \in late, LateArrives(r) PROVE \E n \in Names : name'[id] = {n}
  <2>1. r \in LateRequests
    OBVIOUS
  <2>2. r.op = "create" => r.key \in Names
    BY <2>1 DEF LateRequests
  <2> QED BY <1>1, <1>4, <2>2 DEF LateArrives, CanGrow, Grow
<1>5. CASE Exit \/ UNCHANGED vars
  BY <1>5 DEF Exit, Die, vars
<1> QED BY <1>2, <1>3, <1>4, <1>5 DEF Next, BackendStep

-----------------------------------------------------------------------------
(* The inductive invariant holds in every reachable state.                 *)
THEOREM Invariance == Spec => []IndInv
<1>1. Init => IndInv
  BY ProvisionAssumption
  DEF Init, IndInv, TypeOK, States, Running, OneName, CallInv, InItsHandler, HasVolume,
      Granted, Settled, OK, Done
<1>2. ASSUME IndInv, [Next]_vars PROVE IndInv'
  <2> USE <1>2
  <2>1. TypeOK' /\ Evolves
    BY TypeStep, EvolvesStep
  <2>2. OneName'
    BY <2>1, OneNameStep
  <2>3. ASSUME NEW c \in Calls, CallStep(c), NEW d \in Calls PROVE CallInv(d)'
    BY <2>1, <2>3, OwnStep, OthersStandBy, BystanderKeeps
  <2>4. ASSUME BackendStep \/ Exit \/ UNCHANGED vars, NEW d \in Calls PROVE CallInv(d)'
    <3>1. Bystander(d)
      BY <2>4 DEF IndInv, TypeOK, Bystander, BackendStep, BecomesAvailable, BecomesGone,
         LateArrives, Exit, Die, vars, history, callVars, backendVars
    <3> QED BY <2>1, <3>1, BystanderKeeps
  <2> QED BY <2>1, <2>2, <2>3, <2>4 DEF Next, IndInv
<1> QED BY <1>1, <1>2, PTL DEF Spec

(* The variables of the calls and of the backend keep their types.         *)
THEOREM TypeCorrect == Spec => []TypeOK
<1>1. IndInv => TypeOK
  BY DEF IndInv
<1> QED BY <1>1, Invariance, PTL

(* An OK of CreateVolume names a volume of the requested name and at least *)
(* the requested size, which was available unless it was found by name     *)
(* (controller.go:152).                                                    *)
THEOREM CreateIsSafe == Spec => []CreateOKMeansVolume
<1>1. IndInv => CreateOKMeansVolume
  BY DEF IndInv, CreateOKMeansVolume, CallInv, HasVolume, Granted, Settled, OK, Done
<1> QED BY <1>1, Invariance, PTL

(* An OK of ControllerExpandVolume means a volume that holds the bytes     *)
(* asked for, whatever the other expansions did (expand_volume.go:47).     *)
THEOREM ExpandIsSafe == Spec => []ExpandOKMeansSized
<1>1. IndInv => ExpandOKMeansSized
  BY DEF IndInv, ExpandOKMeansSized, CallInv, Granted, OK, Done
<1> QED BY <1>1, Invariance, PTL

(* An OK of DeleteVolume means that the volume is gone, that its deletion  *)
(* was accepted and the wait ran out of attempts, or that a failed lookup  *)
(* passed for "not found" (delete_volume.go:89).                           *)
THEOREM DeleteIsSafe == Spec => []DeleteOKMeansGone
<1>1. IndInv => DeleteOKMeansGone
  BY DEF IndInv, DeleteOKMeansGone, CallInv, Settled
<1> QED BY <1>1, Invariance, PTL

=============================================================================
