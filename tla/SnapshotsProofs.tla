-------------------------- MODULE SnapshotsProofs --------------------------
(***************************************************************************)
(* What the answers of CreateSnapshot, DeleteSnapshot and ListSnapshots    *)
(* mean, for every number of calls, names, volumes, snapshots and          *)
(* attempts.                                                               *)
(*                                                                         *)
(* As for volumes there is no lock, and the argument is about what the     *)
(* backend never takes back (Evolves): a snapshot keeps its name and its   *)
(* source, is pending only once and does not return from its deletion.     *)
(***************************************************************************)
EXTENDS Snapshots, TLAPS

Answered(c) == pc[c] = "done" /\ resp[c] # "error"

(* A call is in the part of the code its operation belongs to.             *)
InItsHandler(c) ==
  /\ pc[c] \in {"find", "create", "sleep"} => req[c].op = "create"
  /\ pc[c] \in {"delete", "waitGone"} => req[c].op = "delete"
  /\ pc[c] = "get" => req[c].op = "list"

(* A call that has a snapshot in hand has one that the backend once made,  *)
(* or one of another account.                                              *)
HasSnapshot(c) ==
  \/ pc[c] \in {"delete", "waitGone", "get"}
  \/ Answered(c)
  => \/ snap[c] = Foreign /\ req[c].op # "create"
     \/ snap[c] \in IDs /\ state[snap[c]] # "none"

(* A deletion that was accepted is under way.                              *)
Accepted(c) ==
  pc[c] = "waitGone" => snap[c] \in IDs /\ state[snap[c]] \in {"deleting", "gone"}

(* What an answer says about the snapshot.                                 *)
Settled(c) ==
  /\ Done(c, "create") =>
       /\ name[snap[c]] = {req[c].name}
       /\ source[snap[c]] = {req[c].vol}
       /\ resp[c] = "ready" => state[snap[c]] # "pending"
  /\ Done(c, "delete") =>
       \/ snap[c] = Foreign
       \/ state[snap[c]] = "gone"
       \/ c \in gaveUp \cup masked /\ state[snap[c]] = "deleting"
  /\ Done(c, "list") /\ req[c].form = "crn" /\ account = "own" =>
       /\ resp[c] = "ready" => snap[c] \in IDs /\ state[snap[c]] # "pending"
       /\ resp[c] = "empty" => c \in masked \/ ~Live(snap[c])

CallInv(c) == InItsHandler(c) /\ HasSnapshot(c) /\ Accepted(c) /\ Settled(c)

OneName == \A id \in IDs : state[id] # "none" => \E n \in Names : name[id] = {n}

IndInv ==
  /\ TypeOK
  /\ OneName
  /\ \A c \in Calls : CallInv(c)

(* What no step takes back from a snapshot that was made.                  *)
Evolves ==
  \A id \in IDs : state[id] # "none" =>
    /\ state'[id] # "none"
    /\ name'[id] = name[id] /\ source'[id] = source[id]
    /\ state[id] # "pending" => state'[id] # "pending"
    /\ state[id] \in {"deleting", "gone"} => state'[id] \in {"deleting", "gone"}
    /\ state[id] = "gone" => state'[id] = "gone"

(* A step that is not the call's own leaves it alone or ends it.           *)
Bystander(c) ==
  /\ req'[c] = req[c] /\ snap'[c] = snap[c] /\ resp'[c] = resp[c]
  /\ pc'[c] \in {pc[c], "dead"}
  /\ account' = account /\ masked \subseteq masked' /\ gaveUp \subseteq gaveUp'

-----------------------------------------------------------------------------
(* retry keeps the types of what it changes.  Its last attempt is answered *)
(* with an error, at once or, for a create, after a sleep.                 *)
LEMMA RetryFacts ==
  ASSUME TypeOK, NEW c \in Calls, Retry(c)
  PROVE  /\ tries' \in [Calls -> Nat]
         /\ \/ pc' = pc /\ resp' = resp
            \/ /\ req[c].op = "create"
               /\ pc' = [pc EXCEPT ![c] = "sleep"] /\ resp' = resp
            \/ pc' = [pc EXCEPT ![c] = "done"] /\ resp' = [resp EXCEPT ![c] = "error"]
<1>1. tries[c] + 1 \in Nat
  BY DEF TypeOK
<1> QED BY <1>1 DEF Retry, Answer, Go, TypeOK

(* The parts of a request to create a snapshot.                            *)
LEMMA CreateTypes ==
  ASSUME NEW r \in Requests, r.op = "create"
  PROVE  r \in Creates /\ r.name \in Names /\ r.vol \in Volumes
BY DEF Requests, Creates

(* Every step keeps the types.                                             *)
LEMMA TypeStep == IndInv /\ [Next]_vars => TypeOK'
<1> SUFFICES ASSUME IndInv, [Next]_vars PROVE TypeOK'
  OBVIOUS
<1> USE SnapshotsAssumption DEF IndInv, TypeOK, Running, Answers, callVars,
        backendVars, Go, Answer
<1>1. ASSUME NEW c \in Calls, Retry(c),
             UNCHANGED <<account, req, snap, masked, gaveUp, state, name, source>>,
             late' \subseteq Creates \cup [op : {"delete"}, id : IDs]
      PROVE  TypeOK'
  BY <1>1, RetryFacts
<1>2. ASSUME NEW c \in Calls, CallStep(c) PROVE TypeOK'
  <2>1. CASE Begin(c) BY <2>1 DEF Begin, Nameable
  <2>2. CASE Reject(c) BY <2>2 DEF Reject
  <2>3. CASE CreateFindsExisting(c) BY <2>3 DEF CreateFindsExisting, Named, Ready
  <2>4. CASE CreateFindsNone(c) BY <2>4 DEF CreateFindsNone
  <2>5. CASE CreateAccepted(c)
    <3>1. req[c].name \in Names /\ req[c].vol \in Volumes
      BY <2>5, CreateTypes DEF CreateAccepted, CallInv, InItsHandler
    <3> QED BY <2>5, <3>1 DEF CreateAccepted, MakeSnapshot
  <2>6. CASE CreateRefused(c)
    <3>1. CASE Retry(c) BY <1>1, <2>6, <3>1 DEF CreateRefused
    <3>2. CASE Go(c, "sleep") /\ UNCHANGED <<tries, resp>>
      BY <2>6, <3>2 DEF CreateRefused
    <3> QED BY <2>6, <3>1, <3>2 DEF CreateRefused
  <2>7. CASE CreateTimesOut(c)
    <3>1. req[c] \in Creates
      BY <2>7, CreateTypes DEF CreateTimesOut, CallInv, InItsHandler
    <3> QED BY <1>1, <2>7, <3>1 DEF CreateTimesOut
  <2>8. CASE SleepEnds(c) BY <2>8 DEF SleepEnds
  <2>9. CASE DeleteAccepted(c) BY <2>9 DEF DeleteAccepted
  <2>10. CASE DeleteFindsNone(c) BY <2>10 DEF DeleteFindsNone
  <2>11. CASE DeleteRefused(c)
    <3>1. CASE Retry(c) BY <1>1, <2>11, <3>1 DEF DeleteRefused
    <3>2. CASE Answer(c, "error") /\ UNCHANGED tries
      BY <2>11, <3>2 DEF DeleteRefused
    <3> QED BY <2>11, <3>1, <3>2 DEF DeleteRefused
  <2>12. CASE DeleteTimesOut(c) BY <1>1, <2>12 DEF DeleteTimesOut
  <2>13. CASE WaitForSnapshotDeletion(c)
    <3>1. CASE Answer(c, "ok") /\ UNCHANGED tries /\ gaveUp' \in {gaveUp, gaveUp \cup {c}}
      BY <2>13, <3>1 DEF WaitForSnapshotDeletion
    <3>2. CASE tries' = [tries EXCEPT ![c] = @ + 1] /\ UNCHANGED <<pc, resp, gaveUp>>
      BY <2>13, <3>2 DEF WaitForSnapshotDeletion
    <3> QED BY <2>13, <3>1, <3>2 DEF WaitForSnapshotDeletion
  <2>14. CASE WaitForDeletionMasked(c) BY <2>14 DEF WaitForDeletionMasked
  <2>15. CASE WaitForDeletionPanics(c) BY <2>15 DEF WaitForDeletionPanics, Die
  <2>16. CASE ListFinds(c) BY <2>16 DEF ListFinds, Ready
  <2>17. CASE ListFindsNone(c) BY <2>17 DEF ListFindsNone
  <2>18. CASE ListTrusts(c) BY <2>18 DEF ListTrusts
  <2> QED
    BY <1>2, <2>1, <2>2, <2>3, <2>4, <2>5, <2>6, <2>7, <2>8, <2>9, <2>10, <2>11, <2>12,
       <2>13, <2>14, <2>15, <2>16, <2>17, <2>18
    DEF CallStep
<1>3. ASSUME NEW id \in IDs, BecomesStable(id) \/ BecomesGone(id) PROVE TypeOK'
  BY <1>3 DEF BecomesStable, BecomesGone
<1>4. ASSUME NEW r \in late, LateArrives(r) PROVE TypeOK'
  <2>1. CASE r.op = "create" /\ \E id \in IDs : MakeSnapshot(id, r.name, r.vol)
    <3>1. r.name \in Names /\ r.vol \in Volumes
      BY <2>1 DEF Creates
    <3> QED BY <1>4, <2>1, <3>1 DEF LateArrives, MakeSnapshot
  <2>2. CASE state' = [state EXCEPT ![r.id] = "deleting"] /\ UNCHANGED <<name, source>>
    BY <1>4, <2>2 DEF LateArrives
  <2> QED BY <1>4, <2>1, <2>2 DEF LateArrives
<1>5. CASE Exit BY <1>5 DEF Exit, Die
<1>6. CASE UNCHANGED vars BY <1>6 DEF vars
<1> QED BY <1>2, <1>3, <1>4, <1>5, <1>6 DEF Next

-----------------------------------------------------------------------------
(* No step, of a call or of a request that arrives late, takes back what   *)
(* was known of a snapshot.                                                *)
LEMMA EvolvesStep == IndInv /\ [Next]_vars => Evolves
<1> SUFFICES ASSUME IndInv, [Next]_vars PROVE Evolves
  OBVIOUS
<1> USE DEF Evolves, IndInv, TypeOK, callVars, backendVars
<1>1. CASE UNCHANGED <<state, name, source>>
  BY <1>1
<1>2. ASSUME NEW id \in IDs, NEW n, NEW v, MakeSnapshot(id, n, v) PROVE Evolves
  BY <1>2 DEF MakeSnapshot
<1>3. ASSUME NEW id, Live(id),
             state' = [state EXCEPT ![id] = "deleting"], UNCHANGED <<name, source>>
      PROVE  Evolves
  BY <1>3 DEF Live
<1>4. ASSUME NEW c \in Calls, CallStep(c) PROVE Evolves
  <2>1. CASE CreateAccepted(c) BY <1>2, <2>1 DEF CreateAccepted
  <2>2. CASE DeleteAccepted(c) BY <1>3, <2>2 DEF DeleteAccepted
  <2>3. CASE WaitForDeletionPanics(c) BY <1>1, <2>3 DEF WaitForDeletionPanics, Die
  <2> QED
    BY <1>1, <1>4, <2>1, <2>2, <2>3
    DEF CallStep, Begin, Reject, CreateFindsExisting, CreateFindsNone, CreateRefused,
        CreateTimesOut, SleepEnds, DeleteFindsNone, DeleteRefused, DeleteTimesOut,
        WaitForSnapshotDeletion, WaitForDeletionMasked, ListFinds, ListFindsNone,
        ListTrusts
<1>5. ASSUME NEW id \in IDs, BecomesStable(id) \/ BecomesGone(id) PROVE Evolves
  BY <1>5 DEF BecomesStable, BecomesGone
<1>6. ASSUME NEW r \in late, LateArrives(r) PROVE Evolves
  BY <1>2, <1>3, <1>6 DEF LateArrives
<1>7. CASE Exit \/ UNCHANGED vars
  BY <1>1, <1>7 DEF Exit, Die, vars
<1> QED BY <1>4, <1>5, <1>6, <1>7 DEF Next

(* The facts about a call survive the steps of others.                     *)
LEMMA BystanderKeeps ==
  ASSUME IndInv, Evolves, TypeOK', NEW c \in Calls, Bystander(c)
  PROVE  CallInv(c)'
<1> USE SnapshotsAssumption DEF IndInv, TypeOK, CallInv, Bystander, Evolves
<1>1. InItsHandler(c)' BY DEF InItsHandler
<1>2. HasSnapshot(c)' BY DEF HasSnapshot, Answered
<1>3. Accepted(c)' BY DEF Accepted
<1>4. Settled(c)' BY DEF Settled, HasSnapshot, Answered, Done, Live
<1> QED BY <1>1, <1>2, <1>3, <1>4

(* The facts about a call after one of its own steps.                      *)
LEMMA OwnStep ==
  ASSUME IndInv, Evolves, TypeOK', NEW c \in Calls, CallStep(c)
  PROVE  CallInv(c)'
<1> USE SnapshotsAssumption DEF IndInv, TypeOK, CallInv, InItsHandler, HasSnapshot,
        Accepted, Answered, Done, Go, Answer, callVars, backendVars
<1>1. ASSUME pc'[c] = "done", resp'[c] = "error" PROVE CallInv(c)'
  BY <1>1 DEF Settled
<1>2. ASSUME Retry(c), pc[c] \in {"create", "delete"},
             UNCHANGED <<account, req, snap, masked, gaveUp, state, name, source>>
      PROVE  CallInv(c)'
  <2>1. CASE pc' = pc /\ resp' = resp BY <1>2, <2>1 DEF Settled
  <2>2. CASE req[c].op = "create" /\ pc' = [pc EXCEPT ![c] = "sleep"] /\ resp' = resp
    BY <1>2, <2>2 DEF Settled
  <2> QED BY <1>1, <1>2, <2>1, <2>2, RetryFacts
<1>3. CASE Begin(c)
  <2>1. CASE req[c].op = "create" BY <1>3, <2>1 DEF Begin, Settled
  <2>2. CASE req[c].op # "create"
    <3>1. req[c].op \in {"delete", "list"}
      BY <2>2 DEF Requests, Creates
    <3> QED BY <1>3, <2>2, <3>1 DEF Begin, Nameable, Settled
  <2> QED BY <2>1, <2>2
<1>4. CASE Reject(c) BY <1>1, <1>4 DEF Reject
<1>5. CASE CreateFindsExisting(c)
  <2>1. PICK id \in Named(req[c].name) :
          \/ /\ source[id] = {req[c].vol}
             /\ snap' = [snap EXCEPT ![c] = id]
             /\ Answer(c, Ready(id))
          \/ Answer(c, "error")
    BY <1>5 DEF CreateFindsExisting
  <2>2. id \in IDs /\ state[id] # "none" /\ name[id] = {req[c].name}
    BY <2>1 DEF Named, Live, OneName
  <2>3. CASE Answer(c, "error")
    BY <1>1, <2>3
  <2>4. CASE source[id] = {req[c].vol} /\ snap' = [snap EXCEPT ![c] = id] /\ Answer(c, Ready(id))
    BY <1>5, <2>2, <2>4 DEF CreateFindsExisting, Ready, Settled
  <2> QED BY <2>1, <2>3, <2>4
<1>6. CASE CreateFindsNone(c) BY <1>6 DEF CreateFindsNone, Settled
<1>7. CASE CreateAccepted(c)
  BY <1>7 DEF CreateAccepted, MakeSnapshot, Settled
<1>8. CASE CreateRefused(c)
  <2>1. CASE Retry(c) BY <1>2, <1>8, <2>1 DEF CreateRefused
  <2>2. CASE Go(c, "sleep") /\ UNCHANGED <<tries, resp>>
    BY <1>8, <2>2 DEF CreateRefused, Settled
  <2> QED BY <1>8, <2>1, <2>2 DEF CreateRefused
<1>9. CASE CreateTimesOut(c) BY <1>2, <1>9 DEF CreateTimesOut
<1>10. CASE SleepEnds(c) BY <1>1, <1>10 DEF SleepEnds
<1>11. CASE DeleteAccepted(c) BY <1>11 DEF DeleteAccepted, Live, Settled
<1>12. CASE DeleteFindsNone(c) BY <1>12 DEF DeleteFindsNone, Live, Settled
<1>13. CASE DeleteRefused(c)
  <2>1. CASE Retry(c) BY <1>2, <1>13, <2>1 DEF DeleteRefused
  <2>2. CASE Answer(c, "error") BY <1>1, <2>2
  <2> QED BY <1>13, <2>1, <2>2 DEF DeleteRefused
<1>14. CASE DeleteTimesOut(c) BY <1>2, <1>14 DEF DeleteTimesOut
<1>15. CASE WaitForSnapshotDeletion(c)
  BY <1>15 DEF WaitForSnapshotDeletion, Live, Settled
<1>16. CASE WaitForDeletionMasked(c)
  BY <1>16 DEF WaitForDeletionMasked, Live, Settled
<1>17. CASE WaitForDeletionPanics(c)
  BY <1>17 DEF WaitForDeletionPanics, Die, Running, Settled
<1>18. CASE ListFinds(c) BY <1>18 DEF ListFinds, Live, Ready, Settled
<1>19. CASE ListFindsNone(c) BY <1>19 DEF ListFindsNone, Live, Settled
<1>20. CASE ListTrusts(c)
  BY <1>20 DEF ListTrusts, LookedUp, AccountOf, Settled
<1> QED
  BY <1>3, <1>4, <1>5, <1>6, <1>7, <1>8, <1>9, <1>10, <1>11, <1>12, <1>13, <1>14, <1>15,
     <1>16, <1>17, <1>18, <1>19, <1>20
  DEF CallStep

(* To a step of a call every other call is a bystander.                    *)
LEMMA OthersStandBy ==
  ASSUME IndInv, NEW c \in Calls, CallStep(c), NEW d \in Calls \ {c}
  PROVE  Bystander(d)
<1> USE DEF IndInv, TypeOK, Bystander, Go, Answer, callVars, backendVars
<1>1. CASE Retry(c) /\ UNCHANGED <<account, req, snap, masked, gaveUp>>
  BY <1>1, RetryFacts
<1>2. CASE Begin(c) \/ Reject(c) \/ CreateFindsExisting(c) \/ CreateFindsNone(c) \/ CreateAccepted(c)
  BY <1>2 DEF Begin, Reject, CreateFindsExisting, CreateFindsNone, CreateAccepted
<1>3. CASE CreateRefused(c) \/ CreateTimesOut(c) \/ DeleteRefused(c) \/ DeleteTimesOut(c)
  BY <1>1, <1>3 DEF CreateRefused, CreateTimesOut, DeleteRefused, DeleteTimesOut
<1>4. CASE SleepEnds(c) \/ DeleteAccepted(c) \/ DeleteFindsNone(c) \/ ListFinds(c)
           \/ ListFindsNone(c) \/ ListTrusts(c)
  BY <1>4 DEF SleepEnds, DeleteAccepted, DeleteFindsNone, ListFinds, ListFindsNone, ListTrusts
<1>5. CASE WaitForSnapshotDeletion(c) \/ WaitForDeletionMasked(c) \/ WaitForDeletionPanics(c)
  BY <1>5 DEF WaitForSnapshotDeletion, WaitForDeletionMasked, WaitForDeletionPanics, Die
<1> QED BY <1>2, <1>3, <1>4, <1>5 DEF CallStep

(* A snapshot that was made has one name.                                  *)
LEMMA OneNameStep == IndInv /\ Evolves /\ [Next]_vars => OneName'
<1> SUFFICES ASSUME IndInv, Evolves, [Next]_vars, NEW id \in IDs,
                    state[id] = "none", state'[id] # "none"
             PROVE  \E n \in Names : name'[id] = {n}
  BY DEF IndInv, OneName, Evolves
<1> USE DEF IndInv, TypeOK, callVars, backendVars
<1>1. ASSUME NEW i \in IDs, NEW n \in Names, NEW v, MakeSnapshot(i, n, v)
      PROVE  \E m \in Names : name'[id] = {m}
  BY <1>1 DEF MakeSnapshot
<1>2. ASSUME NEW c \in Calls, CallStep(c) PROVE \E n \in Names : name'[id] = {n}
  <2>1. CASE CreateAccepted(c)
    <3>1. req[c].name \in Names
      BY <2>1, CreateTypes DEF CreateAccepted, CallInv, InItsHandler
    <3> QED BY <1>1, <2>1, <3>1 DEF CreateAccepted
  <2>2. CASE DeleteAccepted(c)
    BY <2>2 DEF DeleteAccepted, Live
  <2> QED
    BY <1>2, <2>1, <2>2
    DEF CallStep, Begin, Reject, CreateFindsExisting, CreateFindsNone, CreateRefused,
        CreateTimesOut, SleepEnds, DeleteFindsNone, DeleteRefused, DeleteTimesOut,
        WaitForSnapshotDeletion, WaitForDeletionMasked, WaitForDeletionPanics, Die,
        ListFinds, ListFindsNone, ListTrusts
<1>3. ASSUME NEW i \in IDs, BecomesStable(i) \/ BecomesGone(i)
      PROVE  \E n \in Names : name'[id] = {n}
  BY <1>3 DEF BecomesStable, BecomesGone
<1>4. ASSUME NEW r \in late, LateArrives(r) PROVE \E n \in Names : name'[id] = {n}
  <2>1. r.op = "create" => r.name \in Names
    BY DEF Creates
  <2> QED BY <1>1, <1>4, <2>1 DEF LateArrives, Live
<1>5. CASE Exit \/ UNCHANGED vars
  BY <1>5 DEF Exit, Die, vars
<1> QED BY <1>2, <1>3, <1>4, <1>5 DEF Next

-----------------------------------------------------------------------------
(* The inductive invariant holds in every reachable state.                 *)
THEOREM Invariance == Spec => []IndInv
<1>1. Init => IndInv
  BY SnapshotsAssumption
  DEF Init, IndInv, TypeOK, Running, Answers, OneName, CallInv, InItsHandler,
      HasSnapshot, Accepted, Settled, Answered, Done
<1>2. ASSUME IndInv, [Next]_vars PROVE IndInv'
  <2> USE <1>2
  <2>1. TypeOK' /\ Evolves
    BY TypeStep, EvolvesStep
  <2>2. OneName'
    BY <2>1, OneNameStep
  <2>3. ASSUME NEW c \in Calls, CallStep(c), NEW d \in Calls PROVE CallInv(d)'
    BY <2>1, <2>3, OwnStep, OthersStandBy, BystanderKeeps
  <2>4. ASSUME NEW d \in Calls,
               \/ \E id \in IDs : BecomesStable(id) \/ BecomesGone(id)
               \/ \E r \in late : LateArrives(r)
               \/ Exit \/ UNCHANGED vars
        PROVE  CallInv(d)'
    <3>1. Bystander(d)
      BY <2>4 DEF IndInv, TypeOK, Bystander, BecomesStable, BecomesGone,
         LateArrives, Exit, Die, vars, callVars, backendVars
    <3> QED BY <2>1, <3>1, BystanderKeeps
  <2> QED BY <2>1, <2>2, <2>3, <2>4 DEF Next, IndInv
<1> QED BY <1>1, <1>2, PTL DEF Spec

(* The variables of the calls and of the backend keep their types.         *)
THEOREM TypeCorrect == Spec => []TypeOK
<1>1. IndInv => TypeOK
  BY DEF IndInv
<1> QED BY <1>1, Invariance, PTL

(* An OK of CreateSnapshot names a snapshot of the requested name and      *)
(* volume, and calls it ready only when it is no longer pending            *)
(* (controller.go:482).                                                    *)
THEOREM CreateIsSafe == Spec => []CreateOKMeansSnapshot
<1>1. IndInv => CreateOKMeansSnapshot
  BY SnapshotsAssumption
  DEF IndInv, CreateOKMeansSnapshot, CallInv, HasSnapshot, Settled, Answered, Done
<1> QED BY <1>1, Invariance, PTL

(* An OK of DeleteSnapshot means that the snapshot is gone, is another     *)
(* account's, or is being deleted and the wait ended early                 *)
(* (delete_snapshot.go:77).                                                *)
THEOREM DeleteIsSafe == Spec => []DeleteOKMeansGone
<1>1. IndInv => DeleteOKMeansGone
  BY DEF IndInv, DeleteOKMeansGone, CallInv, Settled
<1> QED BY <1>1, Invariance, PTL

(* What ListSnapshots says of a snapshot of this account, named by its     *)
(* CRN, rests on a look at it (controller.go:569).                         *)
THEOREM ListIsSafe == Spec => []ListedMeansSo
<1>1. IndInv => ListedMeansSo
  BY DEF IndInv, ListedMeansSo, CallInv, Settled
<1> QED BY <1>1, Invariance, PTL

=============================================================================
