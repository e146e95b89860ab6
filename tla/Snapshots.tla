------------------------------ MODULE Snapshots ------------------------------
(***************************************************************************)
(* CreateSnapshot, DeleteSnapshot and ListSnapshots for one snapshot ID,   *)
(* of the CSI controller server, and the VPC provider code they call.  No  *)
(* lock is taken.  A step is one API request; a read that is repeated      *)
(* until it answers or fails for good is one step.                         *)
(*                                                                         *)
(* The orchestrator names a snapshot by its CRN, which holds the account,  *)
(* or, for a snapshot made elsewhere, by its bare ID.                      *)
(***************************************************************************)
EXTENDS Naturals

CONSTANTS
  Names,         (* snapshot names                                         *)
  Volumes,       (* source volumes                                         *)
  IDs,           (* snapshot IDs the backend can hand out                  *)
  Foreign,       (* a snapshot of another account                          *)
  NoID,          (* a call knows no snapshot                               *)
  Calls,         (* gRPC calls                                             *)
  MaxAttempts    (* attempts of retry and of FlexyRetry (default 10)       *)

ASSUME SnapshotsAssumption ==
  /\ NoID \notin IDs /\ Foreign \notin IDs /\ NoID # Foreign
  /\ MaxAttempts \in Nat \ {0}

VARIABLES
  account,       (* account ID of the driver; none in a satellite cluster  *)
  req,           (* what each call asks for                                *)
  pc,            (* where each call is                                     *)
  tries,         (* attempts made in the retry loop a call is in           *)
  snap,          (* snapshot a call works on                               *)
  resp,          (* answer of each call                                    *)
  state,         (* backend: lifecycle state of each snapshot              *)
  name,          (* backend: name of each snapshot                         *)
  source,        (* backend: source volume of each snapshot                *)
  late,          (* requests that timed out but may still reach it         *)
  masked,        (* history: calls that took an API failure for absence    *)
  gaveUp         (* history: deletes whose wait ran out of attempts        *)

callVars    == <<account, req, pc, tries, snap, resp, masked, gaveUp>>
backendVars == <<state, name, source, late>>
vars        == <<callVars, backendVars>>

(* The empty account ID.                                                   *)
NoAccount == "noAccount"

Creates == [op : {"create"}, name : Names, vol : Volumes]

Requests == Creates \cup [op : {"delete", "list"}, form : {"crn", "bare", "foreign"}]

Running == {"find", "create", "sleep", "delete", "waitGone", "get"}

(* An OK carries the snapshot's ReadyToUse, or is an empty list.           *)
Answers == {"none", "error", "ok", "ready", "unready", "empty"}

TypeOK ==
  /\ account \in {"own", NoAccount}
  /\ req \in [Calls -> Requests]
  /\ pc \in [Calls -> Running \cup {"idle", "done", "dead"}]
  /\ tries \in [Calls -> Nat]
  /\ snap \in [Calls -> IDs \cup {Foreign, NoID}]
  /\ resp \in [Calls -> Answers]
  /\ state \in [IDs -> {"none", "pending", "stable", "deleting", "gone"}]
  /\ name \in [IDs -> SUBSET Names]
  /\ source \in [IDs -> SUBSET Volumes]
  /\ late \subseteq Creates \cup [op : {"delete"}, id : IDs]
  /\ masked \subseteq Calls
  /\ gaveUp \subseteq Calls

-----------------------------------------------------------------------------
Live(id) == id \in IDs /\ state[id] \in {"pending", "stable", "deleting"}

Named(n) == {id \in IDs : Live(id) /\ n \in name[id]}

(* ReadyToUse of createCSISnapshotResponse.                                *)
Ready(id) == IF state[id] = "stable" THEN "ready" ELSE "unready"

(* Mutant: the account is taken from the wrong token of the CRN.           *)
AccountOfToken(form) == NoAccount

(* getSnapshotAndAccountIDsFromCRN: a bare ID has no account.              *)
AccountOf(form) ==
  CASE form = "crn" -> "own" [] form = "bare" -> NoAccount [] form = "foreign" -> "other"

Go(c, place) == pc' = [pc EXCEPT ![c] = place]

Answer(c, r) == Go(c, "done") /\ resp' = [resp EXCEPT ![c] = r]

(* Mutant: the attempts are counted down.                                  *)
RetryCountingDown(c) ==
  /\ tries' = [tries EXCEPT ![c] = @ - 1]
  /\ UNCHANGED <<pc, resp>>

(* retry: one more attempt, or the error of the last one; a failed create  *)
(* keeps the orchestrator waiting before it gets the error.                *)
Retry(c) ==
  \/ /\ tries[c] + 1 < MaxAttempts
     /\ tries' = [tries EXCEPT ![c] = @ + 1]
     /\ UNCHANGED <<pc, resp>>
  \/ /\ tries[c] + 1 >= MaxAttempts
     /\ IF req[c].op = "create" THEN Go(c, "sleep") /\ UNCHANGED resp
                                ELSE Answer(c, "error")
     /\ UNCHANGED tries

Init ==
  /\ account \in {"own", NoAccount}
  /\ req \in [Calls -> Requests]
  /\ pc = [c \in Calls |-> "idle"]
  /\ tries = [c \in Calls |-> 0]
  /\ snap = [c \in Calls |-> NoID]
  /\ resp = [c \in Calls |-> "none"]
  /\ state = [id \in IDs |-> "none"]
  /\ name = [id \in IDs |-> {}]
  /\ source = [id \in IDs |-> {}]
  /\ late = {}
  /\ masked = {}
  /\ gaveUp = {}

(* Snapshots the orchestrator can name: those that exist or existed.       *)
Nameable(form) ==
  IF form = "foreign" THEN {Foreign} ELSE {id \in IDs : state[id] # "none"}

Begin(c) ==
  /\ pc[c] = "idle"
  /\ \/ req[c].op = "create" /\ Go(c, "find") /\ UNCHANGED snap
     \/ /\ req[c].op # "create"
        /\ \E id \in Nameable(req[c].form) : snap' = [snap EXCEPT ![c] = id]
        /\ Go(c, IF req[c].op = "delete" THEN "delete" ELSE "get")
  /\ UNCHANGED <<account, req, tries, resp, masked, gaveUp, backendVars>>

(* Missing arguments, snapshots switched off, or no provider session.      *)
Reject(c) ==
  /\ pc[c] = "idle"
  /\ Answer(c, "error")
  /\ UNCHANGED <<account, req, tries, snap, masked, gaveUp, backendVars>>

-----------------------------------------------------------------------------
(* CreateSnapshot.                                                         *)

(* Mutant: the source of the snapshot that was found is not compared.      *)
CreateTakesExisting(c) ==
  /\ pc[c] = "find"
  /\ \E id \in Named(req[c].name) :
       snap' = [snap EXCEPT ![c] = id] /\ Answer(c, Ready(id))
  /\ UNCHANGED <<account, req, tries, masked, gaveUp, backendVars>>

(* A snapshot of that name: of the same volume, or SnapshotAlreadyExists.  *)
CreateFindsExisting(c) ==
  /\ pc[c] = "find"
  /\ \E id \in Named(req[c].name) :
       \/ /\ source[id] = {req[c].vol}
          /\ snap' = [snap EXCEPT ![c] = id]
          /\ Answer(c, Ready(id))
       \/ /\ source[id] # {req[c].vol}
          /\ Answer(c, "error")
          /\ UNCHANGED snap
  /\ UNCHANGED <<account, req, tries, masked, gaveUp, backendVars>>

(* None, or the lookup failed: its error is not looked at.                 *)
CreateFindsNone(c) ==
  /\ pc[c] = "find"
  /\ Go(c, "create")
  /\ tries' = [tries EXCEPT ![c] = 0]
  /\ UNCHANGED <<account, req, snap, resp, masked, gaveUp, backendVars>>

(* The backend keeps one live snapshot per name.                           *)
MakeSnapshot(id, n, v) ==
  /\ Named(n) = {}
  /\ state[id] = "none"
  /\ state' = [state EXCEPT ![id] = "pending"]
  /\ name' = [name EXCEPT ![id] = {n}]
  /\ source' = [source EXCEPT ![id] = {v}]

CreateAccepted(c) ==
  /\ pc[c] = "create"
  /\ \E id \in IDs :
       /\ MakeSnapshot(id, req[c].name, req[c].vol)
       /\ snap' = [snap EXCEPT ![c] = id]
  /\ Answer(c, "unready")
  /\ UNCHANGED <<account, req, tries, masked, gaveUp, late>>

(* Name in use or quota: retried.  One of skipErrorCodes: not retried.     *)
CreateRefused(c) ==
  /\ pc[c] = "create"
  /\ \/ /\ Named(req[c].name) # {} \/ \A id \in IDs : state[id] # "none"
        /\ Retry(c)
     \/ Go(c, "sleep") /\ UNCHANGED <<tries, resp>>
  /\ UNCHANGED <<account, req, snap, masked, gaveUp, backendVars>>

CreateTimesOut(c) ==
  /\ pc[c] = "create"
  /\ late' = late \cup {req[c]} \/ UNCHANGED late
  /\ Retry(c)
  /\ UNCHANGED <<account, req, snap, masked, gaveUp, state, name, source>>

(* The sleep of getMaxDelaySnapshotCreate is over.                         *)
SleepEnds(c) ==
  /\ pc[c] = "sleep"
  /\ Answer(c, "error")
  /\ UNCHANGED <<account, req, tries, snap, masked, gaveUp, backendVars>>

-----------------------------------------------------------------------------
(* DeleteSnapshot: the account of the CRN is not looked at.                *)

DeleteAccepted(c) ==
  /\ pc[c] = "delete"
  /\ Live(snap[c])
  /\ state' = [state EXCEPT ![snap[c]] = "deleting"]
  /\ Go(c, "waitGone")
  /\ tries' = [tries EXCEPT ![c] = 0]
  /\ UNCHANGED <<account, req, snap, resp, masked, gaveUp, name, source, late>>

(* "snapshots_not_found" is success; the backend's other code for a        *)
(* missing snapshot is an error.                                           *)
DeleteFindsNone(c) ==
  /\ pc[c] = "delete"
  /\ ~Live(snap[c])
  /\ Answer(c, "ok") \/ Answer(c, "error")
  /\ UNCHANGED <<account, req, tries, snap, masked, gaveUp, backendVars>>

(* Mutant: the error of the last attempt is not reported.                  *)
DeleteRefusedSilently(c) ==
  /\ pc[c] = "delete"
  /\ Answer(c, "ok")
  /\ UNCHANGED <<account, req, tries, snap, masked, gaveUp, backendVars>>

(* Busy: retried.  Not authorised: not retried.                            *)
DeleteRefused(c) ==
  /\ pc[c] = "delete"
  /\ Live(snap[c])
  /\ \/ Retry(c)
     \/ Answer(c, "error") /\ UNCHANGED tries
  /\ UNCHANGED <<account, req, snap, masked, gaveUp, backendVars>>

DeleteTimesOut(c) ==
  /\ pc[c] = "delete"
  /\ \/ snap[c] \in IDs /\ late' = late \cup {[op |-> "delete", id |-> snap[c]]}
     \/ UNCHANGED late
  /\ Retry(c)
  /\ UNCHANGED <<account, req, snap, masked, gaveUp, state, name, source>>

(* WaitForSnapshotDeletion: a read with one of skipErrorCodes is the end,  *)
(* and so is the last attempt.                                             *)
WaitForSnapshotDeletion(c) ==
  /\ pc[c] = "waitGone"
  /\ \/ ~Live(snap[c]) /\ Answer(c, "ok") /\ UNCHANGED <<tries, gaveUp>>
     \/ /\ tries[c] + 1 < MaxAttempts
        /\ tries' = [tries EXCEPT ![c] = @ + 1]
        /\ UNCHANGED <<pc, resp, gaveUp>>
     \/ /\ tries[c] + 1 >= MaxAttempts
        /\ Answer(c, "ok")
        /\ gaveUp' = gaveUp \cup {c}
        /\ UNCHANGED tries
  /\ UNCHANGED <<account, req, snap, masked, backendVars>>

(* "snapshots_not_authorized" is one of the codes, too.                    *)
WaitForDeletionMasked(c) ==
  /\ pc[c] = "waitGone"
  /\ Live(snap[c])
  /\ Answer(c, "ok")
  /\ masked' = masked \cup {c}
  /\ UNCHANGED <<account, req, tries, snap, gaveUp, backendVars>>

Die ==
  /\ pc' = [c \in Calls |-> IF pc[c] \in Running THEN "dead" ELSE pc[c]]
  /\ UNCHANGED <<account, req, tries, snap, resp, masked, gaveUp, backendVars>>

(* A transport error is no *models.Error: the type assertion panics.       *)
WaitForDeletionPanics(c) == pc[c] = "waitGone" /\ Die

-----------------------------------------------------------------------------
(* ListSnapshots with a snapshot ID.                                       *)

LookedUp(c) == AccountOf(req[c].form) = account

ListFinds(c) ==
  /\ pc[c] = "get" /\ LookedUp(c)
  /\ Live(snap[c])
  /\ Answer(c, Ready(snap[c]))
  /\ UNCHANGED <<account, req, tries, snap, masked, gaveUp, backendVars>>

(* GetSnapshot gives nil for every failure, and nil is an empty list.      *)
ListFindsNone(c) ==
  /\ pc[c] = "get" /\ LookedUp(c)
  /\ Answer(c, "empty")
  /\ masked' = IF Live(snap[c]) THEN masked \cup {c} ELSE masked
  /\ UNCHANGED <<account, req, tries, snap, gaveUp, backendVars>>

(* A snapshot of another account is taken to be ready without a look.      *)
ListTrusts(c) ==
  /\ pc[c] = "get" /\ ~LookedUp(c)
  /\ Answer(c, "ready")
  /\ UNCHANGED <<account, req, tries, snap, masked, gaveUp, backendVars>>

-----------------------------------------------------------------------------
(* The backend, the network and the process.                               *)

BecomesStable(id) ==
  /\ state[id] = "pending"
  /\ state' = [state EXCEPT ![id] = "stable"]
  /\ UNCHANGED <<callVars, name, source, late>>

BecomesGone(id) ==
  /\ state[id] = "deleting"
  /\ state' = [state EXCEPT ![id] = "gone"]
  /\ UNCHANGED <<callVars, name, source, late>>

LateArrives(r) ==
  /\ late' = late \ {r}
  /\ \/ r.op = "create" /\ \E id \in IDs : MakeSnapshot(id, r.name, r.vol)
     \/ /\ r.op = "delete" /\ Live(r.id)
        /\ state' = [state EXCEPT ![r.id] = "deleting"]
        /\ UNCHANGED <<name, source>>
  /\ UNCHANGED callVars

(* SIGTERM                                                                 *)
Exit == (\E c \in Calls : pc[c] \in Running) /\ Die

CallStep(c) ==
  \/ Begin(c) \/ Reject(c)
  \/ CreateFindsExisting(c) \/ CreateFindsNone(c)
  \/ CreateAccepted(c) \/ CreateRefused(c) \/ CreateTimesOut(c) \/ SleepEnds(c)
  \/ DeleteAccepted(c) \/ DeleteFindsNone(c) \/ DeleteRefused(c) \/ DeleteTimesOut(c)
  \/ WaitForSnapshotDeletion(c) \/ WaitForDeletionMasked(c) \/ WaitForDeletionPanics(c)
  \/ ListFinds(c) \/ ListFindsNone(c) \/ ListTrusts(c)

Next ==
  \/ \E c \in Calls : CallStep(c)
  \/ \E id \in IDs : BecomesStable(id) \/ BecomesGone(id)
  \/ \E r \in late : LateArrives(r)
  \/ Exit

Spec == Init /\ [][Next]_vars

-----------------------------------------------------------------------------
(* Correctness.                                                            *)

Done(c, op) == req[c].op = op /\ pc[c] = "done" /\ resp[c] # "error"

(* An OK of CreateSnapshot names a snapshot of the requested name and      *)
(* volume, through every retry, lost answer and concurrent create of the   *)
(* same name, and says ReadyToUse only of one that is no longer pending    *)
(* (controller.go:484).                                                    *)
CreateOKMeansSnapshot ==
  \A c \in Calls : Done(c, "create") =>
    /\ snap[c] \in IDs
    /\ name[snap[c]] = {req[c].name}
    /\ source[snap[c]] = {req[c].vol}
    /\ resp[c] = "ready" => state[snap[c]] # "pending"

(* An OK of DeleteSnapshot means that the snapshot is gone or was never of *)
(* this account; that its deletion was accepted and the wait ran out; or   *)
(* that a read which was not allowed passed for "not found".               *)
DeleteOKMeansGone ==
  \A c \in Calls : Done(c, "delete") =>
    \/ snap[c] = Foreign
    \/ state[snap[c]] = "gone"
    \/ c \in gaveUp \cup masked /\ state[snap[c]] = "deleting"

(* The CRN that CreateSnapshot hands out is looked up when it comes back:  *)
(* "ready" is said only of a snapshot that is no longer pending, and an    *)
(* empty list only if it is gone or the read failed (controller.go:569).   *)
(* Exceptions: a driver that knows no account (satellite clusters) trusts  *)
(* every CRN, and every other driver trusts every bare ID.                 *)
ListedMeansSo ==
  \A c \in Calls :
    Done(c, "list") /\ req[c].form = "crn" /\ account = "own" =>
      /\ resp[c] = "ready" => state[snap[c]] # "pending"
      /\ resp[c] = "empty" => c \in masked \/ ~Live(snap[c])

=============================================================================
