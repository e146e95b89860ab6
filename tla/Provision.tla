----------------------------- MODULE Provision -----------------------------
(***************************************************************************)
(* CreateVolume, DeleteVolume and ControllerExpandVolume of the CSI        *)
(* controller server and the VPC provider code they call.  These handlers  *)
(* take no lock: calls for the same volume interleave at every request to  *)
(* the VPC API.                                                            *)
(*                                                                         *)
(* A step is one API request; a read that is repeated until it answers or  *)
(* fails for good is one step.  The backend keeps one live volume per name *)
(* and refuses a second one.                                               *)
(***************************************************************************)
EXTENDS Naturals

CONSTANTS
  Names,         (* volume names (one per persistent volume claim)         *)
  IDs,           (* volume IDs the backend can hand out                    *)
  Calls,         (* gRPC calls                                             *)
  NoID,          (* a call knows no volume                                 *)
  CreateSizes,   (* requested sizes in GiB, after getRequestedCapacity     *)
  ExpandBytes,   (* requested sizes of expansions, in bytes                *)
  GiB,           (* bytes in a GiB                                         *)
  MaxAttempts    (* attempts of retry and of FlexyRetry (default 10)       *)

ASSUME ProvisionAssumption ==
  /\ NoID \notin IDs
  /\ CreateSizes \subseteq Nat
  /\ ExpandBytes \subseteq Nat
  /\ GiB \in Nat \ {0}
  /\ MaxAttempts \in Nat \ {0}

VARIABLES
  req,           (* what each call asks for                                *)
  pc,            (* where each call is                                     *)
  tries,         (* attempts made in the retry loop a call is in           *)
  vol,           (* volume ID a call works on                              *)
  resp,          (* answer of each call                                    *)
  state,         (* backend: status of each volume                         *)
  name,          (* backend: name of each volume                           *)
  cap,           (* backend: capacity of each volume, in GiB               *)
  late,          (* requests that timed out but may still reach it         *)
  found,         (* history: creates answered with an existing volume      *)
  masked,        (* history: deletes that took an API failure for absence  *)
  gaveUp         (* history: deletes whose wait ran out of attempts        *)

history     == <<found, masked, gaveUp>>
callVars    == <<req, pc, tries, vol, resp, history>>
backendVars == <<state, name, cap, late>>
vars        == <<callVars, backendVars>>

Creates == [op : {"create"}, name : Names, size : CreateSizes]
Deletes == [op : {"delete"}, name : Names, size : {0}]
Expands == [op : {"expand"}, name : Names, size : ExpandBytes]

Requests == Creates \cup Deletes \cup Expands

(* A request on the wire names a volume by name (create) or by ID.         *)
LateRequests ==
  [op : {"create"}, key : Names, size : Nat]
    \cup [op : {"delete", "expand"}, key : IDs, size : Nat]

Running ==
  {"lookup", "create", "waitValid", "delete", "waitGone", "reread", "expand"}

States == {"none", "pending", "available", "updating", "deleting", "gone"}

TypeOK ==
  /\ req \in [Calls -> Requests]
  /\ pc \in [Calls -> Running \cup {"idle", "done", "dead"}]
  /\ tries \in [Calls -> Nat]
  /\ vol \in [Calls -> IDs \cup {NoID}]
  /\ resp \in [Calls -> {"none", "ok", "error"}]
  /\ state \in [IDs -> States]
  /\ name \in [IDs -> SUBSET Names]
  /\ cap \in [IDs -> Nat]
  /\ late \in SUBSET LateRequests
  /\ found \in SUBSET Calls
  /\ masked \in SUBSET Calls
  /\ gaveUp \in SUBSET Calls

-----------------------------------------------------------------------------
Live(id) == state[id] \in {"pending", "available", "updating", "deleting"}

(* GetVolumeByName; a volume on its way out is still found.                *)
Named(n) == {id \in IDs : Live(id) /\ n \in name[id]}

(* Mutant: the size is rounded down.                                       *)
RoundDownSize(b) == b \div GiB

RoundUpSize(b) == (b + GiB - 1) \div GiB

Go(c, place) == pc' = [pc EXCEPT ![c] = place]

Answer(c, r) == Go(c, "done") /\ resp' = [resp EXCEPT ![c] = r]

StartLoop(c, place) == Go(c, place) /\ tries' = [tries EXCEPT ![c] = 0]

(* Mutant: the attempts are counted down.                                  *)
RetryCountingDown(c) ==
  /\ tries' = [tries EXCEPT ![c] = @ - 1]
  /\ UNCHANGED <<pc, resp>>

(* retry: one more attempt, or the error of the last one.                  *)
Retry(c) ==
  \/ /\ tries[c] + 1 < MaxAttempts
     /\ tries' = [tries EXCEPT ![c] = @ + 1]
     /\ UNCHANGED <<pc, resp>>
  \/ /\ tries[c] + 1 >= MaxAttempts
     /\ Answer(c, "error")
     /\ UNCHANGED tries

Init ==
  /\ req \in [Calls -> Requests]
  /\ pc = [c \in Calls |-> "idle"]
  /\ tries = [c \in Calls |-> 0]
  /\ vol = [c \in Calls |-> NoID]
  /\ resp = [c \in Calls |-> "none"]
  /\ state = [id \in IDs |-> "none"]
  /\ name = [id \in IDs |-> {}]
  /\ cap = [id \in IDs |-> 0]
  /\ late = {}
  /\ found = {}
  /\ masked = {}
  /\ gaveUp = {}

(* The orchestrator learns volume IDs from the answers to CreateVolume.    *)
Known(n) ==
  {vol[d] : d \in {d \in Calls : /\ req[d].op = "create" /\ req[d].name = n
                                 /\ pc[d] = "done" /\ resp[d] = "ok"}}

Begin(c) ==
  /\ pc[c] = "idle"
  /\ \/ /\ req[c].op = "create"
        /\ UNCHANGED vol
     \/ /\ req[c].op # "create"
        /\ \E id \in Known(req[c].name) : vol' = [vol EXCEPT ![c] = id]
  /\ Go(c, "lookup")
  /\ UNCHANGED <<req, tries, resp, history, backendVars>>

(* Missing or invalid arguments, or no provider session.                   *)
Reject(c) ==
  /\ pc[c] = "idle"
  /\ Answer(c, "error")
  /\ UNCHANGED <<req, tries, vol, history, backendVars>>

-----------------------------------------------------------------------------
(* CreateVolume.                                                           *)

(* Mutant: the capacity of the volume that was found is not compared.      *)
CreateTakesExisting(c) ==
  /\ pc[c] = "lookup" /\ req[c].op = "create"
  /\ \E id \in Named(req[c].name) : vol' = [vol EXCEPT ![c] = id]
  /\ found' = found \cup {c}
  /\ Answer(c, "ok")
  /\ UNCHANGED <<req, tries, masked, gaveUp, backendVars>>

(* checkIfVolumeExists finds a volume of that name: same capacity, or the  *)
(* call fails with VolumeAlreadyExists.                                    *)
CreateFindsExisting(c) ==
  /\ pc[c] = "lookup" /\ req[c].op = "create"
  /\ \E id \in Named(req[c].name) :
       \/ /\ cap[id] = req[c].size
          /\ vol' = [vol EXCEPT ![c] = id]
          /\ found' = found \cup {c}
          /\ Answer(c, "ok")
       \/ /\ cap[id] # req[c].size
          /\ Answer(c, "error")
          /\ UNCHANGED <<vol, found>>
  /\ UNCHANGED <<req, tries, masked, gaveUp, backendVars>>

(* No such volume, or any error of the lookup: go on and create.           *)
CreateFindsNone(c) ==
  /\ pc[c] = "lookup" /\ req[c].op = "create"
  /\ StartLoop(c, "create")
  /\ UNCHANGED <<req, vol, resp, history, backendVars>>

(* The backend makes a volume.                                             *)
MakeVolume(id, n, size) ==
  /\ Named(n) = {}
  /\ state[id] = "none"
  /\ state' = [state EXCEPT ![id] = "pending"]
  /\ name' = [name EXCEPT ![id] = {n}]
  /\ cap' = [cap EXCEPT ![id] = size]

CreateAccepted(c) ==
  /\ pc[c] = "create"
  /\ \E id \in IDs :
       /\ MakeVolume(id, req[c].name, req[c].size)
       /\ vol' = [vol EXCEPT ![c] = id]
  /\ StartLoop(c, "waitValid")
  /\ UNCHANGED <<req, resp, history, late>>

(* Name in use (not among skipErrorCodes, so retried) or quota.            *)
CreateRefused(c) ==
  /\ pc[c] = "create"
  /\ Named(req[c].name) # {} \/ \A id \in IDs : state[id] # "none"
  /\ Retry(c)
  /\ UNCHANGED <<req, vol, history, backendVars>>

(* One of skipErrorCodes (profile, capacity, snapshot...) ends the loop.   *)
CreateInvalid(c) ==
  /\ pc[c] = "create"
  /\ Answer(c, "error")
  /\ UNCHANGED <<req, tries, vol, history, backendVars>>

CreateTimesOut(c) ==
  /\ pc[c] = "create"
  /\ \/ late' = late \cup {[op |-> "create", key |-> req[c].name, size |-> req[c].size]}
     \/ UNCHANGED late
  /\ Retry(c)
  /\ UNCHANGED <<req, vol, history, state, name, cap>>

(* WaitForValidVolumeState, for a new and for an expanded volume.          *)
WaitForValidVolumeState(c) ==
  /\ pc[c] = "waitValid"
  /\ \/ /\ state[vol[c]] = "available"
        /\ Answer(c, "ok")
        /\ UNCHANGED tries
     \/ /\ state[vol[c]] \in {"pending", "updating", "deleting"}
        /\ Retry(c)
     \/ /\ ~Live(vol[c])
        /\ Answer(c, "error")
        /\ UNCHANGED tries
  /\ UNCHANGED <<req, vol, history, backendVars>>

WaitForValidFails(c) ==
  /\ pc[c] = "waitValid"
  /\ Retry(c)
  /\ UNCHANGED <<req, vol, history, backendVars>>

-----------------------------------------------------------------------------
(* DeleteVolume.                                                           *)

DeleteFinds(c) ==
  /\ pc[c] = "lookup" /\ req[c].op = "delete"
  /\ Live(vol[c])
  /\ StartLoop(c, "delete")
  /\ UNCHANGED <<req, vol, resp, history, backendVars>>

(* GetVolume reports every failure as RetrivalFailed, which                *)
(* checkIfVolumeExists takes for "no such volume": success.                *)
DeleteFindsNone(c) ==
  /\ pc[c] = "lookup" /\ req[c].op = "delete"
  /\ masked' = IF Live(vol[c]) THEN masked \cup {c} ELSE masked
  /\ Answer(c, "ok")
  /\ UNCHANGED <<req, tries, vol, found, gaveUp, backendVars>>

DeleteAccepted(c) ==
  /\ pc[c] = "delete"
  /\ state[vol[c]] = "available"
  /\ state' = [state EXCEPT ![vol[c]] = "deleting"]
  /\ StartLoop(c, "waitGone")
  /\ UNCHANGED <<req, vol, resp, history, name, cap, late>>

(* Mutant: the last failed attempt is not reported.                        *)
DeleteRefusedSilently(c) ==
  /\ pc[c] = "delete"
  /\ Answer(c, "ok")
  /\ UNCHANGED <<req, tries, vol, history, backendVars>>

(* Attached, busy or already on its way out: retried.  Gone: not retried.  *)
DeleteRefused(c) ==
  /\ pc[c] = "delete"
  /\ \/ Live(vol[c]) /\ Retry(c)
     \/ ~Live(vol[c]) /\ Answer(c, "error") /\ UNCHANGED tries
  /\ UNCHANGED <<req, vol, history, backendVars>>

DeleteTimesOut(c) ==
  /\ pc[c] = "delete"
  /\ \/ late' = late \cup {[op |-> "delete", key |-> vol[c], size |-> 0]}
     \/ UNCHANGED late
  /\ Retry(c)
  /\ UNCHANGED <<req, vol, history, state, name, cap>>

(* WaitForVolumeDeletion: every read that is not a "not found" is worth    *)
(* another attempt, and running out of attempts is no error.               *)
WaitForVolumeDeletion(c) ==
  /\ pc[c] = "waitGone"
  /\ \/ /\ ~Live(vol[c])
        /\ Answer(c, "ok")
        /\ UNCHANGED <<tries, gaveUp>>
     \/ /\ tries[c] + 1 < MaxAttempts
        /\ tries' = [tries EXCEPT ![c] = @ + 1]
        /\ UNCHANGED <<pc, resp, gaveUp>>
     \/ /\ tries[c] + 1 >= MaxAttempts
        /\ Answer(c, "ok")
        /\ gaveUp' = gaveUp \cup {c}
        /\ UNCHANGED tries
  /\ UNCHANGED <<req, vol, found, masked, backendVars>>

(* End of the process: every call in flight is lost.                       *)
Die ==
  /\ pc' = [c \in Calls |-> IF pc[c] \in Running THEN "dead" ELSE pc[c]]
  /\ UNCHANGED <<req, tries, vol, resp, history, backendVars>>

(* A transport error is no *models.Error: the type assertion panics and    *)
(* nothing recovers it.                                                    *)
WaitForVolumeDeletionPanics(c) == pc[c] = "waitGone" /\ Die

-----------------------------------------------------------------------------
(* ControllerExpandVolume.                                                 *)

ExpandFinds(c) ==
  /\ pc[c] = "lookup" /\ req[c].op = "expand"
  /\ Live(vol[c])
  /\ Go(c, "reread")
  /\ UNCHANGED <<req, tries, vol, resp, history, backendVars>>

(* The volume is absent, or one of the two reads fails.                    *)
ExpandReadFails(c) ==
  /\ pc[c] \in {"lookup", "reread"} /\ req[c].op = "expand"
  /\ Answer(c, "error")
  /\ UNCHANGED <<req, tries, vol, history, backendVars>>

(* ExpandVolume compares the capacity, in GiB, with the request, in bytes. *)
ExpandReads(c) ==
  /\ pc[c] = "reread"
  /\ Live(vol[c])
  /\ \/ /\ cap[vol[c]] >= req[c].size
        /\ Answer(c, "ok")
        /\ UNCHANGED tries
     \/ /\ cap[vol[c]] < req[c].size
        /\ StartLoop(c, "expand")
        /\ UNCHANGED resp
  /\ UNCHANGED <<req, vol, history, backendVars>>

(* The backend grows an available volume and never shrinks one.            *)
CanGrow(id, size) == state[id] = "available" /\ size >= cap[id]

Grow(id, size) ==
  /\ cap' = [cap EXCEPT ![id] = size]
  /\ state' = [state EXCEPT ![id] = "updating"]

ExpandAccepted(c) ==
  /\ pc[c] = "expand"
  /\ CanGrow(vol[c], RoundUpSize(req[c].size))
  /\ Grow(vol[c], RoundUpSize(req[c].size))
  /\ StartLoop(c, "waitValid")
  /\ UNCHANGED <<req, vol, resp, history, name, late>>

ExpandRefused(c) ==
  /\ pc[c] = "expand"
  /\ \/ Live(vol[c]) /\ Retry(c)
     \/ ~Live(vol[c]) /\ Answer(c, "error") /\ UNCHANGED tries
  /\ UNCHANGED <<req, vol, history, backendVars>>

ExpandTimesOut(c) ==
  /\ pc[c] = "expand"
  /\ \/ late' = late \cup
          {[op |-> "expand", key |-> vol[c], size |-> RoundUpSize(req[c].size)]}
     \/ UNCHANGED late
  /\ Retry(c)
  /\ UNCHANGED <<req, vol, history, state, name, cap>>

-----------------------------------------------------------------------------
(* The backend, the network and the process.                               *)

BecomesAvailable(id) ==
  /\ state[id] \in {"pending", "updating"}
  /\ state' = [state EXCEPT ![id] = "available"]
  /\ UNCHANGED <<callVars, name, cap, late>>

BecomesGone(id) ==
  /\ state[id] = "deleting"
  /\ state' = [state EXCEPT ![id] = "gone"]
  /\ UNCHANGED <<callVars, name, cap, late>>

LateArrives(r) ==
  /\ r \in late
  /\ late' = late \ {r}
  /\ \/ r.op = "create" /\ \E id \in IDs : MakeVolume(id, r.key, r.size)
     \/ /\ r.op = "delete" /\ state[r.key] = "available"
        /\ state' = [state EXCEPT ![r.key] = "deleting"]
        /\ UNCHANGED <<name, cap>>
     \/ /\ r.op = "expand" /\ CanGrow(r.key, r.size)
        /\ Grow(r.key, r.size)
        /\ UNCHANGED name
  /\ UNCHANGED callVars

(* SIGTERM                                                                 *)
Exit == (\E c \in Calls : pc[c] \in Running) /\ Die

CreateStep(c) ==
  \/ CreateFindsExisting(c) \/ CreateFindsNone(c)
  \/ CreateAccepted(c) \/ CreateRefused(c) \/ CreateInvalid(c) \/ CreateTimesOut(c)

DeleteStep(c) ==
  \/ DeleteFinds(c) \/ DeleteFindsNone(c)
  \/ DeleteAccepted(c) \/ DeleteRefused(c) \/ DeleteTimesOut(c)
  \/ WaitForVolumeDeletion(c) \/ WaitForVolumeDeletionPanics(c)

ExpandStep(c) ==
  \/ ExpandFinds(c) \/ ExpandReadFails(c) \/ ExpandReads(c)
  \/ ExpandAccepted(c) \/ ExpandRefused(c) \/ ExpandTimesOut(c)

CallStep(c) ==
  \/ Begin(c) \/ Reject(c)
  \/ CreateStep(c) \/ DeleteStep(c) \/ ExpandStep(c)
  \/ WaitForValidVolumeState(c) \/ WaitForValidFails(c)

BackendStep ==
  \/ \E id \in IDs : BecomesAvailable(id) \/ BecomesGone(id)
  \/ \E r \in late : LateArrives(r)

Next == (\E c \in Calls : CallStep(c)) \/ BackendStep \/ Exit

Spec == Init /\ [][Next]_vars

-----------------------------------------------------------------------------
(* Correctness.                                                            *)

Done(c, op) == req[c].op = op /\ pc[c] = "done" /\ resp[c] = "ok"

(* An OK of CreateVolume names a volume with the requested name and at     *)
(* least the requested size, through every retry, lost answer and          *)
(* concurrent create or expansion; and unless the volume was found by name *)
(* it has been available before the call answered.                         *)
CreateOKMeansVolume ==
  \A c \in Calls : Done(c, "create") =>
    /\ vol[c] \in IDs
    /\ name[vol[c]] = {req[c].name}
    /\ cap[vol[c]] >= req[c].size
    /\ c \in found \/ state[vol[c]] \notin {"none", "pending"}

(* An OK of ControllerExpandVolume means that the volume holds the bytes   *)
(* asked for, whatever other expansions did in between: a later smaller    *)
(* request, or one that arrives late, takes nothing away.                  *)
ExpandOKMeansSized ==
  \A c \in Calls : Done(c, "expand") => cap[vol[c]] * GiB >= req[c].size

(* An OK of DeleteVolume means that the volume is gone, or that the        *)
(* backend has accepted the deletion and the wait ran out of attempts;     *)
(* unless the lookup failed and the failure passed for "not found".        *)
DeleteOKMeansGone ==
  \A c \in Calls : Done(c, "delete") =>
    \/ state[vol[c]] = "gone"
    \/ c \in gaveUp /\ state[vol[c]] = "deleting"
    \/ c \in masked

=============================================================================
