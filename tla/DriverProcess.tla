---------------------------- MODULE DriverProcess ----------------------------
(***************************************************************************)
(* The life of a driver process: handle of main.go, SetupIBMCSIDriver, the *)
(* gRPC server on its Unix socket, the SIGTERM handler that removes the    *)
(* socket, the calls that describe the driver, and NodeGetInfo with the    *)
(* node metadata it shares between calls without a lock.                   *)
(*                                                                         *)
(* External: the kernel keeps the file of a socket whose process dies, the *)
(* kubelet restarts a process that ended and sends SIGTERM to one whose    *)
(* liveness probe cannot reach the socket (node-server.yaml:99).           *)
(***************************************************************************)
EXTENDS Naturals

CONSTANTS
  Askers,        (* concurrent NodeGetInfo calls                           *)
  MaxFaults      (* bound on failures, kills and lost races                *)

ASSUME ProcessAssumption == MaxFaults \in Nat

VARIABLES
  isNode,        (* IS_NODE_SERVER is "true"                               *)
  group,         (* SIDECAR_GROUP_ID: "sidecar", "unset" or "bad"          *)
  proc,          (* where the process is                                   *)
  driver,        (* how far the driver is configured                       *)
  socket,        (* the file at the endpoint: "none", "bound" or "stale"   *)
  permitted,     (* the sidecar may connect to it                          *)
  handler,       (* the goroutine removeCSISocket                          *)
  metadata,      (* CSINodeServer.Metadata: "nil", "torn" or "set"         *)
  ask,           (* where each NodeGetInfo call is                         *)
  known,         (* history: this process answered a NodeGetInfo           *)
  answer,        (* the driver as last described to a caller               *)
  faults         (* faults so far                                          *)

env      == <<isNode, group>>
infoVars == <<metadata, ask, known>>
vars     == <<env, proc, driver, socket, permitted, handler, infoVars, answer, faults>>

Booting == {"boot", "configure", "setup", "clean", "listen", "permit", "register"}

TypeOK ==
  /\ isNode \in BOOLEAN /\ group \in {"sidecar", "unset", "bad"}
  /\ proc \in Booting \cup {"down", "serve", "ended"}
  /\ driver \in {"empty", "servers", "full"}
  /\ socket \in {"none", "bound", "stale"} /\ permitted \in BOOLEAN
  /\ handler \in {"off", "started", "armed", "caught", "removed"}
  /\ metadata \in {"nil", "torn", "set"}
  /\ ask \in [Askers -> {"idle", "fetch", "store", "storing", "use"}]
  /\ known \in BOOLEAN
  /\ answer \in {"none", "empty", "servers", "full"}
  /\ faults \in 0..MaxFaults
  /\ proc = "down" => socket # "bound" /\ handler = "off"

Init ==
  /\ isNode \in BOOLEAN /\ group \in {"sidecar", "unset", "bad"}
  /\ proc = "down"
  /\ driver = "empty"
  /\ socket \in {"none", "stale"} /\ permitted = FALSE
  /\ handler = "off"
  /\ metadata = "nil" /\ ask = [a \in Askers |-> "idle"] /\ known = FALSE
  /\ answer = "none"
  /\ faults = 0

Fault == faults < MaxFaults /\ faults' = faults + 1

(* Mutant: the handler still runs after the end.                           *)
DieUnnoticed ==
  /\ proc' = "down"
  /\ UNCHANGED <<env, driver, socket, permitted, handler, infoVars, answer>>

(* The process ends: its memory is gone, the socket file stays.            *)
Die ==
  /\ proc' = "down"
  /\ driver' = "empty" /\ handler' = "off" /\ answer' = "none"
  /\ metadata' = "nil" /\ ask' = [a \in Askers |-> "idle"] /\ known' = FALSE
  /\ socket' = IF socket = "bound" THEN "stale" ELSE socket
  /\ UNCHANGED <<env, permitted>>

(* logger.Fatal after a failure of something the process depends on.       *)
Fatal == Fault /\ Die

Restart ==
  /\ proc = "down"
  /\ proc' = "boot"
  /\ UNCHANGED <<env, driver, socket, permitted, handler, infoVars, answer, faults>>

-----------------------------------------------------------------------------
(* handle: the Kubernetes client and the cloud provider.                   *)
Connect ==
  /\ proc = "boot"
  /\ \/ Fatal
     \/ /\ proc' = "configure"
        /\ UNCHANGED <<env, driver, socket, permitted, handler, infoVars, answer, faults>>

(* SetupIBMCSIDriver fills in the capabilities and makes the servers; its  *)
(* arguments are never nil here.                                           *)
Configure ==
  /\ proc = "configure"
  /\ proc' = "setup"
  /\ driver' = "servers"
  /\ UNCHANGED <<env, socket, permitted, handler, infoVars, answer, faults>>

(* Mutant: a failure to read the node's labels is logged.                  *)
LocateLogged ==
  /\ proc = "setup"
  /\ proc' = "clean"
  /\ driver' \in {"servers", "full"}
  /\ UNCHANGED <<env, socket, permitted, handler, infoVars, answer, faults>>

(* The end of SetupIBMCSIDriver: region and account of the node.           *)
Locate ==
  /\ proc = "setup"
  /\ \/ Fatal
     \/ /\ proc' = "clean"
        /\ driver' = "full"
        /\ UNCHANGED <<env, socket, permitted, handler, infoVars, answer, faults>>

(* Mutant: whatever is at the endpoint is left there.                      *)
RemoveNothing ==
  /\ proc = "clean"
  /\ proc' = "listen"
  /\ UNCHANGED <<env, driver, socket, permitted, handler, infoVars, answer, faults>>

(* Setup: os.Remove of what an earlier process left at the endpoint.       *)
RemoveStale ==
  /\ proc = "clean"
  /\ \/ Fatal
     \/ /\ proc' = "listen"
        /\ socket' = "none"
        /\ UNCHANGED <<env, driver, permitted, handler, infoVars, answer, faults>>

(* net.Listen fails when there is a file at the path.                      *)
Listen ==
  /\ proc = "listen"
  /\ \/ Fatal
     \/ socket # "none" /\ Die /\ UNCHANGED faults
     \/ /\ socket = "none"
        /\ proc' = "permit"
        /\ socket' = "bound" /\ permitted' = FALSE
        /\ UNCHANGED <<env, driver, handler, infoVars, answer, faults>>

(* setupSidecar, in a node server only; an unset group stands for root's.  *)
(* Others connect as the user that runs the process.                       *)
Permit ==
  /\ proc = "permit"
  /\ \/ isNode /\ Fatal
     \/ isNode /\ group = "bad" /\ Die /\ UNCHANGED faults
     \/ /\ isNode => group # "bad"
        /\ proc' = "register"
        /\ permitted' = (isNode => group = "sidecar")
        /\ UNCHANGED <<env, driver, socket, handler, infoVars, answer, faults>>

(* Services are registered, removeCSISocket is started, Serve begins.      *)
Register ==
  /\ proc = "register"
  /\ proc' = "serve"
  /\ handler' = "started"
  /\ UNCHANGED <<env, driver, socket, permitted, infoVars, answer, faults>>

(* Serve fails: the listener is closed, which removes the socket, the      *)
(* error is logged, and Wait goes on waiting as nothing calls wg.Done.     *)
ServeEnds ==
  /\ proc = "serve" /\ Fault
  /\ proc' = "ended"
  /\ socket' = "none"
  /\ UNCHANGED <<env, driver, permitted, handler, infoVars, answer>>

-----------------------------------------------------------------------------
(* removeCSISocket: signal.Notify, the signal, os.Remove, and, after the   *)
(* directories of earlier releases are deleted, os.Exit.                   *)

Arm ==
  /\ handler = "started"
  /\ handler' = "armed"
  /\ UNCHANGED <<env, proc, driver, socket, permitted, infoVars, answer, faults>>

(* A removal that fails is logged, and the handler goes on.                *)
RemoveSocket ==
  /\ handler = "caught"
  /\ handler' = "removed"
  /\ socket' = "none" \/ UNCHANGED socket
  /\ UNCHANGED <<env, proc, driver, permitted, infoVars, answer, faults>>

Exit ==
  /\ handler = "removed"
  /\ Die
  /\ UNCHANGED faults

(* SIGTERM kills a process that has not asked to be notified.              *)
Signal ==
  \/ handler \in {"off", "started"} /\ Die
  \/ /\ handler = "armed"
     /\ handler' = "caught"
     /\ UNCHANGED <<env, proc, driver, socket, permitted, infoVars, answer>>

Terminate == proc # "down" /\ Fault /\ Signal

(* SIGKILL, or a panic in another call.                                    *)
Kill == proc # "down" /\ Fault /\ Die

Reachable == socket = "bound" /\ permitted

(* The probe waits out the start (initialDelaySeconds).                    *)
ProbeFails ==
  /\ proc \in {"serve", "ended"} /\ ~Reachable
  /\ Signal
  /\ UNCHANGED faults

-----------------------------------------------------------------------------
(* GetPluginInfo and GetPluginCapabilities; ControllerGetCapabilities and  *)
(* NodeGetCapabilities copy the driver's lists in the same way.  Probe     *)
(* always succeeds.                                                        *)
Describe ==
  /\ proc = "serve" /\ Reachable
  /\ answer' = driver
  /\ UNCHANGED <<env, proc, driver, socket, permitted, handler, infoVars, faults>>

InfoStep ==
  UNCHANGED <<env, proc, driver, socket, permitted, handler, answer, faults>>

(* NodeGetInfo compares Metadata with nil, which looks at the type word of *)
(* the interface only.                                                     *)
AskInfo(a) ==
  /\ proc = "serve" /\ Reachable
  /\ ask[a] = "idle"
  /\ ask' = [ask EXCEPT ![a] = IF metadata = "nil" THEN "fetch" ELSE "use"]
  /\ UNCHANGED <<metadata, known>>
  /\ InfoStep

(* Mutant: the result is assigned before its error is looked at.           *)
FetchInfoUnchecked(a) ==
  /\ ask[a] = "fetch"
  /\ \/ /\ ask' = [ask EXCEPT ![a] = "idle"]
        /\ metadata' = "nil"
     \/ /\ ask' = [ask EXCEPT ![a] = "store"]
        /\ UNCHANGED metadata
  /\ UNCHANGED known
  /\ InfoStep

(* NewNodeMetadata asks Kubernetes: NodeMetadataInitFailed or a value.     *)
FetchInfo(a) ==
  /\ ask[a] = "fetch"
  /\ \E next \in {"idle", "store"} : ask' = [ask EXCEPT ![a] = next]
  /\ UNCHANGED <<metadata, known>>
  /\ InfoStep

(* The assignment writes two words, in either order: a type without data   *)
(* is torn, data without a type still looks nil.                           *)
StoreFirst(a) ==
  /\ ask[a] = "store"
  /\ ask' = [ask EXCEPT ![a] = "storing"]
  /\ metadata' \in IF metadata = "nil" THEN {"nil", "torn"} ELSE {metadata}
  /\ UNCHANGED known
  /\ InfoStep

StoreSecond(a) ==
  /\ ask[a] = "storing"
  /\ ask' = [ask EXCEPT ![a] = "use"]
  /\ metadata' = "set"
  /\ UNCHANGED known
  /\ InfoStep

(* The methods of Metadata are called; without data they dereference nil.  *)
(* The volume limit (VOLUME_ATTACHMENT_LIMIT or the default) is constant.  *)
UseInfo(a) ==
  /\ ask[a] = "use"
  /\ \/ metadata = "torn" /\ Fatal
     \/ /\ metadata = "set"
        /\ ask' = [ask EXCEPT ![a] = "idle"]
        /\ known' = TRUE
        /\ UNCHANGED metadata
        /\ InfoStep

-----------------------------------------------------------------------------
Startup ==
  \/ Connect \/ Configure \/ Locate
  \/ RemoveStale \/ Listen \/ Permit \/ Register

Handler == Arm \/ RemoveSocket \/ Exit

Info(a) ==
  AskInfo(a) \/ FetchInfo(a) \/ StoreFirst(a) \/ StoreSecond(a) \/ UseInfo(a)

Next ==
  \/ Restart \/ Startup \/ Handler \/ ServeEnds
  \/ Terminate \/ Kill \/ ProbeFails \/ Describe
  \/ \E a \in Askers : Info(a)

(* Goroutines run, and the kubelet restarts and probes.                    *)
Spec ==
  /\ Init /\ [][Next]_vars
  /\ WF_vars(Startup) /\ WF_vars(Handler)
  /\ WF_vars(Restart) /\ WF_vars(ProbeFails)

-----------------------------------------------------------------------------
(* No caller meets a driver without its region and account or a node       *)
(* server whose probe is locked out, at whatever moment an earlier process *)
(* died and whatever it left at the endpoint: a process that serves has    *)
(* the socket to itself, and goes without only after its handler, on its   *)
(* way to os.Exit, has removed it.                                         *)
ServingMeansReady ==
  /\ answer \in {"none", "full"}
  /\ proc = "serve" =>
       /\ socket = "bound" \/ (handler = "removed" /\ socket = "none")
       /\ permitted = (isNode => group = "sidecar")

(* A NodeGetInfo that follows an answered one finds the metadata complete: *)
(* the unsynchronised first assignment is the only one that can be seen    *)
(* half done, and a failure of a slow call takes nothing away.             *)
KnownStaysKnown == known => metadata = "set"

(* After the last fault the driver is served again and stays so, unless    *)
(* the group of the sidecar is set up wrongly: a stale socket, a signal at *)
(* any moment, a lost race or a server that ended without ending the       *)
(* process is overcome.                                                    *)
Recovers ==
  (isNode => group = "sidecar") => <>[](proc = "serve" /\ Reachable)

=============================================================================
