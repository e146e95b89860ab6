------------------------ MODULE DriverProcessProofs ------------------------
(***************************************************************************)
(* What a caller meets of the driver process, for every number of          *)
(* concurrent NodeGetInfo calls and of faults.                             *)
(*                                                                         *)
(* The argument follows the start-up: each stage establishes one thing     *)
(* (configuration, an empty path, a bound socket, its permissions) that no *)
(* later stage undoes, and the handler of SIGTERM, which tries to remove   *)
(* the socket, exists only from the last stage on.                         *)
(***************************************************************************)
EXTENDS DriverProcess, TLAPS

Permissions == permitted = (isNode => group = "sidecar")

(* What each stage of the start-up can rely on.                            *)
Stages ==
  /\ proc \in {"clean", "listen", "permit", "register", "serve", "ended"} => driver = "full"
  /\ proc \in {"permit", "register"} => socket = "bound"
  /\ proc \in {"register", "serve"} => Permissions
  /\ proc = "serve" => socket = "bound" \/ (handler = "removed" /\ socket = "none")

(* The SIGTERM handler runs only in a process that has started to serve.   *)
HandlerServes == handler # "off" => proc \in {"serve", "ended"}

IndInv ==
  /\ TypeOK
  /\ Stages
  /\ HandlerServes
  /\ answer \in {"none", "full"}
  /\ KnownStaysKnown

-----------------------------------------------------------------------------
(* However the process ends, the next one starts from nothing.             *)
LEMMA DieStep ==
  ASSUME IndInv, Die, faults' \in 0..MaxFaults
  PROVE  IndInv'
BY DEF IndInv, TypeOK, Booting, Stages, HandlerServes, KnownStaysKnown, Permissions,
       Die, env

(* A fault is counted, up to the bound.                                    *)
LEMMA FaultStep ==
  ASSUME TypeOK, Fault
  PROVE  faults' \in 0..MaxFaults
BY ProcessAssumption DEF TypeOK, Fault

(* The start-up.                                                           *)
LEMMA StartupStep == IndInv /\ (Restart \/ Startup) => IndInv'
<1> SUFFICES ASSUME IndInv, Restart \/ Startup PROVE IndInv'
  OBVIOUS
<1> USE DEF IndInv, TypeOK, Booting, Stages, HandlerServes, KnownStaysKnown, Permissions,
        env, infoVars
<1>1. CASE Restart BY <1>1 DEF Restart
<1>2. CASE Fatal
  BY <1>2, DieStep, FaultStep DEF Fatal
<1>3. CASE Die /\ UNCHANGED faults
  BY <1>3, DieStep
<1>4. CASE Connect BY <1>2, <1>4 DEF Connect
<1>5. CASE Configure BY <1>5 DEF Configure
<1>6. CASE Locate BY <1>2, <1>6 DEF Locate
<1>7. CASE RemoveStale BY <1>2, <1>7 DEF RemoveStale
<1>8. CASE Listen
  <2>1. CASE /\ socket = "none" /\ proc' = "permit" /\ socket' = "bound" /\ permitted' = FALSE
             /\ UNCHANGED <<env, driver, handler, infoVars, answer, faults>>
    <3>1. permitted' \in BOOLEAN
      BY <2>1
    <3> QED BY <1>8, <2>1, <3>1 DEF Listen
  <2> QED BY <1>2, <1>3, <1>8, <2>1 DEF Listen
<1>9. CASE Permit
  <2>1. CASE /\ proc' = "register"
             /\ permitted' = (isNode => group = "sidecar")
             /\ UNCHANGED <<env, driver, socket, handler, infoVars, answer, faults>>
    <3>1. permitted' \in BOOLEAN /\ Permissions'
      BY <2>1, Zenon
    <3> QED BY <1>9, <2>1, <3>1 DEF Permit
  <2> QED BY <1>2, <1>3, <1>9, <2>1 DEF Permit
<1>10. CASE Register BY <1>10 DEF Register
<1> QED BY <1>1, <1>4, <1>5, <1>6, <1>7, <1>8, <1>9, <1>10 DEF Startup

(* The signal handler, signals, kills and the end of Serve.                *)
LEMMA EndStep ==
  IndInv /\ (Handler \/ ServeEnds \/ Terminate \/ Kill \/ ProbeFails) => IndInv'
<1> SUFFICES ASSUME IndInv, Handler \/ ServeEnds \/ Terminate \/ Kill \/ ProbeFails
             PROVE  IndInv'
  OBVIOUS
<1> USE DEF IndInv, TypeOK, Booting, Stages, HandlerServes, KnownStaysKnown, Permissions,
        env, infoVars
<1>1. ASSUME Die, faults' \in 0..MaxFaults PROVE IndInv'
  BY <1>1, DieStep
<1>2. CASE Arm BY <1>2 DEF Arm
<1>3. CASE RemoveSocket BY <1>3 DEF RemoveSocket
<1>4. CASE Exit BY <1>1, <1>4 DEF Exit
<1>5. CASE ServeEnds
  <2>1. faults' \in 0..MaxFaults BY <1>5, FaultStep DEF ServeEnds
  <2> QED BY <1>5, <2>1 DEF ServeEnds
<1>6. ASSUME Signal, faults' \in 0..MaxFaults PROVE IndInv'
  BY <1>1, <1>6 DEF Signal
<1>7. CASE Terminate BY <1>6, <1>7, FaultStep DEF Terminate
<1>8. CASE Kill BY <1>1, <1>8, FaultStep DEF Kill
<1>9. CASE ProbeFails BY <1>6, <1>9 DEF ProbeFails
<1> QED BY <1>2, <1>3, <1>4, <1>5, <1>7, <1>8, <1>9 DEF Handler

(* The calls that are served.                                              *)
LEMMA ServedStep ==
  ASSUME IndInv, Describe \/ \E a \in Askers : Info(a)
  PROVE  IndInv'
<1> USE DEF IndInv, TypeOK, Booting, Stages, HandlerServes, KnownStaysKnown, Permissions,
        env, infoVars, InfoStep
<1>1. CASE Describe BY <1>1 DEF Describe
<1>2. ASSUME NEW a \in Askers, Info(a) PROVE IndInv'
  <2>1. CASE AskInfo(a) BY <2>1 DEF AskInfo
  <2>2. CASE FetchInfo(a) BY <2>2 DEF FetchInfo
  <2>3. CASE StoreFirst(a) BY <2>3 DEF StoreFirst
  <2>4. CASE StoreSecond(a) BY <2>4 DEF StoreSecond
  <2>5. CASE UseInfo(a)
    <3>1. CASE Fatal BY <3>1, DieStep, FaultStep DEF Fatal
    <3>2. CASE metadata = "set" /\ ~Fatal
      BY <2>5, <3>2 DEF UseInfo
    <3> QED BY <2>5, <3>1, <3>2 DEF UseInfo
  <2> QED BY <1>2, <2>1, <2>2, <2>3, <2>4, <2>5 DEF Info
<1> QED BY <1>1, <1>2

-----------------------------------------------------------------------------
(* The inductive invariant holds in every reachable state.                 *)
THEOREM Invariance == Spec => []IndInv
<1>1. ASSUME Init PROVE IndInv
  <2>1. TypeOK
    <3>1. permitted \in BOOLEAN /\ known \in BOOLEAN
      BY <1>1, Zenon DEF Init
    <3> QED BY <1>1, <3>1, ProcessAssumption DEF Init, TypeOK, Booting
  <2>2. Stages /\ HandlerServes /\ answer \in {"none", "full"} /\ KnownStaysKnown
    BY <1>1 DEF Init, Stages, HandlerServes, KnownStaysKnown
  <2> QED BY <2>1, <2>2 DEF IndInv
<1>2. IndInv /\ UNCHANGED vars => IndInv'
  BY DEF IndInv, TypeOK, Stages, HandlerServes, KnownStaysKnown, Permissions, vars, env,
     infoVars
<1>3. IndInv /\ [Next]_vars => IndInv'
  BY <1>2, StartupStep, EndStep, ServedStep DEF Next
<1> QED BY <1>1, <1>3, PTL DEF Spec

(* The variables keep their types, the faults stay within their bound, and *)
(* a process that is down has left no bound socket and no handler.         *)
THEOREM TypeCorrect == Spec => []TypeOK
<1>1. IndInv => TypeOK
  BY DEF IndInv
<1> QED BY <1>1, Invariance, PTL

(* A process that serves has its socket, until its handler has removed it, *)
(* its permissions and its configuration, whatever an earlier process left *)
(* behind (server.go:102, server.go:181).                                  *)
THEOREM ServingIsReady == Spec => []ServingMeansReady
<1>1. IndInv => ServingMeansReady
  BY DEF IndInv, ServingMeansReady, Stages, Permissions
<1> QED BY <1>1, Invariance, PTL

(* Once NodeGetInfo has answered, the shared metadata stays complete       *)
(* although calls still assign it without a lock (node.go:364).            *)
THEOREM MetadataIsKept == Spec => []KnownStaysKnown
<1>1. IndInv => KnownStaysKnown
  BY DEF IndInv
<1> QED BY <1>1, Invariance, PTL

=============================================================================
