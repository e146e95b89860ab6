------------------------------- MODULE Listing -------------------------------
(***************************************************************************)
(* A caller's walk through the pages of ListVolumes or ListSnapshots, the  *)
(* VPC provider code behind them, and a backend in which volumes and       *)
(* snapshots come and go between two pages.                                *)
(*                                                                         *)
(* The backend (external) keeps what it lists in a fixed order, in which   *)
(* a new item may take any place, and starts a page at the item the token  *)
(* names.  A page is one step: only the last attempt of retry counts.      *)
(***************************************************************************)
EXTENDS Integers, FiniteSets

CONSTANTS
  MaxID,         (* items 1..MaxID, in the order of the backend's list     *)
  Sources,       (* source volumes of snapshots                            *)
  Entries,       (* entries a caller may ask for in a page, besides -1     *)
  MaxLimit,      (* maxLimit (100)                                         *)
  DefaultLimit   (* entries of a page when no limit is given (external)    *)

ASSUME ListingAssumption ==
  /\ MaxID \in Nat /\ MaxLimit \in Nat \ {0} /\ DefaultLimit \in Nat \ {0}
  /\ Entries \subseteq Nat
  /\ Sources \cap {"none", "gone", "volume", "zoneless", "any"} = {}

VARIABLES
  store,         (* backend: what each ID is                               *)
  phase,         (* "idle", "walking", "done" or "failed"                  *)
  op, source,    (* the list asked for; source volume, or "any"            *)
  maxEntries,    (* entries asked for in a page                            *)
  token,         (* starting token of the next page, 0: none               *)
  listed,        (* what the pages of this walk have shown                 *)
  owed,          (* history: in the list since before the walk             *)
  cut            (* history: a link to the next page made no sense         *)

request == <<op, source, maxEntries>>
vars == <<store, phase, request, token, listed, owed, cut>>

IDs        == 1..MaxID
NoItem     == 0
MaxEntries == Entries \cup {-1}

TypeOK ==
  /\ store \in [IDs -> {"none", "gone", "volume", "zoneless"} \cup Sources]
  /\ phase \in {"idle", "walking", "done", "failed"}
  /\ op \in {"ListVolumes", "ListSnapshots"}
  /\ source \in Sources \cup {"any"}
  /\ maxEntries \in MaxEntries
  /\ token \in IDs \cup {NoItem}
  /\ listed \subseteq IDs /\ owed \subseteq IDs
  /\ cut \in BOOLEAN

(* What a list is about.  Only ListSnapshots has a filter.                 *)
Matching(o, s) ==
  {i \in IDs : IF o = "ListVolumes" THEN store[i] \in {"volume", "zoneless"}
               ELSE store[i] \in (IF s = "any" THEN Sources ELSE {s})}

InList == Matching(op, source)

First(S) == IF S = {} THEN NoItem ELSE CHOOSE i \in S : \A j \in S : i <= j

-----------------------------------------------------------------------------
Init ==
  /\ store \in [IDs -> {"none", "volume", "zoneless"} \cup Sources]
  /\ phase = "idle"
  /\ op = "ListVolumes" /\ source = "any" /\ maxEntries \in MaxEntries
  /\ token = NoItem
  /\ listed = {} /\ owed = {}
  /\ cut = FALSE

(* A volume or a snapshot is created, or deleted, by anyone.               *)
Appear(i) ==
  /\ store[i] = "none"
  /\ \E k \in {"volume", "zoneless"} \cup Sources : store' = [store EXCEPT ![i] = k]
  /\ UNCHANGED <<phase, request, token, listed, owed, cut>>

Vanish(i) ==
  /\ store[i] \notin {"none", "gone"}
  /\ store' = [store EXCEPT ![i] = "gone"]
  /\ owed' = owed \ {i}
  /\ UNCHANGED <<phase, request, token, listed, cut>>

(* The caller starts a walk, or starts over.                               *)
Begin(o, s, m) ==
  /\ phase # "walking"
  /\ o = "ListVolumes" => s = "any"
  /\ phase' = "walking"
  /\ op' = o /\ source' = s /\ maxEntries' = m
  /\ token' = NoItem
  /\ listed' = {}
  /\ owed' = Matching(o, s)
  /\ cut' = FALSE
  /\ UNCHANGED store

-----------------------------------------------------------------------------
(* Mutant: a limit of 0 goes into the query.                               *)
LimitAsGiven(m) == IF m > MaxLimit THEN MaxLimit ELSE m

(* The entries of a page: at most maxLimit, the backend's default for 0.   *)
Limit(m) ==
  IF m = 0 THEN DefaultLimit ELSE IF m > MaxLimit THEN MaxLimit ELSE m

PageItems ==
  LET rest == {i \in InList : i >= token}
  IN {i \in rest : Cardinality({j \in rest : j < i}) < Limit(maxEntries)}

(* Mutant: the next page starts at the last item of this one.              *)
NextLinkLast ==
  LET rest == {i \in InList : i >= token} \ PageItems
  IN IF rest = {} \/ PageItems = {} THEN NoItem
     ELSE CHOOSE i \in PageItems : \A j \in PageItems : i >= j

(* Mutant: the next page starts one behind the last item of this one.      *)
NextLinkBehind ==
  IF PageItems = {} THEN NoItem
  ELSE (CHOOSE i \in PageItems : \A j \in PageItems : i >= j) + 1

(* The item after "start=" in the link to the next page.                   *)
NextLink == First({i \in InList : i >= token} \ PageItems)

Fails == phase' = "failed" /\ UNCHANGED <<store, request, token, listed, owed, cut>>

(* A negative limit: InvalidParameters.                                    *)
LimitRefused ==
  /\ phase = "walking" /\ maxEntries < 0
  /\ Fails

TokenLost == token # NoItem /\ token \notin InList

(* Mutant: a token that is no more is taken for the end of the list.       *)
TokenRefusedSilently ==
  /\ phase = "walking" /\ maxEntries >= 0
  /\ TokenLost
  /\ phase' = "done"
  /\ UNCHANGED <<store, request, token, listed, owed, cut>>

(* "start parameter is not valid": StartVolumeIDNotFound or                *)
(* StartSnapshotIDNotFound, and the caller has to start over.              *)
TokenRefused ==
  /\ phase = "walking" /\ maxEntries >= 0
  /\ TokenLost
  /\ Fails

(* No session, or retry gave up: an internal or backend error.             *)
BackendFails ==
  /\ phase = "walking" /\ maxEntries >= 0
  /\ Fails

(* FromProviderToLibVolume makes nil of a volume without a zone, and       *)
(* ListVolumes reads a field of it: the process dies in the call.          *)
Panic ==
  /\ phase = "walking" /\ maxEntries >= 0
  /\ ~TokenLost
  /\ \E i \in PageItems : store[i] = "zoneless"
  /\ Fails

(* A page is answered with the token of the next one.                      *)
Answer(next) ==
  /\ phase = "walking" /\ maxEntries >= 0
  /\ ~TokenLost
  /\ \A i \in PageItems : store[i] # "zoneless"
  /\ listed' = listed \cup PageItems
  /\ token' = next
  /\ phase' = IF next = NoItem THEN "done" ELSE "walking"
  /\ UNCHANGED <<store, request, owed>>

Page == Answer(NextLink) /\ UNCHANGED cut

(* A link without "start=" is logged and becomes an empty token, which     *)
(* says that there are no more pages.                                      *)
PageCut ==
  /\ NextLink # NoItem
  /\ Answer(NoItem)
  /\ cut' = TRUE

Call == LimitRefused \/ TokenRefused \/ Panic \/ Page

Next ==
  \/ \E i \in IDs : Appear(i) \/ Vanish(i)
  \/ \E o \in {"ListVolumes", "ListSnapshots"}, s \in Sources \cup {"any"},
        m \in MaxEntries : Begin(o, s, m)
  \/ Call \/ BackendFails \/ PageCut

(* A caller that is not done asks for its next page.  No error or malformed *)
(* link of the backend is needed to end a walk.                            *)
Spec == Init /\ [][Next]_vars /\ WF_vars(Call)

-----------------------------------------------------------------------------
(* A walk that ends well has shown everything that was in the list from    *)
(* its first page to its last, although items around it came and went and  *)
(* with them the places where pages begin; the exception is a walk that a  *)
(* malformed link cut short (list_volumes.go:85).                          *)
WalkIsComplete == phase = "done" /\ ~cut => owed \subseteq listed

(* A walk shows nothing twice: the token is behind all that was shown,     *)
(* and nothing that was there throughout lies between.                     *)
TokenIsAhead ==
  phase = "walking" /\ token # NoItem =>
    /\ \A i \in listed : i < token
    /\ \A i \in owed : i < token => i \in listed

(* A walk comes to an end, well or not: each page is a step towards the    *)
(* end of the list, whatever number of entries the caller asks for and     *)
(* whatever appears meanwhile.                                             *)
EveryWalkEnds == phase = "walking" ~> phase # "walking"

=============================================================================
