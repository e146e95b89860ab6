---------------------------- MODULE ListingProofs ----------------------------
(***************************************************************************)
(* Walks through the pages are complete for lists and pages of any length, *)
(* whatever appears and vanishes between two pages.                        *)
(*                                                                         *)
(* The invariant follows the token: in front of it everything that was     *)
(* there throughout has been shown, behind it nothing has been.  A page is *)
(* an initial part of what is left, so its link keeps the invariant.       *)
(***************************************************************************)
EXTENDS Listing, FiniteSetTheorems, TLAPS

(* What the caller has still to see, at and behind the token.              *)
Rest == {i \in InList : i >= token}

IndInv ==
  /\ TypeOK
  /\ phase = "walking" => owed \subseteq InList
  /\ phase = "walking" /\ token = NoItem => listed = {}
  /\ TokenIsAhead
  /\ WalkIsComplete

-----------------------------------------------------------------------------
(* A set of items that is not empty has a first one.                       *)
LEMMA LeastItem ==
  ASSUME NEW S \in SUBSET IDs, S # {}
  PROVE  \E i \in S : \A j \in S : i <= j
<1>1. S \subseteq Nat
  BY ListingAssumption DEF IDs
<1>2. PICK i \in S : \A j \in S : ~(<<j, i>> \in OpToRel(<, Nat))
  BY <1>1, WFMin, NatLessThanWellFounded
<1>3. \A j \in S : ~(j < i)
  BY <1>1, <1>2 DEF OpToRel
<1> QED BY <1>1, <1>3

(* The first item of a set is its least one, and there is none only when   *)
(* the set is empty.                                                       *)
LEMMA FirstIs ==
  ASSUME NEW S \in SUBSET IDs
  PROVE  /\ First(S) = NoItem <=> S = {}
         /\ S # {} => First(S) \in S /\ \A j \in S : First(S) <= j
<1>1. CASE S = {}
  BY <1>1 DEF First
<1>2. CASE S # {}
  <2>1. First(S) \in S /\ \A j \in S : First(S) <= j
    BY <1>2, LeastItem DEF First
  <2>2. First(S) # NoItem
    BY <2>1 DEF IDs, NoItem
  <2> QED BY <1>2, <2>1, <2>2
<1> QED BY <1>1, <1>2

(* A page is an initial part of what is left, whatever the limit is.       *)
LEMMA PageIsInitial ==
  ASSUME TypeOK
  PROVE  /\ PageItems \subseteq Rest /\ Rest \subseteq IDs
         /\ \A i \in PageItems : \A j \in Rest \ PageItems : i < j
<1>1. PageItems = {i \in Rest : Cardinality({j \in Rest : j < i}) < Limit(maxEntries)}
  BY DEF PageItems, Rest
<1>2. Rest \subseteq IDs /\ IDs \subseteq Nat /\ IsFiniteSet(IDs)
  BY ListingAssumption, FS_Interval DEF Rest, InList, Matching, IDs
<1>3. Limit(maxEntries) \in Int
  BY ListingAssumption DEF TypeOK, MaxEntries, Limit
<1>4. ASSUME NEW i \in PageItems, NEW j \in Rest \ PageItems, ~(i < j) PROVE FALSE
  <2> DEFINE I == {k \in Rest : k < i}
             J == {k \in Rest : k < j}
  <2>1. i \in Nat /\ j \in Nat /\ j <= i
    BY <1>1, <1>2, <1>4
  <2>2. J \subseteq I /\ I \subseteq IDs
    <3>1. ASSUME NEW k \in J PROVE k \in I
      BY <1>2, <2>1
    <3> QED BY <1>2, <3>1
  <2>3. IsFiniteSet(I)
    BY <1>2, <2>2, FS_Subset
  <2>4. IsFiniteSet(J) /\ Cardinality(J) <= Cardinality(I)
    BY <2>2, <2>3, FS_Subset
  <2>5. Cardinality(I) \in Nat /\ Cardinality(J) \in Nat
    BY <2>3, <2>4, FS_CardinalityType
  <2>6. Cardinality(I) < Limit(maxEntries)
    BY <1>1, <1>4
  <2>7. Cardinality(J) < Limit(maxEntries)
    <3> HIDE DEF I, J
    <3> QED BY <1>3, <2>4, <2>5, <2>6
  <2> QED BY <1>1, <1>4, <2>7
<1> QED BY <1>1, <1>2, <1>4

(* What the link of a page says.                                           *)
LEMMA NextLinkIs ==
  ASSUME TypeOK
  PROVE  /\ NextLink \in IDs \cup {NoItem}
         /\ NextLink = NoItem => Rest \subseteq PageItems
         /\ NextLink # NoItem =>
              /\ NextLink \in Rest
              /\ \A i \in PageItems : i < NextLink
              /\ \A i \in Rest : i < NextLink => i \in PageItems
<1>1. NextLink = First(Rest \ PageItems)
  BY DEF NextLink, Rest
<1>2. Rest \ PageItems \in SUBSET IDs /\ IDs \subseteq Nat
  BY PageIsInitial, ListingAssumption DEF IDs
<1>3. CASE Rest \ PageItems = {}
  BY <1>1, <1>2, <1>3, FirstIs
<1>4. CASE Rest \ PageItems # {}
  <2>1. NextLink \in Rest \ PageItems /\ \A j \in Rest \ PageItems : NextLink <= j
    BY <1>1, <1>2, <1>4, FirstIs
  <2>2. NextLink # NoItem
    BY <1>1, <1>2, <1>4, FirstIs
  <2>3. \A i \in PageItems : i < NextLink
    BY <2>1, PageIsInitial
  <2>4. \A i \in Rest : i < NextLink => i \in PageItems
    <3>1. ASSUME NEW i \in Rest, i < NextLink, i \notin PageItems PROVE FALSE
      <4>1. i \in Nat /\ NextLink \in Nat /\ NextLink <= i
        BY <1>2, <2>1, <3>1
      <4> QED BY <3>1, <4>1
    <3> QED BY <3>1
  <2> QED BY <1>2, <2>1, <2>2, <2>3, <2>4
<1> QED BY <1>3, <1>4

-----------------------------------------------------------------------------
(* Every step keeps the types.                                             *)
LEMMA TypeStep == TypeOK /\ [Next]_vars => TypeOK'
<1> SUFFICES ASSUME TypeOK, [Next]_vars PROVE TypeOK'
  OBVIOUS
<1>1. cut' \in BOOLEAN
  BY Zenon DEF TypeOK, Next, vars, Appear, Vanish, Begin, Call, LimitRefused, TokenRefused, Panic,
         Page, BackendFails, PageCut, Fails
<1> USE DEF TypeOK, request
<1>2. ASSUME NEW i \in IDs, Appear(i) \/ Vanish(i) PROVE TypeOK'
  BY <1>1, <1>2 DEF Appear, Vanish
<1>3. ASSUME NEW o \in {"ListVolumes", "ListSnapshots"}, NEW s \in Sources \cup {"any"},
             NEW m \in MaxEntries, Begin(o, s, m)
      PROVE  TypeOK'
  BY <1>1, <1>3 DEF Begin, Matching
<1>4. CASE Page \/ PageCut
  <2>1. PageItems \subseteq IDs
    BY PageIsInitial
  <2> QED BY <1>1, <1>4, <2>1, NextLinkIs DEF Page, PageCut, Answer
<1>5. CASE LimitRefused \/ TokenRefused \/ Panic \/ BackendFails
  BY <1>1, <1>5 DEF LimitRefused, TokenRefused, Panic, BackendFails, Fails
<1>6. CASE UNCHANGED vars
  BY <1>1, <1>6 DEF vars
<1> QED BY <1>2, <1>3, <1>4, <1>5, <1>6 DEF Next, Call

(* Every step keeps what the token says.                                   *)
LEMMA WalkStep ==
  ASSUME IndInv, TypeOK', [Next]_vars
  PROVE  IndInv'
<1>0. TypeOK /\ IDs \subseteq Nat
  BY ListingAssumption DEF IndInv, IDs
<1> USE <1>0 DEF IndInv, request, TokenIsAhead, WalkIsComplete
<1>1. ASSUME NEW i \in IDs, Appear(i) PROVE IndInv'
  <2>1. InList \subseteq InList'
    <3>1. i \notin InList
      BY <1>1, ListingAssumption DEF Appear, InList, Matching, TypeOK
    <3>2. ASSUME NEW j \in InList PROVE j \in InList'
      BY <1>1, <3>1, <3>2 DEF Appear, InList, Matching, TypeOK
    <3> QED BY <3>2
  <2> QED BY <1>1, <2>1 DEF Appear
<1>2. ASSUME NEW i \in IDs, Vanish(i) PROVE IndInv'
  <2>1. InList \ {i} \subseteq InList'
    BY <1>2 DEF Vanish, InList, Matching, TypeOK
  <2> QED BY <1>2, <2>1 DEF Vanish
<1>3. ASSUME NEW o \in {"ListVolumes", "ListSnapshots"}, NEW s \in Sources \cup {"any"},
             NEW m \in MaxEntries, Begin(o, s, m)
      PROVE  IndInv'
  <2>1. InList' = owed'
    BY <1>3 DEF Begin, InList, Matching
  <2> QED BY <1>3, <2>1 DEF Begin
<1>4. CASE Page \/ PageCut
  <2>1. InList' = InList /\ owed' = owed /\ owed \subseteq InList /\ phase = "walking"
    BY <1>4 DEF Page, PageCut, Answer, InList, Matching
  <2>2. /\ listed' = listed \cup PageItems
        /\ phase' = IF token' = NoItem THEN "done" ELSE "walking"
        /\ token' = NextLink \/ (token' = NoItem /\ cut' = TRUE)
    BY <1>4 DEF Page, PageCut, Answer
  <2>3. \A i \in owed : i \in listed \/ i \in Rest
    BY <2>1 DEF Rest, TypeOK, NoItem
  <2>4. CASE token' = NoItem /\ cut' = TRUE
    BY <2>2, <2>4
  <2>5. CASE token' = NextLink /\ NextLink = NoItem
    BY <2>1, <2>2, <2>3, <2>5, NextLinkIs
  <2>6. CASE token' = NextLink /\ NextLink # NoItem
    <3>1. NextLink \in Rest /\ NextLink \in Nat /\ NextLink >= token
      BY <2>6, NextLinkIs, PageIsInitial DEF Rest
    <3>2. \A i \in listed' : i < token'
      <4>1. \A i \in listed : i < token
        BY <2>1
      <4>2. ASSUME NEW i \in listed PROVE i < NextLink
        BY <3>1, <4>1, <4>2 DEF TypeOK, NoItem
      <4> QED BY <2>2, <2>6, <4>2, NextLinkIs
    <3>3. \A i \in owed' : i < token' => i \in listed'
      BY <2>1, <2>2, <2>3, <2>6, NextLinkIs
    <3> QED BY <2>1, <2>2, <2>6, <3>2, <3>3
  <2> QED BY <2>2, <2>4, <2>5, <2>6
<1>5. CASE LimitRefused \/ TokenRefused \/ Panic \/ BackendFails
  BY <1>5 DEF LimitRefused, TokenRefused, Panic, BackendFails, Fails
<1>6. CASE UNCHANGED vars
  BY <1>6 DEF vars, InList, Matching
<1> QED BY <1>1, <1>2, <1>3, <1>4, <1>5, <1>6 DEF Next, Call

-----------------------------------------------------------------------------
(* The inductive invariant holds in every reachable state.                 *)
THEOREM Invariance == Spec => []IndInv
<1>1. Init => IndInv
  BY DEF Init, IndInv, TypeOK, TokenIsAhead, WalkIsComplete, NoItem
<1>2. IndInv /\ [Next]_vars => IndInv'
  BY TypeStep, WalkStep DEF IndInv
<1> QED BY <1>1, <1>2, PTL DEF Spec

(* The store, the request and the state of the walk have their types.      *)
THEOREM TypeCorrect == Spec => []TypeOK
<1>1. IndInv => TypeOK
  BY DEF IndInv
<1> QED BY <1>1, Invariance, PTL

(* A walk that ends well has shown everything that was in the list from    *)
(* its first page to its last, for pages of any length.                    *)
THEOREM WalksAreComplete == Spec => []WalkIsComplete
<1>1. IndInv => WalkIsComplete
  BY DEF IndInv
<1> QED BY <1>1, Invariance, PTL

(* Nothing is shown twice and nothing is passed over: the token is behind  *)
(* all that was shown and all that had to be.                              *)
THEOREM TokensAreAhead == Spec => []TokenIsAhead
<1>1. IndInv => TokenIsAhead
  BY DEF IndInv
<1> QED BY <1>1, Invariance, PTL
=============================================================================
