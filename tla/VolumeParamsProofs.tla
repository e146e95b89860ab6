------------------------- MODULE VolumeParamsProofs -------------------------
(***************************************************************************)
(* The volume that CreateVolume asks for is the one that was meant, for    *)
(* every set of parameters and every list of topologies, in whatever order *)
(* the two maps are visited.                                               *)
(*                                                                         *)
(* The invariant describes a pass by the entries it has seen: each field   *)
(* is what the map says when its entry has been seen, and what held before *)
(* the pass otherwise.  That is the same for every order.                  *)
(***************************************************************************)
EXTENDS VolumeParams, WellFoundedInduction, NaturalsInduction, TLAPS

Keys   == {"profile", "zone", "resourceGroup", "encrypted", "encryptionKey", "iops"}
Fields == {"profile", "zone", "resourceGroup", "encryptionKey", "iops"}

(* Whether an entry with this value leaves the field alone.                *)
Ignored(k, value) == k \in {"encryptionKey", "iops"} /\ value = Empty

(* A field once the entries in seen have been visited.                     *)
Overlay(m, seen, f, before) ==
  IF f \in seen /\ ~Ignored(f, m[f]) THEN m[f] ELSE before

(* What a pass over m knows of the entries in seen.                        *)
Scanned(m, seen, e) ==
  /\ \A k \in seen : m[k] # "bad"
  /\ e = IF "encrypted" \in seen THEN m["encrypted"] ELSE "undef"

(* The fields after the storage class.                                     *)
AfterClass ==
  [f \in Fields |->
     IF f = "encryptionKey" THEN KeyAfter(class, "class", Nil)
     ELSE Overlay(class, Entries(class), f, NewVolume[f])]

ClassIsGood  == ~Bad(class) /\ Entry(class, "profile") \in {"tiered", "custom"}
SecretIsGood == ~Bad(secret) /\ Entry(secret, "profile") = Absent

Reading ==
  phase = "class" =>
    /\ left \subseteq Entries(class)
    /\ Scanned(class, Entries(class) \ left, encrypt)
    /\ \A f \in Fields : volume[f] = Overlay(class, Entries(class) \ left, f, NewVolume[f])

Overriding ==
  phase = "secret" =>
    /\ ClassIsGood
    /\ left \subseteq Entries(secret)
    /\ Scanned(secret, Entries(secret) \ left, encrypt)
    /\ "profile" \notin Entries(secret) \ left
    /\ \A f \in Fields : volume[f] = Overlay(secret, Entries(secret) \ left, f, AfterClass[f])

Overridden ==
  phase = "finish" =>
    /\ ClassIsGood /\ SecretIsGood
    /\ volume.profile = class["profile"]
    /\ volume.encryptionKey = MeantKey
    /\ volume.resourceGroup = MeantGroup
    /\ volume.zone = IF Last("zone") = Absent THEN Empty ELSE Last("zone")
    /\ volume.iops =
         IF Entry(secret, "iops") = "secret" THEN "secret"
         ELSE IF Entry(class, "iops") = "class" THEN "class" ELSE Nil

IndInv ==
  /\ TypeOK
  /\ Reading
  /\ Overriding
  /\ Overridden
  /\ KeyIsAsMeant
  /\ PlacementIsAsMeant
  /\ NothingInvalidPasses

-----------------------------------------------------------------------------
(* The values an entry of each key may have.                               *)
LEMMA EntriesAre ==
  ASSUME NEW K \in KeySets, NEW source, NEW m \in Maps(source, K)
  PROVE  /\ DOMAIN m = K /\ K \subseteq Keys /\ Entries(m) \subseteq K
         /\ \A k \in K : k \in Entries(m) <=> m[k] # Absent
         /\ "profile" \in Entries(m) => m["profile"] \in {"tiered", "custom", "bad"}
         /\ "encrypted" \in Entries(m) => m["encrypted"] \in {"true", "false", "bad"}
         /\ "iops" \in Entries(m) => m["iops"] \in {Empty, source}
         /\ \A k \in {"zone", "resourceGroup", "encryptionKey"} :
              k \in Entries(m) => m[k] \in {Empty, source, "bad"}
<1>1. /\ m \in [K -> {"tiered", "custom", "bad", "true", "false", Empty, source, Absent}]
      /\ \A k \in K : m[k] \in Values(source, k) \cup {Absent}
  BY DEF Maps
<1>2. DOMAIN m = K /\ K \subseteq Keys /\ Entries(m) \subseteq K
  BY <1>1, ParamsAssumption DEF Keys, Entries
<1>3. \A k \in Entries(m) : m[k] # Absent /\ m[k] \in Values(source, k)
  BY <1>1, <1>2 DEF Entries
<1>4. /\ Values(source, "profile") = {"tiered", "custom", "bad"}
      /\ Values(source, "encrypted") = {"true", "false", "bad"}
      /\ Values(source, "iops") = {Empty, source}
      /\ \A k \in {"zone", "resourceGroup", "encryptionKey"} :
           Values(source, k) = {Empty, source, "bad"}
  BY DEF Values
<1>5. \A k \in K : k \in Entries(m) <=> m[k] # Absent
  BY <1>2 DEF Entries
<1>6. "iops" \in Entries(m) => m["iops"] \in {Empty, source}
  BY <1>3, <1>4
<1>7. "profile" \in Entries(m) => m["profile"] \in {"tiered", "custom", "bad"}
  BY <1>3, <1>4
<1>8. "encrypted" \in Entries(m) => m["encrypted"] \in {"true", "false", "bad"}
  BY <1>3, <1>4
<1>9. \A k \in {"zone", "resourceGroup", "encryptionKey"} :
        k \in Entries(m) => m[k] \in {Empty, source, "bad"}
  BY <1>3, <1>4
<1> QED BY <1>2, <1>5, <1>6, <1>7, <1>8, <1>9

(* The fields of a volume before the first pass.                           *)
LEMMA FieldsAre ==
  /\ DOMAIN NewVolume = Fields
  /\ \A f \in Fields : NewVolume[f] \in {Nil, Empty}
  /\ NewVolume["zone"] = Empty
  /\ \A f \in Fields \ {"zone"} : NewVolume[f] = Nil
  BY DEF NewVolume, Fields

(* One more entry is visited: the fields follow, whichever entry it is.    *)
LEMMA AssignOverlays ==
  ASSUME NEW m, NEW before, NEW k \in left, left \subseteq Entries(m), left \subseteq Keys,
         m[k] # "bad",
         volume \in [Fields -> Words],
         Scanned(m, Entries(m) \ left, encrypt),
         \A f \in Fields : volume[f] = Overlay(m, Entries(m) \ left, f, before[f]),
         Assign(k, m[k]),
         left' = left \ {k}
  PROVE  /\ Scanned(m, Entries(m) \ left', encrypt')
         /\ \A f \in Fields : volume'[f] = Overlay(m, Entries(m) \ left', f, before[f])
<1> DEFINE seen == Entries(m) \ left
           seen2 == Entries(m) \ left'
<1>1. seen2 = seen \cup {k} /\ k \notin seen
  OBVIOUS
<1>2. k \in Keys
  OBVIOUS
<1> HIDE DEF seen, seen2
<1>3. Scanned(m, seen2, encrypt')
  BY <1>1 DEF Scanned, Assign, seen
<1>4. ASSUME NEW f \in Fields PROVE volume'[f] = Overlay(m, seen2, f, before[f])
  <2>1. volume[f] = Overlay(m, seen, f, before[f])
    BY DEF seen
  <2>2. CASE f # k
    <3>1. volume'[f] = volume[f]
      BY <2>2 DEF Assign
    <3>2. f \in seen2 <=> f \in seen
      BY <2>2, <1>1
    <3> QED BY <2>1, <3>1, <3>2 DEF Overlay
  <2>3. CASE f = k
    <3>1. k # "encrypted"
      BY <2>3 DEF Fields
    <3>2. volume[f] = before[f] /\ f \in seen2
      BY <2>1, <2>3, <1>1 DEF Overlay
    <3>3. volume'[f] = IF Ignored(k, m[k]) THEN volume[f] ELSE m[k]
      BY <2>3, <3>1 DEF Assign, Ignored
    <3> QED BY <2>3, <3>2, <3>3 DEF Overlay
  <2> QED BY <2>2, <2>3
<1> QED BY <1>3, <1>4 DEF seen2

(* A list with segments has a first element that has them.                 *)
LEMMA LeastIndex ==
  ASSUME NEW S \in SUBSET Nat, S # {}
  PROVE  \E i \in S : \A j \in S : i <= j
<1>1. PICK i \in S : \A j \in S : ~(<<j, i>> \in OpToRel(<, Nat))
  BY WFMin, NatLessThanWellFounded, Zenon
<1>2. \A j \in S : ~(j < i)
  BY <1>1 DEF OpToRel
<1> QED BY <1>2

(* The preference that comes first in a list.                              *)
PreferredOf(list) ==
  {list[i] : i \in {i \in DOMAIN list :
     list[i] # "none" /\ \A j \in 1..(i - 1) : list[j] = "none"}}

(* The topology that is picked is the preferred one, and there is none     *)
(* only when no topology of the list has segments.                         *)
LEMMA PickIsPreferred ==
  ASSUME NEW list \in Topologies
  PROVE  /\ PickTargetTopology(list) = "none" => PreferredOf(list) = {}
         /\ PickTargetTopology(list) # "none" => PickTargetTopology(list) \in PreferredOf(list)
         /\ PickTargetTopology(list) \in {"none"} \cup Words
<1> DEFINE given == {i \in DOMAIN list : list[i] # "none"}
<1>1. PICK n \in 0..MaxPreferred : list \in [1..n -> {"none", Empty, "zoneA", "zoneB"}]
  BY DEF Topologies
<1>2. given \subseteq Nat /\ n \in Nat
  BY <1>1, ParamsAssumption
<1>3. CASE given = {}
  <2>1. PickTargetTopology(list) = "none"
    BY <1>3 DEF PickTargetTopology
  <2>2. PreferredOf(list) = {}
    BY <1>3 DEF PreferredOf
  <2> QED BY <2>1, <2>2
<1>4. CASE given # {}
  <2> DEFINE i == CHOOSE i \in given : \A j \in given : i <= j
  <2>1. i \in given /\ \A j \in given : i <= j
    BY <1>2, <1>4, LeastIndex
  <2>2. PickTargetTopology(list) = list[i]
    BY <1>4 DEF PickTargetTopology
  <2> HIDE DEF i
  <2>3. i \in 1..n /\ list[i] # "none"
    BY <1>1, <2>1
  <2>4. \A j \in 1..(i - 1) : list[j] = "none"
    BY <1>1, <2>1, <2>3
  <2>5. list[i] \in PreferredOf(list)
    BY <2>3, <2>4, <1>1 DEF PreferredOf
  <2>6. list[i] \in Words
    BY <1>1, <2>3 DEF Words
  <2> QED BY <2>2, <2>3, <2>5, <2>6
<1> QED BY <1>3, <1>4

-----------------------------------------------------------------------------
(* What Absent, Bad, Entry and Entries say of a map that has no bad entry. *)
LEMMA GoodMap ==
  ASSUME NEW K \in KeySets, NEW source, NEW m \in Maps(source, K),
         \A k \in Entries(m) : m[k] # "bad"
  PROVE  /\ ~Bad(m)
         /\ \A k : k \in Entries(m) <=> Entry(m, k) # Absent
         /\ \A k \in Entries(m) : Entry(m, k) = m[k]
<1>1. DOMAIN m = K /\ Entries(m) \subseteq K /\ \A k \in K : k \in Entries(m) <=> m[k] # Absent
  BY EntriesAre
<1>2. ~Bad(m)
  BY <1>1 DEF Bad, Absent
<1>3. \A k : k \in Entries(m) <=> Entry(m, k) # Absent
  BY <1>1 DEF Entry
<1>4. \A k \in Entries(m) : Entry(m, k) = m[k]
  BY <1>1 DEF Entry
<1> QED BY <1>2, <1>3, <1>4

(* The end of a pass: the fields that have entries get their values, and   *)
(* an ignored entry of the IOPS is an empty one.                           *)
LEMMA FieldsAreOver ==
  ASSUME NEW K \in KeySets, NEW source \in {"class", "secret"}, NEW m \in Maps(source, K),
         NEW e, Scanned(m, Entries(m), e)
  PROVE  \A b : /\ Overlay(m, Entries(m), "iops", b) =
                     IF Entry(m, "iops") = source THEN source ELSE b
                /\ \A f \in {"profile", "zone", "resourceGroup"} :
                     Overlay(m, Entries(m), f, b) =
                       IF Entry(m, f) = Absent THEN b ELSE Entry(m, f)
<1> TAKE b
<1>1. /\ \A k : k \in Entries(m) <=> Entry(m, k) # Absent
      /\ \A k \in Entries(m) : Entry(m, k) = m[k]
  BY GoodMap DEF Scanned
<1>2. "iops" \in Entries(m) => m["iops"] \in {Empty, source}
  BY EntriesAre
<1>3. source # Empty /\ source # Absent
  BY DEF Empty, Absent
<1>4. Overlay(m, Entries(m), "iops", b) = IF Entry(m, "iops") = source THEN source ELSE b
  BY <1>1, <1>2, <1>3 DEF Overlay, Ignored
<1>5. \A f \in {"profile", "zone", "resourceGroup"} :
        Overlay(m, Entries(m), f, b) = IF Entry(m, f) = Absent THEN b ELSE Entry(m, f)
  BY <1>1 DEF Overlay, Ignored
<1> QED BY <1>4, <1>5

(* The end of a pass: the key is the one that the whole map asks for.      *)
LEMMA KeyIsOver ==
  ASSUME NEW K \in KeySets, NEW source \in {"class", "secret"}, NEW m \in Maps(source, K),
         NEW e, NEW before, Scanned(m, Entries(m), e)
  PROVE  KeyAfter(m, source, before) =
           IF e = "false" THEN Nil ELSE Overlay(m, Entries(m), "encryptionKey", before)
<1>1. \A k \in Entries(m) : m[k] # "bad"
  BY DEF Scanned
<1>2. /\ \A k : k \in Entries(m) <=> Entry(m, k) # Absent
      /\ \A k \in Entries(m) : Entry(m, k) = m[k]
  BY <1>1, GoodMap
<1>3. "encryptionKey" \in Entries(m) => m["encryptionKey"] \in {Empty, source, "bad"}
  BY EntriesAre
<1>4. source # Empty /\ source # Absent
  BY DEF Empty, Absent
<1>5. e = "false" <=> Entry(m, "encrypted") = "false"
  BY <1>2 DEF Scanned, Absent
<1>6. Overlay(m, Entries(m), "encryptionKey", before) =
        IF Entry(m, "encryptionKey") = source THEN source ELSE before
  BY <1>1, <1>2, <1>3, <1>4 DEF Overlay, Ignored
<1> QED BY <1>5, <1>6 DEF KeyAfter

(* The error path of every step.                                           *)
LEMMA RefuseStep ==
  ASSUME IndInv, Refuse, UNCHANGED <<class, secret>>, topology' \in Topologies
  PROVE  IndInv'
<1>1. TypeOK'
  BY DEF IndInv, TypeOK, Refuse
<1>2. phase' = "refused"
  BY DEF Refuse
<1> QED
  BY <1>1, <1>2 DEF IndInv, Reading, Overriding, Overridden, KeyIsAsMeant,
                    PlacementIsAsMeant, NothingInvalidPasses

(* Assigning an entry keeps the types.                                     *)
LEMMA AssignTypes ==
  ASSUME NEW K \in KeySets, NEW source \in {"class", "secret"}, NEW m \in Maps(source, K),
         NEW k \in Entries(m), m[k] # "bad", Assign(k, m[k]),
         volume \in [Fields -> Words], encrypt \in {"undef", "true", "false"}
  PROVE  volume' \in [Fields -> Words] /\ encrypt' \in {"undef", "true", "false"}
<1>1. m[k] \in Words /\ k \in Keys
  <2>1. m \in [K -> {"tiered", "custom", "bad", "true", "false", Empty, source, Absent}]
    BY DEF Maps
  <2>2. k \in K /\ k \in Keys
    BY EntriesAre
  <2> QED BY <2>1, <2>2 DEF Words
<1>2. k # "encrypted" => k \in Fields
  BY <1>1 DEF Keys, Fields
<1>3. k = "encrypted" => m[k] \in {"true", "false"}
  BY EntriesAre
<1> QED BY <1>1, <1>2, <1>3 DEF Assign

(* A parameter of the storage class is visited.                            *)
LEMMA ClassParameterStep ==
  ASSUME IndInv, NEW k \in left, ClassParameter(k)
  PROVE  IndInv'
<1>1. CASE Refuse
  BY <1>1, RefuseStep DEF ClassParameter, IndInv, TypeOK
<1>2. CASE class[k] # "bad" /\ Assign(k, class[k]) /\ left' = left \ {k} /\ UNCHANGED phase
  <2>1. PICK K \in KeySets : class \in Maps("class", K) /\ secret \in Maps("secret", K)
    BY DEF IndInv, TypeOK
  <2>2. DOMAIN class = K /\ K \subseteq Keys /\ Entries(class) \subseteq K
    BY <2>1, EntriesAre
  <2>3. phase = "class" /\ phase' = "class" /\ UNCHANGED <<class, secret, topology>>
    BY <1>2 DEF ClassParameter
  <2>4. /\ left \subseteq Entries(class)
        /\ Scanned(class, Entries(class) \ left, encrypt)
        /\ \A f \in Fields : volume[f] = Overlay(class, Entries(class) \ left, f, NewVolume[f])
    BY <2>3 DEF IndInv, Reading
  <2>5. volume \in [Fields -> Words] /\ encrypt \in {"undef", "true", "false"}
    BY FieldsAre DEF IndInv, TypeOK
  <2>6. /\ Scanned(class, Entries(class) \ left', encrypt')
        /\ \A f \in Fields : volume'[f] = Overlay(class, Entries(class) \ left', f, NewVolume[f])
    BY <1>2, <2>2, <2>4, <2>5, AssignOverlays
  <2>7. volume' \in [Fields -> Words] /\ encrypt' \in {"undef", "true", "false"}
    BY <1>2, <2>1, <2>4, <2>5, AssignTypes
  <2>8. TypeOK'
    <3>1. \E L \in KeySets : class' \in Maps("class", L) /\ secret' \in Maps("secret", L)
      BY <2>1, <2>3
    <3>2. left' \subseteq DOMAIN class'
      BY <1>2, <2>3 DEF IndInv, TypeOK
    <3>3. topology' \in Topologies
      BY <2>3 DEF IndInv, TypeOK
    <3> QED BY <2>3, <2>7, <3>1, <3>2, <3>3, FieldsAre DEF TypeOK
  <2>9. Reading'
    BY <1>2, <2>3, <2>4, <2>6 DEF Reading, Entries
  <2> QED
    BY <2>3, <2>8, <2>9 DEF IndInv, Overriding, Overridden, KeyIsAsMeant,
                            PlacementIsAsMeant, NothingInvalidPasses
<1> QED BY <1>1, <1>2 DEF ClassParameter

(* An entry of the secret is visited.                                      *)
LEMMA SecretEntryStep ==
  ASSUME IndInv, NEW k \in left, SecretEntry(k)
  PROVE  IndInv'
<1>1. CASE Refuse
  BY <1>1, RefuseStep DEF SecretEntry, IndInv, TypeOK
<1>2. CASE /\ secret[k] # "bad" /\ k # "profile"
           /\ Assign(k, secret[k]) /\ left' = left \ {k} /\ UNCHANGED phase
  <2>1. PICK K \in KeySets : class \in Maps("class", K) /\ secret \in Maps("secret", K)
    BY DEF IndInv, TypeOK
  <2>2. DOMAIN secret = K /\ K \subseteq Keys /\ Entries(secret) \subseteq K
    BY <2>1, EntriesAre
  <2>3. phase = "secret" /\ phase' = "secret" /\ UNCHANGED <<class, secret, topology>>
    BY <1>2 DEF SecretEntry
  <2>4. /\ left \subseteq Entries(secret) /\ ClassIsGood
        /\ Scanned(secret, Entries(secret) \ left, encrypt)
        /\ "profile" \notin Entries(secret) \ left
        /\ \A f \in Fields : volume[f] = Overlay(secret, Entries(secret) \ left, f, AfterClass[f])
    BY <2>3 DEF IndInv, Overriding
  <2>5. volume \in [Fields -> Words] /\ encrypt \in {"undef", "true", "false"}
    BY FieldsAre DEF IndInv, TypeOK
  <2>6. /\ Scanned(secret, Entries(secret) \ left', encrypt')
        /\ \A f \in Fields : volume'[f] = Overlay(secret, Entries(secret) \ left', f, AfterClass[f])
    BY <1>2, <2>2, <2>4, <2>5, AssignOverlays
  <2>7. volume' \in [Fields -> Words] /\ encrypt' \in {"undef", "true", "false"}
    BY <1>2, <2>1, <2>4, <2>5, AssignTypes
  <2>8. TypeOK'
    <3>1. \E L \in KeySets : class' \in Maps("class", L) /\ secret' \in Maps("secret", L)
      BY <2>1, <2>3
    <3>2. left' \subseteq DOMAIN class'
      BY <1>2, <2>3 DEF IndInv, TypeOK
    <3>3. topology' \in Topologies
      BY <2>3 DEF IndInv, TypeOK
    <3> QED BY <2>3, <2>7, <3>1, <3>2, <3>3, FieldsAre DEF TypeOK
  <2>9. AfterClass' = AfterClass /\ Entries(secret)' = Entries(secret)
    BY <2>3 DEF AfterClass, Entries, KeyAfter, Entry
  <2>10. ClassIsGood'
    BY <2>3, <2>4 DEF ClassIsGood, Bad, Entry
  <2>11. "profile" \notin Entries(secret) \ left'
    BY <1>2, <2>4
  <2>12. left' \subseteq Entries(secret)
    BY <1>2, <2>4
  <2>13. Overriding'
    BY <2>3, <2>6, <2>9, <2>10, <2>11, <2>12 DEF Overriding
  <2> QED
    BY <2>3, <2>8, <2>13 DEF IndInv, Reading, Overridden, KeyIsAsMeant,
                             PlacementIsAsMeant, NothingInvalidPasses
<1> QED BY <1>1, <1>2 DEF SecretEntry

(* The pass over the storage class ends.                                   *)
LEMMA ClassDoneStep ==
  ASSUME IndInv, ClassDone
  PROVE  IndInv'
<1>1. CASE Refuse
  BY <1>1, RefuseStep DEF ClassDone, IndInv, TypeOK
<1>2. CASE /\ volume.profile # Nil
           /\ phase' = "secret"
           /\ left' = Entries(secret)
           /\ volume' = IF encrypt = "false"
                        THEN [volume EXCEPT !.encryptionKey = Nil] ELSE volume
           /\ encrypt' = "undef"
  <2>1. PICK K \in KeySets : class \in Maps("class", K) /\ secret \in Maps("secret", K)
    BY DEF IndInv, TypeOK
  <2>2. phase = "class" /\ left = {} /\ UNCHANGED <<class, secret, topology>>
    BY DEF ClassDone
  <2>3. /\ Scanned(class, Entries(class), encrypt)
        /\ \A f \in Fields : volume[f] = Overlay(class, Entries(class), f, NewVolume[f])
    <3>1. Entries(class) \ left = Entries(class)
      BY <2>2
    <3> QED BY <2>2, <3>1 DEF IndInv, Reading
  <2>4. volume \in [Fields -> Words]
    BY FieldsAre DEF IndInv, TypeOK
  <2>5. \A f \in Fields : volume'[f] = AfterClass[f]
    <3>1. KeyAfter(class, "class", Nil) =
            IF encrypt = "false" THEN Nil
            ELSE Overlay(class, Entries(class), "encryptionKey", Nil)
      BY <2>1, <2>3, KeyIsOver
    <3>2. "encryptionKey" \in Fields /\ NewVolume["encryptionKey"] = Nil
      BY FieldsAre DEF Fields
    <3>3. volume'["encryptionKey"] = KeyAfter(class, "class", Nil)
      BY <1>2, <2>3, <2>4, <3>1, <3>2
    <3>4. \A f \in Fields \ {"encryptionKey"} : volume'[f] = volume[f]
      BY <1>2, <2>4
    <3> QED BY <2>3, <3>3, <3>4 DEF AfterClass
  <2>6. ClassIsGood
    <3>1. /\ \A k \in Entries(class) : class[k] # "bad"
          /\ ~Bad(class)
          /\ \A k : k \in Entries(class) <=> Entry(class, k) # Absent
          /\ \A k \in Entries(class) : Entry(class, k) = class[k]
      BY <2>1, <2>3, GoodMap DEF Scanned
    <3>2. "profile" \in Fields /\ NewVolume["profile"] = Nil
      BY FieldsAre DEF Fields
    <3>3. "profile" \in Entries(class)
      BY <1>2, <2>3, <3>2 DEF Overlay
    <3>4. class["profile"] \in {"tiered", "custom", "bad"}
      BY <2>1, <3>3, EntriesAre
    <3> QED BY <3>1, <3>3, <3>4 DEF ClassIsGood
  <2>7. TypeOK'
    <3>1. \E L \in KeySets : class' \in Maps("class", L) /\ secret' \in Maps("secret", L)
      BY <2>1, <2>2
    <3>2. left' \subseteq DOMAIN class'
      <4>1. DOMAIN class = K
        BY <2>1, EntriesAre
      <4>2. Entries(secret) \subseteq K
        BY <2>1, EntriesAre
      <4> QED BY <1>2, <2>2, <4>1, <4>2
    <3>3. topology' \in Topologies
      BY <2>2 DEF IndInv, TypeOK
    <3>4. volume' \in [Fields -> Words]
      BY <1>2, <2>4 DEF Words, Fields
    <3> QED BY <1>2, <3>1, <3>2, <3>3, <3>4, FieldsAre DEF TypeOK
  <2>8. AfterClass' = AfterClass /\ Entries(secret)' = Entries(secret)
    BY <2>2 DEF AfterClass, Entries, KeyAfter, Entry
  <2>9. ClassIsGood'
    BY <2>2, <2>6 DEF ClassIsGood, Bad, Entry
  <2>10. Entries(secret) \ left' = {}
    BY <1>2
  <2>11. \A f \in Fields : volume'[f] = Overlay(secret, {}, f, AfterClass[f])
    BY <2>5 DEF Overlay
  <2>12. Scanned(secret, {}, encrypt')
    BY <1>2 DEF Scanned
  <2>13. Overriding'
    BY <1>2, <2>2, <2>8, <2>9, <2>10, <2>11, <2>12 DEF Overriding
  <2> QED
    BY <1>2, <2>7, <2>13 DEF IndInv, Reading, Overridden, KeyIsAsMeant,
                             PlacementIsAsMeant, NothingInvalidPasses
<1> QED BY <1>1, <1>2 DEF ClassDone

(* The pass over the secret ends: the fields are what both maps mean.      *)
LEMMA SecretDoneStep ==
  ASSUME IndInv, SecretDone
  PROVE  IndInv'
<1>1. PICK K \in KeySets : class \in Maps("class", K) /\ secret \in Maps("secret", K)
  BY DEF IndInv, TypeOK
<1>2. /\ phase = "secret" /\ left = {} /\ phase' = "finish"
      /\ UNCHANGED <<class, secret, topology, left, encrypt>>
  BY DEF SecretDone
<1>3. /\ Scanned(secret, Entries(secret), encrypt) /\ ClassIsGood
      /\ "profile" \notin Entries(secret)
      /\ \A f \in Fields : volume[f] = Overlay(secret, Entries(secret), f, AfterClass[f])
  <2>1. Entries(secret) \ left = Entries(secret)
    BY <1>2
  <2> QED BY <1>2, <2>1 DEF IndInv, Overriding
<1>4. volume \in [Fields -> Words]
  BY FieldsAre DEF IndInv, TypeOK
<1>5. /\ volume' \in [Fields -> Words]
      /\ volume'["resourceGroup"] = IF volume["resourceGroup"] \in {Nil, Empty}
                                    THEN "config" ELSE volume["resourceGroup"]
      /\ volume'["encryptionKey"] = IF encrypt = "false" THEN Nil ELSE volume["encryptionKey"]
      /\ \A f \in {"profile", "zone", "iops"} : volume'[f] = volume[f]
  BY <1>4 DEF SecretDone, Words, Fields
<1>6. /\ SecretIsGood
      /\ \A k : k \in Entries(secret) <=> Entry(secret, k) # Absent
      /\ \A k \in Entries(secret) : Entry(secret, k) = secret[k]
  <2>1. /\ ~Bad(secret)
        /\ \A k : k \in Entries(secret) <=> Entry(secret, k) # Absent
        /\ \A k \in Entries(secret) : Entry(secret, k) = secret[k]
    BY <1>1, <1>3, GoodMap DEF Scanned
  <2> QED BY <1>3, <2>1 DEF SecretIsGood
<1>7. /\ \A k \in Entries(class) : class[k] # "bad"
      /\ \A k : k \in Entries(class) <=> Entry(class, k) # Absent
      /\ \A k \in Entries(class) : Entry(class, k) = class[k]
  <2>1. \A k \in Entries(class) : class[k] # "bad"
    BY <1>3 DEF ClassIsGood, Bad, Entries
  <2> QED BY <1>1, <2>1, GoodMap
<1>8. /\ AfterClass["encryptionKey"] = KeyAfter(class, "class", Nil)
      /\ AfterClass["iops"] = IF Entry(class, "iops") = "class" THEN "class" ELSE Nil
      /\ AfterClass["profile"] = IF Entry(class, "profile") = Absent
                                 THEN Nil ELSE Entry(class, "profile")
      /\ AfterClass["zone"] = IF Entry(class, "zone") = Absent THEN Empty ELSE Entry(class, "zone")
      /\ AfterClass["resourceGroup"] = IF Entry(class, "resourceGroup") = Absent
                                       THEN Nil ELSE Entry(class, "resourceGroup")
  <2> DEFINE e == IF "encrypted" \in Entries(class) THEN class["encrypted"] ELSE "undef"
  <2>1. Scanned(class, Entries(class), e)
    BY <1>7 DEF Scanned
  <2> HIDE DEF e
  <2>2. \A b : /\ Overlay(class, Entries(class), "iops", b) =
                    IF Entry(class, "iops") = "class" THEN "class" ELSE b
               /\ \A f \in {"profile", "zone", "resourceGroup"} :
                    Overlay(class, Entries(class), f, b) =
                      IF Entry(class, f) = Absent THEN b ELSE Entry(class, f)
    BY <1>1, <2>1, FieldsAreOver
  <2>3. \A f \in Fields \ {"encryptionKey"} :
          AfterClass[f] = Overlay(class, Entries(class), f, NewVolume[f])
    BY DEF AfterClass
  <2>4. AfterClass["encryptionKey"] = KeyAfter(class, "class", Nil)
    BY DEF AfterClass, Fields
  <2> QED BY <2>2, <2>3, <2>4, FieldsAre DEF Fields
<1>9. volume'["encryptionKey"] = MeantKey
  <2>1. KeyAfter(secret, "secret", AfterClass["encryptionKey"]) =
          IF encrypt = "false" THEN Nil
          ELSE Overlay(secret, Entries(secret), "encryptionKey", AfterClass["encryptionKey"])
    BY <1>1, <1>3, KeyIsOver
  <2> QED BY <1>3, <1>5, <1>8, <2>1 DEF MeantKey, Fields
<1>10. /\ volume["iops"] = IF Entry(secret, "iops") = "secret" THEN "secret" ELSE AfterClass["iops"]
       /\ \A f \in {"profile", "zone", "resourceGroup"} :
            volume[f] = IF Entry(secret, f) = Absent THEN AfterClass[f] ELSE Entry(secret, f)
  <2>1. \A b : /\ Overlay(secret, Entries(secret), "iops", b) =
                    IF Entry(secret, "iops") = "secret" THEN "secret" ELSE b
               /\ \A f \in {"profile", "zone", "resourceGroup"} :
                    Overlay(secret, Entries(secret), f, b) =
                      IF Entry(secret, f) = Absent THEN b ELSE Entry(secret, f)
    BY <1>1, <1>3, FieldsAreOver
  <2> QED BY <1>3, <2>1 DEF Fields
<1>11. \A k : Last(k) = IF Entry(secret, k) # Absent THEN Entry(secret, k) ELSE Entry(class, k)
  BY <1>6 DEF Last
<1>12. volume'["profile"] = class["profile"]
  BY <1>3, <1>5, <1>6, <1>7, <1>8, <1>10 DEF ClassIsGood, SecretIsGood, Absent
<1>13. volume'["zone"] = IF Last("zone") = Absent THEN Empty ELSE Last("zone")
  BY <1>5, <1>8, <1>10, <1>11
<1>14. volume'["resourceGroup"] = MeantGroup
  <2>1. Entry(secret, "resourceGroup") # Nil /\ Entry(class, "resourceGroup") # Nil
    <3>1. /\ "resourceGroup" \in Entries(secret) =>
               secret["resourceGroup"] \in {Empty, "secret", "bad"}
          /\ "resourceGroup" \in Entries(class) =>
               class["resourceGroup"] \in {Empty, "class", "bad"}
      BY <1>1, EntriesAre
    <3> QED BY <1>6, <1>7, <3>1 DEF Nil, Absent, Empty
  <2> QED BY <1>5, <1>8, <1>10, <1>11, <2>1 DEF MeantGroup, Nil, Absent, Empty
<1>15. TypeOK'
  <2>1. \E L \in KeySets : class' \in Maps("class", L) /\ secret' \in Maps("secret", L)
    BY <1>1, <1>2
  <2>2. left' \subseteq DOMAIN class' /\ topology' \in Topologies
    BY <1>2 DEF IndInv, TypeOK
  <2>3. encrypt' \in {"undef", "true", "false"}
    BY <1>2 DEF IndInv, TypeOK
  <2> QED BY <1>2, <1>5, <2>1, <2>2, <2>3, FieldsAre DEF TypeOK
<1>16. /\ (ClassIsGood /\ SecretIsGood)'
       /\ MeantKey' = MeantKey /\ MeantGroup' = MeantGroup
       /\ Last("zone")' = Last("zone")
       /\ Entry(secret, "iops")' = Entry(secret, "iops")
       /\ Entry(class, "iops")' = Entry(class, "iops")
  BY <1>2, <1>3, <1>6
    DEF ClassIsGood, SecretIsGood, Bad, MeantKey, MeantGroup, KeyAfter, Last, Entry
<1>17. Overridden'
  BY <1>2, <1>5, <1>8, <1>9, <1>10, <1>12, <1>13, <1>14, <1>16 DEF Overridden
<1> QED
  BY <1>2, <1>15, <1>17 DEF IndInv, Reading, Overriding, KeyIsAsMeant,
                            PlacementIsAsMeant, NothingInvalidPasses

(* The volume is finished: the topology fills in, and IOPS that the        *)
(* profile does not take are dropped.                                      *)
LEMMA FinishStep ==
  ASSUME IndInv, Finish
  PROVE  IndInv'
<1> DEFINE zone == PickTargetTopology(topology')
<1>1. phase = "finish" /\ topology' \in Topologies /\ UNCHANGED <<class, secret>>
  BY DEF Finish
<1>2. CASE Refuse
  BY <1>1, <1>2, RefuseStep
<1>3. CASE /\ volume.zone # Empty \/ zone # "none"
           /\ phase' = "done"
           /\ volume' = [volume EXCEPT
                           !.iops = IF volume.profile = "custom" THEN @ ELSE Nil,
                           !.zone = IF @ = Empty THEN zone ELSE @]
           /\ UNCHANGED <<left, encrypt>>
  <2>1. volume \in [Fields -> Words]
    BY FieldsAre DEF IndInv, TypeOK
  <2>2. /\ ClassIsGood /\ SecretIsGood
        /\ volume.profile = class["profile"]
        /\ volume.encryptionKey = MeantKey
        /\ volume.resourceGroup = MeantGroup
        /\ volume.zone = IF Last("zone") = Absent THEN Empty ELSE Last("zone")
        /\ volume.iops =
             IF Entry(secret, "iops") = "secret" THEN "secret"
             ELSE IF Entry(class, "iops") = "class" THEN "class" ELSE Nil
    BY <1>1 DEF IndInv, Overridden
  <2>3. /\ zone = "none" => Preferred' = {}
        /\ zone # "none" => zone \in Preferred'
        /\ zone \in {"none"} \cup Words
    <3>1. Preferred' = PreferredOf(topology')
      BY DEF Preferred, PreferredOf
    <3> QED BY <1>1, <3>1, PickIsPreferred
  <2> HIDE DEF zone
  <2>4. /\ volume'.encryptionKey = volume.encryptionKey
        /\ volume'.resourceGroup = volume.resourceGroup
        /\ volume'.zone = IF volume.zone = Empty THEN zone ELSE volume.zone
        /\ volume'.iops = IF volume.profile = "custom" THEN volume.iops ELSE Nil
    BY <1>3, <2>1 DEF Fields
  <2>5. volume' \in [Fields -> Words]
    <3>1. (IF volume.zone = Empty THEN zone ELSE volume.zone) \in Words
      BY <1>3, <2>1, <2>3 DEF Fields
    <3>2. (IF volume.profile = "custom" THEN volume.iops ELSE Nil) \in Words
      BY <2>1 DEF Fields, Words
    <3> QED BY <1>3, <2>1, <3>1, <3>2
  <2>6. TypeOK'
    <3>1. \E L \in KeySets : class' \in Maps("class", L) /\ secret' \in Maps("secret", L)
      BY <1>1 DEF IndInv, TypeOK
    <3>2. left' \subseteq DOMAIN class' /\ encrypt' \in {"undef", "true", "false"}
      BY <1>1, <1>3 DEF IndInv, TypeOK
    <3> QED BY <1>1, <1>3, <2>5, <3>1, <3>2, FieldsAre DEF TypeOK
  <2>7. /\ MeantKey' = MeantKey /\ MeantGroup' = MeantGroup
        /\ Last("zone")' = Last("zone")
        /\ MeantIops' = MeantIops
        /\ (ClassIsGood /\ SecretIsGood)'
    BY <1>1, <2>2 DEF MeantKey, MeantGroup, MeantIops, KeyAfter, Last, Entry,
                      ClassIsGood, SecretIsGood, Bad
  <2>8. KeyIsAsMeant'
    BY <2>2, <2>4, <2>7 DEF KeyIsAsMeant
  <2>9. class["profile"] = Entry(class, "profile")
    BY <2>2 DEF ClassIsGood, Entry, Absent
  <2>10. volume'.iops = MeantIops
    BY <2>2, <2>4, <2>9 DEF MeantIops
  <2>11. volume'.zone \in MeantZones'
    <3>1. CASE Last("zone") \in {Absent, Empty}
      <4>1. volume.zone = Empty
        BY <2>2, <3>1
      <4>2. volume'.zone \in Preferred'
        BY <1>3, <2>3, <2>4, <4>1
      <4>3. MeantZones' = Preferred'
        BY <2>7, <3>1 DEF MeantZones
      <4> QED BY <4>2, <4>3
    <3>2. CASE Last("zone") \notin {Absent, Empty}
      <4>1. volume'.zone = Last("zone")
        BY <2>2, <2>4, <3>2
      <4>2. MeantZones' = {Last("zone")}
        BY <2>7, <3>2 DEF MeantZones
      <4> QED BY <4>1, <4>2
    <3> QED BY <3>1, <3>2
  <2>12. PlacementIsAsMeant'
    BY <2>2, <2>4, <2>7, <2>10, <2>11 DEF PlacementIsAsMeant
  <2>13. volume'.zone = Empty => Empty \in Preferred'
    BY <1>3, <2>3, <2>4
  <2>14. NothingInvalidPasses'
    BY <2>7, <2>11, <2>13 DEF NothingInvalidPasses, ClassIsGood, SecretIsGood
  <2> QED
    BY <1>3, <2>6, <2>8, <2>12, <2>14 DEF IndInv, Reading, Overriding, Overridden
<1> QED BY <1>1, <1>2, <1>3 DEF Finish

(* Nothing changes.                                                        *)
LEMMA StutterStep ==
  ASSUME IndInv, UNCHANGED vars
  PROVE  IndInv'
<1>1. /\ class' = class /\ secret' = secret /\ topology' = topology /\ phase' = phase
      /\ left' = left /\ encrypt' = encrypt /\ volume' = volume
  BY DEF vars
<1>2. TypeOK'
  BY <1>1 DEF IndInv, TypeOK
<1>3. /\ AfterClass' = AfterClass /\ MeantKey' = MeantKey /\ MeantGroup' = MeantGroup
      /\ MeantIops' = MeantIops
  BY <1>1 DEF AfterClass, MeantKey, MeantGroup, MeantIops, KeyAfter, Last, Entry, Entries
<1>4. /\ Preferred' = Preferred /\ Last("zone")' = Last("zone")
      /\ Entry(secret, "iops")' = Entry(secret, "iops")
      /\ Entry(class, "iops")' = Entry(class, "iops")
      /\ Entry(class, "profile")' = Entry(class, "profile")
      /\ Entry(secret, "profile")' = Entry(secret, "profile")
      /\ Entries(class)' = Entries(class) /\ Entries(secret)' = Entries(secret)
  BY <1>1 DEF Preferred, Last, Entry, Entries
<1>5. MeantZones' = MeantZones
  BY <1>4 DEF MeantZones
<1>6. (Bad(class)' <=> Bad(class)) /\ (Bad(secret)' <=> Bad(secret))
  BY <1>1 DEF Bad
<1>7. Reading'
  BY <1>1, <1>4 DEF IndInv, Reading
<1>8. Overriding'
  BY <1>1, <1>3, <1>4, <1>6 DEF IndInv, Overriding, ClassIsGood
<1>9. Overridden'
  BY <1>1, <1>3, <1>4, <1>6 DEF IndInv, Overridden, ClassIsGood, SecretIsGood
<1>10. KeyIsAsMeant' /\ PlacementIsAsMeant'
  BY <1>1, <1>3, <1>5 DEF IndInv, KeyIsAsMeant, PlacementIsAsMeant
<1>11. NothingInvalidPasses'
  BY <1>1, <1>4, <1>5, <1>6 DEF IndInv, NothingInvalidPasses
<1> QED BY <1>2, <1>7, <1>8, <1>9, <1>10, <1>11 DEF IndInv

-----------------------------------------------------------------------------
(* At every moment of either pass the volume is what the visited entries   *)
(* make of it, so no order of a Go map shows in the result                 *)
(* (getVolumeParameters, overrideParams).                                  *)
THEOREM Invariance == Spec => []IndInv
<1>1. Init => IndInv
  <2> SUFFICES ASSUME Init PROVE IndInv
    OBVIOUS
  <2>1. PICK K \in KeySets : class \in Maps("class", K) /\ secret \in Maps("secret", K)
    BY DEF Init
  <2>2. DOMAIN class = K /\ Entries(class) \subseteq K
    BY <2>1, EntriesAre
  <2>3. topology \in Topologies
    <3>1. 0 \in 0..MaxPreferred
      BY ParamsAssumption
    <3>2. <<>> \in [1..0 -> {"none", Empty, "zoneA", "zoneB"}]
      OBVIOUS
    <3> QED BY <3>1, <3>2 DEF Init, Topologies
  <2>4. volume = NewVolume /\ phase = "class" /\ left = Entries(class) /\ encrypt = "undef"
    BY DEF Init
  <2>5. volume \in [Fields -> Words]
    BY <2>4 DEF NewVolume, Fields, Words
  <2>6. TypeOK
    BY <2>1, <2>2, <2>3, <2>4, <2>5, FieldsAre DEF TypeOK
  <2>7. Entries(class) \ left = {}
    BY <2>4
  <2>8. Reading
    BY <2>4, <2>7 DEF Reading, Scanned, Overlay
  <2> QED
    BY <2>4, <2>6, <2>8 DEF IndInv, Overriding, Overridden, KeyIsAsMeant,
                            PlacementIsAsMeant, NothingInvalidPasses
<1>2. IndInv /\ [Next]_vars => IndInv'
  <2> SUFFICES ASSUME IndInv, [Next]_vars PROVE IndInv'
    OBVIOUS
  <2>1. ASSUME NEW k \in left, ClassParameter(k) PROVE IndInv'
    BY <2>1, ClassParameterStep
  <2>2. ASSUME NEW k \in left, SecretEntry(k) PROVE IndInv'
    BY <2>2, SecretEntryStep
  <2>3. CASE ClassDone
    BY <2>3, ClassDoneStep
  <2>4. CASE SecretDone
    BY <2>4, SecretDoneStep
  <2>5. CASE Finish
    BY <2>5, FinishStep
  <2>6. CASE OtherwiseInvalid
    BY <2>6, RefuseStep DEF OtherwiseInvalid, IndInv, TypeOK
  <2>7. CASE UNCHANGED vars
    BY <2>7, StutterStep
  <2> QED BY <2>1, <2>2, <2>3, <2>4, <2>5, <2>6, <2>7 DEF Next
<1> QED BY <1>1, <1>2, PTL DEF Spec

(* The state of getVolumeParameters has its type at every step.            *)
THEOREM TypeCorrect == Spec => []TypeOK
<1>1. IndInv => TypeOK
  BY DEF IndInv
<1> QED BY <1>1, Invariance, PTL

(* The encryption key is the one that was meant, in every order of the     *)
(* entries of the storage class and of the secret (overrideParams).        *)
THEOREM KeyIsSafe == Spec => []KeyIsAsMeant
<1>1. IndInv => KeyIsAsMeant
  BY DEF IndInv
<1> QED BY <1>1, Invariance, PTL

(* Resource group, zone and IOPS are the ones that were meant, for every   *)
(* list of preferred topologies (pickTargetTopologyParams).                *)
THEOREM PlacementIsSafe == Spec => []PlacementIsAsMeant
<1>1. IndInv => PlacementIsAsMeant
  BY DEF IndInv
<1> QED BY <1>1, Invariance, PTL

(* No entry that must be refused is skipped by the order of the visits,    *)
(* and a volume with no zone comes only from segments without a zone label *)
(* (getVolumeParameters, overrideParams).                                  *)
THEOREM InvalidIsRefused == Spec => []NothingInvalidPasses
<1>1. IndInv => NothingInvalidPasses
  BY DEF IndInv
<1> QED BY <1>1, Invariance, PTL

=============================================================================
