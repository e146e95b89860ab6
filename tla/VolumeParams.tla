---------------------------- MODULE VolumeParams ----------------------------
(***************************************************************************)
(* getVolumeParameters and overrideParams: the volume that CreateVolume    *)
(* asks for, put together from the parameters of the storage class, the    *)
(* entries of the secret, the driver's configuration and the topology.     *)
(*                                                                         *)
(* Go visits the entries of a map in any order, so each pass over a map is *)
(* a loop that takes any entry that is left.  Strings are abstracted to    *)
(* the cases the code tells apart: Empty, "bad" (refused: too long, not a  *)
(* Boolean, no such profile) and one good value from each source.          *)
(***************************************************************************)
EXTENDS Naturals

CONSTANTS
  KeySets,       (* the parameters that a request may carry together       *)
  MaxPreferred   (* length of the list of preferred topologies             *)

ASSUME ParamsAssumption ==
  /\ \A K \in KeySets :
       K \subseteq {"profile", "zone", "resourceGroup", "encrypted",
                    "encryptionKey", "iops"}
  /\ MaxPreferred \in Nat

VARIABLES
  class,         (* parameters of the storage class: key to value          *)
  secret,        (* entries of the secret                                  *)
  topology,      (* preferred topologies, drawn when they are looked at    *)
  phase,         (* "class", "secret", "finish", "done" or "refused"       *)
  left,          (* entries the current pass has not visited               *)
  encrypt,       (* the pass's local variable encrypt                      *)
  volume         (* the volume under construction                          *)

vars == <<class, secret, topology, phase, left, encrypt, volume>>

Absent == "absent"
Nil    == "nil"
Empty  == "empty"      (* the empty string *)

(* What a field of the volume, an entry or a zone may be.                  *)
Words == {Absent, Nil, Empty, "bad", "tiered", "custom", "true", "false",
          "class", "secret", "config", "zoneA", "zoneB"}

Values(source, k) ==
  CASE k = "profile"   -> {"tiered", "custom", "bad"}
    [] k = "encrypted" -> {"true", "false", "bad"}
    [] k = "iops"      -> {Empty, source}
    [] OTHER           -> {Empty, source, "bad"}

(* Maps from keys to values; an entry that is Absent is not in the map.    *)
Maps(source, K) ==
  {m \in [K -> {"tiered", "custom", "bad", "true", "false", Empty, source, Absent}] :
     \A k \in K : m[k] \in Values(source, k) \cup {Absent}}

Entries(m) == {k \in DOMAIN m : m[k] # Absent}

(* Lists of topologies: no segments, segments without a zone, or a zone.   *)
Topologies ==
  UNION {[1..n -> {"none", Empty, "zoneA", "zoneB"}] : n \in 0..MaxPreferred}

NewVolume ==
  [profile |-> Nil, zone |-> Empty, resourceGroup |-> Nil, encryptionKey |-> Nil,
   iops |-> Nil]

TypeOK ==
  /\ \E K \in KeySets : class \in Maps("class", K) /\ secret \in Maps("secret", K)
  /\ topology \in Topologies
  /\ phase \in {"class", "secret", "finish", "done", "refused"}
  /\ left \subseteq DOMAIN class
  /\ encrypt \in {"undef", "true", "false"}
  /\ volume \in [DOMAIN NewVolume -> Words]

-----------------------------------------------------------------------------
Init ==
  /\ \E K \in KeySets : class \in Maps("class", K) /\ secret \in Maps("secret", K)
  /\ topology = <<>>
  /\ phase = "class"
  /\ left = Entries(class)
  /\ encrypt = "undef"
  /\ volume = NewVolume

Refuse ==
  /\ phase' = "refused"
  /\ UNCHANGED <<left, encrypt, volume>>

(* Mutant: encryption switched off drops the key on the spot.              *)
AssignAtOnce(k, value) ==
  /\ encrypt' = encrypt
  /\ volume' =
       CASE k = "encrypted" /\ value = "false" -> [volume EXCEPT !.encryptionKey = Nil]
         [] k = "encrypted" /\ value # "false" -> volume
         [] k \in {"encryptionKey", "iops"} /\ value = Empty -> volume
         [] OTHER -> [volume EXCEPT ![k] = value]

(* Mutant: an empty entry does not replace an earlier value.               *)
AssignNonEmpty(k, value) ==
  /\ encrypt' = IF k = "encrypted" THEN value ELSE encrypt
  /\ volume' = IF k = "encrypted" \/ value = Empty
               THEN volume ELSE [volume EXCEPT ![k] = value]

(* Mutant: every value ends up in the local variable.                      *)
AssignLocal(k, value) ==
  /\ encrypt' = value
  /\ volume' = [volume EXCEPT !.profile = value]

(* One entry with a value that is not refused.  An empty key or IOPS       *)
(* leaves the field alone; an empty zone or resource group is assigned.    *)
Assign(k, value) ==
  /\ encrypt' = IF k = "encrypted" THEN value ELSE encrypt
  /\ volume' = IF k = "encrypted" \/ (k \in {"encryptionKey", "iops"} /\ value = Empty)
               THEN volume ELSE [volume EXCEPT ![k] = value]

(* The loop over the storage class's parameters.                           *)
ClassParameter(k) ==
  /\ phase = "class"
  /\ \/ /\ class[k] = "bad"
        /\ Refuse
     \/ /\ class[k] # "bad"
        /\ Assign(k, class[k])
        /\ left' = left \ {k}
        /\ UNCHANGED phase
  /\ UNCHANGED <<class, secret, topology>>

(* After the loop: encrypted=false drops the key, a profile is mandatory.  *)
ClassDone ==
  /\ phase = "class" /\ left = {}
  /\ \/ /\ volume.profile = Nil
        /\ Refuse
     \/ /\ volume.profile # Nil
        /\ phase' = "secret"
        /\ left' = Entries(secret)
        /\ volume' = IF encrypt = "false"
                     THEN [volume EXCEPT !.encryptionKey = Nil] ELSE volume
        /\ encrypt' = "undef"
  /\ UNCHANGED <<class, secret, topology>>

(* Mutant: the error of an entry is logged and forgotten.                  *)
SecretEntryLogged(k) ==
  /\ phase = "secret"
  /\ IF secret[k] = "bad" THEN UNCHANGED <<encrypt, volume>> ELSE Assign(k, secret[k])
  /\ left' = left \ {k}
  /\ UNCHANGED <<class, secret, topology, phase>>

(* overrideParams: a secret has no "profile".                              *)
SecretEntry(k) ==
  /\ phase = "secret"
  /\ \/ /\ secret[k] = "bad" \/ k = "profile"
        /\ Refuse
     \/ /\ secret[k] # "bad" /\ k # "profile"
        /\ Assign(k, secret[k])
        /\ left' = left \ {k}
        /\ UNCHANGED phase
  /\ UNCHANGED <<class, secret, topology>>

(* The configured resource group fills in for none or an empty one.        *)
SecretDone ==
  /\ phase = "secret" /\ left = {}
  /\ phase' = "finish"
  /\ volume' =
       [volume EXCEPT
          !.resourceGroup = IF @ \in {Nil, Empty} THEN "config" ELSE @,
          !.encryptionKey = IF encrypt = "false" THEN Nil ELSE @]
  /\ UNCHANGED <<class, secret, topology, left, encrypt>>

(* pickTargetTopologyParams: the first of the list that has segments.      *)
PickTargetTopology(list) ==
  LET given == {i \in DOMAIN list : list[i] # "none"}
  IN IF given = {} THEN "none" ELSE list[CHOOSE i \in given : \A j \in given : i <= j]

(* IOPS only for the custom and SDP profiles ("custom" stands for both,    *)
(* "tiered" for the others); the zone of the topology when there is        *)
(* none yet.                                                               *)
Finish ==
  /\ phase = "finish"
  /\ topology' \in Topologies
  /\ LET zone == PickTargetTopology(topology')
     IN \/ /\ volume.zone = Empty /\ zone = "none"
           /\ Refuse
        \/ /\ volume.zone # Empty \/ zone # "none"
           /\ phase' = "done"
           /\ volume' =
                [volume EXCEPT
                   !.iops = IF volume.profile = "custom" THEN @ ELSE Nil,
                   !.zone = IF @ = Empty THEN zone ELSE @]
           /\ UNCHANGED <<left, encrypt>>
  /\ UNCHANGED <<class, secret>>

(* An unsupported file system type, or a capacity that is refused.         *)
OtherwiseInvalid ==
  /\ phase \in {"secret", "finish"}
  /\ Refuse
  /\ UNCHANGED <<class, secret, topology>>

Next ==
  \/ \E k \in left : ClassParameter(k) \/ SecretEntry(k)
  \/ ClassDone \/ SecretDone \/ Finish \/ OtherwiseInvalid

Spec == Init /\ [][Next]_vars

-----------------------------------------------------------------------------
(* Reference: what the request means, with no order of entries.            *)

Entry(m, k) == IF k \in DOMAIN m THEN m[k] ELSE Absent

Bad(m) == \E k \in DOMAIN m : m[k] = "bad"

(* The encryption key that a map asks for, given what held before it.      *)
KeyAfter(m, source, before) ==
  IF Entry(m, "encrypted") = "false" THEN Nil
  ELSE IF Entry(m, "encryptionKey") = source THEN source ELSE before

MeantKey == KeyAfter(secret, "secret", KeyAfter(class, "class", Nil))

Last(k) == IF Entry(secret, k) # Absent THEN secret[k] ELSE Entry(class, k)

MeantGroup == IF Last("resourceGroup") \in {Absent, Empty} THEN "config" ELSE Last("resourceGroup")

(* The preference that no other one with segments comes before.            *)
Preferred ==
  {topology[i] : i \in {i \in DOMAIN topology :
     topology[i] # "none" /\ \A j \in 1..(i - 1) : topology[j] = "none"}}

MeantZones == IF Last("zone") \in {Absent, Empty} THEN Preferred ELSE {Last("zone")}

MeantIops ==
  IF Entry(class, "profile") # "custom" THEN Nil
  ELSE IF Entry(secret, "iops") = "secret" THEN "secret"
  ELSE IF Entry(class, "iops") = "class" THEN "class" ELSE Nil

(* The volume depends on what the storage class and the secret say and not *)
(* on the order in which the maps are visited: the secret has the last     *)
(* word on the encryption key, and switching encryption off wins over a    *)
(* key that comes in the same map, before or after.                        *)
KeyIsAsMeant == phase = "done" => volume.encryptionKey = MeantKey

(* So do the resource group, the zone and the IOPS: an entry of the secret *)
(* overrides the storage class even when it is empty, and only then do the *)
(* configuration and the topology fill in.                                 *)
PlacementIsAsMeant ==
  phase = "done" =>
    /\ volume.resourceGroup = MeantGroup
    /\ volume.zone \in MeantZones
    /\ volume.iops = MeantIops

(* A request with an entry that must be refused never yields a volume, in  *)
(* whatever order the entries are visited, nor does one without a profile, *)
(* nor one that names no zone and lists no topology with segments          *)
(* (controller_helper.go:255-264).  A zone label is not demanded of the    *)
(* segments: the volume's zone is empty where the first ones have none,    *)
(* even if a later topology has one (controller_helper.go:508).            *)
NothingInvalidPasses ==
  phase = "done" =>
    /\ ~Bad(class) /\ ~Bad(secret)
    /\ Entry(class, "profile") \in {"tiered", "custom"}
    /\ Entry(secret, "profile") = Absent
    /\ MeantZones # {}
    /\ volume.zone = Empty => Empty \in Preferred

=============================================================================
