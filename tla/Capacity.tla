------------------------------ MODULE Capacity ------------------------------
(***************************************************************************)
(* How the size of a volume is computed: getRequestedCapacity of the CSI   *)
(* controller (CreateVolume) and roundUpSize of the VPC provider           *)
(* (ControllerExpandVolume), in int64 arithmetic.                          *)
(*                                                                         *)
(* The word is Width bits instead of 64 and a GiB is GiB bytes instead of  *)
(* 2^30, so that every request, those at the edge of the word included,    *)
(* can be enumerated.                                                      *)
(***************************************************************************)
EXTENDS Integers

CONSTANTS
  Width,     (* bits of the integer type                                   *)
  GiB,       (* bytes in a GiB                                             *)
  MinGiB     (* smallest tiered or custom volume, in GiB (10)              *)

ASSUME CapacityAssumption ==
  /\ Width \in Nat \ {0, 1}
  /\ GiB \in Nat \ {0, 1}
  /\ MinGiB \in Nat \ {0, 1}
  /\ GiB * MinGiB < 2^(Width - 1)

MaxInt == 2^(Width - 1) - 1
Int64  == (-MaxInt - 1) .. MaxInt

(* Two's complement: what is left of x in the word.                        *)
Wrap(x) == ((x + MaxInt + 1) % (2 * (MaxInt + 1))) - MaxInt - 1

(* Go's integer division truncates towards zero.                           *)
Quotient(x, y) == IF x >= 0 THEN x \div y ELSE -((-x) \div y)

MinimumVolumeSizeInBytes    == MinGiB * GiB
MinimumSDPVolumeSizeInBytes == GiB

(* Mutant: one whole unit is added.                                        *)
RoundUpSizeTooFar(bytes, unit) == Quotient(Wrap(bytes + unit), unit)

RoundUpSize(bytes, unit) == Quotient(Wrap(bytes + unit - 1), unit)

RoundUpBytes(bytes) == Wrap(RoundUpSize(bytes, GiB) * GiB)

BytesToGiB(bytes) == Quotient(bytes, GiB)

-----------------------------------------------------------------------------
(* getRequestedCapacity.  A range is absent, or has two fields of which    *)
(* 0 means "not set".                                                      *)

Profiles == {"tiered", "sdp"}
NoRange  == [present |-> FALSE, required |-> 0, limit |-> 0]
Ranges   == [present : {TRUE}, required : 0..MaxInt, limit : 0..MaxInt] \cup {NoRange}

(* Mutant: the limit is compared with what is required only.               *)
RangeRefusedNoMinimum(r) == r.limit > 0 /\ r.required > 0 /\ r.limit < r.required

RangeRefused(r) ==
  /\ r.limit > 0
  /\ \/ r.required > 0 /\ r.limit < r.required
     \/ r.limit < MinimumVolumeSizeInBytes

DefaultSize(profile) ==
  IF profile = "sdp" THEN MinimumSDPVolumeSizeInBytes ELSE MinimumVolumeSizeInBytes

(* Mutant: the minimum replaces only an absent size.                       *)
RequestedCapacityNoMinimum(r, profile) ==
  IF ~r.present THEN DefaultSize(profile) ELSE RoundUpBytes(r.required)

RequestedCapacity(r, profile) ==
  LET rounded == RoundUpBytes(r.required)
  IN IF ~r.present
       THEN DefaultSize(profile)
       ELSE IF rounded < MinimumVolumeSizeInBytes /\ profile # "sdp"
              THEN MinimumVolumeSizeInBytes
              ELSE rounded

-----------------------------------------------------------------------------
(* A request for a new volume, and then requests to expand it.             *)

VARIABLES
  range,     (* the capacity range of the CreateVolume request             *)
  profile,   (* the profile of the storage class                           *)
  phase,     (* "new", "refused", "created", "expanded", "kept"            *)
  bytes,     (* what getRequestedCapacity returned                         *)
  size,      (* the size the backend was last asked for, in GiB            *)
  asked      (* the bytes of the last expansion request                    *)

vars == <<range, profile, phase, bytes, size, asked>>

TypeOK ==
  /\ range \in Ranges
  /\ profile \in Profiles
  /\ phase \in {"new", "refused", "created", "expanded", "kept"}
  /\ bytes \in Int64
  /\ size \in Int64
  /\ asked \in 0..MaxInt

Init ==
  /\ range \in Ranges
  /\ profile \in Profiles
  /\ phase = "new"
  /\ bytes = 0
  /\ size = 0
  /\ asked = 0

Refuse ==
  /\ phase = "new"
  /\ RangeRefused(range)
  /\ phase' = "refused"
  /\ UNCHANGED <<range, profile, bytes, size, asked>>

Create ==
  /\ phase = "new"
  /\ ~RangeRefused(range)
  /\ phase' = "created"
  /\ bytes' = RequestedCapacity(range, profile)
  /\ size' = BytesToGiB(bytes')
  /\ UNCHANGED <<range, profile, asked>>

(* ExpandVolume of the provider, with any number of required bytes.  The   *)
(* early return compares the size, in GiB, with the bytes: a request of    *)
(* that few bytes keeps the volume as it is, any other is rounded up.      *)
Expand(b) ==
  /\ phase = "created"
  /\ asked' = b
  /\ \/ size >= b /\ phase' = "kept" /\ size' = size
     \/ size < b /\ phase' = "expanded" /\ size' = RoundUpSize(b, GiB)
  /\ UNCHANGED <<range, profile, bytes>>

Next == Refuse \/ Create \/ \E b \in 1..MaxInt : Expand(b)

Spec == Init /\ [][Next]_vars

-----------------------------------------------------------------------------
(* Requests whose rounding stays inside the word.                          *)
Representable(b) == b + GiB - 1 <= MaxInt

(* The reference: the fewest whole GiB that hold the required bytes and    *)
(* the profile's minimum.                                                  *)
Smallest(b, least) ==
  CHOOSE g \in 0..MaxInt :
    /\ g * GiB >= b /\ g >= least
    /\ \A h \in 0..MaxInt : h * GiB >= b /\ h >= least => g <= h

(* The smallest volume of a profile, in GiB.                              *)
Least(p) == IF p = "sdp" THEN 1 ELSE MinGiB

(* A CreateVolume request that is not refused asks the backend for the     *)
(* smallest size, in GiB, that holds what is required and that the profile *)
(* allows: rounding, the default and the minimum agree with their plain    *)
(* meaning, and the conversion back to GiB loses nothing                   *)
(* (controller_helper.go:36-78).  Two kinds of request are not spoken of   *)
(* here, because the code fails them (see SDPHasMinimum): those whose      *)
(* rounding overflows and an SDP request with a range that requires        *)
(* nothing.                                                                *)
CreatedSizeIsSmallest ==
  /\ phase = "created"
  /\ Representable(range.required)
  /\ profile = "sdp" /\ range.present => range.required > 0
  => size = Smallest(range.required, Least(profile))

(* What controller_helper.go:72 says: "If profile is SDP profile then no   *)
(* need to check for minimum size as the RoundUpBytes will giving minimum  *)
(* value as 1 GiB".  It fails: a range with a limit only, or an empty one, *)
(* requires 0 bytes, and 0 bytes are rounded up to 0.  It fails too at the *)
(* end of the word, where the sum of roundUpSize wraps (utils.go:71).      *)
SDPHasMinimum ==
  phase = "created" /\ profile = "sdp" => size >= 1

(* The limit is checked before the size is rounded up, yet the size that   *)
(* is created passes the limit by less than one GiB, the default and the   *)
(* minimum size included (controller_helper.go:68).                        *)
LimitIsNearlyKept ==
  phase = "created" /\ range.limit > 0 /\ Representable(range.required) =>
    size * GiB < range.limit + GiB

(* An expansion asks for the fewest whole GiB that hold the required       *)
(* bytes, as long as the rounding does not leave the word, and the early   *)
(* return, which compares GiB with bytes (expand_volume.go:47), never      *)
(* keeps a volume that is too small for the request.                       *)
ExpandedSizeIsSmallest ==
  /\ phase = "expanded" /\ Representable(asked) => size = Smallest(asked, 0)
  /\ phase = "kept" => size * GiB >= asked

=============================================================================
