--------------------------- MODULE CapacityProofs ---------------------------
(***************************************************************************)
(* The size arithmetic for every width of the integer type, every size of  *)
(* a GiB and every minimum.                                                *)
(*                                                                         *)
(* Each operator is related once to the plain integers: inside the word    *)
(* Wrap changes nothing, and rounding up gives the g with                  *)
(* b <= g * GiB < b + GiB, which is what makes g the smallest.             *)
(***************************************************************************)
EXTENDS Capacity, TLAPS

IndInv ==
  /\ TypeOK
  /\ CreatedSizeIsSmallest
  /\ ExpandedSizeIsSmallest
  /\ LimitIsNearlyKept

-----------------------------------------------------------------------------
(* The constants of the code.                                              *)
LEMMA Constants ==
  /\ MaxInt \in Nat /\ GiB \in Nat /\ GiB >= 2 /\ MinGiB \in Nat /\ MinGiB >= 2
  /\ MinimumVolumeSizeInBytes \in Nat /\ MinimumVolumeSizeInBytes = MinGiB * GiB
  /\ MinimumVolumeSizeInBytes <= MaxInt /\ MinimumVolumeSizeInBytes >= GiB
  /\ MinGiB <= MinimumVolumeSizeInBytes
  /\ MinimumSDPVolumeSizeInBytes = GiB /\ GiB <= MaxInt
<1>1. GiB \in Nat /\ GiB >= 2 /\ MinGiB \in Nat /\ MinGiB >= 2 /\ 2^(Width - 1) \in Int
  BY CapacityAssumption
<1>2. MinGiB * GiB \in Nat /\ MinGiB * GiB >= GiB /\ MinGiB <= MinGiB * GiB
  BY <1>1
<1>3. MinGiB * GiB <= 2^(Width - 1) - 1
  <2>1. GiB * MinGiB = MinGiB * GiB /\ GiB * MinGiB < 2^(Width - 1)
    BY <1>1, CapacityAssumption
  <2> QED BY <1>1, <1>2, <2>1
<1> QED BY <1>1, <1>2, <1>3 DEF MaxInt, MinimumVolumeSizeInBytes, MinimumSDPVolumeSizeInBytes

(* Wrap always gives a word, and gives a word back unchanged.              *)
LEMMA WrapIs ==
  ASSUME NEW x \in Int
  PROVE  Wrap(x) \in Int64 /\ (x \in Int64 => Wrap(x) = x)
<1> DEFINE m == MaxInt + 1
<1>1. m \in Nat /\ m > 0 /\ MaxInt \in Nat
  BY Constants
<1>2. (x + m) % (2 * m) \in 0..(2 * m - 1)
  BY <1>1
<1>3. x + m >= 0 /\ x + m < 2 * m => (x + m) % (2 * m) = x + m
  BY <1>1
<1>4. Wrap(x) = ((x + m) % (2 * m)) - m
  <2>1. x + MaxInt + 1 = x + m
    BY <1>1
  <2> HIDE DEF m
  <2>2. Wrap(x) = ((x + m) % (2 * m)) - MaxInt - 1
    BY <2>1 DEF Wrap, m
  <2> QED BY <1>1, <1>2, <2>2 DEF m
<1>5. \A y \in Int : y \in Int64 <=> y + m >= 0 /\ y + m < 2 * m
  BY <1>1 DEF Int64
<1> HIDE DEF m
<1> QED BY <1>1, <1>2, <1>3, <1>4, <1>5

(* A quotient of a word is a word.                                         *)
LEMMA QuotientIs ==
  ASSUME NEW x \in Int64, NEW y \in Nat, y >= 2
  PROVE  Quotient(x, y) \in Int64 /\ (x >= 0 => Quotient(x, y) = x \div y)
<1>1. MaxInt \in Nat /\ x \in Int
  BY Constants DEF Int64
<1>2. \A n \in Nat : n \div y \in Nat /\ n \div y <= n
  OBVIOUS
<1>3. CASE x >= 0
  BY <1>1, <1>2, <1>3 DEF Quotient, Int64
<1>4. CASE x < 0
  <2>1. -x \in Nat /\ -x <= MaxInt + 1
    BY <1>1, <1>4 DEF Int64
  <2>2. (-x) \div y \in Nat /\ (-x) \div y <= -x
    BY <1>2, <2>1
  <2>3. Quotient(x, y) = -((-x) \div y)
    BY <1>1, <1>4 DEF Quotient
  <2> QED BY <1>1, <1>4, <2>1, <2>2, <2>3 DEF Int64
<1> QED BY <1>1, <1>3, <1>4

(* Whole GiB convert back to what they were.                               *)
LEMMA WholeGiB ==
  ASSUME NEW g \in Nat, g * GiB <= MaxInt
  PROVE  BytesToGiB(g * GiB) = g /\ g <= MaxInt /\ g * GiB \in Nat
<1>1. GiB \in Nat /\ GiB >= 2 /\ MaxInt \in Nat /\ g * GiB \in Nat
  BY Constants
<1>2. (g * GiB) \div GiB = g /\ g <= g * GiB
  BY <1>1
<1>3. g * GiB \in Int64
  BY <1>1 DEF Int64
<1> DEFINE n == g * GiB
<1>4. n \in Int64 /\ n >= 0
  BY <1>1, <1>3
<1> HIDE DEF n
<1>5. Quotient(n, GiB) = n \div GiB
  BY <1>1, <1>4, QuotientIs
<1> QED BY <1>1, <1>2, <1>5 DEF BytesToGiB, n

(* Rounding up finds the least number of GiB that holds the bytes.         *)
LEMMA RoundUpIs ==
  ASSUME NEW b \in 0..MaxInt, Representable(b)
  PROVE  /\ RoundUpSize(b, GiB) \in Nat
         /\ RoundUpSize(b, GiB) * GiB >= b
         /\ RoundUpSize(b, GiB) * GiB < b + GiB
         /\ RoundUpSize(b, GiB) * GiB <= MaxInt
         /\ RoundUpBytes(b) = RoundUpSize(b, GiB) * GiB
<1>1. GiB \in Nat /\ GiB >= 2 /\ MaxInt \in Nat /\ b \in Nat
  BY Constants
<1> DEFINE x == b + GiB - 1
<1>2. x \in Nat /\ x <= MaxInt /\ x \in Int64
  BY <1>1 DEF Representable, Int64
<1>3. RoundUpSize(b, GiB) = x \div GiB
  <2> HIDE DEF x
  <2>1. Wrap(x) = x
    BY <1>2, WrapIs
  <2>2. Quotient(x, GiB) = x \div GiB
    BY <1>1, <1>2, QuotientIs
  <2> QED BY <2>1, <2>2 DEF RoundUpSize, x
<1>4. /\ x = GiB * (x \div GiB) + (x % GiB)
      /\ x % GiB \in 0..(GiB - 1) /\ x \div GiB \in Nat
  BY <1>1, <1>2
<1> DEFINE g == x \div GiB
<1>5. g \in Nat /\ g * GiB >= b /\ g * GiB < b + GiB /\ g * GiB <= MaxInt
  BY <1>1, <1>2, <1>4
<1>6. Wrap(g * GiB) = g * GiB
  <2>1. g * GiB \in Nat
    BY <1>1, <1>5
  <2>2. g * GiB \in Int64
    BY <1>1, <1>5, <2>1 DEF Int64
  <2> HIDE DEF g
  <2> QED BY <2>1, <2>2, WrapIs
<1> QED BY <1>3, <1>5, <1>6 DEF RoundUpBytes

(* The smallest size is the one with the two defining properties.          *)
LEMMA SmallestIs ==
  ASSUME NEW b \in Nat, NEW least \in Nat, NEW g \in 0..MaxInt,
         g * GiB >= b, g >= least, g = least \/ g * GiB < b + GiB
  PROVE  Smallest(b, least) = g
<1> DEFINE Fits(h) == h * GiB >= b /\ h >= least
           Best(h) == Fits(h) /\ \A k \in 0..MaxInt : Fits(k) => h <= k
<1>1. GiB \in Nat /\ GiB >= 2 /\ MaxInt \in Nat /\ g \in Nat
  BY Constants
<1>2. ASSUME NEW k \in 0..MaxInt, Fits(k), ~(g <= k) PROVE FALSE
  <2>1. k \in Nat /\ k + 1 <= g /\ g # least
    BY <1>1, <1>2
  <2>2. (k + 1) * GiB <= g * GiB /\ (k + 1) * GiB = k * GiB + GiB
    BY <1>1, <2>1
  <2>3. g * GiB < b + GiB /\ k * GiB >= b /\ k * GiB \in Nat /\ g * GiB \in Nat
    BY <1>1, <1>2, <2>1
  <2> QED BY <1>1, <2>2, <2>3
<1>3. Best(g)
  BY <1>2
<1>4. \A h \in 0..MaxInt : Best(h) => h = g
  <2>1. ASSUME NEW h \in 0..MaxInt, Best(h) PROVE h = g
    <3>1. h <= g /\ g <= h
      BY <1>3, <2>1
    <3> QED BY <1>1, <3>1
  <2> QED BY <2>1
<1>5. Smallest(b, least) = CHOOSE h \in 0..MaxInt : Best(h)
  BY DEF Smallest
<1> HIDE DEF Best
<1> QED BY <1>3, <1>4, <1>5

-----------------------------------------------------------------------------
(* The fields of a capacity range, present or not.                         *)
LEMMA RangeTypes ==
  ASSUME NEW r \in Ranges
  PROVE  /\ r.required \in 0..MaxInt /\ r.limit \in 0..MaxInt
         /\ r.present = TRUE \/ (r.present = FALSE /\ r.required = 0 /\ r.limit = 0)
<1>1. 0 \in 0..MaxInt
  BY Constants
<1>2. CASE r = NoRange
  BY <1>1, <1>2 DEF NoRange
<1>3. CASE r \in [present : {TRUE}, required : 0..MaxInt, limit : 0..MaxInt]
  BY <1>3
<1> QED BY <1>2, <1>3 DEF Ranges

(* getRequestedCapacity returns a word, also where the rounding overflows. *)
LEMMA CapacityIsWord ==
  ASSUME NEW r \in Ranges, NEW p \in Profiles
  PROVE  RequestedCapacity(r, p) \in Int64
<1>1. r.required \in Int /\ GiB \in Nat /\ GiB >= 2 /\ MaxInt \in Nat
  <2>1. r.required \in 0..MaxInt
    BY RangeTypes
  <2>2. GiB \in Nat /\ GiB >= 2 /\ MaxInt \in Nat
    BY Constants
  <2> QED BY <2>1, <2>2
<1>2. Wrap(r.required + GiB - 1) \in Int64
  BY <1>1, WrapIs
<1>3. RoundUpSize(r.required, GiB) \in Int64
  BY <1>1, <1>2, QuotientIs DEF RoundUpSize
<1>4. RoundUpSize(r.required, GiB) * GiB \in Int
  BY <1>1, <1>3 DEF Int64
<1>5. RoundUpBytes(r.required) \in Int64
  BY <1>4, WrapIs DEF RoundUpBytes
<1>6. MinimumVolumeSizeInBytes \in Int64 /\ MinimumSDPVolumeSizeInBytes \in Int64
  BY <1>1, Constants DEF Int64
<1> QED BY <1>5, <1>6 DEF RequestedCapacity, DefaultSize

(* A range that is not refused, with a rounding inside the word, becomes   *)
(* the smallest size the profile allows, less than one GiB beyond the      *)
(* limit.  The size is the rounded one, u, where that reaches the floor    *)
(* the code applies; the floor is the profile's minimum, except that the   *)
(* code applies none to an SDP request with a range.  There u >= 1 as soon *)
(* as anything is required.                                                *)
LEMMA CreatedSize ==
  ASSUME NEW r \in Ranges, NEW p \in Profiles, ~RangeRefused(r), Representable(r.required)
  PROVE  LET g == BytesToGiB(RequestedCapacity(r, p)) IN
         /\ (p = "sdp" /\ r.present => r.required > 0) => g = Smallest(r.required, Least(p))
         /\ r.limit > 0 => g * GiB < r.limit + GiB
<1> DEFINE u == RoundUpSize(r.required, GiB)
           least == IF p = "tiered" THEN MinGiB ELSE IF r.present THEN 0 ELSE 1
           g == IF r.present /\ u >= least THEN u ELSE least
<1>1. /\ GiB \in Nat /\ GiB >= 2 /\ MinGiB \in Nat /\ MinGiB >= 2 /\ MaxInt \in Nat
      /\ MinimumVolumeSizeInBytes = MinGiB * GiB /\ MinGiB * GiB \in Nat
      /\ MinGiB * GiB <= MaxInt /\ GiB <= MaxInt
  BY Constants
<1>2. /\ r.required \in 0..MaxInt /\ r.limit \in 0..MaxInt
      /\ r.present = TRUE \/ (r.present = FALSE /\ r.required = 0 /\ r.limit = 0)
  BY RangeTypes
<1>3. /\ u \in Nat /\ u * GiB \in Nat /\ u * GiB >= r.required
      /\ u * GiB < r.required + GiB /\ u * GiB <= MaxInt
      /\ RoundUpBytes(r.required) = u * GiB
  <2>1. /\ u \in Nat /\ u * GiB >= r.required /\ u * GiB < r.required + GiB
        /\ u * GiB <= MaxInt /\ RoundUpBytes(r.required) = u * GiB
    BY <1>2, RoundUpIs
  <2> QED BY <1>1, <2>1
<1> HIDE DEF u
<1>4. u * GiB < MinGiB * GiB <=> u < MinGiB
  BY <1>1, <1>3
<1>5. RequestedCapacity(r, p) = g * GiB
  <2>1. CASE r.present = FALSE
    BY <1>1, <2>1 DEF RequestedCapacity, DefaultSize, MinimumSDPVolumeSizeInBytes, Profiles
  <2>2. CASE r.present = TRUE /\ p = "tiered"
    <3>1. g = IF u >= MinGiB THEN u ELSE MinGiB
      BY <2>2
    <3> QED BY <1>1, <1>3, <1>4, <2>2, <3>1 DEF RequestedCapacity
  <2>3. CASE r.present = TRUE /\ p = "sdp"
    <3>1. g = u
      BY <1>3, <2>3
    <3> QED BY <1>3, <2>3, <3>1 DEF RequestedCapacity
  <2> QED BY <1>2, <2>1, <2>2, <2>3 DEF Profiles
<1>6. g \in Nat /\ g >= least /\ least \in Nat /\ (g = least \/ g = u)
  BY <1>1, <1>3
<1>7. g * GiB <= MaxInt /\ g * GiB >= r.required
  <2>1. CASE g = u
    BY <1>3, <2>1
  <2>2. CASE g = least /\ r.present = TRUE
    <3>1. u <= least
      BY <1>1, <1>3, <2>2
    <3>2. u * GiB <= least * GiB
      BY <1>1, <1>3, <1>6, <3>1
    <3>3. least * GiB <= MaxInt
      BY <1>1, <2>2
    <3> QED BY <1>1, <1>2, <1>3, <1>6, <2>2, <3>2, <3>3
  <2>3. CASE g = least /\ r.present = FALSE
    BY <1>1, <1>2, <2>3
  <2> QED BY <1>2, <1>6, <2>1, <2>2, <2>3
<1>8. BytesToGiB(RequestedCapacity(r, p)) = g /\ g <= MaxInt
  <2> HIDE DEF g
  <2> QED BY <1>5, <1>6, <1>7, WholeGiB
<1>9. ASSUME p = "sdp" /\ r.present => r.required > 0
      PROVE  Smallest(r.required, Least(p)) = g
  <2>1. Least(p) \in Nat /\ (g = Least(p) \/ g = u) /\ g >= Least(p)
    <3>1. CASE p = "tiered" \/ r.present = FALSE
      <4>1. least = Least(p)
        BY <3>1 DEF Least, Profiles
      <4> QED BY <1>6, <4>1
    <3>2. CASE p = "sdp" /\ r.present = TRUE
      <4>1. g = u /\ Least(p) = 1
        BY <1>3, <3>2 DEF Least
      <4>2. r.required \in Nat /\ r.required > 0
        BY <1>2, <1>9, <3>2
      <4>3. u # 0
        BY <1>1, <1>3, <4>2
      <4> QED BY <1>3, <4>1, <4>3
    <3> QED BY <1>2, <3>1, <3>2 DEF Profiles
  <2>2. g = Least(p) \/ g * GiB < r.required + GiB
    BY <1>3, <2>1
  <2>3. g \in 0..MaxInt /\ r.required \in Nat
    BY <1>1, <1>2, <1>6, <1>8
  <2> HIDE DEF g
  <2> QED BY <1>7, <2>1, <2>2, <2>3, SmallestIs
<1>10. ASSUME r.limit > 0 PROVE g * GiB < r.limit + GiB
  <2>1. r.present = TRUE /\ r.limit >= MinGiB * GiB /\ (r.required > 0 => r.limit >= r.required)
    BY <1>1, <1>2, <1>10 DEF RangeRefused
  <2>2. CASE g = u
    BY <1>1, <1>2, <1>3, <2>1, <2>2
  <2>3. CASE g = least
    <3>1. least * GiB <= MinGiB * GiB
      BY <1>1, <2>1
    <3> QED BY <1>1, <1>2, <1>6, <2>1, <2>3, <3>1
  <2> QED BY <1>6, <2>2, <2>3
<1> QED BY <1>8, <1>9, <1>10

(* An expansion asks for a word of GiB, the smallest one if nothing        *)
(* overflows.                                                              *)
LEMMA ExpandedSize ==
  ASSUME NEW b \in 1..MaxInt
  PROVE  /\ RoundUpSize(b, GiB) \in Int64
         /\ Representable(b) => RoundUpSize(b, GiB) = Smallest(b, 0)
<1>1. b \in Nat /\ b \in 0..MaxInt /\ GiB \in Nat /\ GiB >= 2 /\ MaxInt \in Nat
  BY Constants
<1>2. Wrap(b + GiB - 1) \in Int64
  BY <1>1, WrapIs
<1>3. RoundUpSize(b, GiB) \in Int64
  BY <1>1, <1>2, QuotientIs DEF RoundUpSize
<1>4. ASSUME Representable(b) PROVE RoundUpSize(b, GiB) = Smallest(b, 0)
  <2> DEFINE u == RoundUpSize(b, GiB)
  <2>1. u \in Nat /\ u * GiB >= b /\ u * GiB < b + GiB /\ u <= MaxInt
    BY <1>1, <1>4, RoundUpIs, WholeGiB
  <2> HIDE DEF u
  <2>2. Smallest(b, 0) = u
    BY <1>1, <2>1, SmallestIs
  <2> QED BY <2>2 DEF u
<1> QED BY <1>3, <1>4

-----------------------------------------------------------------------------
(* Every state reached has sizes that are words, and the smallest ones.    *)
THEOREM Invariance == Spec => []IndInv
<1> USE DEF IndInv, CreatedSizeIsSmallest, ExpandedSizeIsSmallest, LimitIsNearlyKept
<1>1. Init => IndInv
  BY Constants DEF Init, TypeOK, Int64
<1>2. IndInv /\ [Next]_vars => IndInv'
  <2> SUFFICES ASSUME IndInv, [Next]_vars PROVE IndInv'
    OBVIOUS
  <2>1. CASE Refuse
    BY <2>1 DEF Refuse, TypeOK
  <2>2. CASE Create
    <3>1. bytes' \in Int64 /\ size' \in Int64
      <4>1. bytes' \in Int64
        BY <2>2, CapacityIsWord DEF Create, TypeOK
      <4> QED BY <2>2, <4>1, Constants, QuotientIs DEF Create, BytesToGiB
    <3>2. TypeOK'
      BY <2>2, <3>1 DEF Create, TypeOK
    <3>3. size' = BytesToGiB(RequestedCapacity(range, profile)) /\ range' = range
          /\ profile' = profile /\ phase' = "created" /\ ~RangeRefused(range)
          /\ range \in Ranges /\ profile \in Profiles
      BY <2>2 DEF Create, TypeOK
    <3>4. CreatedSizeIsSmallest' /\ LimitIsNearlyKept'
      BY <3>3, CreatedSize DEF Representable
    <3> QED BY <3>2, <3>3, <3>4
  <2>3. ASSUME NEW b \in 1..MaxInt, Expand(b) PROVE IndInv'
    <3>1. size' \in Int64 /\ asked' \in 0..MaxInt
      BY <2>3, ExpandedSize, Constants DEF Expand, TypeOK
    <3>2. CASE size >= b /\ phase' = "kept" /\ size' = size
      <4>1. size \in Nat /\ size * GiB >= size /\ size * GiB \in Nat /\ b \in Nat
        BY <3>2, Constants DEF TypeOK, Int64
      <4>2. size' * GiB >= asked'
        BY <2>3, <3>2, <4>1 DEF Expand
      <4> QED BY <2>3, <3>1, <3>2, <4>2 DEF Expand, TypeOK
    <3>3. CASE phase' = "expanded" /\ size' = RoundUpSize(b, GiB)
      BY <2>3, <3>1, <3>3, ExpandedSize DEF Expand, TypeOK, Representable
    <3> QED BY <2>3, <3>2, <3>3 DEF Expand
  <2>4. CASE UNCHANGED vars
    BY <2>4 DEF vars, TypeOK, Representable, Smallest
  <2> QED BY <2>1, <2>2, <2>3, <2>4 DEF Next
<1> QED BY <1>1, <1>2, PTL DEF Spec

(* No computed size leaves the word, also where the code's sums overflow.  *)
THEOREM TypeCorrect == Spec => []TypeOK
<1>1. IndInv => TypeOK
  BY DEF IndInv
<1> QED BY <1>1, Invariance, PTL

(* CreateVolume asks for the smallest size that holds the required bytes   *)
(* and the profile's minimum, whenever the rounding does not overflow and, *)
(* for SDP, a range that is given requires something.                      *)
THEOREM CreateIsSmallest == Spec => []CreatedSizeIsSmallest
<1>1. IndInv => CreatedSizeIsSmallest
  BY DEF IndInv
<1> QED BY <1>1, Invariance, PTL

(* ControllerExpandVolume asks for the smallest size that holds the        *)
(* required bytes, whenever the rounding does not overflow, and keeps only *)
(* a volume that already holds them.                                       *)
THEOREM ExpandIsSmallest == Spec => []ExpandedSizeIsSmallest
<1>1. IndInv => ExpandedSizeIsSmallest
  BY DEF IndInv
<1> QED BY <1>1, Invariance, PTL

(* The created size passes a given limit by less than one GiB.             *)
THEOREM LimitIsKept == Spec => []LimitIsNearlyKept
<1>1. IndInv => LimitIsNearlyKept
  BY DEF IndInv
<1> QED BY <1>1, Invariance, PTL
=============================================================================
