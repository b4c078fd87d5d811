----------------------------- MODULE DiskProofs -----------------------------
(***************************************************************************)
(* What the pages, the validator and the installer share about disks.      *)
(*                                                                         *)
(* The sizes that PartitionPlan computes fit the disk, for every unit,     *)
(* word length, set of disks and set of configured sizes; page and         *)
(* installer disagree about the last GiB of the disk only.                 *)
(*                                                                         *)
(* The cache of DiskOptions offers every disk once, and the installation   *)
(* disk is not wiped under another name, for any number of devices in any  *)
(* order. The loop of filterUniqueDisks is proved by the least-number      *)
(* principle: there is no first iteration that breaks its invariant.       *)
(***************************************************************************)
EXTENDS PartitionPlan, DiskOptions, FiniteSetTheorems, WellFoundedInduction, TLAPS

-----------------------------------------------------------------------------
(* Whole units *)

\* Rounding down to a multiple of m (ByteToGi, ByteToMi) loses less than m.
LEMMA DivisionBounds ==
  ASSUME NEW b \in Nat, NEW m \in Nat \ {0}
  PROVE  /\ b \div m \in Nat
         /\ (b \div m) * m <= b
         /\ b < (b \div m) * m + m
BY SMT

\* Multiplication by a unit keeps the order.
LEMMA MultipleMonotone ==
  ASSUME NEW q \in Nat, NEW k \in Nat, NEW m \in Nat, q <= k
  PROVE  q * m <= k * m
<1>1. k * m = q * m + (k - q) * m
  BY SMT
<1>2. (k - q) * m \in Nat
  BY SMT
<1> QED
  BY <1>1, <1>2, SMT

\* Rounding down keeps a bound that is itself a multiple of m.
LEMMA RoundedKeepsMinimum ==
  ASSUME NEW b \in Nat, NEW m \in Nat \ {0}, NEW k \in Nat, k * m <= b
  PROVE  k * m <= (b \div m) * m
<1> DEFINE q == b \div m
<1>1. q \in Nat /\ q * m <= b /\ b < q * m + m
  BY DivisionBounds
<1> HIDE DEF q
<1>2. CASE k <= q
  BY <1>1, <1>2, MultipleMonotone DEF q
<1>3. CASE q + 1 <= k
  <2>1. (q + 1) * m <= k * m
    BY <1>1, <1>3, MultipleMonotone
  <2>2. (q + 1) * m = q * m + m
    BY <1>1, SMT
  <2> QED
    BY <1>1, <2>1, <2>2, SMT
<1> QED
  BY <1>1, <1>2, <1>3, SMT

\* Unsigned values: below Word the arithmetic is the ordinary one.
LEMMA ModWord ==
  /\ \A x \in Nat : x % Word \in Nat /\ x % Word < Word
  /\ \A x \in Nat : x < Word => x % Word = x
BY WordAssumption, MiBAssumption, SMT

-----------------------------------------------------------------------------
(* ParsePartitionSize *)

\* The number typed times its unit, cut to a word (parsePartitionBytes).
LEMMA ParsedBytesType ==
  ASSUME NEW s \in Sizes \cup {NoSize, DefaultSize}
  PROVE  parsePartitionBytes(s) \in Nat /\ parsePartitionBytes(s) < Word
<1>1. s.n \in Nat
  BY SizesAssumption DEF NoSize, DefaultSize
<1>2. GiB \in Nat /\ MiB \in Nat
  BY MiBAssumption DEF GiB
<1>3. s.n * (IF s.unit = "Gi" THEN GiB ELSE MiB) \in Nat
  BY <1>1, <1>2, SMT
<1> QED
  BY <1>3, ModWord DEF parsePartitionBytes

\* Without skipChecks a size that ParsePartitionSize takes has the minimum and leaves
\* room for the fixed partitions: the subtraction does not wrap around on a disk that
\* passed the check before it.
LEMMA ParsedSizeFits ==
  ASSUME NEW d \in Nat, NEW s \in Sizes \cup {NoSize, DefaultSize},
         ParsePartitionSize(d, s, FALSE).ok
  PROVE  /\ ParsePartitionSize(d, s, FALSE).bytes \in Nat
         /\ ParsePartitionSize(d, s, FALSE).bytes >= MinPersistentSize
         /\ ParsePartitionSize(d, s, FALSE).bytes + fixedOccupiedSize <= d
<1> DEFINE b == parsePartitionBytes(s)
<1>1. b \in Nat
  BY ParsedBytesType
<1>2. ParsePartitionSize(d, s, FALSE) \in {Refused, Bytes(b)}
  BY DEF ParsePartitionSize
<1>3. ParsePartitionSize(d, s, FALSE) # Refused
  <2>1. ~Refused.ok
    BY DEF Refused
  <2> QED
    BY <2>1, Zenon
<1>4. ParsePartitionSize(d, s, FALSE) = Bytes(b)
  BY <1>2, <1>3, Zenon
<1>5. d >= MinDiskSize /\ ~TooSmall(b, FALSE) /\ b <= RoomFor(d)
  <2>1. MinDiskSize \in Nat
    BY MiBAssumption DEF MinDiskSize, GiB
  <2>2. ASSUME \/ d < MinDiskSize
               \/ TooSmall(b, FALSE)
               \/ ~(b <= RoomFor(d))
        PROVE  ParsePartitionSize(d, s, FALSE) = Refused
    <3> HIDE DEF b
    <3> QED
      BY <2>2, Zenon DEF ParsePartitionSize, b
  <2>3. ~(d < MinDiskSize)
    BY <2>2, <1>3, Zenon
  <2>4. d >= MinDiskSize
    BY <2>1, <2>3
  <2> QED
    BY <2>2, <2>4, <1>3, Zenon
<1>6. b >= MinPersistentSize
  BY <1>1, <1>5, MiBAssumption DEF TooSmall, MinPersistentSize, GiB
<1>7. b + fixedOccupiedSize <= d
  <2> HIDE DEF b
  <2>1. fixedOccupiedSize \in Nat /\ fixedOccupiedSize <= MinDiskSize
    BY MiBAssumption DEF fixedOccupiedSize, MinDiskSize, GiB
  <2>2. fixedOccupiedSize <= d
    BY <1>5, <2>1, MiBAssumption DEF MinDiskSize, GiB
  <2>3. RoomFor(d) = d - fixedOccupiedSize
    BY <2>2 DEF RoomFor, Minus
  <2> QED
    BY <1>1, <1>5, <2>1, <2>3
<1>8. ParsePartitionSize(d, s, FALSE).bytes = b
  <2>1. Bytes(b).bytes = b
    BY DEF Bytes
  <2> QED
    BY <1>4, <2>1, Zenon
<1> QED
  BY <1>1, <1>6, <1>7, <1>8

\* The disk in whole gibibytes, converted back to bytes, is no larger than the disk.
LEMMA WholeGiBFit ==
  ASSUME NEW d \in DiskSizes
  PROVE  /\ d \in Nat
         /\ ByteToGi(d) \in Nat
         /\ GiToByte(ByteToGi(d)) \in Nat
         /\ GiToByte(ByteToGi(d)) <= d
<1>1. d \in Nat /\ d < Word
  BY DiskAssumption, WordAssumption
<1>2. GiB \in Nat \ {0}
  BY MiBAssumption DEF GiB
<1> DEFINE g == d \div GiB
<1>3. g \in Nat /\ g * GiB <= d
  BY <1>1, <1>2, DivisionBounds
<1>4. g * GiB \in Nat
  BY <1>2, <1>3, SMT
<1>5. (g * GiB) % Word = g * GiB
  <2> HIDE DEF g
  <2>1. g * GiB < Word
    BY <1>1, <1>3, <1>4, WordAssumption
  <2> QED
    BY <1>4, <2>1, ModWord
<1> QED
  BY <1>1, <1>3, <1>4, <1>5 DEF ByteToGi, GiToByte

-----------------------------------------------------------------------------
(* The layout *)

\* Without skipChecks the layout of a disk has a persistent partition of the minimum
\* size that fits the disk beside the fixed partitions, in mebibytes of the disk
\* itself (calcCosPersistentPartSize).
LEMMA LayoutFits ==
  ASSUME NEW d \in DiskSizes, NEW s \in Sizes \cup {NoSize, DefaultSize},
         calcCosPersistentPartSize(ByteToGi(d), s, FALSE).ok
  PROVE  LET p == calcCosPersistentPartSize(ByteToGi(d), s, FALSE).mebibytes
         IN  /\ p \in Nat
             /\ p * MiB >= MinPersistentSize
             /\ p * MiB + fixedOccupiedSize <= d
<1> DEFINE w == GiToByte(ByteToGi(d))
           r == ParsePartitionSize(w, s, FALSE)
           p == calcCosPersistentPartSize(ByteToGi(d), s, FALSE)
<1>1. d \in Nat /\ w \in Nat /\ w <= d
  BY WholeGiBFit
<1>2. p = [ok |-> r.ok, mebibytes |-> ByteToMi(r.bytes)]
  BY DEF calcCosPersistentPartSize
<1> HIDE DEF w, r, p
<1>3. r.ok /\ p.mebibytes = ByteToMi(r.bytes)
  <2>1. p.ok = r.ok /\ p.mebibytes = ByteToMi(r.bytes)
    BY <1>2
  <2>2. p.ok
    BY Zenon DEF p
  <2> QED
    BY <2>1, <2>2, Zenon
<1>4. /\ r.bytes \in Nat
      /\ r.bytes >= MinPersistentSize
      /\ r.bytes + fixedOccupiedSize <= w
  BY <1>1, <1>3, ParsedSizeFits DEF r
<1>5. /\ ByteToMi(r.bytes) \in Nat
      /\ ByteToMi(r.bytes) * MiB <= r.bytes
  BY <1>4, MiBAssumption, DivisionBounds DEF ByteToMi
<1>6. ByteToMi(r.bytes) * MiB >= MinPersistentSize
  <2>1. MinPersistentSize = 153600 * MiB
    BY MiBAssumption DEF MinPersistentSize, GiB
  <2>2. r.bytes \in Nat /\ 153600 * MiB <= r.bytes
    BY <1>4, <2>1, MiBAssumption
  <2> DEFINE k == 153600
  <2>3. k \in Nat /\ MiB \in Nat \ {0} /\ r.bytes \in Nat /\ k * MiB <= r.bytes
    BY <2>2, MiBAssumption
  <2> HIDE DEF k
  <2>4. k * MiB <= (r.bytes \div MiB) * MiB
    BY <2>3, RoundedKeepsMinimum, Zenon
  <2> QED
    BY <1>5, <2>1, <2>4, MiBAssumption DEF ByteToMi, k
<1>7. ByteToMi(r.bytes) * MiB + fixedOccupiedSize <= d
  <2>1. fixedOccupiedSize \in Nat /\ ByteToMi(r.bytes) * MiB \in Nat
    BY <1>5, MiBAssumption DEF fixedOccupiedSize
  <2> QED
    BY <1>1, <1>4, <1>5, <2>1
<1> QED
  BY <1>3, <1>5, <1>6, <1>7 DEF p

\* Whatever calcCosPersistentPartSize answers is a number of mebibytes.
LEMMA LayoutType ==
  ASSUME NEW d \in DiskSizes, NEW s \in Sizes \cup {NoSize, DefaultSize},
         NEW k \in BOOLEAN
  PROVE  calcCosPersistentPartSize(ByteToGi(d), s, k).mebibytes \in Nat
<1> DEFINE w == GiToByte(ByteToGi(d))
           b == parsePartitionBytes(s)
           r == ParsePartitionSize(w, s, k)
<1>1. w \in Nat /\ b \in Nat
  BY WholeGiBFit, ParsedBytesType
<1>2. r \in {Refused, Bytes(b), Bytes(RoomFor(w))}
  BY DEF ParsePartitionSize
<1>3. RoomFor(w) \in Nat
  <2> HIDE DEF w
  <2>1. fixedOccupiedSize \in Nat /\ fixedOccupiedSize < Word
    BY MiBAssumption, WordAssumption DEF fixedOccupiedSize
  <2> QED
    BY <1>1, <2>1, WordAssumption DEF RoomFor, Minus
<1>4. r.bytes \in Nat
  <2>1. Refused.bytes = 0 /\ Bytes(b).bytes = b /\ Bytes(RoomFor(w)).bytes = RoomFor(w)
    BY DEF Refused, Bytes
  <2> HIDE DEF w, b, r
  <2>2. CASE r = Refused
    BY <2>1, <2>2
  <2>3. CASE r = Bytes(b)
    BY <1>1, <2>1, <2>3
  <2>4. CASE r = Bytes(RoomFor(w))
    BY <1>3, <2>1, <2>4
  <2> QED
    BY <1>2, <2>2, <2>3, <2>4
<1>5. ByteToMi(r.bytes) \in Nat
  <2> HIDE DEF r
  <2> QED
    BY <1>4, MiBAssumption, DivisionBounds DEF ByteToMi
<1> HIDE DEF w, r
<1> QED
  BY <1>5 DEF calcCosPersistentPartSize, r, w

\* The type invariant of the plan: in particular the unsigned subtraction never
\* yields a negative partition.
THEOREM PlanTypeCorrect == Spec => []TypeOK
<1>1. Init => TypeOK
  <2> SUFFICES ASSUME Init PROVE TypeOK
    OBVIOUS
  <2>1. size \in Sizes \cup {NoSize}
    BY Zenon DEF Init
  <2> QED
    BY <2>1 DEF Init, TypeOK
<1>2. TypeOK /\ [Next]_vars => TypeOK'
  <2> SUFFICES ASSUME TypeOK, [Next]_vars PROVE TypeOK'
    OBVIOUS
  <2>1. CASE \E s \in Sizes : PersistentSizeConfirm(s)
    BY <2>1 DEF TypeOK, PersistentSizeConfirm
  <2>2. CASE CheckDevice
    BY <2>2 DEF TypeOK, CheckDevice
  <2>3. CASE CreateRootPartitioningLayoutSharedDataDisk
    <3>1. LayoutSize \in Sizes \cup {NoSize, DefaultSize}
      BY DEF TypeOK, LayoutSize
    <3>2. persistent' \in Nat
      BY <2>3, <3>1, LayoutType DEF TypeOK, CreateRootPartitioningLayoutSharedDataDisk
    <3> QED
      BY <2>3, <3>2 DEF TypeOK, CreateRootPartitioningLayoutSharedDataDisk
  <2>4. CASE UNCHANGED vars
    BY <2>4 DEF TypeOK, vars
  <2> QED
    BY <2>1, <2>2, <2>3, <2>4 DEF Next, Ended
<1> QED
  BY <1>1, <1>2, PTL DEF Spec

\* A planned layout fits the disk and has the minimum persistent partition: the layout
\* that CreateRootPartitioningLayoutSharedDataDisk computes from the rounded disk size
\* never needs more than the disk has, unless the checks are skipped.
THEOREM PlannedLayoutFits == Spec => []SharedLayoutFits
<1>1. Init => SharedLayoutFits
  BY DEF Init, SharedLayoutFits, Planned
<1>2. TypeOK /\ SharedLayoutFits /\ [Next]_vars => SharedLayoutFits'
  <2> SUFFICES ASSUME TypeOK, SharedLayoutFits, [Next]_vars PROVE SharedLayoutFits'
    OBVIOUS
  <2>1. CASE \E s \in Sizes : PersistentSizeConfirm(s)
    BY <2>1 DEF PersistentSizeConfirm, SharedLayoutFits, Planned
  <2>2. CASE CheckDevice
    BY <2>2 DEF CheckDevice, SharedLayoutFits, Planned
  <2>3. CASE CreateRootPartitioningLayoutSharedDataDisk
    <3> SUFFICES ASSUME Planned', ~skipChecks
                 PROVE  /\ persistent' * MiB + fixedOccupiedSize <= disk
                        /\ persistent' * MiB >= MinPersistentSize
      BY <2>3 DEF CreateRootPartitioningLayoutSharedDataDisk, SharedLayoutFits, Planned
    <3>1. LayoutSize \in Sizes \cup {NoSize, DefaultSize}
      BY DEF TypeOK, LayoutSize
    <3>2. skipChecks = FALSE /\ disk \in DiskSizes
      BY DEF TypeOK
    <3> DEFINE p == calcCosPersistentPartSize(ByteToGi(disk), LayoutSize, FALSE)
    <3>3. p.ok /\ persistent' = p.mebibytes
      BY <2>3, <3>2 DEF CreateRootPartitioningLayoutSharedDataDisk, Planned
    <3> QED
      BY <3>1, <3>2, <3>3, LayoutFits
  <2>4. CASE UNCHANGED vars
    BY <2>4 DEF vars, SharedLayoutFits, Planned
  <2> QED
    BY <2>1, <2>2, <2>3, <2>4 DEF Next, Ended
<1> QED
  BY <1>1, <1>2, PlanTypeCorrect, PTL DEF Spec

-----------------------------------------------------------------------------
(* The page and the installer *)

\* What ParsePartitionSize has seen to when it takes a size.
LEMMA TakenSize ==
  ASSUME NEW d, NEW s, NEW k \in BOOLEAN, ParsePartitionSize(d, s, k).ok
  PROVE  /\ s.unit \in {"Mi", "Gi"} /\ ~TooSmall(parsePartitionBytes(s), k)
         /\ ~(~k /\ d < MinDiskSize)
<1>1. ParsePartitionSize(d, s, k) # Refused
  <2>1. ~Refused.ok
    BY DEF Refused
  <2> QED
    BY <2>1, Zenon
<1> QED
  BY <1>1, Zenon DEF ParsePartitionSize

\* A size that is neither malformed nor too small is refused only for lack of room.
LEMMA RefusedSize ==
  ASSUME NEW d, NEW s, NEW k \in BOOLEAN, s.unit \in {"Mi", "Gi"},
         ~TooSmall(parsePartitionBytes(s), k), ~(~k /\ d < MinDiskSize),
         ~ParsePartitionSize(d, s, k).ok
  PROVE  ~k /\ ~(parsePartitionBytes(s) <= RoomFor(d))
<1>1. \A b : Bytes(b).ok
  BY DEF Bytes
<1>2. \A b : ParsePartitionSize(d, s, k) # Bytes(b)
  BY <1>1, Zenon
<1> QED
  BY <1>2, Zenon DEF ParsePartitionSize

\* Rounded down to GiB, a disk of the minimum size still has it, and what is lost is
\* less than a GiB.
LEMMA RoundedDisk ==
  ASSUME NEW d \in DiskSizes
  PROVE  LET w == GiToByte(ByteToGi(d))
         IN  /\ w \in Nat /\ w > d - GiB
             /\ d >= MinDiskSize => w >= MinDiskSize /\ ByteToGi(d) >= SingleDiskMinSizeGiB
<1> DEFINE q == d \div GiB
<1>1. d \in Nat /\ d < Word
  BY DiskAssumption, WordAssumption
<1>2. GiB \in Nat \ {0}
  BY MiBAssumption DEF GiB
<1>3. q \in Nat /\ q * GiB <= d /\ d < q * GiB + GiB
  BY <1>1, <1>2, DivisionBounds
<1> DEFINE k == 250
<1>4. k \in Nat
  OBVIOUS
<1> HIDE DEF k
<1>10. k * GiB <= d => k * GiB <= q * GiB
  BY <1>1, <1>2, <1>4, RoundedKeepsMinimum, Zenon
<1> HIDE DEF q
<1>5. q * GiB \in Nat /\ q * GiB < Word
  BY <1>1, <1>2, <1>3, WordAssumption
<1>6. (q * GiB) % Word = q * GiB
  BY <1>5, ModWord
<1>7. q * GiB >= MinDiskSize => q >= 250
  <2> SUFFICES ASSUME q <= 249, q * GiB >= MinDiskSize PROVE FALSE
    BY <1>3
  <2>1. q * GiB <= 249 * GiB
    BY <1>2, <1>3, MultipleMonotone
  <2> QED
    BY <1>2, <1>5, <2>1 DEF MinDiskSize
<1>8. q * GiB > d - GiB
  BY <1>1, <1>2, <1>3, <1>5
<1>9. d >= MinDiskSize => q * GiB >= MinDiskSize
  BY <1>1, <1>2, <1>5, <1>10 DEF MinDiskSize, k
<1> QED
  BY <1>5, <1>6, <1>7, <1>8, <1>9 DEF q, ByteToGi, GiToByte, SingleDiskMinSizeGiB

\* A size that the page took passed ParsePartitionSize for the whole disk.
AskedInv ==
  asked /\ stage \in {"configured", "validated"}
    => size \in Sizes /\ ParsePartitionSize(disk, size, skipChecks).ok

\* For every disk and every size typed: the installer stops over a size that the page
\* took only if the size needs the last GiB of the disk, which the installer does not
\* count, and never when checks are skipped (calcCosPersistentPartSize).
THEOREM RefusedByRoundingOnly == Spec => []RefusalIsRounding
<1>1. Init => AskedInv /\ RefusalIsRounding
  BY DEF Init, AskedInv, RefusalIsRounding
<1>2. TypeOK /\ AskedInv /\ RefusalIsRounding /\ [Next]_vars => AskedInv' /\ RefusalIsRounding'
  <2> SUFFICES ASSUME TypeOK, AskedInv, RefusalIsRounding, [Next]_vars
               PROVE  AskedInv' /\ RefusalIsRounding'
    OBVIOUS
  <2>1. CASE \E s \in Sizes : PersistentSizeConfirm(s)
    <3>1. PICK s \in Sizes : PersistentSizeConfirm(s)
      BY <2>1
    <3>2. CASE ParsePartitionSize(disk, s, skipChecks).ok
      <4>1. size' = s /\ stage' = "configured" /\ disk' = disk /\ skipChecks' = skipChecks
        BY <3>1, <3>2 DEF PersistentSizeConfirm
      <4>2. ParsePartitionSize(disk', size', skipChecks').ok
        BY <3>2, <4>1, Zenon
      <4> QED
        BY <4>1, <4>2 DEF AskedInv, RefusalIsRounding
    <3>3. CASE ~ParsePartitionSize(disk, s, skipChecks).ok
      <4>1. UNCHANGED vars
        BY <3>1, <3>3 DEF PersistentSizeConfirm, vars
      <4> QED
        BY <4>1 DEF vars, AskedInv, RefusalIsRounding
    <3> QED
      BY <3>2, <3>3
  <2>2. CASE CheckDevice
    <3>1. /\ UNCHANGED <<disk, skipChecks, size, asked>> /\ stage = "configured"
          /\ stage' = IF skipChecks \/ validateDiskSize(disk, TRUE) THEN "validated" ELSE "failed"
      BY <2>2 DEF CheckDevice
    <3>2. CASE ~asked
      BY <3>1, <3>2 DEF AskedInv, RefusalIsRounding
    <3>3. CASE asked
      <4>1. size \in Sizes /\ ParsePartitionSize(disk, size, skipChecks).ok
        BY <3>1, <3>3 DEF AskedInv
      <4>2. skipChecks \/ validateDiskSize(disk, TRUE)
        <5>1. ~(~skipChecks /\ disk < MinDiskSize)
          BY <4>1, TakenSize DEF TypeOK
        <5>2. disk \in Nat /\ MinDiskSize \in Nat
          BY DiskAssumption, WordAssumption, MiBAssumption DEF TypeOK, MinDiskSize, GiB
        <5> QED
          BY <5>1, <5>2, RoundedDisk DEF TypeOK, validateDiskSize
      <4>3. stage' = "validated"
        BY <3>1, <4>2
      <4> QED
        BY <3>1, <4>1, <4>3 DEF AskedInv, RefusalIsRounding
    <3> QED
      BY <3>2, <3>3
  <2>3. CASE CreateRootPartitioningLayoutSharedDataDisk
    <3> DEFINE w == GiToByte(ByteToGi(disk))
               r == ParsePartitionSize(w, LayoutSize, skipChecks)
    <3>1. /\ UNCHANGED <<disk, skipChecks, size, asked>> /\ stage = "validated"
          /\ stage' \in {"planned", "failed"} /\ (stage' = "failed" => ~r.ok)
      BY <2>3 DEF CreateRootPartitioningLayoutSharedDataDisk, calcCosPersistentPartSize
    <3>2. AskedInv'
      BY <3>1 DEF AskedInv
    <3>3. RefusalIsRounding'
      <4> SUFFICES ASSUME asked, ~r.ok
                   PROVE  /\ ~skipChecks
                          /\ parsePartitionBytes(size) + fixedOccupiedSize > disk - GiB
        BY <3>1 DEF RefusalIsRounding
      <4>1. size \in Sizes /\ ParsePartitionSize(disk, size, skipChecks).ok
        BY <3>1 DEF AskedInv
      <4>2. /\ size.unit \in {"Mi", "Gi"} /\ ~TooSmall(parsePartitionBytes(size), skipChecks)
            /\ ~(~skipChecks /\ disk < MinDiskSize)
        BY <4>1, TakenSize DEF TypeOK
      <4>3. LayoutSize = size
        BY <4>2 DEF LayoutSize, NoSize
      <4>4. w \in Nat /\ w > disk - GiB /\ (disk >= MinDiskSize => w >= MinDiskSize)
        BY RoundedDisk DEF TypeOK
      <4>5. disk \in Nat /\ MinDiskSize \in Nat
        BY DiskAssumption, WordAssumption, MiBAssumption DEF TypeOK, MinDiskSize, GiB
      <4>6. ~(~skipChecks /\ w < MinDiskSize)
        BY <4>2, <4>4, <4>5
      <4>7. ~ParsePartitionSize(w, size, skipChecks).ok
        BY <4>3, Zenon
      <4> HIDE DEF w, r
      <4>8. ~skipChecks /\ ~(parsePartitionBytes(size) <= RoomFor(w))
        BY <4>2, <4>6, <4>7, RefusedSize DEF TypeOK
      <4>9. w >= MinDiskSize
        BY <4>4, <4>5, <4>6, <4>8
      <4>10. fixedOccupiedSize \in Nat /\ fixedOccupiedSize <= MinDiskSize /\ GiB \in Nat
        BY MiBAssumption DEF fixedOccupiedSize, MinDiskSize, GiB
      <4>11. RoomFor(w) = w - fixedOccupiedSize
        BY <4>4, <4>5, <4>9, <4>10 DEF RoomFor, Minus
      <4>12. parsePartitionBytes(size) \in Nat
        BY <4>1, ParsedBytesType
      <4> QED
        BY <4>4, <4>5, <4>8, <4>10, <4>11, <4>12
    <3> QED
      BY <3>2, <3>3
  <2>4. CASE UNCHANGED vars
    BY <2>4 DEF vars, AskedInv, RefusalIsRounding
  <2> QED
    BY <2>1, <2>2, <2>3, <2>4 DEF Next, Ended
<1> QED
  BY <1>1, <1>2, PlanTypeCorrect, PTL DEF Spec

-----------------------------------------------------------------------------
(* Induction over the loop *)

\* The least-number principle. A loop is proved correct with it: the first iteration
\* that breaks the loop's invariant does not exist.
LEMMA LeastElement ==
  ASSUME NEW T, T \subseteq Nat, T # {}
  PROVE  \E m \in T : \A k \in T : m <= k
<1> DEFINE R == OpToRel(<, Nat)
<1>1. IsWellFoundedOn(R, Nat)
  BY NatLessThanWellFounded
<1>2. \A x, y \in Nat : x < y => <<x, y>> \in R
  BY DEF OpToRel
<1> HIDE DEF R
<1>3. PICK m \in T : \A k \in T : ~ (<<k, m>> \in R)
  BY <1>1, WFMin, Zenon
<1>4. \A k \in T : ~(k < m)
  BY <1>2, <1>3
<1> QED
  BY <1>4

\* f holds the map of filterUniqueDisks after each of the first n iterations.
IsLoop(f, list, n) ==
  f = [i \in 0..n |-> IF i = 0 THEN <<>> ELSE Dedup(f[i - 1], list[i])]

\* The recursion has a solution, for a list of any length.
LEMMA LoopExists ==
  ASSUME NEW list, NEW n \in Nat
  PROVE  \E f : IsLoop(f, list, n)
<1> DEFINE T == {m \in Nat : ~ \E f : IsLoop(f, list, m)}
<1> SUFFICES ASSUME T # {} PROVE FALSE
  OBVIOUS
<1>1. PICK m \in T : \A k \in T : m <= k
  BY LeastElement
<1>2. m # 0
  <2> DEFINE f == [i \in 0..0 |-> <<>>]
  <2>1. IsLoop(f, list, 0)
    BY DEF IsLoop
  <2> QED
    BY <2>1, <1>1
<1>3. m \in Nat /\ m - 1 \in Nat /\ m - 1 \notin T
  BY <1>1, <1>2
<1>4. PICK f : IsLoop(f, list, m - 1)
  BY <1>3
<1> DEFINE g == [i \in 0..m |-> IF i = m THEN Dedup(f[m - 1], list[m]) ELSE f[i]]
           h == [i \in 0..m |-> IF i = 0 THEN <<>> ELSE Dedup(g[i - 1], list[i])]
<1>5. ASSUME NEW i \in 0..m PROVE g[i] = h[i]
  <2>1. CASE i = m
    <3>1. g[m - 1] = f[m - 1] /\ m - 1 # m
      BY <1>2, <1>3
    <3>2. g[i] = Dedup(f[m - 1], list[m])
      BY <2>1
    <3>3. h[i] = Dedup(g[m - 1], list[m])
      BY <1>2, <2>1
    <3> HIDE DEF g, h
    <3> QED
      BY <3>1, <3>2, <3>3
  <2>2. CASE i # m /\ i # 0
    <3>1. i - 1 \in 0..m /\ i - 1 # m /\ i \in 0..(m - 1)
      BY <1>3, <2>2
    <3>2. g[i] = f[i] /\ g[i - 1] = f[i - 1]
      BY <3>1, <2>2
    <3>3. f[i] = Dedup(f[i - 1], list[i])
      BY <3>1, <2>2, <1>4 DEF IsLoop
    <3>4. h[i] = Dedup(g[i - 1], list[i])
      BY <2>2
    <3> HIDE DEF g, h
    <3> QED
      BY <3>2, <3>3, <3>4
  <2>3. CASE i = 0
    <3>1. g[0] = f[0] /\ h[0] = <<>> /\ 0 \in 0..(m - 1)
      BY <1>2, <1>3
    <3>2. f[0] = <<>>
      BY <3>1, <1>4 DEF IsLoop
    <3> HIDE DEF g, h
    <3> QED
      BY <3>1, <3>2, <2>3
  <2> QED
    BY <2>1, <2>2, <2>3
<1>6. g = h
  <2>1. g = [i \in 0..m |-> g[i]] /\ h = [i \in 0..m |-> h[i]]
    OBVIOUS
  <2> HIDE DEF g, h
  <2> QED
    BY <1>5, <2>1
<1>7. IsLoop(g, list, m)
  BY <1>6, Zenon DEF IsLoop
<1> QED
  BY <1>1, <1>7

\* dedupMap is what the loop computes.
LEMMA LoopUnfolds ==
  ASSUME NEW S, NEW list \in Seq(S)
  PROVE  /\ dedupMap(list)[0] = <<>>
         /\ \A i \in 1..Len(list) : dedupMap(list)[i] = Dedup(dedupMap(list)[i - 1], list[i])
<1> DEFINE map == dedupMap(list)
<1>1. Len(list) \in Nat
  OBVIOUS
<1>2. \E f : f = [i \in 0..Len(list) |-> IF i = 0 THEN <<>> ELSE Dedup(f[i - 1], list[i])]
  BY <1>1, LoopExists DEF IsLoop
<1>3. map = [i \in 0..Len(list) |-> IF i = 0 THEN <<>> ELSE Dedup(map[i - 1], list[i])]
  BY <1>2, Zenon DEF dedupMap
<1> HIDE DEF map
<1>4. map[0] = <<>> /\ \A i \in 1..Len(list) : map[i] = Dedup(map[i - 1], list[i])
  <2>1. 0 \in 0..Len(list) /\ \A i \in 1..Len(list) : i \in 0..Len(list) /\ i # 0
    BY <1>1
  <2> QED
    BY <1>3, <2>1
<1> QED
  BY <1>4 DEF map

-----------------------------------------------------------------------------
(* One iteration *)

\* The keys under which a device is entered, and the one that tells its disk.
Keys(d) == IF Ids(d) = {} THEN {d} ELSE Ids(d)
MainKey(d) == IF Ids(d) = {} THEN d ELSE IF WWNOf[d] # None THEN WWNOf[d] ELSE SerialOf[d]

LEMMA MainKeyIsKey ==
  ASSUME NEW d \in Devices
  PROVE  MainKey(d) \in Keys(d)
BY DEF MainKey, Keys, Ids

\* Devices with the same main key are paths to one disk, and only those.
LEMMA MainKeyTells ==
  ASSUME NEW d \in Devices, NEW e \in Devices
  PROVE  /\ MainKey(d) = MainKey(e) <=> SameDisk(d, e)
         /\ MainKey(d) \in Keys(e) => MainKey(e) = MainKey(d)
BY IdentityAssumption DEF MainKey, Keys, Ids, SameDisk, SameIds

\* A disk that is known by its WWN is known by its serial number as well.
LEMMA KeysTogether ==
  ASSUME NEW d \in Devices, NEW e \in Devices, MainKey(d) = MainKey(e)
  PROVE  Keys(d) = Keys(e)
BY IdentityAssumption DEF MainKey, Keys, Ids, SameIds

\* Entering a key that is not there changes nothing else.
LEMMA ClaimEnters ==
  ASSUME NEW map, map = [k \in DOMAIN map |-> map[k]], NEW key, NEW d
  PROVE  LET new == Claim(map, key, d)
         IN  /\ new = [k \in DOMAIN new |-> new[k]]
             /\ DOMAIN new = DOMAIN map \cup ({key} \ {None})
             /\ \A k \in DOMAIN map : new[k] = map[k]
             /\ key \notin DOMAIN map \cup {None} => new[key] = d
BY DEF Claim, Put

LEMMA PutEnters ==
  ASSUME NEW map, NEW key, NEW d
  PROVE  /\ Put(map, key, d) = [k \in DOMAIN Put(map, key, d) |-> Put(map, key, d)[k]]
         /\ DOMAIN Put(map, key, d) = DOMAIN map \cup {key}
         /\ Put(map, key, d)[key] = d
         /\ \A k \in DOMAIN map : k # key => Put(map, key, d)[k] = map[k]
BY DEF Put

\* What holds of the map when the devices P have been looked at: all their keys are
\* there, and a device that is kept for one of its keys is kept for its main key.
LoopInv(map, P) ==
  /\ map = [k \in DOMAIN map |-> map[k]]
  /\ DOMAIN map = UNION {Keys(d) : d \in P}
  /\ \A k \in DOMAIN map : /\ map[k] \in P /\ k \in Keys(map[k])
                           /\ map[MainKey(map[k])] = map[k]

\* A device that reports nothing is kept under its name.
LEMMA NamedStep ==
  ASSUME NEW P \in SUBSET Devices, NEW map, LoopInv(map, P), NEW d \in Devices, Ids(d) = {}
  PROVE  LoopInv(Put(map, d, d), P \cup {d})
<1> DEFINE new == Put(map, d, d)
<1>1. /\ new = [k \in DOMAIN new |-> new[k]] /\ DOMAIN new = DOMAIN map \cup {d} /\ new[d] = d
      /\ \A k \in DOMAIN map : k # d => new[k] = map[k]
  BY PutEnters
<1> HIDE DEF new
<1>2. Keys(d) = {d} /\ MainKey(d) = d
  BY DEF Keys, MainKey
<1>3. DOMAIN new = UNION {Keys(e) : e \in P \cup {d}}
  BY <1>1, <1>2 DEF LoopInv
<1>4. ASSUME NEW k \in DOMAIN new
      PROVE  new[k] \in P \cup {d} /\ k \in Keys(new[k]) /\ new[MainKey(new[k])] = new[k]
  <2>1. CASE k = d
    BY <1>1, <1>2, <2>1
  <2>2. CASE k # d
    <3>1. k \in DOMAIN map /\ new[k] = map[k] /\ map[k] \in P /\ k \in Keys(map[k])
          /\ map[MainKey(map[k])] = map[k]
      BY <1>1, <2>2 DEF LoopInv
    <3>2. MainKey(map[k]) \in DOMAIN map
      BY <3>1, MainKeyIsKey DEF LoopInv
    <3>3. CASE MainKey(map[k]) = d
      <4>1. map[k] = d
        BY <3>1, <3>3, <1>2, MainKeyTells, IdentityAssumption DEF SameDisk
      <4> QED
        BY <4>1, <3>1, <1>1, <1>2, <2>2
    <3>4. CASE MainKey(map[k]) # d
      BY <3>1, <3>2, <3>4, <1>1
    <3> QED
      BY <3>3, <3>4
  <2> QED
    BY <2>1, <2>2
<1> QED
  BY <1>1, <1>3, <1>4 DEF LoopInv, new

\* A device with identifiers is kept for those that nobody has taken. If its serial
\* number is not there, neither is its WWN.
LEMMA IdentifiedStep ==
  ASSUME NEW P \in SUBSET Devices, NEW map, LoopInv(map, P), NEW d \in Devices, Ids(d) # {}
  PROVE  LoopInv(Claim(Claim(map, SerialOf[d], d), WWNOf[d], d), P \cup {d})
<1> DEFINE mid == Claim(map, SerialOf[d], d)
           new == Claim(mid, WWNOf[d], d)
<1>1. /\ mid = [k \in DOMAIN mid |-> mid[k]]
      /\ DOMAIN mid = DOMAIN map \cup ({SerialOf[d]} \ {None})
      /\ \A k \in DOMAIN map : mid[k] = map[k]
      /\ SerialOf[d] \notin DOMAIN map \cup {None} => mid[SerialOf[d]] = d
  BY ClaimEnters DEF LoopInv
<1> HIDE DEF mid
<1>2. /\ new = [k \in DOMAIN new |-> new[k]]
      /\ DOMAIN new = DOMAIN mid \cup ({WWNOf[d]} \ {None})
      /\ \A k \in DOMAIN mid : new[k] = mid[k]
      /\ WWNOf[d] \notin DOMAIN mid \cup {None} => new[WWNOf[d]] = d
  BY <1>1, ClaimEnters
<1> HIDE DEF new
<1>3. Keys(d) = ({SerialOf[d]} \ {None}) \cup ({WWNOf[d]} \ {None})
  BY DEF Keys, Ids
<1>4. DOMAIN new = UNION {Keys(e) : e \in P \cup {d}}
  BY <1>1, <1>2, <1>3 DEF LoopInv
<1>5. \A k \in DOMAIN map : new[k] = map[k]
  BY <1>1, <1>2
<1>6. \A k \in DOMAIN new : k \notin DOMAIN map => new[k] = d /\ k \in Keys(d)
  BY <1>1, <1>2, <1>3
<1>7. ASSUME NEW k \in DOMAIN new, k \notin DOMAIN map
      PROVE  MainKey(d) \notin DOMAIN map
  <2> SUFFICES ASSUME MainKey(d) \in DOMAIN map PROVE FALSE
    OBVIOUS
  <2>1. PICK e \in P : MainKey(d) \in Keys(e)
    BY DEF LoopInv
  <2>2. Keys(e) = Keys(d)
    BY <2>1, MainKeyTells, KeysTogether
  <2> QED
    BY <2>2, <1>6, <1>7 DEF LoopInv
<1>8. ASSUME NEW k \in DOMAIN new
      PROVE  new[k] \in P \cup {d} /\ k \in Keys(new[k]) /\ new[MainKey(new[k])] = new[k]
  <2>1. CASE k \in DOMAIN map
    <3>1. MainKey(map[k]) \in DOMAIN map
      BY <2>1, MainKeyIsKey DEF LoopInv
    <3> QED
      BY <2>1, <3>1, <1>5 DEF LoopInv
  <2>2. CASE k \notin DOMAIN map
    <3>1. MainKey(d) \in DOMAIN new /\ MainKey(d) \notin DOMAIN map
      BY <2>2, <1>4, <1>7, MainKeyIsKey
    <3> QED
      BY <2>2, <3>1, <1>6
  <2> QED
    BY <2>1, <2>2
<1> QED
  BY <1>2, <1>4, <1>8 DEF LoopInv, new, mid

LEMMA DedupStep ==
  ASSUME NEW P \in SUBSET Devices, NEW map, LoopInv(map, P), NEW d \in Devices
  PROVE  LoopInv(Dedup(map, d), P \cup {d})
<1>1. Ids(d) = {} <=> SerialOf[d] = None /\ WWNOf[d] = None
  BY DEF Ids
<1> QED
  BY <1>1, NamedStep, IdentifiedStep DEF Dedup

\* The invariant holds after the last iteration, however long the list is.
LEMMA LoopEnds ==
  ASSUME NEW list \in Seq(Devices)
  PROVE  LoopInv(dedupMap(list)[Len(list)], Range(list))
<1> DEFINE map == dedupMap(list)
           Seen(i) == {list[j] : j \in 1..i}
           T == {i \in Nat : i <= Len(list) /\ ~LoopInv(map[i], Seen(i))}
<1>1. Len(list) \in Nat /\ \A i \in 1..Len(list) : list[i] \in Devices
  OBVIOUS
<1>2. map[0] = <<>> /\ \A i \in 1..Len(list) : map[i] = Dedup(map[i - 1], list[i])
  BY LoopUnfolds
<1>3. Seen(Len(list)) = Range(list)
  BY DEF Range
<1> HIDE DEF map
<1>4. T = {}
  <2> SUFFICES ASSUME T # {} PROVE FALSE
    OBVIOUS
  <2>1. PICK m \in T : \A k \in T : m <= k
    BY LeastElement
  <2>2. m # 0
    <3>1. Seen(0) = {}
      OBVIOUS
    <3>2. LoopInv(<<>>, {})
      BY DEF LoopInv
    <3> QED
      BY <1>2, <2>1, <3>1, <3>2
  <2>3. m \in Nat /\ m - 1 \in Nat /\ m - 1 \notin T /\ m \in 1..Len(list)
    <3>1. m \in Nat /\ m <= Len(list)
      OBVIOUS
    <3> HIDE DEF T
    <3> QED
      BY <1>1, <2>1, <2>2, <3>1
  <2>4. LoopInv(map[m - 1], Seen(m - 1))
    BY <1>1, <2>3
  <2>5. Seen(m) = Seen(m - 1) \cup {list[m]} /\ Seen(m - 1) \in SUBSET Devices
    BY <1>1, <2>3
  <2>6. LoopInv(map[m], Seen(m))
    <3> HIDE DEF Seen
    <3> QED
      BY <1>1, <1>2, <2>3, <2>4, <2>5, DedupStep
  <2> QED
    BY <2>1, <2>6
<1>5. LoopInv(map[Len(list)], Seen(Len(list)))
  <2> HIDE DEF Seen
  <2> QED
    BY <1>1, <1>4
<1> QED
  BY <1>3, <1>5 DEF map

\* In whatever order lsblk lists the devices, each disk is kept under one name.
LEMMA FilterKeepsOnce ==
  ASSUME NEW list \in Seq(Devices)
  PROVE  /\ filterUniqueDisks(list) \subseteq Range(list)
         /\ \A d \in Range(list) : \E e \in filterUniqueDisks(list) :
              \A o \in filterUniqueDisks(list) : SameDisk(d, o) <=> o = e
<1> DEFINE map == dedupMap(list)[Len(list)]
           P == Range(list)
<1>1. LoopInv(map, P) /\ P \subseteq Devices
  <2>1. P \subseteq Devices
    BY DEF Range
  <2>2. LoopInv(map, P)
    BY LoopEnds
  <2> QED
    BY <2>1, <2>2
<1>2. filterUniqueDisks(list) = {map[k] : k \in DOMAIN map}
  BY DEF filterUniqueDisks, Range
<1> HIDE DEF map, P
<1>3. filterUniqueDisks(list) \subseteq P
  BY <1>1, <1>2 DEF LoopInv
<1>4. ASSUME NEW d \in P
      PROVE  \E e \in filterUniqueDisks(list) :
               \A o \in filterUniqueDisks(list) : SameDisk(d, o) <=> o = e
  <2>1. MainKey(d) \in DOMAIN map
    BY <1>1, MainKeyIsKey DEF LoopInv
  <2>2. map[MainKey(d)] \in P /\ MainKey(d) \in Keys(map[MainKey(d)])
    BY <1>1, <2>1 DEF LoopInv
  <2>3. MainKey(map[MainKey(d)]) = MainKey(d)
    BY <1>1, <2>2, MainKeyTells
  <2>4. ASSUME NEW o \in filterUniqueDisks(list)
        PROVE  SameDisk(d, o) <=> o = map[MainKey(d)]
    <3>1. o \in P /\ map[MainKey(o)] = o
      BY <1>1, <1>2 DEF LoopInv
    <3>2. SameDisk(d, o) <=> MainKey(d) = MainKey(o)
      BY <1>1, <3>1, MainKeyTells
    <3> QED
      BY <2>3, <3>1, <3>2
  <2> QED
    BY <1>2, <2>1, <2>4
<1> QED
  BY <1>3, <1>4 DEF P

-----------------------------------------------------------------------------
(* The cache *)

LEMMA DevicesFinite ==
  ASSUME NEW S \in SUBSET Devices
  PROVE  IsFiniteSet(S)
<1>1. IsFiniteSet(1..Len(Names)) /\ Devices = {Names[i] : i \in 1..Len(Names)}
  BY NamesAssumption, FS_Interval DEF Devices, Range
<1>2. IsFiniteSet(Devices)
  <2> DEFINE f == [i \in 1..Len(Names) |-> Names[i]]
  <2>1. f \in Surjection(1..Len(Names), Devices)
    BY <1>1 DEF Surjection
  <2> QED
    BY <1>1, <2>1, FS_Surjection
<1> QED
  BY <1>2, FS_Subset

\* A listing has every device that is present.
LEMMA ListingComplete ==
  ASSUME NEW S \in SUBSET Devices, NEW list \in SetToSeqs(S)
  PROVE  list \in Seq(Devices) /\ Range(list) = S
<1>1. IsFiniteSet(S) /\ Cardinality(S) \in Nat
  BY DevicesFinite, FS_CardinalityType
<1> DEFINE D == 1..Cardinality(S)
<1>2. list \in [D -> S] /\ \A i, j \in D : i # j => list[i] # list[j]
  BY DEF SetToSeqs
<1>3. IsFiniteSet(D) /\ Cardinality(D) = Cardinality(S)
  BY <1>1, FS_Interval
<1>4. list \in Injection(D, S)
  BY <1>2 DEF Injection, IsInjective
<1>5. list \in Surjection(D, S)
  BY <1>1, <1>3, <1>4, FS_Injection
<1>6. list \in Seq(Devices) /\ DOMAIN list = D
  BY <1>1, <1>2
<1> QED
  BY <1>5, <1>6 DEF Surjection, Range

LEMMA RefreshOffers ==
  ASSUME present \subseteq Devices, refresh
  PROVE  /\ diskOptions' \subseteq seen' /\ seen' \subseteq Devices
         /\ hvstInstalledDiskOptions' = diskOptions' \cap Labelled
         /\ OfferedOnce'
<1>1. PICK list \in SetToSeqs(present) : diskOptions' = filterUniqueDisks(list)
  BY DEF refresh
<1>2. list \in Seq(Devices) /\ Range(list) = present
  BY ListingComplete
<1> QED
  BY <1>1, <1>2, FilterKeepsOnce DEF refresh, OfferedOnce, deviceContainsCOSPartition

\* The first of some devices is one of them.
LEMMA FirstIsOne ==
  ASSUME NEW S \in SUBSET Devices, S # {}
  PROVE  First(S) \in S
<1> DEFINE T == {i \in Nat : i \in DOMAIN Names /\ Names[i] \in S}
<1>1. DOMAIN Names = 1..Len(Names) /\ Len(Names) \in Nat
  BY NamesAssumption
<1>2. T # {}
  BY <1>1 DEF Devices, Range
<1>3. PICK m \in T : \A k \in T : m <= k
  BY <1>2, LeastElement
<1>4. m \in DOMAIN Names /\ Names[m] \in S /\ \A j \in 1..(m - 1) : Names[j] \notin S
  BY <1>1, <1>3
<1> QED
  BY <1>4 DEF First

\* Nothing is wiped before the device was found in the cache, which nobody reads again.
ClearedInv ==
  /\ step \in {"cleared", "wiping", "install"} \/ wiped # {}
       => cfg.device \in diskOptions /\ cfg.device \notin wiped
  /\ wiped # {} => step \in {"wiping", "install", "refused"}

CacheInv == CacheTypeOK /\ OfferedOnce /\ ClearedInv

\* Only the configuration or the page changes.
LEMMA SameCache ==
  ASSUME CacheInv, UNCHANGED <<diskOptions, hvstInstalledDiskOptions, seen, wiped>>,
         present' \subseteq Devices, step' \in Steps,
         cfg' \in [device : Devices \cup {None}, dataDisk : Devices \cup {None},
                   wipeAllDisks : BOOLEAN],
         \/ wiped = {} /\ step' \notin {"cleared", "wiping", "install"}
         \/ UNCHANGED cfg /\ step' \in {step, "refused", "exited"}
              /\ (wiped # {} => step' # "exited")
         \/ /\ UNCHANGED cfg /\ step \in {"cleared", "wiping"}
            /\ step' \in {"wiping", "install", "refused"}
  PROVE  CacheInv'
<1>1. CacheTypeOK'
  BY DEF CacheInv, CacheTypeOK
<1>2. OfferedOnce'
  BY DEF CacheInv, OfferedOnce
<1>3. ClearedInv'
  BY DEF CacheInv, ClearedInv
<1> QED
  BY <1>1, <1>2, <1>3 DEF CacheInv

LEMMA CacheInitInv == CacheInit => CacheInv
BY DEF CacheInit, CacheInv, CacheTypeOK, OfferedOnce, ClearedInv, Steps

ConfigType == [device : Devices \cup {None}, dataDisk : Devices \cup {None},
               wipeAllDisks : BOOLEAN]

LEMMA PresetTyped ==
  ASSUME CacheInv, diskOptions' \subseteq Devices, diskOptions' # {}
  PROVE  presetConfigDisks \in ConfigType
<1>1. First(diskOptions') \in Devices
  BY FirstIsOne
<1>2. cfg \in ConfigType
  BY DEF CacheInv, CacheTypeOK, ConfigType
<1> QED
  BY <1>1, <1>2 DEF presetConfigDisks, ConfigType

LEMMA CacheStep == CacheInv /\ [CacheNext]_cacheVars => CacheInv'
<1> SUFFICES ASSUME CacheInv, [CacheNext]_cacheVars PROVE CacheInv'
  OBVIOUS
<1> USE DEF Steps
<1>0. /\ present \subseteq Devices /\ cfg \in ConfigType /\ step \in Steps
      /\ diskOptions \subseteq seen /\ seen \subseteq Devices
      /\ hvstInstalledDiskOptions = diskOptions \cap Labelled
      /\ wiped \subseteq hvstInstalledDiskOptions
      /\ wiped # {} => step \in {"wiping", "install", "refused"}
  BY DEF CacheInv, CacheTypeOK, ClearedInv, ConfigType
<1>1. ASSUME NEW d \in Devices, Hotplug(d) PROVE CacheInv'
  BY <1>0, <1>1, SameCache DEF Hotplug, Over, ConfigType
<1>2. ASSUME NEW d \in Devices, DiskConfirm(d) \/ DataDiskConfirm(d) PROVE CacheInv'
  <2>1. step = "disk" /\ cfg' \in ConfigType
        /\ UNCHANGED <<present, diskOptions, hvstInstalledDiskOptions, step, wiped, seen>>
    BY <1>0, <1>2 DEF DiskConfirm, DataDiskConfirm, Choose, ConfigType
  <2> QED
    BY <1>0, <2>1, SameCache DEF ConfigType
<1>3. CASE showDiskPage
  <2>1. step = "pages" /\ wiped = {} /\ UNCHANGED <<present, wiped>>
    BY <1>0, <1>3 DEF showDiskPage
  <2>2. CASE refresh
    <3>1. /\ diskOptions' \subseteq seen' /\ seen' \subseteq Devices
          /\ hvstInstalledDiskOptions' = diskOptions' \cap Labelled
          /\ OfferedOnce'
      BY <1>0, <2>2, RefreshOffers
    <3>2. step' \in {"disk", "diskFatal", "exited"} /\ cfg' \in ConfigType
      BY <1>0, <1>3, <3>1, PresetTyped DEF showDiskPage
    <3> QED
      BY <1>0, <2>1, <3>1, <3>2 DEF CacheInv, CacheTypeOK, ClearedInv, ConfigType
  <2>3. CASE step' = "exited" /\ UNCHANGED <<diskOptions, hvstInstalledDiskOptions, seen, cfg>>
    BY <1>0, <2>1, <2>3, SameCache DEF ConfigType
  <2> QED
    BY <1>3, <2>2, <2>3 DEF showDiskPage
<1>4. CASE LeaveDiskPage
  BY <1>0, <1>4, SameCache DEF LeaveDiskPage, ConfigType
<1>5. CASE checkDevice
  <2>1. step = "pages" /\ wiped = {} /\ UNCHANGED <<present, cfg, wiped>>
    BY <1>0, <1>5 DEF checkDevice
  <2>2. CASE refresh /\ step' = IF DeviceFound THEN "cleared" ELSE "refused"
    <3>1. /\ diskOptions' \subseteq seen' /\ seen' \subseteq Devices
          /\ hvstInstalledDiskOptions' = diskOptions' \cap Labelled
          /\ OfferedOnce'
      BY <1>0, <2>2, RefreshOffers
    <3> QED
      BY <1>0, <2>1, <2>2, <3>1
         DEF CacheInv, CacheTypeOK, ClearedInv, ConfigType, DeviceFound
  <2>3. CASE step' = "refused" /\ UNCHANGED <<diskOptions, hvstInstalledDiskOptions, seen>>
    BY <1>0, <2>1, <2>3, SameCache DEF ConfigType
  <2> QED
    BY <1>5, <2>2, <2>3 DEF checkDevice
<1>6. CASE BeginWipe
  BY <1>0, <1>6, SameCache DEF BeginWipe, ConfigType
<1>7. CASE executeWipeDisks
  <2>1. step = "wiping"
        /\ UNCHANGED <<present, diskOptions, hvstInstalledDiskOptions, cfg, seen>>
    BY <1>7 DEF executeWipeDisks
  <2>2. CASE UNCHANGED wiped /\ step' \in {"install", "refused"}
    BY <1>0, <2>1, <2>2, SameCache DEF ConfigType
  <2>3. CASE /\ ToWipe # {} /\ wiped' = wiped \cup {First(ToWipe)}
             /\ step' \in {"wiping", "refused"}
    <3>1. First(ToWipe) \in ToWipe
      BY <1>0, <2>3, FirstIsOne DEF ToWipe, getWipeDisksOptions
    <3>2. First(ToWipe) \in hvstInstalledDiskOptions /\ First(ToWipe) # cfg.device
      BY <3>1 DEF ToWipe, getWipeDisksOptions
    <3>3. CacheTypeOK' /\ OfferedOnce'
      BY <1>0, <2>1, <2>3, <3>2 DEF CacheInv, CacheTypeOK, OfferedOnce, ConfigType
    <3>4. ClearedInv'
      BY <2>1, <2>3, <3>2 DEF CacheInv, ClearedInv
    <3> QED
      BY <3>3, <3>4 DEF CacheInv
  <2> QED
    BY <1>7, <2>2, <2>3 DEF executeWipeDisks
<1>8. CASE UNCHANGED cacheVars
  BY <1>0, <1>8, SameCache DEF cacheVars, ConfigType
<1> QED
  BY <1>1, <1>2, <1>3, <1>4, <1>5, <1>6, <1>7, <1>8 DEF CacheNext, CacheEnded

LEMMA CacheInvariant == CacheSpec => []CacheInv
<1> QED
  BY CacheInitInv, CacheStep, PTL DEF CacheSpec

\* For any devices and any order in which lsblk lists them, the cache offers what was
\* there when lsblk ran and what is wiped comes from the cache (DiskOptionsCache).
THEOREM CacheTypeCorrect == CacheSpec => []CacheTypeOK
<1>1. CacheInv => CacheTypeOK
  BY DEF CacheInv
<1> QED
  BY <1>1, CacheInvariant, PTL

\* For any devices, however they come and go and in whatever order lsblk lists them,
\* every disk is offered under exactly one of its paths (filterUniqueDisks).
THEOREM DisksOfferedOnce == CacheSpec => []OfferedOnce
<1>1. CacheInv => OfferedOnce
  BY DEF CacheInv
<1> QED
  BY <1>1, CacheInvariant, PTL

\* For any devices, however they come and go, no path to the installation disk is
\* wiped, although names are compared (getWipeDisksOptions, checkDevice).
THEOREM InstallPathsSpared == CacheSpec => []WipeSparesInstallPaths
<1>1. CacheInv => WipeSparesInstallPaths
  <2> SUFFICES ASSUME CacheInv, NEW d \in wiped, SameDisk(d, cfg.device) PROVE FALSE
    BY DEF WipeSparesInstallPaths
  <2>1. d \in diskOptions /\ cfg.device \in diskOptions /\ d # cfg.device
        /\ cfg.device \in seen
    BY DEF CacheInv, CacheTypeOK, ClearedInv
  <2>2. SameDisk(cfg.device, d) /\ SameDisk(cfg.device, cfg.device)
    BY DEF SameDisk, SameIds, Ids
  <2> QED
    BY <2>1, <2>2 DEF CacheInv, OfferedOnce
<1> QED
  BY <1>1, CacheInvariant, PTL
=============================================================================
