---------------------------- MODULE PartitionSize ----------------------------
(***************************************************************************)
(* Disk sizes and the size of the persistent partition, as computed by     *)
(* pkg/util/disk.go and pkg/config/cos.go with Go's unsigned integers.     *)
(*                                                                         *)
(* The numbers are those of the source; the unit is a parameter: MiB is    *)
(* the number of units in a mebibyte and Word the number of values of an   *)
(* unsigned integer, so that the arithmetic wraps around at Word.          *)
(***************************************************************************)
EXTENDS Naturals, Integers

CONSTANTS MiB, Word

ASSUME MiBAssumption == MiB \in Nat \ {0}
ASSUME WordAssumption == Word \in Nat /\ 256000 * MiB < Word

GiB == 1024 * MiB

MinDiskSize == 250 * GiB
MinPersistentSize == 150 * GiB

\* COS_OEM, COS_STATE, COS_RECOVERY, the ESP partition and 50Gi of VM data.
fixedOccupiedSize == (50 + 15360 + 8192 + 64 + 51200) * MiB

ByteToGi(b) == b \div GiB
ByteToMi(b) == b \div MiB
DecimalGiToByte(g) == (g * 1000 * MiB) % Word
GiToByte(g) == (g * GiB) % Word

\* Unsigned subtraction.
Minus(a, b) == IF b <= a THEN a - b ELSE a + Word - b

\* A size as typed: [n |-> 150, unit |-> "Gi"]. Text that is not a number followed
\* by Mi or Gi has the unit "bad".
NoSize == [n |-> 0, unit |-> "none"]

parsePartitionBytes(s) == (s.n * (IF s.unit = "Gi" THEN GiB ELSE MiB)) % Word

Bytes(b) == [ok |-> TRUE, bytes |-> b]
Refused == [ok |-> FALSE, bytes |-> 0]

RoomIsWholeDisk(disk) == disk

\* What the fixed partitions leave of a disk.
RoomFor(disk) == Minus(disk, fixedOccupiedSize)

TooSmall(bytes, skipChecks) == ~skipChecks /\ bytes < MinPersistentSize

\* With skipChecks the sizes may be small, and a size that does not fit is cut.
ParsePartitionSize(disk, s, skipChecks) ==
  LET bytes == parsePartitionBytes(s)
  IN  IF \/ ~skipChecks /\ disk < MinDiskSize
         \/ s.unit \notin {"Mi", "Gi"}
         \/ TooSmall(bytes, skipChecks)
      THEN Refused
      ELSE IF bytes <= RoomFor(disk) THEN Bytes(bytes)
      ELSE IF skipChecks THEN Bytes(RoomFor(disk))
      ELSE Refused

DefaultSize == [n |-> 150, unit |-> "Gi"]

\* The installer knows the disk in whole gibibytes and the result in mebibytes.
calcCosPersistentPartSize(diskGiB, s, skipChecks) ==
  LET r == ParsePartitionSize(GiToByte(diskGiB), s, skipChecks)
  IN  [ok |-> r.ok, mebibytes |-> ByteToMi(r.bytes)]

\* validateDiskSize: the minimum for a disk that also holds the data, and for one
\* that does not; validateDataDiskSize.
SingleDiskMinSizeGiB == 250
MultipleDiskMinSizeGiB == 180
HardMinDataDiskSizeGiB == 50

validateDiskSize(size, single) ==
  ByteToGi(size) >= IF single THEN SingleDiskMinSizeGiB ELSE MultipleDiskMinSizeGiB

validateDataDiskSize(size) == ByteToGi(size) >= HardMinDataDiskSizeGiB
=============================================================================
