---------------------------- MODULE PartitionPlan ----------------------------
(***************************************************************************)
(* The persistent partition of a disk that also holds the data, from the   *)
(* size that is typed on the disk page or given by the configuration file  *)
(* to the layout handed to elemental: the page parses the size against the *)
(* disk in bytes, validateConfig checks the disk again, and the installer  *)
(* computes the layout from the disk in whole gibibytes.                   *)
(***************************************************************************)
EXTENDS PartitionSize

CONSTANTS
  DiskSizes,   \* sizes a disk may have
  Sizes        \* what may be typed or configured as the persistent size

ASSUME DiskAssumption == DiskSizes \subseteq 0 .. (Word - 1)
ASSUME SizesAssumption == Sizes \subseteq [n : Nat, unit : {"Mi", "Gi", "bad"}]

VARIABLES
  disk,         \* size of the installation disk
  skipChecks,   \* harvester.install.skipchecks
  size,         \* Install.PersistentPartitionSize
  stage,        \* how far the installation is
  persistent,   \* the layout's COS_PERSISTENT, in MiB
  asked         \* history: the page asked for the size and took it

vars == <<disk, skipChecks, size, stage, persistent, asked>>

\* The size comes from the page, or from a configuration file, where it may be
\* missing.
Init ==
  /\ disk \in DiskSizes
  /\ skipChecks \in BOOLEAN
  /\ stage \in {"page", "configured"}
  /\ size \in IF stage = "page" THEN {NoSize} ELSE Sizes \cup {NoSize}
  /\ persistent = 0
  /\ asked = FALSE

\* A size that is refused leaves the page as it is, with an error message.
PersistentSizeConfirm(s) ==
  /\ stage = "page"
  /\ IF ParsePartitionSize(disk, s, skipChecks).ok
     THEN size' = s /\ stage' = "configured" /\ asked' = TRUE
     ELSE UNCHANGED <<size, stage, asked>>
  /\ UNCHANGED <<disk, skipChecks, persistent>>

CheckDevice ==
  /\ stage = "configured"
  /\ stage' = IF skipChecks \/ validateDiskSize(disk, TRUE) THEN "validated" ELSE "failed"
  /\ UNCHANGED <<disk, skipChecks, size, persistent, asked>>

LayoutSize == IF size = NoSize THEN DefaultSize ELSE size

CreateRootPartitioningLayoutSharedDataDisk ==
  /\ stage = "validated"
  /\ LET p == calcCosPersistentPartSize(ByteToGi(disk), LayoutSize, skipChecks)
     IN  /\ persistent' = p.mebibytes
         /\ stage' = IF p.ok THEN "planned" ELSE "failed"
  /\ UNCHANGED <<disk, skipChecks, size, asked>>

Ended == stage \in {"planned", "failed"} /\ UNCHANGED vars

Next ==
  \/ \E s \in Sizes : PersistentSizeConfirm(s)
  \/ CheckDevice
  \/ CreateRootPartitioningLayoutSharedDataDisk
  \/ Ended

Spec == Init /\ [][Next]_vars

-----------------------------------------------------------------------------
(* Properties *)

\* Type invariant: what was typed, the stage, and the computed layout.
TypeOK ==
  /\ disk \in DiskSizes
  /\ skipChecks \in BOOLEAN /\ asked \in BOOLEAN
  /\ size \in Sizes \cup {NoSize}
  /\ stage \in {"page", "configured", "validated", "planned", "failed"}
  /\ persistent \in Nat

Planned == stage = "planned"

\* The fixed partitions, 50Gi of VM data and the persistent partition fit the disk
\* together, although the layout is computed from the rounded disk size and no one
\* subtracts the partitions from the disk again (CreateRootPartitioningLayout...); and
\* the persistent partition has its minimum, also when the configuration file gave no
\* size or one that overflows.
SharedLayoutFits ==
  Planned /\ ~skipChecks => /\ persistent * MiB + fixedOccupiedSize <= disk
                            /\ persistent * MiB >= MinPersistentSize

\* The page compares a size with the disk in bytes, the installer with the disk in
\* whole GiB: a size that the page took stops the installation only if it needs a part
\* of the last GiB of the disk, and never with skipChecks.
RefusalIsRounding ==
  asked /\ stage = "failed" => /\ ~skipChecks
                               /\ parsePartitionBytes(size) + fixedOccupiedSize > disk - GiB

-----------------------------------------------------------------------------
(* Statements of the source that its code does not keep *)

\* "Partition size should be overwritten when too large" (the tests of
\* ParsePartitionSize with skipChecks): the planned partition fits the disk.
OverwrittenWhenTooLarge ==
  Planned => persistent * MiB <= disk

\* "Should fail when partition size is too small" (same tests, "0Gi" and "0Mi").
ZeroSizeFails == Planned => persistent # 0

\* "Make sure that the specified size meets the requirements." (the disk page): a
\* size that the page took does not stop the installation.
AskedSizeInstalls == asked => stage # "failed"
=============================================================================
