--------------------------- MODULE MCPartitionPlan ---------------------------
(***************************************************************************)
(* Real disk sizes in quarters of a mebibyte; the word is short enough for *)
(* TLC and still far larger than the disks. Around every limit there is    *)
(* one size below it, one at it and one just above it.                     *)
(***************************************************************************)
EXTENDS PartitionPlan

MCDiskSizes ==
  {60 * GiB, fixedOccupiedSize - 1, fixedOccupiedSize, 100 * GiB, MinDiskSize - 1,
   MinDiskSize, MinDiskSize + 3, 300 * GiB, 301 * GiB - 1, 2000 * GiB}

\* The last one is 2^30 / GiB + 160: the product overflows to 160Gi.
MCSizes ==
  {[n |-> k, unit |-> "Gi"] : k \in {0, 50, 149, 150, 160, 200, 227, 1999, 262304}}
    \cup {[n |-> k, unit |-> "Mi"] : k \in {0, 153599, 153600, 181134, 181135}}
    \cup {[n |-> 150, unit |-> "bad"]}
=============================================================================
