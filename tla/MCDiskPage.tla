----------------------------- MODULE MCDiskPage -----------------------------
(***************************************************************************)
(* Instances of DiskPage for TLC, in whole mebibytes.                      *)
(***************************************************************************)
EXTENDS DiskPage

\* A disk too small for the data, one just large enough, one too large for MBR.
MCSizeOf == [d \in {"sda", "sdb", "sdc"} |->
                 IF d = "sda" THEN 49 * GiB ELSE IF d = "sdb" THEN 250 * GiB
                 ELSE 3000 * GiB]

MCDiskLists == {<<>>, <<"sda">>, <<"sdb">>, <<"sda", "sdb">>, <<"sda", "sdb", "sdc">>}

\* Blank, just large enough, too large for sdb.
TypedSizes == {NoSize, [n |-> 150, unit |-> "Gi"], [n |-> 200, unit |-> "Gi"]}
=============================================================================
