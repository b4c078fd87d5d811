---------------------------- MODULE MCDiskOptions ----------------------------
(* Two paths to one disk, two volumes of a RAID controller and a disk that *)
(* reports no identity.                                                    *)
EXTENDS DiskOptions

FiveNames == <<"sda", "sdb", "sdc", "sdd", "vda">>
Serials == [d \in Range(FiveNames) |->
              CASE d \in {"sda", "sdb"} -> "S1" [] d \in {"sdc", "sdd"} -> "S2" [] OTHER -> ""]
WWNs == [d \in Range(FiveNames) |->
           CASE d \in {"sda", "sdb"} -> "W1" [] d = "sdc" -> "W2" [] d = "sdd" -> "W3"
             [] OTHER -> ""]
=============================================================================
