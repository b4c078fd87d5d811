----------------------------- MODULE DiskOptions -----------------------------
(***************************************************************************)
(* The cache of disk options (DiskOptionsCache of pkg/console/util.go) and *)
(* those who rely on it: the disk page, the validator and, with            *)
(* WipeAllDisks, the wiping of the disks of earlier installations.         *)
(*                                                                         *)
(* lsblk lists every path to a disk as a device of its own; the cache      *)
(* keeps one device for each serial number and each WWN. Devices come and  *)
(* go while the pages are shown. The cache is read again only when the     *)
(* page is shown and when the configuration is validated, and which path   *)
(* of a disk is kept depends on those present at that moment.              *)
(***************************************************************************)
EXTENDS Naturals, Sequences, SequencesExt

CONSTANTS
  Names,      \* the device names in alphabetical order
  SerialOf, WWNOf,  \* what lsblk reports of a device; blank if nothing
  Labelled    \* devices with a partition labelled COS_OEM, directly or below mpath

Devices == Range(Names)
None == ""

ASSUME NamesAssumption ==
  /\ Names \in Seq(Devices)
  /\ None \notin Devices /\ Labelled \subseteq Devices

\* What lsblk reports to tell disks apart.
Ids(d) == {SerialOf[d], WWNOf[d]} \ {None}
SameIds(d, e) == SerialOf[d] = SerialOf[e] /\ WWNOf[d] = WWNOf[e]

\* Devices that share an identifier are paths to one disk and report the same, but
\* for the volumes of a RAID controller, which share a serial number and have a WWN
\* each ("disks may have same serial number but different wwn when used with a raid
\* array"). No identifier is the name of a device.
ASSUME IdentityAssumption ==
  /\ \A d, e \in Devices :
       \/ Ids(d) \cap Ids(e) = {} \/ SameIds(d, e)
       \/ /\ SerialOf[d] = SerialOf[e]
          /\ {WWNOf[d], WWNOf[e]} \cap {None, SerialOf[d]} = {}
  /\ \A d, e \in Devices : d \notin Ids(e)

VARIABLES
  present,      \* the devices of the machine
  diskOptions, hvstInstalledDiskOptions,   \* of the cache
  cfg,          \* Device, DataDisk, WipeAllDisks
  step,         \* the page shown or the step of the installation
  wiped,        \* history: devices given to sgdisk -Z
  seen          \* history: the devices present when lsblk last ran

cacheVars == <<present, diskOptions, hvstInstalledDiskOptions, cfg, step, wiped, seen>>

Steps == {"pages", "disk", "diskFatal", "cleared", "wiping", "install", "refused", "exited"}
Over == {"install", "refused", "exited"}

-----------------------------------------------------------------------------
(* The cache *)

Put(map, key, d) == [k \in DOMAIN map \cup {key} |-> IF k = key THEN d ELSE map[k]]
Claim(map, key, d) == IF key = None \/ key \in DOMAIN map THEN map ELSE Put(map, key, d)

SerialOnly(map, d) ==
  IF SerialOf[d] = None THEN Put(map, d, d) ELSE Claim(map, SerialOf[d], d)

\* One step of the loop. Names, serial numbers and WWNs are keys of one map.
Dedup(map, d) ==
  IF SerialOf[d] = None /\ WWNOf[d] = None THEN Put(map, d, d)
  ELSE Claim(Claim(map, SerialOf[d], d), WWNOf[d], d)

\* dedupMap after each iteration.
dedupMap(list) ==
  LET map[i \in 0..Len(list)] == IF i = 0 THEN <<>> ELSE Dedup(map[i - 1], list[i])
  IN  map

filterUniqueDisks(list) == Range(dedupMap(list)[Len(list)])

deviceContainsCOSPartition(d) == d \in Labelled

\* lsblk's order is its own.
refresh ==
  /\ \E list \in SetToSeqs(present) : diskOptions' = filterUniqueDisks(list)
  /\ hvstInstalledDiskOptions' = {d \in diskOptions' : deviceContainsCOSPartition(d)}
  /\ seen' = present

First(options) == Names[CHOOSE i \in DOMAIN Names :
                          /\ Names[i] \in options
                          /\ \A j \in 1..(i - 1) : Names[j] \notin options]

\* No options when the installation disk is not among them.
getDataDiskOptions ==
  IF cfg.device \in diskOptions \cup {None} THEN diskOptions ELSE {}

getWipeDisksOptions(c) == hvstInstalledDiskOptions \ {c.device, c.dataDisk}

-----------------------------------------------------------------------------
\* A configuration file may name the disks.
CacheInit ==
  /\ present \in SUBSET Devices
  /\ diskOptions = {} /\ hvstInstalledDiskOptions = {}
  /\ cfg \in [device : Devices \cup {None}, dataDisk : Devices \cup {None},
              wipeAllDisks : BOOLEAN]
  /\ step = "pages" /\ wiped = {} /\ seen = {}

\* External: a device or a path to it appears or goes away.
Hotplug(d) ==
  /\ step \notin Over
  /\ present' = IF d \in present THEN present \ {d} ELSE present \cup {d}
  /\ UNCHANGED <<diskOptions, hvstInstalledDiskOptions, cfg, step, wiped, seen>>

presetConfigDisks ==
  LET device == IF cfg.device = None THEN First(diskOptions') ELSE cfg.device
  IN  [cfg EXCEPT !.device = device,
                  !.dataDisk = IF @ = None THEN device ELSE @]

\* An error of lsblk ends the program.
showDiskPage ==
  /\ step = "pages"
  /\ \/ /\ refresh
        /\ IF diskOptions' = {} THEN step' = "diskFatal" /\ UNCHANGED cfg
           ELSE step' = "disk" /\ cfg' = presetConfigDisks
     \/ step' = "exited" /\ UNCHANGED <<diskOptions, hvstInstalledDiskOptions, seen, cfg>>
  /\ UNCHANGED <<present, wiped>>

Choose(c) ==
  /\ step = "disk" /\ cfg' = c
  /\ UNCHANGED <<present, diskOptions, hvstInstalledDiskOptions, step, wiped, seen>>

DiskConfirm(d) == d \in diskOptions /\ Choose([cfg EXCEPT !.device = d])
DataDiskConfirm(d) == d \in getDataDiskOptions /\ Choose([cfg EXCEPT !.dataDisk = d])

\* To the page before, from the message that there is no disk too, or the pages
\* behind; their checks are in DiskPage.
LeaveDiskPage ==
  /\ step \in {"disk", "diskFatal"} /\ step' = "pages"
  /\ UNCHANGED <<present, diskOptions, hvstInstalledDiskOptions, cfg, wiped, seen>>

AnyDevice == TRUE
DeviceFound == cfg.device \in diskOptions'

\* "Check against the latest refreshed disk options cache". The device is named as
\* lsblk names it; InstallFlow has the other case.
checkDevice ==
  /\ step = "pages"
  /\ \/ /\ cfg.device \in present /\ refresh
        /\ step' = IF DeviceFound THEN "cleared" ELSE "refused"
     \/ step' = "refused" /\ UNCHANGED <<diskOptions, hvstInstalledDiskOptions, seen>>
  /\ UNCHANGED <<present, cfg, wiped>>

\* doInstall, up to the disks to wipe. The disks marked on the page are in DiskPage.
BeginWipe ==
  /\ step = "cleared"
  /\ step' = IF cfg.wipeAllDisks THEN "wiping" ELSE "install"
  /\ UNCHANGED <<present, diskOptions, hvstInstalledDiskOptions, cfg, wiped, seen>>

ToWipe == getWipeDisksOptions(cfg) \ wiped

\* sgdisk, then partprobe, in the order of the list; the first failure of either
\* ends the installation.
executeWipeDisks ==
  /\ step = "wiping"
  /\ \/ ToWipe = {} /\ step' = "install" /\ UNCHANGED wiped
     \/ /\ ToWipe # {} /\ First(ToWipe) \in present
        /\ wiped' = wiped \cup {First(ToWipe)}
        /\ step' \in {"wiping", "refused"}
     \/ ToWipe # {} /\ step' = "refused" /\ UNCHANGED wiped
  /\ UNCHANGED <<present, diskOptions, hvstInstalledDiskOptions, cfg, seen>>

CacheEnded == step \in Over /\ UNCHANGED cacheVars

CacheNext ==
  \/ \E d \in Devices : Hotplug(d) \/ DiskConfirm(d) \/ DataDiskConfirm(d)
  \/ showDiskPage \/ LeaveDiskPage \/ checkDevice \/ BeginWipe \/ executeWipeDisks
  \/ CacheEnded

CacheSpec == CacheInit /\ [][CacheNext]_cacheVars

-----------------------------------------------------------------------------
(* Properties *)

\* Type invariant of the cache and of those who use it. What is offered was there
\* when lsblk ran.
CacheTypeOK ==
  /\ present \subseteq Devices
  /\ diskOptions \subseteq seen /\ seen \subseteq Devices
  /\ hvstInstalledDiskOptions = diskOptions \cap Labelled
  /\ cfg \in [device : Devices \cup {None}, dataDisk : Devices \cup {None},
              wipeAllDisks : BOOLEAN]
  /\ step \in Steps
  /\ wiped \subseteq hvstInstalledDiskOptions

\* d and e are paths to one disk.
SameDisk(d, e) == d = e \/ (SameIds(d, e) /\ Ids(d) # {})

\* Every disk is offered under exactly one of its paths, in whatever order lsblk
\* lists them, also the volumes of a RAID controller, which share a serial number
\* (filterUniqueDisks).
OfferedOnce ==
  \A d \in seen : \E e \in diskOptions : \A o \in diskOptions : SameDisk(d, o) <=> o = e

\* The installation disk is not wiped under the name of another path, although
\* getWipeDisksOptions compares names only, paths come and go after the disk was
\* chosen, and the cache may have changed to another path since.
WipeSparesInstallPaths == \A d \in wiped : ~SameDisk(d, cfg.device)

-----------------------------------------------------------------------------
(* Statements of the source that its code does not keep *)

\* "filter disks to ignore disks which may be used as base install device or an
\* additional data disk" (getWipeDisksOptions): not a data disk that is named by
\* another path than the one the cache keeps now.
WipeSparesDataPaths == \A d \in wiped : cfg.dataDisk # None => ~SameDisk(d, cfg.dataDisk)
=============================================================================
