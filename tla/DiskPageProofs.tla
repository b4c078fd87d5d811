--------------------------- MODULE DiskPageProofs ---------------------------
(***************************************************************************)
(* What holds of the disk page for every machine and every size typed: the *)
(* disks it is left with are valid, are the ones on display and carry a    *)
(* partition table that fits, and no Enter is refused without a message.   *)
(*                                                                         *)
(* These do not depend on the list of disks to wipe. What the loop that    *)
(* computes it returns is shown by induction at the end, for the type      *)
(* invariant and for the marks on the list.                                *)
(***************************************************************************)
EXTENDS DiskPage, WellFoundedInduction, TLAPS

CfgFields == {"device", "dataDisk", "size", "wipe", "forceMBR"}
ValueFields == {"disk", "dataDisk", "forceMBR"}

\* The machine, the flags and the part of the configuration that is about disks.
Typed ==
  /\ panel \in Panels \cup Elsewhere
  /\ disks \in DiskLists /\ bios \in BOOLEAN /\ skipChecks \in BOOLEAN
  /\ DOMAIN cfg = CfgFields /\ DOMAIN value = ValueFields
  /\ cfg.device \in Range(disks) \cup {NoDisk}
  /\ cfg.dataDisk \in Range(disks) \cup {NoDisk}
  /\ cfg.forceMBR \in BOOLEAN
  /\ diskConfirmed \in BOOLEAN /\ error \in BOOLEAN

BehindDataDisk == {"persistentSize", "wipeDisks", "wipeSelect", "askForceMBR",
                   "next", "install"}

\* What drop-downs and configuration say of the same disk.
WidgetsInv ==
  /\ cfg.device = value.disk
  /\ panel \in BehindDataDisk /\ ~IsWitness /\ ManyDisks => cfg.dataDisk = value.dataDisk

\* What is chosen on the panels of the page, and which panels are in use.
ChosenInv ==
  /\ panel \in Panels \cup {"next", "install"}
       => cfg.device # NoDisk /\ (cfg.dataDisk = NoDisk => IsWitness)
  /\ panel = "dataDisk" => ~IsWitness /\ ManyDisks
  /\ panel = "persistentSize" => ~IsWitness /\ Shared(cfg)
  /\ panel = "askForceMBR" \/ cfg.forceMBR => bios

IInv ==
  /\ WidgetsInv /\ ChosenInv
  /\ LeavesWithValidDisks /\ MBRFitsDisk /\ NoSilentRefusal

-----------------------------------------------------------------------------
(* Lemmas on the operators of the page *)

\* A disk of 250 GiB or more has a size of at least 250 when rounded down to GiB.
LEMMA RoundedSize ==
  ASSUME NEW b \in Nat, b >= MinDiskSize
  PROVE  ByteToGi(b) >= SingleDiskMinSizeGiB
<1>1. GiB \in Nat \ {0}
  BY MiBAssumption DEF GiB
<1> DEFINE q == b \div GiB
<1>2. q \in Int /\ b < q * GiB + GiB
  BY <1>1, SMT
<1> HIDE DEF q
<1>3. q >= 250
  <2> SUFFICES ASSUME q <= 249 PROVE FALSE
    BY <1>2
  <2>1. (249 - q) * GiB >= 0
    BY <1>1, <1>2, SMT
  <2>2. (249 - q) * GiB = 249 * GiB - q * GiB
    BY <1>1, <1>2, SMT
  <2>3. q * GiB <= 249 * GiB
    BY <1>1, <1>2, <2>1, <2>2, SMT
  <2> QED
    BY <1>1, <1>2, <2>3, SMT DEF MinDiskSize
<1> QED
  BY <1>3 DEF q, ByteToGi, SingleDiskMinSizeGiB

LEMMA DisksOfMachine ==
  ASSUME Typed
  PROVE  /\ disks \in Seq(DiskSet)
         /\ \A d \in Range(disks) : d \in DiskSet /\ d # NoDisk /\ SizeOf[d] \in Nat
         /\ disks # <<>> => disks[1] \in Range(disks)
         /\ ~ManyDisks => \A d, e \in Range(disks) : d = e
<1>1. disks \in Seq(DiskSet)
  BY DisksAssumption DEF Typed
<1>2. \A d \in Range(disks) : d \in DiskSet
  BY <1>1 DEF Range
<1>3. \A d \in Range(disks) : d # NoDisk /\ SizeOf[d] \in Nat
  BY <1>2, DisksAssumption
<1>4. disks # <<>> => disks[1] \in Range(disks)
  BY <1>1 DEF Range
<1>5. ~ManyDisks => \A d, e \in Range(disks) : d = e
  BY <1>1 DEF ManyDisks, Range
<1> QED
  BY <1>1, <1>2, <1>3, <1>4, <1>5

\* The size typed for a disk that also holds the data is accepted only if the disk
\* passes the check of the disks, too (ParsePartitionSize has the same minimum).
LEMMA SizeImpliesDisks ==
  ASSUME NEW c, NEW s, ~IsWitness, Shared(c), SizeOf[c.device] \in Nat,
         validatePersistentPartitionSize(c, s)
  PROVE  validateAllDiskSizes(c)
<1>1. ParsePartitionSize(SizeOf[c.device], s, skipChecks).ok
  BY DEF validatePersistentPartitionSize
<1>2. skipChecks \/ ~(SizeOf[c.device] < MinDiskSize)
  BY <1>1 DEF ParsePartitionSize, Refused
<1>3. MinDiskSize \in Nat
  BY MiBAssumption DEF MinDiskSize, GiB
<1>4. skipChecks \/ SizeOf[c.device] >= MinDiskSize
  BY <1>2, <1>3
<1>5. skipChecks \/ ByteToGi(SizeOf[c.device]) >= SingleDiskMinSizeGiB
  BY <1>4, RoundedSize
<1> QED
  BY <1>5 DEF validateAllDiskSizes, validateDiskSize

\* The checks look at the two disks and the size; a witness has one disk.
LEMMA ChecksLookAt ==
  ASSUME NEW c, NEW e, c.device = e.device, c.size = e.size,
         c.dataDisk = e.dataDisk \/ IsWitness
  PROVE  /\ validateAllDiskSizes(c) <=> validateAllDiskSizes(e)
         /\ DiskSettingsValid(c) <=> DiskSettingsValid(e)
  BY DEF DiskSettingsValid, validateAllDiskSizes, validatePersistentPartitionSize, Shared

\* The same check after a step that leaves role and machine alone.
LEMMA ChecksAfter ==
  ASSUME UNCHANGED <<role, Machine>>
  PROVE  /\ validateAllDiskSizes(cfg)' <=> validateAllDiskSizes(cfg')
         /\ DiskSettingsValid(cfg)' <=> DiskSettingsValid(cfg')
         /\ validatePersistentPartitionSize(cfg, cfg.size)'
              <=> validatePersistentPartitionSize(cfg', cfg'.size)
  BY DEF DiskSettingsValid, validateAllDiskSizes, validatePersistentPartitionSize,
         Shared, Machine, IsWitness

-----------------------------------------------------------------------------
(* Showing a panel and leaving the page *)

\* What a handler must have seen to before it hands configuration c on.
Handed(c) ==
  /\ DOMAIN c = CfgFields /\ DOMAIN value' = ValueFields
  /\ c.device \in Range(disks) /\ c.dataDisk \in Range(disks) \cup {NoDisk}
  /\ c.forceMBR \in BOOLEAN /\ (c.forceMBR => bios)
  /\ c.dataDisk = NoDisk => IsWitness
  /\ c.device = value'.disk
  /\ ~IsWitness /\ ManyDisks => c.dataDisk = value'.dataDisk
  /\ panel = "persistentSize" => Shared(c)

LEMMA ShowsPanel ==
  ASSUME Typed, IInv, NEW c, Handed(c), NEW p \in {"wipeDisks", "askForceMBR", "persistentSize"},
         NEW b \in BOOLEAN, NEW m \in BOOLEAN,
         p = "askForceMBR" => bios,
         p = "persistentSize" => ~IsWitness /\ Shared(c),
         p # "persistentSize" /\ b /\ ~m => DiskSettingsValid(c),
         Show(p, c, b, m), UNCHANGED <<role, Machine>>
  PROVE  Typed' /\ IInv'
<1>1. panel' = p /\ cfg' = c /\ diskConfirmed' = b /\ error' = m
  BY DEF Show
<1>2. disks' = disks /\ bios' = bios /\ skipChecks' = skipChecks /\ role' = role
  BY DEF Machine
<1>3. c.device # NoDisk
  BY DisksOfMachine DEF Handed
<1>4. Typed'
  BY <1>1, <1>2 DEF Typed, Handed, Panels
<1>5. WidgetsInv'
  BY <1>1, <1>2 DEF WidgetsInv, Handed, IsWitness, ManyDisks
<1>6. ChosenInv'
  BY <1>1, <1>2, <1>3 DEF ChosenInv, Handed, IsWitness, ManyDisks, Shared
<1>7. ~Left'
  BY <1>1 DEF Left
<1>8. NoSilentRefusal'
  <2>1. DiskSettingsValid(cfg)' <=> DiskSettingsValid(c)
    BY <1>1, ChecksAfter
  <2> QED
    BY <1>1, <2>1 DEF NoSilentRefusal
<1> QED
  BY <1>4, <1>5, <1>6, <1>7, <1>8 DEF IInv, LeavesWithValidDisks, MBRFitsDisk

\* gotoNextPage, which every way out of the page ends with.
LEMMA LeavesPage ==
  ASSUME Typed, IInv, NEW c, Handed(c), NEW b \in BOOLEAN, NEW m \in BOOLEAN,
         panel \in Panels, panel = "disk" => IsWitness,
         c.forceMBR => ~diskExceedsMBRLimit(c.device),
         GotoNextPage(c, b, m), UNCHANGED <<role, Machine>>
  PROVE  Typed' /\ IInv'
<1> DEFINE e == SettleDataDisk(c)
<1>1. /\ DOMAIN e = CfgFields
      /\ e.device = c.device /\ e.size = c.size /\ e.forceMBR = c.forceMBR
      /\ IsWitness => e.dataDisk = NoDisk
      /\ ~IsWitness => e = c
  BY DEF SettleDataDisk, Handed, CfgFields
<1>2. disks' = disks /\ bios' = bios /\ skipChecks' = skipChecks /\ role' = role
  BY DEF Machine
<1>3. c.device # NoDisk
  BY DisksOfMachine DEF Handed
<1>4. Focused \in Panels \ {"wipeSelect"} /\ (Focused # "wipeDisks" => Focused = panel)
  BY DEF Focused, Panels
<1>5. DiskSettingsValid(c) <=> DiskSettingsValid(e)
  BY <1>1, ChecksLookAt
<1> HIDE DEF e
<1>6. /\ panel' \in {"next", Focused}
      /\ diskConfirmed' \in BOOLEAN /\ error' \in BOOLEAN
      /\ cfg' = c \/ cfg' = e
      /\ panel' = "next" => cfg' = e /\ DiskSettingsValid(e)
      /\ panel' # "next" => error' \/ DiskSettingsValid(cfg')
  BY <1>4, <1>5 DEF GotoNextPage, e, Panels
<1>7. Typed'
  BY <1>1, <1>2, <1>4, <1>6 DEF Typed, Handed, Elsewhere
<1>8. WidgetsInv'
  BY <1>1, <1>2, <1>6 DEF WidgetsInv, Handed, IsWitness, ManyDisks
<1>9. ChosenInv'
  <2>1. cfg'.device # NoDisk /\ (cfg'.dataDisk = NoDisk => IsWitness)
    BY <1>1, <1>3, <1>6 DEF Handed
  <2>2. panel' = "dataDisk" => ~IsWitness /\ ManyDisks
    BY <1>4, <1>6 DEF IInv, ChosenInv
  <2>3. panel' = "persistentSize" => ~IsWitness /\ Shared(cfg')
    BY <1>1, <1>4, <1>6 DEF IInv, ChosenInv, Handed
  <2>4. panel' = "askForceMBR" \/ cfg'.forceMBR => bios
    BY <1>1, <1>4, <1>6 DEF IInv, ChosenInv, Handed
  <2> QED
    BY <1>2, <2>1, <2>2, <2>3, <2>4 DEF ChosenInv, IsWitness, ManyDisks, Shared
<1>10. Left' => panel' = "next"
  BY <1>4, <1>6 DEF Left, Panels
<1>11. LeavesWithValidDisks'
  <2> SUFFICES ASSUME panel' = "next" PROVE LeavesWithValidDisks'
    BY <1>10 DEF LeavesWithValidDisks
  <2>1. cfg' = e /\ DiskSettingsValid(cfg')
    BY <1>6
  <2>2. validateAllDiskSizes(cfg)'
    BY <2>1, ChecksAfter DEF DiskSettingsValid
  <2>3. ~IsWitness => validatePersistentPartitionSize(cfg, cfg.size)'
    BY <2>1, ChecksAfter DEF DiskSettingsValid
  <2>4. IsWitness <=> cfg'.dataDisk = NoDisk
    BY <1>1, <2>1 DEF Handed
  <2> QED
    BY <1>1, <1>2, <1>3, <2>1, <2>2, <2>3, <2>4 DEF LeavesWithValidDisks, IsWitness
<1>12. MBRFitsDisk'
  BY <1>1, <1>2, <1>6, <1>10 DEF MBRFitsDisk, Handed, diskExceedsMBRLimit
<1>13. NoSilentRefusal'
  BY <1>6, ChecksAfter DEF NoSilentRefusal
<1> QED
  BY <1>7, <1>8, <1>9, <1>11, <1>12, <1>13 DEF IInv

LEMMA AsksOrLeaves ==
  ASSUME Typed, IInv, NEW c, Handed(c), NEW b \in BOOLEAN, NEW m \in BOOLEAN,
         panel \in Panels, panel = "disk" => IsWitness,
         b /\ ~m => DiskSettingsValid(c),
         AskForceMBROrNext(c, b, m), UNCHANGED <<role, Machine>>
  PROVE  Typed' /\ IInv'
<1>1. CASE bios
  BY <1>1, ShowsPanel DEF AskForceMBROrNext
<1>2. CASE ~bios
  <2>1. ~c.forceMBR
    BY <1>2 DEF Handed
  <2> QED
    BY <1>2, <2>1, LeavesPage DEF AskForceMBROrNext
<1> QED
  BY <1>1, <1>2

LEMMA WipesOrLeaves ==
  ASSUME Typed, IInv, NEW c, Handed(c), NEW b \in BOOLEAN, NEW m \in BOOLEAN,
         panel \in Panels, panel = "disk" => IsWitness,
         b /\ ~m => DiskSettingsValid(c),
         WipeDisksOrNext(c, b, m), UNCHANGED <<role, Machine>>
  PROVE  Typed' /\ IInv'
<1> DEFINE e == [c EXCEPT !.wipe = {}]
<1>1. CASE getWipeDisksOptions(c) = <<>>
  BY <1>1, AsksOrLeaves DEF WipeDisksOrNext
<1>2. CASE getWipeDisksOptions(c) # <<>>
  <2>1. /\ DOMAIN e = CfgFields /\ e.device = c.device /\ e.dataDisk = c.dataDisk
        /\ e.size = c.size /\ e.forceMBR = c.forceMBR
    BY DEF Handed, CfgFields
  <2> HIDE DEF e
  <2>2. Handed(e)
    BY <2>1 DEF Handed, Shared
  <2>3. DiskSettingsValid(e) <=> DiskSettingsValid(c)
    BY <2>1, ChecksLookAt
  <2>4. Show("wipeDisks", c, b, m) \/ Show("wipeDisks", e, b, m)
    BY <1>2 DEF WipeDisksOrNext, e
  <2>5. CASE Show("wipeDisks", c, b, m)
    BY <2>5, ShowsPanel
  <2>6. CASE Show("wipeDisks", e, b, m)
    BY <2>2, <2>3, <2>6, ShowsPanel
  <2> QED
    BY <2>4, <2>5, <2>6
<1> QED
  BY <1>1, <1>2

-----------------------------------------------------------------------------
(* The handlers *)

LEMMA InitInv == Init => Typed /\ IInv
<1> SUFFICES ASSUME Init PROVE Typed /\ IInv
  OBVIOUS
<1>1. Typed
  BY DEF Init, Typed, Elsewhere, CfgFields, ValueFields
<1>2. IInv
  BY DEF Init, IInv, WidgetsInv, ChosenInv, BehindDataDisk, Panels, Left,
         LeavesWithValidDisks, MBRFitsDisk, NoSilentRefusal
<1> QED
  BY <1>1, <1>2

\* presetConfigDisks keeps what was chosen before.
LEMMA StepEnterPage ==
  ASSUME Typed, IInv, NEW r, showDiskPage(r)
  PROVE  Typed' /\ IInv'
<1>1. disks' = disks /\ bios' = bios /\ skipChecks' = skipChecks /\ error' = error
  BY DEF showDiskPage, Machine
<1>2. diskConfirmed' = FALSE /\ panel' \in {"disk", "diskFatal"}
  BY DEF showDiskPage
<1>3. cfg.device \in Range(disks) \cup {NoDisk} /\ cfg.dataDisk \in Range(disks) \cup {NoDisk}
  BY DEF Typed
<1>4. /\ DOMAIN cfg' = CfgFields /\ DOMAIN value' = ValueFields
      /\ cfg'.device \in Range(disks) \cup {NoDisk}
      /\ cfg'.dataDisk \in Range(disks) \cup {NoDisk}
      /\ cfg'.forceMBR = cfg.forceMBR
      /\ cfg'.device = value'.disk
      /\ panel' = "disk" => cfg'.device # NoDisk /\ cfg'.dataDisk # NoDisk
  <2>1. CASE disks = <<>>
    BY <2>1, <1>3 DEF showDiskPage, Typed, IInv, WidgetsInv
  <2>2. CASE disks # <<>>
    <3> DEFINE d == IF cfg.device = NoDisk THEN disks[1] ELSE cfg.device
    <3>1. d \in Range(disks) /\ d # NoDisk
      BY <1>3, <2>2, DisksOfMachine
    <3>2. d = Default(value.disk, disks[1])
      BY DEF Default, IInv, WidgetsInv
    <3>3. cfg' = [cfg EXCEPT !.device = d, !.dataDisk = IF @ = NoDisk THEN d ELSE @]
      BY <2>2 DEF showDiskPage, presetConfigDisks
    <3>4. DOMAIN value' = ValueFields /\ value'.disk = Default(value.disk, disks[1])
      BY <2>2 DEF showDiskPage, ValueFields
    <3> HIDE DEF d
    <3>5. /\ DOMAIN cfg' = CfgFields /\ cfg'.device = d /\ cfg'.forceMBR = cfg.forceMBR
          /\ cfg'.dataDisk = IF cfg.dataDisk = NoDisk THEN d ELSE cfg.dataDisk
      BY <3>3 DEF Typed, CfgFields
    <3> QED
      BY <1>3, <3>1, <3>2, <3>4, <3>5
  <2> QED
    BY <2>1, <2>2
<1>5. Typed'
  BY <1>1, <1>2, <1>4 DEF Typed, Panels, Elsewhere
<1>6. WidgetsInv' /\ ChosenInv'
  BY <1>1, <1>2, <1>4 DEF IInv, WidgetsInv, ChosenInv, BehindDataDisk, Panels
<1>7. LeavesWithValidDisks' /\ MBRFitsDisk' /\ NoSilentRefusal'
  BY <1>2 DEF LeavesWithValidDisks, MBRFitsDisk, NoSilentRefusal, Left
<1> QED
  BY <1>5, <1>6, <1>7 DEF IInv

LEMMA StepDisk ==
  ASSUME Typed, IInv, NEW d \in Range(disks), DiskConfirm(d)
  PROVE  Typed' /\ IInv'
<1> DEFINE c == [cfg EXCEPT !.device = d]
<1>1. panel = "disk" /\ value' = [value EXCEPT !.disk = d] /\ UNCHANGED <<role, Machine>>
  BY DEF DiskConfirm
<1>2. /\ DOMAIN c = CfgFields /\ c.device = d /\ c.dataDisk = cfg.dataDisk
      /\ c.forceMBR = cfg.forceMBR
  BY DEF Typed, CfgFields
<1>3. /\ DOMAIN value' = ValueFields /\ value'.disk = d
      /\ value'.dataDisk = value.dataDisk
  BY <1>1 DEF Typed, ValueFields
<1>4. cfg.dataDisk = NoDisk => IsWitness
  BY <1>1 DEF IInv, ChosenInv, Panels
<1>5. SizeMessage(c) \in BOOLEAN /\ (~SizeMessage(c) <=> validateAllDiskSizes(c))
  BY Zenon DEF SizeMessage
<1>6. IsWitness \/ ~ManyDisks => Handed(c)
  BY <1>1, <1>2, <1>3, <1>4 DEF Handed, Typed, IInv, ChosenInv
<1>7. CASE IsWitness
  <2> DEFINE b == IF ManyDisks THEN diskConfirmed ELSE ~SizeMessage(c)
  <2>1. b \in BOOLEAN
    BY <1>5 DEF Typed
  <2>2. WipeDisksOrNext(c, b, SizeMessage(c))
    BY <1>7 DEF DiskConfirm
  <2>3. b /\ ~SizeMessage(c) => DiskSettingsValid(c)
    BY <1>5, <1>7 DEF DiskSettingsValid
  <2> HIDE DEF b, c
  <2> QED
    BY <1>1, <1>5, <1>6, <1>7, <2>1, <2>2, <2>3, WipesOrLeaves DEF Panels
<1>8. CASE ~IsWitness /\ ManyDisks
  <2>1. /\ panel' = "dataDisk" /\ cfg' = c /\ diskConfirmed' = diskConfirmed
        /\ error' = SizeMessage(c)
    BY <1>8 DEF DiskConfirm, Show
  <2>2. disks' = disks /\ bios' = bios /\ skipChecks' = skipChecks /\ role' = role
    BY <1>1 DEF Machine
  <2>3. d # NoDisk
    BY DisksOfMachine
  <2> HIDE DEF c
  <2>4. Typed'
    BY <1>2, <1>3, <1>5, <2>1, <2>2 DEF Typed, Panels
  <2>5. WidgetsInv' /\ ChosenInv'
    BY <1>2, <1>3, <1>4, <1>8, <2>1, <2>2, <2>3
       DEF IInv, WidgetsInv, ChosenInv, BehindDataDisk, IsWitness, ManyDisks
  <2>6. LeavesWithValidDisks' /\ MBRFitsDisk' /\ NoSilentRefusal'
    BY <2>1 DEF LeavesWithValidDisks, MBRFitsDisk, NoSilentRefusal, Left
  <2> QED
    BY <2>4, <2>5, <2>6 DEF IInv
<1>9. CASE ~IsWitness /\ ~ManyDisks
  <2>1. Show("persistentSize", c, diskConfirmed, SizeMessage(c))
    BY <1>9 DEF DiskConfirm
  <2>2. Shared(c)
    BY <1>2, <1>9, DisksOfMachine DEF Shared, Typed
  <2> HIDE DEF c
  <2> QED
    BY <1>1, <1>5, <1>6, <1>9, <2>1, <2>2, ShowsPanel DEF Typed
<1> QED
  BY <1>7, <1>8, <1>9

LEMMA StepDataDisk ==
  ASSUME Typed, IInv, NEW d \in Range(disks), DataDiskConfirm(d)
  PROVE  Typed' /\ IInv'
<1> DEFINE c == [cfg EXCEPT !.dataDisk = d]
<1>1. /\ panel = "dataDisk" /\ value' = [value EXCEPT !.dataDisk = d]
      /\ UNCHANGED <<role, Machine>>
  BY DEF DataDiskConfirm
<1>2. /\ DOMAIN c = CfgFields /\ c.device = cfg.device /\ c.dataDisk = d
      /\ c.forceMBR = cfg.forceMBR
  BY DEF Typed, CfgFields
<1>3. /\ DOMAIN value' = ValueFields /\ value'.disk = value.disk
      /\ value'.dataDisk = d
  BY <1>1 DEF Typed, ValueFields
<1>4. cfg.device # NoDisk /\ ~IsWitness /\ d # NoDisk /\ cfg.device = value.disk
  BY <1>1, DisksOfMachine DEF IInv, ChosenInv, WidgetsInv, Panels
<1>5. SizeMessage(c) \in BOOLEAN /\ (~SizeMessage(c) <=> validateAllDiskSizes(c))
  BY Zenon DEF SizeMessage
<1>6. Handed(c)
  BY <1>1, <1>2, <1>3, <1>4 DEF Handed, Typed, IInv, ChosenInv
<1>7. CASE value.disk = d
  <2>1. Show("persistentSize", c, diskConfirmed, SizeMessage(c))
    BY <1>7 DEF DataDiskConfirm, WithDataDisk
  <2>2. Shared(c)
    BY <1>2, <1>4, <1>7 DEF Shared
  <2> HIDE DEF c
  <2> QED
    BY <1>1, <1>4, <1>5, <1>6, <2>1, <2>2, ShowsPanel DEF Typed
<1>8. CASE value.disk # d
  <2>1. WipeDisksOrNext(c, TRUE, SizeMessage(c))
    BY <1>8 DEF DataDiskConfirm, WithDataDisk
  <2>2. ~Shared(c)
    BY <1>2, <1>4, <1>8 DEF Shared
  <2>3. ~SizeMessage(c) => DiskSettingsValid(c)
    BY <1>5, <2>2 DEF DiskSettingsValid, validatePersistentPartitionSize
  <2> HIDE DEF c
  <2> QED
    BY <1>1, <1>5, <1>6, <2>1, <2>3, WipesOrLeaves DEF Panels
<1> QED
  BY <1>7, <1>8

LEMMA StepPersistentSize ==
  ASSUME Typed, IInv, NEW s, PersistentSizeConfirm(s)
  PROVE  Typed' /\ IInv'
<1> DEFINE c == [cfg EXCEPT !.size = s]
<1>1. panel = "persistentSize" /\ value' = value /\ UNCHANGED <<role, Machine>>
  BY DEF PersistentSizeConfirm
<1>2. /\ DOMAIN c = CfgFields /\ c.device = cfg.device /\ c.dataDisk = cfg.dataDisk
      /\ c.forceMBR = cfg.forceMBR /\ c.size = s
  BY DEF Typed, CfgFields
<1>3. /\ ~IsWitness /\ Shared(cfg) /\ cfg.device # NoDisk /\ cfg.dataDisk # NoDisk
      /\ ManyDisks => cfg.dataDisk = value.dataDisk
  BY <1>1 DEF IInv, ChosenInv, WidgetsInv, BehindDataDisk, Panels
<1>4. SizeOf[cfg.device] \in Nat
  BY <1>3, DisksOfMachine DEF Typed
<1>5. Handed(cfg)
  BY <1>1, <1>3 DEF Handed, Typed, IInv, ChosenInv, WidgetsInv
<1>6. Handed(c)
  BY <1>2, <1>5 DEF Handed, Shared
<1>7. CASE validatePersistentPartitionSize(cfg, s)
  <2>1. validatePersistentPartitionSize(c, c.size)
    BY <1>2, <1>7 DEF validatePersistentPartitionSize, Shared
  <2>2. validateAllDiskSizes(c)
    BY <1>2, <1>3, <1>4, <2>1, SizeImpliesDisks DEF Shared
  <2>3. DiskSettingsValid(c)
    BY <2>1, <2>2 DEF DiskSettingsValid
  <2>4. WipeDisksOrNext(c, TRUE, FALSE)
    BY <1>7 DEF PersistentSizeConfirm
  <2> HIDE DEF c
  <2> QED
    BY <1>1, <1>6, <2>3, <2>4, WipesOrLeaves DEF Panels
<1>8. CASE ~validatePersistentPartitionSize(cfg, s)
  <2>1. Show("persistentSize", cfg, diskConfirmed, TRUE)
    BY <1>1, <1>8 DEF PersistentSizeConfirm
  <2> QED
    BY <1>1, <1>3, <1>5, <2>1, ShowsPanel DEF Typed
<1> QED
  BY <1>7, <1>8

LEMMA StepMBR ==
  ASSUME Typed, IInv, NEW v \in {"no", "yes"}, MBRConfirm(v)
  PROVE  Typed' /\ IInv'
<1> DEFINE c == [cfg EXCEPT !.forceMBR = (v = "yes")]
<1>1. /\ panel = "askForceMBR" /\ value' = [value EXCEPT !.forceMBR = v]
      /\ UNCHANGED <<role, Machine>>
  BY DEF MBRConfirm
<1>2. /\ DOMAIN c = CfgFields /\ c.device = cfg.device /\ c.dataDisk = cfg.dataDisk
      /\ c.forceMBR = (v = "yes") /\ c.size = cfg.size
  BY DEF Typed, CfgFields
<1>3. /\ DOMAIN value' = ValueFields /\ value'.disk = value.disk
      /\ value'.dataDisk = value.dataDisk
  BY <1>1 DEF Typed, ValueFields
<1>4. /\ cfg.device # NoDisk /\ (cfg.dataDisk = NoDisk => IsWitness) /\ bios
      /\ cfg.device = value.disk
      /\ ~IsWitness /\ ManyDisks => cfg.dataDisk = value.dataDisk
  BY <1>1 DEF IInv, ChosenInv, WidgetsInv, BehindDataDisk, Panels
<1>5. Handed(cfg)
  BY <1>1, <1>3, <1>4 DEF Handed, Typed
<1>6. Handed(c)
  BY <1>1, <1>2, <1>4, <1>5 DEF Handed
<1>7. /\ diskConfirmed \in BOOLEAN /\ error \in BOOLEAN
      /\ diskConfirmed /\ ~error => DiskSettingsValid(cfg)
  BY <1>1 DEF Typed, IInv, NoSilentRefusal
<1>8. DiskSettingsValid(c) <=> DiskSettingsValid(cfg)
  BY <1>2, ChecksLookAt
<1>9. CASE MBRRefused(v)
  <2>1. Show("askForceMBR", cfg, diskConfirmed, TRUE)
    BY <1>1, <1>9 DEF MBRConfirm
  <2> QED
    BY <1>1, <1>4, <1>5, <1>7, <2>1, ShowsPanel
<1>10. CASE ~MBRRefused(v) /\ cfg.forceMBR # (v = "yes")
  <2>1. Show("askForceMBR", c, diskConfirmed, error)
    BY <1>1, <1>10 DEF MBRConfirm
  <2> HIDE DEF c
  <2> QED
    BY <1>1, <1>4, <1>6, <1>7, <1>8, <2>1, ShowsPanel
<1>11. CASE ~MBRRefused(v) /\ cfg.forceMBR = (v = "yes")
  <2>1. GotoNextPage(cfg, diskConfirmed, error)
    BY <1>11 DEF MBRConfirm
  <2>2. cfg.forceMBR => ~diskExceedsMBRLimit(cfg.device)
    BY <1>11 DEF MBRRefused
  <2> QED
    BY <1>1, <1>5, <1>7, <2>1, <2>2, LeavesPage DEF Panels
<1> QED
  BY <1>9, <1>10, <1>11

LEMMA StepWipe ==
  ASSUME Typed, IInv, WipeDisksConfirm
  PROVE  Typed' /\ IInv'
<1> DEFINE c == [cfg EXCEPT !.wipe = values]
<1>1. panel \in {"wipeDisks", "wipeSelect"} /\ value' = value /\ UNCHANGED <<role, Machine>>
  BY DEF WipeDisksConfirm
<1>2. /\ DOMAIN c = CfgFields /\ c.device = cfg.device /\ c.dataDisk = cfg.dataDisk
      /\ c.forceMBR = cfg.forceMBR /\ c.size = cfg.size
  BY DEF Typed, CfgFields
<1>3. /\ cfg.device # NoDisk /\ (cfg.dataDisk = NoDisk => IsWitness)
      /\ ~IsWitness /\ ManyDisks => cfg.dataDisk = value.dataDisk
  BY <1>1 DEF IInv, ChosenInv, WidgetsInv, BehindDataDisk, Panels
<1>4. Handed(c)
  BY <1>1, <1>2, <1>3 DEF Handed, Typed, IInv, ChosenInv, WidgetsInv
<1>5. /\ diskConfirmed \in BOOLEAN /\ error \in BOOLEAN
      /\ diskConfirmed /\ ~error => DiskSettingsValid(c)
  <2>1. DiskSettingsValid(c) <=> DiskSettingsValid(cfg)
    BY <1>2, ChecksLookAt
  <2> QED
    BY <1>1, <2>1 DEF Typed, IInv, NoSilentRefusal
<1>6. AskForceMBROrNext(c, diskConfirmed, error)
  BY DEF WipeDisksConfirm
<1> HIDE DEF c
<1> QED
  BY <1>1, <1>4, <1>5, <1>6, AsksOrLeaves DEF Panels

\* Steps that move the focus or mark a line, and leave the choices alone.
LEMMA StepFocus ==
  ASSUME Typed, IInv,
         \/ Esc \/ ClearMessage \/ Up \/ UpPastDataDisk \/ Install \/ Ended
         \/ WipeSelectShow \/ WipeSelectEsc \/ \E i \in DOMAIN disks : WipeSelectSpace(i)
  PROVE  Typed' /\ IInv'
<1>1. UNCHANGED <<role, Machine, cfg, value>>
  BY DEF Esc, ClearMessage, Up, UpPastDataDisk, Install, Ended, WipeSelectShow,
         WipeSelectEsc, WipeSelectSpace, vars, Machine
<1>2. /\ disks' = disks /\ bios' = bios /\ skipChecks' = skipChecks /\ role' = role
      /\ cfg' = cfg /\ value' = value
  BY <1>1 DEF Machine
<1>3. /\ DiskSettingsValid(cfg)' <=> DiskSettingsValid(cfg)
      /\ validateAllDiskSizes(cfg)' <=> validateAllDiskSizes(cfg)
      /\ validatePersistentPartitionSize(cfg, cfg.size)'
           <=> validatePersistentPartitionSize(cfg, cfg.size)
  BY <1>2, <1>1, ChecksAfter
<1>4. /\ panel' \in Panels \cup Elsewhere
      /\ diskConfirmed' \in BOOLEAN /\ error' \in BOOLEAN
      /\ Left' => Left
      /\ panel' \in Panels => panel \in Panels
      /\ panel' \in {"wipeDisks", "wipeSelect", "askForceMBR"}
           => /\ panel \in {"wipeDisks", "wipeSelect", "askForceMBR"}
              /\ panel' = "askForceMBR" => panel = "askForceMBR"
              /\ diskConfirmed' = diskConfirmed /\ error' = error
  BY DEF Typed, Panels, Elsewhere, Left, Esc, ClearMessage, Up, UpPastDataDisk, Install,
         Ended, WipeSelectShow, WipeSelectEsc, WipeSelectSpace, vars
<1>5. /\ panel' = "dataDisk" => ~IsWitness /\ ManyDisks
      /\ panel' = "persistentSize" => ~IsWitness /\ Shared(cfg)
      /\ panel' = "persistentSize" /\ ManyDisks => cfg.dataDisk = value.dataDisk
  <2>1. CASE UpPastDataDisk
    <3>1. /\ cfg.device = value.disk
          /\ ~IsWitness /\ ManyDisks => cfg.dataDisk = value.dataDisk
          /\ cfg.device # NoDisk /\ (cfg.dataDisk = NoDisk => IsWitness)
      BY <2>1 DEF UpPastDataDisk, IInv, WidgetsInv, ChosenInv, BehindDataDisk, Panels
    <3>2. ~ManyDisks => Shared(cfg)
      BY <3>1, DisksOfMachine DEF Typed, Shared
    <3>3. ManyDisks /\ ~IsWitness /\ value.disk = value.dataDisk => Shared(cfg)
      BY <3>1 DEF Shared
    <3> QED
      BY <2>1, <3>1, <3>2, <3>3 DEF UpPastDataDisk
  <2>2. CASE Up
    BY <2>2 DEF Up, IInv, ChosenInv
  <2>3. CASE ~UpPastDataDisk /\ ~Up
    BY <2>3 DEF Esc, ClearMessage, Install, Ended, WipeSelectShow, WipeSelectEsc,
                WipeSelectSpace, vars, IInv, ChosenInv, WidgetsInv, BehindDataDisk
  <2> QED
    BY <2>1, <2>2, <2>3
<1>6. Typed'
  BY <1>2, <1>4 DEF Typed
<1>7. WidgetsInv'
  BY <1>2, <1>4, <1>5 DEF IInv, WidgetsInv, BehindDataDisk, Left, IsWitness, ManyDisks
<1>8. ChosenInv'
  BY <1>2, <1>4, <1>5 DEF IInv, ChosenInv, Left, IsWitness, ManyDisks, Shared, Panels
<1>9. LeavesWithValidDisks' /\ MBRFitsDisk'
  BY <1>2, <1>3, <1>4 DEF IInv, LeavesWithValidDisks, MBRFitsDisk, IsWitness,
                          diskExceedsMBRLimit
<1>10. NoSilentRefusal'
  <2> SUFFICES ASSUME panel' \in {"wipeDisks", "wipeSelect", "askForceMBR"},
                      diskConfirmed', ~error'
               PROVE  DiskSettingsValid(cfg)'
    BY DEF NoSilentRefusal
  <2>1. panel \in {"wipeDisks", "wipeSelect", "askForceMBR"} /\ diskConfirmed /\ ~error
    <3>1. /\ panel \in {"wipeDisks", "wipeSelect", "askForceMBR"}
          /\ diskConfirmed' = diskConfirmed /\ error' = error
      BY <1>4
    <3> QED
      BY <3>1, Zenon
  <2>2. DiskSettingsValid(cfg)
    BY <2>1 DEF IInv, NoSilentRefusal
  <2> QED
    BY <1>3, <2>2
<1> QED
  BY <1>6, <1>7, <1>8, <1>9, <1>10 DEF IInv

-----------------------------------------------------------------------------
(* Theorems *)

LEMMA StepInv == Typed /\ IInv /\ [Next]_vars => Typed' /\ IInv'
<1> SUFFICES ASSUME Typed, IInv, [Next]_vars PROVE Typed' /\ IInv'
  OBVIOUS
<1>1. CASE UNCHANGED vars
  <2>1. UNCHANGED <<role, Machine, cfg>>
    BY <1>1 DEF vars, Machine
  <2>2. /\ DiskSettingsValid(cfg)' <=> DiskSettingsValid(cfg)
        /\ validateAllDiskSizes(cfg)' <=> validateAllDiskSizes(cfg)
        /\ validatePersistentPartitionSize(cfg, cfg.size)'
             <=> validatePersistentPartitionSize(cfg, cfg.size)
    BY <2>1, ChecksAfter
  <2>3. Typed' /\ WidgetsInv' /\ ChosenInv'
    BY <1>1 DEF vars, Typed, IInv, WidgetsInv, ChosenInv, IsWitness, ManyDisks, Shared
  <2>4. LeavesWithValidDisks' /\ MBRFitsDisk'
    BY <1>1, <2>2 DEF vars, IInv, LeavesWithValidDisks, MBRFitsDisk, Left, IsWitness,
                      diskExceedsMBRLimit
  <2>5. NoSilentRefusal'
    BY <1>1, <2>2 DEF vars, IInv, NoSilentRefusal, Typed
  <2> QED
    BY <2>3, <2>4, <2>5 DEF IInv
<1>2. CASE Return \/ \E r \in {"default", "witness"} : Enter(r)
  BY <1>2, StepEnterPage DEF Return, Enter
<1>3. CASE \E d \in Range(disks) : DiskConfirm(d) \/ DataDiskConfirm(d)
  BY <1>3, StepDisk, StepDataDisk
<1>4. CASE \E s \in Sizes : PersistentSizeConfirm(s)
  BY <1>4, StepPersistentSize
<1>5. CASE \E v \in {"no", "yes"} : MBRConfirm(v)
  BY <1>5, StepMBR
<1>6. CASE WipeDisksConfirm
  BY <1>6, StepWipe
<1>7. CASE \/ Esc \/ ClearMessage \/ Up \/ UpPastDataDisk \/ Install \/ Ended
           \/ WipeSelectShow \/ WipeSelectEsc \/ \E i \in DOMAIN disks : WipeSelectSpace(i)
  BY <1>7, StepFocus
<1> QED
  BY <1>1, <1>2, <1>3, <1>4, <1>5, <1>6, <1>7 DEF Next

LEMMA DiskPageInvariant == Spec => [](Typed /\ IInv)
  BY InitInv, StepInv, PTL DEF Spec

\* Whatever was typed for another disk or another role before, the page is left
\* forward only with disks and a persistent size that pass every check for the
\* disks and the role of now (gotoNextPage).
THEOREM LeftDisksAreValid == Spec => []LeavesWithValidDisks
<1>1. Typed /\ IInv => LeavesWithValidDisks
  BY DEF IInv
<1> QED
  BY <1>1, DiskPageInvariant, PTL

\* MBR is never installed on a UEFI machine or on a disk beyond its limit, although
\* the answer outlives the disk it was given for (mbrConfirm).
THEOREM MBRAlwaysFits == Spec => []MBRFitsDisk
<1>1. Typed /\ IInv => MBRFitsDisk
  BY DEF IInv
<1> QED
  BY <1>1, DiskPageInvariant, PTL

\* The disks that will be formatted are those the drop-downs show, although widgets
\* and configuration are written by different handlers.
THEOREM ShownDisksAreFormatted == Spec => []FormatsWhatIsShown
<1>1. Typed /\ IInv => FormatsWhatIsShown
  BY DEF IInv, WidgetsInv, FormatsWhatIsShown, Left, BehindDataDisk
<1> QED
  BY <1>1, DiskPageInvariant, PTL

\* Behind the data disk and size panels an Enter is refused only with a message on
\* display, although three handlers set diskConfirmed after checks of their own.
THEOREM RefusalsAreShown == Spec => []NoSilentRefusal
<1>1. Typed /\ IInv => NoSilentRefusal
  BY DEF IInv
<1> QED
  BY <1>1, DiskPageInvariant, PTL

-----------------------------------------------------------------------------
(* The loop of getWipeDisksOptions *)

LEMMA LeastElement ==
  ASSUME NEW T, T \subseteq Nat, T # {}
  PROVE  \E m \in T : \A k \in T : m <= k
<1> DEFINE R == OpToRel(<, Nat)
<1>1. IsWellFoundedOn(R, Nat)
  BY NatLessThanWellFounded
<1>2. \A x, y \in Nat : x < y => <<x, y>> \in R
  BY DEF OpToRel
<1> HIDE DEF R
<1>3. PICK m \in T : \A k \in T : ~ (<<k, m>> \in R)
  BY <1>1, WFMin, Zenon
<1>4. \A k \in T : ~(k < m)
  BY <1>2, <1>3
<1> QED
  BY <1>4

\* f holds the options for configuration c after each of the first n iterations.
IsFilter(f, c, n) ==
  f = [i \in 0..n |-> IF i = 0 THEN <<>> ELSE Offer(c, f[i - 1], disks[i])]

\* The recursion has a solution, for any number of disks.
LEMMA FilterExists ==
  ASSUME NEW c, NEW n \in Nat
  PROVE  \E f : IsFilter(f, c, n)
<1> DEFINE T == {m \in Nat : ~ \E f : IsFilter(f, c, m)}
<1> SUFFICES ASSUME T # {} PROVE FALSE
  OBVIOUS
<1>1. PICK m \in T : \A k \in T : m <= k
  BY LeastElement
<1>2. m # 0
  <2> DEFINE f == [i \in 0..0 |-> <<>>]
  <2>1. IsFilter(f, c, 0)
    BY DEF IsFilter
  <2> QED
    BY <2>1, <1>1
<1>3. m \in Nat /\ m - 1 \in Nat /\ m - 1 \notin T
  BY <1>1, <1>2
<1>4. PICK f : IsFilter(f, c, m - 1)
  BY <1>3
<1> DEFINE g == [i \in 0..m |-> IF i = m THEN Offer(c, f[m - 1], disks[m]) ELSE f[i]]
           h == [i \in 0..m |-> IF i = 0 THEN <<>> ELSE Offer(c, g[i - 1], disks[i])]
<1>5. ASSUME NEW i \in 0..m PROVE g[i] = h[i]
  <2>1. CASE i = m
    <3>1. g[m - 1] = f[m - 1] /\ m - 1 # m
      BY <1>2, <1>3
    <3>2. g[i] = Offer(c, f[m - 1], disks[m])
      BY <2>1
    <3>3. h[i] = Offer(c, g[m - 1], disks[m])
      BY <1>2, <2>1
    <3> HIDE DEF g, h
    <3> QED
      BY <3>1, <3>2, <3>3
  <2>2. CASE i # m /\ i # 0
    <3>1. i - 1 \in 0..m /\ i - 1 # m /\ i \in 0..(m - 1)
      BY <1>3, <2>2
    <3>2. g[i] = f[i] /\ g[i - 1] = f[i - 1]
      BY <3>1, <2>2
    <3>3. f[i] = Offer(c, f[i - 1], disks[i])
      BY <3>1, <2>2, <1>4 DEF IsFilter
    <3>4. h[i] = Offer(c, g[i - 1], disks[i])
      BY <2>2
    <3> HIDE DEF g, h
    <3> QED
      BY <3>2, <3>3, <3>4
  <2>3. CASE i = 0
    <3>1. g[0] = f[0] /\ h[0] = <<>> /\ 0 \in 0..(m - 1)
      BY <1>2, <1>3
    <3>2. f[0] = <<>>
      BY <3>1, <1>4 DEF IsFilter
    <3> HIDE DEF g, h
    <3> QED
      BY <3>1, <3>2, <2>3
  <2> QED
    BY <2>1, <2>2, <2>3
<1>6. g = h
  <2>1. g = [i \in 0..m |-> g[i]] /\ h = [i \in 0..m |-> h[i]]
    OBVIOUS
  <2> HIDE DEF g, h
  <2> QED
    BY <1>5, <2>1
<1>7. IsFilter(g, c, m)
  BY <1>6, Zenon DEF IsFilter
<1> QED
  BY <1>1, <1>7

\* filterDisks is what the loop computes.
LEMMA FilterUnfolds ==
  ASSUME NEW c, disks \in Seq(DiskSet)
  PROVE  /\ filterDisks(c)[0] = <<>>
         /\ \A i \in 1..Len(disks) : filterDisks(c)[i] = Offer(c, filterDisks(c)[i - 1], disks[i])
<1> DEFINE options == filterDisks(c)
<1>1. Len(disks) \in Nat
  OBVIOUS
<1>2. \E f : f = [i \in 0..Len(disks) |-> IF i = 0 THEN <<>> ELSE Offer(c, f[i - 1], disks[i])]
  BY <1>1, FilterExists DEF IsFilter
<1>3. options = [i \in 0..Len(disks) |->
                   IF i = 0 THEN <<>> ELSE Offer(c, options[i - 1], disks[i])]
  BY <1>2, Zenon DEF filterDisks
<1> HIDE DEF options
<1>4. options[0] = <<>> /\ \A i \in 1..Len(disks) : options[i] = Offer(c, options[i - 1], disks[i])
  <2>1. 0 \in 0..Len(disks) /\ \A i \in 1..Len(disks) : i \in 0..Len(disks) /\ i # 0
    BY <1>1
  <2> QED
    BY <1>3, <2>1
<1> QED
  BY <1>4 DEF options

\* Only disks with an earlier installation are offered, never the two that the
\* configuration names at that moment, and no more than there are disks.
LEMMA OptionsInstalled ==
  ASSUME NEW c, disks \in Seq(DiskSet)
  PROVE  /\ getWipeDisksOptions(c) \in Seq(Installed \ {c.device, c.dataDisk})
         /\ Len(getWipeDisksOptions(c)) <= Len(disks)
<1> DEFINE options == filterDisks(c)
           Foreign == Installed \ {c.device, c.dataDisk}
           Good(i) == options[i] \in Seq(Foreign) /\ Len(options[i]) <= i
           T == {i \in Nat : i <= Len(disks) /\ ~Good(i)}
<1>1. Len(disks) \in Nat
  OBVIOUS
<1>2. options[0] = <<>> /\ \A i \in 1..Len(disks) : options[i] = Offer(c, options[i - 1], disks[i])
  BY FilterUnfolds
<1> HIDE DEF options
<1>3. T = {}
  <2> SUFFICES ASSUME T # {} PROVE FALSE
    OBVIOUS
  <2>1. PICK m \in T : \A k \in T : m <= k
    BY LeastElement
  <2>2. m # 0
    <3>1. Good(0)
      BY <1>2
    <3> QED
      BY <2>1, <3>1
  <2>3. m \in Nat /\ m - 1 \in Nat /\ m - 1 \notin T /\ m \in 1..Len(disks)
    <3>1. m \in Nat /\ m <= Len(disks)
      OBVIOUS
    <3> HIDE DEF T
    <3> QED
      BY <1>1, <2>1, <2>2, <3>1
  <2>4. Good(m - 1)
    BY <1>1, <2>3
  <2>5. Good(m)
    <3>1. options[m] = Offer(c, options[m - 1], disks[m])
      BY <1>2, <2>3
    <3>2. options[m - 1] \in Seq(Foreign) /\ Len(options[m - 1]) <= m - 1
      BY <2>4
    <3>3. CASE disks[m] \in Foreign
      <4>1. options[m] = Append(options[m - 1], disks[m])
        BY <3>1, <3>3 DEF Offer
      <4> HIDE DEF Foreign
      <4> QED
        BY <3>2, <3>3, <4>1, <2>3
    <3>4. CASE disks[m] \notin Foreign
      <4>1. options[m] = options[m - 1]
        BY <3>1, <3>4 DEF Offer
      <4> QED
        BY <3>2, <4>1, <2>3
    <3> QED
      BY <3>3, <3>4
  <2> QED
    BY <2>1, <2>5
<1>4. Good(Len(disks))
  BY <1>1, <1>3
<1> QED
  BY <1>4 DEF getWipeDisksOptions, options

-----------------------------------------------------------------------------
(* Types and marks *)

CfgType == [device : DiskSet \cup {NoDisk}, dataDisk : DiskSet \cup {NoDisk},
            size : Sizes \cup {NoSize}, wipe : SUBSET Installed, forceMBR : BOOLEAN]
ValueType == [disk : DiskSet \cup {NoDisk}, dataDisk : DiskSet \cup {NoDisk},
              forceMBR : {"none", "no", "yes"}]

\* TypeOK in the parts that the actions change together.
FocusOK == panel \in Panels \cup Elsewhere /\ diskConfirmed \in BOOLEAN /\ error \in BOOLEAN
MachineOK == disks \in DiskLists /\ bios \in BOOLEAN /\ skipChecks \in BOOLEAN
MarksOK ==
  /\ selectedIndexes \in Seq(BOOLEAN) /\ Len(selectedIndexes) <= Len(disks)
  /\ values \in SUBSET Installed /\ marked \in SUBSET Installed

\* The open list has a mark for each of its lines, so that no SPACE indexes past
\* them, and what GetMultiData returns is what is marked on it.
ListShowsMarks ==
  panel = "wipeSelect" => /\ Len(Options) <= Len(selectedIndexes)
                          /\ values = Chosen(selectedIndexes)

LEMMA TypeParts ==
  TypeOK <=> /\ FocusOK /\ MachineOK /\ MarksOK /\ cfg \in CfgType /\ value \in ValueType
             /\ role \in {"default", "witness"}
  BY DEF TypeOK, FocusOK, MachineOK, MarksOK, CfgType, ValueType

LEMMA TypePartsAfter ==
  ASSUME FocusOK', MachineOK', MarksOK', cfg' \in CfgType, value' \in ValueType,
         role' \in {"default", "witness"}
  PROVE  TypeOK'
  BY DEF TypeOK, FocusOK, MachineOK, MarksOK, CfgType, ValueType

LEMMA TypedDisks ==
  ASSUME MachineOK
  PROVE  /\ disks \in Seq(DiskSet) /\ Len(disks) \in Nat
         /\ \A d \in Range(disks) : d \in DiskSet
         /\ disks # <<>> => disks[1] \in DiskSet
<1>1. disks \in Seq(DiskSet)
  BY DisksAssumption DEF MachineOK
<1> QED
  BY <1>1 DEF Range

LEMMA ChosenInstalled ==
  ASSUME MachineOK, NEW idx
  PROVE  /\ Options \in Seq(Installed) /\ Len(Options) <= Len(disks) /\ Len(Options) \in Nat
         /\ Chosen(idx) \in SUBSET Installed
<1>1. disks \in Seq(DiskSet)
  BY TypedDisks
<1>2. Options \in Seq(Installed \ {cfg.device, cfg.dataDisk}) /\ Len(Options) <= Len(disks)
  BY <1>1, OptionsInstalled DEF Options
<1>3. Options \in Seq(Installed)
  BY <1>2
<1>4. \A i \in DOMAIN Options : Options[i] \in Installed
  BY <1>3
<1> QED
  BY <1>2, <1>3, <1>4 DEF Chosen

\* The list and its marks stay what they are when nothing they depend on changes.
LEMMA SameOptions ==
  ASSUME UNCHANGED <<disks, cfg>>
  PROVE  Options' = Options /\ \A idx : Chosen(idx)' = Chosen(idx)
  BY DEF Options, Chosen, getWipeDisksOptions, filterDisks, Offer

LEMMA TypeInit == Init => TypeOK /\ ListShowsMarks
<1> SUFFICES ASSUME Init PROVE TypeOK /\ ListShowsMarks
  OBVIOUS
<1>1. ListShowsMarks
  BY DEF Init, ListShowsMarks
<1>2. cfg \in CfgType /\ value \in ValueType
  BY DEF Init, CfgType, ValueType
<1>3. FocusOK /\ MachineOK
  BY DEF Init, FocusOK, MachineOK, Elsewhere
<1>4. MarksOK
  <2>1. disks \in Seq(DiskSet)
    BY <1>3, TypedDisks
  <2> QED
    BY <2>1 DEF Init, MarksOK
<1> QED
  BY <1>1, <1>2, <1>3, <1>4, TypeParts DEF Init

\* Showing a panel or leaving the page with a configuration of the right type.
LEMMA LeavingTyped ==
  ASSUME FocusOK, NEW c \in CfgType, NEW confirmed \in BOOLEAN, NEW message \in BOOLEAN,
         panel # "wipeSelect" \/ Focused = "wipeDisks",
         GotoNextPage(c, confirmed, message) \/ AskForceMBROrNext(c, confirmed, message)
  PROVE  FocusOK' /\ cfg' \in CfgType /\ panel' # "wipeSelect"
<1>1. Focused \in Panels \cup Elsewhere /\ Focused # "wipeSelect"
  BY DEF FocusOK, Focused, Panels
<1>2. SettleDataDisk(c) \in CfgType
  BY DEF SettleDataDisk, CfgType
<1>3. CASE GotoNextPage(c, confirmed, message)
  <2>1. cfg' \in CfgType
    BY <1>2, <1>3 DEF GotoNextPage
  <2>2. panel' \in {"next", Focused}
    BY <1>3 DEF GotoNextPage
  <2>3. diskConfirmed' \in BOOLEAN /\ error' \in BOOLEAN
    BY <1>3, Zenon DEF GotoNextPage
  <2> QED
    BY <1>1, <2>1, <2>2, <2>3 DEF FocusOK, Elsewhere
<1>4. CASE Show("askForceMBR", c, confirmed, message)
  BY <1>4 DEF Show, FocusOK, Panels
<1> QED
  BY <1>3, <1>4 DEF AskForceMBROrNext

LEMMA WipingTyped ==
  ASSUME FocusOK, MarksOK, MachineOK, NEW c \in CfgType, panel # "wipeSelect",
         NEW confirmed \in BOOLEAN, NEW message \in BOOLEAN,
         WipeDisksOrNext(c, confirmed, message)
  PROVE  /\ FocusOK' /\ cfg' \in CfgType /\ panel' # "wipeSelect"
         /\ selectedIndexes' \in {<<>>, selectedIndexes}
<1> DEFINE e == IF c.wipe \cap {c.device, c.dataDisk} # {} THEN [c EXCEPT !.wipe = {}] ELSE c
<1>1. e \in CfgType
  BY DEF CfgType
<1>2. CASE AskForceMBROrNext(c, confirmed, message) /\ UNCHANGED selectedIndexes
  BY <1>2, LeavingTyped
<1>3. CASE Show("wipeDisks", e, confirmed, message) /\ selectedIndexes' \in {<<>>, selectedIndexes}
  <2> HIDE DEF e
  <2> QED
    BY <1>1, <1>3 DEF Show, FocusOK, Panels
<1> QED
  BY <1>2, <1>3 DEF WipeDisksOrNext

\* A step that leaves the list closed keeps what is known of the marks.
LEMMA ClosedMarks ==
  ASSUME MarksOK, MachineOK, disks' = disks, values' = values, marked' = marked,
         selectedIndexes' \in {<<>>, selectedIndexes}
  PROVE  MarksOK'
<1>1. Len(disks) \in Nat
  BY TypedDisks
<1>2. CASE selectedIndexes' = <<>>
  BY <1>1, <1>2 DEF MarksOK
<1>3. CASE selectedIndexes' = selectedIndexes
  BY <1>3 DEF MarksOK
<1> QED
  BY <1>2, <1>3

LEMMA TypeEnter ==
  ASSUME TypeOK, NEW r, showDiskPage(r), role' \in {"default", "witness"}
  PROVE  TypeOK' /\ ListShowsMarks'
<1>1. FocusOK /\ MachineOK /\ MarksOK /\ cfg \in CfgType /\ value \in ValueType
  BY TypeParts
<1>2. /\ UNCHANGED <<disks, bios, skipChecks, selectedIndexes, values, marked, error>>
      /\ diskConfirmed' = FALSE /\ panel' \in {"diskFatal", "disk"}
  BY DEF showDiskPage, Machine, WipeWidget
<1>3. FocusOK' /\ MachineOK' /\ MarksOK' /\ ListShowsMarks'
  BY <1>1, <1>2 DEF FocusOK, MachineOK, MarksOK, ListShowsMarks, Panels, Elsewhere
<1>4. cfg' \in CfgType /\ value' \in ValueType
  <2>1. CASE disks = <<>>
    BY <1>1, <2>1 DEF showDiskPage
  <2>2. CASE disks # <<>>
    <3>1. disks[1] \in DiskSet
      BY <1>1, <2>2, TypedDisks
    <3>2. presetConfigDisks \in CfgType
      BY <1>1, <3>1 DEF presetConfigDisks, CfgType
    <3>3. presetConfigDisks.device \in DiskSet \cup {NoDisk}
      BY <3>2 DEF CfgType
    <3>4. value.disk \in DiskSet \cup {NoDisk} /\ value.dataDisk \in DiskSet \cup {NoDisk}
          /\ value.forceMBR \in {"none", "no", "yes"}
      BY <1>1 DEF ValueType
    <3>5. value' \in ValueType
      BY <2>2, <3>1, <3>3, <3>4 DEF showDiskPage, Default, ValueType
    <3> QED
      BY <2>2, <3>2, <3>5 DEF showDiskPage
  <2> QED
    BY <2>1, <2>2
<1> QED
  BY <1>3, <1>4, TypePartsAfter

\* The handlers of the drop-downs and of the size.
LEMMA TypePanels ==
  ASSUME TypeOK,
         \/ \E d \in Range(disks) : DiskConfirm(d) \/ DataDiskConfirm(d)
         \/ \E s \in Sizes : PersistentSizeConfirm(s)
  PROVE  TypeOK' /\ ListShowsMarks'
<1>1. FocusOK /\ MachineOK /\ MarksOK /\ cfg \in CfgType /\ value \in ValueType
      /\ role \in {"default", "witness"}
  BY TypeParts
<1>2. /\ UNCHANGED <<role, disks, bios, skipChecks, values, marked>> /\ panel # "wipeSelect"
  BY DEF DiskConfirm, DataDiskConfirm, PersistentSizeConfirm, Machine
<1>3. ASSUME NEW p \in Panels \ {"wipeSelect"}, NEW c \in CfgType,
             NEW confirmed \in BOOLEAN, NEW message \in BOOLEAN,
             Show(p, c, confirmed, message), UNCHANGED selectedIndexes
      PROVE  /\ FocusOK' /\ cfg' \in CfgType /\ panel' # "wipeSelect"
             /\ selectedIndexes' \in {<<>>, selectedIndexes}
  BY <1>3 DEF Show, FocusOK
<1>4. \A c : SizeMessage(c) \in BOOLEAN /\ (~SizeMessage(c)) \in BOOLEAN
  BY Zenon DEF SizeMessage
<1>5. diskConfirmed \in BOOLEAN
  BY <1>1 DEF FocusOK
<1> DEFINE Goal == /\ FocusOK' /\ cfg' \in CfgType /\ panel' # "wipeSelect"
                   /\ selectedIndexes' \in {<<>>, selectedIndexes}
                   /\ value' \in ValueType
<1>6. Goal
  <2>1. ASSUME NEW d \in Range(disks), DiskConfirm(d)
        PROVE  Goal
    <3> DEFINE c == [cfg EXCEPT !.device = d]
    <3>1. d \in DiskSet
      BY <1>1, TypedDisks
    <3>2. c \in CfgType
      BY <1>1, <3>1 DEF CfgType
    <3>3. value' \in ValueType
      BY <1>1, <2>1, <3>1 DEF DiskConfirm, ValueType
    <3>4. \/ WipeDisksOrNext(c, IF ManyDisks THEN diskConfirmed ELSE ~SizeMessage(c),
                             SizeMessage(c))
          \/ /\ Show(IF ManyDisks THEN "dataDisk" ELSE "persistentSize",
                     c, diskConfirmed, SizeMessage(c))
             /\ UNCHANGED selectedIndexes
      BY <2>1 DEF DiskConfirm
    <3>5. (IF ManyDisks THEN diskConfirmed ELSE ~SizeMessage(c)) \in BOOLEAN
      BY <1>4, <1>5
    <3>6. (IF ManyDisks THEN "dataDisk" ELSE "persistentSize") \in Panels \ {"wipeSelect"}
      BY DEF Panels
    <3> HIDE DEF c
    <3> QED
      BY <1>1, <1>2, <1>3, <1>4, <1>5, <3>2, <3>3, <3>4, <3>5, <3>6, WipingTyped
  <2>2. ASSUME NEW d \in Range(disks), DataDiskConfirm(d)
        PROVE  Goal
    <3> DEFINE c == WithDataDisk(d)
    <3>1. d \in DiskSet
      BY <1>1, TypedDisks
    <3>2. c \in CfgType
      BY <1>1, <3>1 DEF CfgType, WithDataDisk
    <3>3. value' \in ValueType
      BY <1>1, <2>2, <3>1 DEF DataDiskConfirm, ValueType
    <3>4. \/ WipeDisksOrNext(c, TRUE, SizeMessage(c))
          \/ /\ Show("persistentSize", c, diskConfirmed, SizeMessage(c))
             /\ UNCHANGED selectedIndexes
      BY <2>2 DEF DataDiskConfirm
    <3>5. "persistentSize" \in Panels \ {"wipeSelect"}
      BY DEF Panels
    <3> HIDE DEF c
    <3> QED
      BY <1>1, <1>2, <1>3, <1>4, <1>5, <3>2, <3>3, <3>4, <3>5, WipingTyped
  <2>3. ASSUME NEW s \in Sizes, PersistentSizeConfirm(s)
        PROVE  Goal
    <3> DEFINE c == [cfg EXCEPT !.size = s]
    <3>1. c \in CfgType
      BY <1>1 DEF CfgType
    <3>2. value' = value /\ panel = "persistentSize"
      BY <2>3 DEF PersistentSizeConfirm
    <3>3. \/ WipeDisksOrNext(c, TRUE, FALSE)
          \/ Show(panel, cfg, diskConfirmed, TRUE) /\ UNCHANGED selectedIndexes
      BY <2>3 DEF PersistentSizeConfirm
    <3>4. panel \in Panels \ {"wipeSelect"}
      BY <3>2 DEF Panels
    <3> HIDE DEF c
    <3> QED
      BY <1>1, <1>2, <1>3, <1>5, <3>1, <3>2, <3>3, <3>4, WipingTyped
  <2> QED
    BY <2>1, <2>2, <2>3
<1>7. MachineOK' /\ MarksOK'
  BY <1>1, <1>2, <1>6, ClosedMarks DEF MachineOK
<1> QED
  BY <1>1, <1>2, <1>6, <1>7, TypePartsAfter DEF ListShowsMarks
LEMMA TypeMBR ==
  ASSUME TypeOK, NEW v \in {"no", "yes"}, MBRConfirm(v)
  PROVE  TypeOK' /\ ListShowsMarks'
<1>1. FocusOK /\ MachineOK /\ MarksOK /\ cfg \in CfgType /\ value \in ValueType
      /\ role \in {"default", "witness"}
  BY TypeParts
<1>2. /\ UNCHANGED <<role, disks, bios, skipChecks, selectedIndexes, values, marked>>
      /\ panel = "askForceMBR"
  BY DEF MBRConfirm, Machine, WipeWidget
<1>3. value' \in ValueType
  BY <1>1 DEF MBRConfirm, ValueType
<1> DEFINE yes == v = "yes"
           c == [cfg EXCEPT !.forceMBR = yes]
<1>4. c \in CfgType
  <2>1. yes \in BOOLEAN
    OBVIOUS
  <2> HIDE DEF yes
  <2> QED
    BY <1>1, <2>1 DEF CfgType
<1>5. diskConfirmed \in BOOLEAN /\ error \in BOOLEAN
  BY <1>1 DEF FocusOK
<1>6. \/ Show(panel, cfg, diskConfirmed, TRUE) \/ Show(panel, c, diskConfirmed, error)
      \/ GotoNextPage(cfg, diskConfirmed, error)
  BY DEF MBRConfirm
<1> HIDE DEF c
<1>7. FocusOK' /\ cfg' \in CfgType /\ panel' # "wipeSelect"
  <2>1. CASE Show(panel, cfg, diskConfirmed, TRUE) \/ Show(panel, c, diskConfirmed, error)
    BY <1>1, <1>2, <1>4, <1>5, <2>1 DEF Show, FocusOK, Panels
  <2>2. CASE GotoNextPage(cfg, diskConfirmed, error)
    BY <1>1, <1>2, <1>5, <2>2, LeavingTyped
  <2> QED
    BY <1>6, <2>1, <2>2
<1>8. MachineOK' /\ MarksOK'
  BY <1>1, <1>2 DEF MachineOK, MarksOK
<1> QED
  BY <1>1, <1>2, <1>3, <1>7, <1>8, TypePartsAfter DEF ListShowsMarks

LEMMA TypeWipe ==
  ASSUME TypeOK, WipeDisksConfirm
  PROVE  TypeOK' /\ ListShowsMarks'
<1>1. FocusOK /\ MachineOK /\ MarksOK /\ cfg \in CfgType /\ value \in ValueType
      /\ role \in {"default", "witness"}
  BY TypeParts
<1>2. /\ UNCHANGED <<role, disks, bios, skipChecks, value, selectedIndexes, values, marked>>
      /\ panel # "wipeSelect" \/ Focused = "wipeDisks"
  BY DEF WipeDisksConfirm, Machine, WipeWidget, Focused
<1> DEFINE c == [cfg EXCEPT !.wipe = values]
<1>3. c \in CfgType
  BY <1>1 DEF CfgType, MarksOK
<1>4. diskConfirmed \in BOOLEAN /\ error \in BOOLEAN
  BY <1>1 DEF FocusOK
<1>5. AskForceMBROrNext(c, diskConfirmed, error)
  BY DEF WipeDisksConfirm
<1> HIDE DEF c
<1>6. FocusOK' /\ cfg' \in CfgType /\ panel' # "wipeSelect"
  BY <1>1, <1>2, <1>3, <1>4, <1>5, LeavingTyped
<1>7. MachineOK' /\ MarksOK'
  BY <1>1, <1>2 DEF MachineOK, MarksOK
<1> QED
  BY <1>1, <1>2, <1>6, <1>7, TypePartsAfter DEF ListShowsMarks

\* Opening the list: marks of an earlier time are taken over only if they reach.
LEMMA TypeSelectShow ==
  ASSUME TypeOK, WipeSelectShow
  PROVE  TypeOK' /\ ListShowsMarks'
<1>1. FocusOK /\ MachineOK /\ MarksOK /\ cfg \in CfgType /\ value \in ValueType
      /\ role \in {"default", "witness"}
  BY TypeParts
<1>2. /\ UNCHANGED <<role, disks, bios, skipChecks, cfg, value, diskConfirmed, error, marked>>
  BY DEF WipeSelectShow, Machine
<1> DEFINE idx == IF selectedIndexes = <<>> THEN [i \in DOMAIN Options |-> FALSE]
                  ELSE selectedIndexes
<1>3. /\ Options \in Seq(Installed) /\ Len(Options) <= Len(disks) /\ Len(Options) \in Nat
      /\ Chosen(idx) \in SUBSET Installed
  BY <1>1, ChosenInstalled
<1>4. idx \in Seq(BOOLEAN) /\ Len(idx) <= Len(disks)
  <2>1. CASE selectedIndexes = <<>>
    <3>1. idx = [i \in 1..Len(Options) |-> FALSE]
      BY <1>3, <2>1
    <3>2. idx \in Seq(BOOLEAN) /\ Len(idx) = Len(Options)
      <4> HIDE DEF idx
      <4> QED
        BY <3>1, <1>3
    <3> QED
      BY <1>3, <3>2
  <2>2. CASE selectedIndexes # <<>>
    BY <1>1, <2>2 DEF MarksOK
  <2> QED
    BY <2>1, <2>2
<1>5. \/ panel' = "crashed" /\ UNCHANGED <<selectedIndexes, values>>
      \/ /\ Len(Options) <= Len(idx) /\ panel' = "wipeSelect"
         /\ selectedIndexes' = idx /\ values' = Chosen(idx)
  <2>1. Len(idx) \in Nat
    BY <1>4
  <2> HIDE DEF idx
  <2>2. ~(Len(Options) > Len(idx)) => Len(Options) <= Len(idx)
    BY <1>3, <2>1
  <2> QED
    BY <2>2 DEF WipeSelectShow, idx
<1>6. Options' = Options /\ \A i : Chosen(i)' = Chosen(i)
  BY <1>2, SameOptions
<1> HIDE DEF idx
<1>7. MarksOK'
  BY <1>1, <1>2, <1>3, <1>4, <1>5 DEF MarksOK
<1>8. FocusOK' /\ MachineOK'
  BY <1>1, <1>2, <1>5 DEF FocusOK, MachineOK, Panels, Elsewhere
<1>9. ListShowsMarks'
  <2> SUFFICES ASSUME panel' = "wipeSelect"
               PROVE  Len(Options') <= Len(selectedIndexes') /\ values' = Chosen(selectedIndexes)'
    BY DEF ListShowsMarks
  <2>1. Len(Options) <= Len(idx) /\ selectedIndexes' = idx /\ values' = Chosen(idx)
    BY <1>5
  <2>2. Chosen(selectedIndexes)' = Chosen(idx)
    BY <2>1, <1>6 DEF Chosen
  <2> QED
    BY <2>1, <2>2, <1>6
<1> QED
  BY <1>1, <1>2, <1>7, <1>8, <1>9, TypePartsAfter

LEMMA ReplacedElement ==
  ASSUME NEW S, NEW s \in Seq(S), NEW k, NEW x \in S
  PROVE  [s EXCEPT ![k] = x] \in Seq(S) /\ Len([s EXCEPT ![k] = x]) = Len(s)
<1> DEFINE e == [j \in 1..Len(s) |-> IF j = k THEN x ELSE s[j]]
<1>1. [s EXCEPT ![k] = x] = e
  OBVIOUS
<1>2. \A j \in 1..Len(s) : e[j] \in S
  OBVIOUS
<1>3. Len(s) \in Nat /\ e \in [1..Len(s) -> S]
  BY <1>2
<1>4. e \in Seq(S) /\ Len(e) = Len(s)
  <2> HIDE DEF e
  <2> QED
    BY <1>3
<1> QED
  BY <1>1, <1>4

\* SPACE on a line of the open list.
LEMMA TypeSelectSpace ==
  ASSUME TypeOK, ListShowsMarks, NEW i \in DOMAIN disks, WipeSelectSpace(i)
  PROVE  TypeOK' /\ ListShowsMarks'
<1>1. FocusOK /\ MachineOK /\ MarksOK /\ cfg \in CfgType /\ value \in ValueType
      /\ role \in {"default", "witness"}
  BY TypeParts
<1> DEFINE idx == [selectedIndexes EXCEPT ![i] = ~@]
<1>2. /\ UNCHANGED <<panel, role, disks, bios, skipChecks, cfg, value, diskConfirmed, error>>
      /\ panel = "wipeSelect" /\ i \in DOMAIN Options
      /\ selectedIndexes' = idx /\ values' = Chosen(idx)
      /\ marked' \in {marked \cup {Options[i]}, marked \ {Options[i]}}
  BY DEF WipeSelectSpace, Machine
<1>3. /\ Options \in Seq(Installed) /\ Len(Options) \in Nat
      /\ Chosen(idx) \in SUBSET Installed
  BY <1>1, ChosenInstalled
<1>4. idx \in Seq(BOOLEAN) /\ Len(idx) = Len(selectedIndexes)
  <2> DEFINE flipped == ~selectedIndexes[i]
  <2>1. idx = [selectedIndexes EXCEPT ![i] = flipped]
    BY Zenon
  <2>2. flipped \in BOOLEAN
    BY Zenon
  <2> HIDE DEF idx, flipped
  <2> QED
    BY <1>1, <2>1, <2>2, ReplacedElement DEF MarksOK
<1>5. Options' = Options /\ \A j : Chosen(j)' = Chosen(j)
  BY <1>2, SameOptions
<1> HIDE DEF idx
<1>6. marked' \in SUBSET Installed
  BY <1>1, <1>2, <1>3 DEF MarksOK
<1>7. MarksOK'
  BY <1>1, <1>2, <1>3, <1>4, <1>6 DEF MarksOK
<1>8. FocusOK' /\ MachineOK'
  BY <1>1, <1>2 DEF FocusOK, MachineOK
<1>9. ListShowsMarks'
  <2>1. Chosen(selectedIndexes)' = Chosen(idx)
    BY <1>2, <1>5 DEF Chosen
  <2> QED
    BY <2>1, <1>2, <1>4, <1>5 DEF ListShowsMarks
<1> QED
  BY <1>1, <1>2, <1>7, <1>8, <1>9, TypePartsAfter

\* Steps that change neither marks nor choices, and the stuttering ones.
LEMMA TypeFocus ==
  ASSUME TypeOK, ListShowsMarks,
         \/ Esc \/ ClearMessage \/ Up \/ UpPastDataDisk \/ Install \/ Ended
         \/ WipeSelectEsc \/ UNCHANGED vars
  PROVE  TypeOK' /\ ListShowsMarks'
<1>1. FocusOK /\ MachineOK /\ MarksOK /\ cfg \in CfgType /\ value \in ValueType
      /\ role \in {"default", "witness"}
  BY TypeParts
<1>2. UNCHANGED <<role, disks, bios, skipChecks, cfg, value, selectedIndexes, values, marked>>
  BY DEF Esc, ClearMessage, Up, UpPastDataDisk, Install, Ended, WipeSelectEsc, vars,
         Machine, WipeWidget
<1>3. FocusOK'
  BY <1>1 DEF FocusOK, Panels, Elsewhere, Esc, ClearMessage, Up, UpPastDataDisk, Install,
              Ended, WipeSelectEsc, vars
<1>4. panel' = "wipeSelect" => panel = "wipeSelect"
  BY DEF Esc, ClearMessage, Up, UpPastDataDisk, Install, Ended, WipeSelectEsc, vars
<1>5. MachineOK' /\ MarksOK'
  BY <1>1, <1>2 DEF MachineOK, MarksOK
<1>6. Options' = Options /\ \A j : Chosen(j)' = Chosen(j)
  BY <1>2, SameOptions
<1>7. ListShowsMarks'
  <2>1. Chosen(selectedIndexes)' = Chosen(selectedIndexes)
    BY <1>2, <1>6 DEF Chosen
  <2> QED
    BY <2>1, <1>2, <1>4, <1>6 DEF ListShowsMarks
<1> QED
  BY <1>1, <1>2, <1>3, <1>5, <1>7, TypePartsAfter

LEMMA TypeStep == TypeOK /\ ListShowsMarks /\ [Next]_vars => TypeOK' /\ ListShowsMarks'
<1> SUFFICES ASSUME TypeOK, ListShowsMarks, [Next]_vars PROVE TypeOK' /\ ListShowsMarks'
  OBVIOUS
<1>1. CASE Return \/ \E r \in {"default", "witness"} : Enter(r)
  <2>1. role \in {"default", "witness"}
    BY TypeParts
  <2> QED
    BY <1>1, <2>1, TypeEnter DEF Return, Enter
<1>2. CASE \/ \E d \in Range(disks) : DiskConfirm(d) \/ DataDiskConfirm(d)
           \/ \E s \in Sizes : PersistentSizeConfirm(s)
  BY <1>2, TypePanels
<1>3. CASE \E v \in {"no", "yes"} : MBRConfirm(v)
  BY <1>3, TypeMBR
<1>4. CASE WipeDisksConfirm
  BY <1>4, TypeWipe
<1>5. CASE WipeSelectShow \/ \E i \in DOMAIN disks : WipeSelectSpace(i)
  BY <1>5, TypeSelectShow, TypeSelectSpace
<1>6. CASE \/ Esc \/ ClearMessage \/ Up \/ UpPastDataDisk \/ Install \/ Ended
           \/ WipeSelectEsc \/ UNCHANGED vars
  BY <1>6, TypeFocus
<1> QED
  BY <1>1, <1>2, <1>3, <1>4, <1>5, <1>6 DEF Next

\* The page keeps its types. In particular every disk it marks for wiping holds an
\* earlier installation, also when marks outlive the list they were made on
\* (getWipeDisksOptions, wipeDisksConfirm).
THEOREM DiskPageTypeCorrect == Spec => []TypeOK
<1>1. Init => TypeOK /\ ListShowsMarks
  BY TypeInit
<1>2. TypeOK /\ ListShowsMarks /\ [Next]_vars => TypeOK' /\ ListShowsMarks'
  BY TypeStep
<1> QED
  BY <1>1, <1>2, PTL DEF Spec

\* While the list of disks to wipe is open it has a mark for every line, and what
\* Enter stores are the marked lines, although the marks are kept by position and
\* the options change with the disks chosen (Select.Show, select.go).
THEOREM OpenListShowsMarks == Spec => []ListShowsMarks
<1>1. Init => TypeOK /\ ListShowsMarks
  BY TypeInit
<1>2. TypeOK /\ ListShowsMarks /\ [Next]_vars => TypeOK' /\ ListShowsMarks'
  BY TypeStep
<1> QED
  BY <1>1, <1>2, PTL DEF Spec
=============================================================================
