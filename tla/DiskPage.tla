------------------------------ MODULE DiskPage ------------------------------
(***************************************************************************)
(* The disk page (addDiskPanel of pkg/console/install_panels.go): the      *)
(* installation disk, the data disk, the size of the persistent partition, *)
(* the disks to wipe and the partition table, with the drop-down widgets   *)
(* (pkg/widgets) that keep their own copy of what was chosen.              *)
(*                                                                         *)
(* A drop-down takes Enter either on itself or on an option of its list    *)
(* (Tab), so that its handler may be given any option. The list of disks   *)
(* to wipe is a multiple choice and is modelled with its own panel.        *)
(***************************************************************************)
EXTENDS PartitionSize, Sequences, SequencesExt

CONSTANTS
  DiskLists,    \* the lists of disks a machine may have, sorted as refresh() does
  SizeOf,       \* SizeOf[d]: size of disk d
  Installed,    \* the disks that hold an earlier installation (COS_OEM label)
  Sizes         \* what may be typed as the persistent size; NoSize is blank

NoDisk == ""

DiskSet == UNION {{l[i] : i \in DOMAIN l} : l \in DiskLists}

ASSUME DisksAssumption ==
  /\ NoDisk \notin DiskSet /\ Installed \subseteq DiskSet
  /\ \A l \in DiskLists : l \in Seq(DiskSet)
  /\ \A d \in DiskSet : SizeOf[d] \in Nat

VARIABLES
  panel,          \* the panel with the focus; "next" and "password" are other pages
  role,           \* Install.Role
  disks,          \* diskOptions of the cache
  bios,           \* SystemIsBIOS()
  skipChecks,     \* harvester.install.skipchecks
  cfg,            \* Device, DataDisk, PersistentPartitionSize, WipeDisksList, ForceMBR
  value,          \* Value of the three single-choice drop-downs
  selectedIndexes,\* of the list of disks to wipe
  values,         \* ... and what GetMultiData returns
  diskConfirmed,
  error,          \* the validator panel shows a message
  marked          \* history: disks that the user selected with SPACE

vars == <<panel, role, disks, bios, skipChecks, cfg, value, selectedIndexes, values,
          diskConfirmed, error, marked>>

Panels == {"disk", "dataDisk", "persistentSize", "wipeDisks", "wipeSelect", "askForceMBR"}
Elsewhere == {"password", "diskFatal", "next", "install", "crashed"}

Machine == <<disks, bios, skipChecks>>
WipeWidget == <<selectedIndexes, values, marked>>

ManyDisks == Len(disks) > 1
IsWitness == role = "witness"

Init ==
  /\ panel = "password"
  /\ role \in {"default", "witness"}
  /\ disks \in DiskLists /\ bios \in BOOLEAN /\ skipChecks \in BOOLEAN
  /\ cfg = [device |-> NoDisk, dataDisk |-> NoDisk, size |-> NoSize,
            wipe |-> {}, forceMBR |-> FALSE]
  /\ value = [disk |-> NoDisk, dataDisk |-> NoDisk, forceMBR |-> "none"]
  /\ selectedIndexes = <<>> /\ values = {} /\ marked = {}
  /\ diskConfirmed = FALSE /\ error = FALSE

-----------------------------------------------------------------------------
(* Checks *)

Shared(c) == c.dataDisk \in {NoDisk, c.device}

validateAllDiskSizes(c) ==
  \/ skipChecks
  \/ IsWitness /\ validateDiskSize(SizeOf[c.device], FALSE)
  \/ ~IsWitness /\ Shared(c) /\ validateDiskSize(SizeOf[c.device], TRUE)
  \/ /\ ~IsWitness /\ ~Shared(c)
     /\ validateDiskSize(SizeOf[c.device], FALSE)
     /\ validateDataDiskSize(SizeOf[c.dataDisk])

\* The persistent partition has a size of its own only beside a data partition.
validatePersistentPartitionSize(c, s) ==
  Shared(c) => ParsePartitionSize(SizeOf[c.device], s, skipChecks).ok

\* More than 2^32 - 1 sectors; a unit is at least a sector.
diskExceedsMBRLimit(d) == SizeOf[d] >= 2048 * GiB

\* One step of the loop.
Offer(c, options, d) ==
  IF d \in Installed \ {c.device, c.dataDisk} THEN Append(options, d) ELSE options

\* The options after each iteration.
filterDisks(c) ==
  LET options[i \in 0..Len(disks)] ==
        IF i = 0 THEN <<>> ELSE Offer(c, options[i - 1], disks[i])
  IN  options

getWipeDisksOptions(c) == filterDisks(c)[Len(disks)]

-----------------------------------------------------------------------------
(* Leaving the page *)

OnlySizeValid(c) == IsWitness \/ validatePersistentPartitionSize(c, c.size)

DiskSettingsValid(c) ==
  /\ validateAllDiskSizes(c)
  /\ IsWitness \/ validatePersistentPartitionSize(c, c.size)

\* A witness has no data disk.
SettleDataDisk(c) == IF IsWitness THEN [c EXCEPT !.dataDisk = NoDisk] ELSE c

\* Enter on an option of a list closes the list first.
Focused == IF panel = "wipeSelect" THEN "wipeDisks" ELSE panel

\* gotoNextPage, called with configuration c, flag diskConfirmed = confirmed and a
\* message on display or not: the page is shown once more if nothing has confirmed
\* the disks yet.
GotoNextPage(c, confirmed, message) ==
  IF DiskSettingsValid(c)
  THEN /\ cfg' = SettleDataDisk(c)
       /\ panel' = IF confirmed THEN "next" ELSE Focused
       /\ diskConfirmed' = TRUE
       /\ error' = (message /\ ~confirmed)
  ELSE cfg' = c /\ panel' = Focused /\ diskConfirmed' = confirmed /\ error' = TRUE

Show(p, c, confirmed, message) ==
  panel' = p /\ cfg' = c /\ diskConfirmed' = confirmed /\ error' = message

AskForceMBROrNext(c, confirmed, message) ==
  IF bios THEN Show("askForceMBR", c, confirmed, message)
  ELSE GotoNextPage(c, confirmed, message)

\* isWipeDisksPanelNeeded. Reset clears the marks but not what GetMultiData returns.
WipeDisksOrNext(c, confirmed, message) ==
  LET clash == c.wipe \cap {c.device, c.dataDisk} # {}
  IN  IF getWipeDisksOptions(c) = <<>>
      THEN AskForceMBROrNext(c, confirmed, message) /\ UNCHANGED selectedIndexes
      ELSE /\ Show("wipeDisks", IF clash THEN [c EXCEPT !.wipe = {}] ELSE c,
                   confirmed, message)
           /\ selectedIndexes' = IF clash THEN <<>> ELSE selectedIndexes

-----------------------------------------------------------------------------
(* Entering the page *)

presetConfigDisks ==
  LET device == IF cfg.device = NoDisk THEN disks[1] ELSE cfg.device
  IN  [cfg EXCEPT !.device = device,
                  !.dataDisk = IF @ = NoDisk THEN device ELSE @]

Default(v, d) == IF v = NoDisk THEN d ELSE v

\* A drop-down that is shown for the first time takes its first option; the data
\* disk's first option is the installation disk.
showDiskPage(r) ==
  /\ diskConfirmed' = FALSE
  /\ IF disks = <<>>
     THEN panel' = "diskFatal" /\ UNCHANGED <<cfg, value>>
     ELSE /\ panel' = "disk"
          /\ cfg' = presetConfigDisks
          /\ value' = [disk |-> Default(value.disk, disks[1]),
                       dataDisk |-> IF r # "witness" /\ ManyDisks
                                    THEN Default(value.dataDisk, presetConfigDisks.device)
                                    ELSE value.dataDisk,
                       forceMBR |-> IF bios /\ value.forceMBR = "none" THEN "no"
                                    ELSE value.forceMBR]
  /\ UNCHANGED <<Machine, WipeWidget, error>>

\* From the password page; the role may have been changed on the pages before it.
Enter(r) ==
  /\ panel = "password"
  /\ role' = r
  /\ showDiskPage(r)

\* Esc on the page that follows.
Return ==
  /\ panel = "next"
  /\ showDiskPage(role)
  /\ UNCHANGED role

Esc ==
  /\ panel \in (Panels \ {"wipeSelect"}) \cup {"diskFatal"}
  /\ panel' = "password" /\ diskConfirmed' = FALSE /\ error' = FALSE
  /\ UNCHANGED <<role, Machine, cfg, value, WipeWidget>>

-----------------------------------------------------------------------------
(* The panels *)

NoSizeMessage(c) == FALSE
\* "Show error if disk size validation fails, but allow proceeding to next field"
SizeMessage(c) == ~validateAllDiskSizes(c)

DiskConfirm(d) ==
  LET c == [cfg EXCEPT !.device = d]
  IN  /\ panel = "disk"
      /\ value' = [value EXCEPT !.disk = d]
      /\ IF IsWitness
         THEN WipeDisksOrNext(c, IF ManyDisks THEN diskConfirmed ELSE ~SizeMessage(c),
                              SizeMessage(c))
         ELSE /\ Show(IF ManyDisks THEN "dataDisk" ELSE "persistentSize",
                      c, diskConfirmed, SizeMessage(c))
              /\ UNCHANGED selectedIndexes
      /\ UNCHANGED <<role, Machine, values, marked>>

WithOtherDataDisk(d) == IF d = cfg.device THEN cfg ELSE [cfg EXCEPT !.dataDisk = d]
WithDataDisk(d) == [cfg EXCEPT !.dataDisk = d]

\* The sizes of two disks are checked for a message only.
DataDiskConfirm(d) ==
  LET c == WithDataDisk(d)
  IN  /\ panel = "dataDisk"
      /\ value' = [value EXCEPT !.dataDisk = d]
      /\ IF value.disk = d
         THEN /\ Show("persistentSize", c, diskConfirmed, SizeMessage(c))
              /\ UNCHANGED selectedIndexes
         ELSE WipeDisksOrNext(c, TRUE, SizeMessage(c))
      /\ UNCHANGED <<role, Machine, values, marked>>

PersistentSizeConfirm(s) ==
  /\ panel = "persistentSize"
  /\ IF validatePersistentPartitionSize(cfg, s)
     THEN WipeDisksOrNext([cfg EXCEPT !.size = s], TRUE, FALSE)
     ELSE Show(panel, cfg, diskConfirmed, TRUE) /\ UNCHANGED selectedIndexes
  /\ UNCHANGED <<role, Machine, value, values, marked>>

MBRNeverRefused(v) == FALSE
MBRRefused(v) == v = "yes" /\ diskExceedsMBRLimit(cfg.device)

\* A changed answer is stored and needs another Enter.
MBRConfirm(v) ==
  /\ panel = "askForceMBR"
  /\ value' = [value EXCEPT !.forceMBR = v]
  /\ IF MBRRefused(v)
     THEN Show(panel, cfg, diskConfirmed, TRUE)
     ELSE IF cfg.forceMBR # (v = "yes")
     THEN Show(panel, [cfg EXCEPT !.forceMBR = (v = "yes")], diskConfirmed, error)
     ELSE GotoNextPage(cfg, diskConfirmed, error)
  /\ UNCHANGED <<role, Machine, WipeWidget>>

\* Arrow up on the first panel.
ClearMessage ==
  /\ panel = "disk"
  /\ error' = FALSE
  /\ UNCHANGED <<panel, role, Machine, cfg, value, WipeWidget, diskConfirmed>>

\* Arrow up: the panel before this one, as far as it is in use.
Up ==
  /\ panel \in {"dataDisk", "persistentSize"}
  /\ panel' = IF panel = "persistentSize" /\ ManyDisks THEN "dataDisk" ELSE "disk"
  /\ error' = FALSE
  /\ diskConfirmed' = FALSE
  /\ UNCHANGED <<role, Machine, cfg, value, WipeWidget>>

UpPastDataDisk ==
  /\ panel \in {"wipeDisks", "askForceMBR"}
  /\ panel' = IF IsWitness THEN "disk"
              ELSE IF ManyDisks /\ value.disk # value.dataDisk THEN "dataDisk"
              ELSE "persistentSize"
  /\ diskConfirmed' = FALSE
  /\ UNCHANGED <<role, Machine, cfg, value, WipeWidget, error>>

-----------------------------------------------------------------------------
(* The list of disks to wipe: pkg/widgets/select.go *)

Options == getWipeDisksOptions(cfg)
Chosen(idx) == {Options[i] : i \in {j \in DOMAIN Options : idx[j]}}

\* Tab. The marks are kept by position from the last time the list was opened;
\* a longer list indexes past their end, which ends the program.
WipeSelectShow ==
  LET idx == IF selectedIndexes = <<>> THEN [i \in DOMAIN Options |-> FALSE]
             ELSE selectedIndexes
  IN  /\ panel = "wipeDisks"
      /\ IF Len(Options) > Len(idx)
         THEN panel' = "crashed" /\ UNCHANGED <<selectedIndexes, values>>
         ELSE /\ panel' = "wipeSelect"
              /\ selectedIndexes' = idx
              /\ values' = Chosen(idx)
      /\ UNCHANGED <<role, Machine, cfg, value, diskConfirmed, error, marked>>

\* Space on line i.
WipeSelectSpace(i) ==
  LET idx == [selectedIndexes EXCEPT ![i] = ~@]
  IN  /\ panel = "wipeSelect"
      /\ i \in DOMAIN Options
      /\ selectedIndexes' = idx
      /\ values' = Chosen(idx)
      /\ marked' = IF idx[i] THEN marked \cup {Options[i]} ELSE marked \ {Options[i]}
      /\ UNCHANGED <<panel, role, Machine, cfg, value, diskConfirmed, error>>

\* Esc closes the list; the marks stay.
WipeSelectEsc ==
  /\ panel = "wipeSelect"
  /\ panel' = "wipeDisks"
  /\ UNCHANGED <<role, Machine, cfg, value, WipeWidget, diskConfirmed, error>>

\* Enter on the drop-down or on its list.
WipeDisksConfirm ==
  /\ panel \in {"wipeDisks", "wipeSelect"}
  /\ AskForceMBROrNext([cfg EXCEPT !.wipe = values], diskConfirmed, error)
  /\ UNCHANGED <<role, Machine, value, WipeWidget>>

-----------------------------------------------------------------------------
\* The wizard goes on to the installation, or the program has ended.
Install ==
  /\ panel = "next"
  /\ panel' = "install"
  /\ UNCHANGED <<role, Machine, cfg, value, WipeWidget, diskConfirmed, error>>

Ended == panel \in {"install", "crashed"} /\ UNCHANGED vars

Next ==
  \/ \E r \in {"default", "witness"} : Enter(r)
  \/ Return \/ Esc \/ ClearMessage \/ Up \/ UpPastDataDisk \/ Install \/ Ended
  \/ \E d \in Range(disks) : DiskConfirm(d) \/ DataDiskConfirm(d)
  \/ \E s \in Sizes : PersistentSizeConfirm(s)
  \/ \E v \in {"no", "yes"} : MBRConfirm(v)
  \/ \E i \in DOMAIN disks : WipeSelectSpace(i)
  \/ WipeSelectShow \/ WipeSelectEsc \/ WipeDisksConfirm

Spec == Init /\ [][Next]_vars

-----------------------------------------------------------------------------
(* Properties *)

\* Type invariant of the page, its configuration and its widgets.
TypeOK ==
  /\ panel \in Panels \cup Elsewhere
  /\ role \in {"default", "witness"}
  /\ disks \in DiskLists /\ bios \in BOOLEAN /\ skipChecks \in BOOLEAN
  /\ cfg \in [device : DiskSet \cup {NoDisk}, dataDisk : DiskSet \cup {NoDisk},
              size : Sizes \cup {NoSize}, wipe : SUBSET Installed, forceMBR : BOOLEAN]
  /\ value \in [disk : DiskSet \cup {NoDisk}, dataDisk : DiskSet \cup {NoDisk},
                forceMBR : {"none", "no", "yes"}]
  /\ selectedIndexes \in Seq(BOOLEAN) /\ Len(selectedIndexes) <= Len(disks)
  /\ values \in SUBSET Installed /\ marked \in SUBSET Installed
  /\ diskConfirmed \in BOOLEAN /\ error \in BOOLEAN

Left == panel \in {"next", "install"}

\* The page is left forward only with disks that are large enough for the role and
\* with a persistent size that fits the disk now chosen, whatever was typed for
\* another disk or another role before (gotoNextPage).
LeavesWithValidDisks ==
  Left => /\ cfg.device # NoDisk
          /\ validateAllDiskSizes(cfg)
          /\ IsWitness <=> cfg.dataDisk = NoDisk
          /\ ~IsWitness => validatePersistentPartitionSize(cfg, cfg.size)

\* MBR is installed on BIOS machines and on disks below 2TiB only, although the disk
\* may be changed after the question was answered (mbrConfirm).
MBRFitsDisk == Left /\ cfg.forceMBR => bios /\ ~diskExceedsMBRLimit(cfg.device)

\* The disks that will be formatted are the ones the drop-downs display, also after
\* a role without data disk was tried (dataDiskV keeps its value then).
FormatsWhatIsShown ==
  Left => /\ cfg.device = value.disk
          /\ ~IsWitness /\ ManyDisks => cfg.dataDisk = value.dataDisk

\* Behind the data disk and size panels an Enter is never refused without a message:
\* once the disks count as confirmed and no error is on display, they are valid,
\* although three handlers set diskConfirmed after checks of their own.
NoSilentRefusal ==
  panel \in {"wipeDisks", "wipeSelect", "askForceMBR"} /\ diskConfirmed /\ ~error
    => DiskSettingsValid(cfg)

-----------------------------------------------------------------------------
(* Statements of the source that its code does not keep *)

\* "At this point the disk configuration is valid." (dataDiskConfirm, before
\* diskConfirmed is set and the next panel shown)
ConfirmedDisksAreValid ==
  panel \in {"wipeDisks", "askForceMBR"} /\ ~IsWitness /\ diskConfirmed
    => validateAllDiskSizes(cfg)

\* "filter disks to ignore disks which may be used as base install device or an
\* additional data disk" (getWipeDisksOptions): they are not wiped.
WipeSparesChosenDisks == Left => cfg.wipe \cap {cfg.device, cfg.dataDisk} = {}

\* "SPACE": "select options" (SetMulti's key binding tip): a disk is wiped only if
\* the user selected it.
WipesOnlyMarked == Left => cfg.wipe \subseteq marked

\* "TAB": "choose other options" (NewDropDown's key binding tip): Tab shows them.
TabShowsOptions == panel # "crashed"

\* "Leave it blank to use the default value." (persistentSizeNote)
BlankSizeIsDefault == [][PersistentSizeConfirm(NoSize) => ~error']_vars
=============================================================================
