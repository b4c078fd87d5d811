# A TLA+ model of harvester-installer

`harvester-installer` is the program that the Harvester ISO starts on a console
(gocui). It asks a user for the configuration of a node over some twenty pages,
or takes it from the kernel command line, completes it, writes it to disk and
reboots; on a node that was installed already it configures the node in place or
shows a dashboard. This directory holds TLA+ models of its core, TLC
configurations that check them on small instances, and TLAPS proofs of the
properties that hold for every instance.

Paths below are relative to the repository.

## The system

| component | state | operations | model |
|---|---|---|---|
| wizard pages (`pkg/console/install_panels.go`, `helper.go`) | `c.config`, `userInputData`, `mgmtNetwork`, `installModeOnly`, `alreadyInstalled`, `preflightAck`, the current gocui view | Enter, Esc and arrows on each page; a goroutine and a callback on five of them | `Wizard` |
| disk page (`addDiskPanel`) | five configuration fields, `diskConfirmed`, the validator message, the values inside the drop-downs | show, five confirm handlers, arrows, Esc | `DiskPage` |
| drop-down and select widgets (`pkg/widgets`) | `Value`, `selectedIndexes`, `values`, `Focus` | Tab, SPACE, Enter, Esc, `Reset`, `Show` | inside `DiskPage`; `Panel.Show` in `NetworkPage` |
| partition sizing (`pkg/util/disk.go`, `pkg/config/cos.go`) | none: unsigned arithmetic on sizes | parse, check, compute the layout | `PartitionSize`, `PartitionPlan` |
| VIP page (`addVIPPanel`, `vip.go`) | `Vip`, `VipMode`, `VipHwAddr`, the open views, DHCP requests in flight | keys; the goroutine's three writes; its callback | `VipPage` |
| network page (`addNetworkPanel`, `network.go`) | `mgmtNetwork`, `c.config.ManagementInterface`, the validator's panel and its `Focus` | eight panels; a goroutine that applies the network, and its callback | `NetworkPage`; its entries and exits in `Wizard` |
| installation (`addInstallPanel`, `doInstall`, `configureInstalledNode`, `webhooks.go`) | the configuration, warnings, webhooks, the disks | fetch, merge, apply, check, validate, report, wipe, install, reboot | `InstallFlow` |
| validator (`validator.go`) | none | `Validate` | what it asks of the modelled fields, in `InstallFlow` and `PartitionPlan` |
| configuration merge and read (`pkg/config`) | none | `Merge`, `ReadConfig`, coercion | `Merge` in `InstallFlow` |
| disk options cache (`util.go`) | two lists of disks | `refresh`, `filterUniqueDisks`, three lists of options | `DiskOptions`; the filters also in `DiskPage` and `InstallFlow` |
| spinner (`spinner.go`) | a ticker and a channel | `Start`, `Stop` | start and end of a check, in `Wizard`; the write that takes the keyboard, in `NetworkPage` |
| NetworkManager profiles (`pkg/config/cos.go`, `network.go`) | files under `/etc/NetworkManager`, `originalNetworkConfigs`, the host name | `applyNetworks`: restore, save once, clear the name, write, restart, put the name back; `updateDNSServers` | `NMProfiles` |
| generated files (yip, elemental; `pkg/config/cos.go`, templates) | none | rendering | no |
| preflight checks (`pkg/preflight`) | none | reads | their result is an input of `InstallFlow` |
| dashboard (`dashboard_panels.go`, `start-installer.sh`) | `current`, shared by three goroutines | polling, password-protected shell, restart | `Dashboard` |
| shell scripts (`package/harvester-os`) | disks | `harv-install`, `stream-disk`, shutdown | one step each, in `InstallFlow` |

How they interact: gocui runs every key handler and every `g.Update` callback on
one thread. Slow work runs in goroutines that write the shared configuration
directly and queue a callback when they are done. The wizard's pages all write to
one `HarvesterConfig`; the confirmation page hands it to the goroutine of the
install panel, which merges a remote file into it, has it validated, and calls
`doInstall`. The only lasting effects are on the disks; NetworkManager's profiles
and the host name belong to the live system. On an installed node the same
program shows the dashboard, whose goroutines share one record without a lock.

What is hard here, and a test hardly reaches:

* a user goes back and changes the mode, the role, a disk or the network method,
  and state of the first pass survives in the second;
* an answer of a goroutine meets another page than the one that asked;
* values are checked on one page and changed on another, or by a merged file;
* widgets keep selections by position while their options change;
* unsigned sizes wrap around, and two callers round the same disk differently;
* each of some twenty calls of the installation may fail, and webhooks report it;
* the keyboard leaves the network page later than the goroutine starts, so that
  the network is edited, left or applied again while it is applied;
* a call that applies a network fails half way, and the next one starts from what
  it left;
* paths to one disk come and go, and the cache keeps another one each time;
* the cluster changes between two queries of one poll of the dashboard.

`PROJECT.json` lists these hazards with the line at which each bites.

## Modules

`Wizard` ← `WizardProofs`, `MCWizard`;
`WizardPath` is instantiated by `Wizard`;
`PartitionSize` ← `PartitionPlan` ← `DiskProofs`, `MCPartitionPlan`;
`PartitionSize` ← `DiskPage` ← `DiskPageProofs`, `MCDiskPage`;
`DiskOptions` ← `DiskProofs`, `MCDiskOptions`;
`VipPage` ← `VipPageProofs`, `MCVipPage`;
`NetworkPage` ← `NetworkPageProofs`, `MCNetworkPage`;
`NMProfiles` ← `NMProfilesProofs`, `MCNMProfiles`;
`InstallFlow` ← `InstallFlowProofs`, `MCInstallFlow`;
`Dashboard` ← `DashboardProofs`
(an arrow reads "is extended by").

**Wizard.** `page` is the panel shown last and `focus` whether it or the spinner
panel has the keyboard. Each page's Enter handler is an action, with its guard
from the handler's checks; refused input that changes nothing is no step. `Esc`
is one action over `PrevPage`, which collects every page's `gotoPrevPage`. The
goroutine of a page is one `...Task` action, which writes the configuration
without the UI thread, and its callback is `TaskDone` or `TaskFailed`. Inputs are
members of constant sets; `Malformed` are those their syntax check rejects.
`trail` and `ntpWarned` are history variables for `EscReturns` and
`NTPKeptOnlyAfterWarning`. The disk, network and VIP pages are one panel each.
The network and VIP pages have goroutines too and can be left before these answer:
`late` holds the pages that were. A late goroutine of the network page may still
store the method (`LateApply`); its callback, and that of a failed DHCP request,
show a panel over whatever page the user has reached (`LateAnswer`,
`install_panels.go:1639-1650` and `2803-2805`), and an address obtained by DHCP ends
the program because the inputs it is written to are gone. Then two pages are on
display and two goroutines may work; the model ends there, on the page `overtaken`.
When a page can be left early is the subject of `NetworkPage` and `VipPage`;
`Wizard` allows it at any time.

**WizardPath** is the abstract wizard: one order of seventeen pages, a set of
pages each mode leaves out, a cursor that moves to a neighbour. `Wizard`
instantiates it with `at <- PageOf(page)`, which joins the panels of one page, and
`FollowsPath` says that it implements it. In the code no such order exists: every
page names its neighbours itself, once for Enter and once for Esc. The order is
left only by a late answer of the network or the VIP page (`Stray`).

**PartitionSize** has the arithmetic: `MiB` is the number of units in a mebibyte
and `Word` the number of values of an unsigned integer, at which products and
differences wrap around. **PartitionPlan** follows a size from the page or the
configuration file, through `checkDevice`, to the layout, which is computed from
the disk in whole gibibytes.

**DiskPage** has `DiskConfirm`, `DataDiskConfirm`, `PersistentSizeConfirm`,
`WipeDisksConfirm` and `MBRConfirm`, each with what it calls when it goes on
(`isWipeDisksPanelNeeded`, `gotoNextPage` with its two validations). The
drop-downs keep a value of their own (`value`, `selectedIndexes`, `values`) that
`cfg` may disagree with, and that survives leaving the page; the role may change
between visits.

**VipPage.** The user keeps the keyboard while a DHCP request runs. A request
goes through the states running, vipWritten, modeWritten, answered: the three
assignments of the goroutine are three steps, then its callback fills the inputs.
`open` are the views that exist; a callback that writes to one that does not
ends the main loop. `raced` records that somebody wrote between two of the
assignments.

**NetworkPage.** `panel` has the keyboard; it is one of the page's panels, the
spinner's panel or a page around this one. `mgmt` and `config` are the two copies
of the network, `mgmtNetwork` and `c.config.ManagementInterface`. The goroutine of
`preGotoNextPage` reads `mgmt` when it starts (`setupNetwork`, by value) and again
when the network has been applied. `Panel.Show` gives the keyboard to the spinner
at once only if its panel does not exist yet and `Focus` is still set (`view`,
`takes`); otherwise the page keeps it until `SpinnerWrite`. `hasty` counts the keys
pressed in this window: without any, the page keeps its promises (`Orderly`), and
`FirstAttemptLocks` says when there can be one. Texts are kinds: blank, an IPv4
or IPv6 address, an address with prefix, malformed. An interface that disappears
while its hardware address is looked up ends the program (`InterfaceLost`).

**NMProfiles.** A profile is a record of its kind, its interface, the network it
was written for, whether it carries an address and whether it has DNS servers.
`call[i]` is the program counter of one `applyNetworks`; each action is one of its
steps with the ways it can fail, and a failure leaves the files, NetworkManager
and the host name as the code leaves them. `Interrupted` covers the points inside
a loop over files. `GenerateConfig` is the installation, which writes profiles
without restoring or saving. `last` and `mishaps` are history variables: the
outcome of the last call, and which kinds of failure there were.

**DiskOptions.** `dedupMap` is the loop of `filterUniqueDisks` over what lsblk
prints, in any order, with names, serial numbers and WWNs as keys of one map.
`IdentityAssumption` is what the loop relies on: devices that share an identifier
report the same, except for volumes of a RAID controller, which share a serial number
and have a WWN each. Without it, when one of two such volumes reports the serial
number alone, TLC finds that one of them is not offered. `Hotplug` changes the devices at any moment; `seen` are
those of the last `refresh`. The disk page, `checkDevice` and the wiping of all
foreign disks are its users.

**Dashboard.** Each goroutine is a program counter and the text it will show;
each query of the cluster is a step, and `ClusterChanges` comes between any two.
The URL, a Go string, is stored in two steps; a reader in between may crash the
program (`TornRead`), after which getty starts it again.

**InstallFlow.** The goroutine is sequential; `step` is the call it makes next
and every call has its failure. `Merge` fills the fields that are still empty and
appends to lists. `call` is the loop of `webhooks.Handle` for one event. `Text` are
the strings a field may hold; only those that a condition compares are named.

## Runs

| run | instance | states | checks |
|---|---|---|---|
| `wizard_mode` | two roles, a blank and a non-blank password, a malformed and two well-formed addresses; one value for the other inputs | 425,105 | `CreateIsFresh`, `JoinServerAnswered`, `PasswordAgreed`, `EscReturns`, `FollowsPath`, `CheckEnds` |
| `wizard_inputs` | both network methods, blank, valid and malformed DNS servers, names and tokens, padded NTP servers, two service networks | 3,937,234 | `StaticHasDNS`, `HostnameChecked`, `ClusterDNSInServiceNet`, `ConfirmTruthful`, `AnswerFindsItsPage`, `NTPKeptOnlyAfterWarning` |
| `partition_plan` | ten disks and fifteen sizes around every limit, one that overflows to a plausible size | 1,419 | `SharedLayoutFits`, `RefusalIsRounding` |
| `disk_page` | none to three disks: one too small, one just large enough, one beyond the MBR limit; two hold an installation | 938,058 | `LeavesWithValidDisks`, `MBRFitsDisk`, `FormatsWhatIsShown`, `NoSilentRefusal` |
| `vip_page` | two requests in flight, two leases | 35,619 | `ConfirmedVipKept` |
| `install_flow` | automatic and interactive configurations, four remote files, two disks, one also under a link | 102,952 | `WritesOnlyWhenCleared`, `WritesValidConfig`, `ReportsTruthful`, `WipesOnlyForeign`, `InstallEnds` |
| `network_page` | two goroutines, two keys during an attempt; for every field a text that is taken and one that is refused | 861,071 | `LeavesAsApplied`, `StaticIsComplete`, `DHCPForgetsStatic`, `FirstAttemptLocks`, `KeyboardComesBack` |
| `nm_profiles` | two calls at a time; networks with VLAN 1, 2, 4094 and one without interface; a profile at boot or none; with and without a host name | 1,710,268 | `AppliedExactly`, `DNSReachesAddress`, `OriginalsPristine`, `HostnameKept` |
| `disk_options` | five devices: two paths to one disk, two volumes with one serial number, one without identity; three hold an installation | 370,528 | `OfferedOnce`, `WipeSparesInstallPaths` |
| `dashboard` | five facts about the cluster that come and go, first host or not | 518,870 | `SetupComesFirst`, `ReadyHasURL`, `SetupNeverReturns`, `SetupEndsEverywhere`, `TellsReadiness` |

All of these pass. Each module also has a type invariant (`TypeOK`, in
`DiskOptions` `CacheTypeOK`), which is proved. `PageMatchesMode` is proved as well and is a part of what
`FollowsPath` says.

The bounds and why they are enough:

* Two values of an input, a blank and a malformed one show every way in which a
  value of an earlier visit meets one of a later visit. The wizard is split in
  two runs because the inputs before the network page and those after it do not
  constrain each other; together the two fire every action, and late answers are in
  both. Two different non-blank passwords are left to the proof, which is for any set.
* `MiB = 4` and `Word = 2^30` in `partition_plan`: a quarter of a MiB is finer than every
  rounding, the word holds sizes up to 256 TiB and still
  overflows for a size the regular expression accepts. The proofs need neither.
* Three disks: an installation disk, a data disk and one to wipe. A mark that
  moves needs two options.
* Two requests in the VIP page (`Slots`): the writes of one meet those of
  another or of the user. More requests only repeat this.
* Two goroutines and two keys in the network page (`Jobs`, `MaxHasty`): one that
  edits the network under the first goroutine and one that starts the second.
* Two calls in `nm_profiles`, which are interchangeable (`SYMMETRY`): the page
  can start no more before the spinner takes the keyboard. The VLAN numbers are
  those at which the two conditions for a VLAN interface could differ.
* Five devices are the least that hold each identity once: a disk with two paths,
  two disks with one serial number and different WWNs, one without either.
* In `dashboard` nothing is bounded but the number of nodes, which is not
  modelled: a fact is true or false.
* `FetchRetries = 2` for 30 and `WebhookMaxRetries = 1` for 3: first attempt, a
  retry and the last failure.

**Fairness.** `CheckEnds` assumes weak fairness of the goroutine (`TaskStep`) and
of the callbacks: HTTP clients and NTP dials have timeouts, `retryOnError` a last
attempt, nmcli ends, and gocui runs every queued callback. Nothing is assumed of
the user. `InstallEnds` assumes weak fairness of the goroutine's steps: requests
have timeouts and the scripts end. `KeyboardComesBack` assumes weak fairness of
each goroutine of the network page and of its callback, again because every
command it runs has a time limit; the spinner's writes need none.
`SetupEndsEverywhere` and `TellsReadiness` assume weak fairness of each polling
goroutine: a ticker ticks, kubectl and curl return, gocui runs what was queued.
`TellsReadiness` supposes in addition, in its own antecedent, that the cluster
stays up and nobody leaves the console. Nothing needs strong fairness, and nothing
is assumed about the outcome of a call.

### Where the code and its own words disagree

Two runs end with a counterexample to what a tip or a comment says;
`PROJECT.json` quotes the lines under "findings".

| run | property | what TLC shows |
|---|---|---|
| `disk_wipe_spares` | `WipeSparesChosenDisks` | a disk on the wipe list becomes the installation or data disk and stays on the list |
| `vip_esc` | `EscIsSafe` | leaving the page during a request ends the installer when the answer comes |

The same modules state more of these, which TLC also refutes when they are added
to the configuration of the passing run (the ones about the wipe list need
`Installed = {"sda", "sdb", "sdc"}`):

| property | what the source says | what its code does |
|---|---|---|
| `Wizard!SpinnerKeepsKeyboard` | `install_panels.go:3123` (and 1080, 3004) "focus on task panel to prevent input" | request a VIP by DHCP, Esc to the DNS page, Enter: when the request fails, line 2804 shows the VIP page and takes the keyboard from the spinner while the goroutine of the DNS page works |
| `InstallFlow!DataDiskIsAnother` | `install_panels.go:2688` "Clear the DataDisk field if it's identical to the installation disk" | line 2689 compares paths; an installation disk named by a link (`validator.go:117`) and a data disk named by its device are one disk, which `harv-install:519` formats after the installation |
| `Wizard!BlankDNSUsesDefault` | `constant.go:101` "Leave blank to use default DNS." | blanking the DNS page on a later visit keeps the servers of the earlier one |
| `DiskPage!WipesOnlyMarked` | `select.go:121` SPACE: "select options" | marks are positions; when the options change a mark stands at another disk |
| `VipPage!StaticModeUnset` | `install_panels.go:2856` "it is still empty in static mode" | after a DHCP answer the mode stays `dhcp` when the user picks a static address, which is then refused |
| `VipPage!LeftStaysLeft` | `panel.go:109` "Use ESC to go back to previous page" | a DHCP request that fails later shows the method list over the page the user went to (`install_panels.go:2804`) |
| `InstallFlow!WipeAllSparesInstallDisk` | `util.go:562-563` "find all non installation disks with COS_ prefixed labels and add them to a list for wiping" | an installation disk named by a link is itself added to the disks to wipe |
| `NMProfiles!HostnameRestored` | `network.go:107-108` "Restore the system hostname to what it was before" | a failed call returns before that; the name stays cleared and the next call takes "localhost" for the name to restore |
| `DiskOptions!WipeSparesDataPaths` | `util.go:1118-1119` "filter disks to ignore disks which may be used as base install device or an additional data disk" | names are compared; a data disk whose other path the cache keeps now is wiped |
| `DiskPage!ConfirmedDisksAreValid` | `install_panels.go:663` "At this point the disk configuration is valid." | `validateAllDiskSizes` reports small disks by its first result, which line 659 discards; `gotoNextPage` checks again |
| `DiskPage!TabShowsOptions` | `dropdown.go:31` "choose other options" | `selectedIndexes` is shorter than options that have grown; `select.go:191` panics |
| `DiskPage!BlankSizeIsDefault` | `constant.go:104` "Leave it blank to use the default value." | a blank size does not match `sizeRegexp` and is refused |
| `PartitionPlan!AskedSizeInstalls` | `install_panels.go:692` "Make sure that the specified size meets the requirements." | the page compares with bytes, `cos.go:812` with whole GiB; a size in between is accepted and then fails |
| `PartitionPlan!OverwrittenWhenTooLarge` | `disk_test.go:108` "Partition size should be overwritten when too large" | with `skipChecks` on a disk below `fixedOccupiedSize` the difference wraps around and every size is kept |
| `PartitionPlan!ZeroSizeFails` | `disk_test.go:114` "Should fail when partition size is too small" | with `skipChecks` size 0 is planned; the test does not look at the error |
| `InstallFlow!InstallModeNeedsNoRoute` | `install_panels.go:121-123` "...ignoring network / rancherd setup" | `installModeOnly` is computed before the remote file is merged |
| `InstallFlow!MethodCaseInsensitive` | `install_panels.go:2594` "case insensitive for network method and vip mode" | line 2572 compares before the method is lower-cased |

## Proofs

`tlapm` checks each of the eight modules with theorems by itself. Every invariant
below was first checked by TLC on the instance of its run, the inductive ones
included.

| module | theorem | statement |
|---|---|---|
| `WizardProofs` | `WizardTypeCorrect` | `Spec => []TypeOK` of `Wizard` |
| | `WizardSafe` | `Spec => [](AnswerFindsItsPage /\ PageMatchesMode /\ CreateIsFresh /\ JoinServerAnswered /\ PasswordAgreed)`; the first says that only a late answer takes a page from its check |
| | `AnswersFindTheirPage`, `CreatedClusterIsFresh`, `JoinedServerHasAnswered`, `StoredPasswordAgreed` | its parts, one by one |
| | `StaticNodeHasDNS`, `HostnamePassedCheck`, `ClusterDNSFits`, `ConfirmationTruthful` | `Spec => []P` for `StaticHasDNS`, `HostnameChecked`, `ClusterDNSInServiceNet`, `ConfirmTruthful` |
| | `NTPWarningPrecedes`, `EscAlwaysReturns` | `Spec => P` for the action properties `NTPKeptOnlyAfterWarning` and `EscReturns` |
| | `WizardFollowsPath` | `Spec => FollowsPath`: `Wizard` implements `WizardPath` |
| `DiskProofs` | `PlanTypeCorrect` | `Spec => []TypeOK` of `PartitionPlan` |
| | `PlannedLayoutFits`, `RefusedByRoundingOnly` | `Spec => []P` for `SharedLayoutFits`, `RefusalIsRounding` |
| | `CacheTypeCorrect` | `CacheSpec => []CacheTypeOK` of `DiskOptions` |
| | `DisksOfferedOnce`, `InstallPathsSpared` | `CacheSpec => []P` for `OfferedOnce`, `WipeSparesInstallPaths` |
| `NMProfilesProofs` | `NMTypeCorrect` | `Spec => []TypeOK` of `NMProfiles` |
| | `OriginalsStayPristine`, `SuccessAppliesExactly`, `DNSMeetsAddress`, `HostnameStays` | `Spec => []P` for `OriginalsPristine`, `AppliedExactly`, `DNSReachesAddress`, `HostnameKept` |
| `DiskPageProofs` | `DiskPageTypeCorrect` | `Spec => []TypeOK` of `DiskPage` |
| | `OpenListShowsMarks` | `Spec => []ListShowsMarks`: the marks of the open list are in range and are what Enter stores |
| | `LeftDisksAreValid`, `MBRAlwaysFits`, `ShownDisksAreFormatted`, `RefusalsAreShown` | `Spec => []P` for `LeavesWithValidDisks`, `MBRFitsDisk`, `FormatsWhatIsShown`, `NoSilentRefusal` |
| `VipPageProofs` | `VipTypeCorrect` | `Spec => []TypeOK` of `VipPage` |
| | `ConfirmedVipStays` | `Spec => []ConfirmedVipKept` |
| `InstallFlowProofs` | `InstallTypeCorrect` | `Spec => []TypeOK` of `InstallFlow` |
| | `WritesCleared`, `WritesValidated`, `ReportsStayTruthful`, `WipesForeign` | `Spec => []P` for `WritesOnlyWhenCleared`, `WritesValidConfig`, `ReportsTruthful`, `WipesOnlyForeign` |
| `NetworkPageProofs` | `NetworkTypeCorrect` | `Spec => []TypeOK` of `NetworkPage` |
| | `PageLeavesAsApplied`, `StaticAlwaysComplete`, `DHCPAlwaysForgets`, `FirstAttemptIsSafe` | `Spec => []P` for `LeavesAsApplied`, `StaticIsComplete`, `DHCPForgetsStatic`, `FirstAttemptLocks` |
| `DashboardProofs` | `DashboardTypeCorrect` | `Spec => []TypeOK` of `Dashboard` |
| | `SetupStaysFirst`, `ReadyAlwaysHasURL` | `Spec => []P` for `SetupComesFirst`, `ReadyHasURL` |
| | `SetupIsOver` | `Spec => SetupNeverReturns`, an action property |

*Wizard.* The assumptions are that `default` is a role, that the default NTP list
is a possible input, and that the blank string is not malformed, padded or a
service network. The inputs may be any sets. `JoinServerAnswered` and
`PasswordAgreed` are not inductive: nothing in them says why the configuration
holds the address on display when a page behind them is entered. The inductive
invariant `IInv` adds `ServerAsked` (while the address page's goroutine works or
has succeeded, its argument is the address on display, well-formed, and after
success stored) and `PasswordTyped` (the confirmation panel is only reached with
a non-blank password). `AnswerFindsItsPage` is needed everywhere: without it a
user could change the page or the input under a running check. It does not say that
a check is never disturbed, which is false (`SpinnerKeepsKeyboard`), but that nothing
disturbs it except a late answer of the network or the VIP page, after which the model
stops (`SafeLate`). The type
invariant is split into named parts, so that each action is checked only against
the parts it changes.

The settings have an invariant of their own, `SettingsInv`. A property such as
`ConfirmTruthful` speaks of a page far behind the ones that store the values, so
the invariant says of each setting that it is settled on every page behind its own
(`MethodInv`, `DNSInv`, `NTPInv`, `KeysInv`), and that a goroutine which has
succeeded has stored the input it was started with. Three lemmas about all actions
make this short: the pages behind a setting are entered only through its own page
(`Gates`), nobody else writes it (`Writers`), and a goroutine belongs to its page
(`Tasks`). For `NTPKeptOnlyAfterWarning` the invariant adds that an input counts as
checked without a warning only while the answer of a successful check is queued.

`EscReturns` compares with a history of any length. `TrailInv` says that every page
of the history was reached from the one that Esc shows for it *now*; since the mode
decides on both ways, the mode may only change where the history holds nothing that
depends on it, which is on the first pages (`TrailAtStart`).

*DiskPage.* The assumptions are that lists of disks are sequences of known disks
with natural sizes. `WidgetsInv` ties the drop-downs to the configuration: the
installation disk always, the data disk behind its panel. `ChosenInv` says which
panels are in use for the role and that MBR was only asked for on BIOS machines. None
of these depends on the list of disks to wipe. The type invariant does: a disk that is
marked for wiping holds an earlier installation. What the loop of
`getWipeDisksOptions` returns is shown by induction (`OptionsInstalled`), as for
`DiskOptions` below, and `ListShowsMarks` adds that opening the list either ends the
program or leaves a mark for each line. `DiskPage!TabShowsOptions` and `WipesOnlyMarked`
above are what it does not say: the marks may be those of another list.

*VipPage.* The assumptions are that a lease has an address that is neither blank nor
malformed and a hardware address, and that blank is malformed. Any number of
requests may be in flight. `BehindInv` says that behind the page no panel of it is
open, so that the callback of a late answer ends the program instead of going
unnoticed; `LeaseInv` that without a race at most one request is between its writes
and the address it wrote is still there.

*InstallFlow.* The assumptions are that configurations and remote files are records
over `Text` with disks that are finite in number and named by themselves. The
inductive invariant `Safe` follows the goroutine: behind the validator the
configuration has passed it and the warnings are cleared (`PassedInv`, `AckedInv`),
an installed node takes its own way (`NewNodeInv`), where the disk is at each step
and in each loop over webhooks (`DiskInv`), and that nothing but more such reports
follows a report of failure (`EventInv`). `WipeInv` says that the list of disks is
the validated one followed by what was added, and what was wiped its beginning.

*PartitionPlan.* The assumptions are that a MiB is at least one unit, that 250GiB
fit in a word, and that disk sizes are values of a word. The argument: without
`skipChecks` the parser only accepts on a disk of at least 250GiB, so the
subtraction of the fixed partitions does not wrap around and an accepted size is
at most what they leave; rounding the disk down to GiB and the size down to MiB
can only make both smaller, and 150GiB is a whole number of MiB, so the lower
bound survives the rounding. This holds whatever the product of number and unit
overflows to. `AskedSizeInstalls` above is false because page and installer round
differently; `RefusalIsRounding` says by how much. Its invariant `AskedInv` is that
until the layout is made a size the page took still passes the page's check; the
installer's differs in the size of the disk only, by less than a GiB, and a disk of
250GiB keeps its minimum when it is rounded down.

*DiskOptions.* The assumptions are `NamesAssumption` and `IdentityAssumption`. The
core is `FilterKeepsOnce`, which says what `filterUniqueDisks` returns for a list of any
length. `LoopInv` holds after each iteration: every key of every device seen so far is
in the map, and a device that is kept for one of its keys is kept for its main key,
the WWN if it has one. Two paths to one disk have the same main key and volumes of a RAID
controller different ones, so that each disk is kept exactly once. The induction is
by the least number of iterations after which the invariant fails
(`LeastElement`, from the library's theorem that `<` is well-founded), because the
prover cannot use induction theorems that take an operator; the same principle
shows that the recursive definition of the loop has a solution (`LoopExists`).
`WipeSparesInstallPaths` needs `ClearedInv`: from the validator to the end of the wiping
the installation disk is one of those offered, by the very name that
`getWipeDisksOptions` compares, and the cache is not read again. Since each disk is offered
once, no other path to it is.

*Refinement.* Initial states map to initial states. For each action of `Wizard`
the page before and after it is compared with `Order`: it stays, is next to it in
the mode, or is the first page and the mode changes. `PageMatchesMode` is what
makes this work: without it a page of another mode could be current, for which
`Order` has no neighbours. The steps of goroutines map to stuttering because
`AnswerFindsItsPage` holds and their callbacks to an advance. A late answer maps to
`Stray` (`LateMoves`), or to stuttering when it only stores the method.

*NMProfiles.* Any number of calls, any networks. `OriginalsPristine` is not
inductive: the copy is taken from the files, so one must know that nobody has
written them yet. `Pristine` says that before the save either no installation has
begun, and then the files are those of the boot and every call is still on its way
to the save, or it has begun, and then nobody will save any more. Taking the copy
once is needed, and it is enough even with calls that overlap and saves that fail
half way. `Applied` says that without an overlap one call runs at a time, that past
the writing the files are the profiles of its network, and that a result of success
stands only until the next call begins. `DNSReachesAddress` follows from it for VLAN
numbers from 0 to 4094, which both validators require (`install_panels.go:1733`,
`validator.go:236`): the two conditions of the code differ above. `Named` says
that while nothing has failed a cleared name is owed by a call that will put it
back, and knows a name to put back.

*NetworkPage.* The assumptions are that typed numbers are integers and that texts
are of the five kinds. Two invariants are needed. `FlowInv` describes a run
without hasty keys: at most one goroutine works, none behind the page, and each
panel is reached only with the fields before it filled; a goroutine applies the
network that is in `mgmt`, and behind the page the network is usable and, with
DHCP, emptied. `AttemptInv` describes a page that
has not shown a message: then the spinner's panel may take the keyboard, exists
only while a goroutine works, and has the keyboard all that time.

*Dashboard.* Nothing is assumed of the facts or their changes. `IInv` adds to the
types that a result which says more than "Setting up" comes after the flag was set
and the flag after the chart was seen (`FlagFirst`), that a goroutine whose panel is
past the setup does not ask about it again (`NoWayBack`), that a URL was stored
before "Ready" was computed (`URLFirst`), that a goroutine holds a result only until
its panel is updated (`ResultsFresh`), that nothing survives the console
(`GoneIsFresh`) and that a chart that is there has been seen (`ChartRemembered`). `NoWayBack` is what the action property
needs: an update that is queued may not say "Setting up" when the panel has left it.

Only model-checked: liveness (`CheckEnds`, `InstallEnds`, `KeyboardComesBack`,
`SetupEndsEverywhere`, `TellsReadiness`), which the prover does not handle. Every
other property of a passing run is proved.

## What the models leave out

* Drawing, scrolling, cursor movement, texts, and characters that are typed but
  not yet entered.
* In `Wizard` the disk, network and VIP pages are atomic; their modules have the
  panels. Answers of the network and VIP pages that come after their page was left
  are in `Wizard`, but what keys do once such an answer has put a second page on
  display is not: no property of `Wizard` says anything of the configuration that
  a user reaches from there. The fields of the VIP and the network beyond the method,
  and keys pressed in the window before the spinner takes the keyboard, are in
  `VipPage` and `NetworkPage` only.
* `NetworkPage` takes an IPv6 address in the address field, as the page does; that
  the validator refuses it later is not followed up. Applying is one step there,
  and its steps are in `NMProfiles`; the two are not composed.
* `upAllLinks`, whose failure is only logged, and the macvlan interface that a
  DHCP request creates and removes.
* The goroutine of the dashboard that shows the node's name and address, which
  writes no variable another one reads.
* The wizard starts with an empty configuration. A configuration file without
  `automatic` may prefill fields; this start is not modelled.
* In `DiskPage` the disks of a machine do not change during a session; `DiskOptions`
  has those that do, without sizes.
* `InstallFlow` treats what the validator asks of fields it does not model as a
  check that may always fail, and the scripts as one step each. Failures of
  `SetKeybinding` and `ToCosInstallEnv` in `doInstall` are not among its steps.
* Data races are modelled as interleavings of the single assignments
  (`VipPage`), and of the two words of a Go string only where a reader of another
  goroutine may meet them (`Dashboard`).
* **Not modelled:** generated files (yip, elemental) and templates, which are pure
  renderings into text; preflight checks, which read `/proc`, dmidecode and
  ethtool and compare with constants; the upgrade page, to which no option leads;
  the shell scripts beyond one step each; process start-up and the parsing of the
  kernel command line.

## Plan

In this order:

1. Proofs: that each page's copy of a setting in `NetworkPage` and `VipPage` is the
   one `Wizard` takes for granted, as refinements of its atomic pages.
2. The wizard after a late answer: keys on the second page, two goroutines that work
   at once, and what both leave in the configuration.
3. Merge order and the validator's network, NTP and webhook checks in detail; the
   limits of the preflight checks.
