----------------------------- MODULE InstallFlow -----------------------------
(***************************************************************************)
(* The installation itself: the goroutine that the install panel starts    *)
(* (addInstallPanel of pkg/console/install_panels.go), the two ways it     *)
(* ends in (doInstall and configureInstalledNode of pkg/console/util.go)   *)
(* and the webhooks it reports to (pkg/console/webhooks.go).               *)
(*                                                                         *)
(* The goroutine is sequential, but every call it makes to the network, to *)
(* DHCP, to a disk or to a script may fail; "step" is the call it makes    *)
(* next. Its configuration comes from three places: the wizard or the      *)
(* kernel command line, the file it downloads, and DHCP.                   *)
(***************************************************************************)
EXTENDS Naturals, Sequences, SequencesExt, FiniteSets

CONSTANTS
  Text,               \* the strings a configuration may hold
  Locals,             \* configurations the installation may start with
  Remotes,            \* configurations the remote file may hold
  Disks,              \* the disks lsblk lists
  COSDisks,           \* those that hold an earlier installation
  DiskAt,             \* DiskAt[path]: the disk a path or symbolic link names
  FormattedURL,       \* FormattedURL[a]: the URL of a well-formed address a
  FetchRetries,       \* 30 in retryRemoteConfig
  WebhookMaxRetries   \* 3 in webhooks.go

Blank == ""

ASSUME TextAssumption == {Blank, "dhcp", "lease", "mac"} \subseteq Text
ASSUME DisksAssumption ==
  /\ IsFiniteSet(Disks) /\ Disks \subseteq Text /\ COSDisks \subseteq Disks
  /\ \A d \in Disks : DiskAt[d] = d
  /\ Blank \notin DOMAIN DiskAt
ASSUME URLAssumption == FormattedURL \in [DOMAIN FormattedURL -> Text]
ASSUME RetriesAssumption == FetchRetries \in Nat /\ WebhookMaxRetries \in Nat

VARIABLES
  step,               \* what the goroutine does next
  cfg,                \* the fields of HarvesterConfig it reads and writes
  alreadyInstalled, installModeOnly, preflightAck,
  warned,             \* preflightWarnings is not empty
  online,             \* the goroutine has configured the management network
  retries,            \* attempts that retryRemoteConfig has left
  webhooks,           \* the rendered webhooks
  call,               \* the loop over webhooks for one event, and what follows
  reports,            \* history: the requests made, by event and webhook
  wiped,              \* history: the disks handed to sgdisk -Z, in order
  os,                 \* what is on the installation disk
  said,               \* the message with which the goroutine gave up
  quitting,           \* Ctrl-C was pressed
  checked             \* history: the configuration that was validated

switches == <<alreadyInstalled, installModeOnly, preflightAck>>
record == <<reports, wiped, os, checked>>
vars == <<step, cfg, switches, warned, online, retries, webhooks, call,
          record, said, quitting>>

Methods == {Blank, "dhcp", "static", "DHCP"}
ToLower(s) == IF s = "DHCP" THEN "dhcp" ELSE s

ZeroConfig ==
  [automatic |-> FALSE, mode |-> Blank, method |-> Blank, vipMode |-> Blank,
   vip |-> Blank, vipHwAddr |-> Blank, serverURL |-> Blank, role |-> Blank,
   configURL |-> FALSE, device |-> Blank, dataDisk |-> Blank,
   forceMBR |-> FALSE, forceGPT |-> FALSE, skipChecks |-> FALSE,
   rawImage |-> FALSE, wipeAllDisks |-> FALSE, wipeDisks |-> <<>>, hooks |-> <<>>]

HookType == [event : Text, renders : BOOLEAN]
ConfigType ==
  [automatic : BOOLEAN, mode : Text, method : Text, vipMode : Text,
   vip : Text, vipHwAddr : Text, serverURL : Text, role : Text,
   configURL : BOOLEAN, device : Text, dataDisk : Text,
   forceMBR : BOOLEAN, forceGPT : BOOLEAN, skipChecks : BOOLEAN,
   rawImage : BOOLEAN, wipeAllDisks : BOOLEAN, wipeDisks : Seq(Text),
   hooks : Seq(HookType)]

ASSUME ConfigsAssumption == Locals \cup Remotes \subseteq ConfigType

\* mergo.Merge with WithAppendSlice: fields that are still zero are filled, lists
\* are appended to.
Merge(c, other) ==
  [f \in DOMAIN c |->
     IF f \in {"wipeDisks", "hooks"} THEN c[f] \o other[f]
     ELSE IF c[f] = ZeroConfig[f] THEN other[f] ELSE c[f]]

NoCall == [event |-> Blank, next |-> 1, tries |-> 0, then |-> Blank]

\* From the confirmation page the preflight page or the first page was passed; an
\* automatic run starts here, and is install-only when the mode is known already.
Init ==
  /\ cfg \in Locals
  /\ alreadyInstalled \in IF ~cfg.automatic /\ cfg.mode = "install"
                          THEN {FALSE} ELSE BOOLEAN
  /\ installModeOnly = (cfg.mode = "install" /\ ~alreadyInstalled)
  /\ preflightAck = ~cfg.automatic
  /\ warned \in IF alreadyInstalled THEN {FALSE} ELSE BOOLEAN
  /\ online = FALSE
  /\ step = "start" /\ retries = FetchRetries
  /\ webhooks = <<>> /\ call = NoCall /\ reports = {}
  /\ wiped = <<>> /\ os = "none" /\ said = Blank /\ quitting = FALSE
  /\ checked = ZeroConfig

Goto(s) == step' = s /\ UNCHANGED said
GiveUp(message) == step' = "ended" /\ said' = message

-----------------------------------------------------------------------------
(* Completing the configuration *)

NetworkKnown == cfg.method = "dhcp"

\* configureInstallModeDHCP: its failures are shown and ignored.
StartNetworkOfInstalledNode ==
  /\ step = "start"
  /\ IF alreadyInstalled /\ cfg.automatic /\ NetworkKnown
     THEN /\ online' = TRUE
          /\ \/ UNCHANGED cfg
             \/ /\ cfg.vipMode = "dhcp"
                /\ cfg' = [cfg EXCEPT !.vip = "lease", !.vipHwAddr = "mac"]
     ELSE UNCHANGED <<online, cfg>>
  /\ Goto("fetch")
  /\ UNCHANGED <<switches, warned, retries, webhooks, call, record, quitting>>

\* retryRemoteConfig and Merge.
FetchRemoteConfig ==
  /\ step = "fetch"
  /\ \/ ~cfg.configURL /\ Goto("network") /\ UNCHANGED <<cfg, retries>>
     \/ /\ cfg.configURL
        /\ \E r \in Remotes : cfg' = Merge(cfg, r)
        /\ Goto("network") /\ UNCHANGED retries
     \/ cfg.configURL /\ GiveUp("fail to load config") /\ UNCHANGED <<cfg, retries>>
  /\ UNCHANGED <<switches, warned, online, webhooks, call, record, quitting>>

RetriesStartOver == IF retries = 1 THEN FetchRetries ELSE retries - 1
RetriesAfterFailure == retries - 1

FetchFails ==
  /\ step = "fetch" /\ cfg.configURL
  /\ IF retries = 0 THEN GiveUp("fail to fetch config") /\ UNCHANGED retries
     ELSE Goto("fetch") /\ retries' = RetriesAfterFailure
  /\ UNCHANGED <<cfg, switches, warned, online, webhooks, call, record, quitting>>

Normalised(c) == [c EXCEPT !.method = ToLower(@), !.vipMode = ToLower(@)]

\* Lower-case the methods, look the interfaces up, configure the network of an
\* automatic installation.
ApplyNetwork ==
  /\ step = "network"
  /\ cfg' = Normalised(cfg)
  /\ \/ /\ Goto("vip")
        /\ online' = (online \/ (cfg.automatic /\ ToLower(cfg.method) = "dhcp"))
     \/ GiveUp("Can't apply networks") /\ UNCHANGED online
  /\ UNCHANGED <<switches, warned, retries, webhooks, call, record, quitting>>

needToGetVIPFromDHCP ==
  ToLower(cfg.vipMode) = "dhcp" /\ (cfg.vip = Blank \/ cfg.vipHwAddr = Blank)

GetVip ==
  /\ step = "vip"
  /\ IF needToGetVIPFromDHCP
     THEN \/ /\ cfg' = [cfg EXCEPT !.vip = "lease", !.vipHwAddr = "mac"]
             /\ Goto("serverURL")
          \/ GiveUp("fail to get vip") /\ UNCHANGED cfg
     ELSE Goto("serverURL") /\ UNCHANGED cfg
  /\ UNCHANGED <<switches, warned, online, retries, webhooks, call, record, quitting>>

FormatServerURL ==
  /\ step = "serverURL"
  /\ IF cfg.serverURL = Blank THEN Goto("preflight") /\ UNCHANGED cfg
     ELSE IF cfg.serverURL \notin DOMAIN FormattedURL
     THEN GiveUp("server url invalid") /\ UNCHANGED cfg
     ELSE Goto("preflight") /\ cfg' = [cfg EXCEPT !.serverURL = FormattedURL[@]]
  /\ UNCHANGED <<switches, warned, online, retries, webhooks, call, record, quitting>>

-----------------------------------------------------------------------------
(* The checks *)

AlwaysAcknowledged == TRUE
Acknowledged == cfg.skipChecks \/ preflightAck

\* The NIC speeds are only known now; they add to the warnings of the boot.
CheckWarnings ==
  /\ step = "preflight"
  /\ IF alreadyInstalled THEN Goto("route") /\ UNCHANGED warned
     ELSE \E slow \in BOOLEAN :
            /\ warned' = (warned \/ slow)
            /\ IF warned' /\ ~Acknowledged THEN GiveUp("preflight warnings")
               ELSE Goto("route")
  /\ UNCHANGED <<cfg, switches, online, retries, webhooks, call, record, quitting>>

CheckDefaultRoute ==
  /\ step = "route"
  /\ \/ Goto("validate")
     \/ GiveUp("Failed to check default route")
     \/ ~installModeOnly /\ cfg.method = "dhcp" /\ GiveUp("no default route")
  /\ UNCHANGED <<cfg, switches, warned, online, retries, webhooks, call, record, quitting>>

commonCheck(c) ==
  /\ c.mode \in {"create", "join", "install", "upgrade"}
  /\ c.mode = "create" => c.serverURL = Blank
  /\ c.mode = "join" => c.serverURL # Blank

checkVip(c) ==
  /\ c.vip # Blank
  /\ \/ c.vipMode = "dhcp" /\ c.vipHwAddr # Blank
     \/ c.vipMode \in {"static", "none"}

checkDevice(c) == c.device \in DOMAIN DiskAt /\ DiskAt[c.device] \in Disks

\* What the validator asks of the fields modelled here; what it asks of the others
\* (token, credentials, host name, disk sizes, addresses) may always fail.
Valid(c) ==
  /\ commonCheck(c)
  /\ checkDevice(c)
  /\ c.mode # "install" => c.method \in {"dhcp", "static"}
  /\ c.mode = "create" => checkVip(c)

SettledKeepsDataDisk(c) == [c EXCEPT !.forceGPT = ~c.forceMBR]

\* elemental knows no ForceMBR; a data disk that is the installation disk is none.
Settled(c) ==
  [c EXCEPT !.forceGPT = ~c.forceMBR,
            !.dataDisk = IF @ = c.device THEN Blank ELSE @]

ValidateConfig ==
  /\ step = "validate"
  /\ cfg' = Settled(cfg)
  /\ \/ Valid(cfg') /\ Goto("webhooks") /\ checked' = cfg'
     \/ GiveUp("Invalid configuration") /\ UNCHANGED checked
  /\ UNCHANGED <<switches, warned, online, retries, webhooks, call, reports, wiped,
                 os, quitting>>

-----------------------------------------------------------------------------
(* Webhooks *)

\* webhooks.Handle(event), then step s.
Report(event, s) ==
  /\ step' = "report"
  /\ call' = [event |-> event, next |-> 1, tries |-> 0, then |-> s]

\* One webhook that cannot be rendered leaves the list empty; the run goes on.
PrepareWebhooks ==
  /\ step = "webhooks"
  /\ webhooks' = IF \A i \in DOMAIN cfg.hooks : cfg.hooks[i].renders
                 THEN cfg.hooks ELSE <<>>
  /\ Report("STARTED", IF alreadyInstalled THEN "configure" ELSE "prepare")
  /\ UNCHANGED <<cfg, switches, warned, online, retries, record, said, quitting>>

Pending == {i \in DOMAIN webhooks : i >= call.next /\ webhooks[i].event = call.event}

\* The webhook that Handle is at: the first pending one.
Current(i) == i \in Pending /\ \A j \in Pending : i <= j

Requested(i) == reports' = reports \cup {[event |-> call.event, hook |-> i]}

RetryAllowed == call.tries < WebhookMaxRetries

\* A request that times out is repeated; any other failure, or one timeout too
\* many, ends the loop over the webhooks.
HandleWebhook(i) ==
  /\ step = "report" /\ Current(i)
  /\ Requested(i)
  /\ \/ call' = [call EXCEPT !.next = i + 1, !.tries = 0] /\ UNCHANGED step
     \/ /\ RetryAllowed
        /\ call' = [call EXCEPT !.tries = @ + 1] /\ UNCHANGED step
     \/ step' = call.then /\ call' = NoCall
  /\ UNCHANGED <<cfg, switches, warned, online, retries, webhooks, wiped, os, checked,
                 said, quitting>>

WebhooksHandled ==
  /\ step = "report" /\ Pending = {}
  /\ Goto(call.then)
  /\ call' = NoCall
  /\ UNCHANGED <<cfg, switches, warned, online, retries, webhooks, record, quitting>>

-----------------------------------------------------------------------------
(* doInstall and configureInstalledNode *)

KnownRoles == {Blank, "default", "management", "worker", "witness"}

\* configureInstalledNode: its configuration files and yip may fail.
ConfigureNode ==
  /\ step = "configure"
  /\ \/ cfg.role \in KnownRoles /\ Goto("ended") /\ os' = "configured"
     \/ GiveUp("Install failed") /\ UNCHANGED os
  /\ UNCHANGED <<cfg, switches, warned, online, retries, webhooks, call, reports,
                 wiped, checked, quitting>>

streamsImage == cfg.automatic /\ cfg.mode = "install" /\ cfg.rawImage

\* updateSystemSettings, roleSetup and generateEnvAndConfig, which points ConfigURL at
\* a file it wrote.
PrepareInstall ==
  /\ step = "prepare"
  /\ \/ /\ cfg.role \in KnownRoles
        /\ cfg' = [cfg EXCEPT !.configURL = TRUE]
        /\ Goto(IF streamsImage THEN "stream" ELSE "layout")
     \/ GiveUp("Install failed") /\ UNCHANGED cfg
  /\ UNCHANGED <<switches, warned, online, retries, webhooks, call, record, quitting>>

\* stream-disk, then the shutdown; no event reports how it went.
StreamImage ==
  /\ step = "stream"
  /\ \/ Goto("rebooted") /\ os' = "streamed"
     \/ GiveUp("Install failed") /\ os' \in {"broken", "streamed"}
  /\ UNCHANGED <<cfg, switches, warned, online, retries, webhooks, call, reports,
                 wiped, checked, quitting>>

WipeOptionsUnfiltered(c) == COSDisks

\* getWipeDisksOptions, which compares paths.
WipeOptions(c) == COSDisks \ {c.device, c.dataDisk}

ShouldCreateDataPartitionOnOsDisk ==
  cfg.role # "witness" /\ cfg.dataDisk = Blank /\ ~cfg.forceMBR

CreateLayout ==
  /\ step = "layout"
  /\ \/ /\ Goto("wipe")
        /\ cfg' = IF ~cfg.wipeAllDisks THEN cfg
                  ELSE [cfg EXCEPT !.wipeDisks = @ \o SetToSeq(WipeOptions(cfg))]
     \/ ShouldCreateDataPartitionOnOsDisk /\ GiveUp("Install failed") /\ UNCHANGED cfg
  /\ UNCHANGED <<switches, warned, online, retries, webhooks, call, record, quitting>>

\* sgdisk -Z, partprobe. A failure stops the installation with the disk wiped or not.
WipeDisk ==
  /\ step = "wipe" /\ Len(wiped) < Len(cfg.wipeDisks)
  /\ wiped' = Append(wiped, cfg.wipeDisks[Len(wiped) + 1])
  /\ UNCHANGED <<step, said>> \/ GiveUp("Install failed")
  /\ UNCHANGED <<cfg, switches, warned, online, retries, webhooks, call, reports, os,
                 checked, quitting>>

\* A failure to save elemental's configuration returns no error, the dummy route
\* of an install-only run may fail.
SaveElementalConfig ==
  /\ step = "wipe" /\ Len(wiped) = Len(cfg.wipeDisks)
  /\ \/ Goto("harvInstall")
     \/ GiveUp(Blank)
     \/ installModeOnly /\ GiveUp("Install failed")
  /\ UNCHANGED <<cfg, switches, warned, online, retries, webhooks, call, record, quitting>>

FailureReportedAsSuccess == "SUCCEEDED"
FailureEvent == "FAILED"

HarvInstall ==
  /\ step = "harvInstall"
  /\ \/ os' = "installed" /\ Report("SUCCEEDED", "reboot") /\ UNCHANGED said
     \/ os' = "broken" /\ Report(FailureEvent, "ended") /\ said' = "Install failed"
  /\ UNCHANGED <<cfg, switches, warned, online, retries, webhooks, reports, wiped,
                 checked, quitting>>

Reboot ==
  /\ step = "reboot"
  /\ \/ ~quitting /\ Goto("rebooted") /\ UNCHANGED call
     \/ Report("FAILED", "ended") /\ said' = "Install failed"
  /\ UNCHANGED <<cfg, switches, warned, online, retries, webhooks, record, quitting>>

\* "Enable CTRL-C to stop system from rebooting after installation": the handler
\* cancels the shutdown and ends the main loop.
CancelReboot ==
  /\ step = "reboot" /\ ~quitting
  /\ quitting' = TRUE
  /\ UNCHANGED <<step, cfg, switches, warned, online, retries, webhooks, call, record, said>>

\* The process exits, wherever the goroutine is by then.
Exit ==
  /\ quitting /\ step \notin {"ended", "exited"}
  /\ Goto("exited")
  /\ UNCHANGED <<cfg, switches, warned, online, retries, webhooks, call, record, quitting>>

-----------------------------------------------------------------------------
Terminal == {"ended", "exited", "rebooted"}
Ended == step \in Terminal /\ UNCHANGED vars

InstallStep ==
  \/ StartNetworkOfInstalledNode \/ FetchRemoteConfig \/ FetchFails \/ ApplyNetwork
  \/ GetVip \/ FormatServerURL \/ CheckWarnings \/ CheckDefaultRoute \/ ValidateConfig
  \/ PrepareWebhooks \/ WebhooksHandled \/ ConfigureNode \/ PrepareInstall
  \/ StreamImage \/ CreateLayout \/ WipeDisk \/ SaveElementalConfig \/ HarvInstall
  \/ Reboot \/ Exit
  \/ \E i \in DOMAIN webhooks : HandleWebhook(i)

Next == InstallStep \/ CancelReboot \/ Ended

Spec == Init /\ [][Next]_vars

\* The goroutine is never blocked for ever: requests have timeouts, scripts end.
FairSpec == Spec /\ WF_vars(InstallStep)

-----------------------------------------------------------------------------
(* Properties *)

\* A disk has been written to.
Written == wiped # <<>> \/ os \in {"installed", "broken", "streamed"}

Events == {"STARTED", "SUCCEEDED", "FAILED"}

\* Type invariant of the installation.
TypeOK ==
  /\ step \in {"start", "fetch", "network", "vip", "serverURL", "preflight", "route",
               "validate", "webhooks", "report", "configure", "prepare", "stream",
               "layout", "wipe", "harvInstall", "reboot"} \cup Terminal
  /\ cfg \in ConfigType /\ checked \in ConfigType
  /\ {alreadyInstalled, installModeOnly, preflightAck, warned, online, quitting}
       \subseteq BOOLEAN
  /\ retries \in 0..FetchRetries
  /\ webhooks \in Seq(HookType)
  /\ call \in [event : Events \cup {Blank}, next : Nat, tries : 0..WebhookMaxRetries,
               then : {Blank, "configure", "prepare", "reboot", "ended"}]
  /\ reports \subseteq [event : Events, hook : Nat]
  /\ wiped \in Seq(Text)
  /\ os \in {"none", "configured", "installed", "broken", "streamed"}
  /\ said \in {Blank, "fail to load config", "fail to fetch config", "Can't apply networks",
               "fail to get vip", "server url invalid", "preflight warnings",
               "Failed to check default route", "no default route",
               "Invalid configuration", "Install failed"}

\* "When installing via PXE, if any checks fail, installation will abort": nothing is
\* written to a disk of a node with preflight warnings, those that were only found
\* during the installation included, unless the user acknowledged them or asked to
\* skip the checks; and never to a disk of an installed node.
WritesOnlyWhenCleared ==
  Written => ~alreadyInstalled /\ (warned => cfg.skipChecks \/ preflightAck)

\* What is installed passed the validator after the last change to it, whatever the
\* wizard, the remote file and DHCP contributed: the mode has what it needs, the data
\* disk has another path than the installation disk, the partition table is the one
\* that was asked for. Two paths may still name one disk, see DataDiskIsAnother.
WritesValidConfig ==
  Written => /\ Valid(cfg)
             /\ cfg.dataDisk # cfg.device
             /\ cfg.forceGPT = ~cfg.forceMBR
             /\ [cfg EXCEPT !.configURL = checked.configURL,
                            !.wipeDisks = checked.wipeDisks] = checked

Reported(e) == \E r \in reports : r.event = e

\* Webhooks hear of a success only when harv-install succeeded, of a failure only when
\* it or the reboot after it failed, and of nothing for a configuration that was
\* refused (doInstall's calls of webhooks.Handle).
ReportsTruthful ==
  /\ Reported("SUCCEEDED") => os = "installed"
  /\ Reported("FAILED") => os = "broken" \/ (os = "installed" /\ step # "rebooted")
  /\ reports # {} => Valid(checked)

\* With "WipeAllDisks" the disks of earlier installations are wiped, and, when all
\* disks are named by their device paths, neither the installation disk nor the data
\* disk is among the disks added.
WipesOnlyForeign ==
  LET added == {wiped[i] : i \in Len(checked.wipeDisks) + 1 .. Len(wiped)}
  IN  /\ added \subseteq COSDisks
      /\ ~cfg.wipeAllDisks => added = {}
      /\ {cfg.device, cfg.dataDisk} \cap added = {}
      /\ step = "harvInstall" /\ cfg.wipeAllDisks
           => COSDisks \ {cfg.device, cfg.dataDisk} \subseteq added

\* Every installation comes to an end, also when a server never answers.
InstallEnds == <>(step \in Terminal)

-----------------------------------------------------------------------------
(* Statements of the source that its code does not keep *)

\* "find all non installation disks with COS_ prefixed labels and add them to a list
\* for wiping" (doInstall): the installation disk is not among the disks added.
WipeAllSparesInstallDisk ==
  \A i \in Len(checked.wipeDisks) + 1 .. Len(wiped) : wiped[i] # DiskAt[cfg.device]

\* "Clear the DataDisk field if it's identical to the installation disk": what is
\* formatted as the data disk is not the disk the system was installed on, also when
\* one of the two is named by a link ("Support using path like /dev/disks/by-id/xxx").
\* The installer compares the paths.
DataDiskIsAnother ==
  os = "installed" /\ cfg.dataDisk \in DOMAIN DiskAt
    => DiskAt[cfg.dataDisk] # DiskAt[cfg.device]

\* "during automatic install we are only copying binaries and ignoring network /
\* rancherd setup" (layoutInstall): an automatic run in mode "install" is not refused
\* for want of a default route.
InstallModeNeedsNoRoute ==
  said = "no default route" => ~(cfg.automatic /\ cfg.mode = "install" /\ ~alreadyInstalled)

\* "case insensitive for network method and vip mode": an installed node that
\* configures itself has configured its network before it downloads anything.
MethodCaseInsensitive ==
  step = "fetch" /\ alreadyInstalled /\ cfg.automatic /\ ToLower(cfg.method) = "dhcp"
    => online
=============================================================================
