------------------------------- MODULE Wizard -------------------------------
(***************************************************************************)
(* The interactive installer: the pages of pkg/console/install_panels.go,  *)
(* the keys that move between them and the background checks five of them  *)
(* start.                                                                  *)
(*                                                                         *)
(* gocui runs every key handler and every g.Update callback on one thread. *)
(* The pages "dnsServers", "serverUrl", "ntpServers", "sshKey" and         *)
(* "cloudInit" do their slow work in a goroutine; the Enter handler moves  *)
(* the focus to the spinner panel, which has no key bindings, the          *)
(* goroutine writes the configuration off the UI thread (the *Task         *)
(* actions) and then queues a callback (the *Done actions and TaskFailed)  *)
(* that shows a page again.                                                *)
(*                                                                         *)
(* The disk, network and VIP pages have many panels; here each is one page *)
(* with its exits. The network and VIP pages have goroutines too, and may  *)
(* be left before these answer. Such a late answer shows a panel over      *)
(* whatever page the user has reached by then (LateAnswer). The model ends *)
(* there: two pages are on display and two goroutines may be running.      *)
(***************************************************************************)
EXTENDS Naturals, Sequences

CONSTANTS
  Roles,            \* roles offered to a joining node, "default" among them
  PasswordInputs,   \* what may be typed in the password panels
  ServerURLInputs,  \* ... as the management address
  HostnameInputs,   \* ... as the host name
  OSHostnames,      \* names the system may have got from DHCP; "" for none
  DNSInputs,        \* ... as the (trimmed) list of DNS servers
  NTPInputs,        \* ... as the list of NTP servers
  PaddedNTP,        \* the NTP inputs with a leading or trailing space
  DefaultNTP,       \* the list the NTP page starts with
  TokenInputs,      \* ... as the cluster token
  ProxyInputs,      \* ... as the proxy address
  SSHKeyInputs,     \* ... as the URL of the SSH keys
  ConfigURLInputs,  \* ... as the URL of a remote configuration
  PodCIDRInputs,    \* ... as the pod network
  ServiceNets,      \* well-formed service networks
  ServiceAddrs,     \* ServiceAddrs[n]: the cluster DNS addresses inside n
  Malformed         \* the inputs that the syntax checks of their field reject

Blank == ""

ASSUME RolesAssumption == "default" \in Roles
ASSUME NTPAssumption == DefaultNTP \in NTPInputs \ PaddedNTP
ASSUME BlankAssumption == Blank \notin Malformed \cup PaddedNTP \cup ServiceNets

VARIABLES
  page,             \* the panel shown last
  focus,            \* gocui's current view: that panel or the spinner panel
  task,             \* the goroutine of the page that was left waiting
  cfg,              \* the fields of HarvesterConfig that the pages set
  ui,               \* userInputData
  method,           \* mgmtNetwork.Method
  env,              \* the proxy variables of the process environment
  installModeOnly,
  alreadyInstalled,
  preflightAck,
  late,             \* the pages left with a goroutine that may not have answered
  trail,            \* history: the pages passed to reach this one
  ntpWarned         \* history: NTP inputs refused with "Press Enter again"
                    \* since the page was entered

vars == <<page, focus, task, cfg, ui, method, env, installModeOnly,
          alreadyInstalled, preflightAck, late, trail, ntpWarned>>

PasswordPanels == {"osPassword", "osPasswordConfirm"}
ClusterNetworkPanels == {"podCIDR", "serviceCIDR", "clusterDNS"}
AsyncPages == {"dnsServers", "serverUrl", "ntpServers", "sshKey", "cloudInit"}
LatePages == {"network", "vip"}
Terminal == {"install", "halted", "exited", "overtaken"}

Pages == {"preflightCheck", "askCreate", "askRole", "disk", "network",
          "hostname", "vip", "token", "proxy", "confirmInstall"}
         \cup PasswordPanels \cup ClusterNetworkPanels \cup AsyncPages \cup Terminal

\* Panels shown together are one page.
PageOf(p) == IF p \in PasswordPanels THEN "password"
             ELSE IF p \in ClusterNetworkPanels THEN "clusterNetwork" ELSE p

ServiceAddresses == UNION {ServiceAddrs[n] : n \in ServiceNets}

NoTask == [page |-> "none", arg |-> Blank, state |-> "idle"]

\* strings.Split(s, ","): never the empty list, not even for "".
Split(s) == <<s>>

\* getFormattedServerURL adds the scheme and the port; an address that is not
\* an IP or a domain, has a path or another port than 443 is Malformed.
getFormattedServerURL(addr) == <<"https", addr, "443">>

GetEncryptedPasswd(p) == <<"$6$", p>>

\* The lines of the file at url, each of which parsed as a key.
KeysAt(url) == <<"keys of", url>>

\* A host name that is still unset takes the system's (checkDHCPHostname).
checkDHCPHostname(name, h) == IF name = Blank THEN h ELSE name

-----------------------------------------------------------------------------
Init ==
  /\ alreadyInstalled \in BOOLEAN
  /\ page \in IF alreadyInstalled THEN {"askCreate"}
              ELSE {"askCreate", "preflightCheck"}
  /\ preflightAck = (page = "askCreate")
  /\ focus = "panel"
  /\ task = NoTask
  /\ cfg = [mode |-> Blank, role |-> Blank, password |-> <<>>,
            serverURL |-> <<>>, method |-> Blank, podCIDR |-> Blank,
            serviceCIDR |-> Blank, clusterDNS |-> Blank, hostname |-> Blank,
            dns |-> <<>>, token |-> Blank, ntp |-> <<>>, sshKeys |-> <<>>,
            configURL |-> Blank]
  /\ ui = [serverURL |-> Blank, sshKeyURL |-> Blank, password |-> Blank,
           passwordConfirm |-> Blank, dns |-> Blank, ntp |-> DefaultNTP,
           ntpChecked |-> FALSE]
  /\ method = Blank
  /\ env = [HTTP_PROXY |-> Blank, HTTPS_PROXY |-> Blank]
  /\ installModeOnly = FALSE
  /\ late = {}
  /\ trail = <<>>
  /\ ntpWarned = {}

-----------------------------------------------------------------------------
(* Moving between pages *)

KeyWhateverTheFocus(p) == page = p

\* A key reaches the handlers of panel p.
Key(p) == page = p /\ focus = "panel"

\* The DHCP request of the VIP page does not take the keyboard, and the spinner of the
\* network page takes it only with its first write: a key may leave either page, or
\* start its goroutine again, before the goroutine has answered.
LeavesUnanswered ==
  late' \in {late, IF page \in LatePages THEN late \cup {page} ELSE late}

\* Close this page and show the next one.
Forward(q) ==
  /\ page' = q
  /\ LeavesUnanswered
  /\ trail' = Append(trail, PageOf(page))

\* Close this page and show an earlier one.
Back(q) ==
  /\ page' = q
  /\ LeavesUnanswered
  /\ trail' = IF trail = <<>> THEN <<>> ELSE SubSeq(trail, 1, Len(trail) - 1)

\* Show another panel of the same page, or show this one again.
Within(q) == page' = q /\ UNCHANGED <<late, trail>>

\* Focus the spinner panel and start the goroutine with what was typed.
StartTask(input) ==
  /\ focus' = "spinner"
  /\ task' = [page |-> page, arg |-> input, state |-> "running"]
  /\ UNCHANGED <<page, late, trail>>

Running(p) == task.page = p /\ task.state = "running" /\ page # "overtaken"

Answer(outcome) ==
  /\ task' = [task EXCEPT !.state = outcome]
  /\ UNCHANGED <<page, focus, late, trail>>

NoTaskChange == UNCHANGED <<focus, task>>
Switches == <<installModeOnly, alreadyInstalled, preflightAck>>

-----------------------------------------------------------------------------
(* Hardware warnings, mode and role *)

PreflightProceed ==
  /\ Key("preflightCheck")
  /\ Forward("askCreate")
  /\ preflightAck' = TRUE
  /\ NoTaskChange
  /\ UNCHANGED <<cfg, ui, method, env, installModeOnly, alreadyInstalled, ntpWarned>>

\* "no" on the warnings page or on the confirmation page: reboot.
Halt ==
  /\ \/ Key("preflightCheck")
     \/ Key("confirmInstall")
  /\ Within("halted")
  /\ NoTaskChange
  /\ UNCHANGED <<cfg, ui, method, env, Switches, ntpWarned>>

RoleKept(m) == cfg.role
RoleFor(m) == IF m = "create" THEN "default" ELSE cfg.role

ServerURLFor(m) == IF m = "create" THEN <<>> ELSE cfg.serverURL

AskCreateEnter(m) ==
  /\ Key("askCreate")
  /\ m = "install" => ~alreadyInstalled
  /\ installModeOnly' = (m = "install")
  /\ cfg' = [cfg EXCEPT !.mode = m,
                        !.role = RoleFor(m), !.serverURL = ServerURLFor(m)]
  /\ ui' = [ui EXCEPT !.serverURL = IF m = "create" THEN Blank ELSE @]
  /\ Forward(IF m = "join" THEN "askRole"
             ELSE IF alreadyInstalled THEN "network" ELSE "osPassword")
  /\ NoTaskChange
  /\ UNCHANGED <<method, env, alreadyInstalled, preflightAck, ntpWarned>>

AskRoleEnter(r) ==
  /\ Key("askRole")
  /\ cfg' = [cfg EXCEPT !.role = r]
  /\ Forward(IF alreadyInstalled THEN "network" ELSE "osPassword")
  /\ NoTaskChange
  /\ UNCHANGED <<ui, method, env, Switches, ntpWarned>>

-----------------------------------------------------------------------------
(* Password *)

PasswordEnter(p) ==
  /\ Key("osPassword")
  /\ ui' = [ui EXCEPT !.password = p]
  /\ Within(IF p = Blank THEN "osPassword" ELSE "osPasswordConfirm")
  /\ NoTaskChange
  /\ UNCHANGED <<cfg, method, env, Switches, ntpWarned>>

PasswordConfirmUp(p) ==
  /\ Key("osPasswordConfirm")
  /\ ui' = [ui EXCEPT !.passwordConfirm = p]
  /\ Within("osPassword")
  /\ NoTaskChange
  /\ UNCHANGED <<cfg, method, env, Switches, ntpWarned>>

AnyPassword(p) == TRUE
PasswordsMatch(p) == p = ui.password

\* Equal passwords are stored and applied to the live system; when that fails
\* the handler's error ends the main loop.
PasswordConfirmEnter(p) ==
  /\ Key("osPasswordConfirm")
  /\ ui' = [ui EXCEPT !.passwordConfirm = p]
  /\ IF PasswordsMatch(p)
     THEN /\ cfg' = [cfg EXCEPT !.password = GetEncryptedPasswd(p)]
          /\ \/ Forward("disk")
             \/ Within("exited")
     ELSE Within(page) /\ UNCHANGED cfg
  /\ NoTaskChange
  /\ UNCHANGED <<method, env, Switches, ntpWarned>>

-----------------------------------------------------------------------------
(* Disk and network pages, seen from outside *)

DiskNext ==
  /\ Key("disk")
  /\ Forward(IF installModeOnly THEN "confirmInstall" ELSE "network")
  /\ NoTaskChange
  /\ UNCHANGED <<cfg, ui, method, env, Switches, ntpWarned>>

NetworkMethodSelect(m) ==
  /\ Key("network")
  /\ method' = m
  /\ Within(page)
  /\ NoTaskChange
  /\ UNCHANGED <<cfg, ui, env, Switches, ntpWarned>>

\* The network was applied, but DHCP gave no address or no default route: the
\* configuration already holds the new settings.
NetworkRefused ==
  /\ Key("network")
  /\ method # Blank
  /\ cfg' = [cfg EXCEPT !.method = method]
  /\ Within(page)
  /\ NoTaskChange
  /\ UNCHANGED <<ui, method, env, Switches, ntpWarned>>

NetworkNext(h) ==
  /\ Key("network")
  /\ method # Blank
  /\ IF cfg.mode = "create"
     THEN Forward("podCIDR") /\ cfg' = [cfg EXCEPT !.method = method]
     ELSE /\ Forward("hostname")
          /\ cfg' = [cfg EXCEPT !.method = method,
                                !.hostname = checkDHCPHostname(@, h)]
  /\ NoTaskChange
  /\ UNCHANGED <<ui, method, env, Switches, ntpWarned>>

-----------------------------------------------------------------------------
(* Cluster network (first node only) and host name *)

PodCIDRConfirm(c) ==
  /\ Key("podCIDR")
  /\ c \notin Malformed
  /\ cfg' = [cfg EXCEPT !.podCIDR = c]
  /\ Within("serviceCIDR")
  /\ NoTaskChange
  /\ UNCHANGED <<ui, method, env, Switches, ntpWarned>>

ServiceCIDRConfirm(c) ==
  /\ Key("serviceCIDR")
  /\ cfg' = [cfg EXCEPT !.serviceCIDR = c]
  /\ Within("clusterDNS")
  /\ NoTaskChange
  /\ UNCHANGED <<ui, method, env, Switches, ntpWarned>>

validateDNSIPOptional(d) ==
  d = Blank \/ (cfg.serviceCIDR # Blank /\ d \in ServiceAddrs[cfg.serviceCIDR])

\* Both blank, or an address inside the service network.
validateDNSIP(d) ==
  IF cfg.serviceCIDR = Blank THEN d = Blank ELSE d \in ServiceAddrs[cfg.serviceCIDR]

ClusterDNSConfirm(d, h) ==
  /\ Key("clusterDNS")
  /\ validateDNSIP(d)
  /\ cfg' = [cfg EXCEPT !.clusterDNS = d, !.hostname = checkDHCPHostname(@, h)]
  /\ Forward("hostname")
  /\ NoTaskChange
  /\ UNCHANGED <<ui, method, env, Switches, ntpWarned>>

ClusterNetworkUp ==
  /\ \/ Key("serviceCIDR") /\ Within("podCIDR")
     \/ Key("clusterDNS") /\ Within("serviceCIDR")
  /\ NoTaskChange
  /\ UNCHANGED <<cfg, ui, method, env, Switches, ntpWarned>>

HostnameGiven(n) == n # Blank
HostnameValid(n) == n \notin Malformed \cup {Blank}

HostnameEnter(n) ==
  /\ Key("hostname")
  /\ HostnameValid(n)
  /\ cfg' = [cfg EXCEPT !.hostname = n]
  /\ Forward("dnsServers")
  /\ NoTaskChange
  /\ UNCHANGED <<ui, method, env, Switches, ntpWarned>>

-----------------------------------------------------------------------------
(* DNS servers *)

DNSEnter(d) ==
  /\ Key("dnsServers")
  /\ ui' = [ui EXCEPT !.dns = d]
  /\ StartTask(d)
  /\ UNCHANGED <<cfg, method, env, Switches, ntpWarned>>

DNSNeverMissing(d) == FALSE

\* "DNS servers are required for static IP address"
DNSMissing(d) == d = Blank /\ method = "static"

\* nmcli may refuse any list; a blank one is not passed to it.
DNSTask ==
  /\ Running("dnsServers")
  /\ \/ /\ DNSMissing(task.arg) \/ task.arg # Blank
        /\ Answer("failed")
        /\ UNCHANGED cfg
     \/ /\ ~DNSMissing(task.arg)
        /\ task.arg \notin Malformed
        /\ Answer("ok")
        /\ cfg' = IF task.arg = Blank THEN cfg
                  ELSE [cfg EXCEPT !.dns = Split(task.arg)]
  /\ UNCHANGED <<ui, method, env, Switches, ntpWarned>>

-----------------------------------------------------------------------------
(* Management address of the cluster to join; VIP; token *)

ServerURLGiven(u) == u # Blank
ServerURLValid(u) == u \notin Malformed \cup {Blank}

ServerURLEnter(u) ==
  /\ Key("serverUrl")
  /\ ui' = [ui EXCEPT !.serverURL = u]
  /\ IF ServerURLValid(u)
     THEN StartTask(u)
     ELSE Within(page) /\ NoTaskChange
  /\ UNCHANGED <<cfg, method, env, Switches, ntpWarned>>

ServerURLTask ==
  /\ Running("serverUrl")
  /\ \/ Answer("failed") /\ UNCHANGED cfg
     \/ /\ Answer("ok")
        /\ cfg' = [cfg EXCEPT !.serverURL = getFormattedServerURL(task.arg)]
  /\ UNCHANGED <<ui, method, env, Switches, ntpWarned>>

VipNext ==
  /\ Key("vip")
  /\ Forward("token")
  /\ NoTaskChange
  /\ UNCHANGED <<cfg, ui, method, env, Switches, ntpWarned>>

TokenEnter(t) ==
  /\ Key("token")
  /\ t \notin Malformed \cup {Blank}
  /\ cfg' = [cfg EXCEPT !.token = t]
  /\ Forward("ntpServers")
  /\ NoTaskChange
  /\ UNCHANGED <<ui, method, env, Switches, ntpWarned>>

-----------------------------------------------------------------------------
(* NTP servers *)

LeaveNTPStillChecked == ntpWarned' = {} /\ UNCHANGED ui

\* Leaving the page in either direction forgets that its input was checked.
LeaveNTP == ntpWarned' = {} /\ ui' = [ui EXCEPT !.ntpChecked = FALSE]

\* "When input servers can't be reached and users don't want to change it, we
\* continue the process."
NTPKeep(i) ==
  /\ Key("ntpServers")
  /\ ui.ntp = i /\ ui.ntpChecked
  /\ LeaveNTP
  /\ Forward("proxy")
  /\ NoTaskChange
  /\ UNCHANGED <<cfg, method, env, Switches>>

NTPCheck(i) ==
  /\ Key("ntpServers")
  /\ ~(ui.ntp = i /\ ui.ntpChecked)
  /\ ui' = [ui EXCEPT !.ntpChecked = FALSE]
  /\ StartTask(i)
  /\ UNCHANGED <<cfg, method, env, Switches, ntpWarned>>

\* The input is recorded before it is validated; surrounding spaces are refused
\* before it is recorded.
NTPTask ==
  /\ Running("ntpServers")
  /\ \/ /\ task.arg \in PaddedNTP
        /\ Answer("failed")
        /\ UNCHANGED <<cfg, ui, ntpWarned>>
     \/ /\ task.arg \notin PaddedNTP
        /\ ui' = [ui EXCEPT !.ntpChecked = TRUE, !.ntp = task.arg]
        /\ cfg' = [cfg EXCEPT !.ntp = Split(task.arg)]
        /\ \/ Answer("failed") /\ ntpWarned' = ntpWarned \cup {task.arg}
           \/ task.arg # Blank /\ Answer("ok") /\ UNCHANGED ntpWarned
  /\ UNCHANGED <<method, env, Switches>>

-----------------------------------------------------------------------------
(* Proxy, SSH keys, remote configuration *)

\* A non-blank proxy is also stored under the misspelt key "HTTPS_PROXY ", which
\* nothing reads; a blank one removes both variables.
ProxyEnter(p) ==
  /\ Key("proxy")
  /\ env' = IF p # Blank THEN [env EXCEPT !.HTTP_PROXY = p]
            ELSE [HTTP_PROXY |-> Blank, HTTPS_PROXY |-> Blank]
  /\ Forward("sshKey")
  /\ NoTaskChange
  /\ UNCHANGED <<cfg, ui, method, Switches, ntpWarned>>

SSHKeysKept == cfg.sshKeys
SSHKeysReset == <<>>

SSHKeyEnter(u) ==
  /\ Key("sshKey")
  /\ ui' = [ui EXCEPT !.sshKeyURL = u]
  /\ cfg' = [cfg EXCEPT !.sshKeys = SSHKeysReset]
  /\ IF u = Blank THEN Forward("cloudInit") /\ NoTaskChange ELSE StartTask(u)
  /\ UNCHANGED <<method, env, Switches, ntpWarned>>

SSHKeyTask ==
  /\ Running("sshKey")
  /\ \/ Answer("failed") /\ UNCHANGED cfg
     \/ Answer("ok") /\ cfg' = [cfg EXCEPT !.sshKeys = KeysAt(task.arg)]
  /\ UNCHANGED <<ui, method, env, Switches, ntpWarned>>

CloudInitEnter(u) ==
  /\ Key("cloudInit")
  /\ cfg' = [cfg EXCEPT !.configURL = u]
  /\ IF u = Blank THEN Forward("confirmInstall") /\ NoTaskChange ELSE StartTask(u)
  /\ UNCHANGED <<ui, method, env, Switches, ntpWarned>>

CloudInitTask ==
  /\ Running("cloudInit")
  /\ Answer("failed") \/ Answer("ok")
  /\ UNCHANGED <<cfg, ui, method, env, Switches, ntpWarned>>

ConfirmYes ==
  /\ Key("confirmInstall")
  /\ Forward("install")
  /\ NoTaskChange
  /\ UNCHANGED <<cfg, ui, method, env, Switches, ntpWarned>>

-----------------------------------------------------------------------------
(* The callbacks of the goroutines *)

AfterTaskNoCloudInit(p) ==
  CASE p = "dnsServers" -> IF cfg.mode = "create" THEN "vip" ELSE "serverUrl"
    [] p = "serverUrl"  -> "token"
    [] p = "ntpServers" -> "proxy"
    [] p \in {"sshKey", "cloudInit"} -> "confirmInstall"

AfterTask(p) ==
  CASE p = "dnsServers" -> IF cfg.mode = "create" THEN "vip" ELSE "serverUrl"
    [] p = "serverUrl"  -> "token"
    [] p = "ntpServers" -> "proxy"
    [] p = "sshKey"     -> "cloudInit"
    [] p = "cloudInit"  -> "confirmInstall"

TaskFailedSilently == task.state = "failed" /\ UNCHANGED vars

\* The check failed: the page that asked for it is shown again with the error.
TaskFailed ==
  /\ task.state = "failed" /\ page # "overtaken"
  /\ Within(task.page)
  /\ focus' = "panel"
  /\ task' = NoTask
  /\ UNCHANGED <<cfg, ui, method, env, Switches, ntpWarned>>

\* The check succeeded: close the page that asked for it and show the next one.
\* Closing a page that is not shown is an error, which ends the main loop.
TaskDone ==
  /\ task.state = "ok" /\ page # "overtaken"
  /\ IF page = task.page THEN Forward(AfterTask(page)) ELSE Within("exited")
  /\ focus' = "panel"
  /\ task' = NoTask
  /\ IF task.page = "ntpServers"
     THEN LeaveNTP ELSE UNCHANGED <<ui, ntpWarned>>
  /\ UNCHANGED <<cfg, method, env, Switches>>

-----------------------------------------------------------------------------
(* Esc *)

PasswordPrevPage == IF cfg.mode = "join" THEN "askRole" ELSE "askCreate"

NetworkPrevPage == IF ~alreadyInstalled THEN "disk"
                   ELSE IF cfg.mode = "join" THEN "askRole" ELSE "askCreate"

HostnamePrevPageIsNetwork == "network"
HostnamePrevPage == IF cfg.mode = "create" THEN "podCIDR" ELSE "network"

TokenPrevPage == IF cfg.mode = "create" THEN "vip" ELSE "serverUrl"

ConfirmPrevPage == IF installModeOnly THEN "disk" ELSE "cloudInit"

\* The page that Esc shows: every page's own gotoPrevPage.
PrevPage(p) ==
  CASE p = "askRole" -> "askCreate"
    [] p \in PasswordPanels -> PasswordPrevPage
    [] p = "disk" -> "osPassword"
    [] p = "network" -> NetworkPrevPage
    [] p \in ClusterNetworkPanels -> "network"
    [] p = "hostname" -> HostnamePrevPage
    [] p = "dnsServers" -> "hostname"
    [] p \in {"serverUrl", "vip"} -> "dnsServers"
    [] p = "token" -> TokenPrevPage
    [] p = "ntpServers" -> "token"
    [] p = "proxy" -> "ntpServers"
    [] p = "sshKey" -> "proxy"
    [] p = "cloudInit" -> "sshKey"
    [] p = "confirmInstall" -> ConfirmPrevPage

\* The first page has no Esc binding.
NoEsc == {"preflightCheck", "askCreate"} \cup Terminal

Esc(h) ==
  /\ focus = "panel"
  /\ page \notin NoEsc
  /\ Back(PrevPage(page))
  /\ cfg' = IF page = "dnsServers"
            THEN [cfg EXCEPT !.hostname = checkDHCPHostname(@, h)] ELSE cfg
  /\ preflightAck' = (preflightAck \/ PrevPage(page) = "askCreate")
  /\ IF page = "ntpServers"
     THEN LeaveNTP ELSE UNCHANGED <<ui, ntpWarned>>
  /\ NoTaskChange
  /\ UNCHANGED <<method, env, installModeOnly, alreadyInstalled>>

-----------------------------------------------------------------------------
(* Answers that come after their page was left *)

\* The goroutine of the network page stores the settings before its callback runs.
LateApply ==
  /\ "network" \in late
  /\ page \notin {"halted", "exited", "overtaken"}
  /\ cfg' = [cfg EXCEPT !.method = method]
  /\ UNCHANGED <<page, focus, task, ui, method, env, Switches, late, trail, ntpWarned>>

\* The pages a late callback shows: a failed DHCP request the VIP page, the network
\* page's goroutine that page again or the one behind it.
LateShows(p) ==
  IF p = "vip" THEN {"vip"}
  ELSE {"network", IF cfg.mode = "create" THEN "clusterNetwork" ELSE "hostname"}

\* The callback takes the keyboard from the page on display, whose goroutine goes
\* on if it has one; an address obtained by DHCP is written into inputs that are
\* closed, which ends the main loop.
LateAnswer(p) ==
  /\ p \in late
  /\ page \notin {"halted", "exited", "overtaken"}
  /\ \/ /\ \E q \in LateShows(p) : q # PageOf(page)
        /\ Within("overtaken") /\ UNCHANGED task
     \/ p = "vip" /\ Within("exited") /\ task' = NoTask
  /\ focus' = "panel"
  /\ UNCHANGED <<cfg, ui, method, env, Switches, ntpWarned>>

LateStep == LateApply \/ \E p \in LatePages : LateAnswer(p)

-----------------------------------------------------------------------------
\* The installation runs, the machine reboots, the installer has exited, or
\* a late answer has put a second page on display.
Ended == page \in Terminal /\ UNCHANGED vars

UserStep ==
  \/ PreflightProceed \/ Halt \/ DiskNext \/ NetworkRefused \/ ClusterNetworkUp
  \/ VipNext \/ ConfirmYes
  \/ \E m \in {"create", "join", "install"} : AskCreateEnter(m)
  \/ \E r \in Roles : AskRoleEnter(r)
  \/ \E p \in PasswordInputs :
       PasswordEnter(p) \/ PasswordConfirmUp(p) \/ PasswordConfirmEnter(p)
  \/ \E m \in {"dhcp", "static"} : NetworkMethodSelect(m)
  \/ \E c \in PodCIDRInputs : PodCIDRConfirm(c)
  \/ \E c \in ServiceNets \cup {Blank} : ServiceCIDRConfirm(c)
  \/ \E n \in HostnameInputs : HostnameEnter(n)
  \/ \E h \in OSHostnames :
       \/ NetworkNext(h) \/ Esc(h)
       \/ \E d \in ServiceAddresses \cup {Blank} :
            ClusterDNSConfirm(d, h)
  \/ \E d \in DNSInputs : DNSEnter(d)
  \/ \E u \in ServerURLInputs : ServerURLEnter(u)
  \/ \E t \in TokenInputs : TokenEnter(t)
  \/ \E i \in NTPInputs : NTPKeep(i) \/ NTPCheck(i)
  \/ \E p \in ProxyInputs : ProxyEnter(p)
  \/ \E u \in SSHKeyInputs : SSHKeyEnter(u)
  \/ \E u \in ConfigURLInputs : CloudInitEnter(u)

TaskStep == DNSTask \/ ServerURLTask \/ NTPTask \/ SSHKeyTask \/ CloudInitTask
Callback == TaskFailed \/ TaskDone

Next == UserStep \/ TaskStep \/ Callback \/ LateStep \/ Ended

Spec == Init /\ [][Next]_vars

\* Every check ends: the HTTP clients, the NTP dials and nmcli have timeouts and
\* retryOnError a last attempt; gocui runs every queued callback.
FairSpec == Spec /\ WF_vars(TaskStep) /\ WF_vars(Callback)

-----------------------------------------------------------------------------
(* Properties *)

Config == [mode : {Blank, "create", "join", "install"}, role : Roles \cup {Blank},
           password : {<<>>} \cup {GetEncryptedPasswd(p) : p \in PasswordInputs},
           serverURL : {<<>>} \cup {getFormattedServerURL(u) : u \in ServerURLInputs},
           method : {Blank, "dhcp", "static"}, podCIDR : PodCIDRInputs \cup {Blank},
           serviceCIDR : ServiceNets \cup {Blank},
           clusterDNS : ServiceAddresses \cup {Blank},
           hostname : HostnameInputs \cup OSHostnames \cup {Blank},
           dns : {<<>>} \cup {Split(d) : d \in DNSInputs},
           token : TokenInputs \cup {Blank},
           ntp : {<<>>} \cup {<<i>> : i \in NTPInputs},
           sshKeys : {<<>>} \cup {KeysAt(u) : u \in SSHKeyInputs},
           configURL : ConfigURLInputs \cup {Blank}]

UserInputData ==
  [serverURL : ServerURLInputs \cup {Blank}, sshKeyURL : SSHKeyInputs \cup {Blank},
   password : PasswordInputs \cup {Blank},
   passwordConfirm : PasswordInputs \cup {Blank}, dns : DNSInputs \cup {Blank},
   ntp : NTPInputs, ntpChecked : BOOLEAN]

TaskArgs(p) == CASE p = "dnsServers" -> DNSInputs
                 [] p = "serverUrl"  -> ServerURLInputs
                 [] p = "ntpServers" -> NTPInputs
                 [] p = "sshKey"     -> SSHKeyInputs
                 [] p = "cloudInit"  -> ConfigURLInputs

\* Type invariant of the console, its configuration and its one goroutine.
TypeOK ==
  /\ page \in Pages
  /\ focus \in {"panel", "spinner"}
  /\ \/ task = NoTask
     \/ \E p \in AsyncPages :
          task \in [page : {p}, arg : TaskArgs(p), state : {"running", "ok", "failed"}]
  /\ cfg \in Config
  /\ ui \in UserInputData
  /\ method \in {Blank, "dhcp", "static"}
  /\ env \in [{"HTTP_PROXY", "HTTPS_PROXY"} -> ProxyInputs \cup {Blank}]
  /\ <<installModeOnly, alreadyInstalled, preflightAck>> \in BOOLEAN \X BOOLEAN \X BOOLEAN
  /\ late \in SUBSET LatePages
  /\ trail \in Seq({PageOf(p) : p \in Pages})
  /\ ntpWarned \in SUBSET NTPInputs

\* The pages that lie behind a page when the wizard is walked forward.
AfterCloudInit == {"confirmInstall", "install"}
AfterSSHKey == AfterCloudInit \cup {"cloudInit"}
AfterNTP == AfterSSHKey \cup {"proxy", "sshKey"}
AfterToken == AfterNTP \cup {"ntpServers"}
AfterServerURL == AfterToken \cup {"token"}
AfterDNS == AfterServerURL \cup {"serverUrl", "vip"}
AfterHostname == AfterDNS \cup {"dnsServers"}
AfterClusterNetwork == AfterHostname \cup {"hostname"}
AfterNetwork == AfterClusterNetwork \cup ClusterNetworkPanels
AfterDisk == AfterNetwork \cup {"network"}
AfterPassword == AfterDisk \cup {"disk"}

\* An install-only run never meets the network and cluster pages, an installed
\* node never the password and disk pages, and the pages of one mode are shown in
\* that mode only (askCreate's branches and every page's gotoPrevPage).
PageMatchesMode ==
  /\ installModeOnly <=> cfg.mode = "install"
  /\ page \in AfterDisk \ AfterCloudInit => ~installModeOnly
  /\ alreadyInstalled => ~installModeOnly /\ page \notin PasswordPanels \cup {"disk"}
  /\ page \in {"askRole", "serverUrl"} => cfg.mode = "join"
  /\ page \in ClusterNetworkPanels \cup {"vip"} => cfg.mode = "create"
  /\ page \in {"disk"} \cup PasswordPanels \cup AfterDisk => cfg.mode # Blank

\* A node that creates a cluster joins none and has the default role, whatever was
\* entered for a join before the mode was changed (askCreate's Enter).
CreateIsFresh == cfg.mode = "create" => cfg.serverURL = <<>> /\ cfg.role = "default"

\* Past the address page a joining node holds exactly the address on display, and
\* that address passed the syntax check and answered the ping, however often the
\* page was left and other addresses failed (addServerURLPanel).
JoinServerAnswered ==
  page \in AfterServerURL /\ cfg.mode = "join"
    => /\ cfg.serverURL = getFormattedServerURL(ui.serverURL)
       /\ ui.serverURL \notin Malformed \cup {Blank}

\* Past the password page the hash is that of a non-blank password typed twice,
\* also after the page was revisited and abandoned (helper.go).
PasswordAgreed ==
  page \in AfterPassword /\ ~alreadyInstalled
    => /\ ui.password # Blank
       /\ ui.password = ui.passwordConfirm
       /\ cfg.password = GetEncryptedPasswd(ui.password)

\* Past the DNS page a node with a static address has DNS servers, also when the
\* method was changed after the DNS page had accepted a blank list, and the
\* configuration holds the method that was applied.
StaticHasDNS ==
  page \in AfterDNS /\ ~installModeOnly
    => cfg.method = method /\ (cfg.method = "static" => cfg.dns # <<>>)

\* Past the cluster network page the cluster DNS address lies inside the service
\* network, or both are left to their defaults, although the two are stored by
\* different panels and the page can be left in between (addClusterNetworkPanel).
ClusterDNSInServiceNet ==
  page \in AfterClusterNetwork /\ cfg.mode = "create"
    => IF cfg.serviceCIDR = Blank THEN cfg.clusterDNS = Blank
       ELSE cfg.clusterDNS \in ServiceAddrs[cfg.serviceCIDR]

\* Past the host name page the name passed the syntax check, although showing the
\* page stores the unchecked name of the system in the configuration.
HostnameChecked ==
  page \in AfterHostname /\ ~installModeOnly => cfg.hostname \notin Malformed \cup {Blank}

\* What the confirmation page displays from userInputData is what the
\* configuration to be installed holds: the DNS servers, the NTP servers and the
\* SSH keys (addConfirmInstallPanel's PreShow).
ConfirmTruthful ==
  page \in AfterCloudInit /\ ~installModeOnly
    => /\ ui.dns # Blank => cfg.dns = Split(ui.dns)
       /\ cfg.ntp = Split(ui.ntp)
       /\ cfg.sshKeys = IF ui.sshKeyURL = Blank THEN <<>> ELSE KeysAt(ui.sshKeyURL)

\* While a goroutine works, no key and no other callback of the five pages with a
\* check takes its page off the display or the keyboard from the spinner, so that its
\* own callback finds the page it closes. Only a late answer of the network or the
\* VIP page does (the callbacks that call showNext whatever page is on display).
AnswerFindsItsPage ==
  task # NoTask => \/ page = task.page /\ focus = "spinner"
                   \/ page = "overtaken" /\ late # {}

\* Esc shows the page from which this one was reached ("Use ESC to go back to
\* previous page"): every gotoPrevPage undoes the gotoNextPage of the same mode.
EscReturns ==
  [][\A h \in OSHostnames : Esc(h) => trail # <<>> /\ PageOf(page') = trail[Len(trail)]]_vars

Abstract == INSTANCE WizardPath
              WITH at <- PageOf(page), mode <- cfg.mode, installed <- alreadyInstalled

\* The wizard implements WizardPath: the neighbours that the pages name for
\* themselves, in both directions and in every mode, are those of one path per
\* mode, no callback of the five pages with a check jumps, and nothing but the first
\* page changes the mode. A late answer of the network or the VIP page does jump,
\* from any page: that is Stray.
FollowsPath == Abstract!Spec

\* The user gets past NTP servers that were not reached only by confirming an input
\* for which the warning was shown during this visit of the page
\* (HasCheckedNTPServers).
NTPKeptOnlyAfterWarning ==
  [][page = "ntpServers" /\ focus = "panel" /\ page' = "proxy"
       => ui.ntp \in ntpWarned]_vars

\* A check that was started ends and gives the keyboard back.
CheckEnds == focus = "spinner" ~> focus = "panel"

-----------------------------------------------------------------------------
(* Statements of the source that its code does not keep *)

\* "Leave blank to use default DNS." (dnsServersNote): with a blank DNS page no
\* server is configured.
BlankDNSUsesDefault ==
  page \in AfterCloudInit /\ ~installModeOnly /\ ui.dns = Blank => cfg.dns = <<>>

\* "focus on task panel to prevent input": the keyboard stays with the spinner until
\* the check is over, at least where the network page was not left early. The callback
\* of a DHCP request that fails after the VIP page was left gives it to that page.
SpinnerKeepsKeyboard == task # NoTask /\ "network" \notin late => focus = "spinner"
=============================================================================
