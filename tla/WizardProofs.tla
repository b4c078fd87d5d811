---------------------------- MODULE WizardProofs ----------------------------
(***************************************************************************)
(* What holds of the wizard for every set of roles, inputs and networks:   *)
(* its type invariant, the safety properties that relate the pages to the  *)
(* configuration they leave behind, that Esc undoes Enter, and that it     *)
(* implements WizardPath.                                                  *)
(***************************************************************************)
EXTENDS Wizard, TLAPS

PageNames == {PageOf(p) : p \in Pages}
Modes == {Blank, "create", "join", "install"}

TaskOf(p) == [page : {p}, arg : TaskArgs(p), state : {"running", "ok", "failed"}]
LateOK(l) == l \in SUBSET LatePages
TaskOK(t) == t = NoTask \/ \E p \in AsyncPages : t \in TaskOf(p)

-----------------------------------------------------------------------------
(* Lemmas on the parts of the state *)

\* The history of pages is a sequence of pages, whichever way the wizard is walked.
LEMMA TrailType ==
  ASSUME NEW S, NEW t \in Seq(S), NEW e \in S
  PROVE  /\ Append(t, e) \in Seq(S)
         /\ (IF t = <<>> THEN <<>> ELSE SubSeq(t, 1, Len(t) - 1)) \in Seq(S)
<1>1. Append(t, e) \in Seq(S)
  OBVIOUS
<1>2. CASE t = <<>>
  BY <1>1, <1>2
<1>3. CASE t # <<>>
  <2>1. SubSeq(t, 1, Len(t) - 1) \in Seq(S)
    BY <1>3
  <2> QED
    BY <1>1, <1>3, <2>1
<1> QED
  BY <1>2, <1>3

\* showNext after closing a page, in either direction or within it, shows a page.
LEMMA MoveType ==
  ASSUME TypeOK, NEW q \in Pages, Forward(q) \/ Back(q) \/ Within(q)
  PROVE  page' \in Pages /\ trail' \in Seq(PageNames) /\ LateOK(late')
<1>1. page \in Pages /\ trail \in Seq(PageNames) /\ PageOf(page) \in PageNames
  BY DEF TypeOK, PageNames
<1>2. LeavesUnanswered => LateOK(late')
  BY DEF TypeOK, LeavesUnanswered, LateOK
<1>3. CASE Forward(q)
  BY <1>1, <1>2, <1>3, TrailType DEF Forward
<1>4. CASE Back(q)
  BY <1>1, <1>2, <1>4, TrailType DEF Back
<1>5. CASE Within(q)
  BY <1>1, <1>5 DEF Within, TypeOK, LateOK
<1> QED
  BY <1>3, <1>4, <1>5

\* Each field of the configuration may be replaced by a value of its own set.
LEMMA ConfigUpdate ==
  ASSUME NEW c \in Config
  PROVE  /\ \A x \in Modes : [c EXCEPT !.mode = x] \in Config
         /\ \A x \in Roles \cup {Blank} : [c EXCEPT !.role = x] \in Config
         /\ \A x \in PasswordInputs :
              [c EXCEPT !.password = GetEncryptedPasswd(x)] \in Config
         /\ [c EXCEPT !.serverURL = <<>>] \in Config
         /\ \A x \in ServerURLInputs :
              [c EXCEPT !.serverURL = getFormattedServerURL(x)] \in Config
         /\ \A x \in {Blank, "dhcp", "static"} : [c EXCEPT !.method = x] \in Config
         /\ \A x \in PodCIDRInputs : [c EXCEPT !.podCIDR = x] \in Config
         /\ \A x \in ServiceNets \cup {Blank} : [c EXCEPT !.serviceCIDR = x] \in Config
         /\ \A x \in ServiceAddresses \cup {Blank} : [c EXCEPT !.clusterDNS = x] \in Config
         /\ \A x \in HostnameInputs \cup OSHostnames \cup {Blank} :
              [c EXCEPT !.hostname = x] \in Config
         /\ \A x \in DNSInputs : [c EXCEPT !.dns = Split(x)] \in Config
         /\ \A x \in TokenInputs : [c EXCEPT !.token = x] \in Config
         /\ \A x \in NTPInputs : [c EXCEPT !.ntp = Split(x)] \in Config
         /\ [c EXCEPT !.sshKeys = <<>>] \in Config
         /\ \A x \in SSHKeyInputs : [c EXCEPT !.sshKeys = KeysAt(x)] \in Config
         /\ \A x \in ConfigURLInputs : [c EXCEPT !.configURL = x] \in Config
<1>1. \A x \in Modes : [c EXCEPT !.mode = x] \in Config
  BY DEF Config, Modes
<1>2. \A x \in Roles \cup {Blank} : [c EXCEPT !.role = x] \in Config
  BY DEF Config
<1>3. \A x \in PasswordInputs : [c EXCEPT !.password = GetEncryptedPasswd(x)] \in Config
  BY DEF Config
<1>4. [c EXCEPT !.serverURL = <<>>] \in Config
  BY DEF Config
<1>5. \A x \in ServerURLInputs :
        [c EXCEPT !.serverURL = getFormattedServerURL(x)] \in Config
  BY DEF Config
<1>6. \A x \in {Blank, "dhcp", "static"} : [c EXCEPT !.method = x] \in Config
  BY DEF Config
<1>7. \A x \in PodCIDRInputs : [c EXCEPT !.podCIDR = x] \in Config
  BY DEF Config
<1>8. \A x \in ServiceNets \cup {Blank} : [c EXCEPT !.serviceCIDR = x] \in Config
  BY DEF Config
<1>9. \A x \in ServiceAddresses \cup {Blank} : [c EXCEPT !.clusterDNS = x] \in Config
  BY DEF Config
<1>10. \A x \in HostnameInputs \cup OSHostnames \cup {Blank} :
         [c EXCEPT !.hostname = x] \in Config
  BY DEF Config
<1>11. \A x \in DNSInputs : [c EXCEPT !.dns = Split(x)] \in Config
  BY DEF Config
<1>12. \A x \in TokenInputs : [c EXCEPT !.token = x] \in Config
  BY DEF Config
<1>13. \A x \in NTPInputs : [c EXCEPT !.ntp = Split(x)] \in Config
  BY DEF Config, Split
<1>14. [c EXCEPT !.sshKeys = <<>>] \in Config
  BY DEF Config
<1>15. \A x \in SSHKeyInputs : [c EXCEPT !.sshKeys = KeysAt(x)] \in Config
  BY DEF Config
<1>16. \A x \in ConfigURLInputs : [c EXCEPT !.configURL = x] \in Config
  BY DEF Config
<1> QED
  BY <1>1, <1>2, <1>3, <1>4, <1>5, <1>6, <1>7, <1>8, <1>9, <1>10, <1>11, <1>12,
     <1>13, <1>14, <1>15, <1>16, Zenon

\* The same for userInputData.
LEMMA InputUpdate ==
  ASSUME NEW u \in UserInputData
  PROVE  /\ \A x \in ServerURLInputs \cup {Blank} :
              [u EXCEPT !.serverURL = x] \in UserInputData
         /\ \A x \in SSHKeyInputs : [u EXCEPT !.sshKeyURL = x] \in UserInputData
         /\ \A x \in PasswordInputs : [u EXCEPT !.password = x] \in UserInputData
         /\ \A x \in PasswordInputs : [u EXCEPT !.passwordConfirm = x] \in UserInputData
         /\ \A x \in DNSInputs : [u EXCEPT !.dns = x] \in UserInputData
         /\ \A x \in NTPInputs : [u EXCEPT !.ntp = x] \in UserInputData
         /\ \A x \in BOOLEAN : [u EXCEPT !.ntpChecked = x] \in UserInputData
BY DEF UserInputData

\* A goroutine starts with an input of the page that started it.
LEMMA TaskStarts ==
  ASSUME NEW p \in AsyncPages, NEW i \in TaskArgs(p)
  PROVE  TaskOK([page |-> p, arg |-> i, state |-> "running"])
<1>1. [page |-> p, arg |-> i, state |-> "running"] \in TaskOf(p)
  BY DEF TaskOf
<1> QED
  BY <1>1, Zenon DEF TaskOK

\* A running goroutine holds an input of its page and still does once it has answered.
LEMMA TaskRuns ==
  ASSUME TaskOK(task), NEW p \in AsyncPages, Running(p)
  PROVE  /\ task.arg \in TaskArgs(p)
         /\ \A o \in {"ok", "failed"} : TaskOK([task EXCEPT !.state = o])
<1>1. task # NoTask
  BY DEF Running, NoTask
<1>2. PICK q \in AsyncPages : task \in TaskOf(q)
  BY <1>1 DEF TaskOK
<1>3. q = p
  BY <1>2 DEF Running, TaskOf
<1>4. task.arg \in TaskArgs(p)
  BY <1>2, <1>3 DEF TaskOf
<1>5. \A o \in {"ok", "failed"} : [task EXCEPT !.state = o] \in TaskOf(p)
  BY <1>2, <1>3 DEF TaskOf
<1> QED
  BY <1>4, <1>5, Zenon DEF TaskOK

-----------------------------------------------------------------------------
(* The type invariant *)

\* TypeOK with its parts named.
TypeParts ==
  /\ page \in Pages /\ trail \in Seq(PageNames) /\ LateOK(late)
  /\ focus \in {"panel", "spinner"}
  /\ TaskOK(task)
  /\ cfg \in Config
  /\ ui \in UserInputData
  /\ method \in {Blank, "dhcp", "static"}
  /\ env \in [{"HTTP_PROXY", "HTTPS_PROXY"} -> ProxyInputs \cup {Blank}]
  /\ installModeOnly \in BOOLEAN /\ alreadyInstalled \in BOOLEAN
  /\ preflightAck \in BOOLEAN
  /\ ntpWarned \in SUBSET NTPInputs

\* TypeOK says the same of each variable by itself, which is the form the lemmas use.
LEMMA TypePartsOK == TypeOK <=> TypeParts
<1>1. (<<installModeOnly, alreadyInstalled, preflightAck>> \in BOOLEAN \X BOOLEAN \X BOOLEAN)
        <=> (installModeOnly \in BOOLEAN /\ alreadyInstalled \in BOOLEAN
             /\ preflightAck \in BOOLEAN)
  OBVIOUS
<1> QED
  BY <1>1, Zenon DEF TypeOK, TypeParts, PageNames, LateOK, TaskOK, TaskOf

\* The wizard starts with blank fields and the default NTP servers.
LEMMA TypeInit == Init => TypeParts
<1> SUFFICES ASSUME Init PROVE TypeParts
  OBVIOUS
<1>1. page \in Pages /\ preflightAck \in BOOLEAN
  BY DEF Init, Pages
<1>2. trail \in Seq(PageNames)
  BY DEF Init
<1>3. cfg \in Config
  BY DEF Init, Config
<1>4. ui \in UserInputData
  BY NTPAssumption DEF Init, UserInputData
<1>5. TaskOK(task)
  BY DEF Init, TaskOK
<1>6. env \in [{"HTTP_PROXY", "HTTPS_PROXY"} -> ProxyInputs \cup {Blank}]
  BY DEF Init
<1> QED
  BY <1>1, <1>2, <1>3, <1>4, <1>5, <1>6 DEF Init, TypeParts, LateOK

\* The actions that only move between pages.
LEMMA TypeMoves ==
  ASSUME TypeParts, PreflightProceed \/ Halt \/ DiskNext \/ ClusterNetworkUp
                      \/ VipNext \/ ConfirmYes
  PROVE  TypeParts'
<1>1. PICK q \in Pages : Forward(q) \/ Back(q) \/ Within(q)
  <2>1. CASE PreflightProceed
    BY <2>1 DEF PreflightProceed, Pages
  <2>2. CASE Halt
    BY <2>2 DEF Halt, Pages, Terminal
  <2>3. CASE DiskNext
    BY <2>3 DEF DiskNext, Pages
  <2>4. CASE ClusterNetworkUp
    BY <2>4 DEF ClusterNetworkUp, Pages, ClusterNetworkPanels
  <2>5. CASE VipNext
    BY <2>5 DEF VipNext, Pages
  <2>6. CASE ConfirmYes
    BY <2>6 DEF ConfirmYes, Pages, Terminal
  <2> QED
    BY <2>1, <2>2, <2>3, <2>4, <2>5, <2>6
<1>2. page' \in Pages /\ trail' \in Seq(PageNames) /\ LateOK(late')
  BY <1>1, MoveType, TypePartsOK
<1>3. UNCHANGED <<focus, task, cfg, ui, method, env, installModeOnly,
                  alreadyInstalled, ntpWarned>>
  BY DEF PreflightProceed, Halt, DiskNext, ClusterNetworkUp, VipNext, ConfirmYes,
         NoTaskChange, Switches
<1>4. preflightAck' \in BOOLEAN
  BY DEF TypeParts, PreflightProceed, Halt, DiskNext, ClusterNetworkUp, VipNext,
         ConfirmYes, Switches
<1> QED
  BY <1>2, <1>3, <1>4 DEF TypeParts

\* askCreate's Enter stores a mode and resets role and address to values of their kind.
LEMMA TypeMode ==
  ASSUME TypeParts, NEW m \in {"create", "join", "install"}, AskCreateEnter(m)
  PROVE  TypeParts'
<1>1. page' \in Pages /\ trail' \in Seq(PageNames) /\ LateOK(late')
  <2> DEFINE q == IF m = "join" THEN "askRole"
                  ELSE IF alreadyInstalled THEN "network" ELSE "osPassword"
  <2>1. q \in Pages /\ Forward(q)
    BY DEF AskCreateEnter, Pages, PasswordPanels
  <2> QED
    BY <2>1, MoveType, TypePartsOK
<1>2. cfg' \in Config
  <2> DEFINE c == [cfg EXCEPT !.mode = m]
             d == [c EXCEPT !.role = RoleFor(m)]
  <2>1. c \in Config
    BY ConfigUpdate DEF TypeParts, Modes
  <2>2. RoleFor(m) \in Roles \cup {Blank}
    BY RolesAssumption DEF TypeParts, Config, RoleFor
  <2>3. d \in Config
    <3> HIDE DEF c
    <3> QED
      BY <2>1, <2>2, ConfigUpdate
  <2>4. ServerURLFor(m) \in {<<>>} \cup {getFormattedServerURL(u) : u \in ServerURLInputs}
    BY DEF TypeParts, Config, ServerURLFor
  <2>5. [d EXCEPT !.serverURL = ServerURLFor(m)] \in Config
    <3> HIDE DEF d
    <3> QED
      BY <2>3, <2>4, ConfigUpdate
  <2> QED
    BY <2>5, Zenon DEF AskCreateEnter
<1>3. ui' \in UserInputData
  <2>1. (IF m = "create" THEN Blank ELSE ui.serverURL) \in ServerURLInputs \cup {Blank}
    BY DEF TypeParts, UserInputData
  <2> QED
    BY <2>1, InputUpdate DEF AskCreateEnter, TypeParts
<1> QED
  BY <1>1, <1>2, <1>3 DEF TypeParts, AskCreateEnter, NoTaskChange

\* askRole's Enter stores one of the roles.
LEMMA TypeRole ==
  ASSUME TypeParts, NEW r \in Roles, AskRoleEnter(r)
  PROVE  TypeParts'
<1>1. page' \in Pages /\ trail' \in Seq(PageNames) /\ LateOK(late')
  <2> DEFINE q == IF alreadyInstalled THEN "network" ELSE "osPassword"
  <2>1. q \in Pages /\ Forward(q)
    BY DEF AskRoleEnter, Pages, PasswordPanels
  <2> QED
    BY <2>1, MoveType, TypePartsOK
<1>2. cfg' \in Config
  BY ConfigUpdate DEF TypeParts, AskRoleEnter
<1> QED
  BY <1>1, <1>2 DEF TypeParts, AskRoleEnter, NoTaskChange, Switches

\* The password panels store what was typed, and the hash of it.
LEMMA TypePassword ==
  ASSUME TypeParts, NEW p \in PasswordInputs,
         PasswordEnter(p) \/ PasswordConfirmUp(p) \/ PasswordConfirmEnter(p)
  PROVE  TypeParts'
<1>1. PICK q \in Pages : Forward(q) \/ Back(q) \/ Within(q)
  <2>1. CASE PasswordEnter(p)
    BY <2>1 DEF PasswordEnter, Pages, PasswordPanels
  <2>2. CASE PasswordConfirmUp(p)
    BY <2>2 DEF PasswordConfirmUp, Pages, PasswordPanels
  <2>3. CASE PasswordConfirmEnter(p)
    BY <2>3 DEF PasswordConfirmEnter, Pages, Terminal, TypeParts
  <2> QED
    BY <2>1, <2>2, <2>3
<1>2. page' \in Pages /\ trail' \in Seq(PageNames) /\ LateOK(late')
  BY <1>1, MoveType, TypePartsOK
<1>3. ui' \in UserInputData
  BY InputUpdate DEF PasswordEnter, PasswordConfirmUp, PasswordConfirmEnter, TypeParts
<1>4. cfg' \in Config
  <2>1. cfg' = cfg \/ cfg' = [cfg EXCEPT !.password = GetEncryptedPasswd(p)]
    BY DEF PasswordEnter, PasswordConfirmUp, PasswordConfirmEnter
  <2>2. cfg \in Config /\ [cfg EXCEPT !.password = GetEncryptedPasswd(p)] \in Config
    BY ConfigUpdate DEF TypeParts
  <2> QED
    BY <2>1, <2>2, Zenon
<1>5. UNCHANGED <<focus, task, method, env, installModeOnly, alreadyInstalled,
                  preflightAck, ntpWarned>>
  BY DEF PasswordEnter, PasswordConfirmUp, PasswordConfirmEnter, NoTaskChange, Switches
<1> QED
  BY <1>2, <1>3, <1>4, <1>5 DEF TypeParts

\* The network page stores the method, and the name of the system when it is left.
LEMMA TypeNetwork ==
  ASSUME TypeParts,
         \/ NetworkRefused
         \/ \E m \in {"dhcp", "static"} : NetworkMethodSelect(m)
         \/ \E h \in OSHostnames : NetworkNext(h)
  PROVE  TypeParts'
<1>1. PICK q \in Pages : Forward(q) \/ Back(q) \/ Within(q)
  <2>1. CASE NetworkRefused
    BY <2>1 DEF NetworkRefused, TypeParts
  <2>2. CASE \E m \in {"dhcp", "static"} : NetworkMethodSelect(m)
    BY <2>2 DEF NetworkMethodSelect, TypeParts
  <2>3. CASE \E h \in OSHostnames : NetworkNext(h)
    BY <2>3 DEF NetworkNext, Pages, ClusterNetworkPanels
  <2> QED
    BY <2>1, <2>2, <2>3
<1>2. page' \in Pages /\ trail' \in Seq(PageNames) /\ LateOK(late')
  BY <1>1, MoveType, TypePartsOK
<1> DEFINE c == [cfg EXCEPT !.method = method]
<1>3. cfg' \in Config
  <2>1. c \in Config
    BY ConfigUpdate DEF TypeParts
  <2>2. \A h \in OSHostnames :
          [c EXCEPT !.hostname = checkDHCPHostname(cfg.hostname, h)] \in Config
    <3>1. \A h \in OSHostnames : checkDHCPHostname(cfg.hostname, h)
                                   \in HostnameInputs \cup OSHostnames \cup {Blank}
      BY DEF TypeParts, Config, checkDHCPHostname
    <3> HIDE DEF c
    <3> QED
      BY <2>1, <3>1, ConfigUpdate
  <2>3. c.hostname = cfg.hostname
    BY DEF TypeParts, Config
  <2>4. \/ cfg' = cfg \/ cfg' = c
        \/ \E h \in OSHostnames :
             cfg' = [c EXCEPT !.hostname = checkDHCPHostname(cfg.hostname, h)]
    BY <2>3, Zenon DEF NetworkRefused, NetworkMethodSelect, NetworkNext
  <2>5. cfg \in Config
    BY DEF TypeParts
  <2> HIDE DEF c
  <2> QED
    BY <2>1, <2>2, <2>4, <2>5, Zenon
<1>4. method' \in {Blank, "dhcp", "static"}
  BY DEF TypeParts, NetworkRefused, NetworkMethodSelect, NetworkNext
<1>5. UNCHANGED <<focus, task, ui, env, installModeOnly, alreadyInstalled,
                  preflightAck, ntpWarned>>
  BY DEF NetworkRefused, NetworkMethodSelect, NetworkNext, NoTaskChange, Switches
<1> QED
  BY <1>2, <1>3, <1>4, <1>5 DEF TypeParts

\* The pod and the service network that are stored passed their checks.
LEMMA TypeClusterNetwork ==
  ASSUME TypeParts,
         \/ \E c \in PodCIDRInputs : PodCIDRConfirm(c)
         \/ \E c \in ServiceNets \cup {Blank} : ServiceCIDRConfirm(c)
  PROVE  TypeParts'
<1>1. PICK q \in Pages : Forward(q) \/ Back(q) \/ Within(q)
  BY DEF PodCIDRConfirm, ServiceCIDRConfirm, Pages, ClusterNetworkPanels
<1>2. page' \in Pages /\ trail' \in Seq(PageNames) /\ LateOK(late')
  BY <1>1, MoveType, TypePartsOK
<1>3. cfg' \in Config
  <2>1. CASE \E c \in PodCIDRInputs : PodCIDRConfirm(c)
    <3>1. PICK c \in PodCIDRInputs : cfg' = [cfg EXCEPT !.podCIDR = c]
      BY <2>1 DEF PodCIDRConfirm
    <3>2. [cfg EXCEPT !.podCIDR = c] \in Config
      BY ConfigUpdate DEF TypeParts
    <3> QED
      BY <3>1, <3>2, Zenon
  <2>2. CASE \E c \in ServiceNets \cup {Blank} : ServiceCIDRConfirm(c)
    <3>1. PICK c \in ServiceNets \cup {Blank} : cfg' = [cfg EXCEPT !.serviceCIDR = c]
      BY <2>2 DEF ServiceCIDRConfirm
    <3>2. [cfg EXCEPT !.serviceCIDR = c] \in Config
      BY ConfigUpdate DEF TypeParts
    <3> QED
      BY <3>1, <3>2, Zenon
  <2> QED
    BY <2>1, <2>2
<1>4. UNCHANGED <<focus, task, ui, method, env, installModeOnly, alreadyInstalled,
                  preflightAck, ntpWarned>>
  BY DEF PodCIDRConfirm, ServiceCIDRConfirm, NoTaskChange, Switches
<1> QED
  BY <1>2, <1>3, <1>4 DEF TypeParts

\* The cluster DNS address that is stored is blank or inside a service network.
LEMMA TypeClusterDNS ==
  ASSUME TypeParts, NEW a \in ServiceAddresses \cup {Blank}, NEW h \in OSHostnames,
         ClusterDNSConfirm(a, h)
  PROVE  TypeParts'
<1>1. "hostname" \in Pages /\ Forward("hostname")
  BY DEF ClusterDNSConfirm, Pages
<1>2. page' \in Pages /\ trail' \in Seq(PageNames) /\ LateOK(late')
  BY <1>1, MoveType, TypePartsOK
<1>3. cfg' \in Config
  <2> DEFINE c == [cfg EXCEPT !.clusterDNS = a]
             n == checkDHCPHostname(cfg.hostname, h)
  <2>1. c \in Config
    BY ConfigUpdate DEF TypeParts
  <2>2. n \in HostnameInputs \cup OSHostnames \cup {Blank}
    BY DEF TypeParts, Config, checkDHCPHostname
  <2>3. [c EXCEPT !.hostname = n] \in Config
    <3> HIDE DEF c, n
    <3> QED
      BY <2>1, <2>2, ConfigUpdate
  <2>4. c.hostname = cfg.hostname
    BY DEF TypeParts, Config
  <2> QED
    BY <2>3, <2>4, Zenon DEF ClusterDNSConfirm
<1> QED
  BY <1>2, <1>3 DEF TypeParts, ClusterDNSConfirm, NoTaskChange, Switches

\* The pages whose Enter checks its input at once.
LEMMA TypeEnter ==
  ASSUME TypeParts,
         \/ \E n \in HostnameInputs : HostnameEnter(n)
         \/ \E t \in TokenInputs : TokenEnter(t)
         \/ \E p \in ProxyInputs : ProxyEnter(p)
  PROVE  TypeParts'
<1>1. PICK q \in Pages : Forward(q)
  BY DEF HostnameEnter, TokenEnter, ProxyEnter, Pages, AsyncPages
<1>2. page' \in Pages /\ trail' \in Seq(PageNames) /\ LateOK(late')
  BY <1>1, MoveType, TypePartsOK
<1>3. cfg' \in Config
  <2>1. CASE \E n \in HostnameInputs : HostnameEnter(n)
    <3>1. PICK n \in HostnameInputs : cfg' = [cfg EXCEPT !.hostname = n]
      BY <2>1 DEF HostnameEnter
    <3>2. [cfg EXCEPT !.hostname = n] \in Config
      BY ConfigUpdate DEF TypeParts
    <3> QED
      BY <3>1, <3>2, Zenon
  <2>2. CASE \E t \in TokenInputs : TokenEnter(t)
    <3>1. PICK t \in TokenInputs : cfg' = [cfg EXCEPT !.token = t]
      BY <2>2 DEF TokenEnter
    <3>2. [cfg EXCEPT !.token = t] \in Config
      BY ConfigUpdate DEF TypeParts
    <3> QED
      BY <3>1, <3>2, Zenon
  <2>3. CASE \E p \in ProxyInputs : ProxyEnter(p)
    BY <2>3 DEF TypeParts, ProxyEnter
  <2> QED
    BY <2>1, <2>2, <2>3
<1>4. env' \in [{"HTTP_PROXY", "HTTPS_PROXY"} -> ProxyInputs \cup {Blank}]
  BY DEF TypeParts, HostnameEnter, TokenEnter, ProxyEnter
<1>5. UNCHANGED <<focus, task, ui, method, installModeOnly, alreadyInstalled,
                  preflightAck, ntpWarned>>
  BY DEF HostnameEnter, TokenEnter, ProxyEnter, NoTaskChange, Switches
<1> QED
  BY <1>2, <1>3, <1>4, <1>5 DEF TypeParts

\* Starting a goroutine leaves the page as it is.
LEMMA StartTaskType ==
  ASSUME TypeParts, NEW i, page \in AsyncPages, i \in TaskArgs(page), StartTask(i)
  PROVE  page' \in Pages /\ trail' \in Seq(PageNames) /\ LateOK(late')
         /\ TaskOK(task)' /\ focus' \in {"panel", "spinner"}
<1>1. TaskOK([page |-> page, arg |-> i, state |-> "running"])
  BY TaskStarts
<1>2. task' = [page |-> page, arg |-> i, state |-> "running"] /\ focus' = "spinner"
      /\ UNCHANGED <<page, late, trail>>
  BY DEF StartTask
<1>3. TaskOK(task')
  BY <1>1, <1>2, Zenon
<1> QED
  BY <1>2, <1>3 DEF TypeParts

\* The pages whose Enter starts a goroutine, or refuses or skips the check at once.
LEMMA TypeEnterAsync ==
  ASSUME TypeParts,
         \/ \E d \in DNSInputs : DNSEnter(d)
         \/ \E u \in ServerURLInputs : ServerURLEnter(u)
         \/ \E i \in NTPInputs : NTPKeep(i) \/ NTPCheck(i)
         \/ \E u \in SSHKeyInputs : SSHKeyEnter(u)
         \/ \E u \in ConfigURLInputs : CloudInitEnter(u)
  PROVE  TypeParts'
<1> DEFINE Console == /\ page' \in Pages /\ trail' \in Seq(PageNames) /\ LateOK(late')
                      /\ TaskOK(task)' /\ focus' \in {"panel", "spinner"}
<1>1. ASSUME NEW q \in Pages, Forward(q) \/ Within(q), NoTaskChange
      PROVE  Console
  <2>1. page' \in Pages /\ trail' \in Seq(PageNames) /\ LateOK(late')
    BY <1>1, MoveType, TypePartsOK
  <2>2. UNCHANGED <<task, focus>>
    BY <1>1 DEF NoTaskChange
  <2> QED
    BY <2>1, <2>2 DEF TypeParts
<1>2. ASSUME NEW i, page \in AsyncPages, i \in TaskArgs(page), StartTask(i)
      PROVE  Console
  BY <1>2, StartTaskType
<1>3. ASSUME NEW u \in UserInputData PROVE [u EXCEPT !.ntpChecked = FALSE] \in UserInputData
  BY InputUpdate
<1> HIDE DEF Console
<1>4. CASE \E d \in DNSInputs : DNSEnter(d)
  <2>1. PICK d \in DNSInputs : DNSEnter(d)
    BY <1>4
  <2>2. page \in AsyncPages /\ d \in TaskArgs(page) /\ StartTask(d)
    BY <2>1 DEF DNSEnter, Key, AsyncPages, TaskArgs
  <2>3. Console
    BY <2>2, <1>2
  <2>4. ui' \in UserInputData
    BY <2>1, InputUpdate DEF DNSEnter, TypeParts
  <2> QED
    BY <2>1, <2>3, <2>4 DEF DNSEnter, TypeParts, Switches, Console
<1>5. CASE \E u \in ServerURLInputs : ServerURLEnter(u)
  <2>1. PICK u \in ServerURLInputs : ServerURLEnter(u)
    BY <1>5
  <2>2. ASSUME ServerURLValid(u) PROVE Console
    <3>1. page \in AsyncPages /\ u \in TaskArgs(page) /\ StartTask(u)
      BY <2>1, <2>2 DEF ServerURLEnter, Key, AsyncPages, TaskArgs
    <3> QED
      BY <3>1, <1>2
  <2>3. ASSUME ~ServerURLValid(u) PROVE Console
    BY <2>1, <2>3, <1>1 DEF ServerURLEnter, TypeParts
  <2>4. ui' \in UserInputData
    BY <2>1, InputUpdate DEF ServerURLEnter, TypeParts
  <2>5. Console
    BY <2>2, <2>3
  <2> QED
    BY <2>1, <2>4, <2>5 DEF ServerURLEnter, TypeParts, Switches, Console
<1>6. CASE \E i \in NTPInputs : NTPKeep(i)
  <2>1. PICK i \in NTPInputs : NTPKeep(i)
    BY <1>6
  <2>2. Console
    BY <2>1, <1>1 DEF NTPKeep, Pages
  <2>3. ui' \in UserInputData /\ ntpWarned' = {}
    BY <2>1, <1>3 DEF NTPKeep, LeaveNTP, TypeParts
  <2> QED
    BY <2>1, <2>2, <2>3 DEF NTPKeep, TypeParts, Switches, Console
<1>7. CASE \E i \in NTPInputs : NTPCheck(i)
  <2>1. PICK i \in NTPInputs : NTPCheck(i)
    BY <1>7
  <2>2. page \in AsyncPages /\ i \in TaskArgs(page) /\ StartTask(i)
    BY <2>1 DEF NTPCheck, Key, AsyncPages, TaskArgs
  <2>3. Console
    BY <2>2, <1>2
  <2>4. ui' \in UserInputData
    BY <2>1, <1>3 DEF NTPCheck, TypeParts
  <2> QED
    BY <2>1, <2>3, <2>4 DEF NTPCheck, TypeParts, Switches, Console
<1>8. CASE \E u \in SSHKeyInputs : SSHKeyEnter(u)
  <2>1. PICK u \in SSHKeyInputs : SSHKeyEnter(u)
    BY <1>8
  <2>2. ASSUME u = Blank PROVE Console
    BY <2>1, <2>2, <1>1 DEF SSHKeyEnter, Pages, AsyncPages
  <2>3. ASSUME u # Blank PROVE Console
    <3>1. page \in AsyncPages /\ u \in TaskArgs(page) /\ StartTask(u)
      BY <2>1, <2>3 DEF SSHKeyEnter, Key, AsyncPages, TaskArgs
    <3> QED
      BY <3>1, <1>2
  <2>4. Console
    BY <2>2, <2>3
  <2>5. ui' \in UserInputData
    BY <2>1, InputUpdate DEF SSHKeyEnter, TypeParts
  <2>6. cfg' \in Config
    BY <2>1, ConfigUpdate DEF SSHKeyEnter, SSHKeysReset, TypeParts
  <2> QED
    BY <2>1, <2>4, <2>5, <2>6 DEF SSHKeyEnter, TypeParts, Switches, Console
<1>9. CASE \E u \in ConfigURLInputs : CloudInitEnter(u)
  <2>1. PICK u \in ConfigURLInputs : CloudInitEnter(u)
    BY <1>9
  <2>2. ASSUME u = Blank PROVE Console
    BY <2>1, <2>2, <1>1 DEF CloudInitEnter, Pages
  <2>3. ASSUME u # Blank PROVE Console
    <3>1. page \in AsyncPages /\ u \in TaskArgs(page) /\ StartTask(u)
      BY <2>1, <2>3 DEF CloudInitEnter, Key, AsyncPages, TaskArgs
    <3> QED
      BY <3>1, <1>2
  <2>4. Console
    BY <2>2, <2>3
  <2>5. cfg' \in Config
    BY <2>1, ConfigUpdate DEF CloudInitEnter, TypeParts
  <2> QED
    BY <2>1, <2>4, <2>5 DEF CloudInitEnter, TypeParts, Switches, Console
<1> QED
  BY <1>4, <1>5, <1>6, <1>7, <1>8, <1>9

\* The goroutines: what they write, and their answer.
LEMMA TypeTask ==
  ASSUME TypeParts, TaskStep
  PROVE  TypeParts'
<1> DEFINE Answered == Answer("ok") \/ Answer("failed")
           Console == /\ TaskOK(task)' /\ UNCHANGED <<page, late, trail, focus>>
<1>1. ASSUME NEW p \in AsyncPages, Running(p), Answered PROVE Console
  <2>1. \A o \in {"ok", "failed"} : TaskOK([task EXCEPT !.state = o])
    BY <1>1, TaskRuns DEF TypeParts
  <2>2. PICK o \in {"ok", "failed"} : Answer(o)
    BY <1>1
  <2>3. task' = [task EXCEPT !.state = o] /\ UNCHANGED <<page, late, trail, focus>>
    BY <2>2 DEF Answer
  <2>4. TaskOK(task')
    BY <2>1, <2>3, Zenon
  <2> QED
    BY <2>3, <2>4
<1> HIDE DEF Console, Answered
<1>2. CASE DNSTask
  <2>1. "dnsServers" \in AsyncPages /\ Running("dnsServers") /\ Answered
    BY <1>2 DEF DNSTask, AsyncPages, Answered
  <2>2. task.arg \in DNSInputs
    BY <2>1, TaskRuns DEF TypeParts, TaskArgs
  <2>3. cfg' = cfg \/ cfg' = [cfg EXCEPT !.dns = Split(task.arg)]
    BY <1>2, Zenon DEF DNSTask
  <2>4. cfg' \in Config
    <3>1. cfg \in Config /\ [cfg EXCEPT !.dns = Split(task.arg)] \in Config
      BY <2>2, ConfigUpdate DEF TypeParts
    <3> QED
      BY <2>3, <3>1, Zenon
  <2> QED
    BY <1>1, <1>2, <2>1, <2>4 DEF DNSTask, TypeParts, Switches, Console
<1>3. CASE ServerURLTask
  <2>1. "serverUrl" \in AsyncPages /\ Running("serverUrl") /\ Answered
    BY <1>3 DEF ServerURLTask, AsyncPages, Answered
  <2>2. task.arg \in ServerURLInputs
    BY <2>1, TaskRuns DEF TypeParts, TaskArgs
  <2>3. cfg' = cfg \/ cfg' = [cfg EXCEPT !.serverURL = getFormattedServerURL(task.arg)]
    BY <1>3, Zenon DEF ServerURLTask
  <2>4. cfg' \in Config
    <3>1. cfg \in Config /\ [cfg EXCEPT !.serverURL = getFormattedServerURL(task.arg)] \in Config
      BY <2>2, ConfigUpdate DEF TypeParts
    <3> QED
      BY <2>3, <3>1, Zenon
  <2> QED
    BY <1>1, <1>3, <2>1, <2>4 DEF ServerURLTask, TypeParts, Switches, Console
<1>4. CASE NTPTask
  <2>1. "ntpServers" \in AsyncPages /\ Running("ntpServers") /\ Answered
    BY <1>4 DEF NTPTask, AsyncPages, Answered
  <2>2. task.arg \in NTPInputs
    BY <2>1, TaskRuns DEF TypeParts, TaskArgs
  <2>3. cfg' = cfg \/ cfg' = [cfg EXCEPT !.ntp = Split(task.arg)]
    BY <1>4, Zenon DEF NTPTask
  <2>4. cfg' \in Config
    <3>1. cfg \in Config /\ [cfg EXCEPT !.ntp = Split(task.arg)] \in Config
      BY <2>2, ConfigUpdate DEF TypeParts
    <3> QED
      BY <2>3, <3>1, Zenon
  <2> DEFINE u == [ui EXCEPT !.ntpChecked = TRUE]
  <2>5. u \in UserInputData
    BY InputUpdate DEF TypeParts
  <2>6. [u EXCEPT !.ntp = task.arg] \in UserInputData
    <3> HIDE DEF u
    <3> QED
      BY <2>2, <2>5, InputUpdate
  <2>7. ui' = ui \/ ui' = [u EXCEPT !.ntp = task.arg]
    BY <1>4, Zenon DEF NTPTask
  <2>8. ui' \in UserInputData
    BY <2>6, <2>7, Zenon DEF TypeParts
  <2>9. ntpWarned' \in SUBSET NTPInputs
    BY <1>4, <2>2 DEF NTPTask, TypeParts
  <2>10. Console
    BY <1>1, <2>1
  <2> QED
    BY <1>4, <2>4, <2>8, <2>9, <2>10 DEF NTPTask, TypeParts, Switches, Console
<1>5. CASE SSHKeyTask
  <2>1. "sshKey" \in AsyncPages /\ Running("sshKey") /\ Answered
    BY <1>5 DEF SSHKeyTask, AsyncPages, Answered
  <2>2. task.arg \in SSHKeyInputs
    BY <2>1, TaskRuns DEF TypeParts, TaskArgs
  <2>3. cfg' = cfg \/ cfg' = [cfg EXCEPT !.sshKeys = KeysAt(task.arg)]
    BY <1>5, Zenon DEF SSHKeyTask
  <2>4. cfg' \in Config
    <3>1. cfg \in Config /\ [cfg EXCEPT !.sshKeys = KeysAt(task.arg)] \in Config
      BY <2>2, ConfigUpdate DEF TypeParts
    <3> QED
      BY <2>3, <3>1, Zenon
  <2> QED
    BY <1>1, <1>5, <2>1, <2>4 DEF SSHKeyTask, TypeParts, Switches, Console
<1>6. CASE CloudInitTask
  <2>1. "cloudInit" \in AsyncPages /\ Running("cloudInit") /\ Answered
    BY <1>6 DEF CloudInitTask, AsyncPages, Answered
  <2> QED
    BY <1>1, <1>6, <2>1 DEF CloudInitTask, TypeParts, Switches, Console
<1> QED
  BY <1>2, <1>3, <1>4, <1>5, <1>6 DEF TaskStep

\* A goroutine that has answered belongs to a page that has one.
LEMMA TaskPage ==
  ASSUME TaskOK(task), task.state \in {"running", "ok", "failed"}
  PROVE  task # NoTask /\ task.page \in AsyncPages
<1>1. task # NoTask
  BY DEF NoTask
<1>2. PICK q \in AsyncPages : task \in TaskOf(q)
  BY <1>1 DEF TaskOK
<1> QED
  BY <1>1, <1>2 DEF TaskOf

\* A callback shows the page that waited or the one behind it.
LEMMA TypeCallback ==
  ASSUME TypeParts, Callback
  PROVE  TypeParts'
<1>1. task.page \in AsyncPages
  BY TaskPage DEF TypeParts, Callback, TaskFailed, TaskDone
<1>2. AsyncPages \subseteq Pages /\ "exited" \in Pages
  BY DEF Pages, Terminal
<1>3. page' \in Pages /\ trail' \in Seq(PageNames) /\ LateOK(late')
  <2>1. CASE TaskFailed
    BY <1>1, <1>2, <2>1, MoveType, TypePartsOK DEF TaskFailed
  <2>2. CASE TaskDone
    <3>1. CASE page = task.page
      <4>1. AfterTask(page) \in Pages
        BY <1>1, <3>1 DEF AfterTask, AsyncPages, Pages
      <4>2. Forward(AfterTask(page))
        BY <2>2, <3>1 DEF TaskDone
      <4> QED
        BY <4>1, <4>2, MoveType, TypePartsOK
    <3>2. CASE page # task.page
      BY <1>2, <2>2, <3>2, MoveType, TypePartsOK DEF TaskDone
    <3> QED
      BY <3>1, <3>2
  <2> QED
    BY <2>1, <2>2 DEF Callback
<1>4. focus' = "panel" /\ task' = NoTask
      /\ UNCHANGED <<cfg, method, env, installModeOnly, alreadyInstalled, preflightAck>>
  BY DEF Callback, TaskFailed, TaskDone, Switches
<1>5. TaskOK(task')
  BY <1>4, Zenon DEF TaskOK
<1>6. ui' \in UserInputData /\ ntpWarned' \in SUBSET NTPInputs
  <2>1. \/ UNCHANGED <<ui, ntpWarned>>
        \/ ui' = [ui EXCEPT !.ntpChecked = FALSE] /\ ntpWarned' = {}
    BY DEF Callback, TaskFailed, TaskDone, LeaveNTP
  <2>2. [ui EXCEPT !.ntpChecked = FALSE] \in UserInputData
    BY InputUpdate DEF TypeParts
  <2> QED
    BY <2>1, <2>2 DEF TypeParts
<1> QED
  BY <1>3, <1>4, <1>5, <1>6 DEF TypeParts

\* Every page with an Esc binding has a page before it.
LEMMA PrevPageType ==
  ASSUME page \in Pages \ NoEsc
  PROVE  PrevPage(page) \in Pages
BY DEF Pages, NoEsc, PrevPage, PasswordPanels, ClusterNetworkPanels, AsyncPages,
       Terminal, PasswordPrevPage, NetworkPrevPage, HostnamePrevPage, TokenPrevPage,
       ConfirmPrevPage

\* Esc shows a page and may store the name of the system.
LEMMA TypeEsc ==
  ASSUME TypeParts, NEW h \in OSHostnames, Esc(h)
  PROVE  TypeParts'
<1>1. page' \in Pages /\ trail' \in Seq(PageNames) /\ LateOK(late')
  <2>1. PrevPage(page) \in Pages
    BY PrevPageType DEF TypeParts, Esc
  <2>2. Back(PrevPage(page))
    BY DEF Esc
  <2> QED
    BY <2>1, <2>2, MoveType, TypePartsOK
<1>2. cfg' \in Config
  <2> DEFINE n == checkDHCPHostname(cfg.hostname, h)
  <2>1. cfg' = cfg \/ cfg' = [cfg EXCEPT !.hostname = n]
    BY Zenon DEF Esc
  <2>2. n \in HostnameInputs \cup OSHostnames \cup {Blank}
    BY DEF TypeParts, Config, checkDHCPHostname
  <2>3. [cfg EXCEPT !.hostname = n] \in Config
    <3> HIDE DEF n
    <3> QED
      BY <2>2, ConfigUpdate DEF TypeParts
  <2> QED
    BY <2>1, <2>3, Zenon DEF TypeParts
<1>3. ui' \in UserInputData /\ ntpWarned' \in SUBSET NTPInputs
  <2>1. \/ UNCHANGED <<ui, ntpWarned>>
        \/ ui' = [ui EXCEPT !.ntpChecked = FALSE] /\ ntpWarned' = {}
    BY DEF Esc, LeaveNTP
  <2>2. [ui EXCEPT !.ntpChecked = FALSE] \in UserInputData
    BY InputUpdate DEF TypeParts
  <2> QED
    BY <2>1, <2>2 DEF TypeParts
<1>4. preflightAck' \in BOOLEAN
  BY Zenon DEF Esc, TypeParts
<1> QED
  BY <1>1, <1>2, <1>3, <1>4 DEF TypeParts, Esc, NoTaskChange

\* A late answer stores the method, or ends the model.
LEMMA TypeLate ==
  ASSUME TypeParts, LateStep
  PROVE  TypeParts'
<1>1. CASE LateApply
  <2>1. [cfg EXCEPT !.method = method] \in Config
    BY ConfigUpdate DEF TypeParts
  <2>2. cfg' \in Config
    BY <1>1, <2>1, Zenon DEF LateApply
  <2> QED
    BY <1>1, <2>2 DEF LateApply, TypeParts, Switches
<1>2. ASSUME NEW p \in LatePages, LateAnswer(p) PROVE TypeParts'
  <2>1. "overtaken" \in Pages /\ "exited" \in Pages
    BY DEF Pages, Terminal
  <2>2. page' \in Pages /\ trail' \in Seq(PageNames) /\ LateOK(late')
    BY <1>2, <2>1, MoveType, TypePartsOK DEF LateAnswer
  <2>3. TaskOK(task')
    BY <1>2, Zenon DEF LateAnswer, TaskOK, TypeParts
  <2> QED
    BY <1>2, <2>2, <2>3 DEF LateAnswer, TypeParts, Switches
<1> QED
  BY <1>1, <1>2 DEF LateStep

\* Every step of the wizard keeps the types.
LEMMA TypeStep == TypeParts /\ [Next]_vars => TypeParts'
<1> SUFFICES ASSUME TypeParts, [Next]_vars PROVE TypeParts'
  OBVIOUS
<1>1. CASE UserStep
  BY <1>1, TypeMoves, TypeMode, TypeRole, TypePassword, TypeNetwork, TypeClusterNetwork,
     TypeClusterDNS, TypeEnter, TypeEnterAsync, TypeEsc, Zenon DEF UserStep
<1>2. CASE TaskStep
  BY <1>2, TypeTask
<1>3. CASE Callback
  BY <1>3, TypeCallback
<1>4. CASE UNCHANGED vars
  BY <1>4 DEF vars, TypeParts
<1>5. CASE LateStep
  BY <1>5, TypeLate
<1> QED
  BY <1>1, <1>2, <1>3, <1>4, <1>5 DEF Next, Ended

\* The type invariant: whatever is typed and whichever way the pages are walked, the
\* page on display is one of the wizard's and every field of HarvesterConfig and of
\* userInputData holds a value of its kind, also those that goroutines write.
THEOREM WizardTypeCorrect == Spec => []TypeOK
<1>1. Init => TypeOK
  BY TypeInit, TypePartsOK
<1>2. TypeOK /\ [Next]_vars => TypeOK'
  <2>1. TypeOK' <=> TypeParts'
    BY TypePartsOK, PTL
  <2> QED
    BY <2>1, TypeStep, TypePartsOK
<1> QED
  BY <1>1, <1>2, PTL DEF Spec

-----------------------------------------------------------------------------
(* Safety *)

\* While an address is checked it is the one on display, and once it has answered the
\* configuration holds it.
ServerAsked ==
  task.page = "serverUrl"
    => /\ task.arg = ui.serverURL /\ ServerURLValid(ui.serverURL)
       /\ task.state = "ok" => cfg.serverURL = getFormattedServerURL(ui.serverURL)

\* The confirmation of a password is asked for a password.
PasswordTyped == page = "osPasswordConfirm" => ui.password # Blank

\* The inductive invariant. PageMatchesMode is needed for CreateIsFresh (the role
\* and address pages are only met when joining), AnswerFindsItsPage for everything a
\* callback does, ServerAsked and PasswordTyped for what lies behind their pages.
IInv ==
  /\ AnswerFindsItsPage
  /\ PageMatchesMode
  /\ CreateIsFresh
  /\ JoinServerAnswered /\ ServerAsked
  /\ PasswordAgreed /\ PasswordTyped

\* The fields that the invariant is about keep their values.
Kept ==
  /\ cfg'.mode = cfg.mode /\ cfg'.role = cfg.role
  /\ cfg'.serverURL = cfg.serverURL /\ cfg'.password = cfg.password
  /\ ui'.serverURL = ui.serverURL
  /\ ui'.password = ui.password /\ ui'.passwordConfirm = ui.passwordConfirm
  /\ UNCHANGED <<installModeOnly, alreadyInstalled>>

\* Page q may follow the page on display.
MayFollow(q) ==
  /\ q \in AfterDisk \ AfterCloudInit => ~installModeOnly
  /\ alreadyInstalled => q \notin PasswordPanels \cup {"disk"}
  /\ q \in {"askRole", "serverUrl"} => cfg.mode = "join"
  /\ q \in ClusterNetworkPanels \cup {"vip"} => cfg.mode = "create"
  /\ q \in {"disk"} \cup PasswordPanels \cup AfterDisk => cfg.mode # Blank
  /\ q \in AfterServerURL => page \in AfterServerURL \/ cfg.mode # "join"
  /\ q \in AfterPassword /\ ~alreadyInstalled => page \in AfterPassword
  /\ q = "osPasswordConfirm" => page = "osPasswordConfirm"

\* A step to a page that may follow, which keeps those fields, is safe.
LEMMA SafeMove ==
  ASSUME IInv, Kept, MayFollow(page'), AnswerFindsItsPage', ServerAsked'
  PROVE  IInv'
<1>1. PageMatchesMode'
  BY DEF IInv, Kept, MayFollow, PageMatchesMode
<1>2. CreateIsFresh'
  BY DEF IInv, Kept, CreateIsFresh
<1>3. JoinServerAnswered'
  BY DEF IInv, Kept, MayFollow, JoinServerAnswered
<1>4. PasswordAgreed'
  BY DEF IInv, Kept, MayFollow, PasswordAgreed
<1>5. PasswordTyped'
  BY DEF IInv, Kept, MayFollow, PasswordTyped
<1> QED
  BY <1>1, <1>2, <1>3, <1>4, <1>5 DEF IInv

\* Keys only reach a panel while no goroutine works, unless a late answer took over.
LEMMA KeyMeansIdle ==
  ASSUME IInv, focus = "panel", page # "overtaken"
  PROVE  task = NoTask
BY DEF IInv, AnswerFindsItsPage

\* Without a goroutine nothing is claimed of one.
LEMMA IdleIsSafe ==
  ASSUME task' = NoTask
  PROVE  AnswerFindsItsPage' /\ ServerAsked'
BY DEF AnswerFindsItsPage, ServerAsked, NoTask

\* Showing the same page again is a move that is always allowed.
LEMMA StaysSafe ==
  ASSUME IInv
  PROVE  MayFollow(page)
BY DEF IInv, MayFollow, PageMatchesMode

\* The keys that move on without touching mode, role, address or password.
LEMMA SafeMoves ==
  ASSUME TypeParts, IInv,
         \/ PreflightProceed \/ Halt \/ DiskNext \/ ClusterNetworkUp \/ VipNext
         \/ ConfirmYes \/ NetworkRefused
         \/ \E m \in {"dhcp", "static"} : NetworkMethodSelect(m)
         \/ \E h \in OSHostnames : NetworkNext(h)
         \/ \E c \in PodCIDRInputs : PodCIDRConfirm(c)
         \/ \E c \in ServiceNets \cup {Blank} : ServiceCIDRConfirm(c)
         \/ \E d \in ServiceAddresses \cup {Blank} : \E h \in OSHostnames :
              ClusterDNSConfirm(d, h)
         \/ \E n \in HostnameInputs : HostnameEnter(n)
         \/ \E t \in TokenInputs : TokenEnter(t)
         \/ \E i \in NTPInputs : NTPKeep(i)
         \/ \E p \in ProxyInputs : ProxyEnter(p)
  PROVE  IInv'
<1> USE DEF Key
<1> DEFINE After == MayFollow(page') /\ NoTaskChange /\ focus = "panel" /\ page # "overtaken"
<1>1. cfg.mode \in Modes
  BY DEF TypeParts, Config, Modes
<1>2. After
  <2> USE DEF IInv, PageMatchesMode, MayFollow, Modes, PasswordPanels,
              ClusterNetworkPanels, AfterPassword, AfterDisk, AfterNetwork,
              AfterClusterNetwork, AfterHostname, AfterDNS, AfterServerURL, AfterToken,
              AfterNTP, AfterSSHKey, AfterCloudInit, Forward, Within
  <2>1. CASE PreflightProceed \/ Halt \/ DiskNext
    BY <2>1, <1>1 DEF PreflightProceed, Halt, DiskNext
  <2>2. CASE ClusterNetworkUp \/ VipNext \/ ConfirmYes
    BY <2>2, <1>1 DEF ClusterNetworkUp, VipNext, ConfirmYes
  <2>3. CASE NetworkRefused \/ \E m \in {"dhcp", "static"} : NetworkMethodSelect(m)
    BY <2>3, <1>1 DEF NetworkRefused, NetworkMethodSelect
  <2>4. CASE \E h \in OSHostnames : NetworkNext(h)
    BY <2>4, <1>1 DEF NetworkNext
  <2>5. CASE \/ \E c \in PodCIDRInputs : PodCIDRConfirm(c)
             \/ \E c \in ServiceNets \cup {Blank} : ServiceCIDRConfirm(c)
    BY <2>5, <1>1 DEF PodCIDRConfirm, ServiceCIDRConfirm
  <2>6. CASE \E d \in ServiceAddresses \cup {Blank} : \E h \in OSHostnames :
               ClusterDNSConfirm(d, h)
    BY <2>6, <1>1 DEF ClusterDNSConfirm
  <2>7. CASE \/ \E n \in HostnameInputs : HostnameEnter(n)
             \/ \E t \in TokenInputs : TokenEnter(t)
    BY <2>7, <1>1 DEF HostnameEnter, TokenEnter
  <2>8. CASE \/ \E i \in NTPInputs : NTPKeep(i)
             \/ \E p \in ProxyInputs : ProxyEnter(p)
    BY <2>8, <1>1 DEF NTPKeep, ProxyEnter
  <2> QED
    BY <2>1, <2>2, <2>3, <2>4, <2>5, <2>6, <2>7, <2>8
<1>3. Kept
  <2> USE DEF Kept, Switches, TypeParts
  <2>1. CASE PreflightProceed \/ Halt \/ DiskNext \/ ClusterNetworkUp \/ VipNext \/ ConfirmYes
    BY <2>1 DEF PreflightProceed, Halt, DiskNext, ClusterNetworkUp, VipNext, ConfirmYes
  <2>2. CASE NetworkRefused \/ \E m \in {"dhcp", "static"} : NetworkMethodSelect(m)
    BY <2>2 DEF NetworkRefused, NetworkMethodSelect, Config
  <2>3. CASE \E h \in OSHostnames : NetworkNext(h)
    BY <2>3 DEF NetworkNext, Config
  <2>4. CASE \/ \E c \in PodCIDRInputs : PodCIDRConfirm(c)
             \/ \E c \in ServiceNets \cup {Blank} : ServiceCIDRConfirm(c)
    BY <2>4 DEF PodCIDRConfirm, ServiceCIDRConfirm, Config
  <2>5. CASE \E d \in ServiceAddresses \cup {Blank} : \E h \in OSHostnames :
               ClusterDNSConfirm(d, h)
    BY <2>5 DEF ClusterDNSConfirm, Config
  <2>6. CASE \/ \E n \in HostnameInputs : HostnameEnter(n)
             \/ \E t \in TokenInputs : TokenEnter(t)
    BY <2>6 DEF HostnameEnter, TokenEnter, Config
  <2>7. CASE \/ \E i \in NTPInputs : NTPKeep(i)
             \/ \E p \in ProxyInputs : ProxyEnter(p)
    BY <2>7 DEF NTPKeep, LeaveNTP, ProxyEnter, UserInputData
  <2> QED
    BY <2>1, <2>2, <2>3, <2>4, <2>5, <2>6, <2>7
<1>4. task' = NoTask
  BY <1>2, KeyMeansIdle DEF NoTaskChange
<1> QED
  BY <1>2, <1>3, <1>4, IdleIsSafe, SafeMove

\* Every gotoPrevPage leads to a page of the same mode.
LEMMA SafeEsc ==
  ASSUME TypeParts, IInv, NEW h \in OSHostnames, Esc(h)
  PROVE  IInv'
<1>1. cfg.mode \in Modes /\ page \in Pages \ NoEsc
  BY DEF TypeParts, Config, Modes, Esc
<1>2. MayFollow(PrevPage(page))
  <2> USE DEF IInv, PageMatchesMode, MayFollow, Modes, PasswordPanels,
              ClusterNetworkPanels, AfterPassword, AfterDisk, AfterNetwork,
              AfterClusterNetwork, AfterHostname, AfterDNS, AfterServerURL, AfterToken,
              AfterNTP, AfterSSHKey, AfterCloudInit, PrevPage
  <2>1. CASE page \in {"askRole", "disk"} \cup PasswordPanels
    BY <2>1, <1>1 DEF PasswordPrevPage
  <2>2. CASE page \in {"network", "hostname"} \cup ClusterNetworkPanels
    BY <2>2, <1>1 DEF NetworkPrevPage, HostnamePrevPage
  <2>3. CASE page \in {"dnsServers", "serverUrl", "vip", "token"}
    BY <2>3, <1>1 DEF TokenPrevPage
  <2>4. CASE page \in {"ntpServers", "proxy", "sshKey", "cloudInit", "confirmInstall"}
    BY <2>4, <1>1 DEF ConfirmPrevPage
  <2> QED
    BY <2>1, <2>2, <2>3, <2>4, <1>1 DEF Pages, NoEsc, AsyncPages, Terminal
<1>3. page' = PrevPage(page) /\ task' = task /\ focus = "panel"
  BY DEF Esc, Back, NoTaskChange
<1>4. Kept
  BY DEF Esc, LeaveNTP, Kept, TypeParts, Config, UserInputData
<1>5. task' = NoTask
  BY <1>1, <1>3, KeyMeansIdle DEF NoEsc, Terminal
<1> QED
  BY <1>2, <1>3, <1>4, <1>5, IdleIsSafe, SafeMove

\* The spinner takes the focus from the page that starts a goroutine.
LEMMA StartIsSafe ==
  ASSUME IInv, NEW i, StartTask(i), page # "serverUrl"
  PROVE  AnswerFindsItsPage' /\ ServerAsked' /\ MayFollow(page')
BY StaysSafe DEF StartTask, AnswerFindsItsPage, ServerAsked

\* Starting a check of any page but the address page keeps the invariant.
LEMMA SafeStart ==
  ASSUME TypeParts, IInv,
         \/ \E d \in DNSInputs : DNSEnter(d)
         \/ \E i \in NTPInputs : NTPCheck(i)
         \/ \E u \in SSHKeyInputs : SSHKeyEnter(u)
         \/ \E u \in ConfigURLInputs : CloudInitEnter(u)
  PROVE  IInv'
<1>1. Kept
  <2> USE DEF Kept, TypeParts, Switches
  <2>1. CASE \E d \in DNSInputs : DNSEnter(d)
    BY <2>1 DEF DNSEnter, UserInputData
  <2>2. CASE \E i \in NTPInputs : NTPCheck(i)
    BY <2>2 DEF NTPCheck, UserInputData
  <2>3. CASE \E u \in SSHKeyInputs : SSHKeyEnter(u)
    BY <2>3 DEF SSHKeyEnter, UserInputData, Config
  <2>4. CASE \E u \in ConfigURLInputs : CloudInitEnter(u)
    BY <2>4 DEF CloudInitEnter, Config
  <2> QED
    BY <2>1, <2>2, <2>3, <2>4
<1>2. \/ \E i : StartTask(i) /\ page # "serverUrl"
      \/ /\ focus = "panel" /\ NoTaskChange
         /\ <<page, page'>> \in {<<"sshKey", "cloudInit">>, <<"cloudInit", "confirmInstall">>}
  BY DEF DNSEnter, NTPCheck, SSHKeyEnter, CloudInitEnter, Key, Forward
<1>3. CASE \E i : StartTask(i) /\ page # "serverUrl"
  BY <1>1, <1>3, StartIsSafe, SafeMove
<1>4. CASE /\ focus = "panel" /\ NoTaskChange
           /\ <<page, page'>> \in {<<"sshKey", "cloudInit">>, <<"cloudInit", "confirmInstall">>}
  <2>1. task' = NoTask
    BY <1>4, KeyMeansIdle DEF NoTaskChange
  <2>2. MayFollow(page')
    BY <1>4 DEF IInv, PageMatchesMode, MayFollow, PasswordPanels, ClusterNetworkPanels,
                AfterPassword, AfterDisk, AfterNetwork, AfterClusterNetwork, AfterHostname,
                AfterDNS, AfterServerURL, AfterToken, AfterNTP, AfterSSHKey, AfterCloudInit
  <2> QED
    BY <1>1, <2>1, <2>2, IdleIsSafe, SafeMove
<1> QED
  BY <1>2, <1>3, <1>4

\* What the goroutines of the other pages write is not what the invariant is about.
LEMMA SafeTask ==
  ASSUME TypeParts, IInv, DNSTask \/ NTPTask \/ SSHKeyTask \/ CloudInitTask
  PROVE  IInv'
<1>1. Kept
  <2> USE DEF Kept, TypeParts, Switches
  <2>1. CASE DNSTask
    BY <2>1 DEF DNSTask, Config
  <2>2. CASE NTPTask
    BY <2>2 DEF NTPTask, Config, UserInputData
  <2>3. CASE SSHKeyTask
    BY <2>3 DEF SSHKeyTask, Config
  <2>4. CASE CloudInitTask
    BY <2>4 DEF CloudInitTask
  <2> QED
    BY <2>1, <2>2, <2>3, <2>4
<1>2. PICK p \in AsyncPages \ {"serverUrl"}, o \in {"ok", "failed"} : Running(p) /\ Answer(o)
  BY DEF DNSTask, NTPTask, SSHKeyTask, CloudInitTask, AsyncPages
<1>3. /\ task # NoTask /\ task'.page = task.page /\ task.page # "serverUrl"
      /\ UNCHANGED <<page, focus, late>>
  <2>1. task # NoTask /\ task.page = p
    BY <1>2 DEF Running, NoTask
  <2>2. task' = [task EXCEPT !.state = o] /\ UNCHANGED <<page, focus, late>>
    BY <1>2 DEF Answer
  <2>3. PICK q \in AsyncPages : task \in TaskOf(q)
    BY <2>1 DEF TypeParts, TaskOK
  <2>4. task'.page = task.page
    BY <2>2, <2>3 DEF TaskOf
  <2> QED
    BY <1>2, <2>1, <2>2, <2>4
<1>4. AnswerFindsItsPage' /\ ServerAsked'
  BY <1>3 DEF IInv, AnswerFindsItsPage, ServerAsked
<1>5. MayFollow(page')
  BY <1>3, StaysSafe
<1> QED
  BY <1>1, <1>4, <1>5, SafeMove

\* The address of the cluster: the page, the ping, and the answer.
LEMMA SafeServerURL ==
  ASSUME TypeParts, IInv,
         (\E u \in ServerURLInputs : ServerURLEnter(u)) \/ ServerURLTask
  PROVE  IInv'
<1> DEFINE Rest == /\ cfg'.mode = cfg.mode /\ cfg'.role = cfg.role
                   /\ cfg'.password = cfg.password
                   /\ ui'.password = ui.password
                   /\ ui'.passwordConfirm = ui.passwordConfirm
                   /\ UNCHANGED <<installModeOnly, alreadyInstalled>>
<1>1. ASSUME Rest, page = "serverUrl", page' = page,
             AnswerFindsItsPage', ServerAsked', cfg.mode = "join"
      PROVE  IInv'
  <2>1. page \notin AfterServerURL
    BY <1>1 DEF AfterServerURL, AfterToken, AfterNTP, AfterSSHKey, AfterCloudInit
  <2>2. PageMatchesMode'
    BY <1>1 DEF IInv, PageMatchesMode
  <2>3. CreateIsFresh'
    BY <1>1 DEF CreateIsFresh
  <2>4. JoinServerAnswered'
    BY <1>1, <2>1 DEF JoinServerAnswered
  <2>5. PasswordAgreed'
    BY <1>1 DEF IInv, PasswordAgreed
  <2>6. PasswordTyped'
    BY <1>1 DEF PasswordTyped
  <2> QED
    BY <1>1, <2>2, <2>3, <2>4, <2>5, <2>6 DEF IInv
<1> HIDE DEF Rest
<1>2. CASE \E u \in ServerURLInputs : ServerURLEnter(u)
  <2>1. PICK u \in ServerURLInputs : ServerURLEnter(u)
    BY <1>2
  <2>2. page = "serverUrl" /\ focus = "panel" /\ ui'.serverURL = u /\ Rest
    BY <2>1 DEF ServerURLEnter, Key, TypeParts, UserInputData, Switches, Rest
  <2>3. task = NoTask
    BY <2>2, KeyMeansIdle
  <2>4. cfg.mode = "join" /\ page' = page
    BY <2>1, <2>2 DEF ServerURLEnter, StartTask, Within, IInv, PageMatchesMode
  <2>5. AnswerFindsItsPage' /\ ServerAsked'
    <3>1. ASSUME ServerURLValid(u) PROVE AnswerFindsItsPage' /\ ServerAsked'
      <4>1. task' = [page |-> page, arg |-> u, state |-> "running"] /\ focus' = "spinner"
        BY <2>1, <3>1 DEF ServerURLEnter, StartTask
      <4>2. ServerURLValid(ui.serverURL)'
        BY <2>2, <3>1 DEF ServerURLValid
      <4> QED
        BY <2>2, <2>4, <4>1, <4>2 DEF AnswerFindsItsPage, ServerAsked
    <3>2. ASSUME ~ServerURLValid(u) PROVE AnswerFindsItsPage' /\ ServerAsked'
      <4>1. task' = NoTask
        BY <2>1, <2>3, <3>2 DEF ServerURLEnter, NoTaskChange
      <4> QED
        BY <4>1, IdleIsSafe
    <3> QED
      BY <3>1, <3>2
  <2> QED
    BY <1>1, <2>2, <2>4, <2>5
<1>3. CASE ServerURLTask
  <2>1. task # NoTask /\ task.page = "serverUrl" /\ page = "serverUrl"
    BY <1>3 DEF ServerURLTask, Running, NoTask, IInv, AnswerFindsItsPage
  <2>2. cfg.mode = "join" /\ UNCHANGED <<page, focus, ui>> /\ Rest
    BY <1>3, <2>1 DEF ServerURLTask, Answer, IInv, PageMatchesMode, TypeParts, Config,
                      Switches, Rest
  <2>3. /\ task'.page = task.page /\ task'.arg = task.arg
        /\ task'.state = "ok" => cfg'.serverURL = getFormattedServerURL(task.arg)
    <3>1. PICK q \in AsyncPages : task \in TaskOf(q)
      BY <2>1 DEF TypeParts, TaskOK
    <3>2. CASE Answer("failed")
      BY <3>1, <3>2 DEF Answer, TaskOf
    <3>3. CASE /\ Answer("ok")
               /\ cfg' = [cfg EXCEPT !.serverURL = getFormattedServerURL(task.arg)]
      BY <3>1, <3>3 DEF Answer, TaskOf, TypeParts, Config
    <3> QED
      BY <1>3, <3>2, <3>3 DEF ServerURLTask
  <2>4. task.arg = ui.serverURL /\ ServerURLValid(ui.serverURL) /\ focus = "spinner"
    BY <2>1 DEF IInv, ServerAsked, AnswerFindsItsPage
  <2>5. ServerURLValid(ui.serverURL)'
    BY <2>2, <2>4 DEF ServerURLValid
  <2>6. AnswerFindsItsPage' /\ ServerAsked'
    BY <2>1, <2>2, <2>3, <2>4, <2>5 DEF AnswerFindsItsPage, ServerAsked
  <2> QED
    BY <1>1, <2>1, <2>2, <2>6
<1> QED
  BY <1>2, <1>3

\* The callbacks: a failed check shows its page again, a passed one the page behind it.
LEMMA SafeCallback ==
  ASSUME TypeParts, IInv, Callback
  PROVE  IInv'
<1>1. task.page \in AsyncPages /\ page = task.page
  BY TaskPage DEF TypeParts, IInv, AnswerFindsItsPage, Callback, TaskFailed, TaskDone
<1>2. task' = NoTask
  BY DEF Callback, TaskFailed, TaskDone
<1>3. Kept
  BY DEF Callback, TaskFailed, TaskDone, LeaveNTP, Kept, TypeParts, UserInputData, Switches
<1>4. CASE TaskFailed
  <2>1. page' = page
    BY <1>1, <1>4 DEF TaskFailed, Within
  <2> QED
    BY <1>2, <1>3, <2>1, StaysSafe, IdleIsSafe, SafeMove
<1>5. CASE TaskDone
  <2>1. page' = AfterTask(page) /\ cfg.mode \in Modes
    BY <1>1, <1>5 DEF TaskDone, Forward, TypeParts, Config, Modes
  <2> USE DEF PasswordPanels, ClusterNetworkPanels, AfterPassword, AfterDisk, AfterNetwork,
              AfterClusterNetwork, AfterHostname, AfterDNS, AfterServerURL, AfterToken,
              AfterNTP, AfterSSHKey, AfterCloudInit
  <2>2. CASE page # "serverUrl"
    <3>1. MayFollow(page')
      BY <1>1, <2>1, <2>2 DEF AfterTask, AsyncPages, MayFollow, IInv, PageMatchesMode, Modes
    <3> QED
      BY <1>2, <1>3, <3>1, IdleIsSafe, SafeMove
  <2>3. CASE page = "serverUrl"
    <3>1. page' = "token" /\ cfg.mode = "join"
      BY <2>1, <2>3 DEF AfterTask, IInv, PageMatchesMode
    <3>2. /\ cfg.serverURL = getFormattedServerURL(ui.serverURL)
          /\ ui.serverURL \notin Malformed \cup {Blank}
      BY <1>1, <1>5, <2>3 DEF TaskDone, IInv, ServerAsked, ServerURLValid
    <3>3. JoinServerAnswered'
      BY <1>3, <3>2 DEF Kept, JoinServerAnswered
    <3>4. PageMatchesMode'
      BY <1>3, <2>3, <3>1 DEF Kept, IInv, PageMatchesMode
    <3>5. CreateIsFresh'
      BY <1>3, <3>1 DEF Kept, CreateIsFresh
    <3>6. PasswordAgreed' /\ PasswordTyped'
      BY <1>3, <2>3, <3>1 DEF Kept, IInv, PasswordAgreed, PasswordTyped
    <3> QED
      BY <1>2, <3>3, <3>4, <3>5, <3>6, IdleIsSafe DEF IInv
  <2> QED
    BY <2>2, <2>3
<1> QED
  BY <1>4, <1>5 DEF Callback

\* Choosing the mode: a node that creates a cluster forgets what it was to join.
LEMMA SafeMode ==
  ASSUME TypeParts, IInv, NEW m \in {"create", "join", "install"}, AskCreateEnter(m)
  PROVE  IInv'
<1>1. /\ cfg'.mode = m /\ cfg'.role = RoleFor(m) /\ cfg'.serverURL = ServerURLFor(m)
      /\ cfg'.password = cfg.password /\ ui'.password = ui.password
      /\ ui'.passwordConfirm = ui.passwordConfirm
  BY DEF AskCreateEnter, TypeParts, Config, UserInputData
<1>2. /\ installModeOnly' = (m = "install")
      /\ m = "install" => ~alreadyInstalled
      /\ page' = IF m = "join" THEN "askRole"
                 ELSE IF alreadyInstalled THEN "network" ELSE "osPassword"
      /\ alreadyInstalled' = alreadyInstalled
  BY DEF AskCreateEnter, Forward
<1>3. task' = NoTask
  BY KeyMeansIdle DEF AskCreateEnter, Key, NoTaskChange
<1> USE DEF PasswordPanels, ClusterNetworkPanels, AfterPassword, AfterDisk, AfterNetwork,
            AfterClusterNetwork, AfterHostname, AfterDNS, AfterServerURL, AfterToken,
            AfterNTP, AfterSSHKey, AfterCloudInit
<1>4. PageMatchesMode'
  BY <1>1, <1>2 DEF PageMatchesMode, Blank
<1>5. CreateIsFresh'
  BY <1>1 DEF CreateIsFresh, RoleFor, ServerURLFor
<1>6. JoinServerAnswered' /\ PasswordAgreed' /\ PasswordTyped'
  BY <1>2 DEF JoinServerAnswered, PasswordAgreed, PasswordTyped
<1> QED
  BY <1>3, <1>4, <1>5, <1>6, IdleIsSafe DEF IInv

\* askRole's Enter leads to the first page that both modes share.
LEMMA SafeRole ==
  ASSUME TypeParts, IInv, NEW r \in Roles, AskRoleEnter(r)
  PROVE  IInv'
<1>1. /\ cfg'.mode = cfg.mode /\ cfg.mode = "join"
      /\ UNCHANGED <<ui, installModeOnly, alreadyInstalled>>
      /\ page' = IF alreadyInstalled THEN "network" ELSE "osPassword"
  BY DEF AskRoleEnter, Forward, Key, TypeParts, Config, IInv, PageMatchesMode, Switches
<1>2. task' = NoTask
  BY KeyMeansIdle DEF AskRoleEnter, Key, NoTaskChange
<1> USE DEF PasswordPanels, ClusterNetworkPanels, AfterPassword, AfterDisk, AfterNetwork,
            AfterClusterNetwork, AfterHostname, AfterDNS, AfterServerURL, AfterToken,
            AfterNTP, AfterSSHKey, AfterCloudInit
<1>3. PageMatchesMode'
  BY <1>1 DEF IInv, PageMatchesMode, Blank
<1>4. CreateIsFresh'
  BY <1>1 DEF CreateIsFresh
<1>5. JoinServerAnswered' /\ PasswordAgreed' /\ PasswordTyped'
  BY <1>1 DEF JoinServerAnswered, PasswordAgreed, PasswordTyped
<1> QED
  BY <1>2, <1>3, <1>4, <1>5, IdleIsSafe DEF IInv

\* The password page is left forward only with two equal passwords that are not blank.
LEMMA SafePassword ==
  ASSUME TypeParts, IInv, NEW p \in PasswordInputs,
         PasswordEnter(p) \/ PasswordConfirmUp(p) \/ PasswordConfirmEnter(p)
  PROVE  IInv'
<1>1. /\ page \in PasswordPanels /\ focus = "panel" /\ task' = task
      /\ UNCHANGED <<installModeOnly, alreadyInstalled>>
  BY DEF PasswordEnter, PasswordConfirmUp, PasswordConfirmEnter, Key, NoTaskChange,
         Switches, PasswordPanels
<1>2. task' = NoTask
  BY <1>1, KeyMeansIdle DEF PasswordPanels
<1>3. /\ cfg'.mode = cfg.mode /\ cfg'.role = cfg.role /\ cfg'.serverURL = cfg.serverURL
  BY DEF PasswordEnter, PasswordConfirmUp, PasswordConfirmEnter, TypeParts, Config
<1>4. page' \in PasswordPanels \cup {"disk", "exited"}
  BY <1>1 DEF PasswordEnter, PasswordConfirmUp, PasswordConfirmEnter, Forward, Within,
              PasswordPanels
<1> USE DEF PasswordPanels, ClusterNetworkPanels, AfterPassword, AfterDisk, AfterNetwork,
            AfterClusterNetwork, AfterHostname, AfterDNS, AfterServerURL, AfterToken,
            AfterNTP, AfterSSHKey, AfterCloudInit
<1>5. PageMatchesMode'
  BY <1>1, <1>3, <1>4 DEF IInv, PageMatchesMode
<1>6. CreateIsFresh'
  BY <1>3 DEF IInv, CreateIsFresh
<1>7. JoinServerAnswered'
  BY <1>4 DEF JoinServerAnswered
<1>8. PasswordAgreed' /\ PasswordTyped'
  <2>1. CASE PasswordEnter(p)
    BY <2>1 DEF PasswordEnter, Within, PasswordAgreed, PasswordTyped, TypeParts, UserInputData
  <2>2. CASE PasswordConfirmUp(p)
    BY <2>2 DEF PasswordConfirmUp, Within, PasswordAgreed, PasswordTyped
  <2>3. CASE PasswordConfirmEnter(p)
    <3>1. page = "osPasswordConfirm" /\ ui.password # Blank
      BY <2>3 DEF PasswordConfirmEnter, Key, IInv, PasswordTyped
    <3>2. ui'.password = ui.password /\ ui'.passwordConfirm = p
      BY <2>3 DEF PasswordConfirmEnter, TypeParts, UserInputData
    <3>3. page' = "disk" => p = ui.password /\ cfg'.password = GetEncryptedPasswd(p)
      BY <2>3, <3>1 DEF PasswordConfirmEnter, PasswordsMatch, Within, TypeParts, Config
    <3> QED
      BY <1>4, <3>1, <3>2, <3>3 DEF PasswordAgreed, PasswordTyped
  <2> QED
    BY <2>1, <2>2, <2>3
<1> QED
  BY <1>2, <1>5, <1>6, <1>7, <1>8, IdleIsSafe DEF IInv

\* A late answer of the network or the VIP page: it stores the method, which the
\* invariant does not speak of, or takes the display away for good.
LEMMA SafeLate ==
  ASSUME TypeParts, IInv, LateStep
  PROVE  IInv'
<1>1. Kept
  BY DEF LateStep, LateApply, LateAnswer, Kept, TypeParts, Config, Switches
<1>2. CASE LateApply
  <2>1. UNCHANGED <<page, focus, task, late, ui>> /\ cfg'.serverURL = cfg.serverURL
    BY <1>1, <1>2 DEF LateApply, Kept
  <2>2. AnswerFindsItsPage' /\ ServerAsked'
    BY <2>1 DEF IInv, AnswerFindsItsPage, ServerAsked, ServerURLValid
  <2>3. MayFollow(page')
    BY <2>1, StaysSafe
  <2> QED
    BY <1>1, <2>2, <2>3, SafeMove
<1>3. ASSUME NEW p \in LatePages, LateAnswer(p) PROVE IInv'
  <2>1. \/ page' = "overtaken" /\ late' # {} /\ task' = task /\ UNCHANGED <<cfg, ui>>
        \/ page' = "exited" /\ task' = NoTask
    BY <1>3 DEF LateAnswer, Within
  <2>2. AnswerFindsItsPage' /\ ServerAsked'
    <3>1. CASE task' = NoTask
      BY <3>1, IdleIsSafe
    <3>2. CASE page' = "overtaken" /\ late' # {} /\ task' = task /\ UNCHANGED <<cfg, ui>>
      BY <3>2 DEF IInv, AnswerFindsItsPage, ServerAsked, ServerURLValid
    <3> QED
      BY <2>1, <3>1, <3>2
  <2>3. MayFollow(page')
    BY <2>1 DEF MayFollow, PasswordPanels, ClusterNetworkPanels, AfterPassword, AfterDisk,
                AfterNetwork, AfterClusterNetwork, AfterHostname, AfterDNS, AfterServerURL,
                AfterToken, AfterNTP, AfterSSHKey, AfterCloudInit
  <2> QED
    BY <1>1, <2>2, <2>3, SafeMove
<1> QED
  BY <1>2, <1>3 DEF LateStep

\* The first page: nothing was asked yet.
LEMMA SafeInit == Init => IInv
<1> SUFFICES ASSUME Init PROVE IInv
  OBVIOUS
<1>1. page \in {"askCreate", "preflightCheck"}
  BY DEF Init
<1>2. task = NoTask /\ cfg.mode = Blank /\ ~installModeOnly
  BY DEF Init
<1> USE DEF PasswordPanels, ClusterNetworkPanels, AfterPassword, AfterDisk, AfterNetwork,
            AfterClusterNetwork, AfterHostname, AfterDNS, AfterServerURL, AfterToken,
            AfterNTP, AfterSSHKey, AfterCloudInit
<1>3. AnswerFindsItsPage /\ ServerAsked
  BY <1>2 DEF AnswerFindsItsPage, ServerAsked, NoTask
<1>4. PageMatchesMode
  BY <1>1, <1>2 DEF PageMatchesMode, Blank
<1>5. CreateIsFresh
  BY <1>2 DEF CreateIsFresh, Blank
<1>6. JoinServerAnswered /\ PasswordAgreed /\ PasswordTyped
  BY <1>1 DEF JoinServerAnswered, PasswordAgreed, PasswordTyped
<1> QED
  BY <1>3, <1>4, <1>5, <1>6 DEF IInv

\* Every step of the wizard keeps the inductive invariant.
LEMMA SafeStep == TypeParts /\ IInv /\ [Next]_vars => IInv'
<1> SUFFICES ASSUME TypeParts, IInv, [Next]_vars PROVE IInv'
  OBVIOUS
<1>1. CASE UserStep
  BY <1>1, SafeMoves, SafeEsc, SafeStart, SafeServerURL, SafeMode, SafeRole, SafePassword,
     Zenon DEF UserStep
<1>2. CASE TaskStep
  BY <1>2, SafeTask, SafeServerURL DEF TaskStep
<1>3. CASE Callback
  BY <1>3, SafeCallback
<1>4. CASE UNCHANGED vars
  BY <1>4 DEF vars, IInv, AnswerFindsItsPage, PageMatchesMode, CreateIsFresh,
              JoinServerAnswered, ServerAsked, ServerURLValid, PasswordAgreed, PasswordTyped
<1>5. CASE LateStep
  BY <1>5, SafeLate
<1> QED
  BY <1>1, <1>2, <1>3, <1>4, <1>5 DEF Next, Ended

\* The pages, the mode and what the pages leave behind agree, for all inputs and all
\* paths through the wizard: an answer of a goroutine finds its page, unless a late
\* answer of the network or the VIP page has taken the display from it; the pages of
\* a mode are shown in that mode only; a node that creates a cluster joins none; a
\* joining node holds the address on display, which answered; the password was typed
\* twice.
THEOREM WizardSafe ==
  Spec => [](AnswerFindsItsPage /\ PageMatchesMode /\ CreateIsFresh
             /\ JoinServerAnswered /\ PasswordAgreed)
<1>1. Init => TypeParts /\ IInv
  BY TypeInit, SafeInit
<1>2. TypeParts /\ IInv /\ [Next]_vars => (TypeParts /\ IInv)'
  BY TypeStep, SafeStep
<1>3. IInv => /\ AnswerFindsItsPage /\ PageMatchesMode /\ CreateIsFresh
              /\ JoinServerAnswered /\ PasswordAgreed
  BY DEF IInv
<1> QED
  BY <1>1, <1>2, <1>3, PTL DEF Spec

\* No key, and none of the callbacks of the five pages with a background check, takes
\* the page or the keyboard from a goroutine that works; whenever its answer meets
\* another page, a late answer of the network or the VIP page has come before it (the
\* callbacks at install_panels.go:1639 and 2804).
COROLLARY AnswersFindTheirPage == Spec => []AnswerFindsItsPage
BY WizardSafe, PTL

\* Settings entered for joining do not survive in a node that creates a cluster
\* (addAskCreatePanel).
COROLLARY CreatedClusterIsFresh == Spec => []CreateIsFresh
BY WizardSafe, PTL

\* A joining node stores no management address but one that has answered
\* (addServerURLPanel).
COROLLARY JoinedServerHasAnswered == Spec => []JoinServerAnswered
BY WizardSafe, PTL

\* The password that is stored was typed twice (passwordConfirmVKeyEnter).
COROLLARY StoredPasswordAgreed == Spec => []PasswordAgreed
BY WizardSafe, PTL

-----------------------------------------------------------------------------
(* What the pages leave behind *)

\* A node that goes through the network and cluster pages.
Full == ~installModeOnly

\* What the three pages with a background check have stored once they are passed.
DNSHeld == /\ method = "static" => cfg.dns # <<>>
           /\ ui.dns # Blank => cfg.dns = Split(ui.dns)
NTPHeld == cfg.ntp = Split(ui.ntp)
KeysHeld == cfg.sshKeys = IF ui.sshKeyURL = Blank THEN <<>> ELSE KeysAt(ui.sshKeyURL)

\* The method in the configuration is the one applied, behind the network page.
MethodInv == page \in AfterNetwork /\ Full => cfg.method = method

\* The goroutine of the DNS page works on the list on display; what it accepted is
\* stored before its callback shows the next page.
DNSInv ==
  /\ task.page = "dnsServers" => task.arg = ui.dns
  /\ task.page = "dnsServers" /\ task.state = "ok" => DNSHeld
  /\ page \in AfterDNS /\ Full => DNSHeld

\* An input that counts as checked is stored, and was warned about unless its check
\* passed; it does not count as checked while the check runs.
NTPInv ==
  /\ ui.ntpChecked \/ (task.page = "ntpServers" /\ task.state = "ok") => NTPHeld
  /\ page \in AfterNTP /\ Full => NTPHeld
  /\ ui.ntpChecked /\ ui.ntp \notin ntpWarned /\ page # "exited"
       => task.page = "ntpServers" /\ task.state = "ok"
  /\ task.page = "ntpServers" /\ task.state = "running" => ~ui.ntpChecked

KeysInv ==
  /\ task.page = "sshKey" => task.arg = ui.sshKeyURL /\ task.arg # Blank
  /\ task.page = "sshKey" /\ task.state = "ok" => KeysHeld
  /\ page \in AfterSSHKey /\ Full => KeysHeld

\* The inductive invariant of the settings; IInv says which pages follow which.
SettingsInv ==
  /\ MethodInv /\ HostnameChecked /\ ClusterDNSInServiceNet
  /\ DNSInv /\ NTPInv /\ KeysInv

\* The page that Esc shows, for a page by its name.
Before(q) == PageOf(PrevPage(IF q = "password" THEN "osPassword"
                             ELSE IF q = "clusterNetwork" THEN "podCIDR" ELSE q))

\* Every page of a history was reached from the one before it, which is the one that
\* Esc shows; the first is the page the program starts with.
Linked(s) ==
  \A i \in 1..Len(s) :
    \/ s[i] = "preflightCheck" /\ i = 1
    \/ s[i] = "askCreate" /\ (i = 1 \/ (i = 2 /\ s[1] = "preflightCheck"))
    \/ /\ i > 1 /\ s[i] \notin {"preflightCheck", "askCreate"}
       /\ s[i - 1] = Before(s[i])

TrailInv == page \notin Terminal => Linked(Append(trail, PageOf(page)))

\* Each group of pages is entered through one page, by the step that settles what
\* that page asks for.
Passed(p) == page = p /\ task.page = p /\ task.state = "ok"

ThroughGates ==
  /\ page' \in AfterNetwork /\ Full'
       => (page \in AfterNetwork /\ Full) \/ \E h \in OSHostnames : NetworkNext(h)
  /\ page' \in AfterClusterNetwork /\ cfg'.mode = "create"
       => \/ page \in AfterClusterNetwork /\ cfg.mode = "create"
          \/ \E d \in ServiceAddresses \cup {Blank}, h \in OSHostnames : ClusterDNSConfirm(d, h)
  /\ page' \in AfterHostname /\ Full'
       => (page \in AfterHostname /\ Full) \/ \E n \in HostnameInputs : HostnameEnter(n)
  /\ page' \in AfterDNS /\ Full' => (page \in AfterDNS /\ Full) \/ Passed("dnsServers")
  /\ page' \in AfterNTP /\ Full'
       => \/ page \in AfterNTP /\ Full
          \/ Passed("ntpServers") \/ \E i \in NTPInputs : NTPKeep(i)
  /\ page' \in AfterSSHKey /\ Full'
       => \/ page \in AfterSSHKey /\ Full
          \/ Passed("sshKey") \/ \E u \in SSHKeyInputs : SSHKeyEnter(u) /\ u = Blank

LEMMA Gates ==
  ASSUME TypeParts, IInv, Next
  PROVE  ThroughGates
<1> USE DEF ThroughGates, Full, PasswordPanels, ClusterNetworkPanels, AfterDisk,
            AfterNetwork, AfterClusterNetwork, AfterHostname, AfterDNS, AfterServerURL,
            AfterToken, AfterNTP, AfterSSHKey, AfterCloudInit, Forward, Within, Key
<1>1. cfg.mode \in Modes /\ page \in Pages
  BY DEF TypeParts, Config, Modes
<1>2. /\ installModeOnly <=> cfg.mode = "install"
      /\ page \in AfterDisk \ AfterCloudInit => ~installModeOnly
  BY DEF IInv, PageMatchesMode
<1>3. CASE \/ PreflightProceed \/ Halt \/ DiskNext \/ ClusterNetworkUp \/ VipNext
           \/ ConfirmYes
  BY <1>1, <1>2, <1>3 DEF PreflightProceed, Halt, DiskNext, ClusterNetworkUp, VipNext,
                          ConfirmYes, Switches
<1>4. CASE \/ NetworkRefused
           \/ \E m \in {"dhcp", "static"} : NetworkMethodSelect(m)
           \/ \E c \in PodCIDRInputs : PodCIDRConfirm(c)
           \/ \E c \in ServiceNets \cup {Blank} : ServiceCIDRConfirm(c)
  BY <1>1, <1>2, <1>4 DEF NetworkRefused, NetworkMethodSelect, PodCIDRConfirm,
                          ServiceCIDRConfirm, Switches
<1>5. CASE \E h \in OSHostnames : NetworkNext(h)
  <2>1. cfg'.mode = cfg.mode /\ page' = IF cfg.mode = "create" THEN "podCIDR" ELSE "hostname"
    BY <1>5 DEF NetworkNext, TypeParts, Config
  <2> QED
    BY <1>5, <2>1
<1>6. CASE \E d \in ServiceAddresses \cup {Blank} : \E h \in OSHostnames :
             ClusterDNSConfirm(d, h)
  <2>1. page = "clusterDNS" /\ page' = "hostname" /\ installModeOnly' = installModeOnly
    BY <1>6 DEF ClusterDNSConfirm, Switches
  <2> QED
    BY <1>2, <1>6, <2>1
<1>7. CASE \E n \in HostnameInputs : HostnameEnter(n)
  <2>1. /\ page = "hostname" /\ page' = "dnsServers" /\ cfg'.mode = cfg.mode
        /\ installModeOnly' = installModeOnly
    BY <1>7 DEF HostnameEnter, Switches, TypeParts, Config
  <2> QED
    BY <1>2, <1>7, <2>1
<1>8. CASE \/ \E t \in TokenInputs : TokenEnter(t)
           \/ \E i \in NTPInputs : NTPKeep(i)
           \/ \E p \in ProxyInputs : ProxyEnter(p)
  <2>1. /\ <<page, page'>> \in {<<"token", "ntpServers">>, <<"ntpServers", "proxy">>,
                               <<"proxy", "sshKey">>}
        /\ cfg'.mode = cfg.mode /\ installModeOnly' = installModeOnly
        /\ page = "ntpServers" => \E i \in NTPInputs : NTPKeep(i)
    BY <1>8 DEF TokenEnter, NTPKeep, ProxyEnter, Switches, TypeParts, Config
  <2> QED
    BY <1>2, <2>1
<1>9. CASE \E h \in OSHostnames : Esc(h)
  <2>1. /\ page \notin NoEsc /\ page' = PrevPage(page) /\ cfg'.mode = cfg.mode
        /\ installModeOnly' = installModeOnly
    BY <1>9 DEF Esc, Back, TypeParts, Config
  <2>2. page' \in AfterNetwork /\ ~installModeOnly => page \in AfterNetwork
    BY <1>1, <1>2, <2>1 DEF PrevPage, Pages, NoEsc, AsyncPages, Terminal, PasswordPrevPage,
                       NetworkPrevPage, HostnamePrevPage, TokenPrevPage, ConfirmPrevPage
  <2>3. page' \in AfterClusterNetwork /\ ~installModeOnly => page \in AfterClusterNetwork
    BY <1>1, <1>2, <2>1 DEF PrevPage, Pages, NoEsc, AsyncPages, Terminal, PasswordPrevPage,
                       NetworkPrevPage, HostnamePrevPage, TokenPrevPage, ConfirmPrevPage
  <2>4. /\ page' \in AfterHostname /\ ~installModeOnly => page \in AfterHostname
        /\ page' \in AfterDNS /\ ~installModeOnly => page \in AfterDNS
    BY <1>1, <1>2, <2>1 DEF PrevPage, Pages, NoEsc, AsyncPages, Terminal, PasswordPrevPage,
                       NetworkPrevPage, HostnamePrevPage, TokenPrevPage, ConfirmPrevPage
  <2>5. /\ page' \in AfterNTP /\ ~installModeOnly => page \in AfterNTP
        /\ page' \in AfterSSHKey /\ ~installModeOnly => page \in AfterSSHKey
    BY <1>1, <1>2, <2>1 DEF PrevPage, Pages, NoEsc, AsyncPages, Terminal, PasswordPrevPage,
                       NetworkPrevPage, HostnamePrevPage, TokenPrevPage, ConfirmPrevPage
  <2> QED
    BY <1>2, <2>1, <2>2, <2>3, <2>4, <2>5
<1>10. CASE \/ \E d \in DNSInputs : DNSEnter(d)
            \/ \E u \in ServerURLInputs : ServerURLEnter(u)
            \/ \E i \in NTPInputs : NTPCheck(i)
            \/ \E u \in SSHKeyInputs : SSHKeyEnter(u)
            \/ \E u \in ConfigURLInputs : CloudInitEnter(u)
  <2>1. /\ \/ page' = page
           \/ page = "cloudInit" /\ page' = "confirmInstall"
           \/ /\ page = "sshKey" /\ page' = "cloudInit"
              /\ \E u \in SSHKeyInputs : SSHKeyEnter(u) /\ u = Blank
        /\ cfg'.mode = cfg.mode /\ installModeOnly' = installModeOnly
    BY <1>10 DEF DNSEnter, ServerURLEnter, NTPCheck, SSHKeyEnter, CloudInitEnter, StartTask,
                 Switches, TypeParts, Config
  <2> QED
    BY <1>1, <1>2, <2>1
<1>11. CASE TaskStep
  <2>1. page' = page /\ cfg'.mode = cfg.mode /\ installModeOnly' = installModeOnly
    BY <1>11 DEF TaskStep, DNSTask, ServerURLTask, NTPTask, SSHKeyTask, CloudInitTask,
                 Answer, Switches, TypeParts, Config
  <2> QED
    BY <2>1
<1>12. CASE Callback
  <2>1. task.page \in AsyncPages /\ page = task.page
    BY <1>12, TaskPage DEF TypeParts, IInv, AnswerFindsItsPage, Callback, TaskFailed, TaskDone
  <2>2. /\ page' = page \/ (page' = AfterTask(page) /\ Passed(page))
        /\ cfg'.mode = cfg.mode /\ installModeOnly' = installModeOnly
    BY <1>12, <2>1 DEF Callback, TaskFailed, TaskDone, Switches, Passed
  <2> QED
    BY <1>1, <1>2, <2>1, <2>2 DEF AsyncPages, AfterTask
<1>13. CASE \/ \E m \in {"create", "join", "install"} : AskCreateEnter(m)
            \/ \E r \in Roles : AskRoleEnter(r)
            \/ \E p \in PasswordInputs :
                 PasswordEnter(p) \/ PasswordConfirmUp(p) \/ PasswordConfirmEnter(p)
  <2>1. page' \in {"askRole", "network", "osPassword", "osPasswordConfirm", "disk", "exited"}
    BY <1>13 DEF AskCreateEnter, AskRoleEnter, PasswordEnter, PasswordConfirmUp,
                 PasswordConfirmEnter
  <2> QED
    BY <2>1
<1>14. CASE UNCHANGED vars
  BY <1>14 DEF vars
<1>15. CASE LateStep
  <2>1. /\ page' = page \/ page' \in {"overtaken", "exited"}
        /\ cfg'.mode = cfg.mode /\ installModeOnly' = installModeOnly
    BY <1>15 DEF LateStep, LateApply, LateAnswer, Switches, TypeParts, Config
  <2> QED
    BY <2>1
<1> QED
  BY <1>3, <1>4, <1>5, <1>6, <1>7, <1>8, <1>9, <1>10, <1>11, <1>12, <1>13, <1>14, <1>15,
     Zenon DEF Next, UserStep, Ended

\* Each setting is written by the steps of its own page only; what goes with it is
\* changed together or not at all.
OwnWriters ==
  /\ method' = method \/ page' = "network"
  /\ \/ cfg'.method = cfg.method \/ page' = "network"
     \/ LateApply \/ \E h \in OSHostnames : NetworkNext(h)
  /\ \/ cfg'.hostname = cfg.hostname \/ page' = "hostname"
     \/ \E n \in HostnameInputs : HostnameEnter(n)
  /\ cfg'.serviceCIDR = cfg.serviceCIDR \/ page' = "clusterDNS"
  /\ \/ cfg'.clusterDNS = cfg.clusterDNS
     \/ \E d \in ServiceAddresses \cup {Blank}, h \in OSHostnames : ClusterDNSConfirm(d, h)
  /\ cfg'.dns = cfg.dns \/ DNSTask
  /\ ui'.dns = ui.dns \/ \E d \in DNSInputs : DNSEnter(d)
  /\ (cfg'.ntp = cfg.ntp /\ ui'.ntp = ui.ntp) \/ NTPTask
  /\ (ui'.ntpChecked => ui.ntpChecked /\ ntpWarned' = ntpWarned) \/ NTPTask
  /\ \/ cfg'.sshKeys = cfg.sshKeys \/ SSHKeyTask
     \/ \E u \in SSHKeyInputs : SSHKeyEnter(u)
  /\ ui'.sshKeyURL = ui.sshKeyURL \/ \E u \in SSHKeyInputs : SSHKeyEnter(u)

LEMMA Writers ==
  ASSUME TypeParts, IInv, Next
  PROVE  OwnWriters
<1> USE DEF OwnWriters, Forward, Within, Key, TypeParts
<1>1. CASE \/ PreflightProceed \/ Halt \/ DiskNext \/ ClusterNetworkUp \/ VipNext
           \/ ConfirmYes
  BY <1>1 DEF PreflightProceed, Halt, DiskNext, ClusterNetworkUp, VipNext, ConfirmYes
<1>2. CASE NetworkRefused \/ \E m \in {"dhcp", "static"} : NetworkMethodSelect(m)
  BY <1>2 DEF NetworkRefused, NetworkMethodSelect, Config
<1>3. CASE \E h \in OSHostnames : NetworkNext(h)
  <2>1. UNCHANGED <<ui, method, ntpWarned>>
    BY <1>3 DEF NetworkNext
  <2>2. /\ cfg'.serviceCIDR = cfg.serviceCIDR /\ cfg'.clusterDNS = cfg.clusterDNS
        /\ cfg'.dns = cfg.dns /\ cfg'.ntp = cfg.ntp /\ cfg'.sshKeys = cfg.sshKeys
        /\ cfg'.hostname = cfg.hostname \/ page' = "hostname"
    BY <1>3 DEF NetworkNext, Config
  <2> QED
    BY <1>3, <2>1, <2>2
<1>4. CASE \/ \E c \in PodCIDRInputs : PodCIDRConfirm(c)
           \/ \E c \in ServiceNets \cup {Blank} : ServiceCIDRConfirm(c)
  BY <1>4 DEF PodCIDRConfirm, ServiceCIDRConfirm, Config
<1>5. CASE \E d \in ServiceAddresses \cup {Blank} : \E h \in OSHostnames :
             ClusterDNSConfirm(d, h)
  <2>1. UNCHANGED <<ui, method, ntpWarned>> /\ page' = "hostname"
    BY <1>5 DEF ClusterDNSConfirm
  <2>2. /\ cfg'.serviceCIDR = cfg.serviceCIDR /\ cfg'.method = cfg.method
        /\ cfg'.dns = cfg.dns /\ cfg'.ntp = cfg.ntp /\ cfg'.sshKeys = cfg.sshKeys
    BY <1>5 DEF ClusterDNSConfirm, Config
  <2> QED
    BY <1>5, <2>1, <2>2
<1>6. CASE \E n \in HostnameInputs : HostnameEnter(n)
  <2>1. UNCHANGED <<ui, method, ntpWarned>>
    BY <1>6 DEF HostnameEnter
  <2>2. /\ cfg'.serviceCIDR = cfg.serviceCIDR /\ cfg'.clusterDNS = cfg.clusterDNS
        /\ cfg'.method = cfg.method
        /\ cfg'.dns = cfg.dns /\ cfg'.ntp = cfg.ntp /\ cfg'.sshKeys = cfg.sshKeys
    BY <1>6 DEF HostnameEnter, Config
  <2> QED
    BY <1>6, <2>1, <2>2
<1>7. CASE \/ \E t \in TokenInputs : TokenEnter(t)
           \/ \E i \in NTPInputs : NTPKeep(i) \/ NTPCheck(i)
           \/ \E p \in ProxyInputs : ProxyEnter(p)
  BY <1>7 DEF TokenEnter, NTPKeep, NTPCheck, LeaveNTP, ProxyEnter, Config, UserInputData
<1>8. CASE \E h \in OSHostnames : Esc(h)
  <2>1. /\ page' = PrevPage(page) /\ method' = method
        /\ cfg' = cfg \/ page' = "hostname"
    BY <1>8 DEF Esc, Back, PrevPage, PasswordPanels, ClusterNetworkPanels
  <2>2. /\ cfg'.serviceCIDR = cfg.serviceCIDR /\ cfg'.clusterDNS = cfg.clusterDNS
        /\ cfg'.method = cfg.method
        /\ cfg'.dns = cfg.dns /\ cfg'.ntp = cfg.ntp /\ cfg'.sshKeys = cfg.sshKeys
    BY <1>8 DEF Esc, Config
  <2>3. /\ ui'.dns = ui.dns /\ ui'.ntp = ui.ntp /\ ui'.sshKeyURL = ui.sshKeyURL
        /\ ui'.ntpChecked => ui.ntpChecked /\ ntpWarned' = ntpWarned
    BY <1>8 DEF Esc, LeaveNTP, UserInputData
  <2> QED
    BY <2>1, <2>2, <2>3
<1>9. CASE \/ \E d \in DNSInputs : DNSEnter(d)
           \/ \E u \in ServerURLInputs : ServerURLEnter(u)
  BY <1>9 DEF DNSEnter, ServerURLEnter, UserInputData
<1>10. CASE \/ \E u \in SSHKeyInputs : SSHKeyEnter(u)
            \/ \E u \in ConfigURLInputs : CloudInitEnter(u)
  BY <1>10 DEF SSHKeyEnter, CloudInitEnter, Config, UserInputData
<1>11. CASE DNSTask \/ ServerURLTask \/ CloudInitTask
  BY <1>11 DEF DNSTask, ServerURLTask, CloudInitTask, Config
<1>12. CASE NTPTask
  BY <1>12 DEF NTPTask, Config, UserInputData
<1>13. CASE SSHKeyTask
  BY <1>13 DEF SSHKeyTask, Config
<1>14. CASE Callback
  BY <1>14 DEF Callback, TaskFailed, TaskDone, LeaveNTP, UserInputData
<1>15. CASE \/ \E m \in {"create", "join", "install"} : AskCreateEnter(m)
            \/ \E r \in Roles : AskRoleEnter(r)
  <2>1. UNCHANGED <<method, ntpWarned>>
    BY <1>15 DEF AskCreateEnter, AskRoleEnter
  <2>2. /\ cfg'.serviceCIDR = cfg.serviceCIDR /\ cfg'.clusterDNS = cfg.clusterDNS
        /\ cfg'.method = cfg.method /\ cfg'.hostname = cfg.hostname
        /\ cfg'.dns = cfg.dns /\ cfg'.ntp = cfg.ntp /\ cfg'.sshKeys = cfg.sshKeys
    BY <1>15 DEF AskCreateEnter, AskRoleEnter, Config
  <2>3. /\ ui'.dns = ui.dns /\ ui'.ntp = ui.ntp /\ ui'.sshKeyURL = ui.sshKeyURL
        /\ ui'.ntpChecked = ui.ntpChecked
    BY <1>15 DEF AskCreateEnter, AskRoleEnter, UserInputData
  <2>4. ui.ntpChecked \in BOOLEAN
    BY DEF UserInputData
  <2> QED
    BY <2>1, <2>2, <2>3, <2>4
<1>16. CASE \E p \in PasswordInputs :
              PasswordEnter(p) \/ PasswordConfirmUp(p) \/ PasswordConfirmEnter(p)
  BY <1>16 DEF PasswordEnter, PasswordConfirmUp, PasswordConfirmEnter, Config, UserInputData
<1>17. CASE UNCHANGED vars
  BY <1>17 DEF vars
<1>18. CASE LateApply
  BY <1>18 DEF LateApply, Config
<1>19. CASE \E p \in LatePages : LateAnswer(p)
  BY <1>19 DEF LateAnswer
<1> QED
  BY <1>1, <1>2, <1>3, <1>4, <1>5, <1>6, <1>7, <1>8, <1>9, <1>10, <1>11, <1>12, <1>13,
     <1>14, <1>15, <1>16, <1>17, <1>18, <1>19, Zenon
     DEF Next, UserStep, TaskStep, LateStep, Ended

\* The goroutine of a page is started by that page and answers for it.
OwnTasks ==
  /\ task'.page = "dnsServers" => task' = task \/ DNSTask \/ \E d \in DNSInputs : DNSEnter(d)
  /\ task'.page = "ntpServers" => task' = task \/ NTPTask \/ \E i \in NTPInputs : NTPCheck(i)
  /\ task'.page = "sshKey"
       => task' = task \/ SSHKeyTask \/ \E u \in SSHKeyInputs : SSHKeyEnter(u)
  /\ task.page = "ntpServers" /\ task.state = "ok"
       => task' = task \/ ~ui'.ntpChecked \/ page' = "exited"

\* Keys reach a page of the wizard only, and only while its panel has the focus.
LEMMA KeysNeedAPage ==
  ASSUME UserStep
  PROVE  focus = "panel" /\ page \notin Terminal
BY DEF UserStep, Key, NoEsc, Terminal, PreflightProceed, Halt, DiskNext, NetworkRefused,
       ClusterNetworkUp, VipNext, ConfirmYes, AskCreateEnter, AskRoleEnter, PasswordEnter,
       PasswordConfirmUp, PasswordConfirmEnter, NetworkMethodSelect, PodCIDRConfirm,
       ServiceCIDRConfirm, HostnameEnter, NetworkNext, Esc, ClusterDNSConfirm, DNSEnter,
       ServerURLEnter, TokenEnter, NTPKeep, NTPCheck, ProxyEnter, SSHKeyEnter,
       CloudInitEnter

\* Once the installer has exited nothing happens any more.
LEMMA ExitedStays ==
  ASSUME TypeParts, IInv, Next, page = "exited"
  PROVE  page' = "exited"
<1>1. ~UserStep
  BY KeysNeedAPage DEF Terminal
<1>2. task.state \notin {"running", "ok", "failed"}
  BY TaskPage DEF TypeParts, IInv, AnswerFindsItsPage, AsyncPages
<1>3. ~TaskStep
  BY <1>2 DEF TaskStep, DNSTask, ServerURLTask, NTPTask, SSHKeyTask, CloudInitTask, Running
<1>4. ~Callback
  BY <1>2 DEF Callback, TaskFailed, TaskDone
<1>5. ~LateStep
  BY DEF LateStep, LateApply, LateAnswer
<1> QED
  BY <1>1, <1>3, <1>4, <1>5 DEF Next, Ended, vars

LEMMA Tasks ==
  ASSUME TypeParts, IInv, Next
  PROVE  OwnTasks
<1> USE DEF OwnTasks, Key
<1>1. focus = "panel" /\ page # "overtaken" => task = NoTask
  BY KeyMeansIdle
<1>2. CASE UserStep
  <2>1. task = NoTask
    BY <1>1, <1>2, KeysNeedAPage DEF Terminal
  <2>2. \/ task' = task
        \/ \E d \in DNSInputs : DNSEnter(d)
        \/ \E i \in NTPInputs : NTPCheck(i)
        \/ \E u \in SSHKeyInputs : SSHKeyEnter(u)
        \/ task'.page \in {"serverUrl", "cloudInit"}
    <3>1. CASE \E u \in ServerURLInputs : ServerURLEnter(u)
      BY <3>1 DEF ServerURLEnter, StartTask, NoTaskChange
    <3>2. CASE \E u \in ConfigURLInputs : CloudInitEnter(u)
      BY <3>2 DEF CloudInitEnter, StartTask, NoTaskChange
    <3>3. ASSUME NEW p \in PasswordInputs,
                 PasswordEnter(p) \/ PasswordConfirmUp(p) \/ PasswordConfirmEnter(p)
          PROVE  task' = task
      BY <3>3 DEF PasswordEnter, PasswordConfirmUp, PasswordConfirmEnter, NoTaskChange
    <3>4. ASSUME NEW h \in OSHostnames,
                 \/ NetworkNext(h) \/ Esc(h)
                 \/ \E d \in ServiceAddresses \cup {Blank} : ClusterDNSConfirm(d, h)
          PROVE  task' = task
      BY <3>4 DEF NetworkNext, Esc, ClusterDNSConfirm, NoTaskChange
    <3>5. ASSUME \/ PreflightProceed \/ Halt \/ DiskNext \/ NetworkRefused
                 \/ ClusterNetworkUp \/ VipNext \/ ConfirmYes
                 \/ \E m \in {"create", "join", "install"} : AskCreateEnter(m)
                 \/ \E r \in Roles : AskRoleEnter(r)
                 \/ \E m \in {"dhcp", "static"} : NetworkMethodSelect(m)
                 \/ \E c \in PodCIDRInputs : PodCIDRConfirm(c)
                 \/ \E c \in ServiceNets \cup {Blank} : ServiceCIDRConfirm(c)
                 \/ \E n \in HostnameInputs : HostnameEnter(n)
                 \/ \E t \in TokenInputs : TokenEnter(t)
                 \/ \E i \in NTPInputs : NTPKeep(i)
                 \/ \E p \in ProxyInputs : ProxyEnter(p)
          PROVE  task' = task
      BY <3>5 DEF PreflightProceed, Halt, DiskNext, NetworkRefused, ClusterNetworkUp,
                  VipNext, ConfirmYes, AskCreateEnter, AskRoleEnter, NetworkMethodSelect,
                  PodCIDRConfirm, ServiceCIDRConfirm, HostnameEnter, TokenEnter, NTPKeep,
                  ProxyEnter, NoTaskChange
    <3> QED
      BY <1>2, <3>1, <3>2, <3>3, <3>4, <3>5, Zenon DEF UserStep
  <2>3. CASE task' = task
    BY <2>1, <2>3 DEF NoTask
  <2>4. CASE task'.page \in {"serverUrl", "cloudInit"}
    BY <2>1, <2>4 DEF NoTask
  <2>5. CASE \E d \in DNSInputs : DNSEnter(d)
    <3>1. task'.page = "dnsServers"
      BY <2>5 DEF DNSEnter, StartTask
    <3> QED
      BY <2>1, <2>5, <3>1 DEF NoTask
  <2>6. CASE \E i \in NTPInputs : NTPCheck(i)
    <3>1. task'.page = "ntpServers"
      BY <2>6 DEF NTPCheck, StartTask
    <3> QED
      BY <2>1, <2>6, <3>1 DEF NoTask
  <2>7. CASE \E u \in SSHKeyInputs : SSHKeyEnter(u)
    <3>1. task'.page = "sshKey" \/ task' = task
      BY <2>7 DEF SSHKeyEnter, StartTask, NoTaskChange
    <3> QED
      BY <2>1, <2>7, <3>1 DEF NoTask
  <2> QED
    BY <2>2, <2>3, <2>4, <2>5, <2>6, <2>7
<1>3. CASE TaskStep
  <2>1. task.state = "running" /\ \E o \in {"ok", "failed"} : task' = [task EXCEPT !.state = o]
    BY <1>3 DEF TaskStep, DNSTask, ServerURLTask, NTPTask, SSHKeyTask, CloudInitTask,
                Running, Answer
  <2>2. task # NoTask
    BY <2>1 DEF NoTask
  <2>3. PICK q \in AsyncPages : task \in TaskOf(q)
    BY <2>2 DEF TypeParts, TaskOK
  <2>4. task'.page = task.page
    BY <2>1, <2>3 DEF TaskOf
  <2>5. /\ task.page = "dnsServers" => DNSTask
        /\ task.page = "ntpServers" => NTPTask
        /\ task.page = "sshKey" => SSHKeyTask
    BY <1>3 DEF TaskStep, DNSTask, ServerURLTask, NTPTask, SSHKeyTask, CloudInitTask, Running
  <2> QED
    BY <2>1, <2>4, <2>5
<1>4. CASE Callback
  <2>1. task' = NoTask
    BY <1>4 DEF Callback, TaskFailed, TaskDone
  <2>2. task.page = "ntpServers" /\ task.state = "ok" => ~ui'.ntpChecked
    BY <1>4 DEF Callback, TaskFailed, TaskDone, LeaveNTP, TypeParts, UserInputData
  <2> QED
    BY <2>1, <2>2 DEF NoTask
<1>5. CASE UNCHANGED vars
  BY <1>5 DEF vars
<1>6. CASE LateStep
  <2>1. task' = task \/ (task' = NoTask /\ page' = "exited")
    BY <1>6 DEF LateStep, LateApply, LateAnswer, Within
  <2> QED
    BY <2>1 DEF NoTask
<1> QED
  BY <1>2, <1>3, <1>4, <1>5, <1>6 DEF Next, Ended

\* The pages whose fields the invariant speaks of do not lie behind themselves.
LEMMA GatesOutside ==
  /\ "network" \notin AfterNetwork
  /\ {"network", "clusterDNS", "podCIDR", "serviceCIDR"} \cap AfterClusterNetwork = {}
  /\ "hostname" \notin AfterHostname
  /\ {"network", "dnsServers"} \cap AfterDNS = {}
  /\ "ntpServers" \notin AfterNTP
  /\ "sshKey" \notin AfterSSHKey
  BY DEF ClusterNetworkPanels, AfterNetwork, AfterClusterNetwork, AfterHostname, AfterDNS,
         AfterServerURL, AfterToken, AfterNTP, AfterSSHKey, AfterCloudInit

\* The method: changed on the network page only, stored when the page is left.
LEMMA MethodStep ==
  ASSUME TypeParts, IInv, SettingsInv, Next
  PROVE  MethodInv'
<1> SUFFICES ASSUME page' \in AfterNetwork, Full' PROVE cfg'.method = method'
  BY DEF MethodInv
<1>1. page' # "network"
  BY GatesOutside
<1>2. method' = method
  BY <1>1, Writers DEF OwnWriters
<1>3. CASE \E h \in OSHostnames : NetworkNext(h)
  BY <1>2, <1>3 DEF NetworkNext, TypeParts, Config
<1>4. CASE LateApply
  BY <1>2, <1>4 DEF LateApply, TypeParts, Config
<1>5. CASE ~LateApply /\ ~\E h \in OSHostnames : NetworkNext(h)
  <2>1. page \in AfterNetwork /\ Full
    BY <1>5, Gates DEF ThroughGates
  <2>2. cfg'.method = cfg.method
    BY <1>1, <1>5, Writers DEF OwnWriters
  <2> QED
    BY <1>2, <2>1, <2>2 DEF SettingsInv, MethodInv
<1> QED
  BY <1>3, <1>4, <1>5

\* The host name: behind its page it is the one that passed, since the system's name
\* is stored only when that page is shown.
LEMMA HostnameStep ==
  ASSUME TypeParts, IInv, SettingsInv, Next
  PROVE  HostnameChecked'
<1> SUFFICES ASSUME page' \in AfterHostname, Full'
             PROVE  cfg'.hostname \notin Malformed \cup {Blank}
  BY DEF HostnameChecked, Full
<1>1. CASE \E n \in HostnameInputs : HostnameEnter(n)
  BY <1>1 DEF HostnameEnter, HostnameValid, TypeParts, Config
<1>2. CASE ~\E n \in HostnameInputs : HostnameEnter(n)
  <2>1. page \in AfterHostname /\ Full
    BY <1>2, Gates DEF ThroughGates
  <2>2. cfg'.hostname = cfg.hostname
    BY <1>2, Writers, GatesOutside DEF OwnWriters
  <2> QED
    BY <2>1, <2>2 DEF SettingsInv, HostnameChecked, Full
<1> QED
  BY <1>1, <1>2

\* The cluster DNS address: the last panel checks it against the service network, and
\* going back to change that network leads through the last panel again.
LEMMA ClusterDNSStep ==
  ASSUME TypeParts, IInv, SettingsInv, Next
  PROVE  ClusterDNSInServiceNet'
<1> DEFINE Confirmed == \E d \in ServiceAddresses \cup {Blank}, h \in OSHostnames :
                          ClusterDNSConfirm(d, h)
<1> SUFFICES ASSUME page' \in AfterClusterNetwork, cfg'.mode = "create"
             PROVE  IF cfg'.serviceCIDR = Blank THEN cfg'.clusterDNS = Blank
                    ELSE cfg'.clusterDNS \in ServiceAddrs[cfg'.serviceCIDR]
  BY DEF ClusterDNSInServiceNet
<1>1. cfg'.serviceCIDR = cfg.serviceCIDR
  BY Writers, GatesOutside DEF OwnWriters
<1>2. CASE Confirmed
  <2>1. PICK d \in ServiceAddresses \cup {Blank}, h \in OSHostnames : ClusterDNSConfirm(d, h)
    BY <1>2
  <2>2. validateDNSIP(d) /\ cfg'.clusterDNS = d
    BY <2>1 DEF ClusterDNSConfirm, TypeParts, Config
  <2> QED
    BY <1>1, <2>2 DEF validateDNSIP
<1>3. CASE ~Confirmed
  <2>1. page \in AfterClusterNetwork /\ cfg.mode = "create"
    BY <1>3, Gates DEF ThroughGates
  <2>2. cfg'.clusterDNS = cfg.clusterDNS
    BY <1>3, Writers DEF OwnWriters
  <2> QED
    BY <1>1, <2>1, <2>2 DEF SettingsInv, ClusterDNSInServiceNet
<1> QED
  BY <1>2, <1>3

\* The DNS servers: a blank list is accepted for a dynamic address only, and the
\* method cannot change without passing the page again.
LEMMA DNSStep ==
  ASSUME TypeParts, IInv, IInv', SettingsInv, Next
  PROVE  DNSInv'
<1> DEFINE Entered == \E d \in DNSInputs : DNSEnter(d)
<1>1. page = task.page \/ task = NoTask \/ page = "overtaken"
  BY DEF IInv, AnswerFindsItsPage
<1>2. page' = task'.page \/ task' = NoTask \/ page' = "overtaken"
  BY DEF IInv, AnswerFindsItsPage
<1>3. CASE Entered
  <2>1. PICK d \in DNSInputs : DNSEnter(d)
    BY <1>3
  <2>2. page' = "dnsServers" /\ task'.state = "running" /\ task'.arg = d /\ ui'.dns = d
    BY <2>1 DEF DNSEnter, Key, StartTask, TypeParts, UserInputData
  <2> QED
    BY <2>2, GatesOutside DEF DNSInv
<1>4. CASE DNSTask
  <2>1. task.page = "dnsServers" /\ task # NoTask
    BY <1>4 DEF DNSTask, Running, NoTask
  <2>2. page = "dnsServers" /\ page' = page /\ UNCHANGED <<ui, method>> /\ task.arg = ui.dns
    BY <1>1, <1>4, <2>1 DEF DNSTask, Running, Answer, SettingsInv, DNSInv
  <2>3. PICK q \in AsyncPages : task \in TaskOf(q)
    BY <2>1 DEF TypeParts, TaskOK
  <2>4. task'.arg = task.arg
    BY <1>4, <2>3 DEF DNSTask, Answer, TaskOf
  <2>5. task'.state = "ok" => DNSHeld'
    <3> SUFFICES ASSUME task'.state = "ok" PROVE DNSHeld'
      OBVIOUS
    <3>1. /\ ~DNSMissing(task.arg)
          /\ cfg' = IF task.arg = Blank THEN cfg ELSE [cfg EXCEPT !.dns = Split(task.arg)]
      BY <1>4, <2>3 DEF DNSTask, Answer, TaskOf
    <3>2. task.arg # Blank => cfg'.dns = Split(task.arg)
      BY <3>1 DEF TypeParts, Config
    <3> QED
      BY <2>2, <3>1, <3>2 DEF DNSHeld, DNSMissing, Split
  <2> QED
    BY <2>2, <2>4, <2>5, GatesOutside DEF DNSInv
<1>5. CASE ~Entered /\ ~DNSTask
  <2>1. cfg'.dns = cfg.dns /\ ui'.dns = ui.dns
    BY <1>5, Writers DEF OwnWriters
  <2>2. task'.page = "dnsServers" => task' = task /\ page' \in {"dnsServers", "overtaken"}
    BY <1>2, <1>5, Tasks DEF OwnTasks, NoTask
  <2>3. page' # "network" => method' = method
    BY Writers DEF OwnWriters
  <2>4. page' # "network" /\ DNSHeld => DNSHeld'
    BY <2>1, <2>3 DEF DNSHeld
  <2>5. page' \in AfterDNS /\ Full' => DNSHeld'
    <3> SUFFICES ASSUME page' \in AfterDNS, Full' PROVE DNSHeld'
      OBVIOUS
    <3>1. (page \in AfterDNS /\ Full) \/ Passed("dnsServers")
      BY Gates DEF ThroughGates
    <3>2. DNSHeld
      BY <3>1 DEF SettingsInv, DNSInv, Passed
    <3> QED
      BY <2>4, <3>2, GatesOutside
  <2> QED
    BY <2>1, <2>2, <2>4, <2>5 DEF SettingsInv, DNSInv
<1> QED
  BY <1>3, <1>4, <1>5

\* The NTP servers: recorded with their check, which is forgotten when the page is
\* left or another check starts.
LEMMA NTPStep ==
  ASSUME TypeParts, IInv, IInv', SettingsInv, Next
  PROVE  NTPInv'
<1> DEFINE Asked == \E i \in NTPInputs : NTPCheck(i)
<1>1. page = task.page \/ task = NoTask \/ page = "overtaken"
  BY DEF IInv, AnswerFindsItsPage
<1>2. CASE Asked
  <2>1. page' = "ntpServers" /\ task'.state = "running" /\ ~ui'.ntpChecked
    BY <1>2 DEF NTPCheck, Key, StartTask, TypeParts, UserInputData
  <2> QED
    BY <2>1, GatesOutside DEF NTPInv, Running
<1>3. CASE NTPTask
  <2>1. task.page = "ntpServers" /\ task.state = "running" /\ task # NoTask
    BY <1>3 DEF NTPTask, Running, NoTask
  <2>2. page' = "ntpServers"
    BY <1>1, <1>3, <2>1 DEF NTPTask, Running, Answer
  <2>3. PICK q \in AsyncPages : task \in TaskOf(q)
    BY <2>1 DEF TypeParts, TaskOK
  <2>4. task'.page = "ntpServers" /\ task'.state \in {"ok", "failed"}
    BY <1>3, <2>1, <2>3 DEF NTPTask, Answer, TaskOf
  <2>5. ~ui.ntpChecked
    BY <2>1 DEF NTPTask, SettingsInv, NTPInv
  <2>6. CASE task.arg \in PaddedNTP
    <3>1. ui' = ui /\ task'.state = "failed"
      BY <1>3, <2>3, <2>6 DEF NTPTask, Answer, TaskOf
    <3> QED
      BY <2>2, <2>5, <3>1, GatesOutside DEF NTPInv, Running
  <2>7. CASE task.arg \notin PaddedNTP
    <3>1. cfg'.ntp = Split(task.arg) /\ ui'.ntp = task.arg
      BY <1>3, <2>7 DEF NTPTask, TypeParts, Config, UserInputData
    <3>2. task'.state = "ok" \/ ntpWarned' = ntpWarned \cup {task.arg}
      BY <1>3, <2>3, <2>7 DEF NTPTask, Answer, TaskOf
    <3>3. NTPHeld'
      BY <3>1 DEF NTPHeld
    <3> QED
      BY <2>2, <2>4, <3>1, <3>2, <3>3, GatesOutside DEF NTPInv, Running
  <2> QED
    BY <2>6, <2>7
<1>4. CASE ~Asked /\ ~NTPTask
  <2>1. cfg'.ntp = cfg.ntp /\ ui'.ntp = ui.ntp
    BY <1>4, Writers DEF OwnWriters
  <2>2. ui'.ntpChecked => ui.ntpChecked /\ ntpWarned' = ntpWarned
    BY <1>4, Writers DEF OwnWriters
  <2>3. task'.page = "ntpServers" => task' = task
    BY <1>4, Tasks DEF OwnTasks
  <2>4. task.page = "ntpServers" /\ task.state = "ok"
          => task' = task \/ ~ui'.ntpChecked \/ page' = "exited"
    BY Tasks DEF OwnTasks
  <2>5. NTPHeld => NTPHeld'
    BY <2>1 DEF NTPHeld
  <2>6. page' \in AfterNTP /\ Full' => NTPHeld
    <3> SUFFICES ASSUME page' \in AfterNTP, Full' PROVE NTPHeld
      OBVIOUS
    <3>1. \/ page \in AfterNTP /\ Full
          \/ Passed("ntpServers") \/ \E i \in NTPInputs : NTPKeep(i)
      BY Gates DEF ThroughGates
    <3> QED
      BY <3>1 DEF SettingsInv, NTPInv, Passed, NTPKeep
  <2>7. ui'.ntpChecked \/ (task'.page = "ntpServers" /\ task'.state = "ok") => NTPHeld'
    BY <2>2, <2>3, <2>5 DEF SettingsInv, NTPInv
  <2>8. ui'.ntpChecked /\ ui'.ntp \notin ntpWarned' /\ page' # "exited"
          => task'.page = "ntpServers" /\ task'.state = "ok"
    BY <2>1, <2>2, <2>4, ExitedStays DEF SettingsInv, NTPInv
  <2>9. task'.page = "ntpServers" /\ task'.state = "running" => ~ui'.ntpChecked
    BY <2>2, <2>3 DEF SettingsInv, NTPInv, Running
  <2> QED
    BY <2>5, <2>6, <2>7, <2>8, <2>9 DEF NTPInv, Running
<1> QED
  BY <1>2, <1>3, <1>4

\* The SSH keys: emptied when the URL is entered, stored with the answer.
LEMMA KeysStep ==
  ASSUME TypeParts, IInv, IInv', SettingsInv, Next
  PROVE  KeysInv'
<1> DEFINE Entered == \E u \in SSHKeyInputs : SSHKeyEnter(u)
<1>1. page = task.page \/ task = NoTask \/ page = "overtaken"
  BY DEF IInv, AnswerFindsItsPage
<1>2. CASE Entered
  <2>1. PICK u \in SSHKeyInputs : SSHKeyEnter(u)
    BY <1>2
  <2>2. ui'.sshKeyURL = u /\ cfg'.sshKeys = <<>>
    BY <2>1 DEF SSHKeyEnter, SSHKeysReset, TypeParts, UserInputData, Config
  <2>3. CASE u = Blank
    <3>1. task' = NoTask
      BY <2>1, <2>3, KeyMeansIdle DEF SSHKeyEnter, Key, NoTaskChange
    <3>2. KeysHeld'
      BY <2>2, <2>3 DEF KeysHeld
    <3> QED
      BY <3>1, <3>2 DEF KeysInv, NoTask
  <2>4. CASE u # Blank
    <3>1. page' = "sshKey" /\ task'.arg = u /\ task'.state = "running"
      BY <2>1, <2>4 DEF SSHKeyEnter, StartTask, Key
    <3> QED
      BY <2>2, <2>4, <3>1, GatesOutside DEF KeysInv
  <2> QED
    BY <2>3, <2>4
<1>3. CASE SSHKeyTask
  <2>1. task.page = "sshKey" /\ task # NoTask
    BY <1>3 DEF SSHKeyTask, Running, NoTask
  <2>2. /\ page' = "sshKey" /\ ui' = ui
        /\ task.arg = ui.sshKeyURL /\ task.arg # Blank
    BY <1>1, <1>3, <2>1 DEF SSHKeyTask, Running, Answer, SettingsInv, KeysInv
  <2>3. PICK q \in AsyncPages : task \in TaskOf(q)
    BY <2>1 DEF TypeParts, TaskOK
  <2>4. task'.arg = task.arg /\ (task'.state = "ok" => cfg'.sshKeys = KeysAt(task.arg))
    BY <1>3, <2>3 DEF SSHKeyTask, Answer, TaskOf, TypeParts, Config
  <2>5. task'.state = "ok" => KeysHeld'
    BY <2>2, <2>4 DEF KeysHeld
  <2> QED
    BY <2>2, <2>4, <2>5, GatesOutside DEF KeysInv
<1>4. CASE ~Entered /\ ~SSHKeyTask
  <2>1. cfg'.sshKeys = cfg.sshKeys /\ ui'.sshKeyURL = ui.sshKeyURL
    BY <1>4, Writers DEF OwnWriters
  <2>2. KeysHeld => KeysHeld'
    BY <2>1 DEF KeysHeld
  <2>3. task'.page = "sshKey" => task' = task
    BY <1>4, Tasks DEF OwnTasks
  <2>4. page' \in AfterSSHKey /\ Full' => KeysHeld
    <3> SUFFICES ASSUME page' \in AfterSSHKey, Full' PROVE KeysHeld
      OBVIOUS
    <3>1. (page \in AfterSSHKey /\ Full) \/ Passed("sshKey")
      BY <1>4, Gates DEF ThroughGates
    <3> QED
      BY <3>1 DEF SettingsInv, KeysInv, Passed
  <2> QED
    BY <2>1, <2>2, <2>3, <2>4 DEF SettingsInv, KeysInv
<1> QED
  BY <1>2, <1>3, <1>4

LEMMA SettingsInit == Init => SettingsInv
<1> SUFFICES ASSUME Init PROVE SettingsInv
  OBVIOUS
<1>1. page \in {"askCreate", "preflightCheck"} /\ task = NoTask /\ ~ui.ntpChecked
  BY DEF Init
<1>2. /\ page \notin AfterNetwork /\ page \notin AfterClusterNetwork
      /\ page \notin AfterHostname /\ page \notin AfterDNS /\ page \notin AfterNTP
      /\ page \notin AfterSSHKey
  BY <1>1 DEF ClusterNetworkPanels, AfterNetwork, AfterClusterNetwork, AfterHostname,
              AfterDNS, AfterServerURL, AfterToken, AfterNTP, AfterSSHKey, AfterCloudInit
<1> QED
  BY <1>1, <1>2 DEF SettingsInv, MethodInv, HostnameChecked, ClusterDNSInServiceNet, DNSInv,
                    NTPInv, KeysInv, NoTask, Running

LEMMA SettingsStep ==
  TypeParts /\ IInv /\ IInv' /\ SettingsInv /\ [Next]_vars => SettingsInv'
<1> SUFFICES ASSUME TypeParts, IInv, IInv', SettingsInv, [Next]_vars PROVE SettingsInv'
  OBVIOUS
<1>1. CASE Next
  BY <1>1, MethodStep, HostnameStep, ClusterDNSStep, DNSStep, NTPStep, KeysStep
     DEF SettingsInv
<1>2. CASE UNCHANGED vars
  BY <1>2 DEF vars, SettingsInv, MethodInv, HostnameChecked, ClusterDNSInServiceNet, DNSInv,
              NTPInv, KeysInv, Full, DNSHeld, NTPHeld, KeysHeld, Running
<1> QED
  BY <1>1, <1>2

LEMMA SettingsInvariant == Spec => [](TypeParts /\ IInv /\ SettingsInv)
<1>1. Init => TypeParts /\ IInv /\ SettingsInv
  BY TypeInit, SafeInit, SettingsInit
<1>2. TypeParts /\ IInv /\ SettingsInv /\ [Next]_vars => (TypeParts /\ IInv /\ SettingsInv)'
  BY TypeStep, SafeStep, SettingsStep
<1> QED
  BY <1>1, <1>2, PTL DEF Spec

\* Behind the DNS page the configuration holds the method that was applied, and a
\* node with a static address has DNS servers, on every path back and forth through
\* the pages (addDNSServersPanel's goroutine).
THEOREM StaticNodeHasDNS == Spec => []StaticHasDNS
<1>1. AfterDNS \subseteq AfterNetwork
  BY DEF AfterNetwork, AfterClusterNetwork, AfterHostname
<1>2. SettingsInv => StaticHasDNS
  BY <1>1 DEF SettingsInv, MethodInv, DNSInv, DNSHeld, Full, StaticHasDNS
<1> QED
  BY <1>2, SettingsInvariant, PTL

\* No host name that the system brought along gets behind the host name page
\* unchecked (addHostnamePanel).
THEOREM HostnamePassedCheck == Spec => []HostnameChecked
<1>1. SettingsInv => HostnameChecked
  BY DEF SettingsInv
<1> QED
  BY <1>1, SettingsInvariant, PTL

\* The cluster DNS address lies inside the service network that is stored with it,
\* for every set of networks and every order of visits to the panels
\* (addClusterNetworkPanel).
THEOREM ClusterDNSFits == Spec => []ClusterDNSInServiceNet
<1>1. SettingsInv => ClusterDNSInServiceNet
  BY DEF SettingsInv
<1> QED
  BY <1>1, SettingsInvariant, PTL

\* The confirmation page tells the truth: the DNS servers, NTP servers and SSH keys it
\* displays are those that will be installed (addConfirmInstallPanel).
THEOREM ConfirmationTruthful == Spec => []ConfirmTruthful
<1>1. AfterCloudInit \subseteq AfterDNS /\ AfterCloudInit \subseteq AfterNTP
        /\ AfterCloudInit \subseteq AfterSSHKey
  BY DEF AfterDNS, AfterServerURL, AfterToken, AfterNTP, AfterSSHKey
<1>2. SettingsInv => ConfirmTruthful
  BY <1>1 DEF SettingsInv, DNSInv, DNSHeld, NTPInv, NTPHeld, KeysInv, KeysHeld, Full,
              ConfirmTruthful
<1> QED
  BY <1>2, SettingsInvariant, PTL

\* NTP servers that were not reached are kept only when the warning was shown for the
\* same input during the same visit of the page (addNTPServersPanel).
THEOREM NTPWarningPrecedes == Spec => NTPKeptOnlyAfterWarning
<1> DEFINE Kept1 == page = "ntpServers" /\ focus = "panel" /\ page' = "proxy"
                      => ui.ntp \in ntpWarned
<1>1. TypeParts /\ IInv /\ SettingsInv /\ [Next]_vars => [Kept1]_vars
  <2> SUFFICES ASSUME TypeParts, IInv, SettingsInv, [Next]_vars,
                      page = "ntpServers", focus = "panel", page' = "proxy"
               PROVE  ui.ntp \in ntpWarned
    OBVIOUS
  <2>1. task = NoTask /\ Next
    BY KeyMeansIdle DEF vars
  <2>2. page \in AfterToken \ AfterCloudInit /\ page \notin AfterNTP /\ page' \in AfterNTP
    BY GatesOutside DEF AfterToken, AfterNTP, AfterSSHKey, AfterCloudInit
  <2>3. ~installModeOnly
    BY <2>2 DEF IInv, PageMatchesMode, AfterDisk, AfterNetwork, AfterClusterNetwork,
                AfterHostname, AfterDNS, AfterServerURL
  <2>4. PageMatchesMode'
    BY <2>1, SafeStep DEF IInv
  <2>5. ~installModeOnly'
    BY <2>2, <2>4 DEF PageMatchesMode, AfterDisk, AfterNetwork, AfterClusterNetwork,
                AfterHostname, AfterDNS, AfterServerURL, AfterToken, AfterNTP, AfterSSHKey,
                AfterCloudInit
  <2>6. Passed("ntpServers") \/ \E i \in NTPInputs : NTPKeep(i)
    BY <2>1, <2>2, <2>5, Gates DEF ThroughGates, Full
  <2>7. ui.ntpChecked
    BY <2>1, <2>6 DEF Passed, NoTask, NTPKeep
  <2> QED
    BY <2>1, <2>7 DEF SettingsInv, NTPInv, NoTask
<1> QED
  BY <1>1, SettingsInvariant, PTL DEF Spec, NTPKeptOnlyAfterWarning

-----------------------------------------------------------------------------
(* Esc undoes Enter *)

\* The answers that decide on the order of the pages.
SameCourse == cfg'.mode = cfg.mode /\ UNCHANGED <<installModeOnly, alreadyInstalled>>

LEMMA BeforeKept ==
  ASSUME SameCourse
  PROVE  \A q : Before(q)' = Before(q)
<1> SUFFICES ASSUME NEW q PROVE Before(q)' = Before(q)
  OBVIOUS
<1>1. /\ PasswordPrevPage' = PasswordPrevPage /\ NetworkPrevPage' = NetworkPrevPage
      /\ HostnamePrevPage' = HostnamePrevPage /\ TokenPrevPage' = TokenPrevPage
      /\ ConfirmPrevPage' = ConfirmPrevPage
  BY DEF SameCourse, PasswordPrevPage, NetworkPrevPage, HostnamePrevPage, TokenPrevPage,
         ConfirmPrevPage
<1>2. \A p : PrevPage(p)' = PrevPage(p)
  BY <1>1 DEF PrevPage
<1> QED
  BY <1>2, Zenon DEF Before

\* All panels of a page have the same page before them.
LEMMA BeforeIsPrevPage ==
  ASSUME page \in Pages \ NoEsc
  PROVE  /\ Before(PageOf(page)) = PageOf(PrevPage(page))
         /\ PageOf(page) \notin {"preflightCheck", "askCreate"}
<1>1. CASE page \in PasswordPanels
  BY <1>1 DEF Before, PageOf, PrevPage, PasswordPanels, ClusterNetworkPanels
<1>2. CASE page \in ClusterNetworkPanels
  BY <1>2 DEF Before, PageOf, PrevPage, PasswordPanels, ClusterNetworkPanels
<1>3. CASE page \notin PasswordPanels \cup ClusterNetworkPanels
  <2>1. PageOf(page) = page /\ page \notin {"password", "clusterNetwork"}
    BY <1>3 DEF PageOf, Pages, PasswordPanels, ClusterNetworkPanels, AsyncPages, Terminal
  <2> QED
    BY <2>1 DEF Before, NoEsc
<1> QED
  BY <1>1, <1>2, <1>3

\* What a step does to the place in the wizard.
Stays == PageOf(page') = PageOf(page) /\ trail' = trail /\ SameCourse
GoesOn == /\ page \notin Terminal
          /\ trail' = Append(trail, PageOf(page)) /\ SameCourse
          /\ PageOf(page') \notin {"preflightCheck", "askCreate"}
          /\ Before(PageOf(page')) = PageOf(page)

\* gotoPrevPage of every page leads back to the page whose gotoNextPage shows it.
LEMMA MoveKinds ==
  ASSUME TypeParts, IInv, Next
  PROVE  \/ page' \in Terminal \/ Stays \/ GoesOn
         \/ PreflightProceed
         \/ \E m \in {"create", "join", "install"} : AskCreateEnter(m)
         \/ \E h \in OSHostnames : Esc(h)
<1> USE DEF Key, Forward, Within, Switches
<1>1. /\ cfg.mode \in Modes
      /\ installModeOnly <=> cfg.mode = "install"
      /\ page = "disk" => ~alreadyInstalled
      /\ page \in {"askRole", "serverUrl"} => cfg.mode = "join"
      /\ page \in {"clusterDNS", "vip"} => cfg.mode = "create"
      /\ page = "cloudInit" => ~installModeOnly
      /\ page = "dnsServers" => cfg.mode \in {"create", "join"}
  BY DEF TypeParts, Config, Modes, IInv, PageMatchesMode, ClusterNetworkPanels, AfterDisk,
         AfterNetwork, AfterClusterNetwork, AfterHostname, AfterDNS, AfterServerURL,
         AfterToken, AfterNTP, AfterSSHKey, AfterCloudInit, Blank
<1> DEFINE On(p, q) == page = p /\ page' = q /\ Forward(q) /\ SameCourse
<1>2. ASSUME \/ On("askRole", IF alreadyInstalled THEN "network" ELSE "osPassword")
             \/ On("osPasswordConfirm", "disk")
             \/ On("disk", IF installModeOnly THEN "confirmInstall" ELSE "network")
             \/ On("network", IF cfg.mode = "create" THEN "podCIDR" ELSE "hostname")
             \/ On("clusterDNS", "hostname")
      PROVE  GoesOn
  BY <1>1, <1>2 DEF GoesOn, Before, PageOf, PrevPage, PasswordPanels, ClusterNetworkPanels,
       PasswordPrevPage, NetworkPrevPage, HostnamePrevPage, ConfirmPrevPage, Terminal
<1>3. ASSUME \/ On("hostname", "dnsServers")
             \/ On("dnsServers", IF cfg.mode = "create" THEN "vip" ELSE "serverUrl")
             \/ On("serverUrl", "token") \/ On("vip", "token")
             \/ On("token", "ntpServers") \/ On("ntpServers", "proxy")
             \/ On("proxy", "sshKey") \/ On("sshKey", "cloudInit")
             \/ On("cloudInit", "confirmInstall")
      PROVE  GoesOn
  BY <1>1, <1>3 DEF GoesOn, Before, PageOf, PrevPage, PasswordPanels, ClusterNetworkPanels,
       TokenPrevPage, ConfirmPrevPage, Terminal
<1>4. CASE Halt \/ ConfirmYes
  BY <1>4 DEF Halt, ConfirmYes, Terminal
<1>5. CASE DiskNext \/ VipNext
  BY <1>2, <1>3, <1>5 DEF DiskNext, VipNext, SameCourse
<1>6. CASE ClusterNetworkUp
  BY <1>6 DEF ClusterNetworkUp, Stays, SameCourse, PageOf, PasswordPanels,
              ClusterNetworkPanels
<1>7. CASE NetworkRefused \/ \E m \in {"dhcp", "static"} : NetworkMethodSelect(m)
  <2>1. page' = page /\ trail' = trail /\ SameCourse
    BY <1>7 DEF NetworkRefused, NetworkMethodSelect, SameCourse, TypeParts, Config
  <2> QED
    BY <2>1 DEF Stays
<1>8. CASE \E h \in OSHostnames : NetworkNext(h)
  <2>1. On("network", IF cfg.mode = "create" THEN "podCIDR" ELSE "hostname")
    BY <1>8 DEF NetworkNext, SameCourse, TypeParts, Config
  <2> QED
    BY <1>2, <2>1
<1>9. CASE \/ \E c \in PodCIDRInputs : PodCIDRConfirm(c)
           \/ \E c \in ServiceNets \cup {Blank} : ServiceCIDRConfirm(c)
  <2>1. /\ page \in ClusterNetworkPanels /\ page' \in ClusterNetworkPanels
        /\ trail' = trail /\ SameCourse
    BY <1>9 DEF PodCIDRConfirm, ServiceCIDRConfirm, SameCourse, TypeParts, Config,
                ClusterNetworkPanels
  <2> QED
    BY <2>1 DEF Stays, PageOf, PasswordPanels, ClusterNetworkPanels
<1>10. CASE \E d \in ServiceAddresses \cup {Blank} : \E h \in OSHostnames :
              ClusterDNSConfirm(d, h)
  <2>1. On("clusterDNS", "hostname")
    BY <1>10 DEF ClusterDNSConfirm, SameCourse, TypeParts, Config
  <2> QED
    BY <1>2, <2>1
<1>11. CASE \/ \E n \in HostnameInputs : HostnameEnter(n)
            \/ \E t \in TokenInputs : TokenEnter(t)
            \/ \E i \in NTPInputs : NTPKeep(i)
            \/ \E p \in ProxyInputs : ProxyEnter(p)
  <2>1. \/ On("hostname", "dnsServers") \/ On("token", "ntpServers")
        \/ On("ntpServers", "proxy") \/ On("proxy", "sshKey")
    BY <1>11 DEF HostnameEnter, TokenEnter, NTPKeep, ProxyEnter, SameCourse, TypeParts, Config
  <2> QED
    BY <1>3, <2>1
<1>12. CASE \/ \E d \in DNSInputs : DNSEnter(d)
            \/ \E u \in ServerURLInputs : ServerURLEnter(u)
            \/ \E i \in NTPInputs : NTPCheck(i)
            \/ \E u \in SSHKeyInputs : SSHKeyEnter(u)
            \/ \E u \in ConfigURLInputs : CloudInitEnter(u)
  <2>1. \/ page' = page /\ trail' = trail /\ SameCourse
        \/ On("sshKey", "cloudInit") \/ On("cloudInit", "confirmInstall")
    BY <1>12 DEF DNSEnter, ServerURLEnter, NTPCheck, SSHKeyEnter, CloudInitEnter, StartTask,
                 SameCourse, TypeParts, Config
  <2> QED
    BY <1>3, <2>1 DEF Stays
<1>13. CASE TaskStep
  <2>1. page' = page /\ trail' = trail /\ SameCourse
    BY <1>13 DEF TaskStep, DNSTask, ServerURLTask, NTPTask, SSHKeyTask, CloudInitTask,
                 Answer, SameCourse, TypeParts, Config
  <2> QED
    BY <2>1 DEF Stays
<1>14. CASE Callback
  <2>1. task.page \in AsyncPages /\ page = task.page
    BY <1>14, TaskPage DEF TypeParts, IInv, AnswerFindsItsPage, Callback, TaskFailed, TaskDone
  <2>2. \/ page' = page /\ trail' = trail /\ SameCourse
        \/ On(page, AfterTask(page))
    BY <1>14, <2>1 DEF Callback, TaskFailed, TaskDone, SameCourse
  <2>3. CASE On(page, AfterTask(page))
    BY <1>3, <2>1, <2>3 DEF AsyncPages, AfterTask
  <2> QED
    BY <2>2, <2>3 DEF Stays
<1>15. CASE \E r \in Roles : AskRoleEnter(r)
  <2>1. On("askRole", IF alreadyInstalled THEN "network" ELSE "osPassword")
    BY <1>15 DEF AskRoleEnter, SameCourse, TypeParts, Config
  <2> QED
    BY <1>2, <2>1
<1>16. CASE \E p \in PasswordInputs :
              PasswordEnter(p) \/ PasswordConfirmUp(p) \/ PasswordConfirmEnter(p)
  <2>1. SameCourse /\ page \in PasswordPanels
    BY <1>16 DEF PasswordEnter, PasswordConfirmUp, PasswordConfirmEnter, SameCourse,
                 TypeParts, Config, PasswordPanels
  <2>2. \/ page' \in PasswordPanels /\ trail' = trail
        \/ page' = "exited"
        \/ page = "osPasswordConfirm" /\ page' = "disk" /\ Forward("disk")
    BY <1>16 DEF PasswordEnter, PasswordConfirmUp, PasswordConfirmEnter, PasswordPanels
  <2>3. CASE page' \in PasswordPanels /\ trail' = trail
    BY <2>1, <2>3 DEF Stays, PageOf
  <2>4. CASE page = "osPasswordConfirm" /\ page' = "disk" /\ Forward("disk")
    BY <1>2, <2>1, <2>4
  <2> QED
    BY <2>2, <2>3, <2>4 DEF Terminal
<1>17. CASE UNCHANGED vars
  BY <1>17 DEF vars, Stays, SameCourse
<1>18. CASE LateStep
  <2>1. CASE LateApply
    BY <2>1 DEF LateApply, Stays, SameCourse, TypeParts, Config
  <2>2. CASE \E p \in LatePages : LateAnswer(p)
    BY <2>2 DEF LateAnswer, Terminal
  <2> QED
    BY <1>18, <2>1, <2>2 DEF LateStep
<1> QED
  BY <1>4, <1>5, <1>6, <1>7, <1>8, <1>9, <1>10, <1>11, <1>12, <1>13, <1>14, <1>15, <1>16,
     <1>17, <1>18, Zenon DEF Next, UserStep, Ended

\* A history stays linked when a page that follows its last one is added, and when
\* its last page is removed.
LEMMA LinkedGrows ==
  ASSUME NEW S, NEW s \in Seq(S), NEW q \in S, Linked(s), s # <<>>,
         q \notin {"preflightCheck", "askCreate"}, s[Len(s)] = Before(q)
  PROVE  Linked(Append(s, q))
<1> DEFINE t == Append(s, q)
<1>1. /\ Len(t) = Len(s) + 1 /\ Len(s) \in Nat /\ Len(s) >= 1
      /\ \A i \in 1..Len(s) : t[i] = s[i]
      /\ t[Len(s) + 1] = q
  OBVIOUS
<1> HIDE DEF t
<1> SUFFICES ASSUME NEW i \in 1..Len(t)
             PROVE  \/ t[i] = "preflightCheck" /\ i = 1
                    \/ t[i] = "askCreate" /\ (i = 1 \/ (i = 2 /\ t[1] = "preflightCheck"))
                    \/ /\ i > 1 /\ t[i] \notin {"preflightCheck", "askCreate"}
                       /\ t[i - 1] = Before(t[i])
  BY DEF Linked, t
<1>2. CASE i = Len(s) + 1
  <2>1. i - 1 = Len(s) /\ t[i - 1] = s[Len(s)] /\ t[i] = q
    BY <1>1, <1>2
  <2> QED
    BY <1>1, <1>2, <2>1
<1>3. CASE i # Len(s) + 1
  <2>1. i \in 1..Len(s) /\ t[i] = s[i] /\ t[1] = s[1]
    BY <1>1, <1>3
  <2>2. i > 1 => t[i - 1] = s[i - 1]
    BY <1>1, <2>1
  <2> QED
    BY <2>1, <2>2 DEF Linked
<1> QED
  BY <1>2, <1>3

LEMMA LinkedShrinks ==
  ASSUME NEW S, NEW s \in Seq(S), NEW q \in S, Linked(Append(s, q))
  PROVE  Linked(s)
<1> DEFINE t == Append(s, q)
<1>1. /\ Len(t) = Len(s) + 1 /\ Len(s) \in Nat
      /\ \A i \in 1..Len(s) : t[i] = s[i]
  OBVIOUS
<1>2. Linked(t)
  OBVIOUS
<1> HIDE DEF t
<1> SUFFICES ASSUME NEW i \in 1..Len(s)
             PROVE  \/ s[i] = "preflightCheck" /\ i = 1
                    \/ s[i] = "askCreate" /\ (i = 1 \/ (i = 2 /\ s[1] = "preflightCheck"))
                    \/ /\ i > 1 /\ s[i] \notin {"preflightCheck", "askCreate"}
                       /\ s[i - 1] = Before(s[i])
  BY DEF Linked
<1>3. i \in 1..Len(t) /\ t[i] = s[i] /\ t[1] = s[1]
  BY <1>1
<1>4. i > 1 => t[i - 1] = s[i - 1]
  BY <1>1
<1> QED
  BY <1>2, <1>3, <1>4 DEF Linked

\* On a page with an Esc the history ends with the page that Esc shows.
LEMMA TrailEndsBefore ==
  ASSUME TypeParts, TrailInv, page \notin NoEsc
  PROVE  /\ trail # <<>> /\ trail[Len(trail)] = PageOf(PrevPage(page))
         /\ Linked(trail)
<1>1. trail \in Seq(PageNames) /\ PageOf(page) \in PageNames /\ page \in Pages \ NoEsc
  BY DEF TypeParts, PageNames
<1>2. Linked(Append(trail, PageOf(page)))
  BY DEF TrailInv, NoEsc
<1>3. Linked(trail)
  BY <1>1, <1>2, LinkedShrinks
<1>4. PageOf(page) \notin {"preflightCheck", "askCreate"}
        /\ Before(PageOf(page)) = PageOf(PrevPage(page))
  BY <1>1, BeforeIsPrevPage
<1> DEFINE t == Append(trail, PageOf(page))
           n == Len(trail) + 1
<1>5. /\ n \in 1..Len(t) /\ t[n] = PageOf(page) /\ Len(trail) \in Nat
      /\ Len(trail) > 0 => t[n - 1] = trail[Len(trail)]
  BY <1>1
<1>6. n > 1 /\ t[n - 1] = Before(t[n])
  <2> HIDE DEF t, n
  <2> QED
    BY <1>2, <1>4, <1>5 DEF Linked, t
<1>7. Len(trail) > 0
  BY <1>5, <1>6
<1> QED
  BY <1>1, <1>3, <1>4, <1>5, <1>6, <1>7

\* The history of the next state, linked by the answers of this one.
LEMMA LinkedAfter ==
  ASSUME SameCourse, Linked(Append(trail', PageOf(page')))
  PROVE  TrailInv'
<1>1. Linked(Append(trail, PageOf(page)))'
  BY BeforeKept DEF Linked
<1> QED
  BY <1>1 DEF TrailInv

LEMMA AppendFacts ==
  ASSUME NEW s \in Seq(PageNames), NEW q \in PageNames
  PROVE  /\ Append(s, q) \in Seq(PageNames) /\ Len(Append(s, q)) = Len(s) + 1 /\ Len(s) \in Nat
         /\ \A i \in 1..Len(s) : Append(s, q)[i] = s[i]
         /\ Append(s, q)[Len(s) + 1] = q
  OBVIOUS

\* Arithmetic of the two shortest histories.
LEMMA SmallSuccessor ==
  \A k \in Nat : (k + 1 = 1 => k = 0) /\ (k + 1 = 2 => k = 1)
  OBVIOUS

\* On the first pages the history holds nothing that the answers decide on.
LEMMA TrailAtStart ==
  ASSUME TypeParts, TrailInv, page \in {"preflightCheck", "askCreate"}
  PROVE  \/ Len(trail) = 0
         \/ page = "askCreate" /\ Len(trail) = 1 /\ trail[1] = "preflightCheck"
<1>1. trail \in Seq(PageNames) /\ PageOf(page) = page /\ page \notin Terminal
  BY DEF TypeParts, PageOf, PasswordPanels, ClusterNetworkPanels, Terminal
<1> DEFINE t == Append(trail, page)
           n == Len(trail) + 1
<1>2. /\ n \in 1..Len(t) /\ t[n] = page /\ Len(trail) \in Nat
      /\ Len(trail) > 0 => t[1] = trail[1]
  BY <1>1
<1>3. Linked(t)
  BY <1>1 DEF TrailInv
<1>4. \/ page = "preflightCheck" /\ n = 1
      \/ page = "askCreate" /\ (n = 1 \/ (n = 2 /\ t[1] = "preflightCheck"))
  <2> HIDE DEF t, n
  <2> QED
    BY <1>2, <1>3 DEF Linked
<1>5. (n = 1 => Len(trail) = 0) /\ (n = 2 => Len(trail) = 1)
  BY <1>2, SmallSuccessor
<1>6. Len(trail) = 1 => t[1] = trail[1]
  <2> HIDE DEF t, n
  <2> QED
    BY <1>2
<1> HIDE DEF t, n
<1> QED
  BY <1>4, <1>5, <1>6

LEMMA TrailStep ==
  TypeParts /\ IInv /\ TrailInv /\ [Next]_vars => TrailInv'
<1> SUFFICES ASSUME TypeParts, IInv, TrailInv, [Next]_vars, page' \notin Terminal
             PROVE  TrailInv'
  BY DEF TrailInv
<1>1. /\ trail \in Seq(PageNames) /\ page \in Pages /\ PageOf(page) \in PageNames
      /\ page' \in Pages /\ PageOf(page') \in PageNames
  BY TypeStep DEF TypeParts, PageNames
<1>2. CASE Stays
  <2>1. page \notin Terminal
    BY <1>2 DEF Stays, PageOf, Terminal, PasswordPanels, ClusterNetworkPanels
  <2>2. Linked(Append(trail', PageOf(page')))
    BY <1>2, <2>1 DEF Stays, TrailInv
  <2> QED
    BY <1>2, <2>2, LinkedAfter DEF Stays
<1>3. CASE GoesOn
  <2> DEFINE t == Append(trail, PageOf(page))
  <2>1. t \in Seq(PageNames) /\ t # <<>> /\ t[Len(t)] = PageOf(page)
    BY <1>1
  <2>2. Linked(t)
    BY <1>3 DEF GoesOn, TrailInv
  <2> HIDE DEF t
  <2>3. Linked(Append(t, PageOf(page')))
    BY <1>1, <1>3, <2>1, <2>2, LinkedGrows DEF GoesOn
  <2>4. trail' = t
    BY <1>3 DEF GoesOn, t
  <2> QED
    BY <1>3, <2>3, <2>4, LinkedAfter DEF GoesOn
<1>4. CASE \E h \in OSHostnames : Esc(h)
  <2>1. page \notin NoEsc /\ page' = PrevPage(page) /\ SameCourse
    BY <1>4 DEF Esc, Back, SameCourse, TypeParts, Config
  <2>2. trail # <<>> /\ trail[Len(trail)] = PageOf(page') /\ Linked(trail)
    BY <2>1, TrailEndsBefore
  <2>3. trail' = SubSeq(trail, 1, Len(trail) - 1)
    BY <1>4, <2>2 DEF Esc, Back
  <2>4. Append(trail', PageOf(page')) = trail
    BY <1>1, <2>2, <2>3
  <2> QED
    BY <2>1, <2>2, <2>4, LinkedAfter
<1>5. CASE PreflightProceed
  <2>1. page = "preflightCheck" /\ page' = "askCreate" /\ trail' = Append(trail, PageOf(page))
    BY <1>5 DEF PreflightProceed, Key, Forward
  <2>2. /\ PageOf(page) = "preflightCheck" /\ PageOf(page') = "askCreate"
        /\ Len(trail) = 0
    BY <2>1, TrailAtStart DEF PageOf, PasswordPanels, ClusterNetworkPanels
  <2>3. trail' \in Seq(PageNames) /\ Len(trail') = 1 /\ trail'[1] = "preflightCheck"
    BY <1>1, <2>1, <2>2, AppendFacts
  <2> DEFINE t == Append(trail', PageOf(page'))
  <2>4. /\ Len(t) = Len(trail') + 1 /\ \A i \in 1..Len(trail') : t[i] = trail'[i]
        /\ t[Len(trail') + 1] = PageOf(page')
    BY <1>1, <2>3, AppendFacts
  <2>5. Len(t) = 2 /\ t[1] = "preflightCheck" /\ t[2] = "askCreate"
    <3> HIDE DEF t
    <3> QED
      BY <2>2, <2>3, <2>4
  <2> QED
    BY <2>5 DEF TrailInv, Linked
<1>6. CASE \E m \in {"create", "join", "install"} : AskCreateEnter(m)
  <2>1. PICK m \in {"create", "join", "install"} : AskCreateEnter(m)
    BY <1>6
  <2>2. /\ page = "askCreate" /\ trail' = Append(trail, PageOf(page))
        /\ cfg'.mode = m /\ alreadyInstalled' = alreadyInstalled
        /\ page' = IF m = "join" THEN "askRole"
                   ELSE IF alreadyInstalled THEN "network" ELSE "osPassword"
    BY <2>1 DEF AskCreateEnter, Key, Forward, TypeParts, Config
  <2>3. /\ PageOf(page') \in {"askRole", "network", "password"}
        /\ Before(PageOf(page))' = "askCreate"
    BY <2>2 DEF Before, PageOf, PrevPage, PasswordPanels, ClusterNetworkPanels,
                PasswordPrevPage, NetworkPrevPage
  <2>4. /\ PageOf(page) = "askCreate"
        /\ Len(trail) = 0 \/ (Len(trail) = 1 /\ trail[1] = "preflightCheck")
    BY <2>2, TrailAtStart DEF PageOf, PasswordPanels, ClusterNetworkPanels
  <2>5. /\ trail' \in Seq(PageNames)
        /\ \/ Len(trail') = 1 /\ trail'[1] = "askCreate"
           \/ Len(trail') = 2 /\ trail'[1] = "preflightCheck" /\ trail'[2] = "askCreate"
    BY <1>1, <2>2, <2>4, AppendFacts
  <2> DEFINE t == Append(trail', PageOf(page'))
  <2>6. \/ Len(t) = 2 /\ t[1] = "askCreate" /\ t[2] = PageOf(page')
        \/ /\ Len(t) = 3 /\ t[1] = "preflightCheck" /\ t[2] = "askCreate"
           /\ t[3] = PageOf(page')
    <3>1. /\ Len(t) = Len(trail') + 1 /\ \A i \in 1..Len(trail') : t[i] = trail'[i]
          /\ t[Len(trail') + 1] = PageOf(page')
      BY <1>1, <2>5, AppendFacts
    <3> HIDE DEF t
    <3> QED
      BY <2>5, <3>1
  <2> QED
    BY <2>3, <2>6 DEF TrailInv, Linked
<1>7. CASE UNCHANGED vars
  BY <1>2, <1>7 DEF vars, Stays, SameCourse
<1> QED
  BY <1>2, <1>3, <1>4, <1>5, <1>6, <1>7, MoveKinds

\* Esc shows the page from which this one was reached, for every page, mode and
\* history ("Use ESC to go back to previous page").
THEOREM EscAlwaysReturns == Spec => EscReturns
<1> DEFINE Returned == \A h \in OSHostnames :
                         Esc(h) => trail # <<>> /\ PageOf(page') = trail[Len(trail)]
<1>1. Init => TypeParts /\ IInv /\ TrailInv
  <2>1. Init => TrailInv
    BY DEF Init, TrailInv, Linked, PageOf, PasswordPanels, ClusterNetworkPanels
  <2> QED
    BY <2>1, TypeInit, SafeInit
<1>2. TypeParts /\ IInv /\ TrailInv /\ [Next]_vars => (TypeParts /\ IInv /\ TrailInv)'
  BY TypeStep, SafeStep, TrailStep
<1>3. TypeParts /\ IInv /\ TrailInv /\ [Next]_vars => [Returned]_vars
  <2> SUFFICES ASSUME TypeParts, TrailInv, NEW h \in OSHostnames, Esc(h)
               PROVE  trail # <<>> /\ PageOf(page') = trail[Len(trail)]
    OBVIOUS
  <2>1. page \notin NoEsc /\ page' = PrevPage(page)
    BY DEF Esc, Back
  <2> QED
    BY <2>1, TrailEndsBefore
<1> QED
  BY <1>1, <1>2, <1>3, PTL DEF Spec, EscReturns

-----------------------------------------------------------------------------
(* Wizard implements WizardPath *)

\* The neighbours on the paths, as the handlers of the pages name them.
LEMMA Neighbours ==
  ASSUME NEW m \in {"create", "join", "install"}, NEW i \in BOOLEAN
  PROVE  /\ m = "join" => Abstract!Follows("askCreate", "askRole", m, i)
         /\ m # "join" /\ ~i => Abstract!Follows("askCreate", "password", m, i)
         /\ m = "create" /\ i => Abstract!Follows("askCreate", "network", m, i)
         /\ m = "join" /\ ~i => Abstract!Follows("askRole", "password", m, i)
         /\ m = "join" /\ i => Abstract!Follows("askRole", "network", m, i)
         /\ ~i => Abstract!Follows("password", "disk", m, i)
         /\ ~i /\ m = "install" => Abstract!Follows("disk", "confirmInstall", m, i)
         /\ ~i /\ m # "install" => Abstract!Follows("disk", "network", m, i)
         /\ m = "create" => /\ Abstract!Follows("network", "clusterNetwork", m, i)
                            /\ Abstract!Follows("clusterNetwork", "hostname", m, i)
                            /\ Abstract!Follows("dnsServers", "vip", m, i)
                            /\ Abstract!Follows("vip", "token", m, i)
         /\ m = "join" => /\ Abstract!Follows("network", "hostname", m, i)
                          /\ Abstract!Follows("dnsServers", "serverUrl", m, i)
                          /\ Abstract!Follows("serverUrl", "token", m, i)
         /\ m # "install" => /\ Abstract!Follows("hostname", "dnsServers", m, i)
                             /\ Abstract!Follows("token", "ntpServers", m, i)
                             /\ Abstract!Follows("ntpServers", "proxy", m, i)
                             /\ Abstract!Follows("proxy", "sshKey", m, i)
                             /\ Abstract!Follows("sshKey", "cloudInit", m, i)
                             /\ Abstract!Follows("cloudInit", "confirmInstall", m, i)
         /\ Abstract!Follows("confirmInstall", "install", m, i)
  BY DEF Abstract!Follows, Abstract!Order, Abstract!Shown

-----------------------------------------------------------------------------
(* The steps of the path that the steps of the wizard map to *)

Mapped == <<PageOf(page), cfg.mode, alreadyInstalled>>
PathStep == Abstract!Next \/ UNCHANGED Mapped

\* Mode and installation state, which all handlers but one leave alone.
SameMode == cfg'.mode = cfg.mode /\ alreadyInstalled' = alreadyInstalled

USE DEF PageOf, PasswordPanels, ClusterNetworkPanels

\* What the inductive invariant says of the mode on a page.
LEMMA ModeOfPage ==
  ASSUME TypeParts, IInv
  PROVE  /\ alreadyInstalled \in BOOLEAN
         /\ cfg.mode \in {Blank, "create", "join", "install"}
         /\ installModeOnly <=> cfg.mode = "install"
         /\ alreadyInstalled => cfg.mode # "install"
         /\ page \in {"askRole", "serverUrl"} => cfg.mode = "join"
         /\ page \in {"podCIDR", "serviceCIDR", "clusterDNS", "vip"} => cfg.mode = "create"
         /\ page \in {"network", "hostname", "dnsServers", "token", "ntpServers", "proxy",
                     "sshKey", "cloudInit"} => cfg.mode \in {"create", "join"}
         /\ page \in {"osPassword", "osPasswordConfirm", "disk", "confirmInstall"}
              => cfg.mode \in {"create", "join", "install"}
         /\ page \in {"osPassword", "osPasswordConfirm", "disk"} => ~alreadyInstalled
<1>1. cfg.mode \in {Blank, "create", "join", "install"} /\ alreadyInstalled \in BOOLEAN
  BY TypePartsOK DEF TypeOK, Config
<1> QED
  BY <1>1 DEF IInv, PageMatchesMode, AfterDisk, AfterNetwork, AfterClusterNetwork,
              AfterHostname, AfterDNS, AfterServerURL, AfterToken, AfterNTP, AfterSSHKey,
              AfterCloudInit, Blank

\* A step within a page, or one that writes the configuration only.
LEMMA StaysOnPage ==
  ASSUME SameMode, PageOf(page') = PageOf(page)
  PROVE  PathStep
  BY DEF PathStep, Mapped, SameMode

LEMMA Advances ==
  ASSUME SameMode, cfg.mode \in {"create", "join", "install"},
         PageOf(page) # "askCreate",
         Abstract!Follows(PageOf(page), PageOf(page'), cfg.mode, alreadyInstalled)
  PROVE  PathStep
  BY DEF PathStep, SameMode, Abstract!Next, Abstract!Advance, Abstract!Modes

LEMMA Returns ==
  ASSUME SameMode, cfg.mode \in {"create", "join", "install"},
         PageOf(page) # "install",
         Abstract!Follows(PageOf(page'), PageOf(page), cfg.mode, alreadyInstalled)
  PROVE  PathStep
  BY DEF PathStep, SameMode, Abstract!Next, Abstract!Return, Abstract!Modes

-----------------------------------------------------------------------------
(* The actions of the wizard *)

\* The warnings page, the reboot and the mode page.
LEMMA StartMoves ==
  ASSUME TypeParts, IInv
  PROVE  /\ PreflightProceed => PathStep
         /\ Halt => PathStep
         /\ \A m \in {"create", "join", "install"} : AskCreateEnter(m) => PathStep
<1>1. PreflightProceed => PathStep
  BY DEF PreflightProceed, Key, Forward, PathStep, Abstract!Next, Abstract!Begin
<1>2. Halt => PathStep
  BY DEF Halt, Key, Within, Switches, PathStep, Abstract!Next, Abstract!Stop
<1>3. ASSUME NEW m \in {"create", "join", "install"}, AskCreateEnter(m) PROVE PathStep
  <2>1. page = "askCreate" /\ alreadyInstalled' = alreadyInstalled
    BY <1>3 DEF AskCreateEnter, Key
  <2>2. cfg'.mode = m /\ (alreadyInstalled => m # "install")
    BY <1>3, TypePartsOK DEF AskCreateEnter, TypeOK, Config
  <2>3. page' = IF m = "join" THEN "askRole"
                ELSE IF alreadyInstalled THEN "network" ELSE "osPassword"
    BY <1>3 DEF AskCreateEnter, Forward
  <2>4. Abstract!Follows(PageOf(page), PageOf(page'), m, alreadyInstalled)
    BY <2>1, <2>2, <2>3, ModeOfPage, Neighbours
  <2> QED
    BY <2>1, <2>2, <2>4 DEF PathStep, Abstract!Next, Abstract!Choose, Abstract!Modes
<1> QED
  BY <1>1, <1>2, <1>3

\* Handlers that store a field and stay on their page.
LEMMA InPageMoves ==
  ASSUME TypeParts, IInv
  PROVE  /\ \A p \in PasswordInputs : PasswordEnter(p) \/ PasswordConfirmUp(p) => PathStep
         /\ NetworkRefused => PathStep
         /\ \A m \in {"dhcp", "static"} : NetworkMethodSelect(m) => PathStep
         /\ \A c \in PodCIDRInputs : PodCIDRConfirm(c) => PathStep
         /\ \A c \in ServiceNets \cup {Blank} : ServiceCIDRConfirm(c) => PathStep
         /\ ClusterNetworkUp => PathStep
<1> USE DEF Key, Within, Switches, SameMode
<1>0. cfg \in Config
  BY TypePartsOK DEF TypeOK
<1>1. ASSUME NEW p \in PasswordInputs, PasswordEnter(p) \/ PasswordConfirmUp(p) PROVE PathStep
  BY <1>1, StaysOnPage DEF PasswordEnter, PasswordConfirmUp
<1>2. ASSUME NetworkRefused PROVE PathStep
  BY <1>0, <1>2, StaysOnPage DEF NetworkRefused, Config
<1>3. ASSUME NEW m, NetworkMethodSelect(m) PROVE PathStep
  BY <1>3, StaysOnPage DEF NetworkMethodSelect
<1>4. ASSUME NEW c, PodCIDRConfirm(c) PROVE PathStep
  BY <1>0, <1>4, StaysOnPage DEF PodCIDRConfirm, Config
<1>5. ASSUME NEW c, ServiceCIDRConfirm(c) PROVE PathStep
  BY <1>0, <1>5, StaysOnPage DEF ServiceCIDRConfirm, Config
<1>6. ASSUME ClusterNetworkUp PROVE PathStep
  BY <1>6, StaysOnPage DEF ClusterNetworkUp
<1> QED
  BY <1>1, <1>2, <1>3, <1>4, <1>5, <1>6

\* Handlers that show the next page.
LEMMA EnterMoves ==
  ASSUME TypeParts, IInv
  PROVE  /\ \A r \in Roles : AskRoleEnter(r) => PathStep
         /\ \A p \in PasswordInputs : PasswordConfirmEnter(p) => PathStep
         /\ DiskNext => PathStep
         /\ VipNext => PathStep
         /\ ConfirmYes => PathStep
         /\ \A t \in TokenInputs : TokenEnter(t) => PathStep
         /\ \A n \in HostnameInputs : HostnameEnter(n) => PathStep
         /\ \A p \in ProxyInputs : ProxyEnter(p) => PathStep
         /\ \A h \in OSHostnames : NetworkNext(h) => PathStep
         /\ \A d, h : ClusterDNSConfirm(d, h) => PathStep
<1> USE DEF Key, Forward, Within, Switches, SameMode
<1>0. cfg \in Config
  BY TypePartsOK DEF TypeOK
<1>1. ASSUME NEW r, AskRoleEnter(r) PROVE PathStep
  <2>1. SameMode /\ page = "askRole"
    BY <1>0, <1>1 DEF AskRoleEnter, Config
  <2>2. page' = IF alreadyInstalled THEN "network" ELSE "osPassword"
    BY <1>1 DEF AskRoleEnter
  <2> QED
    BY <2>1, <2>2, ModeOfPage, Neighbours, Advances
<1>2. ASSUME NEW p, PasswordConfirmEnter(p) PROVE PathStep
  <2>1. SameMode /\ page = "osPasswordConfirm"
    BY <1>0, <1>2 DEF PasswordConfirmEnter, Config
  <2>2. CASE page' = "disk"
    BY <2>1, <2>2, ModeOfPage, Neighbours, Advances
  <2>3. CASE page' = "exited"
    BY <2>1, <2>3 DEF PathStep, Abstract!Next, Abstract!Stop
  <2>4. CASE page' = page
    BY <2>1, <2>4, StaysOnPage
  <2> QED
    BY <1>2, <2>2, <2>3, <2>4 DEF PasswordConfirmEnter
<1>3. ASSUME DiskNext PROVE PathStep
  <2>1. SameMode /\ page = "disk"
        /\ page' = IF installModeOnly THEN "confirmInstall" ELSE "network"
    BY <1>3 DEF DiskNext
  <2> QED
    BY <2>1, ModeOfPage, Neighbours, Advances
<1>4. ASSUME VipNext PROVE PathStep
  <2>1. SameMode /\ page = "vip" /\ page' = "token"
    BY <1>4 DEF VipNext
  <2> QED
    BY <2>1, ModeOfPage, Neighbours, Advances
<1>5. ASSUME ConfirmYes PROVE PathStep
  <2>1. SameMode /\ page = "confirmInstall" /\ page' = "install"
    BY <1>5 DEF ConfirmYes
  <2> QED
    BY <2>1, ModeOfPage, Neighbours, Advances
<1>6. ASSUME NEW t, TokenEnter(t) PROVE PathStep
  <2>1. SameMode /\ page = "token" /\ page' = "ntpServers"
    BY <1>0, <1>6 DEF TokenEnter, Config
  <2> QED
    BY <2>1, ModeOfPage, Neighbours, Advances
<1>7. ASSUME NEW n, HostnameEnter(n) PROVE PathStep
  <2>1. SameMode /\ page = "hostname" /\ page' = "dnsServers"
    BY <1>0, <1>7 DEF HostnameEnter, Config
  <2> QED
    BY <2>1, ModeOfPage, Neighbours, Advances
<1>8. ASSUME NEW p, ProxyEnter(p) PROVE PathStep
  <2>1. SameMode /\ page = "proxy" /\ page' = "sshKey"
    BY <1>8 DEF ProxyEnter
  <2> QED
    BY <2>1, ModeOfPage, Neighbours, Advances
<1>9. ASSUME NEW h, NetworkNext(h) PROVE PathStep
  <2>1. SameMode /\ page = "network"
        /\ page' = IF cfg.mode = "create" THEN "podCIDR" ELSE "hostname"
    BY <1>0, <1>9 DEF NetworkNext, Config
  <2> QED
    BY <2>1, ModeOfPage, Neighbours, Advances
<1>10. ASSUME NEW d, NEW h, ClusterDNSConfirm(d, h) PROVE PathStep
  <2>1. SameMode /\ page = "clusterDNS" /\ page' = "hostname"
    BY <1>0, <1>10 DEF ClusterDNSConfirm, Config
  <2> QED
    BY <2>1, ModeOfPage, Neighbours, Advances
<1> QED
  BY <1>1, <1>2, <1>3, <1>4, <1>5, <1>6, <1>7, <1>8, <1>9, <1>10

\* Handlers that start a goroutine stay on their page until its answer.
LEMMA AsyncMoves ==
  ASSUME TypeParts, IInv
  PROVE  /\ \A d \in DNSInputs : DNSEnter(d) => PathStep
         /\ \A u \in ServerURLInputs : ServerURLEnter(u) => PathStep
         /\ \A i \in NTPInputs : NTPKeep(i) \/ NTPCheck(i) => PathStep
         /\ \A u \in SSHKeyInputs : SSHKeyEnter(u) => PathStep
         /\ \A u \in ConfigURLInputs : CloudInitEnter(u) => PathStep
<1> USE DEF Key, Forward, Within, StartTask, Switches, SameMode
<1>0. cfg \in Config
  BY TypePartsOK DEF TypeOK
<1>1. ASSUME NEW d, DNSEnter(d) PROVE PathStep
  BY <1>1, StaysOnPage DEF DNSEnter
<1>2. ASSUME NEW u, ServerURLEnter(u) PROVE PathStep
  BY <1>2, StaysOnPage DEF ServerURLEnter
<1>3. ASSUME NEW i, NTPKeep(i) PROVE PathStep
  <2>1. SameMode /\ page = "ntpServers" /\ page' = "proxy"
    BY <1>3 DEF NTPKeep
  <2> QED
    BY <2>1, ModeOfPage, Neighbours, Advances
<1>4. ASSUME NEW i, NTPCheck(i) PROVE PathStep
  BY <1>4, StaysOnPage DEF NTPCheck
<1>5. ASSUME NEW u, SSHKeyEnter(u) PROVE PathStep
  <2>1. SameMode /\ page = "sshKey" /\ page' \in {"sshKey", "cloudInit"}
    BY <1>0, <1>5 DEF SSHKeyEnter, Config
  <2> QED
    BY <2>1, ModeOfPage, Neighbours, Advances, StaysOnPage
<1>6. ASSUME NEW u, CloudInitEnter(u) PROVE PathStep
  <2>1. SameMode /\ page = "cloudInit" /\ page' \in {"cloudInit", "confirmInstall"}
    BY <1>0, <1>6 DEF CloudInitEnter, Config
  <2> QED
    BY <2>1, ModeOfPage, Neighbours, Advances, StaysOnPage
<1> QED
  BY <1>1, <1>2, <1>3, <1>4, <1>5, <1>6

\* The goroutines write the configuration and move nothing.
LEMMA TaskMoves ==
  ASSUME TypeParts, IInv, TaskStep
  PROVE  PathStep
<1>0. cfg \in Config
  BY TypePartsOK DEF TypeOK
<1>1. page' = page
  BY DEF TaskStep, DNSTask, ServerURLTask, NTPTask, SSHKeyTask, CloudInitTask, Answer
<1>2. alreadyInstalled' = alreadyInstalled
  BY DEF TaskStep, DNSTask, ServerURLTask, NTPTask, SSHKeyTask, CloudInitTask, Switches
<1>3. cfg'.mode = cfg.mode
  BY <1>0 DEF TaskStep, DNSTask, ServerURLTask, NTPTask, SSHKeyTask, CloudInitTask, Config
<1> QED
  BY <1>1, <1>2, <1>3, StaysOnPage DEF SameMode

\* A callback shows the page that asked again, or its successor; it finds the page
\* it closes (AnswerFindsItsPage), so that the console does not exit.
LEMMA CallbackMoves ==
  ASSUME TypeParts, IInv, Callback
  PROVE  PathStep
<1>1. SameMode /\ task # NoTask
  BY DEF Callback, TaskFailed, TaskDone, SameMode, Switches, NoTask
<1>2. page = task.page
  BY <1>1 DEF IInv, AnswerFindsItsPage, Callback, TaskFailed, TaskDone
<1>3. task.page \in AsyncPages
  BY <1>1, TypePartsOK DEF TypeOK
<1>4. CASE TaskFailed
  BY <1>1, <1>2, <1>4, StaysOnPage DEF TaskFailed, Within
<1>5. CASE TaskDone
  <2>1. page' = AfterTask(page)
    BY <1>2, <1>5 DEF TaskDone, Forward
  <2>2. Abstract!Follows(PageOf(page), PageOf(page'), cfg.mode, alreadyInstalled)
    BY <1>2, <1>3, <2>1, ModeOfPage, Neighbours DEF AfterTask, AsyncPages
  <2> QED
    BY <1>1, <1>2, <1>3, <2>2, ModeOfPage, Advances DEF AsyncPages
<1> QED
  BY <1>4, <1>5 DEF Callback

\* The page that Esc names is the one before this page on the path of the mode.
LEMMA EscMoves ==
  ASSUME TypeParts, IInv, NEW h, Esc(h)
  PROVE  PathStep
<1>1. SameMode
  BY TypePartsOK DEF Esc, SameMode, TypeOK, Config
<1>2. page \in Pages /\ page \notin NoEsc /\ page' = PrevPage(page)
  BY TypePartsOK DEF Esc, Back, TypeOK
<1>3. /\ cfg.mode \in {"create", "join", "install"}
      /\ Abstract!Follows(PageOf(page'), PageOf(page), cfg.mode, alreadyInstalled)
  <2> USE <1>2, ModeOfPage, Neighbours
  <2>1. CASE page = "askRole"
    BY <2>1 DEF PrevPage
  <2>2. CASE page \in PasswordPanels
    BY <2>2 DEF PrevPage, PasswordPrevPage
  <2>3. CASE page = "disk"
    BY <2>3 DEF PrevPage
  <2>4. CASE page = "network"
    BY <2>4 DEF PrevPage, NetworkPrevPage
  <2>5. CASE page \in ClusterNetworkPanels
    BY <2>5 DEF PrevPage
  <2>6. CASE page = "hostname"
    BY <2>6 DEF PrevPage, HostnamePrevPage
  <2>7. CASE page \in {"dnsServers", "serverUrl", "vip"}
    BY <2>7 DEF PrevPage
  <2>8. CASE page = "token"
    BY <2>8 DEF PrevPage, TokenPrevPage
  <2>9. CASE page \in {"ntpServers", "proxy", "sshKey", "cloudInit"}
    BY <2>9 DEF PrevPage
  <2>10. CASE page = "confirmInstall"
    BY <2>10 DEF PrevPage, ConfirmPrevPage
  <2> QED
    BY <2>1, <2>2, <2>3, <2>4, <2>5, <2>6, <2>7, <2>8, <2>9, <2>10
       DEF Pages, NoEsc, AsyncPages, Terminal
<1> QED
  BY <1>1, <1>2, <1>3, Returns DEF NoEsc, Terminal

\* A late answer moves nothing or strays from the path.
LEMMA LateMoves ==
  ASSUME TypeParts, IInv, LateStep
  PROVE  PathStep
<1>1. SameMode
  BY TypePartsOK DEF LateStep, LateApply, LateAnswer, SameMode, Switches, TypeOK, Config
<1>2. CASE page' = page
  BY <1>1, <1>2, StaysOnPage
<1>3. CASE page' # page
  <2>1. /\ page \notin {"halted", "exited", "overtaken"} /\ page \in Pages
        /\ page' \in {"overtaken", "exited"}
    BY <1>3, TypePartsOK DEF LateStep, LateApply, LateAnswer, Within, TypeOK
  <2>2. PageOf(page) \notin {"halted", "exited", "overtaken"} /\ PageOf(page') = page'
    BY <2>1 DEF PageOf, PasswordPanels, ClusterNetworkPanels
  <2> QED
    BY <1>1, <2>1, <2>2 DEF SameMode, PathStep, Abstract!Next, Abstract!Stray
<1> QED
  BY <1>2, <1>3

-----------------------------------------------------------------------------
\* Every step of the wizard is a step of the path or moves nothing.
LEMMA MapsSteps == TypeParts /\ IInv /\ [Next]_vars => PathStep
<1> SUFFICES ASSUME TypeParts, IInv, [Next]_vars PROVE PathStep
  OBVIOUS
<1>1. CASE UserStep
  BY <1>1, StartMoves, InPageMoves, EnterMoves, AsyncMoves, EscMoves, Zenon DEF UserStep
<1>2. CASE TaskStep
  BY <1>2, TaskMoves
<1>3. CASE Callback
  BY <1>3, CallbackMoves
<1>4. CASE UNCHANGED vars
  BY <1>4 DEF vars, PathStep, Mapped
<1>5. CASE LateStep
  BY <1>5, LateMoves
<1> QED
  BY <1>1, <1>2, <1>3, <1>4, <1>5 DEF Next, Ended

\* The wizard starts where the path starts.
LEMMA MapsInit == Init => Abstract!Init
<1> SUFFICES ASSUME Init PROVE Abstract!Init
  OBVIOUS
<1>1. cfg.mode = ""
  BY DEF Init, Blank
<1>2. alreadyInstalled \in BOOLEAN
  BY DEF Init
<1>3. page \in IF alreadyInstalled THEN {"askCreate"} ELSE {"askCreate", "preflightCheck"}
  BY DEF Init
<1>4. PageOf(page) = page
  BY <1>3
<1> QED
  BY <1>1, <1>2, <1>3, <1>4 DEF Abstract!Init

\* The detailed wizard implements the abstract one, whatever is typed: the
\* neighbours that the pages name for themselves are those of one order of pages,
\* in every mode and in both directions.
THEOREM WizardFollowsPath == Spec => FollowsPath
<1>1. Init => TypeParts /\ IInv
  BY TypeInit, SafeInit
<1>2. TypeParts /\ IInv /\ [Next]_vars => (TypeParts /\ IInv)'
  BY TypeStep, SafeStep
<1>3. TypeParts /\ IInv /\ [Next]_vars
        => [Abstract!Next]_<<PageOf(page), cfg.mode, alreadyInstalled>>
  BY MapsSteps DEF PathStep, Mapped
<1> QED
  BY <1>1, <1>2, <1>3, MapsInit, PTL DEF Spec, FollowsPath, Abstract!Spec
=============================================================================
