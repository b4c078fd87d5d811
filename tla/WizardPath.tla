----------------------------- MODULE WizardPath -----------------------------
(***************************************************************************)
(* What the wizard promises about its pages: they have one order, each     *)
(* mode leaves some of them out, Enter moves to the next page of the mode, *)
(* Esc to the one before, and the mode changes on the first page only.     *)
(* Every page of install_panels.go names its neighbours itself; Wizard.tla *)
(* has those names, this module has the order.                             *)
(***************************************************************************)
EXTENDS Naturals, Sequences

VARIABLES at, mode, installed

Modes == {"create", "join", "install"}

Order == <<"askCreate", "askRole", "password", "disk", "network", "clusterNetwork",
           "hostname", "dnsServers", "serverUrl", "vip", "token", "ntpServers",
           "proxy", "sshKey", "cloudInit", "confirmInstall", "install">>

\* Page p is shown in mode m, on an installed node if i.
Shown(p, m, i) ==
  /\ p \in {"askRole", "serverUrl"} => m = "join"
  /\ p \in {"clusterNetwork", "vip"} => m = "create"
  /\ p \in {"password", "disk"} => ~i
  /\ p \in {"network", "hostname", "dnsServers", "token", "ntpServers", "proxy",
            "sshKey", "cloudInit"} => m # "install"

\* Page q comes right after page p.
Follows(p, q, m, i) ==
  \E j, k \in 1..17 :
    /\ j < k /\ Order[j] = p /\ Order[k] = q
    /\ Shown(p, m, i) /\ Shown(q, m, i)
    /\ \A l \in 1..17 : j < l /\ l < k => ~Shown(Order[l], m, i)

-----------------------------------------------------------------------------
Init == /\ installed \in BOOLEAN
        /\ at \in IF installed THEN {"askCreate"} ELSE {"askCreate", "preflightCheck"}
        /\ mode = ""

Begin == at = "preflightCheck" /\ at' = "askCreate" /\ UNCHANGED mode

Choose == /\ at = "askCreate"
          /\ mode' \in Modes /\ (installed => mode' # "install")
          /\ Follows(at, at', mode', installed)

Advance == /\ at # "askCreate" /\ mode \in Modes /\ UNCHANGED mode
           /\ Follows(at, at', mode, installed)

Return == /\ at # "install" /\ mode \in Modes /\ UNCHANGED mode
          /\ Follows(at', at, mode, installed)

\* Refused warnings or confirmation; a password the system does not take.
Stop == /\ \/ at \in {"preflightCheck", "confirmInstall"} /\ at' = "halted"
           \/ at = "password" /\ at' = "exited"
        /\ UNCHANGED mode

\* A late answer of the network or the VIP page shows a panel over another page, or
\* finds its own closed.
Stray == at \notin {"halted", "exited", "overtaken"} /\ at' \in {"overtaken", "exited"}
         /\ UNCHANGED mode

Next == (Begin \/ Choose \/ Advance \/ Return \/ Stop \/ Stray) /\ UNCHANGED installed

Spec == Init /\ [][Next]_<<at, mode, installed>>
=============================================================================
