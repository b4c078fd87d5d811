----------------------------- MODULE NetworkPage -----------------------------
(***************************************************************************)
(* The network page (addNetworkPanel of pkg/console/install_panels.go):    *)
(* the panels for interfaces, VLAN, bond, method and the static fields,    *)
(* and the goroutine that applies the network when the last one is         *)
(* confirmed, with its spinner.                                            *)
(*                                                                         *)
(* While a network is applied the keyboard should be on the spinner's      *)
(* panel, which takes no key. It is there at once only when Panel.Show     *)
(* creates that panel with Focus set; otherwise it comes with the first    *)
(* write of the spinner, and until then the page still takes keys: the     *)
(* operator can edit the network that is being applied, apply it a second  *)
(* time or leave the page.                                                 *)
(*                                                                         *)
(* Here applying either fails or succeeds; its steps are in NMProfiles.    *)
(***************************************************************************)
EXTENDS Integers

CONSTANTS
  Jobs,       \* goroutines that may be running at the same time (a bound)
  MaxHasty,   \* keys that may be pressed while one is running (a bound)
  NICChoices,    \* selections of the interface list
  VlanInputs,    \* numbers typed as VLAN
  AddressInputs, MaskInputs, GatewayInputs,  \* kinds of text typed
  MTUInputs      \* numbers typed as MTU

Blank == ""
Valid == "ipv4"
CIDR == "cidr"

ASSUME NumbersAssumption == VlanInputs \subseteq Int /\ MTUInputs \subseteq Int
ASSUME TextsAssumption ==
  /\ AddressInputs \subseteq {Blank, Valid, "ipv6", CIDR, "malformed"}
  /\ MaskInputs \cup GatewayInputs \subseteq {Blank, Valid, "malformed"}
ASSUME MaxHastyAssumption == MaxHasty \in Nat

VARIABLES
  panel,    \* the panel that has the keyboard, or the page before or after; the
            \* installer may have exited
  view,     \* the validator's view exists
  takes,    \* networkValidatorV.Focus
  mgmt,     \* mgmtNetwork
  config,   \* c.config.ManagementInterface
  job,      \* job[j]: where goroutine j is, the panel it came from, its network
  inForce,  \* history: the system runs the network in config
  hasty,    \* history: number of keys pressed while a goroutine was running
  excuse    \* history: the operator has seen a message of the validator

vars == <<panel, view, takes, mgmt, config, job, inForce, hasty, excuse>>

Panels == {"askInterface", "askVlanID", "askBondMode", "askNetworkMethod",
           "address", "addrMask", "gateway", "mtu"}
Spinner == "networkValidator"
Before == "previous page"
After == "next page"
Exited == "exited"

NoNetwork == [nics |-> {}, vlan |-> 0, method |-> Blank,
              ip |-> Blank, mask |-> Blank, gateway |-> Blank, mtu |-> 0]
NoJob == [pc |-> "idle", from |-> "mtu", net |-> NoNetwork]

Running == {j \in Jobs : job[j].pc # "idle"}

Init ==
  /\ panel = "askInterface"
  /\ view = FALSE /\ takes = TRUE
  /\ mgmt = NoNetwork /\ config = NoNetwork
  /\ job = [j \in Jobs |-> NoJob]
  /\ inForce = FALSE /\ hasty = 0 /\ excuse = FALSE

-----------------------------------------------------------------------------
(* Moving between the panels *)

Key(p) ==
  /\ panel = p
  /\ \/ Running = {} /\ UNCHANGED hasty
     \/ Running # {} /\ hasty < MaxHasty /\ hasty' = hasty + 1
  /\ UNCHANGED <<config, inForce>>

\* gotoNextPanel with hooks that accept: the bond note replaces the message.
Goto(p) == panel' = p /\ view' = FALSE /\ UNCHANGED <<takes, job, excuse>>

updateValidatorMessage ==
  /\ view' = TRUE /\ takes' = FALSE /\ excuse' = TRUE
  /\ UNCHANGED <<panel, job>>

\* A panel that shows the validator's message or stores a value and moves on.
Entry(p, refused, value, to) ==
  /\ Key(p)
  /\ IF refused THEN updateValidatorMessage /\ UNCHANGED mgmt
     ELSE Goto(to) /\ mgmt' = value

Move(p, to) == Entry(p, FALSE, mgmt, to)

\* Some selected interface may be missing or down.
InterfaceConfirm ==
  \E nics \in NICChoices, down \in BOOLEAN :
    Entry("askInterface", nics = {} \/ down, [mgmt EXCEPT !.nics = nics], "askVlanID")

\* The hardware address of an interface that was up is not found: the handler returns
\* the error, which ends the main loop and the goroutines with it.
InterfaceLost ==
  /\ Key("askInterface")
  /\ panel' = Exited /\ view' = FALSE
  /\ job' = [j \in Jobs |-> NoJob]
  /\ UNCHANGED <<takes, mgmt, excuse>>

VlanConfirm ==
  \E v \in VlanInputs, to \in {"askInterface", "askBondMode"} :
    Entry("askVlanID", v < 0 \/ v > 4094, [mgmt EXCEPT !.vlan = v], to)

BondConfirm == \E to \in {"askVlanID", "askNetworkMethod"} : Move("askBondMode", to)

ValidAddress(a) == a \notin {Blank, "malformed"}
AddressConfirm ==
  \E a \in AddressInputs :
    Entry("address", ~ValidAddress(a),
          [mgmt EXCEPT !.ip = IF a = CIDR THEN Valid ELSE a,
                       !.mask = IF a = CIDR THEN Valid ELSE @],
          "addrMask")

MaskConfirm ==
  \E k \in MaskInputs : Entry("addrMask", k # Valid, [mgmt EXCEPT !.mask = k], "gateway")

GatewayUnchecked ==
  \E g \in GatewayInputs : Entry("gateway", g = Blank, [mgmt EXCEPT !.gateway = g], "mtu")

GatewayConfirm ==
  \E g \in GatewayInputs : Entry("gateway", g # Valid, [mgmt EXCEPT !.gateway = g], "mtu")

\* The field is stored as it is.
GatewayUp ==
  \E g \in GatewayInputs : Entry("gateway", FALSE, [mgmt EXCEPT !.gateway = g], "addrMask")

checkMTU(m) == m = 0 \/ (m >= 576 /\ m <= 9000)
MTUUp == \E m \in MTUInputs :
  Entry("mtu", ~checkMTU(m), [mgmt EXCEPT !.mtu = m], "gateway")

StaticUp == \/ Move("address", "askNetworkMethod") \/ Move("addrMask", "address")
            \/ GatewayUp \/ MTUUp

MethodUp == Move("askNetworkMethod", "askBondMode")

WithoutFocus(from) ==
  /\ view' = TRUE /\ panel' = from
  /\ \E j \in Jobs \ Running : job' = [job EXCEPT ![j] = [NoJob EXCEPT !.pc = "begun", !.from = from]]
  /\ UNCHANGED <<takes, excuse>>

\* The spinner's panel is shown and takes the keyboard if it is new and may.
gotoNextPage(from) ==
  /\ view' = TRUE
  /\ panel' = IF ~view /\ takes THEN Spinner ELSE from
  /\ \E j \in Jobs \ Running : job' = [job EXCEPT ![j] = [NoJob EXCEPT !.pc = "begun", !.from = from]]
  /\ UNCHANGED <<takes, excuse>>

MethodConfirm ==
  /\ Key("askNetworkMethod")
  /\ \/ /\ mgmt' = [mgmt EXCEPT !.method = "static"]
        /\ panel' = "address" /\ UNCHANGED <<view, takes, job, excuse>>
     \/ /\ mgmt' = [mgmt EXCEPT !.method = "dhcp"]
        /\ gotoNextPage("askNetworkMethod")

MTUConfirm ==
  /\ Key("mtu")
  /\ \E m \in MTUInputs :
       \/ ~checkMTU(m) /\ updateValidatorMessage /\ UNCHANGED mgmt
       \/ checkMTU(m) /\ mgmt' = [mgmt EXCEPT !.mtu = m] /\ gotoNextPage("mtu")

\* Esc, and the Up key of the first panel.
gotoPrevPage ==
  /\ \E p \in Panels : Key(p)
  /\ panel' = Before /\ view' = FALSE
  /\ UNCHANGED <<takes, mgmt, job, excuse>>

showNetworkPage ==
  /\ Key(Before) \/ Key(After)
  /\ panel' = "askInterface"
  /\ UNCHANGED <<view, takes, mgmt, job, excuse>>

-----------------------------------------------------------------------------
(* The goroutine *)

At(j, pc) == job[j].pc = pc
Continue(j, pc) == job' = [job EXCEPT ![j] = [@ EXCEPT !.pc = pc, !.net = NoNetwork]]

\* The spinner writes every 100 ms as long as its panel exists.
SpinnerWrite(j) ==
  /\ j \in Running /\ view
  /\ panel' = Spinner
  /\ UNCHANGED <<view, takes, mgmt, config, job, inForce, hasty, excuse>>

\* setupNetwork passes mgmtNetwork by value.
setupNetwork(j) ==
  /\ At(j, "begun")
  /\ job' = [job EXCEPT ![j] = [@ EXCEPT !.pc = "applying", !.net = mgmt]]
  /\ inForce' = FALSE
  /\ UNCHANGED <<panel, view, takes, mgmt, config, hasty, excuse>>

CopyOnce(j) ==
  /\ At(j, "applying")
  /\ config' = IF config = NoNetwork THEN mgmt ELSE config
  /\ inForce' = (config' = job[j].net)
  /\ Continue(j, IF mgmt.method = "dhcp" THEN "dhcp" ELSE "route")
  /\ UNCHANGED <<panel, view, takes, mgmt, hasty, excuse>>

\* The configuration gets mgmtNetwork as it is after the call.
NetworkApplied(j) ==
  /\ At(j, "applying")
  /\ config' = mgmt /\ inForce' = (mgmt = job[j].net)
  /\ Continue(j, IF mgmt.method = "dhcp" THEN "dhcp" ELSE "route")
  /\ UNCHANGED <<panel, view, takes, mgmt, hasty, excuse>>

KeepStatic(j) ==
  /\ At(j, "dhcp")
  /\ Continue(j, "route")
  /\ UNCHANGED <<panel, view, takes, mgmt, config, inForce, hasty, excuse>>

DHCPAnswered(j) ==
  /\ At(j, "dhcp")
  /\ mgmt' = [mgmt EXCEPT !.ip = Blank, !.mask = Blank, !.gateway = Blank, !.mtu = 0]
  /\ Continue(j, "route")
  /\ UNCHANGED <<panel, view, takes, config, inForce, hasty, excuse>>

\* checkDefaultRoute: a missing route is an error with DHCP only.
RouteChecked(j) ==
  /\ At(j, "route")
  /\ \E exists \in BOOLEAN :
       Continue(j, IF ~exists /\ mgmt.method = "dhcp" THEN "failed" ELSE "done")
  /\ UNCHANGED <<panel, view, takes, mgmt, config, inForce, hasty, excuse>>

RetryForever(j) ==
  /\ job[j].pc \in {"applying", "dhcp", "route"}
  /\ Continue(j, "begun")
  /\ UNCHANGED <<panel, view, takes, mgmt, config, inForce, hasty, excuse>>

\* applyNetworks, the DHCP request or the query of the routes fails.
TaskFails(j) ==
  /\ job[j].pc \in {"applying", "dhcp", "route"}
  /\ Continue(j, "failed")
  /\ UNCHANGED <<panel, view, takes, mgmt, config, inForce, hasty, excuse>>

\* The message stays in the spinner's panel; the keyboard goes back to the panel
\* the goroutine was started from, wherever the operator is now.
TaskFailed(j) ==
  /\ At(j, "failed")
  /\ panel' = job[j].from /\ excuse' = TRUE
  /\ job' = [job EXCEPT ![j] = NoJob]
  /\ UNCHANGED <<view, takes, mgmt, config, inForce, hasty>>

TaskDone(j) ==
  /\ At(j, "done")
  /\ panel' = After /\ view' = FALSE
  /\ job' = [job EXCEPT ![j] = NoJob]
  /\ UNCHANGED <<takes, mgmt, config, inForce, hasty, excuse>>

preGotoNextPage(j) == \/ setupNetwork(j) \/ NetworkApplied(j) \/ DHCPAnswered(j)
                      \/ RouteChecked(j) \/ TaskFails(j)
Callback(j) == TaskFailed(j) \/ TaskDone(j)

-----------------------------------------------------------------------------
Operator ==
  \/ InterfaceConfirm \/ InterfaceLost \/ VlanConfirm \/ BondConfirm
  \/ MethodConfirm \/ MethodUp
  \/ AddressConfirm \/ MaskConfirm \/ GatewayConfirm \/ MTUConfirm \/ StaticUp
  \/ gotoPrevPage \/ showNetworkPage

Ended == panel = Exited /\ UNCHANGED vars

Next == Operator \/ Ended \/ \E j \in Jobs : SpinnerWrite(j) \/ preGotoNextPage(j) \/ Callback(j)

\* The commands the goroutine runs have time limits, and gocui runs every
\* function that was queued; the operator owes nothing.
Fairness == \A j \in Jobs : WF_vars(preGotoNextPage(j)) /\ WF_vars(Callback(j))

Spec == Init /\ [][Next]_vars
FairSpec == Spec /\ Fairness

-----------------------------------------------------------------------------
(* Properties *)

Network == [nics : {{}} \cup NICChoices, vlan : 0..4094, method : {Blank, "dhcp", "static"},
            ip : AddressInputs \cup {Blank, Valid}, mask : {Blank, Valid},
            gateway : GatewayInputs \cup {Blank}, mtu : {m \in MTUInputs \cup {0} : checkMTU(m)}]

\* Type invariant of the page, of its two copies of the network and of the
\* goroutines. VLAN and MTU are in range and an address is well formed at any time.
TypeOK ==
  /\ panel \in Panels \cup {Spinner, Before, After, Exited}
  /\ view \in BOOLEAN /\ takes \in BOOLEAN
  /\ mgmt \in Network /\ config \in Network
  /\ mgmt.ip # "malformed" /\ config.ip # "malformed"
  /\ job \in [Jobs -> [pc : {"idle", "begun", "applying", "dhcp", "route", "failed", "done"},
                       from : {"askNetworkMethod", "mtu"}, net : Network]]
  /\ inForce \in BOOLEAN /\ hasty \in 0..MaxHasty /\ excuse \in BOOLEAN

Orderly == hasty = 0

\* The page is left forward only with a configuration that is in force: the
\* network in the configuration is the one the system was given, and the network
\* that the later pages consult (mgmtNetwork) agrees with it, whatever was applied,
\* refused and edited before (preGotoNextPage).
LeavesAsApplied ==
  Orderly /\ panel = After
    => /\ inForce
       /\ \A f \in {"nics", "vlan", "method"} : config[f] = mgmt[f]
       /\ config.nics # {}

\* A static network leaves the page with an address, a mask and an IPv4 gateway,
\* also after Up on the gateway stored it unchecked and after a DHCP request
\* emptied the fields: there is no way to the MTU panel around the three.
StaticIsComplete ==
  Orderly /\ panel = After /\ config.method = "static"
    => config.ip # Blank /\ config.mask = Valid /\ config.gateway = Valid

\* With DHCP the page is left with the static fields of mgmtNetwork emptied, so
\* that the VIP page does not compare with an address typed earlier.
DHCPForgetsStatic ==
  Orderly /\ panel = After /\ mgmt.method = "dhcp"
    => mgmt.ip = Blank /\ mgmt.gateway = Blank /\ mgmt.mtu = 0

\* The first attempt is safe: the network can be edited, or the page left, under
\* a goroutine that applies it only after the page has shown a message or a
\* failure, which takes Focus from the spinner's panel or leaves it on the screen.
FirstAttemptLocks == hasty > 0 => excuse

\* The keyboard does not stay on the spinner's panel, which takes no key, even
\* when two goroutines run and either fails.
KeyboardComesBack == panel = Spinner ~> panel # Spinner
=============================================================================
