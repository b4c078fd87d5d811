-------------------------- MODULE NetworkPageProofs --------------------------
(***************************************************************************)
(* What the network page leaves behind is in force and complete, and its   *)
(* first attempt cannot be disturbed: for any number of goroutines, all    *)
(* inputs and all failures.                                                *)
(***************************************************************************)
EXTENDS NetworkPage, TLAPS

USE DEF Blank, Valid, CIDR, Spinner, Before, After, Exited, Panels

\* The fields of a network, named so that proofs need not look into them.
NICSets == {{}} \cup NICChoices
Vlans == 0..4094
Methods == {Blank, "dhcp", "static"}
IPs == AddressInputs \cup {Blank, Valid}
Masks == {Blank, Valid}
Gateways == GatewayInputs \cup {Blank}
MTUs == {m \in MTUInputs \cup {0} : checkMTU(m)}
LEMMA NetworkFields ==
  Network = [nics : NICSets, vlan : Vlans, method : Methods, ip : IPs, mask : Masks,
             gateway : Gateways, mtu : MTUs]
BY DEF Network, NICSets, Vlans, Methods, IPs, Masks, Gateways, MTUs

JobType == [pc : {"idle", "begun", "applying", "dhcp", "route", "failed", "done"},
            from : {"askNetworkMethod", "mtu"}, net : Network]
Sound(n) == n \in Network /\ n.ip # "malformed"

-----------------------------------------------------------------------------
(* Types *)

\* The page starts with an empty network.
LEMMA NoNetworkSound == Sound(NoNetwork) /\ NoJob \in JobType
<1>1. Sound(NoNetwork)
  BY DEF Sound, Network, NoNetwork, checkMTU
<1> QED
  BY <1>1 DEF Sound, NoJob, JobType

LEMMA InitTyped == Init => TypeOK
<1> SUFFICES ASSUME Init PROVE TypeOK
  OBVIOUS
<1>1. mgmt \in Network /\ config \in Network /\ mgmt.ip # "malformed" /\ config.ip # "malformed"
  BY NoNetworkSound DEF Init, Sound
<1>2. job \in [Jobs -> JobType]
  BY NoNetworkSound DEF Init
<1>3. hasty \in 0..MaxHasty
  BY MaxHastyAssumption DEF Init
<1> QED
  BY <1>1, <1>2, <1>3 DEF Init, TypeOK, JobType

\* A key stroke keeps the bound on hasty ones.
LEMMA KeyTyped ==
  ASSUME TypeOK, NEW p, Key(p)
  PROVE  hasty' \in 0..MaxHasty /\ config' = config /\ inForce' = inForce
<1>1. hasty \in 0..MaxHasty
  BY DEF TypeOK
<1> QED
  BY <1>1, MaxHastyAssumption DEF Key

\* A panel keeps the types when it stores a sound network.
LEMMA EntryTyped ==
  ASSUME TypeOK, NEW p \in Panels, NEW refused, NEW value, NEW to \in Panels,
         ~refused => Sound(value), Entry(p, refused, value, to)
  PROVE  TypeOK'
<1>1. hasty' \in 0..MaxHasty /\ config' = config /\ inForce' = inForce
  BY KeyTyped DEF Entry
<1>2. CASE refused
  BY <1>1, <1>2 DEF Entry, updateValidatorMessage, TypeOK
<1>3. CASE ~refused
  BY <1>1, <1>3 DEF Entry, Goto, TypeOK, Sound
<1> QED
  BY <1>2, <1>3

\* What each panel may store is sound.
LEMMA MgmtSound == TypeOK => Sound(mgmt)
BY DEF TypeOK, Sound

LEMMA NICsSound ==
  ASSUME TypeOK, NEW nics \in NICChoices
  PROVE  Sound([mgmt EXCEPT !.nics = nics])
<1>1. nics \in NICSets
  BY DEF NICSets
<1> QED
  BY <1>1, MgmtSound, NetworkFields DEF Sound

LEMMA VlanSound ==
  ASSUME TypeOK, NEW v \in VlanInputs, ~(v < 0 \/ v > 4094)
  PROVE  Sound([mgmt EXCEPT !.vlan = v])
<1>0. v \in Int
  BY NumbersAssumption
<1>1. v \in Vlans
  BY <1>0 DEF Vlans
<1> QED
  BY <1>1, MgmtSound, NetworkFields DEF Sound

LEMMA AddressSound ==
  ASSUME TypeOK, NEW a \in AddressInputs, ValidAddress(a)
  PROVE  Sound([mgmt EXCEPT !.ip = IF a = CIDR THEN Valid ELSE a,
                            !.mask = IF a = CIDR THEN Valid ELSE @])
<1> DEFINE ip == IF a = CIDR THEN Valid ELSE a
           mask == IF a = CIDR THEN Valid ELSE mgmt.mask
<1>1. ip \in IPs /\ ip # "malformed"
  BY DEF IPs, ValidAddress
<1>2. mask \in Masks
  BY MgmtSound, NetworkFields DEF Sound, Masks
<1> HIDE DEF ip, mask
<1>3. Sound([mgmt EXCEPT !.ip = ip, !.mask = mask])
  BY <1>1, <1>2, MgmtSound, NetworkFields DEF Sound
<1> QED
  BY <1>3 DEF ip, mask

LEMMA MaskSound ==
  ASSUME TypeOK
  PROVE  Sound([mgmt EXCEPT !.mask = Valid])
<1>1. Valid \in Masks
  BY DEF Masks
<1> QED
  BY <1>1, MgmtSound, NetworkFields DEF Sound

LEMMA GatewaySound ==
  ASSUME TypeOK, NEW g \in GatewayInputs
  PROVE  Sound([mgmt EXCEPT !.gateway = g])
<1>1. g \in Gateways
  BY DEF Gateways
<1> QED
  BY <1>1, MgmtSound, NetworkFields DEF Sound

LEMMA MTUSound ==
  ASSUME TypeOK, NEW m \in MTUInputs, checkMTU(m)
  PROVE  Sound([mgmt EXCEPT !.mtu = m])
<1>1. m \in MTUs
  BY DEF MTUs
<1> QED
  BY <1>1, MgmtSound, NetworkFields DEF Sound

LEMMA MethodSound ==
  ASSUME TypeOK, NEW k \in {"dhcp", "static"}
  PROVE  Sound([mgmt EXCEPT !.method = k])
<1>1. k \in Methods
  BY DEF Methods
<1> QED
  BY <1>1, MgmtSound, NetworkFields DEF Sound

LEMMA EmptiedSound ==
  ASSUME TypeOK
  PROVE  Sound([mgmt EXCEPT !.ip = Blank, !.mask = Blank, !.gateway = Blank, !.mtu = 0])
<1>1. Blank \in IPs /\ Blank \in Masks /\ Blank \in Gateways /\ 0 \in MTUs
  BY DEF IPs, Masks, Gateways, MTUs, checkMTU
<1> QED
  BY <1>1, MgmtSound, NetworkFields DEF Sound

\* A goroutine is started.
LEMMA StartTyped ==
  ASSUME TypeOK, NEW from \in {"askNetworkMethod", "mtu"}, gotoNextPage(from)
  PROVE  /\ panel' \in Panels \cup {Spinner, Before, After}
         /\ view' \in BOOLEAN /\ takes' \in BOOLEAN /\ excuse' \in BOOLEAN
         /\ job' \in [Jobs -> JobType]
<1>1. [NoJob EXCEPT !.pc = "begun", !.from = from] \in JobType
  BY NoNetworkSound DEF JobType
<1> QED
  BY <1>1 DEF TypeOK, gotoNextPage, JobType

\* The operator's actions keep the types.
LEMMA OperatorTyped == TypeOK /\ Operator => TypeOK'
<1> SUFFICES ASSUME TypeOK, Operator PROVE TypeOK'
  OBVIOUS
<1>0. Sound(mgmt)
  BY DEF TypeOK, Sound
<1>1. CASE InterfaceConfirm
  BY <1>1, EntryTyped, NICsSound DEF InterfaceConfirm
<1>2. CASE VlanConfirm
  <2>1. PICK v \in VlanInputs, to \in {"askInterface", "askBondMode"} :
          Entry("askVlanID", v < 0 \/ v > 4094, [mgmt EXCEPT !.vlan = v], to)
    BY <1>2 DEF VlanConfirm
  <2> DEFINE refused == v < 0 \/ v > 4094
  <2>2. ~refused => Sound([mgmt EXCEPT !.vlan = v])
    BY VlanSound
  <2>3. Entry("askVlanID", refused, [mgmt EXCEPT !.vlan = v], to)
    BY <2>1
  <2> HIDE DEF refused
  <2> QED
    BY <2>2, <2>3, EntryTyped
<1>3. CASE BondConfirm \/ MethodUp \/ Move("address", "askNetworkMethod") \/ Move("addrMask", "address")
  BY <1>0, <1>3, EntryTyped DEF BondConfirm, MethodUp, Move
<1>4. CASE AddressConfirm
  BY <1>4, EntryTyped, AddressSound DEF AddressConfirm
<1>5. CASE MaskConfirm
  BY <1>5, EntryTyped, MaskSound DEF MaskConfirm
<1>6. CASE GatewayConfirm \/ GatewayUp
  BY <1>6, EntryTyped, GatewaySound DEF GatewayConfirm, GatewayUp
<1>7. CASE MTUUp
  BY <1>7, EntryTyped, MTUSound DEF MTUUp
<1>8. CASE MethodConfirm
  <2>1. hasty' \in 0..MaxHasty /\ config' = config /\ inForce' = inForce
    BY <1>8, KeyTyped DEF MethodConfirm
  <2>2. Sound(mgmt')
    BY <1>8, MethodSound DEF MethodConfirm
  <2>3. CASE gotoNextPage("askNetworkMethod")
    BY <2>1, <2>2, <2>3, StartTyped DEF TypeOK, Sound, JobType
  <2>4. CASE panel' = "address" /\ UNCHANGED <<view, takes, job, excuse>>
    BY <2>1, <2>2, <2>4 DEF TypeOK, Sound
  <2> QED
    BY <1>8, <2>3, <2>4 DEF MethodConfirm
<1>9. CASE MTUConfirm
  <2>1. hasty' \in 0..MaxHasty /\ config' = config /\ inForce' = inForce
    BY <1>9, KeyTyped DEF MTUConfirm
  <2>2. PICK m \in MTUInputs :
          \/ ~checkMTU(m) /\ updateValidatorMessage /\ UNCHANGED mgmt
          \/ checkMTU(m) /\ mgmt' = [mgmt EXCEPT !.mtu = m] /\ gotoNextPage("mtu")
    BY <1>9 DEF MTUConfirm
  <2>3. Sound(mgmt')
    BY <1>0, <2>2, MTUSound
  <2>4. CASE gotoNextPage("mtu")
    BY <2>1, <2>3, <2>4, StartTyped DEF TypeOK, Sound, JobType
  <2>5. CASE updateValidatorMessage
    BY <2>1, <2>3, <2>5 DEF updateValidatorMessage, TypeOK, Sound
  <2> QED
    BY <2>2, <2>4, <2>5
<1>10. CASE gotoPrevPage \/ showNetworkPage
  BY <1>10, KeyTyped DEF gotoPrevPage, showNetworkPage, TypeOK
<1>11. CASE InterfaceLost
  <2>1. job' \in [Jobs -> JobType]
    BY <1>11, NoNetworkSound DEF InterfaceLost
  <2> QED
    BY <1>11, <2>1, KeyTyped DEF InterfaceLost, TypeOK, JobType
<1> QED
  BY <1>1, <1>2, <1>3, <1>4, <1>5, <1>6, <1>7, <1>8, <1>9, <1>10, <1>11 DEF Operator, StaticUp

\* So do the steps of a goroutine and its spinner.
LEMMA ContinueTyped ==
  ASSUME TypeOK, NEW j \in Jobs,
         NEW pc \in {"begun", "dhcp", "route", "failed", "done"}, Continue(j, pc)
  PROVE  job' \in [Jobs -> JobType]
BY NoNetworkSound DEF TypeOK, Continue, JobType, Sound

LEMMA JobTyped ==
  ASSUME TypeOK, NEW j \in Jobs, SpinnerWrite(j) \/ preGotoNextPage(j) \/ Callback(j)
  PROVE  TypeOK'
<1>1. CASE SpinnerWrite(j)
  BY <1>1 DEF SpinnerWrite, TypeOK
<1>2. CASE setupNetwork(j)
  BY <1>2 DEF setupNetwork, TypeOK
<1>3. CASE NetworkApplied(j)
  <2>1. job' \in [Jobs -> JobType]
    BY <1>3, ContinueTyped DEF NetworkApplied
  <2>2. inForce' \in BOOLEAN
    BY <1>3 DEF NetworkApplied
  <2> QED
    BY <1>3, <2>1, <2>2 DEF NetworkApplied, TypeOK, JobType
<1>4. CASE DHCPAnswered(j)
  <2>1. job' \in [Jobs -> JobType]
    BY <1>4, ContinueTyped DEF DHCPAnswered
  <2>2. Sound(mgmt')
    BY <1>4, EmptiedSound DEF DHCPAnswered
  <2> QED
    BY <1>4, <2>1, <2>2 DEF DHCPAnswered, TypeOK, JobType, Sound
<1>5. CASE RouteChecked(j) \/ TaskFails(j)
  <2>1. job' \in [Jobs -> JobType]
    BY <1>5, ContinueTyped DEF RouteChecked, TaskFails
  <2> QED
    BY <1>5, <2>1 DEF RouteChecked, TaskFails, TypeOK, JobType
<1>6. CASE TaskFailed(j)
  BY <1>6, NoNetworkSound DEF TaskFailed, TypeOK, JobType
<1>7. CASE TaskDone(j)
  BY <1>7, NoNetworkSound DEF TaskDone, TypeOK, JobType
<1> QED
  BY <1>1, <1>2, <1>3, <1>4, <1>5, <1>6, <1>7 DEF preGotoNextPage, Callback

\* Every step keeps the types.
LEMMA TypeStep == TypeOK /\ [Next]_vars => TypeOK'
<1>1. TypeOK /\ UNCHANGED vars => TypeOK'
  BY DEF vars, TypeOK
<1> QED
  BY <1>1, OperatorTyped, JobTyped DEF Next, Ended

\* Type correctness: VLAN and MTU stay in range and addresses well formed.
THEOREM NetworkTypeCorrect == Spec => []TypeOK
BY InitTyped, TypeStep, PTL DEF Spec

-----------------------------------------------------------------------------
(* What an orderly page leaves behind *)

Busy(j) == job[j].pc # "idle"
Complete(n) == n.ip # Blank /\ n.mask = Valid /\ n.gateway = Valid
Agree == /\ config.nics = mgmt.nics /\ config.vlan = mgmt.vlan /\ config.method = mgmt.method
         /\ config.nics # {}
Usable == inForce /\ Agree /\ (config.method = "static" => Complete(config))
Emptied == mgmt.method = "dhcp" => mgmt.ip = Blank /\ mgmt.gateway = Blank /\ mgmt.mtu = 0

\* What has been entered when a panel is reached: nobody skips a panel before it.
Entered(p, n) ==
  /\ p \in Panels \ {"askInterface"} => n.nics # {}
  /\ p \in {"address", "addrMask", "gateway", "mtu"} => n.method = "static"
  /\ p \in {"addrMask", "gateway", "mtu"} => n.ip # Blank
  /\ p \in {"gateway", "mtu"} => n.mask = Valid
  /\ p = "mtu" => n.gateway = Valid

\* A goroutine works for the network that is on the page and, once that is
\* applied, in the configuration.
JobInv(j) ==
  /\ mgmt.nics # {}
  /\ job[j].from = "mtu" => mgmt.method = "static" /\ Complete(mgmt)
  /\ job[j].from = "askNetworkMethod" => mgmt.method = "dhcp"
  /\ job[j].pc = "applying" => job[j].net = mgmt
  /\ job[j].pc \in {"dhcp", "route", "done"} => Usable
  /\ job[j].pc = "dhcp" => mgmt.method = "dhcp"
  /\ job[j].pc \in {"route", "done"} => Emptied

\* One goroutine at a time, and none behind the page.
Alone == /\ \A i, j \in Jobs : Busy(i) /\ Busy(j) => i = j
         /\ panel = After => \A j \in Jobs : ~Busy(j)

OrderlyInv == /\ Alone /\ Entered(panel, mgmt)
              /\ \A j \in Jobs : Busy(j) => JobInv(j)
              /\ panel = After => Usable /\ Emptied

\* The inductive invariant: no key was pressed while a goroutine was running.
FlowInv == Orderly => OrderlyInv

\* It holds on the empty page.
LEMMA InitFlow == Init => FlowInv
BY DEF Init, FlowInv, OrderlyInv, Alone, Entered, Busy, NoJob

\* In an orderly run a key is pressed when no goroutine runs.
LEMMA OrderlyKey ==
  ASSUME TypeOK, FlowInv, NEW p, Key(p), Orderly'
  PROVE  /\ Orderly /\ panel = p /\ (\A j \in Jobs : ~Busy(j))
         /\ OrderlyInv /\ UNCHANGED <<config, inForce>>
<1>0. hasty \in 0..MaxHasty
  BY DEF TypeOK
<1>1. hasty \in Nat
  BY <1>0, MaxHastyAssumption
<1> QED
  BY <1>1 DEF Key, Orderly, Running, Busy, FlowInv

\* A panel that is left with what the next one needs.
LEMMA EntryFlow ==
  ASSUME TypeOK, FlowInv, NEW p \in Panels, NEW refused, NEW value, NEW to \in Panels,
         Entry(p, refused, value, to),
         ~refused /\ Entered(p, mgmt) => Entered(to, value)
  PROVE  FlowInv'
<1> SUFFICES ASSUME Orderly' PROVE OrderlyInv'
  BY DEF FlowInv
<1>1. panel = p /\ (\A j \in Jobs : ~Busy(j)) /\ Entered(p, mgmt)
  BY OrderlyKey DEF Entry, OrderlyInv
<1>2. job' = job
  BY DEF Entry, Goto, updateValidatorMessage
<1>3. Entered(panel', mgmt') /\ panel' # After
  <2>1. CASE refused
    BY <1>1, <2>1 DEF Entry, updateValidatorMessage
  <2>2. CASE ~refused
    BY <1>1, <2>2 DEF Entry, Goto
  <2> QED
    BY <2>1, <2>2
<1> QED
  BY <1>1, <1>2, <1>3 DEF OrderlyInv, Alone, Busy

\* The only goroutine is started with the network of the page.
LEMMA StartFlow ==
  ASSUME TypeOK, TypeOK', NEW from \in {"askNetworkMethod", "mtu"}, gotoNextPage(from),
         \A j \in Jobs : ~Busy(j), Entered(from, mgmt'),
         from = "askNetworkMethod" => mgmt'.method = "dhcp"
  PROVE  OrderlyInv'
<1>1. PICK k \in Jobs : job' = [job EXCEPT ![k] = [NoJob EXCEPT !.pc = "begun", !.from = from]]
  BY DEF gotoNextPage
<1>2. /\ \A j \in Jobs : j # k => job'[j] = job[j]
      /\ job'[k].pc = "begun" /\ job'[k].from = from
  BY <1>1 DEF TypeOK, NoJob
<1>3. panel' \in {Spinner, from}
  BY DEF gotoNextPage
<1>4. Alone'
  BY <1>2, <1>3 DEF Alone, Busy
<1>5. Entered(panel', mgmt') /\ panel' # After
  BY <1>3 DEF Entered
<1>6. \A j \in Jobs : Busy(j)' => JobInv(j)'
  <2>1. \A j \in Jobs : Busy(j)' => j = k
    BY <1>2 DEF Busy
  <2>2. mgmt'.nics # {} /\ (from = "mtu" => mgmt'.method = "static" /\ Complete(mgmt'))
    BY DEF Entered, Complete
  <2>3. JobInv(k)'
    BY <1>2, <2>2 DEF JobInv, Complete
  <2> QED
    BY <2>1, <2>3
<1> QED
  BY <1>4, <1>5, <1>6 DEF OrderlyInv

\* The operator's actions.
LEMMA OperatorFlow == TypeOK /\ TypeOK' /\ FlowInv /\ Operator => FlowInv'
<1> SUFFICES ASSUME TypeOK, TypeOK', FlowInv, Operator PROVE FlowInv'
  OBVIOUS
<1>0. mgmt \in Network
  BY DEF TypeOK
<1>1. CASE InterfaceConfirm
  <2>1. \A nics \in NICChoices, down \in BOOLEAN :
          ~(nics = {} \/ down) => Entered("askVlanID", [mgmt EXCEPT !.nics = nics])
    BY <1>0, NetworkFields DEF Entered
  <2> QED
    BY <1>1, <2>1, EntryFlow DEF InterfaceConfirm
<1>2. CASE VlanConfirm
  <2>1. PICK v \in VlanInputs, to \in {"askInterface", "askBondMode"} :
          Entry("askVlanID", v < 0 \/ v > 4094, [mgmt EXCEPT !.vlan = v], to)
    BY <1>2 DEF VlanConfirm
  <2> DEFINE refused == v < 0 \/ v > 4094
  <2>2. Entered("askVlanID", mgmt) => Entered(to, [mgmt EXCEPT !.vlan = v])
    BY <1>0, NetworkFields DEF Entered
  <2>3. Entry("askVlanID", refused, [mgmt EXCEPT !.vlan = v], to)
    BY <2>1
  <2> HIDE DEF refused
  <2> QED
    BY <2>2, <2>3, EntryFlow
<1>3. CASE BondConfirm \/ MethodUp \/ Move("address", "askNetworkMethod") \/ Move("addrMask", "address")
  <2>1. \A p, to \in Panels :
          <<p, to>> \in {<<"askBondMode", "askVlanID">>, <<"askBondMode", "askNetworkMethod">>,
                         <<"askNetworkMethod", "askBondMode">>, <<"address", "askNetworkMethod">>,
                         <<"addrMask", "address">>}
            => (Entered(p, mgmt) => Entered(to, mgmt))
    BY DEF Entered
  <2> QED
    BY <1>3, <2>1, EntryFlow DEF BondConfirm, MethodUp, Move
<1>4. CASE AddressConfirm
  <2>1. PICK a \in AddressInputs :
          Entry("address", ~ValidAddress(a),
                [mgmt EXCEPT !.ip = IF a = CIDR THEN Valid ELSE a,
                             !.mask = IF a = CIDR THEN Valid ELSE @], "addrMask")
    BY <1>4 DEF AddressConfirm
  <2>2. ValidAddress(a) /\ Entered("address", mgmt)
          => Entered("addrMask", [mgmt EXCEPT !.ip = IF a = CIDR THEN Valid ELSE a,
                                              !.mask = IF a = CIDR THEN Valid ELSE @])
    BY <1>0, NetworkFields DEF Entered, ValidAddress
  <2> QED
    BY <2>1, <2>2, EntryFlow
<1>5. CASE MaskConfirm
  <2>1. Entered("addrMask", mgmt) => Entered("gateway", [mgmt EXCEPT !.mask = Valid])
    BY <1>0, NetworkFields DEF Entered
  <2> QED
    BY <1>5, <2>1, EntryFlow DEF MaskConfirm
<1>6. CASE GatewayConfirm
  <2>1. Entered("gateway", mgmt) => Entered("mtu", [mgmt EXCEPT !.gateway = Valid])
    BY <1>0, NetworkFields DEF Entered
  <2> QED
    BY <1>6, <2>1, EntryFlow DEF GatewayConfirm
<1>7. CASE GatewayUp
  <2>1. \A g \in GatewayInputs :
          Entered("gateway", mgmt) => Entered("addrMask", [mgmt EXCEPT !.gateway = g])
    BY <1>0, NetworkFields DEF Entered
  <2> QED
    BY <1>7, <2>1, EntryFlow DEF GatewayUp
<1>8. CASE MTUUp
  <2>1. \A m \in MTUInputs : Entered("mtu", mgmt) => Entered("gateway", [mgmt EXCEPT !.mtu = m])
    BY <1>0, NetworkFields DEF Entered
  <2> QED
    BY <1>8, <2>1, EntryFlow DEF MTUUp
<1>9. CASE MethodConfirm
  <2> SUFFICES ASSUME Orderly' PROVE OrderlyInv'
    BY DEF FlowInv
  <2>0. (\A j \in Jobs : ~Busy(j)) /\ OrderlyInv /\ panel = "askNetworkMethod"
    BY <1>9, OrderlyKey DEF MethodConfirm
  <2>1. (\A j \in Jobs : ~Busy(j)) /\ mgmt.nics # {}
    BY <2>0 DEF OrderlyInv, Entered
  <2>2. CASE mgmt' = [mgmt EXCEPT !.method = "dhcp"] /\ gotoNextPage("askNetworkMethod")
    <3>1. Entered("askNetworkMethod", mgmt') /\ mgmt'.method = "dhcp"
      BY <1>0, <2>1, <2>2, NetworkFields DEF Entered
    <3> QED
      BY <2>1, <2>2, <3>1, StartFlow
  <2>3. CASE mgmt' = [mgmt EXCEPT !.method = "static"] /\ panel' = "address"
             /\ UNCHANGED <<view, takes, job, excuse>>
    <3>1. Entered("address", mgmt')
      BY <1>0, <2>1, <2>3, NetworkFields DEF Entered
    <3> QED
      BY <2>1, <2>3, <3>1 DEF OrderlyInv, Alone, Busy
  <2> QED
    BY <1>9, <2>2, <2>3 DEF MethodConfirm
<1>10. CASE MTUConfirm
  <2> SUFFICES ASSUME Orderly' PROVE OrderlyInv'
    BY DEF FlowInv
  <2>1. (\A j \in Jobs : ~Busy(j)) /\ Entered("mtu", mgmt) /\ OrderlyInv /\ panel = "mtu"
    BY <1>10, OrderlyKey DEF MTUConfirm, OrderlyInv
  <2>2. PICK m \in MTUInputs :
          \/ ~checkMTU(m) /\ updateValidatorMessage /\ UNCHANGED mgmt
          \/ checkMTU(m) /\ mgmt' = [mgmt EXCEPT !.mtu = m] /\ gotoNextPage("mtu")
    BY <1>10 DEF MTUConfirm
  <2>3. CASE updateValidatorMessage /\ UNCHANGED mgmt
    BY <2>1, <2>3 DEF updateValidatorMessage, OrderlyInv, Alone, Busy
  <2>4. CASE mgmt' = [mgmt EXCEPT !.mtu = m] /\ gotoNextPage("mtu")
    <3>1. Entered("mtu", mgmt')
      BY <1>0, <2>1, <2>4, NetworkFields DEF Entered
    <3> QED
      BY <2>1, <2>4, <3>1, StartFlow
  <2> QED
    BY <2>2, <2>3, <2>4
<1>11. CASE gotoPrevPage \/ showNetworkPage
  <2> SUFFICES ASSUME Orderly' PROVE OrderlyInv'
    BY DEF FlowInv
  <2>1. \A j \in Jobs : ~Busy(j)
    BY <1>11, OrderlyKey DEF gotoPrevPage, showNetworkPage
  <2>2. job' = job /\ panel' \in {Before, "askInterface"}
    BY <1>11 DEF gotoPrevPage, showNetworkPage
  <2> QED
    BY <2>1, <2>2 DEF OrderlyInv, Alone, Busy, Entered
<1>12. CASE InterfaceLost
  <2>1. (\A j \in Jobs : ~Busy(j)') /\ panel' = Exited
    BY <1>12 DEF InterfaceLost, Busy, NoJob
  <2> QED
    BY <2>1 DEF FlowInv, OrderlyInv, Alone, Entered
<1> QED
  BY <1>1, <1>2, <1>3, <1>4, <1>5, <1>6, <1>7, <1>8, <1>9, <1>10, <1>11, <1>12
  DEF Operator, StaticUp

\* The steps of a goroutine: it is the only one, and the panel is not one that the
\* step can leave behind.
LEMMA JobMoves ==
  ASSUME TypeOK, NEW j \in Jobs, NEW pc, Continue(j, pc)
  PROVE  /\ \A i \in Jobs : i # j => job'[i] = job[i]
         /\ job'[j].pc = pc /\ job'[j].from = job[j].from
BY DEF TypeOK, Continue

LEMMA AloneStep ==
  ASSUME OrderlyInv, NEW j \in Jobs, Busy(j), \A i \in Jobs : i # j => job'[i] = job[i],
         panel' = panel
  PROVE  /\ Alone' /\ panel # After
         /\ \A i \in Jobs : Busy(i)' => i = j
BY DEF OrderlyInv, Alone, Busy

LEMMA JobFlow ==
  ASSUME TypeOK, TypeOK', OrderlyInv, NEW j \in Jobs,
         SpinnerWrite(j) \/ preGotoNextPage(j) \/ Callback(j)
  PROVE  OrderlyInv'
<1>1. CASE SpinnerWrite(j)
  BY <1>1 DEF SpinnerWrite, OrderlyInv, Alone, Busy, Entered, JobInv, Usable, Agree, Emptied
<1>2. CASE setupNetwork(j)
  <2>1. /\ \A i \in Jobs : i # j => job'[i] = job[i]
        /\ job'[j].pc = "applying" /\ job'[j].from = job[j].from /\ job'[j].net = mgmt
    BY <1>2 DEF setupNetwork, TypeOK
  <2>2. Busy(j) /\ UNCHANGED <<panel, mgmt, config>> /\ JobInv(j)
    BY <1>2 DEF setupNetwork, At, Busy, OrderlyInv
  <2>3. JobInv(j)'
    BY <2>1, <2>2 DEF JobInv
  <2> QED
    BY <2>1, <2>2, <2>3, AloneStep DEF OrderlyInv
<1>3. CASE NetworkApplied(j)
  <2>0. Busy(j) /\ JobInv(j) /\ job[j].net = mgmt /\ UNCHANGED <<panel, mgmt>>
    BY <1>3 DEF NetworkApplied, At, Busy, OrderlyInv, JobInv
  <2> DEFINE pc == IF mgmt.method = "dhcp" THEN "dhcp" ELSE "route"
  <2>1. /\ \A i \in Jobs : i # j => job'[i] = job[i]
        /\ job'[j].pc = pc /\ job'[j].from = job[j].from
    BY <1>3, JobMoves DEF NetworkApplied
  <2>2. inForce' /\ config' = mgmt
    BY <1>3, <2>0 DEF NetworkApplied
  <2>3. mgmt.nics # {} /\ (mgmt.method = "static" => Complete(mgmt))
    BY <2>0 DEF JobInv, TypeOK
  <2>4. Usable'
    BY <2>0, <2>2, <2>3 DEF Usable, Agree, Complete
  <2>5. JobInv(j)'
    BY <2>0, <2>1, <2>4 DEF JobInv, Emptied, Complete
  <2> QED
    BY <2>0, <2>1, <2>5, AloneStep DEF OrderlyInv
<1>4. CASE DHCPAnswered(j)
  <2>0. Busy(j) /\ JobInv(j) /\ mgmt.method = "dhcp" /\ UNCHANGED <<panel, config, inForce>> /\ Usable
    BY <1>4 DEF DHCPAnswered, At, Busy, OrderlyInv, JobInv
  <2>1. /\ \A i \in Jobs : i # j => job'[i] = job[i]
        /\ job'[j].pc = "route" /\ job'[j].from = job[j].from
    BY <1>4, JobMoves DEF DHCPAnswered
  <2>2. /\ mgmt'.nics = mgmt.nics /\ mgmt'.vlan = mgmt.vlan /\ mgmt'.method = mgmt.method
        /\ mgmt'.ip = Blank /\ mgmt'.gateway = Blank /\ mgmt'.mtu = 0
    <3>1. mgmt \in Network
      BY DEF TypeOK
    <3> QED
      BY <1>4, <3>1, NetworkFields DEF DHCPAnswered
  <2>3. Usable' /\ Emptied'
    BY <2>0, <2>2 DEF Usable, Agree, Emptied, Complete
  <2>4. JobInv(j)'
    BY <2>0, <2>1, <2>2, <2>3 DEF JobInv
  <2>5. Entered(panel, mgmt)'
    BY <2>0, <2>2 DEF OrderlyInv, Entered
  <2> QED
    BY <2>0, <2>1, <2>4, <2>5, AloneStep DEF OrderlyInv
<1>5. CASE RouteChecked(j) \/ TaskFails(j)
  <2>0. Busy(j) /\ JobInv(j) /\ UNCHANGED <<panel, mgmt, config, inForce>>
    BY <1>5 DEF RouteChecked, TaskFails, At, Busy, OrderlyInv
  <2>1. PICK pc \in {"failed", "done"} : Continue(j, pc) /\ (pc = "done" => job[j].pc = "route")
    BY <1>5 DEF RouteChecked, TaskFails, At
  <2>2. /\ \A i \in Jobs : i # j => job'[i] = job[i]
        /\ job'[j].pc = pc /\ job'[j].from = job[j].from
    BY <2>1, JobMoves
  <2>3. JobInv(j)'
    BY <2>0, <2>1, <2>2 DEF JobInv, Usable, Agree, Emptied, Complete
  <2> QED
    BY <2>0, <2>2, <2>3, AloneStep DEF OrderlyInv
<1>6. CASE TaskFailed(j)
  <2>0. Busy(j) /\ JobInv(j) /\ UNCHANGED <<mgmt, config, inForce>> /\ panel' = job[j].from
    BY <1>6 DEF TaskFailed, At, Busy, OrderlyInv
  <2>1. /\ \A i \in Jobs : i # j => job'[i] = job[i]
        /\ job'[j].pc = "idle"
    BY <1>6 DEF TaskFailed, TypeOK, NoJob
  <2>2. \A i \in Jobs : ~Busy(i)'
    BY <2>0, <2>1 DEF OrderlyInv, Alone, Busy
  <2>3. job[j].from \in {"askNetworkMethod", "mtu"}
    BY DEF TypeOK
  <2>4. Entered(panel, mgmt)' /\ panel' # After
    BY <2>0, <2>3 DEF JobInv, Entered, Complete
  <2> QED
    BY <2>2, <2>4 DEF OrderlyInv, Alone
<1>7. CASE TaskDone(j)
  <2>0. Busy(j) /\ Usable /\ Emptied /\ UNCHANGED <<mgmt, config, inForce>> /\ panel' = After
    BY <1>7 DEF TaskDone, At, Busy, OrderlyInv, JobInv
  <2>1. /\ \A i \in Jobs : i # j => job'[i] = job[i]
        /\ job'[j].pc = "idle"
    BY <1>7 DEF TaskDone, TypeOK, NoJob
  <2>2. \A i \in Jobs : ~Busy(i)'
    BY <2>0, <2>1 DEF OrderlyInv, Alone, Busy
  <2>3. Usable' /\ Emptied' /\ Entered(panel, mgmt)'
    BY <2>0 DEF Usable, Agree, Emptied, Entered, Complete
  <2> QED
    BY <2>2, <2>3 DEF OrderlyInv, Alone
<1> QED
  BY <1>1, <1>2, <1>3, <1>4, <1>5, <1>6, <1>7 DEF preGotoNextPage, Callback

\* Every step keeps the invariant; goroutines press no keys.
LEMMA FlowStep == TypeOK /\ TypeOK' /\ FlowInv /\ [Next]_vars => FlowInv'
<1> SUFFICES ASSUME TypeOK, TypeOK', FlowInv, [Next]_vars PROVE FlowInv'
  OBVIOUS
<1>1. CASE Operator
  BY <1>1, OperatorFlow
<1>2. ASSUME NEW j \in Jobs, SpinnerWrite(j) \/ preGotoNextPage(j) \/ Callback(j) PROVE FlowInv'
  <2>1. hasty' = hasty
    BY <1>2 DEF SpinnerWrite, preGotoNextPage, Callback, setupNetwork, NetworkApplied,
                DHCPAnswered, RouteChecked, TaskFails, TaskFailed, TaskDone
  <2> QED
    BY <1>2, <2>1, JobFlow DEF FlowInv, Orderly
<1>3. CASE UNCHANGED vars
  BY <1>3 DEF vars, FlowInv, Orderly, OrderlyInv, Alone, Busy, Entered, JobInv, Usable, Agree,
              Emptied, Complete
<1> QED
  BY <1>1, <1>2, <1>3 DEF Next, Ended

LEMMA FlowHolds == Spec => []FlowInv
BY InitTyped, TypeStep, InitFlow, FlowStep, PTL DEF Spec

\* The page is left forward only with a configuration that is in force and on which
\* both copies of the network agree.
THEOREM PageLeavesAsApplied == Spec => []LeavesAsApplied
<1>1. FlowInv => LeavesAsApplied
  BY DEF FlowInv, OrderlyInv, Usable, Agree, LeavesAsApplied
<1> QED
  BY <1>1, FlowHolds, PTL

\* A static network is complete behind the page.
THEOREM StaticAlwaysComplete == Spec => []StaticIsComplete
<1>1. FlowInv => StaticIsComplete
  BY DEF FlowInv, OrderlyInv, Usable, Complete, StaticIsComplete
<1> QED
  BY <1>1, FlowHolds, PTL

\* Nothing typed for a static network remains behind the page with DHCP.
THEOREM DHCPAlwaysForgets == Spec => []DHCPForgetsStatic
<1>1. FlowInv => DHCPForgetsStatic
  BY DEF FlowInv, OrderlyInv, Emptied, DHCPForgetsStatic
<1> QED
  BY <1>1, FlowHolds, PTL

-----------------------------------------------------------------------------
(* The first attempt *)

Working == \E j \in Jobs : Busy(j)

\* Until a message was shown the spinner's panel may take the keyboard, does not
\* exist on the page, and has the keyboard as long as the goroutine works.
AttemptInv ==
  ~excuse => /\ Orderly /\ takes
             /\ Working => panel = Spinner
             /\ ~Working => ~view

LEMMA InitAttempt == Init => AttemptInv
BY DEF Init, AttemptInv, Orderly, Working, Busy, NoJob

\* Keys reach the page only when no goroutine works.
LEMMA AttemptKey ==
  ASSUME AttemptInv, ~excuse, NEW p, p # Spinner, Key(p)
  PROVE  ~Working /\ ~view /\ takes /\ Orderly'
BY DEF AttemptInv, Key, Orderly, Working, Busy, Running

LEMMA EntryAttempt ==
  ASSUME AttemptInv, NEW p \in Panels, NEW refused, NEW value, NEW to,
         Entry(p, refused, value, to)
  PROVE  AttemptInv'
<1> SUFFICES ASSUME ~excuse' PROVE AttemptInv'
  BY DEF AttemptInv
<1>1. ~refused /\ Goto(to)
  BY DEF Entry, updateValidatorMessage
<1>2. ~excuse
  BY <1>1 DEF Goto
<1>3. ~Working /\ takes /\ Orderly'
  BY <1>2, AttemptKey DEF Entry
<1> QED
  BY <1>1, <1>3 DEF Goto, AttemptInv, Working, Busy

\* The goroutine starts with the keyboard on the spinner's panel.
LEMMA StartAttempt ==
  ASSUME TypeOK, ~view, takes, Orderly', NEW from, gotoNextPage(from)
  PROVE  AttemptInv'
<1>1. PICK k \in Jobs : job' = [job EXCEPT ![k] = [NoJob EXCEPT !.pc = "begun", !.from = from]]
  BY DEF gotoNextPage
<1>2. job'[k].pc = "begun"
  BY <1>1 DEF TypeOK, NoJob
<1>3. Working'
  BY <1>2 DEF Working, Busy
<1> QED
  BY <1>3 DEF gotoNextPage, AttemptInv

LEMMA OperatorAttempt == TypeOK /\ AttemptInv /\ Operator => AttemptInv'
<1> SUFFICES ASSUME TypeOK, AttemptInv, Operator, ~excuse' PROVE AttemptInv'
  BY DEF AttemptInv
<1>1. CASE \E p \in Panels : \E refused, value, to : Entry(p, refused, value, to)
  BY <1>1, EntryAttempt
<1>2. CASE MethodConfirm
  <2>1. ~excuse
    BY <1>2 DEF MethodConfirm, gotoNextPage
  <2>2. ~Working /\ ~view /\ takes /\ Orderly'
    BY <1>2, <2>1, AttemptKey DEF MethodConfirm
  <2>3. CASE gotoNextPage("askNetworkMethod")
    BY <2>2, <2>3, StartAttempt
  <2>4. CASE UNCHANGED <<view, takes, job, excuse>>
    BY <2>2, <2>4 DEF AttemptInv, Working, Busy
  <2> QED
    BY <1>2, <2>3, <2>4 DEF MethodConfirm
<1>3. CASE MTUConfirm
  <2>1. gotoNextPage("mtu")
    BY <1>3 DEF MTUConfirm, updateValidatorMessage
  <2>2. ~excuse
    BY <2>1 DEF gotoNextPage
  <2>3. ~view /\ takes /\ Orderly'
    BY <1>3, <2>2, AttemptKey DEF MTUConfirm
  <2> QED
    BY <2>1, <2>3, StartAttempt
<1>4. CASE gotoPrevPage \/ showNetworkPage
  <2>0. UNCHANGED <<takes, job, excuse>>
    BY <1>4 DEF gotoPrevPage, showNetworkPage
  <2>1. ~excuse /\ UNCHANGED <<takes, job>>
    BY <2>0
  <2>2. ~Working /\ ~view /\ takes /\ Orderly'
    BY <1>4, <2>1, AttemptKey DEF gotoPrevPage, showNetworkPage
  <2>3. ~view'
    BY <1>4, <2>2 DEF gotoPrevPage, showNetworkPage
  <2> QED
    BY <2>1, <2>2, <2>3 DEF AttemptInv, Working, Busy
<1>6. CASE InterfaceLost
  <2>1. ~excuse
    BY <1>6 DEF InterfaceLost
  <2>2. takes /\ Orderly'
    BY <1>6, <2>1, AttemptKey DEF InterfaceLost
  <2>3. ~Working' /\ ~view' /\ takes'
    BY <1>6, <2>2 DEF InterfaceLost, Working, Busy, NoJob
  <2> QED
    BY <2>2, <2>3 DEF AttemptInv
<1>5. Operator => MethodConfirm \/ MTUConfirm \/ gotoPrevPage \/ showNetworkPage \/ InterfaceLost
                   \/ \E p \in Panels : \E refused, value, to : Entry(p, refused, value, to)
  <2>1. /\ InterfaceConfirm => \E r, v, to : Entry("askInterface", r, v, to)
        /\ BondConfirm => \E r, v, to : Entry("askBondMode", r, v, to)
    BY Zenon DEF InterfaceConfirm, BondConfirm, Move
  <2>4. VlanConfirm => \E r, v, to : Entry("askVlanID", r, v, to)
    BY DEF VlanConfirm
  <2>2. /\ MethodUp => \E r, v, to : Entry("askNetworkMethod", r, v, to)
        /\ AddressConfirm => \E r, v, to : Entry("address", r, v, to)
        /\ MaskConfirm => \E r, v, to : Entry("addrMask", r, v, to)
        /\ GatewayConfirm => \E r, v, to : Entry("gateway", r, v, to)
    BY Zenon DEF MethodUp, AddressConfirm, MaskConfirm, GatewayConfirm, Move
  <2>3. StaticUp => \E p \in Panels : \E r, v, to : Entry(p, r, v, to)
    <3>1. /\ Move("address", "askNetworkMethod") => \E r, v, to : Entry("address", r, v, to)
          /\ Move("addrMask", "address") => \E r, v, to : Entry("addrMask", r, v, to)
          /\ GatewayUp => \E r, v, to : Entry("gateway", r, v, to)
          /\ MTUUp => \E r, v, to : Entry("mtu", r, v, to)
      BY Zenon DEF Move, GatewayUp, MTUUp
    <3> QED
      BY <3>1 DEF StaticUp
  <2> QED
    BY <2>1, <2>2, <2>3, <2>4 DEF Operator
<1> QED
  BY <1>1, <1>2, <1>3, <1>4, <1>5, <1>6

\* A goroutine that ends was the only one; one that fails shows a message.
LEMMA JobAttempt ==
  ASSUME TypeOK, FlowInv, AttemptInv, NEW j \in Jobs,
         SpinnerWrite(j) \/ preGotoNextPage(j) \/ Callback(j)
  PROVE  AttemptInv'
<1> SUFFICES ASSUME ~excuse' PROVE AttemptInv'
  BY DEF AttemptInv
<1>1. ~TaskFailed(j)
  BY DEF TaskFailed
<1>2. CASE SpinnerWrite(j)
  <2>1. Busy(j)
    BY <1>2 DEF SpinnerWrite, Running, Busy
  <2> QED
    BY <1>2, <2>1 DEF SpinnerWrite, AttemptInv, Orderly, Working, Busy
<1>3. CASE TaskDone(j)
  <2>1. Busy(j) /\ ~excuse /\ UNCHANGED <<takes, hasty>> /\ ~view'
    BY <1>3 DEF TaskDone, At, Busy
  <2>2. \A i \in Jobs : Busy(i) => i = j
    BY <2>1 DEF AttemptInv, FlowInv, OrderlyInv, Alone
  <2>3. job' = [job EXCEPT ![j] = NoJob] /\ NoJob.pc = "idle"
    BY <1>3 DEF TaskDone, NoJob
  <2>4. ~Working'
    BY <2>2, <2>3 DEF Working, Busy, TypeOK
  <2> QED
    BY <2>1, <2>4 DEF AttemptInv, Orderly
<1>4. CASE preGotoNextPage(j)
  <2>1. Busy(j) /\ UNCHANGED <<panel, view, takes, hasty, excuse>>
    BY <1>4 DEF preGotoNextPage, setupNetwork, NetworkApplied, DHCPAnswered, RouteChecked,
                TaskFails, At, Busy
  <2>2. job'[j].pc # "idle"
    <3>1. CASE setupNetwork(j)
      BY <3>1 DEF setupNetwork, TypeOK
    <3>2. CASE \E pc \in {"dhcp", "route", "failed", "done"} : Continue(j, pc)
      BY <3>2, JobMoves
    <3> QED
      BY <1>4, <3>1, <3>2 DEF preGotoNextPage, NetworkApplied, DHCPAnswered, RouteChecked, TaskFails
  <2> QED
    BY <2>1, <2>2 DEF AttemptInv, Orderly, Working, Busy
<1> QED
  BY <1>1, <1>2, <1>3, <1>4 DEF Callback

LEMMA AttemptStep == TypeOK /\ FlowInv /\ AttemptInv /\ [Next]_vars => AttemptInv'
<1>1. AttemptInv /\ UNCHANGED vars => AttemptInv'
  BY DEF vars, AttemptInv, Orderly, Working, Busy
<1> QED
  BY <1>1, OperatorAttempt, JobAttempt DEF Next, Ended

\* The network can be edited, or the page left, under a goroutine only after a
\* message or a failure was shown.
THEOREM FirstAttemptIsSafe == Spec => []FirstAttemptLocks
<1>1. AttemptInv => FirstAttemptLocks
  BY DEF AttemptInv, Orderly, FirstAttemptLocks
<1> QED
  BY <1>1, InitTyped, TypeStep, FlowHolds, InitAttempt, AttemptStep, PTL DEF Spec
=============================================================================
