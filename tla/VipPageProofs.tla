---------------------------- MODULE VipPageProofs ----------------------------
(***************************************************************************)
(* VipPage keeps its types, and what the page leaves behind is what the    *)
(* user confirmed: for any number of requests in flight, any leases and    *)
(* any typed addresses.                                                    *)
(***************************************************************************)
EXTENDS VipPage, TLAPS

-----------------------------------------------------------------------------
(* Types *)

States == {"idle", "running", "failed", "vipWritten", "modeWritten", "answered"}
RequestType == [state : States, lease : Leases \cup {NoLease}]
Vips == VipInputs \cup {l.vip : l \in Leases} \cup {Blank}
Modes == {Blank, "dhcp", "static"}
HwAddrs == {l.hwAddr : l \in Leases} \cup {Blank}
ConfigType == [vip : Vips, mode : Modes, hwAddr : HwAddrs]

\* The goroutine has written to the configuration and its callback has not run.
Late(i) == request[i].state \in {"vipWritten", "modeWritten", "answered"}

\* A goroutine that writes has got a lease.
Leased == \A i \in Slots : Late(i) => request[i].lease \in Leases

\* The parts of a lease have the types of the fields they are written to.
LEMMA LeaseParts ==
  ASSUME NEW l \in Leases
  PROVE  l.vip \in Vips /\ l.hwAddr \in HwAddrs
BY DEF Vips, HwAddrs

\* The inductive form of the type invariant.
Typed == TypeOK /\ Leased

LEMMA InitTyped == Init => Typed
<1> SUFFICES ASSUME Init PROVE Typed
  OBVIOUS
<1>1. \A i \in Slots : request[i] = Idle
  BY DEF Init
<1>2. Idle \in RequestType /\ Idle.state = "idle"
  BY DEF Idle, RequestType, States
<1>3. request \in [Slots -> RequestType]
  BY <1>2 DEF Init
<1>4. Leased
  BY <1>1, <1>2 DEF Leased, Late
<1>5. TypeOK
  BY <1>3 DEF Init, TypeOK, RequestType, States, Inputs
<1> QED
  BY <1>4, <1>5 DEF Typed

\* The keys change panels, and start a request without touching its lease.
LEMMA KeysTyped ==
  ASSUME Typed,
         \/ Show \/ Esc \/ GotoAskVipMethodPanel \/ GotoVipParentPanel
         \/ \E m \in {"dhcp", "static"} : ConfirmAskVipMethod(m)
  PROVE  Typed'
<1>1. UNCHANGED <<request, cfg, confirmed, raced>>
  BY DEF Show, Esc, GotoAskVipMethodPanel, GotoVipParentPanel, ConfirmAskVipMethod
<1>2. /\ panel' \in Inputs \cup {"dns", "token", "exited"}
      /\ open' \in SUBSET Inputs /\ method' \in {"dhcp", "static"}
  BY DEF Typed, TypeOK, Show, Esc, GotoAskVipMethodPanel, GotoVipParentPanel,
         ConfirmAskVipMethod, Focus, ParentPanel, Inputs
<1> QED
  BY <1>1, <1>2 DEF Typed, TypeOK, Leased, Late

LEMMA GotoVipPanelTyped ==
  ASSUME Typed, NEW i \in Slots, GotoVipPanel(i)
  PROVE  Typed'
<1>1. /\ panel' = "vip" /\ open' = open \cup {"vip"}
      /\ UNCHANGED <<method, confirmed, raced>>
  BY DEF GotoVipPanel, Focus
<1>2. CASE method = "dhcp"
  <2>1. request' = [request EXCEPT ![i].state = "running"] /\ cfg' = cfg
    BY <1>2 DEF GotoVipPanel
  <2> QED
    BY <1>1, <2>1 DEF Typed, TypeOK, Leased, Late, Inputs
<1>3. CASE method # "dhcp"
  <2>1. request' = request /\ cfg' = [cfg EXCEPT !.mode = "static"]
    BY <1>3 DEF GotoVipPanel
  <2> QED
    BY <1>1, <2>1 DEF Typed, TypeOK, Leased, Late, Inputs
<1> QED
  BY <1>2, <1>3

LEMMA GotoVerifyIPTyped ==
  ASSUME Typed, NEW v \in VipInputs, GotoVerifyIP(v)
  PROVE  Typed'
<1>1. /\ panel' = "token" /\ open' = {} /\ UNCHANGED <<method, request>>
      /\ raced' \in BOOLEAN
  BY DEF GotoVerifyIP, GotoNextPage, Typed, TypeOK
<1>2. PICK c \in ConfigType : GotoNextPage(c)
  BY DEF GotoVerifyIP, Typed, TypeOK, ConfigType, Vips, Modes, HwAddrs
<1> QED
  BY <1>1, <1>2 DEF Typed, TypeOK, Leased, Late, GotoNextPage, ConfigType, Vips, Modes,
                    HwAddrs, Inputs

\* The steps of a goroutine write one field of the configuration each.
LEMMA GoroutineTyped ==
  ASSUME Typed, NEW i \in Slots,
         \/ DHCPFails(i) \/ WriteMode(i) \/ WriteHwAddr(i)
         \/ \E l \in Leases : DHCPAnswers(i, l)
  PROVE  Typed'
<1>1. UNCHANGED <<panel, open, method, confirmed>> /\ raced' \in BOOLEAN
  BY DEF DHCPFails, WriteMode, WriteHwAddr, DHCPAnswers, Step, Typed, TypeOK
<1>2. CASE DHCPFails(i)
  BY <1>1, <1>2 DEF DHCPFails, Step, Typed, TypeOK, Leased, Late
<1>3. CASE WriteMode(i)
  BY <1>1, <1>3 DEF WriteMode, Step, RequestedMode, Typed, TypeOK, Leased, Late
<1>4. CASE WriteHwAddr(i)
  <2>1. request[i].lease.hwAddr \in HwAddrs
    BY <1>4, LeaseParts DEF WriteHwAddr, Step, Typed, Leased, Late
  <2> QED
    BY <1>1, <1>4, <2>1 DEF WriteHwAddr, Step, Typed, TypeOK, Leased, Late, HwAddrs
<1>5. CASE \E l \in Leases : DHCPAnswers(i, l)
  <2>1. PICK l \in Leases : DHCPAnswers(i, l)
    BY <1>5
  <2>2. l.vip \in Vips
    BY LeaseParts
  <2> QED
    BY <1>1, <2>1, <2>2 DEF DHCPAnswers, Typed, TypeOK, Leased, Late, Vips
<1> QED
  BY <1>2, <1>3, <1>4, <1>5

LEMMA CallbackTyped ==
  ASSUME Typed, NEW i \in Slots, FillInputs(i) \/ ShowMethodAgain(i)
  PROVE  Typed'
<1>1. request' = [request EXCEPT ![i] = Idle] /\ UNCHANGED <<method, cfg, confirmed, raced>>
  BY DEF FillInputs, ShowMethodAgain
<1>2. panel' \in Inputs \cup {"dns", "token", "exited"} /\ open' \in SUBSET Inputs
  BY DEF FillInputs, ShowMethodAgain, Focus, Typed, TypeOK, Inputs
<1> QED
  BY <1>1, <1>2 DEF Typed, TypeOK, Leased, Late, Idle

LEMMA TypeStep == Typed /\ [Next]_vars => Typed'
<1>1. Typed /\ UNCHANGED vars => Typed'
  BY DEF vars, Typed, TypeOK, Leased, Late
<1> QED
  BY <1>1, KeysTyped, GotoVipPanelTyped, GotoVerifyIPTyped, GoroutineTyped, CallbackTyped
     DEF Next, Ended

\* Type correctness: whoever writes a field of the configuration, user or goroutine,
\* leaves an address that was typed or leased, a known mode and a leased MAC.
THEOREM VipTypeCorrect == Spec => []TypeOK
<1>1. Typed => TypeOK
  BY DEF Typed
<1> QED
  BY <1>1, InitTyped, TypeStep, PTL DEF Spec

-----------------------------------------------------------------------------
(* What the page leaves behind *)

Writes(i) == request[i].state \in {"vipWritten", "modeWritten"}
Matched == [vip |-> cfg.vip, hwAddr |-> cfg.hwAddr] \in Leases

\* What was confirmed is in the configuration and was checked.
Kept ==
  /\ confirmed = [vip |-> cfg.vip, mode |-> cfg.mode]
  /\ cfg.mode # Blank
  /\ cfg.mode = "static" => cfg.vip \notin Malformed \cup {MgmtIP} /\ cfg.hwAddr = Blank
  /\ cfg.mode = "dhcp" /\ ~raced => Matched

\* Behind the page no panel of it is open, so that the callback of a request that
\* has written cannot pass unnoticed; without such a request all is as confirmed.
BehindInv ==
  panel = "token" => open = {} /\ ((\A i \in Slots : ~Late(i)) => Kept)

\* Without a race one request writes at a time, its address is still there, and the
\* three fields belong together when it is done.
LeaseInv ==
  ~raced => /\ \A i, j \in Slots : Writes(i) /\ Writes(j) => i = j
            /\ \A i \in Slots : Writes(i) => cfg.vip = request[i].lease.vip
            /\ (\A i \in Slots : ~Writes(i)) /\ cfg.mode = "dhcp" => Matched

IInv == BehindInv /\ LeaseInv

LEMMA InitInv == Init => IInv
<1> SUFFICES ASSUME Init PROVE IInv
  OBVIOUS
<1>1. \A i \in Slots : ~Writes(i)
  BY DEF Init, Writes, Idle
<1>2. panel # "token" /\ cfg.mode # "dhcp"
  BY DEF Init, Blank
<1> QED
  BY <1>1, <1>2 DEF IInv, BehindInv, LeaseInv

\* A key that writes nothing and does not lead behind the page.
LEMMA QuietKeyInv ==
  ASSUME IInv, UNCHANGED <<request, cfg, confirmed, raced>>, panel' # "token"
  PROVE  IInv'
BY DEF IInv, BehindInv, LeaseInv, Writes, Matched

LEMMA GotoVipPanelInv ==
  ASSUME Typed, IInv, NEW i \in Slots, GotoVipPanel(i)
  PROVE  IInv'
<1>1. panel' # "token" /\ raced' = raced
  BY DEF GotoVipPanel, Focus
<1>2. CASE method = "dhcp"
  <2>1. request[i] = Idle /\ request' = [request EXCEPT ![i].state = "running"] /\ cfg' = cfg
    BY <1>2 DEF GotoVipPanel
  <2>2. \A j \in Slots : /\ Writes(j)' <=> Writes(j)
                         /\ request'[j].lease = request[j].lease
    BY <2>1 DEF Writes, Idle, Typed, TypeOK
  <2> QED
    BY <1>1, <2>1, <2>2 DEF IInv, BehindInv, LeaseInv, Matched
<1>3. CASE method # "dhcp"
  <2>1. /\ request' = request
        /\ cfg'.mode = "static" /\ cfg'.vip = cfg.vip
    BY <1>3 DEF GotoVipPanel, Typed, TypeOK
  <2> QED
    BY <1>1, <2>1 DEF IInv, BehindInv, LeaseInv, Writes
<1> QED
  BY <1>2, <1>3

\* Confirming: with DHCP the address is the one DHCP gave, otherwise it is checked.
LEMMA GotoVerifyIPInv ==
  ASSUME Typed, IInv, NEW v \in VipInputs, GotoVerifyIP(v)
  PROVE  IInv'
<1>1. /\ panel' = "token" /\ open' = {} /\ request' = request
      /\ confirmed' = [vip |-> cfg'.vip, mode |-> cfg'.mode]
      /\ raced' = (raced \/ Writing # {})
  BY DEF GotoVerifyIP, GotoNextPage
<1>2. ~raced' => ~raced /\ \A i \in Slots : ~Writes(i)
  BY <1>1 DEF Writing, Writes, Typed, TypeOK
<1>3. CASE cfg.mode = "dhcp"
  <2>1. cfg' = cfg
    BY <1>3 DEF GotoVerifyIP, GotoNextPage
  <2> QED
    BY <1>1, <1>2, <1>3, <2>1 DEF IInv, BehindInv, LeaseInv, Kept, Matched, Writes, Blank
<1>4. CASE cfg.mode # "dhcp"
  <2>1. /\ v \notin Malformed /\ v # MgmtIP
        /\ cfg'.vip = v /\ cfg'.hwAddr = Blank /\ cfg'.mode = "static"
    BY <1>4 DEF GotoVerifyIP, GotoNextPage, Typed, TypeOK
  <2> QED
    BY <1>1, <1>2, <2>1 DEF IInv, BehindInv, LeaseInv, Kept, Writes, Blank
<1> QED
  BY <1>3, <1>4

\* A request that writes is one more, or still, late: nothing is owed behind the page.
LEMMA StillLate ==
  ASSUME BehindInv, NEW i \in Slots, Late(i)', UNCHANGED <<panel, open>>
  PROVE  BehindInv'
BY DEF BehindInv

LEMMA GoroutineInv ==
  ASSUME Typed, IInv, NEW i \in Slots,
         \/ WriteMode(i) \/ WriteHwAddr(i) \/ \E l \in Leases : DHCPAnswers(i, l)
  PROVE  IInv'
<1>1. UNCHANGED <<panel, open>>
  BY DEF WriteMode, WriteHwAddr, DHCPAnswers, Step
<1>2. CASE WriteMode(i)
  <2>1. /\ request' = [request EXCEPT ![i].state = "modeWritten"] /\ raced' = raced
        /\ request[i].state = "vipWritten" /\ cfg'.vip = cfg.vip
    BY <1>2 DEF WriteMode, Step, Typed, TypeOK
  <2>2. \A j \in Slots : /\ Writes(j)' <=> Writes(j)
                         /\ request'[j].lease = request[j].lease
    BY <2>1 DEF Writes, Typed, TypeOK
  <2>3. Late(i)' /\ Writes(i)
    BY <2>1 DEF Late, Writes, Typed, TypeOK
  <2> QED
    BY <1>1, <2>1, <2>2, <2>3, StillLate DEF IInv, LeaseInv
<1>3. CASE WriteHwAddr(i)
  <2>1. /\ request' = [request EXCEPT ![i].state = "answered"] /\ raced' = raced
        /\ request[i].state = "modeWritten"
        /\ cfg'.vip = cfg.vip /\ cfg'.hwAddr = request[i].lease.hwAddr
    BY <1>3 DEF WriteHwAddr, Step, Typed, TypeOK
  <2>2. \A j \in Slots : /\ Writes(j)' <=> j # i /\ Writes(j)
                         /\ request'[j].lease = request[j].lease
    BY <2>1 DEF Writes, Typed, TypeOK
  <2>3. Late(i)' /\ Late(i) /\ Writes(i)
    BY <2>1 DEF Late, Writes, Typed, TypeOK
  <2>4. ~raced => [vip |-> cfg'.vip, hwAddr |-> cfg'.hwAddr] = request[i].lease
    <3>1. request[i].lease \in Leases
      BY <2>3 DEF Typed, Leased
    <3>2. request[i].lease = [vip |-> request[i].lease.vip,
                              hwAddr |-> request[i].lease.hwAddr]
      BY <3>1, LeasesAssumption
    <3> QED
      BY <2>1, <2>3, <3>2 DEF IInv, LeaseInv
  <2>5. ~raced => Matched'
    BY <2>3, <2>4 DEF Matched, Typed, Leased
  <2> QED
    BY <1>1, <2>1, <2>2, <2>3, <2>5, StillLate DEF IInv, LeaseInv
<1>4. CASE \E l \in Leases : DHCPAnswers(i, l)
  <2>1. PICK l \in Leases : DHCPAnswers(i, l)
    BY <1>4
  <2>2. /\ request' = [request EXCEPT ![i] = [state |-> "vipWritten", lease |-> l]]
        /\ cfg'.vip = l.vip /\ raced' = (raced \/ Writing # {})
    BY <2>1 DEF DHCPAnswers, Typed, TypeOK
  <2>3. ~raced' => \A j \in Slots : ~Writes(j)
    BY <2>2 DEF Writing, Writes
  <2>4. /\ Late(i)' /\ Writes(i)' /\ request'[i].lease = l
        /\ \A j \in Slots : j # i => (Writes(j)' <=> Writes(j))
    BY <2>2 DEF Late, Writes, Typed, TypeOK
  <2> QED
    BY <1>1, <2>2, <2>3, <2>4, StillLate DEF IInv, LeaseInv
<1> QED
  BY <1>2, <1>3, <1>4

\* A request that fails has written nothing; its callback leaves the page behind, and
\* the callback of one that was answered ends the program there.
LEMMA EndInv ==
  ASSUME Typed, IInv, NEW i \in Slots, DHCPFails(i) \/ FillInputs(i) \/ ShowMethodAgain(i)
  PROVE  IInv'
<1>1. UNCHANGED <<cfg, confirmed, raced>>
  BY DEF DHCPFails, FillInputs, ShowMethodAgain, Step
<1>2. \A j \in Slots : /\ Writes(j)' <=> Writes(j)
                       /\ Writes(j) => request'[j].lease = request[j].lease
  BY DEF DHCPFails, FillInputs, ShowMethodAgain, Step, Writes, Idle, Typed, TypeOK
<1>3. LeaseInv'
  BY <1>1, <1>2 DEF IInv, LeaseInv, Matched
<1>4. CASE DHCPFails(i)
  <2>1. \A j \in Slots : Late(j)' <=> Late(j)
    BY <1>4 DEF DHCPFails, Step, Late, Typed, TypeOK
  <2>2. UNCHANGED <<panel, open>>
    BY <1>4 DEF DHCPFails, Step
  <2> QED
    BY <1>1, <1>3, <2>1, <2>2 DEF IInv, BehindInv, Kept, Matched
<1>5. CASE FillInputs(i)
  <2>1. panel' # "token"
    BY <1>5 DEF FillInputs, InputsOpen, IInv, BehindInv
  <2> QED
    BY <1>3, <2>1 DEF IInv, BehindInv
<1>6. CASE ShowMethodAgain(i)
  BY <1>3, <1>6 DEF ShowMethodAgain, Focus, IInv, BehindInv
<1> QED
  BY <1>4, <1>5, <1>6

LEMMA InvStep == Typed /\ IInv /\ [Next]_vars => IInv'
<1> SUFFICES ASSUME Typed, IInv, [Next]_vars PROVE IInv'
  OBVIOUS
<1>1. ASSUME \/ Show \/ Esc \/ GotoAskVipMethodPanel \/ GotoVipParentPanel
             \/ \E m \in {"dhcp", "static"} : ConfirmAskVipMethod(m)
      PROVE  IInv'
  BY <1>1, QuietKeyInv DEF Show, Esc, GotoAskVipMethodPanel, GotoVipParentPanel,
     ConfirmAskVipMethod, Focus, ParentPanel
<1>2. CASE UNCHANGED vars
  BY <1>2 DEF vars, IInv, BehindInv, LeaseInv, Kept, Matched, Writes, Late
<1> QED
  BY <1>1, <1>2, GotoVipPanelInv, GotoVerifyIPInv, GoroutineInv, EndInv DEF Next, Ended

\* The confirmed address is kept, for any number of requests: what stands in the
\* configuration behind the page was confirmed and checked, and an address from DHCP
\* has its own MAC unless two writers met.
THEOREM ConfirmedVipStays == Spec => []ConfirmedVipKept
<1>1. Typed /\ IInv => ConfirmedVipKept
  <2> SUFFICES ASSUME Typed, IInv, panel = "token", InFlight = {} PROVE Kept
    BY DEF ConfirmedVipKept, Kept, Matched
  <2>1. \A i \in Slots : ~Late(i)
    BY DEF InFlight, Late
  <2> QED
    BY <2>1 DEF IInv, BehindInv
<1> QED
  BY <1>1, InitTyped, TypeStep, InitInv, InvStep, PTL DEF Spec
=============================================================================
