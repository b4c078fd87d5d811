------------------------------- MODULE VipPage -------------------------------
(***************************************************************************)
(* The page that asks the first node for the cluster's virtual address     *)
(* (addVIPPanel of pkg/console/install_panels.go, pkg/console/vip.go).     *)
(*                                                                         *)
(* Unlike the other pages that work in the background, this one leaves the *)
(* keyboard with the user while a goroutine asks DHCP for an address: the  *)
(* user may ask again, choose a static address, or leave the page, and the *)
(* answer arrives later. The goroutine writes the three fields of the      *)
(* configuration without a lock, one after the other, then queues a        *)
(* callback that fills the input fields.                                   *)
(***************************************************************************)
EXTENDS Naturals, FiniteSets

CONSTANTS
  Slots,       \* requests that may be in flight at the same time (a bound)
  Leases,      \* what DHCP may answer: records of an address and its MAC
  VipInputs,   \* what may be typed as the address
  Malformed,   \* those that are not IP addresses
  MgmtIP       \* address of the management NIC; "" with DHCP

Blank == ""

ASSUME LeasesAssumption ==
  \A l \in Leases : /\ l = [vip |-> l.vip, hwAddr |-> l.hwAddr]
                    /\ l.vip \notin Malformed \cup {Blank} /\ l.hwAddr # Blank
ASSUME BlankAssumption == Blank \in Malformed

VARIABLES
  panel,       \* the panel with the focus; "dns" and "token" are the pages around
  open,        \* the panels of the page whose views exist
  method,      \* Value of the drop-down askVipMethodV
  request,     \* request[i]: state of goroutine i and the lease it got
  cfg,         \* Vip, VipMode, VipHwAddr
  confirmed,   \* history: the address and mode with which the page was left forward
  raced        \* history: the user or another request wrote between the
               \* writes of a request

vars == <<panel, open, method, request, cfg, confirmed, raced>>

Inputs == {"askVipMethod", "hwAddr", "vip"}
NoLease == [vip |-> Blank, hwAddr |-> Blank]
Idle == [state |-> "idle", lease |-> NoLease]
Writing == {i \in Slots : request[i].state \in {"vipWritten", "modeWritten"}}
InFlight == {i \in Slots : request[i].state # "idle"}

Init ==
  /\ panel = "askVipMethod" /\ open = {"askVipMethod"}
  /\ method = "dhcp"
  /\ request = [i \in Slots |-> Idle]
  /\ cfg = [vip |-> Blank, mode |-> Blank, hwAddr |-> Blank]
  /\ confirmed = [vip |-> Blank, mode |-> Blank]
  /\ raced = FALSE

Focus(p) == panel' = p /\ open' = open \cup {p}

-----------------------------------------------------------------------------
(* Keys *)

\* From the DNS page, and back from the token page.
Show ==
  /\ panel \in {"dns", "token"}
  /\ panel' = "askVipMethod" /\ open' = {"askVipMethod"}
  /\ UNCHANGED <<method, request, cfg, confirmed, raced>>

Esc ==
  /\ panel \in Inputs
  /\ panel' = "dns" /\ open' = {}
  /\ UNCHANGED <<method, request, cfg, confirmed, raced>>

ConfirmAskVipMethod(m) ==
  /\ panel = "askVipMethod"
  /\ method' = m
  /\ IF m = "dhcp"
     THEN panel' = "hwAddr" /\ open' = Inputs
     ELSE panel' = "vip" /\ open' = (open \ {"hwAddr"}) \cup {"vip"}
  /\ UNCHANGED <<request, cfg, confirmed, raced>>

GotoAskVipMethodPanel ==
  /\ panel = "hwAddr"
  /\ Focus("askVipMethod")
  /\ UNCHANGED <<method, request, cfg, confirmed, raced>>

\* Enter on the MAC address.
GotoVipPanel(i) ==
  /\ panel = "hwAddr"
  /\ IF method = "dhcp"
     THEN /\ request[i] = Idle
          /\ request' = [request EXCEPT ![i].state = "running"]
          /\ UNCHANGED cfg
     ELSE cfg' = [cfg EXCEPT !.mode = "static"] /\ UNCHANGED request
  /\ Focus("vip")
  /\ UNCHANGED <<method, confirmed, raced>>

ParentPanel == IF method = "dhcp" THEN "hwAddr" ELSE "askVipMethod"

GotoVipParentPanel ==
  /\ panel = "vip"
  /\ Focus(ParentPanel)
  /\ UNCHANGED <<method, request, cfg, confirmed, raced>>

\* The page is left with configuration c.
GotoNextPage(c) ==
  /\ panel' = "token" /\ open' = {}
  /\ cfg' = c
  /\ confirmed' = [vip |-> c.vip, mode |-> c.mode]

\* Enter on the address v. In DHCP mode only the address DHCP gave is accepted.
GotoVerifyIP(v) ==
  /\ panel = "vip"
  /\ \/ cfg.mode = "dhcp" /\ v = cfg.vip /\ GotoNextPage(cfg)
     \/ /\ cfg.mode # "dhcp" /\ v \notin Malformed /\ v # MgmtIP
        /\ GotoNextPage([vip |-> v, hwAddr |-> Blank,
                         mode |-> IF cfg.mode = Blank THEN "static" ELSE cfg.mode])
  /\ raced' = (raced \/ Writing # {})
  /\ UNCHANGED <<method, request>>

-----------------------------------------------------------------------------
(* The goroutine of request i *)

Step(i, from, to) ==
  /\ request[i].state = from
  /\ request' = [request EXCEPT ![i].state = to]
  /\ UNCHANGED <<panel, open, method, confirmed, raced>>

\* No link, no answer, a malformed MAC address.
DHCPFails(i) == Step(i, "running", "failed") /\ UNCHANGED cfg

DHCPAnswers(i, l) ==
  /\ request[i].state = "running"
  /\ request' = [request EXCEPT ![i] = [state |-> "vipWritten", lease |-> l]]
  /\ cfg' = [cfg EXCEPT !.vip = l.vip]
  /\ raced' = (raced \/ Writing # {})
  /\ UNCHANGED <<panel, open, method, confirmed>>

RequestedMode == "dhcp"

WriteMode(i) ==
  /\ Step(i, "vipWritten", "modeWritten")
  /\ cfg' = [cfg EXCEPT !.mode = RequestedMode]

WriteHwAddr(i) ==
  /\ Step(i, "modeWritten", "answered")
  /\ cfg' = [cfg EXCEPT !.hwAddr = request[i].lease.hwAddr]

InputsNeedNotBeOpen == TRUE
InputsOpen == {"hwAddr", "vip"} \subseteq open

\* The callback of a request that was answered fills the two input fields; without
\* their views its error ends the main loop.
FillInputs(i) ==
  /\ request[i].state = "answered"
  /\ request' = [request EXCEPT ![i] = Idle]
  /\ panel' = IF InputsOpen THEN panel ELSE "exited"
  /\ UNCHANGED <<open, method, cfg, confirmed, raced>>

\* The callback of a request that failed asks for the method again, on whatever page.
ShowMethodAgain(i) ==
  /\ request[i].state = "failed"
  /\ request' = [request EXCEPT ![i] = Idle]
  /\ Focus("askVipMethod")
  /\ UNCHANGED <<method, cfg, confirmed, raced>>

-----------------------------------------------------------------------------
Ended == panel = "exited" /\ UNCHANGED vars

Running == panel # "exited"

Next ==
  \/ Running /\ (Show \/ Esc \/ GotoAskVipMethodPanel \/ GotoVipParentPanel)
  \/ Running /\ \E m \in {"dhcp", "static"} : ConfirmAskVipMethod(m)
  \/ Running /\ \E v \in VipInputs : GotoVerifyIP(v)
  \/ Running /\ \E i \in Slots :
       \/ GotoVipPanel(i) \/ DHCPFails(i) \/ WriteMode(i) \/ WriteHwAddr(i)
       \/ FillInputs(i) \/ ShowMethodAgain(i)
       \/ \E l \in Leases : DHCPAnswers(i, l)
  \/ Ended

Spec == Init /\ [][Next]_vars

-----------------------------------------------------------------------------
(* Properties *)

\* Type invariant of the page, its requests and the three fields they write.
TypeOK ==
  /\ panel \in Inputs \cup {"dns", "token", "exited"}
  /\ open \in SUBSET Inputs
  /\ method \in {"dhcp", "static"}
  /\ request \in [Slots -> [state : {"idle", "running", "failed", "vipWritten",
                                     "modeWritten", "answered"},
                            lease : Leases \cup {NoLease}]]
  /\ cfg \in [vip : VipInputs \cup {l.vip : l \in Leases} \cup {Blank},
              mode : {Blank, "dhcp", "static"},
              hwAddr : {l.hwAddr : l \in Leases} \cup {Blank}]
  /\ confirmed \in [vip : VipInputs \cup {l.vip : l \in Leases} \cup {Blank},
                    mode : {Blank, "dhcp", "static"}]
  /\ raced \in BOOLEAN

\* Behind the page, once no request is in flight, the configuration holds exactly the
\* address and the mode that the user confirmed, although a late answer writes to it
\* from another thread; a static address passed its checks and carries no MAC, and an
\* address from DHCP carries the MAC it was leased for, unless the unlocked writes of
\* two actors interleaved.
ConfirmedVipKept ==
  panel = "token" /\ InFlight = {}
    => /\ confirmed = [vip |-> cfg.vip, mode |-> cfg.mode]
       /\ cfg.mode # Blank
       /\ cfg.mode = "static" =>
            cfg.vip \notin Malformed \cup {MgmtIP} /\ cfg.hwAddr = Blank
       /\ cfg.mode = "dhcp" /\ ~raced =>
            [vip |-> cfg.vip, hwAddr |-> cfg.hwAddr] \in Leases

-----------------------------------------------------------------------------
(* Statements of the source that its code does not keep *)

\* "it is still empty in static mode" (gotoVerifyIP's comment on VipMode): where a
\* static address is typed for the first time no other mode is set.
StaticModeUnset ==
  panel = "vip" /\ method = "static" => cfg.mode \in {Blank, "static"}

\* "Use ESC to go back to previous page" (the tip of every panel): going back does not
\* end the installer.
EscIsSafe == panel # "exited"

\* The same tip: having gone back, the user is not fetched to the page again by a
\* request that fails later.
LeftStaysLeft ==
  [][panel' = "askVipMethod" /\ panel \in {"dns", "token"} => UNCHANGED request]_vars
=============================================================================
