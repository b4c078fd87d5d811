----------------------------- MODULE NMProfiles -----------------------------
(***************************************************************************)
(* The NetworkManager profiles of the management network: applyNetworks of *)
(* pkg/console/network.go with what it calls in pkg/config/cos.go, and the *)
(* two other writers of the profiles, the DNS page and the generation of   *)
(* the node's configuration.                                               *)
(*                                                                         *)
(* A call restores the profiles found at boot, saves them when it is the   *)
(* first, clears the host name so that DHCP may set one, writes the        *)
(* profiles, restarts networking and puts the host name back. Each step    *)
(* may fail, which ends the call where it stands. The network page can run *)
(* two calls at the same time; the steps of two calls interleave.          *)
(***************************************************************************)
EXTENDS Naturals, FiniteSets

CONSTANTS
  Calls,         \* calls that may be in progress at the same time (a bound)
  Networks,      \* config.Network: records of nics, vlan, method
  BootNames,     \* names of profiles that may be present at boot
  BootHostname,  \* name of the live system ("rancher")
  GivenNames     \* host names of the configuration; "" when not asked yet

Blank == ""
Cleared == "localhost"   \* what hostnamectl reports once the name is cleared
FromDHCP == "dhcpname"   \* a name the DHCP server gives

ASSUME HostnameAssumption ==
  /\ BootHostname \notin {Blank, Cleared}
  /\ Cleared \notin GivenNames
ASSUME NetworksAssumption ==
  /\ Networks # {}
  /\ \A n \in Networks : n.vlan \in 0..4094 /\ n.method \in {"dhcp", "static", "none", Blank}

VARIABLES
  files,       \* the profiles on disk
  saved,       \* originalNetworkConfigs
  saveDone,    \* saveOriginalNetworkConfigOnce
  nm,          \* NetworkManager: networking is on, it has read the files as they are
  hostname,    \* of the live system
  call,        \* call[i]: the step call i takes next and its arguments
  installing,  \* the installation has begun to generate the configuration
  last,        \* history: arguments and outcome of the call that ended last
  mishaps      \* history: "hostnamectl" or "update" failed, calls did "overlap"

vars == <<files, saved, saveDone, nm, hostname, call, installing, last, mishaps>>

-----------------------------------------------------------------------------
(* The profiles of a network *)

TaggedFromOne(v) == v >= 1 /\ v <= 4094
needVlanInterface(v) == v >= 2 /\ v <= 4094

Profile(kind, nic, n, method, dns) ==
  [kind |-> kind, nic |-> nic, of |-> n, method |-> method, dns |-> dns]

NoNetwork == [nics |-> {}, vlan |-> 0, method |-> Blank]
BootProfiles == {Profile("boot", b, NoNetwork, Blank, FALSE) : b \in BootNames}

\* The bond and the interfaces it enslaves.
updateBond(n) == {Profile("bond-mgmt", Blank, n, "none", FALSE)}
                 \cup {Profile("bond-slave", i, n, "none", FALSE) : i \in n.nics}

\* The bridge and, with a VLAN, the interface on top of it that then has the
\* address and the DNS servers.
updateBridge(n, dns) ==
  IF needVlanInterface(n.vlan)
  THEN {Profile("bridge-mgmt", Blank, n, "none", FALSE),
        Profile("vlan-mgmt", Blank, n, n.method, dns)}
  ELSE {Profile("bridge-mgmt", Blank, n, n.method, dns)}

Profiles(n, dns) == updateBond(n) \cup updateBridge(n, dns)

\* The connection that the DNS page modifies.
DNSConnection(vlan) == IF vlan > 1 THEN "vlan-mgmt" ELSE "bridge-mgmt"

-----------------------------------------------------------------------------
NoCall == [pc |-> "idle", net |-> CHOOSE n \in Networks : TRUE, name |-> Blank,
           prev |-> Blank, apply |-> FALSE, dns |-> FALSE]

NoResult == [ok |-> FALSE, net |-> NoCall.net, apply |-> FALSE]

InProgress == {i \in Calls : call[i].pc # "idle"}
Quiet == InProgress = {}

Init ==
  /\ files \in SUBSET BootProfiles
  /\ saved = {} /\ saveDone = FALSE
  /\ nm = [on |-> TRUE, current |-> TRUE]
  /\ hostname = BootHostname
  /\ call = [i \in Calls |-> NoCall]
  /\ installing = FALSE
  /\ last = NoResult
  /\ mishaps = {}

Begin(i, c) ==
  /\ call[i].pc = "idle"
  /\ call' = [call EXCEPT ![i] = c]
  /\ mishaps' = IF Quiet THEN mishaps ELSE mishaps \cup {"overlap"}
  /\ last' = NoResult
  /\ UNCHANGED <<files, saved, saveDone, nm, hostname>>

\* The network page and the installation apply a network to the live system.
applyNetworks(i, n, name) ==
  /\ ~installing /\ UNCHANGED installing
  /\ Begin(i, [NoCall EXCEPT !.pc = "restore", !.net = n, !.name = name, !.apply = TRUE])

\* The installation ends the pages. Interactively it comes after a call that
\* succeeded; another may still be running. An automatic one has made no call or
\* one that returned. ConvertToCOS writes the profiles of the final
\* configuration without applying them, GenerateRancherdConfig, on an installed
\* node, applies them.
GenerateConfig(i, n, apply, dns) ==
  /\ ~installing /\ installing' = TRUE
  /\ Quiet \/ saveDone
  /\ Begin(i, [NoCall EXCEPT !.pc = "update", !.net = n, !.apply = apply, !.dns = dns])

At(i, step) == call[i].pc = step
Goto(i, step) == call' = [call EXCEPT ![i].pc = step] /\ UNCHANGED <<last, mishaps>>

End(i, ok, mishap) ==
  /\ call' = [call EXCEPT ![i] = NoCall]
  /\ last' = IF ok THEN [ok |-> TRUE, net |-> call[i].net, apply |-> call[i].apply]
             ELSE NoResult
  /\ mishaps' = mishaps \cup mishap

\* NetworkManager does not read a file before it is told to.
Write(profiles) == files' = profiles /\ nm' = [nm EXCEPT !.current = FALSE]

\* Profiles are removed one by one, then written one by one. Where an error can
\* leave them: nothing removed yet, everything removed, some new ones written.
Interrupted(part) == \E profiles \in {files, {}, part} : Write(profiles)

\* Nothing is done when nothing was saved.
RestoreOriginalNetworkConfig(i) ==
  /\ At(i, "restore")
  /\ \/ saved = {} /\ UNCHANGED <<files, nm>> /\ Goto(i, "save")
     \/ saved # {} /\ Write(saved) /\ Goto(i, "save")
     \/ saved # {} /\ (\E p \in saved : Interrupted(saved \ {p})) /\ End(i, FALSE, {"update"})
  /\ UNCHANGED <<saved, saveDone, hostname>>

SaveEveryTime(i) ==
  /\ At(i, "save")
  /\ saved' = files /\ saveDone' = TRUE
  /\ Goto(i, "hostname")
  /\ UNCHANGED <<files, nm, hostname>>

\* Once: a failure keeps what was read so far and is not repeated.
SaveOriginalNetworkConfig(i) ==
  /\ At(i, "save")
  /\ \/ saveDone /\ Goto(i, "hostname") /\ UNCHANGED <<saved, saveDone>>
     \/ ~saveDone /\ saveDone' = TRUE /\ saved' = files /\ Goto(i, "hostname")
     \/ /\ ~saveDone /\ saveDone' = TRUE
        /\ saved' \in SUBSET files \ {files}
        /\ End(i, FALSE, {"update"})
  /\ UNCHANGED <<files, nm, hostname>>

\* The current name is remembered; it is cleared when none was configured, which
\* may fail with a warning, and set otherwise, which may end the call.
SetHostname(i) ==
  /\ At(i, "hostname")
  /\ \/ /\ call[i].name = Blank
        /\ call' = [call EXCEPT ![i].pc = "update", ![i].prev = hostname]
        /\ hostname' = Cleared
        /\ UNCHANGED <<last, mishaps>>
     \/ /\ call[i].name = Blank
        /\ \E p \in {Blank, hostname}, h \in {Cleared, hostname} :
             /\ call' = [call EXCEPT ![i].pc = "update", ![i].prev = p]
             /\ hostname' = h
        /\ mishaps' = mishaps \cup {"hostnamectl"}
        /\ UNCHANGED last
     \/ call[i].name # Blank /\ hostname' = call[i].name /\ Goto(i, "update")
     \/ call[i].name # Blank /\ End(i, FALSE, {"hostnamectl"}) /\ UNCHANGED hostname
  /\ UNCHANGED <<files, saved, saveDone, nm>>

RefusedNetwork(n) == n.nics = {} \/ n.method \notin {"dhcp", "static", "none"}

Unwiped(i) == files \cup Profiles(call[i].net, call[i].dns)
Rewritten(i) == Profiles(call[i].net, call[i].dns)

\* The first half of UpdateManagementInterfaceConfig: old profiles are removed,
\* new ones written.
WriteProfiles(i) ==
  /\ At(i, "update")
  /\ \/ /\ RefusedNetwork(call[i].net)
        /\ End(i, FALSE, {"update"}) /\ UNCHANGED <<files, nm>>
     \/ /\ ~RefusedNetwork(call[i].net)
        /\ Write(Rewritten(i))
        /\ IF call[i].apply THEN Goto(i, "reload") ELSE End(i, TRUE, {})
     \/ /\ ~RefusedNetwork(call[i].net)
        /\ Interrupted(updateBond(call[i].net))
        /\ End(i, FALSE, {"update"})
  /\ UNCHANGED <<saved, saveDone, hostname>>

\* A cleared name is replaced when DHCP gives one.
Connect(n) ==
  /\ nm' = [on |-> TRUE, current |-> TRUE]
  /\ \/ hostname' = hostname
     \/ n.method = "dhcp" /\ hostname = Cleared /\ hostname' = FromDHCP

\* The second half: networking off, reload, networking on, wait.
RestartNetworking(i) ==
  /\ At(i, "reload")
  /\ \/ Connect(call[i].net) /\ Goto(i, "hostnameBack")
     \/ Connect(call[i].net) /\ End(i, FALSE, {"update"})
     \/ /\ nm' \in {nm, [nm EXCEPT !.on = FALSE], [on |-> FALSE, current |-> TRUE]}
        /\ End(i, FALSE, {"update"}) /\ UNCHANGED hostname
  /\ UNCHANGED <<files, saved, saveDone>>

HostnameLeft(i) ==
  /\ At(i, "hostnameBack")
  /\ End(i, TRUE, {}) /\ UNCHANGED <<files, saved, saveDone, nm, hostname>>

\* The name from before the call comes back unless DHCP gave one or it could not
\* be read. Errors are logged.
RestoreHostname(i) ==
  /\ At(i, "hostnameBack")
  /\ \/ /\ hostname' = IF call[i].name = Blank /\ call[i].prev # Blank /\ hostname = Cleared
                       THEN call[i].prev ELSE hostname
        /\ End(i, TRUE, {})
     \/ call[i].name = Blank /\ End(i, TRUE, {"hostnamectl"}) /\ UNCHANGED hostname
  /\ UNCHANGED <<files, saved, saveDone, nm>>

\* The DNS page: nmcli changes the connection in NetworkManager and on disk. Past
\* the network page the VLAN is that of the network applied last.
updateDNSServers ==
  /\ ~installing /\ Quiet /\ last.ok
  /\ \E f \in files :
       /\ f.kind = DNSConnection(last.net.vlan)
       /\ files' = (files \ {f}) \cup {[f EXCEPT !.dns = TRUE]}
  /\ UNCHANGED <<nm, saved, saveDone, hostname, call, installing, last, mishaps>>

-----------------------------------------------------------------------------
Step(i) ==
  /\ \/ RestoreOriginalNetworkConfig(i) \/ SaveOriginalNetworkConfig(i)
     \/ SetHostname(i) \/ WriteProfiles(i) \/ RestartNetworking(i)
     \/ RestoreHostname(i)
  /\ UNCHANGED installing

\* The rest of the installation does not touch the profiles.
Installed == installing /\ Quiet /\ UNCHANGED vars

Next ==
  \/ Installed
  \/ \E i \in Calls :
       \/ Step(i)
       \/ \E n \in Networks :
            \/ \E name \in GivenNames : applyNetworks(i, n, name)
            \/ \E apply, dns \in BOOLEAN : GenerateConfig(i, n, apply, dns)
  \/ updateDNSServers

Spec == Init /\ [][Next]_vars

-----------------------------------------------------------------------------
(* Properties *)

NICs == UNION {n.nics : n \in Networks}
ProfileType ==
  [kind : {"boot", "bond-mgmt", "bond-slave", "bridge-mgmt", "vlan-mgmt"},
   nic : BootNames \cup NICs \cup {Blank}, of : Networks \cup {NoNetwork},
   method : {"dhcp", "static", "none", Blank}, dns : BOOLEAN]

\* Type invariant of the profiles, of NetworkManager and of the calls.
TypeOK ==
  /\ files \subseteq ProfileType
  /\ saved \subseteq ProfileType
  /\ saveDone \in BOOLEAN
  /\ nm \in [on : BOOLEAN, current : BOOLEAN]
  /\ hostname \in {BootHostname, Cleared, FromDHCP} \cup (GivenNames \ {Blank})
  /\ call \in [Calls -> [pc : {"idle", "restore", "save", "hostname", "update",
                                "reload", "hostnameBack"},
                         net : Networks, name : GivenNames \cup {Blank},
                         prev : {BootHostname, Cleared, FromDHCP, Blank} \cup GivenNames,
                         apply : BOOLEAN, dns : BOOLEAN]]
  /\ installing \in BOOLEAN
  /\ last \in [ok : BOOLEAN, net : Networks, apply : BOOLEAN]
  /\ mishaps \in SUBSET {"hostnamectl", "update", "overlap"}

\* After a call that reports success the disk holds the profiles of its network
\* and no others: no interface left over from an earlier selection, no VLAN
\* interface left over from an earlier number, nothing that an earlier failure left
\* half written (UpdateManagementInterfaceConfig). NetworkManager runs on them.
AppliedExactly ==
  Quiet /\ last.ok /\ "overlap" \notin mishaps
    => \E d \in BOOLEAN :
         /\ files = Profiles(last.net, d)
         /\ last.apply => nm.on /\ nm.current

\* Of the profiles of an applied network exactly one has an address, and it is the
\* one whose DNS servers the DNS page sets, although util.go and cos.go decide for
\* themselves whether there is a VLAN interface.
DNSReachesAddress ==
  Quiet /\ last.ok /\ "overlap" \notin mishaps /\ last.net.method # "none"
    => {f.kind : f \in {g \in files : g.method # "none"}} = {DNSConnection(last.net.vlan)}

\* What RestoreOriginalNetworkConfig will write back are profiles found at boot,
\* never ones the installer wrote, whatever failed before and even when two calls
\* ran at the same time ("It can only be invoked once").
OriginalsPristine == saved \subseteq BootProfiles

\* As long as every command succeeded and calls did not overlap, the live system
\* has its name back after each call, or the configured one, or one from DHCP
\* (applyNetworks).
HostnameKept == Quiet /\ mishaps = {} => hostname # Cleared

-----------------------------------------------------------------------------
(* Statements of the source that its code does not keep *)

\* "Restore the system hostname to what it was before, provided we haven't got a
\* new hostname from the DHCP server." (network.go:107): not when the profiles or
\* networking fail after the name was cleared, and the next call then takes the
\* cleared name for the one to restore.
HostnameRestored == Quiet /\ mishaps \subseteq {"update"} => hostname # Cleared
=============================================================================
