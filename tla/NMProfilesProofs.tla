--------------------------- MODULE NMProfilesProofs ---------------------------
(***************************************************************************)
(* NMProfiles keeps its types; the copy of the original profiles holds     *)
(* nothing that the installer wrote; a call that succeeds leaves exactly   *)
(* the profiles of its network, and the host name is not left cleared: for *)
(* any number of calls at the same time, all networks and all failures.    *)
(***************************************************************************)
EXTENDS NMProfiles, TLAPS

-----------------------------------------------------------------------------
(* Types *)

Steps == {"idle", "restore", "save", "hostname", "update", "reload", "hostnameBack"}
CallType == [pc : Steps, net : Networks, name : GivenNames \cup {Blank},
             prev : {BootHostname, Cleared, FromDHCP, Blank} \cup GivenNames,
             apply : BOOLEAN, dns : BOOLEAN]
HostnameType == {BootHostname, Cleared, FromDHCP} \cup (GivenNames \ {Blank})
LastType == [ok : BOOLEAN, net : Networks, apply : BOOLEAN]
Mishaps == {"hostnamectl", "update", "overlap"}

\* The parts of the type invariant that each action is checked against.
CallsOK == call \in [Calls -> CallType]
FilesOK == files \subseteq ProfileType /\ saved \subseteq ProfileType
SystemOK == /\ nm \in [on : BOOLEAN, current : BOOLEAN]
            /\ hostname \in HostnameType
            /\ saveDone \in BOOLEAN /\ installing \in BOOLEAN
HistoryOK == last \in LastType /\ mishaps \subseteq Mishaps

TypeParts == CallsOK /\ FilesOK /\ SystemOK /\ HistoryOK

\* A call that has not begun, and its result, have their types.
LEMMA NoCallType == NoCall \in CallType /\ NoCall.pc = "idle" /\ NoResult \in LastType /\ ~NoResult.ok
<1>1. (CHOOSE n \in Networks : TRUE) \in Networks
  BY NetworksAssumption
<1> QED
  BY <1>1 DEF NoCall, NoResult, CallType, Steps, LastType

Kinds == {"boot", "bond-mgmt", "bond-slave", "bridge-mgmt", "vlan-mgmt"}
Methods == {"dhcp", "static", "none", Blank}

\* A profile made of typed parts is one of ProfileType.
LEMMA ProfileTyped ==
  ASSUME NEW k \in Kinds, NEW nic \in BootNames \cup NICs \cup {Blank},
         NEW n \in Networks \cup {NoNetwork}, NEW m \in Methods, NEW dns \in BOOLEAN
  PROVE  Profile(k, nic, n, m, dns) \in ProfileType
BY DEF Profile, ProfileType, Kinds, Methods

\* What the installer writes, and what it finds, are profiles.
LEMMA ProfilesTyped ==
  ASSUME NEW n \in Networks, NEW dns \in BOOLEAN
  PROVE  Profiles(n, dns) \subseteq ProfileType /\ updateBond(n) \subseteq ProfileType
<1>1. n.method \in Methods /\ n.nics \subseteq NICs
  BY NetworksAssumption DEF NICs, Methods
<1>2. n \in Networks \cup {NoNetwork} /\ Blank \in BootNames \cup NICs \cup {Blank}
  OBVIOUS
<1>3. "none" \in Methods /\ FALSE \in BOOLEAN
  BY DEF Methods
<1>4. /\ Profile("bond-mgmt", Blank, n, "none", FALSE) \in ProfileType
      /\ Profile("bridge-mgmt", Blank, n, "none", FALSE) \in ProfileType
      /\ Profile("bridge-mgmt", Blank, n, n.method, dns) \in ProfileType
      /\ Profile("vlan-mgmt", Blank, n, n.method, dns) \in ProfileType
  BY <1>1, <1>2, <1>3, ProfileTyped DEF Kinds
<1>5. \A i \in n.nics : Profile("bond-slave", i, n, "none", FALSE) \in ProfileType
  BY <1>1, <1>2, <1>3, ProfileTyped DEF Kinds
<1>6. updateBond(n) \subseteq ProfileType
  BY <1>4, <1>5, Zenon DEF updateBond
<1>7. updateBridge(n, dns) \subseteq ProfileType
  BY <1>4, Zenon DEF updateBridge
<1> QED
  BY <1>6, <1>7 DEF Profiles

\* So are the profiles found at boot.
LEMMA BootTyped == BootProfiles \subseteq ProfileType
<1>1. \A b \in BootNames : Profile("boot", b, NoNetwork, Blank, FALSE) \in ProfileType
  BY ProfileTyped DEF Kinds, Methods
<1> QED
  BY <1>1, Zenon DEF BootProfiles

\* The types hold before the first call.
LEMMA InitTyped == Init => TypeParts
<1> SUFFICES ASSUME Init PROVE TypeParts
  OBVIOUS
<1>1. CallsOK
  BY NoCallType DEF Init, CallsOK
<1>2. FilesOK
  BY BootTyped DEF Init, FilesOK
<1>3. SystemOK
  BY DEF Init, SystemOK, HostnameType
<1>4. HistoryOK
  BY NoCallType DEF Init, HistoryOK
<1> QED
  BY <1>1, <1>2, <1>3, <1>4 DEF TypeParts

\* Calls that begin, move on or end keep the types of calls and history.
LEMMA BeginTyped ==
  ASSUME TypeParts, NEW i \in Calls, NEW c \in CallType, Begin(i, c)
  PROVE  CallsOK' /\ HistoryOK'
BY NoCallType DEF TypeParts, CallsOK, HistoryOK, Begin, Mishaps

LEMMA GotoTyped ==
  ASSUME TypeParts, NEW i \in Calls, NEW step \in Steps, Goto(i, step)
  PROVE  CallsOK' /\ HistoryOK'
BY DEF TypeParts, CallsOK, HistoryOK, Goto, CallType

LEMMA EndTyped ==
  ASSUME TypeParts, NEW i \in Calls, NEW ok \in BOOLEAN, NEW mishap \in SUBSET Mishaps,
         End(i, ok, mishap)
  PROVE  CallsOK' /\ HistoryOK'
<1>1. call[i].net \in Networks /\ call[i].apply \in BOOLEAN
  BY DEF TypeParts, CallsOK, CallType
<1> QED
  BY <1>1, NoCallType DEF TypeParts, CallsOK, HistoryOK, End, LastType

NMOK == nm \in [on : BOOLEAN, current : BOOLEAN]

\* Written profiles keep the types of files and NetworkManager.
LEMMA WriteTyped ==
  ASSUME TypeParts, NEW p \in SUBSET ProfileType, Write(p)
  PROVE  files' \subseteq ProfileType /\ NMOK'
BY DEF TypeParts, SystemOK, NMOK, Write

\* So does a write that fails half-way.
LEMMA InterruptedTyped ==
  ASSUME TypeParts, NEW p \in SUBSET ProfileType, Interrupted(p)
  PROVE  files' \subseteq ProfileType /\ NMOK'
<1>1. PICK q \in {files, {}, p} : Write(q)
  BY DEF Interrupted
<1>2. q \in SUBSET ProfileType
  BY DEF TypeParts, FilesOK
<1> QED
  BY <1>1, <1>2, WriteTyped

\* One lemma per action: each keeps the types.
LEMMA RestoreTyped ==
  ASSUME TypeParts, NEW i \in Calls, RestoreOriginalNetworkConfig(i), UNCHANGED installing
  PROVE  TypeParts'
<1>1. saved' = saved /\ saveDone' = saveDone /\ hostname' = hostname /\ installing' = installing
  BY DEF RestoreOriginalNetworkConfig
<1>2. files' \subseteq ProfileType /\ NMOK'
  <2>1. CASE UNCHANGED <<files, nm>>
    BY <2>1 DEF TypeParts, FilesOK, SystemOK, NMOK
  <2>2. CASE Write(saved)
    BY <2>2, WriteTyped DEF TypeParts, FilesOK
  <2>3. CASE \E p \in saved : Interrupted(saved \ {p})
    BY <2>3, InterruptedTyped DEF TypeParts, FilesOK
  <2> QED
    BY <2>1, <2>2, <2>3 DEF RestoreOriginalNetworkConfig
<1>3. Goto(i, "save") \/ End(i, FALSE, {"update"})
  BY DEF RestoreOriginalNetworkConfig
<1>4. CallsOK' /\ HistoryOK'
  BY <1>3, GotoTyped, EndTyped DEF Steps, Mishaps
<1> QED
  BY <1>1, <1>2, <1>4 DEF TypeParts, FilesOK, SystemOK, NMOK

LEMMA SaveTyped ==
  ASSUME TypeParts, NEW i \in Calls, SaveOriginalNetworkConfig(i), UNCHANGED installing
  PROVE  TypeParts'
<1>1. files' = files /\ nm' = nm /\ hostname' = hostname /\ installing' = installing
  BY DEF SaveOriginalNetworkConfig
<1>2. saved' \subseteq ProfileType /\ saveDone' \in BOOLEAN
  BY DEF SaveOriginalNetworkConfig, TypeParts, FilesOK, SystemOK
<1>3. Goto(i, "hostname") \/ End(i, FALSE, {"update"})
  BY DEF SaveOriginalNetworkConfig
<1>4. CallsOK' /\ HistoryOK'
  BY <1>3, GotoTyped, EndTyped DEF Steps, Mishaps
<1> QED
  BY <1>1, <1>2, <1>4 DEF TypeParts, FilesOK, SystemOK

LEMMA SetHostnameTyped ==
  ASSUME TypeParts, NEW i \in Calls, SetHostname(i), UNCHANGED installing
  PROVE  TypeParts'
<1>1. /\ files' = files /\ nm' = nm /\ installing' = installing
      /\ saved' = saved /\ saveDone' = saveDone
  BY DEF SetHostname
<1>2. call[i] \in CallType /\ hostname \in HostnameType
  BY DEF TypeParts, CallsOK, SystemOK
<1>3. hostname' \in HostnameType
  BY <1>2 DEF SetHostname, HostnameType, CallType
<1>4. ASSUME NEW p \in {Blank, hostname},
             call' = [call EXCEPT ![i].pc = "update", ![i].prev = p]
      PROVE  CallsOK'
  <2>1. p \in {BootHostname, Cleared, FromDHCP, Blank} \cup GivenNames
    BY <1>2 DEF HostnameType
  <2> QED
    BY <1>4, <2>1 DEF TypeParts, CallsOK, CallType, Steps
<1>5. CallsOK' /\ HistoryOK'
  <2>1. CASE Goto(i, "update") \/ End(i, FALSE, {"hostnamectl"})
    BY <2>1, GotoTyped, EndTyped DEF Steps, Mishaps
  <2>2. CASE call[i].name = Blank
    <3>1. HistoryOK'
      BY <2>2 DEF SetHostname, TypeParts, HistoryOK, Mishaps
    <3>2. \E p \in {Blank, hostname} : call' = [call EXCEPT ![i].pc = "update", ![i].prev = p]
      BY <2>2 DEF SetHostname
    <3> QED
      BY <1>4, <3>1, <3>2
  <2> QED
    BY <2>1, <2>2 DEF SetHostname
<1> QED
  BY <1>1, <1>3, <1>5 DEF TypeParts, FilesOK, SystemOK

LEMMA WriteProfilesTyped ==
  ASSUME TypeParts, NEW i \in Calls, WriteProfiles(i), UNCHANGED installing
  PROVE  TypeParts'
<1>1. saved' = saved /\ saveDone' = saveDone /\ hostname' = hostname /\ installing' = installing
  BY DEF WriteProfiles
<1>2. call[i].net \in Networks /\ call[i].dns \in BOOLEAN
  BY DEF TypeParts, CallsOK, CallType
<1>3. Rewritten(i) \subseteq ProfileType /\ updateBond(call[i].net) \subseteq ProfileType
  BY <1>2, ProfilesTyped DEF Rewritten
<1>4. files' \subseteq ProfileType /\ NMOK'
  <2>1. CASE UNCHANGED <<files, nm>>
    BY <2>1 DEF TypeParts, FilesOK, SystemOK, NMOK
  <2>2. CASE Write(Rewritten(i))
    BY <2>2, <1>3, WriteTyped
  <2>3. CASE Interrupted(updateBond(call[i].net))
    BY <2>3, <1>3, InterruptedTyped
  <2> QED
    BY <2>1, <2>2, <2>3 DEF WriteProfiles
<1>5. Goto(i, "reload") \/ End(i, TRUE, {}) \/ End(i, FALSE, {"update"})
  BY DEF WriteProfiles
<1>6. CallsOK' /\ HistoryOK'
  BY <1>5, GotoTyped, EndTyped DEF Steps, Mishaps
<1> QED
  BY <1>1, <1>4, <1>6 DEF TypeParts, FilesOK, SystemOK, NMOK

LEMMA RestartTyped ==
  ASSUME TypeParts, NEW i \in Calls, RestartNetworking(i), UNCHANGED installing
  PROVE  TypeParts'
<1>1. saved' = saved /\ saveDone' = saveDone /\ files' = files /\ installing' = installing
  BY DEF RestartNetworking
<1>2. NMOK'
  <2>1. [on |-> TRUE, current |-> TRUE] \in [on : BOOLEAN, current : BOOLEAN]
    OBVIOUS
  <2>2. nm \in [on : BOOLEAN, current : BOOLEAN]
    BY DEF TypeParts, SystemOK
  <2>4. [nm EXCEPT !.on = FALSE] \in [on : BOOLEAN, current : BOOLEAN]
    BY <2>2
  <2>5. [on |-> FALSE, current |-> TRUE] \in [on : BOOLEAN, current : BOOLEAN]
    OBVIOUS
  <2>3. {nm, [nm EXCEPT !.on = FALSE], [on |-> FALSE, current |-> TRUE]}
          \subseteq [on : BOOLEAN, current : BOOLEAN]
    BY <2>2, <2>4, <2>5, Zenon
  <2> QED
    BY <2>1, <2>3, Zenon DEF RestartNetworking, Connect, NMOK
<1>5. hostname' \in HostnameType
  BY DEF RestartNetworking, Connect, TypeParts, SystemOK, HostnameType
<1>3. Goto(i, "hostnameBack") \/ End(i, FALSE, {"update"})
  BY DEF RestartNetworking
<1>4. CallsOK' /\ HistoryOK'
  BY <1>3, GotoTyped, EndTyped DEF Steps, Mishaps
<1> QED
  BY <1>1, <1>2, <1>4, <1>5 DEF TypeParts, FilesOK, SystemOK, NMOK

LEMMA RestoreHostnameTyped ==
  ASSUME TypeParts, NEW i \in Calls, RestoreHostname(i), UNCHANGED installing
  PROVE  TypeParts'
<1>1. /\ files' = files /\ nm' = nm /\ installing' = installing
      /\ saved' = saved /\ saveDone' = saveDone
  BY DEF RestoreHostname
<1>2. call[i].prev \in {BootHostname, Cleared, FromDHCP, Blank} \cup GivenNames
  BY DEF TypeParts, CallsOK, CallType
<1>3. hostname' \in HostnameType
  BY <1>2 DEF RestoreHostname, TypeParts, SystemOK, HostnameType
<1>4. End(i, TRUE, {}) \/ End(i, TRUE, {"hostnamectl"})
  BY DEF RestoreHostname
<1>5. CallsOK' /\ HistoryOK'
  BY <1>4, EndTyped DEF Mishaps
<1> QED
  BY <1>1, <1>3, <1>5 DEF TypeParts, FilesOK, SystemOK

LEMMA ApplyTyped ==
  ASSUME TypeParts, NEW i \in Calls, NEW n \in Networks, NEW name \in GivenNames,
         applyNetworks(i, n, name)
  PROVE  TypeParts'
<1>1. [NoCall EXCEPT !.pc = "restore", !.net = n, !.name = name, !.apply = TRUE] \in CallType
  BY NoCallType DEF CallType, Steps
<1>2. CallsOK' /\ HistoryOK'
  BY <1>1, BeginTyped DEF applyNetworks
<1>3. /\ files' = files /\ nm' = nm /\ hostname' = hostname /\ installing' = installing
      /\ saved' = saved /\ saveDone' = saveDone
  BY DEF applyNetworks, Begin
<1> QED
  BY <1>2, <1>3 DEF TypeParts, FilesOK, SystemOK

LEMMA GenerateTyped ==
  ASSUME TypeParts, NEW i \in Calls, NEW n \in Networks, NEW apply \in BOOLEAN,
         NEW dns \in BOOLEAN, GenerateConfig(i, n, apply, dns)
  PROVE  TypeParts'
<1>1. [NoCall EXCEPT !.pc = "update", !.net = n, !.apply = apply, !.dns = dns] \in CallType
  BY NoCallType DEF CallType, Steps
<1>2. CallsOK' /\ HistoryOK'
  BY <1>1, BeginTyped DEF GenerateConfig
<1>3. /\ files' = files /\ nm' = nm /\ hostname' = hostname /\ installing' = TRUE
      /\ saved' = saved /\ saveDone' = saveDone
  BY DEF GenerateConfig, Begin
<1> QED
  BY <1>2, <1>3 DEF TypeParts, FilesOK, SystemOK

LEMMA DNSTyped == TypeParts /\ updateDNSServers => TypeParts'
<1> SUFFICES ASSUME TypeParts, updateDNSServers PROVE TypeParts'
  OBVIOUS
<1>1. PICK f \in files : files' = (files \ {f}) \cup {[f EXCEPT !.dns = TRUE]}
  BY DEF updateDNSServers
<1>2. [f EXCEPT !.dns = TRUE] \in ProfileType
  BY DEF TypeParts, FilesOK, ProfileType
<1>3. files' \subseteq ProfileType
  BY <1>1, <1>2 DEF TypeParts, FilesOK
<1> QED
  BY <1>3 DEF updateDNSServers, TypeParts, CallsOK, FilesOK, SystemOK, HistoryOK

\* Every step keeps the types.
LEMMA TypeStep == TypeParts /\ [Next]_vars => TypeParts'
<1> SUFFICES ASSUME TypeParts, [Next]_vars PROVE TypeParts'
  OBVIOUS
<1>1. ASSUME NEW i \in Calls, Step(i) PROVE TypeParts'
  BY <1>1, RestoreTyped, SaveTyped, SetHostnameTyped, WriteProfilesTyped, RestartTyped,
     RestoreHostnameTyped DEF Step
<1>2. ASSUME NEW i \in Calls, NEW n \in Networks,
             \/ \E name \in GivenNames : applyNetworks(i, n, name)
             \/ \E apply, dns \in BOOLEAN : GenerateConfig(i, n, apply, dns)
      PROVE  TypeParts'
  BY <1>2, ApplyTyped, GenerateTyped
<1>4. CASE UNCHANGED vars
  BY <1>4 DEF vars, TypeParts, CallsOK, FilesOK, SystemOK, HistoryOK
<1> QED
  BY <1>1, <1>2, <1>4, DNSTyped DEF Next, Installed

\* Type correctness of the profiles and of the calls, whatever fails.
THEOREM NMTypeCorrect == Spec => []TypeOK
<1>1. TypeParts => TypeOK
  BY DEF TypeParts, CallsOK, FilesOK, SystemOK, HistoryOK, CallType, HostnameType, LastType,
         Mishaps, Steps, TypeOK
<1> QED
  BY <1>1, InitTyped, TypeStep, PTL DEF Spec

-----------------------------------------------------------------------------
(* The copy of the original profiles *)

\* Where calls can be before the originals are saved: on the way to it, or, once
\* the installation has begun, past it without having come by.
BeforeSave == {"idle", "restore", "save"}
AroundSave == {"idle", "update", "reload", "hostnameBack"}

\* The inductive invariant: as long as nothing is saved nothing was written either,
\* except by an installation, after which nobody saves any more.
Pristine ==
  /\ saved \subseteq BootProfiles
  /\ ~saveDone => saved = {}
  /\ ~saveDone /\ ~installing =>
       files \subseteq BootProfiles /\ ~last.ok /\ \A j \in Calls : call[j].pc \in BeforeSave
  /\ ~saveDone /\ installing => \A j \in Calls : call[j].pc \in AroundSave

\* Before the first call nothing is saved and all files are those of the boot.
LEMMA InitPristine == Init => Pristine
BY NoCallType DEF Init, Pristine, BeforeSave

\* How the steps that begin, move on and end a call change where calls are.
LEMMA GotoMoves ==
  ASSUME TypeParts, NEW i \in Calls, NEW step, Goto(i, step)
  PROVE  /\ last' = last
         /\ \A j \in Calls : call'[j].pc = IF j = i THEN step ELSE call[j].pc
BY DEF TypeParts, CallsOK, CallType, Goto

LEMMA EndMoves ==
  ASSUME TypeParts, NEW i \in Calls, NEW ok, NEW mishap, End(i, ok, mishap)
  PROVE  \A j \in Calls : call'[j].pc = IF j = i THEN "idle" ELSE call[j].pc
BY NoCallType DEF TypeParts, CallsOK, End

LEMMA BeginMoves ==
  ASSUME TypeParts, NEW i \in Calls, NEW c, Begin(i, c)
  PROVE  /\ ~last'.ok
         /\ \A j \in Calls : call'[j].pc = IF j = i THEN c.pc ELSE call[j].pc
         /\ UNCHANGED <<files, saved, saveDone>>
BY NoCallType DEF TypeParts, CallsOK, Begin

\* After the save only the copy matters.
LEMMA AfterSave ==
  ASSUME Pristine, saveDone, UNCHANGED <<saved, saveDone>>
  PROVE  Pristine'
BY DEF Pristine

\* One lemma per action that can be taken before the save.
LEMMA RestorePristine ==
  ASSUME TypeParts, Pristine, NEW i \in Calls, RestoreOriginalNetworkConfig(i),
         UNCHANGED installing
  PROVE  Pristine'
<1>1. UNCHANGED <<saved, saveDone>> /\ call[i].pc = "restore"
  BY DEF RestoreOriginalNetworkConfig, At
<1>2. CASE saveDone
  BY <1>1, <1>2, AfterSave
<1>3. CASE ~saveDone
  <2>1. saved = {} /\ ~installing
    BY <1>1, <1>3 DEF Pristine, AroundSave, TypeParts, SystemOK
  <2>2. files' = files /\ Goto(i, "save")
    BY <2>1 DEF RestoreOriginalNetworkConfig
  <2> QED
    BY <1>1, <1>3, <2>1, <2>2, GotoMoves DEF Pristine, BeforeSave
<1> QED
  BY <1>2, <1>3

LEMMA SavePristine ==
  ASSUME TypeParts, Pristine, NEW i \in Calls, SaveOriginalNetworkConfig(i),
         UNCHANGED installing
  PROVE  Pristine'
<1>1. CASE saveDone
  BY <1>1, AfterSave DEF SaveOriginalNetworkConfig
<1>2. CASE ~saveDone
  <2>1. files \subseteq BootProfiles
    BY <1>2 DEF SaveOriginalNetworkConfig, At, Pristine, AroundSave, TypeParts, SystemOK
  <2>2. saveDone' /\ saved' \subseteq files
    BY <1>2 DEF SaveOriginalNetworkConfig
  <2> QED
    BY <2>1, <2>2 DEF Pristine
<1> QED
  BY <1>1, <1>2

\* The steps behind the save: taken before it only by an installation.
LEMMA InstallPristine ==
  ASSUME TypeParts, Pristine, NEW i \in Calls, UNCHANGED <<saved, saveDone, installing>>,
         call[i].pc \in {"hostname", "update", "reload", "hostnameBack"},
         \A j \in Calls : j # i => call'[j].pc = call[j].pc,
         call[i].pc # "hostname" => call'[i].pc \in AroundSave
  PROVE  Pristine'
<1>1. CASE saveDone
  BY <1>1, AfterSave
<1>2. CASE ~saveDone
  <2>1. installing /\ call[i].pc # "hostname"
    BY <1>2 DEF Pristine, BeforeSave, AroundSave, TypeParts, SystemOK
  <2> QED
    BY <1>2, <2>1 DEF Pristine
<1> QED
  BY <1>1, <1>2

LEMMA SetHostnamePristine ==
  ASSUME TypeParts, Pristine, NEW i \in Calls, SetHostname(i), UNCHANGED installing
  PROVE  Pristine'
<1>1. UNCHANGED <<saved, saveDone>> /\ call[i].pc = "hostname"
  BY DEF SetHostname, At
<1>2. saveDone
  BY <1>1 DEF Pristine, BeforeSave, AroundSave, TypeParts, SystemOK
<1> QED
  BY <1>1, <1>2, AfterSave

LEMMA WriteProfilesPristine ==
  ASSUME TypeParts, Pristine, NEW i \in Calls, WriteProfiles(i), UNCHANGED installing
  PROVE  Pristine'
<1>1. UNCHANGED <<saved, saveDone>> /\ call[i].pc = "update"
  BY DEF WriteProfiles, At
<1>2. Goto(i, "reload") \/ End(i, TRUE, {}) \/ End(i, FALSE, {"update"})
  BY DEF WriteProfiles
<1>3. /\ \A j \in Calls : j # i => call'[j].pc = call[j].pc
      /\ call'[i].pc \in AroundSave
  BY <1>2, GotoMoves, EndMoves DEF AroundSave
<1> QED
  BY <1>1, <1>3, InstallPristine

LEMMA RestartPristine ==
  ASSUME TypeParts, Pristine, NEW i \in Calls, RestartNetworking(i), UNCHANGED installing
  PROVE  Pristine'
<1>1. UNCHANGED <<saved, saveDone>> /\ call[i].pc = "reload"
  BY DEF RestartNetworking, At
<1>2. Goto(i, "hostnameBack") \/ End(i, FALSE, {"update"})
  BY DEF RestartNetworking
<1>3. /\ \A j \in Calls : j # i => call'[j].pc = call[j].pc
      /\ call'[i].pc \in AroundSave
  BY <1>2, GotoMoves, EndMoves DEF AroundSave
<1> QED
  BY <1>1, <1>3, InstallPristine

LEMMA RestoreHostnamePristine ==
  ASSUME TypeParts, Pristine, NEW i \in Calls, RestoreHostname(i), UNCHANGED installing
  PROVE  Pristine'
<1>1. UNCHANGED <<saved, saveDone>> /\ call[i].pc = "hostnameBack"
  BY DEF RestoreHostname, At
<1>2. End(i, TRUE, {}) \/ End(i, TRUE, {"hostnamectl"})
  BY DEF RestoreHostname
<1>3. /\ \A j \in Calls : j # i => call'[j].pc = call[j].pc
      /\ call'[i].pc \in AroundSave
  BY <1>2, EndMoves DEF AroundSave
<1> QED
  BY <1>1, <1>3, InstallPristine

LEMMA ApplyPristine ==
  ASSUME TypeParts, Pristine, NEW i \in Calls, NEW n \in Networks, NEW name \in GivenNames,
         applyNetworks(i, n, name)
  PROVE  Pristine'
<1> DEFINE c == [NoCall EXCEPT !.pc = "restore", !.net = n, !.name = name, !.apply = TRUE]
<1>1. c.pc = "restore"
  BY NoCallType DEF CallType
<1>2. Begin(i, c) /\ ~installing /\ installing' = installing
  BY DEF applyNetworks
<1> HIDE DEF c
<1> QED
  BY <1>1, <1>2, BeginMoves DEF Pristine, BeforeSave

LEMMA GeneratePristine ==
  ASSUME TypeParts, Pristine, NEW i \in Calls, NEW n \in Networks, NEW apply \in BOOLEAN,
         NEW dns \in BOOLEAN, GenerateConfig(i, n, apply, dns)
  PROVE  Pristine'
<1> DEFINE c == [NoCall EXCEPT !.pc = "update", !.net = n, !.apply = apply, !.dns = dns]
<1>1. c.pc = "update"
  BY NoCallType DEF CallType
<1>2. Begin(i, c) /\ installing'
  BY DEF GenerateConfig
<1> HIDE DEF c
<1>3. saveDone \/ \A j \in Calls : call[j].pc = "idle"
  BY DEF GenerateConfig, Quiet, InProgress
<1> QED
  BY <1>1, <1>2, <1>3, BeginMoves DEF Pristine, AroundSave

\* The DNS page comes after a call that succeeded, which has saved.
LEMMA DNSPristine == TypeParts /\ Pristine /\ updateDNSServers => Pristine'
<1> SUFFICES ASSUME TypeParts, Pristine, updateDNSServers PROVE Pristine'
  OBVIOUS
<1>1. UNCHANGED <<saved, saveDone>> /\ saveDone
  BY DEF updateDNSServers, Pristine, TypeParts, SystemOK
<1> QED
  BY <1>1, AfterSave

\* Every step keeps the invariant.
LEMMA PristineStep == TypeParts /\ Pristine /\ [Next]_vars => Pristine'
<1> SUFFICES ASSUME TypeParts, Pristine, [Next]_vars PROVE Pristine'
  OBVIOUS
<1>1. ASSUME NEW i \in Calls, Step(i) PROVE Pristine'
  BY <1>1, RestorePristine, SavePristine, SetHostnamePristine, WriteProfilesPristine,
     RestartPristine, RestoreHostnamePristine DEF Step
<1>2. ASSUME NEW i \in Calls, NEW n \in Networks,
             \/ \E name \in GivenNames : applyNetworks(i, n, name)
             \/ \E apply, dns \in BOOLEAN : GenerateConfig(i, n, apply, dns)
      PROVE  Pristine'
  BY <1>2, ApplyPristine, GeneratePristine
<1>3. CASE UNCHANGED vars
  BY <1>3 DEF vars, Pristine
<1> QED
  BY <1>1, <1>2, <1>3, DNSPristine DEF Next, Installed

\* What RestoreOriginalNetworkConfig writes back was found at boot, whatever failed
\* and however the calls of applyNetworks overlapped.
THEOREM OriginalsStayPristine == Spec => []OriginalsPristine
<1>1. Pristine => OriginalsPristine
  BY DEF Pristine, OriginalsPristine
<1> QED
  BY <1>1, InitTyped, TypeStep, InitPristine, PristineStep, PTL DEF Spec
-----------------------------------------------------------------------------
(* What a call that succeeded leaves behind *)

Busy(i) == call[i].pc # "idle"

\* The profiles of call i are on disk and no others.
OnDisk(i) == files = Profiles(call[i].net, call[i].dns)

\* What the caller of the call that ended last may rely on.
Result ==
  /\ \E d \in BOOLEAN : files = Profiles(last.net, d)
  /\ last.apply => nm.on /\ nm.current

\* The inductive invariant: without an overlap one call runs at a time and the last
\* result is forgotten when it begins, so that nobody writes behind its back.
Applied ==
  "overlap" \notin mishaps =>
    /\ \A i, j \in Calls : Busy(i) /\ Busy(j) => i = j
    /\ \A i \in Calls : call[i].pc \in {"reload", "hostnameBack"} => OnDisk(i) /\ call[i].apply
    /\ \A i \in Calls : call[i].pc = "hostnameBack" => nm.on /\ nm.current
    /\ last.ok => (\A i \in Calls : ~Busy(i)) /\ Result

LEMMA InitApplied == Init => Applied
BY NoCallType DEF Init, Applied, Busy

\* A call moves to a step for which it has done what the step relies on.
LEMMA MoveApplied ==
  ASSUME TypeParts, Applied, NEW i \in Calls, Busy(i),
         \A j \in Calls : j # i => call'[j] = call[j],
         last' = last, mishaps \subseteq mishaps',
         call'[i].pc \in {"reload", "hostnameBack"} => OnDisk(i)' /\ call'[i].apply,
         call'[i].pc = "hostnameBack" => nm'.on /\ nm'.current
  PROVE  Applied'
<1> SUFFICES ASSUME "overlap" \notin mishaps' PROVE Applied'
  BY DEF Applied
<1>1. "overlap" \notin mishaps /\ \A j \in Calls : j # i => ~Busy(j)
  BY DEF Applied
<1>2. \A j \in Calls : j # i => call'[j].pc = "idle"
  BY <1>1 DEF Busy
<1>3. ~last'.ok
  BY <1>1 DEF Applied
<1> QED
  BY <1>2, <1>3 DEF Applied, Busy

\* A call ends: with an error nothing is owed, with success its result.
LEMMA EndApplied ==
  ASSUME TypeParts, Applied, NEW i \in Calls, Busy(i), NEW ok \in BOOLEAN, NEW mishap,
         End(i, ok, mishap),
         "overlap" \notin mishaps /\ ok => OnDisk(i) /\ files' = files,
         "overlap" \notin mishaps /\ ok /\ call[i].apply => nm'.on /\ nm'.current
  PROVE  Applied'
<1> SUFFICES ASSUME "overlap" \notin mishaps' PROVE Applied'
  BY DEF Applied
<1>1. "overlap" \notin mishaps /\ \A j \in Calls : j # i => ~Busy(j)
  BY DEF Applied, End
<1>2. \A j \in Calls : call'[j].pc = "idle"
  BY <1>1, EndMoves DEF Busy
<1>3. ASSUME last'.ok PROVE Result'
  <2>1. ok /\ last' = [ok |-> TRUE, net |-> call[i].net, apply |-> call[i].apply]
    BY <1>3, NoCallType DEF End
  <2>2. files' = Profiles(last'.net, call[i].dns) /\ call[i].dns \in BOOLEAN
    BY <1>1, <2>1 DEF OnDisk, TypeParts, CallsOK, CallType
  <2> QED
    BY <1>1, <2>1, <2>2 DEF Result
<1> QED
  BY <1>2, <1>3 DEF Applied, Busy

\* A call on its way to a step that relies on nothing.
LEMMA GotoApplied ==
  ASSUME TypeParts, Applied, NEW i \in Calls, Busy(i), NEW step, Goto(i, step),
         step \notin {"reload", "hostnameBack"}
  PROVE  Applied'
<1>1. /\ \A j \in Calls : j # i => call'[j] = call[j]
      /\ last' = last /\ mishaps' = mishaps /\ call'[i].pc = step
  BY GotoMoves DEF Goto, TypeParts, CallsOK
<1> QED
  BY <1>1, MoveApplied

LEMMA FailApplied ==
  ASSUME TypeParts, Applied, NEW i \in Calls, Busy(i), NEW mishap, End(i, FALSE, mishap)
  PROVE  Applied'
BY EndApplied

LEMMA RestoreApplied ==
  ASSUME TypeParts, Applied, NEW i \in Calls, RestoreOriginalNetworkConfig(i)
  PROVE  Applied'
BY GotoApplied, FailApplied DEF RestoreOriginalNetworkConfig, At, Busy

LEMMA SaveApplied ==
  ASSUME TypeParts, Applied, NEW i \in Calls, SaveOriginalNetworkConfig(i)
  PROVE  Applied'
BY GotoApplied, FailApplied DEF SaveOriginalNetworkConfig, At, Busy

\* The name is remembered on the way.
LEMMA SetHostnameApplied ==
  ASSUME TypeParts, Applied, NEW i \in Calls, SetHostname(i)
  PROVE  Applied'
<1>1. Busy(i)
  BY DEF SetHostname, At, Busy
<1>2. ASSUME NEW p, call' = [call EXCEPT ![i].pc = "update", ![i].prev = p],
             last' = last, mishaps \subseteq mishaps'
      PROVE  Applied'
  <2>1. call'[i].pc = "update" /\ \A j \in Calls : j # i => call'[j] = call[j]
    BY <1>2 DEF TypeParts, CallsOK, CallType
  <2> QED
    BY <1>1, <1>2, <2>1, MoveApplied
<1>3. CASE Goto(i, "update") \/ End(i, FALSE, {"hostnamectl"})
  BY <1>1, <1>3, GotoApplied, FailApplied
<1>4. CASE call[i].name = Blank
  <2>1. last' = last /\ mishaps \subseteq mishaps'
    BY <1>4 DEF SetHostname
  <2>2. \E p : call' = [call EXCEPT ![i].pc = "update", ![i].prev = p]
    BY <1>4 DEF SetHostname
  <2> QED
    BY <1>2, <2>1, <2>2
<1> QED
  BY <1>3, <1>4 DEF SetHostname

\* The profiles that were just written are the call's own.
LEMMA WriteProfilesApplied ==
  ASSUME TypeParts, Applied, NEW i \in Calls, WriteProfiles(i)
  PROVE  Applied'
<1>1. Busy(i)
  BY DEF WriteProfiles, At, Busy
<1>2. CASE End(i, FALSE, {"update"})
  BY <1>1, <1>2, FailApplied
<1>3. CASE Write(Rewritten(i)) /\ call[i].apply /\ Goto(i, "reload")
  <2>1. /\ \A j \in Calls : j # i => call'[j] = call[j]
        /\ last' = last /\ mishaps' = mishaps
        /\ call'[i].pc = "reload" /\ call'[i].net = call[i].net
        /\ call'[i].dns = call[i].dns /\ call'[i].apply = call[i].apply
    BY <1>3 DEF Goto, TypeParts, CallsOK, CallType
  <2>2. OnDisk(i)'
    BY <1>3, <2>1 DEF Write, Rewritten, OnDisk
  <2> QED
    BY <1>1, <1>3, <2>1, <2>2, MoveApplied
<1>4. CASE Write(Rewritten(i)) /\ ~call[i].apply /\ End(i, TRUE, {})
  <2> SUFFICES ASSUME "overlap" \notin mishaps' PROVE Applied'
    BY DEF Applied
  <2>0. "overlap" \notin mishaps
    BY <1>4 DEF End
  <2>1. \A j \in Calls : call'[j].pc = "idle"
    BY <1>1, <1>4, <2>0, EndMoves DEF Applied, Busy
  <2>2. last' = [ok |-> TRUE, net |-> call[i].net, apply |-> call[i].apply]
    BY <1>4 DEF End
  <2>3. files' = Profiles(last'.net, call[i].dns) /\ call[i].dns \in BOOLEAN /\ ~last'.apply
    BY <1>4, <2>2 DEF Write, Rewritten, TypeParts, CallsOK, CallType
  <2>4. Result'
    BY <2>3 DEF Result
  <2> QED
    BY <2>1, <2>4 DEF Applied, Busy
<1> QED
  BY <1>2, <1>3, <1>4 DEF WriteProfiles

LEMMA RestartApplied ==
  ASSUME TypeParts, Applied, NEW i \in Calls, RestartNetworking(i)
  PROVE  Applied'
<1>1. Busy(i) /\ call[i].pc = "reload" /\ files' = files
  BY DEF RestartNetworking, At, Busy
<1>2. CASE End(i, FALSE, {"update"})
  BY <1>1, <1>2, FailApplied
<1>3. CASE Connect(call[i].net) /\ Goto(i, "hostnameBack")
  <2>1. /\ \A j \in Calls : j # i => call'[j] = call[j]
        /\ last' = last /\ mishaps' = mishaps
        /\ call'[i].pc = "hostnameBack" /\ call'[i].net = call[i].net
        /\ call'[i].dns = call[i].dns /\ call'[i].apply = call[i].apply
    BY <1>3 DEF Goto, TypeParts, CallsOK, CallType
  <2>2. nm'.on /\ nm'.current
    BY <1>3 DEF Connect
  <2> SUFFICES ASSUME "overlap" \notin mishaps' PROVE Applied'
    BY DEF Applied
  <2>3. OnDisk(i)' /\ call'[i].apply
    BY <1>1, <2>1 DEF Applied, OnDisk
  <2> QED
    BY <1>1, <2>1, <2>2, <2>3, MoveApplied
<1> QED
  BY <1>2, <1>3 DEF RestartNetworking

LEMMA RestoreHostnameApplied ==
  ASSUME TypeParts, Applied, NEW i \in Calls, RestoreHostname(i)
  PROVE  Applied'
<1>1. Busy(i) /\ call[i].pc = "hostnameBack" /\ files' = files /\ nm' = nm
  BY DEF RestoreHostname, At, Busy
<1>2. "overlap" \notin mishaps => OnDisk(i) /\ nm.on /\ nm.current
  BY <1>1 DEF Applied
<1>3. \E mishap : End(i, TRUE, mishap)
  BY DEF RestoreHostname
<1> QED
  BY <1>1, <1>2, <1>3, EndApplied

\* A call that begins alone has forgotten the last result and relies on nothing.
LEMMA BeginApplied ==
  ASSUME TypeParts, Applied, NEW i \in Calls, NEW c, Begin(i, c), c.pc \in {"restore", "update"}
  PROVE  Applied'
<1> SUFFICES ASSUME "overlap" \notin mishaps' PROVE Applied'
  BY DEF Applied
<1>1. \A j \in Calls : call[j].pc = "idle"
  BY DEF Begin, Quiet, InProgress
<1>2. \A j \in Calls : call'[j].pc = IF j = i THEN c.pc ELSE "idle"
  BY <1>1, BeginMoves
<1> QED
  BY <1>2, BeginMoves DEF Applied, Busy

LEMMA CallerApplied ==
  ASSUME TypeParts, Applied, NEW i \in Calls, NEW n \in Networks,
         \/ \E name \in GivenNames : applyNetworks(i, n, name)
         \/ \E apply, dns \in BOOLEAN : GenerateConfig(i, n, apply, dns)
  PROVE  Applied'
<1>1. CASE \E name \in GivenNames : applyNetworks(i, n, name)
  <2>1. PICK name \in GivenNames : applyNetworks(i, n, name)
    BY <1>1
  <2> DEFINE c == [NoCall EXCEPT !.pc = "restore", !.net = n, !.name = name, !.apply = TRUE]
  <2>2. Begin(i, c) /\ c.pc = "restore"
    BY <2>1, NoCallType DEF applyNetworks, CallType
  <2> QED
    BY <2>2, BeginApplied
<1>2. CASE \E apply, dns \in BOOLEAN : GenerateConfig(i, n, apply, dns)
  <2>1. PICK apply, dns \in BOOLEAN : GenerateConfig(i, n, apply, dns)
    BY <1>2
  <2> DEFINE c == [NoCall EXCEPT !.pc = "update", !.net = n, !.apply = apply, !.dns = dns]
  <2>2. Begin(i, c) /\ c.pc = "update"
    BY <2>1, NoCallType DEF GenerateConfig, CallType
  <2> QED
    BY <2>2, BeginApplied
<1> QED
  BY <1>1, <1>2

-----------------------------------------------------------------------------
(* The profile that has the address *)

\* The profile of network n that has the address, and the rest.
AddressProfile(n, d) == Profile(DNSConnection(n.vlan), Blank, n, n.method, d)
Others(n) ==
  updateBond(n) \cup (IF needVlanInterface(n.vlan)
                      THEN {Profile("bridge-mgmt", Blank, n, "none", FALSE)} ELSE {})

Vlans == 0..4094

LEMMA VlanBounds ==
  ASSUME NEW v \in Vlans
  PROVE  /\ needVlanInterface(v) => DNSConnection(v) = "vlan-mgmt"
         /\ ~needVlanInterface(v) => DNSConnection(v) = "bridge-mgmt"
BY DEF Vlans, needVlanInterface, DNSConnection

\* Profiles with the same parts are the same.
LEMMA SameProfile ==
  ASSUME NEW f \in ProfileType, NEW g \in ProfileType,
         f.kind = g.kind, f.nic = g.nic, f.of = g.of, f.method = g.method, f.dns = g.dns
  PROVE  f = g
BY DEF ProfileType

\* util.go and cos.go agree which connection that is, for every VLAN the page accepts.
LEMMA AddressAlone ==
  ASSUME NEW n \in Networks, NEW d \in BOOLEAN
  PROVE  /\ Profiles(n, d) = Others(n) \cup {AddressProfile(n, d)}
         /\ \A f \in Others(n) : f.kind # DNSConnection(n.vlan) /\ f.method = "none"
<1>1. n.vlan \in Vlans
  BY NetworksAssumption DEF Vlans
<1>2. CASE needVlanInterface(n.vlan)
  <2>1. needVlanInterface(n.vlan) /\ DNSConnection(n.vlan) = "vlan-mgmt"
    BY <1>1, <1>2, VlanBounds, Zenon
  <2>2. \A f \in Others(n) : f.kind # "vlan-mgmt" /\ f.method = "none"
    BY <2>1 DEF Others, updateBond, Profile
  <2>3. Profiles(n, d) = Others(n) \cup {AddressProfile(n, d)}
    BY <2>1, Zenon DEF Profiles, updateBridge, Others, AddressProfile
  <2> QED
    BY <2>1, <2>2, <2>3
<1>3. CASE ~needVlanInterface(n.vlan)
  <2>1. ~needVlanInterface(n.vlan) /\ DNSConnection(n.vlan) = "bridge-mgmt"
    BY <1>1, <1>3, VlanBounds, Zenon
  <2>2. \A f \in Others(n) : f.kind # "bridge-mgmt" /\ f.method = "none"
    BY <2>1 DEF Others, updateBond, Profile
  <2>3. Profiles(n, d) = Others(n) \cup {AddressProfile(n, d)}
    BY <2>1, Zenon DEF Profiles, updateBridge, Others, AddressProfile
  <2> QED
    BY <2>1, <2>2, <2>3
<1> QED
  BY <1>2, <1>3

\* The DNS page changes the profiles of a network to those of the same network with
\* DNS servers.
LEMMA DNSApplied == TypeParts /\ Applied /\ updateDNSServers => Applied'
<1> SUFFICES ASSUME TypeParts, Applied, updateDNSServers, "overlap" \notin mishaps'
             PROVE  Applied'
  BY DEF Applied
<1>1. UNCHANGED <<nm, call, last, mishaps>> /\ last.ok /\ "overlap" \notin mishaps
  BY DEF updateDNSServers
<1>2. Result /\ \A i \in Calls : ~Busy(i)
  BY <1>1 DEF Applied
<1> DEFINE n == last.net
<1>3. n \in Networks
  BY DEF TypeParts, HistoryOK, LastType
<1>4. PICK d \in BOOLEAN : files = Profiles(n, d)
  BY <1>2 DEF Result
<1>5. PICK f \in files : /\ f.kind = DNSConnection(n.vlan)
                         /\ files' = (files \ {f}) \cup {[f EXCEPT !.dns = TRUE]}
  BY DEF updateDNSServers
<1> HIDE DEF n
<1>6. f = AddressProfile(n, d) /\ files \ {f} = Others(n)
  BY <1>3, <1>4, <1>5, AddressAlone
<1>7. [f EXCEPT !.dns = TRUE] = AddressProfile(n, TRUE)
  <2> DEFINE g == AddressProfile(n, TRUE)
             h == [f EXCEPT !.dns = TRUE]
  <2>1. f \in ProfileType /\ g \in ProfileType
    BY <1>3, <1>4, AddressAlone, ProfilesTyped
  <2>2. h \in ProfileType
    BY <2>1 DEF ProfileType
  <2>3. h.kind = f.kind /\ h.nic = f.nic /\ h.of = f.of /\ h.method = f.method /\ h.dns = TRUE
    BY <2>1 DEF ProfileType
  <2>4. g.kind = f.kind /\ g.nic = f.nic /\ g.of = f.of /\ g.method = f.method /\ g.dns = TRUE
    BY <1>6 DEF AddressProfile, Profile
  <2> HIDE DEF g, h
  <2>5. g = h
    BY <2>1, <2>2, <2>3, <2>4, SameProfile
  <2> QED
    BY <2>5 DEF g, h
<1>8. files' = Profiles(n, TRUE)
  BY <1>3, <1>5, <1>6, <1>7, AddressAlone
<1>9. Result'
  BY <1>1, <1>2, <1>8 DEF Result, n
<1> QED
  BY <1>1, <1>2, <1>9 DEF Applied, Busy

LEMMA AppliedStep == TypeParts /\ Applied /\ [Next]_vars => Applied'
<1> SUFFICES ASSUME TypeParts, Applied, [Next]_vars PROVE Applied'
  OBVIOUS
<1>1. ASSUME NEW i \in Calls, Step(i) PROVE Applied'
  BY <1>1, RestoreApplied, SaveApplied, SetHostnameApplied, WriteProfilesApplied,
     RestartApplied, RestoreHostnameApplied DEF Step
<1>2. CASE UNCHANGED vars
  BY <1>2 DEF vars, Applied, Busy, OnDisk, Result
<1> QED
  BY <1>1, <1>2, CallerApplied, DNSApplied DEF Next, Installed

\* A call of applyNetworks or of the installation that reports success leaves exactly
\* the profiles of its network, for all networks, all profiles found at boot and
\* whatever failed before, as long as calls did not overlap.
THEOREM SuccessAppliesExactly == Spec => []AppliedExactly
<1>1. Applied => AppliedExactly
  BY DEF Applied, AppliedExactly, Result
<1> QED
  BY <1>1, InitTyped, TypeStep, InitApplied, AppliedStep, PTL DEF Spec

\* The DNS page and the writer of the profiles agree where the address is, for every
\* VLAN number.
THEOREM DNSMeetsAddress == Spec => []DNSReachesAddress
<1>1. TypeParts /\ Applied => DNSReachesAddress
  <2> SUFFICES ASSUME TypeParts, Applied, last.ok, "overlap" \notin mishaps,
                      last.net.method # "none"
               PROVE  {f.kind : f \in {g \in files : g.method # "none"}}
                        = {DNSConnection(last.net.vlan)}
    BY DEF DNSReachesAddress
  <2> DEFINE n == last.net
  <2>1. PICK d \in BOOLEAN : files = Profiles(n, d)
    BY DEF Applied, Result
  <2>2. n \in Networks
    BY DEF TypeParts, HistoryOK, LastType
  <2>3. /\ AddressProfile(n, d).kind = DNSConnection(n.vlan)
        /\ AddressProfile(n, d).method # "none"
    BY DEF AddressProfile, Profile
  <2>4. {g \in files : g.method # "none"} = {AddressProfile(n, d)}
    BY <2>1, <2>2, <2>3, AddressAlone
  <2> QED
    BY <2>3, <2>4
<1> QED
  BY <1>1, InitTyped, TypeStep, InitApplied, AppliedStep, PTL DEF Spec

-----------------------------------------------------------------------------
(* The host name *)

\* Call i has cleared the name, knows the one to restore, and will come by.
WillRestore(i) ==
  /\ call[i].pc \in {"update", "reload", "hostnameBack"}
  /\ call[i].apply /\ call[i].name = Blank
  /\ call[i].prev \notin {Blank, Cleared}

\* The inductive invariant: while nothing failed, a cleared name is owed by a call.
Named ==
  mishaps = {} => /\ \A i \in Calls : call[i].pc \in {"restore", "save", "hostname"} => call[i].apply
                  /\ hostname = Cleared => \E i \in Calls : WillRestore(i)

LEMMA InitNamed == Init => Named
BY NoCallType, HostnameAssumption DEF Init, Named

\* A call that moves on without touching the name still owes what it owed.
LEMMA GotoNamed ==
  ASSUME TypeParts, Named, NEW i \in Calls, NEW step, Goto(i, step), hostname' \in {hostname, FromDHCP},
         step \in {"save", "hostname"} => call[i].pc \in {"restore", "save"},
         step \in {"save", "hostname", "update", "reload", "hostnameBack"},
         call[i].pc \in {"update", "reload"} => step \in {"reload", "hostnameBack"},
         call[i].pc # "hostnameBack"
  PROVE  Named'
<1>1. mishaps' = mishaps
  BY DEF Goto
<1>2. \A j \in Calls : /\ call'[j].apply = call[j].apply /\ call'[j].name = call[j].name
                       /\ call'[j].prev = call[j].prev
                       /\ call'[j].pc = IF j = i THEN step ELSE call[j].pc
  BY DEF Goto, TypeParts, CallsOK, CallType
<1>3. \A j \in Calls : WillRestore(j) => WillRestore(j)'
  BY <1>2 DEF WillRestore
<1>4. hostname' = Cleared => hostname = Cleared
  BY DEF FromDHCP, Cleared
<1> QED
  BY <1>1, <1>2, <1>3, <1>4 DEF Named

\* A call that ends with a mishap owes nothing.
LEMMA MishapNamed ==
  ASSUME NEW i \in Calls, NEW ok, NEW m, End(i, ok, {m})
  PROVE  Named'
BY DEF End, Named

\* While nothing failed, one call runs at a time.
LEMMA OneCall ==
  ASSUME Applied, mishaps = {}, NEW i \in Calls, Busy(i), NEW j \in Calls, Busy(j)
  PROVE  i = j
BY DEF Applied

LEMMA SetHostnameNamed ==
  ASSUME TypeParts, Applied, Named, NEW i \in Calls, SetHostname(i)
  PROVE  Named'
<1> SUFFICES ASSUME mishaps' = {} PROVE Named'
  BY DEF Named
<1>1. call[i].pc = "hostname"
  BY DEF SetHostname, At
<1>2. mishaps = {}
  BY DEF SetHostname, Goto, End
<1>3. hostname # Cleared /\ call[i].apply
  BY <1>1, <1>2, OneCall DEF Named, WillRestore, Busy
<1>4. CASE call[i].name = Blank
  <2>1. call' = [call EXCEPT ![i].pc = "update", ![i].prev = hostname]
    BY <1>4 DEF SetHostname
  <2>2. hostname # Blank
    BY HostnameAssumption DEF TypeParts, SystemOK, HostnameType, Blank, Cleared, FromDHCP
  <2>3. \A j \in Calls : call'[j].apply = call[j].apply
                         /\ call'[j].pc = IF j = i THEN "update" ELSE call[j].pc
    BY <2>1 DEF TypeParts, CallsOK, CallType
  <2>4. call'[i].prev = hostname /\ call'[i].name = Blank
    BY <1>4, <2>1 DEF TypeParts, CallsOK, CallType
  <2>5. WillRestore(i)'
    BY <1>3, <2>2, <2>3, <2>4 DEF WillRestore
  <2> QED
    BY <1>2, <2>3, <2>5 DEF Named
<1>5. CASE call[i].name # Blank
  <2>1. hostname' = call[i].name /\ Goto(i, "update")
    BY <1>5 DEF SetHostname, End
  <2>2. hostname' # Cleared
    BY <1>5, <2>1, HostnameAssumption DEF TypeParts, CallsOK, CallType
  <2>3. \A j \in Calls : call'[j].apply = call[j].apply
    BY <2>1 DEF Goto, TypeParts, CallsOK, CallType
  <2> QED
    BY <1>2, <2>1, <2>2, <2>3, GotoMoves DEF Named
<1> QED
  BY <1>4, <1>5

LEMMA WriteProfilesNamed ==
  ASSUME TypeParts, Applied, Named, NEW i \in Calls, WriteProfiles(i)
  PROVE  Named'
<1>1. call[i].pc = "update" /\ hostname' = hostname
  BY DEF WriteProfiles, At
<1>2. CASE End(i, FALSE, {"update"})
  BY <1>2, MishapNamed
<1>3. CASE Goto(i, "reload")
  BY <1>1, <1>3, GotoNamed
<1>4. CASE ~call[i].apply /\ End(i, TRUE, {})
  <2> SUFFICES ASSUME mishaps' = {} PROVE Named'
    BY DEF Named
  <2>1. mishaps = {}
    BY <1>4 DEF End
  <2>2. hostname # Cleared
    BY <1>1, <1>4, <2>1, OneCall DEF Named, WillRestore, Busy
  <2>3. \A j \in Calls : j # i => call'[j] = call[j]
    BY <1>4 DEF End, TypeParts, CallsOK
  <2> QED
    BY <1>1, <1>4, <2>1, <2>2, <2>3, EndMoves DEF Named
<1> QED
  BY <1>2, <1>3, <1>4 DEF WriteProfiles

LEMMA RestoreHostnameNamed ==
  ASSUME TypeParts, Applied, Named, NEW i \in Calls, RestoreHostname(i)
  PROVE  Named'
<1>1. call[i].pc = "hostnameBack"
  BY DEF RestoreHostname, At
<1>2. CASE End(i, TRUE, {"hostnamectl"})
  BY <1>2, MishapNamed
<1>3. CASE /\ hostname' = IF call[i].name = Blank /\ call[i].prev # Blank /\ hostname = Cleared
                          THEN call[i].prev ELSE hostname
           /\ End(i, TRUE, {})
  <2> SUFFICES ASSUME mishaps' = {} PROVE Named'
    BY DEF Named
  <2>1. mishaps = {}
    BY <1>3 DEF End
  <2>2. hostname = Cleared => WillRestore(i)
    BY <1>1, <2>1, OneCall DEF Named, WillRestore, Busy
  <2>3. hostname' # Cleared
    BY <1>3, <2>2 DEF WillRestore
  <2>4. \A j \in Calls : j # i => call'[j] = call[j]
    BY <1>3 DEF End, TypeParts, CallsOK
  <2> QED
    BY <1>1, <1>3, <2>1, <2>3, <2>4, EndMoves DEF Named
<1> QED
  BY <1>2, <1>3 DEF RestoreHostname

LEMMA EarlyStepNamed ==
  ASSUME TypeParts, Named, NEW i \in Calls,
         RestoreOriginalNetworkConfig(i) \/ SaveOriginalNetworkConfig(i) \/ RestartNetworking(i)
  PROVE  Named'
<1>1. CASE RestoreOriginalNetworkConfig(i)
  BY <1>1, GotoNamed, MishapNamed DEF RestoreOriginalNetworkConfig, At
<1>2. CASE SaveOriginalNetworkConfig(i)
  BY <1>2, GotoNamed, MishapNamed DEF SaveOriginalNetworkConfig, At
<1>3. CASE RestartNetworking(i)
  <2>1. call[i].pc = "reload" /\ hostname' \in {hostname, FromDHCP}
    BY <1>3 DEF RestartNetworking, At, Connect
  <2>2. Goto(i, "hostnameBack") \/ End(i, FALSE, {"update"})
    BY <1>3 DEF RestartNetworking
  <2> QED
    BY <2>1, <2>2, GotoNamed, MishapNamed
<1> QED
  BY <1>1, <1>2, <1>3

\* A call that begins without an overlap finds the name as it was.
LEMMA BeginNamed ==
  ASSUME TypeParts, Named, NEW i \in Calls, NEW c, Begin(i, c),
         c.pc \in {"restore", "save", "hostname"} => c.apply
  PROVE  Named'
<1> SUFFICES ASSUME mishaps' = {} PROVE Named'
  BY DEF Named
<1>1. mishaps = {} /\ \A j \in Calls : call[j].pc = "idle"
  BY DEF Begin, Quiet, InProgress
<1>2. hostname' # Cleared
  BY <1>1 DEF Begin, Named, WillRestore
<1>3. \A j \in Calls : call'[j] = IF j = i THEN c ELSE call[j]
  BY DEF Begin, TypeParts, CallsOK
<1> QED
  BY <1>1, <1>2, <1>3 DEF Named

LEMMA CallerNamed ==
  ASSUME TypeParts, Named, NEW i \in Calls, NEW n \in Networks,
         \/ \E name \in GivenNames : applyNetworks(i, n, name)
         \/ \E apply, dns \in BOOLEAN : GenerateConfig(i, n, apply, dns)
  PROVE  Named'
<1>1. CASE \E name \in GivenNames : applyNetworks(i, n, name)
  <2>1. PICK name \in GivenNames : applyNetworks(i, n, name)
    BY <1>1
  <2> DEFINE c == [NoCall EXCEPT !.pc = "restore", !.net = n, !.name = name, !.apply = TRUE]
  <2>2. Begin(i, c) /\ c.apply
    BY <2>1, NoCallType DEF applyNetworks, CallType
  <2> QED
    BY <2>2, BeginNamed
<1>2. CASE \E apply, dns \in BOOLEAN : GenerateConfig(i, n, apply, dns)
  <2>1. PICK apply, dns \in BOOLEAN : GenerateConfig(i, n, apply, dns)
    BY <1>2
  <2> DEFINE c == [NoCall EXCEPT !.pc = "update", !.net = n, !.apply = apply, !.dns = dns]
  <2>2. Begin(i, c) /\ c.pc = "update"
    BY <2>1, NoCallType DEF GenerateConfig, CallType
  <2> QED
    BY <2>2, BeginNamed
<1> QED
  BY <1>1, <1>2

LEMMA NamedStep == TypeParts /\ Applied /\ Named /\ [Next]_vars => Named'
<1> SUFFICES ASSUME TypeParts, Applied, Named, [Next]_vars PROVE Named'
  OBVIOUS
<1>1. ASSUME NEW i \in Calls, Step(i) PROVE Named'
  BY <1>1, EarlyStepNamed, SetHostnameNamed, WriteProfilesNamed, RestoreHostnameNamed DEF Step
<1>2. CASE UNCHANGED vars \/ updateDNSServers
  BY <1>2 DEF vars, updateDNSServers, Named, WillRestore
<1> QED
  BY <1>1, <1>2, CallerNamed DEF Next, Installed

\* The live system keeps a name: for all networks and host names, as long as every
\* command succeeds and calls do not overlap, no call leaves the name cleared.
THEOREM HostnameStays == Spec => []HostnameKept
<1>1. Named => HostnameKept
  <2> SUFFICES ASSUME Named, Quiet, mishaps = {} PROVE hostname # Cleared
    BY DEF HostnameKept
  <2>1. \A i \in Calls : call[i].pc = "idle"
    BY DEF Quiet, InProgress
  <2> QED
    BY <2>1 DEF Named, WillRestore
<1> QED
  BY <1>1, InitTyped, TypeStep, InitApplied, AppliedStep, InitNamed, NamedStep, PTL DEF Spec
===============================================================================
