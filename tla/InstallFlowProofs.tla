-------------------------- MODULE InstallFlowProofs --------------------------
(***************************************************************************)
(* InstallFlow keeps its types; what it writes to a disk was cleared and   *)
(* validated, what it reports is true and what it wipes on its own are     *)
(* other disks: for all configurations, disks, webhooks and failures.      *)
(***************************************************************************)
EXTENDS InstallFlow, FiniteSetTheorems, TLAPS

-----------------------------------------------------------------------------
(* Configurations *)

Texts == {"mode", "method", "vipMode", "vip", "vipHwAddr", "serverURL", "role", "device",
          "dataDisk"}
Switches == {"automatic", "configURL", "forceMBR", "forceGPT", "skipChecks", "rawImage",
             "wipeAllDisks"}
Fields == Texts \cup Switches \cup {"wipeDisks", "hooks"}

\* A configuration is a function on the fields, and one whose fields are typed is a
\* configuration.
LEMMA ConfigDomain ==
  ASSUME NEW c \in ConfigType
  PROVE  DOMAIN c = Fields
BY DEF ConfigType, Fields, Texts, Switches

LEMMA ConfigFromFields ==
  ASSUME NEW c, c = [f \in Fields |-> c[f]],
         \A f \in Texts : c[f] \in Text, \A f \in Switches : c[f] \in BOOLEAN,
         c["wipeDisks"] \in Seq(Text), c["hooks"] \in Seq(HookType)
  PROVE  c \in ConfigType
BY DEF ConfigType, Fields, Texts, Switches

LEMMA FieldTypes ==
  ASSUME NEW c \in ConfigType
  PROVE  /\ c = [f \in Fields |-> c[f]]
         /\ \A f \in Texts : c[f] \in Text
         /\ \A f \in Switches : c[f] \in BOOLEAN
         /\ c["wipeDisks"] \in Seq(Text) /\ c["hooks"] \in Seq(HookType)
BY DEF ConfigType, Texts, Switches, Fields

LEMMA FieldKinds ==
  /\ Texts \subseteq Fields \ {"wipeDisks", "hooks"}
  /\ Switches \subseteq Fields \ {"wipeDisks", "hooks"}
  /\ Texts \cap Switches = {} /\ "wipeDisks" \in Fields /\ "hooks" \in Fields
BY DEF Texts, Switches, Fields

\* Merging the remote file into a configuration gives a configuration.
LEMMA MergeTyped ==
  ASSUME NEW c \in ConfigType, NEW r \in ConfigType
  PROVE  Merge(c, r) \in ConfigType
<1> DEFINE m == Merge(c, r)
<1>1. m = [f \in Fields |-> m[f]]
  BY ConfigDomain DEF Merge
<1>2. \A f \in Fields \ {"wipeDisks", "hooks"} : m[f] \in {c[f], r[f]}
  BY ConfigDomain DEF Merge
<1>3. m["wipeDisks"] = c["wipeDisks"] \o r["wipeDisks"] /\ m["hooks"] = c["hooks"] \o r["hooks"]
  BY ConfigDomain DEF Merge, Fields
<1>4. m["wipeDisks"] \in Seq(Text) /\ m["hooks"] \in Seq(HookType)
  BY <1>3, FieldTypes
<1> HIDE DEF m
<1>5. \A f \in Texts : m[f] \in Text
  BY <1>2, FieldTypes, FieldKinds
<1>6. \A f \in Switches : m[f] \in BOOLEAN
  BY <1>2, FieldTypes, FieldKinds
<1>7. m \in ConfigType
  BY <1>1, <1>4, <1>5, <1>6, ConfigFromFields
<1> QED
  BY <1>7 DEF m

LEMMA ZeroTyped == ZeroConfig \in ConfigType
<1>1. <<>> \in Seq(Text) /\ <<>> \in Seq(HookType)
  OBVIOUS
<1> QED
  BY <1>1, TextAssumption, Zenon DEF ZeroConfig, ConfigType

\* The other changes an installation makes to its configuration.
LEMMA EditsTyped ==
  ASSUME NEW c \in ConfigType
  PROVE  /\ [c EXCEPT !.vip = "lease", !.vipHwAddr = "mac"] \in ConfigType
         /\ Normalised(c) \in ConfigType
         /\ c.serverURL \in DOMAIN FormattedURL
              => [c EXCEPT !.serverURL = FormattedURL[@]] \in ConfigType
         /\ Settled(c) \in ConfigType
         /\ [c EXCEPT !.configURL = TRUE] \in ConfigType
         /\ \A w \in Seq(Text) : [c EXCEPT !.wipeDisks = @ \o w] \in ConfigType
<1>1. [c EXCEPT !.vip = "lease", !.vipHwAddr = "mac"] \in ConfigType
  BY TextAssumption, Zenon DEF ConfigType
<1>2. Normalised(c) \in ConfigType
  <2>1. ToLower(c.method) \in Text /\ ToLower(c.vipMode) \in Text
    BY TextAssumption DEF ToLower, ConfigType
  <2> QED
    BY <2>1, Zenon DEF ConfigType, Normalised
<1>3. ASSUME c.serverURL \in DOMAIN FormattedURL
      PROVE  [c EXCEPT !.serverURL = FormattedURL[@]] \in ConfigType
  BY <1>3, URLAssumption DEF ConfigType
<1>4. Settled(c) \in ConfigType
  <2> DEFINE d == IF c.dataDisk = c.device THEN Blank ELSE c.dataDisk
             b == ~c.forceMBR
  <2>1. d \in Text /\ b \in BOOLEAN
    BY TextAssumption DEF ConfigType
  <2>2. Settled(c) = [c EXCEPT !.forceGPT = b, !.dataDisk = d]
    BY DEF Settled
  <2> HIDE DEF d, b
  <2>3. [c EXCEPT !.forceGPT = b, !.dataDisk = d] \in ConfigType
    BY <2>1, Zenon DEF ConfigType
  <2> QED
    BY <2>2, <2>3
<1>5. [c EXCEPT !.configURL = TRUE] \in ConfigType
  BY Zenon DEF ConfigType
<1>6. ASSUME NEW w \in Seq(Text) PROVE [c EXCEPT !.wipeDisks = @ \o w] \in ConfigType
  <2> DEFINE v == c.wipeDisks \o w
  <2>1. v \in Seq(Text)
    BY DEF ConfigType
  <2> HIDE DEF v
  <2>2. [c EXCEPT !.wipeDisks = v] \in ConfigType
    BY <2>1, Zenon DEF ConfigType
  <2> QED
    BY <2>2 DEF v
<1> QED
  BY <1>1, <1>2, <1>3, <1>4, <1>5, <1>6

\* Positions and elements of sequences.
LEMMA SeqDomain ==
  ASSUME NEW T, NEW q \in Seq(T)
  PROVE  Len(q) \in Nat /\ DOMAIN q = 1..Len(q) /\ DOMAIN q \subseteq Nat
OBVIOUS

LEMMA NextElement ==
  ASSUME NEW T, NEW p \in Seq(T), NEW q \in Seq(T), Len(p) < Len(q)
  PROVE  q[Len(p) + 1] \in T
OBVIOUS

\* The disks that doInstall adds: all options, each once, in some order.
LEMMA SetToSeqFacts ==
  ASSUME NEW S, IsFiniteSet(S)
  PROVE  /\ SetToSeq(S) \in Seq(S)
         /\ \A x \in S : \E i \in DOMAIN SetToSeq(S) : SetToSeq(S)[i] = x
<1> DEFINE n == Cardinality(S)
<1>1. n \in Nat /\ ExistsBijection(1..n, S)
  BY FS_CardinalityType
<1>2. \E f \in [1..n -> S] : IsInjective(f)
  BY <1>1 DEF ExistsBijection, Bijection, Injection
<1>3. SetToSeq(S) \in [1..n -> S] /\ IsInjective(SetToSeq(S))
  BY <1>2 DEF SetToSeq
<1>4. SetToSeq(S) \in Injection(1..n, S)
  BY <1>3 DEF Injection
<1>5. Cardinality(1..n) = n
  BY <1>1, FS_Interval
<1>6. SetToSeq(S) \in Surjection(1..n, S)
  BY <1>4, <1>5, FS_Injection
<1>7. SetToSeq(S) \in Seq(S)
  BY <1>1, <1>3
<1> QED
  BY <1>3, <1>6, <1>7 DEF Surjection

LEMMA WipeOptionsSeq ==
  ASSUME NEW c
  PROVE  /\ SetToSeq(WipeOptions(c)) \in Seq(Text)
         /\ SetToSeq(WipeOptions(c)) \in Seq(WipeOptions(c))
         /\ \A d \in WipeOptions(c) :
              \E i \in DOMAIN SetToSeq(WipeOptions(c)) : SetToSeq(WipeOptions(c))[i] = d
<1>1. WipeOptions(c) \subseteq Disks /\ WipeOptions(c) \subseteq Text
  BY DisksAssumption DEF WipeOptions
<1>2. IsFiniteSet(WipeOptions(c))
  BY <1>1, DisksAssumption, FS_Subset
<1>3. SetToSeq(WipeOptions(c)) \in Seq(WipeOptions(c))
  BY <1>2, SetToSeqFacts
<1>4. \A S, T : S \subseteq T => Seq(S) \subseteq Seq(T)
  OBVIOUS
<1> QED
  BY <1>1, <1>2, <1>3, <1>4, SetToSeqFacts

-----------------------------------------------------------------------------
(* Types *)

Steps == {"start", "fetch", "network", "vip", "serverURL", "preflight", "route",
          "validate", "webhooks", "report", "configure", "prepare", "stream",
          "layout", "wipe", "harvInstall", "reboot"} \cup Terminal
CallType == [event : Events \cup {Blank}, next : Nat, tries : 0..WebhookMaxRetries,
             then : {Blank, "configure", "prepare", "reboot", "ended"}]
States == {"none", "configured", "installed", "broken", "streamed"}

Messages == {Blank, "fail to load config", "fail to fetch config", "Can't apply networks",
             "fail to get vip", "server url invalid", "preflight warnings",
             "Failed to check default route", "no default route",
             "Invalid configuration", "Install failed"}

\* The parts of the type invariant.
ProgressOK == step \in Steps /\ said \in Messages /\ retries \in 0..FetchRetries
ConfigOK == cfg \in ConfigType /\ checked \in ConfigType
FlagsOK == /\ alreadyInstalled \in BOOLEAN /\ installModeOnly \in BOOLEAN
           /\ preflightAck \in BOOLEAN /\ warned \in BOOLEAN
           /\ online \in BOOLEAN /\ quitting \in BOOLEAN
WebhooksOK == /\ webhooks \in Seq(HookType) /\ call \in CallType
              /\ reports \subseteq [event : Events, hook : Nat]
\* A loop over the webhooks has an event and a step that follows.
CallOK == step = "report" => call.event # Blank /\ call.then # Blank
DisksOK == wiped \in Seq(Text) /\ os \in States

Typed == ProgressOK /\ ConfigOK /\ FlagsOK /\ WebhooksOK /\ CallOK /\ DisksOK

LEMMA NoCallTyped == NoCall \in CallType
BY RetriesAssumption DEF NoCall, CallType

LEMMA InitTyped == Init => Typed
<1> SUFFICES ASSUME Init PROVE Typed
  OBVIOUS
<1>1. ConfigOK
  BY ConfigsAssumption, ZeroTyped DEF Init, ConfigOK
<1>2. FlagsOK
  BY <1>1 DEF Init, FlagsOK, ConfigOK, ConfigType
<1>3. WebhooksOK
  BY NoCallTyped DEF Init, WebhooksOK
<1>4. ProgressOK /\ CallOK /\ DisksOK
  BY RetriesAssumption DEF Init, ProgressOK, CallOK, DisksOK, Steps, States, Messages
<1> QED
  BY <1>1, <1>2, <1>3, <1>4 DEF Typed

\* Completing the configuration changes it, and how far the installation got.
LEMMA CompletingTyped ==
  ASSUME Typed,
         \/ StartNetworkOfInstalledNode \/ FetchRemoteConfig \/ FetchFails \/ ApplyNetwork
         \/ GetVip \/ FormatServerURL
  PROVE  Typed'
<1> USE DEF Goto, GiveUp, switches, record
<1>1. /\ UNCHANGED <<alreadyInstalled, installModeOnly, preflightAck, warned, quitting>>
      /\ UNCHANGED <<webhooks, call, reports, wiped, os, checked>>
      /\ step' # "report"
  BY DEF StartNetworkOfInstalledNode, FetchRemoteConfig, FetchFails, ApplyNetwork, GetVip,
         FormatServerURL
<1>2. cfg' \in ConfigType
  BY MergeTyped, EditsTyped, ConfigsAssumption
     DEF Typed, ConfigOK, StartNetworkOfInstalledNode, FetchRemoteConfig, FetchFails,
         ApplyNetwork, GetVip, FormatServerURL
<1>3. step' \in Steps /\ said' \in Messages
  BY DEF Typed, ProgressOK, Messages, Steps, Terminal, StartNetworkOfInstalledNode,
         FetchRemoteConfig, FetchFails, ApplyNetwork, GetVip, FormatServerURL
<1>5. retries' \in 0..FetchRetries
  <2>1. retries' = retries \/ (retries # 0 /\ retries' = retries - 1)
    BY DEF RetriesAfterFailure, StartNetworkOfInstalledNode, FetchRemoteConfig, FetchFails,
           ApplyNetwork, GetVip, FormatServerURL
  <2> QED
    BY <2>1, RetriesAssumption DEF Typed, ProgressOK
<1>4. online' \in BOOLEAN
  BY DEF Typed, FlagsOK, StartNetworkOfInstalledNode, FetchRemoteConfig, FetchFails,
         ApplyNetwork, GetVip, FormatServerURL
<1> QED
  BY <1>1, <1>2, <1>3, <1>4, <1>5
     DEF Typed, ProgressOK, ConfigOK, FlagsOK, WebhooksOK, CallOK, DisksOK

LEMMA CheckingTyped ==
  ASSUME Typed, CheckWarnings \/ CheckDefaultRoute \/ ValidateConfig
  PROVE  Typed'
<1> USE DEF Goto, GiveUp, switches, record
<1>1. /\ UNCHANGED <<alreadyInstalled, installModeOnly, preflightAck, online, quitting>>
      /\ UNCHANGED <<webhooks, call, reports, wiped, os, retries>>
      /\ step' # "report"
  BY DEF CheckWarnings, CheckDefaultRoute, ValidateConfig
<1>2. cfg' \in ConfigType /\ checked' \in ConfigType
  BY EditsTyped DEF Typed, ConfigOK, CheckWarnings, CheckDefaultRoute, ValidateConfig
<1>3. step' \in Steps /\ said' \in Messages
  BY DEF Typed, ProgressOK, Messages, Steps, Terminal, CheckWarnings, CheckDefaultRoute, ValidateConfig
<1>4. warned' \in BOOLEAN
  BY DEF Typed, FlagsOK, CheckWarnings, CheckDefaultRoute, ValidateConfig
<1> QED
  BY <1>1, <1>2, <1>3, <1>4 DEF Typed, ProgressOK, ConfigOK, FlagsOK, WebhooksOK, CallOK, DisksOK

\* A report to the webhooks of event e, with step s to follow.
LEMMA ReportTyped ==
  ASSUME NEW e \in Events, NEW s \in {"configure", "prepare", "reboot", "ended"}, Report(e, s)
  PROVE  call' \in CallType /\ step' = "report" /\ CallOK'
<1>1. call' = [event |-> e, next |-> 1, tries |-> 0, then |-> s] /\ step' = "report"
  BY DEF Report
<1>2. 1 \in Nat /\ 0 \in 0..WebhookMaxRetries /\ e \in Events \cup {Blank}
  BY RetriesAssumption
<1>3. s \in {Blank, "configure", "prepare", "reboot", "ended"}
  OBVIOUS
<1>4. [event |-> e, next |-> 1, tries |-> 0, then |-> s] \in CallType
  BY <1>2, <1>3 DEF CallType
<1>5. e # Blank /\ s # Blank
  BY DEF Events, Blank
<1> QED
  BY <1>1, <1>4, <1>5 DEF CallOK

LEMMA ReportCall ==
  ASSUME NEW e, NEW s, Report(e, s)
  PROVE  step' = "report" /\ call'.event = e /\ call'.then = s
BY DEF Report

LEMMA WebhookTyped ==
  ASSUME Typed,
         PrepareWebhooks \/ WebhooksHandled \/ \E i \in DOMAIN webhooks : HandleWebhook(i)
  PROVE  Typed'
<1> USE DEF Goto, GiveUp, switches, record
<1>1. /\ UNCHANGED <<cfg, alreadyInstalled, installModeOnly, preflightAck, warned, online>>
      /\ UNCHANGED <<retries, quitting, wiped, os, said, checked>>
  BY DEF PrepareWebhooks, WebhooksHandled, HandleWebhook
<1>2. CASE PrepareWebhooks
  <2>1. webhooks' \in Seq(HookType) /\ reports' = reports
    BY <1>2 DEF PrepareWebhooks, Typed, ConfigOK, ConfigType
  <2>2. call' \in CallType /\ step' = "report" /\ CallOK'
    BY <1>2, ReportTyped DEF PrepareWebhooks, Events
  <2> QED
    BY <1>1, <2>1, <2>2 DEF Typed, ProgressOK, ConfigOK, FlagsOK, WebhooksOK, DisksOK, Steps
<1>3. CASE WebhooksHandled
  <2>1. /\ call' = NoCall /\ UNCHANGED <<webhooks, reports>>
        /\ step' = call.then /\ call.then # Blank
    BY <1>3 DEF WebhooksHandled, Typed, CallOK
  <2>2. step' \in Steps /\ step' # "report"
    BY <2>1 DEF Typed, WebhooksOK, CallType, Steps, Terminal, Blank
  <2> QED
    BY <1>1, <2>1, <2>2, NoCallTyped
       DEF Typed, ProgressOK, ConfigOK, FlagsOK, WebhooksOK, CallOK, DisksOK
<1>4. CASE \E i \in DOMAIN webhooks : HandleWebhook(i)
  <2>1. PICK i \in DOMAIN webhooks : HandleWebhook(i)
    BY <1>4
  <2>2. step = "report" /\ webhooks' = webhooks
    BY <2>1 DEF HandleWebhook
  <2>6. i \in Nat
    BY SeqDomain DEF Typed, WebhooksOK
  <2>7. call.event \in Events /\ call \in CallType
    BY <2>2 DEF Typed, WebhooksOK, CallOK, CallType
  <2>3. reports' \subseteq [event : Events, hook : Nat]
    <3>1. [event |-> call.event, hook |-> i] \in [event : Events, hook : Nat]
      BY <2>6, <2>7
    <3>2. reports' = reports \cup {[event |-> call.event, hook |-> i]}
      BY <2>1 DEF HandleWebhook, Requested
    <3> QED
      BY <3>1, <3>2 DEF Typed, WebhooksOK
  <2>4. call' \in CallType
    <3>1. CASE call' = [call EXCEPT !.next = i + 1, !.tries = 0]
      <4>1. i + 1 \in Nat /\ 0 \in 0..WebhookMaxRetries
        BY <2>6, RetriesAssumption
      <4> QED
        BY <2>7, <3>1, <4>1 DEF CallType
    <3>2. CASE RetryAllowed /\ call' = [call EXCEPT !.tries = @ + 1]
      <4>1. call.tries + 1 \in 0..WebhookMaxRetries
        BY <2>7, <3>2, RetriesAssumption DEF RetryAllowed, CallType
      <4> QED
        BY <2>7, <3>2, <4>1 DEF CallType
    <3>3. CASE call' = NoCall
      BY <3>3, NoCallTyped
    <3> QED
      BY <2>1, <3>1, <3>2, <3>3 DEF HandleWebhook
  <2>5. step' \in Steps /\ CallOK'
    <3>1. CASE step' = call.then /\ call' = NoCall
      BY <2>2, <3>1 DEF Typed, WebhooksOK, CallOK, CallType, Steps, Terminal, Blank
    <3>2. CASE step' = step /\ call'.event = call.event /\ call'.then = call.then
      BY <3>2 DEF Typed, ProgressOK, CallOK
    <3> QED
      BY <2>1, <3>1, <3>2 DEF HandleWebhook, Typed, WebhooksOK, CallType
  <2> QED
    BY <1>1, <2>2, <2>3, <2>4, <2>5 DEF Typed, ProgressOK, ConfigOK, FlagsOK, WebhooksOK, DisksOK
<1> QED
  BY <1>2, <1>3, <1>4

LEMMA InstallingTyped ==
  ASSUME Typed,
         \/ ConfigureNode \/ PrepareInstall \/ StreamImage \/ CreateLayout \/ WipeDisk
         \/ SaveElementalConfig
  PROVE  Typed'
<1> USE DEF Goto, GiveUp, switches, record
<1>1. /\ UNCHANGED <<alreadyInstalled, installModeOnly, preflightAck, warned, online, quitting>>
      /\ UNCHANGED <<webhooks, call, reports, checked, retries>>
      /\ step' # "report"
  BY DEF ConfigureNode, PrepareInstall, StreamImage, CreateLayout, WipeDisk,
         SaveElementalConfig
<1>2. cfg' \in ConfigType
  <2>1. CASE CreateLayout
    <3>1. \/ cfg' = cfg
          \/ cfg' = [cfg EXCEPT !.wipeDisks = @ \o SetToSeq(WipeOptions(cfg))]
      BY <2>1 DEF CreateLayout
    <3>2. SetToSeq(WipeOptions(cfg)) \in Seq(Text) /\ cfg \in ConfigType
      BY WipeOptionsSeq DEF Typed, ConfigOK
    <3> QED
      BY <3>1, <3>2, EditsTyped, Zenon
  <2>2. CASE ~CreateLayout
    BY <2>2, EditsTyped
       DEF Typed, ConfigOK, ConfigureNode, PrepareInstall, StreamImage, WipeDisk,
           SaveElementalConfig
  <2> QED
    BY <2>1, <2>2
<1>3. step' \in Steps /\ said' \in Messages
  BY DEF Typed, ProgressOK, Messages, Steps, Terminal, Blank, ConfigureNode, PrepareInstall, StreamImage,
         CreateLayout, WipeDisk, SaveElementalConfig
<1>4. os' \in States
  BY DEF Typed, DisksOK, States, ConfigureNode, PrepareInstall, StreamImage, CreateLayout,
         WipeDisk, SaveElementalConfig
<1>5. wiped' \in Seq(Text)
  <2>1. CASE WipeDisk
    <3>1. cfg.wipeDisks \in Seq(Text) /\ wiped \in Seq(Text)
      BY DEF Typed, ConfigOK, ConfigType, DisksOK
    <3>2. Len(wiped) < Len(cfg.wipeDisks)
          /\ wiped' = Append(wiped, cfg.wipeDisks[Len(wiped) + 1])
      BY <2>1 DEF WipeDisk
    <3>3. cfg.wipeDisks[Len(wiped) + 1] \in Text
      BY <3>1, <3>2, NextElement
    <3> QED
      BY <3>1, <3>2, <3>3
  <2>2. CASE ~WipeDisk
    BY <2>2 DEF Typed, DisksOK, ConfigureNode, PrepareInstall, StreamImage, CreateLayout,
                SaveElementalConfig
  <2> QED
    BY <2>1, <2>2
<1> QED
  BY <1>1, <1>2, <1>3, <1>4, <1>5
     DEF Typed, ProgressOK, ConfigOK, FlagsOK, WebhooksOK, CallOK, DisksOK

LEMMA EndingTyped ==
  ASSUME Typed, HarvInstall \/ Reboot \/ Exit \/ CancelReboot
  PROVE  Typed'
<1> USE DEF Goto, GiveUp, switches, record
<1>1. /\ UNCHANGED <<cfg, alreadyInstalled, installModeOnly, preflightAck, warned, online>>
      /\ UNCHANGED <<webhooks, reports, checked, retries, wiped>>
  BY DEF HarvInstall, Reboot, Exit, CancelReboot
<1>2. os' \in States /\ said' \in Messages /\ quitting' \in BOOLEAN
  BY DEF Typed, DisksOK, ProgressOK, Messages, FlagsOK, States, HarvInstall, Reboot, Exit, CancelReboot
<1>3. step' \in Steps /\ call' \in CallType /\ CallOK'
  <2>1. CASE \E e \in Events, s \in {"reboot", "ended"} : Report(e, s)
    BY <2>1, ReportTyped DEF Steps
  <2>2. CASE step' \in {"rebooted", "exited", "reboot"} /\ call' = call
    BY <2>2 DEF Typed, WebhooksOK, CallOK, Steps, Terminal
  <2> QED
    BY <2>1, <2>2 DEF HarvInstall, Reboot, Exit, CancelReboot, FailureEvent, Events
<1> QED
  BY <1>1, <1>2, <1>3 DEF Typed, ProgressOK, ConfigOK, FlagsOK, WebhooksOK, DisksOK

LEMMA TypeStep == Typed /\ [Next]_vars => Typed'
<1>1. Typed /\ UNCHANGED vars => Typed'
  BY DEF vars, switches, record, Typed, ProgressOK, ConfigOK, FlagsOK, WebhooksOK, CallOK, DisksOK
<1> QED
  BY <1>1, CompletingTyped, CheckingTyped, WebhookTyped, InstallingTyped, EndingTyped
     DEF Next, InstallStep, Ended

\* Type correctness: whatever the remote file and DHCP contribute the configuration
\* stays one, and the retries of downloads and webhooks stay within their bounds.
THEOREM InstallTypeCorrect == Spec => []TypeOK
<1>1. Typed => TypeOK
  BY DEF Typed, TypeOK, ProgressOK, ConfigOK, FlagsOK, WebhooksOK, DisksOK, Steps, CallType, States, Messages
<1> QED
  BY <1>1, InitTyped, TypeStep, PTL DEF Spec

-----------------------------------------------------------------------------
(* What was checked before a disk is written to, and what is reported *)

\* The configuration is the one that passed, but for what doInstall itself adds.
Agrees == \A f \in Fields \ {"configURL", "wipeDisks"} : cfg[f] = checked[f]
Passed == /\ Valid(checked) /\ checked.dataDisk # checked.device
          /\ checked.forceGPT = ~checked.forceMBR
          /\ Agrees
Acked == warned => cfg.skipChecks \/ preflightAck
Untouched == wiped = <<>> /\ os = "none"

Early == {"start", "fetch", "network", "vip", "serverURL", "preflight", "route", "validate"}
Preparing == {"webhooks", "configure", "prepare", "stream", "layout"}
Behind == Preparing \cup {"report", "wipe", "harvInstall", "reboot"}

\* Behind the validator the configuration has passed and the warnings are cleared;
\* that stays true of an installation that gives up after it wrote or reported.
PassedInv == step \in Behind \/ Written \/ reports # {} => Passed
AckedInv == step \in Behind \cup {"route", "validate"} \/ Written => alreadyInstalled \/ Acked

\* An installed node takes its own way.
NewNodeInv ==
  \/ step \in {"prepare", "stream", "layout", "wipe", "harvInstall", "reboot"}
  \/ step = "report" /\ call.then # "configure"
  \/ Written
  => ~alreadyInstalled

\* How far the disk is, by where the installation is.
DiskInv ==
  /\ step \in Early \cup Preparing => Untouched
  /\ step \in {"wipe", "harvInstall"} => os = "none"
  /\ step = "reboot" => os = "installed"
  /\ step = "report" =>
       \/ call.then \in {"prepare", "configure"} /\ call.event = "STARTED" /\ Untouched
       \/ call.then = "reboot" /\ call.event = "SUCCEEDED" /\ os = "installed"
       \/ call.then = "ended" /\ call.event = "FAILED" /\ os \in {"broken", "installed"}

\* After a report of a failure nothing but more such reports follows.
EventInv ==
  /\ step \in Early => reports = {}
  /\ Reported("SUCCEEDED") => os = "installed"
  /\ Reported("FAILED") => /\ os \in {"broken", "installed"}
                           /\ \/ step \in {"ended", "exited"}
                              \/ step = "report" /\ call.then = "ended"

Safe == PassedInv /\ AckedInv /\ NewNodeInv /\ DiskInv /\ EventInv

LEMMA InitSafe == Init => Safe
BY DEF Init, Safe, PassedInv, AckedInv, NewNodeInv, DiskInv, EventInv, Early, Preparing, Behind,
       Untouched, Written, Reported

\* What depends only on the configuration and the history is kept with them.
LEMMA KeptFacts ==
  /\ UNCHANGED <<cfg, checked>> => (Passed' <=> Passed)
  /\ UNCHANGED <<cfg, warned, preflightAck>> => (Acked' <=> Acked)
  /\ UNCHANGED <<wiped, os>> => (Written' <=> Written) /\ (Untouched' <=> Untouched)
  /\ reports' = reports => \A e : Reported(e)' <=> Reported(e)
<1>1. UNCHANGED <<cfg, checked>> => (Passed' <=> Passed)
  BY DEF Passed, Agrees
<1>2. UNCHANGED <<cfg, warned, preflightAck>> => (Acked' <=> Acked)
  BY DEF Acked
<1>3. UNCHANGED <<wiped, os>> => (Written' <=> Written) /\ (Untouched' <=> Untouched)
  BY DEF Written, Untouched
<1>4. reports' = reports => \A e : Reported(e)' <=> Reported(e)
  BY DEF Reported
<1> QED
  BY <1>1, <1>2, <1>3, <1>4

\* An early step that goes to another early step or gives up.
LEMMA EarlyStep ==
  ASSUME Safe, step \in Early, step' \in Early \cup {"ended"},
         UNCHANGED <<wiped, os, reports, alreadyInstalled>>,
         step' \in {"route", "validate"} => alreadyInstalled \/ Acked'
  PROVE  Safe'
<1>1. ~Written /\ Untouched /\ reports = {}
  BY DEF Safe, DiskInv, EventInv, Untouched, Written
<1>2. ~Written' /\ Untouched' /\ reports' = {} /\ ~Reported("SUCCEEDED")' /\ ~Reported("FAILED")'
  BY <1>1, KeptFacts DEF Reported
<1>3. step' \notin Behind /\ step' # "report" /\ step' # "reboot"
  BY DEF Early, Behind, Preparing
<1> QED
  BY <1>2, <1>3 DEF Safe, PassedInv, AckedInv, NewNodeInv, DiskInv, EventInv, Early, Behind,
                    Preparing

LEMMA CompletingSafe ==
  ASSUME Typed, Safe,
         \/ StartNetworkOfInstalledNode \/ FetchRemoteConfig \/ FetchFails \/ ApplyNetwork
         \/ GetVip \/ FormatServerURL
  PROVE  Safe'
<1>1. /\ step \in Early /\ UNCHANGED <<wiped, os, reports, alreadyInstalled>>
      /\ step' \in {"fetch", "network", "vip", "serverURL", "preflight", "ended"}
  BY DEF StartNetworkOfInstalledNode, FetchRemoteConfig, FetchFails, ApplyNetwork, GetVip,
         FormatServerURL, Goto, GiveUp, switches, record, Early
<1> QED
  BY <1>1, EarlyStep DEF Early

LEMMA CheckingSafe ==
  ASSUME Typed, Safe, CheckWarnings \/ CheckDefaultRoute
  PROVE  Safe'
<1> USE DEF Goto, GiveUp, switches, record
<1>1. /\ step \in Early /\ UNCHANGED <<cfg, preflightAck, wiped, os, reports, alreadyInstalled>>
      /\ step' \in {"route", "validate", "ended"}
  BY DEF CheckWarnings, CheckDefaultRoute, Early
<1>2. CASE CheckWarnings
  <2>1. step' # "ended" => alreadyInstalled \/ Acked'
    BY <1>2 DEF CheckWarnings, Acknowledged, Acked
  <2> QED
    BY <1>1, <2>1, EarlyStep DEF Early
<1>3. CASE CheckDefaultRoute
  <2>1. alreadyInstalled \/ Acked
    BY <1>3 DEF CheckDefaultRoute, Safe, AckedInv
  <2>2. warned' = warned
    BY <1>3 DEF CheckDefaultRoute
  <2> QED
    BY <1>1, <2>1, <2>2, EarlyStep, KeptFacts DEF Early
<1> QED
  BY <1>2, <1>3

\* What passes the validator has a data disk of its own and the table asked for.
LEMMA SettledFacts ==
  ASSUME NEW c \in ConfigType, Valid(Settled(c))
  PROVE  /\ Settled(c).dataDisk # Settled(c).device
         /\ Settled(c).forceGPT = ~Settled(c).forceMBR
         /\ Settled(c).skipChecks = c.skipChecks
<1>1. /\ Settled(c).device = c.device /\ Settled(c).skipChecks = c.skipChecks
      /\ Settled(c).forceMBR = c.forceMBR /\ Settled(c).forceGPT = ~c.forceMBR
      /\ Settled(c).dataDisk = IF c.dataDisk = c.device THEN Blank ELSE c.dataDisk
  BY DEF Settled, ConfigType
<1>2. Settled(c).device # Blank
  BY DisksAssumption DEF Valid, checkDevice
<1> QED
  BY <1>1, <1>2

LEMMA ValidateSafe ==
  ASSUME Typed, Safe, ValidateConfig
  PROVE  Safe'
<1> USE DEF Goto, GiveUp, switches, record
<1>1. /\ step = "validate" /\ cfg' = Settled(cfg) /\ cfg \in ConfigType
      /\ UNCHANGED <<warned, preflightAck, wiped, os, reports, alreadyInstalled, call>>
  BY DEF ValidateConfig, Typed, ConfigOK
<1>2. CASE step' = "ended"
  BY <1>1, <1>2, EarlyStep DEF Early
<1>3. CASE step' = "webhooks" /\ Valid(cfg') /\ checked' = cfg'
  <2>1. Passed'
    BY <1>1, <1>3, SettledFacts DEF Passed, Agrees
  <2>2. alreadyInstalled \/ Acked'
    <3>1. alreadyInstalled \/ Acked
      BY <1>1 DEF Safe, AckedInv
    <3>2. cfg'.skipChecks = cfg.skipChecks
      BY <1>1, <1>3, SettledFacts
    <3> QED
      BY <1>1, <3>1, <3>2 DEF Acked
  <2>3. ~Written' /\ Untouched' /\ reports' = {} /\ ~Reported("SUCCEEDED")' /\ ~Reported("FAILED")'
    BY <1>1 DEF Safe, DiskInv, EventInv, Untouched, Written, Reported, Early
  <2> QED
    BY <1>1, <1>3, <2>1, <2>2, <2>3
       DEF Safe, PassedInv, AckedInv, NewNodeInv, DiskInv, EventInv, Early, Behind, Preparing
<1> QED
  BY <1>2, <1>3 DEF ValidateConfig

-----------------------------------------------------------------------------
(* The steps behind the validator *)

\* A step that leaves the configuration, the disk and the reports alone.
LEMMA PrepareWebhooksSafe ==
  ASSUME Typed, Safe, PrepareWebhooks
  PROVE  Safe'
<1>1. /\ step = "webhooks" /\ step' = "report"
      /\ UNCHANGED <<cfg, checked, warned, preflightAck, alreadyInstalled, wiped, os, reports>>
  BY DEF PrepareWebhooks, Report, switches, record
<1>2. /\ call'.event = "STARTED"
      /\ call'.then = IF alreadyInstalled THEN "configure" ELSE "prepare"
  BY DEF PrepareWebhooks, Report
<1> QED
  BY <1>1, <1>2, KeptFacts
     DEF Safe, PassedInv, AckedInv, NewNodeInv, DiskInv, EventInv, Early, Behind, Preparing

\* The loop over the webhooks: what is requested is the event of the call, and the
\* step that follows finds the disk as the call left it.
LEMMA WebhookSafe ==
  ASSUME Typed, Safe, WebhooksHandled \/ \E i \in DOMAIN webhooks : HandleWebhook(i)
  PROVE  Safe'
<1> USE DEF Goto, switches, record
<1>1. /\ step = "report"
      /\ UNCHANGED <<cfg, checked, warned, preflightAck, alreadyInstalled, wiped, os>>
  BY DEF WebhooksHandled, HandleWebhook
<1>2. \/ step' = call.then
      \/ step' = "report" /\ call'.then = call.then /\ call'.event = call.event
  BY DEF WebhooksHandled, HandleWebhook, Typed, WebhooksOK, CallType
<1>3. \A e : Reported(e)' => Reported(e) \/ e = call.event
  <2>1. reports' = reports \/ \E i : reports' = reports \cup {[event |-> call.event, hook |-> i]}
    BY DEF WebhooksHandled, HandleWebhook, Requested
  <2> QED
    BY <2>1 DEF Reported
<1>4. call.then \in {"configure", "prepare", "reboot", "ended"}
  BY <1>1 DEF Safe, DiskInv
<1>5. Passed' /\ (alreadyInstalled \/ Acked')
  BY <1>1, KeptFacts DEF Safe, PassedInv, AckedInv, Behind
<1>6. PassedInv' /\ AckedInv' /\ NewNodeInv'
  BY <1>1, <1>2, <1>4, <1>5, KeptFacts DEF Safe, PassedInv, AckedInv, NewNodeInv
<1>7. DiskInv'
  BY <1>1, <1>2, <1>4, KeptFacts DEF Safe, DiskInv, Early, Preparing
<1>8. EventInv'
  BY <1>1, <1>2, <1>3, <1>4 DEF Safe, DiskInv, EventInv, Early, Untouched
<1> QED
  BY <1>6, <1>7, <1>8 DEF Safe

LEMMA ConfigureSafe ==
  ASSUME Typed, Safe, ConfigureNode
  PROVE  Safe'
<1>1. /\ step = "configure" /\ step' = "ended" /\ os' \in {"none", "configured"}
      /\ UNCHANGED <<cfg, checked, warned, preflightAck, alreadyInstalled, wiped, reports, call>>
  BY DEF ConfigureNode, Goto, GiveUp, switches, Safe, DiskInv, Preparing, Untouched
<1>2. Untouched /\ Passed /\ ~Reported("SUCCEEDED") /\ ~Reported("FAILED")
  BY <1>1 DEF Safe, DiskInv, PassedInv, EventInv, Preparing, Behind, Untouched
<1>3. ~Written'
  BY <1>1, <1>2 DEF Written, Untouched
<1> QED
  BY <1>1, <1>2, <1>3, KeptFacts
     DEF Safe, PassedInv, AckedInv, NewNodeInv, DiskInv, EventInv, Early, Behind, Preparing

\* A step on the way to the disk that keeps what passed.
LEMMA InstallingStep ==
  ASSUME Safe, step \in {"prepare", "stream", "layout", "wipe"},
         step' \in {"stream", "layout", "wipe", "harvInstall", "ended", "rebooted"},
         UNCHANGED <<checked, warned, preflightAck, alreadyInstalled, reports>>,
         Agrees', cfg'.skipChecks = cfg.skipChecks,
         step' \in {"stream", "layout"} => Untouched',
         step' \in {"wipe", "harvInstall"} => os' = "none"
  PROVE  Safe'
<1>1. Passed /\ Acked /\ ~alreadyInstalled /\ os = "none"
  BY DEF Safe, PassedInv, AckedInv, NewNodeInv, DiskInv, Behind, Preparing, Untouched
<1>2. Passed' /\ Acked' /\ ~alreadyInstalled'
  BY <1>1 DEF Passed, Acked
<1>3. ~Reported("SUCCEEDED")' /\ ~Reported("FAILED")'
  BY <1>1, KeptFacts DEF Safe, EventInv
<1> QED
  BY <1>2, <1>3
     DEF Safe, PassedInv, AckedInv, NewNodeInv, DiskInv, EventInv, Early, Behind, Preparing

\* What doInstall adds to the configuration leaves the rest of it alone.
LEMMA EditAgrees ==
  ASSUME Typed, Agrees, checked' = checked,
         \/ cfg' = cfg
         \/ cfg' = [cfg EXCEPT !.configURL = TRUE]
         \/ \E w : cfg' = [cfg EXCEPT !.wipeDisks = w]
  PROVE  Agrees' /\ cfg'.skipChecks = cfg.skipChecks
<1>1. cfg \in ConfigType
  BY DEF Typed, ConfigOK
<1>2. \A f \in Fields \ {"configURL", "wipeDisks"} : cfg'[f] = cfg[f]
  BY <1>1, ConfigDomain
<1> QED
  BY <1>2 DEF Agrees, Fields, Texts, Switches

LEMMA InstallingSafe ==
  ASSUME Typed, Safe,
         PrepareInstall \/ StreamImage \/ CreateLayout \/ WipeDisk \/ SaveElementalConfig
  PROVE  Safe'
<1> USE DEF Goto, GiveUp, switches, record
<1>1. /\ step \in {"prepare", "stream", "layout", "wipe"}
      /\ step' \in {"stream", "layout", "wipe", "harvInstall", "ended", "rebooted"}
      /\ UNCHANGED <<checked, warned, preflightAck, alreadyInstalled, reports>>
  BY DEF PrepareInstall, StreamImage, CreateLayout, WipeDisk, SaveElementalConfig
<1>2. \/ cfg' = cfg
      \/ cfg' = [cfg EXCEPT !.configURL = TRUE]
      \/ \E w : cfg' = [cfg EXCEPT !.wipeDisks = w]
  BY DEF PrepareInstall, StreamImage, CreateLayout, WipeDisk, SaveElementalConfig
<1>3. Agrees
  BY <1>1 DEF Safe, PassedInv, Passed, Behind, Preparing
<1>4. Agrees' /\ cfg'.skipChecks = cfg.skipChecks
  BY <1>1, <1>2, <1>3, EditAgrees
<1>5. /\ step' \in {"stream", "layout"} => Untouched'
      /\ step' \in {"wipe", "harvInstall"} => os' = "none"
  BY DEF PrepareInstall, StreamImage, CreateLayout, WipeDisk, SaveElementalConfig, Safe,
         DiskInv, Preparing, Untouched
<1> QED
  BY <1>1, <1>4, <1>5, InstallingStep

LEMMA EndingSafe ==
  ASSUME Typed, Safe, HarvInstall \/ Reboot \/ Exit \/ CancelReboot
  PROVE  Safe'
<1> USE DEF Goto, GiveUp, switches, record
<1>1. UNCHANGED <<cfg, checked, warned, preflightAck, alreadyInstalled, wiped, reports>>
  BY DEF HarvInstall, Reboot, Exit, CancelReboot
<1>2. CASE HarvInstall
  <2>1. /\ step = "harvInstall" /\ step' = "report"
        /\ \/ os' = "installed" /\ call'.event = "SUCCEEDED" /\ call'.then = "reboot"
           \/ os' = "broken" /\ call'.event = "FAILED" /\ call'.then = "ended"
    BY <1>2, ReportCall DEF HarvInstall, FailureEvent
  <2>2. Passed /\ Acked /\ ~alreadyInstalled /\ ~Reported("SUCCEEDED") /\ ~Reported("FAILED")
    BY <2>1 DEF Safe, PassedInv, AckedInv, NewNodeInv, DiskInv, EventInv, Behind
  <2> QED
    BY <1>1, <2>1, <2>2, KeptFacts
       DEF Safe, PassedInv, AckedInv, NewNodeInv, DiskInv, EventInv, Early, Preparing
<1>3. CASE Reboot \/ CancelReboot
  <2>1. /\ step = "reboot" /\ os' = os
        /\ \/ step' \in {"rebooted", "reboot"}
           \/ step' = "report" /\ call'.event = "FAILED" /\ call'.then = "ended"
    BY <1>3, ReportCall DEF Reboot, CancelReboot
  <2>2. Passed /\ Acked /\ ~alreadyInstalled /\ ~Reported("FAILED") /\ os = "installed"
    BY <2>1 DEF Safe, PassedInv, AckedInv, NewNodeInv, DiskInv, EventInv, Behind
  <2> QED
    BY <1>1, <2>1, <2>2, KeptFacts
       DEF Safe, PassedInv, AckedInv, NewNodeInv, DiskInv, EventInv, Early, Preparing
<1>4. CASE Exit
  <2>1. step' = "exited" /\ UNCHANGED <<os, call>>
    BY <1>4 DEF Exit
  <2> QED
    BY <1>1, <2>1, KeptFacts
       DEF Safe, PassedInv, AckedInv, NewNodeInv, DiskInv, EventInv, Early, Preparing, Behind
<1> QED
  BY <1>2, <1>3, <1>4

LEMMA SafeStep == Typed /\ Safe /\ [Next]_vars => Safe'
<1>1. Safe /\ UNCHANGED vars => Safe'
  BY KeptFacts DEF vars, switches, record, Safe, PassedInv, AckedInv, NewNodeInv, DiskInv, EventInv
<1> QED
  BY <1>1, CompletingSafe, CheckingSafe, ValidateSafe, PrepareWebhooksSafe, WebhookSafe,
     ConfigureSafe, InstallingSafe, EndingSafe DEF Next, InstallStep, Ended

\* No disk is written to before the preflight warnings are cleared, those that the
\* installation itself finds included, and never one of an installed node.
THEOREM WritesCleared == Spec => []WritesOnlyWhenCleared
<1>1. Safe => WritesOnlyWhenCleared
  BY DEF Safe, AckedInv, NewNodeInv, Acked, WritesOnlyWhenCleared
<1> QED
  BY <1>1, InitTyped, TypeStep, InitSafe, SafeStep, PTL DEF Spec

\* What is written to a disk is the configuration that passed the validator, for all
\* local and remote configurations.
THEOREM WritesValidated == Spec => []WritesValidConfig
<1>1. Typed /\ Safe => WritesValidConfig
  <2> SUFFICES ASSUME Typed, Safe, Written
               PROVE  /\ Valid(cfg)
                      /\ cfg.dataDisk # cfg.device
                      /\ cfg.forceGPT = ~cfg.forceMBR
                      /\ [cfg EXCEPT !.configURL = checked.configURL,
                                     !.wipeDisks = checked.wipeDisks] = checked
    BY DEF WritesValidConfig
  <2>1. Passed /\ cfg \in ConfigType /\ checked \in ConfigType
    BY DEF Safe, PassedInv, Typed, ConfigOK
  <2>2. /\ cfg.mode = checked.mode /\ cfg.serverURL = checked.serverURL
        /\ cfg.device = checked.device /\ cfg.method = checked.method
        /\ cfg.vip = checked.vip /\ cfg.vipMode = checked.vipMode
        /\ cfg.vipHwAddr = checked.vipHwAddr /\ cfg.dataDisk = checked.dataDisk
        /\ cfg.forceGPT = checked.forceGPT /\ cfg.forceMBR = checked.forceMBR
    BY <2>1 DEF Passed, Agrees, Fields, Texts, Switches
  <2>3. Valid(cfg)
    BY <2>1, <2>2 DEF Passed, Valid, commonCheck, checkVip, checkDevice
  <2>4. [cfg EXCEPT !.configURL = checked.configURL, !.wipeDisks = checked.wipeDisks] = checked
    <3> DEFINE e == [cfg EXCEPT !.configURL = checked.configURL,
                                !.wipeDisks = checked.wipeDisks]
    <3>1. e = [f \in Fields |-> e[f]] /\ checked = [f \in Fields |-> checked[f]]
      BY <2>1, FieldTypes
    <3>2. \A f \in Fields : e[f] = checked[f]
      BY <2>1, ConfigDomain DEF Passed, Agrees
    <3> HIDE DEF e
    <3>3. e = checked
      BY <3>1, <3>2
    <3> QED
      BY <3>3 DEF e
  <2> QED
    BY <2>1, <2>2, <2>3, <2>4 DEF Passed
<1> QED
  BY <1>1, InitTyped, TypeStep, InitSafe, SafeStep, PTL DEF Spec

\* The webhooks hear the truth, whatever times out, fails or is interrupted.
THEOREM ReportsStayTruthful == Spec => []ReportsTruthful
<1>1. Safe => ReportsTruthful
  BY DEF Safe, EventInv, PassedInv, Passed, ReportsTruthful
<1> QED
  BY <1>1, InitTyped, TypeStep, InitSafe, SafeStep, PTL DEF Spec

-----------------------------------------------------------------------------
(* The disks that are wiped *)

Announcing == step = "report" /\ call.then \in {"prepare", "configure"}

\* The list of disks is the one that passed, followed, when all disks are to be wiped,
\* by the options, all of them and nothing else.
Added == Len(checked.wipeDisks) + 1 .. Len(cfg.wipeDisks)
Extended ==
  /\ Len(checked.wipeDisks) <= Len(cfg.wipeDisks)
  /\ \A i \in Added : cfg.wipeAllDisks /\ cfg.wipeDisks[i] \in WipeOptions(cfg)
  /\ cfg.wipeAllDisks => \A d \in WipeOptions(cfg) : \E i \in Added : cfg.wipeDisks[i] = d

\* What has been wiped so far is the beginning of the list.
Begun == /\ Len(wiped) <= Len(cfg.wipeDisks)
         /\ \A i \in 1..Len(wiped) : wiped[i] = cfg.wipeDisks[i]

WipeInv ==
  /\ step \in Preparing \/ Announcing => cfg.wipeDisks = checked.wipeDisks
  /\ step \in {"wipe", "harvInstall"} \/ wiped # <<>> => Extended /\ Begun
  /\ step = "harvInstall" => Len(wiped) = Len(cfg.wipeDisks)

LEMMA InitWipe == Init => WipeInv
BY DEF Init, WipeInv, Announcing, Preparing

LEMMA SameExtended ==
  ASSUME UNCHANGED <<cfg, checked>>
  PROVE  Extended' <=> Extended
BY DEF Extended, Added

\* A step that touches neither the list nor the disks.
LEMMA KeepsWipe ==
  ASSUME WipeInv, UNCHANGED <<cfg, checked, wiped>>,
         step' \in Preparing \/ Announcing' => step \in Preparing \/ Announcing,
         step' \notin {"wipe", "harvInstall"}
  PROVE  WipeInv'
<1>1. Extended /\ Begun => Extended' /\ Begun'
  BY SameExtended DEF Begun
<1> QED
  BY <1>1 DEF WipeInv

\* Before the validator no disk was touched and no list is promised.
LEMMA EarlyWipe ==
  ASSUME Typed, Safe, WipeInv,
         \/ StartNetworkOfInstalledNode \/ FetchRemoteConfig \/ FetchFails \/ ApplyNetwork
         \/ GetVip \/ FormatServerURL \/ CheckWarnings \/ CheckDefaultRoute \/ ValidateConfig
  PROVE  WipeInv'
<1> USE DEF Goto, GiveUp, switches, record
<1>1. step \in Early /\ wiped' = wiped
  BY DEF StartNetworkOfInstalledNode, FetchRemoteConfig, FetchFails, ApplyNetwork, GetVip,
         FormatServerURL, CheckWarnings, CheckDefaultRoute, ValidateConfig, Early
<1>2. wiped' = <<>>
  BY <1>1 DEF Safe, DiskInv, Untouched
<1>3. step' \in Early \cup {"ended"} \/ (step' = "webhooks" /\ checked' = cfg')
  BY DEF StartNetworkOfInstalledNode, FetchRemoteConfig, FetchFails, ApplyNetwork, GetVip,
         FormatServerURL, CheckWarnings, CheckDefaultRoute, ValidateConfig, Early
<1> QED
  BY <1>2, <1>3 DEF WipeInv, Announcing, Early, Preparing

LEMMA OtherWipe ==
  ASSUME Typed, Safe, WipeInv,
         \/ PrepareWebhooks \/ WebhooksHandled \/ \E i \in DOMAIN webhooks : HandleWebhook(i)
         \/ ConfigureNode \/ StreamImage \/ HarvInstall \/ Reboot \/ Exit \/ CancelReboot
  PROVE  WipeInv'
<1> USE DEF Goto, GiveUp, switches, record
<1>1. UNCHANGED <<cfg, checked, wiped>>
  BY DEF PrepareWebhooks, WebhooksHandled, HandleWebhook, ConfigureNode, StreamImage, HarvInstall,
         Reboot, Exit, CancelReboot
<1>2. CASE PrepareWebhooks
  BY <1>1, <1>2, KeepsWipe DEF PrepareWebhooks, Report, Preparing
<1>3. CASE WebhooksHandled \/ \E i \in DOMAIN webhooks : HandleWebhook(i)
  <2>1. /\ step = "report"
        /\ \/ step' = call.then
           \/ step' = "report" /\ call'.then = call.then
    BY <1>3 DEF WebhooksHandled, HandleWebhook, Typed, WebhooksOK, CallType
  <2>2. call.then \in {"configure", "prepare", "reboot", "ended"}
    BY <2>1 DEF Safe, DiskInv
  <2> QED
    BY <1>1, <2>1, <2>2, KeepsWipe DEF Announcing, Preparing
<1>4. CASE ConfigureNode \/ StreamImage
  <2>1. step' \in {"ended", "rebooted"}
    BY <1>4 DEF ConfigureNode, StreamImage
  <2> QED
    BY <1>1, <2>1, KeepsWipe DEF Announcing, Preparing
<1>5. CASE HarvInstall \/ Reboot \/ Exit \/ CancelReboot
  <2>1. \/ step' \in {"rebooted", "reboot", "exited"}
        \/ step' = "report" /\ call'.then \in {"reboot", "ended"}
    BY <1>5, ReportCall DEF HarvInstall, Reboot, Exit, CancelReboot
  <2> QED
    BY <1>1, <2>1, KeepsWipe DEF Announcing, Preparing
<1> QED
  BY <1>2, <1>3, <1>4, <1>5

LEMMA PrepareWipe ==
  ASSUME Typed, Safe, WipeInv, PrepareInstall
  PROVE  WipeInv'
<1>1. /\ step = "prepare" /\ step' \in {"stream", "layout", "ended"}
      /\ UNCHANGED <<checked, wiped>>
      /\ cfg' = cfg \/ cfg' = [cfg EXCEPT !.configURL = TRUE]
  BY DEF PrepareInstall, Goto, GiveUp, record
<1>2. cfg'.wipeDisks = cfg.wipeDisks
  BY <1>1 DEF Typed, ConfigOK, ConfigType
<1>3. wiped' = <<>>
  BY <1>1 DEF Safe, DiskInv, Untouched, Preparing
<1> QED
  BY <1>1, <1>2, <1>3 DEF WipeInv, Announcing, Preparing

\* The tail of a concatenation.
LEMMA ConcatTail ==
  ASSUME NEW T, NEW p \in Seq(T), NEW q \in Seq(T)
  PROVE  /\ Len(p \o q) = Len(p) + Len(q)
         /\ \A i \in Len(p) + 1 .. Len(p \o q) : i - Len(p) \in DOMAIN q
                                                 /\ (p \o q)[i] = q[i - Len(p)]
         /\ \A j \in DOMAIN q : /\ Len(p) + j \in Len(p) + 1 .. Len(p \o q)
                                /\ (p \o q)[Len(p) + j] = q[j]
OBVIOUS

\* createElementalLayout fills the list.
LEMMA LayoutWipe ==
  ASSUME Typed, Safe, WipeInv, CreateLayout
  PROVE  WipeInv'
<1>1. step = "layout" /\ UNCHANGED <<checked, wiped>>
  BY DEF CreateLayout, record
<1>2. wiped' = <<>> /\ cfg.wipeDisks = checked.wipeDisks
  BY <1>1 DEF Safe, DiskInv, Untouched, Preparing, WipeInv
<1>3. CASE step' = "ended"
  BY <1>2, <1>3 DEF WipeInv, Announcing, Preparing
<1>4. CASE step' = "wipe" /\ ~cfg.wipeAllDisks /\ cfg' = cfg
  <2>1. cfg.wipeDisks \in Seq(Text)
    BY DEF Typed, ConfigOK, ConfigType
  <2>2. Added' = {} /\ Len(checked'.wipeDisks) <= Len(cfg'.wipeDisks)
    BY <1>1, <1>2, <1>4, <2>1 DEF Added
  <2>3. Extended'
    BY <1>4, <2>2 DEF Extended
  <2>4. Begun'
    BY <1>2, <1>4, <2>1 DEF Begun
  <2> QED
    BY <1>4, <2>3, <2>4 DEF WipeInv, Announcing, Preparing
<1>5. CASE /\ step' = "wipe" /\ cfg.wipeAllDisks
           /\ cfg' = [cfg EXCEPT !.wipeDisks = @ \o SetToSeq(WipeOptions(cfg))]
  <2> DEFINE p == cfg.wipeDisks
             q == SetToSeq(WipeOptions(cfg))
  <2>1. cfg \in ConfigType /\ p \in Seq(Text) /\ q \in Seq(Text) /\ q \in Seq(WipeOptions(cfg))
    BY WipeOptionsSeq DEF Typed, ConfigOK, ConfigType
  <2>2. /\ cfg'.wipeDisks = p \o q /\ cfg'.wipeAllDisks
        /\ cfg'.device = cfg.device /\ cfg'.dataDisk = cfg.dataDisk
    BY <1>5, <2>1 DEF ConfigType
  <2>3. WipeOptions(cfg)' = WipeOptions(cfg)
    BY <2>2 DEF WipeOptions
  <2>4. \A d \in WipeOptions(cfg) : \E j \in DOMAIN q : q[j] = d
    BY WipeOptionsSeq
  <2>5. checked'.wipeDisks = p
    BY <1>1, <1>2
  <2>6. \A j \in DOMAIN q : q[j] \in WipeOptions(cfg)
    BY <2>1
  <2> HIDE DEF p, q
  <2>7. Len(p) \in Nat /\ Len(q) \in Nat
    BY <2>1
  <2>8. Added' = Len(p) + 1 .. Len(p \o q)
    BY <2>2, <2>5 DEF Added
  <2>9. Len(checked'.wipeDisks) <= Len(cfg'.wipeDisks)
    BY <2>1, <2>2, <2>5, <2>7, ConcatTail
  <2>10. \A i \in Added' : cfg'.wipeDisks[i] \in WipeOptions(cfg)
    BY <2>1, <2>2, <2>6, <2>8, ConcatTail
  <2>11. \A d \in WipeOptions(cfg) : \E i \in Added' : cfg'.wipeDisks[i] = d
    <3> SUFFICES ASSUME NEW d \in WipeOptions(cfg)
                 PROVE  \E i \in Added' : cfg'.wipeDisks[i] = d
      OBVIOUS
    <3>1. PICK j \in DOMAIN q : q[j] = d
      BY <2>4
    <3>2. Len(p) + j \in Added' /\ cfg'.wipeDisks[Len(p) + j] = d
      BY <2>1, <2>2, <2>8, <3>1, ConcatTail
    <3> QED
      BY <3>2
  <2>12. Extended'
    BY <2>2, <2>3, <2>9, <2>10, <2>11 DEF Extended
  <2>13. Begun'
    BY <1>2, <2>1, <2>2, <2>7, ConcatTail DEF Begun
  <2> QED
    BY <1>5, <2>12, <2>13 DEF WipeInv, Announcing, Preparing
<1> QED
  BY <1>3, <1>4, <1>5 DEF CreateLayout, Goto, GiveUp

LEMMA AppendPrefix ==
  ASSUME NEW T, NEW p \in Seq(T), NEW q \in Seq(T), Len(p) < Len(q),
         \A i \in 1..Len(p) : p[i] = q[i]
  PROVE  LET r == Append(p, q[Len(p) + 1])
         IN  Len(r) <= Len(q) /\ \A i \in 1..Len(r) : r[i] = q[i]
OBVIOUS

LEMMA DiskWipe ==
  ASSUME Typed, Safe, WipeInv, WipeDisk \/ SaveElementalConfig
  PROVE  WipeInv'
<1> USE DEF Goto, GiveUp, switches, record
<1>1. step = "wipe" /\ UNCHANGED <<cfg, checked>>
  BY DEF WipeDisk, SaveElementalConfig
<1>2. Extended' /\ Begun
  BY <1>1, SameExtended DEF WipeInv
<1>3. CASE WipeDisk
  <2>1. /\ Len(wiped) < Len(cfg.wipeDisks)
        /\ wiped' = Append(wiped, cfg.wipeDisks[Len(wiped) + 1])
        /\ step' \in {"wipe", "ended"}
    BY <1>1, <1>3 DEF WipeDisk
  <2>2. cfg.wipeDisks \in Seq(Text) /\ wiped \in Seq(Text)
    BY DEF Typed, ConfigOK, ConfigType, DisksOK
  <2>3. Begun'
    BY <1>1, <1>2, <2>1, <2>2, AppendPrefix DEF Begun
  <2> QED
    BY <1>2, <2>1, <2>3 DEF WipeInv, Announcing, Preparing
<1>4. CASE SaveElementalConfig
  <2>1. /\ Len(wiped) = Len(cfg.wipeDisks) /\ wiped' = wiped
        /\ step' \in {"harvInstall", "ended"}
    BY <1>4 DEF SaveElementalConfig
  <2>2. Begun'
    BY <1>1, <1>2, <2>1 DEF Begun
  <2> QED
    BY <1>1, <1>2, <2>1, <2>2 DEF WipeInv, Announcing, Preparing
<1> QED
  BY <1>3, <1>4

LEMMA WipeStep == Typed /\ Safe /\ WipeInv /\ [Next]_vars => WipeInv'
<1>1. WipeInv /\ UNCHANGED vars => WipeInv'
  BY SameExtended DEF vars, switches, record, WipeInv, Announcing, Begun
<1> QED
  BY <1>1, EarlyWipe, OtherWipe, PrepareWipe, LayoutWipe, DiskWipe DEF Next, InstallStep, Ended

\* For any disks: what doInstall wipes beyond the configured list are disks of earlier
\* installations, all of them but the two that the configuration names.
THEOREM WipesForeign == Spec => []WipesOnlyForeign
<1>1. Typed /\ WipeInv => WipesOnlyForeign
  <2> SUFFICES ASSUME Typed, WipeInv PROVE WipesOnlyForeign
    OBVIOUS
  <2> DEFINE n == Len(checked.wipeDisks)
             added == {wiped[i] : i \in n + 1 .. Len(wiped)}
  <2>1. /\ n \in Nat /\ Len(wiped) \in Nat /\ Len(cfg.wipeDisks) \in Nat
        /\ wiped \in Seq(Text)
    BY DEF Typed, ConfigOK, ConfigType, DisksOK
  <2>2. wiped = <<>> => added = {}
    BY <2>1
  <2>3. \A x \in added : x \in WipeOptions(cfg) /\ cfg.wipeAllDisks
    <3>1. SUFFICES ASSUME NEW i \in n + 1 .. Len(wiped)
                   PROVE  wiped[i] \in WipeOptions(cfg) /\ cfg.wipeAllDisks
      OBVIOUS
    <3>2. wiped # <<>>
      BY <2>1
    <3>3. Extended /\ Begun
      BY <3>2 DEF WipeInv
    <3>4. i \in Added /\ i \in 1..Len(wiped)
      BY <2>1, <3>3 DEF Begun, Added
    <3> QED
      BY <3>3, <3>4 DEF Extended, Begun
  <2>4. ASSUME step = "harvInstall", cfg.wipeAllDisks
        PROVE  WipeOptions(cfg) \subseteq added
    <3>1. Extended /\ Begun /\ Len(wiped) = Len(cfg.wipeDisks)
      BY <2>4 DEF WipeInv
    <3>2. Added = n + 1 .. Len(wiped) /\ Added \subseteq 1..Len(wiped)
      BY <2>1, <3>1 DEF Added
    <3> QED
      BY <2>4, <3>1, <3>2 DEF Extended, Begun
  <2> HIDE DEF added, n
  <2>5. /\ added \subseteq COSDisks
        /\ ~cfg.wipeAllDisks => added = {}
        /\ {cfg.device, cfg.dataDisk} \cap added = {}
        /\ step = "harvInstall" /\ cfg.wipeAllDisks
             => COSDisks \ {cfg.device, cfg.dataDisk} \subseteq added
    BY <2>3, <2>4 DEF WipeOptions
  <2> QED
    BY <2>5 DEF WipesOnlyForeign, added, n
<1> QED
  BY <1>1, InitTyped, TypeStep, InitSafe, SafeStep, InitWipe, WipeStep, PTL DEF Spec
============================================================================
