------------------------------ MODULE Dashboard ------------------------------
(***************************************************************************)
(* The console of an installed node (pkg/console/dashboard_panels.go):     *)
(* goroutines poll the cluster every 30 seconds and update a panel each;   *)
(* three of them share the variable `current` without a lock, the fourth   *)
(* shows name and address of the node and is left out. F12 asks for the    *)
(* password and ends the console, and start-installer.sh then starts a     *)
(* shell; getty starts the console again after the shell or a crash.       *)
(*                                                                         *)
(* Every query of the cluster is a step of its own: the cluster changes    *)
(* between two queries of the same poll.                                   *)
(***************************************************************************)
EXTENDS Naturals

CONSTANTS Facts   \* what kubectl and curl may find out about the cluster

\* kubectl gets an answer, and what it answers; curl gets the API's answer.
Kubectl == "k8s"
KubectlFacts == {"vip", "chart", "node"}
AllFacts == KubectlFacts \cup {Kubectl, "api"}
ASSUME FactsAssumption == Facts \subseteq AllFacts

VARIABLES
  cluster,    \* the facts that hold now
  firstHost,  \* current.firstHost: there is no server URL in rancherd's configuration
  installed,  \* current.installed
  managementURL,  \* current.managementURL: none, torn (half written), known
  poll,       \* poll[p]: the next step of goroutine p and what it will show
  shown,      \* shown[p]: what panel p shows
  prompt,     \* the password prompt is open
  process,    \* what runs on the terminal
  chartSeen   \* history: the chart has been installed while this console ran

vars == <<cluster, firstHost, installed, managementURL, poll, shown, prompt,
          process, chartSeen>>

StatusPanels == {"clusterStatus", "nodeStatus"}
Panels == StatusPanels \cup {"managementUrl"}
Loading == "loading"
SettingUp == "Setting up"
Ready == "Ready"
NotReady == "NotReady"
Unavailable == "Unavailable"

Idle == [pc |-> "wait", result |-> Loading]

\* What initState and the layout functions set up.
Fresh(c) ==
  /\ installed = FALSE /\ managementURL = "none"
  /\ poll = [p \in Panels |-> Idle] /\ shown = [p \in Panels |-> Loading]
  /\ prompt = FALSE /\ process = "console"
  /\ chartSeen = ("chart" \in c)

Consistent(c) == c \cap KubectlFacts # {} => Kubectl \in c

Init == /\ cluster \in {c \in SUBSET Facts : Consistent(c)}
        /\ firstHost \in BOOLEAN /\ Fresh(cluster)

Holds(f) == f \in cluster

\* External: nodes join, charts are deployed, services come and go. Without the
\* Kubernetes API kubectl answers nothing.
ClusterChanges(f) ==
  /\ cluster' = CASE f \notin cluster -> cluster \cup {f}
                  [] f \in cluster /\ f = Kubectl -> cluster \ (KubectlFacts \cup {f})
                  [] OTHER -> cluster \ {f}
  /\ Consistent(cluster')
  /\ chartSeen' = (chartSeen \/ "chart" \in cluster')
  /\ UNCHANGED <<firstHost, installed, managementURL, poll, shown, prompt, process>>

-----------------------------------------------------------------------------
(* Polling *)

At(p, pc) == process = "console" /\ poll[p].pc = pc
Goto(p, pc) == poll' = [poll EXCEPT ![p].pc = pc]
Result(p, r) == poll' = [poll EXCEPT ![p] = [pc |-> "update", result |-> r]]
Unshared == UNCHANGED <<cluster, firstHost, shown, prompt, process, chartSeen>>

\* Both status functions skip the first two queries once they succeeded.
SetupDone == ~firstHost \/ installed

Tick(p) ==
  /\ At(p, "wait")
  /\ \/ p \in StatusPanels /\ Goto(p, IF SetupDone THEN "node" ELSE "k8s")
     \/ p = "managementUrl" /\ Goto(p, "vip")
  /\ UNCHANGED <<installed, managementURL>> /\ Unshared

URLNotStored ==
  /\ At("managementUrl", "vip")
  /\ Result("managementUrl", IF Holds("vip") THEN "URL" ELSE Unavailable)
  /\ UNCHANGED <<installed, managementURL>> /\ Unshared

\* getVIP: an address that is found is stored, none is shown as unavailable but
\* the stored one is kept.
getVIP ==
  LET p == "managementUrl"
  IN /\ At(p, "vip")
     /\ IF Holds("vip")
        THEN /\ Goto(p, "store")
             /\ managementURL' = IF managementURL = "none" THEN "torn" ELSE managementURL
        ELSE Result(p, Unavailable) /\ UNCHANGED managementURL
     /\ UNCHANGED installed /\ Unshared

\* A Go string is two words: pointer and length are stored one after the other.
StoreURL ==
  /\ At("managementUrl", "store")
  /\ managementURL' = "known" /\ Result("managementUrl", "URL")
  /\ UNCHANGED installed /\ Unshared

k8sIsReady(p) ==
  /\ At(p, "k8s")
  /\ IF Holds("k8s") THEN Goto(p, "chart") ELSE Result(p, SettingUp)
  /\ UNCHANGED <<installed, managementURL>> /\ Unshared

NoChartNeeded(p) ==
  /\ At(p, "chart")
  /\ installed' = TRUE /\ Goto(p, "node")
  /\ UNCHANGED managementURL /\ Unshared

NotLatched(p) ==
  /\ At(p, "chart")
  /\ IF Holds("chart") THEN Goto(p, "node") ELSE Result(p, SettingUp)
  /\ UNCHANGED <<installed, managementURL>> /\ Unshared

chartIsInstalled(p) ==
  /\ At(p, "chart")
  /\ IF Holds("chart") THEN installed' = TRUE /\ Goto(p, "node")
     ELSE Result(p, SettingUp) /\ UNCHANGED installed
  /\ UNCHANGED managementURL /\ Unshared

AfterNode(p) == IF p = "clusterStatus" THEN Goto(p, "api") ELSE Result(p, Ready)

nodeIsPresent(p) ==
  /\ At(p, "node")
  /\ IF Holds("node") THEN AfterNode(p) ELSE Result(p, NotReady)
  /\ UNCHANGED <<installed, managementURL>> /\ Unshared

AnyURL == Holds("api")
URLUsable == managementURL = "known" /\ Holds("api")

isAPIReady(p) ==
  /\ At(p, "api")
  /\ Result(p, IF URLUsable THEN Ready ELSE NotReady)
  /\ UNCHANGED <<installed, managementURL>> /\ Unshared

ShownOnce(p) ==
  /\ At(p, "update")
  /\ shown' = [shown EXCEPT ![p] = poll[p].result]
  /\ UNCHANGED <<cluster, firstHost, installed, managementURL, poll, prompt, process, chartSeen>>

\* The function passed to g.Update. gocui runs it long before the next tick.
Update(p) ==
  /\ At(p, "update")
  /\ shown' = [shown EXCEPT ![p] = poll[p].result]
  /\ poll' = [poll EXCEPT ![p] = Idle]
  /\ UNCHANGED <<cluster, firstHost, installed, managementURL, prompt, process, chartSeen>>

Poll(p) == \/ Tick(p) \/ k8sIsReady(p) \/ chartIsInstalled(p) \/ nodeIsPresent(p)
           \/ isAPIReady(p) \/ Update(p)
           \/ p = "managementUrl" /\ (getVIP \/ StoreURL)

-----------------------------------------------------------------------------
(* The terminal *)

\* The console is gone and its goroutines with it.
Exit(next) ==
  /\ process' = next /\ prompt' = FALSE
  /\ poll' = [p \in Panels |-> Idle] /\ shown' = [p \in Panels |-> Loading]
  /\ installed' = FALSE /\ managementURL' = "none"
  /\ UNCHANGED <<cluster, firstHost, chartSeen>>

\* start-installer.sh runs with -e: there is no shell after a failure.
AfterFailure == "restarting"

\* A comparison that meets the length of the new string and the pointer of the old
\* one reads through a nil pointer.
TornRead ==
  /\ At("clusterStatus", "api") /\ managementURL = "torn"
  /\ Exit(AfterFailure)

Prompt(open) ==
  /\ process = "console" /\ prompt' = open
  /\ UNCHANGED <<cluster, firstHost, installed, managementURL, poll, shown, process, chartSeen>>

\* A wrong password leaves the prompt open with a message.
toShell == Prompt(TRUE)
Esc == prompt /\ Prompt(FALSE)
RightPassword == process = "console" /\ prompt /\ Exit("shell")

\* agetty starts the script again.
Restart ==
  /\ process # "console"
  /\ process' = "console" /\ chartSeen' = Holds("chart")
  /\ UNCHANGED <<cluster, firstHost, installed, managementURL, poll, shown, prompt>>

Next ==
  \/ \E f \in Facts : ClusterChanges(f)
  \/ \E p \in Panels : Poll(p)
  \/ TornRead \/ toShell \/ Esc \/ RightPassword \/ Restart

\* Tickers tick, commands return and gocui runs what was queued.
Fairness == \A p \in Panels : WF_vars(Poll(p))

Spec == Init /\ [][Next]_vars
FairSpec == Spec /\ Fairness

-----------------------------------------------------------------------------
(* Properties *)

\* Type invariant of the shared variables, the goroutines and the panels: each
\* panel shows only what its own goroutine reports.
TypeOK ==
  /\ cluster \subseteq Facts
  /\ firstHost \in BOOLEAN /\ installed \in BOOLEAN /\ chartSeen \in BOOLEAN
  /\ managementURL \in {"none", "torn", "known"}
  /\ \A p \in StatusPanels :
       /\ poll[p].pc \in {"wait", "k8s", "chart", "node", "api", "update"}
       /\ {shown[p], poll[p].result} \subseteq {Loading, SettingUp, Ready, NotReady}
  /\ poll["managementUrl"].pc \in {"wait", "vip", "store", "update"}
  /\ {shown["managementUrl"], poll["managementUrl"].result}
       \subseteq {Loading, "URL", Unavailable}
  /\ poll["nodeStatus"].pc # "api"
  /\ prompt \in BOOLEAN
  /\ process \in {"console", "shell", "restarting"}

\* On the first host neither status panel says more than "Setting up" before the
\* chart was installed, whichever goroutine found out (getHarvesterStatus and
\* getNodeStatus share current.installed).
SetupComesFirst ==
  firstHost /\ ~chartSeen => \A p \in StatusPanels : shown[p] \in {Loading, SettingUp}

\* "Ready" for the cluster means that its URL has been found, although the URL is
\* polled by another goroutine; the URL panel may say "Unavailable" meanwhile.
ReadyHasURL == shown["clusterStatus"] = Ready => managementURL = "known"

\* A panel that is past "Setting up" does not go back to it while the console
\* runs, whatever becomes of the cluster and whichever goroutine ended the setup.
SetupNeverReturns ==
  [][process = "console" /\ process' = "console"
       => \A p \in StatusPanels :
            shown[p] \in {Ready, NotReady} => shown'[p] \in {Ready, NotReady}]_vars

\* One goroutine that sees the chart installed ends the setup in both panels.
SetupEndsEverywhere ==
  installed ~> (process # "console" \/ \A p \in StatusPanels : shown[p] \in {Ready, NotReady})

\* When the cluster is up for good and the console is left alone, every panel
\* ends up saying so.
TellsReadiness ==
  <>[](cluster = AllFacts /\ process = "console")
    => <>[](shown["managementUrl"] = "URL" /\ \A p \in StatusPanels : shown[p] = Ready)
=============================================================================
