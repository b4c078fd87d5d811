--------------------------- MODULE DashboardProofs ---------------------------
(***************************************************************************)
(* What the panels of the dashboard show agrees with what its goroutines   *)
(* share, whatever the cluster does and however the polls interleave.      *)
(***************************************************************************)
EXTENDS Dashboard, TLAPS

-----------------------------------------------------------------------------
(* Types *)

StatusSteps == {"wait", "k8s", "chart", "node", "api", "update"}
URLSteps == {"wait", "vip", "store", "update"}
Results == {Loading, SettingUp, Ready, NotReady, "URL", Unavailable}
Past == {Ready, NotReady}

\* The shared variables, the goroutines and the panels, apart from each other.
SharedOK ==
  /\ cluster \subseteq Facts
  /\ firstHost \in BOOLEAN /\ installed \in BOOLEAN /\ chartSeen \in BOOLEAN
  /\ managementURL \in {"none", "torn", "known"}
  /\ prompt \in BOOLEAN /\ process \in {"console", "shell", "restarting"}

PollOK ==
  /\ poll \in [Panels -> [pc : StatusSteps \cup URLSteps, result : Results]]
  /\ \A p \in StatusPanels :
       /\ poll[p].pc \in StatusSteps
       /\ poll[p].result \in {Loading, SettingUp, Ready, NotReady}
  /\ poll["managementUrl"].pc \in URLSteps
  /\ poll["managementUrl"].result \in {Loading, "URL", Unavailable}
  /\ poll["nodeStatus"].pc # "api"

ShownOK ==
  /\ shown \in [Panels -> Results]
  /\ \A p \in StatusPanels : shown[p] \in {Loading, SettingUp, Ready, NotReady}
  /\ shown["managementUrl"] \in {Loading, "URL", Unavailable}

Types == SharedOK /\ PollOK /\ ShownOK

(* The inductive invariant *)

\* A goroutine holds a result only between its queries and the update of its panel.
ResultsFresh == \A p \in Panels : poll[p].pc = "update" <=> poll[p].result # Loading

\* On the first host a goroutine is past the setup, or says so, only once the flag is
\* set, and the flag is set only once the chart was seen.
FlagFirst ==
  /\ installed => chartSeen
  /\ \A p \in StatusPanels :
       poll[p].pc \in {"node", "api"} \/ poll[p].result \in Past \/ shown[p] \in Past
         => SetupDone

\* A goroutine whose panel is past the setup does not ask about it again.
NoWayBack ==
  \A p \in StatusPanels :
    shown[p] \in Past => poll[p].pc \notin {"k8s", "chart"} /\ poll[p].result # SettingUp

\* The cluster is found ready only with the URL that the other goroutine stored.
URLFirst ==
  poll["clusterStatus"].result = Ready \/ shown["clusterStatus"] = Ready
    => managementURL = "known"

\* A chart that is there has been seen.
ChartRemembered == "chart" \in cluster => chartSeen

\* Without a console nothing is shared, polled or shown.
GoneIsFresh ==
  process # "console" =>
    /\ ~installed /\ managementURL = "none"
    /\ \A p \in Panels : poll[p] = Idle /\ shown[p] = Loading

IInv == Types /\ ResultsFresh /\ FlagFirst /\ NoWayBack /\ URLFirst /\ GoneIsFresh
        /\ ChartRemembered

-----------------------------------------------------------------------------
USE DEF Panels, StatusPanels, Loading, SettingUp, Ready, NotReady, Unavailable

\* Nothing polled, shared or shown is consistent with any cluster.
FreshState ==
  /\ SharedOK /\ ChartRemembered /\ ~installed /\ managementURL = "none"
  /\ poll = [p \in Panels |-> Idle] /\ shown = [p \in Panels |-> Loading]

LEMMA FreshInv == FreshState => IInv
<1> SUFFICES ASSUME FreshState PROVE IInv
  OBVIOUS
<1> USE DEF FreshState
<1>1. \A p \in Panels : poll[p] = Idle /\ shown[p] = Loading
  OBVIOUS
<1>2. Idle.pc = "wait" /\ Idle.result = Loading
  BY DEF Idle
<1>3. Idle \in [pc : StatusSteps \cup URLSteps, result : Results]
  BY DEF Idle, StatusSteps, Results
<1>4. PollOK
  BY <1>1, <1>2, <1>3 DEF PollOK, StatusSteps, URLSteps
<1>5. ShownOK
  BY <1>1 DEF ShownOK, Results
<1>6. ResultsFresh /\ FlagFirst /\ NoWayBack /\ URLFirst /\ GoneIsFresh
  BY <1>1, <1>2 DEF ResultsFresh, FlagFirst, NoWayBack, URLFirst, GoneIsFresh, Past
<1> QED
  BY <1>4, <1>5, <1>6 DEF IInv, Types

\* All of it holds when the first console starts.
LEMMA InitInv == Init => IInv
<1> SUFFICES ASSUME Init PROVE IInv
  OBVIOUS
<1>1. chartSeen \in BOOLEAN /\ ChartRemembered
  <2>1. chartSeen = ("chart" \in cluster)
    BY Zenon DEF Init, Fresh
  <2>2. ("chart" \in cluster) \in BOOLEAN
    OBVIOUS
  <2> QED
    BY <2>1, <2>2 DEF ChartRemembered
<1>2. /\ installed = FALSE /\ managementURL = "none" /\ prompt = FALSE /\ process = "console"
      /\ poll = [p \in Panels |-> Idle] /\ shown = [p \in Panels |-> Loading]
  BY Zenon DEF Init, Fresh
<1>3. cluster \subseteq Facts /\ firstHost \in BOOLEAN
  BY DEF Init
<1>4. SharedOK
  BY <1>1, <1>2, <1>3 DEF SharedOK
<1> QED
  BY <1>1, <1>2, <1>4, FreshInv DEF FreshState

\* What Goto and Result do to the goroutines.
PollType == [Panels -> [pc : StatusSteps \cup URLSteps, result : Results]]
OthersWait(p) == \A q \in Panels : q # p => poll'[q] = poll[q]

LEMMA GotoMoves ==
  ASSUME PollOK, NEW p \in Panels, NEW pc \in StatusSteps \cup URLSteps, Goto(p, pc)
  PROVE  /\ poll' \in PollType /\ OthersWait(p)
         /\ poll'[p].pc = pc /\ poll'[p].result = poll[p].result
BY DEF PollOK, PollType, Goto, OthersWait

LEMMA ResultMoves ==
  ASSUME PollOK, NEW p \in Panels, NEW r \in Results, Result(p, r)
  PROVE  /\ poll' \in PollType /\ OthersWait(p)
         /\ poll'[p].pc = "update" /\ poll'[p].result = r
BY DEF PollOK, PollType, Result, StatusSteps, OthersWait

\* What a step of a goroutine that shows nothing owes to the invariant.
SharedStep ==
  /\ process = "console" /\ Unshared
  /\ installed' \in BOOLEAN /\ (installed => installed') /\ (installed' => chartSeen)
  /\ managementURL' \in {"none", "torn", "known"}
  /\ managementURL = "known" => managementURL' = "known"

Moves(p, pc, r) ==
  /\ poll' \in PollType /\ OthersWait(p)
  /\ poll'[p].pc = pc /\ poll'[p].result = r
  /\ pc = "update" <=> r # Loading

StatusMove(p, pc, r) ==
  /\ pc \in StatusSteps /\ r \in {Loading, SettingUp, Ready, NotReady}
  /\ p = "nodeStatus" => pc # "api"
  /\ p = "clusterStatus" /\ r = Ready => managementURL' = "known"
  /\ pc \in {"node", "api"} \/ r \in Past => ~firstHost \/ installed'
  /\ shown[p] \in Past => pc \notin {"k8s", "chart"} /\ r # SettingUp

URLMove(pc, r) == pc \in URLSteps /\ r \in {Loading, "URL", Unavailable}

LEMMA PollStep ==
  ASSUME IInv, NEW p \in Panels, NEW pc, NEW r, SharedStep, Moves(p, pc, r),
         p \in StatusPanels => StatusMove(p, pc, r),
         p = "managementUrl" => URLMove(pc, r)
  PROVE  IInv'
<1> USE DEF SharedStep, Moves, StatusMove, URLMove
<1>1. SharedOK' /\ ShownOK'
  BY DEF IInv, Types, SharedOK, ShownOK, Unshared
<1>2. PollOK'
  BY DEF IInv, Types, PollOK, PollType, OthersWait
<1>3. ResultsFresh'
  BY DEF IInv, ResultsFresh, OthersWait
<1>4. FlagFirst'
  BY DEF IInv, FlagFirst, OthersWait, SetupDone, Unshared
<1>5. NoWayBack'
  BY DEF IInv, NoWayBack, OthersWait, Unshared
<1>6. URLFirst'
  BY DEF IInv, URLFirst, OthersWait, Unshared
<1>7. GoneIsFresh' /\ ChartRemembered'
  BY DEF IInv, GoneIsFresh, ChartRemembered, Unshared
<1> QED
  BY <1>1, <1>2, <1>3, <1>4, <1>5, <1>6, <1>7 DEF IInv, Types

\* A goroutine that has a query ahead of it holds no result yet.
LEMMA NoResultYet ==
  ASSUME IInv, NEW p \in Panels, poll[p].pc # "update"
  PROVE  poll[p].result = Loading
BY DEF IInv, ResultsFresh

LEMMA Consequences ==
  ASSUME IInv
  PROVE  /\ PollOK /\ installed \in BOOLEAN /\ (installed => chartSeen)
         /\ managementURL \in {"none", "torn", "known"} /\ firstHost \in BOOLEAN
         /\ \A p \in StatusPanels :
              poll[p].pc \in {"node", "api"} \/ shown[p] \in Past => ~firstHost \/ installed
         /\ \A p \in StatusPanels : shown[p] \in Past => poll[p].pc \notin {"k8s", "chart"}
BY DEF IInv, Types, SharedOK, FlagFirst, SetupDone, NoWayBack

\* One lemma per action.
LEMMA TickInv == ASSUME IInv, NEW p \in Panels, Tick(p) PROVE IInv'
<1>1. /\ process = "console" /\ Unshared /\ poll[p].pc = "wait" /\ poll[p].result = Loading
      /\ installed' = installed /\ managementURL' = managementURL
  BY NoResultYet DEF Tick, At
<1>2. CASE p \in StatusPanels /\ SetupDone
  <2>1. Goto(p, "node") /\ (~firstHost \/ installed')
    BY <1>1, <1>2 DEF Tick, SetupDone
  <2>2. poll' \in PollType /\ OthersWait(p) /\ poll'[p].pc = "node" /\ poll'[p].result = Loading
    BY <1>1, <2>1, GotoMoves, Consequences DEF StatusSteps
  <2>3. SharedStep /\ Moves(p, "node", Loading) /\ StatusMove(p, "node", Loading)
    BY <1>1, <1>2, <2>1, <2>2, Consequences DEF Past, StatusSteps, SharedStep, Moves, StatusMove
  <2> QED
    BY <1>2, <2>3, PollStep
<1>4. CASE p \in StatusPanels /\ ~SetupDone
  <2>1. Goto(p, "k8s") /\ shown[p] \notin Past
    BY <1>4, Consequences DEF Tick, SetupDone
  <2>2. poll' \in PollType /\ OthersWait(p) /\ poll'[p].pc = "k8s" /\ poll'[p].result = Loading
    BY <1>1, <2>1, GotoMoves, Consequences DEF StatusSteps
  <2>3. SharedStep /\ Moves(p, "k8s", Loading) /\ StatusMove(p, "k8s", Loading)
    BY <1>1, <1>4, <2>1, <2>2, Consequences DEF Past, StatusSteps, SharedStep, Moves, StatusMove
  <2> QED
    BY <1>4, <2>3, PollStep
<1>3. CASE p = "managementUrl"
  <2>1. Goto(p, "vip")
    BY <1>3 DEF Tick
  <2>2. poll' \in PollType /\ OthersWait(p) /\ poll'[p].pc = "vip" /\ poll'[p].result = Loading
    BY <1>1, <2>1, GotoMoves, Consequences DEF URLSteps
  <2>3. SharedStep /\ Moves(p, "vip", Loading) /\ URLMove("vip", Loading)
    BY <1>1, <2>2, Consequences DEF URLSteps, SharedStep, Moves, URLMove
  <2> QED
    BY <1>3, <2>3, PollStep
<1> QED
  BY <1>2, <1>3, <1>4

\* The queries of the two status goroutines: the next query, or a result.
LEMMA StatusGoto ==
  ASSUME IInv, NEW p \in StatusPanels, process = "console", Unshared, poll[p].pc # "update",
         NEW pc \in {"chart", "node", "api"}, Goto(p, pc),
         UNCHANGED managementURL,
         installed' \in BOOLEAN, installed => installed', installed' => chartSeen,
         p = "nodeStatus" => pc # "api",
         pc \in {"node", "api"} => ~firstHost \/ installed',
         pc = "chart" => shown[p] \notin Past
  PROVE  IInv'
<1>1. poll[p].result = Loading
  BY NoResultYet
<1>2. poll' \in PollType /\ OthersWait(p) /\ poll'[p].pc = pc /\ poll'[p].result = Loading
  BY <1>1, GotoMoves, Consequences DEF StatusSteps
<1>3. pc \in StatusSteps /\ pc # "update" /\ Loading \notin Past
  BY DEF StatusSteps, Past
<1>4. shown[p] \in Past => pc \notin {"k8s", "chart"}
  OBVIOUS
<1>5. SharedStep
  BY Consequences DEF SharedStep
<1>6. Moves(p, pc, Loading)
  BY <1>2, <1>3 DEF Moves
<1>7. StatusMove(p, pc, Loading)
  BY <1>3, <1>4 DEF StatusMove
<1> QED
  BY <1>5, <1>6, <1>7, PollStep

LEMMA StatusResult ==
  ASSUME IInv, NEW p \in StatusPanels, process = "console", Unshared,
         NEW r \in {SettingUp, Ready, NotReady}, Result(p, r),
         UNCHANGED <<installed, managementURL>>,
         p = "clusterStatus" /\ r = Ready => managementURL = "known",
         r \in Past => ~firstHost \/ installed,
         shown[p] \in Past => r # SettingUp
  PROVE  IInv'
<1>1. poll' \in PollType /\ OthersWait(p) /\ poll'[p].pc = "update" /\ poll'[p].result = r
  BY ResultMoves, Consequences DEF Results
<1>2. r \in {Loading, SettingUp, Ready, NotReady} /\ r # Loading /\ "update" \in StatusSteps
  BY DEF StatusSteps
<1>3. SharedStep
  BY Consequences DEF SharedStep
<1>4. Moves(p, "update", r)
  BY <1>1, <1>2 DEF Moves
<1>5. StatusMove(p, "update", r)
  BY <1>2 DEF StatusMove
<1> QED
  BY <1>3, <1>4, <1>5, PollStep

\* One lemma per query.
LEMMA K8sInv == ASSUME IInv, NEW p \in StatusPanels, k8sIsReady(p) PROVE IInv'
<1>1. /\ process = "console" /\ Unshared /\ poll[p].pc = "k8s"
      /\ UNCHANGED <<installed, managementURL>>
  BY DEF k8sIsReady, At
<1>2. shown[p] \notin Past
  BY <1>1, Consequences
<1>3. CASE Goto(p, "chart")
  BY <1>1, <1>2, <1>3, StatusGoto, Consequences
<1>4. CASE Result(p, SettingUp)
  BY <1>1, <1>2, <1>4, StatusResult DEF Past
<1> QED
  BY <1>3, <1>4 DEF k8sIsReady

LEMMA ChartInv == ASSUME IInv, NEW p \in StatusPanels, chartIsInstalled(p) PROVE IInv'
<1>1. /\ process = "console" /\ Unshared /\ poll[p].pc = "chart" /\ UNCHANGED managementURL
  BY DEF chartIsInstalled, At
<1>2. shown[p] \notin Past
  BY <1>1, Consequences
<1>3. CASE installed' = TRUE /\ Goto(p, "node") /\ Holds("chart")
  <2>1. chartSeen
    BY <1>3 DEF IInv, ChartRemembered, Holds
  <2> QED
    BY <1>1, <1>3, <2>1, StatusGoto, Consequences
<1>4. CASE Result(p, SettingUp) /\ UNCHANGED installed
  BY <1>1, <1>2, <1>4, StatusResult DEF Past
<1> QED
  BY <1>3, <1>4 DEF chartIsInstalled

LEMMA NodeInv == ASSUME IInv, NEW p \in StatusPanels, nodeIsPresent(p) PROVE IInv'
<1>1. /\ process = "console" /\ Unshared /\ poll[p].pc = "node"
      /\ UNCHANGED <<installed, managementURL>>
  BY DEF nodeIsPresent, At
<1>2. ~firstHost \/ installed
  BY <1>1, Consequences
<1>3. CASE p = "clusterStatus" /\ Goto(p, "api")
  BY <1>1, <1>2, <1>3, StatusGoto, Consequences
<1>4. CASE p = "nodeStatus" /\ Result(p, Ready)
  BY <1>1, <1>2, <1>4, StatusResult
<1>5. CASE Result(p, NotReady)
  BY <1>1, <1>2, <1>5, StatusResult
<1> QED
  BY <1>3, <1>4, <1>5 DEF nodeIsPresent, AfterNode

LEMMA APIInv == ASSUME IInv, NEW p \in StatusPanels, isAPIReady(p) PROVE IInv'
<1>1. /\ process = "console" /\ Unshared /\ poll[p].pc = "api"
      /\ UNCHANGED <<installed, managementURL>>
  BY DEF isAPIReady, At
<1>2. ~firstHost \/ installed
  BY <1>1, Consequences
<1>3. CASE URLUsable /\ Result(p, Ready)
  BY <1>1, <1>2, <1>3, StatusResult DEF URLUsable
<1>4. CASE Result(p, NotReady)
  BY <1>1, <1>2, <1>4, StatusResult
<1> QED
  BY <1>3, <1>4 DEF isAPIReady

\* The goroutine of the URL.
LEMMA VIPInv == ASSUME IInv, getVIP PROVE IInv'
<1> DEFINE p == "managementUrl"
<1>1. /\ process = "console" /\ Unshared /\ poll[p].pc = "vip" /\ poll[p].result = Loading
      /\ installed' = installed
  BY NoResultYet DEF getVIP, At
<1>2. CASE Goto(p, "store") /\ managementURL' = IF managementURL = "none" THEN "torn" ELSE managementURL
  <2>1. poll' \in PollType /\ OthersWait(p) /\ poll'[p].pc = "store" /\ poll'[p].result = Loading
    BY <1>1, <1>2, GotoMoves, Consequences DEF URLSteps
  <2>2. SharedStep
    BY <1>1, <1>2, Consequences DEF SharedStep
  <2>3. Moves(p, "store", Loading) /\ URLMove("store", Loading)
    BY <2>1 DEF Moves, URLMove, URLSteps
  <2> QED
    BY <2>2, <2>3, PollStep
<1>3. CASE Result(p, Unavailable) /\ UNCHANGED managementURL
  <2>1. poll' \in PollType /\ OthersWait(p) /\ poll'[p].pc = "update" /\ poll'[p].result = Unavailable
    BY <1>3, ResultMoves, Consequences DEF Results
  <2>2. SharedStep
    BY <1>1, <1>3, Consequences DEF SharedStep
  <2>3. Moves(p, "update", Unavailable) /\ URLMove("update", Unavailable)
    BY <2>1 DEF Moves, URLMove, URLSteps
  <2> QED
    BY <2>2, <2>3, PollStep
<1> QED
  BY <1>2, <1>3 DEF getVIP

LEMMA StoreInv == ASSUME IInv, StoreURL PROVE IInv'
<1> DEFINE p == "managementUrl"
<1>1. /\ process = "console" /\ Unshared /\ Result(p, "URL")
      /\ managementURL' = "known" /\ installed' = installed
  BY DEF StoreURL, At
<1>2. poll' \in PollType /\ OthersWait(p) /\ poll'[p].pc = "update" /\ poll'[p].result = "URL"
  BY <1>1, ResultMoves, Consequences DEF Results
<1>3. SharedStep
  BY <1>1, Consequences DEF SharedStep
<1>4. Moves(p, "update", "URL") /\ URLMove("update", "URL")
  BY <1>2 DEF Moves, URLMove, URLSteps
<1> QED
  BY <1>3, <1>4, PollStep

\* The panel takes over what its goroutine owed to the invariant.
LEMMA UpdateInv == ASSUME IInv, NEW p \in Panels, Update(p) PROVE IInv'
<1>1. /\ poll[p].pc = "update" /\ process = "console"
      /\ UNCHANGED <<cluster, firstHost, installed, managementURL, prompt, process, chartSeen>>
  BY DEF Update, At
<1>2. Idle.pc = "wait" /\ Idle.result = Loading
  BY DEF Idle
<1>3. Idle \in [pc : StatusSteps \cup URLSteps, result : Results]
  BY DEF Idle, StatusSteps, Results
<1>4. poll' \in PollType /\ OthersWait(p) /\ poll'[p] = Idle
  BY <1>3 DEF Update, IInv, Types, PollOK, PollType, OthersWait
<1>5. /\ shown' \in [Panels -> Results] /\ shown'[p] = poll[p].result
      /\ \A q \in Panels : q # p => shown'[q] = shown[q]
  BY DEF Update, IInv, Types, PollOK, ShownOK
<1>6. SharedOK'
  BY <1>1 DEF IInv, Types, SharedOK
<1>7. ShownOK'
  BY <1>5 DEF IInv, Types, PollOK, ShownOK
<1>8. PollOK'
  BY <1>2, <1>4 DEF IInv, Types, PollOK, PollType, OthersWait, StatusSteps, URLSteps
<1>9. ResultsFresh'
  BY <1>2, <1>4 DEF IInv, ResultsFresh, OthersWait
<1>10. FlagFirst'
  BY <1>1, <1>2, <1>4, <1>5 DEF IInv, FlagFirst, OthersWait, SetupDone, Past
<1>11. NoWayBack'
  BY <1>1, <1>2, <1>4, <1>5 DEF IInv, NoWayBack, OthersWait, Past
<1>12. URLFirst'
  BY <1>1, <1>2, <1>4, <1>5 DEF IInv, URLFirst, OthersWait
<1>13. GoneIsFresh' /\ ChartRemembered'
  BY <1>1 DEF IInv, GoneIsFresh, ChartRemembered
<1> QED
  BY <1>6, <1>7, <1>8, <1>9, <1>10, <1>11, <1>12, <1>13 DEF IInv, Types

\* The console ends, by the password or by a torn read.
LEMMA ExitInv ==
  ASSUME IInv, NEW next \in {"shell", "restarting"}, Exit(next)
  PROVE  FreshState'
<1>1. SharedOK' /\ ChartRemembered'
  BY DEF IInv, Types, SharedOK, ChartRemembered, Exit
<1>2. /\ ~installed' /\ managementURL' = "none"
      /\ poll' = [p \in Panels |-> Idle] /\ shown' = [p \in Panels |-> Loading]
  BY DEF Exit
<1> QED
  BY <1>1, <1>2 DEF FreshState

\* The terminal without the goroutines.
LEMMA PromptInv ==
  ASSUME IInv, NEW open \in BOOLEAN, Prompt(open)
  PROVE  IInv'
BY DEF Prompt, IInv, Types, SharedOK, PollOK, ShownOK, ResultsFresh, FlagFirst, SetupDone,
       NoWayBack, URLFirst, GoneIsFresh, ChartRemembered

LEMMA RestartInv == ASSUME IInv, Restart PROVE FreshState'
<1>1. chartSeen' = ("chart" \in cluster) /\ process' = "console"
      /\ UNCHANGED <<cluster, firstHost, installed, managementURL, poll, shown, prompt>>
  BY DEF Restart, Holds
<1>2. ("chart" \in cluster) \in BOOLEAN
  OBVIOUS
<1>3. SharedOK' /\ ChartRemembered'
  BY <1>1, <1>2 DEF IInv, Types, SharedOK, ChartRemembered
<1>4. ~installed /\ managementURL = "none" /\ \A p \in Panels : poll[p] = Idle /\ shown[p] = Loading
  BY DEF IInv, GoneIsFresh, Restart
<1>5. poll = [p \in Panels |-> Idle]
  BY <1>4 DEF IInv, Types, PollOK
<1>6. shown = [p \in Panels |-> Loading]
  BY <1>4 DEF IInv, Types, ShownOK
<1> QED
  BY <1>1, <1>3, <1>4, <1>5, <1>6 DEF FreshState

LEMMA ClusterInv == ASSUME IInv, NEW f \in Facts, ClusterChanges(f) PROVE IInv'
<1>1. /\ UNCHANGED <<firstHost, installed, managementURL, poll, shown, prompt, process>>
      /\ chartSeen' = (chartSeen \/ "chart" \in cluster')
  BY DEF ClusterChanges
<1>2. cluster' \subseteq Facts
  BY DEF ClusterChanges, IInv, Types, SharedOK
<1>3. (chartSeen \/ "chart" \in cluster') \in BOOLEAN
  OBVIOUS
<1>4. chartSeen' \in BOOLEAN /\ (chartSeen => chartSeen') /\ ChartRemembered'
  BY <1>1, <1>3 DEF ChartRemembered
<1>5. SharedOK'
  BY <1>1, <1>2, <1>4 DEF IInv, Types, SharedOK
<1>6. PollOK' /\ ShownOK' /\ ResultsFresh'
  BY <1>1 DEF IInv, Types, PollOK, ShownOK, ResultsFresh
<1>7. FlagFirst' /\ NoWayBack' /\ URLFirst' /\ GoneIsFresh'
  BY <1>1, <1>4 DEF IInv, FlagFirst, SetupDone, NoWayBack, URLFirst, GoneIsFresh
<1> QED
  BY <1>4, <1>5, <1>6, <1>7 DEF IInv, Types

\* The status goroutines never come to the steps of the other one, nor it to theirs.
LEMMA PollInv == ASSUME IInv, NEW p \in Panels, Poll(p) PROVE IInv'
<1>1. CASE p \in StatusPanels
  <2>1. p # "managementUrl"
    BY <1>1
  <2> QED
    BY <1>1, <2>1, TickInv, K8sInv, ChartInv, NodeInv, APIInv, UpdateInv DEF Poll
<1>2. CASE p = "managementUrl"
  <2>1. poll[p].pc \in URLSteps
    BY <1>2 DEF IInv, Types, PollOK
  <2>2. ~k8sIsReady(p) /\ ~chartIsInstalled(p) /\ ~nodeIsPresent(p) /\ ~isAPIReady(p)
    BY <2>1 DEF k8sIsReady, chartIsInstalled, nodeIsPresent, isAPIReady, At, URLSteps
  <2> QED
    BY <1>2, <2>2, TickInv, UpdateInv, VIPInv, StoreInv DEF Poll
<1> QED
  BY <1>1, <1>2

\* Every step keeps the invariant or starts over.
LEMMA Preserved == IInv /\ [Next]_vars => IInv' \/ FreshState'
<1> SUFFICES ASSUME IInv, [Next]_vars PROVE IInv' \/ FreshState'
  OBVIOUS
<1>1. CASE \E f \in Facts : ClusterChanges(f)
  BY <1>1, ClusterInv
<1>2. CASE \E p \in Panels : Poll(p)
  BY <1>2, PollInv
<1>3. CASE TornRead
  BY <1>3, ExitInv DEF TornRead, AfterFailure
<1>4. CASE toShell \/ Esc
  BY <1>4, PromptInv DEF toShell, Esc
<1>5. CASE RightPassword
  BY <1>5, ExitInv DEF RightPassword
<1>6. CASE Restart
  BY <1>6, RestartInv
<1>7. CASE UNCHANGED vars
  BY <1>7 DEF vars, IInv, Types, SharedOK, PollOK, ShownOK, ResultsFresh, FlagFirst, SetupDone,
              NoWayBack, URLFirst, GoneIsFresh, ChartRemembered
<1> QED
  BY <1>1, <1>2, <1>3, <1>4, <1>5, <1>6, <1>7 DEF Next

\* The inductive invariant holds in every behaviour.
THEOREM DashboardInv == Spec => []IInv
BY InitInv, Preserved, FreshInv, PTL DEF Spec

\* Type correctness: each panel shows only what its own goroutine reports.
THEOREM DashboardTypeCorrect == Spec => []TypeOK
<1>1. IInv => TypeOK
  BY DEF IInv, Types, SharedOK, PollOK, ShownOK, StatusSteps, URLSteps, TypeOK
<1> QED
  BY <1>1, DashboardInv, PTL

\* On the first host no panel is past the setup before the chart was seen, whichever
\* goroutine found out.
THEOREM SetupStaysFirst == Spec => []SetupComesFirst
<1>1. IInv => SetupComesFirst
  BY DEF IInv, Types, SharedOK, ShownOK, FlagFirst, SetupDone, Past, SetupComesFirst
<1> QED
  BY <1>1, DashboardInv, PTL

\* A cluster shown as ready has a URL, although another goroutine stores it.
THEOREM ReadyAlwaysHasURL == Spec => []ReadyHasURL
<1>1. IInv => ReadyHasURL
  BY DEF IInv, URLFirst, ReadyHasURL
<1> QED
  BY <1>1, DashboardInv, PTL

\* A panel that is past the setup does not go back to it while the console runs.
NoPanelReturns ==
  process = "console" /\ process' = "console"
    => \A p \in StatusPanels :
         shown[p] \in {Ready, NotReady} => shown'[p] \in {Ready, NotReady}

\* An update of a panel that is past the setup brings a result that is.
LEMMA UpdateKeepsPast == ASSUME IInv, NEW p \in Panels, Update(p) PROVE NoPanelReturns
<1>1. poll[p].pc = "update" /\ shown' = [shown EXCEPT ![p] = poll[p].result]
  BY DEF Update, At
<1>2. ASSUME NEW q \in StatusPanels, shown[q] \in Past, q = p
      PROVE  poll[p].result \in Past
  <2>1. poll[p].result # Loading /\ poll[p].result # SettingUp
    BY <1>1, <1>2 DEF IInv, ResultsFresh, NoWayBack
  <2> QED
    BY <1>2, <2>1 DEF IInv, Types, PollOK, Past
<1> QED
  BY <1>1, <1>2 DEF NoPanelReturns, IInv, Types, ShownOK, Past

\* The other steps leave the panels alone or end or start the console.
LEMMA NoStepReturns == IInv /\ [Next]_vars => [NoPanelReturns]_vars
<1> SUFFICES ASSUME IInv, Next PROVE NoPanelReturns
  OBVIOUS
<1>1. CASE UNCHANGED shown
  BY <1>1 DEF NoPanelReturns
<1>2. CASE \E p \in Panels : Update(p)
  BY <1>2, UpdateKeepsPast
<1>3. CASE process # "console" \/ process' # "console"
  BY <1>3 DEF NoPanelReturns
<1>4. ASSUME NEW p \in Panels, Poll(p) PROVE UNCHANGED shown \/ Update(p)
  BY <1>4 DEF Poll, Tick, k8sIsReady, chartIsInstalled, nodeIsPresent, isAPIReady, getVIP,
              StoreURL, Unshared
<1>5. TornRead \/ RightPassword => process' # "console"
  BY DEF TornRead, RightPassword, Exit, AfterFailure
<1>6. Restart => process # "console"
  BY DEF Restart
<1>7. toShell \/ Esc \/ (\E f \in Facts : ClusterChanges(f)) => UNCHANGED shown
  BY DEF toShell, Esc, Prompt, ClusterChanges
<1> QED
  BY <1>1, <1>2, <1>3, <1>4, <1>5, <1>6, <1>7 DEF Next

\* "Setting up" does not return, whatever becomes of the cluster and whichever
\* goroutine ended the setup.
THEOREM SetupIsOver == Spec => SetupNeverReturns
<1>1. SetupNeverReturns <=> [][NoPanelReturns]_vars
  BY DEF SetupNeverReturns, NoPanelReturns
<1> QED
  BY <1>1, NoStepReturns, DashboardInv, PTL DEF Spec
=============================================================================
