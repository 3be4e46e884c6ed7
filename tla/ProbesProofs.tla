---------------------------- MODULE ProbesProofs ----------------------------
(***************************************************************************)
(* Proofs about Probes for every number of runs and of daemons.            *)
(***************************************************************************)
EXTENDS Probes, TLAPS

(* The steps of the run under way leave daemon and sessions as they are.   *)
LEMMA RunLeavesDaemon ==
  ASSUME Run \/ NextRun \/ Tick
  PROVE  UNCHANGED <<pid, epoch, sessions>>
<1>1. CASE Prepare \/ Fire \/ Error \/ Wake \/ Report
  BY <1>1 DEF Prepare, Fire, Error, Wake, Report, daemonVars
<1>2. CASE Write \/ StopPrior \/ Start \/ Plant \/ Look \/ Close \/ Stop \/ Unsubscribe
  BY <1>2 DEF Write, StopPrior, Start, Plant, Look, Close, Stop, Unsubscribe,
              Tidy, TidyAndReturn, daemonVars
<1>3. CASE LookAtAgent
  BY <1>3 DEF LookAtAgent, daemonVars
<1>4. CASE Serve \/ Check \/ StartForward \/ Curl \/ List \/ StopForward \/ Kill
  BY <1>4 DEF Serve, Check, StartForward, Curl, List, StopForward, Kill,
              Tidy, TidyAndReturn, daemonVars
<1>5. CASE WaitForSession \/ PidBefore \/ PidAfter \/ SessionsAfter
  BY <1>5 DEF WaitForSession, PidBefore, PidAfter, SessionsAfter, daemonVars
<1>6. CASE Disconnect \/ Connect
  BY <1>6 DEF Disconnect, Connect
<1>7. CASE NextRun \/ Tick
  BY <1>7 DEF NextRun, Tick, daemonVars
<1>8. CASE SetupRun
  BY <1>8 DEF SetupRun, Join, Worktree, Clone, Install, VerifyInstall, InstallAgain, Leave,
              Binding, LookForReply, CheckHosts, CheckRuntime, CheckBinding, Mark, CheckStatus,
              CheckContent, CheckTree, Checks, daemonVars
<1>9. CASE WalkRun
  BY <1>9 DEF WalkRun, Clean, StartsEmpty, AskToConnect, Settled, RowSaysConnected, LoadPage,
              Wipe, PanelOpens, Chips, Inspect, PlantMarker, Changes, Send, RowVisible,
              RowShowsActivity, WaitForRow, Checks, PanelRun, RowPresent, HeaderChip, BackendConnected, DebugPanel, Buttons,
              CopyDiagnostics, ToastShown, DaemonLog, AuthDialog, Wizard, daemonVars
<1> QED
  BY <1>1, <1>2, <1>3, <1>4, <1>5, <1>6, <1>7, <1>8, <1>9 DEF Run, LiveRun

LEMMA NextSessionsLive == SessionsLive /\ [Next]_vars => SessionsLive'
<1> SUFFICES ASSUME SessionsLive, [Next]_vars PROVE SessionsLive'
  OBVIOUS
<1>q. ASSUME UNCHANGED <<pid, epoch, sessions>> PROVE SessionsLive'
  BY <1>q DEF SessionsLive
<1>1. CASE Run \/ NextRun \/ Tick
  BY <1>1, <1>q, RunLeavesDaemon
<1>2. ASSUME NEW x \in fired, Opens(x) PROVE SessionsLive'
  <2>1. CASE x[1] = "session"
    <3>1. Possible("session") /\ pid' = pid /\ epoch' = epoch
      BY <1>2, <2>1 DEF Opens
    <3>2. sessions' = sessions \cup {[by |-> x[2], epoch |-> epoch]}
      BY <1>2, <2>1 DEF Opens
    <3>3. pid # 0
      BY <3>1 DEF Possible
    <3> QED
      BY <3>1, <3>2, <3>3 DEF SessionsLive
  <2>2. CASE x[1] # "session"
    <3>1. UNCHANGED <<pid, epoch>>
      BY <1>2 DEF Opens
    <3>2. sessions' = sessions
      BY <1>2, <2>2 DEF Opens
    <3> QED
      BY <3>1, <3>2, <1>q
  <2> QED
    BY <2>1, <2>2
<1>3. ASSUME NEW x \in fired, Refused(x) PROVE SessionsLive'
  BY <1>3, <1>q DEF Refused, daemonVars
<1>4. ASSUME NEW by \in 1..Runs, Streams(by) \/ StreamEnds(by) PROVE SessionsLive'
  BY <1>4, <1>q DEF Streams, StreamEnds, daemonVars
<1>5. ASSUME NEW x \in open, Closes(x) PROVE SessionsLive'
  BY <1>5, <1>q DEF Closes, daemonVars
<1>6. ASSUME NEW s \in sessions, SessionEnds(s) PROVE SessionsLive'
  BY <1>6 DEF SessionEnds, SessionsLive
<1>7. CASE Replies \/ Screen \/ Change \/ Reload \/ Toast \/ BundleGoes
  BY <1>7, <1>q DEF Replies, Screen, Change, Reload, Toast, BundleGoes, daemonVars
<1>8. CASE DaemonDies
  BY <1>8 DEF DaemonDies, SessionsLive
<1>9. CASE DaemonStarts
  BY <1>9 DEF DaemonStarts, SessionsLive
<1>10. CASE ForeignSession
  BY <1>10 DEF ForeignSession, SessionsLive
<1>11. CASE UNCHANGED vars
  BY <1>11, <1>q DEF vars, daemonVars
<1> QED
  BY <1>1, <1>2, <1>3, <1>4, <1>5, <1>6, <1>7, <1>8, <1>9, <1>10, <1>11
     DEF Next, World, Over

-----------------------------------------------------------------------------
(* Types.                                                                  *)

LEMMA Tables ==
  ASSUME ProbesAssumption, NEW p \in ProbeNames
  PROVE  /\ Begin[p] \in Steps \ (Between \cup {"pid", "over"})
         /\ p \in {"terminal", "watch", "agent", "daemon", "bundle"} =>
              Then[p] \in Steps \ (Between \cup {"pid", "over"})
         /\ p \in {"terminal", "watch", "agent", "daemon", "bundle", "agent_row"} => Asks[p] \in Whats
         /\ p \in WalkNames \ {"connect_over_ssh", "remote_runner"} =>
              Walk[p] \in Steps \ (Between \cup {"pid", "over"})
<1>1. CASE p \in LiveProbeNames
  BY <1>1 DEF LiveProbeNames, SetupNames, WalkNames, Begin, Then, Asks, Walk, Steps, Whats,
              Between
<1>2. CASE p \in SetupNames
  BY <1>2 DEF LiveProbeNames, SetupNames, WalkNames, Begin, Then, Asks, Walk, Steps, Whats,
              Between
<1>3. CASE p \in WalkNames
  BY <1>3 DEF LiveProbeNames, SetupNames, WalkNames, Begin, Then, Asks, Walk, Steps, Whats,
              Between
<1> QED
  BY <1>1, <1>2, <1>3 DEF ProbeNames

(* A cleanup call takes away at most, and nothing more than it is told.    *)
LEMMA CleanUpTakes ==
  ASSUME NEW things, CleanUp(things), lost \in BOOLEAN
  PROVE  /\ open' \subseteq open /\ lost' \in BOOLEAN
         /\ open \ things \subseteq open'
         /\ ~lost' => ~lost /\ open' = open \ things
<1>1. CASE open' = open \ things /\ lost' = lost
  BY <1>1
<1>2. CASE open' \in {open, open \ things} /\ lost' = TRUE
  BY <1>2
<1> QED
  BY <1>1, <1>2 DEF CleanUp

LEMMA NextType ==
  ASSUME TypeOK, Place, [Next]_vars
  PROVE  TypeOK'
<1> USE ProbesAssumption
<1>r. run \in 0..Runs /\ {run} \subseteq Items /\ {} \subseteq Items
  BY DEF TypeOK, Items
<1>m. \A w \in Whats : Mine(w) \in Things
  BY <1>r DEF Mine, Things
<1>i. {marker} \subseteq Items
  BY DEF TypeOK, Items
<1>p. PageLoads => fired' \subseteq Things /\ open' \subseteq Things
  <2>1. \A y \in fired : <<y[1], 0>> \in Things
    BY DEF TypeOK, Things
  <2> QED
    BY <2>1 DEF PageLoads, OfPage, All, TypeOK
<1>f. ASSUME pc' \in Steps \ (Between \cup {"pid"}), late' \in BOOLEAN, read' \subseteq Items,
             tally' \in BOOLEAN,
             UNCHANGED <<run, probe, target, pidBefore, verdict, lost, slot, helmorVars,
                         daemonVars, hostVars>>
      PROVE  TypeOK'
  BY <1>f DEF TypeOK, helmorVars, daemonVars, hostVars
<1>g. ASSUME pc' \in Steps \ (Between \cup {"pid"}),
             connected' \in BOOLEAN, installed' \in BOOLEAN, bound' \in BOOLEAN,
             marker' \in 0..Runs, fired' \subseteq Things,
             verdict' \in {"none", "pass", "fail", "error"},
             UNCHANGED <<run, probe, late, read, tally, target, pidBefore, lost, slot, open,
                         pid, epoch, sessions>>
      PROVE  TypeOK'
  BY <1>g DEF TypeOK
<1>b. late \in BOOLEAN /\ tally \in BOOLEAN /\ connected \in BOOLEAN
  BY DEF TypeOK
<1>t. late \in BOOLEAN /\ read \subseteq Items
  BY DEF TypeOK
<1>1. CASE Prepare \/ Fire \/ Wake \/ Report \/ Tick
  <2>1. CASE Prepare
    BY <2>1, Tables DEF TypeOK, Prepare, Goto, helmorVars, daemonVars, hostVars
  <2>2. CASE Fire
    <3>1. /\ fired' = fired \cup {Mine(Asks[probe])} /\ pc' = Then[probe] /\ slot' = Fresh
          /\ probe \in {"terminal", "watch", "agent", "daemon", "bundle"}
          /\ UNCHANGED <<late, read, open, daemonVars, hostVars, run, probe, tally, target, pidBefore, verdict, lost>>
      BY <2>2 DEF Fire, Goto, Place
    <3>2. fired' \subseteq Things /\ pc' \in Steps \ (Between \cup {"pid", "over"})
      BY <3>1, <1>m, Tables DEF TypeOK
    <3> QED
      BY <3>1, <3>2 DEF TypeOK, Fresh, daemonVars, hostVars
  <2>3. CASE Wake
    BY <2>3 DEF TypeOK, Wake, Goto, Steps, Between, helmorVars, daemonVars, hostVars
  <2>4. CASE Report
    BY <2>4 DEF TypeOK, Report, Return, Verdict, Steps, Between, helmorVars, daemonVars,
                hostVars
  <2>5. CASE Tick
    BY <2>5 DEF TypeOK, Tick, Between, helmorVars, daemonVars, hostVars
  <2> QED
    BY <1>1, <2>1, <2>2, <2>3, <2>4, <2>5
<1>2. CASE Error
  <2>1. /\ pc' = "over" /\ verdict' = "error"
        /\ UNCHANGED <<run, probe, late, read, tally, target, pidBefore, lost, slot, pid, epoch, sessions>>
    BY <1>2 DEF Error, Return
  <2>2. fired' \subseteq Things
    <3>1. pc \in {"fire", "send"} => Mine(Asks[probe]) \in Things
      BY <1>m, Tables DEF TypeOK, Place
    <3>2. Mine("connection") \in Things /\ Mine("toast") \in Things
      BY <1>m DEF Whats
    <3> QED
      BY <1>2, <3>1, <3>2 DEF Error, Maybe, TypeOK
  <2>3. open' \subseteq Things
    BY <1>2, <1>m DEF Error, Maybe, TypeOK, Whats
  <2>4. installed' \in BOOLEAN
    BY <1>2 DEF Error, Maybe, TypeOK
  <2>4a. bound' \in BOOLEAN
    BY <1>2 DEF Error, Maybe, TypeOK
  <2>4b. marker' \in 0..Runs
    BY <1>2, <1>r DEF Error, Maybe, TypeOK
  <2>5. connected' \in BOOLEAN
    <3>1. (pid # 0) \in BOOLEAN
      OBVIOUS
    <3> HIDE DEF TypeOK
    <3>2. connected \in BOOLEAN
      BY DEF TypeOK
    <3>3. connected' \in {connected, FALSE, pid # 0}
      BY <1>2 DEF Error, Maybe
    <3> QED
      BY <3>1, <3>2, <3>3
  <2> QED
    BY <2>1, <2>2, <2>3, <2>4, <2>4a, <2>4b, <2>5 DEF TypeOK, Steps, Between
<1>3. CASE Write \/ StopPrior \/ Start \/ Plant \/ Look \/ Close \/ Stop \/ Unsubscribe
  <2> USE DEF TypeOK, Steps, Between, helmorVars, daemonVars, hostVars
  <2>1. CASE Write \/ Plant
    BY <2>1 DEF Write, Plant, Goto
  <2>2. CASE StopPrior \/ Stop
    BY <2>2, CleanUpTakes DEF StopPrior, Stop, Tidy
  <2>3. CASE Close \/ Unsubscribe
    BY <2>3, CleanUpTakes DEF Close, Unsubscribe, TidyAndReturn, Verdict
  <2>4. CASE Start
    BY <2>4, <1>m DEF Start, Goto, Return, Whats
  <2>5. CASE Look
    BY <2>5 DEF Look, Goto, LeavesTo
  <2> QED
    BY <1>3, <2>1, <2>2, <2>3, <2>4, <2>5
<1>4. CASE LookAtAgent
  BY <1>4 DEF TypeOK, Steps, Between, helmorVars, daemonVars, hostVars, LookAtAgent, Goto,
              Return, Verdict
<1>5. CASE Serve \/ Check \/ StartForward \/ Curl \/ List \/ StopForward \/ Kill
  <2> USE DEF TypeOK, Steps, Between, helmorVars, daemonVars, hostVars
  <2>1. CASE Serve
    BY <2>1, <1>m DEF Serve, Goto, Whats
  <2>2. CASE Check
    BY <2>2 DEF Check, Goto, Return
  <2>3. CASE StartForward
    BY <2>3, <1>m DEF StartForward, Goto, Return, Whats
  <2>4. CASE Curl \/ List
    <3>1. {x[2] : x \in All("server")} \subseteq 0..Runs
      BY DEF All, Things
    <3>2. 0..Runs \subseteq Items
      BY DEF Items
    <3> QED
      BY <2>4, <3>1, <3>2 DEF Curl, List, Goto
  <2>5. CASE StopForward \/ Kill
    BY <2>5, CleanUpTakes DEF StopForward, Kill, Tidy, TidyAndReturn, Verdict
  <2> QED
    BY <1>5, <2>1, <2>2, <2>3, <2>4, <2>5
<1>6. CASE WaitForSession \/ PidBefore \/ Disconnect \/ Connect \/ PidAfter \/ SessionsAfter
  <2> USE DEF TypeOK, Steps, Between, helmorVars, daemonVars, hostVars
  <2>1. CASE WaitForSession
    BY <2>1 DEF WaitForSession, Goto, Return
  <2>2. CASE PidBefore
    <3>1. probe = "daemon" => target \in Sessions
      BY <2>2 DEF PidBefore
    <3> QED
      BY <2>2, <3>1 DEF PidBefore, Return
  <2>3. CASE Disconnect
    <3>1. /\ pc = "disconnect" /\ pc' = "connect" /\ connected' = FALSE
          /\ UNCHANGED <<run, probe, late, read, tally, target, pidBefore, verdict, lost, slot,
                         helmorVars, pid, epoch, sessions, hostVars>>
      BY <2>3 DEF Disconnect, Goto
    <3>2. probe = "daemon" => pidBefore \in Pids /\ target \in Sessions
      BY <3>1
    <3>3. pc' \in Steps /\ connected' \in BOOLEAN
      BY <3>1
    <3> HIDE DEF Steps, Between
    <3> QED
      BY <3>1, <3>2, <3>3
  <2>6. CASE Connect
    BY <2>6 DEF Connect, Goto
  <2>5. CASE SessionsAfter
    BY <2>5 DEF SessionsAfter, Return, Verdict
  <2>4. CASE PidAfter
    BY <2>4 DEF PidAfter, Goto, Items
  <2> QED
    BY <1>6, <2>1, <2>2, <2>3, <2>4, <2>5, <2>6
<1>7. CASE NextRun
  <2>1. fired' \subseteq fired /\ open' \subseteq open
    BY <1>7 DEF NextRun, NoToasts, helmorVars
  <2>2. TypeOK'
    <3>1. run' \in 1..Runs
      BY <1>7 DEF NextRun, TypeOK
    <3>2. /\ probe' \in ProbeNames /\ pc' = "prepare" /\ late' = FALSE /\ read' = {} /\ tally' = TRUE
          /\ target' = NoSession /\ pidBefore' = 0 /\ verdict' = "none" /\ lost' = FALSE
          /\ UNCHANGED <<slot, daemonVars, hostVars>>
      BY <1>7 DEF NextRun
    <3>3. pc' \in Steps \ (Between \cup {"pid"})
      BY <3>2 DEF Steps, Between
    <3> QED
      BY <2>1, <3>1, <3>2, <3>3 DEF TypeOK, daemonVars, hostVars
  <2> QED
    BY <2>2
<1>8. CASE SetupRun
  <2> HIDE DEF TypeOK
  <2> USE DEF Steps, Between
  <2>1. CASE Join \/ Leave
    <3>1. connected' \in BOOLEAN
      BY <2>1, <1>b, Zenon DEF Join, Leave
    <3>2. /\ pc' \in {"worktree", "connect"}
          /\ pc' = "connect" => probe = "bundle"
          /\ UNCHANGED <<run, probe, late, read, tally, target, pidBefore, verdict, lost, slot,
                         helmorVars, pid, epoch, sessions, hostVars>>
      BY <2>1 DEF Join, Leave, Goto, Place
    <3> QED
      BY <3>1, <3>2 DEF TypeOK, helmorVars, hostVars
  <2>2. CASE Worktree \/ VerifyInstall \/ Binding
    BY <2>2 DEF Worktree, VerifyInstall, Binding, Goto, Return, TypeOK, helmorVars, daemonVars,
                hostVars
  <2>3. CASE Install
    BY <2>3 DEF Install, Goto, TypeOK, helmorVars, daemonVars
  <2>8. CASE InstallAgain
    BY <2>8 DEF InstallAgain, Goto, Return, TypeOK, helmorVars, daemonVars
  <2>9. CASE Clone
    BY <2>9 DEF Clone, Return, TypeOK, helmorVars, daemonVars
  <2>4. CASE LookForReply
    BY <2>4 DEF LookForReply, Goto, Return, TypeOK, helmorVars, daemonVars, hostVars
  <2>5. CASE Mark
    BY <2>5, <1>r DEF Mark, Goto, TypeOK, helmorVars, daemonVars
  <2>6. CASE CheckHosts \/ CheckRuntime \/ CheckStatus \/ CheckTree
    <3>1. tally' \in BOOLEAN
      BY <2>6, <1>b, Zenon DEF CheckHosts, CheckRuntime, CheckStatus, CheckTree, Checks
    <3> HIDE DEF Steps, Between
    <3>2. pc' \in {"runtime", "bound", "content", "report"}
      BY <2>6 DEF CheckHosts, CheckRuntime, CheckStatus, CheckTree, Checks
    <3>3. pc' \in Steps \ (Between \cup {"pid"})
      BY <3>2 DEF Steps, Between
    <3>4. /\ late' = late /\ read' = read
          /\ UNCHANGED <<run, probe, target, pidBefore, verdict, lost, slot, helmorVars,
                         daemonVars, hostVars>>
      BY <2>6 DEF CheckHosts, CheckRuntime, CheckStatus, CheckTree, Checks
    <3> QED
      BY <3>1, <3>3, <3>4, <1>f, <1>t
  <2>10. CASE CheckBinding
    <3>1. tally' \in BOOLEAN
      BY <2>10, <1>b, Zenon DEF CheckBinding, Checks
    <3>2. pc' \in {"mark", "report"}
      BY <2>10 DEF CheckBinding, Checks
    <3> QED
      BY <2>10, <3>1, <3>2, <1>f DEF CheckBinding, Checks, TypeOK
  <2>7. CASE CheckContent
    <3>1. tally' \in BOOLEAN
      BY <2>7, <1>b, Zenon DEF CheckContent, Checks
    <3> QED
      BY <2>7, <3>1, <1>f, <1>i DEF CheckContent, Checks, TypeOK
  <2> QED
    BY <1>8, <2>1, <2>2, <2>3, <2>4, <2>5, <2>6, <2>7, <2>8, <2>9, <2>10 DEF SetupRun
<1>9. CASE WalkRun
  <2> HIDE DEF TypeOK
  <2> USE DEF Steps, Between
  <2>1. CASE Clean
    <3>1. connected' \in BOOLEAN
      BY <2>1, <1>b, Zenon DEF Clean
    <3>2. fired' \subseteq Things
      BY <2>1, <1>m DEF Clean, Whats, TypeOK
    <3> QED
      BY <2>1, <3>1, <3>2, <1>g DEF Clean, Goto, TypeOK, hostVars
  <2>2. CASE StartsEmpty \/ Settled \/ PanelOpens \/ Chips \/ RowSaysConnected \/ HeaderChip
    <3>1. tally' \in BOOLEAN
      BY <2>2, <1>b, Zenon DEF StartsEmpty, Settled, PanelOpens, Chips, RowSaysConnected,
                               HeaderChip, Checks
    <3> HIDE DEF Steps, Between
    <3>2. pc' \in {"connecting", "row", "report"}
      BY <2>2 DEF StartsEmpty, Settled, PanelOpens, Chips, RowSaysConnected, HeaderChip, Checks
    <3>3. pc' \in Steps \ (Between \cup {"pid"})
      BY <3>2 DEF Steps, Between
    <3>4. /\ late' = late /\ read' = read
          /\ UNCHANGED <<run, probe, target, pidBefore, verdict, lost, slot, helmorVars,
                         daemonVars, hostVars>>
      BY <2>2 DEF StartsEmpty, Settled, PanelOpens, Chips, RowSaysConnected, HeaderChip, Checks
    <3> QED
      BY <3>1, <3>3, <3>4, <1>f, <1>t
  <2>3. CASE AskToConnect
    BY <2>3, <1>m DEF AskToConnect, Goto, Whats, TypeOK, daemonVars, hostVars
  <2>4. CASE Inspect
    <3>1. tally' \in BOOLEAN
      BY <2>4, <1>b, Zenon DEF Inspect, Checks
    <3>2. read' \subseteq Items
      BY <2>4, <1>i DEF Inspect, Listings
    <3> QED
      BY <2>4, <3>1, <3>2, <1>f, <1>t DEF Inspect, Checks
  <2>5. CASE LoadPage
    <3>1. pc' \in Steps \ (Between \cup {"pid", "over"})
      BY <2>5, Tables DEF LoadPage, Goto, Place, WalkNames, TypeOK
    <3>2. fired' \subseteq Things /\ open' \subseteq Things
      BY <2>5, <1>p DEF LoadPage
    <3>3. slot' \in [there : BOOLEAN, items : SUBSET Items, done : BOOLEAN, error : BOOLEAN]
      BY <2>5 DEF LoadPage, PageLoads, TypeOK
    <3>4. UNCHANGED <<run, probe, late, read, tally, target, pidBefore, verdict, lost, daemonVars, hostVars>>
      BY <2>5 DEF LoadPage, Goto
    <3> HIDE DEF Steps
    <3> QED
      BY <3>1, <3>2, <3>3, <3>4 DEF TypeOK, daemonVars, hostVars
  <2>6. CASE Wipe \/ PlantMarker
    <3>1. installed' \in BOOLEAN /\ marker' \in 0..Runs
      BY <2>6, <1>r DEF Wipe, PlantMarker, TypeOK
    <3> QED
      BY <2>6, <3>1 DEF Wipe, PlantMarker, Goto, TypeOK, helmorVars, daemonVars
  <2>7. CASE Changes
    <3>1. PICK tree \in SUBSET read, changes \in Listings :
            /\ Checks("changes", connected /\ tree \cup changes # {}, "report")
            /\ read' = tree \cup changes
      BY <2>7 DEF Changes
    <3>2. tally' \in BOOLEAN
      BY <3>1, <1>b, Zenon DEF Checks
    <3>3. read' \subseteq Items
      BY <3>1, <1>i, <1>t DEF Listings
    <3> QED
      BY <3>1, <3>2, <3>3, <1>f, <1>t DEF Checks
  <2>8. CASE Send
    <3>1. Mine(Asks[probe]) \in Things
      BY <2>8, <1>m, Tables DEF Send, Place, TypeOK
    <3>2. tally' \in BOOLEAN
      BY <2>8, <1>b, Zenon DEF Send
    <3> QED
      BY <2>8, <3>1, <3>2 DEF Send, TypeOK, daemonVars, hostVars
  <2>9. CASE RowVisible \/ RowShowsActivity
    <3>1. tally' \in BOOLEAN
      BY <2>9, <1>b, Zenon DEF RowVisible, RowShowsActivity, WaitForRow
    <3> QED
      BY <2>9, <3>1, <1>f, <1>t DEF RowVisible, RowShowsActivity, WaitForRow
  <2>10. CASE RowPresent \/ BackendConnected \/ DebugPanel \/ Buttons \/ DaemonLog \/ AuthDialog
                \/ Wizard
    <3>1. tally' \in BOOLEAN
      BY <2>10, <1>b, Zenon DEF RowPresent, BackendConnected, DebugPanel, Buttons, DaemonLog,
                                AuthDialog, Wizard, Checks
    <3> HIDE DEF Steps, Between
    <3>2. pc' \in {"header", "load", "copy", "auth", "wizard", "report"}
      BY <2>10 DEF RowPresent, BackendConnected, DebugPanel, Buttons,
                          DaemonLog, AuthDialog, Wizard, Checks
    <3>3. pc' \in Steps \ (Between \cup {"pid"})
      BY <3>2 DEF Steps, Between
    <3>4. /\ late' = late /\ read' = read
          /\ UNCHANGED <<run, probe, target, pidBefore, verdict, lost, slot, helmorVars,
                         daemonVars, hostVars>>
      BY <2>10 DEF RowPresent, BackendConnected, DebugPanel, Buttons,
                          DaemonLog, AuthDialog, Wizard, Checks
    <3> QED
      BY <3>1, <3>3, <3>4, <1>f, <1>t
  <2>12. CASE CopyDiagnostics
    BY <2>12, <1>m DEF CopyDiagnostics, Goto, Whats, TypeOK, daemonVars, hostVars
  <2>13. CASE ToastShown
    <3>1. {x[2] : x \in All("toast")} \subseteq Items
      BY DEF All, Things, Items, TypeOK
    <3>2. tally' \in BOOLEAN
      BY <2>13, <1>b, Zenon DEF ToastShown, Checks
    <3> QED
      BY <2>13, <3>1, <3>2, <1>f DEF ToastShown, Checks, TypeOK
  <2> QED
    BY <1>9, <2>1, <2>2, <2>3, <2>4, <2>5, <2>6, <2>7, <2>8, <2>9, <2>10, <2>12, <2>13
       DEF WalkRun, PanelRun
<1>10. CASE World
  <2>1. UNCHANGED <<run, probe, pc, late, read, tally, target, pidBefore, verdict, lost>>
    BY <1>10 DEF World, Opens, Refused, Streams, StreamEnds, Closes, SessionEnds, Replies,
                 Screen,
                 Change, Reload, DaemonDies, DaemonStarts, ForeignSession, Toast, BundleGoes, runVars
  <2>2. /\ fired' \subseteq Things /\ open' \subseteq Things
    <3>1. ASSUME NEW x \in fired, Opens(x) PROVE fired' \subseteq Things /\ open' \subseteq Things
      <4>1. Follows(x) \subseteq Things
        BY DEF Follows, Things, TypeOK, Whats
      <4> QED
        BY <3>1, <4>1 DEF Opens, TypeOK
    <3>2. ASSUME NEW x \in fired, Refused(x) PROVE fired' \subseteq Things /\ open' \subseteq Things
      BY <3>2 DEF Refused, TypeOK
    <3>3. ASSUME NEW by \in 1..Runs, Streams(by) \/ StreamEnds(by)
          PROVE  fired' \subseteq Things /\ open' \subseteq Things
      BY <3>3 DEF Streams, StreamEnds, TypeOK, helmorVars
    <3>4. ASSUME NEW x \in open, Closes(x) PROVE fired' \subseteq Things /\ open' \subseteq Things
      BY <3>4 DEF Closes, TypeOK
    <3>5. ASSUME NEW s \in sessions, SessionEnds(s)
          PROVE  fired' \subseteq Things /\ open' \subseteq Things
      BY <3>5 DEF SessionEnds, TypeOK, helmorVars
    <3>6. CASE Replies \/ Screen \/ Change \/ DaemonDies \/ DaemonStarts \/ ForeignSession \/ BundleGoes
      BY <3>6 DEF Replies, Screen, Change, DaemonDies, DaemonStarts, ForeignSession, BundleGoes,
                  TypeOK, helmorVars
    <3>7. CASE Reload
      BY <3>7, <1>p DEF Reload
    <3>8. CASE Toast
      BY <3>8 DEF Toast, TypeOK, Things, Whats
    <3> QED
      BY <1>10, <3>1, <3>2, <3>3, <3>4, <3>5, <3>6, <3>7, <3>8 DEF World
  <2>3. slot' \in [there : BOOLEAN, items : SUBSET Items, done : BOOLEAN, error : BOOLEAN]
    <3> DEFINE Slots == [there : BOOLEAN, items : SUBSET Items, done : BOOLEAN, error : BOOLEAN]
    <3>s. slot \in Slots
      BY DEF TypeOK
    <3>1. ASSUME NEW x \in fired, Opens(x) \/ Refused(x) PROVE slot' \in Slots
      BY <3>1, <3>s DEF Opens, Refused, Tell
    <3>2. ASSUME NEW by \in 1..Runs, Streams(by) \/ StreamEnds(by) PROVE slot' \in Slots
      <4>1. {by} \subseteq Items
        BY DEF Items
      <4>2. CASE Streams(by)
        BY <4>1, <4>2, <3>s DEF Streams, Tell
      <4>3. CASE StreamEnds(by)
        BY <4>3, <3>s DEF StreamEnds, Tell
      <4> QED
        BY <3>2, <4>2, <4>3
    <3>3. ASSUME NEW x \in open, Closes(x) PROVE slot' \in Slots
      BY <3>3, <3>s DEF Closes
    <3>4. ASSUME NEW s \in sessions, SessionEnds(s) PROVE slot' \in Slots
      BY <3>4, <3>s DEF SessionEnds
    <3>5. CASE Replies \/ Change
      BY <3>5, <3>s, <1>r DEF Replies, Change
    <3>6. CASE Screen
      <4>1. Echo \in Items /\ Output \in Items
        BY DEF Echo, Output, Items
      <4> QED
        BY <3>6, <3>s, <4>1 DEF Screen
    <3>7. CASE Reload
      BY <3>7, <3>s DEF Reload, PageLoads
    <3>8. CASE DaemonDies \/ DaemonStarts \/ ForeignSession \/ Toast \/ BundleGoes
      BY <3>8, <3>s DEF DaemonDies, DaemonStarts, ForeignSession, Toast, BundleGoes
    <3> QED
      BY <1>10, <3>1, <3>2, <3>3, <3>4, <3>5, <3>6, <3>7, <3>8 DEF World
  <2>4. /\ pid' \in Pids \cup {0} /\ epoch' \in 1..MaxEpochs /\ connected' \in BOOLEAN
        /\ sessions' \subseteq Sessions
    <3>u. UNCHANGED daemonVars =>
            /\ pid' \in Pids \cup {0} /\ epoch' \in 1..MaxEpochs /\ connected' \in BOOLEAN
            /\ sessions' \subseteq Sessions
      BY DEF TypeOK, daemonVars
    <3>1. ASSUME NEW x \in fired, Opens(x)
          PROVE  /\ pid' \in Pids \cup {0} /\ epoch' \in 1..MaxEpochs /\ connected' \in BOOLEAN
                 /\ sessions' \subseteq Sessions
      <4>1. [by |-> x[2], epoch |-> epoch] \in Sessions
        BY DEF TypeOK, Things, Sessions
      <4>2. connected' \in BOOLEAN
        BY <3>1 DEF Opens, TypeOK
      <4> QED
        BY <3>1, <4>1, <4>2 DEF Opens, TypeOK
    <3>2. ASSUME NEW x \in fired, Refused(x) PROVE UNCHANGED daemonVars
      BY <3>2 DEF Refused
    <3>3. ASSUME NEW by \in 1..Runs, Streams(by) \/ StreamEnds(by) PROVE UNCHANGED daemonVars
      BY <3>3 DEF Streams, StreamEnds
    <3>4. ASSUME NEW x \in open, Closes(x) PROVE UNCHANGED daemonVars
      BY <3>4 DEF Closes
    <3>5. ASSUME NEW s \in sessions, SessionEnds(s)
          PROVE  /\ pid' \in Pids \cup {0} /\ epoch' \in 1..MaxEpochs /\ connected' \in BOOLEAN
                 /\ sessions' \subseteq Sessions
      BY <3>5 DEF SessionEnds, TypeOK
    <3>6. CASE Replies \/ Screen \/ Change \/ Reload \/ Toast \/ BundleGoes
      BY <3>6, <3>u DEF Replies, Screen, Change, Reload, Toast, BundleGoes
    <3>7. CASE DaemonDies \/ DaemonStarts
      BY <3>7 DEF DaemonDies, DaemonStarts, TypeOK
    <3>8. CASE ForeignSession
      BY <3>8 DEF ForeignSession, TypeOK, Sessions
    <3> QED
      BY <1>10, <3>u, <3>1, <3>2, <3>3, <3>4, <3>5, <3>6, <3>7, <3>8 DEF World
  <2>5. installed' \in BOOLEAN /\ bound' \in BOOLEAN /\ marker' \in 0..Runs
    <3>u. UNCHANGED hostVars => installed' \in BOOLEAN /\ bound' \in BOOLEAN /\ marker' \in 0..Runs
      BY DEF TypeOK, hostVars
    <3>1. ASSUME NEW x \in fired, Opens(x)
          PROVE  installed' \in BOOLEAN /\ bound' \in BOOLEAN /\ marker' \in 0..Runs
      BY <3>1 DEF Opens, TypeOK
    <3>2. ASSUME NEW x \in fired, Refused(x) PROVE UNCHANGED hostVars
      BY <3>2 DEF Refused
    <3>3. ASSUME NEW by \in 1..Runs, Streams(by) \/ StreamEnds(by) PROVE UNCHANGED hostVars
      BY <3>3 DEF Streams, StreamEnds
    <3>4. ASSUME NEW x \in open, Closes(x) PROVE UNCHANGED hostVars
      BY <3>4 DEF Closes
    <3>5. ASSUME NEW s \in sessions, SessionEnds(s) PROVE UNCHANGED hostVars
      BY <3>5 DEF SessionEnds
    <3>6. CASE \/ Replies \/ Screen \/ Change \/ Reload \/ Toast
               \/ DaemonDies \/ DaemonStarts \/ ForeignSession
      BY <3>6, <3>u DEF Replies, Screen, Change, Reload, Toast, DaemonDies, DaemonStarts,
                        ForeignSession
    <3>7. CASE BundleGoes
      BY <3>7 DEF BundleGoes, TypeOK
    <3> QED
      BY <1>10, <3>u, <3>1, <3>2, <3>3, <3>4, <3>5, <3>6, <3>7 DEF World
  <2> QED
    BY <2>1, <2>2, <2>3, <2>4, <2>5 DEF TypeOK
<1>11. CASE UNCHANGED vars
  BY <1>11 DEF TypeOK, vars, runVars, helmorVars, daemonVars, hostVars
<1> QED
  BY <1>1, <1>2, <1>3, <1>4, <1>5, <1>6, <1>7, <1>8, <1>9, <1>10, <1>11 DEF Next, Run, LiveRun,
     Over

LEMMA NextPlace ==
  ASSUME TypeOK, Place, [Next]_vars
  PROVE  Place'
<1>p. probe \in ProbeNames
  BY DEF TypeOK
<1>q. ASSUME UNCHANGED <<probe, pc, verdict>> PROVE Place'
  BY <1>q DEF Place
<1> USE DEF Place, WalkNames
<1>1. CASE Prepare \/ Fire \/ Error \/ Wake \/ Report
  <2>1. CASE Prepare
    <3>1. pc' = Begin[probe] /\ UNCHANGED <<probe, verdict>> /\ verdict = "none"
      BY <2>1 DEF Prepare, Goto
    <3> QED
      BY <1>p, <3>1 DEF Begin, ProbeNames, LiveProbeNames, SetupNames
  <2>2. CASE Fire
    BY <2>2 DEF Fire, Goto, Then
  <2>3. CASE Error
    BY <2>3 DEF Error, Return, Fallible
  <2>4. CASE Wake
    BY <2>4 DEF Wake, Goto
  <2>5. CASE Report
    BY <2>5 DEF Report, Return, Verdict
  <2> QED
    BY <1>1, <2>1, <2>2, <2>3, <2>4, <2>5
<1>2. CASE Write \/ StopPrior \/ Start \/ Plant \/ Close \/ Stop \/ Unsubscribe
  BY <1>2 DEF Write, StopPrior, Start, Plant, Close, Stop, Unsubscribe,
              Tidy, TidyAndReturn, Goto, Return, Verdict
<1>3. CASE Look \/ LookAtAgent
  BY <1>3 DEF Look, LookAtAgent, LeavesTo, Goto, Return, Verdict
<1>4. CASE Serve \/ Check \/ StartForward \/ Curl \/ List \/ StopForward \/ Kill
  BY <1>4 DEF Serve, Check, StartForward, Curl, List, StopForward, Kill,
              Tidy, TidyAndReturn, Goto, Return, Verdict
<1>5. CASE WaitForSession \/ PidBefore \/ Disconnect \/ Connect \/ PidAfter \/ SessionsAfter
  BY <1>5 DEF WaitForSession, PidBefore, Disconnect, Connect, PidAfter, SessionsAfter,
              Goto, Return, Verdict
<1>6. CASE NextRun
  BY <1>6 DEF NextRun
<1>7. CASE Tick
  BY <1>7 DEF Tick
<1>8. CASE World
  BY <1>8, <1>q DEF World, Opens, Refused, Streams, StreamEnds, Closes, SessionEnds,
                    Replies, Screen, Change, Reload, DaemonDies, DaemonStarts,
                    ForeignSession, Toast, BundleGoes, runVars
<1>9. CASE UNCHANGED vars
  BY <1>9, <1>q DEF vars, runVars
<1>10. CASE SetupRun
  <2>1. CASE Join \/ Worktree \/ Clone \/ Install \/ VerifyInstall \/ InstallAgain \/ Leave \/ Binding
    BY <2>1 DEF Join, Worktree, Clone, Install, VerifyInstall, InstallAgain, Leave, Binding,
                Goto, Return
  <2>2. CASE LookForReply
    BY <2>2 DEF LookForReply, Goto, Return
  <2>3. CASE CheckHosts \/ CheckRuntime \/ CheckBinding \/ Mark \/ CheckStatus \/ CheckContent
               \/ CheckTree
    BY <2>3 DEF CheckHosts, CheckRuntime, CheckBinding, Mark, CheckStatus, CheckContent,
                CheckTree,
                Checks, Goto
  <2> QED
    BY <1>10, <2>1, <2>2, <2>3 DEF SetupRun
<1>11. CASE WalkRun
  <2>1. CASE Clean \/ StartsEmpty \/ AskToConnect \/ Settled \/ RowSaysConnected
    BY <2>1 DEF Clean, StartsEmpty, AskToConnect, Settled, RowSaysConnected, Checks, Goto
  <2>2. CASE LoadPage
    BY <2>2 DEF LoadPage, Goto, Walk
  <2>3. CASE Wipe \/ PanelOpens \/ Chips \/ Inspect \/ PlantMarker \/ Changes
    BY <2>3 DEF Wipe, PanelOpens, Chips, Inspect, PlantMarker, Changes, Checks, Goto
  <2>4. CASE Send \/ RowVisible \/ RowShowsActivity
    BY <2>4 DEF Send, RowVisible, RowShowsActivity, WaitForRow
  <2>5. CASE PanelRun
    BY <2>5 DEF PanelRun, RowPresent, HeaderChip, BackendConnected, DebugPanel, Buttons,
              CopyDiagnostics, ToastShown, DaemonLog, AuthDialog, Wizard, Checks, Goto
  <2> QED
    BY <1>11, <2>1, <2>2, <2>3, <2>4, <2>5 DEF WalkRun
<1> QED
  BY <1>1, <1>2, <1>3, <1>4, <1>5, <1>6, <1>7, <1>8, <1>9, <1>10, <1>11 DEF Next, Run, LiveRun,
     Over

-----------------------------------------------------------------------------
(* What is there, and what is on its way.                                  *)

LEMMA NextAsked ==
  ASSUME TypeOK, Place, Asked, [Next]_vars
  PROVE  Asked'
<1> DEFINE Blank == {"prepare", "fire", "serve"}
<1>t. /\ run \in Nat /\ run >= 1
      /\ \A x \in open \cup fired : x = <<x[1], x[2]>> /\ x[2] \in Nat
  BY ProbesAssumption DEF TypeOK, Things
<1> DEFINE Loose == {x \in Things : x[1] \notin Held /\ x[2] <= run}
<1>m. ASSUME NEW w \in Whats, w \notin Held PROVE Mine(w) \in Loose /\ <<w, 0>> \in Loose
  <2>1. run \in 0..Runs /\ 0 \in 0..Runs
    BY ProbesAssumption DEF TypeOK
  <2>2. <<w, run>> \in Things /\ <<w, 0>> \in Things
    BY <2>1 DEF Things
  <2> QED
    BY <1>m, <1>t, <2>2 DEF Mine
<1>n. /\ Mine("connection") \in Loose /\ Mine("toast") \in Loose /\ Mine("session") \in Loose
      /\ Mine("disconnection") \in Loose /\ Mine("stream") \in Loose /\ Mine("reply") \in Loose
      /\ <<"connection", 0>> \in Loose /\ <<"toast", 0>> \in Loose
  <2> HIDE DEF Loose
  <2>1. {"connection", "toast", "session", "disconnection", "stream", "reply"} \subseteq Whats \ Held
    BY DEF Whats, Held
  <2> QED
    BY <1>m, <2>1
<1>q. ASSUME open' \subseteq open \cup Loose, fired' \subseteq fired \cup Loose,
             UNCHANGED <<run, probe>>,
             pc' \in Blank => pc \in Blank \/ probe = "bundle"
      PROVE  Asked'
  <2>1. Own' \subseteq Own
    BY <1>q DEF Own
  <2>2. \A x, y \in All("server")' : x = y
    BY <1>q DEF Asked, All, Held
  <2>3. \A x \in fired' : x[1] \notin {"watch", "forward"}
    BY <1>q DEF Asked, Held
  <2>4. \A x \in fired' : x[2] = run' /\ x[1] \in Held => x \notin open'
    BY <1>q DEF Asked
  <2>5. \A x \in open' \cup fired' : x[2] <= run'
    BY <1>q DEF Asked
  <2>6. pc' \in Blank => Own' = {}
    BY <1>q, <2>1 DEF Asked
  <2> QED
    BY <1>q, <2>1, <2>2, <2>3, <2>4, <2>5, <2>6 DEF Asked
(* Something of the run's own, of a kind that is held, is asked for.       *)
<1>a. ASSUME NEW w \in {"terminal", "subscription", "server"}, Own = {},
             w = (CASE probe = "terminal" -> "terminal" [] probe = "watch" -> "subscription"
                    [] OTHER -> "server"),
             probe \in {"terminal", "watch", "forward"},
             open' = open, fired' \subseteq fired \cup {Mine(w)},
             UNCHANGED <<run, probe>>, pc' \notin Blank
      PROVE  Asked'
  <2>1. Own' \subseteq {w}
    BY <1>a DEF Own, Mine
  <2>2. Mine(w) \notin open
    BY <1>a DEF Own, Mine, Held
  <2>3. \A x \in fired' : x[1] \notin {"watch", "forward"}
    BY <1>a DEF Asked, Mine
  <2>4. \A x \in fired' : x[2] = run' /\ x[1] \in Held => x \notin open'
    BY <1>a, <2>2 DEF Asked
  <2>5. \A x \in open' \cup fired' : x[2] <= run'
    BY <1>a, <1>t DEF Asked, Mine
  <2>6. \A x, y \in All("server")' : x = y
    BY <1>a DEF Asked, All
  <2> QED
    BY <1>a, <2>1, <2>3, <2>4, <2>5, <2>6 DEF Asked
(* A watch is started, or a forward.                                       *)
<1>b. ASSUME NEW w \in {"watch", "forward"}, probe = w,
             open' \subseteq open \cup {Mine(w)}, fired' = fired,
             UNCHANGED <<run, probe>>, pc' \notin Blank
      PROVE  Asked'
  <2>1. Own' \subseteq Own \cup {w}
    BY <1>b DEF Own, Mine
  <2>4. \A x \in fired' : x[2] = run' /\ x[1] \in Held => x \notin open'
    BY <1>b DEF Asked, Mine
  <2>5. \A x \in open' \cup fired' : x[2] <= run'
    BY <1>b, <1>t DEF Asked, Mine
  <2>6. \A x, y \in All("server")' : x = y
    BY <1>b DEF Asked, All, Mine
  <2> QED
    BY <1>b, <2>1, <2>4, <2>5, <2>6 DEF Asked
<1>u. ASSUME UNCHANGED <<run, probe, helmorVars>>, pc' \in Blank => pc \in Blank \/ probe = "bundle"
      PROVE  Asked'
  <2> HIDE DEF Loose, Blank
  <2> QED
    BY <1>u, <1>q DEF helmorVars
<1>l. PageLoads => open' \subseteq open /\ fired' \subseteq fired \cup Loose
  BY <1>n DEF PageLoads
<1> HIDE DEF Loose
<1>1. CASE Prepare \/ Wake \/ Report \/ Tick
  BY <1>1, <1>u DEF Prepare, Wake, Report, Tick, Goto, Return
<1>2. CASE Fire
  <2>1. Own = {} /\ pc = "fire"
    BY <1>2 DEF Fire, Asked
  <2>2. /\ fired' = fired \cup {Mine(Asks[probe])} /\ pc' \notin Blank
        /\ UNCHANGED <<run, probe, open>>
    BY <1>2, <2>1 DEF Fire, Goto, Then, Place
  <2>3. CASE probe = "terminal"
    BY <2>1, <2>2, <2>3, <1>a DEF Asks
  <2>4. CASE probe = "watch"
    BY <2>1, <2>2, <2>4, <1>a DEF Asks
  <2>5. CASE probe \in {"agent", "daemon", "bundle"}
    <3>1. Mine(Asks[probe]) \in Loose
      BY <2>5, <1>n DEF Asks
    <3> QED
      BY <2>2, <3>1, <1>q
  <2> QED
    BY <2>1, <2>3, <2>4, <2>5 DEF Place
<1>3. CASE Error
  <2>1. pc' = "over" /\ UNCHANGED <<run, probe>>
    BY <1>3 DEF Error, Return
  <2>2. CASE pc = "fire"
    <3>1. open' = open /\ fired' \subseteq fired \cup {Mine(Asks[probe])} /\ Own = {}
      BY <1>3, <2>2 DEF Error, Maybe, Asked
    <3>2. CASE probe = "terminal"
      BY <2>1, <3>1, <3>2, <1>a DEF Asks
    <3>3. CASE probe = "watch"
      BY <2>1, <3>1, <3>3, <1>a DEF Asks
    <3>4. CASE probe \in {"agent", "daemon", "bundle"}
      <4>1. Mine(Asks[probe]) \in Loose
        BY <3>4, <1>n DEF Asks
      <4> QED
        BY <2>1, <3>1, <4>1, <1>q
    <3> QED
      BY <2>2, <3>2, <3>3, <3>4 DEF Place
  <2>3. CASE pc = "start"
    <3>1. open' \subseteq open \cup {Mine("watch")} /\ fired' = fired /\ probe = "watch"
      BY <1>3, <2>3 DEF Error, Maybe, Place
    <3> QED
      BY <2>1, <3>1, <1>b
  <2>4. CASE pc \notin {"fire", "start"}
    <3>1. /\ open' = open
          /\ fired' \subseteq fired \cup Loose
      BY <1>3, <2>4, <1>n DEF Error, Maybe, Place, Asks
    <3> QED
      BY <2>1, <3>1, <1>q
  <2> QED
    BY <2>2, <2>3, <2>4
<1>4. CASE Write \/ Plant \/ Look
  BY <1>4, <1>u DEF Write, Plant, Look, LeavesTo, Goto
<1>5. CASE StopPrior \/ Stop \/ StopForward
  <2>1. open' \subseteq open /\ fired' = fired /\ UNCHANGED <<run, probe>> /\ pc' \notin Blank
    BY <1>5 DEF StopPrior, Stop, StopForward, Tidy, CleanUp
  <2> QED
    BY <2>1, <1>q
<1>6. CASE Close \/ Unsubscribe \/ Kill
  <2>1. open' \subseteq open /\ fired' = fired /\ UNCHANGED <<run, probe>> /\ pc' \notin Blank
    BY <1>6 DEF Close, Unsubscribe, Kill, TidyAndReturn, CleanUp
  <2> QED
    BY <2>1, <1>q
<1>7. CASE Start \/ StartForward
  BY <1>7, <1>b DEF Start, StartForward, Goto, Return, Place
<1>8. CASE LookAtAgent \/ Check \/ Curl \/ List
  BY <1>8, <1>u DEF LookAtAgent, Check, Curl, List, Goto, Return
<1>9. CASE Serve
  <2>1. Own = {} /\ probe = "forward"
    BY <1>9 DEF Serve, Asked, Place
  <2>2. /\ fired' = fired \cup {Mine("server")} /\ pc' \notin Blank /\ UNCHANGED <<run, probe, open>>
    BY <1>9 DEF Serve, Goto
  <2> QED
    BY <2>1, <2>2, <1>a
<1>10. CASE WaitForSession \/ PidBefore \/ Disconnect \/ Connect \/ PidAfter \/ SessionsAfter
  BY <1>10, <1>u DEF WaitForSession, PidBefore, Disconnect, Connect, PidAfter, SessionsAfter,
                     Goto, Return
<1>11. CASE SetupRun
  <2>1. CASE Join \/ Worktree \/ Clone \/ Install \/ VerifyInstall \/ InstallAgain \/ Leave \/ Binding
    BY <2>1, <1>u DEF Join, Worktree, Clone, Install, VerifyInstall, InstallAgain, Leave,
                      Binding,
                      Goto, Return, Place
  <2>2. CASE LookForReply
    BY <2>2, <1>u DEF LookForReply, Goto, Return
  <2>3. CASE CheckHosts \/ CheckRuntime \/ CheckBinding \/ Mark \/ CheckStatus \/ CheckContent
               \/ CheckTree
    BY <2>3, <1>u DEF CheckHosts, CheckRuntime, CheckBinding, Mark, CheckStatus, CheckContent,
                      CheckTree, Checks, Goto
  <2> QED
    BY <1>11, <2>1, <2>2, <2>3 DEF SetupRun
<1>12. CASE WalkRun
  <2>1. CASE Clean \/ AskToConnect \/ Send \/ CopyDiagnostics
    <3>1. /\ open' = open /\ UNCHANGED <<run, probe>> /\ pc' \notin Blank
          /\ fired' \subseteq fired \cup Loose
      <4>1. CASE Clean
        BY <4>1, <1>n DEF Clean, Goto
      <4>2. CASE AskToConnect
        BY <4>2, <1>n DEF AskToConnect, Goto
      <4>3. CASE Send
        BY <4>3, <1>n DEF Send, Place, Asks
      <4>4. CASE CopyDiagnostics
        BY <4>4, <1>n DEF CopyDiagnostics, Goto
      <4> QED
        BY <2>1, <4>1, <4>2, <4>3, <4>4
    <3> QED
      BY <3>1, <1>q
  <2>2. CASE StartsEmpty \/ Settled \/ RowSaysConnected \/ PanelOpens \/ Chips \/ Inspect \/ Changes
    BY <2>2, <1>u DEF StartsEmpty, Settled, RowSaysConnected, PanelOpens, Chips, Inspect,
                      Changes,
                      Checks
  <2>3. CASE Wipe \/ PlantMarker \/ RowVisible \/ RowShowsActivity
    BY <2>3, <1>u DEF Wipe, PlantMarker, RowVisible, RowShowsActivity, WaitForRow, Goto
  <2>4. CASE LoadPage
    <3>1. PageLoads /\ UNCHANGED <<run, probe>> /\ pc' \notin Blank
      BY <2>4 DEF LoadPage, Goto, Place, Walk, WalkNames
    <3> QED
      BY <3>1, <1>l, <1>q
  <2>5. CASE \/ RowPresent \/ HeaderChip \/ BackendConnected \/ DebugPanel \/ Buttons \/ ToastShown
             \/ DaemonLog \/ AuthDialog \/ Wizard
    BY <2>5, <1>u DEF RowPresent, HeaderChip, BackendConnected, DebugPanel, Buttons, ToastShown,
                      DaemonLog, AuthDialog, Wizard, Checks
  <2> QED
    BY <1>12, <2>1, <2>2, <2>3, <2>4, <2>5 DEF WalkRun, PanelRun
<1>13. CASE NextRun
  <2>1. open' \subseteq open /\ fired' \subseteq fired /\ run' = run + 1
    BY <1>13 DEF NextRun, NoToasts, helmorVars
  <2>2. Own' = {}
    BY <2>1, <1>t DEF Own, Asked
  <2>3. \A x \in open' \cup fired' : x[2] <= run'
    BY <2>1, <1>t DEF Asked
  <2>4. \A x \in fired' : x[1] \notin {"watch", "forward"}
    BY <2>1 DEF Asked
  <2>5. \A x \in fired' : ~(x[2] = run')
    BY <2>1, <1>t DEF Asked
  <2>6. \A x, y \in All("server")' : x = y
    BY <2>1 DEF Asked, All
  <2> QED
    BY <2>2, <2>3, <2>4, <2>5, <2>6 DEF Asked
<1>14. CASE World
  <2>1. UNCHANGED <<run, probe, pc>>
    BY <1>14 DEF World, Opens, Refused, Streams, StreamEnds, Closes, SessionEnds, Replies,
                 Screen,
                 Change, Reload, DaemonDies, DaemonStarts, ForeignSession, Toast, BundleGoes, runVars
  <2>2. ASSUME NEW x \in fired, Opens(x) PROVE Asked'
    <3>1. /\ open' \subseteq open \cup {x}
          /\ fired' \subseteq (fired \ {x}) \cup {<<"install", x[2]>>}
          /\ x[1] = "server" => All("server") = {}
          /\ x[2] <= run
      BY <2>2 DEF Opens, Possible, Follows, Asked
    <3>2. Own' \subseteq Own
      BY <2>1, <3>1 DEF Own, Held
    <3>3. \A y \in fired' : y[1] \notin {"watch", "forward"}
      BY <3>1 DEF Asked
    <3>4. \A y \in fired' : y[2] = run' /\ y[1] \in Held => y \notin open'
      BY <2>1, <3>1 DEF Asked, Held
    <3>5. \A y \in open' \cup fired' : y[2] <= run'
      BY <2>1, <3>1 DEF Asked
    <3>6. \A y, z \in All("server")' : y = z
      BY <3>1 DEF Asked, All
    <3> QED
      BY <2>1, <3>2, <3>3, <3>4, <3>5, <3>6 DEF Asked
  <2>3. ASSUME NEW x \in fired, Refused(x) PROVE Asked'
    BY <2>1, <2>3, <1>q DEF Refused
  <2>4. ASSUME NEW by \in 1..Runs, Streams(by) \/ StreamEnds(by) PROVE Asked'
    BY <2>1, <2>4, <1>q DEF Streams, StreamEnds, helmorVars
  <2>5. ASSUME NEW x \in open, Closes(x) PROVE Asked'
    BY <2>1, <2>5, <1>q DEF Closes
  <2>6. ASSUME NEW s \in sessions, SessionEnds(s) PROVE Asked'
    BY <2>1, <2>6, <1>u DEF SessionEnds
  <2>7. CASE Replies \/ Screen \/ Change \/ DaemonDies \/ DaemonStarts \/ ForeignSession \/ BundleGoes
    BY <2>1, <2>7, <1>u DEF Replies, Screen, Change, DaemonDies, DaemonStarts, ForeignSession,
                            BundleGoes
  <2>8. CASE Reload
    BY <2>1, <2>8, <1>l, <1>q DEF Reload
  <2>9. CASE Toast
    BY <2>1, <2>9, <1>n, <1>q DEF Toast
  <2> QED
    BY <1>14, <2>2, <2>3, <2>4, <2>5, <2>6, <2>7, <2>8, <2>9 DEF World
<1>15. CASE UNCHANGED vars
  BY <1>15, <1>u DEF vars, runVars
<1> QED
  BY <1>1, <1>2, <1>3, <1>4, <1>5, <1>6, <1>7, <1>8, <1>9, <1>10, <1>11, <1>12, <1>13, <1>14,
     <1>15
     DEF Next, Run, LiveRun, Over

LEMMA NextOpened ==
  ASSUME TypeOK, Place, Asked, Opened, [Next]_vars
  PROVE  Opened'
<1> DEFINE Clues == {"terminal", "subscription", "server"}
<1> DEFINE Sources == {"watch", "forward"}
<1>o. \A w \in Clues : Mine(w) \in open => Mine(w) \notin fired
  BY DEF Asked, Mine, Held
(* Nothing new, and the run is where it was, or gone.                      *)
<1>q. ASSUME \A w \in Clues : Mine(w) \in fired' => Mine(w) \in fired,
             \A x \in open' : x[1] \in Sources => x \in open,
             UNCHANGED <<run, probe, read, lost>>, slot'.items = slot.items,
             pc' = pc \/ (pc = "poll" /\ pc' = "sleep") \/ (pc = "sleep" /\ pc' = "poll")
               \/ pc' \notin {"prepare", "fire", "poll", "sleep", "close", "start_forward", "curl",
                              "list", "stop_forward", "kill", "unsubscribe"} \cup Listening
      PROVE  Opened'
  BY <1>q DEF Opened, Mine, Listening, All
<1>u. ASSUME UNCHANGED <<run, probe, read, lost, slot, helmorVars>>,
             pc' = pc \/ (pc = "poll" /\ pc' = "sleep") \/ (pc = "sleep" /\ pc' = "poll")
               \/ pc' \notin {"prepare", "fire", "poll", "sleep", "close", "start_forward", "curl",
                              "list", "stop_forward", "kill", "unsubscribe"} \cup Listening
      PROVE  Opened'
  BY <1>u, <1>q DEF helmorVars
<1>1. CASE Prepare \/ Wake \/ Report \/ Tick
  <2>1. CASE Prepare
    <3>1. pc = "prepare" /\ UNCHANGED <<run, probe, read, lost, slot, helmorVars>> /\ pc' = Begin[probe]
      BY <2>1 DEF Prepare, Goto
    <3>2. CASE probe = "watch"
      BY <3>1, <3>2 DEF Opened, Begin, Listening, Mine, helmorVars
    <3>3. CASE probe # "watch"
      <4>1. Begin[probe] \notin {"poll", "sleep", "close", "start_forward", "curl", "list",
                                 "stop_forward", "kill", "unsubscribe"}
        BY DEF TypeOK, Begin, ProbeNames, LiveProbeNames, SetupNames, WalkNames
      <4> QED
        BY <3>1, <3>3, <4>1 DEF Opened
    <3> QED
      BY <3>2, <3>3
  <2>2. CASE Wake
    BY <2>2 DEF Wake, Goto, Opened, Mine, helmorVars, Listening, Place
  <2>3. CASE Report \/ Tick
    BY <2>3, <1>u DEF Report, Tick, Return, Listening
  <2> QED
    BY <1>1, <2>1, <2>2, <2>3
<1>2. CASE Fire
  <2>1. /\ pc = "fire" /\ pc' = Then[probe] /\ slot'.items = {}
        /\ UNCHANGED <<run, probe, read>>
    BY <1>2 DEF Fire, Goto, Fresh
  <2>2. pc' \notin {"close", "start_forward", "curl", "list", "stop_forward", "kill", "unsubscribe"}
        /\ (probe = "terminal" => pc' = "write")
    BY <2>1 DEF Then, Place
  <2> QED
    BY <2>1, <2>2 DEF Opened
<1>3. CASE Error
  <2>1. pc' = "over" /\ UNCHANGED <<run, probe, read>>
    BY <1>3 DEF Error, Return
  <2>2. probe = "watch" /\ read # {} => Mine("subscription") \notin fired'
    <3>1. CASE pc = "fire"
      BY <3>1 DEF Opened
    <3>2. CASE pc # "fire"
      <4>1. probe = "watch" => fired' \subseteq fired \cup {Mine("connection"), Mine("toast")}
        BY <1>3, <3>2 DEF Error, Maybe, Place
      <4> QED
        BY <4>1 DEF Opened, Mine
    <3> QED
      BY <3>1, <3>2
  <2> QED
    BY <2>1, <2>2 DEF Opened, Listening, Mine
<1>4. CASE Write
  BY <1>4, <1>o DEF Write, Goto, Opened, Mine, helmorVars, Listening, Place
<1>5. CASE Plant
  BY <1>5 DEF Plant, Goto, Opened, Mine, helmorVars, Listening, Place
<1>6. CASE Look
  <2>1. /\ UNCHANGED <<run, probe, slot, open, fired, lost>> /\ pc = "poll"
        /\ read' \in {read, slot.items}
        /\ probe = "terminal" => pc' \in {"sleep", "close"}
        /\ probe = "watch" => pc' \in {"sleep", "stop"}
        /\ probe \in {"terminal", "watch"}
    BY <1>6 DEF Look, Goto, LeavesTo, helmorVars
  <2> QED
    BY <2>1 DEF Opened, Mine, Listening
<1>7. CASE StopPrior
  <2>1. /\ open' \subseteq open /\ fired' = fired /\ UNCHANGED <<run, probe, read, slot>>
        /\ pc = "stop_prior" /\ pc' = "start"
    BY <1>7 DEF StopPrior, Tidy, CleanUp
  <2> QED
    BY <2>1 DEF Opened, Mine, Listening, Place
<1>8. CASE Stop
  <2>1. /\ ~lost' => open' = open \ All("watch")
        /\ fired' = fired /\ UNCHANGED <<run, probe, read, slot>> /\ pc = "stop" /\ pc' = "unsubscribe"
    BY <1>8, CleanUpTakes DEF Stop, Tidy, TypeOK
  <2> QED
    BY <2>1 DEF Opened, Mine, Listening, Place, All
<1>9. CASE StopForward
  <2>1. /\ ~lost' => open' = open \ All("forward")
        /\ fired' = fired /\ UNCHANGED <<run, probe, read, slot>> /\ pc = "stop_forward" /\ pc' = "kill"
    BY <1>9, CleanUpTakes DEF StopForward, Tidy, TypeOK
  <2> QED
    BY <2>1 DEF Opened, Mine, Listening, Place, All
<1>10. CASE Close \/ Unsubscribe \/ Kill
  <2>1. fired' = fired /\ UNCHANGED <<run, probe, read>> /\ pc' = "over"
    BY <1>10 DEF Close, Unsubscribe, Kill, TidyAndReturn
  <2> QED
    BY <2>1 DEF Opened, Mine, Listening
<1>11. CASE Start
  <2>1. fired' = fired /\ UNCHANGED <<run, probe, read, slot>> /\ pc = "start" /\ pc' \in {"plant", "over"}
    BY <1>11 DEF Start, Goto, Return
  <2> QED
    BY <2>1 DEF Opened, Mine, Listening, Place
<1>12. CASE StartForward
  <2>1. /\ fired' = fired /\ UNCHANGED <<run, probe, read, slot>> /\ pc = "start_forward"
        /\ pc' \in {"curl", "over"}
    BY <1>12 DEF StartForward, Goto, Return
  <2> QED
    BY <2>1 DEF Opened, Mine, Listening, Place
<1>13. CASE Check
  BY <1>13, <1>o DEF Check, Goto, Return, Opened, Mine, Listening, Place, helmorVars
<1>14. CASE Curl \/ List
  BY <1>14 DEF Curl, List, Goto, Opened, Mine, Listening, Place, helmorVars
<1>15. CASE Serve
  BY <1>15 DEF Serve, Goto, Opened, Listening, Place
<1>16. CASE LookAtAgent
  BY <1>16, <1>u DEF LookAtAgent, Goto, Return, Listening
<1>17. CASE WaitForSession \/ PidBefore \/ Disconnect \/ Connect \/ PidAfter \/ SessionsAfter
  BY <1>17 DEF WaitForSession, PidBefore, Disconnect, Connect, PidAfter, SessionsAfter,
               Goto, Return, Opened, Listening, Place
<1>18. CASE SetupRun
  <2>1. CASE Join \/ Worktree \/ Clone \/ Install \/ VerifyInstall \/ InstallAgain \/ Leave \/ Binding
    BY <2>1 DEF Join, Worktree, Clone, Install, VerifyInstall, InstallAgain, Leave, Binding,
                Goto, Return, Opened, Listening, Place
  <2>2. CASE LookForReply
    BY <2>2 DEF LookForReply, Goto, Return, Opened, Listening, Place
  <2>3. CASE CheckHosts \/ CheckRuntime \/ CheckBinding \/ Mark \/ CheckStatus \/ CheckContent
               \/ CheckTree
    BY <2>3 DEF CheckHosts, CheckRuntime, CheckBinding, Mark, CheckStatus, CheckContent,
                CheckTree, Checks, Goto, Opened, Listening, Place
  <2> QED
    BY <1>18, <2>1, <2>2, <2>3 DEF SetupRun
<1>19. CASE WalkRun
  <2>0. ASSUME probe \in WalkNames, probe' = probe,
               pc' \notin {"start_forward", "curl", "list", "stop_forward", "kill", "unsubscribe"}
        PROVE  Opened'
    BY <2>0 DEF Opened, WalkNames
  <2>1. CASE Clean \/ AskToConnect \/ Send \/ CopyDiagnostics
    BY <2>1, <2>0 DEF Clean, AskToConnect, Send, CopyDiagnostics, Goto, Place, WalkNames
  <2>2. CASE StartsEmpty \/ Settled \/ RowSaysConnected \/ PanelOpens \/ Chips \/ Inspect \/ Changes
    BY <2>2, <2>0 DEF StartsEmpty, Settled, RowSaysConnected, PanelOpens, Chips, Inspect,
                      Changes,
                      Checks, Place, WalkNames
  <2>3. CASE Wipe \/ PlantMarker \/ RowVisible \/ RowShowsActivity
    BY <2>3, <2>0 DEF Wipe, PlantMarker, RowVisible, RowShowsActivity, WaitForRow, Goto, Place,
                      WalkNames
  <2>4. CASE LoadPage
    BY <2>4, <2>0 DEF LoadPage, Goto, Place, Walk, WalkNames
  <2>5. CASE \/ RowPresent \/ HeaderChip \/ BackendConnected \/ DebugPanel \/ Buttons \/ ToastShown
             \/ DaemonLog \/ AuthDialog \/ Wizard
    BY <2>5, <2>0 DEF RowPresent, HeaderChip, BackendConnected, DebugPanel, Buttons, ToastShown,
                      DaemonLog, AuthDialog, Wizard, Checks, Place, WalkNames
  <2> QED
    BY <1>19, <2>1, <2>2, <2>3, <2>4, <2>5 DEF WalkRun, PanelRun
<1>20. CASE NextRun
  <2>1. pc' = "prepare" /\ read' = {}
    BY <1>20 DEF NextRun
  <2> QED
    BY <2>1 DEF Opened, Listening
<1>21. CASE World
  <2>1. UNCHANGED <<run, probe, pc, read, lost>>
    BY <1>21 DEF World, Opens, Refused, Streams, StreamEnds, Closes, SessionEnds, Replies,
                 Screen,
                 Change, Reload, DaemonDies, DaemonStarts, ForeignSession, Toast, BundleGoes, runVars
  <2>2. /\ \A w \in Clues : Mine(w) \in fired' => Mine(w) \in fired
        /\ \A x \in open' : x[1] \in Sources => x \in open
    <3>1. ASSUME NEW x \in fired, Opens(x)
          PROVE  /\ \A w \in Clues : Mine(w) \in fired' => Mine(w) \in fired
                 /\ \A y \in open' : y[1] \in Sources => y \in open
      <4>1. x[1] \notin Sources
        BY DEF Asked
      <4>2. open' \subseteq open \cup {x} /\ fired' \subseteq fired \cup {<<"install", x[2]>>}
        BY <3>1 DEF Opens, Follows
      <4> QED
        BY <4>1, <4>2 DEF Mine
    <3>2. ASSUME NEW x \in fired, Refused(x) PROVE fired' \subseteq fired /\ open' \subseteq open
      BY <3>2 DEF Refused
    <3>3. ASSUME NEW by \in 1..Runs, Streams(by) \/ StreamEnds(by)
          PROVE  fired' \subseteq fired /\ open' \subseteq open
      BY <3>3 DEF Streams, StreamEnds, helmorVars
    <3>4. ASSUME NEW x \in open, Closes(x) PROVE fired' \subseteq fired /\ open' \subseteq open
      BY <3>4 DEF Closes
    <3>5. ASSUME NEW s \in sessions, SessionEnds(s) PROVE fired' \subseteq fired /\ open' \subseteq open
      BY <3>5 DEF SessionEnds, helmorVars
    <3>6. CASE Replies \/ Screen \/ Change \/ DaemonDies \/ DaemonStarts \/ ForeignSession \/ BundleGoes
      BY <3>6 DEF Replies, Screen, Change, DaemonDies, DaemonStarts, ForeignSession,
                  BundleGoes, helmorVars
    <3>7. CASE Reload
      <4>1. open' \subseteq open /\ fired' \subseteq fired \cup {<<"connection", 0>>}
        BY <3>7 DEF Reload, PageLoads
      <4> QED
        BY <4>1 DEF Mine
    <3>8. CASE Toast
      BY <3>8 DEF Toast, Mine
    <3> QED
      BY <1>21, <3>1, <3>2, <3>3, <3>4, <3>5, <3>6, <3>7, <3>8 DEF World
  <2>3. CASE Change
    <3>1. Mine("subscription") \notin fired /\ UNCHANGED <<fired, open>>
      BY <2>3, <1>o DEF Change, helmorVars
    <3> QED
      BY <2>1, <3>1 DEF Opened, Mine, Listening, All
  <2>4. CASE probe # "watch"
    BY <2>1, <2>2, <2>4 DEF Opened, Mine, All
  <2>5. CASE probe = "watch" /\ ~Change
    <3>1. slot'.items = slot.items
      BY <1>21, <2>5 DEF World, Opens, Refused, Streams, StreamEnds, Closes, SessionEnds,
                         Replies, Screen,
                 Reload, PageLoads, DaemonDies, DaemonStarts, ForeignSession, Toast, BundleGoes, Tell, TypeOK
    <3> QED
      BY <2>1, <2>2, <3>1, <1>q
  <2> QED
    BY <2>3, <2>4, <2>5
<1>22. CASE UNCHANGED vars
  BY <1>22, <1>u DEF vars, runVars
<1> QED
  BY <1>1, <1>2, <1>3, <1>4, <1>5, <1>6, <1>7, <1>8, <1>9, <1>10, <1>11, <1>12, <1>13, <1>14,
     <1>15,
     <1>16, <1>17, <1>18, <1>19, <1>20, <1>21, <1>22 DEF Next, Run, LiveRun, Over

-----------------------------------------------------------------------------
(* What was read.                                                          *)

(* A failed assertion is noted for good.                                   *)
LEMMA ChecksNote ==
  ASSUME NEW step, NEW ok \in BOOLEAN, NEW next, Checks(step, ok, next), tally \in BOOLEAN
  PROVE  /\ tally' => tally /\ ok
         /\ pc = step /\ pc' = next
         /\ UNCHANGED <<run, probe, slot, fired, open, installed, bound, marker>>
<1>1. tally' => tally /\ ok
  BY Zenon DEF Checks
<1> QED
  BY <1>1 DEF Checks, helmorVars, hostVars

LEMMA NextEvidence ==
  ASSUME TypeOK, Place, Asked, Evidence, [Next]_vars
  PROVE  Evidence'
<1> DEFINE Noted == {"tree", "debug", "buttons", "copy", "toast", "log", "auth", "report"}
(* Nothing is noted at a step of none of these.                            *)
<1>n. ASSUME UNCHANGED <<run, probe, read>>, pc' \notin Noted \cup Listening \cup {"poll", "sleep"}
      PROVE  Evidence'
  BY <1>n DEF Evidence, Listening
(* Nor of probes that nothing is said of.                                  *)
<1>w. ASSUME probe' = probe, probe \in WalkNames \ {"observe", "actions"},
             pc' \notin {"tree", "debug", "buttons", "copy", "toast"}
      PROVE  Evidence'
  BY <1>w DEF Evidence, WalkNames
<1>b. tally \in BOOLEAN /\ connected \in BOOLEAN /\ bound \in BOOLEAN
  BY DEF TypeOK
<1>1. CASE Prepare \/ Error \/ Report
  <2>1. CASE Prepare
    <3>1. Begin[probe] \notin Noted \cup Listening \cup {"poll", "sleep"}
      BY DEF TypeOK, Begin, ProbeNames, LiveProbeNames, SetupNames, WalkNames, Listening
    <3> QED
      BY <2>1, <3>1, <1>n DEF Prepare, Goto
  <2>2. CASE Error \/ Report
    BY <2>2, <1>n DEF Error, Report, Return, Listening
  <2> QED
    BY <1>1, <2>1, <2>2
<1>2. CASE Fire
  <2>1. slot'.items = {} /\ UNCHANGED <<run, probe, read>> /\ pc' = Then[probe] /\ pc = "fire"
    BY <1>2 DEF Fire, Fresh, Goto
  <2>2. pc' \notin Noted
    BY <2>1 DEF Then, Place
  <2> QED
    BY <2>1, <2>2 DEF Evidence
<1>3. CASE Wake
  BY <1>3 DEF Wake, Goto, Evidence, Place, Listening
<1>4. CASE Tick
  BY <1>4 DEF Tick, Evidence, Place, Listening, helmorVars, All, hostVars
<1>5. CASE Write \/ Plant
  BY <1>5 DEF Write, Plant, Goto, Evidence, Place, Listening
<1>6. CASE Look
  <2>1. /\ UNCHANGED <<run, probe, slot>> /\ pc = "poll" /\ read' \in {read, slot.items}
        /\ pc' \in {"sleep", "close", "stop"} /\ probe \in {"terminal", "watch"}
    BY <1>6 DEF Look, Goto, LeavesTo
  <2> QED
    BY <2>1 DEF Evidence, Listening
<1>7. CASE StopPrior \/ Stop \/ StopForward
  BY <1>7 DEF StopPrior, Stop, StopForward, Tidy, Evidence, Place, Listening
<1>8. CASE Close \/ Unsubscribe \/ Kill
  BY <1>8, <1>n DEF Close, Unsubscribe, Kill, TidyAndReturn, Listening
<1>9. CASE Start \/ StartForward \/ Serve \/ Check
  <2>1. CASE Start
    BY <2>1 DEF Start, Goto, Return, Evidence, Listening, Place
  <2>2. CASE StartForward \/ Serve \/ Check
    BY <2>2, <1>n DEF StartForward, Serve, Check, Goto, Return, Listening
  <2> QED
    BY <1>9, <2>1, <2>2
<1>10. CASE LookAtAgent
  BY <1>10 DEF LookAtAgent, Goto, Return, Evidence, Listening
<1>11. CASE Curl \/ List
  <2>1. /\ UNCHANGED <<run, probe>> /\ pc' \in {"list", "stop_forward"} /\ probe = "forward"
    BY <1>11 DEF Curl, List, Goto, Place
  <2>2. \A a, b \in read' : a = b
    BY <1>11 DEF Curl, List, Asked, Evidence, Place
  <2> QED
    BY <2>1, <2>2 DEF Evidence, Listening
<1>12. CASE WaitForSession \/ PidBefore \/ Disconnect \/ Connect \/ PidAfter \/ SessionsAfter
  <2>1. CASE WaitForSession
    BY <2>1 DEF WaitForSession, Goto, Return, Evidence, Listening, Place
  <2>2. CASE PidBefore \/ Disconnect \/ Connect \/ SessionsAfter
    BY <2>2, <1>n DEF PidBefore, Disconnect, Connect, SessionsAfter, Goto, Return, Listening
  <2>3. CASE PidAfter
    BY <2>3 DEF PidAfter, Goto, Evidence, Listening, Place
  <2> QED
    BY <1>12, <2>1, <2>2, <2>3
<1>13. CASE SetupRun
  <2>1. CASE Join \/ Worktree \/ Clone \/ Install \/ VerifyInstall \/ InstallAgain \/ Leave \/ Binding
    BY <2>1, <1>n DEF Join, Worktree, Clone, Install, VerifyInstall, InstallAgain, Leave,
                      Binding,
                Goto, Return, Listening
  <2>2. CASE LookForReply
    BY <2>2 DEF LookForReply, Goto, Return, Evidence, Listening
  <2>3. CASE CheckHosts \/ CheckRuntime \/ Mark \/ CheckStatus
    BY <2>3, <1>n DEF CheckHosts, CheckRuntime, Mark, CheckStatus, Checks, Goto, Listening
  <2>4. CASE CheckBinding
    <3>1. /\ Checks("bound", bound, IF bound THEN "mark" ELSE "report") /\ read' = read
          /\ probe = "features"
      BY <2>4 DEF CheckBinding, Checks, Place
    <3>2. /\ tally' => bound
          /\ pc' = (IF bound THEN "mark" ELSE "report") /\ UNCHANGED <<run, probe, slot>>
      BY <3>1, <1>b, ChecksNote
    <3> QED
      BY <3>1, <3>2 DEF Evidence, Listening
  <2>5. CASE CheckContent
    <3>1. Checks("content", connected /\ marker = run, "tree") /\ read' = {marker} /\ probe = "features"
      BY <2>5 DEF CheckContent, Checks, Place
    <3>2. (connected /\ marker = run) \in BOOLEAN
      BY <1>b
    <3>3. tally' => marker = run
      BY <3>1, <3>2, <1>b, ChecksNote
    <3>4. pc' = "tree" /\ UNCHANGED <<run, probe, slot>>
      BY <3>1 DEF Checks
    <3> QED
      BY <3>1, <3>3, <3>4 DEF Evidence, Listening
  <2>6. CASE CheckTree
    <3>1. Checks("tree", connected /\ marker # 0, "report") /\ read' = read /\ probe = "features"
      BY <2>6 DEF CheckTree, Checks, Place
    <3>2. (connected /\ marker # 0) \in BOOLEAN
      BY <1>b
    <3>3. tally' => tally
      BY <3>1, <3>2, <1>b, ChecksNote
    <3>4. pc = "tree" /\ pc' = "report" /\ UNCHANGED <<run, probe, slot>>
      BY <3>1 DEF Checks
    <3> QED
      BY <3>1, <3>3, <3>4 DEF Evidence, Listening
  <2> QED
    BY <1>13, <2>1, <2>2, <2>3, <2>4, <2>5, <2>6 DEF SetupRun
<1>14. CASE WalkRun
  <2>1. CASE Clean \/ StartsEmpty \/ AskToConnect \/ Settled \/ RowSaysConnected \/ Wipe \/ PanelOpens
    BY <2>1, <1>w DEF Clean, StartsEmpty, AskToConnect, Settled, RowSaysConnected, Wipe,
                      PanelOpens, Goto, Checks, Place, WalkNames
  <2>2. CASE Chips \/ Inspect \/ PlantMarker \/ Changes \/ Send \/ RowVisible \/ RowShowsActivity
    BY <2>2, <1>w DEF Chips, Inspect, PlantMarker, Changes, Send, RowVisible, RowShowsActivity,
                      WaitForRow, Goto, Checks, Place, WalkNames
  <2>3. CASE RowPresent \/ HeaderChip \/ Wizard
    BY <2>3, <1>w DEF RowPresent, HeaderChip, Wizard, Checks, Place, WalkNames
  <2>4. CASE BackendConnected
    BY <2>4, <1>n DEF BackendConnected, Checks, Listening
  <2>5. CASE LoadPage
    <3>1. PageLoads /\ pc' = Walk[probe] /\ UNCHANGED <<run, probe, read, tally>> /\ pc = "load"
      BY <2>5 DEF LoadPage, Goto
    <3>2. pc' \in {"panel", "inspect", "send", "row_present", "debug", "buttons", "wizard"}
      BY <3>1 DEF Walk, Place, WalkNames
    <3>3. \A x \in open' \cup fired' : x[1] # "toast"
      BY <3>1 DEF PageLoads, OfPage
    <3> QED
      BY <3>1, <3>2, <3>3 DEF Evidence, Listening, Place
  <2>6. CASE DebugPanel \/ Buttons
    <3>1. /\ UNCHANGED <<run, probe, read, open, fired>> /\ pc \in {"debug", "buttons"} /\ pc' = "copy"
      BY <2>6 DEF DebugPanel, Buttons, Checks, helmorVars
    <3> QED
      BY <3>1 DEF Evidence, Listening, Place
  <2>7. CASE CopyDiagnostics
    <3>1. /\ UNCHANGED <<run, probe, read, open>> /\ pc = "copy" /\ pc' = "toast"
          /\ fired' \subseteq fired \cup {Mine("toast")}
      BY <2>7 DEF CopyDiagnostics, Goto
    <3> QED
      BY <3>1 DEF Evidence, Listening, Place, Mine
  <2>8. CASE ToastShown
    <3>1. /\ Checks("toast", All("toast") # {}, IF probe = "observe" THEN "log" ELSE "auth")
          /\ read' = {x[2] : x \in All("toast")}
      BY <2>8 DEF ToastShown
    <3>2. /\ tally' => All("toast") # {}
          /\ pc = "toast" /\ pc' \in {"log", "auth"} /\ UNCHANGED <<run, probe, slot>>
      BY <3>1, <1>b, ChecksNote
    <3>3. \A a \in read' : a \in {0, run}
      BY <3>1, <3>2 DEF Evidence, All
    <3> QED
      BY <3>1, <3>2, <3>3 DEF Evidence, Listening, Place
  <2>9. CASE DaemonLog \/ AuthDialog
    <3>1. /\ UNCHANGED <<run, probe, read>> /\ pc \in {"log", "auth"} /\ pc' = "report"
      BY <2>9 DEF DaemonLog, AuthDialog, Checks
    <3>2. tally' => tally
      BY <2>9, <1>b, ChecksNote DEF DaemonLog, AuthDialog
    <3> QED
      BY <3>1, <3>2 DEF Evidence, Listening, Place
  <2> QED
    BY <1>14, <2>1, <2>2, <2>3, <2>4, <2>5, <2>6, <2>7, <2>8, <2>9 DEF WalkRun, PanelRun
<1>15. CASE NextRun
  <2>1. pc' = "prepare" /\ read' = {}
    BY <1>15 DEF NextRun
  <2> QED
    BY <2>1 DEF Evidence, Listening
<1>16. CASE World
  <2>1. UNCHANGED <<run, probe, pc, read, tally>>
    BY <1>16 DEF World, Opens, Refused, Streams, StreamEnds, Closes, SessionEnds, Replies,
                 Screen,
                 Change, Reload, DaemonDies, DaemonStarts, ForeignSession, Toast, BundleGoes, runVars
  (* Of the slot: *)
  <2>2. probe \in {"watch", "bundle"} => slot'.items \subseteq slot.items \cup {run}
    <3>1. ASSUME NEW x \in fired, Opens(x) \/ Refused(x) PROVE slot'.items = slot.items
      BY <3>1 DEF Opens, Refused, Tell, TypeOK
    <3>2. ASSUME NEW by \in 1..Runs, Streams(by) PROVE probe # "agent" => slot' = slot
      BY <3>2 DEF Streams, Tell
    <3>3. ASSUME NEW by \in 1..Runs, StreamEnds(by) PROVE slot'.items = slot.items
      BY <3>3 DEF StreamEnds, Tell, TypeOK
    <3>4. ASSUME NEW x \in open, Closes(x) PROVE slot' = slot
      BY <3>4 DEF Closes
    <3>5. ASSUME NEW s \in sessions, SessionEnds(s) PROVE slot' = slot
      BY <3>5 DEF SessionEnds
    <3>6. CASE Replies \/ Change
      BY <3>6 DEF Replies, Change, TypeOK
    <3>7. CASE Screen
      BY <3>7 DEF Screen
    <3>8. CASE Reload \/ DaemonDies \/ DaemonStarts \/ ForeignSession \/ Toast \/ BundleGoes
      BY <3>8 DEF Reload, PageLoads, DaemonDies, DaemonStarts, ForeignSession, Toast,
                  BundleGoes, TypeOK
    <3> QED
      BY <1>16, <3>1, <3>2, <3>3, <3>4, <3>5, <3>6, <3>7, <3>8 DEF World
  (* Of the toasts: *)
  <2>3. \A x \in open' \cup fired' : x[1] = "toast" => x \in open \cup fired \/ x[2] = 0
    <3>1. ASSUME NEW x \in fired, Opens(x)
          PROVE  \A y \in open' \cup fired' : y[1] = "toast" => y \in open \cup fired \/ y[2] = 0
      BY <3>1 DEF Opens, Follows
    <3>2. ASSUME NEW x \in fired, Refused(x) PROVE open' \subseteq open /\ fired' \subseteq fired
      BY <3>2 DEF Refused
    <3>3. ASSUME NEW by \in 1..Runs, Streams(by) \/ StreamEnds(by)
          PROVE  open' \subseteq open /\ fired' \subseteq fired
      BY <3>3 DEF Streams, StreamEnds, helmorVars
    <3>4. ASSUME NEW x \in open, Closes(x) PROVE open' \subseteq open /\ fired' \subseteq fired
      BY <3>4 DEF Closes
    <3>5. ASSUME NEW s \in sessions, SessionEnds(s) PROVE open' \subseteq open /\ fired' \subseteq fired
      BY <3>5 DEF SessionEnds, helmorVars
    <3>6. CASE Replies \/ Screen \/ Change \/ DaemonDies \/ DaemonStarts \/ ForeignSession \/ BundleGoes
      BY <3>6 DEF Replies, Screen, Change, DaemonDies, DaemonStarts, ForeignSession,
                  BundleGoes, helmorVars
    <3>7. CASE Reload \/ Toast
      BY <3>7 DEF Reload, PageLoads, Toast
    <3> QED
      BY <1>16, <3>1, <3>2, <3>3, <3>4, <3>5, <3>6, <3>7 DEF World
  <2> QED
    BY <2>1, <2>2, <2>3 DEF Evidence, Listening, Place
<1>17. CASE UNCHANGED vars
  BY <1>17 DEF vars, runVars, helmorVars, hostVars, Evidence, Listening, All
<1> QED
  BY <1>1, <1>2, <1>3, <1>4, <1>5, <1>6, <1>7, <1>8, <1>9, <1>10, <1>11, <1>12, <1>13, <1>14,
     <1>15,
     <1>16, <1>17 DEF Next, Run, LiveRun, Over

-----------------------------------------------------------------------------
(* Verdicts.                                                               *)

(* A step that hands out a verdict is a step of the run: one that skips    *)
(* the cleanup, the last one of a cleanup, or one of a probe that has      *)
(* nothing to clean up.                                                    *)
LEMMA EndingStep ==
  ASSUME Next, Ends
  PROVE  \/ Start \/ Check \/ StartForward
         \/ Close \/ Unsubscribe \/ Kill
         \/ LookAtAgent \/ WaitForSession \/ PidBefore \/ SessionsAfter
         \/ Clone \/ VerifyInstall \/ InstallAgain \/ Binding \/ LookForReply \/ Report
<1>1. CASE Prepare \/ Fire \/ Error \/ Wake
  BY <1>1 DEF Ends, Prepare, Fire, Error, Wake, Goto, Return
<1>2. CASE Write \/ StopPrior \/ Plant \/ Look \/ Stop
  BY <1>2 DEF Ends, Write, StopPrior, Plant, Look, Stop, Tidy, Goto
<1>3. CASE Serve \/ Curl \/ List \/ StopForward
  BY <1>3 DEF Ends, Serve, Curl, List, StopForward, Tidy, Goto
<1>4. CASE Disconnect \/ Connect \/ PidAfter
  BY <1>4 DEF Ends, Disconnect, Connect, PidAfter, Goto
<1>5. CASE NextRun \/ Tick \/ Over
  BY <1>5 DEF Ends, NextRun, Tick, Over, vars, runVars
<1>6. CASE World
  BY <1>6 DEF Ends, World, Opens, Refused, Streams, StreamEnds, Closes, SessionEnds,
              Replies, Screen, Change, Reload, DaemonDies, DaemonStarts, ForeignSession,
              Toast, BundleGoes, runVars
<1>7. CASE Join \/ Worktree \/ Install \/ Leave
  BY <1>7 DEF Ends, Join, Worktree, Install, Leave, Goto
<1>8. CASE CheckHosts \/ CheckRuntime \/ CheckBinding \/ Mark \/ CheckStatus \/ CheckContent
            \/ CheckTree
  BY <1>8 DEF Ends, CheckHosts, CheckRuntime, CheckBinding, Mark, CheckStatus, CheckContent,
              CheckTree, Checks, Goto
<1>9. CASE Clean \/ StartsEmpty \/ AskToConnect \/ Settled \/ RowSaysConnected \/ LoadPage
  BY <1>9 DEF Ends, Clean, StartsEmpty, AskToConnect, Settled, RowSaysConnected, LoadPage,
              Checks, Goto
<1>10. CASE \/ Wipe \/ PanelOpens \/ Chips \/ Inspect \/ PlantMarker \/ Changes
            \/ Send \/ RowVisible \/ RowShowsActivity
  BY <1>10 DEF Ends, Wipe, PanelOpens, Chips, Inspect, PlantMarker, Changes, Send,
               RowVisible, RowShowsActivity, WaitForRow, Checks, Goto
<1>11. CASE PanelRun
  BY <1>11 DEF Ends, PanelRun, RowPresent, HeaderChip, BackendConnected, DebugPanel, Buttons,
              CopyDiagnostics, ToastShown, DaemonLog, AuthDialog, Wizard,
              Checks, Goto
<1> QED
  BY <1>1, <1>2, <1>3, <1>4, <1>5, <1>6, <1>7, <1>8, <1>9, <1>10, <1>11
     DEF Next, Run, LiveRun, SetupRun, WalkRun

LEMMA PassingStep ==
  ASSUME Next, Passes
  PROVE  \/ Close \/ Unsubscribe \/ LookAtAgent \/ Kill \/ SessionsAfter
         \/ Clone \/ Binding \/ LookForReply \/ Report
<1>1. Ends
  BY DEF Ends, Passes
<1>2. ~(Start \/ Check \/ StartForward)
  BY DEF Passes, Start, Check, StartForward, Goto, Return
<1>3. ~(WaitForSession \/ PidBefore \/ VerifyInstall \/ InstallAgain)
  BY DEF Passes, WaitForSession, PidBefore, VerifyInstall, InstallAgain, Goto, Return
<1> QED
  BY <1>1, <1>2, <1>3, EndingStep

(* With the last step of a cleanup the rest of it is done.                 *)
LEMMA CleanedUp ==
  ASSUME IInv, Next, Ends, ~lost', pc \notin EarlyReturns
  PROVE  /\ \A x \in open' : x[2] = run => x[1] \notin Held
         /\ \A x \in fired' : x[2] = run /\ x[1] \in Held =>
              verdict' = "fail" /\ x[1] = "subscription"
         /\ probe = "watch" => \A x \in open' : x[1] # "watch"
         /\ probe = "forward" => \A x \in open' : x[1] \notin {"server", "forward"}
<1>i. TypeOK /\ Place /\ Asked /\ Opened
  BY DEF IInv
<1>o. \A x \in open \cup fired : x[2] = run /\ x[1] \in Held => x = Mine(x[1]) /\ x[1] \in Own
  BY <1>i DEF Mine, Own, TypeOK, Things
<1>1. CASE Close
  <2>1. /\ open' = open \ {Mine("terminal")} /\ fired' = fired
        /\ pc = "close" /\ probe = "terminal"
    BY <1>1, <1>i, CleanUpTakes DEF Close, TidyAndReturn, TypeOK, Place
  <2>2. Own \subseteq {"terminal"} /\ Mine("terminal") \notin fired
    BY <1>i, <2>1 DEF Asked, Opened
  <2>3. \A x \in open \cup fired : x[2] = run /\ x[1] \in Held => x = Mine("terminal")
    BY <1>o, <2>2
  <2>4. \A x \in open' : x[2] = run => x[1] \notin Held
    BY <2>1, <2>3
  <2>5. \A x \in fired' : x[2] = run => x[1] \notin Held
    BY <2>1, <2>2, <2>3
  <2> QED
    BY <2>1, <2>4, <2>5
<1>2. CASE Unsubscribe
  <2>1. /\ open' = open \ {Mine("subscription")} /\ fired' = fired /\ ~lost
        /\ pc = "unsubscribe" /\ probe = "watch" /\ verdict' = Verdict(read # {})
    BY <1>2, <1>i, CleanUpTakes DEF Unsubscribe, TidyAndReturn, TypeOK, Place
  <2>2. Own \subseteq {"subscription", "watch"}
    BY <1>i, <2>1 DEF Asked
  <2>3. /\ \A x \in open : x[1] # "watch"
        /\ \A x \in fired : x[1] # "watch"
        /\ read # {} => Mine("subscription") \notin fired
    BY <1>i, <2>1 DEF Asked, Opened, All
  <2>4. read = {} => verdict' = "fail"
    BY <2>1 DEF Verdict
  <2>5. \A x \in open \cup fired : x[2] = run /\ x[1] \in Held => x = Mine("subscription")
    BY <1>o, <2>2, <2>3
  <2>6. \A x \in open' : x[2] = run => x[1] \notin Held
    BY <2>1, <2>5
  <2>7. ASSUME NEW x \in fired', x[2] = run, x[1] \in Held
        PROVE  verdict' = "fail" /\ x[1] = "subscription"
    BY <2>1, <2>3, <2>4, <2>5, <2>7 DEF Mine
  <2> QED
    BY <2>1, <2>3, <2>6, <2>7
<1>3. CASE Kill
  <2>1. /\ open' = open \ All("server") /\ fired' = fired /\ ~lost
        /\ pc = "kill" /\ probe = "forward"
    BY <1>3, <1>i, CleanUpTakes DEF Kill, TidyAndReturn, TypeOK, Place
  <2>2. Own \subseteq {"server", "forward"}
    BY <1>i, <2>1 DEF Asked
  <2>3. /\ \A x \in open' : x[1] \notin {"server", "forward"}
        /\ \A x \in fired : x[1] # "forward"
        /\ Mine("server") \notin fired
    BY <1>i, <2>1 DEF Asked, Opened, All
  <2>4. \A x \in open' : x[2] = run => x[1] \notin Held
    BY <1>o, <2>1, <2>2, <2>3
  <2>5. \A x \in fired : x[2] = run => x[1] \notin Held
    <3>1. ASSUME NEW x \in fired, x[2] = run, x[1] \in Held PROVE x = Mine("server")
      <4>1. x = Mine(x[1]) /\ x[1] \in Own
        BY <1>o, <3>1, Zenon
      <4>2. x[1] \in {"server", "forward"} /\ x[1] # "forward"
        BY <2>2, <2>3, <4>1, Zenon
      <4> QED
        BY <4>1, <4>2
    <3> QED
      BY <2>3, <3>1
  <2> QED
    BY <2>1, <2>3, <2>4, <2>5
<1>4. CASE \/ LookAtAgent \/ WaitForSession \/ PidBefore \/ SessionsAfter
           \/ Clone \/ VerifyInstall \/ InstallAgain \/ Binding \/ LookForReply \/ Report
  <2>1. UNCHANGED <<open, fired>>
    BY <1>4 DEF LookAtAgent, WaitForSession, PidBefore, SessionsAfter, Clone, VerifyInstall,
                InstallAgain, Binding, LookForReply, Report, helmorVars
  <2>2. probe \notin {"terminal", "watch", "forward"}
    BY <1>4, <1>i DEF LookAtAgent, WaitForSession, PidBefore, SessionsAfter, Clone,
                      VerifyInstall, InstallAgain, Binding, LookForReply, Report, Place, WalkNames
  <2>3. Own = {}
    BY <1>i, <2>2 DEF Asked
  <2> QED
    BY <1>o, <2>1, <2>2, <2>3
<1>5. ~(Start \/ Check \/ StartForward)
  BY DEF EarlyReturns, Start, Check, StartForward
<1> QED
  BY <1>1, <1>2, <1>3, <1>4, <1>5, EndingStep

(* What such a run passes on is its own.                                   *)
LEMMA PassesOnItsOwn ==
  ASSUME IInv, Next, Passes
  PROVE  /\ probe \in {"watch", "forward", "features"} => read' = {run}
         /\ probe = "bundle" /\ bound => read' = {run}
         /\ probe \in {"observe", "actions"} => read # {} /\ read \subseteq {0, run}
<1> USE DEF IInv, Passes, Verdict
<1>1. CASE Close
  BY <1>1 DEF Close, TidyAndReturn, Place
<1>2. CASE Unsubscribe
  <2>1. probe = "watch" /\ read' = read /\ read # {} /\ read \subseteq {run}
    BY <1>2 DEF Unsubscribe, TidyAndReturn, Place, Evidence
  <2> QED
    BY <2>1
<1>3. CASE LookAtAgent
  BY <1>3 DEF LookAtAgent
<1>4. CASE Kill
  <2>1. probe = "forward" /\ read' = read /\ run \in read /\ \A a, b \in read : a = b
    BY <1>4 DEF Kill, TidyAndReturn, Place, Evidence
  <2> QED
    BY <2>1
<1>5. CASE SessionsAfter \/ Clone
  BY <1>5 DEF SessionsAfter, Clone, Place
<1>6. CASE Binding
  BY <1>6 DEF Binding, Goto, Return, Place
<1>7. CASE LookForReply
  BY <1>7 DEF LookForReply, Goto, Return, Evidence
<1>8. CASE Report
  <2>1. /\ pc = "report" /\ tally /\ read' = read /\ probe \in WalkNames \cup {"features"}
    BY <1>8 DEF Report, Return, Place
  <2> QED
    BY <2>1 DEF Evidence, WalkNames
<1> QED
  BY PassingStep, <1>1, <1>2, <1>3, <1>4, <1>5, <1>6, <1>7, <1>8

-----------------------------------------------------------------------------
(* The theorems.                                                           *)

(* Sessions, steps, things and evidence are as IInv says.                  *)
THEOREM Invariance == Spec => []IInv
<1>1. Init => IInv
  <2> SUFFICES ASSUME Init PROVE IInv
    OBVIOUS
  <2>1. TypeOK
    <3>1. run \in 1..Runs /\ epoch \in 1..MaxEpochs /\ marker \in 0..Runs
      BY ProbesAssumption DEF Init
    <3>2. pc = "prepare" /\ pc \in Steps /\ pc \notin Between \cup {"pid"}
      BY DEF Init, Steps, Between
    <3>3. slot \in [there : BOOLEAN, items : SUBSET Items, done : BOOLEAN, error : BOOLEAN]
      BY DEF Init, Fresh
    <3>4. pidBefore \in Pids \cup {0} /\ pid \in Pids \cup {0}
      BY DEF Init, Pids
    <3>5. /\ probe \in ProbeNames /\ target \in Sessions \cup {NoSession}
          /\ read \subseteq Items /\ sessions \subseteq Sessions
          /\ fired \subseteq Things /\ open \subseteq Things
          /\ verdict \in {"none", "pass", "fail", "error"}
      BY DEF Init
    <3>6. /\ late \in BOOLEAN /\ tally \in BOOLEAN /\ lost \in BOOLEAN
          /\ connected \in BOOLEAN /\ installed \in BOOLEAN /\ bound \in BOOLEAN
      BY DEF Init
    <3> QED
      BY <3>1, <3>2, <3>3, <3>4, <3>5, <3>6 DEF TypeOK
  <2>2. SessionsLive /\ Place
    BY DEF Init, SessionsLive, Place
  <2>3. Asked /\ Opened /\ Evidence
    BY DEF Init, Asked, Opened, Evidence, Own, All, Listening
  <2> QED
    BY <2>1, <2>2, <2>3 DEF IInv
<1>2. IInv /\ [Next]_vars => IInv'
  BY NextType, NextSessionsLive, NextPlace, NextAsked, NextOpened, NextEvidence
     DEF IInv
<1> QED
  BY <1>1, <1>2, PTL DEF Spec

(* daemon_persistence passes only if one and the same daemon had the       *)
(* target before the disconnect and has it after.                          *)
THEOREM DaemonIsTheSame == Spec => SameDaemon
<1>1. ASSUME IInv, [Next]_vars
      PROVE  [Passes /\ probe = "daemon" => pid # 0 /\ target.epoch = epoch]_vars
  <2> SUFFICES ASSUME Next, Passes, probe = "daemon" PROVE pid # 0 /\ target.epoch = epoch
    BY <1>1
  <2>1. SessionsAfter
    BY <1>1, PassingStep DEF IInv, Place, Close, Unsubscribe, LookAtAgent, Kill,
                             Clone, Binding, LookForReply, Report, WalkNames
  <2>2. target \in sessions
    BY <2>1 DEF SessionsAfter, Return, Verdict, Passes
  <2> QED
    BY <1>1, <2>2 DEF SessionsLive, IInv
<1> QED
  BY <1>1, Invariance, PTL DEF Spec, SameDaemon

(* No event, answer, reply, text or toast of an earlier run makes pass one *)
(* of the probes that OwnEvidence names.                                   *)
THEOREM EvidenceIsOwn == Spec => OwnEvidence
<1>1. ASSUME IInv, [Next]_vars
      PROVE  [Passes =>
                /\ probe \in {"watch", "forward", "features"} => read' = {run}
                /\ probe = "bundle" /\ bound => read' = {run}
                /\ probe \in {"observe", "actions"} => read # {} /\ read \subseteq {0, run}]_vars
  BY <1>1, PassesOnItsOwn
<1> QED
  BY <1>1, Invariance, PTL DEF Spec, OwnEvidence

(* A run that returns a verdict, past the early returns and with no        *)
(* cleanup call lost, leaves no terminal, subscription, watch, server or   *)
(* forward of its own, but for a subscription on its way when it fails,    *)
(* and no watch, server or forward of an earlier run.                      *)
THEOREM NothingIsLeft == Spec => NothingLeft
<1>1. ASSUME IInv, [Next]_vars
      PROVE  [Ends /\ ~lost' /\ pc \notin EarlyReturns =>
                /\ \A x \in open' : x[2] = run => x[1] \notin Held
                /\ \A x \in fired' : x[2] = run /\ x[1] \in Held =>
                     verdict' = "fail" /\ x[1] = "subscription"
                /\ probe = "watch" => \A x \in open' : x[1] # "watch"
                /\ probe = "forward" => \A x \in open' : x[1] \notin {"server", "forward"}]_vars
  BY <1>1, CleanedUp
<1> QED
  BY <1>1, Invariance, PTL DEF Spec, NothingLeft
=============================================================================
