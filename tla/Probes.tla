------------------------------- MODULE Probes -------------------------------
(***************************************************************************)
(* The headless probes of src/src/probes and nine of the scenarios, any of *)
(* them, one run after the other, against one Helmor and one container     *)
(* (module ProbeWorld).                                                    *)
(***************************************************************************)
EXTENDS LiveProbes, SetupProbes, Walkthroughs

Run == Prepare \/ Fire \/ Error \/ Wake \/ Connect \/ Report
       \/ LiveRun \/ SetupRun \/ WalkRun

Over == verdict # "none" /\ run = Runs /\ UNCHANGED vars

Next == Run \/ NextRun \/ Tick \/ World \/ Over

Spec == Init /\ [][Next]_vars

(* Every call returns (module Bridge), timers fire, time passes.           *)
FairSpec == Spec /\ WF_vars(Run) /\ WF_vars(Tick)

-----------------------------------------------------------------------------
(* daemon_persistence between its two looks.                               *)
Between == {"disconnect", "connect", "pid_after", "sessions_after"}

TypeOK ==
  /\ run \in 1..Runs /\ probe \in ProbeNames /\ pc \in Steps
  /\ late \in BOOLEAN /\ tally \in BOOLEAN /\ lost \in BOOLEAN /\ read \subseteq Items
  /\ target \in Sessions \cup {NoSession} /\ pidBefore \in Pids \cup {0}
  /\ verdict \in {"none", "pass", "fail", "error"}
  /\ slot \in [there : BOOLEAN, items : SUBSET Items, done : BOOLEAN, error : BOOLEAN]
  /\ probe = "daemon" /\ pc \in Between => pidBefore \in Pids
  /\ probe = "daemon" /\ pc \in Between \cup {"pid"} => target \in Sessions
  /\ fired \subseteq Things /\ open \subseteq Things
  /\ pid \in Pids \cup {0} /\ epoch \in 1..MaxEpochs /\ connected \in BOOLEAN
  /\ sessions \subseteq Sessions
  /\ installed \in BOOLEAN /\ bound \in BOOLEAN /\ marker \in 0..Runs

Passes == verdict = "none" /\ verdict' = "pass"

(* daemon_persistence passes only if one daemon, the same, had the target  *)
(* before the disconnect and has it after: neither a restart that gets the *)
(* old pid nor another daemon's session stands in for that.                *)
SameDaemon == [][Passes /\ probe = "daemon" => pid # 0 /\ target.epoch = epoch]_vars

(* What these probes pass on is their own: the event came through the      *)
(* run's own subscription (remote_watch), the answer from its own server,  *)
(* whoever forwards the port (remote_port_forward), the text from the file *)
(* as this run wrote it (feature_probe), the reply to its own request      *)
(* (bundle_install, if it asks for one).  The toast that observability and *)
(* row_actions find came up since this run loaded the page: it may be one  *)
(* of Helmor's, an earlier run's it is not.  Of the others no such thing   *)
(* holds: remote_agent shares its object with earlier runs of it,          *)
(* remote_file_ops finds the file of an earlier run, agent_on_remote and   *)
(* daemon_persistence take any session.                                    *)
OwnEvidence ==
  [][Passes =>
       /\ probe \in {"watch", "forward", "features"} => read' = {run}
       /\ probe = "bundle" /\ bound => read' = {run}
       /\ probe \in {"observe", "actions"} => read # {} /\ read \subseteq {0, run}]_vars

(* A run that returns a verdict, good or bad, leaves none of its own       *)
(* terminals, subscriptions, watches, servers and forwards open or on      *)
(* their way, and takes the watches, servers and forwards of earlier runs  *)
(* with it.  Three returns that skip the cleanup are excepted (the watch   *)
(* is not remote; the server does not answer; the forward is refused), a   *)
(* cleanup call that fails unnoticed, and a subscription still on its way  *)
(* when remote_watch gives up.  Marker files stay, and after an error      *)
(* everything does.                                                        *)
Ends == verdict = "none" /\ verdict' \in {"pass", "fail"}

EarlyReturns == {"start", "check", "start_forward"}

NothingLeft ==
  [][Ends /\ ~lost' /\ pc \notin EarlyReturns =>
       /\ \A x \in open' : x[2] = run => x[1] \notin Held
       /\ \A x \in fired' : x[2] = run /\ x[1] \in Held =>
            verdict' = "fail" /\ x[1] = "subscription"
       /\ probe = "watch" => \A x \in open' : x[1] # "watch"
       /\ probe = "forward" => \A x \in open' : x[1] \notin {"server", "forward"}]_vars

-----------------------------------------------------------------------------
(* What makes them hold: whose step each step is, which of its things a    *)
(* run may have open or on their way at each, and what it has read so far. *)

(* Sessions live and die with the one daemon there is.                     *)
SessionsLive ==
  /\ pid = 0 => sessions = {}
  /\ \A s \in sessions : s.epoch = epoch

(* Where the steps that hand out verdicts, and the steps before them, are. *)
Place ==
  /\ verdict = "none" <=> pc # "over"
  /\ pc \in {"write", "close"} => probe = "terminal"
  /\ pc \in {"stop_prior", "start", "plant", "stop", "unsubscribe"} => probe = "watch"
  /\ pc \in {"serve", "check", "start_forward", "curl", "list", "stop_forward", "kill"} =>
       probe = "forward"
  /\ pc \in {"sessions", "pid", "disconnect", "pid_after", "sessions_after"} =>
       probe = "daemon"
  /\ pc \in {"join", "worktree", "clone"} => probe = "setup"
  /\ pc \in {"install", "verify", "again", "leave", "binding"} => probe = "bundle"
  /\ pc \in {"checks", "runtime", "bound", "mark", "status", "content", "tree"} =>
       probe = "features"
  /\ pc = "fire" => probe \in {"terminal", "watch", "agent", "daemon", "bundle"}
  /\ pc = "poll" => probe \in {"terminal", "watch", "agent", "bundle"}
  /\ pc = "sleep" => probe \in {"terminal", "watch", "agent", "bundle", "daemon"}
  /\ pc = "connect" => probe \in {"daemon", "bundle"}
  /\ pc = "report" => probe \in WalkNames \cup {"features"}
  /\ pc \in {"clean", "empty", "settling", "row"} => probe \in {"connect_over_ssh", "remote_runner"}
  /\ pc = "connecting" => probe \in {"connect_over_ssh", "remote_runner", "first_connect"}
  /\ pc \in {"wipe", "panel", "chip"} => probe = "first_connect"
  /\ pc \in {"inspect", "plant_marker", "changes"} => probe = "file_ops"
  /\ pc \in {"send", "row_wait", "activity_wait"} => probe = "agent_row"
  /\ pc \in {"row_present", "header"} => probe = "workspace"
  /\ pc \in {"backend", "debug", "log"} => probe = "observe"
  /\ pc \in {"buttons", "auth"} => probe = "actions"
  /\ pc \in {"copy", "toast"} => probe \in {"observe", "actions"}
  /\ pc = "wizard" => probe = "wizard"
  /\ pc = "load" => probe \in WalkNames \ {"connect_over_ssh", "remote_runner"}

(* Nothing is there before it is asked for, nor asked for twice.           *)
Own == {x[1] : x \in {y \in open \cup fired : y[2] = run}} \cap Held

Asked ==
  /\ \A x \in open \cup fired : x[2] <= run
  /\ \A x \in fired : x[1] \notin {"watch", "forward"}
  /\ \A x \in fired : x[2] = run /\ x[1] \in Held => x \notin open
  /\ Own \subseteq CASE probe = "terminal" -> {"terminal"}
                     [] probe = "watch"    -> {"subscription", "watch"}
                     [] probe = "forward"  -> {"server", "forward"}
                     [] OTHER              -> {}
  /\ pc \in {"prepare", "fire", "serve"} => Own = {}
  /\ \A x, y \in All("server") : x = y

(* remote_watch, while its object is the one in the slot.                  *)
Listening == {"stop_prior", "start", "plant", "poll", "sleep"}

(* A run has seen its thing open before it comes to its cleanup.           *)
Opened ==
  /\ probe = "terminal" /\ pc \in {"poll", "sleep", "close"} => Mine("terminal") \notin fired
  /\ probe = "watch" /\ pc \in {"prepare", "fire"} => read = {}
  /\ probe = "watch" /\ read # {} => Mine("subscription") \notin fired
  /\ probe = "watch" /\ pc \in Listening /\ slot.items # {} => Mine("subscription") \notin fired
  /\ pc \in {"start_forward", "curl", "list", "stop_forward", "kill"} =>
       Mine("server") \notin fired
  /\ pc = "unsubscribe" /\ ~lost => All("watch") = {}
  /\ pc = "kill" /\ ~lost => All("forward") = {}

(* What was read, and noted as evidence, so far.                           *)
Evidence ==
  /\ probe = "watch" => read \subseteq {run}
  /\ probe = "watch" /\ pc \in Listening => slot.items \subseteq {run}
  /\ probe = "bundle" /\ pc \in {"poll", "sleep"} => slot.items \subseteq {run}
  /\ probe = "forward" => \A a, b \in read : a = b
  /\ pc = "tree" /\ tally => read = {run}
  /\ pc = "report" /\ probe = "features" /\ tally => read = {run}
  /\ pc \in {"debug", "buttons", "copy", "toast"} =>
       \A x \in open \cup fired : x[1] = "toast" => x[2] \in {0, run}
  /\ pc \in {"log", "auth", "report"} /\ probe \in {"observe", "actions"} /\ tally =>
       read # {} /\ read \subseteq {0, run}

IInv ==
  TypeOK /\ SessionsLive /\ Place /\ Asked /\ Opened /\ Evidence

(* Every run ends with a verdict or an error.                              *)
RunReturns == (verdict = "none") ~> (verdict # "none")
=============================================================================
