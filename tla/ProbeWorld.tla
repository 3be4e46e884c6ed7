----------------------------- MODULE ProbeWorld -----------------------------
(***************************************************************************)
(* What the headless probes of src/src/probes, and the scenarios that walk *)
(* through Helmor's panels, share: one Helmor, its page, one container,    *)
(* and the frame of a run -- its steps, its `?`s, its cleanup calls.  What *)
(* a run leaves behind meets the next one.                                 *)
(*                                                                         *)
(* What is opened is a pair <<what, by>> of a kind and the run that asked  *)
(* for it.  What a script of the page asks for (`fired`) opens later, or   *)
(* not at all.  A stream that opened calls back into the page: into the    *)
(* object its script made, or, for remote_agent, into window.__taper as it *)
(* is at that time.                                                        *)
(***************************************************************************)
EXTENDS Naturals, FiniteSets

CONSTANTS
  Runs,              \* bound: runs of probes
  MaxEpochs          \* bound: daemons started in the container

ASSUME ProbesAssumption == Runs \in Nat \ {0} /\ MaxEpochs \in Nat \ {0}

VARIABLES
  run, probe,        \* the number of the run, and which probe it is
  pc,                \* where it is
  late,              \* the deadline of its wait has passed
  read,              \* what it read last
  tally,             \* every check, or assertion, so far passed
  target, pidBefore, \* of daemon_persistence
  verdict,           \* "none", then "pass", "fail" or "error"
  lost,              \* a cleanup call of the run failed unnoticed
  slot,              \* its object in window.__taper
  fired, open,       \* what was asked for, what is open
  pid, epoch,        \* the daemon: its pid (0: none), which one it is
  connected,         \* whether Helmor has the runtime connected
  sessions,          \* the agent sessions of the daemon
  installed,         \* the container has what is looked at of the bundle
  bound,             \* a workspace is bound to the runtime
  marker             \* whose marker the workspace in the container holds

runVars    == <<run, probe, pc, late, read, tally, target, pidBefore, verdict, lost>>
helmorVars == <<fired, open>>
daemonVars == <<pid, epoch, connected, sessions>>
hostVars   == <<installed, bound, marker>>
vars       == <<runVars, slot, helmorVars, daemonVars, hostVars>>

LiveProbeNames == {"terminal", "watch", "agent", "forward", "daemon"}
SetupNames     == {"setup", "bundle", "features"}
WalkNames      == {"connect_over_ssh", "remote_runner", "first_connect", "file_ops",
                   "agent_row", "workspace", "observe", "actions", "wizard"}
ProbeNames     == LiveProbeNames \cup SetupNames \cup WalkNames

Whats == {"terminal", "subscription", "watch", "stream", "reply", "session",
          "server", "forward", "connection", "disconnection", "install", "toast"}
Things == Whats \X (0..Runs)
Sessions == [by : 0..Runs, epoch : 1..MaxEpochs]
NoSession == [by |-> 0, epoch |-> 0]
Pids == 1..2

(* What the script of a probe asks for, and where the probe goes on.       *)
Asks == [terminal |-> "terminal", watch |-> "subscription", agent |-> "stream",
         daemon |-> "session", bundle |-> "reply", agent_row |-> "session"]
Then == [terminal |-> "write", watch |-> "stop_prior",
         agent |-> "poll", daemon |-> "sessions", bundle |-> "poll"]

Steps == {"prepare", "fire", "write", "close", "stop_prior", "start", "plant", "stop",
          "unsubscribe", "poll", "sleep", "serve", "check", "start_forward", "curl",
          "list", "stop_forward", "kill", "sessions", "pid", "disconnect", "connect",
          "pid_after", "sessions_after", "join", "worktree", "clone", "install",
          "verify", "again", "leave", "binding", "checks", "runtime", "bound",
          "mark", "status", "content", "tree", "report", "clean", "empty", "connecting",
          "settling", "row", "wipe", "load", "panel", "chip", "inspect", "plant_marker",
          "changes", "send", "row_wait", "activity_wait", "row_present", "header", "backend",
          "debug", "copy", "toast", "log", "buttons", "auth", "wizard", "over"}

(* The steps with a `?`.                                                   *)
Fallible == {"prepare", "fire", "write", "start", "plant", "poll", "serve", "list",
             "sessions", "disconnect", "connect", "sessions_after", "worktree", "clone",
             "install", "verify", "again", "binding", "checks", "report", "clean", "empty",
             "connecting", "settling", "row", "wipe", "load", "panel", "chip", "inspect",
             "plant_marker", "changes", "send", "row_wait", "activity_wait", "row_present",
             "header", "backend", "debug", "copy", "toast", "log", "buttons", "auth",
             "wizard"}

(* What a run reads: runs, by their events or markers; the echo of what it *)
(* typed and the output; pids.                                             *)
Echo   == Runs + 1
Output == Runs + 2
Items  == 0..(Runs + 2) \cup Pids

Fresh == [there |-> TRUE, items |-> {}, done |-> FALSE, error |-> FALSE]

Init ==
  /\ run = 1 /\ probe \in ProbeNames
  /\ pc = "prepare"
  /\ late = FALSE /\ read = {} /\ tally = TRUE
  /\ target = NoSession /\ pidBefore = 0
  /\ verdict = "none" /\ lost = FALSE
  /\ slot = [Fresh EXCEPT !.there = FALSE]
  /\ fired = {} /\ open = {}
  /\ pid = 1 /\ epoch = 1 /\ connected = TRUE /\ sessions = {}
  /\ installed = FALSE /\ bound \in BOOLEAN /\ marker = 0

(* What is held in Helmor or the container until somebody lets it go.      *)
Held == {"terminal", "subscription", "watch", "server", "forward"}

(* The next probe is run.  A toast nobody looks for is as good as none.    *)
ToastsMatter == probe \in {"observe", "actions"}
NoToasts(things) == {x \in things : x[1] # "toast"}

NextRun ==
  /\ verdict # "none" /\ run < Runs
  /\ run' = run + 1 /\ probe' \in ProbeNames /\ pc' = "prepare"
  /\ late' = FALSE /\ read' = {} /\ tally' = TRUE
  /\ target' = NoSession /\ pidBefore' = 0
  /\ verdict' = "none" /\ lost' = FALSE
  /\ IF ToastsMatter' THEN UNCHANGED helmorVars
     ELSE fired' = NoToasts(fired) /\ open' = NoToasts(open)
  /\ UNCHANGED <<slot, daemonVars, hostVars>>

-----------------------------------------------------------------------------
(* The frame of a run.                                                     *)

Goto(l) == pc' = l /\ UNCHANGED <<run, probe, tally, target, pidBefore, verdict, lost>>

Return(v) ==
  /\ pc' = "over" /\ verdict' = v
  /\ UNCHANGED <<run, probe, late, read, tally, target, pidBefore, lost>>

Verdict(ok) == IF ok THEN "pass" ELSE "fail"

Mine(what) == <<what, run>>
All(what)  == {x \in open : x[1] = what}

(* Where a probe begins once it has what it needs: a bound workspace, with *)
(* settings and session made, for some.                                    *)
NeedBinding == {"terminal", "watch", "agent", "daemon", "file_ops", "agent_row",
                "workspace"}

Begin == [terminal |-> "fire", watch |-> "fire", agent |-> "fire", daemon |-> "fire",
          forward |-> "serve", setup |-> "join", bundle |-> "install", features |-> "checks",
          connect_over_ssh |-> "clean", remote_runner |-> "clean", first_connect |-> "wipe",
          file_ops |-> "load", agent_row |-> "load", workspace |-> "load",
          observe |-> "backend", actions |-> "load", wizard |-> "load"]

Prepare ==
  /\ pc = "prepare"
  /\ probe \in NeedBinding => bound
  /\ Goto(Begin[probe])
  /\ UNCHANGED <<late, read, slot, helmorVars, daemonVars, hostVars>>

(* The script of the probe: a new object for its events, one invoke.       *)
Fire ==
  /\ pc = "fire"
  /\ slot' = Fresh
  /\ fired' = fired \cup {Mine(Asks[probe])}
  /\ Goto(Then[probe])
  /\ UNCHANGED <<late, read, open, daemonVars, hostVars>>

(* A call that failed may have had its effect.                             *)
Maybe(steps, old, new) == {old} \cup IF pc \in steps THEN {new} ELSE {}

Error ==
  /\ pc \in Fallible
  /\ Return("error")
  /\ fired' \in Maybe({"fire", "send"}, fired, fired \cup {Mine(Asks[probe])})
                 \cup Maybe({"connecting"}, fired, fired \cup {Mine("connection")})
                 \cup Maybe({"copy"}, fired, fired \cup {Mine("toast")})
  /\ open' \in Maybe({"start"}, open, open \cup {Mine("watch")})
  /\ installed' \in Maybe({"install", "again"}, installed, TRUE)
                     \cup Maybe({"wipe"}, installed, FALSE)
  /\ bound' \in Maybe({"clone"}, bound, TRUE)
  /\ connected' \in Maybe({"disconnect"}, connected, FALSE) \cup Maybe({"connect"}, connected, pid # 0)
  /\ marker' \in Maybe({"plant_marker"}, marker, run)
  /\ UNCHANGED <<slot, pid, epoch, sessions>>

(* A cleanup call, whose failure is dropped (`let _ =`).                   *)
CleanUp(things) ==
  \/ open' = open \ things /\ lost' = lost
  \/ open' \in {open, open \ things} /\ lost' = TRUE

Tidy(things, l) ==
  /\ CleanUp(things)
  /\ pc' = l
  /\ UNCHANGED <<run, probe, late, read, tally, target, pidBefore, verdict, slot, fired,
                 daemonVars, hostVars>>

TidyAndReturn(things, v) ==
  /\ CleanUp(things)
  /\ pc' = "over" /\ verdict' = v
  /\ UNCHANGED <<run, probe, late, read, tally, target, pidBefore, slot, fired,
                 daemonVars, hostVars>>

(* A check of feature_probe, or an assertion of a scenario, is recorded    *)
(* and does not end the run; it fails for reasons of its own, or because   *)
(* ok does not hold.                                                       *)
Checks(step, ok, next) ==
  /\ pc = step
  /\ tally' \in {FALSE, tally /\ ok}
  /\ pc' = next
  /\ UNCHANGED <<run, probe, late, target, pidBefore, verdict, lost, slot, helmorVars,
                 daemonVars, hostVars>>

(* Mutant: what the page shows is still there.                            *)
PageStreams(things) == {x \in things : x[1] \in {"stream", "reply", "connection"}}

(* The page is loaded anew: its objects are gone, its callbacks and chips; *)
(* a connection that is still to come settles nothing in it.               *)
OfPage(things) == {x \in things : x[1] \in {"stream", "reply", "connection", "toast"}}

PageLoads ==
  /\ slot' = [slot EXCEPT !.there = FALSE]
  /\ fired' = (fired \ OfPage(fired)) \cup {<<x[1], 0>> : x \in {y \in fired : y[1] = "connection"}}
  /\ open' = open \ (OfPage(open) \cup All("install"))

(* The report, or the tape, is written.                                    *)
Report ==
  /\ pc = "report"
  /\ Return(Verdict(tally))
  /\ UNCHANGED <<slot, helmorVars, daemonVars, hostVars>>

(* A probe wakes to the call it waits on.                                  *)
Wake ==
  /\ pc = "sleep"
  /\ Goto(IF probe = "daemon" THEN "sessions" ELSE "poll")
  /\ UNCHANGED <<late, read, slot, helmorVars, daemonVars, hostVars>>

(* The deadline of a wait passes.                                          *)
Tick ==
  /\ pc \in {"poll", "sleep", "sessions", "row_wait", "activity_wait"} /\ ~late
  /\ late' = TRUE
  /\ UNCHANGED <<run, probe, pc, read, tally, target, pidBefore, verdict, lost,
                 slot, helmorVars, daemonVars, hostVars>>

(* connect_remote_runtime takes a daemon.                                  *)
Connect ==
  /\ pc = "connect"
  /\ pid # 0
  /\ connected' = TRUE
  /\ Goto(IF probe = "daemon" THEN "pid_after" ELSE "binding")
  /\ UNCHANGED <<late, read, slot, helmorVars, pid, epoch, sessions, hostVars>>

-----------------------------------------------------------------------------
(* Helmor, its page and the container.                                     *)

(* Something asked for comes about.  A session takes a connected daemon, a *)
(* connection a daemon, the bundle a connection, a server a free port; a   *)
(* connection brings the bundle with it.                                   *)
Possible(what) ==
  CASE what = "session"    -> pid # 0 /\ connected
    [] what = "connection" -> pid # 0
    [] what = "install"    -> connected
    [] what = "server"     -> All("server") = {}
    [] OTHER               -> TRUE

Follows(x) == IF x[1] = "connection" /\ ~installed THEN {<<"install", x[2]>>} ELSE {}

Opens(x) ==
  /\ x \in fired /\ Possible(x[1])
  /\ fired' = (fired \ {x}) \cup Follows(x)
  /\ open' = IF x[1] \in {"session", "disconnection"} THEN open ELSE open \cup {x}
  /\ sessions' = IF x[1] = "session" THEN sessions \cup {[by |-> x[2], epoch |-> epoch]} ELSE sessions
  /\ connected' = IF x[1] \in {"connection", "disconnection"} THEN x[1] = "connection" ELSE connected
  /\ installed' = IF x[1] = "install" THEN TRUE ELSE installed
  /\ UNCHANGED <<runVars, slot, pid, epoch, bound, marker>>

(* What the page is told about an agent's stream goes to the one object    *)
(* all runs of remote_agent share.                                         *)
Tell(change) == slot' = IF probe = "agent" /\ slot.there THEN change ELSE slot

Refused(x) ==
  /\ x \in fired
  /\ fired' = fired \ {x}
  /\ IF x[1] = "stream" THEN Tell([slot EXCEPT !.error = TRUE, !.done = TRUE]) ELSE slot' = slot
  /\ UNCHANGED <<runVars, open, daemonVars, hostVars>>

Streams(by) ==
  /\ <<"stream", by>> \in open
  /\ Tell([slot EXCEPT !.items = @ \cup {by}])
  /\ UNCHANGED <<runVars, helmorVars, daemonVars, hostVars>>

StreamEnds(by) ==
  /\ <<"stream", by>> \in open
  /\ open' = open \ {<<"stream", by>>}
  /\ Tell([slot EXCEPT !.done = TRUE])
  /\ UNCHANGED <<runVars, fired, daemonVars, hostVars>>

(* The marker comes in a reply, into the object of bundle_install's script. *)
Replies ==
  /\ probe = "bundle" /\ slot.there
  /\ Mine("reply") \in open
  /\ slot' = [slot EXCEPT !.items = @ \cup {run}]
  /\ UNCHANGED <<runVars, helmorVars, daemonVars, hostVars>>

(* What was typed is echoed, then answered, into the terminal's object.    *)
Screen ==
  /\ probe = "terminal" /\ pc \in {"poll", "sleep"}
  /\ Mine("terminal") \in open /\ slot.there
  /\ slot' = [slot EXCEPT !.items = @ \cup {IF Echo \in @ THEN Output ELSE Echo}]
  /\ UNCHANGED <<runVars, helmorVars, daemonVars, hostVars>>

(* Mutant: the callback looks its object up in window.__taper, as          *)
(* remote_agent's does.                                                    *)
ChangeShared ==
  /\ probe = "watch" /\ slot.there
  /\ All("watch") # {}
  /\ \E x \in All("subscription") : slot' = [slot EXCEPT !.items = @ \cup {x[2]}]
  /\ UNCHANGED <<runVars, helmorVars, daemonVars, hostVars>>

(* A file of the workspace changes, the planted one or another, and a      *)
(* watch sees it; the callback of each subscription has its own object.    *)
Change ==
  /\ probe = "watch" /\ slot.there
  /\ All("watch") # {} /\ Mine("subscription") \in open
  /\ slot' = [slot EXCEPT !.items = @ \cup {run}]
  /\ UNCHANGED <<runVars, helmorVars, daemonVars, hostVars>>

(* A terminal, watch, server, ... ends by itself, a toast fades.           *)
Closes(x) ==
  /\ x \in open /\ x[1] \in Held \cup {"toast"}
  /\ open' = open \ {x}
  /\ UNCHANGED <<runVars, slot, fired, daemonVars, hostVars>>

Reload == PageLoads /\ UNCHANGED <<runVars, daemonVars, hostVars>>

(* The daemon dies and starts, sessions come and go, while a run depends   *)
(* on it: what happens before such a run can as well happen at its start.  *)
DaemonMatters   == probe \in {"daemon", "agent_row", "setup", "bundle", "first_connect",
                             "connect_over_ssh", "remote_runner"}
SessionsMatter == probe \in {"daemon", "agent_row"}

DaemonDies ==
  /\ DaemonMatters /\ pid # 0
  /\ pid' = 0 /\ sessions' = {}
  /\ UNCHANGED <<runVars, slot, helmorVars, epoch, connected, hostVars>>

(* A new daemon may get the old one's pid.                                 *)
DaemonStarts ==
  /\ DaemonMatters /\ pid = 0 /\ epoch < MaxEpochs
  /\ pid' \in Pids /\ epoch' = epoch + 1
  /\ UNCHANGED <<runVars, slot, helmorVars, connected, sessions, hostVars>>

(* Someone else's session.                                                 *)
ForeignSession ==
  /\ SessionsMatter /\ pid # 0
  /\ sessions' = sessions \cup {[by |-> 0, epoch |-> epoch]}
  /\ UNCHANGED <<runVars, slot, helmorVars, pid, epoch, connected, hostVars>>

SessionEnds(s) ==
  /\ SessionsMatter
  /\ sessions' = sessions \ {s}
  /\ UNCHANGED <<runVars, slot, helmorVars, pid, epoch, connected, hostVars>>

(* Helmor shows a toast of its own.                                        *)
Toast ==
  /\ ToastsMatter
  /\ open' = open \cup {<<"toast", 0>>}
  /\ UNCHANGED <<runVars, slot, fired, daemonVars, hostVars>>

(* The container is made anew, without the bundle, or the bundle is wiped  *)
(* as by first_connect_bundle.                                             *)
BundleGoes ==
  /\ probe = "bundle" /\ installed
  /\ installed' = FALSE
  /\ UNCHANGED <<runVars, slot, helmorVars, daemonVars, bound, marker>>

World ==
  /\ verdict = "none"
  /\ \/ \E x \in fired : Opens(x) \/ Refused(x)
     \/ \E by \in 1..Runs : Streams(by) \/ StreamEnds(by)
     \/ \E x \in open : Closes(x)
     \/ \E s \in sessions : SessionEnds(s)
     \/ Replies \/ Screen \/ Change \/ Reload
     \/ DaemonDies \/ DaemonStarts \/ ForeignSession \/ Toast \/ BundleGoes
=============================================================================
