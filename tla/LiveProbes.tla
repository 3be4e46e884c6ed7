----------------------------- MODULE LiveProbes -----------------------------
(***************************************************************************)
(* The probes that open something in Helmor or the container, wait for     *)
(* evidence that it works, return a verdict, and clean up on some of their *)
(* ways out: remote_terminal, remote_watch, remote_agent,                  *)
(* remote_port_forward and daemon_persistence.                             *)
(***************************************************************************)
EXTENDS ProbeWorld

-----------------------------------------------------------------------------
(* remote_terminal and remote_watch.                                       *)

(* The commands are typed, which takes an open terminal.                   *)
Write ==
  /\ pc = "write" /\ Mine("terminal") \in open
  /\ Goto("poll")
  /\ UNCHANGED <<late, read, slot, helmorVars, daemonVars, hostVars>>

StopPrior == pc = "stop_prior" /\ Tidy(All("watch"), "start")

(* start_workspace_watch says "remote", or the probe fails where it is.    *)
Start ==
  /\ pc = "start"
  /\ open' = open \cup {Mine("watch")}
  /\ \/ Goto("plant") /\ UNCHANGED <<late, read>>
     \/ Return("fail")
  /\ UNCHANGED <<slot, fired, daemonVars, hostVars>>

Plant ==
  /\ pc = "plant"
  /\ Goto("poll")
  /\ UNCHANGED <<late, read, slot, helmorVars, daemonVars, hostVars>>

(* The marker, be it in the echo of the commands; an event.                *)
Satisfied == IF probe = "terminal" THEN Echo \in slot.items ELSE slot.items # {}
LeavesTo  == IF probe = "terminal" THEN "close" ELSE "stop"

(* Mutant: a wait without a deadline.                                      *)
LookOn ==
  /\ pc = "poll" /\ probe \in {"terminal", "watch"} /\ slot.there
  /\ read' = slot.items /\ late' = late
  /\ Goto(IF Satisfied THEN LeavesTo ELSE "sleep")
  /\ UNCHANGED <<slot, helmorVars, daemonVars, hostVars>>

(* After the deadline what was read before it counts; an object that is    *)
(* gone makes the script throw (Error).                                    *)
Look ==
  /\ pc = "poll" /\ probe \in {"terminal", "watch"}
  /\ late \/ slot.there
  /\ read' = IF late THEN read ELSE slot.items
  /\ late' = late
  /\ Goto(IF late \/ Satisfied THEN LeavesTo ELSE "sleep")
  /\ UNCHANGED <<slot, helmorVars, daemonVars, hostVars>>

(* close_remote_terminal; the verdict asks for user and path too, which    *)
(* only the output shows.                                                  *)
Close == pc = "close" /\ TidyAndReturn({Mine("terminal")}, Verdict(Output \in read))

Stop == pc = "stop" /\ Tidy(All("watch"), "unsubscribe")

(* Mutant: the subscription is forgotten.                                  *)
NoUnsubscribe == pc = "unsubscribe" /\ TidyAndReturn({}, Verdict(read # {}))

Unsubscribe ==
  pc = "unsubscribe" /\ TidyAndReturn({Mine("subscription")}, Verdict(read # {}))

-----------------------------------------------------------------------------
(* remote_agent cleans nothing up.                                         *)

LookAtAgent ==
  /\ pc = "poll" /\ probe = "agent"
  /\ \/ (late \/ ~slot.there \/ slot.error) /\ Return("fail")
     \/ /\ ~late /\ slot.there /\ ~slot.error
        /\ \/ slot.done /\ Return(Verdict(slot.items # {}))
           \/ ~slot.done /\ Goto("sleep") /\ UNCHANGED <<late, read>>
  /\ UNCHANGED <<slot, helmorVars, daemonVars, hostVars>>

-----------------------------------------------------------------------------
(* remote_port_forward.                                                    *)

(* docker exec -d: the server is on its way.                               *)
Serve ==
  /\ pc = "serve"
  /\ fired' = fired \cup {Mine("server")}
  /\ Goto("check")
  /\ UNCHANGED <<late, read, slot, open, daemonVars, hostVars>>

(* The server answers with this run's marker; else, and when docker fails, *)
(* the probe fails where it is.                                            *)
Check ==
  /\ pc = "check"
  /\ \/ Mine("server") \in open /\ Goto("start_forward") /\ UNCHANGED <<late, read>>
     \/ Return("fail")
  /\ UNCHANGED <<slot, helmorVars, daemonVars, hostVars>>

(* An error of start_remote_port_forward is a verdict, not an error.       *)
StartForward ==
  /\ pc = "start_forward"
  /\ \/ open' = open \cup {Mine("forward")} /\ Goto("curl") /\ UNCHANGED <<late, read>>
     \/ open' \in {open, open \cup {Mine("forward")}} /\ Return("fail")
  /\ UNCHANGED <<slot, fired, daemonVars, hostVars>>

(* Whoever forwards the port, what comes back is what the server there     *)
(* serves; curl may give up.                                               *)
Curl ==
  /\ pc = "curl"
  /\ \/ All("forward") # {} /\ read' = {x[2] : x \in All("server")}
     \/ read' = {}
  /\ late' = late
  /\ Goto("list")
  /\ UNCHANGED <<slot, helmorVars, daemonVars, hostVars>>

(* list_remote_port_forwards: an entry of that runtime and local port.     *)
List ==
  /\ pc = "list"
  /\ read' = IF All("forward") = {} THEN {} ELSE read
  /\ late' = late
  /\ Goto("stop_forward")
  /\ UNCHANGED <<slot, helmorVars, daemonVars, hostVars>>

StopForward == pc = "stop_forward" /\ Tidy(All("forward"), "kill")

(* pkill finds every such server, its own or not.                          *)
Kill == pc = "kill" /\ TidyAndReturn(All("server"), Verdict(run \in read))

-----------------------------------------------------------------------------
(* daemon_persistence.                                                     *)

(* The loop until the daemon has a session, whoever's; the last one of the *)
(* list, whose order is the daemon's, is the target.                       *)
WaitForSession ==
  /\ pc = "sessions"
  /\ \/ late /\ Return("fail")
     \/ ~late /\ sessions = {} /\ Goto("sleep") /\ UNCHANGED <<late, read>>
     \/ /\ ~late /\ target' \in sessions
        /\ pc' = "pid"
        /\ UNCHANGED <<run, probe, late, read, tally, pidBefore, verdict, lost>>
  /\ UNCHANGED <<slot, helmorVars, daemonVars, hostVars>>

(* Mutant: no pid is a pid like any other.                                 *)
PidUnchecked ==
  /\ pc = "pid"
  /\ pidBefore' = pid
  /\ pc' = "disconnect"
  /\ UNCHANGED <<run, probe, late, read, tally, target, verdict, lost, slot, helmorVars,
                 daemonVars, hostVars>>

(* pgrep finds no daemon, or fails: so does the probe.                     *)
PidBefore ==
  /\ pc = "pid"
  /\ \/ /\ pid # 0 /\ pidBefore' = pid
        /\ pc' = "disconnect"
        /\ UNCHANGED <<run, probe, late, read, tally, target, verdict, lost>>
     \/ Return("fail")
  /\ UNCHANGED <<slot, helmorVars, daemonVars, hostVars>>

Disconnect ==
  /\ pc = "disconnect"
  /\ connected' = FALSE
  /\ Goto("connect")
  /\ UNCHANGED <<late, read, slot, helmorVars, pid, epoch, sessions, hostVars>>

(* No daemon, or a failing docker, is a pid that differs.                  *)
PidAfter ==
  /\ pc = "pid_after"
  /\ read' \in {{pid}, {0}}
  /\ late' = late
  /\ Goto("sessions_after")
  /\ UNCHANGED <<slot, helmorVars, daemonVars, hostVars>>

(* Mutant: the same pid is enough.                                         *)
SessionsAfterPid ==
  /\ pc = "sessions_after"
  /\ Return(Verdict(pidBefore \in read))
  /\ UNCHANGED <<slot, helmorVars, daemonVars, hostVars>>

SessionsAfter ==
  /\ pc = "sessions_after"
  /\ Return(Verdict(pidBefore \in read /\ target \in sessions))
  /\ UNCHANGED <<slot, helmorVars, daemonVars, hostVars>>

LiveRun ==
  \/ Write \/ StopPrior \/ Start \/ Plant \/ Look \/ Close \/ Stop \/ Unsubscribe
  \/ LookAtAgent
  \/ Serve \/ Check \/ StartForward \/ Curl \/ List \/ StopForward \/ Kill
  \/ WaitForSession \/ PidBefore \/ Disconnect \/ PidAfter \/ SessionsAfter
=============================================================================
