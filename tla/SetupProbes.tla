---------------------------- MODULE SetupProbes ----------------------------
(***************************************************************************)
(* The probes that set a container up and look at what is there:           *)
(* setup_remote_workspace, bundle_install and feature_probe.               *)
(***************************************************************************)
EXTENDS ProbeWorld

-----------------------------------------------------------------------------
(* setup_remote_workspace.                                                 *)

(* connect_remote_runtime, whatever comes of it: a runtime that is already *)
(* registered is an error too.                                             *)
Join ==
  /\ pc = "join"
  /\ connected' \in {connected, connected \/ pid # 0}
  /\ Goto("worktree")
  /\ UNCHANGED <<late, read, slot, helmorVars, pid, epoch, sessions, hostVars>>

(* Repository, workspace, and up to ten seconds for its worktree.          *)
Worktree ==
  /\ pc = "worktree"
  /\ Goto("clone")
  /\ UNCHANGED <<late, read, slot, helmorVars, daemonVars, hostVars>>

(* clone_workspace_to_runtime, which binds the workspace; a clone has no   *)
(* marker, what was there before may.                                      *)
Clone ==
  /\ pc = "clone" /\ connected
  /\ bound' = TRUE /\ marker' \in {0, marker}
  /\ Return("pass")
  /\ UNCHANGED <<slot, helmorVars, daemonVars, installed>>

-----------------------------------------------------------------------------
(* bundle_install.                                                         *)

Install ==
  /\ pc = "install"
  /\ installed' = TRUE
  /\ Goto("verify")
  /\ UNCHANGED <<late, read, slot, helmorVars, daemonVars, bound, marker>>

(* The five names of the listing, and the sum of claude; a listing that    *)
(* docker cannot make is an empty one.                                     *)
VerifyInstall ==
  /\ pc = "verify"
  /\ \/ installed /\ Goto("again") /\ UNCHANGED <<late, read>>
     \/ Return("fail")
  /\ UNCHANGED <<slot, helmorVars, daemonVars, hostVars>>

(* The second install must have nothing to do.                             *)
InstallAgain ==
  /\ pc = "again"
  /\ installed' = TRUE
  /\ \/ installed /\ Goto("leave") /\ UNCHANGED <<late, read>>
     \/ ~installed /\ Return("fail")
  /\ UNCHANGED <<slot, helmorVars, daemonVars, bound, marker>>

(* disconnect_remote_runtime, whatever comes of it.                        *)
Leave ==
  /\ pc = "leave"
  /\ connected' \in {connected, FALSE}
  /\ Goto("connect")
  /\ UNCHANGED <<late, read, slot, helmorVars, pid, epoch, sessions, hostVars>>

(* Without a workspace bound to the runtime there is no agent to ask, and  *)
(* the probe passes; else settings and a session, and the request.         *)
Binding ==
  /\ pc = "binding"
  /\ \/ bound /\ Goto("fire") /\ UNCHANGED <<late, read>>
     \/ ~bound /\ Return("pass")
  /\ UNCHANGED <<slot, helmorVars, daemonVars, hostVars>>

(* The marker, in any event of the reply; an object that is gone has none, *)
(* and neither the end nor an error of the stream ends the wait.           *)
LookForReply ==
  /\ pc = "poll" /\ probe = "bundle"
  /\ \/ late /\ Return("fail")
     \/ /\ ~late /\ slot.there /\ slot.items # {}
        /\ pc' = "over" /\ verdict' = "pass" /\ read' = slot.items
        /\ UNCHANGED <<run, probe, late, tally, target, pidBefore, lost>>
     \/ ~late /\ ~(slot.there /\ slot.items # {}) /\ Goto("sleep") /\ UNCHANGED <<late, read>>
  /\ UNCHANGED <<slot, helmorVars, daemonVars, hostVars>>

-----------------------------------------------------------------------------
(* feature_probe: every check is recorded, none ends the run.              *)

(* The five of track B: the laptop's ssh, the host.                        *)
CheckHosts == Checks("checks", TRUE, "runtime") /\ UNCHANGED read

(* The six of the runtime, its daemon's log and metrics.                   *)
CheckRuntime == Checks("runtime", connected, "bound") /\ UNCHANGED read

(* A workspace is bound; what is in it is looked at only if there is one.  *)
CheckBinding ==
  /\ Checks("bound", bound, IF bound THEN "mark" ELSE "report")
  /\ UNCHANGED read

(* The file with the run's text, whatever comes of docker; nobody removes  *)
(* it.                                                                     *)
Mark ==
  /\ pc = "mark"
  /\ marker' \in {marker, run}
  /\ Goto("status")
  /\ UNCHANGED <<late, read, slot, helmorVars, daemonVars, installed, bound>>

(* The status names the file, whoever's text it holds.                     *)
CheckStatus == Checks("status", connected /\ marker # 0, "content") /\ UNCHANGED read

(* Mutant: the text is not compared.                                       *)
CheckAnyContent ==
  /\ Checks("content", connected /\ marker # 0, "tree")
  /\ read' = {marker}

(* The text is the run's own.                                              *)
CheckContent ==
  /\ Checks("content", connected /\ marker = run, "tree")
  /\ read' = {marker}

(* The tree names the file; search and README.md.                          *)
CheckTree == Checks("tree", connected /\ marker # 0, "report") /\ UNCHANGED read

SetupRun ==
  \/ Join \/ Worktree \/ Clone
  \/ Install \/ VerifyInstall \/ InstallAgain \/ Leave \/ Binding \/ LookForReply
  \/ CheckHosts \/ CheckRuntime \/ CheckBinding
  \/ Mark \/ CheckStatus \/ CheckContent \/ CheckTree
=============================================================================
