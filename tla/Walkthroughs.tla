---------------------------- MODULE Walkthroughs ----------------------------
(***************************************************************************)
(* Scenarios that walk through Helmor's panels: connect_over_ssh,          *)
(* remote_runner, first_connect_bundle (first_connect), remote_file_ops    *)
(* (file_ops), agent_on_remote (agent_row), remote_workspace (workspace),  *)
(* observability (observe), row_actions (actions) and add_remote_wizard    *)
(* (wizard).  Each asserts what it sees on its way; the tape that records  *)
(* it is module Tape's.                                                    *)
(***************************************************************************)
EXTENDS ProbeWorld

-----------------------------------------------------------------------------
(* connect_over_ssh and remote_runner.                                     *)

(* disconnect_remote_runtime, whatever comes of it: one that did not       *)
(* settle in time may still take effect.                                   *)
Clean ==
  /\ pc = "clean"
  /\ \/ connected' = FALSE /\ fired' = fired
     \/ connected' = connected /\ fired' \in {fired, fired \cup {Mine("disconnection")}}
  /\ Goto("empty")
  /\ UNCHANGED <<late, read, slot, open, pid, epoch, sessions, hostVars>>

(* panel_opens, starts_empty.                                              *)
StartsEmpty == Checks("empty", ~connected, "connecting") /\ UNCHANGED read

(* connect_remote_runtime is invoked; first_connect does not wait for it.  *)
AskToConnect ==
  /\ pc = "connecting"
  /\ fired' = fired \cup {Mine("connection")}
  /\ Goto(IF probe = "first_connect" THEN "chip" ELSE "settling")
  /\ UNCHANGED <<late, read, slot, open, daemonVars, hostVars>>

(* It settled, and its health is asserted; or it did not, or was rejected, *)
(* which is an assertion in one and an error in the other.                 *)
Settled ==
  \/ Mine("connection") \in open /\ Checks("settling", TRUE, "row") /\ UNCHANGED read
  \/ probe = "connect_over_ssh" /\ Checks("settling", FALSE, "row") /\ UNCHANGED read

(* A row that says "connected", as "disconnected" does: it may say         *)
(* anything.  remote_runner asks list_remote_runtimes as well.             *)
RowSaysConnected ==
  Checks("row", probe = "remote_runner" => connected, "report") /\ UNCHANGED read

-----------------------------------------------------------------------------
(* The page is loaded anew, and a panel opened.                            *)

Walk == [first_connect |-> "panel", file_ops |-> "inspect", agent_row |-> "send",
         workspace |-> "row_present", observe |-> "debug", actions |-> "buttons",
         wizard |-> "wizard"]

LoadPage ==
  /\ pc = "load"
  /\ PageLoads
  /\ Goto(Walk[probe])
  /\ UNCHANGED <<late, read, daemonVars, hostVars>>

-----------------------------------------------------------------------------
(* first_connect_bundle.                                                   *)

Wipe ==
  /\ pc = "wipe"
  /\ installed' = FALSE
  /\ Goto("load")
  /\ UNCHANGED <<late, read, slot, helmorVars, daemonVars, bound, marker>>

(* panel_opens, row_present.                                               *)
PanelOpens == Checks("panel", TRUE, "connecting") /\ UNCHANGED read

(* bundle_chip_installing, bundle_chip_installed: the chips of the runtime *)
(* since the page was loaded, whoever connects it.                         *)
Chips == Checks("chip", All("install") # {}, "report") /\ UNCHANGED read

-----------------------------------------------------------------------------
(* remote_file_ops.                                                        *)

(* The marker's name may be in a list of the files there, or of the        *)
(* changed ones, whoever planted it: the name is the same for all runs.    *)
Listings == SUBSET {m \in {marker} : connected /\ m # 0}

(* panel_opens, file_tree_rendered, ...: the tree stays in the dialog.     *)
Inspect == Checks("inspect", connected, "plant_marker") /\ read' \in Listings

(* A docker that fails is an error here.                                   *)
PlantMarker ==
  /\ pc = "plant_marker"
  /\ marker' = run
  /\ Goto("changes")
  /\ UNCHANGED <<late, read, slot, helmorVars, daemonVars, installed, bound>>

(* changes_rendered, marker_in_changes: the name is looked for in all the  *)
(* dialog says, which may include the tree of before the marker; its text  *)
(* is not read.                                                            *)
Changes ==
  \E tree \in SUBSET read, changes \in Listings :
    /\ Checks("changes", connected /\ tree \cup changes # {}, "report")
    /\ read' = tree \cup changes

-----------------------------------------------------------------------------
(* agent_on_remote.                                                        *)

(* panel_opens; the script that sends to the agent.                        *)
Send ==
  /\ pc = "send"
  /\ fired' = fired \cup {Mine(Asks[probe])}
  /\ tally' \in {FALSE, tally}
  /\ pc' = "row_wait"
  /\ UNCHANGED <<run, probe, late, read, target, pidBefore, verdict, lost, slot, open,
                 daemonVars, hostVars>>

(* A wait for a row of the list of sessions, the first one there is,       *)
(* whoever's; past the deadline an assertion fails.                        *)
WaitForRow(step, next) ==
  /\ pc = step
  /\ \/ ~late /\ sessions # {} /\ tally' = tally
     \/ late /\ tally' = FALSE
  /\ pc' = next /\ late' = FALSE
  /\ UNCHANGED <<run, probe, read, target, pidBefore, verdict, lost, slot, helmorVars,
                 daemonVars, hostVars>>

(* agent_session_row_visible, row_shows_recent_activity.                   *)
RowVisible == WaitForRow("row_wait", "activity_wait")

RowShowsActivity == WaitForRow("activity_wait", "report")

-----------------------------------------------------------------------------
(* remote_workspace.                                                       *)

(* row_present; the row is clicked, if it is there.                        *)
RowPresent == Checks("row_present", TRUE, "header") /\ UNCHANGED read

(* header_chip_visible, chip_names_runtime: of the workspace selected.     *)
HeaderChip == Checks("header", bound, "report") /\ UNCHANGED read

-----------------------------------------------------------------------------
(* observability and row_actions.                                          *)

(* remote_connected: list_remote_runtimes, before the page is loaded.      *)
BackendConnected == Checks("backend", connected, "load") /\ UNCHANGED read

(* panel_opens, diagnostics_card, ping_rtt_shown, metrics_table,           *)
(* metrics_have_rows; panel_opens, row_present and the three buttons.      *)
DebugPanel == Checks("debug", TRUE, "copy") /\ UNCHANGED read
Buttons    == Checks("buttons", TRUE, "copy") /\ UNCHANGED read

(* The click, which may find no button; nobody looks at what it returns.   *)
CopyDiagnostics ==
  /\ pc = "copy"
  /\ fired' \in {fired, fired \cup {Mine("toast")}}
  /\ Goto("toast")
  /\ UNCHANGED <<late, read, slot, open, daemonVars, hostVars>>

(* Mutant: a missing toast is put down to the clipboard.                   *)
ToastExcused ==
  /\ Checks("toast", TRUE, IF probe = "observe" THEN "log" ELSE "auth")
  /\ read' = {x[2] : x \in All("toast")}

(* copy_toast, diagnostics_toast: some toast.                              *)
ToastShown ==
  /\ Checks("toast", All("toast") # {}, IF probe = "observe" THEN "log" ELSE "auth")
  /\ read' = {x[2] : x \in All("toast")}

(* daemon_log_pre, daemon_log_has_lines: a text, empty or not, has one     *)
(* line at least.  auth_dialog_opens, auth_status_shown, and cancel.       *)
DaemonLog  == Checks("log", TRUE, "report") /\ UNCHANGED read
AuthDialog == Checks("auth", TRUE, "report") /\ UNCHANGED read

-----------------------------------------------------------------------------
(* add_remote_wizard: its checks; cancel, and nothing was asked for.  *)
Wizard == Checks("wizard", TRUE, "report") /\ UNCHANGED read

PanelRun ==
  \/ RowPresent \/ HeaderChip
  \/ BackendConnected \/ DebugPanel \/ Buttons \/ CopyDiagnostics \/ ToastShown
  \/ DaemonLog \/ AuthDialog \/ Wizard

WalkRun ==
  \/ Clean \/ StartsEmpty \/ AskToConnect \/ Settled \/ RowSaysConnected
  \/ LoadPage \/ Wipe \/ PanelOpens \/ Chips
  \/ Inspect \/ PlantMarker \/ Changes
  \/ Send \/ RowVisible \/ RowShowsActivity
  \/ PanelRun
=============================================================================
