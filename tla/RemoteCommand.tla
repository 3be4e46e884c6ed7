---------------------------- MODULE RemoteCommand ----------------------------
(***************************************************************************)
(* What a scenario that invokes commands of Helmor                         *)
(* (src/src/commands.rs, src/src/tape/mod.rs) is promised, with no script, *)
(* slot, poll or clock in sight: a command runs once, and only if it was   *)
(* invoked; the outcome it is told is that command's; it is told that a    *)
(* command did not settle only of one that was started.                    *)
(***************************************************************************)
CONSTANT Calls    \* the invocations of a scenario

VARIABLES
  told,           \* what the scenario knows of each invocation
  fate            \* what became of the command it asked for

rcVars == <<told, fate>>

Tellings == {"none", "open", "ok", "err", "unsettled", "failed"}
Fates    == {"none", "running", "resolved", "rejected", "absent", "lost"}
Failed   == {"rejected", "absent"}

Init ==
  /\ told = [c \in Calls |-> "none"]
  /\ fate = [c \in Calls |-> "none"]

(* The scenario invokes a command; it is at one invocation at a time.      *)
Open(c) ==
  /\ \A d \in Calls : told[d] # "open"
  /\ told[c] = "none"
  /\ told' = [told EXCEPT ![c] = "open"]
  /\ UNCHANGED fate

(* The command starts, or Helmor has no such command to start; possibly    *)
(* after the scenario was told that its request failed.                    *)
Start(c) ==
  /\ told[c] \in {"open", "failed"}
  /\ fate[c] = "none"
  /\ \E f \in {"running", "absent"} : fate' = [fate EXCEPT ![c] = f]
  /\ UNCHANGED told

(* The command ends, whoever still waits for it.                           *)
End(c) ==
  /\ fate[c] = "running"
  /\ \E f \in {"resolved", "rejected"} : fate' = [fate EXCEPT ![c] = f]
  /\ UNCHANGED told

(* The page goes, and with it every way to learn what becomes of the       *)
(* commands it runs.                                                       *)
Forget ==
  /\ fate' = [c \in Calls |-> IF fate[c] = "running" THEN "lost" ELSE fate[c]]
  /\ UNCHANGED told

(* The scenario is told how the command ended.                             *)
Learn(c) ==
  /\ told[c] = "open"
  /\ \/ fate[c] = "resolved" /\ told' = [told EXCEPT ![c] = "ok"]
     \/ fate[c] \in Failed /\ told' = [told EXCEPT ![c] = "err"]
  /\ UNCHANGED fate

(* The scenario stops waiting for a command that was started.              *)
GiveUp(c) ==
  /\ told[c] = "open"
  /\ fate[c] # "none"
  /\ told' = [told EXCEPT ![c] = "unsettled"]
  /\ UNCHANGED fate

(* A request of the invocation fails: nothing is said of the command.      *)
Fail(c) ==
  /\ told[c] = "open"
  /\ told' = [told EXCEPT ![c] = "failed"]
  /\ UNCHANGED fate

Next ==
  \/ \E c \in Calls : Open(c) \/ Start(c) \/ End(c) \/ Learn(c) \/ GiveUp(c) \/ Fail(c)
  \/ Forget

Spec == Init /\ [][Next]_rcVars
=============================================================================
