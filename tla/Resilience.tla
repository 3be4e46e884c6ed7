----------------------------- MODULE Resilience -----------------------------
(***************************************************************************)
(* The outage: src/src/scenarios/resilience.rs, and beats 10 and 11 of     *)
(* src/src/scenarios/end_to_end_demo.rs.  Stop the container behind a      *)
(* remote runtime, see Helmor notice, start it again and see Helmor        *)
(* reconnect.                                                              *)
(***************************************************************************)
EXTENDS ScenarioWorld

outageRest == <<scenario, promptVars, pageVars>>

-----------------------------------------------------------------------------
(* wait_for_state, in the four steps of Waits.  end_to_end_demo's returns  *)
(* nothing: its steps `gone` and `returned` are left out.                  *)

Asserted == scenario = "resilience"

Satisfied(label) == (label = "connected") = (pc # "going")

After(label) ==
  CASE pc = "initially"    -> IF label = "connected" THEN "panel" ELSE "reconnect"
    [] pc = "reconnecting" -> "panel"
    [] pc = "going"        -> IF Asserted THEN "gone" ELSE "banner"
    [] pc = "returning"    -> IF Asserted THEN "returned" ELSE "finish"

StartWait(step) == pc' = step /\ last' = "(unknown)" /\ late' = FALSE

(* list_remote_runtimes, which sees the runtime as it is.                  *)
Poll ==
  /\ pc \in Waits /\ ~late
  /\ last' = state
  /\ pc' = IF Satisfied(state) THEN After(state) ELSE pc
  /\ UNCHANGED <<late, resultVars, runtimeVars, outageRest>>

(* Mutant: the label seen is a variable of the loop's body.                *)
GiveUpUnseen ==
  /\ pc \in Waits /\ late
  /\ last' = "(unknown)"
  /\ pc' = After(last')
  /\ UNCHANGED <<late, resultVars, runtimeVars, outageRest>>

(* Mutant: the wait goes on until it is satisfied.                         *)
GiveUpNever ==
  /\ pc \in Waits /\ late
  /\ late' = FALSE
  /\ UNCHANGED <<pc, last, resultVars, runtimeVars, outageRest>>

(* Past the deadline: the label seen last is returned.                     *)
GiveUp ==
  /\ pc \in Waits /\ late
  /\ pc' = After(last)
  /\ UNCHANGED <<last, late, resultVars, runtimeVars, outageRest>>

-----------------------------------------------------------------------------
(* An assertion about what the page shows, which is not modelled here.     *)
Beat(from, to) ==
  /\ pc = from
  /\ \E ok \in BOOLEAN : passed' = (passed /\ ok)
  /\ pc' = to
  /\ UNCHANGED <<last, late, verdict, runtimeVars, outageRest>>

(* reconnect_remote_runtime, rejected for a runtime Helmor does not know:  *)
(* a `?` of resilience, dropped by the demo.  What the first use leads to  *)
(* is waited for, and not looked at.                                       *)
Invoke ==
  /\ pc \in {"reconnect", "invoke"}
  /\ \/ state # "(missing)" /\ attempt' = TRUE
     \/ ~Asserted /\ UNCHANGED attempt
  /\ StartWait(IF pc = "reconnect" THEN "reconnecting" ELSE "returning")
  /\ UNCHANGED <<resultVars, state, container, lost, back, outageRest>>

(* panel_opens, row_present and the baseline scene.                        *)
Panel == Beat("panel", "stop")

(* docker stop.                                                            *)
Stop ==
  /\ pc = "stop"
  /\ container' = "stopped"
  /\ lost' = (state # "connected")
  /\ StartWait("going")
  /\ UNCHANGED <<resultVars, state, attempt, back, outageRest>>

(* Mutant: a runtime that stays connected ends the scenario.               *)
GoneOrOver ==
  /\ pc = "gone"
  /\ passed' = (passed /\ last # "connected")
  /\ pc' = IF last = "connected" THEN "finish" ELSE "banner"
  /\ UNCHANGED <<last, late, verdict, runtimeVars, outageRest>>

(* state_flips_offline.                                                    *)
Gone ==
  /\ pc = "gone"
  /\ passed' = (passed /\ last # "connected")
  /\ pc' = "banner"
  /\ UNCHANGED <<last, late, verdict, runtimeVars, outageRest>>

(* banner_appears.                                                         *)
Banner == Beat("banner", "revive")

(* docker start.                                                           *)
Revive ==
  /\ pc = "revive"
  /\ container' = "up"
  /\ back' = (state = "connected")
  /\ pc' = "click"
  /\ UNCHANGED <<last, late, resultVars, state, attempt, lost, outageRest>>

(* The banner has a button, or not: it follows the state with a delay.     *)
Click ==
  /\ pc = "click"
  /\ \/ attempt' = (state # "(missing)") /\ StartWait("returning")
     \/ pc' = "invoke" /\ UNCHANGED <<last, late, attempt>>
  /\ UNCHANGED <<resultVars, state, container, lost, back, outageRest>>

(* state_recovers.                                                         *)
Returned ==
  /\ pc = "returned"
  /\ passed' = (passed /\ last = "connected")
  /\ pc' = "finish"
  /\ UNCHANGED <<last, late, verdict, runtimeVars, outageRest>>

Outside ==
  \/ Poll \/ GiveUp \/ Invoke \/ Panel \/ Stop \/ Gone \/ Banner \/ Revive
  \/ Click \/ Returned
=============================================================================
