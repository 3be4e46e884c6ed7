-------------------------------- MODULE Chats --------------------------------
(***************************************************************************)
(* The chats: src/src/scenarios/isolation_proof.rs,                        *)
(* chat_real_on_remote.rs and beats 1 to 9 of end_to_end_demo.rs.  Prompts *)
(* are sent one after the other, each waited for in the page and then      *)
(* judged by what it left in session_messages, or in the container.        *)
(*                                                                         *)
(* isolation_proof looks only at rows since its own time stamp, taken      *)
(* before each prompt; the others look at the whole table.  The last       *)
(* prompt of chat_real_on_remote creates a file, and is judged by it.      *)
(***************************************************************************)
EXTENDS ScenarioWorld

Stamped == scenario = "isolation"

(* Mutant: the file of an earlier run is left in the container.            *)
PrepareOver ==
  /\ pc = "prepare"
  /\ pc' = "wipe"
  /\ UNCHANGED <<scenario, last, late, resultVars, promptVars, runtimeVars, pageVars>>

(* Settings, bindings and the planted marker; chat_real_on_remote removes  *)
(* the file it will ask for.                                               *)
Prepare ==
  /\ pc = "prepare"
  /\ file' = "none"
  /\ pc' = "wipe"
  /\ UNCHANGED <<scenario, last, late, resultVars, promptVars, runtimeVars,
                 turn, messages, taperLastErr, rows>>

(* Mutant: the history is kept.                                            *)
WipeNothing ==
  /\ pc = "wipe"
  /\ phase' = 1
  /\ pc' = "reload"
  /\ UNCHANGED <<scenario, last, late, resultVars, current, baseline, runtimeVars,
                 pageVars>>

(* wipe_sql.                                                               *)
Wipe ==
  /\ pc = "wipe"
  /\ rows' = {} /\ phase' = 1
  /\ pc' = "reload"
  /\ UNCHANGED <<scenario, last, late, resultVars, current, baseline, runtimeVars,
                 turn, messages, taperLastErr, file>>

FirstStep == IF Stamped THEN "stamp" ELSE "baseline"

(* The page is loaded anew, with what was written since the wipe; the      *)
(* workspace is selected; chip and composer hook are asserted.             *)
Reload ==
  /\ pc = "reload"
  /\ \E shown \in {<<>>, <<TRUE>>} : messages' = shown
  /\ taperLastErr' = FALSE
  /\ \E ok \in BOOLEAN : passed' = (passed /\ ok)
  /\ pc' = IF scenario = "end_to_end" THEN "showcase" ELSE FirstStep
  /\ UNCHANGED <<scenario, last, late, verdict, promptVars, runtimeVars, turn, rows,
                 file>>

(* Beats 1 to 7 of the demo assert panel, row, install chips, inspector    *)
(* and composer hook; what they wait for in vain is not asserted.          *)
Showcase ==
  /\ pc = "showcase"
  /\ \E ok \in BOOLEAN : passed' = (passed /\ ok)
  /\ pc' = FirstStep
  /\ UNCHANGED <<scenario, last, late, verdict, promptVars, runtimeVars, pageVars>>

(* now_iso().                                                              *)
Stamp ==
  /\ pc = "stamp"
  /\ phase' = 2 * current
  /\ pc' = "baseline"
  /\ UNCHANGED <<scenario, last, late, resultVars, current, baseline, runtimeVars,
                 pageVars>>

-----------------------------------------------------------------------------
(* send_and_wait counts the messages ...                                   *)
Baseline ==
  /\ pc = "baseline"
  /\ baseline' = Len(messages) /\ phase' = 2 * current
  /\ pc' = "fire"
  /\ UNCHANGED <<scenario, last, late, resultVars, current, runtimeVars, pageVars>>

(* ... and, in a second script, sends the prompt.                          *)
Fire ==
  /\ pc = "fire"
  /\ turn' = [turn EXCEPT ![current] = "asked"]
  /\ taperLastErr' = FALSE
  /\ late' = FALSE
  /\ pc' = "looping"
  /\ UNCHANGED <<scenario, last, resultVars, promptVars, runtimeVars, messages, rows,
                 file>>

Answered ==
  /\ Len(messages) > baseline
  /\ ~Streaming
  /\ \E i \in (baseline + 1)..Len(messages) : messages[i]

(* send_and_wait returns, its locals are gone.                             *)
Return == pc' = "judge" /\ baseline' = 0 /\ late' = FALSE

(* Mutant: a wait without a deadline.                                      *)
LookForever ==
  /\ pc = "looping"
  /\ \/ (taperLastErr \/ Answered) /\ Return
     \/ ~taperLastErr /\ ~Answered /\ pc' = "sleeping" /\ UNCHANGED <<baseline, late>>
  /\ UNCHANGED <<scenario, last, resultVars, current, phase, runtimeVars, pageVars>>

(* One turn of the loop: nothing after the deadline, which fails the       *)
(* assertion of the answer; a rejection ends the wait, with an assertion   *)
(* in the demo only; so does an answer.                                    *)
Look ==
  /\ pc = "looping"
  /\ \/ late /\ passed' = FALSE /\ Return
     \/ ~late /\ taperLastErr /\ passed' = (passed /\ scenario # "end_to_end") /\ Return
     \/ ~late /\ ~taperLastErr /\ Answered /\ UNCHANGED passed /\ Return
     \/ /\ ~late /\ ~taperLastErr /\ ~Answered
        /\ pc' = "sleeping"
        /\ UNCHANGED <<passed, baseline, late>>
  /\ UNCHANGED <<scenario, last, verdict, current, phase, runtimeVars, pageVars>>

Wake ==
  /\ pc = "sleeping"
  /\ pc' = "looping"
  /\ UNCHANGED <<scenario, last, late, resultVars, promptVars, runtimeVars, pageVars>>

-----------------------------------------------------------------------------
(* Mutant: isolation_proof without its time stamp.                         *)
DbContainsEver(text) == \E r \in rows : r.text = text

(* db_contains_recent with the prompt's time stamp, and db_contains.       *)
DbContains(text) ==
  \E r \in rows : r.text = text /\ (Stamped => r.phase >= 2 * current)

(* test -f NEW_FILE && cat NEW_FILE: its text is the same in every run.    *)
FileThere == file # "none"

(* Mutant: the laptop's name is not looked for.                            *)
HoldsForContainer ==
  IF scenario = "chat_real" /\ current = N[scenario] THEN FileThere ELSE DbContains(current)

(* The assertion after prompt `current`.                                   *)
Holds ==
  IF scenario = "chat_real" /\ current = N[scenario]
  THEN FileThere
  ELSE DbContains(current) /\ (Stamped /\ current = 1 /\ Named => ~DbContains(Laptop))

(* Mutant: one prompt too many.                                            *)
JudgeOn ==
  /\ pc = "judge"
  /\ passed' = (passed /\ Holds)
  /\ phase' = 2 * current + 1 /\ current' = current + 1
  /\ pc' = IF current <= N[scenario] THEN FirstStep
           ELSE IF scenario = "end_to_end" THEN "meanwhile" ELSE "finish"
  /\ UNCHANGED <<scenario, last, late, verdict, baseline, runtimeVars, pageVars>>

Judge ==
  /\ pc = "judge"
  /\ passed' = (passed /\ Holds)
  /\ phase' = 2 * current + 1 /\ current' = current + 1
  /\ pc' = IF current < N[scenario] THEN FirstStep
           ELSE IF scenario = "end_to_end" THEN "meanwhile" ELSE "finish"
  /\ UNCHANGED <<scenario, last, late, verdict, baseline, runtimeVars, pageVars>>

Chat ==
  \/ Prepare \/ Wipe \/ Reload \/ Showcase \/ Stamp \/ Baseline \/ Fire
  \/ Look \/ Wake \/ Judge
=============================================================================
