---------------------------- MODULE ScenarioWorld ----------------------------
(***************************************************************************)
(* What four scenarios of src/src/scenarios share: resilience stops and    *)
(* starts the container behind a remote runtime, isolation_proof and       *)
(* chat_real_on_remote send prompts through Helmor's composer,             *)
(* end_to_end_demo does the one after the other.                           *)
(*                                                                         *)
(* A scenario sees Helmor only through polls.  Around it Helmor's runtime, *)
(* the page and the agents behind the composer go on: the liveness loop    *)
(* notices a lost host or is late, a connection drops by itself, an        *)
(* attempt to connect ends either way; the agents, the turn of an earlier  *)
(* session (turn 0) among them, show messages, write rows and files and    *)
(* end, in any order.                                                      *)
(*                                                                         *)
(* Prompt p asks for one thing only the container can answer; a row that   *)
(* has it is a row with text p.  created_at is a phase: 0 before the run   *)
(* wipes the table, 1 from there, 2p from the start of prompt p to its     *)
(* judgement, 2p + 1 from there to the next start.                         *)
(***************************************************************************)
EXTENDS Naturals, Sequences, FiniteSets

Chats   == {"isolation", "chat_real", "end_to_end"}
Outages == {"resilience", "end_to_end"}

CONSTANTS
  N,                 \* number of prompts of each chat
  Named,             \* laptop_hostname.len() > 3
  MaxMessages,       \* bound on the messages shown
  MaxRows            \* bound on the rows of session_messages with one text

ASSUME NAssumption ==
  /\ N \in [Chats -> Nat \ {0}]
  /\ Named \in BOOLEAN /\ MaxMessages \in Nat /\ MaxRows \in Nat

VARIABLES
  scenario,          \* which scenario runs
  pc,                \* where its `run` is
  last,              \* what the last poll of the wait for a state saw
  late,              \* whether the deadline of the wait has passed
  passed,            \* whether every assertion so far holds
  verdict,           \* "none", then "pass", "fail" or "error"
  current,           \* the prompt under way
  baseline,          \* messages shown before it was sent
  phase,             \* the clock of the rows
  state,             \* state.type of the runtime in Helmor
  attempt,           \* whether Helmor is connecting
  container,         \* "up" or "stopped"
  lost,              \* history: not connected at some time while stopped
  back,              \* history: connected at some time since the start
  turn,              \* what the agent does about each prompt
  messages,          \* [data-message-role] elements: whether each has text
  taperLastErr,      \* window.__taperLastErr is set
  rows,              \* session_messages of the workspace
  file               \* NEW_FILE in the container: "none", "old" (from before
                     \* the run removed it) or "new"

waitVars    == <<pc, last, late>>
resultVars  == <<passed, verdict>>
promptVars  == <<current, baseline, phase>>
runtimeVars == <<state, attempt, container, lost, back>>
pageVars    == <<turn, messages, taperLastErr, rows, file>>
vars == <<scenario, waitVars, resultVars, promptVars, runtimeVars, pageVars>>

States == {"connected", "disconnected"}
Labels == States \cup {"(missing)", "(unknown)"}
Waits  == {"initially", "reconnecting", "going", "returning"}
Outage == {"reconnect", "panel", "stop", "gone", "banner", "revive", "click",
           "invoke", "returned"} \cup (Waits \ {"initially"})
Prompting == {"baseline", "fire", "looping", "sleeping", "judge"}
Steps == {"initially", "prepare", "wipe", "reload", "showcase", "stamp",
          "meanwhile", "finish", "over"} \cup Outage \cup Prompting

Turns   == UNION {0..N[s] : s \in Chats}
Prompts == 1..N[scenario]
Laptop  == 0
ByRows  == IF scenario = "chat_real" THEN Prompts \ {N[scenario]} ELSE Prompts
Texts   == IF scenario = "isolation" THEN Prompts \cup {Laptop} ELSE ByRows
Activities == {"none", "asked", "streaming", "ended"}

Alive(t)  == turn[t] \in {"asked", "streaming"}
Streaming == \E t \in Turns : turn[t] = "streaming"

(* The runtime as a scenario may find it.                                  *)
Runtimes ==
  {r \in [state : Labels \ {"(unknown)"}, attempt : BOOLEAN, container : {"up", "stopped"}] :
     r.attempt => r.state = "disconnected"}

(* The chats drop what their precondition finds, list_remote_runtimes and  *)
(* `let _` connect_remote_runtime: for them the runtime does not matter.   *)
Init ==
  /\ scenario \in Chats \cup Outages
  /\ last = "(unknown)" /\ late = FALSE /\ passed = TRUE /\ verdict = "none"
  /\ current = 1 /\ baseline = 0 /\ phase = 0
  /\ \E r \in Runtimes : state = r.state /\ attempt = r.attempt /\ container = r.container
  /\ lost = FALSE /\ back = FALSE /\ messages = <<>> /\ taperLastErr = FALSE
  /\ \/ /\ scenario = "resilience" /\ pc = "initially"
        /\ turn = [t \in Turns |-> "none"] /\ rows = {} /\ file = "none"
     \/ /\ scenario \in Chats /\ pc = "prepare"
        /\ state = "connected" /\ ~attempt /\ container = "up"
        /\ \E earlier \in {"ended", "streaming"} :
             turn = [t \in Turns |-> IF t = 0 THEN earlier ELSE "none"]
        /\ \E old \in {{}, Texts} : rows = {[text |-> x, phase |-> 0] : x \in old}
        /\ file \in IF scenario = "chat_real" THEN {"none", "old"} ELSE {"none"}

-----------------------------------------------------------------------------
(* Helmor's runtime, while a scenario looks at it.                         *)

Becomes(s) ==
  /\ state' = s
  /\ lost' = (lost \/ (container = "stopped" /\ s # "connected"))
  /\ back' = (back \/ (pc \in {"click", "invoke", "returning"} /\ s = "connected"))

(* The connection is lost: the liveness loop notices, or it just drops.    *)
Lose ==
  /\ state = "connected"
  /\ Becomes("disconnected")
  /\ UNCHANGED <<attempt, container>>

(* Helmor tries again on its own account.                                  *)
Retry ==
  /\ state = "disconnected"
  /\ attempt' = TRUE
  /\ UNCHANGED <<state, container, lost, back>>

(* An attempt ends; only a host that is up can be reached.                 *)
AttemptEnds ==
  /\ attempt /\ attempt' = FALSE
  /\ \/ container = "up" /\ Becomes("connected")
     \/ Becomes("disconnected")
  /\ UNCHANGED container

Helmor ==
  /\ pc \in Outage \cup {"initially"}
  /\ Lose \/ Retry \/ AttemptEnds
  /\ UNCHANGED <<scenario, waitVars, resultVars, promptVars, pageVars>>

-----------------------------------------------------------------------------
(* The page and the agents, while a chat looks at them.                    *)

Streams(t) ==
  /\ turn[t] = "asked"
  /\ turn' = [turn EXCEPT ![t] = "streaming"]
  /\ UNCHANGED <<messages, taperLastErr, rows, file>>

Ends(t) ==
  /\ Alive(t)
  /\ turn' = [turn EXCEPT ![t] = "ended"]
  /\ UNCHANGED <<messages, taperLastErr, rows, file>>

(* The promise of sendPrompt is rejected.                                  *)
Rejects(t) ==
  /\ Alive(t) /\ t # 0
  /\ turn' = [turn EXCEPT ![t] = "ended"]
  /\ taperLastErr' = TRUE
  /\ UNCHANGED <<messages, rows, file>>

(* A message appears, the prompt's own or the agent's, with text or not    *)
(* yet.                                                                    *)
Show ==
  /\ Len(messages) < MaxMessages
  /\ \E text \in BOOLEAN : messages' = Append(messages, text)
  /\ UNCHANGED <<turn, taperLastErr, rows, file>>

Fill(i) ==
  /\ ~messages[i]
  /\ messages' = [messages EXCEPT ![i] = TRUE]
  /\ UNCHANGED <<turn, taperLastErr, rows, file>>

Persist(x) ==
  /\ Cardinality({r \in rows : r.text = x}) < MaxRows
  /\ rows' = rows \cup {[text |-> x, phase |-> phase]}
  /\ UNCHANGED <<turn, messages, taperLastErr, file>>

(* NEW_FILE is written in the container.                                   *)
Create ==
  /\ scenario = "chat_real"
  /\ file' = IF pc = "prepare" THEN "old" ELSE "new"
  /\ UNCHANGED <<turn, messages, taperLastErr, rows>>

Agents ==
  \/ \E t \in Turns : Streams(t) \/ Ends(t) \/ Rejects(t)
  \/ \E i \in 1..Len(messages) : Fill(i)
  \/ /\ \E t \in Turns : Alive(t)
     /\ Show \/ Create \/ \E x \in Texts : Persist(x)

Page ==
  /\ scenario \in Chats /\ pc \notin Outage \cup {"meanwhile", "finish", "over"}
  /\ Agents
  /\ UNCHANGED <<scenario, waitVars, resultVars, promptVars, runtimeVars>>

-----------------------------------------------------------------------------
(* The deadline of the wait under way passes; every timeout of a wait for  *)
(* a state leaves time for a first poll.                                   *)
Tick ==
  /\ ~late
  /\ (pc \in Waits /\ last # "(unknown)") \/ pc \in {"looping", "sleeping"}
  /\ late' = TRUE
  /\ UNCHANGED <<scenario, pc, last, resultVars, promptVars, runtimeVars, pageVars>>
=============================================================================
