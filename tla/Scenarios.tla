------------------------------ MODULE Scenarios ------------------------------
(***************************************************************************)
(* The four scenarios as whole runs, from their first command to their     *)
(* verdict.  end_to_end_demo goes through the chat and then the outage.    *)
(***************************************************************************)
EXTENDS Chats, Resilience

(* The run looks at page and agents no more.                               *)
Forget ==
  /\ turn' = [t \in Turns |-> "none"] /\ messages' = <<>> /\ taperLastErr' = FALSE
  /\ UNCHANGED <<rows, file>>

(* The demo after its last prompt.  What became of the runtime since its   *)
(* precondition it did not watch.                                          *)
Meanwhile ==
  /\ pc = "meanwhile"
  /\ \E r \in Runtimes :
       state' = r.state /\ attempt' = r.attempt /\ container' = r.container
  /\ lost' = FALSE /\ back' = FALSE
  /\ Forget
  /\ pc' = "stop"
  /\ UNCHANGED <<scenario, last, late, resultVars, promptVars>>

Finish ==
  /\ pc = "finish"
  /\ verdict' = IF passed THEN "pass" ELSE "fail"
  /\ pc' = "over" /\ Forget
  /\ UNCHANGED <<scenario, last, late, passed, promptVars, runtimeVars>>

(* A `?`: a script, a command, docker, sqlite3 or the recorder fails.      *)
Fails ==
  /\ pc \notin {"sleeping", "over"}
  /\ verdict' = "error"
  /\ pc' = "over" /\ baseline' = 0 /\ late' = FALSE /\ Forget
  /\ UNCHANGED <<scenario, last, passed, current, phase, runtimeVars>>

Run == Chat \/ Meanwhile \/ Outside \/ Finish

Over == pc = "over" /\ UNCHANGED vars

Next == Run \/ Fails \/ Helmor \/ Page \/ Tick \/ Over

Spec == Init /\ [][Next]_vars

(* Every command is answered or fails (modules Bridge and Commands),       *)
(* timers fire, time passes.  Nothing is assumed of Helmor, the container, *)
(* the page and the agents.  A runtime that Helmor does not know rejects   *)
(* the reconnection.                                                       *)
FairSpec ==
  /\ Spec /\ WF_vars(Tick)
  /\ WF_vars(Run \/ (Fails /\ pc \in {"reconnect", "invoke"}))

-----------------------------------------------------------------------------
Row == [text : Nat, phase : Nat]

TypeOK ==
  /\ scenario \in Chats \cup Outages /\ pc \in Steps
  /\ last \in Labels /\ late \in BOOLEAN
  /\ passed \in BOOLEAN /\ verdict \in {"none", "pass", "fail", "error"}
  /\ current \in Nat \ {0} /\ baseline \in Nat /\ phase \in Nat
  /\ state \in Labels \ {"(unknown)"} /\ attempt \in BOOLEAN
  /\ container \in {"up", "stopped"}
  /\ lost \in BOOLEAN /\ back \in BOOLEAN
  /\ turn \in [Turns -> Activities]
  /\ messages \in Seq(BOOLEAN) /\ taperLastErr \in BOOLEAN
  /\ rows \subseteq Row /\ file \in {"none", "old", "new"}

(* A chat that passes has, for every prompt, a row that was there when the *)
(* prompt was judged and is no older than the run; in isolation_proof no   *)
(* older than the prompt.  The file chat_real_on_remote finds was written  *)
(* after the run removed it.  Nothing an earlier run left behind, and in   *)
(* isolation_proof nothing an earlier prompt left, can stand in for it.    *)
Evidence(p) ==
  \E r \in rows : /\ r.text = p /\ r.phase <= 2 * p
                  /\ r.phase >= IF Stamped THEN 2 * p ELSE 1

FreshEvidence ==
  verdict = "pass" /\ scenario \in Chats =>
    /\ \A p \in ByRows : Evidence(p)
    /\ scenario = "chat_real" => file = "new"

(* isolation_proof that passes: the laptop's name, if it is long enough to *)
(* be looked for, was not written while the first prompt was under way, by *)
(* any turn.                                                               *)
Unseen == ~\E r \in rows : r.text = Laptop /\ r.phase = 2

LaptopUnseen == verdict = "pass" /\ Stamped /\ Named => Unseen

(* A run of resilience that passes tells of an outage and a recovery that  *)
(* happened: the runtime was not connected while the container was         *)
(* stopped, was connected after it was started, and the container is up.   *)
PassMeansRecovery ==
  verdict = "pass" /\ Asserted => lost /\ back /\ container = "up"

(* A run that comes to a verdict, whichever, leaves the container up; only *)
(* one that ends in an error may leave it stopped.                         *)
VerdictRestores == verdict \in {"pass", "fail"} => container = "up"

-----------------------------------------------------------------------------
(* What makes them inductive: the clock follows the prompts, no row is     *)
(* ahead of it or older than the wipe, what holds at the end holds of the  *)
(* prompts judged, and the labels a wait has seen are backed by history.   *)
Clock ==
  /\ pc \in {"prepare", "wipe"} => current = 1 /\ phase = 0
  /\ pc \in {"reload", "showcase"} => current = 1 /\ phase = 1
  /\ pc = "stamp" \/ (pc = "baseline" /\ ~Stamped) => phase = 2 * current - 1
  /\ pc = "baseline" /\ Stamped => phase = 2 * current
  /\ pc \in Prompting \ {"baseline"} => phase = 2 * current
  /\ pc \in {"stamp"} \cup Prompting => current <= N[scenario]
  /\ pc \in Outage \cup {"meanwhile", "finish"} /\ scenario \in Chats =>
       current = N[scenario] + 1 /\ phase = 2 * current - 1

Table ==
  /\ \A r \in rows : r.phase <= phase
  /\ phase # 0 => \A r \in rows : r.phase # 0
  /\ phase # 0 => file # "old"
  /\ pc = "wipe" => file # "old"

Judged ==
  passed /\ scenario \in Chats =>
    /\ \A p \in ByRows : p < current => Evidence(p)
    /\ scenario = "chat_real" /\ N[scenario] < current => file = "new"
    /\ Stamped /\ Named /\ 1 < current => Unseen

Place ==
  /\ scenario = "resilience" => pc \in Outage \cup {"initially", "finish", "over"}
  /\ scenario \in Chats => pc \notin {"initially", "reconnect", "reconnecting", "panel"}
  /\ pc \in Outage => scenario \in Outages
  /\ pc \in {"gone", "returned"} => Asserted
  /\ pc = "stamp" => Stamped
  /\ pc \in {"showcase", "meanwhile"} => scenario = "end_to_end"

Story ==
  /\ pc \notin Outage \cup {"initially", "over"} => container = "up"
  /\ pc \in {"click", "invoke", "returning", "returned"} => container = "up"
  /\ pc = "going" => /\ container = "stopped"
                     /\ state # "connected" => lost
                     /\ late => last # "(unknown)"
  /\ pc \in {"going", "gone"} => last \in {"connected", "(unknown)"} \/ lost
  /\ pc = "gone" => last # "(unknown)"
  /\ /\ pc \in {"banner", "revive", "click", "invoke", "returning", "returned", "finish"}
     /\ Asserted /\ passed
     => lost
  /\ pc \in {"click", "invoke", "returning"} /\ state = "connected" => back
  /\ pc \in {"returning", "returned"} /\ last = "connected" => back
  /\ pc = "finish" /\ Asserted /\ passed => back

Verdict ==
  /\ pc # "over" => verdict = "none"
  /\ verdict = "pass" /\ scenario \in Chats => passed /\ current = N[scenario] + 1
  /\ PassMeansRecovery /\ VerdictRestores

IInv == TypeOK /\ Clock /\ Table /\ Judged /\ Place /\ Story /\ Verdict

(* The run ends, whatever Helmor, page and agents do.                      *)
RunEnds == <>(pc = "over")

(* isolation_proof.rs:13-14: "Cross-cutting assertion: the laptop's        *)
(* hostname doesn't appear anywhere in the captured session_messages."     *)
LaptopNowhere ==
  verdict = "pass" /\ Stamped /\ Named => ~\E r \in rows : r.text = Laptop
=============================================================================
