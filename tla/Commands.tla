------------------------------ MODULE Commands ------------------------------
(***************************************************************************)
(* The fire-and-poll dance of src/src/commands.rs: a scenario fires a      *)
(* Tauri command from a script in Helmor's page, the command's promise     *)
(* settles a slot object there, and polling scripts read it back until it  *)
(* settled or a deadline passed (`invoke_and_wait`, and `invoke_async`     *)
(* with `poll_until_done` of tape/mod.rs).  Slots are reused: by           *)
(* `Tape::invoke` for every command of a scene, by the feature probe for   *)
(* every invocation of a command, also after one that did not settle.      *)
(*                                                                         *)
(* The scenario is sequential.  The page evaluates scripts one by one in   *)
(* the order sent; a script whose request failed at the client may still   *)
(* be evaluated, its reply goes nowhere (module Bridge).  Time is what the *)
(* two timers of the scenario have left; it may pass at any step.          *)
(***************************************************************************)
EXTENDS Naturals, Sequences

CONSTANTS
  Calls,             \* the invocations of a scenario
  NoCall,            \* the call of an object that was never written
  Slots,             \* slot names
  Timeout,           \* the deadline of a wait, in ticks
  Interval           \* the pause between two polls, in ticks

ASSUME CallsAssumption == NoCall \notin Calls
ASSUME TimesAssumption == Timeout \in Nat /\ Interval \in Nat \ {0}

VARIABLES
  op,                \* what the scenario is doing
  call, slot,        \* the invocation it is at, and its slot
  waits,             \* by invoke_and_wait, not by poll_until_done
  left, nap,         \* ticks until the deadline, until the sleep ends
  answered, heard,   \* whether its request was answered, and the PollResult
  result,            \* how each invocation ended
  answer,            \* the PollResult it ended with
  queue,             \* scripts sent and not yet evaluated
  taper,             \* window.__taper: whose object each slot holds
  object,            \* the object each invocation put there
  promise            \* the command each invocation started

tellVars == <<result, answer>>
pageVars == <<queue, taper, object, promise>>
vars == <<op, call, slot, waits, left, nap, answered, heard, tellVars, pageVars>>

Ops      == {"idle", "firing", "fired", "checking", "polling", "sleeping"}
Results  == {"none", "settled", "unsettled", "failed"}
Promises == {"none", "running", "resolved", "rejected", "absent", "lost"}
Awaiting == {"firing", "polling"}

(* `of` is the command whose outcome the object holds.                     *)
PollResults == [done : BOOLEAN, ok : BOOLEAN, of : Calls \cup {NoCall}]
Scripts     == [what : {"fire", "poll"}, call : Calls, slot : Slots]

NotStarted == [done |-> FALSE, ok |-> FALSE, of |-> NoCall]
Settled(c, ok) == [done |-> TRUE, ok |-> ok, of |-> c]
Script(what, c, s) == [what |-> what, call |-> c, slot |-> s]

Init ==
  /\ op = "idle"
  /\ call = NoCall
  /\ slot \in Slots
  /\ waits = FALSE
  /\ left = 0 /\ nap = 0
  /\ answered = FALSE /\ heard = NotStarted
  /\ result = [c \in Calls |-> "none"]
  /\ answer = [c \in Calls |-> NotStarted]
  /\ queue = <<>>
  /\ taper = [s \in Slots |-> NoCall]
  /\ object = [c \in Calls |-> NotStarted]
  /\ promise = [c \in Calls |-> "none"]

-----------------------------------------------------------------------------
(* The scenario.                                                           *)

(* execute_js: a script leaves, its reply is awaited.                      *)
Execute(script) ==
  /\ queue' = Append(queue, script)
  /\ answered' = FALSE
  /\ UNCHANGED <<heard, taper, object, promise>>

(* The invocation at hand ends.                                            *)
Conclude(how, r) ==
  /\ result' = [result EXCEPT ![call] = how]
  /\ answer' = [answer EXCEPT ![call] = r]
  /\ op' = "idle"

(* invoke_command fires command c on slot s, for invoke_and_wait or for    *)
(* invoke_async.                                                           *)
Invoke(c, s, w) ==
  /\ op = "idle"
  /\ result[c] = "none"
  /\ op' = "firing" /\ call' = c /\ slot' = s /\ waits' = w
  /\ left' = 0 /\ nap' = 0
  /\ Execute(Script("fire", c, s))
  /\ UNCHANGED tellVars

(* Mutant: a fire script that failed is sent again.                        *)
FireAgain ==
  /\ op \in Awaiting
  /\ IF op = "firing" /\ Len(queue) < 2
       THEN op' = op /\ Execute(Script("fire", call, slot)) /\ UNCHANGED tellVars
       ELSE Conclude("failed", NotStarted) /\ UNCHANGED <<answered, heard, pageVars>>
  /\ UNCHANGED <<call, slot, waits, left, nap>>

(* execute_js fails: a timeout, a lost connection, an error of the plugin. *)
(* The `?` ends the invocation.                                            *)
ScriptFails ==
  /\ op \in Awaiting
  /\ Conclude("failed", NotStarted)
  /\ UNCHANGED <<call, slot, waits, left, nap, answered, heard, pageVars>>

(* invoke_command returned; invoke_and_wait sets its deadline at once, the *)
(* caller of invoke_async does other work before it polls.                 *)
Fired ==
  /\ op = "firing" /\ answered
  /\ op' = IF waits THEN "checking" ELSE "fired"
  /\ left' = IF waits THEN Timeout ELSE 0
  /\ UNCHANGED <<call, slot, waits, nap, answered, heard, tellVars, pageVars>>

(* Mutant: the deadline is an interval late.                               *)
PollUntilLater ==
  /\ op = "fired"
  /\ op' = "polling"
  /\ left' = Timeout + Interval
  /\ Execute(Script("poll", call, slot))
  /\ UNCHANGED <<call, slot, waits, nap, tellVars>>

(* poll_until_done begins: its deadline, and its first poll.               *)
PollUntilDone ==
  /\ op = "fired"
  /\ op' = "polling"
  /\ left' = Timeout
  /\ Execute(Script("poll", call, slot))
  /\ UNCHANGED <<call, slot, waits, nap, tellVars>>

(* Mutant: the deadline is checked the wrong way round.                    *)
CheckDeadlineEarly ==
  /\ op = "checking"
  /\ IF left <= Interval
       THEN Conclude("unsettled", NotStarted) /\ UNCHANGED <<answered, heard, pageVars>>
       ELSE Execute(Script("poll", call, slot)) /\ op' = "polling" /\ UNCHANGED tellVars
  /\ UNCHANGED <<call, slot, waits, left, nap>>

(* invoke_and_wait: `while Instant::now() < deadline`.                     *)
CheckDeadline ==
  /\ op = "checking"
  /\ IF left = 0
       THEN Conclude("unsettled", NotStarted) /\ UNCHANGED <<answered, heard, pageVars>>
       ELSE Execute(Script("poll", call, slot)) /\ op' = "polling" /\ UNCHANGED tellVars
  /\ UNCHANGED <<call, slot, waits, left, nap>>

(* Mutant: poll_until_done without its deadline.                           *)
PolledForever ==
  /\ op = "polling" /\ answered
  /\ IF heard.done THEN Conclude("settled", heard) /\ nap' = nap
     ELSE op' = "sleeping" /\ nap' = Interval /\ UNCHANGED tellVars
  /\ UNCHANGED <<call, slot, waits, left, answered, heard, pageVars>>

(* A poll came back.  Not settled: poll_until_done looks at its deadline   *)
(* now, invoke_and_wait sleeps first.                                      *)
Polled ==
  /\ op = "polling" /\ answered
  /\ \/ /\ heard.done
        /\ Conclude("settled", heard) /\ nap' = nap
     \/ /\ ~heard.done /\ ~waits /\ left = 0
        /\ Conclude("unsettled", heard) /\ nap' = nap
     \/ /\ ~heard.done /\ (waits \/ left > 0)
        /\ op' = "sleeping" /\ nap' = Interval /\ UNCHANGED tellVars
  /\ UNCHANGED <<call, slot, waits, left, answered, heard, pageVars>>

(* Mutant: poll_until_done looks at its deadline before it polls again.    *)
WakeChecks ==
  /\ op = "sleeping" /\ nap = 0
  /\ IF waits \/ left = 0
       THEN op' = "checking" /\ UNCHANGED <<answered, heard, pageVars>>
       ELSE op' = "polling" /\ Execute(Script("poll", call, slot))
  /\ UNCHANGED <<call, slot, waits, left, nap, tellVars>>

(* sleep(..).await returns.                                                *)
Wake ==
  /\ op = "sleeping" /\ nap = 0
  /\ IF waits
       THEN op' = "checking" /\ UNCHANGED <<answered, heard, pageVars>>
       ELSE op' = "polling" /\ Execute(Script("poll", call, slot))
  /\ UNCHANGED <<call, slot, waits, left, nap, tellVars>>

(* A tick of the clock.                                                    *)
Tick ==
  /\ op # "idle"
  /\ left > 0 \/ nap > 0
  /\ left' = IF left > 0 THEN left - 1 ELSE 0
  /\ nap' = IF nap > 0 THEN nap - 1 ELSE 0
  /\ UNCHANGED <<op, call, slot, waits, answered, heard, tellVars, pageVars>>

-----------------------------------------------------------------------------
(* The page.                                                               *)

(* Mutant: any reply is taken for the one awaited.                         *)
ReplyToAny(r) ==
  IF op \in Awaiting /\ ~answered
    THEN answered' = TRUE /\ heard' = r
    ELSE UNCHANGED <<answered, heard>>

(* The request that is still awaited is the last one sent.                 *)
Reply(r) ==
  IF op \in Awaiting /\ ~answered /\ Len(queue) = 1
    THEN answered' = TRUE /\ heard' = r
    ELSE UNCHANGED <<answered, heard>>

(* The fire script: a fresh object in the slot, then the command starts -- *)
(* unless the page has no invoke, which settles the object at once.        *)
EvaluateFire ==
  /\ queue # <<>> /\ Head(queue).what = "fire"
  /\ queue' = Tail(queue)
  /\ Reply(NotStarted)
  /\ LET c == Head(queue).call IN
       /\ taper' = [taper EXCEPT ![Head(queue).slot] = c]
       /\ \/ object' = object /\ promise' = [promise EXCEPT ![c] = "running"]
          \/ /\ object' = [object EXCEPT ![c] = Settled(c, FALSE)]
             /\ promise' = [promise EXCEPT ![c] = "absent"]
  /\ UNCHANGED <<op, call, slot, waits, left, nap, tellVars>>

(* The poll script copies the slot's object out of the page.               *)
EvaluatePoll ==
  /\ queue # <<>> /\ Head(queue).what = "poll"
  /\ queue' = Tail(queue)
  /\ LET c == taper[Head(queue).slot] IN
       Reply(IF c = NoCall THEN NotStarted ELSE object[c])
  /\ UNCHANGED <<op, call, slot, waits, left, nap, tellVars, taper, object, promise>>

(* Mutant: the callbacks write to whatever object their slot holds now.    *)
SettleBySlot(c, ok) ==
  /\ promise[c] = "running"
  /\ promise' = [promise EXCEPT ![c] = IF ok THEN "resolved" ELSE "rejected"]
  /\ \E s \in Slots :
       object' = IF taper[s] = NoCall THEN object
                 ELSE [object EXCEPT ![taper[s]] = Settled(c, ok)]
  /\ UNCHANGED <<op, call, slot, waits, left, nap, answered, heard, tellVars, queue, taper>>

(* The command of c ends; its callbacks write to the object they captured. *)
Settle(c, ok) ==
  /\ promise[c] = "running"
  /\ promise' = [promise EXCEPT ![c] = IF ok THEN "resolved" ELSE "rejected"]
  /\ object' = [object EXCEPT ![c] = Settled(c, ok)]
  /\ UNCHANGED <<op, call, slot, waits, left, nap, answered, heard, tellVars, queue, taper>>

(* The page is loaded anew: the slots are gone, and with them the promises *)
(* of the old page.                                                        *)
Reload ==
  /\ taper' = [s \in Slots |-> NoCall]
  /\ promise' = [c \in Calls |-> IF promise[c] = "running" THEN "lost" ELSE promise[c]]
  /\ UNCHANGED <<op, call, slot, waits, left, nap, answered, heard, tellVars, queue, object>>

Idle ==
  /\ op = "idle" /\ queue = <<>>
  /\ \A c \in Calls : result[c] # "none" /\ promise[c] # "running"
  /\ UNCHANGED vars

-----------------------------------------------------------------------------
Advance == Fired \/ PollUntilDone \/ CheckDeadline \/ Polled \/ Wake

Page ==
  \/ EvaluateFire \/ EvaluatePoll \/ Reload
  \/ \E c \in Calls, ok \in BOOLEAN : Settle(c, ok)

Next ==
  \/ \E c \in Calls, s \in Slots, w \in BOOLEAN : Invoke(c, s, w)
  \/ ScriptFails \/ Advance \/ Tick \/ Page \/ Idle

Spec == Init /\ [][Next]_vars

(* The runtime runs the scenario and the clock; Bridge::request returns    *)
(* (module Bridge), here with a reply or an error.  Nothing is assumed of  *)
(* the commands, and nothing of the page but that it answers or not.       *)
FairSpec ==
  /\ Spec
  /\ WF_vars(Advance) /\ WF_vars(Tick)
  /\ WF_vars(ScriptFails \/ EvaluateFire \/ EvaluatePoll)

-----------------------------------------------------------------------------
TypeOK ==
  /\ op \in Ops
  /\ call \in Calls \cup {NoCall} /\ slot \in Slots
  /\ waits \in BOOLEAN
  /\ left \in 0..Timeout /\ nap \in 0..Interval
  /\ answered \in BOOLEAN /\ heard \in PollResults
  /\ result \in [Calls -> Results]
  /\ answer \in [Calls -> PollResults]
  /\ queue \in Seq(Scripts)
  /\ taper \in [Slots -> Calls \cup {NoCall}]
  /\ object \in [Calls -> PollResults]
  /\ promise \in [Calls -> Promises]

(* What a result tells of command c, if it tells anything, is how c ended.  *)
Own(r, c) ==
  r.done =>
    /\ r.of = c
    /\ IF r.ok THEN promise[c] = "resolved" ELSE promise[c] \in {"rejected", "absent"}

(* An invocation reported as settled reports the outcome of its own        *)
(* command, as it ended -- whatever the slot held before, whatever earlier *)
(* invocations on that slot settle meanwhile, whatever scripts of theirs   *)
(* are still on the way.                                                   *)
OwnOutcome ==
  \A c \in Calls : result[c] = "settled" => answer[c].done /\ Own(answer[c], c)

(* The inductive invariant.  That a poll brings the outcome of the command *)
(* it was sent for has to be known of every object, then of the slot the   *)
(* poll reads, then of what the scenario heard.                            *)

ObjectsOwn == \A c \in Calls : Own(object[c], c)

(* The scenario is at one invocation, which has not ended.                 *)
AtWork == op # "idle" => call \in Calls /\ result[call] = "none"

(* The invocation the scenario is at.                                      *)
Open(c) == op # "idle" /\ call = c

(* An invocation still to come has left nothing in the page or on the way. *)
ToCome(c) == result[c] = "none" /\ ~Open(c)
Fresh ==
  \A c \in Calls :
    ToCome(c) => promise[c] = "none" /\ \A i \in DOMAIN queue : queue[i].call # c

(* A command is started once: by the one script that fires it.             *)
FiredOnce ==
  \A i \in DOMAIN queue :
    queue[i].what = "fire" =>
      /\ promise[queue[i].call] = "none"
      /\ \A j \in DOMAIN queue :
           queue[j].what = "fire" /\ queue[j].call = queue[i].call => j = i

(* The script awaited is the last one sent, and the only one once the      *)
(* command was fired.                                                      *)
InTurn ==
  /\ op = "firing" /\ ~answered =>
       queue # <<>> /\ queue[Len(queue)] = Script("fire", call, slot)
  /\ op = "polling" /\ ~answered => queue = <<Script("poll", call, slot)>>
  /\ op \in {"fired", "checking", "sleeping"} \/ (op \in Awaiting /\ answered) => queue = <<>>

(* From then on the command was started, and the slot holds its own        *)
(* object, or nothing.                                                     *)
SlotOwned ==
  op \notin {"idle", "firing"} \/ (op = "firing" /\ answered) =>
    promise[call] # "none" /\ taper[slot] \in {call, NoCall}

HeardOwn == op = "polling" /\ answered => Own(heard, call)

(* An invocation is given up only once its command was started.            *)
GivenUpStarted == \A c \in Calls : result[c] = "unsettled" => promise[c] # "none"

IInv ==
  /\ TypeOK /\ AtWork /\ Fresh /\ FiredOnce
  /\ InTurn /\ SlotOwned /\ ObjectsOwn /\ HeardOwn /\ OwnOutcome /\ GivenUpStarted

(* The dance keeps the promise of RemoteCommand: a command starts once,    *)
(* after it was invoked and never after its invocation was told anything   *)
(* but a failed request; what is told of it is how it ended, or that a     *)
(* command which did start has not settled.                                *)
Told == [c \in Calls |->
  CASE Open(c) -> "open"
    [] ~Open(c) /\ result[c] = "settled" -> IF answer[c].ok THEN "ok" ELSE "err"
    [] OTHER -> result[c]]
RC == INSTANCE RemoteCommand WITH told <- Told, fate <- promise
Implements == RC!Spec

(* Nobody is told that a command did not settle before the deadline: the   *)
(* time is up, and a done object is never passed over.                     *)
NotBeforeDeadline ==
  [][\A c \in Calls :
       result[c] = "none" /\ result'[c] = "unsettled" => left = 0 /\ ~answer'[c].done]_vars

(* A scenario is done with each invocation after finitely many polls.      *)
InvocationReturns == (op # "idle") ~> (op = "idle")

(* Why it does, as far as steps can say it: the sleeps that may still      *)
(* begin before the deadline ends the wait, and in each round of them what *)
(* is still to do.                                                         *)
Beyond(n) == IF left > n THEN left - n ELSE 0

Sleeps ==
  CASE op \in {"firing", "fired"} -> Timeout
    [] op = "checking" -> left
    [] op = "polling"  -> IF waits \/ left > 0 THEN Beyond(Interval) + 1 ELSE 0
    [] op = "sleeping" -> Beyond(nap)
    [] op = "idle"     -> 0

Stage ==
  CASE op = "firing"   -> 5 + Len(queue)
    [] op = "fired"    -> 4
    [] op = "checking" -> 3
    [] op = "polling"  -> 1 + Len(queue)
    [] op = "sleeping" -> 4 + nap
    [] op = "idle"     -> 0

Rank == Sleeps * (Interval + 4) + Stage

(* It sleeps between polls only, and invoke_async leaves the polling to    *)
(* poll_until_done.                                                        *)
Awake == (nap > 0 => op = "sleeping") /\ (op = "fired" => ~waits)

(* While an invocation lasts, each of its moves, each evaluation of a      *)
(* script and each tick of its sleep brings it nearer to its end, and      *)
(* nothing that happens puts it back.                                      *)
EveryMoveCounts ==
  [][op # "idle" =>
       /\ Rank' <= Rank
       /\ <<op, queue, answered, nap>>' # <<op, queue, answered, nap>> => Rank' < Rank]_vars

(* What became of command c is there to be read.                           *)
Readable(c) == c = call /\ taper[slot] = c /\ object[c].done

(* The scenario learned it, or could not: a request failed, the page was   *)
(* loaded anew.                                                            *)
Learned(c) == result[c] \in {"settled", "failed"} \/ taper[slot] # c

(* poll_until_done does not miss a command that settled before its last    *)
(* sleep ended, even when that sleep outlasts the deadline.                *)
UntilReports ==
  \A c \in Calls : (~waits /\ op \in {"fired", "sleeping"} /\ Readable(c)) ~> Learned(c)
=============================================================================
