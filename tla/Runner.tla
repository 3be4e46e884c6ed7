-------------------------------- MODULE Runner --------------------------------
(***************************************************************************)
(* src/scripts/record-remote-runner.sh: it brings the container up, writes *)
(* the ssh-config block, asks the daemon and the bridge, runs `taper       *)
(* scenario remote-runner` (module Tape), whose exit code it only shows,   *)
(* and writes the README of the bundle, with the verdict it reads in       *)
(* result.json.  The bundle's directory is that of earlier runs.           *)
(***************************************************************************)
EXTENDS Tape, Functions

VARIABLES
  step,              \* where the script is
  readme             \* the verdict in the README of the bundle: "earlier"
                     \* until this run writes it

vars == <<step, readme, tvars>>

(* The steps before the scenario, in their order.  `set -e` ends the       *)
(* script when one fails, but for the wait for a healthy container: past   *)
(* its 60 tries the script goes on.                                        *)
Preflights == <<"build", "compose", "health", "config", "daemon", "ping">>

Steps    == Range(Preflights) \cup {"taper", "bundle", "done", "stopped"}
Verdicts == {"earlier", "PASS", "FAIL", "?", ""}

Init ==
  /\ TapeInit
  /\ step = "build"
  /\ readme = "earlier"

-----------------------------------------------------------------------------
Preflight ==
  \E i \in DOMAIN Preflights :
    /\ step = Preflights[i]
    /\ \/ step' = IF i < Len(Preflights) THEN Preflights[i + 1] ELSE "taper"
       \/ step # "health" /\ step' = "stopped"
    /\ UNCHANGED <<readme, tvars>>

Taper ==
  /\ step = "taper"
  /\ TapeNext
  /\ UNCHANGED <<step, readme>>

(* `set +e`: whatever the scenario's exit code, the script goes on.        *)
ScenarioEnds ==
  /\ step = "taper" /\ stage = "over"
  /\ step' = "bundle"
  /\ UNCHANGED <<readme, tvars>>

(* Mutant: `jq -e '.passed != false'`: what cannot be read has passed.     *)
PassUnlessFailed == IF result.passed \/ result.kind = "broken" THEN {"PASS"} ELSE {"FAIL"}

(* jq's answer: none for an empty file, an error for half a one or none,   *)
(* and there may be no jq.                                                 *)
Reading ==
  CASE result.kind = "broken" -> {"", "?"}
    [] result.kind = "absent" -> {"?"}
    [] OTHER -> {IF result.passed THEN "PASS" ELSE "FAIL", "?"}

(* The README is written, and that may fail.                               *)
WriteReadme ==
  /\ step = "bundle"
  /\ \/ step' = "done" /\ readme' \in Reading
     \/ step' = "stopped" /\ readme' \in {readme, ""}
  /\ UNCHANGED tvars

(* A shim that a killed scenario left behind goes on.                      *)
ShimGoesOn ==
  /\ step \in {"bundle", "done", "stopped"}
  /\ \E p \in Pids : ShimStep(p)
  /\ UNCHANGED <<step, readme>>

RunnerOver == step \in {"done", "stopped"} /\ UNCHANGED vars

Next ==
  Preflight \/ Taper \/ ScenarioEnds \/ WriteReadme \/ ShimGoesOn \/ RunnerOver

Spec == Init /\ [][Next]_vars

(* The script runs; the scenario as module Tape says.                      *)
FairSpec ==
  /\ Spec
  /\ WF_vars(Preflight \/ ScenarioEnds \/ WriteReadme)
  /\ TapeFairness

-----------------------------------------------------------------------------
TypeOK ==
  /\ TapeTypeOK
  /\ step \in Steps /\ readme \in Verdicts

(* The verdict of a bundle's README and the exit code the script drops     *)
(* part only where result.json and the exit code do: a README says PASS    *)
(* over a run that did not exit with 0 only if result.json is an earlier   *)
(* run's, because the scenario ended before it wrote its own, or if the    *)
(* run was killed, or its recording failed, after it wrote it.  A run that *)
(* exits with 0 has its own result.json, and its README never says FAIL.   *)
VerdictsAgree ==
  step = "done" =>
    /\ readme = "PASS" /\ exit # "0" =>
         result.kind = "old" \/ (result.kind = "this" /\ (Recorded \/ exit = "killed"))
    /\ exit = "0" => result.kind = "this" /\ readme # "FAIL"

(* The inductive invariant.  That an exit leaves no shim behind and that   *)
(* its files are those of the run has to be known of every stage before.   *)

(* A shim that runs or waits to be reaped is the recorder's child, and the *)
(* file it has begun is its own.                                           *)
OneChild ==
  /\ child # NoPid => proc[child] \in Alive \cup Dead
  /\ \A p \in Pids : proc[p] \in {"unborn", "reaped"} \/ child = p
  /\ \A p \in Pids : proc[p] \in {"recording", "exited"} => mov.by = p

Media ==
  Recorded =>
    /\ mov.by # NoPid
    /\ post => mov.state = "whole" /\ mp4 = mov /\ gif = mov

(* Where a run stands with its recorder and the files of its recording.    *)
StageRecorder ==
  /\ stage = "connecting" => ~continuous
  /\ stage \in {"connecting", "driving", "written"} /\ ~continuous => child = NoPid /\ ~Recorded
  /\ stage \in {"driving", "written"} /\ continuous => Recorded
  /\ stage = "waiting" => child # NoPid
  /\ stage \in {"waiting", "recorded", "remuxed"} => Recorded
  /\ stage \in {"recorded", "remuxed", "finished"} => child = NoPid
  /\ stage \in {"recorded", "remuxed"} => mov.by # NoPid
  /\ stage = "remuxed" => mov.state = "whole" /\ mp4 = mov
  /\ stage = "finished" => Media
  /\ exit \in {"0", "1"} => child = NoPid
  /\ stage = "over" <=> exit # "none"

(* Whose result.json there is, and whose verdict.                          *)
StageResult ==
  /\ result.passed => result.kind \in {"this", "old"}
  /\ stage \in {"connecting", "driving"} => result.kind \in {"absent", "old"}
  /\ stage \in {"written", "waiting", "recorded", "remuxed", "finished"} =>
       result = Summary(AllPassed)
  /\ stage = "failing" /\ result.kind = "this" => Recorded
  /\ exit = "0" => result = Summary(TRUE) /\ AllPassed /\ Media
  /\ exit = "1" /\ result.passed /\ result.kind = "this" => Recorded

(* What the script knows of the scenario.                                  *)
StepReadme ==
  /\ step \in {"bundle", "done"} => stage = "over"
  /\ step = "done" /\ readme = "PASS" => result.passed
  /\ step = "done" /\ readme = "FAIL" => ~result.passed

IInv == TypeOK /\ OneChild /\ StageRecorder /\ StageResult /\ StepReadme

(* A scenario that got as far as finish ends, and the script with it,      *)
(* whatever the shim and its recording do.  screencapturekit.rs:116-117:   *)
(* "Capture stderr concurrently so a chatty shim doesn't block the kernel  *)
(* pipe buffer and starve the process".                                    *)
FinishReturns == (stage = "written") ~> (step \in {"done", "stopped"})

(* Why it does, as far as steps can say it: what is left to do from finish *)
(* on, for the shim and the thread that reads it, the scenario, the script.*)
Begun == step \in Range(Preflights) => stage = "connecting"

ShimWork ==
  IF child = NoPid THEN 0
  ELSE 2 * unsaid[child] + pipe[child] + (CASE proc[child] = "starting" -> 2
                                            [] proc[child] = "recording" -> 1
                                            [] OTHER -> 0)

StageWork ==
  CASE stage = "written"  -> 7
    [] stage = "waiting"  -> IF drained THEN 5 ELSE 6
    [] stage = "recorded" -> 4
    [] stage = "remuxed"  -> 3
    [] stage = "finished" -> 2
    [] stage = "failing"  -> 1
    [] OTHER              -> 0

ScriptWork == CASE step = "taper" -> 2 [] step = "bundle" -> 1 [] OTHER -> 0

Work == ShimWork + StageWork + ScriptWork

(* From finish, or a failure, on every step of anybody is one less to go.  *)
EveryStepCounts == [][stage \notin {"connecting", "driving"} => Work' < Work]_vars
=============================================================================
