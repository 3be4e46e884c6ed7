-------------------------------- MODULE Tape --------------------------------
(***************************************************************************)
(* One run of `taper scenario <name>`: the Tape of src/src/tape/mod.rs     *)
(* that collects assertions and beats while it records, its `finish`,      *)
(* which writes result.json and then turns the recording into .mp4 and     *)
(* .gif, and the exit of src/src/bin/taper.rs.  Every step that can fail   *)
(* ends the run through `?`, which drops the tape and with it the          *)
(* recorder (module Recorder).                                             *)
(*                                                                         *)
(* What a scenario does is left open: any assertions, scenes, recordings   *)
(* and failing commands in any order.  An assertion is its outcome, a beat *)
(* its time.  The output directory may hold the files of an earlier run.   *)
(***************************************************************************)
EXTENDS Recorder, Sequences

CONSTANTS
  Duration,          \* of the recording, in ticks
  MaxTime,           \* bound: ticks of a recorded run
  MaxAsserts,        \* bound: assertions of a run
  MaxScenes          \* bound: scenes of a run

ASSUME TapeAssumption ==
  /\ Duration \in Nat /\ MaxTime \in Nat
  /\ MaxAsserts \in Nat /\ MaxScenes \in Nat

VARIABLES
  stage,             \* where the run is
  post,              \* whether post-processing is configured
  continuous,        \* whether `continuous` holds a recording
  elapsed,           \* ticks since start_recording
  assertions, beats, \* of the tape
  sceneIdx,
  result,            \* result.json
  mp4, gif,          \* the converted files
  exit               \* how the process ended

tapeVars == <<stage, post, continuous, elapsed, assertions, beats, sceneIdx>>
outVars  == <<result, mp4, gif, exit>>
tvars    == <<recorderVars, tapeVars, outVars>>

Stages == {"connecting", "driving", "written", "waiting", "recorded", "remuxed",
           "finished", "failing", "over"}

(* result.json of this run; of an earlier run, cut short, or missing.      *)
Summary(ok) ==
  [kind |-> "this", passed |-> ok, assertions |-> assertions, beats |-> beats]
NoSummary(kind) ==
  [kind |-> kind, passed |-> FALSE, assertions |-> <<>>, beats |-> <<>>]
OldPass == [NoSummary("old") EXCEPT !.passed = TRUE]

Absent == [by |-> NoPid, state |-> "absent"]
Old    == [by |-> NoPid, state |-> "old"]

AllPassed == \A i \in 1..Len(assertions) : assertions[i]

TapeInit ==
  /\ RecorderInit
  /\ stage = "connecting"
  /\ post \in BOOLEAN
  /\ continuous = FALSE
  /\ elapsed = 0
  /\ assertions = <<>> /\ beats = <<>>
  /\ sceneIdx = 0
  /\ result \in {NoSummary("absent"), NoSummary("old"), OldPass}
  /\ mp4 \in {Absent, Old} /\ gif \in {Absent, Old}
  /\ exit = "none"

-----------------------------------------------------------------------------
(* The scenario.                                                           *)

(* TapeBuilder::build: the bridge is there, or it is not.                  *)
Build ==
  /\ stage = "connecting"
  /\ stage' \in {"driving", "failing"}
  /\ UNCHANGED <<recorderVars, post, continuous, elapsed, assertions, beats, sceneIdx, outVars>>

Assert(ok) ==
  /\ stage = "driving" /\ Len(assertions) < MaxAsserts
  /\ assertions' = Append(assertions, ok)
  /\ UNCHANGED <<recorderVars, stage, post, continuous, elapsed, beats, sceneIdx, outVars>>

(* A command of the scenario fails, its `?` ends the run.                  *)
CommandFails ==
  /\ stage = "driving"
  /\ stage' = "failing"
  /\ UNCHANGED <<recorderVars, post, continuous, elapsed, assertions, beats, sceneIdx, outVars>>

(* start_recording: the recorder starts.                                   *)
StartRecording(p) ==
  /\ stage = "driving" /\ ~continuous
  /\ Spawn(p)
  /\ continuous' = TRUE
  /\ elapsed' = 0
  /\ UNCHANGED <<stage, post, assertions, beats, sceneIdx, outVars>>

(* start_recording fails: one is under way, no out_dir, no shim.           *)
StartFails ==
  /\ stage = "driving"
  /\ \/ UNCHANGED recorderVars
     \/ ~continuous /\ SpawnFails
  /\ stage' = "failing"
  /\ UNCHANGED <<post, continuous, elapsed, assertions, beats, sceneIdx, outVars>>

(* scene: a beat while recording, else only the scene counter.             *)
Scene ==
  /\ stage = "driving" /\ Len(beats) + sceneIdx < MaxScenes
  /\ IF continuous
       THEN beats' = Append(beats, elapsed) /\ sceneIdx' = sceneIdx
       ELSE sceneIdx' = sceneIdx + 1 /\ beats' = beats
  /\ UNCHANGED <<recorderVars, stage, post, continuous, elapsed, assertions, outVars>>

(* The scenario takes its time.                                            *)
Tick ==
  /\ stage = "driving" /\ continuous
  /\ elapsed < MaxTime
  /\ elapsed' = elapsed + 1
  /\ UNCHANGED <<recorderVars, stage, post, continuous, assertions, beats, sceneIdx, outVars>>

-----------------------------------------------------------------------------
(* finish, and the exit.                                                   *)

(* Mutant: one passed assertion is enough.                                 *)
AnyPassed == \E i \in 1..Len(assertions) : assertions[i]

WriteAnyResult ==
  /\ stage = "driving"
  /\ \/ result' = Summary(AnyPassed) /\ stage' = "written"
     \/ result' \in {result, NoSummary("broken")} /\ stage' = "failing"
  /\ UNCHANGED <<recorderVars, post, continuous, elapsed, assertions, beats, sceneIdx,
                 mp4, gif, exit>>

(* The summary is made and written; create_dir_all or the write may fail,  *)
(* the latter after it truncated the file.                                 *)
WriteResult ==
  /\ stage = "driving"
  /\ \/ result' = Summary(AllPassed) /\ stage' = "written"
     \/ result' \in {result, NoSummary("broken")} /\ stage' = "failing"
  /\ UNCHANGED <<recorderVars, post, continuous, elapsed, assertions, beats, sceneIdx,
                 mp4, gif, exit>>

(* `continuous.take()`: without a recording finish is done, else it blocks *)
(* in wait_for_finish.                                                     *)
TakeRecording ==
  /\ stage = "written"
  /\ continuous' = FALSE
  /\ IF continuous
       THEN WaitBegins /\ stage' = "waiting"
       ELSE UNCHANGED recorderVars /\ stage' = "finished"
  /\ UNCHANGED <<post, elapsed, assertions, beats, sceneIdx, outVars>>

(* The thread that drains the shim's stderr.                               *)
Listen ==
  /\ stage = "waiting"
  /\ Drain \/ DrainEnds
  /\ UNCHANGED <<tapeVars, outVars>>

(* wait_for_finish returns.                                                *)
RecordingEnds ==
  /\ stage = "waiting"
  /\ WaitEnds
  /\ stage' = IF said' = "ok" THEN "recorded" ELSE "failing"
  /\ UNCHANGED <<post, continuous, elapsed, assertions, beats, sceneIdx, outVars>>

(* A converter succeeds on a whole file only; it may leave nothing, half a *)
(* file or, when it cannot even start, the old one.                        *)
Converted(from, to, to1, next) ==
  \/ from.state = "whole" /\ to1 = from /\ stage' = next
  \/ to1 \in {to, Absent, [from EXCEPT !.state = "partial"]} /\ stage' = "failing"

(* convert_mov_to_mp4, if post-processing is configured.                   *)
Remux ==
  /\ stage = "recorded"
  /\ IF post THEN Converted(mov, mp4, mp4', "remuxed")
     ELSE stage' = "finished" /\ mp4' = mp4
  /\ UNCHANGED <<recorderVars, post, continuous, elapsed, assertions, beats, sceneIdx,
                 result, gif, exit>>

(* Mutant: a failed conversion is only logged.                             *)
GifLogged ==
  /\ stage = "remuxed"
  /\ gif' \in {mp4, gif, Absent}
  /\ stage' = "finished"
  /\ UNCHANGED <<recorderVars, post, continuous, elapsed, assertions, beats, sceneIdx,
                 result, mp4, exit>>

(* convert_mp4_to_gif.                                                     *)
MakeGif ==
  /\ stage = "remuxed"
  /\ Converted(mp4, gif, gif', "finished")
  /\ UNCHANGED <<recorderVars, post, continuous, elapsed, assertions, beats, sceneIdx,
                 result, mp4, exit>>

(* Mutant: the verdict of finish is not looked at.                         *)
LeaveWell ==
  /\ stage = "finished"
  /\ stage' = "over"
  /\ Drop /\ exit' = "0"
  /\ UNCHANGED <<post, continuous, elapsed, assertions, beats, sceneIdx, result, mp4, gif>>

(* run_scenario has finish's verdict, the one in result.json.  Ok(())      *)
(* drops the tape; process::exit(1) drops nothing.                         *)
Leave ==
  /\ stage = "finished"
  /\ stage' = "over"
  /\ IF result.passed THEN Drop /\ exit' = "0" ELSE UNCHANGED recorderVars /\ exit' = "1"
  /\ UNCHANGED <<post, continuous, elapsed, assertions, beats, sceneIdx, result, mp4, gif>>

(* Mutant: process::exit(1) on an error too.                               *)
BailAtOnce ==
  /\ stage = "failing"
  /\ stage' = "over" /\ exit' = "1"
  /\ UNCHANGED <<recorderVars, post, continuous, elapsed, assertions, beats, sceneIdx,
                 result, mp4, gif>>

(* The error leaves run_scenario, the tape is dropped, main exits with 1.  *)
Bail ==
  /\ stage = "failing"
  /\ Drop
  /\ stage' = "over" /\ exit' = "1"
  /\ UNCHANGED <<post, continuous, elapsed, assertions, beats, sceneIdx, result, mp4, gif>>

(* The process is killed: no Drop, and a recording goes on without it.     *)
Killed ==
  /\ stage # "over"
  /\ stage' = "over" /\ exit' = "killed"
  /\ UNCHANGED <<recorderVars, post, continuous, elapsed, assertions, beats, sceneIdx,
                 result, mp4, gif>>

(* The shim runs beside; its recording lasts for Duration.                 *)
ShimStep(p) ==
  /\ ShimSpeaks(p) \/ ShimOpens(p) \/ ShimFails(p)
     \/ (ShimExits(p) /\ (elapsed >= Duration \/ stage # "driving"))
  /\ UNCHANGED <<tapeVars, outVars>>

-----------------------------------------------------------------------------
Scenario ==
  \/ CommandFails \/ StartFails \/ Scene \/ Tick
  \/ \E ok \in BOOLEAN : Assert(ok)
  \/ \E p \in Pids : StartRecording(p)

Finish ==
  TakeRecording \/ Listen \/ RecordingEnds \/ Remux \/ MakeGif \/ Leave \/ Bail

TapeNext ==
  \/ Build \/ Scenario \/ WriteResult \/ Finish \/ Killed
  \/ \E p \in Pids : ShimStep(p)

(* The process and the shim run; nothing is assumed of the scenario.       *)
TapeFairness ==
  /\ WF_tvars(Finish)
  /\ \A p \in Pids : WF_tvars(ShimStep(p))

-----------------------------------------------------------------------------
Summaries ==
  [kind : {"this", "old", "absent", "broken"}, passed : BOOLEAN,
   assertions : Seq(BOOLEAN), beats : Seq(0..MaxTime)]

TapeTypeOK ==
  /\ RecorderTypeOK
  /\ stage \in Stages
  /\ post \in BOOLEAN /\ continuous \in BOOLEAN
  /\ elapsed \in 0..MaxTime
  /\ assertions \in Seq(BOOLEAN)
  /\ beats \in Seq(0..MaxTime)
  /\ sceneIdx \in 0..MaxScenes
  /\ result \in Summaries
  /\ mp4 \in Files /\ gif \in Files
  /\ exit \in {"none", "0", "1", "killed"}

(* A run that ends by itself leaves no recorder behind: neither when a     *)
(* command fails while it records, nor when finish fails half way, nor on  *)
(* process::exit(1), which runs no Drop.                                   *)
NoOrphan == exit \in {"0", "1"} => \A p \in Pids : proc[p] \in {"unborn", "reaped"}

Recorded == \E p \in Pids : proc[p] # "unborn"

(* The file wait_for_finish reported as recorded was written by the shim   *)
(* it waited for, never by an earlier run.                                 *)
RecordedIsOurs ==
  [][\A p \in Pids :
       life = "waiting" /\ child = p /\ life' = "free" /\ said' = "ok" => mov'.by = p]_tvars

(* Exit code 0 means what it says: result.json is this run's and lists     *)
(* every assertion made and every beat, all assertions passed, and what    *)
(* was recorded is there as .mov, .mp4 and .gif, none of them left over    *)
(* from an earlier run.                                                    *)
ExitHonest ==
  exit = "0" =>
    /\ result = Summary(TRUE) /\ AllPassed
    /\ Recorded =>
         /\ mov.by # NoPid
         /\ post => mov.state = "whole" /\ mp4 = mov /\ gif = mov
=============================================================================
