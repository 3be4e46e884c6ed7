---------------------------- MODULE RunnerProofs ----------------------------
(***************************************************************************)
(* Proofs about Runner, and the Tape and the Recorder it runs, for every   *)
(* set of processes, every pipe and chatter, and without the bounds of     *)
(* the runs.                                                               *)
(***************************************************************************)
EXTENDS Runner, SequenceTheorems, TLAPS

USE PidsAssumption, PipeAssumption, TapeAssumption

-----------------------------------------------------------------------------
(* result.json and its verdict.                                            *)

LEMMA SummaryType ==
  ASSUME TypeOK, NEW ok \in BOOLEAN
  PROVE  /\ Summary(ok) \in Summaries
         /\ Summary(ok).kind = "this" /\ Summary(ok).passed = ok
  BY DEF TypeOK, TapeTypeOK, Summary, Summaries

LEMMA NoSummaryType ==
  ASSUME NEW kind \in {"old", "absent", "broken"}
  PROVE  /\ NoSummary(kind) \in Summaries
         /\ NoSummary(kind).kind = kind /\ ~NoSummary(kind).passed
<1>1. <<>> \in Seq(BOOLEAN) /\ <<>> \in Seq(0..MaxTime)
  OBVIOUS
<1> QED
  BY <1>1 DEF NoSummary, Summaries

LEMMA InitIInv == Init => IInv
<1> SUFFICES ASSUME Init PROVE IInv
  OBVIOUS
<1>1. TapeInit /\ RecorderInit /\ step = "build" /\ readme = "earlier"
  BY DEF Init, TapeInit
<1>2. OldPass \in Summaries /\ OldPass.kind = "old"
  BY NoSummaryType DEF OldPass, NoSummary, Summaries
<1>3. RecorderTypeOK
  <2>1. /\ child \in Pids \cup {NoPid} /\ life \in {"free", "waiting", "dropped"}
        /\ proc \in [Pids -> Processes] /\ unsaid \in [Pids -> 0..Chatter]
        /\ pipe \in [Pids -> 0..PipeCap] /\ said \in Answers
    BY <1>1 DEF RecorderInit, Processes, Answers
  <2>2. drained \in BOOLEAN
    BY <1>1, Zenon DEF RecorderInit
  <2>3. mov \in Files
    BY <1>1 DEF RecorderInit, Files
  <2> QED
    BY <2>1, <2>2, <2>3 DEF RecorderTypeOK
<1>4. TapeTypeOK
  <2>1. <<>> \in Seq(BOOLEAN) /\ <<>> \in Seq(0..MaxTime)
    OBVIOUS
  <2>2. result \in Summaries
    BY <1>1, <1>2, NoSummaryType DEF TapeInit
  <2>3. post \in BOOLEAN /\ continuous \in BOOLEAN
    BY <1>1, Zenon DEF TapeInit
  <2>4. mp4 \in Files /\ gif \in Files
    BY <1>1 DEF TapeInit, Absent, Old, Files
  <2>5. /\ stage \in Stages /\ elapsed \in 0..MaxTime /\ sceneIdx \in 0..MaxScenes
        /\ exit \in {"none", "0", "1", "killed"}
    BY <1>1 DEF TapeInit, Stages
  <2>6. assertions \in Seq(BOOLEAN) /\ beats \in Seq(0..MaxTime)
    BY <1>1, <2>1, Zenon DEF TapeInit
  <2> QED
    BY <1>3, <2>2, <2>3, <2>4, <2>5, <2>6, Zenon DEF TapeTypeOK
<1>5. TypeOK
  <2>1. Preflights \in Seq({"build", "compose", "health", "config", "daemon", "ping"})
        /\ 1 \in DOMAIN Preflights /\ Preflights[1] = "build"
    BY DEF Preflights
  <2>2. step \in Steps
    BY <1>1, <2>1 DEF Steps, Range
  <2> QED
    BY <1>1, <1>4, <2>2 DEF TypeOK, Verdicts
<1>6. OneChild /\ ~Recorded
  BY <1>1 DEF RecorderInit, OneChild, Recorded
<1>7. StageRecorder
  <2>1. child = NoPid /\ stage = "connecting" /\ exit = "none" /\ ~continuous
    BY <1>1 DEF RecorderInit, TapeInit
  <2> QED
    BY <1>6, <2>1 DEF StageRecorder
<1>8. StageResult
  <2>1. stage = "connecting" /\ exit = "none" /\ result \in {NoSummary("absent"), NoSummary("old"), OldPass}
    BY <1>1 DEF TapeInit
  <2> QED
    BY <1>2, <2>1, NoSummaryType DEF StageResult
<1>9. StepReadme
  BY <1>1 DEF StepReadme
<1> QED
  BY <1>5, <1>6, <1>7, <1>8, <1>9 DEF IInv

-----------------------------------------------------------------------------
(* The recorder and its shim.                                              *)

(* What the recorder does while it holds its child, and the shim beside    *)
(* it, keeps the types; another child, another file, there is not.         *)
LEMMA ShimRecorder ==
  ASSUME IInv, NEW p \in Pids, ShimSpeaks(p) \/ ShimOpens(p) \/ ShimFails(p) \/ ShimExits(p)
  PROVE  /\ RecorderTypeOK' /\ OneChild'
         /\ child = p /\ proc[p] # "unborn" /\ UNCHANGED <<child, life>>
         /\ Recorded'
<1>1. /\ RecorderTypeOK /\ OneChild
      /\ proc[p] \in {"starting", "recording"}
      /\ UNCHANGED <<child, life, drained, said>>
  BY DEF IInv, TypeOK, TapeTypeOK, ShimSpeaks, ShimOpens, ShimFails, ShimExits, Alive
<1>2. child = p
  BY <1>1 DEF OneChild
<1>3. CASE ShimSpeaks(p)
  <2>1. unsaid' \in [Pids -> 0..Chatter] /\ pipe' \in [Pids -> 0..PipeCap]
    BY <1>1, <1>3 DEF ShimSpeaks, RecorderTypeOK
  <2>2. UNCHANGED <<child, life, proc, drained, said, mov>>
    BY <1>3 DEF ShimSpeaks
  <2>3. OneChild'
    BY <1>1, <2>2, Zenon DEF OneChild
  <2>4. RecorderTypeOK'
    BY <1>1, <2>1, <2>2, Zenon DEF RecorderTypeOK
  <2> QED
    BY <1>1, <1>2, <2>2, <2>3, <2>4 DEF Recorded
<1>4. CASE ShimOpens(p) \/ ShimFails(p) \/ ShimExits(p)
  <2>1. /\ UNCHANGED <<unsaid, pipe>>
        /\ \/ /\ proc' = [proc EXCEPT ![p] = "recording"]
              /\ mov' = [by |-> p, state |-> "partial"]
           \/ /\ proc' = [proc EXCEPT ![p] = "failed"]
              /\ mov' = mov
           \/ /\ proc[p] = "recording"
              /\ proc' = [proc EXCEPT ![p] = "exited"]
              /\ mov' \in {mov, [by |-> p, state |-> "whole"]}
    BY <1>4 DEF ShimOpens, ShimFails, ShimExits
  <2>2. proc \in [Pids -> Processes] /\ mov \in Files
    BY <1>1 DEF RecorderTypeOK
  <2>3. proc' \in [Pids -> Processes] /\ proc'[p] # "unborn"
    BY <2>1, <2>2 DEF Processes, Alive, Dead
  <2>4. mov' \in Files
    BY <2>1, <2>2 DEF Files
  <2>5. RecorderTypeOK'
    BY <1>1, <2>1, <2>3, <2>4, Zenon DEF RecorderTypeOK
  <2>6. OneChild'
    <3>1. \A q \in Pids : q # p => proc'[q] = proc[q] /\ proc[q] \in {"unborn", "reaped"}
      BY <1>1, <1>2, <2>1, <2>2 DEF OneChild
    <3>2. proc[p] = "recording" => mov.by = p
      BY <1>1 DEF OneChild
    <3>3. proc'[p] \in {"recording", "exited"} => mov'.by = p
      BY <2>1, <2>2, <3>2
    <3>4. proc'[p] \in Alive \cup Dead
      BY <2>1, <2>2 DEF Alive, Dead
    <3> QED
      BY <1>1, <1>2, <3>1, <3>3, <3>4 DEF OneChild
  <2> QED
    BY <1>1, <1>2, <2>3, <2>5, <2>6 DEF Recorded
<1> QED
  BY <1>3, <1>4

LEMMA SpawnRecorder ==
  ASSUME IInv, NEW p \in Pids, Spawn(p)
  PROVE  RecorderTypeOK' /\ OneChild' /\ Recorded'
<1>1. /\ RecorderTypeOK /\ OneChild /\ child = NoPid /\ child' = p /\ said' = "ok"
      /\ proc' = [proc EXCEPT ![p] = "starting"] /\ proc[p] = "unborn"
      /\ UNCHANGED <<life, pipe, drained, mov>>
  BY DEF IInv, TypeOK, TapeTypeOK, Spawn
<1>2. proc' \in [Pids -> Processes] /\ proc'[p] = "starting"
      /\ \A q \in Pids \ {p} : proc'[q] = proc[q]
  BY <1>1 DEF RecorderTypeOK, Processes, Alive
<1>3. unsaid' \in [Pids -> 0..Chatter]
  BY <1>1 DEF Spawn, RecorderTypeOK
<1>4. said' \in Answers
  BY <1>1 DEF Answers
<1>5. RecorderTypeOK'
  BY <1>1, <1>2, <1>3, <1>4, Zenon DEF RecorderTypeOK
<1>6. OneChild'
  BY <1>1, <1>2 DEF OneChild, Alive
<1> QED
  BY <1>2, <1>5, <1>6 DEF Recorded

LEMMA WaitEndsRecorder ==
  ASSUME IInv, WaitEnds, Recorded, child # NoPid
  PROVE  /\ RecorderTypeOK' /\ OneChild' /\ Recorded'
         /\ child' = NoPid /\ mov' = mov
         /\ said' = "ok" => mov.by = child /\ child \in Pids
<1>1. /\ RecorderTypeOK /\ OneChild /\ child' = NoPid /\ life' = "free"
      /\ proc' = [proc EXCEPT ![child] = "reaped"]
      /\ said' = IF proc[child] = "exited" THEN "ok" ELSE "Shim"
      /\ UNCHANGED <<unsaid, pipe, drained, mov>>
  BY DEF IInv, TypeOK, TapeTypeOK, WaitEnds
<1>2. proc' \in [Pids -> Processes] /\ said' \in Answers
  BY <1>1 DEF RecorderTypeOK, Processes, Answers
<1>3. \A p \in Pids : proc'[p] \in {"unborn", "reaped"}
  BY <1>1 DEF RecorderTypeOK, OneChild
<1>4. RecorderTypeOK'
  BY <1>1, <1>2, Zenon DEF RecorderTypeOK
<1>5. PICK p \in Pids : proc[p] # "unborn"
  BY DEF Recorded
<1>6. child \in Pids /\ proc \in [Pids -> Processes]
  BY <1>1 DEF RecorderTypeOK
<1>7. proc'[p] # "unborn"
  BY <1>1, <1>5, <1>6
<1>8. said' = "ok" => mov.by = child
  BY <1>1, <1>6 DEF OneChild
<1> QED
  BY <1>1, <1>3, <1>4, <1>6, <1>7, <1>8 DEF OneChild, Recorded

LEMMA DropRecorder ==
  ASSUME IInv, Drop
  PROVE  /\ RecorderTypeOK' /\ OneChild' /\ (Recorded' <=> Recorded)
         /\ child' = NoPid /\ mov' = mov
<1>1. /\ RecorderTypeOK /\ OneChild /\ child' = NoPid /\ life' = "dropped"
      /\ proc' = IF child = NoPid THEN proc ELSE [proc EXCEPT ![child] = "reaped"]
      /\ UNCHANGED <<unsaid, pipe, drained, said, mov>>
  BY DEF IInv, TypeOK, TapeTypeOK, Drop
<1>2. /\ proc' \in [Pids -> Processes]
      /\ \A p \in Pids : proc'[p] \in {"unborn", "reaped"}
  BY <1>1 DEF RecorderTypeOK, Processes, OneChild
<1>3. RecorderTypeOK'
  BY <1>1, <1>2, Zenon DEF RecorderTypeOK
<1>4. child # NoPid => child \in Pids /\ proc[child] \in Processes
  BY <1>1 DEF RecorderTypeOK
<1>5. \A p \in Pids : (proc'[p] # "unborn") <=> (proc[p] # "unborn")
  BY <1>1, <1>4 DEF RecorderTypeOK, OneChild, Alive, Dead
<1> QED
  BY <1>1, <1>2, <1>3, <1>5 DEF OneChild, Recorded

-----------------------------------------------------------------------------
(* The run.  A step of the tape alone leaves the recorder as it is.        *)

LEMMA RecorderKept ==
  ASSUME IInv, UNCHANGED recorderVars
  PROVE  /\ RecorderTypeOK' /\ OneChild' /\ (Recorded' <=> Recorded)
         /\ child' = child /\ mov' = mov
<1>1. UNCHANGED <<child, life, proc, unsaid, pipe, drained, said, mov>>
  BY DEF recorderVars
<1> QED
  BY <1>1, Zenon DEF IInv, TypeOK, TapeTypeOK, RecorderTypeOK, OneChild, Recorded

(* The scenario drives the app: only its counters change.                  *)
LEMMA DriveIInv ==
  ASSUME IInv, stage \in {"connecting", "driving"}, stage' \in {"driving", "failing"},
         UNCHANGED <<step, readme, post, outVars>>,
         RecorderTypeOK' /\ OneChild' /\ (Recorded => Recorded'),
         continuous' \in BOOLEAN, elapsed' \in 0..MaxTime, sceneIdx' \in 0..MaxScenes,
         assertions' \in Seq(BOOLEAN), beats' \in Seq(0..MaxTime),
         stage' = "driving" => (IF continuous' THEN Recorded' ELSE child' = NoPid /\ ~Recorded')
  PROVE  IInv'
<1>1. /\ UNCHANGED <<step, readme, post, result, mp4, gif, exit>>
      /\ exit = "none"
  BY DEF outVars, IInv, StageRecorder
<1>2. TypeOK'
  <2>1. stage' \in Stages
    BY DEF Stages
  <2>2. TapeTypeOK'
    BY <1>1, <2>1, Zenon DEF IInv, TypeOK, TapeTypeOK
  <2> QED
    BY <1>1, <2>2, Zenon DEF IInv, TypeOK
<1>3. StageRecorder'
  BY <1>1 DEF StageRecorder
<1>4. StageResult'
  BY <1>1 DEF IInv, StageResult
<1>5. StepReadme'
  BY <1>1 DEF IInv, StepReadme
<1> QED
  BY <1>2, <1>3, <1>4, <1>5 DEF IInv

LEMMA ScenarioIInv ==
  ASSUME IInv, Build \/ Scenario, UNCHANGED <<step, readme>>
  PROVE  IInv'
<1>1. /\ continuous \in BOOLEAN /\ elapsed \in 0..MaxTime /\ sceneIdx \in 0..MaxScenes
      /\ assertions \in Seq(BOOLEAN) /\ beats \in Seq(0..MaxTime)
  BY DEF IInv, TypeOK, TapeTypeOK
<1>2. /\ stage \in {"connecting", "driving"} =>
           (IF continuous THEN Recorded ELSE child = NoPid /\ ~Recorded)
  BY <1>1 DEF IInv, StageRecorder
<1>3. ASSUME UNCHANGED recorderVars, UNCHANGED continuous
      PROVE  /\ RecorderTypeOK' /\ OneChild' /\ (Recorded => Recorded')
             /\ stage \in {"connecting", "driving"} =>
                  (IF continuous' THEN Recorded' ELSE child' = NoPid /\ ~Recorded')
  BY <1>2, <1>3, RecorderKept
<1>4. CASE Build
  BY <1>1, <1>3, <1>4, DriveIInv DEF Build
<1>5. ASSUME NEW ok \in BOOLEAN, Assert(ok) PROVE IInv'
  <2>1. Append(assertions, ok) \in Seq(BOOLEAN)
    BY <1>1
  <2> QED
    BY <1>1, <1>3, <1>5, <2>1, DriveIInv DEF Assert
<1>6. CASE CommandFails
  BY <1>1, <1>3, <1>6, DriveIInv DEF CommandFails
<1>7. ASSUME NEW p \in Pids, StartRecording(p) PROVE IInv'
  <2>1. RecorderTypeOK' /\ OneChild' /\ Recorded'
    BY <1>7, SpawnRecorder DEF StartRecording
  <2>2. elapsed' \in 0..MaxTime /\ continuous' = TRUE
    BY <1>7 DEF StartRecording
  <2> QED
    BY <1>1, <1>7, <2>1, <2>2, DriveIInv DEF StartRecording
<1>8. CASE StartFails
  <2>1. /\ stage = "driving" /\ stage' = "failing"
        /\ UNCHANGED <<post, continuous, elapsed, assertions, beats, sceneIdx, outVars>>
    BY <1>8 DEF StartFails
  <2>2. RecorderTypeOK' /\ OneChild' /\ (Recorded => Recorded')
    <3>1. CASE UNCHANGED recorderVars
      BY <3>1, RecorderKept
    <3>2. CASE SpawnFails
      <4>1. UNCHANGED <<child, life, proc, unsaid, pipe, drained, mov>> /\ said' = "Shim"
        BY <3>2 DEF SpawnFails
      <4>2. said' \in Answers
        BY <4>1 DEF Answers
      <4> QED
        BY <4>1, <4>2, Zenon DEF IInv, TypeOK, TapeTypeOK, RecorderTypeOK, OneChild, Recorded
    <3> QED
      BY <1>8, <3>1, <3>2 DEF StartFails
  <2> QED
    BY <1>1, <2>1, <2>2, DriveIInv
<1>9. CASE Scene
  <2>1. beats' \in Seq(0..MaxTime) /\ sceneIdx' \in 0..MaxScenes
    <3>1. Append(beats, elapsed) \in Seq(0..MaxTime) /\ Len(beats) \in Nat
      BY <1>1
    <3>2. sceneIdx' = sceneIdx \/ (sceneIdx' = sceneIdx + 1 /\ sceneIdx < MaxScenes)
      BY <1>1, <1>9, <3>1 DEF Scene
    <3>3. beats' = beats \/ beats' = Append(beats, elapsed)
      BY <1>9 DEF Scene
    <3>4. sceneIdx' \in 0..MaxScenes
      BY <1>1, <3>2
    <3>5. beats' \in Seq(0..MaxTime)
      BY <1>1, <3>1, <3>3, Zenon
    <3> QED
      BY <3>4, <3>5
  <2> QED
    BY <1>1, <1>3, <1>9, <2>1, DriveIInv DEF Scene
<1>10. CASE Tick
  <2>1. elapsed' \in 0..MaxTime
    BY <1>1, <1>10 DEF Tick
  <2> QED
    BY <1>1, <1>3, <1>10, <2>1, DriveIInv DEF Tick
<1> QED
  BY <1>4, <1>5, <1>6, <1>7, <1>8, <1>9, <1>10 DEF Scenario

(* finish: the summary has been made, and stays.                           *)
LEMMA FinishIInv ==
  ASSUME IInv, stage \in {"written", "waiting", "recorded", "remuxed"},
         stage' \in {"waiting", "recorded", "remuxed", "finished", "failing"},
         UNCHANGED <<step, readme, post, elapsed, assertions, beats, sceneIdx, result, exit>>,
         RecorderTypeOK' /\ OneChild' /\ (Recorded <=> Recorded'),
         continuous' \in BOOLEAN, mp4' \in Files, gif' \in Files,
         stage' = "waiting" => child' # NoPid,
         stage' # "finished" => Recorded',
         stage' \in {"recorded", "remuxed", "finished"} => child' = NoPid,
         stage' \in {"recorded", "remuxed"} => mov'.by # NoPid,
         stage' = "remuxed" => mov'.state = "whole" /\ mp4' = mov',
         stage' = "finished" => Media'
  PROVE  IInv'
<1>1. exit = "none" /\ result = Summary(AllPassed)
  BY DEF IInv, StageRecorder, StageResult
<1>2. TypeOK'
  <2>1. stage' \in Stages
    BY DEF Stages
  <2>2. TapeTypeOK'
    BY <2>1, Zenon DEF IInv, TypeOK, TapeTypeOK
  <2> QED
    BY <2>2, Zenon DEF IInv, TypeOK
<1>3. StageRecorder'
  BY <1>1 DEF StageRecorder
<1>4. StageResult'
  <2>1. (result = Summary(AllPassed))'
    BY <1>1, Zenon DEF Summary, AllPassed
  <2>2. result'.passed => result'.kind = "this"
    BY <1>1 DEF Summary
  <2> QED
    BY <1>1, <2>1, <2>2 DEF IInv, StageResult
<1>5. StepReadme'
  BY DEF IInv, StepReadme
<1> QED
  BY <1>2, <1>3, <1>4, <1>5 DEF IInv

LEMMA TakeRecordingIInv ==
  ASSUME IInv, TakeRecording, UNCHANGED <<step, readme>>
  PROVE  IInv'
<1>1. /\ stage = "written" /\ continuous' = FALSE
      /\ UNCHANGED <<post, elapsed, assertions, beats, sceneIdx, result, mp4, gif, exit>>
      /\ continuous \in BOOLEAN /\ mp4 \in Files /\ gif \in Files
  BY DEF TakeRecording, outVars, IInv, TypeOK, TapeTypeOK
<1>2. CASE continuous
  <2>1. /\ stage' = "waiting" /\ child # NoPid /\ drained' = FALSE /\ life' = "waiting"
        /\ UNCHANGED <<child, proc, unsaid, pipe, said, mov>>
    BY <1>2 DEF TakeRecording, WaitBegins
  <2>2. Recorded
    BY <1>1, <1>2 DEF IInv, StageRecorder
  <2>3. RecorderTypeOK' /\ OneChild' /\ (Recorded' <=> Recorded)
    <3>1. drained' \in BOOLEAN /\ life' \in {"free", "waiting", "dropped"}
      BY <2>1
    <3>2. RecorderTypeOK'
      BY <2>1, <3>1, Zenon DEF IInv, TypeOK, TapeTypeOK, RecorderTypeOK
    <3> QED
      BY <2>1, <3>2, Zenon DEF IInv, OneChild, Recorded
  <2> QED
    BY <1>1, <2>1, <2>2, <2>3, FinishIInv
<1>3. CASE ~continuous
  <2>1. stage' = "finished" /\ UNCHANGED recorderVars
    BY <1>3 DEF TakeRecording
  <2>2. child = NoPid /\ ~Recorded
    BY <1>1, <1>3 DEF IInv, StageRecorder
  <2>3. RecorderTypeOK' /\ OneChild' /\ (Recorded' <=> Recorded) /\ child' = child
    BY <2>1, RecorderKept
  <2>4. Media'
    BY <2>2, <2>3 DEF Media
  <2> QED
    BY <1>1, <2>1, <2>2, <2>3, <2>4, FinishIInv
<1> QED
  BY <1>1, <1>2, <1>3

LEMMA ListenIInv ==
  ASSUME IInv, Listen, UNCHANGED <<step, readme>>
  PROVE  IInv'
<1>1. /\ stage = "waiting"
      /\ UNCHANGED <<stage, post, continuous, elapsed, assertions, beats, sceneIdx, result, mp4,
                     gif, exit>>
      /\ continuous \in BOOLEAN /\ mp4 \in Files /\ gif \in Files
  BY DEF Listen, tapeVars, outVars, IInv, TypeOK, TapeTypeOK
<1>2. child \in Pids /\ child # NoPid /\ Recorded
  BY <1>1 DEF IInv, TypeOK, TapeTypeOK, RecorderTypeOK, StageRecorder
<1>3. pipe' \in [Pids -> 0..PipeCap] /\ drained' \in BOOLEAN
      /\ UNCHANGED <<child, life, proc, unsaid, said, mov>>
  <2>1. pipe \in [Pids -> 0..PipeCap] /\ drained \in BOOLEAN
    BY DEF IInv, TypeOK, TapeTypeOK, RecorderTypeOK
  <2>2. CASE Drain
    BY <1>2, <2>1, <2>2 DEF Drain
  <2>3. CASE DrainEnds
    BY <2>1, <2>3 DEF DrainEnds
  <2> QED
    BY <2>2, <2>3 DEF Listen
<1>4. RecorderTypeOK' /\ OneChild' /\ (Recorded' <=> Recorded)
  BY <1>3, Zenon DEF IInv, TypeOK, TapeTypeOK, RecorderTypeOK, OneChild, Recorded
<1> QED
  BY <1>1, <1>2, <1>3, <1>4, FinishIInv

LEMMA RecordingEndsIInv ==
  ASSUME IInv, RecordingEnds, UNCHANGED <<step, readme>>
  PROVE  IInv'
<1>1. /\ stage = "waiting" /\ WaitEnds
      /\ stage' \in {"recorded", "failing"} /\ (stage' = "recorded" => said' = "ok")
      /\ UNCHANGED <<post, continuous, elapsed, assertions, beats, sceneIdx, result, mp4, gif,
                     exit>>
      /\ continuous \in BOOLEAN /\ mp4 \in Files /\ gif \in Files
  BY DEF RecordingEnds, outVars, IInv, TypeOK, TapeTypeOK
<1>2. Recorded /\ child # NoPid
  BY <1>1 DEF IInv, StageRecorder
<1>3. /\ RecorderTypeOK' /\ OneChild' /\ Recorded' /\ child' = NoPid
      /\ stage' = "recorded" => mov'.by # NoPid
  BY <1>1, <1>2, WaitEndsRecorder
<1> QED
  BY <1>1, <1>2, <1>3, FinishIInv

(* A converter leaves a file, whatever else.                               *)
LEMMA ConvertedType ==
  ASSUME NEW from \in Files, NEW to \in Files, NEW to1, NEW next, Converted(from, to, to1, next)
  PROVE  /\ to1 \in Files
         /\ \/ stage' = next /\ from.state = "whole" /\ to1 = from
            \/ stage' = "failing"
<1>1. Absent \in Files
  BY DEF Absent, Files
<1>2. [from EXCEPT !.state = "partial"] \in Files
  BY DEF Files
<1> QED
  BY <1>1, <1>2 DEF Converted

LEMMA ConvertIInv ==
  ASSUME IInv, Remux \/ MakeGif, UNCHANGED <<step, readme>>
  PROVE  IInv'
<1>1. /\ stage \in {"recorded", "remuxed"} /\ UNCHANGED recorderVars
      /\ UNCHANGED <<post, continuous, elapsed, assertions, beats, sceneIdx, result, exit>>
      /\ continuous \in BOOLEAN /\ post \in BOOLEAN
      /\ mov \in Files /\ mp4 \in Files /\ gif \in Files
  BY DEF Remux, MakeGif, IInv, TypeOK, TapeTypeOK, RecorderTypeOK
<1>2. Recorded /\ child = NoPid /\ mov.by # NoPid
  BY <1>1 DEF IInv, StageRecorder
<1>3. /\ RecorderTypeOK' /\ OneChild' /\ (Recorded' <=> Recorded)
      /\ child' = child /\ mov' = mov
  BY <1>1, RecorderKept
<1>4. CASE Remux /\ post
  <2>1. gif' = gif /\ Converted(mov, mp4, mp4', "remuxed")
    BY <1>4 DEF Remux
  <2>2. /\ mp4' \in Files
        /\ \/ stage' = "remuxed" /\ mov.state = "whole" /\ mp4' = mov
           \/ stage' = "failing"
    BY <1>1, <2>1, ConvertedType
  <2> QED
    BY <1>1, <1>2, <1>3, <2>1, <2>2, FinishIInv
<1>5. CASE Remux /\ ~post
  <2>1. stage' = "finished" /\ mp4' = mp4 /\ gif' = gif
    BY <1>5 DEF Remux
  <2>2. Media'
    BY <1>1, <1>2, <1>3, <1>5 DEF Media
  <2> QED
    BY <1>1, <1>2, <1>3, <2>1, <2>2, FinishIInv
<1>6. CASE MakeGif
  <2>1. stage = "remuxed" /\ mp4' = mp4 /\ Converted(mp4, gif, gif', "finished")
    BY <1>6 DEF MakeGif
  <2>2. mov.state = "whole" /\ mp4 = mov
    BY <2>1 DEF IInv, StageRecorder
  <2>3. gif' \in Files /\ ((stage' = "finished" /\ gif' = mp4) \/ stage' = "failing")
    BY <1>1, <2>1, ConvertedType
  <2>4. stage' = "finished" => Media'
    BY <1>2, <1>3, <2>1, <2>2, <2>3 DEF Media
  <2> QED
    BY <1>1, <1>2, <1>3, <2>1, <2>3, <2>4, FinishIInv
<1> QED
  BY <1>1, <1>4, <1>5, <1>6

(* The summary is written: this run's, unless that fails.                  *)
LEMMA WriteResultIInv ==
  ASSUME IInv, WriteResult, UNCHANGED <<step, readme>>
  PROVE  IInv'
<1>1. /\ stage = "driving" /\ UNCHANGED recorderVars
      /\ UNCHANGED <<step, readme, post, continuous, elapsed, assertions, beats, sceneIdx, mp4,
                     gif, exit>>
  BY DEF WriteResult
<1>2. /\ RecorderTypeOK' /\ OneChild' /\ (Recorded' <=> Recorded)
      /\ child' = child /\ mov' = mov
  BY <1>1, RecorderKept
<1>3. exit = "none" /\ result.kind \in {"absent", "old"}
  BY <1>1 DEF IInv, StageRecorder, StageResult
<1>4. AllPassed \in BOOLEAN
  BY DEF AllPassed
<1>5. /\ result' \in Summaries
      /\ \/ stage' = "written" /\ result' = Summary(AllPassed) /\ result'.kind = "this"
         \/ stage' = "failing" /\ (result' = result \/ result' = NoSummary("broken"))
  <2>1. result \in Summaries
    BY DEF IInv, TypeOK, TapeTypeOK
  <2>2. Summary(AllPassed) \in Summaries /\ Summary(AllPassed).kind = "this"
    BY <1>4, SummaryType DEF IInv
  <2>3. NoSummary("broken") \in Summaries
    BY NoSummaryType
  <2> QED
    BY <2>1, <2>2, <2>3 DEF WriteResult
<1>6. TypeOK'
  <2>1. stage' \in Stages
    BY <1>5 DEF Stages
  <2>2. TapeTypeOK'
    BY <1>1, <1>2, <1>5, <2>1, Zenon DEF IInv, TypeOK, TapeTypeOK
  <2> QED
    BY <1>1, <2>2, Zenon DEF IInv, TypeOK
<1>7. StageRecorder'
  BY <1>1, <1>2, <1>3, <1>5 DEF IInv, StageRecorder
<1>8. StageResult'
  <2>1. CASE stage' = "written" /\ result' = Summary(AllPassed) /\ result'.kind = "this"
    <3>1. (result = Summary(AllPassed))'
      BY <1>1, <2>1, Zenon DEF Summary, AllPassed
    <3> QED
      BY <1>1, <1>3, <2>1, <3>1 DEF StageResult
  <2>2. CASE stage' = "failing" /\ result' = result
    BY <1>1, <1>3, <2>2 DEF IInv, StageResult
  <2>3. CASE stage' = "failing" /\ result' = NoSummary("broken")
    BY <1>1, <1>3, <2>3, NoSummaryType DEF StageResult
  <2> QED
    BY <1>5, <2>1, <2>2, <2>3
<1>9. StepReadme'
  BY <1>1 DEF IInv, StepReadme
<1> QED
  BY <1>2, <1>6, <1>7, <1>8, <1>9 DEF IInv

(* The process ends, in whatever way: with 0 or 1 it leaves no child.      *)
LEMMA OverIInv ==
  ASSUME IInv, step = "taper", stage # "over", stage' = "over",
         exit' \in {"0", "1", "killed"},
         UNCHANGED <<step, readme, post, continuous, elapsed, assertions, beats, sceneIdx, result,
                    mp4, gif>>,
         RecorderTypeOK' /\ OneChild' /\ (Recorded <=> Recorded'), mov' = mov,
         exit' \in {"0", "1"} => child' = NoPid,
         exit' = "0" => stage = "finished" /\ result.passed,
         exit' = "1" => stage = "failing" \/ (stage = "finished" /\ ~result.passed)
  PROVE  IInv'
<1>1. TypeOK'
  <2>1. stage' \in Stages /\ exit' \in {"none", "0", "1", "killed"}
    BY DEF Stages
  <2>2. TapeTypeOK'
    BY <2>1, Zenon DEF IInv, TypeOK, TapeTypeOK
  <2> QED
    BY <2>2, Zenon DEF IInv, TypeOK
<1>2. StageRecorder'
  BY DEF StageRecorder
<1>3. StageResult'
  <2>1. exit' = "0" => (result = Summary(TRUE) /\ AllPassed /\ Media)'
    <3> SUFFICES ASSUME exit' = "0" PROVE (result = Summary(TRUE) /\ AllPassed /\ Media)'
      OBVIOUS
    <3>1. result = Summary(AllPassed) /\ result.passed /\ Media
      BY DEF IInv, StageRecorder, StageResult
    <3>2. AllPassed \in BOOLEAN
      BY DEF AllPassed
    <3>3. AllPassed = TRUE
      BY <3>1, <3>2, SummaryType DEF IInv
    <3>4. result = Summary(TRUE) /\ AllPassed
      BY <3>1, <3>3
    <3>5. (result = Summary(TRUE) /\ AllPassed)'
      BY <3>4, Zenon DEF Summary, AllPassed
    <3>6. Media'
      BY <3>1 DEF Media
    <3> QED
      BY <3>5, <3>6
  <2>2. exit' = "1" /\ result'.passed /\ result'.kind = "this" => Recorded'
    BY DEF IInv, StageResult
  <2> QED
    BY <2>1, <2>2 DEF IInv, StageResult
<1>4. StepReadme'
  BY DEF StepReadme
<1> QED
  BY <1>1, <1>2, <1>3, <1>4 DEF IInv

LEMMA ExitIInv ==
  ASSUME IInv, step = "taper", Leave \/ Bail \/ Killed, UNCHANGED <<step, readme>>
  PROVE  IInv'
<1>1. CASE Leave
  <2>1. /\ stage = "finished" /\ stage' = "over"
        /\ UNCHANGED <<post, continuous, elapsed, assertions, beats, sceneIdx, result, mp4, gif>>
        /\ child = NoPid
    BY <1>1 DEF Leave, IInv, StageRecorder
  <2>2. CASE result.passed
    <3>1. Drop /\ exit' = "0"
      BY <1>1, <2>2 DEF Leave
    <3> QED
      BY <2>1, <2>2, <3>1, DropRecorder, OverIInv
  <2>3. CASE ~result.passed
    <3>1. UNCHANGED recorderVars /\ exit' = "1"
      BY <1>1, <2>3 DEF Leave
    <3> QED
      BY <2>1, <2>3, <3>1, RecorderKept, OverIInv
  <2> QED
    BY <2>2, <2>3
<1>2. CASE Bail
  BY <1>2, DropRecorder, OverIInv DEF Bail
<1>3. CASE Killed
  BY <1>3, RecorderKept, OverIInv DEF Killed
<1> QED
  BY <1>1, <1>2, <1>3

(* The shim beside the run, or after it.                                   *)
LEMMA ShimStepIInv ==
  ASSUME IInv, NEW p \in Pids, ShimStep(p), UNCHANGED <<step, readme>>
  PROVE  IInv'
<1>1. /\ ShimSpeaks(p) \/ ShimOpens(p) \/ ShimFails(p) \/ ShimExits(p)
      /\ UNCHANGED <<stage, post, continuous, elapsed, assertions, beats, sceneIdx, result, mp4,
                     gif, exit>>
  BY DEF ShimStep, tapeVars, outVars
<1>2. /\ RecorderTypeOK' /\ OneChild' /\ child = p /\ child' = child /\ Recorded /\ Recorded'
  BY <1>1, ShimRecorder DEF Recorded
<1>3. child # NoPid
  BY <1>2
<1>4. TypeOK'
  <2>1. TapeTypeOK'
    BY <1>1, <1>2, Zenon DEF IInv, TypeOK, TapeTypeOK
  <2> QED
    BY <2>1, Zenon DEF IInv, TypeOK
<1>5. stage \notin {"recorded", "remuxed", "finished"} /\ exit \notin {"0", "1"}
  BY <1>3 DEF IInv, StageRecorder
<1>6. StageRecorder'
  BY <1>1, <1>2, <1>3, <1>5 DEF IInv, StageRecorder
<1>7. StageResult'
  <2>1. Summary(AllPassed)' = Summary(AllPassed)
    BY <1>1, Zenon DEF Summary, AllPassed
  <2> QED
    BY <1>1, <1>2, <1>5, <2>1 DEF IInv, StageResult
<1>8. StepReadme'
  BY <1>1 DEF IInv, StepReadme
<1> QED
  BY <1>2, <1>4, <1>6, <1>7, <1>8 DEF IInv

-----------------------------------------------------------------------------
(* The script.                                                             *)

LEMMA TaperIInv ==
  ASSUME IInv, Taper
  PROVE  IInv'
<1>1. step = "taper" /\ TapeNext /\ UNCHANGED <<step, readme>>
  BY DEF Taper
<1> QED
  BY <1>1, ScenarioIInv, WriteResultIInv, TakeRecordingIInv, ListenIInv, RecordingEndsIInv,
     ConvertIInv, ExitIInv, ShimStepIInv DEF TapeNext, Finish

(* The script goes on, and the run is over or has not begun.               *)
LEMMA ScriptIInv ==
  ASSUME IInv, UNCHANGED tvars, step' \in Steps, readme' \in Verdicts, StepReadme'
  PROVE  IInv'
<1>1. UNCHANGED <<child, life, proc, unsaid, pipe, drained, said, mov>>
      /\ UNCHANGED <<stage, post, continuous, elapsed, assertions, beats, sceneIdx, result, mp4,
                     gif, exit>>
  BY DEF tvars, recorderVars, tapeVars, outVars
<1>2. RecorderTypeOK' /\ OneChild' /\ (Recorded' <=> Recorded)
  BY RecorderKept DEF tvars
<1>3. TypeOK'
  <2>1. TapeTypeOK'
    BY <1>1, <1>2, Zenon DEF IInv, TypeOK, TapeTypeOK
  <2> QED
    BY <2>1, Zenon DEF TypeOK
<1>4. (Media' <=> Media) /\ (AllPassed' <=> AllPassed)
  BY <1>1, <1>2, Zenon DEF Media, AllPassed
<1>5. StageRecorder'
  BY <1>1, <1>2, <1>4 DEF IInv, StageRecorder
<1>6. StageResult'
  <2>1. Summary(AllPassed)' = Summary(AllPassed) /\ Summary(TRUE)' = Summary(TRUE)
    BY <1>1, Zenon DEF Summary, AllPassed
  <2> QED
    BY <1>1, <1>2, <1>4, <2>1 DEF IInv, StageResult
<1> QED
  BY <1>2, <1>3, <1>5, <1>6 DEF IInv

LEMMA NextIInv == IInv /\ [Next]_vars => IInv'
<1> SUFFICES ASSUME IInv, [Next]_vars PROVE IInv'
  OBVIOUS
<1>1. /\ step \in Steps /\ readme \in Verdicts
      /\ {"taper", "bundle", "done", "stopped"} \subseteq Steps
  BY DEF IInv, TypeOK, Steps
<1>2. CASE Preflight
  <2>1. PICK i \in DOMAIN Preflights :
          /\ step = Preflights[i]
          /\ \/ step' = IF i < Len(Preflights) THEN Preflights[i + 1] ELSE "taper"
             \/ step # "health" /\ step' = "stopped"
          /\ UNCHANGED <<readme, tvars>>
    BY <1>2 DEF Preflight
  <2>2. Preflights \in Seq({"build", "compose", "health", "config", "daemon", "ping"})
    BY DEF Preflights
  <2>3. i < Len(Preflights) => i + 1 \in DOMAIN Preflights
    BY <2>2
  <2>4. step' \in Steps
    BY <2>1, <2>3 DEF Steps, Range
  <2>5. step' \notin {"bundle", "done"}
    BY <2>1, <2>2, <2>3
  <2>6. StepReadme'
    BY <2>5 DEF StepReadme
  <2> QED
    BY <1>1, <2>1, <2>4, <2>6, ScriptIInv
<1>3. CASE Taper
  BY <1>3, TaperIInv
<1>4. CASE ScenarioEnds
  BY <1>1, <1>4, ScriptIInv DEF ScenarioEnds, StepReadme, tvars, tapeVars
<1>5. CASE WriteReadme
  <2>1. /\ step = "bundle" /\ UNCHANGED tvars
        /\ \/ step' = "done" /\ readme' \in Reading
           \/ step' = "stopped" /\ readme' \in {readme, ""}
    BY <1>5 DEF WriteReadme
  <2>2. /\ Reading \subseteq Verdicts
        /\ "PASS" \in Reading => result.passed
        /\ "FAIL" \in Reading => ~result.passed
    BY DEF Reading, Verdicts
  <2>3. stage = "over" /\ stage' = stage /\ result' = result
    BY <2>1 DEF IInv, StepReadme, tvars, tapeVars, outVars
  <2>4. StepReadme'
    BY <2>1, <2>2, <2>3 DEF StepReadme
  <2>5. readme' \in Verdicts
    BY <1>1, <2>1, <2>2 DEF Verdicts
  <2> QED
    BY <1>1, <2>1, <2>4, <2>5, ScriptIInv
<1>6. CASE ShimGoesOn
  BY <1>6, ShimStepIInv DEF ShimGoesOn
<1>7. CASE UNCHANGED vars
  <2>1. UNCHANGED <<step, readme, stage, result>> /\ UNCHANGED tvars
    BY <1>7 DEF vars, tvars, tapeVars, outVars
  <2>2. StepReadme'
    BY <2>1 DEF IInv, StepReadme
  <2> QED
    BY <1>1, <2>1, <2>2, ScriptIInv
<1> QED
  BY <1>2, <1>3, <1>4, <1>5, <1>6, <1>7 DEF Next, RunnerOver

-----------------------------------------------------------------------------
(* Every variable keeps its type, there is one shim at most and its file   *)
(* is its own, and at every stage of a run it is known what result.json,   *)
(* the media and the exit code say.                                        *)
THEOREM Invariance == Spec => []IInv
  BY InitIInv, NextIInv, PTL DEF Spec

(* A run that ends by itself has reaped its recorder, whichever step of    *)
(* whichever scenario failed.                                              *)
THEOREM NobodyIsOrphaned == Spec => []NoOrphan
<1>1. IInv => NoOrphan
  BY DEF IInv, StageRecorder, OneChild, NoOrphan
<1> QED
  BY <1>1, Invariance, PTL

(* Exit code 0 is given over a passed result.json and whole media, all of  *)
(* them this run's.                                                        *)
THEOREM ExitsAreHonest == Spec => []ExitHonest
<1>1. IInv => ExitHonest
  BY DEF IInv, StageResult, Media, ExitHonest
<1> QED
  BY <1>1, Invariance, PTL

(* The verdict in the bundle's README parts from the exit code only where  *)
(* result.json does.                                                       *)
THEOREM ReadmeAgrees == Spec => []VerdictsAgree
<1>1. IInv => VerdictsAgree
  <2> SUFFICES ASSUME IInv, step = "done"
               PROVE  /\ readme = "PASS" /\ exit # "0" =>
                           result.kind = "old"
                             \/ (result.kind = "this" /\ (Recorded \/ exit = "killed"))
                      /\ exit = "0" => result.kind = "this" /\ readme # "FAIL"
    BY DEF VerdictsAgree
  <2>1. exit \in {"0", "1", "killed"}
    BY DEF IInv, TypeOK, TapeTypeOK, StepReadme, StageRecorder
  <2>2. readme = "PASS" => result.passed
    BY DEF IInv, StepReadme
  <2>3. exit = "0" => result.kind = "this" /\ result.passed
    BY SummaryType DEF IInv, StageResult
  <2>4. readme = "FAIL" => ~result.passed
    BY DEF IInv, StepReadme
  <2> QED
    BY <2>1, <2>2, <2>3, <2>4 DEF IInv, StageResult
<1> QED
  BY <1>1, Invariance, PTL

(* What is reported as recorded was written by the shim waited for.        *)
THEOREM RecordingsAreOurs == Spec => RecordedIsOurs
<1> DEFINE Ours ==
      \A p \in Pids :
        life = "waiting" /\ child = p /\ life' = "free" /\ said' = "ok" => mov'.by = p
<1>1. ASSUME IInv, [Next]_vars PROVE [Ours]_tvars
  <2> SUFFICES ASSUME NEW p \in Pids, life = "waiting", child = p, life' = "free", said' = "ok"
               PROVE  mov'.by = p
    OBVIOUS
  <2>1. WaitEnds
    BY <1>1 DEF Next, Preflight, Taper, ScenarioEnds, WriteReadme, ShimGoesOn, RunnerOver, vars,
       tvars, recorderVars, TapeNext, Build, Scenario, CommandFails, StartFails, SpawnFails,
       Scene, Tick, Assert, StartRecording, Spawn, WriteResult, Finish, TakeRecording,
       WaitBegins, Listen, Drain, DrainEnds, RecordingEnds, Remux, MakeGif, Leave, Bail, Drop,
       Killed, ShimStep, ShimSpeaks, ShimOpens, ShimFails, ShimExits
  <2>2. proc[p] = "exited" /\ mov' = mov
    BY <2>1 DEF WaitEnds
  <2> QED
    BY <1>1, <2>2 DEF IInv, OneChild
<1> QED
  BY <1>1, Invariance, PTL DEF Spec, RecordedIsOurs

-----------------------------------------------------------------------------
(* From finish on every step counts.                                       *)

LEMMA BegunStep ==
  ASSUME IInv, Begun, [Next]_vars
  PROVE  Begun'
<1>1. Preflights \in Seq({"build", "compose", "health", "config", "daemon", "ping"})
  BY DEF Preflights
<1>2. \A v \in Range(Preflights) : v \notin {"taper", "bundle", "done", "stopped"}
  BY <1>1 DEF Range
<1>3. CASE Preflight
  <2>1. step \in Range(Preflights)
    BY <1>3 DEF Preflight, Range
  <2> QED
    BY <1>3, <2>1 DEF Preflight, Begun, tvars, tapeVars
<1>4. CASE Taper \/ ScenarioEnds \/ WriteReadme
  BY <1>2, <1>4 DEF Taper, ScenarioEnds, WriteReadme, Begun
<1>5. CASE ShimGoesOn \/ UNCHANGED vars
  BY <1>5 DEF ShimGoesOn, ShimStep, vars, tvars, tapeVars, Begun
<1> QED
  BY <1>3, <1>4, <1>5 DEF Next, RunnerOver

(* What the work is a sum of.                                              *)
LEMMA WorkType ==
  ASSUME IInv
  PROVE  ShimWork \in Nat /\ StageWork \in Nat /\ ScriptWork \in Nat
<1>1. ASSUME child # NoPid PROVE unsaid[child] \in Nat /\ pipe[child] \in Nat
  BY <1>1 DEF IInv, TypeOK, TapeTypeOK, RecorderTypeOK
<1>2. ShimWork \in Nat
  BY <1>1 DEF ShimWork
<1>3. StageWork \in Nat /\ ScriptWork \in Nat
  BY DEF StageWork, ScriptWork
<1> QED
  BY <1>2, <1>3

(* A shim's own step is the child's, and is work done.                     *)
LEMMA ShimWorks ==
  ASSUME IInv, NEW p \in Pids, ShimSpeaks(p) \/ ShimOpens(p) \/ ShimFails(p) \/ ShimExits(p)
  PROVE  ShimWork' < ShimWork /\ UNCHANGED <<child, drained>>
<1>1. child = p /\ p # NoPid
  BY DEF IInv, OneChild, ShimSpeaks, ShimOpens, ShimFails, ShimExits, Alive
<1>2. UNCHANGED <<child, drained>>
  BY DEF ShimSpeaks, ShimOpens, ShimFails, ShimExits
<1>3. /\ unsaid[p] \in Nat /\ pipe[p] \in Nat
      /\ proc \in [Pids -> Processes] /\ unsaid \in [Pids -> 0..Chatter]
      /\ pipe \in [Pids -> 0..PipeCap]
  BY DEF IInv, TypeOK, TapeTypeOK, RecorderTypeOK
<1>4. CASE ShimSpeaks(p)
  <2>1. unsaid'[p] = unsaid[p] - 1 /\ pipe'[p] = pipe[p] + 1 /\ proc'[p] = proc[p]
    BY <1>3, <1>4 DEF ShimSpeaks
  <2> QED
    BY <1>1, <1>2, <1>3, <2>1 DEF ShimWork
<1>5. CASE ShimOpens(p)
  <2>1. /\ unsaid'[p] = unsaid[p] /\ pipe'[p] = pipe[p]
        /\ proc[p] = "starting" /\ proc'[p] = "recording"
    BY <1>3, <1>5 DEF ShimOpens
  <2> QED
    BY <1>1, <1>2, <1>3, <2>1 DEF ShimWork
<1>6. CASE ShimFails(p) \/ ShimExits(p)
  <2>1. /\ unsaid'[p] = unsaid[p] /\ pipe'[p] = pipe[p]
        /\ proc[p] \in Alive /\ proc'[p] \in Dead
    BY <1>3, <1>6 DEF ShimFails, ShimExits, Alive, Dead
  <2> QED
    BY <1>1, <1>2, <1>3, <2>1 DEF ShimWork, Alive, Dead
<1> QED
  BY <1>2, <1>4, <1>5, <1>6

LEMMA LessWork ==
  ASSUME NEW s \in Nat, NEW g \in Nat, NEW t \in Nat,
         NEW s1 \in Nat, NEW g1 \in Nat, NEW t1 \in Nat,
         s1 <= s, g1 <= g, t1 <= t, s1 < s \/ g1 < g \/ t1 < t
  PROVE  s1 + g1 + t1 < s + g + t
  BY SMT

LEMMA WorkStep ==
  ASSUME IInv, Begun, [Next]_vars, vars' # vars, stage \notin {"connecting", "driving"}
  PROVE  Work' < Work
<1> DEFINE Done == /\ ShimWork' <= ShimWork /\ StageWork' <= StageWork /\ ScriptWork' <= ScriptWork
                   /\ ShimWork' < ShimWork \/ StageWork' < StageWork \/ ScriptWork' < ScriptWork
<1>1. /\ ShimWork \in Nat /\ StageWork \in Nat /\ ScriptWork \in Nat
      /\ ShimWork' \in Nat /\ StageWork' \in Nat /\ ScriptWork' \in Nat
  <2>1. IInv'
    BY NextIInv
  <2>2. ShimWork' \in Nat /\ StageWork' \in Nat /\ ScriptWork' \in Nat
    <3>1. child' # NoPid => unsaid'[child'] \in Nat /\ pipe'[child'] \in Nat
      BY <2>1 DEF IInv, TypeOK, TapeTypeOK, RecorderTypeOK
    <3>2. ShimWork' \in Nat
      BY <3>1 DEF ShimWork
    <3> QED
      BY <3>2 DEF StageWork, ScriptWork
  <2> QED
    BY <2>2, WorkType
<1>2. ASSUME ShimWork' <= ShimWork, StageWork' < StageWork, step' = step PROVE Done
  <2>1. ScriptWork' = ScriptWork
    BY <1>2 DEF ScriptWork
  <2> QED
    BY <1>1, <1>2, <2>1, SMT
<1>3. ASSUME UNCHANGED <<child, proc, unsaid, pipe>> PROVE ShimWork' = ShimWork
  BY <1>3 DEF ShimWork
<1>4. ASSUME child' = NoPid PROVE ShimWork' <= ShimWork
  BY <1>1, <1>4 DEF ShimWork
<1>5. ASSUME NEW p \in Pids, ShimStep(p), UNCHANGED step PROVE Done
  <2>1. ShimWork' < ShimWork /\ drained' = drained
    BY <1>5, ShimWorks DEF ShimStep
  <2>2. stage' = stage
    BY <1>5 DEF ShimStep, tapeVars
  <2>3. StageWork' = StageWork /\ ScriptWork' = ScriptWork
    BY <1>5, <2>1, <2>2 DEF StageWork, ScriptWork
  <2> QED
    BY <1>1, <2>1, <2>3
<1>6. ASSUME Preflight PROVE Done
  <2>1. step \in Range(Preflights)
    BY <1>6 DEF Preflight, Range
  <2> QED
    BY <2>1 DEF Begun
<1>7. ASSUME ScenarioEnds \/ WriteReadme PROVE Done
  <2>1. UNCHANGED <<child, proc, unsaid, pipe, stage, drained>>
    BY <1>7 DEF ScenarioEnds, WriteReadme, tvars, recorderVars, tapeVars
  <2>2. StageWork' = StageWork
    BY <2>1 DEF StageWork
  <2>3. ScriptWork' < ScriptWork
    <3>1. CASE ScenarioEnds
      BY <3>1 DEF ScenarioEnds, ScriptWork
    <3>2. CASE WriteReadme
      <4>1. step = "bundle" /\ step' \in {"done", "stopped"}
        BY <3>2 DEF WriteReadme
      <4> QED
        BY <4>1 DEF ScriptWork
    <3> QED
      BY <1>7, <3>1, <3>2
  <2> QED
    BY <1>1, <1>3, <2>1, <2>2, <2>3
<1>8. ASSUME ShimGoesOn PROVE Done
  BY <1>5, <1>8 DEF ShimGoesOn
<1>9. ASSUME TapeNext, UNCHANGED step PROVE Done
  <2>1. CASE Build \/ Scenario \/ WriteResult
    BY <2>1 DEF Build, Scenario, CommandFails, StartFails, Scene, Tick, Assert, StartRecording,
       WriteResult
  <2>2. CASE TakeRecording
    <3>1. ShimWork' = ShimWork
      BY <1>3, <2>2 DEF TakeRecording, WaitBegins, recorderVars
    <3>2. StageWork' < StageWork
      BY <2>2 DEF TakeRecording, StageWork
    <3> QED
      BY <1>1, <1>2, <1>9, <3>1, <3>2
  <2>3. CASE stage = "waiting" /\ Drain /\ UNCHANGED tapeVars
    <3>1. child \in Pids /\ child # NoPid
      BY <2>3 DEF IInv, StageRecorder, TypeOK, TapeTypeOK, RecorderTypeOK
    <3>2. pipe \in [Pids -> 0..PipeCap] /\ pipe[child] \in Nat /\ unsaid[child] \in Nat
      BY <3>1 DEF IInv, TypeOK, TapeTypeOK, RecorderTypeOK
    <3>3. UNCHANGED <<child, proc, unsaid, drained, stage>> /\ pipe'[child] = pipe[child] - 1
      BY <2>3, <3>1, <3>2 DEF Drain, tapeVars
    <3>4. ShimWork' < ShimWork
      BY <3>1, <3>2, <3>3 DEF ShimWork
    <3>5. StageWork' = StageWork /\ ScriptWork' = ScriptWork
      BY <1>9, <3>3 DEF StageWork, ScriptWork
    <3> QED
      BY <1>1, <3>4, <3>5
  <2>4. CASE stage = "waiting" /\ DrainEnds /\ UNCHANGED tapeVars
    <3>1. ShimWork' = ShimWork
      BY <1>3, <2>4 DEF DrainEnds
    <3>2. StageWork' < StageWork
      BY <2>4 DEF DrainEnds, tapeVars, StageWork
    <3> QED
      BY <1>1, <1>2, <1>9, <3>1, <3>2
  <2>5. CASE RecordingEnds
    <3>1. ShimWork' <= ShimWork
      BY <1>4, <2>5 DEF RecordingEnds, WaitEnds
    <3>2. StageWork' < StageWork
      BY <2>5 DEF RecordingEnds, WaitEnds, StageWork
    <3> QED
      BY <1>2, <1>9, <3>1, <3>2
  <2>6. CASE Remux \/ MakeGif
    <3>1. ShimWork' = ShimWork
      BY <1>3, <2>6 DEF Remux, MakeGif, recorderVars
    <3>2. \/ stage = "recorded" /\ stage' \in {"remuxed", "finished", "failing"}
          \/ stage = "remuxed" /\ stage' \in {"finished", "failing"}
      BY <2>6 DEF Remux, MakeGif, Converted
    <3>3. StageWork' < StageWork
      BY <3>2 DEF StageWork
    <3> QED
      BY <1>1, <1>2, <1>9, <3>1, <3>3
  <2>7. CASE Leave \/ Bail \/ Killed
    <3>1. ShimWork' <= ShimWork
      BY <1>1, <1>3, <1>4, <2>7 DEF Leave, Bail, Killed, Drop, recorderVars
    <3>2. stage' = "over" /\ stage # "over"
      BY <2>7 DEF Leave, Bail, Killed
    <3>3. stage \in Stages
      BY DEF IInv, TypeOK, TapeTypeOK
    <3>4. StageWork' < StageWork
      BY <3>2, <3>3 DEF StageWork, Stages
    <3> QED
      BY <1>2, <1>9, <3>1, <3>4
  <2>8. ASSUME NEW p \in Pids, ShimStep(p) PROVE Done
    BY <1>5, <1>9, <2>8
  <2> QED
    BY <1>9, <2>1, <2>2, <2>3, <2>4, <2>5, <2>6, <2>7, <2>8 DEF TapeNext, Finish, Listen
<1>10. ~RunnerOver /\ ~UNCHANGED vars
  BY DEF RunnerOver
<1>11. Done
  BY <1>6, <1>7, <1>8, <1>9, <1>10 DEF Next, Taper
<1> QED
  BY <1>1, <1>11, LessWork, Zenon DEF Work

(* The half of FinishReturns that is about steps: from finish, or from a   *)
(* failure, on, the scenario, its shim and the script have only so many    *)
(* steps left, however much the shim has to say and however little its     *)
(* pipe takes.                                                             *)
THEOREM StepsAreCounted == Spec => EveryStepCounts
<1> DEFINE Counts == stage \notin {"connecting", "driving"} => Work' < Work
<1>1. Init => Begun
  BY DEF Init, TapeInit, Begun
<1>2. IInv /\ Begun /\ [Next]_vars => Begun'
  BY BegunStep
<1>3. IInv /\ Begun /\ [Next]_vars => [Counts]_vars
  BY WorkStep
<1> QED
  BY <1>1, <1>2, <1>3, Invariance, PTL DEF Spec, EveryStepCounts
=============================================================================
