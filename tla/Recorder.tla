------------------------------ MODULE Recorder ------------------------------
(***************************************************************************)
(* ScreenCaptureKitRecorder of src/src/tape/screencapturekit.rs: it spawns *)
(* the shim scripts/record-window.swift, which records for a fixed time    *)
(* and writes the .mov, keeps its Child, waits for it while a thread       *)
(* drains its stderr, and kills it when dropped.                           *)
(*                                                                         *)
(* Its owner (module Tape) calls start, wait_for_finish, which blocks its  *)
(* caller, and drops the recorder at some point.  It looks itself whether  *)
(* a recording is under way, so that AlreadyStarted and NotStarted are     *)
(* never returned.  stderr is a pipe of the kernel: nobody reads it before *)
(* wait_for_finish, and the shim blocks on a full one.                     *)
(***************************************************************************)
EXTENDS Naturals, FiniteSets

CONSTANTS
  Pids,              \* processes the kernel may spawn
  NoPid,
  PipeCap,           \* lines of stderr the pipe takes
  Chatter            \* lines a shim writes at most

ASSUME PidsAssumption == NoPid \notin Pids
ASSUME PipeAssumption == PipeCap \in Nat \ {0} /\ Chatter \in Nat

VARIABLES
  child,             \* the Child the recorder holds
  life,              \* the recorder: free, blocked in wait_for_finish, dropped
  proc,              \* the shim processes
  unsaid,            \* lines of stderr a shim has still to write
  pipe,              \* lines in its stderr pipe
  drained,           \* the reading thread of wait_for_finish saw the end
  said,              \* what the last call returned
  mov                \* the output file

recorderVars == <<child, life, proc, unsaid, pipe, drained, said, mov>>

Alive    == {"starting", "recording"}
Dead     == {"exited", "failed"}       \* not yet waited for
Processes == {"unborn", "reaped"} \cup Alive \cup Dead
Answers  == {"nothing", "ok", "Shim"}

(* A file: who wrote it (NoPid: an earlier run, or nobody), and how far.   *)
Files == [by : Pids \cup {NoPid}, state : {"absent", "old", "partial", "whole"}]

RecorderInit ==
  /\ child = NoPid
  /\ life = "free"
  /\ proc = [p \in Pids |-> "unborn"]
  /\ unsaid = [p \in Pids |-> 0]
  /\ pipe = [p \in Pids |-> 0]
  /\ drained = FALSE
  /\ said = "nothing"
  /\ mov \in {[by |-> NoPid, state |-> "absent"], [by |-> NoPid, state |-> "old"]}

-----------------------------------------------------------------------------
(* The recorder.                                                           *)

(* start: the shim is spawned, with all it will ever say on stderr.        *)
Spawn(p) ==
  /\ life = "free" /\ child = NoPid
  /\ proc[p] = "unborn"
  /\ proc' = [proc EXCEPT ![p] = "starting"]
  /\ \E n \in 0..Chatter : unsaid' = [unsaid EXCEPT ![p] = n]
  /\ child' = p
  /\ said' = "ok"
  /\ UNCHANGED <<life, pipe, drained, mov>>

(* start: there is no such program.                                        *)
SpawnFails ==
  /\ life = "free" /\ child = NoPid
  /\ said' = "Shim"
  /\ UNCHANGED <<child, life, proc, unsaid, pipe, drained, mov>>

(* wait_for_finish takes the child and sets a thread to read its stderr.   *)
WaitBegins ==
  /\ life = "free" /\ child # NoPid
  /\ life' = "waiting"
  /\ drained' = FALSE
  /\ UNCHANGED <<child, proc, unsaid, pipe, said, mov>>

(* Mutant: stderr is read once the child has exited.                       *)
DrainLate ==
  /\ life = "waiting" /\ pipe[child] > 0 /\ proc[child] \in Dead
  /\ pipe' = [pipe EXCEPT ![child] = @ - 1]
  /\ UNCHANGED <<child, life, proc, unsaid, drained, said, mov>>

(* The thread reads on; it ends when the pipe is empty and closed.         *)
Drain ==
  /\ life = "waiting" /\ pipe[child] > 0
  /\ pipe' = [pipe EXCEPT ![child] = @ - 1]
  /\ UNCHANGED <<child, life, proc, unsaid, drained, said, mov>>

DrainEnds ==
  /\ life = "waiting" /\ ~drained
  /\ pipe[child] = 0 /\ proc[child] \in Dead
  /\ drained' = TRUE
  /\ UNCHANGED <<child, life, proc, unsaid, pipe, said, mov>>

(* Mutant: the exit status is not looked at.                               *)
WaitIgnoresStatus ==
  /\ life = "waiting" /\ drained
  /\ life' = "free"
  /\ child' = NoPid
  /\ proc' = [proc EXCEPT ![child] = "reaped"]
  /\ said' = "ok"
  /\ UNCHANGED <<unsaid, pipe, drained, mov>>

(* child.wait() and join return; the exit status decides.                  *)
WaitEnds ==
  /\ life = "waiting" /\ drained
  /\ life' = "free"
  /\ child' = NoPid
  /\ proc' = [proc EXCEPT ![child] = "reaped"]
  /\ said' = IF proc[child] = "exited" THEN "ok" ELSE "Shim"
  /\ UNCHANGED <<unsaid, pipe, drained, mov>>

(* Mutant: the child is killed, and nobody waits for it.                   *)
DropKillsOnly ==
  /\ life = "free"
  /\ life' = "dropped"
  /\ child' = NoPid
  /\ proc' = IF child = NoPid THEN proc ELSE [proc EXCEPT ![child] = "failed"]
  /\ UNCHANGED <<unsaid, pipe, drained, said, mov>>

(* Drop: a child nobody waited for is killed and reaped.                   *)
Drop ==
  /\ life = "free"
  /\ life' = "dropped"
  /\ child' = NoPid
  /\ proc' = IF child = NoPid THEN proc ELSE [proc EXCEPT ![child] = "reaped"]
  /\ UNCHANGED <<unsaid, pipe, drained, said, mov>>

-----------------------------------------------------------------------------
(* The shim.                                                               *)

(* A line on stderr, when the pipe has room.                               *)
ShimSpeaks(p) ==
  /\ proc[p] \in Alive
  /\ unsaid[p] > 0 /\ pipe[p] < PipeCap
  /\ unsaid' = [unsaid EXCEPT ![p] = @ - 1]
  /\ pipe' = [pipe EXCEPT ![p] = @ + 1]
  /\ UNCHANGED <<child, life, proc, drained, said, mov>>

(* It found the window: the old file goes, a new one begins.               *)
ShimOpens(p) ==
  /\ proc[p] = "starting"
  /\ proc' = [proc EXCEPT ![p] = "recording"]
  /\ mov' = [by |-> p, state |-> "partial"]
  /\ UNCHANGED <<child, life, unsaid, pipe, drained, said>>

(* No window, no permission, a crash.                                      *)
ShimFails(p) ==
  /\ proc[p] \in Alive /\ unsaid[p] = 0
  /\ proc' = [proc EXCEPT ![p] = "failed"]
  /\ UNCHANGED <<child, life, unsaid, pipe, drained, said, mov>>

(* The duration is over and the file finalised, unless the stream had      *)
(* stopped on its own: then the shim exits 0 without waiting for the file. *)
ShimExits(p) ==
  /\ proc[p] = "recording" /\ unsaid[p] = 0
  /\ proc' = [proc EXCEPT ![p] = "exited"]
  /\ mov' \in {mov, [by |-> p, state |-> "whole"]}
  /\ UNCHANGED <<child, life, unsaid, pipe, drained, said>>

-----------------------------------------------------------------------------
RecorderTypeOK ==
  /\ child \in Pids \cup {NoPid}
  /\ life \in {"free", "waiting", "dropped"}
  /\ proc \in [Pids -> Processes]
  /\ unsaid \in [Pids -> 0..Chatter]
  /\ pipe \in [Pids -> 0..PipeCap]
  /\ drained \in BOOLEAN
  /\ said \in Answers
  /\ mov \in Files
=============================================================================
