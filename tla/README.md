# A TLA+ development of helmor-taper

helmor-taper drives the Helmor desktop app through its MCP bridge plugin (JSON
frames over a WebSocket), asserts what the app shows, records its window with
ScreenCaptureKit, and leaves `result.json`, a `.mov`, an `.mp4` and a `.gif` per
scenario.  Next to the recorded scenarios there are headless probes, and shell
scripts that prepare a container for both.

This directory models the parts that carry state across steps, checks them with
TLC on small instances, and proves the core with TLAPS for all instances.

    tlc -workers 2 -config MCBridge.cfg MCBridge      # any run of the table below
    tlapm BridgeProofs.tla                            # any proof module

Contents: [inventory](#inventory), [modules](#modules), [runs](#runs),
[fairness](#fairness), [proofs](#proofs), [findings](#findings),
[what is left out](#what-is-left-out), [plan](#plan).

## Inventory

| component | source | state | operations | hard behaviour | what makes it correct |
|---|---|---|---|---|---|
| bridge client | `src/bridge/client.rs`, `protocol.rs` | the `pending` map, a oneshot per request, the writer mutex, the reader task | `request`, the reader loop | concurrent callers, reader against timer, late/repeated/foreign frames, failed and blocked writes, the end of the connection | an answer reaches its own request; no entry outlives its call; a reported failure happened; every call returns |
| bridge connect | `client.rs` | port under scan, deadline | `connect` | ports come and go during a scan; an attempt has no limit of its own | no bridge that is there is missed; an end |
| commands | `commands.rs`, `tape/mod.rs` | `window.__taper[slot]` in the page; deadlines | `invoke_command`, `poll_result`, `invoke_and_wait`, `invoke_async`, `poll_until_done` | slots reused, scripts evaluated late, reloads, settlement against deadline | an invocation reports its own command's outcome, not before the deadline that there is none, and ends |
| recorder | `tape/screencapturekit.rs`, `scripts/record-window.swift` | `Child`, its stderr pipe, the `.mov` | `start`, `wait_for_finish`, `Drop` | the shim blocks on a full pipe, fails at any time, outlives its parent | every shim is reaped; the wait ends |
| tape | `tape/mod.rs`, `tape/post.rs`, `bin/taper.rs` | assertions, beats, the recording under way, the output directory | `build`, `assert`, `scene`, `start_recording`, `finish`, `run_scenario` | each step of `finish` may fail after the ones before wrote files; files of an earlier run | exit code, `result.json` and media agree |
| ssh config | `scripts/ssh-config.sh` | `~/.ssh/config` and its `.tmp` | `add`, `remove` | a kill between two writes, a failing filter, the user's own edits | the user's lines stay; one block per alias |
| resilience scenario | `scenarios/resilience.rs` | what the last poll saw; the container | `run`, `wait_for_state` | Helmor notices late, drops and retries by itself; an error with the container stopped | a pass tells of an outage and a recovery; the container comes back |
| chat scenarios | `scenarios/isolation_proof.rs`, `chat_real_on_remote.rs` | baseline, time stamps; `session_messages`; a file in the container | `send_and_wait`, `db_contains_recent`, `run` of each | evidence from history, other turns and late rows | a pass rests on what the prompts it is claimed for left |
| end-to-end demo | `scenarios/end_to_end_demo.rs` | those of a chat, then those of an outage | `run`, beat by beat | both waits and the reconnection drop their results | a pass rests on fresh rows and leaves the container up |
| live probes | `probes/remote_terminal.rs`, `remote_watch.rs`, `remote_agent.rs`, `remote_port_forward.rs`, `daemon_persistence.rs` | objects in the page; terminals, watches, streams, forwards, daemon sessions | `run` of each | leftovers of earlier runs, shared page objects, a daemon that restarts | of watch and forward: a pass rests on the run's own evidence, and a run that gets past the early returns cleans up; of persistence: one daemon throughout |
| command-level probes | `probes/feature_probe.rs`, `bundle_install.rs`, `setup_remote_workspace.rs` | the tally; worktree, clone, bundle and marker in the container | `run` of each | a check that fails does not end `feature_probe`; the marker and the bundle of earlier runs | a pass of `feature_probe` rests on the run's own marker, of `bundle_install` on its own reply, if it asks for one |
| panel walk-throughs | `scenarios/connect_over_ssh.rs`, `remote_runner.rs`, `first_connect_bundle.rs`, `remote_file_ops.rs`, `agent_on_remote.rs`, `remote_workspace.rs`, `observability.rs`, `row_actions.rs`, `add_remote_wizard.rs` | the runtime's connection, the bundle; chips, rows and toasts of the page | `run` of each | a disconnect whose result is dropped takes effect late; page loads; rows and toasts of somebody else | every run ends; a toast is one since the page was loaded.  That evidence is the run's own does not hold of these (see *weak evidence*) |
| runner script | `scripts/record-remote-runner.sh` | its step; the bundle's README | the preflights, `taper scenario`, the README | `set -e` but for the scenario; a `result.json` of an earlier run, half of one or none | README, exit code and `result.json` part only in named cases |
| screenshot and calendar helpers | `commands.rs`, `tape/mod.rs`, `isolation_proof.rs` | none | `capture_screenshot`, `decode_base64`, `civil_from_days`, `now_iso` | leap years and centuries, padding, a buffer of 32 bits | what comes out is the date, the image |
| converters | `scripts/mov-to-mp4.swift`, `mp4-to-gif.swift` | none | straight lines | none of their own | their outcome, in `Tape` |

How they interact: the runner script runs a scenario as a process of its own; a
scenario or probe (`Scenarios`, `Probes`) owns a `Tape` or a bare `Bridge`; a `Tape`
owns one recorder and calls the commands; every command is two kinds of
`Bridge::request`, one that fires a script and others that poll; the reader task and
the callers share the `pending` map; the page calls back into `window.__taper`.
Nothing but the tokio tasks of one process, the shim and the converters, the page,
Helmor, its container and the user's shell run concurrently.

## Modules

| module | models | built on |
|---|---|---|
| `RequestReply` | what a caller of `request` is promised, without channel, lock or map | |
| `Bridge` | `Bridge::request` and the reader task | implements `RequestReply` |
| `BridgeConnect` | `Bridge::connect` | |
| `RemoteCommand` | what a scenario that invokes commands is promised, without script, slot, poll or clock | |
| `Commands` | the fire-and-poll dance | implements `RemoteCommand`; assumes of a request what `RequestReply` promises |
| `Recorder` | the recorder and its shim | |
| `Tape` | one run of `taper scenario`; no specification of its own | extends `Recorder`, composing the two |
| `Runner` | `record-remote-runner.sh` around that run | extends `Tape`, composing the two |
| `SshConfig` | `ssh-config.sh` | |
| `ScenarioWorld` | what four scenarios share: Helmor's runtime, the container, page, agents and database, the frame of a run | assumes that invocations end (`Commands`) |
| `Chats` | prompts, their waits and judgements | `ScenarioWorld` |
| `Resilience` | the outage, of `resilience` and of the demo | `ScenarioWorld` |
| `Scenarios` | `resilience`, `isolation-proof`, `chat-real-on-remote`, `end-to-end-demo` as whole runs | composes the two |
| `ProbeWorld` | one Helmor, its page, one container; the frame of a run: steps, `?`s, cleanup calls | assumes that requests end |
| `LiveProbes` | the five live probes | `ProbeWorld` |
| `SetupProbes` | the three command-level probes | `ProbeWorld` |
| `Walkthroughs` | nine panel walk-throughs | `ProbeWorld` |
| `Probes` | any of these seventeen, one run after the other | composes the three |
| `Helpers` | time stamps beside a calendar, the base64 decoder beside an encoder | |
| `BridgeProofs`, `BridgeConnectProofs`, `CommandsProofs`, `RunnerProofs`, `SshConfigProofs`, `ScenariosProofs`, `ProbesProofs`, `HelpersProofs` | the theorems | the module of that name |
| `MC*` | one per module that is run | |

**Correspondence.**  An action is a critical section: the code between two
awaits (tokio), or between two things another party can see.  Guards are the
early returns and conditions of the code, in its order.

* `Bridge`.  `pending` is the map's key set; the sender of a request is dropped,
  sent on or in the map, which is its `chan`.  `writer` is explicit since it is
  held across the await in line 218; `pending`'s mutex never is, so `Register`,
  `GiveUp`, `AbortWrite`, `Route`, `ReaderExits` are atomic.  `timeout(d, rx)`
  polls `rx` first, hence the guard of `TimerFires`.  The
  time between the timer and the removal of the entry is the stage `expired`: there
  the reader may still route a response to the request.
* `BridgeConnect`.  One attempt lasts as long as its port keeps it waiting: a port
  refuses, accepts, or is silent, and may change at any time.
* `Commands`.  `taper` says whose object a slot holds, `object` what is in it: the
  callbacks write to the object they captured and not to the slot, and that
  is why a late settlement of an earlier command harms nobody.  A script whose
  request failed stays in `queue`.  `Told` is what `RemoteCommand` sees of an invocation.
* `Recorder`, `Tape`.  The shim's pipe has a capacity, and only the thread of
  `wait_for_finish` reads it.  `finish` is seven steps, each with its failure;
  a failing step leads to `failing`, whose `Bail` drops the tape.  Through `process::exit(1)`
  nothing is dropped.  `AlreadyStarted` and `NotStarted` cannot come
  from a recorder that a `Tape` owns.
* `Runner`.  `Preflights` is the order of the script under `set -e`; only the wait for a
  healthy container goes on past its last try.  `Reading` is what `jq` answers: nothing
  for an empty `result.json`, an error for half a one or none, and there may be no
  `jq`.  A shim that a killed scenario left behind runs on (`ShimGoesOn`).
* `SshConfig`.  Lines are records, the ten body lines of a block are one.  `Filter` is the
  awk program reading a line, `step` what the script does next; a kill, or a write that
  fails, may come between any two of them.
* `Scenarios`.  Outage and chat live in one world, so that the demo is the one after the
  other; `Meanwhile` is the change of runtime and connection it does not watch in between.
  Each wait of the outage is a pair of "last label" and "deadline passed", as in
  `wait_for_state`, which starts with `(unknown)` and gives back what it saw last; the
  demo's waits give back nothing (`Asserted`).  `created_at >= time stamp` is compared
  through phases: between two time stamps of the scenario, and before or after a
  judgement; only `isolation_proof` stamps its prompts (`Stamped`).  The file that
  `chat_real_on_remote` asks for last is absent, of an earlier run or of this one.
* `Probes`.  What is opened in Helmor is a pair of a kind and the run it was
  opened for; `fired` is what a script of the page asked for and may still come,
  also after the run that asked is over.  `Error` is every `?`, with or without the
  effect of the call that failed.  `Checks` is `record` of `feature_probe` and
  `Tape::assert`, which note a failure and go on.  A page load takes objects,
  callbacks and chips with it.  A toast belongs to
  the run whose click brought it, or to 0 when Helmor shows it for a reason of its own.
* `Helpers`.  A character of base64 is the number of its six bits.  The page sends its
  screenshot character by character (`Send`), with a `data:` prefix or without, with spaces
  or foreign characters anywhere (`SendNoise`), padded or not (`Respond`); `Clean`, `Trim` and
  `Decode` are one iteration each of the filter, `trim_end_matches` and the decoder's loop.  A
  time stamp is its six fields, fixed in width; beside it runs a calendar
  (`NextDay`, `NextSecond`).

## Runs

Every run is checked in full (no simulation) and in at most two to three minutes.

| run | instance | states | what it shows |
|---|---|---|---|
| `bridge` | two requests, one frame out, two in | 48 thousand | `AnswerMatches`, `NoLeak`, `FailureTruthful`, `AnswerWins`; the inductive invariant `IInv`; `Implements` and `ImplementsFair`: `Bridge` refines `RequestReply`, its liveness included |
| `bridge_late_waiter` | the same | violation | finding 1 |
| `connect` | three ports, three ticks | 1,131 | `NoBridgeMissed`; in `IInv`, that `NoBridge` comes only after the deadline; `ConnectReturns` if handshakes end |
| `connect_hang` | two ports, two ticks | violation | finding 2 |
| `commands` | two calls, two slots, deadline 3, pause 2 | 48 thousand | `OwnOutcome`, `NotBeforeDeadline`, `InvocationReturns`, `UntilReports`; `Implements`: `Commands` refines `RemoteCommand` |
| `runner` | one shim, two assertions, one scene, two ticks | 1.1 million | `NoOrphan`, `ExitHonest`, `VerdictsAgree`, `RecordedIsOurs`, `FinishReturns` |
| `ssh_config` | two aliases, two lines of the user's | 53 thousand | `UserLinesKept`, `OneBlockEach`, `LostOnlyBehindTear` |
| `ssh_config_crash` | the same | violation | finding 3 |
| `scenarios` | one run of each of four, from every state of runtime and container | 410 thousand | `FreshEvidence`, `LaptopUnseen`, `PassMeansRecovery`, `VerdictRestores`, `RunEnds` |
| `isolation_laptop` | the same | violation | finding 4 |
| `probes` | any two of seventeen programs in turn, two daemons | 788 thousand | `NothingLeft`, `SameDaemon`, `OwnEvidence`, `RunReturns` |
| `helpers` | every day from 1970 to 2401, every second of one, images of up to four bytes | 2.0 million | `StampsRight`, `ScreenshotIsImage` |

Each passing run also checks its module's `TypeOK`, inside the inductive invariant
`IInv`.  Next to most operations stands a
mutant, a plausible wrong version of that operation; each property fails when the
mutant takes the operation's place, so none of them holds by the shape of the model.

**Bounds, and why they are enough.**

* *Two requests* (`Bridge`): every race is between one request and the reader, or
  between two requests on lock, map or wire.  `SendCap = 1` makes the second
  write block; `RecvCap = 2` lets a late or repeated frame precede a good one.
  The safety part holds for all values by proof.
* *Three ports* (`BridgeConnect`): a port scanned, one under scan, one ahead.
  Also proved for all values.
* *Deadline 3, pause 2* (`Commands`): the deadline falls into the second
  sleep, the case in which `invoke_and_wait` and `poll_until_done` differ.
  Two calls: an earlier one, late, and the one under way.  Two slots: shared or not.
* *`PipeCap = 1`, `Chatter = 2`* (`Recorder`): the shim says more than the pipe takes.
  `MaxTime`, `MaxAsserts`, `MaxScenes` cap the counters of a run: two
  assertions are needed to have a failed one before a passed one.
* *Two aliases and two user lines* (`SshConfig`): a user's line before and one behind
  any block, and another alias' block between.  Proved for all sets of both.
* *Two prompts of `isolation` and `chat_real`, one of `end_to_end`; `MaxMessages = 2`,
  `MaxRows = 1`* (`Scenarios`): one prompt with a predecessor; in `chat_real` one judged
  by rows and one by a file; a message of the wrong party before the right one; for each
  text asked for, and the laptop's name, a row of any age, one beside the other (a second
  row of the same text takes no check's evidence away).  The safety part is proved for every number of
  prompts and without the bounds on messages and rows.
* *`Runs = 2`, `MaxEpochs = 2`* (`Probes`): an earlier run that leaves something
  behind, and a daemon that restarts.  The safety part is proved for all values.
  `DaemonMatters`, `SessionsMatter`, `ToastsMatter` keep the state space small: while a
  run is under way that never looks at daemon, sessions or toasts, their events wait for
  the next run that does, which finds them as it would have.
* *`LastDay` past 2401* (`Helpers`): the calendar repeats after 400 years, so every day it
  knows is met.  `Modulus = 4096`: in the code's 32 bits, the buffer overflows after five
  characters; in twelve it does within the images of a run, so that what is shifted out is
  seen not to matter.  `MaxBytes = 4`: each remainder of three, and a group before it.
  `MaxNoise = 2`: a space and a foreign character, in either order.  Proved for every day,
  image, noise and buffer.

Deadlock is checked in every run but `helpers`: final states have an explicit stuttering
action (`Finished`, `Connected`, `Idle`, `RunnerOver`, `Over`).  `helpers` has an end, its
last day or byte, and stops there.

## Fairness

* tokio runs every ready task and fires every timer: `WF` of what a call, the reader
  or a scenario does next.  A task blocked in `send` is not ready, so
  `DrainedSpec` additionally has the peer read its socket; without that a caller
  waits for ever (hazard at `client.rs:217`).
* `BridgeConnect` has strong fairness of the scan: an attempt meets its port at one
  moment, so a port that flips for ever does not keep it from ending.
  `PromptSpec` adds that a silent port does not stay so; without it `connect_hang`
  shows what happens.
* `Commands` assumes that a request returns, which is what `ImplementsFair` says.
  Of Tauri commands and the page nothing is assumed.
* `Runner`: the script, the process of the scenario and the shim run.  Nothing makes a
  scenario reach `finish`; from there to the script's end is `FinishReturns`.
* `Scenarios`, `Probes`: calls return and deadlines pass.  A reconnection of a runtime that
  Helmor does not know fails.  Nothing else is assumed of Helmor, the container, agents,
  daemon or page.

## Proofs

All for every value of the constants, from the assumptions stated with them
(`RequestsAssumption`, `CapAssumption`, `ScanAssumption`, `CallsAssumption`,
`TimesAssumption`, `NoAliasAssumption`, `PidsAssumption`, `PipeAssumption`,
`TapeAssumption`, `NAssumption`, `ProbesAssumption`, `HelpersAssumption`), which the runs evaluate.  Where a run bounds a counter in a guard,
the theorem holds for every bound.

* `BridgeProofs`.  `Invariance`: `Spec => []IInv`.  `AnswerMatches` and
  `FailureTruthful` are not inductive: that an answer fits must be known of
  a frame on the wire (`WireHonest`), then of one in a channel
  (`PayloadMatches`), then on return; that a failure happened must be known
  of a stage before the return (`StageConsistent`).  One lemma per
  action; the conjuncts follow as `AnswersMatch`, `PendingNeverLeaks`,
  `FailuresAreTruthful`.  `AnswersWin` is the action property.
  `Refinement`: `Spec => RR!Spec`; registration maps to `Start`, the peer's
  read to `Reach`, a return to `Answer` or `Fail`, the end of link or reader
  to `GoDown`, all else stutters.
* `BridgeConnectProofs`.  `NothingMissed`, `NeverEarly`: an invariant on how far a scan
  has come (`ScanComplete`): what has been a bridge since the scan began is at
  or ahead of the port under scan.  `DeadlineEndsScans`.
* `CommandsProofs`.  `OutcomesAreOwn`, `DeadlinesAreKept`.  That a call is told its own
  command's outcome must be known of every object in the page (`ObjectsOwn`), then of the
  slot the poll reads (`SlotOwned`), then of the answer heard (`HeardOwn`).  `SlotOwned`
  is what needs the rest: only the last script sent may still write the slot (`InTurn`),
  since a call to come has left nothing on the way (`Fresh`) and a command is started by one
  script (`FiredOnce`).  `Refinement`: `Spec => RC!Spec`.  The end of an invocation maps to
  `Learn`, `GiveUp` or `Fail`, a settlement to `End`, a page load to `Forget`; a fire script
  that is evaluated maps to `Start`, also one whose request failed long ago.  That a command
  starts at most once and never after its invocation was settled or given up is what needs
  the scripts on the way, and that only a started one is given up, `GivenUpStarted`.
  `MovesAreCounted`.
* `RunnerProofs`.  `NobodyIsOrphaned`, `ExitsAreHonest`, `ReadmeAgrees`, `RecordingsAreOurs`.
  The strengthening says of every stage of a run what its recorder does and which files
  are its own (`OneChild`, `Media`, `StageRecorder`), whose `result.json` there is
  (`StageResult`), and what the script knows of it (`StepReadme`).  `StepsAreCounted`.
* `SshConfigProofs`.  `UserLinesAreKept`, `BlocksAreWhole`, `LossIsBehindTears`.  Every
  line is in the file once, and each line of a block but the opening one has the right one
  before it, kills or not (`File`).  Of awk it must be known that what it copied is what it
  read, in that order, without the alias's lines, and that of the others it dropped only
  lines below an opening line of the alias that is nowhere closed (`Copied`, `OpenAbove`);
  without kills no line has such a one above it (`Whole`).
* `ScenariosProofs`.  `EvidenceIsFresh`, `LaptopIsUnseen`, `PassIsRecovery`,
  `ContainerIsRestored`.  The strengthening ties the clock of the rows to the step the
  scenario is at (`Clock`, `Table`) and says that the assertions hold of the prompts judged
  so far, also after more rows came (`Judged`): rows are never ahead of the clock, so nobody
  can write one for a phase that is over.  Of the outage it says that the labels a wait saw are
  backed by what happened (`Story`).
* `ProbesProofs`.  `DaemonIsTheSame`, `EvidenceIsOwn`, `NothingIsLeft`.  Which step belongs to
  which program is `Place`; what was asked for in whose name, `Asked`; where something of the
  run may be open at all, `Opened`; and at each step after a look, that what was read is
  what the verdict will rest on, `Evidence`.  All three are about the step that hands out the
  verdict: one of three early returns, one of three that end a cleanup, or one of a program
  that has nothing to clean up (`EndingStep`, `PassingStep`).  `EvidenceIsOwn` is about six
  programs, those that `OwnEvidence` names; of the others no such thing holds.
* `HelpersProofs`.  `StampsAreRight`, `ScreenshotsAreImages`.  The calendar counts, so the
  proof that `civil_from_days` follows it goes from one day to the next (`DateStep`): a
  day is in one year of its 400 (`YearFound`, `YearUnique`), the month's formula steps from
  a month's last day to the first of the next (`MonthStep`), and the leap day is
  the last of its year.  Of the capture: which of the page's own characters each character of
  the data URL is (`Sent`), hence of the filtered text (`Cleaned`); that what is trimmed
  is the image's characters and no more (`Trimmable`); and that the bits the decoder has
  over begin the image's next byte (`Decoded`), whatever a buffer of twelve bits or more
  has dropped (`Overflow`).  `Foreign` splits all of it in two, since behind a
  foreign character nothing is known of the text but that it will be refused.

Liveness is only model-checked (the prover does not do `ENABLED`), and with it the fair
half of the first refinement.  What steps can say of it is proved where the code counts:
`EveryMoveCounts`, `EveryStepCounts` and `LastScan` give the awaited end a rank that its
steps lower and nothing raises.  An invocation has a sleep less before its deadline with each
round of polls, and from `finish` on every step of scenario, shim and script is one less
to go, whatever is in the pipe.  What is left to TLC is that the next step comes.  In
`Bridge`, `Scenarios` and `Probes` there is nothing to count: a request waits, and a scenario
polls, until a timer fires.

## Findings

Each is a sentence of the repository that a run refutes; PROJECT.json quotes them.

1. `bridge_late_waiter`: a request that registers after the reader left is not dropped
   "cleanly", it waits out its timeout (`client.rs:10-12` against 211).
2. `connect_hang`: a port that accepts and stays silent holds `connect` beyond
   its deadline (`client.rs:3-4` against 109).
3. `ssh_config_crash`: after an `add` killed half way, the next run for the alias removes the
   user's lines behind the open block (`ssh-config.sh:15-16` against 40).
4. `isolation_laptop`: the laptop's name is looked for after the first prompt
   only (`isolation_proof.rs:13-14` against 344).

Met on the way, and not refuted by a sentence of the repository, or by one too loose to
be a property.

* *Leftovers.*  A `remote_port_forward` that returns early (lines 94, 116) leaves its server,
  which fails every later run until a run that got past it, or somebody, kills it;
  `NothingLeft` excepts these returns and that of `remote_watch` (line 120), errors, and
  cleanup calls that fail.  Marker files are never removed.  Two runs of `remote_agent` share
  `window.__taper` (so `OwnEvidence` says nothing of it).  `feature_probe` drops the result of
  planting its marker, but reads the text back.  The runner script's README says PASS over a run that failed when
  `result.json` is an earlier run's, or when the run was killed or its recording failed
  after it was written: `VerdictsAgree` names these cases.
* *Dropped results.*  `resilience` drops what its second wait returns (line 121).  The demo
  drops both waits and the reconnection: it passes with a runtime that never came back, where
  its header says "docker start → Reconnect → green" (`end_to_end_demo.rs:19`).  The flag that
  an answer arrived is not asserted in every chat scenario.  `bundle_install` passes without a
  binding, so without an agent.
* *Weak evidence.*  `row_says_connected` looks for `connected`, which `disconnected`
  contains (`connect_over_ssh.rs:177`); `remote_runner` asks the backend as well.
  `agent_on_remote` takes the first row of the list, `daemon_persistence` the last session,
  whoever's.  `remote_file_ops` looks for the marker's name in all the dialog says (lines
  154-158), the tree of before planting included, and never reads its text: a file that an
  earlier run of it, of `feature_probe` or of a chat left, which has the same name, makes
  `marker_in_changes` true whatever the changes list, where its header says that the second
  probe "conclusively shows the call hit the container" (lines 10-12).  An empty log passes
  `daemon_log_has_lines`: splitting the empty text gives one line (`observability.rs:165`).
  `copy_toast` takes any toast.  The `helmor-taper` that `chat_real_on_remote` looks for
  in the table (line 324) occurs in the paths of the container, also in rows of another
  prompt, where its header (lines 9-10) has the README quoted; like the demo it looks for
  rows without a time stamp, so that only the wipe keeps an earlier run's out.
  `bundle_install` compares the sum of `claude` only, where its header speaks of the sums of
  all files, and its `REMOTE_AGENT_OK` occurs in the prompt that asks for it.  The terminal echoes the line `remote_terminal` types, marker
  included, which may end the wait for the output (line 122).
* *Numbers.*  `ConnectionClosed` counts the map after it was cleared (228).
  `base_port + port_scan` is `u16` arithmetic (107); no port the program itself configures is
  near the edge.  `mv` gives `~/.ssh/config` the mode of its `.tmp`.

## What is left out

* *The command line*: argument parsing, the tables of scenarios and probes, `eval`,
  `windows` and `smoke-record` are straight lines of calls; what `run_scenario` makes of a
  verdict is in `Tape`, `ping` is a preflight of `Runner`.
* *`NullRecorder`, `AlreadyStarted`, `NotStarted`*: the tests' double, and errors no `Tape` meets.
* *`regex_like_semver_check`*: an outcome of its assertion.  *Milliseconds* of a time stamp, and its
  text: a format of fixed width.
* *The converters*: AVFoundation callbacks in one process that exits with 0 or not;
  `Tape` has both outcomes.
* *Contents and layout of what is recorded*: captions, notes, sizes, JSON fields.  Assertions
  are outcomes, true or false, except where their condition is what a property is about.
* *Time*: deadlines pass or not, at any moment; durations are ordered only where the code
  compares them (`Commands`, `BridgeConnect`).

## Plan

Done: the bridge with its promise, commands, recorder, tape and runner script, the ssh
config, the four scenarios with a world of their own, probes and walk-throughs, the
helpers; proofs of the safety properties of all of them.  What would come next:

1. `taper smoke-record` over `Recorder`, once it does more than start and wait.
2. `Runner` from more than one container: `docker compose` and the daemon's health as a
   world of their own, as `ScenarioWorld` has it for `resilience`.
