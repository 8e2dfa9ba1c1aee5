# A TLA+ verification project for the SkyRoads port

The repository ports the DOS game SkyRoads. Its original machine code is
carried by about 113 000 generated lines of Python (`skyroads/lifted`,
`skyroads/recovered`), and parts of it are replaced by authored code:
algorithms in `skyroads/handrecovered`, assemblies of them in
`skyroads/native`, and one long-lived *region*, `skyroads/gameplay_region.py`,
which takes the machine over while a level is played. Frame drivers deliver the
timer interrupts and decide where a displayed frame ends; a replay layer
captures and restores the machine between frames.

The modules here are about the authored code and its seams: what a level does
from body to body until it is handed back, how the region stands in for the
generated handler `1010:1FD9` it replaces, where each of three drivers ends a
displayed frame, whether a replay reaches the states its recording had, how the
ship is moved among the blocks of a road, and how effects reach the mixer.

Contents: [inventory](#inventory), [plan](#plan), [modules](#modules),
[runs](#runs), [bounds](#bounds), [fairness](#fairness),
[proofs](#proofs), [disagreements](#where-the-code-and-its-documents-disagree),
[limits](#what-is-not-modelled).

## Inventory

For each component: the state it keeps, its operations, who it talks to, what
is hard about it, and what makes it correct.

**Gameplay body and level life cycle** (`native/loop.py`, with
`orchestration.py`, `menu.py`, `progression.py`, `player.py`, `dynamics.py`,
`collision_response.py`, `effect_avoidance.py` of `handrecovered`).
State: the DGROUP words of the level (game state `ds:[456E]`, settle clock
`ds:[456A]`, frame counter `ds:[4558]`, position, fuel, oxygen, height, vertical
velocity, the owed displacement `[AF30:AF2E]` and its mark) and the four locals
of the handler that `GameplayScratch` carries from body to body. Operations: one
body (`native_gameplay_body`), leaving the road by an exception, the
continuation gate (`should_run_gameplay`), the reset of a new level. Hard:
a dozen stages write the same few words in an order that matters; an ended
level runs on for a settle window; three tests may each name an outcome;
unsigned timers underflow; a displacement made in one body is paid back in a
much later one. Correct when: a level under control is healthy, an ended one
has one cause and only settles, it is always handed back, never as zero, and no
displacement outlives the jump that made it.

**Authored gameplay region** (`gameplay_region.py`). State: the session with
its Python copy of the locals and its `awaiting_elapsed` flag, the collapsed
hooks, and in the machine the local tick `SS:[BP-2]`, the frame start
`SS:[BP-4]` and the timer `DS:[1600]`. Operations: handoff, `advance` (wait,
batch of bodies, three exits), restore. Called by the frame driver; calls the
body, the renderer, the HUD and, for sounds, generated code. Hard: state kept
twice; restores at any frame; a timer that wraps; hooks of generated code taken
out and put back. Correct when: the machine evolves as under the generated
handler, the session may be dropped between any two frames, and no hook is lost.

**Generated handler 1010:1FD9** (`lifted_1010_1fd9.py`). The code the region
replaces; its pacing loop is the specification of the region.

**Frame drivers.** The game waits for ticks in loops that no instruction of a
frame can end, because a frame brings its six interrupts before it runs. Three
drivers find the end of a frame at the heads of six such loops, three of which
have a body with an effect: *the generated frame driver* (`vmless_backend.py`,
`launch_inputs.py`) by an observer behind the comparison, which parks at the
second arrival by an exception; *frame parking for the interpreter*
(`pacing.py`) by a hook for each head; *the CPUless frame driver*
(`cpuless_driver.py`) by a callback that runs the next frame's interrupts in
place. State: the heads seen in the frame, the kind of the last boundary; in
the generated driver also the region dispatcher. Hard: a body must run before
the wait is parked, and only once; a diagnostic slice (a used-up instruction
budget) is not the end of a frame; flags of a comparison outlive the
interrupts that make it wrong. Correct when: a wait's body runs exactly once
per frame, every frame ends, and every wait is left once its ticks have come.

**Replay driver and frontend** (`replay.py`, `scripts/play.py`,
`product_features.py`). State: the timeline of recorded points, the cursor in
the recorded input, the heads and boundary kind of the driver, a practice
position not yet applied (which a replay is never told of). Operations: record, replay to a point, restore a
cached point. Hard: a console wait raises out of the middle of a replayed
frame; a slice is replayed by its instruction count with the parks suspended;
a restore puts back the machine and nothing the host keeps beside it. Correct
when a replay reaches the state its recording had at each point, from any
cached point, and is refused only where it differs.

**Gameplay harness** (`NativeGameplayHarness` of `native/loop.py`). The
development driver: one gated body per tick, an outcome that is held until
`respawn()` or reset at once. Hard: it resets only part of the level, and
labels a boundary from whatever state is left.

**Swept collision and movement targets** (`movement.py`, `physics.py`, the
responses of `collision_response.py`). Pure functions of a body on words that
wrap: look at five places of the way, go to the last before the first blocked
one, then refine axis by axis. Hard: products that keep their low word, an
unsigned and a circular order of the same words, a truncating division that
ends the loops. Correct when a ship clear of the blocks stays clear of them,
passes none, arrives where nothing is in the way, and the call returns.

**Audio sink** (`audio/sink.py`). State: two cursors over the device's log and
its captured bytes, the buffer of pending effects, the buffer in front of the
mixer, the channel. Operation: `pump`, by the wall clock, once for a presented
frame. Hard: effects overlap, pumps are late, both buffers are cut at a cap,
the channel runs dry. Correct when an effect is mixed whole, is heard late by no
more than two buffers and the time that a stall lasted beyond what a pump makes
up for, and a dry channel plays again.

**Cell classification and input decoding** (`classify.py`, `controls.py`),
**HUD gauges** (`native/hud.py`, `native/dashboard.py`), **music engine, OPL
decoder, synth, sound effects** (`handrecovered/music.py`, `audio/*`,
`native/sfx.py`). Table lookups, delta redraws against last-drawn values,
voices and note pairing, an eight-tick debounce on the wrapping timer. Not
modelled beyond what the modules above need of them.

**Renderer; archives, codecs, intro; carrier adapters; execution catalogue;
state carriers; runtime set-up, release and crash reports; recovery tooling.**
Pure pixel and byte arithmetic, register marshalling, declarative tables and
offline tools. `PROJECT.json` gives the reason for each.

The hazards of this code, each at its line and with the properties that watch
it, are the `hazards` of `PROJECT.json`.

## Plan

Done, in this order:

1. `LevelRun`, its abstract specification `LevelOutcome`, the refinement
   between them, and its proofs.
2. `GameplayRegion` against `HandlerLoop`, and its proofs.
3. `GameplayHarness` on top of `LevelRun`, and its proofs, on the part of
   `LevelRun`'s invariant that its partial reset leaves.
4. The README's own claims about these, as runs that refute them where the code
   differs.
5. `FramePark`, the three frame drivers on one game of waits, and its proofs.
6. `ReplayTimeline`: recording, replaying, restoring, with console waits,
   diagnostic slices and the practice position, and its proofs.
7. `SweptMove`, the swept move and its responses, and its proofs.
8. `AudioSink`, and its proofs.

Left, in the order of what they would add:

* `RegionLevel`: `GameplayRegion` with the bodies of `LevelRun` in it and the
  practice feature's writes between two frames. To check: which invariants of
  `LevelRun` survive a write of the ship's position in flight.
* The music sequencer's voices and the note pairing of the OPL decoder; the HUD
  gauges against a full redraw. Both are sequential, and compared byte for byte
  with the original by the repository's tests.

## Modules

**`LevelRun`** has `view` (the DGROUP words), `scratch` (`GameplayScratch`),
`phase` and `ran`, the number of bodies since the last gate check. One action
per way a level can move:

| action | code |
| --- | --- |
| `GameplayBody` | `native_gameplay_body`, all stages in spine order; `MoveAndSettle` is its second half |
| `RoadDeparture` | its `RoadDepartureTransition`, after the cell has acted |
| `ContinuationGate` | `should_run_gameplay` and the value handed back |
| `Abort` | the escape key, tested before the gate |
| `EnterLevel` | the reset block of the handler |

A stage that depends on the road or on the player is a *set* of results:
which cell is under the ship, whether the way is blocked, what the obstacle
avoidance answers. Steering and the sideways axes decide only such answers and
are not state. Words wrap (`% WORD`, `S16`), fuel is used in proportion to the
position, and the height may wrap below zero inside a body, as in the code.

**`LevelOutcome`** is what a caller may rely on: a level is flown, something
decides it, only the goal cell overrides, and it is handed back.
**`LevelRefinement`** maps `LevelRun` to it.

**`GameplayRegion`** has the machine (place, timer, local tick, frame start,
stack locals, level, AX), a continuation captured earlier, the session, the
installed and the collapsed hooks, and whether a frame is running. Outside the
region the actions are those of generated code (`HandlerStarts`, `RoadReturns`,
`OuterParks`), inside those of `advance`, split at each body: `AdvanceWaits`,
`AdvanceStarts`, `AdvanceBody`, `AdvanceDeparts`, `AdvanceEnds`. Between frames
a continuation may be captured (`Capture`) and restored (`ApplyReplayState`),
and the escape key may change. A body leaves any locals and any level a body of
`LevelRun` could (`LevelsAfter`): the region must be right whatever it leaves.
`advance` is not interrupted between two bodies; the split only names them.

**`HandlerLoop`** is the generated handler's pacing loop, written from the
lifted code: enter, wake, body, tail, departure. It has one machine and no
session; `GameplayRegion` implements it with the machine that has the session's
locals in it.

**`GameplayHarness`** extends `LevelRun`: a tick is its body, then the boundary,
then, with `auto_respawn`, the partial reset.

**`FramePark`** has one game and three drivers. The game begins a wait at one of
six heads (`ReachWait`), with the ticks it still needs; each head has its branch
from the generated code (`DepartureBranch`, `PacingBranch`, `MenuAnimBranch`,
`FadeWaitBranch`, `FadeBlendBranch`, `MenuSceneBranch`) behind a comparison
whose flags are kept in `pc`, so that acting on old flags shows. What a driver
does at a head is its own action:

| action | code |
| --- | --- |
| `GeneratedArrives` | `VmlessDriver._boundary`: pass the first time, park on the head the second |
| `CallbackArrives` | `CPUlessFrameDriver.boundary`: pass the first time, advance in place the second; the loops at `22F8` and `4468` call it on both sides of their comparison (`22F8`/`22FB`, `4465`/`4468`) |
| `InterpreterArrives` | the six hooks of `install_frame_park`, each with its own test |
| `FrameBegins` | the interrupts, and the heads a driver remembers into the frame |
| `InputBlocks`, `BlockingRead`, `Slice` | a console wait, the same in place, a used-up budget |

**`ReplayTimeline`** plays and records a small game, then replays it. A frame is
run an instruction at a time, so that play and replay share the code they share
in the program:

| action | code |
| --- | --- |
| `PlayBegins`, `PlayEnds` | `advance_frame`: the input, the interrupts, the reason the frame ended, the recorded point |
| `Executes` | an instruction of a frame, in play and in a replay |
| `ReplayBegins`, `ReplayEnds` | a round of `replay_to`: the recorded keys (a recorded practice request is passed over), `advance_replay_frame`, the check of the boundary |
| `SliceExecutes`, `SliceEnds`, `SliceBlocks`, `SliceEscapes` | a recorded diagnostic slice in `advance_replay_frame`, and the ways out of it |
| `ReadSurfaces` | a console read that surfaces while a key is delivered |
| `StartReplay`, `ReplayTo`, `Restore` | a new process, a call of `replay_to`, a cached point |

The machine counts what it did, so that one state tells a lost or doubled key,
tick, body or practice position. `missed` is history: the replay has run a frame
in which the recorded play had a practice position waiting.

**`SweptMove`** has the ship, its targets and the blocks of a road. Each loop of
`resolve_move` is a phase, each round of it an action (`Looks`, `Commits`,
`Along`, `Across`, `Height`); `Targets` is `compute_movement_targets` and
`Response` what the rest of the body does to the place of the ship.

**`AudioSink`** has the device's log, the sink of `audio/sink.py` and the mixer's
channel. A call of `pump` is a step for each entry of the log it reads
(`Drains`, a round of `_drain_sb`) and one for the rest (`Feeds`); nothing else
moves in between. `Plays` is the mixer, a sample at a time; `Fires` and
`LogsOther` are the game. Samples are sets of (log entry, position in its
effect), so that a sample lost, moved or mixed twice shows.

The `*_proofs` modules hold the theorems; the `MC*` modules and `AudioSink` are
what TLC runs.

Operators marked `Bug:` are plausible mistakes, each placed before the
definition it spoils. Substituted for it they make a property fail, which shows
that the property depends on the code.

## Runs

| run | states | shows |
| --- | --- | --- |
| `LevelRunSafety` | 1 046 710 | the level's invariants and `EndedLevelOnlySettles` |
| `LevelRunLive` | 91 157 | an ended level is handed back, oxygen ends every level that is not refilled, and `LevelOutcome` is implemented, with its fairness |
| `GameplayRegion` | 952 085 | the region implements `HandlerLoop`, loses no hook, can be dropped at any frame, and a held escape key leads out |
| `HarnessSafety` | 44 912 | after any number of partial resets a level is healthy and labelled with what ended it |
| `FramePark` | 57 646 | a wait's body runs once a frame and before the frame is shown, comparisons are not older than the interrupts, frames end, waits are left, under each driver |
| `ReplayTimeline` | 58 183 | a replay reaches every recorded state, from the base or a cached point, is never refused wrongly, hands each event over once, and returns |
| `SweptMove` | 450 664 | the swept move keeps clear of blocks, passes none, arrives, rests at what stopped it, and returns |
| `AudioSink` | 114 937 | effects are mixed whole and heard late by no more than two buffers and the stalls within them; a dry channel plays again |
| `LevelRunClamp`, `RegionBatchOverrun`, `HarnessKinds`, `HarnessReset` | — | end in a counterexample, see below |

The properties, with the code each is about:

* `AliveIsHealthy`: game state 0 implies fuel, oxygen, a road under the ship,
  and both clocks of the end at zero, though cells, crashes, progression and
  the floor clamp write these words in different stages.
* `OutcomeHasCause`: the outcome that is handed back agrees with the supplies
  and clocks, though a later test of a body may override an earlier one.
* `EndClocksBounded`: how far the two clocks run, and so that no word wraps and
  reopens the gate.
* `DisplacementWithinJump`: the debt of the obstacle avoidance belongs to the
  jump in the air, and bounds how far past the end the ship can be.
* `WreckNeverAdvances` (action): a body that begins with a wreck does not end
  further along the road. The crash clears speed, jump and debt in one stage, and
  fuel, cell and avoidance write these words in others. Contacts may still take
  a wreck back (`LateralCrash`, `ContactBrake`).
* `EndedLevelOnlySettles` (action): what a step may no longer do to an ended level.
* `GateReturnsOutcome`, `ImplementsOutcome`: what the caller sees.
* `EndedLevelReturns`, `OxygenRunsOut` (liveness).
* `SessionRestorable`, `HooksConserved`, `ImplementsHandler`, `EscapeReturns`:
  the region.
* `KindNamesCause`: the harness's labels.
* `BodyOncePerFrame`: a wait's body runs once for the interrupts of a frame.
  With the generated driver also over the slices of an unfinished frame, which
  is what `vmless_backend.py:178` is for. With the callback it may run twice:
  `advance` clears the heads seen and returns into a body it has not counted.
* `ComparesAfterInterrupts`: the branch behind a head is not taken on flags the
  interrupts have made wrong; only the callback returns behind an old
  comparison, and that only makes one more body.
* `BodyBeforePark` (action): no frame is shown at a side-effecting head before
  its body has run in it, unless another wait at the same head was left in the
  same frame. The exception is real, see below.
* `FramesEnd`, `WaitsEnd` (liveness): no driver loops in a frame or keeps the
  game in a wait that is over.
* `Reproduces`, `NoFalseAlarm`, `CursorAtPoint`, `ReplayReturns`: the replay.
  `Exact` says which replays these are about: of recordings without diagnostic
  slices, or of the interpreter's with slices, those that run no frame in which
  the recorded play had a practice position waiting. Such a frame is not
  replayed as it was (see below), and what it leaves in the host of the
  generated carrier stays there after a restore. `Reproduces` and `NoFalseAlarm`
  say nothing of the others: a recording of the generated carrier with slices may
  go wrong, as the heads seen are in no continuation.
* `StaysClear`, `NoTunnel`, `ArrivesUnhindered`, `RestsAtContact`, `StaysOnWay`,
  `MoveReturns`: the swept move, from any place of the ship. The height and
  the way along the road are what is held at a block; the way across may come
  free again when the height changes after it.
* `EffectsIntact`, `SoundReturns`, and the caps in `TypeOK`: the sink.
* `HeardSoon`: a sample is heard less than two buffers after its time, plus the
  time that stalls within its effect lasted beyond `MAX_PUMP` (`missed`). That
  time is dropped by `pump` and made up by nothing; the property bounds the lag
  it leaves and shows that nothing else adds to it. The bound is exact: TLC
  refutes it with one sample less, and without `missed`.

Deadlock is checked in every run.

## Bounds

`LevelRun` depends on its constants only through their order and through the
sums `ConstantsAssumption` states, and the theorems hold for all of them; TLC
takes the smallest that keep every case: words of 16, a road of four units, a
milestone in the middle, three heights (below the road, at it, high enough for
the avoidance), jumps that reach the highest, fuel use that is zero at the start
and not at the end, full timers of 5 (of 2 for liveness and the harness).
`MaxBatch = 2` is the only bound that is not the game's: it limits the bodies
between two gate checks, which the code leaves to the timer; two already give a
body that runs after the one that ended the level. Batches may be of any size
up to `MaxBatch` in the proofs.

`GameplayRegion` has words of four values, so the timer wraps every few frames,
and up to two ticks a frame, which gives batches of none, one and two bodies and
every way to wrap in a wait or during a batch. Two contents of the locals are
enough to tell a lost copy, one outcome to tell a result from none, and of
three hooks two are covered. `SnapshotClocks` are the timers of a continuation
that a run without the region saved at `2317`.

`FramePark`: frames of two ticks and waits of up to three, so that a wait takes
none, one or two frames, and two waits in one frame, which is what the heads
seen can confuse. `BodyCap` saturates the counts of bodies, one above what is
allowed.

`ReplayTimeline`: games of six pieces of code, waits of two ticks,
recordings of up to four frames (`MaxPoint`), and a budget of three
instructions (`Budget`), which a frame of the game may or may not fit in. Every recording with a key or none in each frame
and a practice position or none is made, and every one is replayed from every
point.

`SweptMove`: words of 16 values for those of 65 536 and lateral positions of 32
for those of 2^32; three fractions for five; the lateral refinement begins at
steps of 2 and the axis refinements at 4, both halved each round; the bump is 2.
So the words wrap, the two orders of a word disagree and each loop takes several
rounds. The roads are an empty one, a wall with a gap across the road, and a
floor with a hole under a block in the air; the ship starts at every place of
the start of a road. `RoadEnd = 3` bounds the road: without it the lateral
position would wrap after 2^32 units, which no road is long enough for.

`AudioSink`: buffers of two and four samples for a fifth of a second and a
second, effects shorter than a second (3) and longer (5), two log entries, pumps
up to seven samples apart with a limit of three, so that every cap and clamp is
reached, and a stall can last longer than all that is buffered.

No symmetry is used.

## Fairness

* `LevelRun`: weak fairness of `GameplayBody` and `ContinuationGate`. The timer
  interrupt asks for bodies as long as the level runs, and `advance` (and the
  generated handler) looks at the gate after each batch. Nothing makes the
  player act: no fairness on `Abort`, `RoadDeparture` or `EnterLevel`.
* `GameplayRegion`: weak fairness of the steps of a frame (Python code that
  runs to its end), strong fairness of frames that bring a tick. Six interrupts
  are delivered per frame (`cpuless_driver.py:44`, `vmless_backend.py:186`), so
  the timer moves between frames unless it moves by a whole word.
* `FramePark`: weak fairness of frames and of what runs in one: the drivers are
  loops that call `frame` again. Strong fairness of branches, bodies and
  arrivals stands for the fact that a diagnostic slice executes its budget
  before it stops, so that slices cannot keep a body from ending. Nothing makes
  the game begin a wait.
* `ReplayTimeline`: weak fairness of the instructions and rounds of `replay_to`,
  a loop that runs until it returns or raises. `SweptMove`: weak fairness of a
  call's own loops.
* `AudioSink`: weak fairness of `Pump`: the viewer calls it once for each frame
  it presents, and a call runs to its end. None of the mixer: that only makes `SoundReturns` harder.

## Proofs

`tlapm` checks all eight proof modules to the last leaf.

**`LevelRun_proofs`.** The invariant `Inv` is the conjunction of the seven checked
invariants. None is inductive alone. `EndClocksBounded` carries what makes it so:
that the gate can be open past the frame counter's limit only while the settle
window runs, and how far the two clocks are apart; `DisplacementWithinJump` ties
the debt to the latch and the latch to the jump, which `WreckNeverAdvances` and
the clamps need. A body is followed through its stages: one lemma per stage says
what the stage changes and keeps of a mid-body view (whose height may be
negative as a word), `GameplayBody` composes them, and the floor clamp and the
settle clock re-establish `Inv`. `Safety` is `Spec => []Inv`; the other
theorems are its parts, and `EndedLevelsOnlySettle` is an action property from
the same lemmas. They assume `ConstantsAssumption` only: the game's constants
satisfy it, with a word of `0x10000`, as long as a batch is shorter than about
32 000 bodies.

**`LevelRefinement_proofs`.** `Refinement`: every step of `LevelRun` is a step
of `LevelOutcome` or a stutter. It needs `Inv` for the gate (an outcome that is
handed back is not "flying").

**`GameplayHarness_proofs`.** The harness's reset keeps a displacement, so `Inv`
does not hold under it (`HarnessReset` shows how). What is kept of `Inv` is the
part that says nothing of displacements, `LevelInv`, with `WreckSupplied` (a
wreck has fuel and oxygen left), which the labels need: `_classify_transition`
reads the state and says "crash", and nothing at the boundary looks at the
supplies. The stages of a body are shared with `LevelRun_proofs`, whose lemmas
`LevelTail`, `LevelDeparts`, `OpenGate` and `ClosedGate` assume no more than
this part. `KindsNameCauses` and `HarnessLevelsAreHealthy` follow.

**`GameplayRegion_proofs`.** `SessionRestorable` alone is not inductive:
`BatchClosed` adds that a batch ends with the local tick at or past the timer,
that a wait begins with both in step, and that a frame (hence also a captured
continuation) stops only at an entry of the program. With it the machine of the
refinement is the machine itself, and each action is either a step of
`HandlerLoop` or leaves it alone: `RegionImplementsHandler`, for every word
size, set of hooks, and set of locals. `AdvanceStarts` is where
`SessionRestorable` is needed: a session that wakes has really seen its timer
move.

**`FramePark_proofs`.** `BodyOncePerFrame` is not inductive: a body is begun
behind a comparison, long after the head decided. `Inv` adds where a frame can
have ended (`EndPlaces`), that an empty wait has no body (`WaitShape`), that a
head that counts as seen belongs to a wait already left or to this one, which
then has had its body (`SeenHasCause`), and for each driver how its heads seen
bound the bodies begun (`GeneratedSeen`, `InterpreterSeen`, `CallbackSeen`).
One lemma per action; the three safety invariants are parts of it, and
`BodyBeforePark` follows from `SeenHasCause`. Assumed: a frame brings at least
one interrupt.

**`SweptMove_proofs`.** The invariant follows `resolve_move` through its phases:
while it sweeps, the ship is where it was and every fraction looked at was
free; committing takes the last of them; each round of a refinement moves only
to a place it has just found free. Hence `NeverIntoBlock` and
`NeverThroughBlock`, for all word sizes, steps, divisors, fractions and roads:
neither depends on what the arithmetic computes, only on the same arithmetic
being used to look and to go. The other three do depend on it.
`ArrivesWhereAsked` and `ContactHolds`: a refinement ends only behind a step of
one, and a step of one is refused only at the target or at a block, so the
invariant keeps, per axis, that a step of nothing means arrived or held
(`AlongRefined`, `AcrossRefined`, `HeightRefined`); that the steps do come to
one is `StepsAssumption`, which 0x1000 with 16 and 125 with 5 satisfy.
`NeverOffWay`: on a short way no product of the interpolation leaves its word,
every fraction lies between the two ends, the direction's unsigned compare
agrees with the way, and a step that fits does not pass the target.
`MovesComeDown`: every round lowers, in this order, the loops still to come, the
fractions or the step left, and the way left on the axis.

**`AudioSink_proofs`.** `PcmLayout` says where in the captured bytes each effect
lies, which is what keeps the two cursors together; `MixingIsLossless` follows.
`LagIsTheStalls` needs a sample followed on its way to the channel: among the
pending effects it is no later than its effect was when it was mixed in
(`SfxInTime`), in front of the mixer it is late by what lies behind it, which
the cap bounds (`BufInTime`), and in the channel it counts what plays before it
(`ChannelInTime`, `QueuedInTime`), all but for the time that no pump made
samples for (`Late`). A stall beyond the limit of a pump fills the buffer anew,
so it reaches only effects that are not yet taken whole. Assumed of the sizes is only their order:
the limit of a pump is no less than its least length and than the buffer in
front of the mixer, and that buffer can hold what starts the channel.

**`ReplayTimeline_proofs`.** The properties speak of points; a replay in the
middle of a frame has to be compared with the middle of the recorded frame. The
invariant says of every recorded frame that there is a run of instructions, with
the machine and the heads seen before each, that leads from its point to the
next (`AllRecorded`), and of an exact replay that it stands somewhere on the run
of its frame (`Following`). A frame that was cut off by its budget is followed
by its count of instructions, which grows by one with each; any other is
followed with the heads it began with, and an interpreter's larger budget cannot
run out first. What the host keeps beside the machine is tied to the recording
where a replay is exact: it has run no frame in which a practice position
waited, so the controller of both is idle (`Wishes`, `NothingWaits`), and no end
of a frame leaves heads that the next one should not see (`Kinds`). `Handed` and `CursorIs` say which events each point has behind it,
hence `EventsOnce`; `ReplayIsFaithful` and `ChecksAreSound` are the rest. They
hold for every program of the four sorts of code, every budget and every number
of frames. TLC checked the invariant before it was proved, with the runs
computed from the recording instead of chosen. `ReplaysComeDown`: every step of
`replay_to` lowers, in this order, the points still to come, whether the frame
has begun, and the instructions it has left.

Only model-checked is liveness (`EndedLevelReturns`, `OxygenRunsOut`,
`EscapeReturns`, `FramesEnd`, `WaitsEnd`, `ReplayReturns`, `MoveReturns`,
`SoundReturns`, the fairness part of `ImplementsOutcome`), which is out of the
prover's reach. Of `MoveReturns` and `ReplayReturns` the part that is not about
fairness is proved: the measures of `MovesComeDown` and `ReplaysComeDown` are
natural numbers that every round lowers, so that there is no endless sequence of
rounds; that a round is always possible until then is left to TLC. Every safety
property of a passing run is stated by a theorem.

## Where the code and its documents disagree

The first four have a run that ends in a counterexample.

* `LevelRunClamp`: `player.py:35` says the position is clamped to the road. The
  avoidance displaces the ship without the clamp.
* `RegionBatchOverrun`: `README.md:64` says bodies are batched until the local
  tick catches the timer. After the 16-bit timer wrapped in the wait the local
  tick is ahead, and `advance` runs a body before it compares; the generated
  handler compares first. `HandlerLoop` therefore has the switch `BodyOnWrap`,
  which `GameplayRegion` sets: this step is the only difference.
* `HarnessKinds`: `loop.py:406` reserves the empty kind for an ordinary tick; a
  ship that fell without a crash gets it at its boundary.
* `HarnessReset`: `apply_level_init` does not write all fields of
  `RespawnState`; a displacement owed survives into the next level.

The others show as exceptions in the properties, each stated there:

* `pacing.py:5` says that side-effecting waits run "exactly one body before
  parking". When two waits at one head fall into one frame the second is taken
  for the first one's second arrival and parks before its body
  (`head \in earlier` in `BodyBeforePark`; true of all three drivers).
* The callback driver may run a body twice within a frame
  (`BodyOncePerFrame`); the docstring of `cpuless_driver.py` has one body per
  pass in mind.
* `product_features.py:16` says that features are applied "through the same
  live/replay path". A live position is recorded and handed to the controller;
  `replay_to` delivers scan codes only (`replay.py:402`) and never calls
  `apply_replay_event` (`scripts/play.py:296`), the one way to
  `accept_replay_event`. A recording whose practice position was applied after
  its base point is therefore not reproduced from there; from a cached point
  behind it, in a process that has not replayed it, it is (`missed` in `Exact`; without that conjunct TLC refutes
  `Reproduces`).
* `build_codemap.py:85` notes that a console read can surface from delivering a
  key and catches it there; `replay_to` delivers outside its handler
  (`replay.py:402`), so the same read ends the replay by an exception
  (`ReadSurfaces`; `Stopped` in `ReplayReturns`).
* The comment at `sink.py:69` says that a pump is clamped and "multiple pumps
  catch up instead". `pump` takes the present as the time of the last pump
  before it is clamped (`sink.py:206`), so what a stall lasted beyond `MAX_PUMP`
  is made up by no later pump; `test_audio_pacing.py:219` counts it as a loss. The
  effects under way are heard that much later, which is what `missed` in
  `HeardSoon` is for.
* The comment at `sink.py:136` says that piled-up effects are cut so that "a new
  effect is never buried". Effects are mixed on top of each other at the front
  and never make the buffer longer than the longest; the cut can only happen to
  an effect longer than a second, and then takes its beginning
  (the premise of `EffectsIntact`).

## What is not modelled

* Most of the repository's lines, and no honest model would change that: about
  113 000 of 129 000 are generated functions, one for each routine of the
  original in each of two carriers (`skyroads/lifted`, `skyroads/recovered`).
  They are straight-line register and flag arithmetic, checked against the
  original instruction by instruction by the repository's own tools. The
  modules take from them what authored code depends on: the handler's loop,
  the wait loops, and where the callbacks are.
* Sounds of a body: `native_gameplay_body` is modelled as with `sfx=None`. The
  debounce stamp of the landing sound stays ahead of the timer after the
  region has closed a wrapped timer to zero (`loop.py:110`); nothing but that
  sound reads it.
* The pause key's loop (`1010:20C8`-`2280`), which the region does not have, is
  left out of `HandlerLoop`, and the region enters at the wait `22F8` before the
  first body, as the generated code reaches it first.
* The road: which cells, walls and arcs the level has. Every answer is
  possible in every body, so what is shown holds for all roads, and what holds
  only on well-formed roads is not shown.
* Speeds outside -1..2, and control devices other than the keyboard and the
  attract mode, which the region refuses by an exception.
* The limit of eight handoffs in a frame: how many the surrounding generated
  code can need is a fact about that code. The region in `FramePark`: it parks
  at heads of its own, as `GameplayRegion` has it.
* The heads at which the CPUless corpus calls its callback besides the waits
  (`0F1A`, `20AD`, `2317`) only as frames that may end between waits.
* In `ReplayTimeline`: low-level (v1) coordinates, digests and projections, a
  recording replayed by another carrier than its own, and the region (whose
  restore is in `GameplayRegion`).
* In `SweptMove`: how the road decides that a place is blocked, and that the
  bump and the height clamp of a body may put the ship where nobody looked: the
  model does it as the code does, and the next body starts there.
* The synth, and the mixing of music and speaker into a sample.
* The rest of the inventory, for the reasons in `PROJECT.json`.
