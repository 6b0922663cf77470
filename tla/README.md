# Verification of sparklib

TLA+ modules, TLC configurations and TLAPS proofs for `sparklib`, a Python
library that drives REV SPARK MAX and SPARK Flex motor controllers over
SocketCAN. The reference for every definition is the source under `src/`;
`PROJECT.json` maps each definition to its lines.

    tlc -workers 2 -config Bus.cfg MCSparkBus.tla     # a run
    tlapm SparkBus_proofs.tla                         # the proofs of a module

## Inventory

| component | source | state | operations | what is hard |
|---|---|---|---|---|
| **SparkBus** | `sparklib/can_bus.py` | `_bus_lock`, `_closed`, `heartbeat_enabled`, `controllers`, `can_ids`, `enable_id_array`, counters | register, send, stop, shut down; heartbeat and receive threads | threads, one non-reentrant lock, flags read outside it, SIGINT handlers |
| **Frame routing, Controller** | `can_bus.py` `route_frame`, `sparklib/controller.py`, `statuses.py` | firmware generation, cached raw status frames, decoded statuses, `_last_seen`, last written parameter response | one call per received frame; setters that send | status layout changes under cached bytes; receive thread against readers |
| **SparkAdmin** | `sparklib/admin.py` | nothing of its own but the pacing stamp; the state is the device's RAM and flash | write and read parameters, persist, clear faults, set id, inventory, duplicates, audit | lost replies, retries, settle times, power cycles between write and burn |
| **CLI commands** | `sparklib/cli.py` | the session of one command | throttle, clear, set-id, persist, repair, provision, canfix | several admin calls that may each fail, gates before a motor moves, the verdict reported at the end |
| **CanNetdev** | `sparklib/netdev.py`, `tools/can_tx_health.py` | link, qdisc, driver binding and port power of the adapter | bring-up, adopt, rebind, port power cycle, canfix | partial failure between unbind and bind; udev starts a service on the same link |
| **PowerFsm** | `sparklib/rail.py` | battery level | one update per voltage sample | hysteresis across four levels; nobody calls it |
| **Steering** | `tools/steer_stress_test.py`, `sparklib/steer.py`, `kinematics.py`, `cancoder.py`, `trace.py` | look-back windows, stale counters, relaxations, the spin's direction | approach, fine pass, spin, sampling | a signal that answers with its last value, angle wrap, loops that must end |
| **Config** | `sparklib/config.py`, `data/` | resolved configuration | resolve once | precedence of sources |
| **Provenance** | `sparklib/provenance.py` | none | a table of sourced constants | nothing that moves |
| **Simulator** | `tests/support/sparksim/` | device RAM and flash, faults, beacon | one handler per frame | the repository's own statement of what a controller does |
| **Motion scripts** | `tools/`, `examples/` | set points left in the controllers | open, register, zero, drive, leave | an exception or Ctrl-C at any step, in a handler or a `finally` too |
| **Other tools** | `tools/` | none of their own | recorders and correlators | they read and print |

How they interact. The application and the CLI call `Controller` and
`SparkAdmin`, which hand frames to `SparkBus.send_msg`; `SparkBus` puts them on
the socket under its lock. Its receive thread takes frames off the socket under
the same lock and routes them to the `Controller` of the sender's id, whose
fields the application reads without a lock. The heartbeat thread sends the
enable array every 20 ms while the flag is up. The controllers drive while they
hear their enable bit and stop by themselves when they do not.

What makes each part correct: *SparkBus*, that a stop is a stop and a shutdown
ends; *routing*, that a decoded value belongs to the layout the device speaks;
*SparkAdmin*, that a write reported as verified or persisted is in the device's
RAM or flash; *CLI*, that its verdict matches what happened to the device;
*CanNetdev*, that a program which says OK has seen the adapter drain and that a reset which
fails leaves what the next one needs; *identity*, that a serial is moved, recorded and found where it is said
to be; *health*, that clean means clean and that the advice leads there; the *scripts*,
that they leave no motor a set point; *steering*, that no loop goes on by an angle nobody
measured, and that it ends.

`PROJECT.json` lists the hazards of the code at the lines where they bite.

## Modules

`SparkBus` models the class of that name. Its variables are the attributes
(`lock` is `_bus_lock`, `closed`, `enabled`, `started`, `controllers`, `canIds`,
`marked` for the bits of `enable_id_array`, `txErrors`), the socket (`sock`,
`out`) and, per thread, where it is (`pc`), which call it is in (`op`) and which
frames it has still to send (`todo`). One action is one stretch of Python between
two points where another thread can make a difference: an acquisition of the
lock, a test of a flag made outside it, the read of the array, each of the eight
byte writes. The SIGINT handler is a thread `sig` that may start wherever `main`
is and freezes it, as Python runs handlers on the main thread between bytecodes.
It follows the tools' `stop` handlers: command zero, shut the bus down, exit.
`late`, `disableOut` and `beatOut` are history, written by `History` in every step
and read by none.

The two tests at the head of the heartbeat loop (`_closed`, then
`heartbeat_enabled`) are one action. The states in between are those of a
heartbeat thread that passed both tests earlier, and `send_msg` tests `_closed`
again under the lock. `bus.shutdown()` is taken to close the socket also when it
raises, an exception the code swallows. Payloads are reduced to what a receiver
does with a frame; duplicate entries of `can_ids`, which the array ignores, are
not distinguished.

`StopSwitch` is the promise `SparkBus` makes to an application, free of threads:
a set of ids is asked for; after a change of mind at most one heartbeat that
enables anything else follows; once closed nothing follows. `SparkBus` implements
it under `asked <- Asked, late <- late, open <- sock` (`SwitchSpec`).

`StopPath` extends `SparkBus` with the controllers on the wire, as far as a stop is
concerned: armed or not, fed in this watchdog window or not, last set point zero
or not. Arming is modelled after the simulated controllers of the test-suite and
the measured window in `docs/SPARK-MAX-BRINGUP.md`. A window may end at any moment, so
a host that stalls for any length of time is covered.

`ParamLink` models one 25+ controller's parameter memory and the part of
`SparkAdmin` that talks to it. The controller has `ram`, `flash`, `young` (what a
burn in the first 200 ms after a write would still commit in place of the written
value) and `latched` (a latched fault, which answers writes with Success and stores
nothing), after the simulated controller of the test-suite. `reqs` and `replies` are
the frames under way; any of them may be lost, and a reply may come when SparkAdmin
has given up on it and sent again. `Send`, `SendAgain`, `Receive` and `NeverAnswered` are
`_drain`, the retry loops and `_await`; what counts as an answer is `Answers`, which
sees what an arbitration id carries: the pair of a read, nothing of a write. `floor`
stands for the time still to pass before a burn by `_last_write_resp_at`: it holds
the parameters whose 200 ms must be over first. A parameter's value is abstracted
to the declared one or another; the value a write reply echoes is arbitrary, because
the code says it is not evidence.

`Provision` composes `ParamLink` with the commands `provision`, `repair`, `persist` and
`params --set`, one after another. `pc` is the place in `cmd_provision`, `cmd_repair`,
`cmd_persist` or `_params_write`, `todo` the rest of the loop it is in, `drift` and
`skipped` the lists it builds, `target` the parameter being written, `exit` the exit
code. Gates that only look at the bus (driving, silent, duplicated controllers, at
rest) pass or end the command. The motor rail may lose power at any moment
(`Reboot`), with or without the frames queued for the controller; the fault that
latches clears only between commands or with the power. `cycled` and `acked` are history.

Three simplifications in `Provision` change nothing a property can see. A survey row
that stays silent, and a write that is refused, end the command at once, where the
code first reads on and then returns the same code; whether `repair` hears the
controller's cadence in its window is one Boolean choice. A command starts when no frame is
under way and no write is younger than 200 ms, because each command opens a new
socket and listens longer than that before anything else. The gaps between polls of
`confirm` are dropped: only how many polls fit is bounded.
A burn that is answered as failed may or may not have happened: the controller files the image
before it looks whether the answer is to be a failure, so `HandleBurnFails` leaves both open.

`FrameRouting` is one `Controller` object behind `route_frame`. `observed` is
`_observed_generation`, `raw0` and `raw1` the raw buffers, each reduced to what its bytes
are (the 25+ layout, the earlier one, or the beacon that some 25+ firmware sends as
0x060), `points` says of every attribute `_apply_config` sets which of the two `_CONFIGS`
blocks it was taken from, and `decoded` which frames the `Status` objects in use have
decoded. `monitor` is where the receive thread is: waiting (`Recv` runs up to the
decision of `note_frame_api`), in `_apply_config` (`Apply` sets one attribute), or filing
the frame (`File`). The device may change its firmware while the object lives, in
either direction: `docs/BASELINE.md` records controllers that revert on their own. What a
reader sees is a property of each state in between (`ReadsWhatAsked`), because
`velocity` and `position` contain neither a call nor a loop, where alone CPython from
3.10 on, the oldest version the project allows, changes threads. That is also the limit
of the result: an interpreter without the global lock could mix attributes of two states.

`Identity` is who sits on which CAN id. A controller is its serial; the id it answers on is in
`id`, the one it starts with in `burned`. A command is a series of listening windows (`pc`),
in which `spoke` and `seen` grow as controllers are heard, in any order and with any of them
unheard; between windows, and within, any controller may lose power (`Reboot`). `set-id` goes
through its look, `SET_CAN_ID` (which reaches the controller on that id, may be refused, and which
some firmware stores and some does not), the check of the new id, the burn, which everybody on
the new id receives, and the verdict. `duplicates`, `identify`, `learn-serials`, `snapshot`, the
identity findings of `audit` and `tools/spark_set_can_id.py` share the windows.

`Health` is a rig of controllers and the commands that say how it is. `dev` is a controller:
powered, gated (broadcasting nothing until a host frame wakes the bus), with a live fault,
sticky bits, and the pace of each of its frames. A listening window is judged by what each
controller showed in it, `past`, and by who broadcast all through it, `steady`; windows read
to the end leave the socket dry. `clear` is read, wake, send, verify; `throttle` one
unacknowledged write per frame, then a measurement; `audit` a survey, identity requests and a
verdict with its FIX lines, which become the operator's `advice`. A finding about the whole bus
(nobody heard, the tail of the chain gone, all of more than two controllers thinned out) is the
only one of its audit, as in `_bus_level_finding`. What stands behind a finding about a bit
is what `remedy_for` says, which replaces the finding's own advice: `mute` holds the bits whose
remedy does not say `clear`. Which of the two kinds of bit (a fault, the trace of a reset) a
generation files where is kept; the sixteen bits themselves are not, and of the pair brownout with
hasReset only that its remedy is the power path and no `repair`, by a mute hasReset. Telemetry
that is not plausible counts as telemetry. `calm`, `alike`, `erased`, `cut` and `stood` are history.

`Adapter` takes `bring_up_can_buses`, `check_can_interface`, the resets, `canfix` and
`can_tx_health --reset` one shell command at a time. The machine is `plugged`, `port`, `bound`,
`link`, `endpoint` and `fifo`; `Rigs` says which grants, hub port and kernel features it has. An
adapter that transmits badly is `degraded`, one that does not is `wedged`, and `stuck` when no rebind
clears it; a stalled one answers a probe of its driver with error -32 until its port is power
cycled, and a dead one cannot enumerate at all. `acked` says whether a powered node on the bus
acknowledges frames. `ProbeSays` is the probe of one frame: it passes on a clean adapter, may pass
on a degraded one, and passes without having looked where `tc` prints no counters. Faults wedge, stall
or kill the adapter, cut the bus's power, make the hub renegotiate, fail a bind or kill the program;
udev starts `spark-can.service`, whose script sets the same link up with steps of its own.
`wait_timeout_s = 0`, documented as waiting for ever (`netdev.py:76`), is left out, since `Ends` could
not hold for it.

`MotionTools` runs the scripts that enable motors. A script is data: blocks of steps, the
straight part, the body of its `try`, its `finally` blocks outward. The machine runs it with
Ctrl-C (by the script's own handler or Python's, also on top of itself), exceptions and lost
frames, beside the heartbeat and the controllers' watchdog. `setpoint` says per motor whether
what it would drive by is zero, this script's, or an earlier script's: a controller keeps its
set point when it is disabled and acts on it again as soon as anybody enables it. Sending a
frame is one step here, so the handler that waits for the lock of the send it interrupted, which
`interrupt_stops` is about, does not occur: what `LeftQuiet` says is of scripts whose handler comes through.

`SteerStress` is `tools/steer_stress_test.py --label spin` on several corners: `_init_corners`,
the approach (`ApproachTick`, and `ApproachSleep` for the sleep and the decision after it), the
fine pass, `_sample_cancoder`, the spin, the second approach and the exit code, with Ctrl-C at any
place. Angles are whole steps of a turn with the wrap of `normalize_deg`, duties keep their
sign, time is loop ticks. `Settled` is `steer.settled` with its three modes over the look-back
window `loop.hist`; a relaxation multiplies both tolerances by 1.5, kept exactly as powers of
2 and 3. Between two ticks a wheel follows its duty or sticks, one may be pushed, CANcoders fall
silent and return; a silent one's signal keeps answering with `held`. `blind` is history. The
scores and statistics of the samples, and Phoenix itself, are left out; `time.time()` moves one
tick per loop, so loops that take longer than their period count as slower wheels.

The `MC` modules name the sets of calls, commands, rigs and scripts the runs allow. The
`_proofs` modules hold the proofs.

Definitions commented `Mutant:` are not part of the model. Each is a definition
with a plausible bug in it, kept beside the one it replaces, and shows that the
property named in `PROJECT.json` would notice that bug.

## Runs

| run | question | bounds |
|---|---|---|
| `bus` | do closing order, array and the one-late-heartbeat promise hold under every interleaving, SIGINT included; does `SparkBus` implement `StopSwitch`? | one id, queue of one, one boot frame, one disable frame, all calls but the zeroing shutdown (the handler makes that one) |
| `deadman` | is a stop final, does a hung process leave its motors disarmed, when only the controllers' watchdog is fair; what set points does a shutdown leave? | one id, one boot frame, SIGINT once; registering and stopping only |
| `running` | is whoever is asked for armed again and again; does shutdown end? | two ids in different bytes of the heartbeat |
| `interrupt_stops` | does the tools' SIGINT handler come to its end? **Not when it interrupts a send.** | SIGINT once |
| `provision` | does exit 0 mean RAM holds what was asked for, an acknowledged burn that flash does, and is an undeclared value never burned? | three parameters (one as `repair` writes, one mistyped, one protected), two attempts, one poll of `confirm` |
| `rerun_burns` | does the re-run that a failed burn recommends burn? **No.** | one parameter, `provision --write --persist` only |
| `routing` | is a controller read by the layout it speaks, whatever was declared and however its firmware changes; are velocity and position confused meanwhile; do stale raw frames go away? | both declared types, both firmwares, two changes of it, a socket of one frame |
| `identity` | does "OK, burned" hold, does nobody else's id become permanent, is what `learn-serials` and `audit` conclude true? | two controllers, ids 0 to 2 of which two have a role, both generations |
| `motion` | is a motor left with a set point; who turns by an earlier script's? | drive and steer, thirteen scripts in every order of two, two Ctrl-C, an exception and a lost frame in each |
| `adapter` | what does OK vouch for, does every program end, does a bring-up make usable whatever can be cured without a hand on the cable? | six machines, two faults, two rounds of waiting |
| `health` | is what `clear` erases recorded, does `throttle`'s exit 0 hold, do `faults`, `voltage` and `audit` miss nothing, does the advice lead to a clean audit? | three controllers, one trouble (power failure, fault or lost request); four rigs: pre-25, 25+ with two settings never burned, with none ever burned, and with bits whose remedies never say `clear` |
| `steer` | is a held angle steered by only briefly, is a wheel that passes through not accepted, does everything end? | two corners, four steps a turn, a window of two, three ticks to a relaxation, one push or silence |

Why the bounds are enough. A second id matters only where the array can be half
right, which is `running`; elsewhere ids are treated alike. A queue of one already
has the full and the empty case. One boot frame reaches the path through `todo`;
more of them repeat it. The number of calls is not bounded: registering,
enabling, stopping and dropping ids may be repeated for ever, and the state space
is finite by itself but for `txErrors`, which `MaxErrors` bounds. In
`provision` parameters 4 and 5 share a read pair and a type block, and 21 shares neither with them, so
that each kind of late reply exists: of the same parameter, of the other of its pair,
of another pair. Two attempts give a first and a second reply, of which either may
be the one that counts. The attempts also bound the frames under way. Commands, power
cycles, faults and losses are not bounded. In `routing` two changes of firmware include
there and back again, and frames of the old firmware may be in the socket when the new
one starts; a longer socket only delays them. In `identity` two controllers are two on one
id, two that swap and one that is away; power cycles and commands are not bounded. In
`motion` two scripts are enough for one to meet what another left. In `adapter` two faults are
one that starts a recovery and one in the middle of it. `health` bounds trouble, not commands:
one trouble at every step of every command and of those that answer it. Three controllers are the fewest of
which all can be thinned out, or two be the missing tail of a chain; every breaker, and so every tail
and the whole rail, is among what may fail. In `steer` three ticks
and a hold of two let an approach be accepted early, late and not at all, a window of two is
full and not full; the deadband is wider than the tolerance, so that a wheel may rest between
them. The proofs drop the bounds where there are proofs.

`CHECK_DEADLOCK FALSE` stands in the cfgs with `Interrupts = TRUE`, where the process really can
hang (see `interrupt_stops`), and in `motion` and `steer`, whose programs end.

### Fairness

A thread in the middle of a call is scheduled again. `_bus_lock` is not a fair
lock, so a thread waiting for it gets strong fairness: the lock is free again and
again, as both daemon threads sleep outside it, and a waiter woken each time gets
it eventually. `ZeroDone` is the 0.2 s deadline of `shutdown`. The kernel drains its
queue. Nothing forces the application to call anything. `DeadmanSpec` assumes none
of this, only that the controllers' own watchdog runs.

In `FrameRouting` the receive thread runs while there is something to do, and the device
goes on broadcasting each status frame its firmware has. That is strong fairness:
the socket is full now and then, when the frame is lost, but it has room again and again.

In `Adapter` a program and the service go on with their next shell command, and the
operator comes back to `bring_up` (strong fairness, as he may find the adapter away meanwhile).
`Recovers` promises nothing for an adapter that does not stay curable (`Curable`): in a powered
socket, on a bus with a powered node, and in neither of the two states of which the code itself says
that only a replug ends them. In `Health`
a command goes on, power and causes of faults are seen to, and the operator carries out an
advice that stands and audits again, among whatever else he runs. In `SteerStress` the
program goes on; nothing is asked of wheels, CANcoders or the operator. `Identity` and
`MotionTools` claim no liveness and assume none.

## Where documentation and code disagree

Two disagreements are runs of their own:

* The tools' SIGINT handlers command zero through `_bus_lock`. Interrupting a send they
  wait for themselves (`interrupt_stops`). The motors stop all the same, because the heartbeat
  thread cannot pass the lock either (`HangDisarms`).
* After a failed burn `provision` says to run it again with `--write --persist`
  (`cli.py:1892`). The second run surveys RAM, which the first has set right, and exits 0
  with nothing to write before it comes to the burn; flash keeps the old values
  (`rerun_burns`).

These were met while modelling and are in the modules as the code has them:

* `can_bus.py:274` orders the flag before the disable frames so that "the last
  heartbeat has to be older than the disable". The heartbeat thread tests the flag
  before it takes the lock, so one heartbeat can still follow and re-arm. It is one at
  most (`OneLateBeat`, proved) and the controllers' watchdog ends it (`StopSticks`).
* `wait_for_heartbeat` promises the first frame was sent; the event is set also when
  `send_msg` dropped it.
* A drifted setting whose type the firmware reports otherwise "will NOT be written"
  (`cli.py:1784`). When the types go unanswered, the plan is made without them (`cli.py:1761`).
* `_modern` says the declared type counts only while "every raw buffer is None". It counts
  until the generation is decided, which 0x060 does not do; yet that frame is filed for a
  declared SPARK MAX.
* `set_can_id` on a controller whose new id is heard without its serial raises
  AttributeError (`admin.py:1043`), where `docs/PROTOCOL.md:905` has RAM ONLY.
* `_bus_ready` is there because "adopting a bus we cannot vouch for is not" correct
  (`netdev.py:118-120`), and `canfix` says "UP and draining TX. Nothing to do." (`cli.py:1287`); both go by the
  probe, and `netdev.py:143-145` says that probe "passes even when the dongle is partially
  degraded". So does the first pass of a bring-up with `skip_gs_usb_rebind`. `OkDrains`
  promises a clean adapter only of a program that rebound the driver.
* The code knows of states that no program here ends: an adapter that cannot enumerate, "and nothing the host
  can write to sysfs revives it" (`cli.py:1238-1243`), TX that a rebind does not clear (`cli.py:1322-1326`,
  `netdev.py:161-165`, `CAN-SETUP.md:276`), and a bus on which nothing is powered, where the probe fails on a
  sound adapter (`CAN-SETUP.md:264`). All are states of `Adapter`, and `Curable` keeps them out of `Recovers`.
* `spin_all_motors.py:14-16` promises that output is zeroed and the bus shut down "on every exit path". Its cleanup is
  one `finally`, which a second Ctrl-C interrupts; `LeftQuiet` excepts the scripts that are so built.
* `canfix` cannot bind what a reset unbound and failed to bind again (`cli.py:1272`), though
  `docs/CAN-SETUP.md:178-180` sends the reader there; `bring_up` can, by itself.
* `clear` says the read comes first "because the clear destroys it" (`admin.py:641-643`,
  `cli.py:759`). The bus is woken only when nobody was heard (`admin.py:656`): a controller that
  stays gated beside one that broadcasts, or whose fault frame falls outside the 120 ms
  window, is erased unread. `ErasedIsRecorded` therefore asks for controllers that show
  themselves alike.
* "Every finding carries the action that clears it" (`admin.py:1648`). `AdviceRecovers` holds of a 25+ rig with two
  exceptions, which the modules have and its premise names. The remedy of a documented bit replaces the one that says `clear`
  (`admin.py:2009`), and those of stall, sensor, temperature and others (`admin.py:1690-1722`) do not say it: the latched bit, and
  with it the audit's exit 1, stay whatever the operator does. And when more than two controllers all come back at
  250 ms, having never had their period burned, the only finding is that the bus drops frames
  (`admin.py:2145-2161`, "Controllers do not lose their config in unison"), which sends him to
  `status`, and the next audit says the same.
* `throttle` on a silent pre-25 bus takes it for 25+ and exits 0 (`cli.py:698`).
* `status` is said to wake a silent bus (`admin.py:2225`, `2391`). It queries those it heard;
  on a bus that said nothing it sends nothing. A pre-25 controller that reverted to the cold
  cadence after a `clear` gets no advice to throttle, which is why `AdviceRecovers` is about 25+.
* On pre-25 `voltage` looks at neither brownout nor reset bits (`cli.py:2030-2038`,
  `rail.py:242-249`), and averages telemetry that is not plausible.
* `SIGNAL_LOSS_TICKS` is "Ticks with no fresh CANcoder frame before a closed loop stops commanding"
  (`steer_stress_test.py:92`). The fine pass is a closed loop and does not count them: it steers
  by the held angle until its timeout, which `TypeOK` bounds `blind` by.
* `converged` "says whether the wheels are at the target" (`steer_stress_test.py:416`). In the
  static settle mode a wheel that is stuck anywhere has settled.
* `steer.settled` takes max minus min of the window without the wrap that `_summarize` makes: a
  wheel that jitters across 180 degrees never rests.
* `PowerFsm` leaves CRITICAL for OK above LOW's threshold without LOW's margin.

## Proofs

Every safety property that a passing run checks is also a theorem, for every value of the
constants the modules' assumptions allow, and so is the refinement of `StopSwitch`.
A theorem comes from an inductive invariant, which TLC checked on the run before it was
proved, and each invariant is proved step by step, one lemma per action or group of actions.
`TypeOK` alone is seldom inductive: `Tail(todo[t])` is a sequence only when there is a frame left.

`SparkBus_proofs`, for every set of ids in 0..63, every set of worker threads,
every number of repeats and boot frames, every queue capacity, with and without
SIGINT:

| theorem | property | inductive invariant |
|---|---|---|
| `TypesOK` | `TypeOK` | `TypeInv`: the types, and that a thread inside `send_msg` has a frame left, the heartbeat thread exactly one, a heartbeat |
| `MutualExclusion` | `LockHeldInside` | `LockInv`: adds that a handler which has been through the lock did not find `main` inside, since its exit ends `main`'s call for good |
| `NoSendOnClosedBus` | `NoSendAfterClose` | `CloseInv`: the bus is shut down only with `_closed` set before, and under the lock |
| `ArrayIsCurrent` | `ArrayCurrent` | `ArrayInv`: while `main` fills the array, exactly the registered ids of the bytes already written are marked, and never one too many |
| `OneLateBeatAtMost` | `OneLateBeat` | `LateInv`: once a heartbeat was late, the one in the thread's hands has been tested and copied since |
| `ImplementsSwitch` | `SwitchSpec` | the conjunction of the above |
| `ShutdownIsQuiet` | `QuietAfterShutdown` | `QuietInv`: a motor with a set point is registered (`Uncommanded`), the handler's and the shutdown's frames are zeroes (`OnlyZeroes`), and a round of zeroes leaves nobody out: of each registered id the last frame in the queue, or one still to send, is a zero (`ZeroLast`), until all hold zero and the closed bus keeps it so (`ZeroInv`) |

The last is about the composition `StopPath` and supposes `Workers = {}` and that nobody calls
`shutdown` with `zero_outputs` off, as `deadman` does: another thread that goes on commanding, or
a caller who asked not to zero, leaves set points by its own will.
It also asks that the kernel refused no frame (`txErrors = 0`): `send_msg` swallows the refusal, and
a zero that never left changes no motor. `ArrayCurrent` speaks of the states in which nobody is inside
the refill of the array; what a half-filled array does to the motors is what `AskedIsArmed`, and so
only TLC, sees.

`Provision_proofs`, for every set of parameters, every subset of protected,
mistyped and unencodable ones, every number of attempts and polls and every set of
commands, over a link that loses and delays what it likes:

| theorem | property | inductive invariant |
|---|---|---|
| `TypesOK` | `TypeOK` | `TypeInv`: adds what each place waits for (`TalkInv`), which commands come there (`PlaceInv`), and what `todo` and `target` hold while they are used |
| `ExitZeroTellsTheTruth` | `ExitZeroHolds` | `TruthInv`: adds that every write under way means what the command wants (`WroteInv`), and, the power never having gone, that a reply which says "as wanted" is right now (`RepliesRight`) and that what is behind the command is done (`DoneSoFar`) |
| `AckedBurnTellsTheTruth` | `AckedBurnCommits` | `FlowInv`: what a burn would not commit is owed settle time (`FloorCovers`), writes under way are those of the setting under way (`WritesOwned`, `NoneUnsent`), a reply by which a setting landed came behind all its writes (`ReadsApart`, `ReadIsLast`); and `BurnInv`: once a burn is next, RAM is as asked, nothing is stale and no write in flight changes that |
| `BurnsOnlyDeclared` (of `provision`; `repair --persist` burns all of RAM, whatever is in it) | `NeverBurnsUndeclared` | `BurnInv` |

The argument of the second: the code matches replies by arbitration id, so it may
well take an old reply for the answer to its last frame. That does no harm because
all writes of one command pull the same way: what a reply once said is as wanted, stays
as wanted until the power goes. No order of frames is used for it, and it would hold on a link
that reorders. The burn is different. A write that a late reply had made look done, and that arrives
in the burn's 200 ms window, would be committed as its old value; what excludes it is that CAN frames
of one id keep their order. A read reply in which the setting has landed was sent after the
controller took one of its writes; `provision` writes only what its survey saw unset, and reads back
only after an answered write, so the read stood behind all the writes in the queue, and none is left when the reply comes
(`ReadsApart`, `ReadIsLast`). `_last_write_resp_at` covers the rest: the answered write
is the last one stored.

`FrameRouting_proofs`, for all sets of
declared types and firmwares, every socket size and every number of firmware changes:

| theorem | property | inductive invariant |
|---|---|---|
| `TypesOK` | `TypeOK` | `TypeInv`: adds that `route_frame` has a frame |
| `LayoutIsKept` | `LayoutFollowsWire` | `Progress`: `_apply_config` at its k-th attribute has set those before it to the layout wanted, and the others still agree with the dictionary |
| `ReadsAreRight` | `ReadsWhatAsked` | `Progress`: the dictionary goes last, and an api goes before its index, so a half-set pair misses the dictionary (the layouts share no decoded api, `LayoutsApart`) |
| `BuffersStayReadable` | `StaysReadable` | `Heard`: frames hold what their api promises, and the one being filed has had its say about the generation |

`Identity_proofs`, for every finite set of controllers, all ids and roles, both generations:

| theorem | property | inductive invariant |
|---|---|---|
| `TypesOK` | `TypeOK` | itself |
| `OkMeansBurned` | `OkIsBurned` | `BurnedIfThere`: after an acknowledged burn on an id with one controller, if the serial answers on the new id, or was heard there since, its flash holds it. A power cycle keeps that: whoever comes back on the id started from flash |
| `LearnedMeansThere` | `LearnedIsTrue` | `HeardIsThere`: whoever was heard on an id is there, unless somebody lost power |
| `CleanMeansHome` | `CleanIsHome` | `RollIsThere`: the same of the audit's inventory, once the window after it runs |
| `OthersKeep` | `OthersKeepTheirs` | `TypeOK`; only the burn of `set_can_id` changes `burned` |

`Adapter_proofs`, for every set of machines, every wait and every number of faults:

| theorem | property | inductive invariant |
|---|---|---|
| `TypesOK` | `TypeOK` | itself |
| `OkMeansDrains` | `OkDrains` | `NetdevSeen`: the probe gives a missing netdev the benefit of the doubt, so what leads to it must have seen the netdev; a setup that has run a command has (`NoCommandYet` says when none has). `Cleared`: from the bind on, the FIFO of a program that rebound the driver is not merely degraded, if the bind was permitted, as it was where a setup went through (`Granted`) |

The theorem is about what the program saw. It says nothing of a run in which a fault, a kill or a
replug came, which the probe may have missed, nor of a machine whose `tc` prints no counters.

`Health_proofs`, for every finite rig and any number of power failures, faults and lost frames:

| theorem | property | inductive invariant |
|---|---|---|
| `TypesOK` | `TypeOK` | `TypeInv`, the same in named parts |
| `ErasedRecorded` | `ErasedIsRecorded` | `ClearTrue`: up to its first frame a clear of controllers that show themselves alike has read all of them or woken the bus, and from then on its record holds all that can be erased; `ErasedLate` |
| `ThrottleTakes` (pre-25: on 25+ throttle exits 0 before it writes anything) | `ThrottleHolds`, of those the survey heard | `ThrottleCut`: whom this throttle heard or writes broadcasts still, or lost power; `OnSince`: at one cadence throughout the window |
| `CleanMeansClean` | `CleanIsClean` | `StoodShow`: whoever stood when the command began has shown it in every state of the window; `Latched`: a live fault is latched |

`SteadyOn` came out of these proofs: `steady`, whom the windows are judged by, always equals the
set of those that broadcast now, since a controller that comes back is silent until it is woken.

`MotionTools_proofs`, for every set of the scripts, run any number of times in any order, with
any bounds on interrupts, exceptions and lost frames:

| theorem | property | inductive invariant |
|---|---|---|
| `TypesOK` | `TypeOK` | itself, with `ScriptsSound`: each script is well formed |
| `LeavesQuiet` | `LeftQuiet` | `QuietInv`: a driven motor is registered on an open bus (`DrivenOpen`), `shutdown` zeroes before it closes (`ShutZeroed`), nothing is driven before the try (`FirstQuiet`), its last finally and its handler have shut the bus at their ends (`LeftShut`, `HandlerShut`), and of two finallys the first has zeroed all that is driven (`TwiceZeroed`) |
| `OldSetPointsAreBrief` | `OldIsBrief` | `OldInv`: a registered motor with an old set point is the one being registered or zeroed (`OldIsNext`) |

Here the facts about the code are facts about data. For each of the thirteen scripts the module
first proves `Sound` (its last finally shuts down, so does its handler, nothing is driven before the try), and,
where it applies, `ZeroedAt3` and `Zeroing`; the steps of the machine use nothing else of them.
A new script is covered as soon as these are proved of it.

`SteerStress_proofs`, for every number of corners, every turn, tolerance, deadband,
window, hold and timeout, whatever wheels and CANcoders do:

| theorem | property | inductive invariant |
|---|---|---|
| `TypesOK` | `TypeOK` | `Inv`: adds that the approach's locals are fresh outside an approach (`FreshOutside`), what the shared clock has counted (`ClockBounded`) and that nothing stays settled longer than it was watched (`SinceBounded`), which bounds `since` over the relaxations |
| `HeldAngleIsBrief` | `BlindIsBrief` | `Inv`: a duty resting on a held angle is counted, corner by corner, by the approach's own stale counter (`BlindCounted`), which a tick that commands leaves below `SIGNAL_LOSS_TICKS` |
| `HeldForTheHold` | `HoldHeld` | `NearSince`: the readings of the settled stretch are inside the tolerance now in force, which only ever widens; `NotYetReached` |
| `TolIsHeld` | `TolHeld` | the same, and `Window <= Hold + 1` |

`TolHeld` speaks of the whole look-back window, and the code does not make that so by itself:
it asks the tolerance of the last reading only, tick after tick, for the length of the hold. What holds without
condition is `HoldHeld`, the last `Hold + 1` readings; the window is covered where it is no
longer than that. By default it is 0.2 s against a hold of 1 s. With a window of three and no hold TLC
finds `TolHeld` violated.

Only model-checked: the liveness properties (`StopSticks`, `HangDisarms`, `AskedIsArmed`,
`ShutdownEnds`, `Settles`, `Recovers`, `AdviceRecovers`, both `Ends`), which need fairness and are out
of the prover's reach, and the two runs that find a violation. `LockHeldInside` and `HoldHeld` are only proved.
What a power cycle in the middle of a command does to its exit code is outside all
properties of `Provision`: `confirm` is bounded by its wait on purpose, and `persist` burns when it is over.

## Plan

1. Done: the stop path (`SparkBus`, `StopSwitch`, `StopPath`), with proofs.
2. Done: parameter memory behind a lossy link and the commands that write to it
   (`ParamLink`, `Provision`), with proofs of exit 0, of an acknowledged burn and of what is never burned.
3. Done: routing across changes of generation (`FrameRouting`), with proofs.
4. Done: `Identity`, `Health`, `Adapter`, `MotionTools`, with proofs of all their safety properties.
5. Done: the closed steer loop (`SteerStress`), with proofs of its bounds and of what it accepts.
6. Left, models: the pre-25 parameter dialect, which is one-way and unverified; the liveness
   stamp behind `silent_ids`; the telemetry readers that load a buffer in two steps; the CANcoder tools.

## Not modelled

* `provenance.py` is a table of sourced constants, `config.py` resolves once at start.
* `PowerFsm` has no caller: its state meets nothing else, and its thresholds are
  floating-point. The derivative gain and slew of `steer.py`, its scores, `kinematics.py` and `trace.py`
  are functions of floating-point arguments.
* The decoders of `statuses.py` and of `admin.py`, as far as they are bit layouts.
* The commands that only print (`scan`, parameter listings, `verify`, `defaults`), the passive
  recorders and correlators under `tools/`, and the CANcoder calibration and seeding tools.
* Wording, logging and file formats throughout.
