# Verification of astrodrone

TLA+ models of the flight-critical and concurrent programs of this repository,
the TLC runs that check them on small instances, and proofs, checked by TLAPS,
that the start-up and the approach loop are safe, detections are recent and
confirmed, telemetry is delivered once and shown in order, recordings are kept
and engines rebuilt, for every value of the parameters.

- [1. The system](#1-the-system)
- [2. Modules and what they stand for](#2-modules-and-what-they-stand-for)
- [3. Runs, bounds and fairness](#3-runs-bounds-and-fairness)
- [4. What is proved](#4-what-is-proved)
- [5. Where the code and its documents disagree](#5-where-the-code-and-its-documents-disagree)
- [6. What is not modelled](#6-what-is-not-modelled)
- [7. Plan](#7-plan)

To repeat a run: `tlc -workers 2 -config ApproachSafety.cfg MCApproachControl`;
to repeat the proofs of a module: `tlapm ApproachControlProofs.tla`, and
likewise for the other modules named `*Proofs` (section 4). `PROJECT.json` names,
for every definition, the lines of the code it models (`map`), for every
property of a run a change of the code that would break it (`mutants`), and the
hazards the properties are aimed at (`hazards`).

## 1. The system

Five programs run on the drone's computer and one on the ground station. They
are separate processes that talk over sockets and share no memory. A sixth,
`emergency`, watches the vehicle's health beside `control` and only prints.

```
 flight controller --MAVLink/UDP--> control  <--UDP 64 B-- target_distance --HTTP--> yolo_live
        |     ^                       |                        ^                     (camera,
        |     +------ commands -------+                        | MAVLink              TensorRT,
        |                                                      |                      browsers)
        +---MAVLink---------------------------------------------+
        +---MAVLink--> telem_sender --UDP, DATA and PARITY--> gcs_bridge --SSE--> browsers
```

| Component (code) | State it keeps | Operations | Made correct by |
|---|---|---|---|
| approach loop (`control/control.cpp`: `approach_target`) | the last target packet and its age, latched vehicle health, heartbeat gap, `alt_enforcing`, `in_loiter`, `loiter_since` | one pass every `cycle_sec`: poll, read MAVLink, decide between landing, LOITER and a setpoint, send, sleep | no motion on old or unhealthy readings; LOITER is left alone and left only after a quiet hold; the altitude ceiling has its hysteresis; a lost target or heartbeat ends in LAND |
| start-up (`control/control.cpp`: `main`, `wait_for_heartbeat`) and `MavConnection` (`drone_lib.cpp`) | the stage, the stage's clock and heartbeat gap, the system commands are addressed to | connect, GUIDED, ARM, TAKEOFF, each followed by a wait | a step is asked for only when a heartbeat has confirmed the one before, and it should be the vehicle's own (section 5); no wait lasts for ever |
| sensing (`control/target_distance.cpp`, `target_link.cpp`) | the last altitude and when it was read, the last accepted distance | a round: one ALTITUDE message, one HTTP request, one packet | a detection is no older than the settings add up to, a valid altitude no further behind than a full socket; distances do not jump |
| camera and inference (`YOLO_MODEL/cpp/yolo_live.cpp`, `http_server.cpp`) | the newest frame under `cap_mutex`, the streak of names, the published target, `g_stopping` | grabber, inferer, sampler, loader, main, signal handler | no frame is missed by a waiting inferer; a confirmed target was in every one of the last inferences; a stop reaches every thread |
| recordings (same file: `RecState`) | `active`, `rows`, `t0`, `duration`, `saved` under `rec.mutex` | `/start`, `/stop`, a sample, the end of `run()` | rows in order and within the recording; written once and as a whole; ended without help |
| engine and detector (`YOLO_MODEL/cpp/trt_engine.cpp`) | the engine in memory; on the disk the onnx model and the cached engine with their time stamps | `build_or_load`, `allocate_buffers`, `infer` | a start uses the engine of the model in place; what is cached is tried before it is built again; overlapping boxes are suppressed greedily; the padded frame fills the input |
| settings (`control/yaml_settings.cpp`) and health checks (`emergency.cpp`, `evaluate_health_breach` of `control.cpp`) | a tree of values, the stack of open maps; limits; the last report of each kind | read a line, look up; load the limits, judge each report | the tree is what the lines say; both programs judge alike; silence is noticed; what the file requires is checked |
| telemetry link (`gcs/sender`, `gcs/tools/fec_core.py`) | per lane a group under construction; per receiver the open groups and a watermark per lane | `submit`, `flush`; `poll` | nothing made up, nothing twice, nothing given up that could be repaired |
| ground station (`gcs/tools/gcs_bridge.py`) | the latest message and its version under a condition variable, one thread per browser | update, wait, snapshot, write | displays go forward and catch up |

What is hard about it, and hardly reached by a test:

- *Staleness through a pipeline.* A detection passes four programs, each of
  which polls, caches and re-sends, and each with a limit of its own on the age
  of what it uses. Ages are taken at one point and used at a later one.
- *Latched decisions.* The approach loop's altitude correction and LOITER hold
  last over many passes, with early returns between the code that sets them
  and the code that clears them.
- *Commands over UDP.* A command may be lost; what is heard may come from a
  ground station; what was read may be thrown away by the reader.
- *Loss, duplication, delay and reordering* on the radio link, a timeout that
  races the packet it waits for, and a sender that starts again at zero.
- *Condition variables* notified without their mutex, a shutdown that joins
  threads in an order, exceptions that end a program with threads running.
- *Files that outlive the program*: an engine cached by a program that was
  killed while it wrote, for a model that was replaced in the meantime.
- *Two copies of one rule*: `control` and `emergency` each load the limits and
  each judge by them, and a loading may stop in the middle.

## 2. Modules and what they stand for

Values are abstracted to what the properties tell apart; control is kept whole:
every guard, early return, error path and the order of effects. Time is
counted in ticks, and counters of time are cut off one above the largest limit
they are compared with.

### The approach loop

| Module | Stands for |
|---|---|
| `Guidance` | the arithmetic of a setpoint: `std::clamp`, the taper of forward speed with misalignment, yaw rate, and the ceiling's `alt_enforcing` and `vz`. Lengths are scaled integers |
| `ApproachControl` | `approach_target()` and the end of `main()`. One action for each way through a pass: the three landings, hand-off to LOITER, holding, resuming GUIDED, a setpoint, and the exceptions of `recv_match()`, of `set_mode()` and of a setpoint |
| `FlightHandoff` | what the loop promises: it *tracks*, *holds* or *lands*; it moves only while tracking; it comes back from holding only after a rest without a breach; it never comes back from landing |
| `MCApproachControl` | the packets TLC chooses from |
| `ApproachControlProofs` | the theorems of section 4 |

A pass is one step: a disjunct of `Tick` for each way it can end, with what it
reads (the newest packet or none, one message or none) chosen by `\E`. `Sleep`
is the time to the next pass, longer when the pass overran; `Finish` is the end
of `main()`. `sent` is the sequence of commands of the last pass. `calm` and
`descending` are history: the time since a breach was last seen, and whether
the last setpoint on fresh news corrected the altitude.

### Start-up

`FlightStartup` is `main()` up to `approach_target()` on top of `recv_match()`.
Datagrams carry one or two messages of the vehicle or of another system, which
may report any mode and arming of its own (`Says`); `Parse` reads one up to its first heartbeat, overwrites `target_system_` with
each sender, and drops what is behind. The stage's heartbeat gap is
restarted by anyone's heartbeat, as in the code. Commands may be lost, the
pilot may change mode or disarm, the transport may throw. `reported` is history:
which confirmations were read, and whose.

### Sensing

`TargetDistance` is the loop of `target_distance.cpp` with the socket buffer
the ALTITUDE messages wait in, the answer of `yolo_live`, and the poll of
`control`. Besides the age the program believes, the model keeps the real one:
`measured` for the altitude and `seen` for the detection.

### Camera and inference

`YoloLive` has a program counter per thread. A critical section of `cap_mutex`
is one step, except that the inferer keeps it from the test of its predicate
until it has gone to sleep: `cap_mutex` says so. The places where the lock is
*not* held (the notifications in the signal path and in the grabber) are
steps of their own, so that a wakeup can be lost exactly where the code can lose it.
In `Recording` each critical section of `rec.mutex` is one step; `written` is
history, the number of rows in the report. `Join` is the joins of all three threads,
the inferer's included, which may never return.

### Engine and detector

| Module | Stands for |
|---|---|
| `Detector` | the arithmetic of `infer()`: `letterbox`, `scale_box_to_frame`, `iou`, the decoding of rows and `nms`, as operators. `std::sort` leaves equal confidences in any order. A box that is scaled back keeps its exact place in fractions of a pixel (`Placed`) until the edge of the frame cuts it (`InFrame`, `Cut`) |
| `TrtEngine` | `YoloTrt` over many starts of the program: an action for the look at the cache, its reading and deserializing (which may fail for a whole cache too), the parsing, the building, the opening and the writing of the cache, the checks of the bindings, and `infer()`. The program may be killed at each of them, the model replaced at any time, the disk full |
| `YoloFiles`, `MCYoloFiles` | what the program leaves on the disk: `Recording` and `TrtEngine` side by side, of which a behaviour follows one, as they share no state |

`replaced`, `hidden` and `cached` are history: what a reader of time stamps
cannot know. Half precision, the order of bytes and CUDA are left out; a CUDA
error ends the program and is a `Kill`.

### Settings and health checks

| Module | Stands for |
|---|---|
| `SettingsFile` | `parse_yaml_file()`, a line at a time, and the lookups. `emplace()` is handed a node with `std::move()` which is used again when the key was there: the constant `Builds` holds what a standard library may leave in it |
| `HealthWatch` | the reads of `safety.yaml` by `control.cpp` and by `emergency.cpp`, one after the other until one throws; the two copies of the checks; the loop of `emergency.cpp` |
| `MCHealthWatch` | the shipped `safety.yaml`, what an editor may do to one of its lines, short files of any shape, and reports on both sides of every limit |

### Telemetry

| Module | Stands for |
|---|---|
| `FecPacket` | `fec_packet.hpp`: a payload is a set of messages and XOR the symmetric difference, so that a parity mixed from two runs yields what it would in the code: neither message |
| `FecEncoder`, `FecDecoder` | `fec_encoder.cpp`, `fec_core.py`, as actions over their own variables |
| `MCFecLink` | the worlds a run is in: one run of the sender on a network that may lose everything, or two on a better one; and one that loses a single datagram |
| `FecLink` | both ends and UDP between them: the sender's period and stalls, stop and restart; loss, delay, duplication; `poll()` with its timeout |
| `TelemetryFeed` | what the link promises: a payload that was submitted is delivered at most once, and counted as often |
| `GroundStation` | `TelemetryStore` and the browsers' threads, on top of `TelemetryFeed` |

`FecLink` implements `TelemetryFeed` (`ImplementsFeed`), and `GroundStation`
instantiates it, so that the store is checked against any order of delivery the
link allows and nothing of the link's detail.

## 3. Runs, bounds and fairness

| Run | Properties | What it shows |
|---|---|---|
| `approach_safety` | `TypeOK` `MotionNeedsFreshTarget` `LoiterIsSilent` `ResumeAfterQuiet` `CeilingHysteresis` `ImplementsHandoff` | the loop's safety under every order of packets, messages, overruns and failing calls |
| `approach_liveness` | `LostTargetLands` `SilentVehicleLands` `FlightEnds` | a lost target or heartbeat ends the flight, in LOITER too, and the time limit holds although passes overrun it |
| `startup_sequence` | `TypeOK` `StepsAreConfirmed` `StartupEnds` | with a ground station, lost commands and an interfering pilot, every step rests on a heartbeat, read since the step before, that confirms that one; and the start-up ends |
| `startup_target` | `CommandsGoToVehicle` (violated) | commands go to whoever was heard last |
| `target_sensing` | `TypeOK` `DetectionIsRecent` `AltitudeLagBounded` `NoJumpGetsThrough` | the age of the detections and the distances `control` acts on; how far behind a valid altitude may be when requests take longer than ALTITUDE takes to come |
| `yolo_threads` | `TypeOK` `ConfirmedIsSteady` `EveryFrameSeen` `StopReachesThreads` `GivingUpEnds` | threads, condition variable and stop in every order |
| `yolo_ctrl_c` | `CtrlCQuits` (violated) | the lost wakeup of the shutdown |
| `yolo_files` | `RowsBelongToRecording` `WrittenOnce` `LastRecordingSaved` `RecordingEnds` `StartFollowsModel` `BuiltOnce` `KeptApart` `FillsTheInput` | `/start`, `/stop`, sampler and shutdown on one recording; starts, kills and new models on one engine cache; the boxes and the input of the network |
| `fec_any_network` | `TypeOK` `NothingInvented` `AtMostOnce` `GivenUpOnlyTwoShort` `ImplementsFeed` | the telemetry link under any loss, duplication and reordering, and a sender that is stopped or killed and started again; a group timeout without slack, as shipped |
| `station_stream` | `TypeOK` `DisplayGoesForward` `BrowsersCatchUp` | payloads in any order, a sender that is restarted, browsers that come and go |
| `health_watch` | `TreeKeepsPlaces` `SameVerdict` `SilenceIsReported` | the settings reader against what the lines say, and the two copies of the health checks against each other |
| `settings_booleans` | `RequiredChecksAreOn` (violated) | two checks the shipped `safety.yaml` requires are off |

### Bounds

*Approach loop.* Its state is finite without a bound on its length: ages stop
counting above their limits. The limits are as small as keeps them distinct and
in the order of `setting/safety.yaml` (link staleness and heartbeat gap 1,
landing gap 2, target lost 3, LOITER hold 2, `InitialLinkAge` beyond the
staleness limit as in the code); a pass takes 1 or 2 ticks, so every limit can
be reached exactly and jumped over. `SafetyPackets` has an altitude in each
class the ceiling tells apart, and every combination of the flags that
`target_distance` sends that matters. The liveness runs have two packets, and
the two settings that only add ways to breach are off. The proofs cover all
other values.

*Start-up.* One datagram of one or two messages per tick of 0.2 s, one other
system that reports what it likes, waits of 3 ticks, a gap of 1: a wait can be confirmed, refused, go
silent, and time out after being silent for a while.

*Sensing.* A tick is 0.1 s. `target_sensing`: a cycle of one, an altitude stale limit of one, requests of up to two against ALTITUDE
every tick, which is the shipped ratio, and sometimes lost; a socket that holds two messages, so that
a message can wait for two requests (`AltitudeLagBounded` is reached, and false with one
less); three distances: one that jumps from the other two, and one that is within the jump
of its neighbour but implausible.

*Camera and inference.* Two class names, a streak and a warm-up of two frames;
frames are not counted, only whether one is unseen.

*Recordings.* Durations of 1 and 3 intervals and samples up to 2 late, so a
recording can have no row, one and several, and a late sample can jump the end.
`MaxRows` cuts `rows` above what a recording comes to, `Oldest` the age of a
recording above what one under way comes to.

*Engine.* Four models: two that can be built, one with other bindings, one that
is refused; three seconds, so that a stamp can be older, equal and newer; any
number of starts, kills and replacements. Frames with borders of even and odd
width on either side, and one that cannot be scaled; rows that overlap in a
chain, rows of equal confidence, of two classes, and too weak to count.

*Settings.* Every file that differs from the shipped one in one line (another
value, no value, a comment, no indentation, doubled, left out), and every file
of up to four lines of seven shapes (one of them with an empty key): with these, maps are closed one and two at a
time, keys repeated with and without children, and every read of both programs
throws in some file. One report for each side of each limit.

*Telemetry.* Two lanes of groups of two. `GroupWrap` (2^16 in the code) is 8 and not
reached: a wrap takes hours of flight at the shipped rate. The run has two of
`MCFecLink`'s worlds. In one the sender runs once, sends seven messages (three groups are
complete and one is not when it stops) and never stalls, and the network loses
and duplicates what it likes; in the other the sender may be stopped or killed
and started again after three messages, leaving groups of the old run half full,
and may stall, and the network loses one packet. `GroupTimeout` is the time from the first packet of a group to its parity,
as with the shipped values: whatever is delayed races the timeout. `NothingInvented` and
`GivenUpOnlyTwoShort` are claimed within one run of the sender, as XOR over packets of
two runs cannot tell.

*Ground station.* Two browsers, two messages in each of two runs of the sender: payloads of
one run in either order, and the numbers of the new run below those of the old one.

### Fairness

Weak fairness only, for steps that the operating system's scheduler or a
deadline in the code brings about: the passes of the loop and its sleeps;
`main()` and time in `FlightStartup`; each thread of `YoloLive` as long as it
is not blocked; the sampler, `SaveAtEnd` and time in `Recording` (not `Join`, see `yolo_ctrl_c`); the time-outs
of `recv_match()` and time in `HealthWatch`; the store and
each connected browser's thread in `GroundStation`. None is assumed for what
arrives from outside: packets, messages, commands, frames, HTTP requests,
signals, or a browser that reads. `FecLink` and `TargetDistance` have no
liveness property and no fairness; what takes too long there is an age, and an
age is an invariant.

`CHECK_DEADLOCK FALSE` is set where a program ends: the approach loop, the
start-up, `yolo_live`, `emergency` without a heartbeat, and the ground station
when every message is delivered and every browser gone; and in the runs whose
time is bounded.

## 4. What is proved

### The approach loop

`ApproachControlProofs` proves, from `ApproachAssumption` and
`GuidanceAssumption` (limits are natural numbers, packets have the type
`Packet`, `descent_speed_mps` is not below the lower bound `std::clamp` is
given, and the gains are not negative), for all limits, delays and sets of packets:

| Theorem | Statement |
|---|---|
| `TypeCorrect` | `Spec => []TypeOK` |
| `MotionSafe` | `Spec => []MotionNeedsFreshTarget` |
| `LoiterSafe` | `Spec => []LoiterIsSilent` |
| `ResumeSafe` | `Spec => []ResumeAfterQuiet` |
| `CeilingSafe` | `Spec => CeilingHysteresis` |
| `HandoffRefined` | `Spec => ImplementsHandoff` |

None of the safety properties is inductive. `LoopInv` adds to them the type
invariant and two relations between state and history: `HoldIsCalm`, during a
hold the time held is the time since a breach (a breach resets both, and both
grow by the same sleep), from which `ResumeAfterQuiet` follows when
the hold is over; and `FlagIsHistory`, while the vehicle flies the flag
`alt_enforcing` equals the history `descending`, from which `CeilingHysteresis`
follows: the code's flag survives LOITER and stale links exactly as the
commands do. `DescendsIffEnforcing` is the lemma about the arithmetic, which
needs the clamp's lower bound to be positive. `MotionNeedsFreshTarget` needs,
besides, that a packet says `valid` only with `altitude_valid` (the type
`Packet`, from `target_distance.cpp:301-308`).
The refinement of `FlightHandoff` is proved step by step from `LoopInv`: each
disjunct of `Next` is a step of `FlightHandoff` or leaves its variables alone.

### The start-up

`FlightStartupProofs` proves `StepsSafe` (`Spec => []StepsAreConfirmed`) and
`StartupTyped` (`Spec => []TypeOK`) from `StartupAssumption`: the vehicle is not
one of the others, and limits are natural numbers. The invariant `StartupInv`
says of the program that a stage is
not begun before a heartbeat that was read in the last one has confirmed it. Nothing
is assumed of what the other systems report, and nothing is claimed about whose
heartbeat it was: that it is the vehicle's is `ConfirmedByVehicle`, which the code
violates (section 5). `ParseStep`, `BeginStep` and one lemma
for each kind of step carry it.

### The engine, the boxes and the recordings

`YoloFilesProofs` has the proofs about all that `yolo_live` leaves on the disk.

*The engine.* From `TrtAssumption` and `DetectorAssumption`, for all models, sizes
and lengths of time: `StartsAreRight` (`StartFollowsModel`), `BuildsAreKept`
(`BuiltOnce`), `InputFilled` (`FillsTheInput`) and the types. `EngineInv` relates the
files to the program: a whole cache that is not older than the model was made from
it unless `hidden`, whether or not it can be deserialized; an engine that is being built is of the model in place unless
`replaced`. `CanvasFits` is the lemma about `letterbox()`: rounding
`room / 2 - 0.1` and `room / 2 + 0.1` adds up to `room` for every size, even or odd.

*The boxes.* `BoxesKeptApart` (`KeptApart`): whatever the network puts out, of two boxes
of one class that `infer()` returns none overlaps the other too much, unless the edge of
the frame has cut one of them after `nms()`; and none is left out
without one at least as confident in its place. Scaling back neither makes nor
undoes an overlap, as both sides are multiplied alike; the cut may, in the code as
in the model, and as in YOLOv5, where `scale_boxes` also follows the suppression. `nms` is a fold over the sorted
boxes. The induction it needs is not the library's, which takes an operator, but one over sets:
`LeastNatural` (a set of natural numbers that is not empty has a least member),
from the well-foundedness of strict inclusion of finite sets, and `Induction` on the
set of the indices for which the claim fails.

*Recordings.* From `RecordingAssumption` (durations and the interval are positive, and
there is a longest duration): `OneReport` (`WrittenOnce`), `LastIsSaved`
(`LastRecordingSaved`: when the program is over the last recording is closed and its report has
as many rows as were taken) and `RowsInOrder` (`RowsBelongToRecording`). For the last,
`RowsInv` follows the sampler around its loop: `Spaced` says where the clock stands
after the last row in each of its states, and `OnTime` that a recording under
way is never older than `Oldest`, so that the bound on `age` has no effect.

`FilesSpec`, which the run `yolo_files` checks, has the two side by side; they share no state,
so these theorems hold of it too (lemma `EachOnItsOwn`).

### The sensing loop

`TargetDistanceProofs` proves, from `SensingAssumption` (limits and delays are
natural numbers), `SensingTyped` (`TypeOK`), `DetectionRecent` (`DetectionIsRecent`),
`NoJump` (`NoJumpGetsThrough`) and `AltitudeLag` (`AltitudeLagBounded`). `AgeInv` bounds the real age of a detection at each point
of its way by the clock that runs there: in the answer by `age_ms` and the time
the request has taken, in the unread packet by `TargetStale + MaxHttp` and the
time since the reader polled, in the reader's packet by a pass more and
`link_age`. `NoJump` holds because the reference for the next reading and the last
distance shown are the same (`JumpInv`).

`AltitudeLag` has no hypothesis about the periods. `MessagesWait`: the message at place
`i` of the socket has waited for a request for each message that has come in
behind it, at most; reading one moves the others a place and a request
on (`ReadingWaits`), and a message is taken only into a free place
(`ArrivalWaits`). `ReadingAge` carries the wait over to the reading, which the
program takes for new.

### The telemetry link

`FecLinkProofs` proves, from `PacketAssumption`, `DecoderAssumption` and
`LinkAssumption` (any lanes and group size, any wrap of the 16-bit group number, any
timing, and worlds with losses, duplicates, reconnects and restarts of the sender):

| Theorem | Statement | Hypotheses |
|---|---|---|
| `DeliversAtMostOnce` | `Spec => AtMostOnce` | |
| `LinkTyped` | `Spec => []TypeOK` | |
| `InventsNothing` | `Spec => []NothingInvented` | `NeverWraps` |
| `LinkImplementsFeed` | `Spec => ImplementsFeed` | `NeverWraps` |
| `GivesUpOnlyTwoShort` | `Spec => GivenUpOnlyTwoShort` | `NeverWraps` |
| `RecoversOneLoss` | `Spec => []OneLossRecovered` | `NeverWraps`, `InTime` |

*Nothing twice.* It needs three things at once (`LinkInv`). A message goes
on the wire under one key, however often group numbers are used again
(`KeysDisjoint`): the encoder's pending messages and its queued parity are
already on the wire under theirs. What a group delivers is not empty and is made
of messages of its own key (`DeliversItsOwn`), also when a group mixes
the packets of two runs and what is recovered is no message; that it is not
empty is a matter of counting, as a parity covers `GroupSize` messages and
fewer slots are filled (`FewerThanSlots`). And what was delivered came from a group that is
not open and not above the watermark, so that no packet opens it
again (`Closed`, `AbsorbedSound`, `WatermarkRises`). `LinkTyped` rests on `LinkInv` too;
its point is that one parity at most waits in the encoder, so that `flush()`,
which sends one, leaves none.

*Nothing made up.* `NeverWraps` says that the group numbers of a lane do not come round in
one run of the sender: the decoder takes two groups of one number that meet for one, and
the code has no guard against it. With the shipped 3 lanes of 4 packets and 10
messages a second a run may last 21 hours. `FirstRun` is the invariant: the messages
went to the lanes in turn (`Rounds`), so that a lane that fills a group has a new
number for the next (`NextGroupIsNew`); a slot of a group has one payload on the
wire and a payload one slot (`OneEach`); a parity covers a group that is on the wire as a
whole (`Covers`); and what an open group holds was sent in the slot it is in (`Genuine`).
`RecoversWhatIsMissing` is the lemma about `try_recover()`: the XOR of the parity and the payloads
that are there is the payload of the slot that is missing.

*The feed.* `LinkImplementsFeed` maps each step of the link to a step of `TelemetryFeed` or a
stutter. `Sent` and `received` carry over; that the decoder's statistics
are the number of deliveries is `CountsEachOnce`, a bijection between the filled slots and recovered
groups that a sweep closes and the payloads it returns.

*Nothing given up too early.* `GivesUpOnlyTwoShort` has no hypothesis about time: however late
packets are, when a group is closed as many of whose packets have come as it has messages, all of its
messages have been handed over. `Held` and `Arrivals` say that what has come for an open group is
in it, `EnoughIsComplete` that all but one of its packets make it whole or recoverable, and
`ClosesOnlyShort` that a sweep returns what it closes. What the receiver gives up on has lost two packets, or
is waiting for one that is on its way: whether it waits long enough is the next theorem's matter.

*One loss, when there is time.* `RecoversOneLoss` is for whoever chooses the parameters; the shipped ones
do not meet its hypothesis, and section 5 says what happens then. `InTime` has two parts. `Span + MaxDelay <= GroupTimeout`: the receiver
waits as long as the sender takes from the first packet of a group to its parity
(`Span`, `(GroupSize - 1) * NLanes + 1` periods) and a datagram to arrive. TLC
finds `OneLossRecovered` violated with a timeout of one tick less, so this is tight.
`MaxDelay < (GroupSize * NLanes - 1) * Period`: a datagram is not so late that the lane's next group
is through before it, as the watermark would make it a straggler. This one is sufficient:
TLC finds no violation with up to one period more. The shipped values
leave no room in the first (section 5), so the theorem tells what the parameters
would have to be. `Recovery` is the invariant, for the first run and a sender that
is not held up. `Turns` says which number the sender is at when a packet leaves, so that
a parity goes out at its `ParityTurn`; `Clocks` bounds the age of an open group by the
sender's progress since its first message, and by the age of any packet of it
that is still under way; `Fates` says that what has arrived is in its group as long
as that is open, and that a group that is closed was handed over as a whole (`Done`), or
has lost two packets (`Dead`), or lacks a parity that a stopped sender will not send
(`Silent`). The lemmas that carry it are `GivenUp` (a group that times out waits for
nothing any more), `EarlierAreOver` and `PassedOver` (nor do the earlier groups of
a lane when one is closed), `CompleteIsDone` and `NeverDies` (in the first run
a recovery does not raise).

### Confirmed targets

`YoloLiveProofs` proves, from `YoloAssumption` (a streak is at least one long,
and `std::nullopt` is no class), `ConfirmedMeansSteady` (`ConfirmedIsSteady`) and
`TypeCorrect`. `StreakInv` says how the deque ends: with as many names of the
target in sight as there were inferences in a row that saw it, and with another name before
them. `PushProperties` is the lemma about `push_capped()`, `OneMoreAlike` and
`FirstAlike` are its two ways to end.

### The ground station

`GroundStationProofs` proves, from `StationAssumption`, for any set of browsers,
`NoBrowserGoesBack` (`DisplayGoesForward`) and `StationTyped`. `OrderInv`: what a
browser shows is behind the snapshot its thread is about to write, and both are
behind the store, which only goes forward. The type invariant includes that no
thread sleeps through a version, and that the version is bounded by the
payloads received, by counting those that are pending.

### The settings reader and the health checks

`HealthWatchProofs` proves `TreeSaysFile` (`TreeKeepsPlaces`) and `VerdictsAgree`
(`SameVerdict`) for every file, every library the reader may be built with (`Builds`) and
every report.

*The tree.* `ReaderInv` says what `parse_yaml_text()`'s stack of open maps is after every
line (`Opens`): the lines whose sections are open, in order and each deeper than the one before, with
the path of each in the tree; and that the tree says exactly what the lines so far
do (`TreeSays`): each value under the sections it is indented below, of several of one
name the last; with the text of a repeated one lost where `emplace()` clears its argument. `InsertedSays` is the lemma about `emplace()` and what follows it when the key
was there, `BelongsToInnermost` the one that popping the stack down to a smaller indentation
leaves the map the line belongs to. Paths are sequences of any length, so the
induction is over sets, as for the boxes.

*The verdict.* Both programs load the limits with a list of reads that stops at the first that
throws. The two lists have four blocks in common, in one order, with others before and
between them; the lemmas about `LoadFrom` cut the lists into blocks (`LoadsInParts`): a block that both have
does the same to both, and one that only one has touches no limit that both check, or
throws, which is what `apart` records. Where the limits agree the two copies of the checks do (`ChecksAgree`).

### Left to TLC

All liveness (TLAPS has no support for fairness and `ENABLED` here): `LostTargetLands`,
`SilentVehicleLands`, `FlightEnds`, `StartupEnds`, `EveryFrameSeen`, `StopReachesThreads`,
`GivingUpEnds`, `RecordingEnds`, `BrowsersCatchUp` and `SilenceIsReported`. And the three
properties that the code violates, for which a counterexample is the result. Every
invariant and every other action property of a passing run, and both refinements, are theorems.

## 5. Where the code and its documents disagree

Three disagreements have a run of their own.

- `yolo_ctrl_c`: `run()` sets `g_stopping` and notifies `cap_cv` without holding
  `cap_mutex` (`yolo_live.cpp:1039`). An inferer that has tested its predicate
  and not yet gone to sleep misses it, and if the grabber posts no further
  frame, `infer_thread.join()` does not return: Ctrl-C does not quit. A frame
  that is posted after the stop releases it.
- `startup_target`: `recv_match()` overwrites `target_system_` with the sender
  of every message (`drone_lib.cpp:36`). With a ground station on the link a
  command goes to whoever was heard last. `drone_lib.hpp:17-18` says the target
  is learned from the first heartbeat, `control/tests/test_mav_connection.cpp`
  asserts that it stays (`command_target_is_stable_after_other_system_message`),
  and `Document/developinglogHJ.md:45-50` records it as fixed: the tests belong
  to a `drone_lib.cpp` that is not the one in the tree.
- `settings_booleans`: `get_bool_or()` (`control.cpp:25`, `emergency.cpp:44`)
  compares the whole value of a line with "true", and `parse_yaml_file()` leaves
  a comment behind a value in it, on the ground that "every comment in
  MAVLink.yaml starts a line of its own" (`yaml_settings.cpp:54-55`). In
  `setting/safety.yaml` the comments of `require_prearm_healthy: true` and
  `require_normal_state: true` (lines 69 and 72) do not: both are read as FALSE,
  and an unhealthy pre-arm check or a CRITICAL state is no breach in either
  program. Numbers are not affected, as `stod()` stops at the comment.

The others follow from what the models say, and TLC finds a counterexample when
the sentence is stated as a property and checked with the constants given; they
are described here rather than kept as runs.

- `control.cpp:50-56` says that the wait for a heartbeat is there to check "that the mode
  actually switched, that the vehicle actually armed". `wait_for_heartbeat()` asks neither
  for the system nor for the autopilot of a heartbeat (`control.cpp:83-87`,
  `741-749`): a second vehicle or an antenna tracker that is in GUIDED, or armed,
  confirms the step (`ConfirmedByVehicle`; `StartupSequence.cfg`).
- `target_link.hpp:13-17` says of the altitude "only trust it as current when this
  is 1". `target_distance` takes one ALTITUDE message off the socket per round and
  asks `yolo_live` in each, which may take 0.2 s against an ALTITUDE every
  0.1 s (`target_distance.cpp:216-235`). Messages queue up, and each is stamped
  as new when its turn comes (`AltitudeIsCurrent`; `TargetSensing.cfg`, or the shipped
  values: `AltitudeStale` 5, `TargetStale` 4, `LinkStale` 3, `MaxUnread` 16, no
  target). `AltitudeLagBounded` says how old the altitude can be.
- `fec_packet.hpp:11-12` says the parity recovers exactly one loss per group. With
  the shipped 3 lanes of 4 packets at 10 Hz a group lasts nine periods and its parity
  leaves one later, which is the whole 1.0 s of `GROUP_TIMEOUT_S`
  (`fec_core.py:23`): any delay closes the group first (`OneLossRecovered`; with
  `NLanes` 3, `GroupSize` 4, `GroupWrap` 65536 and ticks of 20 ms, that is `Period` 5,
  `GroupTimeout` 50, `PollTimeout` 10, `MaxDelay` 2, and the world `OneLossOnly`).
- `yaml_settings.cpp:103` says "key repeated: last write wins". `parse_yaml_file()`
  uses `child` again after `std::move(child)` was handed to `emplace()` (lines
  100-103). A standard library may make the node before it looks for the key; then
  the text of a repeated key is lost (`TreeAsWritten`; `HealthWatch.cfg` with `Builds`
  only `"cleared"`). No shipped file repeats a key.
- The comment at `control.cpp:557-562` says that `!last.altitude_valid` already
  means that no altitude is fresh. When `target_distance` stops sending, the
  flag of its last packet stays set (`ApproachSafety.cfg`; "a setpoint is sent
  after the first altitude only if `link_age <= LinkStale`").
- `setting/safety.yaml:13-16` says that `control` keeps correcting until the
  vehicle is down to the recovery margin. A pass with a stale link commands no
  descent, the correction still being on (`ApproachSafety.cfg`; "`descending`
  implies `vz > 0`").
- `fec_packet.hpp:12` fails after a restart of the sender too: the decoder's
  watermark is that of the old run (the second world of `MCFecLink`, and
  `OneLossRecovered` without `run = 1`).
- `fec_encoder.cpp:19-21` says that a parity is never adjacent to the data packet
  that triggered it. It is sent at the start of the next `submit()`, directly
  behind that packet; what separates them is time.
- `control.cpp:60-63` says that a heartbeat gap is noticed. The heartbeats of a
  ground station fill the gap of a vehicle that has fallen silent, in the wait
  of `FlightStartup` as in the approach loop.
- `Document/developinglogHJ.md:37-38` says that every byte that is read is
  parsed, and `receives_coalesced_messages_without_byte_loss` asserts it.
  `recv_match()` drops what is behind the message it returns.
- `target_link.hpp:12` says that `found` is a subset of `valid`. `found` comes with
  `valid = 0` when the altitude is stale.
- `gcs_bridge.py:37` calls the store a holder of the latest telemetry. After a
  restart of the sender it keeps the last message of the run before
  (`StationStream.cfg`).
- `finish_locked()` prints "saved" although the report could not be opened
  (`yolo_live.cpp:260-264`).

## 6. What is not modelled

- *Arithmetic of the camera geometry* (`pos_calculator.cpp`) and of the
  distance: real numbers, no state. A distance is a member of a set.
- *Bytes*: MAVLink and HTTP parsing, CRC-32 (a packet that fails its CRC is a
  lost packet), the layout of `TargetRangeMsg`, JSON.
- *Serial and TCP transports*: the models use UDP, where a read is a datagram.
- *The contents of telemetry*: which MAVLink field goes where.
- *Detached HTTP threads* of `yolo_live` for `/`, `/conf`, `/data` and
  `/stream`: they read state; that they outlive the locals they refer to is a
  matter of memory, which the models do not have.
- *The age of a battery, GPS or EKF reading*, which the code does not keep.
  `HealthWatch` has how a breach is computed from the messages; in
  `ApproachControl` a reading is good or a breach.
- *The network* of the detector: its output is a set of rows. `KeptApart` and
  `FillsTheInput` are about what surrounds it. Floating point is integers in
  small units; the products and quotients of `iou()` are exact.
- *The vehicle*, except for the modes it reports in `FlightStartup`.
- JSON (`target_json.cpp`), loggers, bench tools that print what they receive, the Python twin of `yolo_live`, the
  simulation, vendored headers.

The hazards without a property in `PROJECT.json` carry the reason.

## 7. Plan

Done: the modules above, their runs, and the proofs of section 4.

1. *Extend.* (a) `/stream` with `frame_cv` and `/data` in `YoloLive`. (b) The
   reconnect loop of `telem_sender_main.cpp` as a module over `MavConnection`,
   sharing `Parse` with `FlightStartup`. (c) A flight: `FlightStartup` followed
   by `FlightHandoff`, for what a pilot's mode change means across both.
2. *Prove.* The order condition of `InTime` a period weaker, as TLC finds it; the
   safety half of the liveness arguments, where one can be stated as an action property (what
   a pass, a sampler or a wait has left never grows but when it starts anew); and the
   invariants of what 1. adds.
