# Verification of the SmartCar control program

The program drives a camera-guided model race car: an NXP i.MX RT1064 under
RT-Thread 4.0.1 takes 160x120 grey pictures, finds the borders of the track,
steers a servo and drives two motors. `readme.md` names what the driver sees of
it: beeps (one for a ring, two for a cross) and the switches. This directory holds
TLA+ models of its core, TLC configurations that check them on small instances and
TLAPS proofs that hold for every value of the constants.

## The system

One core, priority-preemptive threads, no memory protection:

| thread / interrupt | priority | code | what it does |
|---|---|---|---|
| CSI, PIT, GPIO2 interrupts | NVIC 0 | `interrupt.c` | frame done, timers |
| LPUART1 | NVIC 14 | `fsl_lpuart.c` | console input |
| SysTick | NVIC 15 | `board.c` | the kernel's tick |
| tshell | 5 | RT-Thread | runs the `*_cmd` functions typed by a person |
| main | 10 | `main.c` | one iteration per frame |
| button thread | 28 | `agile_button.c` | polls the buttons |
| chassis thread, blink daemon | 30 | `chassisThread.c`, `easyblink.c` | motors every 50 ms; LED and beeper |

### Inventory

| component | state it keeps | operations | interacts with | hard about it | correct if |
|---|---|---|---|---|---|
| camera capture (`fsl_csi.c`, `zf_csi.c`, `SEEKFREE_MT9V03X_CSI.c`) | queue of two buffers with four indices, two DMA registers, `mt9v03x_csi_image` | submit, get full, start, frame interrupt | releases `csi_done_sem`, shares its buffers with main | the finished buffer is given back to the DMA before it is read; late interrupts | never starves, publishes what was finished, no picture is read while written |
| main loop (`main.c`) | semaphore count, PID of the servo | reset, take, process, steer | capture, recognition, drive, display | timing against the camera | every frame at most once, never stops |
| track elements (`findLines.c`, `velocity_set`) | `js1..js8`, `HL/HR`, `huan*`, `shiziflag`, `road_type`, `shortstraight_flag` | one pass per frame through the sections of `findline2` | speed, beeper | flags spread over hundreds of frames, stale flags, stores past arrays | the flags of a ring agree, every ring is left by its exit, no cross inside a ring |
| drive (`chassisThread.c`, `Carlibs`) | two wheels with controller and motor | `set_velocity`, `wheel_update`, `motor_run` | called by main and shell, run by the chassis thread | no lock, non-atomic pairs of writes, start-up order | targets in pairs, channels exclusive, the switch stops the motors |
| interrupt nesting (`interrupt.c`, `irq.c`) | `rt_interrupt_nest` | enter, leave | the scheduler | swapped calls, nesting | 0 exactly outside interrupts |
| speed plan (`velocity_set`, `distinguish.c`) | `road_type[200]`, `shortstraight_flag`, `speed_set` | once per frame | recognition before it, drive after it | histories read before they are shifted, integer formulas, a store past the array | in range, slower when worse, braking after a long straight |
| steering and stop line (`compute_error`, `stop_car_judge`, `main.c`, `pos_pid_controller.c`, `servo.c`) | `steer_error[30]`, `stop_car[20]`, gains, the controller | once per frame; the shell's tuning commands | camera rows before it, drive and servo after it | clamps in sequence, the shell in between, a store past the array | bounds, rate limits, the stop line stops |
| line scan (`findline1`) | border and middle line per row, `column_start` | one pass per frame | image before it, recognition after it | each row starts where the last one ended; search windows at the picture's edge | the borders of the road it starts in |
| image processing (`imageProcess.c`) | filtered and binary image | filter, threshold, binarise | camera image before it, scan after it | reads past the image, a threshold close to the border pixels | the mean; the road neither hidden nor moved |
| blink daemon (`easyblink.c`) | two LED records, a backup pattern each, a semaphore | init, deinit, blink, stop, daemon | called from main | callers interrupt the daemon between any two accesses | flashes keep their length, nothing is stranded, nothing stays on |
| buttons (`agile_button.c`, `buttonThread.c`) | per-button state machine | create, start, stop, poll | callbacks under a mutex | debouncing, repeat window, tick wrap | each press reported once |
| encoder, utilities | last count | read, parse | chassis, shell | - | see below |
| display, SD demo, open-loop tests, vendored libraries | - | - | - | - | not modelled (see below) |

## The modules

### `FramePipeline` and `DoubleBuffer` - from the camera to `main()`

`csi` is the driver's handle with the two frame-buffer registers; the operators with
names from `fsl_csi.c` are its functions, applied to the handle. `mt9v03x_csi_init`
is the start; `CSI_IRQHandler` is the interrupt, with one done flag (`FrameDone`) or
both (`FrameOverrun`), the callback `csi_isr` and the release of the semaphore
included; `ResetSem`, `TakeSem`, `StartFilter`, `FinishFilter`, `FinishIteration` are
the loop of `main()`. `Tick` is the hardware: it advances time, ends frames and
switches the DMA register. `consumed` and `lag` are history variables: has main seen
this picture, and how late was its interrupt.

Time matters because nothing locks the buffers. Three constants bound it: `FRAME`
(length of a frame), `LATENCY` (how long the interrupt may be pending) and `FILTER`
(from the moment `main()` is runnable to the end of `gray_mean_filter`).

`DoubleBuffer` is what all of it promises `main()`: frames are published from the two
buffers in strict alternation, and a take hands out the newest frame, each at most once.
It leaves open what the code leaves open: a frame that is not taken is replaced, and
publishing goes on while `main()` reads (that the read is in time is `NoTornFrame`).
`FramePipeline` implements it (`DoubleBuffered`), with the buffer the driver's queue names
next for `filling`, an unseen frame for `fresh` and the argument of `gray_mean_filter` for
`reading`.

The path of `CSI_TransferSubmitEmptyBuffer` that restarts a stopped peripheral is
kept in the queue operator but unreachable: `CaptureNeverStarves` proves it.

### `ImageProcess`, `LineScan`, `Vision` - from the picture to the borders

`ImageProcess` is `gray_mean_filter`, `mean_threshold` and `gray_to_binary`; the image
is the memory it lies in, so that the filter's reads behind it are what they are in the
code. `LineScan` is `findline1` row by row, with `find_toppoint`; of `findline2` it keeps
what the next frame's scan starts from. `Vision` instantiates both on one image in the
order of `main()`: `Frame` takes a picture (`scene`: a leaning or bent road with a
bright or dark blot), filters, binarises and scans it; `Finish` is the rest of the
frame. `from` and `done` are history variables.

### `TrackElements` - rings, crosses and road types

One action per section of `findline2` and one for `velocity_set`, in the order of the
code (`pc`). What a search finds in the picture is an input; every flag that
survives is state. Pairs of variables for the two sides (`js1/js2`, `HL/HR`, ...)
are functions on `Side`. `fill` records which fill wrote the middle line last.
Two variables are chosen at the start and never change. `nested` says whether a ring
may be recognised while another is driven (the code does not prevent it, a real track
does not show it). `spill` says whether the store to `road_type[200]`, past the array,
hits `shortstraight_flag`, declared right after it; the layout is the linker's choice.

### `SpeedPlan` - the speed of a frame

`velocity_set` again, this time with its numbers: the record of road types, the windows
of it that are read before it is shifted, the integer formulas. What the picture shows
(a ring, a cross, a straight, the error) is an input. `how`, `run` and `before` are
history variables: the branch taken, the length of the current run of equal types and
the run before it. `velocity_set` thus has two views: its judgement of the picture
in `TrackElements`, its arithmetic here.

### `FrameControl` - error, stop line, steering

The second half of main's iteration, one action per statement that the shell can get in
front of: `compute_error` from the mean column on, `stop_car_judge`, `Drive`
(`set_velocity`'s two speeds), `ComputeGain`, `LimitGain`, `CapGain`,
`UpdateController` (`controller_set_param` and `pos_pid_controller_update`), `Steer`
(`servo1_set_angle`). The reads of one statement are one step.

The mean column may lie outside the image by `HALF_WIDTH`: the fills of `findline2` add or
subtract half the road's width without limiting the result (`findLines.c:321`, `:404`).
`set_steer_pid_param_cmd` is the shell's and replaces all five parameters (`basic_kp`, `kp_j`,
`kp_max`, `ki`, `kd`) between any two steps; as built `ki`, `kd` and `kp_j` are 0, so it is the
only way to an integral or a derivative part. `set_angle_cmd` is the shell's too. `pid` keeps
the gain and the `kd` of its last update, because the parameters may have changed since.
`overlap`, chosen at the start, says whether `stop_car[20]`, written and counted by the loop
that shifts the array, is `stop_car_flag`. `past` and `highest` are history variables: the
marks of the last frames, and the greatest limit in force since the frame's gain was begun.

### `Drive` - from a speed to the motors

`Frame` and `set_velocity_cmd` enter `set_velocity` from main and from the shell,
`wheel_set_speed` does its two writes one at a time, and the chassis thread creates
the wheels and then, period by period, updates both and writes the two PWM channels
of each motor. `MayRun` and `ChassisMayRun` are the priorities. `issued` and `typed` are
history variables: the pair of the call that ended last, and whether a speed was typed
since main's last call began. The PID is reduced to
the range of its output, the factor `speed_to_rpm` left out.

### `EasyBlink` - the LED and the beeper

The callers of `easyblink.c` have priority over its daemon and interrupt it between any
two of its accesses to a slot; they run to their end first. So a call is one step
(`CallBlink`, `CallStop`, `CallInit`, `CallDeinit`; `Boot` is `main.c:64-67`), and the
daemon's code is cut at its accesses, a read-modify-write into a load and a store:
`MinTicks`, `CorrectLoad`/`CorrectStore` are `correct_or_get_min_ticks`, `Enter`,
`SemTake`, `TimedOut`, `Woken` its wait, the rest its loop over the slots. `Tick` is
the system tick. A constant lists programs (sets of calls, fixed in `calls`):
this project's own only asks for beeps. `MUTEX` adds the lock of
`PKG_EASYBLINK_USING_MUTEX`, which the build does not define. `since` is a history
variable.

### `Interrupts` - the nesting counter

Each handler is taken, makes its first call, runs its body, makes its last call and
returns; a handler of higher priority may come in between.

### `AgileButton` and `ButtonEvents` - a button

One button of `agile_button.c`: an action per public function and one per state of
`btn_process`. The mutex makes a call and a pass one step each. The pin reads anything
at every pass, so every pattern of bouncing is included. Time is the wrapping tick
counter; passes come `POLL` to `GAP` ticks apart and a callback takes up to `CALLBACK`
ticks, inside the pass, as in the code. The other buttons only make passes later and
are part of `GAP`. `level`, `steady` and `since` are history variables: the last
reading, how long the readings have been equal, how long ago the last event was.
`RECONFIGURE` adds the calls `key_create` never makes (stop, delete, the setters).
`ButtonEvents` is what callbacks may rely on; `AgileButton` implements it (`Protocol`).

### How they fit together

A frame goes through `FramePipeline` (the picture is whole), `Vision` (its borders),
`TrackElements` (its type), `SpeedPlan` and `FrameControl` (speed and steering) and
`Drive` (the motors); `EasyBlink` beeps for it. Composed into one state space are the
stages that share state within a frame: image and scan in `Vision`, main, shell and
chassis thread in `Drive`, main and shell in `FrameControl`, callers and daemon in
`EasyBlink`, interrupts, DMA and main in `FramePipeline`. Where a value alone is passed
on, the later module takes every value of its type, so it does not depend on the
earlier one; the bound proved of it there (theorem `ErrorBounded` for the
error `SpeedPlan` takes) is the assumption here.

## Runs

| run | instance | shows |
|---|---|---|
| `frame` | frame 3, latency 7, filter 4 ticks | `NoTornFrame`, `FreshFrame`, `CaptureNeverStarves`, `PublishesFinishedBuffer`, `DoubleBuffered` (refinement of `DoubleBuffer`), `KeepsProcessing` (liveness) |
| `vision` | 15 x 5 pixels, a road 4 wide | `FilterIsMean`, `FindsOwnRoad`, `RoadFound` |
| `track` | complete; nested rings with the spilling store, and neither | `RingFlagsAgree`, `NoCrossInRing`, `OnePhase`, `ExitFillWins`, `RingEndsAtExit`, `RingIsLeft` (liveness) |
| `speed` | a record of 5, errors to 3, spilling store | `SpeedInRange`, `SlowerWhenWorse`, `CutAfterStraight` |
| `control` | 4 marks, errors to 2, both layouts, the shell retuning | `StopLine`, `GainCapped`, `WindupYields` |
| `drive` | speeds 0 and 1, main and shell, controller above the motor's limit | `NoNullWheel`, `TargetsPaired`, `ChannelsExclusive`, `SwitchStopsMotors`, `TargetsReachWheels` (liveness), `TypeOK` |
| `blink` | two slots, no lock, three programs | `CorrectionPending`, `DaemonServesSlots`, `WakesInTime`, `FlashLength`, `ErrorLedBlinks`, `BeepFallsSilent` (liveness) |
| `button` | counter of 11 values, all calls | `ListedOnce`, `Debounced`, `PressReported`, `RepeatForgotten`, `HoldPeriod`, `Protocol` (refinement of `ButtonEvents`) |
| `nest_thread` | all six handlers | `ThreadContextKnown` |
| `curve_record` | complete | violated: `CurveRecorded` |
| `button_window` | window 5 ticks, debounce 2 | violated: `RepeatWindow` |
| `nest_isr` | all six handlers | violated: `InterruptContextKnown` |

### The bounds

* `frame`: the latency exceeds two frames and the filter one, so that both done flags,
  overruns, restarts and iterations longer than a frame are reached and the semaphore
  reaches its limit. `NoTornFrame` itself says which pictures are safe: those whose
  interrupt's lateness and filtering together stay below a frame.
* `vision`: 15 columns hold the margins the scan leaves out, a road of 4, and ground on
  both sides; five rows are two edges and the three rows scanned. The first frame starts
  in the middle of the picture, the next ones where the last row of a frame ended; any
  two pictures follow each other. One blot of a pixel, or of 3 x 3, at every place.
* `track` and the interrupt runs have no bounds: the state is finite and explored
  completely. `nested` and `spill` are both chosen or neither: with both, the run
  contains the behaviours of one alone.
* `speed`: a record of 5 with windows that start and end at different places; errors up
  to one above both divisors. The speeds are the build's divided by ten.
* `control`: four marks of which two stop, so that a mark is one, two, three frames old
  and past the end; errors range over four steps, and means beyond both limits of the
  error; gains below and above the limit. The controller starts with a derivative part and
  without an integral one; the shell takes the former away, sets `kp_j`, and switches `ki` on
  and off. The limits of the output and of the integral are both reached, on both sides. The
  differential, about which no property of the run says anything, is 0 (`StoppedCarStands`
  is proved for all).
* `drive`: one speed and the stop line's 0 distinguish old from new targets; what
  the controllers hold before the first call (`Unset`) equals the speed, so that it too
  can be left over. One controller output beyond the motor's limit on each side
  exercises `limit_int`. Differential steering is 0: pairs that differ are covered
  by `SpeedsPaired` for all values.
* `blink`: two slots as in the build, bursts of one and two flashes, the pulses and gaps
  1 to 3 ticks so that both slots are due together and one between the other's; requests
  stop while the semaphore's count is 9; an idle slot's ticks stop falling at -1. With
  `LATE` 0 the daemon runs within the tick it was woken in, otherwise flashes are longer
  by what it lost, which is no fault of its own.
* `button`: eleven values of the tick counter, so that every deadline and every hold crosses
  its wrap; passes are on time or one tick late; the repeat count wraps after three
  presses; two elimination times. The history clocks stop at `CLOCK_MAX`, beyond every
  bound they are compared with. The bounds in `PressReported`, `RepeatForgotten` and
  `HoldPeriod` say how late a report can be in terms of `GAP` and `CALLBACK`; they take
  the place of liveness properties.

### Fairness

`FramePipeline`: time passes, a pending interrupt is served, main runs when runnable
(weak fairness each; only the shell has a higher priority and it waits for a person).
`TrackElements`: frames keep coming, and three assumptions about the *track*, not the
code: again and again a picture shows the exit of the ring, both lines, a straight
middle line. Without them a car standing in a ring stays in it, rightly.
`Drive`: callers finish their calls, and the chassis thread, although it is
interrupted again and again, gets on (strong fairness): main blocks after every frame.
`EasyBlink`: main goes through its start, the tick never stops, and the daemon, once it
can go on, goes on (weak fairness each). It has the lowest priority, but the threads
above it block in every frame, and `Tick` cannot overtake it by more than `LATE`.
The other specifications have no liveness properties and state no fairness.

## What the models show

### Violations

* `CurveRecorded`: `short_straight_judge` sets `shortstraight_flag` and nothing ever
  clears it. After the first straight frame no frame is a curve any more: the CURVE
  branch of `velocity_set`, with its speeds, and the test for three curve frames
  against accelerating in an omega bend are dead code.
* `RepeatWindow`: `tick_timeout` holds both the end of the 500 ms window for a repeated
  press and the end of the debouncing. One active reading after a release (a bounce)
  replaces the first by the second, and the repeat count is cleared some 15 ms later:
  the next press of a double click counts as a first one.
* `InterruptContextKnown`: the handlers of `interrupt.c` call `rt_interrupt_leave` on
  entry and `rt_interrupt_enter` on exit. Alone this only makes the counter 255 in the
  handler; when such a handler interrupts SysTick, it is 0, and the kernel takes
  `csi_isr`'s release for one made by a thread.

### Seen while modelling, without a run

Except for the encoder, these are in the models as the code has them (the first three for
calls or patterns this program does not use); the properties are worded so that they hold
beside them.

* `easyblink_stop` darkens the LED and clears ACTIVE (`easyblink.c:351`). If it
  interrupts the daemon between its test of ACTIVE and the write to the pin, the LED is
  lit afterwards and stays so. It also leaves the number of flashes: the next request
  for a stopped endless pattern is treated as replacing it, and the stopped pattern comes
  back from the backup when the burst is over.
* The pause before a burst that replaces an endless pattern is cut short when a
  request for another slot wakes the daemon (`easyblink.c:342`).
* `easyblink_init_led` returns the last slot when every slot is in use, where its comment
  promises RT_NULL (`easyblink.c:52` and `:109`).
* Without the lock a request can be left in the backup of a slot that has stopped: the
  daemon tests the backup and clears ACTIVE sixteen lines later (`easyblink.c:359`,
  `:375`), or takes over the backup's count and then its times. `LockStrandsNothing`
  proves that the lock excludes it. A beep asked for in those lines is not heard in its
  time but after the next one.
* The shift in `stop_car_judge` writes and counts one element past `stop_car` in every
  frame. Where `stop_car_flag` lies there, a single old mark sets it for one frame
  (`StopLine` allows for exactly that).
* `find_toppoint` looks at rows above those `findline1` has scanned (`findLines.c:893`);
  their middle is what a fill of an earlier frame left there.
* With a large error and speed the inner wheel's target is negative: nothing in
  `set_velocity` limits the differential.
* `encoder_measure_rpm` reads and clears the pulse counter in two calls and its time base
  in others (`encoder.c:57`); main interrupts it in between, and a frame's pulses
  are lost. Its test of the sample time compares with `last_time`, which nothing sets.
* When the shell lowers `steer_kp_max` after main has compared the new gain with it, the
  controller works with a gain above the limit for one frame. `GainCapped` says that it is
  still within the limit the comparison was made with, or another of the same frame.
* Setting `ki` to 0 with `set_steer_pid_param_cmd` leaves the integral collected so far in
  the output for good (`pos_pid_controller.c:43`).
* HOLD events may be a tick early once a button has been held for a whole range of the
  tick counter (49 days), because `agile_btn_cal_hold_time` is one short between the wrap
  and the end of the round; `HoldPeriod` allows for it.

## Proofs

The proofs assume what the modules' `ASSUME`s say and nothing else, unless the theorem
states it. Four assumptions say more than the types of the constants:

* `TimeAssumption` (`AgileButton`, for the time bounds): the elimination times are positive
  and not above the interval (`uint8_t`, 15 by default, against 500), the interval, a hold
  cycle and the lateness of a pass are short against the tick counter (32 bits), and the
  history clocks outlast a hold cycle.
* `AgileButtonAssumption`: the elimination times fit into half the tick range.
* `WindowAssumption` (`SpeedPlan`): the windows of the record are not empty and begin
  inside it (6 to 10 and 9 to 13 of 200).
* `VisionAssumption`: rows and columns leave room for the margins, a search looks at
  least one pixel far (15 in the code), and the rows scanned have a filtered row above and
  below (the code scans 118 to 11 of 120).

`FramePipelineProofs` proves, for all frame lengths, latencies, filter times and
semaphore limits, `TypeCorrect`, `CaptureSafe`, `PublicationCorrect`, `NoFrameTwice`,
`NoTearing` and `ImplementsDoubleBuffer` (the properties `TypeOK`, `CaptureNeverStarves`,
`PublishesFinishedBuffer`, `FreshFrame`, `NoTornFrame`, `DoubleBuffered`), and
`TimelyMeansWhole`: from `LATENCY + FILTER < FRAME`,
main never reads a buffer that is being written. None of these is inductive.
`Inv` adds `DriverInv` (how the four indices and the two slots in use are related when an
interrupt is not being served), `DmaInv` (which register is being filled, given the done
flags) and `FreshInv` (a counted release or a woken main means an unread frame).
`LagInv` adds the clock: how far into the frame the DMA can be, given how late the
interrupt was and how long main has been runnable. For the refinement, `HandOverInv` relates
the variables `DoubleBuffer` sees: a published frame that main has not seen is not in the
buffer that is being filled. The interrupt for one frame then is `Publish`
(`FrameDonePublishes`: the queue hands out the buffer it named and names the other),
`StartFilter` is `Take`, `FinishFilter` is `Release`, and every other step is a stutter,
overruns and the start of the capture included, because none of them moves the queue's
oldest buffer (`FillingKept`).

`DriveProofs` proves, for all speeds, errors, gains and limits, `DriveTypeCorrect`,
`WheelsExist`, `SpeedsPaired` and `ChannelsSafe`. `CreateInv` adds which wheel is
created next; `PairInv` that between main's two writes the left target is already
that of its own pair; `ChannelInv` that between the two writes of `motor_run`
channel A already has the new duty, without which a step to a negative duty could not
be told safe. `OnePeriodStops` is the part of the liveness property `SwitchStopsMotors` that
can be proved: a period that found switch 2 off has stopped both motors when the thread
sleeps again, whatever main, the shell and the switch did meanwhile (`StopInv`: how far
through the four writes it is).

`AgileButtonProofs` proves, for all tick ranges, times and widths, `ButtonTypeCorrect`,
`ButtonListedOnce`, `ButtonProtocol` (every step of `AgileButton` is a step of
`ButtonEvents` or a stutter) and `ButtonDebounced`. `IInv` (typing and `ListedOnce`) is
inductive and enough for the first three. `ButtonDebounced` needs `DebounceInv`: while a
press is being checked, either the pin has read active for the elimination time, or
`tick_timeout` is `r` ticks ahead, on this side of the wrap or beyond it, and the
readings will have been active for long enough when it is reached. It is stated with
sums instead of remainders, which leaves two facts about `%` (`WrapNegative`,
`WrapOnce`) to be proved. The same way of writing a deadline carries the time bounds
`ButtonPressReported`, `ButtonRepeatForgotten` and `ButtonHoldPeriod`. `TimeInv` says of
each state that waits for `tick_timeout` that it is `Due`: either so near that the
readings will not be older than the bound when it comes, or past, and then only since
the last pass. `HoldInv` relates the hold time the button stores to the clock of the
events: it is what `agile_btn_cal_hold_time` gives for the tick of the last event, and
that was at most a cycle, a callback and a pass ago.

`EasyBlinkProofs` proves, for any number of slots and any patterns, with and without the
lock, `EasyBlinkTypeCorrect`, `CorrectionsPending` and `DaemonServes`
(`CorrectionPending`, `DaemonServesSlots`). What makes them inductive is what is known of
a daemon that has loaded something and not yet stored it. `RegInv`: what it loaded may be
older than a request, but then the request has left a count in the semaphore. `ActiveInv`:
only a slot in use is blinking, in the slot and in what was loaded of it, and while any is
in use the daemon exists. `WaitInv`: it waits only for a positive time. `BootInv`: which
slots main has initialised so far. With the lock and no call but `easyblink`,
`LockStrandsNothing` proves `NothingStranded`, that every backup belongs to a slot that is
blinking; `BackupInv` adds that nothing loaded is old, that a backup is a pattern with
a pulse, and that between the test of the backup and the clearing of ACTIVE it is empty.

`FlashesLast` proves `FlashLength` for any number of slots and all patterns, if bursts are
asked for on other slots than 1, the error LED, as in the project. `FlashInv` adds a clock
to `Inv`. `Charge(l)` is the number of ticks that have passed and are still to be taken off
slot `l`: it depends on where the daemon is and on whether its loop has reached `l`.
`ClockInv` says that a lit slot has been lit for its pulse less what is left of it plus
that charge, or longer; `ExactInv` that it is exactly so if the daemon is never late, and that
the daemon never sleeps past the end of a flash. When a call wakes the daemon, every lit slot
is corrected: a slot with the mark that spares it the correction would, by
`CorrectionPending`, have left a count in the semaphore the daemon went to sleep on.
`PlaceInv` says that nothing the daemon loaded is old, since a call touches no slot
that is blinking but for its backup; `LitInv` that a lit slot is blinking, so that no
step but the daemon's own turn-off darkens it. TLC checked the invariant for `LATE` 0
and 1 before it was proved. `LitIsBlinking` is what it says of darkness: whatever is lit
belongs to a slot that is blinking, so its end will come. `ErrorLedStays` is the safety half
of `ErrorLedBlinks`: slot 1, once started, stays active with its endless pattern.
`EndlessInv` adds that the daemon is never at slot 1 when it finds a pattern spent, and that
the count it loads there to decrement is -1. TLC checked it first.

`DaemonWakesInTime` proves `WakesInTime` for all calls, with and without the lock. The
daemon computes its timeout as a minimum while callers change what it has looked at.
`WakeInv` follows it through the loop: the minimum so far is at most the ticks of every slot
already counted, or else the request that changed such a slot has left a count, and then
`rt_sem_take` returns at once. Any other call makes no slot blink and leaves the ticks of
those that are (`CallWake`).

`SpeedPlanProofs` proves, for all speeds, divisors, errors and windows,
`SpeedBounded`, `SpeedFallsWithError` (`SpeedInRange`, `SlowerWhenWorse`) and
`SpeedLowestFar`: past the error the comments name, the speed is the lowest. They rest
on lemmas about the two formulas (`ShortSpeed` and `CurveSpeed` are bounded and fall
with the error), which rest on the monotonicity of products and of `\div`. `CutWhereLong`
(`CutAfterStraight`) holds for every length of the record and all windows. `RecordInv` says
what the counters of the last two runs of a type tell of `road_type`: both are in it, whole
as far as it goes, each behind a frame of another type. So a window is filled with the
long straight exactly when the run covers it.

`TrackElementsProofs` proves, for every answer of the searches and both values of `nested`
and `spill`, `TrackTypes`, `FlagsAgree`, `CrossExcluded`, `PhasesExclude`, `ExitIsSteered`
and `OneWayOut` (`TypeOK`, `RingFlagsAgree`, `NoCrossInRing`, `OnePhase`, `ExitFillWins`,
`RingEndsAtExit`). The state is finite and TLC explores all of it; the proof shows *why*,
section by section. Three of the properties are inductive together; the two about the end
of the frame are not: `CrossInv` adds what holds from the section that clears the cross
flags on, `FillInv` that once the exit is drawn nothing is left to be drawn over it.

`VisionProofs` proves, for images, rows and margins of any size, `FilterCorrect`
(`FilterIsMean`), `RoadIsOwn` (`FindsOwnRoad`), `ScanStartsInside` and `RoadIsFound`. The rows are a
recursive function: `RowsAre` proves that it is well defined, by an induction over the rows
that is stated with a set (`StepByStep`, from the well-foundedness of `<`) where the
library's induction theorems take an operator. The rest follows row by row: `RowLine`, that a
row scanned from inside a road stops at its first dark pixel on each side; `RowBelow`, that
a row starts where the last one ended; `ScanInv`, that the next frame starts inside the
image although `findline2` moves its start. `FilterInv` says what is in the memory the filter
reads: the pixels in the image, and anything behind it.
`RoadIsFound` takes the picture from the camera to the borders: `RoadFound` holds whenever
`Separates` does, that is, when the threshold tells the mean of nine pixels of which one is
bright from that of nine of which five are. `PictureInv` says that the binary
image was made from this frame's picture and threshold, `FilterIsMean` from which nine pixels.
So a pixel is white where the road is in all three rows of its window and black where no
pixel of its window is road, a wrong pixel among them or not (`RoadIsWhite`), and a road that moves
by at most one column from row to row makes each search stop within a column of a border of
one of the three rows (`RunBetween`, `CloseToOne`).
`Separates` is a hypothesis about the picture, not the code: `mean_threshold` keeps it only as
long as road and ground share the picture in a fair proportion. On the instance of the run it
holds in every frame about which `RoadFound` says anything; TLC checks `RoadFound` without
it.

`FrameControlProofs` proves, for all ranges, gains, windows and limits and whatever the shell
sets, `ErrorBounded`, `ErrorMovesSlowly`, `StopLineCounted`, `StoppedCarStands`,
`GainLimited`, `IntegralYields`, `ServoSafe` and `OutputMovesSlowly`. `OutputInv` says that
the output is what the gain, the error and the integral of the last update give (without a
derivative part), `LastErrorInv` that this error is at most a step from the present one.
`GainLimited` (`GainCapped`) needs `GainInv`: the limit in force is one of those since the
gain was begun, so a gain that passed the comparison, or took the limit after it, is within
one of them although the shell moved the limit in between. `StopLineCounted` is for windows
of at least two and both layouts: after the copy `stop_car` is `past` moved
up by one place (`HistoryInv`), and what the loop counts is carried over by a lemma on
the cardinality of moved windows (`CountIsMarks`).

Proved but not in a run, because they follow closely from the code once it is read:
the types of every proved module but `Drive`, `LowestWhenFar`, `ErrorInRange`, `ErrorSmooth`,
`ServoInRange`, `StoppedMeansZero`, `SteerSlew`, `PeriodStops`, `LitIsBlinking`,
`ErrorLedKept`; and `NothingStranded`, which needs the lock the build does not have.

Only model-checked: all liveness properties (TLAPS 1.4.5 has no rules for fairness and
`ENABLED`); `RoadFound` for thresholds that do not satisfy `Separates`;
`ThreadContextKnown`, whose state is finite and explored completely (`Interrupts` has no
constants, so a proof would say no more). No theorem says what the recursive sum of
`mean_threshold` (`Total`) computes: that needs arithmetic by induction over the pixels,
and the threshold it gives is judged by `RoadFound` in the run.

## Not modelled

* Of `findline2`, the searches for corners and the fills as arithmetic on the middle line
  (the order and the choice of the fills is in `TrackElements`); of `compute_error`, the
  weights of the rows; of `stop_car_judge`, the search for marks in the picture. Each maps
  a picture to an answer no document specifies; the models take every answer.
* `ostu_threshold` (mode 0, which `main()` never passes) and `gray_sobel_filter`, which
  nothing calls. (In the former the search for the greatest grey tests the least one,
  `imageProcess.c:181`, so it never moves and the test for a picture of one colour fails.)
* The conversion of encoder counts to speed: the measured speed is unconstrained in
  `Drive`, so nothing there depends on it. The store past `speed_now` in `wheel.c`, whose
  target on the heap is not known. The arithmetic of the incremental controller.
* `set_steer_pid_param_cmd` with fewer than five arguments, which it does not count
  (`main.c:126`).
* Servos 2 and 3, never moved; the string parsers of `util.c`; `dym_param_set_cmd`,
  which retunes the speeds from the shell; a second chassis thread started from it.
* What the button callbacks do (an image over the serial port, a display flag); in the
  models they are the time they take.
* Display output, the SD card demo (`filesManage.c`), the open-loop tests (`test.c`),
  `displayThread.c` (never started).
* Vendored code: the NXP SDK, FatFs, USB and SD stacks, RT-Thread with its components,
  the board library. It is nearly all of the repository's lines, the program's own some
  five thousand under `src/Project/src`; the car uses little of it. Modelled are the parts
  it depends on in its own logic: `fsl_csi.c`'s queue, the interrupt counter of `irq.c`,
  semaphores and priorities.

## Plan

1. `FramePipeline`, `TrackElements`, `Drive`, `Interrupts`, `AgileButton`, `EasyBlink`,
   `SpeedPlan`, `FrameControl`, `ImageProcess`, `LineScan`, `Vision`, the abstract
   `DoubleBuffer` and `ButtonEvents`, and the proofs above: done.
2. Proofs: `FlashLength` for callers that replace the endless pattern, with the pause of
   `WAIT_START` in place of the pulse; `NothingStranded` without the lock, for the requests
   that do not fall into the lines it names.
3. Composition of `TrackElements` with `SpeedPlan` (one `velocity_set` with both its
   judgement and its numbers) and of `FrameControl` with `Drive`.
