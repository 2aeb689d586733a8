# TLA+ specifications of C2A-AOBC

C2A-AOBC is the flight software of an attitude and orbit control computer (AOBC): C code in
`src/src/src_user`, on top of the C2A core (`c2a-core`, a submodule whose sources are not
part of the repository). This directory holds TLA+ models of the parts of it that decide
something over time, the configurations that TLC checks them with, and proofs of their main
invariants for the TLA+ proof system.

Contents: 1 the system, 2 the modules, 3 the runs, 4 the proofs, 5 where code and comments
disagree, 6 what is not modelled, 7 the plan.

## 1. The system

### How it runs

Everything runs on one thread. Every 100 ms the task list dispatcher executes the task list
of the current mode: a sequence of entries, each registered for a step (1 ms) of the cycle.
An entry is a block command: one app, or several in a row with nothing in between. There are
no interrupts that touch application state, so an entry is atomic; what interleaves is

- entries of different apps that share data through `aocs_manager`, in an order that each
  mode's task list fixes separately;
- commands from ground and from the timeline, dispatched in the first entries of a cycle;
- mode changes, which replace the task list from one cycle to the next;
- accesses to devices, which can fail one by one;
- resets, which can come at any moment, also in the middle of a write to a device.

### Components

| component | state | operations | interacts with |
|---|---|---|---|
| Magnetic exclusive control timer | window (OBSERVE, CONTROL, STANDBY), time in it, durations in use and buffered, enable flag | run (time step, buffer swap, state machine), two commands | writes the window to `aocs_manager`; read by the MTQ controller, the filters, B-dot |
| MTQ controller and driver | drive time and polarity per MTQ, torque integral and its status | run per window, set output ratio, direct output command | reads window and target moment; drives the pins; its integral feeds the cross product law |
| Magnetometers: drivers, filters, selector | the driver's last value, filter state, the estimated field | read, filter (only in OBSERVE), select | polluted by a driven MTQ |
| B-dot law | last field, time of it | run (only in OBSERVE) | reads the filtered field, sets the target moment |
| AOCS task lists and mode table | constants | - | decide the order of all of the above |
| AOCS mode manager and mode transitions | auto transition flag, judge counters, thresholds, time of the last judgement | one judge per task list, transition request, ground settings | requests real-time commands; transitions deploy timed commands that switch the judging off and on |
| Block command backup | ready flags, next block, blocks per cycle, enable flag; flags and copies in the memory | copy some blocks per cycle, write flags once per lap, restore, settings | block command table of the core; partition BCT of the memory |
| Non-volatile storage | partition table, global address map over FRAM devices | partition and global read/write, split at the end of a device | used by backup, parameters, recorder |
| Non-volatile parameters | address table of registered parameters | normal and triple-redundant write and read with a vote | partition PARAM |
| AOCS data recorder | pointer, overwrite mode, partition, permission | record a telemetry packet per cycle, read, settings | partition of the memory |
| Power switching, power sequences, monitors | switch state per unit, anomaly limits, event logger settings | switch with driver re-init, timed power sequences, over-current and temperature checks | event handler rules switch units off |
| Attitude determination | quaternion, methods, time of each app's last run, the Kalman filter's estimate | rough determination (TRIAD, Q-method), fine determination (star tracker, EKF), commands | one estimate in `aocs_manager` that all of them write; read by the control laws |
| Star tracker: driver, selector, spike filter | last solution and its valid flag, availability, the filter's last accepted angle and counters | receive, select, filter, reset | writes the observed and the estimated attitude before the fine determination runs |
| Attitude control laws other than B-dot | gains, integrals | sun pointing, three axis with MTQ or RW, unloading | set target moment and torque |
| Orbit, inertial reference, target attitude | elements, propagated positions, quaternion knots | propagate, calculate, interpolate | feed determination and control |
| AOCS manager | shared data | setters and getters | everyone |
| Other sensor and actuator drivers | telegram buffers | pack, parse | UART, I2C, SPI |
| Command and telemetry tables | constants | - | generated |
| Numerical library | none | pure functions | everyone |
| Interface wrappers | hardware handles | read, write | hardware or simulator |

`PROJECT.json` lists the sources of each, and how far each is modelled.

### What is hard, and what makes each part correct

- *Magnetic loop.* MTQ fields drown the magnetometers, so time is cut into windows. The
  separation is spread over five sources and six task lists: the timer moves the windows, the
  controller must be the next to run and must switch everything off in STANDBY since it does
  not touch the pins in OBSERVE, the filters and B-dot look at the window themselves. Late
  entries, mode changes, long gaps, changes of the durations and switching the exclusive
  control off and on all come in between. Correct means: the loop never drives outside
  CONTROL; the whole demagnetisation time passes before observing; what enters a filter was
  read with all MTQ off; no window is missed by a sensor; CONTROL drives the latest target;
  the loop cannot be kept from observing.
- *Backup.* Three copies of the truth (flags in RAM, flags in the memory, blocks in the
  memory) are written at different moments and each write can fail or be cut short by a
  reset. Correct means: a flag that is up stands for a complete copy, a restore gives back
  what was copied, every block has its turn in each lap, edits reach the memory.
- *Mode manager.* Conditions judged over a long time, requests that take effect a cycle later
  and may be refused, transitions that leave commands on a timeline for up to 50 minutes, and
  ground doing the same at any moment. Correct means: a request takes effect in the mode it
  was meant for; fault detection is never left off by transitions that overtake each other;
  the limits are those of the mode; a lasting fault is always acted on.
- *Storage, parameters, recorder.* Boundaries (a record at the end of a device or of a
  partition) and partial failures (one write of several fails, copies disagree).
- *Power.* Timed sequences of transitions and of resets overlap on one timeline that executes
  one command a cycle; each disables the over-current reports of all units; the monitor pairs
  a switch state with a measurement of another moment. Correct means: monitoring always comes
  back; what is on is what the mode needs and is watched; only a faulty unit is reset, a broken
  one ends off, and a unit in use that was cut off is supplied again.
- *Attitude determination.* Two apps propagate one shared estimate, each over its own time
  step; modes in which neither runs lie between; the tracker may be silent, wrong or late, and
  a filter with memory stands between it and the estimate. Correct means: no time is
  propagated twice and no more than one cycle is lost; the estimate settles on good solutions
  whatever came before, and wrong ones stay out.

The list of hazards, at their lines and with the properties that cover them, is in
`PROJECT.json`.

## 2. The modules

### Magnetic loop: `AocsTaskLists`, `MagneticExclusiveControl`, `MtqSensorExclusion`

`MagneticExclusiveControl` has one action per entry of a task list that matters to the loop,
and one per command. `AocsTaskLists` is the part of the six task lists with these entries, at
their steps, and the mode table.

| action | code |
|---|---|
| `MtqUpdate` | `BC_AC_MTQ_UPDATE`: `APP_MECT_exec_` (`MectExec`), then `APP_MTQ_SEIREN_CONTROLLER_exec_` (`ControllerExec`) |
| `MtqController` | the extra run of the controller in the B-dot task list |
| `ReadAndFilter(s)` | driver instance and filter of a magnetometer |
| `Bdot`, `TorqueLaw` | the laws that set the target moment |
| `EndCdh` | the dispatchers have no more commands for the loop |
| `SetEnable`, `SetDuration`, `SetOutputRatio`, `DriveManually` | commands, any number of them in the dispatcher entry |

Each `TaskListStep` ends with `Advance`: on to the next entry of the list or, after the last
one, to the first entry of the list of the same mode or a successor mode. A mode change is
possible at the end of every cycle, which allows more than the mode manager does. An entry
runs at its step or some ms later (`Lateness`).

Abstractions. Clocks are ages that saturate one above the largest value they are compared
with. The controller's float arithmetic is done per MTQ in 1/1000 of the maximum moment,
after the distribution matrix; the laws may ask for any moment in `Moments`. A magnetometer
value is reduced to one bit: was any MTQ on when it was read? The pins follow the driver
(the code ignores the result of setting them). The core's START_UP list is left out; the
clocks start with one of `BootGaps`. `manual`, `quiet_ms` and `sampled` are history
variables that the actions only write, never read.

`MtqSensorExclusion` is the abstract specification: three phases and the set of driven MTQ,
no timers, lists or commands. `KeepsPromise` says that the loop implements it with
`phase <- state` and `driving <- Driving`.

### Block command backup: `NvmBlockCommandBackup`

One action per step of `APP_NVM_BC_exec_` at which a failure or a reset makes a difference,
one per command, and the reset.

| action | code |
|---|---|
| `ExecBegin`, `CopyNext`, `Advance`, `FinishLap` | `APP_NVM_BC_exec_` and the loop of `APP_NVM_BC_copy_bcs_` |
| `CopyWrite` | one write (the length, or one command) of `APP_NVM_BC_copy_bc_`, done or cut short |
| `Enable`, `Disable`, `Restore`, `SetId`, `SetNum` | the app's commands |
| `Edit`, `Activate`, `Deactivate` | commands of the core that change the block command table (external) |
| `Reset` | a reset at any point, then `APP_NVM_BC_init_` |

The memory is what was written to it: a slot whose write is cut short holds the old command,
the new one or `Torn`; the length is one byte and is never torn; flags whose write is cut
short are new up to some block. A write of a value equal to the old one leaves it as it is.
The BCT partition lies within one FRAM device, so that each write is one device access; the
layout of the partition belongs to the storage component. Commands come before the app in a
cycle, never inside its run. Whether clearing a block deactivates it is up to the core: both
are allowed. The settings that move the addresses (parameters 2 and 3) are left out. The
memory starts factory-new.

### Mode manager: `AocsModeTransitions`, `AocsModeManager`

`AocsModeTransitions` is the transition table and, for each transition, its timed commands
that concern the manager: AUTO_OFF, the command that sets the three axis limits, FINISH and
AUTO_ON, at their times.

| action | code |
|---|---|
| `GroundTransition`, `GroundSwitch` | commands from ground |
| `Dispatch` | the real-time command dispatcher executes the request of the last cycle; the core refuses it during a transition or if the table has no such transition |
| `Timed(e)` | a timed command that is due |
| `BdotExec`, `SunPointingExec`, `RoughThreeAxisExec`, `FineThreeAxisExec` | `APP_AOCS_MM_bdot_exec_` and its siblings with `APP_AOCS_MM_judge_condition_` and `APP_AOCS_MM_change_mode_` |
| `Idle` | a manager that returns at once, or INITIAL, which has none |

A cycle is: ground commands, the real-time command, the timed commands that are due, the
manager of the task list in use, the switch to the task list of the current mode. The mode
can be ahead of the task list for the rest of one cycle, which is why each manager also looks
at the mode. Angles, norms and visibility are arbitrary booleans in each cycle. Judge
counters stop one above the limit they are compared with. Times are in cycles.

Left out: the ground commands that set thresholds, the retry counter (telemetry only),
`is_control_error_small`, the power commands of the transitions (they only take time), and
how old the angular velocity is that an increase is measured from. The times of a transition
to a mode do not depend on the mode it comes from, except that transitions between INITIAL
and B-dot have no AUTO commands and one to the same mode only finishes.

### Storage and parameters: `NvmPartitions`, `NvmStorage`, `NvmParameters`, `FlatMemory`

`NvmPartitions` is the table of partitions and the check of an access against it.
`NvmStorage` follows an access down: the partition (`APP_NVM_PARTITION_write_bytes`,
`..._read_bytes`), the manager and the driver instance with the row of global addresses
(`GlobalWrite`, `GlobalRead`), and the driver of one FRAM device (`FM25V10_write_bytes`,
`FM25V10_read_bytes`). Each is an operator that gives the set of outcomes of a call: what it
returns and the memory after it. A device that fails a write may have taken any number of
first bytes; the caller goes on or not as the code does. The actions are the commands of all
three layers and, in `NvmParameters`, the copies that parameters are written to.

| action | code |
|---|---|
| `Begin` | an application calls `APP_NVM_PARAM_write_normal_param` or `..._redundant_param` |
| `WriteCopy` | one `APP_NVM_PARTITION_write_bytes` of the call; a failure ends the call |
| `Cmd_APP_NVM_PARTITION_*`, `Cmd_APP_NVM_MANAGER_*`, `Cmd_DI_FM25V10_WRITE_BYTE` | commands from ground, at any address |
| `Reset` | a reset between two device accesses; the boot calls of `APP_NVM_PARAMETER_init_` follow |

A reset in the middle of a device access is a failed access followed by a reset. Reading
changes nothing, so that the readers of parameters are operators
(`APP_NVM_PARAM_read_redundant_param` with the core's vote, which matches only if all three
copies agree) and properties quantify over all of their outcomes in every state. `written` and
`tried` are histories: what the last call that ended well wrote, and what the one call since
then tried to write. They follow no more than one such call, and nothing once a command from
ground has changed a copy. That two parameters of a partition share no byte is an assumption:
the tables `non_volatile_memory_normal_parameters.c` and `..._redundant_parameters.c` see to it
and the registration does not check it. `FlatMemory` is the abstract specification, one row of bytes
without devices; `StoresBytes` says that the storage implements it.

Left out: the registration of parameters (done once, at boot, from a constant table), clearing
a registration (never called), the status register of a device, and the copies of the last
access in telemetry.

### Data recorder: `AocsDataRecorder`

| action | code |
|---|---|
| `Record`, `Rewind`, `Stop` | the three ways through `APP_AOCS_DR_exec_` |
| `SetDisable`, `SetEnable`, `SetEnableRefused` | `Cmd_APP_AOCS_DR_SET_WRITE`; a refused one has already changed the permission and the mode |
| `ReadManual`, `ReadContinuous` | `Cmd_APP_AOCS_DR_READ`; the refused ones change nothing |

Pointers, addresses and the counter are unsigned integers of `UINT32` values, products
included. The bytes are left to `NvmStorage`: what the recorder needs of it is that an access
may succeed only if the partition accepts it. `shown` is the place that the telemetry was read
from, or `Garbage` after a failed read (the code copies an uninitialised buffer). `lap` is a
history: the records since the pointer was set or went back to 0.

### Power: `PowerSequences`, `PowerSwitching`

`PowerSequences` is a library of data: each power sequence, activation, reset and mode
transition as a sequence of (cycle, command), from the block command definitions, at the
cycles that the code gives them. Commands that change none of what is modelled (setting a
unit up, the parameters of the star tracker, AUTO_OFF and AUTO_ON, the axis limits) are all the same
to the model, but not left out: they are entries `OwnCommand` at their own times
(`SwitchingBlock` with `OwnCommands` is `Block`), since each takes its turn of the dispatcher and
holds up what comes after it. `PowerSwitching` runs the sequences. AUTO_ON comes minutes after a
transition has finished, perhaps in the middle of the sequences of the next one, which
`StartModeManager` allows for; `Settled` says that nothing but such commands waits.

| action | code |
|---|---|
| `TLC_DISPATCHER_BC` | the dispatcher of the timeline: at most one command that is due, and what it does to switches, INA260 latches, logger groups, rules, biases and the gyro selector |
| `EVENT_UTILITY` | the event handler with the rules of `event_handler_rule_hw_oc.c` and `..._sw_oc.c`: count, reset, and switch off at the second match |
| `BASIC_SENSOR_UPDATE` | `DI_INA260_update_` and `APP_CURRENT_ANOMALY_exec_`, one of the ten sensors a cycle, and the end of the cycle |
| `Fault` | environment: an INA260 cuts its unit off, or a unit draws too much |
| `StartTransition` | the core starts a transition: its block goes on the timeline |

Relied on from the core, and external here: commands of a timeline are executed in the order
of their times, those of the same time in the order of their deployment; a deployed block is
added at the cycle of its deployment plus its offsets; a continuous rule starts counting again
after a gap, and after it has matched; the multi-level rule replaces the reset; activating a
rule keeps its counter. Of the device: an INA260 without power cuts nothing off, and reading
its mask register releases the latch. A short circuit may latch before the protection is set
up, which allows more than the device does. The bias of a magnetometer is kept as how often
each unit's part of it is added. The build for the flight computer is modelled, not the one
for simulation, which omits some commands.

The properties about what is on exempt a unit whose reset overlaps a transition to B-dot
(`\cup blamed`): the reset's second half switches it on again after the transition has
switched it off. A unit counts as given up until a transition that switches it on begins; one
that is given up while the transition in progress has yet to switch it on does not count
(`WillBeSupplied`, section 5). The bias of the magnetometer on the board is not required to
match, see section 5.

### Attitude determination: `SpikeFilter`, `AttitudeDetermination`

| action | code |
|---|---|
| `DI_SAGITTA` | the driver instance alone (rough three axis with wheels): its solution may change, the selector does not look |
| `STT_UPDATE` | `BC_AC_STT_UPDATE`: driver, `APP_STT_SELECTOR_exec_`, `APP_SAGITTA_FILTER_exec_` |
| `APP_RTAD_exec` | the rough determination: skip, propagate or determine |
| `APP_FTAD_exec` | the fine determination: `APP_STT_GYRO_EKF_execute_estimation` and `APP_FTAD_stt_direct_` |
| `Cmd_*` | the commands that set the methods, let the estimate of the EKF be used, reset it, and reset the spike filter |
| `EndCycle` | the body turns, the time passes, the mode may change |

`TaskList` holds the entries of the six task lists that touch the attitude. The linear algebra
is abstracted: the body turns about one axis by one unit a cycle, and an attitude is its
error, how far it is ahead of the true one. Propagating by a step of n cycles adds n; not
propagating loses one a cycle. This is what the properties tell apart: time propagated twice,
lost, or an attitude that was wrong to begin with. A wrong solution lies behind
(`WrongErrors`), so that an estimate that is ahead can only come from time counted twice. The
gain of the Kalman filter is any between none and all, and it may fail to invert.
`SpikeFilter` is the filter of the signal processing library on integers; it refuses an input
that is not a number.

A quaternion and its negative are the same attitude, and no code fixes the sign that is used
(`quaternion.c:6`). The separation angle depends on it: `SeparationAngles` is the distance if
the filter's and the driver's quaternions have the same sign; otherwise the angle is a full turn
less the distance, or 0 if the vector part is almost zero (`quaternion.c:294`). `opposite` is
that relation, and any new solution may turn its sign (`SignMayChange`). The Kalman filter has no
such relation kept: a correction may always be one against the sign, the wrong way, to an attitude
that like all wrong ones lies behind. The angle to a solution that says it is valid but was never
normalised is not a number.

Modes last as long as the transition to them, at least; a mode that comes back after others
finds the time of its apps' last run too long ago. `good`, `faulty`, `undisturbed` and `sound`
are histories: good solutions in a row, cycles since there were enough of them, whether
anything wrong or old was taken since the last fix, and whether the EKF was fed with right
solutions only. Left out: the sun vector propagator, noise parameters, and the EKF app of its
own, which is in no task list.

`D_Suffix` definitions in the modules marked "Variant" are plausible mistakes. No behaviour
uses them; `PROJECT.json` pairs each with the property that catches it.

## 3. The runs

| run | states | question |
|---|---|---|
| `flight` | 1,337,068 | flight durations, all six task lists, all mode changes, entries up to 4 ms late, magnetorquers driven from ground: exclusion, every window sampled, B-dot fresh in and fresh out, the span of the torque integral |
| `commands` | 2,836,156 | every command, direct output included, with accepted and refused parameters, short windows, long gaps: exclusion, timer, demagnetisation, the abstract specification, and that the field is observed again and again under commands without end |
| `nvm_resets` | 2,159,120 | resets and failed accesses at any point, 3 blocks: flags right once enabled, laps complete |
| `nvm_settled` | 13,766 | 2 blocks of up to 2 commands, working memory: flags and restores exact, edits and deactivations reach the memory |
| `mode_transitions` | 938,727 | everything about the mode manager, ground included |
| `nvm_storage` | 80,896 | the storage is one row of bytes, partitions are isolated, parameters read back what was written or nothing |
| `recorder` | 205,120 | records stay in their partition and do not overwrite each other, continuous reads follow each other |
| `power` | 5,439,898 | every way through the modes with a wheel cut off once or twice, or the star tracker drawing too much, at any moment |
| `attitude` | 8,847,886 | every way through the modes and every command, solutions of the star tracker wrong, of either sign, silent, late or unusable, the sun lost at any moment |
| `failed_read`, `nvm_crash`, `mode_stale_on` | - | section 5 |

Bounds, and why they are enough.

- *Magnetic loop.* One MTQ (MTQs do not influence each other except through the sensors, and
  a sensor value is dirty if any is on) and both magnetometers. Moments: none at the
  start, then half the maximum in one direction and beyond the maximum in the other.
  Durations: flight values, the shortest
  accepted, one shorter than a cycle, and refused ones on both sides. The windows are
  multiples or not of the two runs per cycle, so all alignments of windows and entries come
  up. Short windows and two modes are used where commands multiply the states.
  `IntegralCap_ms` (3000) is above the bound that `TorqueSpanBounded` claims; `QuietCap_ms`
  (100) is the flight STANDBY duration.
- *Backup.* With three blocks of one command a lap can end in the middle of a step of two
  blocks, and the other blocks are before and after the one being copied. With two blocks of
  two commands a copy can be cut between its writes and a block can get longer.
- *Mode manager.* Times of minutes become a few cycles, keeping what matters: a transition is
  longer than two seconds, the convergence of one transition is longer than the setup of the
  next so that they overlap, a counter needs more than one judgement, gaps count or do not
  count. `GroundModes` leaves out INITIAL, which ground reaches only from B-dot by the very
  transition the manager itself asks for.
- *Storage and parameters.* Two devices of four bytes with accesses of up to two: the shortest
  in which an access can begin in one device and end in the other. The second of the redundant
  partitions lies across the border, the others on both sides. Commands write and read at the
  start and at the last byte of the first device, from there into the second one, and in a
  partition they are too long for. One normal parameter of a byte, one redundant of two.
- *Recorder.* Records of 3 bytes and integers of 16 values, so that products wrap around and
  come back at addresses that are no multiple of a record (a pointer of 6 gives address 2, one
  of 11 gives 1). Partitions of 4, 7 and 11 bytes: none is a multiple of a record, as in
  flight, and a pointer that fits the largest can be beyond the smallest.
- *Power.* The counts, gaps and times are those of the code: ten reports within five seconds
  of each other, the second reset. `LongestOutage` is 90 s: room for the time in which a
  transition's sequences keep the reports disabled, for ten reports of a sensor that is read
  once in ten cycles, and for the reset. `LongestDelay` is 12 cycles: sequences that run side by
  side, every command of theirs included, hold one up by 1.1 s at most (`Timely`, checked as part
  of `OutageIsShort`; with 10 instead of 12 TLC finds it violated). The twelfth cycle is for an AUTO
  command at another place than in the run: the code gives AUTO_ON 5 to 35 minutes after the
  transition, the run a few seconds (`Soon`). The proofs of section 4 rest on this bound. Nine transitions are enough for each of them, to
  come back to B-dot from each mode, and from there to the wheels again, with faults before and
  after. A fault comes right before its sensor is read, since before that nothing depends on it;
  it may come at any moment of the flight. Transitions begin at two of ten positions of the
  sensor counter. A wheel stands for the units that are reset
  with the others of their kind beside them, the star tracker for one that is used in one mode
  only; two faults of the wheel reach the rule that gives a unit up. With `BiasSpan` 1, a bias
  that is added or taken away twice in a row becomes visible.
- *Attitude.* Thresholds in units of one cycle's rotation: a rejection threshold of 2 lets the
  right solution pass one or two cycles late and not later; a wrong one lies 5 behind, which is
  as far as errors are told apart (`Far`). A full turn is 20, so that the angle to a solution
  with the other sign is beyond anything that the right sign gives. Solutions that turn their sign
  and the commands of the Kalman filter come in different behaviours of the run (`Scenarios`); the
  proofs hold for both together. The use of the filter's estimate is switched on and off. The limit of a time step, 10 s in the code, is two
  cycles, and transitions take three: as in the code, the transition to B-dot, the one mode
  without any of the apps that can be entered from the fine mode, takes longer than the limit.
  `SettleCycles` is 7, the least for which the estimate always settles: with 6 TLC finds an
  estimate that wrong solutions move, with 5 one that has not settled. Solutions count as long as
  they are right and of the same sign; a change of sign begins the count again. In general it is twice
  the limit of the filter's counter plus five: as many cycles to accept whatever the filter
  held before, as many to accept the first right solution after that, and those around them.
  The model module names what settling depends on (`SlowTurn`: while the filter counts, the
  body turns by no more than the threshold) and how far off a wrong solution has to be
  (`WrongIsFar`), which a solution with the other sign must be, too; the MC module assumes both of
  the instance.

Fairness. The dispatcher runs the task list in every cycle, whatever the commands: weak
fairness of the steps of the task list (`TaskListStep`, `Exec`, `Cycle`), none for commands,
reads, resets or conditions. `JudgementIsActedOn` is about what happens once ground no longer
sends commands; `EditsReachMemory` and `InactiveIsForgotten` about what happens once
no command sends the copying back to the start or lowers the flags.

Deadlock is checked in every run; none has one.

## 4. The proofs

All proofs hold for every value of the constants that satisfies the named assumptions: any
task lists with increasing steps, durations, lateness, inputs, numbers of blocks, commands,
devices, partitions, times and limits. Where a theorem needs more of the constants, its own
`ASSUME` says so, and the paragraph below says why the code justifies it.

**`MagneticExclusiveControlProofs`.** The inductive invariant is
`TypeOK /\ Exclusion /\ TimerInsideWindow /\ StandbyIsQuiet`. In OBSERVE the controller does
not switch anything off, so `Exclusion` needs that OBSERVE is entered from STANDBY only, and
`StandbyIsQuiet` needs `Exclusion`, since a driven MTQ restarts the quiet time. From it:
`ExclusionHolds`, `NoWindowOverstayed`, `StandbyQuiet`, `DemagnetisationHolds` (the whole
STANDBY duration in use passes before observing, although the timer restarts after a long gap
and the durations are swapped in that window), `WatchdogNeverFires` (the 16-bit timer neither
wraps nor reaches the limit check of the code, if the longest duration plus the longest
accepted time step is within the limit, as it is), and `PromiseKept` (the refinement).
`FieldIsClean` adds that no filtered value was read while the loop drove an MTQ, *if* reads do
not fail (run `failed_read` shows that the assumption is needed). It is about the loop only: the
direct output command asks for no window, and the field of what it drives is filtered.

Four properties depend on what the task lists are. Three of them are proved first from a
condition on the order and the times of the entries, as lemmas for any lists; `FlightOrder`
then shows, list by list, that the registered lists satisfy the conditions with entries up to
4 ms late (`Flight`), which gives the theorems. Mode transitions, durations, commands and clock
values stay arbitrary.

- `BdotFieldIsOfThisWindow`: every magnetometer is read between the last run of the timer and
  B-dot (`SensorsBeforeBdot`).
- `EveryWindowIsSampled`: less than a cycle lies between two runs of the timer with no read of
  a magnetometer between them, also across a mode change (`UpdatesAreNear`). The invariant
  `Unread` bounds, for a magnetometer not yet filtered in the window, when the window can have
  begun. The margin is exact: the list of INITIAL reads the second magnetometer
  before the timer runs at 45 ms, that of B-dot after the timer runs at 40 ms, so that over the
  change between them an entry 5 ms late could close a window of one cycle without a read.
- `LatestTargetIsDriven`: the controller runs after the laws in every list, and in the B-dot
  list before the timer (`LawsAreHeard`, `BdotIsHeardFirst`). The invariant `Heard` says that
  in OBSERVE the drive times are those of the target, or a law has run that the controller
  will hear in this cycle. A ground command of an output ratio replaces the drive times, hence
  `NoRatioCommand`.
- `TorqueSpan`: the invariant `SpanInv` counts how far each window may overrun its duration,
  less than the 60 ms that lie at most between two runs of the timer. As the property says, it
  is about a loop whose exclusive control is not disabled and whose durations do not change
  (`Undisturbed`, which also asks for the short gap the clocks start with after the core's
  START_UP): while it is disabled there is no OBSERVE window and no reset of the integral.

**`NvmBlockCommandBackupProofs`.** The inductive invariant is
`TypeOK /\ CopyInProgress /\ LapInProgress /\ FlagsAreRight`. `CopyInProgress` says that the
block being copied has no flag and that the memory already holds its length and its commands
up to the current write: without it the last write would not complete a copy. `FlagsAreRight`
is conditional: flags are right once the app has been enabled since the boot, or if resets
only come when the memory agrees with RAM. From it: `EnabledFlagsAreRight`,
`SettledFlagsAreRight`, `RestoresAreExact`, `LapsVisitAll`.

**`NvmParametersProofs`.** For any number and size of devices, partitions and parameters, any
failures at any byte, and any resets.

- `Isolation` and `Refinement`: the lemmas go up with the code. `DriverWrites` and
  `DeviceWrites`: what a device does to its part of the row. `GlobalWrites`: an access that
  runs over the end of a device is two accesses, the second of which begins at the next
  device's first byte; whichever fails where, the row holds first bytes of the data and old
  bytes after them. `PartitionWrites`: so does the partition, and nothing outside it changes.
  `RefinesStep` puts them together: every step is a step of `FlatMemory` or a stutter.
- `CopiesCorrect`: the inductive invariant `IInv` is `TypeOK /\ OneUnderWay /\ Settled /\ OneEnd
  /\ Halfway`. In the middle of a call the copies before its place hold the new value and the
  others the old one (`Halfway`); once a call has failed, the first copy is new or the last one
  still old (`OneEnd`), whichever write failed at whichever byte; otherwise all copies are what
  was written last (`Settled`). `ReadsBackAlways` and `NeverMixedAlways` follow since the vote
  asks for three equal copies. The invariant speaks of a parameter whose copies lie inside
  their partitions (`Fits`): the registration checks the first partition only. One that does
  not fit is refused by the partition, so that the theorems hold for it as well.

**`AocsModeManagerProofs`.** The inductive invariant `IInv` relates the timeline to the
state: every AUTO_OFF on it is followed by an AUTO_ON, only the transition in progress has a
FINISH, limits on it are those of the current mode and come before its FINISH, and a request
was judged in the current mode unless a transition has begun since. From it:
`RequestsDefined`, `JudgedModeLeft`, `NeverLeftOff`, `LimitsAreRight`.

**`AocsDataRecorderProofs`.** Addresses are products modulo the width of an integer, and the
recorder compares the end of the next record with the end of the partition only after the
product has been taken. The invariant that makes this sound is `Reachable`: the address of the
pointer plus one record does not wrap around. A commanded pointer satisfies it because its
(wrapped) address was below the end of *some* partition and every partition is at least a
record shorter than the range of the integers; each record keeps it because it was in bounds.
`NextAddress` shows by arithmetic modulo the width that the next pointer then is exactly one
record further. From it: `RecordsAlwaysFit`, `LapsReadable`, `ReadsInOrder`.

**`PowerSwitchingProofs`.** `MaskingAlwaysEnds`: whatever routes, faults and rates of cycles,
over-current reports are never left disabled while the current sensors are on. The inductive
invariant is `TypeOK /\ Proper(timeline) /\ MaskingEnds`. `Proper` says of every entry of the
timeline that disables the reports, or switches the sensors on, that a later entry enables the
reports or switches the sensors off; it is a property of each block, checked block by block,
and it survives that blocks are put on the timeline side by side, that the dispatcher takes out
the next entry in the order of times, and that time passes for all entries alike. The entry
that makes up for a given one is never taken out before it, which is the step of the proof that
needs the dispatcher's order.

**`PowerSequencingProofs`.** For any route through the modes, any faults of any units and any
rate of at least ten cycles per second: `WatchedWheneverPowered`, `TransitionsSwitchUnits`,
`GoodGyroIsOn` and `ExternalBiasIsRight`. Their hypothesis is `[]Timely`: no command waits for
the dispatcher longer than `LongestDelay`, which is at most a second and three cycles. The timeline holds every command, those that switch nothing
included: what they take is time. They are owned by no unit (`Idle`, `OwnedOfBlock`,
`SameOfTransition`), so that all but the delay is the same with and without them. The bound is how
much the waits between the sequences leave: with a longer delay a sequence may still be
under way when the transition is over. How long commands wait depends on how many sequences run
at once, which the code does not limit (every report of the monitor may deploy one); that it is
no longer with the faults of the run is what `OutageIsShort` checks.

The timeline is looked at as a set of entries, and each entry has an owner, the unit whose
sequences it belongs to. Entries of different units do not concern each other, so that
everything is said unit by unit, of the entries `S` that the unit owns, of its switch and of
what watches it; how sequences of different units interleave does not matter. From the blocks, one by
one, `Rest` gives how long an entry and all that it deploys last at most, if timely.
`ExecutesOwned` says what executing an entry does to `S`: it goes and those of its block come.
The inductive invariant is `PowerInv`:

- `WatchInv`, of every unit: while the unit is on, each of its rules and event groups is
  active, or an entry that makes it so is on its way, or the unit is about to go off; and what
  deactivates them is followed by switching off. It holds whatever the event handler does.
- `SequenceInv`, of every unit that the event handler has not responded to (`blamed`), as
  resets break into the sequences of a transition at any point: `Ordered` (what is left of
  switching off is over before switching on begins), `InTransition` (it is over when the
  transition finishes, but for the watching of three units, which spills over by a few
  seconds at most), `AsMode` (the switch is as the mode wants it or an entry on its way makes
  it so), `UnwatchedOff` (a unit that is off is watched by nothing, or not for long),
  `GyroKept` and `GyroTaken` (the good gyro is deselected before it is switched off), and
  `FinishInv` (a transition is in progress as long as its end is on the timeline).
- `StartInv`: before the first transition nothing is on, logged or waiting.

A transition keeps `SequenceInv` since `TransitionFacts` says of every transition of the table
that it switches exactly what its two modes differ in, each unit once, early enough before its
end, and late enough after its beginning for what has spilt over from the one before.

For the bias of the external magnetometer, `BiasInv` adds, as long as the event handler has
interfered with no unit: when no correction is on its way, a unit's part is added exactly if
it is on and the command that adds it has been executed (which each block that switches a unit on
contains once); otherwise the correction comes after everything that is left of the unit
(`BiasToClear`) and finds it off. `ClearInv`: the correction comes before the transition ends.
The off sequences subtract biases only in a transition to B-dot, where the correction follows:
this is why it does not matter that they also subtract those of units that were never on.

**`AttitudeDeterminationProofs`.** The inductive invariant for `NeverAhead` is
`TypeOK /\ Timing /\ Lag`. `Timing`: an app of the current mode ran one cycle ago, or its last
run is too long ago for its step to be used, because every mode without it lasts longer than
the longest step that is used. This rests on the assumption that the transition to B-dot is no
shorter than that limit (it takes more than 90 s, the limit is 10 s), without which time would
be propagated by both apps. `Lag`: within a cycle, an estimate that has not been propagated
yet is behind. `HandoverAlways` adds that an estimate that is undisturbed since its last fix
is right or one cycle late, by entry of the task list that comes next; with `WrongErrors`
behind, as the model takes them, `NeverAheadAlways` says that no time is counted twice.

Three more theorems follow an attitude through several cycles, each with an invariant on top:

- `EkfBridgesAlways`: by `Bridge`, the Kalman filter's estimate is right or leads by one once it
  has run, as long as it was fed with right solutions of its own sign only; coming from another mode it may be
  anything, but then the first time step is too long to be used.
- `SettlesAlways`: `Settling` says what the spike filter has come to after n right solutions in
  a row, by stages: it still counts against what it held before, has accepted a first right
  solution, counts against that one, or holds the angle of a single cycle. The last stage is
  reached after twice the counter's limit plus five. Before it, the solutions may have had any
  sign, and whatever angle the filter accepted for that counts as what it held before; the n
  solutions have the same sign, and one that turns begins the count again. The hypothesis
  `SlowTurn` is that of the run: while the filter counts, the body turns by no more than the threshold. Without it the
  filter never settles (section 5), so it is a condition on the parameters and the rate that
  the code leaves to operation.
- `SpikesStayOutAlways`: by `Kept`, everything that the filter and the estimates hold is as old
  as the cycles since the filter was settled, at most, or wrong or of the other sign and kept out.
  It needs `SlowTurn` and `WrongIsFar`: a wrong solution, and one with the other sign (`Far`), is
  off by more than the threshold and the rotation of the cycles in which the filter counts; one that
  is nearer is not a spike for the filter.

`TypeCorrect` is proved for every component that has proofs. A type invariant that is proved is not an
invariant of every run of its module as well.

Model-checked only:

- the liveness properties (`ObservesForever`, `EditsReachMemory`, `InactiveIsForgotten`,
  `JudgementIsActedOn`), which are out of the prover's reach;
- three properties of the power switching that do not hold for every value of the constants:
  - `OnlyFaultyAreReset` compares the reports that old measurements cause (the sensor of a unit
    is read once in ten cycles, and not at all while the sensors are off) with the number that
    a reset takes; with `ResetCount` 1 it is wrong;
  - `GivenUpIsOff` is about units that the event handler does respond to, whose blocks it
    deploys at any point of another sequence of the same unit. It depends on which units fail
    and when: section 5 has a case in which a unit that was given up is switched on again;
  - `OutageIsShort` is about how long ten reports and a reset take beside a transition, and how
    many sequences run at once (`Timely`).

## 5. Where code and comments disagree

Each is a run that states what a comment says and for which TLC finds a behaviour of the code
that violates it.

- `failed_read`: bdot.c:73 says that outside OBSERVE magnetometer readings are polluted and
  cannot be used. The filters look at the window in which they run. After a failed read the
  driver still has the value of an earlier window, and the filter takes it.
- `nvm_crash`: non_volatile_memory_bc.h:14 says that a flag that is up means that the copy is
  surely there. A reset in the second or a later lap, while an edited block is being copied,
  brings back the flag of the previous lap over a mixture of two copies.
- `mode_stale_on`: aocs_mode_manager.c:204 says that after a transition the judging is to stay
  disabled until the control has converged. The AUTO_ON of an overtaken transition stays on
  the timeline and enables it earlier.

More observations, with no property: non_volatile_memory_bc.h gives a lap of 80 cycles (8 s)
while the table has 90 blocks. A continuous read of the recorder moves on even if the read
before it failed, so that the record that could not be read is skipped, and it answers
success past the end of the partition. A recording command that is refused for its partition
or pointer switches the recording on all the same.

- *Mode manager.* aocs_mode_manager.c:56 speaks of a decision on continuous time. The counters
  are static and shared by the modes (lines 349-369), and only a transition that the manager
  itself asks for clears them: a transition from ground does not, nor does a pause, so that
  time collected in one mode still counts after it, against the limit of another. How old the
  angular velocity is that an increase is measured from depends on when it was last judged
  (line 181). The retry counter starts again at its top value (line 337).
- *Spike filters of the star tracker and of the sun sensor.* sagitta_filter.c:108 says that the
  separation angle is compared with the threshold; the filter compares it with the angle that
  it accepted last (sagitta_filter.c:116, nanossoc_d60_filter.c:69). After a step was accepted
  the right observations that follow have a small angle and are rejected for another round of
  the counter. Meanwhile the body turns on: if (limit + 1) times the rotation of a cycle is
  more than the threshold, the filter accepts another step and never settles.
- *The sign of the star tracker's quaternion.* sagitta_filter.c:108 calls what is compared the
  separation angle. It is 2 atan2(|v|, s) (quaternion.c:305) of a quotient whose scalar part may
  have either sign, on purpose (quaternion.c:6): a right solution that comes with the other sign
  than the last is a full turn away. It is rejected until the counter accepts the step, the
  solutions after it (a small angle again) are rejected for another round, and while the filter
  rejects, the estimate stands still and is given out as available. `SeparationAngles` has this,
  and so `FineAttitudeIsCurrent` counts from the last change of the sign. The Kalman filter takes
  the vector part of the difference for the error, and against the sign it corrects the wrong way;
  `EkfBridgesSilence` is about solutions of its sign. Whether the star tracker turns the sign of
  its solutions is a property of the device that nothing in the repository states.
- *A silent star tracker* keeps its last solution valid (di_sagitta.c:94): the estimate stands
  still, available. A telemetry of another kind moves the time that the Kalman filter takes
  for a new solution (stt_gyro_ekf.c:536). A solution that says it is valid and cannot be
  normalised leaves the one before it valid (sagitta.c:2193). A wrong check sum is recorded
  and the solution used.
- *Kalman filter.* The comment at stt_gyro_ekf.c:310 says that a long step after another mode
  starts the estimation again; both callers skip steps beyond their own limit before. The
  correction belongs to the attitude before it was propagated (line 489) and is applied to the
  propagated one, so that the estimate leads by up to a cycle. The command that enables the
  use of the estimate accepts one value too many, which disables it (line 718).
- *Fine mode.* In INITIAL the star tracker is read and nothing propagates between its
  solutions. The first fine determination after a change from the rough one skips its long
  step; without the tracker one cycle of rotation is lost.
- *Power.* A reset that the event handler has put on the timeline shortly before a transition
  to B-dot switches its unit on again after the transition has switched it off. A unit that stayed
  on in this way and is given up while the next transition to the wheels is in progress is
  switched off for good and then switched on again by that transition. The transition to B-dot
  subtracts the bias of units that were never on from both magnetometers and then clears the
  external one only: the bias of the one on the board drifts.
- *Magnetic loop.* While the exclusive control is disabled the controller never runs its
  OBSERVE branch (mtq_seiren_controller.c:83). The command that drives a magnetorquer directly
  asks for no window (di_mtq_seiren.c:114): in OBSERVE the filters take the field of what it
  drives. The controller ignores the result of setting a pin (line 100). The selector copies the
  raw field in every window (magnetometer_selector.c:51).

## 6. What is not modelled

Estimation and control arithmetic, propagators and the numerical library are floating-point
mathematics; drivers of the other units and the interface wrappers are packing, parsing and
I/O; command and telemetry tables are generated. Of the partly modelled components the
"note" in `PROJECT.json` says what is left out. A target moment that is not a number
(undefined conversion in the controller) would need reasoning about floats. The block command
table, the timeline and the mode manager of the core are external and modelled as far as the
code in `src_user` relies on them.

Every definition maps to code that decides something over time. That is a small share of the
repository by lines: most of it is tables (telemetry and command definitions, board data),
packing of device telegrams, and arithmetic, none of which has behaviour that these models
could say anything about beyond repeating it.

## 7. The plan

Done, in this order: the magnetic loop, the backup, the mode manager, the recorder, the
storage with the parameters, power, the attitude determination behind its
star tracker. Next:

1. Telemetry errors: the rules of `event_handler_rule_tlmcmd.c`, which reset a unit that does
   not answer, as a second source of resets beside the current monitor in `PowerSwitching`.
2. Composition of the mode manager with the task lists of the magnetic loop and of the
   attitude determination, so that the mode changes are those that the manager allows; and of
   the backup with the storage, its memory being a partition.
3. The switching of sources in the orbit estimation and the inertial reference, by the age of
   their data.
4. Proofs: a bound on the number of entries that are due at once, for a limited number of
   faults, from which `Timely` would follow instead of being a hypothesis. The loop of
   `EveryWindowIsSampled` and `TorqueSpan` again when 2 has joined the lists with the mode
   manager.

The runs stay few: those of 1 and 2 replace or extend runs of the same modules where the
question allows it.
