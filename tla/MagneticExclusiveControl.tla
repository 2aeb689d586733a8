---------------------- MODULE MagneticExclusiveControl ----------------------
(***************************************************************************)
(* The loop that keeps magnetorquers and magnetometers out of each other's *)
(* way: the exclusive control timer (MECT), the MTQ controller, the sensor *)
(* drivers and filters, and the laws that set the target moment.  They run *)
(* on one thread, in the order of the current mode's task list, and share  *)
(* the state below.  Commands arrive in the CDH entry of a cycle.          *)
(*                                                                         *)
(* Clocks are kept as ages: since_mect_ms is what the timer computes as    *)
(* OBCT_diff_in_msec(previous_obc_time, now), since_integration_ms is the  *)
(* same difference of the MTQ controller's torque integrator.  Both are    *)
(* taken at the entry that is next, and saturate just above the largest    *)
(* value the code compares them with.                                      *)
(*                                                                         *)
(* A definition named D_Variant is D with a plausible mistake; no behavior *)
(* uses it, the runs only show that a property would catch it.             *)
(***************************************************************************)
EXTENDS Integers, Sequences, FiniteSets

CONSTANTS
    Mtq,                      \* the magnetorquers
    Sensor,                   \* the magnetometers, by the op that reads them
    TaskLists,                \* [mode -> sequence of [at, op]]
    Successors,               \* [mode -> modes one transition leads to]
    InitialMode,              \* the first mode that runs the loop
    CycleLength,              \* length of a cycle [ms]
    Lateness,                 \* how late an entry can run, after longer entries [ms]
    DefaultConfig,            \* [window -> duration in ms] set by the timer's init
    AcceptableMaxTimeStep_ms, \* a longer time step resets the timer
    StateTimerLimit_ms,       \* a larger timer value resets the timer
    MaxDuration_ms,           \* largest duration SET_DURATION accepts
    MinDuration_ms,           \* smallest duration SET_DURATION accepts
    DtLimit_ms,               \* a longer gap resets the torque integral
    EnableParams,             \* inputs: parameters of SET_ENABLE
    DurationParams,           \* inputs: parameters of SET_DURATION
    RatioParams,              \* inputs: percentages of SET_OUTPUT_RATIO
    OutputParams,             \* inputs: polarities of MTQ_SEIREN_OUTPUT
    Moments,                  \* inputs: target moments [1/1000 of the maximum]
    ReadsMayFail,             \* whether a magnetometer read can fail
    BootGaps,                 \* ages of the clocks when the first mode starts
    IntegralCap_ms,           \* bound: the integral's span saturates here
    QuietCap_ms               \* bound: the history variable quiet_ms saturates here

Window == {"OBSERVE", "CONTROL", "STANDBY"}
Durations == [Window -> MinDuration_ms .. MaxDuration_ms]   \* what SET_DURATION accepts
Polarity == {-1, 0, 1}
DISABLE == 0
ENABLE == 1
UINT16 == 65536
MAX_MOMENT == 1000

ASSUME TaskListAssumption ==
    /\ CycleLength \in Nat \ {0}
    /\ Lateness \in SUBSET Nat
    /\ InitialMode \in DOMAIN TaskLists
    /\ \A m \in DOMAIN TaskLists :
          /\ TaskLists[m] \in Seq([at : 0 .. CycleLength - 1, op : STRING])
          /\ Len(TaskLists[m]) > 0
          /\ \A i \in 1 .. Len(TaskLists[m]) - 1 : TaskLists[m][i].at < TaskLists[m][i + 1].at
    /\ \A m \in DOMAIN TaskLists : Successors[m] \in SUBSET DOMAIN TaskLists
    /\ Sensor \cap {"CDH", "MTQ_UPDATE", "MTQ_CONTROLLER", "BDOT", "TORQUE"} = {}

\* The timer cannot reach its own limit, nor wrap: see WatchdogNeverFires.
ASSUME TimerAssumption ==
    /\ MinDuration_ms \in Nat \ {0}
    /\ MaxDuration_ms \in Nat
    /\ AcceptableMaxTimeStep_ms \in Nat
    /\ StateTimerLimit_ms \in Nat
    /\ MaxDuration_ms + AcceptableMaxTimeStep_ms <= StateTimerLimit_ms
    /\ StateTimerLimit_ms < UINT16
    /\ DefaultConfig \in Durations

ASSUME InputAssumption ==
    /\ DtLimit_ms \in Nat
    /\ IntegralCap_ms \in Nat
    /\ QuietCap_ms \in Nat
    /\ BootGaps \in SUBSET Nat
    /\ EnableParams \in SUBSET (0 .. 255)
    /\ DurationParams \in SUBSET [Window -> 0 .. UINT16 - 1]
    /\ RatioParams \in SUBSET (-128 .. 127)
    /\ OutputParams \in SUBSET (-128 .. 127)
    /\ Moments \in SUBSET Int
    /\ ReadsMayFail \in BOOLEAN

VARIABLES
    mode, pos,            \* the task list in use and its next entry
    late,                 \* how late that entry runs
    state,                \* aocs_manager->magnetic_exclusive_control_timer_state
    state_timer_ms,       \* time in the current window
    is_enable,            \* whether the exclusive control is enabled
    config,               \* the durations in use
    buffered_config,      \* the durations last commanded
    is_config_buffered,   \* whether they still wait to be used
    since_mect_ms,        \* time since the timer last ran
    moment,               \* aocs_manager->mag_moment_target_body_Am2, per MTQ
    duration_ms,          \* mtq_output_duration_ms
    polarity,             \* mtq_output_polarity
    integrator_status,    \* integrator_status
    integral_ms,          \* the time that integrated_torque_Nms covers
    since_integration_ms, \* time since the torque was last integrated
    output,               \* polarity driven on the pins of each MTQ
    manual,               \* history: MTQs last driven by a ground command
    quiet_ms,             \* history: time since the loop last drove an MTQ
    reading,              \* per magnetometer: was the driver's value taken while the loop drove?
    filtered,             \* per magnetometer: the same of the value last filtered
    sampled               \* history: magnetometers filtered in the current OBSERVE window

mect == <<state, state_timer_ms, is_enable, config, buffered_config, is_config_buffered>>
controller == <<duration_ms, polarity, integrator_status, integral_ms>>
sensors == <<reading, filtered, sampled>>
schedule == <<mode, pos, late, since_mect_ms, since_integration_ms, quiet_ms>>
vars == <<schedule, mect, moment, controller, output, manual, sensors>>

\* The magnetorquers that the control loop, and no ground command, energises.
Driving == {i \in Mtq : output[i] # 0 /\ i \notin manual}

AtMost(cap, n) == IF n > cap THEN cap ELSE n
Abs(n) == IF n < 0 THEN -n ELSE n
Sign(n) == IF n > 0 THEN 1 ELSE IF n < 0 THEN -1 ELSE 0

Op == TaskLists[mode][pos].op

-----------------------------------------------------------------------------
(* The exclusive control timer. *)

\* APP_MECT_update_timer_
UpdateTimer(step) ==
    LET t == IF step > AcceptableMaxTimeStep_ms
               THEN 0
               ELSE (state_timer_ms + step) % UINT16
    IN  IF t > StateTimerLimit_ms THEN 0 ELSE t

\* Where the timer goes when the window is over.
NextWindow(s) ==
    CASE s = "OBSERVE" -> "CONTROL"
      [] s = "CONTROL" -> "STANDBY"
      [] s = "STANDBY" -> "OBSERVE"

\* Variant: off by one.
Over_Late(t, duration) == t > duration

\* A window is over when the timer has reached its duration.
Over(t, duration) == t >= duration

\* APP_MECT_exec_: the timer, then the state machine on the updated timer.
MectExec ==
    LET disabled == is_enable = DISABLE
        swap == is_config_buffered /\ (disabled \/ state = "STANDBY")
        conf == IF swap THEN buffered_config ELSE config
        window == IF disabled THEN "CONTROL" ELSE state
        t == UpdateTimer(since_mect_ms)
        over == Over(t, conf[window])
    IN  /\ config' = conf
        /\ is_config_buffered' = (is_config_buffered /\ ~swap)
        /\ state_timer_ms' = IF over THEN 0 ELSE t
        /\ state' = IF over /\ ~disabled THEN NextWindow(state) ELSE window
        /\ UNCHANGED <<is_enable, buffered_config>>

-----------------------------------------------------------------------------
(* The MTQ controller. *)

\* The time and direction of current that give a target moment.
DurationFor(m, control_ms) ==
    IF Abs(m) > MAX_MOMENT THEN control_ms ELSE (Abs(m) * control_ms) \div MAX_MOMENT
PolarityFor(m) == IF 200 * Abs(m) < MAX_MOMENT THEN 0 ELSE Sign(m)

\* APP_MTQ_SEIREN_CONTROLLER_integrate_torque_: the span of the integral after
\* this run's contribution.
Integrated ==
    IF since_integration_ms > DtLimit_ms \/ since_integration_ms = 0
      THEN 0
      ELSE AtMost(IntegralCap_ms, integral_ms + since_integration_ms)

\* Variant: the first CONTROL run does not reset the integral.
ControllerExec_NeverResets(s, t, c) ==
    \/ /\ s = "OBSERVE"
       /\ duration_ms' = [i \in Mtq |-> DurationFor(moment[i], c)]
       /\ polarity' = [i \in Mtq |-> PolarityFor(moment[i])]
       /\ integrator_status' = "COMPLETED"
       /\ integral_ms' = Integrated
       /\ UNCHANGED <<output, manual>>
    \/ /\ s # "OBSERVE"
       /\ output' = [i \in Mtq |-> IF s = "CONTROL" /\ t <= duration_ms[i]
                                     THEN polarity[i] ELSE 0]
       /\ manual' = {}
       /\ integrator_status' = "INTEGRATING"
       /\ integral_ms' = Integrated
       /\ UNCHANGED <<duration_ms, polarity>>

\* APP_MTQ_SEIREN_CONTROLLER_exec_ in window s, with timer value t and control
\* duration c.
ControllerExec(s, t, c) ==
    \/ /\ s = "OBSERVE"
       /\ duration_ms' = [i \in Mtq |-> DurationFor(moment[i], c)]
       /\ polarity' = [i \in Mtq |-> PolarityFor(moment[i])]
       /\ integrator_status' = "COMPLETED"
       /\ integral_ms' = Integrated
       /\ UNCHANGED <<output, manual>>
    \/ /\ s = "CONTROL"
       /\ output' = [i \in Mtq |-> IF t <= duration_ms[i] THEN polarity[i] ELSE 0]
       /\ manual' = {}
       /\ integral_ms' = IF integrator_status = "COMPLETED" THEN 0 ELSE Integrated
       /\ integrator_status' = "INTEGRATING"
       /\ UNCHANGED <<duration_ms, polarity>>
    \/ /\ s = "STANDBY"
       /\ output' = [i \in Mtq |-> 0]
       /\ manual' = {}
       /\ integrator_status' = "INTEGRATING"
       /\ integral_ms' = Integrated
       /\ UNCHANGED <<duration_ms, polarity>>

-----------------------------------------------------------------------------
(* The scheduler: on to the next entry of the task list, or to the first entry *)
(* of the list of the mode that the next cycle runs in.  An entry runs at its  *)
(* step or, when earlier entries take longer, some steps later.                *)

NextPlaces ==
    IF pos < Len(TaskLists[mode])
      THEN {<<mode, pos + 1>>}
      ELSE {<<m, 1>> : m \in {mode} \cup Successors[mode]}

GapTo(m, p, l) ==
    (TaskLists[m][p].at + l) - (TaskLists[mode][pos].at + late)
        + (IF p = 1 THEN CycleLength ELSE 0)

\* mectAge and integrationAge are the ages at this entry, after its own effect.
Advance(mectAge, integrationAge) ==
    \E place \in NextPlaces, l \in Lateness :
        LET gap == GapTo(place[1], place[2], l)
        IN  /\ gap >= 0
            /\ mode' = place[1]
            /\ pos' = place[2]
            /\ late' = l
            /\ since_mect_ms' = AtMost(AcceptableMaxTimeStep_ms + 1, mectAge + gap)
            /\ since_integration_ms' = AtMost(DtLimit_ms + 1, integrationAge + gap)
            /\ quiet_ms' = IF Driving' # {} THEN 0
                           ELSE AtMost(QuietCap_ms, quiet_ms + gap)

-----------------------------------------------------------------------------
(* Entries of a task list. *)

\* The dispatchers had nothing more for this loop in this cycle.
EndCdh ==
    /\ Op = "CDH"
    /\ UNCHANGED <<mect, moment, controller, output, manual, sensors>>
    /\ Advance(since_mect_ms, since_integration_ms)

\* Variant: the filter does not look at the window.
ReadAndFilter_AnyWindow(s) ==
    /\ Op = s
    /\ reading' = [reading EXCEPT ![s] = Driving # {}]
    /\ filtered' = [filtered EXCEPT ![s] = reading'[s]]
    /\ sampled' = sampled \cup {s}
    /\ UNCHANGED <<mect, moment, controller, output, manual>>
    /\ Advance(since_mect_ms, since_integration_ms)

\* A sensor's driver instance reads it, then its filter takes the driver's value
\* if the window is OBSERVE.  A failed read leaves the driver's value as it was.
ReadAndFilter(s) ==
    /\ Op = s
    /\ \E fails \in {FALSE} \cup {ReadsMayFail} :
          reading' = [reading EXCEPT ![s] = IF fails THEN @ ELSE Driving # {}]
    /\ \/ /\ state = "OBSERVE"
          /\ filtered' = [filtered EXCEPT ![s] = reading'[s]]
          /\ sampled' = sampled \cup {s}
       \/ /\ state # "OBSERVE"
          /\ UNCHANGED <<filtered, sampled>>
    /\ UNCHANGED <<mect, moment, controller, output, manual>>
    /\ Advance(since_mect_ms, since_integration_ms)

\* Variant: the controller runs on the window that is just over.
MtqUpdate_ControllerFirst ==
    /\ Op = "MTQ_UPDATE"
    /\ ControllerExec(state, state_timer_ms, config["CONTROL"])
    /\ MectExec
    /\ sampled' = IF state # "OBSERVE" /\ state' = "OBSERVE" THEN {} ELSE sampled
    /\ UNCHANGED <<moment, reading, filtered>>
    /\ Advance(0, 0)

\* Variant: previous_obc_time is not updated.
MtqUpdate_KeepsPreviousTime ==
    /\ Op = "MTQ_UPDATE"
    /\ MectExec
    /\ ControllerExec(state', state_timer_ms', config'["CONTROL"])
    /\ sampled' = IF state # "OBSERVE" /\ state' = "OBSERVE" THEN {} ELSE sampled
    /\ UNCHANGED <<moment, reading, filtered>>
    /\ Advance(since_mect_ms, 0)

\* BC_AC_MTQ_UPDATE: the timer and the controller, with nothing in between.
MtqUpdate ==
    /\ Op = "MTQ_UPDATE"
    /\ MectExec
    /\ ControllerExec(state', state_timer_ms', config'["CONTROL"])
    /\ sampled' = IF state # "OBSERVE" /\ state' = "OBSERVE" THEN {} ELSE sampled
    /\ UNCHANGED <<moment, reading, filtered>>
    /\ Advance(0, 0)

\* The controller on its own, on the window and the timer value of the last
\* MtqUpdate.
MtqController ==
    /\ Op = "MTQ_CONTROLLER"
    /\ ControllerExec(state, state_timer_ms, config["CONTROL"])
    /\ UNCHANGED <<mect, moment, sensors>>
    /\ Advance(since_mect_ms, 0)

\* APP_BDOT_exec_: returns early outside OBSERVE, and when there is no field or
\* the time step is too short.
Bdot ==
    /\ Op = "BDOT"
    /\ \/ /\ state = "OBSERVE"
          /\ moment' \in [Mtq -> Moments]
       \/ UNCHANGED moment
    /\ UNCHANGED <<mect, controller, output, manual, sensors>>
    /\ Advance(since_mect_ms, since_integration_ms)

\* Sun pointing, three axis control or unloading sets the cross product moment
\* (unloading only when it is enabled).
TorqueLaw ==
    /\ Op = "TORQUE"
    /\ \/ moment' \in [Mtq -> Moments]
       \/ UNCHANGED moment
    /\ UNCHANGED <<mect, controller, output, manual, sensors>>
    /\ Advance(since_mect_ms, since_integration_ms)

-----------------------------------------------------------------------------
(* Commands, dispatched in the CDH entry. *)

\* Variant: enabling goes to OBSERVE without a STANDBY window.
SetEnable_RestartsAtObserve(e) ==
    /\ Op = "CDH"
    /\ e \in {DISABLE, ENABLE}
    /\ is_enable' = e
    /\ state' = IF e = ENABLE THEN "OBSERVE" ELSE state
    /\ UNCHANGED <<schedule, state_timer_ms, config, buffered_config,
                   is_config_buffered, moment, controller, output, manual, sensors>>

\* Cmd_APP_MAGNETIC_EXCLUSIVE_CONTROL_TIMER_SET_ENABLE
SetEnable(e) ==
    /\ Op = "CDH"
    /\ e \in {DISABLE, ENABLE}
    /\ is_enable' = e
    /\ UNCHANGED <<schedule, state, state_timer_ms, config, buffered_config,
                   is_config_buffered, moment, controller, output, manual, sensors>>

\* Variant: a new configuration restarts the window.
SetDuration_RestartsTimer(c) ==
    /\ Op = "CDH"
    /\ c \in Durations
    /\ buffered_config' = c
    /\ is_config_buffered' = TRUE
    /\ state_timer_ms' = 0
    /\ UNCHANGED <<schedule, state, is_enable, config, moment, controller, output,
                   manual, sensors>>

\* Cmd_APP_MAGNETIC_EXCLUSIVE_CONTROL_TIMER_SET_DURATION
SetDuration(c) ==
    /\ Op = "CDH"
    /\ c \in Durations
    /\ buffered_config' = c
    /\ is_config_buffered' = TRUE
    /\ UNCHANGED <<schedule, state, state_timer_ms, is_enable, config, moment,
                   controller, output, manual, sensors>>

\* Cmd_APP_MTQ_SEIREN_CONTROLLER_SET_OUTPUT_RATIO
SetOutputRatio(i, percent) ==
    /\ Op = "CDH"
    /\ Abs(percent) <= 100
    /\ duration_ms' = [duration_ms EXCEPT ![i] = (Abs(percent) * config["CONTROL"]) \div 100]
    /\ polarity' = [polarity EXCEPT ![i] = Sign(percent)]
    /\ UNCHANGED <<schedule, mect, moment, integrator_status, integral_ms, output,
                   manual, sensors>>

\* Cmd_DI_MTQ_SEIREN_OUTPUT: straight to the pins, whatever the window.
DriveManually(i, p) ==
    /\ Op = "CDH"
    /\ p \in Polarity
    /\ output' = [output EXCEPT ![i] = p]
    /\ manual' = manual \cup {i}
    /\ UNCHANGED <<schedule, mect, moment, controller, sensors>>

Command ==
    \/ \E e \in EnableParams : SetEnable(e)
    \/ \E c \in DurationParams : SetDuration(c)
    \/ \E i \in Mtq, percent \in RatioParams : SetOutputRatio(i, percent)
    \/ \E i \in Mtq, p \in OutputParams : DriveManually(i, p)

-----------------------------------------------------------------------------
\* The init functions of the apps, and the clocks after the start-up mode.
Init ==
    /\ mode = InitialMode
    /\ pos = 1
    /\ late \in Lateness
    /\ state = "STANDBY"
    /\ state_timer_ms = 0
    /\ is_enable = ENABLE
    /\ config = DefaultConfig
    /\ buffered_config = DefaultConfig
    /\ is_config_buffered = FALSE
    /\ \E gap \in BootGaps : /\ since_mect_ms = AtMost(AcceptableMaxTimeStep_ms + 1, gap)
                             /\ since_integration_ms = AtMost(DtLimit_ms + 1, gap)
    /\ moment = [i \in Mtq |-> 0]
    /\ duration_ms = [i \in Mtq |-> 0]
    /\ polarity = [i \in Mtq |-> 0]
    /\ integrator_status = "INTEGRATING"
    /\ integral_ms = 0
    /\ output = [i \in Mtq |-> 0]
    /\ manual = {}
    /\ quiet_ms = QuietCap_ms
    /\ reading = [s \in Sensor |-> FALSE]
    /\ filtered = [s \in Sensor |-> FALSE]
    /\ sampled = {}

\* One entry of the task list.
TaskListStep ==
    \/ EndCdh
    \/ \E s \in Sensor : ReadAndFilter(s)
    \/ MtqUpdate
    \/ MtqController
    \/ Bdot
    \/ TorqueLaw

Next == TaskListStep \/ Command

Spec == Init /\ [][Next]_vars

\* The task list dispatcher never stops running entries.
FairSpec == Spec /\ WF_vars(TaskListStep)

-----------------------------------------------------------------------------
(* Properties. *)

\* Every variable keeps its type.  In particular a drive time never exceeds the
\* longest duration the timer can be set to, whatever moment the laws ask for.
TypeOK ==
    /\ mode \in DOMAIN TaskLists
    /\ pos \in 1 .. Len(TaskLists[mode])
    /\ late \in Lateness
    /\ state \in Window
    /\ state_timer_ms \in 0 .. MaxDuration_ms
    /\ is_enable \in {DISABLE, ENABLE}
    /\ config \in Durations
    /\ buffered_config \in Durations
    /\ is_config_buffered \in BOOLEAN
    /\ since_mect_ms \in Nat
    /\ moment \in [Mtq -> Int]
    /\ duration_ms \in [Mtq -> 0 .. MaxDuration_ms]
    /\ polarity \in [Mtq -> Polarity]
    /\ integrator_status \in {"INTEGRATING", "COMPLETED"}
    /\ integral_ms \in Nat
    /\ since_integration_ms \in Nat
    /\ output \in [Mtq -> Polarity]
    /\ manual \in SUBSET Mtq
    /\ quiet_ms \in Nat
    /\ reading \in [Sensor -> BOOLEAN]
    /\ filtered \in [Sensor -> BOOLEAN]
    /\ sampled \in SUBSET Sensor

\* The loop drives magnetorquers only in the CONTROL window; commands, disabling
\* and re-enabling the exclusive control, changed durations, mode changes and long
\* gaps included.  (In OBSERVE the controller does not touch the pins: it relies on
\* the STANDBY run that came before.)
Exclusion == state # "CONTROL" => Driving = {}

\* No window is overstayed: once the timer has run, its value is below the duration
\* of the window it is in, with the durations in use now.  Hence the timer's own
\* limit check is never needed.
TimerInsideWindow == state_timer_ms < config[state]

\* In STANDBY the loop has driven nothing for at least the time that the timer will
\* have counted when it next runs, however late it runs (up to where the history
\* variable saturates).
StandbyIsQuiet ==
    state = "STANDBY" => quiet_ms >= AtMost(QuietCap_ms, state_timer_ms + since_mect_ms)

\* The demagnetisation time is real: when a window turns to OBSERVE, the loop has
\* driven nothing for at least the STANDBY duration in use (up to where the history
\* variable saturates).
DemagnetisedBeforeObserve ==
    [][ state = "STANDBY" /\ state' = "OBSERVE" =>
          quiet_ms >= AtMost(QuietCap_ms, config'["STANDBY"]) ]_vars

\* A field value that entered a filter was taken while the loop drove no magnetorquer,
\* through whatever ground commands to the timer, the controller and the pins.  (The
\* field of what a ground command drives itself is filtered: that command asks for no
\* window.)
FilteredFieldIsClean == \A s \in Sensor : ~filtered[s]

\* If the OBSERVE window lasts a cycle or more, every magnetometer is filtered in
\* each of them, whatever the mode changes in between.
EveryWindowSampled ==
    [][( /\ state = "OBSERVE" /\ state' = "CONTROL"
         /\ is_enable = ENABLE
         /\ config["OBSERVE"] >= CycleLength ) => sampled = Sensor]_vars

\* When B-dot computes a target, every magnetometer has been filtered since the
\* OBSERVE window began: it never differentiates a field of an earlier window.
BdotUsesFieldOfThisWindow == Op = "BDOT" /\ state = "OBSERVE" => sampled = Sensor

\* The drive times and directions after the step are those of the target moment.
DrivesTarget ==
    \A i \in Mtq : /\ duration_ms'[i] = DurationFor(moment[i], config["CONTROL"])
                   /\ polarity'[i] = PolarityFor(moment[i])

\* In the B-dot mode a CONTROL window drives what B-dot asked for in the OBSERVE
\* window just over, and not an older target (the reason for the extra run of the
\* controller in that task list).
BdotDrivesLatestTarget ==
    [][ mode = "BDOT" /\ state = "OBSERVE" /\ state' = "CONTROL" => DrivesTarget ]_vars

\* While the exclusive control is never disabled and the durations do not change, the
\* torque integral covers at most one round of windows, each of which overruns by less
\* than the gap between two runs of the timer, some half a cycle.  (When it is disabled
\* there is no OBSERVE window and hence no reset.)
TorqueSpanBounded ==
    integral_ms <= config["OBSERVE"] + config["CONTROL"] + config["STANDBY"] + 2 * CycleLength

\* While the exclusive control stays enabled the field is observed again and again.
ObservesForever == <>[](is_enable = ENABLE) => []<>(state = "OBSERVE")

\* The loop implements the exclusion it is there for.
Promise == INSTANCE MtqSensorExclusion WITH phase <- state, driving <- Driving
KeepsPromise == Promise!Spec
=============================================================================
