------------------- MODULE MagneticExclusiveControlProofs -------------------
(***************************************************************************)
(* Theorems about MagneticExclusiveControl, for every set of magnetorquers *)
(* and magnetometers, every task list with increasing steps, every mode    *)
(* transition table and every commanded value.                             *)
(*                                                                         *)
(* What depends on the order of the entries is proved from conditions on   *)
(* the lists, which the last part shows for those of the flight software.  *)
(***************************************************************************)
EXTENDS MagneticExclusiveControl, AocsTaskLists, SequenceTheorems, TLAPS

-----------------------------------------------------------------------------
(* Arithmetic. *)

\* A saturated clock is a number that is not above the clock.
LEMMA AtMostBounds ==
    ASSUME NEW cap \in Nat, NEW n \in Nat
    PROVE  AtMost(cap, n) \in Nat /\ AtMost(cap, n) <= cap /\ AtMost(cap, n) <= n
BY DEF AtMost

\* A fraction of a duration is no longer than the duration.
LEMMA FractionBounds ==
    ASSUME NEW a \in Nat, NEW c \in Nat, NEW d \in Nat \ {0}, a <= d
    PROVE  (a * c) \div d \in 0 .. c
<1>1. a * c \in Nat /\ d * c \in Nat
  OBVIOUS
<1>2. a * c <= d * c
  OBVIOUS
<1>3. (a * c) \div d \in Nat
  BY <1>1
<1>4. d * ((a * c) \div d) <= a * c
  BY <1>1
<1>5. d * ((a * c) \div d) <= d * c
  BY <1>1, <1>2, <1>3, <1>4
<1>6. (a * c) \div d <= c
  BY <1>3, <1>5
<1> QED
  BY <1>3, <1>6

\* The controller drives no longer than the control duration
\* (mtq_seiren_controller.c clips the moment to the maximum).
LEMMA DurationForBounds ==
    ASSUME NEW m \in Int, NEW c \in Nat
    PROVE  DurationFor(m, c) \in 0 .. c
<1>1. Abs(m) \in Nat
  BY DEF Abs
<1>2. CASE Abs(m) > MAX_MOMENT
  BY <1>2 DEF DurationFor
<1>3. CASE Abs(m) <= MAX_MOMENT
  <2>1. (Abs(m) * c) \div MAX_MOMENT \in 0 .. c
    BY <1>1, <1>3, FractionBounds DEF MAX_MOMENT
  <2> QED
    BY <1>1, <1>3, <2>1 DEF DurationFor, MAX_MOMENT
<1> QED
  BY <1>1, <1>2, <1>3 DEF MAX_MOMENT

\* The polarity derived from a moment is one the driver accepts.
LEMMA PolarityForType ==
    ASSUME NEW m \in Int
    PROVE  PolarityFor(m) \in Polarity /\ Sign(m) \in Polarity
BY DEF PolarityFor, Sign, Polarity

-----------------------------------------------------------------------------
(* The timer and the scheduler. *)

\* The state timer neither wraps nor reaches its own limit: the reset at
\* StateTimerLimit_ms and the 16-bit wrap never act, and after a run the timer is
\* the old value plus the step, or 0 after a step that is too long.
THEOREM WatchdogNeverFires ==
    ASSUME NEW step \in Nat, TypeOK
    PROVE  UpdateTimer(step) = IF step > AcceptableMaxTimeStep_ms
                                 THEN 0 ELSE state_timer_ms + step
<1>1. CASE step > AcceptableMaxTimeStep_ms
  BY <1>1, TimerAssumption DEF UpdateTimer
<1>2. CASE step <= AcceptableMaxTimeStep_ms
  <2>1. /\ state_timer_ms + step \in 0 .. StateTimerLimit_ms
        /\ state_timer_ms + step < UINT16
    BY <1>2, TimerAssumption DEF TypeOK, UINT16
  <2>2. (state_timer_ms + step) % UINT16 = state_timer_ms + step
    BY <2>1 DEF UINT16
  <2> QED
    BY <1>2, <2>1, <2>2, TimerAssumption DEF UpdateTimer
<1> QED
  BY <1>1, <1>2, TimerAssumption

\* One run of the timer: the windows follow each other, and the timer stays below
\* the duration of the window it ends up in.
LEMMA MectExecStep ==
    ASSUME TypeOK, MectExec
    PROVE  /\ state' \in Window
           /\ state' = "OBSERVE" => state \in {"STANDBY", "OBSERVE"}
           /\ state' = "STANDBY" => state \in {"CONTROL", "STANDBY"}
           /\ config' \in Durations
           /\ buffered_config' = buffered_config
           /\ is_enable' = is_enable
           /\ is_config_buffered' \in BOOLEAN
           /\ state_timer_ms' \in 0 .. MaxDuration_ms
           /\ state_timer_ms' < config'[state']
           /\ state' = "STANDBY" /\ state = "STANDBY" =>
                state_timer_ms' <= state_timer_ms + since_mect_ms
           /\ state' = "STANDBY" /\ state # "STANDBY" => state_timer_ms' = 0
           /\ state = "STANDBY" /\ state' = "OBSERVE" =>
                config'["STANDBY"] <= state_timer_ms + since_mect_ms
<1> DEFINE disabled == is_enable = DISABLE
           swap == is_config_buffered /\ (disabled \/ state = "STANDBY")
           conf == IF swap THEN buffered_config ELSE config
           window == IF disabled THEN "CONTROL" ELSE state
           t == UpdateTimer(since_mect_ms)
           over == Over(t, conf[window])
<1>1. /\ config' = conf
      /\ is_config_buffered' = (is_config_buffered /\ ~swap)
      /\ state_timer_ms' = IF over THEN 0 ELSE t
      /\ state' = IF over /\ ~disabled THEN NextWindow(state) ELSE window
      /\ is_enable' = is_enable
      /\ buffered_config' = buffered_config
  BY DEF MectExec
<1>2. conf \in Durations /\ window \in Window /\ state \in Window
  BY DEF TypeOK, Window
<1>3. t \in Nat /\ t <= state_timer_ms + since_mect_ms
  <2>1. since_mect_ms \in Nat /\ state_timer_ms \in Nat
    BY TimerAssumption DEF TypeOK
  <2>2. t = IF since_mect_ms > AcceptableMaxTimeStep_ms
              THEN 0 ELSE state_timer_ms + since_mect_ms
    BY <2>1, WatchdogNeverFires
  <2> QED
    BY <2>1, <2>2
<1>4. /\ conf["OBSERVE"] \in 1 .. MaxDuration_ms
      /\ conf["CONTROL"] \in 1 .. MaxDuration_ms
      /\ conf["STANDBY"] \in 1 .. MaxDuration_ms
  BY <1>2, TimerAssumption DEF Durations, Window
<1>5. over <=> t >= conf[window]
  BY DEF Over
<1> HIDE DEF conf, t, over
<1>6. CASE disabled
  BY <1>1, <1>2, <1>3, <1>4, <1>5, <1>6, TimerAssumption DEF TypeOK, Window, NextWindow
<1>7. CASE ~disabled
  BY <1>1, <1>2, <1>3, <1>4, <1>5, <1>7, TimerAssumption DEF TypeOK, Window, NextWindow
<1> QED
  BY <1>6, <1>7

\* The entries of a task list are registered for steps of the cycle.
LEMMA EntryTimes ==
    ASSUME NEW m \in DOMAIN TaskLists, NEW i \in 1 .. Len(TaskLists[m])
    PROVE  TaskLists[m][i].at \in Int
<1>1. TaskLists[m] \in Seq([at : 0 .. CycleLength - 1, op : STRING])
  BY TaskListAssumption
<1>2. TaskLists[m][i] \in [at : 0 .. CycleLength - 1, op : STRING]
  BY <1>1, ElementOfSeq
<1>3. TaskLists[m][i].at \in 0 .. CycleLength - 1
  BY <1>2
<1> QED
  BY <1>3, TaskListAssumption

\* The scheduler goes to an entry of a task list.
LEMMA NextPlacesType ==
    ASSUME TypeOK, NEW place \in NextPlaces
    PROVE  /\ place[1] \in DOMAIN TaskLists
           /\ place[2] \in 1 .. Len(TaskLists[place[1]])
<1>1. /\ mode \in DOMAIN TaskLists
      /\ pos \in 1 .. Len(TaskLists[mode])
  BY DEF TypeOK
<1>2. CASE pos < Len(TaskLists[mode])
  <2>1. place = <<mode, pos + 1>>
    BY <1>2 DEF NextPlaces
  <2>2. TaskLists[mode] \in Seq([at : 0 .. CycleLength - 1, op : STRING])
    BY <1>1, TaskListAssumption
  <2>3. pos + 1 \in 1 .. Len(TaskLists[mode])
    BY <1>1, <1>2, <2>2
  <2> QED
    BY <1>1, <2>1, <2>3
<1>3. CASE ~(pos < Len(TaskLists[mode]))
  <2>1. PICK m \in {mode} \cup Successors[mode] : place = <<m, 1>>
    BY <1>3 DEF NextPlaces
  <2>2. m \in DOMAIN TaskLists
    BY <1>1, <2>1, TaskListAssumption
  <2>3. /\ TaskLists[m] \in Seq([at : 0 .. CycleLength - 1, op : STRING])
        /\ Len(TaskLists[m]) > 0
    BY <2>2, TaskListAssumption
  <2>4. 1 \in 1 .. Len(TaskLists[m])
    BY <2>3
  <2> QED
    BY <2>1, <2>2, <2>4
<1> QED
  BY <1>2, <1>3

\* The clocks stay numbers; the mode and the place in its list stay in range.
LEMMA AdvanceType ==
    ASSUME TypeOK, NEW a \in Nat, NEW b \in Nat, Advance(a, b)
    PROVE  /\ mode' \in DOMAIN TaskLists
           /\ pos' \in 1 .. Len(TaskLists[mode'])
           /\ late' \in Lateness
           /\ since_mect_ms' \in Nat
           /\ since_integration_ms' \in Nat
           /\ quiet_ms' \in Nat
           /\ \E gap \in Nat :
                /\ since_mect_ms' = AtMost(AcceptableMaxTimeStep_ms + 1, a + gap)
                /\ quiet_ms' = IF Driving' # {} THEN 0
                               ELSE AtMost(QuietCap_ms, quiet_ms + gap)
<1>1. PICK place \in NextPlaces, l \in Lateness :
        LET gap == GapTo(place[1], place[2], l)
        IN  /\ gap >= 0
            /\ mode' = place[1]
            /\ pos' = place[2]
            /\ late' = l
            /\ since_mect_ms' = AtMost(AcceptableMaxTimeStep_ms + 1, a + gap)
            /\ since_integration_ms' = AtMost(DtLimit_ms + 1, b + gap)
            /\ quiet_ms' = IF Driving' # {} THEN 0
                           ELSE AtMost(QuietCap_ms, quiet_ms + gap)
  BY DEF Advance
<1> DEFINE gap == GapTo(place[1], place[2], l)
<1>2. /\ place[1] \in DOMAIN TaskLists
      /\ place[2] \in 1 .. Len(TaskLists[place[1]])
  BY NextPlacesType
<1>3. /\ gap >= 0
      /\ mode' = place[1]
      /\ pos' = place[2]
      /\ late' = l
      /\ since_mect_ms' = AtMost(AcceptableMaxTimeStep_ms + 1, a + gap)
      /\ since_integration_ms' = AtMost(DtLimit_ms + 1, b + gap)
      /\ quiet_ms' = IF Driving' # {} THEN 0 ELSE AtMost(QuietCap_ms, quiet_ms + gap)
  BY <1>1
<1>4. gap \in Nat
  <2>1. /\ TaskLists[place[1]][place[2]].at \in Int
        /\ TaskLists[mode][pos].at \in Int
    BY <1>2, EntryTimes DEF TypeOK
  <2>2. l \in Nat /\ late \in Nat /\ CycleLength \in Nat
    BY TaskListAssumption DEF TypeOK
  <2>3. gap \in Int
    BY <2>1, <2>2 DEF GapTo
  <2> QED
    BY <1>3, <2>3
<1> HIDE DEF gap
<1>5. since_mect_ms' \in Nat /\ since_integration_ms' \in Nat
  BY <1>3, <1>4, TimerAssumption, InputAssumption DEF AtMost
<1>6. quiet_ms' \in Nat
  BY <1>3, <1>4, InputAssumption DEF AtMost, TypeOK
<1> QED
  BY <1>2, <1>3, <1>4, <1>5, <1>6

\* One run of the controller in window s: it leaves the pins alone in OBSERVE and
\* switches everything off in STANDBY.
LEMMA ControllerStep ==
    ASSUME TypeOK, NEW s \in Window, NEW t, NEW c \in 0 .. MaxDuration_ms,
           ControllerExec(s, t, c)
    PROVE  /\ duration_ms' \in [Mtq -> 0 .. MaxDuration_ms]
           /\ polarity' \in [Mtq -> Polarity]
           /\ integrator_status' \in {"INTEGRATING", "COMPLETED"}
           /\ integral_ms' \in Nat
           /\ output' \in [Mtq -> Polarity]
           /\ manual' \in SUBSET Mtq
           /\ s = "OBSERVE" => output' = output /\ manual' = manual
           /\ s = "STANDBY" => Driving' = {}
<1>1. Integrated \in Nat
  BY InputAssumption DEF Integrated, AtMost, TypeOK
<1>2. CASE s = "OBSERVE"
  <2>1. /\ duration_ms' = [i \in Mtq |-> DurationFor(moment[i], c)]
        /\ polarity' = [i \in Mtq |-> PolarityFor(moment[i])]
        /\ integrator_status' = "COMPLETED"
        /\ integral_ms' = Integrated
        /\ output' = output
        /\ manual' = manual
    BY <1>2 DEF ControllerExec
  <2>2. \A i \in Mtq : /\ DurationFor(moment[i], c) \in 0 .. MaxDuration_ms
                       /\ PolarityFor(moment[i]) \in Polarity
    <3> TAKE i \in Mtq
    <3>1. moment[i] \in Int /\ c \in Nat /\ MaxDuration_ms \in Nat /\ c <= MaxDuration_ms
      BY TimerAssumption DEF TypeOK
    <3>2. DurationFor(moment[i], c) \in 0 .. c
      BY <3>1, DurationForBounds
    <3> QED
      BY <3>1, <3>2, PolarityForType
  <2> QED
    BY <1>1, <1>2, <2>1, <2>2 DEF TypeOK
<1>3. CASE s = "CONTROL"
  <2>1. /\ output' = [i \in Mtq |-> IF t <= duration_ms[i] THEN polarity[i] ELSE 0]
        /\ manual' = {}
        /\ integral_ms' = IF integrator_status = "COMPLETED" THEN 0 ELSE Integrated
        /\ integrator_status' = "INTEGRATING"
        /\ duration_ms' = duration_ms
        /\ polarity' = polarity
    BY <1>3 DEF ControllerExec
  <2>2. output' \in [Mtq -> Polarity]
    BY <2>1 DEF TypeOK, Polarity
  <2> QED
    BY <1>1, <1>3, <2>1, <2>2 DEF TypeOK
<1>4. CASE s = "STANDBY"
  <2>1. /\ output' = [i \in Mtq |-> 0]
        /\ manual' = {}
        /\ integrator_status' = "INTEGRATING"
        /\ integral_ms' = Integrated
        /\ duration_ms' = duration_ms
        /\ polarity' = polarity
    BY <1>4 DEF ControllerExec
  <2>2. output' \in [Mtq -> Polarity] /\ Driving' = {}
    BY <2>1 DEF Polarity, Driving
  <2> QED
    BY <1>1, <1>4, <2>1, <2>2 DEF TypeOK
<1> QED
  BY <1>2, <1>3, <1>4 DEF Window

\* One run of BC_AC_MTQ_UPDATE: the controller acts on the window, the timer and
\* the durations that the timer has just left.
LEMMA MtqUpdateStep ==
    ASSUME TypeOK, MtqUpdate
    PROVE  /\ duration_ms' \in [Mtq -> 0 .. MaxDuration_ms]
           /\ polarity' \in [Mtq -> Polarity]
           /\ integrator_status' \in {"INTEGRATING", "COMPLETED"}
           /\ integral_ms' \in Nat
           /\ output' \in [Mtq -> Polarity]
           /\ manual' \in SUBSET Mtq
           /\ state' = "OBSERVE" => output' = output /\ manual' = manual
           /\ state' = "STANDBY" => Driving' = {}
<1>1. MectExec /\ ControllerExec(state', state_timer_ms', config'["CONTROL"])
  BY DEF MtqUpdate
<1>2. state' \in Window /\ config'["CONTROL"] \in 0 .. MaxDuration_ms
  BY <1>1, MectExecStep, TimerAssumption DEF Durations, Window
<1>3. PICK s, t, c : s = state' /\ t = state_timer_ms' /\ c = config'["CONTROL"]
  OBVIOUS
<1>4. ControllerExec(s, t, c)
  BY <1>1, <1>3
<1> QED
  BY <1>2, <1>3, <1>4, ControllerStep

-----------------------------------------------------------------------------
(* Type correctness. *)

\* The apps' init functions give every variable its type.
LEMMA TypeOKInit == Init => TypeOK
<1> SUFFICES ASSUME Init PROVE TypeOK
  OBVIOUS
<1>1. mode \in DOMAIN TaskLists /\ pos \in 1 .. Len(TaskLists[mode]) /\ late \in Lateness
  <2>1. /\ InitialMode \in DOMAIN TaskLists
        /\ TaskLists[InitialMode] \in Seq([at : 0 .. CycleLength - 1, op : STRING])
        /\ Len(TaskLists[InitialMode]) > 0
    BY TaskListAssumption
  <2> QED
    BY <2>1 DEF Init
<1>2. since_mect_ms \in Nat /\ since_integration_ms \in Nat
  BY TimerAssumption, InputAssumption DEF Init, AtMost
<1>3. /\ DefaultConfig \in Durations
      /\ MaxDuration_ms \in Nat
      /\ QuietCap_ms \in Nat
  BY TimerAssumption, InputAssumption
<1>4. state \in Window /\ is_enable \in {DISABLE, ENABLE}
  BY DEF Init, Window
<1>5. /\ moment \in [Mtq -> Int]
      /\ duration_ms \in [Mtq -> 0 .. MaxDuration_ms]
      /\ polarity \in [Mtq -> Polarity]
      /\ output \in [Mtq -> Polarity]
  BY <1>3 DEF Init, Polarity
<1>6. /\ reading \in [Sensor -> BOOLEAN]
      /\ filtered \in [Sensor -> BOOLEAN]
      /\ sampled \in SUBSET Sensor
      /\ manual \in SUBSET Mtq
  BY DEF Init
<1>7. /\ state_timer_ms \in 0 .. MaxDuration_ms
      /\ config \in Durations
      /\ buffered_config \in Durations
      /\ integrator_status \in {"INTEGRATING", "COMPLETED"}
      /\ integral_ms \in Nat
      /\ quiet_ms \in Nat
  BY <1>3 DEF Init
<1>8. is_config_buffered \in BOOLEAN
  BY DEF Init
<1> QED
  BY <1>1, <1>2, <1>4, <1>5, <1>6, <1>7, <1>8 DEF TypeOK

\* Every entry of a task list and every command keeps the types.
LEMMA TypeOKStep == TypeOK /\ [Next]_vars => TypeOK'
<1> SUFFICES ASSUME TypeOK, [Next]_vars PROVE TypeOK'
  OBVIOUS
<1> USE DEF schedule, mect, controller, sensors
<1>0. /\ since_mect_ms \in Nat /\ since_integration_ms \in Nat
      /\ 0 \in Nat /\ MaxDuration_ms \in Nat
  BY TimerAssumption DEF TypeOK
<1>1. ASSUME EndCdh PROVE TypeOK'
  <2>1. Advance(since_mect_ms, since_integration_ms)
    BY <1>1 DEF EndCdh
  <2> QED
    BY <1>0, <1>1, <2>1, AdvanceType DEF EndCdh, TypeOK
<1>2. ASSUME NEW s \in Sensor, ReadAndFilter(s) PROVE TypeOK'
  <2>1. Advance(since_mect_ms, since_integration_ms)
    BY <1>2 DEF ReadAndFilter
  <2>2. /\ reading' \in [Sensor -> BOOLEAN]
        /\ filtered' \in [Sensor -> BOOLEAN]
        /\ sampled' \in SUBSET Sensor
    <3>1. PICK fails \in {FALSE} \cup {ReadsMayFail} :
            reading' = [reading EXCEPT ![s] = IF fails THEN @ ELSE Driving # {}]
      BY <1>2 DEF ReadAndFilter
    <3>2. (Driving # {}) \in BOOLEAN /\ reading[s] \in BOOLEAN
      BY <1>2 DEF TypeOK
    <3>3. reading' \in [Sensor -> BOOLEAN]
      BY <3>1, <3>2 DEF TypeOK
    <3>4. reading'[s] \in BOOLEAN
      BY <1>2, <3>3
    <3> QED
      BY <1>2, <3>3, <3>4 DEF ReadAndFilter, TypeOK
  <2> QED
    BY <1>0, <1>2, <2>1, <2>2, AdvanceType DEF ReadAndFilter, TypeOK
<1>3. ASSUME MtqUpdate PROVE TypeOK'
  <2>1. MectExec /\ Advance(0, 0)
    BY <1>3 DEF MtqUpdate
  <2>2. sampled' \in SUBSET Sensor
    BY <1>3 DEF MtqUpdate, TypeOK
  <2>3. /\ mode' \in DOMAIN TaskLists
        /\ pos' \in 1 .. Len(TaskLists[mode'])
        /\ late' \in Lateness
        /\ since_mect_ms' \in Nat
        /\ since_integration_ms' \in Nat
        /\ quiet_ms' \in Nat
    BY <1>0, <2>1, AdvanceType
  <2>4. /\ state' \in Window
        /\ state_timer_ms' \in 0 .. MaxDuration_ms
        /\ is_enable' \in {DISABLE, ENABLE}
        /\ config' \in Durations
        /\ buffered_config' \in Durations
        /\ is_config_buffered' \in BOOLEAN
    BY <2>1, MectExecStep DEF TypeOK
  <2> QED
    BY <1>3, <2>2, <2>3, <2>4, MtqUpdateStep DEF MtqUpdate, TypeOK
<1>4. ASSUME MtqController PROVE TypeOK'
  <2>1. Advance(since_mect_ms, 0)
    BY <1>4 DEF MtqController
  <2>2. ControllerExec(state, state_timer_ms, config["CONTROL"])
    BY <1>4 DEF MtqController
  <2>3. state \in Window /\ config["CONTROL"] \in 0 .. MaxDuration_ms
    BY TimerAssumption DEF TypeOK, Durations, Window
  <2>4. /\ duration_ms' \in [Mtq -> 0 .. MaxDuration_ms]
        /\ polarity' \in [Mtq -> Polarity]
        /\ integrator_status' \in {"INTEGRATING", "COMPLETED"}
        /\ integral_ms' \in Nat
        /\ output' \in [Mtq -> Polarity]
        /\ manual' \in SUBSET Mtq
    BY <2>2, <2>3, ControllerStep
  <2> QED
    BY <1>0, <1>4, <2>1, <2>4, AdvanceType DEF MtqController, TypeOK
<1>5. ASSUME Bdot PROVE TypeOK'
  <2>1. Advance(since_mect_ms, since_integration_ms)
    BY <1>5 DEF Bdot
  <2>2. moment' \in [Mtq -> Int]
    BY <1>5, InputAssumption DEF Bdot, TypeOK
  <2> QED
    BY <1>0, <1>5, <2>1, <2>2, AdvanceType DEF Bdot, TypeOK
<1>6. ASSUME TorqueLaw PROVE TypeOK'
  <2>1. Advance(since_mect_ms, since_integration_ms)
    BY <1>6 DEF TorqueLaw
  <2>2. moment' \in [Mtq -> Int]
    BY <1>6, InputAssumption DEF TorqueLaw, TypeOK
  <2> QED
    BY <1>0, <1>6, <2>1, <2>2, AdvanceType DEF TorqueLaw, TypeOK
<1>7. ASSUME NEW e \in EnableParams, SetEnable(e) PROVE TypeOK'
  BY <1>7 DEF SetEnable, TypeOK
<1>8. ASSUME NEW c \in DurationParams, SetDuration(c) PROVE TypeOK'
  BY <1>8 DEF SetDuration, TypeOK
<1>9. ASSUME NEW i \in Mtq, NEW percent \in RatioParams, SetOutputRatio(i, percent)
      PROVE TypeOK'
  <2>1. percent \in Int /\ Abs(percent) \in Nat /\ Abs(percent) <= 100
    BY <1>9, InputAssumption DEF SetOutputRatio, Abs
  <2>2. config["CONTROL"] \in Nat /\ config["CONTROL"] <= MaxDuration_ms
    BY TimerAssumption DEF TypeOK, Durations, Window
  <2>3. (Abs(percent) * config["CONTROL"]) \div 100 \in 0 .. config["CONTROL"]
    BY <2>1, <2>2, FractionBounds
  <2>4. (Abs(percent) * config["CONTROL"]) \div 100 \in 0 .. MaxDuration_ms
    BY <1>0, <2>2, <2>3
  <2>5. duration_ms' \in [Mtq -> 0 .. MaxDuration_ms] /\ polarity' \in [Mtq -> Polarity]
    BY <1>9, <2>1, <2>4, PolarityForType DEF SetOutputRatio, TypeOK
  <2> QED
    BY <1>9, <2>5 DEF SetOutputRatio, TypeOK
<1>10. ASSUME NEW i \in Mtq, NEW p \in OutputParams, DriveManually(i, p) PROVE TypeOK'
  BY <1>10 DEF DriveManually, TypeOK
<1>11. CASE UNCHANGED vars
  BY <1>11 DEF vars, TypeOK
<1> QED
  BY <1>1, <1>2, <1>3, <1>4, <1>5, <1>6, <1>7, <1>8, <1>9, <1>10, <1>11
  DEF Next, TaskListStep, Command

\* Every variable keeps its type; the drive times stay within the longest duration
\* that can be commanded, whatever moments the attitude laws ask for.
THEOREM TypeCorrect == Spec => []TypeOK
<1> QED
  BY TypeOKInit, TypeOKStep, PTL DEF Spec

-----------------------------------------------------------------------------
(* Exclusion, the timer and demagnetisation.  Each is inductive only together *)
(* with the ones before it: the OBSERVE run does not switch anything off, so  *)
(* Exclusion needs that OBSERVE is only entered from STANDBY (MectExecStep);  *)
(* StandbyIsQuiet needs Exclusion, since a driven MTQ restarts quiet_ms.      *)

IInv == TypeOK /\ Exclusion /\ TimerInsideWindow /\ StandbyIsQuiet

\* The inductive invariant holds after the init functions.
LEMMA IInvInit == Init => IInv
<1> SUFFICES ASSUME Init PROVE IInv
  OBVIOUS
<1>1. TypeOK
  BY TypeOKInit
<1>2. Exclusion
  BY DEF Init, Exclusion, Driving
<1>3. TimerInsideWindow
  BY TimerAssumption DEF Init, TimerInsideWindow, Durations, Window
<1>4. StandbyIsQuiet
  <2>1. /\ quiet_ms = QuietCap_ms
        /\ state_timer_ms + since_mect_ms \in Nat
        /\ QuietCap_ms \in Nat
    BY <1>1, TimerAssumption, InputAssumption DEF Init, TypeOK
  <2> QED
    BY <2>1 DEF StandbyIsQuiet, AtMost
<1> QED
  BY <1>1, <1>2, <1>3, <1>4 DEF IInv

\* What the steps other than MtqUpdate do to the loop: no change of window, timer
\* or durations, and no magnetorquer taken over outside CONTROL.
LEMMA OtherSteps ==
    ASSUME IInv, [Next]_vars, ~MtqUpdate
    PROVE  /\ state' = state
           /\ state_timer_ms' = state_timer_ms
           /\ config' = config
           /\ Driving' \in SUBSET Mtq
           /\ state # "CONTROL" => Driving' \subseteq Driving
           /\ \/ /\ since_mect_ms' = since_mect_ms
                 /\ quiet_ms' = quiet_ms
              \/ Advance(since_mect_ms, since_integration_ms)
              \/ Advance(since_mect_ms, 0)
<1> USE DEF schedule, mect, controller, sensors
<1>1. ASSUME EndCdh
      PROVE  /\ state' = state /\ state_timer_ms' = state_timer_ms /\ config' = config
             /\ output' = output /\ manual' = manual
             /\ Advance(since_mect_ms, since_integration_ms)
  BY <1>1 DEF EndCdh
<1>2. ASSUME NEW s \in Sensor, ReadAndFilter(s)
      PROVE  /\ state' = state /\ state_timer_ms' = state_timer_ms /\ config' = config
             /\ output' = output /\ manual' = manual
             /\ Advance(since_mect_ms, since_integration_ms)
  BY <1>2 DEF ReadAndFilter
<1>3. ASSUME MtqController
      PROVE  /\ state' = state /\ state_timer_ms' = state_timer_ms /\ config' = config
             /\ state # "CONTROL" => Driving' \subseteq Driving
             /\ Advance(since_mect_ms, 0)
  <2>1. ControllerExec(state, state_timer_ms, config["CONTROL"])
    BY <1>3 DEF MtqController
  <2>2. state \in Window /\ config["CONTROL"] \in 0 .. MaxDuration_ms /\ TypeOK
    BY TimerAssumption DEF IInv, TypeOK, Durations, Window
  <2>3. /\ state = "OBSERVE" => output' = output /\ manual' = manual
        /\ state = "STANDBY" => Driving' = {}
    BY <2>1, <2>2, ControllerStep
  <2> QED
    BY <1>3, <2>2, <2>3 DEF MtqController, Driving, Window
<1>4. ASSUME Bdot \/ TorqueLaw
      PROVE  /\ state' = state /\ state_timer_ms' = state_timer_ms /\ config' = config
             /\ output' = output /\ manual' = manual
             /\ Advance(since_mect_ms, since_integration_ms)
  BY <1>4 DEF Bdot, TorqueLaw
<1>5. ASSUME Command \/ UNCHANGED vars
      PROVE  /\ state' = state /\ state_timer_ms' = state_timer_ms /\ config' = config
             /\ since_mect_ms' = since_mect_ms /\ quiet_ms' = quiet_ms
             /\ Driving' \subseteq Driving
  <2>1. ASSUME NEW i \in Mtq, NEW p \in OutputParams, DriveManually(i, p)
        PROVE  Driving' \subseteq Driving
    BY <2>1 DEF DriveManually, Driving, IInv, TypeOK
  <2>2. ASSUME output' = output, manual' = manual
        PROVE  Driving' \subseteq Driving
    BY <2>2 DEF Driving
  <2> QED
    BY <1>5, <2>1, <2>2
    DEF Command, SetEnable, SetDuration, SetOutputRatio, DriveManually, vars
<1>6. ASSUME output' = output, manual' = manual
      PROVE  Driving' \subseteq Driving
  BY <1>6 DEF Driving
<1>7. Driving' \in SUBSET Mtq
  BY DEF Driving
<1> QED
  BY <1>1, <1>2, <1>3, <1>4, <1>5, <1>6, <1>7 DEF Next, TaskListStep

\* A quiet time that covers the timer still covers it after some more quiet time.
LEMMA QuietAges ==
    ASSUME NEW cap \in Nat, NEW clockCap \in Nat, NEW quiet \in Nat, NEW timer \in Nat,
           NEW age \in Nat, NEW gap \in Nat, quiet >= AtMost(cap, timer + age)
    PROVE  AtMost(cap, quiet + gap) >= AtMost(cap, timer + AtMost(clockCap, age + gap))
BY DEF AtMost

\* The same for a clock that has just been read.
LEMMA QuietStarts ==
    ASSUME NEW cap \in Nat, NEW clockCap \in Nat, NEW quiet \in Nat, NEW timer \in Nat,
           NEW gap \in Nat, quiet >= AtMost(cap, timer)
    PROVE  AtMost(cap, quiet + gap) >= AtMost(cap, timer + AtMost(clockCap, gap))
BY DEF AtMost

\* Every entry of a task list and every command keeps the inductive invariant.
LEMMA IInvStep == IInv /\ [Next]_vars => IInv'
<1> SUFFICES ASSUME IInv, [Next]_vars PROVE IInv'
  OBVIOUS
<1>1. TypeOK /\ TypeOK'
  BY TypeOKStep DEF IInv
<1>2. /\ since_mect_ms \in Nat
      /\ state_timer_ms \in Nat
      /\ state_timer_ms' \in Nat
      /\ quiet_ms \in Nat
      /\ QuietCap_ms \in Nat
      /\ AcceptableMaxTimeStep_ms + 1 \in Nat
      /\ 0 \in Nat
      /\ since_integration_ms \in Nat
  BY <1>1, TimerAssumption, InputAssumption DEF TypeOK
<1>3. CASE MtqUpdate
  <2>1. MectExec /\ Advance(0, 0)
    BY <1>3 DEF MtqUpdate
  <2>2. Exclusion'
    <3>1. CASE state' = "OBSERVE"
      <4>1. state # "CONTROL"
        BY <1>1, <2>1, <3>1, MectExecStep
      <4>2. output' = output /\ manual' = manual
        BY <1>1, <1>3, <3>1, MtqUpdateStep
      <4> QED
        BY <4>1, <4>2 DEF IInv, Exclusion, Driving
    <3>2. CASE state' = "STANDBY"
      BY <1>1, <1>3, <3>2, MtqUpdateStep DEF Exclusion
    <3>3. CASE state' = "CONTROL"
      BY <3>3 DEF Exclusion
    <3> QED
      BY <1>1, <3>1, <3>2, <3>3 DEF TypeOK, Window
  <2>3. TimerInsideWindow'
    BY <1>1, <2>1, MectExecStep DEF TimerInsideWindow
  <2>4. StandbyIsQuiet'
    <3> SUFFICES ASSUME state' = "STANDBY"
                 PROVE  quiet_ms' >= AtMost(QuietCap_ms, state_timer_ms' + since_mect_ms')
      BY DEF StandbyIsQuiet
    <3>1. Driving' = {}
      BY <2>2 DEF Exclusion
    <3>2. PICK gap \in Nat :
            /\ since_mect_ms' = AtMost(AcceptableMaxTimeStep_ms + 1, 0 + gap)
            /\ quiet_ms' = IF Driving' # {} THEN 0
                           ELSE AtMost(QuietCap_ms, quiet_ms + gap)
      BY <1>1, <1>2, <2>1, AdvanceType
    <3>3. quiet_ms >= AtMost(QuietCap_ms, state_timer_ms')
      <4>1. CASE state = "STANDBY"
        <5>1. state_timer_ms' <= state_timer_ms + since_mect_ms
          BY <1>1, <2>1, <4>1, MectExecStep
        <5>2. quiet_ms >= AtMost(QuietCap_ms, state_timer_ms + since_mect_ms)
          BY <4>1 DEF IInv, StandbyIsQuiet
        <5> QED
          BY <1>2, <5>1, <5>2 DEF AtMost
      <4>2. CASE state # "STANDBY"
        <5>1. state_timer_ms' = 0
          BY <1>1, <2>1, <4>2, MectExecStep
        <5> QED
          BY <1>2, <5>1 DEF AtMost
      <4> QED
        BY <4>1, <4>2
    <3>4. /\ quiet_ms' = AtMost(QuietCap_ms, quiet_ms + gap)
          /\ since_mect_ms' = AtMost(AcceptableMaxTimeStep_ms + 1, gap)
      BY <3>1, <3>2 DEF AtMost
    <3>5. AtMost(QuietCap_ms, quiet_ms + gap) >=
            AtMost(QuietCap_ms, state_timer_ms' + AtMost(AcceptableMaxTimeStep_ms + 1, gap))
      BY <1>2, <3>3, QuietStarts
    <3> QED
      BY <3>4, <3>5
  <2> QED
    BY <1>1, <2>2, <2>3, <2>4 DEF IInv
<1>4. CASE ~MtqUpdate
  <2>1. /\ state' = state
        /\ state_timer_ms' = state_timer_ms
        /\ config' = config
        /\ state # "CONTROL" => Driving' \subseteq Driving
    BY <1>4, OtherSteps
  <2>2. Exclusion'
    BY <2>1 DEF IInv, Exclusion
  <2>3. TimerInsideWindow'
    BY <2>1 DEF IInv, TimerInsideWindow
  <2>4. StandbyIsQuiet'
    <3> SUFFICES ASSUME state' = "STANDBY"
                 PROVE  quiet_ms' >= AtMost(QuietCap_ms, state_timer_ms' + since_mect_ms')
      BY DEF StandbyIsQuiet
    <3>1. quiet_ms >= AtMost(QuietCap_ms, state_timer_ms + since_mect_ms)
      BY <2>1 DEF IInv, StandbyIsQuiet
    <3>2. Driving' = {}
      BY <2>2 DEF Exclusion
    <3>3. CASE since_mect_ms' = since_mect_ms /\ quiet_ms' = quiet_ms
      BY <2>1, <3>1, <3>3
    <3>4. ASSUME NEW b \in Nat, Advance(since_mect_ms, b)
          PROVE  quiet_ms' >= AtMost(QuietCap_ms, state_timer_ms' + since_mect_ms')
      <4>1. PICK gap \in Nat :
              /\ since_mect_ms' = AtMost(AcceptableMaxTimeStep_ms + 1, since_mect_ms + gap)
              /\ quiet_ms' = IF Driving' # {} THEN 0
                             ELSE AtMost(QuietCap_ms, quiet_ms + gap)
        BY <1>1, <1>2, <3>4, AdvanceType
      <4> QED
        BY <1>2, <2>1, <3>1, <3>2, <4>1, QuietAges
    <3> QED
      BY <1>2, <1>4, <3>3, <3>4, OtherSteps
  <2> QED
    BY <1>1, <2>2, <2>3, <2>4 DEF IInv
<1> QED
  BY <1>3, <1>4

\* The inductive invariant is an invariant.
LEMMA IInvAlways == Spec => []IInv
<1> QED
  BY IInvInit, IInvStep, PTL DEF Spec

\* The control loop drives magnetorquers only in the CONTROL window, whatever is
\* commanded and however the modes change.
THEOREM ExclusionHolds == Spec => []Exclusion
<1>1. IInv => Exclusion
  BY DEF IInv
<1> QED
  BY <1>1, IInvAlways, PTL

\* The timer is always below the duration, in use now, of the window it is in.
THEOREM NoWindowOverstayed == Spec => []TimerInsideWindow
<1>1. IInv => TimerInsideWindow
  BY DEF IInv
<1> QED
  BY <1>1, IInvAlways, PTL

\* In STANDBY the loop has been quiet for at least what the timer will have counted.
THEOREM StandbyQuiet == Spec => []StandbyIsQuiet
<1>1. IInv => StandbyIsQuiet
  BY DEF IInv
<1> QED
  BY <1>1, IInvAlways, PTL

\* OBSERVE begins only after the loop has driven nothing for the STANDBY duration:
\* the demagnetisation time is never cut short, not even by a shorter configuration
\* that the same run of the timer takes over.
THEOREM DemagnetisationHolds == Spec => DemagnetisedBeforeObserve
<1>1. ASSUME IInv, [Next]_vars
      PROVE  [ state = "STANDBY" /\ state' = "OBSERVE" =>
                 quiet_ms >= AtMost(QuietCap_ms, config'["STANDBY"]) ]_vars
  <2> SUFFICES ASSUME state = "STANDBY", state' = "OBSERVE"
               PROVE  quiet_ms >= AtMost(QuietCap_ms, config'["STANDBY"])
    OBVIOUS
  <2>1. MtqUpdate
    BY <1>1, OtherSteps
  <2>2. TypeOK /\ MectExec
    BY <1>1, <2>1 DEF IInv, MtqUpdate
  <2>3. /\ config'["STANDBY"] <= state_timer_ms + since_mect_ms
        /\ config' \in Durations
    BY <2>2, MectExecStep
  <2>4. quiet_ms >= AtMost(QuietCap_ms, state_timer_ms + since_mect_ms)
    BY <1>1 DEF IInv, StandbyIsQuiet
  <2>5. /\ config'["STANDBY"] \in Nat
        /\ state_timer_ms + since_mect_ms \in Nat
        /\ QuietCap_ms \in Nat
        /\ quiet_ms \in Nat
    BY <2>2, <2>3, TimerAssumption, InputAssumption DEF TypeOK, Durations, Window
  <2> QED
    BY <2>3, <2>4, <2>5 DEF AtMost
<1> QED
  BY <1>1, IInvAlways, PTL DEF Spec, DemagnetisedBeforeObserve

-----------------------------------------------------------------------------
(* The loop implements MtqSensorExclusion. *)

\* The loop starts where the abstract specification starts.
LEMMA PromiseInit == Init => Promise!Init
BY DEF Init, Promise!Init, Driving

\* Every step of the loop is a step of the abstract specification, or none.
LEMMA PromiseStep == IInv /\ [Next]_vars => [Promise!Next]_(Promise!vars)
<1> SUFFICES ASSUME IInv, [Next]_vars PROVE [Promise!Next]_(Promise!vars)
  OBVIOUS
<1>1. Driving \subseteq Mtq /\ Driving' \subseteq Mtq
  BY DEF Driving
<1>2. TypeOK /\ (state # "CONTROL" => Driving = {})
  BY DEF IInv, Exclusion
<1>3. CASE MtqUpdate
  <2>1. MectExec
    BY <1>3 DEF MtqUpdate
  <2>2. CASE state' = "CONTROL"
    BY <1>1, <2>2 DEF Promise!Next, Promise!Drive
  <2>3. CASE state' = "STANDBY"
    <3>1. Driving' = {}
      BY <1>2, <1>3, <2>3, MtqUpdateStep
    <3>2. state \in {"CONTROL", "STANDBY"}
      BY <1>2, <2>1, <2>3, MectExecStep
    <3> QED
      BY <2>3, <3>1, <3>2 DEF Promise!Next, Promise!Demagnetise, Promise!Release
  <2>4. CASE state' = "OBSERVE"
    <3>1. state \in {"STANDBY", "OBSERVE"}
      BY <1>2, <2>1, <2>4, MectExecStep
    <3>2. Driving = {} /\ Driving' = {}
      BY <1>2, <1>3, <2>4, <3>1, MtqUpdateStep DEF Driving
    <3> QED
      BY <2>4, <3>1, <3>2 DEF Promise!Next, Promise!Observe, Promise!Release
  <2>5. state' \in Window
    BY <1>2, <2>1, MectExecStep
  <2> QED
    BY <2>2, <2>3, <2>4, <2>5 DEF Window
<1>4. CASE ~MtqUpdate
  <2>1. /\ state' = state
        /\ state # "CONTROL" => Driving' \subseteq Driving
    BY <1>4, OtherSteps
  <2>2. CASE state = "CONTROL"
    BY <1>1, <2>1, <2>2 DEF Promise!Next, Promise!Drive
  <2>3. CASE state # "CONTROL"
    BY <2>1, <2>3 DEF Promise!Next, Promise!Release
  <2> QED
    BY <2>2, <2>3
<1> QED
  BY <1>3, <1>4

\* The loop implements the exclusion it is there for: every run of the task lists,
\* commands included, is a run of MtqSensorExclusion.
THEOREM PromiseKept == Spec => KeepsPromise
<1> QED
  BY PromiseInit, PromiseStep, IInvAlways, PTL DEF Spec, KeepsPromise, Promise!Spec

-----------------------------------------------------------------------------
(* The magnetic field in the filters. *)

\* With no failed reads, every step keeps the filters clean.
LEMMA CleanStep ==
    ASSUME ReadsMayFail = FALSE, IInv, FilteredFieldIsClean, [Next]_vars
    PROVE  FilteredFieldIsClean'
<1> USE DEF schedule, mect, controller, sensors
<1>1. CASE filtered' = filtered
  BY <1>1 DEF FilteredFieldIsClean
<1>2. ASSUME NEW s \in Sensor, ReadAndFilter(s) PROVE FilteredFieldIsClean'
  <2>1. CASE state = "OBSERVE"
    <3>1. /\ reading' = [reading EXCEPT ![s] = Driving # {}]
          /\ filtered' = [filtered EXCEPT ![s] = reading'[s]]
      BY <1>2, <2>1 DEF ReadAndFilter
    <3>2. reading'[s] = FALSE
      <4>1. reading \in [Sensor -> BOOLEAN]
        BY DEF IInv, TypeOK
      <4>2. Driving = {}
        BY <2>1 DEF IInv, Exclusion
      <4> QED
        BY <3>1, <4>1, <4>2
    <3>3. filtered \in [Sensor -> BOOLEAN]
      BY DEF IInv, TypeOK
    <3> QED
      BY <3>1, <3>2, <3>3 DEF FilteredFieldIsClean
  <2>2. CASE state # "OBSERVE"
    BY <1>1, <1>2, <2>2 DEF ReadAndFilter
  <2> QED
    BY <2>1, <2>2
<1>3. CASE UNCHANGED vars
  BY <1>1, <1>3 DEF vars
<1>4. CASE Command
  BY <1>1, <1>4 DEF Command, SetEnable, SetDuration, SetOutputRatio, DriveManually
<1>5. CASE EndCdh \/ MtqUpdate \/ MtqController \/ Bdot \/ TorqueLaw
  BY <1>1, <1>5 DEF EndCdh, MtqUpdate, MtqController, Bdot, TorqueLaw
<1> QED
  BY <1>2, <1>3, <1>4, <1>5 DEF Next, TaskListStep

\* As long as no magnetometer read fails, every field value in a filter was taken while the
\* loop drove no magnetorquer, whatever is commanded, directly to the pins as well.
THEOREM FieldIsClean ==
    ASSUME ReadsMayFail = FALSE
    PROVE  Spec => []FilteredFieldIsClean
<1>1. Init => FilteredFieldIsClean
  BY DEF Init, FilteredFieldIsClean
<1>2. IInv /\ FilteredFieldIsClean /\ [Next]_vars => FilteredFieldIsClean'
  BY CleanStep
<1> QED
  BY <1>1, <1>2, IInvAlways, PTL DEF Spec

-----------------------------------------------------------------------------
(* The order of the entries in the task lists. *)

OpAt(m, i) == TaskLists[m][i].op
LastPlace(m) == Len(TaskLists[m])

\* Where the scheduler goes, and how the timer's clock goes on.
LEMMA Moves ==
    ASSUME TypeOK, NEW a \in Nat, NEW b \in Nat, Advance(a, b)
    PROVE  /\ \/ pos < LastPlace(mode) /\ mode' = mode /\ pos' = pos + 1
              \/ /\ pos = LastPlace(mode) /\ pos' = 1
                 /\ mode' \in {mode} \cup Successors[mode]
           /\ since_mect_ms' <= a + GapTo(mode', pos', late')
           /\ GapTo(mode', pos', late') \in Nat
<1>1. PICK place \in NextPlaces, l \in Lateness :
        /\ GapTo(place[1], place[2], l) >= 0
        /\ mode' = place[1]
        /\ pos' = place[2]
        /\ late' = l
        /\ since_mect_ms' = AtMost(AcceptableMaxTimeStep_ms + 1, a + GapTo(place[1], place[2], l))
  BY DEF Advance
<1>2. \/ pos < LastPlace(mode) /\ mode' = mode /\ pos' = pos + 1
      \/ pos = LastPlace(mode) /\ pos' = 1 /\ mode' \in {mode} \cup Successors[mode]
  <2>1. CASE pos < LastPlace(mode)
    BY <1>1, <2>1 DEF NextPlaces, LastPlace
  <2>2. CASE ~(pos < LastPlace(mode))
    <3>1. LastPlace(mode) \in Nat
      BY TaskListAssumption DEF TypeOK, LastPlace
    <3>2. pos = LastPlace(mode)
      BY <2>2, <3>1 DEF TypeOK, LastPlace
    <3>3. PICK m \in {mode} \cup Successors[mode] : place = <<m, 1>>
      BY <1>1, <2>2 DEF NextPlaces, LastPlace
    <3> QED
      BY <1>1, <3>2, <3>3
  <2> QED
    BY <2>1, <2>2
<1> DEFINE gap == GapTo(place[1], place[2], l)
<1>3. gap \in Nat
  <2>1. TaskLists[place[1]][place[2]].at \in Int /\ TaskLists[mode][pos].at \in Int
    BY <1>1, NextPlacesType, EntryTimes DEF TypeOK
  <2>2. l \in Nat /\ late \in Nat /\ CycleLength \in Nat
    BY <1>1, TaskListAssumption DEF TypeOK
  <2> QED
    BY <1>1, <2>1, <2>2 DEF GapTo
<1>4. GapTo(mode', pos', late') = gap
  BY <1>1 DEF GapTo
<1>5. since_mect_ms' = AtMost(AcceptableMaxTimeStep_ms + 1, a + gap)
  BY <1>1
<1> HIDE DEF gap
<1>6. since_mect_ms' <= a + gap
  BY <1>3, <1>5, TimerAssumption, AtMostBounds
<1> QED
  BY <1>2, <1>3, <1>4, <1>6

\* What an entry does besides reading and timing.
LEMMA EntryStep ==
    ASSUME TypeOK, TaskListStep
    PROVE  /\ \E a \in Nat, b \in Nat : Advance(a, b)
           /\ Op # "MTQ_UPDATE" =>
                  /\ UNCHANGED <<state, state_timer_ms, is_enable, config>>
                  /\ sampled \subseteq sampled'
                  /\ \E b \in Nat : Advance(since_mect_ms, b)
           /\ Op = "MTQ_UPDATE" => MtqUpdate
           /\ Op \in Sensor /\ state = "OBSERVE" => Op \in sampled'
<1>1. since_mect_ms \in Nat /\ since_integration_ms \in Nat /\ 0 \in Nat
  BY DEF TypeOK
<1>2. Sensor \cap {"CDH", "MTQ_UPDATE", "MTQ_CONTROLLER", "BDOT", "TORQUE"} = {}
  BY TaskListAssumption
<1>3. CASE EndCdh \/ Bdot \/ TorqueLaw \/ MtqController
  <2>1. Op \in {"CDH", "MTQ_CONTROLLER", "BDOT", "TORQUE"}
    BY <1>3 DEF EndCdh, Bdot, TorqueLaw, MtqController
  <2>2. UNCHANGED <<state, state_timer_ms, is_enable, config, sampled>>
    BY <1>3 DEF EndCdh, Bdot, TorqueLaw, MtqController, mect, sensors
  <2>3. \E b \in Nat : Advance(since_mect_ms, b)
    BY <1>1, <1>3 DEF EndCdh, Bdot, TorqueLaw, MtqController
  <2> QED
    BY <1>1, <1>2, <2>1, <2>2, <2>3
<1>4. ASSUME NEW s \in Sensor, ReadAndFilter(s)
      PROVE  /\ Op = s /\ Advance(since_mect_ms, since_integration_ms)
             /\ UNCHANGED <<state, state_timer_ms, is_enable, config>>
             /\ sampled \subseteq sampled'
             /\ state = "OBSERVE" => s \in sampled'
  BY <1>4 DEF ReadAndFilter, mect
<1>5. CASE \E s \in Sensor : ReadAndFilter(s)
  BY <1>1, <1>2, <1>4, <1>5
<1>6. CASE MtqUpdate
  <2>1. Op = "MTQ_UPDATE" /\ Advance(0, 0)
    BY <1>6 DEF MtqUpdate
  <2> QED
    BY <1>1, <1>2, <1>6, <2>1
<1> QED
  BY <1>3, <1>5, <1>6 DEF TaskListStep

LEMMA CommandStep ==
    ASSUME Command
    PROVE  UNCHANGED <<schedule, state, state_timer_ms, config, moment, sensors>>
  BY DEF Command, SetEnable, SetDuration, SetOutputRatio, DriveManually, mect, controller

-----------------------------------------------------------------------------
(* B-dot uses the field of this window. *)

\* Every magnetometer is read between the last run of the timer and B-dot.
SensorsBeforeBdot ==
    \A m \in DOMAIN TaskLists : \A p \in 1 .. LastPlace(m) :
        OpAt(m, p) = "BDOT" =>
            \A s \in Sensor : \E r \in 1 .. p - 1 :
                OpAt(m, r) = s /\ \A q \in r + 1 .. p - 1 : OpAt(m, q) # "MTQ_UPDATE"

\* What was read since the timer ran was filtered in this window.
ReadSinceUpdate ==
    state = "OBSERVE" =>
        \A r \in 1 .. pos - 1 :
            /\ OpAt(mode, r) \in Sensor
            /\ \A q \in r + 1 .. pos - 1 : OpAt(mode, q) # "MTQ_UPDATE"
            => OpAt(mode, r) \in sampled

LEMMA ReadSinceUpdateStep ==
    ASSUME TypeOK, ReadSinceUpdate, [Next]_vars
    PROVE  ReadSinceUpdate'
<1>1. CASE UNCHANGED <<mode, pos, state, sampled>>
  BY <1>1 DEF ReadSinceUpdate, OpAt
<1>2. CASE TaskListStep
  <2>1. \/ mode' = mode /\ pos' = pos + 1
        \/ pos' = 1
    BY <1>2, EntryStep, Moves
  <2>2. CASE pos' = 1
    BY <2>2 DEF ReadSinceUpdate
  <2>3. CASE mode' = mode /\ pos' = pos + 1
    <3> SUFFICES ASSUME state' = "OBSERVE", NEW r \in 1 .. pos, OpAt(mode, r) \in Sensor,
                        \A q \in r + 1 .. pos : OpAt(mode, q) # "MTQ_UPDATE"
                 PROVE  OpAt(mode, r) \in sampled'
      <4>1. pos' - 1 = pos
        BY <2>3 DEF TypeOK
      <4> QED
        BY <2>3, <4>1 DEF ReadSinceUpdate, OpAt
    <3>1. pos \in Nat /\ Op = OpAt(mode, pos)
      BY DEF TypeOK, Op, OpAt
    <3>2. Op # "MTQ_UPDATE"
      <4>1. CASE r = pos
        BY <3>1, <4>1, TaskListAssumption
      <4>2. CASE r # pos
        <5>1. pos \in r + 1 .. pos
          BY <3>1, <4>2
        <5> QED
          BY <3>1, <5>1
      <4> QED
        BY <4>1, <4>2
    <3>3. state = "OBSERVE" /\ sampled \subseteq sampled'
      BY <1>2, <3>2, EntryStep
    <3>4. CASE r = pos
      BY <1>2, <3>1, <3>3, <3>4, EntryStep
    <3>5. CASE r # pos
      <4>1. r \in 1 .. pos - 1 /\ \A q \in r + 1 .. pos - 1 : q \in r + 1 .. pos
        BY <3>1, <3>5
      <4>2. OpAt(mode, r) \in sampled
        BY <3>3, <4>1 DEF ReadSinceUpdate
      <4> QED
        BY <3>3, <4>2
    <3> QED
      BY <3>4, <3>5
  <2> QED
    BY <2>1, <2>2, <2>3
<1>3. CASE Command
  BY <1>1, <1>3, CommandStep DEF schedule, sensors
<1> QED
  BY <1>1, <1>2, <1>3 DEF Next, vars, schedule, mect, sensors

LEMMA BdotUsesField == ASSUME SensorsBeforeBdot PROVE Spec => []BdotUsesFieldOfThisWindow
<1>1. Init => ReadSinceUpdate
  BY DEF Init, ReadSinceUpdate
<1>2. TypeOK /\ ReadSinceUpdate /\ [Next]_vars => ReadSinceUpdate'
  BY ReadSinceUpdateStep
<1>3. TypeOK /\ ReadSinceUpdate => BdotUsesFieldOfThisWindow
  <2> SUFFICES ASSUME TypeOK, ReadSinceUpdate, Op = "BDOT", state = "OBSERVE", NEW s \in Sensor
               PROVE  s \in sampled
    BY DEF BdotUsesFieldOfThisWindow, TypeOK
  <2>1. PICK r \in 1 .. pos - 1 :
            OpAt(mode, r) = s /\ \A q \in r + 1 .. pos - 1 : OpAt(mode, q) # "MTQ_UPDATE"
    BY DEF SensorsBeforeBdot, TypeOK, Op, OpAt, LastPlace
  <2> QED
    BY <2>1 DEF ReadSinceUpdate
<1> QED
  BY <1>1, <1>2, <1>3, TypeCorrect, PTL DEF Spec

-----------------------------------------------------------------------------
(* Every window of a cycle or more has every magnetometer filtered. *)

At(m, i) == TaskLists[m][i].at

\* Every list reads every magnetometer.
ReadsAll ==
    \A m \in DOMAIN TaskLists, s \in Sensor : \E r \in 1 .. LastPlace(m) : OpAt(m, r) = s

\* No read lies between two places of a list.
NotRead(s, m, p, q) == \A r \in p .. q : OpAt(m, r) # s

\* Less than a cycle, late entries included, lies between two runs of the timer of one list
\* with no read between them, and between the last runs of a list, after its last read, and
\* the first ones of the next list, before its first read.
UpdatesAreNear ==
    \A m \in DOMAIN TaskLists, s \in Sensor, late1 \in Lateness, late2 \in Lateness :
        \A p \in 1 .. LastPlace(m) : OpAt(m, p) = "MTQ_UPDATE" =>
            /\ \A q \in 1 .. p - 1 :
                   OpAt(m, q) = "MTQ_UPDATE" /\ NotRead(s, m, q + 1, p - 1)
                   => At(m, p) + late1 < At(m, q) + late2 + CycleLength
            /\ \A n \in DOMAIN TaskLists : m \in {n} \cup Successors[n] =>
                   \A q \in 1 .. LastPlace(n) :
                       /\ OpAt(n, q) = "MTQ_UPDATE" /\ NotRead(s, n, q + 1, LastPlace(n))
                       /\ NotRead(s, m, 1, p - 1)
                       => At(m, p) + late1 < At(n, q) + late2

\* The window began t before the cycle in which place p of list m is next, or -t after its
\* begin, and since then s has not been read: in this cycle, or in the last one.
InThisCycle(s, m, p, t) ==
    \E q \in 1 .. p - 1, l \in Lateness :
        OpAt(m, q) = "MTQ_UPDATE" /\ NotRead(s, m, q + 1, p - 1) /\ t <= -(At(m, q) + l)

InLastCycle(s, m, p, t) ==
    /\ NotRead(s, m, 1, p - 1)
    /\ \E n \in DOMAIN TaskLists : m \in {n} \cup Successors[n] /\
          \E q \in 1 .. LastPlace(n), l \in Lateness :
              /\ OpAt(n, q) = "MTQ_UPDATE" /\ NotRead(s, n, q + 1, LastPlace(n))
              /\ t <= CycleLength - (At(n, q) + l)

\* How long before this cycle the window began, as far as the timer has counted.
Begun == state_timer_ms + since_mect_ms - (At(mode, pos) + late)

Unread ==
    state = "OBSERVE" =>
        \A s \in Sensor : \/ s \in sampled
                          \/ InThisCycle(s, mode, pos, Begun)
                          \/ InLastCycle(s, mode, pos, Begun)

LEMMA AtType ==
    /\ CycleLength \in Nat /\ \A l \in Lateness : l \in Nat
    /\ \A m \in DOMAIN TaskLists : \A i \in 1 .. LastPlace(m) : At(m, i) \in Int
    /\ \A m \in DOMAIN TaskLists : LastPlace(m) \in Nat
<1>1. \A m \in DOMAIN TaskLists : LastPlace(m) \in Nat
  BY TaskListAssumption DEF LastPlace
<1>2. \A m \in DOMAIN TaskLists : \A i \in 1 .. LastPlace(m) : At(m, i) \in Int
  BY EntryTimes DEF At, LastPlace
<1> QED
  BY <1>1, <1>2, TaskListAssumption

\* On to the next place of the list.
LEMMA UnreadGoesOn ==
    ASSUME NEW s, NEW m \in DOMAIN TaskLists, NEW p \in 1 .. LastPlace(m), OpAt(m, p) # s,
           NEW t \in Int, NEW t2 \in Int, t2 <= t
    PROVE  /\ InThisCycle(s, m, p, t) => InThisCycle(s, m, p + 1, t2)
           /\ InLastCycle(s, m, p, t) => InLastCycle(s, m, p + 1, t2)
<1>1. p \in Nat /\ LastPlace(m) \in Nat
  BY AtType
<1>2. \A q \in 1 .. p : NotRead(s, m, q, p - 1) => NotRead(s, m, q, (p + 1) - 1)
  <2> SUFFICES ASSUME NEW q \in 1 .. p, NotRead(s, m, q, p - 1), NEW r \in q .. p
               PROVE  OpAt(m, r) # s
    BY <1>1 DEF NotRead
  <2>1. r = p \/ r \in q .. p - 1
    BY <1>1
  <2> QED
    BY <2>1 DEF NotRead
<1>3. InThisCycle(s, m, p, t) => InThisCycle(s, m, p + 1, t2)
  <2> SUFFICES ASSUME InThisCycle(s, m, p, t) PROVE InThisCycle(s, m, p + 1, t2)
    OBVIOUS
  <2>1. PICK q \in 1 .. p - 1, l \in Lateness :
            OpAt(m, q) = "MTQ_UPDATE" /\ NotRead(s, m, q + 1, p - 1) /\ t <= -(At(m, q) + l)
    BY DEF InThisCycle
  <2>2. q \in 1 .. LastPlace(m) /\ q + 1 \in 1 .. p /\ q \in 1 .. (p + 1) - 1
    BY <1>1
  <2>3. At(m, q) \in Int /\ l \in Int
    BY <2>2, AtType
  <2>4. t2 <= -(At(m, q) + l)
    BY <2>1, <2>3
  <2>5. NotRead(s, m, q + 1, (p + 1) - 1)
    BY <1>2, <2>1, <2>2
  <2> QED
    BY <2>1, <2>2, <2>4, <2>5 DEF InThisCycle
<1>4. InLastCycle(s, m, p, t) => InLastCycle(s, m, p + 1, t2)
  <2> SUFFICES ASSUME InLastCycle(s, m, p, t) PROVE InLastCycle(s, m, p + 1, t2)
    OBVIOUS
  <2>1. PICK n \in DOMAIN TaskLists : m \in {n} \cup Successors[n] /\
            \E q \in 1 .. LastPlace(n), l \in Lateness :
              /\ OpAt(n, q) = "MTQ_UPDATE" /\ NotRead(s, n, q + 1, LastPlace(n))
              /\ t <= CycleLength - (At(n, q) + l)
    BY DEF InLastCycle
  <2>2. PICK q \in 1 .. LastPlace(n), l \in Lateness :
            /\ OpAt(n, q) = "MTQ_UPDATE" /\ NotRead(s, n, q + 1, LastPlace(n))
            /\ t <= CycleLength - (At(n, q) + l)
    BY <2>1
  <2>3. t2 <= CycleLength - (At(n, q) + l)
    BY <2>2, AtType
  <2>4. NotRead(s, m, 1, (p + 1) - 1)
    BY <1>1, <1>2 DEF InLastCycle
  <2> QED
    BY <2>1, <2>2, <2>3, <2>4 DEF InLastCycle
<1> QED
  BY <1>3, <1>4

\* On to the first place of the next list.
LEMMA UnreadWraps ==
    ASSUME NEW s, NEW m \in DOMAIN TaskLists, OpAt(m, LastPlace(m)) # s, LastPlace(m) > 0,
           NEW m2 \in {m} \cup Successors[m],
           NEW t \in Int, NEW t2 \in Int, t2 <= t + CycleLength,
           InThisCycle(s, m, LastPlace(m), t)
    PROVE  InLastCycle(s, m2, 1, t2)
<1>1. LastPlace(m) \in Nat
  BY AtType
<1>2. PICK q \in 1 .. LastPlace(m) - 1, l \in Lateness :
          /\ OpAt(m, q) = "MTQ_UPDATE" /\ NotRead(s, m, q + 1, LastPlace(m) - 1)
          /\ t <= -(At(m, q) + l)
  BY DEF InThisCycle
<1>3. q \in 1 .. LastPlace(m)
  BY <1>1
<1>4. t2 <= CycleLength - (At(m, q) + l)
  <2>1. At(m, q) \in Int /\ l \in Int /\ CycleLength \in Int
    BY <1>3, AtType
  <2> QED
    BY <1>2, <2>1
<1>5. NotRead(s, m, q + 1, LastPlace(m))
  <2> SUFFICES ASSUME NEW r \in q + 1 .. LastPlace(m) PROVE OpAt(m, r) # s
    BY DEF NotRead
  <2>1. r = LastPlace(m) \/ r \in q + 1 .. LastPlace(m) - 1
    BY <1>1
  <2> QED
    BY <1>2, <2>1 DEF NotRead
<1>6. NotRead(s, m2, 1, 1 - 1)
  BY DEF NotRead
<1> QED
  BY <1>2, <1>3, <1>4, <1>5, <1>6 DEF InLastCycle

\* One list that begins without a read cannot end without it.
LEMMA ReadOnce ==
    ASSUME ReadsAll, NEW s \in Sensor, NEW m \in DOMAIN TaskLists, NEW t,
           OpAt(m, LastPlace(m)) # s, InLastCycle(s, m, LastPlace(m), t)
    PROVE  FALSE
<1>1. PICK r \in 1 .. LastPlace(m) : OpAt(m, r) = s
  BY DEF ReadsAll
<1>2. r \in 1 .. LastPlace(m) - 1
  BY <1>1, AtType
<1> QED
  BY <1>1, <1>2 DEF InLastCycle, NotRead

\* The timer in and at the end of a window of observation.
LEMMA ObserveStep ==
    ASSUME TypeOK, MectExec
    PROVE  /\ state' = "OBSERVE" /\ state = "OBSERVE" =>
                  state_timer_ms' <= state_timer_ms + since_mect_ms
           /\ state' = "OBSERVE" /\ state # "OBSERVE" => state_timer_ms' = 0
           /\ state = "OBSERVE" /\ state' = "CONTROL" /\ is_enable = ENABLE =>
                  config["OBSERVE"] <= state_timer_ms + since_mect_ms
<1>1. since_mect_ms \in Nat /\ state_timer_ms \in Nat
  BY TimerAssumption DEF TypeOK
<1> DEFINE t == UpdateTimer(since_mect_ms)
<1>2. t \in Nat /\ t <= state_timer_ms + since_mect_ms
  <2>1. t = IF since_mect_ms > AcceptableMaxTimeStep_ms
              THEN 0 ELSE state_timer_ms + since_mect_ms
    BY <1>1, WatchdogNeverFires
  <2> QED
    BY <1>1, <2>1
<1>3. state \in Window
  BY DEF TypeOK
<1>4. CASE is_enable = DISABLE
  <2>1. state' = "CONTROL"
    BY <1>3, <1>4 DEF MectExec, NextWindow, Window
  <2> QED
    BY <1>4, <2>1 DEF ENABLE, DISABLE
<1>5. CASE is_enable # DISABLE
  <2> DEFINE conf == IF is_config_buffered /\ state = "STANDBY" THEN buffered_config ELSE config
             over == Over(t, conf[state])
  <2>1. /\ state_timer_ms' = IF over THEN 0 ELSE t
        /\ state' = IF over THEN NextWindow(state) ELSE state
    BY <1>5 DEF MectExec
  <2>2. over <=> t >= conf[state]
    BY DEF Over
  <2>3. state = "OBSERVE" => conf[state] = config["OBSERVE"] /\ config["OBSERVE"] \in Int
    BY TimerAssumption DEF TypeOK, Durations, Window
  <2> HIDE DEF conf, over, t
  <2> QED
    BY <1>1, <1>2, <1>3, <2>1, <2>2, <2>3 DEF NextWindow, Window
<1> QED
  BY <1>4, <1>5

\* How long ago the window began, seen from the start of the cycle, when the clocks go on.
LEMMA ClocksGoOn ==
    ASSUME NEW t \in Nat, NEW t2 \in Nat, NEW age \in Nat, NEW age2 \in Nat, NEW a \in Nat,
           NEW here \in Int, NEW there \in Int, NEW wrap \in Nat,
           age2 <= a + (there - here + wrap), t2 + a <= t + age
    PROVE  t2 + age2 - there <= t + age - here + wrap
OBVIOUS

LEMMA PlusNat == ASSUME NEW m \in Nat, NEW n \in Nat PROVE m + n \in Nat
OBVIOUS

LEMMA PlusZero == ASSUME NEW n \in Nat PROVE n + 0 = n /\ 0 + n = n
OBVIOUS

LEMMA ClockStarts ==
    ASSUME NEW age \in Nat, NEW here \in Int, NEW there \in Int, NEW wrap \in Nat,
           age <= 0 + (there - here + wrap)
    PROVE  age - there <= wrap - here
OBVIOUS

\* What has not been read stays unread in the sense above, wherever the scheduler goes.
LEMMA UnreadMoves ==
    ASSUME TypeOK, TypeOK', ReadsAll, NEW s \in Sensor, Op # s,
           InThisCycle(s, mode, pos, Begun) \/ InLastCycle(s, mode, pos, Begun),
           NEW a \in Nat, NEW b \in Nat, Advance(a, b),
           state_timer_ms' + a <= state_timer_ms + since_mect_ms
    PROVE  InThisCycle(s, mode', pos', Begun') \/ InLastCycle(s, mode', pos', Begun')
<1> DEFINE old == Begun
           new == Begun'
           here == At(mode, pos) + late
           there == At(mode', pos') + late'
           gap == GapTo(mode', pos', late')
<1>1. /\ mode \in DOMAIN TaskLists /\ pos \in 1 .. LastPlace(mode)
      /\ mode' \in DOMAIN TaskLists /\ pos' \in 1 .. LastPlace(mode')
      /\ late \in Lateness /\ late' \in Lateness
      /\ LastPlace(mode) \in Nat
  BY AtType DEF TypeOK, LastPlace
<1>2. here \in Int /\ there \in Int /\ CycleLength \in Nat
  BY <1>1, AtType
<1>3. /\ state_timer_ms \in Nat /\ state_timer_ms' \in Nat
      /\ since_mect_ms \in Nat /\ since_mect_ms' \in Nat
  BY TimerAssumption DEF TypeOK
<1>4. since_mect_ms' <= a + gap
  BY Moves
<1>5. gap = there - here + (IF pos' = 1 THEN CycleLength ELSE 0)
  BY <1>1, <1>2, AtType DEF GapTo, At
<1>6. old = state_timer_ms + since_mect_ms - here /\ new = state_timer_ms' + since_mect_ms' - there
  BY DEF Begun, At
<1> HIDE DEF old, new, here, there, gap
<1>7. old \in Int /\ new \in Int
  BY <1>2, <1>3, <1>6
<1>8. /\ pos' = 1 => new <= old + CycleLength
      /\ pos' # 1 => new <= old
  <2> DEFINE wrap == IF pos' = 1 THEN CycleLength ELSE 0
  <2>1. wrap \in Nat /\ gap = there - here + wrap
    BY <1>2, <1>5
  <2> HIDE DEF wrap
  <2>2. new <= old + wrap
    BY <1>2, <1>3, <1>4, <1>6, <2>1, ClocksGoOn
  <2> QED
    BY <1>2, <1>7, <2>2 DEF wrap
<1>9. OpAt(mode, pos) # s
  BY DEF Op, OpAt
<1>10. CASE pos < LastPlace(mode) /\ mode' = mode /\ pos' = pos + 1
  <2>1. new <= old
    BY <1>1, <1>8, <1>10
  <2> QED
    BY <1>1, <1>7, <1>9, <1>10, <2>1, UnreadGoesOn DEF old, new
<1>11. CASE pos = LastPlace(mode) /\ pos' = 1 /\ mode' \in {mode} \cup Successors[mode]
  <2>1. ~InLastCycle(s, mode, LastPlace(mode), old)
    BY <1>1, <1>9, <1>11, ReadOnce
  <2>2. InThisCycle(s, mode, LastPlace(mode), old)
    BY <1>11, <2>1 DEF old
  <2>3. LastPlace(mode) > 0 /\ new <= old + CycleLength
    BY <1>1, <1>8, <1>11
  <2>4. InLastCycle(s, mode', 1, new)
    BY <1>1, <1>7, <1>9, <1>11, <2>2, <2>3, UnreadWraps
  <2> QED
    BY <1>11, <2>4 DEF new
<1> QED
  BY <1>10, <1>11, Moves

\* A window of observation that begins has nothing read yet.
LEMMA UnreadBegins ==
    ASSUME TypeOK, TypeOK', NEW s \in Sensor, Op = "MTQ_UPDATE", Advance(0, 0), state_timer_ms' = 0
    PROVE  InThisCycle(s, mode', pos', Begun') \/ InLastCycle(s, mode', pos', Begun')
<1> DEFINE new == Begun'
           here == At(mode, pos) + late
           there == At(mode', pos') + late'
           gap == GapTo(mode', pos', late')
<1>1. /\ mode \in DOMAIN TaskLists /\ pos \in 1 .. LastPlace(mode)
      /\ mode' \in DOMAIN TaskLists /\ pos' \in 1 .. LastPlace(mode')
      /\ late \in Lateness /\ late' \in Lateness
      /\ LastPlace(mode) \in Nat
  BY AtType DEF TypeOK, LastPlace
<1>2. here \in Int /\ there \in Int /\ CycleLength \in Nat
  BY <1>1, AtType
<1>3. since_mect_ms' \in Nat
  BY DEF TypeOK
<1>4. since_mect_ms' <= 0 + gap
  BY Moves
<1>5. gap = there - here + (IF pos' = 1 THEN CycleLength ELSE 0)
  BY <1>1, <1>2, AtType DEF GapTo, At
<1>6. new = since_mect_ms' - there
  <2>1. new = state_timer_ms' + since_mect_ms' - there
    BY DEF Begun, At
  <2> QED
    BY <1>2, <1>3, <2>1
<1> HIDE DEF new, here, there, gap
<1>7. /\ pos' = 1 => new <= CycleLength - here
      /\ pos' # 1 => new <= -here
  <2> DEFINE wrap == IF pos' = 1 THEN CycleLength ELSE 0
  <2>1. wrap \in Nat /\ gap = there - here + wrap
    BY <1>2, <1>5
  <2> HIDE DEF wrap
  <2>2. since_mect_ms' <= 0 + (there - here + wrap)
    BY <1>4, <2>1
  <2>3. new <= wrap - here
    BY <1>2, <1>3, <1>6, <2>1, <2>2, ClockStarts
  <2>4. CASE pos' = 1
    BY <2>3, <2>4 DEF wrap
  <2>5. CASE pos' # 1
    BY <1>2, <2>3, <2>5 DEF wrap
  <2> QED
    BY <2>4, <2>5
<1>8. OpAt(mode, pos) = "MTQ_UPDATE"
  BY DEF Op, OpAt
<1>9. CASE pos < LastPlace(mode) /\ mode' = mode /\ pos' = pos + 1
  <2>1. NotRead(s, mode, pos + 1, pos' - 1) /\ pos \in 1 .. pos' - 1
    BY <1>1, <1>9 DEF NotRead
  <2>2. new <= -(At(mode, pos) + late)
    BY <1>1, <1>7, <1>9 DEF here
  <2> QED
    BY <1>1, <1>8, <1>9, <2>1, <2>2 DEF InThisCycle, new
<1>10. CASE pos = LastPlace(mode) /\ pos' = 1 /\ mode' \in {mode} \cup Successors[mode]
  <2>1. NotRead(s, mode, pos + 1, LastPlace(mode)) /\ NotRead(s, mode', 1, 1 - 1)
    BY <1>1, <1>10 DEF NotRead
  <2>2. new <= CycleLength - (At(mode, pos) + late)
    BY <1>7, <1>10 DEF here
  <2>3. InLastCycle(s, mode', 1, new)
    BY <1>1, <1>8, <1>10, <2>1, <2>2 DEF InLastCycle
  <2> QED
    BY <1>10, <2>3 DEF new
<1> QED
  BY <1>9, <1>10, Moves

LEMMA UnreadStep ==
    ASSUME TypeOK, TypeOK', ReadsAll, Unread, [Next]_vars
    PROVE  Unread'
<1>1. CASE UNCHANGED <<schedule, state, state_timer_ms, sampled>>
  <2>1. UNCHANGED <<mode, pos, late, since_mect_ms, state, state_timer_ms, sampled>>
    BY <1>1 DEF schedule
  <2>2. Begun' = Begun
    BY <2>1 DEF Begun, At
  <2> QED
    BY <2>1, <2>2 DEF Unread
<1>2. CASE TaskListStep
  <2> SUFFICES ASSUME state' = "OBSERVE", NEW s \in Sensor, s \notin sampled'
               PROVE  InThisCycle(s, mode', pos', Begun') \/ InLastCycle(s, mode', pos', Begun')
    BY DEF Unread, InThisCycle, InLastCycle
  <2>1. CASE Op # "MTQ_UPDATE"
    <3>1. /\ state = "OBSERVE" /\ state_timer_ms' = state_timer_ms
          /\ s \notin sampled /\ Op # s
      BY <1>2, <2>1, EntryStep
    <3>2. InThisCycle(s, mode, pos, Begun) \/ InLastCycle(s, mode, pos, Begun)
      BY <3>1 DEF Unread
    <3>3. PICK b \in Nat : Advance(since_mect_ms, b)
      BY <1>2, <2>1, EntryStep
    <3>4. /\ since_mect_ms \in Nat
          /\ state_timer_ms' + since_mect_ms <= state_timer_ms + since_mect_ms
      BY <3>1, TimerAssumption DEF TypeOK
    <3> QED
      BY <3>1, <3>2, <3>3, <3>4, UnreadMoves
  <2>2. CASE Op = "MTQ_UPDATE"
    <3>1. MtqUpdate /\ Op # s
      BY <1>2, <2>2, EntryStep, TaskListAssumption
    <3>2. MectExec /\ Advance(0, 0)
      BY <3>1 DEF MtqUpdate
    <3>3. CASE state = "OBSERVE"
      <4>1. sampled' = sampled
        BY <3>1, <3>3 DEF MtqUpdate
      <4>2. InThisCycle(s, mode, pos, Begun) \/ InLastCycle(s, mode, pos, Begun)
        BY <3>3, <4>1 DEF Unread
      <4>3. state_timer_ms' <= state_timer_ms + since_mect_ms
        BY <3>2, <3>3, ObserveStep
      <4>4. 0 \in Nat /\ state_timer_ms' + 0 <= state_timer_ms + since_mect_ms
        <5>1. state_timer_ms' \in Nat
          BY TimerAssumption DEF TypeOK
        <5>2. state_timer_ms' + 0 = state_timer_ms'
          BY <5>1, PlusZero
        <5> QED
          BY <4>3, <5>2
      <4> QED
        BY <3>1, <3>2, <4>2, <4>4, UnreadMoves
    <3>4. CASE state # "OBSERVE"
      <4>1. state_timer_ms' = 0
        BY <3>2, <3>4, ObserveStep
      <4> QED
        BY <2>2, <3>2, <4>1, UnreadBegins
    <3> QED
      BY <3>3, <3>4
  <2> QED
    BY <2>1, <2>2
<1>3. CASE Command
  BY <1>1, <1>3, CommandStep DEF sensors
<1> QED
  BY <1>1, <1>2, <1>3 DEF Next, vars, mect, sensors

LEMMA WindowsSampled ==
    ASSUME ReadsAll, UpdatesAreNear PROVE Spec => EveryWindowSampled
<1>1. Init => Unread
  BY DEF Init, Unread
<1>2. TypeOK /\ TypeOK' /\ Unread /\ [Next]_vars => Unread'
  BY UnreadStep
<1>3. ASSUME TypeOK, Unread, [Next]_vars
      PROVE  [( /\ state = "OBSERVE" /\ state' = "CONTROL"
                /\ is_enable = ENABLE
                /\ config["OBSERVE"] >= CycleLength ) => sampled = Sensor]_vars
  <2> SUFFICES ASSUME state = "OBSERVE", state' = "CONTROL", is_enable = ENABLE,
                      config["OBSERVE"] >= CycleLength, NEW s \in Sensor, s \notin sampled
               PROVE  FALSE
    BY <1>3 DEF TypeOK
  <2>1. Op = "MTQ_UPDATE" /\ MtqUpdate
    <3>1. state' # state
      OBVIOUS
    <3>2. TaskListStep
      BY <1>3, <3>1, CommandStep DEF Next, vars, mect
    <3>3. Op = "MTQ_UPDATE"
      BY <1>3, <3>1, <3>2, EntryStep
    <3> QED
      BY <1>3, <3>2, <3>3, EntryStep
  <2>2. config["OBSERVE"] <= state_timer_ms + since_mect_ms
    BY <1>3, <2>1, ObserveStep DEF MtqUpdate
  <2> DEFINE here == At(mode, pos) + late
  <2>3. /\ mode \in DOMAIN TaskLists /\ pos \in 1 .. LastPlace(mode) /\ late \in Lateness
        /\ here \in Int /\ CycleLength \in Nat /\ config["OBSERVE"] \in Int
        /\ state_timer_ms \in Nat /\ since_mect_ms \in Nat
    BY <1>3, AtType, TimerAssumption DEF TypeOK, LastPlace, Durations, Window
  <2>4. Begun = state_timer_ms + since_mect_ms - here
    BY DEF Begun
  <2> HIDE DEF here
  <2>5. Begun \in Int /\ Begun >= CycleLength - here
    BY <2>2, <2>3, <2>4
  <2>6. OpAt(mode, pos) = "MTQ_UPDATE"
    BY <2>1 DEF Op, OpAt
  <2>7. ~InThisCycle(s, mode, pos, Begun)
    <3> SUFFICES ASSUME NEW q \in 1 .. pos - 1, NEW l \in Lateness,
                        OpAt(mode, q) = "MTQ_UPDATE", NotRead(s, mode, q + 1, pos - 1),
                        Begun <= -(At(mode, q) + l)
                 PROVE  FALSE
      BY DEF InThisCycle
    <3>1. At(mode, pos) + late < At(mode, q) + l + CycleLength
      BY <2>3, <2>6 DEF UpdatesAreNear
    <3>2. At(mode, q) \in Int /\ l \in Int
      <4>1. q \in 1 .. LastPlace(mode)
        BY <2>3, AtType
      <4> QED
        BY <2>3, <4>1, AtType
    <3> QED
      BY <2>3, <2>5, <3>1, <3>2 DEF here
  <2>8. ~InLastCycle(s, mode, pos, Begun)
    <3> SUFFICES ASSUME NotRead(s, mode, 1, pos - 1), NEW n \in DOMAIN TaskLists,
                        mode \in {n} \cup Successors[n],
                        NEW q \in 1 .. LastPlace(n), NEW l \in Lateness,
                        OpAt(n, q) = "MTQ_UPDATE", NotRead(s, n, q + 1, LastPlace(n)),
                        Begun <= CycleLength - (At(n, q) + l)
                 PROVE  FALSE
      BY DEF InLastCycle
    <3>1. At(mode, pos) + late < At(n, q) + l
      BY <2>3, <2>6 DEF UpdatesAreNear
    <3>2. At(n, q) \in Int /\ l \in Int
      BY <2>3, AtType
    <3> QED
      BY <2>3, <2>5, <3>1, <3>2 DEF here
  <2> QED
    BY <1>3, <2>7, <2>8 DEF Unread
<1> QED
  BY <1>1, <1>2, <1>3, TypeCorrect, PTL DEF Spec, EveryWindowSampled

-----------------------------------------------------------------------------
(* A CONTROL window drives the latest target. *)

Laws == {"BDOT", "TORQUE"}
ControllerRuns == {"MTQ_UPDATE", "MTQ_CONTROLLER"}

\* The controller runs after the laws of every list.
LawsAreHeard ==
    \A m \in DOMAIN TaskLists : \A r \in 1 .. LastPlace(m) :
        OpAt(m, r) \in Laws => \E q \in r + 1 .. LastPlace(m) : OpAt(m, q) \in ControllerRuns

\* In the list of the B-dot mode it does so before the timer runs.
BdotIsHeardFirst ==
    \A p \in 1 .. LastPlace("BDOT") : \A r \in 1 .. p - 1 :
        OpAt("BDOT", p) = "MTQ_UPDATE" /\ OpAt("BDOT", r) \in Laws
        => \E q \in r + 1 .. p - 1 : OpAt("BDOT", q) \in ControllerRuns

\* Every SET_OUTPUT_RATIO is refused.
NoRatioCommand == \A percent \in RatioParams : Abs(percent) > 100

\* The drive times and directions are those of the current target.
Latest ==
    \A i \in Mtq : /\ duration_ms[i] = DurationFor(moment[i], config["CONTROL"])
                   /\ polarity[i] = PolarityFor(moment[i])

\* A law has run in this cycle since the controller did.
Unheard(m, p) ==
    \E r \in 1 .. p - 1 : /\ OpAt(m, r) \in Laws
                          /\ \A q \in r + 1 .. p - 1 : OpAt(m, q) \notin ControllerRuns

Heard == state = "OBSERVE" => Latest \/ Unheard(mode, pos)

\* Without the controller, Unheard goes on to the next place, and there is one.
LEMMA UnheardGoesOn ==
    ASSUME LawsAreHeard, NEW m \in DOMAIN TaskLists, NEW p \in 1 .. LastPlace(m),
           OpAt(m, p) \notin ControllerRuns,
           Unheard(m, p) \/ OpAt(m, p) \in Laws
    PROVE  p # LastPlace(m) /\ Unheard(m, p + 1)
<1>1. p \in Nat /\ LastPlace(m) \in Nat
  BY AtType
<1>2. PICK r \in 1 .. p : /\ OpAt(m, r) \in Laws
                          /\ \A q \in r + 1 .. p : OpAt(m, q) \notin ControllerRuns
  <2>1. CASE OpAt(m, p) \in Laws
    <3>1. p \in 1 .. p /\ \A q \in p + 1 .. p : FALSE
      BY <1>1
    <3> QED
      BY <2>1, <3>1
  <2>2. CASE Unheard(m, p)
    <3>1. PICK r \in 1 .. p - 1 : /\ OpAt(m, r) \in Laws
                                  /\ \A q \in r + 1 .. p - 1 : OpAt(m, q) \notin ControllerRuns
      BY <2>2 DEF Unheard
    <3>2. r \in 1 .. p /\ \A q \in r + 1 .. p : q = p \/ q \in r + 1 .. p - 1
      BY <1>1
    <3> QED
      BY <3>1, <3>2
  <2> QED
    BY <2>1, <2>2
<1>3. p # LastPlace(m)
  <2>1. PICK q \in r + 1 .. LastPlace(m) : OpAt(m, q) \in ControllerRuns
    BY <1>1, <1>2 DEF LawsAreHeard
  <2> QED
    BY <1>2, <2>1
<1>4. (p + 1) - 1 = p
  BY <1>1
<1> QED
  BY <1>2, <1>3, <1>4 DEF Unheard

LEMMA HeardStep ==
    ASSUME LawsAreHeard, NoRatioCommand, TypeOK, Heard, [Next]_vars
    PROVE  Heard'
<1>1. CASE UNCHANGED <<schedule, state, config, moment, duration_ms, polarity>>
  <2>1. UNCHANGED <<mode, pos, state, config, moment, duration_ms, polarity>>
    BY <1>1 DEF schedule
  <2> QED
    BY <2>1 DEF Heard, Latest
<1>2. CASE Command
  <2>1. ASSUME NEW i \in Mtq, NEW percent \in RatioParams, SetOutputRatio(i, percent)
        PROVE  FALSE
    <3>1. Abs(percent) <= 100 /\ Abs(percent) > 100
      BY <2>1 DEF SetOutputRatio, NoRatioCommand
    <3>2. Abs(percent) \in Int
      BY InputAssumption DEF Abs
    <3> QED
      BY <3>1, <3>2
  <2>2. UNCHANGED <<duration_ms, polarity>>
    BY <1>2, <2>1 DEF Command, SetEnable, SetDuration, DriveManually, controller
  <2> QED
    BY <1>1, <1>2, <2>2, CommandStep
<1>3. CASE TaskListStep
  <2>1. /\ mode \in DOMAIN TaskLists /\ pos \in 1 .. LastPlace(mode)
        /\ Op = OpAt(mode, pos)
    BY DEF TypeOK, LastPlace, Op, OpAt
  <2>2. \/ pos < LastPlace(mode) /\ mode' = mode /\ pos' = pos + 1
        \/ pos = LastPlace(mode)
    BY <1>3, EntryStep, Moves
  <2>3. CASE MtqUpdate
    <3> SUFFICES ASSUME state' = "OBSERVE" PROVE Latest'
      BY DEF Heard
    <3>1. /\ ControllerExec(state', state_timer_ms', config'["CONTROL"])
          /\ moment' = moment
      BY <2>3 DEF MtqUpdate
    <3>2. /\ duration_ms' = [i \in Mtq |-> DurationFor(moment[i], config'["CONTROL"])]
          /\ polarity' = [i \in Mtq |-> PolarityFor(moment[i])]
      BY <3>1 DEF ControllerExec
    <3> QED
      BY <3>1, <3>2 DEF Latest
  <2>4. CASE MtqController
    <3> SUFFICES ASSUME state' = "OBSERVE" PROVE Latest'
      BY DEF Heard
    <3>1. /\ ControllerExec(state, state_timer_ms, config["CONTROL"])
          /\ moment' = moment /\ state' = state /\ config' = config
      BY <2>4 DEF MtqController, mect
    <3>2. /\ duration_ms' = [i \in Mtq |-> DurationFor(moment[i], config["CONTROL"])]
          /\ polarity' = [i \in Mtq |-> PolarityFor(moment[i])]
      BY <3>1 DEF ControllerExec
    <3> QED
      BY <3>1, <3>2 DEF Latest
  <2>5. CASE Bdot \/ TorqueLaw
    <3>1. Op \in Laws /\ Op \notin ControllerRuns
      BY <2>5 DEF Bdot, TorqueLaw, Laws, ControllerRuns
    <3>2. pos # LastPlace(mode) /\ Unheard(mode, pos + 1)
      BY <2>1, <3>1, UnheardGoesOn
    <3> QED
      BY <2>2, <3>2 DEF Heard, Unheard, OpAt
  <2>6. CASE EndCdh \/ \E s \in Sensor : ReadAndFilter(s)
    <3>1. UNCHANGED <<state, config, moment, duration_ms, polarity>>
      BY <2>6 DEF EndCdh, ReadAndFilter, mect, controller
    <3>2. Op \notin ControllerRuns
      BY <2>6, TaskListAssumption DEF EndCdh, ReadAndFilter, ControllerRuns
    <3>3. CASE state = "OBSERVE" /\ Unheard(mode, pos)
      <4>1. pos # LastPlace(mode) /\ Unheard(mode, pos + 1)
        BY <2>1, <3>2, <3>3, UnheardGoesOn
      <4> QED
        BY <2>2, <4>1 DEF Heard, Unheard, OpAt
    <3>4. CASE state = "OBSERVE" /\ Latest
      BY <3>1, <3>4 DEF Heard, Latest
    <3>5. CASE state # "OBSERVE"
      BY <3>1, <3>5 DEF Heard
    <3> QED
      BY <3>3, <3>4, <3>5 DEF Heard
  <2> QED
    BY <1>3, <2>3, <2>4, <2>5, <2>6 DEF TaskListStep
<1> QED
  BY <1>1, <1>2, <1>3 DEF Next, vars, mect, controller

LEMMA LatestTargetDriven ==
    ASSUME LawsAreHeard, BdotIsHeardFirst, NoRatioCommand PROVE Spec => BdotDrivesLatestTarget
<1>1. Init => Heard
  BY DEF Init, Heard
<1>2. TypeOK /\ Heard /\ [Next]_vars => Heard'
  BY HeardStep
<1>3. ASSUME TypeOK, Heard, [Next]_vars
      PROVE  [ mode = "BDOT" /\ state = "OBSERVE" /\ state' = "CONTROL" => DrivesTarget ]_vars
  <2> SUFFICES ASSUME mode = "BDOT", state = "OBSERVE", state' = "CONTROL"
               PROVE  UNCHANGED <<duration_ms, polarity>> /\ Latest
    BY DEF DrivesTarget, Latest
  <2>1. Op = "MTQ_UPDATE" /\ MtqUpdate
    <3>1. state' # state
      OBVIOUS
    <3>2. TaskListStep
      BY <1>3, <3>1, CommandStep DEF Next, vars, mect
    <3>3. Op = "MTQ_UPDATE"
      BY <1>3, <3>1, <3>2, EntryStep
    <3> QED
      BY <1>3, <3>2, <3>3, EntryStep
  <2>2. UNCHANGED <<duration_ms, polarity>>
    BY <2>1 DEF MtqUpdate, ControllerExec
  <2>3. ~Unheard(mode, pos)
    <3>1. pos \in 1 .. LastPlace("BDOT") /\ OpAt("BDOT", pos) = "MTQ_UPDATE"
      BY <1>3, <2>1 DEF TypeOK, LastPlace, Op, OpAt
    <3> QED
      BY <3>1 DEF BdotIsHeardFirst, Unheard
  <2> QED
    BY <1>3, <2>2, <2>3 DEF Heard
<1> QED
  BY <1>1, <1>2, <1>3, TypeCorrect, PTL DEF Spec, BdotDrivesLatestTarget

-----------------------------------------------------------------------------
(* The task lists of the flight software. *)

\* The instance that flies: the registered lists, entries no more than 4 ms late, and any
\* mode transitions, durations, commands and clock values.
Flight ==
    /\ TaskLists = ModeList
    /\ Sensor = {"MPU9250", "RM3100"}
    /\ CycleLength = CycleLength_ms
    /\ Lateness \subseteq 0 .. 4

\* What the properties below need of one list.
UpdatesAt(m) ==
    \A p \in 1 .. LastPlace(m) : OpAt(m, p) = "MTQ_UPDATE" =>
        /\ At(m, p) \in 40 .. 95
        /\ ~NotRead("MPU9250", m, 1, p - 1)
        /\ NotRead("RM3100", m, 1, p - 1) => At(m, p) <= 40
        /\ NotRead("RM3100", m, p + 1, LastPlace(m)) => At(m, p) >= 45

ReadsAllIn(m) == \A s \in Sensor : \E r \in 1 .. LastPlace(m) : OpAt(m, r) = s

LawsAreHeardIn(m) ==
    \A r \in 1 .. LastPlace(m) : OpAt(m, r) \in Laws =>
        \E q \in r + 1 .. LastPlace(m) : OpAt(m, q) \in ControllerRuns

\* The timer runs last in a list, and there is no long stretch before its first run.
UpdatesEnd(m) ==
    /\ OpAt(m, LastPlace(m)) = "MTQ_UPDATE" /\ At(m, LastPlace(m)) >= 90
    /\ \A p \in 1 .. LastPlace(m) :
          At(m, p) <= 95 /\ (NotRead("MTQ_UPDATE", m, 1, p - 1) => At(m, p) <= 45)

NoBdot(m) == \A p \in 1 .. LastPlace(m) : OpAt(m, p) # "BDOT"

\* Each list, entry by entry.
LEMMA InitialList ==
    ASSUME Flight
    PROVE  UpdatesAt("INITIAL") /\ ReadsAllIn("INITIAL") /\ LawsAreHeardIn("INITIAL")
           /\ UpdatesEnd("INITIAL") /\ NoBdot("INITIAL")
<1>1. TaskLists["INITIAL"] = TL_INITIAL
  BY DEF Flight, ModeList
<1>2. LastPlace("INITIAL") = 5
  BY <1>1 DEF LastPlace, TL_INITIAL, Entry
<1>3. /\ OpAt("INITIAL", 1) = "CDH" /\ At("INITIAL", 1) = 0
      /\ OpAt("INITIAL", 2) = "MPU9250" /\ At("INITIAL", 2) = 25
      /\ OpAt("INITIAL", 3) = "RM3100" /\ At("INITIAL", 3) = 36
      /\ OpAt("INITIAL", 4) = "MTQ_UPDATE" /\ At("INITIAL", 4) = 45
      /\ OpAt("INITIAL", 5) = "MTQ_UPDATE" /\ At("INITIAL", 5) = 95
  BY <1>1 DEF OpAt, At, TL_INITIAL, Entry
<1>4. 1 .. 5 = {1, 2, 3, 4, 5}
  OBVIOUS
<1>5. \A p \in 1 .. 5 : OpAt("INITIAL", p) = "MTQ_UPDATE" => p \in {4, 5}
  BY <1>3, <1>4
<1>6. /\ At("INITIAL", 4) \in 40 .. 95
      /\ ~NotRead("MPU9250", "INITIAL", 1, 4 - 1)
      /\ NotRead("RM3100", "INITIAL", 1, 4 - 1) => At("INITIAL", 4) <= 40
      /\ NotRead("RM3100", "INITIAL", 4 + 1, 5) => At("INITIAL", 4) >= 45
  <2>1. 2 \in 1 .. 4 - 1 /\ 3 \in 1 .. 4 - 1
    OBVIOUS
  <2> QED
    BY <1>3, <2>1 DEF NotRead
<1>7. /\ At("INITIAL", 5) \in 40 .. 95
      /\ ~NotRead("MPU9250", "INITIAL", 1, 5 - 1)
      /\ NotRead("RM3100", "INITIAL", 1, 5 - 1) => At("INITIAL", 5) <= 40
      /\ NotRead("RM3100", "INITIAL", 5 + 1, 5) => At("INITIAL", 5) >= 45
  <2>1. 2 \in 1 .. 5 - 1 /\ 3 \in 1 .. 5 - 1
    OBVIOUS
  <2> QED
    BY <1>3, <2>1 DEF NotRead
<1>8. UpdatesAt("INITIAL")
  BY <1>2, <1>5, <1>6, <1>7 DEF UpdatesAt
<1>9. ReadsAllIn("INITIAL")
  BY <1>2, <1>3, <1>4 DEF ReadsAllIn, Flight
<1>10. LawsAreHeardIn("INITIAL")
  <2>1. \A r \in 1 .. 5 : OpAt("INITIAL", r) \in Laws => FALSE
    BY <1>3, <1>4 DEF Laws
  <2> QED
    BY <1>2, <2>1 DEF LawsAreHeardIn
<1>11. UpdatesEnd("INITIAL")
  <2>1. \A p \in 1 .. 5 : At("INITIAL", p) <= 95 /\ (p <= 4 => At("INITIAL", p) <= 45)
    BY <1>3, <1>4
  <2>2. \A p \in 1 .. 5 : ~(p <= 4) => 4 \in 1 .. p - 1
    OBVIOUS
  <2>3. OpAt("INITIAL", 4) = "MTQ_UPDATE" /\ OpAt("INITIAL", 5) = "MTQ_UPDATE" /\ At("INITIAL", 5) >= 90
    BY <1>3
  <2> QED
    BY <1>2, <2>1, <2>2, <2>3 DEF UpdatesEnd, NotRead
<1>12. NoBdot("INITIAL")
  BY <1>2, <1>3, <1>4 DEF NoBdot
<1> QED
  BY <1>8, <1>9, <1>10, <1>11, <1>12

LEMMA BdotList ==
    ASSUME Flight
    PROVE  UpdatesAt("BDOT") /\ ReadsAllIn("BDOT") /\ LawsAreHeardIn("BDOT")
           /\ UpdatesEnd("BDOT")
<1>1. TaskLists["BDOT"] = TL_BDOT
  BY DEF Flight, ModeList
<1>2. LastPlace("BDOT") = 8
  BY <1>1 DEF LastPlace, TL_BDOT, Entry
<1>3. /\ OpAt("BDOT", 1) = "CDH" /\ At("BDOT", 1) = 0
      /\ OpAt("BDOT", 2) = "MPU9250" /\ At("BDOT", 2) = 25
      /\ OpAt("BDOT", 3) = "MTQ_UPDATE" /\ At("BDOT", 3) = 40
      /\ OpAt("BDOT", 4) = "MPU9250" /\ At("BDOT", 4) = 45
      /\ OpAt("BDOT", 5) = "RM3100" /\ At("BDOT", 5) = 55
      /\ OpAt("BDOT", 6) = "BDOT" /\ At("BDOT", 6) = 80
      /\ OpAt("BDOT", 7) = "MTQ_CONTROLLER" /\ At("BDOT", 7) = 85
      /\ OpAt("BDOT", 8) = "MTQ_UPDATE" /\ At("BDOT", 8) = 90
  BY <1>1 DEF OpAt, At, TL_BDOT, Entry
<1>4. 1 .. 8 = {1, 2, 3, 4, 5, 6, 7, 8}
  OBVIOUS
<1>5. \A p \in 1 .. 8 : OpAt("BDOT", p) = "MTQ_UPDATE" => p \in {3, 8}
  BY <1>3, <1>4
<1>6. /\ At("BDOT", 3) \in 40 .. 95
      /\ ~NotRead("MPU9250", "BDOT", 1, 3 - 1)
      /\ NotRead("RM3100", "BDOT", 1, 3 - 1) => At("BDOT", 3) <= 40
      /\ NotRead("RM3100", "BDOT", 3 + 1, 8) => At("BDOT", 3) >= 45
  <2>1. 2 \in 1 .. 3 - 1 /\ 5 \in 3 + 1 .. 8
    OBVIOUS
  <2> QED
    BY <1>3, <2>1 DEF NotRead
<1>7. /\ At("BDOT", 8) \in 40 .. 95
      /\ ~NotRead("MPU9250", "BDOT", 1, 8 - 1)
      /\ NotRead("RM3100", "BDOT", 1, 8 - 1) => At("BDOT", 8) <= 40
      /\ NotRead("RM3100", "BDOT", 8 + 1, 8) => At("BDOT", 8) >= 45
  <2>1. 2 \in 1 .. 8 - 1 /\ 5 \in 1 .. 8 - 1
    OBVIOUS
  <2> QED
    BY <1>3, <2>1 DEF NotRead
<1>8. UpdatesAt("BDOT")
  BY <1>2, <1>5, <1>6, <1>7 DEF UpdatesAt
<1>9. ReadsAllIn("BDOT")
  BY <1>2, <1>3, <1>4 DEF ReadsAllIn, Flight
<1>10. LawsAreHeardIn("BDOT")
  <2>1. \A r \in 1 .. 8 : OpAt("BDOT", r) \in Laws => r = 6
    BY <1>3, <1>4 DEF Laws
  <2>2. 7 \in 6 + 1 .. 8 /\ OpAt("BDOT", 7) \in ControllerRuns
    BY <1>3 DEF ControllerRuns
  <2> QED
    BY <1>2, <2>1, <2>2 DEF LawsAreHeardIn
<1>11. UpdatesEnd("BDOT")
  <2>1. \A p \in 1 .. 8 : At("BDOT", p) <= 95 /\ (p <= 3 => At("BDOT", p) <= 45)
    BY <1>3, <1>4
  <2>2. \A p \in 1 .. 8 : ~(p <= 3) => 3 \in 1 .. p - 1
    OBVIOUS
  <2>3. OpAt("BDOT", 3) = "MTQ_UPDATE" /\ OpAt("BDOT", 8) = "MTQ_UPDATE" /\ At("BDOT", 8) >= 90
    BY <1>3
  <2> QED
    BY <1>2, <2>1, <2>2, <2>3 DEF UpdatesEnd, NotRead
<1> QED
  BY <1>8, <1>9, <1>10, <1>11

LEMMA RoughSunPointingList ==
    ASSUME Flight
    PROVE  UpdatesAt("ROUGH_SUN_POINTING") /\ ReadsAllIn("ROUGH_SUN_POINTING") /\ LawsAreHeardIn("ROUGH_SUN_POINTING")
           /\ UpdatesEnd("ROUGH_SUN_POINTING") /\ NoBdot("ROUGH_SUN_POINTING")
<1>1. TaskLists["ROUGH_SUN_POINTING"] = TL_ROUGH_SUN_POINTING
  BY DEF Flight, ModeList
<1>2. LastPlace("ROUGH_SUN_POINTING") = 6
  BY <1>1 DEF LastPlace, TL_ROUGH_SUN_POINTING, Entry
<1>3. /\ OpAt("ROUGH_SUN_POINTING", 1) = "CDH" /\ At("ROUGH_SUN_POINTING", 1) = 0
      /\ OpAt("ROUGH_SUN_POINTING", 2) = "MPU9250" /\ At("ROUGH_SUN_POINTING", 2) = 25
      /\ OpAt("ROUGH_SUN_POINTING", 3) = "MTQ_UPDATE" /\ At("ROUGH_SUN_POINTING", 3) = 40
      /\ OpAt("ROUGH_SUN_POINTING", 4) = "RM3100" /\ At("ROUGH_SUN_POINTING", 4) = 45
      /\ OpAt("ROUGH_SUN_POINTING", 5) = "TORQUE" /\ At("ROUGH_SUN_POINTING", 5) = 85
      /\ OpAt("ROUGH_SUN_POINTING", 6) = "MTQ_UPDATE" /\ At("ROUGH_SUN_POINTING", 6) = 90
  BY <1>1 DEF OpAt, At, TL_ROUGH_SUN_POINTING, Entry
<1>4. 1 .. 6 = {1, 2, 3, 4, 5, 6}
  OBVIOUS
<1>5. \A p \in 1 .. 6 : OpAt("ROUGH_SUN_POINTING", p) = "MTQ_UPDATE" => p \in {3, 6}
  BY <1>3, <1>4
<1>6. /\ At("ROUGH_SUN_POINTING", 3) \in 40 .. 95
      /\ ~NotRead("MPU9250", "ROUGH_SUN_POINTING", 1, 3 - 1)
      /\ NotRead("RM3100", "ROUGH_SUN_POINTING", 1, 3 - 1) => At("ROUGH_SUN_POINTING", 3) <= 40
      /\ NotRead("RM3100", "ROUGH_SUN_POINTING", 3 + 1, 6) => At("ROUGH_SUN_POINTING", 3) >= 45
  <2>1. 2 \in 1 .. 3 - 1 /\ 4 \in 3 + 1 .. 6
    OBVIOUS
  <2> QED
    BY <1>3, <2>1 DEF NotRead
<1>7. /\ At("ROUGH_SUN_POINTING", 6) \in 40 .. 95
      /\ ~NotRead("MPU9250", "ROUGH_SUN_POINTING", 1, 6 - 1)
      /\ NotRead("RM3100", "ROUGH_SUN_POINTING", 1, 6 - 1) => At("ROUGH_SUN_POINTING", 6) <= 40
      /\ NotRead("RM3100", "ROUGH_SUN_POINTING", 6 + 1, 6) => At("ROUGH_SUN_POINTING", 6) >= 45
  <2>1. 2 \in 1 .. 6 - 1 /\ 4 \in 1 .. 6 - 1
    OBVIOUS
  <2> QED
    BY <1>3, <2>1 DEF NotRead
<1>8. UpdatesAt("ROUGH_SUN_POINTING")
  BY <1>2, <1>5, <1>6, <1>7 DEF UpdatesAt
<1>9. ReadsAllIn("ROUGH_SUN_POINTING")
  BY <1>2, <1>3, <1>4 DEF ReadsAllIn, Flight
<1>10. LawsAreHeardIn("ROUGH_SUN_POINTING")
  <2>1. \A r \in 1 .. 6 : OpAt("ROUGH_SUN_POINTING", r) \in Laws => r = 5
    BY <1>3, <1>4 DEF Laws
  <2>2. 6 \in 5 + 1 .. 6 /\ OpAt("ROUGH_SUN_POINTING", 6) \in ControllerRuns
    BY <1>3 DEF ControllerRuns
  <2> QED
    BY <1>2, <2>1, <2>2 DEF LawsAreHeardIn
<1>11. UpdatesEnd("ROUGH_SUN_POINTING")
  <2>1. \A p \in 1 .. 6 : At("ROUGH_SUN_POINTING", p) <= 95 /\ (p <= 3 => At("ROUGH_SUN_POINTING", p) <= 45)
    BY <1>3, <1>4
  <2>2. \A p \in 1 .. 6 : ~(p <= 3) => 3 \in 1 .. p - 1
    OBVIOUS
  <2>3. OpAt("ROUGH_SUN_POINTING", 3) = "MTQ_UPDATE" /\ OpAt("ROUGH_SUN_POINTING", 6) = "MTQ_UPDATE" /\ At("ROUGH_SUN_POINTING", 6) >= 90
    BY <1>3
  <2> QED
    BY <1>2, <2>1, <2>2, <2>3 DEF UpdatesEnd, NotRead
<1>12. NoBdot("ROUGH_SUN_POINTING")
  BY <1>2, <1>3, <1>4 DEF NoBdot
<1> QED
  BY <1>8, <1>9, <1>10, <1>11, <1>12

LEMMA RoughThreeAxisList ==
    ASSUME Flight
    PROVE  UpdatesAt("ROUGH_THREE_AXIS") /\ ReadsAllIn("ROUGH_THREE_AXIS") /\ LawsAreHeardIn("ROUGH_THREE_AXIS")
           /\ UpdatesEnd("ROUGH_THREE_AXIS") /\ NoBdot("ROUGH_THREE_AXIS")
<1>1. TaskLists["ROUGH_THREE_AXIS"] = TL_ROUGH_THREE_AXIS
  BY DEF Flight, ModeList
<1>2. LastPlace("ROUGH_THREE_AXIS") = 6
  BY <1>1 DEF LastPlace, TL_ROUGH_THREE_AXIS, Entry
<1>3. /\ OpAt("ROUGH_THREE_AXIS", 1) = "CDH" /\ At("ROUGH_THREE_AXIS", 1) = 0
      /\ OpAt("ROUGH_THREE_AXIS", 2) = "MPU9250" /\ At("ROUGH_THREE_AXIS", 2) = 25
      /\ OpAt("ROUGH_THREE_AXIS", 3) = "MTQ_UPDATE" /\ At("ROUGH_THREE_AXIS", 3) = 40
      /\ OpAt("ROUGH_THREE_AXIS", 4) = "RM3100" /\ At("ROUGH_THREE_AXIS", 4) = 45
      /\ OpAt("ROUGH_THREE_AXIS", 5) = "TORQUE" /\ At("ROUGH_THREE_AXIS", 5) = 80
      /\ OpAt("ROUGH_THREE_AXIS", 6) = "MTQ_UPDATE" /\ At("ROUGH_THREE_AXIS", 6) = 90
  BY <1>1 DEF OpAt, At, TL_ROUGH_THREE_AXIS, Entry
<1>4. 1 .. 6 = {1, 2, 3, 4, 5, 6}
  OBVIOUS
<1>5. \A p \in 1 .. 6 : OpAt("ROUGH_THREE_AXIS", p) = "MTQ_UPDATE" => p \in {3, 6}
  BY <1>3, <1>4
<1>6. /\ At("ROUGH_THREE_AXIS", 3) \in 40 .. 95
      /\ ~NotRead("MPU9250", "ROUGH_THREE_AXIS", 1, 3 - 1)
      /\ NotRead("RM3100", "ROUGH_THREE_AXIS", 1, 3 - 1) => At("ROUGH_THREE_AXIS", 3) <= 40
      /\ NotRead("RM3100", "ROUGH_THREE_AXIS", 3 + 1, 6) => At("ROUGH_THREE_AXIS", 3) >= 45
  <2>1. 2 \in 1 .. 3 - 1 /\ 4 \in 3 + 1 .. 6
    OBVIOUS
  <2> QED
    BY <1>3, <2>1 DEF NotRead
<1>7. /\ At("ROUGH_THREE_AXIS", 6) \in 40 .. 95
      /\ ~NotRead("MPU9250", "ROUGH_THREE_AXIS", 1, 6 - 1)
      /\ NotRead("RM3100", "ROUGH_THREE_AXIS", 1, 6 - 1) => At("ROUGH_THREE_AXIS", 6) <= 40
      /\ NotRead("RM3100", "ROUGH_THREE_AXIS", 6 + 1, 6) => At("ROUGH_THREE_AXIS", 6) >= 45
  <2>1. 2 \in 1 .. 6 - 1 /\ 4 \in 1 .. 6 - 1
    OBVIOUS
  <2> QED
    BY <1>3, <2>1 DEF NotRead
<1>8. UpdatesAt("ROUGH_THREE_AXIS")
  BY <1>2, <1>5, <1>6, <1>7 DEF UpdatesAt
<1>9. ReadsAllIn("ROUGH_THREE_AXIS")
  BY <1>2, <1>3, <1>4 DEF ReadsAllIn, Flight
<1>10. LawsAreHeardIn("ROUGH_THREE_AXIS")
  <2>1. \A r \in 1 .. 6 : OpAt("ROUGH_THREE_AXIS", r) \in Laws => r = 5
    BY <1>3, <1>4 DEF Laws
  <2>2. 6 \in 5 + 1 .. 6 /\ OpAt("ROUGH_THREE_AXIS", 6) \in ControllerRuns
    BY <1>3 DEF ControllerRuns
  <2> QED
    BY <1>2, <2>1, <2>2 DEF LawsAreHeardIn
<1>11. UpdatesEnd("ROUGH_THREE_AXIS")
  <2>1. \A p \in 1 .. 6 : At("ROUGH_THREE_AXIS", p) <= 95 /\ (p <= 3 => At("ROUGH_THREE_AXIS", p) <= 45)
    BY <1>3, <1>4
  <2>2. \A p \in 1 .. 6 : ~(p <= 3) => 3 \in 1 .. p - 1
    OBVIOUS
  <2>3. OpAt("ROUGH_THREE_AXIS", 3) = "MTQ_UPDATE" /\ OpAt("ROUGH_THREE_AXIS", 6) = "MTQ_UPDATE" /\ At("ROUGH_THREE_AXIS", 6) >= 90
    BY <1>3
  <2> QED
    BY <1>2, <2>1, <2>2, <2>3 DEF UpdatesEnd, NotRead
<1>12. NoBdot("ROUGH_THREE_AXIS")
  BY <1>2, <1>3, <1>4 DEF NoBdot
<1> QED
  BY <1>8, <1>9, <1>10, <1>11, <1>12

LEMMA RoughThreeAxisRwList ==
    ASSUME Flight
    PROVE  UpdatesAt("ROUGH_THREE_AXIS_RW") /\ ReadsAllIn("ROUGH_THREE_AXIS_RW") /\ LawsAreHeardIn("ROUGH_THREE_AXIS_RW")
           /\ UpdatesEnd("ROUGH_THREE_AXIS_RW") /\ NoBdot("ROUGH_THREE_AXIS_RW")
<1>1. TaskLists["ROUGH_THREE_AXIS_RW"] = TL_ROUGH_THREE_AXIS_RW
  BY DEF Flight, ModeList
<1>2. LastPlace("ROUGH_THREE_AXIS_RW") = 6
  BY <1>1 DEF LastPlace, TL_ROUGH_THREE_AXIS_RW, Entry
<1>3. /\ OpAt("ROUGH_THREE_AXIS_RW", 1) = "CDH" /\ At("ROUGH_THREE_AXIS_RW", 1) = 0
      /\ OpAt("ROUGH_THREE_AXIS_RW", 2) = "MPU9250" /\ At("ROUGH_THREE_AXIS_RW", 2) = 25
      /\ OpAt("ROUGH_THREE_AXIS_RW", 3) = "MTQ_UPDATE" /\ At("ROUGH_THREE_AXIS_RW", 3) = 40
      /\ OpAt("ROUGH_THREE_AXIS_RW", 4) = "RM3100" /\ At("ROUGH_THREE_AXIS_RW", 4) = 45
      /\ OpAt("ROUGH_THREE_AXIS_RW", 5) = "TORQUE" /\ At("ROUGH_THREE_AXIS_RW", 5) = 78
      /\ OpAt("ROUGH_THREE_AXIS_RW", 6) = "MTQ_UPDATE" /\ At("ROUGH_THREE_AXIS_RW", 6) = 90
  BY <1>1 DEF OpAt, At, TL_ROUGH_THREE_AXIS_RW, Entry
<1>4. 1 .. 6 = {1, 2, 3, 4, 5, 6}
  OBVIOUS
<1>5. \A p \in 1 .. 6 : OpAt("ROUGH_THREE_AXIS_RW", p) = "MTQ_UPDATE" => p \in {3, 6}
  BY <1>3, <1>4
<1>6. /\ At("ROUGH_THREE_AXIS_RW", 3) \in 40 .. 95
      /\ ~NotRead("MPU9250", "ROUGH_THREE_AXIS_RW", 1, 3 - 1)
      /\ NotRead("RM3100", "ROUGH_THREE_AXIS_RW", 1, 3 - 1) => At("ROUGH_THREE_AXIS_RW", 3) <= 40
      /\ NotRead("RM3100", "ROUGH_THREE_AXIS_RW", 3 + 1, 6) => At("ROUGH_THREE_AXIS_RW", 3) >= 45
  <2>1. 2 \in 1 .. 3 - 1 /\ 4 \in 3 + 1 .. 6
    OBVIOUS
  <2> QED
    BY <1>3, <2>1 DEF NotRead
<1>7. /\ At("ROUGH_THREE_AXIS_RW", 6) \in 40 .. 95
      /\ ~NotRead("MPU9250", "ROUGH_THREE_AXIS_RW", 1, 6 - 1)
      /\ NotRead("RM3100", "ROUGH_THREE_AXIS_RW", 1, 6 - 1) => At("ROUGH_THREE_AXIS_RW", 6) <= 40
      /\ NotRead("RM3100", "ROUGH_THREE_AXIS_RW", 6 + 1, 6) => At("ROUGH_THREE_AXIS_RW", 6) >= 45
  <2>1. 2 \in 1 .. 6 - 1 /\ 4 \in 1 .. 6 - 1
    OBVIOUS
  <2> QED
    BY <1>3, <2>1 DEF NotRead
<1>8. UpdatesAt("ROUGH_THREE_AXIS_RW")
  BY <1>2, <1>5, <1>6, <1>7 DEF UpdatesAt
<1>9. ReadsAllIn("ROUGH_THREE_AXIS_RW")
  BY <1>2, <1>3, <1>4 DEF ReadsAllIn, Flight
<1>10. LawsAreHeardIn("ROUGH_THREE_AXIS_RW")
  <2>1. \A r \in 1 .. 6 : OpAt("ROUGH_THREE_AXIS_RW", r) \in Laws => r = 5
    BY <1>3, <1>4 DEF Laws
  <2>2. 6 \in 5 + 1 .. 6 /\ OpAt("ROUGH_THREE_AXIS_RW", 6) \in ControllerRuns
    BY <1>3 DEF ControllerRuns
  <2> QED
    BY <1>2, <2>1, <2>2 DEF LawsAreHeardIn
<1>11. UpdatesEnd("ROUGH_THREE_AXIS_RW")
  <2>1. \A p \in 1 .. 6 : At("ROUGH_THREE_AXIS_RW", p) <= 95 /\ (p <= 3 => At("ROUGH_THREE_AXIS_RW", p) <= 45)
    BY <1>3, <1>4
  <2>2. \A p \in 1 .. 6 : ~(p <= 3) => 3 \in 1 .. p - 1
    OBVIOUS
  <2>3. OpAt("ROUGH_THREE_AXIS_RW", 3) = "MTQ_UPDATE" /\ OpAt("ROUGH_THREE_AXIS_RW", 6) = "MTQ_UPDATE" /\ At("ROUGH_THREE_AXIS_RW", 6) >= 90
    BY <1>3
  <2> QED
    BY <1>2, <2>1, <2>2, <2>3 DEF UpdatesEnd, NotRead
<1>12. NoBdot("ROUGH_THREE_AXIS_RW")
  BY <1>2, <1>3, <1>4 DEF NoBdot
<1> QED
  BY <1>8, <1>9, <1>10, <1>11, <1>12

LEMMA FineThreeAxisList ==
    ASSUME Flight
    PROVE  UpdatesAt("FINE_THREE_AXIS") /\ ReadsAllIn("FINE_THREE_AXIS") /\ LawsAreHeardIn("FINE_THREE_AXIS")
           /\ UpdatesEnd("FINE_THREE_AXIS") /\ NoBdot("FINE_THREE_AXIS")
<1>1. TaskLists["FINE_THREE_AXIS"] = TL_FINE_THREE_AXIS
  BY DEF Flight, ModeList
<1>2. LastPlace("FINE_THREE_AXIS") = 6
  BY <1>1 DEF LastPlace, TL_FINE_THREE_AXIS, Entry
<1>3. /\ OpAt("FINE_THREE_AXIS", 1) = "CDH" /\ At("FINE_THREE_AXIS", 1) = 0
      /\ OpAt("FINE_THREE_AXIS", 2) = "MPU9250" /\ At("FINE_THREE_AXIS", 2) = 25
      /\ OpAt("FINE_THREE_AXIS", 3) = "RM3100" /\ At("FINE_THREE_AXIS", 3) = 36
      /\ OpAt("FINE_THREE_AXIS", 4) = "MTQ_UPDATE" /\ At("FINE_THREE_AXIS", 4) = 45
      /\ OpAt("FINE_THREE_AXIS", 5) = "TORQUE" /\ At("FINE_THREE_AXIS", 5) = 84
      /\ OpAt("FINE_THREE_AXIS", 6) = "MTQ_UPDATE" /\ At("FINE_THREE_AXIS", 6) = 95
  BY <1>1 DEF OpAt, At, TL_FINE_THREE_AXIS, Entry
<1>4. 1 .. 6 = {1, 2, 3, 4, 5, 6}
  OBVIOUS
<1>5. \A p \in 1 .. 6 : OpAt("FINE_THREE_AXIS", p) = "MTQ_UPDATE" => p \in {4, 6}
  BY <1>3, <1>4
<1>6. /\ At("FINE_THREE_AXIS", 4) \in 40 .. 95
      /\ ~NotRead("MPU9250", "FINE_THREE_AXIS", 1, 4 - 1)
      /\ NotRead("RM3100", "FINE_THREE_AXIS", 1, 4 - 1) => At("FINE_THREE_AXIS", 4) <= 40
      /\ NotRead("RM3100", "FINE_THREE_AXIS", 4 + 1, 6) => At("FINE_THREE_AXIS", 4) >= 45
  <2>1. 2 \in 1 .. 4 - 1 /\ 3 \in 1 .. 4 - 1
    OBVIOUS
  <2> QED
    BY <1>3, <2>1 DEF NotRead
<1>7. /\ At("FINE_THREE_AXIS", 6) \in 40 .. 95
      /\ ~NotRead("MPU9250", "FINE_THREE_AXIS", 1, 6 - 1)
      /\ NotRead("RM3100", "FINE_THREE_AXIS", 1, 6 - 1) => At("FINE_THREE_AXIS", 6) <= 40
      /\ NotRead("RM3100", "FINE_THREE_AXIS", 6 + 1, 6) => At("FINE_THREE_AXIS", 6) >= 45
  <2>1. 2 \in 1 .. 6 - 1 /\ 3 \in 1 .. 6 - 1
    OBVIOUS
  <2> QED
    BY <1>3, <2>1 DEF NotRead
<1>8. UpdatesAt("FINE_THREE_AXIS")
  BY <1>2, <1>5, <1>6, <1>7 DEF UpdatesAt
<1>9. ReadsAllIn("FINE_THREE_AXIS")
  BY <1>2, <1>3, <1>4 DEF ReadsAllIn, Flight
<1>10. LawsAreHeardIn("FINE_THREE_AXIS")
  <2>1. \A r \in 1 .. 6 : OpAt("FINE_THREE_AXIS", r) \in Laws => r = 5
    BY <1>3, <1>4 DEF Laws
  <2>2. 6 \in 5 + 1 .. 6 /\ OpAt("FINE_THREE_AXIS", 6) \in ControllerRuns
    BY <1>3 DEF ControllerRuns
  <2> QED
    BY <1>2, <2>1, <2>2 DEF LawsAreHeardIn
<1>11. UpdatesEnd("FINE_THREE_AXIS")
  <2>1. \A p \in 1 .. 6 : At("FINE_THREE_AXIS", p) <= 95 /\ (p <= 4 => At("FINE_THREE_AXIS", p) <= 45)
    BY <1>3, <1>4
  <2>2. \A p \in 1 .. 6 : ~(p <= 4) => 4 \in 1 .. p - 1
    OBVIOUS
  <2>3. OpAt("FINE_THREE_AXIS", 4) = "MTQ_UPDATE" /\ OpAt("FINE_THREE_AXIS", 6) = "MTQ_UPDATE" /\ At("FINE_THREE_AXIS", 6) >= 90
    BY <1>3
  <2> QED
    BY <1>2, <2>1, <2>2, <2>3 DEF UpdatesEnd, NotRead
<1>12. NoBdot("FINE_THREE_AXIS")
  BY <1>2, <1>3, <1>4 DEF NoBdot
<1> QED
  BY <1>8, <1>9, <1>10, <1>11, <1>12

\* Together: what holds of every list.
LEMMA AllLists ==
    ASSUME Flight, NEW m \in DOMAIN TaskLists
    PROVE  /\ UpdatesAt(m) /\ ReadsAllIn(m) /\ LawsAreHeardIn(m) /\ UpdatesEnd(m)
           /\ m # "BDOT" => NoBdot(m)
<1>1. m \in {"INITIAL", "BDOT", "ROUGH_SUN_POINTING", "ROUGH_THREE_AXIS",
             "ROUGH_THREE_AXIS_RW", "FINE_THREE_AXIS"}
  BY DEF Flight, ModeList
<1> QED
  BY <1>1, InitialList, BdotList, RoughSunPointingList, RoughThreeAxisList,
     RoughThreeAxisRwList, FineThreeAxisList

\* The order of the flight software's lists is the one that each property asks for.
LEMMA FlightOrder ==
    ASSUME Flight
    PROVE  SensorsBeforeBdot /\ ReadsAll /\ UpdatesAreNear /\ LawsAreHeard /\ BdotIsHeardFirst
<1>1. LastPlace("BDOT") = 8
  BY DEF Flight, ModeList, LastPlace, TL_BDOT, Entry
<1>2. /\ OpAt("BDOT", 1) = "CDH" /\ OpAt("BDOT", 2) = "MPU9250"
      /\ OpAt("BDOT", 3) = "MTQ_UPDATE" /\ OpAt("BDOT", 4) = "MPU9250"
      /\ OpAt("BDOT", 5) = "RM3100" /\ OpAt("BDOT", 6) = "BDOT"
      /\ OpAt("BDOT", 7) = "MTQ_CONTROLLER" /\ OpAt("BDOT", 8) = "MTQ_UPDATE"
  BY DEF Flight, ModeList, OpAt, TL_BDOT, Entry
<1>3. 1 .. 8 = {1, 2, 3, 4, 5, 6, 7, 8}
  OBVIOUS
<1>4. SensorsBeforeBdot
  <2> SUFFICES ASSUME NEW m \in DOMAIN TaskLists, NEW p \in 1 .. LastPlace(m),
                      OpAt(m, p) = "BDOT", NEW s \in Sensor
               PROVE  \E r \in 1 .. p - 1 :
                        OpAt(m, r) = s /\ \A q \in r + 1 .. p - 1 : OpAt(m, q) # "MTQ_UPDATE"
    BY DEF SensorsBeforeBdot
  <2>1. m = "BDOT" /\ p = 6
    <3>1. m = "BDOT"
      BY AllLists DEF NoBdot
    <3> QED
      BY <1>1, <1>2, <1>3, <3>1
  <2>2. 4 \in 1 .. p - 1 /\ 5 \in 1 .. p - 1 /\ 4 + 1 .. p - 1 = {5} /\ 5 + 1 .. p - 1 = {}
    BY <2>1
  <2>3. CASE s = "MPU9250"
    BY <1>2, <2>1, <2>2, <2>3
  <2>4. CASE s = "RM3100"
    BY <1>2, <2>1, <2>2, <2>4
  <2> QED
    BY <2>3, <2>4 DEF Flight
<1>5. ReadsAll
  BY AllLists DEF ReadsAll, ReadsAllIn
<1>6. LawsAreHeard
  BY AllLists DEF LawsAreHeard, LawsAreHeardIn
<1>7. BdotIsHeardFirst
  <2> SUFFICES ASSUME NEW p \in 1 .. 8, NEW r \in 1 .. p - 1,
                      OpAt("BDOT", p) = "MTQ_UPDATE", OpAt("BDOT", r) \in Laws
               PROVE  \E q \in r + 1 .. p - 1 : OpAt("BDOT", q) \in ControllerRuns
    BY <1>1 DEF BdotIsHeardFirst
  <2>1. r = 6 /\ p = 8
    <3>1. r \in 1 .. 8
      OBVIOUS
    <3>2. r = 6
      BY <1>2, <1>3, <3>1 DEF Laws
    <3> QED
      BY <1>2, <1>3, <3>2
  <2>2. 7 \in r + 1 .. p - 1
    BY <2>1
  <2> QED
    BY <1>2, <2>2 DEF ControllerRuns
<1>8. UpdatesAreNear
  <2> SUFFICES ASSUME NEW m \in DOMAIN TaskLists, NEW s \in Sensor,
                      NEW late1 \in Lateness, NEW late2 \in Lateness,
                      NEW p \in 1 .. LastPlace(m), OpAt(m, p) = "MTQ_UPDATE"
               PROVE  /\ \A q \in 1 .. p - 1 :
                           OpAt(m, q) = "MTQ_UPDATE" /\ NotRead(s, m, q + 1, p - 1)
                           => At(m, p) + late1 < At(m, q) + late2 + CycleLength
                      /\ \A n \in DOMAIN TaskLists : m \in {n} \cup Successors[n] =>
                           \A q \in 1 .. LastPlace(n) :
                             /\ OpAt(n, q) = "MTQ_UPDATE" /\ NotRead(s, n, q + 1, LastPlace(n))
                             /\ NotRead(s, m, 1, p - 1)
                             => At(m, p) + late1 < At(n, q) + late2
    BY DEF UpdatesAreNear
  <2>1. late1 \in 0 .. 4 /\ late2 \in 0 .. 4 /\ CycleLength = 100
    BY DEF Flight, CycleLength_ms
  <2>2. /\ At(m, p) \in 40 .. 95
        /\ ~NotRead("MPU9250", m, 1, p - 1)
        /\ NotRead("RM3100", m, 1, p - 1) => At(m, p) <= 40
    BY AllLists DEF UpdatesAt
  <2>3. ASSUME NEW q \in 1 .. p - 1, OpAt(m, q) = "MTQ_UPDATE"
        PROVE  At(m, p) + late1 < At(m, q) + late2 + CycleLength
    <3>1. q \in 1 .. LastPlace(m)
      BY AtType
    <3>2. At(m, q) \in 40 .. 95
      BY <2>3, <3>1, AllLists DEF UpdatesAt
    <3> QED
      BY <2>1, <2>2, <3>2
  <2>4. ASSUME NEW n \in DOMAIN TaskLists, NEW q \in 1 .. LastPlace(n),
               OpAt(n, q) = "MTQ_UPDATE", NotRead(s, n, q + 1, LastPlace(n)),
               NotRead(s, m, 1, p - 1)
        PROVE  At(m, p) + late1 < At(n, q) + late2
    <3>1. s = "RM3100"
      BY <2>2, <2>4 DEF Flight
    <3>2. At(m, p) <= 40
      BY <2>2, <2>4, <3>1
    <3>3. At(n, q) \in 40 .. 95 /\ At(n, q) >= 45
      BY <2>4, <3>1, AllLists DEF UpdatesAt
    <3> QED
      BY <2>1, <2>2, <3>2, <3>3
  <2> QED
    BY <2>3, <2>4
<1> QED
  BY <1>4, <1>5, <1>6, <1>7, <1>8

\* In flight B-dot only uses a field of the window it runs in, whatever the mode changes.
THEOREM BdotFieldIsOfThisWindow == ASSUME Flight PROVE Spec => []BdotUsesFieldOfThisWindow
  BY FlightOrder, BdotUsesField

\* In flight every OBSERVE window of a cycle or more has every magnetometer filtered,
\* although the lists run the timer at different times and two modes share a window.
THEOREM EveryWindowIsSampled == ASSUME Flight PROVE Spec => EveryWindowSampled
  BY FlightOrder, WindowsSampled

\* In flight, and without SET_OUTPUT_RATIO, a CONTROL window of the B-dot mode drives the
\* target of the OBSERVE window just over.
THEOREM LatestTargetIsDriven == ASSUME Flight, NoRatioCommand PROVE Spec => BdotDrivesLatestTarget
  BY FlightOrder, LatestTargetDriven

-----------------------------------------------------------------------------
(* The span of the torque integral. *)

\* The exclusive control is not disabled, the durations do not change, the clocks start
\* with a short gap, and no time step in a cycle resets the timer.
Undisturbed ==
    /\ DISABLE \notin EnableParams
    /\ DurationParams \cap Durations = {}
    /\ BootGaps \subseteq 0 .. 60
    /\ 2 * CycleLength <= AcceptableMaxTimeStep_ms

\* The longest gap that the flight lists leave between two runs of the timer.
LongestGap == 59

\* The steps since the cycle began.
InCycle == At(mode, pos) + late

\* What the integral will cover, and how far the window will have come, at this entry.
Span == integral_ms + since_integration_ms
Elapsed == state_timer_ms + since_mect_ms

\* The timer has not run since the loop was started.
JustBooted ==
    /\ NotRead("MTQ_UPDATE", mode, 1, pos - 1)
    /\ state = "STANDBY" /\ state_timer_ms = 0
    /\ Span <= since_mect_ms
    /\ since_mect_ms <= InCycle + 60

\* It last ran in this cycle, not before step 40, or in the last cycle, not before step 90.
Recent ==
    \/ JustBooted
    \/ NotRead("MTQ_UPDATE", mode, 1, pos - 1) /\ since_mect_ms <= InCycle + 10
    \/ ~NotRead("MTQ_UPDATE", mode, 1, pos - 1) /\ since_mect_ms <= InCycle - 40

\* A window overruns its duration by less than the gap between two runs of the timer.
Spanned ==
    /\ state = "CONTROL" => Span <= Elapsed
    /\ state = "STANDBY" => Span <= Elapsed + config["CONTROL"] + (LongestGap - 1)
    /\ state = "OBSERVE" =>
          Span <= Elapsed + config["CONTROL"] + config["STANDBY"] + 2 * (LongestGap - 1)

\* The integral will be reset when CONTROL begins.
ResetIsDue == state = "OBSERVE" => integrator_status = "COMPLETED"

Calm == is_enable = ENABLE /\ ~is_config_buffered

SpanInv == Calm /\ ResetIsDue /\ Recent /\ Spanned

LEMMA AtNat ==
    ASSUME NEW m \in DOMAIN TaskLists, NEW i \in 1 .. LastPlace(m) PROVE At(m, i) \in Nat
<1>1. TaskLists[m] \in Seq([at : 0 .. CycleLength - 1, op : STRING])
  BY TaskListAssumption
<1>2. TaskLists[m][i] \in [at : 0 .. CycleLength - 1, op : STRING]
  BY <1>1, ElementOfSeq DEF LastPlace
<1> QED
  BY <1>2 DEF At

\* Between its runs the timer waits no longer than the longest gap, except at boot.
LEMMA GapIsShort ==
    ASSUME Flight, TypeOK, Recent
    PROVE  /\ InCycle \in 0 .. 99
           /\ JustBooted => since_mect_ms <= 109
           /\ ~JustBooted => since_mect_ms <= LongestGap
           /\ since_mect_ms <= InCycle + 60
<1>1. mode \in DOMAIN TaskLists /\ pos \in 1 .. LastPlace(mode) /\ late \in 0 .. 4
  BY DEF TypeOK, LastPlace, Flight
<1>2. UpdatesEnd(mode)
  BY <1>1, AllLists
<1>3. /\ At(mode, pos) <= 95
      /\ NotRead("MTQ_UPDATE", mode, 1, pos - 1) => At(mode, pos) <= 45
  BY <1>1, <1>2 DEF UpdatesEnd
<1>4. At(mode, pos) \in Nat
  BY <1>1, AtNat
<1>5. since_mect_ms \in Nat
  BY DEF TypeOK
<1>6. InCycle = At(mode, pos) + late
  BY DEF InCycle
<1>7. CASE JustBooted
  BY <1>1, <1>3, <1>4, <1>5, <1>6, <1>7 DEF JustBooted
<1>8. CASE ~JustBooted
  BY <1>1, <1>3, <1>4, <1>5, <1>6, <1>8 DEF Recent, LongestGap
<1> QED
  BY <1>7, <1>8

LEMMA SpanInit == ASSUME Flight, Undisturbed PROVE Init => SpanInv
<1> SUFFICES ASSUME Init PROVE SpanInv
  OBVIOUS
<1>1. TypeOK
  BY TypeOKInit
<1>2. PICK gap \in BootGaps : /\ since_mect_ms = AtMost(AcceptableMaxTimeStep_ms + 1, gap)
                              /\ since_integration_ms = AtMost(DtLimit_ms + 1, gap)
  BY DEF Init
<1>3. gap \in 0 .. 60 /\ CycleLength = 100 /\ AcceptableMaxTimeStep_ms >= 200
  BY TimerAssumption DEF Undisturbed, Flight, CycleLength_ms
<1>4. since_mect_ms = gap /\ since_integration_ms <= gap
  <2>1. since_mect_ms = gap
    BY <1>2, <1>3, TimerAssumption DEF AtMost
  <2> QED
    BY <1>2, <1>3, <2>1, InputAssumption DEF AtMost
<1>5. InCycle \in Nat
  <2>1. mode \in DOMAIN TaskLists /\ pos \in 1 .. LastPlace(mode) /\ late \in Nat
    BY <1>1, TaskListAssumption DEF TypeOK, LastPlace
  <2> QED
    BY <2>1, AtNat DEF InCycle
<1>6. JustBooted
  BY <1>3, <1>4, <1>5, InputAssumption DEF Init, JustBooted, NotRead, Span, AtMost
<1>7. config["CONTROL"] \in Nat
  BY <1>1, TimerAssumption DEF TypeOK, Durations, Window
<1>8. Spanned
  BY <1>3, <1>4, <1>7, InputAssumption DEF Init, Spanned, Span, Elapsed, LongestGap, AtMost
<1> QED
  BY <1>6, <1>8 DEF SpanInv, Recent, Calm, ResetIsDue, Init, ENABLE

LEMMA PlusNothing == ASSUME NEW m \in 0 .. 99, NEW n \in 0 .. 99 PROVE m - n + 0 = m - n
OBVIOUS

LEMMA InnerGap ==
    ASSUME NEW a \in Nat, NEW here \in 0 .. 99, NEW there \in 0 .. 99, NEW gap,
           gap >= 0, gap = there - here, a <= here + 60
    PROVE  gap \in Nat /\ a + gap <= 200
OBVIOUS

LEMMA LastGap ==
    ASSUME NEW a \in Nat, NEW here \in 0 .. 99, NEW there \in 0 .. 99, NEW gap,
           gap >= 0, gap = there - here + 100, a = 0, here >= 90
    PROVE  gap \in Nat /\ a + gap <= 200
OBVIOUS

\* The next entry is some steps later, in this cycle or in the next one, and the last entry
\* of a cycle runs the timer.  No clock of the timer saturates.
LEMMA TimeGoesOn ==
    ASSUME Flight, Undisturbed, TypeOK, TypeOK', Recent, NEW a \in Nat, NEW b \in Nat,
           Advance(a, b), a = IF Op = "MTQ_UPDATE" THEN 0 ELSE since_mect_ms
    PROVE  \E gap \in Nat :
             /\ since_mect_ms' = a + gap
             /\ since_integration_ms' <= b + gap
             /\ \/ pos' = pos + 1 /\ mode' = mode /\ gap = InCycle' - InCycle
                \/ pos' = 1 /\ Op = "MTQ_UPDATE" /\ InCycle >= 90 /\ gap = InCycle' - InCycle + 100
<1>1. PICK place \in NextPlaces, l \in Lateness :
        /\ GapTo(place[1], place[2], l) >= 0
        /\ mode' = place[1]
        /\ pos' = place[2]
        /\ late' = l
        /\ since_mect_ms' = AtMost(AcceptableMaxTimeStep_ms + 1, a + GapTo(place[1], place[2], l))
        /\ since_integration_ms' = AtMost(DtLimit_ms + 1, b + GapTo(place[1], place[2], l))
  BY DEF Advance
<1> DEFINE gap == GapTo(place[1], place[2], l)
           here == InCycle
           there == InCycle'
<1>2. /\ mode \in DOMAIN TaskLists /\ pos \in 1 .. LastPlace(mode) /\ LastPlace(mode) \in Nat
      /\ mode' \in DOMAIN TaskLists /\ pos' \in 1 .. LastPlace(mode')
      /\ late \in 0 .. 4 /\ late' \in 0 .. 4
  BY AtType DEF TypeOK, LastPlace, Flight
<1>3. here \in 0 .. 99 /\ there \in 0 .. 99 /\ since_mect_ms <= here + 60
  <2>1. At(mode', pos') \in Nat /\ At(mode', pos') <= 95
    BY <1>2, AtNat, AllLists DEF UpdatesEnd
  <2>2. there = At(mode', pos') + late'
    BY DEF InCycle, At
  <2>3. there \in 0 .. 99
    BY <1>2, <2>1, <2>2
  <2> QED
    BY <2>3, GapIsShort
<1>4. /\ pos' = 1 => gap = there - here + 100
      /\ pos' # 1 => gap = there - here
  <2>1. gap = there - here + (IF pos' = 1 THEN CycleLength ELSE 0)
    BY <1>1, <1>2 DEF GapTo, InCycle, At
  <2>2. CycleLength = 100
    BY DEF Flight, CycleLength_ms
  <2> HIDE DEF gap, here, there
  <2>3. there - here + 0 = there - here
    BY <1>3, PlusNothing
  <2> QED
    BY <2>1, <2>2, <2>3
<1>5. \/ pos' = pos + 1 /\ mode' = mode /\ pos' # 1
      \/ pos' = 1 /\ Op = "MTQ_UPDATE" /\ here >= 90
  <2>1. CASE pos < LastPlace(mode) /\ mode' = mode /\ pos' = pos + 1
    BY <1>2, <2>1
  <2>2. CASE pos = LastPlace(mode) /\ pos' = 1
    <3>1. OpAt(mode, pos) = "MTQ_UPDATE" /\ At(mode, pos) >= 90
      BY <1>2, <2>2, AllLists DEF UpdatesEnd
    <3> QED
      BY <1>2, <2>2, <3>1, AtNat DEF OpAt, Op, InCycle
  <2> QED
    BY <2>1, <2>2, Moves
<1>6. since_mect_ms' = AtMost(AcceptableMaxTimeStep_ms + 1, a + gap)
      /\ since_integration_ms' = AtMost(DtLimit_ms + 1, b + gap) /\ gap >= 0
  BY <1>1
<1> HIDE DEF gap, here, there
<1>7. AcceptableMaxTimeStep_ms \in Nat /\ AcceptableMaxTimeStep_ms >= 200
  BY TimerAssumption DEF Undisturbed, Flight, CycleLength_ms
<1>8. gap \in Nat /\ a + gap <= 200
  <2>1. CASE pos' = 1
    <3>1. a = 0 /\ here >= 90 /\ gap = there - here + 100
      BY <1>2, <1>4, <1>5, <2>1
    <3> QED
      BY <1>3, <1>6, <3>1, LastGap
  <2>2. CASE pos' # 1
    <3>1. a <= here + 60
      <4>1. CASE Op = "MTQ_UPDATE"
        <5>1. 0 <= here + 60
          BY <1>3
        <5> QED
          BY <4>1, <5>1
      <4>2. CASE Op # "MTQ_UPDATE"
        BY <1>3, <4>2
      <4> QED
        BY <4>1, <4>2
    <3>2. gap = there - here
      BY <1>4, <2>2
    <3> QED
      BY <1>3, <1>6, <3>1, <3>2, InnerGap
  <2> QED
    BY <2>1, <2>2
<1>9. since_mect_ms' = a + gap
  BY <1>6, <1>7, <1>8 DEF AtMost
<1>10. since_integration_ms' <= b + gap
  BY <1>6, <1>8, AtMostBounds, InputAssumption
<1>11. \/ pos' = pos + 1 /\ mode' = mode /\ gap = InCycle' - InCycle
       \/ pos' = 1 /\ Op = "MTQ_UPDATE" /\ InCycle >= 90 /\ gap = InCycle' - InCycle + 100
  BY <1>3, <1>4, <1>5 DEF here, there
<1> QED
  BY <1>8, <1>9, <1>10, <1>11

\* A run of the controller adds at most the time since the last one.
LEMMA IntegralRun ==
    ASSUME TypeOK, NEW s \in Window, NEW t, NEW c, ControllerExec(s, t, c)
    PROVE  /\ integral_ms' <= Span
           /\ s = "CONTROL" /\ integrator_status = "COMPLETED" => integral_ms' = 0
           /\ s = "OBSERVE" => integrator_status' = "COMPLETED"
<1>1. integral_ms \in Nat /\ since_integration_ms \in Nat /\ Span = integral_ms + since_integration_ms
  BY DEF TypeOK, Span
<1>2. 0 <= Span /\ Integrated <= Span
  <2>1. integral_ms + since_integration_ms \in Nat /\ 0 <= Span
    BY <1>1
  <2>2. AtMost(IntegralCap_ms, integral_ms + since_integration_ms) <= Span
    BY <1>1, <2>1, AtMostBounds, InputAssumption
  <2> QED
    BY <2>1, <2>2 DEF Integrated
<1> QED
  BY <1>2 DEF ControllerExec

\* Sums of the clocks, when they go on.
LEMMA ClocksAdd ==
    ASSUME NEW t \in Nat, NEW age \in Nat, NEW age2 \in Nat, NEW i \in Nat, NEW i2 \in Nat,
           NEW si \in Nat, NEW si2 \in Nat, NEW b \in Nat, NEW gap \in Nat, NEW room \in Int,
           age2 = age + gap, si2 <= b + gap, i2 + b <= i + si, i + si <= (t + age) + room
    PROVE  i2 + si2 <= (t + age2) + room
OBVIOUS

\* What the clocks are.
LEMMA ClockTypes ==
    ASSUME TypeOK
    PROVE  /\ integral_ms \in Nat /\ since_integration_ms \in Nat /\ Span \in Nat
           /\ state_timer_ms \in Nat /\ since_mect_ms \in Nat /\ Elapsed \in Nat
           /\ \A w \in Window : config[w] \in Nat
           /\ pos \in Nat
<1>1. /\ integral_ms \in Nat /\ since_integration_ms \in Nat
      /\ state_timer_ms \in Nat /\ since_mect_ms \in Nat /\ pos \in Nat
  BY TimerAssumption DEF TypeOK
<1>2. \A w \in Window : config[w] \in Nat
  BY TimerAssumption DEF TypeOK, Durations
<1> QED
  BY <1>1, <1>2 DEF Span, Elapsed

\* An entry that does not run the timer.
LEMMA WaitStep ==
    ASSUME Flight, Undisturbed, TypeOK, TypeOK', SpanInv, Op # "MTQ_UPDATE",
           UNCHANGED <<state, state_timer_ms, is_enable, is_config_buffered, config>>,
           NEW b \in Nat, Advance(since_mect_ms, b), integral_ms' + b <= Span, ResetIsDue'
    PROVE  SpanInv'
<1>1. since_mect_ms \in Nat
  BY DEF TypeOK
<1>2. Recent
  BY DEF SpanInv
<1>3. PICK gap \in Nat : /\ since_mect_ms' = since_mect_ms + gap
                         /\ since_integration_ms' <= b + gap
                         /\ pos' = pos + 1 /\ mode' = mode /\ gap = InCycle' - InCycle
  BY <1>1, <1>2, TimeGoesOn
<1>4. /\ integral_ms \in Nat /\ since_integration_ms \in Nat
      /\ integral_ms' \in Nat /\ since_integration_ms' \in Nat
      /\ state_timer_ms \in Nat /\ since_mect_ms' \in Nat
      /\ \A w \in Window : config[w] \in Nat
      /\ pos \in Nat
  BY ClockTypes, TimerAssumption DEF TypeOK
<1>8. Elapsed' = state_timer_ms + since_mect_ms' /\ Elapsed' \in Nat
  <2>1. Elapsed' = state_timer_ms + since_mect_ms'
    BY DEF Elapsed
  <2>2. state_timer_ms + since_mect_ms' \in Nat
    BY <1>4, PlusNat
  <2> QED
    BY <2>1, <2>2
<1>5. ASSUME NEW room \in Int, Span <= Elapsed + room
      PROVE  Span' <= Elapsed' + room
  <2>1. integral_ms + since_integration_ms <= (state_timer_ms + since_mect_ms) + room
    BY <1>5 DEF Span, Elapsed
  <2>2. integral_ms' + b <= integral_ms + since_integration_ms
    BY DEF Span
  <2>3. integral_ms' + since_integration_ms' <= (state_timer_ms + since_mect_ms') + room
    BY <1>1, <1>3, <1>4, <2>1, <2>2, ClocksAdd
  <2> QED
    BY <2>3 DEF Span, Elapsed
<1>6. Spanned'
  <2>1. config["CONTROL"] \in Nat /\ config["STANDBY"] \in Nat
    BY <1>4 DEF Window
  <2>2. CASE state = "CONTROL"
    <3>1. Span <= Elapsed + 0
      <4>1. Span <= Elapsed /\ Elapsed \in Nat
        BY <2>2, ClockTypes DEF SpanInv, Spanned
      <4> QED
        BY <4>1, PlusZero
    <3>2. Span' <= Elapsed' + 0
      BY <1>5, <3>1
    <3>3. Elapsed' \in Nat
      BY <1>8
    <3>4. Span' <= Elapsed'
      BY <3>2, <3>3, PlusZero
    <3> QED
      BY <2>2, <3>4 DEF Spanned
  <2>3. CASE state = "STANDBY"
    <3> DEFINE room == config["CONTROL"] + (LongestGap - 1)
    <3>1. room \in Int
      BY <2>1 DEF LongestGap
    <3>2. Span <= Elapsed + room
      BY <2>1, <2>3, ClockTypes DEF SpanInv, Spanned, LongestGap
    <3> HIDE DEF room
    <3>3. Span' <= Elapsed' + room
      BY <1>5, <3>1, <3>2
    <3>4. Elapsed' \in Nat
      BY <1>8
    <3>5. Span' <= Elapsed' + config["CONTROL"] + (LongestGap - 1)
      BY <2>1, <3>3, <3>4 DEF room, LongestGap
    <3> QED
      BY <2>3, <3>5 DEF Spanned
  <2>4. CASE state = "OBSERVE"
    <3> DEFINE room == config["CONTROL"] + config["STANDBY"] + 2 * (LongestGap - 1)
    <3>1. room \in Int
      BY <2>1 DEF LongestGap
    <3>2. Span <= Elapsed + room
      BY <2>1, <2>4, ClockTypes DEF SpanInv, Spanned, LongestGap
    <3> HIDE DEF room
    <3>3. Span' <= Elapsed' + room
      BY <1>5, <3>1, <3>2
    <3>4. Elapsed' \in Nat
      BY <1>8
    <3>5. Span' <= Elapsed' + config["CONTROL"] + config["STANDBY"] + 2 * (LongestGap - 1)
      BY <2>1, <3>3, <3>4 DEF room, LongestGap
    <3> QED
      BY <2>4, <3>5 DEF Spanned
  <2> QED
    BY <2>2, <2>3, <2>4 DEF TypeOK, Window
<1>7. Recent'
  <2> DEFINE here == InCycle
             there == InCycle'
  <2>1. NotRead("MTQ_UPDATE", mode, 1, pos' - 1) <=> NotRead("MTQ_UPDATE", mode, 1, pos - 1)
    <3>1. pos' - 1 = pos
      BY <1>3, <1>4
    <3>2. \A r \in 1 .. pos : r \in 1 .. pos - 1 \/ r = pos
      BY <1>4
    <3>3. \A r \in 1 .. pos - 1 : r \in 1 .. pos
      BY <1>4
    <3>4. OpAt(mode, pos) # "MTQ_UPDATE"
      BY DEF Op, OpAt
    <3> QED
      BY <3>1, <3>2, <3>3, <3>4 DEF NotRead
  <2>2. NotRead("MTQ_UPDATE", mode, 1, pos - 1)' <=> NotRead("MTQ_UPDATE", mode, 1, pos - 1)
    BY <1>3, <2>1 DEF NotRead, OpAt
  <2>3. here \in Int /\ there \in Int
    <3>1. /\ mode \in DOMAIN TaskLists /\ pos \in 1 .. LastPlace(mode) /\ late \in 0 .. 4
          /\ mode' \in DOMAIN TaskLists /\ pos' \in 1 .. LastPlace(mode') /\ late' \in 0 .. 4
      BY DEF TypeOK, LastPlace, Flight
    <3>2. At(mode, pos) \in Nat /\ At(mode', pos') \in Nat
      BY <3>1, AtNat
    <3> QED
      BY <3>1, <3>2 DEF InCycle, At
  <2>4. since_mect_ms' = since_mect_ms + (there - here)
    BY <1>3
  <2> HIDE DEF here, there
  <2>5. ASSUME NEW n \in Int, since_mect_ms <= here + n PROVE since_mect_ms' <= there + n
    BY <1>1, <2>3, <2>4, <2>5
  <2>6. CASE JustBooted
    <3>1. state = "STANDBY" /\ state_timer_ms = 0 /\ Span <= since_mect_ms /\ since_mect_ms <= here + 60
      BY <2>6 DEF JustBooted, here
    <3>2. Span' <= since_mect_ms'
      <4>1. Span <= Elapsed + 0
        <5>1. Elapsed = since_mect_ms /\ Elapsed \in Nat
          BY <1>1, <3>1 DEF Elapsed
        <5> QED
          BY <3>1, <5>1, PlusZero
      <4>2. Span' <= Elapsed' + 0
        BY <1>5, <4>1
      <4>3. Elapsed' = 0 + since_mect_ms' /\ Elapsed' \in Nat /\ 0 + since_mect_ms' = since_mect_ms'
        BY <1>4, <1>8, <3>1, PlusZero
      <4> QED
        BY <4>2, <4>3, PlusZero
    <3>3. since_mect_ms' <= there + 60
      BY <2>5, <3>1
    <3> QED
      BY <2>2, <2>6, <3>1, <3>2, <3>3 DEF Recent, JustBooted, there
  <2>7. CASE NotRead("MTQ_UPDATE", mode, 1, pos - 1) /\ since_mect_ms <= InCycle + 10
    <3>1. since_mect_ms' <= there + 10
      BY <2>5, <2>7 DEF here
    <3> QED
      BY <2>2, <2>7, <3>1 DEF Recent, there
  <2>8. CASE ~NotRead("MTQ_UPDATE", mode, 1, pos - 1) /\ since_mect_ms <= InCycle - 40
    <3>1. since_mect_ms <= here + (-40)
      BY <2>3, <2>8 DEF here
    <3>2. since_mect_ms' <= there + (-40)
      BY <2>5, <3>1
    <3>3. since_mect_ms' <= there - 40
      BY <2>3, <3>2
    <3> QED
      BY <2>2, <2>8, <3>3 DEF Recent, there
  <2> QED
    BY <1>2, <2>6, <2>7, <2>8 DEF Recent
<1> QED
  BY <1>6, <1>7 DEF SpanInv, Calm

\* The timer when nothing disturbs it.
LEMMA CalmTimer ==
    ASSUME TypeOK, Calm, MectExec, since_mect_ms <= AcceptableMaxTimeStep_ms
    PROVE  /\ Calm' /\ config' = config
           /\ \/ Elapsed < config[state] /\ state_timer_ms' = Elapsed /\ state' = state
              \/ state_timer_ms' = 0 /\ state' = NextWindow(state)
<1>1. since_mect_ms \in Nat /\ state_timer_ms \in Nat /\ AcceptableMaxTimeStep_ms \in Nat
  BY TimerAssumption DEF TypeOK
<1>2. UpdateTimer(since_mect_ms) = Elapsed
  BY <1>1, WatchdogNeverFires DEF Elapsed
<1>3. is_enable # DISABLE /\ ~is_config_buffered
  BY DEF Calm, ENABLE, DISABLE
<1>4. /\ config' = config /\ is_enable' = is_enable /\ ~is_config_buffered'
      /\ state_timer_ms' = IF Over(Elapsed, config[state]) THEN 0 ELSE Elapsed
      /\ state' = IF Over(Elapsed, config[state]) THEN NextWindow(state) ELSE state
  BY <1>2, <1>3 DEF MectExec
<1>5. Elapsed \in Nat /\ config[state] \in Nat
  BY ClockTypes DEF TypeOK
<1>6. CASE Over(Elapsed, config[state])
  BY <1>4, <1>6 DEF Calm
<1>7. CASE ~Over(Elapsed, config[state])
  <2>1. Elapsed < config[state]
    BY <1>5, <1>7 DEF Over
  <2> QED
    BY <1>4, <1>7, <2>1 DEF Calm
<1> QED
  BY <1>6, <1>7

\* Bounds when a window is over.
LEMMA WindowAdds ==
    ASSUME NEW t \in Nat, NEW age \in Nat, NEW span \in Nat, NEW length \in Nat, NEW room \in Nat,
           NEW i2 \in Nat, NEW si2 \in Nat, NEW gap \in Nat,
           t < length, age <= LongestGap, span <= (t + age) + room, i2 <= span, si2 <= gap
    PROVE  i2 + si2 <= gap + (room + length + (LongestGap - 1))
BY DEF LongestGap

LEMMA TimerSpan ==
    ASSUME Flight, Undisturbed, TypeOK, TypeOK', TimerInsideWindow, SpanInv, MtqUpdate
    PROVE  SpanInv'
<1> DEFINE cC == config["CONTROL"]
           cS == config["STANDBY"]
<1>1. /\ Op = "MTQ_UPDATE" /\ MectExec /\ Advance(0, 0)
      /\ ControllerExec(state', state_timer_ms', config'["CONTROL"])
  BY DEF MtqUpdate
<1>2. Recent /\ Calm /\ Spanned /\ ResetIsDue
  BY DEF SpanInv
<1>3. /\ integral_ms \in Nat /\ since_integration_ms \in Nat /\ Span \in Nat
      /\ state_timer_ms \in Nat /\ since_mect_ms \in Nat /\ Elapsed \in Nat
      /\ cC \in Nat /\ cS \in Nat /\ config[state] \in Nat
      /\ pos \in Nat /\ state \in Window /\ state' \in Window
      /\ integral_ms' \in Nat /\ since_integration_ms' \in Nat
  BY ClockTypes DEF TypeOK, Window
<1>4. /\ JustBooted => since_mect_ms <= 109
      /\ ~JustBooted => since_mect_ms <= LongestGap
  BY <1>2, GapIsShort
<1>5. since_mect_ms <= AcceptableMaxTimeStep_ms
  BY <1>3, <1>4, TimerAssumption DEF Undisturbed, Flight, CycleLength_ms, LongestGap
<1>6. /\ Calm' /\ config' = config
      /\ \/ Elapsed < config[state] /\ state_timer_ms' = Elapsed /\ state' = state
         \/ state_timer_ms' = 0 /\ state' = NextWindow(state)
  BY <1>1, <1>2, <1>5, CalmTimer
<1>7. PICK gap \in Nat :
        /\ since_mect_ms' = 0 + gap
        /\ since_integration_ms' <= 0 + gap
        /\ \/ pos' = pos + 1 /\ mode' = mode /\ gap = InCycle' - InCycle
           \/ pos' = 1 /\ Op = "MTQ_UPDATE" /\ InCycle >= 90 /\ gap = InCycle' - InCycle + 100
  BY <1>1, <1>2, TimeGoesOn
<1>8. since_mect_ms' = gap /\ since_integration_ms' <= gap
  BY <1>7, PlusZero
<1>9. /\ integral_ms' <= Span
      /\ state' = "CONTROL" /\ integrator_status = "COMPLETED" => integral_ms' = 0
      /\ state' = "OBSERVE" => integrator_status' = "COMPLETED"
  <2> DEFINE s == state'
             t == state_timer_ms'
             c == config'["CONTROL"]
  <2>1. s \in Window /\ ControllerExec(s, t, c)
    BY <1>1, <1>3
  <2> HIDE DEF s, t, c
  <2>2. /\ integral_ms' <= Span
        /\ s = "CONTROL" /\ integrator_status = "COMPLETED" => integral_ms' = 0
        /\ s = "OBSERVE" => integrator_status' = "COMPLETED"
    BY <2>1, IntegralRun
  <2> QED
    BY <2>2 DEF s
<1>10. Span' = integral_ms' + since_integration_ms' /\ Elapsed' = state_timer_ms' + gap
  BY <1>8 DEF Span, Elapsed
<1>11. Spanned'
  <2>1. CASE Elapsed < config[state] /\ state_timer_ms' = Elapsed /\ state' = state
    <3>1. ASSUME NEW room \in Int, Span <= Elapsed + room
          PROVE  Span' <= Elapsed' + room
      <4> DEFINE i2 == integral_ms'
                 si2 == since_integration_ms'
                 span == Span
                 e == Elapsed
      <4>1. i2 \in Nat /\ si2 \in Nat /\ i2 <= span /\ si2 <= gap /\ span <= e + room
            /\ span \in Nat /\ e \in Nat
        BY <1>3, <1>8, <1>9, <3>1
      <4>2. Span' = i2 + si2 /\ Elapsed' = e + gap
        BY <1>10, <2>1
      <4> HIDE DEF i2, si2, span, e
      <4>3. i2 + si2 <= (e + gap) + room
        BY <4>1
      <4> QED
        BY <4>2, <4>3
    <3>2. Elapsed' \in Nat
      BY <1>3, <1>10, <2>1, PlusNat
    <3>3. CASE state = "CONTROL"
      <4>1. Span <= Elapsed + 0
        BY <1>2, <1>3, <3>3, PlusZero DEF Spanned
      <4>2. Span' <= Elapsed' + 0
        BY <3>1, <4>1
      <4>3. Span' <= Elapsed'
        BY <3>2, <4>2, PlusZero
      <4> QED
        BY <2>1, <3>3, <4>3 DEF Spanned
    <3>4. CASE state = "STANDBY"
      <4> DEFINE room == cC + (LongestGap - 1)
      <4>1. room \in Int /\ Span <= Elapsed + room
        BY <1>2, <1>3, <3>4 DEF Spanned, LongestGap
      <4> HIDE DEF room
      <4>2. Span' <= Elapsed' + room
        BY <3>1, <4>1
      <4>3. Span' <= Elapsed' + cC + (LongestGap - 1)
        BY <1>3, <3>2, <4>2 DEF room, LongestGap
      <4> QED
        BY <1>6, <2>1, <3>4, <4>3 DEF Spanned
    <3>5. CASE state = "OBSERVE"
      <4> DEFINE room == cC + cS + 2 * (LongestGap - 1)
      <4>1. room \in Int /\ Span <= Elapsed + room
        BY <1>2, <1>3, <3>5 DEF Spanned, LongestGap
      <4> HIDE DEF room
      <4>2. Span' <= Elapsed' + room
        BY <3>1, <4>1
      <4>3. Span' <= Elapsed' + cC + cS + 2 * (LongestGap - 1)
        BY <1>3, <3>2, <4>2 DEF room, LongestGap
      <4> QED
        BY <1>6, <2>1, <3>5, <4>3 DEF Spanned
    <3> QED
      BY <1>3, <3>3, <3>4, <3>5 DEF Window
  <2>2. CASE state_timer_ms' = 0 /\ state' = NextWindow(state)
    <3>1. Elapsed' = gap
      BY <1>10, <2>2, PlusZero
    <3>2. state_timer_ms < config[state]
      BY DEF TimerInsideWindow
    <3>3. CASE state = "OBSERVE"
      <4>1. state' = "CONTROL" /\ integral_ms' = 0
        BY <1>2, <1>9, <2>2, <3>3 DEF NextWindow, ResetIsDue
      <4>2. Span' <= gap
        BY <1>3, <1>8, <1>10, <4>1, PlusZero
      <4> QED
        BY <3>1, <4>1, <4>2 DEF Spanned
    <3>4. CASE state = "CONTROL"
      <4>1. state' = "STANDBY"
        BY <2>2, <3>4 DEF NextWindow
      <4>2. since_mect_ms <= LongestGap
        BY <1>4, <3>4 DEF JustBooted
      <4>3. Span <= (state_timer_ms + since_mect_ms) + 0
        <5>1. Span <= Elapsed + 0
          BY <1>2, <1>3, <3>4, PlusZero DEF Spanned
        <5> QED
          BY <5>1 DEF Elapsed
      <4>4. integral_ms' + since_integration_ms' <= gap + (0 + cC + (LongestGap - 1))
        BY <1>3, <1>8, <1>9, <3>2, <3>4, <4>2, <4>3, WindowAdds
      <4>5. Span' <= Elapsed' + config["CONTROL"] + (LongestGap - 1)
        <5>1. gap + (0 + cC + (LongestGap - 1)) = gap + cC + (LongestGap - 1)
          BY <1>3 DEF LongestGap
        <5> QED
          BY <1>10, <3>1, <4>4, <5>1
      <4> QED
        BY <1>6, <4>1, <4>5 DEF Spanned
    <3>5. CASE state = "STANDBY"
      <4>1. state' = "OBSERVE"
        BY <2>2, <3>5 DEF NextWindow
      <4>2. integral_ms' + since_integration_ms' <= gap + (cC + cS + 2 * (LongestGap - 1))
        <5>1. CASE ~JustBooted
          <6> DEFINE room == cC + (LongestGap - 1)
          <6>1. room \in Nat
            BY <1>3 DEF LongestGap
          <6>2. Span <= (state_timer_ms + since_mect_ms) + room
            <7>1. Span <= Elapsed + cC + (LongestGap - 1)
              BY <1>2, <3>5 DEF Spanned
            <7>2. Elapsed + cC + (LongestGap - 1) = Elapsed + room
              BY <1>3 DEF LongestGap
            <7> QED
              BY <7>1, <7>2 DEF Elapsed
          <6> HIDE DEF room
          <6>3. integral_ms' + since_integration_ms' <= gap + (room + cS + (LongestGap - 1))
            BY <1>3, <1>4, <1>8, <1>9, <3>2, <3>5, <5>1, <6>1, <6>2, WindowAdds
          <6>4. room + cS + (LongestGap - 1) = cC + cS + 2 * (LongestGap - 1)
            BY <1>3 DEF room, LongestGap
          <6> QED
            BY <6>3, <6>4
        <5>2. CASE JustBooted
          <6> DEFINE i2 == integral_ms'
                     si2 == since_integration_ms'
                     span == Span
                     age == since_mect_ms
          <6>1. /\ i2 \in Nat /\ si2 \in Nat /\ span \in Nat /\ age \in Nat
                /\ i2 <= span /\ si2 <= gap /\ span <= age /\ age <= 109
            BY <1>3, <1>4, <1>8, <1>9, <5>2 DEF JustBooted
          <6> HIDE DEF i2, si2, span, age
          <6>2. i2 + si2 <= gap + (cC + cS + 2 * (LongestGap - 1))
            BY <1>3, <6>1 DEF LongestGap
          <6> QED
            BY <6>2 DEF i2, si2
        <5> QED
          BY <5>1, <5>2
      <4>3. Span' <= Elapsed' + config["CONTROL"] + config["STANDBY"] + 2 * (LongestGap - 1)
        <5>1. gap + (cC + cS + 2 * (LongestGap - 1)) = gap + cC + cS + 2 * (LongestGap - 1)
          BY <1>3 DEF LongestGap
        <5> QED
          BY <1>10, <3>1, <4>2, <5>1
      <4> QED
        BY <1>6, <4>1, <4>3 DEF Spanned
    <3> QED
      BY <1>3, <3>3, <3>4, <3>5 DEF Window
  <2> QED
    BY <1>6, <2>1, <2>2
<1>12. Recent'
  <2> DEFINE here == InCycle
             there == InCycle'
  <2>1. /\ mode \in DOMAIN TaskLists /\ pos \in 1 .. LastPlace(mode) /\ late \in 0 .. 4
        /\ mode' \in DOMAIN TaskLists /\ pos' \in 1 .. LastPlace(mode') /\ late' \in 0 .. 4
    BY DEF TypeOK, LastPlace, Flight
  <2>2. here \in Nat /\ there \in Nat /\ here >= 40
    <3>1. At(mode, pos) \in Nat /\ At(mode', pos') \in Nat
      BY <2>1, AtNat
    <3>2. At(mode, pos) \in 40 .. 95
      BY <1>1, <2>1, AllLists DEF UpdatesAt, Op, OpAt
    <3>3. there = At(mode', pos') + late'
      BY DEF InCycle, At
    <3>4. there \in Nat
      BY <2>1, <3>1, <3>3
    <3> QED
      BY <2>1, <3>2, <3>4 DEF InCycle
  <2>3. CASE pos' = pos + 1 /\ mode' = mode /\ gap = InCycle' - InCycle
    <3>1. since_mect_ms' = there - here
      BY <1>8, <2>3
    <3> HIDE DEF here, there
    <3>2. since_mect_ms' <= there - 40
      BY <2>2, <3>1
    <3>3. ~NotRead("MTQ_UPDATE", mode', 1, pos' - 1)
      <4>1. pos' - 1 = pos /\ pos \in 1 .. pos
        BY <1>3, <2>1, <2>3
      <4> QED
        BY <1>1, <2>3, <4>1 DEF NotRead, Op, OpAt
    <3> QED
      BY <3>2, <3>3 DEF Recent, NotRead, OpAt, there
  <2>4. CASE pos' = 1 /\ InCycle >= 90 /\ gap = InCycle' - InCycle + 100
    <3>1. since_mect_ms' = there - here + 100 /\ here >= 90
      BY <1>8, <2>4
    <3> HIDE DEF here, there
    <3>2. since_mect_ms' <= there + 10
      BY <2>2, <3>1
    <3>3. NotRead("MTQ_UPDATE", mode', 1, pos' - 1)
      BY <2>4 DEF NotRead
    <3> QED
      BY <3>2, <3>3 DEF Recent, NotRead, OpAt, there
  <2> QED
    BY <1>7, <2>3, <2>4
<1> QED
  BY <1>6, <1>9, <1>11, <1>12 DEF SpanInv, ResetIsDue

LEMMA SpanStep ==
    ASSUME Flight, Undisturbed, TypeOK, TypeOK', TimerInsideWindow, SpanInv, [Next]_vars
    PROVE  SpanInv'
<1>1. CASE UNCHANGED <<schedule, state, state_timer_ms, is_enable, is_config_buffered, config,
                       integrator_status, integral_ms>>
  <2>1. UNCHANGED <<mode, pos, late, since_mect_ms, since_integration_ms, state, state_timer_ms,
                    is_enable, is_config_buffered, config, integrator_status, integral_ms>>
    BY <1>1 DEF schedule
  <2>2. InCycle' = InCycle /\ Span' = Span /\ Elapsed' = Elapsed
    BY <2>1 DEF InCycle, Span, Elapsed, At
  <2>3. NotRead("MTQ_UPDATE", mode, 1, pos - 1)' <=> NotRead("MTQ_UPDATE", mode, 1, pos - 1)
    BY <2>1 DEF NotRead, OpAt
  <2>4. Recent'
    BY <2>1, <2>2, <2>3 DEF SpanInv, Recent, JustBooted
  <2> QED
    BY <2>1, <2>2, <2>4 DEF SpanInv, Calm, ResetIsDue, Spanned
<1>2. CASE Command
  <2>1. ASSUME NEW e \in EnableParams, SetEnable(e)
        PROVE  e = ENABLE
    BY <2>1 DEF SetEnable, Undisturbed
  <2>2. ASSUME NEW c \in DurationParams, SetDuration(c)
        PROVE  FALSE
    BY <2>2 DEF SetDuration, Undisturbed
  <2>3. UNCHANGED <<is_enable, is_config_buffered, integrator_status, integral_ms>>
    BY <1>2, <2>1, <2>2
    DEF Command, SetEnable, SetOutputRatio, DriveManually, mect, controller, SpanInv, Calm
  <2> QED
    BY <1>1, <1>2, <2>3, CommandStep
<1>3. CASE EndCdh \/ Bdot \/ TorqueLaw \/ \E s \in Sensor : ReadAndFilter(s)
  <2>1. /\ UNCHANGED <<state, state_timer_ms, is_enable, is_config_buffered, config,
                       integrator_status, integral_ms>>
        /\ Advance(since_mect_ms, since_integration_ms)
    BY <1>3 DEF EndCdh, Bdot, TorqueLaw, ReadAndFilter, mect, controller
  <2>2. Op # "MTQ_UPDATE"
    BY <1>3, TaskListAssumption DEF EndCdh, Bdot, TorqueLaw, ReadAndFilter
  <2>3. since_integration_ms \in Nat /\ integral_ms' + since_integration_ms <= Span
    <3>1. since_integration_ms \in Nat /\ Span \in Nat
      BY ClockTypes
    <3>2. integral_ms' + since_integration_ms = Span
      BY <2>1 DEF Span
    <3> QED
      BY <3>1, <3>2
  <2>4. ResetIsDue'
    BY <2>1 DEF SpanInv, ResetIsDue
  <2> QED
    BY <2>1, <2>2, <2>3, <2>4, WaitStep
<1>4. CASE MtqController
  <2>1. /\ UNCHANGED <<state, state_timer_ms, is_enable, is_config_buffered, config>>
        /\ Op # "MTQ_UPDATE" /\ Advance(since_mect_ms, 0)
        /\ ControllerExec(state, state_timer_ms, config["CONTROL"])
    BY <1>4 DEF MtqController, mect
  <2>2. integral_ms' <= Span /\ (state = "OBSERVE" => integrator_status' = "COMPLETED")
    BY <2>1, IntegralRun DEF TypeOK
  <2>3. 0 \in Nat /\ integral_ms' + 0 <= Span
    <3>1. integral_ms' \in Nat
      BY DEF TypeOK
    <3> QED
      BY <2>2, <3>1, PlusZero
  <2>4. ResetIsDue'
    BY <2>1, <2>2 DEF ResetIsDue
  <2> QED
    BY <2>1, <2>3, <2>4, WaitStep
<1>5. CASE MtqUpdate
  BY <1>5, TimerSpan
<1> QED
  BY <1>1, <1>2, <1>3, <1>4, <1>5 DEF Next, TaskListStep, vars, mect, controller

\* In flight, while the exclusive control is not disabled and the durations do not change,
\* the torque integral never covers more than one round of windows and what they overrun.
THEOREM TorqueSpan == ASSUME Flight, Undisturbed PROVE Spec => []TorqueSpanBounded
<1>1. Init => SpanInv
  BY SpanInit
<1>2. TypeOK /\ TypeOK' /\ TimerInsideWindow /\ SpanInv /\ [Next]_vars => SpanInv'
  BY SpanStep
<1>3. TypeOK /\ TimerInsideWindow /\ SpanInv => TorqueSpanBounded
  <2> SUFFICES ASSUME TypeOK, TimerInsideWindow, SpanInv
               PROVE  TorqueSpanBounded
    OBVIOUS
  <2>1. /\ integral_ms \in Nat /\ since_integration_ms \in Nat
        /\ state_timer_ms \in Nat /\ since_mect_ms \in Nat
        /\ config["CONTROL"] \in Nat /\ config["STANDBY"] \in Nat /\ config["OBSERVE"] \in Nat
    BY ClockTypes DEF Window
  <2>2. /\ JustBooted => since_mect_ms <= 109
        /\ ~JustBooted => since_mect_ms <= 59
    BY GapIsShort DEF SpanInv, LongestGap
  <2>3. integral_ms <= Span /\ Span = integral_ms + since_integration_ms
    BY <2>1 DEF Span
  <2>4. CycleLength = 100
    BY DEF Flight, CycleLength_ms
  <2>5. CASE JustBooted
    BY <2>1, <2>2, <2>3, <2>4, <2>5 DEF JustBooted, TorqueSpanBounded
  <2>6. CASE ~JustBooted /\ state = "CONTROL"
    BY <2>1, <2>2, <2>3, <2>4, <2>6
    DEF SpanInv, Spanned, Elapsed, TimerInsideWindow, TorqueSpanBounded
  <2>7. CASE ~JustBooted /\ state = "STANDBY"
    BY <2>1, <2>2, <2>3, <2>4, <2>7
    DEF SpanInv, Spanned, Elapsed, TimerInsideWindow, LongestGap, TorqueSpanBounded
  <2>8. CASE ~JustBooted /\ state = "OBSERVE"
    BY <2>1, <2>2, <2>3, <2>4, <2>8
    DEF SpanInv, Spanned, Elapsed, TimerInsideWindow, LongestGap, TorqueSpanBounded
  <2> QED
    BY <2>5, <2>6, <2>7, <2>8 DEF TypeOK, Window
<1> QED
  BY <1>1, <1>2, <1>3, TypeCorrect, NoWindowOverstayed, PTL DEF Spec

=============================================================================
